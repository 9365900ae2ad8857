CONSTANTS
  Null = Null
  Identifier = Identifier
  Threads = {p, q}
  Nobody = Nobody
  Names = {"a", "b", "t"}
  Prepared <- MCPrepared
  Scripts <- MCScripts
  Garbage = Garbage
  Blank = Blank
  NoStmt = NoStmt
  MaxRows = 2
SPECIFICATION Spec
INVARIANTS RowsAreOfOneMoment OneEffectPerReset RowsAreSound ErrorsAreRecent
PROPERTIES ImplementsDatabase
SYMMETRY Symmetry
