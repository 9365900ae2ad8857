CONSTANTS
  Null = Null
  Identifier = Identifier
  Names = {"a", "b", "c", "t", "u"}
  Statements <- MCStatements
  Schemas <- MCSchemas
SPECIFICATION Spec
INVARIANTS ScanFollowsTable StatementIsExact
PROPERTIES Terminates
CHECK_DEADLOCK FALSE
