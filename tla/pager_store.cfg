CONSTANTS
  MaxPgno = 3
  Values = {zero, a}
  Zero = zero
  Torn = torn
  MaxCache = 3
  NoJournal = NoJournal
  MaxJournal = 3
  CrashPhases = {"idle"}
  IoFaults = FALSE
SPECIFICATION Spec
PROPERTY ImplementsPagedStore
