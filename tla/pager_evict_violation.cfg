CONSTANTS
  MaxPgno = 2
  Values = {zero, a}
  Zero = zero
  Torn = torn
  MaxCache = 1
  NoJournal = NoJournal
  MaxJournal = 3
  CrashPhases = {"idle"}
  IoFaults = FALSE
SPECIFICATION Spec
PROPERTY CommitFlushesEveryWrite
