CONSTANTS
  MaxPgno = 2
  Values = {zero, a}
  Zero = zero
  Torn = torn
  MaxCache = 1
  NoJournal = NoJournal
  MaxJournal = 2
  CrashPhases = {"idle", "flush"}
  IoFaults = TRUE
SPECIFICATION Spec
INVARIANTS TxnFlagsAgree DirtyIsJournaled JournalHoldsPreImage FileAndCacheAgree
PROPERTIES RollbackRestores CommitIsDurable
