CONSTANTS
  a = a
  b = b
  Order <- MCOrder
  Deps <- MCDeps
  Runners = {r1, r2}
  NoRunner = NoRunner
  NoTask = NoTask
  RetryLimit = 2
  FailLimit = 1
  MaxDeaths = 1
  MaxEdits = 2
  MaxStrays = 1
SPECIFICATION Spec
INVARIANTS DoneWasVerified DependenciesStayDone RetriesAreBounded CommitsAreTested
PROPERTIES EditsAreKept QueueDrains
CHECK_DEADLOCK FALSE
