CONSTANTS
    Procs = {p1, p2}
    PRs = {1}
    Runs = {1, 2}
    Failing = {1, 2}
    Limit = 1
    NoProc = NoProc
    MaxUpdates = 2
    MaxFaults = 1
SPECIFICATION Spec
INVARIANTS
    TriggeredOnce
    SeenIsTriggered
PROPERTIES
    ChangesAreHandled
