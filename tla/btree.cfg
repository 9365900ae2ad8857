CONSTANTS
    Trees <- MCTrees
    Roots <- MCRoots
    PageSize = 32
    VarintBytes = 3
SPECIFICATION Spec
INVARIANTS
    ScanIsLeftmostLeaf
    FailuresAreTheFiles
PROPERTIES
    DescentEnds
