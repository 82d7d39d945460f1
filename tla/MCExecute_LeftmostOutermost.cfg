CONSTANTS
    NONE = NONE
    Alias <- MCAlias
    DNode <- MCDNode
    ScanOrder <- MCScanOrder
    Graphs <- MCGraphs
    Plans <- MCPlans
    MaxResetFailures = 0
SPECIFICATION Spec
CHECK_DEADLOCK FALSE
INVARIANT LeftmostOutermost
