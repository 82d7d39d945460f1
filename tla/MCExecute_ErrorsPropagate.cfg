CONSTANTS
    NONE = NONE
    Alias <- MCAlias
    DNode <- MCDNode
    ScanOrder <- MCScanOrder
    Graphs <- MCGraphs
    Plans <- MCPlans
    MaxResetFailures = 1
SPECIFICATION Spec
CHECK_DEADLOCK FALSE
INVARIANT ErrorsPropagate
