CONSTANTS
    NONE = NONE
    Alias <- MCAlias
    Labelled = {"b"}
    Matches <- MCChainMatches
    Preds <- MCPreds
    MaxOps = 12
    DNode <- MCDNode
    ScanOrder <- MCScanOrder
    Graphs <- MCGraphs
    MaxResetFailures = 0
INIT Init
NEXT Next
CHECK_DEADLOCK FALSE
INVARIANT QueryAnswered
