CONSTANTS
    NONE = NONE
    Alias <- MCAlias
    Labelled = {}
    Matches <- MCChainMatches
    Preds <- MCPreds
    MaxOps = 12
    DNode <- MCDNode
    ScanOrder <- MCScanOrder
    Graphs <- MCUnlabelledGraphs
    MaxResetFailures = 1
INIT Init
NEXT Next
CHECK_DEADLOCK FALSE
INVARIANT QueryAnswered
