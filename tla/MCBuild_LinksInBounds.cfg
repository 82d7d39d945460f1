CONSTANTS
    NONE = NONE
    Alias <- MCAlias
    Labelled = {"b"}
    Matches <- MCMatches
    Preds <- MCPreds
    MaxOps = 20
INIT Init
NEXT Next
CHECK_DEADLOCK FALSE
INVARIANT LinksInBounds
