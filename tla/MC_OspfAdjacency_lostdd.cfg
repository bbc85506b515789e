\* Two routers, one lost message: the adjacency may never converge.
CONSTANTS
    Router <- MCRouter
    Peers <- MCPeers
    DDSeqStart = {0}
    MaxLoss = 1
    LossTypes = {"DD"}
    MaxDown = 0
    MaxCost = 0
    EarlyTimeout = FALSE
    None = None
SPECIFICATION FairSpec
CONSTRAINT StateBound
PROPERTIES Converges
