\* Two routers, one lost request, update or acknowledgement and one link-cost change: still converges.
CONSTANTS
    Router <- MCRouter
    Peers <- MCPeers
    DDSeqStart = {0}
    MaxLoss = 1
    LossTypes = {"Req", "Upd", "Ack"}
    MaxDown = 0
    MaxCost = 1
    EarlyTimeout = FALSE
    None = None
SPECIFICATION FairSpec
CONSTRAINT StateBound
PROPERTIES Converges
