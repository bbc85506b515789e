\* Two routers, one inactivity expiry, one link-cost change: the dead link listed up again.
CONSTANTS
    Router <- MCRouter
    Peers <- MCPeers
    DDSeqStart = {0}
    MaxLoss = 0
    LossTypes = {"DD", "Req", "Upd", "Ack"}
    MaxDown = 1
    MaxCost = 1
    EarlyTimeout = FALSE
    None = None
SPECIFICATION Spec
CONSTRAINT StateBound
PROPERTY LinkUpOnlyOnHello
