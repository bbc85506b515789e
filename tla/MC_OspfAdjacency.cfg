\* Two routers, one lost message, one inactivity expiry, early timeouts.
CONSTANTS
    Router <- MCRouter
    Peers <- MCPeers
    DDSeqStart = {0}
    MaxLoss = 1
    LossTypes = {"DD", "Req", "Upd", "Ack"}
    MaxDown = 1
    MaxCost = 0
    EarlyTimeout = TRUE
    None = None
SPECIFICATION Spec
CONSTRAINT StateBound
INVARIANTS TypeOK MasterSlaveConsistent SyncWhenQuiet
PROPERTIES RefinesNeighbourFSM
