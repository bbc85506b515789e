\* Two routers, one lost update, one link-cost change, early timeouts: an acknowledgement of the old instance cancels the new one.
CONSTANTS
    Router <- MCRouter
    Peers <- MCPeers
    DDSeqStart = {0}
    MaxLoss = 1
    LossTypes = {"Upd"}
    MaxDown = 0
    MaxCost = 1
    EarlyTimeout = TRUE
    None = None
SPECIFICATION Spec
CONSTRAINT StateBound
INVARIANT SyncWhenQuiet
