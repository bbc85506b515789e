\* Three routers in a line, one lost request, update or acknowledgement: every adjacency still becomes FULL and every database the same.
CONSTANTS
    Router <- LineRouter
    Peers <- LinePeers
    DDSeqStart = {0}
    MaxLoss = 1
    LossTypes = {"Req", "Upd", "Ack"}
    MaxDown = 0
    MaxCost = 0
    EarlyTimeout = FALSE
    None = None
SPECIFICATION FairSpec
CONSTRAINT StateBound
INVARIANTS SyncAllWhenQuiet
PROPERTIES Converges
