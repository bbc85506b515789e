CONSTANTS
    Orig = Orig
    Peer = Peer
    MaxAge = 12
    RefreshTime = 6
    MaxAgeDiff = 3
    WrapSeq = 5
    MaxChange = 1
    LinkFail = FALSE
    None = None
SPECIFICATION Spec
CONSTRAINT StateBound
INVARIANT
    OwnLsaCurrent
