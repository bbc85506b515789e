CONSTANTS
    Orig = Orig
    Peer = Peer
    MaxAge = 12
    RefreshTime = 6
    MaxAgeDiff = 3
    WrapSeq = 5
    MaxChange = 1
    LinkFail = TRUE
    None = None
SPECIFICATION Spec
CONSTRAINT StateBound
INVARIANTS
    TypeOK
    UpdatesClassifiedAsSpec
    FaultFreeOwnLsaCurrent
    FaultFreeNoLsaBeyondMaxAge
PROPERTIES
    InstallsOnlyNewer
