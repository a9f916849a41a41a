\* What client_stub.h says of rtree_put, for a backup connected from the start.
SPECIFICATION Spec
CONSTANTS
    Keys = {k1}
    Values = {a}
    NoKey = NoKey
    NoData = NoData
    NoRequest = NoRequest
    Writes <- Puts
    Reads <- Gets
    MaxOps = 2
    SockBuf = 1
    AckBuf = 2
    LateBackup = FALSE
INVARIANT
    PutsReachBackup
