\* What tree_skel.h says of verify: an answer of 1 means executed.
SPECIFICATION Spec
CONSTANTS
    Keys = {k1, k2}
    Values = {a}
    NoKey = NoKey
    NoData = NoData
    NoRequest = NoRequest
    Requests <- BackupRequests
    MaxOps = 3
    SockBuf = 1
PROPERTY
    VerifyOneIsExecuted
