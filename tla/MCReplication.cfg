\* Both servers, puts and deletions of two keys, a backup that may join late.
SPECIFICATION Spec
CONSTANTS
    Keys = {k1, k2}
    Values = {a}
    NoKey = NoKey
    NoData = NoData
    NoRequest = NoRequest
    Writes <- AllWrites
    Reads <- NoReads
    MaxOps = 3
    SockBuf = 1
    AckBuf = 3
    LateBackup = TRUE
SYMMETRY KeySymmetry
INVARIANTS
    TypeOK
    BackupFollows
    NothingLostThenEqual
    SameNumbers
