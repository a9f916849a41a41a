\* Both servers, and a connection that fills with answers nobody reads, until
\* the backup, and the primary behind it, stop for good.
SPECIFICATION FairSpec
CONSTANTS
    Keys = {k1}
    Values = {a}
    NoKey = NoKey
    NoData = NoData
    NoRequest = NoRequest
    Writes <- Puts
    Reads <- Gets
    MaxOps = 6
    SockBuf = 1
    AckBuf = 2
    LateBackup = FALSE
PROPERTIES
    PrimaryServed
    BackupServed
CHECK_DEADLOCK FALSE
