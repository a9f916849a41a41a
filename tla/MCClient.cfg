\* Three servers, two of which may be registered when the client starts.
SPECIFICATION FairSpec
CONSTANTS
    Servers = {s1, s2, s3}
    NoServer = NoServer
    Worlds = {"any", "settled", "orderly"}
    MaxChanges <- MCMaxChanges
    MaxOpen = 3
INVARIANTS
    WatchNeverLost
    GateMeansBothRegistered
    
    SocketsOwned
PROPERTIES
    GateMeansMemory
    DiesOfNullOrQuit
    CallReachesRole
    CallsReturn
CHECK_DEADLOCK FALSE
