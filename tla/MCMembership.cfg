\* Servers started and killed at any moment, or when the others are done.
SPECIFICATION FairSpec
CONSTANTS
    Servers = {s1, s2, s3, s4}
    NoServer = NoServer
    Startable <- MCStartable
INVARIANTS
    TypeOK
    WatchNeverLost
    StartsAreSafe
    EveryServerHasRole
    PrimaryLinked
PROPERTIES
    BackupTakesOver
CHECK_DEADLOCK FALSE
