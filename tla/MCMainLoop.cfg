\* Three clients, two slots, and the connection to the backup.
SPECIFICATION FairSpec
CONSTANTS
    Clients = {c1, c2, c3}
    NoClient = NoClient
    Backup = Backup
    NFDESC = 3
    MaxLinks = 1
    MaxClients <- MCMaxClients
    Worlds = {"any", "polite"}
INVARIANTS
    TypeOK
    NoClientForgotten
    SlotsKeepTheirClient
    PollWasRight
PROPERTIES
    StrayByBadNumber
    PoliteAreAnswered
CHECK_DEADLOCK FALSE
