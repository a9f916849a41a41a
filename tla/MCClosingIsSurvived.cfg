\* Two clients, one of which may close its connection without a quit.
SPECIFICATION FairSpec
CONSTANTS
    Clients = {c1, c2}
    NoClient = NoClient
    Backup = Backup
    NFDESC = 3
    MaxLinks = 1
    MaxClients <- MCMaxClients
    Worlds = {"closes"}
PROPERTY
    ClosingIsSurvived
CHECK_DEADLOCK FALSE
