SPECIFICATION FairSpec
CONSTANTS
    c1 = c1
    c2 = c2
    NoClient = NoClient
    Clients <- MCClients
    Fds <- TwoFds
    Listeners <- MCListeners
    MaxEvents = 100
    MaxPieces = 1
    MaxSends = 1
    Faults <- Idle
PROPERTY EveryConnectionIsReleased
