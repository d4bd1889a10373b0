SPECIFICATION Spec
CONSTANTS
    c1 = c1
    c2 = c2
    NoClient = NoClient
    Clients <- MCClients
    Fds <- TwoFds
    Listeners <- MCListeners
    MaxEvents = 100
    MaxPieces = 1
    MaxSends = 2
    Faults <- AllFaults
SYMMETRY ClientSymmetry
INVARIANT TypeOK
INVARIANT MapMatchesDescriptors
INVARIANT OneDescriptorPerClient
INVARIANT KnotesFollowConnections
INVARIANT NothingIsKeptForTheAbsent
PROPERTY FinalReplyStands
PROPERTY ClosesWithReason
