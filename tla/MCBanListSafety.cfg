CONSTANTS
    a1 = a1  a2 = a2  a3 = a3  a4 = a4
    Attempt <- FourAttempts
    Background = {"purger"}
    PeerOf <- MCPeerOf
    MaxFailures = 2
    Window = 2
    Duration = 2
    MaxTracked = 1
    PurgeInterval = 1
    MaxDelay = 1
    MaxTime = 4
SPECIFICATION Spec
SYMMETRY Symmetry
CHECK_DEADLOCK FALSE
INVARIANTS
    TableBounded
    BanHolds
    BannedStayOut
    GuessesBounded
    RejectionJustified
