\* Banning is switched off; both background tasks call in.
CONSTANTS
    a1 = a1  a2 = a2  a3 = a3  a4 = a4
    Attempt <- ThreeAttempts
    Background = {"purger", "reporter"}
    PeerOf <- MCPeerOf
    MaxFailures = 0
    Window = 2
    Duration = 2
    MaxTracked = 1
    PurgeInterval = 1
    MaxDelay = 1
    MaxTime = 2
SPECIFICATION Spec
CHECK_DEADLOCK FALSE
INVARIANTS
    RejectionJustified
