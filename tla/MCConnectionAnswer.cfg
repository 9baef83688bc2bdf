CONSTANTS
    Address <- MCAddress
    Canonical <- MCCanonical
    Permitted <- MCPermitted
    MaxConnectAttempts = 2
    Handshake = 2
    Connect = 2
    MaxResolved = 3
SPECIFICATION Spec
INVARIANTS
    MatchingAnswerSent
