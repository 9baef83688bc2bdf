\* More permitted addresses than attempts; the two timeouts overlap with every write.
CONSTANTS
    Address <- MCAddress
    Canonical <- MCCanonical
    Permitted <- MCPermitted
    MaxConnectAttempts = 2
    Handshake = 2
    Connect = 2
    MaxResolved = 3
SPECIFICATION FairSpec
INVARIANTS
    TypeOK
    ServiceNeedsLogin
    ConversationLegal
    OnlyPermittedDialled
    RefusalExplained
    PreRelayBounded
PROPERTIES
    ImplementsTask
    LeavesEveryPhase
