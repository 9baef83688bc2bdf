CONSTANTS
    IdleMs = 2
    TicksPerMs = 2
    Slack = 1
    BufferSize = 2
    MaxBytes = 2
SPECIFICATION FairSpec
INVARIANTS
    TypeOK
    IdleOnTime
    BlameIsRight
PROPERTIES
    RelayEnds
    ImplementsTunnel
