CONSTANTS
    IdleMs = 2
    TicksPerMs = 1
    Slack = 1
    BufferSize = 1
    MaxBytes = 1
SPECIFICATION Spec
INVARIANT
    CompletedMeansForwarded
