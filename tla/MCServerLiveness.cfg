\* One connection too many; no symmetry, since liveness is checked.
CONSTANTS
    Conn = {c1, c2}
    MaxConnections = 1
    BlockingThreads = 1
SPECIFICATION FairSpec
PROPERTIES
    ShutdownCompletes
    PermitsComeBack
    ImplementsPool
