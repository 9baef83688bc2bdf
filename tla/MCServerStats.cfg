CONSTANTS
    Conn = {c1, c2}
    MaxConnections = 2
    BlockingThreads = 1
SPECIFICATION Spec
INVARIANT StatsLineExact
