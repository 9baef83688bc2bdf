\* More connections than permits, so that the limit is met and permits are reused;
\* lookups and stats lines share one blocking thread.
CONSTANTS
    Conn = {c1, c2, c3, c4}
    MaxConnections = 2
    BlockingThreads = 1
SPECIFICATION Spec
SYMMETRY Symmetry
INVARIANTS
    PermitConservation
    DescriptorsBounded
    DrainedMeansClosed
    LastLineComplete
    ActiveConnectionsExact
PROPERTIES
    LimitRejectsOnlyWhenFull
