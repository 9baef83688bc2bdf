------------------------- MODULE ConnectionInServer -------------------------
(***************************************************************************)
(* The task of Connection is the connection task of Server: what Server    *)
(* sees of it, and that it implements it.                                  *)
(***************************************************************************)
EXTENDS Connection

\* Where the task is, and why it has ended.
TaskPhase ==
    IF step \in HandshakeSteps THEN "handshake"
    ELSE IF step = "resolving" /\ target = "domain" THEN "resolving"
    ELSE IF step \in ConnectSteps THEN "connecting"
    ELSE step

TaskReason ==
    IF step \notin {"ending", "logging", "closed"} THEN "none"
    ELSE IF reason = "shutdown" THEN "shutdown"
    ELSE IF reason \in RelayReasons THEN "relay"
    ELSE IF reason \in ConnectReasons THEN "connect"
    ELSE IF target_addr = None THEN "handshake"
    ELSE "confirm"

This == "this"
If(condition) == IF condition THEN {This} ELSE {}

\* What the task holds, as Server sees it, and whether its bytes are counted.
TaskClient == If(step \in BeforeRelay \cup {"relaying"})
TaskTarget == If(step \in {"dialling", "confirming", "relaying"})
TaskCounted == If(step \in {"logging", "closed"})
TaskLookup == If(lookup)
PermitsLeft == IF step = "closed" THEN 1 ELSE 0

Task == INSTANCE Server WITH
    Conn <- {This},
    MaxConnections <- 1,
    BlockingThreads <- 1,
    main <- "accepting",
    shutdown <- FALSE,
    available <- PermitsLeft,
    assigned <- 0,
    drained <- FALSE,
    stopBackground <- FALSE,
    background <- {},
    phase <- [c \in {This} |-> TaskPhase],
    client <- TaskClient,
    target <- TaskTarget,
    reason <- [c \in {This} |-> TaskReason],
    counted <- TaskCounted,
    busy <- TaskLookup,
    queue <- <<>>

\* Each step of this module is a step of that task, or nothing that Server
\* sees: sockets, the permit and the blocking thread are held and given back
\* as Server says.
ImplementsTask == [][Task!ConnectionTask(This)]_<<Task!connVars, Task!jobVars>>
=============================================================================
