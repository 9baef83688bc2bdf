------------------------------- MODULE Server -------------------------------
(***************************************************************************)
(* The life of the server: the accept loop, the admission of a client, the *)
(* connection tasks with their sockets and permits, the threads of the     *)
(* runtime for blocking work, and the graceful shutdown                    *)
(* (src/server/socks_server.rs, connection.rs, connector.rs, background.rs *)
(* and server_state.rs, and the shutdown of the runtime in main.rs).       *)
(*                                                                         *)
(* The processes are the main task (`run`), one task per admitted          *)
(* connection and the two background tasks.  They share the semaphore      *)
(* `connection_permits` and the tokens `force_close` and                   *)
(* `stop_background`.  Timers are not counted here: a timeout may fire     *)
(* whenever the future it bounds is not ready, and fairness says that it   *)
(* fires in the end.                                                       *)
(***************************************************************************)
EXTENDS Integers, Sequences, FiniteSets

CONSTANTS
    Conn,            \* the client connections that reach the listening socket
    MaxConnections,  \* the setting max_connections
    BlockingThreads  \* max_blocking_threads of the runtime, which main.rs leaves alone

\* Finitely many connections arrive; max_connections is at least 1
\* (ServerConfig::from_settings).
ASSUME ServerAssumption ==
    /\ IsFiniteSet(Conn)
    /\ MaxConnections \in Nat \ {0}
    /\ BlockingThreads \in Nat \ {0}

VARIABLES
    main,            \* where the main task is in `run`
    shutdown,        \* the shutdown signal has arrived
    available,       \* connection_permits: permits anybody may take
    assigned,        \* connection_permits: permits set aside for `acquire_many`
    drained,         \* what the last wait_for_connections returned
    forceClose,      \* the token force_close is cancelled
    stopBackground,  \* the token stop_background is cancelled
    background,      \* the background tasks that have not returned
    phase,           \* where each connection is
    client,          \* connections whose client socket is open
    target,          \* connections whose target socket is open
    reason,          \* why each connection task ended
    counted,         \* connections whose bytes are in the totals of ServerStats
    busy,            \* jobs that have a blocking thread
    queue            \* jobs that wait for one

vars == <<main, shutdown, available, assigned, drained, forceClose,
          stopBackground, background, phase, client, target, reason, counted,
          busy, queue>>

mainVars == <<main, shutdown, drained, forceClose, stopBackground, background>>
permitVars == <<available, assigned>>
connVars == <<phase, client, target, reason, counted>>
jobVars == <<busy, queue>>

-----------------------------------------------------------------------------
(* `run_connection` is at one of these points, each ended by a timeout.    *)
BeforeRelay == {"handshake", "resolving", "connecting", "refusing", "confirming"}
Running == BeforeRelay \cup {"relaying"}

Rejected == {"not_whitelisted", "banned", "over_limit"}

\* "pending": not accepted yet; "ending": `run_connection` is over and its
\* sockets are dropped, the permit is not; "logging": and its bytes have been
\* added to the totals; "aborted": dropped by the runtime.
Ending == {"ending", "logging"}
Phases == {"pending", "closed", "aborted"} \cup Running \cup Ending \cup Rejected

Reasons == {"none", "handshake", "connect", "confirm", "relay", "shutdown"}

MainSteps == {"accepting", "backoff", "draining", "grace", "forcing", "forced",
              "joining", "reporting", "stopped", "exited"}

BackgroundTasks == {"reporter", "purger"}

\* What is sent to the blocking threads: the lookup of a connection's domain,
\* and count_open_fds for the reporter or for the last stats line.
Jobs == Conn \cup {"reporter", "main"}

\* The jobs that have not ended.
Unfinished == busy \cup {queue[i] : i \in DOMAIN queue}

\* Connections whose task holds an OwnedSemaphorePermit.
Holders == {c \in Conn : phase[c] \in Running \cup Ending}

\* A queued `acquire_many` gets every released permit before anybody else.
Waiting == main \in {"grace", "forced"}

\* ServerState::active_connections, logged by drain and by the stats line.
ActiveConnections == MaxConnections - available

Init ==
    /\ main = "accepting"
    /\ shutdown = FALSE
    /\ available = MaxConnections
    /\ assigned = 0
    /\ drained = FALSE
    /\ forceClose = FALSE
    /\ stopBackground = FALSE
    /\ background = BackgroundTasks
    /\ phase = [c \in Conn |-> "pending"]
    /\ client = {}
    /\ target = {}
    /\ reason = [c \in Conn |-> "none"]
    /\ counted = {}
    /\ busy = {}
    /\ queue = <<>>

-----------------------------------------------------------------------------
(* The semaphore.                                                          *)

\* Dropping permits: the waiter is served first, the rest becomes available.
AddPermits(n) ==
    IF Waiting
    THEN assigned' = assigned + n /\ UNCHANGED available
    ELSE available' = available + n /\ UNCHANGED assigned

\* The first poll of `acquire_many`: it keeps whatever is available and
\* queues for the rest.
StartAcquireAll ==
    /\ assigned' = available
    /\ available' = 0

\* Mutant: the acquired permits are forgotten.
DropAcquiredForgets ==
    /\ assigned' = 0
    /\ UNCHANGED available

\* Dropping the `acquire_many` future, or the permits it has produced.
DropAcquired ==
    /\ available' = available + assigned
    /\ assigned' = 0

-----------------------------------------------------------------------------
(* The blocking threads: jobs are taken in the order of their arrival.     *)

Submit(j) ==
    IF Cardinality(busy) < BlockingThreads
    THEN busy' = busy \cup {j} /\ UNCHANGED queue
    ELSE queue' = Append(queue, j) /\ UNCHANGED busy

\* The thread goes on to the next job.
JobEnds(j) ==
    /\ j \in busy
    /\ IF queue = <<>>
       THEN busy' = busy \ {j} /\ UNCHANGED queue
       ELSE busy' = (busy \ {j}) \cup {Head(queue)} /\ queue' = Tail(queue)

-----------------------------------------------------------------------------
(* The accept loop.                                                        *)

\* `shutdown` completes: SIGTERM or SIGINT.
Signal ==
    /\ ~shutdown
    /\ shutdown' = TRUE
    /\ UNCHANGED <<main, drained, forceClose, stopBackground, background,
                   permitVars, jobVars, connVars>>

\* Mutant: the listener stays open during the grace period.
AcceptingWhileDraining == main \in {"accepting", "draining", "grace"}

\* The select is biased: nothing is accepted once the signal is there.
Accepting == main = "accepting" /\ ~shutdown

\* admit: a client that the whitelist or the ban list turns away.
RejectByPolicy(c) ==
    /\ Accepting
    /\ phase[c] = "pending"
    /\ \E why \in {"not_whitelisted", "banned"} :
          phase' = [phase EXCEPT ![c] = why]
    /\ UNCHANGED <<mainVars, permitVars, jobVars, client, target, reason, counted>>

\* admit: try_acquire_owned finds no permit.
RejectOverLimit(c) ==
    /\ Accepting
    /\ phase[c] = "pending"
    /\ available = 0
    /\ phase' = [phase EXCEPT ![c] = "over_limit"]
    /\ UNCHANGED <<mainVars, permitVars, jobVars, client, target, reason, counted>>

\* Mutant: one connection too many.
AdmitOneMore(c) ==
    /\ Accepting
    /\ phase[c] = "pending"
    /\ available >= 0
    /\ available' = available - 1
    /\ phase' = [phase EXCEPT ![c] = "handshake"]
    /\ client' = client \cup {c}
    /\ UNCHANGED <<mainVars, jobVars, assigned, target, reason, counted>>

\* admit: the connection gets a permit and a task of its own.
Admit(c) ==
    /\ Accepting
    /\ phase[c] = "pending"
    /\ available > 0
    /\ available' = available - 1
    /\ phase' = [phase EXCEPT ![c] = "handshake"]
    /\ client' = client \cup {c}
    /\ UNCHANGED <<mainVars, jobVars, assigned, target, reason, counted>>

\* accept() fails: log, then a pause.
AcceptFails ==
    /\ Accepting
    /\ main' = "backoff"
    /\ UNCHANGED <<shutdown, drained, forceClose, stopBackground, background,
                   permitVars, jobVars, connVars>>

BackoffOver ==
    /\ main = "backoff"
    /\ ~shutdown
    /\ main' = "accepting"
    /\ UNCHANGED <<shutdown, drained, forceClose, stopBackground, background,
                   permitVars, jobVars, connVars>>

\* The accept loop returns and the listener is dropped.
StopAccepting ==
    /\ main \in {"accepting", "backoff"}
    /\ shutdown
    /\ main' = "draining"
    /\ UNCHANGED <<shutdown, drained, forceClose, stopBackground, background,
                   permitVars, jobVars, connVars>>

-----------------------------------------------------------------------------
(* drain: two waits for all permits, the second one after force_close.     *)

BeginGrace ==
    /\ main = "draining"
    /\ main' = "grace"
    /\ StartAcquireAll
    /\ UNCHANGED <<shutdown, drained, forceClose, stopBackground, background,
                   jobVars, connVars>>

\* Mutant: the wait is for one permit less than there are.
AllButOneFinished ==
    /\ Waiting
    /\ assigned >= MaxConnections - 1
    /\ DropAcquired
    /\ drained' = TRUE
    /\ stopBackground' = TRUE
    /\ main' = "joining"
    /\ UNCHANGED <<shutdown, forceClose, background, jobVars, connVars>>

\* wait_for_connections returns true: in either wait every permit was
\* acquired.  `run` goes on to stop the background tasks.
AllConnectionsFinished ==
    /\ Waiting
    /\ assigned = MaxConnections
    /\ DropAcquired
    /\ drained' = TRUE
    /\ stopBackground' = TRUE
    /\ main' = "joining"
    /\ UNCHANGED <<shutdown, forceClose, background, jobVars, connVars>>

\* The grace period is over.  `timeout` polls the acquire before its timer,
\* so it does not fire when all permits are there.
GraceExpires ==
    /\ main = "grace"
    /\ assigned < MaxConnections
    /\ DropAcquired
    /\ forceClose' = TRUE
    /\ main' = "forcing"
    /\ UNCHANGED <<shutdown, drained, stopBackground, background, jobVars, connVars>>

BeginForcedWait ==
    /\ main = "forcing"
    /\ main' = "forced"
    /\ StartAcquireAll
    /\ UNCHANGED <<shutdown, drained, forceClose, stopBackground, background,
                   jobVars, connVars>>

\* Mutant: stop_background is not cancelled on this way out.
ForcedWaitExpiresEarlyReturn ==
    /\ main = "forced"
    /\ assigned < MaxConnections
    /\ DropAcquired
    /\ main' = "joining"
    /\ UNCHANGED <<shutdown, drained, forceClose, stopBackground, background,
                   jobVars, connVars>>

\* FORCE_CLOSE_WAIT is over with tasks left: a warning, and `run` goes on.
ForcedWaitExpires ==
    /\ main = "forced"
    /\ assigned < MaxConnections
    /\ DropAcquired
    /\ stopBackground' = TRUE
    /\ main' = "joining"
    /\ UNCHANGED <<shutdown, drained, forceClose, background, jobVars, connVars>>

\* report_stats: its ticker ticks, and log_stats waits for a thread.
ReporterTicks ==
    /\ "reporter" \in background \ Unfinished
    /\ Submit("reporter")
    /\ UNCHANGED <<mainVars, permitVars, connVars>>

ReporterLogs ==
    /\ JobEnds("reporter")
    /\ UNCHANGED <<mainVars, permitVars, connVars>>

\* report_stats or purge_bans returns; the reporter does so only in its
\* select, and not within log_stats.
BackgroundStops(b) ==
    /\ stopBackground
    /\ b \in background \ Unfinished
    /\ background' = background \ {b}
    /\ UNCHANGED <<main, shutdown, drained, forceClose, stopBackground,
                   permitVars, jobVars, connVars>>

\* Both background tasks are joined; `run` begins its last log_stats.
BackgroundJoined ==
    /\ main = "joining"
    /\ background = {}
    /\ main' = "reporting"
    /\ Submit("main")
    /\ UNCHANGED <<shutdown, drained, forceClose, stopBackground, background,
                   permitVars, connVars>>

\* The last stats line is written and `run` returns.
RunReturns ==
    /\ main = "reporting"
    /\ JobEnds("main")
    /\ main' = "stopped"
    /\ UNCHANGED <<shutdown, drained, forceClose, stopBackground, background,
                   permitVars, connVars>>

\* runtime.shutdown_timeout: tasks that are left are dropped where they
\* wait, with their sockets and permits, and lookups are abandoned.
RuntimeShutdown ==
    /\ main = "stopped"
    /\ main' = "exited"
    /\ AddPermits(Cardinality(Holders))
    /\ phase' = [c \in Conn |-> IF c \in Holders THEN "aborted" ELSE phase[c]]
    /\ client' = {}
    /\ target' = {}
    /\ busy' = {}
    /\ queue' = <<>>
    /\ UNCHANGED <<shutdown, drained, forceClose, stopBackground, background,
                   reason, counted>>

-----------------------------------------------------------------------------
(* A connection task: serve_connection around run_connection.              *)

\* The task goes on to another point of `run_connection`.
Goto(c, from, to) ==
    /\ phase[c] = from
    /\ phase' = [phase EXCEPT ![c] = to]

\* Mutant: the target socket outlives the task.
EndTaskKeepsTarget(c, why) ==
    /\ phase' = [phase EXCEPT ![c] = "ending"]
    /\ reason' = [reason EXCEPT ![c] = why]
    /\ client' = client \ {c}
    /\ UNCHANGED <<mainVars, permitVars, jobVars, target, counted>>

\* The select in serve_connection is over: the future of `run_connection`
\* is dropped, and the sockets it owns with it.  The permit is still held.
EndTask(c, why) ==
    /\ phase' = [phase EXCEPT ![c] = "ending"]
    /\ reason' = [reason EXCEPT ![c] = why]
    /\ client' = client \ {c}
    /\ target' = target \ {c}
    /\ UNCHANGED <<mainVars, permitVars, jobVars, counted>>

\* The client has named a target: an address, or a domain to be looked up.
HandshakeSucceeds(c) ==
    /\ \/ Goto(c, "handshake", "connecting") /\ UNCHANGED jobVars
       \/ Goto(c, "handshake", "resolving") /\ Submit(c)
    /\ UNCHANGED <<mainVars, permitVars, client, target, reason, counted>>

\* The handshake fails, or handshake_timeout_sec is over.
HandshakeFails(c) ==
    /\ phase[c] = "handshake"
    /\ EndTask(c, "handshake")

\* lookup_host returns: the first allowed address is dialled, or there is none
\* and the client is sent an error reply.  The lookup of a task that has ended
\* or given up goes on to its end all the same.
LookupEnds(c) ==
    /\ JobEnds(c)
    /\ \/ /\ Goto(c, "resolving", "connecting")
          /\ target' = target \cup {c}
       \/ /\ Goto(c, "resolving", "refusing")
          /\ UNCHANGED target
       \/ /\ phase[c] # "resolving"
          /\ UNCHANGED <<phase, target>>
    /\ UNCHANGED <<mainVars, permitVars, client, reason, counted>>

\* connect_to_target: a socket per address tried, one at a time.
DialAddress(c) ==
    /\ phase[c] = "connecting"
    /\ c \notin target
    /\ target' = target \cup {c}
    /\ UNCHANGED <<mainVars, permitVars, jobVars, phase, client, reason, counted>>

AddressFails(c) ==
    /\ phase[c] = "connecting"
    /\ c \in target
    /\ target' = target \ {c}
    /\ UNCHANGED <<mainVars, permitVars, jobVars, phase, client, reason, counted>>

Connected(c) ==
    /\ c \in target
    /\ Goto(c, "connecting", "confirming")
    /\ UNCHANGED <<mainVars, permitVars, jobVars, client, target, reason, counted>>

\* Mutant: a failed connect starts over instead of giving up.
ConnectFailsRetries(c) ==
    /\ phase[c] = "connecting"
    /\ target' = target \ {c}
    /\ UNCHANGED <<mainVars, permitVars, jobVars, phase, client, reason, counted>>

\* No address is allowed or answers, or connect_timeout_sec is over; the
\* client is sent an error reply.
ConnectFails(c) ==
    /\ \E from \in {"resolving", "connecting"} : Goto(c, from, "refusing")
    /\ target' = target \ {c}
    /\ UNCHANGED <<mainVars, permitVars, jobVars, client, reason, counted>>

\* send_reply is over, delivered or not.
RefusalSent(c) ==
    /\ phase[c] = "refusing"
    /\ EndTask(c, "connect")

ConfirmationSent(c) ==
    /\ Goto(c, "confirming", "relaying")
    /\ UNCHANGED <<mainVars, permitVars, jobVars, client, target, reason, counted>>

ConfirmationFails(c) ==
    /\ phase[c] = "confirming"
    /\ EndTask(c, "confirm")

RelayEnds(c) ==
    /\ phase[c] = "relaying"
    /\ EndTask(c, "relay")

\* The other branch of the select in serve_connection.
ForceClosed(c) ==
    /\ forceClose
    /\ phase[c] \in Running
    /\ EndTask(c, "shutdown")

\* Mutant: the permit is dropped, and the log line written, without the
\* bytes having been added.
CountBytesLater(c) ==
    /\ Goto(c, "ending", "logging")
    /\ UNCHANGED <<mainVars, permitVars, jobVars, client, target, reason, counted>>

\* serve_connection adds the bytes of the connection to the totals.
CountBytes(c) ==
    /\ Goto(c, "ending", "logging")
    /\ counted' = counted \cup {c}
    /\ UNCHANGED <<mainVars, permitVars, jobVars, client, target, reason>>

\* Mutant: the permit is never dropped.
ReleasePermitLeaks(c) ==
    /\ Goto(c, "logging", "closed")
    /\ UNCHANGED <<mainVars, permitVars, jobVars, client, target, reason, counted>>

\* The log line is written and the permit is dropped.
ReleasePermit(c) ==
    /\ Goto(c, "logging", "closed")
    /\ AddPermits(1)
    /\ UNCHANGED <<mainVars, jobVars, client, target, reason, counted>>

-----------------------------------------------------------------------------
LeaveHandshake(c) == HandshakeSucceeds(c) \/ HandshakeFails(c)
LeaveConnecting(c) == Connected(c) \/ ConnectFails(c)
LeaveConfirming(c) == ConfirmationSent(c) \/ ConfirmationFails(c)

AcceptLoop ==
    \/ \E c \in Conn : RejectByPolicy(c) \/ RejectOverLimit(c) \/ Admit(c)
    \/ AcceptFails
    \/ BackoffOver
    \/ StopAccepting

Drain ==
    \/ BeginGrace
    \/ AllConnectionsFinished
    \/ GraceExpires
    \/ BeginForcedWait
    \/ ForcedWaitExpires

Background ==
    \/ ReporterTicks
    \/ ReporterLogs
    \/ \E b \in BackgroundTasks : BackgroundStops(b)
    \/ BackgroundJoined
    \/ RunReturns
    \/ RuntimeShutdown

ConnectionTask(c) ==
    \/ LeaveHandshake(c)
    \/ LookupEnds(c)
    \/ DialAddress(c)
    \/ AddressFails(c)
    \/ LeaveConnecting(c)
    \/ RefusalSent(c)
    \/ LeaveConfirming(c)
    \/ RelayEnds(c)
    \/ ForceClosed(c)
    \/ CountBytes(c)
    \/ ReleasePermit(c)

\* The process is gone.
Exited ==
    /\ main = "exited"
    /\ UNCHANGED vars

Next ==
    \/ Signal
    \/ AcceptLoop
    \/ Drain
    \/ Background
    \/ \E c \in Conn : ConnectionTask(c)
    \/ Exited

Spec == Init /\ [][Next]_vars

\* What the code guarantees will happen: the main task and the background
\* tasks are scheduled and their timers fire, a connection task leaves every
\* point that a timeout bounds, and a lookup that has a thread ends in the end
\* (README.md, "until the system resolver gives up").  The reporter's select
\* takes its branches at random, so that it cannot miss the token for ever.
\* A relay may last as long as its peers keep it busy, and nobody has to send
\* the signal.
Fairness ==
    /\ WF_vars(BackoffOver)
    /\ WF_vars(StopAccepting)
    /\ WF_vars(Drain)
    /\ WF_vars(ReporterLogs)
    /\ \A b \in BackgroundTasks : SF_vars(BackgroundStops(b))
    /\ WF_vars(BackgroundJoined)
    /\ WF_vars(RunReturns)
    /\ WF_vars(RuntimeShutdown)
    /\ \A c \in Conn :
          /\ WF_vars(LeaveHandshake(c))
          /\ WF_vars(LookupEnds(c))
          /\ WF_vars(LeaveConnecting(c))
          /\ WF_vars(RefusalSent(c))
          /\ WF_vars(LeaveConfirming(c))
          /\ WF_vars(ForceClosed(c))
          /\ WF_vars(CountBytes(c))
          /\ WF_vars(ReleasePermit(c))

FairSpec == Spec /\ Fairness

-----------------------------------------------------------------------------
(* Properties.                                                             *)

TypeOK ==
    /\ main \in MainSteps
    /\ shutdown \in BOOLEAN
    /\ available \in 0 .. MaxConnections
    /\ assigned \in 0 .. MaxConnections
    /\ drained \in BOOLEAN
    /\ forceClose \in BOOLEAN
    /\ stopBackground \in BOOLEAN
    /\ background \subseteq BackgroundTasks
    /\ phase \in [Conn -> Phases]
    /\ client \subseteq Conn
    /\ target \subseteq Conn
    /\ reason \in [Conn -> Reasons]
    /\ counted \subseteq Conn
    /\ busy \subseteq Jobs
    /\ queue \in Seq(Jobs)

\* No permit is lost or made up: whatever way a connection task ends, and
\* whether or not a drain is taking permits meanwhile, the permits that are
\* free, set aside for the drain and held by connections are max_connections
\* in total (admit, serve_connection and wait_for_connections together).
PermitConservation ==
    available + assigned + Cardinality(Holders) = MaxConnections

\* A socket is open only while its connection holds a permit, so that
\* max_connections bounds the descriptors: "Every proxied connection holds
\* two descriptors" (raise_file_limit in main.rs).  serve_connection drops
\* the permit last.
DescriptorsBounded ==
    /\ client \cup target \subseteq Holders
    /\ Cardinality(client) + Cardinality(target) <= 2 * MaxConnections

\* wait_for_connections is "True once every permit is back, i.e. no client
\* connection is open": when it has returned true there is no task, no
\* socket and no permit in use, and there will be none any more.
DrainedMeansClosed ==
    drained =>
        /\ Holders = {}
        /\ client \cup target = {}
        /\ available = MaxConnections

\* After a complete drain the last stats line has the bytes of every connection
\* that was ever served: serve_connection adds them before it drops the permit
\* that drain waits for.
LastLineComplete ==
    drained /\ main \in {"stopped", "exited"} =>
        counted = {c \in Conn : phase[c] \notin Rejected \cup {"pending"}}

\* active_connections() is the number of connections that hold a permit
\* whenever drain itself is not waiting for permits, in particular in each
\* line that drain logs and in the last stats line.
ActiveConnectionsExact ==
    ~Waiting => ActiveConnections = Cardinality(Holders)

\* "Client connections currently open (each one holds a permit)", the doc of
\* active_connections, said of every moment at which the stats reporter may
\* log it, its descriptors being counted, and some connection is open.
StatsLineExact ==
    "reporter" \in busy /\ Holders # {}
        => ActiveConnections = Cardinality(Holders)

\* "connection limit reached" is never said of a server that is not full:
\* a client is turned away for the limit only while max_connections others
\* hold a permit (admit).  A drain that took permits with clients still
\* being admitted would break it.
LimitRejectsOnlyWhenFull ==
    [][\A c \in Conn :
          phase[c] # "over_limit" /\ phase'[c] = "over_limit"
              => Cardinality(Holders) = MaxConnections]_vars

\* Once a signal has arrived the process exits, however the connections
\* behave: each wait of drain is bounded and so is every other step of run,
\* the last stats line included, which needs a blocking thread and may find
\* all of them taken by lookups nobody waits for.
ShutdownCompletes == shutdown ~> main = "exited"

\* A client cannot keep its permit without reaching the relay: the
\* handshake, the connect and both replies are bounded by timeouts, and an
\* ended task gives the permit back.
PermitsComeBack ==
    \A c \in Conn :
        phase[c] \in BeforeRelay \cup Ending
            ~> phase[c] \in {"relaying", "closed", "aborted"}

\* The refinement mapping to what the documentation of max_connections and
\* shutdown_grace_sec promises.
Gone == {c \in Conn : phase[c] \in {"closed", "aborted"}}

Stage == CASE main \in {"accepting", "backoff"} -> "serving"
           [] main = "exited" -> "exited"
           [] OTHER -> "draining"

Pool == INSTANCE ConnectionPool WITH open <- Holders, gone <- Gone, stage <- Stage

\* The server implements that pool, liveness included.
ImplementsPool == Pool!Spec
=============================================================================
