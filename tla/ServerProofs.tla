---------------------------- MODULE ServerProofs ----------------------------
(***************************************************************************)
(* Proofs about module Server, for every finite set of connections and     *)
(* every max_connections.                                                  *)
(***************************************************************************)
EXTENDS Server, FiniteSetTheorems, TLAPS

\* The inductive invariant.  Conservation alone is not inductive: releasing a
\* permit adds it to `assigned` or to `available`, and dropping the acquire
\* moves what is assigned, so the invariant says which of the two can be
\* nonzero in which step of drain.
IInv ==
    /\ TypeOK
    /\ PermitConservation
    /\ ~Waiting => assigned = 0
    /\ Waiting => available = 0
    /\ client \cup target \subseteq {c \in Conn : phase[c] \in Running}
    /\ drained => Holders = {} /\ main \in {"joining", "reporting", "stopped", "exited"}
    /\ main = "exited" => Holders = {}

-----------------------------------------------------------------------------
(* The set of permit holders.                                              *)

\* The holders are finitely many, so they can be counted.
LEMMA HoldersFinite ==
    /\ IsFiniteSet(Holders)
    /\ Cardinality(Holders) \in Nat
    /\ Cardinality(Holders) = 0 <=> Holders = {}
<1>1. Holders \subseteq Conn
    BY DEF Holders
<1>2. IsFiniteSet(Holders)
    BY <1>1, FS_Subset, ServerAssumption
<1> QED
    BY <1>2, FS_CardinalityType, FS_EmptySet

\* admit makes one connection more a holder.
LEMMA HoldersAdd ==
    ASSUME NEW c \in Conn, c \notin Holders, Holders' = Holders \cup {c}
    PROVE  Cardinality(Holders') = Cardinality(Holders) + 1
BY HoldersFinite, FS_AddElement

\* A task that drops its permit is no longer a holder.
LEMMA HoldersRemove ==
    ASSUME NEW c \in Conn, c \in Holders, Holders' = Holders \ {c}
    PROVE  Cardinality(Holders') = Cardinality(Holders) - 1
BY HoldersFinite, FS_RemoveElement

-----------------------------------------------------------------------------
(* The jobs of the blocking threads.                                       *)

JobsOK == busy \subseteq Jobs /\ queue \in Seq(Jobs)

\* Jobs stay jobs, whoever submits one or ends.
LEMMA JobsTyped ==
    ASSUME JobsOK, NEW j \in Jobs, Submit(j) \/ JobEnds(j)
    PROVE  JobsOK'
<1>1. CASE Submit(j)
    BY <1>1 DEF Submit, JobsOK
<1>2. CASE JobEnds(j)
    <2>1. CASE queue = <<>>
        BY <1>2, <2>1 DEF JobEnds, JobsOK
    <2>2. CASE queue # <<>>
        <3>1. Head(queue) \in Jobs /\ Tail(queue) \in Seq(Jobs)
            BY <2>2 DEF JobsOK
        <3> QED
            BY <1>2, <2>2, <3>1 DEF JobEnds, JobsOK
    <2> QED
        BY <2>1, <2>2
<1> QED
    BY <1>1, <1>2

-----------------------------------------------------------------------------
(* The inductive invariant, one lemma per process.                         *)

\* A server that has just been bound satisfies the invariant.
LEMMA InitIInv == Init => IInv
<1> SUFFICES ASSUME Init PROVE IInv
    OBVIOUS
<1>1. TypeOK
    <2>1. available \in 0 .. MaxConnections /\ assigned \in 0 .. MaxConnections
        BY ServerAssumption DEF Init
    <2>2. phase \in [Conn -> Phases] /\ reason \in [Conn -> Reasons]
        BY DEF Init, Phases, Reasons
    <2>3. JobsOK /\ counted = {}
        BY DEF Init, JobsOK
    <2> QED
        BY <2>1, <2>2, <2>3, Zenon DEF Init, TypeOK, JobsOK, MainSteps
<1>2. Holders = {}
    BY DEF Init, Holders, Running, Ending, BeforeRelay
<1>3. PermitConservation
    BY <1>2, FS_EmptySet, ServerAssumption DEF Init, PermitConservation
<1> QED
    BY <1>1, <1>2, <1>3 DEF Init, IInv, Waiting

\* The accept loop admits, rejects, pauses or stops.
LEMMA AcceptLoopIInv == IInv /\ AcceptLoop => IInv'
<1> SUFFICES ASSUME IInv, AcceptLoop PROVE IInv'
    OBVIOUS
<1> USE ServerAssumption DEF mainVars, permitVars, connVars, jobVars
<1>1. ASSUME NEW c \in Conn, RejectByPolicy(c) \/ RejectOverLimit(c)
      PROVE  IInv'
    <2>1. TypeOK'
        BY <1>1 DEF RejectByPolicy, RejectOverLimit, IInv, TypeOK, Phases, Rejected
    <2>2. Holders' = Holders
        BY <1>1 DEF RejectByPolicy, RejectOverLimit, IInv, TypeOK, Holders,
                    Running, Ending, BeforeRelay
    <2>3. \A d \in Conn : phase[d] \in Running => phase'[d] \in Running
        BY <1>1 DEF RejectByPolicy, RejectOverLimit, IInv, TypeOK, Running, Ending,
                    BeforeRelay
    <2> QED
        BY <1>1, <2>1, <2>2, <2>3
        DEF IInv, PermitConservation, Waiting, RejectByPolicy, RejectOverLimit
<1>2. ASSUME NEW c \in Conn, Admit(c)
      PROVE  IInv'
    <2>1. TypeOK'
        BY <1>2 DEF Admit, IInv, TypeOK, Phases, Running, Ending, BeforeRelay
    <2>2. c \notin Holders /\ Holders' = Holders \cup {c}
        BY <1>2 DEF Admit, IInv, TypeOK, Holders, Running, Ending, BeforeRelay
    <2>3. Cardinality(Holders') = Cardinality(Holders) + 1
        BY <2>2, HoldersAdd
    <2>4. PermitConservation'
        BY <1>2, <2>3, HoldersFinite
        DEF Admit, IInv, TypeOK, PermitConservation
    <2>5. (client \cup target \subseteq {d \in Conn : phase[d] \in Running})'
        BY <1>2 DEF Admit, IInv, TypeOK, Running, Ending, BeforeRelay
    <2>6. main = "accepting" /\ ~Waiting /\ ~drained
        BY <1>2 DEF Admit, Accepting, IInv, Waiting
    <2> QED
        BY <1>2, <2>1, <2>4, <2>5, <2>6 DEF Admit, IInv, Waiting
<1>3. ASSUME AcceptFails \/ BackoffOver \/ StopAccepting
      PROVE  IInv'
    <2>1. TypeOK'
        BY <1>3 DEF AcceptFails, BackoffOver, StopAccepting, IInv, TypeOK, MainSteps
    <2>2. Holders' = Holders
        BY <1>3 DEF AcceptFails, BackoffOver, StopAccepting, Holders
    <2> QED
        BY <1>3, <2>1, <2>2
        DEF AcceptFails, BackoffOver, StopAccepting, Accepting, IInv, Waiting,
            PermitConservation
<1> QED
    BY <1>1, <1>2, <1>3 DEF AcceptLoop

\* drain moves permits between `assigned` and `available`, never out of them.
LEMMA DrainIInv == IInv /\ Drain => IInv'
<1> SUFFICES ASSUME IInv, Drain PROVE IInv'
    OBVIOUS
<1> USE ServerAssumption DEF connVars, jobVars
<1>1. Holders' = Holders
    BY DEF Drain, BeginGrace, AllConnectionsFinished, GraceExpires,
           BeginForcedWait, ForcedWaitExpires, Holders
<1>2. UNCHANGED connVars
    BY DEF Drain, BeginGrace, AllConnectionsFinished, GraceExpires,
           BeginForcedWait, ForcedWaitExpires
<1>3. CASE BeginGrace \/ BeginForcedWait
    <2>1. ~drained /\ Waiting'
        BY <1>3 DEF BeginGrace, BeginForcedWait, IInv, Waiting
    <2>2. available' = 0 /\ assigned' = available /\ assigned = 0
        BY <1>3 DEF BeginGrace, BeginForcedWait, StartAcquireAll, IInv, Waiting
    <2>3. TypeOK'
        BY <1>2, <1>3, <2>2
        DEF BeginGrace, BeginForcedWait, IInv, TypeOK, MainSteps
    <2>4. PermitConservation'
        BY <1>1, <2>2, HoldersFinite DEF IInv, TypeOK, PermitConservation
    <2> QED
        BY <1>2, <1>3, <2>1, <2>2, <2>3, <2>4
        DEF BeginGrace, BeginForcedWait, IInv
<1>4. CASE GraceExpires \/ ForcedWaitExpires
    <2>1. ~drained /\ Waiting /\ ~Waiting'
        BY <1>4 DEF GraceExpires, ForcedWaitExpires, IInv, Waiting
    <2>2. available' = assigned /\ assigned' = 0 /\ available = 0
        BY <1>4, <2>1 DEF GraceExpires, ForcedWaitExpires, DropAcquired, IInv, TypeOK
    <2>3. TypeOK'
        BY <1>2, <1>4, <2>2
        DEF GraceExpires, ForcedWaitExpires, IInv, TypeOK, MainSteps
    <2>4. PermitConservation'
        BY <1>1, <2>2, HoldersFinite DEF IInv, TypeOK, PermitConservation
    <2> QED
        BY <1>2, <1>4, <2>1, <2>2, <2>3, <2>4
        DEF GraceExpires, ForcedWaitExpires, IInv
<1>5. CASE AllConnectionsFinished
    <2>1. Cardinality(Holders) = 0
        BY <1>5, HoldersFinite
        DEF AllConnectionsFinished, IInv, TypeOK, PermitConservation
    <2>2. Holders = {}
        BY <2>1, HoldersFinite
    <2> QED
        BY <1>1, <1>2, <1>5, <2>2
        DEF AllConnectionsFinished, DropAcquired, IInv, TypeOK, MainSteps,
            PermitConservation, Waiting
<1> QED
    BY <1>3, <1>4, <1>5 DEF Drain

\* The background tasks, the end of `run` and of the runtime.
LEMMA BackgroundIInv == IInv /\ Background => IInv'
<1> SUFFICES ASSUME IInv, Background PROVE IInv'
    OBVIOUS
<1> USE ServerAssumption DEF mainVars, connVars, permitVars, jobVars
<1>0. JobsOK /\ "reporter" \in Jobs /\ "main" \in Jobs
    BY DEF IInv, TypeOK, JobsOK, Jobs
<1>1. CASE ReporterTicks \/ ReporterLogs
    <2>1. Holders' = Holders
        BY <1>1 DEF ReporterTicks, ReporterLogs, Holders
    <2>2. JobsOK'
        BY <1>0, <1>1, JobsTyped DEF ReporterTicks, ReporterLogs
    <2>3. UNCHANGED <<mainVars, connVars, permitVars>>
        BY <1>1 DEF ReporterTicks, ReporterLogs
    <2> QED
        BY <2>1, <2>2, <2>3 DEF JobsOK, IInv, TypeOK, PermitConservation, Waiting
<1>2. ASSUME NEW b \in BackgroundTasks, BackgroundStops(b)
      PROVE  IInv'
    <2>1. Holders' = Holders
        BY <1>2 DEF BackgroundStops, Holders
    <2> QED
        BY <1>2, <2>1 DEF BackgroundStops, IInv, TypeOK, PermitConservation, Waiting
<1>3. CASE BackgroundJoined \/ RunReturns
    <2>1. Holders' = Holders
        BY <1>3 DEF BackgroundJoined, RunReturns, Holders
    <2>2. JobsOK'
        BY <1>0, <1>3, JobsTyped DEF BackgroundJoined, RunReturns
    <2>3. /\ UNCHANGED <<shutdown, drained, forceClose, stopBackground, background,
                        connVars, permitVars>>
          /\ main \in {"joining", "reporting"}
          /\ main' \in {"reporting", "stopped"}
        BY <1>3 DEF BackgroundJoined, RunReturns
    <2> QED
        BY <2>1, <2>2, <2>3
        DEF JobsOK, IInv, TypeOK, MainSteps, PermitConservation, Waiting
<1>4. CASE RuntimeShutdown
    <2>1. Holders' = {}
        BY <1>4 DEF RuntimeShutdown, IInv, TypeOK, Holders, Running, Ending, BeforeRelay
    <2>2. available' = available + Cardinality(Holders) /\ assigned' = assigned
        BY <1>4 DEF RuntimeShutdown, AddPermits, Waiting
    <2>3. Cardinality(Holders') = 0
        BY <2>1, FS_EmptySet
    <2>4. JobsOK'
        BY <1>4 DEF RuntimeShutdown, JobsOK
    <2>5. TypeOK' /\ PermitConservation'
        BY <1>4, <2>2, <2>3, <2>4, HoldersFinite
        DEF RuntimeShutdown, JobsOK, IInv, TypeOK, MainSteps, Phases, PermitConservation
    <2> QED
        BY <1>4, <2>1, <2>2, <2>5 DEF RuntimeShutdown, IInv, Waiting
<1> QED
    BY <1>1, <1>2, <1>3, <1>4 DEF Background

\* A step of a connection task: only dropping the permit changes the holders.
LEMMA ConnectionTaskIInv ==
    ASSUME NEW c \in Conn
    PROVE  IInv /\ ConnectionTask(c) => IInv'
<1> SUFFICES ASSUME IInv, ConnectionTask(c) PROVE IInv'
    OBVIOUS
<1> USE ServerAssumption DEF mainVars, permitVars, jobVars
<1>1. ASSUME NEW why \in Reasons, phase[c] \in Running, EndTask(c, why)
      PROVE  IInv'
    <2>1. TypeOK'
        BY <1>1 DEF EndTask, IInv, TypeOK, Phases, Ending
    <2>2. Holders' = Holders
        BY <1>1 DEF EndTask, IInv, TypeOK, Holders, Running, Ending, BeforeRelay
    <2>3. (client \cup target \subseteq {d \in Conn : phase[d] \in Running})'
        BY <1>1 DEF EndTask, IInv, TypeOK, Running, Ending, BeforeRelay
    <2> QED
        BY <1>1, <2>1, <2>2, <2>3 DEF EndTask, IInv, PermitConservation, Waiting
<1>2. CASE \/ HandshakeSucceeds(c) \/ LookupEnds(c) \/ DialAddress(c)
           \/ AddressFails(c) \/ Connected(c) \/ ConnectFails(c) \/ ConfirmationSent(c)
    <2>1. JobsOK'
        <3>1. JobsOK /\ c \in Jobs
            BY DEF IInv, TypeOK, JobsOK, Jobs
        <3>2. Submit(c) \/ JobEnds(c) \/ UNCHANGED jobVars
            BY <1>2 DEF HandshakeSucceeds, LookupEnds, DialAddress, AddressFails,
                        Connected, ConnectFails, ConfirmationSent
        <3> QED
            BY <3>1, <3>2, JobsTyped DEF JobsOK
    <2>2. UNCHANGED <<mainVars, permitVars, client, reason, counted>>
        BY <1>2 DEF HandshakeSucceeds, LookupEnds, DialAddress, AddressFails,
                    Connected, ConnectFails, ConfirmationSent
    <2>3. target' \subseteq target \cup {c}
        BY <1>2 DEF HandshakeSucceeds, LookupEnds, DialAddress, AddressFails,
                    Connected, ConnectFails, ConfirmationSent
    <2>4. \/ UNCHANGED phase /\ target' = target
          \/ /\ phase[c] \in Running
             /\ \E p \in Running : phase' = [phase EXCEPT ![c] = p]
        BY <1>2 DEF HandshakeSucceeds, LookupEnds, DialAddress, AddressFails,
                    Connected, ConnectFails, ConfirmationSent, Goto, IInv, TypeOK,
                    Running, BeforeRelay
    <2>5. TypeOK'
        BY <2>1, <2>2, <2>3, <2>4 DEF JobsOK, IInv, TypeOK, Phases
    <2>6. Holders' = Holders
        BY <2>4 DEF Holders, IInv, TypeOK
    <2>7. (client \cup target \subseteq {d \in Conn : phase[d] \in Running})'
        BY <2>2, <2>3, <2>4 DEF IInv, TypeOK
    <2> QED
        BY <2>2, <2>5, <2>6, <2>7 DEF IInv, PermitConservation, Waiting
<1>3. CASE \/ HandshakeFails(c) \/ RefusalSent(c) \/ ConfirmationFails(c)
           \/ RelayEnds(c) \/ ForceClosed(c)
    BY SMTT(30), <1>1, <1>3
    DEF HandshakeFails, RefusalSent, ConfirmationFails, RelayEnds, ForceClosed,
        Reasons, Running, Ending, BeforeRelay
<1>4. CASE CountBytes(c)
    <2>1. TypeOK'
        BY <1>4 DEF CountBytes, Goto, IInv, TypeOK, Phases, Ending
    <2>2. Holders' = Holders
        BY <1>4 DEF CountBytes, Goto, IInv, TypeOK, Holders, Ending
    <2>3. (client \cup target \subseteq {d \in Conn : phase[d] \in Running})'
        BY SMTT(30), <1>4 DEF CountBytes, Goto, IInv, TypeOK, Running, BeforeRelay
    <2> QED
        BY <1>4, <2>1, <2>2, <2>3 DEF CountBytes, IInv, PermitConservation, Waiting
<1>5. CASE ReleasePermit(c)
    <2>1. c \in Holders /\ Holders' = Holders \ {c}
        BY <1>5 DEF ReleasePermit, Goto, IInv, TypeOK, Holders, Running, Ending, BeforeRelay
    <2>2. Cardinality(Holders') = Cardinality(Holders) - 1
        BY <2>1, HoldersRemove
    <2>3. Cardinality(Holders) > 0
        BY <2>1, HoldersFinite
    <2>4. (~Waiting => assigned = 0) /\ (Waiting => available = 0)
        BY DEF IInv
    <2>5. \/ Waiting /\ assigned' = assigned + 1 /\ available' = available
          \/ ~Waiting /\ available' = available + 1 /\ assigned' = assigned
        BY <1>5 DEF ReleasePermit, AddPermits
    <2>6. PermitConservation'
        BY <2>2, <2>5, HoldersFinite DEF IInv, TypeOK, PermitConservation
    <2>7. available' \in 0 .. MaxConnections /\ assigned' \in 0 .. MaxConnections
        BY <2>3, <2>4, <2>5, HoldersFinite DEF IInv, TypeOK, PermitConservation
    <2>8. TypeOK'
        BY <1>5, <2>7 DEF ReleasePermit, Goto, IInv, TypeOK, Phases
    <2>9. (client \cup target \subseteq {d \in Conn : phase[d] \in Running})'
        BY <1>5 DEF ReleasePermit, Goto, IInv, TypeOK, Running, Ending, BeforeRelay
    <2> QED
        BY <1>5, <2>1, <2>4, <2>5, <2>6, <2>8, <2>9
        DEF ReleasePermit, IInv, Waiting
<1> QED
    BY <1>2, <1>3, <1>4, <1>5
    DEF ConnectionTask, LeaveHandshake, LeaveConnecting, LeaveConfirming

\* Every step of every process preserves the invariant.
LEMMA NextIInv == IInv /\ [Next]_vars => IInv'
<1> SUFFICES ASSUME IInv, [Next]_vars PROVE IInv'
    OBVIOUS
<1>1. CASE Signal
    <2>1. Holders' = Holders
        BY <1>1 DEF Signal, connVars, Holders
    <2> QED
        BY <1>1, <2>1 DEF Signal, connVars, permitVars, jobVars, IInv, TypeOK,
                          PermitConservation, Waiting
<1>2. CASE UNCHANGED vars
    <2>1. Holders' = Holders
        BY <1>2 DEF vars, Holders
    <2> QED
        BY <1>2, <2>1 DEF vars, IInv, TypeOK, PermitConservation, Waiting
<1> QED
    BY <1>1, <1>2, AcceptLoopIInv, DrainIInv, BackgroundIInv, ConnectionTaskIInv
    DEF Next, Exited

\* The inductive invariant holds in every reachable state of the server.
THEOREM Invariance == Spec => []IInv
BY InitIInv, NextIInv, PTL DEF Spec

-----------------------------------------------------------------------------
(* The properties.                                                         *)

\* The permits are exactly max_connections in every reachable state, however
\* the accept loop, the connection tasks and drain interleave.
THEOREM PermitsConserved == Spec => [](TypeOK /\ PermitConservation)
<1>1. IInv => TypeOK /\ PermitConservation
    BY DEF IInv
<1> QED
    BY <1>1, Invariance, PTL

\* The server never has more than 2 * max_connections sockets of clients and
\* targets open.
THEOREM SocketsBounded == Spec => []DescriptorsBounded
<1>1. ASSUME IInv PROVE DescriptorsBounded
    <2>1. client \subseteq Holders /\ target \subseteq Holders
        BY <1>1 DEF IInv, Holders
    <2>2. /\ Cardinality(client) \in Nat /\ Cardinality(target) \in Nat
          /\ Cardinality(client) <= Cardinality(Holders)
          /\ Cardinality(target) <= Cardinality(Holders)
        BY <2>1, HoldersFinite, FS_Subset, FS_CardinalityType
    <2>3. Cardinality(Holders) <= MaxConnections
        BY <1>1, HoldersFinite, ServerAssumption
        DEF IInv, TypeOK, PermitConservation
    <2> QED
        BY <2>1, <2>2, <2>3, HoldersFinite, ServerAssumption DEF DescriptorsBounded
<1> QED
    BY <1>1, Invariance, PTL

\* When wait_for_connections has returned true, every connection is closed.
THEOREM DrainIsComplete == Spec => []DrainedMeansClosed
<1>1. ASSUME IInv PROVE DrainedMeansClosed
    <2> SUFFICES ASSUME drained
                 PROVE  /\ Holders = {}
                        /\ client \cup target = {}
                        /\ available = MaxConnections
        BY DEF DrainedMeansClosed
    <2>1. Holders = {} /\ ~Waiting
        BY <1>1 DEF IInv, Waiting
    <2>2. client \cup target = {}
        BY <1>1, <2>1 DEF IInv, Holders
    <2>3. Cardinality(Holders) = 0 /\ assigned = 0
        BY <1>1, <2>1, FS_EmptySet DEF IInv
    <2> QED
        BY <1>1, <2>1, <2>2, <2>3, ServerAssumption
        DEF IInv, TypeOK, PermitConservation
<1> QED
    BY <1>1, Invariance, PTL

\* Why the last stats line is complete: a task is past counting when it drops
\* its permit, nothing else is ever counted, and the runtime drops tasks only
\* if the drain was not complete.
CountInv ==
    /\ \A c \in Conn : phase[c] \in {"logging", "closed"} => c \in counted
    /\ \A c \in counted : phase[c] \in {"logging", "closed", "aborted"}
    /\ \A c \in Conn : phase[c] = "aborted" => main = "exited" /\ ~drained

\* A connection that is not admitted, ended or dropped by the step is as
\* counted as it was.
LEMMA CountInvKept ==
    ASSUME CountInv, NEW c \in Conn, NEW p, phase \in [Conn -> Phases],
           p \notin {"logging", "closed", "aborted"},
           phase[c] \notin {"logging", "closed", "aborted"},
           phase' = [phase EXCEPT ![c] = p],
           UNCHANGED <<main, drained, counted>>
    PROVE  CountInv'
BY DEF CountInv

\* Every step keeps the totals in line with the connections.
LEMMA NextCountInv == IInv /\ CountInv /\ [Next]_vars => CountInv'
<1> SUFFICES ASSUME IInv, CountInv, [Next]_vars PROVE CountInv'
    OBVIOUS
<1> USE DEF mainVars, permitVars, connVars, jobVars
<1>1. phase \in [Conn -> Phases] /\ counted \subseteq Conn
    BY DEF IInv, TypeOK
<1>2. ASSUME UNCHANGED <<phase, counted>>, main # "exited",
             drained' = drained \/ \A c \in Conn : phase[c] # "aborted"
      PROVE  CountInv'
    BY <1>2 DEF CountInv
<1>3. CASE Signal \/ Exited \/ UNCHANGED vars
    BY <1>3 DEF Signal, Exited, vars, CountInv
<1>4. CASE AcceptLoop
    <2>1. ASSUME NEW c \in Conn, RejectByPolicy(c) \/ RejectOverLimit(c) \/ Admit(c)
          PROVE  CountInv'
        <3>1. PICK p \in {"not_whitelisted", "banned", "over_limit", "handshake"} :
                  phase' = [phase EXCEPT ![c] = p]
            BY <2>1 DEF RejectByPolicy, RejectOverLimit, Admit
        <3>2. phase[c] = "pending" /\ UNCHANGED <<main, drained, counted>>
            BY <2>1 DEF RejectByPolicy, RejectOverLimit, Admit
        <3> QED
            BY <1>1, <3>1, <3>2, CountInvKept
    <2>2. CASE AcceptFails \/ BackoffOver \/ StopAccepting
        BY <1>2, <2>2 DEF AcceptFails, Accepting, BackoffOver, StopAccepting
    <2> QED
        BY <1>4, <2>1, <2>2 DEF AcceptLoop
<1>5. CASE Drain
    <2>1. UNCHANGED <<phase, counted>> /\ main # "exited"
        BY <1>5 DEF Drain, BeginGrace, AllConnectionsFinished, GraceExpires,
                    BeginForcedWait, ForcedWaitExpires, Waiting
    <2>2. \A c \in Conn : phase[c] # "aborted"
        BY <2>1 DEF CountInv
    <2> QED
        BY <1>2, <2>1, <2>2
<1>6. CASE Background
    <2>1. CASE ReporterTicks \/ ReporterLogs
        BY <2>1 DEF ReporterTicks, ReporterLogs, CountInv
    <2>2. ASSUME NEW b \in BackgroundTasks, BackgroundStops(b) PROVE CountInv'
        BY <2>2 DEF BackgroundStops, CountInv
    <2>3. CASE BackgroundJoined \/ RunReturns
        BY <1>2, <2>3 DEF BackgroundJoined, RunReturns
    <2>4. CASE RuntimeShutdown
        <3>1. /\ main' = "exited" /\ UNCHANGED <<drained, counted>>
              /\ \A c \in Conn : phase'[c] = IF c \in Holders THEN "aborted" ELSE phase[c]
              /\ main = "stopped"
            BY <2>4 DEF RuntimeShutdown
        <3>2. drained => Holders = {}
            BY DEF IInv
        <3>3. \A c \in Conn : phase[c] # "aborted"
            BY <3>1 DEF CountInv
        <3>4. \A c \in Holders : phase[c] \notin {"closed", "aborted"}
            BY DEF Holders, Running, Ending, BeforeRelay
        <3> QED
            BY <1>1, <3>1, <3>2, <3>3, <3>4 DEF CountInv
    <2> QED
        BY <1>6, <2>1, <2>2, <2>3, <2>4 DEF Background
<1>7. ASSUME NEW c \in Conn, ConnectionTask(c) PROVE CountInv'
    <2>1. CASE CountBytes(c)
        BY <1>1, <2>1 DEF CountBytes, Goto, CountInv
    <2>2. CASE ReleasePermit(c)
        BY <1>1, <2>2 DEF ReleasePermit, Goto, CountInv
    <2>3. CASE ~CountBytes(c) /\ ~ReleasePermit(c)
        <3>1. UNCHANGED <<main, drained, counted>>
            BY SMTT(30), <1>7, <2>3
            DEF ConnectionTask, LeaveHandshake, LeaveConnecting, LeaveConfirming,
                HandshakeSucceeds, HandshakeFails, LookupEnds, DialAddress,
                AddressFails, Connected, ConnectFails, RefusalSent,
                ConfirmationSent, ConfirmationFails, RelayEnds, ForceClosed, EndTask
        <3>2. \/ UNCHANGED phase
              \/ /\ phase[c] \in Running
                 /\ \E p \in Running \cup {"ending"} : phase' = [phase EXCEPT ![c] = p]
            BY <1>7, <2>3
            DEF ConnectionTask, LeaveHandshake, LeaveConnecting, LeaveConfirming,
                HandshakeSucceeds, HandshakeFails, LookupEnds, DialAddress,
                AddressFails, Connected, ConnectFails, RefusalSent,
                ConfirmationSent, ConfirmationFails, RelayEnds, ForceClosed,
                EndTask, Goto, Running, BeforeRelay
        <3>3. CASE UNCHANGED phase
            BY <3>1, <3>3 DEF CountInv
        <3>4. ASSUME NEW p \in Running \cup {"ending"}, phase[c] \in Running,
                     phase' = [phase EXCEPT ![c] = p]
              PROVE  CountInv'
            <4>1. /\ p \notin {"logging", "closed", "aborted"}
                  /\ phase[c] \notin {"logging", "closed", "aborted"}
                BY <3>4 DEF Running, BeforeRelay
            <4> QED
                BY <1>1, <3>1, <3>4, <4>1, CountInvKept
        <3> QED
            BY SMTT(30), <3>2, <3>3, <3>4
    <2> QED
        BY <2>1, <2>2, <2>3
<1> QED
    BY <1>3, <1>4, <1>5, <1>6, <1>7 DEF Next

\* After a complete drain the last stats line counts every connection served.
THEOREM LastLineIsComplete == Spec => []LastLineComplete
<1>1. Init => CountInv
    BY DEF Init, CountInv
<1>2. IInv /\ CountInv => LastLineComplete
    <2> SUFFICES ASSUME IInv, CountInv, drained, NEW c \in Conn
                 PROVE  c \in counted <=> phase[c] \notin Rejected \cup {"pending"}
        BY DEF LastLineComplete, IInv, TypeOK
    <2>1. phase[c] \notin Running \cup Ending \cup {"aborted"}
        BY DEF IInv, Holders, CountInv
    <2>2. phase[c] \in Phases
        BY DEF IInv, TypeOK
    <2> QED
        BY <2>1, <2>2 DEF Phases, Rejected, CountInv
<1> QED
    BY <1>1, <1>2, NextCountInv, Invariance, PTL DEF Spec

\* Outside the two waits of drain, active_connections() counts the open
\* connections.
THEOREM ActiveConnectionsCorrect == Spec => []ActiveConnectionsExact
<1>1. ASSUME IInv PROVE ActiveConnectionsExact
    BY <1>1, HoldersFinite, ServerAssumption
    DEF IInv, TypeOK, PermitConservation, ActiveConnectionsExact, ActiveConnections
<1> QED
    BY <1>1, Invariance, PTL

\* A client is turned away for the limit only by a full server.
THEOREM LimitIsExact == Spec => LimitRejectsOnlyWhenFull
<1> DEFINE Full(c) == phase[c] # "over_limit" /\ phase'[c] = "over_limit"
                          => Cardinality(Holders) = MaxConnections
<1>1. ASSUME IInv, Next, NEW c \in Conn PROVE Full(c)
    <2> SUFFICES ASSUME phase[c] # "over_limit", phase'[c] = "over_limit"
                 PROVE  Cardinality(Holders) = MaxConnections
        OBVIOUS
    <2>1. RejectOverLimit(c)
        <3> USE <1>1 DEF IInv, TypeOK, connVars
        <3>1. ~Signal /\ ~Drain /\ ~Background /\ ~Exited
            BY DEF Signal, Drain, BeginGrace, AllConnectionsFinished,
                   GraceExpires, BeginForcedWait, ForcedWaitExpires, Background,
                   ReporterTicks, ReporterLogs, BackgroundStops, BackgroundJoined,
                   RunReturns, RuntimeShutdown, Exited, vars
        <3>2. ASSUME NEW d \in Conn PROVE ~ConnectionTask(d)
            BY DEF ConnectionTask, LeaveHandshake, LeaveConnecting,
                   LeaveConfirming, HandshakeSucceeds, HandshakeFails,
                   LookupEnds, CountBytes, DialAddress, AddressFails, Connected, ConnectFails,
                   RefusalSent, ConfirmationSent, ConfirmationFails,
                   RelayEnds, ForceClosed, ReleasePermit, Goto, EndTask
        <3>3. AcceptLoop
            BY <3>1, <3>2 DEF Next
        <3>4. ASSUME NEW d \in Conn, RejectByPolicy(d) \/ Admit(d) PROVE FALSE
            BY <3>4 DEF RejectByPolicy, Admit
        <3>5. ASSUME NEW d \in Conn, RejectOverLimit(d) PROVE d = c
            BY <3>5 DEF RejectOverLimit
        <3>6. ~AcceptFails /\ ~BackoffOver /\ ~StopAccepting
            BY DEF AcceptFails, BackoffOver, StopAccepting
        <3> QED
            BY SMTT(30), <3>3, <3>4, <3>5, <3>6 DEF AcceptLoop
    <2>2. available = 0 /\ ~Waiting
        BY SMTT(30), <2>1 DEF RejectOverLimit, Accepting, Waiting
    <2>3. assigned = 0
        BY <1>1, <2>2 DEF IInv
    <2> QED
        BY <1>1, <2>2, <2>3, HoldersFinite, ServerAssumption
        DEF IInv, PermitConservation
<1>2. IInv /\ [Next]_vars => [\A c \in Conn : Full(c)]_vars
    BY <1>1
<1> QED
    BY <1>2, Invariance, PTL DEF Spec, LimitRejectsOnlyWhenFull

-----------------------------------------------------------------------------
(* Refinement: the server implements the pool of at most max_connections   *)
(* connections.  An admission opens a connection of the pool, dropping the *)
(* permit closes it, and every other step of a connection is a stutter.    *)

\* The step that the pool sees of each step of the server.
LEMMA StepSimulation == IInv /\ [Next]_vars => [Pool!Next]_(Pool!vars)
<1> SUFFICES ASSUME IInv, Next PROVE Pool!Next \/ UNCHANGED Pool!vars
    BY DEF vars, Pool!vars, Holders, Gone, Stage
<1> USE ServerAssumption DEF mainVars, permitVars, connVars, jobVars
<1>1. ASSUME UNCHANGED phase, Stage' = Stage
      PROVE  UNCHANGED Pool!vars
    BY <1>1 DEF Pool!vars, Holders, Gone
<1>2. CASE Signal \/ Exited
    BY <1>1, <1>2 DEF Signal, Exited, vars, Stage
<1>3. CASE AcceptLoop
    <2>1. ASSUME NEW c \in Conn, RejectByPolicy(c) \/ RejectOverLimit(c)
          PROVE  UNCHANGED Pool!vars
        <3>1. Holders' = Holders /\ Gone' = Gone
            BY <2>1 DEF RejectByPolicy, RejectOverLimit, IInv, TypeOK, Holders,
                        Gone, Running, Ending, BeforeRelay
        <3>2. main' = main
            BY <2>1 DEF RejectByPolicy, RejectOverLimit
        <3> QED
            BY <3>1, <3>2 DEF Pool!vars, Stage
    <2>2. ASSUME NEW c \in Conn, Admit(c)
          PROVE  Pool!Open(c)
        <3>1. /\ c \notin Holders /\ c \notin Gone
              /\ Holders' = Holders \cup {c} /\ Gone' = Gone
            BY <2>2 DEF Admit, IInv, TypeOK, Holders, Gone, Running, Ending, BeforeRelay
        <3>2. main = "accepting" /\ main' = main
            BY <2>2 DEF Admit, Accepting
        <3>3. Cardinality(Holders) < MaxConnections
            BY <2>2, HoldersFinite DEF Admit, IInv, TypeOK, PermitConservation
        <3>4. Stage = "serving" /\ Stage' = Stage
            BY <3>2 DEF Stage
        <3>5. Pool!Cardinality(Holders) = Cardinality(Holders)
            BY DEF Pool!Cardinality, Cardinality
        <3> QED
            BY <3>1, <3>3, <3>4, <3>5 DEF Pool!Open
    <2>3. CASE AcceptFails \/ BackoffOver
        BY <1>1, <2>3 DEF AcceptFails, BackoffOver, Accepting, Stage
    <2>4. CASE StopAccepting
        <3>1. UNCHANGED phase /\ main \in {"accepting", "backoff"} /\ main' = "draining"
            BY <2>4 DEF StopAccepting
        <3> QED
            BY <3>1 DEF Pool!Drain, Pool!Next, Holders, Gone, Stage
    <2> QED
        BY <1>3, <2>1, <2>2, <2>3, <2>4 DEF AcceptLoop, Pool!Next
<1>4. CASE Drain
    BY <1>1, <1>4
    DEF Drain, BeginGrace, AllConnectionsFinished, GraceExpires,
        BeginForcedWait, ForcedWaitExpires, Waiting, Stage
<1>5. CASE Background
    <2>1. CASE \/ ReporterTicks \/ ReporterLogs \/ BackgroundJoined \/ RunReturns
               \/ \E b \in BackgroundTasks : BackgroundStops(b)
        BY <1>1, <2>1 DEF ReporterTicks, ReporterLogs, BackgroundJoined, RunReturns,
                          BackgroundStops, Stage
    <2>2. CASE RuntimeShutdown
        <3>1. Holders' = {} /\ Gone' = Gone \cup Holders
            BY <2>2 DEF RuntimeShutdown, IInv, TypeOK, Holders, Gone,
                        Running, Ending, BeforeRelay
        <3>2. main = "stopped" /\ main' = "exited"
            BY <2>2 DEF RuntimeShutdown
        <3> QED
            BY <3>1, <3>2 DEF Pool!Exit, Pool!Next, Stage
    <2> QED
        BY <1>5, <2>1, <2>2 DEF Background
<1>6. ASSUME NEW c \in Conn, ConnectionTask(c)
      PROVE  Pool!Close(c) \/ UNCHANGED Pool!vars
    <2>1. CASE ReleasePermit(c)
        <3>1. /\ c \in Holders
              /\ Holders' = Holders \ {c} /\ Gone' = Gone \cup {c}
            BY <2>1 DEF ReleasePermit, Goto, IInv, TypeOK, Holders, Gone,
                        Running, Ending, BeforeRelay
        <3>2. main' = main
            BY <2>1 DEF ReleasePermit
        <3>3. main # "exited"
            BY <3>1 DEF IInv
        <3> QED
            BY <3>1, <3>2, <3>3 DEF Pool!Close, Stage
    <2>2. CASE ~ReleasePermit(c)
        <3>1. Holders' = Holders /\ Gone' = Gone
            BY SMTT(30), <1>6, <2>2
            DEF ConnectionTask, LeaveHandshake, LeaveConnecting, LeaveConfirming,
                HandshakeSucceeds, HandshakeFails, LookupEnds, DialAddress, AddressFails,
                Connected, ConnectFails, RefusalSent, ConfirmationSent,
                ConfirmationFails, RelayEnds, ForceClosed, CountBytes, Goto, EndTask,
                IInv, TypeOK, Holders, Gone, Running, Ending, BeforeRelay
        <3>2. main' = main
            BY <1>6, <2>2
            DEF ConnectionTask, LeaveHandshake, LeaveConnecting, LeaveConfirming,
                HandshakeSucceeds, HandshakeFails, LookupEnds, DialAddress, AddressFails,
                Connected, ConnectFails, RefusalSent, ConfirmationSent,
                ConfirmationFails, RelayEnds, ForceClosed, CountBytes, Goto, EndTask
        <3> QED
            BY SMTT(30), <3>1, <3>2 DEF Pool!vars, Stage
    <2> QED
        BY <2>1, <2>2
<1> QED
    BY <1>2, <1>3, <1>4, <1>5, <1>6 DEF Next, Pool!Next

\* Safety part of ImplementsPool: every behaviour of the server is one of the
\* pool.
THEOREM ServerImplementsPool == Spec => Pool!Init /\ [][Pool!Next]_(Pool!vars)
<1>1. Init => Pool!Init
    BY DEF Init, Pool!Init, Holders, Gone, Stage, Running, Ending, BeforeRelay
<1> QED
    BY <1>1, StepSimulation, Invariance, PTL DEF Spec
=============================================================================
