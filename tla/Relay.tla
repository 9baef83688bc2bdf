------------------------------- MODULE Relay --------------------------------
(***************************************************************************)
(* The relay of one proxied connection (src/relay/bidirectional.rs and     *)
(* activity_clock.rs): two pumps in one task, polled by the select of      *)
(* `relay`, with one idle clock between them.                              *)
(*                                                                         *)
(* Time is kept relative: the timers and the clock say how far away their  *)
(* moments are, so that a run may last for ever.  The activity clock       *)
(* stores whole milliseconds, so a millisecond is several ticks here.      *)
(***************************************************************************)
EXTENDS Integers, Sequences, FiniteSets

CONSTANTS
    IdleMs,        \* idle_timeout, in milliseconds
    TicksPerMs,    \* the resolution of Instant, in ticks per millisecond
    Slack,         \* ticks by which a due timer may be served late
    BufferSize,    \* RELAY_BUFFER_SIZE
    MaxBytes       \* bound: bytes each peer sends

\* Every timeout of the settings is at least a second.
ASSUME RelayAssumption ==
    /\ IdleMs \in Nat \ {0}
    /\ TicksPerMs \in Nat \ {0}
    /\ Slack \in Nat
    /\ BufferSize \in Nat \ {0}
    /\ MaxBytes \in Nat

VARIABLES
    pc,         \* where each pump waits
    timer,      \* ticks to the deadline of its `timeout`, 0 and below: due
    idleFor,    \* ActivityClock: what idle_for() would return
    phase,      \* ticks since the last whole millisecond of the clock
    sent,       \* how many bytes the source has sent; they are numbered
    inbox,      \* bytes the source has sent and the pump has not read
    buffer,     \* bytes the pump has read and not written
    outbox,     \* bytes written to the sink
    delivered,  \* RelayCounters
    eof,        \* the directions whose source has closed its half
    failed,     \* the peers that are gone
    forwarded,  \* the directions whose half-close has reached the sink
    end,        \* how the relay ended
    since       \* history: ticks since a byte was read or written

vars == <<pc, timer, idleFor, phase, sent, inbox, buffer, outbox, delivered,
          eof, failed, forwarded, end, since>>

clockVars == <<idleFor, phase, since>>
dataVars == <<sent, inbox, buffer, outbox, delivered>>
peerVars == <<eof, failed, forwarded>>

-----------------------------------------------------------------------------
Direction == {"upload", "download"}
Peer == {"client", "target"}

Source(d) == IF d = "upload" THEN "client" ELSE "target"
Sink(d) == IF d = "upload" THEN "target" ELSE "client"
Other(d) == IF d = "upload" THEN "download" ELSE "upload"

Ends == {"none", "completed", "idle", "client_error", "target_error", "dropped"}

Idle == IdleMs * TicksPerMs

Running == end = "none"

Waiting(d) == Running /\ pc[d] \in {"reading", "writing", "shutting"}

\* Mutant: the subtraction wraps.
RemainingWraps(idle) == IF idle <= Idle THEN Idle - idle ELSE 2 * Idle

\* ActivityClock::remaining, given idle_for().
Remaining(idle) == IF idle < Idle THEN Idle - idle ELSE 0

Init ==
    /\ pc = [d \in Direction |-> "reading"]
    /\ timer = [d \in Direction |-> Remaining(0)]
    /\ idleFor = 0
    /\ phase = 0
    /\ sent = [d \in Direction |-> 0]
    /\ inbox = [d \in Direction |-> <<>>]
    /\ buffer = [d \in Direction |-> <<>>]
    /\ outbox = [d \in Direction |-> <<>>]
    /\ delivered = [d \in Direction |-> 0]
    /\ eof = {}
    /\ failed = {}
    /\ forwarded = {}
    /\ end = "none"
    /\ since = 0

-----------------------------------------------------------------------------
(* The peers.                                                              *)

Send(d) ==
    /\ Running
    /\ d \notin eof
    /\ Source(d) \notin failed
    /\ sent[d] < MaxBytes
    /\ sent' = [sent EXCEPT ![d] = @ + 1]
    /\ inbox' = [inbox EXCEPT ![d] = Append(@, sent'[d])]
    /\ UNCHANGED <<pc, timer, clockVars, buffer, outbox, delivered, peerVars, end>>

CloseHalf(d) ==
    /\ Running
    /\ d \notin eof
    /\ Source(d) \notin failed
    /\ eof' = eof \cup {d}
    /\ UNCHANGED <<pc, timer, clockVars, dataVars, failed, forwarded, end>>

\* A peer is gone: reads from it and writes to it fail from now on.
Fail(p) ==
    /\ Running
    /\ p \notin failed
    /\ failed' = failed \cup {p}
    /\ UNCHANGED <<pc, timer, clockVars, dataVars, eof, forwarded, end>>

-----------------------------------------------------------------------------
(* The pumps.  A step is what one poll does, from the await it resumes to  *)
(* the next one; `timeout` polls its future before its timer.              *)

\* ActivityClock::touch: the part of a millisecond is cut off, so that the
\* clock seems to have been idle that long already.
touch ==
    /\ idleFor' = phase
    /\ since' = 0
    /\ UNCHANGED phase

\* The relay is over: `relay` returns, or its future is dropped.
Finish(how) ==
    /\ end' = how
    /\ UNCHANGED <<pc, timer, clockVars, dataVars, peerVars>>

\* PumpError::Read and PumpError::Write, attributed to the peer behind them.
FinishWithError(p) == Finish(IF p = "client" THEN "client_error" ELSE "target_error")

ReadReady(d) == inbox[d] # <<>> \/ d \in eof \/ Source(d) \in failed

\* read_with_idle returns data, the clock is touched and the write begins.
Read(d) ==
    /\ Waiting(d)
    /\ pc[d] = "reading"
    /\ \E n \in 1 .. Len(inbox[d]) :
          /\ n <= BufferSize
          /\ buffer' = [buffer EXCEPT ![d] = SubSeq(inbox[d], 1, n)]
          /\ inbox' = [inbox EXCEPT ![d] = SubSeq(@, n + 1, Len(@))]
    /\ touch
    /\ pc' = [pc EXCEPT ![d] = "writing"]
    /\ timer' = [timer EXCEPT ![d] = Remaining(idleFor')]
    /\ UNCHANGED <<sent, outbox, delivered, peerVars, end>>

\* read returns 0: the pump goes on to shut the sink down.
ReadEof(d) ==
    /\ Waiting(d)
    /\ pc[d] = "reading"
    /\ inbox[d] = <<>>
    /\ d \in eof
    /\ pc' = [pc EXCEPT ![d] = "shutting"]
    /\ timer' = [timer EXCEPT ![d] = Idle]
    /\ UNCHANGED <<clockVars, dataVars, peerVars, end>>

\* Mutant: an error of the reader is blamed on the sink.
ReadFailsSwapped(d) ==
    /\ Waiting(d)
    /\ pc[d] = "reading"
    /\ Source(d) \in failed
    /\ FinishWithError(Sink(d))

\* A reset overtakes what has not been read yet.
ReadFails(d) ==
    /\ Waiting(d)
    /\ pc[d] = "reading"
    /\ Source(d) \in failed
    /\ FinishWithError(Source(d))

\* Mutant: a short write is taken for a full one.
WriteIgnoringShort(d) ==
    /\ Waiting(d)
    /\ pc[d] = "writing"
    /\ Sink(d) \notin failed
    /\ \E n \in 1 .. Len(buffer[d]) :
          /\ outbox' = [outbox EXCEPT ![d] = @ \o SubSeq(buffer[d], 1, n)]
          /\ delivered' = [delivered EXCEPT ![d] = @ + n]
    /\ buffer' = [buffer EXCEPT ![d] = <<>>]
    /\ pc' = [pc EXCEPT ![d] = "reading"]
    /\ touch
    /\ timer' = [timer EXCEPT ![d] = Remaining(idleFor')]
    /\ UNCHANGED <<sent, inbox, peerVars, end>>

\* write takes part of the buffer or all of it; then the rest is written, or
\* the next read begins.
Write(d) ==
    /\ Waiting(d)
    /\ pc[d] = "writing"
    /\ Sink(d) \notin failed
    /\ \E n \in 1 .. Len(buffer[d]) :
          /\ outbox' = [outbox EXCEPT ![d] = @ \o SubSeq(buffer[d], 1, n)]
          /\ delivered' = [delivered EXCEPT ![d] = @ + n]
          /\ buffer' = [buffer EXCEPT ![d] = SubSeq(@, n + 1, Len(@))]
    /\ touch
    /\ pc' = [pc EXCEPT ![d] = IF buffer'[d] = <<>> THEN "reading" ELSE "writing"]
    /\ timer' = [timer EXCEPT ![d] = Remaining(idleFor')]
    /\ UNCHANGED <<sent, inbox, peerVars, end>>

\* write fails or takes nothing (WriteZero).
WriteFails(d) ==
    /\ Waiting(d)
    /\ pc[d] = "writing"
    /\ Sink(d) \in failed
    /\ FinishWithError(Sink(d))

\* Mutant: the timer starts afresh.
TimerRestarts(d) ==
    /\ Waiting(d)
    /\ timer[d] <= 0
    /\ \/ pc[d] = "reading" /\ ~ReadReady(d)
       \/ pc[d] = "writing" /\ Sink(d) \notin failed
    /\ timer' = [timer EXCEPT ![d] = Idle]
    /\ UNCHANGED <<pc, clockVars, dataVars, peerVars, end>>

\* The timer of a read or of a write that stalls fires: the relay is idle, or
\* the other pump has moved data and the wait is renewed.
TimerFires(d) ==
    /\ Waiting(d)
    /\ timer[d] <= 0
    /\ \/ pc[d] = "reading" /\ ~ReadReady(d)
       \/ pc[d] = "writing" /\ Sink(d) \notin failed
    /\ IF Remaining(idleFor) = 0
       THEN Finish("idle")
       ELSE /\ timer' = [timer EXCEPT ![d] = Remaining(idleFor)]
            /\ UNCHANGED <<pc, clockVars, dataVars, peerVars, end>>

\* The pump returns Ok; `relay` returns once both have.
PumpDone(d) ==
    /\ pc' = [pc EXCEPT ![d] = "done"]
    /\ end' = IF pc[Other(d)] = "done" THEN "completed" ELSE end
    /\ UNCHANGED <<timer, clockVars, dataVars, eof, failed>>

ShutdownDone(d) ==
    /\ Waiting(d)
    /\ pc[d] = "shutting"
    /\ Sink(d) \notin failed
    /\ PumpDone(d)
    /\ forwarded' = forwarded \cup {d}

\* Mutant: shutdown has no timeout of its own.
ShutdownFailsUnbounded(d) ==
    /\ Waiting(d)
    /\ pc[d] = "shutting"
    /\ Sink(d) \in failed
    /\ PumpDone(d)
    /\ UNCHANGED forwarded

\* shutdown fails or takes too long; its result is ignored.
ShutdownFails(d) ==
    /\ Waiting(d)
    /\ pc[d] = "shutting"
    /\ Sink(d) \in failed \/ timer[d] <= 0
    /\ PumpDone(d)
    /\ UNCHANGED forwarded

\* serve_connection drops the relay for force_close.
Dropped ==
    /\ Running
    /\ Finish("dropped")

\* Time passes; a due timer is served within Slack.
Tick ==
    /\ Running
    /\ \A d \in Direction : Waiting(d) => timer[d] > -Slack
    /\ timer' = [d \in Direction |-> IF Waiting(d) THEN timer[d] - 1 ELSE timer[d]]
    /\ idleFor' = idleFor + 1
    /\ since' = since + 1
    /\ phase' = (phase + 1) % TicksPerMs
    /\ UNCHANGED <<pc, dataVars, peerVars, end>>

\* The connection task goes on without the relay.
Over == ~Running /\ UNCHANGED vars

PumpStep(d) ==
    \/ Read(d)
    \/ ReadEof(d)
    \/ ReadFails(d)
    \/ Write(d)
    \/ WriteFails(d)
    \/ TimerFires(d)
    \/ ShutdownDone(d)
    \/ ShutdownFails(d)

Next ==
    \/ \E d \in Direction : Send(d) \/ CloseHalf(d) \/ PumpStep(d)
    \/ \E p \in Peer : Fail(p)
    \/ Dropped
    \/ Tick
    \/ Over

Spec == Init /\ [][Next]_vars

\* What runs by itself: the timers, and a poll of a pump whose future is
\* ready.  The peers owe nothing, in particular not to read what is written.
Fairness ==
    /\ WF_vars(Tick)
    /\ \A d \in Direction :
          /\ WF_vars(Read(d) \/ ReadEof(d) \/ ReadFails(d))
          /\ WF_vars(WriteFails(d))
          /\ WF_vars(TimerFires(d))
          /\ WF_vars(ShutdownFails(d))

FairSpec == Spec /\ Fairness

-----------------------------------------------------------------------------
(* Properties.                                                             *)

Bytes == 1 .. MaxBytes

TypeOK ==
    /\ pc \in [Direction -> {"reading", "writing", "shutting", "done"}]
    /\ timer \in [Direction -> -Slack .. Idle]
    /\ idleFor \in Nat
    /\ phase \in 0 .. TicksPerMs - 1
    /\ sent \in [Direction -> 0 .. MaxBytes]
    /\ \A q \in {inbox, buffer, outbox} : q \in [Direction -> Seq(Bytes)]
    /\ delivered \in [Direction -> 0 .. MaxBytes]
    /\ eof \subseteq Direction
    /\ failed \subseteq Peer
    /\ forwarded \subseteq Direction
    /\ end \in Ends
    /\ since \in Nat

\* The relay is idle on time.  Not early: "No byte moved in either direction
\* for the idle timeout" (RelayEnd), up to the millisecond that touch cuts off.
\* Nor late: a relay with a pump that reads or writes is over by the idle
\* timeout, and one that only waits for a half-close to be taken may need as
\* long again, the timeout of shutdown itself.
IdleOnTime ==
    /\ end = "idle" => since > Idle - TicksPerMs
    /\ Running =>
          IF \E d \in Direction : pc[d] \in {"reading", "writing"}
          THEN since <= Idle + Slack
          ELSE since <= 2 * (Idle + Slack)

\* The peer a relay is closed for is one that failed (RelayEnd::ClientError
\* and TargetError).
BlameIsRight ==
    /\ end = "client_error" => "client" \in failed
    /\ end = "target_error" => "target" \in failed

\* "Both directions reached EOF; each half-close was forwarded to the other
\* side", the doc of RelayEnd::Completed.
CompletedMeansForwarded == end = "completed" => forwarded = Direction

\* Once the peers have nothing more to send the relay ends, even if they
\* neither read nor close: no await can hang.
RelayEnds == <>(end # "none")

Pipes == INSTANCE Tunnel WITH
    got <- outbox, counted <- delivered, closed <- eof, told <- forwarded, over <- ~Running

\* The relay is such a tunnel, whatever the pumps, their buffers and timers do
\* and however it ends.  No byte is lost, doubled or reordered by short reads
\* and writes; a half-close never overtakes data; nothing follows it, nor the
\* end of the relay; and the counters are right at every moment at which the
\* relay may be dropped ("the numbers stay correct even if the relay future is
\* dropped half-way", RelayCounters).
ImplementsTunnel == Pipes!Spec
=============================================================================
