---------------------------- MODULE RelayProofs -----------------------------
(***************************************************************************)
(* Proofs about module Relay, for every idle timeout, every resolution of  *)
(* the clock, every size of the buffer and every number of bytes: the      *)
(* relay is a Tunnel, it is idle on time, and it blames the right peer.    *)
(***************************************************************************)
EXTENDS Relay, SequenceTheorems, TLAPS

-----------------------------------------------------------------------------
(* The inductive invariant, in four parts.                                 *)

Types ==
    /\ pc \in [Direction -> {"reading", "writing", "shutting", "done"}]
    /\ timer \in [Direction -> -Slack .. Idle]
    /\ idleFor \in Nat
    /\ phase \in 0 .. TicksPerMs - 1
    /\ sent \in [Direction -> 0 .. MaxBytes]
    /\ \A q \in {inbox, buffer, outbox} : q \in [Direction -> Seq(Nat)]
    /\ delivered \in [Direction -> Nat]
    /\ eof \subseteq Direction
    /\ failed \subseteq Peer
    /\ forwarded \subseteq Direction
    /\ end \in Ends
    /\ since \in Nat

\* The sequence s holds the bytes that follow the first `before` bytes.
Continues(s, before) == \A i \in 1 .. Len(s) : s[i] = before + i

\* What has been sent is, in order, what has been written, what the pump holds
\* and what it has not read yet.
Stream(unread, held, written, bytes, count) ==
    /\ unread \in Seq(Nat) /\ held \in Seq(Nat) /\ written \in Seq(Nat)
    /\ Continues(written, 0)
    /\ Continues(held, Len(written))
    /\ Continues(unread, Len(written) + Len(held))
    /\ bytes = Len(written) + Len(held) + Len(unread)
    /\ count = Len(written)

Flow(d) == Stream(inbox[d], buffer[d], outbox[d], sent[d], delivered[d])

\* A pump holds bytes only while it writes, shuts the sink down only after the
\* last byte, and is done when the half-close has been forwarded.
Pump(d) ==
    /\ pc[d] # "writing" => buffer[d] = <<>>
    /\ pc[d] \in {"shutting", "done"} => d \in eof /\ inbox[d] = <<>>
    /\ d \in forwarded => pc[d] = "done"

\* The activity clock runs ahead by less than a millisecond.  The timer of a
\* pump is due when the clock says that the relay is idle, or earlier; that of
\* a shutdown began while the pump was still reading.
Timing ==
    /\ phase <= idleFor
    /\ since <= idleFor
    /\ idleFor < since + TicksPerMs
    /\ end = "idle" => idleFor >= Idle
    /\ Running =>
          /\ \A d \in Direction :
                /\ pc[d] \in {"reading", "writing"} => timer[d] + idleFor <= Idle
                /\ pc[d] = "shutting" => timer[d] + idleFor <= 2 * Idle + Slack
          /\ \E d \in Direction : pc[d] # "done"

IInv ==
    /\ Types
    /\ \A d \in Direction : Flow(d)
    /\ \A d \in Direction : Pump(d)
    /\ Timing
    /\ BlameIsRight

-----------------------------------------------------------------------------
(* Numbers.                                                                *)

\* The idle timeout is at least a millisecond.
LEMMA IdleFact ==
    /\ Idle \in Nat
    /\ Idle >= TicksPerMs
    /\ TicksPerMs \in Nat \ {0}
    /\ Slack \in Nat
<1>1. IdleMs \in Nat /\ IdleMs >= 1 /\ TicksPerMs \in Nat /\ TicksPerMs >= 1 /\ Slack \in Nat
  BY RelayAssumption
<1>2. IdleMs * TicksPerMs \in Nat /\ IdleMs * TicksPerMs >= TicksPerMs
  BY <1>1
<1> QED
  BY <1>1, <1>2 DEF Idle

\* A timer is never set to more than the idle timeout.
LEMMA RemainingFact ==
    ASSUME NEW idle \in Nat
    PROVE  /\ Remaining(idle) \in 0 .. Idle
           /\ Remaining(idle) = 0 => idle >= Idle
           /\ Remaining(idle) # 0 => Remaining(idle) + idle = Idle
           /\ idle < TicksPerMs => Remaining(idle) + idle = Idle
BY IdleFact DEF Remaining

\* The part of a millisecond after one more tick.
LEMMA PhaseFact ==
    ASSUME NEW p \in 0 .. TicksPerMs - 1
    PROVE  /\ (p + 1) % TicksPerMs \in 0 .. TicksPerMs - 1
           /\ (p + 1) % TicksPerMs <= p + 1
<1>1. CASE p + 1 < TicksPerMs
  BY <1>1, IdleFact
<1>2. CASE p + 1 = TicksPerMs
  BY <1>2, IdleFact
<1> QED
  BY <1>1, <1>2, IdleFact

-----------------------------------------------------------------------------
(* Numbered sequences.                                                     *)

\* The next byte is sent.
LEMMA ContinuesAppend ==
    ASSUME NEW s \in Seq(Nat), NEW before \in Nat, Continues(s, before)
    PROVE  /\ Append(s, before + Len(s) + 1) \in Seq(Nat)
           /\ Len(Append(s, before + Len(s) + 1)) = Len(s) + 1
           /\ Continues(Append(s, before + Len(s) + 1), before)
<1>1. before + Len(s) + 1 \in Nat
  OBVIOUS
<1> QED
  BY <1>1, AppendProperties DEF Continues

\* The first n bytes of what is there, ...
LEMMA ContinuesFront ==
    ASSUME NEW s \in Seq(Nat), NEW before \in Nat, Continues(s, before),
           NEW n \in 1 .. Len(s)
    PROVE  /\ SubSeq(s, 1, n) \in Seq(Nat)
           /\ Len(SubSeq(s, 1, n)) = n
           /\ Continues(SubSeq(s, 1, n), before)
BY DEF Continues

\* ... and the others.
LEMMA ContinuesRest ==
    ASSUME NEW s \in Seq(Nat), NEW before \in Nat, Continues(s, before),
           NEW n \in 1 .. Len(s)
    PROVE  /\ SubSeq(s, n + 1, Len(s)) \in Seq(Nat)
           /\ Len(SubSeq(s, n + 1, Len(s))) = Len(s) - n
           /\ Continues(SubSeq(s, n + 1, Len(s)), before + n)
BY DEF Continues

\* Bytes are written behind those that were.
LEMMA ContinuesConcat ==
    ASSUME NEW s \in Seq(Nat), NEW t \in Seq(Nat), NEW before \in Nat,
           Continues(s, before), Continues(t, before + Len(s))
    PROVE  /\ s \o t \in Seq(Nat)
           /\ Len(s \o t) = Len(s) + Len(t)
           /\ Continues(s \o t, before)
BY DEF Continues

\* From the first byte on, it is the sequence that Tunnel speaks of.
LEMMA ContinuesFromStart ==
    ASSUME NEW s \in Seq(Nat), Continues(s, 0)
    PROVE  s = [i \in 1 .. Len(s) |-> i]
BY DEF Continues

\* What a stream is made of.
LEMMA StreamTyped ==
    ASSUME NEW unread, NEW held, NEW written, NEW bytes, NEW count,
           Stream(unread, held, written, bytes, count)
    PROVE  /\ unread \in Seq(Nat) /\ held \in Seq(Nat) /\ written \in Seq(Nat)
           /\ count \in Nat
BY DEF Stream

\* A byte is sent.
LEMMA StreamSend ==
    ASSUME NEW unread, NEW held, NEW written, NEW bytes, NEW count,
           Stream(unread, held, written, bytes, count)
    PROVE  Stream(Append(unread, bytes + 1), held, written, bytes + 1, count)
<1>1. Len(written) + Len(held) \in Nat /\ Len(unread) \in Nat
  BY DEF Stream
<1>2. bytes + 1 = (Len(written) + Len(held)) + Len(unread) + 1
  BY <1>1 DEF Stream
<1> QED
  BY <1>1, <1>2, ContinuesAppend DEF Stream

\* An empty buffer is filled.
LEMMA StreamRead ==
    ASSUME NEW unread, NEW written, NEW bytes, NEW count,
           Stream(unread, <<>>, written, bytes, count),
           NEW n \in 1 .. Len(unread)
    PROVE  Stream(SubSeq(unread, n + 1, Len(unread)), SubSeq(unread, 1, n), written, bytes, count)
<1>1. Len(written) \in Nat /\ Len(unread) \in Nat /\ Len(<<>>) = 0
  BY DEF Stream
<1>2. Continues(unread, Len(written))
  BY <1>1 DEF Stream
<1> DEFINE front == SubSeq(unread, 1, n)
           rest == SubSeq(unread, n + 1, Len(unread))
<1>3. front \in Seq(Nat) /\ Len(front) = n /\ Continues(front, Len(written))
  BY <1>1, <1>2, ContinuesFront DEF Stream
<1>4. rest \in Seq(Nat) /\ Len(rest) = Len(unread) - n /\ Continues(rest, Len(written) + n)
  BY <1>1, <1>2, ContinuesRest DEF Stream
<1> HIDE DEF front, rest
<1>5. Stream(rest, front, written, bytes, count)
  BY <1>1, <1>3, <1>4 DEF Stream
<1> QED
  BY <1>5 DEF front, rest

\* Bytes of the buffer are written.
LEMMA StreamWrite ==
    ASSUME NEW unread, NEW held, NEW written, NEW bytes, NEW count,
           Stream(unread, held, written, bytes, count),
           NEW n \in 1 .. Len(held)
    PROVE  Stream(unread, SubSeq(held, n + 1, Len(held)), written \o SubSeq(held, 1, n),
                  bytes, count + n)
<1> DEFINE front == SubSeq(held, 1, n)
           rest == SubSeq(held, n + 1, Len(held))
<1>1. Len(written) \in Nat /\ Len(held) \in Nat /\ Len(unread) \in Nat
  BY DEF Stream
<1>2. front \in Seq(Nat) /\ Len(front) = n /\ Continues(front, Len(written))
  BY <1>1, ContinuesFront DEF Stream
<1>3. rest \in Seq(Nat) /\ Len(rest) = Len(held) - n /\ Continues(rest, Len(written) + n)
  BY <1>1, ContinuesRest DEF Stream
<1> HIDE DEF front, rest
<1>4. /\ written \o front \in Seq(Nat)
      /\ Len(written \o front) = Len(written) + n
      /\ Continues(written \o front, 0)
  <2>1. Continues(front, 0 + Len(written))
    BY <1>1, <1>2
  <2> QED
    BY <1>1, <1>2, <2>1, ContinuesConcat DEF Stream
<1>5. Stream(unread, rest, written \o front, bytes, count + n)
  BY <1>1, <1>3, <1>4 DEF Stream
<1> QED
  BY <1>5 DEF front, rest

-----------------------------------------------------------------------------
(* The inductive invariant: the initial state, and the peers.              *)

\* A relay that has just begun satisfies the invariant.
LEMMA InitIInv == Init => IInv
<1> SUFFICES ASSUME Init PROVE IInv
  OBVIOUS
<1>1. Remaining(0) \in -Slack .. Idle /\ Remaining(0) <= Idle
  BY RemainingFact, IdleFact
<1>2. Types
  BY <1>1, IdleFact, RelayAssumption DEF Init, Types, Ends
<1>3. \A d \in Direction : Flow(d)
  BY DEF Init, Flow, Stream, Continues
<1>4. \A d \in Direction : Pump(d)
  BY DEF Init, Pump
<1>5. Timing
  BY <1>1, IdleFact DEF Init, Timing, Direction
<1> QED
  BY <1>2, <1>3, <1>4, <1>5 DEF Init, IInv, BlameIsRight

\* A peer sends a byte.
LEMMA SendIInv == ASSUME IInv, NEW d \in Direction, Send(d) PROVE IInv'
<1> USE DEF clockVars, peerVars
<1>1. /\ Types /\ Flow(d)
      /\ sent[d] \in Nat /\ sent[d] < MaxBytes /\ MaxBytes \in Nat
  BY RelayAssumption DEF IInv, Types, Send
<1>2. /\ sent'[d] = sent[d] + 1
      /\ inbox'[d] = Append(inbox[d], sent[d] + 1)
      /\ \A e \in Direction : e # d => sent'[e] = sent[e] /\ inbox'[e] = inbox[e]
      /\ sent' \in [Direction -> 0 .. MaxBytes]
      /\ DOMAIN inbox' = Direction
  BY <1>1 DEF Send, Types
<1>3. ASSUME NEW e \in Direction PROVE Flow(e)'
  <2>1. CASE e = d
    BY <1>1, <1>2, <2>1, StreamSend DEF Send, Flow
  <2>2. CASE e # d
    BY <1>2, <2>2 DEF Send, Flow, IInv
  <2> QED
    BY <2>1, <2>2
<1>4. Types'
  <2>1. inbox' \in [Direction -> Seq(Nat)]
    BY <1>2, <1>3 DEF Flow, Stream, Send
  <2> QED
    BY <1>1, <1>2, <2>1 DEF Send, Types
<1>5. ASSUME NEW e \in Direction PROVE Pump(e)'
  BY <1>2 DEF Send, Pump, IInv
<1>6. Timing' /\ BlameIsRight'
  BY DEF Send, Timing, IInv, BlameIsRight, Running
<1> QED
  BY <1>3, <1>4, <1>5, <1>6 DEF IInv

\* A step that moves no byte and no pump, and ends nothing.
LEMMA PeerIInv ==
    ASSUME IInv, UNCHANGED <<pc, timer, clockVars, dataVars, forwarded, end>>,
           eof \subseteq eof', eof' \subseteq Direction,
           failed \subseteq failed', failed' \subseteq Peer
    PROVE  IInv'
<1> USE DEF clockVars, dataVars
<1>1. Types'
  BY DEF IInv, Types
<1>2. ASSUME NEW e \in Direction PROVE Flow(e)' /\ Pump(e)'
  BY DEF IInv, Flow, Pump
<1>3. Timing' /\ BlameIsRight'
  BY DEF IInv, Timing, BlameIsRight, Running
<1> QED
  BY <1>1, <1>2, <1>3 DEF IInv

-----------------------------------------------------------------------------
(* The pumps.                                                              *)

\* The relay ends: idle only when the clock says so, and with an error only if
\* the peer is gone.
LEMMA FinishIInv ==
    ASSUME IInv, NEW how \in Ends \ {"none"}, Finish(how),
           how = "idle" => idleFor >= Idle,
           how = "client_error" => "client" \in failed,
           how = "target_error" => "target" \in failed
    PROVE  IInv'
<1> USE DEF clockVars, dataVars, peerVars
<1>1. Types'
  BY DEF IInv, Types, Finish
<1>2. ASSUME NEW e \in Direction PROVE Flow(e)' /\ Pump(e)'
  BY DEF IInv, Flow, Pump, Finish
<1>3. Timing' /\ BlameIsRight'
  BY DEF IInv, Timing, BlameIsRight, Running, Finish
<1> QED
  BY <1>1, <1>2, <1>3 DEF IInv

\* A peer that is gone is blamed.
LEMMA FinishWithErrorIInv ==
    ASSUME IInv, NEW p \in Peer, p \in failed, FinishWithError(p)
    PROVE  IInv'
<1> DEFINE how == IF p = "client" THEN "client_error" ELSE "target_error"
<1>1. how \in Ends \ {"none"} /\ how # "idle"
  BY DEF Ends
<1>2. /\ how = "client_error" => "client" \in failed
      /\ how = "target_error" => "target" \in failed
  BY DEF Peer
<1>3. Finish(how)
  BY DEF FinishWithError
<1> HIDE DEF how
<1> QED
  BY <1>1, <1>2, <1>3, FinishIInv

\* A pump that reads or writes is touched and goes on: its timer is set anew,
\* and that of the other pump can only be early.
LEMMA TouchTiming ==
    ASSUME IInv, NEW d \in Direction, Waiting(d), touch, end' = end,
           NEW next \in {"reading", "writing"}, pc' = [pc EXCEPT ![d] = next],
           timer' = [timer EXCEPT ![d] = Remaining(idleFor')]
    PROVE  /\ Timing'
           /\ pc' \in [Direction -> {"reading", "writing", "shutting", "done"}]
           /\ timer' \in [Direction -> -Slack .. Idle]
           /\ idleFor' \in Nat /\ since' \in Nat /\ phase' \in 0 .. TicksPerMs - 1
<1>1. /\ idleFor' \in Nat /\ since' = 0 /\ phase' = phase /\ idleFor' = phase
      /\ phase \in 0 .. TicksPerMs - 1 /\ phase <= idleFor /\ idleFor \in Nat
  BY DEF touch, IInv, Types, Timing
<1>2. /\ Remaining(idleFor') \in -Slack .. Idle
      /\ Remaining(idleFor') + idleFor' = Idle
  BY <1>1, RemainingFact, IdleFact
<1>3. /\ pc'[d] = next /\ timer'[d] = Remaining(idleFor')
      /\ \A e \in Direction : e # d => pc'[e] = pc[e] /\ timer'[e] = timer[e]
      /\ pc' \in [Direction -> {"reading", "writing", "shutting", "done"}]
      /\ timer' \in [Direction -> -Slack .. Idle]
  BY <1>2 DEF IInv, Types
<1>4. ASSUME Running', NEW e \in Direction
      PROVE  /\ pc'[e] \in {"reading", "writing"} => timer'[e] + idleFor' <= Idle
             /\ pc'[e] = "shutting" => timer'[e] + idleFor' <= 2 * Idle + Slack
  <2>1. CASE e = d
    BY <1>2, <1>3, <2>1, IdleFact
  <2>2. CASE e # d
    <3>1. timer[e] \in Int /\ timer'[e] = timer[e] /\ pc'[e] = pc[e]
      BY <1>3, <2>2 DEF IInv, Types
    <3>2. /\ pc[e] \in {"reading", "writing"} => timer[e] + idleFor <= Idle
          /\ pc[e] = "shutting" => timer[e] + idleFor <= 2 * Idle + Slack
      BY <1>4 DEF IInv, Timing, Running
    <3> QED
      BY <1>1, <3>1, <3>2, IdleFact
  <2> QED
    BY <2>1, <2>2
<1>5. end' = "idle" => idleFor' >= Idle
  BY DEF Waiting, Running
<1>6. pc'[d] # "done"
  BY <1>3
<1>7. Timing'
  BY <1>1, <1>4, <1>5, <1>6, IdleFact DEF Timing
<1> QED
  BY <1>1, <1>3, <1>7

\* read_with_idle returns data.
LEMMA ReadIInv == ASSUME IInv, NEW d \in Direction, Read(d) PROVE IInv'
<1> USE DEF peerVars
<1>1. PICK n \in 1 .. Len(inbox[d]) :
        /\ buffer' = [buffer EXCEPT ![d] = SubSeq(inbox[d], 1, n)]
        /\ inbox' = [inbox EXCEPT ![d] = SubSeq(inbox[d], n + 1, Len(inbox[d]))]
  BY Zenon DEF Read
<1>2. /\ Types /\ Flow(d) /\ Pump(d) /\ pc[d] = "reading" /\ buffer[d] = <<>>
      /\ Running
  BY DEF IInv, Read, Pump, Waiting
<1>3. /\ buffer'[d] = SubSeq(inbox[d], 1, n)
      /\ inbox'[d] = SubSeq(inbox[d], n + 1, Len(inbox[d]))
      /\ DOMAIN buffer' = Direction /\ DOMAIN inbox' = Direction
      /\ \A e \in Direction : e # d => buffer'[e] = buffer[e] /\ inbox'[e] = inbox[e]
  BY <1>1, <1>2 DEF Types
<1>4. ASSUME NEW e \in Direction PROVE Flow(e)'
  <2>1. CASE e = d
    BY <1>2, <1>3, <2>1, StreamRead DEF Read, Flow
  <2>2. CASE e # d
    BY <1>3, <2>2 DEF Read, Flow, IInv
  <2> QED
    BY <2>1, <2>2
<1>5. /\ Timing'
      /\ pc' \in [Direction -> {"reading", "writing", "shutting", "done"}]
      /\ timer' \in [Direction -> -Slack .. Idle]
      /\ idleFor' \in Nat /\ since' \in Nat /\ phase' \in 0 .. TicksPerMs - 1
  BY TouchTiming DEF Read
<1>6. Types'
  <2>1. inbox' \in [Direction -> Seq(Nat)] /\ buffer' \in [Direction -> Seq(Nat)]
    <3>1. ASSUME NEW e \in Direction
          PROVE  inbox'[e] \in Seq(Nat) /\ buffer'[e] \in Seq(Nat)
      BY <1>4, StreamTyped DEF Flow
    <3>2. inbox' \in [Direction -> Seq(Nat)]
      BY <1>1, <1>3, <3>1, Zenon
    <3>3. buffer' \in [Direction -> Seq(Nat)]
      BY <1>1, <1>3, <3>1, Zenon
    <3> QED
      BY <3>2, <3>3
  <2>2. \A q \in {inbox, buffer, outbox}' : q \in [Direction -> Seq(Nat)]
    BY <1>2, <2>1, Zenon DEF Read, Types
  <2> QED
    BY <1>2, <1>5, <2>2, Zenon DEF Read, Types
<1>7. ASSUME NEW e \in Direction PROVE Pump(e)'
  <2>1. CASE e = d
    <3>1. pc'[d] = "writing" /\ d \notin forwarded
      BY <1>2 DEF Read, Types, Pump
    <3> QED
      BY <2>1, <3>1 DEF Read, Pump
  <2>2. CASE e # d
    BY <1>2, <1>3, <2>2 DEF Read, Pump, IInv, Types
  <2> QED
    BY <2>1, <2>2
<1> QED
  BY <1>4, <1>5, <1>6, <1>7 DEF IInv, BlameIsRight, Read

\* write returns, and the rest is written or the next read begins.
LEMMA WriteIInv == ASSUME IInv, NEW d \in Direction, Write(d) PROVE IInv'
<1> USE DEF peerVars
<1>1. PICK n \in 1 .. Len(buffer[d]) :
        /\ outbox' = [outbox EXCEPT ![d] = outbox[d] \o SubSeq(buffer[d], 1, n)]
        /\ delivered' = [delivered EXCEPT ![d] = delivered[d] + n]
        /\ buffer' = [buffer EXCEPT ![d] = SubSeq(buffer[d], n + 1, Len(buffer[d]))]
  BY Zenon DEF Write
<1>2. Types /\ Flow(d) /\ Pump(d) /\ pc[d] = "writing" /\ Running
  BY DEF IInv, Write, Pump, Waiting
<1>3. /\ outbox'[d] = outbox[d] \o SubSeq(buffer[d], 1, n)
      /\ delivered'[d] = delivered[d] + n
      /\ buffer'[d] = SubSeq(buffer[d], n + 1, Len(buffer[d]))
      /\ DOMAIN outbox' = Direction /\ DOMAIN buffer' = Direction /\ DOMAIN delivered' = Direction
      /\ \A e \in Direction : e # d => /\ outbox'[e] = outbox[e]
                                       /\ buffer'[e] = buffer[e]
                                       /\ delivered'[e] = delivered[e]
  BY <1>1, <1>2 DEF Types
<1>4. ASSUME NEW e \in Direction PROVE Flow(e)'
  <2>1. CASE e = d
    BY <1>2, <1>3, <2>1, StreamWrite DEF Write, Flow
  <2>2. CASE e # d
    BY <1>3, <2>2 DEF Write, Flow, IInv
  <2> QED
    BY <2>1, <2>2
<1> DEFINE next == IF buffer'[d] = <<>> THEN "reading" ELSE "writing"
<1>5. /\ Timing'
      /\ pc' \in [Direction -> {"reading", "writing", "shutting", "done"}]
      /\ timer' \in [Direction -> -Slack .. Idle]
      /\ idleFor' \in Nat /\ since' \in Nat /\ phase' \in 0 .. TicksPerMs - 1
  <2>1. next \in {"reading", "writing"} /\ pc' = [pc EXCEPT ![d] = next]
    BY DEF Write
  <2> HIDE DEF next
  <2> QED
    BY <2>1, TouchTiming, Zenon DEF Write
<1>6. Types'
  <2>1. ASSUME NEW e \in Direction
        PROVE  outbox'[e] \in Seq(Nat) /\ buffer'[e] \in Seq(Nat) /\ delivered'[e] \in Nat
    BY <1>4, StreamTyped DEF Flow
  <2>2. outbox' \in [Direction -> Seq(Nat)]
    BY <1>1, <1>3, <2>1, Zenon
  <2>3. buffer' \in [Direction -> Seq(Nat)]
    BY <1>1, <1>3, <2>1, Zenon
  <2>4. delivered' \in [Direction -> Nat]
    BY <1>1, <1>3, <2>1, Zenon
  <2>5. \A q \in {inbox, buffer, outbox}' : q \in [Direction -> Seq(Nat)]
    BY <1>2, <2>2, <2>3, Zenon DEF Write, Types
  <2> QED
    BY <1>2, <1>5, <2>4, <2>5 DEF Write, Types
<1>7. ASSUME NEW e \in Direction PROVE Pump(e)'
  <2>1. CASE e = d
    <3>1. pc'[d] = next /\ d \notin forwarded
      BY <1>2 DEF Write, Types, Pump
    <3> QED
      BY <2>1, <3>1 DEF Write, Pump
  <2>2. CASE e # d
    BY <1>2, <1>3, <2>2 DEF Write, Pump, IInv, Types
  <2> QED
    BY <2>1, <2>2
<1> QED
  BY <1>4, <1>5, <1>6, <1>7 DEF IInv, BlameIsRight, Write

\* The source has ended: the shutdown begins, with a timeout of its own.
LEMMA ReadEofIInv == ASSUME IInv, NEW d \in Direction, ReadEof(d) PROVE IInv'
<1> USE DEF clockVars, dataVars, peerVars
<1>1. /\ Types /\ Pump(d) /\ Timing /\ pc[d] = "reading" /\ Running /\ d \in eof /\ inbox[d] = <<>>
  BY DEF IInv, ReadEof, Waiting
<1>2. /\ pc'[d] = "shutting" /\ timer'[d] = Idle
      /\ \A e \in Direction : e # d => pc'[e] = pc[e] /\ timer'[e] = timer[e]
      /\ pc' \in [Direction -> {"reading", "writing", "shutting", "done"}]
      /\ timer' \in [Direction -> -Slack .. Idle]
  BY <1>1, IdleFact DEF ReadEof, Types
<1>3. Types'
  BY <1>1, <1>2 DEF ReadEof, Types
<1>4. ASSUME NEW e \in Direction PROVE Flow(e)' /\ Pump(e)'
  BY <1>1, <1>2 DEF IInv, ReadEof, Flow, Pump
<1>5. Timing'
  <2>1. timer[d] \in Int /\ timer[d] >= -Slack /\ timer[d] + idleFor <= Idle /\ idleFor \in Nat
    BY <1>1 DEF Types, Timing
  <2>2. timer'[d] + idleFor <= 2 * Idle + Slack
    BY <1>2, <2>1, IdleFact
  <2>3. ASSUME NEW e \in Direction
        PROVE  /\ pc'[e] \in {"reading", "writing"} => timer'[e] + idleFor <= Idle
               /\ pc'[e] = "shutting" => timer'[e] + idleFor <= 2 * Idle + Slack
    BY <1>1, <1>2, <2>2 DEF Timing
  <2> QED
    BY <1>1, <1>2, <2>3 DEF ReadEof, Timing, Running
<1> QED
  BY <1>3, <1>4, <1>5 DEF IInv, BlameIsRight, ReadEof

\* A timer fires: the relay is idle, or the wait is renewed.
LEMMA TimerFiresIInv == ASSUME IInv, NEW d \in Direction, TimerFires(d) PROVE IInv'
<1>1. /\ Types /\ Timing /\ Running /\ pc[d] \in {"reading", "writing"} /\ idleFor \in Nat
  BY DEF IInv, TimerFires, Waiting, Types
<1>2. CASE Remaining(idleFor) = 0
  BY <1>1, <1>2, RemainingFact, FinishIInv DEF TimerFires, Ends
<1>3. CASE Remaining(idleFor) # 0
  <2> USE DEF clockVars, dataVars, peerVars
  <2>1. Remaining(idleFor) + idleFor = Idle /\ Remaining(idleFor) \in -Slack .. Idle
    BY <1>1, <1>3, RemainingFact, IdleFact
  <2>2. /\ timer'[d] = Remaining(idleFor)
        /\ \A e \in Direction : e # d => timer'[e] = timer[e]
        /\ timer' \in [Direction -> -Slack .. Idle]
        /\ UNCHANGED <<pc, clockVars, dataVars, peerVars, end>>
    BY <1>1, <1>3, <2>1 DEF TimerFires, Types
  <2>3. Types'
    BY <1>1, <2>2 DEF Types
  <2>4. ASSUME NEW e \in Direction PROVE Flow(e)' /\ Pump(e)'
    BY <2>2 DEF IInv, Flow, Pump
  <2>5. ASSUME NEW e \in Direction
        PROVE  /\ pc[e] \in {"reading", "writing"} => timer'[e] + idleFor <= Idle
               /\ pc[e] = "shutting" => timer'[e] + idleFor <= 2 * Idle + Slack
    BY <1>1, <2>1, <2>2, IdleFact DEF Timing
  <2>6. Timing' /\ BlameIsRight'
    BY <1>1, <2>2, <2>5 DEF IInv, Timing, BlameIsRight, Running
  <2> QED
    BY <2>3, <2>4, <2>6 DEF IInv
<1> QED
  BY <1>2, <1>3

\* A pump returns, with the half-close forwarded or given up.
LEMMA PumpDoneIInv ==
    ASSUME IInv, NEW d \in Direction, Waiting(d), pc[d] = "shutting", PumpDone(d),
           forwarded' \in {forwarded, forwarded \cup {d}}
    PROVE  IInv'
<1> USE DEF clockVars, dataVars
<1>1. Types /\ Timing /\ Running /\ Pump(d)
  BY DEF IInv, Waiting
<1>2. /\ pc'[d] = "done"
      /\ \A e \in Direction : e # d => pc'[e] = pc[e]
      /\ pc' \in [Direction -> {"reading", "writing", "shutting", "done"}]
  BY <1>1 DEF PumpDone, Types
<1>3. end' \in {end, "completed"} /\ forwarded' \subseteq Direction
  BY <1>1 DEF PumpDone, Types
<1>4. Types'
  BY <1>1, <1>2, <1>3 DEF PumpDone, Types, Ends
<1>5. ASSUME NEW e \in Direction PROVE Flow(e)' /\ Pump(e)'
  BY <1>1, <1>2 DEF IInv, PumpDone, Flow, Pump
<1>6. Timing'
  <2>1. Running' => \E e \in Direction : pc'[e] # "done"
    <3>1. Other(d) \in Direction /\ Other(d) # d
      BY DEF Other, Direction
    <3> QED
      BY <1>2, <3>1 DEF PumpDone, Running
  <2>2. ASSUME NEW e \in Direction
        PROVE  /\ pc'[e] \in {"reading", "writing"} => timer[e] + idleFor <= Idle
               /\ pc'[e] = "shutting" => timer[e] + idleFor <= 2 * Idle + Slack
    BY <1>1, <1>2 DEF Timing
  <2> QED
    BY <1>1, <1>3, <2>1, <2>2 DEF PumpDone, Timing, Running
<1> QED
  BY <1>1, <1>3, <1>4, <1>5, <1>6 DEF IInv, BlameIsRight, PumpDone, Running

\* Time passes.
LEMMA TickIInv == ASSUME IInv, Tick PROVE IInv'
<1> USE DEF dataVars, peerVars
<1>1. Types /\ Timing /\ Running /\ phase \in 0 .. TicksPerMs - 1
  BY DEF IInv, Tick, Types
<1>2. phase' \in 0 .. TicksPerMs - 1 /\ phase' <= phase + 1
  BY <1>1, PhaseFact DEF Tick
<1>3. ASSUME NEW e \in Direction
      PROVE  /\ timer[e] \in -Slack .. Idle
             /\ timer'[e] \in -Slack .. Idle
             /\ pc[e] \in {"reading", "writing", "shutting"} => timer'[e] = timer[e] - 1
  <2>1. timer[e] \in -Slack .. Idle /\ Idle \in Nat /\ Slack \in Nat
    BY <1>1, IdleFact DEF Types
  <2>2. timer'[e] = IF Waiting(e) THEN timer[e] - 1 ELSE timer[e]
    BY DEF Tick
  <2>3. Waiting(e) => timer[e] > -Slack
    BY DEF Tick
  <2> QED
    BY <1>1, <2>1, <2>2, <2>3 DEF Waiting
<1>4. timer' \in [Direction -> -Slack .. Idle]
  BY <1>3 DEF Tick
<1>5. Types'
  BY <1>1, <1>2, <1>4 DEF Tick, Types
<1>6. ASSUME NEW e \in Direction PROVE Flow(e)' /\ Pump(e)'
  BY DEF IInv, Tick, Flow, Pump
<1>7. ASSUME NEW e \in Direction
      PROVE  /\ pc[e] \in {"reading", "writing"} => timer'[e] + idleFor' <= Idle
             /\ pc[e] = "shutting" => timer'[e] + idleFor' <= 2 * Idle + Slack
  <2>1. idleFor \in Nat /\ idleFor' = idleFor + 1 /\ timer[e] \in Int /\ Idle \in Nat /\ Slack \in Nat
    BY <1>1, <1>3, IdleFact DEF Tick, Types
  <2> QED
    BY <1>1, <1>3, <2>1 DEF Timing
<1>8. Timing' /\ BlameIsRight'
  <2>1. phase' <= idleFor' /\ since' <= idleFor' /\ idleFor' < since' + TicksPerMs
    <3>1. /\ idleFor \in Nat /\ since \in Nat /\ phase \in Nat /\ TicksPerMs \in Nat
          /\ idleFor' = idleFor + 1 /\ since' = since + 1
          /\ phase <= idleFor /\ since <= idleFor /\ idleFor < since + TicksPerMs
      BY <1>1, IdleFact DEF Tick, Types, Timing
    <3> QED
      BY <1>2, <3>1
  <2> QED
    BY <1>1, <1>7, <2>1 DEF IInv, Timing, BlameIsRight, Running, Tick
<1> QED
  BY <1>5, <1>6, <1>8 DEF IInv

\* Every step preserves the invariant.
LEMMA NextIInv == IInv /\ [Next]_vars => IInv'
<1> SUFFICES ASSUME IInv, [Next]_vars PROVE IInv'
  OBVIOUS
<1>1. ASSUME NEW d \in Direction, Send(d) PROVE IInv'
  BY <1>1, SendIInv
<1>2. ASSUME NEW d \in Direction, CloseHalf(d) PROVE IInv'
  BY <1>2, PeerIInv, Zenon DEF CloseHalf, IInv, Types
<1>3. ASSUME NEW d \in Direction, PumpStep(d) PROVE IInv'
  <2>1. CASE Read(d)
    BY <2>1, ReadIInv
  <2>2. CASE ReadEof(d)
    BY <2>2, ReadEofIInv
  <2>3. CASE ReadFails(d)
    BY <2>3, FinishWithErrorIInv DEF ReadFails, Source, Peer
  <2>4. CASE Write(d)
    BY <2>4, WriteIInv
  <2>5. CASE WriteFails(d)
    BY <2>5, FinishWithErrorIInv DEF WriteFails, Sink, Peer
  <2>6. CASE TimerFires(d)
    BY <2>6, TimerFiresIInv
  <2>7. CASE ShutdownDone(d)
    BY <2>7, PumpDoneIInv DEF ShutdownDone
  <2>8. CASE ShutdownFails(d)
    BY <2>8, PumpDoneIInv DEF ShutdownFails
  <2> QED
    BY <1>3, <2>1, <2>2, <2>3, <2>4, <2>5, <2>6, <2>7, <2>8 DEF PumpStep
<1>4. ASSUME NEW p \in Peer, Fail(p) PROVE IInv'
  BY <1>4, PeerIInv DEF Fail, IInv, Types
<1>5. CASE Dropped
  BY <1>5, FinishIInv DEF Dropped, Ends
<1>6. CASE Tick
  BY <1>6, TickIInv
<1>7. CASE UNCHANGED vars
  BY <1>7, PeerIInv DEF vars, clockVars, dataVars, IInv, Types
<1> QED
  BY <1>1, <1>2, <1>3, <1>4, <1>5, <1>6, <1>7 DEF Next, Over

\* The inductive invariant holds at every moment of a relay.
THEOREM Inductive == Spec => []IInv
BY InitIInv, NextIInv, PTL DEF Spec

-----------------------------------------------------------------------------
(* What follows from it.                                                   *)

\* Bytes that continue others are numbered from there.
LEMMA ContinuesBounded ==
    ASSUME NEW s \in Seq(Nat), NEW before \in Nat, NEW most \in Nat,
           Continues(s, before), before + Len(s) <= most
    PROVE  s \in Seq(1 .. most)
<1>1. ASSUME NEW i \in 1 .. Len(s) PROVE s[i] \in 1 .. most
  BY DEF Continues
<1>2. s = [i \in 1 .. Len(s) |-> s[i]] /\ Len(s) \in Nat
  OBVIOUS
<1> QED
  BY <1>1, <1>2

\* No byte is outside the bytes that were sent.
LEMMA StreamBounded ==
    ASSUME NEW unread, NEW held, NEW written, NEW bytes, NEW count, NEW most \in Nat,
           Stream(unread, held, written, bytes, count), bytes <= most
    PROVE  /\ unread \in Seq(1 .. most) /\ held \in Seq(1 .. most) /\ written \in Seq(1 .. most)
           /\ count \in 0 .. most
<1>1. Len(written) \in Nat /\ Len(held) \in Nat /\ Len(unread) \in Nat
  BY DEF Stream
<1>2. written \in Seq(1 .. most)
  BY <1>1, ContinuesBounded DEF Stream
<1>3. held \in Seq(1 .. most)
  BY <1>1, ContinuesBounded DEF Stream
<1>4. unread \in Seq(1 .. most)
  BY <1>1, ContinuesBounded DEF Stream
<1> QED
  BY <1>1, <1>2, <1>3, <1>4 DEF Stream

\* The relay keeps its state in its types: in particular a timer is never more
\* than the slack late nor set beyond the idle timeout, and nothing but bytes
\* that were sent is ever read, held, written or counted.
THEOREM TypesHold == Spec => []TypeOK
<1>1. ASSUME IInv PROVE TypeOK
  <2>1. ASSUME NEW d \in Direction
        PROVE  /\ inbox[d] \in Seq(Bytes) /\ buffer[d] \in Seq(Bytes) /\ outbox[d] \in Seq(Bytes)
               /\ delivered[d] \in 0 .. MaxBytes
    <3>1. sent[d] <= MaxBytes /\ MaxBytes \in Nat
      BY <1>1, RelayAssumption DEF IInv, Types
    <3> QED
      BY <1>1, <3>1, StreamBounded DEF IInv, Flow, Bytes
  <2>2. \A q \in {inbox, buffer, outbox} : q \in [Direction -> Seq(Bytes)]
    BY <1>1, <2>1 DEF IInv, Types
  <2>3. delivered \in [Direction -> 0 .. MaxBytes]
    BY <1>1, <2>1 DEF IInv, Types
  <2> QED
    BY <1>1, <2>2, <2>3, Zenon DEF IInv, Types, TypeOK
<1> QED
  BY <1>1, Inductive, PTL

\* The relay is idle on time (read_with_idle, write_with_idle and the activity
\* clock): never before the idle timeout less the millisecond that touch cuts
\* off, and never later than the idle timeout, or twice that for a half-close.
THEOREM IdleHolds == Spec => []IdleOnTime
<1>1. ASSUME IInv PROVE IdleOnTime
  <2>1. Types /\ Timing /\ since \in Nat /\ idleFor \in Nat
    BY <1>1 DEF IInv, Types
  <2>2. end = "idle" => since > Idle - TicksPerMs
    BY <2>1, IdleFact DEF Timing
  <2>3. ASSUME Running, NEW d \in Direction, pc[d] \in {"reading", "writing"}
        PROVE  since <= Idle + Slack
    <3>1. timer[d] \in Int /\ timer[d] >= -Slack /\ timer[d] + idleFor <= Idle /\ since <= idleFor
      BY <2>1, <2>3 DEF Types, Timing
    <3> QED
      BY <2>1, <3>1, IdleFact
  <2>4. ASSUME Running, NEW d \in Direction, pc[d] = "shutting"
        PROVE  since <= 2 * (Idle + Slack)
    <3>1. /\ timer[d] \in Int /\ timer[d] >= -Slack /\ timer[d] + idleFor <= 2 * Idle + Slack
          /\ since <= idleFor
      BY <2>1, <2>4 DEF Types, Timing
    <3> QED
      BY <2>1, <3>1, IdleFact
  <2>5. Running => \E d \in Direction : pc[d] \in {"reading", "writing", "shutting"}
    BY <2>1 DEF Types, Timing
  <2> QED
    BY <2>2, <2>3, <2>4, <2>5 DEF IdleOnTime
<1> QED
  BY <1>1, Inductive, PTL

\* The relay is closed for a peer only when that peer has failed (PumpError
\* and its translation in `relay`).
THEOREM BlameHolds == Spec => []BlameIsRight
<1>1. IInv => BlameIsRight
  BY DEF IInv
<1> QED
  BY <1>1, Inductive, PTL

-----------------------------------------------------------------------------
(* The relay implements Tunnel: the abstract step of each of its own.      *)

\* A step that changes nothing the peers see.
LEMMA StepUnseen ==
    ASSUME UNCHANGED <<sent, outbox, delivered, eof, forwarded, end>>
    PROVE  UNCHANGED Pipes!vars
BY DEF Pipes!vars, Running

\* Every end of the relay is an end of the tunnel.
LEMMA StepFinish ==
    ASSUME Running, NEW how \in Ends \ {"none"}, Finish(how)
    PROVE  Pipes!End
BY DEF Finish, Pipes!End, Running, dataVars, peerVars

\* A write delivers the next bytes, and counts them in the same step.
LEMMA StepWrite == ASSUME IInv, NEW d \in Direction, Write(d) PROVE Pipes!Deliver(d)
<1>1. PICK k \in 1 .. Len(buffer[d]) :
        /\ outbox' = [outbox EXCEPT ![d] = outbox[d] \o SubSeq(buffer[d], 1, k)]
        /\ delivered' = [delivered EXCEPT ![d] = delivered[d] + k]
  BY Zenon DEF Write
<1>2. /\ Types /\ Flow(d) /\ Pump(d) /\ Running /\ pc[d] = "writing" /\ d \notin forwarded
      /\ UNCHANGED <<sent, eof, forwarded, end>>
  BY DEF IInv, Write, Waiting, Pump, peerVars
<1> DEFINE n == Len(outbox[d]) + k
           front == SubSeq(buffer[d], 1, k)
<1>3. /\ outbox[d] \in Seq(Nat) /\ buffer[d] \in Seq(Nat) /\ inbox[d] \in Seq(Nat)
      /\ Continues(outbox[d], 0) /\ Continues(buffer[d], Len(outbox[d]))
      /\ sent[d] = Len(outbox[d]) + Len(buffer[d]) + Len(inbox[d])
      /\ delivered[d] = Len(outbox[d])
  BY <1>2 DEF Flow, Stream
<1>4. front \in Seq(Nat) /\ Len(front) = k /\ Continues(front, 0 + Len(outbox[d]))
  BY <1>3, ContinuesFront
<1>5. n \in Len(outbox[d]) + 1 .. sent[d]
  <2>1. Len(outbox[d]) \in Nat /\ Len(buffer[d]) \in Nat /\ Len(inbox[d]) \in Nat
    BY <1>3
  <2>2. ASSUME NEW a \in Nat, NEW b \in Nat, NEW c \in Nat, NEW m \in 1 .. b
        PROVE  a + m \in a + 1 .. a + b + c
    OBVIOUS
  <2>3. n \in Len(outbox[d]) + 1 .. Len(outbox[d]) + Len(buffer[d]) + Len(inbox[d])
    BY <2>1, <2>2, Zenon
  <2>4. sent[d] = Len(outbox[d]) + Len(buffer[d]) + Len(inbox[d])
    BY <1>3, Zenon
  <2> QED
    BY <2>3, <2>4, Zenon
<1> HIDE DEF front
<1>6. /\ outbox[d] \o front \in Seq(Nat) /\ Len(outbox[d] \o front) = n
      /\ Continues(outbox[d] \o front, 0)
  BY <1>3, <1>4, ContinuesConcat
<1>7. outbox[d] \o front = [i \in 1 .. n |-> i]
  BY <1>6, ContinuesFromStart, Zenon
<1>8. /\ outbox' = [outbox EXCEPT ![d] = [i \in 1 .. n |-> i]]
      /\ delivered' = [delivered EXCEPT ![d] = n]
  BY <1>1, <1>3, <1>7 DEF front
<1> QED
  BY <1>2, <1>5, <1>8, Zenon DEF Pipes!Deliver, Running

\* The half-close is forwarded behind the last byte.
LEMMA StepShutdownDone ==
    ASSUME IInv, NEW d \in Direction, ShutdownDone(d)
    PROVE  Pipes!Tell(d)
<1>1. /\ Flow(d) /\ Pump(d) /\ Running /\ pc[d] = "shutting"
  BY DEF IInv, ShutdownDone, Waiting
<1>2. d \in eof /\ inbox[d] = <<>> /\ buffer[d] = <<>>
  BY <1>1 DEF Pump
<1>3. Len(outbox[d]) = sent[d]
  BY <1>1, <1>2 DEF Flow, Stream
<1> QED
  BY <1>1, <1>2, <1>3 DEF ShutdownDone, PumpDone, Pipes!Tell, Running, dataVars

\* A half-close that is given up is not seen, unless the relay ends with it.
LEMMA StepShutdownFails ==
    ASSUME NEW d \in Direction, ShutdownFails(d)
    PROVE  Pipes!End \/ UNCHANGED Pipes!vars
BY DEF ShutdownFails, PumpDone, Waiting, Running, Pipes!End, Pipes!vars, dataVars

\* Every step of the relay is a step of the tunnel, or is not seen.
LEMMA NextTunnel == IInv /\ [Next]_vars => [Pipes!Next]_(Pipes!vars)
<1> SUFFICES ASSUME IInv, [Next]_vars PROVE Pipes!Next \/ UNCHANGED Pipes!vars
  OBVIOUS
<1> USE DEF clockVars, dataVars, peerVars
<1>1. ASSUME NEW d \in Direction, Send(d) PROVE Pipes!Next
  BY <1>1 DEF Send, Running, Pipes!Next, Pipes!Put
<1>2. ASSUME NEW d \in Direction, CloseHalf(d) PROVE Pipes!Next
  BY <1>2 DEF CloseHalf, Running, Pipes!Next, Pipes!Close
<1>3. ASSUME NEW d \in Direction, PumpStep(d) PROVE Pipes!Next \/ UNCHANGED Pipes!vars
  <2>1. CASE Read(d)
    BY <2>1, StepUnseen DEF Read
  <2>2. CASE ReadEof(d)
    BY <2>2, StepUnseen DEF ReadEof
  <2>3. CASE ReadFails(d)
    BY <2>3, StepFinish DEF ReadFails, FinishWithError, Waiting, Ends, Pipes!Next
  <2>4. CASE Write(d)
    BY <2>4, StepWrite DEF Pipes!Next
  <2>5. CASE WriteFails(d)
    BY <2>5, StepFinish DEF WriteFails, FinishWithError, Waiting, Ends, Pipes!Next
  <2>6. CASE TimerFires(d)
    <3>1. CASE Remaining(idleFor) = 0
      BY <2>6, <3>1, StepFinish DEF TimerFires, Waiting, Ends, Pipes!Next
    <3>2. CASE Remaining(idleFor) # 0
      BY <2>6, <3>2, StepUnseen DEF TimerFires
    <3> QED
      BY <3>1, <3>2
  <2>7. CASE ShutdownDone(d)
    BY <2>7, StepShutdownDone DEF Pipes!Next
  <2>8. CASE ShutdownFails(d)
    BY <2>8, StepShutdownFails DEF Pipes!Next
  <2> QED
    BY <1>3, <2>1, <2>2, <2>3, <2>4, <2>5, <2>6, <2>7, <2>8 DEF PumpStep
<1>4. ASSUME NEW p \in Peer, Fail(p) PROVE UNCHANGED Pipes!vars
  BY <1>4, StepUnseen DEF Fail
<1>5. CASE Dropped
  BY <1>5, StepFinish DEF Dropped, Ends, Pipes!Next
<1>6. CASE Tick
  BY <1>6, StepUnseen DEF Tick
<1>7. CASE UNCHANGED vars
  BY <1>7, StepUnseen DEF vars
<1> QED
  BY <1>1, <1>2, <1>3, <1>4, <1>5, <1>6, <1>7 DEF Next, Over

\* The relay is a tunnel (`relay`, pump, RelayCounters): whatever the buffers,
\* the short reads and writes, the timers and the failures do, each stream
\* arrives in order, without loss and without doubles, is counted as it
\* arrives, and its end never overtakes a byte.
THEOREM RelayRefinement == Spec => ImplementsTunnel
<1>1. Init => Pipes!Init
  BY DEF Init, Pipes!Init, Running
<1> QED
  BY <1>1, Inductive, NextTunnel, PTL DEF Spec, ImplementsTunnel, Pipes!Spec

=============================================================================
