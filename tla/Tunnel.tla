------------------------------- MODULE Tunnel -------------------------------
(***************************************************************************)
(* What a proxied connection is to its two peers: two independent streams, *)
(* each in order and without loss, each ended by its writer, until the     *)
(* connection is over as a whole (src/relay/bidirectional.rs, the docs of  *)
(* `relay`, RelayEnd and RelayCounters).                                   *)
(***************************************************************************)
EXTENDS Integers, Sequences

CONSTANT Direction

VARIABLES
    sent,    \* how many bytes have gone into each stream; they are numbered
    got,     \* the bytes that have come out
    counted, \* how many of them the counters report
    closed,  \* the streams that their writer has ended
    told,    \* the streams whose reader has seen the end
    over     \* the connection is over

vars == <<sent, got, counted, closed, told, over>>

Init ==
    /\ sent = [d \in Direction |-> 0]
    /\ got = [d \in Direction |-> <<>>]
    /\ counted = [d \in Direction |-> 0]
    /\ closed = {}
    /\ told = {}
    /\ over = FALSE

Put(d) ==
    /\ ~over
    /\ d \notin closed
    /\ sent' = [sent EXCEPT ![d] = @ + 1]
    /\ UNCHANGED <<got, counted, closed, told, over>>

Close(d) ==
    /\ ~over
    /\ closed' = closed \cup {d}
    /\ UNCHANGED <<sent, got, counted, told, over>>

\* Some of the next bytes come out, and are counted with it.
Deliver(d) ==
    /\ ~over
    /\ d \notin told
    /\ \E n \in Len(got[d]) + 1 .. sent[d] :
          /\ got' = [got EXCEPT ![d] = [i \in 1 .. n |-> i]]
          /\ counted' = [counted EXCEPT ![d] = n]
    /\ UNCHANGED <<sent, closed, told, over>>

\* The end comes out, last of all; with the second one the connection may be over.
Tell(d) ==
    /\ ~over
    /\ d \in closed
    /\ Len(got[d]) = sent[d]
    /\ told' = told \cup {d}
    /\ over' \in BOOLEAN
    /\ UNCHANGED <<sent, got, counted, closed>>

End ==
    /\ ~over
    /\ over' = TRUE
    /\ UNCHANGED <<sent, got, counted, closed, told>>

Next ==
    \/ \E d \in Direction : Put(d) \/ Close(d) \/ Deliver(d) \/ Tell(d)
    \/ End

Spec == Init /\ [][Next]_vars
=============================================================================
