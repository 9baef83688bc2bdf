----------------------------- MODULE MCDialogue -----------------------------
(* Dialogue for TLC: one user, and clients that are right or wrong in each    *)
(* message, with a domain, an IPv4 target and names that cannot be served.    *)
EXTENDS Dialogue

Right == [username |-> <<97>>, password |-> <<112>>]
Wrong == [username |-> <<97>>, password |-> <<>>]
TooLong == [username |-> [i \in 1 .. 256 |-> 97], password |-> <<112>>]

OneUser == <<Right>>

Host(h) == [host |-> h, port |-> 80]
Targets == {Host(<<104>>), Host(<<32>>), [ip |-> <<8, 8, 8, 8>>, port |-> 53]}

\* client_handshake offers one method and asks for one command.
LockStep ==
    [eager : {FALSE}, methods : {<<2>>}, credentials : {Right, Wrong, TooLong},
     command : {1}, target : Targets, data : {<<5, 1>>}]

\* Other clients; their data looks like a message.
Eager ==
    [eager : {TRUE}, methods : {<<2>>, <<0>>, <<0, 2>>}, credentials : {Right, Wrong},
     command : {1, 2}, target : Targets, data : {<<5, 1>>}]

BothKinds == LockStep \cup Eager

TargetBanner == <<5, 0>>
=============================================================================
