----------------------------- MODULE MCBanList ------------------------------
(* BanList for TLC: two hosts of one IPv6 /64, one of which comes twice, and *)
(* an IPv4 client that competes for the table.                               *)
EXTENDS BanList, TLC

CONSTANTS a1, a2, a3, a4

Peers ==
    a1 :> [kind |-> "v6", net |-> 1, host |-> 1]
    @@ a2 :> [kind |-> "v6", net |-> 1, host |-> 2]
    @@ a3 :> [kind |-> "v6", net |-> 1, host |-> 2]
    @@ a4 :> [kind |-> "v4", net |-> 1, host |-> 1]

MCPeerOf == [a \in Attempt |-> Peers[a]]

ThreeAttempts == {a1, a2, a3}
FourAttempts == {a1, a2, a3, a4}

\* Attempts from one address are interchangeable.
Symmetry == Permutations({a2, a3})
=============================================================================
