------------------------------ MODULE MCServer ------------------------------
(* Server for TLC: connections are interchangeable model values. *)
EXTENDS Server, TLC

Symmetry == Permutations(Conn)
=============================================================================
