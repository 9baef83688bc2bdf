---------------------------- MODULE MCConnection ----------------------------
(* Connection for TLC: three permitted hosts, one of them with a second     *)
(* spelling, and one that is denied.                                        *)
EXTENDS ConnectionInServer

MCAddress == {"host1", "mapped1", "host2", "host3", "inner"}

MCCanonical == [a \in MCAddress |-> IF a = "mapped1" THEN "host1" ELSE a]

MCPermitted == {"host1", "host2", "host3"}
=============================================================================
