--------------------------- MODULE ConnectionPool ---------------------------
(***************************************************************************)
(* What the server promises about its connections, whatever the tasks and  *)
(* the semaphore behind it do: never more than max_connections at a time,  *)
(* none begins once the server drains, each one is served once, and after  *)
(* the drain has begun the process exits and leaves none open              *)
(* (README.md, the settings max_connections and shutdown_grace_sec).       *)
(***************************************************************************)
EXTENDS Integers, FiniteSets

CONSTANTS Conn, MaxConnections

VARIABLES
    open,    \* the connections that are open
    gone,    \* the connections that have been served and are closed
    stage    \* "serving", "draining" or "exited"

vars == <<open, gone, stage>>

Init ==
    /\ open = {}
    /\ gone = {}
    /\ stage = "serving"

Open(c) ==
    /\ stage = "serving"
    /\ c \notin open \cup gone
    /\ Cardinality(open) < MaxConnections
    /\ open' = open \cup {c}
    /\ UNCHANGED <<gone, stage>>

Close(c) ==
    /\ stage # "exited"
    /\ c \in open
    /\ open' = open \ {c}
    /\ gone' = gone \cup {c}
    /\ UNCHANGED stage

Drain ==
    /\ stage = "serving"
    /\ stage' = "draining"
    /\ UNCHANGED <<open, gone>>

\* The process exits; what is still open is closed with it.
Exit ==
    /\ stage = "draining"
    /\ stage' = "exited"
    /\ open' = {}
    /\ gone' = gone \cup open

Next ==
    \/ \E c \in Conn : Open(c) \/ Close(c)
    \/ Drain
    \/ Exit

Spec == Init /\ [][Next]_vars /\ WF_vars(Exit)
=============================================================================
