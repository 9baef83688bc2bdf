---------------------------- MODULE MCFunctions -----------------------------
(* One run for all pure functions.                                           *)
EXTENDS MCPolicy, MCSettings, MCWire

Init ==
    \/ ClassInit
    \/ CidrInit
    \/ CheckInit
    \/ TextInit
    \/ UserInit
    \/ SettingsInit
    \/ MessageInit
    \/ GarbageInit

Spec == Init /\ [][Next]_question
=============================================================================
