------------------------------ MODULE Question ------------------------------
(* Pure functions under TLC: a state is one question, and nothing happens.   *)
VARIABLE question

Asked(subject) == question.about = subject

Next == UNCHANGED question
=============================================================================
