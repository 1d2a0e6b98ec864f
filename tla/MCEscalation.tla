---------------------------- MODULE MCEscalation ----------------------------
(* Escalation for TLC: a policy of two levels that repeats once, and the   *)
(* two engines of the process.                                             *)
EXTENDS Escalation

MCRules == <<1, 2>>
MCDelay == [l \in Levels |-> 1]
=============================================================================
