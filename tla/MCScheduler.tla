---------------------------- MODULE MCScheduler ----------------------------
(* Two tasks, of which the first line depends on the second.               *)
EXTENDS Scheduler

CONSTANTS a, b
MCOrder == <<a, b>>
MCDeps == [t \in {a, b} |-> IF t = a THEN {b} ELSE {}]
=============================================================================
