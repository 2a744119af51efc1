----------------------------- MODULE PausedDraft -----------------------------
(***************************************************************************)
(* What the paused-draft operation promises of the objects in Meta: they   *)
(* are made one after the other, each at most once, and the draft is       *)
(* closed when all of them are there.                                      *)
(***************************************************************************)
EXTENDS Naturals

CONSTANT StepCount

VARIABLES made, closed

Make(k) ==
    /\ ~closed
    /\ made[k] = 0
    /\ \A j \in 1..(k - 1) : made[j] = 1
    /\ made' = [made EXCEPT ![k] = 1]
    /\ UNCHANGED closed

Close ==
    /\ \A k \in 1..StepCount : made[k] = 1
    /\ closed'
    /\ UNCHANGED made

Draft ==
    /\ made = [k \in 1..StepCount |-> 0] /\ ~closed
    /\ [][Close \/ \E k \in 1..StepCount : Make(k)]_<<made, closed>>
==============================================================================
