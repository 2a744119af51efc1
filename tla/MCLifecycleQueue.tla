-------------------------- MODULE MCLifecycleQueue --------------------------
(* The worker loop on four campaigns, two of which have rows that do not     *)
(* parse, between an older and a younger healthy one.                        *)
EXTENDS LifecycleQueue

MCBroken == {2, 3}
MCWaits == {0, 1}
MCBatches == {1, 2}
=============================================================================
