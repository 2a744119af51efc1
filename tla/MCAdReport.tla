----------------------------- MODULE MCAdReport ------------------------------
(* Small instances of AdReport for TLC.  An hour of the model is three hours: *)
(* eight make a day.  One account is three of them ahead of UTC (Seoul), the  *)
(* other as many behind.  The runs start before and after the midnight of the *)
(* latter, and end before and after the midnights of the former and of UTC.   *)
EXTENDS AdReport, TLC

CONSTANTS w1, w2

MCWorkers == {w1, w2}
MCStarts == {2, 4}
MCEnds == {5, 7, 9}
MCZones == {-3, 3}
Symmetry == Permutations(MCWorkers)
==============================================================================
