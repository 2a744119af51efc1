-------------------------- MODULE MCReservationIntake --------------------------
EXTENDS ReservationIntake, TLC

CONSTANTS r1, r2, c1, c2, c3, p1, p2   \* model values

\* Requests, campaigns and people are interchangeable.
Symmetry == Permutations(Requests) \cup Permutations(Campaigns) \cup Permutations(People)
==============================================================================
