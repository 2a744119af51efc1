----------------------------- MODULE MCReleases -----------------------------
(* Three releases, one kept beside the active and the rollback release. *)
EXTENDS Releases, TLC
CONSTANTS r1, r2, r3
Symmetric == Permutations({r1, r2, r3})
=============================================================================
