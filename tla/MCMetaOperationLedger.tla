------------------------ MODULE MCMetaOperationLedger ------------------------
EXTENDS MetaOperationLedger, TLC

CONSTANTS s1, s2, s3   \* model values

\* Sessions are interchangeable.
Symmetry == Permutations(Sessions)
==============================================================================
