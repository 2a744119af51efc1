--------------------------- MODULE MCPublicLanding ---------------------------
EXTENDS PublicLanding, TLC
CONSTANT t1
\* One tab of one visitor.
OneBrowser == t1 :> "one"
=============================================================================
