------------------------- MODULE MCCampaignLifecycle -------------------------
EXTENDS CampaignLifecycle, TLC

CONSTANTS w1, w2   \* model values

\* Workers are interchangeable; used only where no liveness is checked.
Symmetry == Permutations(Workers)
==============================================================================
