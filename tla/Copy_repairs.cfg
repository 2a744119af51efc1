SPECIFICATION Spec
CONSTANTS
    Words <- MCWords
    Terms <- MCTerms
    Channels <- MCChannels
    Claims <- MCClaims
    ClaimPairs <- MCClaimPairs
    Boasts <- MCBoasts
    Figures <- MCFigures
    Glue <- MCGlue
    Fallbacks <- MCFallbacks
    MaxLen = 2
    Sources <- MCSources
    Candidates <- MCCandidates
    MaxCalls = 2
CHECK_DEADLOCK FALSE
INVARIANTS
    StoredCopyIsGrounded
    OnlyAssumptionsFailLate
    RepairedFlawsDoNotReject
