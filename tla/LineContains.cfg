CONSTANTS
    Lines <- MCLines
    Others <- MCOthers
SPECIFICATION FairSpec
CHECK_DEADLOCK FALSE
INVARIANTS
    CoveredUnlessLeaving
PROPERTY CoveredIsTrue
