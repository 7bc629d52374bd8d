CONSTANTS
    Lines <- MCLines
    Others <- MCOthers
SPECIFICATION FairSpec
CHECK_DEADLOCK FALSE
PROPERTY LeavingIsAnswered
