CONSTANTS
    Groups = {{"process"}}
    ChanCap = 2
    MaxRetry = 2
    MaxItems = 4
SPECIFICATION Spec
PROPERTY GroupEnds
CHECK_DEADLOCK FALSE
