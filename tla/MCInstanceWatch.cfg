CONSTANTS
    Groups = {{"process", "engine", "replica"}, {"backing_image"}}
    ChanCap = 2
    MaxRetry = 2
    MaxItems = 2
SPECIFICATION Spec
INVARIANTS
    TypeOK
    NoSendOnClosedChan
PROPERTIES
    GroupEnds
    BrokenStreamEndsCall
CHECK_DEADLOCK FALSE
