CONSTANTS
    Subs = {s1, s2}
    BufSize = 2
    MaxItems = 5
SPECIFICATION Spec
INVARIANTS
    TypeOK
    CloseOnce
    NoSilentGap
PROPERTIES
    GapIsReported
CHECK_DEADLOCK FALSE
