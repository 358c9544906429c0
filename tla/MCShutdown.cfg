CONSTANTS
    Servers = {"pm", "disk", "spdk"}
    Watchable = {"pm"}
    Procs = {p1, p2}
SPECIFICATION Spec
INVARIANTS
    TypeOK
    NoneForgotten
PROPERTIES
    OneEndsAll
CHECK_DEADLOCK FALSE
