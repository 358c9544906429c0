CONSTANTS
    Procs = {p1, p2, p3}
    NoProc = NoProc
    Faults = {"nobinary"}
    MaxStoppers = 1
    Names = {engine}
    NameOf <- MCNameOf
    EngineNames = {}
    Callers = {t1, t2}
    NoCaller = NoCaller
    PortMin = 1
    PortMax = 3
    Counts = {1}
    MaxUnreg = 1
    Watched = {}
    DeleteWhen = {"stopped"}
    ReplaceWhen = {"running"}
SPECIFICATION Spec
SYMMETRY Symmetry
INVARIANTS
    PortsConserved
    NoPortClash
    NoCircularWait
PROPERTIES
    UsesAllocator
ACTION_CONSTRAINT LowestPort
