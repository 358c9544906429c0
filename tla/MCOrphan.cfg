CONSTANTS
    Procs = {p1}
    NoProc = NoProc
    Faults = {}
    MaxStoppers = 1
    Names = {engine}
    NameOf <- MCNameOf
    EngineNames = {}
    Callers = {t1, t2}
    NoCaller = NoCaller
    PortMin = 1
    PortMax = 1
    Counts = {1}
    MaxUnreg = 1
    Watched = {}
    DeleteWhen = {"starting", "running", "stopping", "stopped", "error"}
    ReplaceWhen = {}
SPECIFICATION Spec
SYMMETRY Symmetry
INVARIANTS
    LiveIsOwned
