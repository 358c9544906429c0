CONSTANTS
    Procs = {p1}
    NoProc = NoProc
    Faults = {"nobinary", "nofork", "crash", "noanswer", "nostop", "probehangs"}
    MaxStoppers = 2
    Names = {engine}
    NameOf <- MCNameOf
    EngineNames = {engine}
    Callers = {t1, t2}
    NoCaller = NoCaller
    PortMin = 1
    PortMax = 1
    Counts = {0, 1}
    MaxUnreg = 2
    Watched = {p1}
    DeleteWhen = {"starting", "running", "stopping", "stopped", "error"}
    ReplaceWhen = {}
SPECIFICATION Spec
SYMMETRY Symmetry
INVARIANTS
    TypeOK
    WatchersUpToDate
    NoLoggerLeak
    StoppedIsDead
