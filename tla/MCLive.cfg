CONSTANTS
    Procs = {p1, p2}
    NoProc = NoProc
    Faults = {"nobinary", "nostop"}
    MaxStoppers = 1
    Names = {engine}
    NameOf <- MCNameOf
    EngineNames = {}
    Callers = {t1}
    NoCaller = NoCaller
    PortMin = 1
    PortMax = 2
    Counts = {1}
    MaxUnreg = 1
    Watched = {}
    DeleteWhen = {"stopping", "error"}
    ReplaceWhen = {"starting", "running"}
SPECIFICATION FairSpec
PROPERTIES
    HandlersReturn
    StopCompletes
