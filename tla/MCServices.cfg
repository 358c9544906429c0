CONSTANTS
    Keys <- MCKeys
    Unknown = "PATH"
    Threads = {t1, t2}
    EnvLists <- MCEnvLists
    Replicas = {1, 2, 3}
    MaxLines = 3
    Window = 1
SPECIFICATION Spec
SYMMETRY Symmetry
INVARIANTS
    TypeOK
    NoClientLeak
    OKMeansDone
    NoPartialEnv
    OwnCredentials
    AbsenceIsCertain
    StatusIsComplete
    NoReplicaSkipped
    OKMeansNamed
    LogIsComplete
    LogNeverStuck
