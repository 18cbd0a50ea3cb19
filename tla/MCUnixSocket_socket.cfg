CONSTANTS
    Unset = Unset
    NoNode = NoNode
    OtherFile = OtherFile
    Procs = {p1, p2, p3}
    IntBits = 22
    LongBits = 28
    kMaxUnixPathLength = 7
    HardwareThreads = 2
    Envs <- MCEnvs
    InitialDirs <- MCInitialDirs
    Levels = 2
    MaxFaults = 1
SPECIFICATION UnixFairSpec
INVARIANTS
    UndisturbedServes
    ExitLeavesNoFile
    SettingsAsWritten
PROPERTIES
    RestartServes
CHECK_DEADLOCK FALSE
