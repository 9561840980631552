SPECIFICATION WorkerSpec
CONSTANTS
    HeartbeatInterval = 5
    RpcTimeout = 3
    StaleAfter = 10
    PromptInterval = 5
    Tasks = {k1, k2}
    Lone = k1
    MaxAttempts = 2
    MaxTries = 1
    MayStop = TRUE
    Period = 1
    StalledTickGap = 3
    MaxSilence = 9
    HeartbeatQuiet = 2
    StreamInterval = 1
    Cap = 12
    Absent = Absent
INVARIANTS
    NeverEvictedWhileOnePathWorks
    ReportsSettled
    RunningWorkTracked
    NoFalseAlarm
    LoadFitsMemory
PROPERTIES
    NothingBesideWedgedWork
    DefaultPassSound
CHECK_DEADLOCK FALSE
