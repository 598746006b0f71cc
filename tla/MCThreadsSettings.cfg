SPECIFICATION FairSpec
CONSTANTS
    g_MaxThreadsTotal = 1
    MAX_THREADS_LIMIT = 1
    Timers = 1
    TimerPriority <- SamePriority
    Priorities = {0}
    FirstLines = {"always"}
    HostFirstLines = {"plain"}
    Commands = {"critical", "notimers", "priority", "interrupt", "menu", "onexit"}
    InterruptTimes <- Settings
    InterruptLines <- LineSettings
    Persistent = TRUE
    MaxLabelRuns = 0
    MaxPausedCount = 2
INVARIANTS
    ThreadLimit
PROPERTIES
    ShieldExpires
CHECK_DEADLOCK FALSE
