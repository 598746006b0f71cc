SPECIFICATION Spec
CONSTANTS
    g_MaxThreadsTotal = 1
    MAX_THREADS_LIMIT = 1
    Timers = 2
    TimerPriority <- SamePriority
    Priorities = {0}
    FirstLines = {"plain"}
    HostFirstLines = {}
    Commands = {"pause"}
    InterruptTimes = {0}
    InterruptLines <- NoLineCount
    Persistent = TRUE
    MaxLabelRuns = 0
    MaxPausedCount = 1
PROPERTIES
    PauseMarkHonoured
CHECK_DEADLOCK FALSE
