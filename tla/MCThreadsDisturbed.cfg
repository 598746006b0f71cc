SPECIFICATION Spec
CONSTANTS
    g_MaxThreadsTotal = 1
    MAX_THREADS_LIMIT = 1
    Timers = 1
    TimerPriority <- SamePriority
    Priorities = {0}
    FirstLines = {"plain"}
    HostFirstLines = {"plain"}
    Commands = {"pause", "error", "onexit"}
    InterruptTimes = {0}
    InterruptLines <- NoLineCount
    Persistent = FALSE
    MaxLabelRuns = 1
    MaxPausedCount = 1
INVARIANTS
    PausedNeverMissed
CHECK_DEADLOCK FALSE
