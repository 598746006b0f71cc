SPECIFICATION Spec
CONSTANTS
    g_MaxThreadsTotal = 2
    MAX_THREADS_LIMIT = 2
    Timers = 2
    TimerPriority <- RisingPriority
    Priorities = {0, 1}
    FirstLines = {"plain", "critical"}
    HostFirstLines = {"plain"}
    Commands = {"pause", "critical", "onexit"}
    InterruptTimes = {15}
    InterruptLines <- NoLineCount
    Persistent = TRUE
    MaxLabelRuns = 0
    MaxPausedCount = 4
INVARIANTS
    TypeOK PausedCountExact TimersRunUnpaused
    UninterruptibleRespected ExitRunsAlone TimerNotReentered NeverStranded IdleAnswers
CHECK_DEADLOCK FALSE
