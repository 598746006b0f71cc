SPECIFICATION FairSpec
CONSTANTS
    Timers = 1
    Events = {"clipboard", "menu", "call"}
    Shields = {"start", "critical"}
    g_MaxThreadsTotal = 2
    MaxQueue = 1
INVARIANTS
    TypeOK CountsExact NeverStuck NoWaitAboveForeignPump OneThreadEach
PROPERTIES
    MenuKept SleepEnds TimersRun
