CONSTANTS
    shk <- PrefixScript
    g_MaxThreadsTotal = 2
    MAX_THREADS_LIMIT = 2
    g_MaxHotkeysPerInterval = 1
    Contested = {1}
    MaxQueue = 1
SPECIFICATION Spec
INVARIANTS TypeOK RegistrationCurrent BufferedTakenUp
PROPERTY LaunchChecked
