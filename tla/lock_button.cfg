\* ENABLE_BUTTON_LOCK_UNLOCK, with no remote command: presses of any length.
SPECIFICATION ButtonSpec
CONSTANTS
    QueueSize = 2
    WorkQueueSize = 2
    LocalThreads = {"app"}
    RemoteTargets = {}
    Prompt = TRUE
    LongPresses = TRUE
INVARIANTS
    LedTypeOK
    AgreeAtRest
    ArrivalIsOnItsWay
    LedShowsDoor
PROPERTY
    ArrivalIsReported
