\* The default build: remote commands, no long press.
SPECIFICATION LedSpec
CONSTANTS
    QueueSize = 2
    WorkQueueSize = 1
    LocalThreads = {}
    RemoteTargets = {"Locked", "Unlocked"}
    Prompt = TRUE
    LongPresses = FALSE
INVARIANT
    LedShowsDoor
