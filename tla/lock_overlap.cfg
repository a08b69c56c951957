\* The default build: commands that overlap.
SPECIFICATION Spec
CONSTANTS
    QueueSize = 2
    WorkQueueSize = 1
    LocalThreads = {}
    RemoteTargets = {"Locked", "Unlocked"}
    Prompt = TRUE
INVARIANT
    AgreeAtRest
