\* The default build, with the event queue of the source.
SPECIFICATION FairSpec
CONSTANTS
    QueueSize = 10
    WorkQueueSize = 1
    LocalThreads = {}
    RemoteTargets = {"Unlocked"}
    Prompt = TRUE
PROPERTY
    Completes
