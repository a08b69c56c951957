\* Remote commands, the button and the lock screen all initiate actions.
SPECIFICATION FairSpec
CONSTANTS
    QueueSize = 2
    WorkQueueSize = 2
    LocalThreads = {"app", "display"}
    RemoteTargets = {"Locked", "Unlocked"}
    Prompt = TRUE
INVARIANTS
    TypeOK
    MoveIsTimed
    OneCompletionPerMove
    InitiatorsAgree
PROPERTIES
    ImplementsDoor
    CompletesUnlessLost
