\* ENABLE_UI: remote commands, taps, and commissioning at any time.
SPECIFICATION ScreenSpec
CONSTANTS
    QueueSize = 2
    WorkQueueSize = 1
    LocalThreads = {"display"}
    RemoteTargets = {"Locked", "Unlocked"}
    Prompt = TRUE
INVARIANTS
    ScreenTypeOK
    ScreenShowsArrival
    ScreenIsWhole
    AnimationEnds
