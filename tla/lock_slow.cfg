\* The default build, with handlers that may be held for any time, restarts at
\* any moment, and two controllers.
SPECIFICATION RequestsSpec
CONSTANTS
    QueueSize = 1
    WorkQueueSize = 1
    LocalThreads = {}
    RemoteTargets = {"Locked", "Unlocked"}
    Prompt = FALSE
    Subjects = {s1, s2}
    Grants = {0, 1, 3, 5}
SYMMETRY Symmetry
INVARIANTS
    KnowsDoor
    AgreeUnlessIgnored
    ServesDeclared
PROPERTIES
    DoorMovesForOperators
    OnlyAdministratorsGrant
