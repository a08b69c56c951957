\* An application task that lags.
SPECIFICATION Spec
CONSTANTS
    QueueSize = 4
    Debounce = 1
    Window = 10
    HoldBound = 2
    Prompt = FALSE
PROPERTY
    ResetAfterWholeWindow
