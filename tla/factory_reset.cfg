\* Ticks of 250 ms: two of debounce time, a window of five debounce times,
\* and the delays of the display as they are.
\* A display whose touch driver could not be initialised does nothing more.
CHECK_DEADLOCK FALSE
SPECIFICATION MCSpec
CONSTANTS
    QueueSize = 2
    Debounce = 2
    Window = 10
    HoldBound = 3
    Prompt = TRUE
    Pause = 20
    ResetDelay = 4
    Points = {"origin", "p1", "p2"}
    Origin = "origin"
    CountBound = 2
INVARIANTS
    TypeOK
    ResetAtMostOnce
    WindowIsTimed
    BootGoesOn
    ScreenIsNotSplash
    TouchIsRead
PROPERTIES
    LongPressIsHeld
    ResetAfterWholeWindow
    WindowIsDecided
    FindsWhatItUses
    BootEnds
