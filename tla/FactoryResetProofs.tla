-------------------------- MODULE FactoryResetProofs --------------------------
(***************************************************************************)
(* Proofs about FactoryReset, for every queue size and all delays, and for *)
(* an application task that lags by any time.                              *)
(***************************************************************************)
EXTENDS FactoryReset, TLAPS

(* Posting an event keeps the queue a queue of events within its capacity. *)
LEMMA PostEventType ==
    ASSUME NEW e \in Events, queue \in Seq(Events), Len(queue) <= QueueSize, lost \in BOOLEAN,
           PostEvent(e)
    PROVE  queue' \in Seq(Events) /\ Len(queue') <= QueueSize /\ lost' \in BOOLEAN
  BY ConstantsAssumption DEF PostEvent, HasRoom

(* Taking an event does, too.                                              *)
LEMMA TakeType ==
    ASSUME NEW e, queue \in Seq(Events), Len(queue) <= QueueSize, Take(e)
    PROVE  queue' \in Seq(Events) /\ Len(queue') <= QueueSize
  BY ConstantsAssumption DEF Take

(* The initial states have the types.                                      *)
LEMMA TypeInit == Init => TypeOK
<1> SUFFICES ASSUME Init PROVE TypeOK
  OBVIOUS
<1>1. queue = <<>>
  BY DEF Init
<1>2. queue \in Seq(Events) /\ Len(queue) <= QueueSize
  BY <1>1, ConstantsAssumption
<1>3. 0 \in 0..HoldBound /\ 0 \in 0..Window
  BY ConstantsAssumption
<1>4. resets \in 0..2 /\ held \in 0..HoldBound /\ open \in 0..Window
  BY <1>3 DEF Init
<1> QED BY <1>2, <1>4 DEF Init, TypeOK, Functions

(* Every step keeps the types.                                             *)
LEMMA TypeStep == TypeOK /\ [Next]_vars => TypeOK'
<1> SUFFICES ASSUME TypeOK, [Next]_vars PROVE TypeOK'
  OBVIOUS
<1> USE ConstantsAssumption DEF TypeOK, button, function, Off, Functions
<1>1. CASE Press
  BY <1>1 DEF Press, EdgeStarts
<1>2. CASE Release
  <2>1. 0 \in 0..HoldBound
    OBVIOUS
  <2> QED BY <1>2, <2>1 DEF Release
<1>3. CASE Bounce
  BY <1>3 DEF Bounce, EdgeStarts
<1>4. CASE DebounceExpires
  <2>1. PostEvent(IF down THEN "long" ELSE "short") /\ (IF down THEN "long" ELSE "short") \in Events
    BY <1>4 DEF DebounceExpires, Events
  <2>2. queue' \in Seq(Events) /\ Len(queue') <= QueueSize /\ lost' \in BOOLEAN
    BY <2>1, PostEventType
  <2> QED BY <1>4, <2>2 DEF DebounceExpires
<1>5. CASE FunctionTimerExpires
  <2>1. queue' \in Seq(Events) /\ Len(queue') <= QueueSize /\ lost' \in BOOLEAN
    BY <1>5, PostEventType DEF FunctionTimerExpires, Events
  <2> QED BY <1>5, <2>1 DEF FunctionTimerExpires
<1>6. CASE OtherEvent
  <2>1. queue' \in Seq(Events) /\ Len(queue') <= QueueSize /\ lost' \in BOOLEAN
    BY <1>6, PostEventType DEF OtherEvent, Events
  <2> QED BY <1>6, <2>1 DEF OtherEvent
<1>7. CASE AppStep
  <2>1. queue' \in Seq(Events) /\ Len(queue') <= QueueSize
    BY <1>7, TakeType DEF AppStep, OpenWindow, CancelWindow, IgnoreLongPress, OtherHandler, TriggerReset, IgnoreExpiry
  <2>2. CASE OpenWindow
    <3>1. functionTimer' \in {Off} \cup 0..Window /\ open' \in 0..Window
      BY <2>2 DEF OpenWindow
    <3> QED BY <2>1, <2>2, <3>1 DEF OpenWindow
  <2>3. CASE CancelWindow
    BY <2>1, <2>3 DEF CancelWindow, CancelledTimer
  <2>4. CASE IgnoreLongPress \/ OtherHandler \/ IgnoreExpiry
    BY <2>1, <2>4 DEF IgnoreLongPress, OtherHandler, IgnoreExpiry
  <2>5. CASE TriggerReset
    BY <2>1, <2>5 DEF TriggerReset, UpTo, FunctionAfterReset
  <2> QED BY <1>7, <2>2, <2>3, <2>4, <2>5 DEF AppStep
<1>8. CASE Tick
  <2>1. debounceTimer' \in {Off} \cup 0..Debounce /\ functionTimer' \in {Off} \cup 0..Window
    BY <1>8 DEF Tick, Countdown
  <2>2. held' \in 0..HoldBound /\ open' \in 0..Window
    BY <1>8 DEF Tick, UpTo
  <2> QED BY <1>8, <2>1, <2>2 DEF Tick
<1>9. CASE UNCHANGED vars
  BY <1>9 DEF vars
<1> QED BY <1>1, <1>2, <1>3, <1>4, <1>5, <1>6, <1>7, <1>8, <1>9 DEF Next, TimerStep

(* Type correctness of the button, its timers and the event queue.         *)
THEOREM TypeCorrect == Spec => []TypeOK
  BY TypeInit, TypeStep, PTL DEF Spec

-----------------------------------------------------------------------------
(* Once the reset was triggered, no function is selected and the timer     *)
(* stays marked active: neither branch of FunctionHandler is open to a     *)
(* further long press.                                                     *)
LatchInv ==
    resets = 0 \/ (resets = 1 /\ mFunction = "None" /\ mFunctionTimerActive)

(* A step that takes neither branch of FunctionHandler and does not        *)
(* trigger the reset leaves the latch alone.                               *)
LEMMA LatchStep == TypeOK /\ LatchInv /\ [Next]_vars => LatchInv'
<1> SUFFICES ASSUME TypeOK, LatchInv, [Next]_vars PROVE LatchInv'
  OBVIOUS
<1>1. CASE OpenWindow
  BY <1>1 DEF OpenWindow, MayOpen, LatchInv
<1>2. CASE CancelWindow
  BY <1>2 DEF CancelWindow, LatchInv
<1>3. CASE TriggerReset
  BY <1>3 DEF TriggerReset, FunctionAfterReset, UpTo, LatchInv
<1>4. CASE IgnoreLongPress \/ OtherHandler \/ IgnoreExpiry \/ Press \/ Release \/ Bounce
           \/ DebounceExpires \/ FunctionTimerExpires \/ OtherEvent \/ Tick
  BY <1>4 DEF IgnoreLongPress, OtherHandler, IgnoreExpiry, Press, Release, Bounce, DebounceExpires,
              FunctionTimerExpires, OtherEvent, Tick, function, LatchInv
<1>5. CASE UNCHANGED vars
  BY <1>5 DEF vars, LatchInv
<1> QED BY <1>1, <1>2, <1>3, <1>4, <1>5 DEF Next, TimerStep, AppStep

(* A factory reset is scheduled at most once, whatever presses and         *)
(* expiries are queued around it and however late they are handled.        *)
THEOREM ResetOnce == Spec => []ResetAtMostOnce
<1>1. Init => LatchInv
  BY DEF Init, LatchInv
<1>2. LatchInv => ResetAtMostOnce
  BY DEF LatchInv, ResetAtMostOnce
<1> QED BY TypeCorrect, LatchStep, <1>1, <1>2, PTL DEF Spec

-----------------------------------------------------------------------------
(* A window that is open has its timer running or its expiry queued, and   *)
(* is the one the timer is marked active for.                              *)
TimedInv ==
    /\ WindowIsTimed
    /\ mFunction = "FactoryReset" => mFunctionTimerActive

(* What is queued stays when an event is posted.                           *)
LEMMA PostKeeps ==
    ASSUME queue \in Seq(Events), NEW e \in Events, PostEvent(e)
    PROVE  /\ \A i \in DOMAIN queue : i \in DOMAIN queue' /\ queue'[i] = queue[i]
           /\ lost => lost'
           /\ (\E i \in DOMAIN queue' : queue'[i] = e) \/ lost'
<1>1. CASE HasRoom
  <2>1. queue' = Append(queue, e) /\ (lost => lost')
    BY <1>1 DEF PostEvent
  <2>2. Len(queue) + 1 \in DOMAIN queue' /\ queue'[Len(queue) + 1] = e
    BY <2>1
  <2>3. \A i \in DOMAIN queue : i \in DOMAIN queue' /\ queue'[i] = queue[i]
    BY <2>1
  <2> QED BY <2>1, <2>2, <2>3
<1>2. CASE ~HasRoom
  BY <1>2 DEF PostEvent
<1> QED BY <1>1, <1>2

(* And all but the first when one is taken.                                *)
LEMMA TakeKeeps ==
    ASSUME queue \in Seq(Events), NEW e, Take(e),
           \E i \in DOMAIN queue : queue[i] = "function"
    PROVE  e = "function" \/ \E i \in DOMAIN queue' : queue'[i] = "function"
<1>1. PICK i \in DOMAIN queue : queue[i] = "function"
  OBVIOUS
<1>2. queue # <<>> /\ queue[1] = e /\ queue' = Tail(queue)
  BY DEF Take
<1>3. CASE i = 1
  BY <1>1, <1>2, <1>3
<1>4. CASE i # 1
  <2>1. i - 1 \in DOMAIN queue' /\ queue'[i - 1] = queue[i]
    BY <1>2, <1>4
  <2> QED BY <1>1, <2>1
<1> QED BY <1>3, <1>4

(* The timer is started when the window opens, and posts its event; the    *)
(* handler of the event closes the window that it finds.                   *)
LEMMA TimedStep == TypeOK /\ TimedInv /\ [Next]_vars => TimedInv'
<1> SUFFICES ASSUME TypeOK, TimedInv, [Next]_vars PROVE TimedInv'
  OBVIOUS
<1>1. CASE Press \/ Release \/ Bounce
  <2>1. UNCHANGED <<functionTimer, queue, mFunction, mFunctionTimerActive, lost>>
    BY <1>1 DEF Press, Release, Bounce, function
  <2> QED BY <2>1 DEF TimedInv, WindowIsTimed
<1>2. CASE DebounceExpires \/ OtherEvent
  <2>1. UNCHANGED <<functionTimer, mFunction, mFunctionTimerActive>>
    BY <1>2 DEF DebounceExpires, OtherEvent, function
  <2>2. PICK e \in Events : PostEvent(e)
    BY <1>2 DEF DebounceExpires, OtherEvent, Events
  <2>3. /\ \A i \in DOMAIN queue : i \in DOMAIN queue' /\ queue'[i] = queue[i]
        /\ lost => lost'
    BY <2>2, PostKeeps DEF TypeOK
  <2> QED BY <2>1, <2>3 DEF TimedInv, WindowIsTimed
<1>3. CASE FunctionTimerExpires
  <2>1. UNCHANGED <<mFunction, mFunctionTimerActive>> /\ PostEvent("function") /\ "function" \in Events
    BY <1>3 DEF FunctionTimerExpires, Events
  <2>2. (\E i \in DOMAIN queue' : queue'[i] = "function") \/ lost'
    BY <2>1, PostKeeps DEF TypeOK
  <2> QED BY <2>1, <2>2 DEF TimedInv, WindowIsTimed
<1>4. CASE OpenWindow
  <2>1. functionTimer' # Off /\ mFunctionTimerActive'
    BY <1>4, ConstantsAssumption DEF OpenWindow, Off
  <2> QED BY <2>1 DEF TimedInv, WindowIsTimed
<1>5. CASE CancelWindow \/ TriggerReset
  BY <1>5 DEF CancelWindow, TriggerReset, FunctionAfterReset, TimedInv, WindowIsTimed
<1>6. CASE IgnoreLongPress \/ OtherHandler \/ IgnoreExpiry
  <2>1. UNCHANGED <<functionTimer, mFunction, mFunctionTimerActive, lost>>
    BY <1>6 DEF IgnoreLongPress, OtherHandler, IgnoreExpiry, function
  <2>2. PICK e : Take(e) /\ (e = "function" => ~(mFunctionTimerActive /\ mFunction = "FactoryReset"))
    BY <1>6 DEF IgnoreLongPress, OtherHandler, IgnoreExpiry
  <2>3. mFunction = "FactoryReset" => e # "function"
    BY <2>2 DEF TimedInv
  <2>4. mFunction = "FactoryReset" /\ (\E i \in DOMAIN queue : queue[i] = "function") =>
            \E i \in DOMAIN queue' : queue'[i] = "function"
    BY <2>2, <2>3, TakeKeeps DEF TypeOK
  <2> QED BY <2>1, <2>4 DEF TimedInv, WindowIsTimed
<1>7. CASE Tick
  <2>1. UNCHANGED <<queue, mFunction, mFunctionTimerActive, lost>>
    BY <1>7 DEF Tick
  <2>2. functionTimer # Off => functionTimer' # Off
    BY <1>7 DEF Tick, Countdown, TypeOK, Off
  <2> QED BY <2>1, <2>2 DEF TimedInv, WindowIsTimed
<1>8. CASE UNCHANGED vars
  BY <1>8 DEF vars, TimedInv, WindowIsTimed
<1> QED BY <1>1, <1>2, <1>3, <1>4, <1>5, <1>6, <1>7, <1>8 DEF Next, TimerStep, AppStep

(* An open window never loses its timer but to its expiry, nor its expiry  *)
(* but to the reset, unless PostEvent dropped an event; for any delays and *)
(* however late presses and expiries are handled (FunctionHandler,         *)
(* FunctionTimerEventHandler).  That it then ends is liveness.             *)
THEOREM WindowKeepsItsTimer == Spec => []WindowIsTimed
<1>1. Init => TimedInv
  BY DEF Init, TimedInv, WindowIsTimed
<1>2. TimedInv => WindowIsTimed
  BY DEF TimedInv
<1> QED BY TypeCorrect, TimedStep, <1>1, <1>2, PTL DEF Spec

-----------------------------------------------------------------------------
(* While the button is down and the debounce timer runs, the time it has   *)
(* run is time the button has been held.                                   *)
HeldInv == down /\ debounceTimer # Off => held + debounceTimer >= Debounce

(* Every step keeps that: an edge restarts the timer.                      *)
LEMMA HeldStep == TypeOK /\ HeldInv /\ [Next]_vars => HeldInv'
<1> SUFFICES ASSUME TypeOK, HeldInv, [Next]_vars PROVE HeldInv'
  OBVIOUS
<1> USE ConstantsAssumption DEF TypeOK, HeldInv, Off
<1>1. CASE Press \/ Bounce
  <2>1. debounceTimer' = Debounce /\ held' \in Nat
    BY <1>1 DEF Press, Bounce, EdgeStarts
  <2>2. \A h \in Nat : h + Debounce >= Debounce
    OBVIOUS
  <2>3. held' + debounceTimer' >= Debounce
    BY <2>1, <2>2
  <2> QED BY <2>3
<1>2. CASE Release
  BY <1>2 DEF Release
<1>3. CASE DebounceExpires
  BY <1>3 DEF DebounceExpires
<1>4. CASE FunctionTimerExpires \/ OtherEvent \/ AppStep
  BY <1>4 DEF FunctionTimerExpires, OtherEvent, AppStep, OpenWindow, CancelWindow, IgnoreLongPress,
              OtherHandler, TriggerReset, IgnoreExpiry, button
<1>5. CASE Tick
  <2> SUFFICES ASSUME down', debounceTimer' # Off PROVE held' + debounceTimer' >= Debounce
    OBVIOUS
  <2>1. down /\ debounceTimer # Off /\ debounceTimer' = debounceTimer - 1
    BY <1>5 DEF Tick, Countdown
  <2>2. held' = held + 1 \/ held' = HoldBound
    BY <1>5, <2>1 DEF Tick, UpTo
  <2>3. debounceTimer' \in Nat
    BY <1>5, <2>1 DEF Tick
  <2> QED BY <2>1, <2>2, <2>3
<1>6. CASE UNCHANGED vars
  BY <1>6 DEF vars
<1> QED BY <1>1, <1>2, <1>3, <1>4, <1>5, <1>6 DEF Next, TimerStep

(* A long press is only ever posted for a button that was held through the *)
(* whole debounce time (ButtonHandler.cpp): short presses in a row and     *)
(* bouncing contacts do not add up to one.                                 *)
THEOREM LongPressWasHeld == Spec => LongPressIsHeld
<1>1. Init => HeldInv
  BY DEF Init, HeldInv
<1>2. TypeOK /\ HeldInv /\ [Next]_vars => [DebounceExpires /\ down => held >= Debounce]_vars
  BY DEF HeldInv, TypeOK, DebounceExpires, Off
<1> QED BY TypeCorrect, HeldStep, <1>1, <1>2, PTL DEF Spec, LongPressIsHeld

-----------------------------------------------------------------------------
(***************************************************************************)
(* The window, when the application task empties its queue within a tick.  *)
(***************************************************************************)

PressEvents == {"long", "short"}

(* The timer measures the window, and runs for nothing else.               *)
TimerInv ==
    functionTimer # Off => /\ mFunctionTimerActive /\ mFunction = "FactoryReset"
                           /\ functionTimer + open = Window

(* Within a tick one press at most is queued, since the debounce timer     *)
(* takes longer to expire again, and one expiry at most.                   *)
QueueInv ==
    /\ \A i, j \in DOMAIN queue : queue[i] \in PressEvents /\ queue[j] \in PressEvents => i = j
    /\ \A i, j \in DOMAIN queue : queue[i] = "function" /\ queue[j] = "function" => i = j
    /\ \A i \in DOMAIN queue : queue[i] \in PressEvents => debounceTimer \in {Off, Debounce}

(* An expiry is queued when the whole window has passed.  If a long press  *)
(* overtakes it and cancels, none can follow to open another window before *)
(* it is handled.                                                          *)
ExpiryInv ==
    \A i \in DOMAIN queue : queue[i] = "function" =>
        /\ functionTimer = Off /\ open = Window
        /\ MayOpen => /\ debounceTimer \in {Off, Debounce}
                      /\ \A j \in DOMAIN queue : queue[j] # "long"

WindowInv == TimerInv /\ QueueInv /\ ExpiryInv

(* What a queue holds after an event was posted: what it held, and the     *)
(* event perhaps.                                                          *)
LEMMA Posted ==
    ASSUME queue \in Seq(Events), NEW e \in Events, PostEvent(e)
    PROVE  \A i \in DOMAIN queue' : \/ i \in DOMAIN queue /\ queue'[i] = queue[i]
                                    \/ i \notin DOMAIN queue /\ i = Len(queue) + 1 /\ queue'[i] = e
  BY DEF PostEvent

(* What it holds after one was taken: the others, each a place nearer.     *)
LEMMA Taken ==
    ASSUME queue \in Seq(Events), NEW e, Take(e)
    PROVE  /\ 1 \in DOMAIN queue /\ queue[1] = e
           /\ \A i \in DOMAIN queue' : i + 1 \in DOMAIN queue /\ queue'[i] = queue[i + 1]
  BY DEF Take

(* The edges and the release leave the queue and the function alone.       *)
LEMMA EdgesKeepWindow ==
    ASSUME TypeOK, WindowInv, Press \/ Release \/ Bounce
    PROVE  WindowInv'
<1>1. UNCHANGED <<function, queue>> /\ debounceTimer' \in {debounceTimer, Debounce}
  BY DEF Press, Release, Bounce, EdgeStarts
<1>2. UNCHANGED <<functionTimer, mFunction, mFunctionTimerActive, open, queue>>
  BY <1>1 DEF function
<1>3. TimerInv'
  BY <1>2 DEF WindowInv, TimerInv
<1>4. QueueInv'
  BY <1>1, <1>2 DEF WindowInv, QueueInv
<1>5. ExpiryInv'
  BY <1>1, <1>2 DEF WindowInv, ExpiryInv, MayOpen
<1> QED BY <1>3, <1>4, <1>5 DEF WindowInv

(* A press is posted when none is queued, and not after a cancellation in  *)
(* the same tick.                                                          *)
LEMMA DebounceKeepsWindow ==
    ASSUME TypeOK, WindowInv, DebounceExpires
    PROVE  WindowInv'
<1> DEFINE e == IF down THEN "long" ELSE "short"
<1>1. /\ e \in PressEvents /\ e \in Events /\ e # "function" /\ PostEvent(e)
      /\ debounceTimer = 0 /\ debounceTimer' = Off
      /\ UNCHANGED <<functionTimer, mFunction, mFunctionTimerActive, open>>
  BY DEF DebounceExpires, PressEvents, Events, function
<1>2. queue \in Seq(Events) /\ debounceTimer \notin {Off, Debounce}
  BY <1>1, ConstantsAssumption DEF TypeOK, Off
<1> HIDE DEF e
<1>3. \A i \in DOMAIN queue' : \/ i \in DOMAIN queue /\ queue'[i] = queue[i]
                               \/ i \notin DOMAIN queue /\ i = Len(queue) + 1 /\ queue'[i] = e
  BY <1>1, <1>2, Posted
<1>4. TimerInv'
  BY <1>1 DEF WindowInv, TimerInv
<1>5. \A i \in DOMAIN queue : queue[i] \notin PressEvents /\ (queue[i] = "function" => ~MayOpen)
  BY <1>2 DEF WindowInv, QueueInv, ExpiryInv
<1>6. QueueInv'
  BY <1>1, <1>3, <1>5 DEF WindowInv, QueueInv
<1>7. ExpiryInv'
  BY <1>1, <1>3, <1>5 DEF WindowInv, ExpiryInv, MayOpen
<1> QED BY <1>4, <1>6, <1>7 DEF WindowInv

(* An expiry is posted at the end of the window, while the reset is still  *)
(* selected.                                                               *)
LEMMA ExpiryKeepsWindow ==
    ASSUME TypeOK, WindowInv, FunctionTimerExpires
    PROVE  WindowInv'
<1>1. /\ "function" \in Events /\ "function" \notin PressEvents
      /\ PostEvent("function") /\ functionTimer = 0 /\ functionTimer' = Off
      /\ UNCHANGED <<debounceTimer, mFunction, mFunctionTimerActive, open>>
  BY DEF FunctionTimerExpires, Events, PressEvents, button
<1>2. queue \in Seq(Events) /\ open \in Nat /\ functionTimer # Off
  BY <1>1 DEF TypeOK, Off
<1>3. \A i \in DOMAIN queue' : \/ i \in DOMAIN queue /\ queue'[i] = queue[i]
                               \/ i \notin DOMAIN queue /\ i = Len(queue) + 1 /\ queue'[i] = "function"
  BY <1>1, <1>2, Posted
<1>4. open = Window /\ ~MayOpen
  BY <1>1, <1>2, ConstantsAssumption DEF WindowInv, TimerInv, MayOpen
<1>5. \A i \in DOMAIN queue : queue[i] # "function"
  BY <1>2 DEF WindowInv, ExpiryInv
<1>6. TimerInv'
  BY <1>1 DEF TimerInv
<1>7. QueueInv'
  BY <1>1, <1>3, <1>5 DEF WindowInv, QueueInv
<1>8. ExpiryInv'
  BY <1>1, <1>3, <1>4, <1>5 DEF ExpiryInv, MayOpen
<1> QED BY <1>6, <1>7, <1>8 DEF WindowInv

(* Other events do not matter.                                             *)
LEMMA OthersKeepWindow ==
    ASSUME TypeOK, WindowInv, OtherEvent
    PROVE  WindowInv'
<1>1. /\ "other" \in Events /\ "other" \notin PressEvents /\ "other" # "function" /\ "other" # "long"
      /\ PostEvent("other")
      /\ UNCHANGED <<debounceTimer, functionTimer, mFunction, mFunctionTimerActive, open>>
  BY DEF OtherEvent, Events, PressEvents, button, function
<1>2. \A i \in DOMAIN queue' : \/ i \in DOMAIN queue /\ queue'[i] = queue[i]
                               \/ i \notin DOMAIN queue /\ i = Len(queue) + 1 /\ queue'[i] = "other"
  BY <1>1, Posted DEF TypeOK
<1>3. TimerInv'
  BY <1>1 DEF WindowInv, TimerInv
<1>4. QueueInv'
  BY <1>1, <1>2 DEF WindowInv, QueueInv
<1>5. ExpiryInv'
  BY <1>1, <1>2 DEF WindowInv, ExpiryInv, MayOpen
<1> QED BY <1>3, <1>4, <1>5 DEF WindowInv

(* The handlers: a window is only opened when no expiry is queued, and a   *)
(* long press that cancels leaves no other behind.                         *)
LEMMA HandlersKeepWindow ==
    ASSUME TypeOK, WindowInv, AppStep
    PROVE  WindowInv'
<1>1. queue \in Seq(Events)
  BY DEF TypeOK
<1>2. PICK e : Take(e)
  BY DEF AppStep, OpenWindow, CancelWindow, IgnoreLongPress, OtherHandler, TriggerReset, IgnoreExpiry
<1>3. /\ 1 \in DOMAIN queue /\ queue[1] = e
      /\ \A i \in DOMAIN queue' : i + 1 \in DOMAIN queue /\ queue'[i] = queue[i + 1] /\ i \in Nat \ {0}
      /\ DOMAIN queue' \subseteq Nat
  BY <1>1, <1>2, Taken DEF Take
<1>4. debounceTimer' = debounceTimer
  BY DEF AppStep, OpenWindow, CancelWindow, IgnoreLongPress, OtherHandler, TriggerReset, IgnoreExpiry, button
<1>5. QueueInv'
  <2>1. ASSUME NEW i \in DOMAIN queue', NEW j \in DOMAIN queue'
        PROVE  /\ queue'[i] \in PressEvents /\ queue'[j] \in PressEvents => i = j
               /\ queue'[i] = "function" /\ queue'[j] = "function" => i = j
    <3>1. i + 1 = j + 1 => i = j
      BY <1>3
    <3> QED BY <1>3, <3>1 DEF WindowInv, QueueInv
  <2>2. ASSUME NEW i \in DOMAIN queue', queue'[i] \in PressEvents
        PROVE  debounceTimer' \in {Off, Debounce}
    BY <1>3, <1>4, <2>2 DEF WindowInv, QueueInv
  <2> QED BY <2>1, <2>2 DEF QueueInv
<1>6. CASE OpenWindow
  <2>1. e = "long" /\ MayOpen
    BY <1>1, <1>3, <1>6, Taken DEF OpenWindow
  <2>2. \A i \in DOMAIN queue : queue[i] # "function"
    BY <1>3, <2>1 DEF WindowInv, ExpiryInv
  <2>3. ExpiryInv'
    BY <1>3, <2>2 DEF ExpiryInv
  <2>4. TimerInv'
    BY <1>6, ConstantsAssumption DEF OpenWindow, TimerInv
  <2> QED BY <1>5, <2>3, <2>4 DEF WindowInv
<1>7. CASE CancelWindow
  <2>1. e = "long" /\ open' = open /\ functionTimer' = Off
    BY <1>1, <1>3, <1>7, Taken DEF CancelWindow, CancelledTimer
  <2>2. e \in PressEvents /\ "long" \in PressEvents
    BY <2>1 DEF PressEvents
  <2>3. \A i \in DOMAIN queue' : queue'[i] # "long"
    <3>1. ASSUME NEW i \in DOMAIN queue', queue'[i] = "long" PROVE FALSE
      <4>1. i + 1 = 1
        BY <1>3, <2>2, <3>1 DEF WindowInv, QueueInv
      <4> QED BY <1>3, <4>1
    <3> QED BY <3>1
  <2>4. debounceTimer' \in {Off, Debounce}
    BY <1>3, <1>4, <2>2 DEF WindowInv, QueueInv
  <2>5. ExpiryInv'
    BY <1>3, <2>1, <2>3, <2>4 DEF WindowInv, ExpiryInv
  <2>6. TimerInv'
    BY <2>1 DEF TimerInv
  <2> QED BY <1>5, <2>5, <2>6 DEF WindowInv
<1>8. CASE TriggerReset
  <2>1. e = "function"
    BY <1>1, <1>3, <1>8, Taken DEF TriggerReset
  <2>2. \A i \in DOMAIN queue' : queue'[i] # "function"
    <3>1. ASSUME NEW i \in DOMAIN queue', queue'[i] = "function" PROVE FALSE
      <4>1. i + 1 = 1
        BY <1>3, <2>1, <3>1 DEF WindowInv, QueueInv
      <4> QED BY <1>3, <4>1
    <3> QED BY <3>1
  <2>3. functionTimer' = Off
    BY <1>3, <1>8, <2>1 DEF TriggerReset, WindowInv, ExpiryInv
  <2>4. ExpiryInv' /\ TimerInv'
    BY <2>2, <2>3 DEF ExpiryInv, TimerInv
  <2> QED BY <1>5, <2>4 DEF WindowInv
<1>9. CASE IgnoreLongPress \/ OtherHandler \/ IgnoreExpiry
  <2>1. UNCHANGED <<functionTimer, mFunction, mFunctionTimerActive, open>>
    BY <1>9 DEF IgnoreLongPress, OtherHandler, IgnoreExpiry, function
  <2>2. TimerInv'
    BY <2>1 DEF WindowInv, TimerInv
  <2>3. ExpiryInv'
    BY <1>3, <1>4, <2>1 DEF WindowInv, ExpiryInv, MayOpen
  <2> QED BY <1>5, <2>2, <2>3 DEF WindowInv
<1> QED BY <1>6, <1>7, <1>8, <1>9 DEF AppStep

(* Time only passes when the queue is empty.                               *)
LEMMA TickKeepsWindow ==
    ASSUME Prompt, TypeOK, WindowInv, Tick
    PROVE  WindowInv'
<1>1. queue' = <<>>
  BY DEF Tick
<1>2. QueueInv' /\ ExpiryInv'
  BY <1>1 DEF QueueInv, ExpiryInv
<1>3. TimerInv'
  BY ConstantsAssumption DEF Tick, Countdown, UpTo, TypeOK, WindowInv, TimerInv, Off
<1> QED BY <1>2, <1>3 DEF WindowInv

(* Every step keeps the invariant of the window.                           *)
LEMMA WindowStep ==
    ASSUME Prompt, TypeOK, WindowInv, [Next]_vars
    PROVE  WindowInv'
<1>1. CASE UNCHANGED vars
  BY <1>1 DEF vars, WindowInv, TimerInv, QueueInv, ExpiryInv, MayOpen
<1> QED BY <1>1, EdgesKeepWindow, DebounceKeepsWindow, ExpiryKeepsWindow, OthersKeepWindow,
           HandlersKeepWindow, TickKeepsWindow DEF Next, TimerStep

(* It holds at first.                                                      *)
LEMMA WindowStart == Init => WindowInv
  BY DEF Init, WindowInv, TimerInv, QueueInv, ExpiryInv

(* It leaves the reset to an expiry that comes at the end of the window.   *)
LEMMA ResetNeedsWindow ==
    ASSUME TypeOK, WindowInv, TriggerReset
    PROVE  open = Window
<1>1. 1 \in DOMAIN queue /\ queue[1] = "function"
  BY Taken DEF TriggerReset, TypeOK
<1> QED BY <1>1 DEF WindowInv, ExpiryInv

(* If the application task empties its queue within a tick, the user has   *)
(* the whole window to cancel, for any debounce time, window and queue     *)
(* size: no expiry that was overtaken by presses triggers the reset of a   *)
(* window opened later.  (Without Prompt it may: run reset_stale_expiry.)  *)
THEOREM WholeWindowToCancel ==
    ASSUME Prompt
    PROVE  Spec => ResetAfterWholeWindow
<1>1. TypeOK /\ WindowInv /\ [Next]_vars => WindowInv'
  BY WindowStep
<1>2. TypeOK /\ WindowInv /\ [Next]_vars => [TriggerReset => open = Window]_vars
  BY ResetNeedsWindow
<1> QED BY TypeCorrect, WindowStart, <1>1, <1>2, PTL DEF Spec, ResetAfterWholeWindow
=============================================================================
