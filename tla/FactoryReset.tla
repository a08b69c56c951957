---------------------------- MODULE FactoryReset ----------------------------
(***************************************************************************)
(* The user button and the factory reset it asks for.                      *)
(*                                                                         *)
(* A falling edge on the button pin interrupts and (re)starts a one-shot   *)
(* debounce timer (ButtonHandler::FuncButtonCallback).  When it expires    *)
(* the timer thread reads the pin and posts a long press if the pin is     *)
(* still low and a short press otherwise (ButtonHandler::TimerCallback).   *)
(* In the application task a long press opens the cancel window: it starts *)
(* sFunctionTimer and selects the factory reset.  A long press within the  *)
(* window cancels; the expiry of the timer, through an event, triggers the *)
(* reset (AppTask::FunctionHandler and FunctionTimerEventHandler).         *)
(*                                                                         *)
(* Time passes in ticks, as many to the debounce time of 500 ms as         *)
(* Debounce says.  Only the application task touches mFunction,            *)
(* mFunctionTimerActive and sFunctionTimer, so each of its handlers is one *)
(* step.                                                                   *)
(***************************************************************************)
EXTENDS Integers, Sequences

CONSTANTS
    QueueSize,  \* APP_EVENT_QUEUE_SIZE
    Debounce,   \* APP_BUTTON_MIN_ASSERT_TIME_MS, in ticks
    Window,     \* FACTORY_RESET_CANCEL_WINDOW_TIMEOUT, in ticks
    HoldBound,  \* bound on how long a press is measured, in ticks
    Prompt      \* the application task empties its queue within a tick

(* The delays are positive and presses are measured past the debounce time. *)
ASSUME ConstantsAssumption ==
    /\ QueueSize \in Nat \ {0}
    /\ Debounce \in Nat \ {0}
    /\ Window \in Nat \ {0}
    /\ HoldBound \in Nat /\ HoldBound >= Debounce
    /\ Prompt \in BOOLEAN

VARIABLES
    down,           \* the pin is low: the button is held
    held,           \* history: ticks since the button went down
    debounceTimer,  \* buttonTimers[0]: ticks left, or Off
    functionTimer,  \* sFunctionTimer: ticks left, or Off
    queue,          \* sAppEventQueue
    mFunction,      \* AppTask::mFunction
    mFunctionTimerActive,
    resets,         \* history: calls of ScheduleFactoryReset, at most 2 counted
    open,           \* history: ticks since the cancel window was last opened
    lost,           \* history: PostEvent dropped an event
    otherDue        \* another part may still post an event in this tick

vars == <<down, held, debounceTimer, functionTimer, queue, mFunction,
          mFunctionTimerActive, resets, open, lost, otherDue>>

button == <<down, held, debounceTimer>>
function == <<functionTimer, mFunction, mFunctionTimerActive, resets, open>>

Off == -1   \* a timer that is not running

(***************************************************************************)
(* Events: the presses and the expiry of sFunctionTimer; "other" is posted *)
(* by the rest of the application (the lock's timer) and ignored here.     *)
(***************************************************************************)
Events == {"long", "short", "function", "other"}

Functions == {"None", "FactoryReset"}

Init ==
    /\ down = FALSE /\ held = 0
    /\ debounceTimer = Off /\ functionTimer = Off
    /\ queue = <<>>
    /\ mFunction = "None" /\ mFunctionTimerActive = FALSE
    /\ resets = 0 /\ open = 0
    /\ lost = FALSE /\ otherDue = TRUE

(* A definition introduced as a slip is not part of the model: it is the   *)
(* mistake a change of the code could make in the definition that follows, *)
(* kept to show which property would find it.                              *)

(* Slip: one more event than the queue holds. *)
HasRoomOffByOne == Len(queue) <= QueueSize

(* PostEvent never waits: a full queue drops the event. *)
HasRoom == Len(queue) < QueueSize
PostEvent(e) == /\ queue' = IF HasRoom THEN Append(queue, e) ELSE queue
                /\ lost' = (lost \/ ~HasRoom)

UpTo(n, bound) == IF n < bound THEN n ELSE bound

-----------------------------------------------------------------------------
(***************************************************************************)
(* The button, its interrupt and its debounce timer.                       *)
(***************************************************************************)

(* Slip: the interrupt leaves a debounce timer that runs alone. *)
EdgeStartsOnce == IF debounceTimer = Off THEN Debounce ELSE debounceTimer

(* What a falling edge makes of the debounce timer. *)
EdgeStarts == Debounce

Press ==
    /\ ~down
    /\ down' = TRUE /\ held' = 0
    /\ debounceTimer' = EdgeStarts
    /\ UNCHANGED <<function, queue, lost, otherDue>>

Release ==
    /\ down
    /\ down' = FALSE /\ held' = 0
    /\ UNCHANGED <<debounceTimer, function, queue, lost, otherDue>>

(* The contacts bounce: an edge, and the level is back at once. *)
Bounce ==
    /\ debounceTimer' = EdgeStarts
    /\ UNCHANGED <<down, held, function, queue, lost, otherDue>>

DebounceExpires ==
    /\ debounceTimer = 0
    /\ debounceTimer' = Off
    /\ PostEvent(IF down THEN "long" ELSE "short")
    /\ UNCHANGED <<down, held, function, otherDue>>

-----------------------------------------------------------------------------
(***************************************************************************)
(* sFunctionTimer and the other producers of the queue.                    *)
(***************************************************************************)
FunctionTimerExpires ==
    /\ functionTimer = 0
    /\ functionTimer' = Off
    /\ PostEvent("function")
    /\ UNCHANGED <<button, mFunction, mFunctionTimerActive, resets, open, otherDue>>

OtherEvent ==
    /\ otherDue
    /\ otherDue' = FALSE
    /\ PostEvent("other")
    /\ UNCHANGED <<button, function>>

-----------------------------------------------------------------------------
(***************************************************************************)
(* The application task.                                                   *)
(***************************************************************************)
Take(e) == /\ queue # <<>>
           /\ Head(queue) = e
           /\ queue' = Tail(queue)

(* Slip: only the selected function is tested, not the timer. *)
MayOpenAgain == mFunction = "None"

(* The test of FunctionHandler that opens the cancel window. *)
MayOpen == ~mFunctionTimerActive /\ mFunction = "None"

(* A long press: StartTimer, which stops a timer that runs and starts it. *)
OpenWindow ==
    /\ Take("long")
    /\ MayOpen
    /\ functionTimer' = Window
    /\ mFunctionTimerActive' = TRUE
    /\ mFunction' = "FactoryReset"
    /\ open' = 0
    /\ UNCHANGED <<button, resets, lost, otherDue>>

(* Slip: the timer is not stopped. *)
CancelledTimerRuns == functionTimer

(* CancelTimer: what cancelling makes of sFunctionTimer. *)
CancelledTimer == Off

(* A long press while the window is open cancels the reset. *)
CancelWindow ==
    /\ Take("long")
    /\ ~MayOpen
    /\ mFunctionTimerActive /\ mFunction = "FactoryReset"
    /\ functionTimer' = CancelledTimer
    /\ mFunctionTimerActive' = FALSE
    /\ mFunction' = "None"
    /\ UNCHANGED <<button, resets, open, lost, otherDue>>

(* A long press that finds neither: after the reset was triggered the      *)
(* timer stays marked active, so that no further press acts.               *)
IgnoreLongPress ==
    /\ Take("long")
    /\ ~MayOpen
    /\ ~(mFunctionTimerActive /\ mFunction = "FactoryReset")
    /\ UNCHANGED <<button, function, lost, otherDue>>

(* Short presses and the events of others leave the factory reset alone.   *)
OtherHandler ==
    /\ Take("short") \/ Take("other")
    /\ UNCHANGED <<button, function, lost, otherDue>>

(* Slip: the factory reset stays selected. *)
FunctionNotCleared == mFunction

(* What triggering the reset makes of mFunction. *)
FunctionAfterReset == "None"

(* FunctionTimerEventHandler: mFunctionTimerActive is not cleared.         *)
TriggerReset ==
    /\ Take("function")
    /\ mFunctionTimerActive /\ mFunction = "FactoryReset"
    /\ mFunction' = FunctionAfterReset
    /\ resets' = UpTo(resets + 1, 2)
    /\ UNCHANGED <<button, functionTimer, mFunctionTimerActive, open, lost, otherDue>>

IgnoreExpiry ==
    /\ Take("function")
    /\ ~(mFunctionTimerActive /\ mFunction = "FactoryReset")
    /\ UNCHANGED <<button, function, lost, otherDue>>

AppStep == OpenWindow \/ CancelWindow \/ IgnoreLongPress \/ OtherHandler \/ TriggerReset \/ IgnoreExpiry

-----------------------------------------------------------------------------
Countdown(timer) == IF timer = Off THEN Off ELSE timer - 1

(* Time passes.  Expired timers are served first, and so is the queue when *)
(* the application task is Prompt.                                         *)
Tick ==
    /\ debounceTimer # 0 /\ functionTimer # 0
    /\ Prompt => queue = <<>>
    /\ debounceTimer' = Countdown(debounceTimer)
    /\ functionTimer' = Countdown(functionTimer)
    /\ held' = IF down THEN UpTo(held + 1, HoldBound) ELSE held
    /\ open' = UpTo(open + 1, Window)
    /\ otherDue' = TRUE
    /\ UNCHANGED <<down, queue, mFunction, mFunctionTimerActive, resets, lost>>

TimerStep == DebounceExpires \/ FunctionTimerExpires

Next == Press \/ Release \/ Bounce \/ TimerStep \/ OtherEvent \/ AppStep \/ Tick

Spec == Init /\ [][Next]_vars

(* Time passes, expired timers are served and the application task runs.   *)
FairSpec == Spec /\ WF_vars(Tick) /\ WF_vars(TimerStep) /\ WF_vars(AppStep)

-----------------------------------------------------------------------------
(***************************************************************************)
(* Properties.                                                             *)
(***************************************************************************)

(* Every variable has its type; the queue keeps within its capacity.       *)
TypeOK ==
    /\ down \in BOOLEAN /\ held \in 0..HoldBound
    /\ debounceTimer \in {Off} \cup 0..Debounce
    /\ functionTimer \in {Off} \cup 0..Window
    /\ queue \in Seq(Events) /\ Len(queue) <= QueueSize
    /\ mFunction \in Functions /\ mFunctionTimerActive \in BOOLEAN
    /\ resets \in 0..2 /\ open \in 0..Window
    /\ lost \in BOOLEAN /\ otherDue \in BOOLEAN

(* Two quick presses, or a press whose contacts bounce, are not taken for  *)
(* one long press: a long press is posted only for a button that has been  *)
(* held for the whole debounce time.                                       *)
LongPressIsHeld == [][DebounceExpires /\ down => held >= Debounce]_vars

(* ScheduleFactoryReset is called at most once, however the presses and    *)
(* expiries that are still queued are ordered around it.                   *)
ResetAtMostOnce == resets <= 1

(* The user has the whole window to cancel: the reset is only triggered    *)
(* Window after the long press that opened it was handled.  ("Start timer  *)
(* for FACTORY_RESET_CANCEL_WINDOW_TIMEOUT to allow user to cancel")       *)
ResetAfterWholeWindow == [][TriggerReset => open = Window]_vars

(* A window that is open is always going to be decided: its timer runs, or *)
(* the expiry is on its way to the application task, or PostEvent dropped  *)
(* an event.  Nothing else closes it, and FunctionHandler opens no other.  *)
WindowIsTimed ==
    mFunction = "FactoryReset" =>
        \/ functionTimer # Off
        \/ \E i \in DOMAIN queue : queue[i] = "function"
        \/ lost

(* A window that is open is decided: by the reset, by a cancellation, or   *)
(* not at all only if PostEvent has dropped an event.                      *)
WindowIsDecided == mFunction = "FactoryReset" ~> mFunction = "None" \/ lost
=============================================================================
