----------------------------- MODULE LockManager -----------------------------
(***************************************************************************)
(* The lock of the application: LockManager's state machine, the one-shot  *)
(* actuator timer, the application event queue and the LockState attribute *)
(* of the Matter Door Lock cluster, as the threads of the firmware drive   *)
(* them.                                                                   *)
(*                                                                         *)
(*   "chip"    the Matter event loop: it runs the remote Lock and Unlock   *)
(*             commands and the UpdateCluster calls scheduled on it;       *)
(*   "app"     AppTask::AppTaskMain: it takes events off sAppEventQueue    *)
(*             and runs their handlers;                                    *)
(*   "display" the LVGL task of the ENABLE_UI build: start_lock_action().  *)
(*                                                                         *)
(* The RTOS timer thread has no state: expiry of sLockTimer and the button *)
(* debounce callback are actions of their own, which post an event.        *)
(*                                                                         *)
(* No mutex protects any of this state, so each access to a shared         *)
(* variable is a step: InitiateAction is four steps in whatever thread     *)
(* calls it, and the handlers of the application task and of the Matter    *)
(* event loop are split where they read or write what others write.        *)
(***************************************************************************)
EXTENDS Naturals, Sequences

CONSTANTS
    QueueSize,      \* APP_EVENT_QUEUE_SIZE
    WorkQueueSize,  \* how many UpdateCluster calls the Matter event loop holds
    LocalThreads,   \* the threads other than "chip" that initiate actions:
                    \* {} the default build, {"display"} ENABLE_UI,
                    \* {"app"} ENABLE_BUTTON_LOCK_UNLOCK
    RemoteTargets,  \* the remote commands that arrive, as target positions
    Prompt          \* no thread is held inside a handler for the whole
                    \* ACTUATOR_MOVEMENT_PERIOS_MS (2 s) of sLockTimer

Positions == {"Locked", "Unlocked"}

(* The queues hold at least one entry and the threads are those above. *)
ASSUME ConstantsAssumption ==
    /\ QueueSize \in Nat \ {0}
    /\ WorkQueueSize \in Nat \ {0}
    /\ LocalThreads \subseteq {"app", "display"}
    /\ RemoteTargets \subseteq Positions
    /\ Prompt \in BOOLEAN

VARIABLES
    mState,     \* LockManager::mState
    lockState,  \* the LockState attribute of the cluster
    armed,      \* sLockTimer is running
    queue,      \* sAppEventQueue, by the handler of each event
    mSync,      \* AppTask::mSyncClusterToButtonAction
    work,       \* UpdateCluster calls scheduled and not yet run
    pc,         \* where each thread is
    target,     \* per thread: the position its handler is working towards
    lost,       \* history: PostEvent dropped an event of sLockTimer
    ignored     \* history: the last remote command found the opposite action
                \* in progress, so that InitiateAction refused it

vars == <<mState, lockState, armed, queue, mSync, work, pc, target, lost, ignored>>

Threads == {"chip", "app", "display"}

(***************************************************************************)
(* LockManager::State_t and Action_t.  An action is named by the position  *)
(* it leads to: LOCK_ACTION is "Locked", UNLOCK_ACTION is "Unlocked".      *)
(***************************************************************************)
Other(p)     == IF p = "Locked" THEN "Unlocked" ELSE "Locked"
Initiated(p) == IF p = "Locked" THEN "LockInitiated" ELSE "UnlockInitiated"
Completed(p) == IF p = "Locked" THEN "LockCompleted" ELSE "UnlockCompleted"

States == {"LockInitiated", "LockCompleted", "UnlockInitiated", "UnlockCompleted"}

IsActionInProgress == mState \in {"LockInitiated", "UnlockInitiated"}

(* NextState(): TRUE only when the door is fully unlocked. *)
NextState == mState = "UnlockCompleted"

(***************************************************************************)
(* A definition introduced as a slip is not part of the model: it is the   *)
(* mistake a change of the code could make in the definition that follows, *)
(* kept to show which property would find it.                              *)
(***************************************************************************)

(***************************************************************************)
(* Events: "timer" runs ActuatorMovementTimerEventHandler, "short" runs    *)
(* FunctionHandler for a button released within the debounce time, "other" *)
(* stands for every event whose handler leaves the lock alone.             *)
(***************************************************************************)
Events == {"timer", "short", "other"}

PCs == {"idle", "check", "start", "set", "callback",       \* InitiateAction
        "write",                                           \* UpdateCluster
        "press", "timer", "complete", "report", "clear"}   \* application task

Init ==
    /\ lockState \in Positions
    /\ mState = Completed(lockState)
    /\ armed = FALSE
    /\ queue = <<>>
    /\ mSync = FALSE
    /\ work = 0
    /\ pc = [t \in Threads |-> "idle"]
    /\ target = [t \in Threads |-> lockState]
    /\ lost = FALSE
    /\ ignored = FALSE

Goto(t, label) == pc' = [pc EXCEPT ![t] = label]

(* Slip: one more event than the queue holds. *)
HasRoomOffByOne == Len(queue) <= QueueSize

(* PostEvent never waits: a full queue drops the event. *)
HasRoom == Len(queue) < QueueSize
PostEvent(e) == queue' = IF HasRoom THEN Append(queue, e) ELSE queue

-----------------------------------------------------------------------------
(***************************************************************************)
(* The callers of InitiateAction.                                          *)
(***************************************************************************)

(* Slip: the attribute is left for the completion of the action to update. *)
RemoteCommandNoWrite(p) ==
    /\ pc["chip"] = "idle"
    /\ p \in RemoteTargets
    /\ target' = [target EXCEPT !["chip"] = p]
    /\ Goto("chip", "check")
    /\ UNCHANGED <<mState, lockState, armed, queue, mSync, work, lost, ignored>>

(* A remote command that setLockState accepts: the attribute takes the     *)
(* target at once, and InitiateAction follows in the same thread.          *)
RemoteCommand(p) ==
    /\ pc["chip"] = "idle"
    /\ p \in RemoteTargets
    /\ lockState' = p
    /\ target' = [target EXCEPT !["chip"] = p]
    /\ Goto("chip", "check")
    /\ UNCHANGED <<mState, armed, queue, mSync, work, lost, ignored>>

(* A tap on the lock screen.  The direction is fixed when the screen is    *)
(* drawn, so the model allows either.                                      *)
StartLockAction(p) ==
    /\ "display" \in LocalThreads
    /\ pc["display"] = "idle"
    /\ target' = [target EXCEPT !["display"] = p]
    /\ Goto("display", "check")
    /\ UNCHANGED <<mState, lockState, armed, queue, mSync, work, lost, ignored>>

(* FunctionHandler, short press: the action is chosen by NextState().      *)
ShortPress ==
    /\ pc["app"] = "press"
    /\ target' = [target EXCEPT !["app"] = IF NextState THEN "Locked" ELSE "Unlocked"]
    /\ Goto("app", "check")
    /\ UNCHANGED <<mState, lockState, armed, queue, mSync, work, lost, ignored>>

-----------------------------------------------------------------------------
(***************************************************************************)
(* InitiateAction(aActor, aAction), in thread t.                           *)
(***************************************************************************)

(* Slip: an action may start while the opposite one is in progress. *)
MayInitiateMidway(t) == mState \in {Completed(Other(target[t])), Initiated(Other(target[t]))}

(* "Initiate Lock/Unlock Action only when the previous one is complete."   *)
MayInitiate(t) == mState = Completed(Other(target[t]))

CheckState(t) ==
    /\ pc[t] = "check"
    /\ IF MayInitiate(t)
         THEN Goto(t, "start")
         ELSE Goto(t, "idle")
    /\ ignored' = IF t = "chip" THEN mState = Initiated(Other(target[t])) ELSE ignored
    /\ UNCHANGED <<mState, lockState, armed, queue, mSync, work, target, lost>>

(* StartTimer: a timer that is running is stopped and started again.       *)
StartTimer(t) ==
    /\ pc[t] = "start"
    /\ armed' = TRUE
    /\ Goto(t, "set")
    /\ UNCHANGED <<mState, lockState, queue, mSync, work, target, lost, ignored>>

UpdateState(t) ==
    /\ pc[t] = "set"
    /\ mState' = Initiated(target[t])
    /\ Goto(t, "callback")
    /\ UNCHANGED <<lockState, armed, queue, mSync, work, target, lost, ignored>>

(* Slip: the short press passes the actor of a remote command. *)
ButtonActorNotApp(t) == t = "display"

(* Every caller but the remote command passes kEventType_Button.           *)
ButtonActor(t) == t # "chip"

(* AppTask::ActionInitiated.                                               *)
ActionInitiated(t) ==
    /\ pc[t] = "callback"
    /\ mSync' = (ButtonActor(t) \/ mSync)
    /\ Goto(t, "idle")
    /\ UNCHANGED <<mState, lockState, armed, queue, work, target, lost, ignored>>

InitiateAction(t) == CheckState(t) \/ StartTimer(t) \/ UpdateState(t) \/ ActionInitiated(t)

-----------------------------------------------------------------------------
(***************************************************************************)
(* The timer thread.                                                       *)
(***************************************************************************)

(* A handler of thread t has changed shared state, or decided to, and has   *)
(* more to do.  (A local caller that still has to check mState may as well  *)
(* not have called yet.)                                                    *)
MidHandler(t) ==
    \/ pc[t] \in {"start", "set", "callback", "write", "report", "clear"}
    \/ t = "chip" /\ pc[t] = "check"

(* sLockTimer expires, 2 s after it was last started, and TimerEventHandler *)
(* posts the completion event.  When handlers are Prompt, those that were   *)
(* running as the timer started have finished by then.  How long events and *)
(* scheduled work wait in their queues is not bounded.                      *)
TimerExpires ==
    /\ armed
    /\ Prompt => \A t \in Threads : ~MidHandler(t)
    /\ armed' = FALSE
    /\ PostEvent("timer")
    /\ lost' = (lost \/ ~HasRoom)
    /\ UNCHANGED <<mState, lockState, mSync, work, pc, target, ignored>>

(* The other producers of the queue: the button's debounce timer and       *)
(* sFunctionTimer.                                                         *)
OtherEvent(e) ==
    /\ e # "timer"
    /\ PostEvent(e)
    /\ UNCHANGED <<mState, lockState, armed, mSync, work, pc, target, lost, ignored>>

-----------------------------------------------------------------------------
(***************************************************************************)
(* The application task.                                                   *)
(***************************************************************************)

(* Slip: TimerEventHandler posts its event without a handler. *)
HandlerOfNoTimer(e) == IF e = "short" /\ "app" \in LocalThreads THEN "press" ELSE "idle"

(* Where the handler of an event begins.  A short press only acts in a     *)
(* build with ENABLE_BUTTON_LOCK_UNLOCK.                                   *)
HandlerOf(e) == IF e = "timer" THEN "timer"
                ELSE IF e = "short" /\ "app" \in LocalThreads THEN "press" ELSE "idle"

(* AppTaskMain takes one event and DispatchEvent calls its handler.        *)
TakeEvent ==
    /\ pc["app"] = "idle"
    /\ queue # <<>>
    /\ queue' = Tail(queue)
    /\ Goto("app", HandlerOf(Head(queue)))
    /\ UNCHANGED <<mState, lockState, armed, mSync, work, target, lost, ignored>>

(* Slip: the branch of an unlock in progress is missing. *)
HasBranchLockOnly == mState = "LockInitiated"

(* ActuatorMovementTimerEventHandler has a branch for each initiated state *)
HasBranch == IsActionInProgress

(* and reads mState to choose it ...                                       *)
ChooseCompletion ==
    /\ pc["app"] = "timer"
    /\ IF HasBranch
         THEN /\ target' = [target EXCEPT !["app"] =
                              IF mState = "LockInitiated" THEN "Locked" ELSE "Unlocked"]
              /\ Goto("app", "complete")
         ELSE /\ Goto("app", "idle")
              /\ UNCHANGED target
    /\ UNCHANGED <<mState, lockState, armed, queue, mSync, work, lost, ignored>>

(* ... and then writes it.                                                 *)
CompleteAction ==
    /\ pc["app"] = "complete"
    /\ mState' = Completed(target["app"])
    /\ Goto("app", "report")
    /\ UNCHANGED <<lockState, armed, queue, mSync, work, target, lost, ignored>>

(* ActionCompleted tests the flag and schedules UpdateCluster; the result  *)
(* of ScheduleWork is ignored, so a full work queue drops the call ...     *)
ActionCompleted ==
    /\ pc["app"] = "report"
    /\ IF mSync
         THEN /\ work' = IF work < WorkQueueSize THEN work + 1 ELSE work
              /\ Goto("app", "clear")
         ELSE /\ UNCHANGED work
              /\ Goto("app", "idle")
    /\ UNCHANGED <<mState, lockState, armed, queue, mSync, target, lost, ignored>>

(* ... and only then clears the flag.                                      *)
ClearSync ==
    /\ pc["app"] = "clear"
    /\ mSync' = FALSE
    /\ Goto("app", "idle")
    /\ UNCHANGED <<mState, lockState, armed, queue, work, target, lost, ignored>>

AppStep == TakeEvent \/ ShortPress \/ ChooseCompletion \/ CompleteAction \/ ActionCompleted \/ ClearSync

-----------------------------------------------------------------------------
(***************************************************************************)
(* UpdateCluster, on the Matter event loop: it samples NextState() when it *)
(* runs, not when it was scheduled, and writes the attribute.              *)
(***************************************************************************)
SampledStateInverted == IF NextState THEN "Locked" ELSE "Unlocked"   \* a slip

SampledState == IF NextState THEN "Unlocked" ELSE "Locked"

UpdateCluster ==
    /\ pc["chip"] = "idle"
    /\ work > 0
    /\ work' = work - 1
    /\ target' = [target EXCEPT !["chip"] = SampledState]
    /\ Goto("chip", "write")
    /\ UNCHANGED <<mState, lockState, armed, queue, mSync, lost, ignored>>

SetLockState ==
    /\ pc["chip"] = "write"
    /\ lockState' = target["chip"]
    /\ Goto("chip", "idle")
    /\ UNCHANGED <<mState, armed, queue, mSync, work, target, lost, ignored>>

ChipStep == UpdateCluster \/ SetLockState

-----------------------------------------------------------------------------
Next ==
    \/ \E p \in Positions : RemoteCommand(p) \/ StartLockAction(p)
    \/ \E t \in Threads : InitiateAction(t)
    \/ TimerExpires
    \/ \E e \in Events : OtherEvent(e)
    \/ AppStep
    \/ ChipStep

Spec == Init /\ [][Next]_vars

(* The threads run, the timer expires and the Matter event loop gets to    *)
(* its scheduled work; nobody has to send a command or press a button.     *)
(* The expiry needs strong fairness, because remote commands that keep     *)
(* arriving interrupt its guard, but time passes all the same.             *)
Fairness ==
    /\ \A t \in Threads : WF_vars(InitiateAction(t))
    /\ SF_vars(TimerExpires)
    /\ WF_vars(AppStep)
    /\ WF_vars(ChipStep)

FairSpec == Spec /\ Fairness

-----------------------------------------------------------------------------
(***************************************************************************)
(* Properties.                                                             *)
(***************************************************************************)

(* Every variable has its type; the queues keep within their capacity.     *)
TypeOK ==
    /\ mState \in States
    /\ lockState \in Positions
    /\ armed \in BOOLEAN
    /\ queue \in Seq(Events) /\ Len(queue) <= QueueSize
    /\ mSync \in BOOLEAN
    /\ work \in 0..WorkQueueSize
    /\ pc \in [Threads -> PCs]
    /\ target \in [Threads -> Positions]
    /\ lost \in BOOLEAN
    /\ ignored \in BOOLEAN

(* The completion event of sLockTimer is in the queue or being handled.    *)
CompletionPending ==
    \/ \E i \in DOMAIN queue : queue[i] = "timer"
    \/ pc["app"] \in {"timer", "complete"}

(* Thread t has passed the check of InitiateAction and is not through yet. *)
InsideInitiate(t) == pc[t] \in {"start", "set", "callback"}

(* A movement is always going to end: while mState is LockInitiated or     *)
(* UnlockInitiated the timer runs, or its event is on its way to the       *)
(* application task, or PostEvent dropped that event.                      *)
MoveIsTimed == IsActionInProgress => armed \/ CompletionPending \/ lost

(* A completion event belongs to the movement in progress and to no other: *)
(* there is at most one, the timer is not running for a second one, no     *)
(* thread is starting another movement, and the branch that the handler    *)
(* chose is the one mState still calls for when it is written.             *)
OneCompletionPerMove ==
    /\ CompletionPending => /\ IsActionInProgress
                            /\ ~armed
                            /\ \A t \in Threads : ~InsideInitiate(t)
    /\ \A i, j \in DOMAIN queue : queue[i] = "timer" /\ queue[j] = "timer" => i = j
    /\ pc["app"] \in {"timer", "complete"} => \A i \in DOMAIN queue : queue[i] # "timer"
    /\ pc["app"] = "complete" => mState = Initiated(target["app"])

(* Two threads that are both inside InitiateAction move the door the same  *)
(* way, although nothing makes their checks of mState exclusive.           *)
InitiatorsAgree ==
    \A s, t \in Threads : InsideInitiate(s) /\ InsideInitiate(t) => target[s] = target[t]

(* What the door does, seen without threads, timers and queues.            *)
DoorPosition == IF mState \in {"LockCompleted", "UnlockInitiated"} THEN "Locked" ELSE "Unlocked"
DoorHeading  == IF mState = "LockInitiated" THEN "Locked"
                ELSE IF mState = "UnlockInitiated" THEN "Unlocked" ELSE "None"

Door == INSTANCE DoorLock WITH position <- DoorPosition, heading <- DoorHeading

(* mState moves only as the door may: from rest into a movement to the     *)
(* other side, and from a movement to its own end.  It is never turned     *)
(* round or completed the wrong way by a second initiator or an old event. *)
ImplementsDoor == Door!Spec

(* Nothing is going on: no thread is busy, no timer runs, no movement, no  *)
(* work waits for the Matter event loop.                                   *)
AtRest ==
    /\ \A t \in Threads : pc[t] = "idle"
    /\ ~armed /\ ~CompletionPending
    /\ ~IsActionInProgress
    /\ work = 0

(* At rest the LockState attribute that controllers read is the position   *)
(* of the door.                                                            *)
AgreeAtRest == AtRest => lockState = DoorPosition

(* With remote commands only: the attribute is the position of the door,   *)
(* or of the movement in progress, unless the last command was refused     *)
(* because the opposite movement was in progress.  (ZclCallbacks.cpp sets  *)
(* the attribute before InitiateAction and ignores what that returns.)     *)
AgreeUnlessIgnored ==
    pc["chip"] = "idle" /\ work = 0 /\ ~ignored =>
        mState \in {Completed(lockState), Initiated(lockState)}

(* An arrival that controllers do not see yet is still going to be         *)
(* reported: ActionCompleted has yet to schedule a call of UpdateCluster,  *)
(* or one is scheduled and will sample mState, or one has and is about to  *)
(* write it.  A call that a full work queue dropped is not missed.         *)
ArrivalIsOnItsWay ==
    ~IsActionInProgress /\ lockState # DoorPosition =>
        \/ pc["app"] = "report" /\ mSync
        \/ work > 0
        \/ pc["chip"] = "write" /\ target["chip"] = DoorPosition

(* Every movement is completed, unless PostEvent dropped the event that    *)
(* completes it: a pending completion survives whatever else is queued.    *)
CompletesUnlessLost == IsActionInProgress ~> ~IsActionInProgress \/ lost

(* Every movement is completed: TimerEventHandler posts an event "so that  *)
(* the event can be handled in the context of the apptask".                *)
Completes == IsActionInProgress ~> ~IsActionInProgress

(* A local action reaches the cluster: once the door has arrived, the      *)
(* attribute comes to show where it is, unless the door moves again first. *)
ArrivalIsReported ==
    \A p \in Positions : mState = Completed(p) ~> lockState = p \/ mState # Completed(p)
=============================================================================
