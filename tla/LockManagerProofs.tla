-------------------------- MODULE LockManagerProofs --------------------------
(***************************************************************************)
(* Proofs about LockManager, for every size of the queues, every build     *)
(* (LocalThreads) and every set of remote commands.                        *)
(***************************************************************************)
EXTENDS LockManager, TLAPS

-----------------------------------------------------------------------------
(***************************************************************************)
(* The event queue.                                                        *)
(***************************************************************************)

(* Whatever the queue holds, posting an event keeps it a queue of events   *)
(* within its capacity: PostEvent with a timeout of 0.                     *)
LEMMA PostEventType ==
    ASSUME NEW e \in Events, queue \in Seq(Events), Len(queue) <= QueueSize, PostEvent(e)
    PROVE  queue' \in Seq(Events) /\ Len(queue') <= QueueSize
  BY ConstantsAssumption DEF PostEvent, HasRoom

(* Posting an event leaves the entries where they are and adds at most one *)
(* entry, the event, behind them.                                          *)
LEMMA PostEventEntries ==
    ASSUME NEW e \in Events, queue \in Seq(Events), PostEvent(e)
    PROVE  /\ \A i \in DOMAIN queue : i \in DOMAIN queue' /\ queue'[i] = queue[i]
           /\ \A i \in DOMAIN queue' : i \in DOMAIN queue \/ (i = Len(queue) + 1 /\ queue'[i] = e /\ HasRoom)
           /\ HasRoom => Len(queue) + 1 \in DOMAIN queue' /\ queue'[Len(queue) + 1] = e
  BY DEF PostEvent, HasRoom

(* Taking the first event shifts the others by one.                        *)
LEMMA TailEntries ==
    ASSUME NEW q \in Seq(Events), q # <<>>
    PROVE  /\ Tail(q) \in Seq(Events)
           /\ Len(Tail(q)) = Len(q) - 1
           /\ Head(q) \in Events
           /\ 1 \in DOMAIN q /\ Head(q) = q[1]
           /\ \A i \in DOMAIN Tail(q) : i + 1 \in DOMAIN q /\ Tail(q)[i] = q[i + 1]
           /\ \A i \in DOMAIN q : i # 1 => i - 1 \in DOMAIN Tail(q) /\ Tail(q)[i - 1] = q[i]
  OBVIOUS

-----------------------------------------------------------------------------
(***************************************************************************)
(* Types.                                                                  *)
(***************************************************************************)

(* The initial states have the types.                                      *)
LEMMA TypeInit == Init => TypeOK
<1> SUFFICES ASSUME Init PROVE TypeOK
  OBVIOUS
<1>1. mState \in States /\ lockState \in Positions
  BY DEF Init, Positions, Completed, States
<1>2. queue \in Seq(Events) /\ Len(queue) <= QueueSize
  <2>1. queue = <<>>
    BY DEF Init
  <2> QED BY <2>1, ConstantsAssumption
<1>3. work \in 0..WorkQueueSize
  BY ConstantsAssumption DEF Init
<1>4. pc \in [Threads -> PCs] /\ target \in [Threads -> Positions]
  BY <1>1 DEF Init, PCs
<1> QED BY <1>1, <1>2, <1>3, <1>4 DEF Init, TypeOK

(* Every step keeps the types.                                             *)
LEMMA TypeStep == TypeOK /\ [Next]_vars => TypeOK'
<1> SUFFICES ASSUME TypeOK, [Next]_vars PROVE TypeOK'
  OBVIOUS
<1> USE ConstantsAssumption DEF TypeOK, Positions, Threads, PCs, Goto
<1>1. ASSUME NEW p \in Positions, RemoteCommand(p) PROVE TypeOK'
  BY <1>1 DEF RemoteCommand
<1>2. ASSUME NEW p \in Positions, StartLockAction(p) PROVE TypeOK'
  BY <1>2 DEF StartLockAction
<1>3. ASSUME NEW t \in Threads, InitiateAction(t) PROVE TypeOK'
  <2>1. CASE CheckState(t)
    <3>1. pc' \in [Threads -> PCs]
      BY <2>1 DEF CheckState
    <3>2. UNCHANGED <<mState, lockState, armed, queue, mSync, work, target, lost>> /\ ignored' \in BOOLEAN
      BY <2>1 DEF CheckState
    <3> QED BY <3>1, <3>2
  <2>2. CASE StartTimer(t)
    BY <2>2 DEF StartTimer
  <2>3. CASE UpdateState(t)
    BY <2>3 DEF UpdateState, Initiated, States
  <2>4. CASE ActionInitiated(t)
    BY <2>4 DEF ActionInitiated
  <2> QED BY <1>3, <2>1, <2>2, <2>3, <2>4 DEF InitiateAction
<1>4. CASE TimerExpires
  <2>1. queue' \in Seq(Events) /\ Len(queue') <= QueueSize
    BY <1>4, PostEventType DEF TimerExpires, Events
  <2> QED BY <1>4, <2>1 DEF TimerExpires, HasRoom
<1>5. ASSUME NEW e \in Events, OtherEvent(e) PROVE TypeOK'
  <2>1. queue' \in Seq(Events) /\ Len(queue') <= QueueSize
    BY <1>5, PostEventType DEF OtherEvent
  <2> QED BY <1>5, <2>1 DEF OtherEvent
<1>6. CASE AppStep
  <2>1. CASE TakeEvent
    <3>1. queue' \in Seq(Events) /\ Len(queue') <= QueueSize
      BY <2>1, TailEntries DEF TakeEvent
    <3> QED BY <2>1, <3>1 DEF TakeEvent, HandlerOf
  <2>2. CASE ShortPress
    BY <2>2 DEF ShortPress
  <2>3. CASE ChooseCompletion
    BY <2>3 DEF ChooseCompletion, HasBranch
  <2>4. CASE CompleteAction
    BY <2>4 DEF CompleteAction, Completed, States
  <2>5. CASE ActionCompleted
    BY <2>5 DEF ActionCompleted
  <2>6. CASE ClearSync
    BY <2>6 DEF ClearSync
  <2> QED BY <1>6, <2>1, <2>2, <2>3, <2>4, <2>5, <2>6 DEF AppStep
<1>7. CASE ChipStep
  <2>1. CASE UpdateCluster
    BY <2>1 DEF UpdateCluster, SampledState
  <2>2. CASE SetLockState
    BY <2>2 DEF SetLockState
  <2> QED BY <1>7, <2>1, <2>2 DEF ChipStep
<1>8. CASE UNCHANGED vars
  BY <1>8 DEF vars
<1> QED BY <1>1, <1>2, <1>3, <1>4, <1>5, <1>6, <1>7, <1>8 DEF Next

(* Type correctness of the lock, its queue and its threads: the state,     *)
(* the event queue and the work queue never leave their ranges.            *)
THEOREM TypeCorrect == Spec => []TypeOK
  BY TypeInit, TypeStep, PTL DEF Spec

-----------------------------------------------------------------------------
(***************************************************************************)
(* The invariant of the movement, when handlers are Prompt.  What the runs *)
(* check (OneCompletionPerMove, MoveIsTimed) is not inductive by itself:   *)
(* it also takes how far each thread is inside InitiateAction, what mState *)
(* can then be, and that the timer only runs for a movement.               *)
(***************************************************************************)

(* A thread past the check finds mState at the state it checked or already *)
(* in the movement it asks for.                                            *)
InitiatorInv ==
    \A t \in Threads :
        /\ pc[t] \in {"start", "set"} =>
              mState = Completed(Other(target[t])) \/ mState = Initiated(target[t])
        /\ pc[t] = "callback" => mState = Initiated(target[t])
        /\ pc[t] \in {"set", "callback"} => armed

(* The timer runs for a movement, or for one about to be written.          *)
TimerInv == armed => IsActionInProgress \/ \E t \in Threads : pc[t] = "set"

MoveInv == TypeOK /\ InitiatorInv /\ TimerInv /\ OneCompletionPerMove /\ MoveIsTimed

(* The completed and the initiated states of the two positions differ.     *)
LEMMA StatesDiffer ==
    ASSUME NEW p \in Positions, NEW q \in Positions
    PROVE  /\ Other(p) \in Positions /\ Other(p) # p
           /\ Completed(p) # Initiated(q)
           /\ Completed(p) = Completed(q) => p = q
           /\ Initiated(p) = Initiated(q) => p = q
           /\ Other(p) = Other(q) => p = q
  BY DEF Positions, Other, Completed, Initiated

(* An action is in progress exactly in the initiated states.               *)
LEMMA InProgress ==
    ASSUME NEW p \in Positions
    PROVE  /\ mState = Initiated(p) => IsActionInProgress
           /\ mState = Completed(p) => ~IsActionInProgress
  BY DEF Positions, Completed, Initiated, IsActionInProgress

(* At the start nothing moves and nothing is pending.                      *)
LEMMA MoveInit == Init => MoveInv
<1> SUFFICES ASSUME Init PROVE MoveInv
  OBVIOUS
<1>1. TypeOK
  BY TypeInit
<1>2. ~IsActionInProgress /\ ~CompletionPending /\ queue = <<>>
  BY <1>1, InProgress DEF Init, CompletionPending, Threads, TypeOK
<1>3. \A t \in Threads : pc[t] = "idle"
  BY DEF Init
<1> QED
  BY <1>1, <1>2, <1>3 DEF MoveInv, InitiatorInv, TimerInv, OneCompletionPerMove, MoveIsTimed, Init, Threads

(* A step of thread t that only moves t between places where it is not     *)
(* past the check of InitiateAction, nor handling a completion event,      *)
(* keeps the invariant.                                                    *)
LEMMA QuietStep ==
    ASSUME MoveInv, TypeOK', NEW t \in Threads, NEW l \in PCs, Goto(t, l),
           l \notin {"start", "set", "callback", "timer", "complete"},
           pc[t] \notin {"set", "timer", "complete"},
           \A s \in Threads : s # t => target'[s] = target[s],
           UNCHANGED <<mState, armed, queue, lost>>
    PROVE  MoveInv'
<1> USE DEF MoveInv, TypeOK, Goto
<1>1. /\ pc'[t] = l
      /\ \A s \in Threads : s # t => pc'[s] = pc[s]
  OBVIOUS
<1>2. InitiatorInv'
  BY <1>1 DEF InitiatorInv
<1>3. TimerInv'
  BY <1>1 DEF TimerInv, IsActionInProgress
<1>4. "app" \in Threads /\ (pc'["app"] \in {"timer", "complete"} => t # "app" /\ pc'["app"] = pc["app"])
  BY <1>1 DEF Threads
<1>5. CompletionPending' <=> CompletionPending
  BY <1>1, <1>4 DEF CompletionPending, Threads
<1>6. OneCompletionPerMove'
  BY <1>1, <1>4, <1>5 DEF OneCompletionPerMove, InsideInitiate, IsActionInProgress
<1>7. MoveIsTimed'
  BY <1>5 DEF MoveIsTimed, IsActionInProgress
<1> QED BY <1>2, <1>3, <1>6, <1>7

(* InitiateAction, in any thread, keeps the invariant.                     *)
LEMMA InitiateActionStep ==
    ASSUME MoveInv, TypeOK', NEW t \in Threads, InitiateAction(t)
    PROVE  MoveInv'
<1> USE DEF MoveInv, TypeOK
<1>a. \A s \in Threads : target[s] \in Positions
  OBVIOUS
<1>1. CASE CheckState(t) /\ mState # Completed(Other(target[t]))
  <2>1. Goto(t, "idle") /\ pc[t] = "check"
    BY <1>1 DEF CheckState, MayInitiate
  <2> QED BY <1>1, <2>1, QuietStep DEF CheckState, PCs
<1>2. CASE CheckState(t) /\ mState = Completed(Other(target[t]))
  <2>1. /\ pc[t] = "check" /\ pc'[t] = "start"
        /\ \A s \in Threads : s # t => pc'[s] = pc[s]
        /\ UNCHANGED <<mState, armed, queue, target, lost>>
    BY <1>2 DEF CheckState, MayInitiate, Goto
  <2>2. ~IsActionInProgress /\ ~CompletionPending
    BY <1>2, <1>a, StatesDiffer, InProgress DEF OneCompletionPerMove
  <2>3. InitiatorInv'
    BY <1>2, <2>1 DEF InitiatorInv
  <2>4. TimerInv'
    BY <2>1 DEF TimerInv, IsActionInProgress
  <2>5. ~CompletionPending' /\ ~IsActionInProgress'
    BY <2>1, <2>2 DEF CompletionPending, Threads, IsActionInProgress
  <2>6. OneCompletionPerMove'
    BY <2>1, <2>5 DEF OneCompletionPerMove, CompletionPending
  <2> QED BY <2>3, <2>4, <2>5, <2>6 DEF MoveIsTimed
<1>3. CASE StartTimer(t)
  <2>1. /\ pc[t] = "start" /\ pc'[t] = "set" /\ armed'
        /\ \A s \in Threads : s # t => pc'[s] = pc[s]
        /\ UNCHANGED <<mState, queue, target, lost>>
    BY <1>3 DEF StartTimer, Goto
  <2>2. ~CompletionPending
    BY <2>1 DEF OneCompletionPerMove, InsideInitiate
  <2>3. InitiatorInv'
    BY <2>1 DEF InitiatorInv
  <2>4. TimerInv'
    BY <2>1 DEF TimerInv
  <2>5. ~CompletionPending'
    BY <2>1, <2>2 DEF CompletionPending, Threads
  <2>6. OneCompletionPerMove'
    BY <2>1, <2>5 DEF OneCompletionPerMove, CompletionPending
  <2> QED BY <2>1, <2>3, <2>4, <2>6 DEF MoveIsTimed
<1>4. CASE UpdateState(t)
  <2>1. /\ pc[t] = "set" /\ pc'[t] = "callback" /\ mState' = Initiated(target[t])
        /\ \A s \in Threads : s # t => pc'[s] = pc[s]
        /\ UNCHANGED <<armed, queue, target, lost>>
    BY <1>4 DEF UpdateState, Goto
  <2>2. ~CompletionPending /\ armed
    BY <2>1 DEF OneCompletionPerMove, InsideInitiate, InitiatorInv
  <2>3. ASSUME NEW s \in Threads, InsideInitiate(s) PROVE target[s] = target[t]
    BY <2>1, <2>3, <1>a, StatesDiffer DEF InitiatorInv, InsideInitiate
  <2>4. InitiatorInv'
    BY <2>1, <2>2, <2>3 DEF InitiatorInv, InsideInitiate
  <2>5. ~CompletionPending'
    BY <2>1, <2>2 DEF CompletionPending, Threads
  <2>6. IsActionInProgress'
    BY <2>1, <1>a DEF IsActionInProgress, Initiated
  <2>7. OneCompletionPerMove'
    BY <2>1, <2>5 DEF OneCompletionPerMove, CompletionPending
  <2> QED BY <2>1, <2>2, <2>4, <2>6, <2>7 DEF MoveIsTimed, TimerInv
<1>5. CASE ActionInitiated(t)
  <2>1. Goto(t, "idle") /\ pc[t] = "callback"
    BY <1>5 DEF ActionInitiated
  <2> QED BY <1>5, <2>1, QuietStep DEF ActionInitiated, PCs
<1> QED BY <1>1, <1>2, <1>3, <1>4, <1>5 DEF InitiateAction

(* An event other than the completion of a movement keeps the invariant.   *)
LEMMA OtherEventStep ==
    ASSUME MoveInv, TypeOK', NEW e \in Events, OtherEvent(e)
    PROVE  MoveInv'
<1> USE DEF MoveInv, TypeOK
<1>1. /\ e # "timer" /\ PostEvent(e)
      /\ UNCHANGED <<mState, armed, pc, target, lost>>
  BY DEF OtherEvent
<1>2. \A i \in DOMAIN queue' : queue'[i] = "timer" => i \in DOMAIN queue /\ queue[i] = "timer"
  BY <1>1, PostEventEntries
<1>3. \A i \in DOMAIN queue : i \in DOMAIN queue' /\ queue'[i] = queue[i]
  BY <1>1, PostEventEntries
<1>4. CompletionPending' <=> CompletionPending
  BY <1>1, <1>2, <1>3 DEF CompletionPending
<1>5. OneCompletionPerMove'
  BY <1>1, <1>2, <1>4 DEF OneCompletionPerMove, InsideInitiate, IsActionInProgress
<1>6. InitiatorInv' /\ TimerInv' /\ MoveIsTimed'
  BY <1>1, <1>4 DEF InitiatorInv, TimerInv, MoveIsTimed, IsActionInProgress
<1> QED BY <1>5, <1>6

(* The expiry of sLockTimer keeps the invariant, when handlers are Prompt: *)
(* no thread is inside InitiateAction, so the timer runs for a movement    *)
(* that mState already shows, and the event posted is its only one.        *)
LEMMA TimerExpiresStep ==
    ASSUME Prompt, MoveInv, TypeOK', TimerExpires
    PROVE  MoveInv'
<1> USE DEF MoveInv, TypeOK
<1>1. /\ armed /\ ~armed' /\ PostEvent("timer") /\ lost' = (lost \/ ~HasRoom)
      /\ UNCHANGED <<mState, pc, target>>
      /\ \A t \in Threads : ~MidHandler(t)
  BY DEF TimerExpires
<1>2. \A t \in Threads : ~InsideInitiate(t)
  BY <1>1 DEF MidHandler, InsideInitiate
<1>3. IsActionInProgress
  BY <1>1, <1>2 DEF TimerInv, InsideInitiate
<1>4. ~CompletionPending
  BY <1>1 DEF OneCompletionPerMove
<1>5. \A i \in DOMAIN queue' : queue'[i] = "timer" => i = Len(queue) + 1
  BY <1>1, <1>4, PostEventEntries DEF CompletionPending, Events
<1>6. HasRoom => CompletionPending'
  BY <1>1, PostEventEntries DEF CompletionPending, Events
<1>7. pc'["app"] \notin {"timer", "complete"}
  BY <1>1, <1>4 DEF CompletionPending
<1>8. OneCompletionPerMove'
  BY <1>1, <1>2, <1>3, <1>5, <1>7 DEF OneCompletionPerMove, InsideInitiate, IsActionInProgress
<1>9. MoveIsTimed'
  BY <1>1, <1>6 DEF MoveIsTimed
<1>10. InitiatorInv'
  BY <1>1, <1>2 DEF InitiatorInv, InsideInitiate
<1>11. TimerInv'
  BY <1>1 DEF TimerInv
<1> QED BY <1>8, <1>9, <1>10, <1>11

(* Taking an event keeps the invariant: if it is the completion event, it  *)
(* was the only one, and it stays pending in the application task.         *)
LEMMA TakeEventStep ==
    ASSUME MoveInv, TypeOK', TakeEvent
    PROVE  MoveInv'
<1> USE DEF MoveInv, TypeOK
<1>1. /\ pc["app"] = "idle" /\ queue # <<>> /\ queue' = Tail(queue)
      /\ UNCHANGED <<mState, armed, target, lost>>
      /\ \A s \in Threads : s # "app" => pc'[s] = pc[s]
      /\ "app" \in Threads
  BY DEF TakeEvent, Goto, Threads
<1>2. /\ Head(queue) = "timer" => pc'["app"] = "timer"
      /\ Head(queue) # "timer" => pc'["app"] \in {"idle", "press"}
  BY <1>1 DEF TakeEvent, HandlerOf, Goto
<1>3. /\ \A i \in DOMAIN queue' : i + 1 \in DOMAIN queue /\ queue'[i] = queue[i + 1]
      /\ \A i \in DOMAIN queue : i # 1 => i - 1 \in DOMAIN queue' /\ queue'[i - 1] = queue[i]
      /\ 1 \in DOMAIN queue /\ Head(queue) = queue[1]
      /\ DOMAIN queue' \subseteq Nat \ {0} /\ DOMAIN queue \subseteq Nat \ {0}
  BY <1>1, TailEntries
<1>4. CompletionPending' <=> CompletionPending
  <2>1. pc["app"] # "timer" /\ pc["app"] # "complete" /\ pc'["app"] # "complete"
    BY <1>1, <1>2
  <2>2. (\E i \in DOMAIN queue : queue[i] = "timer")
        <=> \/ Head(queue) = "timer"
            \/ \E i \in DOMAIN queue' : queue'[i] = "timer"
    BY <1>3
  <2> QED BY <1>1, <1>2, <2>1, <2>2 DEF CompletionPending
<1>5. \A t \in Threads : /\ InsideInitiate(t)' <=> InsideInitiate(t)
                         /\ pc'[t] = "set" <=> pc[t] = "set"
  BY <1>1, <1>2 DEF InsideInitiate
<1>6. \A i \in DOMAIN queue' : queue'[i] = "timer" => Head(queue) # "timer"
  BY <1>3 DEF OneCompletionPerMove
<1>7. OneCompletionPerMove'
  <2>1. \A i, j \in DOMAIN queue' : queue'[i] = "timer" /\ queue'[j] = "timer" => i = j
    BY <1>3 DEF OneCompletionPerMove
  <2> QED BY <1>1, <1>2, <1>4, <1>5, <1>6, <2>1 DEF OneCompletionPerMove, IsActionInProgress
<1>8. InitiatorInv'
  BY <1>1, <1>2 DEF InitiatorInv
<1>9. TimerInv' /\ MoveIsTimed'
  BY <1>1, <1>4, <1>5 DEF TimerInv, MoveIsTimed, IsActionInProgress
<1> QED BY <1>7, <1>8, <1>9

(* Handling the completion event keeps the invariant.                      *)
LEMMA CompletionStep ==
    ASSUME MoveInv, TypeOK', ChooseCompletion \/ CompleteAction
    PROVE  MoveInv'
<1> USE DEF MoveInv, TypeOK
<1>1. CASE ChooseCompletion
  <2>1. CompletionPending
    BY <1>1 DEF ChooseCompletion, CompletionPending
  <2>2. /\ pc["app"] = "timer" /\ pc'["app"] = "complete"
        /\ target'["app"] = IF mState = "LockInitiated" THEN "Locked" ELSE "Unlocked"
        /\ \A s \in Threads : s # "app" => pc'[s] = pc[s] /\ target'[s] = target[s]
        /\ UNCHANGED <<mState, armed, queue, lost>>
    BY <1>1, <2>1 DEF ChooseCompletion, HasBranch, Goto, OneCompletionPerMove, Threads
  <2>3. mState = Initiated(target'["app"])
    BY <2>1, <2>2 DEF OneCompletionPerMove, IsActionInProgress, Initiated
  <2>4. CompletionPending'
    BY <2>2 DEF CompletionPending
  <2>5. OneCompletionPerMove'
    BY <2>1, <2>2, <2>3, <2>4 DEF OneCompletionPerMove, InsideInitiate, IsActionInProgress
  <2>6. InitiatorInv'
    BY <2>2 DEF InitiatorInv
  <2>7. TimerInv' /\ MoveIsTimed'
    BY <2>2, <2>4, <2>1 DEF OneCompletionPerMove, TimerInv, MoveIsTimed
  <2> QED BY <2>5, <2>6, <2>7
<1>2. CASE CompleteAction
  <2>1. CompletionPending
    BY <1>2 DEF CompleteAction, CompletionPending
  <2>2. /\ pc["app"] = "complete" /\ pc'["app"] = "report"
        /\ mState' = Completed(target["app"])
        /\ \A s \in Threads : s # "app" => pc'[s] = pc[s]
        /\ UNCHANGED <<armed, queue, lost, target>>
    BY <1>2 DEF CompleteAction, Goto, Threads
  <2>3. ~armed /\ \A t \in Threads : ~InsideInitiate(t)
    BY <2>1 DEF OneCompletionPerMove
  <2>4. \A t \in Threads : ~InsideInitiate(t)'
    BY <2>2, <2>3 DEF InsideInitiate
  <2>5. ~CompletionPending'
    BY <2>2 DEF CompletionPending, OneCompletionPerMove
  <2>6. ~IsActionInProgress'
    BY <2>2 DEF IsActionInProgress, Completed
  <2>7. OneCompletionPerMove'
    BY <2>2, <2>5 DEF OneCompletionPerMove
  <2>8. InitiatorInv'
    BY <2>4 DEF InitiatorInv, InsideInitiate
  <2>9. TimerInv' /\ MoveIsTimed'
    BY <2>2, <2>3, <2>6 DEF TimerInv, MoveIsTimed
  <2> QED BY <2>7, <2>8, <2>9
<1> QED BY <1>1, <1>2

(* Every step keeps the invariant.                                         *)
LEMMA MoveStep ==
    ASSUME Prompt, MoveInv, [Next]_vars
    PROVE  MoveInv'
<1>a. TypeOK'
  BY TypeStep DEF MoveInv
<1>b. "chip" \in Threads /\ "app" \in Threads /\ "display" \in Threads
  BY DEF Threads
<1> USE <1>a, <1>b
<1>1. ASSUME NEW p \in Positions, RemoteCommand(p) PROVE MoveInv'
  BY <1>1, QuietStep DEF RemoteCommand, PCs, MoveInv, TypeOK
<1>2. ASSUME NEW p \in Positions, StartLockAction(p) PROVE MoveInv'
  BY <1>2, QuietStep DEF StartLockAction, PCs, MoveInv, TypeOK
<1>3. ASSUME NEW t \in Threads, InitiateAction(t) PROVE MoveInv'
  BY <1>3, InitiateActionStep
<1>4. CASE TimerExpires
  BY <1>4, TimerExpiresStep
<1>5. ASSUME NEW e \in Events, OtherEvent(e) PROVE MoveInv'
  BY <1>5, OtherEventStep
<1>6. CASE AppStep
  <2>1. CASE TakeEvent
    BY <2>1, TakeEventStep
  <2>2. CASE ShortPress
    BY <2>2, QuietStep DEF ShortPress, PCs, MoveInv, TypeOK
  <2>3. CASE ChooseCompletion \/ CompleteAction
    BY <2>3, CompletionStep
  <2>4. CASE ActionCompleted
    <3>1. CASE mSync
      BY <2>4, <3>1, QuietStep DEF ActionCompleted, PCs
    <3>2. CASE ~mSync
      BY <2>4, <3>2, QuietStep DEF ActionCompleted, PCs
    <3> QED BY <3>1, <3>2
  <2>5. CASE ClearSync
    BY <2>5, QuietStep DEF ClearSync, PCs
  <2> QED BY <1>6, <2>1, <2>2, <2>3, <2>4, <2>5 DEF AppStep
<1>7. CASE ChipStep
  <2>1. CASE UpdateCluster
    BY <2>1, QuietStep DEF UpdateCluster, PCs, MoveInv, TypeOK
  <2>2. CASE SetLockState
    BY <2>2, QuietStep DEF SetLockState, PCs
  <2> QED BY <1>7, <2>1, <2>2 DEF ChipStep
<1>8. CASE UNCHANGED vars
  BY <1>8 DEF vars, MoveInv, TypeOK, InitiatorInv, TimerInv, OneCompletionPerMove, MoveIsTimed,
              CompletionPending, InsideInitiate, IsActionInProgress
<1> QED BY <1>1, <1>2, <1>3, <1>4, <1>5, <1>6, <1>7, <1>8 DEF Next

(* The invariant holds in every behaviour of prompt handlers.              *)
THEOREM MoveInvariant ==
    ASSUME Prompt
    PROVE  Spec => []MoveInv
<1>1. MoveInv /\ [Next]_vars => MoveInv'
  BY MoveStep
<1> QED BY MoveInit, <1>1, PTL DEF Spec

(* A completion event belongs to the movement in progress, there is never  *)
(* a second one, and the branch its handler chose is still the right one   *)
(* when it writes mState (ActuatorMovementTimerEventHandler).              *)
THEOREM CompletionIsUnique ==
    ASSUME Prompt
    PROVE  Spec => []OneCompletionPerMove
<1>1. MoveInv => OneCompletionPerMove
  BY DEF MoveInv
<1> QED BY MoveInvariant, <1>1, PTL

(* A movement in progress has its timer or its completion event, unless    *)
(* PostEvent dropped the event: no interleaving of InitiateAction with the *)
(* completion of the previous movement leaves the door moving for ever.    *)
THEOREM MovementIsTimed ==
    ASSUME Prompt
    PROVE  Spec => []MoveIsTimed
<1>1. MoveInv => MoveIsTimed
  BY DEF MoveInv
<1> QED BY MoveInvariant, <1>1, PTL

(* Two threads inside InitiateAction have both found mState at rest, or    *)
(* what one of them has written: they have the same target.                *)
LEMMA InitiatorsAgreeInMove == MoveInv => InitiatorsAgree
<1> SUFFICES ASSUME MoveInv, NEW s \in Threads, NEW t \in Threads,
                    InsideInitiate(s), InsideInitiate(t)
             PROVE  target[s] = target[t]
  BY DEF InitiatorsAgree
<1> QED BY StatesDiffer DEF MoveInv, TypeOK, InitiatorInv, InsideInitiate

(* Threads that pass the unguarded check of InitiateAction together ask    *)
(* for the same movement.                                                  *)
THEOREM InitiatorsNeverConflict ==
    ASSUME Prompt
    PROVE  Spec => []InitiatorsAgree
<1> QED BY MoveInvariant, InitiatorsAgreeInMove, PTL

-----------------------------------------------------------------------------
(***************************************************************************)
(* LockManager implements DoorLock.                                        *)
(***************************************************************************)

(* The door of each state of mState.                                       *)
LEMMA DoorOfState ==
    ASSUME NEW p \in Positions
    PROVE  /\ mState = Completed(p) => DoorPosition = p /\ DoorHeading = "None"
           /\ mState = Initiated(p) => DoorPosition = Other(p) /\ DoorHeading = p
           /\ mState' = Completed(p) => DoorPosition' = p /\ DoorHeading' = "None"
           /\ mState' = Initiated(p) => DoorPosition' = Other(p) /\ DoorHeading' = p
  BY DEF Positions, Completed, Initiated, Other, DoorPosition, DoorHeading

(* The door is at rest, at a position, when the lock starts.               *)
LEMMA DoorInit == Init => Door!Init
  BY DoorOfState DEF Init, Door!Init, Door!Positions, Positions

(* A step that leaves mState alone leaves the door alone.                  *)
LEMMA DoorStutter ==
    ASSUME mState' = mState
    PROVE  UNCHANGED Door!vars
  BY DEF Door!vars, DoorPosition, DoorHeading

(* Writing an initiated state starts a movement, or repeats the write of   *)
(* another thread, if mState was the state checked or the state written.   *)
LEMMA DoorStart ==
    ASSUME NEW t \in Threads, UpdateState(t), target[t] \in Positions,
           mState = Completed(Other(target[t])) \/ mState = Initiated(target[t])
    PROVE  [Door!Next]_(Door!vars)
<1>1. mState' = Initiated(target[t])
  BY DEF UpdateState
<1>2. CASE mState = Initiated(target[t])
  BY <1>1, <1>2, DoorStutter
<1>3. CASE mState = Completed(Other(target[t]))
  <2>1. Door!Start(target[t])
    BY <1>1, <1>3, StatesDiffer, DoorOfState DEF Door!Start
  <2> QED BY <2>1 DEF Door!Next, Door!Positions, Positions
<1> QED BY <1>2, <1>3

(* Writing a completed state is the arrival of the movement.               *)
LEMMA DoorArrive ==
    ASSUME CompleteAction, target["app"] \in Positions, mState = Initiated(target["app"])
    PROVE  [Door!Next]_(Door!vars)
<1>1. Door!Arrive
  BY DoorOfState DEF CompleteAction, Door!Arrive, Positions
<1> QED BY <1>1 DEF Door!Next

(* The only steps that change mState are those two.                        *)
LEMMA StateChanges ==
    ASSUME [Next]_vars
    PROVE  \/ mState' = mState
           \/ CompleteAction
           \/ \E t \in Threads : UpdateState(t)
  BY DEF Next, RemoteCommand, StartLockAction, InitiateAction, CheckState, StartTimer, ActionInitiated,
         TimerExpires, OtherEvent, AppStep, TakeEvent, ShortPress, ChooseCompletion, ActionCompleted,
         ClearSync, ChipStep, UpdateCluster, SetLockState, vars

(* The lock moves only as the door may, with any number of initiators, if  *)
(* handlers are Prompt: no second initiator and no old completion event    *)
(* turns a movement round or completes it the wrong way.                   *)
THEOREM LockImplementsDoor ==
    ASSUME Prompt
    PROVE  Spec => ImplementsDoor
<1>1. MoveInv /\ [Next]_vars => [Door!Next]_(Door!vars)
  <2> SUFFICES ASSUME MoveInv, [Next]_vars PROVE [Door!Next]_(Door!vars)
    OBVIOUS
  <2>1. \A t \in Threads : target[t] \in Positions
    BY DEF MoveInv, TypeOK
  <2>2. CASE mState' = mState
    BY <2>2, DoorStutter
  <2>3. CASE CompleteAction
    BY <2>1, <2>3, DoorArrive DEF MoveInv, OneCompletionPerMove, CompleteAction, Threads
  <2>4. ASSUME NEW t \in Threads, UpdateState(t) PROVE [Door!Next]_(Door!vars)
    BY <2>1, <2>4, DoorStart DEF MoveInv, InitiatorInv, UpdateState
  <2> QED BY <2>2, <2>3, <2>4, StateChanges
<1> QED BY DoorInit, MoveInvariant, <1>1, PTL DEF Spec, ImplementsDoor, Door!Spec

-----------------------------------------------------------------------------
(***************************************************************************)
(* The default build: remote commands are the only initiator.  Nothing is  *)
(* assumed about how long a handler takes.                                 *)
(***************************************************************************)

(* Only the Matter event loop enters InitiateAction, so mState is still    *)
(* what it checked when it writes it; no action raises the sync flag; and  *)
(* the attribute is the target of the command being handled.               *)
RemoteInv ==
    /\ TypeOK
    /\ pc["display"] = "idle"
    /\ pc["app"] \in {"idle", "timer", "complete", "report"}
    /\ ~mSync /\ work = 0
    /\ pc["chip"] \in {"idle", "check", "start", "set", "callback"}
    /\ pc["chip"] # "idle" => target["chip"] = lockState
    /\ pc["chip"] \in {"start", "set"} => mState = Completed(Other(lockState))
    /\ pc["chip"] = "callback" => mState \in {Initiated(lockState), Completed(lockState)}
    /\ pc["chip"] \in {"start", "set", "callback"} => ~ignored
    /\ pc["app"] = "complete" => mState = Initiated(target["app"])
    /\ AgreeUnlessIgnored

(* It holds at the start.                                                  *)
LEMMA RemoteInit == Init => RemoteInv
<1> SUFFICES ASSUME Init PROVE RemoteInv
  OBVIOUS
<1> QED BY TypeInit DEF Init, RemoteInv, AgreeUnlessIgnored, Threads

(* Every step of the default build keeps it.                               *)
LEMMA RemoteStep ==
    ASSUME LocalThreads = {}, RemoteInv, [Next]_vars
    PROVE  RemoteInv'
<1>a. TypeOK'
  BY TypeStep DEF RemoteInv
<1> USE <1>a DEF RemoteInv, AgreeUnlessIgnored
<1>b. lockState \in Positions /\ target["app"] \in Positions /\ target["chip"] \in Positions
  BY DEF TypeOK, Threads
<1>c. pc \in [Threads -> PCs] /\ target \in [Threads -> Positions]
  BY DEF TypeOK
<1> USE <1>b, <1>c
<1>1. ASSUME NEW p \in Positions, RemoteCommand(p) PROVE RemoteInv'
  BY <1>1 DEF RemoteCommand, Goto, Threads
<1>2. ASSUME NEW p \in Positions, StartLockAction(p) PROVE RemoteInv'
  BY <1>2 DEF StartLockAction
<1>3. ASSUME NEW t \in Threads, InitiateAction(t) PROVE RemoteInv'
  <2>1. t = "chip"
    BY <1>3 DEF InitiateAction, CheckState, StartTimer, UpdateState, ActionInitiated, Threads
  <2>2. CASE CheckState("chip")
    <3>1. lockState' = lockState /\ mState' = mState /\ target' = target
      BY <2>2 DEF CheckState
    <3>2. mState \in {Completed(lockState), Completed(Other(lockState)),
                      Initiated(lockState), Initiated(Other(lockState))}
      BY DEF TypeOK, States, Positions, Completed, Initiated, Other
    <3>3. Completed(Other(lockState)) # Initiated(Other(lockState))
      BY StatesDiffer
    <3> QED BY <2>2, <3>1, <3>2, <3>3 DEF CheckState, MayInitiate, Goto, Threads
  <2>3. CASE StartTimer("chip")
    BY <2>3 DEF StartTimer, Goto, Threads
  <2>4. CASE UpdateState("chip")
    <3>1. Completed(Other(lockState)) # Initiated(target["app"])
      BY StatesDiffer
    <3> QED BY <2>4, <3>1 DEF UpdateState, Goto, Threads
  <2>5. CASE ActionInitiated("chip")
    BY <2>5 DEF ActionInitiated, ButtonActor, Goto, Threads
  <2> QED BY <1>3, <2>1, <2>2, <2>3, <2>4, <2>5 DEF InitiateAction
<1>4. CASE TimerExpires
  BY <1>4 DEF TimerExpires
<1>5. ASSUME NEW e \in Events, OtherEvent(e) PROVE RemoteInv'
  BY <1>5 DEF OtherEvent
<1>6. CASE AppStep
  <2>1. CASE TakeEvent
    <3>1. /\ pc'["app"] \in {"idle", "timer"} /\ pc'["chip"] = pc["chip"] /\ pc'["display"] = pc["display"]
          /\ UNCHANGED <<mState, lockState, mSync, work, target, ignored>>
      BY <2>1 DEF TakeEvent, HandlerOf, Goto, Threads
    <3> QED BY <3>1
  <2>2. CASE ShortPress
    BY <2>2 DEF ShortPress
  <2>3. CASE ChooseCompletion
    <3>1. IsActionInProgress => mState = Initiated(IF mState = "LockInitiated" THEN "Locked" ELSE "Unlocked")
      BY DEF IsActionInProgress, Initiated
    <3> QED BY <2>3, <3>1 DEF ChooseCompletion, HasBranch, Goto, Threads
  <2>4. CASE CompleteAction
    <3>1. mState = Initiated(target["app"]) /\ mState' = Completed(target["app"])
      BY <2>4 DEF CompleteAction
    <3>2. pc["chip"] \notin {"start", "set"}
      BY <3>1, StatesDiffer
    <3>3. mState \in {Completed(lockState), Initiated(lockState)} => target["app"] = lockState
      BY <3>1, StatesDiffer
    <3> QED BY <2>4, <3>1, <3>2, <3>3 DEF CompleteAction, Goto, Threads
  <2>5. CASE ActionCompleted
    BY <2>5 DEF ActionCompleted, Goto, Threads
  <2>6. CASE ClearSync
    BY <2>6 DEF ClearSync
  <2> QED BY <1>6, <2>1, <2>2, <2>3, <2>4, <2>5, <2>6 DEF AppStep
<1>7. CASE ChipStep
  BY <1>7 DEF ChipStep, UpdateCluster, SetLockState
<1>8. CASE UNCHANGED vars
  BY <1>8 DEF vars
<1> QED BY <1>1, <1>2, <1>3, <1>4, <1>5, <1>6, <1>7, <1>8 DEF Next

(* In the default build the attribute is where the door is, or where it is *)
(* moving to, unless the last command was refused because the opposite     *)
(* movement was in progress (ZclCallbacks.cpp).                            *)
THEOREM RemoteAgreement ==
    ASSUME LocalThreads = {}
    PROVE  Spec => []AgreeUnlessIgnored
<1>1. RemoteInv /\ [Next]_vars => RemoteInv'
  BY RemoteStep
<1>2. RemoteInv => AgreeUnlessIgnored
  BY DEF RemoteInv
<1> QED BY RemoteInit, <1>1, <1>2, PTL DEF Spec

(* In the default build every step of the lock is a step of the door.      *)
LEMMA RemoteDoorStep ==
    ASSUME LocalThreads = {}, RemoteInv, [Next]_vars
    PROVE  [Door!Next]_(Door!vars)
<1>1. \A t \in Threads : target[t] \in Positions
  BY DEF RemoteInv, TypeOK
<1>2. CASE mState' = mState
  BY <1>2, DoorStutter
<1>3. CASE CompleteAction
  BY <1>1, <1>3, DoorArrive DEF RemoteInv, CompleteAction, Threads
<1>4. ASSUME NEW t \in Threads, UpdateState(t) PROVE [Door!Next]_(Door!vars)
  <2>1. t = "chip"
    BY <1>4 DEF RemoteInv, UpdateState, Threads
  <2> QED BY <1>1, <1>4, <2>1, DoorStart DEF RemoteInv, UpdateState
<1> QED BY <1>2, <1>3, <1>4, StateChanges

(* In the default build the lock moves only as the door may, even if a     *)
(* handler is held for longer than the timer runs.                         *)
THEOREM RemoteLockImplementsDoor ==
    ASSUME LocalThreads = {}
    PROVE  Spec => ImplementsDoor
<1>1. RemoteInv /\ [Next]_vars => RemoteInv'
  BY RemoteStep
<1>2. RemoteInv /\ [Next]_vars => [Door!Next]_(Door!vars)
  BY RemoteDoorStep
<1> QED BY DoorInit, RemoteInit, <1>1, <1>2, PTL DEF Spec, ImplementsDoor, Door!Spec

-----------------------------------------------------------------------------
(***************************************************************************)
(* The button build without remote commands.  Again nothing is assumed     *)
(* about how long a handler takes.                                         *)
(***************************************************************************)

(* What happens when no remote command comes.                              *)
LocalStep ==
    \/ \E p \in Positions : StartLockAction(p)
    \/ \E t \in Threads : InitiateAction(t)
    \/ TimerExpires
    \/ \E e \in Events : OtherEvent(e)
    \/ AppStep
    \/ ChipStep

(* The LockState attribute, or what the Matter event loop is about to make *)
(* of it.                                                                  *)
ComingState == IF pc["chip"] = "write" THEN target["chip"] ELSE lockState

(* The application task alone starts and ends movements, so that mState is *)
(* what its handler has found; it raises the sync flag for each; and when  *)
(* the door is at rest, a call that samples mState is still scheduled or   *)
(* the attribute is, or is about to be, where the door is.                 *)
ButtonInv ==
    /\ TypeOK
    /\ pc["display"] = "idle" /\ pc["chip"] \in {"idle", "write"}
    /\ pc["app"] \in {"start", "set"} => mState = Completed(Other(target["app"]))
    /\ pc["app"] = "callback" => mState = Initiated(target["app"])
    /\ pc["app"] = "complete" => mState = Initiated(target["app"])
    /\ pc["app"] \in {"report", "clear"} => ~IsActionInProgress
    /\ IsActionInProgress /\ pc["app"] # "callback" => mSync
    /\ pc["app"] = "report" => mSync
    /\ ~IsActionInProgress /\ pc["app"] # "report" /\ work = 0 => ComingState = DoorPosition

(* It holds at the start.                                                  *)
LEMMA ButtonStart == Init => ButtonInv
<1> SUFFICES ASSUME Init PROVE ButtonInv
  OBVIOUS
<1>1. ~IsActionInProgress
  BY InProgress DEF Init
<1>2. DoorPosition = lockState
  BY DoorOfState DEF Init
<1> QED BY TypeInit, <1>1, <1>2 DEF Init, ButtonInv, ComingState, Threads

(* Every step but a remote command keeps it.                               *)
LEMMA ButtonStep ==
    ASSUME "display" \notin LocalThreads, ButtonInv, LocalStep \/ UNCHANGED vars
    PROVE  ButtonInv'
<1>a. TypeOK'
  BY TypeStep DEF ButtonInv, LocalStep, Next
<1>b. /\ pc \in [Threads -> PCs] /\ target \in [Threads -> Positions] /\ mState \in States
      /\ target["app"] \in Positions /\ "app" \in Threads /\ "chip" \in Threads /\ "display" \in Threads
      /\ work \in Nat
  BY DEF ButtonInv, TypeOK, Threads
<1> USE <1>a, <1>b DEF ButtonInv
<1>1. ASSUME NEW p \in Positions, StartLockAction(p) PROVE ButtonInv'
  BY <1>1 DEF StartLockAction
<1>2. ASSUME NEW t \in Threads, InitiateAction(t) PROVE ButtonInv'
  <2>1. t = "app"
    BY <1>2 DEF InitiateAction, CheckState, StartTimer, UpdateState, ActionInitiated, Threads
  <2>2. CASE CheckState("app")
    BY <2>2 DEF CheckState, MayInitiate, Goto, IsActionInProgress, ComingState, DoorPosition
  <2>3. CASE StartTimer("app")
    BY <2>3 DEF StartTimer, Goto, IsActionInProgress, ComingState, DoorPosition
  <2>4. CASE UpdateState("app")
    <3>1. IsActionInProgress'
      BY <2>4 DEF UpdateState, IsActionInProgress, Initiated
    <3> QED BY <2>4, <3>1 DEF UpdateState, Goto
  <2>5. CASE ActionInitiated("app")
    <3>1. IsActionInProgress
      BY <2>5, InProgress DEF ActionInitiated
    <3> QED BY <2>5, <3>1 DEF ActionInitiated, ButtonActor, Goto, IsActionInProgress
  <2> QED BY <1>2, <2>1, <2>2, <2>3, <2>4, <2>5 DEF InitiateAction
<1>3. CASE TimerExpires
  BY <1>3 DEF TimerExpires, IsActionInProgress, ComingState, DoorPosition
<1>4. ASSUME NEW e \in Events, OtherEvent(e) PROVE ButtonInv'
  BY <1>4 DEF OtherEvent, IsActionInProgress, ComingState, DoorPosition
<1>5. CASE AppStep
  <2>1. CASE TakeEvent
    BY <2>1 DEF TakeEvent, HandlerOf, Goto, IsActionInProgress, ComingState, DoorPosition
  <2>2. CASE ShortPress
    BY <2>2 DEF ShortPress, Goto, IsActionInProgress, ComingState, DoorPosition
  <2>3. CASE ChooseCompletion
    <3>1. IsActionInProgress => mState = Initiated(IF mState = "LockInitiated" THEN "Locked" ELSE "Unlocked")
      BY DEF IsActionInProgress, Initiated
    <3> QED BY <2>3, <3>1 DEF ChooseCompletion, HasBranch, Goto, IsActionInProgress, ComingState, DoorPosition
  <2>4. CASE CompleteAction
    <3>1. IsActionInProgress /\ ~IsActionInProgress'
      BY <2>4, InProgress DEF CompleteAction, IsActionInProgress, Completed
    <3> QED BY <2>4, <3>1 DEF CompleteAction, Goto
  <2>5. CASE ActionCompleted
    <3>1. work' > 0 /\ pc'["app"] = "clear" /\ pc'["chip"] = pc["chip"] /\ pc'["display"] = pc["display"]
      BY <2>5, ConstantsAssumption DEF ActionCompleted, Goto
    <3> QED BY <2>5, <3>1 DEF ActionCompleted, IsActionInProgress
  <2>6. CASE ClearSync
    BY <2>6 DEF ClearSync, Goto, IsActionInProgress, ComingState, DoorPosition
  <2> QED BY <1>5, <2>1, <2>2, <2>3, <2>4, <2>5, <2>6 DEF AppStep
<1>6. CASE ChipStep
  <2>1. CASE UpdateCluster
    <3>1. ~IsActionInProgress => SampledState = DoorPosition
      BY DEF IsActionInProgress, SampledState, NextState, DoorPosition, States
    <3>2. /\ pc'["chip"] = "write" /\ target'["chip"] = SampledState
          /\ pc'["app"] = pc["app"] /\ target'["app"] = target["app"] /\ pc'["display"] = pc["display"]
          /\ UNCHANGED <<mState, mSync>>
      BY <2>1 DEF UpdateCluster, Goto, Threads
    <3> QED BY <3>1, <3>2 DEF IsActionInProgress, ComingState, DoorPosition
  <2>2. CASE SetLockState
    BY <2>2 DEF SetLockState, Goto, Threads, IsActionInProgress, ComingState, DoorPosition
  <2> QED BY <1>6, <2>1, <2>2 DEF ChipStep
<1>7. CASE UNCHANGED vars
  BY <1>7 DEF vars, IsActionInProgress, ComingState, DoorPosition
<1> QED BY <1>1, <1>2, <1>3, <1>4, <1>5, <1>6, <1>7 DEF LocalStep

(* With the button as the only initiator the attribute agrees with the     *)
(* door at rest, for any queue sizes, even if updates are dropped because  *)
(* the work queue is full and however late they sample mState              *)
(* (ActionCompleted, UpdateCluster).  With remote commands it need not:    *)
(* run lock_overlap.                                                       *)
THEOREM ButtonAgreement ==
    ASSUME RemoteTargets = {}, "display" \notin LocalThreads
    PROVE  Spec => []AgreeAtRest
<1>1. ButtonInv /\ [Next]_vars => ButtonInv'
  BY ButtonStep DEF Next, LocalStep, RemoteCommand
<1>2. ButtonInv => AgreeAtRest
  BY DEF ButtonInv, AgreeAtRest, AtRest, ComingState, Threads
<1> QED BY ButtonStart, <1>1, <1>2, PTL DEF Spec

(* An arrival that the attribute does not show yet has its update on the   *)
(* way: ActionCompleted raises no false hope by clearing its flag, and a   *)
(* full work queue holds calls that do as well as the one it drops         *)
(* (ActionCompleted, UpdateCluster).  That it then comes is liveness.      *)
THEOREM ButtonReports ==
    ASSUME RemoteTargets = {}, "display" \notin LocalThreads
    PROVE  Spec => []ArrivalIsOnItsWay
<1>1. ButtonInv /\ [Next]_vars => ButtonInv'
  BY ButtonStep DEF Next, LocalStep, RemoteCommand
<1>2. ButtonInv => ArrivalIsOnItsWay
  BY DEF ButtonInv, TypeOK, ArrivalIsOnItsWay, ComingState
<1> QED BY ButtonStart, <1>1, <1>2, PTL DEF Spec

(* In the button build every step of the lock is a step of the door.       *)
LEMMA ButtonDoorStep ==
    ASSUME ButtonInv, [Next]_vars
    PROVE  [Door!Next]_(Door!vars)
<1>1. \A t \in Threads : target[t] \in Positions
  BY DEF ButtonInv, TypeOK
<1>2. CASE mState' = mState
  BY <1>2, DoorStutter
<1>3. CASE CompleteAction
  BY <1>1, <1>3, DoorArrive DEF ButtonInv, CompleteAction, Threads
<1>4. ASSUME NEW t \in Threads, UpdateState(t) PROVE [Door!Next]_(Door!vars)
  <2>1. t = "app"
    BY <1>4 DEF ButtonInv, UpdateState, Threads
  <2> QED BY <1>1, <1>4, <2>1, DoorStart DEF ButtonInv, UpdateState
<1> QED BY <1>2, <1>3, <1>4, StateChanges

(* There, too, the lock moves only as the door may, even if a handler is   *)
(* held for longer than the timer runs: a press and the expiry of the      *)
(* timer are handled by the one task, one after the other.                 *)
THEOREM ButtonLockImplementsDoor ==
    ASSUME RemoteTargets = {}, "display" \notin LocalThreads
    PROVE  Spec => ImplementsDoor
<1>1. ButtonInv /\ [Next]_vars => ButtonInv'
  BY ButtonStep DEF Next, LocalStep, RemoteCommand
<1>2. ButtonInv /\ [Next]_vars => [Door!Next]_(Door!vars)
  BY ButtonDoorStep
<1> QED BY DoorInit, ButtonStart, <1>1, <1>2, PTL DEF Spec, ImplementsDoor, Door!Spec

(* The end of a movement is coming: the timer runs, its event is queued,   *)
(* or the event was dropped.                                               *)
EndIsComing == armed \/ lost \/ \E i \in DOMAIN queue : queue[i] = "timer"

(* In the button build that is so before mState shows the movement: the    *)
(* task that starts it is the one that takes the event of its timer.       *)
ButtonTimedInv ==
    /\ pc["app"] = "set" => EndIsComing
    /\ IsActionInProgress => EndIsComing \/ pc["app"] \in {"timer", "complete"}

(* An event that is posted does not disturb those queued.                  *)
LEMMA PostKeepsEnd ==
    ASSUME TypeOK, EndIsComing, NEW e \in Events, PostEvent(e), armed' = armed, lost' = lost
    PROVE  EndIsComing'
<1>1. \A i \in DOMAIN queue : i \in DOMAIN queue' /\ queue'[i] = queue[i]
  BY PostEventEntries DEF TypeOK
<1> QED BY <1>1 DEF EndIsComing

(* Taking an event leaves the end coming, unless it is what is taken.      *)
LEMMA TakeKeepsEnd ==
    ASSUME TypeOK, EndIsComing, TakeEvent
    PROVE  EndIsComing' \/ pc'["app"] = "timer"
<1>1. /\ queue # <<>> /\ queue' = Tail(queue) /\ armed' = armed /\ lost' = lost
      /\ pc' = [pc EXCEPT !["app"] = HandlerOf(Head(queue))]
  BY DEF TakeEvent, Goto
<1>2. pc'["app"] = HandlerOf(Head(queue))
  BY <1>1 DEF TypeOK, Threads
<1>3. CASE Head(queue) = "timer"
  BY <1>2, <1>3 DEF HandlerOf
<1>4. CASE Head(queue) # "timer"
  <2>1. \A i \in DOMAIN queue : queue[i] = "timer" => i - 1 \in DOMAIN queue' /\ queue'[i - 1] = queue[i]
    BY <1>1, <1>4, TailEntries DEF TypeOK
  <2> QED BY <1>1, <2>1 DEF EndIsComing
<1> QED BY <1>3, <1>4

(* Every step but a remote command keeps it.                               *)
LEMMA ButtonTimedStep ==
    ASSUME "display" \notin LocalThreads, ButtonInv, ButtonTimedInv, LocalStep \/ UNCHANGED vars
    PROVE  ButtonTimedInv'
<1>a. /\ TypeOK /\ pc["display"] = "idle" /\ pc["chip"] \in {"idle", "write"}
      /\ pc \in [Threads -> PCs] /\ "app" \in Threads
  BY DEF ButtonInv, TypeOK, Threads
<1>1. ASSUME NEW t \in Threads, InitiateAction(t) PROVE ButtonTimedInv'
  <2>1. t = "app"
    BY <1>a, <1>1 DEF InitiateAction, CheckState, StartTimer, UpdateState, ActionInitiated, Threads
  <2>2. CASE CheckState("app")
    BY <1>a, <2>2 DEF CheckState, Goto, ButtonTimedInv, EndIsComing, IsActionInProgress
  <2>3. CASE StartTimer("app")
    BY <2>3 DEF StartTimer, ButtonTimedInv, EndIsComing
  <2>4. CASE UpdateState("app")
    <3>1. EndIsComing' /\ pc'["app"] = "callback"
      BY <1>a, <2>4 DEF UpdateState, Goto, ButtonTimedInv, EndIsComing
    <3> QED BY <3>1 DEF ButtonTimedInv
  <2>5. CASE ActionInitiated("app")
    BY <1>a, <2>5 DEF ActionInitiated, Goto, ButtonTimedInv, EndIsComing, IsActionInProgress
  <2> QED BY <1>1, <2>1, <2>2, <2>3, <2>4, <2>5 DEF InitiateAction
<1>2. CASE TimerExpires
  <2>1. PostEvent("timer") /\ lost' = (lost \/ ~HasRoom) /\ "timer" \in Events
    BY <1>2 DEF TimerExpires, Events
  <2>2. HasRoom => \E i \in DOMAIN queue' : queue'[i] = "timer"
    BY <1>a, <2>1, PostEventEntries DEF TypeOK
  <2>3. EndIsComing'
    BY <2>1, <2>2 DEF EndIsComing
  <2> QED BY <2>3 DEF ButtonTimedInv
<1>3. ASSUME NEW e \in Events, OtherEvent(e) PROVE ButtonTimedInv'
  <2>1. PostEvent(e) /\ UNCHANGED <<mState, armed, pc, lost>>
    BY <1>3 DEF OtherEvent
  <2>2. EndIsComing => EndIsComing'
    BY <1>a, <2>1, PostKeepsEnd
  <2> QED BY <2>1, <2>2 DEF ButtonTimedInv, IsActionInProgress
<1>4. CASE AppStep
  <2>1. CASE TakeEvent
    <3>1. mState' = mState /\ pc["app"] = "idle" /\ pc'["app"] # "set"
      BY <1>a, <2>1 DEF TakeEvent, Goto, HandlerOf
    <3>2. EndIsComing => EndIsComing' \/ pc'["app"] = "timer"
      BY <1>a, <2>1, TakeKeepsEnd
    <3> QED BY <3>1, <3>2 DEF ButtonTimedInv, IsActionInProgress
  <2>2. CASE ShortPress \/ ActionCompleted \/ ClearSync
    <3>1. UNCHANGED <<mState, armed, queue, lost>> /\ pc["app"] \in {"press", "report", "clear"}
      BY <2>2 DEF ShortPress, ActionCompleted, ClearSync
    <3>2. pc'["app"] # "set"
      BY <1>a, <2>2 DEF ShortPress, ActionCompleted, ClearSync, Goto
    <3> QED BY <3>1, <3>2 DEF ButtonTimedInv, EndIsComing, IsActionInProgress
  <2>3. CASE ChooseCompletion
    <3>1. UNCHANGED <<mState, armed, queue, lost>>
      BY <2>3 DEF ChooseCompletion
    <3>2. pc'["app"] # "set" /\ (IsActionInProgress => pc'["app"] = "complete")
      BY <1>a, <2>3 DEF ChooseCompletion, HasBranch, Goto
    <3> QED BY <3>1, <3>2 DEF ButtonTimedInv, IsActionInProgress
  <2>4. CASE CompleteAction
    <3>1. ~IsActionInProgress' /\ pc'["app"] # "set"
      BY <1>a, <2>4 DEF CompleteAction, Goto, Completed, IsActionInProgress
    <3> QED BY <3>1 DEF ButtonTimedInv
  <2> QED BY <1>4, <2>1, <2>2, <2>3, <2>4 DEF AppStep
<1>5. CASE ChipStep
  <2>1. UNCHANGED <<mState, armed, queue, lost>> /\ pc'["app"] = pc["app"]
    BY <1>a, <1>5 DEF ChipStep, UpdateCluster, SetLockState, Goto
  <2> QED BY <2>1 DEF ButtonTimedInv, EndIsComing, IsActionInProgress
<1>6. CASE UNCHANGED vars
  BY <1>6 DEF vars, ButtonTimedInv, EndIsComing, IsActionInProgress
<1> QED BY <1>1, <1>2, <1>3, <1>4, <1>5, <1>6 DEF LocalStep, StartLockAction

(* In the button build a movement has its timer or its event even if the   *)
(* task is held for longer than the timer runs: between StartTimer and the *)
(* write of mState nobody else takes the event (InitiateAction).  A remote *)
(* command has no such protection, which is what Prompt is for.            *)
THEOREM ButtonMovementIsTimed ==
    ASSUME RemoteTargets = {}, "display" \notin LocalThreads
    PROVE  Spec => []MoveIsTimed
<1>1. Init => ButtonTimedInv
  BY InProgress DEF Init, ButtonTimedInv, Threads
<1>2. ButtonInv /\ ButtonTimedInv /\ [Next]_vars => ButtonInv' /\ ButtonTimedInv'
  BY ButtonStep, ButtonTimedStep DEF Next, LocalStep, RemoteCommand
<1>3. ButtonTimedInv => MoveIsTimed
  BY DEF ButtonTimedInv, EndIsComing, MoveIsTimed, CompletionPending
<1> QED BY ButtonStart, <1>1, <1>2, <1>3, PTL DEF Spec
=============================================================================
