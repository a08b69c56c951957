-------------------------- MODULE LockRestartProofs --------------------------
(***************************************************************************)
(* Proofs about LockRestart, for every size of the queues:                 *)
(*   - in the default build, where only remote commands move the door, and *)
(*     in the build with the button as long as no remote command comes,    *)
(*     with handlers held for any time;                                    *)
(*   - with any threads moving the door, if handlers are Prompt.           *)
(***************************************************************************)
EXTENDS LockRestart, LockManagerProofs

(* What holds of the lock holds again after a restart, because a restart   *)
(* leads to one of its initial states.                                     *)
LEMMA BootIsInit ==
    ASSUME NEW p \in Positions, Boot(p)
    PROVE  Init' /\ mState' = Completed(p)
  BY DEF Boot, BootState, Init, Completed, Positions, vars

(* The invariant: the lock's own, and what the lock knows of the door.     *)
KnowsInv == RemoteInv /\ KnowsDoor

(* It holds when the lock starts for the first time.                       *)
LEMMA KnowsInit == ASSUME LocalThreads = {} PROVE RestartInit => KnowsInv
  BY RemoteInit DEF RestartInit, KnowsInv, KnowsDoor, Init, Positions, Completed, DoorPosition

(* A step of the lock: the door follows, by what the steps of the abstract *)
(* door can be.                                                            *)
LEMMA LockStepKeeps ==
    ASSUME LocalThreads = {}, KnowsInv, LockStep
    PROVE  KnowsInv'
<1>1. RemoteInv'
  BY RemoteStep DEF KnowsInv, LockStep
<1>2. mState \in States /\ mState' \in States
  BY <1>1 DEF KnowsInv, RemoteInv, TypeOK
<1>3. [Door!Next]_(Door!vars)
  BY RemoteDoorStep DEF KnowsInv, LockStep
<1>4. KnowsDoor'
  <2>1. CASE Arrives
    BY <1>2, <2>1 DEF LockStep, DoorFollows, Arrives, KnowsDoor, DoorPosition, States
  <2>2. CASE ~Arrives
    <3>1. DoorPosition' = DoorPosition
      BY <1>2, <1>3, <2>2 DEF Arrives, IsActionInProgress, States, Door!Next, Door!vars,
                              Door!Arrive, Door!Start, DoorHeading, DoorPosition
    <3> QED BY <2>2, <3>1 DEF LockStep, DoorFollows, KnowsInv, KnowsDoor
  <2> QED BY <2>1, <2>2
<1> QED BY <1>1, <1>4 DEF KnowsInv

(* A restart, at rest or not, with the attribute as it is.                 *)
LEMMA RestartKeeps ==
    ASSUME LocalThreads = {}, KnowsInv, Restart
    PROVE  KnowsInv'
<1>1. lockState \in Positions /\ mState \in States
  BY DEF KnowsInv, RemoteInv, TypeOK
<1>2. Init' /\ mState' = Completed(lockState)
  BY <1>1, BootIsInit DEF Restart
<1>3. RemoteInv'
  BY <1>2, RemoteInit, PTL
<1>4. ASSUME ~unsure' PROVE door' = DoorPosition'
  <2>1. ~unsure /\ ~ignored /\ AtRest
    BY <1>4 DEF Restart
  <2>2. mState = Completed(lockState)
    BY <1>1, <2>1 DEF KnowsInv, RemoteInv, AgreeUnlessIgnored, AtRest, IsActionInProgress,
                      Initiated, Completed, Threads
  <2>3. door' = door /\ DoorPosition' = DoorPosition
    BY <1>2, <2>1, <2>2 DEF Restart, DoorStops, AtRest, DoorPosition
  <2> QED BY <2>1, <2>3 DEF KnowsInv, KnowsDoor
<1> QED BY <1>3, <1>4 DEF KnowsInv, KnowsDoor

(* A restart after a factory reset.                                        *)
LEMMA EraseKeeps ==
    ASSUME LocalThreads = {}, KnowsInv, EraseAndRestart
    PROVE  KnowsInv'
<1>1. Init' /\ mState' = "LockCompleted"
  BY BootIsInit DEF EraseAndRestart, DefaultLockState, Positions, Completed
<1>2. RemoteInv'
  BY <1>1, RemoteInit, PTL
<1>3. ASSUME ~unsure' PROVE door' = DoorPosition'
  <2>1. ~unsure /\ AtRest /\ DoorPosition = "Locked"
    BY <1>3 DEF EraseAndRestart, DefaultLockState
  <2> QED BY <1>1, <2>1 DEF EraseAndRestart, DoorStops, AtRest, KnowsInv, KnowsDoor, DoorPosition
<1> QED BY <1>2, <1>3 DEF KnowsInv, KnowsDoor

(* Every step keeps it.                                                    *)
LEMMA KnowsStep ==
    ASSUME LocalThreads = {}, KnowsInv, [RestartNext]_restartVars
    PROVE  KnowsInv'
<1>1. CASE UNCHANGED restartVars
  <2>1. RemoteInv'
    BY <1>1, RemoteStep DEF KnowsInv, restartVars
  <2> QED BY <1>1, <2>1 DEF KnowsInv, restartVars, vars, KnowsDoor, DoorPosition
<1> QED BY <1>1, LockStepKeeps, RestartKeeps, EraseKeeps DEF RestartNext

(* The lock knows where its door is, through restarts at any moment, but   *)
(* for those that the firmware cannot know about (LockManager::Init).      *)
THEOREM LockKnowsDoor ==
    ASSUME LocalThreads = {}
    PROVE  RestartSpec => []KnowsDoor
<1>1. KnowsInv /\ [RestartNext]_restartVars => KnowsInv'
  BY KnowsStep
<1>2. KnowsInv => KnowsDoor
  BY DEF KnowsInv
<1> QED BY KnowsInit, <1>1, <1>2, PTL DEF RestartSpec

(* Restarts do not disturb what remote commands keep: at all times the     *)
(* attribute is where the door is taken to be or where it is moving to,    *)
(* unless the last command was refused.                                    *)
THEOREM AgreementThroughRestarts ==
    ASSUME LocalThreads = {}
    PROVE  RestartSpec => []AgreeUnlessIgnored
<1>1. KnowsInv /\ [RestartNext]_restartVars => KnowsInv'
  BY KnowsStep
<1>2. KnowsInv => AgreeUnlessIgnored
  BY DEF KnowsInv, RemoteInv
<1> QED BY KnowsInit, <1>1, <1>2, PTL DEF RestartSpec

-----------------------------------------------------------------------------
(***************************************************************************)
(* The build with the button and no remote command.                        *)
(***************************************************************************)

(* The invariant: that of the build with the button, and what the lock     *)
(* knows of the door.                                                      *)
ButtonKnowsInv == ButtonInv /\ KnowsDoor

(* It holds when the lock starts for the first time.                       *)
LEMMA ButtonKnowsInit == RestartInit => ButtonKnowsInv
  BY ButtonStart DEF RestartInit, ButtonKnowsInv, KnowsDoor, Init, Positions, Completed, DoorPosition

(* Without remote commands every step of the lock is a local one.          *)
LEMMA StepIsLocal ==
    ASSUME RemoteTargets = {}, "display" \notin LocalThreads, Next
    PROVE  LocalStep
  BY DEF Next, LocalStep, RemoteCommand, StartLockAction

(* A step of the lock: a movement starts from where the door is, and only  *)
(* its completion brings the door somewhere else.                          *)
LEMMA ButtonLockStepKeeps ==
    ASSUME RemoteTargets = {}, "display" \notin LocalThreads, ButtonKnowsInv, LockStep
    PROVE  ButtonKnowsInv'
<1>a. Next /\ ButtonInv /\ KnowsDoor
  BY DEF LockStep, ButtonKnowsInv
<1>1. ButtonInv'
  BY <1>a, StepIsLocal, ButtonStep
<1>2. mState \in States /\ mState' \in States
  BY <1>a, <1>1 DEF ButtonInv, TypeOK
<1>3. KnowsDoor'
  <2>1. CASE Arrives
    BY <1>2, <2>1 DEF LockStep, DoorFollows, Arrives, KnowsDoor, DoorPosition, States
  <2>2. CASE ~Arrives
    <3>1. [Door!Next]_(Door!vars)
      BY <1>a, ButtonDoorStep
    <3>2. DoorPosition' = DoorPosition
      BY <1>2, <2>2, <3>1 DEF Arrives, IsActionInProgress, States, Door!Next, Door!vars,
                              Door!Arrive, Door!Start, DoorHeading, DoorPosition
    <3> QED BY <1>a, <2>2, <3>2 DEF LockStep, DoorFollows, KnowsDoor
  <2> QED BY <2>1, <2>2
<1> QED BY <1>1, <1>3 DEF ButtonKnowsInv

(* A restart: at rest the attribute is where the door is, so that the lock *)
(* starts with what it knew.                                               *)
LEMMA ButtonRestartKeeps ==
    ASSUME ButtonKnowsInv, Restart
    PROVE  ButtonKnowsInv'
<1>1. lockState \in Positions /\ mState \in States
  BY DEF ButtonKnowsInv, ButtonInv, TypeOK
<1>2. Init' /\ mState' = Completed(lockState)
  BY <1>1, BootIsInit DEF Restart
<1>3. ButtonInv'
  BY <1>2, ButtonStart, PTL
<1>4. ASSUME ~unsure' PROVE door' = DoorPosition'
  <2>1. ~unsure /\ AtRest
    BY <1>4 DEF Restart
  <2>2. lockState = DoorPosition
    BY <2>1 DEF ButtonKnowsInv, ButtonInv, AtRest, ComingState, Threads
  <2>3. DoorPosition' = lockState
    BY <1>1, <1>2 DEF DoorPosition, Completed, Positions
  <2>4. door' = door
    BY <2>1 DEF Restart, DoorStops, AtRest
  <2> QED BY <2>1, <2>2, <2>3, <2>4 DEF ButtonKnowsInv, KnowsDoor
<1> QED BY <1>3, <1>4 DEF ButtonKnowsInv, KnowsDoor

(* A restart after a factory reset.                                        *)
LEMMA ButtonEraseKeeps ==
    ASSUME ButtonKnowsInv, EraseAndRestart
    PROVE  ButtonKnowsInv'
<1>1. Init' /\ mState' = "LockCompleted"
  BY BootIsInit DEF EraseAndRestart, DefaultLockState, Positions, Completed
<1>2. ButtonInv'
  BY <1>1, ButtonStart, PTL
<1>3. ASSUME ~unsure' PROVE door' = DoorPosition'
  <2>1. ~unsure /\ AtRest /\ DoorPosition = "Locked"
    BY <1>3 DEF EraseAndRestart, DefaultLockState
  <2> QED BY <1>1, <2>1 DEF EraseAndRestart, DoorStops, AtRest, ButtonKnowsInv, KnowsDoor, DoorPosition
<1> QED BY <1>2, <1>3 DEF ButtonKnowsInv, KnowsDoor

(* Every step keeps it.                                                    *)
LEMMA ButtonKnowsStep ==
    ASSUME RemoteTargets = {}, "display" \notin LocalThreads,
           ButtonKnowsInv, [RestartNext]_restartVars
    PROVE  ButtonKnowsInv'
<1>1. CASE UNCHANGED restartVars
  <2>1. UNCHANGED <<vars, door, unsure>>
    BY <1>1 DEF restartVars
  <2>2. ButtonInv'
    BY <2>1, ButtonStep DEF ButtonKnowsInv
  <2> QED BY <2>1, <2>2 DEF ButtonKnowsInv, vars, KnowsDoor, DoorPosition
<1> QED BY <1>1, ButtonLockStepKeeps, ButtonRestartKeeps, ButtonEraseKeeps DEF RestartNext

(* The lock with the button knows where its door is, through restarts at   *)
(* any moment: UpdateCluster has brought the attribute in flash to where   *)
(* the door is before all is at rest (LockManager::Init, UpdateCluster).   *)
THEOREM ButtonKnowsDoor ==
    ASSUME RemoteTargets = {}, "display" \notin LocalThreads
    PROVE  RestartSpec => []KnowsDoor
<1>1. ButtonKnowsInv /\ [RestartNext]_restartVars => ButtonKnowsInv'
  BY ButtonKnowsStep
<1>2. ButtonKnowsInv => KnowsDoor
  BY DEF ButtonKnowsInv
<1> QED BY ButtonKnowsInit, <1>1, <1>2, PTL DEF RestartSpec

(* And controllers read where it is whenever all is at rest, restarts and  *)
(* updates dropped by a full work queue notwithstanding.                   *)
THEOREM ButtonAgreementThroughRestarts ==
    ASSUME RemoteTargets = {}, "display" \notin LocalThreads
    PROVE  RestartSpec => []AgreeAtRest
<1>1. ButtonKnowsInv /\ [RestartNext]_restartVars => ButtonKnowsInv'
  BY ButtonKnowsStep
<1>2. ButtonKnowsInv => AgreeAtRest
  BY DEF ButtonKnowsInv, ButtonInv, AgreeAtRest, AtRest, ComingState, Threads
<1> QED BY ButtonKnowsInit, <1>1, <1>2, PTL DEF RestartSpec

-----------------------------------------------------------------------------
(***************************************************************************)
(* Any threads, with Prompt handlers.                                      *)
(***************************************************************************)

(* A restart forgets the timer, the queue and the handlers of a movement   *)
(* together with the movement.                                             *)
LEMMA RestartMoveStep ==
    ASSUME Prompt, MoveInv, [RestartNext]_restartVars
    PROVE  MoveInv'
<1>1. CASE LockStep
  BY <1>1, MoveStep DEF LockStep
<1>2. CASE Restart
  <2>1. lockState \in Positions
    BY DEF MoveInv, TypeOK
  <2>2. Init'
    BY <1>2, <2>1, BootIsInit DEF Restart
  <2> QED BY <2>2, MoveInit, PTL
<1>3. CASE EraseAndRestart
  <2>1. Init'
    BY <1>3, BootIsInit DEF EraseAndRestart, DefaultLockState, Positions
  <2> QED BY <2>1, MoveInit, PTL
<1>4. CASE UNCHANGED restartVars
  <2>1. UNCHANGED vars
    BY <1>4 DEF restartVars
  <2> QED BY <2>1, MoveStep
<1> QED BY <1>1, <1>2, <1>3, <1>4 DEF RestartNext

(* No restart leaves a completion event without its movement, a movement   *)
(* without its timer, or two threads that disagree: the three properties   *)
(* of a movement hold through restarts at any moment, for any threads.     *)
THEOREM MovesThroughRestarts ==
    ASSUME Prompt
    PROVE  RestartSpec => [](OneCompletionPerMove /\ MoveIsTimed /\ InitiatorsAgree)
<1>1. MoveInv /\ [RestartNext]_restartVars => MoveInv'
  BY RestartMoveStep
<1>2. RestartInit => MoveInv
  BY MoveInit DEF RestartInit
<1>3. MoveInv => OneCompletionPerMove /\ MoveIsTimed /\ InitiatorsAgree
  BY InitiatorsAgreeInMove DEF MoveInv
<1> QED BY <1>1, <1>2, <1>3, PTL DEF RestartSpec
=============================================================================
