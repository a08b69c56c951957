----------------------------- MODULE LockRestart -----------------------------
(***************************************************************************)
(* The lock with a firmware that may be restarted at any moment, by a loss *)
(* of power, by the watchdog or by an update.  Only the LockState          *)
(* attribute is kept, in flash, unless the restart is that of a factory    *)
(* reset.  LockManager::Init takes the state of the lock from it, because  *)
(* nothing reports where the door really stands; all else begins as        *)
(* LockManager's Init says.                                                *)
(*                                                                         *)
(* The door itself is outside the firmware: a movement that arrives has    *)
(* driven it to its end, and a loss of power during a movement leaves it   *)
(* at either end.                                                          *)
(***************************************************************************)
EXTENDS LockManager

VARIABLES
    door,       \* where the door stands, or where it is leaving from
    unsure      \* history: a restart came in the middle of a command or a
                \* movement, or with an attribute that was not the position;
                \* and no movement has arrived since

restartVars == <<vars, door, unsure>>

RestartInit == Init /\ door = lockState /\ unsure = FALSE

Arrives == IsActionInProgress /\ mState' \notin {"LockInitiated", "UnlockInitiated"}

(* What a step of the lock does to the door.                               *)
DoorFollows ==
    /\ door' = IF Arrives THEN (IF mState' = "LockCompleted" THEN "Locked" ELSE "Unlocked") ELSE door
    /\ unsure' = IF Arrives THEN FALSE ELSE unsure

LockStep == Next /\ DoorFollows

(* Slip: the lock always starts as locked. *)
BootStateLocked(attribute) == "LockCompleted"

(* LockManager::Init, with the attribute that lockMgr_Init read.           *)
BootState(attribute) == IF attribute = "Unlocked" THEN "UnlockCompleted" ELSE "LockCompleted"

(* The firmware starts with this value of the attribute.                   *)
Boot(attribute) ==
    /\ lockState' = attribute /\ mState' = BootState(attribute)
    /\ armed' = FALSE /\ queue' = <<>> /\ mSync' = FALSE /\ work' = 0
    /\ pc' = [t \in Threads |-> "idle"]
    /\ target' = [t \in Threads |-> attribute]
    /\ lost' = FALSE /\ ignored' = FALSE

(* The door once the firmware has stopped.                                 *)
DoorStops == door' \in IF IsActionInProgress THEN Positions ELSE {door}

Restart ==
    /\ Boot(lockState)
    /\ DoorStops
    /\ unsure' = (unsure \/ ignored \/ ~AtRest)

(* The default of LockState in endpoint_config.h.                          *)
DefaultLockState == "Locked"

(* A factory reset erases the flash, so that the attribute has its default *)
(* when the firmware starts.                                               *)
EraseAndRestart ==
    /\ Boot(DefaultLockState)
    /\ DoorStops
    /\ unsure' = (unsure \/ ~AtRest \/ DoorPosition # DefaultLockState)

RestartNext == LockStep \/ Restart \/ EraseAndRestart

RestartSpec == RestartInit /\ [][RestartNext]_restartVars

-----------------------------------------------------------------------------
(***************************************************************************)
(* Properties.                                                             *)
(***************************************************************************)

(* With remote commands only, the lock knows where the door is, or where   *)
(* it is leaving from.  A restart at rest does not change that, unless the *)
(* last command had been refused or a factory reset finds the door         *)
(* unlocked; after any other restart the lock knows again as soon as one   *)
(* movement has arrived.                                                   *)
KnowsDoor == ~unsure => door = DoorPosition
=============================================================================
