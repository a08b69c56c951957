------------------------------ MODULE DoorLock ------------------------------
(***************************************************************************)
(* What the firmware promises of the door itself, with threads, timers and *)
(* queues left out.  The door rests at a position; from rest a movement    *)
(* towards the other position may start; the movement, once started, can   *)
(* only arrive.  It is never turned round half way, never starts towards   *)
(* the position where the door already is, and the door never changes      *)
(* position without a movement.                                            *)
(*                                                                         *)
(* This is the contract behind LockManager::State_t and the comment        *)
(* "Initiate Lock/Unlock Action only when the previous one is complete"    *)
(* (src/LockManager.cpp).  Module LockManager implements it.               *)
(***************************************************************************)

VARIABLES
    position,   \* where the door rests, or where it is leaving from
    heading     \* where it is moving to, "None" at rest

vars == <<position, heading>>

Positions == {"Locked", "Unlocked"}

TypeOK == /\ position \in Positions
          /\ heading \in Positions \cup {"None"}

Init == /\ position \in Positions
        /\ heading = "None"

(* A movement to p starts, from rest, away from p. *)
Start(p) == /\ heading = "None"
            /\ position # p
            /\ heading' = p
            /\ UNCHANGED position

(* The movement arrives. *)
Arrive == /\ heading # "None"
          /\ position' = heading
          /\ heading' = "None"

Next == Arrive \/ \E p \in Positions : Start(p)

Spec == Init /\ [][Next]_vars
=============================================================================
