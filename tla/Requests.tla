------------------------------- MODULE Requests -------------------------------
(***************************************************************************)
(* What controllers ask of the lock and what they get: commands, reads and *)
(* writes on any path, from subjects with any privilege, through the       *)
(* generated tables of DataModel, the dispatcher and the check of the PIN  *)
(* to the door of LockRestart.                                             *)
(*                                                                         *)
(* The Matter SDK checks that the path exists and that the subject has the *)
(* privilege, keeps the access control list in flash, and serves the       *)
(* clusters that IMClusterCommandHandler.cpp does not know from objects of *)
(* its own (external); the tables it goes by are this repository's.        *)
(***************************************************************************)
EXTENDS LockRestart, DataModel

CONSTANTS
    Subjects,   \* the controllers
    Grants      \* the privileges that an administrator gives

ASSUME RequestsAssumption == Subjects # {} /\ Grants \subseteq Privileges /\ None \in Grants

VARIABLES
    acl,        \* the privilege of each subject
    requirePin, \* RequirePINforRemoteOperation
    request     \* the request that the Matter event loop is handling

requestVars == <<restartVars, acl, requirePin, request>>

(* A PIN is missing, or in the credential table, or not.                   *)
Pins == {"none", "known", "wrong"}

(* No request is being handled.                                            *)
Quiet == [privilege |-> None, pin |-> "none", due |-> FALSE, status |-> "Success"]

NoAccess == [s \in Subjects |-> None]

(* The default of RequirePINforRemoteOperation; it is not kept in flash.   *)
DefaultRequirePin == FALSE

RequestsInit == RestartInit /\ acl = NoAccess /\ requirePin = DefaultRequirePin /\ request = Quiet

-----------------------------------------------------------------------------
(***************************************************************************)
(* Who gets what.                                                          *)
(***************************************************************************)

Exists(e, c) == c \in ClustersOf[e]

(* The SDK's answer to a request on a path that exists.                    *)
InvokeStatus(privilege, c, command, decodes) ==
    IF command \notin AcceptedCommands[c] THEN "UnsupportedCommand"
    ELSE IF privilege < InvokePrivilege(c, command) THEN "UnsupportedAccess"
    ELSE IF c \in {"AdministratorCommissioning", "GeneralCommissioning", "GeneralDiagnostics",
                   "NetworkCommissioning"}
      THEN IF command \notin Enabled[c].commands THEN "UnsupportedCommand"
           ELSE IF decodes THEN "Success" ELSE "InvalidCommand"
    ELSE DispatchSingleClusterCommand(c, command, decodes)

ReadStatus(privilege, c, a) ==
    IF privilege < ReadPrivilege(c, a) THEN "UnsupportedAccess"
    ELSE IF a \in Enabled[c].attributes THEN "Success" ELSE "UnsupportedAttribute"

WriteStatus(privilege, c, a) ==
    IF a \notin Writable[c] THEN "UnsupportedWrite"
    ELSE IF privilege < WritePrivilege(c, a) THEN "UnsupportedAccess"
    ELSE IF a \in Enabled[c].attributes THEN "Success" ELSE "UnsupportedAttribute"

(* A request that an administrator makes of something that endpoint_config *)
(* declares should be served.                                              *)
Due(s, declared) == acl[s] = Administer /\ declared

Handle(s, pin, declared, status) ==
    /\ pc["chip"] = "idle" /\ request = Quiet
    /\ request' = [privilege |-> acl[s], pin |-> pin, due |-> Due(s, declared), status |-> status]

-----------------------------------------------------------------------------
(***************************************************************************)
(* Commands.                                                               *)
(***************************************************************************)

(* Slip: a PIN that is given is not looked up. *)
PinAcceptedUnseen(pin) == pin # "none" \/ ~requirePin

(* setLockState: without a PIN the command needs that none is required; a  *)
(* PIN that is given has to be in the table.                               *)
PinAccepted(pin) == IF pin = "none" THEN ~requirePin ELSE pin = "known"

PositionOf(command) == IF command = "LockDoor" THEN "Locked" ELSE "Unlocked"

(* LockDoor, UnlockDoor and UnlockWithTimeout: the Door Lock server calls  *)
(* the lock or unlock callback of ZclCallbacks.cpp.                        *)
InvokeLock(s, command, decodes, pin) ==
    LET status == InvokeStatus(acl[s], "DoorLock", command, decodes)
        moves == status = "Success" /\ PinAccepted(pin)
    IN /\ Handle(s, pin, decodes, IF status = "Success" /\ ~moves THEN "Failure" ELSE status)
       /\ IF moves THEN RemoteCommand(PositionOf(command)) ELSE UNCHANGED vars
       /\ UNCHANGED <<door, unsure, acl, requirePin>>

(* What a command does to the access control list: a new fabric brings an  *)
(* administrator, and one that is removed takes its subject away.          *)
AclAfter(command) ==
    CASE command = "AddNOC" -> {[acl EXCEPT ![s] = Administer] : s \in Subjects}
      [] command = "RemoveFabric" -> {[acl EXCEPT ![s] = None] : s \in Subjects}
      [] OTHER -> {acl}

(* Any other command.  (What those for the tables of the lock do is in     *)
(* Users, Credentials and ScheduleTable.  UnboltDoor ends in the SDK: this *)
(* firmware has no callback for it.)                                       *)
Invoke(s, e, c, command, decodes) ==
    LET status == IF Exists(e, c) THEN InvokeStatus(acl[s], c, command, decodes) ELSE "UnsupportedCluster"
    IN /\ Handle(s, "none", Exists(e, c) /\ command \in AcceptedCommands[c] /\ decodes, status)
       /\ acl' \in IF status = "Success" THEN AclAfter(command) ELSE {acl}
       /\ UNCHANGED <<restartVars, requirePin>>

-----------------------------------------------------------------------------
(***************************************************************************)
(* Attributes.                                                             *)
(***************************************************************************)

Read(s, e, c, a) ==
    /\ Exists(e, c) /\ a \in Attributes[c] \cup GlobalAttributes
    /\ Handle(s, "none", TRUE, ReadStatus(acl[s], c, a))
    /\ UNCHANGED <<restartVars, acl, requirePin>>

(* A write that is served: the access control list takes any form, the     *)
(* requirement of a PIN either value.                                      *)
Write(s, e, c, a) ==
    LET status == WriteStatus(acl[s], c, a)
        Writes(attribute) == status = "Success" /\ a = attribute
    IN /\ Exists(e, c) /\ a \in Attributes[c]
       /\ Handle(s, "none", a \in Writable[c], status)
       /\ acl' \in IF Writes("ACL") THEN [Subjects -> Grants] ELSE {acl}
       /\ requirePin' \in IF Writes("RequirePINforRemoteOperation") THEN BOOLEAN ELSE {requirePin}
       /\ lockState' \in IF Writes("LockState") THEN Positions ELSE {lockState}
       /\ UNCHANGED <<mState, armed, queue, mSync, work, pc, target, lost, ignored, door, unsure>>

-----------------------------------------------------------------------------
(* The answer is sent when the handler has returned.                       *)
Answer ==
    /\ request # Quiet /\ pc["chip"] = "idle"
    /\ request' = Quiet
    /\ UNCHANGED <<restartVars, acl, requirePin>>

(* A device without fabrics is commissioned, by its setup code.            *)
Commission(s) ==
    /\ acl = NoAccess /\ acl' = [acl EXCEPT ![s] = Administer]
    /\ UNCHANGED <<restartVars, requirePin, request>>

(* The other steps of the lock.                                            *)
Proceed ==
    /\ LockStep
    /\ pc["chip"] = "idle" => pc'["chip"] = "idle"
    /\ UNCHANGED <<acl, requirePin, request>>

PowerLoss ==
    /\ Restart
    /\ requirePin' = DefaultRequirePin /\ request' = Quiet
    /\ UNCHANGED acl

FactoryReset ==
    /\ EraseAndRestart
    /\ requirePin' = DefaultRequirePin /\ request' = Quiet
    /\ acl' = NoAccess

RequestsNext ==
    \/ \E s \in Subjects, decodes \in BOOLEAN :
           \/ \E command \in LockCases, pin \in Pins : InvokeLock(s, command, decodes, pin)
           \/ \E e \in Endpoints, c \in Clusters :
                  \E command \in (AcceptedCommands[c] \cup GeneratedCommands[c]) \ LockCases :
                      Invoke(s, e, c, command, decodes)
    \/ \E s \in Subjects, e \in Endpoints : \E c \in ClustersOf[e] :
           \/ \E a \in Attributes[c] \cup GlobalAttributes : Read(s, e, c, a)
           \/ \E a \in Attributes[c] : Write(s, e, c, a)
    \/ \E s \in Subjects : Commission(s)
    \/ Answer \/ Proceed \/ PowerLoss \/ FactoryReset

RequestsSpec == RequestsInit /\ [][RequestsNext]_requestVars

-----------------------------------------------------------------------------
(***************************************************************************)
(* Properties.                                                             *)
(***************************************************************************)

(* The door starts to move only for a subject that may operate the lock,   *)
(* and that gave a PIN from the table if one is required: from the tables  *)
(* of access.h and the dispatcher through setLockState to the write of     *)
(* mState, with restarts and changes of the access control list.           *)
DoorMovesForOperators ==
    [][IsActionInProgress' /\ mState' # mState =>
           /\ request.privilege >= Operate
           /\ requirePin => request.pin = "known"]_requestVars

Gains == \E s \in Subjects : acl'[s] > acl[s]

(* A subject gains a privilege, and the requirement of a PIN changes, only *)
(* by a request of an administrator, when a device without fabrics is      *)
(* commissioned, or by a restart.                                          *)
OnlyAdministratorsGrant ==
    [][Gains \/ requirePin' # requirePin =>
           \/ request'.privilege = Administer \/ acl = NoAccess
           \/ PowerLoss \/ FactoryReset]_requestVars

(* The tables agree: whatever endpoint_config declares is served when an   *)
(* administrator asks for it, by a case of the dispatcher or by a cluster  *)
(* that has it enabled.                                                    *)
ServesDeclared == request.due => request.status \in {"Success", "Failure"}
=============================================================================
