---------------------------- MODULE RequestsProofs ----------------------------
(***************************************************************************)
(* Proofs about Requests: for any set of controllers, any grants, queues   *)
(* of any size and handlers held for any time, in the default build.       *)
(***************************************************************************)
EXTENDS Requests, LockRestartProofs

(* No table lets a controller write the LockState attribute.               *)
LEMMA LockStateIsReadOnly == \A c \in Clusters : "LockState" \notin Writable[c]
  BY DEF Clusters, Endpoints, ClustersOf, Writable

(* A command for the door is a step of the lock, or none.                  *)
LEMMA InvokeLockIsLockStep ==
    ASSUME NEW s, NEW command, NEW pin, NEW decodes, InvokeLock(s, command, decodes, pin)
    PROVE  [RestartNext]_restartVars
<1>1. CASE UNCHANGED vars
  BY <1>1 DEF InvokeLock, restartVars
<1>2. CASE RemoteCommand(PositionOf(command))
  <2>1. PositionOf(command) \in Positions
    BY DEF PositionOf, Positions
  <2>2. Next
    BY <1>2, <2>1 DEF Next
  <2>3. DoorFollows
    BY <1>2 DEF InvokeLock, RemoteCommand, DoorFollows, Arrives, IsActionInProgress
  <2> QED BY <2>2, <2>3 DEF LockStep, RestartNext
<1> QED BY <1>1, <1>2 DEF InvokeLock

(* A write leaves the lock alone.                                          *)
LEMMA WriteLeavesLock ==
    ASSUME NEW s, NEW e \in Endpoints, NEW c \in ClustersOf[e], NEW a, Write(s, e, c, a)
    PROVE  UNCHANGED restartVars
<1>1. c \in Clusters
  BY DEF Clusters
<1>2. a = "LockState" => WriteStatus(acl[s], c, a) = "UnsupportedWrite"
  BY <1>1, LockStateIsReadOnly DEF WriteStatus
<1>3. lockState' = lockState
  BY <1>2 DEF Write
<1> QED BY <1>3 DEF Write, restartVars, vars

(* Whatever a controller asks for is a step of the lock at most; the rest  *)
(* of the device leaves it alone, and its restarts are the lock's.         *)
LEMMA RequestsAreLockSteps ==
    ASSUME [RequestsNext]_requestVars
    PROVE  [RestartNext]_restartVars
<1>1. ASSUME NEW s \in Subjects, NEW e \in Endpoints, NEW c, NEW command, NEW decodes \in BOOLEAN,
             Invoke(s, e, c, command, decodes)
      PROVE  UNCHANGED restartVars
  BY <1>1 DEF Invoke
<1>2. ASSUME NEW s \in Subjects, NEW e, NEW c, NEW a, Read(s, e, c, a)
      PROVE  UNCHANGED restartVars
  BY <1>2 DEF Read
<1>3. CASE Answer \/ \E s \in Subjects : Commission(s)
  BY <1>3 DEF Answer, Commission
<1>4. CASE Proceed
  BY <1>4 DEF Proceed, RestartNext
<1>5. CASE PowerLoss \/ FactoryReset
  BY <1>5 DEF PowerLoss, FactoryReset, RestartNext
<1>6. CASE UNCHANGED requestVars
  BY <1>6 DEF requestVars
<1> QED BY <1>1, <1>2, <1>3, <1>4, <1>5, <1>6, InvokeLockIsLockStep, WriteLeavesLock DEF RequestsNext

(* The lock that serves requests is the lock of LockRestart, so that what  *)
(* is proved of that lock holds with any controllers.                      *)
THEOREM RequestsDriveLock == RequestsSpec => RestartSpec
<1>1. RequestsInit => RestartInit
  BY DEF RequestsInit
<1>2. [RequestsNext]_requestVars => [RestartNext]_restartVars
  BY RequestsAreLockSteps
<1> QED BY <1>1, <1>2, PTL DEF RequestsSpec, RestartSpec

(* The lock knows where its door is, whatever controllers ask for.         *)
THEOREM ServingLockKnowsDoor ==
    ASSUME LocalThreads = {}
    PROVE  RequestsSpec => []KnowsDoor
  BY RequestsDriveLock, LockKnowsDoor

(* The attribute is the position or the heading of the lock, whatever      *)
(* controllers ask for, unless the last command was refused.               *)
THEOREM ServingLockAgrees ==
    ASSUME LocalThreads = {}
    PROVE  RequestsSpec => []AgreeUnlessIgnored
  BY RequestsDriveLock, AgreementThroughRestarts

(* Each movement is timed and completed once, and threads agree on it,     *)
(* whatever controllers ask for and whichever threads move the door        *)
(* besides, if handlers are Prompt.                                        *)
THEOREM ServingLockMoves ==
    ASSUME Prompt
    PROVE  RequestsSpec => [](OneCompletionPerMove /\ MoveIsTimed /\ InitiatorsAgree)
  BY RequestsDriveLock, MovesThroughRestarts

-----------------------------------------------------------------------------
(***************************************************************************)
(* Who moves the door.                                                     *)
(***************************************************************************)

(* The invariant: as long as the Matter event loop is inside a command,    *)
(* the request is one of a subject that may give it, with its PIN.         *)
CommandIsAllowed ==
    pc["chip"] # "idle" => /\ request.privilege >= Operate
                           /\ requirePin => request.pin = "known"

OperatorInv ==
    /\ KnowsInv
    /\ acl \in [Subjects -> Privileges]
    /\ CommandIsAllowed

(* Privileges are those of access.h, and they are ordered.                 *)
LEMMA PrivilegesAreNaturals == Privileges \subseteq Nat
  BY DEF Privileges, None, View, Operate, Manage, Administer

(* The access control list only holds privileges.                          *)
LEMMA AclStep ==
    ASSUME acl \in [Subjects -> Privileges], [RequestsNext]_requestVars
    PROVE  acl' \in [Subjects -> Privileges]
<1>1. ASSUME NEW s \in Subjects, NEW e, NEW c, NEW command, NEW decodes \in BOOLEAN,
             Invoke(s, e, c, command, decodes)
      PROVE  acl' \in [Subjects -> Privileges]
  <2>1. acl' \in AclAfter(command) \cup {acl}
    BY <1>1 DEF Invoke
  <2>2. AclAfter(command) \subseteq [Subjects -> Privileges]
    BY DEF AclAfter, Privileges
  <2> QED BY <2>1, <2>2
<1>2. ASSUME NEW s \in Subjects, NEW e, NEW c, NEW a, Write(s, e, c, a)
      PROVE  acl' \in [Subjects -> Privileges]
  <2>1. acl' \in [Subjects -> Grants] \cup {acl}
    BY <1>2 DEF Write
  <2>2. [Subjects -> Grants] \subseteq [Subjects -> Privileges]
    BY RequestsAssumption
  <2> QED BY <2>1, <2>2
<1>3. CASE FactoryReset
  BY <1>3 DEF FactoryReset, NoAccess, Privileges
<1>4. ASSUME NEW s \in Subjects, Commission(s)
      PROVE  acl' \in [Subjects -> Privileges]
  BY <1>4 DEF Commission, Privileges
<1>5. CASE UNCHANGED acl
  BY <1>5
<1> QED BY <1>1, <1>2, <1>3, <1>4, <1>5
        DEF RequestsNext, InvokeLock, Read, Answer, Proceed, PowerLoss, requestVars

(* The tables and the PIN check let no other command through.              *)
LEMMA InvokeLockKeeps ==
    ASSUME NEW s \in Subjects, NEW command \in LockCases, NEW pin, NEW decodes,
           acl \in [Subjects -> Privileges], InvokeLock(s, command, decodes, pin)
    PROVE  CommandIsAllowed'
<1>1. CASE UNCHANGED vars
  BY <1>1 DEF InvokeLock, Handle, vars, CommandIsAllowed
<1>2. CASE InvokeStatus(acl[s], "DoorLock", command, decodes) = "Success" /\ PinAccepted(pin)
  <2>1. InvokePrivilege("DoorLock", command) = Operate
    BY DEF InvokePrivilege, LockCases, ScheduleCases, UserCases, CredentialCases
  <2>2. ~(acl[s] < Operate)
    BY <1>2, <2>1 DEF InvokeStatus
  <2>3. request'.privilege = acl[s] /\ request'.pin = pin /\ requirePin' = requirePin
    BY DEF InvokeLock, Handle
  <2>4. requirePin => pin = "known"
    BY <1>2 DEF PinAccepted
  <2>5. acl[s] \in Nat
    BY PrivilegesAreNaturals
  <2> QED BY <2>2, <2>3, <2>4, <2>5 DEF Operate, CommandIsAllowed
<1> QED BY <1>1, <1>2 DEF InvokeLock

(* Every step keeps the invariant,                                         *)
LEMMA OperatorStep ==
    ASSUME LocalThreads = {}, OperatorInv, [RequestsNext]_requestVars
    PROVE  OperatorInv'
<1>1. KnowsInv'
  BY KnowsStep, RequestsAreLockSteps DEF OperatorInv
<1>2. acl' \in [Subjects -> Privileges]
  BY AclStep DEF OperatorInv
<1>3. CommandIsAllowed'
  <2>1. ASSUME NEW s \in Subjects, NEW command \in LockCases, NEW pin \in Pins, NEW decodes \in BOOLEAN,
               InvokeLock(s, command, decodes, pin)
        PROVE  CommandIsAllowed'
    BY <2>1, InvokeLockKeeps DEF OperatorInv
  <2>2. CASE pc'["chip"] = "idle"
    BY <2>2 DEF CommandIsAllowed
  <2>3. CASE UNCHANGED requestVars
    BY <2>3 DEF requestVars, restartVars, vars, OperatorInv, CommandIsAllowed
  <2>4. CASE Proceed
    BY <2>4, <2>2 DEF Proceed, OperatorInv, CommandIsAllowed
  <2>5. ASSUME NEW s \in Subjects, NEW e \in Endpoints, NEW c, NEW command, NEW decodes \in BOOLEAN,
               Invoke(s, e, c, command, decodes)
        PROVE  pc'["chip"] = "idle"
    BY <2>5 DEF Invoke, Handle, restartVars, vars
  <2>6. ASSUME NEW s \in Subjects, NEW e \in Endpoints, NEW c \in ClustersOf[e], NEW a,
               Read(s, e, c, a) \/ Write(s, e, c, a)
        PROVE  pc'["chip"] = "idle"
    BY <2>6 DEF Read, Write, Handle, restartVars, vars
  <2>7. CASE Answer
    BY <2>2, <2>7 DEF Answer, restartVars, vars
  <2>8. ASSUME NEW s \in Subjects, Commission(s)
        PROVE  CommandIsAllowed'
    BY <2>8 DEF Commission, restartVars, vars, OperatorInv, CommandIsAllowed
  <2>9. CASE PowerLoss \/ FactoryReset
    BY <2>2, <2>9 DEF PowerLoss, FactoryReset, Restart, EraseAndRestart, Boot, Threads
  <2> QED BY <2>1, <2>2, <2>3, <2>4, <2>5, <2>6, <2>7, <2>8, <2>9 DEF RequestsNext
<1> QED BY <1>1, <1>2, <1>3 DEF OperatorInv

(* and it holds when the device starts for the first time.                 *)
LEMMA OperatorInit == ASSUME LocalThreads = {} PROVE RequestsInit => OperatorInv
  BY KnowsInit DEF RequestsInit, RestartInit, Init, OperatorInv, CommandIsAllowed, NoAccess,
                   Privileges, Threads

(* The door starts to move only in UpdateState, and there only the Matter  *)
(* event loop can be.                                                      *)
LEMMA MoveIsOfRequest ==
    ASSUME LocalThreads = {}, OperatorInv, [RequestsNext]_requestVars,
           IsActionInProgress', mState' # mState
    PROVE  pc["chip"] # "idle"
<1>1. CASE LockStep
  <2>1. CASE CompleteAction
    BY <2>1 DEF CompleteAction, Completed, IsActionInProgress
  <2>2. ASSUME NEW t \in Threads, UpdateState(t)
        PROVE  pc["chip"] # "idle"
    BY <2>2 DEF UpdateState, OperatorInv, KnowsInv, RemoteInv, Threads
  <2> QED BY <1>1, <2>1, <2>2, StateChanges DEF LockStep
<1>2. CASE Restart \/ EraseAndRestart
  BY <1>2 DEF Restart, EraseAndRestart, Boot, BootState, IsActionInProgress
<1>3. CASE UNCHANGED restartVars
  BY <1>3 DEF restartVars, vars
<1> QED BY <1>1, <1>2, <1>3, RequestsAreLockSteps DEF RestartNext

(* The door moves only for subjects that may operate it, and that gave a   *)
(* PIN of the credential table when one is required.                       *)
THEOREM OnlyOperatorsMoveDoor ==
    ASSUME LocalThreads = {}
    PROVE  RequestsSpec => DoorMovesForOperators
<1>1. OperatorInv /\ [RequestsNext]_requestVars => OperatorInv'
  BY OperatorStep
<1>2. OperatorInv /\ [RequestsNext]_requestVars =>
        [IsActionInProgress' /\ mState' # mState =>
             /\ request.privilege >= Operate
             /\ requirePin => request.pin = "known"]_requestVars
  BY MoveIsOfRequest DEF OperatorInv, CommandIsAllowed
<1> QED BY OperatorInit, <1>1, <1>2, PTL DEF RequestsSpec, DoorMovesForOperators

-----------------------------------------------------------------------------
(***************************************************************************)
(* Who changes who may.                                                    *)
(***************************************************************************)

(* A command that brings a new fabric, once it is served, is one of an     *)
(* administrator.                                                          *)
LEMMA AddNOCNeedsAdminister ==
    ASSUME NEW p \in Privileges, NEW c \in Clusters, NEW decodes,
           InvokeStatus(p, c, "AddNOC", decodes) = "Success"
    PROVE  p = Administer
<1>1. "AddNOC" \in AcceptedCommands[c]
  BY DEF InvokeStatus
<1>2. c = "OperationalCredentials"
  BY <1>1 DEF AcceptedCommands, Clusters, Endpoints, ClustersOf
<1>3. InvokePrivilege(c, "AddNOC") = Administer
  BY <1>2 DEF InvokePrivilege
<1> QED BY <1>3 DEF InvokeStatus, Privileges, None, View, Operate, Manage, Administer

(* So is a write of what decides who may do what.                          *)
LEMMA WriteNeedsAdminister ==
    ASSUME NEW p \in Privileges, NEW c \in Clusters, NEW a \in {"ACL", "RequirePINforRemoteOperation"},
           WriteStatus(p, c, a) = "Success"
    PROVE  p = Administer
<1>1. a \in Writable[c]
  BY DEF WriteStatus
<1>2. \/ c = "AccessControl" /\ a = "ACL"
      \/ c = "DoorLock" /\ a = "RequirePINforRemoteOperation"
  BY <1>1 DEF Writable, Clusters, Endpoints, ClustersOf
<1>3. WritePrivilege(c, a) = Administer
  BY <1>2 DEF WritePrivilege
<1> QED BY <1>3 DEF WriteStatus, Privileges, None, View, Operate, Manage, Administer

(* Nobody gains from a list that stays.                                   *)
LEMMA UnchangedGainsNothing ==
    ASSUME acl \in [Subjects -> Privileges], acl' = acl
    PROVE  ~Gains
<1>1. ASSUME NEW s \in Subjects PROVE ~(acl'[s] > acl[s])
  <2>1. acl[s] \in Nat /\ acl'[s] = acl[s]
    BY PrivilegesAreNaturals
  <2> QED BY <2>1
<1> QED BY <1>1 DEF Gains

(* A command brings a privilege only to the fabric that it adds.           *)
LEMMA InvokeGrants ==
    ASSUME acl \in [Subjects -> Privileges], NEW s \in Subjects, NEW e \in Endpoints, NEW c \in Clusters,
           NEW command, NEW decodes, Invoke(s, e, c, command, decodes)
    PROVE  ~Gains \/ request'.privilege = Administer
<1>1. request'.privilege = acl[s] /\ acl[s] \in Privileges
  BY DEF Invoke, Handle
<1>2. CASE acl' = acl
  BY <1>2, UnchangedGainsNothing
<1>3. CASE acl' # acl
  <2>1. InvokeStatus(acl[s], c, command, decodes) = "Success" /\ acl' \in AclAfter(command)
    BY <1>3 DEF Invoke
  <2>2. CASE command = "AddNOC"
    BY <1>1, <2>1, <2>2, AddNOCNeedsAdminister
  <2>3. CASE command = "RemoveFabric"
    <3>1. PICK t \in Subjects : acl' = [acl EXCEPT ![t] = None]
      BY <2>1, <2>3 DEF AclAfter
    <3>2. ASSUME NEW u \in Subjects PROVE ~(acl'[u] > acl[u])
      <4>1. acl[u] \in Nat /\ acl'[u] \in {acl[u], 0}
        BY <3>1, PrivilegesAreNaturals DEF None
      <4> QED BY <4>1
    <3> QED BY <3>2 DEF Gains
  <2>4. CASE command \notin {"AddNOC", "RemoveFabric"}
    BY <1>3, <2>1, <2>4 DEF AclAfter
  <2> QED BY <2>2, <2>3, <2>4
<1> QED BY <1>2, <1>3

(* A write changes who may do what only if it is an administrator's.       *)
LEMMA WriteGrants ==
    ASSUME acl \in [Subjects -> Privileges], NEW s \in Subjects, NEW e \in Endpoints,
           NEW c \in ClustersOf[e], NEW a, Write(s, e, c, a)
    PROVE  (~Gains /\ requirePin' = requirePin) \/ request'.privilege = Administer
<1>1. request'.privilege = acl[s] /\ acl[s] \in Privileges /\ c \in Clusters
  BY DEF Write, Handle, Clusters
<1>2. CASE acl' = acl /\ requirePin' = requirePin
  BY <1>2, UnchangedGainsNothing
<1>3. CASE acl' # acl \/ requirePin' # requirePin
  <2>1. WriteStatus(acl[s], c, a) = "Success" /\ a \in {"ACL", "RequirePINforRemoteOperation"}
    BY <1>3 DEF Write
  <2> QED BY <1>1, <2>1, WriteNeedsAdminister
<1> QED BY <1>2, <1>3

(* The type of the access control list.                                    *)
AclOK == acl \in [Subjects -> Privileges]

(* Privileges and the requirement of a PIN only come from administrators,  *)
(* from the setup code of a device without fabrics, and from restarts.     *)
THEOREM PrivilegesComeFromAdministrators == RequestsSpec => OnlyAdministratorsGrant
<1>1. RequestsInit => AclOK
  BY DEF RequestsInit, NoAccess, Privileges, AclOK
<1>2. AclOK /\ [RequestsNext]_requestVars => AclOK'
  BY AclStep DEF AclOK
<1>3. ASSUME acl \in [Subjects -> Privileges], RequestsNext
      PROVE  \/ ~Gains /\ requirePin' = requirePin
             \/ request'.privilege = Administer \/ acl = NoAccess
             \/ PowerLoss \/ FactoryReset
  <2>1. ASSUME NEW s \in Subjects, NEW e \in Endpoints, NEW c \in Clusters, NEW command,
               NEW decodes \in BOOLEAN, Invoke(s, e, c, command, decodes)
        PROVE  (~Gains /\ requirePin' = requirePin) \/ request'.privilege = Administer
    BY <1>3, <2>1, InvokeGrants DEF Invoke
  <2>2. CASE UNCHANGED <<acl, requirePin>>
    BY <1>3, <2>2, UnchangedGainsNothing
  <2> QED BY <1>3, <2>1, <2>2, WriteGrants
          DEF RequestsNext, InvokeLock, Read, Answer, Commission, Proceed
<1>4. AclOK /\ [RequestsNext]_requestVars =>
        [Gains \/ requirePin' # requirePin =>
            \/ request'.privilege = Administer \/ acl = NoAccess
            \/ PowerLoss \/ FactoryReset]_requestVars
  BY <1>3 DEF AclOK
<1> QED BY <1>1, <1>2, <1>4, PTL DEF RequestsSpec, OnlyAdministratorsGrant

-----------------------------------------------------------------------------
(***************************************************************************)
(* The generated tables agree.                                             *)
(***************************************************************************)

(* Every attribute of endpoint_config.h is enabled.                        *)
LEMMA AttributesAreEnabled ==
    \A c \in Clusters : Attributes[c] \cup GlobalAttributes \subseteq Enabled[c].attributes
<1>1. ASSUME NEW c \in {"AccessControl", "AdministratorCommissioning", "BasicInformation"}
      PROVE  Attributes[c] \cup GlobalAttributes \subseteq Enabled[c].attributes
  BY DEF Attributes, GlobalAttributes, Enabled, AccessControlEnabled,
         AdministratorCommissioningEnabled, BasicInformationEnabled
<1>2. ASSUME NEW c \in {"Descriptor", "DoorLock", "GeneralCommissioning"}
      PROVE  Attributes[c] \cup GlobalAttributes \subseteq Enabled[c].attributes
  BY DEF Attributes, GlobalAttributes, Enabled, DescriptorEnabled, DoorLockEnabled,
         GeneralCommissioningEnabled
<1>3. ASSUME NEW c \in {"GeneralDiagnostics", "GroupKeyManagement", "Identify"}
      PROVE  Attributes[c] \cup GlobalAttributes \subseteq Enabled[c].attributes
  BY DEF Attributes, GlobalAttributes, Enabled, GeneralDiagnosticsEnabled, GroupKeyManagementEnabled,
         IdentifyEnabled
<1>4. ASSUME NEW c \in {"NetworkCommissioning", "OperationalCredentials"}
      PROVE  Attributes[c] \cup GlobalAttributes \subseteq Enabled[c].attributes
  BY DEF Attributes, GlobalAttributes, Enabled, NetworkCommissioningEnabled, OperationalCredentialsEnabled
<1> QED BY <1>1, <1>2, <1>3, <1>4 DEF Clusters, Endpoints, ClustersOf

(* Every command that it accepts is served, if it decodes.                 *)
LEMMA CommandsAreServed ==
    ASSUME NEW c \in Clusters, NEW command \in AcceptedCommands[c]
    PROVE  InvokeStatus(Administer, c, command, TRUE) = "Success"
<1>1. ~(Administer < InvokePrivilege(c, command))
  BY DEF InvokePrivilege, Administer, Manage, Operate
<1>2. CASE c \in {"AdministratorCommissioning", "GeneralCommissioning", "GeneralDiagnostics",
                  "NetworkCommissioning"}
  <2>1. command \in Enabled[c].commands
    BY <1>2 DEF AcceptedCommands, Enabled, AdministratorCommissioningEnabled,
                GeneralCommissioningEnabled, GeneralDiagnosticsEnabled, NetworkCommissioningEnabled
  <2> QED BY <1>1, <1>2, <2>1 DEF InvokeStatus
<1>3. CASE c \notin {"AdministratorCommissioning", "GeneralCommissioning", "GeneralDiagnostics",
                     "NetworkCommissioning"}
  <2>1. InvokeStatus(Administer, c, command, TRUE) = DispatchSingleClusterCommand(c, command, TRUE)
    BY <1>1, <1>3 DEF InvokeStatus
  <2>2. c \in {"DoorLock", "GroupKeyManagement", "Identify", "OperationalCredentials"}
    BY <1>3 DEF AcceptedCommands, Clusters, Endpoints, ClustersOf
  <2>3. \/ c = "DoorLock" /\ command \in DoorLockCases
        \/ c = "GroupKeyManagement" /\ command \in GroupKeyManagementCases
        \/ c = "Identify" /\ command \in IdentifyCases
        \/ c = "OperationalCredentials" /\ command \in OperationalCredentialsCases
    BY <2>2 DEF AcceptedCommands, DoorLockCases, LockCases, ScheduleCases, UserCases, CredentialCases,
                GroupKeyManagementCases, IdentifyCases, OperationalCredentialsCases
  <2> QED BY <2>1, <2>3 DEF DispatchSingleClusterCommand, DispatchServerCommand
<1> QED BY <1>2, <1>3

(* Its attributes can be read, and those it calls writable written.        *)
LEMMA AttributesAreServed ==
    ASSUME NEW c \in Clusters, NEW a \in Attributes[c] \cup GlobalAttributes
    PROVE  /\ ReadStatus(Administer, c, a) = "Success"
           /\ a \in Writable[c] => WriteStatus(Administer, c, a) = "Success"
<1>1. ~(Administer < ReadPrivilege(c, a)) /\ ~(Administer < WritePrivilege(c, a))
  BY DEF ReadPrivilege, WritePrivilege, View, Operate, Manage, Administer
<1> QED BY <1>1, AttributesAreEnabled DEF ReadStatus, WriteStatus

(* Whatever endpoint_config.h declares is served when an administrator     *)
(* asks for it: the tables that lock-app.zap was turned into agree.        *)
THEOREM DeclaredIsServed == RequestsSpec => []ServesDeclared
<1>1. RequestsInit => ServesDeclared
  BY DEF RequestsInit, ServesDeclared, Quiet
<1>2. ASSUME ServesDeclared, RequestsNext PROVE ServesDeclared'
  <2>1. ASSUME NEW s \in Subjects, NEW command \in LockCases, NEW pin, NEW decodes \in BOOLEAN,
               InvokeLock(s, command, decodes, pin)
        PROVE  ServesDeclared'
    <3>1. command \in AcceptedCommands["DoorLock"] /\ "DoorLock" \in Clusters
      BY DEF LockCases, AcceptedCommands, Clusters, Endpoints, ClustersOf
    <3> QED BY <2>1, <3>1, CommandsAreServed DEF InvokeLock, Handle, Due, ServesDeclared
  <2>2. ASSUME NEW s \in Subjects, NEW e \in Endpoints, NEW c \in Clusters, NEW command,
               NEW decodes \in BOOLEAN, Invoke(s, e, c, command, decodes)
        PROVE  ServesDeclared'
    BY <2>2, CommandsAreServed DEF Invoke, Handle, Due, ServesDeclared
  <2>3. ASSUME NEW s \in Subjects, NEW e \in Endpoints, NEW c \in ClustersOf[e], NEW a,
               Read(s, e, c, a) \/ Write(s, e, c, a)
        PROVE  ServesDeclared'
    <3>1. c \in Clusters /\ a \in Attributes[c] \cup GlobalAttributes
      BY <2>3 DEF Clusters, Read, Write
    <3>2. CASE Read(s, e, c, a)
      BY <3>1, <3>2, AttributesAreServed DEF Read, Handle, Due, ServesDeclared
    <3>3. CASE Write(s, e, c, a)
      <4>1. Handle(s, "none", a \in Writable[c], WriteStatus(acl[s], c, a))
        BY <3>3 DEF Write
      <4> QED BY <3>1, <4>1, AttributesAreServed DEF Handle, Due, ServesDeclared
    <3> QED BY <2>3, <3>2, <3>3
  <2>4. CASE request' \in {request, Quiet}
    BY <1>2, <2>4 DEF ServesDeclared, Quiet
  <2> QED BY <1>2, <2>1, <2>2, <2>3, <2>4
          DEF RequestsNext, Answer, Commission, Proceed, PowerLoss, FactoryReset
<1>3. ServesDeclared /\ UNCHANGED requestVars => ServesDeclared'
  BY DEF ServesDeclared, requestVars
<1> QED BY <1>1, <1>2, <1>3, PTL DEF RequestsSpec
=============================================================================
