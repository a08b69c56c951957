----------------------------- MODULE Credentials -----------------------------
(***************************************************************************)
(* The credentials of the lock: LockManager::SetCredential and             *)
(* GetCredential, the two keys under which they are saved in flash, what a *)
(* restart makes of them, and the PIN check of setLockState that reads     *)
(* them.  All of it runs on the Matter event loop; power may be lost       *)
(* between the writes of the two keys.  Either write may fail, which       *)
(* leaves its key as it was and is told to nobody.                         *)
(***************************************************************************)
EXTENDS Naturals

CONSTANTS
    NumTypes,       \* kNumCredentialTypes; type 0 is the programming PIN, type 1 the PIN
    MaxIndex,       \* kMaxCredentialsPerUser
    Data,           \* what a credential may hold
    DataSize,       \* the size of each
    Empty           \* the empty span a credential is cleared with

NoPin == "no PIN given"

ASSUME CredentialsAssumption ==
    /\ NumTypes \in Nat /\ NumTypes >= 2
    /\ MaxIndex \in Nat \ {0} /\ MaxIndex < 2^16
    /\ DataSize \in [Data -> Nat \ {0}]
    /\ Empty \notin Data /\ NoPin \notin Data

VARIABLES
    mLockCredentials,       \* status and data size of each credential, by type and index
    mCredentialData,        \* the data buffers
    credentialFlash,        \* flash, by key
    credentialKeysLeft,     \* how many keys SetCredential still has to write
    credentialBeingSet,     \* the credential SetCredential is working on, or NoCredentialKey
    readBefore,             \* history: how that credential read before
    credentialFailed,       \* history: the first write of this call has failed
    unsavedCredentials      \* history: those set since a call saved both keys

credentialsVars == <<mLockCredentials, mCredentialData, credentialFlash,
                     credentialKeysLeft, credentialBeingSet, readBefore,
                     credentialFailed, unsavedCredentials>>

Types == 0..(NumTypes - 1)
(* The rows of the arrays are longer (kMaxCredentials), but no index that   *)
(* IsValidCredentialIndex accepts reaches further.                         *)
Cells == Types \X (0..(MaxIndex - 1))
ProgrammingPIN == 0
Pin == 1

NoCredentialKey == <<NumTypes, 0>>
Unread == "garbled"         \* bytes that are no credential anyone set
Nothing == "nothing"

ZeroLockCredentials == [c \in Cells |-> [status |-> "Available", size |-> 0]]
ZeroData == [c \in Cells |-> Empty]

CredentialsInit ==
    /\ mLockCredentials = ZeroLockCredentials /\ mCredentialData = ZeroData
    /\ credentialFlash = [Credential |-> ZeroLockCredentials, CredentialData |-> ZeroData]
    /\ credentialKeysLeft = 0 /\ credentialBeingSet = NoCredentialKey /\ readBefore = Nothing
    /\ credentialFailed = FALSE /\ unsavedCredentials = {}

SizeOf(data) == IF data = Empty THEN 0 ELSE DataSize[data]

(* A definition introduced as a slip is not part of the model: it is the   *)
(* mistake a change of the code could make in the definition that follows. *)

(* --credentialIndex on a uint16_t. *)
Decremented(index) == (index + 2^16 - 1) % 2^16

(* Slip: programming PINs are checked against the size of the array. *)
IsValidIndexOfAnyType(index, type) == index < MaxIndex

IsValidCredentialIndex(index, type) == IF type = ProgrammingPIN THEN index = 0 ELSE index < MaxIndex

IsValidCredentialType(type) == type < NumTypes

(* Slip: the indices of programming PINs and others are told apart wrongly. *)
StorageIndexShared(index, type) == IF type = ProgrammingPIN \/ index = MaxIndex THEN 0 ELSE Decremented(index)

(* The index into the arrays: all but programming PINs count from one. *)
StorageIndex(index, type) == IF type = ProgrammingPIN THEN index ELSE Decremented(index)

Accessible(index, type) ==
    IsValidCredentialType(type) /\ IsValidCredentialIndex(StorageIndex(index, type), type)

(* What GetCredential finds: nothing more of an available credential, and  *)
(* as many bytes of the buffer as the credential says.                     *)
ReadCell(credentials, data, c) ==
    IF credentials[c].status = "Available" THEN [status |-> "Available"]
    ELSE [status |-> "Occupied",
          data |-> IF credentials[c].size = SizeOf(data[c]) THEN data[c] ELSE Unread]

GetCredential(index, type) ==
    ReadCell(mLockCredentials, mCredentialData, <<type, StorageIndex(index, type)>>)

(* SetCredential: it changes the arrays at once and writes the keys after; *)
(* an empty span leaves the bytes of the buffer as they are.               *)
SetCredential(index, type, status, data) ==
    LET c == <<type, StorageIndex(index, type)>> IN
    /\ credentialKeysLeft = 0
    /\ Accessible(index, type)
    /\ mLockCredentials' = [mLockCredentials EXCEPT ![c] = [status |-> status, size |-> SizeOf(data)]]
    /\ mCredentialData' = IF data = Empty THEN mCredentialData ELSE [mCredentialData EXCEPT ![c] = data]
    /\ credentialKeysLeft' = 2
    /\ credentialBeingSet' = <<type, index>>
    /\ readBefore' = GetCredential(index, type)
    /\ credentialFailed' = FALSE /\ unsavedCredentials' = unsavedCredentials \cup {<<type, index>>}
    /\ UNCHANGED credentialFlash

(* The two WriteConfigValueBin calls of SetCredential, whose results are   *)
(* ignored.                                                                *)
WriteCredential(stored) ==
    /\ credentialKeysLeft = 2
    /\ credentialKeysLeft' = 1
    /\ credentialFlash' = IF stored THEN [credentialFlash EXCEPT !.Credential = mLockCredentials]
                                    ELSE credentialFlash
    /\ credentialFailed' = ~stored
    /\ UNCHANGED <<mLockCredentials, mCredentialData, credentialBeingSet, readBefore, unsavedCredentials>>

WriteCredentialData(stored) ==
    /\ credentialKeysLeft = 1
    /\ credentialKeysLeft' = 0 /\ credentialBeingSet' = NoCredentialKey /\ readBefore' = Nothing
    /\ credentialFlash' = IF stored THEN [credentialFlash EXCEPT !.CredentialData = mCredentialData]
                                    ELSE credentialFlash
    /\ credentialFailed' = FALSE
    /\ unsavedCredentials' = IF stored /\ ~credentialFailed THEN {} ELSE unsavedCredentials
    /\ UNCHANGED <<mLockCredentials, mCredentialData>>

(* Power is lost at any moment; at boot ReadConfigValues fills the arrays. *)
RestartCredentials ==
    /\ mLockCredentials' = credentialFlash.Credential
    /\ mCredentialData' = credentialFlash.CredentialData
    /\ credentialKeysLeft' = 0 /\ credentialBeingSet' = NoCredentialKey /\ readBefore' = Nothing
    /\ credentialFailed' = FALSE /\ unsavedCredentials' = {}
    /\ UNCHANGED credentialFlash

(* Slip: the check looks at the credentials of every type. *)
PinCellsOfAnyType == Cells

PinCells == {Pin} \X (0..(MaxIndex - 1))

(* setLockState: whether a command with this PIN, or none, is accepted. *)
Accepts(requirePin, pin) ==
    IF pin = NoPin THEN ~requirePin
    ELSE \E c \in PinCells :
           /\ mLockCredentials[c].status # "Available"
           /\ ReadCell(mLockCredentials, mCredentialData, c).data = pin

(* The requests of the Door Lock server: any type and index, set or clear. *)
CredentialsNext ==
    \/ \E type \in 0..NumTypes, index \in 0..(MaxIndex + 1) :
         \/ \E data \in Data : SetCredential(index, type, "Occupied", data)
         \/ SetCredential(index, type, "Available", Empty)
    \/ \E stored \in BOOLEAN : WriteCredential(stored) \/ WriteCredentialData(stored)
    \/ RestartCredentials

CredentialsSpec == CredentialsInit /\ [][CredentialsNext]_credentialsVars

-----------------------------------------------------------------------------
(***************************************************************************)
(* Properties.                                                             *)
(***************************************************************************)

(* The credentials as a client of the cluster names them: the programming  *)
(* PIN has index 0, the others count from one.                             *)
CredentialKeys == {<<ProgrammingPIN, 0>>} \cup ((Types \ {ProgrammingPIN}) \X (1..MaxIndex))

(* Every variable has its type, and nothing is ever set but what a client  *)
(* can name: there is one programming PIN, whatever the arrays have room   *)
(* for.                                                                    *)
CredentialsTypeOK ==
    LET Infos == [Cells -> [status : {"Available", "Occupied"}, size : Nat]]
        Buffers == [Cells -> Data \cup {Empty}]
    IN /\ mLockCredentials \in Infos /\ credentialFlash.Credential \in Infos
       /\ mCredentialData \in Buffers /\ credentialFlash.CredentialData \in Buffers
       /\ DOMAIN credentialFlash = {"Credential", "CredentialData"}
       /\ credentialKeysLeft \in 0..2
       /\ (credentialKeysLeft = 0) <=> (credentialBeingSet = NoCredentialKey)
       /\ credentialBeingSet \in CredentialKeys \cup {NoCredentialKey}
       /\ credentialFailed \in BOOLEAN /\ unsavedCredentials \subseteq CredentialKeys

CredentialValues == [status : {"Available"}] \cup [status : {"Occupied"}, data : Data]

CredentialStore ==
    INSTANCE DurableStore
      WITH Slots <- CredentialKeys, Values <- CredentialValues, Blank <- [status |-> "Available"],
           NoSlot <- NoCredentialKey, setting <- credentialBeingSet,
           unsaved <- unsavedCredentials,
           content <- [k \in CredentialKeys |-> GetCredential(k[2], k[1])]

(* Credentials read back as they were set under every type and index a     *)
(* client can name, no set touches another, and a loss of power only       *)
(* affects the one being set and those whose saving failed and that no     *)
(* later call has saved: "Save credential information in NVM flash"        *)
(* (SetCredential).                                                        *)
KeepsCredentials == CredentialStore!Spec

(* setLockState accepts a PIN exactly if it reads back as an occupied PIN  *)
(* credential: not one of another type, not one that was cleared.          *)
AcceptsCurrentPins ==
    \A pin \in Data :
        Accepts(TRUE, pin) <=> \E n \in 1..MaxIndex :
                                 GetCredential(n, Pin) = [status |-> "Occupied", data |-> pin]

(* A loss of power while a credential is being set leaves it as it was or  *)
(* as it was to be, not a mixture (SetCredential, "Save credential         *)
(* information in NVM flash": the two keys are one piece of information).  *)
SetIsAllOrNothing ==
    [][\A k \in CredentialKeys : RestartCredentials /\ credentialBeingSet = k =>
         GetCredential(k[2], k[1])' \in {readBefore, GetCredential(k[2], k[1])}]_credentialsVars
=============================================================================
