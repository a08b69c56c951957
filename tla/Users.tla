-------------------------------- MODULE Users --------------------------------
(***************************************************************************)
(* The users of the lock: LockManager::SetUser and GetUser, the three keys *)
(* under which the users are saved in flash, and what a restart makes of   *)
(* them.  All of it runs on the Matter event loop, so calls do not         *)
(* interleave; but the keys are written one after the other and power may  *)
(* be lost in between.  Any write may fail, which leaves its key as it was *)
(* and is told to nobody.                                                  *)
(***************************************************************************)
EXTENDS Naturals, Sequences

CONSTANTS
    MaxUsers,       \* kMaxUsers, the size of the arrays
    NumberOfUsers,  \* LockParams.numberOfUsers
    MaxCredentials, \* LockParams.numberOfCredentialsPerUser
    Names,          \* user names
    NameSize,       \* the size of each name
    MaxNameSize,    \* DOOR_LOCK_MAX_USER_NAME_SIZE, the size of a name buffer
    CredentialIds   \* the credentials a user may refer to

(* The parameters are within the arrays, as LockManager::Init checks.      *)
ASSUME UsersAssumption ==
    /\ MaxUsers \in Nat \ {0} /\ NumberOfUsers \in 1..MaxUsers
    /\ MaxCredentials \in Nat
    /\ MaxNameSize \in Nat \ {0}
    /\ NameSize \in [Names -> Nat]

VARIABLES
    mLockUsers,     \* status, name size and credential count of each user
    mUserNames,     \* the name buffers
    mCredentials,   \* the credential lists
    userFlash,      \* flash, by key
    userKeysLeft,   \* the keys SetUser still has to write
    userBeingSet,   \* the user SetUser is working on, or NoUser
    userFailed,     \* history: a write of this call has failed
    unsavedUsers    \* history: the users set since a call saved all its keys

usersVars == <<mLockUsers, mUserNames, mCredentials, userFlash, userKeysLeft, userBeingSet,
               userFailed, unsavedUsers>>

UserIndices == 0..(MaxUsers - 1)
NoUser == MaxUsers

NoName == "no name"     \* a buffer of zeros
CutName == "cut name"   \* bytes that are no name anyone set
NoCredential == "none"

UserKeys == {"LockUser", "UserCredentials", "LockUserName"}

ZeroUser == [userStatus |-> "Available", nameSize |-> 0, credentialCount |-> 0]
ZeroUsers == [i \in UserIndices |-> ZeroUser]
ZeroNames == [i \in UserIndices |-> NoName]
ZeroLists == [i \in UserIndices |-> [n \in 1..MaxCredentials |-> NoCredential]]

UsersInit ==
    /\ mLockUsers = ZeroUsers /\ mUserNames = ZeroNames /\ mCredentials = ZeroLists
    /\ userFlash = [LockUser |-> ZeroUsers, UserCredentials |-> ZeroLists, LockUserName |-> ZeroNames]
    /\ userKeysLeft = <<>> /\ userBeingSet = NoUser
    /\ userFailed = FALSE /\ unsavedUsers = {}

CredentialLists == UNION {[1..n -> CredentialIds] : n \in 0..MaxCredentials}

(* A definition introduced as a slip is not part of the model: it is the   *)
(* mistake a change of the code could make in the definition that follows. *)

(* Slip: the key of the names is left out. *)
SavedUserKeysNoNames == <<"LockUser", "UserCredentials">>

(* The keys SetUser writes, in its order. *)
SavedUserKeys == <<"LockUser", "UserCredentials", "LockUserName">>

(* Platform::CopyString: at most one byte less than the buffer, and a NUL. *)
CopyString(name) == IF NameSize[name] < MaxNameSize THEN name ELSE CutName

IsValidUserIndex(i) == i < MaxUsers

(* Slip: a name may have a byte more than its buffer. *)
NameFitsOneMore(name) == NameSize[name] <= MaxNameSize + 1

NameFits(name) == NameSize[name] <= MaxNameSize

(* SetUser(userIndex, name, status, credentials): the user index counts    *)
(* from one.  What it refuses leaves everything unchanged; otherwise the   *)
(* arrays change at once and the keys are written after.                   *)
SetUser(userIndex, name, status, credentials) ==
    LET i == userIndex - 1 IN
    /\ userKeysLeft = <<>>
    /\ userIndex > 0 /\ IsValidUserIndex(i)
    /\ NameFits(name)
    /\ Len(credentials) <= MaxCredentials
    /\ mUserNames' = [mUserNames EXCEPT ![i] = CopyString(name)]
    /\ mLockUsers' = [mLockUsers EXCEPT ![i] =
                        [userStatus |-> status, nameSize |-> NameSize[name],
                         credentialCount |-> Len(credentials)]]
    /\ mCredentials' = [mCredentials EXCEPT ![i] =
                          [n \in 1..MaxCredentials |->
                             IF n <= Len(credentials) THEN credentials[n] ELSE @[n]]]
    /\ userKeysLeft' = SavedUserKeys
    /\ userBeingSet' = i
    /\ userFailed' = FALSE /\ unsavedUsers' = unsavedUsers \cup {i}
    /\ UNCHANGED userFlash

(* What is saved of the arrays: users and lists of NumberOfUsers only,      *)
(* names whole.                                                            *)
SavedParts ==
    [LockUser |-> [i \in UserIndices |->
         IF i < NumberOfUsers THEN mLockUsers[i] ELSE userFlash["LockUser"][i]],
     UserCredentials |-> [i \in UserIndices |->
         IF i < NumberOfUsers THEN mCredentials[i] ELSE userFlash["UserCredentials"][i]],
     LockUserName |-> mUserNames]

(* One WriteConfigValueBin of SetUser, whose result is ignored; with the   *)
(* last one SetUser returns.                                               *)
WriteUserKey(stored) ==
    LET key == Head(userKeysLeft)
        failed == userFailed \/ ~stored
        last == Len(userKeysLeft) = 1
    IN
    /\ userKeysLeft # <<>>
    /\ userFlash' = IF stored THEN [userFlash EXCEPT ![key] = SavedParts[key]] ELSE userFlash
    /\ userKeysLeft' = Tail(userKeysLeft)
    /\ userBeingSet' = IF last THEN NoUser ELSE userBeingSet
    /\ userFailed' = (failed /\ ~last)
    /\ unsavedUsers' = IF last /\ ~failed THEN {} ELSE unsavedUsers
    /\ UNCHANGED <<mLockUsers, mUserNames, mCredentials>>

(* Power is lost at any moment; at boot ReadConfigValues fills the arrays. *)
RestartUsers ==
    /\ mLockUsers' = userFlash["LockUser"]
    /\ mUserNames' = userFlash["LockUserName"]
    /\ mCredentials' = userFlash["UserCredentials"]
    /\ userKeysLeft' = <<>> /\ userBeingSet' = NoUser
    /\ userFailed' = FALSE /\ unsavedUsers' = {}
    /\ UNCHANGED userFlash

(* The requests of the Door Lock server: it sets or clears any user.       *)
UsersNext ==
    \/ \E userIndex \in 0..NumberOfUsers, name \in Names :
         \/ \E credentials \in CredentialLists : SetUser(userIndex, name, "Occupied", credentials)
         \/ SetUser(userIndex, name, "Available", <<>>)
    \/ \E stored \in BOOLEAN : WriteUserKey(stored)
    \/ RestartUsers

UsersSpec == UsersInit /\ [][UsersNext]_usersVars

-----------------------------------------------------------------------------
(***************************************************************************)
(* Properties.                                                             *)
(***************************************************************************)

(* Every variable has its type; no user's name is longer than its buffer.  *)
UsersTypeOK ==
    LET UserInfo == [userStatus : {"Available", "Occupied"}, nameSize : 0..MaxNameSize,
                     credentialCount : 0..MaxCredentials]
        Buffers == Names \cup {NoName, CutName}
        Lists == [1..MaxCredentials -> CredentialIds \cup {NoCredential}]
    IN /\ mLockUsers \in [UserIndices -> UserInfo] /\ userFlash.LockUser \in [UserIndices -> UserInfo]
       /\ mUserNames \in [UserIndices -> Buffers] /\ userFlash.LockUserName \in [UserIndices -> Buffers]
       /\ mCredentials \in [UserIndices -> Lists] /\ userFlash.UserCredentials \in [UserIndices -> Lists]
       /\ DOMAIN userFlash = UserKeys
       /\ userBeingSet \in UserIndices \cup {NoUser}
       /\ userKeysLeft = <<>> <=> userBeingSet = NoUser
       /\ userFailed \in BOOLEAN /\ unsavedUsers \subseteq UserIndices

(* GetUser: an available user has nothing else to read; the name is as     *)
(* many bytes of its buffer as the user says, the credentials as many      *)
(* entries of its list.                                                    *)
ReadName(i) == IF mUserNames[i] \in Names /\ NameSize[mUserNames[i]] = mLockUsers[i].nameSize
                 THEN mUserNames[i] ELSE CutName

GetUser(i) ==
    IF mLockUsers[i].userStatus = "Available"
      THEN [userStatus |-> "Available"]
      ELSE [userStatus |-> mLockUsers[i].userStatus,
            userName |-> ReadName(i),
            credentials |-> SubSeq(mCredentials[i], 1, mLockUsers[i].credentialCount)]

UserValues ==
    {[userStatus |-> "Available"]} \cup
    [userStatus : {"Occupied"}, userName : Names, credentials : CredentialLists]

UserStore ==
    INSTANCE DurableStore
      WITH Slots <- UserIndices, Values <- UserValues, Blank <- [userStatus |-> "Available"],
           NoSlot <- NoUser, content <- [i \in UserIndices |-> GetUser(i)], setting <- userBeingSet,
           unsaved <- unsavedUsers

(* Users read back as they were set, before and after any loss of power,   *)
(* except for the one being set when power is lost and those whose saving  *)
(* failed and that no later call has saved: "Save user information in NVM  *)
(* flash" (SetUser).                                                       *)
KeepsUsers == UserStore!Spec
=============================================================================
