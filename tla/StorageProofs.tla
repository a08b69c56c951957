---------------------------- MODULE StorageProofs ----------------------------
(***************************************************************************)
(* Proofs about the tables of the lock, for every size of the arrays,      *)
(* names, credentials and schedules, with power lost at any moment and any *)
(* write failing: each table keeps its type and is the DurableStore that   *)
(* its readers take it for.                                                *)
(***************************************************************************)
EXTENDS Users, Credentials, ScheduleTable, TLAPS

-----------------------------------------------------------------------------
(***************************************************************************)
(* Schedules.                                                              *)
(***************************************************************************)

(* What has not been set since the key was written is in flash, as far as  *)
(* the key reaches.                                                        *)
SchedulesInv ==
    /\ SchedulesTypeOK
    /\ scheduleBeingSet # NoSlot => scheduleBeingSet \in unsavedSchedules
    /\ \A s \in WholeSlots \ unsavedSchedules : scheduleFlash[s] = schedules[s]

(* Slots have indices within the array, and NoSlot has not.                *)
LEMMA NoSlotIsNone == NoSlot \notin Slots
  BY SchedulesAssumption DEF NoSlot, Slots

(* The indices a set accepts are those of a slot.                          *)
LEMMA ValidIndexIsSlot ==
    ASSUME NEW row \in 0..(UsedRows + 1), NEW column \in 0..(UsedColumns + 1),
           row > 0, column > 0, IsValidIndex(row - 1, column - 1)
    PROVE  <<row - 1, column - 1>> \in Slots
  BY SchedulesAssumption DEF IsValidIndex, Slots

(* The table is empty at first, in memory and in flash.                    *)
LEMMA SchedulesStart == SchedulesInit => SchedulesInv
<1> SUFFICES ASSUME SchedulesInit PROVE SchedulesInv
  OBVIOUS
<1>1. SchedulesTypeOK
  BY DEF SchedulesInit, SchedulesTypeOK, ZeroSchedules
<1> QED BY <1>1 DEF SchedulesInv, SchedulesInit

(* A set keeps the invariant.                                              *)
LEMMA SetScheduleKeeps ==
    ASSUME SchedulesInv, NEW row \in 0..(UsedRows + 1), NEW column \in 0..(UsedColumns + 1),
           NEW status \in {"Available", "Occupied"}, NEW schedule \in Schedules \cup {Zero},
           SetSchedule(row, column, status, schedule)
    PROVE  SchedulesInv'
<1> DEFINE s == <<row - 1, column - 1>>
<1>1. s \in Slots
  BY ValidIndexIsSlot DEF SetSchedule
<1>2. /\ schedules' = [schedules EXCEPT ![s] = [status |-> status, schedule |-> schedule]]
      /\ scheduleBeingSet' = s /\ unsavedSchedules' = unsavedSchedules \cup {s}
      /\ scheduleFlash' = scheduleFlash
  BY DEF SetSchedule
<1> HIDE DEF s
<1>3. SchedulesTypeOK'
  BY <1>1, <1>2 DEF SchedulesInv, SchedulesTypeOK
<1>4. ASSUME NEW w \in WholeSlots \ unsavedSchedules' PROVE scheduleFlash'[w] = schedules'[w]
  <2>1. w \in WholeSlots \ unsavedSchedules /\ w # s /\ w \in Slots
    BY <1>2, <1>4 DEF WholeSlots
  <2> QED BY <1>2, <2>1 DEF SchedulesInv, SchedulesTypeOK
<1>5. WholeSlots' = WholeSlots
  BY DEF WholeSlots
<1> QED BY <1>2, <1>3, <1>4, <1>5 DEF SchedulesInv

(* The write of the key keeps it, whether it succeeds or not.              *)
LEMMA WriteSchedulesKeeps ==
    ASSUME SchedulesInv, NEW stored \in BOOLEAN, WriteSchedules(stored)
    PROVE  SchedulesInv'
<1>1. SavedSchedules \in [Slots -> [status : {"Available", "Occupied"},
                                    schedule : Schedules \cup {Zero, Garbled}]]
  BY DEF SavedSchedules, SchedulesInv, SchedulesTypeOK
<1>2. SchedulesTypeOK'
  BY <1>1 DEF SchedulesInv, SchedulesTypeOK, WriteSchedules
<1>3. ASSUME NEW s \in WholeSlots \ unsavedSchedules' PROVE scheduleFlash'[s] = schedules'[s]
  <2>1. CASE stored
    <3>1. s \in Slots /\ Whole(s)
      BY DEF WholeSlots
    <3> QED BY <2>1, <3>1 DEF WriteSchedules, SavedSchedules
  <2>2. CASE ~stored
    BY <2>2, <1>3 DEF WriteSchedules, SchedulesInv
  <2> QED BY <2>1, <2>2
<1>4. WholeSlots' = WholeSlots
  BY DEF WholeSlots
<1> QED BY <1>2, <1>3, <1>4 DEF SchedulesInv, WriteSchedules

(* Every step keeps the invariant.                                         *)
LEMMA SchedulesStep == SchedulesInv /\ [SchedulesNext]_schedulesVars => SchedulesInv'
<1> SUFFICES ASSUME SchedulesInv, [SchedulesNext]_schedulesVars PROVE SchedulesInv'
  OBVIOUS
<1>1. ASSUME NEW row \in 0..(UsedRows + 1), NEW column \in 0..(UsedColumns + 1),
             \/ \E schedule \in Schedules : SetSchedule(row, column, "Occupied", schedule)
             \/ SetSchedule(row, column, "Available", Zero)
      PROVE  SchedulesInv'
  BY <1>1, SetScheduleKeeps
<1>2. ASSUME NEW stored \in BOOLEAN, WriteSchedules(stored) PROVE SchedulesInv'
  BY <1>2, WriteSchedulesKeeps
<1>3. CASE RestartSchedules
  BY <1>3 DEF RestartSchedules, ReadSchedules, SchedulesInv, SchedulesTypeOK, WholeSlots
<1>4. CASE UNCHANGED schedulesVars
  BY <1>4 DEF schedulesVars, SchedulesInv, SchedulesTypeOK, WholeSlots
<1> QED BY <1>1, <1>2, <1>3, <1>4 DEF SchedulesNext

(* The schedule tables hold schedules only, in memory and in flash, with a *)
(* mark on those of which only some bytes were saved.                      *)
THEOREM SchedulesTypeCorrect == SchedulesSpec => []SchedulesTypeOK
<1>1. SchedulesInv => SchedulesTypeOK
  BY DEF SchedulesInv
<1> QED BY SchedulesStart, SchedulesStep, <1>1, PTL DEF SchedulesSpec

(* A set is a set of the store if the slot is within the saved bytes, and  *)
(* is not seen there otherwise.                                            *)
LEMMA SetScheduleImplements ==
    ASSUME SchedulesInv, NEW row \in 0..(UsedRows + 1), NEW column \in 0..(UsedColumns + 1),
           NEW status \in {"Available", "Occupied"}, NEW schedule,
           status = "Occupied" => schedule \in Schedules,
           SetSchedule(row, column, status, schedule)
    PROVE  [WholeStore!Next]_(WholeStore!vars)
<1> DEFINE s == <<row - 1, column - 1>>
<1>1. s \in Slots /\ s # NoSlot
  BY ValidIndexIsSlot, NoSlotIsNone DEF SetSchedule
<1>2. /\ schedules' = [schedules EXCEPT ![s] = [status |-> status, schedule |-> schedule]]
      /\ scheduleBeingSet = NoSlot
      /\ scheduleBeingSet' = s /\ unsavedSchedules' = unsavedSchedules \cup {s}
  BY DEF SetSchedule
<1> HIDE DEF s
<1>3. ASSUME NEW w \in WholeSlots
      PROVE  GetSchedule(w)' = IF w = s THEN (IF status = "Available" THEN "NotFound" ELSE schedule)
                                        ELSE GetSchedule(w)
  BY <1>1, <1>2 DEF GetSchedule, SchedulesInv, SchedulesTypeOK, WholeSlots
<1>4. WholeSlots' = WholeSlots /\ NoSlot \notin WholeSlots
  BY NoSlotIsNone DEF WholeSlots
<1>5. CASE s \in WholeSlots
  <2> DEFINE v == IF status = "Available" THEN "NotFound" ELSE schedule
  <2>1. v \in Readable
    BY DEF Readable
  <2>2. [w \in WholeSlots |-> GetSchedule(w)'] = [[w \in WholeSlots |-> GetSchedule(w)] EXCEPT ![s] = v]
    BY <1>3, <1>5
  <2>3. unsavedSchedules' \cap WholeSlots = (unsavedSchedules \cap WholeSlots) \cup {s}
    BY <1>2, <1>5
  <2> HIDE DEF v
  <2> QED BY <1>1, <1>2, <1>4, <1>5, <2>1, <2>2, <2>3 DEF WholeStore!Next, WholeStore!Set
<1>6. CASE s \notin WholeSlots
  <2>1. [w \in WholeSlots |-> GetSchedule(w)'] = [w \in WholeSlots |-> GetSchedule(w)]
    BY <1>3, <1>6
  <2>2. unsavedSchedules' \cap WholeSlots = unsavedSchedules \cap WholeSlots
    BY <1>2, <1>6
  <2> QED BY <1>2, <1>4, <1>6, <2>1, <2>2 DEF WholeStore!vars
<1> QED BY <1>5, <1>6

(* Every step is a step of the store or is not seen there.                 *)
LEMMA SchedulesImplement ==
    ASSUME SchedulesInv, [SchedulesNext]_schedulesVars
    PROVE  [WholeStore!Next]_(WholeStore!vars)
<1>1. ASSUME NEW row \in 0..(UsedRows + 1), NEW column \in 0..(UsedColumns + 1),
             \/ \E schedule \in Schedules : SetSchedule(row, column, "Occupied", schedule)
             \/ SetSchedule(row, column, "Available", Zero)
      PROVE  [WholeStore!Next]_(WholeStore!vars)
  BY <1>1, SetScheduleImplements
<1>2. ASSUME NEW stored \in BOOLEAN, WriteSchedules(stored)
      PROVE  [WholeStore!Next]_(WholeStore!vars)
  <2>1. \A s \in WholeSlots : GetSchedule(s)' = GetSchedule(s)
    BY <1>2 DEF WriteSchedules, GetSchedule
  <2>2. WholeSlots' = WholeSlots /\ scheduleBeingSet' = NoSlot
    BY <1>2 DEF WriteSchedules, WholeSlots
  <2>3. unsavedSchedules' \cap WholeSlots \in {{}, unsavedSchedules \cap WholeSlots}
    BY <1>2 DEF WriteSchedules
  <2> QED BY <2>1, <2>2, <2>3 DEF WholeStore!Next, WholeStore!Return
<1>3. CASE RestartSchedules
  <2>1. WholeSlots' = WholeSlots /\ scheduleBeingSet' = NoSlot /\ unsavedSchedules' = {}
    BY <1>3 DEF RestartSchedules, WholeSlots
  <2>2. ASSUME NEW s \in WholeSlots \ unsavedSchedules PROVE GetSchedule(s)' = GetSchedule(s)
    BY <1>3 DEF RestartSchedules, ReadSchedules, GetSchedule, SchedulesInv
  <2> QED BY <2>1, <2>2 DEF WholeStore!Next, WholeStore!Restart
<1>4. CASE UNCHANGED schedulesVars
  BY <1>4 DEF schedulesVars, WholeStore!vars, GetSchedule, WholeSlots
<1> QED BY <1>1, <1>2, <1>3, <1>4 DEF SchedulesNext

(* The schedules within the saved bytes read back as they were set, for    *)
(* any sizes of slots, schedules and tables.                               *)
THEOREM SchedulesAreKept == SchedulesSpec => KeepsWholeSlots
<1>1. SchedulesInit => WholeStore!Init
  BY DEF SchedulesInit, WholeStore!Init, GetSchedule, ZeroSchedules, WholeSlots
<1>2. SchedulesInv /\ [SchedulesNext]_schedulesVars => [WholeStore!Next]_(WholeStore!vars)
  BY SchedulesImplement
<1> QED BY <1>1, <1>2, SchedulesStart, SchedulesStep, PTL
        DEF SchedulesSpec, KeepsWholeSlots, WholeStore!Spec

(* The last schedule that a client can set is never within the saved bytes *)
(* (SetWeekdaySchedule, SetYeardaySchedule, SetHolidaySchedule): whatever  *)
(* the sizes, the count of bytes leaves the status of each slot out.       *)
THEOREM LastScheduleIsNotSaved == <<UsedRows - 1, UsedColumns - 1>> \in UsedSlots \ WholeSlots
<1> DEFINE last == <<UsedRows - 1, UsedColumns - 1>>
           used == UsedColumns * UsedRows
           before == (UsedRows - 1) * Columns + (UsedColumns - 1)
<1>1. last \in UsedSlots
  BY SchedulesAssumption DEF UsedSlots
<1>2. used \in Nat /\ before \in Nat /\ used >= 1 /\ used <= before + 1
  <2>1. UsedColumns \in Nat /\ UsedRows - 1 \in Nat /\ Columns \in Nat /\ UsedColumns <= Columns /\ UsedColumns >= 1
    BY SchedulesAssumption
  <2>2. (UsedRows - 1) * UsedColumns <= (UsedRows - 1) * Columns
    BY <2>1
  <2>3. used = (UsedRows - 1) * UsedColumns + UsedColumns
    BY <2>1, SchedulesAssumption
  <2>4. (UsedRows - 1) * UsedColumns \in Nat /\ (UsedRows - 1) * Columns \in Nat
    BY <2>1
  <2> QED BY <2>1, <2>2, <2>3, <2>4
<1>3. SavedBytes = ItemSize * used /\ Offset(last) + SlotSize = before * SlotSize + SlotSize
  BY SchedulesAssumption, <1>2 DEF SavedBytes, Offset
<1> HIDE DEF used, before
<1>4. ItemSize * used < SlotSize * used
  BY <1>2, SchedulesAssumption
<1>5. SlotSize * used <= SlotSize * (before + 1)
  BY <1>2, SchedulesAssumption
<1>6. SlotSize * (before + 1) = before * SlotSize + SlotSize
  BY <1>2, SchedulesAssumption
<1>7. ItemSize * used \in Nat /\ SlotSize * used \in Nat /\ before * SlotSize + SlotSize \in Nat
  BY <1>2, SchedulesAssumption
<1>8. ~Whole(last)
  BY <1>3, <1>4, <1>5, <1>6, <1>7 DEF Whole
<1> QED BY <1>1, <1>8 DEF WholeSlots

-----------------------------------------------------------------------------
(***************************************************************************)
(* Users.                                                                  *)
(***************************************************************************)

ClientUsers == 0..(NumberOfUsers - 1)

StillToWrite(key) == \E n \in DOMAIN userKeysLeft : userKeysLeft[n] = key

(* The array that is saved under each key, and whether its flash holds of  *)
(* user i what the array does.                                             *)
Arrays == [LockUser |-> mLockUsers, UserCredentials |-> mCredentials, LockUserName |-> mUserNames]

InFlash(key, i) == userFlash[key][i] = Arrays[key][i]

(* SetUser writes the last of its keys in order.                           *)
KeysInOrder ==
    userKeysLeft \in {<<>>, <<"LockUserName">>, <<"UserCredentials", "LockUserName">>,
                      <<"LockUser", "UserCredentials", "LockUserName">>}

(* What has not been set since a call saved all its keys is in flash, and  *)
(* so is all that the current call has written without a failure.          *)
UsersInv ==
    /\ UsersTypeOK
    /\ KeysInOrder
    /\ unsavedUsers \subseteq ClientUsers
    /\ userBeingSet # NoUser => userBeingSet \in unsavedUsers
    /\ \A i \in UserIndices \ unsavedUsers, key \in UserKeys : InFlash(key, i)
    /\ userKeysLeft # <<>> /\ ~userFailed =>
           \A i \in ClientUsers, key \in UserKeys : StillToWrite(key) \/ InFlash(key, i)

(* The users of the cluster are users of the array.                        *)
LEMMA ClientUsersAreUsers == ClientUsers \subseteq UserIndices /\ NoUser \notin UserIndices
  BY UsersAssumption DEF ClientUsers, UserIndices, NoUser

(* The arrays are zero at first, and so is the flash.                      *)
LEMMA UsersStart == UsersInit => UsersInv
<1> SUFFICES ASSUME UsersInit PROVE UsersInv
  OBVIOUS
<1>1. UsersTypeOK
  <2>1. /\ ZeroUsers \in [UserIndices -> [userStatus : {"Available", "Occupied"}, nameSize : 0..MaxNameSize,
                                         credentialCount : 0..MaxCredentials]]
        /\ ZeroNames \in [UserIndices -> Names \cup {NoName, CutName}]
        /\ ZeroLists \in [UserIndices -> [1..MaxCredentials -> CredentialIds \cup {NoCredential}]]
    BY UsersAssumption DEF ZeroUsers, ZeroUser, ZeroNames, ZeroLists
  <2>2. userKeysLeft = <<>> /\ userBeingSet = NoUser /\ userFailed = FALSE /\ unsavedUsers = {}
    BY DEF UsersInit
  <2>3. DOMAIN userFlash = UserKeys
    BY DEF UsersInit, UserKeys
  <2> QED BY <2>1, <2>2, <2>3 DEF UsersInit, UsersTypeOK
<1>2. \A key \in UserKeys : userFlash[key] = Arrays[key]
  BY DEF UsersInit, UserKeys, Arrays
<1> QED BY <1>1, <1>2 DEF UsersInv, UsersInit, KeysInOrder, InFlash

(* A list of credentials is a sequence, no longer than a user's list.      *)
LEMMA ListType ==
    ASSUME NEW credentials \in CredentialLists
    PROVE  /\ Len(credentials) \in 0..MaxCredentials
           /\ credentials \in [1..Len(credentials) -> CredentialIds]
           /\ credentials \in Seq(CredentialIds)
<1>1. PICK n \in 0..MaxCredentials : credentials \in [1..n -> CredentialIds]
  BY DEF CredentialLists
<1>2. credentials \in Seq(CredentialIds) /\ Len(credentials) = n
  BY <1>1, UsersAssumption
<1> QED BY <1>1, <1>2

(* What SetUser does to the arrays, when it accepts what it is given.      *)
LEMMA SetUserEffect ==
    ASSUME UsersInv, NEW userIndex \in 0..NumberOfUsers, NEW name \in Names,
           NEW status \in {"Available", "Occupied"}, NEW credentials \in CredentialLists,
           SetUser(userIndex, name, status, credentials)
    PROVE  LET i == userIndex - 1 IN
           /\ i \in ClientUsers /\ i \in UserIndices
           /\ mLockUsers'[i] = [userStatus |-> status, nameSize |-> NameSize[name],
                                credentialCount |-> Len(credentials)]
           /\ mUserNames'[i] = CopyString(name)
           /\ mCredentials'[i] = [n \in 1..MaxCredentials |->
                  IF n <= Len(credentials) THEN credentials[n] ELSE mCredentials[i][n]]
           /\ \A j \in UserIndices : j # i => /\ mLockUsers'[j] = mLockUsers[j]
                                              /\ mUserNames'[j] = mUserNames[j]
                                              /\ mCredentials'[j] = mCredentials[j]
<1> DEFINE i == userIndex - 1
<1>1. i \in ClientUsers /\ i \in UserIndices
  BY UsersAssumption DEF SetUser, IsValidUserIndex, ClientUsers, UserIndices
<1>2. /\ mUserNames' = [mUserNames EXCEPT ![i] = CopyString(name)]
      /\ mLockUsers' = [mLockUsers EXCEPT ![i] = [userStatus |-> status, nameSize |-> NameSize[name],
                                                  credentialCount |-> Len(credentials)]]
      /\ mCredentials' = [mCredentials EXCEPT ![i] =
              [n \in 1..MaxCredentials |->
                  IF n <= Len(credentials) THEN credentials[n] ELSE mCredentials[i][n]]]
  BY <1>1 DEF SetUser, UsersInv, UsersTypeOK
<1> HIDE DEF i
<1> QED BY <1>1, <1>2 DEF i, UsersInv, UsersTypeOK

(* A set keeps the types.                                                  *)
LEMMA SetUserTypes ==
    ASSUME UsersInv, NEW userIndex \in 0..NumberOfUsers, NEW name \in Names,
           NEW status \in {"Available", "Occupied"}, NEW credentials \in CredentialLists,
           SetUser(userIndex, name, status, credentials)
    PROVE  UsersTypeOK'
<1> DEFINE i == userIndex - 1
<1>1. i \in UserIndices
  BY SetUserEffect
<1>2. NameSize[name] \in 0..MaxNameSize
  BY UsersAssumption DEF SetUser, NameFits
<1>3. CopyString(name) \in Names \cup {NoName, CutName}
  BY DEF CopyString
<1>4. ASSUME NEW list \in [1..MaxCredentials -> CredentialIds \cup {NoCredential}]
      PROVE  [n \in 1..MaxCredentials |-> IF n <= Len(credentials) THEN credentials[n] ELSE list[n]]
                 \in [1..MaxCredentials -> CredentialIds \cup {NoCredential}]
  BY ListType
<1>5. Len(credentials) \in 0..MaxCredentials
  BY ListType
<1>6. userBeingSet' = i /\ userKeysLeft' # <<>> /\ userFlash' = userFlash
  BY DEF SetUser, SavedUserKeys
<1>7. i # NoUser
  BY <1>1, ClientUsersAreUsers
<1> HIDE DEF i
<1>8. /\ mUserNames' = [mUserNames EXCEPT ![i] = CopyString(name)]
      /\ mLockUsers' = [mLockUsers EXCEPT ![i] = [userStatus |-> status, nameSize |-> NameSize[name],
                                                  credentialCount |-> Len(credentials)]]
      /\ mCredentials' = [mCredentials EXCEPT ![i] =
              [n \in 1..MaxCredentials |->
                  IF n <= Len(credentials) THEN credentials[n] ELSE mCredentials[i][n]]]
      /\ userFailed' = FALSE /\ unsavedUsers' = unsavedUsers \cup {i}
  BY <1>1 DEF i, SetUser, UsersInv, UsersTypeOK
<1>9. /\ mLockUsers' \in [UserIndices -> [userStatus : {"Available", "Occupied"},
                              nameSize : 0..MaxNameSize, credentialCount : 0..MaxCredentials]]
      /\ mUserNames' \in [UserIndices -> Names \cup {NoName, CutName}]
  BY <1>1, <1>2, <1>3, <1>5, <1>8 DEF UsersInv, UsersTypeOK
<1>10. mCredentials' \in [UserIndices -> [1..MaxCredentials -> CredentialIds \cup {NoCredential}]]
  BY <1>1, <1>4, <1>8 DEF UsersInv, UsersTypeOK
<1> QED BY <1>1, <1>6, <1>7, <1>8, <1>9, <1>10 DEF UsersInv, UsersTypeOK

(* A set keeps the invariant.                                              *)
LEMMA SetUserKeeps ==
    ASSUME UsersInv, NEW userIndex \in 0..NumberOfUsers, NEW name \in Names,
           NEW status \in {"Available", "Occupied"}, NEW credentials \in CredentialLists,
           SetUser(userIndex, name, status, credentials)
    PROVE  UsersInv'
<1> DEFINE i == userIndex - 1
<1>1. /\ userKeysLeft' = SavedUserKeys /\ userBeingSet' = i /\ userFlash' = userFlash
      /\ unsavedUsers' = unsavedUsers \cup {i}
  BY DEF SetUser
<1>2. /\ i \in ClientUsers /\ i \in UserIndices
      /\ \A j \in UserIndices : j # i => /\ mLockUsers'[j] = mLockUsers[j]
                                         /\ mUserNames'[j] = mUserNames[j]
                                         /\ mCredentials'[j] = mCredentials[j]
  BY SetUserEffect
<1> HIDE DEF i
<1>3. UsersTypeOK' /\ KeysInOrder'
  BY <1>1, SetUserTypes DEF KeysInOrder, SavedUserKeys
<1>4. \A key \in UserKeys : StillToWrite(key)'
  <2>1. DOMAIN SavedUserKeys = 1..3 /\ UserKeys = {SavedUserKeys[1], SavedUserKeys[2], SavedUserKeys[3]}
    BY DEF SavedUserKeys, UserKeys
  <2> QED BY <1>1, <2>1 DEF StillToWrite
<1>5. ASSUME NEW j \in UserIndices \ unsavedUsers', NEW key \in UserKeys
      PROVE  InFlash(key, j)'
  BY <1>1, <1>2, <1>5 DEF UsersInv, InFlash, Arrays, UserKeys
<1> QED BY <1>1, <1>2, <1>3, <1>4, <1>5 DEF UsersInv, UserIndices, ClientUsers

(* The write of a key is seen in flash for every user of the cluster.      *)
LEMMA SavedPartIsArray ==
    ASSUME NEW key \in UserKeys, NEW i \in ClientUsers
    PROVE  SavedParts[key][i] = Arrays[key][i]
  BY ClientUsersAreUsers, UsersAssumption DEF SavedParts, Arrays, UserKeys, ClientUsers

(* Users that a client cannot name are saved as they were.                 *)
LEMMA SavedPartElsewhere ==
    ASSUME NEW key \in UserKeys, NEW i \in UserIndices, InFlash(key, i)
    PROVE  SavedParts[key][i] = Arrays[key][i]
  BY DEF SavedParts, Arrays, UserKeys, InFlash

(* The keys in order, as a call goes through them.                         *)
LEMMA KeysLeft ==
    ASSUME KeysInOrder, userKeysLeft # <<>>
    PROVE  /\ Head(userKeysLeft) \in UserKeys
           /\ Tail(userKeysLeft) \in {<<>>, <<"LockUserName">>, <<"UserCredentials", "LockUserName">>}
           /\ Len(userKeysLeft) = 1 <=> Tail(userKeysLeft) = <<>>
           /\ \A key \in UserKeys : StillToWrite(key) =>
                 key = Head(userKeysLeft) \/ \E n \in DOMAIN Tail(userKeysLeft) : Tail(userKeysLeft)[n] = key
<1> USE DEF UserKeys, StillToWrite
<1>1. CASE userKeysLeft = <<"LockUserName">>
  <2>1. Tail(userKeysLeft) = <<>> /\ Head(userKeysLeft) = "LockUserName" /\ DOMAIN userKeysLeft = {1}
    BY <1>1
  <2> QED BY <1>1, <2>1
<1>2. CASE userKeysLeft = <<"UserCredentials", "LockUserName">>
  <2>1. /\ Tail(userKeysLeft) = <<"LockUserName">> /\ Head(userKeysLeft) = "UserCredentials"
        /\ DOMAIN userKeysLeft = {1, 2} /\ DOMAIN Tail(userKeysLeft) = {1} /\ Len(userKeysLeft) = 2
    BY <1>2
  <2> QED BY <1>2, <2>1
<1>3. CASE userKeysLeft = <<"LockUser", "UserCredentials", "LockUserName">>
  <2>1. /\ Tail(userKeysLeft) = <<"UserCredentials", "LockUserName">> /\ Head(userKeysLeft) = "LockUser"
        /\ DOMAIN userKeysLeft = {1, 2, 3} /\ DOMAIN Tail(userKeysLeft) = {1, 2} /\ Len(userKeysLeft) = 3
    BY <1>3
  <2> QED BY <1>3, <2>1
<1> QED BY <1>1, <1>2, <1>3 DEF KeysInOrder

(* A write keeps the types.                                                *)
LEMMA WriteUserKeyTypes ==
    ASSUME UsersInv, NEW stored \in BOOLEAN, WriteUserKey(stored)
    PROVE  UsersTypeOK'
<1> USE DEF UsersInv, UsersTypeOK, KeysInOrder
<1>1. UNCHANGED <<mLockUsers, mUserNames, mCredentials>>
  BY DEF WriteUserKey
<1>2. /\ userKeysLeft' = Tail(userKeysLeft)
      /\ userBeingSet' = IF Len(userKeysLeft) = 1 THEN NoUser ELSE userBeingSet
      /\ userFailed' \in BOOLEAN /\ unsavedUsers' \subseteq unsavedUsers
      /\ userKeysLeft # <<>>
  BY DEF WriteUserKey
<1>3. userKeysLeft' = <<>> <=> userBeingSet' = NoUser
  BY <1>2, KeysLeft
<1>4. Head(userKeysLeft) \in UserKeys
  BY <1>2, KeysLeft
<1>5. userFlash' = IF stored THEN [userFlash EXCEPT ![Head(userKeysLeft)] = SavedParts[Head(userKeysLeft)]]
                             ELSE userFlash
  BY DEF WriteUserKey
<1>6. DOMAIN userFlash' = UserKeys
  BY <1>5
<1>7. \A key \in UserKeys : userFlash'[key] \in {userFlash[key], SavedParts[key]}
  BY <1>4, <1>5
<1>8. /\ userFlash'.LockUser \in {userFlash.LockUser, SavedParts["LockUser"]}
      /\ userFlash'.LockUserName \in {userFlash.LockUserName, SavedParts["LockUserName"]}
      /\ userFlash'.UserCredentials \in {userFlash.UserCredentials, SavedParts["UserCredentials"]}
  BY <1>7 DEF UserKeys
<1>9. SavedParts["LockUser"] \in [UserIndices -> [userStatus : {"Available", "Occupied"},
                              nameSize : 0..MaxNameSize, credentialCount : 0..MaxCredentials]]
  BY DEF SavedParts
<1>10. SavedParts["LockUserName"] \in [UserIndices -> Names \cup {NoName, CutName}]
  BY DEF SavedParts
<1>11. SavedParts["UserCredentials"] \in [UserIndices -> [1..MaxCredentials -> CredentialIds \cup {NoCredential}]]
  BY DEF SavedParts
<1> QED BY <1>1, <1>2, <1>3, <1>6, <1>8, <1>9, <1>10, <1>11

(* A write keeps the invariant: the last of a call without failures has    *)
(* saved all that there is to save.                                        *)
LEMMA WriteUserKeyKeeps ==
    ASSUME UsersInv, NEW stored \in BOOLEAN, WriteUserKey(stored)
    PROVE  UsersInv'
<1> DEFINE key == Head(userKeysLeft)
<1>1. /\ userKeysLeft # <<>> /\ userKeysLeft' = Tail(userKeysLeft)
      /\ userFlash' = IF stored THEN [userFlash EXCEPT ![key] = SavedParts[key]] ELSE userFlash
      /\ UNCHANGED <<mLockUsers, mUserNames, mCredentials>>
      /\ userBeingSet' \in {userBeingSet, NoUser}
      /\ Len(userKeysLeft) # 1 =>
             unsavedUsers' = unsavedUsers /\ userFailed' = (userFailed \/ ~stored)
      /\ Len(userKeysLeft) = 1 =>
             userBeingSet' = NoUser /\ unsavedUsers' = IF userFailed \/ ~stored THEN unsavedUsers ELSE {}
  BY DEF WriteUserKey
<1>2. key \in UserKeys /\ KeysInOrder'
  BY <1>1, KeysLeft DEF UsersInv, KeysInOrder
<1>3. \A k \in UserKeys : Arrays'[k] = Arrays[k]
  BY <1>1 DEF Arrays
<1>4. \A k \in UserKeys : userFlash'[k] = IF stored /\ k = key THEN SavedParts[key] ELSE userFlash[k]
  BY <1>1, <1>2 DEF UsersInv, UsersTypeOK
<1>5. \A k \in UserKeys : StillToWrite(k) => StillToWrite(k)' \/ k = key
  BY <1>1, KeysLeft DEF StillToWrite, UsersInv
<1>6. Len(userKeysLeft) = 1 <=> userKeysLeft' = <<>>
  BY <1>1, KeysLeft DEF UsersInv
<1> HIDE DEF key
<1>7. ASSUME NEW k \in UserKeys, NEW i \in UserIndices, InFlash(k, i)
      PROVE  InFlash(k, i)'
  BY <1>3, <1>4, <1>7, SavedPartElsewhere DEF InFlash
<1>8. ASSUME NEW i \in ClientUsers, NEW k \in UserKeys, ~userFailed, stored, ~StillToWrite(k)'
      PROVE  InFlash(k, i)'
  <2>1. CASE k = key
    BY <1>3, <1>4, <1>8, <2>1, SavedPartIsArray DEF InFlash
  <2>2. CASE k # key
    BY <1>1, <1>5, <1>7, <1>8, <2>2, ClientUsersAreUsers DEF UsersInv
  <2> QED BY <2>1, <2>2
<1>9. ASSUME NEW i \in UserIndices \ unsavedUsers', NEW k \in UserKeys
      PROVE  InFlash(k, i)'
  <2>1. CASE i \notin unsavedUsers
    BY <1>7, <2>1 DEF UsersInv
  <2>2. CASE i \in unsavedUsers
    <3>1. Len(userKeysLeft) = 1 /\ ~userFailed /\ stored
      BY <1>1, <1>9, <2>2
    <3>2. ~StillToWrite(k)'
      BY <1>6, <3>1 DEF StillToWrite
    <3> QED BY <1>8, <2>2, <3>1, <3>2 DEF UsersInv
  <2> QED BY <2>1, <2>2
<1>10. ASSUME userKeysLeft' # <<>>, ~userFailed', NEW i \in ClientUsers, NEW k \in UserKeys
       PROVE  StillToWrite(k)' \/ InFlash(k, i)'
  BY <1>1, <1>6, <1>8, <1>10
<1>11. unsavedUsers' \subseteq ClientUsers /\ (userBeingSet' # NoUser => userBeingSet' \in unsavedUsers')
  BY <1>1 DEF UsersInv
<1> QED BY <1>2, <1>9, <1>10, <1>11, WriteUserKeyTypes DEF UsersInv, UserIndices, ClientUsers

(* A restart makes the arrays what is in flash.                            *)
LEMMA RestartUsersKeeps ==
    ASSUME UsersInv, RestartUsers
    PROVE  UsersInv'
<1>1. UsersTypeOK'
  BY DEF RestartUsers, UsersInv, UsersTypeOK
<1>2. \A key \in UserKeys : userFlash'[key] = Arrays'[key]
  BY DEF RestartUsers, Arrays, UserKeys
<1> QED BY <1>1, <1>2 DEF RestartUsers, UsersInv, KeysInOrder, InFlash

(* Every step keeps the invariant.                                         *)
LEMMA UsersStep == UsersInv /\ [UsersNext]_usersVars => UsersInv'
<1> SUFFICES ASSUME UsersInv, [UsersNext]_usersVars PROVE UsersInv'
  OBVIOUS
<1>1. ASSUME NEW userIndex \in 0..NumberOfUsers, NEW name \in Names,
             \/ \E credentials \in CredentialLists : SetUser(userIndex, name, "Occupied", credentials)
             \/ SetUser(userIndex, name, "Available", <<>>)
      PROVE  UsersInv'
  <2>1. <<>> \in CredentialLists
    <3>1. <<>> \in [1..0 -> CredentialIds] /\ 0 \in 0..MaxCredentials
      BY UsersAssumption
    <3> QED BY <3>1 DEF CredentialLists
  <2> QED BY <1>1, <2>1, SetUserKeeps
<1>2. ASSUME NEW stored \in BOOLEAN, WriteUserKey(stored) PROVE UsersInv'
  BY <1>2, WriteUserKeyKeeps
<1>3. CASE RestartUsers
  BY <1>3, RestartUsersKeeps
<1>4. CASE UNCHANGED usersVars
  <2>1. /\ UNCHANGED <<mLockUsers, mUserNames, mCredentials, userFlash>>
        /\ UNCHANGED <<userKeysLeft, userFailed, userBeingSet, unsavedUsers>>
    BY <1>4 DEF usersVars
  <2>2. UsersTypeOK' /\ KeysInOrder'
    BY <2>1 DEF UsersInv, UsersTypeOK, KeysInOrder
  <2>3. \A k \in UserKeys, j \in UserIndices : InFlash(k, j) => InFlash(k, j)'
    BY <2>1 DEF InFlash, Arrays
  <2>4. \A j \in UserIndices \ unsavedUsers', k \in UserKeys : InFlash(k, j)'
    BY <2>1, <2>3 DEF UsersInv
  <2>5. userKeysLeft' # <<>> /\ ~userFailed' =>
            \A j \in ClientUsers, k \in UserKeys : StillToWrite(k)' \/ InFlash(k, j)'
    BY <2>1, <2>3, ClientUsersAreUsers DEF UsersInv, StillToWrite
  <2> QED BY <2>1, <2>2, <2>4, <2>5 DEF UsersInv, UserIndices, ClientUsers
<1> QED BY <1>1, <1>2, <1>3, <1>4 DEF UsersNext

(* The user table and its flash keep their types; in particular no name is *)
(* longer than its buffer (SetUser).                                       *)
THEOREM UsersTypeCorrect == UsersSpec => []UsersTypeOK
<1>1. UsersInv => UsersTypeOK
  BY DEF UsersInv
<1> QED BY UsersStart, UsersStep, <1>1, PTL DEF UsersSpec

(* A set is a set of the store, if the name leaves room for the            *)
(* terminating NUL in its buffer: GetUser returns what SetUser was given.  *)
LEMMA SetUserImplements ==
    ASSUME UsersInv, \A name \in Names : NameSize[name] # MaxNameSize,
           NEW userIndex \in 0..NumberOfUsers, NEW name \in Names,
           NEW status \in {"Available", "Occupied"}, NEW credentials \in CredentialLists,
           SetUser(userIndex, name, status, credentials)
    PROVE  UserStore!Next
<1> DEFINE i == userIndex - 1
           v == IF status = "Available" THEN [userStatus |-> "Available"]
                ELSE [userStatus |-> "Occupied", userName |-> name, credentials |-> credentials]
<1>1. NameSize[name] < MaxNameSize
  BY UsersAssumption DEF SetUser, NameFits
<1>2. i \in UserIndices /\ GetUser(i)' = v
  <2>1. /\ i \in UserIndices
        /\ mLockUsers'[i] = [userStatus |-> status, nameSize |-> NameSize[name],
                             credentialCount |-> Len(credentials)]
        /\ mUserNames'[i] = CopyString(name)
        /\ mCredentials'[i] = [n \in 1..MaxCredentials |->
               IF n <= Len(credentials) THEN credentials[n] ELSE mCredentials[i][n]]
    BY SetUserEffect
  <2>2. ReadName(i)' = name
    BY <1>1, <2>1 DEF ReadName, CopyString
  <2>3. SubSeq(mCredentials'[i], 1, Len(credentials)) = credentials
    <3>1. /\ Len(credentials) \in 0..MaxCredentials
          /\ credentials \in [1..Len(credentials) -> CredentialIds]
      BY ListType
    <3>2. \A n \in 1..Len(credentials) : mCredentials'[i][n] = credentials[n]
      BY <2>1, <3>1, UsersAssumption
    <3> QED BY <2>1, <3>1, <3>2
  <2>4. mLockUsers'[i].userStatus = status /\ mLockUsers'[i].credentialCount = Len(credentials)
    BY <2>1
  <2>5. GetUser(i)' = IF status = "Available" THEN [userStatus |-> "Available"]
                      ELSE [userStatus |-> status, userName |-> name, credentials |-> credentials]
    BY <2>2, <2>3, <2>4 DEF GetUser
  <2> QED BY <2>1, <2>5
<1>3. v \in UserValues
  BY DEF UserValues
<1>4. \A j \in UserIndices : j # i => GetUser(j)' = GetUser(j)
  <2>1. \A j \in UserIndices : j # i => /\ mLockUsers'[j] = mLockUsers[j]
                                         /\ mUserNames'[j] = mUserNames[j]
                                         /\ mCredentials'[j] = mCredentials[j]
    BY SetUserEffect
  <2> QED BY <2>1 DEF GetUser, ReadName
<1>5. /\ userBeingSet = NoUser /\ userBeingSet' = i /\ unsavedUsers' = unsavedUsers \cup {i}
  BY DEF SetUser, UsersInv, UsersTypeOK
<1> HIDE DEF i, v
<1>6. [j \in UserIndices |-> GetUser(j)'] = [[j \in UserIndices |-> GetUser(j)] EXCEPT ![i] = v]
  BY <1>2, <1>4
<1> QED BY <1>2, <1>3, <1>5, <1>6 DEF UserStore!Next, UserStore!Set

(* Every step is a step of the store or is not seen there.                 *)
LEMMA UsersImplement ==
    ASSUME UsersInv, \A name \in Names : NameSize[name] # MaxNameSize, [UsersNext]_usersVars
    PROVE  [UserStore!Next]_(UserStore!vars)
<1>1. ASSUME NEW userIndex \in 0..NumberOfUsers, NEW name \in Names,
             \/ \E credentials \in CredentialLists : SetUser(userIndex, name, "Occupied", credentials)
             \/ SetUser(userIndex, name, "Available", <<>>)
      PROVE  UserStore!Next
  <2>1. <<>> \in CredentialLists
    <3>1. <<>> \in [1..0 -> CredentialIds] /\ 0 \in 0..MaxCredentials
      BY UsersAssumption
    <3> QED BY <3>1 DEF CredentialLists
  <2> QED BY <1>1, <2>1, SetUserImplements
<1>2. ASSUME NEW stored \in BOOLEAN, WriteUserKey(stored)
      PROVE  [UserStore!Next]_(UserStore!vars)
  <2>1. \A i \in UserIndices : GetUser(i)' = GetUser(i)
    BY <1>2 DEF WriteUserKey, GetUser, ReadName
  <2>2. CASE Len(userKeysLeft) = 1
    <3>1. userBeingSet' = NoUser /\ unsavedUsers' \in {{}, unsavedUsers}
      BY <1>2, <2>2 DEF WriteUserKey
    <3> QED BY <2>1, <3>1 DEF UserStore!Next, UserStore!Return
  <2>3. CASE Len(userKeysLeft) # 1
    <3>1. userBeingSet' = userBeingSet /\ unsavedUsers' = unsavedUsers
      BY <1>2, <2>3 DEF WriteUserKey
    <3> QED BY <2>1, <3>1 DEF UserStore!vars
  <2> QED BY <2>2, <2>3
<1>3. CASE RestartUsers
  <2>1. userBeingSet' = NoUser /\ unsavedUsers' = {}
    BY <1>3 DEF RestartUsers
  <2>2. ASSUME NEW i \in UserIndices \ unsavedUsers PROVE GetUser(i)' = GetUser(i)
    <3>1. InFlash("LockUser", i) /\ InFlash("LockUserName", i) /\ InFlash("UserCredentials", i)
      BY DEF UsersInv, UserKeys
    <3>2. /\ mLockUsers'[i] = mLockUsers[i] /\ mUserNames'[i] = mUserNames[i]
          /\ mCredentials'[i] = mCredentials[i]
      BY <1>3, <3>1 DEF RestartUsers, InFlash, Arrays
    <3> QED BY <3>2 DEF GetUser, ReadName
  <2> QED BY <2>1, <2>2 DEF UserStore!Next, UserStore!Restart
<1>4. CASE UNCHANGED usersVars
  BY <1>4 DEF usersVars, UserStore!vars, GetUser, ReadName
<1> QED BY <1>1, <1>2, <1>3, <1>4 DEF UsersNext

(* Users read back as they were set, for any sizes, as long as no name is  *)
(* exactly as long as its buffer: SetUser lets such a name through, and    *)
(* CopyString takes its last byte for the terminating NUL.                 *)
THEOREM UsersAreKept ==
    ASSUME \A name \in Names : NameSize[name] # MaxNameSize
    PROVE  UsersSpec => KeepsUsers
<1>1. UsersInit => UserStore!Init
  BY DEF UsersInit, UserStore!Init, GetUser, ZeroUsers, ZeroUser
<1>2. UsersInv /\ [UsersNext]_usersVars => [UserStore!Next]_(UserStore!vars)
  BY UsersImplement
<1> QED BY <1>1, <1>2, UsersStart, UsersStep, PTL DEF UsersSpec, KeepsUsers, UserStore!Spec

(* A name that is exactly as long as its buffer is accepted and read back  *)
(* as another.                                                             *)
THEOREM FullNameIsCut ==
    ASSUME UsersInv, NEW userIndex \in 0..NumberOfUsers, NEW name \in Names,
           NameSize[name] = MaxNameSize, CutName \notin Names,
           NEW credentials \in CredentialLists,
           SetUser(userIndex, name, "Occupied", credentials)
    PROVE  GetUser(userIndex - 1)'.userName = CutName
<1> DEFINE i == userIndex - 1
<1>1. /\ mLockUsers'[i] = [userStatus |-> "Occupied", nameSize |-> NameSize[name],
                           credentialCount |-> Len(credentials)]
      /\ mUserNames'[i] = CopyString(name)
  BY SetUserEffect
<1>2. CopyString(name) = CutName
  BY UsersAssumption DEF CopyString
<1>3. ReadName(i)' = CutName /\ mLockUsers'[i].userStatus = "Occupied"
  BY <1>1, <1>2 DEF ReadName
<1> QED BY <1>3 DEF GetUser

-----------------------------------------------------------------------------
(***************************************************************************)
(* Credentials.                                                            *)
(***************************************************************************)

(* The cell of a credential that a client names.                           *)
CellOf(k) == <<k[1], StorageIndex(k[2], k[1])>>

CredentialInFlash(k) ==
    /\ credentialFlash.Credential[CellOf(k)] = mLockCredentials[CellOf(k)]
    /\ credentialFlash.CredentialData[CellOf(k)] = mCredentialData[CellOf(k)]

(* What has not been set since a call saved both keys is in flash, and so  *)
(* is the first key when only the second is left and no write has failed.  *)
CredentialsInv ==
    /\ CredentialsTypeOK
    /\ credentialBeingSet # NoCredentialKey => credentialBeingSet \in unsavedCredentials
    /\ \A k \in CredentialKeys \ unsavedCredentials : CredentialInFlash(k)
    /\ credentialKeysLeft = 1 /\ ~credentialFailed => credentialFlash.Credential = mLockCredentials

(* The index into the arrays is one less than the client's, but for the    *)
(* programming PIN; index 0 of another type wraps around to one that no    *)
(* array has.                                                              *)
LEMMA IndexTranslation ==
    ASSUME NEW type \in 0..NumTypes, NEW index \in 0..(MaxIndex + 1)
    PROVE  /\ Accessible(index, type) => <<type, index>> \in CredentialKeys
           /\ type # ProgrammingPIN /\ index \in 1..MaxIndex => StorageIndex(index, type) = index - 1
           /\ type = ProgrammingPIN => StorageIndex(index, type) = index
<1> USE CredentialsAssumption
<1>1. 2^16 = 65536
  OBVIOUS
<1>2. index # 0 => Decremented(index) = index - 1
  BY <1>1 DEF Decremented
<1>3. Decremented(0) = 65535
  BY <1>1 DEF Decremented
<1>4. type # ProgrammingPIN /\ index \in 1..MaxIndex => StorageIndex(index, type) = index - 1
  BY <1>2 DEF StorageIndex
<1>5. type = ProgrammingPIN => StorageIndex(index, type) = index
  BY DEF StorageIndex
<1>6. ASSUME type = ProgrammingPIN, Accessible(index, type)
      PROVE  <<type, index>> \in CredentialKeys
  BY <1>5, <1>6 DEF Accessible, IsValidCredentialIndex, CredentialKeys
<1>7. ASSUME type # ProgrammingPIN, Accessible(index, type)
      PROVE  <<type, index>> \in CredentialKeys
  <2>1. type \in Types \ {ProgrammingPIN} /\ StorageIndex(index, type) = Decremented(index)
    BY <1>7 DEF Accessible, IsValidCredentialType, Types, StorageIndex
  <2>2. Decremented(index) < MaxIndex
    BY <1>7, <2>1 DEF Accessible, IsValidCredentialIndex
  <2>3. index \in 1..MaxIndex
    BY <1>1, <1>2, <1>3, <2>2
  <2> QED BY <2>1, <2>3 DEF CredentialKeys
<1> QED BY <1>4, <1>5, <1>6, <1>7

(* Each credential a client can name has a cell of its own.                *)
LEMMA CellsDiffer ==
    ASSUME NEW k \in CredentialKeys, NEW l \in CredentialKeys
    PROVE  /\ CellOf(k) \in Cells
           /\ CellOf(k) = CellOf(l) => k = l
           /\ k # NoCredentialKey
<1> USE CredentialsAssumption
<1>1. ASSUME NEW m \in CredentialKeys
      PROVE  /\ m = <<m[1], m[2]>> /\ m[1] \in Types /\ m[2] \in 0..MaxIndex
             /\ CellOf(m) \in Cells
             /\ CellOf(m) = IF m[1] = ProgrammingPIN THEN <<m[1], 0>> ELSE <<m[1], m[2] - 1>>
             /\ m[1] = ProgrammingPIN => m[2] = 0
             /\ m[1] # ProgrammingPIN => m[2] \in 1..MaxIndex
  <2>1. CASE m = <<ProgrammingPIN, 0>>
    <3>1. StorageIndex(m[2], m[1]) = 0
      BY <2>1 DEF StorageIndex
    <3> QED BY <2>1, <3>1 DEF CellOf, Cells, Types, ProgrammingPIN
  <2>2. CASE m \in (Types \ {ProgrammingPIN}) \X (1..MaxIndex)
    <3>1. m[1] \in Types /\ m[1] # ProgrammingPIN /\ m[2] \in 1..MaxIndex /\ m = <<m[1], m[2]>>
      BY <2>2
    <3>2. StorageIndex(m[2], m[1]) = m[2] - 1
      BY <3>1, IndexTranslation DEF Types
    <3> QED BY <3>1, <3>2 DEF CellOf, Cells
  <2> QED BY <1>1, <2>1, <2>2 DEF CredentialKeys
<1>2. CellOf(k) \in Cells
  BY <1>1
<1>3. CellOf(k) = CellOf(l) => k = l
  <2> SUFFICES ASSUME CellOf(k) = CellOf(l) PROVE k = l
    OBVIOUS
  <2>1. k[1] = l[1]
    BY <1>1
  <2>2. k[2] = l[2]
    BY <1>1, <2>1
  <2> QED BY <1>1, <2>1, <2>2
<1>4. k # NoCredentialKey
  BY <1>1 DEF NoCredentialKey, Types
<1> QED BY <1>2, <1>3, <1>4

(* The arrays are zero at first, and so is the flash.                      *)
LEMMA CredentialsStart == CredentialsInit => CredentialsInv
<1> SUFFICES ASSUME CredentialsInit PROVE CredentialsInv
  OBVIOUS
<1>1. /\ ZeroLockCredentials \in [Cells -> [status : {"Available", "Occupied"}, size : Nat]]
      /\ ZeroData \in [Cells -> Data \cup {Empty}]
  BY DEF ZeroLockCredentials, ZeroData
<1>2. CredentialsTypeOK
  <2>1. /\ mLockCredentials \in [Cells -> [status : {"Available", "Occupied"}, size : Nat]]
        /\ credentialFlash.Credential \in [Cells -> [status : {"Available", "Occupied"}, size : Nat]]
    BY <1>1 DEF CredentialsInit
  <2>2. /\ mCredentialData \in [Cells -> Data \cup {Empty}]
        /\ credentialFlash.CredentialData \in [Cells -> Data \cup {Empty}]
    BY <1>1 DEF CredentialsInit
  <2>3. DOMAIN credentialFlash = {"Credential", "CredentialData"}
    BY DEF CredentialsInit
  <2>4. credentialKeysLeft \in 0..2
    BY DEF CredentialsInit
  <2>5. (credentialKeysLeft = 0) <=> (credentialBeingSet = NoCredentialKey)
    BY DEF CredentialsInit
  <2>6. credentialBeingSet \in CredentialKeys \cup {NoCredentialKey}
    BY DEF CredentialsInit
  <2>7. credentialFailed \in BOOLEAN /\ unsavedCredentials \subseteq CredentialKeys
    BY DEF CredentialsInit
  <2> QED BY <2>1, <2>2, <2>3, <2>4, <2>5, <2>6, <2>7 DEF CredentialsTypeOK
<1>3. \A k \in CredentialKeys : CredentialInFlash(k)
  BY DEF CredentialsInit, CredentialInFlash
<1> QED BY <1>2, <1>3 DEF CredentialsInit, CredentialsInv

(* What SetCredential does to the arrays: the cell of the credential is    *)
(* set, the others stay as they were.                                      *)
LEMMA SetCredentialEffect ==
    ASSUME CredentialsInv, NEW k \in (0..NumTypes) \X (0..(MaxIndex + 1)),
           NEW status \in {"Available", "Occupied"}, NEW data \in Data \cup {Empty},
           SetCredential(k[2], k[1], status, data)
    PROVE  /\ k \in CredentialKeys /\ k # NoCredentialKey
           /\ mLockCredentials' \in [Cells -> [status : {"Available", "Occupied"}, size : Nat]]
           /\ mLockCredentials'[CellOf(k)] = [status |-> status, size |-> SizeOf(data)]
           /\ mCredentialData' \in [Cells -> Data \cup {Empty}]
           /\ data # Empty => mCredentialData'[CellOf(k)] = data
           /\ \A l \in CredentialKeys \ {k} : /\ mLockCredentials'[CellOf(l)] = mLockCredentials[CellOf(l)]
                                              /\ mCredentialData'[CellOf(l)] = mCredentialData[CellOf(l)]
           /\ credentialBeingSet = NoCredentialKey /\ credentialBeingSet' = k
           /\ unsavedCredentials' = unsavedCredentials \cup {k}
           /\ credentialKeysLeft' = 2 /\ credentialFailed' = FALSE /\ credentialFlash' = credentialFlash
<1>1. k \in CredentialKeys
  <2>1. k[1] \in 0..NumTypes /\ k[2] \in 0..(MaxIndex + 1) /\ k = <<k[1], k[2]>>
    OBVIOUS
  <2>2. Accessible(k[2], k[1])
    BY DEF SetCredential
  <2> QED BY <2>1, <2>2, IndexTranslation
<1>2. CellOf(k) = <<k[1], StorageIndex(k[2], k[1])>>
  BY DEF CellOf
<1>3. credentialBeingSet = NoCredentialKey
  BY DEF SetCredential, CredentialsInv, CredentialsTypeOK
<1>4. k # NoCredentialKey /\ CellOf(k) \in Cells
  BY <1>1, CellsDiffer
<1>5. /\ mLockCredentials' = [mLockCredentials EXCEPT ![CellOf(k)] = [status |-> status, size |-> SizeOf(data)]]
      /\ mCredentialData' = IF data = Empty THEN mCredentialData
                            ELSE [mCredentialData EXCEPT ![CellOf(k)] = data]
  BY <1>2 DEF SetCredential
<1>6. SizeOf(data) \in Nat
  BY CredentialsAssumption DEF SizeOf
<1>7. /\ mLockCredentials' \in [Cells -> [status : {"Available", "Occupied"}, size : Nat]]
      /\ mLockCredentials'[CellOf(k)] = [status |-> status, size |-> SizeOf(data)]
  BY <1>4, <1>5, <1>6 DEF CredentialsInv, CredentialsTypeOK
<1>8. /\ mCredentialData' \in [Cells -> Data \cup {Empty}]
      /\ data # Empty => mCredentialData'[CellOf(k)] = data
  BY <1>4, <1>5 DEF CredentialsInv, CredentialsTypeOK
<1>9. ASSUME NEW l \in CredentialKeys \ {k}
      PROVE  /\ mLockCredentials'[CellOf(l)] = mLockCredentials[CellOf(l)]
             /\ mCredentialData'[CellOf(l)] = mCredentialData[CellOf(l)]
  <2>1. CellOf(l) # CellOf(k) /\ CellOf(l) \in Cells
    BY <1>1, CellsDiffer
  <2> QED BY <2>1, <1>5 DEF CredentialsInv, CredentialsTypeOK
<1> QED BY <1>1, <1>3, <1>4, <1>7, <1>8, <1>9 DEF SetCredential

(* The same of one cell, and of the others.                                *)
LEMMA SetCredentialCells ==
    ASSUME CredentialsInv, NEW k \in (0..NumTypes) \X (0..(MaxIndex + 1)),
           NEW status \in {"Available", "Occupied"}, NEW data \in Data \cup {Empty},
           SetCredential(k[2], k[1], status, data)
    PROVE  /\ mLockCredentials'[CellOf(k)] = [status |-> status, size |-> SizeOf(data)]
           /\ data # Empty => mCredentialData'[CellOf(k)] = data
           /\ \A l \in CredentialKeys \ {k} : /\ mLockCredentials'[CellOf(l)] = mLockCredentials[CellOf(l)]
                                              /\ mCredentialData'[CellOf(l)] = mCredentialData[CellOf(l)]
  BY SetCredentialEffect, Zenon

(* And of the call itself: it is the only one, for a key of a client.      *)
LEMMA SetCredentialCall ==
    ASSUME CredentialsInv, NEW k \in (0..NumTypes) \X (0..(MaxIndex + 1)),
           NEW status \in {"Available", "Occupied"}, NEW data \in Data \cup {Empty},
           SetCredential(k[2], k[1], status, data)
    PROVE  /\ k \in CredentialKeys /\ k # NoCredentialKey
           /\ credentialBeingSet = NoCredentialKey /\ credentialBeingSet' = k
           /\ unsavedCredentials' = unsavedCredentials \cup {k}
  BY SetCredentialEffect, Zenon

(* A set keeps the invariant.                                              *)
LEMMA SetCredentialKeeps ==
    ASSUME CredentialsInv, NEW k \in (0..NumTypes) \X (0..(MaxIndex + 1)),
           NEW status \in {"Available", "Occupied"}, NEW data \in Data \cup {Empty},
           SetCredential(k[2], k[1], status, data)
    PROVE  CredentialsInv'
<1>1. /\ k \in CredentialKeys /\ k # NoCredentialKey
      /\ mLockCredentials' \in [Cells -> [status : {"Available", "Occupied"}, size : Nat]]
      /\ mCredentialData' \in [Cells -> Data \cup {Empty}]
      /\ \A l \in CredentialKeys \ {k} : /\ mLockCredentials'[CellOf(l)] = mLockCredentials[CellOf(l)]
                                         /\ mCredentialData'[CellOf(l)] = mCredentialData[CellOf(l)]
      /\ credentialBeingSet' = k /\ unsavedCredentials' = unsavedCredentials \cup {k}
      /\ credentialKeysLeft' = 2 /\ credentialFailed' = FALSE /\ credentialFlash' = credentialFlash
  BY SetCredentialEffect
<1>2. CredentialsTypeOK'
  <2>1. (credentialKeysLeft' = 0) <=> (credentialBeingSet' = NoCredentialKey)
    BY <1>1
  <2>2. credentialKeysLeft' \in 0..2 /\ credentialBeingSet' \in CredentialKeys \cup {NoCredentialKey}
    BY <1>1
  <2>3. credentialFailed' \in BOOLEAN /\ unsavedCredentials' \subseteq CredentialKeys
    BY <1>1 DEF CredentialsInv, CredentialsTypeOK
  <2>4. /\ credentialFlash'.Credential \in [Cells -> [status : {"Available", "Occupied"}, size : Nat]]
        /\ credentialFlash'.CredentialData \in [Cells -> Data \cup {Empty}]
        /\ DOMAIN credentialFlash' = {"Credential", "CredentialData"}
    BY <1>1 DEF CredentialsInv, CredentialsTypeOK
  <2> QED BY <1>1, <2>1, <2>2, <2>3, <2>4 DEF CredentialsTypeOK
<1>3. ASSUME NEW l \in CredentialKeys \ unsavedCredentials' PROVE CredentialInFlash(l)'
  BY <1>1, <1>3 DEF CredentialInFlash, CredentialsInv
<1> QED BY <1>1, <1>2, <1>3 DEF CredentialsInv

(* Either write keeps the types.                                           *)
LEMMA WritesKeepTypes ==
    ASSUME CredentialsTypeOK, NEW stored \in BOOLEAN,
           WriteCredential(stored) \/ WriteCredentialData(stored)
    PROVE  CredentialsTypeOK'
<1>1. /\ mLockCredentials' = mLockCredentials
      /\ mCredentialData' = mCredentialData
  BY DEF WriteCredential, WriteCredentialData
<1>2. \/ credentialFlash' = credentialFlash
      \/ credentialFlash' = [credentialFlash EXCEPT !.Credential = mLockCredentials]
      \/ credentialFlash' = [credentialFlash EXCEPT !.CredentialData = mCredentialData]
  BY DEF WriteCredential, WriteCredentialData
<1>3. DOMAIN credentialFlash = {"Credential", "CredentialData"}
  BY DEF CredentialsTypeOK
<1>4. /\ credentialFlash'.Credential \in {credentialFlash.Credential, mLockCredentials}
      /\ credentialFlash'.CredentialData \in {credentialFlash.CredentialData, mCredentialData}
      /\ DOMAIN credentialFlash' = {"Credential", "CredentialData"}
  BY <1>2, <1>3
<1>5. /\ credentialFlash'.Credential \in [Cells -> [status : {"Available", "Occupied"}, size : Nat]]
      /\ credentialFlash'.CredentialData \in [Cells -> Data \cup {Empty}]
  BY <1>4 DEF CredentialsTypeOK
<1>6. /\ mLockCredentials' \in [Cells -> [status : {"Available", "Occupied"}, size : Nat]]
      /\ mCredentialData' \in [Cells -> Data \cup {Empty}]
  BY <1>1 DEF CredentialsTypeOK
<1>7. (credentialKeysLeft' = 0) <=> (credentialBeingSet' = NoCredentialKey)
  BY DEF WriteCredential, WriteCredentialData, CredentialsTypeOK
<1>8. credentialKeysLeft' \in 0..2 /\ credentialBeingSet' \in CredentialKeys \cup {NoCredentialKey}
  BY DEF WriteCredential, WriteCredentialData, CredentialsTypeOK
<1>9. credentialFailed' \in BOOLEAN
  BY DEF WriteCredential, WriteCredentialData
<1>10. unsavedCredentials' \subseteq CredentialKeys
  BY DEF WriteCredential, WriteCredentialData, CredentialsTypeOK
<1> QED BY <1>4, <1>5, <1>6, <1>7, <1>8, <1>9, <1>10 DEF CredentialsTypeOK

(* Either write keeps the invariant: after both have succeeded all is in   *)
(* flash.                                                                  *)
LEMMA WritesKeep ==
    ASSUME CredentialsInv, NEW stored \in BOOLEAN,
           WriteCredential(stored) \/ WriteCredentialData(stored)
    PROVE  CredentialsInv'
<1>1. CredentialsTypeOK'
  BY WritesKeepTypes DEF CredentialsInv
<1>2. CASE WriteCredential(stored)
  <2>1. ASSUME NEW k \in CredentialKeys \ unsavedCredentials PROVE CredentialInFlash(k)'
    BY <1>2 DEF WriteCredential, CredentialInFlash, CredentialsInv, CredentialsTypeOK
  <2>2. ~credentialFailed' => credentialFlash'.Credential = mLockCredentials'
    BY <1>2 DEF WriteCredential, CredentialsInv, CredentialsTypeOK
  <2> QED BY <1>1, <1>2, <2>1, <2>2 DEF CredentialsInv, WriteCredential
<1>3. CASE WriteCredentialData(stored)
  <2>1. ASSUME NEW k \in CredentialKeys \ unsavedCredentials' PROVE CredentialInFlash(k)'
    BY <1>3, <2>1 DEF WriteCredentialData, CredentialInFlash, CredentialsInv, CredentialsTypeOK
  <2> QED BY <1>1, <1>3, <2>1 DEF CredentialsInv, WriteCredentialData
<1> QED BY <1>2, <1>3

(* Every step keeps the invariant.                                         *)
LEMMA CredentialsStep == CredentialsInv /\ [CredentialsNext]_credentialsVars => CredentialsInv'
<1> SUFFICES ASSUME CredentialsInv, [CredentialsNext]_credentialsVars PROVE CredentialsInv'
  OBVIOUS
<1>1. ASSUME NEW type \in 0..NumTypes, NEW index \in 0..(MaxIndex + 1),
             \/ \E data \in Data : SetCredential(index, type, "Occupied", data)
             \/ SetCredential(index, type, "Available", Empty)
      PROVE  CredentialsInv'
  <2> DEFINE k == <<type, index>>
  <2>1. k \in (0..NumTypes) \X (0..(MaxIndex + 1)) /\ k[1] = type /\ k[2] = index
    OBVIOUS
  <2>2. \/ \E data \in Data : SetCredential(k[2], k[1], "Occupied", data)
        \/ SetCredential(k[2], k[1], "Available", Empty)
    BY <1>1, <2>1
  <2> HIDE DEF k
  <2> QED BY <2>1, <2>2, SetCredentialKeeps
<1>2. ASSUME NEW stored \in BOOLEAN, WriteCredential(stored) \/ WriteCredentialData(stored)
      PROVE  CredentialsInv'
  BY <1>2, WritesKeep
<1>3. CASE RestartCredentials
  <2>1. /\ credentialKeysLeft' = 0 /\ credentialBeingSet' = NoCredentialKey /\ credentialFailed' = FALSE
        /\ unsavedCredentials' = {} /\ credentialFlash' = credentialFlash
        /\ mLockCredentials' = credentialFlash.Credential /\ mCredentialData' = credentialFlash.CredentialData
    BY <1>3 DEF RestartCredentials
  <2>2. CredentialsTypeOK'
    <3>1. /\ mLockCredentials' \in [Cells -> [status : {"Available", "Occupied"}, size : Nat]]
          /\ mCredentialData' \in [Cells -> Data \cup {Empty}]
          /\ credentialFlash'.Credential \in [Cells -> [status : {"Available", "Occupied"}, size : Nat]]
          /\ credentialFlash'.CredentialData \in [Cells -> Data \cup {Empty}]
          /\ DOMAIN credentialFlash' = {"Credential", "CredentialData"}
      BY <2>1 DEF CredentialsInv, CredentialsTypeOK
    <3>2. (credentialKeysLeft' = 0) <=> (credentialBeingSet' = NoCredentialKey)
      BY <2>1
    <3>3. credentialKeysLeft' \in 0..2 /\ credentialBeingSet' \in CredentialKeys \cup {NoCredentialKey}
      BY <2>1
    <3>4. credentialFailed' \in BOOLEAN /\ unsavedCredentials' \subseteq CredentialKeys
      BY <2>1
    <3> QED BY <3>1, <3>2, <3>3, <3>4 DEF CredentialsTypeOK
  <2> QED BY <2>1, <2>2 DEF CredentialsInv, CredentialInFlash
<1>4. CASE UNCHANGED credentialsVars
  BY <1>4 DEF credentialsVars, CredentialsInv, CredentialsTypeOK, CredentialInFlash
<1> QED BY <1>1, <1>2, <1>3, <1>4 DEF CredentialsNext

(* The credential table and its flash keep their types, and nothing is set *)
(* but what a client can name (SetCredential).                             *)
THEOREM CredentialsTypeCorrect == CredentialsSpec => []CredentialsTypeOK
<1>1. CredentialsInv => CredentialsTypeOK
  BY DEF CredentialsInv
<1> QED BY CredentialsStart, CredentialsStep, <1>1, PTL DEF CredentialsSpec

(* The cells that the PIN check goes through are those of the PINs that a  *)
(* client can name, and a cell is accepted exactly if it reads so.         *)
LEMMA PinCheckReads ==
    ASSUME CredentialsTypeOK
    PROVE  AcceptsCurrentPins
<1> USE CredentialsAssumption
<1> SUFFICES ASSUME NEW pin \in Data
             PROVE  Accepts(TRUE, pin) <=> \E n \in 1..MaxIndex :
                        GetCredential(n, Pin) = [status |-> "Occupied", data |-> pin]
  BY DEF AcceptsCurrentPins
<1> DEFINE Cell(n) == <<Pin, n - 1>>
           Matches(c) == /\ mLockCredentials[c].status # "Available"
                         /\ ReadCell(mLockCredentials, mCredentialData, c).data = pin
<1>1. \A n \in 1..MaxIndex : GetCredential(n, Pin) = ReadCell(mLockCredentials, mCredentialData, Cell(n))
  <2>1. ASSUME NEW n \in 1..MaxIndex PROVE StorageIndex(n, Pin) = n - 1
    <3>1. Pin \in 0..NumTypes /\ Pin # ProgrammingPIN /\ n \in 0..(MaxIndex + 1)
      BY DEF Pin, ProgrammingPIN
    <3> QED BY <3>1, IndexTranslation
  <2> QED BY <2>1 DEF GetCredential
<1>2. \A n \in 1..MaxIndex : Cell(n) \in PinCells
  BY DEF PinCells
<1>3. \A c \in PinCells : \E n \in 1..MaxIndex : c = Cell(n)
  <2> TAKE c \in PinCells
  <2>1. c[2] + 1 \in 1..MaxIndex /\ c = <<Pin, (c[2] + 1) - 1>>
    BY DEF PinCells
  <2> QED BY <2>1
<1>4. PinCells \subseteq Cells
  BY DEF PinCells, Cells, Types, Pin
<1>5. ASSUME NEW c \in PinCells
      PROVE  Matches(c) <=> ReadCell(mLockCredentials, mCredentialData, c) = [status |-> "Occupied", data |-> pin]
  <2>1. mLockCredentials[c].status \in {"Available", "Occupied"}
    BY <1>4 DEF CredentialsTypeOK
  <2>2. CASE mLockCredentials[c].status = "Available"
    <3>1. ReadCell(mLockCredentials, mCredentialData, c) = [status |-> "Available"]
      BY <2>2 DEF ReadCell
    <3>2. [status |-> "Available"] # [status |-> "Occupied", data |-> pin]
      OBVIOUS
    <3> QED BY <2>2, <3>1, <3>2
  <2>3. CASE mLockCredentials[c].status = "Occupied"
    <3>1. PICK d : ReadCell(mLockCredentials, mCredentialData, c) = [status |-> "Occupied", data |-> d]
      BY <2>3 DEF ReadCell
    <3> QED BY <2>3, <3>1
  <2> QED BY <2>1, <2>2, <2>3
<1>6. pin # NoPin => (Accepts(TRUE, pin) <=> \E c \in PinCells : Matches(c))
  BY DEF Accepts
<1> HIDE DEF Cell, Matches
<1>7. (\E c \in PinCells : Matches(c)) <=> \E n \in 1..MaxIndex :
          GetCredential(n, Pin) = [status |-> "Occupied", data |-> pin]
  BY <1>1, <1>2, <1>3, <1>5
<1>8. pin # NoPin
  OBVIOUS
<1> QED BY <1>6, <1>7, <1>8

(* setLockState accepts exactly the PINs that read back as occupied PIN    *)
(* credentials, for any number of them and any data.                       *)
THEOREM AcceptsExactlyCurrentPins == CredentialsSpec => []AcceptsCurrentPins
<1>1. CredentialsInv => AcceptsCurrentPins
  BY PinCheckReads DEF CredentialsInv
<1> QED BY CredentialsStart, CredentialsStep, <1>1, PTL DEF CredentialsSpec

(* What is set reads back as it was given, and each other as it did.       *)
LEMMA SetCredentialImplements ==
    ASSUME CredentialsInv, NEW k \in (0..NumTypes) \X (0..(MaxIndex + 1)),
           NEW status \in {"Available", "Occupied"}, NEW data \in Data \cup {Empty},
           status = "Occupied" <=> data # Empty,
           SetCredential(k[2], k[1], status, data)
    PROVE  CredentialStore!Next
<1>1. /\ k \in CredentialKeys /\ k # NoCredentialKey
      /\ credentialBeingSet = NoCredentialKey /\ credentialBeingSet' = k
      /\ unsavedCredentials' = unsavedCredentials \cup {k}
  BY SetCredentialCall
<1>2. /\ mLockCredentials'[CellOf(k)] = [status |-> status, size |-> SizeOf(data)]
      /\ data # Empty => mCredentialData'[CellOf(k)] = data
      /\ \A l \in CredentialKeys \ {k} : /\ mLockCredentials'[CellOf(l)] = mLockCredentials[CellOf(l)]
                                         /\ mCredentialData'[CellOf(l)] = mCredentialData[CellOf(l)]
  BY SetCredentialCells
<1> DEFINE value == IF status = "Occupied" THEN [status |-> "Occupied", data |-> data]
                    ELSE [status |-> "Available"]
<1>3. value \in CredentialValues
  BY DEF CredentialValues
<1>4. GetCredential(k[2], k[1])' = value
  <2>1. mLockCredentials'[CellOf(k)].status = status /\ mLockCredentials'[CellOf(k)].size = SizeOf(data)
    BY <1>2
  <2> QED BY <1>2, <2>1 DEF GetCredential, CellOf, ReadCell
<1>5. \A l \in CredentialKeys : l # k => GetCredential(l[2], l[1])' = GetCredential(l[2], l[1])
  BY <1>2 DEF GetCredential, CellOf, ReadCell
<1> HIDE DEF value
<1>6. [l \in CredentialKeys |-> GetCredential(l[2], l[1])]' =
      [[l \in CredentialKeys |-> GetCredential(l[2], l[1])] EXCEPT ![k] = value]
  BY <1>1, <1>4, <1>5
<1> QED BY <1>1, <1>3, <1>6 DEF CredentialStore!Next, CredentialStore!Set

(* Every step of the credential table is a step of the abstract store, or  *)
(* none of it: a set is a set of one entry, the write of the last key is   *)
(* the return, a restart a restart.                                        *)
LEMMA CredentialsImplement ==
    ASSUME CredentialsInv, [CredentialsNext]_credentialsVars
    PROVE  [CredentialStore!Next]_(CredentialStore!vars)
<1>1. ASSUME NEW type \in 0..NumTypes, NEW index \in 0..(MaxIndex + 1),
             \/ \E data \in Data : SetCredential(index, type, "Occupied", data)
             \/ SetCredential(index, type, "Available", Empty)
      PROVE  CredentialStore!Next
  <2> DEFINE k == <<type, index>>
  <2>1. k \in (0..NumTypes) \X (0..(MaxIndex + 1)) /\ k[1] = type /\ k[2] = index
    OBVIOUS
  <2>2. \/ \E data \in Data : SetCredential(k[2], k[1], "Occupied", data)
        \/ SetCredential(k[2], k[1], "Available", Empty)
    BY <1>1, <2>1
  <2> HIDE DEF k
  <2>3. \A data \in Data : data # Empty
    BY CredentialsAssumption
  <2> QED BY <2>1, <2>2, <2>3, SetCredentialImplements
<1>2. ASSUME NEW stored \in BOOLEAN, WriteCredential(stored)
      PROVE  UNCHANGED CredentialStore!vars
  BY <1>2 DEF WriteCredential, CredentialStore!vars, GetCredential, ReadCell
<1>3. ASSUME NEW stored \in BOOLEAN, WriteCredentialData(stored)
      PROVE  CredentialStore!Next
  <2>1. credentialBeingSet' = NoCredentialKey /\ unsavedCredentials' \in {{}, unsavedCredentials}
    BY <1>3 DEF WriteCredentialData
  <2>2. \A k \in CredentialKeys : GetCredential(k[2], k[1])' = GetCredential(k[2], k[1])
    BY <1>3 DEF WriteCredentialData, GetCredential, ReadCell
  <2> QED BY <2>1, <2>2 DEF CredentialStore!Next, CredentialStore!Return
<1>4. CASE RestartCredentials
  <2>1. credentialBeingSet' = NoCredentialKey /\ unsavedCredentials' = {}
    BY <1>4 DEF RestartCredentials
  <2>2. ASSUME NEW k \in CredentialKeys \ unsavedCredentials
        PROVE  GetCredential(k[2], k[1])' = GetCredential(k[2], k[1])
    <3>1. /\ mLockCredentials'[CellOf(k)] = mLockCredentials[CellOf(k)]
          /\ mCredentialData'[CellOf(k)] = mCredentialData[CellOf(k)]
      BY <1>4 DEF RestartCredentials, CredentialsInv, CredentialInFlash
    <3> QED BY <3>1 DEF GetCredential, CellOf, ReadCell
  <2> QED BY <2>1, <2>2 DEF CredentialStore!Next, CredentialStore!Restart
<1>5. CASE UNCHANGED credentialsVars
  BY <1>5 DEF credentialsVars, CredentialStore!vars, GetCredential, ReadCell
<1> QED BY <1>1, <1>2, <1>3, <1>4, <1>5 DEF CredentialsNext

(* Credentials read back as they were set under every type and index a     *)
(* client can name, for any sizes: SetCredential and its flash keys are a  *)
(* durable store.                                                          *)
THEOREM CredentialsAreKept == CredentialsSpec => KeepsCredentials
<1>1. CredentialsInit => CredentialStore!Init
  BY CellsDiffer DEF CredentialsInit, CredentialStore!Init, GetCredential, ReadCell,
                     ZeroLockCredentials, CellOf
<1>2. CredentialsInv /\ [CredentialsNext]_credentialsVars => [CredentialStore!Next]_(CredentialStore!vars)
  BY CredentialsImplement
<1> QED BY <1>1, <1>2, CredentialsStart, CredentialsStep, PTL
        DEF CredentialsSpec, KeepsCredentials, CredentialStore!Spec
=============================================================================
