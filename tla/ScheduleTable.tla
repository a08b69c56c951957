---------------------------- MODULE ScheduleTable ----------------------------
(***************************************************************************)
(* One of the three schedule tables of the lock (weekday, year day,        *)
(* holiday): its Set and Get operations, the single key under which it is  *)
(* saved in flash, and what a restart makes of it.  The table is an array *)
(* of slots that hold a status and a schedule; what is saved is counted in *)
(* bytes from its first slot, and the count takes a slot to have the size  *)
(* of a schedule alone.  A holiday table has one row, of no user.  The     *)
(* write of the key may fail, which leaves it as it was and is told to     *)
(* nobody.                                                                 *)
(***************************************************************************)
EXTENDS Naturals

CONSTANTS
    Rows, Columns,          \* kMaxUsers (or one), kMax...SchedulesPerUser
    UsedRows, UsedColumns,  \* LockParams: the schedules a client may set
    SlotSize,               \* sizeof(...ScheduleInfo)
    ItemSize,               \* sizeof(EmberAfPluginDoorLock...Schedule)
    Schedules               \* the schedules

(* A slot holds a schedule and its status, which comes first.              *)
ASSUME SchedulesAssumption ==
    /\ Rows \in Nat \ {0} /\ Columns \in Nat \ {0}
    /\ UsedRows \in 1..Rows /\ UsedColumns \in 1..Columns
    /\ ItemSize \in Nat \ {0} /\ SlotSize \in Nat /\ ItemSize < SlotSize

VARIABLES
    schedules,          \* status and schedule of each slot
    scheduleFlash,      \* the bytes in flash, slot by slot
    scheduleBeingSet,   \* the slot whose Set has not written the key yet, or NoSlot
    unsavedSchedules    \* history: the slots set since the key was written

schedulesVars == <<schedules, scheduleFlash, scheduleBeingSet, unsavedSchedules>>

Slots == (0..(Rows - 1)) \X (0..(Columns - 1))
NoSlot == <<Rows, Columns>>

Zero == "zeros"         \* the bytes of a schedule nobody set
Garbled == "garbled"    \* a schedule of which only some bytes were saved

ZeroSchedules == [s \in Slots |-> [status |-> "Available", schedule |-> Zero]]

SchedulesInit ==
    /\ schedules = ZeroSchedules /\ scheduleFlash = ZeroSchedules
    /\ scheduleBeingSet = NoSlot /\ unsavedSchedules = {}

(* A definition introduced as a slip is not part of the model: it is the   *)
(* mistake a change of the code could make in the definition that follows. *)

(* Where a slot begins, in bytes from the start of the array. *)
Offset(s) == (s[1] * Columns + s[2]) * SlotSize

(* How many bytes the key holds. *)
SavedBytes == ItemSize * UsedColumns * UsedRows

Whole(s) == Offset(s) + SlotSize <= SavedBytes
Partial(s) == Offset(s) < SavedBytes /\ ~Whole(s)

(* Slip: an index may equal the size of its dimension. *)
IsValidIndexOneMore(row, column) == row <= Rows /\ column <= Columns

IsValidIndex(row, column) == row < Rows /\ column < Columns

(* Set...Schedule(column, row): both indices count from one. *)
SetSchedule(row, column, status, schedule) ==
    LET s == <<row - 1, column - 1>> IN
    /\ scheduleBeingSet = NoSlot
    /\ row > 0 /\ column > 0
    /\ IsValidIndex(row - 1, column - 1)
    /\ schedules' = [schedules EXCEPT ![s] = [status |-> status, schedule |-> schedule]]
    /\ scheduleBeingSet' = s /\ unsavedSchedules' = unsavedSchedules \cup {s}
    /\ UNCHANGED scheduleFlash

(* The first SavedBytes of the table. *)
SavedSchedules ==
    [s \in Slots |-> IF Whole(s) THEN schedules[s]
                     ELSE IF Partial(s) THEN [status |-> schedules[s].status, schedule |-> Garbled]
                     ELSE scheduleFlash[s]]

(* WriteConfigValueBin, whose result is ignored. *)
WriteSchedules(stored) ==
    /\ scheduleBeingSet # NoSlot
    /\ scheduleFlash' = IF stored THEN SavedSchedules ELSE scheduleFlash
    /\ scheduleBeingSet' = NoSlot
    /\ unsavedSchedules' = IF stored THEN {} ELSE unsavedSchedules
    /\ UNCHANGED schedules

(* Slip: the table is not read at boot. *)
ReadSchedulesForgotten == ZeroSchedules

(* ReadConfigValues: as many bytes into an array of zeros. *)
ReadSchedules == scheduleFlash

(* Power is lost at any moment. *)
RestartSchedules ==
    /\ schedules' = ReadSchedules
    /\ scheduleBeingSet' = NoSlot /\ unsavedSchedules' = {}
    /\ UNCHANGED scheduleFlash

(* The requests of the Door Lock server, with indices from one.            *)
SchedulesNext ==
    \/ \E row \in 0..(UsedRows + 1), column \in 0..(UsedColumns + 1) :
         \/ \E schedule \in Schedules : SetSchedule(row, column, "Occupied", schedule)
         \/ SetSchedule(row, column, "Available", Zero)
    \/ \E stored \in BOOLEAN : WriteSchedules(stored)
    \/ RestartSchedules

SchedulesSpec == SchedulesInit /\ [][SchedulesNext]_schedulesVars

-----------------------------------------------------------------------------
(***************************************************************************)
(* Properties.                                                             *)
(***************************************************************************)

(* Every variable has its type.                                            *)
SchedulesTypeOK ==
    LET Slot == [status : {"Available", "Occupied"}, schedule : Schedules \cup {Zero, Garbled}] IN
    /\ schedules \in [Slots -> Slot] /\ scheduleFlash \in [Slots -> Slot]
    /\ scheduleBeingSet \in Slots \cup {NoSlot} /\ unsavedSchedules \subseteq Slots

(* Get...Schedule: NotFound, or the schedule in storage.                   *)
GetSchedule(s) == IF schedules[s].status = "Available" THEN "NotFound" ELSE schedules[s].schedule

WholeSlots == {s \in Slots : Whole(s)}
UsedSlots == (0..(UsedRows - 1)) \X (0..(UsedColumns - 1))
Readable == {"NotFound"} \cup Schedules

WholeStore ==
    INSTANCE DurableStore
      WITH Slots <- WholeSlots, Values <- Readable, Blank <- "NotFound", NoSlot <- NoSlot,
           content <- [s \in WholeSlots |-> GetSchedule(s)],
           setting <- IF scheduleBeingSet \in WholeSlots THEN scheduleBeingSet ELSE NoSlot,
           unsaved <- unsavedSchedules \cap WholeSlots

UsedStore ==
    INSTANCE DurableStore
      WITH Slots <- UsedSlots, Values <- Readable, Blank <- "NotFound", NoSlot <- NoSlot,
           content <- [s \in UsedSlots |-> GetSchedule(s)],
           setting <- IF scheduleBeingSet \in UsedSlots THEN scheduleBeingSet ELSE NoSlot,
           unsaved <- unsavedSchedules \cap UsedSlots

(* The schedules that lie within the bytes that are saved read back as     *)
(* they were set, before and after any loss of power, except for the one   *)
(* being set and those whose saving failed and that no later call has      *)
(* saved.                                                                  *)
KeepsWholeSlots == WholeStore!Spec

(* So does every schedule a client can set: "Save schedule information in  *)
(* NVM flash" (SetWeekdaySchedule, SetYeardaySchedule, SetHolidaySchedule).*)
KeepsSchedules == UsedStore!Spec
=============================================================================
