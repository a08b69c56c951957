---------------------------- MODULE DurableStore ----------------------------
(***************************************************************************)
(* What a table of the lock that is saved in flash promises to those who   *)
(* read it: an entry that was set reads back as it was set, and a set      *)
(* changes no other entry.  A loss of power only changes entries that were *)
(* set since the table was last saved: the one that is being set at that   *)
(* moment, and those before it whose saving failed.  One set that is saved *)
(* saves those as well.                                                    *)
(*                                                                         *)
(* The contract behind "Save user information in NVM flash", "Save         *)
(* credential information in NVM flash" and "Save schedule information in  *)
(* NVM flash" (src/LockManager.cpp).                                       *)
(***************************************************************************)

CONSTANTS
    Slots,      \* the entries
    Values,     \* what an entry may be set to
    Blank,      \* how an entry that was never set reads
    NoSlot      \* not an entry

VARIABLES
    content,    \* how each entry reads
    setting,    \* the entry that is being set, or NoSlot
    unsaved     \* the entries that were set since the table was last saved

vars == <<content, setting, unsaved>>

Init == /\ content = [s \in Slots |-> Blank]
        /\ setting = NoSlot /\ unsaved = {}

(* A caller sets entry s: it reads as the new value from here on. *)
Set(s) == /\ setting = NoSlot
          /\ setting' = s /\ unsaved' = unsaved \cup {s}
          /\ \E v \in Values : content' = [content EXCEPT ![s] = v]

(* The call returns, or one for an entry that is not looked at: the table  *)
(* is saved, or that failed.                                               *)
Return == /\ setting' = NoSlot
          /\ unsaved' \in {{}, unsaved}
          /\ UNCHANGED content

(* Power is lost and the device starts again. *)
Restart == /\ setting' = NoSlot /\ unsaved' = {}
           /\ DOMAIN content' = Slots
           /\ \A s \in Slots \ unsaved : content'[s] = content[s]

Next == Return \/ Restart \/ \E s \in Slots : Set(s)

Spec == Init /\ [][Next]_vars
=============================================================================
