------------------------------ MODULE MCStorage ------------------------------
(***************************************************************************)
(* The tables of the lock for TLC.  They share neither arrays nor keys, so *)
(* a property of one cannot depend on another; each behaviour here sets    *)
(* and reads one of them, which keeps the number of states a sum.          *)
(***************************************************************************)
EXTENDS Users, Credentials, ScheduleTable

VARIABLE tableInUse

Init ==
    /\ UsersInit /\ CredentialsInit /\ SchedulesInit
    /\ tableInUse \in {"users", "credentials", "schedules"}

Next ==
    /\ UNCHANGED tableInUse
    /\ \/ tableInUse = "users" /\ UsersNext /\ UNCHANGED <<credentialsVars, schedulesVars>>
       \/ tableInUse = "credentials" /\ CredentialsNext /\ UNCHANGED <<usersVars, schedulesVars>>
       \/ tableInUse = "schedules" /\ SchedulesNext /\ UNCHANGED <<usersVars, credentialsVars>>

Spec == Init /\ [][Next]_<<usersVars, credentialsVars, schedulesVars, tableInUse>>

(* Names: in a buffer of three bytes "a" and "bc" are ordinary names and    *)
(* "ghij" is too long for one.                                              *)
MCNameSize == [n \in Names |-> CASE n = "a" -> 1 [] n = "bc" -> 2 [] OTHER -> 4]

(* Credentials have four bytes.                                            *)
MCDataSize == [d \in Data |-> 4]
=============================================================================
