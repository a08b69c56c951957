---------------------------- MODULE MCLockManager ----------------------------
(* LockManager for TLC.  The configurations choose the build (the threads   *)
(* that initiate actions), the commands that arrive and the queue sizes.    *)
EXTENDS LockManager
=============================================================================
