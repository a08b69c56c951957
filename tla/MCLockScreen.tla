---------------------------- MODULE MCLockScreen ----------------------------
(* The lock with its screen for TLC.                                        *)
EXTENDS LockScreen
=============================================================================
