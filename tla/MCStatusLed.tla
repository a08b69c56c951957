----------------------------- MODULE MCStatusLed -----------------------------
(* The lock with its status LED for TLC.  The configurations choose the     *)
(* build (the default one, or the button as a switch), the commands and     *)
(* presses that arrive, and the queue sizes.                                *)
EXTENDS StatusLed
=============================================================================
