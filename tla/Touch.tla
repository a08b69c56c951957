-------------------------------- MODULE Touch --------------------------------
(***************************************************************************)
(* The touch driver: the FT6206 interrupts at each touch and the handler   *)
(* counts (ft6206.c); LVGL polls touchpad_read in the display task, which  *)
(* tests and clears the count and reads the point over I2C                 *)
(* (lv_port_indev_ft6206.c).                                               *)
(*                                                                         *)
(* The interrupt comes between any two accesses of the display task.  The  *)
(* count is only compared with zero, so the model counts to CountBound.    *)
(***************************************************************************)
EXTENDS Naturals

CONSTANTS
    Points,     \* where a finger may touch
    Origin,     \* (0, 0)
    CountBound  \* bound on touch_count

ASSUME TouchAssumption == Origin \in Points /\ CountBound \in Nat \ {0}

VARIABLES
    inits,              \* calls of ft6206_init so far
    ft6206_initialized,
    enabled,            \* the interrupt
    indev,              \* LVGL polls touchpad_read
    touch_count,
    reader,             \* 0, or which access of touchpad_read comes next
    finger,             \* the point in the registers of the FT6206
    last,               \* last_x, last_y
    state,              \* what LVGL has been told
    unread              \* history: a touch whose point has not been read

touchVars == <<inits, ft6206_initialized, enabled, indev, touch_count, reader, finger, last, state, unread>>

TouchInit ==
    /\ inits = 0 /\ ft6206_initialized = FALSE /\ enabled = FALSE /\ indev = FALSE
    /\ touch_count = 0 /\ reader = 0
    /\ finger = Origin /\ last = Origin /\ state = "released" /\ unread = FALSE

-----------------------------------------------------------------------------
(***************************************************************************)
(* ft6206_init is called by display_init, which goes on without it, and    *)
(* again by the display task, which then registers touchpad_read.          *)
(***************************************************************************)
InitDriver(i2c, gpio) ==
    /\ inits < 2 /\ inits' = inits + 1
    /\ LET sets == ~ft6206_initialized /\ i2c
       IN /\ enabled' = (enabled \/ sets)
          /\ ft6206_initialized' = (ft6206_initialized \/ (sets /\ gpio))
    /\ indev' = (inits = 1 /\ ft6206_initialized')
    /\ UNCHANGED <<touch_count, reader, finger, last, state, unread>>

(* gpio_interrupt_handler *)
TouchInterrupt(p) ==
    /\ enabled
    /\ touch_count' = IF touch_count < CountBound THEN touch_count + 1 ELSE touch_count
    /\ finger' = p /\ unread' = TRUE
    /\ UNCHANGED <<inits, ft6206_initialized, enabled, indev, reader, last, state>>

-----------------------------------------------------------------------------
(***************************************************************************)
(* touchpad_read.                                                          *)
(***************************************************************************)

(* Slip: the point is read first. *)
AccessesReadFirst == <<"read", "clear">>

(* What follows when touchpad_is_pressed has found a count. *)
Accesses == <<"clear", "read">>

TestCount ==
    /\ indev /\ reader = 0
    /\ IF touch_count > 0
         THEN reader' = 1 /\ UNCHANGED state
         ELSE state' = "released" /\ UNCHANGED reader
    /\ UNCHANGED <<inits, ft6206_initialized, enabled, indev, touch_count, finger, last, unread>>

(* The last access ends the call with a press. *)
Returns ==
    /\ reader' = (reader + 1) % 3
    /\ state' = IF reader = 2 THEN "pressed" ELSE state

ClearCount ==
    /\ reader \in DOMAIN Accesses /\ Accesses[reader] = "clear"
    /\ touch_count' = 0
    /\ Returns
    /\ UNCHANGED <<inits, ft6206_initialized, enabled, indev, finger, last, unread>>

(* ft6206_read_xy: the point is (0, 0) if I2C fails, which nobody checks. *)
ReadXY(i2c) ==
    /\ reader \in DOMAIN Accesses /\ Accesses[reader] = "read"
    /\ last' = IF i2c THEN finger ELSE Origin
    /\ unread' = FALSE
    /\ Returns
    /\ UNCHANGED <<inits, ft6206_initialized, enabled, indev, touch_count, finger>>

TouchNext ==
    \/ \E i2c, gpio \in BOOLEAN : InitDriver(i2c, gpio)
    \/ \E p \in Points : TouchInterrupt(p)
    \/ TestCount \/ ClearCount
    \/ \E i2c \in BOOLEAN : ReadXY(i2c)

TouchSpec == TouchInit /\ [][TouchNext]_touchVars

-----------------------------------------------------------------------------
(***************************************************************************)
(* Properties.                                                             *)
(***************************************************************************)

(* No touch goes unnoticed, wherever in touchpad_read it interrupts: until *)
(* its point, or a newer one, has been read, the count will bring LVGL     *)
(* back, or the call in progress is still to read.                         *)
TouchIsRead ==
    unread => \/ touch_count > 0
              \/ \E i \in DOMAIN Accesses : 0 < reader /\ reader <= i /\ Accesses[i] = "read"
=============================================================================
