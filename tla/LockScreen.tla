------------------------------ MODULE LockScreen ------------------------------
(***************************************************************************)
(* The touch screen of the ENABLE_UI build, on top of the lock: it shows   *)
(* where the door is, an animation while it moves, and a button for the    *)
(* other action.  Three threads draw: "app" when a movement completes,     *)
(* whichever initiates an action starts the animation, and "chip" redraws  *)
(* the screen from the LockState attribute when commissioning completes.   *)
(*                                                                         *)
(* A thread's drawing comes after the step of LockManager that asks for it *)
(* and before its next.  It waits in drawing and is done object by object, *)
(* as nothing keeps two threads from drawing at once.                      *)
(***************************************************************************)
EXTENDS LockManager

ASSUME LockScreenAssumption == "display" \in LocalThreads

VARIABLES
    area,       \* lock_display_area is an object of the screen
    icon,       \* active_icon: the position it shows, or None
    moving,     \* the animation is on the screen
    button,     \* the position its button asks for, or None
    drawing,    \* what is left of each thread's drawing
    redrawn     \* history: commissioning redrew the screen since the last arrival

screen == <<area, icon, moving, button>>
screenVars == <<vars, screen, drawing, redrawn>>

None == "None"

(* Slip: a screen is drawn over the one before. *)
DrawOver(p) == <<[do |-> "Area"], [do |-> "Icon", position |-> p],
                 [do |-> "Button", position |-> Other(p)]>>

(* draw_lock_screen(locked), for a position. *)
Draw(p) == <<[do |-> "Clear"], [do |-> "Area"], [do |-> "Icon", position |-> p],
             [do |-> "Button", position |-> Other(p)]>>

(* Slip: an icon of neither position takes the place of the animation. *)
AnimationOfIcons == <<[do |-> "FindArea"], [do |-> "Icon", position |-> None]>>

(* start_lock_screen_animation. *)
Animation == <<[do |-> "FindArea"], [do |-> "Move"]>>

(* lockMgr_Init: the lock screen for the attribute or, until the device    *)
(* has a network, the QR code.                                             *)
ScreenInit ==
    /\ Init
    /\ moving = FALSE /\ redrawn = FALSE
    /\ drawing = [t \in Threads |-> <<>>]
    /\ \/ area = TRUE /\ icon = lockState /\ button = Other(lockState)
       \/ area = FALSE /\ icon = None /\ button = None

-----------------------------------------------------------------------------
(***************************************************************************)
(* The lock's steps and the drawing they ask for.                          *)
(***************************************************************************)

(* Slip: the icon is that of the attribute, which is reported later. *)
DrawnAttribute == lockState

(* ActionCompleted draws the position the door has reached.                *)
DrawnPosition == target["app"]

(* Slip: the animation starts before it is known whether the lock moves. *)
DrawingOfAttempt(t) ==
    IF pc[t] = "check" THEN Animation
    ELSE IF pc[t] = "complete" THEN Draw(DrawnPosition)
    ELSE <<>>

(* ActionInitiated starts the animation, ActionCompleted draws the screen. *)
DrawingOf(t) ==
    IF pc[t] = "callback" THEN Animation
    ELSE IF pc[t] = "complete" THEN Draw(DrawnPosition)
    ELSE <<>>

ScreenStep(t) ==
    /\ drawing[t] = <<>>
    /\ \/ InitiateAction(t)
       \/ t = "chip" /\ ChipStep
       \/ t = "app" /\ AppStep
    /\ drawing' = [drawing EXCEPT ![t] = DrawingOf(t)]
    /\ redrawn' = IF pc[t] = "complete" THEN drawing["chip"] # <<>> ELSE redrawn
    /\ UNCHANGED screen

Command ==
    /\ drawing["chip"] = <<>>
    /\ \E p \in Positions : RemoteCommand(p)
    /\ UNCHANGED <<screen, drawing, redrawn>>

(* btn_event_cb: a tap asks for what the button was drawn for.             *)
Tap ==
    /\ drawing["display"] = <<>>
    /\ \E p \in Positions : button = p /\ StartLockAction(p)
    /\ UNCHANGED <<screen, drawing, redrawn>>

(* DeviceEventCallback, kCommissioningComplete. *)
CommissioningComplete ==
    /\ pc["chip"] = "idle" /\ drawing["chip"] = <<>>
    /\ drawing' = [drawing EXCEPT !["chip"] = Draw(lockState)]
    /\ redrawn' = TRUE
    /\ UNCHANGED <<vars, screen>>

(* The timer of the lock: drawing is part of the handlers that Prompt is   *)
(* about.                                                                  *)
LockTimer ==
    /\ TimerExpires
    /\ Prompt => \A t \in Threads : drawing[t] = <<>>
    /\ UNCHANGED <<screen, drawing, redrawn>>

PostOther == \E e \in Events : OtherEvent(e) /\ UNCHANGED <<screen, drawing, redrawn>>

-----------------------------------------------------------------------------
(***************************************************************************)
(* Drawing, one object at a time.                                          *)
(***************************************************************************)

Draws(t, do) == drawing[t] # <<>> /\ Head(drawing[t]).do = do

Continue(t) ==
    /\ drawing' = [drawing EXCEPT ![t] = Tail(@)]
    /\ UNCHANGED <<vars, redrawn>>

(* clear_screen deletes whatever there is, the animation included.         *)
ClearScreen(t) ==
    /\ Draws(t, "Clear")
    /\ area' = FALSE /\ icon' = None /\ moving' = FALSE /\ button' = None
    /\ Continue(t)

CreateArea(t) ==
    /\ Draws(t, "Area")
    /\ area' = TRUE
    /\ Continue(t)
    /\ UNCHANGED <<icon, moving, button>>

(* draw_icon_image puts its icon in the place of another.                  *)
DrawIcon(t) ==
    /\ Draws(t, "Icon")
    /\ icon' = Head(drawing[t]).position
    /\ Continue(t)
    /\ UNCHANGED <<area, moving, button>>

CreateButton(t) ==
    /\ Draws(t, "Button")
    /\ button' = Head(drawing[t]).position
    /\ Continue(t)
    /\ UNCHANGED <<area, icon, moving>>

(* start_lock_screen_animation returns if there is no area to move in ...  *)
FindArea(t) ==
    /\ Draws(t, "FindArea")
    /\ drawing' = [drawing EXCEPT ![t] = IF area THEN Tail(@) ELSE <<>>]
    /\ UNCHANGED <<vars, screen, redrawn>>

(* ... and takes the place of the icon.  If the area has gone since, the   *)
(* animation is on a screen of its own, which is never shown.              *)
StartMoving(t) ==
    /\ Draws(t, "Move")
    /\ icon' = None /\ moving' = area
    /\ Continue(t)
    /\ UNCHANGED <<area, button>>

DrawStep(t) ==
    \/ ClearScreen(t) \/ CreateArea(t) \/ DrawIcon(t) \/ CreateButton(t)
    \/ FindArea(t) \/ StartMoving(t)

ScreenNext ==
    \/ \E t \in Threads : ScreenStep(t) \/ DrawStep(t)
    \/ Command \/ Tap \/ CommissioningComplete
    \/ LockTimer \/ PostOther

ScreenSpec == ScreenInit /\ [][ScreenNext]_screenVars

-----------------------------------------------------------------------------
(***************************************************************************)
(* Properties.                                                             *)
(***************************************************************************)

(* Every variable has its type; no thread has more to draw than one screen. *)
ScreenTypeOK ==
    /\ area \in BOOLEAN /\ moving \in BOOLEAN /\ redrawn \in BOOLEAN
    /\ icon \in Positions \cup {None} /\ button \in Positions \cup {None}
    /\ drawing \in [Threads -> Seq([do : {"Icon", "Button"}, position : Positions]
                                   \cup [do : {"Clear", "Area", "FindArea", "Move"}])]
    /\ \A t \in Threads : Len(drawing[t]) <= 4

ScreenAtRest == AtRest /\ \A t \in Threads : drawing[t] = <<>>

(* At rest a lock screen shows the position of the door, without an        *)
(* animation, and its button offers the other action: what is shown under  *)
(* the label "Lock status" (lvgl_support.c).                               *)
ScreenShowsDoor ==
    ScreenAtRest /\ area =>
        icon = DoorPosition /\ button = Other(DoorPosition) /\ ~moving

(* The same from the arrival of the door until commissioning redraws the   *)
(* screen, which it may do at any time (AppTask::ActionCompleted draws     *)
(* what has been completed, and no other thread draws over it).            *)
ScreenShowsArrival == ~redrawn => ScreenShowsDoor

(* At rest a lock screen has an icon and a button to tap, and so it has    *)
(* after commissioning, from whichever of the three threads each is: none  *)
(* of them clears what another has drawn and leaves it so, and none draws  *)
(* on a screen that is not there (draw_lock_screen clears first;           *)
(* start_lock_screen_animation takes the icon's place).                    *)
ScreenIsWhole ==
    ScreenAtRest /\ (area \/ redrawn) => area /\ icon # None /\ button # None

(* No animation outlives its movement, whoever draws over it or under it   *)
(* (start_lock_screen_animation, ended only by the next clear_screen).     *)
AnimationEnds == ScreenAtRest => ~moving
=============================================================================
