--------------------------- MODULE LockScreenProofs ---------------------------
(***************************************************************************)
(* Theorems on LockScreen: the screen asks the lock for actions as any     *)
(* caller does, so that what is proved of the lock alone                   *)
(* (LockManagerProofs) holds of the lock with its screen; and what the     *)
(* screen shows at rest, though three threads draw on it.                  *)
(***************************************************************************)
EXTENDS LockScreen, LockManagerProofs

(* A step with the screen is a step of the lock or leaves the lock alone.  *)
LEMMA ScreenStepIsLockStep ==
  [ScreenNext]_screenVars => [Next]_vars
<1> SUFFICES ASSUME [ScreenNext]_screenVars PROVE [Next]_vars
  OBVIOUS
<1>1. ASSUME NEW t \in Threads, ScreenStep(t) PROVE Next
  BY <1>1 DEF ScreenStep, Next
<1>2. ASSUME NEW t \in Threads, DrawStep(t) PROVE UNCHANGED vars
  BY <1>2 DEF DrawStep, ClearScreen, CreateArea, DrawIcon, CreateButton, FindArea, StartMoving,
              Continue
<1>3. CASE Command
  BY <1>3 DEF Command, Next
<1>4. CASE Tap
  BY <1>4 DEF Tap, Next
<1>5. CASE CommissioningComplete
  BY <1>5 DEF CommissioningComplete
<1>6. CASE LockTimer
  BY <1>6 DEF LockTimer, Next
<1>7. CASE PostOther
  BY <1>7 DEF PostOther, Next
<1>8. CASE UNCHANGED screenVars
  BY <1>8 DEF screenVars
<1> QED
  BY <1>1, <1>2, <1>3, <1>4, <1>5, <1>6, <1>7, <1>8 DEF ScreenNext

(* Whatever is drawn, by whichever thread, a tap does nothing that a       *)
(* caller of InitiateAction may not do (btn_event_cb, start_lock_action).  *)
THEOREM ScreenIsACaller == ScreenSpec => Spec
<1>1. ScreenInit => Init
  BY DEF ScreenInit
<1> QED
  BY <1>1, ScreenStepIsLockStep, PTL DEF ScreenSpec, Spec

(* The door of the build with a screen moves as a door may, when handlers  *)
(* are prompt: a tap on a screen that is out of date does not turn a       *)
(* movement round (LockManager::InitiateAction).                           *)
THEOREM LockWithScreenImplementsDoor ==
  ASSUME Prompt
  PROVE  ScreenSpec => ImplementsDoor
BY ScreenIsACaller, LockImplementsDoor, PTL

-----------------------------------------------------------------------------
(***************************************************************************)
(* Types.                                                                  *)
(***************************************************************************)

Objects == [do : {"Icon", "Button"}, position : Positions]
           \cup [do : {"Clear", "Area", "FindArea", "Move"}]

(* What drawing a lock screen is made of.                                  *)
LEMMA DrawObjects ==
  ASSUME NEW p \in Positions
  PROVE  \E c, a, i, b \in Objects :
            /\ c.do = "Clear" /\ a.do = "Area"
            /\ i.do = "Icon" /\ i.position = p
            /\ b.do = "Button" /\ b.position = Other(p)
            /\ Draw(p) = <<c, a, i, b>>
<1>1. PICK c, a, i, b : /\ c = [do |-> "Clear"] /\ a = [do |-> "Area"]
                        /\ i = [do |-> "Icon", position |-> p]
                        /\ b = [do |-> "Button", position |-> Other(p)]
  OBVIOUS
<1>2. Other(p) \in Positions
  BY DEF Positions, Other
<1>3. c \in Objects /\ a \in Objects /\ i \in Objects /\ b \in Objects
  BY <1>1, <1>2 DEF Objects
<1>4. /\ c.do = "Clear" /\ a.do = "Area" /\ i.do = "Icon" /\ i.position = p
      /\ b.do = "Button" /\ b.position = Other(p)
  BY <1>1
<1>5. Draw(p) = <<c, a, i, b>>
  BY <1>1, Zenon DEF Draw
<1> QED BY <1>3, <1>4, <1>5, Zenon

(* The order of the objects of a lock screen.                              *)
LEMMA DrawEntries ==
  ASSUME NEW p \in Positions, NEW q, q = Draw(p)
  PROVE  /\ q \in Seq(Objects) /\ Len(q) = 4 /\ DOMAIN q = 1..4
         /\ q[1].do = "Clear" /\ q[2].do = "Area"
         /\ q[3].do = "Icon" /\ q[3].position = p
         /\ q[4].do = "Button" /\ q[4].position = Other(p)
<1>1. PICK c, a, i, b \in Objects :
            /\ c.do = "Clear" /\ a.do = "Area"
            /\ i.do = "Icon" /\ i.position = p
            /\ b.do = "Button" /\ b.position = Other(p)
            /\ Draw(p) = <<c, a, i, b>>
  BY DrawObjects
<1>2. q = <<c, a, i, b>>
  BY <1>1, Zenon
<1>3. /\ q \in Seq(Objects) /\ Len(q) = 4 /\ DOMAIN q = 1..4
      /\ q[1] = c /\ q[2] = a /\ q[3] = i /\ q[4] = b
  BY <1>2
<1> QED BY <1>1, <1>3

(* The steps of an animation.                                              *)
LEMMA AnimationEntries ==
  ASSUME NEW q, q = Animation
  PROVE  /\ q \in Seq(Objects) /\ Len(q) = 2 /\ DOMAIN q = 1..2
         /\ q[1].do = "FindArea" /\ q[2].do = "Move"
<1>1. PICK f, m : f = [do |-> "FindArea"] /\ m = [do |-> "Move"]
  OBVIOUS
<1>2. f \in Objects /\ m \in Objects /\ f.do = "FindArea" /\ m.do = "Move"
  BY <1>1 DEF Objects
<1>3. q = <<f, m>>
  BY <1>1, Zenon DEF Animation
<1>4. q \in Seq(Objects) /\ Len(q) = 2 /\ DOMAIN q = 1..2 /\ q[1] = f /\ q[2] = m
  BY <1>2, <1>3
<1> QED BY <1>2, <1>4

(* What a thread has to draw after a step of the lock.                     *)
LEMMA DrawingOfType ==
  ASSUME NEW t \in Threads, target["app"] \in Positions
  PROVE  DrawingOf(t) \in Seq(Objects) /\ Len(DrawingOf(t)) <= 4
<1>1. CASE pc[t] = "callback"
  <2>1. PICK q : q = Animation
    OBVIOUS
  <2>2. DrawingOf(t) = q
    BY <1>1, <2>1, Zenon DEF DrawingOf
  <2>3. q \in Seq(Objects) /\ Len(q) = 2
    BY <2>1, AnimationEntries, Zenon
  <2>4. Len(q) <= 4
    BY <2>3
  <2> QED BY <2>2, <2>3, <2>4, Zenon
<1>2. CASE pc[t] = "complete"
  <2>1. PICK q : q = Draw(target["app"])
    OBVIOUS
  <2>2. DrawingOf(t) = q
    BY <1>2, <2>1, Zenon DEF DrawingOf, DrawnPosition
  <2>3. q \in Seq(Objects) /\ Len(q) = 4
    BY <2>1, DrawEntries
  <2>4. Len(q) <= 4
    BY <2>3
  <2> QED BY <2>2, <2>3, <2>4, Zenon
<1>3. CASE pc[t] \notin {"callback", "complete"}
  BY <1>3 DEF DrawingOf
<1> QED BY <1>1, <1>2, <1>3

ScreenInv == TypeOK /\ ScreenTypeOK

(* The parts of the type invariant, with the name for the objects.         *)
LEMMA ScreenTypes ==
  ScreenTypeOK <=>
    /\ area \in BOOLEAN /\ moving \in BOOLEAN /\ redrawn \in BOOLEAN
    /\ icon \in Positions \cup {None} /\ button \in Positions \cup {None}
    /\ drawing \in [Threads -> Seq(Objects)]
    /\ \A t \in Threads : Len(drawing[t]) <= 4
  BY DEF ScreenTypeOK, Objects

(* Drawing an object shortens what is left.                                *)
LEMMA DrawStepEntries ==
  ASSUME drawing \in [Threads -> Seq(Objects)], NEW t \in Threads, DrawStep(t)
  PROVE  /\ drawing[t] # <<>> /\ Head(drawing[t]) = drawing[t][1] /\ drawing[t][1] \in Objects
         /\ DOMAIN drawing[t] = 1..Len(drawing[t]) /\ 1 \in DOMAIN drawing[t]
         /\ drawing' \in [Threads -> Seq(Objects)]
         /\ \A s \in Threads : s # t => drawing'[s] = drawing[s]
         /\ Len(drawing'[t]) <= Len(drawing[t]) /\ Len(drawing'[t]) \in Nat /\ Len(drawing[t]) \in Nat
         /\ \A i \in DOMAIN drawing'[t] : i + 1 \in DOMAIN drawing[t] /\ drawing'[t][i] = drawing[t][i + 1]
         /\ area \/ drawing[t][1].do # "FindArea" =>
               \A i \in DOMAIN drawing[t] : i # 1 => i - 1 \in DOMAIN drawing'[t] /\ drawing'[t][i - 1] = drawing[t][i]
         /\ UNCHANGED <<vars, redrawn>>
<1>1. drawing[t] \in Seq(Objects) /\ drawing[t] # <<>>
  BY DEF DrawStep, ClearScreen, CreateArea, DrawIcon, CreateButton, FindArea, StartMoving, Draws
<1>2. \/ drawing' = [drawing EXCEPT ![t] = Tail(drawing[t])]
      \/ /\ ~area /\ Head(drawing[t]).do = "FindArea"
         /\ drawing' = [drawing EXCEPT ![t] = <<>>]
  BY DEF DrawStep, ClearScreen, CreateArea, DrawIcon, CreateButton, FindArea, StartMoving, Draws, Continue
<1>3. UNCHANGED <<vars, redrawn>>
  BY DEF DrawStep, ClearScreen, CreateArea, DrawIcon, CreateButton, FindArea, StartMoving, Continue
<1>4. /\ Tail(drawing[t]) \in Seq(Objects) /\ Len(Tail(drawing[t])) = Len(drawing[t]) - 1
      /\ Len(drawing[t]) \in Nat /\ Len(drawing[t]) >= 1
      /\ DOMAIN drawing[t] = 1..Len(drawing[t]) /\ 1 \in DOMAIN drawing[t]
      /\ Head(drawing[t]) = drawing[t][1] /\ drawing[t][1] \in Objects
      /\ \A i \in DOMAIN Tail(drawing[t]) :
            i + 1 \in DOMAIN drawing[t] /\ Tail(drawing[t])[i] = drawing[t][i + 1]
      /\ \A i \in DOMAIN drawing[t] : i # 1 =>
            i - 1 \in DOMAIN Tail(drawing[t]) /\ Tail(drawing[t])[i - 1] = drawing[t][i]
  BY <1>1
<1>5. CASE drawing' = [drawing EXCEPT ![t] = Tail(drawing[t])]
  <2>1. /\ drawing'[t] = Tail(drawing[t]) /\ drawing' \in [Threads -> Seq(Objects)]
        /\ \A s \in Threads : s # t => drawing'[s] = drawing[s]
    BY <1>4, <1>5
  <2>2. Len(drawing'[t]) <= Len(drawing[t]) /\ Len(drawing'[t]) \in Nat
    BY <1>4, <2>1
  <2> QED BY <1>1, <1>3, <1>4, <2>1, <2>2
<1>6. CASE ~area /\ Head(drawing[t]).do = "FindArea" /\ drawing' = [drawing EXCEPT ![t] = <<>>]
  <2>1. /\ drawing'[t] = <<>> /\ drawing' \in [Threads -> Seq(Objects)]
        /\ \A s \in Threads : s # t => drawing'[s] = drawing[s]
    BY <1>6
  <2>2. Len(drawing'[t]) = 0 /\ DOMAIN drawing'[t] = {}
    BY <2>1
  <2> QED BY <1>1, <1>3, <1>4, <1>6, <2>1, <2>2
<1> QED BY <1>2, <1>5, <1>6

(* The types hold at the start.                                            *)
LEMMA ScreenTypeInit == ScreenInit => ScreenInv
<1> SUFFICES ASSUME ScreenInit PROVE ScreenInv
  OBVIOUS
<1>1. TypeOK /\ lockState \in Positions /\ Other(lockState) \in Positions
  BY TypeInit DEF ScreenInit, TypeOK, Positions, Other
<1>2. <<>> \in Seq(Objects) /\ Len(<<>>) <= 4
  OBVIOUS
<1>3. drawing \in [Threads -> Seq(Objects)] /\ \A t \in Threads : Len(drawing[t]) <= 4
  BY <1>2 DEF ScreenInit
<1>4. /\ area \in BOOLEAN /\ moving \in BOOLEAN /\ redrawn \in BOOLEAN
      /\ icon \in Positions \cup {None} /\ button \in Positions \cup {None}
  BY <1>1 DEF ScreenInit
<1> QED BY <1>1, <1>3, <1>4, ScreenTypes DEF ScreenInv

(* Giving a thread something to draw keeps them.                           *)
LEMMA AskToDrawType ==
  ASSUME ScreenTypeOK, NEW t \in Threads, NEW q \in Seq(Objects), Len(q) <= 4,
         drawing' = [drawing EXCEPT ![t] = q], UNCHANGED screen, redrawn' \in BOOLEAN
  PROVE  ScreenTypeOK'
<1>1. drawing' \in [Threads -> Seq(Objects)] /\ \A s \in Threads : Len(drawing'[s]) <= 4
  BY ScreenTypes
<1>2. /\ area' \in BOOLEAN /\ moving' \in BOOLEAN
      /\ icon' \in Positions \cup {None} /\ button' \in Positions \cup {None}
  BY ScreenTypes DEF screen
<1>3. /\ ScreenTypeOK' <=>
          /\ area' \in BOOLEAN /\ moving' \in BOOLEAN /\ redrawn' \in BOOLEAN
          /\ icon' \in Positions \cup {None} /\ button' \in Positions \cup {None}
          /\ drawing' \in [Threads -> Seq(Objects)]
          /\ \A s \in Threads : Len(drawing'[s]) <= 4
  BY DEF ScreenTypeOK, Objects
<1> QED BY <1>1, <1>2, <1>3

(* Every step keeps them.                                                  *)
LEMMA ScreenTypeStep == ScreenInv /\ [ScreenNext]_screenVars => ScreenInv'
<1> SUFFICES ASSUME ScreenInv, [ScreenNext]_screenVars PROVE ScreenInv'
  OBVIOUS
<1>a. TypeOK'
  BY ScreenStepIsLockStep, TypeStep DEF ScreenInv
<1>b. target["app"] \in Positions /\ lockState \in Positions
  BY DEF ScreenInv, TypeOK, Threads
<1>c. /\ ScreenTypeOK' <=>
          /\ area' \in BOOLEAN /\ moving' \in BOOLEAN /\ redrawn' \in BOOLEAN
          /\ icon' \in Positions \cup {None} /\ button' \in Positions \cup {None}
          /\ drawing' \in [Threads -> Seq(Objects)]
          /\ \A s \in Threads : Len(drawing'[s]) <= 4
  BY DEF ScreenTypeOK, Objects
<1> SUFFICES ScreenTypeOK'
  BY <1>a DEF ScreenInv
<1>1. ASSUME NEW t \in Threads, ScreenStep(t) PROVE ScreenTypeOK'
  <2>1. PICK q : q = DrawingOf(t)
    OBVIOUS
  <2>2. q \in Seq(Objects) /\ Len(q) <= 4
    BY <1>b, <2>1, DrawingOfType
  <2>3. drawing' = [drawing EXCEPT ![t] = q] /\ UNCHANGED screen
    BY <1>1, <2>1, Zenon DEF ScreenStep
  <2>4. redrawn' \in BOOLEAN
    BY <1>1, ScreenTypes DEF ScreenStep, ScreenInv
  <2> QED BY <2>2, <2>3, <2>4, AskToDrawType DEF ScreenInv
<1>2. ASSUME NEW t \in Threads, DrawStep(t) PROVE ScreenTypeOK'
  <2>a. /\ area \in BOOLEAN /\ moving \in BOOLEAN /\ redrawn \in BOOLEAN
        /\ icon \in Positions \cup {None} /\ button \in Positions \cup {None}
        /\ drawing \in [Threads -> Seq(Objects)]
        /\ \A s \in Threads : Len(drawing[s]) <= 4
    BY ScreenTypes DEF ScreenInv
  <2>1. /\ drawing' \in [Threads -> Seq(Objects)] /\ redrawn' = redrawn
        /\ \A s \in Threads : s # t => drawing'[s] = drawing[s]
        /\ Len(drawing'[t]) <= Len(drawing[t]) /\ Len(drawing'[t]) \in Nat /\ Len(drawing[t]) \in Nat
        /\ Head(drawing[t]) = drawing[t][1] /\ drawing[t][1] \in Objects
    BY <1>2, <2>a, DrawStepEntries
  <2>b. Len(drawing[t]) <= 4 /\ Len(drawing'[t]) <= Len(drawing[t])
        /\ Len(drawing'[t]) \in Nat /\ Len(drawing[t]) \in Nat
    BY <2>a, <2>1, Zenon
  <2>c. Len(drawing'[t]) <= 4
    BY <2>b
  <2>2. \A s \in Threads : Len(drawing'[s]) <= 4
    BY <2>a, <2>1, <2>c, Zenon
  <2>3. drawing[t][1].do \in {"Icon", "Button"} => drawing[t][1].position \in Positions
    BY <2>1 DEF Objects
  <2>4. /\ area' \in BOOLEAN /\ moving' \in BOOLEAN
        /\ icon' \in Positions \cup {None} /\ button' \in Positions \cup {None}
    BY <1>2, <2>a, <2>1, <2>3 DEF DrawStep, ClearScreen, CreateArea, DrawIcon, CreateButton, FindArea,
                                  StartMoving, Draws, screen
  <2> QED BY <1>c, <2>a, <2>1, <2>2, <2>4
<1>3. CASE CommissioningComplete
  <2>1. PICK q : q = Draw(lockState)
    OBVIOUS
  <2>a. q \in Seq(Objects) /\ Len(q) = 4
    BY <1>b, <2>1, DrawEntries
  <2>2. q \in Seq(Objects) /\ Len(q) <= 4
    BY <2>a
  <2>3. drawing' = [drawing EXCEPT !["chip"] = q] /\ UNCHANGED screen /\ redrawn' = TRUE
    BY <1>3, <2>1, Zenon DEF CommissioningComplete
  <2> QED BY <2>2, <2>3, AskToDrawType DEF ScreenInv, Threads
<1>4. CASE Command \/ Tap \/ LockTimer \/ PostOther \/ UNCHANGED screenVars
  <2>1. UNCHANGED <<area, icon, moving, button, drawing, redrawn>>
    BY <1>4 DEF Command, Tap, LockTimer, PostOther, screenVars, screen
  <2> QED BY <2>1 DEF ScreenInv, ScreenTypeOK
<1> QED BY <1>1, <1>2, <1>3, <1>4 DEF ScreenNext

(* The objects of the screen, and what each thread has left to draw, keep  *)
(* their ranges, however the three threads draw over each other            *)
(* (lvgl_support.c).                                                       *)
THEOREM ScreenTypeCorrect == ScreenSpec => []ScreenTypeOK
<1>1. ScreenInv => ScreenTypeOK
  BY DEF ScreenInv
<1> QED BY ScreenTypeInit, ScreenTypeStep, <1>1, PTL DEF ScreenSpec

-----------------------------------------------------------------------------
(***************************************************************************)
(* What is shown at rest, when handlers are Prompt.  The properties speak  *)
(* of a screen that nobody is drawing on; the invariant also says what is  *)
(* still to be drawn, and when.                                            *)
(***************************************************************************)

(* Thread t has yet to do this to the screen.                              *)
Pending(t, do) == \E i \in DOMAIN drawing[t] : drawing[t][i].do = do

(* An animation is only started while the movement it belongs to is timed. *)
AnimationInv ==
    \A t \in Threads : Pending(t, "FindArea") \/ Pending(t, "Move") => armed /\ IsActionInProgress

(* An animation whose movement is over is about to be cleared.             *)
MovingInv == moving => IsActionInProgress \/ Pending("app", "Clear")

(* Other threads than the application task only draw animations, except    *)
(* for the Matter event loop after commissioning.                          *)
DrawersInv ==
    \A t \in Threads : t # "app" =>
        \A i \in DOMAIN drawing[t] :
            drawing[t][i].do \in {"FindArea", "Move"} \/ (t = "chip" /\ redrawn)

(* A lock screen shows the position the door has come to, or it is about   *)
(* to be drawn.                                                            *)
ShownOrPending ==
    area \/ drawing["app"] # <<>> =>
        /\ icon = DoorPosition \/ Pending("app", "Icon")
        /\ button = Other(DoorPosition) \/ Pending("app", "Button")

(* What the application task has to draw is that position.                 *)
PendingIsRight ==
    \A i \in DOMAIN drawing["app"] :
        /\ drawing["app"][i].do = "Icon" => drawing["app"][i].position = DoorPosition
        /\ drawing["app"][i].do = "Button" => drawing["app"][i].position = Other(DoorPosition)
        /\ drawing["app"][i].do = "Clear" => i = 1 /\ Pending("app", "Icon") /\ Pending("app", "Button")

ArrivalInv == ~redrawn /\ ~IsActionInProgress => ShownOrPending /\ PendingIsRight

ShowInv == ScreenInv /\ MoveInv /\ AnimationInv /\ MovingInv /\ DrawersInv /\ ArrivalInv

(* A step of the lock by thread t asks for an animation, for a screen, or  *)
(* for nothing.                                                            *)
LEMMA ScreenStepCases ==
  ASSUME TypeOK, ScreenTypeOK, NEW t \in Threads, ScreenStep(t)
  PROVE  \/ /\ ActionInitiated(t) /\ redrawn' = redrawn
            /\ drawing' = [drawing EXCEPT ![t] = Animation]
         \/ /\ t = "app" /\ CompleteAction /\ redrawn' = (drawing["chip"] # <<>>)
            /\ drawing' = [drawing EXCEPT ![t] = Draw(target["app"])]
         \/ /\ drawing' = drawing /\ redrawn' = redrawn
            /\ mState' = mState \/ (UpdateState(t) /\ t \in Threads)
            /\ armed => armed'
<1>1. /\ drawing[t] = <<>>
      /\ drawing' = [drawing EXCEPT ![t] = DrawingOf(t)]
      /\ redrawn' = IF pc[t] = "complete" THEN drawing["chip"] # <<>> ELSE redrawn
  BY DEF ScreenStep
<1>2. \/ InitiateAction(t)
      \/ t = "chip" /\ ChipStep
      \/ t = "app" /\ AppStep
  BY DEF ScreenStep
<1>3. CASE pc[t] = "callback"
  <2>1. ActionInitiated(t)
    BY <1>2, <1>3 DEF InitiateAction, CheckState, StartTimer, UpdateState, ChipStep, UpdateCluster,
                      SetLockState, AppStep, TakeEvent, ShortPress, ChooseCompletion, CompleteAction,
                      ActionCompleted, ClearSync
  <2>2. DrawingOf(t) = Animation
    BY <1>3, Zenon DEF DrawingOf
  <2>3. redrawn' = redrawn
    BY <1>1, <1>3
  <2> QED BY <1>1, <2>1, <2>2, <2>3, Zenon
<1>4. CASE pc[t] = "complete"
  <2>1. t = "app" /\ CompleteAction
    BY <1>2, <1>4 DEF InitiateAction, CheckState, StartTimer, UpdateState, ActionInitiated, ChipStep,
                      UpdateCluster, SetLockState, AppStep, TakeEvent, ShortPress, ChooseCompletion,
                      ActionCompleted, ClearSync
  <2>2. pc[t] # "callback"
    BY <1>4
  <2>3. DrawingOf(t) = Draw(target["app"])
    BY <1>4, <2>2, Zenon DEF DrawingOf, DrawnPosition
  <2>4. redrawn' = (drawing["chip"] # <<>>)
    BY <1>1, <1>4, Zenon
  <2> QED BY <1>1, <2>1, <2>3, <2>4, Zenon
<1>5. CASE pc[t] \notin {"callback", "complete"}
  <2>1. /\ mState' = mState \/ UpdateState(t)
        /\ armed => armed'
    BY <1>2, <1>5 DEF InitiateAction, CheckState, StartTimer, UpdateState, ActionInitiated, ChipStep,
                      UpdateCluster, SetLockState, AppStep, TakeEvent, ShortPress, ChooseCompletion,
                      CompleteAction, ActionCompleted, ClearSync
  <2>2. DrawingOf(t) = <<>>
    BY <1>5 DEF DrawingOf
  <2>3. drawing' = drawing
    BY <1>1, <2>2, ScreenTypes
  <2>4. redrawn' = redrawn
    BY <1>1, <1>5
  <2> QED BY <2>1, <2>3, <2>4
<1> QED BY <1>3, <1>4, <1>5

(* Without an area to move in, the rest of the animation is not drawn.     *)
LEMMA FindsNoArea ==
  ASSUME NEW t \in Threads, DrawStep(t), drawing \in [Threads -> Seq(Objects)],
         ~area, drawing[t][1].do = "FindArea"
  PROVE  drawing' = [drawing EXCEPT ![t] = <<>>]
<1>1. Head(drawing[t]) = drawing[t][1]
  BY DrawStepEntries
<1> QED BY <1>1 DEF DrawStep, ClearScreen, CreateArea, DrawIcon, CreateButton, FindArea, StartMoving,
                    Draws

(* What is pending when an object has been drawn.                          *)
LEMMA PendingAfter ==
  ASSUME ScreenTypeOK, NEW t \in Threads, DrawStep(t)
  PROVE  /\ \A d : Pending(t, d)' => Pending(t, d)
         /\ \A d : Pending(t, d) /\ drawing[t][1].do # d /\ (area \/ drawing[t][1].do # "FindArea")
                      => Pending(t, d)'
         /\ \A s \in Threads : s # t => \A d : Pending(s, d)' <=> Pending(s, d)
         /\ Pending(t, drawing[t][1].do)
<1>1. /\ 1 \in DOMAIN drawing[t]
      /\ \A s \in Threads : s # t => drawing'[s] = drawing[s]
      /\ \A i \in DOMAIN drawing'[t] : i + 1 \in DOMAIN drawing[t] /\ drawing'[t][i] = drawing[t][i + 1]
      /\ area \/ drawing[t][1].do # "FindArea" =>
            \A i \in DOMAIN drawing[t] : i # 1 => i - 1 \in DOMAIN drawing'[t] /\ drawing'[t][i - 1] = drawing[t][i]
  BY DrawStepEntries, ScreenTypes
<1>2. \A d : Pending(t, d)' => Pending(t, d)
  BY <1>1 DEF Pending
<1>3. ASSUME NEW d, Pending(t, d), drawing[t][1].do # d, area \/ drawing[t][1].do # "FindArea"
      PROVE  Pending(t, d)'
  BY <1>1, <1>3 DEF Pending
<1>4. \A s \in Threads : s # t => \A d : Pending(s, d)' <=> Pending(s, d)
  BY <1>1 DEF Pending
<1>5. Pending(t, drawing[t][1].do)
  BY <1>1 DEF Pending
<1> QED BY <1>2, <1>3, <1>4, <1>5

(* At the start nothing is drawn or about to be, or all of it is.          *)
LEMMA ShowInit == ScreenInit => ShowInv
<1> SUFFICES ASSUME ScreenInit PROVE ShowInv
  OBVIOUS
<1>1. ScreenInv /\ MoveInv
  BY ScreenTypeInit, MoveInit DEF ScreenInit
<1>2. \A t \in Threads : drawing[t] = <<>>
  BY DEF ScreenInit
<1>3. "app" \in Threads
  BY DEF Threads
<1>4. \A t \in Threads : \A d : ~Pending(t, d)
  BY <1>2 DEF Pending
<1>5. DoorPosition = lockState
  BY <1>1, DoorOfState DEF ScreenInit, Init, ScreenInv, TypeOK
<1>6. AnimationInv /\ MovingInv /\ DrawersInv
  BY <1>2, <1>4 DEF AnimationInv, MovingInv, DrawersInv, ScreenInit
<1>7. ShownOrPending
  BY <1>2, <1>3, <1>5 DEF ShownOrPending, ScreenInit
<1>8. PendingIsRight
  BY <1>2, <1>3 DEF PendingIsRight
<1> QED BY <1>1, <1>6, <1>7, <1>8 DEF ShowInv, ArrivalInv

(* Drawing an object: the application task draws what is to be shown, the  *)
(* other threads draw animations of the movement in progress.              *)
LEMMA DrawStepShow ==
  ASSUME ShowInv, NEW t \in Threads, DrawStep(t)
  PROVE  AnimationInv' /\ MovingInv' /\ DrawersInv' /\ ArrivalInv'
<1> DEFINE head == drawing[t][1]
<1>a. ScreenTypeOK /\ AnimationInv /\ MovingInv /\ DrawersInv /\ ArrivalInv
  BY DEF ShowInv, ScreenInv
<1>b. /\ drawing[t] # <<>> /\ Head(drawing[t]) = head /\ head \in Objects
      /\ 1 \in DOMAIN drawing[t]
      /\ \A s \in Threads : s # t => drawing'[s] = drawing[s]
      /\ \A i \in DOMAIN drawing'[t] : i + 1 \in DOMAIN drawing[t] /\ drawing'[t][i] = drawing[t][i + 1]
      /\ UNCHANGED <<vars, redrawn>>
  BY <1>a, DrawStepEntries, ScreenTypes
<1>c. /\ \A d : Pending(t, d)' => Pending(t, d)
      /\ \A d : Pending(t, d) /\ head.do # d /\ (area \/ head.do # "FindArea") => Pending(t, d)'
      /\ \A s \in Threads : s # t => \A d : Pending(s, d)' <=> Pending(s, d)
      /\ Pending(t, head.do)
  BY <1>a, PendingAfter
<1>d. /\ armed' = armed /\ redrawn' = redrawn
      /\ IsActionInProgress' = IsActionInProgress /\ DoorPosition' = DoorPosition
  BY <1>b DEF vars, IsActionInProgress, DoorPosition
<1>e. "app" \in Threads
  BY DEF Threads
<1>f. \/ head.do = "Clear" /\ ~area' /\ ~moving' /\ icon' = None /\ button' = None
      \/ head.do = "Area" /\ area' /\ UNCHANGED <<icon, moving, button>>
      \/ head.do = "Icon" /\ icon' = head.position /\ UNCHANGED <<area, moving, button>>
      \/ head.do = "Button" /\ button' = head.position /\ UNCHANGED <<area, icon, moving>>
      \/ head.do = "FindArea" /\ UNCHANGED <<area, icon, moving, button>>
      \/ head.do = "Move" /\ UNCHANGED <<area, button>>
  BY <1>b DEF DrawStep, ClearScreen, CreateArea, DrawIcon, CreateButton, FindArea, StartMoving,
              Draws, screen
<1> HIDE DEF head
<1>1. AnimationInv'
  BY <1>a, <1>c, <1>d DEF AnimationInv
<1>2. MovingInv'
  <2>1. CASE head.do \in {"FindArea", "Move"}
    BY <1>a, <1>c, <1>d, <2>1 DEF AnimationInv, MovingInv
  <2>2. CASE head.do = "Clear"
    BY <1>f, <2>2 DEF MovingInv
  <2>3. CASE head.do \notin {"FindArea", "Move", "Clear"}
    <3>1. moving' = moving
      BY <1>f, <2>3
    <3>2. Pending("app", "Clear") => Pending("app", "Clear")'
      BY <1>c, <1>e, <2>3
    <3> QED BY <1>a, <1>d, <3>1, <3>2 DEF MovingInv
  <2> QED BY <2>1, <2>2, <2>3
<1>3. DrawersInv'
  <2> SUFFICES ASSUME NEW s \in Threads, s # "app", NEW i \in DOMAIN drawing'[s]
               PROVE  drawing'[s][i].do \in {"FindArea", "Move"} \/ (s = "chip" /\ redrawn')
    BY DEF DrawersInv
  <2>1. CASE s = t
    BY <1>a, <1>b, <1>d, <2>1 DEF DrawersInv
  <2>2. CASE s # t
    BY <1>a, <1>b, <1>d, <2>2 DEF DrawersInv
  <2> QED BY <2>1, <2>2
<1>4. ArrivalInv'
  <2> SUFFICES ASSUME ~redrawn', ~IsActionInProgress'
               PROVE  ShownOrPending' /\ PendingIsRight'
    BY DEF ArrivalInv
  <2>1. ~redrawn /\ ~IsActionInProgress /\ ShownOrPending /\ PendingIsRight
    BY <1>a, <1>d DEF ArrivalInv
  <2>2. head.do \notin {"FindArea", "Move"}
    BY <1>a, <1>c, <2>1 DEF AnimationInv
  <2>3. t = "app"
    <3>1. ASSUME t # "app" PROVE head.do \in {"FindArea", "Move"}
      BY <1>a, <1>b, <2>1, <3>1 DEF DrawersInv, head
    <3> QED BY <2>2, <3>1
  <2>4. /\ head.do = "Icon" => head.position = DoorPosition
        /\ head.do = "Button" => head.position = Other(DoorPosition)
        /\ head.do = "Clear" => Pending("app", "Icon") /\ Pending("app", "Button")
    BY <1>b, <2>1, <2>3 DEF PendingIsRight, head
  <2>5. /\ icon = DoorPosition \/ Pending("app", "Icon")
        /\ button = Other(DoorPosition) \/ Pending("app", "Button")
    BY <1>b, <2>1, <2>3 DEF ShownOrPending
  <2>6. \A d : Pending("app", d) /\ head.do # d => Pending("app", d)'
    BY <1>c, <2>2, <2>3
  <2>7. icon' = DoorPosition \/ Pending("app", "Icon")'
    BY <1>f, <2>2, <2>4, <2>5, <2>6
  <2>8. button' = Other(DoorPosition) \/ Pending("app", "Button")'
    BY <1>f, <2>2, <2>4, <2>5, <2>6
  <2>9. ShownOrPending'
    BY <1>d, <2>7, <2>8 DEF ShownOrPending
  <2>10. PendingIsRight'
    <3> SUFFICES ASSUME NEW i \in DOMAIN drawing'["app"]
                 PROVE  /\ drawing'["app"][i].do = "Icon" => drawing'["app"][i].position = DoorPosition
                        /\ drawing'["app"][i].do = "Button" => drawing'["app"][i].position = Other(DoorPosition)
                        /\ drawing'["app"][i].do # "Clear"
      BY <1>d DEF PendingIsRight
    <3>1. i + 1 \in DOMAIN drawing["app"] /\ drawing'["app"][i] = drawing["app"][i + 1]
      BY <1>b, <2>3
    <3>2. i + 1 # 1
      <4>1. drawing'["app"] \in Seq(Objects)
        BY <1>a, <2>3, DrawStepEntries, ScreenTypes
      <4>2. i \in Nat /\ i >= 1
        BY <4>1
      <4> QED BY <4>2
    <3> QED BY <2>1, <3>1, <3>2 DEF PendingIsRight
  <2> QED BY <2>9, <2>10
<1> QED BY <1>1, <1>2, <1>3, <1>4

(* ActionInitiated starts an animation, of the movement that has just      *)
(* begun.                                                                  *)
LEMMA StartAnimationShow ==
  ASSUME ShowInv, NEW t \in Threads, ActionInitiated(t), UNCHANGED screen, redrawn' = redrawn,
         drawing' = [drawing EXCEPT ![t] = Animation]
  PROVE  AnimationInv' /\ MovingInv' /\ DrawersInv' /\ ArrivalInv'
<1>a. ScreenTypeOK /\ AnimationInv /\ MovingInv /\ DrawersInv /\ MoveInv
  BY DEF ShowInv, ScreenInv
<1>1. armed' /\ IsActionInProgress'
  <2>1. pc[t] = "callback" /\ armed' = armed /\ mState' = mState
    BY DEF ActionInitiated
  <2>2. armed /\ mState = Initiated(target[t]) /\ target[t] \in Positions
    BY <1>a, <2>1 DEF MoveInv, InitiatorInv, TypeOK
  <2> QED BY <2>1, <2>2, InProgress DEF IsActionInProgress
<1>2. PICK q : q = Animation
  OBVIOUS
<1>3. drawing' = [drawing EXCEPT ![t] = q]
  BY <1>2, Zenon
<1>4. DOMAIN q = 1..2 /\ q[1].do = "FindArea" /\ q[2].do = "Move"
  BY <1>2, AnimationEntries
<1>5. drawing'[t] = q /\ \A s \in Threads : s # t => drawing'[s] = drawing[s]
  BY <1>a, <1>3, ScreenTypes
<1>6. \A i \in DOMAIN drawing'[t] : drawing'[t][i].do \in {"FindArea", "Move"}
  <2>1. \A i \in 1..2 : i = 1 \/ i = 2
    OBVIOUS
  <2> QED BY <1>4, <1>5, <2>1
<1>7. AnimationInv' /\ MovingInv' /\ ArrivalInv'
  BY <1>1 DEF AnimationInv, MovingInv, ArrivalInv
<1>8. DrawersInv'
  BY <1>a, <1>5, <1>6 DEF DrawersInv
<1> QED BY <1>7, <1>8

(* ActionCompleted asks for the screen of the position the door has come   *)
(* to, which also clears the animation.                                    *)
LEMMA CompleteShow ==
  ASSUME ShowInv, CompleteAction, UNCHANGED screen, redrawn' = (drawing["chip"] # <<>>),
         drawing' = [drawing EXCEPT !["app"] = Draw(target["app"])]
  PROVE  AnimationInv' /\ MovingInv' /\ DrawersInv' /\ ArrivalInv'
<1>a. ScreenTypeOK /\ AnimationInv /\ DrawersInv /\ MoveInv
  BY DEF ShowInv, ScreenInv
<1>b. "app" \in Threads /\ "chip" \in Threads /\ target["app"] \in Positions
  BY <1>a DEF Threads, MoveInv, TypeOK
<1>1. mState' = Completed(target["app"]) /\ armed' = armed
  BY DEF CompleteAction
<1>2. ~armed
  BY <1>a DEF CompleteAction, MoveInv, OneCompletionPerMove, CompletionPending
<1>3. DoorPosition' = target["app"]
  BY <1>1, <1>b DEF DoorPosition, Completed, Positions
<1>4. PICK q : q = Draw(target["app"])
  OBVIOUS
<1>5. drawing' = [drawing EXCEPT !["app"] = q]
  BY <1>4, Zenon
<1>6. /\ DOMAIN q = 1..4
      /\ q[1].do = "Clear" /\ q[2].do = "Area"
      /\ q[3].do = "Icon" /\ q[3].position = target["app"]
      /\ q[4].do = "Button" /\ q[4].position = Other(target["app"])
  BY <1>b, <1>4, DrawEntries
<1>7. drawing'["app"] = q /\ \A s \in Threads : s # "app" => drawing'[s] = drawing[s]
  BY <1>a, <1>b, <1>5, ScreenTypes
<1>8. \A i \in DOMAIN q : i = 1 \/ i = 2 \/ i = 3 \/ i = 4
  BY <1>6
<1>9. 1 \in DOMAIN q /\ 3 \in DOMAIN q /\ 4 \in DOMAIN q
  BY <1>6
<1>10. /\ Pending("app", "Clear")' /\ Pending("app", "Icon")' /\ Pending("app", "Button")'
       /\ ~Pending("app", "FindArea")' /\ ~Pending("app", "Move")'
  BY <1>6, <1>7, <1>8, <1>9 DEF Pending
<1>11. AnimationInv'
  <2>1. \A s \in Threads : ~Pending(s, "FindArea") /\ ~Pending(s, "Move")
    BY <1>2, <1>a DEF AnimationInv
  <2>2. \A s \in Threads : ~Pending(s, "FindArea")' /\ ~Pending(s, "Move")'
    <3>1. ASSUME NEW s \in Threads, s # "app"
          PROVE  ~Pending(s, "FindArea")' /\ ~Pending(s, "Move")'
      BY <2>1, <1>7, <3>1 DEF Pending
    <3> QED BY <3>1, <1>10
  <2> QED BY <2>2 DEF AnimationInv
<1>12. MovingInv'
  BY <1>10 DEF MovingInv
<1>13. DrawersInv'
  <2> SUFFICES ASSUME NEW s \in Threads, s # "app", NEW i \in DOMAIN drawing'[s]
               PROVE  drawing'[s][i].do \in {"FindArea", "Move"} \/ (s = "chip" /\ redrawn')
    BY DEF DrawersInv
  <2>1. drawing'[s] = drawing[s] /\ (drawing[s][i].do \in {"FindArea", "Move"} \/ s = "chip")
    BY <1>a, <1>7 DEF DrawersInv
  <2>2. drawing[s] # <<>>
    BY <2>1
  <2> QED BY <2>1, <2>2
<1>14. ShownOrPending' /\ PendingIsRight'
  <2>1. ShownOrPending'
    BY <1>10 DEF ShownOrPending
  <2>2. PendingIsRight'
    BY <1>3, <1>6, <1>7, <1>8, <1>10 DEF PendingIsRight
  <2> QED BY <2>1, <2>2
<1> QED BY <1>11, <1>12, <1>13, <1>14 DEF ArrivalInv

(* Steps that leave the screen and what is to be drawn alone, and complete *)
(* nothing, with the timer only expiring when nobody draws.                *)
LEMMA QuietShow ==
  ASSUME ShowInv, UNCHANGED <<area, icon, moving, button, drawing, redrawn>>,
         mState' = mState \/ \E t \in Threads : UpdateState(t),
         (armed => armed') \/ \A t \in Threads : drawing[t] = <<>>
  PROVE  AnimationInv' /\ MovingInv' /\ DrawersInv' /\ ArrivalInv'
<1>a. AnimationInv /\ MovingInv /\ DrawersInv /\ ArrivalInv /\ TypeOK
  BY DEF ShowInv, ScreenInv
<1>1. \/ IsActionInProgress'
      \/ IsActionInProgress' = IsActionInProgress /\ DoorPosition' = DoorPosition
  <2>1. CASE mState' = mState
    BY <2>1 DEF IsActionInProgress, DoorPosition
  <2>2. ASSUME NEW t \in Threads, UpdateState(t) PROVE IsActionInProgress'
    BY <1>a, <2>2 DEF UpdateState, IsActionInProgress, TypeOK, Positions, Initiated
  <2> QED BY <2>1, <2>2
<1>2. \A t, d : Pending(t, d)' <=> Pending(t, d)
  BY DEF Pending
<1>3. AnimationInv'
  <2>1. CASE armed => armed'
    BY <1>a, <1>1, <1>2, <2>1 DEF AnimationInv
  <2>2. CASE \A t \in Threads : drawing[t] = <<>>
    BY <1>2, <2>2 DEF AnimationInv, Pending
  <2> QED BY <2>1, <2>2
<1>4. MovingInv'
  BY <1>a, <1>1, <1>2 DEF MovingInv
<1>5. DrawersInv'
  BY <1>a DEF DrawersInv
<1>6. ArrivalInv'
  BY <1>a, <1>1, <1>2 DEF ArrivalInv, ShownOrPending, PendingIsRight
<1> QED BY <1>3, <1>4, <1>5, <1>6

(* When commissioning completes, the Matter event loop redraws the screen. *)
LEMMA CommissioningShow ==
  ASSUME ShowInv, CommissioningComplete
  PROVE  AnimationInv' /\ MovingInv' /\ DrawersInv' /\ ArrivalInv'
<1>a. ScreenTypeOK /\ AnimationInv /\ MovingInv /\ DrawersInv /\ TypeOK
  BY DEF ShowInv, ScreenInv
<1>b. "app" \in Threads /\ "chip" \in Threads /\ lockState \in Positions
  BY <1>a DEF Threads, TypeOK
<1>1. PICK q : q = Draw(lockState)
  OBVIOUS
<1>2. drawing' = [drawing EXCEPT !["chip"] = q]
  BY <1>1, Zenon DEF CommissioningComplete
<1>3. DOMAIN q = 1..4 /\ q[1].do = "Clear" /\ q[2].do = "Area" /\ q[3].do = "Icon" /\ q[4].do = "Button"
  BY <1>b, <1>1, DrawEntries
<1>4. drawing'["chip"] = q /\ \A s \in Threads : s # "chip" => drawing'[s] = drawing[s]
  BY <1>a, <1>b, <1>2, ScreenTypes
<1>5. redrawn' /\ armed' = armed /\ moving' = moving /\ IsActionInProgress' = IsActionInProgress
  BY DEF CommissioningComplete, vars, screen, IsActionInProgress
<1>6. \A i \in DOMAIN q : i = 1 \/ i = 2 \/ i = 3 \/ i = 4
  BY <1>3
<1>7. AnimationInv'
  <2>1. ~Pending("chip", "FindArea")' /\ ~Pending("chip", "Move")'
    BY <1>3, <1>4, <1>6 DEF Pending
  <2>2. \A s \in Threads : s # "chip" => \A d : Pending(s, d)' <=> Pending(s, d)
    BY <1>4 DEF Pending
  <2> QED BY <1>a, <1>5, <2>1, <2>2 DEF AnimationInv
<1>8. MovingInv'
  <2>1. Pending("app", "Clear")' <=> Pending("app", "Clear")
    BY <1>b, <1>4 DEF Pending
  <2> QED BY <1>a, <1>5, <2>1 DEF MovingInv
<1>9. DrawersInv'
  BY <1>a, <1>4, <1>5 DEF DrawersInv
<1>10. ArrivalInv'
  BY <1>5 DEF ArrivalInv
<1> QED BY <1>7, <1>8, <1>9, <1>10

(* Every step keeps the invariant, when handlers are Prompt.               *)
LEMMA ShowStep ==
  ASSUME Prompt, ShowInv, [ScreenNext]_screenVars
  PROVE  ShowInv'
<1>a. ScreenInv' /\ MoveInv'
  BY ScreenTypeStep, ScreenStepIsLockStep, MoveStep DEF ShowInv
<1> SUFFICES AnimationInv' /\ MovingInv' /\ DrawersInv' /\ ArrivalInv'
  BY <1>a DEF ShowInv
<1>b. TypeOK /\ ScreenTypeOK
  BY DEF ShowInv, ScreenInv
<1>1. ASSUME NEW t \in Threads, ScreenStep(t)
      PROVE  AnimationInv' /\ MovingInv' /\ DrawersInv' /\ ArrivalInv'
  <2>1. UNCHANGED screen
    BY <1>1 DEF ScreenStep
  <2>2. CASE /\ ActionInitiated(t) /\ redrawn' = redrawn
             /\ drawing' = [drawing EXCEPT ![t] = Animation]
    BY <2>1, <2>2, StartAnimationShow
  <2>3. CASE /\ t = "app" /\ CompleteAction /\ redrawn' = (drawing["chip"] # <<>>)
             /\ drawing' = [drawing EXCEPT ![t] = Draw(target["app"])]
    BY <2>1, <2>3, CompleteShow
  <2>4. CASE /\ drawing' = drawing /\ redrawn' = redrawn
             /\ mState' = mState \/ (UpdateState(t) /\ t \in Threads)
             /\ armed => armed'
    BY <2>1, <2>4, QuietShow DEF screen
  <2> QED BY <1>b, <1>1, <2>2, <2>3, <2>4, ScreenStepCases
<1>2. ASSUME NEW t \in Threads, DrawStep(t)
      PROVE  AnimationInv' /\ MovingInv' /\ DrawersInv' /\ ArrivalInv'
  BY <1>2, DrawStepShow
<1>3. CASE CommissioningComplete
  BY <1>3, CommissioningShow
<1>4. CASE Command \/ Tap \/ LockTimer \/ PostOther \/ UNCHANGED screenVars
  <2>1. UNCHANGED <<area, icon, moving, button, drawing, redrawn>> /\ mState' = mState
    BY <1>4 DEF Command, RemoteCommand, Tap, StartLockAction, LockTimer, TimerExpires, PostOther,
                OtherEvent, screenVars, screen, vars
  <2>2. (armed => armed') \/ \A t \in Threads : drawing[t] = <<>>
    BY <1>4 DEF Command, RemoteCommand, Tap, StartLockAction, LockTimer, PostOther, OtherEvent,
                screenVars, vars
  <2> QED BY <2>1, <2>2, QuietShow
<1> QED BY <1>1, <1>2, <1>3, <1>4 DEF ScreenNext

(* What the screen shows and what is left to draw stay in step.            *)
LEMMA ShowInvariant ==
  ASSUME Prompt
  PROVE  ScreenSpec => []ShowInv
<1>1. ShowInv /\ [ScreenNext]_screenVars => ShowInv'
  BY ShowStep
<1> QED BY ShowInit, <1>1, PTL DEF ScreenSpec

(* No animation outlives its movement, whoever draws over it or under it,  *)
(* when handlers are prompt: the thread that would start one too late has  *)
(* a movement of its own, and the arrival of the door clears it            *)
(* (start_lock_screen_animation, clear_screen).                            *)
THEOREM NoAnimationIsLeft ==
  ASSUME Prompt
  PROVE  ScreenSpec => []AnimationEnds
<1>1. ShowInv => AnimationEnds
  <2> SUFFICES ASSUME ShowInv, ScreenAtRest PROVE ~moving
    BY DEF AnimationEnds
  <2>1. ~IsActionInProgress /\ drawing["app"] = <<>>
    BY DEF ScreenAtRest, AtRest, Threads
  <2>2. ~Pending("app", "Clear")
    BY <2>1 DEF Pending
  <2> QED BY <2>1, <2>2 DEF ShowInv, MovingInv
<1> QED BY ShowInvariant, <1>1, PTL

(* At rest the screen shows where the door is and offers the way back,     *)
(* from the arrival of the door until commissioning redraws it, when       *)
(* handlers are prompt (AppTask::ActionCompleted).                         *)
THEOREM ScreenFollowsDoor ==
  ASSUME Prompt
  PROVE  ScreenSpec => []ScreenShowsArrival
<1>1. ShowInv => ScreenShowsArrival
  <2> SUFFICES ASSUME ShowInv, ~redrawn, ScreenAtRest, area
               PROVE  icon = DoorPosition /\ button = Other(DoorPosition) /\ ~moving
    BY DEF ScreenShowsArrival, ScreenShowsDoor
  <2>1. ~IsActionInProgress /\ drawing["app"] = <<>>
    BY DEF ScreenAtRest, AtRest, Threads
  <2>2. \A d : ~Pending("app", d)
    BY <2>1 DEF Pending
  <2>3. ShownOrPending
    BY <2>1 DEF ShowInv, ArrivalInv
  <2>4. ~moving
    BY <2>1, <2>2 DEF ShowInv, MovingInv
  <2> QED BY <2>2, <2>3, <2>4 DEF ShownOrPending
<1> QED BY ShowInvariant, <1>1, PTL

-----------------------------------------------------------------------------
(***************************************************************************)
(* What a screen consists of, commissioning or not.  Each screen is drawn  *)
(* from the clearing to the button by one thread, so that what another     *)
(* cleared meanwhile is drawn by the one that cleared it.                  *)
(***************************************************************************)

(* Someone has yet to do this to the screen.                               *)
Someone(do) == \E t \in Threads : Pending(t, do)

(* Where thread t has yet to do one, it does the other after it.           *)
Follows(t, first, second) ==
    \A i \in DOMAIN drawing[t] : drawing[t][i].do = first =>
        \E j \in DOMAIN drawing[t] : j > i /\ drawing[t][j].do = second

(* A screen is drawn in the order of draw_lock_screen, and a thread draws  *)
(* no screen behind an animation.                                          *)
OrderOfDrawing ==
    \A t \in Threads :
        /\ Follows(t, "Clear", "Area") /\ Follows(t, "Area", "Icon") /\ Follows(t, "Icon", "Button")
        /\ Pending(t, "FindArea") =>
              ~Pending(t, "Area") /\ ~Pending(t, "Icon") /\ ~Pending(t, "Button")

(* There is a lock screen, or it is about to be.                           *)
Coming == area \/ Someone("Area")

(* What the lock screen lacks someone is about to draw; unless there is    *)
(* none, and none has been asked for.                                      *)
PartsInv ==
    /\ Coming => /\ button # None \/ Someone("Button")
                 /\ icon # None \/ moving \/ Someone("Icon")
    /\ ~Coming => ~Someone("Icon") /\ ~Someone("Button") /\ ~redrawn

WholeInv == ScreenInv /\ OrderOfDrawing /\ PartsInv

(* An order in which things are to be done stays when one has been done.   *)
LEMMA FollowsAfter ==
  ASSUME ScreenTypeOK, NEW t \in Threads, DrawStep(t), NEW s \in Threads,
         NEW first, NEW second, Follows(s, first, second)
  PROVE  Follows(s, first, second)'
<1>a. drawing \in [Threads -> Seq(Objects)]
  BY ScreenTypes
<1>1. /\ drawing \in [Threads -> Seq(Objects)] /\ drawing' \in [Threads -> Seq(Objects)]
      /\ \A r \in Threads : r # t => drawing'[r] = drawing[r]
      /\ \A i \in DOMAIN drawing'[t] : i + 1 \in DOMAIN drawing[t] /\ drawing'[t][i] = drawing[t][i + 1]
      /\ area \/ drawing[t][1].do # "FindArea" =>
            \A i \in DOMAIN drawing[t] : i # 1 => i - 1 \in DOMAIN drawing'[t] /\ drawing'[t][i - 1] = drawing[t][i]
  BY <1>a, DrawStepEntries, Zenon
<1>2. CASE s # t
  <2>1. drawing'[s] = drawing[s]
    BY <1>1, <1>2
  <2> QED BY <2>1, Zenon DEF Follows
<1>3. CASE s = t /\ ~(area \/ drawing[t][1].do # "FindArea")
  <2>1. DOMAIN drawing'[t] = {}
    <3>1. drawing' = [drawing EXCEPT ![t] = <<>>]
      BY <1>1, <1>3, FindsNoArea, ScreenTypes
    <3>2. drawing'[t] = <<>>
      BY <1>1, <3>1
    <3> QED BY <3>2
  <2> QED BY <1>3, <2>1 DEF Follows
<1>4. CASE s = t /\ (area \/ drawing[t][1].do # "FindArea")
  <2> SUFFICES ASSUME NEW i \in DOMAIN drawing'[t], drawing'[t][i].do = first
               PROVE  \E j \in DOMAIN drawing'[t] : j > i /\ drawing'[t][j].do = second
    BY <1>4 DEF Follows
  <2>1. i + 1 \in DOMAIN drawing[t] /\ drawing[t][i + 1].do = first
    BY <1>1
  <2>2. PICK j \in DOMAIN drawing[t] : j > i + 1 /\ drawing[t][j].do = second
    BY <1>4, <2>1 DEF Follows
  <2>3. i \in Nat /\ i >= 1 /\ j \in Nat
    BY <1>1
  <2>4. j # 1 /\ j - 1 > i
    BY <2>2, <2>3
  <2>5. j - 1 \in DOMAIN drawing'[t] /\ drawing'[t][j - 1].do = second
    BY <1>1, <1>4, <2>2, <2>4
  <2> QED BY <2>4, <2>5
<1> QED BY <1>2, <1>3, <1>4

(* Drawing an object.                                                      *)
LEMMA DrawStepWhole ==
  ASSUME WholeInv, NEW t \in Threads, DrawStep(t)
  PROVE  OrderOfDrawing' /\ PartsInv'
<1> DEFINE head == drawing[t][1]
<1>a. ScreenTypeOK /\ OrderOfDrawing /\ PartsInv
  BY DEF WholeInv, ScreenInv
<1>b. /\ Head(drawing[t]) = head /\ head \in Objects /\ drawing[t] # <<>>
      /\ redrawn' = redrawn
  BY <1>a, DrawStepEntries, ScreenTypes
<1>c. /\ \A d : Pending(t, d)' => Pending(t, d)
      /\ \A d : Pending(t, d) /\ head.do # d /\ (area \/ head.do # "FindArea") => Pending(t, d)'
      /\ \A s \in Threads : s # t => \A d : Pending(s, d)' <=> Pending(s, d)
      /\ Pending(t, head.do)
  BY <1>a, PendingAfter
<1>d. head.do \in {"Icon", "Button"} => head.position # None
  BY <1>b DEF Objects, Positions, None
<1>e. \/ head.do = "Clear" /\ ~area'
      \/ head.do = "Area" /\ area' /\ UNCHANGED <<icon, moving, button>>
      \/ head.do = "Icon" /\ icon' = head.position /\ UNCHANGED <<area, moving, button>>
      \/ head.do = "Button" /\ button' = head.position /\ UNCHANGED <<area, icon, moving>>
      \/ head.do = "FindArea" /\ UNCHANGED <<area, icon, moving, button>>
      \/ head.do = "Move" /\ moving' = area /\ UNCHANGED <<area, button>>
  BY <1>b DEF DrawStep, ClearScreen, CreateArea, DrawIcon, CreateButton, FindArea, StartMoving,
              Draws, screen
<1>f. /\ \A s \in Threads : Pending(s, "Clear") => Pending(s, "Area")
      /\ \A s \in Threads : Pending(s, "Area") => Pending(s, "Icon")
      /\ \A s \in Threads : Pending(s, "Icon") => Pending(s, "Button")
  BY <1>a DEF OrderOfDrawing, Follows, Pending
<1>g. \A s \in Threads : Pending(s, "FindArea") =>
          ~Pending(s, "Area") /\ ~Pending(s, "Icon") /\ ~Pending(s, "Button")
  BY <1>a DEF OrderOfDrawing
<1> HIDE DEF head
<1>1. OrderOfDrawing'
  <2>1. ASSUME NEW s \in Threads
        PROVE  /\ Follows(s, "Clear", "Area")' /\ Follows(s, "Area", "Icon")'
               /\ Follows(s, "Icon", "Button")'
    BY <1>a, <2>1, FollowsAfter DEF OrderOfDrawing
  <2>2. \A s \in Threads : \A d : Pending(s, d)' => Pending(s, d)
    BY <1>c
  <2>3. \A s \in Threads : Pending(s, "FindArea")' =>
            ~Pending(s, "Area")' /\ ~Pending(s, "Icon")' /\ ~Pending(s, "Button")'
    BY <1>g, <2>2
  <2> QED BY <2>1, <2>3 DEF OrderOfDrawing
(* Nothing of a screen goes undone but what has just been drawn.            *)
<1>2. \A d \in {"Area", "Icon", "Button"} :
          /\ Someone(d)' => Someone(d)
          /\ Someone(d) /\ head.do # d => Someone(d)'
  <2> SUFFICES ASSUME NEW d \in {"Area", "Icon", "Button"}
               PROVE  /\ Someone(d)' => Someone(d)
                      /\ Someone(d) /\ head.do # d => Someone(d)'
    OBVIOUS
  <2>1. Someone(d)' => Someone(d)
    BY <1>c DEF Someone
  <2>2. ASSUME NEW s \in Threads, Pending(s, d), head.do # d PROVE Pending(s, d)'
    <3>1. CASE s # t
      BY <1>c, <2>2, <3>1
    <3>2. CASE s = t
      <4>1. head.do # "FindArea"
        BY <1>c, <1>g, <2>2, <3>2
      <4> QED BY <1>c, <2>2, <3>2, <4>1
    <3> QED BY <3>1, <3>2
  <2> QED BY <2>1, <2>2 DEF Someone
<1>3. Someone("Area") => Someone("Icon")
  BY <1>f DEF Someone
<1>4. head.do \in {"Area", "Icon", "Button"} => Someone(head.do)
  BY <1>c DEF Someone
<1>5. /\ Coming => /\ button # None \/ Someone("Button")
                   /\ icon # None \/ moving \/ Someone("Icon")
      /\ ~Coming => ~Someone("Icon") /\ ~Someone("Button") /\ ~redrawn
  BY <1>a DEF PartsInv
<1>6. CASE head.do = "Clear"
  <2>1. Pending(t, "Area") /\ Pending(t, "Icon") /\ Pending(t, "Button")
    BY <1>c, <1>f, <1>6
  <2>2. Someone("Area")' /\ Someone("Icon")' /\ Someone("Button")'
    BY <1>2, <1>6, <2>1 DEF Someone
  <2> QED BY <1>1, <2>2 DEF PartsInv, Coming
<1>7. CASE head.do = "Area"
  <2>1. Coming /\ Coming' /\ UNCHANGED <<icon, moving, button>>
    BY <1>4, <1>7, <1>e DEF Coming
  <2>2. (Someone("Icon") => Someone("Icon")') /\ (Someone("Button") => Someone("Button")')
    BY <1>2, <1>7
  <2> QED BY <1>1, <1>5, <2>1, <2>2 DEF PartsInv
<1>8. CASE head.do \in {"Icon", "Button", "FindArea", "Move"}
  <2>1. Coming' <=> Coming
    BY <1>2, <1>8, <1>e DEF Coming
  <2>2. ~Coming' => ~Someone("Icon")' /\ ~Someone("Button")' /\ ~redrawn'
    BY <1>2, <1>5, <1>b, <2>1
  <2>3. Coming' => button' # None \/ Someone("Button")'
    BY <1>2, <1>5, <1>8, <1>d, <1>e, <2>1
  <2>4. Coming' => icon' # None \/ moving' \/ Someone("Icon")'
    <3>1. CASE head.do \in {"Icon", "Button", "FindArea"}
      BY <1>2, <1>5, <1>d, <1>e, <2>1, <3>1
    <3>2. CASE head.do = "Move"
      <4>1. moving' = area /\ (Someone("Icon") => Someone("Icon")')
        BY <1>2, <1>e, <3>2
      <4> QED BY <1>3, <2>1, <4>1 DEF Coming
    <3> QED BY <1>8, <3>1, <3>2
  <2> QED BY <1>1, <2>2, <2>3, <2>4 DEF PartsInv
<1> QED BY <1>6, <1>7, <1>8, <1>e

(* A thread that has nothing to draw is given an animation.                *)
LEMMA StartAnimationWhole ==
  ASSUME WholeInv, NEW t \in Threads, drawing[t] = <<>>, UNCHANGED screen, redrawn' = redrawn,
         drawing' = [drawing EXCEPT ![t] = Animation]
  PROVE  OrderOfDrawing' /\ PartsInv'
<1>a. ScreenTypeOK /\ OrderOfDrawing /\ PartsInv
  BY DEF WholeInv, ScreenInv
<1>1. PICK q : q = Animation
  OBVIOUS
<1>2. drawing' = [drawing EXCEPT ![t] = q]
  BY <1>1, Zenon
<1>3. DOMAIN q = 1..2 /\ q[1].do = "FindArea" /\ q[2].do = "Move"
  BY <1>1, AnimationEntries
<1>4. drawing'[t] = q /\ \A s \in Threads : s # t => drawing'[s] = drawing[s]
  BY <1>a, <1>2, ScreenTypes
<1>5. \A i \in DOMAIN drawing'[t] : drawing'[t][i].do \in {"FindArea", "Move"}
  <2>1. \A i \in 1..2 : i = 1 \/ i = 2
    OBVIOUS
  <2> QED BY <1>3, <1>4, <2>1
<1>6. \A d \in {"Clear", "Area", "Icon", "Button"} : ~Pending(t, d)' /\ ~Pending(t, d)
  BY <1>5 DEF Pending
<1>7. \A s \in Threads : s # t => \A d : Pending(s, d)' <=> Pending(s, d)
  BY <1>4 DEF Pending
<1>8. OrderOfDrawing'
  <2> SUFFICES ASSUME NEW s \in Threads
               PROVE  /\ Follows(s, "Clear", "Area")' /\ Follows(s, "Area", "Icon")'
                      /\ Follows(s, "Icon", "Button")'
                      /\ Pending(s, "FindArea")' =>
                            ~Pending(s, "Area")' /\ ~Pending(s, "Icon")' /\ ~Pending(s, "Button")'
    BY DEF OrderOfDrawing
  <2>1. CASE s = t
    BY <1>5, <1>6, <2>1 DEF Follows
  <2>2. CASE s # t
    BY <1>a, <1>4, <1>7, <2>2 DEF OrderOfDrawing, Follows
  <2> QED BY <2>1, <2>2
<1>9. \A d \in {"Area", "Icon", "Button"} : Someone(d)' <=> Someone(d)
  BY <1>6, <1>7 DEF Someone
<1> QED BY <1>a, <1>8, <1>9 DEF PartsInv, Coming, screen

(* A thread that has nothing to draw is given a screen.                    *)
LEMMA StartDrawingWhole ==
  ASSUME WholeInv, NEW t \in Threads, NEW p \in Positions,
         drawing' = [drawing EXCEPT ![t] = Draw(p)]
  PROVE  OrderOfDrawing' /\ PartsInv'
<1>a. ScreenTypeOK /\ OrderOfDrawing
  BY DEF WholeInv, ScreenInv
<1>1. PICK q : q = Draw(p)
  OBVIOUS
<1>2. drawing' = [drawing EXCEPT ![t] = q]
  BY <1>1, Zenon
<1>3. DOMAIN q = 1..4 /\ q[1].do = "Clear" /\ q[2].do = "Area" /\ q[3].do = "Icon" /\ q[4].do = "Button"
  BY <1>1, DrawEntries
<1>4. drawing'[t] = q /\ \A s \in Threads : s # t => drawing'[s] = drawing[s]
  BY <1>a, <1>2, ScreenTypes
<1>5. \A i \in DOMAIN q : i = 1 \/ i = 2 \/ i = 3 \/ i = 4
  BY <1>3
<1>6. 2 \in DOMAIN q /\ 3 \in DOMAIN q /\ 4 \in DOMAIN q
  BY <1>3
<1>7. Someone("Area")' /\ Someone("Icon")' /\ Someone("Button")'
  BY <1>3, <1>4, <1>6 DEF Someone, Pending
<1>8. /\ Follows(t, "Clear", "Area")' /\ Follows(t, "Area", "Icon")' /\ Follows(t, "Icon", "Button")'
      /\ ~Pending(t, "FindArea")'
  <2>1. 2 > 1 /\ 3 > 2 /\ 4 > 3
    OBVIOUS
  <2>2. Follows(t, "Clear", "Area")'
    BY <1>3, <1>4, <1>5, <1>6, <2>1 DEF Follows
  <2>3. Follows(t, "Area", "Icon")'
    BY <1>3, <1>4, <1>5, <1>6, <2>1 DEF Follows
  <2>4. Follows(t, "Icon", "Button")'
    BY <1>3, <1>4, <1>5, <1>6, <2>1 DEF Follows
  <2>5. ~Pending(t, "FindArea")'
    BY <1>3, <1>4, <1>5 DEF Pending
  <2> QED BY <2>2, <2>3, <2>4, <2>5
<1>9. OrderOfDrawing'
  <2> SUFFICES ASSUME NEW s \in Threads
               PROVE  /\ Follows(s, "Clear", "Area")' /\ Follows(s, "Area", "Icon")'
                      /\ Follows(s, "Icon", "Button")'
                      /\ Pending(s, "FindArea")' =>
                            ~Pending(s, "Area")' /\ ~Pending(s, "Icon")' /\ ~Pending(s, "Button")'
    BY DEF OrderOfDrawing
  <2>1. CASE s = t
    BY <1>8, <2>1
  <2>2. CASE s # t
    BY <1>a, <1>4, <2>2 DEF OrderOfDrawing, Follows, Pending
  <2> QED BY <2>1, <2>2
<1> QED BY <1>7, <1>9 DEF PartsInv, Coming

(* The first screen is there whole, or it is the QR code.                  *)
LEMMA WholeInit == ScreenInit => WholeInv
<1> SUFFICES ASSUME ScreenInit PROVE WholeInv
  OBVIOUS
<1>1. ScreenInv
  BY ScreenTypeInit
<1>2. \A t \in Threads : drawing[t] = <<>>
  BY DEF ScreenInit
<1>3. \A t \in Threads : \A d : ~Pending(t, d)
  BY <1>2 DEF Pending
<1>4. OrderOfDrawing
  BY <1>2, <1>3 DEF OrderOfDrawing, Follows
<1>5. lockState # None /\ Other(lockState) # None
  BY <1>1 DEF ScreenInv, TypeOK, Positions, Other, None
<1>6. PartsInv
  BY <1>3, <1>5 DEF PartsInv, Coming, Someone, ScreenInit
<1> QED BY <1>1, <1>4, <1>6 DEF WholeInv

(* Every step keeps the invariant, whether or not handlers are Prompt.     *)
LEMMA WholeStep ==
  ASSUME WholeInv, [ScreenNext]_screenVars
  PROVE  WholeInv'
<1>a. ScreenInv'
  BY ScreenTypeStep DEF WholeInv
<1> SUFFICES OrderOfDrawing' /\ PartsInv'
  BY <1>a DEF WholeInv
<1>b. TypeOK /\ ScreenTypeOK /\ OrderOfDrawing /\ PartsInv
  BY DEF WholeInv, ScreenInv
<1>c. target["app"] \in Positions /\ lockState \in Positions /\ "chip" \in Threads
  BY <1>b DEF TypeOK, Threads
<1>d. ASSUME UNCHANGED <<screen, drawing, redrawn>> PROVE OrderOfDrawing' /\ PartsInv'
  <2>1. \A s \in Threads : \A d : Pending(s, d)' <=> Pending(s, d)
    BY <1>d DEF Pending
  <2>2. \A s \in Threads : \A c, d : Follows(s, c, d)' <=> Follows(s, c, d)
    BY <1>d DEF Follows
  <2>3. OrderOfDrawing'
    BY <1>b, <2>1, <2>2 DEF OrderOfDrawing
  <2>4. \A d : Someone(d)' <=> Someone(d)
    BY <2>1 DEF Someone
  <2> QED BY <1>b, <1>d, <2>3, <2>4 DEF PartsInv, Coming, screen
<1>1. ASSUME NEW t \in Threads, ScreenStep(t) PROVE OrderOfDrawing' /\ PartsInv'
  <2>1. UNCHANGED screen /\ drawing[t] = <<>>
    BY <1>1 DEF ScreenStep
  <2>2. CASE redrawn' = redrawn /\ drawing' = [drawing EXCEPT ![t] = Animation]
    BY <2>1, <2>2, StartAnimationWhole
  <2>3. CASE drawing' = [drawing EXCEPT ![t] = Draw(target["app"])]
    BY <1>c, <2>3, StartDrawingWhole
  <2>4. CASE drawing' = drawing /\ redrawn' = redrawn
    BY <1>d, <2>1, <2>4
  <2> QED BY <1>b, <1>1, <2>2, <2>3, <2>4, ScreenStepCases
<1>2. ASSUME NEW t \in Threads, DrawStep(t) PROVE OrderOfDrawing' /\ PartsInv'
  BY <1>2, DrawStepWhole
<1>3. CASE CommissioningComplete
  BY <1>c, <1>3, StartDrawingWhole DEF CommissioningComplete
<1>4. CASE Command \/ Tap \/ LockTimer \/ PostOther \/ UNCHANGED screenVars
  BY <1>d, <1>4 DEF Command, Tap, LockTimer, PostOther, screenVars
<1> QED BY <1>1, <1>2, <1>3, <1>4 DEF ScreenNext

(* A lock screen at rest has its icon and its button, and is there once    *)
(* the device is commissioned, though three threads clear and draw it      *)
(* without a lock; when handlers are prompt, for the animation takes the   *)
(* icon's place until its movement ends (draw_lock_screen, clear_screen,   *)
(* start_lock_screen_animation).                                           *)
THEOREM ScreenStaysWhole ==
  ASSUME Prompt
  PROVE  ScreenSpec => []ScreenIsWhole
<1>1. WholeInv /\ AnimationEnds => ScreenIsWhole
  <2> SUFFICES ASSUME WholeInv, AnimationEnds, ScreenAtRest, area \/ redrawn
               PROVE  area /\ icon # None /\ button # None
    BY DEF ScreenIsWhole
  <2>1. ~moving
    BY DEF AnimationEnds
  <2>2. \A d : ~Someone(d)
    BY DEF ScreenAtRest, Someone, Pending
  <2> QED BY <2>1, <2>2 DEF WholeInv, PartsInv, Coming
<1>2. WholeInv /\ [ScreenNext]_screenVars => WholeInv'
  BY WholeStep
<1> QED BY WholeInit, NoAnimationIsLeft, <1>1, <1>2, PTL DEF ScreenSpec
=============================================================================
