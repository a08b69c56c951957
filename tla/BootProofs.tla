----------------------------- MODULE BootProofs -----------------------------
(***************************************************************************)
(* Proofs about Boot: what FactoryReset keeps is kept by a button that is  *)
(* pressed while the firmware comes up, for any delays and queue size; and *)
(* threads that get to run in time find what other threads make.  Also     *)
(* about Touch.                                                            *)
(***************************************************************************)
EXTENDS Boot, Touch, FactoryResetProofs

(* The invariant: that of the factory reset, and a debounce timer that     *)
(* does not run before it exists.                                          *)
ButtonInv ==
    /\ TypeOK /\ LatchInv /\ HeldInv
    /\ ~ButtonHeard => debounceTimer = Off

(* It holds when the device starts.                                        *)
LEMMA ButtonInit == BootInit => ButtonInv
  BY TypeInit DEF BootInit, ButtonInv, Init, LatchInv, HeldInv

(* What has been made stays.                                               *)
LEMMA MadeStays ==
    ASSUME [BootNext]_deviceVars
    PROVE  made \subseteq made'
<1>1. ASSUME NEW t \in BootThreads, BootStep(t) PROVE made \subseteq made'
  BY <1>1 DEF BootStep
<1> QED BY <1>1 DEF BootNext, Command, TickBoot, ButtonAndFunction, bootVars, deviceVars

(* A press that is not heard.                                              *)
LEMMA PressUnheardKeeps == ButtonInv /\ PressUnheard => ButtonInv'
<1> SUFFICES ASSUME ButtonInv, PressUnheard PROVE ButtonInv'
  OBVIOUS
<1>1. 0 \in 0..HoldBound
  BY ConstantsAssumption
<1>2. TypeOK'
  BY <1>1 DEF ButtonInv, PressUnheard, TypeOK, function
<1>3. LatchInv'
  BY DEF ButtonInv, PressUnheard, LatchInv, function
<1>4. debounceTimer' = Off
  BY DEF ButtonInv, PressUnheard
<1> QED BY <1>2, <1>3, <1>4 DEF ButtonInv, HeldInv

(* Only an edge starts the debounce timer.                                 *)
LEMMA OnlyEdgesStart ==
    ASSUME debounceTimer = Off, Release \/ TimerStep \/ OtherEvent \/ AppStep \/ Tick
    PROVE  debounceTimer' = Off
  BY DEF Release, TimerStep, DebounceExpires, FunctionTimerExpires, OtherEvent, Tick, Countdown, Off,
         AppStep, OpenWindow, CancelWindow, IgnoreLongPress, OtherHandler, TriggerReset, IgnoreExpiry,
         button

(* Every step keeps the invariant.                                         *)
LEMMA ButtonStepKeeps == ButtonInv /\ [BootNext]_deviceVars => ButtonInv'
<1> SUFFICES ASSUME ButtonInv, [BootNext]_deviceVars PROVE ButtonInv'
  OBVIOUS
<1>1. ButtonHeard => ButtonHeard'
  BY MadeStays DEF ButtonHeard
<1>2. ASSUME [Next]_vars PROVE TypeOK' /\ LatchInv' /\ HeldInv'
  BY <1>2, TypeStep, LatchStep, HeldStep DEF ButtonInv
<1>3. CASE PressUnheard
  BY <1>3, PressUnheardKeeps
<1>4. CASE ButtonHeard /\ (Press \/ Bounce)
  BY <1>1, <1>2, <1>4 DEF Next, ButtonInv
<1>5. CASE Release \/ TimerStep \/ OtherEvent \/ AppStep \/ Tick
  <2>1. [Next]_vars
    BY <1>5 DEF Next
  <2>2. ~ButtonHeard' => debounceTimer' = Off
    BY <1>1, <1>5, OnlyEdgesStart DEF ButtonInv
  <2> QED BY <1>2, <2>1, <2>2 DEF ButtonInv
<1>6. CASE UNCHANGED vars
  <2>1. TypeOK' /\ LatchInv' /\ HeldInv'
    BY <1>2, <1>6
  <2>2. debounceTimer' = debounceTimer
    BY <1>6 DEF vars
  <2> QED BY <1>1, <2>1, <2>2 DEF ButtonInv
<1> QED BY <1>3, <1>4, <1>5, <1>6
        DEF BootNext, BootStep, Command, TickBoot, ButtonAndFunction, ButtonStep, AppLoop, deviceVars

(* Button, timers and queue keep their types while the firmware boots.     *)
THEOREM TypeCorrectFromBoot == BootSpec => []TypeOK
<1>1. ButtonInv => TypeOK
  BY DEF ButtonInv
<1> QED BY ButtonInit, ButtonStepKeeps, <1>1, PTL DEF BootSpec

(* A factory reset is scheduled at most once also when the button is       *)
(* pressed from the first moment on (main.cpp to lockMgr_Init).            *)
THEOREM ResetOnceFromBoot == BootSpec => []ResetAtMostOnce
<1>1. ButtonInv => ResetAtMostOnce
  BY DEF ButtonInv, LatchInv, ResetAtMostOnce
<1> QED BY ButtonInit, ButtonStepKeeps, <1>1, PTL DEF BootSpec

(* A button that is down before its interrupt is enabled is not taken for  *)
(* a long press: the time it is held counts from an edge that was heard.   *)
THEOREM LongPressWasHeldFromBoot == BootSpec => LongPressIsHeld
<1>1. ButtonInv /\ [BootNext]_deviceVars => [DebounceExpires /\ down => held >= Debounce]_vars
  BY DEF ButtonInv, HeldInv, TypeOK, DebounceExpires, Off
<1> QED BY ButtonInit, ButtonStepKeeps, <1>1, PTL DEF BootSpec, LongPressIsHeld

(* The window is not opened or decided by booting.                         *)
LEMMA BootKeepsWindow ==
    ASSUME Prompt, TypeOK, WindowInv, [BootNext]_deviceVars
    PROVE  WindowInv'
<1>1. CASE [Next]_vars
  BY <1>1, WindowStep
<1>2. CASE PressUnheard
  BY <1>2 DEF PressUnheard, WindowInv, TimerInv, QueueInv, ExpiryInv, MayOpen, function
<1> QED BY <1>1, <1>2
        DEF BootNext, BootStep, Command, TickBoot, ButtonAndFunction, ButtonStep, AppLoop, deviceVars,
            Next, vars

(* The user has the whole window to cancel also when the button is pressed *)
(* from the first moment on.                                               *)
THEOREM WholeWindowFromBoot ==
    ASSUME Prompt
    PROVE  BootSpec => ResetAfterWholeWindow
<1>1. BootInit => WindowInv
  BY WindowStart DEF BootInit
<1>2. ButtonInv /\ WindowInv /\ [BootNext]_deviceVars => WindowInv'
  BY BootKeepsWindow DEF ButtonInv
<1>3. ButtonInv /\ WindowInv /\ [BootNext]_deviceVars => [TriggerReset => open = Window]_vars
  BY ResetNeedsWindow DEF ButtonInv
<1> QED BY ButtonInit, ButtonStepKeeps, <1>1, <1>2, <1>3, PTL DEF BootSpec, ResetAfterWholeWindow

(* Booting does not touch the window that presses have opened.             *)
LEMMA BootKeepsTimer ==
    ASSUME TypeOK, TimedInv, [BootNext]_deviceVars
    PROVE  TimedInv'
<1>1. CASE [Next]_vars
  BY <1>1, TimedStep
<1>2. CASE PressUnheard
  <2>1. UNCHANGED <<functionTimer, queue, mFunction, mFunctionTimerActive, lost>>
    BY <1>2 DEF PressUnheard, function
  <2> QED BY <2>1 DEF TimedInv, WindowIsTimed
<1> QED BY <1>1, <1>2
        DEF BootNext, BootStep, Command, TickBoot, ButtonAndFunction, ButtonStep, AppLoop, deviceVars,
            Next, vars

(* An open window keeps its timer also when it is opened as soon as the    *)
(* application task takes events, for any delays of the other threads.     *)
THEOREM WindowKeepsItsTimerFromBoot == BootSpec => []WindowIsTimed
<1>1. BootInit => TimedInv
  BY DEF BootInit, Init, TimedInv, WindowIsTimed
<1>2. ButtonInv /\ TimedInv /\ [BootNext]_deviceVars => TimedInv'
  BY BootKeepsTimer DEF ButtonInv
<1>3. TimedInv => WindowIsTimed
  BY DEF TimedInv
<1> QED BY ButtonInit, ButtonStepKeeps, <1>1, <1>2, <1>3, PTL DEF BootSpec

-----------------------------------------------------------------------------
(***************************************************************************)
(* The order in which things are made.                                     *)
(***************************************************************************)

Steps == [main |-> MainSteps(ui), display |-> DisplaySteps, main_task |-> MainTaskSteps,
          app |-> AppSteps, chip |-> InitServerSteps(ui)]

(* Thread t has taken its first n steps.                                   *)
Progress(t, n) ==
    /\ left[t] = SubSeq(Steps[t], n + 1, Len(Steps[t]))
    /\ \A i \in 1..Len(Steps[t]) : Steps[t][i] \in made <=> i <= n
    /\ n > 0 => Begins[t] \subseteq made

(* A thread takes its steps in their order once it has begun, and no       *)
(* thread takes one of another.                                            *)
OrderInv ==
    /\ ui \in BOOLEAN /\ DOMAIN left = BootThreads
    /\ \A t \in BootThreads : \E n \in 0..Len(Steps[t]) : Progress(t, n)

(* Which thread takes a step.                                              *)
Owner(step) ==
    IF step \in {"watchdog", "memory", "display", "pause", "main_task"} THEN "main"
    ELSE IF step \in {"store", "stack", "event_loop", "queue", "app_task"} THEN "main_task"
    ELSE IF step \in {"event_handler", "init_server"} THEN "app"
    ELSE IF step \in {"reset", "lvgl", "splash"} THEN "display"
    ELSE "chip"

(* No thread takes a step of another.                                      *)
LEMMA StepsOwned ==
    ASSUME ui \in BOOLEAN, NEW t \in BootThreads
    PROVE  \A i \in 1..Len(Steps[t]) : Owner(Steps[t][i]) = t
<1>1. CASE t = "main"
  BY <1>1 DEF Steps, MainSteps, Owner
<1>2. CASE t = "display"
  BY <1>2 DEF Steps, DisplaySteps, Owner
<1>3. CASE t = "main_task"
  BY <1>3 DEF Steps, MainTaskSteps, Owner
<1>4. CASE t = "app"
  BY <1>4 DEF Steps, AppSteps, Owner
<1>5. CASE t = "chip"
  BY <1>5 DEF Steps, InitServerSteps, Owner
<1> QED BY <1>1, <1>2, <1>3, <1>4, <1>5 DEF BootThreads

StepNames ==
    {"watchdog", "memory", "display", "pause", "main_task",
     "store", "stack", "event_loop", "queue", "app_task",
     "event_handler", "init_server", "reset", "lvgl", "splash",
     "server", "lock", "interrupt", "button_timer", "function_timer", "callbacks", "led",
     "tables", "screen"}

(* The steps of a thread are a sequence.                                   *)
LEMMA StepsType ==
    ASSUME ui \in BOOLEAN, NEW t \in BootThreads
    PROVE  Steps[t] \in Seq(StepNames)
<1>1. CASE t = "main"
  <2>1. MainSteps(TRUE) \in Seq(StepNames)
    BY DEF MainSteps, StepNames
  <2>2. MainSteps(FALSE) \in Seq(StepNames)
    BY DEF MainSteps, StepNames
  <2> QED BY <1>1, <2>1, <2>2 DEF Steps
<1>2. CASE t = "display"
  BY <1>2 DEF Steps, DisplaySteps, StepNames
<1>3. CASE t = "main_task"
  BY <1>3 DEF Steps, MainTaskSteps, StepNames
<1>4. CASE t = "app"
  BY <1>4 DEF Steps, AppSteps, StepNames
<1>5. CASE t = "chip"
  <2>1. InitServerSteps(TRUE) \in Seq(StepNames)
    BY DEF InitServerSteps, StepNames
  <2>2. InitServerSteps(FALSE) \in Seq(StepNames)
    BY DEF InitServerSteps, StepNames
  <2> QED BY <1>5, <2>1, <2>2 DEF Steps
<1> QED BY <1>1, <1>2, <1>3, <1>4, <1>5 DEF BootThreads

(* Nor does it take one twice.                                             *)
LEMMA StepsOnce ==
    ASSUME ui \in BOOLEAN, NEW t \in BootThreads
    PROVE  \A i, j \in 1..Len(Steps[t]) : Steps[t][i] = Steps[t][j] => i = j
<1>1. CASE t = "main"
  BY <1>1 DEF Steps, MainSteps
<1>2. CASE t = "display"
  BY <1>2 DEF Steps, DisplaySteps
<1>3. CASE t = "main_task"
  BY <1>3 DEF Steps, MainTaskSteps
<1>4. CASE t = "app"
  BY <1>4 DEF Steps, AppSteps
<1>5. CASE t = "chip"
  BY <1>5 DEF Steps, InitServerSteps
<1> QED BY <1>1, <1>2, <1>3, <1>4, <1>5 DEF BootThreads

(* At first no thread has taken a step.                                    *)
LEMMA OrderInit == BootInit => OrderInv
<1> SUFFICES ASSUME BootInit PROVE OrderInv
  OBVIOUS
<1>1. ui \in BOOLEAN /\ made = {} /\ left = Steps /\ DOMAIN left = BootThreads
  BY DEF BootInit, Steps, BootThreads
<1>2. ASSUME NEW t \in BootThreads PROVE 0 \in 0..Len(Steps[t]) /\ Progress(t, 0)
  <2>1. Steps[t] \in Seq(StepNames)
    BY <1>1, StepsType
  <2>2. SubSeq(Steps[t], 0 + 1, Len(Steps[t])) = Steps[t]
    BY <2>1
  <2> QED BY <1>1, <2>1, <2>2 DEF Progress
<1> QED BY <1>1, <1>2 DEF OrderInv

(* What a step of one thread does to the progress of all.                  *)
LEMMA StepProgress ==
    ASSUME OrderInv, NEW t \in BootThreads, NEW n \in 0..Len(Steps[t]), Progress(t, n), BootStep(t)
    PROVE  /\ n < Len(Steps[t]) /\ Head(left[t]) = Steps[t][n + 1]
           /\ Begins[t] \subseteq made
           /\ made' = made \cup {Steps[t][n + 1]}
           /\ Progress(t, n + 1)'
<1> DEFINE s == Steps[t]
<1>1. s \in Seq(StepNames) /\ n \in Nat
  BY StepsType DEF OrderInv
<1>2. \A i, j \in 1..Len(s) : s[i] = s[j] => i = j
  BY StepsOnce DEF OrderInv
<1>3. left[t] = SubSeq(s, n + 1, Len(s)) /\ left[t] # <<>> /\ Begins[t] \subseteq made
  BY DEF Progress, BootStep, Running
<1>4. s' = s
  BY DEF BootStep, Steps
<1>5. /\ made' = made \cup {Head(left[t])} /\ left' = [left EXCEPT ![t] = Tail(@)]
  BY DEF BootStep
<1> HIDE DEF s
<1>6. n < Len(s)
  BY <1>1, <1>3
<1>7. Head(left[t]) = s[n + 1] /\ Tail(left[t]) = SubSeq(s, n + 2, Len(s))
  BY <1>1, <1>3, <1>6
<1>8. \A i \in 1..Len(s) : s[i] \in made' <=> i <= n + 1
  <2>1. \A i \in 1..Len(s) : s[i] \in made <=> i <= n
    BY DEF Progress, s
  <2> QED BY <1>1, <1>2, <1>5, <1>6, <1>7, <2>1
<1>9. left'[t] = SubSeq(s, (n + 1) + 1, Len(s))
  BY <1>1, <1>5, <1>7 DEF OrderInv
<1>10. Progress(t, n + 1)'
  BY <1>3, <1>4, <1>5, <1>8, <1>9 DEF Progress, s
<1> QED BY <1>3, <1>5, <1>6, <1>7, <1>10 DEF s

(* Every step keeps the order.                                             *)
LEMMA OrderStep == OrderInv /\ [BootNext]_deviceVars => OrderInv'
<1> SUFFICES ASSUME OrderInv, [BootNext]_deviceVars PROVE OrderInv'
  OBVIOUS
<1>1. ASSUME NEW t \in BootThreads, BootStep(t) PROVE OrderInv'
  <2>1. PICK n \in 0..Len(Steps[t]) : Progress(t, n)
    BY DEF OrderInv
  <2>2. /\ n < Len(Steps[t])
        /\ made' = made \cup {Steps[t][n + 1]}
        /\ Progress(t, n + 1)'
    BY <1>1, <2>1, StepProgress
  <2>3. Steps' = Steps /\ ui' = ui /\ left' = [left EXCEPT ![t] = Tail(@)]
    BY <1>1 DEF BootStep, Steps
  <2>4. Len(Steps[t]) \in Nat
    BY StepsType DEF OrderInv
  <2>5. n + 1 \in 0..Len(Steps'[t]) /\ n + 1 \in 1..Len(Steps[t])
    BY <2>2, <2>3, <2>4
  <2>6. ASSUME NEW u \in BootThreads, u # t
        PROVE  \E m \in 0..Len(Steps'[u]) : Progress(u, m)'
    <3>1. PICK m \in 0..Len(Steps[u]) : Progress(u, m)
      BY DEF OrderInv
    <3>2. \A i \in 1..Len(Steps[u]) : Steps[u][i] # Steps[t][n + 1]
      BY <2>5, <2>6, StepsOwned DEF OrderInv
    <3>3. left'[u] = left[u]
      BY <2>3, <2>6 DEF OrderInv
    <3>4. Progress(u, m)'
      BY <2>2, <2>3, <3>1, <3>2, <3>3 DEF Progress
    <3> QED BY <2>3, <3>4
  <2> QED BY <2>2, <2>3, <2>5, <2>6 DEF OrderInv
<1>2. CASE UNCHANGED <<ui, left, made>>
  BY <1>2 DEF OrderInv, Progress, Steps
<1> QED BY <1>1, <1>2 DEF BootNext, Command, TickBoot, ButtonAndFunction, bootVars, deviceVars

(* What a thread has made says what it does next.                          *)
LEMMA NextStep ==
    ASSUME OrderInv, NEW t \in BootThreads, NEW n \in 0..Len(Steps[t]), Progress(t, n)
    PROVE  /\ left[t] = <<>> <=> n = Len(Steps[t])
           /\ n < Len(Steps[t]) => Head(left[t]) = Steps[t][n + 1]
<1> DEFINE s == Steps[t]
<1>1. s \in Seq(StepNames)
  BY StepsType DEF OrderInv
<1>2. left[t] = SubSeq(s, n + 1, Len(s)) /\ n \in 0..Len(s)
  BY DEF Progress
<1> HIDE DEF s
<1>3. ASSUME n < Len(s) PROVE left[t] # <<>> /\ Head(left[t]) = s[n + 1]
  <2>1. Len(left[t]) = Len(s) - n /\ left[t][1] = s[n + 1]
    BY <1>1, <1>2, <1>3
  <2>2. left[t] \in Seq(StepNames)
    BY <1>1, <1>2
  <2>3. Len(left[t]) > 0
    BY <1>1, <1>2, <1>3, <2>1
  <2>4. left[t] # <<>> /\ Head(left[t]) = left[t][1]
    BY <2>2, <2>3
  <2> QED BY <2>1, <2>4, Zenon
<1>4. n = Len(s) => left[t] = <<>>
  BY <1>1, <1>2
<1>5. n < Len(s) \/ n = Len(s)
  BY <1>1, <1>2
<1> QED BY <1>3, <1>4, <1>5 DEF s

(* A thread that has a step to take is not through.                        *)
LEMMA UnmadeIsLeft ==
    ASSUME OrderInv, NEW t \in BootThreads, NEW i \in 1..Len(Steps[t]), Steps[t][i] \notin made
    PROVE  left[t] # <<>>
<1>1. PICK n \in 0..Len(Steps[t]) : Progress(t, n)
  BY DEF OrderInv
<1>2. ~(i <= n)
  BY <1>1 DEF Progress
<1>3. Len(Steps[t]) \in Nat
  BY StepsType DEF OrderInv
<1>4. n # Len(Steps[t])
  BY <1>2, <1>3
<1> QED BY <1>1, <1>4, NextStep

(* What lets a thread begin is a step of another thread.                   *)
LEMMA BeginnersLeft ==
    ASSUME OrderInv
    PROVE  /\ "main_task" \notin made => left["main"] # <<>>
           /\ ui /\ "display" \notin made => left["main"] # <<>>
           /\ "app_task" \notin made \/ "event_loop" \notin made => left["main_task"] # <<>>
           /\ "init_server" \notin made => left["app"] # <<>>
<1>1. {"main", "main_task", "app"} \subseteq BootThreads /\ ui \in BOOLEAN
  BY DEF BootThreads, OrderInv
<1>2. ASSUME "main_task" \notin made PROVE left["main"] # <<>>
  <2>1. CASE ui
    <3>1. 5 \in 1..Len(Steps["main"]) /\ Steps["main"][5] = "main_task"
      BY <2>1 DEF Steps, MainSteps
    <3> QED BY <1>1, <1>2, <3>1, UnmadeIsLeft
  <2>2. CASE ~ui
    <3>1. 3 \in 1..Len(Steps["main"]) /\ Steps["main"][3] = "main_task"
      BY <2>2 DEF Steps, MainSteps
    <3> QED BY <1>1, <1>2, <3>1, UnmadeIsLeft
  <2> QED BY <2>1, <2>2
<1>3. ASSUME ui, "display" \notin made PROVE left["main"] # <<>>
  <2>1. 3 \in 1..Len(Steps["main"]) /\ Steps["main"][3] = "display"
    BY <1>3 DEF Steps, MainSteps
  <2> QED BY <1>1, <1>3, <2>1, UnmadeIsLeft
<1>4. ASSUME "app_task" \notin made \/ "event_loop" \notin made PROVE left["main_task"] # <<>>
  <2>1. /\ 5 \in 1..Len(Steps["main_task"]) /\ Steps["main_task"][5] = "app_task"
        /\ 3 \in 1..Len(Steps["main_task"]) /\ Steps["main_task"][3] = "event_loop"
    BY DEF Steps, MainTaskSteps
  <2> QED BY <1>1, <1>4, <2>1, UnmadeIsLeft
<1>5. ASSUME "init_server" \notin made PROVE left["app"] # <<>>
  <2>1. 2 \in 1..Len(Steps["app"]) /\ Steps["app"][2] = "init_server"
    BY DEF Steps, AppSteps
  <2> QED BY <1>1, <1>5, <2>1, UnmadeIsLeft
<1> QED BY <1>2, <1>3, <1>4, <1>5

(* LockParams are within Limits: LockManager::Init does not halt.          *)
LEMMA ParamsAreAccepted == ParamsFit
<1>1. DOMAIN Limits = {"numberOfUsers", "numberOfCredentialsPerUser", "numberOfWeekdaySchedulesPerUser",
                       "numberOfYeardaySchedulesPerUser", "numberOfHolidaySchedules"}
  BY DEF Limits
<1> QED BY <1>1 DEF ParamsFit, Limits, LockParams

(* No two threads wait for each other while the firmware comes up, and     *)
(* LockManager::Init does not halt it: while anything is left to be made,  *)
(* some thread has begun and is not refused.  That it then comes up is     *)
(* liveness, which needs that threads run and that time passes.            *)
THEOREM SomeThreadGoesOn == BootSpec => []BootGoesOn
<1>1. OrderInv => BootGoesOn
  <2> SUFFICES ASSUME OrderInv, NEW t \in BootThreads, left[t] # <<>>, t = "display" => ui
               PROVE  \E u \in BootThreads : Running(u)
    BY ParamsAreAccepted DEF BootGoesOn
  <2>1. /\ Begins["main"] = {} /\ Begins["display"] = {"display"}
        /\ Begins["main_task"] = {"main_task"} /\ Begins["app"] = {"app_task"}
        /\ Begins["chip"] = {"event_loop", "init_server"}
        /\ {"main", "main_task", "app", "chip", "display"} \subseteq BootThreads
    BY DEF Begins, BootThreads
  <2>2. left["main"] # <<>> => Running("main")
    BY <2>1 DEF Running
  <2>3. left["main_task"] # <<>> => Running("main_task") \/ Running("main")
    BY <2>1, <2>2, BeginnersLeft DEF Running
  <2>4. left["app"] # <<>> => Running("app") \/ Running("main_task") \/ Running("main")
    BY <2>1, <2>3, BeginnersLeft DEF Running
  <2>5. left["chip"] # <<>> => \/ Running("chip") \/ Running("app")
                              \/ Running("main_task") \/ Running("main")
    BY <2>1, <2>3, <2>4, BeginnersLeft DEF Running
  <2>6. t = "display" => Running("display") \/ Running("main")
    BY <2>1, <2>2, BeginnersLeft DEF Running
  <2> QED BY <2>1, <2>2, <2>3, <2>4, <2>5, <2>6 DEF BootThreads
<1> QED BY OrderInit, OrderStep, <1>1, PTL DEF BootSpec

(* The display thread: reset, LVGL, splash screen.                         *)
LEMMA DisplayOrder ==
    ASSUME OrderInv
    PROVE  /\ "splash" \in made => "lvgl" \in made /\ "reset" \in made
           /\ "splash" \notin made =>
                  /\ left["display"] # <<>>
                  /\ Head(left["display"]) \in {"reset", "lvgl", "splash"}
                  /\ Head(left["display"]) = "reset" <=> "reset" \notin made
<1>1. PICK n \in 0..Len(Steps["display"]) : Progress("display", n)
  BY DEF OrderInv, BootThreads
<1>2. Steps["display"] = <<"reset", "lvgl", "splash">> /\ "display" \in BootThreads
  BY DEF Steps, DisplaySteps, BootThreads
<1>3. /\ left["display"] = <<>> <=> n = 3
      /\ n < 3 => Head(left["display"]) = Steps["display"][n + 1]
      /\ n \in 0..3
  BY <1>1, <1>2, NextStep
<1>4. ("reset" \in made <=> 1 <= n) /\ ("lvgl" \in made <=> 2 <= n) /\ ("splash" \in made <=> 3 <= n)
  BY <1>1, <1>2 DEF Progress
<1> QED BY <1>2, <1>3, <1>4

(* main() starts main_task after the pause, if there is a display.         *)
LEMMA MainOrder ==
    ASSUME OrderInv, ui
    PROVE  /\ "main_task" \in made => {"display", "pause"} \subseteq made
           /\ "display" \in made /\ "pause" \notin made => Head(left["main"]) = "pause"
<1>1. PICK n \in 0..Len(Steps["main"]) : Progress("main", n)
  BY DEF OrderInv, BootThreads
<1>2. Steps["main"] = <<"watchdog", "memory", "display", "pause", "main_task">> /\ "main" \in BootThreads
  BY DEF Steps, MainSteps, BootThreads
<1>3. (n < 5 => Head(left["main"]) = Steps["main"][n + 1]) /\ n \in 0..5
  BY <1>1, <1>2, NextStep
<1>4. ("display" \in made <=> 3 <= n) /\ ("pause" \in made <=> 4 <= n) /\ ("main_task" \in made <=> 5 <= n)
  BY <1>1, <1>2 DEF Progress
<1> QED BY <1>2, <1>3, <1>4

(* The pause comes after the display has been started.                     *)
LEMMA PauseOrder ==
    ASSUME OrderInv, NEW t \in BootThreads, BootStep(t), Head(left[t]) = "pause"
    PROVE  "display" \in made
<1>1. PICK n \in 0..Len(Steps[t]) : Progress(t, n)
  BY DEF OrderInv
<1>2. n < Len(Steps[t]) /\ Head(left[t]) = Steps[t][n + 1]
  BY <1>1, StepProgress
<1>3. n \in Nat /\ n + 1 \in 1..Len(Steps[t])
  BY <1>2, StepsType DEF OrderInv
<1>4. t = "main"
  BY <1>2, <1>3, StepsOwned DEF OrderInv, Owner
<1>5. Steps["main"] = <<"watchdog", "memory", "display", "pause", "main_task">>
  BY <1>2, <1>3, <1>4 DEF Steps, MainSteps
<1>6. n = 3
  BY <1>2, <1>3, <1>4, <1>5
<1> QED BY <1>1, <1>4, <1>5, <1>6 DEF Progress

(* Nothing of main_task is made before main() has started it.              *)
LEMMA MainTaskOrder ==
    ASSUME OrderInv, "event_loop" \in made
    PROVE  "main_task" \in made
<1>1. PICK n \in 0..Len(Steps["main_task"]) : Progress("main_task", n)
  BY DEF OrderInv, BootThreads
<1>2. Steps["main_task"] = <<"store", "stack", "event_loop", "queue", "app_task">>
  BY DEF Steps, MainTaskSteps
<1>3. "event_loop" \in made <=> 3 <= n
  BY <1>1, <1>2 DEF Progress
<1>4. n > 0
  BY <1>1, <1>2, <1>3
<1> QED BY <1>1, <1>4 DEF Progress, Begins

(* InitServer and lockMgr_Init: the button's interrupt and timer come      *)
(* before the function timer and the callbacks, with nothing slow between. *)
LEMMA ChipOrder ==
    ASSUME OrderInv
    PROVE  /\ "callbacks" \in made => "function_timer" \in made
           /\ left["chip"] = <<>> => {"lock", "callbacks", "tables"} \subseteq made
           /\ ButtonHeard /\ "callbacks" \notin made =>
                  /\ Running("chip")
                  /\ Head(left["chip"]) \in {"function_timer", "callbacks"}
<1>1. PICK n \in 0..Len(Steps["chip"]) : Progress("chip", n)
  BY DEF OrderInv, BootThreads
<1>2. /\ Steps["chip"][2] = "lock" /\ Steps["chip"][3] = "interrupt"
      /\ Steps["chip"][4] = "button_timer" /\ Steps["chip"][5] = "function_timer"
      /\ Steps["chip"][6] = "callbacks" /\ "tables" \in {Steps["chip"][7], Steps["chip"][8]}
      /\ Len(Steps["chip"]) = 8 /\ "chip" \in BootThreads
  <2>1. CASE ui
    BY <2>1 DEF Steps, InitServerSteps, BootThreads
  <2>2. CASE ~ui
    BY <2>2 DEF Steps, InitServerSteps, BootThreads
  <2> QED BY <2>1, <2>2
<1>3. /\ left["chip"] = <<>> <=> n = 8
      /\ n < 8 => Head(left["chip"]) = Steps["chip"][n + 1]
      /\ n \in 0..8
  BY <1>1, <1>2, NextStep
<1>4. \A i \in 1..8 : Steps["chip"][i] \in made <=> i <= n
  BY <1>1, <1>2 DEF Progress
<1>5. ASSUME ButtonHeard, "callbacks" \notin made
      PROVE  Running("chip") /\ Head(left["chip"]) \in {"function_timer", "callbacks"}
  <2>1. 4 <= n /\ ~(6 <= n)
    BY <1>2, <1>4, <1>5 DEF ButtonHeard
  <2>2. n \in {4, 5}
    BY <1>3, <2>1
  <2>3. Begins["chip"] \subseteq made
    BY <1>1, <2>2 DEF Progress
  <2> QED BY <1>2, <1>3, <2>2, <2>3 DEF Running
<1>6. left["chip"] = <<>> => {"lock", "callbacks", "tables"} \subseteq made
  <2>1. ASSUME left["chip"] = <<>> PROVE {"lock", "callbacks", "tables"} \subseteq made
    <3>1. \A i \in 1..8 : Steps["chip"][i] \in made
      BY <1>3, <1>4, <2>1
    <3> QED BY <1>2, <3>1
  <2> QED BY <2>1
<1>7. "callbacks" \in made => "function_timer" \in made
  BY <1>2, <1>3, <1>4
<1> QED BY <1>5, <1>6, <1>7

(* The screen is drawn by a thread that the event loop has begun, in a     *)
(* build with a display; the splash screen is drawn once LVGL is there,    *)
(* and once.                                                               *)
LEMMA DrawingOrder ==
    ASSUME OrderInv, NEW t \in BootThreads, BootStep(t)
    PROVE  /\ Head(left[t]) = "screen" => ui /\ "event_loop" \in made
           /\ Head(left[t]) = "splash" => "lvgl" \in made /\ "splash" \notin made
<1>1. PICK n \in 0..Len(Steps[t]) : Progress(t, n)
  BY DEF OrderInv
<1>2. /\ n < Len(Steps[t]) /\ Head(left[t]) = Steps[t][n + 1]
      /\ Begins[t] \subseteq made
  BY <1>1, StepProgress
<1>3. n \in Nat /\ n + 1 \in 1..Len(Steps[t])
  BY <1>2, StepsType DEF OrderInv
<1>4. Owner(Head(left[t])) = t
  BY <1>2, <1>3, StepsOwned DEF OrderInv
<1>5. CASE Head(left[t]) = "screen"
  <2>1. t = "chip"
    BY <1>4, <1>5 DEF Owner
  <2>2. ui
    BY <1>2, <1>3, <1>5, <2>1 DEF Steps, InitServerSteps
  <2> QED BY <1>2, <1>5, <2>1, <2>2 DEF Begins
<1>6. CASE Head(left[t]) = "splash"
  <2>1. t = "display" /\ Steps["display"] = <<"reset", "lvgl", "splash">>
    BY <1>4, <1>6 DEF Owner, Steps, DisplaySteps
  <2>2. n = 2
    BY <1>2, <1>3, <1>6, <2>1
  <2>3. "lvgl" \in made /\ "splash" \notin made
    BY <1>1, <2>1, <2>2 DEF Progress
  <2> QED BY <1>6, <2>3
<1> QED BY <1>5, <1>6

-----------------------------------------------------------------------------
(***************************************************************************)
(* What delays order: threads that get to run in time, and a pause longer  *)
(* than the display's reset.                                               *)
(***************************************************************************)

(* The display thread is done before main() ends its pause.                *)
DisplayInv ==
    /\ waited \in [BootThreads -> Nat]
    /\ "display" \in made /\ "splash" \notin made =>
           "pause" \notin made /\ waited["main"] <= ResetDelay
    /\ "display" \in made /\ "reset" \notin made => waited["main"] <= waited["display"]
    /\ "pause" \in made => "display" \in made
    /\ "screen" \in made => ui /\ "splash" \in made /\ picture \in FirstScreens

(* No time passes between the button's timer and its callbacks.            *)
PressInv ==
    "callbacks" \notin made =>
        /\ debounceTimer \in {Off, Debounce}
        /\ \A i \in DOMAIN queue : queue[i] \notin PressEvents

BootInv == ButtonInv /\ OrderInv /\ DisplayInv /\ PressInv

(* The screen is drawn when the splash screen has been.                    *)
LEMMA ScreenAfterSplash ==
    ASSUME BootInv, NEW t \in BootThreads, BootStep(t), Head(left[t]) = "screen"
    PROVE  ui /\ "splash" \in made
<1>1. ui /\ "event_loop" \in made
  BY DrawingOrder DEF BootInv
<1>2. {"display", "pause"} \subseteq made
  BY <1>1, MainTaskOrder, MainOrder DEF BootInv
<1> QED BY <1>1, <1>2 DEF BootInv, DisplayInv

(* A step of a thread: main() cannot end its pause while the display is    *)
(* not done.                                                               *)
LEMMA StepKeepsDisplay ==
    ASSUME Pause > ResetDelay, BootInv, NEW t \in BootThreads, BootStep(t)
    PROVE  DisplayInv'
<1> DEFINE step == Head(left[t])
<1>1. /\ made' = made \cup {step} /\ waited' = [waited EXCEPT ![t] = 0] /\ ui' = ui
      /\ picture' \in Drawn(step) /\ waited[t] >= Delay(step)
  BY DEF BootStep
<1>2. waited' \in [BootThreads -> Nat]
  BY <1>1 DEF BootInv, DisplayInv
<1>3. /\ Pause \in Nat /\ ResetDelay \in Nat
      /\ waited["main"] \in Nat /\ waited["display"] \in Nat
      /\ waited'["main"] \in {0, waited["main"]} /\ waited'["display"] \in {0, waited["display"]}
      /\ waited'["main"] <= waited["main"]
  BY <1>1, DelaysAssumption DEF BootInv, DisplayInv, BootThreads
<1>4. PICK n \in 0..Len(Steps[t]) : Progress(t, n)
  BY DEF BootInv, OrderInv
<1>5. Owner(step) = t /\ step \notin made
  <2>1. n < Len(Steps[t]) /\ step = Steps[t][n + 1] /\ n + 1 \in 1..Len(Steps[t])
    BY <1>4, StepProgress, StepsType DEF BootInv, OrderInv
  <2>2. ~(n + 1 <= n)
    BY <1>4
  <2> QED BY <1>4, <2>1, <2>2, StepsOwned DEF BootInv, OrderInv, Progress
<1>6. step = "screen" => ui /\ "splash" \in made
  BY ScreenAfterSplash
<1>7. step = "display" => t = "main"
  BY <1>5 DEF Owner
<1>8. step = "reset" => t = "display"
  BY <1>5 DEF Owner
<1> HIDE DEF step
<1>9. ASSUME "display" \in made', "splash" \notin made'
      PROVE  "pause" \notin made' /\ waited'["main"] <= ResetDelay
  <2>1. CASE step = "display"
    <3>1. waited'["main"] = 0
      BY <1>1, <1>7, <2>1 DEF BootInv, DisplayInv
    <3>2. "pause" \notin made
      BY <1>5, <2>1 DEF BootInv, DisplayInv
    <3> QED BY <1>1, <1>3, <2>1, <3>1, <3>2
  <2>2. CASE step # "display"
    <3>1. "pause" \notin made /\ waited["main"] <= ResetDelay
      BY <1>1, <1>9, <2>2 DEF BootInv, DisplayInv
    <3>2. step # "pause"
      <4>1. ASSUME step = "pause" PROVE FALSE
        <5>1. t = "main" /\ Delay(step) = Pause
          BY <1>5, <4>1 DEF Owner, Delay
        <5> QED BY <1>1, <1>3, <3>1, <5>1
      <4> QED BY <4>1
    <3> QED BY <1>1, <1>3, <3>1, <3>2
  <2> QED BY <2>1, <2>2
<1>10. ASSUME "display" \in made', "reset" \notin made'
       PROVE  waited'["main"] <= waited'["display"]
  <2>1. CASE step = "display"
    <3>1. waited'["main"] = 0
      BY <1>1, <1>7, <2>1 DEF BootInv, DisplayInv
    <3> QED BY <1>3, <3>1
  <2>2. CASE step # "display"
    <3>1. "display" \in made /\ "reset" \notin made /\ step # "reset"
      BY <1>1, <1>10, <2>2
    <3>2. t # "display"
      BY <3>1, DisplayOrder DEF BootInv, step
    <3>3. waited'["display"] = waited["display"]
      BY <1>1, <3>2 DEF BootInv, DisplayInv, BootThreads
    <3> QED BY <1>3, <3>1, <3>3 DEF BootInv, DisplayInv
  <2> QED BY <2>1, <2>2
<1>11. "pause" \in made' => "display" \in made'
  BY <1>1, PauseOrder DEF BootInv, DisplayInv, step
<1>12. ASSUME "screen" \in made'
       PROVE  ui' /\ "splash" \in made' /\ picture' \in FirstScreens
  <2>1. CASE step = "screen"
    BY <1>1, <1>6, <2>1 DEF Drawn
  <2>2. CASE step # "screen"
    <3>1. ui /\ "splash" \in made /\ picture \in FirstScreens
      BY <1>1, <1>12, <2>2 DEF BootInv, DisplayInv
    <3> QED BY <1>1, <1>5, <2>2, <3>1 DEF Drawn
  <2> QED BY <2>1, <2>2
<1> QED BY <1>2, <1>9, <1>10, <1>11, <1>12 DEF DisplayInv

(* Time: while the display is not done, it is its reset that takes it.     *)
LEMMA TickKeepsDisplay ==
    ASSUME Prompt, BootInv, TickBoot
    PROVE  DisplayInv'
<1>1. /\ UNCHANGED <<ui, left, made, picture>>
      /\ waited' = [t \in BootThreads |->
                      IF Running(t) THEN UpTo(waited[t] + 1, Delay(Head(left[t]))) ELSE waited[t]]
      /\ \A t \in BootThreads : Running(t) => Head(left[t]) \in Slow \/ waited[t] < Delay(Head(left[t]))
  BY DEF TickBoot
<1>2. \A step : Delay(step) \in Nat
  BY DelaysAssumption DEF Delay
<1>3. \A w, d \in Nat : UpTo(w + 1, d) \in Nat /\ UpTo(w + 1, d) <= w + 1 /\ (w < d => UpTo(w + 1, d) = w + 1)
  BY DEF UpTo
<1>4. \A t \in BootThreads : waited[t] \in Nat /\ waited'[t] \in Nat /\ waited'[t] <= waited[t] + 1
  BY <1>1, <1>2, <1>3 DEF BootInv, DisplayInv
<1>5. waited' \in [BootThreads -> Nat]
  BY <1>1, <1>4
<1>6. ASSUME "display" \in made, "splash" \notin made
      PROVE  /\ "reset" \notin made /\ waited["display"] < ResetDelay
             /\ waited'["display"] = waited["display"] + 1
  <2>0. /\ left["display"] # <<>> /\ Head(left["display"]) \in {"reset", "lvgl", "splash"}
        /\ Head(left["display"]) = "reset" => "reset" \notin made
    <3>1. OrderInv
      BY DEF BootInv
    <3>2. left["display"] # <<>>
      BY <1>6, <3>1, DisplayOrder
    <3>3. Head(left["display"]) \in {"reset", "lvgl", "splash"}
      BY <1>6, <3>1, DisplayOrder
    <3>4. Head(left["display"]) = "reset" => "reset" \notin made
      BY <1>6, <3>1, DisplayOrder
    <3> QED BY <3>2, <3>3, <3>4
  <2>1. Running("display") /\ Head(left["display"]) \in {"reset", "lvgl", "splash"}
    BY <1>6, <2>0 DEF Running, Begins
  <2>2. waited["display"] < Delay(Head(left["display"]))
    BY <1>1, <2>1 DEF Slow, BootThreads
  <2>3. waited["display"] \in Nat
    BY <1>4 DEF BootThreads
  <2>4. Head(left["display"]) = "reset" /\ Delay("reset") = ResetDelay
    BY <2>1, <2>2, <2>3 DEF Delay
  <2>5. waited'["display"] = UpTo(waited["display"] + 1, ResetDelay)
    BY <1>1, <2>1, <2>4 DEF BootThreads
  <2>6. waited["display"] < ResetDelay /\ "reset" \notin made
    BY <2>0, <2>2, <2>4
  <2> QED BY <1>3, <2>3, <2>5, <2>6, DelaysAssumption
<1>7. ASSUME "display" \in made, "splash" \notin made
      PROVE  waited'["main"] <= ResetDelay /\ waited'["main"] <= waited'["display"]
  <2>1. waited["main"] <= waited["display"]
    BY <1>6, <1>7 DEF BootInv, DisplayInv
  <2> QED BY <1>4, <1>6, <1>7, <2>1, DelaysAssumption DEF BootThreads
<1>8. "reset" \notin made => "splash" \notin made
  BY DisplayOrder DEF BootInv
<1> QED BY <1>1, <1>5, <1>7, <1>8 DEF BootInv, DisplayInv

(* Every step keeps the order of the display.                              *)
LEMMA DisplayStep ==
    ASSUME Prompt, Pause > ResetDelay, BootInv, [BootNext]_deviceVars
    PROVE  DisplayInv'
<1>1. CASE UNCHANGED <<ui, made, waited, picture>>
  BY <1>1 DEF BootInv, DisplayInv
<1> QED BY <1>1, StepKeepsDisplay, TickKeepsDisplay
        DEF BootNext, Command, ButtonAndFunction, bootVars, deviceVars

(* The button: no press is posted before its callbacks are there.          *)
LEMMA PressStep ==
    ASSUME Prompt, BootInv, [BootNext]_deviceVars
    PROVE  PressInv'
<1> SUFFICES ASSUME "callbacks" \notin made'
             PROVE  /\ debounceTimer' \in {Off, Debounce}
                    /\ \A i \in DOMAIN queue' : queue'[i] \notin PressEvents
  BY DEF PressInv
<1>1. /\ "callbacks" \notin made /\ debounceTimer \in {Off, Debounce}
      /\ \A i \in DOMAIN queue : queue[i] \notin PressEvents
  BY MadeStays DEF BootInv, PressInv
<1>2. queue \in Seq(Events) /\ debounceTimer # 0
  BY <1>1, ConstantsAssumption DEF BootInv, ButtonInv, TypeOK, Off
<1>3. CASE UNCHANGED <<debounceTimer, queue>>
  BY <1>1, <1>3
<1>4. CASE Press \/ Bounce
  BY <1>1, <1>4 DEF Press, Bounce, EdgeStarts
<1>5. CASE FunctionTimerExpires \/ OtherEvent
  <2>1. PICK e \in {"function", "other"} : PostEvent(e)
    BY <1>5 DEF FunctionTimerExpires, OtherEvent
  <2>2. e \in Events /\ e \notin PressEvents
    BY DEF Events, PressEvents
  <2>3. \A i \in DOMAIN queue' : queue'[i] \notin PressEvents
    BY <1>1, <1>2, <2>1, <2>2, Posted
  <2> QED BY <1>1, <1>5, <2>3 DEF FunctionTimerExpires, OtherEvent, button
<1>6. CASE AppStep
  <2>1. PICK e : Take(e)
    BY <1>6 DEF AppStep, OpenWindow, CancelWindow, IgnoreLongPress, OtherHandler, TriggerReset, IgnoreExpiry
  <2>2. \A i \in DOMAIN queue' : queue'[i] \notin PressEvents
    BY <1>1, <1>2, <2>1, Taken
  <2>3. debounceTimer' = debounceTimer
    BY <1>6 DEF AppStep, OpenWindow, CancelWindow, IgnoreLongPress, OtherHandler, TriggerReset, IgnoreExpiry, button
  <2> QED BY <1>1, <2>2, <2>3
<1>7. CASE TickBoot
  <2>1. debounceTimer = Off
    <3>1. ASSUME debounceTimer # Off PROVE FALSE
      <4>1. Running("chip") /\ Head(left["chip"]) \in {"function_timer", "callbacks"}
        BY <1>1, <3>1, ChipOrder DEF BootInv, ButtonInv
      <4>2. Head(left["chip"]) \notin Slow /\ Delay(Head(left["chip"])) = 0
        BY <4>1 DEF Slow, Delay
      <4>3. waited["chip"] < 0 /\ waited["chip"] \in Nat
        BY <1>7, <4>1, <4>2 DEF TickBoot, BootThreads, BootInv, DisplayInv
      <4> QED BY <4>3
    <3> QED BY <3>1
  <2> QED BY <1>1, <1>7, <2>1 DEF TickBoot, Tick, Countdown
<1>8. CASE DebounceExpires
  BY <1>2, <1>8 DEF DebounceExpires
<1>9. CASE Release \/ PressUnheard
  BY <1>1, <1>9 DEF Release, PressUnheard
<1> QED BY <1>3, <1>4, <1>5, <1>6, <1>7, <1>8, <1>9
        DEF BootNext, BootStep, Command, ButtonAndFunction, ButtonStep, TimerStep, AppLoop, deviceVars, vars

(* The invariant holds at first and is kept.                               *)
LEMMA BootStart == BootInit => BootInv
<1> SUFFICES ASSUME BootInit PROVE BootInv
  OBVIOUS
<1>1. ButtonInv /\ OrderInv
  BY ButtonInit, OrderInit
<1>2. made = {} /\ waited = [t \in BootThreads |-> 0] /\ debounceTimer = Off /\ queue = <<>>
  BY DEF BootInit, Init
<1>3. DisplayInv
  BY <1>2 DEF DisplayInv
<1>4. PressInv
  BY <1>2 DEF PressInv
<1> QED BY <1>1, <1>3, <1>4 DEF BootInv

(* Every step keeps all of it.                                             *)
LEMMA BootInvStep ==
    ASSUME Prompt, Pause > ResetDelay, BootInv, [BootNext]_deviceVars
    PROVE  BootInv'
  BY ButtonStepKeeps, OrderStep, DisplayStep, PressStep DEF BootInv

(* In firmware whose threads get to run in time, and whose pause for the   *)
(* logo is longer than the display's reset, the splash screen never covers *)
(* the lock's screen, for all other delays and sizes (display_task,        *)
(* main.cpp).                                                              *)
THEOREM SplashComesFirst ==
    ASSUME Prompt, Pause > ResetDelay
    PROVE  BootSpec => []ScreenIsNotSplash
<1>1. BootInv /\ [BootNext]_deviceVars => BootInv'
  BY BootInvStep
<1>2. BootInv => ScreenIsNotSplash
  BY DEF BootInv, DisplayInv, ScreenIsNotSplash, FirstScreens
<1> QED BY BootStart, <1>1, <1>2, PTL DEF BootSpec

(* Only the debounce timer posts a short press.                            *)
LEMMA ShortPressesAreDebounced ==
    ASSUME TypeOK, [BootNext]_deviceVars, queue' = Append(queue, "short")
    PROVE  DebounceExpires
<1>1. queue \in Seq(Events) /\ "short" \in Events
  BY DEF TypeOK, Events
<1>2. queue' # queue /\ Len(queue') = Len(queue) + 1 /\ queue'[Len(queue) + 1] = "short"
  BY <1>1
<1>3. CASE AppStep
  <2>1. queue # <<>> /\ queue' = Tail(queue)
    BY <1>3 DEF AppStep, OpenWindow, CancelWindow, IgnoreLongPress, OtherHandler, TriggerReset, IgnoreExpiry, Take
  <2>2. Len(queue') = Len(queue) - 1
    BY <1>1, <2>1
  <2> QED BY <1>1, <1>2, <2>2
<1>4. CASE FunctionTimerExpires \/ OtherEvent
  <2>1. PICK e \in {"function", "other"} : PostEvent(e)
    BY <1>4 DEF FunctionTimerExpires, OtherEvent
  <2>2. e \in Events /\ e # "short"
    BY DEF Events
  <2>3. queue' = queue \/ queue'[Len(queue) + 1] = e
    BY <1>1, <2>1, <2>2 DEF PostEvent
  <2> QED BY <1>2, <2>2, <2>3
<1>5. CASE UNCHANGED queue
  BY <1>2, <1>5
<1> QED BY <1>3, <1>4, <1>5
        DEF BootNext, BootStep, Command, TickBoot, Tick, ButtonAndFunction, ButtonStep, Press, Bounce,
            PressUnheard, Release, TimerStep, AppLoop, deviceVars, vars

(* What is drawn is drawn when LVGL is there.                              *)
LEMMA DrawingFindsLvgl ==
    ASSUME BootInv, [BootNext]_deviceVars, picture' # picture
    PROVE  "lvgl" \in made
<1>1. PICK t \in BootThreads : BootStep(t)
  BY DEF BootNext, Command, TickBoot, ButtonAndFunction, bootVars, deviceVars
<1>2. Head(left[t]) \in {"splash", "screen"}
  BY <1>1 DEF BootStep, Drawn
<1>3. CASE Head(left[t]) = "splash"
  BY <1>1, <1>3, DrawingOrder DEF BootInv
<1>4. CASE Head(left[t]) = "screen"
  BY <1>1, <1>4, ScreenAfterSplash, DisplayOrder DEF BootInv
<1> QED BY <1>2, <1>3, <1>4

(* In such firmware whoever uses something finds it made, though nothing   *)
(* waits for it: the long press its function timer, a press the callbacks  *)
(* of the lock, a command its tables, and whoever draws LVGL.              *)
THEOREM FindsWhatOthersMake ==
    ASSUME Prompt, Pause > ResetDelay
    PROVE  BootSpec => FindsWhatItUses
<1>1. BootInv /\ [BootNext]_deviceVars => BootInv'
  BY BootInvStep
<1>2. ASSUME BootInv, [BootNext]_deviceVars
      PROVE  /\ OpenWindow => "function_timer" \in made
             /\ queue' = Append(queue, "short") => "callbacks" \in made
             /\ Command => {"lock", "callbacks", "tables"} \subseteq made
             /\ picture' # picture => "lvgl" \in made
  <2>1. OrderInv /\ TypeOK /\ queue \in Seq(Events)
    BY <1>2 DEF BootInv, ButtonInv, TypeOK
  <2>2. OpenWindow => "function_timer" \in made
    <3>1. ASSUME OpenWindow PROVE 1 \in DOMAIN queue /\ queue[1] \in PressEvents
      BY <2>1, <3>1, Taken DEF OpenWindow, PressEvents
    <3>2. OpenWindow => "callbacks" \in made
      BY <1>2, <3>1 DEF BootInv, PressInv
    <3> QED BY <2>1, <3>2, ChipOrder
  <2>3. queue' = Append(queue, "short") => "callbacks" \in made
    <3>1. ASSUME queue' = Append(queue, "short") PROVE debounceTimer = 0
      BY <1>2, <2>1, <3>1, ShortPressesAreDebounced DEF DebounceExpires
    <3>2. 0 \notin {Off, Debounce}
      BY ConstantsAssumption DEF Off
    <3> QED BY <1>2, <3>1, <3>2 DEF BootInv, PressInv
  <2>4. Command => {"lock", "callbacks", "tables"} \subseteq made
    BY <2>1, ChipOrder DEF Command
  <2>5. picture' # picture => "lvgl" \in made
    BY <1>2, DrawingFindsLvgl
  <2> QED BY <2>2, <2>3, <2>4, <2>5
<1>3. BootInv /\ [BootNext]_deviceVars =>
          [/\ OpenWindow => "function_timer" \in made
           /\ queue' = Append(queue, "short") => "callbacks" \in made
           /\ Command => {"lock", "callbacks", "tables"} \subseteq made
           /\ picture' # picture => "lvgl" \in made]_deviceVars
  BY <1>2
<1> QED BY BootStart, <1>1, <1>3, PTL DEF BootSpec, FindsWhatItUses

-----------------------------------------------------------------------------
(***************************************************************************)
(* The touch driver.                                                       *)
(***************************************************************************)

(* A touch that is unread has left a count, or the call that took the      *)
(* count has still to read.                                                *)
TouchInv ==
    /\ touch_count \in 0..CountBound
    /\ reader \in 0..2
    /\ unread => touch_count > 0 \/ reader # 0

(* The count is cleared before the point is read, so that a call that has  *)
(* begun has still to read.                                                *)
LEMMA AccessOrder ==
    /\ DOMAIN Accesses = {1, 2} /\ Accesses[1] = "clear" /\ Accesses[2] = "read"
    /\ \A r \in 0..2 : r # 0 <=> \E i \in DOMAIN Accesses : 0 < r /\ r <= i /\ Accesses[i] = "read"
<1>1. DOMAIN Accesses = {1, 2} /\ Accesses[1] = "clear" /\ Accesses[2] = "read"
  BY DEF Accesses
<1>2. \A r \in 0..2 : r # 0 => 0 < r /\ r <= 2
  OBVIOUS
<1>3. \A r \in 0..2 : r # 0 => \E i \in DOMAIN Accesses : 0 < r /\ r <= i /\ Accesses[i] = "read"
  BY <1>1, <1>2
<1> QED BY <1>1, <1>3

(* Every step keeps that.                                                  *)
LEMMA TouchStep == TouchInv /\ [TouchNext]_touchVars => TouchInv'
<1> SUFFICES ASSUME TouchInv, [TouchNext]_touchVars PROVE TouchInv'
  OBVIOUS
<1>1. ASSUME NEW p \in Points, TouchInterrupt(p) PROVE TouchInv'
  <2>1. touch_count' \in 1..CountBound
    BY <1>1, TouchAssumption DEF TouchInterrupt, TouchInv
  <2> QED BY <1>1, <2>1 DEF TouchInterrupt, TouchInv
<1>2. CASE TestCount
  BY <1>2 DEF TestCount, TouchInv
<1>3. CASE ClearCount
  <2>1. reader = 1
    BY <1>3, AccessOrder DEF ClearCount
  <2>2. reader' = 2 /\ touch_count' = 0
    BY <1>3, <2>1 DEF ClearCount, Returns
  <2> QED BY <2>2, TouchAssumption DEF TouchInv
<1>4. ASSUME NEW i2c \in BOOLEAN, ReadXY(i2c) PROVE TouchInv'
  <2>1. reader = 2
    BY <1>4, AccessOrder DEF ReadXY
  <2>2. reader' = 0 /\ unread' = FALSE /\ touch_count' = touch_count
    BY <1>4, <2>1 DEF ReadXY, Returns
  <2> QED BY <2>2 DEF TouchInv
<1>5. CASE UNCHANGED <<touch_count, reader, unread>>
  BY <1>5 DEF TouchInv
<1> QED BY <1>1, <1>2, <1>3, <1>4, <1>5 DEF TouchNext, InitDriver, touchVars

(* No touch goes unread, wherever in touchpad_read its interrupt comes and *)
(* however many come.                                                      *)
THEOREM EveryTouchIsRead == TouchSpec => []TouchIsRead
<1>1. TouchInit => TouchInv
  BY TouchAssumption DEF TouchInit, TouchInv
<1>2. TouchInv => TouchIsRead
  BY AccessOrder DEF TouchInv, TouchIsRead
<1> QED BY <1>1, <1>2, TouchStep, PTL DEF TouchSpec
=============================================================================
