-------------------------------- MODULE Boot --------------------------------
(***************************************************************************)
(* How the firmware comes up: main() starts the watchdog, the display and  *)
(* main_task; main_task starts the Matter event loop and the application   *)
(* task; the application task schedules InitServer on the event loop, and  *)
(* that initialises the lock, the button, the timers and the screen.  The  *)
(* button of FactoryReset may be pressed all along.                        *)
(*                                                                         *)
(* A step is named for what there is when it has been taken.  Nothing but  *)
(* order and delays keeps one thread from using what another has yet to    *)
(* make.                                                                   *)
(***************************************************************************)
EXTENDS FactoryReset

CONSTANTS
    Pause,      \* how long main() waits "for logo display", in ticks
    ResetDelay  \* DISPLAY_RESET_DELAY_MS, in ticks

ASSUME DelaysAssumption == Pause \in Nat /\ ResetDelay \in Nat

VARIABLES
    ui,         \* the build: ENABLE_UI
    left,       \* the steps that each thread still has to take
    made,       \* the steps that have been taken
    waited,     \* per thread: ticks spent in a delay
    picture,    \* what the display shows
    served      \* history: a remote command has been served

bootVars == <<ui, left, made, waited, picture, served>>
deviceVars == <<vars, bootVars>>

-----------------------------------------------------------------------------
(***************************************************************************)
(* The threads and their steps.                                            *)
(***************************************************************************)

BootThreads == {"main", "display", "main_task", "app", "chip"}

(* main.cpp *)
MainSteps(withUI) ==
    IF withUI THEN <<"watchdog", "memory", "display", "pause", "main_task">>
    ELSE <<"watchdog", "memory", "main_task">>

(* main_task.cpp, with AppTask::StartAppTask *)
MainTaskSteps == <<"store", "stack", "event_loop", "queue", "app_task">>

(* AppTask::Init *)
AppSteps == <<"event_handler", "init_server">>

(* display_task *)
DisplaySteps == <<"reset", "lvgl", "splash">>

(* Slip: the function timer is created when all else is set up. *)
InitServerStepsTimerLast(withUI) ==
    <<"server", "lock", "interrupt", "button_timer", "callbacks", "led", "tables", "function_timer", "screen">>

(* InitServer and lockMgr_Init: one work item of the Matter event loop.    *)
InitServerSteps(withUI) ==
    IF withUI
    THEN <<"server", "lock", "interrupt", "button_timer", "function_timer", "callbacks", "tables", "screen">>
    ELSE <<"server", "lock", "interrupt", "button_timer", "function_timer", "callbacks", "led", "tables">>

(* Slip: the application task waits for the server, which it starts. *)
BeginsServerFirst == [main |-> {}, display |-> {"display"}, main_task |-> {"main_task"},
                      app |-> {"app_task", "server"}, chip |-> {"event_loop", "init_server"}]

(* The steps of other threads that let a thread begin.                     *)
Begins == [main |-> {}, display |-> {"display"}, main_task |-> {"main_task"},
           app |-> {"app_task"}, chip |-> {"event_loop", "init_server"}]

Running(t) == Begins[t] \subseteq made /\ left[t] # <<>>

BootInit ==
    /\ Init
    /\ ui \in BOOLEAN
    /\ left = [main |-> MainSteps(ui), display |-> DisplaySteps, main_task |-> MainTaskSteps,
               app |-> AppSteps, chip |-> InitServerSteps(ui)]
    /\ made = {}
    /\ waited = [t \in BootThreads |-> 0]
    /\ picture = "blank" /\ served = FALSE

-----------------------------------------------------------------------------
(***************************************************************************)
(* What may hold a step up.                                                *)
(***************************************************************************)

(* Slip: the logo is not waited for. *)
DelayNoPause(step) == IF step = "reset" THEN ResetDelay ELSE 0

Delay(step) == IF step = "reset" THEN ResetDelay ELSE IF step = "pause" THEN Pause ELSE 0

(* The steps that take a time of their own: the stack, the server and the  *)
(* tables wait for the radio and the flash.                                *)
Slow == {"stack", "server", "tables"}

(* LockParams: the defaults in endpoint_config.h, and how much the arrays  *)
(* of LockManager.h hold.                                                  *)
LockParams == [numberOfUsers |-> 10, numberOfCredentialsPerUser |-> 5,
               numberOfWeekdaySchedulesPerUser |-> 10, numberOfYeardaySchedulesPerUser |-> 10,
               numberOfHolidaySchedules |-> 10]
Limits == [numberOfUsers |-> 10, numberOfCredentialsPerUser |-> 10,
           numberOfWeekdaySchedulesPerUser |-> 10, numberOfYeardaySchedulesPerUser |-> 10,
           numberOfHolidaySchedules |-> 10]

(* Slip: what just fits is refused. *)
ParamsFitBelow == \A p \in DOMAIN Limits : LockParams[p] < Limits[p]

(* LockManager::Init: anything larger ends in appError, which never        *)
(* returns.                                                                *)
ParamsFit == \A p \in DOMAIN Limits : LockParams[p] <= Limits[p]

(* A device with a network shows the lock, another one its QR code.        *)
FirstScreens == {"lock", "qr code"}

(* What a step makes of the display: each drawing clears it first.         *)
Drawn(step) == IF step = "splash" THEN {"splash"}
               ELSE IF step = "screen" THEN FirstScreens ELSE {picture}

BootStep(t) ==
    /\ Running(t)
    /\ LET step == Head(left[t])
       IN /\ waited[t] >= Delay(step)
          /\ step = "lock" => ParamsFit
          /\ made' = made \cup {step}
          /\ picture' \in Drawn(step)
    /\ left' = [left EXCEPT ![t] = Tail(@)]
    /\ waited' = [waited EXCEPT ![t] = 0]
    /\ UNCHANGED <<vars, ui, served>>

-----------------------------------------------------------------------------
(***************************************************************************)
(* The rest of the device meanwhile.                                       *)
(***************************************************************************)

(* An edge starts the debounce timer once the interrupt is enabled and the *)
(* timer exists.  (The interrupt ignores what cy_rtos_timer_start says of  *)
(* a timer that does not.)                                                 *)
ButtonHeard == {"interrupt", "button_timer"} \subseteq made

PressUnheard ==
    /\ ~down /\ ~ButtonHeard
    /\ down' = TRUE /\ held' = 0
    /\ UNCHANGED <<debounceTimer, function, queue, lost, otherDue>>

ButtonStep == (ButtonHeard /\ (Press \/ Bounce)) \/ PressUnheard \/ Release

(* The event loop serves commands when the server is there, but not during *)
(* a work item.                                                            *)
Command ==
    /\ "server" \in made /\ left["chip"] = <<>>
    /\ ~served /\ served' = TRUE
    /\ UNCHANGED <<vars, ui, left, made, waited, picture>>

(* AppTaskMain takes events once it has initialised.                       *)
AppLoop == "app_task" \in made /\ left["app"] = <<>> /\ AppStep

(* Time passes, but not during a step that takes none, when the threads    *)
(* are Prompt.                                                             *)
TickBoot ==
    /\ Tick
    /\ Prompt => \A t \in BootThreads :
                     Running(t) => Head(left[t]) \in Slow \/ waited[t] < Delay(Head(left[t]))
    /\ waited' = [t \in BootThreads |->
                      IF Running(t) THEN UpTo(waited[t] + 1, Delay(Head(left[t]))) ELSE waited[t]]
    /\ UNCHANGED <<ui, left, made, picture, served>>

ButtonAndFunction ==
    /\ ButtonStep \/ TimerStep \/ (OtherEvent /\ left["chip"] = <<>>) \/ AppLoop
    /\ UNCHANGED bootVars

BootNext == (\E t \in BootThreads : BootStep(t)) \/ Command \/ TickBoot \/ ButtonAndFunction

BootSpec == BootInit /\ [][BootNext]_deviceVars

(* Threads get to run, time passes and expired timers are served.          *)
BootFairness ==
    /\ \A t \in BootThreads : WF_deviceVars(BootStep(t))
    /\ WF_deviceVars(TickBoot)
    /\ WF_deviceVars(TimerStep /\ UNCHANGED bootVars)
    /\ WF_deviceVars(AppLoop /\ UNCHANGED bootVars)

BootFairSpec == BootSpec /\ BootFairness

-----------------------------------------------------------------------------
(***************************************************************************)
(* Properties.                                                             *)
(***************************************************************************)

(* Whoever uses something finds it there, though another thread made it: a *)
(* long press its function timer, any press the callbacks of the lock, a   *)
(* remote command the tables that its PIN is looked up in, and whoever     *)
(* draws LVGL.                                                             *)
FindsWhatItUses ==
    [][/\ OpenWindow => "function_timer" \in made
       /\ queue' = Append(queue, "short") => "callbacks" \in made
       /\ Command => {"lock", "callbacks", "tables"} \subseteq made
       /\ picture' # picture => "lvgl" \in made]_deviceVars

(* The splash screen does not cover what lockMgr_Init has drawn, although  *)
(* nothing but delays orders the two threads.                              *)
ScreenIsNotSplash == "screen" \in made => picture # "splash"

(* No thread waits for one that waits for it, or that was halted: as long  *)
(* as a thread of the build has steps to take, some thread has begun and   *)
(* may take its next one.                                                  *)
BootGoesOn ==
    (\E t \in BootThreads : left[t] # <<>> /\ (t = "display" => ui)) =>
        \E t \in BootThreads : Running(t) /\ (Head(left[t]) = "lock" => ParamsFit)

(* The firmware comes up, with the server and the button.                  *)
BootEnds == <>({"server", "callbacks", "tables"} \subseteq made)
=============================================================================
