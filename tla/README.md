# Verification of the CYW955913 Matter door lock

TLA+ models of the door lock application in this repository, the TLC
configurations that check them, and theorems about them that TLAPS checks.
Paths below are relative to the root of the repository.

## 1. The system

A door lock on a Wi-Fi board: a simulated actuator that takes two
seconds to move, a user button, either a status LED or a small touch screen,
and the Matter Door Lock cluster through which controllers lock, unlock and
manage users, credentials and schedules.

### Threads

| thread | runs | in the models |
| --- | --- | --- |
| Matter event loop | cluster commands, scheduled work, `InitServer` | `"chip"` |
| application task (`AppTaskMain`) | handlers of the events in `sAppEventQueue` | `"app"` |
| display task (`ENABLE_UI`) | LVGL, taps on the lock screen | `"display"` |
| RTOS timer thread | expiry of `sLockTimer`, `sFunctionTimer` and the debounce timer | actions of their own |
| GPIO interrupts | edges of the button, touches of the screen | actions of their own |
| `main`, `main_task` | start the others at boot and end | `"main"`, `"main_task"` of `Boot` |

There is no mutex in the application. `sAppEventQueue` (10 entries) is the only
synchronised object; `mState`, `mSyncClusterToButtonAction` and the LED are
read and written from several threads.

### Components

**Lock state machine** (`src/LockManager.cpp`). State: `mState`, one of
LockInitiated, LockCompleted, UnlockInitiated, UnlockCompleted, and the one-shot
`sLockTimer`. `InitiateAction` checks `mState`, starts the timer, writes
`mState`, calls back; the timer posts an event; its handler completes the
action and calls back. Hard: three threads call `InitiateAction` without a
lock; a lost event leaves the door in between. Correct if a movement is never
turned round, has one completion, and is completed.

**Application task** (`src/AppTask.cpp`). State: the queue, `mFunction`,
`mFunctionTimerActive`, `mSyncClusterToButtonAction`. `PostEvent` never waits.
A local action sets the sync flag when it is initiated; when it completes,
`UpdateCluster` is scheduled on the Matter event loop. Hard: the flag is tested
and cleared while others set it; `UpdateCluster` reads `mState` when it runs.
Correct if the LockState attribute shows where the door is.

**Remote commands** (`src/ZclCallbacks.cpp`, `LockManager::setLockState`). The
PIN check, then the attribute, then `InitiateAction`, whose result is ignored.
Correct if attribute and door agree and only current PINs are accepted.

**Data model** (`src/zap-generated/`, `include/app/static-cluster-config/`).
What a controller may ask for, which privilege it takes, what of it is compiled
in and which command has a case in the dispatcher
(`IMClusterCommandHandler.cpp`) are four tables, generated from `lock-app.zap`
but kept apart. The Matter SDK, which is not in this repository, checks path and
privilege by them. State: the access control list and
`RequirePINforRemoteOperation`, which the SDK keeps, the first in flash. Hard:
nothing compares the tables, and whether the door may move is decided in several
places. Correct if what is declared is served, the door moves only for those who
may move it, and privileges come only from administrators.

**Button and factory reset** (`src/ButtonHandler.cpp`, `FunctionHandler`). An
edge restarts a 500 ms timer; the level at its expiry makes the press long or
short. A long press opens a cancel window of five seconds. Hard: bounces, two
timers, expiries that wait in the queue. Correct if the reset comes once, after
the whole window, and only from a button that was held.

**Users, credentials, schedules** (`src/LockManager.cpp`). Arrays in memory,
saved whole under one to three keys each after every change, read at boot.
Hard: power lost between the keys; index bases; buffer and element sizes.
Correct if an entry reads back as it was set.

**Status LED** (`src/platform/LEDWidget.cpp`), in the builds without a screen.
State: the widget's `mState`, its blink times and time of the last change, and
the pin. The thread that initiates an action calls `Blink`; the application task
calls `Set` and, after each event, `Animate`. Hard: `DoSet` compares, writes the
pin and stores, from two threads and without a lock. Correct if the LED at rest
shows the door.

**Lock screen** (`lvgl_support/lvgl_support.c`), with `ENABLE_UI`. State: the
display area, the icon, the animation and the button, all global LVGL objects.
The thread that initiates an action starts the animation, the application task
draws the position reached, the Matter event loop redraws the screen from the
attribute when commissioning completes, the display task takes the taps. Hard:
three threads in one set of objects; a tap on a screen that is out of date.
Correct if the screen shows the door and offers the other action, and no
animation outlives its movement.

**Boot** (`src/main.cpp`, `src/main_task.cpp`, `AppTask::Init`, `InitServer`,
`lockMgr_Init`, `LockManager::Init`, `display_task`). Five threads set up
watchdog, display, stack, queue, lock, interrupt, timers, callbacks, tables and
screen; `mState` comes from the attribute in flash. Hard: only order and delays
keep one from using what another has not made yet; a button that is pressed
meanwhile; a restart in the middle of a movement. Correct if everything is there
when it is used, the firmware comes up, and the lock knows where its door is.

**Touch driver** (`lvgl_support/ft6206.c`, `lvgl_support/lv_port_indev_ft6206.c`).
State: `touch_count`, incremented by the interrupt, tested and cleared by the
display task, and the last point. Hard: the interrupt between two accesses.
Correct if no touch is lost.

**User labels**, **OTA requestor**, **network events**, **platform glue**: see
section 8.

The hazards, each at its line, are in `PROJECT.json`.

## 2. Modules

| module | models | built on |
| --- | --- | --- |
| `DoorLock` | what the lock promises: a door that rests locked or unlocked, starts for the other side, arrives | |
| `LockManager` | lock state machine, its timer, the event queue, remote commands, cluster update | refines `DoorLock` |
| `LockManagerProofs` | theorems on `LockManager` | |
| `LockRestart` | the lock and its door, with restarts at any moment and factory resets | extends `LockManager` |
| `LockRestartProofs` | theorems on `LockRestart` | `LockManagerProofs` |
| `DataModel` | the generated tables: clusters, attributes, commands, privileges, what is enabled, the dispatcher | |
| `Requests` | controllers: commands, reads, writes, the access control list, commissioning | extends `LockRestart`, `DataModel` |
| `RequestsProofs` | theorems on `Requests` | `LockRestartProofs` |
| `StatusLed` | the LED, its two threads, the cancel window as far as the LED shows it | extends `LockManager` |
| `LockScreen` | the screen, its three threads, taps, the redraw on commissioning | extends `LockManager` |
| `StatusLedProofs`, `LockScreenProofs` | that both leave the lock as it is; what they show | `LockManagerProofs` |
| `FactoryReset` | button, debounce timer, cancel window, reset, in ticks | |
| `FactoryResetProofs` | theorems on `FactoryReset` | |
| `Boot` | how the firmware comes up, thread by thread | extends `FactoryReset` |
| `BootProofs` | theorems on `Boot` and `Touch` | `FactoryResetProofs` |
| `Touch` | the touch driver | |
| `DurableStore` | what a table in flash promises | |
| `Users`, `Credentials`, `ScheduleTable` | the tables, their keys, loss of power, writes that fail; `Credentials` also the PIN check | refine `DurableStore` |
| `StorageProofs` | theorems on the three tables | `Users`, `Credentials`, `ScheduleTable` |
| `MCLockManager`, `MCStatusLed`, `MCLockScreen`, `MCRequests`, `MCFactoryReset`, `MCBoot`, `MCStorage` | instances for TLC | |

A definition whose comment begins with "Slip" is not part of a model. It is a
mistake a change of the code could make in the definition after it (a guard
that is dropped, a key that is left out), kept to show that a property notices.

### LockManager

`mState` and `queue` are the code's; `armed` says that `sLockTimer` runs;
`mSync` is `mSyncClusterToButtonAction`; `work` counts the `UpdateCluster` calls
that wait for the Matter event loop; `pc` and `target` say where each thread is
and what position it works towards. An action is named by the position it leads
to, so LOCK_ACTION is `"Locked"`.

Because nothing is protected, a handler is one action per access to shared
state. `InitiateAction` is `CheckState`, `StartTimer`, `UpdateState`,
`ActionInitiated`, in whichever thread called it. The completion handler is
`ChooseCompletion` (it reads `mState`), `CompleteAction` (it writes it),
`ActionCompleted` (it tests the flag and schedules the update), `ClearSync`.
`UpdateCluster` reads `mState` and `SetLockState` writes the attribute.

`LocalThreads` selects the build: `{}` is the default, `{"display"}` is
`ENABLE_UI`, `{"app"}` is `ENABLE_BUTTON_LOCK_UNLOCK`. Other events (presses,
the function timer) fill the queue at any time, which covers every load.

Two histories serve the properties only: `lost` (the event of `sLockTimer` was
dropped) and `ignored` (the last remote command was refused because the
opposite movement was in progress).

**Prompt.** The timer runs for two seconds and a handler takes microseconds.
`Prompt` states this as: the timer does not expire while a thread is in the
middle of a handler that was running when it started. It says nothing about how
long events wait in a queue, nor about how threads interleave. Without it, a
thread held for two seconds between the check and the write in
`InitiateAction` can turn a movement round. Properties that do not need it are
checked (`lock_slow`) and proved without it.

### LockRestart

Power is lost, the watchdog bites or an update is applied between any two
accesses (`Restart`); `EraseAndRestart` is the restart that ends a factory reset.
The attribute is all that is kept, and `BootState` is what `LockManager::Init`
makes of it. `door` is the world outside: where the door stands, or where it is
leaving from. A movement that completes has driven it to its end, one that is
interrupted leaves it at either end. The firmware has no sensor, so that
some restarts it cannot recover from by itself; `unsure` is a history that marks
exactly these: a restart in the middle of a command or a movement, after a
refused command (the attribute was wrong then), or a factory reset of an
unlocked door. The next movement that arrives ends it. `KnowsDoor` says that
nothing else does any harm.

### DataModel and Requests

`DataModel` has the tables as sets by cluster, one definition per table and
source file. `IMClusterCommandHandler.cpp` has a `switch` per cluster:
`DispatchSingleClusterCommand` says which commands have a case and what becomes
of one whose fields do not decode. Names stand for the numbers of the headers.

In `Requests` a controller (`Subjects`) sends any command, read or write, on a
path that exists or not, with fields that decode or not, with a PIN that is in
the credential table, is not, or is missing. `acl` is the privilege of each
subject, `requirePin` the attribute, `request` what the Matter event loop is
handling: the privilege it was made with, its PIN, whether it was due to be
served, and the answer. A request occupies the event loop until its handler has
returned; the handler of a lock command is the four steps of `LockManager`, which
interleave with the application task and may be cut off by a restart. What
commands for the tables do is in their modules.

External, by how this code uses it: that the SDK looks up path and privilege,
serves the clusters without a case itself, changes the access control list when
fabrics come and go, and keeps it in flash. `RequirePINforRemoteOperation` is not
kept (its entry in `endpoint_config.h` has no such flag): a restart clears it.

### StatusLed

A step of the lock that calls the widget leaves the calls in `ledCalls` of its
thread, which does them one access at a time before its next step; the other
threads go on meanwhile. `Set` is `ClearTimes` and a `DoSet`, `DoSet` is
`Compare`, `WritePin` and `StoreState`, `Animate` is `AnimateLed`, then a
`DoSet` and `NoteTime` if it is time to change. The two blink times are one
`blinking`: when threads leave only one of them set, the widget does not blink
either. `due` says that the blink time has passed since the last change.

With `LongPresses` the cancel window is there as far as the LED shows it. Any
other event may be the press that opens or cancels the window or the expiry that
ends it; when each of them comes is what `FactoryReset` is about. `Prompt` also
covers the calls of the widget: neither `sLockTimer` nor the blink time runs out
within one.

### LockScreen

Drawing is done in the same way: a step of the lock leaves it in `drawing` of its
thread, and each object that is created, replaced or deleted is a step.
`draw_lock_screen` is clear, area, icon, button; `start_lock_screen_animation`
is the test for the area, then the animation in the place of the icon. A tap asks
for the position the button was drawn for, which may be where the door already
is. Commissioning redraws at any time, from the attribute. `redrawn` is a
history: commissioning has redrawn the screen since the door arrived. LVGL is not
made for several threads; what happens when two of them are inside one of its
functions is not in the model.

### FactoryReset

Time passes in ticks; the timers count down; expiries are posted as events.
Only the application task touches `mFunction` and the timer's start and stop,
so each handler is one action. A bounce is an edge that changes no level. `held`
measures a press, `open` the time since the window was opened, `resets` counts
resets, `lost` says that an event was dropped: histories. `Prompt` is an
application task that empties its queue within a tick. In each tick the rest of
the application may post one event, which keeps the queue from being empty when
a press or an expiry comes.

### Boot

`left` holds the steps each thread still has to take, in the order of the source,
and `made` those that have been taken; a step is named for what it makes. The
whole of `InitServer` is one work item of the Matter event loop, so that nothing
else runs there meanwhile, but the other threads, the interrupt and the timers
do. `waited` counts the ticks of a delay, `picture` is what the display shows.
A press before the interrupt is enabled and its timer exists is not heard
(`PressUnheard`), though the button stays down: its level is what the debounce
handler of the next edge would find. What the RTOS does with a start of the
debounce timer before `ButtonHandler::Init` has created it, which the order of
interrupt and timer there allows, is not in this repository; `FindsWhatItUses` is
about what a press leads to after the debounce. `Prompt` here means that time passes only
in delays and in the steps of `Slow`, which wait for radio or flash and may take
any time. Both builds are in one model (`ui`). `ParamsFit` is the check of
`LockManager::Init`, with the defaults of `endpoint_config.h` and the limits of
`LockManager.h`. The watchdog is only started.

### Touch

`touchpad_read` is one action per access: `TestCount`, `ClearCount`, `ReadXY`.
`TouchInterrupt` comes between any two and puts a new point in the registers.
The driver is initialised twice, by `display_init` and by the display task, and
each time I2C or GPIO may fail; LVGL polls only if the second call returns
success. A read over I2C may fail too and then gives (0, 0).

### Storage

`SetUser`, `SetCredential` and the three schedule setters change their arrays
at once and then write one, two or three keys. Each write is an action, which
may fail and leave its key as it was: the code ignores the result.
`Restart...` may come between any two of them: power is lost, and
`ReadConfigValues` fills the arrays at the next boot. One such operation runs at
a time, for all of them run on the Matter event loop.

Data is abstract: a name or credential is a value with a size. A buffer reads
back as what was put into it only when the size in the record is that of the
data, otherwise as a value nobody set (`CutName`, `Unread`). The schedule tables
differ only in sizes and dimensions, so `ScheduleTable` has these as constants;
what the key holds is counted in bytes from the start of the array, and a slot
that only partly lies within has its status but a garbled schedule.

In the SDK the schedules have 5 (weekday), 8 (year day) and 12 (holiday) bytes
and, with the status and its padding, slots of 6, 12 and 16. The model only
assumes that a slot is larger than a schedule, which follows from the structures
in `include/LockManager.h`.

`DurableStore` is the promise: a set changes the entry it names and no other, a
restart changes no entry but those that were set since the table was last saved
(the one being set, and those whose saving failed; one call that is saved saves
these too, because the arrays are saved whole). `KeepsUsers`,
`KeepsCredentials` and `KeepsWholeSlots` are refinements of it, with entries as
a client of the cluster names them, so that index translation is part of what
is checked.

## 3. Runs

| run | instance | shows |
| --- | --- | --- |
| `lock_all` | three initiating threads, queue of 2, work queue of 2, prompt, fair | `MoveIsTimed`, `OneCompletionPerMove`, `InitiatorsAgree`, `ImplementsDoor`, `CompletesUnlessLost` |
| `lock_button` | button only, long presses, queue of 2, prompt, fair | attribute and LED follow the door: `LedTypeOK`, `AgreeAtRest`, `LedShowsDoor`, `ArrivalIsReported`; until an arrival is reported the report is on its way: `ArrivalIsOnItsWay` |
| `lock_slow` | remote only, not prompt, restarts, two controllers | `KnowsDoor`, `AgreeUnlessIgnored`, `ServesDeclared`, `DoorMovesForOperators`, `OnlyAdministratorsGrant`: with handlers held for any time and restarts at any moment the lock knows its door, moves it only for those who may, and serves what it declares |
| `lock_screen` | remote and screen, queue of 2, prompt | `ScreenTypeOK`, `ScreenShowsArrival`, `ScreenIsWhole`, `AnimationEnds`: from an arrival until commissioning redraws it the screen shows the door; redrawn or not, it has its icon and its button; no animation is left |
| `factory_reset` | from the first instruction on; ticks of 250 ms: debounce 2, window 10, delays 20 and 4; queue of 2, prompt, fair; and the touch driver | `TypeOK`, `ResetAtMostOnce`, `ResetAfterWholeWindow`, `LongPressIsHeld`, `WindowIsTimed`, `WindowIsDecided`: one reset, after the whole window, from a held button; an open window never loses its timer, and is decided. `FindsWhatItUses`, `ScreenIsNotSplash`, `BootGoesOn`, `BootEnds`: the firmware comes up in an order that works, and shows it. `TouchIsRead` |
| `storage` | 2 users, programming PIN and 2 PINs, 4 schedules, power loss, writes that fail | all three tables keep their entries (`KeepsUsers`, `KeepsCredentials`, `KeepsWholeSlots`); the PIN check follows the table (`AcceptsCurrentPins`) |

and those that TLC refutes, each a disagreement of the code with a line of its
own comments or of `README.md`:

| run | what happens |
| --- | --- |
| `lock_overlap` | Unlock, then Lock within two seconds: the attribute says Locked, `InitiateAction` refuses, the door ends unlocked and nothing corrects the attribute |
| `led_race` | the application task animates the LED while the Matter event loop is in `DoSet`: the widget's state is no longer the pin's, the `Set` of the arrival finds nothing to change, and the LED shows the wrong position |
| `lock_overflow` | the queue is full when `sLockTimer` expires: the event is dropped and the door stays in between for good |
| `reset_stale_expiry` | the application task lags; the expiry of a cancelled window triggers the reset at the start of the next |
| `storage_torn_credential` | power lost between the two keys: new status, old data. A PIN that was deleted is valid again if its slot was being set to another |
| `storage_last_schedules` | the last schedules of the table are not within the saved bytes |

**Bounds and why they are enough.** A queue of two entries already has an event
before and after any other, and may be full; `lock_overflow` uses the ten of the
source. At most one completion event exists (`OneCompletionPerMove`), so more
entries add only events that leave the lock alone. A work queue of two holds an
update that waits and one that follows it. Two positions and three threads are
all there are. The LED and the screen need no bound: a thread has at most the
calls of one handler left, which the type invariants state. `lock_slow` has
queues of one entry, which hold the one completion and the one update there can
be, or anything else instead; two controllers, interchangeable, are a subject and
another that changes its privileges; the privileges 0, 1, 3 and 5 are those that
`access.h` tells apart for what the lock declares, but for Manage, which lies
between the last two. In `factory_reset`
the window is longer than two presses, so that it can be opened, cancelled and
opened again; two ticks of debounce time let an edge fall in its middle.
`HoldBound` stops counting a press once it is longer than the debounce time,
`resets` stops at two; the delays of the display are those of the source, in
ticks. The touch count is only compared with zero: `CountBound` is two. Boot and
touch driver share no state and have a behaviour each. Two users show that a set leaves the other alone, one
credential per list that a shorter list hides a longer one's entry; credentials
need a programming PIN, which is another type with an index base of its own, and
two PINs for the index translation and the PIN check; two values let one be set
over another; the year day sizes give slots that are saved whole, in part and
not at all. `MCStorage` sets and reads one table per behaviour: they share
neither arrays nor keys, so the states add up rather than multiply.

**Fairness.** Threads that have something to do get to run (weak fairness of
each thread's steps), the RTOS serves an expired timer, time passes. The expiry
of `sLockTimer` has strong fairness because its guard, under `Prompt`, is
interrupted by handlers that keep starting, which does not stop a clock. With
the LED a thread also gets on with its calls of the widget (`LedFairness`);
nothing makes the blink time pass. In `Boot` each thread gets to take its steps,
and the application task to handle its events (`BootFairness`). Nothing forces a
command, a tap, a touch or a press. Deadlock is checked in every run but
`factory_reset`, where a display whose touch driver could not be initialised has
nothing more to do.

## 4. Proofs

`LockManagerProofs`, for all queue sizes, sets of initiating threads and remote
commands:

- `TypeCorrect`: the type invariant.
- `CompletionIsUnique`, `MovementIsTimed`, `InitiatorsNeverConflict`,
  `LockImplementsDoor`: under `Prompt`. They follow from one inductive
  invariant, `MoveInvariant`. `OneCompletionPerMove` alone is not inductive: that
  no second movement starts while a completion is pending depends on what the
  threads inside `InitiateAction` have seen. The invariant adds that a thread
  between check and write has a door that either still rests where it was checked
  or already moves the same way; that two such threads agree; and that the timer
  runs from `StartTimer` to its expiry, which `Prompt` keeps from coming before
  the write.
- `RemoteAgreement`, `RemoteLockImplementsDoor`: with remote commands only, and
  no assumption on timing. Only the Matter event loop initiates, so the argument
  is on its program counter: a completion can overtake it between `StartTimer`
  and `UpdateState`, finds nothing to complete and goes; the attribute was
  written first and is not written by anyone else.
- `ButtonAgreement`: with the button only (`RemoteTargets = {}`, no display
  thread), and no assumption on timing. The application task both starts and
  ends movements, so that `mState` is what its handler has found, and each
  movement has raised the sync flag. `ButtonInv` follows the attribute through
  the scheduled work: with the door at rest and nothing to report, either an
  `UpdateCluster` that has yet to read `mState` is scheduled, or the position
  read last is that of the door.
- `ButtonReports`, from the same invariant: an arrival that controllers do not
  see yet is going to be reported. A full work queue drops a report, but the
  calls that wait in it read `mState` when they run, so none is missed.
- `ButtonLockImplementsDoor`, `ButtonMovementIsTimed`: in this build neither
  needs `Prompt`, because presses and the expiry of `sLockTimer` are handled by
  one task, one after the other. `ButtonTimedInv` says that between `StartTimer`
  and `UpdateState` the end of the movement is already on its way and stays so.
  With remote commands, and handlers held for longer than the timer runs, TLC
  refutes `MoveIsTimed`.

`StatusLedProofs` and `LockScreenProofs`, for the same constants:

- `LedIsAnObserver`, `ScreenIsACaller`: every behaviour of the lock with its LED
  or its screen is one of the lock. Each step is a step of `LockManager` or leaves
  its variables alone; a tap is a caller of `InitiateAction` like any other,
  whatever its button shows. So all that is proved of the lock holds with both:
  `LockWithLedImplementsDoor`, `LockWithScreenImplementsDoor` and, for the
  default build without an assumption on timing, `RemoteLockWithLedAgrees`;
  `ButtonWithLedAgrees` and
  `ButtonWithLedReports` for the button build.
- `LedTypeCorrect`: that a thread has at most five accesses to the widget left is
  not inductive, for a call may be replaced by the accesses it consists of.
  `LedInv` gives each call the number of accesses it is worth and bounds that,
  added to how many calls come behind.
- `LedOfTheButtonBuild`: the LED at rest shows the door, through presses short
  and long and without `Prompt`. Only the application task calls the widget here.
  `LedShownInv` says that pin and `mState` of the widget differ only between
  `WritePin` and `StoreState`, and that with the door at rest and no window open
  whatever the task has left to do sets the LED to the position of the door, and
  whatever is not yet so is about to be. It contains `ButtonInv`, on which the
  position depends.
- `ScreenTypeCorrect`: a thread has at most one screen left to draw.
- `NoAnimationIsLeft`, `ScreenFollowsDoor`: under `Prompt`, with `MoveInvariant`.
  `ShowInv` says that an animation is only about to start while `sLockTimer` runs,
  so that the completion, which draws, comes after it; that the animation on the
  screen is one of a movement in progress, or the application task is about to
  clear it; that the other threads draw nothing but animations, or commissioning
  has redrawn the screen; and that, when it has not and the door rests, icon and
  button are right or are about to be drawn, in that order and after the clearing.
- `ScreenStaysWhole`: `WholeInv` says that a thread draws a screen in its order,
  from the clearing to the button, and nothing of one behind an animation; that
  what the screen lacks some thread is about to draw; and that as long as there
  is no lock screen nobody has asked for one. It needs no `Prompt`; that the
  animation does not keep the place of the icon is `NoAnimationIsLeft`, which does.

`LockRestartProofs`, for all queue sizes and with restarts at any moment; the
first two with remote commands only, the next two with the button only, these
four with no assumption on timing:

- `LockKnowsDoor`: the invariant of `RemoteAgreement` holds again after every
  restart, because the attribute was written before `mState`; to it comes that
  the lock is right about its door unless `unsure`, step by step.
- `AgreementThroughRestarts`: the attribute stays the position or heading of the
  lock, unless the last command was refused.
- `ButtonKnowsDoor`, `ButtonAgreementThroughRestarts`: the attribute is written
  after the door has arrived here, so that a restart before `UpdateCluster` makes
  the lock unsure. `ButtonKnowsInv` joins `ButtonInv`, which a restart
  establishes anew, with what is known of the door.
- `MovesThroughRestarts`: under `Prompt`, for any threads: `OneCompletionPerMove`,
  `MoveIsTimed` and `InitiatorsAgree`. Queue, timer and program counters are lost
  together with `mState`, so that `MoveInvariant` holds after a restart.

`RequestsProofs`, for any set of controllers and of privileges that are given:

- `RequestsDriveLock`: every step of `Requests` is one of `LockRestart` or leaves
  its variables alone; in particular no write reaches the LockState attribute,
  which takes evaluating the tables. Hence `ServingLockKnowsDoor`,
  `ServingLockAgrees` and, under `Prompt`, `ServingLockMoves`.
- `OnlyOperatorsMoveDoor`: a step that starts a movement is the write of `mState`
  by the Matter event loop, whose handler is between its check and that write.
  The invariant carries what was true when the command was accepted (privilege of
  the request, PIN if required) along to it; no one can change `requirePin` in
  between, because writes wait for the event loop too.
- `PrivilegesComeFromAdministrators`: by cases on the request, with lemmas that
  the commands and writes that change the list take Administer in `access.h`.
- `DeclaredIsServed`: lemmas on the tables, that every command declared has a
  case or is enabled, and every attribute is enabled, for each cluster.

`FactoryResetProofs`, for all delays, queue sizes and lags:

- `TypeCorrect`.
- `ResetOnce`: `mFunctionTimerActive` is never cleared once the reset is
  triggered, and no branch opens a window while it is set. The invariant says
  that a reset leaves the timer marked active and no function selected, and that
  no step leaves that state.
- `LongPressWasHeld`: while the debounce timer runs and the button is down,
  the time it has left and the time the button has been held add up to at least
  the debounce time, because an edge restarts the timer and a release clears the
  measure.
- `WindowKeepsItsTimer`: an open window has its timer running or an expiry in the
  queue, or `PostEvent` has dropped an event. `TimedInv` adds that
  `mFunctionTimerActive` is set as long as the window is open, without which
  `FunctionTimerEventHandler` would ignore the expiry and nothing else would come.
- `WholeWindowToCancel`: under `Prompt`. A running `sFunctionTimer` and the time
  since the window was opened add up to the window (`TimerInv`); within a tick
  at most one press and one expiry are queued (`QueueInv`); an expiry in the
  queue is one of a window that has passed, and if a press that was ahead of it
  cancels, the debounce timer keeps the next long press behind it (`ExpiryInv`).
  Without `Prompt` it is false, as `reset_stale_expiry` shows.

`BootProofs`:

- `TypeCorrectFromBoot`, `ResetOnceFromBoot`, `LongPressWasHeldFromBoot`,
  `WholeWindowFromBoot`, `WindowKeepsItsTimerFromBoot`. Boot adds a button that is already down when its
  interrupt is enabled, and steps that take time; both leave the invariants as
  they are.
- `SplashComesFirst`, `FindsWhatOthersMake`: under `Prompt` and `Pause >
  ResetDelay` (5 s and 1 s in `main.cpp` and `lvgl_support.c`). `OrderInv` is
  that each thread is at one place in its steps and that what it needed to begin
  has been made; lemmas read off it which step comes after which. It decides
  everything but two questions.
  `DisplayInv` decides the splash screen: the display thread, which began first,
  ends its delay while `main` is still in its own. `PressInv` decides the
  press: between the step that makes the debounce timer and the one that sets
  the callbacks no time passes, so that no press has been timed yet.
- `SomeThreadGoesOn`: no two threads wait for each other, and the check of the
  parameters lets the default ones pass; in both builds and without `Prompt`.
  From `OrderInv`: a thread that has not begun waits for a step of one that has,
  up to `main`, which waits for nobody.
- `EveryTouchIsRead`: a touch that is unread has left a count, or the call that
  took the count has still to read the point.

`StorageProofs`, for all sizes of arrays, names, credentials, slots and
schedules, with loss of power between any two writes and writes that fail. What
each table holds and what its keys hold differ, so that the refinement mapping
needs to know where they agree:

- `SchedulesTypeCorrect`, `SchedulesAreKept`: a slot within the saved bytes is in
  flash as it is in memory unless it was set since the last saving.
  `LastScheduleIsNotSaved` is the arithmetic behind `storage_last_schedules`: the
  last schedule that may be set is never wholly within the saved bytes.
- `UsersTypeCorrect`, `UsersAreKept`: the same for three keys, which are written
  one after another. While a call is under way and nothing has failed, each key
  either is still to be written or is in flash (`UsersInv`). The theorem assumes
  that no name is exactly as long as its buffer; for such a name `FullNameIsCut`
  shows that it reads back as another.
- `CredentialsTypeCorrect`, `CredentialsAreKept`: the same for two keys, with
  lemmas on the index translation: the decrement of index 0 wraps to an index
  that no array has, and different credentials of a client have different cells.
- `AcceptsExactlyCurrentPins`: the cells that the PIN scan goes through are those
  of the PINs that a client can read, and only an occupied one holds data that
  is compared. The empty span and a PIN that is not given are assumed not to be
  data of a credential (`CredentialsAssumption`): both are absence, not bytes.

The assumptions on constants are those in the modules; TLC evaluates them in
every run.

Every invariant and every action property of a run that passes is now a theorem
of the specification of that run, and so is every refinement of `DoorLock` and
`DurableStore` it checks. The hypotheses, beyond the assumptions on constants,
are: `Prompt` where a deadline of the code matters; which threads and commands
start movements, where the attribute or the LED is concerned; `Pause >
ResetDelay` where only delays order two threads; no name of exactly the size of
its buffer where `CopyString` would cut it. Each passing instance satisfies the
hypotheses of its theorems.

Only model-checked: liveness (`CompletesUnlessLost`, `ArrivalIsReported`,
`WindowIsDecided`, `BootEnds`), which is out of TLAPS's reach. The safety half
of each is proved for all constants: `MoveIsTimed`, `ArrivalIsOnItsWay`,
`WindowIsTimed` and `BootGoesOn` say that what is to happen has its cause on the
way, so that only the progress of threads, timers and time is left to TLC. No
definition is recursive, so that nothing is left to TLC for that reason. That
handlers are as fast as `Prompt` says is an assumption about the hardware, which
neither TLC nor TLAPS can tell.

## 5. What is refuted outside the runs

- `AgreeAtRest` even where no command was refused, with the button and remote
  commands: `UpdateCluster` of a press runs while the door is on its way to
  unlocked for a remote command; it reads UnlockInitiated and writes Locked, and
  the command's completion reports nothing.
- `AgreeAtRest` in `MCLockScreen` with taps and no remote command
  (`LocalThreads = {"display"}`, `RemoteTargets = {}`, `Prompt`): a tap on the
  button that has just been drawn sets the sync flag between its test and its
  clearing in `ActionCompleted` (`AppTask.cpp:672-675`). The movement it starts
  is never reported. The flag's hazard has no property for this reason.
- `ScreenShowsDoor` in the instance of `lock_screen`: commissioning redraws the
  screen from an attribute that has not been updated yet, or its drawing and that
  of the application task mix the icon of one with the button of the other. Hence
  `ScreenShowsArrival`, which speaks of the screen until then, and
  `ScreenIsWhole`, which also holds after it.
- `LedShowsDoor` with remote commands and long presses, as in `led_race`.
- A user name as long as its buffer passes the check in `SetUser` and loses its
  last character to the terminating NUL of `CopyString`: theorem `FullNameIsCut`.
  With such a name in `Names`, `KeepsUsers` fails; the instance leaves it out.
- The window opens on a press of 500 ms, where `README.md` says two seconds, and
  is cancelled only by another press of 500 ms that ends within the window, where
  the message says "Press the button again". Both are plain in `FactoryReset`.
- A failed flash write is not reported by `SetUser` and its kin, so that the
  answer to the client is Success for an entry that a restart loses.
- `KnowsDoor` without `unsure`: power is lost after a remote command has written
  the attribute and before the door has moved. The lock then starts in the state
  it was to reach, refuses nothing, and a controller that asks is told so.
- `UnlockWithTimeout` unlocks and nothing locks again: the firmware registers no
  callback for the end of the timeout.
- `ScreenIsNotSplash` with `Pause` no longer than `ResetDelay` and the time
  drawing takes: only the delays order the two threads.

## 6. Plan

Done: the lock with its LED and its screen; restarts and the door; requests and
the generated tables; the factory reset, boot and the touch driver; the tables
in flash, with losses of power and writes that fail; the theorems of section 4.

Next:

1. `LockKnowsDoor` for the build with a screen, and for remote commands together
   with local ones, where section 5 shows that the attribute may stay wrong: it
   first needs a statement of what a restart then loses.
2. What of the screen and the LED holds without `Prompt`.
3. The order of boot for the steps that may fail.

## 7. Left out of modelled components

- `appError` halts the firmware: timer creation, start and stop that fail. Only
  the check of the parameters in `LockManager::Init` is modelled. The other steps
  of boot do not fail either (SPI, the display and the QR code among them: when
  `GetQRCode` fails, `lockMgr_Init` draws nothing and the splash screen stays).
- Boards other than the CYW955913EVK-01: for them `AppConfig.h` has 1 as the
  index of the button, and `ButtonHandler.cpp` has one timer, with index 0.
- `UnboltDoor` is declared and dispatched, but ends in the SDK: this firmware has
  no callback for it.
- Events, attribute types, bounds and defaults in `endpoint_config.h`, but for
  the defaults the lock starts with.
- `LockActionEventHandler` and `ActionRequest` have no caller.
- The result of `SetLockState` in `UpdateCluster` is only logged; it fails for no
  position.
- The fields of users, credentials and schedules that are copied along
  (creator, unique id, rule, hours).
- The Door Lock server of the SDK calls the tables with any index and a status
  that is available or occupied; what it refuses itself is not assumed.

## 8. Not modelled

- **User labels** (`src/providers/DeviceInfoProviderImpl.cpp`): no cluster of
  this device has labels, locales or calendars (`endpoint_config.h`), so nothing
  calls the provider; in which order its calls would come is up to the SDK. The
  **example label provider** is not used by the application.
- **OTA requestor**: `InitOTARequestor` connects objects of the SDK.
- **Network events**: the restart of DNS-SD is a call of the SDK; the redraw on
  commissioning is in `LockScreen`.
- **Platform glue**: mbedTLS heap functions, logging, empty callbacks.
- **Settings**: `lvgl_support/lv_conf.h` configures LVGL, `gen_config.h` counts
  clusters and sets options of the SDK; no code of the application depends on
  them. The images and fonts are data.
- The PWM and colour functions of `LEDWidget` and `LockActionEventHandler` have
  no caller.
