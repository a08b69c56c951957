------------------------------ MODULE StatusLed ------------------------------
(***************************************************************************)
(* The status LED of the builds without a screen, on top of the lock: the  *)
(* LED shows where the door is and blinks while it moves or while a        *)
(* factory reset may still be cancelled.  Two threads use the one          *)
(* LEDWidget without a lock: "chip" or "app" starts to blink in            *)
(* ActionInitiated, "app" sets the LED on completion and around the cancel *)
(* window, and animates it after each event.                               *)
(*                                                                         *)
(* A thread's calls of the widget come after the step of LockManager that  *)
(* makes them and before its next; they wait in ledCalls, and each access  *)
(* to the widget's state is a step.                                        *)
(***************************************************************************)
EXTENDS LockManager

CONSTANT LongPresses    \* the button is pressed for a factory reset

ASSUME StatusLedAssumption == "display" \notin LocalThreads /\ LongPresses \in BOOLEAN

VARIABLES
    pin,        \* the level of the LED's pin: it is on
    ledState,   \* LEDWidget::mState, what the widget takes the level to be
    blinking,   \* mBlinkOnTimeMS and mBlinkOffTimeMS are set.  Two threads may
                \* leave only one of them set, which does not blink either.
    due,        \* mLastChangeTimeMS is longer ago than the blink time
    ledCalls,   \* what is left of each thread's calls of the widget
    window      \* the cancel window of the factory reset

led == <<pin, ledState, blinking, due>>
ledVars == <<vars, led, ledCalls, window>>

LedCalls == [do : {"DoSet", "Write", "Store"}, state : BOOLEAN]
            \cup [do : {"Clear", "Blink", "Animate", "Stamp"}]

DoSet(state) == <<[do |-> "DoSet", state |-> state]>>
Animate == <<[do |-> "Animate"]>>

(* Slip: Blink begins with the LED turned off. *)
BlinkFromOff == <<[do |-> "Clear"], [do |-> "DoSet", state |-> FALSE], [do |-> "Blink"]>> \o Animate

Blink == <<[do |-> "Blink"]>> \o Animate

(* Slip: the blink times are left as they are. *)
SetKeepsBlinking(state) == DoSet(state)

Set(state) == <<[do |-> "Clear"]>> \o DoSet(state)

(* lockMgr_Init: Init of the widget, and Set for the door. *)
LedInit ==
    /\ Init
    /\ pin = (lockState = "Locked") /\ ledState = pin
    /\ blinking = FALSE /\ due = TRUE
    /\ ledCalls = [t \in Threads |-> <<>>]
    /\ window = "closed"

-----------------------------------------------------------------------------
(***************************************************************************)
(* The lock's steps and the calls they make.                               *)
(***************************************************************************)

ThreadStep(t) ==
    \/ InitiateAction(t)
    \/ t = "chip" /\ ChipStep
    \/ t = "app" /\ AppStep

(* AppTaskMain animates the LED after each event. *)
AfterEvent(t) == IF t = "app" /\ pc'[t] = "idle" THEN Animate ELSE <<>>

(* ActionInitiated blinks, ActionCompleted sets the LED to the position.   *)
LedCallsOf(t) ==
    (IF pc[t] = "callback" THEN Blink
     ELSE IF pc[t] = "complete" THEN Set(target[t] = "Locked")
     ELSE <<>>) \o AfterEvent(t)

LockStep(t) ==
    /\ ledCalls[t] = <<>>
    /\ ThreadStep(t)
    /\ ledCalls' = [ledCalls EXCEPT ![t] = LedCallsOf(t)]
    /\ UNCHANGED <<led, window>>

Command ==
    /\ ledCalls["chip"] = <<>>
    /\ \E p \in Positions : RemoteCommand(p)
    /\ UNCHANGED <<led, ledCalls, window>>

(* The handler of an event that is neither the lock's nor a short press:   *)
(* it moves the window and makes these calls.                              *)
WindowHandler(from, to, calls) ==
    /\ LongPresses
    /\ ledCalls["app"] = <<>>
    /\ queue # <<>> /\ Head(queue) = "other"
    /\ TakeEvent
    /\ window = from /\ window' = to
    /\ ledCalls' = [ledCalls EXCEPT !["app"] = calls \o AfterEvent("app")]
    /\ UNCHANGED led

OpenWindow == WindowHandler("closed", "open", Set(FALSE) \o Blink)

(* Slip: the LED is only left to stop blinking. *)
CancelledLedStays == <<[do |-> "Clear"]>>

(* "Set lock status LED back to show state of lock." *)
CancelledLed == Set(~NextState)

CancelWindow == WindowHandler("open", "closed", CancelledLed)

TriggerReset == WindowHandler("open", "reset", <<>>)

(* The timer of the lock: the calls of the widget are part of the handlers *)
(* that Prompt is about.                                                   *)
LockTimer ==
    /\ TimerExpires
    /\ Prompt => \A t \in Threads : ledCalls[t] = <<>>
    /\ UNCHANGED <<led, ledCalls, window>>

PostOther == \E e \in Events : OtherEvent(e) /\ UNCHANGED <<led, ledCalls, window>>

-----------------------------------------------------------------------------
(***************************************************************************)
(* LEDWidget, one access at a time.                                        *)
(***************************************************************************)

Calls(t, do) == ledCalls[t] # <<>> /\ Head(ledCalls[t]).do = do

(* The call is over but for these accesses. *)
Continue(t, calls) ==
    /\ ledCalls' = [ledCalls EXCEPT ![t] = calls \o Tail(@)]
    /\ UNCHANGED <<vars, window>>

(* Set: the blink times and the time of the last change become zero.       *)
ClearTimes(t) ==
    /\ Calls(t, "Clear")
    /\ blinking' = FALSE /\ due' = TRUE
    /\ Continue(t, <<>>)
    /\ UNCHANGED <<pin, ledState>>

SetTimes(t) ==
    /\ Calls(t, "Blink")
    /\ blinking' = TRUE
    /\ Continue(t, <<>>)
    /\ UNCHANGED <<pin, ledState, due>>

(* Animate inverts the LED when it is time, and notes the time after that. *)
AnimateLed(t) ==
    /\ Calls(t, "Animate")
    /\ Continue(t, IF blinking /\ due THEN DoSet(~ledState) \o <<[do |-> "Stamp"]>> ELSE <<>>)
    /\ UNCHANGED led

NoteTime(t) ==
    /\ Calls(t, "Stamp")
    /\ due' = FALSE
    /\ Continue(t, <<>>)
    /\ UNCHANGED <<pin, ledState, blinking>>

(* DoSet only writes the pin when the widget's state is another ...        *)
Compare(t) ==
    /\ Calls(t, "DoSet")
    /\ LET state == Head(ledCalls[t]).state
           store == [do |-> "Store", state |-> state]
       IN Continue(t, IF ledState # state THEN <<[do |-> "Write", state |-> state], store>>
                                          ELSE <<store>>)
    /\ UNCHANGED led

WritePin(t) ==
    /\ Calls(t, "Write")
    /\ pin' = Head(ledCalls[t]).state
    /\ Continue(t, <<>>)
    /\ UNCHANGED <<ledState, blinking, due>>

(* ... and stores the state after.                                         *)
StoreState(t) ==
    /\ Calls(t, "Store")
    /\ ledState' = Head(ledCalls[t]).state
    /\ Continue(t, <<>>)
    /\ UNCHANGED <<pin, blinking, due>>

LedStep(t) ==
    \/ ClearTimes(t) \/ SetTimes(t) \/ AnimateLed(t) \/ NoteTime(t)
    \/ Compare(t) \/ WritePin(t) \/ StoreState(t)

(* The blink time passes; a call of the widget does not take as long.      *)
BlinkTimePasses ==
    /\ ~due /\ due' = TRUE
    /\ Prompt => \A t \in Threads : ledCalls[t] = <<>>
    /\ UNCHANGED <<vars, pin, ledState, blinking, ledCalls, window>>

(* Everything but the controllers. *)
LocalNext ==
    \/ \E t \in Threads : LockStep(t) \/ LedStep(t)
    \/ OpenWindow \/ CancelWindow \/ TriggerReset
    \/ LockTimer \/ PostOther
    \/ BlinkTimePasses

LedNext == LocalNext \/ Command

LedSpec == LedInit /\ [][LedNext]_ledVars

(* As for the lock alone; and a thread gets on with its calls.             *)
LedFairness ==
    /\ \A t \in Threads : WF_ledVars(LockStep(t)) /\ WF_ledVars(LedStep(t))
    /\ SF_ledVars(LockTimer)

(* The device left to its button. *)
ButtonSpec == LedInit /\ [][LocalNext]_ledVars /\ LedFairness

-----------------------------------------------------------------------------
(***************************************************************************)
(* Properties.                                                             *)
(***************************************************************************)

(* Every variable has its type, and no thread has more to do with the LED  *)
(* than one handler asks for.                                              *)
LedTypeOK ==
    /\ pin \in BOOLEAN /\ ledState \in BOOLEAN
    /\ blinking \in BOOLEAN /\ due \in BOOLEAN
    /\ ledCalls \in [Threads -> Seq(LedCalls)]
    /\ \A t \in Threads : Len(ledCalls[t]) <= 5
    /\ window \in {"closed", "open", "reset"}

(* At rest, with no factory reset about, the LED is on if the door is      *)
(* locked and off if it is not, and it does not blink: "The Lock/Unlock    *)
(* status of the door lock can be observed with 'Red LED'" (README.md).    *)
LedShowsDoor ==
    AtRest /\ window = "closed" /\ (\A t \in Threads : ledCalls[t] = <<>>) =>
        /\ pin = (DoorPosition = "Locked")
        /\ ~blinking
=============================================================================
