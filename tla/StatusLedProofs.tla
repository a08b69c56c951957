--------------------------- MODULE StatusLedProofs ---------------------------
(***************************************************************************)
(* Theorems on StatusLed: the LED is an observer.  What is proved of the   *)
(* lock alone (LockManagerProofs) holds of the lock with its LED.          *)
(***************************************************************************)
EXTENDS StatusLed, LockManagerProofs

(* A step with the LED is a step of the lock or leaves the lock alone.     *)
LEMMA LedStepIsLockStep ==
  [LedNext]_ledVars => [Next]_vars
<1> SUFFICES ASSUME [LedNext]_ledVars PROVE [Next]_vars
  OBVIOUS
<1>1. ASSUME NEW t \in Threads, LockStep(t) PROVE Next
  BY <1>1 DEF LockStep, ThreadStep, Next
<1>2. ASSUME NEW t \in Threads, LedStep(t) PROVE UNCHANGED vars
  BY <1>2 DEF LedStep, ClearTimes, SetTimes, AnimateLed, NoteTime, Compare, WritePin, StoreState, Continue
<1>3. CASE OpenWindow \/ CancelWindow \/ TriggerReset
  BY <1>3 DEF OpenWindow, CancelWindow, TriggerReset, WindowHandler, AppStep, Next
<1>4. CASE Command
  BY <1>4 DEF Command, Next
<1>5. CASE LockTimer
  BY <1>5 DEF LockTimer, Next
<1>6. CASE PostOther
  BY <1>6 DEF PostOther, Next
<1>7. CASE BlinkTimePasses
  BY <1>7 DEF BlinkTimePasses
<1>8. CASE UNCHANGED ledVars
  BY <1>8 DEF ledVars
<1> QED
  BY <1>1, <1>2, <1>3, <1>4, <1>5, <1>6, <1>7, <1>8 DEF LedNext, LocalNext

(* The LED changes nothing about the lock: ActionInitiated and             *)
(* ActionCompleted, Animate and the cancel window only read its state.     *)
THEOREM LedIsAnObserver == LedSpec => Spec
<1>1. LedInit => Init
  BY DEF LedInit
<1> QED
  BY <1>1, LedStepIsLockStep, PTL DEF LedSpec, Spec

(* The door of the build with an LED moves as a door may, when handlers    *)
(* are prompt (LockManager::InitiateAction and its completion handler).    *)
THEOREM LockWithLedImplementsDoor ==
  ASSUME Prompt
  PROVE  LedSpec => ImplementsDoor
BY LedIsAnObserver, LockImplementsDoor, PTL

(* In the default build the attribute follows the door unless a command    *)
(* was refused, however the handlers and the LED's calls interleave        *)
(* (ZclCallbacks.cpp sets the attribute, then calls InitiateAction).       *)
THEOREM RemoteLockWithLedAgrees ==
  ASSUME LocalThreads = {}
  PROVE  LedSpec => []AgreeUnlessIgnored
BY LedIsAnObserver, RemoteAgreement, PTL

-----------------------------------------------------------------------------
(***************************************************************************)
(* How much a thread has to do with the LED.  A call that has not begun is *)
(* worth the accesses it may come to: with what is behind it there are     *)
(* never more than five.                                                   *)
(***************************************************************************)

Height(call) == IF call.do = "Animate" THEN 3 ELSE IF call.do = "DoSet" THEN 2 ELSE 1

Within(calls, n) == \A i \in DOMAIN calls : Height(calls[i]) + Len(calls) - i <= n

Bounded(calls) == Within(calls, 5)

LedInv == LedTypeOK /\ \A t \in Threads : Bounded(ledCalls[t])

(* The entries of what is put in the place of the first entry.             *)
LEMMA ReplaceHead ==
  ASSUME NEW q \in Seq(LedCalls), q # <<>>, NEW c \in Seq(LedCalls)
  PROVE  /\ c \o Tail(q) \in Seq(LedCalls)
         /\ Len(c \o Tail(q)) = Len(c) + Len(q) - 1
         /\ \A i \in 1..Len(c) : (c \o Tail(q))[i] = c[i]
         /\ \A i \in Len(c) + 1..Len(c) + Len(q) - 1 :
               /\ i - Len(c) + 1 \in DOMAIN q
               /\ (c \o Tail(q))[i] = q[i - Len(c) + 1]
         /\ Head(q) = q[1] /\ q[1] \in LedCalls /\ Len(q) >= 1
<1>1. Tail(q) \in Seq(LedCalls) /\ Len(Tail(q)) = Len(q) - 1 /\ Len(q) >= 1
  OBVIOUS
<1>2. \A j \in 1..Len(q) - 1 : Tail(q)[j] = q[j + 1]
  OBVIOUS
<1>3. Len(c) \in Nat /\ Len(q) \in Nat
  OBVIOUS
<1>4. \A i \in Len(c) + 1..Len(c) + Len(q) - 1 : (c \o Tail(q))[i] = Tail(q)[i - Len(c)]
  BY <1>1, <1>3
<1>5. \A i \in Len(c) + 1..Len(c) + Len(q) - 1 :
         i - Len(c) + 1 \in DOMAIN q /\ (c \o Tail(q))[i] = q[i - Len(c) + 1]
  BY <1>2, <1>3, <1>4
<1> QED BY <1>1, <1>3, <1>5

(* A call is worth one to three accesses.                                  *)
LEMMA HeightRange == \A c \in LedCalls : Height(c) \in 1..3
  BY DEF Height

(* What an access leaves of its call is worth no more than the call was.   *)
LEMMA BoundedStep ==
  ASSUME NEW q \in Seq(LedCalls), q # <<>>, NEW c \in Seq(LedCalls), Bounded(q),
         \A i \in 1..Len(c) : Height(c[i]) + Len(c) - i <= Height(q[1])
  PROVE  Bounded(c \o Tail(q))
<1> DEFINE r == c \o Tail(q)
<1>1. /\ r \in Seq(LedCalls) /\ Len(r) = Len(c) + Len(q) - 1 /\ Len(q) >= 1
      /\ Len(c) \in Nat /\ Len(q) \in Nat
  BY ReplaceHead
<1>2. ASSUME NEW i \in 1..Len(r) PROVE Height(r[i]) + Len(r) - i <= 5
  <2>a. i \in Nat
    BY <1>1
  <2>1. CASE i <= Len(c)
    <3>1. r[i] = c[i] /\ Height(c[i]) \in 1..3
      BY <2>1, <1>1, ReplaceHead, HeightRange
    <3>2. Height(q[1]) + Len(q) - 1 <= 5 /\ Height(q[1]) \in 1..3
      BY <1>1, HeightRange DEF Bounded, Within
    <3>3. Height(c[i]) + Len(c) - i <= Height(q[1])
      BY <2>1, <1>1
    <3>4. Height(r[i]) = Height(c[i])
      BY <3>1
    <3>5. ASSUME NEW a \in 1..3, NEW b \in 1..3, NEW m \in Nat, NEW n \in Nat,
                 a + m - i <= b, b + n - 1 <= 5
          PROVE  a + (m + n - 1) - i <= 5
      BY <3>5, <2>a
    <3>6. Height(c[i]) + Len(r) - i <= 5
      BY <3>1, <3>2, <3>3, <3>5, <1>1
    <3> QED BY <3>4, <3>6
  <2>2. CASE i > Len(c)
    <3>1. PICK k \in 1..Len(q) : k = i - Len(c) + 1 /\ r[i] = q[k]
      BY <2>2, <1>1, ReplaceHead
    <3>2. Height(q[k]) + Len(q) - k <= 5 /\ Height(q[k]) \in 1..3
      BY <3>1, HeightRange DEF Bounded, Within
    <3> HIDE DEF r
    <3> QED BY <3>1, <3>2, <1>1, <2>a
  <2> QED BY <2>1, <2>2, <1>1
<1>3. DOMAIN r = 1..Len(r)
  BY <1>1
<1> HIDE DEF r
<1>4. Bounded(r)
  BY <1>2, <1>3 DEF Bounded, Within
<1> QED BY <1>4 DEF r

(* So the calls are never more than five.                                  *)
LEMMA BoundedLength ==
  ASSUME NEW q \in Seq(LedCalls), Bounded(q)
  PROVE  Len(q) <= 5
<1>1. CASE q = <<>>
  BY <1>1
<1>2. CASE q # <<>>
  <2>1. q[1] \in LedCalls /\ Len(q) \in Nat /\ Height(q[1]) + Len(q) - 1 <= 5
    BY <1>2 DEF Bounded, Within
  <2> QED BY <2>1, HeightRange
<1> QED BY <1>1, <1>2

(* What the handlers ask of the widget.                                    *)
LEMMA CallTypes ==
  /\ [do |-> "Clear"] \in LedCalls /\ [do |-> "Blink"] \in LedCalls
  /\ [do |-> "Animate"] \in LedCalls /\ [do |-> "Stamp"] \in LedCalls
  /\ \A s \in BOOLEAN : /\ [do |-> "DoSet", state |-> s] \in LedCalls
                        /\ [do |-> "Write", state |-> s] \in LedCalls
                        /\ [do |-> "Store", state |-> s] \in LedCalls
  BY DEF LedCalls

(* An access that replaces a call by those it comes to keeps the types.    *)
LEMMA AccessKeepsTypes ==
  ASSUME LedInv, NEW t \in Threads, ledCalls[t] # <<>>, NEW c \in Seq(LedCalls), Continue(t, c),
         \A i \in 1..Len(c) : Height(c[i]) + Len(c) - i <= Height(ledCalls[t][1]),
         pin' \in BOOLEAN, ledState' \in BOOLEAN, blinking' \in BOOLEAN, due' \in BOOLEAN
  PROVE  LedInv'
<1>1. /\ ledCalls \in [Threads -> Seq(LedCalls)] /\ \A s \in Threads : Bounded(ledCalls[s])
      /\ window \in {"closed", "open", "reset"}
  BY DEF LedInv, LedTypeOK
<1>2. ledCalls[t] \in Seq(LedCalls)
  BY <1>1
<1>3. c \o Tail(ledCalls[t]) \in Seq(LedCalls) /\ Bounded(c \o Tail(ledCalls[t]))
  BY <1>1, <1>2, ReplaceHead, BoundedStep
<1>4. ledCalls' = [ledCalls EXCEPT ![t] = c \o Tail(ledCalls[t])]
  BY DEF Continue
<1>5. ledCalls' \in [Threads -> Seq(LedCalls)] /\ \A s \in Threads : Bounded(ledCalls'[s])
  BY <1>1, <1>3, <1>4
<1>6. \A s \in Threads : Len(ledCalls'[s]) <= 5
  BY <1>5, BoundedLength
<1> QED BY <1>1, <1>5, <1>6 DEF LedInv, LedTypeOK, Continue

(* So does an access that was the last of its call.                        *)
LEMMA LastAccessKeepsTypes ==
  ASSUME LedInv, NEW t \in Threads, ledCalls[t] # <<>>, Continue(t, <<>>),
         pin' \in BOOLEAN, ledState' \in BOOLEAN, blinking' \in BOOLEAN, due' \in BOOLEAN
  PROVE  LedInv'
<1>1. PICK c : c = <<>>
  OBVIOUS
<1>2. c \in Seq(LedCalls) /\ Len(c) = 0
  BY <1>1
<1>3. \A i \in 1..Len(c) : Height(c[i]) + Len(c) - i <= Height(ledCalls[t][1])
  BY <1>2
<1>4. Continue(t, c)
  BY <1>1, Zenon
<1> QED BY <1>2, <1>3, <1>4, AccessKeepsTypes

(* A thread that has nothing left to do with the LED is given the calls of *)
(* one handler.                                                            *)
LEMMA HandlerKeepsTypes ==
  ASSUME LedInv, NEW t \in Threads, NEW c \in Seq(LedCalls), Bounded(c),
         ledCalls' = [ledCalls EXCEPT ![t] = c],
         UNCHANGED led, window' \in {"closed", "open", "reset"}
  PROVE  LedInv'
<1>1. ledCalls' \in [Threads -> Seq(LedCalls)] /\ \A s \in Threads : Bounded(ledCalls'[s])
  BY DEF LedInv, LedTypeOK
<1>2. \A s \in Threads : Len(ledCalls'[s]) <= 5
  BY <1>1, BoundedLength
<1> QED BY <1>1, <1>2 DEF LedInv, LedTypeOK, led

(* A single call, and what is worth less is within more.                   *)
LEMMA WithinSingle ==
  ASSUME NEW c \in LedCalls, NEW n \in Nat, Height(c) <= n
  PROVE  <<c>> \in Seq(LedCalls) /\ Len(<<c>>) = 1 /\ Within(<<c>>, n)
<1>1. <<c>> \in Seq(LedCalls) /\ Len(<<c>>) = 1 /\ DOMAIN <<c>> = 1..1 /\ <<c>>[1] = c
  OBVIOUS
<1>2. ASSUME NEW i \in 1..1 PROVE Height(<<c>>[i]) + Len(<<c>>) - i <= n
  <2>1. i = 1 /\ Height(c) \in 1..3
    BY HeightRange
  <2> QED BY <1>1, <2>1
<1> QED BY <1>1, <1>2 DEF Within

Then(a, b) == a \o b

(* One list of calls behind another.                                       *)
LEMMA WithinConcat ==
  ASSUME NEW a \in Seq(LedCalls), NEW b \in Seq(LedCalls), NEW m \in Nat, NEW n \in Nat,
         Within(a, m), Within(b, n), m + Len(b) <= n, NEW r, r = Then(a, b)
  PROVE  r \in Seq(LedCalls) /\ Len(r) = Len(a) + Len(b) /\ Within(r, n)
<1>1. /\ r \in Seq(LedCalls) /\ Len(r) = Len(a) + Len(b) /\ Len(a) \in Nat /\ Len(b) \in Nat
      /\ DOMAIN r = 1..Len(r)
      /\ \A i \in 1..Len(a) : r[i] = a[i]
      /\ \A i \in Len(a) + 1..Len(a) + Len(b) : r[i] = b[i - Len(a)]
  BY DEF Then
<1>2. ASSUME NEW i \in Nat, i \in 1..Len(r) PROVE Height(r[i]) + Len(r) - i <= n
  <2>1. CASE i <= Len(a)
    <3>1. r[i] = a[i] /\ Height(a[i]) \in 1..3 /\ Height(a[i]) + Len(a) - i <= m
      BY <2>1, <1>1, <1>2, HeightRange DEF Within
    <3>2. ASSUME NEW h \in 1..3, NEW k \in Nat, NEW l \in Nat, h + k - i <= m, m + l <= n
          PROVE  h + (k + l) - i <= n
      BY <3>2
    <3> QED BY <3>1, <3>2, <1>1
  <2>2. CASE i > Len(a)
    <3>1. PICK j \in 1..Len(b) : j = i - Len(a) /\ r[i] = b[j]
      BY <2>2, <1>1, <1>2
    <3>2. Height(b[j]) \in 1..3 /\ Height(b[j]) + Len(b) - j <= n
      BY <3>1, HeightRange DEF Within
    <3>3. ASSUME NEW h \in 1..3, NEW k \in Nat, NEW l \in Nat, h + l - j <= n, j = i - k, i > k
          PROVE  h + (k + l) - i <= n
      BY <3>3, <1>2
    <3> QED BY <2>2, <3>1, <3>2, <3>3, <1>1
  <2> QED BY <2>1, <2>2, <1>1, <1>2
<1> QED BY <1>1, <1>2 DEF Within

(* The call DoSet, of either state.                                        *)
LEMMA DoSetCalls ==
  ASSUME NEW s \in BOOLEAN
  PROVE  DoSet(s) \in Seq(LedCalls) /\ Len(DoSet(s)) = 1 /\ Within(DoSet(s), 2)
<1>1. PICK c : c = [do |-> "DoSet", state |-> s]
  OBVIOUS
<1>2. c \in LedCalls /\ DoSet(s) = <<c>>
  BY <1>1, CallTypes, Zenon DEF DoSet
<1>3. Height(c) = 2
  BY <1>1 DEF Height
<1> QED BY <1>2, <1>3, WithinSingle

(* The calls of Set.                                                       *)
LEMMA SetCalls ==
  ASSUME NEW s \in BOOLEAN
  PROVE  Set(s) \in Seq(LedCalls) /\ Len(Set(s)) = 2 /\ Within(Set(s), 2)
<1>1. PICK c, a : c = [do |-> "Clear"] /\ a = <<c>>
  OBVIOUS
<1>2. c \in LedCalls /\ a = <<c>> /\ Set(s) = Then(a, DoSet(s))
  BY <1>1, CallTypes, Zenon DEF Set, Then
<1>3. Height(c) = 1
  BY <1>1 DEF Height
<1>4. DoSet(s) \in Seq(LedCalls) /\ Len(DoSet(s)) = 1 /\ Within(DoSet(s), 2)
  BY DoSetCalls
<1>5. <<c>> \in Seq(LedCalls) /\ Len(<<c>>) = 1 /\ Within(<<c>>, 1)
  BY <1>2, <1>3, WithinSingle
<1>6. a \in Seq(LedCalls) /\ Len(a) = 1 /\ Within(a, 1) /\ Set(s) = Then(a, DoSet(s))
  BY <1>2, <1>5, Zenon
<1>7. 1 \in Nat /\ 2 \in Nat /\ 1 + Len(DoSet(s)) <= 2
  BY <1>4
<1>8. /\ Set(s) \in Seq(LedCalls) /\ Within(Set(s), 2)
      /\ Len(Set(s)) = Len(a) + Len(DoSet(s))
  BY <1>4, <1>6, <1>7, WithinConcat
<1> QED BY <1>4, <1>6, <1>8

(* The call Animate.                                                       *)
LEMMA AnimateCalls ==
  ASSUME NEW n \in Nat, n >= 3
  PROVE  Animate \in Seq(LedCalls) /\ Len(Animate) = 1 /\ Within(Animate, n)
  BY HeightRange, CallTypes, WithinSingle DEF Animate

(* The calls of Blink.                                                     *)
LEMMA BlinkCalls ==
  ASSUME NEW n \in Nat, n >= 4
  PROVE  Blink \in Seq(LedCalls) /\ Len(Blink) = 2 /\ Within(Blink, n)
<1>1. PICK c, a : c = [do |-> "Blink"] /\ a = <<c>>
  OBVIOUS
<1>2. c \in LedCalls /\ a = <<c>> /\ Blink = Then(a, Animate)
  BY <1>1, CallTypes, Zenon DEF Blink, Then
<1>3. Height(c) = 1
  BY <1>1 DEF Height
<1>4. Animate \in Seq(LedCalls) /\ Len(Animate) = 1 /\ Within(Animate, n)
  BY AnimateCalls
<1>5. <<c>> \in Seq(LedCalls) /\ Len(<<c>>) = 1 /\ Within(<<c>>, 1)
  BY <1>2, <1>3, WithinSingle
<1>6. a \in Seq(LedCalls) /\ Len(a) = 1 /\ Within(a, 1) /\ Blink = Then(a, Animate)
  BY <1>2, <1>5, Zenon
<1>7. 1 \in Nat /\ 1 + Len(Animate) <= n
  BY <1>4
<1>8. /\ Blink \in Seq(LedCalls) /\ Within(Blink, n)
      /\ Len(Blink) = Len(a) + Len(Animate)
  BY <1>4, <1>6, <1>7, WithinConcat
<1> QED BY <1>4, <1>6, <1>8

(* After an event there is at most one call more.                          *)
LEMMA AfterEventCalls ==
  ASSUME NEW t
  PROVE  /\ AfterEvent(t) \in Seq(LedCalls)
         /\ Len(AfterEvent(t)) \in Nat /\ Len(AfterEvent(t)) <= 1
         /\ Within(AfterEvent(t), 5)
<1>1. <<>> \in Seq(LedCalls) /\ Len(<<>>) = 0 /\ Within(<<>>, 5)
  BY DEF Within
<1>2. Animate \in Seq(LedCalls) /\ Len(Animate) = 1 /\ Within(Animate, 5)
  BY AnimateCalls
<1>3. Len(<<>>) \in Nat /\ Len(<<>>) <= 1 /\ Len(Animate) \in Nat /\ Len(Animate) <= 1
  BY <1>2
<1>4. AfterEvent(t) = Animate \/ AfterEvent(t) = <<>>
  BY DEF AfterEvent
<1> QED BY <1>1, <1>2, <1>3, <1>4, Zenon

(* The calls of a handler, with those after the event, are bounded.        *)
LEMMA EventCalls ==
  ASSUME NEW t, NEW c \in Seq(LedCalls), Within(c, 4)
  PROVE  c \o AfterEvent(t) \in Seq(LedCalls) /\ Bounded(c \o AfterEvent(t))
<1>1. PICK b : b = AfterEvent(t)
  OBVIOUS
<1>2. b \in Seq(LedCalls) /\ Len(b) \in Nat /\ Len(b) <= 1 /\ Within(b, 5)
  BY <1>1, AfterEventCalls
<1>3. PICK r : r = Then(c, b)
  OBVIOUS
<1>4. 4 \in Nat /\ 5 \in Nat /\ 4 + Len(b) <= 5
  BY <1>2
<1>5. Within(c, 4) /\ c \in Seq(LedCalls)
  OBVIOUS
<1>6. r \in Seq(LedCalls) /\ Within(r, 5)
  BY <1>2, <1>3, <1>4, <1>5, WithinConcat
<1> QED BY <1>1, <1>3, <1>6, Zenon DEF Bounded, Then

(* What is within less is within more.                                     *)
LEMMA WithinMore ==
  ASSUME NEW q \in Seq(LedCalls), NEW m \in Nat, NEW n \in Nat, m <= n, Within(q, m)
  PROVE  Within(q, n)
<1>1. ASSUME NEW i \in DOMAIN q PROVE Height(q[i]) + Len(q) - i <= n
  <2>1. Height(q[i]) \in 1..3 /\ Height(q[i]) + Len(q) - i <= m /\ i \in Nat /\ Len(q) \in Nat
    BY HeightRange DEF Within
  <2>2. ASSUME NEW h \in 1..3, NEW k \in Nat, h + k - i <= m
        PROVE  h + k - i <= n
    BY <2>1, <2>2
  <2> QED BY <2>1, <2>2
<1> QED BY <1>1 DEF Within

(* So are those of the steps of the lock and of the cancel window.         *)
LEMMA CallsOfHandlers ==
  ASSUME NEW t
  PROVE  /\ LedCallsOf(t) \in Seq(LedCalls) /\ Bounded(LedCallsOf(t))
         /\ Within(<<>>, 4)
         /\ \A s \in BOOLEAN : Set(s) \in Seq(LedCalls) /\ Within(Set(s), 4)
         /\ Set(FALSE) \o Blink \in Seq(LedCalls) /\ Within(Set(FALSE) \o Blink, 4)
<1>1. <<>> \in Seq(LedCalls) /\ Within(<<>>, 4)
  BY DEF Within
<1>2. ASSUME NEW s \in BOOLEAN PROVE Set(s) \in Seq(LedCalls) /\ Within(Set(s), 4)
  BY SetCalls, WithinMore
<1>3. Set(FALSE) \o Blink \in Seq(LedCalls) /\ Within(Set(FALSE) \o Blink, 4)
  <2>1. PICK a : a = Set(FALSE)
    OBVIOUS
  <2>2. PICK r : r = Then(a, Blink)
    OBVIOUS
  <2>3. a \in Seq(LedCalls) /\ Within(a, 2)
    BY <2>1, SetCalls
  <2>b. Blink \in Seq(LedCalls) /\ Len(Blink) = 2 /\ Within(Blink, 4)
    BY BlinkCalls
  <2>4. 2 \in Nat /\ 4 \in Nat /\ 2 + Len(Blink) <= 4
    BY <2>b
  <2>5. r \in Seq(LedCalls) /\ Within(r, 4)
    BY <2>2, <2>3, <2>4, <2>b, WithinConcat, Zenon
  <2> QED BY <2>1, <2>2, <2>5, Zenon DEF Then
<1>4. LedCallsOf(t) \in Seq(LedCalls) /\ Bounded(LedCallsOf(t))
  <2>a. Blink \in Seq(LedCalls) /\ Within(Blink, 4)
    BY BlinkCalls
  <2>1. PICK c \in Seq(LedCalls) : Within(c, 4) /\ LedCallsOf(t) = c \o AfterEvent(t)
    BY <1>1, <1>2, <2>a DEF LedCallsOf
  <2> QED BY <2>1, EventCalls, Zenon
<1> QED BY <1>1, <1>2, <1>3, <1>4

(* At the start nobody uses the LED.                                       *)
LEMMA LedInvInit == LedInit => LedInv
<1> SUFFICES ASSUME LedInit PROVE LedInv
  OBVIOUS
<1>1. <<>> \in Seq(LedCalls) /\ Len(<<>>) <= 5 /\ Bounded(<<>>)
  BY DEF Bounded, Within
<1>2. /\ pin \in BOOLEAN /\ ledState \in BOOLEAN /\ blinking \in BOOLEAN /\ due \in BOOLEAN
      /\ window \in {"closed", "open", "reset"}
  BY DEF LedInit
<1>3. ledCalls \in [Threads -> Seq(LedCalls)] /\ \A t \in Threads : ledCalls[t] = <<>>
  BY <1>1 DEF LedInit
<1> QED BY <1>1, <1>2, <1>3 DEF LedInv, LedTypeOK

(* Every access to the widget keeps the types and the bound.               *)
LEMMA LedStepKeepsTypes ==
  ASSUME LedInv, NEW t \in Threads, LedStep(t)
  PROVE  LedInv'
<1>a. /\ ledCalls[t] \in Seq(LedCalls)
      /\ pin \in BOOLEAN /\ ledState \in BOOLEAN /\ blinking \in BOOLEAN /\ due \in BOOLEAN
  BY DEF LedInv, LedTypeOK
<1>b. ASSUME NEW do, Calls(t, do)
      PROVE  /\ ledCalls[t] # <<>> /\ ledCalls[t][1] = Head(ledCalls[t])
             /\ Head(ledCalls[t]) \in LedCalls /\ Head(ledCalls[t]).do = do
  BY <1>a, <1>b DEF Calls
<1>c. ASSUME NEW c \in LedCalls, Head(ledCalls[t]) = c, c.do \in {"DoSet", "Write", "Store"}
      PROVE  c.state \in BOOLEAN
  BY <1>c DEF LedCalls
<1>1. CASE ClearTimes(t)
  <2>1. blinking' \in BOOLEAN /\ due' \in BOOLEAN /\ pin' \in BOOLEAN /\ ledState' \in BOOLEAN
    BY <1>a, <1>1 DEF ClearTimes
  <2> QED BY <1>1, <1>b, <2>1, LastAccessKeepsTypes DEF ClearTimes
<1>2. CASE SetTimes(t)
  <2>1. blinking' \in BOOLEAN /\ due' \in BOOLEAN /\ pin' \in BOOLEAN /\ ledState' \in BOOLEAN
    BY <1>a, <1>2 DEF SetTimes
  <2> QED BY <1>2, <1>b, <2>1, LastAccessKeepsTypes DEF SetTimes
<1>3. CASE AnimateLed(t)
  <2>1. blinking' \in BOOLEAN /\ due' \in BOOLEAN /\ pin' \in BOOLEAN /\ ledState' \in BOOLEAN
    BY <1>a, <1>3 DEF AnimateLed, led
  <2>2. Height(ledCalls[t][1]) = 3
    BY <1>3, <1>b DEF AnimateLed, Height
  <2>3. CASE blinking /\ due
    <3>1. PICK c, d : c = [do |-> "DoSet", state |-> ~ledState] /\ d = [do |-> "Stamp"]
      OBVIOUS
    <3>2. c \in LedCalls /\ d \in LedCalls /\ Continue(t, <<c>> \o <<d>>)
      BY <3>1, <2>3, <1>3, CallTypes, Zenon DEF AnimateLed, DoSet
    <3>3. Height(c) = 2 /\ Height(d) = 1
      BY <3>1 DEF Height
    <3>4. PICK q : q = <<c>> \o <<d>>
      OBVIOUS
    <3>5. q \in Seq(LedCalls) /\ Len(q) = 2 /\ q[1] = c /\ q[2] = d
      BY <3>2, <3>4
    <3>6. \A i \in 1..Len(q) : Height(q[i]) + Len(q) - i <= Height(ledCalls[t][1])
      BY <2>2, <3>3, <3>5
    <3>7. Continue(t, q)
      BY <3>2, <3>4, Zenon
    <3> QED BY <1>3, <1>b, <2>1, <3>5, <3>6, <3>7, AccessKeepsTypes DEF AnimateLed
  <2>4. CASE ~(blinking /\ due)
    <3>1. Continue(t, <<>>)
      BY <1>3, <2>4 DEF AnimateLed
    <3> QED BY <1>3, <1>b, <2>1, <3>1, LastAccessKeepsTypes DEF AnimateLed
  <2> QED BY <2>3, <2>4
<1>4. CASE NoteTime(t)
  <2>1. blinking' \in BOOLEAN /\ due' \in BOOLEAN /\ pin' \in BOOLEAN /\ ledState' \in BOOLEAN
    BY <1>a, <1>4 DEF NoteTime
  <2> QED BY <1>4, <1>b, <2>1, LastAccessKeepsTypes DEF NoteTime
<1>5. CASE Compare(t)
  <2>1. blinking' \in BOOLEAN /\ due' \in BOOLEAN /\ pin' \in BOOLEAN /\ ledState' \in BOOLEAN
    BY <1>a, <1>5 DEF Compare, led
  <2>2. Height(ledCalls[t][1]) = 2
    BY <1>5, <1>b DEF Compare, Height
  <2>3. PICK p : p = Head(ledCalls[t]).state
    OBVIOUS
  <2>4. p \in BOOLEAN
    BY <1>5, <1>b, <1>c, <2>3 DEF Compare
  <2>5. PICK c, d : c = [do |-> "Write", state |-> p] /\ d = [do |-> "Store", state |-> p]
    OBVIOUS
  <2>6. c \in LedCalls /\ d \in LedCalls
    BY <2>4, <2>5, CallTypes, Zenon
  <2>7. Continue(t, IF ledState # p THEN <<c, d>> ELSE <<d>>)
    BY <1>5, <2>3, <2>5, Zenon DEF Compare
  <2>8. Height(c) = 1 /\ Height(d) = 1
    BY <2>5 DEF Height
  <2>9. CASE ledState # p
    <3>1. PICK q : q = <<c, d>>
      OBVIOUS
    <3>2. q \in Seq(LedCalls) /\ Len(q) = 2 /\ q[1] = c /\ q[2] = d
      BY <2>6, <3>1
    <3>3. \A i \in 1..Len(q) : Height(q[i]) + Len(q) - i <= Height(ledCalls[t][1])
      BY <2>2, <2>8, <3>2
    <3>4. Continue(t, q)
      BY <2>7, <2>9, <3>1, Zenon
    <3> QED BY <1>5, <1>b, <2>1, <3>2, <3>3, <3>4, AccessKeepsTypes DEF Compare
  <2>10. CASE ledState = p
    <3>1. PICK q : q = <<d>>
      OBVIOUS
    <3>2. q \in Seq(LedCalls) /\ Len(q) = 1 /\ q[1] = d
      BY <2>6, <3>1
    <3>3. \A i \in 1..Len(q) : Height(q[i]) + Len(q) - i <= Height(ledCalls[t][1])
      BY <2>2, <2>8, <3>2
    <3>4. Continue(t, q)
      BY <2>7, <2>10, <3>1, Zenon
    <3> QED BY <1>5, <1>b, <2>1, <3>2, <3>3, <3>4, AccessKeepsTypes DEF Compare
  <2> QED BY <2>9, <2>10
<1>6. CASE WritePin(t)
  <2>1. blinking' \in BOOLEAN /\ due' \in BOOLEAN /\ pin' \in BOOLEAN /\ ledState' \in BOOLEAN
    BY <1>a, <1>b, <1>c, <1>6 DEF WritePin
  <2> QED BY <1>6, <1>b, <2>1, LastAccessKeepsTypes DEF WritePin
<1>7. CASE StoreState(t)
  <2>1. blinking' \in BOOLEAN /\ due' \in BOOLEAN /\ pin' \in BOOLEAN /\ ledState' \in BOOLEAN
    BY <1>a, <1>b, <1>c, <1>7 DEF StoreState
  <2> QED BY <1>7, <1>b, <2>1, LastAccessKeepsTypes DEF StoreState
<1> QED BY <1>1, <1>2, <1>3, <1>4, <1>5, <1>6, <1>7 DEF LedStep

(* So does every handler.                                                  *)
LEMMA WindowKeepsTypes ==
  ASSUME LedInv, NEW from, NEW to \in {"closed", "open", "reset"},
         NEW c \in Seq(LedCalls), Within(c, 4), WindowHandler(from, to, c)
  PROVE  LedInv'
<1>1. PICK q : q = c \o AfterEvent("app")
  OBVIOUS
<1>2. q \in Seq(LedCalls) /\ Bounded(q)
  BY <1>1, EventCalls, Zenon
<1>3. ledCalls' = [ledCalls EXCEPT !["app"] = q] /\ window' = to /\ UNCHANGED led
  BY <1>1, Zenon DEF WindowHandler
<1> QED BY <1>2, <1>3, HandlerKeepsTypes DEF Threads

(* Every step keeps the types and the bound.                               *)
LEMMA LedInvStep == LedInv /\ [LedNext]_ledVars => LedInv'
<1> SUFFICES ASSUME LedInv, [LedNext]_ledVars PROVE LedInv'
  OBVIOUS
<1>a. window \in {"closed", "open", "reset"}
  BY DEF LedInv, LedTypeOK
<1>1. ASSUME NEW t \in Threads, LockStep(t) PROVE LedInv'
  <2>1. PICK q : q = LedCallsOf(t)
    OBVIOUS
  <2>2. q \in Seq(LedCalls) /\ Bounded(q)
    BY <2>1, CallsOfHandlers, Zenon
  <2>3. ledCalls' = [ledCalls EXCEPT ![t] = q] /\ window' = window /\ UNCHANGED led
    BY <1>1, <2>1, Zenon DEF LockStep
  <2> QED BY <1>a, <2>2, <2>3, HandlerKeepsTypes
<1>2. ASSUME NEW t \in Threads, LedStep(t) PROVE LedInv'
  BY <1>2, LedStepKeepsTypes
<1>3. CASE OpenWindow
  BY <1>3, CallsOfHandlers, WindowKeepsTypes DEF OpenWindow
<1>4. CASE CancelWindow
  <2>1. CancelledLed \in Seq(LedCalls) /\ Within(CancelledLed, 4)
    BY CallsOfHandlers DEF CancelledLed
  <2> QED BY <1>4, <2>1, WindowKeepsTypes DEF CancelWindow
<1>5. CASE TriggerReset
  <2>1. <<>> \in Seq(LedCalls) /\ Within(<<>>, 4)
    BY DEF Within
  <2> QED BY <1>5, <2>1, WindowKeepsTypes DEF TriggerReset
<1>6. CASE Command \/ LockTimer \/ PostOther \/ UNCHANGED ledVars
  BY <1>6 DEF Command, LockTimer, PostOther, ledVars, led, LedInv, LedTypeOK
<1>7. CASE BlinkTimePasses
  BY <1>7 DEF BlinkTimePasses, LedInv, LedTypeOK
<1> QED BY <1>1, <1>2, <1>3, <1>4, <1>5, <1>6, <1>7 DEF LedNext, LocalNext

(* The LED, its blink times and the calls of every thread keep their       *)
(* ranges, whoever calls the widget: a handler is through with at most     *)
(* five accesses before the next begins (LEDWidget.cpp, AppTask.cpp).      *)
THEOREM LedTypeCorrect == LedSpec => []LedTypeOK
<1>1. LedInv => LedTypeOK
  BY DEF LedInv
<1> QED BY LedInvInit, LedInvStep, <1>1, PTL DEF LedSpec

-----------------------------------------------------------------------------
(***************************************************************************)
(* The device left to its button: the application task alone uses the LED. *)
(***************************************************************************)

(* A step of the button build is one of the lock's own, or leaves the lock *)
(* alone.                                                                  *)
LEMMA LocalNextIsLocalStep ==
  [LocalNext]_ledVars => LocalStep \/ UNCHANGED vars
<1> SUFFICES ASSUME [LocalNext]_ledVars PROVE LocalStep \/ UNCHANGED vars
  OBVIOUS
<1>1. ASSUME NEW t \in Threads, LockStep(t) PROVE LocalStep
  BY <1>1 DEF LockStep, ThreadStep, LocalStep
<1>2. ASSUME NEW t \in Threads, LedStep(t) PROVE UNCHANGED vars
  BY <1>2 DEF LedStep, ClearTimes, SetTimes, AnimateLed, NoteTime, Compare, WritePin, StoreState, Continue
<1>3. CASE OpenWindow \/ CancelWindow \/ TriggerReset
  BY <1>3 DEF OpenWindow, CancelWindow, TriggerReset, WindowHandler, AppStep, LocalStep
<1>4. CASE LockTimer
  BY <1>4 DEF LockTimer, LocalStep
<1>5. CASE PostOther
  BY <1>5 DEF PostOther, LocalStep
<1>6. CASE BlinkTimePasses
  BY <1>6 DEF BlinkTimePasses
<1>7. CASE UNCHANGED ledVars
  BY <1>7 DEF ledVars
<1> QED BY <1>1, <1>2, <1>3, <1>4, <1>5, <1>6, <1>7 DEF LocalNext

(* The button build with its LED agrees at rest as the lock alone does: no *)
(* call of the widget changes what ActionCompleted and UpdateCluster do.   *)
THEOREM ButtonWithLedAgrees == ButtonSpec => []AgreeAtRest
<1>1. LedInit => ButtonInv
  BY ButtonStart DEF LedInit
<1>2. ButtonInv /\ [LocalNext]_ledVars => ButtonInv'
  BY LocalNextIsLocalStep, ButtonStep, StatusLedAssumption
<1>3. ButtonInv => AgreeAtRest
  BY DEF ButtonInv, AgreeAtRest, AtRest, ComingState, Threads
<1> QED BY <1>1, <1>2, <1>3, PTL DEF ButtonSpec

(* With its LED, too, the lock of the button build has the update of the   *)
(* attribute on its way whenever controllers do not see where the door is. *)
THEOREM ButtonWithLedReports == ButtonSpec => []ArrivalIsOnItsWay
<1>1. LedInit => ButtonInv
  BY ButtonStart DEF LedInit
<1>2. ButtonInv /\ [LocalNext]_ledVars => ButtonInv'
  BY LocalNextIsLocalStep, ButtonStep, StatusLedAssumption
<1>3. ButtonInv => ArrivalIsOnItsWay
  BY DEF ButtonInv, TypeOK, ArrivalIsOnItsWay, ComingState
<1> QED BY <1>1, <1>2, <1>3, PTL DEF ButtonSpec

-----------------------------------------------------------------------------
(***************************************************************************)
(* What is left of the application task's calls of the widget.             *)
(***************************************************************************)
AppCalls == ledCalls["app"]

(* The pin and the widget's idea of it differ only between WritePin and    *)
(* StoreState, which come one behind the other.                            *)
WidgetInv ==
    /\ \A i \in DOMAIN AppCalls : AppCalls[i].do = "Write" =>
          /\ i = 1 /\ 2 \in DOMAIN AppCalls
          /\ AppCalls[2].do = "Store" /\ AppCalls[2].state = AppCalls[1].state
    /\ \A i \in DOMAIN AppCalls : AppCalls[i].do = "Store" =>
          i = 1 \/ (i = 2 /\ AppCalls[1].do = "Write")
    /\ AppCalls = <<>> => pin = ledState
    /\ AppCalls # <<>> /\ AppCalls[1].do \notin {"Write", "Store"} => pin = ledState
    /\ AppCalls # <<>> /\ AppCalls[1].do = "Store" => pin = AppCalls[1].state

(* With the door at rest and no factory reset about, whatever is left sets *)
(* the LED to the position of the door, and what is not yet so is going to *)
(* be: the LED still blinks only if the blink times are about to be        *)
(* cleared, and is at the other level only if it is about to be set.       *)
Shows(locked) ==
    /\ \A i \in DOMAIN AppCalls :
          /\ AppCalls[i].do \notin {"Blink", "Stamp"}
          /\ AppCalls[i].do \in {"DoSet", "Write", "Store"} => AppCalls[i].state = locked
          /\ AppCalls[i].do = "Clear" => i = 1 /\ 2 \in DOMAIN AppCalls /\ AppCalls[2].do = "DoSet"
    /\ blinking => AppCalls # <<>> /\ AppCalls[1].do = "Clear"
    /\ pin # locked => AppCalls # <<>> /\ AppCalls[1].do \in {"Clear", "DoSet", "Write"}

ShownInv == window = "closed" /\ ~IsActionInProgress => Shows(DoorPosition = "Locked")

LedShownInv ==
    /\ LedInv /\ ButtonInv
    /\ \A t \in Threads : t # "app" => ledCalls[t] = <<>>
    /\ WidgetInv /\ ShownInv

(* It holds at the start.                                                  *)
LEMMA LedShownInit == LedInit => LedShownInv
<1> SUFFICES ASSUME LedInit PROVE LedShownInv
  OBVIOUS
<1>1. LedInv /\ ButtonInv
  BY LedInvInit, ButtonStart DEF LedInit
<1>2. \A t \in Threads : ledCalls[t] = <<>>
  BY DEF LedInit
<1>3. AppCalls = <<>> /\ DOMAIN AppCalls = {}
  BY <1>2 DEF AppCalls, Threads
<1>4. DoorPosition = lockState
  BY DoorOfState DEF LedInit, Init
<1> QED BY <1>1, <1>2, <1>3, <1>4 DEF LedInit, LedShownInv, WidgetInv, ShownInv, Shows

(* And it is what the property needs.                                      *)
LEMMA LedShownImplies == LedShownInv => LedShowsDoor
  BY DEF LedShownInv, ShownInv, Shows, AppCalls, LedShowsDoor, AtRest, Threads

(* Dropping the first call.                                                *)
LEMMA DropHead ==
  ASSUME LedInv, AppCalls # <<>>, Continue("app", <<>>)
  PROVE  /\ AppCalls' \in Seq(LedCalls)
         /\ DOMAIN AppCalls = 1..Len(AppCalls) /\ DOMAIN AppCalls' = 1..Len(AppCalls')
         /\ Len(AppCalls) \in Nat /\ Len(AppCalls') = Len(AppCalls) - 1 /\ Len(AppCalls) >= 1
         /\ \A i \in DOMAIN AppCalls' :
               i \in Nat /\ i >= 1 /\ i + 1 \in DOMAIN AppCalls /\ AppCalls'[i] = AppCalls[i + 1]
         /\ Head(AppCalls) = AppCalls[1] /\ AppCalls[1] \in LedCalls /\ 1 \in DOMAIN AppCalls
         /\ AppCalls' # <<>> => 1 \in DOMAIN AppCalls' /\ AppCalls'[1] = AppCalls[2]
<1>1. AppCalls \in Seq(LedCalls) /\ ledCalls \in [Threads -> Seq(LedCalls)] /\ "app" \in Threads
  BY DEF LedInv, LedTypeOK, AppCalls, Threads
<1>2. AppCalls' = <<>> \o Tail(AppCalls)
  BY <1>1 DEF Continue, AppCalls
<1>3. PICK c : c = <<>>
  OBVIOUS
<1>4. c \in Seq(LedCalls) /\ Len(c) = 0
  BY <1>3
<1>5. AppCalls' = c \o Tail(AppCalls)
  BY <1>2, <1>3, Zenon
<1>6. /\ AppCalls' \in Seq(LedCalls)
      /\ Len(AppCalls') = Len(c) + Len(AppCalls) - 1
      /\ \A i \in Len(c) + 1..Len(c) + Len(AppCalls) - 1 :
            /\ i - Len(c) + 1 \in DOMAIN AppCalls
            /\ AppCalls'[i] = AppCalls[i - Len(c) + 1]
      /\ Head(AppCalls) = AppCalls[1] /\ AppCalls[1] \in LedCalls /\ Len(AppCalls) >= 1
  BY <1>1, <1>4, <1>5, ReplaceHead, Zenon
<1>7. /\ DOMAIN AppCalls = 1..Len(AppCalls) /\ DOMAIN AppCalls' = 1..Len(AppCalls')
      /\ Len(AppCalls) \in Nat
  BY <1>1, <1>6
<1>8. Len(AppCalls') = Len(AppCalls) - 1
  BY <1>4, <1>6, <1>7
<1>9. ASSUME NEW i \in DOMAIN AppCalls'
      PROVE  i \in Nat /\ i >= 1 /\ i + 1 \in DOMAIN AppCalls /\ AppCalls'[i] = AppCalls[i + 1]
  <2>1. i \in Nat /\ i >= 1 /\ i <= Len(AppCalls) - 1
    BY <1>7, <1>8
  <2> QED BY <2>1, <1>4, <1>6, <1>7
<1>10. 1 \in DOMAIN AppCalls
  BY <1>6, <1>7
<1>11. ASSUME AppCalls' # <<>> PROVE 1 \in DOMAIN AppCalls' /\ AppCalls'[1] = AppCalls[2]
  <2>1. 1 \in DOMAIN AppCalls'
    BY <1>6, <1>7, <1>8, <1>11
  <2> QED BY <1>9, <2>1
<1> QED BY <1>6, <1>7, <1>8, <1>9, <1>10, <1>11

(* An access of the application task keeps the two parts.                  *)
LEMMA LastAccessShows ==
  ASSUME LedInv, WidgetInv, NEW locked \in BOOLEAN,
         ClearTimes("app") \/ SetTimes("app") \/ NoteTime("app") \/ WritePin("app") \/ StoreState("app")
         \/ (AnimateLed("app") /\ ~(blinking /\ due))
  PROVE  WidgetInv' /\ (Shows(locked) => Shows(locked)')
<1>1. Continue("app", <<>>) /\ AppCalls # <<>>
  BY DEF ClearTimes, SetTimes, NoteTime, WritePin, StoreState, AnimateLed, Calls, AppCalls
<1>2. /\ DOMAIN AppCalls = 1..Len(AppCalls) /\ DOMAIN AppCalls' = 1..Len(AppCalls')
      /\ Len(AppCalls) \in Nat /\ Len(AppCalls') = Len(AppCalls) - 1 /\ Len(AppCalls) >= 1
      /\ \A i \in DOMAIN AppCalls' :
            i \in Nat /\ i >= 1 /\ i + 1 \in DOMAIN AppCalls /\ AppCalls'[i] = AppCalls[i + 1]
      /\ Head(AppCalls) = AppCalls[1] /\ 1 \in DOMAIN AppCalls
      /\ AppCalls' # <<>> => 1 \in DOMAIN AppCalls' /\ AppCalls'[1] = AppCalls[2]
  BY <1>1, DropHead, Zenon
<1>3. /\ ClearTimes("app") => AppCalls[1].do = "Clear"
      /\ SetTimes("app") => AppCalls[1].do = "Blink"
      /\ NoteTime("app") => AppCalls[1].do = "Stamp"
      /\ WritePin("app") => AppCalls[1].do = "Write"
      /\ StoreState("app") => AppCalls[1].do = "Store"
      /\ AnimateLed("app") => AppCalls[1].do = "Animate"
  BY <1>2 DEF ClearTimes, SetTimes, NoteTime, WritePin, StoreState, AnimateLed, Calls, AppCalls
<1>4. CASE ~WritePin("app")
  <2>1. \A i \in DOMAIN AppCalls' : AppCalls'[i].do \notin {"Write", "Store"}
    BY <1>2, <1>3, <1>4 DEF WidgetInv
  <2>2. pin' = pin
    BY <1>4 DEF ClearTimes, SetTimes, NoteTime, StoreState, AnimateLed, led
  <2>3. pin' = ledState'
    <3>1. CASE StoreState("app")
      BY <1>1, <1>2, <1>3, <3>1 DEF StoreState, WidgetInv, AppCalls
    <3>2. CASE ~StoreState("app")
      BY <1>1, <1>2, <1>3, <1>4, <3>2 DEF ClearTimes, SetTimes, NoteTime, AnimateLed, led, WidgetInv
    <3> QED BY <3>1, <3>2
  <2>4. WidgetInv'
    BY <1>2, <2>1, <2>3 DEF WidgetInv
  <2>5. ASSUME Shows(locked) PROVE Shows(locked)'
    <3>1. ~SetTimes("app") /\ ~NoteTime("app")
      BY <1>2, <1>3, <2>5 DEF Shows
    <3>2. \A i \in DOMAIN AppCalls' :
             /\ AppCalls'[i].do \notin {"Blink", "Stamp", "Clear"}
             /\ AppCalls'[i].do \in {"DoSet", "Write", "Store"} => AppCalls'[i].state = locked
      BY <1>2, <2>5 DEF Shows
    <3>3. blinking' = FALSE
      BY <1>3, <1>4, <2>5, <3>1 DEF Shows, ClearTimes, StoreState, AnimateLed, led
    <3>4. CASE ClearTimes("app")
      <4>1. 2 \in DOMAIN AppCalls /\ AppCalls[2].do = "DoSet"
        BY <1>2, <1>3, <2>5, <3>4 DEF Shows
      <4>2. AppCalls' # <<>>
        BY <1>2, <4>1
      <4> QED BY <1>2, <3>2, <3>3, <4>1, <4>2 DEF Shows
    <3>5. CASE ~ClearTimes("app")
      <4>1. pin' = locked
        BY <1>3, <1>4, <2>2, <2>5, <3>1, <3>5 DEF Shows
      <4> QED BY <3>2, <3>3, <4>1 DEF Shows
    <3> QED BY <3>4, <3>5
  <2> QED BY <2>4, <2>5
<1>5. CASE WritePin("app")
  <2>1. /\ 2 \in DOMAIN AppCalls /\ AppCalls[2].do = "Store" /\ AppCalls[2].state = AppCalls[1].state
        /\ pin' = AppCalls[1].state /\ UNCHANGED <<ledState, blinking>>
    BY <1>2, <1>3, <1>5 DEF WidgetInv, WritePin, AppCalls
  <2>2. AppCalls' # <<>> /\ 1 \in DOMAIN AppCalls' /\ AppCalls'[1] = AppCalls[2]
    BY <1>2, <2>1
  <2>3. \A i \in DOMAIN AppCalls' : AppCalls'[i].do # "Write" /\ (AppCalls'[i].do = "Store" => i = 1)
    BY <1>2 DEF WidgetInv
  <2>4. WidgetInv'
    BY <2>1, <2>2, <2>3 DEF WidgetInv
  <2>5. ASSUME Shows(locked) PROVE Shows(locked)'
    <3>1. \A i \in DOMAIN AppCalls' :
             /\ AppCalls'[i].do \notin {"Blink", "Stamp", "Clear"}
             /\ AppCalls'[i].do \in {"DoSet", "Write", "Store"} => AppCalls'[i].state = locked
      BY <1>2, <2>5 DEF Shows
    <3>2. pin' = locked /\ ~blinking'
      BY <1>2, <1>3, <1>5, <2>1, <2>5 DEF Shows
    <3> QED BY <3>1, <3>2 DEF Shows
  <2> QED BY <2>4, <2>5
<1> QED BY <1>4, <1>5

(* Putting accesses in the place of the first call.                        *)
LEMMA PutHead ==
  ASSUME LedInv, AppCalls # <<>>, NEW c \in Seq(LedCalls), Continue("app", c)
  PROVE  /\ AppCalls' \in Seq(LedCalls)
         /\ DOMAIN AppCalls' = 1..Len(AppCalls') /\ DOMAIN AppCalls = 1..Len(AppCalls)
         /\ Len(AppCalls) \in Nat /\ Len(c) \in Nat /\ Len(AppCalls) >= 1
         /\ Len(AppCalls') = Len(c) + Len(AppCalls) - 1
         /\ \A i \in 1..Len(c) : AppCalls'[i] = c[i]
         /\ \A i \in DOMAIN AppCalls' : i > Len(c) =>
               \E k \in DOMAIN AppCalls : k > 1 /\ AppCalls'[i] = AppCalls[k]
         /\ Head(AppCalls) = AppCalls[1] /\ AppCalls[1] \in LedCalls /\ 1 \in DOMAIN AppCalls
<1>1. AppCalls \in Seq(LedCalls) /\ ledCalls \in [Threads -> Seq(LedCalls)] /\ "app" \in Threads
  BY DEF LedInv, LedTypeOK, AppCalls, Threads
<1>2. AppCalls' = c \o Tail(AppCalls)
  BY <1>1 DEF Continue, AppCalls
<1>3. /\ AppCalls' \in Seq(LedCalls)
      /\ Len(AppCalls') = Len(c) + Len(AppCalls) - 1
      /\ \A i \in 1..Len(c) : AppCalls'[i] = c[i]
      /\ \A i \in Len(c) + 1..Len(c) + Len(AppCalls) - 1 :
            /\ i - Len(c) + 1 \in DOMAIN AppCalls
            /\ AppCalls'[i] = AppCalls[i - Len(c) + 1]
      /\ Head(AppCalls) = AppCalls[1] /\ AppCalls[1] \in LedCalls /\ Len(AppCalls) >= 1
  BY <1>1, <1>2, ReplaceHead, Zenon
<1>4. /\ DOMAIN AppCalls = 1..Len(AppCalls) /\ DOMAIN AppCalls' = 1..Len(AppCalls')
      /\ Len(AppCalls) \in Nat /\ Len(c) \in Nat /\ 1 \in DOMAIN AppCalls
  BY <1>1, <1>3
<1>5. ASSUME NEW i \in DOMAIN AppCalls', i > Len(c)
      PROVE  \E k \in DOMAIN AppCalls : k > 1 /\ AppCalls'[i] = AppCalls[k]
  <2>1. i \in Nat /\ i <= Len(c) + Len(AppCalls) - 1
    BY <1>3, <1>4
  <2>2. i \in Len(c) + 1..Len(c) + Len(AppCalls) - 1 /\ i - Len(c) + 1 > 1
    BY <1>4, <1>5, <2>1
  <2> QED BY <1>3, <2>2
<1> QED BY <1>3, <1>4, <1>5

(* It is time for the LED to blink, which it does only while the door      *)
(* moves or a reset is about.                                              *)
LEMMA InvertShows ==
  ASSUME LedInv, WidgetInv, NEW locked \in BOOLEAN, AnimateLed("app"), blinking /\ due
  PROVE  WidgetInv' /\ ~Shows(locked)
<1>1. PICK c, d : c = [do |-> "DoSet", state |-> ~ledState] /\ d = [do |-> "Stamp"]
  OBVIOUS
<1>2. c \in LedCalls /\ d \in LedCalls /\ Continue("app", <<c>> \o <<d>>)
  <2>1. ledState \in BOOLEAN
    BY DEF LedInv, LedTypeOK
  <2> QED BY <1>1, <2>1, CallTypes, Zenon DEF AnimateLed, DoSet
<1>3. PICK r : r = <<c>> \o <<d>>
  OBVIOUS
<1>4. r \in Seq(LedCalls) /\ Len(r) = 2 /\ r[1] = c /\ r[2] = d
  BY <1>2, <1>3
<1>5. Continue("app", r)
  BY <1>2, <1>3, Zenon
<1>6. AppCalls # <<>> /\ AppCalls[1].do = "Animate" /\ c.do = "DoSet" /\ d.do = "Stamp"
  BY <1>1 DEF AnimateLed, Calls, AppCalls, LedInv, LedTypeOK, Threads
<1>7. ASSUME NEW i \in DOMAIN AppCalls' PROVE AppCalls'[i].do \notin {"Write", "Store"}
  <2>1. i \in Nat /\ i >= 1
    BY <1>4, <1>5, <1>6, PutHead
  <2>2. CASE i > 2
    <3>1. PICK k \in DOMAIN AppCalls : k > 1 /\ AppCalls'[i] = AppCalls[k]
      BY <1>4, <1>5, <1>6, <2>2, PutHead
    <3> QED BY <1>6, <3>1 DEF WidgetInv
  <2>3. CASE i <= 2
    <3>1. AppCalls'[i] = r[i]
      <4>1. \A j \in 1..Len(r) : AppCalls'[j] = r[j]
        BY <1>4, <1>5, <1>6, PutHead, Zenon
      <4> QED BY <1>4, <2>1, <2>3, <4>1
    <3> QED BY <1>4, <1>6, <2>1, <2>3, <3>1
  <2> QED BY <2>1, <2>2, <2>3
<1>8. AppCalls' # <<>> /\ 1 \in DOMAIN AppCalls'
  BY <1>4, <1>5, <1>6, PutHead
<1>9. pin' = ledState'
  BY <1>6 DEF WidgetInv, AnimateLed, led
<1> QED BY <1>6, <1>7, <1>8, <1>9 DEF WidgetInv, Shows

(* DoSet takes the LED where it is asked to, by the pin or by the widget's *)
(* idea of it, which is that of the pin.                                   *)
LEMMA CompareShows ==
  ASSUME LedInv, WidgetInv, NEW locked \in BOOLEAN, Compare("app")
  PROVE  WidgetInv' /\ (Shows(locked) => Shows(locked)')
<1>1. /\ AppCalls # <<>> /\ AppCalls[1].do = "DoSet" /\ AppCalls[1] = Head(ledCalls["app"])
      /\ pin = ledState /\ UNCHANGED <<pin, ledState, blinking>>
  <2>1. AppCalls \in Seq(LedCalls)
    BY DEF LedInv, LedTypeOK, AppCalls, Threads
  <2>2. AppCalls # <<>> /\ Head(AppCalls).do = "DoSet"
    BY Zenon DEF Compare, Calls, AppCalls
  <2>3. 1 \in DOMAIN AppCalls /\ AppCalls[1] = Head(AppCalls)
    BY <2>1, <2>2
  <2>4. pin = ledState
    BY <2>2, <2>3 DEF WidgetInv
  <2>5. UNCHANGED <<pin, ledState, blinking>>
    BY DEF Compare, led
  <2> QED BY <2>2, <2>3, <2>4, <2>5 DEF AppCalls
<1>2. PICK p : p = AppCalls[1].state
  OBVIOUS
<1>3. p \in BOOLEAN
  BY <1>1, <1>2 DEF LedInv, LedTypeOK, AppCalls, LedCalls, Threads
<1>4. PICK c, d : c = [do |-> "Write", state |-> p] /\ d = [do |-> "Store", state |-> p]
  OBVIOUS
<1>5. c \in LedCalls /\ d \in LedCalls
  BY <1>3, <1>4, CallTypes, Zenon
<1>6. Continue("app", IF ledState # p THEN <<c, d>> ELSE <<d>>)
  BY <1>1, <1>2, <1>4, Zenon DEF Compare
<1>7. c.do = "Write" /\ c.state = p /\ d.do = "Store" /\ d.state = p
  BY <1>4
<1>8. ASSUME Shows(locked)
      PROVE  /\ p = locked /\ ~blinking
             /\ \A k \in DOMAIN AppCalls : k > 1 =>
                   /\ AppCalls[k].do \notin {"Blink", "Stamp", "Clear"}
                   /\ AppCalls[k].do \in {"DoSet", "Write", "Store"} => AppCalls[k].state = locked
  <2>1. 1 \in DOMAIN AppCalls
    BY <1>1 DEF LedInv, LedTypeOK, AppCalls, Threads
  <2> QED BY <1>1, <1>2, <1>8, <2>1 DEF Shows
<1>9. \A k \in DOMAIN AppCalls : k > 1 => AppCalls[k].do \notin {"Write", "Store"}
  BY <1>1 DEF WidgetInv
<1>10. CASE ledState # p
  <2>1. PICK r : r = <<c, d>>
    OBVIOUS
  <2>2. r \in Seq(LedCalls) /\ Len(r) = 2 /\ r[1] = c /\ r[2] = d
    BY <1>5, <2>1
  <2>3. Continue("app", r)
    BY <1>6, <1>10, <2>1, Zenon
  <2>4. /\ AppCalls' # <<>> /\ 1 \in DOMAIN AppCalls' /\ 2 \in DOMAIN AppCalls'
        /\ AppCalls'[1] = c /\ AppCalls'[2] = d
    <3>1. /\ AppCalls' \in Seq(LedCalls) /\ DOMAIN AppCalls' = 1..Len(AppCalls')
          /\ Len(AppCalls) \in Nat /\ Len(AppCalls) >= 1
          /\ Len(AppCalls') = Len(r) + Len(AppCalls) - 1
          /\ \A i \in 1..Len(r) : AppCalls'[i] = r[i]
      BY <1>1, <2>2, <2>3, PutHead, Zenon
    <3> QED BY <2>2, <3>1
  <2>5. ASSUME NEW i \in DOMAIN AppCalls', i # 1, i # 2
        PROVE  \E k \in DOMAIN AppCalls : k > 1 /\ AppCalls'[i] = AppCalls[k]
    <3>1. i \in Nat /\ i >= 1
      BY <1>1, <2>2, <2>3, PutHead
    <3> QED BY <1>1, <2>2, <2>3, <2>5, <3>1, PutHead
  <2>6. WidgetInv'
    BY <1>7, <1>9, <2>4, <2>5 DEF WidgetInv
  <2>7. ASSUME Shows(locked) PROVE Shows(locked)'
    BY <1>1, <1>7, <1>8, <2>4, <2>5, <2>7 DEF Shows
  <2> QED BY <2>6, <2>7
<1>11. CASE ledState = p
  <2>1. PICK r : r = <<d>>
    OBVIOUS
  <2>2. r \in Seq(LedCalls) /\ Len(r) = 1 /\ r[1] = d
    BY <1>5, <2>1
  <2>3. Continue("app", r)
    BY <1>6, <1>11, <2>1, Zenon
  <2>4. AppCalls' # <<>> /\ 1 \in DOMAIN AppCalls' /\ AppCalls'[1] = d
    <3>1. /\ AppCalls' \in Seq(LedCalls) /\ DOMAIN AppCalls' = 1..Len(AppCalls')
          /\ Len(AppCalls) \in Nat /\ Len(AppCalls) >= 1
          /\ Len(AppCalls') = Len(r) + Len(AppCalls) - 1
          /\ \A i \in 1..Len(r) : AppCalls'[i] = r[i]
      BY <1>1, <2>2, <2>3, PutHead, Zenon
    <3> QED BY <2>2, <3>1
  <2>5. ASSUME NEW i \in DOMAIN AppCalls', i # 1
        PROVE  \E k \in DOMAIN AppCalls : k > 1 /\ AppCalls'[i] = AppCalls[k]
    <3>1. i \in Nat /\ i >= 1
      BY <1>1, <2>2, <2>3, PutHead
    <3> QED BY <1>1, <2>2, <2>3, <2>5, <3>1, PutHead
  <2>6. WidgetInv'
    BY <1>1, <1>7, <1>9, <1>11, <2>4, <2>5 DEF WidgetInv
  <2>7. ASSUME Shows(locked) PROVE Shows(locked)'
    BY <1>1, <1>7, <1>8, <1>11, <2>4, <2>5, <2>7 DEF Shows
  <2> QED BY <2>6, <2>7
<1> QED BY <1>10, <1>11

(* So every access of the application task keeps the two parts.            *)
LEMMA AccessShows ==
  ASSUME LedInv, WidgetInv, NEW locked \in BOOLEAN, LedStep("app")
  PROVE  WidgetInv' /\ (Shows(locked) => Shows(locked)')
  BY LastAccessShows, InvertShows, CompareShows DEF LedStep

(* The calls that a handler asks for, and that the task has not begun.     *)
Requests(q) == \A i \in DOMAIN q : q[i].do \in {"Clear", "DoSet", "Blink", "Animate"}

(* One list of requests behind another.                                    *)
LEMMA RequestsConcat ==
  ASSUME NEW a \in Seq(LedCalls), NEW b \in Seq(LedCalls), Requests(a), Requests(b),
         NEW r, r = Then(a, b)
  PROVE  Requests(r)
<1>1. /\ r \in Seq(LedCalls) /\ Len(r) = Len(a) + Len(b) /\ Len(a) \in Nat /\ Len(b) \in Nat
      /\ DOMAIN r = 1..Len(r) /\ DOMAIN a = 1..Len(a) /\ DOMAIN b = 1..Len(b)
      /\ \A i \in 1..Len(a) : r[i] = a[i]
      /\ \A i \in Len(a) + 1..Len(a) + Len(b) : r[i] = b[i - Len(a)]
  BY DEF Then
<1>2. ASSUME NEW i \in Nat, i \in 1..Len(r) PROVE r[i].do \in {"Clear", "DoSet", "Blink", "Animate"}
  <2>1. CASE i <= Len(a)
    BY <1>1, <1>2, <2>1 DEF Requests
  <2>2. CASE i > Len(a)
    <3>1. i - Len(a) \in 1..Len(b) /\ i \in Len(a) + 1..Len(a) + Len(b)
      BY <1>1, <1>2, <2>2
    <3> QED BY <1>1, <3>1 DEF Requests
  <2> QED BY <1>1, <1>2, <2>1, <2>2
<1> QED BY <1>1, <1>2 DEF Requests

(* The requests behind an event.                                           *)
LEMMA AfterEventRequests ==
  ASSUME NEW t
  PROVE  /\ AfterEvent(t) \in Seq(LedCalls) /\ Len(AfterEvent(t)) \in Nat
         /\ \A i \in DOMAIN AfterEvent(t) : AfterEvent(t)[i].do = "Animate"
         /\ Requests(AfterEvent(t))
<1>1. AfterEvent(t) \in Seq(LedCalls) /\ Len(AfterEvent(t)) \in Nat
  BY AfterEventCalls
<1>2. \A i \in DOMAIN AfterEvent(t) : AfterEvent(t)[i].do = "Animate"
  BY DEF AfterEvent, Animate
<1> QED BY <1>1, <1>2 DEF Requests

(* Set and what is behind the event.                                       *)
LEMMA SetRequests ==
  ASSUME NEW t, NEW s \in BOOLEAN, NEW q, q = Set(s) \o AfterEvent(t)
  PROVE  /\ q \in Seq(LedCalls) /\ 1 \in DOMAIN q /\ 2 \in DOMAIN q /\ q # <<>>
         /\ q[1].do = "Clear" /\ q[2].do = "DoSet" /\ q[2].state = s
         /\ \A i \in DOMAIN q : i # 1 /\ i # 2 => q[i].do = "Animate"
<1>1. PICK c, d : c = [do |-> "Clear"] /\ d = [do |-> "DoSet", state |-> s]
  OBVIOUS
<1>2. c \in LedCalls /\ d \in LedCalls /\ Set(s) = <<c>> \o <<d>>
  BY <1>1, CallTypes, Zenon DEF Set, DoSet
<1>3. PICK a, b : a = <<c>> \o <<d>> /\ b = AfterEvent(t)
  OBVIOUS
<1>4. a \in Seq(LedCalls) /\ Len(a) = 2 /\ a[1] = c /\ a[2] = d
  BY <1>2, <1>3
<1>5. b \in Seq(LedCalls) /\ Len(b) \in Nat /\ \A i \in DOMAIN b : b[i].do = "Animate"
  BY <1>3, AfterEventRequests
<1>6. q = Then(a, b)
  BY <1>2, <1>3, Zenon DEF Then
<1>7. /\ q \in Seq(LedCalls) /\ DOMAIN q = 1..2 + Len(b) /\ q # <<>>
      /\ q[1] = c /\ q[2] = d
      /\ \A i \in 3..2 + Len(b) : i - 2 \in DOMAIN b /\ q[i] = b[i - 2]
  <2>1. /\ q \in Seq(LedCalls) /\ Len(q) = Len(a) + Len(b) /\ DOMAIN q = 1..Len(q)
        /\ DOMAIN b = 1..Len(b)
        /\ \A i \in 1..Len(a) : q[i] = a[i]
        /\ \A i \in Len(a) + 1..Len(a) + Len(b) : q[i] = b[i - Len(a)]
    <3>1. a \in Seq(LedCalls) /\ b \in Seq(LedCalls) /\ q = a \o b
      BY <1>4, <1>5, <1>6, Zenon DEF Then
    <3> QED BY <3>1
  <2> QED BY <2>1, <1>4, <1>5
<1>8. c.do = "Clear" /\ d.do = "DoSet" /\ d.state = s
  BY <1>1
<1>9. ASSUME NEW i \in DOMAIN q, i # 1, i # 2 PROVE q[i].do = "Animate"
  <2>1. i \in 3..2 + Len(b)
    BY <1>5, <1>7, <1>9
  <2> QED BY <1>5, <1>7, <2>1
<1>10. 1 \in DOMAIN q /\ 2 \in DOMAIN q
  BY <1>5, <1>7
<1> QED BY <1>7, <1>8, <1>9, <1>10

(* Two requests.                                                           *)
LEMMA TwoRequests ==
  ASSUME NEW c \in LedCalls, NEW d \in LedCalls,
         c.do \in {"Clear", "DoSet", "Blink", "Animate"}, d.do \in {"Clear", "DoSet", "Blink", "Animate"},
         NEW r, r = <<c>> \o <<d>>
  PROVE  r \in Seq(LedCalls) /\ Requests(r)
<1>1. r \in Seq(LedCalls) /\ Len(r) = 2 /\ r[1] = c /\ r[2] = d
  OBVIOUS
<1> QED BY <1>1 DEF Requests

(* Set and Blink are requests.                                             *)
LEMMA WidgetRequests ==
  /\ \A s \in BOOLEAN : Set(s) \in Seq(LedCalls) /\ Requests(Set(s))
  /\ Blink \in Seq(LedCalls) /\ Requests(Blink)
<1>1. ASSUME NEW s \in BOOLEAN PROVE Set(s) \in Seq(LedCalls) /\ Requests(Set(s))
  <2>1. PICK c, d : c = [do |-> "Clear"] /\ d = [do |-> "DoSet", state |-> s]
    OBVIOUS
  <2>2. c \in LedCalls /\ d \in LedCalls /\ Set(s) = <<c>> \o <<d>>
    BY <2>1, CallTypes, Zenon DEF Set, DoSet
  <2>3. c.do = "Clear" /\ d.do = "DoSet"
    BY <2>1
  <2> QED BY <2>2, <2>3, TwoRequests
<1>2. Blink \in Seq(LedCalls) /\ Requests(Blink)
  <2>1. PICK c, d : c = [do |-> "Blink"] /\ d = [do |-> "Animate"]
    OBVIOUS
  <2>2. c \in LedCalls /\ d \in LedCalls /\ Blink = <<c>> \o <<d>>
    BY <2>1, CallTypes, Zenon DEF Blink, Animate
  <2>3. c.do = "Blink" /\ d.do = "Animate"
    BY <2>1
  <2> QED BY <2>2, <2>3, TwoRequests
<1> QED BY <1>1, <1>2

(* The calls of every handler of the task are requests.                    *)
LEMMA HandlerRequests ==
  ASSUME NEW t
  PROVE  /\ Requests(LedCallsOf(t))
         /\ \A s \in BOOLEAN : Requests(Set(s) \o AfterEvent(t))
         /\ Requests((Set(FALSE) \o Blink) \o AfterEvent(t))
         /\ Requests(<<>> \o AfterEvent(t))
<1>1. AfterEvent(t) \in Seq(LedCalls) /\ Requests(AfterEvent(t))
  BY AfterEventRequests
<1>2. ASSUME NEW c \in Seq(LedCalls), Requests(c) PROVE Requests(c \o AfterEvent(t))
  <2>1. PICK r : r = Then(c, AfterEvent(t))
    OBVIOUS
  <2>2. Requests(r)
    BY <1>1, <1>2, <2>1, RequestsConcat
  <2> QED BY <2>1, <2>2, Zenon DEF Then
<1>3. <<>> \in Seq(LedCalls) /\ Requests(<<>>)
  BY DEF Requests
<1>4. Set(FALSE) \o Blink \in Seq(LedCalls) /\ Requests(Set(FALSE) \o Blink)
  <2>1. PICK r : r = Then(Set(FALSE), Blink)
    OBVIOUS
  <2>2. Requests(r)
    BY WidgetRequests, <2>1, RequestsConcat
  <2>3. Set(FALSE) \o Blink \in Seq(LedCalls)
    BY CallsOfHandlers
  <2> QED BY <2>1, <2>2, <2>3, Zenon DEF Then
<1>5. Requests(<<>> \o AfterEvent(t))
  BY <1>2, <1>3, Zenon
<1>6. \A s \in BOOLEAN : Requests(Set(s) \o AfterEvent(t))
  BY <1>2, WidgetRequests, Zenon
<1>7. Requests((Set(FALSE) \o Blink) \o AfterEvent(t))
  BY <1>2, <1>4, Zenon
<1>8. Requests(LedCallsOf(t))
  <2>1. Requests(Blink \o AfterEvent(t))
    BY <1>2, WidgetRequests, Zenon
  <2>2. \/ LedCallsOf(t) = Blink \o AfterEvent(t)
        \/ LedCallsOf(t) = Set(target[t] = "Locked") \o AfterEvent(t)
        \/ LedCallsOf(t) = <<>> \o AfterEvent(t)
    BY DEF LedCallsOf
  <2>3. (target[t] = "Locked") \in BOOLEAN
    OBVIOUS
  <2> QED BY <1>5, <1>6, <2>1, <2>2, <2>3, Zenon
<1> QED BY <1>5, <1>6, <1>7, <1>8

(* A handler begins with nothing left of the one before, when the pin is   *)
(* what the widget takes it to be, and asks for requests only.             *)
LEMMA HandlerKeepsWidget ==
  ASSUME WidgetInv, AppCalls = <<>>, NEW c \in Seq(LedCalls), Requests(c), AppCalls' = c, UNCHANGED led
  PROVE  WidgetInv'
<1>1. pin = ledState /\ pin' = pin /\ ledState' = ledState
  BY DEF WidgetInv, led
<1>2. \A i \in DOMAIN AppCalls' : AppCalls'[i].do \notin {"Write", "Store"}
  BY DEF Requests
<1>3. AppCalls' # <<>> => 1 \in DOMAIN AppCalls'
  OBVIOUS
<1> QED BY <1>1, <1>2, <1>3 DEF WidgetInv

(* The step of a handler that changes neither the door nor whether it      *)
(* moves, and asks at most for the animation after an event.               *)
LEMMA QuietHandlerShows ==
  ASSUME AppCalls = <<>>, NEW c, AppCalls' = c, \A i \in DOMAIN c : c[i].do = "Animate",
         UNCHANGED led, NEW locked, Shows(locked)
  PROVE  Shows(locked)'
<1>1. pin' = locked /\ ~blinking'
  BY DEF Shows, led
<1>2. \A i \in DOMAIN AppCalls' : AppCalls'[i].do = "Animate"
  OBVIOUS
<1> QED BY <1>1, <1>2 DEF Shows

(* Set shows what it sets, whatever the LED did before.                    *)
LEMMA SetShows ==
  ASSUME NEW locked \in BOOLEAN, AppCalls' = Set(locked) \o AfterEvent("app")
  PROVE  Shows(locked)'
<1>1. PICK q : q = Set(locked) \o AfterEvent("app")
  OBVIOUS
<1>2. /\ q # <<>> /\ q[1].do = "Clear" /\ 2 \in DOMAIN q /\ q[2].do = "DoSet" /\ q[2].state = locked
      /\ \A i \in DOMAIN q : i # 1 /\ i # 2 => q[i].do = "Animate"
  BY <1>1, SetRequests
<1>3. AppCalls' = q
  BY <1>1, Zenon
<1> QED BY <1>2, <1>3 DEF Shows

(* A step of the application task that belongs to the lock keeps what the  *)
(* LED shows: ActionCompleted sets it to the position the door has         *)
(* reached, and it only blinks for a movement that has begun.              *)
LEMMA AppLockStepShows ==
  ASSUME LedShownInv, ButtonInv', LockStep("app")
  PROVE  WidgetInv' /\ ShownInv'
<1>a. /\ ledCalls \in [Threads -> Seq(LedCalls)] /\ "app" \in Threads
      /\ mState \in States /\ pc \in [Threads -> PCs] /\ target["app"] \in Positions
  BY DEF LedShownInv, LedInv, LedTypeOK, ButtonInv, TypeOK, Threads
<1>1. AppCalls = <<>> /\ UNCHANGED <<led, window>> /\ AppCalls' = LedCallsOf("app")
  BY <1>a DEF LockStep, AppCalls
<1>2. LedCallsOf("app") \in Seq(LedCalls) /\ Requests(LedCallsOf("app"))
  BY CallsOfHandlers, HandlerRequests
<1>3. WidgetInv'
  BY <1>1, <1>2, HandlerKeepsWidget DEF LedShownInv
<1>4. CASE pc["app"] = "complete"
  <2>1. CompleteAction
    BY <1>4 DEF LockStep, ThreadStep, InitiateAction, CheckState, StartTimer, UpdateState,
                ActionInitiated, AppStep, TakeEvent, ShortPress, ChooseCompletion, ActionCompleted, ClearSync
  <2>2. DoorPosition' = target["app"]
    BY <1>a, <2>1, DoorOfState DEF CompleteAction
  <2>3. PICK locked \in BOOLEAN : locked = (target["app"] = "Locked")
    OBVIOUS
  <2>4. AppCalls' = Set(locked) \o AfterEvent("app")
    BY <1>1, <1>4, <2>3 DEF LedCallsOf
  <2>5. Shows(locked)'
    BY <2>4, SetShows
  <2>6. locked = (DoorPosition' = "Locked")
    BY <2>2, <2>3
  <2> QED BY <1>3, <2>5, <2>6 DEF ShownInv
<1>5. CASE pc["app"] = "callback"
  <2>1. ActionInitiated("app")
    BY <1>5 DEF LockStep, ThreadStep, InitiateAction, CheckState, StartTimer, UpdateState,
                AppStep, TakeEvent, ShortPress, ChooseCompletion, CompleteAction, ActionCompleted, ClearSync
  <2>2. IsActionInProgress'
    BY <1>a, <1>5, <2>1, InProgress DEF LedShownInv, ButtonInv, ActionInitiated, IsActionInProgress
  <2> QED BY <1>3, <2>2 DEF ShownInv
<1>6. CASE pc["app"] = "set"
  <2>1. UpdateState("app")
    BY <1>6 DEF LockStep, ThreadStep, InitiateAction, CheckState, StartTimer, ActionInitiated,
                AppStep, TakeEvent, ShortPress, ChooseCompletion, CompleteAction, ActionCompleted, ClearSync
  <2>2. IsActionInProgress'
    BY <1>a, <2>1 DEF UpdateState, Initiated, IsActionInProgress
  <2> QED BY <1>3, <2>2 DEF ShownInv
<1>7. CASE pc["app"] \notin {"complete", "callback", "set"}
  <2>1. mState' = mState
    BY <1>7 DEF LockStep, ThreadStep, InitiateAction, CheckState, StartTimer, UpdateState, ActionInitiated,
                AppStep, TakeEvent, ShortPress, ChooseCompletion, CompleteAction, ActionCompleted, ClearSync
  <2>2. AppCalls' = <<>> \o AfterEvent("app")
    BY <1>1, <1>7 DEF LedCallsOf
  <2>3. PICK q : q = <<>> \o AfterEvent("app")
    OBVIOUS
  <2>4. \A i \in DOMAIN q : q[i].do = "Animate"
    <3>1. AfterEvent("app") = Animate \/ AfterEvent("app") = <<>>
      BY DEF AfterEvent
    <3>2. q = <<>> \o <<[do |-> "Animate"]>> \/ q = <<>> \o <<>>
      BY <2>3, <3>1, Zenon DEF Animate
    <3> QED BY <3>2
  <2>5. AppCalls' = q
    BY <2>2, <2>3, Zenon
  <2>6. PICK locked \in BOOLEAN : locked = (DoorPosition = "Locked")
    OBVIOUS
  <2>7. locked = (DoorPosition' = "Locked") /\ (IsActionInProgress' <=> IsActionInProgress)
    BY <2>1, <2>6 DEF DoorPosition, IsActionInProgress
  <2>8. Shows(locked) => Shows(locked)'
    BY <1>1, <2>4, <2>5, QuietHandlerShows
  <2>9. window' = window
    BY <1>1
  <2>10. ASSUME window' = "closed", ~IsActionInProgress' PROVE Shows(locked)
    BY <2>6, <2>7, <2>9, <2>10 DEF LedShownInv, ShownInv
  <2>11. ShownInv'
    BY <2>7, <2>8, <2>10 DEF ShownInv
  <2> QED BY <1>3, <2>11
<1> QED BY <1>4, <1>5, <1>6, <1>7

(* A handler of the cancel window keeps it too: the cancelled reset sets   *)
(* the LED back to the state of the lock.                                  *)
LEMMA WindowShows ==
  ASSUME LedShownInv, OpenWindow \/ CancelWindow \/ TriggerReset
  PROVE  WidgetInv' /\ ShownInv'
<1>a. ledCalls \in [Threads -> Seq(LedCalls)] /\ "app" \in Threads /\ mState \in States
  BY DEF LedShownInv, LedInv, LedTypeOK, ButtonInv, TypeOK, Threads
<1>1. AppCalls = <<>> /\ UNCHANGED led /\ mState' = mState
  BY DEF OpenWindow, CancelWindow, TriggerReset, WindowHandler, TakeEvent, AppCalls
<1>2. CASE OpenWindow
  <2>1. PICK q : q = (Set(FALSE) \o Blink) \o AfterEvent("app")
    OBVIOUS
  <2>2. q \in Seq(LedCalls) /\ Requests(q)
    <3>1. Set(FALSE) \o Blink \in Seq(LedCalls) /\ Within(Set(FALSE) \o Blink, 4)
      BY CallsOfHandlers
    <3>2. (Set(FALSE) \o Blink) \o AfterEvent("app") \in Seq(LedCalls)
      BY <3>1, EventCalls
    <3>3. Requests((Set(FALSE) \o Blink) \o AfterEvent("app"))
      BY HandlerRequests
    <3> QED BY <2>1, <3>2, <3>3, Zenon
  <2>3. AppCalls' = q /\ window' = "open"
    BY <1>a, <1>2, <2>1 DEF OpenWindow, WindowHandler, AppCalls
  <2>4. WidgetInv'
    BY <1>1, <2>2, <2>3, HandlerKeepsWidget DEF LedShownInv
  <2> QED BY <2>3, <2>4 DEF ShownInv
<1>3. CASE CancelWindow
  <2>1. PICK locked \in BOOLEAN : locked = ~NextState
    OBVIOUS
  <2>2. PICK q : q = Set(locked) \o AfterEvent("app")
    OBVIOUS
  <2>3. q \in Seq(LedCalls) /\ Requests(q)
    <3>1. q \in Seq(LedCalls)
      BY <2>2, SetRequests
    <3>2. Requests(Set(locked) \o AfterEvent("app"))
      BY HandlerRequests
    <3> QED BY <2>2, <3>1, <3>2, Zenon
  <2>4. AppCalls' = CancelledLed \o AfterEvent("app")
    BY <1>a, <1>3 DEF CancelWindow, WindowHandler, AppCalls
  <2>5. CancelledLed = Set(locked)
    BY <2>1 DEF CancelledLed
  <2>6. AppCalls' = q
    BY <2>2, <2>4, <2>5, Zenon
  <2>7. WidgetInv'
    BY <1>1, <2>3, <2>6, HandlerKeepsWidget DEF LedShownInv
  <2>8. Shows(locked)'
    BY <2>2, <2>6, SetShows
  <2>9. ~IsActionInProgress' => locked = (DoorPosition' = "Locked")
    BY <1>a, <1>1, <2>1 DEF IsActionInProgress, NextState, DoorPosition, States
  <2> QED BY <2>7, <2>8, <2>9 DEF ShownInv
<1>4. CASE TriggerReset
  <2>1. PICK q : q = <<>> \o AfterEvent("app")
    OBVIOUS
  <2>2. q \in Seq(LedCalls) /\ Requests(q)
    <3>1. <<>> \in Seq(LedCalls) /\ Within(<<>>, 4)
      BY DEF Within
    <3>2. <<>> \o AfterEvent("app") \in Seq(LedCalls)
      BY <3>1, EventCalls
    <3>3. Requests(<<>> \o AfterEvent("app"))
      BY HandlerRequests
    <3> QED BY <2>1, <3>2, <3>3, Zenon
  <2>3. AppCalls' = q /\ window' = "reset"
    BY <1>a, <1>4, <2>1 DEF TriggerReset, WindowHandler, AppCalls
  <2>4. WidgetInv'
    BY <1>1, <2>2, <2>3, HandlerKeepsWidget DEF LedShownInv
  <2> QED BY <2>3, <2>4 DEF ShownInv
<1> QED BY <1>2, <1>3, <1>4

(* What leaves the LED, its calls, the window and mState alone.            *)
LEMMA ElsewhereShows ==
  ASSUME LedShownInv, UNCHANGED <<pin, ledState, blinking, AppCalls, window, mState>>
  PROVE  WidgetInv' /\ ShownInv'
  BY DEF LedShownInv, WidgetInv, ShownInv, Shows, DoorPosition, IsActionInProgress

(* Every step of the button build keeps the invariant.                     *)
LEMMA LedShownStep == LedShownInv /\ [LocalNext]_ledVars => LedShownInv'
<1> SUFFICES ASSUME LedShownInv, [LocalNext]_ledVars PROVE LedShownInv'
  OBVIOUS
<1>a. LedInv' /\ ButtonInv'
  BY LedInvStep, LocalNextIsLocalStep, ButtonStep, StatusLedAssumption DEF LedShownInv, LedNext
<1>b. /\ ledCalls \in [Threads -> Seq(LedCalls)] /\ "app" \in Threads
      /\ \A t \in Threads : t # "app" => ledCalls[t] = <<>>
      /\ pc["display"] = "idle" /\ pc["chip"] \in {"idle", "write"}
  BY DEF LedShownInv, LedInv, LedTypeOK, ButtonInv, Threads
<1> SUFFICES (\A t \in Threads : t # "app" => ledCalls'[t] = <<>>) /\ WidgetInv' /\ ShownInv'
  BY <1>a DEF LedShownInv
<1>1. CASE LockStep("app")
  BY <1>a, <1>b, <1>1, AppLockStepShows DEF LockStep
<1>2. ASSUME NEW t \in Threads, t # "app", LockStep(t)
      PROVE  (\A s \in Threads : s # "app" => ledCalls'[s] = <<>>) /\ WidgetInv' /\ ShownInv'
  <2>1. LedCallsOf(t) = <<>> \o <<>>
    BY <1>b, <1>2 DEF LedCallsOf, AfterEvent, Threads
  <2>2. LedCallsOf(t) = <<>>
    BY <2>1
  <2>3. AppCalls' = AppCalls /\ \A s \in Threads : s # "app" => ledCalls'[s] = <<>>
    BY <1>b, <1>2, <2>2 DEF LockStep, AppCalls
  <2>4. mState' = mState
    BY <1>b, <1>2 DEF LockStep, ThreadStep, InitiateAction, CheckState, StartTimer, UpdateState,
                      ActionInitiated, ChipStep, UpdateCluster, SetLockState, Threads
  <2>5. UNCHANGED <<pin, ledState, blinking, AppCalls, window, mState>>
    BY <1>2, <2>3, <2>4 DEF LockStep, led
  <2> QED BY <2>3, <2>5, ElsewhereShows
<1>3. ASSUME NEW t \in Threads, LedStep(t)
      PROVE  (\A s \in Threads : s # "app" => ledCalls'[s] = <<>>) /\ WidgetInv' /\ ShownInv'
  <2>1. t = "app"
    BY <1>b, <1>3 DEF LedStep, ClearTimes, SetTimes, AnimateLed, NoteTime, Compare, WritePin,
                      StoreState, Calls
  <2>2. /\ UNCHANGED <<vars, window>>
        /\ \A s \in Threads : s # "app" => ledCalls'[s] = ledCalls[s]
    BY <1>b, <1>3, <2>1 DEF LedStep, ClearTimes, SetTimes, AnimateLed, NoteTime, Compare, WritePin,
                      StoreState, Continue
  <2>3. PICK locked \in BOOLEAN : locked = (DoorPosition = "Locked")
    OBVIOUS
  <2>4. WidgetInv' /\ (Shows(locked) => Shows(locked)')
    BY <1>3, <2>1, AccessShows DEF LedShownInv
  <2>5. locked = (DoorPosition' = "Locked") /\ (IsActionInProgress' <=> IsActionInProgress)
    BY <2>2, <2>3 DEF DoorPosition, IsActionInProgress, vars
  <2>6. ASSUME window' = "closed", ~IsActionInProgress' PROVE Shows(locked)
    BY <2>2, <2>3, <2>5, <2>6 DEF LedShownInv, ShownInv
  <2>7. ShownInv'
    BY <2>4, <2>5, <2>6 DEF ShownInv
  <2> QED BY <1>b, <2>2, <2>4, <2>7
<1>4. CASE OpenWindow \/ CancelWindow \/ TriggerReset
  <2>1. \A s \in Threads : s # "app" => ledCalls'[s] = <<>>
    BY <1>b, <1>4 DEF OpenWindow, CancelWindow, TriggerReset, WindowHandler
  <2> QED BY <1>4, <2>1, WindowShows
<1>5. CASE LockTimer \/ PostOther \/ BlinkTimePasses \/ UNCHANGED ledVars
  <2>1. UNCHANGED <<pin, ledState, blinking, ledCalls, window, mState>>
    BY <1>5 DEF LockTimer, PostOther, BlinkTimePasses, ledVars, led, vars, TimerExpires, OtherEvent
  <2>2. AppCalls' = AppCalls
    BY <2>1 DEF AppCalls
  <2> QED BY <1>b, <2>1, <2>2, ElsewhereShows
<1> QED BY <1>1, <1>2, <1>3, <1>4, <1>5 DEF LocalNext

(* The LED of the button build shows where the door is: at rest, with no   *)
(* factory reset about, it is on if the door is locked and off if it is    *)
(* not, and does not blink - for any number of presses, short or long, at  *)
(* any moment, and however long a handler takes (LEDWidget.cpp,            *)
(* AppTask.cpp).  With remote commands it need not: run led_race.          *)
THEOREM LedOfTheButtonBuild == ButtonSpec => [](LedShowsDoor /\ LedTypeOK)
<1>1. LedShownInv => LedTypeOK
  BY DEF LedShownInv, LedInv
<1> QED BY LedShownInit, LedShownStep, LedShownImplies, <1>1, PTL DEF ButtonSpec
=============================================================================
