-------------------------- MODULE Joystickd_proofs --------------------------
(* Theorems about joystickd, for any axes and buttons and any queue bounds. *)
EXTENDS Joystickd, SequenceTheorems, TLAPS

USE DEF mainVars, userVars, mqttVars, vars

-----------------------------------------------------------------------------
(* Facts about the tables and the events.                                  *)

\* No two deflections steer to the same state, and none steers to STOP.
LEMMA TowardsInjective ==
  ASSUME NEW a \in 0..2, NEW b \in 0..2,
         NEW p \in {"low", "high"}, NEW q \in {"low", "high"}
  PROVE  /\ Towards[a][p] \in SteerStates \ {"STOP"}
         /\ Towards[a][p] = Towards[b][q] => a = b /\ p = q
<1>1. /\ Towards[0] = [low |-> "LEFT", high |-> "RIGHT"]
      /\ Towards[1] = [low |-> "FORWARD", high |-> "BACKWARD"]
      /\ Towards[2] = [low |-> "ROTATE_LEFT", high |-> "ROTATE_RIGHT"]
  BY DEF Towards
<1>2. a \in {0, 1, 2} /\ b \in {0, 1, 2}
  OBVIOUS
<1> QED
  BY <1>1, <1>2 DEF SteerStates

\* What eventAxis() leaves behind: a state.
LEMMA SteerType ==
  ASSUME NEW s \in SteerStates, NEW a \in 0..2, NEW p \in Positions
  PROVE  Steer(s, a, p) \in SteerStates
BY TowardsInjective, InputsAssumption DEF Steer, SteerStates

\* The message of a state is a topic.
LEMMA SubtopicType ==
  ASSUME NEW s \in SteerStates
  PROVE  Subtopic[s] \in Topics
BY DEF Topics

\* Every event the model makes is one of Events.
LEMMA EventTypes ==
  /\ InitEvent \in Events
  /\ \A a \in Axes, p \in Positions :
       [type |-> "axis", number |-> a, value |-> p] \in Events
  /\ \A b \in Buttons, v \in {"pressed", "released"} :
       [type |-> "button", number |-> b, value |-> v] \in Events
BY DEF Events, AxisEvents, ButtonEvents, InitEvent

\* An event on an axis carries a position of that axis.
LEMMA AxisEventType ==
  ASSUME NEW e \in Events, e.type = "axis"
  PROVE  e.number \in Axes /\ e.number \in 0..2 /\ e.value \in Positions
<1>1. e \notin ButtonEvents
  BY DEF ButtonEvents
<1>2. e # InitEvent
  BY DEF InitEvent
<1>3. e \in AxisEvents
  BY <1>1, <1>2 DEF Events
<1> QED
  BY <1>3, InputsAssumption DEF AxisEvents

\* A list without its first element, and one without its last.
LEMMA WithoutFirst ==
  ASSUME NEW S, NEW s \in Seq(S), s # <<>>
  PROVE  /\ 1 \in DOMAIN s
         /\ Tail(s) = SubSeq(s, 1, 1 - 1) \o SubSeq(s, 1 + 1, Len(s))
<1>1. Len(s) \in Nat \ {0} /\ DOMAIN s = 1..Len(s)
  BY LenProperties, EmptySeq
<1>2. SubSeq(s, 1, 0) = <<>>
  BY SubSeqEmpty
<1>3. Tail(s) = SubSeq(s, 2, Len(s)) /\ Tail(s) \in Seq(S)
  BY TailIsSubSeq, HeadTailProperties
<1>4. <<>> \o Tail(s) = Tail(s)
  BY <1>3, ConcatEmptySeq
<1> QED
  BY <1>1, <1>2, <1>3, <1>4

LEMMA WithoutLast ==
  ASSUME NEW S, NEW s \in Seq(S), NEW e \in S, NEW t, t = Append(s, e)
  PROVE  /\ Len(t) \in DOMAIN t
         /\ s = SubSeq(t, 1, Len(t) - 1) \o SubSeq(t, Len(t) + 1, Len(t))
<1>1. Len(s) \in Nat /\ Len(t) = Len(s) + 1 /\ DOMAIN t = 1..Len(t)
      /\ t \in Seq(S) /\ \A i \in 1..Len(s) : t[i] = s[i]
  BY AppendProperties, LenProperties
<1>2. SubSeq(t, Len(t) + 1, Len(t)) = <<>>
  BY <1>1, SubSeqEmpty
<1>3. SubSeq(t, 1, Len(t) - 1) = s
  <2>1. \A i \in 1..Len(s) : t[i] \in S
    BY <1>1, ElementOfSeq
  <2>2. /\ SubSeq(t, 1, Len(s)) \in Seq(S)
        /\ Len(SubSeq(t, 1, Len(s))) = IF 1 <= Len(s) THEN Len(s) - 1 + 1 ELSE 0
        /\ \A i \in 1..Len(s) - 1 + 1 : SubSeq(t, 1, Len(s))[i] = t[1 + i - 1]
    BY <1>1, <2>1, SubSeqProperties
  <2>3. Len(SubSeq(t, 1, Len(s))) = Len(s)
    BY <1>1, <2>2
  <2>4. \A i \in 1..Len(s) : SubSeq(t, 1, Len(s))[i] = s[i]
    BY <1>1, <2>2
  <2>5. SubSeq(t, 1, Len(s)) = s
    BY <2>2, <2>3, <2>4, SeqEqual
  <2> QED
    BY <1>1, <2>5
<1>4. s \o <<>> = s
  BY ConcatEmptySeq
<1> QED
  BY <1>1, <1>2, <1>3, <1>4

-----------------------------------------------------------------------------
(* Types.                                                                  *)

\* The variables start with their types.
LEMMA TypeInit == Init => TypeOK
<1> SUFFICES ASSUME Init PROVE TypeOK
  OBVIOUS
<1> USE DEF Init
<1>1. event \in Events /\ state \in SteerStates /\ command \in SteerStates
  BY EventTypes DEF SteerStates
<1>2. stick \in [Axes -> Positions]
  BY InputsAssumption
<1>3. pending \in Seq(Events) /\ Len(pending) <= MaxPending
  BY BoundsAssumption
<1>4. /\ outbox \in Seq(Subscription) /\ inflight \in Seq(Subscription)
      /\ Len(outbox) + Len(inflight) <= MaxOutbox
      /\ wire \in Seq(Subscription) /\ Len(wire) <= MaxWire
  <2>1. /\ outbox \in Seq(Subscription) /\ inflight \in Seq(Subscription)
        /\ wire \in Seq(Subscription)
    OBVIOUS
  <2>2. Len(outbox) = 0 /\ Len(inflight) = 0 /\ Len(wire) = 0
    OBVIOUS
  <2>3. MaxOutbox \in Nat /\ MaxWire \in Nat
    BY BoundsAssumption
  <2> HIDE DEF Init
  <2> QED
    BY <2>1, <2>2, <2>3
<1> QED
  BY <1>1, <1>2, <1>3, <1>4 DEF TypeOK

\* What the user does is one event, and the kernel's queue is bounded.
LEMMA UserType ==
  ASSUME TypeOK, User
  PROVE  TypeOK'
<1> USE DEF TypeOK
<1>1. ASSUME NEW e \in Events, Report(e)
      PROVE  pending' \in Seq(Events) /\ Len(pending') <= MaxPending
  <2>1. pending \in Seq(Events) /\ Len(pending) <= MaxPending
    OBVIOUS
  <2> HIDE DEF TypeOK
  <2>2. CASE IsOpen
    <3>1. Len(pending) < MaxPending /\ pending' = Append(pending, e)
      BY <1>1, <2>2 DEF Report
    <3>2. pending' \in Seq(Events) /\ Len(pending') = Len(pending) + 1
      BY <2>1, <3>1, AppendProperties
    <3>3. Len(pending) \in Nat /\ MaxPending \in Nat
      BY <2>1, BoundsAssumption
    <3> QED
      BY <3>1, <3>2, <3>3
  <2>3. CASE ~IsOpen
    BY <1>1, <2>1, <2>3 DEF Report
  <2> QED
    BY <2>2, <2>3
<1>2. ASSUME NEW a \in Axes, NEW p \in Positions, MoveStick(a, p)
      PROVE  TypeOK'
  BY <1>1, <1>2, EventTypes DEF MoveStick
<1>3. ASSUME NEW b \in Buttons, PressButton(b)
      PROVE  TypeOK'
  BY <1>1, <1>3, EventTypes DEF PressButton
<1>4. ASSUME NEW b \in Buttons, ReleaseButton(b)
      PROVE  TypeOK'
  BY <1>1, <1>4, EventTypes DEF ReleaseButton
<1>5. CASE Unplug
  BY <1>5 DEF Unplug
<1> QED
  BY <1>2, <1>3, <1>4, <1>5 DEF User

\* The library takes a message only if it has room for it.
LEMMA SentType ==
  ASSUME TypeOK, NEW message, Sent(message)
  PROVE  outbox' \in Seq(Subscription) /\ Len(outbox') + Len(inflight) <= MaxOutbox
<1>1. /\ outbox \in Seq(Subscription) /\ inflight \in Seq(Subscription)
      /\ Len(outbox) + Len(inflight) <= MaxOutbox
      /\ Len(outbox) \in Nat /\ Len(inflight) \in Nat /\ MaxOutbox \in Nat
  BY BoundsAssumption DEF TypeOK
<1>2. CASE message \in Subscription
  <2>1. Len(outbox) + Len(inflight) < MaxOutbox /\ outbox' = Append(outbox, message)
    BY <1>2 DEF Sent
  <2>2. outbox' \in Seq(Subscription) /\ Len(outbox') = Len(outbox) + 1
    BY <1>1, <1>2, <2>1, AppendProperties
  <2> QED
    BY <1>1, <2>1, <2>2
<1>3. CASE message \notin Subscription
  BY <1>1, <1>3 DEF Sent
<1> QED
  BY <1>2, <1>3

\* The reader thread hands Steering the positions of axes only.
LEMMA ReaderType ==
  ASSUME TypeOK, Read \/ ReadFails \/ Handle
  PROVE  TypeOK'
<1> USE DEF TypeOK
<1>1. CASE Read
  BY <1>1, BoundsAssumption DEF Read
<1>2. CASE ReadFails
  BY <1>2 DEF ReadFails
<1>3. CASE Handle
  <2>1. CASE HandleAxis
    BY <1>3, <2>1, AxisEventType, SteerType DEF Handle, HandleAxis
  <2>2. CASE HandleButton
    <3>1. lamp' \in Payloads \cup {"unset"}
      BY <2>2 DEF HandleButton, SwitchMessage, Payloads
    <3>2. outbox' \in Seq(Subscription) /\ Len(outbox') + Len(inflight) <= MaxOutbox
      BY <2>2, SentType DEF HandleButton
    <3> QED
      BY <1>3, <2>2, <3>1, <3>2 DEF Handle, HandleButton
  <2>3. CASE DiscardEvent
    BY <1>3, <2>3 DEF Handle, DiscardEvent
  <2> QED
    BY <1>3, <2>1, <2>2, <2>3 DEF Handle
<1> QED
  BY <1>1, <1>2, <1>3

\* The main thread publishes what has a topic.
LEMMA MainType ==
  ASSUME TypeOK,
         \/ ParseArgs \/ Usage
         \/ Open \/ OpenFails \/ Register \/ Process \/ Publish \/ Drop \/ Exited
  PROVE  TypeOK'
<1> USE DEF TypeOK
<1>1. CASE Open
  BY <1>1, BoundsAssumption, EventTypes DEF Open, StartReaderThread
<1>2. CASE OpenFails
  BY <1>2 DEF OpenFails
<1>3. CASE Register
  BY <1>3 DEF Register, RegisterEventReceiver
<1>4. CASE Process
  BY <1>4 DEF Process
<1>5. CASE Publish
  BY <1>5, SentType DEF Publish
<1>6. CASE Drop
  BY <1>6 DEF Drop
<1>7. CASE Exited
  BY <1>7 DEF Exited
<1>8. CASE ParseArgs \/ Usage
  BY <1>8 DEF ParseArgs, Usage
<1> QED
  BY <1>1, <1>2, <1>3, <1>4, <1>5, <1>6, <1>7, <1>8

\* What the library keeps is as much after a delivery as before, and after a lost
\* session as well.
LEMMA NetType ==
  ASSUME TypeOK, Deliver \/ Acknowledge \/ Reconnect
  PROVE  TypeOK'
<1>1. /\ outbox \in Seq(Subscription) /\ inflight \in Seq(Subscription)
      /\ wire \in Seq(Subscription)
      /\ Len(outbox) + Len(inflight) <= MaxOutbox /\ Len(wire) <= MaxWire
      /\ Len(outbox) \in Nat /\ Len(inflight) \in Nat /\ Len(wire) \in Nat
      /\ MaxOutbox \in Nat /\ MaxWire \in Nat
  BY BoundsAssumption DEF TypeOK
<1>2. /\ outbox' \in Seq(Subscription) /\ inflight' \in Seq(Subscription)
      /\ wire' \in Seq(Subscription)
      /\ Len(outbox') + Len(inflight') <= MaxOutbox /\ Len(wire') <= MaxWire
  <2>1. CASE Deliver
    <3> DEFINE m == Head(outbox)
    <3>1. /\ outbox # <<>> /\ Len(wire) < MaxWire /\ outbox' = Tail(outbox)
          /\ inflight' = Append(inflight, m) /\ wire' = Append(wire, m)
      BY <2>1 DEF Deliver
    <3>2. /\ m \in Subscription /\ outbox' \in Seq(Subscription)
          /\ Len(outbox') = Len(outbox) - 1
      BY <1>1, <3>1, HeadTailProperties
    <3> HIDE DEF m
    <3>3. inflight' \in Seq(Subscription) /\ Len(inflight') = Len(inflight) + 1
      BY <1>1, <3>1, <3>2, AppendProperties
    <3>4. wire' \in Seq(Subscription) /\ Len(wire') = Len(wire) + 1
      BY <1>1, <3>1, <3>2, AppendProperties
    <3> QED
      BY <1>1, <3>1, <3>2, <3>3, <3>4
  <2>2. CASE Acknowledge
    <3>1. inflight # <<>> /\ inflight' = Tail(inflight) /\ UNCHANGED <<outbox, wire>>
      BY <2>2 DEF Acknowledge
    <3>2. inflight' \in Seq(Subscription) /\ Len(inflight') = Len(inflight) - 1
      BY <1>1, <3>1, HeadTailProperties
    <3> QED
      BY <1>1, <3>1, <3>2
  <2>3. CASE Reconnect
    <3>1. outbox' = inflight \o outbox /\ inflight' = <<>> /\ UNCHANGED wire
      BY <2>3 DEF Reconnect
    <3>2. outbox' \in Seq(Subscription) /\ Len(outbox') = Len(inflight) + Len(outbox)
      BY <1>1, <3>1, ConcatProperties
    <3>3. inflight' \in Seq(Subscription) /\ Len(inflight') = 0
      BY <3>1
    <3> QED
      BY <1>1, <3>1, <3>2, <3>3
  <2> QED
    BY <2>1, <2>2, <2>3
<1>3. UNCHANGED <<mainVars, reader, event, state, userVars, pending, lamp>>
  BY DEF Deliver, Acknowledge, Reconnect
<1> QED
  BY <1>2, <1>3 DEF TypeOK

\* No step of the daemon or of its user disturbs a type.
LEMMA TypeStep == TypeOK /\ [Next]_vars => TypeOK'
<1>1. TypeOK /\ UNCHANGED vars => TypeOK'
  BY DEF TypeOK
<1> QED
  BY <1>1, UserType, ReaderType, MainType, NetType DEF Next

\* Every variable keeps its type; in particular Steering::state is always one
\* that process() has a case for (Steering.cpp:104-137).
THEOREM JoystickdType == Spec => []TypeOK
BY TypeInit, TypeStep, PTL DEF Spec

-----------------------------------------------------------------------------
(* The stick: one lemma per part of Next.                                  *)

\* The stick is at rest and Steering at STOP.
LEMMA ReportInit == Init => ReportInv
BY TypeInit, TowardsInjective, InputsAssumption
   DEF Init, ReportInv, LastReport, HeldReport, NoReport, BeforeRegistration,
       IsOpen, Awaited, OnAxis, InitEvent

\* Before Steering is registered it stands still, so the stick may be anywhere.
LEMMA StillBefore ==
  ASSUME ReportInv, ~receiver, NEW a \in Axes, NEW p \in {"low", "high"}
  PROVE  state # Towards[a][p]
BY TowardsInjective, InputsAssumption DEF ReportInv, BeforeRegistration

\* A report that is queued is the last one on its axis, and says where the
\* stick is now.
LEMMA MoveReport ==
  ASSUME ReportInv, NEW b \in Axes, NEW v \in Positions, MoveStick(b, v)
  PROVE  ReportInv'
<1> DEFINE e == [type |-> "axis", number |-> b, value |-> v]
<1>0. TypeOK'
  BY UserType DEF User, ReportInv
<1>1. TypeOK /\ plugged /\ stick' = [stick EXCEPT ![b] = v]
      /\ UNCHANGED <<main, receiver, reader, event, state, plugged>>
  BY DEF MoveStick, Report, ReportInv
<1>2. CASE IsOpen
  <2>1. pending' = Append(pending, e) /\ pending \in Seq(Events) /\ e \in Events
    BY <1>1, <1>2, EventTypes DEF MoveStick, Report, TypeOK
  <2>2. /\ DOMAIN pending' = 1..Len(pending) + 1
        /\ DOMAIN pending = 1..Len(pending)
        /\ pending'[Len(pending) + 1] = e
        /\ \A i \in 1..Len(pending) : pending'[i] = pending[i]
        /\ Len(pending) \in Nat
    BY <2>1
  <2>3. \A a \in Axes : OnAxis(e, a) <=> a = b
    BY DEF OnAxis
  <2>4. \A a \in Axes : Awaited(a)' <=> Awaited(a) \/ a = b
    BY <2>2, <2>3 DEF Awaited, OnAxis
  <2>5. \A a \in Axes : stick'[a] = IF a = b THEN v ELSE stick[a]
    BY <1>1 DEF TypeOK
  <2>6. LastReport'
    BY <1>1, <2>2, <2>3, <2>5 DEF LastReport, ReportInv, OnAxis
  <2>7. HeldReport'
    BY <1>1, <2>4, <2>5 DEF HeldReport, ReportInv, OnAxis
  <2>8. NoReport'
    BY <1>1, <2>4, <2>5 DEF NoReport, ReportInv, OnAxis
  <2>9. BeforeRegistration'
    BY <1>1, <1>2 DEF BeforeRegistration, ReportInv, IsOpen
  <2> QED
    BY <1>0, <2>6, <2>7, <2>8, <2>9 DEF ReportInv
<1>3. CASE ~IsOpen
  <2>1. pending' = <<>> /\ ~receiver /\ reader # "handle"
    BY <1>3 DEF MoveStick, Report, ReportInv, BeforeRegistration, IsOpen
  <2>2. LastReport' /\ HeldReport'
    BY <1>1, <2>1 DEF LastReport, HeldReport
  <2>3. NoReport'
    BY <1>1, <2>1, StillBefore DEF NoReport
  <2>4. BeforeRegistration'
    BY <1>1, <1>3, <2>1 DEF BeforeRegistration, ReportInv, IsOpen
  <2> QED
    BY <1>0, <2>2, <2>3, <2>4 DEF ReportInv
<1> QED
  BY <1>2, <1>3

\* Buttons do not move the stick.
LEMMA ButtonInv ==
  ASSUME ReportInv, NEW b \in Buttons, PressButton(b) \/ ReleaseButton(b)
  PROVE  ReportInv'
<1>0. TypeOK'
  BY UserType DEF User, ReportInv
<1>1. PICK e \in ButtonEvents : Report(e)
  BY DEF PressButton, ReleaseButton, ButtonEvents
<1>2. TypeOK /\ UNCHANGED <<main, receiver, reader, event, state, plugged, stick>>
  BY DEF PressButton, ReleaseButton, ReportInv
<1>3. CASE IsOpen
  <2>1. pending' = Append(pending, e) /\ pending \in Seq(Events) /\ e \in Events
    BY <1>1, <1>2, <1>3 DEF Report, TypeOK, Events
  <2>2. /\ DOMAIN pending' = 1..Len(pending) + 1
        /\ DOMAIN pending = 1..Len(pending)
        /\ pending'[Len(pending) + 1] = e
        /\ \A i \in 1..Len(pending) : pending'[i] = pending[i]
        /\ Len(pending) \in Nat
    BY <2>1
  <2>3. \A a \in Axes : ~OnAxis(e, a)
    BY DEF OnAxis, ButtonEvents
  <2>4. \A a \in Axes : Awaited(a)' <=> Awaited(a)
    BY <2>2, <2>3 DEF Awaited, OnAxis
  <2>5. LastReport'
    BY <1>2, <2>2, <2>3 DEF LastReport, ReportInv, OnAxis
  <2>6. HeldReport' /\ NoReport'
    BY <1>2, <2>4 DEF HeldReport, NoReport, ReportInv, OnAxis
  <2>7. BeforeRegistration'
    BY <1>2, <1>3 DEF BeforeRegistration, ReportInv, IsOpen
  <2> QED
    BY <1>0, <2>5, <2>6, <2>7 DEF ReportInv
<1>4. CASE ~IsOpen
  BY <1>0, <1>1, <1>2, <1>4
     DEF Report, ReportInv, LastReport, HeldReport, NoReport,
         BeforeRegistration, IsOpen, Awaited, OnAxis
<1> QED
  BY <1>3, <1>4

\* Nothing is claimed of a joystick that is unplugged.
LEMMA UserInv == ASSUME ReportInv, User PROVE ReportInv'
<1>1. CASE Unplug
  <2>1. TypeOK'
    BY <1>1, UserType DEF User, ReportInv
  <2> QED
    BY <1>1, <2>1 DEF Unplug, ReportInv, LastReport, HeldReport, NoReport,
         BeforeRegistration, IsOpen
<1> QED
  BY <1>1, MoveReport, ButtonInv DEF User

\* Reading an event turns the oldest report under way into the one held.
LEMMA ReadInv == ASSUME ReportInv, Read PROVE ReportInv'
<1>0. TypeOK'
  BY ReaderType DEF ReportInv
<1>1. TypeOK /\ pending # <<>> /\ event' = Head(pending)
      /\ pending' = Tail(pending) /\ plugged
      /\ reader = "read" /\ reader' = "handle"
      /\ UNCHANGED <<main, receiver, state, plugged, stick>>
  BY DEF Read, ReportInv
<1>2. /\ DOMAIN pending = 1..Len(pending)
      /\ DOMAIN pending' = 1..Len(pending) - 1
      /\ event' = pending[1]
      /\ \A i \in 1..Len(pending) - 1 : pending'[i] = pending[i + 1]
      /\ Len(pending) \in Nat \ {0}
  BY <1>1 DEF TypeOK
<1>3. \A a \in Axes : Awaited(a) <=> Awaited(a)' \/ OnAxis(event', a)
  <2> SUFFICES ASSUME NEW a \in Axes
               PROVE  Awaited(a) <=> Awaited(a)' \/ OnAxis(event', a)
    OBVIOUS
  <2>1. ASSUME Awaited(a) PROVE Awaited(a)' \/ OnAxis(event', a)
    <3>1. PICK i \in 1..Len(pending) : OnAxis(pending[i], a)
      BY <1>2, <2>1 DEF Awaited
    <3>2. CASE i = 1
      BY <1>2, <3>1, <3>2
    <3>3. CASE i # 1
      <4>1. i - 1 \in 1..Len(pending) - 1 /\ pending'[i - 1] = pending[i]
        BY <1>2, <3>3
      <4> QED
        BY <1>2, <3>1, <4>1 DEF Awaited, OnAxis
    <3> QED
      BY <3>2, <3>3
  <2>2. ASSUME Awaited(a)' PROVE Awaited(a)
    BY <1>2, <2>2 DEF Awaited, OnAxis
  <2>3. ASSUME OnAxis(event', a) PROVE Awaited(a)
    BY <1>2, <2>3 DEF Awaited
  <2> QED
    BY <2>1, <2>2, <2>3
<1>4. LastReport'
  <2>1. ASSUME NEW a \in Axes, NEW i \in DOMAIN pending',
               pending'[i].type = "axis", pending'[i].number = a,
               \A j \in DOMAIN pending' : j > i =>
                 ~(pending'[j].type = "axis" /\ pending'[j].number = a)
        PROVE  pending'[i].value = stick[a]
    <3>0. i \in 1..Len(pending) - 1
      BY <1>2
    <3>1. i + 1 \in 1..Len(pending) /\ OnAxis(pending[i + 1], a)
      BY <1>2, <2>1, <3>0 DEF OnAxis
    <3>2. ASSUME NEW j \in 1..Len(pending), j > i + 1
          PROVE  ~OnAxis(pending[j], a)
      <4>1. j - 1 \in 1..Len(pending) - 1 /\ j - 1 > i
            /\ pending'[j - 1] = pending[j]
        BY <1>2, <3>0, <3>2
      <4> QED
        BY <1>2, <2>1, <4>1 DEF OnAxis
    <3> QED
      BY <1>1, <1>2, <3>0, <3>1, <3>2 DEF LastReport, ReportInv
  <2>2. stick' = stick
    BY <1>1
  <2> QED
    BY <2>1, <2>2 DEF LastReport, OnAxis
<1>5. HeldReport'
  <2> SUFFICES ASSUME NEW a \in Axes, OnAxis(event', a), ~Awaited(a)'
               PROVE  event'.value = stick[a]
    BY <1>1 DEF HeldReport, OnAxis
  <2>1. ASSUME NEW j \in 1..Len(pending), j > 1
        PROVE  ~OnAxis(pending[j], a)
    <3>1. j - 1 \in 1..Len(pending) - 1 /\ pending'[j - 1] = pending[j]
      BY <1>2, <2>1
    <3> QED
      BY <1>2, <3>1 DEF Awaited, OnAxis
  <2> QED
    BY <1>1, <1>2, <2>1 DEF LastReport, ReportInv
<1>6. NoReport'
  BY <1>1, <1>3 DEF NoReport, ReportInv, OnAxis
<1>7. BeforeRegistration'
  BY <1>1 DEF BeforeRegistration, ReportInv, IsOpen
<1> QED
  BY <1>0, <1>4, <1>5, <1>6, <1>7 DEF ReportInv

\* Handling the last report on an axis brings Steering in line with it, and
\* leaves what it believes of the other axes alone.
LEMMA HandleInv == ASSUME ReportInv, Handle PROVE ReportInv'
<1>0. TypeOK'
  BY ReaderType DEF ReportInv
<1>1. TypeOK /\ reader = "handle" /\ reader' = "read"
      /\ UNCHANGED <<main, receiver, event, plugged, stick, pending>>
  BY DEF Handle, ReportInv
<1>2. LastReport' /\ HeldReport'
  BY <1>1 DEF ReportInv, LastReport, HeldReport, OnAxis
<1>3. NoReport'
  <2> SUFFICES ASSUME plugged, NEW a \in Axes, NEW p \in {"low", "high"},
                      ~Awaited(a), state' = Towards[a][p]
               PROVE  stick[a] = p
    BY <1>1 DEF NoReport, Awaited, OnAxis
  <2>0. a \in 0..2
    BY InputsAssumption
  <2>1. CASE HandleAxis /\ event.number = a
    <3>1. event.value \in Positions /\ state' = Steer(state, a, event.value)
          /\ OnAxis(event, a)
      BY <1>1, <2>1, AxisEventType DEF HandleAxis, OnAxis, TypeOK
    <3>2. event.value = p
      <4>1. event.value \in {"low", "high"}
        <5>1. event.value \in {"low", "mid", "high"}
          BY <3>1, InputsAssumption
        <5>2. Towards[a][p] # "STOP" /\ Towards[a][p] \in {Towards[a]["low"], Towards[a]["high"]}
          BY <2>0, TowardsInjective
        <5>3. Steer(state, a, "mid") # Towards[a][p]
          BY <5>2 DEF Steer
        <5> QED
          BY <3>1, <5>1, <5>3
      <4>2. state' = Towards[a][event.value]
        BY <3>1, <4>1 DEF Steer
      <4> QED
        BY <2>0, <4>1, <4>2, TowardsInjective
    <3> QED
      BY <1>1, <3>1, <3>2 DEF ReportInv, HeldReport
  <2>2. CASE HandleAxis /\ event.number # a
    <3>1. event.value \in Positions /\ event.number \in 0..2
          /\ state' = Steer(state, event.number, event.value)
          /\ ~OnAxis(event, a)
      BY <1>1, <2>2, AxisEventType DEF HandleAxis, OnAxis, TypeOK
    <3>2. Towards[a][p] # "STOP"
      BY <2>0, TowardsInjective
    <3>3. CASE event.value = "mid"
      <4>1. state' \in {"STOP", state}
        BY <3>1, <3>3 DEF Steer
      <4> QED
        BY <1>1, <3>1, <3>2, <4>1 DEF ReportInv, NoReport
    <3>4. CASE event.value # "mid"
      <4>1. /\ event.value \in {"low", "high"}
            /\ state' = Towards[event.number][event.value]
        BY <3>1, <3>4, InputsAssumption DEF Steer
      <4>2. Towards[event.number][event.value] # Towards[a][p]
        <5> DEFINE n == event.number
        <5>1. n \in 0..2 /\ n # a
          BY <2>2, <3>1
        <5>2. event.value \in {"low", "high"}
          BY <4>1
        <5> HIDE DEF n
        <5>3. Towards[n][event.value] # Towards[a][p]
          BY <2>0, <5>1, <5>2, TowardsInjective
        <5> QED
          BY <5>3 DEF n
      <4> QED
        BY <4>1, <4>2
    <3> QED
      BY <3>3, <3>4
  <2>3. CASE (HandleButton \/ DiscardEvent) /\ event.type # "axis"
    BY <1>1, <2>3 DEF HandleButton, DiscardEvent, ReportInv, NoReport, OnAxis
  <2>4. CASE DiscardEvent /\ ~receiver
    BY <2>4, StillBefore DEF DiscardEvent
  <2> QED
    BY <2>1, <2>2, <2>3, <2>4 DEF Handle, HandleButton, DiscardEvent
<1>4. BeforeRegistration'
  BY <1>1 DEF Handle, HandleAxis, HandleButton, DiscardEvent,
              BeforeRegistration, ReportInv, IsOpen
<1> QED
  BY <1>0, <1>2, <1>3, <1>4 DEF ReportInv

\* The main thread never writes what Steering believes.
LEMMA MainInv ==
  ASSUME ReportInv,
         \/ ParseArgs \/ Usage
         \/ Open \/ OpenFails \/ Register \/ Process \/ Publish \/ Drop \/ Exited
  PROVE  ReportInv'
<1>0. TypeOK'
  BY MainType DEF ReportInv
<1>1. CASE Open
  <2>1. pending' = <<InitEvent>> /\ reader' # "handle" /\ ~receiver
        /\ main' = "setup" /\ UNCHANGED <<receiver, state, plugged, stick>>
    BY <1>1 DEF Open, StartReaderThread, ReportInv, BeforeRegistration
  <2>2. LastReport' /\ HeldReport'
    BY <2>1 DEF LastReport, HeldReport, OnAxis, InitEvent
  <2>3. NoReport'
    BY <2>1, StillBefore DEF NoReport
  <2>4. BeforeRegistration'
    BY <2>1 DEF BeforeRegistration, ReportInv, IsOpen
  <2> QED
    BY <1>0, <2>2, <2>3, <2>4 DEF ReportInv
<1>2. CASE ~Open
  <2>1. UNCHANGED <<event, state, plugged, stick, reader, pending>>
    BY <1>2 DEF ParseArgs, Usage, OpenFails, Register, RegisterEventReceiver,
                Process, Publish, Drop, Exited
  <2>2. LastReport' /\ HeldReport' /\ NoReport'
    BY <2>1 DEF ReportInv, LastReport, HeldReport, NoReport, Awaited, OnAxis
  <2>3. BeforeRegistration'
    BY <1>2, <2>1 DEF ParseArgs, Usage, OpenFails, Register, RegisterEventReceiver,
         Process, Publish, Drop, Exited,
         ReportInv, BeforeRegistration, IsOpen
  <2> QED
    BY <1>0, <2>2, <2>3 DEF ReportInv
<1> QED
  BY <1>1, <1>2

\* Without a joystick nothing is claimed of the stick.
LEMMA ReadFailsInv == ASSUME ReportInv, ReadFails PROVE ReportInv'
<1>1. TypeOK'
  BY ReaderType DEF ReportInv
<1> QED
  BY <1>1 DEF ReadFails, ReportInv, LastReport, HeldReport, NoReport,
       BeforeRegistration, IsOpen

\* Nor do the library and the broker.
LEMMA NetInv ==
  ASSUME ReportInv, Deliver \/ Acknowledge \/ Reconnect
  PROVE  ReportInv'
<1>1. TypeOK'
  BY NetType DEF ReportInv
<1>2. UNCHANGED <<mainVars, reader, event, state, userVars, pending>>
  BY DEF Deliver, Acknowledge, Reconnect
<1> QED
  BY <1>1, <1>2 DEF ReportInv, LastReport, HeldReport, NoReport, BeforeRegistration,
                    IsOpen, Awaited, OnAxis

\* No step of the daemon or of its user disturbs what is known of the stick.
LEMMA ReportStep == ReportInv /\ [Next]_vars => ReportInv'
<1>1. ReportInv /\ UNCHANGED vars => ReportInv'
  BY DEF ReportInv, TypeOK, LastReport, HeldReport, NoReport,
         BeforeRegistration, IsOpen, Awaited, OnAxis
<1> QED
  BY <1>1, UserInv, ReadInv, ReadFailsInv, HandleInv, MainInv, NetInv DEF Next

\* What eventAxis() leaves behind is a direction of the axis, STOP, or the state
\* it has found (Steering.cpp:37-90).
LEMMA MovesStep == TypeOK /\ AxisMoves /\ [Next]_vars => AxisMoves'
<1> SUFFICES ASSUME TypeOK, AxisMoves, [Next]_vars PROVE AxisMoves'
  OBVIOUS
<1>1. CASE state' = state
  BY <1>1 DEF AxisMoves
<1>2. CASE Handle /\ HandleAxis
  <2> DEFINE n == event.number
             v == event.value
  <2>1. n \in Axes /\ v \in Positions /\ state' = Steer(state, n, v)
    BY <1>2, AxisEventType DEF HandleAxis, TypeOK
  <2> HIDE DEF n, v
  <2>2. CASE v = "mid"
    <3>1. state' \in {"STOP", state}
      BY <2>1, <2>2 DEF Steer
    <3> QED
      BY <3>1, <1>1 DEF AxisMoves
  <2>3. CASE v # "mid"
    <3>1. v \in {"low", "high"} /\ state' = Towards[n][v]
      BY <2>1, <2>3, InputsAssumption DEF Steer
    <3> QED
      BY <2>1, <3>1 DEF AxisMoves
  <2> QED
    BY <2>2, <2>3
<1>3. state' = state \/ (Handle /\ HandleAxis)
  BY DEF Next, User, MoveStick, PressButton, ReleaseButton, Unplug, Read, ReadFails,
     Handle, HandleButton, DiscardEvent, ParseArgs, Usage, Open, OpenFails, Register,
     Process, Publish, Drop, Deliver, Acknowledge, Reconnect, Exited
<1> QED
  BY <1>1, <1>2, <1>3

LEMMA StickInit == Init => StickInv
BY ReportInit DEF StickInv, AxisMoves, Init

LEMMA StickStep == StickInv /\ [Next]_vars => StickInv'
<1>1. StickInv => ReportInv /\ TypeOK /\ AxisMoves
  BY DEF StickInv, ReportInv
<1> QED
  BY <1>1, ReportStep, MovesStep DEF StickInv

\* The last report under way on an axis says where it is held, and an axis
\* without one is where Steering takes it to be (Joystick.cpp:64-90,
\* Steering.cpp:37-90).
THEOREM StickInvariance == Spec => []StickInv
BY StickInit, StickStep, PTL DEF Spec

\* With no event under way, the invariant says it directly.
LEMMA StickImplies == StickInv => MovingMeansDeflected
<1> SUFFICES ASSUME StickInv, plugged, pending = <<>>, reader # "handle", state # "STOP"
             PROVE  \E a \in Axes, p \in {"low", "high"} :
                      state = Towards[a][p] /\ stick[a] = p
  BY DEF MovingMeansDeflected
<1>1. PICK a \in Axes, p \in {"low", "high"} : state = Towards[a][p]
  BY DEF StickInv, AxisMoves
<1>2. ~Awaited(a)
  BY DEF Awaited
<1>3. stick[a] = p
  BY <1>1, <1>2 DEF StickInv, ReportInv, NoReport
<1> QED
  BY <1>1, <1>3

\* Once every report is handled, Steering moves only in a direction in which an
\* axis is held (Steering.cpp:37-90).
THEOREM DeflectedWhenMoving == Spec => []MovingMeansDeflected
BY StickInvariance, StickImplies, PTL

=============================================================================
