------------------------ MODULE AlarmControl_proofs ------------------------
(* Theorems about the buttons that switch the alarm light, for any axes,   *)
(* buttons and queue bounds.                                               *)
EXTENDS AlarmControl, Joystickd_proofs, SequenceTheorems

USE DEF mainVars, userVars, mqttVars, vars

-----------------------------------------------------------------------------
(* Types.                                                                  *)

\* The variables of alarmlightd, without the messages that are on their way to it.
SwitchTypeOK ==
  /\ switchMain \in {"mqtt", "ble", "subscribe", "register", "pause"}
  /\ ble \in BOOLEAN /\ resolved \in BOOLEAN
  /\ held \in {"0", "1", "nothing"}
  /\ light \in {0, 1}
  /\ object \in [{"alarmlightd"} -> {"none", "alive"}]
  /\ online \subseteq {"alarmlightd"}
  /\ subscribed \subseteq {"alarmlightd"}
  /\ listened \subseteq {"alarmlightd"}
  /\ connected \in [{"alarmlightd"} -> BOOLEAN]

LEMMA SwitchTypes == AlarmTypeOK <=> TypeOK /\ SwitchTypeOK
<1>1. A!AlarmTypeOK <=> SwitchTypeOK /\ wire \in Seq({"0", "1"})
  BY DEF SwitchTypeOK, A!AlarmTypeOK, A!Client, A!Payloads, A!Nothing
<1>2. TypeOK => wire \in Seq({"0", "1"})
  BY AlarmAssumption DEF TypeOK, Payloads
<1> QED
  BY <1>1, <1>2 DEF AlarmTypeOK

\* The constructor's steps.
LEMMA SwitchMainType ==
  ASSUME SwitchTypeOK, A!SwitchMain
  PROVE  SwitchTypeOK' /\ wire' = wire
<1> USE DEF SwitchTypeOK, A!Step, A!Following, A!Client, A!mqttVars
<1>1. CASE A!ConstructMqtt
  BY <1>1 DEF A!ConstructMqtt, A!Mqtt!Construct
<1>2. CASE A!ConstructBle
  BY <1>2 DEF A!ConstructBle
<1>3. CASE A!Subscribe
  BY <1>3 DEF A!Subscribe, A!Mqtt!Subscribe
<1>4. CASE A!RegisterSwitch
  BY <1>4 DEF A!RegisterSwitch, A!Mqtt!RegisterEventReceiver
<1> QED
  BY <1>1, <1>2, <1>3, <1>4 DEF A!SwitchMain

\* The steps of the MQTT library's thread, of the broker and of the BLE client.
LEMMA LibraryType ==
  ASSUME SwitchTypeOK, wire \in Seq({"0", "1"}), A!AlarmNext, ~A!SwitchMain
  PROVE  SwitchTypeOK' /\ (wire' = wire \/ (wire # <<>> /\ wire' = Tail(wire)))
<1> USE DEF SwitchTypeOK, A!Client, A!mqttVars, A!Nothing
<1>1. wire # <<>> => Head(wire) \in {"0", "1"}
  OBVIOUS
<1>2. CASE A!OnMessage
  BY <1>1, <1>2 DEF A!OnMessage, A!Mqtt!Forwards
<1>3. CASE A!DiscardMessage
  BY <1>3 DEF A!DiscardMessage, A!lightVars
<1>4. CASE A!Write
  BY <1>4 DEF A!Write, A!Atoi
<1>5. CASE A!LoseWrite
  BY <1>5 DEF A!LoseWrite
<1>6. CASE A!Resolve
  BY <1>6 DEF A!Resolve
<1>7. CASE A!Session(A!Mqtt!OnConnect(A!Client))
  BY <1>7 DEF A!Session, A!Mqtt!OnConnect, A!Mqtt!SameId
<1>8. CASE A!Session(A!Mqtt!LoseSession(A!Client))
  BY <1>8 DEF A!Session, A!Mqtt!LoseSession
<1>9. CASE A!Session(A!Mqtt!OnDisconnect(A!Client))
  BY <1>9 DEF A!Session, A!Mqtt!OnDisconnect
<1> QED
  BY <1>2, <1>3, <1>4, <1>5, <1>6, <1>7, <1>8, <1>9 DEF A!AlarmNext

\* alarmlightd only takes messages off the wire.
LEMMA LightPart ==
  ASSUME TypeOK, SwitchTypeOK, A!AlarmNext, UNCHANGED localVars
  PROVE  TypeOK' /\ SwitchTypeOK'
<1>1. /\ wire \in Seq(Subscription) /\ Len(wire) <= MaxWire /\ MaxWire \in Nat
      /\ wire \in Seq({"0", "1"})
  BY BoundsAssumption, AlarmAssumption DEF TypeOK, Payloads
<1>2. SwitchTypeOK' /\ (wire' = wire \/ (wire # <<>> /\ wire' = Tail(wire)))
  BY <1>1, SwitchMainType, LibraryType
<1>3. wire' \in Seq(Subscription) /\ Len(wire') <= MaxWire
  <2>1. wire # <<>> => /\ Tail(wire) \in Seq(Subscription)
                       /\ Len(Tail(wire)) = Len(wire) - 1 /\ Len(wire) \in Nat
    BY <1>1, HeadTailProperties, LenProperties
  <2> QED
    BY <1>1, <1>2, <2>1
<1>4. TypeOK'
  BY <1>3 DEF localVars, TypeOK
<1> QED
  BY <1>2, <1>4

\* Both daemons keep the types of their variables, and the messages between them
\* their bounds, for any number of axes and buttons (BluetoothEnabledSwitch.cpp:19-55).
THEOREM AlarmType == AlarmSpec => []AlarmTypeOK
<1>1. AlarmInit => AlarmTypeOK
  <2> SUFFICES ASSUME AlarmInit PROVE AlarmTypeOK
    OBVIOUS
  <2>1. SwitchTypeOK
    BY DEF AlarmInit, A!AlarmInit, A!Mqtt!MqttInit, SwitchTypeOK, A!Client, A!Nothing
  <2>2. TypeOK
    BY TypeInit DEF AlarmInit
  <2> QED
    BY <2>1, <2>2, SwitchTypes
<1>2. AlarmTypeOK /\ [AlarmNext]_alarmVars => AlarmTypeOK'
  <2> SUFFICES ASSUME AlarmTypeOK, [AlarmNext]_alarmVars
               PROVE  AlarmTypeOK'
    OBVIOUS
  <2>1. TypeOK /\ SwitchTypeOK
    BY SwitchTypes
  <2>2. TypeOK' /\ SwitchTypeOK'
    <3>1. CASE [Next]_vars /\ UNCHANGED lightVars
      BY <2>1, <3>1, TypeStep DEF lightVars, SwitchTypeOK
    <3>2. CASE A!AlarmNext /\ UNCHANGED localVars
      BY <2>1, <3>2, LightPart
    <3> QED
      BY <3>1, <3>2 DEF AlarmNext, alarmVars
  <2>3. wire' \in Seq({"0", "1"})
    BY <2>2, AlarmAssumption DEF TypeOK, Payloads
  <2> QED
    BY <2>2, <2>3
       DEF AlarmTypeOK, SwitchTypeOK, A!AlarmTypeOK, A!Client, A!Payloads, A!Nothing
<1> QED
  BY <1>1, <1>2, PTL DEF AlarmSpec

-----------------------------------------------------------------------------
(* The order of the constructor's steps.                                   *)

\* Once there is somebody to call event(), the pointer it follows is set.
FoundInv ==
  /\ switchMain \in {"subscribe", "register", "pause"} => ble
  /\ "alarmlightd" \in listened => ble
  /\ held # "nothing" => ble

LEMMA FoundStep ==
  ASSUME FoundInv, SwitchTypeOK, A!AlarmNext
  PROVE  FoundInv'
<1> USE DEF FoundInv, SwitchTypeOK, A!Client, A!mqttVars, A!Nothing
<1>1. CASE A!SwitchMain
  <2> USE DEF A!Step, A!Following
  <2>1. CASE A!ConstructMqtt
    BY <2>1 DEF A!ConstructMqtt, A!Mqtt!Construct
  <2>2. CASE A!ConstructBle
    BY <2>2 DEF A!ConstructBle
  <2>3. CASE A!Subscribe
    BY <2>3 DEF A!Subscribe, A!Mqtt!Subscribe
  <2>4. CASE A!RegisterSwitch
    BY <2>4 DEF A!RegisterSwitch, A!Mqtt!RegisterEventReceiver
  <2> QED
    BY <1>1, <2>1, <2>2, <2>3, <2>4 DEF A!SwitchMain
<1>2. CASE A!OnMessage
  BY <1>2 DEF A!OnMessage, A!Mqtt!Forwards
<1>3. CASE A!DiscardMessage
  BY <1>3 DEF A!DiscardMessage, A!lightVars
<1>4. CASE A!Write
  BY <1>4 DEF A!Write
<1>5. CASE A!LoseWrite
  BY <1>5 DEF A!LoseWrite
<1>6. CASE A!Resolve
  BY <1>6 DEF A!Resolve
<1>7. CASE A!Session(A!Mqtt!OnConnect(A!Client))
  BY <1>7 DEF A!Session, A!Mqtt!OnConnect
<1>8. CASE A!Session(A!Mqtt!LoseSession(A!Client))
  BY <1>8 DEF A!Session, A!Mqtt!LoseSession
<1>9. CASE A!Session(A!Mqtt!OnDisconnect(A!Client))
  BY <1>9 DEF A!Session, A!Mqtt!OnDisconnect
<1> QED
  BY <1>1, <1>2, <1>3, <1>4, <1>5, <1>6, <1>7, <1>8, <1>9 DEF A!AlarmNext

\* event() is called by a thread that runs before the constructor is done, yet
\* never before the pointer ble is set (BluetoothEnabledSwitch.cpp:20-53).
THEOREM NeverTooEarly == AlarmSpec => []EventsFindBle
<1>1. AlarmInit => FoundInv
  BY DEF AlarmInit, A!AlarmInit, A!Mqtt!MqttInit, FoundInv, A!Nothing
<1>2. AlarmTypeOK /\ FoundInv /\ [AlarmNext]_alarmVars => FoundInv'
  <2> SUFFICES ASSUME AlarmTypeOK, FoundInv, [AlarmNext]_alarmVars
               PROVE  FoundInv'
    OBVIOUS
  <2>1. SwitchTypeOK
    BY SwitchTypes
  <2>2. CASE UNCHANGED lightVars
    BY <2>2 DEF lightVars, FoundInv
  <2>3. CASE A!AlarmNext
    BY <2>1, <2>3, FoundStep
  <2> QED
    BY <2>2, <2>3 DEF AlarmNext, alarmVars
<1>3. FoundInv => EventsFindBle
  BY DEF FoundInv, EventsFindBle, A!Nothing
<1> QED
  BY <1>1, <1>2, <1>3, AlarmType, PTL DEF AlarmSpec

-----------------------------------------------------------------------------
(* From the buttons to the light.                                          *)

\* A list that loses its second element.
LEMMA SecondTaken ==
  ASSUME NEW S, NEW s \in Seq(S), s # <<>>, NEW x \in S, NEW q, q = <<x>> \o s
  PROVE  /\ 2 \in DOMAIN q
         /\ <<x>> \o Tail(s) = SubSeq(q, 1, 2 - 1) \o SubSeq(q, 2 + 1, Len(q))
OBVIOUS

\* The payload in event(), as a list.
Held == IF held = "nothing" THEN <<>> ELSE <<held>>

\* The payload in event() is the first one on its way.
LEMMA WayType ==
  ASSUME TypeOK, SwitchTypeOK
  PROVE  /\ OnTheWay = Held \o wire
         /\ Held \in Seq(Payloads) /\ wire \in Seq(Payloads) /\ OnTheWay \in Seq(Payloads)
         /\ held = "nothing" => OnTheWay = wire
         /\ held # "nothing" => /\ held \in Payloads /\ OnTheWay # <<>>
                                /\ Head(OnTheWay) = held /\ Tail(OnTheWay) = wire
<1>1. OnTheWay = Held \o wire
  BY DEF OnTheWay, Held, A!Nothing
<1>2. wire \in Seq(Payloads) /\ held \in Payloads \cup {"nothing"}
  BY AlarmAssumption DEF TypeOK, SwitchTypeOK, Payloads
<1>3. CASE held = "nothing"
  <2>1. Held = <<>>
    BY <1>3 DEF Held
  <2>2. OnTheWay = wire
    BY <1>1, <1>2, <2>1, ConcatEmptySeq
  <2> QED
    BY <1>1, <1>2, <1>3, <2>1, <2>2
<1>4. CASE held # "nothing"
  <2>1. held \in Payloads /\ Held = <<held>>
    BY <1>2, <1>4 DEF Held
  <2>2. Held \in Seq(Payloads)
    BY <2>1
  <2>3. OnTheWay \in Seq(Payloads)
    BY <1>1, <1>2, <2>2, ConcatProperties
  <2>4. OnTheWay # <<>> /\ Head(OnTheWay) = held /\ Tail(OnTheWay) = wire
    <3> DEFINE h == held
               w == wire
               s == <<h>> \o w
    <3>1. w \in Seq(Payloads) /\ h \in Payloads
      BY <1>2, <2>1
    <3> HIDE DEF h, w
    <3>2. s # <<>> /\ Head(s) = h /\ s \in Seq(Payloads) /\ Len(s) = Len(w) + 1
      BY <3>1
    <3>3. Tail(s) \in Seq(Payloads) /\ Len(Tail(s)) = Len(w)
      BY <3>1, <3>2
    <3>4. \A i \in 1 .. Len(Tail(s)) : Tail(s)[i] = w[i]
      BY <3>1
    <3>5. Tail(s) = w
      BY <3>1, <3>3, <3>4, SeqEqual, Zenon
    <3>6. OnTheWay = s
      BY <1>1, <2>1 DEF h, w
    <3> QED
      BY <3>2, <3>5, <3>6 DEF h, w
  <2> QED
    BY <1>1, <1>2, <1>4, <2>1, <2>2, <2>3, <2>4
<1> QED
  BY <1>3, <1>4

\* What joystickd publishes for the steering state is nothing to the light.
LEMMA NoTopic ==
  ASSUME TypeOK
  PROVE  Subtopic[command] \notin Subscription
<1>1. \A s \in SteerStates : Subtopic[s] \notin {"0", "1"}
  BY DEF SteerStates, Subtopic
<1> QED
  BY <1>1, AlarmAssumption DEF TypeOK, Payloads

\* Steering gives commands, the library sends them; nothing else joystickd does
\* moves one.
LEMMA ButtonsMirror ==
  ASSUME TypeOK, SwitchTypeOK, Next, UNCHANGED lightVars
  PROVE  [Light!Next]_Light!vars
<1> USE WayType
<1>0. held' = held /\ light' = light /\ Held' = Held
  BY DEF lightVars, Held
<1>1. OnTheWay' = Held \o wire'
  BY <1>0 DEF OnTheWay, Held, A!Nothing
<1>2. \A n : SwitchMessage(n) \in Payloads
  BY DEF SwitchMessage, Payloads
<1>3. CASE UNCHANGED <<outbox, inflight, wire>>
  BY <1>0, <1>1, <1>2, <1>3 DEF Light!Next, Light!Change
<1>4. CASE Handle /\ outbox' # outbox
  <2>1. /\ event' = event /\ inflight' = inflight /\ wire' = wire
        /\ outbox' = Append(outbox, SwitchMessage(event.number))
    BY <1>4 DEF Handle, HandleAxis, HandleButton, DiscardEvent, Sent
  <2> QED
    BY <1>0, <1>1, <2>1 DEF Light!Next, Light!Sample
<1>5. CASE Deliver
  <2>1. /\ outbox # <<>> /\ outbox' = Tail(outbox) /\ event' = event
        /\ inflight' = Append(inflight, Head(outbox))
        /\ wire' = Append(wire, Head(outbox))
    BY <1>5 DEF Deliver
  <2>2. Head(outbox) \in Payloads
    BY <2>1, AlarmAssumption, HeadTailProperties DEF TypeOK
  <2>3. OnTheWay' = Append(OnTheWay, Head(outbox))
    <3> DEFINE m == Head(outbox)
    <3>1. m \in Payloads /\ Held \in Seq(Payloads) /\ wire \in Seq(Payloads)
      BY <2>2
    <3> HIDE DEF m
    <3> HIDE WayType
    <3>2. Held \o Append(wire, m) = Append(Held \o wire, m)
      BY <3>1
    <3> QED
      BY <1>1, <2>1, <3>2, WayType DEF m
  <2> QED
    BY <1>0, <2>1, <2>3 DEF Light!Next, Light!Send
<1>6. CASE Acknowledge
  <2>1. /\ inflight # <<>> /\ inflight' = Tail(inflight)
        /\ UNCHANGED <<event, outbox, wire>>
    BY <1>6 DEF Acknowledge
  <2> QED
    BY <1>0, <1>1, <2>1 DEF Light!Next, Light!Forget
<1>7. CASE Reconnect
  <2>1. outbox' = inflight \o outbox /\ inflight' = <<>> /\ UNCHANGED <<event, wire>>
    BY <1>7 DEF Reconnect
  <2> QED
    BY <1>0, <1>1, <2>1 DEF Light!Next, Light!SendAgain
<1>8. \/ UNCHANGED <<outbox, inflight, wire>> \/ Deliver \/ Acknowledge \/ Reconnect
      \/ (Handle /\ outbox' # outbox)
  <2>1. CASE User
    BY <2>1 DEF User, MoveStick, PressButton, ReleaseButton, Unplug
  <2>2. CASE Read \/ ReadFails \/ Handle
    BY <2>2 DEF Read, ReadFails, Handle
  <2>3. CASE Publish
    BY <2>3, NoTopic DEF Publish, Sent
  <2>4. CASE \/ ParseArgs \/ Usage \/ Open \/ OpenFails \/ Register
             \/ Process \/ Drop \/ Exited
    BY <2>4 DEF ParseArgs, Usage, Open, OpenFails, Register, Process, Drop, Exited
  <2> QED
    BY <2>1, <2>2, <2>3, <2>4 DEF Next
<1> QED
  BY <1>3, <1>4, <1>5, <1>6, <1>7, <1>8

\* The library, the broker and event() lose or show them, each in its turn.
LEMMA DaemonMirrors ==
  ASSUME TypeOK, SwitchTypeOK, A!AlarmNext, UNCHANGED localVars
  PROVE  [Light!Next]_Light!vars
<1> USE WayType DEF A!Nothing, A!Client
<1>0. UNCHANGED <<SwitchMessage(event.number), outbox, inflight>>
  BY DEF localVars, SwitchMessage
<1>1. OnTheWay' = (IF held' = "nothing" THEN <<>> ELSE <<held'>>) \o wire'
  BY DEF OnTheWay
<1>2. CASE UNCHANGED <<OnTheWay, light>>
  BY <1>0, <1>2 DEF Light!vars
<1>3. ASSUME light' = light, NEW i \in DOMAIN OnTheWay,
             OnTheWay' = SubSeq(OnTheWay, 1, i - 1)
                           \o SubSeq(OnTheWay, i + 1, Len(OnTheWay))
      PROVE  [Light!Next]_Light!vars
  BY <1>0, <1>3, Zenon DEF Light!Next, Light!Lose, Light!Without
<1>4. CASE A!OnMessage
  <2>1. /\ held = "nothing" /\ wire # <<>> /\ light' = light
        /\ held' = Head(wire) /\ wire' = Tail(wire)
    BY <1>4 DEF A!OnMessage
  <2>2. Head(wire) \in Payloads /\ Head(wire) # "nothing"
    BY <2>1, HeadTailProperties DEF Payloads
  <2>3. OnTheWay' = <<Head(wire)>> \o Tail(wire)
    BY <1>1, <2>1, <2>2
  <2>4. <<Head(wire)>> \o Tail(wire) = wire
    <3>1. wire \in Seq(Payloads) /\ wire # <<>>
      BY <2>1
    <3> HIDE WayType
    <3> QED
      BY <3>1
  <2> QED
    BY <1>2, <2>1, <2>3, <2>4
<1>5. CASE A!DiscardMessage
  <2>1. wire # <<>> /\ wire' = Tail(wire) /\ held' = held /\ light' = light
    BY <1>5 DEF A!DiscardMessage, A!lightVars
  <2>2. CASE held = "nothing"
    <3>1. Tail(wire) \in Seq(Payloads)
      BY <2>1, HeadTailProperties
    <3>2. OnTheWay' = Tail(OnTheWay) /\ OnTheWay # <<>> /\ OnTheWay \in Seq(Payloads)
      BY <1>1, <2>1, <2>2, <3>1, ConcatEmptySeq
    <3> QED
      BY <1>3, <2>1, <3>2, WithoutFirst
  <2>3. CASE held # "nothing"
    <3>1. /\ held \in Payloads /\ OnTheWay = <<held>> \o wire
          /\ OnTheWay' = <<held>> \o Tail(wire) /\ wire \in Seq(Payloads)
      BY <1>1, <2>1, <2>3 DEF Held
    <3>2. /\ 2 \in DOMAIN OnTheWay
          /\ <<held>> \o Tail(wire) = SubSeq(OnTheWay, 1, 2 - 1)
                                        \o SubSeq(OnTheWay, 2 + 1, Len(OnTheWay))
      BY <2>1, <3>1, SecondTaken
    <3> QED
      BY <1>3, <2>1, <3>1, <3>2
  <2> QED
    BY <2>2, <2>3
<1>6. ASSUME held # "nothing", held' = "nothing", wire' = wire
      PROVE  /\ OnTheWay # <<>> /\ Head(OnTheWay) = held /\ held \in Payloads
             /\ OnTheWay' = Tail(OnTheWay)
  BY <1>1, <1>6, ConcatEmptySeq
<1>7. CASE A!Write
  <2>1. /\ held # "nothing" /\ held' = "nothing" /\ wire' = wire
        /\ light' = A!Atoi(held)
    BY <1>7 DEF A!Write
  <2> QED
    BY <1>0, <1>6, <2>1 DEF Light!Next, Light!Show, A!Atoi
<1>8. CASE A!LoseWrite
  <2>1. held # "nothing" /\ held' = "nothing" /\ wire' = wire /\ light' = light
    BY <1>8 DEF A!LoseWrite
  <2>2. OnTheWay # <<>> /\ OnTheWay' = Tail(OnTheWay) /\ OnTheWay \in Seq(Payloads)
    BY <1>6, <2>1
  <2> QED
    BY <1>3, <2>1, <2>2, WithoutFirst
<1>9. CASE UNCHANGED <<wire, held, light>>
  BY <1>2, <1>9 DEF OnTheWay
<1> QED
  BY <1>4, <1>5, <1>7, <1>8, <1>9
     DEF A!AlarmNext, A!SwitchMain, A!ConstructMqtt, A!ConstructBle, A!Subscribe,
         A!RegisterSwitch, A!Resolve, A!Session

\* The light shows commands of the buttons, each in its turn, however long the
\* queues between the daemons: what comes once more, and so after a later command,
\* is only what was not acknowledged when a session of joystickd ended
\* (Steering.cpp:13-24, MQTTClient.cpp:98-158, BluetoothEnabledSwitch.cpp:47-54).
THEOREM LightMirrors == AlarmSpec => LightMirrorsButtons
<1>1. AlarmInit => Light!Init
  <2> SUFFICES ASSUME AlarmInit PROVE Light!Init
    OBVIOUS
  <2>1. outbox = <<>> /\ inflight = <<>> /\ wire = <<>> /\ held = "nothing"
    BY DEF AlarmInit, Init, A!AlarmInit, A!Nothing
  <2>2. OnTheWay = <<>>
    BY <2>1 DEF OnTheWay, A!Nothing
  <2> QED
    BY <2>1, <2>2 DEF Light!Init, SwitchMessage, Payloads
<1>2. AlarmTypeOK /\ [AlarmNext]_alarmVars => [Light!Next]_Light!vars
  <2> SUFFICES ASSUME AlarmTypeOK, [AlarmNext]_alarmVars
               PROVE  [Light!Next]_Light!vars
    OBVIOUS
  <2>1. TypeOK /\ SwitchTypeOK
    BY SwitchTypes
  <2>2. CASE UNCHANGED alarmVars
    BY <2>2 DEF alarmVars, lightVars, Light!vars, OnTheWay
  <2> QED
    BY <2>1, <2>2, ButtonsMirror, DaemonMirrors DEF AlarmNext
<1> QED
  BY <1>1, <1>2, AlarmType, PTL DEF AlarmSpec, LightMirrorsButtons, Light!Spec

=============================================================================
