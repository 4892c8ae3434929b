------------------------ MODULE RobotControl_proofs ------------------------
(* Theorems about the joystick that drives a robot, for any axes, buttons  *)
(* and queue bounds.                                                       *)
EXTENDS RobotControl, Joystickd_proofs, SequenceTheorems

USE DEF mainVars, userVars, mqttVars, vars

-----------------------------------------------------------------------------
(* Types.                                                                  *)

\* The table of robbyd has a command of the robot for every topic.
LEMMA CommandType ==
  ASSUME NEW topic
  PROVE  R!Command(topic) \in {"S", "F", "B", "L", "R", "<", ">"}
BY DEF R!Command

\* The steps of robbyd; of the variables of joystickd they take only messages
\* from the wire.
LEMMA RobbyStep ==
  ASSUME TypeOK, R!RobbyTypeOK, R!RobbyNext, UNCHANGED localVars
  PROVE  TypeOK' /\ R!RobbyTypeOK'
<1> USE DEF R!RobbyTypeOK
<1>1. wire' \in Seq(Subscription) /\ Len(wire') <= MaxWire => TypeOK'
  BY DEF localVars, TypeOK
<1>2. wire \in Seq(Subscription) /\ Len(wire) <= MaxWire /\ MaxWire \in Nat
  BY BoundsAssumption DEF TypeOK
<1>3. wire # <<>> => Tail(wire) \in Seq(Subscription) /\ Len(Tail(wire)) <= MaxWire
  BY <1>2
<1>4. CASE R!Construct
  BY <1>1, <1>2, <1>4 DEF R!Construct
<1>5. CASE R!Subscribe
  BY <1>1, <1>2, <1>5 DEF R!Subscribe
<1>6. CASE R!RegisterBLEClient
  BY <1>1, <1>2, <1>6 DEF R!RegisterBLEClient
<1>7. CASE R!OnConnect
  BY <1>1, <1>2, <1>7 DEF R!OnConnect
<1>8. CASE R!OnDisconnect
  BY <1>1, <1>2, <1>8 DEF R!OnDisconnect
<1>9. CASE R!OnMessage
  BY <1>1, <1>3, <1>9, CommandType DEF R!OnMessage, R!Written
<1>10. CASE R!LoseMessage
  BY <1>1, <1>3, <1>10 DEF R!LoseMessage, R!robbyVars
<1>11. CASE R!Resolve
  BY <1>1, <1>2, <1>11 DEF R!Resolve
<1> QED
  BY <1>4, <1>5, <1>6, <1>7, <1>8, <1>9, <1>10, <1>11 DEF R!RobbyNext

\* The two daemons keep the types of their variables; in particular the robot
\* gets one of its seven commands, and nothing else
\* (MQTTClientRobby.cpp:124-157).
THEOREM ControlType == ControlSpec => []ControlTypeOK
<1>1. ControlInit => ControlTypeOK
  BY TypeInit DEF ControlInit, ControlTypeOK, R!RobbyInit, R!RobbyTypeOK
<1>2. ControlTypeOK /\ [ControlNext]_controlVars => ControlTypeOK'
  <2> SUFFICES ASSUME ControlTypeOK, [ControlNext]_controlVars
               PROVE  ControlTypeOK'
    OBVIOUS
  <2> USE DEF ControlTypeOK
  <2>1. CASE Next /\ UNCHANGED robbyVars
    BY <2>1, TypeStep DEF robbyVars, R!RobbyTypeOK
  <2>2. CASE R!RobbyNext /\ UNCHANGED localVars
    BY <2>2, RobbyStep
  <2>3. CASE UNCHANGED controlVars
    BY <2>3, TypeStep DEF controlVars, robbyVars, R!RobbyTypeOK
  <2> QED
    BY <2>1, <2>2, <2>3 DEF ControlNext
<1> QED
  BY <1>1, <1>2, PTL DEF ControlSpec

-----------------------------------------------------------------------------
(* What robbyd does with messages leaves the stick and Steering alone.     *)

LEMMA ControlStickInv == ControlSpec => []StickInv
<1>1. ControlInit => StickInv
  BY StickInit DEF ControlInit
<1>2. StickInv /\ ControlTypeOK' /\ [ControlNext]_controlVars => StickInv'
  <2> SUFFICES ASSUME StickInv, ControlTypeOK', [ControlNext]_controlVars
               PROVE  StickInv'
    OBVIOUS
  <2>1. CASE [Next]_vars
    BY <2>1, StickStep
  <2>2. CASE UNCHANGED localVars
    BY <2>2 DEF localVars, ControlTypeOK, StickInv, ReportInv, AxisMoves, LastReport,
                HeldReport, NoReport, BeforeRegistration, IsOpen, Awaited, OnAxis
  <2> QED
    BY <2>1, <2>2 DEF ControlNext, controlVars
<1> QED
  BY <1>1, <1>2, ControlType, PTL DEF ControlSpec

\* In the composition too, Steering moves in a direction only if the stick is
\* held in it, once the events under way are handled (Steering.cpp:37-90).
THEOREM ControlStick == ControlSpec => []MovingMeansDeflected
BY ControlStickInv, StickImplies, PTL

-----------------------------------------------------------------------------
(* The robot mirrors the steering state.                                   *)

\* Every topic belongs to one state, whose command is in the table of robbyd.
LEMMA TablesAgree ==
  ASSUME NEW topic \in Topics
  PROVE  R!Command(topic) = Meaning[StateOf(topic)]
<1>1. PICK s \in SteerStates : topic = Subtopic[s]
  BY DEF Topics
<1>2. \A r \in SteerStates : Subtopic[r] = Subtopic[s] => r = s
  BY DEF SteerStates, Subtopic
<1>3. StateOf(topic) = s
  BY <1>1, <1>2 DEF StateOf
<1>4. R!Command(Subtopic[s]) = Meaning[s]
  BY DEF SteerStates, Subtopic, Meaning, R!Command
<1> QED
  BY <1>1, <1>3, <1>4

\* The messages on their way are topics, and the one that process() is about to
\* send is the last of them.
LEMMA ToSendType ==
  ASSUME TypeOK
  PROVE  /\ outbox \in Seq(Topics) /\ inflight \in Seq(Topics) /\ wire \in Seq(Topics)
         /\ ToSend \in Seq(Topics)
         /\ main # "send" => ToSend = outbox
         /\ main = "send" => ToSend = Append(outbox, Subtopic[command])
         /\ Subtopic[command] \in Topics /\ Subtopic[state] \in Topics
<1>1. outbox \in Seq(Topics) /\ inflight \in Seq(Topics) /\ wire \in Seq(Topics)
  BY RobbyAssumption DEF TypeOK
<1>2. Subtopic[command] \in Topics /\ Subtopic[state] \in Topics
  BY SubtopicType DEF TypeOK
<1>3. main # "send" => ToSend = outbox
  BY <1>1, ConcatEmptySeq DEF ToSend
<1>4. main = "send" => ToSend = Append(outbox, Subtopic[command])
  BY <1>1, <1>2, AppendIsConcat DEF ToSend
<1>5. Append(outbox, Subtopic[command]) \in Seq(Topics)
  BY <1>1, <1>2
<1> QED
  BY <1>1, <1>2, <1>3, <1>4, <1>5

\* The messages to the alarm light are nothing to the robot.
LEMMA NoPayload ==
  ASSUME NEW b
  PROVE  SwitchMessage(b) \notin Subscription
BY RobbyAssumption DEF SwitchMessage, Topics, SteerStates, Subtopic

\* The main thread: only Process takes a sample, and it takes the state.
LEMMA MainMirrors ==
  ASSUME TypeOK, Process \/ Publish \/ Drop, UNCHANGED robbyVars
  PROVE  [Drive!Next]_Drive!vars
<1> USE ToSendType
<1>0. UNCHANGED <<state, inflight, wire, robot>>
  BY DEF robbyVars, Process, Publish, Drop
<1>1. CASE Process
  <2>1. main = "process" /\ main' = "send" /\ outbox' = outbox /\ command' = state
    BY <1>1 DEF Process
  <2>2. ToSend' = outbox \o <<Subtopic[state]>>
    BY <2>1 DEF ToSend
  <2>3. outbox \o <<Subtopic[state]>> = Append(ToSend, Subtopic[state])
    BY <2>1, AppendIsConcat
  <2> QED
    BY <1>0, <2>2, <2>3 DEF Drive!Next, Drive!Sample
<1>2. CASE Publish
  <2>1. /\ main = "send" /\ main' = "process"
        /\ outbox' = Append(outbox, Subtopic[command])
    BY <1>2, RobbyAssumption DEF Publish, Sent
  <2>2. ToSend' = outbox'
    <3>1. outbox' \in Seq(Topics)
      BY <2>1
    <3> QED
      BY <2>1, <3>1, ConcatEmptySeq DEF ToSend
  <2> QED
    BY <1>0, <2>1, <2>2 DEF Drive!vars
<1>3. CASE Drop
  <2>1. main = "send" /\ main' = "process" /\ outbox' = outbox
    BY <1>3 DEF Drop
  <2>2. ToSend' = outbox /\ ToSend = Append(outbox, Subtopic[command])
    BY <2>1, ConcatEmptySeq DEF ToSend
  <2>3. /\ Len(ToSend) \in DOMAIN ToSend
        /\ ToSend' = SubSeq(ToSend, 1, Len(ToSend) - 1)
                       \o SubSeq(ToSend, Len(ToSend) + 1, Len(ToSend))
    <3>1. outbox \in Seq(Topics) /\ Subtopic[command] \in Topics
      OBVIOUS
    <3> QED
      BY <2>2, <3>1, WithoutLast, SMTT(30)
  <2>4. Drive!Lose
    BY <1>0, <2>3, Zenon DEF Drive!Lose, Drive!Without
  <2> QED
    BY <2>4, Zenon DEF Drive!Next
<1> QED
  BY <1>1, <1>2, <1>3

\* The library: what it sends is the oldest message it has still to send.
LEMMA NetMirrors ==
  ASSUME TypeOK, Deliver \/ Acknowledge \/ Reconnect, UNCHANGED robbyVars
  PROVE  [Drive!Next]_Drive!vars
<1> USE ToSendType
<1>0. UNCHANGED <<main, state, command, robot>>
  BY DEF robbyVars, Deliver, Acknowledge, Reconnect
<1> DEFINE last == IF main = "send" THEN <<Subtopic[command]>> ELSE <<>>
<1>1. ToSend = outbox \o last /\ ToSend' = outbox' \o last /\ last \in Seq(Topics)
  BY <1>0 DEF ToSend
<1> HIDE DEF last
<1>2. CASE Deliver
  <2>1. /\ outbox # <<>> /\ outbox' = Tail(outbox)
        /\ inflight' = Append(inflight, Head(outbox))
        /\ wire' = Append(wire, Head(outbox))
    BY <1>2 DEF Deliver
  <2>2. ToSend # <<>> /\ Head(ToSend) = Head(outbox) /\ Tail(ToSend) = Tail(outbox) \o last
    <3>1. CASE main = "send"
      <4>1. last = <<Subtopic[command]>> /\ ToSend = Append(outbox, Subtopic[command])
        BY <3>1 DEF last
      <4>2. /\ Append(outbox, Subtopic[command]) # <<>>
            /\ Head(Append(outbox, Subtopic[command])) = Head(outbox)
            /\ Tail(Append(outbox, Subtopic[command]))
                 = Append(Tail(outbox), Subtopic[command])
        BY <2>1, HeadTailAppend, AppendProperties
      <4>3. Append(Tail(outbox), Subtopic[command]) = Tail(outbox) \o <<Subtopic[command]>>
        BY <2>1, AppendIsConcat, HeadTailProperties
      <4> QED
        BY <4>1, <4>2, <4>3
    <3>2. CASE main # "send"
      <4>1. last = <<>> /\ ToSend = outbox
        BY <3>2 DEF last
      <4>2. Tail(outbox) \o <<>> = Tail(outbox)
        BY <2>1, ConcatEmptySeq, HeadTailProperties
      <4> QED
        BY <2>1, <4>1, <4>2
    <3> QED
      BY <3>1, <3>2
  <2> QED
    BY <1>0, <1>1, <2>1, <2>2 DEF Drive!Next, Drive!Send
<1>3. CASE Acknowledge
  <2>1. inflight # <<>> /\ inflight' = Tail(inflight) /\ UNCHANGED <<outbox, wire>>
    BY <1>3 DEF Acknowledge
  <2> QED
    BY <1>0, <1>1, <2>1 DEF Drive!Next, Drive!Forget
<1>4. CASE Reconnect
  <2>1. outbox' = inflight \o outbox /\ inflight' = <<>> /\ wire' = wire
    BY <1>4 DEF Reconnect
  <2>2. (inflight \o outbox) \o last = inflight \o (outbox \o last)
    <3>1. outbox \in Seq(Topics) /\ inflight \in Seq(Topics) /\ last \in Seq(Topics)
      BY <1>1
    <3> HIDE ToSendType
    <3> QED
      BY <3>1, ConcatAssociative
  <2>3. ToSend' = inflight \o ToSend
    BY <1>1, <2>1, <2>2
  <2> QED
    BY <1>0, <2>1, <2>3 DEF Drive!Next, Drive!SendAgain
<1> QED
  BY <1>2, <1>3, <1>4

\* A step of joystickd; the reader thread changes the state only.
LEMMA JoystickMirrors ==
  ASSUME TypeOK, TypeOK', Next, UNCHANGED robbyVars
  PROVE  [Drive!Next]_Drive!vars
<1>0. robot' = robot
  BY DEF robbyVars
<1>1. CASE Handle
  <2>1. UNCHANGED <<main, command, inflight, wire>>
    BY <1>1 DEF Handle, mainVars
  <2>2. outbox' = outbox
    BY <1>1, NoPayload DEF Handle, HandleAxis, HandleButton, DiscardEvent, Sent
  <2>3. ToSend' = ToSend
    BY <2>1, <2>2 DEF ToSend
  <2>4. Subtopic[state'] \in Topics
    BY SubtopicType DEF TypeOK
  <2> QED
    BY <1>0, <2>1, <2>3, <2>4 DEF Drive!Next, Drive!Change
<1>2. CASE \/ User \/ Read \/ ReadFails
           \/ ParseArgs \/ Usage \/ Open \/ OpenFails \/ Register \/ Exited
  <2>1. /\ UNCHANGED <<state, command, outbox, inflight, wire>>
        /\ main' = main \/ (main # "send" /\ main' # "send")
    <3>1. CASE User
      BY <3>1 DEF User, MoveStick, PressButton, ReleaseButton, Unplug
    <3>2. CASE Read \/ ReadFails
      BY <3>2 DEF Read, ReadFails
    <3>3. CASE ParseArgs \/ Usage \/ Open \/ OpenFails \/ Register \/ Exited
      BY <3>3 DEF ParseArgs, Usage, Open, OpenFails, Register, Exited
    <3> QED
      BY <1>2, <3>1, <3>2, <3>3
  <2>2. ToSend' = ToSend
    BY <2>1 DEF ToSend
  <2> QED
    BY <1>0, <2>1, <2>2 DEF Drive!vars
<1> QED
  BY <1>1, <1>2, MainMirrors, NetMirrors DEF Next

\* A step of robbyd: a message is shown or lost at the front of the wire.
LEMMA RobbyMirrors ==
  ASSUME TypeOK, R!RobbyNext, UNCHANGED localVars
  PROVE  [Drive!Next]_Drive!vars
<1> USE ToSendType
<1>0. UNCHANGED <<state, ToSend, inflight>>
  BY DEF localVars, ToSend
<1>1. CASE R!OnMessage
  <2>1. wire # <<>> /\ wire' = Tail(wire) /\ robot' = R!Command(Head(wire))
    BY <1>1 DEF R!OnMessage, R!Written
  <2>2. Head(wire) \in Topics
    BY <2>1
  <2>3. robot' = Meaning[StateOf(Head(wire))]
    BY <2>1, <2>2, TablesAgree
  <2> QED
    BY <1>0, <2>1, <2>2, <2>3 DEF Drive!Next, Drive!Show
<1>2. CASE R!LoseMessage
  <2>1. wire # <<>> /\ wire' = Tail(wire) /\ robot' = robot
    BY <1>2 DEF R!LoseMessage, R!robbyVars
  <2>2. /\ 1 \in DOMAIN wire
        /\ wire' = SubSeq(wire, 1, 1 - 1) \o SubSeq(wire, 1 + 1, Len(wire))
    BY <2>1, WithoutFirst
  <2>3. Drive!Lose
    BY <1>0, <2>1, <2>2, Zenon DEF Drive!Lose, Drive!Without
  <2> QED
    BY <2>3, Zenon DEF Drive!Next
<1>3. CASE UNCHANGED <<wire, robot>>
  BY <1>0, <1>3 DEF Drive!vars
<1> QED
  BY <1>1, <1>2, <1>3
     DEF R!RobbyNext, R!Construct, R!Subscribe, R!RegisterBLEClient,
         R!OnConnect, R!OnDisconnect, R!Resolve

LEMMA DriveStep ==
  ControlTypeOK /\ ControlTypeOK' /\ [ControlNext]_controlVars
    => [Drive!Next]_Drive!vars
<1> SUFFICES ASSUME ControlTypeOK, ControlTypeOK', [ControlNext]_controlVars
             PROVE  [Drive!Next]_Drive!vars
  OBVIOUS
<1> USE DEF ControlTypeOK
<1>1. CASE Next /\ UNCHANGED robbyVars
  BY <1>1, JoystickMirrors
<1>2. CASE R!RobbyNext /\ UNCHANGED localVars
  BY <1>2, RobbyMirrors
<1>3. CASE UNCHANGED controlVars
  BY <1>3 DEF controlVars, robbyVars, Drive!vars, ToSend
<1> QED
  BY <1>1, <1>2, <1>3 DEF ControlNext

\* The robot carries out commands for states Steering has been in, in the order
\* in which it was in them, however long the queues between the two daemons: what
\* comes once more, and so after a later command, is only what was not acknowledged
\* when a session of joystickd ended
\* (Steering.cpp:95-138, MQTTClient.cpp:130-158, MQTTClientRobby.cpp:124-157).
THEOREM RobotMirrorsSteering == ControlSpec => ImplementsMirror
<1>1. ControlInit => Drive!Init
  <2> SUFFICES ASSUME ControlInit PROVE Drive!Init
    OBVIOUS
  <2>1. main # "send" /\ outbox = <<>> /\ inflight = <<>> /\ wire = <<>> /\ TypeOK
    BY TypeInit DEF ControlInit, Init
  <2>2. ToSend = <<>> /\ Subtopic[state] \in Topics
    BY <2>1, ToSendType
  <2> QED
    BY <2>1, <2>2 DEF Drive!Init
<1> QED
  BY <1>1, DriveStep, ControlType, PTL DEF ControlSpec, ImplementsMirror, Drive!Spec

-----------------------------------------------------------------------------
(* A robot at rest.                                                        *)

\* A list in which there is nothing but stop.
Stops == Seq({"stop"})

LEMMA StopsOnly ==
  ASSUME NEW s \in Seq(Topics)
  PROVE  (\A i \in DOMAIN s : s[i] = "stop") <=> s \in Stops
<1>1. ASSUME \A i \in DOMAIN s : s[i] = "stop" PROVE s \in Stops
  <2>1. Len(s) \in Nat /\ DOMAIN s = 1 .. Len(s) /\ s \in [1 .. Len(s) -> Topics]
    BY LenProperties
  <2>2. s \in [1 .. Len(s) -> {"stop"}]
    BY <1>1, <2>1
  <2> QED
    BY <2>1, <2>2 DEF Stops
<1>2. ASSUME s \in Stops PROVE \A i \in DOMAIN s : s[i] = "stop"
  BY <1>2, LenProperties, ElementOfSeq DEF Stops
<1> QED
  BY <1>1, <1>2

\* So it is with one of them taken out.
LEMMA StopsWithout ==
  ASSUME NEW s \in Stops, NEW k \in DOMAIN s
  PROVE  SubSeq(s, 1, k - 1) \o SubSeq(s, k + 1, Len(s)) \in Stops
<1>1. Len(s) \in Nat /\ k \in 1 .. Len(s)
  BY LenProperties DEF Stops
<1>2. \A i \in 1 .. Len(s) : s[i] \in {"stop"}
  BY ElementOfSeq DEF Stops
<1>3. SubSeq(s, 1, k - 1) \in Stops
  BY <1>1, <1>2, SubSeqProperties DEF Stops
<1>4. SubSeq(s, k + 1, Len(s)) \in Stops
  BY <1>1, <1>2, SubSeqProperties DEF Stops
<1> QED
  BY <1>3, <1>4, ConcatProperties DEF Stops

\* The robot's half follows from the mirror alone: what agrees with its source,
\* with no other sample on its way nor kept, stays so while the source does.
LEMMA MirrorRests ==
  ASSUME TypeOK, [Drive!Next]_Drive!vars, state = "STOP", robot = "S",
         wire \in Stops, ToSend \in Stops, inflight \in Stops
  PROVE  robot' = "S" /\ wire' \in Stops /\ ToSend' \in Stops /\ inflight' \in Stops
<1>1. Subtopic[state] = "stop" /\ Meaning[StateOf("stop")] = "S"
  <2>1. Subtopic[state] = "stop"
    BY DEF Subtopic
  <2>2. R!Command("stop") = Meaning[StateOf("stop")]
    BY <2>1, ToSendType, TablesAgree
  <2> QED
    BY <2>1, <2>2 DEF R!Command
<1>2. ASSUME NEW s \in Stops, s # <<>>
      PROVE  Head(s) = "stop" /\ Tail(s) \in Stops
  BY <1>2, HeadTailProperties DEF Stops
<1>3. ASSUME NEW s \in Stops PROVE Append(s, "stop") \in Stops
  BY <1>3, AppendProperties DEF Stops
<1>4. CASE Drive!Change \/ UNCHANGED Drive!vars
  BY <1>4, Zenon DEF Drive!Change, Drive!vars
<1>5. CASE Drive!Sample
  BY <1>1, <1>3, <1>5, Zenon DEF Drive!Sample
<1>6. CASE Drive!Send
  <2>1. /\ ToSend # <<>> /\ ToSend' = Tail(ToSend) /\ robot' = robot
        /\ inflight' = Append(inflight, Head(ToSend)) /\ wire' = Append(wire, Head(ToSend))
    BY <1>6, Zenon DEF Drive!Send
  <2>2. Head(ToSend) = "stop" /\ Tail(ToSend) \in Stops
    BY <1>2, <2>1
  <2>3. Append(inflight, "stop") \in Stops /\ Append(wire, "stop") \in Stops
    BY <1>3
  <2> QED
    BY <2>1, <2>2, <2>3
<1>7. CASE Drive!Forget
  <2>1. /\ inflight # <<>> /\ inflight' = Tail(inflight)
        /\ ToSend' = ToSend /\ wire' = wire /\ robot' = robot
    BY <1>7, Zenon DEF Drive!Forget
  <2> QED
    BY <1>2, <2>1
<1>8. CASE Drive!SendAgain
  <2>1. /\ ToSend' = inflight \o ToSend /\ inflight' = <<>>
        /\ wire' = wire /\ robot' = robot
    BY <1>8, Zenon DEF Drive!SendAgain
  <2>2. inflight \o ToSend \in Stops /\ <<>> \in Stops
    BY ConcatProperties, EmptySeq DEF Stops
  <2> QED
    BY <2>1, <2>2
<1>9. CASE Drive!Lose
  <2>1. inflight' = inflight /\ robot' = robot
    BY <1>9, Zenon DEF Drive!Lose
  <2>2. CASE \E i \in DOMAIN ToSend : ToSend' = Drive!Without(i, ToSend) /\ UNCHANGED wire
    BY <2>1, <2>2, StopsWithout, Zenon DEF Drive!Without
  <2>3. CASE \E i \in DOMAIN wire : wire' = Drive!Without(i, wire) /\ UNCHANGED ToSend
    BY <2>1, <2>3, StopsWithout, Zenon DEF Drive!Without
  <2> QED
    BY <1>9, <2>2, <2>3, Zenon DEF Drive!Lose
<1>10. ASSUME NEW s \in Stops, s # <<>>,
              robot' = [t \in Topics |-> Meaning[StateOf(t)]][Head(s)]
       PROVE  robot' = "S"
  <2>1. Head(s) = "stop" /\ "stop" \in Topics
    BY <1>1, <1>2, <1>10, ToSendType
  <2> QED
    BY <1>1, <1>10, <2>1
<1>11. CASE Drive!Show
  <2>1. /\ wire # <<>> /\ wire' = Tail(wire) /\ ToSend' = ToSend /\ inflight' = inflight
        /\ robot' = [t \in Topics |-> Meaning[StateOf(t)]][Head(wire)]
    BY <1>11, Zenon DEF Drive!Show
  <2> QED
    BY <1>2, <1>10, <2>1
<1>12. CASE Drive!SendAndShow
  <2>1. /\ ToSend # <<>> /\ ToSend' = Tail(ToSend) /\ wire' = wire
        /\ inflight' = inflight \/ inflight' = Append(inflight, Head(ToSend))
        /\ robot' = [t \in Topics |-> Meaning[StateOf(t)]][Head(ToSend)]
    BY <1>12, Zenon DEF Drive!SendAndShow
  <2>2. Append(inflight, "stop") \in Stops
    BY <1>3
  <2> QED
    BY <1>2, <1>10, <2>1, <2>2
<1> QED
  BY <1>4, <1>5, <1>6, <1>7, <1>8, <1>9, <1>11, <1>12 DEF Drive!Next

\* The joystick's half: without a report to handle, a centred stick has stopped
\* Steering, and only the user makes a report of an axis.
LEMMA CentredStops ==
  ASSUME StickInv, AtRest
  PROVE  state = "STOP"
<1> SUFFICES ASSUME NEW a \in Axes, NEW p \in {"low", "high"}, state = Towards[a][p]
             PROVE  FALSE
  BY Zenon DEF StickInv, AxisMoves
<1>1. stick[a] = p
  BY DEF StickInv, ReportInv, NoReport, AtRest
<1> QED
  BY <1>1 DEF AtRest

LEMMA NothingReported ==
  ASSUME TypeOK, AtRest, [ControlNext]_controlVars, stick' = stick, plugged'
  PROVE  \A a \in Axes : ~Awaited(a)' /\ ~(reader' = "handle" /\ OnAxis(event', a))
<1> SUFFICES ASSUME NEW a \in Axes
             PROVE  ~Awaited(a)' /\ ~(reader' = "handle" /\ OnAxis(event', a))
  OBVIOUS
<1>1. /\ plugged /\ pending \in Seq(Events)
      /\ \A i \in DOMAIN pending : ~OnAxis(pending[i], a)
      /\ ~(reader = "handle" /\ OnAxis(event, a))
  BY Zenon DEF AtRest, Awaited, TypeOK
<1>2. CASE UNCHANGED <<pending, reader, event>>
  BY <1>1, <1>2 DEF Awaited, OnAxis
<1>3. CASE Read
  <2>1. pending # <<>> /\ event' = Head(pending) /\ pending' = Tail(pending)
    BY <1>3 DEF Read
  <2>2. /\ Head(pending) = pending[1] /\ 1 \in DOMAIN pending
        /\ \A i \in DOMAIN Tail(pending) :
             Tail(pending)[i] = pending[i + 1] /\ i + 1 \in DOMAIN pending
    BY <1>1, <2>1
  <2> QED
    BY <1>1, <2>1, <2>2 DEF Awaited, OnAxis
<1>4. CASE Handle
  BY <1>1, <1>4 DEF Handle, Awaited, OnAxis
<1>5. CASE Open
  <2>1. pending' = <<InitEvent>> /\ reader' # "handle"
    BY <1>5 DEF Open, StartReaderThread
  <2>2. InitEvent.type # "axis"
    BY DEF InitEvent
  <2> QED
    BY <2>1, <2>2 DEF Awaited, OnAxis
<1>6. ASSUME NEW b \in Buttons, PressButton(b) \/ ReleaseButton(b)
      PROVE  ~Awaited(a)' /\ ~(reader' = "handle" /\ OnAxis(event', a))
  <2>1. PICK e \in ButtonEvents : Report(e)
    BY <1>6 DEF PressButton, ReleaseButton, ButtonEvents
  <2>2. e.type # "axis" /\ e \in Events
    BY DEF ButtonEvents, Events
  <2>3. UNCHANGED <<reader, event>>
    BY <1>6 DEF PressButton, ReleaseButton
  <2>4. pending' = pending \/ pending' = Append(pending, e)
    BY <2>1 DEF Report
  <2>5. CASE pending' = Append(pending, e)
    <3>1. ASSUME NEW i \in DOMAIN pending' PROVE ~OnAxis(pending'[i], a)
      <4>1. i \in DOMAIN pending \/ i = Len(pending) + 1
        BY <1>1, <2>2, <2>5, <3>1
      <4> QED
        BY <1>1, <2>2, <2>5, <4>1, AppendProperties DEF OnAxis
    <3> QED
      BY <1>1, <2>3, <3>1 DEF Awaited, OnAxis
  <2> QED
    BY <1>2, <2>3, <2>4, <2>5
<1>7. ~ \E b \in Axes, p \in Positions : MoveStick(b, p)
  <2> SUFFICES ASSUME NEW b \in Axes, NEW p \in Positions, MoveStick(b, p)
               PROVE  FALSE
    OBVIOUS
  <2>1. stick' = [stick EXCEPT ![b] = p] /\ p # stick[b] /\ stick \in [Axes -> Positions]
    BY DEF MoveStick, TypeOK
  <2> QED
    BY <2>1
<1>8. CASE Next
  BY <1>1, <1>2, <1>3, <1>4, <1>5, <1>6, <1>7, <1>8
     DEF Next, User, Unplug, ReadFails, ParseArgs, Usage, OpenFails, Register, Process,
         Publish, Drop, Deliver, Acknowledge, Reconnect, Exited
<1> QED
  BY <1>2, <1>8, Zenon DEF ControlNext, controlVars, localVars

\* A robot at rest stays there until somebody moves the stick or unplugs the
\* joystick, for any axes, buttons and queue bounds, whatever is lost, comes late or
\* is sent again (Joystick.cpp:61-87, Steering.cpp:37-138, MQTTClient.cpp:130-158,
\* MQTTClientRobby.cpp:124-157).
THEOREM RobotRests == ControlSpec => RestsUntilMoved
<1> DEFINE Rests == AtRest => AtRest' \/ stick' # stick \/ ~plugged'
<1>1. /\ StickInv /\ ControlTypeOK /\ ControlTypeOK' /\ [ControlNext]_controlVars
      => [Rests]_controlVars
  <2> SUFFICES ASSUME StickInv, ControlTypeOK, ControlTypeOK', [ControlNext]_controlVars,
                      AtRest, stick' = stick, plugged'
               PROVE  AtRest'
    BY Zenon
  <2>1. TypeOK /\ TypeOK' /\ state = "STOP" /\ [Drive!Next]_Drive!vars
    BY CentredStops, DriveStep DEF ControlTypeOK
  <2>2. /\ robot = "S" /\ wire \in Seq(Topics) /\ ToSend \in Seq(Topics)
        /\ inflight \in Seq(Topics)
    BY <2>1, ToSendType, Zenon DEF AtRest
  <2>3. wire \in Stops /\ ToSend \in Stops /\ inflight \in Stops
    BY <2>2, StopsOnly, Zenon DEF AtRest
  <2>4. robot' = "S" /\ wire' \in Stops /\ ToSend' \in Stops /\ inflight' \in Stops
    BY <2>1, <2>2, <2>3, MirrorRests
  <2>5. \A s \in {wire', ToSend', inflight'} : \A i \in DOMAIN s : s[i] = "stop"
    BY <2>4, LenProperties, ElementOfSeq DEF Stops
  <2>6. \A a \in Axes : ~Awaited(a)' /\ ~(reader' = "handle" /\ OnAxis(event', a))
    BY <2>1, NothingReported
  <2>7. plugged' /\ stick' = [a \in Axes |-> "mid"]
    BY Zenon DEF AtRest
  <2> QED
    BY <2>4, <2>5, <2>6, <2>7, Zenon DEF AtRest
<1> QED
  BY <1>1, ControlType, ControlStickInv, PTL DEF ControlSpec, RestsUntilMoved

=============================================================================
