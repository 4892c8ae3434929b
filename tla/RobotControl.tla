---------------------------- MODULE RobotControl ----------------------------
(***************************************************************************)
(* A joystick drives a robot: joystickd publishes the steering state, the  *)
(* broker passes the messages on, robbyd writes them to the robot.         *)
(***************************************************************************)
EXTENDS Joystickd

ASSUME RobbyAssumption == Subscription = Topics

VARIABLES robbyMain, bleClient, connected, subscribed, resolved, robot

R == INSTANCE Robbyd

robbyVars == <<robbyMain, bleClient, connected, subscribed, resolved, robot>>
controlVars == <<vars, robbyVars>>

ControlInit == Init /\ R!RobbyInit

\* The variables of joystickd other than the wire.
localVars ==
  <<mainVars, reader, event, state, userVars, pending, outbox, inflight, lamp>>

ControlNext ==
  \/ Next /\ UNCHANGED robbyVars
  \/ R!RobbyNext /\ UNCHANGED localVars

Joystick(A) == A /\ UNCHANGED robbyVars
Robby(A)    == A /\ UNCHANGED localVars

\* The threads run.  sendMessage(), an acknowledgement, and the way from the broker
\* to the robot may fail any number of times, but if tried for ever, not for ever.
ControlSpec ==
  /\ ControlInit /\ [][ControlNext]_controlVars
  /\ WF_controlVars(Joystick(Read \/ Handle))
  /\ WF_controlVars(Joystick(Register \/ Process))
  /\ SF_controlVars(Joystick(Publish))
  /\ WF_controlVars(Joystick(Deliver)) /\ SF_controlVars(Joystick(Acknowledge))
  /\ WF_controlVars(Robby(R!Construct \/ R!Subscribe \/ R!RegisterBLEClient))
  /\ WF_controlVars(Robby(R!OnConnect))
  /\ WF_controlVars(Robby(R!Resolve))
  /\ SF_controlVars(Robby(R!OnMessage))

-----------------------------------------------------------------------------
(* Properties.                                                             *)

ControlTypeOK == TypeOK /\ R!RobbyTypeOK

\* The command of Robby::Command that each steering state stands for: a second
\* way from states to commands, which does not go through the lists of topics.
Meaning == [STOP |-> "S", FORWARD |-> "F", BACKWARD |-> "B",
            LEFT |-> "L", RIGHT |-> "R",
            ROTATE_LEFT |-> "<", ROTATE_RIGHT |-> ">"]

\* What the library has still to send, and behind it what process() is about to
\* send.
ToSend == outbox \o IF main = "send" THEN <<Subtopic[command]>> ELSE <<>>

StateOf(topic) == CHOOSE s \in SteerStates : Subtopic[s] = topic

Drive == INSTANCE Mirror WITH
  Values <- Topics,
  Shown  <- [t \in Topics |-> Meaning[StateOf(t)]],
  Lossy  <- TRUE,
  source <- Subtopic[state],
  queue  <- ToSend,
  kept   <- inflight,
  way    <- wire,
  shown  <- robot

\* The robot carries out commands for states Steering has been in, in the order in
\* which it was in them: whatever messages are lost between the two daemons and
\* whatever the reader thread does between process() reading the state and sending
\* it, no command is made up.  One comes after a later one only in a new session
\* of joystickd, in which the library goes once more through all that is not
\* acknowledged; a command that is acknowledged never returns
\* (Steering.cpp:95-138, MQTTClient.cpp:130-158, MQTTClientRobby.cpp:124-157).
ImplementsMirror == Drive!Spec

\* The stick is centred, no report of it is still to be handled, the robot stands,
\* and neither on its way to it nor among what the library may send it again is
\* there anything else.
AtRest ==
  /\ plugged /\ stick = [a \in Axes |-> "mid"]
  /\ \A a \in Axes : ~Awaited(a) /\ ~(reader = "handle" /\ OnAxis(event, a))
  /\ robot = "S"
  /\ \A s \in {wire, ToSend, inflight} : \A i \in DOMAIN s : s[i] = "stop"

\* A robot at rest stays there until somebody moves the stick or unplugs the
\* joystick: neither the reader thread nor process(), neither what is lost between
\* the daemons or sent again, nor a robbyd that starts or reconnects late sets it
\* in motion.  (A robot that stands is not at rest while a command to move is not
\* acknowledged: the library may yet send it again.)
\* (Joystick.cpp:61-87, Steering.cpp:37-138, MQTTClientRobby.cpp:124-157)
RestsUntilMoved ==
  [][AtRest => AtRest' \/ stick' # stick \/ ~plugged']_controlVars

\* As long as the broker knows robbyd's subscription, a steering state that
\* stays is what the robot does in the end, whatever was lost before: process()
\* repeats it for ever, and the two lists of topics agree: "This list must be
\* equivalent to the one in [...] Steering.hpp"
\* (Steering.cpp:95-138, MQTTClientRobby.hpp:30-33, MQTTClientRobby.cpp:124-157).
RobotFollows ==
  \A s \in SteerStates :
    <>[](state = s /\ main # "exited" /\ subscribed)
      => <>[](robot = Meaning[s])

\* A stick that is let go of stops the robot, while the joystick is plugged in
\* (Steering.cpp:47-53, 65-71, 83-89).
ReleaseStops ==
  []plugged /\ <>[](subscribed /\ stick = [a \in Axes |-> "mid"])
    => <>[](robot = "S")

\* "The bridge can also be configured, to subscribe to MQTT messages [...] and
\* forward their content to a BLE characteristic" (README.md:14-16), for a
\* daemon that is connected to its broker.
ForwardsWhenConnected ==
  \A s \in SteerStates :
    <>[](state = s /\ main # "exited" /\ connected)
      => <>[](robot = Meaning[s])

=============================================================================
