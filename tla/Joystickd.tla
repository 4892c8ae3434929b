------------------------------ MODULE Joystickd ------------------------------
(***************************************************************************)
(* joystickd: a reader thread takes events from the joystick device and    *)
(* hands them to Steering, which turns them into one steering state; the   *)
(* main thread publishes that state to the MQTT broker every 200 ms.       *)
(* There is no lock on the steering state.                                 *)
(*                                                                         *)
(* Values of an axis are told apart only by the thresholds of Steering:    *)
(* "low" is below -5000, "high" above 5000, "mid" anything between.  A     *)
(* message is modelled by its topic, and one to the alarm light by its     *)
(* payload.  sendMessage() drops it when the client is not connected or    *)
(* the library refuses it.  Otherwise the library keeps it until the       *)
(* broker has acknowledged it, and sends what is not acknowledged again in *)
(* the next session (MQTTClient); of the sessions only that is left.       *)
(***************************************************************************)
EXTENDS Naturals, Sequences

CONSTANTS
  Axes,       \* the axes the user moves
  Positions,  \* where the user moves an axis to
  Buttons,    \* the buttons the user presses
  Subscription, \* the messages that somebody subscribes to; the others are
                \* taken, and delivered in between, and change nothing
  MaxPending, \* bound on the events the kernel holds for the reader
  MaxOutbox,  \* bound on the messages the library keeps for this daemon
  MaxWire     \* bound on the messages between the broker and the subscriber

ASSUME InputsAssumption ==
  /\ Axes \subseteq 0..2 /\ Buttons \subseteq {4, 5}
  /\ "mid" \in Positions /\ Positions \subseteq {"low", "mid", "high"}

ASSUME BoundsAssumption ==
  MaxPending \in Nat \ {0} /\ MaxOutbox \in Nat \ {0} /\ MaxWire \in Nat \ {0}

VARIABLES
  main,      \* control of the main thread
  receiver,  \* Steering is registered with the joystick
  reader,    \* control of the reader thread
  event,     \* the event the reader thread holds
  state,     \* Steering::state
  command,   \* the state the main thread is about to publish
  plugged,   \* the joystick is plugged in
  stick,     \* where the user holds each axis
  pressed,   \* the buttons the user holds down
  pending,   \* the events in the kernel's queue, oldest first
  outbox,    \* the messages the library has still to send, oldest first
  inflight,  \* those it has sent and not seen acknowledged
  wire,      \* those on their way from the broker to the subscriber
  lamp       \* the last message to alarmlight/switch that the library took

mainVars == <<main, receiver, command>>
userVars == <<plugged, stick, pressed>>
mqttVars == <<outbox, inflight, wire>>
vars == <<mainVars, reader, event, state, userVars, pending, mqttVars, lamp>>

\* The thresholds of eventAxis: where each deflection steers to.
Towards == [a \in 0..2 |-> CASE a = 0 -> [low |-> "LEFT", high |-> "RIGHT"]
                             [] a = 1 -> [low |-> "FORWARD", high |-> "BACKWARD"]
                             [] a = 2 -> [low  |-> "ROTATE_LEFT",
                                          high |-> "ROTATE_RIGHT"]]

SteerStates == {"STOP", "FORWARD", "BACKWARD", "LEFT", "RIGHT",
                "ROTATE_LEFT", "ROTATE_RIGHT"}

\* The topic process() publishes a state to.
Subtopic == [STOP |-> "stop", FORWARD |-> "forward", BACKWARD |-> "backward",
             LEFT |-> "left", RIGHT |-> "right",
             ROTATE_LEFT |-> "rotateleft", ROTATE_RIGHT |-> "rotateright"]

Topics == {Subtopic[s] : s \in SteerStates}

\* The payloads to alarmlight/switch.
Payloads == {"0", "1"}

ASSUME SubscriptionAssumption == Subscription \subseteq Topics \cup Payloads

AxisEvents == [type : {"axis"}, number : Axes, value : Positions]
ButtonEvents ==
  [type : {"button"}, number : Buttons, value : {"pressed", "released"}]

\* A synthetic event the kernel sends when the device is opened.
InitEvent == [type |-> "init", number |-> 0, value |-> "mid"]

Events == AxisEvents \cup ButtonEvents \cup {InitEvent}

TypeOK ==
  /\ main \in {"parse", "open", "setup", "process", "send", "exited"}
  /\ receiver \in BOOLEAN
  /\ reader \in {"none", "read", "handle"}
  /\ event \in Events
  /\ state \in SteerStates
  /\ command \in SteerStates
  /\ plugged \in BOOLEAN
  /\ stick \in [Axes -> Positions]
  /\ pressed \in SUBSET Buttons
  /\ pending \in Seq(Events) /\ Len(pending) <= MaxPending
  /\ outbox \in Seq(Subscription) /\ inflight \in Seq(Subscription)
  /\ Len(outbox) + Len(inflight) <= MaxOutbox
  /\ wire \in Seq(Subscription) /\ Len(wire) <= MaxWire
  /\ lamp \in Payloads \cup {"unset"}

Init ==
  /\ main = "parse"
  /\ receiver = FALSE
  /\ reader = "none"
  /\ event = InitEvent
  /\ state = "STOP"
  /\ command = "STOP"
  /\ plugged = TRUE
  /\ stick = [a \in Axes |-> "mid"]
  /\ pressed = {}
  /\ pending = <<>>
  /\ outbox = <<>> /\ inflight = <<>> /\ wire = <<>>
  /\ lamp = "unset"

-----------------------------------------------------------------------------
(* The user and the kernel.                                                *)

IsOpen == main \notin {"parse", "open", "exited"}

\* The kernel queues an event for a device that is open.
Report(e) ==
  /\ plugged
  /\ IF IsOpen THEN Len(pending) < MaxPending /\ pending' = Append(pending, e)
               ELSE UNCHANGED pending

MoveStick(a, p) ==
  /\ p # stick[a]
  /\ Report([type |-> "axis", number |-> a, value |-> p])
  /\ stick' = [stick EXCEPT ![a] = p]
  /\ UNCHANGED <<mainVars, reader, event, state, plugged, pressed, mqttVars, lamp>>

PressButton(b) ==
  /\ b \notin pressed
  /\ Report([type |-> "button", number |-> b, value |-> "pressed"])
  /\ pressed' = pressed \cup {b}
  /\ UNCHANGED <<mainVars, reader, event, state, plugged, stick, mqttVars, lamp>>

ReleaseButton(b) ==
  /\ b \in pressed
  /\ Report([type |-> "button", number |-> b, value |-> "released"])
  /\ pressed' = pressed \ {b}
  /\ UNCHANGED <<mainVars, reader, event, state, plugged, stick, mqttVars, lamp>>

Unplug ==
  /\ plugged
  /\ plugged' = FALSE
  /\ UNCHANGED <<mainVars, reader, event, state, stick, pressed, pending, mqttVars,
                 lamp>>

User ==
  \/ \E a \in Axes, p \in Positions : MoveStick(a, p)
  \/ \E b \in Buttons : PressButton(b) \/ ReleaseButton(b)
  \/ Unplug

-----------------------------------------------------------------------------
(* The reader thread: Joystick::read() and the handlers it calls.          *)

\* ::read() blocks until there is an event.
Read ==
  /\ reader = "read"
  /\ plugged
  /\ pending # <<>>
  /\ event' = Head(pending)
  /\ pending' = Tail(pending)
  /\ reader' = "handle"
  /\ UNCHANGED <<mainVars, state, userVars, mqttVars, lamp>>

\* Without a joystick ::read() fails.  Its result is not looked at, so the
\* event is whatever the stack holds.
ReadFails ==
  /\ reader = "read"
  /\ ~plugged
  /\ event' \in Events
  /\ reader' = "handle"
  /\ UNCHANGED <<mainVars, state, userVars, pending, mqttVars, lamp>>

\* Faulty: a centred axis does not stop the movement it has started.
SteerOnwards(s, a, p) == IF p = "mid" THEN s ELSE Towards[a][p]

\* Faulty: the second of the two directions of an axis is forgotten.
SteerHalf(s, a, p) ==
  IF p # "mid" THEN Towards[a][p]
  ELSE IF s = Towards[a]["low"] THEN "STOP"
  ELSE s

\* eventAxis(): an axis that is deflected takes over, and one that is centred
\* stops the movement only if it was its own.
Steer(s, a, p) ==
  IF p # "mid" THEN Towards[a][p]
  ELSE IF s \in {Towards[a]["low"], Towards[a]["high"]} THEN "STOP"
  ELSE s

HandleAxis ==
  /\ receiver
  /\ event.type = "axis"
  /\ state' = Steer(state, event.number, event.value)
  /\ UNCHANGED <<outbox, lamp>>

\* sendMessage(), when the library takes the message.
Sent(message) ==
  IF message \in Subscription
  THEN Len(outbox) + Len(inflight) < MaxOutbox /\ outbox' = Append(outbox, message)
  ELSE UNCHANGED outbox

\* F1 switches the alarm light on, F2 off.
SwitchMessage(b) == IF b = 4 THEN "1" ELSE "0"

\* eventButton(): the value of the event, pressed or released, is not looked at,
\* and neither is the result of sendMessage().
HandleButton ==
  /\ receiver
  /\ event.type = "button"
  /\ \/ Sent(SwitchMessage(event.number)) /\ lamp' = SwitchMessage(event.number)
     \/ UNCHANGED <<outbox, lamp>>
  /\ UNCHANGED state

\* Nobody is registered yet, or a synthetic event.
DiscardEvent ==
  /\ ~receiver \/ event.type = "init"
  /\ UNCHANGED <<state, outbox, lamp>>

Handle ==
  /\ reader = "handle"
  /\ HandleAxis \/ HandleButton \/ DiscardEvent
  /\ reader' = "read"
  /\ UNCHANGED <<mainVars, event, userVars, pending, inflight, wire>>

-----------------------------------------------------------------------------
(* The main thread.                                                        *)

\* The thread may fail to start, which is only reported.
StartReaderThread == reader' \in {"read", "none"}

\* getopt(): every option but -? sets a variable.
ParseArgs ==
  /\ main = "parse"
  /\ main' = "open"
  /\ UNCHANGED <<receiver, command, reader, event, state, userVars, pending,
                 mqttVars, lamp>>

\* The usage is printed, and the daemon ends.
Usage ==
  /\ main = "parse"
  /\ main' = "exited"
  /\ UNCHANGED <<receiver, command, reader, event, state, userVars, pending,
                 mqttVars, lamp>>

\* The kernel greets the reader with synthetic events.
Open ==
  /\ main = "open"
  /\ plugged
  /\ main' = "setup"
  /\ pending' = <<InitEvent>>
  /\ StartReaderThread
  /\ UNCHANGED <<receiver, command, event, state, userVars, mqttVars, lamp>>

OpenFails ==
  /\ main = "open"
  /\ main' = "exited"
  /\ UNCHANGED <<receiver, command, reader, event, state, userVars, pending,
                 mqttVars, lamp>>

\* Without a receiver read() drops what it has read.
RegisterEventReceiver == receiver' = TRUE

\* The MQTT client and Steering are there: from now on events are handled.
Register ==
  /\ main = "setup"
  /\ main' = "process"
  /\ RegisterEventReceiver
  /\ UNCHANGED <<command, reader, event, state, userVars, pending, mqttVars, lamp>>

\* Faulty: the state is read only if nothing is on its way yet.
ProcessSparing ==
  /\ main = "process"
  /\ main' = "send"
  /\ command' = IF outbox = <<>> THEN state ELSE command
  /\ UNCHANGED <<receiver, reader, event, state, userVars, pending, mqttVars, lamp>>

\* process() reads the state ...
Process ==
  /\ main = "process"
  /\ main' = "send"
  /\ command' = state
  /\ UNCHANGED <<receiver, reader, event, state, userVars, pending, mqttVars, lamp>>

\* ... and publishes it ...
Publish ==
  /\ main = "send"
  /\ main' = "process"
  /\ Sent(Subtopic[command])
  /\ UNCHANGED <<receiver, command, reader, event, state, userVars, pending,
                 inflight, wire, lamp>>

\* ... or fails to, and goes on.
Drop ==
  /\ main = "send"
  /\ main' = "process"
  /\ UNCHANGED <<receiver, command, reader, event, state, userVars, pending,
                 mqttVars, lamp>>

-----------------------------------------------------------------------------
(* The library's thread, and the broker.                                   *)

\* The broker gets the oldest message that is not sent yet, and passes it on.
Deliver ==
  /\ outbox # <<>> /\ Len(wire) < MaxWire
  /\ outbox' = Tail(outbox)
  /\ inflight' = Append(inflight, Head(outbox))
  /\ wire' = Append(wire, Head(outbox))
  /\ UNCHANGED <<mainVars, reader, event, state, userVars, pending, lamp>>

\* The acknowledgement of the oldest one comes back.
Acknowledge ==
  /\ inflight # <<>>
  /\ inflight' = Tail(inflight)
  /\ UNCHANGED <<mainVars, reader, event, state, userVars, pending, outbox, wire, lamp>>

\* A session ends before its acknowledgements have come back.
Reconnect ==
  /\ inflight # <<>>
  /\ outbox' = inflight \o outbox
  /\ inflight' = <<>>
  /\ UNCHANGED <<mainVars, reader, event, state, userVars, pending, wire, lamp>>

\* exit(0) or exit(1)
Exited == main = "exited" /\ UNCHANGED vars

Next ==
  \/ User
  \/ Read \/ ReadFails \/ Handle
  \/ ParseArgs \/ Usage
  \/ Open \/ OpenFails \/ Register \/ Process \/ Publish \/ Drop
  \/ Deliver \/ Acknowledge \/ Reconnect
  \/ Exited

Spec == Init /\ [][Next]_vars

-----------------------------------------------------------------------------
(* Properties.                                                             *)

\* While the joystick is plugged in and no event of it is under way, Steering
\* moves only in a direction in which an axis is held, whatever other axes were
\* moved and recentred in between (Steering.cpp:37-90).
MovingMeansDeflected ==
  plugged /\ pending = <<>> /\ reader # "handle" /\ state # "STOP" =>
    \E a \in Axes, p \in {"low", "high"} :
      state = Towards[a][p] /\ stick[a] = p

\* "A joystick button has been pressed" (JoystickEventReceiver.hpp:24): while
\* the joystick is there, a message to the alarm light answers the press of its
\* button.
LampFollowsPress ==
  [][plugged /\ lamp' # lamp => event.value = "pressed"]_vars

\* The inductive invariant of the proofs: the last report on an axis that is
\* still under way says where the stick is, and an axis without a report under
\* way is where Steering believes it to be.
OnAxis(e, a) == e.type = "axis" /\ e.number = a

Awaited(a) == \E i \in DOMAIN pending : OnAxis(pending[i], a)

LastReport ==
  plugged => \A a \in Axes, i \in DOMAIN pending :
    OnAxis(pending[i], a)
      /\ (\A j \in DOMAIN pending : j > i => ~OnAxis(pending[j], a))
      => pending[i].value = stick[a]

HeldReport ==
  plugged => \A a \in Axes :
    reader = "handle" /\ OnAxis(event, a) /\ ~Awaited(a)
      => event.value = stick[a]

NoReport ==
  plugged => \A a \in Axes, p \in {"low", "high"} :
    ~Awaited(a) /\ ~(reader = "handle" /\ OnAxis(event, a))
      /\ state = Towards[a][p]
      => stick[a] = p

BeforeRegistration ==
  /\ ~IsOpen => pending = <<>> /\ reader = "none"
  /\ main \in {"parse", "open", "setup", "exited"} => ~receiver
  /\ ~receiver => state = "STOP"

ReportInv ==
  TypeOK /\ LastReport /\ HeldReport /\ NoReport /\ BeforeRegistration

\* Nothing but a deflected axis makes Steering move.
AxisMoves ==
  state # "STOP" => \E a \in Axes, p \in {"low", "high"} : state = Towards[a][p]

StickInv == ReportInv /\ AxisMoves

=============================================================================
