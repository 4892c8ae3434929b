----------------------------- MODULE Dustsensord -----------------------------
(***************************************************************************)
(* dustsensord: the main thread opens the sensor, waits for a frame with   *)
(* the sensor's id, names two topics after it, creates an MQTTClient for   *)
(* each, and then reads and publishes for good.  Both clients have the     *)
(* same client id.                                                         *)
(*                                                                         *)
(* The driver is used as FrameSource describes it, where a frame is one    *)
(* item of the stream; a piece of a frame, or noise, is another.  Options  *)
(* of the command line are told apart by whether they lead to the broker.  *)
(***************************************************************************)
EXTENDS Naturals, Sequences

CONSTANTS
  SensorIds,  \* the ids a sensor may have
  Levels,     \* what it may measure: PM2.5 and PM10
  MaxStream,  \* bound on what waits in the port and in the driver's queue
  MaxOutbox   \* bound on the messages the MQTT library keeps for each client

ASSUME IdsAssumption == SensorIds \subseteq 0..65535
ASSUME LevelsAssumption == Levels \subseteq [pm25 : Nat, pm10 : Nat]

VARIABLES
  main,        \* control of the main thread
  reachable,   \* host and port of the command line are the broker's
  portOpen,    \* SerialPort::open() has succeeded
  id,          \* the local id, which every successful read() sets
  sample,      \* the locals p25 and p10
  topicId,     \* the id in topic_pm10 and topic_pm25
  sensorId,    \* the id of the sensor on the line
  asleep,      \* the sensor measures nothing until it is woken up
  level,       \* what the sensor measures now
  stream,      \* FrameSource
  answer,      \* FrameSource
  object, online, connected, subscribed, listened, outbox, inflight,  \* MQTTClient
  shown        \* the value last published under each topic

mainVars == <<main, reachable, portOpen, id, sample, topicId>>
sensorVars == <<sensorId, asleep, level>>
sourceVars == <<stream, answer>>
mqttVars == <<object, online, connected, subscribed, listened, outbox, inflight>>
vars == <<mainVars, sensorVars, sourceVars, mqttVars, shown>>

Noise == <<>>
Reading(l, i) == <<l.pm25, l.pm10, i>>
Readings == {Reading(l, i) : l \in Levels, i \in SensorIds}

Source == INSTANCE FrameSource WITH
  Frames  <- {<<r>> : r \in Readings},
  Size    <- 1,
  Meaning <- [f \in {<<r>> : r \in Readings} |-> f[1]],
  Nothing <- <<>>

\* Faulty: an id of its own for each client.
ClientIdOwn(c) == c

\* Both objects are constructed with the id "dustsensord".
ClientId(c) == "dustsensord"

Objects == {"mqtt10", "mqtt25"}

ASSUME BoundsAssumption ==
  MaxStream \in Nat \ {0} /\ MaxOutbox \in [Objects -> Nat \ {0}]

Mqtt == INSTANCE MQTTClient WITH Id <- [c \in Objects |-> ClientId(c)]

\* The topics: the part after the id names the quantity.
Quantity(c) == IF c = "mqtt10" THEN "pm10" ELSE "pm2.5"
TopicOf(c) == <<"dustsensor", topicId, Quantity(c)>>
Topics == {<<"dustsensor", i, Quantity(c)>> : i \in SensorIds, c \in Objects}

NoValue == 65536
NoSample == [pm25 |-> NoValue, pm10 |-> NoValue]

TypeOK ==
  /\ main \in {"parse", "open", "wakeup", "wait", "mqtt10", "mqtt25", "loop",
               "send10", "send25"}
  /\ {reachable, portOpen, asleep} \subseteq BOOLEAN
  /\ {id, topicId} \subseteq SensorIds \cup {0}
  /\ sensorId \in SensorIds
  /\ level \in Levels /\ sample \in Levels \cup {NoSample}
  /\ stream \in Seq(Readings \cup {Noise}) /\ Len(stream) <= MaxStream
  /\ answer \in Readings \cup {<<>>}
  /\ object \in [Objects -> {"none", "alive"}]
  /\ online \in SUBSET Objects /\ connected \in [Objects -> BOOLEAN]
  /\ subscribed = {} /\ listened = {}
  /\ {outbox, inflight} \subseteq [Objects -> Seq([topic : Topics, value : Nat])]
  /\ shown \in [Topics -> Nat]

Init ==
  /\ main = "parse"
  /\ reachable = TRUE /\ portOpen = FALSE
  /\ id = 0 /\ topicId = 0 /\ sample = NoSample
  /\ sensorId \in SensorIds /\ asleep \in BOOLEAN /\ level \in Levels
  /\ Source!Init /\ Mqtt!MqttInit
  /\ shown = [t \in Topics |-> NoValue]

-----------------------------------------------------------------------------
(* The sensor.                                                             *)

\* A sensor at work sends a frame, or a piece of one.
Measure ==
  /\ ~asleep /\ Len(stream) < MaxStream
  /\ \E item \in {Reading(level, sensorId), Noise} : stream' = Append(stream, item)
  /\ Source!Arrive
  /\ UNCHANGED <<mainVars, sensorVars, mqttVars, shown>>

AirChanges ==
  /\ \E l \in Levels \ {level} : level' = l
  /\ UNCHANGED <<mainVars, sensorId, asleep, sourceVars, mqttVars, shown>>

-----------------------------------------------------------------------------
(* The main thread.                                                        *)

\* getopt(): -h and -p may name another broker.  A port that strtol() does not
\* take leaves the default as it is.
ParseArgs ==
  /\ main = "parse" /\ main' = "open"
  /\ reachable' \in BOOLEAN
  /\ UNCHANGED <<portOpen, id, sample, topicId, sensorVars, sourceVars, mqttVars,
                 shown>>

\* The constructor of SDS011 does not look at the result of open().
OpenSensor ==
  /\ main = "open" /\ main' = "wakeup"
  /\ portOpen' \in BOOLEAN
  /\ UNCHANGED <<reachable, id, sample, topicId, sensorVars, sourceVars, mqttVars,
                 shown>>

\* wakeup() writes one byte, and any byte wakes the sensor.  Whether the write
\* has succeeded, and the byte has got there, nobody looks at.
Wakeup ==
  /\ main = "wakeup" /\ main' = "wait"
  /\ asleep' \in {asleep, asleep /\ ~portOpen}
  /\ UNCHANGED <<reachable, portOpen, id, sample, topicId, sensorId, level,
                 sourceVars, mqttVars, shown>>

\* read(): without an open port there is nothing to read.
ReadSucceeds == portOpen /\ Source!ReadFrame
ReadFails == IF portOpen THEN Source!ReadNothing
                         ELSE answer' = <<>> /\ UNCHANGED stream

\* Faulty: the id is taken from another place of the frame.
AwaitIdSwapped ==
  /\ main = "wait"
  /\ \/ ReadSucceeds /\ id' = answer'[1] /\ main' = IF id' = 0 THEN "wait" ELSE "mqtt10"
     \/ ReadFails /\ UNCHANGED <<id, main>>
  /\ UNCHANGED <<reachable, portOpen, sample, topicId, sensorVars, mqttVars, shown>>

\* Faulty: the id of the frame goes into a variable of the loop's own.
AwaitIdShadowed ==
  /\ main = "wait"
  /\ \/ ReadSucceeds /\ UNCHANGED id /\ main' = IF id = 0 THEN "wait" ELSE "mqtt10"
     \/ ReadFails /\ UNCHANGED <<id, main>>
  /\ UNCHANGED <<reachable, portOpen, sample, topicId, sensorVars, mqttVars, shown>>

\* The loop that waits for an id passes over a frame whose id is 0.
AwaitId ==
  /\ main = "wait"
  /\ \/ ReadSucceeds /\ id' = answer'[3] /\ main' = IF id' = 0 THEN "wait" ELSE "mqtt10"
     \/ ReadFails /\ UNCHANGED <<id, main>>
  /\ UNCHANGED <<reachable, portOpen, sample, topicId, sensorVars, mqttVars, shown>>

\* The topics are put together and the clients constructed one after the other.
NameTopic ==
  /\ main = "mqtt10" /\ main' = "mqtt25"
  /\ topicId' = id
  /\ Mqtt!Construct("mqtt10")
  /\ UNCHANGED <<reachable, portOpen, id, sample, sensorVars, sourceVars, shown>>

ConstructSecond ==
  /\ main = "mqtt25" /\ main' = "loop"
  /\ Mqtt!Construct("mqtt25")
  /\ UNCHANGED <<reachable, portOpen, id, sample, topicId, sensorVars, sourceVars,
                 shown>>

\* Faulty: what read() returns is not looked at.
ReadLoopBlindly ==
  /\ main = "loop" /\ main' = "send10"
  /\ \/ /\ ReadSucceeds
        /\ id' = answer'[3]
        /\ sample' = [pm25 |-> answer'[1], pm10 |-> answer'[2]]
     \/ ReadFails /\ UNCHANGED <<id, sample>>
  /\ UNCHANGED <<reachable, portOpen, topicId, sensorVars, mqttVars, shown>>

\* One read of the endless loop.
ReadLoop ==
  /\ main = "loop"
  /\ \/ /\ ReadSucceeds
        /\ id' = answer'[3]
        /\ sample' = [pm25 |-> answer'[1], pm10 |-> answer'[2]]
        /\ main' = "send10"
     \/ ReadFails /\ UNCHANGED <<id, sample, main>>
  /\ UNCHANGED <<reachable, portOpen, topicId, sensorVars, mqttVars, shown>>

\* Faulty: both messages carry the same local.
ValueOfSame(c) == sample.pm10

ValueOf(c) == IF c = "mqtt10" THEN sample.pm10 ELSE sample.pm25

\* sendMessage(float*) of one client and then of the other ...
Sending(c) ==
  /\ main = (IF c = "mqtt10" THEN "send10" ELSE "send25")
  /\ main' = IF c = "mqtt10" THEN "send25" ELSE "loop"
  /\ UNCHANGED <<reachable, portOpen, id, sample, topicId, sensorVars, sourceVars,
                 shown>>

Send(c) == Sending(c) /\ Mqtt!SendMessage(c, TopicOf(c), ValueOf(c))

\* ... whose result nobody looks at.
SendFails(c) == Sending(c) /\ UNCHANGED mqttVars

Main ==
  \/ ParseArgs \/ OpenSensor \/ Wakeup \/ AwaitId \/ NameTopic \/ ConstructSecond
  \/ ReadLoop \/ \E c \in Objects : Send(c) \/ SendFails(c)

-----------------------------------------------------------------------------
(* The threads of the MQTT library, and the broker.                        *)

Session(A) == A /\ UNCHANGED <<mainVars, sensorVars, sourceVars, shown>>

Connect(c) == reachable /\ Session(Mqtt!OnConnect(c))

Forward(c) ==
  LET m == Head(outbox[c]) IN shown' = [shown EXCEPT ![m.topic] = m.value]

Publish(c) ==
  /\ Mqtt!Delivered(c) /\ Forward(c)
  /\ UNCHANGED <<mainVars, sensorVars, sourceVars>>

Broker(c) ==
  \/ Connect(c) \/ Session(Mqtt!LoseSession(c)) \/ Session(Mqtt!OnDisconnect(c))
  \/ Publish(c) \/ Session(Mqtt!Acknowledged(c))

Next == Measure \/ AirChanges \/ Main \/ \E c \in Objects : Broker(c)

\* The main thread and those of the library run, and the sensor measures.  A
\* read, a message to the library, and one from there to the broker may fail any
\* number of times, but if tried for ever, not for ever.
Fairness ==
  /\ WF_vars(Main) /\ SF_vars(Measure /\ stream' = <<Reading(level, sensorId)>>)
  /\ SF_vars((AwaitId \/ ReadLoop) /\ ReadSucceeds)
  /\ \A c \in Objects :
       /\ WF_vars(Connect(c) \/ Session(Mqtt!OnDisconnect(c)))
       /\ SF_vars(Send(c)) /\ SF_vars(Publish(c))

Spec == Init /\ [][Next]_vars /\ Fairness

-----------------------------------------------------------------------------
(* Properties.                                                             *)

\* A value under a topic is one that the sensor has measured, and of the quantity
\* the topic names: neither a local that no read has set, nor the other client's
\* value (main.cpp:70-112).  The sensor on the line is not exchanged.
Measured(q, l) == IF q = "pm10" THEN l.pm10 ELSE l.pm25

ShowsOwnQuantity ==
  \A t \in Topics : shown[t] # NoValue =>
    t[2] = sensorId /\ \E l \in Levels : shown[t] = Measured(t[3], l)

\* The two messages of a round carry the two values of one frame, the one the
\* round has read: a round that fails sends nothing of an earlier one
\* (main.cpp:106-119).
SentIsRead ==
  [][\A c \in Objects : Send(c) =>
       answer # <<>> /\ ValueOf(c) = answer[IF c = "mqtt10" THEN 2 ELSE 1]]_vars

\* The values of client c under way, and the topic they belong under.
OwnTopic(c) == <<"dustsensor", sensorId, Quantity(c)>>
OwnValues(c) == {Measured(Quantity(c), l) : l \in Levels \cup {NoSample}}
Same(c) == [v \in OwnValues(c) |-> v]
ValuesIn(s) == [i \in DOMAIN s |-> s[i].value]

Gauge10 == INSTANCE Mirror WITH
  Values <- OwnValues("mqtt10"), Shown <- Same("mqtt10"), Lossy <- FALSE,
  source <- ValueOf("mqtt10"),   queue <- ValuesIn(outbox["mqtt10"]),
  kept   <- ValuesIn(inflight["mqtt10"]), way <- <<>>,
  shown  <- shown[OwnTopic("mqtt10")]

Gauge25 == INSTANCE Mirror WITH
  Values <- OwnValues("mqtt25"), Shown <- Same("mqtt25"), Lossy <- FALSE,
  source <- ValueOf("mqtt25"),   queue <- ValuesIn(outbox["mqtt25"]),
  kept   <- ValuesIn(inflight["mqtt25"]), way <- <<>>,
  shown  <- shown[OwnTopic("mqtt25")]

\* What the library has taken is published in the order in which it was read:
\* through any number of lost sessions, while the other client's values go the
\* same way, no value is left out and none is published before it is read.  An
\* older value may come after a newer one only in a new session, which begins
\* with all that the last one has left unacknowledged and goes through it to
\* the newest; a value that is acknowledged never returns
\* (main.cpp:104-113, MQTTClient.cpp:130-158).
ImplementsMirrors == Gauge10!Spec /\ Gauge25!Spec

\* A sensor that is at work is found, if its port is there, unless its id is 0:
\* the loop that waits takes the id from the frame (main.cpp:64-74).  One that
\* the wake-up byte has not reached is waited for in vain.
FindsSensor ==
  main = "wait" /\ portOpen /\ ~asleep /\ sensorId # 0 ~> main = "loop"

\* Where the broker can be reached, no session lasts: even on a network that
\* never fails the two end each other's, because they have one client id
\* (main.cpp:83-100).
NoSessionLasts ==
  \A c \in Objects :
    main = "loop" /\ reachable /\ c \in online ~> c \notin online

\* What the air stays at is shown in the end, if only the daemon happens to send
\* while the client's session is there, again and again: what the library keeps
\* for a session that has ended reaches the broker in the next, before what
\* is sent in that one (main.cpp:104-113).
LevelShown ==
  \A c \in Objects, l \in Levels :
    <>[](level = l /\ reachable)
      /\ []<>(main = (IF c = "mqtt10" THEN "send10" ELSE "send25") /\ connected[c]
              /\ Len(outbox[c]) + Len(inflight[c]) < MaxOutbox[c])
      => <>[](shown[OwnTopic(c)] = Measured(Quantity(c), l))

=============================================================================
