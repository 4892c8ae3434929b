------------------------- MODULE Dustsensord_proofs -------------------------
(* Theorems about dustsensord, for any sensor, any values it may measure   *)
(* and any bounds of the two queues.                                       *)
EXTENDS Dustsensord, SequenceTheorems, TLAPS

-----------------------------------------------------------------------------
(* The inductive invariant: whatever is under way, from the serial line to *)
(* the broker, is the sensor's own.                                        *)

OwnReadings == {Reading(l, sensorId) : l \in Levels}
MeasuredValues(c) == {Measured(Quantity(c), l) : l \in Levels}

SourceInv ==
  /\ stream \in Seq(OwnReadings \cup {Noise})
  /\ answer \in OwnReadings \cup {<<>>}

\* What the main thread holds between a read and what it does with it.
MainInv ==
  /\ id \in {0, sensorId}
  /\ main \in {"mqtt10", "mqtt25", "loop", "send10", "send25"} => id = sensorId
  /\ main \in {"mqtt25", "loop", "send10", "send25"} => topicId = sensorId
  /\ main \in {"send10", "send25"} =>
       answer # <<>> /\ sample = [pm25 |-> answer[1], pm10 |-> answer[2]]

Messages == [topic : Topics, value : Nat]
OwnMessages(c) == [topic : {OwnTopic(c)}, value : MeasuredValues(c)]

OutboxInv ==
  \A c \in Objects :
    outbox[c] \in Seq(OwnMessages(c)) /\ inflight[c] \in Seq(OwnMessages(c))

DustInv == TypeOK /\ SourceInv /\ MainInv /\ OutboxInv /\ ShowsOwnQuantity

-----------------------------------------------------------------------------
(* Lemmas.                                                                 *)

\* Noise is no reading, and the parts of a reading are what they are called.
LEMMA ReadingParts ==
  ASSUME NEW l \in Levels, NEW i \in SensorIds
  PROVE  /\ Reading(l, i) # <<>> /\ Reading(l, i) \in Readings
         /\ Reading(l, i)[1] = l.pm25 /\ Reading(l, i)[2] = l.pm10
         /\ Reading(l, i)[3] = i
         /\ l = [pm25 |-> Reading(l, i)[1], pm10 |-> Reading(l, i)[2]]
<1>1. l \in [pm25 : Nat, pm10 : Nat]
  BY LevelsAssumption
<1>2. l = [pm25 |-> l.pm25, pm10 |-> l.pm10]
  BY <1>1
<1> QED
  BY <1>2 DEF Reading, Readings

\* What is left of a sequence when a part of it is taken.
LEMMA Rest ==
  ASSUME NEW S, NEW s \in Seq(S), NEW k \in 0..Len(s)
  PROVE  /\ SubSeq(s, k + 1, Len(s)) \in Seq(S)
         /\ Len(SubSeq(s, k + 1, Len(s))) <= Len(s)
<1>1. Len(s) \in Nat /\ k \in Nat /\ k <= Len(s)
  OBVIOUS
<1>2. k + 1 \in Int /\ Len(s) \in Int
  BY <1>1
<1>3. \A i \in k + 1 .. Len(s) : s[i] \in S
  BY <1>1
<1>4. /\ SubSeq(s, k + 1, Len(s)) \in Seq(S)
      /\ Len(SubSeq(s, k + 1, Len(s))) = IF k + 1 <= Len(s) THEN Len(s) - (k + 1) + 1 ELSE 0
  BY <1>2, <1>3, SubSeqProperties
<1> QED
  BY <1>1, <1>4

\* A part of length one.
LEMMA One ==
  ASSUME NEW S, NEW s \in Seq(S), NEW k \in 1..Len(s)
  PROVE  s[k] \in S /\ SubSeq(s, k, k)[1] = s[k]
<1>1. k \in Int /\ \A i \in k..k : s[i] \in S
  OBVIOUS
<1>2. \A i \in 1 .. k - k + 1 : SubSeq(s, k, k)[i] = s[k + i - 1]
  BY <1>1, SubSeqProperties
<1>3. k + 1 - 1 = k /\ 1 \in 1 .. k - k + 1
  OBVIOUS
<1> QED
  BY <1>2, <1>3

\* A call of read() answers with a reading of the stream, and leaves a rest of
\* it, or with nothing.
LEMMA Answer ==
  ASSUME TypeOK, SourceInv, ReadSucceeds
  PROVE  /\ stream' \in Seq(OwnReadings \cup {Noise})
         /\ Len(stream') <= MaxStream
         /\ \E l \in Levels : answer' = Reading(l, sensorId)
<1> DEFINE Items == OwnReadings \cup {Noise}
<1>1. PICK k \in 1..Len(stream) :
        /\ SubSeq(stream, k, k) \in {<<r>> : r \in Readings}
        /\ stream' = SubSeq(stream, k + 1, Len(stream))
        /\ answer' = SubSeq(stream, k, k)[1]
  <2>1. PICK k \in 1..Len(stream) :
          /\ Source!EndsFrame(k)
          /\ Source!Taken(k)
          /\ answer' = [f \in {<<r>> : r \in Readings} |-> f[1]]
                         [SubSeq(stream, k - 1 + 1, k)]
    BY DEF ReadSucceeds, Source!ReadFrame
  <2>2. k - 1 + 1 = k
    BY DEF TypeOK
  <2> QED
    BY <2>1, <2>2 DEF Source!EndsFrame, Source!Taken
<1>2. stream \in Seq(Items) /\ Len(stream) \in Nat /\ Len(stream) <= MaxStream
  BY DEF TypeOK, SourceInv
<1> HIDE DEF Items
<1>0. MaxStream \in Nat
  BY BoundsAssumption
<1>3. stream' \in Seq(Items) /\ Len(stream') <= MaxStream
  <2>1. k \in 0..Len(stream)
    BY <1>2
  <2>2. stream' = SubSeq(stream, k + 1, Len(stream))
    BY <1>1
  <2>3. stream' \in Seq(Items) /\ Len(stream') <= Len(stream)
    BY <1>2, <2>1, <2>2, Rest
  <2>4. Len(stream') \in Nat
    BY <2>3
  <2> QED
    BY <1>2, <1>0, <2>3, <2>4
<1>4. answer' = stream[k] /\ stream[k] \in Items /\ stream[k] \in Readings
  <2>1. stream[k] \in Items /\ SubSeq(stream, k, k)[1] = stream[k]
    BY <1>2, One
  <2>2. PICK r \in Readings : SubSeq(stream, k, k) = <<r>>
    BY <1>1
  <2>3. SubSeq(stream, k, k)[1] = r
    BY <2>2
  <2> QED
    BY <1>1, <2>1, <2>2, <2>3
<1>5. Noise \notin Readings
  BY ReadingParts DEF Noise, Readings
<1> QED
  BY <1>3, <1>4, <1>5 DEF OwnReadings, Items

LEMMA NoAnswer ==
  ASSUME TypeOK, SourceInv, ReadFails
  PROVE  /\ stream' \in Seq(OwnReadings \cup {Noise})
         /\ Len(stream') <= MaxStream
         /\ answer' = <<>>
<1> DEFINE Items == OwnReadings \cup {Noise}
<1>1. stream \in Seq(Items) /\ Len(stream) \in Nat /\ Len(stream) <= MaxStream
  BY DEF TypeOK, SourceInv
<1>2. CASE portOpen
  <2>1. PICK k \in 0..Len(stream) :
          stream' = SubSeq(stream, k + 1, Len(stream)) /\ answer' = <<>>
    BY <1>2 DEF ReadFails, Source!ReadNothing, Source!Taken
  <2>2. MaxStream \in Nat
    BY BoundsAssumption
  <2> HIDE DEF Items
  <2>3. stream' \in Seq(Items) /\ Len(stream') <= Len(stream)
    BY <1>1, <2>1, Rest
  <2>4. Len(stream') \in Nat
    BY <2>3
  <2> QED
    BY <1>1, <2>1, <2>2, <2>3, <2>4 DEF Items
<1>3. CASE ~portOpen
  BY <1>1, <1>3 DEF ReadFails
<1> QED
  BY <1>2, <1>3

\* The own items are items, whatever the time.
LEMMA OwnItems ==
  ASSUME sensorId \in SensorIds
  PROVE  /\ OwnReadings \subseteq Readings
         /\ \A s \in Seq(OwnReadings \cup {Noise}) : s \in Seq(Readings \cup {Noise})
<1>1. OwnReadings \subseteq Readings
  BY ReadingParts DEF OwnReadings
<1> QED
  BY <1>1

\* A client's own messages are messages.
LEMMA OwnMessage ==
  ASSUME sensorId \in SensorIds, NEW c \in Objects
  PROVE  OwnMessages(c) \subseteq Messages
<1>1. OwnTopic(c) \in Topics
  BY DEF OwnTopic, Topics
<1>2. MeasuredValues(c) \subseteq Nat
  <2>1. \A l \in Levels : l.pm25 \in Nat /\ l.pm10 \in Nat
    BY LevelsAssumption
  <2> QED
    BY <2>1 DEF MeasuredValues, Measured
<1> QED
  BY <1>1, <1>2 DEF OwnMessages, Messages

\* What changes nothing of all this.
LEMMA SameInv ==
  ASSUME DustInv, UNCHANGED vars
  PROVE  DustInv'
<1> USE DEF vars, mainVars, sensorVars, sourceVars, mqttVars
<1>1. TypeOK'
  BY DEF DustInv, TypeOK
<1>2. SourceInv' /\ MainInv' /\ OutboxInv' /\ ShowsOwnQuantity'
  BY DEF DustInv, SourceInv, MainInv, OutboxInv, ShowsOwnQuantity, OwnReadings,
         OwnTopic, OwnMessages, MeasuredValues
<1> QED
  BY <1>1, <1>2 DEF DustInv

\* Steps that leave what the library keeps and what is shown alone.
LEMMA SameOut ==
  ASSUME DustInv, UNCHANGED <<sensorId, outbox, inflight, shown>>
  PROVE  /\ OutboxInv' /\ ShowsOwnQuantity'
         /\ outbox' \in [Objects -> Seq([topic : Topics, value : Nat])]
         /\ inflight' \in [Objects -> Seq([topic : Topics, value : Nat])]
         /\ shown' \in [Topics -> Nat]
BY DEF DustInv, TypeOK, OutboxInv, ShowsOwnQuantity, OwnTopic, OwnMessages,
       MeasuredValues

\* A message of the client's own: it may go to the end of one of its sequences,
\* leave it, and go back with the others.
LEMMA OwnSequences ==
  ASSUME NEW M, NEW q \in Seq(M), NEW k \in Seq(M), NEW m \in M
  PROVE  /\ Append(q, m) \in Seq(M) /\ k \o q \in Seq(M) /\ <<>> \in Seq(M)
         /\ q # <<>> => Head(q) \in M /\ Tail(q) \in Seq(M)
<1>1. Append(q, m) \in Seq(M) /\ k \o q \in Seq(M) /\ <<>> \in Seq(M)
  OBVIOUS
<1>2. q # <<>> => Head(q) \in M /\ Tail(q) \in Seq(M)
  BY HeadTailProperties
<1> QED
  BY <1>1, <1>2

\* Steps of one client that keep to its own messages.
LEMMA OwnOut ==
  ASSUME DustInv, NEW c \in Objects,
         NEW q \in Seq(OwnMessages(c)), NEW k \in Seq(OwnMessages(c)),
         outbox' = [outbox EXCEPT ![c] = q], inflight' = [inflight EXCEPT ![c] = k],
         UNCHANGED sensorId
  PROVE  /\ OutboxInv'
         /\ outbox' \in [Objects -> Seq([topic : Topics, value : Nat])]
         /\ inflight' \in [Objects -> Seq([topic : Topics, value : Nat])]
<1>1. /\ outbox \in [Objects -> Seq(Messages)] /\ inflight \in [Objects -> Seq(Messages)]
      /\ sensorId \in SensorIds
  BY DEF DustInv, TypeOK, Messages
<1>2. q \in Seq(Messages) /\ k \in Seq(Messages)
  BY <1>1, OwnMessage, SeqMonotonic
<1>3. outbox' \in [Objects -> Seq(Messages)] /\ inflight' \in [Objects -> Seq(Messages)]
  <2> HIDE DEF DustInv
  <2> QED
    BY <1>1, <1>2
<1>4. \A d \in Objects :
        outbox'[d] \in Seq(OwnMessages(d)) /\ inflight'[d] \in Seq(OwnMessages(d))
  <2> SUFFICES ASSUME NEW d \in Objects
               PROVE  outbox'[d] \in Seq(OwnMessages(d))
                      /\ inflight'[d] \in Seq(OwnMessages(d))
    OBVIOUS
  <2>1. outbox[d] \in Seq(OwnMessages(d)) /\ inflight[d] \in Seq(OwnMessages(d))
    BY DEF DustInv, OutboxInv
  <2>2. CASE d = c
    BY <1>1, <2>2, Zenon
  <2>3. CASE d # c
    BY <1>1, <2>1, <2>3, Zenon
  <2> QED
    BY <2>2, <2>3
<1>5. OutboxInv'
  BY <1>4 DEF OutboxInv, OwnMessages, OwnTopic, MeasuredValues
<1> QED
  BY <1>3, <1>5 DEF Messages

-----------------------------------------------------------------------------
(* The sensor.                                                             *)

LEMMA MeasureInv ==
  ASSUME DustInv, Measure
  PROVE  DustInv'
<1> USE DEF mainVars, sensorVars, mqttVars
<1>1. PICK item \in {Reading(level, sensorId), Noise} :
        stream' = Append(stream, item)
  BY DEF Measure
<1>2. UNCHANGED <<mainVars, sensorVars, mqttVars, shown, answer>>
  BY DEF Measure, Source!Arrive
<1>3. item \in OwnReadings \cup {Noise}
  BY DEF DustInv, TypeOK, OwnReadings
<1>4. SourceInv'
  <2>1. stream' \in Seq(OwnReadings \cup {Noise})
    BY <1>1, <1>3 DEF DustInv, SourceInv
  <2> QED
    BY <1>2, <2>1 DEF DustInv, SourceInv, OwnReadings
<1>5. MainInv'
  BY <1>2 DEF DustInv, MainInv
<1>6. OutboxInv' /\ ShowsOwnQuantity'
  BY <1>2, SameOut
<1>7. TypeOK'
  <2>1. stream' \in Seq(Readings \cup {Noise})
    <3>1. item \in Readings \cup {Noise}
      BY ReadingParts DEF DustInv, TypeOK
    <3> QED
      BY <1>1, <3>1 DEF DustInv, TypeOK
  <2>2. Len(stream') <= MaxStream
    <3>1. Len(stream) < MaxStream
      BY DEF Measure
    <3>2. stream \in Seq(Readings \cup {Noise})
      BY DEF DustInv, TypeOK
    <3>3. item \in Readings \cup {Noise}
      BY ReadingParts DEF DustInv, TypeOK
    <3>4. Len(stream') = Len(stream) + 1 /\ Len(stream) \in Nat
      BY <1>1, <3>2, <3>3
    <3>5. MaxStream \in Nat
      BY BoundsAssumption
    <3> QED
      BY <3>1, <3>4, <3>5
  <2> QED
    BY <1>2, <2>1, <2>2 DEF DustInv, TypeOK
<1> QED
  BY <1>4, <1>5, <1>6, <1>7 DEF DustInv

LEMMA AirChangesInv ==
  ASSUME DustInv, AirChanges
  PROVE  DustInv'
<1> USE DEF mainVars, sourceVars, mqttVars
<1>1. /\ UNCHANGED <<mainVars, sensorId, asleep, sourceVars, mqttVars, shown>>
      /\ level' \in Levels
  BY DEF AirChanges
<1>2. TypeOK'
  BY <1>1 DEF DustInv, TypeOK
<1>3. SourceInv' /\ MainInv'
  BY <1>1 DEF DustInv, SourceInv, MainInv, OwnReadings
<1> QED
  BY <1>1, <1>2, <1>3, SameOut DEF DustInv

-----------------------------------------------------------------------------
(* The main thread.                                                        *)

\* Before it waits for the id.
LEMMA PrepareInv ==
  ASSUME DustInv, ParseArgs \/ OpenSensor \/ Wakeup
  PROVE  DustInv'
<1> USE DEF mainVars, sensorVars, sourceVars, mqttVars
<1>1. /\ UNCHANGED <<id, sample, topicId, sensorId, level, sourceVars, mqttVars, shown>>
      /\ main' \in {"open", "wakeup", "wait"}
      /\ {reachable, portOpen, asleep}' \subseteq BOOLEAN
  BY DEF DustInv, TypeOK, ParseArgs, OpenSensor, Wakeup
<1>2. TypeOK'
  BY <1>1 DEF DustInv, TypeOK
<1>3. SourceInv' /\ MainInv'
  BY <1>1 DEF DustInv, SourceInv, MainInv, OwnReadings
<1> QED
  BY <1>1, <1>2, <1>3, SameOut DEF DustInv

\* What both loops do with a reading.
LEMMA ReadInv ==
  ASSUME DustInv, ReadSucceeds, UNCHANGED <<sensorId, level>>
  PROVE  /\ SourceInv' /\ answer' # <<>>
         /\ stream' \in Seq(Readings \cup {Noise}) /\ Len(stream') <= MaxStream
         /\ answer' \in Readings
         /\ answer'[3] = sensorId
         /\ [pm25 |-> answer'[1], pm10 |-> answer'[2]] \in Levels
<1> USE DEF DustInv
<1>1. PICK l \in Levels : answer' = Reading(l, sensorId)
  BY Answer
<1>2. sensorId \in SensorIds
  BY DEF TypeOK
<1>3. /\ answer' # <<>> /\ answer' \in Readings /\ answer'[3] = sensorId
      /\ [pm25 |-> answer'[1], pm10 |-> answer'[2]] = l
  BY <1>1, <1>2, ReadingParts
<1>4. stream' \in Seq(OwnReadings \cup {Noise}) /\ Len(stream') <= MaxStream
  BY Answer
<1>5. SourceInv'
  BY <1>1, <1>4 DEF SourceInv, OwnReadings
<1> QED
  BY <1>2, <1>3, <1>4, <1>5, OwnItems

LEMMA ReadFailsInv ==
  ASSUME DustInv, ReadFails, UNCHANGED <<sensorId, level>>
  PROVE  /\ SourceInv'
         /\ stream' \in Seq(Readings \cup {Noise}) /\ Len(stream') <= MaxStream
         /\ answer' = <<>>
<1> USE DEF DustInv
<1>1. /\ stream' \in Seq(OwnReadings \cup {Noise}) /\ Len(stream') <= MaxStream
      /\ answer' = <<>>
  BY NoAnswer
<1>2. SourceInv'
  BY <1>1 DEF SourceInv, OwnReadings
<1> QED
  BY <1>1, <1>2, OwnItems DEF TypeOK

LEMMA AwaitIdInv ==
  ASSUME DustInv, AwaitId
  PROVE  DustInv'
<1> USE DEF sensorVars, mqttVars
<1>1. /\ main = "wait"
      /\ UNCHANGED <<reachable, portOpen, sample, topicId, sensorVars, mqttVars, shown>>
  BY DEF AwaitId
<1>2. CASE ReadSucceeds /\ id' = answer'[3]
             /\ main' = IF id' = 0 THEN "wait" ELSE "mqtt10"
  <2>1. id' = sensorId /\ main' \in {"wait", "mqtt10"}
    BY <1>1, <1>2, ReadInv
  <2>2. TypeOK'
    BY <1>1, <1>2, <2>1, ReadInv DEF DustInv, TypeOK
  <2>3. SourceInv' /\ MainInv'
    BY <1>1, <1>2, <2>1, ReadInv DEF DustInv, MainInv
  <2> QED
    BY <1>1, <2>2, <2>3, SameOut DEF DustInv
<1>3. CASE ReadFails /\ UNCHANGED <<id, main>>
  <2>1. TypeOK'
    BY <1>1, <1>3, ReadFailsInv DEF DustInv, TypeOK
  <2>2. SourceInv' /\ MainInv'
    BY <1>1, <1>3, ReadFailsInv DEF DustInv, MainInv
  <2> QED
    BY <1>1, <2>1, <2>2, SameOut DEF DustInv
<1> QED
  BY <1>2, <1>3 DEF AwaitId

LEMMA ConstructInv ==
  ASSUME DustInv, NameTopic \/ ConstructSecond
  PROVE  DustInv'
<1> USE DEF sensorVars, sourceVars
<1>1. PICK c \in Objects : Mqtt!Construct(c)
  BY DEF NameTopic, ConstructSecond, Objects
<1>2. /\ UNCHANGED <<reachable, portOpen, id, sample, sensorVars, sourceVars, shown>>
      /\ UNCHANGED <<online, connected, subscribed, listened, outbox, inflight>>
      /\ object' = [object EXCEPT ![c] = "alive"]
  BY <1>1 DEF NameTopic, ConstructSecond, Mqtt!Construct
<1>3. \/ main = "mqtt10" /\ main' = "mqtt25" /\ topicId' = id
      \/ main = "mqtt25" /\ main' = "loop" /\ topicId' = topicId
  BY DEF NameTopic, ConstructSecond
<1>4. TypeOK'
  BY <1>2, <1>3 DEF DustInv, TypeOK
<1>5. SourceInv' /\ MainInv'
  BY <1>2, <1>3 DEF DustInv, SourceInv, MainInv, OwnReadings
<1> QED
  BY <1>2, <1>4, <1>5, SameOut DEF DustInv

LEMMA ReadLoopInv ==
  ASSUME DustInv, ReadLoop
  PROVE  DustInv'
<1> USE DEF sensorVars, mqttVars
<1>1. /\ main = "loop"
      /\ UNCHANGED <<reachable, portOpen, topicId, sensorVars, mqttVars, shown>>
  BY DEF ReadLoop
<1>2. CASE /\ ReadSucceeds
           /\ id' = answer'[3]
           /\ sample' = [pm25 |-> answer'[1], pm10 |-> answer'[2]]
           /\ main' = "send10"
  <2>1. TypeOK'
    BY <1>1, <1>2, ReadInv DEF DustInv, TypeOK
  <2>2. SourceInv' /\ MainInv'
    BY <1>1, <1>2, ReadInv DEF DustInv, MainInv
  <2> QED
    BY <1>1, <2>1, <2>2, SameOut DEF DustInv
<1>3. CASE ReadFails /\ UNCHANGED <<id, sample, main>>
  <2>1. TypeOK'
    BY <1>1, <1>3, ReadFailsInv DEF DustInv, TypeOK
  <2>2. SourceInv' /\ MainInv'
    BY <1>1, <1>3, ReadFailsInv DEF DustInv, MainInv
  <2> QED
    BY <1>1, <2>1, <2>2, SameOut DEF DustInv
<1> QED
  BY <1>2, <1>3 DEF ReadLoop

\* A local that is sent is the client's own quantity, and so is its topic.
LEMMA SendInv ==
  ASSUME DustInv, NEW c \in Objects, Send(c) \/ SendFails(c)
  PROVE  DustInv'
<1> USE DEF sensorVars, sourceVars
<1>1. /\ UNCHANGED <<reachable, portOpen, id, sample, topicId, sensorVars, sourceVars,
                     shown>>
      /\ main \in {"send10", "send25"} /\ main' \in {"send25", "loop"}
      /\ UNCHANGED <<object, online, connected, subscribed, listened>>
  BY DEF Send, SendFails, Sending, Mqtt!SendMessage, mqttVars
<1>2. SourceInv' /\ MainInv'
  BY <1>1 DEF DustInv, SourceInv, MainInv, OwnReadings
<1>3. /\ sample \in Levels /\ topicId = sensorId /\ sensorId \in SensorIds
  <2>1. PICK l \in Levels : answer = Reading(l, sensorId)
    BY <1>1 DEF DustInv, SourceInv, MainInv, OwnReadings
  <2>2. sensorId \in SensorIds
    BY DEF DustInv, TypeOK
  <2>3. sample = l
    BY <1>1, <2>1, <2>2, ReadingParts DEF DustInv, MainInv
  <2> QED
    BY <1>1, <2>2, <2>3 DEF DustInv, MainInv
<1>4. /\ TopicOf(c) = OwnTopic(c) /\ TopicOf(c) \in Topics
      /\ ValueOf(c) \in MeasuredValues(c)
  BY <1>3 DEF TopicOf, OwnTopic, ValueOf, MeasuredValues, Measured, Quantity, Topics,
              Objects
<1>5. ValueOf(c) \in Nat
  <2>1. sample \in [pm25 : Nat, pm10 : Nat]
    BY <1>3, LevelsAssumption
  <2> QED
    BY <2>1 DEF ValueOf
<1>6. \/ UNCHANGED <<outbox, inflight>>
      \/ /\ UNCHANGED inflight
         /\ outbox' = [outbox EXCEPT ![c] =
              Append(@, [topic |-> TopicOf(c), value |-> ValueOf(c)])]
  BY DEF Send, SendFails, Mqtt!SendMessage, mqttVars
<1> DEFINE m == [topic |-> TopicOf(c), value |-> ValueOf(c)]
<1>7. m \in OwnMessages(c)
  BY <1>4 DEF OwnMessages
<1> HIDE DEF m
<1>8. /\ OutboxInv'
      /\ outbox' \in [Objects -> Seq([topic : Topics, value : Nat])]
      /\ inflight' \in [Objects -> Seq([topic : Topics, value : Nat])]
  <2>1. CASE UNCHANGED <<outbox, inflight>>
    BY <1>1, <2>1, SameOut
  <2>2. CASE UNCHANGED inflight /\ outbox' = [outbox EXCEPT ![c] = Append(@, m)]
    <3>1. outbox[c] \in Seq(OwnMessages(c)) /\ inflight[c] \in Seq(OwnMessages(c))
      BY DEF DustInv, OutboxInv
    <3>2. Append(outbox[c], m) \in Seq(OwnMessages(c))
      BY <1>7, <3>1, OwnSequences
    <3>3. inflight' = [inflight EXCEPT ![c] = inflight[c]]
      BY <2>2 DEF DustInv, TypeOK
    <3> QED
      BY <1>1, <2>2, <3>1, <3>2, <3>3, OwnOut
  <2> QED
    BY <1>6, <2>1, <2>2 DEF m
<1>9. TypeOK'
  BY <1>1, <1>8 DEF DustInv, TypeOK
<1>10. ShowsOwnQuantity'
  BY <1>1 DEF DustInv, ShowsOwnQuantity
<1> QED
  BY <1>2, <1>8, <1>9, <1>10 DEF DustInv

-----------------------------------------------------------------------------
(* The library and the broker.                                             *)

\* Sessions begin and are lost.
LEMMA SessionInv ==
  ASSUME DustInv, NEW c \in Objects,
         Connect(c) \/ Session(Mqtt!LoseSession(c))
  PROVE  DustInv'
<1> USE DEF mainVars, sensorVars, sourceVars
<1>1. /\ UNCHANGED <<mainVars, sensorVars, sourceVars, shown>>
      /\ UNCHANGED <<object, listened, outbox, inflight>>
      /\ subscribed' = {}
      /\ online' \in SUBSET Objects /\ connected' \in [Objects -> BOOLEAN]
  <2>1. CASE Connect(c)
    BY <2>1 DEF DustInv, TypeOK, Connect, Session, Mqtt!OnConnect
  <2>2. CASE Session(Mqtt!LoseSession(c))
    BY <2>2 DEF DustInv, TypeOK, Session, Mqtt!LoseSession
  <2> QED
    BY <2>1, <2>2
<1>2. TypeOK'
  BY <1>1 DEF DustInv, TypeOK
<1>3. SourceInv' /\ MainInv'
  BY <1>1 DEF DustInv, SourceInv, MainInv, OwnReadings
<1> QED
  BY <1>1, <1>2, <1>3, SameOut DEF DustInv

\* An acknowledgement comes, or none will come any more.
LEMMA AcknowledgeInv ==
  ASSUME DustInv, NEW c \in Objects,
         Session(Mqtt!OnDisconnect(c)) \/ Session(Mqtt!Acknowledged(c))
  PROVE  DustInv'
<1> USE DEF mainVars, sensorVars, sourceVars
<1>1. /\ UNCHANGED <<mainVars, sensorVars, sourceVars, shown>>
      /\ UNCHANGED <<object, online, subscribed, listened>>
      /\ connected' \in [Objects -> BOOLEAN]
  BY DEF DustInv, TypeOK, Session, Mqtt!OnDisconnect, Mqtt!Acknowledged
<1>2. outbox[c] \in Seq(OwnMessages(c)) /\ inflight[c] \in Seq(OwnMessages(c))
  BY DEF DustInv, OutboxInv
<1>3. /\ OutboxInv'
      /\ outbox' \in [Objects -> Seq([topic : Topics, value : Nat])]
      /\ inflight' \in [Objects -> Seq([topic : Topics, value : Nat])]
  <2>1. CASE Session(Mqtt!OnDisconnect(c))
    <3>1. /\ outbox' = [outbox EXCEPT ![c] = inflight[c] \o outbox[c]]
          /\ inflight' = [inflight EXCEPT ![c] = <<>>]
      BY <2>1 DEF Session, Mqtt!OnDisconnect
    <3>2. inflight[c] \o outbox[c] \in Seq(OwnMessages(c)) /\ <<>> \in Seq(OwnMessages(c))
      BY <1>2
    <3> QED
      BY <1>1, <3>1, <3>2, OwnOut
  <2>2. CASE Session(Mqtt!Acknowledged(c))
    <3>1. /\ UNCHANGED outbox /\ inflight[c] # <<>>
          /\ inflight' = [inflight EXCEPT ![c] = Tail(inflight[c])]
      BY <2>2 DEF Session, Mqtt!Acknowledged
    <3>2. outbox' = [outbox EXCEPT ![c] = outbox[c]]
      BY <3>1 DEF DustInv, TypeOK
    <3>3. Tail(inflight[c]) \in Seq(OwnMessages(c))
      BY <1>2, <3>1, HeadTailProperties
    <3> QED
      BY <1>1, <1>2, <3>1, <3>2, <3>3, OwnOut
  <2> QED
    BY <2>1, <2>2
<1>4. shown' \in [Topics -> Nat] /\ ShowsOwnQuantity'
  BY <1>1 DEF DustInv, TypeOK, ShowsOwnQuantity
<1>5. TypeOK'
  BY <1>1, <1>3, <1>4 DEF DustInv, TypeOK
<1>6. SourceInv' /\ MainInv'
  BY <1>1 DEF DustInv, SourceInv, MainInv, OwnReadings
<1> QED
  BY <1>3, <1>4, <1>5, <1>6 DEF DustInv

\* A message reaches the broker, and is kept for its acknowledgement.
LEMMA PublishInv ==
  ASSUME DustInv, NEW c \in Objects, Publish(c)
  PROVE  DustInv'
<1> USE DEF mainVars, sensorVars, sourceVars
<1> DEFINE m == Head(outbox[c])
<1>1. /\ UNCHANGED <<mainVars, sensorVars, sourceVars>>
      /\ UNCHANGED <<object, online, connected, subscribed, listened>>
      /\ outbox[c] # <<>>
      /\ outbox' = [outbox EXCEPT ![c] = Tail(outbox[c])]
      /\ inflight' = [inflight EXCEPT ![c] = Append(inflight[c], m)]
      /\ shown' = [shown EXCEPT ![m.topic] = m.value]
  BY DEF Publish, Mqtt!Delivered, Forward
<1> HIDE DEF m
<1>2. /\ m \in OwnMessages(c) /\ Tail(outbox[c]) \in Seq(OwnMessages(c))
      /\ Append(inflight[c], m) \in Seq(OwnMessages(c))
  <2>1. outbox[c] \in Seq(OwnMessages(c)) /\ inflight[c] \in Seq(OwnMessages(c))
    BY DEF DustInv, OutboxInv
  <2>2. m \in OwnMessages(c) /\ Tail(outbox[c]) \in Seq(OwnMessages(c))
    BY <1>1, <2>1, HeadTailProperties DEF m
  <2> QED
    BY <2>1, <2>2
<1>3. /\ OutboxInv'
      /\ outbox' \in [Objects -> Seq([topic : Topics, value : Nat])]
      /\ inflight' \in [Objects -> Seq([topic : Topics, value : Nat])]
  BY <1>1, <1>2, OwnOut
<1>4. m.topic = OwnTopic(c) /\ m.value \in MeasuredValues(c)
  BY <1>2 DEF OwnMessages
<1>5. m.topic \in Topics /\ m.value \in Nat
  BY <1>2, OwnMessage DEF DustInv, TypeOK, Messages
<1>6. shown' \in [Topics -> Nat]
  BY <1>1, <1>5 DEF DustInv, TypeOK
<1>7. TypeOK'
  BY <1>1, <1>3, <1>6 DEF DustInv, TypeOK
<1>8. SourceInv' /\ MainInv'
  BY <1>1 DEF DustInv, SourceInv, MainInv, OwnReadings
<1>9. ShowsOwnQuantity'
  <2> SUFFICES ASSUME NEW t \in Topics, shown'[t] # NoValue
               PROVE  t[2] = sensorId /\ \E l \in Levels : shown'[t] = Measured(t[3], l)
    BY <1>1 DEF ShowsOwnQuantity
  <2>1. t \in DOMAIN shown
    BY DEF DustInv, TypeOK
  <2>2. CASE t = m.topic
    <3>1. shown'[t] = m.value
      BY <1>1, <2>1, <2>2
    <3>2. t[2] = sensorId /\ t[3] = Quantity(c)
      BY <1>4, <2>2 DEF OwnTopic
    <3> QED
      BY <1>4, <3>1, <3>2 DEF MeasuredValues
  <2>3. CASE t # m.topic
    BY <1>1, <2>1, <2>3 DEF DustInv, ShowsOwnQuantity
  <2> QED
    BY <2>2, <2>3
<1> QED
  BY <1>3, <1>7, <1>8, <1>9 DEF DustInv

-----------------------------------------------------------------------------
(* Theorems.                                                               *)

LEMMA DustInit == Init => DustInv
<1> SUFFICES ASSUME Init
             PROVE  DustInv
  OBVIOUS
<1> USE DEF Init, Source!Init, Mqtt!MqttInit
<1>1. NoValue \in Nat
  BY DEF NoValue
<1>2. TypeOK
  <2>1. /\ stream \in Seq(Readings \cup {Noise}) /\ Len(stream) <= MaxStream
    <3>1. MaxStream \in Nat
      BY BoundsAssumption
    <3> QED
      BY <3>1
  <2>2. /\ outbox \in [Objects -> Seq([topic : Topics, value : Nat])]
        /\ inflight \in [Objects -> Seq([topic : Topics, value : Nat])]
    OBVIOUS
  <2>3. shown \in [Topics -> Nat]
    BY <1>1
  <2>4. /\ object \in [Objects -> {"none", "alive"}]
        /\ online \in SUBSET Objects /\ connected \in [Objects -> BOOLEAN]
    OBVIOUS
  <2> QED
    BY <2>1, <2>2, <2>3, <2>4 DEF TypeOK
<1>3. SourceInv /\ MainInv /\ OutboxInv
  BY DEF SourceInv, MainInv, OutboxInv
<1>4. ShowsOwnQuantity
  BY DEF ShowsOwnQuantity
<1> QED
  BY <1>2, <1>3, <1>4 DEF DustInv

LEMMA DustStep == DustInv /\ [Next]_vars => DustInv'
<1> SUFFICES ASSUME DustInv, [Next]_vars
             PROVE  DustInv'
  OBVIOUS
<1>1. CASE Measure
  BY <1>1, MeasureInv
<1>2. CASE AirChanges
  BY <1>2, AirChangesInv
<1>3. CASE Main
  BY <1>3, PrepareInv, AwaitIdInv, ConstructInv, ReadLoopInv, SendInv DEF Main
<1>4. ASSUME NEW c \in Objects, Broker(c)
      PROVE  DustInv'
  BY <1>4, SessionInv, AcknowledgeInv, PublishInv DEF Broker
<1>5. CASE UNCHANGED vars
  BY <1>5, SameInv
<1> QED
  BY <1>1, <1>2, <1>3, <1>4, <1>5 DEF Next

\* The daemon keeps the types of its variables.
THEOREM DustType == Spec => []TypeOK
<1>1. DustInv => TypeOK
  BY DEF DustInv
<1> QED
  BY <1>1, DustInit, DustStep, PTL DEF Spec

\* What is shown under a topic is a value of the topic's quantity that the
\* sensor named in the topic has measured (main.cpp:70-112).
THEOREM OwnQuantity == Spec => []ShowsOwnQuantity
<1>1. DustInv => ShowsOwnQuantity
  BY DEF DustInv
<1> QED
  BY <1>1, DustInit, DustStep, PTL DEF Spec

\* The two messages of a round carry the two values of the frame that the round
\* has read (main.cpp:106-119).
THEOREM RoundSendsItsFrame == Spec => SentIsRead
<1> DEFINE A == \A c \in Objects : Send(c) =>
                  answer # <<>> /\ ValueOf(c) = answer[IF c = "mqtt10" THEN 2 ELSE 1]
<1>1. DustInv => A
  <2> SUFFICES ASSUME DustInv, NEW c \in Objects, Send(c)
               PROVE  answer # <<>> /\ ValueOf(c) = answer[IF c = "mqtt10" THEN 2 ELSE 1]
    OBVIOUS
  <2>1. main \in {"send10", "send25"}
    BY DEF Send, Sending
  <2>2. answer # <<>> /\ sample = [pm25 |-> answer[1], pm10 |-> answer[2]]
    BY <2>1 DEF DustInv, MainInv
  <2> QED
    BY <2>2 DEF ValueOf, Objects
<1> HIDE DEF A
<1>2. Spec => [][A]_vars
  BY <1>1, DustInit, DustStep, PTL DEF Spec
<1> QED
  BY <1>2 DEF A, SentIsRead

-----------------------------------------------------------------------------
(* What is shown mirrors what was read.                                    *)

\* The topics of the two clients differ, also when they have one client id.
LEMMA TopicsDiffer ==
  ASSUME NEW c \in Objects, NEW d \in Objects, c # d
  PROVE  OwnTopic(c) # OwnTopic(d)
BY DEF Objects, OwnTopic, Quantity

\* The local a client sends is one of its values.
LEMMA LocalType ==
  ASSUME sample \in Levels \cup {NoSample}, NEW c \in Objects
  PROVE  ValueOf(c) \in OwnValues(c)
BY DEF Objects, ValueOf, OwnValues, Measured, Quantity

\* The values of messages go where the messages go.
LEMMA ValuesMapped ==
  ASSUME NEW M, NEW s \in Seq(M), NEW k \in Seq(M), NEW m \in M
  PROVE  /\ ValuesIn(<<>>) = <<>>
         /\ ValuesIn(Append(s, m)) = Append(ValuesIn(s), m.value)
         /\ ValuesIn(k \o s) = ValuesIn(k) \o ValuesIn(s)
         /\ s # <<>> => /\ ValuesIn(s) # <<>> /\ Head(ValuesIn(s)) = Head(s).value
                        /\ ValuesIn(Tail(s)) = Tail(ValuesIn(s))
<1>1. /\ Len(s) \in Nat /\ DOMAIN s = 1..Len(s)
      /\ Len(k) \in Nat /\ DOMAIN k = 1..Len(k)
  OBVIOUS
<1>2. /\ ValuesIn(s) = [i \in 1..Len(s) |-> s[i].value]
      /\ ValuesIn(k) = [i \in 1..Len(k) |-> k[i].value]
  BY <1>1 DEF ValuesIn
<1>3. Len(ValuesIn(s)) = Len(s) /\ Len(ValuesIn(k)) = Len(k)
  BY <1>1, <1>2
<1>4. ValuesIn(<<>>) = <<>>
  BY DEF ValuesIn
<1>5. ValuesIn(Append(s, m)) = Append(ValuesIn(s), m.value)
  <2>1. /\ DOMAIN Append(s, m) = 1..Len(s) + 1
        /\ \A i \in 1..Len(s) : Append(s, m)[i] = s[i]
        /\ Append(s, m)[Len(s) + 1] = m
    BY <1>1
  <2>2. ValuesIn(Append(s, m)) =
          [i \in 1..Len(s) + 1 |-> IF i <= Len(s) THEN s[i].value ELSE m.value]
    BY <1>1, <2>1 DEF ValuesIn
  <2> QED
    BY <1>1, <1>2, <2>2
<1>6. ValuesIn(k \o s) = ValuesIn(k) \o ValuesIn(s)
  <2>1. /\ DOMAIN (k \o s) = 1..Len(k) + Len(s)
        /\ \A i \in 1..Len(k) + Len(s) :
             (k \o s)[i] = IF i <= Len(k) THEN k[i] ELSE s[i - Len(k)]
    BY <1>1
  <2>2. ValuesIn(k \o s) =
          [i \in 1..Len(k) + Len(s) |->
             IF i <= Len(k) THEN k[i].value ELSE s[i - Len(k)].value]
    BY <1>1, <2>1 DEF ValuesIn
  <2> DEFINE V == {x.value : x \in M}
             joined == ValuesIn(k) \o ValuesIn(s)
  <2>3. ValuesIn(k) \in Seq(V) /\ ValuesIn(s) \in Seq(V)
    <3>1. /\ \A i \in 1..Len(k) : k[i].value \in V
          /\ \A i \in 1..Len(s) : s[i].value \in V
      BY <1>1, ElementOfSeq
    <3> HIDE DEF V
    <3> QED
      BY <1>1, <1>2, <3>1
  <2>4. /\ joined \in Seq(V) /\ Len(joined) = Len(k) + Len(s)
        /\ \A i \in 1..Len(k) + Len(s) :
             joined[i] = IF i <= Len(k) THEN ValuesIn(k)[i] ELSE ValuesIn(s)[i - Len(k)]
    <3> HIDE DEF V
    <3>1. /\ joined \in Seq(V) /\ Len(joined) = Len(ValuesIn(k)) + Len(ValuesIn(s))
          /\ \A i \in 1..Len(ValuesIn(k)) + Len(ValuesIn(s)) :
               joined[i] = IF i <= Len(ValuesIn(k)) THEN ValuesIn(k)[i]
                           ELSE ValuesIn(s)[i - Len(ValuesIn(k))]
      BY <2>3, ConcatProperties, Zenon
    <3> QED
      BY <1>3, <3>1, Zenon
  <2> HIDE DEF V, joined
  <2>5. joined = [i \in 1..Len(k) + Len(s) |-> joined[i]]
    BY <2>4
  <2>6. \A i \in 1..Len(k) + Len(s) :
          /\ i <= Len(k) => ValuesIn(k)[i] = k[i].value
          /\ ~(i <= Len(k)) => ValuesIn(s)[i - Len(k)] = s[i - Len(k)].value
    BY <1>1, <1>2
  <2>7. \A i \in 1..Len(k) + Len(s) :
          joined[i] = IF i <= Len(k) THEN k[i].value ELSE s[i - Len(k)].value
    BY <2>4, <2>6
  <2>8. ValuesIn(k \o s) = joined
    BY <2>2, <2>5, <2>7
  <2> QED
    BY <2>8 DEF joined
<1>7. ASSUME s # <<>>
      PROVE  /\ ValuesIn(s) # <<>> /\ Head(ValuesIn(s)) = Head(s).value
             /\ ValuesIn(Tail(s)) = Tail(ValuesIn(s))
  <2>1. Len(s) \in Nat \ {0} /\ Head(s) = s[1]
    BY <1>1, <1>7
  <2>2. ValuesIn(s) # <<>> /\ Head(ValuesIn(s)) = s[1].value
    BY <1>2, <2>1
  <2>3. /\ DOMAIN Tail(s) = 1..Len(s) - 1
        /\ \A i \in 1..Len(s) - 1 : Tail(s)[i] = s[i + 1]
    BY <2>1
  <2>4. ValuesIn(Tail(s)) = [i \in 1..Len(s) - 1 |-> s[i + 1].value]
    BY <2>3 DEF ValuesIn
  <2>5. Tail(ValuesIn(s)) = [i \in 1..Len(s) - 1 |-> s[i + 1].value]
    BY <1>2, <2>1
  <2> QED
    BY <2>1, <2>2, <2>4, <2>5
<1> QED
  BY <1>4, <1>5, <1>6, <1>7

\* What a step of the daemon may be for client d.
Queue(d) == ValuesIn(outbox[d])
Kept(d)  == ValuesIn(inflight[d])
Face(d)  == shown[OwnTopic(d)]

Changes(d) ==
  ValueOf(d)' \in OwnValues(d) /\ UNCHANGED <<Queue(d), Kept(d), Face(d)>>
Samples(d) ==
  /\ Queue(d)' = Append(Queue(d), ValueOf(d))
  /\ UNCHANGED <<ValueOf(d), Kept(d), Face(d)>>
Publishes(d) ==
  /\ Queue(d) # <<>> /\ Head(Queue(d)) \in OwnValues(d)
  /\ Queue(d)' = Tail(Queue(d)) /\ Kept(d)' = Append(Kept(d), Head(Queue(d)))
  /\ Face(d)' = Head(Queue(d))
  /\ UNCHANGED ValueOf(d)
Forgets(d) ==
  Kept(d) # <<>> /\ Kept(d)' = Tail(Kept(d)) /\ UNCHANGED <<ValueOf(d), Queue(d), Face(d)>>
GoesBack(d) ==
  Queue(d)' = Kept(d) \o Queue(d) /\ Kept(d)' = <<>> /\ UNCHANGED <<ValueOf(d), Face(d)>>

\* The local of a client, whatever the main thread does.
LEMMA LocalKept ==
  ASSUME DustInv, DustInv', sensorId' = sensorId, NEW d \in Objects
  PROVE  ValueOf(d)' \in OwnValues(d) /\ OwnTopic(d)' = OwnTopic(d)
<1>1. (sample \in Levels \cup {NoSample})'
  BY DEF DustInv, TypeOK
<1> QED
  BY <1>1 DEF Objects, ValueOf, OwnValues, Measured, Quantity, OwnTopic

\* What belongs to another client stays.
LEMMA OthersChange ==
  ASSUME DustInv, DustInv', sensorId' = sensorId, NEW d \in Objects,
         outbox'[d] = outbox[d], inflight'[d] = inflight[d],
         shown'[OwnTopic(d)] = shown[OwnTopic(d)]
  PROVE  Changes(d)
<1>1. ValueOf(d)' \in OwnValues(d) /\ OwnTopic(d)' = OwnTopic(d)
  BY LocalKept
<1> QED
  BY <1>1 DEF Changes, Queue, Kept, Face, ValuesIn

\* A message that is sent goes to the end of the client's own.
LEMMA SendGauge ==
  ASSUME DustInv, DustInv', NEW c \in Objects, NEW d \in Objects, Send(c)
  PROVE  Changes(d) \/ Samples(d)
<1> DEFINE m == [topic |-> TopicOf(c), value |-> ValueOf(c)]
<1>1. /\ outbox' = [outbox EXCEPT ![c] = Append(outbox[c], m)]
      /\ m.value = ValueOf(c)
      /\ UNCHANGED <<inflight, sample, sensorId, shown>>
  BY DEF Send, Sending, Mqtt!SendMessage, sensorVars
<1>2. DOMAIN outbox = Objects
  BY DEF DustInv, TypeOK
<1>3. CASE d = c
  <2>1. outbox'[c] = Append(outbox[c], m)
    BY <1>1, <1>2
  <2>2. outbox'[c] \in Seq(Messages) /\ outbox[c] \in Seq(Messages)
    BY DEF DustInv, TypeOK, Messages
  <2> HIDE DEF m
  <2>3. PICK M : outbox[c] \in Seq(M) /\ m \in M
    <3>1. outbox[c] \in Seq(Messages \cup {m}) /\ m \in Messages \cup {m}
      BY <2>2, SeqMonotonic
    <3> QED
      BY <3>1
  <2>4. ValuesIn(outbox'[c]) = Append(ValuesIn(outbox[c]), ValueOf(c))
    BY <1>1, <2>1, <2>3, ValuesMapped
  <2>5. UNCHANGED <<ValueOf(c), Kept(c), Face(c)>>
    BY <1>1 DEF ValueOf, Kept, ValuesIn, Face, OwnTopic
  <2>6. Queue(c)' = ValuesIn(outbox'[c])
    BY DEF Queue, ValuesIn
  <2> QED
    BY <1>3, <2>4, <2>5, <2>6 DEF Samples, Queue
<1>4. CASE d # c
  <2>1. outbox'[d] = outbox[d]
    BY <1>1, <1>2, <1>4
  <2> QED
    BY <1>1, <2>1, OthersChange
<1> QED
  BY <1>3, <1>4

\* A message that is published goes from the one sequence to the other.
LEMMA PublishGauge ==
  ASSUME DustInv, DustInv', NEW c \in Objects, NEW d \in Objects, Publish(c)
  PROVE  Changes(d) \/ Publishes(d)
<1> DEFINE m == Head(outbox[c])
<1>1. /\ UNCHANGED <<sample, sensorId>>
      /\ outbox[c] # <<>>
      /\ outbox' = [outbox EXCEPT ![c] = Tail(outbox[c])]
      /\ inflight' = [inflight EXCEPT ![c] = Append(inflight[c], m)]
      /\ shown' = [shown EXCEPT ![m.topic] = m.value]
  BY DEF Publish, Mqtt!Delivered, Forward, mainVars, sensorVars
<1>2. /\ DOMAIN outbox = Objects /\ DOMAIN inflight = Objects /\ DOMAIN shown = Topics
      /\ sensorId \in SensorIds
  BY DEF DustInv, TypeOK
<1>3. outbox[c] \in Seq(OwnMessages(c)) /\ inflight[c] \in Seq(OwnMessages(c))
  BY DEF DustInv, OutboxInv
<1>4. m \in OwnMessages(c)
  BY <1>1, <1>3, HeadTailProperties
<1>5. m.topic = OwnTopic(c) /\ m.value \in OwnValues(c)
  BY <1>4 DEF OwnMessages, MeasuredValues, OwnValues
<1>6. OwnTopic(c) \in Topics /\ OwnTopic(d) \in Topics
  BY <1>2 DEF OwnTopic, Topics
<1>7. UNCHANGED <<ValueOf(d), OwnTopic(d)>>
  BY <1>1 DEF ValueOf, OwnTopic
<1>8. CASE d = c
  <2>1. /\ Queue(c) # <<>> /\ Head(Queue(c)) = m.value
        /\ ValuesIn(Tail(outbox[c])) = Tail(Queue(c))
    BY <1>1, <1>3, <1>4, ValuesMapped DEF Queue
  <2>2. ValuesIn(Append(inflight[c], m)) = Append(Kept(c), m.value)
    BY <1>3, <1>4, ValuesMapped DEF Kept
  <2> HIDE DEF m
  <2>3. /\ outbox'[c] = Tail(outbox[c]) /\ inflight'[c] = Append(inflight[c], m)
        /\ shown'[OwnTopic(c)] = m.value
    BY <1>1, <1>2, <1>5, <1>6, Zenon
  <2>4. /\ Queue(c)' = ValuesIn(outbox'[c]) /\ Kept(c)' = ValuesIn(inflight'[c])
        /\ Face(c)' = shown'[OwnTopic(c)']
    BY DEF Queue, Kept, ValuesIn, Face
  <2> QED
    BY <1>5, <1>7, <1>8, <2>1, <2>2, <2>3, <2>4 DEF Publishes
<1>9. CASE d # c
  <2>1. OwnTopic(d) # OwnTopic(c)
    BY <1>9, TopicsDiffer
  <2> HIDE DEF m
  <2>2. /\ outbox'[d] = outbox[d] /\ inflight'[d] = inflight[d]
        /\ shown'[OwnTopic(d)] = shown[OwnTopic(d)]
    BY <1>1, <1>2, <1>5, <1>6, <1>9, <2>1
  <2> QED
    BY <1>1, <2>2, OthersChange
<1> QED
  BY <1>8, <1>9

\* An acknowledgement takes away the oldest copy, and the end of the session puts
\* the others back in front of what waits.
LEMMA AcknowledgeGauge ==
  ASSUME DustInv, DustInv', NEW c \in Objects, NEW d \in Objects,
         Session(Mqtt!OnDisconnect(c)) \/ Session(Mqtt!Acknowledged(c))
  PROVE  Changes(d) \/ Forgets(d) \/ GoesBack(d)
<1>1. UNCHANGED <<sample, sensorId, shown>>
  BY DEF Session, mainVars, sensorVars
<1>2. UNCHANGED <<ValueOf(d), Face(d)>>
  BY <1>1 DEF ValueOf, Face, OwnTopic
<1>3. DOMAIN outbox = Objects /\ DOMAIN inflight = Objects
  BY DEF DustInv, TypeOK
<1>4. outbox[c] \in Seq(OwnMessages(c)) /\ inflight[c] \in Seq(OwnMessages(c))
  BY DEF DustInv, OutboxInv
<1>5. Queue(d)' = ValuesIn(outbox'[d]) /\ Kept(d)' = ValuesIn(inflight'[d])
  BY DEF Queue, Kept, ValuesIn
<1>6. CASE d = c /\ Session(Mqtt!OnDisconnect(c))
  <2>1. outbox'[c] = inflight[c] \o outbox[c] /\ inflight'[c] = <<>>
    BY <1>3, <1>6 DEF Session, Mqtt!OnDisconnect
  <2>2. ValuesIn(<<>>) = <<>>
    BY DEF ValuesIn
  <2>3. ValuesIn(inflight[c] \o outbox[c]) = Kept(c) \o Queue(c)
    <3>1. PICK M : outbox[c] \in Seq(M) /\ inflight[c] \in Seq(M) /\ M # {}
      <4>1. OwnMessages(c) \subseteq OwnMessages(c) \cup {0}
        OBVIOUS
      <4>2. /\ outbox[c] \in Seq(OwnMessages(c) \cup {0})
            /\ inflight[c] \in Seq(OwnMessages(c) \cup {0})
        BY <1>4, <4>1, SeqMonotonic
      <4> QED
        BY <4>2
    <3> QED
      BY <3>1, ValuesMapped DEF Kept, Queue
  <2> QED
    BY <1>2, <1>5, <1>6, <2>1, <2>2, <2>3 DEF GoesBack
<1>7. CASE d = c /\ Session(Mqtt!Acknowledged(c))
  <2>1. /\ UNCHANGED outbox /\ inflight[c] # <<>>
        /\ inflight'[c] = Tail(inflight[c])
    BY <1>3, <1>7 DEF Session, Mqtt!Acknowledged
  <2>2. Head(inflight[c]) \in OwnMessages(c)
    BY <1>4, <2>1, HeadTailProperties
  <2>3. Kept(c) # <<>> /\ ValuesIn(Tail(inflight[c])) = Tail(Kept(c))
    BY <1>4, <2>1, <2>2, ValuesMapped DEF Kept
  <2>4. UNCHANGED Queue(c)
    BY <2>1 DEF Queue, ValuesIn
  <2> QED
    BY <1>2, <1>5, <1>7, <2>1, <2>3, <2>4 DEF Forgets
<1>8. CASE d # c
  <2>1. outbox'[d] = outbox[d] /\ inflight'[d] = inflight[d]
    BY <1>3, <1>8 DEF Session, Mqtt!OnDisconnect, Mqtt!Acknowledged
  <2> QED
    BY <1>1, <2>1, OthersChange
<1> QED
  BY <1>6, <1>7, <1>8

LEMMA GaugeStep ==
  ASSUME DustInv, DustInv', [Next]_vars, NEW d \in Objects
  PROVE  Changes(d) \/ Samples(d) \/ Publishes(d) \/ Forgets(d) \/ GoesBack(d)
<1> USE DEF mainVars, sensorVars, sourceVars, mqttVars
<1>1. ASSUME UNCHANGED <<sensorId, outbox, inflight, shown>> PROVE Changes(d)
  BY <1>1, OthersChange
<1>2. ASSUME NEW c \in Objects, Send(c) PROVE Changes(d) \/ Samples(d)
  BY <1>2, SendGauge
<1>3. ASSUME NEW c \in Objects, Publish(c) PROVE Changes(d) \/ Publishes(d)
  BY <1>3, PublishGauge
<1>4. ASSUME NEW c \in Objects,
             Session(Mqtt!OnDisconnect(c)) \/ Session(Mqtt!Acknowledged(c))
      PROVE  Changes(d) \/ Forgets(d) \/ GoesBack(d)
  BY <1>4, AcknowledgeGauge
<1>5. ASSUME NEW c \in Objects, Connect(c) \/ Session(Mqtt!LoseSession(c))
      PROVE  Changes(d)
  BY <1>1, <1>5 DEF Connect, Session, Mqtt!OnConnect, Mqtt!LoseSession
<1>6. CASE Measure \/ AirChanges
  BY <1>1, <1>6 DEF Measure, AirChanges
<1>7. CASE ParseArgs \/ OpenSensor \/ Wakeup \/ AwaitId \/ ReadLoop
  BY <1>1, <1>7 DEF ParseArgs, OpenSensor, Wakeup, AwaitId, ReadLoop
<1>8. CASE NameTopic \/ ConstructSecond
  BY <1>1, <1>8 DEF NameTopic, ConstructSecond, Mqtt!Construct
<1>9. ASSUME NEW c \in Objects, SendFails(c) PROVE Changes(d)
  BY <1>1, <1>9 DEF SendFails, Sending
<1>10. CASE UNCHANGED vars
  BY <1>1, <1>10 DEF vars
<1> QED
  BY <1>2, <1>3, <1>4, <1>5, <1>6, <1>7, <1>8, <1>9, <1>10 DEF Next, Main, Broker

\* What the library has taken is published in the order in which it was read, and
\* goes out again only as the library's window does: from the oldest message that
\* is not acknowledged to the newest (main.cpp:104-113, MQTTClient.cpp:130-158).
THEOREM PublishesWhatItRead == Spec => ImplementsMirrors
<1>1. Init => Gauge10!Init /\ Gauge25!Init
  <2> SUFFICES ASSUME Init PROVE Gauge10!Init /\ Gauge25!Init
    OBVIOUS
  <2>1. \A c \in Objects : ValueOf(c) \in OwnValues(c)
    BY LocalType DEF Init
  <2>2. \A c \in Objects : outbox[c] = <<>> /\ inflight[c] = <<>>
    BY DEF Init, Mqtt!MqttInit
  <2>3. \A c \in Objects : ValuesIn(outbox[c]) = <<>> /\ ValuesIn(inflight[c]) = <<>>
    BY <2>2 DEF ValuesIn
  <2> QED
    BY <2>1, <2>3 DEF Objects, Gauge10!Init, Gauge25!Init
<1>2. DustInv /\ DustInv' /\ [Next]_vars
        => [Gauge10!Next]_Gauge10!vars /\ [Gauge25!Next]_Gauge25!vars
  <2> SUFFICES ASSUME DustInv, DustInv', [Next]_vars
               PROVE  Gauge10!Next /\ Gauge25!Next
    OBVIOUS
  <2>1. "mqtt10" \in Objects /\ "mqtt25" \in Objects
    BY DEF Objects
  <2>2. Gauge10!Next
    <3> DEFINE d == "mqtt10"
    <3>1. CASE Changes(d)
      BY <3>1 DEF Changes, Queue, Kept, Face, Gauge10!Next, Gauge10!Change
    <3>2. CASE Samples(d)
      BY <3>2 DEF Samples, Queue, Kept, Face, Gauge10!Next, Gauge10!Sample
    <3>3. CASE Publishes(d)
      BY <3>3 DEF Publishes, Queue, Kept, Face, Same, Gauge10!Next, Gauge10!SendAndShow
    <3>4. CASE Forgets(d)
      BY <3>4 DEF Forgets, Queue, Kept, Face, Gauge10!Next, Gauge10!Forget
    <3>5. CASE GoesBack(d)
      BY <3>5 DEF GoesBack, Queue, Kept, Face, Gauge10!Next, Gauge10!SendAgain
    <3> QED
      BY <2>1, <3>1, <3>2, <3>3, <3>4, <3>5, GaugeStep
  <2>3. Gauge25!Next
    <3> DEFINE d == "mqtt25"
    <3>1. CASE Changes(d)
      BY <3>1 DEF Changes, Queue, Kept, Face, Gauge25!Next, Gauge25!Change
    <3>2. CASE Samples(d)
      BY <3>2 DEF Samples, Queue, Kept, Face, Gauge25!Next, Gauge25!Sample
    <3>3. CASE Publishes(d)
      BY <3>3 DEF Publishes, Queue, Kept, Face, Same, Gauge25!Next, Gauge25!SendAndShow
    <3>4. CASE Forgets(d)
      BY <3>4 DEF Forgets, Queue, Kept, Face, Gauge25!Next, Gauge25!Forget
    <3>5. CASE GoesBack(d)
      BY <3>5 DEF GoesBack, Queue, Kept, Face, Gauge25!Next, Gauge25!SendAgain
    <3> QED
      BY <2>1, <3>1, <3>2, <3>3, <3>4, <3>5, GaugeStep
  <2> QED
    BY <2>2, <2>3
<1> QED
  BY <1>1, <1>2, DustInit, DustStep, PTL
     DEF Spec, ImplementsMirrors, Gauge10!Spec, Gauge25!Spec

=============================================================================
