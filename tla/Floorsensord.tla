---------------------------- MODULE Floorsensord ----------------------------
(***************************************************************************)
(* floorsensord: one BLEClient per configured beacon reads the values of   *)
(* up to 15 floor sensors, a ValueSplitter per beacon turns each reading   *)
(* into one MQTT message per enabled sensor, and all splitters publish     *)
(* through one MQTTClient.  The main thread imports the configuration,     *)
(* builds three lists from it, associates beacons and splitters by their   *)
(* place in the lists, and deletes everything when pause() returns.        *)
(*                                                                         *)
(* A BLEClient is used here as GattAccess describes it.  A value keeps its *)
(* two bytes, because the splitter puts them together as plain chars,      *)
(* whose sign is up to the compiler.  Of a JSON file, the beacons and the  *)
(* key their sensors are under are kept.                                   *)
(***************************************************************************)
EXTENDS Naturals, Sequences

CONSTANTS
  Addresses,     \* the addresses of beacons, in upper case
  Boards,        \* the checkerboard ids; an empty one is ""
  MaxBeacons,    \* bound on the beacons of a configuration
  NumSensors,    \* the sensors of a beacon (15 in the code)
  Readings,      \* what the sensors of a beacon may show: two bytes per sensor
  CharIsSigned,  \* a plain char is signed, as on x86 but not on ARM
  IndexLimit     \* values of the index of a uint8_t loop (256 in the code)

Beacons == 0..MaxBeacons - 1
Sensors == 0..NumSensors - 1

\* A beacon without an event receiver; a topic without a value.
NoSplitter == MaxBeacons
NoValue == 65536

ASSUME BoundsAssumption ==
  /\ MaxBeacons \in Nat /\ NumSensors \in Nat \ {0} /\ IndexLimit \in Nat \ {0}

ASSUME ReadingsAssumption ==
  /\ \A r \in Readings : r \in [Sensors -> [high : 0..255, low : 0..255]]
  /\ CharIsSigned \in BOOLEAN

BeaconConfigs ==
  [address : Addresses, sensors : Seq([index : Sensors, board : Boards])]

NoFile == [key |-> "none", beacons |-> <<>>]
Files == [key : {"sensor", "sensors"}, beacons : Seq(BeaconConfigs)] \cup {NoFile}

VARIABLES
  main,       \* control of the main thread
  file,       \* the JSON file
  checkFlag,  \* config_check_flag
  config,     \* Config::jconfig
  index,      \* the loop index of associateBeaconsAndValueSplitters()
  life,       \* of the BLEClients (GattAccess)
  resolved,   \* their characteristics are resolved (GattAccess)
  accessing,  \* the readers between their check and the end of the round
  receiver,   \* the place of the splitter a beacon delivers to
  splitters,  \* the splitters exist
  mqtt,       \* the MQTT client exists
  connected,  \* MQTTClient::connected
  level,      \* what the sensors of a beacon show now
  data,       \* the reading a reader delivers, possibly empty
  sensor,     \* the sensor the splitter of a beacon looks at next
  board       \* the value handed last to the MQTT client for each topic

configVars == <<file, checkFlag, config>>
listVars == <<index, receiver, splitters>>
gattVars == <<life, resolved, accessing>>
eventVars == <<data, sensor, board>>
mainVars == <<main, configVars, listVars, mqtt>>
vars == <<mainVars, gattVars, connected, level, eventVars>>

Gatt == INSTANCE GattAccess WITH Clients <- Beacons

\* MQTTClient::sendMessage(string, string): the default topic is a parent path,
\* unless the subtopic is empty.
Topic(id) == IF id = "" THEN <<"floorsensor">> ELSE <<"floorsensor", id>>
Topics == {Topic(id) : id \in Boards}

TypeOK ==
  /\ main \in {"parse", "import", "check", "mqtt", "beacons", "splitters",
               "associate", "pause", "deleteBeacons", "deleteSplitters",
               "deleteMqtt", "exit"}
  /\ checkFlag \in BOOLEAN
  /\ config \in Seq(BeaconConfigs) /\ Len(config) <= MaxBeacons
  /\ index \in 0..IndexLimit - 1
  /\ life \in [Beacons -> {"unborn", "alive", "dead"}]
  /\ resolved \in [Beacons -> BOOLEAN]
  /\ accessing \subseteq Beacons
  /\ receiver \in [Beacons -> Beacons \cup {NoSplitter}]
  /\ {splitters, mqtt, connected} \subseteq BOOLEAN
  /\ level \in [Addresses -> Readings]
  /\ data \in [Beacons -> Readings \cup {<<>>}]
  /\ sensor \in [Beacons -> 0..NumSensors]
  /\ board \in [Topics -> 0..NoValue]

Init ==
  /\ main = "parse"
  /\ file \in Files /\ checkFlag = FALSE /\ config = <<>>
  /\ index = 0
  /\ life = [b \in Beacons |-> "unborn"]
  /\ resolved = [b \in Beacons |-> FALSE]
  /\ accessing = {}
  /\ receiver = [b \in Beacons |-> NoSplitter]
  /\ splitters = FALSE /\ mqtt = FALSE /\ connected = FALSE
  /\ level \in [Addresses -> Readings]
  /\ data = [b \in Beacons |-> <<>>]
  /\ sensor = [b \in Beacons |-> NumSensors]
  /\ board = [t \in Topics |-> NoValue]

MainGoto(from, to) == main = from /\ main' = to

-----------------------------------------------------------------------------
(* The configuration.                                                      *)

\* -c asks for a check, -f may name another file.
ParseArgs ==
  /\ MainGoto("parse", "import")
  /\ checkFlag' \in BOOLEAN
  /\ UNCHANGED <<file, config, listVars, mqtt>>

\* from_json() asks each beacon for its "sensors" and throws without them.
Readable(f) == f # NoFile /\ (f.key = "sensors" \/ f.beacons = <<>>)

\* importJSON(): an exception leaves no beacons, and main() does not look at
\* the result.
ImportJSON ==
  /\ MainGoto("import", IF checkFlag THEN "check" ELSE "mqtt")
  /\ Len(file.beacons) <= MaxBeacons
  /\ config' = IF Readable(file) THEN file.beacons ELSE <<>>
  /\ UNCHANGED <<file, checkFlag, listVars, mqtt>>

PrintCheck ==
  /\ MainGoto("check", "exit")
  /\ UNCHANGED <<configVars, listVars, mqtt>>

ConstructMqtt ==
  /\ MainGoto("mqtt", "beacons")
  /\ mqtt' = TRUE
  /\ UNCHANGED <<configVars, listVars>>

\* The beacons of the configuration, by their place in it.
Configured == 0..Len(config) - 1

\* The entries of a beacon for one of its sensors.
Entries(b, s) ==
  {k \in DOMAIN config[b + 1].sensors : config[b + 1].sensors[k].index = s}

Enabled(b) == {s \in Sensors : Entries(b, s) # {}}

\* setCheckerboardId(): a later entry replaces an earlier one.
CheckerboardId(b, s) ==
  LET k == CHOOSE k \in Entries(b, s) : \A j \in Entries(b, s) : j <= k
  IN  config[b + 1].sensors[k].board

-----------------------------------------------------------------------------
(* The main thread.                                                        *)

\* generateBeacons() constructs one BLEClient after the other.
GenerateBeacon(b) ==
  /\ main = "beacons"
  /\ b \in Configured /\ \A c \in Beacons : c < b => life[c] # "unborn"
  /\ Gatt!Create(b)
  /\ UNCHANGED <<mainVars, connected, level, eventVars>>

BeaconsGenerated ==
  /\ \A b \in Configured : life[b] # "unborn"
  /\ MainGoto("beacons", "splitters")
  /\ UNCHANGED <<configVars, listVars, mqtt>>

\* generateValueSplitters(): no thread knows the splitters yet.
GenerateSplitters ==
  /\ MainGoto("splitters", "associate")
  /\ splitters' = TRUE
  /\ UNCHANGED <<configVars, index, receiver, mqtt>>

\* Faulty: every beacon gets the next beacon's splitter.
AssociateShifted ==
  /\ index < Len(config)
  /\ receiver' = [receiver EXCEPT ![index] = (index + 1) % Len(config)]
  /\ index' = (index + 1) % IndexLimit
  /\ UNCHANGED <<main, configVars, splitters, mqtt>>

\* Faulty: an index too narrow for the list, as for 256 beacons.
AssociateNarrow ==
  /\ index < Len(config)
  /\ receiver' = [receiver EXCEPT ![index] = index]
  /\ index' = (index + 1) % (IndexLimit - 1)
  /\ UNCHANGED <<main, configVars, splitters, mqtt>>

\* One round of associateBeaconsAndValueSplitters().
Associate ==
  /\ index < Len(config)
  /\ receiver' = [receiver EXCEPT ![index] = index]
  /\ index' = (index + 1) % IndexLimit
  /\ UNCHANGED <<main, configVars, splitters, mqtt>>

Associated ==
  /\ index >= Len(config)
  /\ MainGoto("associate", "pause")
  /\ UNCHANGED <<configVars, listVars, mqtt>>

\* pause() returns.
Signal ==
  /\ MainGoto("pause", "deleteBeacons")
  /\ UNCHANGED <<configVars, listVars, mqtt>>

\* The BLEClient's destructor waits for the end of its reader's round.
DeleteBeacon(b) ==
  /\ main = "deleteBeacons"
  /\ \A c \in Beacons : c < b => life[c] = "dead"
  /\ Gatt!Destroy(b)
  /\ UNCHANGED <<mainVars, connected, level, eventVars>>

\* Faulty: the splitters go while the beacons are being deleted.
BeaconsDeletedEarly ==
  /\ MainGoto("deleteBeacons", "deleteSplitters")
  /\ UNCHANGED <<configVars, listVars, mqtt>>

BeaconsDeleted ==
  /\ \A b \in Configured : life[b] = "dead"
  /\ MainGoto("deleteBeacons", "deleteSplitters")
  /\ UNCHANGED <<configVars, listVars, mqtt>>

DeleteSplitters ==
  /\ MainGoto("deleteSplitters", "deleteMqtt")
  /\ splitters' = FALSE
  /\ UNCHANGED <<configVars, index, receiver, mqtt>>

DeleteMqtt ==
  /\ MainGoto("deleteMqtt", "exit")
  /\ mqtt' = FALSE
  /\ UNCHANGED <<configVars, listVars>>

Setup ==
  \/ \E b \in Beacons : GenerateBeacon(b)
  \/ /\ \/ ParseArgs \/ ImportJSON \/ PrintCheck \/ ConstructMqtt
        \/ BeaconsGenerated \/ GenerateSplitters
        \/ main = "associate" /\ Associate
        \/ Associated
     /\ UNCHANGED <<gattVars, connected, level, eventVars>>

Cleanup ==
  \/ \E b \in Beacons : DeleteBeacon(b)
  \/ /\ Signal \/ BeaconsDeleted \/ DeleteSplitters \/ DeleteMqtt
     /\ UNCHANGED <<gattVars, connected, level, eventVars>>

-----------------------------------------------------------------------------
(* The reader thread of a beacon, and the splitter and MQTT client it      *)
(* calls.                                                                  *)

\* The connection thread resolves the characteristic.
Resolve(b) == Gatt!Resolve(b) /\ UNCHANGED <<mainVars, connected, level, eventVars>>

\* read_value(): a reading of all sensors ...
ReadValue(b) ==
  /\ Gatt!BeginAccess(b)
  /\ data' = [data EXCEPT ![b] = level[config[b + 1].address]]
  /\ UNCHANGED <<mainVars, connected, level, sensor, board>>

\* Faulty: the bytes of some earlier read are delivered once more.
ReadFailsStale(b) ==
  /\ Gatt!BeginAccess(b)
  /\ \E r \in Readings : data' = [data EXCEPT ![b] = r]
  /\ UNCHANGED <<mainVars, connected, level, sensor, board>>

\* ... or nothing.
ReadFails(b) ==
  /\ Gatt!BeginAccess(b)
  /\ data' = [data EXCEPT ![b] = <<>>]
  /\ UNCHANGED <<mainVars, connected, level, sensor, board>>

\* ValueSplitter::event() takes the event, if there is a splitter and the
\* length is right; the loop over the sensors starts.
BeginSplit(b) ==
  /\ b \in accessing /\ sensor[b] = NumSensors
  /\ receiver[b] # NoSplitter /\ DOMAIN data[b] = Sensors
  /\ sensor' = [sensor EXCEPT ![b] = 0]
  /\ UNCHANGED <<mainVars, gattVars, connected, level, data, board>>

\* The reader's round ends, and with it the life of the event.
EndRound(b) ==
  /\ Gatt!EndAccess(b)
  /\ data' = [data EXCEPT ![b] = <<>>]

\* The event is discarded, and the round ends.
DiscardEvent(b) ==
  /\ EndRound(b)
  /\ sensor[b] = NumSensors
  /\ receiver[b] = NoSplitter \/ DOMAIN data[b] # Sensors
  /\ UNCHANGED <<mainVars, connected, level, sensor, board>>

\* Faulty: the high byte is shifted too far, and the word not cut to 16 bits.
SensorValueWide(word) ==
  IF CharIsSigned /\ word.low >= 128 THEN 65280 + word.low
                                     ELSE 65536 * word.high + word.low

\* The word bleData[2i+1] | (bleData[2i] << 8), where a signed low byte of 128
\* or more covers the high byte with its sign.
SensorValue(word) ==
  IF CharIsSigned /\ word.low >= 128 THEN 65280 + word.low
                                     ELSE 256 * word.high + word.low

\* Faulty: the first sensor that is not enabled ends the loop.
NextSensorBroken(b) ==
  IF sensor[b] \in Enabled(receiver[b]) THEN sensor[b] + 1 ELSE NumSensors

NextSensor(b) == sensor[b] + 1

\* The splitter's own array says whether the sensor is enabled.
SensorEnabled(b) == sensor[b] \in Enabled(receiver[b])

\* One round of the loop; the last one is also the end of the reader's.
SplitRound(b) ==
  /\ b \in accessing
  /\ sensor[b] < NumSensors
  /\ sensor' = [sensor EXCEPT ![b] = NextSensor(b)]
  /\ IF NextSensor(b) = NumSensors THEN EndRound(b)
                                   ELSE UNCHANGED <<gattVars, data>>
  /\ UNCHANGED <<mainVars, connected, level>>

SkipSensor(b) ==
  /\ SplitRound(b)
  /\ ~SensorEnabled(b)
  /\ UNCHANGED board

\* MQTTClient::event(): the client is connected and the library takes the
\* message ...
PublishValue(b) ==
  /\ SplitRound(b)
  /\ SensorEnabled(b) /\ connected
  /\ board' = [board EXCEPT ![Topic(CheckerboardId(receiver[b], sensor[b]))] =
                              SensorValue(data[b][sensor[b]])]

\* ... or not, which nobody looks at.
LoseValue(b) ==
  /\ SplitRound(b)
  /\ SensorEnabled(b)
  /\ UNCHANGED board

ReaderThread(b) ==
  \/ ReadValue(b) \/ ReadFails(b) \/ DiscardEvent(b) \/ BeginSplit(b)
  \/ SkipSensor(b) \/ PublishValue(b) \/ LoseValue(b)

-----------------------------------------------------------------------------
(* The MQTT library's thread, and the floor.                               *)

ConnectionChanges ==
  /\ mqtt
  /\ connected' = ~connected
  /\ UNCHANGED <<mainVars, gattVars, level, eventVars>>

Tread(a) ==
  /\ \E r \in Readings \ {level[a]} : level' = [level EXCEPT ![a] = r]
  /\ UNCHANGED <<mainVars, gattVars, connected, eventVars>>

Exited == main = "exit" /\ UNCHANGED vars

Next ==
  \/ Setup \/ Cleanup \/ ConnectionChanges \/ Exited
  \/ \E b \in Beacons : Resolve(b) \/ ReaderThread(b)
  \/ \E a \in Addresses : Tread(a)

Spec == Init /\ [][Next]_vars

-----------------------------------------------------------------------------
(* Properties.                                                             *)

\* No reader hands an event to a splitter that is deleted, or a splitter to a
\* deleted MQTT client, although pause() may return in the middle of a delivery
\* (main.cpp:122-131).
NoEventAfterDelete ==
  \A b \in accessing :
    receiver[b] # NoSplitter => splitters /\ mqtt

\* The loop over the beacons ends, in spite of its 8-bit index, as long as there
\* are fewer beacons than the index has values (Config.cpp:121).
AssociationCompletes == main = "associate" ~> main = "pause"

=============================================================================
