-------------------------- MODULE FloorPlan_proofs --------------------------
(* Theorems about the table, the generator and floorsensord, for any       *)
(* tables, beacons and sensors.                                            *)
EXTENDS FloorPlan, SequenceTheorems, WellFoundedInduction, TLAPS

-----------------------------------------------------------------------------
(* The order in which floorsensord creates and deletes its objects.        *)

Before == {"parse", "import", "check", "mqtt", "beacons", "splitters"}
After == {"deleteSplitters", "deleteMqtt", "exit"}

\* What each place of the main thread says of the objects: those a reader may
\* reach exist as long as a reader is at work.
ShutInv ==
  /\ main \in Before \cup {"associate", "pause", "deleteBeacons"} \cup After
  /\ splitters <=> main \in {"associate", "pause", "deleteBeacons", "deleteSplitters"}
  /\ mqtt <=> main \notin {"parse", "import", "check", "mqtt", "exit"}
  /\ main \in Before => \A b \in Beacons : receiver[b] = NoSplitter
  /\ main \in {"parse", "import", "check", "mqtt"} =>
       \A b \in Beacons : life[b] = "unborn"
  /\ main \in After => \A b \in Beacons : life[b] # "alive"
  /\ \A b \in Beacons : life[b] # "unborn" => b \in Configured
  /\ life \in [Beacons -> {"unborn", "alive", "dead"}]
  /\ \A b \in accessing : b \in Beacons /\ life[b] = "alive"

LEMMA ShutInit == Init => ShutInv
BY DEF Init, ShutInv, Before, After

\* The main thread, up to pause().
LEMMA ShutSetup ==
  ASSUME ShutInv, Setup
  PROVE  ShutInv'
<1> USE DEF ShutInv, Before, After, Configured, MainGoto, configVars, listVars,
            gattVars
<1>1. CASE \E b \in Beacons : GenerateBeacon(b)
  BY <1>1 DEF GenerateBeacon, Gatt!Create, mainVars
<1>2. CASE UNCHANGED gattVars /\ (ParseArgs \/ PrintCheck \/ ConstructMqtt)
  BY <1>2 DEF ParseArgs, PrintCheck, ConstructMqtt
<1>3. CASE UNCHANGED gattVars /\ ImportJSON
  BY <1>3 DEF ImportJSON
<1>4. CASE UNCHANGED gattVars /\ (BeaconsGenerated \/ GenerateSplitters)
  BY <1>4 DEF BeaconsGenerated, GenerateSplitters
<1>5. CASE UNCHANGED gattVars /\ ((main = "associate" /\ Associate) \/ Associated)
  BY <1>5 DEF Associate, Associated
<1> QED
  BY <1>1, <1>2, <1>3, <1>4, <1>5 DEF Setup

\* The main thread, after pause().
LEMMA ShutCleanup ==
  ASSUME ShutInv, Cleanup
  PROVE  ShutInv'
<1> USE DEF ShutInv, Before, After, Configured, MainGoto, configVars, listVars,
            gattVars
<1>1. CASE \E b \in Beacons : DeleteBeacon(b)
  BY <1>1 DEF DeleteBeacon, Gatt!Destroy, mainVars
<1>2. CASE UNCHANGED gattVars /\ Signal
  BY <1>2 DEF Signal
<1>3. CASE UNCHANGED gattVars /\ BeaconsDeleted
  BY <1>3 DEF BeaconsDeleted
<1>4. CASE UNCHANGED gattVars /\ (DeleteSplitters \/ DeleteMqtt)
  BY <1>4 DEF DeleteSplitters, DeleteMqtt
<1> QED
  BY <1>1, <1>2, <1>3, <1>4 DEF Cleanup

\* The readers, the broker and the floor.
LEMMA ShutOthers ==
  ASSUME ShutInv,
         \/ ConnectionChanges \/ Exited \/ UNCHANGED vars
         \/ \E b \in Beacons : Resolve(b) \/ ReaderThread(b)
         \/ \E a \in Addresses : Tread(a)
  PROVE  ShutInv'
<1> USE DEF ShutInv, Configured, mainVars, configVars, listVars, gattVars
<1>1. CASE ConnectionChanges \/ Exited \/ UNCHANGED vars
  BY <1>1 DEF ConnectionChanges, Exited, vars
<1>2. CASE \E a \in Addresses : Tread(a)
  BY <1>2 DEF Tread
<1>3. ASSUME NEW b \in Beacons, Resolve(b) \/ ReaderThread(b) PROVE ShutInv'
  <2>1. CASE Resolve(b)
    BY <2>1 DEF Resolve, Gatt!Resolve
  <2>2. CASE ReadValue(b) \/ ReadFails(b)
    BY <2>2 DEF ReadValue, ReadFails, Gatt!BeginAccess
  <2>3. CASE DiscardEvent(b)
    BY <2>3 DEF DiscardEvent, EndRound, Gatt!EndAccess
  <2>4. CASE BeginSplit(b)
    BY <2>4 DEF BeginSplit
  <2>5. CASE SkipSensor(b) \/ PublishValue(b) \/ LoseValue(b)
    BY <2>5 DEF SkipSensor, PublishValue, LoseValue, SplitRound, EndRound,
                Gatt!EndAccess
  <2> QED
    BY <1>3, <2>1, <2>2, <2>3, <2>4, <2>5 DEF ReaderThread
<1> QED
  BY <1>1, <1>2, <1>3

LEMMA ShutPlan ==
  ASSUME ShutInv, [PlanNext]_planVars
  PROVE  ShutInv'
<1>1. CASE Generate \/ CorrectKey
  <2>1. UNCHANGED <<main, config, listVars, mqtt, gattVars>>
    BY <1>1, Zenon DEF Generate, CorrectKey
  <2> QED
    BY <2>1 DEF ShutInv, Configured, listVars, gattVars
<1>2. CASE Next
  BY <1>2, ShutSetup, ShutCleanup, ShutOthers DEF Next
<1>3. CASE UNCHANGED planVars
  BY <1>3, ShutOthers DEF planVars
<1> QED
  BY <1>1, <1>2, <1>3 DEF PlanNext, Run

\* No reader hands an event to a splitter or an MQTT client that is deleted, for
\* any number of beacons, whenever pause() returns (floorsensord/main.cpp:118-131).
THEOREM ShutSafely == PlanSpec => []NoEventAfterDelete
<1>1. PlanInit => ShutInv
  BY ShutInit DEF PlanInit
<1>2. ShutInv /\ [PlanNext]_planVars => ShutInv'
  BY ShutPlan
<1>3. ShutInv => NoEventAfterDelete
  BY DEF ShutInv, NoEventAfterDelete, Before, After
<1> QED
  BY <1>1, <1>2, <1>3, PTL DEF PlanSpec

-----------------------------------------------------------------------------
(* The places of sensors in lists and tables.                              *)

SensorConfigs == [index : Sensors, board : Boards]
OpenBeacons == [address : Addresses \cup {""}, sensors : Seq(SensorConfigs)]

LEMMA InPlaces ==
  ASSUME NEW list, NEW p
  PROVE  p \in G!Places(list) <=> \E i \in DOMAIN list : p \in G!PlacesOf(list[i])
BY DEF G!Places

LEMMA InPlacesOf ==
  ASSUME NEW b, NEW p
  PROVE  p \in G!PlacesOf(b) <=>
           \E i \in DOMAIN b.sensors : p = G!Place(b.address, b.sensors[i])
BY DEF G!PlacesOf

\* One more beacon adds its places, one more sensor its place.
LEMMA MoreBeacons ==
  ASSUME NEW S, NEW list \in Seq(S), NEW b
  PROVE  G!Places(Append(list, b)) = G!Places(list) \cup G!PlacesOf(b)
<1>1. DOMAIN Append(list, b) = DOMAIN list \cup {Len(list) + 1}
  OBVIOUS
<1>2. /\ \A i \in DOMAIN list : Append(list, b)[i] = list[i]
      /\ Append(list, b)[Len(list) + 1] = b
  OBVIOUS
<1>3. ASSUME NEW p
      PROVE  p \in G!Places(Append(list, b)) <=>
               p \in G!Places(list) \/ p \in G!PlacesOf(b)
  BY <1>1, <1>2, InPlaces, Zenon
<1> QED
  BY <1>3

LEMMA MoreSensors ==
  ASSUME NEW a, NEW sensors \in Seq(SensorConfigs), NEW x \in SensorConfigs
  PROVE  G!PlacesOf([address |-> a, sensors |-> Append(sensors, x)]) =
           G!PlacesOf([address |-> a, sensors |-> sensors]) \cup {G!Place(a, x)}
<1> DEFINE old == [address |-> a, sensors |-> sensors]
           new == [address |-> a, sensors |-> Append(sensors, x)]
<1>1. /\ old.address = a /\ new.address = a
      /\ old.sensors = sensors /\ new.sensors = Append(sensors, x)
  OBVIOUS
<1>2. DOMAIN Append(sensors, x) = DOMAIN sensors \cup {Len(sensors) + 1}
  OBVIOUS
<1>3. /\ \A i \in DOMAIN sensors : Append(sensors, x)[i] = sensors[i]
      /\ Append(sensors, x)[Len(sensors) + 1] = x
  OBVIOUS
<1> HIDE DEF old, new
<1>4. ASSUME NEW p
      PROVE  p \in G!PlacesOf(new) <=> p \in G!PlacesOf(old) \/ p = G!Place(a, x)
  <2>1. p \in G!PlacesOf(old) <=> \E i \in DOMAIN sensors : p = G!Place(a, sensors[i])
    BY <1>1, InPlacesOf
  <2>2. p \in G!PlacesOf(new) <=>
          \E i \in DOMAIN Append(sensors, x) : p = G!Place(a, Append(sensors, x)[i])
    BY <1>1, InPlacesOf
  <2> QED
    BY <1>2, <1>3, <2>1, <2>2, Zenon
<1> QED
  BY <1>4 DEF old, new

LEMMA NoPlaces ==
  ASSUME NEW b, b.sensors = <<>>
  PROVE  G!PlacesOf(b) = {}
BY DEF G!PlacesOf

-----------------------------------------------------------------------------
(* The generator.                                                          *)

GenTypeOK ==
  /\ csv \in Seq(TableRows) /\ rows \in Seq(TableRows)
  /\ lastBeacon \in Addresses \cup {""}
  /\ beacon \in OpenBeacons /\ beacons \in Seq(BeaconConfigs)
  /\ beacon.address = lastBeacon
  /\ beacon.sensors # <<>> => lastBeacon # ""

\* The rows still to come are the end of the table, without its header.
Suffix ==
  control # "read" =>
    /\ csv = <<>> => rows = <<>>
    /\ csv # <<>> => Len(rows) < Len(csv)
    /\ \A i \in 1 .. Len(rows) : rows[i] = csv[Len(csv) - Len(rows) + i]

\* What is printed is the list, under a key that somebody may have corrected.
Printed ==
  /\ control \in {"read", "scan", "done", "died"}
  /\ IF control = "done"
     THEN file \in [key : {"sensor", "sensors"}, beacons : {beacons}]
     ELSE file = G!NoFile

Unread == control = "read" => beacons = <<>> /\ beacon.sensors = <<>>

TableInv == GenTypeOK /\ Unread /\ Suffix /\ Printed /\ RowsAccountedFor

LEMMA TableInit == G!GenInit => TableInv
<1> SUFFICES ASSUME G!GenInit PROVE TableInv
  OBVIOUS
<1>1. csv \in Seq(TableRows) /\ rows \in Seq(TableRows) /\ lastBeacon = ""
  <2>1. csv \in Tables /\ rows = <<>> /\ lastBeacon = ""
    BY DEF G!GenInit, G!NoAddress
  <2>2. <<>> \in Seq(TableRows)
    OBVIOUS
  <2> QED
    BY <2>1, <2>2, TablesAssumption, Zenon
<1>2. beacon \in OpenBeacons /\ beacon.address = "" /\ beacon.sensors = <<>>
  <2>1. beacon = [address |-> "", sensors |-> <<>>]
    BY DEF G!GenInit, G!NoBeacon, G!NoAddress
  <2>2. <<>> \in Seq(SensorConfigs)
    OBVIOUS
  <2> QED
    BY <2>1, <2>2 DEF OpenBeacons
<1>3. beacons \in Seq(BeaconConfigs)
  BY DEF G!GenInit
<1>4. Suffix /\ Printed /\ RowsAccountedFor
  BY DEF G!GenInit, Suffix, Printed, RowsAccountedFor, G!RowsAccountedFor
<1>5. Unread
  BY <1>2 DEF Unread, G!GenInit
<1> QED
  BY <1>1, <1>2, <1>3, <1>4, <1>5 DEF TableInv, GenTypeOK


LEMMA RowType ==
  ASSUME GenTypeOK, NEW row, rows # <<>>, row = Head(rows)
  PROVE  /\ row \in TableRows /\ G!Sensor(row) \in SensorConfigs
         /\ G!Address(row) \in Addresses \cup {""}
         /\ Tail(rows) \in Seq(TableRows) /\ Len(Tail(rows)) = Len(rows) - 1
         /\ Len(rows) \in Nat \ {0}
         /\ \A i \in 1 .. Len(rows) - 1 : Tail(rows)[i] = rows[i + 1]
<1>1. rows \in Seq(TableRows)
  BY DEF GenTypeOK
<1>2. /\ row \in TableRows /\ Tail(rows) \in Seq(TableRows)
      /\ Len(rows) \in Nat \ {0} /\ Len(Tail(rows)) = Len(rows) - 1
      /\ \A i \in 1 .. Len(rows) - 1 : Tail(rows)[i] = rows[i + 1]
  BY <1>1
<1>3. G!Sensor(row) \in SensorConfigs
  BY <1>2 DEF TableRows, SensorConfigs, G!Sensor
<1>4. G!Address(row) \in Addresses \cup {""}
  BY <1>2, TablesAssumption DEF TableRows, G!Address, G!NoAddress
<1> QED
  BY <1>2, <1>3, <1>4, Zenon

\* A row that is read is the next one of the table.
LEMMA ScanReads ==
  ASSUME GenTypeOK, Suffix, NEW row, G!Scan(row)
  PROVE  /\ Suffix' /\ Len(csv) - Len(rows) + 1 \in 2 .. Len(csv)
         /\ G!RowsRead' = G!RowsRead \cup {Len(csv) - Len(rows) + 1}
         /\ csv[Len(csv) - Len(rows) + 1] = row
<1>1. /\ control = "scan" /\ control' = "scan" /\ rows # <<>>
      /\ row = Head(rows) /\ rows' = Tail(rows) /\ csv' = csv
  BY DEF G!Scan
<1>2. /\ Len(rows) \in Nat \ {0} /\ Len(rows') = Len(rows) - 1
      /\ \A i \in 1 .. Len(rows) - 1 : rows'[i] = rows[i + 1]
  BY <1>1, RowType
<1>3. /\ csv # <<>> /\ Len(rows) < Len(csv) /\ Len(csv) \in Nat
      /\ \A i \in 1 .. Len(rows) : rows[i] = csv[Len(csv) - Len(rows) + i]
  <2>1. csv \in Seq(TableRows) /\ rows \in Seq(TableRows)
    BY DEF GenTypeOK
  <2>2. control # "read"
    BY <1>1
  <2>3. csv # <<>>
    BY <1>1, <2>2 DEF Suffix
  <2>4. Len(csv) \in Nat
    BY <2>1
  <2> QED
    BY <2>2, <2>3, <2>4, Zenon DEF Suffix
<1>4. row = rows[1]
  BY <1>1
<1>5. csv[Len(csv) - Len(rows) + 1] = row
  BY <1>2, <1>3, <1>4
<1>6. \A i \in 1 .. Len(rows') : rows'[i] = csv'[Len(csv') - Len(rows') + i]
  <2> SUFFICES ASSUME NEW i \in 1 .. Len(rows')
               PROVE  rows'[i] = csv[Len(csv) - Len(rows') + i]
    BY <1>1
  <2>1. i + 1 \in 1 .. Len(rows) /\ Len(csv) - Len(rows) + (i + 1) = Len(csv) - Len(rows') + i
    BY <1>2, <1>3
  <2> QED
    BY <1>2, <1>3, <2>1
<1>7. Suffix'
  BY <1>1, <1>2, <1>3, <1>6 DEF Suffix
<1>8. G!RowsRead' = G!RowsRead \cup {Len(csv) - Len(rows) + 1}
  BY <1>1, <1>2, <1>3 DEF G!RowsRead
<1> QED
  BY <1>2, <1>3, <1>5, <1>7, <1>8

LEMMA PlaceAdded ==
  ASSUME GenTypeOK, Suffix, NEW row, G!Scan(row)
  PROVE  G!PlacesRead' = G!PlacesRead \cup
           (IF G!Address(row) = "" THEN {} ELSE {G!PlaceOf(row)})
<1> DEFINE n == Len(csv) - Len(rows) + 1
<1>1. G!RowsRead' = G!RowsRead \cup {n} /\ csv[n] = row
  BY ScanReads
<1>2. csv' = csv
  BY DEF G!Scan
<1> HIDE DEF n
<1>3. ASSUME NEW p
      PROVE  p \in G!PlacesRead' <=>
               \/ p \in G!PlacesRead
               \/ G!Address(row) # "" /\ p = G!PlaceOf(row)
  <2>1. p \in G!PlacesRead <=>
          \E j \in G!RowsRead : G!Address(csv[j]) # "" /\ p = G!PlaceOf(csv[j])
    BY Zenon DEF G!PlacesRead, G!NoAddress
  <2>2. p \in G!PlacesRead' <=>
          \E j \in G!RowsRead \cup {n} :
            G!Address(csv[j]) # "" /\ p = G!PlaceOf(csv[j])
    BY <1>1, <1>2, Zenon DEF G!PlacesRead, G!NoAddress
  <2> QED
    BY <1>1, <2>1, <2>2, Zenon
<1> QED
  BY <1>3


\* Lists that get longer, and beacons whose sensors change.
LEMMA AppendType ==
  ASSUME NEW S, NEW s \in Seq(S), NEW x \in S
  PROVE  /\ Append(s, x) \in Seq(S) /\ Append(s, x) # <<>>
         /\ <<x>> \in Seq(S) /\ <<x>> # <<>>
<1>1. Append(s, x) \in Seq(S) /\ Append(s, x) # <<>>
  BY AppendProperties
<1>2. <<x>> \in Seq(S)
  BY SMTT(30)
<1>3. <<x>> # <<>>
  BY SMTT(30)
<1> QED
  BY <1>1, <1>2, <1>3, Zenon

LEMMA OpenType ==
  ASSUME NEW a \in Addresses \cup {""}, NEW s \in Seq(SensorConfigs)
  PROVE  /\ [address |-> a, sensors |-> s] \in OpenBeacons
         /\ [address |-> a, sensors |-> s].address = a
         /\ [address |-> a, sensors |-> s].sensors = s
BY DEF OpenBeacons

LEMMA OpenChanged ==
  ASSUME NEW b \in OpenBeacons, NEW s \in Seq(SensorConfigs)
  PROVE  /\ [b EXCEPT !.sensors = s] \in OpenBeacons
         /\ [b EXCEPT !.sensors = s].address = b.address
         /\ [b EXCEPT !.sensors = s].sensors = s
<1> DEFINE T == Seq(SensorConfigs)
<1>1. b \in [address : Addresses \cup {""}, sensors : T] /\ s \in T
  BY DEF OpenBeacons
<1> HIDE DEF T
<1>2. /\ [b EXCEPT !.sensors = s] \in [address : Addresses \cup {""}, sensors : T]
      /\ [b EXCEPT !.sensors = s].address = b.address
      /\ [b EXCEPT !.sensors = s].sensors = s
  BY <1>1
<1> QED
  BY <1>2 DEF OpenBeacons, T

\* One row.
LEMMA ScanType ==
  ASSUME GenTypeOK, NEW row,
         \/ G!EmptyAddress(row) \/ G!FirstAddress(row)
         \/ G!SameAddress(row) \/ G!NextAddress(row)
  PROVE  GenTypeOK'
<1>1. rows # <<>> /\ row = Head(rows) /\ rows' = Tail(rows) /\ csv' = csv
  BY DEF G!EmptyAddress, G!FirstAddress, G!SameAddress, G!NextAddress, G!Scan
<1>2. /\ G!Sensor(row) \in SensorConfigs /\ rows' \in Seq(TableRows)
      /\ G!Address(row) \in Addresses \cup {""}
  BY <1>1, RowType
<1>3. /\ csv \in Seq(TableRows) /\ lastBeacon \in Addresses \cup {""}
      /\ beacon \in OpenBeacons /\ beacons \in Seq(BeaconConfigs)
      /\ beacon.address = lastBeacon
      /\ beacon.sensors \in Seq(SensorConfigs)
      /\ beacon.sensors # <<>> => lastBeacon # ""
  BY DEF GenTypeOK, OpenBeacons
<1>4. lastBeacon # "" => Append(beacons, beacon) \in Seq(BeaconConfigs)
  <2>1. lastBeacon # "" => beacon \in BeaconConfigs
    BY <1>3 DEF OpenBeacons, BeaconConfigs, SensorConfigs
  <2> QED
    BY <1>3, <2>1, AppendType, Zenon
<1>5. /\ Append(beacon.sensors, G!Sensor(row)) \in Seq(SensorConfigs)
      /\ <<G!Sensor(row)>> \in Seq(SensorConfigs)
      /\ <<>> \in Seq(SensorConfigs)
  <2>1. <<>> \in Seq(SensorConfigs)
    OBVIOUS
  <2> QED
    BY <1>2, <1>3, <2>1, AppendType, Zenon
<1> USE DEF G!NoAddress
<1>7. CASE G!EmptyAddress(row)
  <2>1. /\ lastBeacon' = lastBeacon /\ beacon' = [beacon EXCEPT !.sensors = <<>>]
        /\ beacons' = IF beacon.sensors = <<>> THEN beacons ELSE Append(beacons, beacon)
    BY <1>7, Zenon DEF G!EmptyAddress
  <2>2. beacon' \in OpenBeacons /\ beacon'.address = beacon.address /\ beacon'.sensors = <<>>
    BY <1>3, <1>5, <2>1, OpenType, OpenChanged, Zenon
  <2> QED
    BY <1>1, <1>2, <1>3, <1>4, <2>1, <2>2 DEF GenTypeOK
<1>8. CASE G!FirstAddress(row) \/ G!NextAddress(row)
  <2>1. /\ lastBeacon' = G!Address(row) /\ G!Address(row) # ""
        /\ beacons' = beacons \/ (lastBeacon # "" /\ beacons' = Append(beacons, beacon))
        /\ \E sensors \in Seq(SensorConfigs) :
              beacon' = [address |-> G!Address(row), sensors |-> sensors]
    <3>1. CASE G!FirstAddress(row)
      <4>1. /\ lastBeacon' = G!Address(row) /\ G!Address(row) # "" /\ beacons' = beacons
            /\ beacon' = [address |-> G!Address(row),
                          sensors |-> Append(beacon.sensors, G!Sensor(row))]
        BY <3>1 DEF G!FirstAddress
      <4>2. \E sensors \in Seq(SensorConfigs) :
              beacon' = [address |-> G!Address(row), sensors |-> sensors]
        <5> USE <1>5
        <5> WITNESS Append(beacon.sensors, G!Sensor(row)) \in Seq(SensorConfigs)
        <5> QED
          BY <4>1
      <4> QED
        BY <4>1, <4>2
    <3>2. CASE G!NextAddress(row)
      <4>1. lastBeacon # ""
        BY <3>2 DEF G!NextAddress
      <4> QED
        BY <1>5, <3>2, <4>1, Zenon DEF G!NextAddress
    <3> QED
      BY <1>8, <3>1, <3>2
  <2>2. /\ beacon' \in OpenBeacons /\ beacon'.address = G!Address(row)
    <3>1. PICK sensors \in Seq(SensorConfigs) :
                 beacon' = [address |-> G!Address(row), sensors |-> sensors]
      BY <2>1, Zenon
    <3> QED
      BY <1>2, <3>1, OpenType, Zenon
  <2>3. beacons' \in Seq(BeaconConfigs)
    <3>1. CASE beacons' = beacons
      BY <1>3, <3>1
    <3>2. CASE beacons' # beacons
      BY <1>4, <2>1, <3>2, Zenon
    <3> QED
      BY <3>1, <3>2, Zenon
  <2> QED
    BY <1>1, <1>2, <1>3, <1>4, <2>1, <2>2, <2>3 DEF GenTypeOK
<1>9. CASE G!SameAddress(row)
  <2>1. /\ lastBeacon' = lastBeacon /\ lastBeacon = G!Address(row)
        /\ G!Address(row) # "" /\ beacons' = beacons
        /\ beacon' = [beacon EXCEPT !.sensors = Append(beacon.sensors, G!Sensor(row))]
    BY <1>9, Zenon DEF G!SameAddress
  <2>2. beacon' \in OpenBeacons /\ beacon'.address = beacon.address
    BY <1>3, <1>5, <2>1, OpenType, OpenChanged, Zenon
  <2> QED
    BY <1>1, <1>2, <1>3, <2>1, <2>2 DEF GenTypeOK
<1> QED
  BY <1>7, <1>8, <1>9

LEMMA ScanPlaces ==
  ASSUME GenTypeOK, Suffix, RowsAccountedFor, NEW row,
         \/ G!EmptyAddress(row) \/ G!FirstAddress(row)
         \/ G!SameAddress(row) \/ G!NextAddress(row)
  PROVE  RowsAccountedFor'
<1>1. G!Scan(row)
  BY DEF G!EmptyAddress, G!FirstAddress, G!SameAddress, G!NextAddress
<1>2. G!PlacesRead' = G!PlacesRead \cup
        (IF G!Address(row) = "" THEN {} ELSE {G!PlaceOf(row)})
  BY <1>1, PlaceAdded
<1>3. G!Places(beacons) \cup G!PlacesOf(beacon) = G!PlacesRead
  BY <1>1 DEF RowsAccountedFor, G!RowsAccountedFor, G!Scan
<1>4. G!Sensor(row) \in SensorConfigs
  BY <1>1, RowType DEF G!Scan
<1>5. /\ beacon.sensors \in Seq(SensorConfigs) /\ beacon.address = lastBeacon
      /\ beacon = [address |-> beacon.address, sensors |-> beacon.sensors]
      /\ beacons \in Seq(BeaconConfigs)
      /\ beacon.sensors # <<>> => lastBeacon # ""
  BY DEF GenTypeOK, OpenBeacons
<1>6. G!Places(Append(beacons, beacon)) = G!Places(beacons) \cup G!PlacesOf(beacon)
  BY <1>5, MoreBeacons
<1>7. ASSUME NEW a
      PROVE  /\ G!PlacesOf([address |-> a, sensors |-> <<>>]) = {}
             /\ G!PlacesOf([address |-> a, sensors |-> <<G!Sensor(row)>>]) =
                  {G!Place(a, G!Sensor(row))}
             /\ G!PlacesOf([address |-> a,
                             sensors |-> Append(beacon.sensors, G!Sensor(row))]) =
                  G!PlacesOf([address |-> a, sensors |-> beacon.sensors])
                    \cup {G!Place(a, G!Sensor(row))}
  <2>1. G!PlacesOf([address |-> a, sensors |-> <<>>]) = {}
    BY NoPlaces
  <2>2. <<>> \in Seq(SensorConfigs) /\ Append(<<>>, G!Sensor(row)) = <<G!Sensor(row)>>
    OBVIOUS
  <2> QED
    <3>1. G!PlacesOf([address |-> a, sensors |-> Append(<<>>, G!Sensor(row))]) =
            G!PlacesOf([address |-> a, sensors |-> <<>>]) \cup {G!Place(a, G!Sensor(row))}
      BY <1>4, <2>2, MoreSensors, Zenon
    <3>2. G!PlacesOf([address |-> a,
                      sensors |-> Append(beacon.sensors, G!Sensor(row))]) =
            G!PlacesOf([address |-> a, sensors |-> beacon.sensors])
              \cup {G!Place(a, G!Sensor(row))}
      BY <1>4, <1>5, MoreSensors, Zenon
    <3> QED
      BY <2>1, <2>2, <3>1, <3>2
<1>8. CASE G!EmptyAddress(row)
  <2>1. /\ G!Address(row) = "" /\ beacon' = [address |-> beacon.address, sensors |-> <<>>]
        /\ \/ beacon.sensors = <<>> /\ beacons' = beacons
           \/ beacons' = Append(beacons, beacon)
    BY <1>5, <1>8 DEF G!EmptyAddress, G!NoAddress
  <2>2. beacon.sensors = <<>> => G!PlacesOf(beacon) = {}
    BY NoPlaces
  <2>3. G!Places(beacons') \cup G!PlacesOf(beacon') = G!PlacesRead'
    BY <1>2, <1>3, <1>6, <1>7, <2>1, <2>2
  <2> QED
    BY <2>3 DEF RowsAccountedFor, G!RowsAccountedFor
<1>9. CASE G!FirstAddress(row) \/ G!NextAddress(row)
  <2>1. /\ G!Address(row) # ""
        /\ \/ /\ lastBeacon = "" /\ beacons' = beacons
              /\ beacon' = [address |-> G!Address(row),
                            sensors |-> Append(beacon.sensors, G!Sensor(row))]
           \/ /\ beacons' = Append(beacons, beacon)
              /\ beacon' = [address |-> G!Address(row), sensors |-> <<G!Sensor(row)>>]
    BY <1>9 DEF G!FirstAddress, G!NextAddress, G!NoAddress
  <2>2. lastBeacon = "" => beacon.sensors = <<>> /\ G!PlacesOf(beacon) = {}
    BY <1>5, NoPlaces
  <2>3. G!Places(beacons') \cup G!PlacesOf(beacon') = G!PlacesRead'
    BY <1>2, <1>3, <1>6, <1>7, <2>1, <2>2 DEF G!PlaceOf
  <2> QED
    BY <2>3 DEF RowsAccountedFor, G!RowsAccountedFor
<1>10. CASE G!SameAddress(row)
  <2>1. /\ lastBeacon = G!Address(row) /\ G!Address(row) # "" /\ beacons' = beacons
        /\ beacon' = [address |-> beacon.address,
                      sensors |-> Append(beacon.sensors, G!Sensor(row))]
    BY <1>5, <1>10 DEF G!SameAddress, G!NoAddress
  <2>2. G!Places(beacons') \cup G!PlacesOf(beacon') = G!PlacesRead'
    BY <1>2, <1>3, <1>5, <1>7, <2>1 DEF G!PlaceOf
  <2> QED
    BY <2>2 DEF RowsAccountedFor, G!RowsAccountedFor
<1> QED
  BY <1>8, <1>9, <1>10

\* The generator keeps TableInv, row by row.
LEMMA TableStep ==
  ASSUME TableInv, G!GenNext
  PROVE  TableInv'
<1>1. GenTypeOK /\ Unread /\ Suffix /\ Printed /\ RowsAccountedFor
  BY DEF TableInv
<1>2. csv \in Seq(TableRows) /\ rows \in Seq(TableRows)
  BY <1>1 DEF GenTypeOK
<1>3. CASE G!GetData
  <2>1. /\ control = "read" /\ control' = "scan"
        /\ rows' = (IF csv = <<>> THEN <<>> ELSE Tail(csv))
        /\ UNCHANGED <<lastBeacon, beacon, beacons, csv, file>>
    BY <1>3 DEF G!GetData
  <2>2. /\ csv = <<>> => rows' = <<>> /\ Len(csv) = 0
        /\ csv # <<>> => /\ rows' \in Seq(TableRows) /\ Len(rows') = Len(csv) - 1
                         /\ Len(csv) \in Nat \ {0}
                         /\ \A i \in 1 .. Len(rows') : rows'[i] = csv[i + 1]
    BY <1>2, <2>1
  <2>3. <<>> \in Seq(TableRows)
    OBVIOUS
  <2>4. rows' \in Seq(TableRows)
    BY <2>2, <2>3, Zenon
  <2>5. GenTypeOK'
    BY <1>1, <2>1, <2>4 DEF GenTypeOK
  <2>6. Suffix'
    <3>1. CASE csv = <<>>
      BY <2>1, <2>2, <3>1 DEF Suffix
    <3>2. CASE csv # <<>>
      BY <2>1, <2>2, <3>2 DEF Suffix
    <3> QED
      BY <3>1, <3>2
  <2>7. Unread' /\ Printed'
    BY <1>1, <2>1 DEF Unread, Printed
  <2>8. G!RowsRead' = {}
    <3>1. CASE csv = <<>>
      BY <2>1, <2>2, <3>1 DEF G!RowsRead
    <3>2. CASE csv # <<>>
      BY <2>1, <2>2, <3>2 DEF G!RowsRead
    <3> QED
      BY <3>1, <3>2
  <2>9. G!PlacesRead' = {}
    BY <2>8 DEF G!PlacesRead
  <2>10. beacons' = <<>> /\ beacon'.sensors = <<>>
    BY <1>1, <2>1 DEF Unread
  <2>11. G!Places(beacons') = {} /\ G!PlacesOf(beacon') = {}
    BY <2>10, NoPlaces DEF G!Places
  <2> QED
    BY <2>5, <2>6, <2>7, <2>9, <2>11
       DEF TableInv, RowsAccountedFor, G!RowsAccountedFor
<1>4. CASE G!ScanRow
  <2>1. PICK row : \/ G!EmptyAddress(row) \/ G!FirstAddress(row)
                   \/ G!SameAddress(row) \/ G!NextAddress(row)
    BY <1>4 DEF G!ScanRow
  <2>2. G!Scan(row)
    BY <2>1 DEF G!EmptyAddress, G!FirstAddress, G!SameAddress, G!NextAddress
  <2>3. control = "scan" /\ control' = "scan" /\ file' = file
    BY <2>2 DEF G!Scan
  <2>4. Unread' /\ Printed'
    BY <1>1, <2>3 DEF Unread, Printed
  <2> QED
    BY <1>1, <2>1, <2>2, <2>4, ScanType, ScanPlaces, ScanReads DEF TableInv
<1>5. CASE G!NotANumber
  <2>1. /\ control = "scan" /\ control' = "died"
        /\ UNCHANGED <<rows, lastBeacon, beacon, beacons, csv, file>>
    BY <1>5 DEF G!NotANumber
  <2> QED
    BY <1>1, <2>1 DEF TableInv, GenTypeOK, Unread, Suffix, Printed,
       RowsAccountedFor, G!RowsAccountedFor, G!PlacesRead, G!RowsRead
<1>6. CASE G!Dump
  <2>1. /\ control = "scan" /\ control' = "done"
        /\ UNCHANGED <<rows, lastBeacon, beacon, beacons, csv>>
        /\ file' = [key |-> "sensor", beacons |-> beacons]
    BY <1>6 DEF G!Dump, G!ToJson
  <2>2. Printed'
    BY <2>1 DEF Printed
  <2> QED
    BY <1>1, <2>1, <2>2 DEF TableInv, GenTypeOK, Unread, Suffix,
       RowsAccountedFor, G!RowsAccountedFor, G!PlacesRead, G!RowsRead
<1> QED
  BY <1>3, <1>4, <1>5, <1>6 DEF G!GenNext

\* The daemon leaves the file alone, and a corrected key is one of the two.
LEMMA TableKept ==
  ASSUME TableInv, CorrectKey \/ Run \/ UNCHANGED planVars
  PROVE  TableInv'
<1>1. UNCHANGED genLocals
  BY Zenon DEF CorrectKey, Run, planVars
<1>2. CASE CorrectKey
  <2>1. control = "done" /\ file' = [file EXCEPT !.key = "sensors"]
    BY <1>2 DEF CorrectKey
  <2>2. file \in [key : {"sensor", "sensors"}, beacons : {beacons}]
    BY <2>1 DEF TableInv, Printed
  <2>3. file' \in [key : {"sensor", "sensors"}, beacons : {beacons}]
    BY <2>1, <2>2
  <2>4. Printed'
    BY <1>1, <2>1, <2>3 DEF Printed, genLocals
  <2> QED
    BY <1>1, <2>4 DEF TableInv, GenTypeOK, Unread, Suffix, genLocals,
       RowsAccountedFor, G!RowsAccountedFor, G!PlacesRead, G!RowsRead
<1>3. CASE Run \/ UNCHANGED planVars
  <2>1. file' = file
    <3>1. Next => file' = file
      BY DEF Next, Setup, Cleanup, GenerateBeacon, DeleteBeacon, ConnectionChanges,
             Exited, Tread, Resolve, ReaderThread, ReadValue, ReadFails, BeginSplit,
             DiscardEvent, SkipSensor, PublishValue, LoseValue, SplitRound,
             ParseArgs, ImportJSON, PrintCheck, ConstructMqtt, BeaconsGenerated,
             GenerateSplitters, Associate, Associated, Signal, BeaconsDeleted,
             DeleteSplitters, DeleteMqtt, mainVars, configVars, vars
    <3> QED
      BY <1>3, <3>1 DEF Run, planVars, vars, mainVars, configVars
  <2> QED
    BY <1>1, <2>1 DEF TableInv, GenTypeOK, Unread, Suffix, Printed, genLocals,
       RowsAccountedFor, G!RowsAccountedFor, G!PlacesRead, G!RowsRead
<1> QED
  BY <1>2, <1>3

LEMMA TableInvariance == PlanSpec => []TableInv
<1>1. PlanInit => TableInv
  BY TableInit DEF PlanInit
<1>2. TableInv /\ [PlanNext]_planVars => TableInv'
  BY TableStep, TableKept DEF PlanNext, Generate
<1> QED
  BY <1>1, <1>2, PTL DEF PlanSpec

\* Row by row, for any table, the beacons hold the sensors of the rows read, each
\* under its own address (generateJsonFromCsv/main.cpp:175-218).
THEOREM RowsKept == PlanSpec => []RowsAccountedFor
<1>1. TableInv => RowsAccountedFor
  BY DEF TableInv
<1> QED
  BY <1>1, TableInvariance, PTL

-----------------------------------------------------------------------------
(* Types of the daemon.                                                    *)

\* What the daemon knows of its configuration, of the splitter of a beacon, and of
\* the event a splitter is at work on.
FloorInv ==
  /\ TypeOK /\ ShutInv
  /\ config = <<>> \/ (config = beacons /\ control = "done")
  /\ \A b \in Beacons : receiver[b] \in {b, NoSplitter}
  /\ \A b \in Beacons : sensor[b] < NumSensors =>
       b \in accessing /\ data[b] \in Readings /\ receiver[b] = b

LEMMA FloorInit == Init => FloorInv
<1> SUFFICES ASSUME Init PROVE FloorInv
  OBVIOUS
<1>1. TypeOK
  <2>1. config \in Seq(BeaconConfigs) /\ Len(config) <= MaxBeacons
    BY BoundsAssumption DEF Init
  <2>2. index \in 0 .. IndexLimit - 1 /\ NumSensors \in 0 .. NumSensors
    BY BoundsAssumption DEF Init
  <2>3. NoValue \in 0 .. NoValue
    BY DEF NoValue
  <2>4. main = "parse"
    BY DEF Init
  <2>5. /\ checkFlag \in BOOLEAN /\ {splitters, mqtt, connected} \subseteq BOOLEAN
        /\ life \in [Beacons -> {"unborn", "alive", "dead"}]
        /\ resolved \in [Beacons -> BOOLEAN] /\ accessing \subseteq Beacons
        /\ receiver \in [Beacons -> Beacons \cup {NoSplitter}]
        /\ level \in [Addresses -> Readings]
        /\ data \in [Beacons -> Readings \cup {<<>>}]
        /\ sensor \in [Beacons -> 0 .. NumSensors]
        /\ board \in [Topics -> 0 .. NoValue]
    BY <2>2, <2>3, Zenon DEF Init
  <2> QED
    BY <2>1, <2>2, <2>4, <2>5, Zenon DEF TypeOK
<1>2. ShutInv
  BY ShutInit
<1>3. \A b \in Beacons : receiver[b] = NoSplitter /\ sensor[b] = NumSensors
  BY DEF Init
<1>4. ~ (NumSensors < NumSensors)
  BY BoundsAssumption
<1> QED
  BY <1>1, <1>2, <1>3, <1>4 DEF FloorInv, Init

MainType ==
  /\ main \in Before \cup {"associate", "pause", "deleteBeacons"} \cup After
  /\ checkFlag \in BOOLEAN /\ {splitters, mqtt} \subseteq BOOLEAN
  /\ config \in Seq(BeaconConfigs) /\ Len(config) <= MaxBeacons
  /\ index \in 0 .. IndexLimit - 1
  /\ receiver \in [Beacons -> Beacons \cup {NoSplitter}]
  /\ config = <<>> \/ (config = beacons /\ control = "done")
  /\ \A b \in Beacons : receiver[b] \in {b, NoSplitter}

GattType ==
  /\ life \in [Beacons -> {"unborn", "alive", "dead"}]
  /\ resolved \in [Beacons -> BOOLEAN] /\ accessing \subseteq Beacons

EventType ==
  /\ level \in [Addresses -> Readings]
  /\ data \in [Beacons -> Readings \cup {<<>>}]
  /\ sensor \in [Beacons -> 0 .. NumSensors]
  /\ board \in [Topics -> 0 .. NoValue]
  /\ \A b \in Beacons : sensor[b] < NumSensors =>
       b \in accessing /\ data[b] \in Readings /\ receiver[b] = b

LEMMA FloorParts ==
  LET Parts == /\ ShutInv /\ MainType /\ GattType /\ EventType
               /\ connected \in BOOLEAN
  IN  (FloorInv <=> Parts) /\ (FloorInv' <=> Parts')
<1>1. /\ {splitters, mqtt, connected} \subseteq BOOLEAN <=>
           {splitters, mqtt} \subseteq BOOLEAN /\ connected \in BOOLEAN
      /\ {splitters', mqtt', connected'} \subseteq BOOLEAN <=>
           {splitters', mqtt'} \subseteq BOOLEAN /\ connected' \in BOOLEAN
      /\ {"parse", "import", "check", "mqtt", "beacons", "splitters", "associate",
          "pause", "deleteBeacons", "deleteSplitters", "deleteMqtt", "exit"} =
           Before \cup {"associate", "pause", "deleteBeacons"} \cup After
  BY DEF Before, After
<1> QED
  BY <1>1, Zenon DEF FloorInv, TypeOK, MainType, GattType, EventType

\* The main thread; the configuration it imports is what the generator printed.
LEMMA MainTypeStep ==
  ASSUME MainType, TableInv, Generated, UNCHANGED genLocals,
         \/ ParseArgs \/ ImportJSON \/ PrintCheck \/ ConstructMqtt
         \/ BeaconsGenerated \/ GenerateSplitters \/ Associate \/ Associated
         \/ Signal \/ BeaconsDeleted \/ DeleteSplitters \/ DeleteMqtt
  PROVE  MainType' /\ \A b \in Beacons : receiver[b] = b => receiver'[b] = b
<1>1. UNCHANGED <<beacons, control>>
  BY DEF genLocals
<1> USE DEF MainGoto, configVars, listVars
<1>2. CASE Associate
  <2>1. /\ index < Len(config) /\ receiver' = [receiver EXCEPT ![index] = index]
        /\ index' = (index + 1) % IndexLimit
        /\ UNCHANGED <<main, checkFlag, config, splitters, mqtt>>
    BY <1>2 DEF Associate
  <2>2. index \in Nat /\ index < MaxBeacons
    BY <2>1, BoundsAssumption DEF MainType
  <2>3. index \in Beacons /\ index' \in 0 .. IndexLimit - 1
    BY <2>1, <2>2, BoundsAssumption DEF Beacons
  <2>4. receiver' \in [Beacons -> Beacons \cup {NoSplitter}]
    BY <2>1, <2>3 DEF MainType
  <2>5. \A b \in Beacons : receiver'[b] \in {b, NoSplitter}
    BY <2>1, <2>3 DEF MainType
  <2> QED
    BY <1>1, <2>1, <2>3, <2>4, <2>5 DEF MainType
<1>3. CASE ImportJSON
  <2>1. /\ main' \in {"check", "mqtt"} /\ Len(file.beacons) <= MaxBeacons
        /\ config' = (IF Readable(file) THEN file.beacons ELSE <<>>)
        /\ UNCHANGED <<checkFlag, index, receiver, splitters, mqtt>>
    BY <1>3 DEF ImportJSON
  <2>2. CASE Readable(file)
    <3>1. file # G!NoFile
      BY <2>2 DEF Readable, NoFile, G!NoFile
    <3>2. control = "done" /\ file.beacons = beacons /\ beacons \in Seq(BeaconConfigs)
      BY <3>1 DEF TableInv, Printed, GenTypeOK
    <3> QED
      BY <1>1, <2>1, <2>2, <3>2 DEF MainType, Before
  <2>3. CASE ~Readable(file)
    <3>1. config' = <<>> /\ config' \in Seq(BeaconConfigs) /\ Len(config') <= MaxBeacons
      BY <2>1, <2>3, BoundsAssumption
    <3> QED
      BY <1>1, <2>1, <3>1 DEF MainType, Before
  <2> QED
    BY <2>2, <2>3
<1>4. CASE ParseArgs
  BY <1>1, <1>4 DEF ParseArgs, MainType, Before
<1>5. CASE \/ PrintCheck \/ ConstructMqtt \/ BeaconsGenerated \/ GenerateSplitters
           \/ Associated \/ Signal \/ BeaconsDeleted \/ DeleteSplitters \/ DeleteMqtt
  <2>1. /\ UNCHANGED <<checkFlag, config, index, receiver>>
        /\ main' \in Before \cup {"associate", "pause", "deleteBeacons"} \cup After
        /\ splitters' \in {splitters, TRUE, FALSE} /\ mqtt' \in {mqtt, TRUE, FALSE}
    BY <1>5 DEF PrintCheck, ConstructMqtt, BeaconsGenerated, GenerateSplitters,
                Associated, Signal, BeaconsDeleted, DeleteSplitters, DeleteMqtt,
                Before, After
  <2> QED
    BY <1>1, <2>1 DEF MainType
<1> QED
  BY <1>2, <1>3, <1>4, <1>5

\* A word is in 16 bits, whichever sign a char has.
LEMMA WordType ==
  ASSUME NEW r \in Readings, NEW s \in Sensors
  PROVE  SensorValue(r[s]) \in 0 .. NoValue
<1>1. /\ r[s].high \in Int /\ 0 <= r[s].high /\ r[s].high <= 255
      /\ r[s].low \in Int /\ 0 <= r[s].low /\ r[s].low <= 255
  BY ReadingsAssumption
<1>2. NoValue \in Int
  BY DEF NoValue
<1> DEFINE signed == 65280 + r[s].low
           plain == 256 * r[s].high + r[s].low
<1>3. signed \in Int /\ 0 <= signed /\ signed <= NoValue
  BY <1>1 DEF NoValue
<1>4. plain \in Int /\ 0 <= plain /\ plain <= NoValue
  BY <1>1 DEF NoValue
<1>5. SensorValue(r[s]) = IF CharIsSigned /\ r[s].low >= 128 THEN signed ELSE plain
  BY DEF SensorValue
<1> HIDE DEF signed, plain
<1>6. signed \in 0 .. NoValue /\ plain \in 0 .. NoValue
  BY <1>2, <1>3, <1>4
<1> QED
  BY <1>5, <1>6, Zenon

\* A reading under way belongs to a beacon of the configuration.
LEMMA ReadAddress ==
  ASSUME ShutInv, MainType, NEW b \in Beacons, life[b] = "alive"
  PROVE  b \in Configured /\ config[b + 1] \in BeaconConfigs
         /\ config[b + 1].address \in Addresses
<1>1. b \in Configured /\ config \in Seq(BeaconConfigs)
  BY DEF ShutInv, MainType
<1>2. b + 1 \in 1 .. Len(config)
  BY <1>1 DEF Configured
<1>3. config[b + 1] \in BeaconConfigs
  BY <1>1, <1>2
<1> QED
  BY <1>1, <1>3 DEF BeaconConfigs

LEMMA GattTypeStep ==
  ASSUME GattType, NEW b \in Beacons,
         \/ Gatt!Create(b) \/ Gatt!Destroy(b) \/ Gatt!Resolve(b)
         \/ Gatt!BeginAccess(b) \/ Gatt!EndAccess(b)
  PROVE  GattType'
BY DEF GattType, Gatt!Create, Gatt!Destroy, Gatt!Resolve, Gatt!BeginAccess,
       Gatt!EndAccess

\* The rounds of a reader.
LEMMA ReaderTypeStep ==
  ASSUME ShutInv, MainType, GattType, EventType, NEW b \in Beacons, ReaderThread(b)
  PROVE  GattType' /\ EventType' /\ UNCHANGED <<mainVars, connected>>
<1>1. NumSensors \in Nat \ {0} /\ accessing \subseteq Beacons
  BY BoundsAssumption DEF GattType
<1> USE DEF mainVars, listVars
<1>2. CASE ReadValue(b) \/ ReadFails(b)
  <2>1. /\ life[b] = "alive" /\ accessing' = accessing \cup {b}
        /\ b \notin accessing /\ Gatt!BeginAccess(b)
        /\ \/ data' = [data EXCEPT ![b] = level[config[b + 1].address]]
           \/ data' = [data EXCEPT ![b] = <<>>]
        /\ UNCHANGED <<mainVars, connected, level, sensor, board>>
    BY <1>2 DEF ReadValue, ReadFails, Gatt!BeginAccess
  <2>2. level[config[b + 1].address] \in Readings
    BY <2>1, ReadAddress DEF EventType
  <2>3. data' \in [Beacons -> Readings \cup {<<>>}]
    BY <2>1, <2>2 DEF EventType
  <2>4. \A c \in Beacons : sensor'[c] < NumSensors =>
          c \in accessing' /\ data'[c] \in Readings /\ receiver'[c] = c
    BY <2>1 DEF EventType
  <2> QED
    BY <2>1, <2>3, <2>4, GattTypeStep DEF EventType
<1>3. CASE BeginSplit(b)
  <2>1. /\ b \in accessing /\ DOMAIN data[b] = Sensors
        /\ sensor' = [sensor EXCEPT ![b] = 0]
        /\ receiver[b] = b
        /\ UNCHANGED <<mainVars, gattVars, connected, level, data, board>>
    BY <1>3 DEF BeginSplit, MainType
  <2>2. data[b] # <<>>
    BY <1>1, <2>1 DEF Sensors
  <2>3. data[b] \in Readings
    BY <2>2 DEF EventType
  <2>4. sensor' \in [Beacons -> 0 .. NumSensors]
    BY <1>1, <2>1 DEF EventType
  <2>5. \A c \in Beacons : sensor'[c] < NumSensors =>
          c \in accessing' /\ data'[c] \in Readings /\ receiver'[c] = c
    BY <2>1, <2>3 DEF EventType, gattVars
  <2> QED
    BY <2>1, <2>4, <2>5 DEF GattType, EventType, gattVars
<1>4. CASE DiscardEvent(b)
  <2>1. /\ sensor[b] = NumSensors /\ Gatt!EndAccess(b)
        /\ accessing' = accessing \ {b} /\ data' = [data EXCEPT ![b] = <<>>]
        /\ UNCHANGED <<mainVars, connected, level, sensor, board>>
    BY <1>4 DEF DiscardEvent, EndRound, Gatt!EndAccess
  <2>2. data' \in [Beacons -> Readings \cup {<<>>}]
    BY <2>1 DEF EventType
  <2>3. \A c \in Beacons : sensor'[c] < NumSensors =>
          c \in accessing' /\ data'[c] \in Readings /\ receiver'[c] = c
    BY <1>1, <2>1 DEF EventType
  <2> QED
    BY <2>1, <2>2, <2>3, GattTypeStep DEF EventType
<1>5. CASE SkipSensor(b) \/ PublishValue(b) \/ LoseValue(b)
  <2>1. /\ sensor[b] < NumSensors /\ sensor' = [sensor EXCEPT ![b] = sensor[b] + 1]
        /\ IF sensor[b] + 1 = NumSensors
           THEN /\ Gatt!EndAccess(b) /\ accessing' = accessing \ {b}
                /\ data' = [data EXCEPT ![b] = <<>>]
           ELSE UNCHANGED <<gattVars, data>>
        /\ UNCHANGED <<mainVars, connected, level>>
    BY <1>5 DEF SkipSensor, PublishValue, LoseValue, SplitRound, NextSensor, EndRound,
                Gatt!EndAccess
  <2>2. sensor[b] \in Sensors /\ data[b] \in Readings
    BY <1>1, <2>1 DEF EventType, Sensors
  <2>3. sensor' \in [Beacons -> 0 .. NumSensors]
    BY <1>1, <2>1, <2>2 DEF EventType, Sensors
  <2>4. board' \in [Topics -> 0 .. NoValue]
    <3>1. \/ board' = board
          \/ board' = [board EXCEPT ![Topic(CheckerboardId(receiver[b], sensor[b]))] =
                                      SensorValue(data[b][sensor[b]])]
      BY <1>5 DEF SkipSensor, PublishValue, LoseValue
    <3>2. SensorValue(data[b][sensor[b]]) \in 0 .. NoValue
      BY <2>2, WordType
    <3> QED
      BY <3>1, <3>2 DEF EventType
  <2>5. data' \in [Beacons -> Readings \cup {<<>>}]
    BY <2>1 DEF EventType
  <2>6. \A c \in Beacons : sensor'[c] < NumSensors =>
          c \in accessing' /\ data'[c] \in Readings /\ receiver'[c] = c
    <3> SUFFICES ASSUME NEW c \in Beacons, sensor'[c] < NumSensors
                 PROVE  c \in accessing' /\ data'[c] \in Readings /\ receiver'[c] = c
      OBVIOUS
    <3>1. CASE c = b
      <4>1. sensor'[b] = sensor[b] + 1 /\ sensor[b] \in Nat
        BY <1>1, <2>1, <2>2 DEF EventType, Sensors
      <4>2. sensor[b] + 1 # NumSensors
        BY <1>1, <3>1, <4>1
      <4> QED
        BY <2>1, <2>2, <3>1, <4>2 DEF EventType, gattVars
    <3>2. CASE c # b
      BY <2>1, <3>2 DEF EventType, gattVars
    <3> QED
      BY <3>1, <3>2
  <2>7. GattType'
    BY <2>1, GattTypeStep DEF GattType, gattVars
  <2> QED
    BY <2>1, <2>3, <2>4, <2>5, <2>6, <2>7 DEF EventType
<1> QED
  BY <1>2, <1>3, <1>4, <1>5 DEF ReaderThread

\* What the main thread does to the objects leaves the readers' events alone.
LEMMA SetupTypeStep ==
  ASSUME ShutInv, MainType, GattType, EventType, TableInv, Generated,
         UNCHANGED genLocals, Setup \/ Cleanup
  PROVE  MainType' /\ GattType' /\ EventType' /\ connected' = connected
<1>1. CASE \E b \in Beacons : GenerateBeacon(b) \/ DeleteBeacon(b)
  <2>1. PICK b \in Beacons : Gatt!Create(b) \/ Gatt!Destroy(b)
    BY <1>1 DEF GenerateBeacon, DeleteBeacon
  <2>2. GattType' /\ accessing' = accessing
    BY <2>1, GattTypeStep DEF Gatt!Create, Gatt!Destroy
  <2>3. UNCHANGED <<mainVars, connected, level, eventVars>>
    BY <1>1 DEF GenerateBeacon, DeleteBeacon
  <2> QED
    BY <2>2, <2>3 DEF MainType, EventType, mainVars, configVars, listVars, eventVars,
       genLocals
<1>2. CASE /\ \/ ParseArgs \/ ImportJSON \/ PrintCheck \/ ConstructMqtt
              \/ BeaconsGenerated \/ GenerateSplitters \/ Associate \/ Associated
              \/ Signal \/ BeaconsDeleted \/ DeleteSplitters \/ DeleteMqtt
           /\ UNCHANGED <<gattVars, connected, level, eventVars>>
  <2>1. MainType' /\ \A b \in Beacons : receiver[b] = b => receiver'[b] = b
    BY <1>2, MainTypeStep
  <2> QED
    BY <1>2, <2>1 DEF GattType, EventType, gattVars, eventVars
<1> QED
  BY <1>1, <1>2 DEF Setup, Cleanup

LEMMA FloorStep ==
  ASSUME FloorInv, TableInv, [PlanNext]_planVars
  PROVE  FloorInv'
<1>1. ShutInv /\ MainType /\ GattType /\ EventType /\ connected \in BOOLEAN
  BY FloorParts
<1>2. ShutInv'
  BY <1>1, ShutPlan
<1>3. CASE Generate \/ CorrectKey
  <2>1. UNCHANGED <<main, checkFlag, config, listVars, mqtt, gattVars, connected,
                    level, eventVars>>
    BY <1>3, Zenon DEF Generate, CorrectKey
  <2>2. config = <<>> \/ (config = beacons' /\ control' = "done")
    <3>1. CASE Generate
      BY <1>1, <3>1 DEF MainType, Generate, G!GenNext, G!GetData, G!ScanRow,
         G!EmptyAddress, G!FirstAddress, G!SameAddress, G!NextAddress, G!Scan,
         G!NotANumber, G!Dump
    <3>2. CASE CorrectKey
      BY <1>1, <3>2 DEF MainType, CorrectKey, genLocals
    <3> QED
      BY <1>3, <3>1, <3>2
  <2>3. MainType' /\ GattType' /\ EventType' /\ connected' \in BOOLEAN
    BY <1>1, <2>1, <2>2 DEF MainType, GattType, EventType, listVars, gattVars, eventVars
  <2> QED
    BY <1>2, <2>3, FloorParts
<1>4. CASE Run
  <2>1. Generated /\ Next /\ UNCHANGED genLocals
    BY <1>4 DEF Run
  <2>2. CASE Setup \/ Cleanup
    BY <1>1, <1>2, <2>1, <2>2, SetupTypeStep, FloorParts
  <2>3. CASE \E b \in Beacons : ReaderThread(b)
    <3>1. GattType' /\ EventType' /\ UNCHANGED <<mainVars, connected>>
      BY <1>1, <2>3, ReaderTypeStep
    <3>2. MainType'
      BY <1>1, <2>1, <3>1 DEF MainType, mainVars, configVars, listVars, genLocals
    <3> QED
      BY <1>1, <1>2, <3>1, <3>2, FloorParts
  <2>4. CASE \E b \in Beacons : Resolve(b)
    <3>1. PICK b \in Beacons : Resolve(b)
      BY <2>4
    <3>2. Gatt!Resolve(b) /\ UNCHANGED <<mainVars, connected, level, eventVars>>
      BY <3>1 DEF Resolve
    <3>3. GattType' /\ accessing' = accessing
      BY <1>1, <3>2, GattTypeStep DEF Gatt!Resolve
    <3>4. MainType' /\ EventType'
      BY <1>1, <2>1, <3>2, <3>3
         DEF MainType, EventType, mainVars, configVars, listVars, eventVars, genLocals
    <3> QED
      BY <1>1, <1>2, <3>2, <3>3, <3>4, FloorParts
  <2>5. CASE \/ ConnectionChanges \/ Exited \/ \E a \in Addresses : Tread(a)
    <3>1. /\ UNCHANGED <<mainVars, gattVars, eventVars>> /\ connected' \in BOOLEAN
      BY <1>1, <2>5, Zenon DEF ConnectionChanges, Exited, Tread, vars
    <3>2. level' \in [Addresses -> Readings]
      BY <1>1, <2>5 DEF EventType, ConnectionChanges, Exited, Tread, vars
    <3>3. MainType' /\ GattType' /\ EventType'
      BY <1>1, <2>1, <3>1, <3>2 DEF MainType, GattType, EventType, mainVars,
         configVars, listVars, gattVars, eventVars, genLocals
    <3> QED
      BY <1>2, <3>1, <3>3, FloorParts
  <2> QED
    BY <2>1, <2>2, <2>3, <2>4, <2>5 DEF Next
<1>5. CASE UNCHANGED planVars
  <2>1. MainType' /\ GattType' /\ EventType' /\ connected' \in BOOLEAN
    BY <1>1, <1>5 DEF planVars, vars, MainType, GattType, EventType, mainVars,
       configVars, listVars, gattVars, eventVars, genLocals
  <2> QED
    BY <1>2, <2>1, FloorParts
<1> QED
  BY <1>3, <1>4, <1>5 DEF PlanNext

LEMMA FloorInvariance == PlanSpec => []FloorInv
<1>1. PlanInit => FloorInv
  BY FloorInit DEF PlanInit
<1>2. FloorInv /\ TableInv /\ [PlanNext]_planVars => FloorInv'
  BY FloorStep
<1> QED
  BY <1>1, <1>2, TableInvariance, PTL DEF PlanSpec

\* The variables of the daemon keep their types, with any table, any number of
\* beacons and sensors, and either sign of a char; in particular a word that is
\* published has 16 bits (ValueSplitter.cpp:31-45).
THEOREM PlanType == PlanSpec => []TypeOK
<1>1. FloorInv => TypeOK
  BY DEF FloorInv
<1> QED
  BY <1>1, FloorInvariance, PTL

-----------------------------------------------------------------------------
(* The association of beacons and splitters.                               *)

\* How far the three lists are built at each place of the main thread.
AssocInv ==
  /\ main \in {"parse", "import"} => config = <<>>
  /\ main \in Before => index = 0
  /\ main = "associate" => \A b \in Beacons : b < index => receiver[b] = b
  /\ main = "pause" => \A b \in Configured : receiver[b] = b
  /\ main \in Before \cup {"associate", "pause"} =>
       \A b \in Beacons : life[b] # "dead"
  /\ main \in {"splitters", "associate", "pause"} =>
       \A b \in Configured : life[b] # "unborn"

LEMMA AssocInit == Init => AssocInv
BY DEF Init, AssocInv, Before

\* The index of the loop wraps round, or goes on by one.
LEMMA NarrowIndex ==
  ASSUME NEW n \in Nat \ {0}, NEW i \in 0 .. n - 1
  PROVE  (i + 1) % n \in Nat /\ (i + 1) % n <= i + 1
<1>1. CASE i + 1 = n
  BY <1>1
<1>2. CASE i + 1 < n
  BY <1>2
<1> QED
  BY <1>1, <1>2

LEMMA ConfiguredType ==
  ASSUME MainType
  PROVE  Configured \subseteq Beacons /\ Len(config) \in Nat /\ index \in Nat
BY BoundsAssumption DEF MainType, Configured, Beacons

\* One round of the loop.
LEMMA AssocRound ==
  ASSUME MainType, AssocInv, main = "associate", Associate, UNCHANGED gattVars
  PROVE  AssocInv'
<1>1. /\ index \in Beacons /\ receiver' = [receiver EXCEPT ![index] = index]
      /\ index' = (index + 1) % IndexLimit /\ UNCHANGED <<main, config, life>>
      /\ receiver \in [Beacons -> Beacons \cup {NoSplitter}]
  BY ConfiguredType, BoundsAssumption
     DEF Associate, MainType, configVars, gattVars, Beacons
<1>2. index' \in Nat /\ index' <= index + 1
  BY <1>1, NarrowIndex, BoundsAssumption DEF MainType
<1>3. \A b \in Beacons : b < index' => receiver'[b] = b
  <2> SUFFICES ASSUME NEW b \in Beacons, b < index'
               PROVE  receiver'[b] = b
    OBVIOUS
  <2>1. b < index \/ b = index
    BY <1>1, <1>2, BoundsAssumption DEF Beacons
  <2> QED
    BY <1>1, <2>1 DEF AssocInv
<1> QED
  BY <1>1, <1>3 DEF AssocInv, Before, Configured

\* The other steps of the main thread.
LEMMA AssocMain ==
  ASSUME ShutInv, MainType, AssocInv, UNCHANGED gattVars,
         \/ ParseArgs \/ ImportJSON \/ PrintCheck \/ ConstructMqtt
         \/ BeaconsGenerated \/ GenerateSplitters \/ Associated
         \/ Signal \/ BeaconsDeleted \/ DeleteSplitters \/ DeleteMqtt
  PROVE  AssocInv'
<1>0. UNCHANGED <<life, accessing>> /\ Configured \subseteq Beacons
  BY ConfiguredType DEF gattVars
<1> USE DEF AssocInv, Before, MainGoto, configVars, listVars
<1>1. CASE ParseArgs \/ ImportJSON \/ PrintCheck \/ ConstructMqtt
  BY <1>0, <1>1 DEF ParseArgs, ImportJSON, PrintCheck, ConstructMqtt
<1>2. CASE BeaconsGenerated
  BY <1>0, <1>2 DEF BeaconsGenerated, Configured
<1>3. CASE GenerateSplitters
  <2>1. main = "splitters" /\ main' = "associate" /\ index' = 0
        /\ UNCHANGED <<config, receiver, life>>
    BY <1>0, <1>3 DEF GenerateSplitters
  <2>2. \A b \in Beacons : ~(b < 0)
    BY BoundsAssumption DEF Beacons
  <2> QED
    BY <2>1, <2>2 DEF Configured
<1>4. CASE Associated
  <2>1. main = "associate" /\ main' = "pause" /\ Len(config) <= index
        /\ UNCHANGED <<config, receiver, life>>
    BY <1>0, <1>4, ConfiguredType DEF Associated
  <2>2. \A b \in Configured : b \in Beacons /\ b < index
    BY <1>0, <2>1, ConfiguredType DEF Configured
  <2> QED
    BY <2>1, <2>2 DEF Configured
<1>5. CASE Signal \/ BeaconsDeleted \/ DeleteSplitters \/ DeleteMqtt
  BY <1>0, <1>5 DEF Signal, BeaconsDeleted, DeleteSplitters, DeleteMqtt
<1> QED
  BY <1>1, <1>2, <1>3, <1>4, <1>5

\* Objects that come and go.
LEMMA AssocObjects ==
  ASSUME ShutInv, AssocInv, \E b \in Beacons : GenerateBeacon(b) \/ DeleteBeacon(b)
  PROVE  AssocInv'
<1>1. PICK b \in Beacons : GenerateBeacon(b) \/ DeleteBeacon(b)
  OBVIOUS
<1> USE DEF AssocInv, ShutInv, Before, Configured, mainVars, configVars, listVars
<1>2. CASE GenerateBeacon(b)
  BY <1>2 DEF GenerateBeacon, Gatt!Create
<1>3. CASE DeleteBeacon(b)
  BY <1>3 DEF DeleteBeacon, Gatt!Destroy
<1> QED
  BY <1>1, <1>2, <1>3

LEMMA AssocStep ==
  ASSUME FloorInv, AssocInv, [PlanNext]_planVars
  PROVE  AssocInv'
<1>1. ShutInv /\ MainType /\ GattType /\ EventType
  BY FloorParts
<1>2. CASE Run /\ (Setup \/ Cleanup)
  <2>1. CASE \E b \in Beacons : GenerateBeacon(b) \/ DeleteBeacon(b)
    BY <1>1, <2>1, AssocObjects
  <2>2. CASE main = "associate" /\ Associate /\ UNCHANGED gattVars
    BY <1>1, <2>2, AssocRound
  <2>3. CASE /\ \/ ParseArgs \/ ImportJSON \/ PrintCheck \/ ConstructMqtt
                \/ BeaconsGenerated \/ GenerateSplitters \/ Associated
                \/ Signal \/ BeaconsDeleted \/ DeleteSplitters \/ DeleteMqtt
             /\ UNCHANGED gattVars
    BY <1>1, <2>3, AssocMain
  <2> QED
    BY <1>2, <2>1, <2>2, <2>3, Zenon DEF Setup, Cleanup
<1>3. CASE UNCHANGED <<main, config, index, receiver, life>>
  BY <1>3 DEF AssocInv, Configured
<1>4. ~(Run /\ (Setup \/ Cleanup)) => UNCHANGED <<main, config, index, receiver, life>>
  <2>1. CASE Generate \/ CorrectKey \/ UNCHANGED planVars
    BY <2>1, Zenon
       DEF Generate, CorrectKey, planVars, vars, mainVars, configVars, listVars, gattVars
  <2>2. CASE Run /\ \E b \in Beacons : ReaderThread(b)
    <3>1. PICK b \in Beacons : ReaderThread(b)
      BY <2>2
    <3>2. UNCHANGED <<mainVars, life>>
      BY <1>1, <3>1
         DEF ReaderThread, ReadValue, ReadFails, BeginSplit, DiscardEvent, SkipSensor,
             PublishValue, LoseValue, SplitRound, EndRound, gattVars,
             Gatt!BeginAccess, Gatt!EndAccess
    <3> QED
      BY <3>2, Zenon DEF mainVars, configVars, listVars
  <2>3. CASE Run /\ \/ ConnectionChanges \/ Exited
                    \/ \E b \in Beacons : Resolve(b)
                    \/ \E a \in Addresses : Tread(a)
    BY <2>3, Zenon
       DEF ConnectionChanges, Exited, Resolve, Tread, Gatt!Resolve, vars, mainVars,
           configVars, listVars, gattVars
  <2> QED
    BY <2>1, <2>2, <2>3 DEF PlanNext, Run, Next
<1> QED
  BY <1>2, <1>3, <1>4

\* When main() waits, every configured beacon is polled and delivers to its own
\* splitter, for any number of beacons and any width of the index
\* (Config.cpp:85-124).
THEOREM AssociatesAll == PlanSpec => []AllAssociated
<1>1. PlanInit => AssocInv
  BY AssocInit DEF PlanInit
<1>2. FloorInv /\ AssocInv /\ [PlanNext]_planVars => AssocInv'
  BY AssocStep
<1>3. FloorInv /\ AssocInv => AllAssociated
  <2> SUFFICES ASSUME FloorInv, AssocInv, main = "pause", NEW b \in Configured
               PROVE  life[b] = "alive" /\ receiver[b] = b
    BY DEF AllAssociated
  <2>1. b \in Beacons /\ life \in [Beacons -> {"unborn", "alive", "dead"}]
    BY FloorParts, ConfiguredType DEF GattType
  <2>2. life[b] # "dead" /\ life[b] # "unborn" /\ receiver[b] = b
    BY <2>1 DEF AssocInv
  <2> QED
    BY <2>1, <2>2
<1> QED
  BY <1>1, <1>2, <1>3, FloorInvariance, PTL DEF PlanSpec

-----------------------------------------------------------------------------
(* What is published.                                                      *)

LEMMA GreatestElement ==
  ASSUME NEW n \in Nat, NEW S \in SUBSET (1 .. n), S # {}
  PROVE  \E k \in S : \A j \in S : j <= k
<1> DEFINE T == {m \in 0 .. n : n - m \in S}
<1>1. \A k \in S : n - k \in T
  BY SMT
<1>2. T \subseteq Nat
  OBVIOUS
<1>3. T # {}
  <2>1. PICK k \in S : TRUE
    OBVIOUS
  <2> QED
    BY <1>1, <2>1
<1> HIDE DEF T
<1>4. PICK x \in T : \A y \in T : ~ (<<y, x>> \in OpToRel(<, Nat))
  BY <1>2, <1>3, NatLessThanWellFounded, WFMin
<1>5. \A y \in T : ~ (y < x)
  BY <1>2, <1>4 DEF OpToRel
<1>6. n - x \in S /\ x \in 0 .. n
  BY DEF T
<1>7. \A j \in S : j <= n - x
  BY <1>1, <1>5, <1>6
<1> QED
  BY <1>6, <1>7

\* The id a splitter uses is the one of an entry of its beacon for that sensor.
LEMMA IdOfEntry ==
  ASSUME MainType, NEW b \in Configured, NEW s, s \in Enabled(b)
  PROVE  \E k \in DOMAIN config[b + 1].sensors :
           /\ config[b + 1].sensors[k].index = s
           /\ config[b + 1].sensors[k].board = CheckerboardId(b, s)
<1>1. config[b + 1] \in BeaconConfigs
  BY DEF MainType, Configured
<1>2. PICK n \in Nat : DOMAIN config[b + 1].sensors = 1 .. n
  <2>1. config[b + 1].sensors \in Seq([index : Sensors, board : Boards])
    BY <1>1 DEF BeaconConfigs
  <2> QED
    BY <2>1
<1>3. Entries(b, s) \subseteq 1 .. n /\ Entries(b, s) # {}
  BY <1>2 DEF Entries, Enabled
<1>4. \E k \in Entries(b, s) : \A j \in Entries(b, s) : j <= k
  BY <1>3, GreatestElement
<1> DEFINE k == CHOOSE k \in Entries(b, s) : \A j \in Entries(b, s) : j <= k
<1>5. k \in Entries(b, s)
  BY <1>4
<1>6. CheckerboardId(b, s) = config[b + 1].sensors[k].board
  BY DEF CheckerboardId
<1> HIDE DEF k
<1> QED
  BY <1>5, <1>6 DEF Entries

\* An entry of the configuration is a row of the table.
LEMMA RowOfEntry ==
  ASSUME FloorInv, TableInv, NEW b \in Configured,
         NEW k \in DOMAIN config[b + 1].sensors
  PROVE  \E i \in SensorRows :
           /\ config[b + 1].address = G!Address(csv[i])
           /\ config[b + 1].sensors[k].index = csv[i].index
           /\ config[b + 1].sensors[k].board = csv[i].board
<1> DEFINE place == G!Place(config[b + 1].address, config[b + 1].sensors[k])
<1>1. config \in Seq(BeaconConfigs) /\ b + 1 \in DOMAIN config
  BY FloorParts DEF MainType, Configured
<1>2. config = beacons /\ control = "done"
  BY <1>1 DEF FloorInv, Configured
<1>3. place \in G!PlacesOf(config[b + 1])
  BY InPlacesOf
<1>4. place \in G!Places(beacons)
  BY <1>1, <1>2, <1>3, InPlaces
<1>5. place \in G!PlacesRead
  BY <1>2, <1>4 DEF TableInv, RowsAccountedFor, G!RowsAccountedFor
<1>6. PICK i \in G!RowsRead : G!Address(csv[i]) # "" /\ place = G!PlaceOf(csv[i])
  BY <1>5, Zenon DEF G!PlacesRead, G!NoAddress
<1>7. csv[i].address # G!NoAddress
  BY <1>6 DEF G!Address, G!NoAddress
<1>8. i \in SensorRows
  BY <1>6, <1>7 DEF SensorRows, G!RowsRead
<1>9. /\ config[b + 1].address = G!Address(csv[i])
      /\ config[b + 1].sensors[k].index = csv[i].index
      /\ config[b + 1].sensors[k].board = csv[i].board
  BY <1>6 DEF G!PlaceOf, G!Place, G!Sensor
<1> QED
  BY <1>8, <1>9

LEMMA PublishedWord ==
  ASSUME FloorInv, TableInv, ~CharIsSigned, NEW b \in Beacons, PublishValue(b),
         NEW t \in Topics, board'[t] # board[t]
  PROVE  \E i \in SensorRows, c \in accessing :
           /\ Topic(csv[i].board) = t
           /\ config[c + 1].address = G!Address(csv[i]) /\ data[c] # <<>>
           /\ LET word == data[c][csv[i].index]
              IN  board'[t] = 256 * word.high + word.low
<1>1. ShutInv /\ MainType /\ GattType /\ EventType
  BY FloorParts
<1> DEFINE id == CheckerboardId(b, sensor[b])
<1>2. /\ b \in accessing /\ data[b] \in Readings /\ receiver[b] = b
      /\ sensor[b] < NumSensors
    BY <1>1 DEF PublishValue, SplitRound, EventType
<1>3. /\ sensor[b] \in Enabled(b)
      /\ board' = [board EXCEPT ![Topic(id)] = SensorValue(data[b][sensor[b]])]
    BY <1>2 DEF PublishValue, SensorEnabled
<1>4. b \in Configured
  BY <1>1, <1>2, ReadAddress DEF ShutInv
<1>5. t = Topic(id) /\ board'[t] = SensorValue(data[b][sensor[b]])
  BY <1>1, <1>3 DEF EventType
<1>6. PICK k \in DOMAIN config[b + 1].sensors :
        /\ config[b + 1].sensors[k].index = sensor[b]
        /\ config[b + 1].sensors[k].board = id
  BY <1>1, <1>3, <1>4, IdOfEntry
<1>7. PICK i \in SensorRows :
        /\ config[b + 1].address = G!Address(csv[i])
        /\ sensor[b] = csv[i].index /\ id = csv[i].board
  BY <1>4, <1>6, RowOfEntry
<1>8. data[b] # <<>>
  <2>1. DOMAIN data[b] = Sensors /\ 0 \in Sensors
    BY <1>2, ReadingsAssumption, BoundsAssumption DEF Sensors
  <2> QED
    BY <2>1
<1>9. board'[t] = 256 * data[b][csv[i].index].high + data[b][csv[i].index].low
  BY <1>5, <1>7 DEF SensorValue
<1> HIDE DEF id
<1> QED
  BY <1>2, <1>5, <1>7, <1>8, <1>9

\* On a build whose plain char is unsigned, the value published for a checkerboard
\* is the word of the sensor that the table puts under it, for any table, any
\* number of beacons, and all interleavings of their readers
\* (generateJsonFromCsv/main.cpp:175-218, Config.cpp:85-124, ValueSplitter.cpp:31-45).
THEOREM OwnSensor ==
  ASSUME ~CharIsSigned
  PROVE  PlanSpec => ShowsOwnSensor
<1> DEFINE Own ==
      \A t \in Topics : board'[t] # board[t] =>
        \E i \in SensorRows, b \in accessing :
          /\ Topic(csv[i].board) = t
          /\ config[b + 1].address = G!Address(csv[i]) /\ data[b] # <<>>
          /\ LET word == data[b][csv[i].index]
             IN  board'[t] = 256 * word.high + word.low
<1>1. FloorInv /\ TableInv /\ [PlanNext]_planVars => [Own]_planVars
  <2> SUFFICES ASSUME FloorInv, TableInv, [PlanNext]_planVars
               PROVE  Own \/ UNCHANGED planVars
    BY Zenon
  <2>1. CASE UNCHANGED planVars
    BY <2>1
  <2>2. CASE Generate \/ CorrectKey
    <3>1. board' = board
      BY <2>2, Zenon DEF Generate, CorrectKey, eventVars
    <3> QED
      BY <3>1
  <2>3. CASE Run
    <3>1. board' = board \/ \E b \in Beacons : PublishValue(b)
      BY <2>3 DEF Run, Next, Setup, Cleanup, GenerateBeacon, DeleteBeacon,
         ConnectionChanges, Exited, Tread, Resolve, ReaderThread, ReadValue, ReadFails,
         BeginSplit, DiscardEvent, SkipSensor, LoseValue, eventVars, vars
    <3>2. CASE board' = board
      BY <3>2
    <3>3. CASE \E b \in Beacons : PublishValue(b)
      BY <3>3, PublishedWord
    <3> QED
      BY <3>1, <3>2, <3>3
  <2> QED
    BY <2>1, <2>2, <2>3 DEF PlanNext
<1> QED
  BY <1>1, FloorInvariance, TableInvariance, PTL DEF PlanSpec, ShowsOwnSensor

-----------------------------------------------------------------------------
(* The order in which a sensor's values are published.                     *)

\* A list of one.
LEMMA OneInHand ==
  ASSUME NEW S, NEW x \in S
  PROVE  /\ <<x>> # <<>> /\ Head(<<x>>) = x /\ Tail(<<x>>) = <<>>
         /\ Append(<<>>, x) = <<x>>
         /\ 1 \in DOMAIN <<x>>
         /\ SubSeq(<<x>>, 1, 1 - 1) \o SubSeq(<<x>>, 1 + 1, Len(<<x>>)) = <<>>
<1>1. <<x>> # <<>> /\ Head(<<x>>) = x /\ Append(<<>>, x) = <<x>> /\ 1 \in DOMAIN <<x>>
  OBVIOUS
<1>2. Tail(<<x>>) = <<>>
  OBVIOUS
<1>3. SubSeq(<<x>>, 1, 1 - 1) = <<>> /\ SubSeq(<<x>>, 1 + 1, Len(<<x>>)) = <<>>
  OBVIOUS
<1>4. <<>> \o <<>> = <<>>
  OBVIOUS
<1> QED
  BY <1>1, <1>2, <1>3, <1>4, Zenon

\* There is one import, so a daemon that has beacons keeps their configuration,
\* and each entry keeps its topic.
LEMMA ConfigKept ==
  ASSUME FloorInv, AssocInv, [PlanNext]_planVars, NEW b \in Configured, NEW s
  PROVE  /\ config' = config
         /\ CheckerboardId(b, s)' = CheckerboardId(b, s)
<1>1. config # <<>>
  BY DEF Configured
<1>2. ~ImportJSON
  BY <1>1 DEF AssocInv, ImportJSON, MainGoto
<1>3. config' = config
  <2>1. CASE Generate \/ CorrectKey \/ UNCHANGED planVars
    BY <2>1, Zenon
       DEF Generate, CorrectKey, planVars, vars, mainVars, configVars
  <2>2. CASE Run
    <3>1. CASE Setup \/ Cleanup
      BY <1>2, <3>1
         DEF Setup, Cleanup, GenerateBeacon, DeleteBeacon, ParseArgs, PrintCheck,
             ConstructMqtt, BeaconsGenerated, GenerateSplitters, Associate, Associated,
             Signal, BeaconsDeleted, DeleteSplitters, DeleteMqtt, mainVars, configVars
    <3>2. CASE \E c \in Beacons : Resolve(c) \/ ReaderThread(c)
      BY <3>2
         DEF Resolve, ReaderThread, ReadValue, ReadFails, BeginSplit, DiscardEvent,
             SkipSensor, PublishValue, LoseValue, SplitRound, mainVars, configVars
    <3>3. CASE ConnectionChanges \/ Exited \/ \E a \in Addresses : Tread(a)
      BY <3>3, Zenon DEF ConnectionChanges, Exited, Tread, vars, mainVars, configVars
    <3> QED
      BY <2>2, <3>1, <3>2, <3>3 DEF Run, Next
  <2> QED
    BY <2>1, <2>2 DEF PlanNext
<1> QED
  BY <1>3, Zenon DEF CheckerboardId, Entries

\* What a step does to the value in hand and to the topic makes it a step of the
\* mirror.
LEMMA TileMaps ==
  ASSUME NEW b, NEW s, NEW r \in Readings,
         level[config[b + 1].address] \in Readings,
         (level[config[b + 1].address])' \in Readings,
         LET t == Topic(CheckerboardId(b, s))
         IN  \/ InHand(b, s)' = InHand(b, s) /\ board'[t'] = board[t]
             \/ /\ InHand(b, s) = <<>> /\ InHand(b, s)' = <<level[config[b + 1].address]>>
                /\ (level[config[b + 1].address])' = level[config[b + 1].address]
                /\ board'[t'] = board[t]
             \/ /\ InHand(b, s) = <<r>> /\ InHand(b, s)' = <<>>
                /\ (level[config[b + 1].address])' = level[config[b + 1].address]
                /\ board'[t'] \in {board[t], SensorValue(r[s])}
  PROVE  Tile(b, s)!Next
<1> DEFINE t == Topic(CheckerboardId(b, s))
           l == level[config[b + 1].address]
<1>1. CASE InHand(b, s)' = InHand(b, s) /\ board'[t'] = board[t]
  BY <1>1, Zenon DEF Tile!Next, Tile!Change
<1>2. CASE /\ InHand(b, s) = <<>> /\ InHand(b, s)' = <<l>> /\ l' = l
           /\ board'[t'] = board[t]
  BY <1>2, OneInHand DEF Tile!Next, Tile!Sample
<1>3. CASE /\ InHand(b, s) = <<r>> /\ InHand(b, s)' = <<>> /\ l' = l
           /\ board'[t'] = board[t]
  BY <1>3, OneInHand DEF Tile!Next, Tile!Lose, Tile!Without
<1>4. CASE /\ InHand(b, s) = <<r>> /\ InHand(b, s)' = <<>> /\ l' = l
           /\ board'[t'] = SensorValue(r[s])
  BY <1>4, OneInHand DEF Tile!Next, Tile!SendAndShow
<1> QED
  BY <1>1, <1>2, <1>3, <1>4

\* What the invariants say of an entry whose beacon has a reading in hand.
LEMMA InHandType ==
  ASSUME FloorInv, NEW b \in Configured, NEW s \in Sensors
  PROVE  /\ b \in Beacons /\ level[config[b + 1].address] \in Readings
         /\ <<>> \notin Readings
         /\ data[b] \in Readings \cup {<<>>} /\ sensor[b] \in 0 .. NumSensors
         /\ InHand(b, s) # <<>> => data[b] \in Readings /\ InHand(b, s) = <<data[b]>>
         /\ sensor[b] < NumSensors =>
              b \in accessing /\ data[b] \in Readings /\ receiver[b] = b
<1>1. MainType /\ EventType
  BY FloorParts
<1>2. b \in Beacons
  BY <1>1, ConfiguredType
<1>3. config[b + 1].address \in Addresses
  <2>1. config \in Seq(BeaconConfigs) /\ b + 1 \in DOMAIN config
    BY <1>1 DEF MainType, Configured
  <2>2. config[b + 1] \in BeaconConfigs
    BY <2>1, ElementOfSeq
  <2> QED
    BY <2>2 DEF BeaconConfigs
<1>4. <<>> \notin Readings
  <2>1. \A r \in Readings : DOMAIN r = Sensors /\ 0 \in Sensors
    BY ReadingsAssumption, BoundsAssumption DEF Sensors
  <2> QED
    BY <2>1
<1>5. InHand(b, s) # <<>> => data[b] # <<>> /\ InHand(b, s) = <<data[b]>>
  BY DEF InHand
<1> QED
  BY <1>1, <1>2, <1>3, <1>4, <1>5 DEF EventType

\* An entry's topic is one of those there are.
LEMMA TopicOfEntry ==
  ASSUME FloorInv, NEW b \in Configured, NEW s \in Enabled(b)
  PROVE  Topic(CheckerboardId(b, s)) \in Topics
<1>1. MainType
  BY FloorParts
<1>2. PICK k \in DOMAIN config[b + 1].sensors :
        config[b + 1].sensors[k].board = CheckerboardId(b, s)
  BY <1>1, IdOfEntry
<1>3. config[b + 1] \in BeaconConfigs
  BY <1>1 DEF MainType, Configured
<1>4. config[b + 1].sensors \in Seq([index : Sensors, board : Boards])
  BY <1>3 DEF BeaconConfigs
<1>5. config[b + 1].sensors[k] \in [index : Sensors, board : Boards]
  <2>1. k \in 1 .. Len(config[b + 1].sensors)
    BY <1>4, LenProperties
  <2> QED
    BY <1>4, <2>1, ElementOfSeq
<1>6. CheckerboardId(b, s) \in Boards
  BY <1>2, <1>5
<1> QED
  BY <1>6, Zenon DEF Topics

\* A step of another beacon's reader neither touches what b's reader has in hand
\* nor publishes under a topic that only b publishes to.
LEMMA OtherReader ==
  ASSUME FloorInv, NEW b \in Configured, NEW s \in Enabled(b), Alone(b, s),
         NEW c \in Beacons, c # b, ReaderThread(c)
  PROVE  /\ InHand(b, s)' = InHand(b, s)
         /\ board'[Topic(CheckerboardId(b, s))] = board[Topic(CheckerboardId(b, s))]
<1>1. ShutInv /\ EventType /\ b \in Beacons /\ s \in Sensors
  BY FloorParts, InHandType DEF Enabled
<1>2. /\ data'[b] = data[b] /\ sensor'[b] = sensor[b]
      /\ b \in accessing' <=> b \in accessing
  BY <1>1
     DEF ReaderThread, ReadValue, ReadFails, BeginSplit, DiscardEvent, SkipSensor,
         PublishValue, LoseValue, SplitRound, EndRound, EventType, gattVars,
         Gatt!BeginAccess, Gatt!EndAccess
<1>3. InHand(b, s)' = InHand(b, s)
  BY <1>2 DEF InHand
<1>4. CASE PublishValue(c)
  <2>1. /\ sensor[c] \in Enabled(c) /\ c \in accessing
        /\ board' = [board EXCEPT ![Topic(CheckerboardId(c, sensor[c]))] =
                                    SensorValue(data[c][sensor[c]])]
    BY <1>1, <1>4 DEF PublishValue, SplitRound, SensorEnabled, EventType
  <2>2. c \in Configured
    BY <1>1, <2>1 DEF ShutInv
  <2>3. Topic(CheckerboardId(c, sensor[c])) # Topic(CheckerboardId(b, s))
    BY <2>1, <2>2 DEF Alone
  <2> QED
    BY <1>1, <1>3, <2>1, <2>3, TopicOfEntry DEF EventType
<1>5. CASE ~PublishValue(c)
  <2>1. board' = board
    BY <1>5 DEF ReaderThread, ReadValue, ReadFails, BeginSplit, DiscardEvent, SkipSensor,
       LoseValue, eventVars
  <2> QED
    BY <1>3, <2>1
<1> QED
  BY <1>4, <1>5

\* A round of b's own reader takes a reading in hand, ...
LEMMA OwnRead ==
  ASSUME FloorInv, NEW b \in Configured, NEW s \in Sensors,
         ReadValue(b) \/ ReadFails(b) \/ BeginSplit(b) \/ DiscardEvent(b)
  PROVE  /\ UNCHANGED <<level, board>>
         /\ \/ InHand(b, s)' = InHand(b, s)
            \/ /\ InHand(b, s) = <<>>
               /\ InHand(b, s)' = <<level[config[b + 1].address]>>
            \/ InHand(b, s)' = <<>> /\ InHand(b, s) = <<data[b]>> /\ data[b] \in Readings
<1>1. EventType /\ NumSensors \in Nat /\ s \in 0 .. NumSensors - 1 /\ ~(0 > s)
  BY FloorParts, BoundsAssumption DEF Sensors
<1>2. b \in Beacons /\ <<>> \notin Readings
  BY InHandType
<1>3. CASE ReadValue(b)
  <2>1. /\ b \notin accessing /\ b \in accessing' /\ UNCHANGED <<level, board, sensor>>
        /\ data'[b] = level[config[b + 1].address]
    BY <1>1, <1>2, <1>3 DEF ReadValue, Gatt!BeginAccess, EventType
  <2>2. sensor[b] = NumSensors /\ data'[b] # <<>>
    BY <1>1, <2>1, InHandType
  <2> QED
    BY <2>1, <2>2 DEF InHand
<1>4. CASE ReadFails(b)
  <2>1. b \notin accessing /\ data'[b] = <<>> /\ UNCHANGED <<level, board>>
    BY <1>1, <1>2, <1>4 DEF ReadFails, Gatt!BeginAccess, EventType
  <2> QED
    BY <2>1 DEF InHand
<1>5. CASE BeginSplit(b)
  <2>1. /\ sensor[b] = NumSensors /\ sensor'[b] = 0
        /\ UNCHANGED <<level, board, data, accessing>>
    BY <1>1, <1>2, <1>5 DEF BeginSplit, EventType, gattVars
  <2> QED
    BY <1>1, <2>1 DEF InHand
<1>6. CASE DiscardEvent(b)
  <2>1. b \notin accessing' /\ UNCHANGED <<level, board>>
    BY <1>6 DEF DiscardEvent, EndRound, Gatt!EndAccess
  <2>2. InHand(b, s)' = <<>>
    BY <2>1 DEF InHand
  <2> QED
    BY <2>1, <2>2, InHandType
<1> QED
  BY <1>3, <1>4, <1>5, <1>6

\* ... and publishes it for s when the splitter's loop comes to s, or never.
LEMMA OwnSplit ==
  ASSUME FloorInv, NEW b \in Configured, NEW s \in Enabled(b), Alone(b, s),
         SkipSensor(b) \/ PublishValue(b) \/ LoseValue(b)
  PROVE  LET t == Topic(CheckerboardId(b, s))
         IN  /\ level' = level
             /\ \/ InHand(b, s)' = InHand(b, s) /\ board'[t] = board[t]
                \/ /\ InHand(b, s) = <<data[b]>> /\ data[b] \in Readings
                   /\ InHand(b, s)' = <<>>
                   /\ board'[t] \in {board[t], SensorValue(data[b][s])}
<1> DEFINE t == Topic(CheckerboardId(b, s))
           k == sensor[b]
<1>1. /\ EventType /\ NumSensors \in Nat /\ s \in 0 .. NumSensors - 1 /\ s \in Sensors
      /\ t \in Topics
  BY FloorParts, TopicOfEntry, BoundsAssumption DEF Sensors, Enabled
<1>2. /\ b \in Beacons /\ b \in accessing /\ data[b] \in Readings /\ data[b] # <<>>
      /\ receiver[b] = b /\ k \in 0 .. NumSensors /\ k < NumSensors
  BY <1>1, InHandType DEF SkipSensor, PublishValue, LoseValue, SplitRound
<1>3. /\ level' = level /\ sensor'[b] = k + 1
      /\ k + 1 = NumSensors => b \notin accessing'
      /\ k + 1 # NumSensors => UNCHANGED <<accessing, data>>
  BY <1>1, <1>2 DEF SkipSensor, PublishValue, LoseValue, SplitRound, NextSensor,
     EndRound, EventType, gattVars, Gatt!EndAccess
<1>4. \/ board' = board
      \/ /\ k \in Enabled(b)
         /\ board' = [board EXCEPT ![Topic(CheckerboardId(b, k))] =
                                     SensorValue(data[b][k])]
  BY <1>2 DEF SkipSensor, PublishValue, LoseValue, SensorEnabled
<1>5. CASE k # s
  <2>1. board'[t] = board[t]
    <3>1. k \in Enabled(b) => Topic(CheckerboardId(b, k)) # t
      BY <1>5 DEF Alone
    <3> QED
      BY <1>1, <1>4, <3>1 DEF EventType
  <2>2. CASE k < s
    BY <1>1, <1>2, <1>3, <2>1, <2>2 DEF InHand
  <2>3. CASE k > s
    <3>1. InHand(b, s) = <<>>
      BY <1>1, <1>2, <2>3 DEF InHand
    <3>2. InHand(b, s)' = <<>>
      BY <1>1, <1>2, <1>3, <2>3 DEF InHand
    <3> QED
      BY <1>3, <2>1, <3>1, <3>2
  <2> QED
    BY <1>1, <1>2, <1>5, <2>2, <2>3
<1>6. CASE k = s
  <2>1. InHand(b, s) = <<data[b]>>
    BY <1>1, <1>2, <1>6 DEF InHand
  <2>2. InHand(b, s)' = <<>>
    BY <1>1, <1>2, <1>3, <1>6 DEF InHand
  <2>3. board'[t] \in {board[t], SensorValue(data[b][s])}
    BY <1>1, <1>4, <1>6 DEF EventType
  <2> QED
    BY <1>2, <1>3, <2>1, <2>2, <2>3
<1> QED
  BY <1>5, <1>6

\* Every other step of the system leaves the readers as they are.
LEMMA StillReaders ==
  ASSUME [PlanNext]_planVars, ~ \E c \in Beacons : ReaderThread(c)
  PROVE  UNCHANGED <<accessing, data, sensor, board>>
<1>1. CASE Generate \/ CorrectKey \/ UNCHANGED planVars
  BY <1>1, Zenon DEF Generate, CorrectKey, planVars, vars, gattVars, eventVars
<1>2. CASE Run
  <2>1. CASE Setup \/ Cleanup
    BY <2>1 DEF Setup, Cleanup, GenerateBeacon, DeleteBeacon, Gatt!Create, Gatt!Destroy,
       gattVars, eventVars
  <2>2. CASE \E c \in Beacons : Resolve(c)
    BY <2>2, Zenon DEF Resolve, Gatt!Resolve, eventVars
  <2>3. CASE ConnectionChanges \/ Exited \/ \E a \in Addresses : Tread(a)
    BY <2>3, Zenon DEF ConnectionChanges, Exited, Tread, vars, gattVars, eventVars
  <2> QED
    BY <1>2, <2>1, <2>2, <2>3, Zenon DEF Run, Next
<1> QED
  BY <1>1, <1>2, Zenon DEF PlanNext

LEMMA TileStep ==
  ASSUME FloorInv, FloorInv', AssocInv, [PlanNext]_planVars,
         NEW b \in Configured, NEW s \in Enabled(b), Alone(b, s)
  PROVE  Tile(b, s)!Next
<1> DEFINE t == Topic(CheckerboardId(b, s))
           l == level[config[b + 1].address]
<1>1. config' = config /\ t' = t
  BY ConfigKept, Zenon DEF Topic
<1>2. s \in Sensors /\ b \in Configured'
  BY <1>1 DEF Enabled, Configured
<1>3. l \in Readings /\ l' \in Readings
  <2>1. l \in Readings
    BY <1>2, InHandType
  <2>2. level' \in [Addresses -> Readings] /\ level \in [Addresses -> Readings]
    BY FloorParts DEF EventType
  <2>3. config[b + 1].address \in Addresses
    <3>1. config \in Seq(BeaconConfigs) /\ b + 1 \in DOMAIN config
      BY FloorParts DEF MainType, Configured
    <3>2. config[b + 1] \in BeaconConfigs
      BY <3>1, ElementOfSeq
    <3> QED
      BY <3>2 DEF BeaconConfigs
  <2> QED
    BY <1>1, <2>1, <2>2, <2>3
<1>4. CASE \E c \in Beacons : ReaderThread(c)
  <2>1. PICK c \in Beacons : ReaderThread(c)
    BY <1>4
  <2>2. CASE c # b
    <3>1. InHand(b, s)' = InHand(b, s) /\ board'[t] = board[t]
      BY <2>1, <2>2, OtherReader
    <3> QED
      BY <1>1, <1>3, <3>1, TileMaps, Zenon
  <2>3. CASE c = b /\ (ReadValue(b) \/ ReadFails(b) \/ BeginSplit(b) \/ DiscardEvent(b))
    <3>1. /\ l' = l /\ board'[t'] = board[t]
          /\ \/ InHand(b, s)' = InHand(b, s)
             \/ InHand(b, s) = <<>> /\ InHand(b, s)' = <<l>>
             \/ InHand(b, s)' = <<>> /\ InHand(b, s) = <<data[b]>> /\ data[b] \in Readings
      BY <1>1, <1>2, <2>3, OwnRead
    <3> HIDE DEF t, l
    <3> QED
      BY <1>3, <3>1, TileMaps, Zenon DEF t, l
  <2>4. CASE c = b /\ (SkipSensor(b) \/ PublishValue(b) \/ LoseValue(b))
    <3>1. /\ l' = l
          /\ \/ InHand(b, s)' = InHand(b, s) /\ board'[t'] = board[t]
             \/ /\ InHand(b, s) = <<data[b]>> /\ data[b] \in Readings
                /\ InHand(b, s)' = <<>>
                /\ board'[t'] \in {board[t], SensorValue(data[b][s])}
      BY <1>1, <2>4, OwnSplit
    <3> QED
      BY <1>3, <3>1, TileMaps, Zenon
  <2> QED
    BY <2>1, <2>2, <2>3, <2>4 DEF ReaderThread
<1>5. CASE ~ \E c \in Beacons : ReaderThread(c)
  <2>1. UNCHANGED <<accessing, data, sensor, board>>
    BY <1>5, StillReaders
  <2>2. InHand(b, s)' = InHand(b, s) /\ board'[t'] = board[t]
    BY <1>1, <2>1, Zenon DEF InHand
  <2> QED
    BY <1>3, <2>2, TileMaps, Zenon
<1> QED
  BY <1>4, <1>5

\* The values under a topic that one entry publishes to come in the order in which
\* they were read, for any number of beacons and sensors, either sign of a char, and
\* all interleavings of the readers (BLEClient.cpp:268-303, ValueSplitter.cpp:20-45).
THEOREM OrderKept == PlanSpec => KeepsOrder
<1> DEFINE Mirrors ==
      \A b \in Configured : \A s \in Enabled(b) :
        Alone(b, s) => Tile(b, s)!Next \/ UNCHANGED Tile(b, s)!vars
<1>1. PlanInit => AssocInv
  BY AssocInit DEF PlanInit
<1>2. FloorInv /\ AssocInv /\ [PlanNext]_planVars => AssocInv'
  BY AssocStep
<1>3. FloorInv /\ FloorInv' /\ AssocInv /\ [PlanNext]_planVars => [Mirrors]_planVars
  BY TileStep, Zenon
<1> QED
  BY <1>1, <1>2, <1>3, FloorInvariance, PTL DEF PlanSpec, KeepsOrder

=============================================================================
