---------------------------- MODULE GenerateJson ----------------------------
(***************************************************************************)
(* generateJsonFromCsv: one pass over the rows of a table, one row per     *)
(* sensor, which groups the sensors by beacon and prints them as JSON.     *)
(*                                                                         *)
(* Of a row only what the configuration of floorsensord is made of is      *)
(* kept: the address of the beacon, the index and the checkerboard id of   *)
(* the sensor; "numbered" says that both numbers of the row are numbers.   *)
(* Of the JSON text, the beacons and the key their sensors are under.      *)
(***************************************************************************)
EXTENDS Naturals, Sequences

CONSTANTS
  Tables,  \* the tables there may be: sequences of rows
  Upper    \* boost::to_upper_copy(), on the addresses that are not empty

NoAddress == ""

VARIABLES
  control,     \* of main()
  rows,        \* the rows of dataList that are still to come
  lastBeacon,  \* the address of the row before
  beacon,      \* the beacon that is being put together
  beacons,     \* the beacons that are complete
  csv,         \* the table, whose first row is the header
  file         \* what is printed

genVars == <<control, rows, lastBeacon, beacon, beacons, csv, file>>

NoBeacon == [address |-> NoAddress, sensors |-> <<>>]

NoFile == [key |-> "none", beacons |-> <<>>]

GenInit ==
  /\ control = "read"
  /\ rows = <<>>
  /\ lastBeacon = NoAddress
  /\ beacon = NoBeacon
  /\ beacons = <<>>
  /\ csv \in Tables
  /\ file = NoFile

\* getData(): a table that is not there is empty.
GetData ==
  /\ control = "read"
  /\ control' = "scan"
  /\ rows' = IF csv = <<>> THEN <<>> ELSE Tail(csv)
  /\ UNCHANGED <<lastBeacon, beacon, beacons, csv, file>>

Address(row) == IF row.address = NoAddress THEN NoAddress ELSE Upper[row.address]

Sensor(row) == [index |-> row.index, board |-> row.board]

\* A round of the loop, with a row whose numbers stoi() can read.
Scan(row) ==
  /\ control = "scan" /\ rows # <<>> /\ row = Head(rows) /\ row.numbered
  /\ rows' = Tail(rows)
  /\ UNCHANGED <<control, csv, file>>

\* Otherwise the exception ends the program.
NotANumber ==
  /\ control = "scan" /\ rows # <<>> /\ ~Head(rows).numbered
  /\ control' = "died"
  /\ UNCHANGED <<rows, lastBeacon, beacon, beacons, csv, file>>

\* A row without an address completes a beacon that has sensors.
EmptyAddress(row) ==
  /\ Scan(row) /\ Address(row) = NoAddress
  /\ beacons' = IF beacon.sensors = <<>> THEN beacons ELSE Append(beacons, beacon)
  /\ beacon' = [beacon EXCEPT !.sensors = <<>>]
  /\ UNCHANGED lastBeacon

FirstAddress(row) ==
  /\ Scan(row) /\ Address(row) # NoAddress /\ lastBeacon = NoAddress
  /\ lastBeacon' = Address(row)
  /\ beacon' = [address |-> Address(row),
                sensors |-> Append(beacon.sensors, Sensor(row))]
  /\ UNCHANGED beacons

SameAddress(row) ==
  /\ Scan(row) /\ Address(row) # NoAddress /\ lastBeacon = Address(row)
  /\ beacon' = [beacon EXCEPT !.sensors = Append(@, Sensor(row))]
  /\ UNCHANGED <<lastBeacon, beacons>>

\* Faulty: the sensors of the beacon before are not cleared.
NextAddressUncleared(row) ==
  /\ Scan(row) /\ Address(row) # NoAddress
  /\ lastBeacon \notin {NoAddress, Address(row)}
  /\ lastBeacon' = Address(row)
  /\ beacons' = Append(beacons, beacon)
  /\ beacon' = [address |-> Address(row),
                sensors |-> Append(beacon.sensors, Sensor(row))]

\* Another address completes the beacon, even one without sensors.
NextAddress(row) ==
  /\ Scan(row) /\ Address(row) # NoAddress
  /\ lastBeacon \notin {NoAddress, Address(row)}
  /\ lastBeacon' = Address(row)
  /\ beacons' = Append(beacons, beacon)
  /\ beacon' = [address |-> Address(row), sensors |-> <<Sensor(row)>>]

\* to_json() puts the sensors of a beacon under the key "sensor".
ToJson(list) == [key |-> "sensor", beacons |-> list]

\* The list is printed, without the beacon that is being put together.
Dump ==
  /\ control = "scan" /\ rows = <<>>
  /\ control' = "done"
  /\ file' = ToJson(beacons)
  /\ UNCHANGED <<rows, lastBeacon, beacon, beacons, csv>>

Rows == UNION {{t[i] : i \in DOMAIN t} : t \in Tables}

ScanRow ==
  \E row \in Rows :
    \/ EmptyAddress(row) \/ FirstAddress(row) \/ SameAddress(row)
    \/ NextAddress(row)

GenNext == GetData \/ ScanRow \/ NotANumber \/ Dump

-----------------------------------------------------------------------------
(* Properties.                                                             *)

\* The places a list of beacons gives to checkerboards.
Place(address, sensor) == <<address, sensor.index, sensor.board>>
PlacesOf(b) == {Place(b.address, b.sensors[i]) : i \in DOMAIN b.sensors}
Places(list) == UNION {PlacesOf(list[i]) : i \in DOMAIN list}

\* The rows that have been read and have an address; those with an empty one do
\* not name a place.
PlaceOf(row) == Place(Address(row), Sensor(row))
RowsRead == {i \in 2..Len(csv) : i <= Len(csv) - Len(rows)}
PlacesRead ==
  {PlaceOf(csv[i]) : i \in {j \in RowsRead : Address(csv[j]) # NoAddress}}

\* After every row, the complete beacons and the one that is being put together
\* hold exactly the sensors of the rows read, each under its own address,
\* whatever the order of addresses, empty rows and spellings (main.cpp:175-218).
RowsAccountedFor ==
  control # "read" => Places(beacons) \cup PlacesOf(beacon) = PlacesRead

=============================================================================
