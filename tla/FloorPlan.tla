------------------------------ MODULE FloorPlan ------------------------------
(***************************************************************************)
(* From the table of sensors to the values under their topics:             *)
(* generateJsonFromCsv prints a file, somebody may correct the key of its  *)
(* sensors by hand, as in the files of etc/, and floorsensord runs with    *)
(* it.                                                                     *)
(***************************************************************************)
EXTENDS Floorsensord

CONSTANTS Tables, Upper

\* The rows of a table: up to the case, they name the addresses there are.
TableRows == [numbered : BOOLEAN, address : DOMAIN Upper \cup {""},
              index : Sensors, board : Boards]

ASSUME TablesAssumption ==
  Tables \subseteq Seq(TableRows) /\ Upper \in [DOMAIN Upper -> Addresses]

VARIABLES control, rows, lastBeacon, beacon, beacons, csv

G == INSTANCE GenerateJson

genLocals == <<control, rows, lastBeacon, beacon, beacons, csv>>
planVars == <<vars, genLocals>>

PlanInit == G!GenInit /\ Init

\* The daemon is started when the generator has ended.
Generated == control \in {"done", "died"}

Generate == G!GenNext /\ UNCHANGED <<main, checkFlag, config, listVars, mqtt,
                                     gattVars, connected, level, eventVars>>

CorrectKey ==
  /\ control = "done" /\ main = "parse" /\ file.key = "sensor"
  /\ file' = [file EXCEPT !.key = "sensors"]
  /\ UNCHANGED <<main, checkFlag, config, listVars, mqtt, gattVars, connected,
                 level, eventVars, genLocals>>

Run == Generated /\ Next /\ UNCHANGED genLocals

PlanNext == Generate \/ CorrectKey \/ Run

Daemon(A) == A /\ Generated /\ UNCHANGED genLocals

\* The programs run.  A read and a message may fail any number of times, but not
\* for ever; nothing obliges pause() to return, or the key to be corrected.
PlanFairness ==
  /\ WF_planVars(Generate \/ Daemon(Setup))
  /\ \A b \in Beacons :
       /\ WF_planVars(Daemon(Resolve(b) \/ ReaderThread(b)))
       /\ SF_planVars(Daemon(ReadValue(b)))
       /\ \A s \in Sensors :
            SF_planVars(Daemon(sensor[b] = s /\ PublishValue(b)))

PlanSpec == PlanInit /\ [][PlanNext]_planVars /\ PlanFairness

-----------------------------------------------------------------------------
(* Properties.                                                             *)

RowsAccountedFor == G!RowsAccountedFor

\* The rows of the table that stand for a sensor.
SensorRows == {i \in 2..Len(csv) : csv[i].address # G!NoAddress}

\* Whatever the readers of the beacons do at the same time, the value published
\* for a checkerboard is the 16-bit word ("Extract 16-bit word",
\* ValueSplitter.cpp:35) of the one sensor that the table puts under it, taken
\* from a reading of that sensor's beacon (generateJsonFromCsv/main.cpp:175-218,
\* Config.cpp:85-124, ValueSplitter.cpp:31-45).
ShowsOwnSensor ==
  [][\A t \in Topics : board'[t] # board[t] =>
       \E i \in SensorRows, b \in accessing :
         /\ Topic(csv[i].board) = t
         /\ config[b + 1].address = G!Address(csv[i]) /\ data[b] # <<>>
         /\ LET word == data[b][csv[i].index]
            IN  board'[t] = 256 * word.high + word.low]_planVars

\* No other entry of the configuration publishes under the topic of b's sensor s.
Alone(b, s) ==
  \A c \in Configured : \A r \in Enabled(c) :
    Topic(CheckerboardId(c, r)) = Topic(CheckerboardId(b, s)) => c = b /\ r = s

\* The reading that beacon b's reader holds and its splitter has yet to publish
\* for sensor s.
InHand(b, s) ==
  IF b \in accessing /\ data[b] # <<>> /\ (sensor[b] = NumSensors \/ sensor[b] <= s)
  THEN <<data[b]>> ELSE <<>>

Tile(b, s) == INSTANCE Mirror WITH
  Values <- Readings,
  Shown  <- [r \in Readings |-> SensorValue(r[s])],
  Lossy  <- TRUE,
  source <- level[config[b + 1].address],
  queue  <- InHand(b, s),
  kept   <- <<>>,
  way    <- <<>>,
  shown  <- board[Topic(CheckerboardId(b, s))]

\* A topic that one entry of the configuration publishes to is a mirror of that
\* entry's sensor: its values come in the order in which they were read and none
\* comes back, even after reads that failed, whatever the other readers do at the
\* same time.  (Two entries with one checkerboard id may overtake each other; what
\* the library sends again on its way to the broker is not in it.)
\* (BLEClient.cpp:268-303, ValueSplitter.cpp:20-45)
KeepsOrder ==
  [][\A b \in Configured : \A s \in Enabled(b) :
       Alone(b, s) => Tile(b, s)!Next \/ UNCHANGED Tile(b, s)!vars]_planVars

\* When main() waits, every beacon of the configuration is polled and delivers to
\* the splitter made from its own part of the configuration: the three lists
\* agree, whatever the 8-bit index of the loop went through, and although a beacon
\* polls from its construction on (Config.cpp:85-124, main.cpp:104-118).
AllAssociated ==
  main = "pause" =>
    \A b \in Configured : life[b] = "alive" /\ receiver[b] = b

\* A reading that stays is shown for each sensor of the configuration in the end,
\* whatever reads and messages were lost before, and whether other clients read
\* the same beacon, unless the daemon is told to stop
\* (BLEClient.cpp:268-303, ValueSplitter.cpp:31-45).
EventuallyShown ==
  \A row \in {x \in G!Rows : x.address # G!NoAddress}, r \in Readings :
    <>[](/\ level[G!Address(row)] = r /\ connected /\ main = "pause"
         /\ G!PlaceOf(row) \in G!Places(config))
      => <>[](board[Topic(row.board)] = SensorValue(r[row.index]))

\* "Configutation generators: configuration from floorsensod" (README.md:124-125):
\* the rows of a table are in the configuration of a daemon that runs with the
\* file printed for it.
RowsReachDaemon ==
  control = "done" /\ main = "pause" =>
    \A i \in SensorRows : G!PlaceOf(csv[i]) \in G!Places(config)

=============================================================================
