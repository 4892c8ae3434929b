\* Whether a daemon runs with what the generator prints.
SPECIFICATION PlanSpec
CONSTANTS
  Addresses = {"A", "B"}
  Boards = {"a1", "b0", ""}
  MaxBeacons = 2
  NumSensors = 2
  Readings <- TwoReadings
  CharIsSigned = FALSE
  IndexLimit = 3
  Tables <- FiveTables
  Upper <- UpperOf
INVARIANTS
  RowsReachDaemon
