\* From five tables to the topics, on a build whose plain char is unsigned.
SPECIFICATION PlanSpec
CONSTANTS
  Addresses = {"A", "B"}
  Boards = {"a1", "b0", ""}
  MaxBeacons = 2
  NumSensors = 2
  Readings <- TwoReadings
  CharIsSigned = FALSE
  IndexLimit = 3
  Tables <- FiveTables
  Upper <- UpperOf
INVARIANTS
  TypeOK
  NoEventAfterDelete
  RowsAccountedFor
  AllAssociated
PROPERTIES
  ShowsOwnSensor
  KeepsOrder
  AssociationCompletes
  EventuallyShown
