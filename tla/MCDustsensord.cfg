\* A sensor with an id, or with the id 0, for which the daemon waits in vain; two
\* messages of one client may be sent and unacknowledged at a time.
SPECIFICATION Spec
CONSTANTS
  SensorIds = {0, 7}
  Levels <- TwoOfPM10
  MaxStream = 1
  MaxOutbox <- TwoAndOne
INVARIANTS
  TypeOK
  ShowsOwnQuantity
PROPERTIES
  SentIsRead
  ImplementsMirrors
  FindsSensor
  NoSessionLasts
  LevelShown
