\* One axis, which the robot has to follow; two messages may be sent and
\* unacknowledged at a time.
SPECIFICATION ControlSpec
CONSTANTS
  Axes = {2}
  Positions = {"mid", "high"}
  Buttons = {}
  MaxPending = 1
  MaxOutbox = 2
  MaxWire = 1
  Subscription <- SteeringTopics
INVARIANTS
  ControlTypeOK
PROPERTIES
  ImplementsMirror
  RestsUntilMoved
  RobotFollows
  ReleaseStops
