\* robbyd loses its connection to the broker, and gets it back.
SPECIFICATION ControlSpec
CONSTANTS
  Axes = {2}
  Positions = {"mid", "high"}
  Buttons = {}
  MaxPending = 1
  MaxOutbox = 1
  MaxWire = 1
  Subscription <- SteeringTopics
PROPERTIES
  ForwardsWhenConnected
