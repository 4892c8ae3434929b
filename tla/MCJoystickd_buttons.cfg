\* Both buttons, which the user may hold down together.
SPECIFICATION Spec
CONSTANTS
  Axes = {1}
  Positions = {"low", "mid", "high"}
  Buttons = {4, 5}
  MaxPending = 1
  MaxOutbox = 1
  MaxWire = 1
  Subscription = {}
PROPERTIES
  LampFollowsPress
