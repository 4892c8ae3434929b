\* Two axes and one button, whose message is subscribed to; two events in the
\* kernel's queue.
SPECIFICATION Spec
CONSTANTS
  Axes = {0, 1}
  Positions = {"low", "mid", "high"}
  Buttons = {4}
  MaxPending = 2
  MaxOutbox = 1
  MaxWire = 1
  Subscription = {"1"}
INVARIANTS
  StickInv
  MovingMeansDeflected
