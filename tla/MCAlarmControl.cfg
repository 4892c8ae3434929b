\* Two buttons and one light, whose commands follow each other for ever; two
\* messages may be sent and unacknowledged at a time.
SPECIFICATION AlarmSpec
CONSTANTS
  Axes = {}
  Positions = {"mid"}
  Buttons = {4, 5}
  MaxPending = 1
  MaxOutbox = 2
  MaxWire = 1
  Subscription <- SwitchPayloads
INVARIANTS
  AlarmTypeOK
  EventsFindBle
PROPERTIES
  LightMirrorsButtons
  LightFollows
