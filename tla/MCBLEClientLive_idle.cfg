\* The same on an adapter that rejects it, and a radio that never fails.
SPECIFICATION LiveSpec
CONSTANTS
  c1 = c1
  c2 = c2
  Clients <- Two
  Readers = {}
  MaxDiscoveryDelay = 1
  MaxConnectionDelay = 1
  MaxSetbacks = 0
  IdleStopThrows = TRUE
PROPERTIES
  BecomesUsable
