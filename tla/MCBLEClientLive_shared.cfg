\* Two writers, whose connection threads stop each other's scan, on an adapter that
\* does not mind being told to stop a scan when there is none.
SPECIFICATION LiveSpec
CONSTANTS
  c1 = c1
  c2 = c2
  Clients <- Two
  Readers = {}
  MaxDiscoveryDelay = 1
  MaxConnectionDelay = 1
  MaxSetbacks = 2
  IdleStopThrows = FALSE
PROPERTIES
  BecomesUsable
  Reconnects
