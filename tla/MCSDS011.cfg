\* Up to two frames under way, with two errors at any place.
SPECIFICATION Spec
CONSTANTS
  Payloads <- TwoPayloads
  Noise = {170, 192}
  PortBytes = 42
  MaxLine = 21
  MaxErrors = 2
INVARIANTS
  ParserInv
  ReportsFrames
  FirstFrameWins
PROPERTIES
  ImplementsFrameSource
