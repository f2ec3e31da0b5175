CONSTANTS
  FrameSamples = 3
  PacketSamples = 2
  BlockSizes = {1, 2}
  SizeThreshold = 3
  SoftHits = 2
  CloseHits = 3
  MaxFrames = 6
  MaxFailures = 2
SPECIFICATION Spec
INVARIANTS StreamIntact AccumBounded NothingFromBeforeTheGate SquelchDecision
