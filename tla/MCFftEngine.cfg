SPECIFICATION EngineSpec
CONSTANTS
  FftSize = 8
  Levels = 3
  MaxFrames = 2
INVARIANT SpectrumOfThisFrame
INVARIANT WaterfallOfThisFrame
INVARIANT CallsAreValid
INVARIANT ObjectsInOrder
PROPERTY EveryFrameReturns
