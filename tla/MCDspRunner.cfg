CONSTANTS
  PoolDepth = 3
  WfPool = 3
  WorkDepth = 2
  SkipNum = 2
  MaxReads = 8
SPECIFICATION Spec
INVARIANTS TypeOK PoolConserved SpectraConserved NoSendBlocks
PROPERTIES ImplementsStream WaterfallInOrder StreamFlows
CHECK_DEADLOCK FALSE
