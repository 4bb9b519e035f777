CONSTANTS
  NBlocks = 2
  K = 2
  N = 3
  Packings = {2, 3}
SPECIFICATION Spec
INVARIANTS
  SameCapture
  SbiNeverWorse
  GainEarned
  InconclusiveIffNoCorrupt
  OneFrameOneBlock
PROPERTIES
  ImplementsPromise
