CONSTANTS
  K = 2
  Bodies = {{1, 2}, {3}}
  MaxFrames = 3
SPECIFICATION Spec
INVARIANT DefectMeansCorruption
