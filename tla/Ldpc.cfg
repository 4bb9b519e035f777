CONSTANTS
  M = 6
  N = 8
  Z = 2
  Matrices <- MCMatrices
  Codes <- MCCodes
  Noises <- MCNoises
  Iters = 3
SPECIFICATION SpecAll
INVARIANTS
  SameCode
  EncodesCodewords
  WeakErrorCorrected
  CodewordsAlike
