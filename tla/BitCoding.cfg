CONSTANTS
  PsduBits = 8
  Seeds <- MCSeeds
  Rates <- MCRates
SPECIFICATION Spec
INVARIANTS
  DescrambleRecovers
  TailTerminates
  FreeDistance
  PolarityIsKeystream
