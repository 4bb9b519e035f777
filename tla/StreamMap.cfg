CONSTANTS
  MaxSyms = 2
  StbcChannels <- MCStbcChannels
  MimoChannels <- MCMimoChannels
SPECIFICATION Spec
INVARIANTS
  EveryBitOnce
  BurstsSpread
  RecoversCoded
  LinkInverts
  GrayMapped
