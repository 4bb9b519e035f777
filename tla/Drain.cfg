CONSTANTS
  NMsgs = 3
  Cap = 12
  Patience = 4
SPECIFICATION Spec
INVARIANTS
  PolledToCompletion
  QuietEnds
  TallyAddsUp
