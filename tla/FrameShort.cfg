CONSTANTS
  Formats = {"legacy", "ht", "ht40", "mimo", "vht", "stbc", "ldpc"}
  Lengths = {1, 10, 25, 28, 29, 30, 36, 37, 38, 43, 44, 99, 420}
SPECIFICATION Spec
INVARIANTS
  TypeOK
  LSigCovers
  HeaderTellsFrame
  HeaderErrorsSeen
PROPERTIES
  PolarityAdvances
