CONSTANTS
  Cells <- MCCells
  Retries = 1
  HasRecover = TRUE
  Channels <- MCChannels
  Mapped = {36, 149}
  Traffic = {0, 1}
  Stations <- MCStations
SPECIFICATION Spec
INVARIANT FullMeansBoth
