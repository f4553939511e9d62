\* Two processes that store, three that only map and load, two pages each.
CONSTANTS
  Processes = {0, 1, 2}
  Addresses = {0, 17}
  Protections = {0, 1}
  Values = {7}
  Careful = TRUE
  MaxLines = 6
SPECIFICATION MCSpec
INVARIANTS
  FreeFramesBlank
  FramesHaveOneHome
  EntriesPointHome
  NeverWild
  TablesInTheirFrames
PROPERTIES
  OwnTableStays
  FirstLoopTakesPages
  ImplementsVirtualMemory
