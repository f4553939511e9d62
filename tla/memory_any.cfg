\* All four processes and a user who maps, stores and loads whatever he likes.
CONSTANTS
  Processes = {0, 1, 2, 3}
  Addresses = {0}
  Protections = {1}
  Values = {0}
  Careful = FALSE
  MaxLines = 6
SPECIFICATION Spec
INVARIANTS
  TypeOK
  FrameBooks
PROPERTIES
  CommandsEnd
