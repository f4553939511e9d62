\* One process with more pages than frames.
CONSTANTS
  Processes = {0}
  Addresses = {0, 17, 33, 49}
  Protections = {1}
  Values = {7}
  Careful = FALSE
  MaxLines = 9
SPECIFICATION Spec
PROPERTY StoresArrive
