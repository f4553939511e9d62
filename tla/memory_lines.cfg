\* One process and a swap file that gets more than 16 lines.
CONSTANTS
  Processes = {0}
  Addresses = {0, 17, 33, 49}
  Protections = {1}
  Values = {}
  Careful = TRUE
  MaxLines = 19
SPECIFICATION Spec
INVARIANT EntriesPointHome
