SPECIFICATION Spec
CONSTANTS
  MaxBack = 3
  MaxPid = 4
  MaxCommands = 1
INVARIANT OnlyTasksInBackground
CHECK_DEADLOCK FALSE
