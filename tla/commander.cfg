SPECIFICATION MCSpec
CONSTANTS
  MaxBack = 3
  MaxPid = 3
  MaxCommands = 1
  MaxDepth = 3
INVARIANTS TypeOK UnlistedAccounted OneAtATime WaitIsForTheCommand
PROPERTIES ListedUntilReaped LeavingWaitsForOne ReapedInTheEnd ExitEverywhereEnds
CHECK_DEADLOCK FALSE
