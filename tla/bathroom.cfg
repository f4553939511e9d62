\* Three users of either gender, spurious wakeups and one failed pthread_create:
\* the safety properties, termination, the way in from the queue and the
\* refinement of Room.
CONSTANTS
  Threads = {t1, t2, t3}
  Unlocked = Unlocked
  SpuriousWakeups = TRUE
  MaxLoops = 2
  MaxVisits = 4
  MaxFailures = 1
SPECIFICATION FairSimSpecUpToRenaming
INVARIANTS
  TypeOK
  SimTypeOK
  LockDiscipline
  CountersAgree
  FlagAgrees
  NoStrandedWaiter
  QueueIndexInBounds
  StatisticsBalance
  QuietAtFinalize
PROPERTIES
  OnlyResumptionMisflags
  SimulationEnds
  WaiterGetsIn
  ImplementsRoom
