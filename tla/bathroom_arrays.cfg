\* Everybody inside at once, or a return from the queue.
CONSTANTS
  Threads = {t1, t2, t3}
  Unlocked = Unlocked
  SpuriousWakeups = FALSE
  MaxLoops = 1
  MaxVisits = 3
  MaxFailures = 0
SPECIFICATION SimSpec
SYMMETRY ThreadSymmetry
INVARIANT OccupancyIndexInBounds
