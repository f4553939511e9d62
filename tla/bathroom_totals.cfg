\* The totals at the end of any simulation.
CONSTANTS
  Threads = {t1, t2, t3}
  Unlocked = Unlocked
  SpuriousWakeups = FALSE
  MaxLoops = 1
  MaxVisits = 3
  MaxFailures = 0
SPECIFICATION SimSpec
SYMMETRY ThreadSymmetry
INVARIANT TotalFrequency
