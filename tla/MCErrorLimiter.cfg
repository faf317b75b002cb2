\* Three callers that repeat, any server, every interleaving.
CONSTANTS
  None = None
  Callers = {c1, c2, c3}
  LimiterOf <- MCLimiterOf
  Threshold = 1
  Padding = 1
  Reports <- MCReports
  MaxTime = 6
SYMMETRY MCSymmetry
SPECIFICATION Spec
PROPERTIES
  RunningWindowKept
CHECK_DEADLOCK FALSE
