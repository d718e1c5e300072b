SPECIFICATION Spec
CONSTANTS
  MaxGen = 5
  MaxConsecutiveFailures = 5
INVARIANT StoppedMeansExited
CHECK_DEADLOCK FALSE
