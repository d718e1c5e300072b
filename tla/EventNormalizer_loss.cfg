SPECIFICATION NormSpec
CONSTANTS
  Turn = {t1}
  NoTurn = NoTurn
  DeltaSoftCap = 1
  TotalHardCap = 3
  MaxEvents = 6
  MaxWaiters = 1
INVARIANT HardCapLossIsReported
CHECK_DEADLOCK FALSE
