SPECIFICATION ServicesSpec
CONSTANTS
  MaxGen = 5
  MaxConsecutiveFailures = 5
  Turn = {t1, t2}
  NoTurn = NoTurn
  DeltaSoftCap = 2
  TotalHardCap = 4
  MaxEvents = 5
  MaxWaiters = 2
  OutTurn = {o1}
  MaxChunks = 3
  MaxCall = 3
  Platform = {"telegram", "slack", "lark", "dingtalk"}
  Key = {k1, k2}
  MaxSeen = 1
  MaxConfigured = 2
  MaxDelivery = 3
  Room = {r1}
  Work = {p1}
  Talk = {h1, h2}
  Nil = Nil
  User = {u1, u2}
  Strand = {s1}
  MaxUseTurn = 2
  MaxClock = 1
  SessionTtl = 1
  Nobody = Nobody
  Repo = {p2}
  NoRepo = NoRepo
  ListLimit = 2
  MaxThread = 3
  MaxStamp = 3
INVARIANT ServicesTypeOK
INVARIANT IndInv
INVARIANT OneCodex
INVARIANT NoOrphan
INVARIANT LossIsTold
INVARIANT RuntimeServes
INVARIANT GivingUpIsClean
INVARIANT NobodyWaitsInVain
INVARIANT LimitsHold
INVARIANT OrderIsKept
INVARIANT LossIsCountedOnce
INVARIANT TurnsAreClosed
INVARIANT ResultStands
INVARIANT AnswerIsItsOwn
INVARIANT RedeliveryIsHandledOnce
INVARIANT CacheFollowsTable
INVARIANT EveryUseWasAskedFor
INVARIANT FreshNumbersHold
PROPERTY Recovers
PROPERTY StopEndsCodex
PROPERTY HandlersFindStorage
CHECK_DEADLOCK FALSE
