SPECIFICATION FairSpec
CONSTANTS
  Id = {0}
  MaxGen = 2
  Kind = {"command_execution"}
  Actor = {alice}
  Target = {chat}
  Nonce = {n1}
  SweepAge = 1
  Ttl = 2
  HandlerTimeout = 3
  TerminalAge = 1
  TerminalCount = 1
  BatchSize = 1
  MaxTime = 4
  NoRequest = NoRequest
  NoPolicy = NoPolicy
INVARIANTS IndInv DecisionReachesCodex GrantsNeedConsent
PROPERTIES DecidedIsFinal ImplementsContract EveryRequestEnds EveryApprovalCloses
CHECK_DEADLOCK FALSE
