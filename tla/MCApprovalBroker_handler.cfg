SPECIFICATION Spec
CONSTANTS
  Id = {0}
  MaxGen = 1
  Kind = {"tool_call"}
  Actor = {alice}
  Target = {chat}
  Nonce = {n1}
  SweepAge = 1
  Ttl = 2
  HandlerTimeout = 3
  TerminalAge = 1
  TerminalCount = 1
  BatchSize = 1
  MaxTime = 3
  NoRequest = NoRequest
  NoPolicy = NoPolicy
INVARIANT AcceptedDecisionWins
CHECK_DEADLOCK FALSE
