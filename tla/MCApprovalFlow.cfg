SPECIFICATION FlowSpec
CONSTANTS
  Id = {0, 1}
  MaxGen = 1
  Kind = {"command_execution"}
  Actor = {alice, system}
  Target = {team, other}
  Nonce <- MCNonce
  SweepAge = 1
  Ttl = 2
  HandlerTimeout = 2
  TerminalAge = 3
  TerminalCount = 3
  BatchSize = 1
  MaxTime = 2
  NoRequest = NoRequest
  NoPolicy = NoPolicy
  Offered = {"allow_once", "decline"}
  Member = {alice}
  Chat = {team}
  System = system
  Grace = 0
  Respawn = FALSE
  NoTarget = NoTarget
INVARIANTS FlowTypeOK UsedTokenIsTheDecision CardStaysUsable
CHECK_DEADLOCK FALSE
