SPECIFICATION FlowSpec
CONSTANTS
  Id = {0}
  MaxGen = 1
  Kind = {"command_execution"}
  Actor = {alice, mallory, system}
  Target = {team, other}
  Nonce <- MCNonce
  SweepAge = 1
  Ttl = 2
  HandlerTimeout = 2
  TerminalAge = 3
  TerminalCount = 2
  BatchSize = 1
  MaxTime = 2
  NoRequest = NoRequest
  NoPolicy = NoPolicy
  Offered = {"allow_once", "decline"}
  Member = {alice}
  Chat = {team}
  System = system
  Grace = 0
  Respawn = FALSE
  NoTarget = NoTarget
INVARIANT BindFailureIsFlagged
CHECK_DEADLOCK FALSE
