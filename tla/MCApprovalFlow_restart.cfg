SPECIFICATION FairFlowSpec
CONSTANTS
  Id = {0}
  MaxGen = 2
  Kind = {"command_execution"}
  Actor = {alice, mallory, system}
  Target = {team, ops}
  Nonce <- MCNonce
  SweepAge = 1
  Ttl = 1
  HandlerTimeout = 2
  TerminalAge = 3
  TerminalCount = 2
  BatchSize = 1
  MaxTime = 2
  NoRequest = NoRequest
  NoPolicy = NoPolicy
  Offered = {"allow_once", "decline"}
  Member = {alice}
  Chat = {team, ops}
  System = system
  Grace = 0
  Respawn = FALSE
  NoTarget = NoTarget
INVARIANT ClickDecidesItsOwnRequest
PROPERTIES RetiredTokensAreFinal EveryTokenRetires
CHECK_DEADLOCK FALSE
