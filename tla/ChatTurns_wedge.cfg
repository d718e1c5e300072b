SPECIFICATION FairChatSpec
CONSTANTS
  Chat = {c1}
  MaxHandler = 2
  Project = {"p1"}
  MaxThread = 2
  MaxTurn = 2
  MaxGen = 1
  MaxMessage = 2
  Patient = {c1}
  NoThread = NoThread
  NoTurn = NoTurn
  NoChat = NoChat

PROPERTY EndedTurnIsReleased
CHECK_DEADLOCK FALSE
