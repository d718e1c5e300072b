SPECIFICATION FairChatSpec
CONSTANTS
  Chat = {c1, c2}
  MaxHandler = 2
  Project = {"p1"}
  MaxThread = 2
  MaxTurn = 2
  MaxGen = 2
  MaxMessage = 3
  Patient = {c1, c2}
  NoThread = NoThread
  NoTurn = NoTurn
  NoChat = NoChat
INVARIANTS ChatTypeOK BoundTurnIsOurs ActiveTurnIsOnItsThread OnePublication
PROPERTIES RunningTurnStaysBound PublishedAtLast
CHECK_DEADLOCK FALSE
