SPECIFICATION SelectorSpec
CONSTANTS
  Repo = {p1}
  NoRepo = NoRepo
  ListLimit = 2
  MaxThread = 3
  MaxStamp = 3
INVARIANT ForkTakesTheListed
CHECK_DEADLOCK FALSE
