SPECIFICATION Spec
CONSTANTS
  MaxItem = 4
  ItemCnt = 2
  BufCnt = 2
  DescCnt = 4
  Modulo = 3
  MaxChain = 2
  Loads <- MCFresh
INVARIANTS DmaDone
CHECK_DEADLOCK FALSE
