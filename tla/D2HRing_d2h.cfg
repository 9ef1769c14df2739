SPECIFICATION FairSpec
CONSTANTS
  MaxItem = 4
  ItemCnt = 2
  BufCnt = 2
  DescCnt = 4
  Modulo = 3
  MaxChain = 2
  Loads <- MCLoads
INVARIANTS TypeOK NothingLost BuffersConserved MarkerTrusted
PROPERTIES ImplementsChannel EventuallyTaken
CHECK_DEADLOCK FALSE
