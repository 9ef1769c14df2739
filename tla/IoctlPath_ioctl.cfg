SPECIFICATION FairSpec
CONSTANTS
  MaxPost = 1
  PoolMax = 2
  CtrlSlots = 5
  ItemCnt = 3
  DescCnt = 2
  CplSlots = 3
  MaxCalls = 2
  MaxNoMem = 1
  MaxOther = 1
  MaxDmas = 1
INVARIANTS TypeOK NoLockout OwnUntilFailure SurplusBounded
PROPERTIES ImplementsCalls UnlockedOrStarved AnswerArrives
CHECK_DEADLOCK FALSE
