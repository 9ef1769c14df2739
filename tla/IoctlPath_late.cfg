SPECIFICATION Spec
CONSTANTS
  MaxPost = 1
  PoolMax = 2
  CtrlSlots = 4
  ItemCnt = 2
  DescCnt = 2
  CplSlots = 3
  MaxCalls = 2
  MaxNoMem = 0
  MaxOther = 0
  MaxDmas = 1
INVARIANTS AnswersOwn
CHECK_DEADLOCK FALSE
