SPECIFICATION FairSpec
CONSTANTS
  MaxItem = 4
  Requests <- MCRequests
  BufCnt = 2
  ItemCnt = 2
  DescCnt = 2
  InUsePool = TRUE
  MaxMsgs = 6
INVARIANTS TypeOK FetchIntact RollbackExact PoolConserved
PROPERTIES ImplementsChannel EventuallyHandled
CHECK_DEADLOCK FALSE
