SPECIFICATION FairSpec
CONSTANTS
  MaxItem = 4
  ItemCnt = 3
  BufCnt = 2
  LfragCnt = 3
  MaxFetch = 2
  FetchMod = 256
  Requests = {}
  MaxMsgs = 5
  MaxSup = 2
  MaxRefuse = 0
  MaxClose = 1
  MaxPoll = 1
INVARIANTS TypeOK BufferOwned SlotsFreedAcked NothingSkipped InflightExact
PROPERTIES ImplementsTxWindow EventuallyAcked
CHECK_DEADLOCK FALSE
