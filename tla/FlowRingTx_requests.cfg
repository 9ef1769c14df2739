SPECIFICATION FairSpec
CONSTANTS
  MaxItem = 3
  ItemCnt = 2
  BufCnt = 2
  LfragCnt = 3
  MaxFetch = 2
  FetchMod = 256
  Requests = {"flush", "delete"}
  MaxMsgs = 4
  MaxSup = 0
  MaxRefuse = 1
  MaxClose = 0
  MaxPoll = 1
INVARIANTS DeleteDrained
PROPERTIES EventuallyAnswered
CHECK_DEADLOCK FALSE
