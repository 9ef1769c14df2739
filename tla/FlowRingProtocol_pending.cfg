SPECIFICATION FairSpec
CONSTANTS
  Flows = {f1, f2}
  Ids = {i1, i2}
  MaxItem = 2
  Races = {}
  MaxPkts = 2
  MaxDown = 1
  MaxFail = 0
PROPERTIES LinkDownDeletes
CHECK_DEADLOCK FALSE
