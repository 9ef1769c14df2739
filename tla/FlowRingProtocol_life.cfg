SPECIFICATION FairSpec
CONSTANTS
  Flows = {f1, f2}
  Ids = {i1, i2}
  MaxItem = 2
  Races = {}
  MaxPkts = 3
  MaxDown = 2
  MaxFail = 1
INVARIANTS TypeOK IdsConserved OpenAgreed WindowOwned
PROPERTIES NoPostOnDelete ImplementsLease QueuesDrain
CHECK_DEADLOCK FALSE
