CONSTANTS
  i1 = i1
  i2 = i2
  Items = {i1, i2}
  Early = {i1}
  Loads = {"load"}
  Overlaps = {"reload"}
  Ops = {"delete", "toggle", "refresh"}
  Faults = {"drop", "prune", "reload", "fail", "offline"}
  MaxFaults = 1
  MaxActs = 1
  MaxToggles = 1
  None = None
SPECIFICATION FairSpec
INVARIANT TypeOK
INVARIANT NothingMissing
PROPERTY FollowsJournal
PROPERTY VerificationRuns
CHECK_DEADLOCK FALSE
