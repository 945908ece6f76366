CONSTANTS
  Items = {i1, i2}
  Members = {m1}
  Enrolled = {m1}
  Handlers = {h1, h2}
  MaxClock = 3
  MaxEntries = 2
  Ops = {"add", "delete"}
  Faults = {"overlap", "net"}
  Never = Never
  Kinds = {"cli"}
SPECIFICATION SyncSpec
INVARIANT WindowCovered
INVARIANT DeletionsArrive
PROPERTY FollowsJournal
SYMMETRY Symmetry
