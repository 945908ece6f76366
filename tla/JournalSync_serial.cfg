CONSTANTS
  Items = {i1, i2}
  Members = {m1}
  Enrolled = {}
  Handlers = {h1}
  MaxClock = 2
  MaxEntries = 1
  Ops = {"add", "update", "delete", "reset"}
  Faults = {"db", "net", "restart"}
  Never = Never
  Kinds = {"cli", "web"}
SPECIFICATION SyncSpec
INVARIANT TypeOK
INVARIANT DeletionsArrive
INVARIANT UpdatesArrive
PROPERTY FollowsJournal
SYMMETRY Symmetry
