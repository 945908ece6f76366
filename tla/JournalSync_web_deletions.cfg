CONSTANTS
  Items = {i1}
  Members = {m1}
  Enrolled = {}
  Handlers = {h1}
  MaxClock = 3
  MaxEntries = 1
  Ops = {"add", "delete"}
  Faults = {}
  Never = Never
  Kinds = {"web"}
SPECIFICATION SyncSpec
INVARIANT WebDeletionsArrive
SYMMETRY Symmetry
