CONSTANTS
  Spaces = {s1, s2}
  Items = {i1, i2, i3}
  Requests = {r1}
  MaxSize = 2
  FileSizes = {0, 1, 2}
  TextThreshold = 0
  Quota <- MCQuota
  Ops = {"text", "file", "delete", "copy", "move"}
  Faults = {}
  NoRow = NoRow
  NoBlob = NoBlob
  NoRequest = NoRequest
SPECIFICATION Spec
INVARIANT RowIsWhole
INVARIANT StorageMatches
PROPERTY MoveIsOneUnit
SYMMETRY Symmetry
