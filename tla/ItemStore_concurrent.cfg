CONSTANTS
  Spaces = {s1, s2}
  Items = {i1, i2}
  Requests = {r1, r2}
  MaxSize = 2
  FileSizes = {2}
  TextThreshold = 2
  Quota <- MCQuotaOdd
  Ops = {"file", "text", "delete", "copy", "move", "sweep"}
  Faults = {"db", "cancel"}
  NoRow = NoRow
  NoBlob = NoBlob
  NoRequest = NoRequest
SPECIFICATION Spec
INVARIANT TypeOK
INVARIANT LockDiscipline
INVARIANT QuotaRespected
SYMMETRY Symmetry
