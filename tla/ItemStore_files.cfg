CONSTANTS
  Spaces = {s1, s2}
  Items = {i1, i2}
  Requests = {r1, r2}
  MaxSize = 1
  FileSizes = {1}
  TextThreshold = 1
  Quota <- MCQuotaOne
  Ops = {"file", "copy", "sweep"}
  Faults = {"db", "crash"}
  NoRow = NoRow
  NoBlob = NoBlob
  NoRequest = NoRequest
SPECIFICATION FairSpec
INVARIANT FileHasBlob
PROPERTY FailuresCleanUp
PROPERTY RequestsComplete
