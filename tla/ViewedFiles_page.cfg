CONSTANTS
  a = a
  b = b
  f1 = f1
  f2 = f2
  f3 = f3
  Spaces <- MCSpaces
  Files <- MCFiles
  Home <- MCHome
  Size <- MCSize
  TextFiles = {f1}
  PreviewLimit = 2
  Budget = 2
  ShellActs = {"join", "leave", "select", "show", "open"}
  ShellFaults = {"write", "lost"}
  FileActs = {"view", "download", "close", "toggle", "delete"}
  FileFaults = {"net", "store"}
  Overlaps = {}
  MaxActs = 3
  MaxFaults = 2
  None = None
SPECIFICATION Spec
INVARIANT TypeOK
INVARIANT TokensKept
INVARIANT PreviewOfItem
INVARIANT NothingKeptOutside
CHECK_DEADLOCK FALSE
