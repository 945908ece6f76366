CONSTANTS
  x = x
  y = y
  a = a
  b = b
  m1 = m1
  i1 = i1
  Sessions = {x, y}
  Spaces = {a, b}
  Members = {m1}
  Invites = {i1}
  Home <- MCHome
  Early = {a, m1, i1}
  MaxCalls = 3
  MaxOpened = 2
  MaxFaults = 2
  None = None
SPECIFICATION Spec
INVARIANT TypeOK
INVARIANT ListsCurrent
INVARIANT FlagsHaveCalls
INVARIANT SecretsInTheirDialog
CHECK_DEADLOCK FALSE
