CONSTANTS
  Items = {i1, i2}
  Requests = {r1, r2}
  MaxTtl = 2
  SweepInterval = 3
  Ops = {"add", "renew", "delete"}
  Faults = {"db", "crash"}
  NoItem = NoItem
  Forever = Forever
  NoWake = NoWake
SPECIFICATION FairSpec
INVARIANT TypeOK
INVARIANT NoLostWake
PROPERTY ExpiredRemoved
