CONSTANTS
  Typed = {t1}
  Picked = {p1}
  SharedText = {x1}
  SharedFile = {f1}
  Legacy = {l1}
  Mixes <- MCMixes
  MaxTries = 2
  MaxCloses = 1
  Nothing = Nothing
  NoId = NoId
SPECIFICATION FairSpec
INVARIANT TypeOK
INVARIANT OnlyAsked
INVARIANT SharedOnce
PROPERTY NothingLost
PROPERTY QueueDrains
CHECK_DEADLOCK FALSE
