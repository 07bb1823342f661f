SPECIFICATION FairSpec
CONSTANTS
  loop = loop hand = hand
  Loop = loop
  Hands = {}
  N = 2
  Configs <- WithAndWithoutStart
  Env <- Live
  NoTime = NoTime
  NoRow = NoRow
  Window = 1
  FirstWindow = 2
  MaxNow = 4
  MaxChanges = 1
  MaxFaults = 2
INVARIANTS NoGapBelowCheckpoint StoredOnce
PROPERTIES BackOnlyToEnd CatchesUp
