SPECIFICATION FairSpec
CONSTANTS
  Loop = loop
  hand = hand ahu = ahu vav = vav x = x
  OneShots = {hand}
  Sources = {ahu, vav}
  Stems = {"data"}
  StemOf <- Stem
  Cols = {x}
  LastTime = 2
  MaxLines <- None
  Configs <- Cfgs
  Default <- Off
  Uploads <- Bodies
  MaxRequests = 2
  MaxFaults = 1
INVARIANTS NothingMissed StoredOnce
PROPERTIES FollowsFile
