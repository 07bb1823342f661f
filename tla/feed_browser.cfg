SPECIFICATION FeedSpec
CONSTANTS
  l = l j1 = j1 s1 = s1 f1 = f1 f2 = f2
  LoopRunner = {l}
  Jobs = {j1}
  Sites = {s1}
  FaultIds = {f1, f2}
  MaxIncidents = 1
SYMMETRY Symmetry
INVARIANTS StateBracketed ActiveHasRows ListCurrentUnlessMissed
