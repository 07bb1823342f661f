SPECIFICATION Spec
CONSTANTS
  Null = null
  Placeholder = placeholder
  c1 = c1 c2 = c2
  Clients = {c1, c2}
  ahu = ahu padded = padded zn = zn hw = hw k1 = k1 k2 = k2 raw = raw cfg = cfg bad = bad brick = brick
  Names = {ahu, padded}
  Trim <- TrimNames
  Alike <- AlikeNames
  Exts = {zn}
  Objects <- TwoObjects
  ObjName <- SameName
  Keys = {k1, k2}
  Modbus = {raw, cfg, bad}
  Normal <- Normalized
  Tags = {brick}
  Bodies <- Hand
  Patches <- SomePatches
  Seeds <- OneSite
  MaxRequests = 3
SYMMETRY Symmetry2
INVARIANTS TypeOK SiteNamesUnique MergesKept ImportIdempotent 
CHECK_DEADLOCK FALSE
