SPECIFICATION Spec
CONSTANTS
  p1 = p1 p2 = p2 r = r w = w k1 = k1 k2 = k2
  Puts = {p1, p2}
  Resets = {r}
  Writers = {w}
  main = main
  Keys = {k1, k2}
  Values = {0, 1}
  Default <- Defaults
  Stored <- FirstFiles
  Bodies <- NamedKeys
  Empty = Empty
  Torn = Torn
  MaxPuts = 2
  MaxFaults = 2
CONSTRAINT OneExcuse
SYMMETRY Symmetry
INVARIANTS TogetherAtRest OmittedKeysKept
PROPERTY BootKeepsAcked
