SPECIFICATION Spec
CONSTANTS
  c1 = c1 c2 = c2 s1 = s1 t1 = t1 t2 = t2 t3 = t3 bg = bg
  Clients = {c1, c2}
  Savers = {}
  Timers = {t1, t2, t3}
  Background = {bg}
  main = main
  NoTimer = NoTimer
  Empty = Empty
  Torn = Torn
  MaxDb = 3
  MaxDbFaults = 0
  MaxIoFaults = 0
  MaxCrashes = 1
SYMMETRY Symmetry
INVARIANTS FreshUnlessRaced NothingLeftAtExit WriteCoversStart
