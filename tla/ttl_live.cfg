SPECIFICATION FairSpec
CONSTANTS
  c1 = c1 c2 = c2 s1 = s1 t1 = t1 t2 = t2 t3 = t3 bg = bg
  Clients = {c1}
  Savers = {s1}
  Timers = {t1, t2}
  Background = {bg}
  main = main
  NoTimer = NoTimer
  Empty = Empty
  Torn = Torn
  MaxDb = 1
  MaxDbFaults = 1
  MaxIoFaults = 1
  MaxCrashes = 1
PROPERTIES FileIsSnapshot KeepsCatchingUp
