SPECIFICATION Spec
CONSTANTS
  Loop = loop
  hand = hand
  OneShots = {}
  Configs <- Closed
  Default <- Off
  NoEnd = NoEnd
  NoRow = NoRow
  None = None
  PollSec = 2
  SleepSec = 3
  MaxNow = 0
  MaxChanges = 2
  MaxFaults = 2
INVARIANTS CursorLeavesNoGap NoTriggerLost OnePass
PROPERTY CursorNeverBack
