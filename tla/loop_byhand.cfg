SPECIFICATION FairSpec
CONSTANTS
  Loop = loop
  hand = hand
  OneShots = {hand}
  Configs <- Both
  Default <- Off
  NoEnd = NoEnd
  NoRow = NoRow
  None = None
  PollSec = 2
  SleepSec = 3
  MaxNow = 2
  MaxChanges = 1
  MaxFaults = 1
PROPERTIES BackfillCompletes RoutineKeepsRunning
