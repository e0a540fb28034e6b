\* Two instances share a cron schedule that catches up one missed run.
CONSTANTS
  s1 = s1
  s2 = s2
  i1 = i1
  i2 = i2
  NoOwner = NoOwner
  Departed = Departed
  Schedules = {s1}
  Instances = {i1, i2}
  Cron = {s1}
  RunOnce = {s1}
  CronSlots <- EverySlot
  MaxCatchUp = 1
  MaxTime = 3
SPECIFICATION Spec
SYMMETRY MCSymmetry
INVARIANTS
  RunsAreSound
PROPERTIES
  NoRunLost
