\* One instance, a cron schedule that skips missed runs and a one-time schedule, under the fair specification.
CONSTANTS
  s1 = s1
  s2 = s2
  i1 = i1
  i2 = i2
  NoOwner = NoOwner
  Departed = Departed
  Schedules = {s1, s2}
  Instances = {i1}
  Cron = {s1}
  RunOnce = {}
  CronSlots <- EverySlot
  MaxCatchUp = 0
  MaxTime = 1
SPECIFICATION FairSpec
PROPERTIES
  DueIsHandled
