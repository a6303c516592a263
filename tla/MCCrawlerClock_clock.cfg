\* Two titles, a slot, and an operator.
SPECIFICATION FairSpec
CONSTANTS
  Days = 2
  Minutes = 3
  Title = {t1, t2}
  NoTitle = none
  Schedules <- TestSchedules
  Ignoring = {FALSE, TRUE}
  SyncInterval = 3
  Recheck = 2
  Cooldown = 1
  Throttle = 2
  Backoff = 1
INVARIANTS
  TypeOK
  ScheduleExact
PROPERTIES
  StopsSoon
  CooldownKept
  NoTitleForgotten
  ResultsAnnounced
