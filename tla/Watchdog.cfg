CONSTANTS
  Plugins = {p1}
  Reporters = {r1, r2}
  Categories = {"handler", "timeout"}
  Window = 2
  DegradedAt = 2
  UnhealthyAt = 3
  TimeoutsAt = 2
  Delay = 1
  MaxTime = 4
  MaxEvents = 3
  MaxClears = 1
SPECIFICATION Spec
INVARIANTS AlarmsAreRight
PROPERTIES CountedWithinSlack
