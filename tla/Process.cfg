\* Two threads of the server; three calls and as many runners of the scheduler.
\* Fairness, so no symmetry. The calls come to an end, so it may stop.
CONSTANTS
  Workers = {w1, w2}
  MaxRegisters = 2
  Calls = {"c1", "c2", "c3"}
  Runners = {"t1", "t2", "t3"}
  Jobs = {"j1"}
  MaxDue = 2
SPECIFICATION ProcessSpec
CHECK_DEADLOCK FALSE
INVARIANTS StarIsAwaited SchedulerIsRight
PROPERTIES KeepsPromise EverythingEnds
