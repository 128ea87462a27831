\* One wait and two feeds; one caller with two calls and a host that does not restart.
\* Fairness, so no symmetry. The calls come to an end, so it may stop.
CONSTANTS
  Waiters = {w1}
  Feeds = {f1, f2}
  Sessions = {s1}
  Threads = {t1}
  Preconnect = p
  NoOne = NoOne
SPECIFICATION Spec
CHECK_DEADLOCK FALSE
PROPERTIES EveryCallEnds EveryoneIsServed
