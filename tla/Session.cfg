\* Two waits, two feeds, an orderly and a disorderly session. The calls come to an end, so it may stop.
CONSTANTS
  Waiters = {w1, w2}
  Feeds = {f1, f2}
  Sessions = {s1, s2}
  Orderly = {s1}
  NoOne = NoOne
  MaxKeeps = 1
SPECIFICATION Spec
CHECK_DEADLOCK FALSE
SYMMETRY Symmetry
INVARIANTS WaitsAreRight
PROPERTIES NoHandlerAfterEnd
