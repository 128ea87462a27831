\* One job, two edits; the callers are orderly or not. The calls come to an end, so it may stop.
CONSTANTS
  Managers = {m1}
  Adds = {a1}
  Edits = {e1, e2}
  Runs = {r1}
  Handlers = {ha, hs}
  Async = {ha}
  NoOne = NoOne
SPECIFICATION Spec
CHECK_DEADLOCK FALSE
INVARIANTS JobsAreRight
PROPERTIES RunsAreRight
