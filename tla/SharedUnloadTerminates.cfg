\* A disciplined host, one load.
CONSTANTS
  Plugins = {p1}
  Loads = {l1}
  Workers = {w1, w2}
  Starters = {s1}
  Main = main
  NoOne = NoOne
  Environment = {}
  Discipline = {"serial", "once", "settled", "prompt"}
SPECIFICATION Spec
INVARIANTS UnloadTerminates
