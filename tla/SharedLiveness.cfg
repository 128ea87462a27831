\* A disciplined host; fairness, so no symmetry.
CONSTANTS
  Plugins = {p1}
  Loads = {l1, l2}
  Workers = {w1, w2}
  Starters = {s1, s2}
  Main = main
  NoOne = NoOne
  Environment = {p1}
  Discipline = {"serial", "once", "settled", "prompt"}
SPECIFICATION FairSpec
PROPERTIES RequestsReturn RegisteredResolves
