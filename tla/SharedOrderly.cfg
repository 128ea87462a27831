\* A disciplined host: two plugins, one of them loaded by the main thread.
CONSTANTS
  Plugins = {p1, p2}
  Loads = {l1, l2}
  Workers = {w1, w2}
  Starters = {s1, s2}
  Main = main
  NoOne = NoOne
  Environment = {p1}
  Discipline = {"serial", "once", "settled", "prompt"}
SPECIFICATION Spec
SYMMETRY Symmetry
INVARIANTS MapsAgree StarsAreRight RegisteredHandlers
PROPERTIES GateStaysOpen
