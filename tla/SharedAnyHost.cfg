\* One plugin, a host that sends anything at any time: two workers, two loads.
CONSTANTS
  Plugins = {p1}
  Loads = {l1, l2}
  Workers = {w1, w2}
  Starters = {s1}
  Main = main
  NoOne = NoOne
  Environment = {}
  Discipline = {}
SPECIFICATION Spec
SYMMETRY Symmetry
INVARIANTS TypeOK HandlerGated ContextPaired
