\* The calls come to an end, so it may stop.
CONSTANTS
  Commands = {"c"}
  Filters = {"f"}
  Hooks = {"k"}
  Tools = {"t"}
  Virtuals = {"v"}
  Plugin = "plugin"
  Workers = {w1, w2}
  MaxCalls = 3
  Events = {"e1", "e2"}
  Sessions = {"s1", "s2"}
  MaxActs = 3
  WebThreads = {"w1"}
  WebRequests = {"r1", "r2"}
  HeaderNames = {"h", "k"}
  QueryKeys = {"q", "r"}
  Routes <- SomeRoutes
  Paths <- SomePaths
  Verbs = {"GET", "POST"}
  MaxRoutes = 2
  ToolThreads = {"t1", "t2"}
  ToolNames = {"a", "b"}
  MaxOps = 4
  Modules <- SomeModules
  MaxImports = 3
  Users = {"u1", "u2"}
  MaxConnections = 2
SPECIFICATION Spec
CHECK_DEADLOCK FALSE
SYMMETRY Symmetry
INVARIANTS CallsReachTheirHandler FormsAgree AnswersAreTrue ToolsAreRight WebIsRight HostMethodsAreRight MessagesSurvive
PROPERTIES NothingIsLost HistoryIsKept
