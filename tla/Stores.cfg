\* The calls come to an end, so it may stop.
CONSTANTS
  Threads = {"t1", "t2"}
  Preconnect = "preconnect"
  NoOne = NoOne
  MaxChannels = 3
  MaxHosts = 2
  Attempts = 1
  MaxCalls = 1
  Getters = {"g1", "g2"}
  Settings = {"a", "b"}
  Nested = {"b"}
  MaxEdits = 3
  MaxSaves = 2
  Awaited = TRUE
  Tasks = {"t1", "t2"}
  Cids = {"c1", "c2", "c3"}
  MaxSwitches = 1
  Ids = {"p1", "p2", "p3"}
  Restarts = 1
  MaxCancels = 1
  Installs = {"i1", "i2"}
  Folders = {"x", "a b", "?"}
  Others = {"file", "path out"}
  Hint = "a_b"
  SkillNames = {"x", "a_b"}
  SkillNamed <- NameOf
  SerialInstalls = TRUE
  Switches = {"s1", "s2"}
  Lookups = {"l1"}
  ProviderIds = {"p1", "p2"}
  Umos = {"umo"}
  Hooks = {"h1", "h2"}
  BoundMethods = {"h2"}
  Raising = {"h1"}
  Askers = {"a1", "a2"}
  MaxRegistered = 2
  MaxTries = 2
  Processes = {"p1"}
  Scopes = {"umo"}
  ScopeIds = {"s1", "s2"}
  PrefKeys = {"k1", "k2"}
  PrefValues = {"v"}
  MaxPuts = 4
  KvCalls = {"q1", "q2", "q3"}
  KvKeys = {"k1", "k2"}
  KvValues = {"v"}
  ConfigProcesses = {"p1", "p2"}
  FileCalls = {"q1", "q2", "q3"}
  FileKeys = {"k1", "k2"}
  FileValues = {1, 2}
  Managers = {"m1"}
  Chats = {"c1", "c2"}
  MaxMessages = 2
  MaxInserts = 4
  Importers = {"t1", "t2", "t3"}
  ProcessOf <- InProcess
  Modules = {"a", "b", "u", "ph"}
  PackageOf <- Mapped
  Optional <- OnTrial
  Present = {"b"}
  Phantom = {"ph"}
  Loads = {"t1", "t2"}
  Plugins = {"a_b", "a-b", "c"}
  ModuleOf <- OneName
SPECIFICATION Spec
CHECK_DEADLOCK FALSE
INVARIANTS FilesSurvive NewestAreKept CurrentIsTheHosts SkillsAreWhole HostHasTheLastSave ProfilesAreRight ToldOnce ChannelIsRight ReadAsMeant InstallsAreRight
