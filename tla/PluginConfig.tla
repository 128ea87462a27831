---------------------------- MODULE PluginConfig ----------------------------
(***************************************************************************)
(* The configuration of a plugin: Context.get_config (core/star/context.py)*)
(* and AstrBotConfig (core/config/astrbot_config.py).  The host has the    *)
(* configuration; a plugin gets an object made from a copy, changes it and *)
(* writes it back as a whole.                                              *)
(***************************************************************************)
EXTENDS Naturals, Sequences, FiniteSets

CONSTANTS
  Getters,      \* calls of get_config
  Settings,     \* keys
  Nested,       \* those inside of a table, which a shallow copy shares with the object
  MaxEdits,     \* bound on the changes made by the plugin
  MaxSaves,     \* bound on the saves
  Awaited       \* the plugin awaits save_config_async before it saves again

Missing == 0                          \* the object has no such key
Config  == [Settings -> Nat]

VARIABLES
  hostConfig,   \* the host's configuration of the plugin
  shared,       \* _config, a number of an object, and 0 while _config_loaded is false
  objects,      \* the AstrBotConfig objects made so far
  getter,       \* by call: where it is, what the host has answered, the object it got
  edits,        \* values are numbered in the order they are set
  saves,        \* the saves in the order of their calls: of which object, with what in it,
                \* and what of that is sent
  sending,      \* the numbers of those on their way
  dumped,       \* of those, the ones whose JSON is made
  failed        \* those whose caller is told that they failed

configVars == <<hostConfig, shared, objects, getter, edits, saves, sending, dumped, failed>>

NoSettings == [k \in Settings |-> Missing]

ConfigInit ==
  /\ hostConfig = [k \in Settings |-> 1]
  /\ shared = 0 /\ objects = <<>>
  /\ getter = [g \in Getters |-> [at |-> "start", data |-> NoSettings, obj |-> 0]]
  /\ edits = 1 /\ saves = <<>> /\ sending = {} /\ dumped = {} /\ failed = {}

\* get_config: a configuration that was loaded is not asked for again.
GetConfig(g) ==
  /\ getter[g].at = "start"
  /\ getter' = [getter EXCEPT ![g] = IF shared # 0 THEN [@ EXCEPT !.at = "done", !.obj = shared]
                                     ELSE [@ EXCEPT !.at = "asked"]]
  /\ UNCHANGED <<hostConfig, shared, objects, edits, saves, sending, dumped, failed>>

HostAnswers(g) ==
  /\ getter[g].at = "asked"
  /\ getter' = [getter EXCEPT ![g].at = "answered", ![g].data = hostConfig]
  /\ UNCHANGED <<hostConfig, shared, objects, edits, saves, sending, dumped, failed>>

Gets(g, data) ==
  /\ objects' = Append(objects, data)
  /\ getter' = [getter EXCEPT ![g].at = "done", ![g].obj = Len(objects) + 1]
  /\ UNCHANGED <<hostConfig, edits, saves, sending, dumped, failed>>

\* The schema's defaults go under the host's values; the object is cached.
Loaded(g) ==
  /\ getter[g].at = "answered"
  /\ Gets(g, getter[g].data) /\ shared' = Len(objects) + 1

\* An empty object, which is not cached but can be saved all the same.
LoadFails(g) ==
  /\ getter[g].at = "asked"
  /\ Gets(g, NoSettings) /\ UNCHANGED shared

\* The plugin sets a key of an object it has got.
Edit(o, k) ==
  /\ o \in DOMAIN objects /\ edits < MaxEdits /\ edits' = edits + 1
  /\ objects' = [objects EXCEPT ![o][k] = edits + 1]
  /\ UNCHANGED <<hostConfig, shared, getter, saves, sending, dumped, failed>>

\* save_config in an event loop makes a task of set_config_async with a copy of
\* the object, which has the same tables in it; save_config_async is awaited.
Save(o) ==
  /\ o \in DOMAIN objects /\ Len(saves) < MaxSaves
  /\ Awaited => sending = {}
  /\ saves' = Append(saves, [object |-> o, data |-> objects[o], sent |-> objects[o]])
  /\ sending' = sending \union {Len(saves) + 1}
  /\ UNCHANGED <<hostConfig, shared, objects, getter, edits, dumped, failed>>

\* mutant: the object itself is given to the task.
SentLive(s) == objects[saves[s].object]

\* The copy, but a table as the object has it now.
Sent(s) ==
  [k \in Settings |-> IF k \in Nested THEN objects[saves[s].object][k] ELSE saves[s].data[k]]

\* In worker threads, whose order is nobody's, the copy is made JSON and sent.
Dump(s) ==
  /\ s \in sending \ dumped /\ dumped' = dumped \union {s}
  /\ saves' = [saves EXCEPT ![s].sent = Sent(s)]
  /\ UNCHANGED <<hostConfig, shared, objects, getter, edits, sending, failed>>

SaveEnds(s) == sending' = sending \ {s} /\ dumped' = dumped \ {s}

HostSets(s) ==
  /\ s \in dumped /\ SaveEnds(s)
  /\ hostConfig' = saves[s].sent
  /\ UNCHANGED <<shared, objects, getter, edits, saves, failed>>

\* There is no channel, or the RPC fails, perhaps after the host has done its part; nobody
\* tries again.
SaveFails(s) ==
  /\ s \in sending /\ SaveEnds(s)
  /\ failed' = failed \union {s}
  /\ hostConfig' \in {hostConfig} \union {saves[t].sent : t \in dumped \intersect {s}}
  /\ UNCHANGED <<shared, objects, getter, edits, saves>>

ConfigNext ==
  \/ \E g \in Getters : GetConfig(g) \/ HostAnswers(g) \/ Loaded(g) \/ LoadFails(g)
  \/ \E o \in DOMAIN objects : Save(o) \/ \E k \in Settings : Edit(o, k)
  \/ \E s \in sending : Dump(s) \/ HostSets(s) \/ SaveFails(s)

ConfigSpec == ConfigInit /\ [][ConfigNext]_configVars

-----------------------------------------------------------------------------
(* Values are numbered in the order they are set: c is the saved data, or in *)
(* a table what was set since.                                              *)
AtLeast(c, data) ==
  \A k \in Settings : IF k \in Nested THEN c[k] >= data[k] ELSE c[k] = data[k]

(* The host's configuration is one the plugin has saved, never one in which *)
(* the plugin was half-way through a change of two settings; inside of a    *)
(* table it may have what was set after the save, but nothing older.        *)
HostHasWhatWasSaved ==
  hostConfig = [k \in Settings |-> 1] \/ \E s \in DOMAIN saves : AtLeast(hostConfig, saves[s].data)

(* With nothing on its way no save that succeeded is undone by an older one:*)
(* the host has the last of them, or one that failed after it.  It holds for*)
(* a plugin that awaits its saves.                                          *)
LastSaveWins ==
  sending = {} => \A s \in DOMAIN saves \ failed :
    \E t \in DOMAIN saves : t >= s /\ AtLeast(hostConfig, saves[t].data)

(* What the host has of the configuration (astrbot_config.py).              *)
HostHasTheLastSave == HostHasWhatWasSaved /\ (Awaited => LastSaveWins)

-----------------------------------------------------------------------------
(* What the repository says and the code does not do                        *)

(* save_config sends a snapshot (astrbot_config.py:387): a table in it is   *)
(* the object's own until it is dumped, and may be half-way through a       *)
(* change then.                                                             *)
SentAsSaved ==
  hostConfig = [k \in Settings |-> 1] \/ \E s \in DOMAIN saves : hostConfig = saves[s].data

(* All get_config calls that succeed give one object, so that a change is   *)
(* seen everywhere.  Two that overlap do not.                               *)
OneObject ==
  \A g, h \in Getters : getter[g].at = "done" /\ getter[h].at = "done"
    /\ objects[getter[g].obj] # NoSettings /\ objects[getter[h].obj] # NoSettings
    => getter[g].obj = getter[h].obj

(* A save never removes a setting the plugin has not touched.  After a      *)
(* get_config that failed it does.                                          *)
NothingIsWiped == \A k \in Settings : hostConfig[k] # Missing
=============================================================================
