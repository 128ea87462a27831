------------------------------ MODULE StoresProofs ------------------------------
(***************************************************************************)
(* Proofs about the copies a plugin has of what is the host's: its         *)
(* configuration (PluginConfig), the current conversation (Conversations)  *)
(* and the configuration profiles (ConfProfiles); and about its channel to *)
(* the host (HostChannel): whatever the threads do no channel leaks and    *)
(* the cached one is open, and orderly callers find the flag true and the  *)
(* channel there.                                                          *)
(***************************************************************************)
EXTENDS PluginConfig, Conversations, ConfProfiles, HostChannel, SequencesExt, FiniteSetTheorems, TLAPS

-----------------------------------------------------------------------------
(* PluginConfig: the inductive invariant                                    *)

Gettings == [at : {"start", "asked", "answered", "done"}, data : Config, obj : Nat]
Saves    == [object : Nat, data : Config, sent : Config]

ConfigTypes ==
  /\ hostConfig \in Config
  /\ shared \in Nat /\ objects \in Seq(Config)
  /\ getter \in [Getters -> Gettings]
  /\ edits \in Nat
  /\ saves \in Seq(Saves)
  /\ \A s \in DOMAIN saves : saves[s].object \in DOMAIN objects
  /\ sending \subseteq DOMAIN saves /\ dumped \subseteq sending

\* Values are numbers of changes that were made.
UpTo(c, n) == \A k \in Settings : c[k] <= n

ValuesWereSet ==
  /\ UpTo(hostConfig, edits)
  /\ \A o \in DOMAIN objects : UpTo(objects[o], edits)
  /\ \A g \in Getters : UpTo(getter[g].data, edits)
  /\ \A s \in DOMAIN saves : UpTo(saves[s].sent, edits)

\* An object grows, so that what is sent is what was saved or was set later.
ObjectsGrow ==
  \A s \in DOMAIN saves : \A k \in Settings : saves[s].data[k] <= objects[saves[s].object][k]

SentIsSaved == \A s \in DOMAIN saves : AtLeast(saves[s].sent, saves[s].data)

\* Of the saves that have succeeded none is undone by an older one, and an awaited save is
\* the last.
LastOfTheEnded ==
  \A s \in DOMAIN saves \ (failed \cup sending) : \E t \in DOMAIN saves : t >= s /\ AtLeast(hostConfig, saves[t].data)

OneOnItsWay == \A s \in sending : s = Len(saves)

\* The inductive invariant.
ConfigInv ==
  /\ ConfigTypes
  /\ ValuesWereSet
  /\ ObjectsGrow
  /\ SentIsSaved
  /\ HostHasWhatWasSaved
  /\ Awaited => OneOnItsWay /\ LastOfTheEnded

LEMMA ConfigStarts == ConfigInit => ConfigInv
BY DEF ConfigInit, ConfigInv, ConfigTypes, ValuesWereSet, UpTo, ObjectsGrow, SentIsSaved,
   HostHasWhatWasSaved, OneOnItsWay, LastOfTheEnded, Gettings, Saves, Config, NoSettings, Missing

\* What the steps of a get_config and an edit leave alone.
LEMMA SavesStay ==
  ASSUME \/ \E g \in Getters : GetConfig(g) \/ HostAnswers(g) \/ Loaded(g) \/ LoadFails(g)
         \/ \E o \in DOMAIN objects, k \in Settings : Edit(o, k)
  PROVE  UNCHANGED <<hostConfig, saves, sending, dumped, failed>>
BY DEF GetConfig, HostAnswers, Loaded, LoadFails, Gets, Edit

LEMMA GetterStep ==
  ASSUME ConfigTypes, ValuesWereSet, ObjectsGrow,
         NEW g \in Getters, GetConfig(g) \/ HostAnswers(g) \/ Loaded(g) \/ LoadFails(g)
  PROVE  ConfigTypes' /\ ValuesWereSet' /\ ObjectsGrow'
<1>0. UNCHANGED <<hostConfig, saves, sending, dumped, failed, edits>>
  BY SavesStay DEF GetConfig, HostAnswers, Loaded, LoadFails, Gets
<1>1. ASSUME UNCHANGED <<shared, objects>>, getter' \in [Getters -> Gettings],
             \A h \in Getters : UpTo(getter'[h].data, edits)
      PROVE  ConfigTypes' /\ ValuesWereSet' /\ ObjectsGrow'
  BY <1>0, <1>1 DEF ConfigTypes, ValuesWereSet, ObjectsGrow, UpTo
<1>2. CASE GetConfig(g)
  <2>1. getter' \in [Getters -> Gettings] /\ UNCHANGED <<shared, objects>>
    BY <1>2 DEF GetConfig, ConfigTypes, Gettings
  <2>2. \A h \in Getters : getter'[h].data = getter[h].data
    BY <1>2 DEF GetConfig, ConfigTypes, Gettings
  <2> QED
    BY <1>1, <2>1, <2>2 DEF ValuesWereSet
<1>3. CASE HostAnswers(g)
  <2>1. getter' \in [Getters -> Gettings] /\ UNCHANGED <<shared, objects>>
    BY <1>3 DEF HostAnswers, ConfigTypes, Gettings
  <2>2. \A h \in Getters : getter'[h].data \in {getter[h].data, hostConfig}
    BY <1>3 DEF HostAnswers, ConfigTypes, Gettings
  <2> QED
    BY <1>1, <2>1, <2>2 DEF ValuesWereSet
<1>4. ASSUME NEW data \in Config, UpTo(data, edits), Gets(g, data), shared' \in {shared, Len(objects) + 1}
      PROVE  ConfigTypes' /\ ValuesWereSet' /\ ObjectsGrow'
  <2>1. Len(objects) + 1 \in Nat
    BY DEF ConfigTypes
  <2>2. getter' \in [Getters -> Gettings] /\ \A h \in Getters : getter'[h].data = getter[h].data
    BY <1>4, <2>1 DEF Gets, ConfigTypes, Gettings
  <2>3. /\ objects' \in Seq(Config) /\ DOMAIN objects' = DOMAIN objects \cup {Len(objects) + 1}
        /\ objects'[Len(objects) + 1] = data
        /\ \A o \in DOMAIN objects : objects'[o] = objects[o]
    BY <1>4 DEF Gets, ConfigTypes
  <2>4. ConfigTypes'
    BY <1>0, <1>4, <2>1, <2>2, <2>3 DEF ConfigTypes
  <2>5. ValuesWereSet'
    BY <1>0, <1>4, <2>2, <2>3 DEF ValuesWereSet, UpTo
  <2>6. ObjectsGrow'
    BY <1>0, <2>3 DEF ConfigTypes, ObjectsGrow
  <2> QED
    BY <2>4, <2>5, <2>6
<1>5. CASE Loaded(g)
  <2>1. getter[g].data \in Config /\ UpTo(getter[g].data, edits)
    BY DEF ConfigTypes, Gettings, ValuesWereSet
  <2> QED
    BY <1>4, <1>5, <2>1 DEF Loaded
<1>6. CASE LoadFails(g)
  <2>1. NoSettings \in Config /\ UpTo(NoSettings, edits)
    BY DEF NoSettings, Missing, Config, UpTo, ConfigTypes
  <2> QED
    BY <1>4, <1>6, <2>1 DEF LoadFails
<1> QED
  BY <1>2, <1>3, <1>5, <1>6

LEMMA EditStep ==
  ASSUME ConfigTypes, ValuesWereSet, ObjectsGrow,
         NEW o \in DOMAIN objects, NEW k \in Settings, Edit(o, k)
  PROVE  ConfigTypes' /\ ValuesWereSet' /\ ObjectsGrow'
<1>1. /\ UNCHANGED <<hostConfig, shared, getter, saves, sending, dumped, failed>> /\ edits' = edits + 1
      /\ objects' \in Seq(Config) /\ DOMAIN objects' = DOMAIN objects
      /\ \A p \in DOMAIN objects : p # o => objects'[p] = objects[p]
      /\ objects'[o] = [objects[o] EXCEPT ![k] = edits + 1]
  BY DEF Edit, ConfigTypes, Config
<1>2. ConfigTypes'
  BY <1>1 DEF ConfigTypes
<1>3. objects[o] \in Config /\ UpTo(objects[o], edits)
  BY DEF ConfigTypes, ValuesWereSet
<1>4. \A j \in Settings : objects[o][j] <= objects'[o][j] /\ objects'[o][j] <= edits + 1
  BY <1>1, <1>3 DEF UpTo, Config, ConfigTypes
<1>5. ASSUME NEW c \in Config, UpTo(c, edits)
      PROVE  UpTo(c, edits')
  BY <1>1, <1>5 DEF UpTo, Config, ConfigTypes
<1>6. ValuesWereSet'
  <2>1. \A p \in DOMAIN objects' : UpTo(objects'[p], edits')
    <3> SUFFICES ASSUME NEW p \in DOMAIN objects PROVE UpTo(objects'[p], edits')
      BY <1>1
    <3>1. CASE p = o
      BY <1>1, <1>4, <3>1 DEF UpTo
    <3>2. CASE p # o
      <4>1. objects'[p] = objects[p] /\ objects[p] \in Config /\ UpTo(objects[p], edits)
        BY <1>1, <3>2 DEF ConfigTypes, ValuesWereSet
      <4> QED
        BY <1>1, <4>1 DEF UpTo, Config, ConfigTypes
    <3> QED
      BY <3>1, <3>2
  <2>2. UpTo(hostConfig', edits')
    BY <1>1, <1>5 DEF ConfigTypes, ValuesWereSet, UpTo
  <2>3. \A g \in Getters : UpTo(getter'[g].data, edits')
    BY <1>1, <1>5 DEF ConfigTypes, Gettings, ValuesWereSet, UpTo, Config
  <2>4. \A s \in DOMAIN saves' : UpTo(saves'[s].sent, edits')
    <3> SUFFICES ASSUME NEW s \in DOMAIN saves PROVE UpTo(saves[s].sent, edits')
      BY <1>1 DEF ConfigTypes
    <3>1. saves[s] \in Saves
      BY DEF ConfigTypes
    <3>2. saves[s].sent \in Config /\ UpTo(saves[s].sent, edits)
      BY <3>1 DEF Saves, ValuesWereSet
    <3> QED
      BY <1>5, <3>2
  <2> QED
    BY <2>1, <2>2, <2>3, <2>4 DEF ValuesWereSet
<1>7. ObjectsGrow'
  <2> SUFFICES ASSUME NEW s \in DOMAIN saves, NEW j \in Settings
               PROVE  saves[s].data[j] <= objects'[saves[s].object][j]
    BY <1>1 DEF ObjectsGrow
  <2>1. saves[s] \in Saves /\ saves[s].object \in DOMAIN objects
    BY DEF ConfigTypes
  <2>2. saves[s].data[j] <= objects[saves[s].object][j] /\ saves[s].data[j] \in Nat
    <3>1. saves[s].data \in Config
      BY <2>1 DEF Saves
    <3> QED
      BY <3>1 DEF ObjectsGrow, Config
  <2>3. CASE saves[s].object = o
    <3>1. objects[o][j] \in Nat /\ objects'[o][j] \in Nat
      BY <1>1, <1>3 DEF Config, ConfigTypes
    <3>2. saves[s].data[j] <= objects[o][j] /\ objects[o][j] <= objects'[o][j]
      BY <1>4, <2>2, <2>3
    <3> QED
      BY <2>2, <2>3, <3>1, <3>2
  <2>4. CASE saves[s].object # o
    BY <1>1, <2>1, <2>2, <2>4
  <2> QED
    BY <2>3, <2>4
<1> QED
  BY <1>2, <1>6, <1>7

\* A new save has what its object has, which is also what it would send.
LEMMA SaveStep ==
  ASSUME ConfigInv, NEW o \in DOMAIN objects, Save(o)
  PROVE  ConfigInv'
<1>1. /\ Len(saves') = Len(saves) + 1 /\ DOMAIN saves' = DOMAIN saves \cup {Len(saves) + 1}
      /\ \A s \in DOMAIN saves : saves'[s] = saves[s]
      /\ saves'[Len(saves) + 1] = [object |-> o, data |-> objects[o], sent |-> objects[o]]
      /\ sending' = sending \cup {Len(saves) + 1} /\ (Awaited => sending = {})
      /\ UNCHANGED <<hostConfig, shared, objects, getter, edits, dumped, failed>>
      /\ Len(saves) + 1 \notin DOMAIN saves
  BY DEF ConfigInv, ConfigTypes, Save
<1>2. objects[o] \in Config /\ UpTo(objects[o], edits) /\ \A k \in Settings : objects[o][k] <= objects[o][k]
  BY DEF ConfigInv, ConfigTypes, ValuesWereSet, Config
<1>3. ConfigTypes'
  <2>1. [object |-> o, data |-> objects[o], sent |-> objects[o]] \in Saves
    BY <1>2 DEF Saves, ConfigInv, ConfigTypes
  <2>2. saves \in Seq(Saves) /\ saves' = Append(saves, [object |-> o, data |-> objects[o], sent |-> objects[o]])
    BY DEF Save, ConfigInv, ConfigTypes
  <2>3. saves' \in Seq(Saves)
    BY <2>1, <2>2
  <2> QED
    BY <1>1, <2>3 DEF ConfigInv, ConfigTypes
<1>4. ValuesWereSet'
  BY <1>1, <1>2 DEF ConfigInv, ValuesWereSet, UpTo
<1>5. ObjectsGrow'
  BY <1>1, <1>2 DEF ConfigInv, ObjectsGrow
<1>7. SentIsSaved'
  <2>1. \A s \in DOMAIN saves : AtLeast(saves'[s].sent, saves'[s].data)
    BY <1>1 DEF ConfigInv, SentIsSaved, AtLeast
  <2>2. AtLeast(saves'[Len(saves) + 1].sent, saves'[Len(saves) + 1].data)
    BY <1>1, <1>2 DEF AtLeast, Config
  <2> QED
    BY <1>1, <2>1, <2>2 DEF SentIsSaved
<1>8. HostHasWhatWasSaved'
  BY <1>1 DEF ConfigInv, HostHasWhatWasSaved, AtLeast
<1>9. Awaited => OneOnItsWay' /\ LastOfTheEnded'
  <2>1. Awaited => OneOnItsWay'
    BY <1>1 DEF OneOnItsWay
  <2>2. ASSUME Awaited, NEW s \in DOMAIN saves' \ (failed' \cup sending')
        PROVE  \E t \in DOMAIN saves' : t >= s /\ AtLeast(hostConfig', saves'[t].data)
    <3>1. s \in DOMAIN saves \ (failed \cup sending)
      BY <1>1, <2>2
    <3>2. PICK t \in DOMAIN saves : t >= s /\ AtLeast(hostConfig, saves[t].data)
      BY <2>2, <3>1 DEF ConfigInv, LastOfTheEnded
    <3> QED
      BY <1>1, <3>2 DEF AtLeast
  <2> QED
    BY <2>1, <2>2 DEF LastOfTheEnded
<1> QED
  BY <1>3, <1>4, <1>5, <1>7, <1>8, <1>9 DEF ConfigInv

\* What is dumped is the copy, and a table as it is by now.
LEMMA DumpStep ==
  ASSUME ConfigInv, NEW s \in sending, Dump(s)
  PROVE  ConfigInv'
<1>1. s \in DOMAIN saves /\ saves[s] \in Saves /\ saves[s].object \in DOMAIN objects
  BY DEF ConfigInv, ConfigTypes
<1>2. /\ DOMAIN saves' = DOMAIN saves /\ Len(saves') = Len(saves)
      /\ \A t \in DOMAIN saves : saves'[t].data = saves[t].data /\ saves'[t].object = saves[t].object
      /\ \A t \in DOMAIN saves : t # s => saves'[t] = saves[t]
      /\ saves'[s].sent = Sent(s)
      /\ dumped' = dumped \cup {s}
      /\ UNCHANGED <<hostConfig, shared, objects, getter, edits, sending, failed>>
  BY <1>1 DEF Dump, ConfigInv, ConfigTypes, Saves
<1>3. saves[s].data \in Config /\ objects[saves[s].object] \in Config /\ UpTo(objects[saves[s].object], edits)
  BY <1>1 DEF ConfigInv, ConfigTypes, ValuesWereSet, Saves
<1>4. \A k \in Settings : saves[s].data[k] <= objects[saves[s].object][k]
  BY <1>1 DEF ConfigInv, ObjectsGrow
<1>5. Sent(s) \in Config /\ AtLeast(Sent(s), saves[s].data)
  BY <1>3, <1>4 DEF Sent, AtLeast, Config
<1>6. UpTo(Sent(s), edits)
  BY <1>3, <1>4 DEF Sent, UpTo, Config, ConfigInv, ConfigTypes
<1>7. ConfigTypes'
  <2>1. saves' \in Seq(Saves)
    <3>1. [saves[s] EXCEPT !.sent = Sent(s)] \in Saves
      BY <1>1, <1>5 DEF Saves
    <3>2. saves \in Seq(Saves) /\ saves' = [saves EXCEPT ![s] = [saves[s] EXCEPT !.sent = Sent(s)]]
      BY <1>1 DEF Dump, ConfigInv, ConfigTypes, Saves
    <3> QED
      BY <1>1, <3>1, <3>2
  <2> QED
    BY <1>2, <2>1 DEF ConfigInv, ConfigTypes
<1>8. ValuesWereSet'
  BY <1>2, <1>6 DEF ConfigInv, ValuesWereSet, UpTo
<1>9. ObjectsGrow'
  BY <1>2 DEF ConfigInv, ObjectsGrow
<1>10. SentIsSaved'
  <2>1. AtLeast(saves'[s].sent, saves'[s].data)
    BY <1>1, <1>2, <1>5 DEF AtLeast
  <2>2. ASSUME NEW t \in DOMAIN saves, t # s PROVE AtLeast(saves'[t].sent, saves'[t].data)
    BY <1>2, <2>2 DEF ConfigInv, SentIsSaved, AtLeast
  <2> QED
    BY <1>2, <2>1, <2>2 DEF SentIsSaved
<1>11. HostHasWhatWasSaved'
  BY <1>2 DEF ConfigInv, HostHasWhatWasSaved, AtLeast
<1>12. Awaited => OneOnItsWay' /\ LastOfTheEnded'
  BY <1>2 DEF ConfigInv, OneOnItsWay, LastOfTheEnded, AtLeast
<1> QED
  BY <1>7, <1>8, <1>9, <1>10, <1>11, <1>12 DEF ConfigInv

\* A save comes to its end, and the host has its configuration, or keeps the one it has.
LEMMA EndStep ==
  ASSUME ConfigInv, NEW s \in sending, HostSets(s) \/ SaveFails(s)
  PROVE  ConfigInv'
<1>1. s \in DOMAIN saves /\ saves[s].sent \in Config /\ AtLeast(saves[s].sent, saves[s].data) /\ UpTo(saves[s].sent, edits)
  <2>1. s \in DOMAIN saves /\ saves[s] \in Saves
    BY DEF ConfigInv, ConfigTypes
  <2> QED
    BY <2>1 DEF ConfigInv, SentIsSaved, ValuesWereSet, Saves
<1>2. /\ sending' = sending \ {s} /\ dumped' = dumped \ {s}
      /\ UNCHANGED <<shared, objects, getter, edits, saves>>
      /\ hostConfig' \in {hostConfig, saves[s].sent}
      /\ HostSets(s) => hostConfig' = saves[s].sent /\ failed' = failed
      /\ SaveFails(s) => failed' = failed \cup {s}
  BY DEF HostSets, SaveFails, SaveEnds
<1>3. ConfigTypes'
  BY <1>1, <1>2 DEF ConfigInv, ConfigTypes
<1>4. ValuesWereSet' /\ ObjectsGrow' /\ SentIsSaved'
  BY <1>1, <1>2 DEF ConfigInv, ValuesWereSet, UpTo, ObjectsGrow, SentIsSaved, AtLeast
<1>5. \A t \in DOMAIN saves : (AtLeast(hostConfig, saves[t].data) /\ hostConfig' = hostConfig) => AtLeast(hostConfig', saves'[t].data)
  BY <1>2 DEF AtLeast
<1>6. hostConfig' = saves[s].sent => AtLeast(hostConfig', saves'[s].data)
  BY <1>1, <1>2 DEF AtLeast
<1>7. HostHasWhatWasSaved'
  BY <1>1, <1>2, <1>5, <1>6 DEF ConfigInv, HostHasWhatWasSaved
<1>8. Awaited => OneOnItsWay'
  BY <1>2 DEF ConfigInv, OneOnItsWay
<1>9. ASSUME Awaited, NEW r \in DOMAIN saves' \ (failed' \cup sending')
      PROVE  \E t \in DOMAIN saves' : t >= r /\ AtLeast(hostConfig', saves'[t].data)
  <2>1. s = Len(saves) /\ r \in 1..Len(saves) /\ Len(saves) \in Nat
    BY <1>2, <1>9 DEF ConfigInv, ConfigTypes, OneOnItsWay
  <2>2. CASE hostConfig' = saves[s].sent
    BY <1>1, <1>2, <1>6, <2>1, <2>2
  <2>3. CASE hostConfig' # saves[s].sent
    <3>1. SaveFails(s) /\ hostConfig' = hostConfig
      BY <1>2, <2>3
    <3>2. r \in DOMAIN saves \ (failed \cup sending)
      BY <1>2, <1>9, <3>1
    <3>3. PICK t \in DOMAIN saves : t >= r /\ AtLeast(hostConfig, saves[t].data)
      BY <1>9, <3>2 DEF ConfigInv, LastOfTheEnded
    <3> QED
      BY <1>2, <1>5, <3>1, <3>3
  <2> QED
    BY <2>2, <2>3
<1> QED
  BY <1>3, <1>4, <1>7, <1>8, <1>9 DEF ConfigInv, LastOfTheEnded

LEMMA ConfigStep ==
  ASSUME ConfigInv, ConfigNext
  PROVE  ConfigInv'
<1>1. ASSUME UNCHANGED <<hostConfig, saves, sending, dumped, failed>>,
             ConfigTypes' /\ ValuesWereSet' /\ ObjectsGrow'
      PROVE  ConfigInv'
  BY <1>1 DEF ConfigInv, SentIsSaved, HostHasWhatWasSaved, OneOnItsWay, LastOfTheEnded, AtLeast
<1>2. ASSUME NEW g \in Getters, GetConfig(g) \/ HostAnswers(g) \/ Loaded(g) \/ LoadFails(g)
      PROVE  ConfigInv'
  BY <1>1, <1>2, GetterStep, SavesStay DEF ConfigInv
<1>3. ASSUME NEW o \in DOMAIN objects, NEW k \in Settings, Edit(o, k) PROVE ConfigInv'
  BY <1>1, <1>3, EditStep, SavesStay DEF ConfigInv
<1> QED
  BY <1>2, <1>3, SaveStep, DumpStep, EndStep DEF ConfigNext

\* The host's configuration of a plugin is one the plugin has saved, or inside of a table
\* what was set since, and when the plugin awaits its saves none that succeeded is undone by
\* an older one: astrbot_config.py, with any number of get_config calls, objects, changes and
\* saves, which may fail before or after the host has done its part.
THEOREM ConfigSafe == ConfigSpec => []HostHasTheLastSave
<1>1. ConfigInv => HostHasTheLastSave
  BY DEF ConfigInv, HostHasTheLastSave, LastSaveWins, LastOfTheEnded
<1>2. ConfigInv /\ UNCHANGED configVars => ConfigInv'
  BY DEF configVars, ConfigInv, ConfigTypes, ValuesWereSet, UpTo, ObjectsGrow, SentIsSaved, AtLeast,
     HostHasWhatWasSaved, OneOnItsWay, LastOfTheEnded
<1> QED
  BY <1>1, <1>2, ConfigStarts, ConfigStep, PTL DEF ConfigSpec

-----------------------------------------------------------------------------
(* Conversations                                                            *)

ConvIds   == Cids \cup {NoCid}
ConvSteps == {"start", "made", "delete", "curr", "each", "asked", "told", "got",
              "fell back", "title", "done"}
ConvTasks == [method : Methods, arg : ConvIds, at : ConvSteps, cid : ConvIds, reply : ConvIds,
              todo : SUBSET Cids]

ConvTypes ==
  /\ current \in ConvIds /\ cached \in ConvIds
  /\ exists \subseteq Cids
  /\ task \in [Tasks -> ConvTasks]
  /\ since \in [Tasks -> SUBSET ConvIds] /\ past \subseteq ConvIds

\* From the moment it asks, what a task notes of the host holds what is current there, and
\* the answer it is told.
NotedSinceAsked ==
  \A t \in Tasks :
    /\ task[t].at = "asked" => current \in since[t]
    /\ task[t].at \in {"told", "got"} => task[t].reply \in since[t] \cup {NoCid}

\* What is cached, and what a call is given for the current conversation, was current once.
CacheWasCurrent ==
  /\ current \in past /\ cached \in past \cup {NoCid}
  /\ \A t \in Tasks :
       task[t].at \in {"made", "told", "got", "fell back"} => task[t].reply \in past \cup {NoCid}

\* The inductive invariant.
ConvInv == ConvTypes /\ NotedSinceAsked /\ CacheWasCurrent

\* Where a task goes next, its type follows.
LEMMA GoesOn ==
  ASSUME ConvTypes, NEW t \in Tasks, NEW at \in ConvSteps, Goto(t, at)
  PROVE  /\ task' \in [Tasks -> ConvTasks] /\ task'[t].at = at
         /\ \A u \in Tasks : u # t => task'[u] = task[u]
BY DEF Goto, ConvTypes, ConvTasks

LEMMA Answers ==
  ASSUME ConvTypes, NEW t \in Tasks, NEW at \in ConvSteps, NEW r \in ConvIds, Answered(t, at, r)
  PROVE  /\ task' \in [Tasks -> ConvTasks] /\ task'[t].at = at /\ task'[t].reply = r
         /\ \A u \in Tasks : u # t => task'[u] = task[u]
BY DEF Answered, ConvTypes, ConvTasks

LEMMA WorksOn ==
  ASSUME task \in [Tasks -> ConvTasks], NEW t \in Tasks, NEW at \in ConvSteps, NEW c \in ConvIds,
         task' = [task EXCEPT ![t].cid = c, ![t].at = at]
  PROVE  /\ task' \in [Tasks -> ConvTasks] /\ task'[t].at = at
         /\ \A u \in Tasks : u # t => task'[u] = task[u]
BY Zenon DEF ConvTasks

LEMMA EndsWith ==
  ASSUME task \in [Tasks -> ConvTasks], NEW t \in Tasks, NEW at \in ConvSteps, NEW c \in ConvIds,
         task' = [task EXCEPT ![t].at = at, ![t].cid = c]
  PROVE  /\ task' \in [Tasks -> ConvTasks] /\ task'[t].at = at
         /\ \A u \in Tasks : u # t => task'[u] = task[u]
BY Zenon DEF ConvTasks

LEMMA Lists ==
  ASSUME task \in [Tasks -> ConvTasks], NEW t \in Tasks, NEW at \in ConvSteps, NEW todo \in SUBSET Cids,
         task' = [task EXCEPT ![t].at = at, ![t].todo = todo]
  PROVE  /\ task' \in [Tasks -> ConvTasks] /\ task'[t].at = at
         /\ \A u \in Tasks : u # t => task'[u] = task[u]
BY Zenon DEF ConvTasks

LEMMA ConvStarts == ConvInit => ConvInv
<1> SUFFICES ASSUME ConvInit PROVE ConvInv
  OBVIOUS
<1>1. /\ exists \subseteq Cids /\ current \in ConvIds /\ cached \in ConvIds
      /\ since \in [Tasks -> SUBSET ConvIds] /\ past = {current} /\ cached \in {current, NoCid}
  BY DEF ConvInit, ConvIds
<1>2. PICK m \in [Tasks -> Methods], arg \in [Tasks -> exists \cup {NoCid}] :
        task = [t \in Tasks |-> [method |-> m[t], arg |-> arg[t], at |-> "start", cid |-> NoCid,
                                 reply |-> NoCid, todo |-> {}]]
  BY DEF ConvInit
<1>3. task \in [Tasks -> ConvTasks] /\ \A t \in Tasks : task[t].at = "start"
  BY <1>1, <1>2 DEF ConvTasks, ConvIds, ConvSteps
<1> QED
  BY <1>1, <1>3 DEF ConvInv, ConvTypes, NotedSinceAsked, CacheWasCurrent

\* What the host makes current every task under way notes.
LEMMA BecomesNoted ==
  ASSUME ConvTypes, NEW c \in ConvIds, Becomes(c)
  PROVE  /\ current' = c /\ since' \in [Tasks -> SUBSET ConvIds]
         /\ past' = past \cup {c} /\ past' \subseteq ConvIds
         /\ \A t \in Tasks : c \in since'[t] /\ since[t] \subseteq since'[t]
BY DEF ConvTypes, Becomes

\* A step after which a task is asking only if it was, or begins to ask now, and what it
\* was told stays what it was told.
LEMMA StaysNoted ==
  ASSUME NotedSinceAsked, NEW t \in Tasks,
         \A u \in Tasks : since[u] \subseteq since'[u],
         current' = current \/ \A u \in Tasks : current' \in since'[u],
         \A u \in Tasks : u # t => task'[u] = task[u],
         task'[t].at \notin {"asked", "told", "got"}
  PROVE  NotedSinceAsked'
BY DEF NotedSinceAsked

\* What was current stays so for ever, and what one more call is given was.
LEMMA StaysPast ==
  ASSUME CacheWasCurrent, NEW t \in Tasks, past \subseteq past', current' \in past',
         cached' \in past' \cup {NoCid}, \A u \in Tasks : u # t => task'[u] = task[u],
         task'[t].at \in {"made", "told", "got", "fell back"} => task'[t].reply \in past' \cup {NoCid}
  PROVE  CacheWasCurrent'
BY DEF CacheWasCurrent

LEMMA HostsConvStep ==
  ASSUME ConvInv, NEW t \in Tasks,
         HostNew(t) \/ HostSwitch(t) \/ HostDelete(t) \/ HostList(t) \/ HostDeleteEach(t)
  PROVE  ConvInv'
<1> USE DEF ConvInv
<1>1. ConvTypes
  OBVIOUS
<1>2. /\ task' \in [Tasks -> ConvTasks] /\ task'[t].at \in {"made", "curr", "each"}
      /\ \A u \in Tasks : u # t => task'[u] = task[u]
  <2>1. CASE HostNew(t)
    <3>1. PICK r \in ConvIds : Answered(t, "made", r)
      BY <2>1 DEF HostNew, ConvIds
    <3> QED
      BY <1>1, <3>1, Answers DEF ConvSteps
  <2>2. CASE HostSwitch(t)
    <3>1. PICK r \in ConvIds : Answered(t, "made", r)
      BY <1>1, <2>2 DEF HostSwitch, ConvIds, ConvTypes, ConvTasks
    <3> QED
      BY <1>1, <3>1, Answers DEF ConvSteps
  <2>3. CASE HostDelete(t)
    BY <1>1, <2>3, GoesOn DEF HostDelete, ConvSteps
  <2>4. CASE HostList(t)
    <3>1. PICK found \in SUBSET Cids : task' = [task EXCEPT ![t].at = "each", ![t].todo = found]
      BY <1>1, <2>4 DEF HostList, ConvTypes
    <3> QED
      BY <1>1, <3>1, Lists DEF ConvTypes, ConvSteps
  <2>5. CASE HostDeleteEach(t)
    <3>1. PICK c \in task[t].todo : task' = [task EXCEPT ![t].todo = @ \ {c}]
      BY <2>5 DEF HostDeleteEach
    <3>2. task[t].at = "each"
      BY <2>5 DEF HostDeleteEach, At
    <3> QED
      BY <1>1, <3>1, <3>2 DEF ConvTypes, ConvTasks, ConvSteps
  <2> QED
    BY <2>1, <2>2, <2>3, <2>4, <2>5
<1>3. /\ exists' \subseteq Cids /\ cached' = cached
      /\ UNCHANGED <<current, since, past>> \/ \E c \in ConvIds : Becomes(c)
  <2>1. CASE HostNew(t)
    BY <1>1, <2>1 DEF HostNew, ConvTypes, ConvIds
  <2>2. CASE HostSwitch(t)
    BY <1>1, <2>2 DEF HostSwitch, ConvTypes, ConvIds
  <2>3. ASSUME NEW c, HostDeletes(c)
        PROVE  exists' \subseteq Cids /\ (UNCHANGED <<current, since, past>> \/ Becomes(NoCid))
    BY <1>1, <2>3 DEF HostDeletes, ConvTypes
  <2>4. CASE HostDelete(t)
    BY <1>1, <2>3, <2>4 DEF HostDelete, ConvTypes, ConvIds
  <2>5. CASE HostList(t)
    BY <1>1, <2>5 DEF HostList, ConvTypes
  <2>6. CASE HostDeleteEach(t)
    BY <1>1, <2>3, <2>6 DEF HostDeleteEach, ConvTypes, ConvIds
  <2> QED
    BY <2>1, <2>2, <2>4, <2>5, <2>6
<1>6. CacheWasCurrent'
  <2>1. past \subseteq past' /\ current' \in past' /\ cached' \in past' \cup {NoCid}
    BY <1>1, <1>3, BecomesNoted DEF CacheWasCurrent
  <2>2. CASE HostNew(t)
    <3>1. PICK r \in past' \cup {NoCid} : Answered(t, "made", r)
      BY <2>2 DEF HostNew, Becomes
    <3>2. task'[t].reply = r
      BY <1>1, <3>1 DEF Answered, ConvTypes, ConvTasks
    <3> QED
      BY <1>2, <2>1, <3>2, StaysPast
  <2>3. CASE HostSwitch(t)
    <3>1. PICK r \in past' \cup {NoCid} : Answered(t, "made", r)
      BY <2>3 DEF HostSwitch, Becomes
    <3>2. task'[t].reply = r
      BY <1>1, <3>1 DEF Answered, ConvTypes, ConvTasks
    <3> QED
      BY <1>2, <2>1, <3>2, StaysPast
  <2>4. ASSUME task'[t].at \in {"curr", "each"} PROVE CacheWasCurrent'
    BY <1>2, <2>1, <2>4, StaysPast
  <2>5. HostDelete(t) \/ HostList(t) \/ HostDeleteEach(t) => task'[t].at \in {"curr", "each"}
    BY <1>1 DEF HostDelete, HostList, HostDeleteEach, Goto, At, ConvTypes, ConvTasks
  <2> QED
    BY <2>2, <2>3, <2>4, <2>5
<1>4. CASE UNCHANGED <<current, since, past>>
  <2>1. ConvTypes'
    BY <1>1, <1>2, <1>3, <1>4 DEF ConvTypes
  <2>2. NotedSinceAsked'
    BY <1>2, <1>4, StaysNoted
  <2> QED
    BY <1>6, <2>1, <2>2
<1>5. ASSUME NEW c \in ConvIds, Becomes(c)
      PROVE  ConvInv'
  <2>1. /\ current' = c /\ since' \in [Tasks -> SUBSET ConvIds] /\ past' \subseteq ConvIds
        /\ \A u \in Tasks : c \in since'[u] /\ since[u] \subseteq since'[u]
    BY <1>1, <1>5, BecomesNoted
  <2>2. ConvTypes'
    BY <1>1, <1>2, <1>3, <2>1 DEF ConvTypes
  <2>3. NotedSinceAsked'
    BY <1>2, <2>1, StaysNoted
  <2> QED
    BY <1>6, <2>2, <2>3
<1> QED
  BY <1>3, <1>4, <1>5

LEMMA ManagersConvStep ==
  ASSUME ConvInv, NEW t \in Tasks, Remember(t) \/ Delete(t) \/ Update(t) \/ AllTried(t)
  PROVE  ConvInv'
<1>1. ConvTypes /\ NotedSinceAsked /\ CacheWasCurrent
  BY DEF ConvInv
<1>2. /\ UNCHANGED <<current, exists, since, past>> /\ cached' \in ConvIds
      /\ task' \in [Tasks -> ConvTasks] /\ task'[t].at \in {"done", "delete"}
      /\ \A u \in Tasks : u # t => task'[u] = task[u]
  <2>1. CASE Remember(t)
    <3>1. task[t].reply \in ConvIds
      BY <1>1 DEF ConvTypes, ConvTasks
    <3>2. UNCHANGED <<current, exists, since, past>> /\ cached' \in ConvIds
      BY <1>1, <2>1, <3>1 DEF Remember, ConvTypes
    <3> QED
      BY <1>1, <2>1, <3>2, GoesOn DEF Remember, ConvSteps
  <2>2. CASE Delete(t)
    <3>1. PICK c \in ConvIds, at \in {"done", "delete"} :
            task' = [task EXCEPT ![t].cid = c, ![t].at = at]
      BY <1>1, <2>2 DEF Delete, ConvTypes, ConvTasks
    <3>2. /\ task' \in [Tasks -> ConvTasks] /\ task'[t].at \in {"done", "delete"}
          /\ \A u \in Tasks : u # t => task'[u] = task[u]
      BY <1>1, <3>1, WorksOn DEF ConvTypes, ConvSteps
    <3> QED
      BY <1>1, <2>2, <3>2 DEF Delete, ConvTypes
  <2>3. CASE Update(t)
    <3>1. PICK c \in ConvIds : task' = [task EXCEPT ![t].at = "done", ![t].cid = c]
      BY <1>1, <2>3 DEF Update, ConvTypes, ConvTasks
    <3>2. /\ task' \in [Tasks -> ConvTasks] /\ task'[t].at \in {"done", "delete"}
          /\ \A u \in Tasks : u # t => task'[u] = task[u]
      BY <1>1, <3>1, EndsWith DEF ConvTypes, ConvSteps
    <3> QED
      BY <1>1, <2>3, <3>2 DEF Update, ConvTypes
  <2>4. CASE AllTried(t)
    <3>1. UNCHANGED <<current, exists, since, past>> /\ cached' \in ConvIds /\ Goto(t, "done")
      BY <1>1, <2>4 DEF AllTried, ConvTypes, ConvIds
    <3> QED
      BY <1>1, <3>1, GoesOn DEF ConvSteps
  <2> QED
    BY <2>1, <2>2, <2>3, <2>4
<1>3. ConvTypes'
  BY <1>1, <1>2 DEF ConvTypes
<1>4. NotedSinceAsked'
  BY <1>1, <1>2, StaysNoted
<1>5. CacheWasCurrent'
  <2>1. cached' \in past' \cup {NoCid}
    BY <1>1 DEF CacheWasCurrent, Remember, Delete, Update, AllTried
  <2> QED
    BY <1>1, <1>2, <2>1, StaysPast DEF CacheWasCurrent
<1> QED
  BY <1>3, <1>4, <1>5 DEF ConvInv

\* get_curr_conversation_id: the question, the host's answer, and what becomes of it.
LEMMA AskedConvStep ==
  ASSUME ConvInv, NEW t \in Tasks, AskCurrent(t) \/ HostCurrent(t) \/ BridgeRaises(t) \/ Told(t) \/ Got(t)
  PROVE  ConvInv'
<1>1. ConvTypes /\ NotedSinceAsked /\ CacheWasCurrent
  BY DEF ConvInv
<1>2. CASE AskCurrent(t)
  <2>1. /\ UNCHANGED <<current, exists, cached, past>> /\ since' = [since EXCEPT ![t] = {current}]
        /\ task' \in [Tasks -> ConvTasks] /\ task'[t].at = "asked"
        /\ \A u \in Tasks : u # t => task'[u] = task[u]
    BY <1>1, <1>2 DEF AskCurrent, Goto, ConvTypes, ConvTasks, ConvSteps
  <2>2. ConvTypes'
    BY <1>1, <2>1 DEF ConvTypes, ConvIds, ConvTasks
  <2>3. NotedSinceAsked'
    BY <1>1, <2>1 DEF NotedSinceAsked, ConvTypes
  <2>4. CacheWasCurrent'
    BY <1>1, <2>1, StaysPast DEF CacheWasCurrent
  <2> QED
    BY <2>2, <2>3, <2>4 DEF ConvInv
<1>3. CASE HostCurrent(t)
  <2>1. PICK r \in {current, NoCid} : Answered(t, "told", r)
    BY <1>3 DEF HostCurrent
  <2>2. /\ UNCHANGED <<current, exists, cached, since, past>> /\ current \in since[t]
        /\ task' \in [Tasks -> ConvTasks] /\ task'[t].at = "told" /\ task'[t].reply = r
        /\ \A u \in Tasks : u # t => task'[u] = task[u]
    <3>1. r \in ConvIds
      BY <1>1 DEF ConvTypes, ConvIds
    <3>2. UNCHANGED <<current, exists, cached, since, past>> /\ current \in since[t]
      BY <1>1, <1>3 DEF HostCurrent, NotedSinceAsked
    <3> QED
      BY <1>1, <2>1, <3>1, <3>2, Answers DEF ConvSteps
  <2>3. ConvTypes'
    BY <1>1, <2>1, <2>2 DEF ConvTypes, ConvIds, ConvTasks
  <2>4. NotedSinceAsked'
    BY <1>1, <2>1, <2>2 DEF NotedSinceAsked, ConvTypes
  <2>5. CacheWasCurrent'
    BY <1>1, <2>1, <2>2, StaysPast DEF CacheWasCurrent
  <2> QED
    BY <2>3, <2>4, <2>5 DEF ConvInv
<1>4. CASE Told(t)
  <2>1. /\ UNCHANGED <<current, exists, since, past>> /\ cached' = task[t].reply /\ task[t].at = "told"
        /\ task' \in [Tasks -> ConvTasks] /\ task'[t].at = "got" /\ task'[t].reply = task[t].reply
        /\ \A u \in Tasks : u # t => task'[u] = task[u]
    BY <1>1, <1>4 DEF Told, Goto, ConvTypes, ConvTasks, ConvSteps
  <2>2. ConvTypes'
    BY <1>1, <2>1 DEF ConvTypes, ConvIds, ConvTasks
  <2>3. NotedSinceAsked'
    BY <1>1, <2>1 DEF NotedSinceAsked, ConvTypes
  <2>4. CacheWasCurrent'
    BY <1>1, <2>1, StaysPast DEF CacheWasCurrent
  <2> QED
    BY <2>2, <2>3, <2>4 DEF ConvInv
<1>5. CASE Got(t)
  <2>1. /\ UNCHANGED <<current, exists, since, past>> /\ cached' \in {cached, NoCid}
        /\ task' \in [Tasks -> ConvTasks] /\ task'[t].at \in {"title", "done"}
        /\ \A u \in Tasks : u # t => task'[u] = task[u]
    <3>1. UNCHANGED <<current, exists, since, past>> /\ cached' \in {cached, NoCid}
      BY <1>5 DEF Got
    <3>2. PICK at \in {"title", "done"} : Goto(t, at)
      BY <1>5 DEF Got
    <3> QED
      BY <1>1, <3>1, <3>2, GoesOn DEF ConvSteps
  <2>2. ConvTypes'
    BY <1>1, <2>1 DEF ConvTypes, ConvIds, ConvTasks
  <2>3. NotedSinceAsked'
    BY <1>1, <2>1 DEF NotedSinceAsked, ConvTypes
  <2>4. CacheWasCurrent'
    BY <1>1, <2>1, StaysPast DEF CacheWasCurrent
  <2> QED
    BY <2>2, <2>3, <2>4 DEF ConvInv
<1>6. CASE BridgeRaises(t)
  <2>1. /\ UNCHANGED <<current, exists, since, cached, past>>
        /\ task' \in [Tasks -> ConvTasks] /\ task'[t].at = "fell back" /\ task'[t].reply = cached
        /\ \A u \in Tasks : u # t => task'[u] = task[u]
    BY <1>1, <1>6 DEF BridgeRaises, Answered, ConvTypes, ConvTasks, ConvSteps
  <2>2. ConvTypes'
    BY <1>1, <2>1 DEF ConvTypes, ConvIds, ConvTasks
  <2>3. NotedSinceAsked'
    BY <1>1, <2>1 DEF NotedSinceAsked, ConvTypes
  <2>4. CacheWasCurrent'
    BY <1>1, <2>1, StaysPast DEF CacheWasCurrent
  <2> QED
    BY <2>2, <2>3, <2>4 DEF ConvInv
<1> QED
  BY <1>2, <1>3, <1>4, <1>5, <1>6

LEMMA ElsewhereConvStep ==
  ASSUME ConvInv, Elsewhere
  PROVE  ConvInv'
<1>1. ConvTypes /\ NotedSinceAsked /\ CacheWasCurrent
  BY DEF ConvInv
<1>2. /\ UNCHANGED <<cached, task>> /\ exists' \subseteq Cids
      /\ UNCHANGED <<current, since, past>> \/ \E c \in ConvIds : Becomes(c)
  BY <1>1 DEF Elsewhere, HostDeletes, ConvTypes, ConvIds
<1>3. CASE UNCHANGED <<current, since, past>>
  BY <1>1, <1>2, <1>3 DEF ConvInv, ConvTypes, NotedSinceAsked, CacheWasCurrent
<1>4. ASSUME NEW c \in ConvIds, Becomes(c)
      PROVE  ConvInv'
  <2>1. /\ current' = c /\ since' \in [Tasks -> SUBSET ConvIds]
        /\ past' = past \cup {c} /\ past' \subseteq ConvIds
        /\ \A u \in Tasks : c \in since'[u] /\ since[u] \subseteq since'[u]
    BY <1>1, <1>4, BecomesNoted
  <2>2. ConvTypes'
    BY <1>1, <1>2, <2>1 DEF ConvTypes, ConvIds, ConvTasks
  <2>3. NotedSinceAsked'
    BY <1>1, <1>2, <2>1 DEF NotedSinceAsked, ConvTypes
  <2>4. CacheWasCurrent'
    BY <1>1, <1>2, <2>1 DEF CacheWasCurrent
  <2> QED
    BY <2>2, <2>3, <2>4 DEF ConvInv
<1> QED
  BY <1>2, <1>3, <1>4

\* What get_curr_conversation_id answers was current at the host at some moment of the
\* call, or is none, or, when the bridge raised, was current there once:
\* conversation_mgr.py, with any number of calls, conversations and switches made elsewhere.
THEOREM CurrentSafe == ConvSpec => []CurrentIsTheHosts
<1>1. ConvInv /\ ConvNext => ConvInv'
  BY HostsConvStep, ManagersConvStep, AskedConvStep, ElsewhereConvStep DEF ConvNext
<1>2. ConvInv /\ UNCHANGED convVars => ConvInv'
  BY DEF convVars, ConvInv, ConvTypes, NotedSinceAsked, CacheWasCurrent
<1>3. ConvInv => CurrentIsTheHosts
  BY DEF ConvInv, NotedSinceAsked, CacheWasCurrent, CurrentIsTheHosts
<1> QED
  BY <1>1, <1>2, <1>3, ConvStarts, PTL DEF ConvSpec

-----------------------------------------------------------------------------
(* ConfProfiles                                                             *)

Changes ==
  [at : {"none", "load", "map", "put", "file"}, id : Ids \cup {"none"}, kind : {"none", "create", "delete"},
   loaded : SUBSET Ids]

\* What the kind of a change says of where it is.
ChangeTypes ==
  /\ change \in Changes
  /\ change.kind = "none" => change = NoChange
  /\ change.kind = "create" => change.id \in Ids /\ change.at \in {"load", "map", "put"}
  /\ change.kind = "delete" => change.at \in {"file", "map", "put"}

ProfileTypes ==
  /\ ChangeTypes
  /\ cancels \in Nat
  /\ mapping \subseteq Ids /\ stored \subseteq Ids /\ late \subseteq SUBSET Ids

\* Memory, the preferences that work and what a change has loaded are one mapping.
MappingAgrees ==
  /\ late = {}
  /\ works /\ change.at # "put" => mapping = stored
  /\ change.at \in {"map", "file"} => change.loaded = mapping

\* An object is that of an entry, or of the profile that is being made.
ObjectsHaveEntries ==
  /\ confs \subseteq mapping \cup (IF change.kind = "none" THEN {} ELSE {change.id})
  /\ change.kind = "create" => change.id \in files \cap confs
  /\ change.kind = "create" /\ change.at = "put" => change.id \in mapping
  /\ change.kind = "delete" /\ change.at = "file" => change.id \in mapping

\* The caller counts on what is there, and on nothing that is being deleted.
CreatedStays ==
  /\ created \subseteq mapping \cap files \cap confs
  /\ change.kind = "delete" /\ change.at # "file" => change.id \notin created \cup confs

\* The inductive invariant.
ProfilesInv ==
  /\ ProfileTypes
  /\ confs \subseteq files
  /\ cancels = 0 => MappingAgrees /\ ObjectsHaveEntries /\ CreatedStays

LEMMA ProfilesStart == ProfilesInit => ProfilesInv
<1> SUFFICES ASSUME ProfilesInit PROVE ProfilesInv
  OBVIOUS
<1>2. ProfileTypes
  BY DEF ProfilesInit, ProfileTypes, ChangeTypes, Changes, NoChange
<1>3. MappingAgrees /\ ObjectsHaveEntries /\ CreatedStays
  BY DEF ProfilesInit, NoChange, MappingAgrees, ObjectsHaveEntries, CreatedStays
<1> QED
  BY <1>2, <1>3 DEF ProfilesInit, ProfilesInv

LEMMA KindsOfChanges ==
  ASSUME ChangeTypes
  PROVE  /\ change.at = "load" => change.kind = "create"
         /\ change.at = "file" => change.kind = "delete"
         /\ change.at \in {"map", "put"} => change.kind \in {"create", "delete"}
         /\ change.loaded \in SUBSET Ids /\ (change.kind = "create" => change.id \in Ids)
BY DEF ChangeTypes, Changes, NoChange

LEMMA ChangeEnds ==
  ASSUME change' = NoChange
  PROVE  ChangeTypes'
BY DEF ChangeTypes, Changes, NoChange

LEMMA ChangeBegins ==
  ASSUME NEW id \in Ids, NEW m \in SUBSET Ids,
         \/ change' = [at |-> "load", id |-> id, kind |-> "create", loaded |-> m]
         \/ change' = [at |-> "file", id |-> id, kind |-> "delete", loaded |-> m]
  PROVE  ChangeTypes'
BY DEF ChangeTypes, Changes

LEMMA ChangeGoesOn ==
  ASSUME ChangeTypes, change.kind # "none", NEW at \in {"map", "put"}, NEW m \in SUBSET Ids,
         change' = [change EXCEPT !.at = at] \/ change' = [change EXCEPT !.at = at, !.loaded = m]
  PROVE  ChangeTypes'
BY DEF ChangeTypes, Changes

LEMMA ProfilesTypesStep ==
  ASSUME ProfileTypes, ProfilesNext
  PROVE  ProfileTypes'
<1>1. ChangeTypes /\ Mapping \in SUBSET Ids
  BY DEF ProfileTypes, Mapping
<1>2. ChangeTypes'
  <2>1. ASSUME NEW id \in Ids, CreateConf(id) PROVE ChangeTypes'
    BY <1>1, <2>1, ChangeBegins DEF CreateConf, ChangeTypes
  <2>2. ASSUME NEW id \in Ids, DeleteConf(id) PROVE ChangeTypes'
    BY <1>1, <2>2, ChangeBegins DEF DeleteConf
  <2>3. CASE LoadMapping
    BY <1>1, <2>3, ChangeGoesOn, KindsOfChanges DEF LoadMapping
  <2>4. CASE RemoveFile
    BY <1>1, <2>4, ChangeGoesOn, KindsOfChanges DEF RemoveFile, Reaches
  <2>5. CASE SetMapping
    BY <1>1, <2>5, ChangeGoesOn, KindsOfChanges DEF SetMapping, Reaches
  <2>6. CASE DeleteFails \/ PutMapping \/ Cancel \/ Restart
    BY <2>6, ChangeEnds DEF DeleteFails, PutMapping, Cancel, Restart
  <2>7. ASSUME NEW m \in late, LatePut(m) PROVE ChangeTypes'
    BY <1>1, <2>7 DEF LatePut, ChangeTypes
  <2> QED
    BY <2>1, <2>2, <2>3, <2>4, <2>5, <2>6, <2>7 DEF ProfilesNext
<1>3. mapping' \subseteq Ids
  <2>1. CASE SetMapping
    <3>1. change.loaded \in SUBSET Ids /\ (change.kind = "create" => change.id \in Ids)
      BY <1>1, <2>1, KindsOfChanges DEF SetMapping
    <3> QED
      BY <2>1, <3>1 DEF SetMapping
  <2>2. CASE ~SetMapping
    <3>1. mapping' \in {mapping, {}}
      BY <2>2 DEF ProfilesNext, CreateConf, DeleteConf, LoadMapping, DeleteFails, RemoveFile, PutMapping,
         Cancel, LatePut, Restart
    <3> QED
      BY <3>1 DEF ProfileTypes
  <2> QED
    BY <2>1, <2>2
<1>4. stored' \subseteq Ids /\ late' \subseteq SUBSET Ids
  <2>1. ASSUME NEW m \in SUBSET Ids, ToPreferences(m) PROVE stored' \subseteq Ids
    BY <2>1 DEF ToPreferences, ProfileTypes
  <2>2. CASE PutMapping
    BY <2>1, <2>2 DEF PutMapping, ProfileTypes
  <2>3. ASSUME NEW m \in late, LatePut(m) PROVE stored' \subseteq Ids /\ late' \subseteq SUBSET Ids
    BY <2>1, <2>3 DEF LatePut, ProfileTypes
  <2>4. ASSUME ~PutMapping, ~\E m \in late : LatePut(m)
        PROVE  stored' \subseteq Ids /\ late' \subseteq SUBSET Ids
    BY <2>4 DEF ProfileTypes, ProfilesNext, CreateConf, DeleteConf, LoadMapping, DeleteFails, RemoveFile,
       SetMapping, Cancel, Restart
  <2> QED
    BY <2>2, <2>3, <2>4
<1>5. cancels' \in Nat
  BY DEF ProfileTypes, ProfilesNext, CreateConf, DeleteConf, LoadMapping, DeleteFails, RemoveFile, SetMapping,
     PutMapping, Cancel, LatePut, Restart
<1> QED
  BY <1>2, <1>3, <1>4, <1>5 DEF ProfileTypes

LEMMA ProfilesStep ==
  ASSUME ProfilesInv, ProfilesNext
  PROVE  ProfilesInv'
<1>1. ProfileTypes'
  BY ProfilesTypesStep DEF ProfilesInv
<1>2. confs' \subseteq files'
  BY DEF ProfilesInv, ProfilesNext, CreateConf, DeleteConf, LoadMapping, DeleteFails, RemoveFile, SetMapping,
     PutMapping, Cancel, LatePut, Restart
<1>3. ASSUME cancels' = 0 PROVE MappingAgrees' /\ ObjectsHaveEntries' /\ CreatedStays'
  <2> USE DEF ProfileTypes, ChangeTypes, Changes, NoChange, MappingAgrees, ObjectsHaveEntries, CreatedStays, Mapping,
      ToPreferences
  <2>1. CASE Restart
    BY <2>1 DEF Restart
  <2>2. CASE ~Restart
    <3>1. cancels = 0 /\ late = {} /\ ~Cancel
      <4>1. cancels' = cancels \/ Cancel
        BY <2>2 DEF ProfilesNext, CreateConf, DeleteConf, LoadMapping, DeleteFails, RemoveFile, SetMapping,
           PutMapping, LatePut
      <4>2. ~Cancel
        BY <1>3 DEF ProfilesInv, Cancel
      <4> QED
        BY <1>3, <4>1, <4>2 DEF ProfilesInv
    <3>2. ProfileTypes /\ MappingAgrees /\ ObjectsHaveEntries /\ CreatedStays
      BY <3>1 DEF ProfilesInv
    <3>3. ASSUME NEW id \in Ids, CreateConf(id)
          PROVE  MappingAgrees' /\ ObjectsHaveEntries' /\ CreatedStays'
      BY <3>2, <3>3 DEF CreateConf
    <3>4. ASSUME NEW id \in Ids, DeleteConf(id)
          PROVE  MappingAgrees' /\ ObjectsHaveEntries' /\ CreatedStays'
      BY <3>2, <3>4 DEF DeleteConf
    <3>5. CASE LoadMapping
      BY <3>2, <3>5 DEF LoadMapping
    <3>6. CASE DeleteFails
      BY <3>2, <3>6 DEF DeleteFails
    <3>7. CASE RemoveFile
      BY <3>2, <3>7 DEF RemoveFile, Reaches
    <3>8. CASE SetMapping
      BY <3>2, <3>8 DEF SetMapping, Reaches
    <3>9. CASE PutMapping
      BY <3>2, <3>9 DEF PutMapping
    <3> QED
      BY <2>2, <3>1, <3>3, <3>4, <3>5, <3>6, <3>7, <3>8, <3>9 DEF ProfilesNext
  <2> QED
    BY <2>1, <2>2
<1> QED
  BY <1>1, <1>2, <1>3 DEF ProfilesInv

\* A profile that create_conf has returned resolves until it is deleted or the process ends,
\* no session is answered from a profile whose file is gone, and between changes every object
\* has its entry: astrbot_config_mgr.py; the first and the last in a process in which no
\* caller was cancelled.
THEOREM ProfilesSafe == ProfilesSpec => []ProfilesAreRight
<1>1. ProfilesInv /\ UNCHANGED profileVars => ProfilesInv'
  BY DEF profileVars, ProfilesInv, ProfileTypes, ChangeTypes, MappingAgrees, ObjectsHaveEntries,
     CreatedStays, Changes, NoChange
<1>2. ProfilesInv => ProfilesAreRight
  BY DEF ProfilesInv, ProfileTypes, ObjectsHaveEntries, CreatedStays, NoChange, ProfilesAreRight,
     CreatedResolves, NoDeletedProfile, Resolves
<1> QED
  BY <1>1, <1>2, ProfilesStart, ProfilesStep, PTL DEF ProfilesSpec

-----------------------------------------------------------------------------
(* HostChannel: the inductive invariant                                     *)

\* The channels made so far are numbered from 1.
Made == {c \in Channels : address[c] # 0}
NumberedInOrder == \E n \in 0..MaxChannels : Made = 1..n

\* A thread owns the channel it is about to open, to put into the table or to close.
Owns(t) == pc[t] \in {"create", "store", "close"}

OwnersApart ==
  /\ \A t \in Callers : Owns(t) => mine[t] \in Made /\ mine[t] # cache
  /\ \A t, u \in Callers : Owns(t) /\ Owns(u) /\ mine[t] = mine[u] => t = u
  /\ cache # NoOne => cache \in Made

\* What is open: the cached channel, and those owned but for the ones not opened yet.
WhatIsOpen ==
  /\ open \subseteq Made
  /\ \A c \in open : c = cache \/ \E t \in Callers : pc[t] \in {"store", "close"} /\ mine[t] = c
  /\ CachedIsOpen
  /\ \A t \in Callers : pc[t] = "store" => mine[t] \in open

\* Callers that keep to Serial: one at a time.
AtRest(t) == pc[t] \in {"idle", "failed", "crashed"}
OneAtATime == \A t, u \in Callers : ~AtRest(t) /\ ~AtRest(u) => t = u

\* The bridge has the cached channel or none, none while it is on its way to the next one,
\* and at each step of the probe and the call what the earlier steps saw.
BridgeIsRight ==
  /\ channel = NoOne \/ channel = cache
  /\ probed => channel # NoOne /\ channel \in ready
  /\ \A t \in Callers :
       /\ pc[t] \in {"evict", "close", "dial", "await", "create", "store", "install"} => channel = NoOne
       /\ pc[t] = "install" => mine[t] # NoOne /\ mine[t] = cache
       /\ pc[t] \in {"wait", "mark"} => mine[t] # NoOne /\ mine[t] = channel
       /\ pc[t] = "mark" => channel \in ready
       /\ pc[t] = "use" => channel # NoOne
       /\ pc[t] # "crashed"

\* Who goes on has an attempt left.
AttemptsLeft == \A t \in Callers : pc[t] # "failed" => tries[t] < Attempts

\* The inductive invariant.
ChannelInv ==
  /\ ChannelTypeOK
  /\ AttemptsLeft
  /\ NumberedInOrder
  /\ OwnersApart
  /\ WhatIsOpen
  /\ orderly => OneAtATime /\ BridgeIsRight

-----------------------------------------------------------------------------
(* Types                                                                    *)

LEMMA WorkTypes ==
  ASSUME ChannelTypeOK, AttemptsLeft, OwnersApart, NEW t \in Callers, Work(t)
  PROVE  ChannelTypeOK' /\ AttemptsLeft'
<1> USE ChannelAssumption DEF ChannelTypeOK, AttemptsLeft, Step, Steps, broker, bridge, grpc, local
<1>1. CASE FastPath(t) \/ ReadStub(t) \/ BeginProbe(t) \/ ProbeFails(t) \/ MarkProbed(t) \/ Drop(t)
  <2>1. UNCHANGED <<orderly, host, starts, conns, cache, address, open, ready, tries, calls, kind>>
    BY <1>1 DEF FastPath, ReadStub, BeginProbe, ProbeFails, MarkProbed, Drop
  <2>2. channel' \in Channels \cup {NoOne} /\ probed' \in BOOLEAN
    BY <1>1 DEF FastPath, ReadStub, BeginProbe, ProbeFails, MarkProbed, Drop
  <2>3. mine' \in [Callers -> Channels \cup {NoOne}]
    BY <1>1 DEF FastPath, ReadStub, BeginProbe, ProbeFails, MarkProbed, Drop
  <2>4. pc' \in [Callers -> Steps] /\ pc[t] # "failed" /\ \A u \in Callers : u # t => pc'[u] = pc[u]
    BY <1>1 DEF FastPath, ReadStub, BeginProbe, ProbeFails, MarkProbed, Drop
  <2> QED
    BY <2>1, <2>2, <2>3, <2>4
<1>2. CASE ProbeReady(t)
  <2>1. mine[t] \in Channels
    BY <1>2 DEF ProbeReady, Connected
  <2> QED
    BY <1>2, <2>1 DEF ProbeReady
<1>3. CASE Evict(t) \/ Close(t) \/ DialCached(t) \/ DialUnannounced(t) \/ Install(t)
  <2>1. UNCHANGED <<orderly, host, starts, conns, address, ready, tries, calls, kind>>
    BY <1>3 DEF Evict, Close, DialCached, DialUnannounced, Install
  <2>2. channel' \in Channels \cup {NoOne} /\ cache' \in Channels \cup {NoOne}
    BY <1>3 DEF Evict, Close, DialCached, DialUnannounced, Install
  <2>3. probed' \in BOOLEAN /\ open' \subseteq Channels
    BY <1>3 DEF Evict, Close, DialCached, DialUnannounced, Install
  <2>4. mine' \in [Callers -> Channels \cup {NoOne}]
    BY <1>3 DEF Evict, Close, DialCached, DialUnannounced, Install
  <2>5. pc' \in [Callers -> Steps] /\ pc[t] # "failed" /\ \A u \in Callers : u # t => pc'[u] = pc[u]
    BY <1>3 DEF Evict, Close, DialCached, DialUnannounced, Install
  <2> QED
    BY <2>1, <2>2, <2>3, <2>4, <2>5
<1>4. ASSUME NEW c \in Channels, DialAnnounced(t, c) \/ AddressCame(t, c)
      PROVE  ChannelTypeOK' /\ AttemptsLeft'
  <2>1. Take(t, c, "dial") \/ Take(t, c, "await")
    BY <1>4 DEF DialAnnounced, AddressCame
  <2> QED
    BY <2>1 DEF Take
<1>5. CASE Create(t) \/ Store(t)
  <2>1. mine[t] \in Channels
    BY <1>5 DEF Create, Store, OwnersApart, Owns, Made
  <2>2. UNCHANGED <<orderly, host, starts, conns, address, ready, channel, probed, tries, calls, kind>>
    BY <1>5 DEF Create, Store
  <2>3. cache' \in Channels \cup {NoOne} /\ mine' \in [Callers -> Channels \cup {NoOne}]
    BY <1>5 DEF Create, Store
  <2>4. pc' \in [Callers -> Steps] /\ pc[t] # "failed" /\ \A u \in Callers : u # t => pc'[u] = pc[u]
    BY <1>5 DEF Create, Store
  <2>5. open' \subseteq Channels
    BY <1>5, <2>1 DEF Create, Store
  <2> QED
    BY <2>2, <2>3, <2>4, <2>5
<1>6. CASE UseNothing(t) \/ UseClosed(t) \/ UseStub(t)
  <2>1. UNCHANGED <<orderly, host, starts, conns, cache, address, open, ready, channel, probed, mine, tries,
                    calls, kind>>
    BY <1>6 DEF UseNothing, UseClosed, UseStub
  <2>2. pc' \in [Callers -> Steps] /\ pc[t] # "failed" /\ \A u \in Callers : u # t => pc'[u] = pc[u]
    BY <1>6 DEF UseNothing, UseClosed, UseStub, Raised
  <2> QED
    BY <2>1, <2>2
<1>7. ASSUME NEW from \in {"await", "use"}, NEW again \in {"fast", "dial"}, Retry(t, from, again)
      PROVE  ChannelTypeOK' /\ AttemptsLeft'
  <2>1. tries[t] < Attempts /\ tries[t] + 1 \in 0..Attempts
    BY <1>7 DEF Retry
  <2> QED
    BY <1>7, <2>1 DEF Retry
<1>8. CASE DialTimesOut(t)
  BY <1>7, <1>8 DEF DialTimesOut
<1>9. CASE UseAgain(t)
  BY <1>7, <1>9 DEF UseAgain
<1> QED
  BY <1>1, <1>2, <1>3, <1>4, <1>5, <1>6, <1>8, <1>9 DEF Work

LEMMA ChannelTypes ==
  ASSUME ChannelTypeOK, AttemptsLeft, OwnersApart, ChannelNext
  PROVE  ChannelTypeOK' /\ AttemptsLeft'
<1> USE ChannelAssumption DEF ChannelTypeOK, AttemptsLeft, broker, bridge, grpc, local
<1>1. CASE HostStops \/ HostStarts \/ Announce
  BY <1>1 DEF HostStops, HostStarts, Announce
<1>2. ASSUME NEW t \in Callers, NEW k \in Kinds, Call(t, k)
      PROVE  ChannelTypeOK' /\ AttemptsLeft'
  <2>1. calls[t] + 1 \in 0..MaxCalls /\ 0 \in 0..Attempts /\ 0 < Attempts
    BY <1>2 DEF Call
  <2> QED
    BY <1>2, <2>1 DEF Call, Steps
<1> QED
  BY <1>1, <1>2, WorkTypes DEF ChannelNext

-----------------------------------------------------------------------------
(* Who owns which channel, whatever the threads do                          *)

\* A step of a thread that owns nothing before and after it, and makes, opens, stores and
\* closes nothing.
LEMMA NothingOwned ==
  ASSUME ChannelTypeOK, NumberedInOrder, OwnersApart, WhatIsOpen, NEW t \in Callers,
         UNCHANGED <<cache, address, open>>,
         ~Owns(t), pc'[t] \notin {"create", "store", "close"},
         \A u \in Callers : u # t => pc'[u] = pc[u] /\ mine'[u] = mine[u]
  PROVE  NumberedInOrder' /\ OwnersApart' /\ WhatIsOpen'
<1>1. Made' = Made
  BY DEF Made
<1>2. \A u \in Callers : pc'[u] \in {"create", "store", "close"} => u # t /\ pc'[u] = pc[u] /\ mine'[u] = mine[u]
  OBVIOUS
<1>3. OwnersApart'
  BY <1>1, <1>2 DEF OwnersApart, Owns
<1>4. ASSUME NEW c \in open', c # cache'
      PROVE  \E u \in Callers : pc'[u] \in {"store", "close"} /\ mine'[u] = c
  <2>1. PICK u \in Callers : pc[u] \in {"store", "close"} /\ mine[u] = c
    BY <1>4 DEF WhatIsOpen
  <2>2. u # t
    BY <2>1 DEF Owns
  <2> QED
    BY <2>1, <2>2
<1>5. WhatIsOpen'
  BY <1>1, <1>2, <1>4 DEF WhatIsOpen, CachedIsOpen
<1> QED
  BY <1>1, <1>3, <1>5 DEF NumberedInOrder

\* The number of a new channel is one that no channel has.
LEMMA NewChannel ==
  ASSUME NumberedInOrder, NEW c \in Channels, c = Cardinality(Made) + 1
  PROVE  c \notin Made /\ \E n \in 0..MaxChannels : Made \cup {c} = 1..n
<1>1. PICK n \in 0..MaxChannels : Made = 1..n
  BY DEF NumberedInOrder
<1>2. Cardinality(Made) = n
  BY <1>1, FS_Interval, ChannelAssumption
<1>3. Made \cup {c} = 1..(n + 1) /\ n + 1 \in 0..MaxChannels
  BY <1>1, <1>2, ChannelAssumption DEF Channels
<1> QED
  BY <1>1, <1>2, <1>3

LEMMA TakeApart ==
  ASSUME ChannelTypeOK, NumberedInOrder, OwnersApart, WhatIsOpen, NEW t \in Callers, NEW c \in Channels,
         Take(t, c, "dial") \/ Take(t, c, "await")
  PROVE  NumberedInOrder' /\ OwnersApart' /\ WhatIsOpen'
<1>1. c \notin Made /\ \E n \in 0..MaxChannels : Made \cup {c} = 1..n
  BY NewChannel DEF Take, Made
<1>2. conns # 0 /\ conns \in 0..MaxHosts
  BY DEF Take, ChannelTypeOK
<1>3. Made' = Made \cup {c}
  BY <1>2 DEF Take, Made, ChannelTypeOK
<1>4. /\ ~Owns(t) /\ pc'[t] = "create" /\ mine'[t] = c
      /\ \A u \in Callers : u # t => pc'[u] = pc[u] /\ mine'[u] = mine[u]
      /\ cache' = cache /\ open' = open
  BY DEF Take, Step, Owns, ChannelTypeOK, broker
<1>5. c # cache /\ c \notin open
  BY <1>1, ChannelAssumption DEF OwnersApart, WhatIsOpen, Channels
<1>6. OwnersApart'
  <2>1. \A u \in Callers : u # t /\ Owns(u)' => mine'[u] \in Made /\ mine'[u] # cache
    BY <1>4 DEF OwnersApart, Owns
  <2>2. \A u, v \in Callers : u # t /\ v # t /\ Owns(u)' /\ Owns(v)' /\ mine'[u] = mine'[v] => u = v
    BY <1>4 DEF OwnersApart, Owns
  <2> QED
    BY <1>1, <1>3, <1>4, <1>5, <2>1, <2>2 DEF OwnersApart
<1>7. ASSUME NEW d \in open', d # cache'
      PROVE  \E u \in Callers : pc'[u] \in {"store", "close"} /\ mine'[u] = d
  <2>1. PICK u \in Callers : pc[u] \in {"store", "close"} /\ mine[u] = d
    BY <1>4, <1>7 DEF WhatIsOpen
  <2>2. u # t
    BY <1>4, <2>1 DEF Owns
  <2> QED
    BY <1>4, <2>1, <2>2
<1>8. WhatIsOpen'
  BY <1>3, <1>4, <1>5, <1>7 DEF WhatIsOpen, CachedIsOpen
<1> QED
  BY <1>1, <1>3, <1>6, <1>8 DEF NumberedInOrder

LEMMA CreateApart ==
  ASSUME ChannelTypeOK, NumberedInOrder, OwnersApart, WhatIsOpen, NEW t \in Callers, Create(t)
  PROVE  NumberedInOrder' /\ OwnersApart' /\ WhatIsOpen'
<1>1. /\ pc[t] = "create" /\ pc'[t] = "store" /\ \A u \in Callers : u # t => pc'[u] = pc[u]
      /\ UNCHANGED <<cache, address, mine>> /\ open' = open \cup {mine[t]}
  BY DEF Create, Step, ChannelTypeOK, broker
<1>2. Made' = Made
  BY <1>1 DEF Made
<1>3. OwnersApart'
  BY <1>1, <1>2 DEF OwnersApart, Owns
<1>4. mine[t] \in Made
  BY <1>1 DEF OwnersApart, Owns
<1>5. ASSUME NEW d \in open', d # cache'
      PROVE  \E u \in Callers : pc'[u] \in {"store", "close"} /\ mine'[u] = d
  <2>1. CASE d = mine[t]
    BY <1>1, <2>1
  <2>2. CASE d # mine[t]
    <3>1. PICK u \in Callers : pc[u] \in {"store", "close"} /\ mine[u] = d
      BY <1>1, <1>5, <2>2 DEF WhatIsOpen
    <3>2. u # t
      BY <1>1, <3>1
    <3> QED
      BY <1>1, <3>1, <3>2
  <2> QED
    BY <2>1, <2>2
<1>6. \A u \in Callers : pc'[u] = "store" => mine'[u] \in open'
  BY <1>1 DEF WhatIsOpen
<1>7. WhatIsOpen'
  BY <1>1, <1>2, <1>4, <1>5, <1>6 DEF WhatIsOpen, CachedIsOpen
<1> QED
  BY <1>2, <1>3, <1>7 DEF NumberedInOrder

\* The loser of a race closes his own channel, which nobody else has.
LEMMA StoreApart ==
  ASSUME ChannelTypeOK, NumberedInOrder, OwnersApart, WhatIsOpen, NEW t \in Callers, Store(t)
  PROVE  NumberedInOrder' /\ OwnersApart' /\ WhatIsOpen'
<1>1. /\ pc[t] = "store" /\ pc'[t] = "install" /\ address' = address
      /\ \A u \in Callers : u # t => pc'[u] = pc[u] /\ mine'[u] = mine[u]
  BY DEF Store, Step, ChannelTypeOK
<1>2. Made' = Made
  BY <1>1 DEF Made
<1>3. mine[t] \in Made /\ mine[t] # cache /\ \A u \in Callers : u # t /\ Owns(u) => mine[u] # mine[t]
  BY <1>1 DEF OwnersApart, Owns
<1>4. \A u \in Callers : pc'[u] \in {"create", "store", "close"} =>
        u # t /\ Owns(u) /\ pc'[u] = pc[u] /\ mine'[u] = mine[u]
  BY <1>1 DEF Owns
<1>5. mine[t] \in open
  BY <1>1 DEF WhatIsOpen
<1>6. ASSUME NEW c \in open, c # cache, c # mine[t]
      PROVE  \E u \in Callers : pc'[u] \in {"store", "close"} /\ mine'[u] = c
  <2>1. PICK u \in Callers : pc[u] \in {"store", "close"} /\ mine[u] = c
    BY <1>6 DEF WhatIsOpen
  <2>2. u # t
    BY <1>6, <2>1
  <2> QED
    BY <1>1, <2>1, <2>2
<1>7. CASE cache = NoOne
  <2>1. cache' = mine[t] /\ open' = open
    BY <1>7 DEF Store
  <2>2. OwnersApart'
    BY <1>2, <1>3, <1>4, <2>1 DEF OwnersApart, Owns
  <2>3. ASSUME NEW c \in open', c # cache'
        PROVE  \E u \in Callers : pc'[u] \in {"store", "close"} /\ mine'[u] = c
    <3>1. c # cache
      BY <1>7, <2>1, <2>3, ChannelAssumption DEF WhatIsOpen, Made, Channels
    <3> QED
      BY <1>6, <2>1, <2>3, <3>1
  <2>4. WhatIsOpen'
    BY <1>2, <1>4, <1>5, <2>1, <2>3 DEF WhatIsOpen, CachedIsOpen
  <2> QED
    BY <1>2, <2>2, <2>4 DEF NumberedInOrder
<1>8. CASE cache # NoOne
  <2>1. cache' = cache /\ open' = open \ {mine[t]}
    BY <1>8 DEF Store
  <2>2. OwnersApart'
    BY <1>2, <1>3, <1>4, <2>1 DEF OwnersApart, Owns
  <2>3. WhatIsOpen'
    BY <1>2, <1>3, <1>4, <1>6, <1>8, <2>1 DEF WhatIsOpen, CachedIsOpen, Owns
  <2> QED
    BY <1>2, <2>2, <2>3 DEF NumberedInOrder
<1> QED
  BY <1>7, <1>8

LEMMA EvictApart ==
  ASSUME ChannelTypeOK, NumberedInOrder, OwnersApart, WhatIsOpen, NEW t \in Callers, Evict(t)
  PROVE  NumberedInOrder' /\ OwnersApart' /\ WhatIsOpen'
<1>1. /\ pc[t] = "evict" /\ pc'[t] = (IF cache = NoOne THEN "dial" ELSE "close") /\ mine'[t] = cache
      /\ \A u \in Callers : u # t => pc'[u] = pc[u] /\ mine'[u] = mine[u]
      /\ cache' = NoOne /\ UNCHANGED <<address, open>>
  BY DEF Evict, Step, ChannelTypeOK, grpc
<1>2. Made' = Made
  BY <1>1 DEF Made
<1>3. NoOne \notin Made
  BY ChannelAssumption DEF Made, Channels
<1>4. OwnersApart'
  <2>1. \A u \in Callers : u # t /\ Owns(u)' => mine'[u] \in Made /\ mine'[u] # cache
    BY <1>1 DEF OwnersApart, Owns
  <2>2. \A u, v \in Callers : u # t /\ v # t /\ Owns(u)' /\ Owns(v)' /\ mine'[u] = mine'[v] => u = v
    BY <1>1 DEF OwnersApart, Owns
  <2>3. Owns(t)' => mine'[t] = cache /\ cache \in Made
    BY <1>1 DEF OwnersApart, Owns
  <2> QED
    BY <1>1, <1>2, <1>3, <2>1, <2>2, <2>3 DEF OwnersApart
<1>5. ASSUME NEW c \in open', c # cache'
      PROVE  \E u \in Callers : pc'[u] \in {"store", "close"} /\ mine'[u] = c
  <2>1. CASE c = cache
    BY <1>1, <1>5, <2>1
  <2>2. CASE c # cache
    <3>1. PICK u \in Callers : pc[u] \in {"store", "close"} /\ mine[u] = c
      BY <1>1, <1>5, <2>2 DEF WhatIsOpen
    <3>2. u # t
      BY <1>1, <3>1
    <3> QED
      BY <1>1, <3>1, <3>2
  <2> QED
    BY <2>1, <2>2
<1>6. \A u \in Callers : pc'[u] = "store" => mine'[u] \in open'
  BY <1>1 DEF WhatIsOpen
<1>7. WhatIsOpen'
  BY <1>1, <1>2, <1>5, <1>6 DEF WhatIsOpen, CachedIsOpen
<1> QED
  BY <1>2, <1>4, <1>7 DEF NumberedInOrder

LEMMA CloseApart ==
  ASSUME ChannelTypeOK, NumberedInOrder, OwnersApart, WhatIsOpen, NEW t \in Callers, Close(t)
  PROVE  NumberedInOrder' /\ OwnersApart' /\ WhatIsOpen'
<1>1. /\ pc[t] = "close" /\ pc'[t] = "dial"
      /\ \A u \in Callers : u # t => pc'[u] = pc[u] /\ mine'[u] = mine[u]
      /\ UNCHANGED <<address, cache>> /\ open' = open \ {mine[t]}
  BY DEF Close, Step, ChannelTypeOK, broker
<1>2. Made' = Made
  BY <1>1 DEF Made
<1>3. mine[t] # cache /\ \A u \in Callers : u # t /\ Owns(u) => mine[u] # mine[t]
  BY <1>1 DEF OwnersApart, Owns
<1>4. \A u \in Callers : pc'[u] \in {"create", "store", "close"} =>
        u # t /\ Owns(u) /\ pc'[u] = pc[u] /\ mine'[u] = mine[u]
  BY <1>1 DEF Owns
<1>5. OwnersApart'
  BY <1>1, <1>2, <1>4 DEF OwnersApart, Owns
<1>6. ASSUME NEW c \in open', c # cache'
      PROVE  \E u \in Callers : pc'[u] \in {"store", "close"} /\ mine'[u] = c
  <2>1. PICK u \in Callers : pc[u] \in {"store", "close"} /\ mine[u] = c
    BY <1>1, <1>6 DEF WhatIsOpen
  <2>2. u # t
    BY <1>1, <1>6, <2>1
  <2> QED
    BY <1>1, <2>1, <2>2
<1>7. \A u \in Callers : pc'[u] = "store" => mine'[u] \in open'
  BY <1>1, <1>3, <1>4 DEF WhatIsOpen
<1>8. WhatIsOpen'
  BY <1>1, <1>2, <1>3, <1>6, <1>7 DEF WhatIsOpen, CachedIsOpen
<1> QED
  BY <1>2, <1>5, <1>8 DEF NumberedInOrder

LEMMA WorkApart ==
  ASSUME ChannelTypeOK, NumberedInOrder, OwnersApart, WhatIsOpen, NEW t \in Callers, Work(t)
  PROVE  NumberedInOrder' /\ OwnersApart' /\ WhatIsOpen'
<1>1. CASE FastPath(t) \/ ReadStub(t) \/ BeginProbe(t) \/ ProbeReady(t) \/ ProbeFails(t) \/ MarkProbed(t)
           \/ Drop(t) \/ DialCached(t) \/ DialUnannounced(t) \/ DialTimesOut(t) \/ Install(t)
           \/ UseNothing(t) \/ UseClosed(t) \/ UseStub(t) \/ UseAgain(t)
  <2>1. UNCHANGED <<cache, address, open>>
    BY <1>1 DEF FastPath, ReadStub, BeginProbe, ProbeReady, ProbeFails, MarkProbed, Drop, DialCached,
       DialUnannounced, DialTimesOut, Install, UseNothing, UseClosed, UseStub, UseAgain, Retry,
       broker, grpc
  <2>2. \A u \in Callers : u # t => pc'[u] = pc[u] /\ mine'[u] = mine[u]
    BY <1>1 DEF ChannelTypeOK, FastPath, ReadStub, BeginProbe, ProbeReady, ProbeFails, MarkProbed, Drop,
       DialCached, DialUnannounced, DialTimesOut, Install, UseNothing, UseClosed, UseStub, UseAgain,
       Retry, Step
  <2>3. ~Owns(t) /\ pc'[t] \notin {"create", "store", "close"}
    BY <1>1 DEF ChannelTypeOK, FastPath, ReadStub, BeginProbe, ProbeReady, ProbeFails, MarkProbed, Drop,
       DialCached, DialUnannounced, DialTimesOut, Install, UseNothing, UseClosed, UseStub, UseAgain,
       Retry, Step, Raised, Owns
  <2> QED
    BY <2>1, <2>2, <2>3, NothingOwned
<1>2. ASSUME NEW c \in Channels, DialAnnounced(t, c) \/ AddressCame(t, c)
      PROVE  NumberedInOrder' /\ OwnersApart' /\ WhatIsOpen'
  BY <1>2, TakeApart DEF DialAnnounced, AddressCame
<1> QED
  BY <1>1, <1>2, EvictApart, CloseApart, CreateApart, StoreApart DEF Work

LEMMA ChannelsApart ==
  ASSUME ChannelTypeOK, NumberedInOrder, OwnersApart, WhatIsOpen, ChannelNext
  PROVE  NumberedInOrder' /\ OwnersApart' /\ WhatIsOpen'
<1>1. CASE HostStops \/ HostStarts \/ Announce
  <2>1. UNCHANGED <<cache, address, open, pc, mine>>
    BY <1>1 DEF HostStops, HostStarts, Announce, broker, grpc, local
  <2> QED
    BY <2>1 DEF NumberedInOrder, OwnersApart, WhatIsOpen, CachedIsOpen, Made, Owns
<1>2. ASSUME NEW t \in Callers, NEW k \in Kinds, Call(t, k)
      PROVE  NumberedInOrder' /\ OwnersApart' /\ WhatIsOpen'
  <2>1. UNCHANGED <<cache, address, open, mine>>
    BY <1>2 DEF Call, broker, grpc
  <2>2. ~Owns(t) /\ pc'[t] = "fast" /\ \A u \in Callers : u # t => pc'[u] = pc[u]
    BY <1>2 DEF Call, Owns, ChannelTypeOK
  <2> QED
    BY <2>1, <2>2, NothingOwned
<1> QED
  BY <1>1, <1>2, WorkApart DEF ChannelNext

-----------------------------------------------------------------------------
(* Orderly callers                                                          *)

\* A thread that works is not at rest, and the only one.
LEMMA OneWorks ==
  ASSUME ChannelTypeOK, OneAtATime, BridgeIsRight, NEW t \in Callers, Work(t)
  PROVE  /\ OneAtATime'
         /\ \A u \in Callers : u # t => pc'[u] \in {"idle", "failed"}
<1>1. ~AtRest(t)
  BY DEF Work, FastPath, ReadStub, BeginProbe, ProbeReady, ProbeFails, MarkProbed, Drop, Evict, Close,
     DialCached, DialUnannounced, DialTimesOut, Create, Store, DialAnnounced, AddressCame, Take,
     Install, UseNothing, UseClosed, UseStub, UseAgain, Retry, Step, AtRest
<1>2. \A u \in Callers : u # t => pc'[u] = pc[u]
  BY DEF ChannelTypeOK, Work, FastPath, ReadStub, BeginProbe, ProbeReady, ProbeFails, MarkProbed, Drop,
     Evict, Close, DialCached, DialUnannounced, DialTimesOut, Create, Store, DialAnnounced,
     AddressCame, Take, Install, UseNothing, UseClosed, UseStub, UseAgain, Retry, Step
<1>3. \A u \in Callers : u # t => pc'[u] \in {"idle", "failed"}
  BY <1>1, <1>2 DEF OneAtATime, AtRest, BridgeIsRight
<1> QED
  BY <1>3 DEF OneAtATime, AtRest

LEMMA WorkInOrder ==
  ASSUME ChannelTypeOK, OwnersApart, WhatIsOpen, OneAtATime, BridgeIsRight, NEW t \in Callers, Work(t)
  PROVE  BridgeIsRight'
<1> DEFINE What ==
      /\ channel' = NoOne \/ channel' = cache'
      /\ probed' => channel' # NoOne /\ channel' \in ready'
      /\ pc'[t] \in {"evict", "close", "dial", "await", "create", "store", "install"} => channel' = NoOne
      /\ pc'[t] = "install" => mine'[t] # NoOne /\ mine'[t] = cache'
      /\ pc'[t] \in {"wait", "mark"} => mine'[t] # NoOne /\ mine'[t] = channel'
      /\ pc'[t] = "mark" => channel' \in ready'
      /\ pc'[t] = "use" => channel' # NoOne
      /\ pc'[t] # "crashed"
<1>1. What => BridgeIsRight'
  <2>1. \A u \in Callers : u # t => pc'[u] \in {"idle", "failed"}
    BY OneWorks
  <2> QED
    BY <2>1 DEF BridgeIsRight
<1> USE DEF ChannelTypeOK, BridgeIsRight, Step, broker, bridge, grpc
<1>2. CASE FastPath(t) \/ ReadStub(t) \/ BeginProbe(t)
  <2>1. What
    BY <1>2 DEF FastPath, ReadStub, BeginProbe
  <2> QED
    BY <1>1, <2>1
<1>3. CASE ProbeReady(t) \/ ProbeFails(t) \/ MarkProbed(t) \/ Drop(t)
  <2>1. What
    BY <1>3 DEF ProbeReady, ProbeFails, MarkProbed, Drop
  <2> QED
    BY <1>1, <2>1
<1>4. CASE Evict(t) \/ Close(t) \/ DialCached(t) \/ DialUnannounced(t)
  <2>1. What
    BY <1>4 DEF Evict, Close, DialCached, DialUnannounced
  <2> QED
    BY <1>1, <2>1
<1>5. ASSUME NEW c \in Channels, DialAnnounced(t, c) \/ AddressCame(t, c)
      PROVE  BridgeIsRight'
  <2>1. What
    BY <1>5 DEF DialAnnounced, AddressCame, Take
  <2> QED
    BY <1>1, <2>1
<1>6. CASE Create(t) \/ Store(t)
  <2>1. mine[t] # NoOne
    BY <1>6, ChannelAssumption DEF Create, Store, OwnersApart, Owns, Made, Channels
  <2>2. What
    BY <1>6, <2>1 DEF Create, Store
  <2> QED
    BY <1>1, <2>2
<1>7. CASE Install(t)
  <2>1. What
    BY <1>7 DEF Install
  <2> QED
    BY <1>1, <2>1
<1>8. CASE UseNothing(t) \/ UseClosed(t) \/ UseStub(t)
  <2>1. channel # NoOne /\ channel \in open
    BY <1>8 DEF UseNothing, UseClosed, UseStub, WhatIsOpen, CachedIsOpen
  <2>2. What
    BY <1>8, <2>1 DEF UseNothing, UseClosed, UseStub
  <2> QED
    BY <1>1, <2>2
<1>9. CASE DialTimesOut(t) \/ UseAgain(t)
  <2>1. What
    BY <1>9 DEF DialTimesOut, UseAgain, Retry
  <2> QED
    BY <1>1, <2>1
<1> QED
  BY <1>2, <1>3, <1>4, <1>5, <1>6, <1>7, <1>8, <1>9 DEF Work

LEMMA InOrder ==
  ASSUME ChannelTypeOK, OwnersApart, WhatIsOpen, orderly, OneAtATime, BridgeIsRight, ChannelNext
  PROVE  OneAtATime' /\ BridgeIsRight'
<1>1. CASE HostStops \/ HostStarts \/ Announce
  <2>1. UNCHANGED <<cache, channel, probed, ready, pc, mine>>
    BY <1>1 DEF HostStops, HostStarts, Announce, broker, bridge, grpc, local
  <2> QED
    BY <2>1 DEF OneAtATime, AtRest, BridgeIsRight
<1>2. ASSUME NEW t \in Callers, NEW k \in Kinds, Call(t, k)
      PROVE  OneAtATime' /\ BridgeIsRight'
  <2>1. UNCHANGED <<cache, channel, probed, ready, mine>>
    BY <1>2 DEF Call, broker, bridge, grpc
  <2>2. pc'[t] = "fast" /\ \A u \in Callers : u # t => pc'[u] = pc[u] /\ AtRest(u)
    BY <1>2 DEF Call, Serial, AtRest, ChannelTypeOK
  <2> QED
    BY <2>1, <2>2 DEF OneAtATime, AtRest, BridgeIsRight
<1> QED
  BY <1>1, <1>2, OneWorks, WorkInOrder DEF ChannelNext

-----------------------------------------------------------------------------
(* The theorem                                                              *)

LEMMA ChannelStarts == ChannelInit => ChannelInv
<1> SUFFICES ASSUME ChannelInit PROVE ChannelInv
  OBVIOUS
<1>1. ChannelTypeOK
  <2>1. /\ orderly \in BOOLEAN /\ probed \in BOOLEAN
        /\ cache \in Channels \cup {NoOne} /\ channel \in Channels \cup {NoOne}
        /\ open \subseteq Channels /\ ready \subseteq Channels
    BY DEF ChannelInit
  <2>2. host \in 0..MaxHosts /\ starts \in 1..MaxHosts /\ conns \in 0..MaxHosts
    BY ChannelAssumption DEF ChannelInit
  <2>3. address \in [Channels -> 0..MaxHosts]
    BY ChannelAssumption DEF ChannelInit
  <2>4. pc \in [Callers -> Steps] /\ mine \in [Callers -> Channels \cup {NoOne}]
        /\ kind \in [Callers -> Kinds]
    BY DEF ChannelInit, Steps, Kinds
  <2>5. tries \in [Callers -> 0..Attempts] /\ calls \in [Callers -> 0..MaxCalls]
    BY ChannelAssumption DEF ChannelInit
  <2> QED
    BY <2>1, <2>2, <2>3, <2>4, <2>5 DEF ChannelTypeOK
<1>2. Made = {} /\ {} = 1..0 /\ 0 \in 0..MaxChannels
  BY ChannelAssumption DEF ChannelInit, Made
<1>3. NumberedInOrder
  BY <1>2 DEF NumberedInOrder
<1>4. OwnersApart /\ WhatIsOpen
  BY DEF ChannelInit, OwnersApart, Owns, WhatIsOpen, CachedIsOpen
<1>5. OneAtATime /\ BridgeIsRight
  BY DEF ChannelInit, OneAtATime, AtRest, BridgeIsRight
<1>6. AttemptsLeft
  BY ChannelAssumption DEF ChannelInit, AttemptsLeft
<1> QED
  BY <1>1, <1>3, <1>4, <1>5, <1>6 DEF ChannelInv

LEMMA ChannelStep == ChannelInv /\ [ChannelNext]_channelVars => ChannelInv'
<1> SUFFICES ASSUME ChannelInv, [ChannelNext]_channelVars PROVE ChannelInv'
  OBVIOUS
<1>1. CASE ChannelNext
  <2>1. ChannelTypeOK' /\ AttemptsLeft'
    BY <1>1, ChannelTypes DEF ChannelInv
  <2>2. NumberedInOrder' /\ OwnersApart' /\ WhatIsOpen'
    BY <1>1, ChannelsApart DEF ChannelInv
  <2>3. orderly' = orderly
    BY <1>1 DEF ChannelNext, HostStops, HostStarts, Announce, Call, Work, FastPath, ReadStub,
       BeginProbe, ProbeReady, ProbeFails, MarkProbed, Drop, Evict, Close, DialCached,
       DialUnannounced, DialTimesOut, Create, Store, DialAnnounced, AddressCame, Take, Install,
       UseNothing, UseClosed, UseStub, UseAgain, Retry
  <2>4. orderly => OneAtATime' /\ BridgeIsRight'
    BY <1>1, InOrder DEF ChannelInv
  <2> QED
    BY <2>1, <2>2, <2>3, <2>4 DEF ChannelInv
<1>2. CASE UNCHANGED channelVars
  <2>1. UNCHANGED <<orderly, host, starts, conns, cache, address, open, ready, channel, probed, pc, mine,
                    tries, calls, kind>>
    BY <1>2 DEF channelVars, broker, bridge, grpc, local
  <2>2. (ChannelTypeOK /\ AttemptsLeft)'
    BY <2>1 DEF ChannelInv, ChannelTypeOK, AttemptsLeft
  <2>3. (NumberedInOrder /\ OwnersApart /\ WhatIsOpen)'
    BY <2>1 DEF ChannelInv, NumberedInOrder, OwnersApart, WhatIsOpen, CachedIsOpen, Made, Owns
  <2>4. (orderly => OneAtATime /\ BridgeIsRight)'
    BY <2>1 DEF ChannelInv, OneAtATime, AtRest, BridgeIsRight
  <2> QED
    BY <2>2, <2>3, <2>4 DEF ChannelInv
<1> QED
  BY <1>1, <1>2

\* No channel leaks and the cached one is open, with any number of threads that do what
\* they like and a host that restarts; and of orderly callers, that the flag means that the
\* bridge's channel was found ready and that no call raises what its method does not handle
\* (host.py, broker.py).
THEOREM ChannelSafe == ChannelSpec => []ChannelIsRight
<1>1. ChannelInv => ChannelIsRight
  <2> SUFFICES ASSUME ChannelInv PROVE ChannelIsRight
    OBVIOUS
  <2>1. NoLeak
    BY DEF ChannelInv, WhatIsOpen, NoLeak
  <2>2. CachedIsOpen
    BY DEF ChannelInv, WhatIsOpen
  <2>3. FlagMeansReady /\ NeverCrashes
    BY DEF ChannelInv, BridgeIsRight, FlagMeansReady, NeverCrashes
  <2> QED
    BY <2>1, <2>2, <2>3 DEF ChannelIsRight
<1> QED
  BY <1>1, ChannelStarts, ChannelStep, PTL DEF ChannelSpec
=============================================================================
