------------------------------- MODULE MCStores -------------------------------
(* What a plugin keeps - its files, its copies of what the host has, and the *)
(* channel to the host - in one run: a behaviour is one of the component     *)
(* that "subject" names.  The components that are proved about are extended, *)
(* with their own variables; the others take theirs from the same slots, and *)
(* a slot the component has no use for is 0.                                 *)
EXTENDS HostChannel, PluginConfig, Conversations, ConfProfiles, SkillFiles, PluginStores, MessageHistory, TLC

VARIABLES subject, s1, s2, s3, s4, s5, s6

storeVars == <<prefVars, kvVars, fileVars, confVars>>
own   == <<channelVars, configVars, convVars, profileVars, skillVars, providerVars, platformVars, historyVars, storeVars,
           depsVars, importVars>>
slots == <<s1, s2, s3, s4, s5, s6>>
vars  == <<subject, own, slots>>

Unused5 == s5 = 0 /\ s6 = 0
NoSlots == s1 = 0 /\ s2 = 0 /\ s3 = 0 /\ s4 = 0 /\ Unused5

Keep5 == UNCHANGED <<s5, s6>>

\* An archive's directory "a b" is the skill "a_b", and "?" is no name of a skill.
NameOf == [f \in Folders \union {Root} |-> CASE f = "a b" -> "a_b" [] f = "?" -> NoName [] OTHER -> "x"]

\* One call of any kind, and two at the same time.
Media == INSTANCE MediaFiles WITH
  smooth <- s1, disk <- s2, madeBy <- s3, media <- s4,
  MediaCalls <- {"c1"}, NewNames <- {"n1", "n2"},
  MediaOps <- {"to_path", "as_path", "to_bytes", "to_base64", "to_base64_data", "image", "audio", "to_amr",
               "to_mp4", "ensure_wav", "ensure_jpeg", "cover", "compress", "download"},
  Sources <- {"own", "tmp", "missing", "base64", "unpadded", "data", "baddata", "http"},
  Contents <- {"wav", "amr", "silk", "jpg", "png", "alpha", "gif", "junk"},
  FileSuffixes <- {"wav", "amr", "jpg", "mp4"}

MediaPair == INSTANCE MediaFiles WITH
  smooth <- s1, disk <- s2, madeBy <- s3, media <- s4,
  MediaCalls <- {"c1", "c2"}, NewNames <- {"n1", "n2"},
  MediaOps <- {"to_path", "as_path", "image", "ensure_wav", "download"},
  Sources <- {"tmp", "base64"}, Contents <- {"silk"}, FileSuffixes <- {"mp4"}

\* Two threads of a process and one of another; "a" imports "b" if it is there, "u" is not
\* mapped and "ph" is mapped to a package that does not have it.
InProcess == [t \in Importers |-> IF t = "t3" THEN "p2" ELSE "p1"]
Mapped    == [n \in Modules |-> CASE n = "a" -> "ka" [] n = "b" -> "kb" [] n = "ph" -> "kph" [] OTHER -> "unmapped"]
OnTrial   == [n \in Modules |-> IF n = "a" THEN <<"b">> ELSE <<>>]

\* Two plugins whose directories give one module name, and one with a name of its own.
OneName == [p \in Plugins |-> IF p = "c" THEN "c" ELSE "a_b"]

Line(what, name, accepts) == [kind |-> what, name |-> name, accepts |-> accepts]
Needs == INSTANCE Requirements WITH
  text <- s1, env <- s2, readable <- s3, packaging <- s4, stage <- s5, plan <- s6,
  Names <- {"a", "b"}, Versions <- {1, 2}, MaxLines <- 2,
  Lines <- {Line("plain", "a", {}), Line("plain", "a", {2}), Line("plain", "b", {1}), Line("named url", "b", {}),
            Line("marked off", "b", {}), Line("url", "", {}), Line("option", "", {}), Line("comment", "", {})}

File(named) == [path |-> named, dir |-> FALSE]
Archive == INSTANCE PluginArchive WITH
  archive <- s1, yaml <- s2, content <- s3, looked <- s4, ofArchive <- s5, ofDirectory <- s6,
  Members <- {File(<<"r", "main.py">>), File(<<"r", "metadata.yaml">>), File(<<"r", "metadata.yml">>),
              [path |-> <<"r", "sub">>, dir |-> TRUE], File(<<"r", "sub", "main.py">>),
              File(<<"r", "sub", "metadata.yaml">>), File(<<"metadata.yml">>), File(<<"other", "x">>)},
  Contents <- {"complete", "description", "big", "number", "not utf-8"}

\* Loads of the first plugin and of another, or of one twice; one that is not loaded is
\* not there, and the third is a package.  Loads in any order: they are of two plugins that
\* have something to load, one of them a package, and no plugin's code names its directory.
ImportStart ==
  LET imported == {load[l].of : l \in Loads}
  IN  /\ ImportInit /\ (load["t1"].of = "a_b" \/ load["t1"].of = load["t2"].of)
      /\ hard \subseteq imported /\ \A p \in Plugins \ imported : layout[p] = "missing"
      /\ layout["c"] \in {"package", "missing"}
      /\ ~oneByOne => /\ hard = {} /\ Cardinality(imported) = 2
                      /\ layout["a_b"] \in (IF "c" \in imported THEN {"namespace"} ELSE {"folder", "main", "namespace"})
                      /\ \A p \in imported \ {"a_b"} : layout[p] = "package"

\* What a component that is not the subject is at all the while.
ChannelRests == orderly = TRUE /\ ChannelInit
ConvRests    == exists = {} /\ ConvInit /\ \A t \in Tasks : task[t].method = "curr"
ProfilesRest == withSp = TRUE /\ works = TRUE /\ ProfilesInit
SkillsRest ==
  /\ disk = [n \in SkillNames |-> NoSkill]
  /\ nested = {} /\ enabled = {} /\ lost = {} /\ sandbox = {}
  /\ install = [i \in Installs |-> [at |-> "start", folders |-> {}, others |-> {}, todo |-> {}, hint |-> NoHint,
                                    overwrite |-> FALSE, done |-> {}, dir |-> NoSkill]]
ProvidersRest ==
  /\ using = [w \in Umos \X Capabilities |-> CHOOSE p \in ProviderIds : TRUE]
  /\ curr = [k \in Switchable |-> None] /\ callback = NoCallback /\ hooks = <<>>
  /\ providerCalls = [c \in Calls |-> [at |-> "new", umo |-> CHOOSE u \in Umos : TRUE, cap |-> "embedding",
                                       prov |-> None, made |-> FALSE]]
  /\ told = [o \in Objects |-> [c \in Switches |-> 0]] /\ due = [c \in Switches |-> {}]
PlatformsRest == hostUp = TRUE /\ inTurn = TRUE /\ PlatformsInit
KvRest ==
  /\ kvFile = NoData /\ kvLock = "free" /\ kvAcked = NoData
  /\ kvCall = [c \in KvCalls |-> [at |-> "start", kind |-> "get", key |-> CHOOSE k \in KvKeys : TRUE,
                                  val |-> NoValue, data |-> NoData]]
FileRest ==
  /\ configFile = [is |-> "absent", keys |-> NoItems] /\ ioLock = [p \in ConfigProcesses |-> Free]
  /\ temps = {} /\ alive = ConfigProcesses /\ fileLog = <<>>
  /\ fileCall = [c \in FileCalls |-> [at |-> "start", by |-> "p1", op |-> "load", key |-> "k1", value |-> 1,
                                      read |-> NoItems, answer |-> "none"]]
ImportRests ==
  /\ oneByOne = TRUE /\ layout = [p \in Plugins |-> "missing"] /\ hard = {}
  /\ ImportInit /\ \A k, l \in Loads : load[k] = load[l] /\ load[k].of = "a_b"
ConfRest == defaults = Reference /\ conf = <<>> /\ given = conf /\ stage = "given" /\ changed = FALSE

\* The keys are alike, and the values: the first call's stand for all.
KvStart == KvInit /\ kvCall["q1"].key = "k1"

\* One process whose saves reach the host; two, whose saves may fall back to the file.
FileStart ==
  /\ FileInit
  /\ IF subject = "config file" THEN OneProcessOnly /\ fileCall["q1"].by = "p1"
                                     /\ fileCall["q1"].key = "k1" /\ fileCall["q1"].value = 1
     ELSE /\ ~OneProcessOnly /\ fileCall["q3"].op = "load" /\ fileCall["q3"].by = "p2"
          /\ \A c \in FileCalls : fileCall[c].key = "k1" /\ fileCall["q3"].value = 1

\* The tasks and the ids of conversations are alike: one start of each kind will do.
Order == [new |-> 1, switch |-> 2, delete |-> 3, delete_all |-> 4, curr |-> 5, update |-> 6]
ConvStart ==
  /\ exists \in {{}, {"c1"}, {"c1", "c2"}} /\ ConvInit
  /\ Order[task["t1"].method] <= Order[task["t2"].method]
  /\ task["t1"].method = task["t2"].method /\ task["t2"].arg = NoCid => task["t1"].arg = NoCid

\* Two archives of directories, or one of any kind; the larger comes with the first call.
SkillsStart ==
  /\ SkillInit /\ Cardinality(install["i2"].folders) <= Cardinality(install["i1"].folders)
  /\ \/ \A i \in Installs : install[i].others = {} /\ install[i].hint = NoHint /\ "?" \notin install[i].folders
     \/ install["i2"].folders = {} /\ install["i2"].others = {} /\ install["i2"].hint = NoHint

\* The two switches are alike; of two that can be made one is to the other provider and one
\* back, and the look-up is of what they switch.
ProvidersStart ==
  LET MayBeMade(s) == providerCalls[s].cap = "chat_completion" /\ providerCalls[s].prov # "deleted"
  IN  /\ ProvidersInit
      /\ MayBeMade("s2") => /\ providerCalls["s1"].prov = "p2" /\ providerCalls["s2"].prov = "p1"
                            /\ providerCalls["s1"].cap = "chat_completion"
                            /\ providerCalls["l1"].cap = "chat_completion"
      /\ ~MayBeMade("s1") => ~MayBeMade("s2")

OwnInit ==
  /\ IF subject = "channel" THEN ChannelInit ELSE ChannelRests
  /\ ConfigInit
  /\ IF subject = "conversations" THEN ConvStart ELSE ConvRests
  /\ IF subject = "profiles" THEN ProfilesInit ELSE ProfilesRest
  /\ IF subject = "skills" THEN SkillsStart ELSE SkillsRest
  /\ IF subject = "providers" THEN ProvidersStart ELSE ProvidersRest
  /\ IF subject = "platforms" THEN PlatformsInit ELSE PlatformsRest
  /\ PrefInit /\ HistoryInit
  /\ IF subject = "kv" THEN KvStart ELSE KvRest
  /\ IF subject \in {"config file", "config fallback"} THEN FileStart ELSE FileRest
  /\ IF subject = "config check" THEN ConfInit ELSE ConfRest
  /\ DepsInit
  /\ IF subject = "import" THEN ImportStart ELSE ImportRests

SlotInit ==
  \/ /\ subject \in {"channel", "config", "conversations", "profiles", "skills", "providers", "platforms",
                     "history", "preferences", "kv", "config file", "config fallback", "config check", "deps", "import"}
     /\ NoSlots
  \/ subject = "media" /\ Media!MediaInit /\ Unused5
  \/ subject = "media pair" /\ MediaPair!MediaInit /\ Unused5
  \/ subject = "requirements" /\ Needs!RequirementsInit
  \/ subject = "archive" /\ Archive!ArchiveInit

Init == SlotInit /\ OwnInit

Convert      == subject = "media" /\ Media!MediaNext /\ Keep5 /\ UNCHANGED subject
ConvertBoth  == subject = "media pair" /\ MediaPair!MediaNext /\ Keep5 /\ UNCHANGED subject
PlanInstall  == subject = "requirements" /\ Needs!RequirementsNext /\ UNCHANGED subject
Inspect      == subject = "archive" /\ Archive!ArchiveNext /\ UNCHANGED subject

SlotNext == Convert \/ ConvertBoth \/ PlanInstall \/ Inspect

hostVars == <<channelVars, configVars, convVars, profileVars>>
keptVars == <<skillVars, providerVars, platformVars, historyVars>>
codeVars == <<depsVars, importVars>>

\* The channel: callers that are orderly or not, one call each, of which t1's is of any kind,
\* and a host that restarts.  Of two calls of one kind t1's is the first.
Bridge       == subject = "channel" /\ ChannelNext
                  /\ kind'["t2"] = "rpc" /\ (calls'["t1"] # calls["t1"] /\ kind'["t1"] = "rpc" => calls["t2"] = 0)
                  /\ UNCHANGED <<configVars, convVars, profileVars>>
Setting      == subject = "config" /\ ConfigNext /\ UNCHANGED <<channelVars, convVars, profileVars>>
Conversation == subject = "conversations" /\ ConvNext /\ UNCHANGED <<channelVars, configVars, profileVars>>
Profile      == subject = "profiles" /\ ProfilesNext /\ UNCHANGED <<channelVars, configVars, convVars>>
OfHost       == (Bridge \/ Setting \/ Conversation \/ Profile) /\ UNCHANGED <<keptVars, storeVars, codeVars>>

Skill        == subject = "skills" /\ SkillNext /\ UNCHANGED <<providerVars, platformVars, historyVars>>
Provider     == subject = "providers" /\ ProvidersNext /\ UNCHANGED <<skillVars, platformVars, historyVars>>
Platform     == subject = "platforms" /\ PlatformsNext /\ UNCHANGED <<skillVars, providerVars, historyVars>>
\* One manager: with two, the one overwrites what the other has stored.
Message      == subject = "history" /\ HistoryNext /\ UNCHANGED <<skillVars, providerVars, platformVars>>
OfManagers   == (Skill \/ Provider \/ Platform \/ Message) /\ UNCHANGED <<hostVars, storeVars, codeVars>>

\* The process that no call of "config file" is of does not die.
Preference   == subject = "preferences" /\ PrefNext /\ UNCHANGED <<kvVars, fileVars, confVars>>
PluginStore  == subject = "kv" /\ KvNext /\ UNCHANGED <<prefVars, fileVars, confVars>>
PutItem      == subject = "config file" /\ FileNext /\ "p2" \in alive' /\ UNCHANGED <<prefVars, kvVars, confVars>>
PutOrFall    == subject = "config fallback" /\ FileNext /\ UNCHANGED <<prefVars, kvVars, confVars>>
Agree        == subject = "config check" /\ ConfNext /\ UNCHANGED <<prefVars, kvVars, fileVars>>
OfStores     == (Preference \/ PluginStore \/ PutItem \/ PutOrFall \/ Agree) /\ UNCHANGED <<hostVars, keptVars, codeVars>>

ImportLazily == subject = "deps" /\ DepsNext /\ UNCHANGED importVars
\* Of two loads of one plugin t1 is the first.
LoadPlugin   == subject = "import" /\ ImportNext /\ UNCHANGED depsVars
                  /\ (load["t1"].of = load["t2"].of /\ load["t1"].at = "start" => load'["t2"].at = "start")
OfCode       == (ImportLazily \/ LoadPlugin) /\ UNCHANGED <<hostVars, keptVars, storeVars>>

OwnNext == OfHost \/ OfManagers \/ OfStores \/ OfCode

Next == (SlotNext /\ UNCHANGED own) \/ (OwnNext /\ UNCHANGED <<subject, slots>>)

Spec == Init /\ [][Next]_vars

-----------------------------------------------------------------------------
\* What is named and written is read as it is meant: nothing that a conversion makes is left
\* behind or half written and what it returns is what was asked for, of what the reference
\* names, unless a download was cut off; a plan of requirements is enough and no more; an archive is a plugin if what it
\* unpacks to is one; a configuration is brought to its schema and what a user has set is
\* kept (media_utils.py, io.py, requirements_utils.py, updater.py, astrbot_config.py).
ReadAsMeant ==
  /\ subject = "media" =>
       /\ Media!NothingLeft /\ Media!FilesAreWhole /\ Media!ConvertedAsAsked /\ Media!ReadsWhatIsMeant
  /\ subject = "media pair" =>
       /\ MediaPair!NothingLeft /\ MediaPair!FilesAreWhole
       /\ MediaPair!ConvertedAsAsked /\ MediaPair!ReadsWhatIsMeant
  /\ subject = "requirements" => Needs!PlanIsEnough /\ Needs!AnswersAgree /\ Needs!NothingToSpare
  /\ subject = "archive" => Archive!RootHoldsAll /\ Archive!ArchiveAsDirectory
  /\ subject = "config check" => SettingsStay /\ AgreesAtOnce
===============================================================================
