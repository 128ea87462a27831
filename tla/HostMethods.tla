---------------------------- MODULE HostMethods -----------------------------
(***************************************************************************)
(* The RPCs a plugin calls through HostBridge (_bridge/host.py) and the    *)
(* managers built on them.  A method of the bridge turns every failure     *)
(* into a value of the type it promises: an empty list, None, FALSE.  The  *)
(* managers make lists, exceptions and second calls of these values.       *)
(*                                                                         *)
(* A call takes one or two RPCs; the host changes in between.  What the    *)
(* host keeps of one kind, plugins, knowledge bases, skills, personas or   *)
(* tools, is the set of names it lists.                                    *)
(***************************************************************************)
EXTENDS Naturals, Sequences, SequencesExt

CONSTANTS Things     \* names of what the host keeps

\* What becomes of an RPC: it is not sent, the host does not have it, it fails,
\* the answer is lost on its way back, or it comes.
Outcomes == {"unconnected", "unimplemented", "fails", "lost", "ok"}

VARIABLES
  kept,      \* what the host lists
  ask,       \* the call: its method, its argument and where it is
  first,     \* what the first RPC came to
  result,    \* what the plugin gets
  done       \* the host has done what the call is for

methodVars == <<kept, ask, first, result, done>>

Garbage == "garbage"        \* an item json cannot parse
Other   == "other"          \* one that is no dict
Nothing == "nothing"        \* None, "" and {}
Raised  == "raised"
Returned == "returned"

\* mutant: whatever parses is taken.
Parsed(items) == SelectSeq(items, LAMBDA i : i # Garbage)
Dicts(items) == SelectSeq(items, LAMBDA i : i \notin {Garbage, Other})
Broken(items) == Garbage \in ToSet(items)

-----------------------------------------------------------------------------
(* The methods of the bridge, by how they fail.                             *)
AllOrNothing(o, items) == IF o # "ok" \/ Broken(items) THEN <<>> ELSE Dicts(items)
ItemByItem(o, items)   == IF o # "ok" THEN <<>> ELSE Dicts(items)
\* The items are parsed outside the try.
Unguarded(o, items)    == IF o = "ok" /\ Broken(items) THEN <<Raised>> ELSE ItemByItem(o, items)
Object(o, item)        == IF o = "ok" /\ item \notin {Garbage, Other} THEN item ELSE Nothing
Flag(o)                == o = "ok"

GetPersonas(o, items)            == AllOrNothing(o, items)
GetPersonaTree(o, items)         == AllOrNothing(o, items)
ListProviders(o, items)          == AllOrNothing(o, items)
GetPluginRegistry(o, items)      == AllOrNothing(o, items)
ListPlatforms(o, items)          == Unguarded(o, items)
ListSkills(o, items)             == Unguarded(o, items)
ListSkillsV2(o, items)           == ItemByItem(o, items)
KbListKbs(o, items)              == ItemByItem(o, items)
McpListTools(o, items)           == ItemByItem(o, items)
GetMessageHistory(o, items)      == Unguarded(o, items)
ListCommandDescriptors(o, items) == AllOrNothing(o, items)

GetDefaultPersona(o, item)      == Object(o, item)
GetUsingProvider(o, item)       == Object(o, item)
GetStar(o, item)                == Object(o, item)
ResolveSelectedPersona(o, item) == IF o = "ok" THEN item ELSE Nothing
KbRetrieve(o, item)             == IF o = "ok" THEN item ELSE Nothing
RegisterFileToken(o, item)      == IF o = "ok" THEN item ELSE Nothing
McpCallTool(o, item)            == IF o = "ok" THEN item ELSE "error"
InsertMessageHistory(o, item)   == IF o = "ok" /\ item = Garbage THEN Raised ELSE Object(o, item)

SetPluginEnabled(o)     == Flag(o)
InstallPlugin(o)        == Flag(o)
UninstallPlugin(o)      == Flag(o)
UpdateMessageHistory(o) == Flag(o)
DeleteMessageHistory(o) == Flag(o)
RegisterBridgeHook(o)   == Flag(o)
UnregisterBridgeHook(o) == Flag(o)

-----------------------------------------------------------------------------
Readers  == {"stars", "kbs", "skills", "personas", "folders", "tools", "platforms", "providers", "commands"}
Finders  == {"get_kb", "get_persona", "register_file", "default_persona"}
Objects  == {"using_provider", "resolve_persona", "mcp_call"}
Changers == {"turn_plugin", "install", "uninstall", "update"}
Quiet    == {"set_skill_active", "delete_skill", "upload"}
Flags    == {"update_history", "delete_history", "register_hook", "unregister_hook"}

MethodsInit ==
  /\ kept \in SUBSET Things
  /\ \E m \in Readers \union Finders \union Objects \union Changers \union Quiet \union Flags
           \union {"retrieve", "history", "insert_history"}, t \in Things :
       ask = [method |-> m, of |-> t, at |-> "new"]
  /\ first = "none" /\ result = <<>> /\ done = FALSE

\* The host lists what it keeps, and items of a newer version among it.
Listings == {SetToSeq(kept), <<Other>> \o SetToSeq(kept), SetToSeq(kept) \o <<Garbage>>}

Ends(r) == ask' = [ask EXCEPT !.at = "end"] /\ result' = r

Answers(r) == Ends(r) /\ UNCHANGED <<kept, first, done>>

\* The items of a list, which the manager goes through again.
Listed(method, o, items) ==
  CASE method = "stars"     -> GetPluginRegistry(o, items)
    [] method = "kbs"       -> KbListKbs(o, items)
    [] method = "personas"  -> GetPersonas(o, items)
    [] method = "folders"   -> GetPersonaTree(o, items)
    [] method = "tools"     -> McpListTools(o, items)
    [] method = "providers" -> ListProviders(o, items)
    [] method = "commands"  -> ListCommandDescriptors(o, items)
    [] method = "platforms" -> ListPlatforms(o, items)

\* get_all_stars, list_kbs, personas, list_host_mcp_tools, _list_providers,
\* _refresh: what the bridge raises after all is caught, and the list is empty.
Read(o, items) ==
  /\ ask.method \in Readers \ {"skills"} /\ ask.at = "new"
  /\ Answers(LET got == Listed(ask.method, o, items) IN IF got = <<Raised>> THEN <<>> ELSE Dicts(got))

\* SkillManager.list_skills: a list without items is an answer; only an
\* exception would send it to the older RPC.
ReadSkills(o, items) ==
  /\ ask.method = "skills" /\ ask.at = "new"
  /\ Answers(Dicts(ListSkillsV2(o, items)))

\* get_kb, get_kb_by_name.
FindKb(o, items) ==
  /\ ask.method = "get_kb" /\ ask.at = "new"
  /\ Answers(IF ask.of \in ToSet(KbListKbs(o, items)) THEN ask.of ELSE Nothing)

\* PersonaManager.get_persona: no such persona is a ValueError.
FindPersona(o, items) ==
  /\ ask.method = "get_persona" /\ ask.at = "new"
  /\ Answers(IF ask.of \in ToSet(GetPersonas(o, items)) THEN ask.of ELSE Raised)

\* get_default_persona_v3: without an answer the persona named default.
DefaultPersona(o, item) ==
  /\ ask.method = "default_persona" /\ ask.at = "new"
  /\ Answers(IF GetDefaultPersona(o, item) = Nothing THEN "default" ELSE item)

\* What a plugin asks of the bridge itself.
FindDirectly(o, item) ==
  /\ ask.method \in Objects /\ ask.at = "new"
  /\ Answers(CASE ask.method = "using_provider"  -> GetUsingProvider(o, item)
               [] ask.method = "resolve_persona" -> ResolveSelectedPersona(o, item)
               [] ask.method = "mcp_call"        -> McpCallTool(o, item))

ReadHistory(o, items) ==
  /\ ask.method = "history" /\ ask.at = "new"
  /\ Answers(GetMessageHistory(o, items))

\* FileTokenService.register_file.
RegisterFile(o) ==
  /\ ask.method = "register_file" /\ ask.at = "new"
  /\ Answers(RegisterFileToken(o, ask.of))

-----------------------------------------------------------------------------
\* An RPC that changes the host: it is done when the answer comes or is lost.
Changes(o, changed) ==
  /\ kept' = IF o \in {"ok", "lost"} THEN changed ELSE kept
  /\ done' = (o \in {"ok", "lost"})

Look(o) ==
  /\ ask.method = "turn_plugin" /\ ask.at = "new"
  /\ LET star == GetStar(o, IF ask.of \in kept THEN ask.of ELSE Garbage)
     IN  IF star = Nothing THEN Ends(Raised) /\ UNCHANGED first
         ELSE ask' = [ask EXCEPT !.at = "second"] /\ first' = o /\ UNCHANGED result
  /\ UNCHANGED <<kept, done>>

\* turn_on_plugin, turn_off_plugin: the host refuses a plugin that is gone.
Turn(o) ==
  /\ ask.method = "turn_plugin" /\ ask.at = "second"
  /\ LET to == IF ask.of \in kept THEN o ELSE "fails"
     IN  Changes(to, kept) /\ Ends(IF SetPluginEnabled(to) THEN Returned ELSE Raised)
  /\ UNCHANGED first

\* install_plugin, and update_plugin, which installs what may be there.
Install(o) ==
  /\ ask.method \in {"install", "update"} /\ ask.at = "new"
  /\ Changes(o, kept \union {ask.of})
  /\ Ends(IF InstallPlugin(o) THEN Returned ELSE Raised)
  /\ UNCHANGED first

Uninstall(o) ==
  /\ ask.method = "uninstall" /\ ask.at = "new"
  /\ Changes(o, kept \ {ask.of})
  /\ Ends(IF UninstallPlugin(o) THEN Returned ELSE Raised)
  /\ UNCHANGED first

\* set_skill_active, delete_skill, upload_from_url: what came of it is logged.
ChangeQuietly(o) ==
  /\ ask.method \in Quiet /\ ask.at = "new"
  /\ Changes(o, kept)
  /\ Ends(Returned) /\ UNCHANGED first

\* What a plugin changes by the bridge itself.
ChangeDirectly(o) ==
  /\ ask.method \in Flags /\ ask.at = "new"
  /\ Changes(o, kept)
  /\ LET flag == CASE ask.method = "update_history"  -> UpdateMessageHistory(o)
                   [] ask.method = "delete_history"  -> DeleteMessageHistory(o)
                   [] ask.method = "register_hook"   -> RegisterBridgeHook(o)
                   [] ask.method = "unregister_hook" -> UnregisterBridgeHook(o)
     IN  Ends(IF flag THEN Returned ELSE Nothing)
  /\ UNCHANGED first

\* The record comes back, or parsing it raises outside the try.
InsertHistory(o, item) ==
  /\ ask.method = "insert_history" /\ ask.at = "new"
  /\ Changes(o, kept)
  /\ Ends(InsertMessageHistory(o, item)) /\ UNCHANGED first

-----------------------------------------------------------------------------
\* KnowledgeBaseManager.retrieve asks which of the names there are.
Available(o, items) ==
  /\ ask.method = "retrieve" /\ ask.at = "new"
  /\ first' = o
  /\ IF ask.of \in ToSet(KbListKbs(o, items))
     THEN ask' = [ask EXCEPT !.at = "second"] /\ UNCHANGED result
     ELSE Ends(Raised)
  /\ UNCHANGED <<kept, done>>

\* A knowledge base deleted since finds nothing, and so does a failure.
Retrieve(o) ==
  /\ ask.method = "retrieve" /\ ask.at = "second"
  /\ Answers(KbRetrieve(o, IF ask.of \in kept THEN ask.of ELSE Nothing))

\* Other plugins and the dashboard change what the host keeps.
HostChanges == kept' \in SUBSET Things /\ ask.at # "end" /\ UNCHANGED <<ask, first, result, done>>

MethodsNext ==
  \/ HostChanges
  \/ \E o \in Outcomes :
       \/ RegisterFile(o) \/ Look(o) \/ Turn(o) \/ Install(o) \/ Uninstall(o) \/ ChangeQuietly(o) \/ Retrieve(o)
       \/ ChangeDirectly(o)
       \/ \E item \in Things \union {Garbage, Other} :
            DefaultPersona(o, item) \/ FindDirectly(o, item) \/ InsertHistory(o, item)
       \/ \E items \in Listings :
            ReadHistory(o, items) \/ Read(o, items) \/ ReadSkills(o, items) \/ FindKb(o, items) \/ FindPersona(o, items) \/ Available(o, items)

-----------------------------------------------------------------------------
(* Whatever the host sends or fails to send, a list a plugin goes through   *)
(* is a list and has only items of the form it reads, and what is found is  *)
(* something the plugin asked for.                                          *)
ReadsAreTotal ==
  ask.at = "end" =>
    /\ ask.method \in Readers => ToSet(result) \subseteq Things
    /\ ask.method \in {"get_kb", "get_persona", "register_file"} => result \in {ask.of, Nothing, Raised}
    /\ ask.method = "default_persona" => result \in Things \union {"default"}

(* A change of the host that returns without an exception, or TRUE, has     *)
(* been made, though the plugin may have gone between the two RPCs.         *)
ReturnedIsDone == ask.at = "end" /\ ask.method \in Changers \union Flags /\ result = Returned => done

(* The docstring of retrieve: without a host, or with one that lacks the    *)
(* RPC, it answers None and raises nothing (kb_mgr.py, line 226), and a     *)
(* check that fails takes every name for available (234-235).  The bridge   *)
(* has made an empty list of the failure, and every name is unknown.        *)
RetrieveDegrades ==
  ask.at = "end" /\ ask.method = "retrieve" /\ result = Raised => first = "ok"

(* The docstring of list_skills: a host without the newer RPC is asked by   *)
(* the older one.  It is not, since the bridge has caught the failure.      *)
OldHostIsAsked ==
  [][\A o \in {"unimplemented"} : ReadSkills(o, SetToSeq(kept)) => ToSet(result') = kept]_methodVars
=============================================================================
