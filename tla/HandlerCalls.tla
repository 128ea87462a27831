---------------------------- MODULE HandlerCalls ----------------------------
(* The handler registry of a plugin (core/star/star_handler.py), the decorators *)
(* that fill it (core/star/register/star_handler.py), the tables that Register  *)
(* copies from it, and the answers of the RPCs that use both                    *)
(* (_bridge/dispatch.py).  The plugin's own thread imports the module and later *)
(* builds the Star; every RPC runs on a worker of its own.  The registry has no *)
(* lock: a list that is being sorted is empty to everybody else, and what is    *)
(* appended to it meanwhile is lost.                                            *)
EXTENDS Naturals

CONSTANTS Commands, Filters, Hooks,  \* the plugin's handlers, by what they are
          Tools,                     \* its LLM tools
          Virtuals,                  \* handlers made of other plugins' commands
          Plugin, Workers,           \* the plugin's thread, and the RPC threads, none of which it is
          MaxCalls                   \* bound on the RPCs

Handlers == Commands \cup Filters \cup Hooks
Threads == Workers \cup {Plugin}
None == "none"

(* A name is that of one thing, and no handler is called like a step.           *)
ASSUME NamesAssumption ==
  /\ Commands \cap Filters = {} /\ Commands \cap Hooks = {} /\ Filters \cap Hooks = {}
  /\ Handlers \cap Tools = {}
  /\ Virtuals \cap (Handlers \cup Tools) = {}
  /\ Handlers \cap {"idle", "sorting"} = {}

ASSUME ThreadsAssumption == Plugin \notin Workers /\ MaxCalls \in Nat

VARIABLES
  stage,      \* how far the plugin is: importing, ready, registered, running,
              \* or shut: registered again
  mapped,     \* star_handlers_map
  listed,     \* _handlers
  tools,      \* llm_tools: the tools that are there and active
  commands, filters, hooks, copied,   \* the servicer's tables; copied: its tools
  reported,   \* what Register and ListTools told the host
  pc,         \* thread -> the next step of what it does
  sorting,    \* thread -> the items it took out of the list to sort them, and whether
              \* that list is still _handlers
  keep,       \* worker -> the handlers inject_host_commands keeps
  call,       \* worker -> the request it serves
  reply,     \* what the last call was answered
  regime,     \* orderly: the plugin registers handlers when imported, the host registers
              \* the plugin once; late, again: the one or the other is not so
  calls       \* RPCs so far
handlersVars == << stage, mapped, listed, tools, commands, filters, hooks, copied, reported,
           pc, sorting, keep, call, reply, regime, calls >>
listing == << mapped, listed >>
tables == << commands, filters, hooks, copied, reported >>

Replies == {None, "skipped", "absent", "refused", "allowed", "denied"}
NoSort == [live |-> FALSE, taken |-> {}]
NoCall == [kind |-> None, name |-> None]

(* The type invariant. *)
HandlersTypeOK ==
  /\ stage \in {"importing", "ready", "registered", "running", "shut"}
  /\ mapped \subseteq Handlers \cup Virtuals
  /\ listed \subseteq Handlers \cup Virtuals
  /\ tools \subseteq Tools /\ copied \subseteq Tools
  /\ commands \subseteq Commands \cup Virtuals
  /\ filters \subseteq Filters /\ hooks \subseteq Hooks
  /\ reply \in Replies

HandlersInit ==
  /\ stage = "importing" /\ mapped = {} /\ listed = {} /\ tools = {}
  /\ commands = {} /\ filters = {} /\ hooks = {} /\ copied = {} /\ reported = {}
  /\ pc = [t \in Threads |-> "idle"]
  /\ sorting = [t \in Threads |-> NoSort]
  /\ keep = [w \in Workers |-> {}]
  /\ call = [w \in Workers |-> NoCall]
  /\ reply = None
  /\ regime \in {"orderly", "late", "again"}
  /\ calls = 0

Moves(t, step) == pc' = [pc EXCEPT ![t] = step]

-----------------------------------------------------------------------------
(* The registry.  list.sort() takes the items out of the list and puts them     *)
(* back sorted; the key is Python code, so other threads run in between, and    *)
(* what they append is overwritten (the sorting thread gets a ValueError).      *)

EndSort(t) ==
  /\ listed' = IF sorting[t].live THEN sorting[t].taken ELSE listed
  /\ sorting' = [sorting EXCEPT ![t] = NoSort]

(* A decorator: get_handler_or_create finds the function's metadata by its full *)
(* name, or makes one and begins to append it.                                  *)
Decorate(h) ==
  /\ pc[Plugin] = "idle"
  /\ regime # "late" => stage = "importing"
  /\ h \notin mapped
  /\ mapped' = mapped \cup {h}
  /\ Moves(Plugin, h)
  /\ UNCHANGED << stage, listed, tools, tables, sorting, keep, call, reply, regime, calls >>

(* The decorators, by what becomes of the handler: commands and command groups,  *)
(* filters, and the hooks of every event.                                        *)
RegisterCommand == \E h \in Commands : Decorate(h)
RegisterFilter == \E h \in Filters : Decorate(h)
RegisterHook == \E h \in Hooks : Decorate(h)

(* StarHandlerRegistry.append: the map first, then the list, which it sorts.     *)
Enlist ==
  /\ pc[Plugin] \in Handlers
  /\ sorting' = [sorting EXCEPT ![Plugin] = [live |-> TRUE, taken |-> listed \cup {pc[Plugin]}]]
  /\ listed' = {}
  /\ Moves(Plugin, "sorting")
  /\ UNCHANGED << stage, mapped, tools, tables, keep, call, reply, regime, calls >>

Sorted ==
  /\ pc[Plugin] = "sorting"
  /\ EndSort(Plugin)
  /\ Moves(Plugin, "idle")
  /\ UNCHANGED << stage, mapped, tools, tables, keep, call, reply, regime, calls >>

(* Context.add_llm_tools and register_llm_tool put a tool in the live table.      *)
AddTool(t) ==
  /\ pc[Plugin] = "idle" /\ t \notin tools
  /\ tools' = tools \cup {t}
  /\ UNCHANGED << stage, listing, tables, pc, sorting, keep, call, reply, regime, calls >>

Imported ==
  /\ stage = "importing" /\ pc[Plugin] = "idle"
  /\ stage' = "ready"
  /\ UNCHANGED << listing, tools, tables, pc, sorting, keep, call, reply, regime, calls >>

Instantiated ==
  /\ stage = "registered" /\ pc[Plugin] = "idle"
  /\ stage' = "running"
  /\ UNCHANGED << listing, tools, tables, pc, sorting, keep, call, reply, regime, calls >>

-----------------------------------------------------------------------------
(* Register. *)

BeginRegister(w) ==
  /\ pc[w] = "idle" /\ calls < MaxCalls
  /\ regime # "again" => reported = {} /\ \A v \in Workers : call[v].kind # "Register"
  /\ call' = [call EXCEPT ![w] = [kind |-> "Register", name |-> None]]
  /\ reply' = None
  /\ calls' = calls + 1
  /\ Moves(w, "waiting")
  /\ UNCHANGED << stage, listing, tools, tables, sorting, keep, regime >>

(* build_registry skips the virtual handlers. *)
Own == listed \ Virtuals

(* Register waits for the import, or 120 s, and copies what is listed.  Nothing  *)
(* is ever taken out of the tables.                                              *)
BuildRegistry(w) ==
  /\ pc[w] = "waiting"
  /\ stage # "importing" \/ regime = "late"
  /\ commands' = commands \cup (Own \cap (Commands \cup Virtuals))
  /\ filters' = filters \cup (Own \cap Filters)
  /\ hooks' = hooks \cup (Own \cap Hooks)
  /\ copied' = copied \cup tools
  /\ \/ Moves(w, "asking") /\ call' = call
     \/ Moves(w, "idle") /\ call' = [call EXCEPT ![w] = NoCall]   \* protocol mismatch
  /\ UNCHANGED << stage, listing, tools, reported, sorting, keep, reply, regime, calls >>

(* _inject_host_commands: the host answers with its plugins' commands or fails.  *)
AskHost(w) ==
  /\ pc[w] = "asking"
  /\ \/ keep' = [keep EXCEPT ![w] = listed \ Virtuals] /\ Moves(w, "replacing")
     \/ keep' = keep /\ Moves(w, "telling")
  /\ UNCHANGED << stage, listing, tools, tables, sorting, call, reply, regime, calls >>

(* replace_all makes a new list, sorts it, and makes the map from it. *)
ReplaceList(w) ==
  /\ pc[w] = "replacing"
  /\ listed' = {}
  /\ sorting' = [t \in Threads |->
                   IF t = w THEN [live |-> TRUE, taken |-> keep[w] \cup Virtuals]
                            ELSE [live |-> FALSE, taken |-> sorting[t].taken]]
  /\ keep' = [keep EXCEPT ![w] = {}]
  /\ Moves(w, "sorting")
  /\ UNCHANGED << stage, mapped, tools, tables, call, reply, regime, calls >>

SortList(w) ==
  /\ pc[w] = "sorting"
  /\ EndSort(w)
  /\ Moves(w, "mapping")
  /\ UNCHANGED << stage, mapped, tools, tables, keep, call, reply, regime, calls >>

(* Somebody changed the list meanwhile: the sort raises, and Register with it.   *)
SortFails(w) ==
  /\ pc[w] = "sorting"
  /\ listed # {} \/ \E t \in Threads \ {w} : sorting[t].live
  /\ EndSort(w)
  /\ call' = [call EXCEPT ![w] = NoCall]
  /\ Moves(w, "idle")
  /\ UNCHANGED << stage, mapped, tools, tables, keep, reply, regime, calls >>

(* mutant: the map is made of the virtual handlers alone *)
ReplaceMapVirtual(w) ==
  /\ pc[w] = "mapping"
  /\ mapped' = Virtuals
  /\ Moves(w, "telling")
  /\ UNCHANGED << stage, listed, tools, tables, sorting, keep, call, reply, regime, calls >>

ReplaceMap(w) ==
  /\ pc[w] = "mapping"
  /\ mapped' = listed
  /\ Moves(w, "telling")
  /\ UNCHANGED << stage, listed, tools, tables, sorting, keep, call, reply, regime, calls >>

(* The answer names the servicer's tables and the live tools; mark_registered.   *)
(* A Register that did not wait for the import is overwritten by mark_ready; one  *)
(* that comes when the plugin runs shuts the gate for good.                       *)
TellHost(w) ==
  /\ pc[w] = "telling"
  /\ reported' = reported \cup commands \cup filters \cup hooks \cup tools
  /\ stage' = CASE stage = "importing" -> "importing"
                [] stage \in {"running", "shut"} -> "shut"
                [] OTHER -> "registered"
  /\ call' = [call EXCEPT ![w] = NoCall]
  /\ Moves(w, "idle")
  /\ UNCHANGED << listing, tools, commands, filters, hooks, copied, sorting, keep, reply,
                  regime, calls >>

(* ListTools: the live table. *)
ListTools(w) ==
  /\ pc[w] = "idle" /\ ~(tools \subseteq reported)
  /\ reported' = reported \cup tools
  /\ UNCHANGED << stage, listing, tools, commands, filters, hooks, copied, pc, sorting,
                  keep, call, reply, regime, calls >>

-----------------------------------------------------------------------------
(* The calls of handlers. *)

CallKinds == {"Command", "Filter", "Hook", "Tool"}
Named(kind) == CASE kind = "Command" -> Commands \cup Virtuals
                 [] kind = "Filter" -> Filters
                 [] kind = "Hook" -> Hooks
                 [] kind = "Tool" -> Tools

Answer(w, how) ==
  /\ reply' = how
  /\ call' = [call EXCEPT ![w] = NoCall]
  /\ Moves(w, "idle")
Leave == UNCHANGED << stage, listing, tools, tables, sorting, keep, regime, calls >>

Call(w, kind, name) ==
  /\ pc[w] = "idle" /\ calls < MaxCalls
  /\ name \in Named(kind) /\ name \in reported
  /\ call' = [call EXCEPT ![w] = [kind |-> kind, name |-> name]]
  /\ reply' = None
  /\ calls' = calls + 1
  /\ Moves(w, "gate")
  /\ UNCHANGED << stage, listing, tools, tables, sorting, keep, regime >>

(* The gate's 15 s pass: a filter allows the event, everything else is skipped.  *)
Unready(w) ==
  /\ pc[w] = "gate" /\ stage # "running"
  /\ Answer(w, "skipped") /\ Leave

(* mutant: the tools of the constructor are not looked for *)
FoundCopied(kind) == CASE kind = "Command" -> commands [] kind = "Filter" -> filters
                       [] kind = "Hook" -> hooks [] kind = "Tool" -> copied
(* The copied tables, and for tools the live one too. *)
Found(kind) == CASE kind = "Command" -> commands [] kind = "Filter" -> filters
                 [] kind = "Hook" -> hooks [] kind = "Tool" -> copied \cup tools

Find(w) ==
  /\ pc[w] = "gate" /\ stage = "running" /\ call[w].name \in Found(call[w].kind)
  /\ Moves(w, IF call[w].kind = "Filter" THEN "checking" ELSE "running")
  /\ UNCHANGED << call, reply >> /\ Leave

(* Not in the table: a filter refuses the event, everything else does nothing.   *)
Absent(w) ==
  /\ pc[w] = "gate" /\ stage = "running" /\ call[w].name \notin Found(call[w].kind)
  /\ Answer(w, "absent") /\ Leave

(* HandleFilter looks the metadata up again, in the live map: without it, or     *)
(* when a filter of the handler raises, the event is refused; when one does not  *)
(* match, it is allowed.                                                         *)
Check(w) ==
  /\ pc[w] = "checking" /\ call[w].name \in mapped
  /\ \/ Moves(w, "running") /\ UNCHANGED << call, reply >>
     \/ Answer(w, "allowed")
     \/ Answer(w, "denied")
  /\ Leave

NoMetadata(w) ==
  /\ pc[w] = "checking" /\ call[w].name \notin mapped
  /\ Answer(w, "refused") /\ Leave

(* The handler returned, possibly False, or raised, which leaves the event        *)
(* allowed.                                                                      *)
Returned(w) ==
  /\ pc[w] = "running"
  /\ \/ Answer(w, "allowed")
     \/ call[w].kind = "Filter" /\ Answer(w, "denied")
  /\ Leave

HandlersNext ==
  \/ RegisterCommand \/ RegisterFilter \/ RegisterHook
  \/ \E t \in Tools : AddTool(t)
  \/ Enlist \/ Sorted \/ Imported \/ Instantiated
  \/ \E w \in Workers :
       \/ BeginRegister(w) \/ BuildRegistry(w) \/ AskHost(w) \/ ReplaceList(w)
       \/ SortList(w) \/ SortFails(w) \/ ReplaceMap(w) \/ TellHost(w) \/ ListTools(w)
       \/ \E kind \in CallKinds, name \in Handlers \cup Virtuals \cup Tools : Call(w, kind, name)
       \/ Unready(w) \/ Find(w) \/ Absent(w) \/ Check(w) \/ NoMetadata(w)
       \/ Returned(w)

HandlersSpec == HandlersInit /\ [][HandlersNext]_handlersVars

-----------------------------------------------------------------------------
(* For an orderly plugin, what the host was told of can be called: no reported   *)
(* handler or tool is missing from the tables when its call comes, and no filter *)
(* is refused for want of metadata (HandleFilter's fail-closed answers).         *)
ReportedIsServed ==
  regime = "orderly" => reply \notin {"absent", "refused"}

(* Whatever is registered when, and however often the host registers the plugin, *)
(* no call reaches a command of another plugin (is_virtual_handler).             *)
VirtualIsNotServed ==
  \A w \in Workers : pc[w] = "running" => call[w].name \notin Virtuals

(* A handler or tool the host was told of is found when its call comes, and a    *)
(* handler of another plugin never runs here (dispatch.py).                      *)
CallsReachTheirHandler == ReportedIsServed /\ VirtualIsNotServed

(* Nothing an orderly plugin registered leaves the registry, the replacement of  *)
(* the whole registry by inject_host_commands included.                          *)
NothingIsLost == [][regime = "orderly" => mapped \subseteq mapped']_handlersVars
=============================================================================
