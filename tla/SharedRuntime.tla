---------------------------- MODULE SharedRuntime ----------------------------
(***************************************************************************)
(* The shared plugin runtime (astrbot/_runtime/host.py, dispatcher.py,     *)
(* registry.py, context.py): one process that serves many plugins.         *)
(*                                                                         *)
(* Each plugin id maps to a PluginSession (registry) and to a servicer     *)
(* (servicers), two dictionaries written one after the other.  gRPC worker *)
(* threads run the RPCs: ManagePlugin(load / unload), Register and the     *)
(* handler RPCs (commands, filters, hooks, tools).  Register spawns a      *)
(* thread that builds the plugin's Star instance and opens the gate the    *)
(* handler RPCs wait at.  The main thread loads the plugins named by the   *)
(* environment while the server already takes RPCs.                        *)
(*                                                                         *)
(* Every dictionary access, every wait and every call of plugin code is a  *)
(* step of its own.  A load call is named by a member of Loads: it names   *)
(* the session and servicer it creates, if it creates them, and the        *)
(* StarMetadata its import returns.  An instantiation thread is a member   *)
(* of Starters: it also names the Star instance it builds.                 *)
(***************************************************************************)
EXTENDS FiniteSets

CONSTANTS
  Plugins,       \* plugin ids
  Loads,         \* calls of load_plugin: sessions, servicers, metadata
  Workers,       \* gRPC worker threads
  Starters,      \* threads spawned by instantiate_async: Star instances
  Main,          \* the main thread
  NoOne,         \* Python's None
  Environment,   \* plugins of ASTRBOT_SHARED_PLUGINS
  Discipline     \* what the Go host and the plugins refrain from (see Serial)

Threads == Workers \cup Starters \cup {Main}

ASSUME Distinct ==
  /\ NoOne \notin Plugins \cup Loads \cup Workers \cup Starters \cup {Main}
  /\ Loads \cap Starters = {}
  /\ Workers \cap Starters = {}
  /\ Main \notin Workers \cup Starters

ASSUME EnvironmentAssumption == Environment \subseteq Plugins

ASSUME DisciplineAssumption == Discipline \subseteq {"serial", "once", "settled", "prompt"}

VARIABLES
  registry,      \* PluginRegistry._sessions: plugin id -> session
  servicers,     \* SharedRuntimeHost._servicers: plugin id -> servicer
  \* PluginSession objects
  instance, lifecycle,
  handlers,      \* the loads whose handlers its star_handlers_registry holds
  \* PluginServiceServicer objects
  phase, inst,
  commands,      \* the loads whose handlers build_registry collected
  \* StarMetadata and Star objects
  star,          \* star_cls of the metadata each load returned
  life,          \* the Star instances; an "overdue" one is still being constructed although
                 \* nobody waits for it, a "stray" one is what came of that
  \* threads
  pc,            \* the next step
  ctx,           \* the ContextVar: the current session
  plugin,        \* the plugin_id it works for
  session,       \* local variable session
  servicer,      \* local variable servicer
  meta,          \* the metadata: of this load call, captured by a starter
  spawn,         \* the thread its Register will spawn
  begun,         \* load calls made so far
  todo           \* plugins the main thread has still to load

maps     == <<registry, servicers>>
sessions == <<instance, lifecycle, handlers>>
gates    == <<phase, inst, commands>>
stars    == <<star, life>>
objects  == <<sessions, gates, stars>>
locals   == <<plugin, session, servicer, meta, spawn>>
inputs   == <<begun, todo>>
vars     == <<maps, objects, pc, ctx, locals, inputs>>

Lifecycles == {"LOADING", "ACTIVE", "UNLOADED", "ERROR"}
Phases     == {"CREATED", "REGISTERING", "REGISTERED", "RUNNING"}
Lives      == {"absent", "overdue", "stray", "built", "terminated"}

LoadSteps     == {"add", "addServicer", "loadSession", "loadServicer", "import", "ready"}
UnloadSteps   == {"unloadSession", "terminate", "unloaded", "remove", "pop"}
RegisterSteps == {"registerSession", "registerServicer", "waitReady", "registered",
                  "onRegistered", "answer"}
HandleSteps   == {"handleSession", "handleServicer", "waitRunning", "handler"}
FailureSteps  == {"failed", "markError"}
StarterSteps  == {"starSession", "starServicer", "construct", "initialize", "publish",
                  "adopt", "running", "active"}
Quiescent     == {"idle", "unborn", "done"}
Steps == LoadSteps \cup UnloadSteps \cup RegisterSteps \cup HandleSteps
           \cup FailureSteps \cup StarterSteps \cup Quiescent

-----------------------------------------------------------------------------
Init ==
  /\ registry  = [p \in Plugins |-> NoOne]
  /\ servicers = [p \in Plugins |-> NoOne]
  /\ instance  = [i \in Loads |-> NoOne]
  /\ lifecycle = [i \in Loads |-> "LOADING"]
  /\ handlers  = [i \in Loads |-> {}]
  /\ phase     = [i \in Loads |-> "CREATED"]
  /\ inst      = [i \in Loads |-> NoOne]
  /\ commands  = [i \in Loads |-> {}]
  /\ star      = [m \in Loads |-> NoOne]
  /\ life      = [u \in Starters |-> "absent"]
  /\ pc        = [t \in Threads |-> IF t \in Starters THEN "unborn" ELSE "idle"]
  /\ ctx       = [t \in Threads |-> NoOne]
  /\ plugin    = [t \in Threads |-> NoOne]
  /\ session   = [t \in Threads |-> NoOne]
  /\ servicer  = [t \in Threads |-> NoOne]
  /\ meta      = [t \in Threads |-> NoOne]
  /\ spawn     = [t \in Threads |-> NoOne]
  /\ begun = {}
  /\ todo  = Environment

Step(t, from, to) == pc[t] = from /\ pc' = [pc EXCEPT ![t] = to]

Enter(t, i) == ctx' = [ctx EXCEPT ![t] = i]

\* mutant: without the finally clause the ContextVar survives the RPC.
FinishLeaking(t) ==
  /\ pc' = [pc EXCEPT ![t] = IF t \in Starters THEN "done" ELSE "idle"]
  /\ UNCHANGED ctx
  /\ plugin'   = [plugin EXCEPT ![t] = NoOne]
  /\ session'  = [session EXCEPT ![t] = NoOne]
  /\ servicer' = [servicer EXCEPT ![t] = NoOne]
  /\ meta'     = [meta EXCEPT ![t] = NoOne]
  /\ spawn'    = [spawn EXCEPT ![t] = NoOne]

\* The RPC (or the thread) ends; the finally clause restores the ContextVar.
Finish(t) ==
  /\ pc' = [pc EXCEPT ![t] = IF t \in Starters THEN "done" ELSE "idle"]
  /\ Enter(t, NoOne)
  /\ plugin'   = [plugin EXCEPT ![t] = NoOne]
  /\ session'  = [session EXCEPT ![t] = NoOne]
  /\ servicer' = [servicer EXCEPT ![t] = NoOne]
  /\ meta'     = [meta EXCEPT ![t] = NoOne]
  /\ spawn'    = [spawn EXCEPT ![t] = NoOne]

-----------------------------------------------------------------------------
(* What the Go host sends.  Discipline names what it refrains from:        *)
(*   serial   for one plugin it awaits the answer to ManagePlugin and to   *)
(*            Register before it sends the next, loads only what is not    *)
(*            loaded, and leaves the plugins of the environment alone      *)
(*            until the main thread has loaded them;                       *)
(*   once     one Register for each session;                               *)
(*   settled  no unload while the plugin is being instantiated.            *)
(* The last is about the plugins:                                          *)
(*   prompt   an import never takes the 120 seconds Register waits.        *)

Loading(p)     == {t \in Threads : pc[t] \in LoadSteps /\ plugin[t] = p}
Unloading(p)   == {t \in Threads : pc[t] \in UnloadSteps /\ plugin[t] = p}
Managing(p)    == Loading(p) \cup Unloading(p)
Registering(p) == {t \in Threads : (spawn[t] # NoOne \/ pc[t] = "answer") /\ plugin[t] = p}
Starting(p)    == {u \in Starters : plugin[u] = p}

Serial(p)  == "serial" \in Discipline =>
                Managing(p) = {} /\ Registering(p) = {} /\ p \notin todo
Once(p)    == "once" \in Discipline =>
                /\ Registering(p) = {} /\ Starting(p) = {}
                /\ registry[p] # NoOne => phase[registry[p]] \in {"CREATED", "REGISTERING"}
Settled(p) == "settled" \in Discipline => Starting(p) = {}

\* A thread takes up a request for p; m is the load call it is, if it is one.
Take(t, p, m, first) ==
  /\ Step(t, "idle", first)
  /\ plugin' = [plugin EXCEPT ![t] = p]
  /\ meta'   = [meta EXCEPT ![t] = m]
  /\ UNCHANGED <<maps, objects, ctx, session, servicer>>

\* ManagePlugin(load): the check-then-act of manage_plugin.
Load(t, p) ==
  /\ Serial(p)
  /\ "serial" \in Discipline => registry[p] = NoOne
  /\ \E l \in Loads \ begun :
       /\ Take(t, p, l, IF registry[p] = NoOne THEN "add" ELSE "loadSession")
       /\ begun' = begun \cup {l}
  /\ UNCHANGED <<spawn, todo>>

\* The main thread's loop over ASTRBOT_SHARED_PLUGINS: add_plugin without a check.
LoadEnvironment(p) ==
  /\ p \in todo
  /\ todo' = todo \ {p}
  /\ \E l \in Loads \ begun :
       /\ Take(Main, p, l, "add")
       /\ begun' = begun \cup {l}
  /\ UNCHANGED spawn

Unload(t, p) ==
  /\ Serial(p)
  /\ Settled(p)
  /\ Take(t, p, NoOne, "unloadSession")
  /\ UNCHANGED <<spawn, inputs>>

\* Register; the thread it may spawn is named in advance.
Register(t, p) ==
  /\ "serial" \in Discipline => Managing(p) \subseteq {Main}
  /\ Once(p)
  /\ \E u \in Starters :
       /\ pc[u] = "unborn"
       /\ \A w \in Workers : spawn[w] # u
       /\ Take(t, p, NoOne, "registerSession")
       /\ spawn' = [spawn EXCEPT ![t] = u]
  /\ UNCHANGED inputs

\* HandleCommand, HandleFilter, HandleHook, HandleLLMRequest, HandleTool.
Handle(t, p) ==
  /\ Take(t, p, NoOne, "handleSession")
  /\ UNCHANGED <<spawn, inputs>>

-----------------------------------------------------------------------------
(* The look-ups by plugin id: two dictionaries, two steps.  A miss raises  *)
(* KeyError before the ContextVar is set.                                  *)

LookUpSession(t, from, to) ==
  /\ pc[t] = from
  /\ IF registry[plugin[t]] = NoOne THEN Finish(t)
     ELSE /\ pc' = [pc EXCEPT ![t] = to]
          /\ session' = [session EXCEPT ![t] = registry[plugin[t]]]
          /\ UNCHANGED <<ctx, plugin, servicer, meta, spawn>>

LookUpServicer(t, from, to) ==
  /\ pc[t] = from
  /\ IF servicers[plugin[t]] = NoOne THEN Finish(t)
     ELSE /\ pc' = [pc EXCEPT ![t] = to]
          /\ servicer' = [servicer EXCEPT ![t] = servicers[plugin[t]]]
          /\ Enter(t, session[t])
          /\ UNCHANGED <<plugin, session, meta, spawn>>

-----------------------------------------------------------------------------
(* load: add_plugin, then load_plugin                                      *)

AddSession(t) ==
  /\ Step(t, "add", "addServicer")
  /\ registry' = [registry EXCEPT ![plugin[t]] = meta[t]]
  /\ UNCHANGED <<servicers, objects, ctx, locals, inputs>>

AddServicer(t) ==
  /\ Step(t, "addServicer", "loadSession")
  /\ servicers' = [servicers EXCEPT ![plugin[t]] = meta[t]]
  /\ UNCHANGED <<registry, objects, ctx, locals, inputs>>

LoadSession(t) ==
  /\ LookUpSession(t, "loadSession", "loadServicer")
  /\ UNCHANGED <<maps, objects, inputs>>

\* With the servicer found: fresh scoped registries, LOADING.
LoadServicer(t) ==
  /\ LookUpServicer(t, "loadServicer", "import")
  /\ IF servicers[plugin[t]] = NoOne THEN UNCHANGED <<handlers, lifecycle>>
     ELSE /\ handlers'  = [handlers EXCEPT ![session[t]] = {}]
          /\ lifecycle' = [lifecycle EXCEPT ![session[t]] = "LOADING"]
  /\ UNCHANGED <<maps, instance, gates, stars, inputs>>

\* mutant: the import hands out the metadata of an earlier load.
ImportStale(t) ==
  /\ Step(t, "import", "ready")
  /\ handlers' = [handlers EXCEPT ![ctx[t]] = @ \cup {meta[t]}]
  /\ \E m \in begun : instance' = [instance EXCEPT ![session[t]] = m]
  /\ UNCHANGED <<maps, lifecycle, gates, stars, ctx, locals, inputs>>

\* The import registers the plugin's handlers in the current session (the one
\* of the ContextVar); session.instance is the metadata.
ImportOk(t) ==
  /\ Step(t, "import", "ready")
  /\ handlers' = [handlers EXCEPT ![ctx[t]] = @ \cup {meta[t]}]
  /\ instance' = [instance EXCEPT ![session[t]] = meta[t]]
  /\ UNCHANGED <<maps, lifecycle, gates, stars, ctx, locals, inputs>>

ImportFails(t) ==
  /\ pc[t] = "import"
  /\ lifecycle' = [lifecycle EXCEPT ![session[t]] = "ERROR"]
  /\ Finish(t)
  /\ UNCHANGED <<maps, instance, handlers, gates, stars, inputs>>

\* ACTIVE, then mark_ready(): the phase may move backwards.
MarkReady(t) ==
  /\ pc[t] = "ready"
  /\ lifecycle' = [lifecycle EXCEPT ![session[t]] = "ACTIVE"]
  /\ phase' = [phase EXCEPT ![servicer[t]] = "REGISTERING"]
  /\ Finish(t)
  /\ UNCHANGED <<maps, instance, handlers, inst, commands, stars, inputs>>

-----------------------------------------------------------------------------
(* Dispatcher.route and dispatch                                           *)

RouteSession(t) ==
  /\ \/ LookUpSession(t, "registerSession", "registerServicer")
     \/ LookUpSession(t, "handleSession", "handleServicer")
  /\ UNCHANGED <<maps, objects, inputs>>

RouteServicer(t) ==
  /\ \/ LookUpServicer(t, "registerServicer", "waitReady")
     \/ LookUpServicer(t, "handleServicer", "waitRunning")
  /\ UNCHANGED <<maps, objects, inputs>>

-----------------------------------------------------------------------------
(* Register                                                                *)

\* build_registry: the handlers of the session current in this thread.
BuildRegistry(t) ==
  /\ Step(t, "waitReady", "registered")
  /\ commands' = [commands EXCEPT ![servicer[t]] = @ \cup handlers[ctx[t]]]
  /\ UNCHANGED <<maps, sessions, phase, inst, stars, ctx, locals, inputs>>

\* mutant: Register does not wait for the import.
RegisterAtOnce(t) == BuildRegistry(t)

\* The import of the plugin is done ...
RegisterReady(t) == BuildRegistry(t) /\ phase[servicer[t]] # "CREATED"

\* ... or 120 seconds passed: whatever handlers there are.
RegisterTimesOut(t) ==
  /\ BuildRegistry(t)
  /\ phase[servicer[t]] = "CREATED"
  /\ "prompt" \in Discipline => Loading(plugin[t]) = {}

\* A protocol mismatch aborts after the registry was built: the dispatcher
\* records the exception like any other.
VersionMismatch(t) ==
  /\ Step(t, "registered", "failed")
  /\ UNCHANGED <<maps, objects, ctx, locals, inputs>>

\* mark_registered() and the end of the dispatch.
Registered(t) ==
  /\ Step(t, "registered", "onRegistered")
  /\ phase' = [phase EXCEPT ![servicer[t]] = "REGISTERED"]
  /\ Enter(t, NoOne)
  /\ UNCHANGED <<maps, sessions, inst, commands, stars, locals, inputs>>

\* instantiate_async finds no session or no metadata ...
NothingToInstantiate(t) ==
  /\ pc[t] = "onRegistered"
  /\ registry[plugin[t]] # NoOne => instance[registry[plugin[t]]] = NoOne
  /\ Finish(t)
  /\ UNCHANGED <<maps, objects, inputs>>

\* ... or captures session.instance and spawns the thread, which runs beside the rest of
\* the RPC: the host has no answer yet.
SpawnStarter(t) ==
  LET i == registry[plugin[t]]
      u == spawn[t]
  IN  /\ pc[t] = "onRegistered"
      /\ i # NoOne
      /\ instance[i] # NoOne
      /\ pc'     = [pc EXCEPT ![t] = "answer", ![u] = "starSession"]
      /\ plugin' = [plugin EXCEPT ![u] = plugin[t]]
      /\ meta'   = [meta EXCEPT ![u] = instance[i]]
      /\ session'  = [session EXCEPT ![t] = NoOne]
      /\ servicer' = [servicer EXCEPT ![t] = NoOne]
      /\ spawn'    = [spawn EXCEPT ![t] = NoOne]
      /\ UNCHANGED <<maps, objects, ctx, inputs>>

\* The response of Register is sent.
AnswerRegister(t) ==
  /\ pc[t] = "answer"
  /\ Finish(t)
  /\ UNCHANGED <<maps, objects, inputs>>

-----------------------------------------------------------------------------
(* instantiate, in its thread: looks the plugin up again by its id         *)

StarSession(u) ==
  /\ LookUpSession(u, "starSession", "starServicer")
  /\ UNCHANGED <<maps, objects, inputs>>

StarServicer(u) ==
  /\ LookUpServicer(u, "starServicer", "construct")
  /\ UNCHANGED <<maps, objects, inputs>>

\* star_cls_type(context): the constructor runs plugin code.
Construct(u) ==
  /\ Step(u, "construct", "initialize")
  /\ meta[u] \in Loads
  /\ star' = [star EXCEPT ![meta[u]] = u]
  /\ life' = [life EXCEPT ![u] = "built"]
  /\ UNCHANGED <<maps, sessions, gates, ctx, locals, inputs>>

\* mutant: the failure is only logged.
InstantiateFailsSilently(u) ==
  /\ pc[u] \in {"construct", "initialize"}
  /\ Finish(u)
  /\ UNCHANGED <<maps, objects, inputs>>

\* The constructor raises, or initialize() raises or times out, or the captured
\* "metadata" is already a Star, which has no star_cls_type.
InstantiateFails(u) ==
  /\ pc[u] \in {"construct", "initialize"}
  /\ lifecycle' = [lifecycle EXCEPT ![session[u]] = "ERROR"]
  /\ Finish(u)
  /\ UNCHANGED <<maps, instance, handlers, gates, stars, inputs>>

\* INIT_TIMEOUT passed: run_coro cancels the coroutine and raises, but a constructor is
\* synchronous code, which runs on in the loop's thread ...
ConstructTimesOut(u) ==
  /\ pc[u] = "construct" /\ meta[u] \in Loads
  /\ lifecycle' = [lifecycle EXCEPT ![session[u]] = "ERROR"]
  /\ life' = [life EXCEPT ![u] = "overdue"]
  /\ Finish(u)
  /\ UNCHANGED <<maps, instance, handlers, gates, star, inputs>>

\* ... until it returns a Star that nobody takes, or raises; or the loop was busy and it
\* never ran.
OverdueEnds(u) ==
  /\ life[u] = "overdue"
  /\ \E came \in {"stray", "absent"} : life' = [life EXCEPT ![u] = came]
  /\ UNCHANGED <<maps, sessions, gates, star, pc, ctx, locals, inputs>>

InitializeOk(u) ==
  /\ Step(u, "initialize", "publish")
  /\ UNCHANGED <<maps, objects, ctx, locals, inputs>>

\* mutant: servicer.inst = metadata
PublishMetadata(u) ==
  /\ Step(u, "publish", "adopt")
  /\ inst' = [inst EXCEPT ![servicer[u]] = meta[u]]
  /\ UNCHANGED <<maps, sessions, phase, commands, stars, ctx, locals, inputs>>

\* servicer.inst = metadata.star_cls
Publish(u) ==
  /\ Step(u, "publish", "adopt")
  /\ inst' = [inst EXCEPT ![servicer[u]] = star[meta[u]]]
  /\ UNCHANGED <<maps, sessions, phase, commands, stars, ctx, locals, inputs>>

\* session.instance = metadata.star_cls: the metadata is forgotten.
Adopt(u) ==
  /\ Step(u, "adopt", "running")
  /\ instance' = [instance EXCEPT ![session[u]] = star[meta[u]]]
  /\ UNCHANGED <<maps, lifecycle, handlers, gates, stars, ctx, locals, inputs>>

\* servicer.mark_instanced(): opens the gate of the handler RPCs.
MarkInstanced(u) ==
  /\ Step(u, "running", "active")
  /\ phase' = [phase EXCEPT ![servicer[u]] = "RUNNING"]
  /\ UNCHANGED <<maps, sessions, inst, commands, stars, ctx, locals, inputs>>

MarkActive(u) ==
  /\ pc[u] = "active"
  /\ lifecycle' = [lifecycle EXCEPT ![session[u]] = "ACTIVE"]
  /\ Finish(u)
  /\ UNCHANGED <<maps, instance, handlers, gates, stars, inputs>>

-----------------------------------------------------------------------------
(* handler RPCs                                                            *)

\* mutant: the gate of a registered plugin is open.
GateAjar(t) == phase[servicer[t]] \in {"REGISTERED", "RUNNING"}

GateOpen(t) == phase[servicer[t]] = "RUNNING"

\* _wait_instanced() returns True: the handler is bound to servicer.inst.
CallHandler(t) ==
  /\ Step(t, "waitRunning", "handler")
  /\ GateOpen(t)
  /\ UNCHANGED <<maps, objects, ctx, locals, inputs>>

\* mutant: the wait polls and has no timeout.
WaitForEver(t) ==
  /\ pc[t] = "waitRunning"
  /\ ~GateOpen(t)
  /\ UNCHANGED vars

\* 15 seconds passed: the RPC answers that it skipped the plugin.
SkipHandler(t) ==
  /\ pc[t] = "waitRunning"
  /\ ~GateOpen(t)
  /\ Finish(t)
  /\ UNCHANGED <<maps, objects, inputs>>

\* The handler returns, or raises: the servicer itself catches what plugin code
\* raises and answers with an error text.
HandlerReturns(t) ==
  /\ pc[t] = "handler"
  /\ Finish(t)
  /\ UNCHANGED <<maps, objects, inputs>>

\* An exception of the servicer's own code (request decoding, result conversion)
\* leaves the servicer and reaches the dispatcher.
ServicerFails(t) ==
  /\ Step(t, "handler", "failed")
  /\ UNCHANGED <<maps, objects, ctx, locals, inputs>>

\* _record_failure reads the lifecycle ...
CheckLifecycle(t) ==
  /\ pc[t] = "failed"
  /\ IF lifecycle[session[t]] = "UNLOADED" THEN Finish(t)
     ELSE Step(t, "failed", "markError") /\ UNCHANGED <<ctx, locals>>
  /\ UNCHANGED <<maps, objects, inputs>>

\* ... and then writes it.
MarkError(t) ==
  /\ pc[t] = "markError"
  /\ lifecycle' = [lifecycle EXCEPT ![session[t]] = "ERROR"]
  /\ Finish(t)
  /\ UNCHANGED <<maps, instance, handlers, gates, stars, inputs>>

-----------------------------------------------------------------------------
(* unload_plugin                                                           *)

\* A miss ends the unload; otherwise the ContextVar is set at once.
UnloadSession(t) ==
  /\ pc[t] = "unloadSession"
  /\ IF registry[plugin[t]] = NoOne THEN Finish(t)
     ELSE /\ pc' = [pc EXCEPT ![t] = "terminate"]
          /\ session' = [session EXCEPT ![t] = registry[plugin[t]]]
          /\ Enter(t, registry[plugin[t]])
          /\ UNCHANGED <<plugin, servicer, meta, spawn>>
  /\ UNCHANGED <<maps, objects, inputs>>

\* session.instance.star_cls: set on metadata, missing on a Star.
TerminableStar(i) == IF instance[i] \in Loads THEN star[instance[i]] ELSE NoOne

Terminate(t) ==
  LET s == TerminableStar(session[t])
  IN  /\ Step(t, "terminate", "unloaded")
      /\ IF s = NoOne THEN UNCHANGED life ELSE life' = [life EXCEPT ![s] = "terminated"]
      /\ UNCHANGED <<maps, sessions, gates, star, ctx, locals, inputs>>

MarkUnloaded(t) ==
  /\ Step(t, "unloaded", "remove")
  /\ lifecycle' = [lifecycle EXCEPT ![session[t]] = "UNLOADED"]
  /\ UNCHANGED <<maps, instance, handlers, gates, stars, ctx, locals, inputs>>

RemoveSession(t) ==
  /\ Step(t, "remove", "pop")
  /\ registry' = [registry EXCEPT ![plugin[t]] = NoOne]
  /\ UNCHANGED <<servicers, objects, ctx, locals, inputs>>

\* mutant: unload leaves the servicer behind.
ServicerStays(t) ==
  /\ pc[t] = "pop"
  /\ Finish(t)
  /\ UNCHANGED <<maps, objects, inputs>>

PopServicer(t) ==
  /\ pc[t] = "pop"
  /\ servicers' = [servicers EXCEPT ![plugin[t]] = NoOne]
  /\ Finish(t)
  /\ UNCHANGED <<registry, objects, inputs>>

-----------------------------------------------------------------------------
LoadStep(t)     == \/ AddSession(t) \/ AddServicer(t) \/ LoadSession(t) \/ LoadServicer(t)
                   \/ ImportOk(t) \/ ImportFails(t) \/ MarkReady(t)
RouteStep(t)    == RouteSession(t) \/ RouteServicer(t)
RegisterStep(t) == \/ RegisterReady(t) \/ RegisterTimesOut(t) \/ VersionMismatch(t)
                   \/ Registered(t) \/ NothingToInstantiate(t) \/ SpawnStarter(t)
                   \/ AnswerRegister(t)
HandleStep(t)   == \/ CallHandler(t) \/ SkipHandler(t) \/ HandlerReturns(t) \/ ServicerFails(t)
                   \/ CheckLifecycle(t) \/ MarkError(t)
UnloadStep(t)   == \/ UnloadSession(t) \/ Terminate(t) \/ MarkUnloaded(t)
                   \/ RemoveSession(t) \/ PopServicer(t)
StarterStep(u)  == \/ StarSession(u) \/ StarServicer(u) \/ Construct(u)
                   \/ InstantiateFails(u) \/ ConstructTimesOut(u) \/ InitializeOk(u)
                   \/ Publish(u) \/ Adopt(u) \/ MarkInstanced(u) \/ MarkActive(u)

WorkerStep(t) == LoadStep(t) \/ RouteStep(t) \/ RegisterStep(t) \/ HandleStep(t) \/ UnloadStep(t)

Request == \E t \in Workers, p \in Plugins :
             Load(t, p) \/ Unload(t, p) \/ Register(t, p) \/ Handle(t, p)

Next ==
  \/ Request
  \/ \E p \in Plugins : LoadEnvironment(p)
  \/ LoadStep(Main)
  \/ \E t \in Workers : WorkerStep(t)
  \/ \E u \in Starters : StarterStep(u) \/ OverdueEnds(u)

Spec == Init /\ [][Next]_vars

\* Threads that are not waiting run: the waits have timeouts, plugin code run on
\* the event loop is bounded by run_coro, and the main thread works its list off.
Fairness ==
  /\ \A t \in Workers : WF_vars(WorkerStep(t))
  /\ \A u \in Starters : WF_vars(StarterStep(u))
  /\ WF_vars(LoadStep(Main))
  /\ \A p \in Plugins : WF_vars(LoadEnvironment(p))

FairSpec == Spec /\ Fairness

-----------------------------------------------------------------------------
TypeOK ==
  /\ registry  \in [Plugins -> Loads \cup {NoOne}]
  /\ servicers \in [Plugins -> Loads \cup {NoOne}]
  /\ instance  \in [Loads -> Loads \cup Starters \cup {NoOne}]
  /\ lifecycle \in [Loads -> Lifecycles]
  /\ handlers  \in [Loads -> SUBSET Loads]
  /\ phase     \in [Loads -> Phases]
  /\ inst      \in [Loads -> Starters \cup {NoOne}]
  /\ commands  \in [Loads -> SUBSET Loads]
  /\ star      \in [Loads -> Starters \cup {NoOne}]
  /\ life      \in [Starters -> Lives]
  /\ pc        \in [Threads -> Steps]
  /\ ctx       \in [Threads -> Loads \cup {NoOne}]
  /\ plugin    \in [Threads -> Plugins \cup {NoOne}]
  /\ session   \in [Threads -> Loads \cup {NoOne}]
  /\ servicer  \in [Threads -> Loads \cup {NoOne}]
  /\ meta      \in [Threads -> Loads \cup Starters \cup {NoOne}]
  /\ spawn     \in [Threads -> Starters \cup {NoOne}]
  /\ begun \subseteq Loads
  /\ todo  \subseteq Environment

\* Plugin handlers run only on a published Star: whatever the host sends and in
\* whatever order threads run, the gate (LifecycleStateMachine.wait(RUNNING)) is
\* open only on a servicer whose inst is set.
HandlerGated == \A t \in Threads : pc[t] = "handler" => inst[servicer[t]] # NoOne

\* Steps in which a thread runs inside set_current_session ... reset.
InContext == {"import", "ready", "waitReady", "registered", "waitRunning", "handler",
              "failed", "markError", "construct", "initialize", "publish", "adopt",
              "running", "active", "terminate", "unloaded", "remove", "pop"}

\* set and reset of the ContextVar are paired on every path (context.py:13): a
\* thread is in the session it looked up exactly between them, so no plugin code
\* runs in the session of another plugin and no worker carries one to its next RPC.
ContextPaired ==
  \A t \in Threads :
    ctx[t] = IF pc[t] \in InContext THEN session[t] ELSE NoOne

\* While nobody loads or unloads a plugin its two map entries are of the same
\* add_plugin: dispatch never meets a session without its servicer.
MapsAgree == \A p \in Plugins : Managing(p) = {} => registry[p] = servicers[p]

\* A servicer serves the Star of the code that was loaded into its session, not
\* that of an earlier load of the plugin.
ServesOwnStar == \A i \in Loads : inst[i] # NoOne => inst[i] = star[i]

\* Every Star that was built in time is kept in its metadata: none was replaced by a second
\* construction and lost.
NoLostStar ==
  \A u \in Starters : life[u] = "built" => \E m \in Loads : star[m] = u

\* A Star whose construction outlived INIT_TIMEOUT is neither kept nor served by anybody,
\* also when it is there in the end.
StrayIsNobodys ==
  \A u \in Starters :
    life[u] \in {"overdue", "stray"} => \A i \in Loads : star[i] # u /\ inst[i] # u

\* The constructor of a Star runs only between mark_registered() of its servicer and
\* mark_instanced(): Register has collected the handlers of its session, though the host
\* may not have the answer (see AnsweredBeforeStar).
CollectedBeforeStar ==
  \A u \in Starters :
    pc[u] \in {"construct", "initialize"} => phase[servicer[u]] = "REGISTERED"

\* A session serves the Star that was built for it, every Star is kept or came too late,
\* and none is built before its session's registry is collected (_runtime/host.py,
\* loader.py).
StarsAreRight == ServesOwnStar /\ NoLostStar /\ StrayIsNobodys /\ CollectedBeforeStar

\* Once a servicer serves, no Register, load or instantiation closes its gate.
GateStaysOpen ==
  [][\A i \in Loads : phase[i] = "RUNNING" => phase'[i] = "RUNNING"]_vars

\* A session that was registered without a timeout has reported the handlers its
\* import defined.
RegisteredHandlers ==
  \A i \in Loads :
    phase[i] \in {"REGISTERED", "RUNNING"} /\ instance[i] # NoOne => commands[i] = {i}

\* Every RPC is answered, although three of its steps wait.
RequestsReturn == \A t \in Workers : pc[t] # "idle" ~> pc[t] = "idle"

\* A registered plugin ends up serving, in error, or unloaded: it does not stay
\* behind a closed gate for ever.
RegisteredResolves ==
  \A i \in Loads :
    phase[i] = "REGISTERED"
      ~> \/ phase[i] = "RUNNING"
         \/ lifecycle[i] \in {"ERROR", "UNLOADED"}

-----------------------------------------------------------------------------
(* What the repository says and the code does not do                       *)

\* host.py:435, "unload: call terminate and clean the session up": an unloaded
\* plugin's Star was terminated.
UnloadTerminates ==
  \A i \in Loads :
    lifecycle[i] = "UNLOADED" /\ star[i] # NoOne => life[star[i]] = "terminated"

\* loop.py:41, run_coro cancels what outlives its timeout, so that no coroutine runs away
\* with the loop: no Star is constructed, nor kept, after its instantiation has failed.
NoStrayStar == \A u \in Starters : life[u] \notin {"overdue", "stray"}

\* _runtime/host.py:118, "instantiation follows when Register has returned": the host has
\* the answer, and with it the identity of the plugin, before its Star is constructed.
AnsweredBeforeStar ==
  \A u \in Starters, t \in Workers :
    pc[u] = "construct" /\ plugin[t] = plugin[u] => pc[t] # "answer"

\* states.py:45, ACTIVE, IDLE, SLEEPING and UNLOADED converge: nothing brings an
\* unloaded session back.
UnloadedIsFinal ==
  [][\A i \in Loads :
       lifecycle[i] = "UNLOADED" => lifecycle'[i] = "UNLOADED"]_vars

\* states.py:84 maps the phases before RUNNING to LOADING, never to ACTIVE: a
\* plugin the runtime lists is ACTIVE only if it serves.
ActiveMeansServing ==
  \A p \in Plugins :
    Managing(p) = {} /\ registry[p] # NoOne /\ lifecycle[registry[p]] = "ACTIVE" =>
      phase[registry[p]] = "RUNNING"
=============================================================================
