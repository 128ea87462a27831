----------------------------- MODULE PluginServer -----------------------------
(***************************************************************************)
(* The process of a single plugin (astrbot/_bridge/server.py, bootstrap.py,*)
(* loop.py, state.py, Register of dispatch.py).                            *)
(*                                                                         *)
(* main() goes through its phases while the threads of the gRPC server     *)
(* already take RPCs: Register waits for the import, handler calls wait    *)
(* for the instance, main waits for Register.  All of them meet in one     *)
(* LifecycleStateMachine, which anybody may set to anything.  SIGTERM ends *)
(* the process: by default at once, and after install_signal_handlers by   *)
(* way of main's finally clause.                                           *)
(*                                                                         *)
(* A time-out is a step that may be taken while the thread waits; only an  *)
(* import takes so long that Register's 120 seconds end while it lasts.    *)
(***************************************************************************)
EXTENDS Naturals, FiniteSets

CONSTANTS
  Workers,       \* threads of the gRPC server
  MaxRegisters   \* bound: Register calls of a host that is not orderly

ASSUME BoundsAssumption == MaxRegisters \in Nat

VARIABLES
  orderly,    \* the host sends one Register, the plugin imports within 120 s
  stage,      \* where main() is
  phase,      \* servicer.lifecycle
  star,       \* metadata.star_cls
  inst,       \* servicer.inst is set
  collected,  \* what build_registry has put into the servicer
  routes,     \* context._web_apis holds the route the constructor adds
  served,     \* servicer.web_apis: absent, or the copy with or without that route
  told,       \* the best RegisterResponse the host has got
  registers,  \* Register calls sent
  loop,       \* loop._loop: 0 for None
  halted,     \* the loops that were stopped
  pc,         \* the RPC each worker is at
  onLoop      \* the loop its coroutine was given to

main    == <<orderly, stage, star, inst, routes, served>>
registry == <<collected, told, registers>>
loops   == <<loop, halted, onLoop>>
vars    == <<main, phase, registry, loops, pc>>

Rank == [CREATED |-> 0, BRIDGE_READY |-> 1, GRPC_READY |-> 2, HANDSHAKE_SENT |-> 3,
         REGISTERING |-> 4, REGISTERED |-> 5, INSTANTIATING |-> 6, RUNNING |-> 7,
         STOPPING |-> 8, STOPPED |-> 9]
Phases == DOMAIN Rank
Reached(p) == Rank[phase] >= Rank[p]

Starting == {"dependencyCheck", "bridgeInit", "grpcStart", "handshake", "pluginImport",
             "registryBuild", "waitRegistered", "instantiate", "initialize", "adopt",
             "installHandlers"}
Stages == Starting \cup {"running", "cleanup", "stopLoop", "returned", "failed", "gone", "killed"}

\* Before and after the server takes RPCs, and while it does.
Unborn   == {"dependencyCheck", "bridgeInit", "grpcStart"}
Serving  == (Starting \ Unborn) \cup {"running", "cleanup"}
Alive    == Stages \ {"gone", "killed"}

Contents == {"nothing", "partial", "full"}

Init ==
  /\ orderly \in BOOLEAN
  /\ stage = "dependencyCheck" /\ phase = "CREATED"
  /\ star = "none" /\ inst = FALSE
  /\ routes = FALSE /\ served = "absent"
  /\ collected = "nothing" /\ told = "nothing" /\ registers = 0
  /\ loop = 0 /\ halted = {}
  /\ pc = [w \in Workers |-> "idle"]
  /\ onLoop = [w \in Workers |-> 0]

-----------------------------------------------------------------------------
(* main                                                                     *)

Advance(from, to) == stage = from /\ stage' = to

\* set() logs a warning when the phase goes back, and sets it.
SetPhase(p) == phase' = p

CheckDependencies ==
  /\ Advance("dependencyCheck", "bridgeInit")
  /\ UNCHANGED <<orderly, star, inst, routes, served, phase, registry, loops, pc>>

\* A loop is started unless there is one.
StartLoop == loop' = IF loop = 0 THEN Cardinality(halted) + 1 ELSE loop

BridgeInit ==
  /\ Advance("bridgeInit", "grpcStart")
  /\ StartLoop
  /\ UNCHANGED <<orderly, star, inst, routes, served, phase, registry, halted, onLoop, pc>>

\* The server takes RPCs from here on, before main has noted it.
StartServer ==
  /\ Advance("grpcStart", "handshake")
  /\ SetPhase("BRIDGE_READY")
  /\ UNCHANGED <<orderly, star, inst, routes, served, registry, loops, pc>>

HandshakeSent ==
  /\ Advance("handshake", "pluginImport")
  /\ SetPhase("HANDSHAKE_SENT")
  /\ UNCHANGED <<orderly, star, inst, routes, served, registry, loops, pc>>

ImportPlugin ==
  /\ Advance("pluginImport", "registryBuild")
  /\ UNCHANGED <<orderly, star, inst, routes, served, phase, registry, loops, pc>>

\* web_apis is a copy of the context's list.
MarkReady ==
  /\ Advance("registryBuild", "waitRegistered")
  /\ served' = IF routes THEN "with" ELSE "without"
  /\ SetPhase("REGISTERING")
  /\ UNCHANGED <<orderly, star, inst, routes, registry, loops, pc>>

\* mutant: main does not wait for Register.
HostRegisteredEarly ==
  /\ Advance("waitRegistered", "instantiate")
  /\ SetPhase("INSTANTIATING")
  /\ UNCHANGED <<orderly, star, inst, routes, served, registry, loops, pc>>

HostRegistered ==
  /\ Reached("REGISTERED")
  /\ Advance("waitRegistered", "instantiate")
  /\ SetPhase("INSTANTIATING")
  /\ UNCHANGED <<orderly, star, inst, routes, served, registry, loops, pc>>

\* The constructor runs on the loop; it may register a route.
Construct ==
  /\ Advance("instantiate", "initialize")
  /\ star' = "built"
  /\ routes' \in BOOLEAN
  /\ UNCHANGED <<orderly, inst, served, phase, registry, loops, pc>>

Initialize ==
  /\ Advance("initialize", "adopt")
  /\ UNCHANGED <<orderly, star, inst, routes, served, phase, registry, loops, pc>>

MarkInstanced ==
  /\ Advance("adopt", "installHandlers")
  /\ inst' = TRUE
  /\ SetPhase("RUNNING")
  /\ UNCHANGED <<orderly, star, routes, served, registry, loops, pc>>

InstallSignalHandlers ==
  /\ Advance("installHandlers", "running")
  /\ UNCHANGED <<orderly, star, inst, routes, served, phase, registry, loops, pc>>

\* mutant: the wait is for the phase main has set itself.
HostNotRegisteredNever ==
  /\ ~Reached("REGISTERING")
  /\ Advance("waitRegistered", "failed")
  /\ UNCHANGED <<orderly, star, inst, routes, served, phase, registry, loops, pc>>

\* 60 seconds have passed without a Register.
HostNotRegistered ==
  /\ ~Reached("REGISTERED")
  /\ Advance("waitRegistered", "failed")
  /\ UNCHANGED <<orderly, star, inst, routes, served, phase, registry, loops, pc>>

\* Every phase of the start may raise.
StartupFailed ==
  /\ stage \in Starting \ {"handshake", "waitRegistered", "adopt", "installHandlers"}
  /\ stage' = "failed"
  /\ UNCHANGED <<orderly, star, inst, routes, served, phase, registry, loops, pc>>

\* SIGTERM: the default action, or SystemExit in main's sleep.
Killed ==
  /\ stage \in Starting
  /\ stage' = "killed"
  /\ UNCHANGED <<orderly, star, inst, routes, served, phase, registry, loops, pc>>

Terminated ==
  /\ Advance("running", "cleanup")
  /\ SetPhase("STOPPING")
  /\ UNCHANGED <<orderly, star, inst, routes, served, registry, loops, pc>>

\* server.stop(5) returns at once: no new RPC, those in flight have 5 seconds.
StopServer ==
  /\ Advance("cleanup", "stopLoop")
  /\ UNCHANGED <<orderly, star, inst, routes, served, phase, registry, loops, pc>>

StopLoop ==
  /\ Advance("stopLoop", "returned")
  /\ loop' = 0
  /\ halted' = IF loop = 0 THEN halted ELSE halted \cup {loop}
  /\ SetPhase("STOPPED")
  /\ UNCHANGED <<orderly, star, inst, routes, served, registry, onLoop, pc>>

\* The interpreter waits for the threads of the pool.
Gone ==
  /\ stage \in {"returned", "failed"}
  /\ \A w \in Workers : pc[w] = "idle"
  /\ stage' = "gone"
  /\ UNCHANGED <<orderly, star, inst, routes, served, phase, registry, loops, pc>>

Main ==
  \/ CheckDependencies \/ BridgeInit \/ StartServer \/ HandshakeSent \/ ImportPlugin
  \/ MarkReady \/ HostRegistered \/ HostNotRegistered \/ Construct \/ Initialize \/ MarkInstanced
  \/ InstallSignalHandlers \/ StopServer \/ StopLoop \/ Gone

-----------------------------------------------------------------------------
(* The RPCs                                                                 *)

Step(w, from, to) == pc[w] = from /\ pc' = [pc EXCEPT ![w] = to]

Register(w) ==
  /\ stage \in Serving
  /\ registers < IF orderly THEN 1 ELSE MaxRegisters
  /\ Step(w, "idle", "waitReady")
  /\ registers' = registers + 1
  /\ UNCHANGED <<main, phase, collected, told, loops>>

\* The registry is full once the module was imported.
Imported == stage \notin {"handshake", "pluginImport"}

\* build_registry collects what the import has registered so far.
Build(w) ==
  /\ IF Imported /\ stage # "failed"
     THEN collected' = "full"
     ELSE collected' \in {collected} \cup {"partial"}
  /\ pc' = [pc EXCEPT ![w] = IF collected' = "full" THEN "answerFull" ELSE "answerPartial"]
  /\ UNCHANGED <<main, phase, told, registers, loops>>

RegisterReady(w) == pc[w] = "waitReady" /\ Reached("REGISTERING") /\ Build(w)

\* 120 seconds have passed: it goes on with what there is.
RegisterTimesOut(w) ==
  /\ pc[w] = "waitReady"
  /\ ~orderly \/ stage = "failed"
  /\ stage \in {"pluginImport", "failed"}
  /\ Build(w)

\* context.abort raises, after the registry was built.
VersionMismatch(w) ==
  /\ pc[w] \in {"answerFull", "answerPartial"}
  /\ pc' = [pc EXCEPT ![w] = "idle"]
  /\ UNCHANGED <<main, phase, registry, loops>>

\* mark_registered, when the response is made: it releases main, though nobody has the
\* response yet.
MarkRegistered(w) ==
  /\ Step(w, "answerFull", "sendFull") \/ Step(w, "answerPartial", "sendPartial")
  /\ SetPhase("REGISTERED")
  /\ UNCHANGED <<main, registry, loops>>

\* The response is returned, and sent.
RegisterAnswered(w) ==
  /\ Step(w, "sendFull", "idle") \/ Step(w, "sendPartial", "idle")
  /\ told' = IF told = "full" \/ pc[w] = "sendFull" THEN "full" ELSE "partial"
  /\ UNCHANGED <<main, phase, collected, registers, loops>>

\* HandleCommand, HandleFilter, HandleHook, HandleLLMRequest, HandleTool.
Handle(w) ==
  /\ stage \in Serving
  /\ Step(w, "idle", "waitRunning")
  /\ UNCHANGED <<main, phase, registry, loops>>

\* 15 seconds have passed: an empty answer.
SkipHandler(w) ==
  /\ ~Reached("RUNNING")
  /\ Step(w, "waitRunning", "idle")
  /\ UNCHANGED <<main, phase, registry, loops>>

\* mutant: the gate is open from INSTANTIATING on.
CallHandlerEarly(w) ==
  /\ Reached("INSTANTIATING")
  /\ Step(w, "waitRunning", "handler")
  /\ UNCHANGED <<main, phase, registry, loops>>

CallHandler(w) ==
  /\ Reached("RUNNING")
  /\ Step(w, "waitRunning", "handler")
  /\ UNCHANGED <<main, phase, registry, loops>>

\* get_loop() starts a loop if there is none, also when main has stopped it.
RunCoro(w) ==
  /\ Step(w, "handler", "coroutine")
  /\ StartLoop
  /\ onLoop' = [onLoop EXCEPT ![w] = loop']
  /\ UNCHANGED <<main, phase, registry, halted>>

HandlerReturns(w) ==
  /\ Step(w, "handler", "idle")
  /\ UNCHANGED <<main, phase, registry, loops>>

\* Its result, or after 60 seconds the time-out: the only end on a halted loop.
CoroutineEnds(w) ==
  /\ Step(w, "coroutine", "idle")
  /\ onLoop' = [onLoop EXCEPT ![w] = 0]
  /\ UNCHANGED <<main, phase, registry, loop, halted>>

\* Cleanup terminates every Star of star_map, initialized or not.
Cleanup ==
  /\ stage \in Serving
  /\ star = "built"
  /\ star' = "terminated"
  /\ UNCHANGED <<orderly, stage, inst, routes, served, phase, registry, loops, pc>>

\* What a thread of the pool does with the RPC it has taken up.
Work(w) ==
  /\ stage \in Alive
  /\ \/ RegisterReady(w) \/ RegisterTimesOut(w) \/ VersionMismatch(w) \/ MarkRegistered(w)
     \/ RegisterAnswered(w) \/ SkipHandler(w) \/ CallHandler(w) \/ RunCoro(w) \/ HandlerReturns(w)
     \/ CoroutineEnds(w)

Next ==
  \/ Main \/ StartupFailed \/ Killed \/ Terminated \/ Cleanup
  \/ \E w \in Workers : Register(w) \/ Handle(w) \/ Work(w)

Spec == Init /\ [][Next]_vars

\* main is one thread; a worker's waits and runs are bounded by time-outs.
Fairness == WF_vars(Main) /\ \A w \in Workers : WF_vars(Work(w))

FairSpec == Spec /\ Fairness

-----------------------------------------------------------------------------
TypeOK ==
  /\ orderly \in BOOLEAN
  /\ stage \in Stages
  /\ phase \in Phases
  /\ star \in {"none", "built", "terminated"}
  /\ inst \in BOOLEAN
  /\ routes \in BOOLEAN
  /\ served \in {"absent", "with", "without"}
  /\ collected \in Contents /\ told \in Contents
  /\ registers \in Nat
  /\ loop \in Nat /\ halted \subseteq Nat
  /\ pc \in [Workers -> {"idle", "waitReady", "answerFull", "answerPartial", "sendFull",
                        "sendPartial", "waitRunning", "handler", "coroutine"}]
  /\ onLoop \in [Workers -> Nat]

\* No handler runs before the servicer has its Star, whatever the host sends and in
\* whatever order Register, main and the handler calls meet at the gate.
HandlerHasStar == \A w \in Workers : pc[w] \in {"handler", "coroutine"} => inst

\* The Star is built only when an orderly host has got the whole registry, or the response
\* with it is made and on its way.
OfferedBeforeStar ==
  orderly /\ star # "none" => told = "full" \/ \E w \in Workers : pc[w] = "sendFull"

\* No handler runs before its Star is there, and no Star is built before the answer to an
\* orderly host holds the whole registry (server.py, dispatch.py).
StarIsAwaited == HandlerHasStar /\ OfferedBeforeStar

\* What the phases of the process mean to the host.
Promise ==
  IF ~orderly THEN "starting"
  ELSE IF stage = "killed" THEN "killed"
  ELSE IF stage = "failed" \/ (stage = "gone" /\ phase # "STOPPED") THEN "failed"
  ELSE CASE phase = "STOPPED" -> "ended"
         [] phase = "STOPPING" -> "ending"
         [] phase = "RUNNING" -> "serving"
         [] phase \in {"REGISTERED", "INSTANTIATING"} -> "bound"
         [] phase = "REGISTERING" -> "offered"
         [] OTHER -> "starting"

Lifecycle == INSTANCE PluginLifecycle WITH promise <- Promise

\* For an orderly host the process keeps the promise of PluginLifecycle: the phases are
\* passed in order, none is left out and none comes back.
KeepsPromise == Lifecycle!Spec

\* A process that was started ends up serving or gone, whether or not the host registers it.
Settles == (stage \in Starting) ~> (stage \in {"running", "cleanup", "gone", "killed"})

\* Every RPC ends, and so the process of a stopped plugin does: also a handler whose
\* coroutine is on a loop that main has stopped (by the time-out of run_coro).
CallsEnd == \A w \in Workers : (pc[w] # "idle") ~> (pc[w] = "idle" \/ stage = "killed")

-----------------------------------------------------------------------------
(* What the repository says and the code does not do                       *)

\* loader.py:321, "after the host's Register is complete (the identity is bound)", and the
\* comment at dispatch.py:484: the host has the response before the constructor calls it.
ToldBeforeStar == orderly /\ star # "none" => told = "full"
=============================================================================
