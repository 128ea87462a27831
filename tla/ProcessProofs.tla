----------------------------- MODULE ProcessProofs -----------------------------
(***************************************************************************)
(* Proofs about a plugin's own process: that a handler always has its Star *)
(* and that the process keeps the promise of PluginLifecycle               *)
(* (PluginServer), and that the fallback scheduler runs a job once for     *)
(* each time it comes due (MinimalScheduler).                              *)
(***************************************************************************)
EXTENDS PluginServer, MinimalScheduler, TLAPS, FiniteSetTheorems

-----------------------------------------------------------------------------
(* The gate's phases                                                        *)

\* The order of the phases as the waits of the process use it.
LEMMA PhasesInOrder ==
  ASSUME phase \in Phases
  PROVE  /\ Reached("REGISTERING") <=> phase \in {"REGISTERING", "REGISTERED", "INSTANTIATING",
                                                  "RUNNING", "STOPPING", "STOPPED"}
         /\ Reached("REGISTERED") <=> phase \in {"REGISTERED", "INSTANTIATING", "RUNNING",
                                                 "STOPPING", "STOPPED"}
         /\ Reached("RUNNING") <=> phase \in {"RUNNING", "STOPPING", "STOPPED"}
BY DEF Reached, Rank, Phases

LEMMA PhaseNames ==
  Phases = {"CREATED", "BRIDGE_READY", "GRPC_READY", "HANDSHAKE_SENT", "REGISTERING", "REGISTERED",
            "INSTANTIATING", "RUNNING", "STOPPING", "STOPPED"}
BY DEF Phases, Rank

-----------------------------------------------------------------------------
(* The inductive invariant of PluginServer                                  *)

\* The loops that were stopped are finitely many: a new one gets a number.
FewLoops == IsFiniteSet(halted)

\* Once main has adopted the instance the servicer has it, and the gate says
\* RUNNING only then.
InstanceIsThere ==
  /\ stage \in {"installHandlers", "running", "cleanup", "stopLoop", "returned"} => inst
  /\ phase \in {"RUNNING", "STOPPING", "STOPPED"} => inst

Registering(w) == pc[w] \in {"waitReady", "answerFull", "answerPartial", "sendFull", "sendPartial"}

\* The response with the whole registry has arrived, or is made.
Offered == told = "full" \/ \E w \in Workers : pc[w] = "sendFull"

\* The one Register of an orderly host, until it is answered.
OneRegister ==
  /\ registers \in {0, 1}
  /\ registers = 0 => told = "nothing" /\ \A w \in Workers : ~Registering(w)
  /\ \A w, v \in Workers : Registering(w) /\ Registering(v) => w = v
  /\ \A w \in Workers : Registering(w) => told = "nothing"
  /\ \A w \in Workers : pc[w] = "answerFull" => stage \in {"waitRegistered", "failed", "killed"}
  /\ \A w \in Workers : pc[w] \in {"answerPartial", "sendPartial"} => stage \in {"failed", "killed"}

\* The stages after the host has registered, those before it can, and the phase of each.
Bound  == {"instantiate", "initialize", "adopt", "installHandlers", "running", "cleanup",
           "stopLoop", "returned"}
Early  == {"CREATED", "BRIDGE_READY", "HANDSHAKE_SENT", "REGISTERING", "REGISTERED", "INSTANTIATING"}

StageAndPhase ==
  /\ stage \in Unborn => phase = "CREATED" /\ registers = 0
  /\ stage = "handshake" => phase = "BRIDGE_READY"
  /\ stage \in {"pluginImport", "registryBuild"} => phase = "HANDSHAKE_SENT"
  /\ stage = "waitRegistered" =>
       \/ phase = "REGISTERING"
       \/ phase = "REGISTERED" /\ Offered
  /\ stage \in {"instantiate", "initialize", "adopt"} => phase = "INSTANTIATING"
  /\ stage \in {"installHandlers", "running"} => phase = "RUNNING"
  /\ stage \in {"cleanup", "stopLoop"} => phase = "STOPPING"
  /\ stage = "returned" => phase = "STOPPED"
  /\ stage = "failed" => phase \in Early

\* The constructor runs after the answer to the host is made.
AnswerBeforeStar ==
  /\ stage \in Bound => Offered
  /\ star # "none" => Offered

OrderlyStart == OneRegister /\ StageAndPhase /\ AnswerBeforeStar

\* The inductive invariant.
ServerInv ==
  /\ TypeOK
  /\ FewLoops
  /\ InstanceIsThere
  /\ HandlerHasStar
  /\ orderly => OrderlyStart

-----------------------------------------------------------------------------
(* Types                                                                    *)

WorkerSteps == {"idle", "waitReady", "answerFull", "answerPartial", "sendFull", "sendPartial",
                "waitRunning", "handler", "coroutine"}

LEMMA NextLoop ==
  ASSUME loop \in Nat, halted \subseteq Nat, FewLoops, StartLoop
  PROVE  loop' \in Nat
<1>1. Cardinality(halted) \in Nat
  BY FS_CardinalityType DEF FewLoops
<1> QED
  BY <1>1 DEF StartLoop

\* What Build does to types, the same for both of its guards.
LEMMA BuildTypes ==
  ASSUME TypeOK, FewLoops, NEW w \in Workers, Build(w)
  PROVE  TypeOK' /\ FewLoops'
<1>1. collected' \in Contents /\ pc' \in [Workers -> WorkerSteps]
  <2>1. collected' \in Contents
    BY DEF Build, TypeOK, Contents
  <2> QED
    BY <2>1 DEF Build, TypeOK, WorkerSteps
<1> QED
  BY <1>1 DEF Build, TypeOK, FewLoops, WorkerSteps, main, loops

LEMMA MainTypes ==
  ASSUME TypeOK, FewLoops, Main \/ StartupFailed \/ Killed \/ Terminated \/ Cleanup
  PROVE  TypeOK' /\ FewLoops'
<1> USE PhaseNames DEF TypeOK, FewLoops, registry, loops, Stages, Starting, SetPhase, Advance
<1>1. CASE CheckDependencies
  BY <1>1 DEF CheckDependencies
<1>2. CASE BridgeInit
  BY <1>2, NextLoop DEF BridgeInit
<1>3. CASE StartServer
  BY <1>3 DEF StartServer
<1>4. CASE HandshakeSent
  BY <1>4 DEF HandshakeSent
<1>5. CASE ImportPlugin
  BY <1>5 DEF ImportPlugin
<1>6. CASE MarkReady
  BY <1>6 DEF MarkReady
<1>7. CASE HostRegistered
  BY <1>7 DEF HostRegistered
<1>8. CASE HostNotRegistered
  BY <1>8 DEF HostNotRegistered
<1>9. CASE Construct
  BY <1>9 DEF Construct
<1>10. CASE Initialize
  BY <1>10 DEF Initialize
<1>11. CASE MarkInstanced
  BY <1>11 DEF MarkInstanced
<1>12. CASE InstallSignalHandlers
  BY <1>12 DEF InstallSignalHandlers
<1>13. CASE StopServer
  BY <1>13 DEF StopServer
<1>14. CASE StopLoop
  <2>1. IsFiniteSet(halted')
    BY <1>14, FS_AddElement DEF StopLoop
  <2> QED
    BY <1>14, <2>1 DEF StopLoop
<1>15. CASE Gone
  BY <1>15 DEF Gone
<1>16. CASE StartupFailed
  BY <1>16 DEF StartupFailed
<1>17. CASE Killed
  BY <1>17 DEF Killed
<1>18. CASE Terminated
  BY <1>18 DEF Terminated
<1>19. CASE Cleanup
  BY <1>19 DEF Cleanup
<1> QED
  BY <1>1, <1>2, <1>3, <1>4, <1>5, <1>6, <1>7, <1>8, <1>9, <1>10, <1>11, <1>12, <1>13, <1>14,
     <1>15, <1>16, <1>17, <1>18, <1>19 DEF Main

LEMMA WorkerTypes ==
  ASSUME TypeOK, FewLoops, NEW w \in Workers, Register(w) \/ Handle(w) \/ Work(w)
  PROVE  TypeOK' /\ FewLoops'
<1> USE DEF TypeOK, FewLoops, main, registry, loops, SetPhase, Step, Contents
<1>1. CASE Register(w)
  BY <1>1 DEF Register
<1>2. CASE Handle(w)
  BY <1>2 DEF Handle
<1>3. CASE RegisterReady(w)
  BY <1>3, BuildTypes DEF RegisterReady
<1>4. CASE RegisterTimesOut(w)
  BY <1>4, BuildTypes DEF RegisterTimesOut
<1>5. CASE VersionMismatch(w)
  BY <1>5 DEF VersionMismatch
<1>6. CASE MarkRegistered(w)
  BY <1>6, PhaseNames DEF MarkRegistered
<1>12. CASE RegisterAnswered(w)
  <2>1. pc' = [pc EXCEPT ![w] = "idle"] /\ told' \in Contents
    BY <1>12 DEF RegisterAnswered
  <2> QED
    BY <1>12, <2>1 DEF RegisterAnswered
<1>7. CASE SkipHandler(w)
  BY <1>7 DEF SkipHandler
<1>8. CASE CallHandler(w)
  BY <1>8 DEF CallHandler
<1>9. CASE RunCoro(w)
  BY <1>9, NextLoop DEF RunCoro
<1>10. CASE HandlerReturns(w)
  BY <1>10 DEF HandlerReturns
<1>11. CASE CoroutineEnds(w)
  BY <1>11 DEF CoroutineEnds
<1> QED
  BY <1>1, <1>2, <1>3, <1>4, <1>5, <1>6, <1>7, <1>8, <1>9, <1>10, <1>11, <1>12 DEF Work

-----------------------------------------------------------------------------
(* The instance                                                             *)

\* No step takes the instance away; a phase from RUNNING on is only set where it is there.
LEMMA InstanceStep ==
  ASSUME TypeOK, InstanceIsThere, HandlerHasStar, Next
  PROVE  InstanceIsThere' /\ HandlerHasStar'
<1> USE DEF InstanceIsThere, HandlerHasStar
<1>1. CASE Main \/ StartupFailed \/ Killed \/ Terminated \/ Cleanup
  <2>1. InstanceIsThere' /\ (inst => inst') /\ pc' = pc
    BY <1>1 DEF TypeOK, Main, StartupFailed, Killed, Terminated, Cleanup, CheckDependencies,
       BridgeInit, StartServer, HandshakeSent, ImportPlugin, MarkReady, HostRegistered,
       HostNotRegistered, Construct, Initialize, MarkInstanced, InstallSignalHandlers,
       StopServer, StopLoop, Gone, Advance, SetPhase
  <2> QED
    BY <2>1
<1>2. ASSUME NEW w \in Workers, Register(w) \/ Handle(w) \/ Work(w)
      PROVE  InstanceIsThere' /\ HandlerHasStar'
  <2>1. inst' = inst /\ stage' = stage
    BY <1>2 DEF Register, Handle, Work, RegisterReady, RegisterTimesOut, Build, VersionMismatch,
       MarkRegistered, RegisterAnswered, SkipHandler, CallHandler, RunCoro, HandlerReturns, CoroutineEnds, main
  <2>2. phase' = phase \/ phase' = "REGISTERED"
    BY <1>2 DEF Register, Handle, Work, RegisterReady, RegisterTimesOut, Build, VersionMismatch,
       MarkRegistered, RegisterAnswered, SkipHandler, CallHandler, RunCoro, HandlerReturns, CoroutineEnds, SetPhase
  <2>3. ASSUME NEW v \in Workers, pc'[v] \in {"handler", "coroutine"}
        PROVE  inst
    <3>1. CASE CallHandler(w)
      BY <3>1, PhasesInOrder DEF CallHandler, TypeOK
    <3>2. CASE ~CallHandler(w)
      BY <1>2, <2>3, <3>2 DEF Register, Handle, Work, RegisterReady, RegisterTimesOut, Build,
         VersionMismatch, MarkRegistered, RegisterAnswered, SkipHandler, RunCoro, HandlerReturns,
         CoroutineEnds, Step, TypeOK
    <3> QED
      BY <3>1, <3>2
  <2> QED
    BY <2>1, <2>2, <2>3
<1> QED
  BY <1>1, <1>2 DEF Next

-----------------------------------------------------------------------------
(* An orderly host                                                          *)

\* main's own steps leave the RPCs and what the host was told alone.
LEMMA MainLeavesRPCs ==
  ASSUME Main \/ StartupFailed \/ Killed \/ Terminated \/ Cleanup
  PROVE  pc' = pc /\ told' = told /\ registers' = registers /\ orderly' = orderly
BY DEF Main, StartupFailed, Killed, Terminated, Cleanup, CheckDependencies, BridgeInit,
   StartServer, HandshakeSent, ImportPlugin, MarkReady, HostRegistered, HostNotRegistered,
   Construct, Initialize, MarkInstanced, InstallSignalHandlers, StopServer, StopLoop, Gone,
   registry

\* main leaves waitRegistered only by a registration or a failure.
LEMMA MainOrderly ==
  ASSUME TypeOK, orderly, OrderlyStart,
         Main \/ StartupFailed \/ Killed \/ Terminated \/ Cleanup
  PROVE  OrderlyStart'
<1> USE DEF OrderlyStart
<1>1. pc' = pc /\ told' = told /\ registers' = registers /\ Offered' = Offered
  BY MainLeavesRPCs DEF Offered
<1>2. StageAndPhase' /\ AnswerBeforeStar'
  <2> USE PhasesInOrder, <1>1 DEF TypeOK, StageAndPhase, AnswerBeforeStar, Advance, SetPhase,
      Bound, Early, Unborn, Starting, Serving
  <2>1. CASE CheckDependencies
    BY <2>1 DEF CheckDependencies
  <2>2. CASE BridgeInit
    BY <2>2 DEF BridgeInit
  <2>3. CASE StartServer
    BY <2>3 DEF StartServer
  <2>4. CASE HandshakeSent
    BY <2>4 DEF HandshakeSent
  <2>5. CASE ImportPlugin
    BY <2>5 DEF ImportPlugin
  <2>6. CASE MarkReady
    BY <2>6 DEF MarkReady
  <2>7. CASE HostRegistered
    BY <2>7 DEF HostRegistered
  <2>8. CASE HostNotRegistered
    BY <2>8 DEF HostNotRegistered
  <2>9. CASE Construct
    BY <2>9 DEF Construct
  <2>10. CASE Initialize
    BY <2>10 DEF Initialize
  <2>11. CASE MarkInstanced
    BY <2>11 DEF MarkInstanced
  <2>12. CASE InstallSignalHandlers
    BY <2>12 DEF InstallSignalHandlers
  <2>13. CASE StopServer
    BY <2>13 DEF StopServer
  <2>14. CASE StopLoop
    BY <2>14 DEF StopLoop
  <2>15. CASE Gone
    BY <2>15 DEF Gone
  <2>16. CASE StartupFailed
    BY <2>16 DEF StartupFailed
  <2>17. CASE Killed
    BY <2>17 DEF Killed
  <2>18. CASE Terminated
    BY <2>18 DEF Terminated
  <2>19. CASE Cleanup
    BY <2>19 DEF Cleanup
  <2> QED
    BY <2>1, <2>2, <2>3, <2>4, <2>5, <2>6, <2>7, <2>8, <2>9, <2>10, <2>11, <2>12, <2>13, <2>14,
       <2>15, <2>16, <2>17, <2>18, <2>19 DEF Main
<1>3. OneRegister'
  <2>1. ASSUME NEW w \in Workers, pc[w] \in {"answerFull", "answerPartial"}
        PROVE  stage' \in {stage, "failed", "killed"}
    <3>0. \A v \in Workers : pc[v] # "sendFull"
      BY <2>1 DEF OneRegister, Registering
    <3>1. ~HostRegistered /\ ~Gone
      BY <2>1, <3>0, PhasesInOrder DEF Offered, OneRegister, Registering, StageAndPhase, TypeOK, HostRegistered,
         Advance, Gone
    <3> QED
      BY <2>1, <3>1 DEF OneRegister, Main, StartupFailed, Killed, Terminated, Cleanup,
         CheckDependencies, BridgeInit, StartServer, HandshakeSent, ImportPlugin, MarkReady,
         HostNotRegistered, Construct, Initialize, MarkInstanced, InstallSignalHandlers,
         StopServer, StopLoop, Advance
  <2>2. ASSUME NEW w \in Workers, pc[w] \in {"answerPartial", "sendPartial"}
        PROVE  stage' \in {"failed", "killed"}
    <3>1. stage \in {"failed", "killed"} /\ ~Gone
      BY <2>2 DEF OneRegister, Gone
    <3> QED
      BY <3>1 DEF Main, StartupFailed, Killed, Terminated, Cleanup, CheckDependencies, BridgeInit,
         StartServer, HandshakeSent, ImportPlugin, MarkReady, HostRegistered, HostNotRegistered,
         Construct, Initialize, MarkInstanced, InstallSignalHandlers, StopServer, StopLoop, Advance,
         Starting
  <2> QED
    BY <1>1, <2>1, <2>2 DEF OneRegister, Registering
<1> QED
  BY <1>2, <1>3

\* What a worker does to its own pc; the others stay.
LEMMA OthersWait ==
  ASSUME TypeOK, NEW w \in Workers, Register(w) \/ Handle(w) \/ Work(w)
  PROVE  /\ \A v \in Workers : v # w => pc'[v] = pc[v]
         /\ stage' = stage /\ orderly' = orderly
         /\ star' # "none" => star # "none"
BY DEF TypeOK, Register, Handle, Work, RegisterReady, RegisterTimesOut, Build, VersionMismatch,
   MarkRegistered, RegisterAnswered, SkipHandler, CallHandler, RunCoro, HandlerReturns, CoroutineEnds,
   Step, main

\* The one Register is sent while the process serves, ends its wait when the registry is
\* whole (or the process has failed), and its answer is the phase main waits for.
LEMMA WorkerOrderly ==
  ASSUME TypeOK, orderly, OrderlyStart, NEW w \in Workers, Register(w) \/ Handle(w) \/ Work(w)
  PROVE  OrderlyStart'
<1> USE OthersWait DEF OrderlyStart
<1>1. CASE Register(w)
  <2>1. registers = 0 /\ registers' = 1 /\ told' = "nothing" /\ pc'[w] = "waitReady"
    BY <1>1 DEF Register, Step, TypeOK, OneRegister, registry
  <2>2. stage \in Serving /\ phase' = phase
    BY <1>1 DEF Register
  <2>3. OneRegister'
    <3>1. \A v \in Workers : v # w => ~Registering(v)'
      BY <1>1, <2>1 DEF OneRegister, Registering
    <3> QED
      BY <2>1, <3>1 DEF OneRegister, Registering
  <2>4. StageAndPhase' /\ AnswerBeforeStar'
    <3>1. ~Offered
      BY <2>1 DEF OneRegister, Registering, Offered
    <3> QED
    BY <1>1, <2>1, <2>2, <3>1 DEF OneRegister, StageAndPhase, AnswerBeforeStar, Serving, Starting, Unborn
  <2> QED
    BY <2>3, <2>4
<1>2. CASE RegisterReady(w) \/ RegisterTimesOut(w)
  <2>1. pc[w] = "waitReady" /\ Build(w) /\ told = "nothing" /\ registers = 1
    BY <1>2 DEF RegisterReady, RegisterTimesOut, OneRegister, Registering
  <2>0. ~Offered
    BY <2>1 DEF OneRegister, Registering, Offered
  <2>2. stage \in {"waitRegistered", "failed"} \cup {"killed", "gone"}
    <3>1. CASE RegisterTimesOut(w)
      BY <3>1 DEF RegisterTimesOut
    <3>2. CASE RegisterReady(w)
      <4>1. phase \notin {"CREATED", "BRIDGE_READY", "HANDSHAKE_SENT"}
        BY <3>2, PhasesInOrder DEF RegisterReady, TypeOK
      <4> QED
        BY <2>0, <2>1, <4>1 DEF StageAndPhase, AnswerBeforeStar, Bound, TypeOK, Stages, Starting, Unborn
    <3> QED
      BY <1>2, <3>1, <3>2
  <2>3. pc'[w] \in {"answerFull", "answerPartial"}
    BY <2>1 DEF Build, TypeOK
  <2>4. stage = "waitRegistered" => pc'[w] = "answerFull"
    BY <2>1 DEF Build, TypeOK, Imported
  <2>5. UNCHANGED <<main, phase, told, registers>>
    BY <2>1 DEF Build
  <2>6. stage # "gone"
    BY <1>2 DEF Work, Register, Handle, Alive, RegisterReady, RegisterTimesOut, Step
  <2>7. OneRegister'
    BY <2>1, <2>2, <2>3, <2>4, <2>5, <2>6 DEF OneRegister, Registering
  <2> QED
    BY <2>0, <2>5, <2>7 DEF StageAndPhase, AnswerBeforeStar, main
<1>3. CASE VersionMismatch(w)
  <2>1. /\ pc[w] \in {"answerFull", "answerPartial"} /\ pc'[w] = "idle"
        /\ UNCHANGED <<main, phase, registry>>
    BY <1>3 DEF VersionMismatch, TypeOK
  <2>2. ~Offered
    BY <2>1 DEF OneRegister, Registering, Offered
  <2> QED
    BY <2>1, <2>2 DEF OneRegister, Registering, StageAndPhase, AnswerBeforeStar, main, registry
<1>4. CASE MarkRegistered(w)
  <2>1. /\ \/ pc[w] = "answerFull" /\ pc'[w] = "sendFull"
           \/ pc[w] = "answerPartial" /\ pc'[w] = "sendPartial"
        /\ phase' = "REGISTERED" /\ UNCHANGED <<main, registry>>
    BY <1>4 DEF MarkRegistered, Step, TypeOK, SetPhase
  <2>2. registers = 1 /\ told = "nothing" /\ \A v \in Workers : v # w => ~Registering(v)
    BY <2>1 DEF OneRegister, Registering
  <2>3. /\ stage \in {"waitRegistered", "failed", "killed"} /\ star = "none"
        /\ stage = "waitRegistered" => Offered'
    BY <2>1, <2>2 DEF OneRegister, AnswerBeforeStar, Registering, Offered
  <2>4. OneRegister'
    BY <2>1, <2>2, <2>3 DEF OneRegister, Registering, main, registry
  <2>5. StageAndPhase' /\ AnswerBeforeStar'
    BY <2>1, <2>3 DEF StageAndPhase, AnswerBeforeStar, main, Bound, Unborn, Early
  <2> QED
    BY <2>4, <2>5
<1>5. CASE RegisterAnswered(w)
  <2>1. /\ pc[w] \in {"sendFull", "sendPartial"} /\ pc'[w] = "idle"
        /\ UNCHANGED <<main, phase, registers>>
        /\ told' = (IF told = "full" \/ pc[w] = "sendFull" THEN "full" ELSE "partial")
    BY <1>5 DEF RegisterAnswered, Step, TypeOK
  <2>2. registers = 1 /\ told = "nothing" /\ \A v \in Workers : v # w => ~Registering(v)
    BY <2>1 DEF OneRegister, Registering
  <2>3. Offered => Offered'
    BY <2>1, <2>2 DEF Offered, Registering
  <2>4. OneRegister'
    BY <2>1, <2>2 DEF OneRegister, Registering, main
  <2>5. StageAndPhase' /\ AnswerBeforeStar'
    BY <2>1, <2>2, <2>3 DEF StageAndPhase, AnswerBeforeStar, main
  <2> QED
    BY <2>4, <2>5
<1>6. CASE Handle(w) \/ SkipHandler(w) \/ CallHandler(w) \/ RunCoro(w) \/ HandlerReturns(w)
           \/ CoroutineEnds(w)
  <2>1. /\ pc'[w] \in {"idle", "waitRunning", "handler", "coroutine"}
        /\ pc[w] \in {"idle", "waitRunning", "handler", "coroutine"}
        /\ UNCHANGED <<main, phase, registry>>
    BY <1>6 DEF Handle, SkipHandler, CallHandler, RunCoro, HandlerReturns, CoroutineEnds, Step, TypeOK
  <2>2. Offered' = Offered
    BY <2>1 DEF Offered, registry
  <2> QED
    BY <2>1, <2>2 DEF OneRegister, Registering, StageAndPhase, AnswerBeforeStar, main, registry
<1> QED
  BY <1>1, <1>2, <1>3, <1>4, <1>5, <1>6 DEF Work

-----------------------------------------------------------------------------
(* The theorems about PluginServer                                          *)

LEMMA ServerInit == Init => ServerInv
<1> SUFFICES ASSUME Init PROVE ServerInv
  OBVIOUS
<1>1. TypeOK
  BY PhaseNames DEF Init, TypeOK, Stages, Starting, Contents
<1>2. FewLoops
  BY FS_EmptySet DEF Init, FewLoops
<1>3. InstanceIsThere /\ HandlerHasStar
  BY DEF Init, InstanceIsThere, HandlerHasStar
<1>4. OrderlyStart
  BY DEF Init, OrderlyStart, OneRegister, Registering, StageAndPhase, AnswerBeforeStar, Bound, Unborn
<1> QED
  BY <1>1, <1>2, <1>3, <1>4 DEF ServerInv

LEMMA ServerStep == ServerInv /\ [Next]_vars => ServerInv'
<1> SUFFICES ASSUME ServerInv, [Next]_vars PROVE ServerInv'
  OBVIOUS
<1>1. CASE Next
  <2>1. TypeOK' /\ FewLoops'
    BY <1>1, MainTypes, WorkerTypes DEF Next, ServerInv
  <2>2. InstanceIsThere' /\ HandlerHasStar'
    BY <1>1, InstanceStep DEF ServerInv
  <2>3. orderly' => OrderlyStart'
    BY <1>1, MainOrderly, WorkerOrderly, MainLeavesRPCs, OthersWait DEF Next, ServerInv
  <2> QED
    BY <2>1, <2>2, <2>3 DEF ServerInv
<1>2. CASE UNCHANGED vars
  BY <1>2 DEF ServerInv, TypeOK, FewLoops, InstanceIsThere, HandlerHasStar, OrderlyStart,
     OneRegister, Registering, StageAndPhase, AnswerBeforeStar, Offered, vars, main, registry, loops
<1> QED
  BY <1>1, <1>2

LEMMA ServerKeepsInv == Spec => []ServerInv
BY ServerInit, ServerStep, PTL DEF Spec

\* No handler runs before its Star is there, and no Star is built before the answer to an
\* orderly host holds the whole registry (whether it has arrived is another matter:
\* ToldBeforeStar): server.py, dispatch.py and state.py with any number of threads,
\* and for a host that is not orderly with any number of Register calls.
THEOREM StarAwaited == Spec => []StarIsAwaited
<1>1. ServerInv => StarIsAwaited
  BY DEF ServerInv, StarIsAwaited, OfferedBeforeStar, OrderlyStart, AnswerBeforeStar, Offered
<1> QED
  BY <1>1, ServerKeepsInv, PTL

-----------------------------------------------------------------------------
(* The refinement of PluginLifecycle                                        *)

\* What the phases mean for an orderly host's process, one value for each case.
LEMMA PromiseOfStage ==
  ASSUME TypeOK, orderly
  PROVE  /\ stage = "killed" => Promise = "killed"
         /\ stage = "failed" => Promise = "failed"
         /\ stage = "gone" /\ phase # "STOPPED" => Promise = "failed"
         /\ stage \notin {"killed", "failed"} /\ (stage = "gone" => phase = "STOPPED") =>
              /\ phase \in {"CREATED", "BRIDGE_READY", "GRPC_READY", "HANDSHAKE_SENT"} =>
                   Promise = "starting"
              /\ phase = "REGISTERING" => Promise = "offered"
              /\ phase \in {"REGISTERED", "INSTANTIATING"} => Promise = "bound"
              /\ phase = "RUNNING" => Promise = "serving"
              /\ phase = "STOPPING" => Promise = "ending"
              /\ phase = "STOPPED" => Promise = "ended"
BY DEF Promise

LEMMA PromiseStarts == ServerInv /\ Init => Lifecycle!Init
BY PromiseOfStage DEF ServerInv, Init, Lifecycle!Init, Promise

\* A step of main is a step of the promise, or none of it.
LEMMA MainPromises ==
  ASSUME ServerInv, ServerInv', orderly, orderly',
         Main \/ StartupFailed \/ Killed \/ Terminated \/ Cleanup
  PROVE  [Lifecycle!Next]_Promise
<1> USE DEF Lifecycle!Next, Lifecycle!Become, Lifecycle!Offer, Lifecycle!Bind, Lifecycle!Serve,
    Lifecycle!Stop, Lifecycle!End, Lifecycle!Fail, Lifecycle!Kill
<1>1. TypeOK /\ TypeOK' /\ StageAndPhase /\ StageAndPhase'
  BY DEF ServerInv, OrderlyStart
<1>2. /\ stage' = "killed" => Promise' = "killed"
      /\ stage' = "failed" => Promise' = "failed"
      /\ stage' = "gone" /\ phase' # "STOPPED" => Promise' = "failed"
      /\ stage' \notin {"killed", "failed"} /\ (stage' = "gone" => phase' = "STOPPED") =>
           /\ phase' \in {"CREATED", "BRIDGE_READY", "GRPC_READY", "HANDSHAKE_SENT"} =>
                Promise' = "starting"
           /\ phase' = "REGISTERING" => Promise' = "offered"
           /\ phase' \in {"REGISTERED", "INSTANTIATING"} => Promise' = "bound"
           /\ phase' = "RUNNING" => Promise' = "serving"
           /\ phase' = "STOPPING" => Promise' = "ending"
           /\ phase' = "STOPPED" => Promise' = "ended"
  BY <1>1 DEF Promise
<1> HIDE DEF Promise
<1>3. CASE phase' = phase /\ stage' \notin {"killed", "failed", "gone"} /\ stage \notin {"killed", "failed", "gone"}
  BY <1>1, <1>2, <1>3, PromiseOfStage, PhaseNames DEF TypeOK
<1>4. CASE Cleanup
  BY <1>1, <1>2, <1>4, PromiseOfStage, PhaseNames DEF Cleanup, TypeOK
<1>5. CASE StartServer
  BY <1>1, <1>2, <1>5, PromiseOfStage DEF StartServer, SetPhase, Advance, StageAndPhase, Unborn
<1>6. CASE HandshakeSent
  BY <1>1, <1>2, <1>6, PromiseOfStage DEF HandshakeSent, SetPhase, Advance, StageAndPhase
<1>7. CASE MarkReady
  BY <1>1, <1>2, <1>7, PromiseOfStage DEF MarkReady, SetPhase, Advance, StageAndPhase
<1>8. CASE HostRegistered
  BY <1>1, <1>2, <1>8, PromiseOfStage, PhasesInOrder DEF HostRegistered, SetPhase, Advance, StageAndPhase
<1>9. CASE MarkInstanced
  BY <1>1, <1>2, <1>9, PromiseOfStage DEF MarkInstanced, SetPhase, Advance, StageAndPhase
<1>10. CASE Terminated
  BY <1>1, <1>2, <1>10, PromiseOfStage DEF Terminated, SetPhase, Advance, StageAndPhase
<1>11. CASE StopLoop
  BY <1>1, <1>2, <1>11, PromiseOfStage DEF StopLoop, SetPhase, Advance, StageAndPhase
<1>12. CASE Gone
  BY <1>1, <1>2, <1>12, PromiseOfStage DEF Gone, StageAndPhase, Early
<1>13. CASE HostNotRegistered \/ StartupFailed
  <2>1. stage \in Starting \ {"installHandlers"} /\ stage' = "failed"
    BY <1>13 DEF HostNotRegistered, StartupFailed, Advance, Starting
  <2>2. phase \in Early
    BY <1>1, <2>1 DEF StageAndPhase, Starting, Unborn, Early
  <2>3. Promise \in {"starting", "offered", "bound"} /\ Promise' = "failed"
    BY <1>1, <1>2, <2>1, <2>2, PromiseOfStage DEF Early, Starting
  <2> QED
    BY <2>3
<1>14. CASE Killed
  <2>1. stage \in Starting /\ stage' = "killed"
    BY <1>14 DEF Killed
  <2>2. phase \in Early \cup {"RUNNING"}
    BY <1>1, <2>1 DEF StageAndPhase, Starting, Unborn, Early
  <2>3. Promise \in {"starting", "offered", "bound", "serving"} /\ Promise' = "killed"
    BY <1>1, <1>2, <2>1, <2>2, PromiseOfStage DEF Early, Starting
  <2> QED
    BY <2>3
<1>15. CASE CheckDependencies \/ BridgeInit \/ ImportPlugin \/ Construct \/ Initialize
            \/ InstallSignalHandlers \/ StopServer
  BY <1>3, <1>15 DEF CheckDependencies, BridgeInit, ImportPlugin, Construct, Initialize,
     InstallSignalHandlers, StopServer, Advance
<1> QED
  BY <1>4, <1>5, <1>6, <1>7, <1>8, <1>9, <1>10, <1>11, <1>12, <1>13, <1>14, <1>15 DEF Main

\* The mark of Register binds; nothing else a worker does changes the promise.
LEMMA WorkersPromise ==
  ASSUME ServerInv, ServerInv', orderly, orderly',
         NEW w \in Workers, Register(w) \/ Handle(w) \/ Work(w)
  PROVE  [Lifecycle!Next]_Promise
<1>1. TypeOK /\ TypeOK' /\ OrderlyStart
  BY DEF ServerInv
<1>2. CASE MarkRegistered(w) /\ Work(w)
  <2>1. phase' = "REGISTERED" /\ stage' = stage /\ stage \in {"waitRegistered", "failed"}
    BY <1>1, <1>2 DEF MarkRegistered, Step, SetPhase, OrderlyStart, OneRegister, Registering, main, Alive, Work
  <2>2. stage = "waitRegistered" => phase \in {"REGISTERING", "REGISTERED"}
    BY <1>1 DEF OrderlyStart, StageAndPhase
  <2>3. CASE stage = "failed"
    <3>1. Promise' = "failed"
      BY <2>1, <2>3 DEF Promise
    <3> QED
      BY <1>1, <2>3, <3>1, PromiseOfStage
  <2>4. CASE stage = "waitRegistered"
    <3>1. Promise' = "bound"
      BY <2>1, <2>4 DEF Promise
    <3>2. Promise \in {"offered", "bound"}
      BY <1>1, <2>2, <2>4, PromiseOfStage
    <3> QED
      BY <3>1, <3>2 DEF Lifecycle!Next, Lifecycle!Bind, Lifecycle!Become
  <2> QED
    BY <2>1, <2>3, <2>4
<1>3. CASE ~MarkRegistered(w)
  <2>1. phase' = phase /\ stage' = stage
    BY <1>3 DEF Register, Handle, Work, RegisterReady, RegisterTimesOut, Build, VersionMismatch,
       RegisterAnswered, SkipHandler, CallHandler, RunCoro, HandlerReturns, CoroutineEnds, main
  <2> QED
    BY <2>1 DEF Promise
<1>4. MarkRegistered(w) => Work(w)
  BY <1>1 DEF MarkRegistered, Register, Handle, Step
<1> QED
  BY <1>2, <1>3, <1>4

LEMMA StepKeepsPromise == ServerInv /\ ServerInv' /\ [Next]_vars => [Lifecycle!Next]_Promise
<1> SUFFICES ASSUME ServerInv, ServerInv', [Next]_vars PROVE [Lifecycle!Next]_Promise
  OBVIOUS
<1>1. CASE UNCHANGED vars
  BY <1>1 DEF Promise, vars, main
<1>2. CASE Next
  <2>1. orderly' = orderly
    BY <1>2, MainLeavesRPCs, OthersWait DEF Next, ServerInv
  <2>2. CASE ~orderly
    BY <2>1, <2>2 DEF Promise
  <2>3. CASE orderly
    BY <1>2, <2>1, <2>3, MainPromises, WorkersPromise DEF Next
  <2> QED
    BY <2>2, <2>3
<1> QED
  BY <1>1, <1>2

\* PluginServer implements PluginLifecycle: for an orderly host the phases are passed in
\* order, none is left out and none comes back (server.py, state.py), with any number of
\* threads.
THEOREM PromiseKept == Spec => KeepsPromise
<1>1. ServerInv /\ Init => Lifecycle!Init
  BY PromiseStarts
<1>2. ServerInv /\ ServerInv' /\ [Next]_vars => [Lifecycle!Next]_Promise
  BY StepKeepsPromise
<1> QED
  BY <1>1, <1>2, ServerKeepsInv, PTL DEF Spec, KeepsPromise, Lifecycle!Spec

-----------------------------------------------------------------------------
(* The inductive invariant of MinimalScheduler                              *)

Holders(j) == {r \in Runners : j \in batch[r]}

\* Every start of a job and every runner that is about to start it is paid for by one time
\* the job came due.
Paid ==
  \A j \in Jobs : ran[j] + Cardinality(Holders(j)) + (IF jobs[j] = "due" THEN 1 ELSE 0) <= dues[j]

BatchIsForLaunch == \A r \in Runners : runner[r] # "launch" => batch[r] = {}

\* What the flag says when it is right.
Told ==
  IF running THEN ~stop /\ \E r \in Runners : Going(r)
  ELSE stop \/ \A r \in Runners : ~Going(r)

\* Careful callers: one call at a time, and what the flags are at each of its steps.
OneCall ==
  /\ \A c, d \in Calls : UnderWay(c) /\ UnderWay(d) => c = d
  /\ (\A c \in Calls : ~UnderWay(c)) => Told
  /\ \A c \in Calls :
       /\ at[c] = "check" => Told
       /\ at[c] = "clear" => ~running /\ Told
       /\ at[c] = "spawn" => ~running /\ ~stop
       /\ at[c] = "set"   => running /\ Told
       /\ at[c] = "reset" => stop

\* The inductive invariant.
SchedulerInv ==
  /\ SchedulerTypeOK
  /\ Paid
  /\ BatchIsForLaunch
  /\ careful => OneCall

-----------------------------------------------------------------------------
(* The threads a job is started in                                          *)

LEMMA HoldersCounted ==
  ASSUME NEW j \in Jobs
  PROVE  IsFiniteSet(Holders(j)) /\ Cardinality(Holders(j)) \in Nat
<1>1. IsFiniteSet(Holders(j))
  BY RunnersAssumption, FS_Subset DEF Holders
<1> QED
  BY <1>1, FS_CardinalityType

LEMMA SchedulerTypes ==
  ASSUME SchedulerTypeOK, SchedulerNext
  PROVE  SchedulerTypeOK'
<1> USE RunnersAssumption DEF SchedulerTypeOK, flags, JobStates, CallSteps, RunnerSteps
<1>1. ASSUME NEW c \in Calls, Begin(c)
      PROVE  SchedulerTypeOK'
  BY <1>1 DEF Begin, AddJob, RemoveJob, Start, Shutdown, Call
<1>2. ASSUME NEW c \in Calls, Continue(c)
      PROVE  SchedulerTypeOK'
  BY <1>2 DEF Continue, CheckRunning, ClearStop, Spawn, SetStop, ResetRunning, Advances
<1>3. ASSUME NEW r \in Runners, Run(r)
      PROVE  SchedulerTypeOK'
  <2>1. CASE Collect(r)
    BY <2>1 DEF Collect, To
  <2>2. ASSUME NEW j \in Jobs, Launch(r, j)
        PROVE  SchedulerTypeOK'
    BY <2>2 DEF Launch
  <2>3. CASE LoopTest(r) \/ Wake(r) \/ WakeTest(r) \/ Again(r)
    BY <2>3 DEF LoopTest, Wake, WakeTest, Again, To
  <2> QED
    BY <1>3, <2>1, <2>2, <2>3 DEF Run
<1>4. ASSUME NEW j \in Jobs, ComeDue(j)
      PROVE  SchedulerTypeOK'
  <2>1. dues[j] + 1 \in 0..MaxDue
    BY <1>4 DEF ComeDue
  <2> QED
    BY <1>4, <2>1 DEF ComeDue
<1> QED
  BY <1>1, <1>2, <1>3, <1>4 DEF SchedulerNext

\* Only Collect fills a batch, and only Launch empties it, a job at a time.
LEMMA BatchStep ==
  ASSUME SchedulerTypeOK, BatchIsForLaunch, SchedulerNext
  PROVE  BatchIsForLaunch'
<1> USE DEF SchedulerTypeOK, BatchIsForLaunch
<1>1. ASSUME NEW c \in Calls, Begin(c) \/ Continue(c)
      PROVE  BatchIsForLaunch'
  <2>1. CASE Begin(c)
    BY <2>1 DEF Begin, AddJob, RemoveJob, Start, Shutdown
  <2>2. CASE Continue(c)
    BY <2>2 DEF Continue, CheckRunning, ClearStop, Spawn, SetStop, ResetRunning
  <2> QED
    BY <1>1, <2>1, <2>2
<1>2. ASSUME NEW r \in Runners, Run(r)
      PROVE  BatchIsForLaunch'
  BY <1>2 DEF Run, LoopTest, Wake, WakeTest, Collect, Launch, Again, To
<1>3. ASSUME NEW j \in Jobs, ComeDue(j)
      PROVE  BatchIsForLaunch'
  BY <1>3 DEF ComeDue
<1> QED
  BY <1>1, <1>2, <1>3 DEF SchedulerNext

\* The calls change what is due, never in favour of a job.
LEMMA CallsPay ==
  ASSUME SchedulerTypeOK, Paid, NEW c \in Calls, Begin(c) \/ Continue(c)
  PROVE  Paid'
<1>1. UNCHANGED <<batch, dues, ran>>
  BY DEF Begin, Continue, AddJob, RemoveJob, Start, Shutdown, CheckRunning, ClearStop, Spawn,
     SetStop, ResetRunning
<1>2. ASSUME NEW j \in Jobs, jobs'[j] = "due"
      PROVE  jobs[j] = "due"
  BY <1>2 DEF SchedulerTypeOK, Begin, Continue, AddJob, RemoveJob, Start, Shutdown, CheckRunning,
     ClearStop, Spawn, SetStop, ResetRunning
<1>3. \A j \in Jobs : Holders(j)' = Holders(j)
  BY <1>1 DEF Holders
<1> QED
  BY <1>1, <1>2, <1>3, HoldersCounted DEF Paid, SchedulerTypeOK

LEMMA RunnersPay ==
  ASSUME SchedulerTypeOK, BatchIsForLaunch, Paid, NEW r \in Runners, Run(r)
  PROVE  Paid'
<1> USE DEF SchedulerTypeOK
<1> SUFFICES ASSUME NEW j \in Jobs
             PROVE  ran'[j] + Cardinality(Holders(j)') + (IF jobs'[j] = "due" THEN 1 ELSE 0) <= dues'[j]
  BY DEF Paid
<1>1. ran[j] + Cardinality(Holders(j)) + (IF jobs[j] = "due" THEN 1 ELSE 0) <= dues[j]
  BY DEF Paid
<1>2. CASE LoopTest(r) \/ Wake(r) \/ WakeTest(r) \/ Again(r)
  <2>1. Holders(j)' = Holders(j) /\ UNCHANGED <<ran, jobs, dues>>
    BY <1>2 DEF LoopTest, Wake, WakeTest, Again, Holders
  <2> QED
    BY <1>1, <2>1
<1>3. CASE Collect(r)
  <2>1. r \notin Holders(j) /\ UNCHANGED <<ran, dues>> /\ jobs'[j] # "due"
    BY <1>3 DEF Collect, To, BatchIsForLaunch, Holders
  <2>2. CASE jobs[j] = "due"
    <3>1. Holders(j)' = Holders(j) \cup {r}
      BY <1>3, <2>2 DEF Collect, Holders
    <3>2. Cardinality(Holders(j)') = Cardinality(Holders(j)) + 1
      BY <2>1, <3>1, HoldersCounted, FS_AddElement
    <3> QED
      BY <1>1, <2>1, <2>2, <3>2, HoldersCounted
  <2>3. CASE jobs[j] # "due"
    <3>1. Holders(j)' = Holders(j)
      BY <1>3, <2>1, <2>3 DEF Collect, Holders
    <3> QED
      BY <1>1, <2>1, <2>3, <3>1, HoldersCounted
  <2> QED
    BY <2>2, <2>3
<1>4. ASSUME NEW i \in Jobs, Launch(r, i)
      PROVE  ran'[j] + Cardinality(Holders(j)') + (IF jobs'[j] = "due" THEN 1 ELSE 0) <= dues'[j]
  <2>1. UNCHANGED <<jobs, dues>>
    BY <1>4 DEF Launch
  <2>2. CASE i = j
    <3>1. Holders(j)' = Holders(j) \ {r} /\ r \in Holders(j) /\ ran'[j] = ran[j] + 1
      BY <1>4, <2>2 DEF Launch, Holders
    <3>2. Cardinality(Holders(j)') = Cardinality(Holders(j)) - 1
      BY <3>1, HoldersCounted, FS_RemoveElement
    <3> QED
      BY <1>1, <2>1, <3>1, <3>2, HoldersCounted
  <2>3. CASE i # j
    <3>1. Holders(j)' = Holders(j) /\ ran'[j] = ran[j]
      BY <1>4, <2>3 DEF Launch, Holders
    <3> QED
      BY <1>1, <2>1, <3>1
  <2> QED
    BY <2>2, <2>3
<1> QED
  BY <1>2, <1>3, <1>4 DEF Run

LEMMA ClockPays ==
  ASSUME SchedulerTypeOK, Paid, NEW i \in Jobs, ComeDue(i)
  PROVE  Paid'
<1> SUFFICES ASSUME NEW j \in Jobs
             PROVE  ran'[j] + Cardinality(Holders(j)') + (IF jobs'[j] = "due" THEN 1 ELSE 0) <= dues'[j]
  BY DEF Paid
<1>1. ran[j] + Cardinality(Holders(j)) + (IF jobs[j] = "due" THEN 1 ELSE 0) <= dues[j]
  BY DEF Paid
<1>2. Holders(j)' = Holders(j) /\ ran' = ran
  BY DEF ComeDue, Holders
<1>3. CASE i = j
  BY <1>1, <1>2, <1>3, HoldersCounted DEF ComeDue, SchedulerTypeOK
<1>4. CASE i # j
  BY <1>1, <1>2, <1>4 DEF ComeDue, SchedulerTypeOK
<1> QED
  BY <1>3, <1>4

-----------------------------------------------------------------------------
(* The flag                                                                 *)

\* Runners, the clock and the job table leave a flag that is right right: a runner ends
\* only on the stop event.
LEMMA RunnersKeepTheFlag ==
  ASSUME SchedulerTypeOK, OneCall, (\E r \in Runners : Run(r)) \/ (\E j \in Jobs : ComeDue(j))
  PROVE  OneCall'
<1>1. at' = at /\ running' = running /\ stop' = stop
  BY DEF Run, LoopTest, Wake, WakeTest, Collect, Launch, Again, ComeDue, flags
<1>2. Told => Told'
  <2>1. \A r \in Runners : ~Going(r) => ~Going(r)'
    BY DEF SchedulerTypeOK, Going, Run, LoopTest, Wake, WakeTest, Collect, Launch, Again, ComeDue, To
  <2>2. ~stop => \A r \in Runners : Going(r) => Going(r)'
    BY DEF SchedulerTypeOK, Going, Run, LoopTest, Wake, WakeTest, Collect, Launch, Again, ComeDue, To
  <2> QED
    BY <1>1, <2>1, <2>2 DEF Told
<1> QED
  BY <1>1, <1>2 DEF OneCall, UnderWay

\* A call that begins begins alone, and finds the flag right.
LEMMA CallsBegin ==
  ASSUME SchedulerTypeOK, careful, OneCall, NEW c \in Calls, Begin(c)
  PROVE  OneCall'
<1>1. (\A d \in Calls : ~UnderWay(d)) /\ Told
  BY DEF Begin, AddJob, RemoveJob, Start, Shutdown, Call, Serial, OneCall
<1>2. UNCHANGED <<running, stop, runner>>
  BY DEF Begin, AddJob, RemoveJob, Start, Shutdown, flags
<1>3. Told'
  BY <1>1, <1>2 DEF Told, Going
<1>4. /\ \A d \in Calls : d # c => at'[d] \in {"new", "done"}
      /\ at'[c] \in {"done", "check"} \/ (at'[c] = "set" /\ running)
  <2>1. \A d \in Calls : d # c => at'[d] = at[d]
    BY DEF SchedulerTypeOK, Begin, AddJob, RemoveJob, Start, Shutdown, Call
  <2>2. at'[c] \in {"done", "check"} \/ (at'[c] = "set" /\ running)
    BY DEF SchedulerTypeOK, Begin, AddJob, RemoveJob, Start, Shutdown, Call
  <2> QED
    BY <1>1, <2>1, <2>2 DEF UnderWay
<1> QED
  BY <1>2, <1>3, <1>4 DEF OneCall, UnderWay

\* Its further steps: the event is cleared before the runner is spawned and the flag raised,
\* and set before the flag is dropped.
LEMMA CallsContinue ==
  ASSUME SchedulerTypeOK, OneCall, NEW c \in Calls, Continue(c)
  PROVE  OneCall'
<1> USE DEF SchedulerTypeOK
<1>1. at[c] \in {"check", "clear", "spawn", "set", "reset"} /\ \A d \in Calls : d # c => at'[d] = at[d]
  BY DEF Continue, CheckRunning, ClearStop, Spawn, SetStop, ResetRunning, Advances
<1>2. \A d \in Calls : d # c => at'[d] \in {"new", "done"}
  BY <1>1 DEF OneCall, UnderWay
<1>3. CASE CheckRunning(c)
  <2>1. /\ UNCHANGED <<running, stop, runner>> /\ Told
        /\ (running /\ at'[c] = "done") \/ (~running /\ at'[c] = "clear")
    BY <1>3 DEF CheckRunning, Advances, OneCall, flags
  <2>2. Told'
    BY <2>1 DEF Told, Going
  <2> QED
    BY <1>2, <2>1, <2>2 DEF OneCall, UnderWay
<1>4. CASE ClearStop(c)
  <2>1. ~running' /\ ~stop' /\ at'[c] = "spawn"
    BY <1>4 DEF ClearStop, Advances, OneCall
  <2> QED
    BY <1>2, <2>1 DEF OneCall, UnderWay
<1>5. ASSUME NEW r \in Runners, Spawn(c, r)
      PROVE  OneCall'
  <2>1. running' /\ ~stop' /\ at'[c] = "done" /\ Going(r)'
    BY <1>5 DEF Spawn, Advances, OneCall, Going
  <2>2. Told'
    BY <2>1 DEF Told
  <2> QED
    BY <1>2, <2>1, <2>2 DEF OneCall, UnderWay
<1>6. CASE SetStop(c)
  <2>1. stop' /\ at'[c] = "reset"
    BY <1>6 DEF SetStop, Advances
  <2> QED
    BY <1>2, <2>1 DEF OneCall, UnderWay
<1>7. CASE ResetRunning(c)
  <2>1. stop' /\ ~running' /\ at'[c] = "done"
    BY <1>7 DEF ResetRunning, Advances, OneCall
  <2>2. Told'
    BY <2>1 DEF Told
  <2> QED
    BY <1>2, <2>1, <2>2 DEF OneCall, UnderWay
<1> QED
  BY <1>3, <1>4, <1>5, <1>6, <1>7 DEF Continue

-----------------------------------------------------------------------------
(* The theorem about MinimalScheduler                                       *)

LEMMA SchedulerStarts == SchedulerInit => SchedulerInv
<1> SUFFICES ASSUME SchedulerInit PROVE SchedulerInv
  OBVIOUS
<1>1. SchedulerTypeOK
  <2>1. 0 \in 0..MaxDue
    BY RunnersAssumption
  <2>2. /\ careful \in BOOLEAN /\ running \in BOOLEAN /\ stop \in BOOLEAN
        /\ jobs \in [Jobs -> JobStates] /\ at \in [Calls -> CallSteps]
        /\ runner \in [Runners -> RunnerSteps] /\ batch \in [Runners -> SUBSET Jobs]
    BY DEF SchedulerInit, JobStates, CallSteps, RunnerSteps
  <2>3. dues \in [Jobs -> 0..MaxDue] /\ ran \in [Jobs -> Nat]
    BY <2>1 DEF SchedulerInit
  <2> QED
    BY <2>2, <2>3 DEF SchedulerTypeOK
<1>2. Paid
  <2>1. \A j \in Jobs : Holders(j) = {}
    BY DEF SchedulerInit, Holders
  <2> QED
    BY <2>1, FS_EmptySet DEF SchedulerInit, Paid
<1>3. OneCall
  BY DEF SchedulerInit, OneCall, UnderWay, Told, Going
<1>4. BatchIsForLaunch
  BY DEF SchedulerInit, BatchIsForLaunch
<1> QED
  BY <1>1, <1>2, <1>3, <1>4 DEF SchedulerInv

LEMMA SchedulerStep == SchedulerInv /\ [SchedulerNext]_scheduler => SchedulerInv'
<1> SUFFICES ASSUME SchedulerInv, [SchedulerNext]_scheduler PROVE SchedulerInv'
  OBVIOUS
<1>1. CASE UNCHANGED scheduler
  <2>1. UNCHANGED <<careful, running, stop, jobs, at, runner, batch, dues, ran>>
    BY <1>1 DEF scheduler, flags
  <2>2. \A j \in Jobs : Holders(j)' = Holders(j)
    BY <2>1 DEF Holders
  <2>3. Paid'
    BY <2>1, <2>2 DEF SchedulerInv, Paid
  <2>4. (SchedulerTypeOK /\ BatchIsForLaunch /\ (careful => OneCall))'
    BY <2>1 DEF SchedulerInv, SchedulerTypeOK, BatchIsForLaunch, OneCall, Told, UnderWay, Going
  <2> QED
    BY <2>3, <2>4 DEF SchedulerInv
<1>2. CASE SchedulerNext
  <2>1. SchedulerTypeOK' /\ BatchIsForLaunch'
    BY <1>2, SchedulerTypes, BatchStep DEF SchedulerInv
  <2>2. Paid'
    BY <1>2, CallsPay, RunnersPay, ClockPays DEF SchedulerInv, SchedulerNext
  <2>3. careful' = careful
    BY <1>2 DEF SchedulerNext, Begin, Continue, Run, AddJob, RemoveJob, Start, Shutdown,
       CheckRunning, ClearStop, Spawn, SetStop, ResetRunning, LoopTest, Wake, WakeTest, Collect,
       Launch, Again, ComeDue
  <2>4. careful => OneCall'
    BY <1>2, RunnersKeepTheFlag, CallsBegin, CallsContinue DEF SchedulerInv, SchedulerNext
  <2> QED
    BY <2>1, <2>2, <2>3, <2>4 DEF SchedulerInv
<1> QED
  BY <1>1, <1>2

\* A job is started at most once for each time it comes due, with any number of runners and
\* calls; and with callers that wait for each other the flag tells whether a runner goes on
\* (_MinimalScheduler of cron_manager.py).
THEOREM SchedulerSafe == SchedulerSpec => []SchedulerIsRight
<1>1. SchedulerInv => SchedulerIsRight
  <2> SUFFICES ASSUME SchedulerInv PROVE SchedulerIsRight
    OBVIOUS
  <2>1. OncePerDue
    <3> SUFFICES ASSUME NEW j \in Jobs PROVE ran[j] <= dues[j]
      BY DEF OncePerDue
    <3>1. ran[j] + Cardinality(Holders(j)) + (IF jobs[j] = "due" THEN 1 ELSE 0) <= dues[j]
      BY DEF SchedulerInv, Paid
    <3> QED
      BY <3>1, HoldersCounted DEF SchedulerInv, SchedulerTypeOK
  <2>2. FlagIsRight
    BY DEF SchedulerInv, OneCall, Told, FlagIsRight
  <2> QED
    BY <2>1, <2>2 DEF SchedulerIsRight
<1> QED
  BY <1>1, SchedulerStarts, SchedulerStep, PTL DEF SchedulerSpec
=============================================================================
