------------------------- MODULE SharedRuntimeProofs -------------------------
(***************************************************************************)
(* Theorems about SharedRuntime for any number of plugins, loads and       *)
(* threads.  Those of the first part hold for every Discipline, the empty  *)
(* one included: whatever the host sends.  Those of the second part are    *)
(* about a host and plugins that keep to the four disciplines.             *)
(***************************************************************************)
EXTENDS SharedRuntime, TLAPS

\* The steps in which the locals session and servicer are assigned.
HasSession  == InContext \cup {"loadServicer", "registerServicer", "handleServicer",
                               "starServicer"}
HasServicer == {"import", "ready", "waitReady", "registered", "waitRunning", "handler",
                "construct", "initialize", "publish", "adopt", "running", "active"}

\* The locals of a thread fit the step it is at.
LocalsFit ==
  \A t \in Threads :
    /\ t \in Starters <=> pc[t] \in StarterSteps \cup {"unborn", "done"}
    /\ pc[t] \notin Quiescent => plugin[t] \in Plugins
    /\ pc[t] \in HasSession => session[t] \in Loads
    /\ pc[t] \in HasServicer => servicer[t] \in Loads
    /\ pc[t] \in LoadSteps => meta[t] \in Loads
    /\ pc[t] \in {"initialize", "publish", "adopt", "running", "active"} => meta[t] \in Loads
    /\ pc[t] \in RegisterSteps \ {"answer"} => spawn[t] \in Starters

\* The thread a pending Register will spawn is not born, and promised once: the
\* spawn disturbs no running instantiation.
SpawnsFresh ==
  \A t \in Threads : spawn[t] # NoOne =>
    /\ t \in Workers
    /\ pc[t] # "idle"
    /\ pc[spawn[t]] = "unborn"
    /\ \A w \in Threads : spawn[w] = spawn[t] => w = t

\* The order of instantiate: the Star is built, then published, then the gate opened.
GateOrder ==
  /\ \A i \in Loads : phase[i] = "RUNNING" => inst[i] # NoOne
  /\ \A u \in Threads :
       /\ pc[u] \in {"initialize", "publish", "adopt"} => star[meta[u]] # NoOne
       /\ pc[u] \in {"adopt", "running"} => inst[servicer[u]] # NoOne

\* HandlerGated alone is not inductive: that an open gate means a published Star
\* rests on the order in which the instantiation thread works (GateOrder), and that
\* on the locals it works with (LocalsFit), which no other thread touches
\* (SpawnsFresh).
IInv == TypeOK /\ LocalsFit /\ SpawnsFresh /\ GateOrder /\ HandlerGated /\ ContextPaired

(***************************************************************************)
(* What the steps common to many actions do to the threads                 *)
(***************************************************************************)
ThreadsTyped ==
  /\ pc       \in [Threads -> Steps]
  /\ ctx      \in [Threads -> Loads \cup {NoOne}]
  /\ plugin   \in [Threads -> Plugins \cup {NoOne}]
  /\ session  \in [Threads -> Loads \cup {NoOne}]
  /\ servicer \in [Threads -> Loads \cup {NoOne}]
  /\ meta     \in [Threads -> Loads \cup Starters \cup {NoOne}]
  /\ spawn    \in [Threads -> Starters \cup {NoOne}]

USE DEF maps, sessions, gates, stars, objects, locals, inputs

\* A step to a known place keeps pc in its type.
LEMMA StepTyped ==
  ASSUME TypeOK, NEW t \in Threads, NEW from, NEW to \in Steps, Step(t, from, to)
  PROVE  pc' \in [Threads -> Steps]
  BY DEF TypeOK, Step

\* Finish leaves every thread variable in its type.
LEMMA FinishTyped ==
  ASSUME TypeOK, NEW t \in Threads, Finish(t)
  PROVE  ThreadsTyped'
<1>1. {"idle", "done"} \subseteq Steps
  BY DEF Steps, Quiescent
<1> QED
  BY <1>1 DEF TypeOK, ThreadsTyped, Finish, Enter

\* A thread that ends its work preserves the invariant, if the state it leaves
\* behind opens no gate.
LEMMA FinishInv ==
  ASSUME IInv, NEW t \in Threads, pc[t] \notin Quiescent, Finish(t),
         UNCHANGED <<registry, instance, handlers, inst, commands, star, inputs>>,
         life' \in [Starters -> Lives],
         servicers' \in [Plugins -> Loads \cup {NoOne}],
         lifecycle' \in [Loads -> Lifecycles],
         phase' \in [Loads -> Phases],
         \A i \in Loads : phase'[i] = "RUNNING" => phase[i] = "RUNNING"
  PROVE  IInv'
<1>1. TypeOK'
  BY FinishTyped DEF IInv, TypeOK, ThreadsTyped
<1>2. LocalsFit'
  BY DEF IInv, Finish, TypeOK, LocalsFit, LoadSteps, HasSession, HasServicer,
         StarterSteps, RegisterSteps, InContext, Quiescent
<1>3. SpawnsFresh'
  BY DEF IInv, Finish, TypeOK, SpawnsFresh, LocalsFit, StarterSteps, Quiescent,
     Threads
<1>4. GateOrder'
  BY DEF IInv, Finish, TypeOK, GateOrder
<1>5. HandlerGated'
  BY DEF IInv, Finish, TypeOK, HandlerGated
<1>6. ContextPaired'
  BY DEF IInv, Finish, Enter, TypeOK, ContextPaired, InContext
<1> QED
  BY <1>1, <1>2, <1>3, <1>4, <1>5, <1>6 DEF IInv

\* So does a look-up in the registry, found or missed.
LEMMA LookUpSessionInv ==
  ASSUME IInv, NEW t \in Threads, NEW from, NEW to,
         <<from, to>> \in {<<"loadSession", "loadServicer">>,
                           <<"registerSession", "registerServicer">>,
                           <<"handleSession", "handleServicer">>,
                           <<"starSession", "starServicer">>},
         LookUpSession(t, from, to), UNCHANGED <<maps, objects, inputs>>
  PROVE  IInv'
<1>0. /\ pc[t] = from
      /\ pc[t] \notin Quiescent
      /\ plugin[t] \in Plugins
  BY DEF LookUpSession, IInv, LocalsFit, Quiescent
<1>a. CASE registry[plugin[t]] = NoOne
  BY <1>0, <1>a, FinishInv DEF LookUpSession, IInv, TypeOK
<1>b. CASE registry[plugin[t]] # NoOne
  <2>0. /\ pc' = [pc EXCEPT ![t] = to]
        /\ session' = [session EXCEPT ![t] = registry[plugin[t]]]
        /\ UNCHANGED <<ctx, plugin, servicer, meta, spawn>>
        /\ registry[plugin[t]] \in Loads
    BY <1>0, <1>b DEF LookUpSession, IInv, TypeOK
  <2>1. TypeOK'
    BY <2>0 DEF IInv, TypeOK, Steps, LoadSteps, RegisterSteps, HandleSteps,
       StarterSteps
  <2>2. LocalsFit'
    BY <1>0, <2>0 DEF IInv, TypeOK, LocalsFit, LoadSteps, HasSession, HasServicer,
       StarterSteps, RegisterSteps, InContext, Quiescent
  <2>3. SpawnsFresh'
    BY <1>0, <2>0 DEF IInv, TypeOK, SpawnsFresh, LocalsFit, StarterSteps, Threads
  <2>4. GateOrder'
    BY <1>0, <2>0 DEF IInv, TypeOK, GateOrder
  <2>5. HandlerGated'
    BY <1>0, <2>0 DEF IInv, TypeOK, HandlerGated
  <2>6. ContextPaired'
    BY <1>0, <2>0 DEF IInv, TypeOK, ContextPaired, InContext
  <2> QED
    BY <2>1, <2>2, <2>3, <2>4, <2>5, <2>6 DEF IInv
<1> QED
  BY <1>a, <1>b

\* And a look-up of the servicer that finds one; load_plugin also resets the
\* session's registries.
LEMMA FoundServicerInv ==
  ASSUME IInv, NEW t \in Threads, NEW from, NEW to,
         <<from, to>> \in {<<"loadServicer", "import">>,
                           <<"registerServicer", "waitReady">>,
                           <<"handleServicer", "waitRunning">>,
                           <<"starServicer", "construct">>},
         LookUpServicer(t, from, to), servicers[plugin[t]] # NoOne,
         UNCHANGED <<maps, instance, gates, stars, inputs>>,
         lifecycle' \in [Loads -> Lifecycles],
         handlers' \in [Loads -> SUBSET Loads]
  PROVE  IInv'
<1>0. /\ pc[t] = from
      /\ pc' = [pc EXCEPT ![t] = to]
      /\ servicer' = [servicer EXCEPT ![t] = servicers[plugin[t]]]
      /\ ctx' = [ctx EXCEPT ![t] = session[t]]
      /\ UNCHANGED <<plugin, session, meta, spawn>>
  BY DEF LookUpServicer, Enter
<1>t. servicers[plugin[t]] \in Loads /\ session[t] \in Loads
  <2>1. pc[t] \notin Quiescent /\ pc[t] \in HasSession
    BY <1>0 DEF Quiescent, HasSession
  <2> QED
    BY <2>1 DEF IInv, TypeOK, LocalsFit
<1>1. TypeOK'
  BY <1>0, <1>t DEF IInv, TypeOK, Steps, LoadSteps, RegisterSteps, HandleSteps,
     StarterSteps
<1>2. LocalsFit'
  BY <1>0, <1>t DEF IInv, TypeOK, LocalsFit, LoadSteps, HasSession, HasServicer,
     StarterSteps, RegisterSteps, InContext, Quiescent
<1>3. SpawnsFresh'
  BY <1>0 DEF IInv, TypeOK, SpawnsFresh, LocalsFit, StarterSteps, Threads
<1>4. GateOrder'
  BY <1>0 DEF IInv, TypeOK, GateOrder
<1>5. HandlerGated'
  BY <1>0 DEF IInv, TypeOK, HandlerGated
<1>6. ContextPaired'
  BY <1>0 DEF IInv, TypeOK, ContextPaired, InContext
<1> QED
  BY <1>1, <1>2, <1>3, <1>4, <1>5, <1>6 DEF IInv

\* Missed or found.
LEMMA LookUpServicerInv ==
  ASSUME IInv, NEW t \in Threads, NEW from, NEW to,
         <<from, to>> \in {<<"registerServicer", "waitReady">>,
                           <<"handleServicer", "waitRunning">>,
                           <<"starServicer", "construct">>},
         LookUpServicer(t, from, to), UNCHANGED <<maps, objects, inputs>>
  PROVE  IInv'
<1>1. pc[t] \notin Quiescent
  BY DEF LookUpServicer, Quiescent
<1>2. CASE servicers[plugin[t]] = NoOne
  BY <1>1, <1>2, FinishInv DEF LookUpServicer, IInv, TypeOK
<1>3. CASE servicers[plugin[t]] # NoOne
  BY <1>3, FoundServicerInv DEF IInv, TypeOK
<1> QED
  BY <1>2, <1>3

-----------------------------------------------------------------------------
(* One lemma per action: it preserves the inductive invariant, conjunct by   *)
(* conjunct.                                                               *)

\* load: the session is added, then the servicer; the locals stand.
LEMMA AddSessionInv ==
  ASSUME IInv, NEW t \in Workers \cup {Main}, AddSession(t)
  PROVE  IInv'
<1>0. t \in Threads
  BY DEF Threads
<1>1. TypeOK'
  BY DEF IInv, TypeOK, AddSession, Step, Steps, LoadSteps, LocalsFit, Enter, Threads
<1>2. LocalsFit'
  BY DEF IInv, AddSession, Step, LocalsFit, LoadSteps, HasSession, HasServicer,
     StarterSteps, RegisterSteps, InContext, Quiescent, Threads, Enter
<1>3. SpawnsFresh'
  BY DEF IInv, AddSession, Step, SpawnsFresh, Threads, Enter
<1>4. GateOrder'
  BY DEF IInv, AddSession, Step, GateOrder, Threads, Enter
<1>5. HandlerGated'
  BY DEF IInv, AddSession, Step, HandlerGated, Threads, Enter
<1>6. ContextPaired'
  BY DEF IInv, AddSession, Step, ContextPaired, InContext, Threads, Enter
<1> QED
  BY <1>1, <1>2, <1>3, <1>4, <1>5, <1>6 DEF IInv

LEMMA AddServicerInv ==
  ASSUME IInv, NEW t \in Workers \cup {Main}, AddServicer(t)
  PROVE  IInv'
<1>0. t \in Threads
  BY DEF Threads
<1>1. TypeOK'
  BY DEF IInv, TypeOK, AddServicer, Step, Steps, LoadSteps, LocalsFit, Enter,
     Threads
<1>2. LocalsFit'
  BY DEF IInv, AddServicer, Step, LocalsFit, LoadSteps, HasSession,
     HasServicer, StarterSteps, RegisterSteps, InContext, Quiescent, Threads,
     Enter
<1>3. SpawnsFresh'
  BY DEF IInv, AddServicer, Step, SpawnsFresh, Threads, Enter
<1>4. GateOrder'
  BY DEF IInv, AddServicer, Step, GateOrder, Threads, Enter
<1>5. HandlerGated'
  BY DEF IInv, AddServicer, Step, HandlerGated, Threads, Enter
<1>6. ContextPaired'
  BY DEF IInv, AddServicer, Step, ContextPaired, InContext, Threads, Enter
<1> QED
  BY <1>1, <1>2, <1>3, <1>4, <1>5, <1>6 DEF IInv

\* The look-ups of load_plugin.
LEMMA LoadSessionInv ==
  ASSUME IInv, NEW t \in Workers \cup {Main}, LoadSession(t)
  PROVE  IInv'
<1>0. t \in Threads
  BY DEF Threads
<1> QED
  BY <1>0, LookUpSessionInv DEF LoadSession

LEMMA LoadServicerInv ==
  ASSUME IInv, NEW t \in Workers \cup {Main}, LoadServicer(t)
  PROVE  IInv'
<1>0. t \in Threads
  BY DEF Threads
<1>1. pc[t] \notin Quiescent
  BY DEF LoadServicer, LookUpServicer, Quiescent
<1>2. CASE servicers[plugin[t]] = NoOne
  BY <1>0, <1>1, <1>2, FinishInv DEF LoadServicer, LookUpServicer, IInv, TypeOK
<1>3. CASE servicers[plugin[t]] # NoOne
  <2>1. lifecycle' \in [Loads -> Lifecycles] /\ handlers' \in [Loads -> SUBSET Loads]
    BY <1>3 DEF LoadServicer, IInv, TypeOK, Lifecycles
  <2> QED
    BY <1>0, <1>3, <2>1, FoundServicerInv DEF LoadServicer
<1> QED
  BY <1>2, <1>3

\* The import: ContextPaired makes ctx[t] the session of the thread.
LEMMA ImportOkInv ==
  ASSUME IInv, NEW t \in Workers \cup {Main}, ImportOk(t)
  PROVE  IInv'
<1>0. t \in Threads
  BY DEF Threads
<1>1. TypeOK'
  <2>1. ctx[t] \in Loads
    BY <1>0 DEF IInv, ImportOk, Step, ContextPaired, InContext, LocalsFit,
       HasSession
  <2> QED
    BY <1>0, <2>1 DEF IInv, TypeOK, ImportOk, Step, LocalsFit, HasSession,
       InContext, Steps, LoadSteps, StarterSteps
<1>2. LocalsFit'
  BY DEF IInv, ImportOk, Step, LocalsFit, LoadSteps, HasSession, HasServicer,
     StarterSteps, RegisterSteps, InContext, Quiescent, Threads, Enter
<1>3. SpawnsFresh'
  BY DEF IInv, ImportOk, Step, SpawnsFresh, Threads, Enter
<1>4. GateOrder'
  BY DEF IInv, ImportOk, Step, GateOrder, Threads, Enter
<1>5. HandlerGated'
  BY DEF IInv, ImportOk, Step, HandlerGated, Threads, Enter
<1>6. ContextPaired'
  BY DEF IInv, ImportOk, Step, ContextPaired, InContext, Threads, Enter
<1> QED
  BY <1>1, <1>2, <1>3, <1>4, <1>5, <1>6 DEF IInv

LEMMA ImportFailsInv ==
  ASSUME IInv, NEW t \in Workers \cup {Main}, ImportFails(t)
  PROVE  IInv'
<1>0. t \in Threads
  BY DEF Threads
<1> QED
  BY <1>0, FinishInv DEF ImportFails, Quiescent, Lifecycles, IInv, TypeOK

LEMMA MarkReadyInv ==
  ASSUME IInv, NEW t \in Workers \cup {Main}, MarkReady(t)
  PROVE  IInv'
<1>0. t \in Threads
  BY DEF Threads
<1> QED
  BY <1>0, FinishInv DEF MarkReady, Quiescent, Lifecycles, Phases, IInv, TypeOK

\* The look-ups of dispatch.
LEMMA RouteSessionInv ==
  ASSUME IInv, NEW t \in Workers, RouteSession(t)
  PROVE  IInv'
<1>0. t \in Threads
  BY DEF Threads
<1> QED
  BY <1>0, LookUpSessionInv DEF RouteSession

LEMMA RouteServicerInv ==
  ASSUME IInv, NEW t \in Workers, RouteServicer(t)
  PROVE  IInv'
<1>0. t \in Threads
  BY DEF Threads
<1> QED
  BY <1>0, LookUpServicerInv DEF RouteServicer

\* Register.
LEMMA RegisterReadyInv ==
  ASSUME IInv, NEW t \in Workers, RegisterReady(t)
  PROVE  IInv'
<1>0. t \in Threads
  BY DEF Threads
<1>1. TypeOK'
  <2>1. ctx[t] \in Loads
    BY <1>0 DEF IInv, RegisterReady, BuildRegistry, Step, ContextPaired,
       InContext, LocalsFit, HasSession
  <2> QED
    BY <2>1 DEF IInv, TypeOK, RegisterReady, BuildRegistry, Step, Steps,
       RegisterSteps, StarterSteps
<1>2. LocalsFit'
  BY DEF IInv, RegisterReady, BuildRegistry, Step, LocalsFit, LoadSteps,
     HasSession, HasServicer, StarterSteps, RegisterSteps, InContext,
     Quiescent, Threads, Enter
<1>3. SpawnsFresh'
  BY DEF IInv, RegisterReady, BuildRegistry, Step, SpawnsFresh, Threads, Enter
<1>4. GateOrder'
  BY DEF IInv, RegisterReady, BuildRegistry, Step, GateOrder, Threads, Enter
<1>5. HandlerGated'
  BY DEF IInv, RegisterReady, BuildRegistry, Step, HandlerGated, Threads, Enter
<1>6. ContextPaired'
  BY DEF IInv, RegisterReady, BuildRegistry, Step, ContextPaired, InContext,
     Threads, Enter
<1> QED
  BY <1>1, <1>2, <1>3, <1>4, <1>5, <1>6 DEF IInv

LEMMA RegisterTimesOutInv ==
  ASSUME IInv, NEW t \in Workers, RegisterTimesOut(t)
  PROVE  IInv'
<1>0. t \in Threads
  BY DEF Threads
<1>1. TypeOK'
  <2>1. ctx[t] \in Loads
    BY <1>0 DEF IInv, RegisterTimesOut, BuildRegistry, Step, ContextPaired,
       InContext, LocalsFit, HasSession
  <2> QED
    BY <2>1 DEF IInv, TypeOK, RegisterTimesOut, BuildRegistry, Step, Steps,
       RegisterSteps, StarterSteps
<1>2. LocalsFit'
  BY DEF IInv, RegisterTimesOut, BuildRegistry, Step, LocalsFit, LoadSteps,
     HasSession, HasServicer, StarterSteps, RegisterSteps, InContext,
     Quiescent, Threads, Enter
<1>3. SpawnsFresh'
  BY DEF IInv, RegisterTimesOut, BuildRegistry, Step, SpawnsFresh, Threads, Enter
<1>4. GateOrder'
  BY DEF IInv, RegisterTimesOut, BuildRegistry, Step, GateOrder, Threads, Enter
<1>5. HandlerGated'
  BY DEF IInv, RegisterTimesOut, BuildRegistry, Step, HandlerGated, Threads, Enter
<1>6. ContextPaired'
  BY DEF IInv, RegisterTimesOut, BuildRegistry, Step, ContextPaired, InContext,
     Threads, Enter
<1> QED
  BY <1>1, <1>2, <1>3, <1>4, <1>5, <1>6 DEF IInv

LEMMA VersionMismatchInv ==
  ASSUME IInv, NEW t \in Workers, VersionMismatch(t)
  PROVE  IInv'
<1>0. t \in Threads
  BY DEF Threads
<1>1. TypeOK'
  BY DEF IInv, TypeOK, VersionMismatch, Step, Steps, FailureSteps, Enter, Threads
<1>2. LocalsFit'
  BY DEF IInv, VersionMismatch, Step, LocalsFit, LoadSteps, HasSession,
     HasServicer, StarterSteps, RegisterSteps, InContext, Quiescent, Threads,
     Enter
<1>3. SpawnsFresh'
  BY DEF IInv, VersionMismatch, Step, SpawnsFresh, Threads, Enter
<1>4. GateOrder'
  BY DEF IInv, VersionMismatch, Step, GateOrder, Threads, Enter
<1>5. HandlerGated'
  BY DEF IInv, VersionMismatch, Step, HandlerGated, Threads, Enter
<1>6. ContextPaired'
  BY DEF IInv, VersionMismatch, Step, ContextPaired, InContext, Threads, Enter
<1> QED
  BY <1>1, <1>2, <1>3, <1>4, <1>5, <1>6 DEF IInv

LEMMA RegisteredInv ==
  ASSUME IInv, NEW t \in Workers, Registered(t)
  PROVE  IInv'
<1>0. t \in Threads
  BY DEF Threads
<1>1. TypeOK'
  BY DEF IInv, TypeOK, Registered, Step, Enter, Steps, RegisterSteps, Phases,
     Threads
<1>2. LocalsFit'
  BY DEF IInv, Registered, Step, LocalsFit, LoadSteps, HasSession, HasServicer,
     StarterSteps, RegisterSteps, InContext, Quiescent, Threads
<1>3. SpawnsFresh'
  BY DEF IInv, Registered, Step, SpawnsFresh, Threads
<1>4. GateOrder'
  BY DEF IInv, Registered, Step, GateOrder, Threads
<1>5. HandlerGated'
  BY DEF IInv, Registered, Step, HandlerGated, Threads
<1>6. ContextPaired'
  BY DEF IInv, Registered, Step, Enter, TypeOK, ContextPaired, InContext, Threads
<1> QED
  BY <1>1, <1>2, <1>3, <1>4, <1>5, <1>6 DEF IInv

LEMMA NothingToInstantiateInv ==
  ASSUME IInv, NEW t \in Workers, NothingToInstantiate(t)
  PROVE  IInv'
<1>0. t \in Threads
  BY DEF Threads
<1> QED
  BY <1>0, FinishInv DEF NothingToInstantiate, Quiescent, IInv, TypeOK

\* SpawnsFresh: the thread that is born is nobody else's.
LEMMA SpawnStarterInv ==
  ASSUME IInv, NEW t \in Workers, SpawnStarter(t)
  PROVE  IInv'
<1>0. t \in Threads
  BY DEF Threads
<1>1. TypeOK'
  <2>1. /\ spawn[t] \in Starters /\ spawn[t] \in Threads
        /\ registry[plugin[t]] \in Loads /\ plugin[t] \in Plugins
    BY <1>0 DEF SpawnStarter, IInv, TypeOK, LocalsFit, RegisterSteps,
       Quiescent, Threads
  <2>2. {"answer", "starSession"} \subseteq Steps
    BY DEF Steps, RegisterSteps, StarterSteps
  <2>3. pc' \in [Threads -> Steps]
    BY <1>0, <2>1, <2>2 DEF SpawnStarter, IInv, TypeOK
  <2>4. /\ plugin' \in [Threads -> Plugins \cup {NoOne}]
        /\ meta' \in [Threads -> Loads \cup Starters \cup {NoOne}]
    BY <1>0, <2>1 DEF SpawnStarter, IInv, TypeOK
  <2>5. /\ session' \in [Threads -> Loads \cup {NoOne}]
        /\ servicer' \in [Threads -> Loads \cup {NoOne}]
        /\ spawn' \in [Threads -> Starters \cup {NoOne}]
    BY <1>0 DEF SpawnStarter, IInv, TypeOK
  <2> QED
    BY <2>3, <2>4, <2>5 DEF SpawnStarter, IInv, TypeOK
<1>2. LocalsFit'
  BY <1>0, Distinct DEF IInv, SpawnStarter, Step, TypeOK, LocalsFit, LoadSteps,
     HasSession, HasServicer, StarterSteps, RegisterSteps, InContext,
     Quiescent, Threads, Enter
<1>3. SpawnsFresh'
  BY DEF IInv, SpawnStarter, Step, TypeOK, SpawnsFresh, LocalsFit,
     StarterSteps, Threads, Enter
<1>4. GateOrder'
  BY DEF IInv, SpawnStarter, TypeOK, GateOrder, Threads, Enter
<1>5. HandlerGated'
  BY DEF IInv, SpawnStarter, TypeOK, HandlerGated, Threads, Enter
<1>6. ContextPaired'
  BY Distinct DEF IInv, SpawnStarter, TypeOK, ContextPaired, InContext,
     Quiescent, SpawnsFresh, Threads, Enter
<1> QED
  BY <1>1, <1>2, <1>3, <1>4, <1>5, <1>6 DEF IInv

LEMMA AnswerRegisterInv ==
  ASSUME IInv, NEW t \in Workers, AnswerRegister(t)
  PROVE  IInv'
<1>0. t \in Threads
  BY DEF Threads
<1> QED
  BY <1>0, FinishInv DEF AnswerRegister, Quiescent, IInv, TypeOK

\* The handler RPCs; an open gate gives CallHandler its published Star.
LEMMA CallHandlerInv ==
  ASSUME IInv, NEW t \in Workers, CallHandler(t)
  PROVE  IInv'
<1>0. t \in Threads
  BY DEF Threads
<1>1. TypeOK'
  BY DEF IInv, TypeOK, CallHandler, Step, Steps, HandleSteps, Enter, Threads
<1>2. LocalsFit'
  BY DEF IInv, CallHandler, Step, LocalsFit, LoadSteps, HasSession,
     HasServicer, StarterSteps, RegisterSteps, InContext, Quiescent, Threads,
     Enter
<1>3. SpawnsFresh'
  BY DEF IInv, CallHandler, Step, SpawnsFresh, Threads, Enter
<1>4. GateOrder'
  BY DEF IInv, CallHandler, Step, GateOrder, Threads, Enter
<1>5. HandlerGated'
  BY DEF IInv, CallHandler, GateOpen, Step, HandlerGated, GateOrder, LocalsFit,
     HasServicer, Threads, Enter
<1>6. ContextPaired'
  BY DEF IInv, CallHandler, Step, ContextPaired, InContext, Threads, Enter
<1> QED
  BY <1>1, <1>2, <1>3, <1>4, <1>5, <1>6 DEF IInv

LEMMA SkipHandlerInv ==
  ASSUME IInv, NEW t \in Workers, SkipHandler(t)
  PROVE  IInv'
<1>0. t \in Threads
  BY DEF Threads
<1> QED
  BY <1>0, FinishInv DEF SkipHandler, Quiescent, IInv, TypeOK

LEMMA HandlerReturnsInv ==
  ASSUME IInv, NEW t \in Workers, HandlerReturns(t)
  PROVE  IInv'
<1>0. t \in Threads
  BY DEF Threads
<1> QED
  BY <1>0, FinishInv DEF HandlerReturns, Quiescent, IInv, TypeOK

LEMMA ServicerFailsInv ==
  ASSUME IInv, NEW t \in Workers, ServicerFails(t)
  PROVE  IInv'
<1>0. t \in Threads
  BY DEF Threads
<1>1. TypeOK'
  BY DEF IInv, TypeOK, ServicerFails, Step, Steps, FailureSteps, Enter, Threads
<1>2. LocalsFit'
  BY DEF IInv, ServicerFails, Step, LocalsFit, LoadSteps, HasSession,
     HasServicer, StarterSteps, RegisterSteps, InContext, Quiescent, Threads,
     Enter
<1>3. SpawnsFresh'
  BY DEF IInv, ServicerFails, Step, SpawnsFresh, Threads, Enter
<1>4. GateOrder'
  BY DEF IInv, ServicerFails, Step, GateOrder, Threads, Enter
<1>5. HandlerGated'
  BY DEF IInv, ServicerFails, Step, HandlerGated, Threads, Enter
<1>6. ContextPaired'
  BY DEF IInv, ServicerFails, Step, ContextPaired, InContext, Threads, Enter
<1> QED
  BY <1>1, <1>2, <1>3, <1>4, <1>5, <1>6 DEF IInv

LEMMA CheckLifecycleInv ==
  ASSUME IInv, NEW t \in Workers, CheckLifecycle(t)
  PROVE  IInv'
<1>0. t \in Threads
  BY DEF Threads
<1>a. CASE lifecycle[session[t]] = "UNLOADED"
  BY <1>0, <1>a, FinishInv DEF CheckLifecycle, Quiescent, IInv, TypeOK
<1>b. CASE lifecycle[session[t]] # "UNLOADED"
  <2>0. Step(t, "failed", "markError") /\ UNCHANGED <<maps, objects, ctx, locals, inputs>>
    BY <1>b DEF CheckLifecycle
  <2>1. TypeOK'
    BY <2>0 DEF IInv, TypeOK, Step, Steps, FailureSteps
  <2>2. LocalsFit'
    BY <2>0 DEF IInv, TypeOK, Step, LocalsFit, LoadSteps, HasSession, HasServicer,
       StarterSteps, RegisterSteps, InContext, Quiescent
  <2>3. SpawnsFresh'
    BY <2>0 DEF IInv, TypeOK, Step, SpawnsFresh
  <2>4. GateOrder'
    BY <2>0 DEF IInv, TypeOK, Step, GateOrder
  <2>5. HandlerGated' /\ ContextPaired'
    BY <2>0 DEF IInv, TypeOK, Step, HandlerGated, ContextPaired, InContext
  <2> QED
    BY <2>1, <2>2, <2>3, <2>4, <2>5 DEF IInv
<1> QED
  BY <1>a, <1>b

LEMMA MarkErrorInv ==
  ASSUME IInv, NEW t \in Workers, MarkError(t)
  PROVE  IInv'
<1>0. t \in Threads
  BY DEF Threads
<1> QED
  BY <1>0, FinishInv DEF MarkError, Quiescent, Lifecycles, IInv, TypeOK

\* unload.
LEMMA UnloadSessionInv ==
  ASSUME IInv, NEW t \in Workers, UnloadSession(t)
  PROVE  IInv'
<1>0. t \in Threads
  BY DEF Threads
<1>1. pc[t] = "unloadSession" /\ plugin[t] \in Plugins
  BY <1>0 DEF UnloadSession, IInv, LocalsFit, Quiescent
<1>a. CASE registry[plugin[t]] = NoOne
  BY <1>0, <1>1, <1>a, FinishInv DEF UnloadSession, Quiescent, IInv, TypeOK
<1>b. CASE registry[plugin[t]] # NoOne
  <2>0. /\ pc' = [pc EXCEPT ![t] = "terminate"]
        /\ session' = [session EXCEPT ![t] = registry[plugin[t]]]
        /\ ctx' = [ctx EXCEPT ![t] = registry[plugin[t]]]
        /\ UNCHANGED <<maps, objects, plugin, servicer, meta, spawn, inputs>>
        /\ registry[plugin[t]] \in Loads
    BY <1>1, <1>b DEF UnloadSession, Enter, IInv, TypeOK
  <2>1. TypeOK'
    BY <2>0 DEF IInv, TypeOK, Steps, UnloadSteps
  <2>2. LocalsFit'
    BY <1>0, <1>1, <2>0 DEF IInv, TypeOK, LocalsFit, LoadSteps, HasSession,
       HasServicer,
       StarterSteps, RegisterSteps, InContext, Quiescent
  <2>3. SpawnsFresh'
    BY <1>1, <2>0 DEF IInv, TypeOK, SpawnsFresh
  <2>4. GateOrder'
    BY <1>1, <2>0 DEF IInv, TypeOK, GateOrder
  <2>5. HandlerGated' /\ ContextPaired'
    BY <1>0, <1>1, <2>0 DEF IInv, TypeOK, HandlerGated, ContextPaired, InContext
  <2> QED
    BY <2>1, <2>2, <2>3, <2>4, <2>5 DEF IInv
<1> QED
  BY <1>a, <1>b

LEMMA TerminateInv ==
  ASSUME IInv, NEW t \in Workers, Terminate(t)
  PROVE  IInv'
<1>0. t \in Threads
  BY DEF Threads
<1>1. TypeOK'
  BY DEF IInv, TypeOK, Terminate, Step, Steps, LoadSteps, UnloadSteps,
     StarterSteps, LocalsFit, HasServicer, Quiescent, Phases, Lives, Enter,
     Threads
<1>2. LocalsFit'
  BY DEF IInv, Terminate, Step, LocalsFit, LoadSteps, HasSession, HasServicer,
     StarterSteps, RegisterSteps, InContext, Quiescent, Threads, Enter
<1>3. SpawnsFresh'
  BY DEF IInv, Terminate, Step, SpawnsFresh, Threads, Enter
<1>4. GateOrder'
  BY DEF IInv, Terminate, Step, GateOrder, Threads, Enter
<1>5. HandlerGated'
  BY DEF IInv, Terminate, Step, HandlerGated, Threads, Enter
<1>6. ContextPaired'
  BY DEF IInv, Terminate, Step, ContextPaired, InContext, Threads, Enter
<1> QED
  BY <1>1, <1>2, <1>3, <1>4, <1>5, <1>6 DEF IInv

LEMMA MarkUnloadedInv ==
  ASSUME IInv, NEW t \in Workers, MarkUnloaded(t)
  PROVE  IInv'
<1>0. t \in Threads
  BY DEF Threads
<1>1. TypeOK'
  BY DEF IInv, TypeOK, MarkUnloaded, Step, Steps, UnloadSteps, Lifecycles,
     Enter, Threads
<1>2. LocalsFit'
  BY DEF IInv, MarkUnloaded, Step, LocalsFit, LoadSteps, HasSession,
     HasServicer, StarterSteps, RegisterSteps, InContext, Quiescent, Threads,
     Enter
<1>3. SpawnsFresh'
  BY DEF IInv, MarkUnloaded, Step, SpawnsFresh, Threads, Enter
<1>4. GateOrder'
  BY DEF IInv, MarkUnloaded, Step, GateOrder, Threads, Enter
<1>5. HandlerGated'
  BY DEF IInv, MarkUnloaded, Step, HandlerGated, Threads, Enter
<1>6. ContextPaired'
  BY DEF IInv, MarkUnloaded, Step, ContextPaired, InContext, Threads, Enter
<1> QED
  BY <1>1, <1>2, <1>3, <1>4, <1>5, <1>6 DEF IInv

LEMMA RemoveSessionInv ==
  ASSUME IInv, NEW t \in Workers, RemoveSession(t)
  PROVE  IInv'
<1>0. t \in Threads
  BY DEF Threads
<1>1. TypeOK'
  BY DEF IInv, TypeOK, RemoveSession, Step, Steps, UnloadSteps, Enter, Threads
<1>2. LocalsFit'
  BY DEF IInv, RemoveSession, Step, LocalsFit, LoadSteps, HasSession,
     HasServicer, StarterSteps, RegisterSteps, InContext, Quiescent, Threads,
     Enter
<1>3. SpawnsFresh'
  BY DEF IInv, RemoveSession, Step, SpawnsFresh, Threads, Enter
<1>4. GateOrder'
  BY DEF IInv, RemoveSession, Step, GateOrder, Threads, Enter
<1>5. HandlerGated'
  BY DEF IInv, RemoveSession, Step, HandlerGated, Threads, Enter
<1>6. ContextPaired'
  BY DEF IInv, RemoveSession, Step, ContextPaired, InContext, Threads, Enter
<1> QED
  BY <1>1, <1>2, <1>3, <1>4, <1>5, <1>6 DEF IInv

LEMMA PopServicerInv ==
  ASSUME IInv, NEW t \in Workers, PopServicer(t)
  PROVE  IInv'
<1>0. t \in Threads
  BY DEF Threads
<1> QED
  BY <1>0, FinishInv DEF PopServicer, Quiescent, IInv, TypeOK

\* The instantiation thread: GateOrder is its order of work.
LEMMA StarSessionInv ==
  ASSUME IInv, NEW u \in Starters, StarSession(u)
  PROVE  IInv'
<1>0. u \in Threads
  BY DEF Threads
<1> QED
  BY <1>0, LookUpSessionInv DEF StarSession

LEMMA StarServicerInv ==
  ASSUME IInv, NEW u \in Starters, StarServicer(u)
  PROVE  IInv'
<1>0. u \in Threads
  BY DEF Threads
<1> QED
  BY <1>0, LookUpServicerInv DEF StarServicer

LEMMA ConstructInv ==
  ASSUME IInv, NEW t \in Starters, Construct(t)
  PROVE  IInv'
<1>0. t \in Threads
  BY DEF Threads
<1>1. TypeOK'
  BY DEF IInv, TypeOK, Construct, Step, Steps, StarterSteps, Lives, Enter, Threads
<1>2. LocalsFit'
  BY DEF IInv, Construct, Step, LocalsFit, HasSession, HasServicer,
     StarterSteps, RegisterSteps, InContext, Quiescent, Threads, Enter
<1>3. SpawnsFresh'
  BY DEF IInv, Construct, Step, SpawnsFresh, Threads, Enter
<1>4. GateOrder'
  BY Distinct DEF IInv, Construct, Step, TypeOK, GateOrder, Threads, Enter
<1>5. HandlerGated'
  BY DEF IInv, Construct, Step, HandlerGated, Threads, Enter
<1>6. ContextPaired'
  BY DEF IInv, Construct, Step, ContextPaired, InContext, Threads, Enter
<1> QED
  BY <1>1, <1>2, <1>3, <1>4, <1>5, <1>6 DEF IInv

LEMMA InstantiateFailsInv ==
  ASSUME IInv, NEW u \in Starters, InstantiateFails(u)
  PROVE  IInv'
<1>0. u \in Threads
  BY DEF Threads
<1> QED
  BY <1>0, FinishInv DEF InstantiateFails, Quiescent, Lifecycles, IInv, TypeOK

LEMMA ConstructTimesOutInv ==
  ASSUME IInv, NEW u \in Starters, ConstructTimesOut(u)
  PROVE  IInv'
<1>0. u \in Threads
  BY DEF Threads
<1>1. life' \in [Starters -> Lives]
  BY DEF ConstructTimesOut, Lives, IInv, TypeOK
<1>2. lifecycle' \in [Loads -> Lifecycles]
  BY DEF ConstructTimesOut, Lifecycles, IInv, TypeOK
<1> QED
  BY <1>0, <1>1, <1>2, FinishInv DEF ConstructTimesOut, Quiescent, IInv, TypeOK

LEMMA OverdueEndsInv ==
  ASSUME IInv, NEW u \in Starters, OverdueEnds(u)
  PROVE  IInv'
<1>1. life' \in [Starters -> Lives]
  BY DEF OverdueEnds, Lives, IInv, TypeOK
<1> QED
  BY <1>1 DEF OverdueEnds, IInv, TypeOK, LocalsFit, SpawnsFresh, GateOrder, HandlerGated,
              ContextPaired

LEMMA InitializeOkInv ==
  ASSUME IInv, NEW t \in Starters, InitializeOk(t)
  PROVE  IInv'
<1>0. t \in Threads
  BY DEF Threads
<1>1. TypeOK'
  BY DEF IInv, TypeOK, InitializeOk, Step, Steps, StarterSteps, Enter, Threads
<1>2. LocalsFit'
  BY DEF IInv, InitializeOk, Step, LocalsFit, HasSession, HasServicer,
     StarterSteps, RegisterSteps, InContext, Quiescent, Threads, Enter
<1>3. SpawnsFresh'
  BY DEF IInv, InitializeOk, Step, SpawnsFresh, Threads, Enter
<1>4. GateOrder'
  BY DEF IInv, InitializeOk, Step, GateOrder, Threads, Enter
<1>5. HandlerGated'
  BY DEF IInv, InitializeOk, Step, HandlerGated, Threads, Enter
<1>6. ContextPaired'
  BY DEF IInv, InitializeOk, Step, ContextPaired, InContext, Threads, Enter
<1> QED
  BY <1>1, <1>2, <1>3, <1>4, <1>5, <1>6 DEF IInv

LEMMA PublishInv ==
  ASSUME IInv, NEW t \in Starters, Publish(t)
  PROVE  IInv'
<1>0. t \in Threads
  BY DEF Threads
<1>1. TypeOK'
  BY DEF IInv, TypeOK, Publish, Step, Steps, StarterSteps, LocalsFit,
     HasServicer, Enter, Threads
<1>2. LocalsFit'
  BY DEF IInv, Publish, Step, LocalsFit, HasSession, HasServicer, StarterSteps,
     RegisterSteps, InContext, Quiescent, Threads, Enter
<1>3. SpawnsFresh'
  BY DEF IInv, Publish, Step, SpawnsFresh, Threads, Enter
<1>4. GateOrder'
  BY DEF IInv, Publish, Step, TypeOK, GateOrder, LocalsFit, HasServicer,
     Threads, Enter
<1>5. HandlerGated'
  BY DEF IInv, Publish, Step, HandlerGated, GateOrder, Threads, Enter
<1>6. ContextPaired'
  BY DEF IInv, Publish, Step, ContextPaired, InContext, Threads, Enter
<1> QED
  BY <1>1, <1>2, <1>3, <1>4, <1>5, <1>6 DEF IInv

LEMMA AdoptInv ==
  ASSUME IInv, NEW t \in Starters, Adopt(t)
  PROVE  IInv'
<1>0. t \in Threads
  BY DEF Threads
<1>1. TypeOK'
  BY DEF IInv, TypeOK, Adopt, Step, Steps, StarterSteps, LocalsFit, HasSession,
     InContext, Enter, Threads
<1>2. LocalsFit'
  BY DEF IInv, Adopt, Step, LocalsFit, HasSession, HasServicer, StarterSteps,
     RegisterSteps, InContext, Quiescent, Threads, Enter
<1>3. SpawnsFresh'
  BY DEF IInv, Adopt, Step, SpawnsFresh, Threads, Enter
<1>4. GateOrder'
  BY DEF IInv, Adopt, Step, GateOrder, Threads, Enter
<1>5. HandlerGated'
  BY DEF IInv, Adopt, Step, HandlerGated, Threads, Enter
<1>6. ContextPaired'
  BY DEF IInv, Adopt, Step, ContextPaired, InContext, Threads, Enter
<1> QED
  BY <1>1, <1>2, <1>3, <1>4, <1>5, <1>6 DEF IInv

LEMMA MarkInstancedInv ==
  ASSUME IInv, NEW t \in Starters, MarkInstanced(t)
  PROVE  IInv'
<1>0. t \in Threads
  BY DEF Threads
<1>1. TypeOK'
  BY DEF IInv, TypeOK, MarkInstanced, Step, Steps, StarterSteps, Phases, Enter,
     Threads
<1>2. LocalsFit'
  BY DEF IInv, MarkInstanced, Step, LocalsFit, HasSession, HasServicer,
     StarterSteps, RegisterSteps, InContext, Quiescent, Threads, Enter
<1>3. SpawnsFresh'
  BY DEF IInv, MarkInstanced, Step, SpawnsFresh, Threads, Enter
<1>4. GateOrder'
  BY DEF IInv, MarkInstanced, Step, GateOrder, Threads, Enter
<1>5. HandlerGated'
  BY DEF IInv, MarkInstanced, Step, HandlerGated, Threads, Enter
<1>6. ContextPaired'
  BY DEF IInv, MarkInstanced, Step, ContextPaired, InContext, Threads, Enter
<1> QED
  BY <1>1, <1>2, <1>3, <1>4, <1>5, <1>6 DEF IInv

LEMMA MarkActiveInv ==
  ASSUME IInv, NEW u \in Starters, MarkActive(u)
  PROVE  IInv'
<1>0. u \in Threads
  BY DEF Threads
<1> QED
  BY <1>0, FinishInv DEF MarkActive, Quiescent, Lifecycles, IInv, TypeOK

\* What the host sends.
LEMMA LoadInv ==
  ASSUME IInv, NEW t \in Workers, NEW p \in Plugins, Load(t, p)
  PROVE  IInv'
<1>0. t \in Threads
  BY DEF Threads
<1>1. TypeOK'
  BY DEF IInv, TypeOK, Load, Take, Step, Steps, LoadSteps, Quiescent, Lives,
     Enter, Threads
<1>2. LocalsFit'
  BY DEF IInv, Load, Take, Step, TypeOK, LocalsFit, LoadSteps, HasSession,
     HasServicer, StarterSteps, RegisterSteps, InContext, Quiescent, Threads,
     Enter
<1>3. SpawnsFresh'
  BY DEF IInv, Load, Take, Step, SpawnsFresh, Threads, Enter
<1>4. GateOrder'
  BY DEF IInv, Load, Take, Step, GateOrder, Threads, Enter
<1>5. HandlerGated'
  BY DEF IInv, Load, Take, Step, HandlerGated, Threads, Enter
<1>6. ContextPaired'
  BY DEF IInv, Load, Take, Step, ContextPaired, InContext, Threads, Enter
<1> QED
  BY <1>1, <1>2, <1>3, <1>4, <1>5, <1>6 DEF IInv

LEMMA UnloadInv ==
  ASSUME IInv, NEW t \in Workers, NEW p \in Plugins, Unload(t, p)
  PROVE  IInv'
<1>0. t \in Threads
  BY DEF Threads
<1>1. TypeOK'
  BY DEF IInv, TypeOK, Unload, Take, Step, Steps, UnloadSteps, Enter, Threads
<1>2. LocalsFit'
  BY DEF IInv, Unload, Take, Step, TypeOK, LocalsFit, LoadSteps, HasSession,
     HasServicer, StarterSteps, RegisterSteps, InContext, Threads, Enter
<1>3. SpawnsFresh'
  BY DEF IInv, Unload, Take, Step, SpawnsFresh, Threads, Enter
<1>4. GateOrder'
  BY DEF IInv, Unload, Take, Step, GateOrder, Threads, Enter
<1>5. HandlerGated'
  BY DEF IInv, Unload, Take, Step, HandlerGated, Threads, Enter
<1>6. ContextPaired'
  BY DEF IInv, Unload, Take, Step, ContextPaired, InContext, Threads, Enter
<1> QED
  BY <1>1, <1>2, <1>3, <1>4, <1>5, <1>6 DEF IInv

LEMMA RegisterInv ==
  ASSUME IInv, NEW t \in Workers, NEW p \in Plugins, Register(t, p)
  PROVE  IInv'
<1>0. t \in Threads
  BY DEF Threads
<1>1. TypeOK'
  BY DEF IInv, TypeOK, Register, Take, Step, Steps, RegisterSteps, InContext,
     Quiescent, Lifecycles, Lives, Enter, Threads
<1>2. LocalsFit'
  BY <1>0, Distinct DEF IInv, Register, Take, Step, TypeOK, LocalsFit,
     LoadSteps, HasSession, HasServicer, StarterSteps, RegisterSteps,
     InContext, Quiescent, Threads, Enter
<1>3. SpawnsFresh'
  BY DEF IInv, Register, Take, Step, TypeOK, SpawnsFresh, Threads, Enter
<1>4. GateOrder'
  BY DEF IInv, Register, Take, Step, GateOrder, HasServicer, Threads, Enter
<1>5. HandlerGated'
  BY DEF IInv, Register, Take, Step, HandlerGated, HasServicer, Threads, Enter
<1>6. ContextPaired'
  BY DEF IInv, Register, Take, Step, ContextPaired, InContext, Threads, Enter
<1> QED
  BY <1>1, <1>2, <1>3, <1>4, <1>5, <1>6 DEF IInv

LEMMA HandleInv ==
  ASSUME IInv, NEW t \in Workers, NEW p \in Plugins, Handle(t, p)
  PROVE  IInv'
<1>0. t \in Threads
  BY DEF Threads
<1>1. TypeOK'
  BY DEF IInv, TypeOK, Handle, Take, Step, Steps, HandleSteps, Enter, Threads
<1>2. LocalsFit'
  BY DEF IInv, Handle, Take, Step, TypeOK, LocalsFit, LoadSteps, HasSession,
     HasServicer, StarterSteps, RegisterSteps, InContext, Threads, Enter
<1>3. SpawnsFresh'
  BY DEF IInv, Handle, Take, Step, SpawnsFresh, Threads, Enter
<1>4. GateOrder'
  BY DEF IInv, Handle, Take, Step, GateOrder, Threads, Enter
<1>5. HandlerGated'
  BY DEF IInv, Handle, Take, Step, HandlerGated, Threads, Enter
<1>6. ContextPaired'
  BY DEF IInv, Handle, Take, Step, ContextPaired, InContext, Threads, Enter
<1> QED
  BY <1>1, <1>2, <1>3, <1>4, <1>5, <1>6 DEF IInv

LEMMA LoadEnvironmentInv ==
  ASSUME IInv, NEW p \in Plugins, LoadEnvironment(p)
  PROVE  IInv'
<1>0. Main \in Threads /\ p \in Plugins
  BY DEF IInv, TypeOK, Threads
<1>1. TypeOK'
  BY DEF IInv, TypeOK, LoadEnvironment, Take, Step, Steps, LoadSteps,
     Lifecycles, Lives, Enter, Threads
<1>2. LocalsFit'
  BY DEF IInv, LoadEnvironment, Take, Step, TypeOK, LocalsFit, HasSession,
     HasServicer, StarterSteps, RegisterSteps, InContext, Quiescent, Threads,
     Enter
<1>3. SpawnsFresh'
  BY DEF IInv, LoadEnvironment, Take, Step, SpawnsFresh, Threads, Enter
<1>4. GateOrder'
  BY DEF IInv, LoadEnvironment, Take, Step, GateOrder, HasServicer, Threads, Enter
<1>5. HandlerGated'
  BY DEF IInv, LoadEnvironment, Take, Step, HandlerGated, Threads, Enter
<1>6. ContextPaired'
  BY DEF IInv, LoadEnvironment, Take, Step, ContextPaired, InContext, Threads, Enter
<1> QED
  BY <1>1, <1>2, <1>3, <1>4, <1>5, <1>6 DEF IInv

-----------------------------------------------------------------------------
\* The inductive invariant holds at first ...
LEMMA InitInv == Init => IInv
<1> SUFFICES ASSUME Init PROVE IInv
  OBVIOUS
<1>1. TypeOK
  BY DEF Init, TypeOK, Steps, Quiescent, Lifecycles, Phases, Lives
<1>2. LocalsFit
  BY DEF Init, LocalsFit, Quiescent, HasSession, InContext, HasServicer,
     LoadSteps, RegisterSteps, StarterSteps
<1>3. SpawnsFresh /\ GateOrder /\ HandlerGated
  BY DEF Init, SpawnsFresh, GateOrder, HandlerGated
<1>4. ContextPaired
  BY DEF Init, ContextPaired, InContext
<1> QED
  BY <1>1, <1>2, <1>3, <1>4 DEF IInv

\* ... and every step keeps it.
LEMMA NextInv == IInv /\ [Next]_vars => IInv'
<1> SUFFICES ASSUME IInv, [Next]_vars PROVE IInv'
  OBVIOUS
<1>1. ASSUME NEW t \in Workers, NEW p \in Plugins,
             Load(t, p) \/ Unload(t, p) \/ Register(t, p) \/ Handle(t, p)
      PROVE  IInv'
  BY <1>1, LoadInv, UnloadInv, RegisterInv, HandleInv
<1>2. ASSUME NEW p \in Plugins, LoadEnvironment(p) PROVE IInv'
  BY <1>2, LoadEnvironmentInv
<1>3. ASSUME NEW t \in Workers \cup {Main}, LoadStep(t) PROVE IInv'
  BY <1>3, AddSessionInv, AddServicerInv, LoadSessionInv, LoadServicerInv,
     ImportOkInv,
     ImportFailsInv, MarkReadyInv DEF LoadStep
<1>4. ASSUME NEW t \in Workers, RouteStep(t) \/ RegisterStep(t) PROVE IInv'
  BY <1>4, RouteSessionInv, RouteServicerInv, RegisterReadyInv, RegisterTimesOutInv,
     VersionMismatchInv, RegisteredInv, NothingToInstantiateInv, SpawnStarterInv,
     AnswerRegisterInv DEF RouteStep, RegisterStep
<1>5. ASSUME NEW t \in Workers, HandleStep(t) PROVE IInv'
  BY <1>5, CallHandlerInv, SkipHandlerInv, HandlerReturnsInv, ServicerFailsInv,
     CheckLifecycleInv, MarkErrorInv DEF HandleStep
<1>6. ASSUME NEW t \in Workers, UnloadStep(t) PROVE IInv'
  BY <1>6, UnloadSessionInv, TerminateInv, MarkUnloadedInv, RemoveSessionInv,
     PopServicerInv DEF UnloadStep
<1>7. ASSUME NEW u \in Starters, StarterStep(u) \/ OverdueEnds(u) PROVE IInv'
  BY <1>7, StarSessionInv, StarServicerInv, ConstructInv, InstantiateFailsInv,
     ConstructTimesOutInv, OverdueEndsInv, InitializeOkInv, PublishInv, AdoptInv, MarkInstancedInv, MarkActiveInv DEF StarterStep
<1>8. CASE UNCHANGED vars
  BY <1>8 DEF vars, IInv, TypeOK, LocalsFit, SpawnsFresh, GateOrder, HandlerGated,
              ContextPaired
<1> QED
  BY <1>1, <1>2, <1>3, <1>4, <1>5, <1>6, <1>7, <1>8 DEF Next, Request, WorkerStep

\* So it is an invariant of every behaviour.
LEMMA SpecInv == Spec => []IInv
  BY InitInv, NextInv, PTL DEF Spec

\* The state of the runtime stays in its type.
THEOREM TypeCorrect == Spec => []TypeOK
<1>1. IInv => TypeOK
  BY DEF IInv
<1> QED
  BY <1>1, SpecInv, PTL

\* Whatever the host sends, in whatever order threads run, no handler of a
\* plugin is called before the plugin's Star is published in its servicer.
THEOREM GateSafe == Spec => []HandlerGated
<1>1. IInv => HandlerGated
  BY DEF IInv
<1> QED
  BY <1>1, SpecInv, PTL

\* Whatever the host sends, a thread is in the session it looked up exactly
\* while it works for it.
THEOREM ContextSafe == Spec => []ContextPaired
<1>1. IInv => ContextPaired
  BY DEF IInv
<1> QED
  BY <1>1, SpecInv, PTL

\* Workers and the main thread instantiate nothing.
LEMMA Kinds ==
  /\ Workers \subseteq Threads /\ Main \in Threads /\ Starters \subseteq Threads
  /\ \A t \in Workers \cup {Main} : t \in Threads /\ t \notin Starters
  BY Distinct DEF Threads

\* Only a Star that was built in time is kept or served; one that is still to be built is
\* not there yet.
LivesFit ==
  /\ \A i \in Loads : /\ star[i] # NoOne => life[star[i]] \in {"built", "terminated"}
                      /\ inst[i] # NoOne => life[inst[i]] \in {"built", "terminated"}
  /\ \A u \in Starters :
       pc[u] \in {"unborn", "starSession", "starServicer", "construct"} => life[u] = "absent"

\* A step that builds nothing and brings no instantiation back to its beginning.
LEMMA LivesKept ==
  ASSUME LivesFit, UNCHANGED <<star, inst, life>>,
         \A u \in Starters :
           pc'[u] \in {"unborn", "starSession", "starServicer", "construct"} =>
             pc[u] \in {"unborn", "starSession", "starServicer", "construct"}
  PROVE  LivesFit'
  BY DEF LivesFit

\* A worker's step leaves the instantiations alone.
LEMMA LivesBesideWorkers ==
  ASSUME IInv, LivesFit, NEW t \in Workers \cup {Main}, UNCHANGED <<star, inst, life>>,
         (\E to \in Steps : pc' = [pc EXCEPT ![t] = to]) \/ UNCHANGED pc
  PROVE  LivesFit'
<1>1. \A u \in Starters : pc'[u] = pc[u]
  BY Distinct DEF Threads, IInv, TypeOK
<1> QED
  BY <1>1, LivesKept

LEMMA NextLives == IInv /\ LivesFit /\ [Next]_vars => LivesFit'
<1> SUFFICES ASSUME IInv, LivesFit, [Next]_vars PROVE LivesFit'
  OBVIOUS
<1>0. "idle" \in Steps
  BY DEF Steps, Quiescent
<1>1. ASSUME NEW t \in Workers, NEW p \in Plugins,
             Load(t, p) \/ Unload(t, p) \/ Register(t, p) \/ Handle(t, p)
      PROVE  LivesFit'
  <2>1. \E to \in Steps : pc' = [pc EXCEPT ![t] = to]
    BY <1>1 DEF Load, Unload, Register, Handle, Take, Step, Steps, LoadSteps, UnloadSteps,
                RegisterSteps, HandleSteps
  <2>2. UNCHANGED <<star, inst, life>>
    BY <1>1 DEF Load, Unload, Register, Handle, Take
  <2> QED
    BY <2>1, <2>2, LivesBesideWorkers
<1>2. ASSUME NEW p \in Plugins, LoadEnvironment(p) PROVE LivesFit'
  <2>1. pc' = [pc EXCEPT ![Main] = "add"] /\ "add" \in Steps /\ UNCHANGED <<star, inst, life>>
    BY <1>2 DEF LoadEnvironment, Take, Step, Steps, LoadSteps
  <2> QED
    BY <2>1, LivesBesideWorkers
<1>3. ASSUME NEW t \in Workers \cup {Main}, LoadStep(t) PROVE LivesFit'
  <2>0. t \notin Starters
    BY Kinds
  <2>1. \E to \in Steps : pc' = [pc EXCEPT ![t] = to]
    BY <1>0, <1>3, <2>0
       DEF LoadStep, AddSession, AddServicer, LoadSession, LoadServicer, ImportOk, ImportFails,
           MarkReady, LookUpSession, LookUpServicer, Step, Finish, Steps, LoadSteps
  <2>2. UNCHANGED <<star, inst, life>>
    BY <1>3 DEF LoadStep, AddSession, AddServicer, LoadSession, LoadServicer, ImportOk, ImportFails,
                MarkReady
  <2> QED
    BY <2>1, <2>2, LivesBesideWorkers
<1>4. ASSUME NEW t \in Workers, RouteStep(t) PROVE LivesFit'
  <2>0. t \notin Starters
    BY Kinds
  <2>1. \E to \in Steps : pc' = [pc EXCEPT ![t] = to]
    BY <1>0, <1>4, <2>0
       DEF RouteStep, RouteSession, RouteServicer, LookUpSession, LookUpServicer, Finish, Steps,
           RegisterSteps, HandleSteps
  <2>2. UNCHANGED <<star, inst, life>>
    BY <1>4 DEF RouteStep, RouteSession, RouteServicer
  <2> QED
    BY <2>1, <2>2, LivesBesideWorkers
<1>5. ASSUME NEW t \in Workers, RegisterStep(t) PROVE LivesFit'
  <2>0. t \notin Starters
    BY Kinds
  <2>1. CASE SpawnStarter(t)
    <3>1. spawn[t] \in Starters /\ pc[spawn[t]] = "unborn" /\ t \in Threads
      BY <2>1, Distinct, Kinds DEF SpawnStarter, IInv, LocalsFit, SpawnsFresh, RegisterSteps
    <3>2. /\ UNCHANGED <<star, inst, life>>
          /\ pc' = [pc EXCEPT ![t] = "answer", ![spawn[t]] = "starSession"]
      BY <2>1 DEF SpawnStarter
    <3>3. \A u \in Starters : pc'[u] = pc[u] \/ pc[u] = "unborn"
      BY <2>0, <3>1, <3>2, Kinds DEF IInv, TypeOK
    <3> QED
      BY <3>2, <3>3, LivesKept
  <2>2. CASE ~SpawnStarter(t)
    <3>1. \E to \in Steps : pc' = [pc EXCEPT ![t] = to]
      BY <1>0, <1>5, <2>0, <2>2
         DEF RegisterStep, RegisterReady, RegisterTimesOut, BuildRegistry, VersionMismatch,
             Registered, NothingToInstantiate, AnswerRegister, Step, Finish, Steps, RegisterSteps,
             FailureSteps
    <3>2. UNCHANGED <<star, inst, life>>
      BY <1>5, <2>2
         DEF RegisterStep, RegisterReady, RegisterTimesOut, BuildRegistry, VersionMismatch,
             Registered, NothingToInstantiate, AnswerRegister
    <3> QED
      BY <3>1, <3>2, LivesBesideWorkers
  <2> QED
    BY <2>1, <2>2
<1>6. ASSUME NEW t \in Workers, HandleStep(t) PROVE LivesFit'
  <2>0. t \notin Starters
    BY Kinds
  <2>1. \E to \in Steps : pc' = [pc EXCEPT ![t] = to]
    BY <1>0, <1>6, <2>0
       DEF HandleStep, CallHandler, SkipHandler, HandlerReturns, ServicerFails, CheckLifecycle,
           MarkError, Step, Finish, Steps, HandleSteps, FailureSteps
  <2>2. UNCHANGED <<star, inst, life>>
    BY <1>6 DEF HandleStep, CallHandler, SkipHandler, HandlerReturns, ServicerFails,
                CheckLifecycle, MarkError
  <2> QED
    BY <2>1, <2>2, LivesBesideWorkers
<1>7. ASSUME NEW t \in Workers, UnloadStep(t) PROVE LivesFit'
  <2>0. t \notin Starters
    BY Kinds
  <2>1. \E to \in Steps : pc' = [pc EXCEPT ![t] = to]
    BY <1>0, <1>7, <2>0
       DEF UnloadStep, UnloadSession, Terminate, MarkUnloaded, RemoveSession, PopServicer,
           Step, Finish, Steps, UnloadSteps
  <2>2. CASE Terminate(t)
    <3>1. \A u \in Starters : pc'[u] = pc[u]
      BY <2>0, <2>1, Kinds DEF IInv, TypeOK
    <3>2. CASE TerminableStar(session[t]) = NoOne
      BY <2>2, <3>1, <3>2, LivesKept DEF Terminate
    <3>3. CASE TerminableStar(session[t]) # NoOne
      <4>1. PICK s : s = TerminableStar(session[t])
        OBVIOUS
      <4>2. PICK m \in Loads : s = star[m]
        BY <3>3, <4>1 DEF TerminableStar
      <4>3. s \in Starters /\ life[s] \in {"built", "terminated"}
        BY <3>3, <4>1, <4>2 DEF LivesFit, IInv, TypeOK
      <4>4. UNCHANGED <<star, inst>> /\ life' = [life EXCEPT ![s] = "terminated"]
        BY <2>2, <3>3, <4>1 DEF Terminate
      <4>5. life'[s] = "terminated" /\ \A u \in Starters \ {s} : life'[u] = life[u]
        BY <4>3, <4>4 DEF IInv, TypeOK
      <4> QED
        BY <3>1, <4>3, <4>4, <4>5 DEF LivesFit, IInv, TypeOK
    <3> QED
      BY <3>2, <3>3
  <2>3. CASE ~Terminate(t)
    <3>1. UNCHANGED <<star, inst, life>>
      BY <1>7, <2>3 DEF UnloadStep, UnloadSession, MarkUnloaded, RemoveSession, PopServicer
    <3> QED
      BY <2>1, <3>1, LivesBesideWorkers
  <2> QED
    BY <2>2, <2>3
<1>8. ASSUME NEW u \in Starters, StarterStep(u) PROVE LivesFit'
  <2>0. u \in Threads
    BY Kinds
  <2>1. CASE Construct(u)
    <3>1. /\ pc[u] = "construct" /\ pc' = [pc EXCEPT ![u] = "initialize"] /\ UNCHANGED inst
          /\ meta[u] \in Loads
          /\ star' = [star EXCEPT ![meta[u]] = u] /\ life' = [life EXCEPT ![u] = "built"]
      BY <2>1 DEF Construct, Step
    <3>2. /\ life'[u] = "built" /\ pc'[u] = "initialize"
          /\ \A v \in Starters \ {u} : life'[v] = life[v] /\ pc'[v] = pc[v]
      BY <2>0, <3>1, Kinds DEF IInv, TypeOK
    <3>3. /\ star'[meta[u]] = u /\ \A i \in Loads \ {meta[u]} : star'[i] = star[i]
      BY <3>1 DEF IInv, TypeOK
    <3> QED
      BY <3>1, <3>2, <3>3 DEF LivesFit, IInv, TypeOK
  <2>2. CASE ConstructTimesOut(u)
    <3>1. /\ pc[u] = "construct" /\ pc' = [pc EXCEPT ![u] = "done"] /\ UNCHANGED <<star, inst>>
          /\ life' = [life EXCEPT ![u] = "overdue"]
      BY <2>2 DEF ConstructTimesOut, Finish
    <3>2. /\ pc'[u] = "done"
          /\ \A v \in Starters \ {u} : life'[v] = life[v] /\ pc'[v] = pc[v]
      BY <2>0, <3>1, Kinds DEF IInv, TypeOK
    <3>3. \A i \in Loads : star[i] # u /\ inst[i] # u
      BY <3>1, Distinct DEF LivesFit, Threads
    <3> QED
      BY <3>1, <3>2, <3>3 DEF LivesFit, IInv, TypeOK
  <2>3. CASE Publish(u)
    <3>1. /\ pc[u] = "publish" /\ pc' = [pc EXCEPT ![u] = "adopt"] /\ UNCHANGED <<star, life>>
          /\ inst' = [inst EXCEPT ![servicer[u]] = star[meta[u]]]
      BY <2>3 DEF Publish, Step
    <3>2. meta[u] \in Loads /\ servicer[u] \in Loads
      BY <2>0, <3>1 DEF IInv, LocalsFit, HasServicer
    <3>3. \A i \in Loads : inst'[i] = inst[i] \/ inst'[i] = star[meta[u]]
      BY <3>1, <3>2 DEF IInv, TypeOK
    <3>4. \A v \in Starters : pc'[v] = pc[v] \/ pc'[v] = "adopt"
      BY <2>0, <3>1, Kinds DEF IInv, TypeOK
    <3> QED
      BY <3>1, <3>2, <3>3, <3>4 DEF LivesFit
  <2>4. CASE StarSession(u) \/ StarServicer(u)
    <3>1. /\ pc[u] \in {"starSession", "starServicer"} /\ UNCHANGED <<star, inst, life>>
          /\ \E to : pc' = [pc EXCEPT ![u] = to]
      BY <2>4 DEF StarSession, StarServicer, LookUpSession, LookUpServicer, Finish
    <3>2. \A v \in Starters : pc'[v] = pc[v] \/ pc[v] \in {"starSession", "starServicer"}
      BY <2>0, <3>1, Kinds DEF IInv, TypeOK
    <3> QED
      BY <3>1, <3>2, LivesKept
  <2>5. CASE \/ InstantiateFails(u) \/ InitializeOk(u) \/ Adopt(u) \/ MarkInstanced(u)
             \/ MarkActive(u)
    <3>1. /\ UNCHANGED <<star, inst, life>>
          /\ \E to \in {"done", "publish", "running", "active"} : pc' = [pc EXCEPT ![u] = to]
      BY <2>5 DEF InstantiateFails, InitializeOk, Adopt, MarkInstanced, MarkActive, Step, Finish
    <3>2. \A v \in Starters : pc'[v] = pc[v] \/ pc'[v] \in {"done", "publish", "running", "active"}
      BY <2>0, <3>1, Kinds DEF IInv, TypeOK
    <3> QED
      BY <3>1, <3>2, LivesKept
  <2> QED
    BY <1>8, <2>1, <2>2, <2>3, <2>4, <2>5 DEF StarterStep
<1>9. ASSUME NEW u \in Starters, OverdueEnds(u) PROVE LivesFit'
  <2>1. /\ life[u] = "overdue" /\ UNCHANGED <<star, inst, pc>>
        /\ \A v \in Starters \ {u} : life'[v] = life[v]
    BY <1>9 DEF OverdueEnds, IInv, TypeOK
  <2> QED
    BY <2>1 DEF LivesFit, IInv, TypeOK
<1>10. CASE UNCHANGED vars
  BY <1>10, LivesKept DEF vars
<1> QED
  BY <1>1, <1>2, <1>3, <1>4, <1>5, <1>6, <1>7, <1>8, <1>9, <1>10 DEF Next, Request, WorkerStep

\* Whatever the host sends, a Star that came too late is kept and served by nobody.
LEMMA StraySafe == Spec => []StrayIsNobodys
<1>1. Init => LivesFit
  BY DEF Init, LivesFit
<1>2. LivesFit => StrayIsNobodys
  BY Distinct DEF LivesFit, StrayIsNobodys
<1> QED
  BY <1>1, <1>2, NextLives, SpecInv, PTL DEF Spec

-----------------------------------------------------------------------------
(***************************************************************************)
(* A host and plugins that keep to the four disciplines                    *)
(***************************************************************************)
Disciplined == {"serial", "once", "settled", "prompt"} \subseteq Discipline

IsManaging(t) == pc[t] \in LoadSteps \cup UnloadSteps

\* No call manages p; no Register, no instantiation of it is under way.
Unmanaged(p)    == \A t \in Threads : IsManaging(t) => plugin[t] # p
Unregistered(p) == \A t \in Threads : spawn[t] # NoOne => plugin[t] # p
Unstarted(p)    == \A u \in Starters : plugin[u] # p

\* The entries of a plugin nobody manages are of the same add_plugin.
MapsFit == \A p \in Plugins : Unmanaged(p) => registry[p] = servicers[p]

\* A load call works on what it creates, and nobody else has it yet.
LoadFit(t) ==
  pc[t] \in LoadSteps =>
    /\ meta[t] \in begun
    /\ registry[plugin[t]]  = IF pc[t] = "add" THEN NoOne ELSE meta[t]
    /\ servicers[plugin[t]] = IF pc[t] \in {"add", "addServicer"} THEN NoOne ELSE meta[t]
    /\ pc[t] \in {"loadServicer", "import", "ready"} => session[t] = meta[t]
    /\ pc[t] \in {"import", "ready"} => servicer[t] = meta[t]
    /\ phase[meta[t]] = "CREATED"
    /\ pc[t] # "ready" => instance[meta[t]] = NoOne /\ handlers[meta[t]] = {}
    /\ pc[t] = "add" => \A q \in Plugins : registry[q] # meta[t]

OwnLoad == \A t, u \in Threads :
  pc[t] \in LoadSteps /\ pc[u] \in LoadSteps /\ meta[t] = meta[u] => t = u

\* An unload takes both entries out.
UnloadFit(t) ==
  pc[t] \in UnloadSteps =>
    /\ t \in Workers
    /\ registry[plugin[t]] = IF pc[t] = "pop" THEN NoOne ELSE servicers[plugin[t]]
    /\ Unregistered(plugin[t]) /\ Unstarted(plugin[t])

\* One call at a time manages a plugin, and the main thread begins with a plugin that is
\* not there.
OneManager == \A t, u \in Threads :
  IsManaging(t) /\ IsManaging(u) /\ plugin[t] = plugin[u] => t = u

TodoFits == \A p \in todo : Unmanaged(p) /\ registry[p] = NoOne /\ servicers[p] = NoOne

\* A session is that of one plugin, and what no load has begun is as it was created.
OneSession ==
  /\ \A p, q \in Plugins : registry[p] = registry[q] /\ registry[p] # NoOne => p = q
  /\ \A p \in Plugins : registry[p] # NoOne => registry[p] \in begun
  /\ \A i \in Loads \ begun :
       instance[i] = NoOne /\ handlers[i] = {} /\ phase[i] = "CREATED" /\ star[i] = NoOne

\* One Register at a time, of a session without a Star.
RegisterFit(t) ==
  spawn[t] # NoOne =>
    /\ pc[t] \in RegisterSteps \cup FailureSteps
    /\ plugin[t] \in Plugins
    /\ Unstarted(plugin[t])
    /\ registry[plugin[t]] # NoOne => star[registry[plugin[t]]] = NoOne
    /\ pc[t] \in {"registerServicer", "waitReady", "registered", "onRegistered"} =>
         registry[plugin[t]] = session[t] /\ session[t] # NoOne
    /\ pc[t] \in {"waitReady", "registered", "onRegistered"} => servicer[t] = session[t]
    /\ pc[t] \in {"registered", "onRegistered"} =>
         /\ Unmanaged(plugin[t])
         /\ instance[session[t]] # NoOne => commands[session[t]] = {session[t]}
    /\ pc[t] = "onRegistered" => phase[session[t]] = "REGISTERED"

OneRegister == \A t, u \in Threads :
  spawn[t] # NoOne /\ spawn[u] # NoOne /\ plugin[t] = plugin[u] => t = u

\* One instantiation at a time, of the session it was started for.
StarterFit(u) ==
  plugin[u] # NoOne =>
    /\ pc[u] \in StarterSteps
    /\ Unmanaged(plugin[u])
    /\ registry[plugin[u]] = meta[u] /\ meta[u] # NoOne /\ instance[meta[u]] # NoOne
    /\ pc[u] # "starSession" => session[u] = meta[u]
    /\ pc[u] \notin {"starSession", "starServicer"} => servicer[u] = meta[u]
    /\ pc[u] \in {"starSession", "starServicer", "construct"} => star[meta[u]] = NoOne
    /\ pc[u] # "active" => phase[meta[u]] = "REGISTERED"

OneStarter == \A u, v \in Starters :
  plugin[u] # NoOne /\ plugin[u] = plugin[v] => u = v

\* What the objects of a session have to do with one another.
ObjectsFit ==
  \A i \in Loads :
    /\ star[i] = NoOne => instance[i] \in {NoOne, i}
    /\ phase[i] \in {"CREATED", "REGISTERING"} => star[i] = NoOne
    /\ handlers[i] \subseteq {i} /\ commands[i] \subseteq {i}
    /\ instance[i] # NoOne => handlers[i] = {i}

ThreadsFit ==
  /\ \A t \in Threads : LoadFit(t) /\ UnloadFit(t) /\ RegisterFit(t)
  /\ \A u \in Starters : StarterFit(u)
  /\ OwnLoad /\ OneManager /\ OneRegister /\ OneStarter

DInv ==
  /\ ThreadsFit /\ MapsFit /\ TodoFits /\ OneSession
  /\ ObjectsFit /\ ServesOwnStar /\ NoLostStar /\ RegisteredHandlers

(***************************************************************************)
(* Guards                                                                  *)
(***************************************************************************)
LEMMA Guards ==
  ASSUME NEW p
  PROVE  /\ Managing(p) = {} => Unmanaged(p)
         /\ Unmanaged(p) => Managing(p) = {} /\ Loading(p) = {}
         /\ Registering(p) = {} => Unregistered(p)
         /\ Starting(p) = {} => Unstarted(p)
  BY DEF Managing, Loading, Unloading, Registering, Starting, Unmanaged, Unregistered, Unstarted,
         IsManaging

\* The session a load works on is in the map under its own plugin only.
LEMMA OfTheLoad ==
  ASSUME DInv, IInv, NEW t \in Threads, pc[t] \in LoadSteps, NEW q \in Plugins,
         registry[q] = meta[t]
  PROVE  q = plugin[t] /\ ~Unmanaged(q)
<1>1. plugin[t] \in Plugins /\ meta[t] \in Loads
  BY DEF IInv, LocalsFit, LoadSteps, Quiescent
<1>2. LoadFit(t)
  BY DEF DInv, ThreadsFit
<1>3. registry[plugin[t]] = meta[t] /\ meta[t] # NoOne
  BY <1>1, <1>2, Distinct DEF LoadFit
<1>4. q = plugin[t]
  BY <1>1, <1>3 DEF DInv, OneSession
<1> QED
  BY <1>4 DEF Unmanaged, IsManaging

OthersStay(t) == \A u \in Threads \ {t} :
  /\ pc'[u] = pc[u] /\ plugin'[u] = plugin[u] /\ session'[u] = session[u]
  /\ servicer'[u] = servicer[u] /\ meta'[u] = meta[u] /\ spawn'[u] = spawn[u]

ObjectsStay ==
  /\ \A i \in Loads : /\ instance'[i] = instance[i] /\ handlers'[i] = handlers[i]
                      /\ phase'[i] = phase[i] /\ commands'[i] = commands[i]
                      /\ star'[i] = star[i] /\ inst'[i] = inst[i]
  /\ \A u \in Starters : life'[u] = "built" => life[u] = "built"

LEMMA ObjectsKept ==
  ASSUME DInv, ObjectsStay
  PROVE  ObjectsFit' /\ ServesOwnStar' /\ NoLostStar' /\ RegisteredHandlers'
  BY DEF DInv, ObjectsStay, ObjectsFit, ServesOwnStar, NoLostStar, RegisteredHandlers

LEMMA SessionsKept ==
  ASSUME DInv, ObjectsStay, begun \subseteq begun', begun \subseteq Loads,
         \A p \in Plugins : registry'[p] # NoOne => registry'[p] = registry[p]
  PROVE  OneSession'
  BY DEF DInv, ObjectsStay, OneSession

(***************************************************************************)
(* The threads that an action leaves alone                                 *)
(***************************************************************************)
LEMMA LoadKept ==
  ASSUME DInv, IInv, NEW u \in Threads, UNCHANGED <<pc[u], plugin[u], session[u], servicer[u], meta[u]>>,
         begun \subseteq begun',
         \A i \in Loads : i = meta[u] /\ pc[u] \in LoadSteps =>
           instance'[i] = instance[i] /\ handlers'[i] = handlers[i] /\ phase'[i] = phase[i],
         \A p \in Plugins : p = plugin[u] /\ pc[u] \in LoadSteps =>
           registry'[p] = registry[p] /\ servicers'[p] = servicers[p],
         pc[u] = "add" => \A q \in Plugins : registry'[q] = registry[q] \/ registry'[q] # meta[u]
  PROVE  LoadFit(u)'
<1>1. CASE pc[u] \notin LoadSteps
  BY <1>1 DEF LoadFit
<1>2. CASE pc[u] \in LoadSteps
  <2>1. meta[u] \in Loads /\ plugin[u] \in Plugins /\ meta[u] # NoOne
    BY <1>2, Distinct DEF IInv, LocalsFit, LoadSteps, Quiescent
  <2>2. LoadFit(u)
    BY DEF DInv, ThreadsFit
  <2> QED
    BY <1>2, <2>1, <2>2 DEF LoadFit
<1> QED
  BY <1>1, <1>2

LEMMA UnloadKept ==
  ASSUME DInv, IInv, NEW u \in Threads, UNCHANGED <<pc[u], plugin[u]>>,
         \A p \in Plugins : p = plugin[u] /\ pc[u] \in UnloadSteps =>
           /\ registry'[p] = registry[p] /\ servicers'[p] = servicers[p]
           /\ Unregistered(p)' /\ Unstarted(p)'
  PROVE  UnloadFit(u)'
<1>1. CASE pc[u] \notin UnloadSteps
  BY <1>1 DEF UnloadFit
<1>2. CASE pc[u] \in UnloadSteps
  <2>1. plugin[u] \in Plugins
    BY <1>2 DEF IInv, LocalsFit, UnloadSteps, Quiescent
  <2>2. UnloadFit(u)
    BY DEF DInv, ThreadsFit
  <2>3. \A p \in Plugins : p = plugin[u] => Unregistered(p)' /\ Unstarted(p)'
    BY <1>2
  <2>4. Unregistered(plugin[u])' /\ Unstarted(plugin[u])'
    BY <2>1, <2>3 DEF Unregistered, Unstarted
  <2> QED
    BY <1>2, <2>1, <2>2, <2>4 DEF UnloadFit
<1> QED
  BY <1>1, <1>2

LEMMA RegisterKept ==
  ASSUME DInv, IInv, NEW u \in Threads, spawn[u] # NoOne,
         UNCHANGED <<pc[u], plugin[u], session[u], servicer[u], spawn[u]>>,
         \A p \in Plugins : p = plugin[u] => registry'[p] = registry[p] /\ Unstarted(p)',
         \A i \in Loads : i = registry[plugin[u]] => star'[i] = star[i],
         pc[u] \in {"registered", "onRegistered"} =>
           /\ \A p \in Plugins : p = plugin[u] => Unmanaged(p)'
           /\ \A i \in Loads : i = session[u] =>
                phase'[i] = phase[i] /\ instance'[i] = instance[i] /\ commands'[i] = commands[i]
  PROVE  RegisterFit(u)'
<1>1. RegisterFit(u)
  BY DEF DInv, ThreadsFit
<1>2. plugin[u] \in Plugins /\ registry[plugin[u]] \in Loads \cup {NoOne}
  BY <1>1 DEF RegisterFit, IInv, TypeOK
<1>3. Unstarted(plugin[u])'
  <2>1. \A p \in Plugins : p = plugin[u] => Unstarted(p)'
    OBVIOUS
  <2> QED
    BY <1>2, <2>1 DEF Unstarted
<1>4. CASE pc[u] \in {"registered", "onRegistered"}
  <2>1. \A p \in Plugins : p = plugin[u] => Unmanaged(p)'
    BY <1>4
  <2>2. Unmanaged(plugin[u])'
    BY <1>2, <2>1 DEF Unmanaged
  <2>3. session[u] \in Loads /\ session[u] = registry[plugin[u]]
    BY <1>1, <1>2, <1>4 DEF RegisterFit
  <2> QED
    BY <1>1, <1>2, <1>3, <1>4, <2>2, <2>3 DEF RegisterFit
<1>5. CASE pc[u] \notin {"registered", "onRegistered"}
  BY <1>1, <1>2, <1>3, <1>5 DEF RegisterFit
<1> QED
  BY <1>4, <1>5

LEMMA StarterKept ==
  ASSUME DInv, IInv, NEW u \in Starters, plugin[u] # NoOne,
         UNCHANGED <<pc[u], plugin[u], session[u], servicer[u], meta[u]>>,
         \A p \in Plugins : p = plugin[u] => registry'[p] = registry[p] /\ Unmanaged(p)',
         \A i \in Loads : i = meta[u] =>
           star'[i] = star[i] /\ phase'[i] = phase[i] /\ instance'[i] = instance[i]
  PROVE  StarterFit(u)'
<1>1. StarterFit(u)
  BY DEF DInv, ThreadsFit
<1>2. u \in Threads /\ plugin[u] \in Plugins
  BY DEF IInv, TypeOK, Threads
<1>3. Unmanaged(plugin[u])'
  <2>1. \A p \in Plugins : p = plugin[u] => Unmanaged(p)'
    OBVIOUS
  <2> QED
    BY <1>2, <2>1 DEF Unmanaged
<1>4. meta[u] \in Loads
  BY <1>1, <1>2 DEF StarterFit, IInv, TypeOK
<1> QED
  BY <1>1, <1>2, <1>3, <1>4 DEF StarterFit

(***************************************************************************)
(* A worker that manages nothing after its step                            *)
(***************************************************************************)
LEMMA WorkerMoves ==
  ASSUME DInv, IInv, NEW t \in Workers \cup {Main}, OthersStay(t), ObjectsStay,
         UNCHANGED <<registry, servicers, begun, todo>>,
         pc'[t] \notin LoadSteps \cup UnloadSteps,
         IsManaging(t) => registry[plugin[t]] = servicers[plugin[t]],
         spawn'[t] # NoOne => spawn[t] # NoOne /\ plugin'[t] = plugin[t],
         RegisterFit(t)'
  PROVE  DInv'
<1>0. t \in Threads /\ t \notin Starters
  BY Kinds
<1>1. \A p : /\ Unmanaged(p) => Unmanaged(p)'
             /\ Unregistered(p) => Unregistered(p)'
             /\ Unstarted(p) => Unstarted(p)'
  BY <1>0, Kinds DEF OthersStay, Unmanaged, Unregistered, Unstarted, IsManaging
<1>2. ASSUME NEW u \in Threads \ {t}
      PROVE  LoadFit(u)' /\ UnloadFit(u)' /\ RegisterFit(u)'
  <2>1. /\ UNCHANGED <<pc[u], plugin[u], session[u], servicer[u], meta[u]>>
        /\ LoadFit(u) /\ UnloadFit(u) /\ RegisterFit(u) /\ spawn'[u] = spawn[u]
    BY DEF OthersStay, DInv, ThreadsFit
  <2>2. LoadFit(u)'
    BY <2>1, LoadKept DEF ObjectsStay
  <2>3. UnloadFit(u)'
    BY <1>1, <2>1, UnloadKept DEF UnloadFit
  <2>4. CASE spawn[u] = NoOne
    BY <2>1, <2>2, <2>3, <2>4 DEF RegisterFit
  <2>5. CASE spawn[u] # NoOne
    <3>1. /\ Unstarted(plugin[u])
          /\ pc[u] \in {"registered", "onRegistered"} => Unmanaged(plugin[u])
      BY <2>1, <2>5 DEF RegisterFit
    <3>2. /\ \A p \in Plugins : p = plugin[u] => Unstarted(p)'
          /\ pc[u] \in {"registered", "onRegistered"} =>
               \A p \in Plugins : p = plugin[u] => Unmanaged(p)'
      BY <1>1, <3>1
    <3>3. \A i \in Loads : /\ star'[i] = star[i] /\ phase'[i] = phase[i]
                           /\ instance'[i] = instance[i] /\ commands'[i] = commands[i]
      BY DEF ObjectsStay
    <3> QED
      BY <2>1, <2>2, <2>3, <2>5, <3>2, <3>3, RegisterKept
  <2> QED
    BY <2>4, <2>5
<1>3. LoadFit(t)' /\ UnloadFit(t)'
  BY DEF LoadFit, UnloadFit
<1>4. ASSUME NEW u \in Starters PROVE StarterFit(u)'
  <2>1. /\ UNCHANGED <<pc[u], plugin[u], session[u], servicer[u], meta[u]>> /\ StarterFit(u)
    BY <1>0, Kinds DEF OthersStay, DInv, ThreadsFit
  <2>2. CASE plugin[u] = NoOne
    BY <2>1, <2>2 DEF StarterFit
  <2>3. CASE plugin[u] # NoOne
    BY <1>1, <2>1, <2>3, StarterKept DEF ObjectsStay, StarterFit
  <2> QED
    BY <2>2, <2>3
<1>5. OwnLoad' /\ OneManager'
  BY DEF DInv, ThreadsFit, OwnLoad, OneManager, OthersStay, IsManaging
<1>6. OneRegister'
  BY DEF DInv, ThreadsFit, OneRegister, OthersStay
<1>7. OneStarter'
  BY <1>0, Kinds DEF DInv, ThreadsFit, OneStarter, OthersStay
<1>8. MapsFit'
  <2> SUFFICES ASSUME NEW p \in Plugins, Unmanaged(p)' PROVE registry[p] = servicers[p]
    BY DEF MapsFit
  <2>1. Unmanaged(p) \/ (IsManaging(t) /\ plugin[t] = p)
    BY DEF Unmanaged, IsManaging, OthersStay
  <2> QED
    BY <2>1 DEF DInv, MapsFit
<1>9. TodoFits' /\ OneSession'
  <2>1. begun \subseteq Loads
    BY DEF IInv, TypeOK
  <2> QED
    BY <1>1, <2>1, SessionsKept DEF DInv, TodoFits
<1> QED
  BY <1>2, <1>3, <1>4, <1>5, <1>6, <1>7, <1>8, <1>9, ObjectsKept DEF DInv, ThreadsFit

LEMMA Untouched ==
  ASSUME IInv, UNCHANGED objects
  PROVE  ObjectsStay
  BY DEF ObjectsStay

\* A call returns.
LEMMA WorkerFinishes ==
  ASSUME DInv, IInv, NEW t \in Workers \cup {Main}, Finish(t), ObjectsStay,
         UNCHANGED <<registry, servicers, begun, todo>>,
         IsManaging(t) => registry[plugin[t]] = servicers[plugin[t]]
  PROVE  DInv'
<1>1. t \in Threads /\ t \notin Starters
  BY Kinds
<1>2. pc'[t] = "idle" /\ spawn'[t] = NoOne /\ OthersStay(t)
  BY <1>1 DEF Finish, IInv, TypeOK, OthersStay
<1> QED
  BY <1>2, WorkerMoves DEF RegisterFit, LoadSteps, UnloadSteps

\* A worker that manages nothing goes on with its request; p is still its plugin.
LEMMA WorkerGoesOn ==
  ASSUME DInv, IInv, NEW t \in Workers \cup {Main}, ObjectsStay,
         UNCHANGED <<registry, servicers, begun, todo, plugin, meta, spawn>>,
         NEW to \in RegisterSteps \cup HandleSteps \cup FailureSteps, pc' = [pc EXCEPT ![t] = to],
         ~IsManaging(t),
         \A u \in Threads \ {t} : session'[u] = session[u] /\ servicer'[u] = servicer[u],
         RegisterFit(t)'
  PROVE  DInv'
<1>1. t \in Threads
  BY Kinds
<1>2. pc'[t] = to /\ OthersStay(t)
  BY <1>1 DEF IInv, TypeOK, OthersStay
<1>3. pc'[t] \notin LoadSteps \cup UnloadSteps
  BY <1>2 DEF RegisterSteps, HandleSteps, FailureSteps, LoadSteps, UnloadSteps
<1> QED
  BY <1>2, <1>3, WorkerMoves

(***************************************************************************)
(* Calls of handlers                                                       *)
(***************************************************************************)
\* Only a Register has a thread to spawn.
LEMMA NoSpawn ==
  ASSUME DInv, NEW t \in Threads, pc[t] \notin RegisterSteps \cup FailureSteps
  PROVE  spawn[t] = NoOne
  BY DEF DInv, ThreadsFit, RegisterFit

LEMMA HandleDInv ==
  ASSUME DInv, IInv, NEW t \in Workers, NEW p \in Plugins, Handle(t, p)
  PROVE  DInv'
<1>1. /\ t \in Threads /\ pc[t] = "idle" /\ pc' = [pc EXCEPT ![t] = "handleSession"]
      /\ plugin' = [plugin EXCEPT ![t] = p] /\ meta' = [meta EXCEPT ![t] = NoOne]
      /\ UNCHANGED <<registry, servicers, begun, todo, session, servicer, spawn>> /\ UNCHANGED objects
  BY Kinds DEF Handle, Take, Step
<1>2. spawn[t] = NoOne
  BY <1>1, NoSpawn DEF RegisterSteps, FailureSteps
<1>3. pc'[t] = "handleSession" /\ spawn'[t] = NoOne /\ OthersStay(t)
  BY <1>1, <1>2 DEF IInv, TypeOK, OthersStay
<1>4. ~IsManaging(t) /\ pc'[t] \notin LoadSteps \cup UnloadSteps
  BY <1>1, <1>3 DEF IsManaging, LoadSteps, UnloadSteps
<1> QED
  BY <1>1, <1>3, <1>4, WorkerMoves, Untouched DEF RegisterFit

LEMMA RouteSessionDInv ==
  ASSUME DInv, IInv, NEW t \in Workers, RouteSession(t)
  PROVE  DInv'
<1>1. /\ t \in Threads /\ pc[t] \in {"registerSession", "handleSession"}
      /\ UNCHANGED <<registry, servicers, begun, todo>> /\ ObjectsStay /\ ~IsManaging(t)
  BY Kinds, Untouched DEF RouteSession, LookUpSession, IsManaging, LoadSteps, UnloadSteps
<1>2. CASE Finish(t)
  BY <1>1, <1>2, WorkerFinishes
<1>3. ASSUME NEW to, pc' = [pc EXCEPT ![t] = to],
             <<pc[t], to>> \in {<<"registerSession", "registerServicer">>,
                                <<"handleSession", "handleServicer">>},
             registry[plugin[t]] # NoOne,
             session' = [session EXCEPT ![t] = registry[plugin[t]]],
             UNCHANGED <<ctx, plugin, servicer, meta, spawn>>
      PROVE  DInv'
  <2>1. to \in RegisterSteps \cup HandleSteps
    BY <1>3 DEF RegisterSteps, HandleSteps
  <2>2. RegisterFit(t)'
    <3>1. CASE spawn[t] = NoOne
      BY <1>3, <3>1 DEF RegisterFit
    <3>2. CASE spawn[t] # NoOne
      <4>1. pc[t] = "registerSession"
        BY <1>1, <1>3, <3>2, NoSpawn DEF RegisterSteps, FailureSteps
      <4>2. /\ pc'[t] = "registerServicer" /\ session'[t] = registry[plugin[t]]
            /\ plugin[t] \in Plugins /\ registry[plugin[t]] \in Loads
        BY <1>1, <1>3, <4>1 DEF IInv, TypeOK, LocalsFit, Quiescent
      <4>3. RegisterFit(t) /\ Unstarted(plugin[t])
        BY <1>1, <3>2 DEF DInv, ThreadsFit, RegisterFit
      <4>4. Unstarted(plugin[t])'
        BY <1>3, <4>3 DEF Unstarted
      <4> QED
        BY <1>1, <1>3, <3>2, <4>2, <4>3, <4>4 DEF RegisterFit, ObjectsStay, RegisterSteps
    <3> QED
      BY <3>1, <3>2
  <2>3. \A u \in Threads \ {t} : session'[u] = session[u] /\ servicer'[u] = servicer[u]
    BY <1>3 DEF IInv, TypeOK
  <2> QED
    BY <1>1, <1>3, <2>1, <2>2, <2>3, WorkerGoesOn
<1> QED
  BY <1>2, <1>3 DEF RouteSession, LookUpSession

LEMMA RouteServicerDInv ==
  ASSUME DInv, IInv, NEW t \in Workers, RouteServicer(t)
  PROVE  DInv'
<1>1. /\ t \in Threads /\ pc[t] \in {"registerServicer", "handleServicer"}
      /\ UNCHANGED <<registry, servicers, begun, todo>> /\ ObjectsStay /\ ~IsManaging(t)
  BY Kinds, Untouched DEF RouteServicer, LookUpServicer, IsManaging, LoadSteps, UnloadSteps
<1>2. CASE Finish(t)
  BY <1>1, <1>2, WorkerFinishes
<1>3. ASSUME NEW to, pc' = [pc EXCEPT ![t] = to],
             <<pc[t], to>> \in {<<"registerServicer", "waitReady">>,
                                <<"handleServicer", "waitRunning">>},
             servicers[plugin[t]] # NoOne,
             servicer' = [servicer EXCEPT ![t] = servicers[plugin[t]]],
             UNCHANGED <<plugin, session, meta, spawn>>
      PROVE  DInv'
  <2>1. to \in RegisterSteps \cup HandleSteps
    BY <1>3 DEF RegisterSteps, HandleSteps
  <2>2. RegisterFit(t)'
    <3>1. CASE spawn[t] = NoOne
      BY <1>3, <3>1 DEF RegisterFit
    <3>2. CASE spawn[t] # NoOne
      <4>1. pc[t] = "registerServicer"
        BY <1>1, <1>3, <3>2, NoSpawn DEF RegisterSteps, FailureSteps
      <4>2. /\ pc'[t] = "waitReady" /\ servicer'[t] = servicers[plugin[t]]
            /\ plugin[t] \in Plugins
        BY <1>1, <1>3, <4>1 DEF IInv, TypeOK, LocalsFit, Quiescent
      <4>3. RegisterFit(t) /\ Unstarted(plugin[t]) /\ registry[plugin[t]] = session[t]
        BY <1>1, <3>2, <4>1 DEF DInv, ThreadsFit, RegisterFit
      <4>4. Unstarted(plugin[t])'
        BY <1>3, <4>3 DEF Unstarted
      <4>5. servicers[plugin[t]] = registry[plugin[t]]
        <5>1. CASE Unmanaged(plugin[t])
          BY <4>2, <5>1 DEF DInv, MapsFit
        <5>2. ASSUME NEW u \in Threads, IsManaging(u), plugin[u] = plugin[t]
              PROVE  servicers[plugin[t]] = registry[plugin[t]]
          <6>1. pc[u] \in LoadSteps
            BY <1>1, <3>2, <5>2 DEF DInv, ThreadsFit, UnloadFit, Unregistered, IsManaging
          <6>2. LoadFit(u)
            BY DEF DInv, ThreadsFit
          <6> QED
            BY <1>3, <4>2, <4>3, <5>2, <6>1, <6>2, NoSpawn, <3>2 DEF LoadFit, RegisterFit
        <5> QED
          BY <5>1, <5>2 DEF Unmanaged
      <4>6. session[t] \in Loads
        BY <4>2, <4>3, <3>2, <4>1 DEF RegisterFit, IInv, TypeOK
      <4> QED
        BY <1>1, <1>3, <3>2, <4>1, <4>2, <4>3, <4>4, <4>5, <4>6
           DEF RegisterFit, ObjectsStay, RegisterSteps
    <3> QED
      BY <3>1, <3>2
  <2>3. \A u \in Threads \ {t} : session'[u] = session[u] /\ servicer'[u] = servicer[u]
    BY <1>3 DEF IInv, TypeOK
  <2> QED
    BY <1>1, <1>3, <2>1, <2>2, <2>3, WorkerGoesOn
<1> QED
  BY <1>2, <1>3 DEF RouteServicer, LookUpServicer

LEMMA CallHandlerDInv ==
  ASSUME DInv, IInv, NEW t \in Workers, CallHandler(t) \/ ServicerFails(t)
  PROVE  DInv'
<1>1. /\ t \in Threads /\ pc[t] \in HandleSteps /\ ~IsManaging(t) /\ UNCHANGED objects
      /\ UNCHANGED <<registry, servicers, begun, todo, plugin, session, servicer, meta, spawn>>
  BY Kinds DEF CallHandler, ServicerFails, Step, HandleSteps, IsManaging, LoadSteps, UnloadSteps
<1>2. PICK to \in RegisterSteps \cup HandleSteps \cup FailureSteps : pc' = [pc EXCEPT ![t] = to]
  BY DEF CallHandler, ServicerFails, Step, HandleSteps, FailureSteps
<1>3. RegisterFit(t)'
  BY <1>1, NoSpawn DEF RegisterFit, HandleSteps, RegisterSteps, FailureSteps
<1> QED
  BY <1>1, <1>2, <1>3, Untouched, WorkerGoesOn

LEMMA HandlerEndsDInv ==
  ASSUME DInv, IInv, NEW t \in Workers,
         SkipHandler(t) \/ HandlerReturns(t) \/ MarkError(t) \/ NothingToInstantiate(t)
           \/ AnswerRegister(t)
  PROVE  DInv'
<1>1. /\ Finish(t) /\ UNCHANGED <<registry, servicers, begun, todo>>
      /\ UNCHANGED <<instance, handlers, gates, stars>>
  BY DEF SkipHandler, HandlerReturns, MarkError, NothingToInstantiate, AnswerRegister
<1>2. ~IsManaging(t)
  BY DEF SkipHandler, HandlerReturns, MarkError, NothingToInstantiate, AnswerRegister, IsManaging,
         LoadSteps, UnloadSteps
<1>3. ObjectsStay
  BY <1>1 DEF ObjectsStay
<1> QED
  BY <1>1, <1>2, <1>3, WorkerFinishes

\* An exception reached the dispatcher; the session of a Register that fails is forgotten.
LEMMA FailureDInv ==
  ASSUME DInv, IInv, NEW t \in Workers, CheckLifecycle(t) \/ VersionMismatch(t)
  PROVE  DInv'
<1>1. /\ t \in Threads /\ ~IsManaging(t) /\ UNCHANGED objects
      /\ UNCHANGED <<registry, servicers, begun, todo>>
  BY Kinds DEF CheckLifecycle, VersionMismatch, Step, IsManaging, LoadSteps, UnloadSteps
<1>2. CASE Finish(t)
  BY <1>1, <1>2, Untouched, WorkerFinishes
<1>3. ASSUME NEW to \in FailureSteps, pc' = [pc EXCEPT ![t] = to],
             UNCHANGED <<plugin, session, servicer, meta, spawn>>
      PROVE  DInv'
  <2>1. pc'[t] = to
    BY <1>1, <1>3 DEF IInv, TypeOK
  <2>2. RegisterFit(t)'
    <3>1. CASE spawn[t] = NoOne
      BY <1>3, <3>1 DEF RegisterFit
    <3>2. CASE spawn[t] # NoOne
      <4>1. RegisterFit(t) /\ Unstarted(plugin[t]) /\ plugin[t] \in Plugins
        BY <1>1, <3>2 DEF DInv, ThreadsFit, RegisterFit
      <4>2. Unstarted(plugin[t])' /\ registry[plugin[t]] \in Loads \cup {NoOne}
        BY <1>3, <4>1 DEF Unstarted, IInv, TypeOK
      <4> QED
        BY <1>1, <1>3, <2>1, <3>2, <4>1, <4>2 DEF RegisterFit, FailureSteps
    <3> QED
      BY <3>1, <3>2
  <2> QED
    BY <1>1, <1>3, <2>2, Untouched, WorkerGoesOn
<1> QED
  BY <1>2, <1>3 DEF CheckLifecycle, VersionMismatch, Step, FailureSteps

(***************************************************************************)
(* Register                                                                *)
(***************************************************************************)
\* What a Register that has its servicer knows of it.
LEMMA RegisterKnows ==
  ASSUME DInv, IInv, NEW t \in Threads, pc[t] \in {"waitReady", "registered", "onRegistered"}
  PROVE  /\ spawn[t] \in Starters /\ spawn[t] # NoOne
         /\ plugin[t] \in Plugins /\ Unstarted(plugin[t])
         /\ session[t] \in Loads /\ registry[plugin[t]] = session[t] /\ servicer[t] = session[t]
         /\ star[session[t]] = NoOne
         /\ \A u \in Threads : pc[u] \in UnloadSteps => plugin[u] # plugin[t]
<1>1. spawn[t] \in Starters /\ spawn[t] # NoOne
  BY Distinct DEF IInv, LocalsFit, RegisterSteps
<1>2. RegisterFit(t)
  BY DEF DInv, ThreadsFit
<1>3. session[t] \in Loads
  BY <1>1, <1>2 DEF RegisterFit, IInv, TypeOK
<1>4. \A u \in Threads : pc[u] \in UnloadSteps => plugin[u] # plugin[t]
  BY <1>1 DEF DInv, ThreadsFit, UnloadFit, Unregistered
<1> QED
  BY <1>1, <1>2, <1>3, <1>4, Distinct DEF RegisterFit

\* Another thread's session is another one.
LEMMA RegistersElse ==
  ASSUME DInv, IInv, NEW t \in Threads, pc[t] \in {"waitReady", "registered", "onRegistered"},
         NEW u \in Threads \ {t}, spawn[u] # NoOne
  PROVE  registry[plugin[u]] # session[t]
<1>1. plugin[u] \in Plugins /\ plugin[u] # plugin[t]
  BY RegisterKnows DEF DInv, ThreadsFit, RegisterFit, OneRegister
<1> QED
  BY <1>1, RegisterKnows, Distinct DEF DInv, OneSession

\* A Register goes on, and changes only the gate and the commands of its servicer.
LEMMA RegisterMoves ==
  ASSUME DInv, IInv, NEW t \in Workers, pc[t] \in {"waitReady", "registered"}, OthersStay(t),
         UNCHANGED <<registry, servicers, begun, todo, plugin, spawn>>,
         UNCHANGED <<instance, handlers, star, inst, life>>,
         pc'[t] \in {"registered", "onRegistered"},
         \A i \in Loads \ {session[t]} : phase'[i] = phase[i] /\ commands'[i] = commands[i],
         phase'[session[t]] = phase[session[t]] \/ Unmanaged(plugin[t]),
         RegisterFit(t)'
  PROVE  ThreadsFit' /\ MapsFit' /\ TodoFits'
<1>0. t \in Threads /\ t \notin Starters
  BY Kinds
<1>1. pc'[t] \notin LoadSteps \cup UnloadSteps /\ ~IsManaging(t)
  BY DEF LoadSteps, UnloadSteps, IsManaging
<1>2. \A p : /\ Unmanaged(p)' <=> Unmanaged(p)
             /\ Unregistered(p) => Unregistered(p)'
             /\ Unstarted(p) => Unstarted(p)'
  BY <1>0, <1>1, Kinds DEF OthersStay, Unmanaged, Unregistered, Unstarted, IsManaging
<1>3. ASSUME NEW u \in Threads \ {t}
      PROVE  LoadFit(u)' /\ UnloadFit(u)' /\ RegisterFit(u)'
  <2>1. /\ UNCHANGED <<pc[u], plugin[u], session[u], servicer[u], meta[u]>>
        /\ LoadFit(u) /\ UnloadFit(u) /\ RegisterFit(u) /\ spawn'[u] = spawn[u]
    BY DEF OthersStay, DInv, ThreadsFit
  <2>2. pc[u] \in LoadSteps => meta[u] # session[t] \/ phase'[session[t]] = phase[session[t]]
    BY <1>0, OfTheLoad, RegisterKnows
  <2>3. LoadFit(u)'
    BY <2>1, <2>2, LoadKept
  <2>4. UnloadFit(u)'
    BY <1>2, <2>1, UnloadKept DEF UnloadFit
  <2>5. CASE spawn[u] = NoOne
    BY <2>1, <2>3, <2>4, <2>5 DEF RegisterFit
  <2>6. CASE spawn[u] # NoOne
    <3>1. pc[u] \in {"registered", "onRegistered"} => session[u] # session[t]
      BY <1>0, <2>6, RegistersElse, RegisterKnows
    <3> QED
      BY <1>2, <2>1, <2>3, <2>4, <2>6, <3>1, RegisterKept DEF RegisterFit
  <2> QED
    BY <2>5, <2>6
<1>4. LoadFit(t)' /\ UnloadFit(t)'
  BY <1>1 DEF LoadFit, UnloadFit
<1>5. ASSUME NEW u \in Starters PROVE StarterFit(u)'
  <2>1. /\ UNCHANGED <<pc[u], plugin[u], session[u], servicer[u], meta[u]>> /\ StarterFit(u)
    BY <1>0, Kinds DEF OthersStay, DInv, ThreadsFit
  <2>2. CASE plugin[u] = NoOne
    BY <2>1, <2>2 DEF StarterFit
  <2>3. CASE plugin[u] # NoOne
    <3>1. plugin[u] \in Plugins /\ plugin[u] # plugin[t]
      BY <1>0, <2>3, Kinds, RegisterKnows DEF IInv, TypeOK, Unstarted
    <3>2. meta[u] # session[t]
      BY <1>0, <2>1, <2>3, <3>1, RegisterKnows, Distinct DEF StarterFit, DInv, OneSession
    <3> QED
      BY <1>2, <2>1, <2>3, <3>2, StarterKept DEF StarterFit
  <2> QED
    BY <2>2, <2>3
<1>6. OwnLoad' /\ OneManager'
  BY <1>1 DEF DInv, ThreadsFit, OwnLoad, OneManager, OthersStay, IsManaging
<1>7. OneRegister' /\ OneStarter'
  BY DEF DInv, ThreadsFit, OneRegister, OneStarter
<1>8. MapsFit' /\ TodoFits'
  BY <1>2 DEF DInv, MapsFit, TodoFits
<1> QED
  BY <1>3, <1>4, <1>5, <1>6, <1>7, <1>8 DEF ThreadsFit

LEMMA BuildRegistryDInv ==
  ASSUME Disciplined, DInv, IInv, NEW t \in Workers, RegisterReady(t) \/ RegisterTimesOut(t)
  PROVE  DInv'
<1> DEFINE i == session[t]
<1>1. /\ t \in Threads /\ pc[t] = "waitReady" /\ pc'[t] = "registered" /\ OthersStay(t)
      /\ UNCHANGED <<registry, servicers, begun, todo, plugin, session, servicer, spawn>>
      /\ UNCHANGED <<instance, handlers, phase, star, inst, life>>
  BY Kinds DEF RegisterReady, RegisterTimesOut, BuildRegistry, Step, OthersStay, IInv, TypeOK
<1>2. /\ spawn[t] # NoOne /\ plugin[t] \in Plugins /\ Unstarted(plugin[t])
      /\ i \in Loads /\ i # NoOne /\ registry[plugin[t]] = i /\ servicer[t] = i /\ star[i] = NoOne
      /\ \A u \in Threads : pc[u] \in UnloadSteps => plugin[u] # plugin[t]
  BY <1>1, RegisterKnows, Distinct
<1>3. ctx[t] = i
  BY <1>1 DEF IInv, ContextPaired, InContext
<1>4. commands' = [commands EXCEPT ![i] = @ \cup handlers[i]]
  BY <1>2, <1>3 DEF RegisterReady, RegisterTimesOut, BuildRegistry
<1>5. /\ commands'[i] = commands[i] \cup handlers[i]
      /\ \A k \in Loads \ {i} : commands'[k] = commands[k]
  BY <1>2, <1>4 DEF IInv, TypeOK
<1>6. commands'[i] \subseteq {i} /\ (instance[i] # NoOne => commands'[i] = {i})
  BY <1>2, <1>5 DEF DInv, ObjectsFit
<1>7. Unmanaged(plugin[t])
  <2>1. CASE phase[i] # "CREATED"
    <3>1. ASSUME NEW u \in Threads, pc[u] \in LoadSteps, plugin[u] = plugin[t] PROVE FALSE
      <4>1. LoadFit(u)
        BY DEF DInv, ThreadsFit
      <4> QED
        BY <1>2, <2>1, <3>1, <4>1, Distinct DEF LoadFit
    <3> QED
      BY <1>2, <3>1 DEF Unmanaged, IsManaging
  <2>2. CASE Loading(plugin[t]) = {}
    BY <1>2, <2>2 DEF Loading, Unmanaged, IsManaging
  <2> QED
    BY <1>2, <2>1, <2>2 DEF RegisterReady, RegisterTimesOut, Disciplined
<1>8. Unmanaged(plugin[t])' /\ Unstarted(plugin[t])'
  BY <1>1, <1>2, <1>7, Kinds DEF Unmanaged, Unstarted, IsManaging, OthersStay, LoadSteps, UnloadSteps
<1> HIDE DEF i
<1>9. RegisterFit(t)'
  BY <1>1, <1>2, <1>6, <1>8 DEF RegisterFit, RegisterSteps, i
<1>10. ThreadsFit' /\ MapsFit' /\ TodoFits'
  BY <1>1, <1>5, <1>9, RegisterMoves DEF i
<1>11. OneSession' /\ ServesOwnStar' /\ NoLostStar'
  BY <1>1 DEF DInv, OneSession, ServesOwnStar, NoLostStar
<1>12. ObjectsFit' /\ RegisteredHandlers'
  BY <1>1, <1>2, <1>5, <1>6 DEF DInv, ObjectsFit, RegisteredHandlers
<1> QED
  BY <1>10, <1>11, <1>12 DEF DInv

LEMMA RegisteredDInv ==
  ASSUME DInv, IInv, NEW t \in Workers, Registered(t)
  PROVE  DInv' /\ phase[servicer[t]] # "RUNNING"
<1> DEFINE i == session[t]
<1>1. /\ t \in Threads /\ pc[t] = "registered" /\ pc'[t] = "onRegistered" /\ OthersStay(t)
      /\ UNCHANGED <<registry, servicers, begun, todo, plugin, session, servicer, spawn>>
      /\ UNCHANGED <<instance, handlers, commands, star, inst, life>>
      /\ phase' = [phase EXCEPT ![servicer[t]] = "REGISTERED"]
  BY Kinds DEF Registered, Step, OthersStay, IInv, TypeOK
<1>2. /\ spawn[t] # NoOne /\ plugin[t] \in Plugins /\ Unstarted(plugin[t])
      /\ i \in Loads /\ i # NoOne /\ registry[plugin[t]] = i /\ servicer[t] = i /\ star[i] = NoOne
  BY <1>1, RegisterKnows, Distinct
<1>3. phase'[i] = "REGISTERED" /\ \A k \in Loads \ {i} : phase'[k] = phase[k]
  BY <1>1, <1>2 DEF IInv, TypeOK
<1>4. Unmanaged(plugin[t]) /\ (instance[i] # NoOne => commands[i] = {i})
  BY <1>1, <1>2 DEF DInv, ThreadsFit, RegisterFit
<1>5. Unmanaged(plugin[t])' /\ Unstarted(plugin[t])'
  BY <1>1, <1>2, <1>4, Kinds DEF Unmanaged, Unstarted, IsManaging, OthersStay, LoadSteps, UnloadSteps
<1> HIDE DEF i
<1>6. RegisterFit(t)'
  BY <1>1, <1>2, <1>3, <1>4, <1>5 DEF RegisterFit, RegisterSteps, i
<1>7. ThreadsFit' /\ MapsFit' /\ TodoFits'
  BY <1>1, <1>3, <1>4, <1>6, RegisterMoves DEF i
<1>8. OneSession' /\ ServesOwnStar' /\ NoLostStar'
  BY <1>1, <1>2, <1>3 DEF DInv, OneSession, ServesOwnStar, NoLostStar
<1>9. ObjectsFit' /\ RegisteredHandlers'
  BY <1>1, <1>2, <1>3, <1>4 DEF DInv, ObjectsFit, RegisteredHandlers
<1>10. phase[i] # "RUNNING"
  BY <1>2 DEF IInv, GateOrder, DInv, ServesOwnStar
<1> QED
  BY <1>2, <1>7, <1>8, <1>9, <1>10 DEF DInv

\* The thread is born: the instantiation has begun, beside the rest of the Register.
LEMMA SpawnStarterDInv ==
  ASSUME DInv, IInv, NEW t \in Workers, SpawnStarter(t)
  PROVE  DInv'
<1>0. PICK i, u, p : i = session[t] /\ u = spawn[t] /\ p = plugin[t]
  OBVIOUS
<1>1. /\ t \in Threads /\ t \notin Starters /\ pc[t] = "onRegistered" /\ instance[registry[p]] # NoOne
      /\ pc'     = [pc EXCEPT ![t] = "answer", ![u] = "starSession"]
      /\ plugin' = [plugin EXCEPT ![u] = p]
      /\ meta'   = [meta EXCEPT ![u] = instance[registry[p]]]
      /\ session'  = [session EXCEPT ![t] = NoOne]
      /\ servicer' = [servicer EXCEPT ![t] = NoOne]
      /\ spawn'    = [spawn EXCEPT ![t] = NoOne]
      /\ UNCHANGED <<registry, servicers, begun, todo>> /\ UNCHANGED objects
  BY <1>0, Kinds DEF SpawnStarter
<1>2. /\ u \in Starters /\ u \in Threads /\ u # t /\ spawn[t] # NoOne /\ p \in Plugins /\ Unstarted(p)
      /\ i \in Loads /\ i # NoOne /\ registry[p] = i /\ star[i] = NoOne
      /\ \A v \in Threads : pc[v] \in UnloadSteps => plugin[v] # p
  BY <1>0, <1>1, RegisterKnows, Distinct, Kinds
<1>3. RegisterFit(t)
  BY <1>1 DEF DInv, ThreadsFit
<1>4. instance[i] = i /\ Unmanaged(p) /\ phase[i] = "REGISTERED"
  BY <1>0, <1>1, <1>2, <1>3 DEF DInv, ObjectsFit, RegisterFit
<1>5. pc[u] = "unborn" /\ spawn[u] = NoOne
  BY <1>0, <1>1, <1>2, Distinct DEF IInv, SpawnsFresh
<1>6. plugin[u] = NoOne
  BY <1>2, <1>5 DEF DInv, ThreadsFit, StarterFit, StarterSteps
<1>7. /\ pc'[t] = "answer" /\ plugin'[t] = p /\ spawn'[t] = NoOne
      /\ pc'[u] = "starSession" /\ plugin'[u] = p /\ meta'[u] = i /\ spawn'[u] = NoOne
      /\ \A v \in Threads \ {t, u} :
           UNCHANGED <<pc[v], plugin[v], session[v], servicer[v], meta[v], spawn[v]>>
  BY <1>0, <1>1, <1>2, <1>4, <1>5 DEF IInv, TypeOK
<1>8. ~IsManaging(t) /\ ~IsManaging(t)' /\ ~IsManaging(u) /\ ~IsManaging(u)'
  BY <1>1, <1>5, <1>7 DEF IsManaging, LoadSteps, UnloadSteps
<1>9. \A q : /\ Unmanaged(q) => Unmanaged(q)'
             /\ Unmanaged(q)' => Unmanaged(q)
             /\ Unregistered(q) => Unregistered(q)'
             /\ Unstarted(q) /\ q # p => Unstarted(q)'
  <2>1. \A q : Unmanaged(q)' <=> Unmanaged(q)
    BY <1>7, <1>8 DEF Unmanaged, IsManaging
  <2>2. \A q : Unregistered(q) => Unregistered(q)'
    BY <1>7 DEF Unregistered
  <2>3. \A v \in Starters : plugin'[v] = plugin[v] \/ plugin'[v] = p
    BY <1>1, <1>7, Kinds
  <2>4. \A q : Unstarted(q) /\ q # p => Unstarted(q)'
    BY <2>3 DEF Unstarted
  <2> QED
    BY <2>1, <2>2, <2>4
<1>10. ASSUME NEW v \in Threads \ {t, u}
       PROVE  LoadFit(v)' /\ UnloadFit(v)' /\ RegisterFit(v)'
  <2>1. UNCHANGED <<pc[v], plugin[v], session[v], servicer[v], meta[v], spawn[v]>>
    BY <1>7
  <2>2. LoadFit(v) /\ UnloadFit(v) /\ RegisterFit(v)
    BY DEF DInv, ThreadsFit
  <2>3. LoadFit(v)'
    BY <1>1, <2>1, LoadKept
  <2>4. UnloadFit(v)'
    BY <1>1, <1>2, <1>9, <2>1, <2>2, UnloadKept DEF UnloadFit
  <2>5. CASE spawn[v] = NoOne
    BY <2>1, <2>3, <2>4, <2>5 DEF RegisterFit
  <2>6. CASE spawn[v] # NoOne
    <3>1. plugin[v] # p
      BY <1>0, <1>1, <1>2, <2>6 DEF DInv, ThreadsFit, OneRegister
    <3>2. \A q \in Plugins : q = plugin[v] => Unstarted(q)'
      BY <1>9, <2>2, <2>6, <3>1 DEF RegisterFit
    <3>3. pc[v] \in {"registered", "onRegistered"} =>
            \A q \in Plugins : q = plugin[v] => Unmanaged(q)'
      BY <1>9, <2>2, <2>6 DEF RegisterFit
    <3>4. RegisterFit(v)'
      BY <1>1, <2>1, <2>6, <3>2, <3>3, RegisterKept
    <3> QED
      BY <2>3, <2>4, <3>4
  <2> QED
    BY <2>5, <2>6
<1>11. ASSUME NEW v \in {t, u}
       PROVE  LoadFit(v)' /\ UnloadFit(v)' /\ RegisterFit(v)'
  BY <1>7, <1>8 DEF LoadFit, UnloadFit, RegisterFit, IsManaging
<1>12. ASSUME NEW v \in Starters PROVE StarterFit(v)'
  <2>1. CASE v = u
    <3>1. Unmanaged(p)'
      BY <1>4, <1>9
    <3>2. Unmanaged(plugin[v])'
      BY <1>7, <2>1, <3>1 DEF Unmanaged
    <3>3. /\ pc'[v] = "starSession" /\ plugin'[v] = p /\ meta'[v] = i
          /\ registry'[p] = i /\ star'[i] = NoOne /\ phase'[i] = "REGISTERED"
          /\ instance'[i] = i
      BY <1>1, <1>2, <1>4, <1>7, <2>1
    <3>4. pc'[v] \in StarterSteps
      BY <3>3 DEF StarterSteps
    <3> QED
      BY <1>2, <3>2, <3>3, <3>4 DEF StarterFit
  <2>2. CASE v # u
    <3>1. UNCHANGED <<pc[v], plugin[v], session[v], servicer[v], meta[v]>> /\ StarterFit(v)
      BY <1>1, <1>7, <2>2, Kinds DEF DInv, ThreadsFit
    <3>2. CASE plugin[v] = NoOne
      BY <3>1, <3>2 DEF StarterFit
    <3>3. CASE plugin[v] # NoOne
      BY <1>1, <1>9, <3>1, <3>3, StarterKept DEF StarterFit
    <3> QED
      BY <3>2, <3>3
  <2> QED
    BY <2>1, <2>2
<1>13. OwnLoad' /\ OneManager'
  BY <1>7, <1>8 DEF DInv, ThreadsFit, OwnLoad, OneManager, IsManaging
<1>14. OneRegister'
  BY <1>7 DEF DInv, ThreadsFit, OneRegister
<1>15. OneStarter'
  BY <1>1, <1>2, <1>7, Kinds DEF DInv, ThreadsFit, OneStarter, Unstarted
<1>16. MapsFit' /\ TodoFits'
  BY <1>1, <1>9 DEF DInv, MapsFit, TodoFits
<1>17. OneSession'
  BY <1>1 DEF DInv, OneSession
<1> QED
  BY <1>1, <1>10, <1>11, <1>12, <1>13, <1>14, <1>15, <1>16, <1>17, ObjectsKept, Untouched
     DEF DInv, ThreadsFit

(***************************************************************************)
(* A request begins                                                        *)
(***************************************************************************)
LEMMA RegisterDInv ==
  ASSUME Disciplined, DInv, IInv, NEW t \in Workers, NEW p \in Plugins, Register(t, p)
  PROVE  DInv'
<1>1. /\ t \in Threads /\ t \notin Starters /\ pc[t] = "idle" /\ pc' = [pc EXCEPT ![t] = "registerSession"]
      /\ plugin' = [plugin EXCEPT ![t] = p] /\ meta' = [meta EXCEPT ![t] = NoOne]
      /\ UNCHANGED <<registry, servicers, begun, todo, session, servicer>> /\ UNCHANGED objects
      /\ \E u \in Starters : spawn' = [spawn EXCEPT ![t] = u]
  BY Kinds DEF Register, Take, Step
<1>2. pc'[t] = "registerSession" /\ plugin'[t] = p /\ OthersStay(t) /\ p # NoOne
  BY <1>1, Distinct DEF IInv, TypeOK, OthersStay
<1>3. /\ Unregistered(p) /\ Unstarted(p)
      /\ registry[p] # NoOne => phase[registry[p]] \in {"CREATED", "REGISTERING"}
      /\ Managing(p) \subseteq {Main}
  BY Guards DEF Register, Once, Disciplined
<1>4. registry[p] # NoOne => star[registry[p]] = NoOne
  BY <1>3 DEF DInv, ObjectsFit, IInv, TypeOK
<1>5. \A u \in Threads : pc[u] \in UnloadSteps => plugin[u] # p
  <2> SUFFICES ASSUME NEW u \in Threads, pc[u] \in UnloadSteps, plugin[u] = p PROVE FALSE
    OBVIOUS
  <2>1. u \in Workers
    BY DEF DInv, ThreadsFit, UnloadFit
  <2>2. u \in Managing(p)
    BY DEF Managing, Unloading
  <2> QED
    BY <1>3, <2>1, <2>2, Distinct
<1>6. ~IsManaging(t) /\ ~IsManaging(t)'
  BY <1>1, <1>2 DEF IsManaging, LoadSteps, UnloadSteps
<1>7. \A q : /\ Unmanaged(q) <=> Unmanaged(q)'
             /\ Unregistered(q) /\ q # p => Unregistered(q)'
             /\ Unstarted(q) => Unstarted(q)'
  BY <1>1, <1>2, <1>6, Kinds DEF OthersStay, Unmanaged, Unregistered, Unstarted, IsManaging
<1>8. ASSUME NEW u \in Threads \ {t}
      PROVE  LoadFit(u)' /\ UnloadFit(u)' /\ RegisterFit(u)'
  <2>1. UNCHANGED <<pc[u], plugin[u], session[u], servicer[u], meta[u], spawn[u]>>
    BY <1>2 DEF OthersStay
  <2>2. LoadFit(u) /\ UnloadFit(u) /\ RegisterFit(u)
    BY DEF DInv, ThreadsFit
  <2>3. LoadFit(u)'
    BY <1>1, <2>1, LoadKept
  <2>4. UnloadFit(u)'
    BY <1>1, <1>5, <1>7, <2>1, <2>2, UnloadKept DEF UnloadFit
  <2>5. CASE spawn[u] = NoOne
    BY <2>1, <2>3, <2>4, <2>5 DEF RegisterFit
  <2>6. CASE spawn[u] # NoOne
    BY <1>1, <1>7, <2>1, <2>2, <2>3, <2>4, <2>6, RegisterKept DEF RegisterFit
  <2> QED
    BY <2>5, <2>6
<1>9. LoadFit(t)' /\ UnloadFit(t)'
  BY <1>6 DEF LoadFit, UnloadFit, IsManaging
<1>10. RegisterFit(t)'
  <2>1. Unstarted(p)'
    BY <1>3, <1>7
  <2> QED
    BY <1>1, <1>2, <1>4, <2>1 DEF RegisterFit, RegisterSteps
<1>11. ASSUME NEW u \in Starters PROVE StarterFit(u)'
  <2>1. UNCHANGED <<pc[u], plugin[u], session[u], servicer[u], meta[u]>> /\ StarterFit(u)
    BY <1>1, <1>2, Kinds DEF OthersStay, DInv, ThreadsFit
  <2>2. CASE plugin[u] = NoOne
    BY <2>1, <2>2 DEF StarterFit
  <2>3. CASE plugin[u] # NoOne
    BY <1>1, <1>7, <2>1, <2>3, StarterKept DEF StarterFit
  <2> QED
    BY <2>2, <2>3
<1>12. OwnLoad' /\ OneManager' /\ OneStarter'
  BY <1>1, <1>2, <1>6, Kinds DEF DInv, ThreadsFit, OwnLoad, OneManager, OneStarter, OthersStay, IsManaging
<1>13. OneRegister'
  BY <1>2, <1>3 DEF DInv, ThreadsFit, OneRegister, OthersStay, Unregistered
<1>14. MapsFit' /\ TodoFits' /\ OneSession'
  BY <1>1, <1>7 DEF DInv, MapsFit, TodoFits, OneSession
<1> QED
  BY <1>1, <1>8, <1>9, <1>10, <1>11, <1>12, <1>13, <1>14, ObjectsKept, Untouched DEF DInv, ThreadsFit

\* A load or an unload begins: of a plugin that nobody manages, registers or instantiates.
LEMMA ManagerBegins ==
  ASSUME DInv, IInv, NEW t \in Workers \cup {Main}, NEW p \in Plugins, OthersStay(t),
         UNCHANGED <<registry, servicers>>, UNCHANGED objects,
         pc[t] = "idle", plugin'[t] = p, spawn'[t] = NoOne,
         begun \subseteq begun', begun' \subseteq Loads, todo' \subseteq todo, p \notin todo',
         Unmanaged(p),
         \/ /\ pc'[t] = "add" /\ registry[p] = NoOne
            /\ meta'[t] \in begun' \ begun
         \/ /\ pc'[t] = "unloadSession" /\ t \in Workers
            /\ Unregistered(p) /\ Unstarted(p)
  PROVE  DInv'
<1>0. t \in Threads /\ t \notin Starters
  BY Kinds
<1>1. ~IsManaging(t)
  BY DEF IsManaging, LoadSteps, UnloadSteps
<1>2. registry[p] = servicers[p]
  BY DEF DInv, MapsFit
<1>3. /\ \A q : q # p => (Unmanaged(q)' <=> Unmanaged(q))
      /\ \A q : Unregistered(q) => Unregistered(q)'
      /\ \A q : Unstarted(q) => Unstarted(q)'
  BY <1>0, <1>1, Kinds DEF OthersStay, Unmanaged, Unregistered, Unstarted, IsManaging
<1>4. \A u \in Threads : spawn[u] # NoOne /\ pc[u] \in {"registered", "onRegistered"} => plugin[u] # p
  BY DEF DInv, ThreadsFit, RegisterFit, Unregistered
<1>5. \A u \in Starters : plugin[u] # p
  BY Distinct DEF DInv, ThreadsFit, StarterFit, Unstarted
<1>6. ASSUME NEW u \in Threads \ {t}
      PROVE  LoadFit(u)' /\ UnloadFit(u)' /\ RegisterFit(u)'
  <2>1. UNCHANGED <<pc[u], plugin[u], session[u], servicer[u], meta[u], spawn[u]>>
    BY DEF OthersStay
  <2>2. LoadFit(u) /\ UnloadFit(u) /\ RegisterFit(u)
    BY DEF DInv, ThreadsFit
  <2>3. LoadFit(u)'
    BY <2>1, LoadKept
  <2>4. UnloadFit(u)'
    BY <1>3, <2>1, <2>2, UnloadKept DEF UnloadFit
  <2>5. CASE spawn[u] = NoOne
    BY <2>1, <2>3, <2>4, <2>5 DEF RegisterFit
  <2>6. CASE spawn[u] # NoOne
    BY <1>3, <1>4, <2>1, <2>2, <2>3, <2>4, <2>6, RegisterKept DEF RegisterFit
  <2> QED
    BY <2>5, <2>6
<1>7. LoadFit(t)'
  <2>1. CASE pc'[t] = "add"
    <3>1. meta'[t] \in Loads \ begun /\ meta'[t] # NoOne
      BY <2>1, Distinct
    <3>2. \A q \in Plugins : registry[q] # meta'[t]
      BY <3>1 DEF DInv, OneSession
    <3>3. instance[meta'[t]] = NoOne /\ handlers[meta'[t]] = {} /\ phase[meta'[t]] = "CREATED"
      BY <3>1 DEF DInv, OneSession
    <3> QED
      BY <1>2, <2>1, <3>2, <3>3 DEF LoadFit
  <2> QED
    BY <2>1 DEF LoadFit, LoadSteps
<1>8. UnloadFit(t)'
  <2>1. CASE pc'[t] = "unloadSession"
    <3>1. Unregistered(p)' /\ Unstarted(p)'
      BY <1>3, <2>1
    <3>2. Unregistered(plugin[t])' /\ Unstarted(plugin[t])'
      BY <3>1 DEF Unregistered, Unstarted
    <3> QED
      BY <1>2, <2>1, <3>2 DEF UnloadFit
  <2> QED
    BY <2>1 DEF UnloadFit, UnloadSteps
<1>9. RegisterFit(t)'
  BY DEF RegisterFit
<1>10. ASSUME NEW u \in Starters PROVE StarterFit(u)'
  <2>1. UNCHANGED <<pc[u], plugin[u], session[u], servicer[u], meta[u]>> /\ StarterFit(u)
    BY <1>0, Kinds DEF OthersStay, DInv, ThreadsFit
  <2>2. CASE plugin[u] = NoOne
    BY <2>1, <2>2 DEF StarterFit
  <2>3. CASE plugin[u] # NoOne
    BY <1>3, <1>5, <2>1, <2>3, StarterKept DEF StarterFit
  <2> QED
    BY <2>2, <2>3
<1>11. OwnLoad'
  <2>1. \A u \in Threads : pc[u] \in LoadSteps => meta[u] \in begun
    BY DEF DInv, ThreadsFit, LoadFit
  <2> QED
    BY <2>1 DEF DInv, ThreadsFit, OwnLoad, OthersStay, LoadSteps
<1>12. OneManager'
  BY DEF DInv, ThreadsFit, OneManager, OthersStay, IsManaging, Unmanaged
<1>13. OneRegister' /\ OneStarter'
  BY <1>0, Kinds DEF DInv, ThreadsFit, OneRegister, OneStarter, OthersStay
<1>14. MapsFit'
  BY <1>2, <1>3 DEF DInv, MapsFit
<1>15. TodoFits'
  BY <1>3 DEF DInv, TodoFits
<1>16. OneSession'
  BY DEF DInv, OneSession
<1> QED
  BY <1>6, <1>7, <1>8, <1>9, <1>10, <1>11, <1>12, <1>13, <1>14, <1>15, <1>16, ObjectsKept, Untouched
     DEF DInv, ThreadsFit

LEMMA LoadDInv ==
  ASSUME Disciplined, DInv, IInv, NEW t \in Workers, NEW p \in Plugins, Load(t, p)
  PROVE  DInv'
<1>1. registry[p] = NoOne /\ Unmanaged(p) /\ p \notin todo
  BY Guards DEF Load, Serial, Disciplined
<1>2. PICK l \in Loads \ begun :
        /\ pc[t] = "idle" /\ pc' = [pc EXCEPT ![t] = "add"] /\ begun' = begun \cup {l}
        /\ plugin' = [plugin EXCEPT ![t] = p] /\ meta' = [meta EXCEPT ![t] = l]
        /\ UNCHANGED <<registry, servicers, session, servicer, spawn, todo>> /\ UNCHANGED objects
  BY <1>1 DEF Load, Take, Step
<1>3. /\ pc'[t] = "add" /\ plugin'[t] = p /\ meta'[t] = l /\ OthersStay(t) /\ begun \subseteq Loads
      /\ t \in Threads
  BY <1>2, Kinds DEF IInv, TypeOK, OthersStay
<1>4. spawn'[t] = NoOne
  BY <1>2, <1>3, NoSpawn DEF RegisterSteps, FailureSteps
<1> QED
  BY <1>1, <1>2, <1>3, <1>4, ManagerBegins

LEMMA LoadEnvironmentDInv ==
  ASSUME DInv, IInv, NEW p \in Plugins, LoadEnvironment(p)
  PROVE  DInv'
<1>1. registry[p] = NoOne /\ Unmanaged(p)
  BY DEF LoadEnvironment, DInv, TodoFits
<1>2. PICK l \in Loads \ begun :
        /\ pc[Main] = "idle" /\ pc' = [pc EXCEPT ![Main] = "add"] /\ begun' = begun \cup {l}
        /\ plugin' = [plugin EXCEPT ![Main] = p] /\ meta' = [meta EXCEPT ![Main] = l]
        /\ UNCHANGED <<registry, servicers, session, servicer, spawn>> /\ UNCHANGED objects
  BY <1>1 DEF LoadEnvironment, Take, Step
<1>3. /\ pc'[Main] = "add" /\ plugin'[Main] = p /\ meta'[Main] = l /\ OthersStay(Main)
      /\ begun \subseteq Loads /\ Main \in Threads
  BY <1>2, Kinds DEF IInv, TypeOK, OthersStay
<1>4. spawn'[Main] = NoOne
  BY <1>2, <1>3, NoSpawn DEF RegisterSteps, FailureSteps
<1>5. todo' = todo \ {p}
  BY DEF LoadEnvironment
<1> QED
  BY <1>1, <1>2, <1>3, <1>4, <1>5, ManagerBegins

LEMMA UnloadDInv ==
  ASSUME Disciplined, DInv, IInv, NEW t \in Workers, NEW p \in Plugins, Unload(t, p)
  PROVE  DInv'
<1>1. Unmanaged(p) /\ p \notin todo /\ Unregistered(p) /\ Unstarted(p)
  BY Guards DEF Unload, Serial, Settled, Disciplined
<1>2. /\ pc[t] = "idle" /\ pc' = [pc EXCEPT ![t] = "unloadSession"]
      /\ plugin' = [plugin EXCEPT ![t] = p] /\ meta' = [meta EXCEPT ![t] = NoOne]
      /\ UNCHANGED <<registry, servicers, session, servicer, spawn, begun, todo>> /\ UNCHANGED objects
  BY DEF Unload, Take, Step
<1>3. /\ pc'[t] = "unloadSession" /\ plugin'[t] = p /\ OthersStay(t) /\ begun \subseteq Loads
      /\ t \in Threads
  BY <1>2, Kinds DEF IInv, TypeOK, OthersStay
<1>4. spawn'[t] = NoOne
  BY <1>2, <1>3, NoSpawn DEF RegisterSteps, FailureSteps
<1> QED
  BY <1>1, <1>2, <1>3, <1>4, ManagerBegins

(***************************************************************************)
(* Loads and unloads                                                       *)
(***************************************************************************)
\* The thread that manages p goes on or returns; it alone changes the entries of p, and a
\* load the objects it created.
LEMMA ManagerMoves ==
  ASSUME DInv, IInv, NEW t \in Workers \cup {Main}, IsManaging(t), OthersStay(t),
         UNCHANGED <<begun, todo, commands, star, inst>>, spawn'[t] = NoOne,
         \A q \in Plugins : q # plugin[t] => registry'[q] = registry[q] /\ servicers'[q] = servicers[q],
         \A q \in Plugins : q = plugin[t] =>
           \/ registry'[q] = registry[q]
           \/ pc[t] = "add" /\ registry'[q] = meta[t]
           \/ pc[t] \in UnloadSteps /\ registry'[q] = NoOne,
         \A i \in Loads : i # meta[t] \/ pc[t] \in UnloadSteps =>
           instance'[i] = instance[i] /\ handlers'[i] = handlers[i] /\ phase'[i] = phase[i],
         \/ /\ pc[t] \in LoadSteps /\ pc'[t] \in LoadSteps /\ LoadFit(t)'
            /\ plugin'[t] = plugin[t] /\ meta'[t] = meta[t]
         \/ /\ pc[t] \in UnloadSteps /\ pc'[t] \in UnloadSteps /\ plugin'[t] = plugin[t]
            /\ \A q \in Plugins : q = plugin[t] =>
                 registry'[q] = IF pc'[t] = "pop" THEN NoOne ELSE servicers'[q]
         \/ /\ pc'[t] \notin LoadSteps \cup UnloadSteps
            /\ \A q \in Plugins : q = plugin[t] => registry'[q] = servicers'[q]
  PROVE  ThreadsFit' /\ MapsFit' /\ TodoFits'
<1>0. /\ t \in Threads /\ t \notin Starters /\ plugin[t] \in Plugins /\ spawn[t] = NoOne
      /\ pc[t] \in LoadSteps => meta[t] \in Loads /\ meta[t] # NoOne
  BY Kinds, NoSpawn, Distinct
     DEF IInv, LocalsFit, IsManaging, LoadSteps, UnloadSteps, Quiescent, RegisterSteps, FailureSteps
<1>00. LoadFit(t) /\ UnloadFit(t)
  BY <1>0 DEF DInv, ThreadsFit
<1>a. PICK p \in Plugins : p = plugin[t]
  BY <1>0
<1>1. ~(pc[t] \in LoadSteps /\ pc[t] \in UnloadSteps)
  BY DEF LoadSteps, UnloadSteps
<1>2. /\ \A q : q # p => (Unmanaged(q)' <=> Unmanaged(q))
      /\ ~Unmanaged(p) /\ IsManaging(t)' => ~Unmanaged(p)'
  BY <1>0, <1>a DEF OthersStay, Unmanaged, IsManaging
<1>3. /\ \A q : Unregistered(q) => Unregistered(q)'
      /\ \A q : Unstarted(q) => Unstarted(q)'
  BY <1>0, Kinds DEF OthersStay, Unregistered, Unstarted
<1>4. \A u \in Threads \ {t} : IsManaging(u) => plugin[u] # p
  BY <1>0, <1>a DEF DInv, ThreadsFit, OneManager
<1>5. ASSUME NEW u \in Threads \ {t}
      PROVE  LoadFit(u)' /\ UnloadFit(u)' /\ RegisterFit(u)'
  <2>1. UNCHANGED <<pc[u], plugin[u], session[u], servicer[u], meta[u], spawn[u]>>
    BY DEF OthersStay
  <2>2. LoadFit(u) /\ UnloadFit(u) /\ RegisterFit(u)
    BY DEF DInv, ThreadsFit
  <2>3. LoadFit(u)'
    <3>1. pc[u] \in LoadSteps => plugin[u] # p
      BY <1>4 DEF IsManaging
    <3>2. pc[u] \in LoadSteps /\ pc[t] \in LoadSteps => meta[u] # meta[t]
      BY <1>0 DEF DInv, ThreadsFit, OwnLoad
    <3>3. pc[u] = "add" => \A q \in Plugins : registry'[q] = registry[q] \/ registry'[q] # meta[u]
      <4>1. pc[u] = "add" => meta[u] # NoOne
        BY Distinct DEF IInv, LocalsFit, LoadSteps
      <4> QED
        BY <1>a, <3>2, <4>1 DEF LoadSteps
    <3> QED
      BY <1>a, <2>1, <3>1, <3>2, <3>3, LoadKept DEF IsManaging
  <2>4. UnloadFit(u)'
    <3>1. pc[u] \in UnloadSteps => plugin[u] # p
      BY <1>4 DEF IsManaging
    <3> QED
      BY <1>3, <1>a, <2>1, <2>2, <3>1, UnloadKept DEF UnloadFit
  <2>5. CASE spawn[u] = NoOne
    BY <2>1, <2>3, <2>4, <2>5 DEF RegisterFit
  <2>6. CASE spawn[u] # NoOne
    <3>1. pc[t] \in UnloadSteps => plugin[u] # p
      BY <1>00, <1>a, <2>6 DEF UnloadFit, Unregistered
    <3>2. plugin[u] \in Plugins /\ Unstarted(plugin[u])
      BY <2>2, <2>6 DEF RegisterFit
    <3>3. CASE plugin[u] # p \/ registry'[p] = registry[p]
      <4>1. \A q \in Plugins : q = plugin[u] => registry'[q] = registry[q] /\ Unstarted(q)'
        BY <1>3, <1>a, <3>2, <3>3
      <4>2. pc[u] \in {"registered", "onRegistered"} =>
              /\ \A q \in Plugins : q = plugin[u] => Unmanaged(q)'
              /\ session[u] = meta[t] => pc[t] \notin LoadSteps
        <5>1. pc[u] \in {"registered", "onRegistered"} =>
                Unmanaged(plugin[u]) /\ registry[plugin[u]] = session[u]
          BY <2>2, <2>6 DEF RegisterFit
        <5>2. Unmanaged(plugin[u]) => plugin[u] # p
          BY <1>0, <1>a DEF Unmanaged
        <5> QED
          BY <1>0, <1>2, <3>2, <5>1, <5>2, OfTheLoad
      <4> QED
        BY <2>1, <2>3, <2>4, <2>6, <4>1, <4>2, RegisterKept DEF IsManaging
    <3>4. CASE plugin[u] = p /\ registry'[p] # registry[p]
      <4>1. pc[t] = "add" /\ registry'[p] = meta[t] /\ registry[p] = NoOne
        BY <1>00, <1>a, <3>1, <3>4 DEF LoadFit, LoadSteps
      <4>2. star[meta[t]] = NoOne
        BY <1>0, <1>00, <4>1 DEF LoadFit, LoadSteps, DInv, ObjectsFit
      <4>3. pc[u] \notin {"registerServicer", "waitReady", "registered", "onRegistered"}
        BY <2>2, <2>6, <3>4, <4>1 DEF RegisterFit
      <4>4. Unstarted(plugin[u])'
        BY <1>3, <2>1, <3>2 DEF Unstarted
      <4>5. RegisterFit(u)'
        BY <2>1, <2>2, <2>6, <3>4, <4>1, <4>2, <4>3, <4>4 DEF RegisterFit
      <4> QED
        BY <2>3, <2>4, <4>5
    <3> QED
      BY <3>3, <3>4
  <2> QED
    BY <2>5, <2>6
<1>6. LoadFit(t)'
  BY <1>1 DEF LoadFit, LoadSteps, UnloadSteps
<1>7. UnloadFit(t)'
  <2>1. CASE pc'[t] \in UnloadSteps
    <3>1. pc[t] \in UnloadSteps /\ plugin'[t] = p
      BY <1>a, <2>1 DEF LoadSteps, UnloadSteps
    <3>2. t \in Workers /\ Unregistered(p) /\ Unstarted(p)
      BY <1>00, <1>a, <3>1 DEF UnloadFit
    <3>3. Unregistered(p)' /\ Unstarted(p)'
      BY <1>3, <3>2
    <3>4. Unregistered(plugin[t])' /\ Unstarted(plugin[t])'
      BY <3>1, <3>3 DEF Unregistered, Unstarted
    <3>5. registry'[p] = IF pc'[t] = "pop" THEN NoOne ELSE servicers'[p]
      BY <1>a, <1>1, <2>1, <3>1
    <3> QED
      BY <3>1, <3>2, <3>4, <3>5 DEF UnloadFit
  <2> QED
    BY <2>1 DEF UnloadFit
<1>8. RegisterFit(t)'
  BY DEF RegisterFit
<1>9. ASSUME NEW u \in Starters PROVE StarterFit(u)'
  <2>1. UNCHANGED <<pc[u], plugin[u], session[u], servicer[u], meta[u]>> /\ StarterFit(u)
    BY <1>0, Kinds DEF OthersStay, DInv, ThreadsFit
  <2>2. CASE plugin[u] = NoOne
    BY <2>1, <2>2 DEF StarterFit
  <2>3. CASE plugin[u] # NoOne
    <3>1. plugin[u] \in Plugins /\ plugin[u] # p /\ Unmanaged(plugin[u]) /\ registry[plugin[u]] = meta[u]
      BY <1>0, <1>a, <2>1, <2>3, Kinds DEF StarterFit, Unmanaged, IInv, TypeOK
    <3>2. meta[u] = meta[t] => pc[t] \notin LoadSteps
      BY <1>0, <3>1, OfTheLoad
    <3> QED
      BY <1>2, <1>a, <2>1, <2>3, <3>1, <3>2, StarterKept DEF IsManaging
  <2> QED
    BY <2>2, <2>3
<1>10. OwnLoad'
  BY <1>1 DEF DInv, ThreadsFit, OwnLoad, OthersStay, UnloadSteps, LoadSteps
<1>11. OneManager'
  BY DEF DInv, ThreadsFit, OneManager, OthersStay, IsManaging
<1>12. OneRegister' /\ OneStarter'
  BY <1>0, Kinds DEF DInv, ThreadsFit, OneRegister, OneStarter, OthersStay
<1>13. MapsFit'
  <2> SUFFICES ASSUME NEW q \in Plugins, Unmanaged(q)' PROVE registry'[q] = servicers'[q]
    BY DEF MapsFit
  <2>1. CASE q # p
    BY <1>2, <1>a, <2>1 DEF DInv, MapsFit
  <2>2. CASE q = p
    <3>1. ~(IsManaging(t)' /\ plugin'[t] = p)
      BY <1>0, <2>2 DEF Unmanaged, IsManaging
    <3> QED
      BY <1>a, <2>2, <3>1 DEF IsManaging
  <2> QED
    BY <2>1, <2>2
<1>14. TodoFits'
  <2>1. todo \subseteq Plugins /\ p \notin todo
    BY <1>0, <1>a, EnvironmentAssumption DEF DInv, TodoFits, Unmanaged, IInv, TypeOK
  <2> QED
    BY <1>2, <1>a, <2>1 DEF DInv, TodoFits
<1> QED
  BY <1>5, <1>6, <1>7, <1>8, <1>9, <1>10, <1>11, <1>12, <1>13, <1>14 DEF ThreadsFit

\* What a load knows of the objects it works on.
LEMMA LoadKnows ==
  ASSUME DInv, IInv, NEW t \in Workers \cup {Main}, pc[t] \in LoadSteps
  PROVE  /\ t \in Threads /\ t \notin Starters /\ IsManaging(t) /\ spawn[t] = NoOne
         /\ plugin[t] \in Plugins /\ meta[t] \in begun /\ meta[t] \in Loads /\ meta[t] # NoOne
         /\ star[meta[t]] = NoOne /\ LoadFit(t)
<1>1. t \in Threads /\ t \notin Starters
  BY Kinds
<1>2. LoadFit(t)
  BY <1>1 DEF DInv, ThreadsFit
<1>3. plugin[t] \in Plugins /\ meta[t] \in Loads /\ meta[t] # NoOne
  BY <1>1, Distinct DEF IInv, LocalsFit, LoadSteps, Quiescent
<1>4. phase[meta[t]] = "CREATED" /\ meta[t] \in begun
  BY <1>2 DEF LoadFit
<1>5. star[meta[t]] = NoOne
  BY <1>3, <1>4 DEF DInv, ObjectsFit
<1>6. spawn[t] = NoOne
  BY <1>1, NoSpawn DEF LoadSteps, RegisterSteps, FailureSteps
<1> QED
  BY <1>1, <1>2, <1>3, <1>4, <1>5, <1>6 DEF IsManaging

\* Of the entries, a load writes those of its own plugin.
OwnEntries(t) ==
  /\ \A q \in Plugins : q # plugin[t] => registry'[q] = registry[q] /\ servicers'[q] = servicers[q]
  /\ \A q \in Plugins : q = plugin[t] =>
       registry'[q] = registry[q] \/ (pc[t] = "add" /\ registry'[q] = meta[t])

\* A load that goes on with its own plugin and leaves the objects alone.
LEMMA LoadGoesOn ==
  ASSUME DInv, IInv, NEW t \in Workers \cup {Main}, pc[t] \in LoadSteps, ObjectsStay,
         OthersStay(t), pc'[t] \in LoadSteps,
         UNCHANGED <<plugin, meta, spawn, begun, todo, instance, phase, commands, star, inst>>,
         OwnEntries(t), LoadFit(t)'
  PROVE  DInv'
<1>1. /\ t \in Threads /\ IsManaging(t) /\ spawn[t] = NoOne /\ plugin[t] \in Plugins
      /\ meta[t] \in begun /\ meta[t] # NoOne /\ LoadFit(t)
  BY LoadKnows
<1>3. ThreadsFit' /\ MapsFit' /\ TodoFits'
  BY <1>1, ManagerMoves DEF OwnEntries, ObjectsStay
<1>4. OneSession'
  <2>1. pc[t] = "add" => \A q \in Plugins : registry[q] # meta[t]
    BY <1>1 DEF LoadFit, LoadSteps
  <2>2. /\ \A p, q \in Plugins : registry[p] = registry[q] /\ registry[p] # NoOne => p = q
        /\ \A p \in Plugins : registry[p] # NoOne => registry[p] \in begun
    BY DEF DInv, OneSession
  <2>3. \A p, q \in Plugins : registry'[p] = registry'[q] /\ registry'[p] # NoOne => p = q
    BY <2>1, <2>2 DEF OwnEntries
  <2>4. \A p \in Plugins : registry'[p] # NoOne => registry'[p] \in begun
    BY <1>1, <2>2 DEF OwnEntries
  <2> QED
    BY <2>3, <2>4 DEF DInv, OneSession, ObjectsStay
<1> QED
  BY <1>3, <1>4, ObjectsKept DEF DInv

LEMMA AddSessionDInv ==
  ASSUME DInv, IInv, NEW t \in Workers \cup {Main}, AddSession(t)
  PROVE  DInv'
<1>1. /\ pc[t] = "add" /\ pc' = [pc EXCEPT ![t] = "addServicer"]
      /\ registry' = [registry EXCEPT ![plugin[t]] = meta[t]]
      /\ UNCHANGED <<servicers, begun, todo, plugin, session, servicer, meta, spawn>> /\ UNCHANGED objects
  BY DEF AddSession, Step
<1>2. pc[t] \in LoadSteps /\ "addServicer" \in LoadSteps
  BY <1>1 DEF LoadSteps
<1>3. /\ t \in Threads /\ plugin[t] \in Plugins /\ LoadFit(t) /\ meta[t] # NoOne
  BY <1>2, LoadKnows
<1>4. OthersStay(t) /\ pc'[t] = "addServicer" /\ registry'[plugin[t]] = meta[t]
  BY <1>1, <1>3 DEF IInv, TypeOK, OthersStay
<1>5. LoadFit(t)'
  BY <1>1, <1>2, <1>3, <1>4 DEF LoadFit
<1>6. OwnEntries(t)
  BY <1>1, <1>4 DEF OwnEntries
<1> QED
  BY <1>1, <1>2, <1>4, <1>5, <1>6, Untouched, LoadGoesOn

LEMMA AddServicerDInv ==
  ASSUME DInv, IInv, NEW t \in Workers \cup {Main}, AddServicer(t)
  PROVE  DInv'
<1>1. /\ pc[t] = "addServicer" /\ pc' = [pc EXCEPT ![t] = "loadSession"]
      /\ servicers' = [servicers EXCEPT ![plugin[t]] = meta[t]]
      /\ UNCHANGED <<registry, begun, todo, plugin, session, servicer, meta, spawn>> /\ UNCHANGED objects
  BY DEF AddServicer, Step
<1>2. pc[t] \in LoadSteps /\ "loadSession" \in LoadSteps
  BY <1>1 DEF LoadSteps
<1>3. /\ t \in Threads /\ plugin[t] \in Plugins /\ LoadFit(t) /\ meta[t] # NoOne
  BY <1>2, LoadKnows
<1>4. OthersStay(t) /\ pc'[t] = "loadSession" /\ servicers'[plugin[t]] = meta[t]
  BY <1>1, <1>3 DEF IInv, TypeOK, OthersStay
<1>5. LoadFit(t)'
  BY <1>1, <1>2, <1>3, <1>4 DEF LoadFit
<1>6. OwnEntries(t)
  BY <1>1 DEF OwnEntries
<1>7. ObjectsStay
  BY <1>1, Untouched
<1> QED
  BY <1>1, <1>2, <1>4, <1>5, <1>6, <1>7, LoadGoesOn

LEMMA LoadSessionDInv ==
  ASSUME DInv, IInv, NEW t \in Workers \cup {Main}, LoadSession(t)
  PROVE  DInv'
<1>1. pc[t] = "loadSession" /\ UNCHANGED objects /\ UNCHANGED <<registry, servicers, begun, todo>>
  BY DEF LoadSession, LookUpSession
<1>2. pc[t] \in LoadSteps /\ "loadServicer" \in LoadSteps
  BY <1>1 DEF LoadSteps
<1>3. /\ t \in Threads /\ plugin[t] \in Plugins /\ LoadFit(t) /\ meta[t] # NoOne
  BY <1>2, LoadKnows
<1>4. registry[plugin[t]] = meta[t]
  BY <1>1, <1>2, <1>3 DEF LoadFit
<1>5. /\ pc' = [pc EXCEPT ![t] = "loadServicer"] /\ session' = [session EXCEPT ![t] = meta[t]]
      /\ UNCHANGED <<plugin, servicer, meta, spawn>>
  BY <1>3, <1>4 DEF LoadSession, LookUpSession
<1>6. /\ pc'[t] = "loadServicer" /\ session'[t] = meta[t]
      /\ OthersStay(t)
  BY <1>3, <1>5 DEF IInv, TypeOK, OthersStay
<1>7. LoadFit(t)'
  BY <1>1, <1>2, <1>3, <1>5, <1>6 DEF LoadFit
<1>8. ObjectsStay
  BY <1>1, Untouched
<1>9. OwnEntries(t)
  BY <1>1 DEF OwnEntries
<1> QED
  BY <1>1, <1>2, <1>5, <1>6, <1>7, <1>8, <1>9, LoadGoesOn

LEMMA LoadServicerDInv ==
  ASSUME DInv, IInv, NEW t \in Workers \cup {Main}, LoadServicer(t)
  PROVE  DInv'
<1>1. /\ pc[t] = "loadServicer"
      /\ UNCHANGED <<registry, servicers, begun, todo, instance, phase, inst, commands, star, life>>
  BY DEF LoadServicer, LookUpServicer
<1>2. pc[t] \in LoadSteps /\ "import" \in LoadSteps
  BY <1>1 DEF LoadSteps
<1>3. /\ t \in Threads /\ plugin[t] \in Plugins /\ LoadFit(t) /\ meta[t] # NoOne
  BY <1>2, LoadKnows
<1>4. servicers[plugin[t]] = meta[t] /\ session[t] = meta[t] /\ handlers[meta[t]] = {}
  BY <1>1, <1>2, <1>3 DEF LoadFit
<1>5. /\ pc' = [pc EXCEPT ![t] = "import"] /\ servicer' = [servicer EXCEPT ![t] = meta[t]]
      /\ handlers' = [handlers EXCEPT ![meta[t]] = {}]
      /\ UNCHANGED <<plugin, session, meta, spawn>>
  BY <1>3, <1>4 DEF LoadServicer, LookUpServicer
<1>6. /\ pc'[t] = "import" /\ servicer'[t] = meta[t] /\ session'[t] = meta[t]
      /\ OthersStay(t)
  BY <1>3, <1>4, <1>5 DEF IInv, TypeOK, OthersStay
<1>7. \A i \in Loads : handlers'[i] = handlers[i]
  BY <1>4, <1>5 DEF IInv, TypeOK
<1>8. meta[t] \in Loads
  BY <1>2, LoadKnows
<1>9. LoadFit(t)'
  BY <1>1, <1>2, <1>3, <1>5, <1>6, <1>7, <1>8 DEF LoadFit
<1>10. ObjectsStay
  BY <1>1, <1>7 DEF ObjectsStay
<1>11. OwnEntries(t)
  BY <1>1 DEF OwnEntries
<1> QED
  BY <1>1, <1>2, <1>5, <1>6, <1>9, <1>10, <1>11, LoadGoesOn

\* The import: the session gets the metadata and the handlers of its own load.
LEMMA ImportOkDInv ==
  ASSUME DInv, IInv, NEW t \in Workers \cup {Main}, ImportOk(t)
  PROVE  DInv'
<1>0. PICK i : i = meta[t]
  OBVIOUS
<1>1. /\ pc[t] = "import" /\ pc' = [pc EXCEPT ![t] = "ready"]
      /\ UNCHANGED <<registry, servicers, begun, todo, phase, inst, commands, star, life>>
      /\ UNCHANGED <<plugin, session, servicer, meta, spawn>>
  BY DEF ImportOk, Step
<1>2. pc[t] \in LoadSteps /\ "ready" \in LoadSteps
  BY <1>1 DEF LoadSteps
<1>3. /\ t \in Threads /\ IsManaging(t) /\ spawn[t] = NoOne /\ plugin[t] \in Plugins
      /\ i \in begun /\ i \in Loads /\ star[i] = NoOne /\ LoadFit(t)
  BY <1>0, <1>2, LoadKnows
<1>4. /\ session[t] = i /\ servicer[t] = i /\ handlers[i] = {} /\ phase[i] = "CREATED"
      /\ registry[plugin[t]] = i /\ servicers[plugin[t]] = i
  BY <1>0, <1>1, <1>2, <1>3 DEF LoadFit
<1>5. ctx[t] = i
  BY <1>1, <1>3, <1>4 DEF IInv, ContextPaired, InContext
<1>6. /\ handlers' = [handlers EXCEPT ![i] = @ \cup {i}]
      /\ instance' = [instance EXCEPT ![i] = i]
  BY <1>0, <1>4, <1>5 DEF ImportOk
<1>7. /\ handlers'[i] = {i} /\ instance'[i] = i
      /\ \A k \in Loads \ {i} : handlers'[k] = handlers[k] /\ instance'[k] = instance[k]
  BY <1>3, <1>4, <1>6 DEF IInv, TypeOK
<1>8. pc'[t] = "ready" /\ OthersStay(t)
  BY <1>1, <1>3 DEF IInv, TypeOK, OthersStay
<1>9. LoadFit(t)'
  BY <1>0, <1>1, <1>2, <1>3, <1>4, <1>8 DEF LoadFit
<1>10. ThreadsFit' /\ MapsFit' /\ TodoFits'
  <2>1. pc[t] \notin UnloadSteps /\ pc'[t] \in LoadSteps
    BY <1>1, <1>2, <1>8 DEF UnloadSteps
  <2> QED
    BY <1>0, <1>1, <1>2, <1>3, <1>7, <1>8, <1>9, <2>1, ManagerMoves
<1>11. OneSession' /\ ServesOwnStar' /\ NoLostStar'
  BY <1>1, <1>3, <1>7 DEF DInv, OneSession, ServesOwnStar, NoLostStar
<1>12. ObjectsFit' /\ RegisteredHandlers'
  BY <1>1, <1>3, <1>4, <1>7 DEF DInv, ObjectsFit, RegisteredHandlers
<1> QED
  BY <1>10, <1>11, <1>12 DEF DInv

LEMMA ImportFailsDInv ==
  ASSUME DInv, IInv, NEW t \in Workers \cup {Main}, ImportFails(t)
  PROVE  DInv'
<1>1. /\ pc[t] = "import" /\ Finish(t) /\ UNCHANGED <<registry, servicers, begun, todo>>
      /\ UNCHANGED <<instance, handlers, gates, stars>>
  BY DEF ImportFails
<1>2. registry[plugin[t]] = servicers[plugin[t]]
  BY <1>1, LoadKnows DEF LoadFit, LoadSteps
<1>3. ObjectsStay
  BY <1>1 DEF ObjectsStay
<1> QED
  BY <1>1, <1>2, <1>3, WorkerFinishes

LEMMA MarkReadyDInv ==
  ASSUME DInv, IInv, NEW t \in Workers \cup {Main}, MarkReady(t)
  PROVE  DInv' /\ phase[servicer[t]] = "CREATED"
<1>0. PICK i : i = meta[t]
  OBVIOUS
<1>1. /\ pc[t] = "ready" /\ Finish(t) /\ phase' = [phase EXCEPT ![servicer[t]] = "REGISTERING"]
      /\ UNCHANGED <<registry, servicers, begun, todo, instance, handlers, inst, commands, star, life>>
  BY DEF MarkReady
<1>2. pc[t] \in LoadSteps
  BY <1>1 DEF LoadSteps
<1>3. /\ t \in Threads /\ t \notin Starters /\ IsManaging(t) /\ plugin[t] \in Plugins
      /\ i \in begun /\ i \in Loads /\ star[i] = NoOne /\ LoadFit(t)
  BY <1>0, <1>2, LoadKnows
<1>4. /\ servicer[t] = i /\ phase[i] = "CREATED"
      /\ registry[plugin[t]] = i /\ servicers[plugin[t]] = i
  BY <1>0, <1>1, <1>2, <1>3 DEF LoadFit
<1>5. phase'[i] = "REGISTERING" /\ \A k \in Loads \ {i} : phase'[k] = phase[k]
  BY <1>1, <1>3, <1>4 DEF IInv, TypeOK
<1>6. pc'[t] = "idle" /\ spawn'[t] = NoOne /\ OthersStay(t)
  BY <1>1, <1>3 DEF Finish, IInv, TypeOK, OthersStay
<1>7. ThreadsFit' /\ MapsFit' /\ TodoFits'
  <2>1. pc[t] \notin UnloadSteps /\ pc'[t] \notin LoadSteps \cup UnloadSteps
    BY <1>1, <1>6 DEF UnloadSteps, LoadSteps
  <2> QED
    BY <1>0, <1>1, <1>3, <1>4, <1>5, <1>6, <2>1, ManagerMoves
<1>8. OneSession' /\ ServesOwnStar' /\ NoLostStar'
  BY <1>1, <1>3, <1>5 DEF DInv, OneSession, ServesOwnStar, NoLostStar
<1>9. ObjectsFit' /\ RegisteredHandlers'
  BY <1>1, <1>3, <1>4, <1>5 DEF DInv, ObjectsFit, RegisteredHandlers
<1> QED
  BY <1>4, <1>7, <1>8, <1>9 DEF DInv

\* What an unload knows of its plugin.
LEMMA UnloadKnows ==
  ASSUME DInv, IInv, NEW t \in Workers, pc[t] \in UnloadSteps
  PROVE  /\ t \in Threads /\ IsManaging(t) /\ spawn[t] = NoOne
         /\ plugin[t] \in Plugins /\ UnloadFit(t)
<1>1. t \in Threads
  BY Kinds
<1>2. plugin[t] \in Plugins
  BY <1>1 DEF IInv, LocalsFit, UnloadSteps, Quiescent
<1>3. spawn[t] = NoOne
  BY <1>1, NoSpawn DEF UnloadSteps, RegisterSteps, FailureSteps
<1> QED
  BY <1>1, <1>2, <1>3 DEF DInv, ThreadsFit, IsManaging

\* Of the entries, an unload removes those of its own plugin.
OwnRemoved(t, to) ==
  /\ \A q \in Plugins : q # plugin[t] => registry'[q] = registry[q] /\ servicers'[q] = servicers[q]
  /\ \A q \in Plugins : q = plugin[t] =>
       /\ registry'[q] = registry[q] \/ registry'[q] = NoOne
       /\ registry'[q] = IF to = "pop" THEN NoOne ELSE servicers'[q]

\* An unload goes on, or returns.
LEMMA UnloadMoves ==
  ASSUME DInv, IInv, NEW t \in Workers, pc[t] \in UnloadSteps, ObjectsStay, OthersStay(t),
         UNCHANGED <<begun, todo, instance, handlers, phase, commands, star, inst>>,
         spawn'[t] = NoOne,
         \/ pc'[t] \in UnloadSteps /\ plugin'[t] = plugin[t]
         \/ pc'[t] = "idle",
         OwnRemoved(t, pc'[t])
  PROVE  DInv'
<1>1. t \in Workers \cup {Main} /\ IsManaging(t) /\ plugin[t] \in Plugins
  BY UnloadKnows
<1>2. pc'[t] \in UnloadSteps \/ pc'[t] \notin LoadSteps \cup UnloadSteps
  BY DEF LoadSteps, UnloadSteps
<1>3. /\ \A q \in Plugins : q # plugin[t] => registry'[q] = registry[q] /\ servicers'[q] = servicers[q]
      /\ \A q \in Plugins : q = plugin[t] =>
           \/ registry'[q] = registry[q]
           \/ pc[t] = "add" /\ registry'[q] = meta[t]
           \/ pc[t] \in UnloadSteps /\ registry'[q] = NoOne
  BY DEF OwnRemoved
<1>4. \/ /\ pc'[t] \in UnloadSteps /\ plugin'[t] = plugin[t]
         /\ \A q \in Plugins : q = plugin[t] =>
              registry'[q] = IF pc'[t] = "pop" THEN NoOne ELSE servicers'[q]
      \/ /\ pc'[t] \notin LoadSteps \cup UnloadSteps
         /\ \A q \in Plugins : q = plugin[t] => registry'[q] = servicers'[q]
  BY <1>2 DEF OwnRemoved, UnloadSteps, LoadSteps
<1>5. ThreadsFit' /\ MapsFit' /\ TodoFits'
  BY <1>1, <1>3, <1>4, ManagerMoves
<1>6. begun \subseteq begun' /\ begun \subseteq Loads
  BY DEF IInv, TypeOK
<1>7. \A p \in Plugins : registry'[p] # NoOne => registry'[p] = registry[p]
  BY <1>3 DEF OwnRemoved
<1>8. OneSession'
  BY <1>6, <1>7, SessionsKept
<1> QED
  BY <1>5, <1>8, ObjectsKept DEF DInv

LEMMA UnloadSessionDInv ==
  ASSUME DInv, IInv, NEW t \in Workers, UnloadSession(t)
  PROVE  DInv'
<1>1. pc[t] = "unloadSession" /\ pc[t] \in UnloadSteps
  BY DEF UnloadSession, UnloadSteps
<1>2. UNCHANGED objects /\ UNCHANGED <<registry, servicers, begun, todo>> /\ ObjectsStay
  BY Untouched DEF UnloadSession
<1>3. t \in Threads /\ plugin[t] \in Plugins /\ spawn[t] = NoOne /\ UnloadFit(t)
  BY <1>1, UnloadKnows
<1>4. registry[plugin[t]] = servicers[plugin[t]]
  BY <1>1, <1>3 DEF UnloadFit
<1>5. CASE Finish(t)
  <2>1. t \in Workers \cup {Main}
    OBVIOUS
  <2> QED
    BY <1>2, <1>4, <1>5, <2>1, WorkerFinishes
<1>6. CASE /\ pc' = [pc EXCEPT ![t] = "terminate"]
           /\ session' = [session EXCEPT ![t] = registry[plugin[t]]]
           /\ UNCHANGED <<plugin, servicer, meta, spawn>>
  <2>1. pc'[t] = "terminate" /\ "terminate" \in UnloadSteps /\ OthersStay(t)
    BY <1>3, <1>6 DEF IInv, TypeOK, OthersStay, UnloadSteps
  <2>2. OwnRemoved(t, pc'[t])
    BY <1>2, <1>4, <2>1 DEF OwnRemoved
  <2> QED
    BY <1>1, <1>2, <1>3, <1>6, <2>1, <2>2, UnloadMoves
<1> QED
  BY <1>5, <1>6 DEF UnloadSession

\* An unload that goes on with the maps as they are.
LEMMA UnloadGoesOn ==
  ASSUME DInv, IInv, NEW t \in Workers, Terminate(t) \/ MarkUnloaded(t)
  PROVE  DInv'
<1>1. /\ pc[t] \in {"terminate", "unloaded"} /\ pc[t] \in UnloadSteps
      /\ UNCHANGED <<registry, servicers, begun, todo, instance, handlers, gates, star>>
      /\ UNCHANGED <<plugin, session, servicer, meta, spawn>>
  BY DEF Terminate, MarkUnloaded, Step, UnloadSteps
<1>2. PICK to \in {"unloaded", "remove"} : pc' = [pc EXCEPT ![t] = to]
  BY DEF Terminate, MarkUnloaded, Step
<1>3. t \in Threads /\ plugin[t] \in Plugins /\ spawn[t] = NoOne /\ UnloadFit(t)
  BY <1>1, UnloadKnows
<1>4. pc'[t] = to /\ to \in UnloadSteps /\ OthersStay(t)
  BY <1>1, <1>2, <1>3 DEF IInv, TypeOK, OthersStay, UnloadSteps
<1>5. OwnRemoved(t, pc'[t])
  BY <1>1, <1>3, <1>4 DEF UnloadFit, OwnRemoved
<1>6. \A u \in Starters : life'[u] = "built" => life[u] = "built"
  <2>1. CASE UNCHANGED life
    BY <2>1
  <2>2. CASE life' = [life EXCEPT ![TerminableStar(session[t])] = "terminated"]
    BY <2>2 DEF IInv, TypeOK
  <2> QED
    BY <2>1, <2>2 DEF Terminate, MarkUnloaded
<1>7. ObjectsStay
  BY <1>1, <1>6 DEF ObjectsStay
<1> QED
  BY <1>1, <1>3, <1>4, <1>5, <1>7, UnloadMoves

LEMMA RemoveSessionDInv ==
  ASSUME DInv, IInv, NEW t \in Workers, RemoveSession(t)
  PROVE  DInv'
<1>1. /\ pc[t] = "remove" /\ pc[t] \in UnloadSteps /\ pc' = [pc EXCEPT ![t] = "pop"]
      /\ registry' = [registry EXCEPT ![plugin[t]] = NoOne]
      /\ UNCHANGED <<servicers, begun, todo, plugin, session, servicer, meta, spawn>>
      /\ UNCHANGED objects
  BY DEF RemoveSession, Step, UnloadSteps
<1>2. t \in Threads /\ plugin[t] \in Plugins /\ spawn[t] = NoOne
  BY <1>1, UnloadKnows
<1>3. pc'[t] = "pop" /\ "pop" \in UnloadSteps /\ OthersStay(t)
  BY <1>1, <1>2 DEF IInv, TypeOK, OthersStay, UnloadSteps
<1>4. OwnRemoved(t, pc'[t])
  BY <1>1, <1>2, <1>3 DEF OwnRemoved, IInv, TypeOK
<1>5. ObjectsStay
  BY <1>1, Untouched
<1> QED
  BY <1>1, <1>2, <1>3, <1>4, <1>5, UnloadMoves

LEMMA PopServicerDInv ==
  ASSUME DInv, IInv, NEW t \in Workers, PopServicer(t)
  PROVE  DInv'
<1>1. /\ pc[t] = "pop" /\ pc[t] \in UnloadSteps /\ Finish(t)
      /\ servicers' = [servicers EXCEPT ![plugin[t]] = NoOne]
      /\ UNCHANGED <<registry, begun, todo>> /\ UNCHANGED objects
  BY DEF PopServicer, UnloadSteps
<1>2. t \in Threads /\ t \notin Starters /\ plugin[t] \in Plugins /\ UnloadFit(t)
  BY <1>1, UnloadKnows, Kinds
<1>3. pc'[t] = "idle" /\ spawn'[t] = NoOne /\ OthersStay(t)
  BY <1>1, <1>2 DEF Finish, IInv, TypeOK, OthersStay
<1>4. registry[plugin[t]] = NoOne
  BY <1>1, <1>2 DEF UnloadFit
<1>5. OwnRemoved(t, pc'[t])
  BY <1>1, <1>2, <1>3, <1>4 DEF OwnRemoved, IInv, TypeOK
<1>6. ObjectsStay
  BY <1>1, Untouched
<1> QED
  BY <1>1, <1>3, <1>5, <1>6, UnloadMoves

(***************************************************************************)
(* Instantiation                                                           *)
(***************************************************************************)
\* What an instantiation knows of its plugin.
LEMMA StarterKnows ==
  ASSUME DInv, IInv, NEW u \in Starters, pc[u] \in StarterSteps
  PROVE  /\ u \in Threads /\ spawn[u] = NoOne /\ ~IsManaging(u)
         /\ plugin[u] \in Plugins /\ plugin[u] # NoOne /\ StarterFit(u)
         /\ Unmanaged(plugin[u]) /\ registry[plugin[u]] = meta[u] /\ servicers[plugin[u]] = meta[u]
         /\ meta[u] \in begun /\ meta[u] \in Loads /\ meta[u] # NoOne /\ instance[meta[u]] # NoOne
         /\ \A v \in Threads : spawn[v] # NoOne =>
              plugin[v] \in Plugins /\ plugin[v] # plugin[u] /\ registry[plugin[v]] # meta[u]
<1>1. u \in Threads
  BY Kinds
<1>2. spawn[u] = NoOne /\ ~IsManaging(u)
  BY <1>1, NoSpawn
     DEF StarterSteps, RegisterSteps, FailureSteps, IsManaging, LoadSteps, UnloadSteps
<1>3. plugin[u] \in Plugins /\ plugin[u] # NoOne
  BY <1>1, Distinct DEF IInv, LocalsFit, StarterSteps, Quiescent
<1>4. StarterFit(u)
  BY DEF DInv, ThreadsFit
<1>5. /\ Unmanaged(plugin[u]) /\ registry[plugin[u]] = meta[u] /\ meta[u] # NoOne
      /\ instance[meta[u]] # NoOne
  BY <1>3, <1>4 DEF StarterFit
<1>6. servicers[plugin[u]] = meta[u]
  BY <1>3, <1>5 DEF DInv, MapsFit
<1>7. meta[u] \in begun /\ meta[u] \in Loads
  BY <1>3, <1>5 DEF DInv, OneSession, IInv, TypeOK
<1>8. ASSUME NEW v \in Threads, spawn[v] # NoOne
      PROVE  plugin[v] \in Plugins /\ plugin[v] # plugin[u] /\ registry[plugin[v]] # meta[u]
  <2>1. plugin[v] \in Plugins /\ plugin[v] # plugin[u]
    BY <1>8 DEF DInv, ThreadsFit, RegisterFit, Unstarted
  <2> QED
    BY <1>3, <1>5, <2>1 DEF DInv, OneSession
<1> QED
  BY <1>1, <1>2, <1>3, <1>4, <1>5, <1>6, <1>7, <1>8

\* An instantiation goes on or ends; it changes the objects of its own session only.
LEMMA StarterMoves ==
  ASSUME DInv, IInv, NEW u \in Starters, pc[u] \in StarterSteps, OthersStay(u),
         UNCHANGED <<registry, servicers, begun, todo, handlers, commands>>, spawn'[u] = NoOne,
         \A i \in Loads : i # meta[u] =>
           instance'[i] = instance[i] /\ phase'[i] = phase[i] /\ star'[i] = star[i],
         \/ pc'[u] \in StarterSteps /\ plugin'[u] = plugin[u]
         \/ pc'[u] = "done" /\ plugin'[u] = NoOne,
         StarterFit(u)'
  PROVE  ThreadsFit' /\ MapsFit' /\ TodoFits'
<1>0. PICK i, p : i = meta[u] /\ p = plugin[u]
  OBVIOUS
<1>1. /\ u \in Threads /\ spawn[u] = NoOne /\ p \in Plugins /\ p # NoOne /\ Unmanaged(p)
      /\ registry[p] = i /\ i \in Loads /\ i # NoOne
      /\ \A v \in Threads : spawn[v] # NoOne =>
           plugin[v] \in Plugins /\ plugin[v] # p /\ registry[plugin[v]] # i
  BY <1>0, StarterKnows
<1>2. ~IsManaging(u) /\ ~IsManaging(u)'
  BY DEF IsManaging, StarterSteps, LoadSteps, UnloadSteps
<1>3. /\ \A q : Unmanaged(q)' <=> Unmanaged(q)
      /\ \A q : Unregistered(q) => Unregistered(q)'
      /\ \A q \in Plugins : Unstarted(q) => Unstarted(q)'
  <2>1. \A q : Unmanaged(q)' <=> Unmanaged(q)
    BY <1>2 DEF OthersStay, Unmanaged, IsManaging
  <2>2. \A q : Unregistered(q) => Unregistered(q)'
    BY DEF OthersStay, Unregistered
  <2>3. \A q \in Plugins : Unstarted(q) => Unstarted(q)'
    BY Kinds, Distinct DEF OthersStay, Unstarted
  <2> QED
    BY <2>1, <2>2, <2>3
<1>4. ASSUME NEW v \in Threads \ {u}
      PROVE  LoadFit(v)' /\ UnloadFit(v)' /\ RegisterFit(v)'
  <2>1. UNCHANGED <<pc[v], plugin[v], session[v], servicer[v], meta[v], spawn[v]>>
    BY DEF OthersStay
  <2>2. LoadFit(v) /\ UnloadFit(v) /\ RegisterFit(v)
    BY DEF DInv, ThreadsFit
  <2>3. pc[v] \in LoadSteps => meta[v] # i
    BY <1>1, OfTheLoad
  <2>4. LoadFit(v)'
    BY <1>0, <2>1, <2>3, LoadKept
  <2>5. UnloadFit(v)'
    BY <1>3, <2>1, <2>2, UnloadKept DEF UnloadFit
  <2>6. CASE spawn[v] = NoOne
    BY <2>1, <2>4, <2>5, <2>6 DEF RegisterFit
  <2>7. CASE spawn[v] # NoOne
    <3>1. plugin[v] \in Plugins /\ registry[plugin[v]] # i /\ Unstarted(plugin[v])
      BY <1>1, <2>2, <2>7 DEF RegisterFit
    <3>2. pc[v] \in {"registered", "onRegistered"} => session[v] # i /\ Unmanaged(plugin[v])
      BY <2>2, <2>7, <3>1 DEF RegisterFit
    <3>3. RegisterFit(v)'
      BY <1>0, <1>3, <2>1, <2>7, <3>1, <3>2, RegisterKept
    <3> QED
      BY <2>4, <2>5, <3>3
  <2> QED
    BY <2>6, <2>7
<1>5. LoadFit(u)' /\ UnloadFit(u)' /\ RegisterFit(u)'
  BY <1>2 DEF LoadFit, UnloadFit, RegisterFit, IsManaging
<1>6. ASSUME NEW v \in Starters \ {u} PROVE StarterFit(v)'
  <2>1. UNCHANGED <<pc[v], plugin[v], session[v], servicer[v], meta[v]>> /\ StarterFit(v)
    BY Kinds DEF OthersStay, DInv, ThreadsFit
  <2>2. CASE plugin[v] = NoOne
    BY <2>1, <2>2 DEF StarterFit
  <2>3. CASE plugin[v] # NoOne
    <3>1. plugin[v] \in Plugins /\ plugin[v] # p
      BY <1>0, <1>1, <2>3, Kinds DEF IInv, TypeOK, DInv, ThreadsFit, OneStarter
    <3>2. meta[v] # i /\ Unmanaged(plugin[v])
      BY <1>1, <2>1, <2>3, <3>1 DEF StarterFit, DInv, OneSession
    <3> QED
      BY <1>0, <1>3, <2>1, <2>3, <3>2, StarterKept
  <2> QED
    BY <2>2, <2>3
<1>7. OwnLoad' /\ OneManager'
  BY <1>2 DEF DInv, ThreadsFit, OwnLoad, OneManager, OthersStay, IsManaging
<1>8. OneRegister' /\ OneStarter'
  BY Kinds DEF DInv, ThreadsFit, OneRegister, OneStarter, OthersStay
<1>9. MapsFit' /\ TodoFits'
  BY <1>3 DEF DInv, MapsFit, TodoFits
<1> QED
  BY <1>4, <1>5, <1>6, <1>7, <1>8, <1>9 DEF ThreadsFit

\* A step of it that changes no object but a lifecycle and a life that ends.
LEMMA StarterGoesOn ==
  ASSUME DInv, IInv, NEW u \in Starters, pc[u] \in StarterSteps, OthersStay(u), spawn'[u] = NoOne,
         UNCHANGED <<registry, servicers, begun, todo, instance, handlers, gates, star>>,
         \A v \in Starters : life'[v] = "built" => life[v] = "built",
         \/ pc'[u] \in StarterSteps /\ plugin'[u] = plugin[u]
         \/ pc'[u] = "done" /\ plugin'[u] = NoOne,
         StarterFit(u)'
  PROVE  DInv'
<1>1. ThreadsFit' /\ MapsFit' /\ TodoFits'
  BY StarterMoves
<1>2. ObjectsStay
  BY DEF ObjectsStay
<1>3. OneSession'
  BY DEF DInv, OneSession
<1> QED
  BY <1>1, <1>2, <1>3, ObjectsKept DEF DInv

LEMMA StarterFinishes ==
  ASSUME DInv, IInv, NEW u \in Starters, InstantiateFails(u) \/ ConstructTimesOut(u) \/ MarkActive(u)
  PROVE  DInv'
<1>1. /\ pc[u] \in StarterSteps /\ Finish(u)
      /\ UNCHANGED <<registry, servicers, begun, todo, instance, handlers, gates, star>>
      /\ \A v \in Starters : life'[v] = "built" => life[v] = "built"
  BY DEF InstantiateFails, ConstructTimesOut, MarkActive, StarterSteps, IInv, TypeOK
<1>2. u \in Threads
  BY Kinds
<1>3. pc'[u] = "done" /\ plugin'[u] = NoOne /\ spawn'[u] = NoOne /\ OthersStay(u)
  BY <1>1, <1>2 DEF Finish, IInv, TypeOK, OthersStay
<1>4. StarterFit(u)'
  BY <1>3 DEF StarterFit
<1> QED
  BY <1>1, <1>3, <1>4, StarterGoesOn

\* What nobody waits for ends: no thread and no session learns of it.
LEMMA OverdueEndsDInv ==
  ASSUME DInv, IInv, NEW u \in Starters, OverdueEnds(u)
  PROVE  DInv'
<1>1. /\ UNCHANGED <<registry, servicers, begun, todo, instance, handlers, gates, star>>
      /\ UNCHANGED <<pc, plugin, session, servicer, meta, spawn>>
      /\ \A v \in Starters : life'[v] = "built" => life[v] = "built"
  BY DEF OverdueEnds, IInv, TypeOK
<1>2. ThreadsFit'
  BY <1>1 DEF DInv, ThreadsFit, LoadFit, UnloadFit, RegisterFit, StarterFit, OwnLoad, OneManager,
              OneRegister, OneStarter, Unmanaged, Unregistered, Unstarted, IsManaging
<1>3. MapsFit' /\ TodoFits' /\ OneSession'
  BY <1>1 DEF DInv, MapsFit, TodoFits, OneSession, Unmanaged, IsManaging
<1>4. ObjectsStay
  BY <1>1 DEF ObjectsStay
<1> QED
  BY <1>2, <1>3, <1>4, ObjectsKept DEF DInv

\* No call begins to manage the plugin by a step of its instantiation.
LEMMA StaysUnmanaged ==
  ASSUME DInv, IInv, NEW u \in Starters, pc[u] \in StarterSteps, pc'[u] \in StarterSteps,
         OthersStay(u), plugin'[u] = plugin[u]
  PROVE  Unmanaged(plugin[u])'
<1>1. u \in Threads /\ Unmanaged(plugin[u])
  BY StarterKnows
<1>2. ~IsManaging(u)'
  BY DEF IsManaging, StarterSteps, LoadSteps, UnloadSteps
<1> QED
  BY <1>1, <1>2 DEF Unmanaged, IsManaging, OthersStay

LEMMA StarSessionDInv ==
  ASSUME DInv, IInv, NEW u \in Starters, StarSession(u)
  PROVE  DInv'
<1>1. pc[u] = "starSession" /\ pc[u] \in StarterSteps /\ "starServicer" \in StarterSteps
  BY DEF StarSession, LookUpSession, StarterSteps
<1>2. /\ u \in Threads /\ spawn[u] = NoOne /\ plugin[u] \in Plugins /\ StarterFit(u) /\ plugin[u] # NoOne
      /\ Unmanaged(plugin[u]) /\ registry[plugin[u]] = meta[u] /\ meta[u] # NoOne
  BY <1>1, StarterKnows
<1>3. /\ pc' = [pc EXCEPT ![u] = "starServicer"] /\ session' = [session EXCEPT ![u] = meta[u]]
      /\ UNCHANGED <<plugin, servicer, meta, spawn, registry, servicers, begun, todo>>
      /\ UNCHANGED objects
  BY <1>2 DEF StarSession, LookUpSession
<1>4. pc'[u] = "starServicer" /\ session'[u] = meta[u] /\ OthersStay(u)
  BY <1>2, <1>3 DEF IInv, TypeOK, OthersStay
<1>5. Unmanaged(plugin[u])'
  BY <1>1, <1>3, <1>4, StaysUnmanaged
<1>6. StarterFit(u)'
  BY <1>1, <1>2, <1>3, <1>4, <1>5 DEF StarterFit
<1> QED
  BY <1>1, <1>2, <1>3, <1>4, <1>6, StarterGoesOn

LEMMA StarServicerDInv ==
  ASSUME DInv, IInv, NEW u \in Starters, StarServicer(u)
  PROVE  DInv'
<1>1. pc[u] = "starServicer" /\ pc[u] \in StarterSteps /\ "construct" \in StarterSteps
  BY DEF StarServicer, LookUpServicer, StarterSteps
<1>2. /\ u \in Threads /\ spawn[u] = NoOne /\ plugin[u] \in Plugins /\ StarterFit(u) /\ plugin[u] # NoOne
      /\ Unmanaged(plugin[u]) /\ servicers[plugin[u]] = meta[u] /\ meta[u] # NoOne
  BY <1>1, StarterKnows
<1>3. /\ pc' = [pc EXCEPT ![u] = "construct"] /\ servicer' = [servicer EXCEPT ![u] = meta[u]]
      /\ UNCHANGED <<plugin, session, meta, spawn, registry, servicers, begun, todo>>
      /\ UNCHANGED objects
  BY <1>2 DEF StarServicer, LookUpServicer
<1>4. pc'[u] = "construct" /\ servicer'[u] = meta[u] /\ OthersStay(u)
  BY <1>2, <1>3 DEF IInv, TypeOK, OthersStay
<1>5. Unmanaged(plugin[u])'
  BY <1>1, <1>3, <1>4, StaysUnmanaged
<1>6. StarterFit(u)'
  BY <1>1, <1>2, <1>3, <1>4, <1>5 DEF StarterFit
<1> QED
  BY <1>1, <1>2, <1>3, <1>4, <1>6, StarterGoesOn

\* A step that leaves the locals alone; i is its session.
LEMMA StepOfStarter ==
  ASSUME DInv, IInv, NEW u \in Starters, NEW from, NEW to \in StarterSteps, Step(u, from, to),
         <<from, to>> \in {<<"construct", "initialize">>, <<"initialize", "publish">>,
                           <<"publish", "adopt">>, <<"adopt", "running">>, <<"running", "active">>},
         UNCHANGED <<plugin, session, servicer, meta, spawn>>
  PROVE  /\ pc[u] \in StarterSteps /\ pc'[u] = to /\ OthersStay(u) /\ spawn'[u] = NoOne
         /\ session[u] = meta[u] /\ servicer[u] = meta[u] /\ phase[meta[u]] = "REGISTERED"
         /\ Unmanaged(plugin[u])'
<1>1. pc[u] = from /\ pc' = [pc EXCEPT ![u] = to] /\ pc[u] \in StarterSteps
  BY DEF Step, StarterSteps
<1>2. /\ u \in Threads /\ spawn[u] = NoOne /\ StarterFit(u) /\ plugin[u] # NoOne /\ ~IsManaging(u)
      /\ Unmanaged(plugin[u])
  BY <1>1, StarterKnows
<1>3. pc'[u] = to /\ OthersStay(u)
  BY <1>1, <1>2 DEF IInv, TypeOK, OthersStay
<1>4. session[u] = meta[u] /\ servicer[u] = meta[u] /\ phase[meta[u]] = "REGISTERED"
  BY <1>1, <1>2 DEF StarterFit
<1>5. Unmanaged(plugin[u])'
  BY <1>1, <1>3, StaysUnmanaged
<1> QED
  BY <1>1, <1>2, <1>3, <1>4, <1>5

\* The Star is built once, for a session that has none.
LEMMA ConstructDInv ==
  ASSUME DInv, IInv, NEW u \in Starters, Construct(u)
  PROVE  DInv'
<1>0. PICK i : i = meta[u]
  OBVIOUS
<1>1. /\ pc[u] = "construct" /\ Step(u, "construct", "initialize") /\ pc[u] \in StarterSteps
      /\ "initialize" \in StarterSteps
      /\ UNCHANGED <<registry, servicers, begun, todo, instance, handlers, gates>>
      /\ UNCHANGED <<plugin, session, servicer, meta, spawn>>
      /\ star' = [star EXCEPT ![i] = u] /\ life' = [life EXCEPT ![u] = "built"]
  BY <1>0 DEF Construct, Step, StarterSteps
<1>2. /\ pc'[u] = "initialize" /\ OthersStay(u) /\ spawn'[u] = NoOne
      /\ session[u] = i /\ servicer[u] = i /\ phase[i] = "REGISTERED" /\ Unmanaged(plugin[u])'
  BY <1>0, <1>1, StepOfStarter
<1>3. /\ u \in Threads /\ StarterFit(u) /\ plugin[u] # NoOne /\ registry[plugin[u]] = i
      /\ i \in begun /\ i \in Loads /\ i # NoOne /\ instance[i] # NoOne
  BY <1>0, <1>1, StarterKnows
<1>4. star[i] = NoOne
  BY <1>0, <1>1, <1>3 DEF StarterFit
<1>5. /\ star'[i] = u /\ u # NoOne /\ \A k \in Loads \ {i} : star'[k] = star[k]
      /\ \A v \in Starters \ {u} : life'[v] = life[v]
  BY <1>1, <1>3, Distinct DEF IInv, TypeOK
<1>6. StarterFit(u)'
  BY <1>0, <1>1, <1>2, <1>3 DEF StarterFit
<1>7. ThreadsFit' /\ MapsFit' /\ TodoFits'
  BY <1>0, <1>1, <1>2, <1>5, <1>6, StarterMoves
<1>8. OneSession'
  BY <1>1, <1>3, <1>5 DEF DInv, OneSession
<1>9. ServesOwnStar'
  <2>1. inst[i] = NoOne
    BY <1>3, <1>4 DEF DInv, ServesOwnStar
  <2> QED
    BY <1>1, <1>5, <2>1 DEF DInv, ServesOwnStar
<1>10. NoLostStar'
  <2> SUFFICES ASSUME NEW v \in Starters, life'[v] = "built" PROVE \E m \in Loads : star'[m] = v
    BY DEF NoLostStar
  <2>1. CASE v = u
    BY <1>3, <1>5, <2>1
  <2>2. CASE v # u
    <3>1. PICK m \in Loads : star[m] = v
      BY <1>5, <2>2 DEF DInv, NoLostStar
    <3> QED
      BY <1>4, <1>5, <3>1, Distinct
  <2> QED
    BY <2>1, <2>2
<1>11. ObjectsFit' /\ RegisteredHandlers'
  BY <1>1, <1>2, <1>3, <1>4, <1>5 DEF DInv, ObjectsFit, RegisteredHandlers
<1> QED
  BY <1>7, <1>8, <1>9, <1>10, <1>11 DEF DInv

LEMMA InitializeOkDInv ==
  ASSUME DInv, IInv, NEW u \in Starters, InitializeOk(u)
  PROVE  DInv'
<1>1. /\ pc[u] = "initialize" /\ Step(u, "initialize", "publish") /\ pc[u] \in StarterSteps
      /\ "publish" \in StarterSteps
      /\ UNCHANGED <<registry, servicers, begun, todo, instance, handlers, gates, stars>>
      /\ UNCHANGED <<plugin, session, servicer, meta, spawn>>
  BY DEF InitializeOk, Step, StarterSteps
<1>2. /\ pc'[u] = "publish" /\ OthersStay(u) /\ spawn'[u] = NoOne
      /\ session[u] = meta[u] /\ servicer[u] = meta[u] /\ phase[meta[u]] = "REGISTERED"
      /\ Unmanaged(plugin[u])'
  BY <1>1, StepOfStarter
<1>3. /\ plugin[u] # NoOne /\ registry[plugin[u]] = meta[u] /\ meta[u] # NoOne
      /\ instance[meta[u]] # NoOne
  BY <1>1, StarterKnows
<1>4. StarterFit(u)'
  BY <1>1, <1>2, <1>3 DEF StarterFit
<1> QED
  BY <1>1, <1>2, <1>4, StarterGoesOn

\* The servicer gets the Star of its own session.
LEMMA PublishDInv ==
  ASSUME DInv, IInv, NEW u \in Starters, Publish(u)
  PROVE  DInv'
<1>0. PICK i : i = meta[u]
  OBVIOUS
<1>1. /\ pc[u] = "publish" /\ Step(u, "publish", "adopt") /\ pc[u] \in StarterSteps
      /\ "adopt" \in StarterSteps
      /\ UNCHANGED <<registry, servicers, begun, todo, instance, handlers, phase, commands, star, life>>
      /\ UNCHANGED <<plugin, session, servicer, meta, spawn>>
  BY DEF Publish, Step, StarterSteps
<1>2. /\ pc'[u] = "adopt" /\ OthersStay(u) /\ spawn'[u] = NoOne
      /\ session[u] = i /\ servicer[u] = i /\ phase[i] = "REGISTERED" /\ Unmanaged(plugin[u])'
  BY <1>0, <1>1, StepOfStarter
<1>3. /\ plugin[u] # NoOne /\ registry[plugin[u]] = i /\ i \in Loads /\ i # NoOne /\ instance[i] # NoOne
  BY <1>0, <1>1, StarterKnows
<1>4. inst' = [inst EXCEPT ![i] = star[i]]
  BY <1>0, <1>2 DEF Publish
<1>5. StarterFit(u)'
  BY <1>0, <1>1, <1>2, <1>3 DEF StarterFit
<1>6. ThreadsFit' /\ MapsFit' /\ TodoFits'
  BY <1>0, <1>1, <1>2, <1>5, StarterMoves
<1>7. ServesOwnStar'
  BY <1>1, <1>3, <1>4 DEF DInv, ServesOwnStar, IInv, TypeOK
<1>8. OneSession' /\ NoLostStar' /\ ObjectsFit' /\ RegisteredHandlers'
  BY <1>1 DEF DInv, OneSession, NoLostStar, ObjectsFit, RegisteredHandlers
<1> QED
  BY <1>6, <1>7, <1>8 DEF DInv

\* The session gets it.
LEMMA AdoptDInv ==
  ASSUME DInv, IInv, NEW u \in Starters, Adopt(u)
  PROVE  DInv'
<1>0. PICK i : i = meta[u]
  OBVIOUS
<1>1. /\ pc[u] = "adopt" /\ Step(u, "adopt", "running") /\ pc[u] \in StarterSteps
      /\ "running" \in StarterSteps
      /\ UNCHANGED <<registry, servicers, begun, todo, handlers, gates, star, life>>
      /\ UNCHANGED <<plugin, session, servicer, meta, spawn>>
  BY DEF Adopt, Step, StarterSteps
<1>2. /\ pc'[u] = "running" /\ OthersStay(u) /\ spawn'[u] = NoOne
      /\ session[u] = i /\ servicer[u] = i /\ phase[i] = "REGISTERED" /\ Unmanaged(plugin[u])'
  BY <1>0, <1>1, StepOfStarter
<1>3. /\ u \in Threads /\ plugin[u] # NoOne /\ registry[plugin[u]] = i
      /\ i \in begun /\ i \in Loads /\ i # NoOne /\ instance[i] # NoOne
  BY <1>0, <1>1, StarterKnows
<1>4. instance' = [instance EXCEPT ![i] = star[i]] /\ star[i] # NoOne
  BY <1>0, <1>1, <1>2, <1>3 DEF Adopt, IInv, GateOrder
<1>5. /\ instance'[i] = star[i] /\ \A k \in Loads \ {i} : instance'[k] = instance[k]
  BY <1>3, <1>4 DEF IInv, TypeOK
<1>6. StarterFit(u)'
  BY <1>0, <1>1, <1>2, <1>3, <1>4, <1>5 DEF StarterFit
<1>7. ThreadsFit' /\ MapsFit' /\ TodoFits'
  BY <1>0, <1>1, <1>2, <1>5, <1>6, StarterMoves
<1>8. OneSession' /\ ServesOwnStar' /\ NoLostStar'
  BY <1>1, <1>3, <1>5 DEF DInv, OneSession, ServesOwnStar, NoLostStar
<1>9. ObjectsFit' /\ RegisteredHandlers'
  BY <1>1, <1>2, <1>3, <1>4, <1>5 DEF DInv, ObjectsFit, RegisteredHandlers
<1> QED
  BY <1>7, <1>8, <1>9 DEF DInv

\* The gate opens.
LEMMA MarkInstancedDInv ==
  ASSUME DInv, IInv, NEW u \in Starters, MarkInstanced(u)
  PROVE  DInv'
<1>0. PICK i : i = meta[u]
  OBVIOUS
<1>1. /\ pc[u] = "running" /\ Step(u, "running", "active") /\ pc[u] \in StarterSteps
      /\ "active" \in StarterSteps
      /\ UNCHANGED <<registry, servicers, begun, todo, instance, handlers, inst, commands, star, life>>
      /\ UNCHANGED <<plugin, session, servicer, meta, spawn>>
  BY DEF MarkInstanced, Step, StarterSteps
<1>2. /\ pc'[u] = "active" /\ OthersStay(u) /\ spawn'[u] = NoOne
      /\ session[u] = i /\ servicer[u] = i /\ phase[i] = "REGISTERED" /\ Unmanaged(plugin[u])'
  BY <1>0, <1>1, StepOfStarter
<1>3. /\ plugin[u] # NoOne /\ registry[plugin[u]] = i /\ i \in begun /\ i \in Loads /\ i # NoOne
      /\ instance[i] # NoOne
  BY <1>0, <1>1, StarterKnows
<1>4. phase' = [phase EXCEPT ![i] = "RUNNING"]
  BY <1>0, <1>2 DEF MarkInstanced
<1>5. /\ phase'[i] = "RUNNING" /\ \A k \in Loads \ {i} : phase'[k] = phase[k]
  BY <1>3, <1>4 DEF IInv, TypeOK
<1>6. StarterFit(u)'
  BY <1>0, <1>1, <1>2, <1>3 DEF StarterFit
<1>7. ThreadsFit' /\ MapsFit' /\ TodoFits'
  BY <1>0, <1>1, <1>2, <1>5, <1>6, StarterMoves
<1>8. OneSession' /\ ServesOwnStar' /\ NoLostStar'
  BY <1>1, <1>3, <1>5 DEF DInv, OneSession, ServesOwnStar, NoLostStar
<1>9. ObjectsFit' /\ RegisteredHandlers'
  BY <1>1, <1>2, <1>3, <1>5 DEF DInv, ObjectsFit, RegisteredHandlers
<1> QED
  BY <1>7, <1>8, <1>9 DEF DInv

(***************************************************************************)
(* The theorems                                                            *)
(***************************************************************************)
LEMMA InitDInv == Init => DInv
<1> SUFFICES ASSUME Init PROVE DInv
  OBVIOUS
<1>1. ThreadsFit
  <2>1. \A t \in Threads :
          plugin[t] = NoOne /\ spawn[t] = NoOne /\ pc[t] \notin LoadSteps \cup UnloadSteps
    BY DEF Init, LoadSteps, UnloadSteps
  <2>2. \A t \in Threads : LoadFit(t) /\ UnloadFit(t) /\ RegisterFit(t)
    BY <2>1 DEF LoadFit, UnloadFit, RegisterFit
  <2>3. \A u \in Starters : StarterFit(u)
    BY <2>1, Kinds DEF StarterFit
  <2>4. OwnLoad /\ OneManager /\ OneRegister
    BY <2>1 DEF OwnLoad, OneManager, OneRegister, IsManaging
  <2>5. OneStarter
    BY <2>1, Kinds DEF OneStarter
  <2> QED
    BY <2>2, <2>3, <2>4, <2>5 DEF ThreadsFit
<1>2. MapsFit /\ TodoFits
  <2>1. \A t \in Threads : ~IsManaging(t)
    BY DEF Init, IsManaging, LoadSteps, UnloadSteps
  <2> QED
    BY <2>1, EnvironmentAssumption DEF Init, MapsFit, TodoFits, Unmanaged
<1>3. OneSession /\ ObjectsFit
  BY DEF Init, OneSession, ObjectsFit
<1>4. ServesOwnStar /\ NoLostStar /\ RegisteredHandlers
  BY DEF Init, ServesOwnStar, NoLostStar, RegisteredHandlers
<1> QED
  BY <1>1, <1>2, <1>3, <1>4 DEF DInv

\* A host and plugins that keep to the disciplines keep the invariant, and no gate closes.
NoGateCloses == \A i \in Loads : phase[i] = "RUNNING" => phase'[i] = "RUNNING"

LEMMA NextDInv ==
  ASSUME Disciplined, DInv, IInv, [Next]_vars
  PROVE  DInv' /\ NoGateCloses
<1>0. UNCHANGED phase => NoGateCloses
  BY DEF NoGateCloses
<1>1. ASSUME NEW t \in Workers, NEW p \in Plugins,
             Load(t, p) \/ Unload(t, p) \/ Register(t, p) \/ Handle(t, p)
      PROVE  DInv' /\ NoGateCloses
  <2>1. UNCHANGED phase
    BY <1>1 DEF Load, Unload, Register, Handle, Take
  <2> QED
    BY <1>0, <1>1, <2>1, LoadDInv, UnloadDInv, RegisterDInv, HandleDInv
<1>2. ASSUME NEW p \in Plugins, LoadEnvironment(p) PROVE DInv' /\ NoGateCloses
  <2>1. UNCHANGED phase
    BY <1>2 DEF LoadEnvironment, Take
  <2> QED
    BY <1>0, <1>2, <2>1, LoadEnvironmentDInv
<1>3. ASSUME NEW t \in Workers \cup {Main}, LoadStep(t) PROVE DInv' /\ NoGateCloses
  <2>1. CASE MarkReady(t)
    <3>1. DInv' /\ phase[servicer[t]] = "CREATED"
      BY <2>1, MarkReadyDInv
    <3> QED
      BY <2>1, <3>1 DEF MarkReady, NoGateCloses, IInv, TypeOK
  <2>2. CASE AddSession(t) \/ AddServicer(t) \/ LoadSession(t)
    <3>1. UNCHANGED phase
      BY <2>2 DEF AddSession, AddServicer, LoadSession
    <3> QED
      BY <1>0, <2>2, <3>1, AddSessionDInv, AddServicerDInv, LoadSessionDInv
  <2>3. CASE LoadServicer(t) \/ ImportOk(t) \/ ImportFails(t)
    <3>1. UNCHANGED phase
      BY <2>3 DEF LoadServicer, ImportOk, ImportFails
    <3> QED
      BY <1>0, <2>3, <3>1, LoadServicerDInv, ImportOkDInv, ImportFailsDInv
  <2> QED
    BY <1>3, <2>1, <2>2, <2>3 DEF LoadStep
<1>4. ASSUME NEW t \in Workers, RouteStep(t) \/ RegisterStep(t) PROVE DInv' /\ NoGateCloses
  <2>1. CASE Registered(t)
    <3>1. DInv' /\ phase[servicer[t]] # "RUNNING"
      BY <2>1, RegisteredDInv
    <3> QED
      BY <2>1, <3>1 DEF Registered, NoGateCloses, IInv, TypeOK
  <2>2. CASE RouteStep(t)
    <3>1. UNCHANGED phase
      BY <2>2 DEF RouteStep, RouteSession, RouteServicer
    <3> QED
      BY <1>0, <2>2, <3>1, RouteSessionDInv, RouteServicerDInv DEF RouteStep
  <2>3. CASE RegisterReady(t) \/ RegisterTimesOut(t)
    <3>1. UNCHANGED phase
      BY <2>3 DEF RegisterReady, RegisterTimesOut, BuildRegistry
    <3> QED
      BY <1>0, <2>3, <3>1, BuildRegistryDInv
  <2>4. CASE VersionMismatch(t) \/ NothingToInstantiate(t) \/ SpawnStarter(t) \/ AnswerRegister(t)
    <3>1. UNCHANGED phase
      BY <2>4 DEF VersionMismatch, NothingToInstantiate, SpawnStarter, AnswerRegister
    <3> QED
      BY <1>0, <2>4, <3>1, FailureDInv, HandlerEndsDInv, SpawnStarterDInv
  <2> QED
    BY <1>4, <2>1, <2>2, <2>3, <2>4 DEF RegisterStep
<1>5. ASSUME NEW t \in Workers, HandleStep(t) PROVE DInv' /\ NoGateCloses
  <2>1. UNCHANGED phase
    BY <1>5 DEF HandleStep, CallHandler, SkipHandler, HandlerReturns, ServicerFails, CheckLifecycle,
                MarkError
  <2> QED
    BY <1>0, <1>5, <2>1, CallHandlerDInv, HandlerEndsDInv, FailureDInv DEF HandleStep
<1>6. ASSUME NEW t \in Workers, UnloadStep(t) PROVE DInv' /\ NoGateCloses
  <2>1. UNCHANGED phase
    BY <1>6 DEF UnloadStep, UnloadSession, Terminate, MarkUnloaded, RemoveSession, PopServicer
  <2> QED
    BY <1>0, <1>6, <2>1, UnloadSessionDInv, UnloadGoesOn, RemoveSessionDInv, PopServicerDInv
       DEF UnloadStep
<1>7. ASSUME NEW u \in Starters, StarterStep(u) \/ OverdueEnds(u) PROVE DInv' /\ NoGateCloses
  <2>1. CASE MarkInstanced(u)
    <3>1. NoGateCloses
      BY <2>1 DEF MarkInstanced, NoGateCloses, IInv, TypeOK
    <3> QED
      BY <2>1, <3>1, MarkInstancedDInv
  <2>2. CASE StarSession(u) \/ StarServicer(u) \/ Construct(u) \/ InstantiateFails(u)
    <3>1. UNCHANGED phase
      BY <2>2 DEF StarSession, StarServicer, Construct, InstantiateFails
    <3> QED
      BY <1>0, <2>2, <3>1, StarSessionDInv, StarServicerDInv, ConstructDInv, StarterFinishes
  <2>3. CASE InitializeOk(u) \/ Publish(u) \/ Adopt(u) \/ MarkActive(u)
    <3>1. UNCHANGED phase
      BY <2>3 DEF InitializeOk, Publish, Adopt, MarkActive
    <3> QED
      BY <1>0, <2>3, <3>1, InitializeOkDInv, PublishDInv, AdoptDInv, StarterFinishes
  <2>4. CASE ConstructTimesOut(u) \/ OverdueEnds(u)
    <3>1. UNCHANGED phase
      BY <2>4 DEF ConstructTimesOut, OverdueEnds
    <3> QED
      BY <1>0, <2>4, <3>1, StarterFinishes, OverdueEndsDInv
  <2> QED
    BY <1>7, <2>1, <2>2, <2>3, <2>4 DEF StarterStep
<1>8. CASE UNCHANGED vars
  <2>1. /\ UNCHANGED <<registry, servicers, begun, todo, instance, handlers, gates, stars>>
        /\ UNCHANGED <<pc, plugin, session, servicer, meta, spawn>>
    BY <1>8 DEF vars
  <2>2. ThreadsFit'
    BY <2>1 DEF DInv, ThreadsFit, LoadFit, UnloadFit, RegisterFit, StarterFit, OwnLoad, OneManager,
                OneRegister, OneStarter, Unmanaged, Unregistered, Unstarted, IsManaging
  <2>3. MapsFit' /\ TodoFits' /\ OneSession'
    BY <2>1 DEF DInv, MapsFit, TodoFits, OneSession, Unmanaged, IsManaging
  <2>4. ObjectsFit' /\ ServesOwnStar' /\ NoLostStar' /\ RegisteredHandlers'
    BY <2>1 DEF DInv, ObjectsFit, ServesOwnStar, NoLostStar, RegisteredHandlers
  <2> QED
    BY <1>0, <2>1, <2>2, <2>3, <2>4 DEF DInv
<1> QED
  BY <1>1, <1>2, <1>3, <1>4, <1>5, <1>6, <1>7, <1>8 DEF Next, Request, WorkerStep

LEMMA SpecDInv ==
  ASSUME Disciplined
  PROVE  Spec => [](DInv /\ IInv)
<1>1. Init => DInv /\ IInv
  BY InitDInv, InitInv
<1>2. (DInv /\ IInv) /\ [Next]_vars => (DInv /\ IInv)'
  BY NextDInv, NextInv
<1> QED
  BY <1>1, <1>2, PTL DEF Spec

\* With a disciplined host the two maps agree about every plugin that no call manages: a
\* plugin that can be found by one can be found by the other (host.py, add_plugin and
\* unload_plugin).
THEOREM MapsSafe ==
  ASSUME Disciplined
  PROVE  Spec => []MapsAgree
<1>1. DInv => MapsAgree
  BY Guards DEF DInv, MapsFit, MapsAgree
<1> QED
  BY <1>1, SpecDInv, PTL

\* With a disciplined host a session serves its own Star, no Star that came in time is lost,
\* nobody has one that came too late, and none is built before Register has collected the
\* handlers of its session.  (That the host has the answer by then, and that no Star comes too
\* late, is not so: AnsweredBeforeStar and NoStrayStar.)
THEOREM StarsSafe ==
  ASSUME Disciplined
  PROVE  Spec => []StarsAreRight
<1>1. DInv /\ IInv => CollectedBeforeStar
  <2> SUFFICES ASSUME DInv, IInv, NEW u \in Starters, pc[u] \in {"construct", "initialize"}
               PROVE  phase[servicer[u]] = "REGISTERED"
    BY DEF CollectedBeforeStar
  <2>1. pc[u] \in StarterSteps
    BY DEF StarterSteps
  <2>2. StarterFit(u) /\ plugin[u] # NoOne
    BY <2>1, StarterKnows
  <2> QED
    BY <2>2 DEF StarterFit
<1>2. DInv /\ IInv /\ StrayIsNobodys => StarsAreRight
  BY <1>1 DEF DInv, StarsAreRight
<1> QED
  BY <1>2, StraySafe, SpecDInv, PTL

\* With a disciplined host a session that was registered has told the host every handler its
\* import defined.
THEOREM HandlersSafe ==
  ASSUME Disciplined
  PROVE  Spec => []RegisteredHandlers
<1>1. DInv => RegisteredHandlers
  BY DEF DInv
<1> QED
  BY <1>1, SpecDInv, PTL

\* With a disciplined host no Register, load or instantiation closes an open gate.
THEOREM GateStays ==
  ASSUME Disciplined
  PROVE  Spec => GateStaysOpen
<1>1. (DInv /\ IInv) /\ [Next]_vars => [NoGateCloses]_vars
  BY NextDInv
<1> QED
  BY <1>1, SpecDInv, PTL DEF Spec, GateStaysOpen, NoGateCloses
=============================================================================
