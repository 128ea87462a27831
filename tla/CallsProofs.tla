------------------------------ MODULE CallsProofs ------------------------------
(***************************************************************************)
(* Proofs about the host's calls: that a handler the host was told of is   *)
(* found and that nothing registered is lost (HandlerCalls), that what the *)
(* host is told of a handler's work is true (HandlerAnswers), and that the *)
(* plugin's web pages are served by the right handler, with the request    *)
(* that was sent (WebRoutes), and that the registry of the built-in tools  *)
(* is complete and no MCP connection is left behind (ToolTable).           *)
(***************************************************************************)
EXTENDS HandlerCalls, HandlerAnswers, WebRoutes, ToolTable, SequenceTheorems, FiniteSetTheorems, TLAPS

-----------------------------------------------------------------------------
(* The inductive invariant of HandlerCalls                                  *)

RegisterSteps == {"waiting", "asking", "replacing", "sorting", "mapping", "telling"}
CallSteps     == {"gate", "checking", "running"}

Registering(w) == pc[w] \in RegisterSteps

\* The state of each thread.
ThreadsTypeOK ==
  /\ pc \in [Threads -> {"idle"} \cup RegisterSteps \cup CallSteps \cup Handlers]
  /\ pc[Plugin] \in {"idle", "sorting"} \cup Handlers
  /\ \A w \in Workers : pc[w] \in {"idle"} \cup RegisterSteps \cup CallSteps
  /\ sorting \in [Threads -> [live : BOOLEAN, taken : SUBSET (Handlers \cup Virtuals)]]
  /\ keep \in [Workers -> SUBSET Handlers]
  /\ call \in [Workers -> [kind : CallKinds \cup {"Register", None},
                           name : Handlers \cup Virtuals \cup Tools \cup {None}]]
  /\ regime \in {"orderly", "late", "again"}

\* The tables hold the plugin's own, each what it is for, and the host was told of them.
TablesHoldOwn ==
  /\ commands \subseteq Commands
  /\ reported \subseteq commands \cup filters \cup hooks \cup tools

\* A thread has the request that its step is for, and a call is of a name the host knows.
\* What is checked or runs was found.
RequestFits(w) ==
  /\ call[w].kind = "Register" <=> Registering(w)
  /\ pc[w] \in CallSteps => call[w].kind \in CallKinds /\ call[w].name \in Named(call[w].kind) \cap reported
  /\ pc[w] = "checking" => call[w].kind = "Filter"
  /\ pc[w] \in {"checking", "running"} => call[w].name \in Found(call[w].kind)

RequestsFit == \A w \in Workers : RequestFits(w)

\* The one Register of an orderly host waits for the import.
RegisterOnce ==
  /\ \A v, w \in Workers : Registering(v) /\ Registering(w) => v = w
  /\ stage = "importing" => \A w \in Workers : Registering(w) => pc[w] = "waiting"
  /\ stage # "importing" => pc[Plugin] = "idle"

\* Between the steps that take the list apart the list and the map have the same.
ListIsTheMap ==
  /\ \A t \in Threads : pc[t] # "sorting" => sorting[t] = NoSort
  /\ pc[Plugin] \in Handlers => mapped = listed \cup {pc[Plugin]}
  /\ pc[Plugin] = "sorting" => listed = {} /\ sorting[Plugin] = [live |-> TRUE, taken |-> mapped]
  /\ \A w \in Workers :
       /\ pc[w] = "replacing" => keep[w] = listed \ Virtuals
       /\ pc[w] = "sorting" => listed = {} /\ sorting[w] = [live |-> TRUE, taken |-> mapped \cup Virtuals]
       /\ pc[w] = "mapping" => listed = mapped \cup Virtuals
  /\ (pc[Plugin] = "idle" /\ \A w \in Workers : pc[w] \notin {"sorting", "mapping"}) => listed = mapped

\* Of an orderly plugin.
OrderlyCalls == RegisterOnce /\ ListIsTheMap /\ filters \subseteq mapped

HandlersInv ==
  /\ HandlersTypeOK
  /\ ThreadsTypeOK
  /\ TablesHoldOwn
  /\ RequestsFit
  /\ reply # "absent"
  /\ regime = "orderly" => OrderlyCalls /\ reply # "refused"


-----------------------------------------------------------------------------
(* Types                                                                    *)

\* A step of one thread, and the request it serves afterwards.
LEMMA PluginMoves ==
  ASSUME ThreadsTypeOK, NEW s \in {"idle", "sorting"} \cup Handlers, Moves(Plugin, s)
  PROVE  /\ pc' \in [Threads -> {"idle"} \cup RegisterSteps \cup CallSteps \cup Handlers]
         /\ pc'[Plugin] = s
         /\ \A w \in Workers : pc'[w] = pc[w]
BY ThreadsAssumption DEF ThreadsTypeOK, Moves, Threads, RegisterSteps

LEMMA WorkerMoves ==
  ASSUME ThreadsTypeOK, NEW w \in Workers, NEW s \in {"idle"} \cup RegisterSteps \cup CallSteps,
         Moves(w, s)
  PROVE  /\ pc' \in [Threads -> {"idle"} \cup RegisterSteps \cup CallSteps \cup Handlers]
         /\ pc'[w] = s
         /\ \A t \in Threads \ {w} : pc'[t] = pc[t]
         /\ pc'[Plugin] = pc[Plugin] /\ Plugin \in Threads \ {w}
         /\ \A v \in Workers \ {w} : v \in Threads \ {w}
BY ThreadsAssumption DEF ThreadsTypeOK, Moves, Threads

LEMMA SortEnds ==
  ASSUME ThreadsTypeOK, listed \subseteq Handlers \cup Virtuals, NEW t \in Threads, EndSort(t)
  PROVE  /\ listed' \subseteq Handlers \cup Virtuals
         /\ sorting' \in [Threads -> [live : BOOLEAN, taken : SUBSET (Handlers \cup Virtuals)]]
         /\ sorting'[t] = NoSort
         /\ \A u \in Threads \ {t} : sorting'[u] = sorting[u]
BY DEF ThreadsTypeOK, EndSort, NoSort


\* What an answer of a call leaves behind.
LEMMA AnswerTypes ==
  ASSUME HandlersTypeOK, ThreadsTypeOK, NEW w \in Workers,
         NEW how \in {"skipped", "absent", "refused", "allowed", "denied"}, Answer(w, how), Leave
  PROVE  HandlersTypeOK' /\ ThreadsTypeOK'
<1>1. Moves(w, "idle") /\ reply' = how /\ call' = [call EXCEPT ![w] = NoCall]
  BY DEF Answer
<1>2. HandlersTypeOK'
  BY <1>1 DEF HandlersTypeOK, Leave, listing, tables, Replies
<1>3. /\ pc' \in [Threads -> {"idle"} \cup RegisterSteps \cup CallSteps \cup Handlers]
      /\ pc'[w] = "idle" /\ pc'[Plugin] = pc[Plugin]
      /\ \A v \in Workers \ {w} : pc'[v] = pc[v]
  BY <1>1, WorkerMoves
<1>4. call' \in [Workers -> [kind : CallKinds \cup {"Register", None},
                             name : Handlers \cup Virtuals \cup Tools \cup {None}]]
  BY <1>1 DEF ThreadsTypeOK, NoCall
<1> QED
  BY <1>2, <1>3, <1>4 DEF ThreadsTypeOK, Leave

\* What a step of a call leaves behind that does not answer it.
LEMMA StepTypes ==
  ASSUME HandlersTypeOK, ThreadsTypeOK, NEW w \in Workers, NEW s \in CallSteps,
         Moves(w, s), UNCHANGED <<call, reply>>, Leave
  PROVE  HandlersTypeOK' /\ ThreadsTypeOK'
<1>1. /\ pc' \in [Threads -> {"idle"} \cup RegisterSteps \cup CallSteps \cup Handlers]
      /\ pc'[w] = s /\ pc'[Plugin] = pc[Plugin]
      /\ \A v \in Workers \ {w} : pc'[v] = pc[v]
  BY WorkerMoves
<1>2. HandlersTypeOK'
  BY DEF HandlersTypeOK, Leave, listing, tables
<1> QED
  BY <1>1, <1>2 DEF ThreadsTypeOK, Leave

LEMMA PluginTypes ==
  ASSUME HandlersTypeOK, ThreadsTypeOK,
         \/ RegisterCommand \/ RegisterFilter \/ RegisterHook \/ (\E t \in Tools : AddTool(t))
         \/ Enlist \/ Sorted \/ Imported \/ Instantiated
  PROVE  HandlersTypeOK' /\ ThreadsTypeOK'
<1>1. ASSUME NEW h \in Handlers, Decorate(h) PROVE HandlersTypeOK' /\ ThreadsTypeOK'
  <2>1. HandlersTypeOK'
    BY <1>1 DEF HandlersTypeOK, Decorate, tables
  <2>2. Moves(Plugin, h)
    BY <1>1 DEF Decorate
  <2> QED
    BY <1>1, <2>1, <2>2, PluginMoves DEF ThreadsTypeOK, Decorate
<1>2. CASE RegisterCommand \/ RegisterFilter \/ RegisterHook
  BY <1>1, <1>2 DEF RegisterCommand, RegisterFilter, RegisterHook, Handlers
<1>3. CASE \E t \in Tools : AddTool(t)
  BY <1>3 DEF HandlersTypeOK, ThreadsTypeOK, AddTool, listing, tables
<1>4. CASE Enlist
  <2>1. HandlersTypeOK' /\ Moves(Plugin, "sorting")
    BY <1>4 DEF HandlersTypeOK, Enlist, tables
  <2>2. sorting' \in [Threads -> [live : BOOLEAN, taken : SUBSET (Handlers \cup Virtuals)]]
    BY <1>4 DEF HandlersTypeOK, ThreadsTypeOK, Enlist
  <2> QED
    BY <1>4, <2>1, <2>2, PluginMoves DEF ThreadsTypeOK, Enlist
<1>5. CASE Sorted
  <2>1. Moves(Plugin, "idle") /\ EndSort(Plugin) /\ Plugin \in Threads
    BY <1>5 DEF Sorted, Threads
  <2>2. /\ listed' \subseteq Handlers \cup Virtuals
        /\ sorting' \in [Threads -> [live : BOOLEAN, taken : SUBSET (Handlers \cup Virtuals)]]
    BY <2>1, SortEnds DEF HandlersTypeOK
  <2>3. HandlersTypeOK'
    BY <1>5, <2>2 DEF HandlersTypeOK, Sorted, tables
  <2> QED
    BY <1>5, <2>1, <2>2, <2>3, PluginMoves DEF ThreadsTypeOK, Sorted
<1>6. CASE Imported \/ Instantiated
  BY <1>6 DEF HandlersTypeOK, ThreadsTypeOK, Imported, Instantiated, listing, tables
<1> QED
  BY <1>2, <1>3, <1>4, <1>5, <1>6

LEMMA RegisterTypes ==
  ASSUME HandlersTypeOK, ThreadsTypeOK, NEW w \in Workers,
         \/ BeginRegister(w) \/ BuildRegistry(w) \/ AskHost(w) \/ ReplaceList(w) \/ SortList(w)
         \/ SortFails(w) \/ ReplaceMap(w) \/ TellHost(w) \/ ListTools(w)
  PROVE  HandlersTypeOK' /\ ThreadsTypeOK'
<1> DEFINE Request == [kind : CallKinds \cup {"Register", None},
                       name : Handlers \cup Virtuals \cup Tools \cup {None}]
           Items == [live : BOOLEAN, taken : SUBSET (Handlers \cup Virtuals)]
<1>0. ASSUME NEW s \in {"idle"} \cup RegisterSteps \cup CallSteps, Moves(w, s),
             sorting' \in [Threads -> Items], keep' \in [Workers -> SUBSET Handlers],
             call' \in [Workers -> Request], regime' = regime
      PROVE  ThreadsTypeOK'
  BY <1>0, WorkerMoves DEF ThreadsTypeOK
<1>a. /\ sorting \in [Threads -> Items] /\ keep \in [Workers -> SUBSET Handlers]
      /\ call \in [Workers -> Request] /\ w \in Threads
  BY DEF ThreadsTypeOK, Threads
<1>b. ASSUME NEW k \in CallKinds \cup {"Register", None} PROVE [kind |-> k, name |-> None] \in Request
  BY DEF Request
<1>c. [call EXCEPT ![w] = NoCall] \in [Workers -> Request]
  BY <1>a, <1>b DEF NoCall
<1> HIDE DEF Request, Items
<1>1. CASE BeginRegister(w)
  <2>1. HandlersTypeOK'
    BY <1>1 DEF HandlersTypeOK, BeginRegister, listing, tables, Replies
  <2>2. call' \in [Workers -> Request]
    BY <1>1, <1>a, <1>b DEF BeginRegister
  <2> QED
    BY <1>1, <1>0, <1>a, <2>1, <2>2 DEF BeginRegister, RegisterSteps
<1>2. CASE BuildRegistry(w)
  <2>1. HandlersTypeOK'
    BY <1>2 DEF HandlersTypeOK, BuildRegistry, listing, Own
  <2>2. call' \in [Workers -> Request]
    BY <1>2, <1>a, <1>c DEF BuildRegistry
  <2>3. PICK s \in {"asking", "idle"} : Moves(w, s)
    BY <1>2 DEF BuildRegistry
  <2> QED
    BY <1>2, <1>0, <1>a, <2>1, <2>2, <2>3 DEF BuildRegistry, RegisterSteps
<1>3. CASE AskHost(w)
  <2>1. HandlersTypeOK'
    BY <1>3 DEF HandlersTypeOK, AskHost, listing, tables
  <2>2. keep' \in [Workers -> SUBSET Handlers]
    BY <1>3, <1>a DEF AskHost, HandlersTypeOK
  <2>3. PICK s \in {"replacing", "telling"} : Moves(w, s)
    BY <1>3 DEF AskHost
  <2> QED
    BY <1>3, <1>0, <1>a, <2>1, <2>2, <2>3 DEF AskHost, RegisterSteps
<1>4. CASE ReplaceList(w)
  <2>1. HandlersTypeOK'
    BY <1>4 DEF HandlersTypeOK, ReplaceList, tables
  <2>2. keep' \in [Workers -> SUBSET Handlers]
    BY <1>4, <1>a DEF ReplaceList
  <2>3. sorting' \in [Threads -> Items]
    BY <1>4, <1>a DEF ReplaceList, Items
  <2> QED
    BY <1>4, <1>0, <1>a, <2>1, <2>2, <2>3 DEF ReplaceList, RegisterSteps
<1>5. CASE SortList(w) \/ SortFails(w)
  <2>1. EndSort(w)
    BY <1>5 DEF SortList, SortFails
  <2>2. listed' \subseteq Handlers \cup Virtuals /\ sorting' \in [Threads -> Items]
    BY <2>1, <1>a, SortEnds DEF HandlersTypeOK, Items
  <2>3. HandlersTypeOK'
    BY <1>5, <2>2 DEF HandlersTypeOK, SortList, SortFails, tables
  <2>4. PICK s \in {"mapping", "idle"} : Moves(w, s)
    BY <1>5 DEF SortList, SortFails
  <2>5. call' \in [Workers -> Request]
    BY <1>5, <1>a, <1>c DEF SortList, SortFails
  <2> QED
    BY <1>5, <1>0, <1>a, <2>2, <2>3, <2>4, <2>5 DEF SortList, SortFails, RegisterSteps
<1>6. CASE ReplaceMap(w)
  <2>1. HandlersTypeOK'
    BY <1>6 DEF HandlersTypeOK, ReplaceMap, tables
  <2> QED
    BY <1>6, <1>0, <1>a, <2>1 DEF ReplaceMap, RegisterSteps
<1>7. CASE TellHost(w)
  <2>1. HandlersTypeOK'
    BY <1>7 DEF HandlersTypeOK, TellHost, listing
  <2> QED
    BY <1>7, <1>0, <1>a, <1>c, <2>1 DEF TellHost
<1>8. CASE ListTools(w)
  BY <1>8 DEF HandlersTypeOK, ThreadsTypeOK, ListTools, listing
<1> QED
  BY <1>1, <1>2, <1>3, <1>4, <1>5, <1>6, <1>7, <1>8


LEMMA CallTypes ==
  ASSUME HandlersTypeOK, ThreadsTypeOK, NEW w \in Workers,
         \/ \E kind \in CallKinds, name \in Handlers \cup Virtuals \cup Tools : Call(w, kind, name)
         \/ Unready(w) \/ Find(w) \/ Absent(w) \/ Check(w) \/ NoMetadata(w) \/ Returned(w)
  PROVE  HandlersTypeOK' /\ ThreadsTypeOK'
<1>1. CASE \E kind \in CallKinds, name \in Handlers \cup Virtuals \cup Tools : Call(w, kind, name)
  <2>1. PICK kind \in CallKinds, name \in Handlers \cup Virtuals \cup Tools : Call(w, kind, name)
    BY <1>1
  <2>2. HandlersTypeOK' /\ Moves(w, "gate")
    BY <2>1 DEF HandlersTypeOK, Call, listing, tables, Replies
  <2>3. call' \in [Workers -> [kind : CallKinds \cup {"Register", None},
                               name : Handlers \cup Virtuals \cup Tools \cup {None}]]
    BY <2>1 DEF ThreadsTypeOK, Call
  <2>4. /\ pc' \in [Threads -> {"idle"} \cup RegisterSteps \cup CallSteps \cup Handlers]
        /\ pc'[w] = "gate" /\ pc'[Plugin] = pc[Plugin]
        /\ \A v \in Workers \ {w} : pc'[v] = pc[v]
    BY <2>2, WorkerMoves DEF CallSteps
  <2> QED
    BY <2>1, <2>2, <2>3, <2>4 DEF ThreadsTypeOK, Call, CallSteps
<1>2. CASE Unready(w)
  BY <1>2, AnswerTypes DEF Unready
<1>3. CASE Find(w)
  BY <1>3, StepTypes DEF Find, CallSteps
<1>4. CASE Absent(w)
  BY <1>4, AnswerTypes DEF Absent
<1>5. CASE Check(w)
  BY <1>5, AnswerTypes, StepTypes DEF Check, CallSteps
<1>6. CASE NoMetadata(w)
  BY <1>6, AnswerTypes DEF NoMetadata
<1>7. CASE Returned(w)
  BY <1>7, AnswerTypes DEF Returned
<1> QED
  BY <1>1, <1>2, <1>3, <1>4, <1>5, <1>6, <1>7

LEMMA HandlersTypes ==
  ASSUME HandlersTypeOK, ThreadsTypeOK, [HandlersNext]_handlersVars
  PROVE  HandlersTypeOK' /\ ThreadsTypeOK'
<1>1. CASE UNCHANGED handlersVars
  BY <1>1 DEF handlersVars, HandlersTypeOK, ThreadsTypeOK
<1>2. CASE HandlersNext
  BY <1>2, PluginTypes, RegisterTypes, CallTypes DEF HandlersNext
<1> QED
  BY <1>1, <1>2

-----------------------------------------------------------------------------
(* What was reported is found                                               *)

\* What a handler's own kind has of the names the host knows is in the table of the kind.
LEMMA ReportedIsFound ==
  ASSUME HandlersTypeOK, TablesHoldOwn, NEW kind \in CallKinds, NEW name \in Named(kind) \cap reported
  PROVE  name \in Found(kind)
BY NamesAssumption DEF HandlersTypeOK, TablesHoldOwn, CallKinds, Named, Found, Handlers

\* The tables and what was reported only grow, whatever the step.
TablesGrow ==
  /\ commands \subseteq commands' /\ filters \subseteq filters' /\ hooks \subseteq hooks'
  /\ copied \subseteq copied' /\ tools \subseteq tools' /\ reported \subseteq reported'

LEMMA Growing ==
  ASSUME [HandlersNext]_handlersVars
  PROVE  TablesGrow
<1> USE DEF TablesGrow, listing, tables
<1>1. CASE UNCHANGED handlersVars
  BY <1>1 DEF handlersVars
<1>2. CASE RegisterCommand \/ RegisterFilter \/ RegisterHook
  BY <1>2 DEF RegisterCommand, RegisterFilter, RegisterHook, Decorate
<1>3. CASE (\E t \in Tools : AddTool(t)) \/ Enlist \/ Sorted \/ Imported \/ Instantiated
  BY <1>3 DEF AddTool, Enlist, Sorted, Imported, Instantiated
<1>4. ASSUME NEW w \in Workers,
             \/ BeginRegister(w) \/ BuildRegistry(w) \/ AskHost(w) \/ ReplaceList(w) \/ SortList(w)
             \/ SortFails(w) \/ ReplaceMap(w) \/ TellHost(w) \/ ListTools(w)
      PROVE  TablesGrow
  BY <1>4 DEF BeginRegister, BuildRegistry, AskHost, ReplaceList, SortList, SortFails, ReplaceMap,
              TellHost, ListTools
<1>5. ASSUME NEW w \in Workers,
             \/ \E kind \in CallKinds, name \in Handlers \cup Virtuals \cup Tools : Call(w, kind, name)
             \/ Unready(w) \/ Find(w) \/ Absent(w) \/ Check(w) \/ NoMetadata(w) \/ Returned(w)
      PROVE  TablesGrow
  BY <1>5 DEF Call, Unready, Find, Absent, Check, NoMetadata, Returned, Leave
<1> QED
  BY <1>1, <1>2, <1>3, <1>4, <1>5 DEF HandlersNext

\* Own has none of another plugin's, and only Register and ListTools tell the host, of
\* what is in the tables.
LEMMA TablesStep ==
  ASSUME HandlersTypeOK, TablesHoldOwn, [HandlersNext]_handlersVars
  PROVE  TablesHoldOwn'
<1> USE DEF TablesHoldOwn, listing, tables
<1>1. CASE UNCHANGED handlersVars
  BY <1>1 DEF handlersVars
<1>2. CASE RegisterCommand \/ RegisterFilter \/ RegisterHook
  BY <1>2 DEF RegisterCommand, RegisterFilter, RegisterHook, Decorate
<1>3. CASE (\E t \in Tools : AddTool(t)) \/ Enlist \/ Sorted \/ Imported \/ Instantiated
  BY <1>3 DEF AddTool, Enlist, Sorted, Imported, Instantiated
<1>4. ASSUME NEW w \in Workers,
             \/ BeginRegister(w) \/ AskHost(w) \/ ReplaceList(w) \/ SortList(w)
             \/ SortFails(w) \/ ReplaceMap(w) \/ TellHost(w) \/ ListTools(w)
      PROVE  TablesHoldOwn'
  BY <1>4 DEF BeginRegister, AskHost, ReplaceList, SortList, SortFails, ReplaceMap, TellHost, ListTools
<1>5. ASSUME NEW w \in Workers, BuildRegistry(w)
      PROVE  TablesHoldOwn'
  BY <1>5 DEF BuildRegistry, Own
<1>6. ASSUME NEW w \in Workers,
             \/ \E kind \in CallKinds, name \in Handlers \cup Virtuals \cup Tools : Call(w, kind, name)
             \/ Unready(w) \/ Find(w) \/ Absent(w) \/ Check(w) \/ NoMetadata(w) \/ Returned(w)
      PROVE  TablesHoldOwn'
  BY <1>6 DEF Call, Unready, Find, Absent, Check, NoMetadata, Returned, Leave
<1> QED
  BY <1>1, <1>2, <1>3, <1>4, <1>5, <1>6 DEF HandlersNext


\* A step that leaves a thread and its request alone.
LEMMA OthersFit ==
  ASSUME TablesGrow, NEW v \in Workers, RequestFits(v), pc'[v] = pc[v], call'[v] = call[v]
  PROVE  RequestFits(v)'
<1>1. CASE pc[v] \in CallSteps
  <2>1. /\ call[v].kind \in CallKinds
        /\ call[v].name \in Named(call[v].kind) \cap reported
        /\ ~Registering(v)
    BY <1>1 DEF RequestFits, Registering, RegisterSteps, CallSteps
  <2>2. Found(call[v].kind) \subseteq Found(call[v].kind)'
    BY <2>1 DEF TablesGrow, Found, CallKinds
  <2>3. Named(call[v].kind)' = Named(call[v].kind)
    BY <2>1 DEF Named, CallKinds
  <2> QED
    BY <2>1, <2>2, <2>3 DEF TablesGrow, RequestFits, Registering
<1>2. CASE pc[v] \notin CallSteps
  BY <1>2 DEF RequestFits, Registering, CallSteps
<1> QED
  BY <1>1, <1>2

\* A step of thread w that leaves the others' requests alone.
LEMMA OneFits ==
  ASSUME ThreadsTypeOK, TablesGrow, RequestsFit, NEW w \in Workers,
         NEW s \in {"idle"} \cup RegisterSteps \cup CallSteps, Moves(w, s),
         \A v \in Workers \ {w} : call'[v] = call[v],
         pc'[w] = s => RequestFits(w)'
  PROVE  RequestsFit'
<1>1. pc'[w] = s /\ \A v \in Workers \ {w} : pc'[v] = pc[v]
  BY WorkerMoves
<1>2. ASSUME NEW v \in Workers \ {w} PROVE RequestFits(v)'
  BY <1>1, <1>2, OthersFit DEF RequestsFit
<1> QED
  BY <1>1, <1>2 DEF RequestsFit

\* An idle thread has no request to fit.
LEMMA IdleFits ==
  ASSUME ThreadsTypeOK, TablesGrow, RequestsFit, NEW w \in Workers,
         Moves(w, "idle"), call' = [call EXCEPT ![w] = NoCall]
  PROVE  RequestsFit'
<1>1. \A v \in Workers \ {w} : call'[v] = call[v]
  BY DEF ThreadsTypeOK
<1>2. call'[w] = NoCall
  BY DEF ThreadsTypeOK
<1>3. ASSUME pc'[w] = "idle" PROVE RequestFits(w)'
  BY <1>2, <1>3 DEF RequestFits, Registering, RegisterSteps, CallSteps, NoCall, None
<1> QED
  BY <1>1, <1>3, OneFits

\* Register's steps go from one to the next.
LEMMA RegisterFits ==
  ASSUME ThreadsTypeOK, TablesGrow, RequestsFit, NEW w \in Workers, Registering(w),
         NEW s \in RegisterSteps, Moves(w, s), call' = call
  PROVE  RequestsFit'
<1>1. ASSUME pc'[w] = s PROVE RequestFits(w)'
  BY <1>1 DEF RequestsFit, RequestFits, Registering, RegisterSteps, CallSteps
<1> QED
  BY <1>1, OneFits

LEMMA RequestsStep ==
  ASSUME HandlersTypeOK, ThreadsTypeOK, TablesHoldOwn, RequestsFit, [HandlersNext]_handlersVars
  PROVE  RequestsFit'
<1>0. TablesGrow
  BY Growing
<1>a. ASSUME pc' = pc \/ (\E s \in {"idle", "sorting"} \cup Handlers : Moves(Plugin, s)), call' = call
      PROVE  RequestsFit'
  <2>1. \A w \in Workers : pc'[w] = pc[w]
    BY <1>a, PluginMoves
  <2> QED
    BY <1>0, <1>a, <2>1, OthersFit DEF RequestsFit
<1>1. CASE UNCHANGED handlersVars
  BY <1>1, <1>a DEF handlersVars
<1>2. CASE RegisterCommand \/ RegisterFilter \/ RegisterHook
  BY <1>2, <1>a DEF RegisterCommand, RegisterFilter, RegisterHook, Decorate, Handlers
<1>3. CASE (\E t \in Tools : AddTool(t)) \/ Enlist \/ Sorted \/ Imported \/ Instantiated
  BY <1>3, <1>a DEF AddTool, Enlist, Sorted, Imported, Instantiated
<1>4. ASSUME NEW w \in Workers, BeginRegister(w) PROVE RequestsFit'
  <2>1. call'[w].kind = "Register" /\ (\A v \in Workers \ {w} : call'[v] = call[v]) /\ Moves(w, "waiting")
    BY <1>4 DEF BeginRegister, ThreadsTypeOK
  <2>2. ASSUME pc'[w] = "waiting" PROVE RequestFits(w)'
    BY <2>1, <2>2 DEF RequestFits, Registering, RegisterSteps, CallSteps
  <2> QED
    BY <1>0, <2>1, <2>2, OneFits DEF RegisterSteps
<1>5. ASSUME NEW w \in Workers, BuildRegistry(w) \/ AskHost(w) \/ ReplaceList(w) \/ SortList(w) \/ ReplaceMap(w)
      PROVE  RequestsFit'
  <2>1. Registering(w)
    BY <1>5 DEF Registering, RegisterSteps, BuildRegistry, AskHost, ReplaceList, SortList, ReplaceMap
  <2>2. CASE call' = call
    <3>1. PICK s \in RegisterSteps : Moves(w, s)
      <4>1. CASE BuildRegistry(w) /\ ~Moves(w, "asking")
        <5>1. call'[w] = NoCall
          BY <4>1 DEF BuildRegistry, ThreadsTypeOK
        <5> QED
          BY <2>1, <2>2, <5>1 DEF RequestsFit, RequestFits, NoCall, None
      <4> QED
        BY <1>5, <4>1 DEF RegisterSteps, AskHost, ReplaceList, SortList, ReplaceMap
    <3> QED
      BY <1>0, <2>1, <2>2, <3>1, RegisterFits
  <2>3. CASE Moves(w, "idle") /\ call' = [call EXCEPT ![w] = NoCall]
    BY <1>0, <2>3, IdleFits
  <2> QED
    BY <1>5, <2>2, <2>3 DEF BuildRegistry, AskHost, ReplaceList, SortList, ReplaceMap
<1>6. ASSUME NEW w \in Workers, SortFails(w) \/ TellHost(w) PROVE RequestsFit'
  BY <1>0, <1>6, IdleFits DEF SortFails, TellHost
<1>7. ASSUME NEW w \in Workers, ListTools(w) PROVE RequestsFit'
  BY <1>7, <1>a DEF ListTools
<1>8. ASSUME NEW w \in Workers, NEW kind \in CallKinds, NEW name \in Handlers \cup Virtuals \cup Tools,
             Call(w, kind, name)
      PROVE  RequestsFit'
  <2>1. /\ call'[w] = [kind |-> kind, name |-> name] /\ Moves(w, "gate")
        /\ \A v \in Workers \ {w} : call'[v] = call[v]
    BY <1>8 DEF Call, ThreadsTypeOK
  <2>2. name \in Named(kind) \cap reported'
    BY <1>0, <1>8 DEF Call, TablesGrow
  <2>3. ASSUME pc'[w] = "gate" PROVE RequestFits(w)'
    BY <2>1, <2>2, <2>3 DEF RequestFits, Registering, RegisterSteps, CallSteps, CallKinds, Named
  <2> QED
    BY <1>0, <2>1, <2>3, OneFits DEF CallSteps
<1>9. ASSUME NEW w \in Workers, NEW how \in Replies, Answer(w, how) PROVE RequestsFit'
  BY <1>0, <1>9, IdleFits DEF Answer
<1>10. ASSUME NEW w \in Workers, Find(w) PROVE RequestsFit'
  <2>1. /\ pc[w] = "gate" /\ call' = call /\ call[w].name \in Found(call[w].kind)
        /\ Moves(w, IF call[w].kind = "Filter" THEN "checking" ELSE "running")
    BY <1>10 DEF Find
  <2>2. PICK s \in {"checking", "running"} : /\ Moves(w, s)
                                             /\ s = "checking" => call[w].kind = "Filter"
    BY <2>1
  <2>3. ASSUME pc'[w] = s PROVE RequestFits(w)'
    BY <1>0, <2>1, <2>2, <2>3 DEF RequestsFit, RequestFits, Registering, RegisterSteps, CallSteps,
                                  CallKinds, TablesGrow, Found, Named
  <2> QED
    BY <1>0, <2>1, <2>2, <2>3, OneFits DEF CallSteps
<1>11. ASSUME NEW w \in Workers, Check(w), Moves(w, "running"), UNCHANGED <<call, reply>> PROVE RequestsFit'
  <2>1. ASSUME pc'[w] = "running" PROVE RequestFits(w)'
    BY <1>0, <1>11, <2>1 DEF Check, RequestsFit, RequestFits, Registering, RegisterSteps, CallSteps,
                             CallKinds, TablesGrow, Found, Named
  <2> QED
    BY <1>0, <1>11, <2>1, OneFits DEF CallSteps
<1>12. ASSUME NEW w \in Workers,
              Unready(w) \/ Absent(w) \/ Check(w) \/ NoMetadata(w) \/ Returned(w)
       PROVE  RequestsFit'
  BY <1>9, <1>11, <1>12 DEF Unready, Absent, Check, NoMetadata, Returned, Replies
<1> QED
  BY <1>1, <1>2, <1>3, <1>4, <1>5, <1>6, <1>7, <1>8, <1>10, <1>12 DEF HandlersNext


\* No call comes for what is not there, whatever the regime.
LEMMA NeverAbsent ==
  ASSUME HandlersTypeOK, TablesHoldOwn, RequestsFit, reply # "absent", [HandlersNext]_handlersVars
  PROVE  reply' # "absent"
<1>1. ASSUME NEW w \in Workers PROVE ~Absent(w)
  <2>1. ASSUME pc[w] = "gate" PROVE call[w].name \in Found(call[w].kind)
    BY <2>1, ReportedIsFound DEF RequestsFit, RequestFits, CallSteps
  <2> QED
    BY <2>1 DEF Absent
<1>2. CASE UNCHANGED handlersVars
  BY <1>2 DEF handlersVars
<1>3. CASE RegisterCommand \/ RegisterFilter \/ RegisterHook
  BY <1>3 DEF RegisterCommand, RegisterFilter, RegisterHook, Decorate
<1>4. CASE (\E t \in Tools : AddTool(t)) \/ Enlist \/ Sorted \/ Imported \/ Instantiated
  BY <1>4 DEF AddTool, Enlist, Sorted, Imported, Instantiated
<1>5. ASSUME NEW w \in Workers,
             \/ BeginRegister(w) \/ BuildRegistry(w) \/ AskHost(w) \/ ReplaceList(w) \/ SortList(w)
             \/ SortFails(w) \/ ReplaceMap(w) \/ TellHost(w) \/ ListTools(w)
      PROVE  reply' # "absent"
  BY <1>5 DEF BeginRegister, BuildRegistry, AskHost, ReplaceList, SortList, SortFails, ReplaceMap,
              TellHost, ListTools, None
<1>6. ASSUME NEW w \in Workers,
             \/ \E kind \in CallKinds, name \in Handlers \cup Virtuals \cup Tools : Call(w, kind, name)
             \/ Unready(w) \/ Find(w) \/ Check(w) \/ NoMetadata(w) \/ Returned(w)
      PROVE  reply' # "absent"
  BY <1>6 DEF Call, Unready, Find, Check, NoMetadata, Returned, Answer, None
<1> QED
  BY <1>1, <1>2, <1>3, <1>4, <1>5, <1>6 DEF HandlersNext

-----------------------------------------------------------------------------
(* The registry of an orderly plugin                                        *)

\* A step that is not one of Register's nor of the plugin's own registration.
Elsewhere ==
  /\ UNCHANGED <<stage, listing, sorting, keep, filters, regime>>
  /\ pc'[Plugin] = pc[Plugin]
  /\ \A w \in Workers :
       \/ pc'[w] = pc[w]
       \/ pc[w] \notin RegisterSteps /\ pc'[w] \notin RegisterSteps

LEMMA ElsewhereOrderly ==
  ASSUME OrderlyCalls, ThreadsTypeOK, ThreadsTypeOK', Elsewhere
  PROVE  OrderlyCalls'
<1> USE DEF Elsewhere, listing
<1>1. \A w \in Workers : Registering(w)' <=> Registering(w)
  BY DEF Registering
<1>2. \A w \in Workers : Registering(w) => pc'[w] = pc[w]
  BY DEF Registering
<1>3. RegisterOnce'
  BY <1>1, <1>2 DEF OrderlyCalls, RegisterOnce
<1>4. \A w \in Workers, s \in {"replacing", "sorting", "mapping"} : pc'[w] = s <=> pc[w] = s
  BY DEF RegisterSteps
<1>5. \A t \in Threads : pc'[t] = "sorting" <=> pc[t] = "sorting"
  BY <1>4 DEF Threads
<1>6. ListIsTheMap'
  BY <1>4, <1>5 DEF OrderlyCalls, ListIsTheMap
<1> QED
  BY <1>3, <1>6 DEF OrderlyCalls

\* While the plugin imports nobody else touches the registry.
LEMMA ImportingAlone ==
  ASSUME OrderlyCalls, stage = "importing"
  PROVE  \A w \in Workers : pc[w] \notin {"asking", "replacing", "sorting", "mapping", "telling"}
BY DEF OrderlyCalls, RegisterOnce, Registering, RegisterSteps

\* When one Register is under way there is no other, and the plugin rests.
LEMMA RegisteringAlone ==
  ASSUME OrderlyCalls, ThreadsTypeOK, NEW w \in Workers, pc[w] \in RegisterSteps, stage # "importing"
  PROVE  /\ pc[Plugin] = "idle" /\ sorting[Plugin] = NoSort
         /\ \A v \in Workers \ {w} : pc[v] \notin RegisterSteps /\ sorting[v] = NoSort
         /\ pc[w] \notin {"sorting", "mapping"} => listed = mapped
BY DEF OrderlyCalls, RegisterOnce, ListIsTheMap, Registering, RegisterSteps, Threads

\* The plugin's own registration.
LEMMA PluginOrderly ==
  ASSUME HandlersTypeOK, ThreadsTypeOK, OrderlyCalls, regime = "orderly",
         \/ RegisterCommand \/ RegisterFilter \/ RegisterHook \/ (\E t \in Tools : AddTool(t))
         \/ Enlist \/ Sorted \/ Imported \/ Instantiated
  PROVE  OrderlyCalls'
<1> USE DEF OrderlyCalls, listing, tables
<1>0. ASSUME NEW s \in {"idle", "sorting"} \cup Handlers, Moves(Plugin, s), stage = "importing", stage' = stage
      PROVE  RegisterOnce' /\ pc'[Plugin] = s /\ \A w \in Workers : pc'[w] = pc[w]
  BY <1>0, PluginMoves DEF RegisterOnce, Registering
<1>1. ASSUME NEW h \in Handlers, Decorate(h) PROVE OrderlyCalls'
  <2>1. /\ stage = "importing" /\ pc[Plugin] = "idle" /\ mapped' = mapped \cup {h} /\ Moves(Plugin, h)
        /\ UNCHANGED <<stage, listed, filters, sorting, keep>>
    BY <1>1 DEF Decorate
  <2>2. listed = mapped /\ h # "sorting" /\ h # "idle"
    BY <2>1, ImportingAlone, NamesAssumption DEF ListIsTheMap
  <2>3. RegisterOnce' /\ pc'[Plugin] = h /\ \A w \in Workers : pc'[w] = pc[w]
    BY <1>0, <2>1
  <2>4. ListIsTheMap'
    BY <2>1, <2>2, <2>3, ImportingAlone DEF ListIsTheMap, Threads
  <2> QED
    BY <2>1, <2>3, <2>4
<1>2. CASE RegisterCommand \/ RegisterFilter \/ RegisterHook
  BY <1>1, <1>2 DEF RegisterCommand, RegisterFilter, RegisterHook, Handlers
<1>3. CASE \E t \in Tools : AddTool(t)
  BY <1>3, ElsewhereOrderly, HandlersTypes DEF AddTool, Elsewhere, HandlersNext
<1>4. CASE Enlist
  <2>1. /\ pc[Plugin] \in Handlers /\ listed' = {} /\ Moves(Plugin, "sorting")
        /\ sorting' = [sorting EXCEPT ![Plugin] = [live |-> TRUE, taken |-> listed \cup {pc[Plugin]}]]
        /\ UNCHANGED <<stage, mapped, filters, keep>>
    BY <1>4 DEF Enlist
  <2>2. stage = "importing" /\ mapped = listed \cup {pc[Plugin]}
    BY <2>1, NamesAssumption DEF RegisterOnce, ListIsTheMap
  <2>3. RegisterOnce' /\ pc'[Plugin] = "sorting" /\ \A w \in Workers : pc'[w] = pc[w]
    BY <1>0, <2>1, <2>2
  <2>4. /\ sorting'[Plugin] = [live |-> TRUE, taken |-> mapped]
        /\ \A t \in Workers : sorting'[t] = sorting[t]
    BY <2>1, <2>2, ThreadsAssumption DEF ThreadsTypeOK, Threads
  <2>5. ListIsTheMap'
    BY <2>1, <2>2, <2>3, <2>4, ImportingAlone, NamesAssumption DEF ListIsTheMap, Threads
  <2> QED
    BY <2>1, <2>3, <2>5
<1>5. CASE Sorted
  <2>1. /\ pc[Plugin] = "sorting" /\ EndSort(Plugin) /\ Moves(Plugin, "idle")
        /\ UNCHANGED <<stage, mapped, filters, keep>>
    BY <1>5 DEF Sorted
  <2>2. stage = "importing" /\ listed' = mapped
    BY <2>1 DEF RegisterOnce, ListIsTheMap, EndSort
  <2>3. RegisterOnce' /\ pc'[Plugin] = "idle" /\ \A w \in Workers : pc'[w] = pc[w]
    BY <1>0, <2>1, <2>2
  <2>4. sorting'[Plugin] = NoSort /\ \A w \in Workers : sorting'[w] = sorting[w]
    BY <2>1, SortEnds, ThreadsAssumption DEF HandlersTypeOK, Threads
  <2>5. ListIsTheMap'
    BY <2>1, <2>2, <2>3, <2>4, ImportingAlone, NamesAssumption DEF ListIsTheMap, Threads
  <2> QED
    BY <2>1, <2>3, <2>5
<1>6. CASE Imported \/ Instantiated
  <2>1. RegisterOnce'
    BY <1>6 DEF Imported, Instantiated, RegisterOnce, Registering
  <2>2. ListIsTheMap'
    BY <1>6 DEF Imported, Instantiated, ListIsTheMap
  <2> QED
    BY <1>6, <2>1, <2>2 DEF Imported, Instantiated
<1> QED
  BY <1>2, <1>3, <1>4, <1>5, <1>6


\* What of the registry the step s of thread w leaves, when it is the only one that
\* registers.
LEMMA AloneOnce ==
  ASSUME ThreadsTypeOK, OrderlyCalls, NEW w \in Workers, pc[w] \in RegisterSteps, stage # "importing",
         stage' # "importing", NEW s \in {"idle"} \cup RegisterSteps, Moves(w, s)
  PROVE  /\ RegisterOnce' /\ pc'[w] = s /\ pc'[Plugin] = "idle"
         /\ \A v \in Workers \ {w} : pc'[v] \notin RegisterSteps
<1>1. /\ pc'[w] = s /\ pc'[Plugin] = "idle"
      /\ \A v \in Workers \ {w} : pc'[v] \notin RegisterSteps
  BY WorkerMoves, RegisteringAlone
<1> QED
  BY <1>1 DEF RegisterOnce, Registering

\* Then the list is the map if the thread's own step says so.
LEMMA AloneListed ==
  ASSUME NEW w \in Workers, pc'[Plugin] = "idle",
         \A v \in Workers \ {w} : pc'[v] \notin RegisterSteps /\ sorting'[v] = NoSort,
         sorting'[Plugin] = NoSort,
         pc'[w] \notin {"sorting", "mapping"} => listed' = mapped',
         pc'[w] # "sorting" => sorting'[w] = NoSort,
         pc'[w] = "replacing" => keep'[w] = listed' \ Virtuals,
         pc'[w] = "sorting" => /\ listed' = {}
                               /\ sorting'[w] = [live |-> TRUE, taken |-> mapped' \cup Virtuals],
         pc'[w] = "mapping" => listed' = mapped' \cup Virtuals
  PROVE  ListIsTheMap'
BY NamesAssumption DEF ListIsTheMap, Threads, RegisterSteps

LEMMA RegisterOrderly ==
  ASSUME HandlersTypeOK, ThreadsTypeOK, RequestsFit, OrderlyCalls, regime = "orderly", NEW w \in Workers,
         \/ BeginRegister(w) \/ BuildRegistry(w) \/ AskHost(w) \/ ReplaceList(w) \/ SortList(w)
         \/ SortFails(w) \/ ReplaceMap(w) \/ TellHost(w) \/ ListTools(w)
  PROVE  OrderlyCalls'
<1> USE DEF listing, tables
<1>0. w \in Threads /\ Plugin \in Threads /\ w # Plugin
  BY ThreadsAssumption DEF Threads
<1>1. CASE BeginRegister(w)
  <2>1. /\ Moves(w, "waiting") /\ pc[w] = "idle"
        /\ UNCHANGED <<stage, mapped, listed, filters, sorting, keep>>
        /\ \A v \in Workers : ~Registering(v)
    BY <1>1 DEF BeginRegister, RequestsFit, RequestFits
  <2>2. /\ pc'[w] = "waiting" /\ pc'[Plugin] = pc[Plugin]
        /\ \A v \in Workers \ {w} : pc'[v] = pc[v]
    BY <2>1, WorkerMoves DEF RegisterSteps
  <2>3. RegisterOnce'
    BY <2>1, <2>2 DEF OrderlyCalls, RegisterOnce, Registering
  <2>4. ListIsTheMap'
    BY <2>1, <2>2 DEF OrderlyCalls, ListIsTheMap, Threads
  <2> QED
    BY <2>1, <2>3, <2>4 DEF OrderlyCalls
<1>2. CASE BuildRegistry(w)
  <2>1. /\ pc[w] = "waiting" /\ stage # "importing" /\ stage' = stage
        /\ UNCHANGED <<mapped, listed, sorting, keep>> /\ filters' = filters \cup (Own \cap Filters)
        /\ pc[w] \in RegisterSteps
    BY <1>2 DEF BuildRegistry, RegisterSteps
  <2>2. PICK s \in {"asking", "idle"} : Moves(w, s)
    BY <1>2 DEF BuildRegistry
  <2>3. /\ RegisterOnce' /\ pc'[w] = s /\ pc'[Plugin] = "idle"
        /\ \A v \in Workers \ {w} : pc'[v] \notin RegisterSteps
    BY <2>1, <2>2, AloneOnce DEF RegisterSteps
  <2>4. /\ listed = mapped /\ sorting[Plugin] = NoSort /\ sorting[w] = NoSort
        /\ \A v \in Workers \ {w} : sorting[v] = NoSort
    BY <1>0, <2>1, RegisteringAlone DEF OrderlyCalls, ListIsTheMap
  <2>5. ListIsTheMap'
    BY <2>1, <2>3, <2>4, AloneListed
  <2> QED
    BY <2>1, <2>3, <2>4, <2>5 DEF OrderlyCalls, Own
<1>3. CASE AskHost(w)
  <2>1. /\ pc[w] = "asking" /\ stage' = stage /\ pc[w] \in RegisterSteps
        /\ UNCHANGED <<mapped, listed, sorting, filters>>
    BY <1>3 DEF AskHost, RegisterSteps
  <2>2. PICK s \in {"replacing", "telling"} :
          Moves(w, s) /\ (s = "replacing" => keep' = [keep EXCEPT ![w] = listed \ Virtuals])
    BY <1>3 DEF AskHost
  <2>3. stage # "importing"
    BY <2>1, ImportingAlone
  <2>4. /\ RegisterOnce' /\ pc'[w] = s /\ pc'[Plugin] = "idle"
        /\ \A v \in Workers \ {w} : pc'[v] \notin RegisterSteps
    BY <2>1, <2>2, <2>3, AloneOnce DEF RegisterSteps
  <2>5. /\ listed = mapped /\ sorting[Plugin] = NoSort /\ sorting[w] = NoSort
        /\ \A v \in Workers \ {w} : sorting[v] = NoSort
    BY <1>0, <2>1, <2>3, RegisteringAlone DEF OrderlyCalls, ListIsTheMap
  <2>6. s = "replacing" => keep'[w] = listed \ Virtuals
    BY <2>2 DEF ThreadsTypeOK
  <2>7. ListIsTheMap'
    BY <2>1, <2>2, <2>4, <2>5, <2>6, AloneListed
  <2> QED
    BY <2>1, <2>4, <2>7 DEF OrderlyCalls
<1>4. CASE ReplaceList(w)
  <2>1. /\ pc[w] = "replacing" /\ stage' = stage /\ pc[w] \in RegisterSteps /\ Moves(w, "sorting")
        /\ listed' = {} /\ UNCHANGED <<mapped, filters>>
        /\ sorting' = [t \in Threads |-> IF t = w THEN [live |-> TRUE, taken |-> keep[w] \cup Virtuals]
                                                  ELSE [live |-> FALSE, taken |-> sorting[t].taken]]
    BY <1>4 DEF ReplaceList, RegisterSteps
  <2>2. stage # "importing"
    BY <2>1, ImportingAlone
  <2>3. /\ RegisterOnce' /\ pc'[w] = "sorting" /\ pc'[Plugin] = "idle"
        /\ \A v \in Workers \ {w} : pc'[v] \notin RegisterSteps
    BY <2>1, <2>2, AloneOnce DEF RegisterSteps
  <2>4. /\ listed = mapped /\ sorting[Plugin] = NoSort /\ keep[w] = listed \ Virtuals
        /\ \A v \in Workers \ {w} : sorting[v] = NoSort
    BY <2>1, <2>2, RegisteringAlone DEF OrderlyCalls, ListIsTheMap
  <2>5. [live |-> FALSE, taken |-> NoSort.taken] = NoSort
    BY DEF NoSort
  <2>6. /\ sorting'[Plugin] = NoSort /\ \A v \in Workers \ {w} : sorting'[v] = NoSort
        /\ sorting'[w] = [live |-> TRUE, taken |-> keep[w] \cup Virtuals]
    BY <1>0, <2>1, <2>4, <2>5 DEF Threads
  <2>7. keep[w] \cup Virtuals = mapped' \cup Virtuals
    BY <2>1, <2>4
  <2>8. ListIsTheMap'
    BY <2>1, <2>3, <2>6, <2>7, AloneListed
  <2> QED
    BY <2>1, <2>3, <2>8 DEF OrderlyCalls
<1>5. CASE SortList(w)
  <2>1. /\ pc[w] = "sorting" /\ stage' = stage /\ pc[w] \in RegisterSteps /\ Moves(w, "mapping")
        /\ EndSort(w) /\ UNCHANGED <<mapped, filters>>
    BY <1>5 DEF SortList, RegisterSteps
  <2>2. stage # "importing"
    BY <2>1, ImportingAlone
  <2>3. /\ RegisterOnce' /\ pc'[w] = "mapping" /\ pc'[Plugin] = "idle"
        /\ \A v \in Workers \ {w} : pc'[v] \notin RegisterSteps
    BY <2>1, <2>2, AloneOnce DEF RegisterSteps
  <2>4. /\ sorting[w] = [live |-> TRUE, taken |-> mapped \cup Virtuals] /\ sorting[Plugin] = NoSort
        /\ \A v \in Workers \ {w} : sorting[v] = NoSort
    BY <2>1, <2>2, RegisteringAlone DEF OrderlyCalls, ListIsTheMap
  <2>5. /\ sorting'[w] = NoSort /\ sorting'[Plugin] = NoSort
        /\ \A v \in Workers \ {w} : sorting'[v] = NoSort
    BY <1>0, <2>1, <2>4, SortEnds DEF HandlersTypeOK, Threads
  <2>6. listed' = mapped' \cup Virtuals
    BY <2>1, <2>4 DEF EndSort
  <2>7. ListIsTheMap'
    BY <2>3, <2>5, <2>6, AloneListed
  <2> QED
    BY <2>1, <2>3, <2>7 DEF OrderlyCalls
<1>6. ~SortFails(w)
  <2>1. ASSUME SortFails(w) PROVE FALSE
    <3>1. pc[w] = "sorting" /\ pc[w] \in RegisterSteps /\ stage # "importing" /\ listed = {}
      BY <2>1, ImportingAlone DEF SortFails, RegisterSteps, OrderlyCalls, ListIsTheMap
    <3>2. \A t \in Threads \ {w} : sorting[t] = NoSort
      BY <3>1, RegisteringAlone DEF Threads
    <3> QED
      BY <2>1, <3>1, <3>2 DEF SortFails, NoSort
  <2> QED
    BY <2>1
<1>7. CASE ReplaceMap(w)
  <2>1. /\ pc[w] = "mapping" /\ stage' = stage /\ pc[w] \in RegisterSteps /\ Moves(w, "telling")
        /\ mapped' = listed /\ UNCHANGED <<listed, filters, sorting>>
    BY <1>7 DEF ReplaceMap, RegisterSteps
  <2>2. stage # "importing"
    BY <2>1, ImportingAlone
  <2>3. /\ RegisterOnce' /\ pc'[w] = "telling" /\ pc'[Plugin] = "idle"
        /\ \A v \in Workers \ {w} : pc'[v] \notin RegisterSteps
    BY <2>1, <2>2, AloneOnce DEF RegisterSteps
  <2>4. /\ listed = mapped \cup Virtuals /\ sorting[Plugin] = NoSort /\ sorting[w] = NoSort
        /\ \A v \in Workers \ {w} : sorting[v] = NoSort
    BY <1>0, <2>1, <2>2, RegisteringAlone DEF OrderlyCalls, ListIsTheMap
  <2>5. ListIsTheMap'
    BY <2>1, <2>3, <2>4, AloneListed
  <2> QED
    BY <2>1, <2>3, <2>4, <2>5 DEF OrderlyCalls
<1>8. CASE TellHost(w)
  <2>1. /\ pc[w] = "telling" /\ pc[w] \in RegisterSteps /\ Moves(w, "idle")
        /\ UNCHANGED <<mapped, listed, filters, sorting>>
    BY <1>8 DEF TellHost, RegisterSteps
  <2>2. stage # "importing"
    BY <2>1, ImportingAlone
  <2>3. stage' # "importing"
    BY <1>8, <2>2 DEF TellHost, HandlersTypeOK
  <2>4. /\ RegisterOnce' /\ pc'[w] = "idle" /\ pc'[Plugin] = "idle"
        /\ \A v \in Workers \ {w} : pc'[v] \notin RegisterSteps
    BY <2>1, <2>2, <2>3, AloneOnce
  <2>5. /\ listed = mapped /\ sorting[Plugin] = NoSort /\ sorting[w] = NoSort
        /\ \A v \in Workers \ {w} : sorting[v] = NoSort
    BY <1>0, <2>1, <2>2, RegisteringAlone DEF OrderlyCalls, ListIsTheMap
  <2>6. ListIsTheMap'
    BY <2>1, <2>4, <2>5, AloneListed
  <2> QED
    BY <2>1, <2>4, <2>6 DEF OrderlyCalls
<1>9. CASE ListTools(w)
  BY <1>9, ElsewhereOrderly, RegisterTypes DEF ListTools, Elsewhere
<1> QED
  BY <1>1, <1>2, <1>3, <1>4, <1>5, <1>6, <1>7, <1>8, <1>9


\* A call looks at the registry only.
LEMMA CallOrderly ==
  ASSUME HandlersTypeOK, ThreadsTypeOK, OrderlyCalls, NEW w \in Workers,
         \/ \E kind \in CallKinds, name \in Handlers \cup Virtuals \cup Tools : Call(w, kind, name)
         \/ Unready(w) \/ Find(w) \/ Absent(w) \/ Check(w) \/ NoMetadata(w) \/ Returned(w)
  PROVE  OrderlyCalls'
<1>1. /\ UNCHANGED <<stage, listing, sorting, keep, filters, regime>>
      /\ pc[w] \notin RegisterSteps
      /\ \E s \in {"idle"} \cup CallSteps : Moves(w, s)
  BY DEF Call, Unready, Find, Absent, Check, NoMetadata, Returned, Answer, Leave, tables,
         RegisterSteps, CallSteps
<1>2. PICK s \in {"idle"} \cup CallSteps : Moves(w, s)
  BY <1>1
<1>3. /\ pc'[w] = s /\ pc'[Plugin] = pc[Plugin]
      /\ \A v \in Workers \ {w} : pc'[v] = pc[v]
  BY <1>2, WorkerMoves
<1>4. Elsewhere
  BY <1>1, <1>3 DEF Elsewhere, RegisterSteps, CallSteps
<1> QED
  BY <1>4, CallTypes, ElsewhereOrderly

LEMMA OrderlyStep ==
  ASSUME HandlersTypeOK, ThreadsTypeOK, RequestsFit, OrderlyCalls, regime = "orderly",
         [HandlersNext]_handlersVars
  PROVE  OrderlyCalls'
<1>1. CASE UNCHANGED handlersVars
  BY <1>1 DEF handlersVars, OrderlyCalls, RegisterOnce, ListIsTheMap, Registering
<1>2. CASE HandlersNext
  BY <1>2, PluginOrderly, RegisterOrderly, CallOrderly DEF HandlersNext
<1> QED
  BY <1>1, <1>2

\* A filter that is checked was found in the table, and what is there is in the map.
LEMMA NeverRefused ==
  ASSUME HandlersTypeOK, RequestsFit, filters \subseteq mapped, reply # "refused",
         [HandlersNext]_handlersVars
  PROVE  reply' # "refused"
<1>1. ASSUME NEW w \in Workers PROVE ~NoMetadata(w)
  <2>1. ASSUME pc[w] = "checking" PROVE call[w].name \in mapped
    BY <2>1 DEF RequestsFit, RequestFits, Found
  <2> QED
    BY <2>1 DEF NoMetadata
<1>2. CASE UNCHANGED handlersVars
  BY <1>2 DEF handlersVars
<1>3. CASE RegisterCommand \/ RegisterFilter \/ RegisterHook
  BY <1>3 DEF RegisterCommand, RegisterFilter, RegisterHook, Decorate
<1>4. CASE (\E t \in Tools : AddTool(t)) \/ Enlist \/ Sorted \/ Imported \/ Instantiated
  BY <1>4 DEF AddTool, Enlist, Sorted, Imported, Instantiated
<1>5. ASSUME NEW w \in Workers,
             \/ BeginRegister(w) \/ BuildRegistry(w) \/ AskHost(w) \/ ReplaceList(w) \/ SortList(w)
             \/ SortFails(w) \/ ReplaceMap(w) \/ TellHost(w) \/ ListTools(w)
      PROVE  reply' # "refused"
  BY <1>5 DEF BeginRegister, BuildRegistry, AskHost, ReplaceList, SortList, SortFails, ReplaceMap,
              TellHost, ListTools, None
<1>6. ASSUME NEW w \in Workers,
             \/ \E kind \in CallKinds, name \in Handlers \cup Virtuals \cup Tools : Call(w, kind, name)
             \/ Unready(w) \/ Find(w) \/ Absent(w) \/ Check(w) \/ Returned(w)
      PROVE  reply' # "refused"
  BY <1>6 DEF Call, Unready, Find, Absent, Check, Returned, Answer, None
<1> QED
  BY <1>1, <1>2, <1>3, <1>4, <1>5, <1>6 DEF HandlersNext

LEMMA RegimeStays ==
  ASSUME [HandlersNext]_handlersVars
  PROVE  regime' = regime
<1>1. CASE RegisterCommand \/ RegisterFilter \/ RegisterHook \/ UNCHANGED handlersVars
  BY <1>1 DEF RegisterCommand, RegisterFilter, RegisterHook, Decorate, handlersVars
<1>2. CASE (\E t \in Tools : AddTool(t)) \/ Enlist \/ Sorted \/ Imported \/ Instantiated
  BY <1>2 DEF AddTool, Enlist, Sorted, Imported, Instantiated
<1>3. ASSUME NEW w \in Workers,
             \/ BeginRegister(w) \/ BuildRegistry(w) \/ AskHost(w) \/ ReplaceList(w) \/ SortList(w)
             \/ SortFails(w) \/ ReplaceMap(w) \/ TellHost(w) \/ ListTools(w)
      PROVE  regime' = regime
  BY <1>3 DEF BeginRegister, BuildRegistry, AskHost, ReplaceList, SortList, SortFails, ReplaceMap,
              TellHost, ListTools
<1>4. ASSUME NEW w \in Workers,
             \/ \E kind \in CallKinds, name \in Handlers \cup Virtuals \cup Tools : Call(w, kind, name)
             \/ Unready(w) \/ Find(w) \/ Absent(w) \/ Check(w) \/ NoMetadata(w) \/ Returned(w)
      PROVE  regime' = regime
  BY <1>4 DEF Call, Unready, Find, Absent, Check, NoMetadata, Returned, Leave
<1> QED
  BY <1>1, <1>2, <1>3, <1>4 DEF HandlersNext

\* The map only grows: ReplaceMap makes it from a list that has all of it.
LEMMA MapStep ==
  ASSUME OrderlyCalls, [HandlersNext]_handlersVars
  PROVE  mapped \subseteq mapped'
<1> USE DEF listing
<1>1. CASE RegisterCommand \/ RegisterFilter \/ RegisterHook \/ UNCHANGED handlersVars
  BY <1>1 DEF RegisterCommand, RegisterFilter, RegisterHook, Decorate, handlersVars
<1>2. CASE (\E t \in Tools : AddTool(t)) \/ Enlist \/ Sorted \/ Imported \/ Instantiated
  BY <1>2 DEF AddTool, Enlist, Sorted, Imported, Instantiated
<1>3. ASSUME NEW w \in Workers, ReplaceMap(w) PROVE mapped \subseteq mapped'
  BY <1>3 DEF ReplaceMap, OrderlyCalls, ListIsTheMap
<1>4. ASSUME NEW w \in Workers,
             \/ BeginRegister(w) \/ BuildRegistry(w) \/ AskHost(w) \/ ReplaceList(w) \/ SortList(w)
             \/ SortFails(w) \/ TellHost(w) \/ ListTools(w)
      PROVE  mapped \subseteq mapped'
  BY <1>4 DEF BeginRegister, BuildRegistry, AskHost, ReplaceList, SortList, SortFails, TellHost, ListTools
<1>5. ASSUME NEW w \in Workers,
             \/ \E kind \in CallKinds, name \in Handlers \cup Virtuals \cup Tools : Call(w, kind, name)
             \/ Unready(w) \/ Find(w) \/ Absent(w) \/ Check(w) \/ NoMetadata(w) \/ Returned(w)
      PROVE  mapped \subseteq mapped'
  BY <1>5 DEF Call, Unready, Find, Absent, Check, NoMetadata, Returned, Leave
<1> QED
  BY <1>1, <1>2, <1>3, <1>4, <1>5 DEF HandlersNext

-----------------------------------------------------------------------------
(* The theorems of HandlerCalls                                             *)

LEMMA HandlersInitInv ==
  ASSUME HandlersInit
  PROVE  HandlersInv
<1> USE DEF HandlersInit
<1>1. HandlersTypeOK
  BY DEF HandlersTypeOK, Replies
<1>2. ThreadsTypeOK
  BY DEF ThreadsTypeOK, Threads, NoSort, NoCall
<1>3. TablesHoldOwn /\ reply # "absent" /\ reply # "refused"
  BY DEF TablesHoldOwn, None
<1>4. \A w \in Workers : pc[w] = "idle" /\ call[w] = NoCall
  BY DEF Threads
<1>5. RequestsFit /\ \A w \in Workers : ~Registering(w)
  BY <1>4 DEF RequestsFit, RequestFits, Registering, RegisterSteps, CallSteps, NoCall, None
<1>6. pc[Plugin] = "idle"
  BY DEF Threads
<1>7. OrderlyCalls
  BY <1>4, <1>5, <1>6, NamesAssumption DEF OrderlyCalls, RegisterOnce, ListIsTheMap
<1> QED
  BY <1>1, <1>2, <1>3, <1>5, <1>7 DEF HandlersInv

LEMMA HandlersStepInv ==
  ASSUME HandlersInv, [HandlersNext]_handlersVars
  PROVE  HandlersInv'
<1> USE DEF HandlersInv
<1>1. HandlersTypeOK' /\ ThreadsTypeOK'
  BY HandlersTypes
<1>2. TablesHoldOwn' /\ RequestsFit' /\ reply' # "absent"
  BY TablesStep, RequestsStep, NeverAbsent
<1>3. ASSUME regime' = "orderly" PROVE OrderlyCalls' /\ reply' # "refused"
  <2>1. regime = "orderly" /\ filters \subseteq mapped
    BY <1>3, RegimeStays DEF OrderlyCalls
  <2> QED
    BY <2>1, OrderlyStep, NeverRefused
<1> QED
  BY <1>1, <1>2, <1>3

\* Every reachable state of the registry and the RPCs that use it, in whatever order a
\* plugin registers and a host asks (star_handler.py, dispatch.py).
THEOREM HandlersAlways == HandlersSpec => []HandlersInv
<1>1. HandlersInit => HandlersInv
  BY HandlersInitInv
<1>2. HandlersInv /\ [HandlersNext]_handlersVars => HandlersInv'
  BY HandlersStepInv
<1> QED
  BY <1>1, <1>2, PTL DEF HandlersSpec

\* A handler of an orderly plugin that the host was told of is found when its call comes,
\* and a handler of another plugin never runs here (dispatch.py).
THEOREM CallsSafe == HandlersSpec => []CallsReachTheirHandler
<1>1. ASSUME HandlersInv PROVE CallsReachTheirHandler
  <2>1. ReportedIsServed
    BY <1>1 DEF HandlersInv, ReportedIsServed
  <2>2. VirtualIsNotServed
    <3>1. SUFFICES ASSUME NEW w \in Workers, pc[w] = "running" PROVE call[w].name \notin Virtuals
      BY DEF VirtualIsNotServed
    <3>2. /\ call[w].kind \in CallKinds /\ call[w].name \in Found(call[w].kind)
      BY <1>1, <3>1 DEF HandlersInv, RequestsFit, RequestFits, CallSteps
    <3>3. Found(call[w].kind) \subseteq Handlers \cup Tools
      BY <1>1, <3>2 DEF HandlersInv, HandlersTypeOK, TablesHoldOwn, Found, CallKinds, Handlers
    <3> QED
      BY <3>2, <3>3, NamesAssumption
  <2> QED
    BY <2>1, <2>2 DEF CallsReachTheirHandler
<1> QED
  BY <1>1, HandlersAlways, PTL

\* Nothing that an orderly plugin registered leaves the map of its handlers, through
\* inject_host_commands' replacement of the whole registry too (star_handler.py).
THEOREM MapGrows == HandlersSpec => NothingIsLost
<1>1. ASSUME HandlersInv, [HandlersNext]_handlersVars
      PROVE  [regime = "orderly" => mapped \subseteq mapped']_handlersVars
  BY <1>1, MapStep DEF HandlersInv
<1> QED
  BY <1>1, HandlersAlways, PTL DEF HandlersSpec, NothingIsLost


-----------------------------------------------------------------------------
(* The inductive invariant of HandlerAnswers                                *)

AnswersTypeOK ==
  /\ rpc \in [Events -> [kind : Kinds, onebot : BOOLEAN, at : {"arriving", "running", "done"}]]
  /\ origin \in [Events -> Sessions]
  /\ forced \in [Events -> BOOLEAN] /\ marked \in [Events -> BOOLEAN]
  /\ delivered \in [Events -> BOOLEAN] /\ streamed \in [Events -> BOOLEAN]
  /\ result \in [Events -> Results \cup {NoResult}]
  /\ verdict \in [Events -> BOOLEAN] /\ request \in [Events -> BOOLEAN]
  /\ yielded \in [Events -> SUBSET Results]
  /\ active \in [Sessions -> SUBSET Events]
  /\ callbacks \subseteq Events /\ renamed \subseteq Events
  /\ answer \in [Events -> Answers]

Replying == {"command", "tool"}

\* A mark is that of a reply, of a streaming send or of an aiocqhttp event, which has it
\* for all that was delivered; and an answer is made at the end, of the mark the event has
\* then.
MarksAreTrue ==
  /\ \A e \in Events : marked[e] /\ ~streamed[e] /\ ~rpc[e].onebot => delivered[e]
  /\ \A e \in Events : delivered[e] /\ rpc[e].onebot => marked[e]
  /\ \A e \in Events : answer[e].sent => marked[e]
  /\ \A e \in Events :
       rpc[e].at = "done" /\ rpc[e].kind \in Replying /\ marked[e] => answer[e].sent
  /\ \A e \in Events : answer[e].how # "none" => rpc[e].at = "done"

\* An event is registered for the session it is in.
ActiveIsOwn ==
  \A e \in Events, s \in Sessions : e \in active[s] /\ e \notin renamed => s = origin[e]

AnswersInv ==
  /\ AnswersTypeOK
  /\ MarksAreTrue
  /\ ActiveIsOwn
  /\ StoppedIsTold
  /\ NothingStaysActive


\* The response of a handler that returned, of one that did not, and of one with nothing to
\* say.
LEMMA AnswersMade ==
  ASSUME AnswersTypeOK, NEW e \in Events, NEW a \in {Told(e), ToldFailed(e)}
  PROVE  /\ a \in Answers
         /\ a.sent => marked[e]
         /\ rpc[e].kind \in Replying /\ marked[e] => a.sent
         /\ rpc[e].kind = "command" /\ a.how = "ran" /\ forced[e] => a.stop
<1> USE DEF AnswersTypeOK, Replying
<1> DEFINE True(r) == /\ r \in Answers
                      /\ r.sent => marked[e]
                      /\ rpc[e].kind \in Replying /\ marked[e] => r.sent
                      /\ rpc[e].kind = "command" /\ r.how = "ran" /\ forced[e] => r.stop
<1>1. ASSUME NEW stop \in BOOLEAN, NEW allow \in BOOLEAN, NEW chain \in BOOLEAN,
             rpc[e].kind = "command" /\ forced[e] => stop
      PROVE  True(Ran(e, stop, allow, chain))
  BY <1>1 DEF Ran, Answers
<1>2. ASSUME rpc[e].kind \notin Replying PROVE True(Skipped)
  BY <1>2 DEF Skipped, Ended, Answers
<1>3. True(ToldFailed(e))
  <2>1. PICK b \in BOOLEAN : b = (marked[e] /\ rpc[e].kind \in {"command", "tool"})
    OBVIOUS
  <2>2. ToldFailed(e) = Ended("failed", b)
    BY <2>1, Zenon DEF ToldFailed
  <2>3. True(Ended("failed", b))
    BY <2>1 DEF Ended, Answers
  <2> QED
    BY <2>2, <2>3, Zenon
<1>4. PICK sy \in BOOLEAN, cy \in BOOLEAN, st \in BOOLEAN, rs \in BOOLEAN :
        sy = YieldsStop(e) /\ cy = YieldsChain(e) /\ st = IsStopped(e) /\ rs = (result[e].type = "STOP")
  BY DEF YieldsStop, YieldsChain, IsStopped
<1>5. /\ verdict[e] \in BOOLEAN /\ request[e] \in BOOLEAN /\ (sy \/ st) \in BOOLEAN
      /\ TRUE \in BOOLEAN /\ FALSE \in BOOLEAN
  OBVIOUS
<1>6. rpc[e].kind \in Kinds
  OBVIOUS
<1>7. forced[e] => sy \/ st
  BY <1>4 DEF IsStopped
<1> HIDE DEF True
<1>8. ASSUME rpc[e].kind # "command",
             NEW stop \in BOOLEAN, NEW allow \in BOOLEAN, NEW chain \in BOOLEAN,
             Told(e) = Ran(e, stop, allow, chain)
      PROVE  True(Told(e))
  BY <1>1, <1>8, Zenon
<1>9. ASSUME rpc[e].kind = "command" PROVE True(Told(e))
  <2>1. Told(e) = Ran(e, sy \/ st, TRUE, cy)
    BY <1>9, <1>4, Zenon DEF Told, CommandTold
  <2>2. True(Ran(e, sy \/ st, TRUE, cy))
    BY <1>1, <1>5, <1>7, Zenon
  <2> QED
    BY <2>1, <2>2, Zenon
<1>10. ASSUME rpc[e].kind = "filter" PROVE True(Told(e))
  <2>1. Told(e) = Ran(e, FALSE, verdict[e], FALSE) /\ rpc[e].kind # "command"
    BY <1>10 DEF Told, FilterTold
  <2> QED
    BY <1>5, <1>8, <2>1, Zenon
<1>11. ASSUME rpc[e].kind = "hook" PROVE True(Told(e))
  <2>1. Told(e) = Ran(e, sy, TRUE, FALSE)
    BY <1>11, <1>4, Zenon DEF Told, HookTold
  <2>2. rpc[e].kind # "command"
    BY <1>11
  <2> QED
    BY <1>5, <1>8, <2>1, <2>2, Zenon
<1>12. ASSUME rpc[e].kind = "decorating" PROVE True(Told(e))
  <2>1. (Told(e) = Ran(e, rs, TRUE, TRUE) \/ Told(e) = Skipped) /\ rpc[e].kind # "command"
    BY <1>12, <1>4 DEF Told, DecoratingTold
  <2>2. rpc[e].kind \notin Replying
    BY <1>12
  <2> QED
    BY <1>2, <1>5, <1>8, <2>1, <2>2, Zenon
<1>13. ASSUME rpc[e].kind = "llm" PROVE True(Told(e))
  <2>1. Told(e) = Ran(e, request[e], TRUE, FALSE) /\ rpc[e].kind # "command"
    BY <1>13 DEF Told, LLMTold
  <2> QED
    BY <1>5, <1>8, <2>1, Zenon
<1>14. ASSUME rpc[e].kind = "tool" PROVE True(Told(e))
  <2>1. Told(e) = Ran(e, FALSE, TRUE, cy)
    BY <1>14, <1>4, Zenon DEF Told, ToolTold
  <2>2. rpc[e].kind # "command"
    BY <1>14
  <2> QED
    BY <1>5, <1>8, <2>1, <2>2, Zenon
<1>15. ASSUME rpc[e].kind = "bridge" PROVE True(Told(e))
  <2>1. Told(e) = Skipped
    BY <1>15 DEF Told
  <2>2. rpc[e].kind \notin Replying
    BY <1>15
  <2> QED
    BY <1>2, <2>1, <2>2, Zenon
<1>16. True(Told(e))
  BY <1>6, <1>9, <1>10, <1>11, <1>12, <1>13, <1>14, <1>15 DEF Kinds
<1> QED
  BY <1>3, <1>16 DEF True


\* The steps of a handler that the registry and the answers do not see.
Acting(e) ==
  \/ Send(e) \/ SendStreaming(e) \/ SetResult(e) \/ ClearResult(e) \/ StopEvent(e)
  \/ ContinueEvent(e) \/ Yield(e) \/ StopAll(e)

LEMMA ActingTypes ==
  ASSUME AnswersTypeOK, NEW e \in Events, Acting(e)
  PROVE  AnswersTypeOK'
<1> USE DEF AnswersTypeOK, Act, event, handler, registry
<1>1. ASSUME NEW r \in Results \cup {NoResult}, NEW t \in {"CONTINUE", "STOP"} PROVE Typed(r, t) \in Results
  <2>1. r.chain \in BOOLEAN
    <3>1. ASSUME r \in Results PROVE r.chain \in BOOLEAN
      BY <3>1 DEF Results
    <3>2. ASSUME r = NoResult PROVE r.chain = FALSE
      BY <3>2 DEF NoResult
    <3> QED
      BY <1>1, <3>1, <3>2
  <2> QED
    BY <2>1 DEF Typed, Results
<1>2. CASE Send(e)
  BY <1>2 DEF Send
<1>3. CASE SendStreaming(e)
  BY <1>3 DEF SendStreaming
<1>4. CASE SetResult(e)
  BY <1>4 DEF SetResult
<1>5. CASE ClearResult(e)
  BY <1>5 DEF ClearResult
<1>6. ASSUME NEW S, StopEvents(S)
      PROVE  forced' \in [Events -> BOOLEAN] /\ result' \in [Events -> Results \cup {NoResult}]
  BY <1>1, <1>6 DEF StopEvents
<1>7. CASE StopEvent(e)
  BY <1>6, <1>7 DEF StopEvent
<1>8. CASE ContinueEvent(e)
  BY <1>1, <1>8 DEF ContinueEvent
<1>9. CASE Yield(e)
  <2>1. UNCHANGED <<rpc, event, registry, answer>>
    BY <1>9 DEF Yield
  <2>2. yielded' \in [Events -> SUBSET Results]
    BY <1>9 DEF Yield
  <2>3. verdict' \in [Events -> BOOLEAN] /\ request' \in [Events -> BOOLEAN]
    BY <1>9 DEF Yield
  <2> QED
    BY <2>1, <2>2, <2>3
<1>10. CASE StopAll(e)
  BY <1>6, <1>10 DEF StopAll
<1> QED
  BY <1>2, <1>3, <1>4, <1>5, <1>7, <1>8, <1>9, <1>10 DEF Acting

LEMMA ActingFrame ==
  ASSUME NEW e \in Events, Acting(e)
  PROVE  /\ rpc[e].at = "running"
         /\ UNCHANGED <<rpc, active, callbacks, origin, renamed, answer>>
BY DEF Acting, Send, SendStreaming, SetResult, ClearResult, StopEvent, ContinueEvent, Yield, StopAll,
       Act, Running, registry

LEMMA AnswersTypes ==
  ASSUME AnswersTypeOK, [AnswersNext]_hvars
  PROVE  AnswersTypeOK'
<1> USE DEF AnswersTypeOK, Act, event, handler, registry
<1>1. CASE UNCHANGED hvars
  BY <1>1 DEF hvars
<1>2. ASSUME NEW e \in Events, Receive(e) PROVE AnswersTypeOK'
  <2>1. rpc' \in [Events -> [kind : Kinds, onebot : BOOLEAN, at : {"arriving", "running", "done"}]]
    BY <1>2 DEF Receive, Goto
  <2>2. \A full \in BOOLEAN : [type |-> "CONTINUE", chain |-> full] \in Results
    BY DEF Results
  <2>3. result' \in [Events -> Results \cup {NoResult}]
    <3>1. CASE rpc[e].kind = "decorating"
      <4>1. PICK full \in BOOLEAN : result' = [result EXCEPT ![e] = [type |-> "CONTINUE", chain |-> full]]
        BY <1>2, <3>1 DEF Receive
      <4> QED
        BY <2>2, <4>1
    <3>2. CASE rpc[e].kind # "decorating"
      BY <1>2, <3>2 DEF Receive
    <3> QED
      BY <3>1, <3>2
  <2> QED
    BY <1>2, <2>1, <2>3 DEF Receive
<1>3. ASSUME NEW e \in Events, RegisterActive(e) \/ RegisterCallback(e) PROVE AnswersTypeOK'
  BY <1>3 DEF RegisterActive, RegisterCallback
<1>4. ASSUME NEW e \in Events, Forget(e)
      PROVE  active' \in [Sessions -> SUBSET Events] /\ callbacks' \subseteq Events
  BY <1>4 DEF Forget
<1>5. ASSUME NEW e \in Events, UnregisterActive(e) PROVE AnswersTypeOK'
  BY <1>4, <1>5 DEF UnregisterActive
<1>6. ASSUME NEW e \in Events, Rename(e) PROVE AnswersTypeOK'
  BY <1>6 DEF Rename
<1>7. ASSUME NEW e \in Events, NEW a \in {Told(e), ToldFailed(e)}, End(e, a), Forget(e),
             UNCHANGED <<origin, renamed>>
      PROVE  AnswersTypeOK'
  <2>1. rpc' \in [Events -> [kind : Kinds, onebot : BOOLEAN, at : {"arriving", "running", "done"}]]
    BY <1>7 DEF End, Goto
  <2>2. a \in Answers
    BY <1>7, AnswersMade
  <2>3. answer' \in [Events -> Answers]
    BY <1>7, <2>2 DEF End
  <2> QED
    BY <1>4, <1>7, <2>1, <2>3 DEF End
<1>8. ASSUME NEW e \in Events, Return(e) \/ Raise(e) PROVE AnswersTypeOK'
  BY <1>7, <1>8 DEF Return, Raise
<1> QED
  BY <1>1, <1>2, <1>3, <1>5, <1>6, <1>8, ActingTypes DEF AnswersNext, Acting

-----------------------------------------------------------------------------
(* Marks and answers                                                        *)

LEMMA MarksStep ==
  ASSUME AnswersTypeOK, MarksAreTrue, [AnswersNext]_hvars
  PROVE  MarksAreTrue'
<1> USE DEF AnswersTypeOK, Act, event, handler, registry
<1>0. ASSUME UNCHANGED <<marked, delivered, streamed, answer>>,
             \A d \in Events : /\ rpc'[d].kind = rpc[d].kind /\ rpc'[d].onebot = rpc[d].onebot
                              /\ (rpc'[d].at = "done") = (rpc[d].at = "done")
      PROVE  MarksAreTrue'
  <2>1. ASSUME NEW d \in Events
        PROVE  /\ marked'[d] /\ ~streamed'[d] /\ ~rpc'[d].onebot => delivered'[d]
               /\ delivered'[d] /\ rpc'[d].onebot => marked'[d]
               /\ answer'[d].sent => marked'[d]
               /\ rpc'[d].at = "done" /\ rpc'[d].kind \in Replying /\ marked'[d] => answer'[d].sent
               /\ answer'[d].how # "none" => rpc'[d].at = "done"
    BY <1>0 DEF MarksAreTrue
  <2> QED
    BY <2>1 DEF MarksAreTrue
<1>1. CASE UNCHANGED hvars
  BY <1>0, <1>1 DEF hvars
<1>2. ASSUME NEW e \in Events, Receive(e) PROVE MarksAreTrue'
  <2>1. /\ rpc[e].at = "arriving" /\ \A d \in Events \ {e} : rpc'[d] = rpc[d]
        /\ rpc'[e].kind = rpc[e].kind /\ rpc'[e].onebot = rpc[e].onebot /\ rpc'[e].at = "running"
    BY <1>2 DEF Receive, Goto
  <2>2. UNCHANGED <<marked, delivered, streamed, answer>>
    BY <1>2 DEF Receive
  <2> QED
    BY <1>0, <2>1, <2>2
<1>3. ASSUME NEW e \in Events, Send(e) PROVE MarksAreTrue'
  <2>1. PICK got \in BOOLEAN, ok \in BOOLEAN :
          /\ ok => got
          /\ delivered' = [delivered EXCEPT ![e] = @ \/ got]
          /\ marked' = [marked EXCEPT ![e] = @ \/ ok \/ rpc[e].onebot]
    BY <1>3 DEF Send
  <2>2. ASSUME NEW d \in Events
        PROVE  /\ d # e => marked'[d] = marked[d] /\ delivered'[d] = delivered[d]
               /\ d = e => (marked'[d] <=> marked[d] \/ ok \/ rpc[e].onebot) /\ (delivered'[d] <=> delivered[d] \/ got)
    BY <2>1
  <2>3. UNCHANGED <<rpc, streamed, answer>>
    BY <1>3 DEF Send
  <2>4. ASSUME NEW d \in Events, marked[d] PROVE marked'[d]
    BY <2>2, <2>4
  <2>5. ASSUME NEW d \in Events, marked'[d], ~streamed[d], ~rpc[d].onebot PROVE delivered'[d]
    BY <2>1, <2>2, <2>5 DEF MarksAreTrue
  <2>6. ASSUME NEW d \in Events, delivered'[d], rpc[d].onebot PROVE marked'[d]
    BY <2>1, <2>2, <2>6 DEF MarksAreTrue
  <2>7. rpc[e].at = "running" /\ \A d \in Events : d # e => marked'[d] = marked[d]
    BY <1>3, <2>2 DEF Send, Running
  <2> QED
    BY <2>3, <2>4, <2>5, <2>6, <2>7 DEF MarksAreTrue
<1>4. ASSUME NEW e \in Events, SendStreaming(e) PROVE MarksAreTrue'
  <2>1. /\ UNCHANGED <<rpc, delivered, answer>>
        /\ \A d \in Events : marked[d] => marked'[d]
        /\ streamed'[e] /\ rpc[e].at = "running"
        /\ \A d \in Events \ {e} : marked'[d] = marked[d] /\ streamed'[d] = streamed[d]
    BY <1>4 DEF SendStreaming, Running
  <2> QED
    BY <2>1 DEF MarksAreTrue
<1>5. ASSUME NEW e \in Events,
             \/ SetResult(e) \/ ClearResult(e) \/ StopEvent(e) \/ ContinueEvent(e) \/ Yield(e)
             \/ RegisterActive(e) \/ RegisterCallback(e) \/ UnregisterActive(e) \/ StopAll(e) \/ Rename(e)
      PROVE  MarksAreTrue'
  BY <1>0, <1>5 DEF SetResult, ClearResult, StopEvent, ContinueEvent, Yield, RegisterActive,
                    RegisterCallback, UnregisterActive, StopAll, Rename
<1>6. ASSUME NEW e \in Events, NEW a \in {Told(e), ToldFailed(e)}, End(e, a) PROVE MarksAreTrue'
  <2>1. /\ rpc'[e].at = "done" /\ answer'[e] = a
        /\ rpc'[e].kind = rpc[e].kind /\ rpc'[e].onebot = rpc[e].onebot
        /\ \A d \in Events \ {e} : rpc'[d] = rpc[d] /\ answer'[d] = answer[d]
        /\ UNCHANGED <<marked, delivered, streamed>>
    BY <1>6 DEF End, Goto
  <2>2. /\ a.sent => marked[e]
        /\ rpc[e].kind \in Replying /\ marked[e] => a.sent
    BY <1>6, AnswersMade
  <2>3. \A d \in Events : rpc'[d].kind = rpc[d].kind /\ rpc'[d].onebot = rpc[d].onebot
    BY <2>1
  <2>4. ASSUME NEW d \in Events
        PROVE  /\ answer'[d].sent => marked[d]
               /\ answer'[d].how # "none" => rpc'[d].at = "done"
               /\ rpc'[d].at = "done" /\ rpc[d].kind \in Replying /\ marked[d] => answer'[d].sent
    <3>1. CASE d = e
      BY <2>1, <2>2, <3>1
    <3>2. CASE d # e
      BY <2>1, <3>2 DEF MarksAreTrue
    <3> QED
      BY <3>1, <3>2
  <2> QED
    BY <2>1, <2>3, <2>4 DEF MarksAreTrue
<1> QED
  BY <1>1, <1>2, <1>3, <1>4, <1>5, <1>6 DEF AnswersNext, Return, Raise


-----------------------------------------------------------------------------
(* The registry and the stopped events                                      *)

\* What leaves the registry alone.
LEMMA RegistryFrame ==
  ASSUME ActiveIsOwn, NothingStaysActive, UNCHANGED <<active, callbacks, origin, renamed>>,
         \A e \in Events : rpc'[e].at = "done" => rpc[e].at = "done"
  PROVE  ActiveIsOwn' /\ NothingStaysActive'
BY DEF ActiveIsOwn, NothingStaysActive

\* What unregister leaves: nothing of an event that was not renamed.
LEMMA Forgotten ==
  ASSUME AnswersTypeOK, ActiveIsOwn, NEW e \in Events, Forget(e), origin' = origin, renamed \subseteq renamed'
  PROVE  /\ ActiveIsOwn'
         /\ \A d \in Events, s \in Sessions : d \in active'[s] => d \in active[s]
         /\ callbacks' = callbacks \ {e}
         /\ e \notin renamed' => \A s \in Sessions : e \notin active'[s]
<1>1. origin[e] \in Sessions
  BY DEF AnswersTypeOK
<1>2. /\ active'[origin[e]] = active[origin[e]] \ {e}
      /\ \A s \in Sessions \ {origin[e]} : active'[s] = active[s]
  BY <1>1 DEF AnswersTypeOK, Forget
<1>3. \A d \in Events, s \in Sessions : d \in active'[s] => d \in active[s]
  BY <1>1, <1>2
<1>4. e \notin renamed' => \A s \in Sessions : e \notin active'[s]
  BY <1>2, <1>3 DEF ActiveIsOwn
<1> QED
  BY <1>3, <1>4 DEF ActiveIsOwn, Forget

LEMMA RegistryStep ==
  ASSUME AnswersTypeOK, ActiveIsOwn, NothingStaysActive, [AnswersNext]_hvars
  PROVE  ActiveIsOwn' /\ NothingStaysActive'
<1> USE DEF event, handler, registry
<1>1. CASE UNCHANGED hvars
  BY <1>1, RegistryFrame DEF hvars
<1>2. ASSUME NEW e \in Events, Acting(e) PROVE ActiveIsOwn' /\ NothingStaysActive'
  BY <1>2, ActingFrame, RegistryFrame
<1>3. ASSUME NEW e \in Events, Receive(e) PROVE ActiveIsOwn' /\ NothingStaysActive'
  <2>1. /\ rpc'[e].at = "running" /\ \A d \in Events \ {e} : rpc'[d] = rpc[d]
        /\ UNCHANGED <<active, callbacks, origin, renamed>>
    BY <1>3 DEF Receive, Goto, AnswersTypeOK
  <2> QED
    BY <2>1, RegistryFrame
<1>4. ASSUME NEW e \in Events, RegisterActive(e) PROVE ActiveIsOwn' /\ NothingStaysActive'
  <2>1. /\ rpc[e].at = "running" /\ origin[e] \in Sessions
        /\ UNCHANGED <<rpc, callbacks, origin, renamed>>
        /\ active' = [active EXCEPT ![origin[e]] = @ \cup {e}]
    BY <1>4 DEF RegisterActive, Act, Running, AnswersTypeOK
  <2>2. /\ active'[origin[e]] = active[origin[e]] \cup {e}
        /\ \A s \in Sessions \ {origin[e]} : active'[s] = active[s]
    BY <2>1 DEF AnswersTypeOK
  <2> QED
    BY <2>1, <2>2 DEF ActiveIsOwn, NothingStaysActive
<1>5. ASSUME NEW e \in Events, RegisterCallback(e) PROVE ActiveIsOwn' /\ NothingStaysActive'
  BY <1>5 DEF RegisterCallback, Act, Running, ActiveIsOwn, NothingStaysActive
<1>6. ASSUME NEW e \in Events, UnregisterActive(e) PROVE ActiveIsOwn' /\ NothingStaysActive'
  <2>1. Forget(e) /\ UNCHANGED <<rpc, origin, renamed>>
    BY <1>6 DEF UnregisterActive, Act
  <2> QED
    BY <2>1, Forgotten DEF NothingStaysActive
<1>7. ASSUME NEW e \in Events, Rename(e) PROVE ActiveIsOwn' /\ NothingStaysActive'
  <2>1. /\ \A d \in Events \ {e} : origin'[d] = origin[d]
        /\ renamed' = renamed \cup {e} /\ UNCHANGED <<rpc, active, callbacks>>
    BY <1>7 DEF Rename, Act, AnswersTypeOK
  <2> QED
    BY <2>1 DEF ActiveIsOwn, NothingStaysActive
<1>8. ASSUME NEW e \in Events, Return(e) \/ Raise(e) PROVE ActiveIsOwn' /\ NothingStaysActive'
  <2>1. /\ Forget(e) /\ UNCHANGED <<origin, renamed>>
        /\ rpc'[e].at = "done" /\ \A d \in Events \ {e} : rpc'[d] = rpc[d]
    BY <1>8 DEF Return, Raise, End, Goto, AnswersTypeOK
  <2> QED
    BY <2>1, Forgotten DEF NothingStaysActive
<1> QED
  BY <1>1, <1>2, <1>3, <1>4, <1>5, <1>6, <1>7, <1>8 DEF AnswersNext, Acting

\* Only the event's own handler stops it or lets it go on once it is done: others stop
\* what is registered, which it no longer is.
LEMMA StoppedStep ==
  ASSUME AnswersTypeOK, MarksAreTrue, NothingStaysActive, StoppedIsTold, [AnswersNext]_hvars
  PROVE  StoppedIsTold'
<1> USE DEF event, handler, registry
<1>0. ASSUME UNCHANGED <<rpc, forced, answer>>, renamed \subseteq renamed' PROVE StoppedIsTold'
  BY <1>0 DEF StoppedIsTold
<1>1. CASE UNCHANGED hvars
  BY <1>0, <1>1 DEF hvars
<1>2. ASSUME NEW e \in Events,
             \/ Send(e) \/ SendStreaming(e) \/ SetResult(e) \/ ClearResult(e) \/ Yield(e)
             \/ RegisterActive(e) \/ RegisterCallback(e) \/ UnregisterActive(e) \/ Rename(e)
      PROVE  StoppedIsTold'
  BY <1>0, <1>2 DEF Send, SendStreaming, SetResult, ClearResult, Yield, RegisterActive,
                    RegisterCallback, UnregisterActive, Rename, Act
\* A step that changes only what was forced on events that are not done, or are renamed.
<1>3. ASSUME UNCHANGED <<rpc, answer, renamed>>,
             \A d \in Events : rpc[d].at = "done" /\ d \notin renamed => forced'[d] = forced[d]
      PROVE  StoppedIsTold'
  <2>1. \A d \in Events : answer[d].how = "ran" => rpc[d].at = "done"
    BY DEF MarksAreTrue
  <2> QED
    BY <1>3, <2>1 DEF StoppedIsTold
<1>4. ASSUME NEW e \in Events, Receive(e) PROVE StoppedIsTold'
  <2>1. /\ \A d \in Events : rpc'[d].kind = rpc[d].kind
        /\ UNCHANGED <<forced, answer, renamed>>
    BY <1>4 DEF Receive, Goto, AnswersTypeOK
  <2> QED
    BY <2>1 DEF StoppedIsTold
<1>5. ASSUME NEW e \in Events, StopEvent(e) \/ ContinueEvent(e) PROVE StoppedIsTold'
  <2>1. /\ rpc[e].at = "running" /\ UNCHANGED <<rpc, answer, renamed>>
        /\ \A d \in Events \ {e} : forced'[d] = forced[d]
    BY <1>5 DEF StopEvent, ContinueEvent, StopEvents, Act, Running, AnswersTypeOK
  <2> QED
    BY <1>3, <2>1
<1>6. ASSUME NEW e \in Events, StopAll(e) PROVE StoppedIsTold'
  <2>1. /\ origin[e] \in Sessions /\ UNCHANGED <<rpc, answer, renamed>>
        /\ \A d \in Events \ active[origin[e]] : forced'[d] = forced[d]
    BY <1>6 DEF StopAll, StopEvents, Act, AnswersTypeOK
  <2>2. \A d \in Events : rpc[d].at = "done" /\ d \notin renamed => d \notin active[origin[e]]
    BY <2>1 DEF NothingStaysActive
  <2> QED
    BY <1>3, <2>1, <2>2
<1>7. ASSUME NEW e \in Events, NEW a \in {Told(e), ToldFailed(e)}, End(e, a), UNCHANGED renamed
      PROVE  StoppedIsTold'
  <2>1. /\ rpc'[e].kind = rpc[e].kind /\ answer'[e] = a
        /\ \A d \in Events \ {e} : rpc'[d] = rpc[d] /\ answer'[d] = answer[d]
        /\ forced' = forced
    BY <1>7 DEF End, Goto, AnswersTypeOK
  <2>2. rpc[e].kind = "command" /\ a.how = "ran" /\ forced[e] => a.stop
    BY <1>7, AnswersMade
  <2> QED
    BY <1>7, <2>1, <2>2 DEF StoppedIsTold
<1> QED
  BY <1>1, <1>2, <1>4, <1>5, <1>6, <1>7 DEF AnswersNext, Return, Raise

-----------------------------------------------------------------------------
(* The theorem of HandlerAnswers                                            *)

LEMMA AnswersInitInv ==
  ASSUME AnswersInit
  PROVE  AnswersInv
<1> USE DEF AnswersInit
<1>1. Blank \in Answers /\ Blank.sent = FALSE /\ Blank.how = "none"
  BY DEF Blank, Ended, Answers
<1>2. AnswersTypeOK
  BY <1>1 DEF AnswersTypeOK
<1>3. MarksAreTrue /\ StoppedIsTold
  BY <1>1 DEF MarksAreTrue, StoppedIsTold
<1>4. ActiveIsOwn /\ NothingStaysActive
  BY DEF ActiveIsOwn, NothingStaysActive
<1> QED
  BY <1>2, <1>3, <1>4 DEF AnswersInv

\* The host is told of no reply that was not delivered, or for aiocqhttp of every one that
\* was, and of every command that was stopped, and no event stays registered, whatever handlers do to their own events and to
\* each other's (dispatch.py, astr_message_event.py, active_event_registry.py).
THEOREM AnswersSafe == AnswersSpec => []AnswersAreTrue
<1>1. AnswersInit => AnswersInv
  BY AnswersInitInv
<1>2. AnswersInv /\ [AnswersNext]_hvars => AnswersInv'
  BY AnswersTypes, MarksStep, RegistryStep, StoppedStep DEF AnswersInv
<1>3. AnswersInv => AnswersAreTrue
  BY DEF AnswersInv, AnswersAreTrue, MarksAreTrue, NoFalseReply, NoSecondReply, Replying
<1> QED
  BY <1>1, <1>2, <1>3, PTL DEF AnswersSpec

-----------------------------------------------------------------------------
(* WebRoutes: the least and the largest of a set of numbers                 *)

\* A nonempty set of numbers has a least one.
LEMMA SmallestOne ==
  ASSUME NEW K \in SUBSET Nat, K # {}
  PROVE  Min(K) \in K /\ \A j \in K : Min(K) <= j
<1>. DEFINE Below(k) == 1..k
            R == StrictSubsetOrdering(Nat)
            T == {Below(k) : k \in K}
<1>1. T \subseteq FiniteSubsetsOf(Nat)
  <2>. SUFFICES ASSUME NEW k \in K PROVE Below(k) \in FiniteSubsetsOf(Nat)
    OBVIOUS
  <2>1. IsFiniteSet(1..k)
    BY FS_Interval
  <2>. QED  BY <2>1 DEF FiniteSubsetsOf
<1>2. IsWellFoundedOn(R, FiniteSubsetsOf(Nat))
  BY FS_StrictSubsetOrderingWellFounded
<1>3. PICK B \in T : \A C \in T : ~ (<<C, B>> \in R)
  <2>. HIDE DEF R, T
  <2>1. T # {}
    BY DEF T
  <2>. QED  BY <1>1, <1>2, <2>1, WFMin
<1>4. PICK k \in K : B = Below(k)
  OBVIOUS
<1>5. \A j \in K : k <= j
  <2>. SUFFICES ASSUME NEW j \in K, ~ (k <= j) PROVE FALSE
    OBVIOUS
  <2>1. Below(j) \subseteq Below(k) /\ Below(j) # Below(k)
    <3>1. k \in Below(k) /\ k \notin Below(j)
      OBVIOUS
    <3>. QED  BY <3>1
  <2>2. <<Below(j), Below(k)>> \in R
    BY <2>1 DEF StrictSubsetOrdering
  <2>. QED  BY <1>3, <1>4, <2>2
<1>6. \E m \in K : \A j \in K : m <= j
  BY <1>5
<1>. QED  BY <1>6 DEF Min

Entries == [route : Routes, methods : {<<v>> : v \in Verbs} \union {SetToSeq(Verbs)}, born : Nat]

WebParams == {<<>>} \union {Params(e, p) : e \in Routes, p \in Paths}

HitRecords ==
  [at : {"new", "found", "runs", "answered"}, thread : WebThreads \union {Unset}, kind : {"plain", "coroutine", Unset},
   path : Paths \union {<<>>}, verb : Verbs \union {Unset}, entry : Nat,
   params : WebParams, sees : WebRequests \union {Unset}]

WebTypes ==
  /\ apis \in Seq(Entries) /\ webApis \in Seq(Entries) /\ webStage \in {"import", "ready"}
  /\ hits \in [WebRequests -> HitRecords] /\ bound \in [WebThreads -> WebRequests \union {Unset}]
  /\ webStage = "import" => webApis = <<>>

\* The route that was found is the first of those that serve the path.
FirstIsFound ==
  \A r \in WebRequests : hits[r].entry > 0 =>
    /\ hits[r].path \in Paths
    /\ hits[r].entry \in Serving(hits[r].path, hits[r].verb)
    /\ \A i \in Serving(hits[r].path, hits[r].verb) : hits[r].entry <= i
    /\ hits[r].params = Params(webApis[hits[r].entry].route, hits[r].path)

Serves(r) == hits[r].at \in {"found", "runs"}

\* A thread serves one request, and is bound to it only while its handler runs.
OneEach ==
  /\ \A r \in WebRequests : /\ hits[r].at = "new" => hits[r].entry = 0
                            /\ Serves(r) => hits[r].thread \in WebThreads
  /\ \A q, r \in WebRequests : Serves(q) /\ Serves(r) /\ hits[q].thread = hits[r].thread => q = r
  /\ \A r \in WebRequests : hits[r].at = "runs" =>
       hits[r].sees = r /\ (hits[r].kind = "plain" => bound[hits[r].thread] = r)
  /\ \A t \in WebThreads : bound[t] # Unset => hits[bound[t]].at = "runs" /\ hits[bound[t]].thread = t

WebInv == WebTypes /\ FirstIsFound /\ OneEach

\* A path that a route matches is what the route becomes with the words it caught, and
\* there are none for a path it does not match.
LEMMA MatchesBecomes ==
  ASSUME NEW route \in Seq(STRING), NEW path \in Seq(STRING)
  PROVE  /\ Matches(route, path) => Becomes(route, path, Params(route, path))
         /\ \A words : Becomes(route, path, words) => Matches(route, path)
<1>0. DOMAIN route = 1..Len(route) /\ DOMAIN path = 1..Len(path) /\ Len(route) \in Nat /\ Len(path) \in Nat
  OBVIOUS
<1>1. ASSUME Matches(route, path)  PROVE Becomes(route, path, Params(route, path))
  <2>1. \A i \in DOMAIN route : path[i] = IF i \in Caught(route) THEN Params(route, path)[i] ELSE route[i]
    BY <1>1 DEF Matches, Caught, Params
  <2>2. path = [i \in DOMAIN route |-> path[i]]
    BY <1>0, <1>1 DEF Matches
  <2>. QED  BY <1>1, <2>1, <2>2 DEF Becomes, Matches
<1>2. ASSUME NEW words, Becomes(route, path, words)  PROVE Matches(route, path)
  <2>1. DOMAIN path = DOMAIN route
    BY <1>2 DEF Becomes
  <2>2. Len(route) = Len(path)
    <3>1. Len(route) <= Len(path)
      <4>1. Len(route) = 0 \/ Len(route) \in DOMAIN route
        BY <1>0
      <4>. QED  BY <1>0, <2>1, <4>1
    <3>2. Len(path) <= Len(route)
      <4>1. Len(path) = 0 \/ Len(path) \in DOMAIN path
        BY <1>0
      <4>. QED  BY <1>0, <2>1, <4>1
    <3>3. Len(route) \in Nat /\ Len(path) \in Nat
      BY <1>0
    <3>. QED  BY <3>1, <3>2, <3>3
  <2>. QED  BY <1>2, <2>2 DEF Becomes, Matches, Caught
<1>. QED  BY <1>1, <1>2

LEMMA WebIsServed ==
  ASSUME WebInv
  PROVE  RouteFits /\ RequestIsOwn
<1>1. RouteFits
  <2>. SUFFICES ASSUME NEW r \in WebRequests, hits[r].entry > 0
                PROVE  LET e == webApis[hits[r].entry]
                       IN  /\ Becomes(e.route, hits[r].path, hits[r].params)
                           /\ \A i \in 1..(hits[r].entry - 1) :
                                hits[r].verb \in ToSet(webApis[i].methods) =>
                                  ~\E words \in [Caught(webApis[i].route) -> Words] : Becomes(webApis[i].route, hits[r].path, words)
    BY DEF RouteFits
  <2>. DEFINE n == hits[r].entry
  <2>1. /\ hits[r].path \in Seq(STRING) /\ n \in DOMAIN webApis /\ n \in Nat
        /\ Matches(webApis[n].route, hits[r].path) /\ hits[r].params = Params(webApis[n].route, hits[r].path)
        /\ \A i \in Serving(hits[r].path, hits[r].verb) : n <= i
    BY WebAssumption DEF WebInv, WebTypes, FirstIsFound, Serving
  <2>2. \A i \in DOMAIN webApis : webApis[i].route \in Seq(STRING)
    <3>. SUFFICES ASSUME NEW i \in DOMAIN webApis  PROVE webApis[i].route \in Seq(STRING)
      OBVIOUS
    <3>1. webApis[i] \in Entries
      BY ElementOfSeq DEF WebInv, WebTypes
    <3>. QED  BY <3>1, WebAssumption DEF Entries
  <2>3. ASSUME NEW i \in 1..(n - 1), hits[r].verb \in ToSet(webApis[i].methods),
               NEW words, Becomes(webApis[i].route, hits[r].path, words)
        PROVE  FALSE
    <3>1. i \in DOMAIN webApis
      BY <2>1 DEF WebInv, WebTypes
    <3>2. i \in Serving(hits[r].path, hits[r].verb)
      BY <2>1, <2>2, <2>3, <3>1, MatchesBecomes DEF Serving
    <3>. QED  BY <2>1, <3>2
  <2>. QED  BY <2>1, <2>2, <2>3, MatchesBecomes
<1>2. RequestIsOwn
  BY DEF RequestIsOwn, WebInv, WebTypes, OneEach, Seen, Serves
<1>. QED  BY <1>1, <1>2

LEMMA RouteIsRegistered ==
  ASSUME WebInv, NEW route \in Routes, NEW m \in {<<v>> : v \in Verbs} \union {SetToSeq(Verbs)}, RegisterWebApi(route, m)
  PROVE  WebInv'
<1>. DEFINE same == {i \in DOMAIN apis : apis[i].route = route /\ apis[i].methods = m}
            new  == [route |-> route, methods |-> m, born |-> Len(apis)]
<1>1. new \in Entries /\ same \in SUBSET Nat /\ same \subseteq DOMAIN apis
  BY DEF Entries, WebInv, WebTypes
<1>2. apis' = (IF same = {} THEN Append(apis, new) ELSE [apis EXCEPT ![Min(same)] = new])
  BY DEF RegisterWebApi
<1>3. apis' \in Seq(Entries)
  <2>1. CASE same = {}
    BY <1>1, <1>2, <2>1 DEF WebInv, WebTypes
  <2>2. CASE same # {}
    <3>1. Min(same) \in DOMAIN apis
      BY <1>1, <2>2, SmallestOne
    <3>. HIDE DEF same, new
    <3>2. [apis EXCEPT ![Min(same)] = new] \in Seq(Entries)
      BY <1>1, <3>1, ExceptSeq DEF WebInv, WebTypes
    <3>. QED  BY <1>2, <2>2, <3>2
  <2>. QED  BY <2>1, <2>2
<1>. HIDE DEF same, new
<1>4. UNCHANGED <<webApis, webStage, hits, bound>>
  BY DEF RegisterWebApi
<1>. QED  BY <1>3, <1>4 DEF WebInv, WebTypes, FirstIsFound, OneEach, Serves, Serving

LEMMA RoutesAreCopied ==
  ASSUME WebInv, CopyRoutes
  PROVE  WebInv'
<1>1. \A r \in WebRequests : ~(hits[r].entry > 0)
  BY DEF WebInv, WebTypes, FirstIsFound, Serving, CopyRoutes
<1>. QED  BY <1>1 DEF WebInv, WebTypes, FirstIsFound, OneEach, Serves, CopyRoutes

\* A step that changes one request, and binds at most its thread.
LEMMA OneRequestChanges ==
  ASSUME WebInv, NEW r \in WebRequests, NEW h \in HitRecords, hits' = [hits EXCEPT ![r] = h],
         UNCHANGED <<apis, webApis, webStage>>
  PROVE  /\ hits' \in [WebRequests -> HitRecords] /\ hits'[r] = h
         /\ \A q \in WebRequests : q # r => hits'[q] = hits[q]
         /\ bound' \in [WebThreads -> WebRequests \union {Unset}] => WebTypes'
         /\ (h.entry > 0 =>
               /\ h.path \in Paths /\ h.entry \in Serving(h.path, h.verb)
               /\ \A i \in Serving(h.path, h.verb) : h.entry <= i
               /\ h.params = Params(webApis[h.entry].route, h.path)) => FirstIsFound'
<1>1. /\ hits' \in [WebRequests -> HitRecords] /\ hits'[r] = h
      /\ \A q \in WebRequests : q # r => hits'[q] = hits[q]
  BY DEF WebInv, WebTypes
<1>2. \A path, verb : Serving(path, verb)' = Serving(path, verb)
  BY DEF Serving
<1>3. ASSUME h.entry > 0 =>
               /\ h.path \in Paths /\ h.entry \in Serving(h.path, h.verb)
               /\ \A i \in Serving(h.path, h.verb) : h.entry <= i
               /\ h.params = Params(webApis[h.entry].route, h.path)
      PROVE  FirstIsFound'
  <2>. SUFFICES ASSUME NEW q \in WebRequests, hits'[q].entry > 0
       PROVE  /\ hits'[q].path \in Paths
              /\ hits'[q].entry \in Serving(hits'[q].path, hits'[q].verb)
              /\ \A i \in Serving(hits'[q].path, hits'[q].verb) : hits'[q].entry <= i
              /\ hits'[q].params = Params(webApis[hits'[q].entry].route, hits'[q].path)
    BY <1>2 DEF FirstIsFound
  <2>1. CASE q = r
    BY <1>1, <1>3, <2>1
  <2>2. CASE q # r
    BY <1>1, <2>2 DEF WebInv, FirstIsFound
  <2>. QED  BY <2>1, <2>2
<1>. QED  BY <1>1, <1>3 DEF WebInv, WebTypes

LEMMA NothingServes ==
  ASSUME WebInv, NEW r \in WebRequests, NEW path \in Paths, NEW verb \in Verbs, NotFound(r, path, verb)
  PROVE  WebInv'
<1>. DEFINE h == [[[hits[r] EXCEPT !.at = "answered"] EXCEPT !.path = path] EXCEPT !.verb = verb]
<1>1. hits[r].at = "new" /\ UNCHANGED <<apis, webApis, webStage, bound>> /\ hits[r] \in HitRecords
  BY DEF NotFound, WebInv, WebTypes
<1>2. h \in HitRecords /\ h.at = "answered" /\ h.entry = hits[r].entry
  <2>1. [hits[r] EXCEPT !.at = "answered"] \in HitRecords
    BY <1>1 DEF HitRecords
  <2>2. [[hits[r] EXCEPT !.at = "answered"] EXCEPT !.path = path] \in HitRecords
    BY <2>1 DEF HitRecords
  <2>3. h \in HitRecords
    BY <2>2 DEF HitRecords
  <2>. QED  BY <1>1, <2>3 DEF HitRecords
<1>3. hits' = [hits EXCEPT ![r] = h]
  BY <1>1 DEF NotFound, WebInv, WebTypes, HitRecords
<1>. HIDE DEF h
<1>4. WebTypes' /\ hits'[r] = h /\ \A q \in WebRequests : q # r => hits'[q] = hits[q]
  BY <1>1, <1>2, <1>3, OneRequestChanges DEF WebInv, WebTypes
<1>5. FirstIsFound'
  <2>1. ~(h.entry > 0)
    BY <1>1, <1>2 DEF WebInv, OneEach
  <2>. QED  BY <1>1, <1>2, <1>3, <2>1, OneRequestChanges
<1>6. OneEach'
  <2>1. \A q \in WebRequests : Serves(q)' => q # r /\ Serves(q) /\ hits'[q] = hits[q]
    BY <1>2, <1>4 DEF Serves
  <2>2. \A q \in WebRequests : /\ hits'[q].at = "new" => hits'[q].entry = 0
                               /\ Serves(q)' => hits'[q].thread \in WebThreads
    BY <1>2, <1>4, <2>1 DEF WebInv, OneEach
  <2>3. \A q \in WebRequests : hits'[q].at = "runs" =>
          hits'[q].sees = q /\ (hits'[q].kind = "plain" => bound'[hits'[q].thread] = q)
    BY <1>1, <1>2, <1>4 DEF WebInv, OneEach
  <2>4. \A s \in WebThreads : bound'[s] # Unset => hits'[bound'[s]].at = "runs" /\ hits'[bound'[s]].thread = s
    BY <1>1, <1>4 DEF WebInv, WebTypes, OneEach
  <2>. QED  BY <2>1, <2>2, <2>3, <2>4 DEF OneEach, WebInv
<1>. QED  BY <1>4, <1>5, <1>6 DEF WebInv

LEMMA RouteIsFound ==
  ASSUME WebInv, NEW r \in WebRequests, NEW t \in WebThreads, NEW path \in Paths, NEW verb \in Verbs,
         NEW kind \in {"plain", "coroutine"}, HandleWebRequest(r, t, path, verb, kind)
  PROVE  WebInv'
<1>. DEFINE i == Min(Serving(path, verb))
            h == [at |-> "found", thread |-> t, kind |-> kind, path |-> path, verb |-> verb,
                  entry |-> i, params |-> Params(webApis[i].route, path), sees |-> Unset]
<1>1. /\ hits[r].at = "new" /\ UNCHANGED <<apis, webApis, webStage, bound>> /\ hits[r] \in HitRecords
      /\ \A q \in WebRequests : Serves(q) => hits[q].thread # t
  BY DEF HandleWebRequest, WebInv, WebTypes, Serves
<1>2. i \in Serving(path, verb) /\ i \in Nat /\ \A j \in Serving(path, verb) : i <= j
  <2>1. Serving(path, verb) \in SUBSET Nat
    BY DEF Serving, WebInv, WebTypes
  <2>. QED  BY <2>1, SmallestOne DEF HandleWebRequest
<1>3. webApis[i].route \in Routes
  <2>1. webApis[i] \in Entries
    BY <1>2, ElementOfSeq DEF Serving, WebInv, WebTypes
  <2>. QED  BY <2>1 DEF Entries
<1>4. hits' = [hits EXCEPT ![r] = h]
  BY DEF HandleWebRequest
<1>. HIDE DEF i
<1>5. /\ h \in HitRecords /\ h.at = "found" /\ h.thread = t /\ h.path = path /\ h.verb = verb
      /\ h.entry = i /\ h.params = Params(webApis[i].route, path)
  <2>1. Params(webApis[i].route, path) \in WebParams
    BY <1>3 DEF WebParams
  <2>2. h \in HitRecords
    BY <1>2, <2>1 DEF HitRecords
  <2>. QED  BY <2>2
<1>. HIDE DEF h
<1>6. WebTypes' /\ hits'[r] = h /\ \A q \in WebRequests : q # r => hits'[q] = hits[q]
  BY <1>1, <1>4, <1>5, OneRequestChanges DEF WebInv, WebTypes
<1>7. FirstIsFound'
  BY <1>1, <1>2, <1>4, <1>5, OneRequestChanges
<1>8. OneEach'
  <2>1. \A q \in WebRequests : Serves(q)' =>
          (q = r /\ hits'[q].thread = t) \/ (q # r /\ Serves(q) /\ hits'[q] = hits[q])
    BY <1>5, <1>6 DEF Serves
  <2>2. \A q \in WebRequests : /\ hits'[q].at = "new" => hits'[q].entry = 0
                               /\ Serves(q)' => hits'[q].thread \in WebThreads
    BY <1>5, <1>6, <2>1 DEF WebInv, OneEach
  <2>3. \A q \in WebRequests : hits'[q].at = "runs" =>
          hits'[q].sees = q /\ (hits'[q].kind = "plain" => bound'[hits'[q].thread] = q)
    BY <1>1, <1>5, <1>6 DEF WebInv, OneEach
  <2>4. \A s \in WebThreads : bound'[s] # Unset => hits'[bound'[s]].at = "runs" /\ hits'[bound'[s]].thread = s
    BY <1>1, <1>6 DEF WebInv, WebTypes, OneEach
  <2>5. \A p, q \in WebRequests : Serves(p)' /\ Serves(q)' /\ hits'[p].thread = hits'[q].thread => p = q
    BY <1>1, <2>1 DEF WebInv, OneEach
  <2>. QED  BY <2>2, <2>3, <2>4, <2>5 DEF OneEach, Serves
<1>. QED  BY <1>6, <1>7, <1>8 DEF WebInv

LEMMA HandlerRuns ==
  ASSUME WebInv, NEW r \in WebRequests, RunHere(r) \/ RunOnLoop(r)
  PROVE  WebInv'
<1>. DEFINE h == [[hits[r] EXCEPT !.at = "runs"] EXCEPT !.sees = r]
            t == hits[r].thread
<1>1. /\ hits[r].at = "found" /\ UNCHANGED <<apis, webApis, webStage>> /\ hits[r] \in HitRecords /\ t \in WebThreads
      /\ bound' = (IF hits[r].kind = "plain" THEN [bound EXCEPT ![t] = r] ELSE bound)
  BY DEF RunHere, RunOnLoop, WebInv, WebTypes, OneEach, Serves
<1>2. h \in HitRecords
  <2>1. [hits[r] EXCEPT !.at = "runs"] \in HitRecords
    BY <1>1 DEF HitRecords
  <2>. QED  BY <2>1 DEF HitRecords
<1>3. hits' = [hits EXCEPT ![r] = h]
  BY <1>1 DEF RunHere, RunOnLoop, WebInv, WebTypes, HitRecords
<1>f. /\ h.at = "runs" /\ h.sees = r /\ h.thread = t /\ h.kind = hits[r].kind /\ h.entry = hits[r].entry
      /\ h.path = hits[r].path /\ h.verb = hits[r].verb /\ h.params = hits[r].params
  BY <1>1 DEF HitRecords
<1>. HIDE DEF h
<1>4. bound' \in [WebThreads -> WebRequests \union {Unset}]
  BY <1>1 DEF WebInv, WebTypes
<1>5. WebTypes' /\ hits'[r] = h /\ \A q \in WebRequests : q # r => hits'[q] = hits[q]
  BY <1>1, <1>2, <1>3, <1>4, OneRequestChanges
<1>6. FirstIsFound'
  <2>1. hits[r].entry > 0 =>
          /\ h.path \in Paths /\ h.entry \in Serving(h.path, h.verb)
          /\ \A i \in Serving(h.path, h.verb) : h.entry <= i
          /\ h.params = Params(webApis[h.entry].route, h.path)
    BY <1>f DEF FirstIsFound, WebInv
  <2>. QED  BY <1>1, <1>2, <1>3, <1>f, <2>1, OneRequestChanges
<1>7. OneEach'
  <2>1. \A q \in WebRequests : Serves(q)' => Serves(q) /\ hits'[q].thread = hits[q].thread
    BY <1>1, <1>5, <1>f DEF Serves
  <2>2. \A q \in WebRequests : hits'[q].at = "runs" =>
          hits'[q].sees = q /\ (hits'[q].kind = "plain" => bound'[hits'[q].thread] = q)
    BY <1>1, <1>5, <1>f DEF WebInv, WebTypes, OneEach, Serves
  <2>3. \A s \in WebThreads : bound'[s] # Unset => hits'[bound'[s]].at = "runs" /\ hits'[bound'[s]].thread = s
    BY <1>1, <1>5, <1>f DEF WebInv, WebTypes, OneEach, Serves
  <2>4. \A q \in WebRequests : /\ hits'[q].at = "new" => hits'[q].entry = 0
                               /\ Serves(q)' => hits'[q].thread \in WebThreads
    BY <1>1, <1>5, <1>f, <2>1 DEF WebInv, OneEach
  <2>. QED  BY <2>1, <2>2, <2>3, <2>4 DEF OneEach, WebInv
<1>. QED  BY <1>5, <1>6, <1>7 DEF WebInv

LEMMA HandlerEnds ==
  ASSUME WebInv, NEW r \in WebRequests, WebEnds(r)
  PROVE  WebInv'
<1>. DEFINE h == [hits[r] EXCEPT !.at = "answered"]
            t == hits[r].thread
<1>1. /\ hits[r].at = "runs" /\ UNCHANGED <<apis, webApis, webStage>> /\ hits[r] \in HitRecords /\ t \in WebThreads
      /\ bound' = [bound EXCEPT ![t] = Unset] /\ hits' = [hits EXCEPT ![r] = h]
  BY DEF WebEnds, Step, WebInv, WebTypes, OneEach, Serves
<1>2. /\ h \in HitRecords /\ h.at = "answered" /\ h.entry = hits[r].entry
      /\ h.path = hits[r].path /\ h.verb = hits[r].verb /\ h.params = hits[r].params
  BY <1>1 DEF HitRecords
<1>. HIDE DEF h
<1>4. bound' \in [WebThreads -> WebRequests \union {Unset}]
  BY <1>1 DEF WebInv, WebTypes
<1>5. WebTypes' /\ hits'[r] = h /\ \A q \in WebRequests : q # r => hits'[q] = hits[q]
  BY <1>1, <1>2, <1>4, OneRequestChanges
<1>6. FirstIsFound'
  <2>1. hits[r].entry > 0 =>
          /\ h.path \in Paths /\ h.entry \in Serving(h.path, h.verb)
          /\ \A i \in Serving(h.path, h.verb) : h.entry <= i
          /\ h.params = Params(webApis[h.entry].route, h.path)
    BY <1>2 DEF FirstIsFound, WebInv
  <2>. QED  BY <1>1, <1>2, <2>1, OneRequestChanges
<1>7. OneEach'
  <2>1. \A q \in WebRequests : Serves(q)' => Serves(q) /\ q # r /\ hits'[q] = hits[q] /\ hits[q].thread # t
    BY <1>1, <1>2, <1>5 DEF Serves, WebInv, OneEach
  <2>2. \A s \in WebThreads : bound'[s] = IF s = t THEN Unset ELSE bound[s]
    BY <1>1 DEF WebInv, WebTypes
  <2>3. \A s \in WebThreads : bound'[s] # Unset => hits'[bound'[s]].at = "runs" /\ hits'[bound'[s]].thread = s
    BY <1>1, <1>5, <2>2 DEF WebInv, WebTypes, OneEach
  <2>4. \A q \in WebRequests : hits'[q].at = "runs" =>
          hits'[q].sees = q /\ (hits'[q].kind = "plain" => bound'[hits'[q].thread] = q)
    BY <2>1, <2>2 DEF WebInv, OneEach, Serves
  <2>5. \A q \in WebRequests : /\ hits'[q].at = "new" => hits'[q].entry = 0
                               /\ Serves(q)' => hits'[q].thread \in WebThreads
    BY <1>2, <1>5, <2>1 DEF WebInv, OneEach
  <2>. QED  BY <2>1, <2>3, <2>4, <2>5 DEF OneEach, WebInv
<1>. QED  BY <1>5, <1>6, <1>7 DEF WebInv

LEMMA WebStart ==
  ASSUME WebInit
  PROVE  WebInv
<1>1. <<>> \in Seq(Entries) /\ DOMAIN <<>> = {}
  OBVIOUS
<1>2. WebTypes
  <2>1. [at |-> "new", thread |-> Unset, kind |-> Unset, path |-> <<>>, verb |-> Unset,
         entry |-> 0, params |-> <<>>, sees |-> Unset] \in HitRecords
    BY DEF HitRecords, WebParams
  <2>. QED  BY <1>1, <2>1 DEF WebInit, WebTypes
<1>3. FirstIsFound
  BY DEF WebInit, FirstIsFound
<1>4. OneEach
  BY DEF WebInit, OneEach, Serves
<1>. QED  BY <1>2, <1>3, <1>4 DEF WebInv

LEMMA WebKeeps ==
  ASSUME WebInv, [WebNext]_webVars
  PROVE  WebInv'
<1>1. ASSUME NEW route \in Routes, NEW m \in {<<v>> : v \in Verbs} \union {SetToSeq(Verbs)}, RegisterWebApi(route, m)
      PROVE  WebInv'
  BY <1>1, RouteIsRegistered
<1>2. ASSUME CopyRoutes  PROVE WebInv'
  BY <1>2, RoutesAreCopied
<1>3. ASSUME NEW r \in WebRequests, RunHere(r) \/ RunOnLoop(r)  PROVE WebInv'
  BY <1>3, HandlerRuns
<1>4. ASSUME NEW r \in WebRequests, WebEnds(r)  PROVE WebInv'
  BY <1>4, HandlerEnds
<1>5. ASSUME NEW r \in WebRequests, NEW path \in Paths, NEW verb \in Verbs, NotFound(r, path, verb)  PROVE WebInv'
  BY <1>5, NothingServes
<1>6. ASSUME NEW r \in WebRequests, NEW path \in Paths, NEW verb \in Verbs, NEW t \in WebThreads,
             NEW kind \in {"plain", "coroutine"}, HandleWebRequest(r, t, path, verb, kind)
      PROVE  WebInv'
  BY <1>6, RouteIsFound
<1>7. ASSUME UNCHANGED webVars  PROVE WebInv'
  BY <1>7 DEF webVars, WebInv, WebTypes, FirstIsFound, OneEach, Serves, Serving
<1>. QED  BY <1>1, <1>2, <1>3, <1>4, <1>5, <1>6, <1>7 DEF WebNext

-----------------------------------------------------------------------------
(* WebRoutes: what a handler reads and returns                              *)

\* A nonempty set of places in a sequence has a last one.
LEMMA LargestOne ==
  ASSUME NEW n \in Nat, NEW K \in SUBSET (1..n), K # {}
  PROVE  Max(K) \in K /\ \A j \in K : j <= Max(K)
<1>. DEFINE L == {n + 1 - k : k \in K}
<1>1. L \in SUBSET Nat /\ L # {}
  <2>1. \A k \in K : n + 1 - k \in Nat
    OBVIOUS
  <2>. QED  BY <2>1
<1>2. Min(L) \in L /\ \A j \in L : Min(L) <= j
  <2>. HIDE DEF L
  <2>. QED  BY <1>1, SmallestOne
<1>3. PICK m \in K : Min(L) = n + 1 - m
  BY <1>2
<1>4. \A j \in K : j <= m
  <2>. SUFFICES ASSUME NEW j \in K  PROVE j <= m
    OBVIOUS
  <2>1. n + 1 - j \in L
    OBVIOUS
  <2>2. n + 1 - m <= n + 1 - j
    BY <1>2, <1>3, <2>1
  <2>3. j \in Int /\ m \in Int
    OBVIOUS
  <2>. QED  BY <2>2, <2>3
<1>5. \E x \in K : \A y \in K : x >= y
  BY <1>4
<1>. QED  BY <1>5 DEF Max

PlainHandlers == {"function", "coroutine", "function of coroutine"}

\* The host was told what the one value becomes that the handler returned.
ValueIsTold ==
  /\ webHandler \in PlainHandlers => returned[1] \in Bare \cup Tuples /\ webReply = Serialize(returned[1])
  /\ webHandler = "make_response" => returned[1] \in Bare \cup Tuples /\ webReply = Make(returned[1])

HeaderDicts == [keys : SUBSET (HeaderNames \X {1, 2}), map : UNION {[D -> {1, 2}] : D \in SUBSET HeaderNames}, deleted : BOOLEAN]

\* The own keys of the dict are those the map leads to, without the deleted ones.
KeysAreMapped ==
  /\ headers \in HeaderDicts
  /\ \A k \in headers.keys : k[1] \in DOMAIN headers.map /\ k[2] = headers.map[k[1]]
  /\ ~headers.deleted => \A n \in DOMAIN headers.map : <<n, headers.map[n]>> \in headers.keys

Uploads == [content : Seq({"a", "b"}), at : Nat, got : Seq({"a", "b"})]

RepliesInv ==
  /\ ValueIsTold /\ KeysAreMapped
  /\ pairs \in Seq(QueryKeys \X {"v", "w"})
  /\ upload \in Uploads /\ ReadInOrder

LEMMA ToldAsReturned ==
  ASSUME RepliesInv
  PROVE  RepliesAreRight /\ MakingAgrees
<1>1. \A v \in Bare \cup Tuples : v.kind \in Returnable
  <2>1. \A v \in Bare : v.kind \in Returnable
    <3>. SUFFICES ASSUME NEW k \in Returnable  PROVE Value(k).kind \in Returnable
      BY DEF Bare
    <3>. QED  BY DEF Value
  <2>2. \A v \in Tuples : v.kind \in Returnable
    BY DEF Tuples
  <2>. QED  BY <2>1, <2>2
<1>. HIDE DEF Bare, Tuples
<1>2. RepliesAreRight
  <2>. SUFFICES ASSUME webHandler \in PlainHandlers
                PROVE  LET v == returned[1] IN
                       /\ v.heads = webReply.heads
                       /\ v.kind \notin {"response", "broken"} =>
                            /\ webReply.status = (IF v.status = NoStatus THEN 200 ELSE v.status)
                            /\ v.heads = <<"type">> => webReply.type = "given"
                       /\ v.kind = "dict" /\ v.heads # <<"type">> => webReply.type = "json"
                       /\ v.kind = "response" => webReply.body = "own" /\ webReply.status = 418
    BY DEF RepliesAreRight, PlainHandlers
  <2>. DEFINE v == returned[1]
  <2>1. v \in Bare \cup Tuples /\ webReply = Serialize(v)
    BY DEF RepliesInv, ValueIsTold
  <2>2. v.kind \in {"nothing", "dict", "text", "bytes", "list", "response", "broken"}
    BY <1>1, <2>1 DEF Returnable
  <2>. HIDE DEF v
  <2>s. v.kind \notin {"response", "broken"} => StatusOf(v) = IF v.status = NoStatus THEN 200 ELSE v.status
    BY DEF StatusOf
  <2>t. v.heads = <<"type">> => \A type : Said(v, type) = "given"
    BY DEF Said
  <2>u. v.heads # <<"type">> => \A type : Said(v, type) = type
    BY DEF Said
  <2>r. \A a, b, c, d : /\ Reply(a, b, c, d).status = a /\ Reply(a, b, c, d).type = b
                        /\ Reply(a, b, c, d).body = c /\ Reply(a, b, c, d).heads = d
    BY DEF Reply
  <2>3. CASE v.kind = "nothing"
    <3>1. webReply = Reply(StatusOf(v), Said(v, ""), "", v.heads)
      BY <2>1, <2>3 DEF Serialize
    <3>2. PICK x, y : webReply = Reply(StatusOf(v), Said(v, x), y, v.heads)
      BY <3>1
    <3>. QED  BY <3>2, <2>3, <2>s, <2>t, <2>u, <2>r DEF v
  <2>4. CASE v.kind = "dict"
    <3>1. webReply = Reply(StatusOf(v), Said(v, "json"), "json", v.heads)
      BY <2>1, <2>4 DEF Serialize
    <3>. QED  BY <3>1, <2>4, <2>s, <2>t, <2>u, <2>r DEF v
  <2>5. CASE v.kind = "text"
    <3>1. webReply = Reply(StatusOf(v), Said(v, "plain"), "text", v.heads)
      BY <2>1, <2>5 DEF Serialize
    <3>. QED  BY <3>1, <2>5, <2>s, <2>t, <2>u, <2>r DEF v
  <2>6. CASE v.kind = "bytes"
    <3>1. webReply = Reply(StatusOf(v), Said(v, ""), "repr", v.heads)
      BY <2>1, <2>6 DEF Serialize
    <3>2. PICK x, y : webReply = Reply(StatusOf(v), Said(v, x), y, v.heads)
      BY <3>1
    <3>. QED  BY <3>2, <2>6, <2>s, <2>t, <2>u, <2>r DEF v
  <2>7. CASE v.kind = "list"
    <3>1. webReply = Reply(StatusOf(v), Said(v, ""), "repr", v.heads)
      BY <2>1, <2>7 DEF Serialize
    <3>2. PICK x, y : webReply = Reply(StatusOf(v), Said(v, x), y, v.heads)
      BY <3>1
    <3>. QED  BY <3>2, <2>7, <2>s, <2>t, <2>u, <2>r DEF v
  <2>8. CASE v.kind = "response"
    <3>1. webReply = Reply(418, "own", "own", v.heads)
      BY <2>1, <2>8 DEF Serialize, StatusOf
    <3>. QED  BY <3>1, <2>8, <2>r DEF v
  <2>9. CASE v.kind = "broken"
    <3>1. webReply = Reply(418, "own", "", v.heads)
      BY <2>1, <2>9 DEF Serialize, StatusOf
    <3>2. PICK y : webReply = Reply(418, "own", y, v.heads)
      BY <3>1
    <3>. QED  BY <3>2, <2>9, <2>r DEF v
  <2>. QED  BY <2>2, <2>3, <2>4, <2>5, <2>6, <2>7, <2>8, <2>9 DEF v
<1>3. MakingAgrees
  <2>. SUFFICES ASSUME webHandler = "make_response", returned[1].kind \in {"dict", "text"} \/ returned[1] = Value("response")
                PROVE  /\ webReply.body = Serialize(returned[1]).body /\ webReply.status = Serialize(returned[1]).status
                       /\ returned[1].kind = "dict" => webReply = Serialize(returned[1])
    BY DEF MakingAgrees
  <2>. DEFINE v == returned[1]
  <2>1. webReply = Make(v)
    BY DEF RepliesInv, ValueIsTold
  <2>. HIDE DEF v
  <2>2. CASE v.kind = "dict"
    BY <2>1, <2>2 DEF Make, Serialize, Reply, StatusOf, Said, v
  <2>3. CASE v.kind = "text"
    BY <2>1, <2>3 DEF Make, Serialize, Reply, StatusOf, Said, v
  <2>4. CASE v = Value("response")
    <3>1. v.kind = "response" /\ v.status = NoStatus
      BY <2>4 DEF Value
    <3>. QED  BY <2>1, <3>1 DEF Make, Serialize, v
  <2>. QED  BY <2>2, <2>3, <2>4 DEF v
<1>. QED  BY <1>2, <1>3

LEMMA HeadersFound ==
  ASSUME RepliesInv
  PROVE  HeadersAgree
<1>. SUFFICES ASSUME NEW n \in HeaderNames
              PROVE  /\ HeaderFound(headers, n) => HasHeader(headers, n)
                     /\ HasHeader(headers, n) => HeaderFound(headers, n) \/ headers.deleted
                     /\ Cardinality({k \in headers.keys : k[1] = n}) <= 1
  BY DEF HeadersAgree
<1>1. HeaderFound(headers, n) => HasHeader(headers, n)
  BY DEF HeaderFound, HasHeader, Written
<1>2. HasHeader(headers, n) => HeaderFound(headers, n) \/ headers.deleted
  <2>. SUFFICES ASSUME HasHeader(headers, n), ~headers.deleted  PROVE HeaderFound(headers, n)
    OBVIOUS
  <2>1. n \in DOMAIN headers.map /\ <<n, headers.map[n]>> \in headers.keys
    BY DEF RepliesInv, KeysAreMapped, HasHeader
  <2>2. headers.map[n] \in {1, 2}
    BY <2>1 DEF RepliesInv, KeysAreMapped, HeaderDicts
  <2>. QED  BY <2>1, <2>2 DEF HeaderFound, Written
<1>3. Cardinality({k \in headers.keys : k[1] = n}) <= 1
  <2>. DEFINE one == <<n, headers.map[n]>>
  <2>1. {k \in headers.keys : k[1] = n} \subseteq {one}
    <3>. SUFFICES ASSUME NEW k \in headers.keys, k[1] = n  PROVE k = one
      OBVIOUS
    <3>1. k \in HeaderNames \X {1, 2}
      BY DEF RepliesInv, KeysAreMapped, HeaderDicts
    <3>2. k[2] = headers.map[n]
      BY DEF RepliesInv, KeysAreMapped
    <3>. QED  BY <3>1, <3>2
  <2>2. IsFiniteSet({one}) /\ Cardinality({one}) = 1
    BY FS_Singleton
  <2>. HIDE DEF one
  <2>3. {k \in headers.keys : k[1] = n} \in SUBSET {one}
    BY <2>1
  <2>. QED  BY <2>2, <2>3, FS_Subset
<1>. QED  BY <1>1, <1>2, <1>3

LEMMA ArgsFound ==
  ASSUME RepliesInv
  PROVE  ArgsAgree
<1>. SUFFICES ASSUME NEW k \in QueryKeys
              PROVE  /\ (\A i, j \in ArgPlaces(pairs, k) : i = j) => PluginGet(pairs, k) = QuartGet(pairs, k)
                     /\ PluginGet(pairs, k) = "default" <=> ArgPlaces(pairs, k) = {}
  BY DEF ArgsAgree
<1>1. pairs \in Seq(QueryKeys \X {"v", "w"}) /\ DOMAIN pairs = 1..Len(pairs) /\ Len(pairs) \in Nat
  BY DEF RepliesInv
<1>2. ArgPlaces(pairs, k) \in SUBSET (1..Len(pairs)) /\ ArgPlaces(pairs, k) \in SUBSET Nat
  BY <1>1 DEF ArgPlaces
<1>3. CASE ArgPlaces(pairs, k) = {}
  BY <1>3 DEF PluginGet, QuartGet
<1>4. CASE ArgPlaces(pairs, k) # {}
  <2>1. Max(ArgPlaces(pairs, k)) \in ArgPlaces(pairs, k) /\ Min(ArgPlaces(pairs, k)) \in ArgPlaces(pairs, k)
    BY <1>1, <1>2, <1>4, LargestOne, SmallestOne
  <2>2. pairs[Max(ArgPlaces(pairs, k))] \in QueryKeys \X {"v", "w"}
    BY <1>1, <1>2, <2>1
  <2>3. pairs[Max(ArgPlaces(pairs, k))][2] # "default"
    BY <2>2
  <2>. QED  BY <1>4, <2>1, <2>3 DEF PluginGet, QuartGet
<1>. QED  BY <1>3, <1>4

\* What the dict must be for its keys to be those the map leads to.
LEMMA DictIsMapped ==
  ASSUME NEW K \in SUBSET (HeaderNames \X {1, 2}), NEW D \in SUBSET HeaderNames, NEW M \in [D -> {1, 2}], NEW d \in BOOLEAN,
         headers' = [keys |-> K, map |-> M, deleted |-> d],
         \A k \in K : k[1] \in D /\ k[2] = M[k[1]],
         ~d => \A m \in D : <<m, M[m]>> \in K
  PROVE  KeysAreMapped'
<1>1. M \in UNION {[E -> {1, 2}] : E \in SUBSET HeaderNames}
  OBVIOUS
<1>2. DOMAIN M = D
  OBVIOUS
<1>3. headers' \in HeaderDicts
  <2>. DEFINE Maps == UNION {[E -> {1, 2}] : E \in SUBSET HeaderNames}
  <2>1. M \in Maps
    BY <1>1
  <2>. HIDE DEF Maps
  <2>2. headers' \in [keys : SUBSET (HeaderNames \X {1, 2}), map : Maps, deleted : BOOLEAN]
    BY <2>1
  <2>. QED  BY <2>2 DEF HeaderDicts, Maps
<1>. QED  BY <1>2, <1>3 DEF KeysAreMapped

LEMMA HeaderIsChanged ==
  ASSUME KeysAreMapped, NEW n \in HeaderNames,
         \/ \E w \in {1, 2} : headers' = SetHeader(headers, n, w)
         \/ HasHeader(headers, n) /\ headers' = PopHeader(headers, n)
         \/ HeaderFound(headers, n) /\ headers' = DelHeader(headers, n)
  PROVE  KeysAreMapped'
<1>. DEFINE keys == headers.keys
            map == headers.map
            del == headers.deleted
<1>1. /\ headers = [keys |-> keys, map |-> map, deleted |-> del] /\ del \in BOOLEAN
      /\ keys \in SUBSET (HeaderNames \X {1, 2}) /\ DOMAIN map \in SUBSET HeaderNames /\ map \in [DOMAIN map -> {1, 2}]
      /\ \A k \in keys : k[1] \in DOMAIN map /\ k[2] = map[k[1]]
      /\ ~del => \A m \in DOMAIN map : <<m, map[m]>> \in keys
  BY DEF KeysAreMapped, HeaderDicts
<1>2. ASSUME NEW w \in {1, 2}, headers' = SetHeader(headers, n, w)  PROVE KeysAreMapped'
  <2>. DEFINE K == (IF Written(headers, n) \in {0, w} THEN keys ELSE keys \ {<<n, Written(headers, n)>>}) \cup {<<n, w>>}
              D == DOMAIN map \cup {n}
              M == [m \in D |-> IF m = n THEN w ELSE map[m]]
  <2>1. headers' = [keys |-> K, map |-> M, deleted |-> del]
    <3>. HIDE DEF K, M
    <3>1. headers' = [headers EXCEPT !.keys = K, !.map = M]
      BY <1>2 DEF SetHeader, K, M
    <3>. QED  BY <1>1, <3>1
  <2>2. K \in SUBSET (HeaderNames \X {1, 2}) /\ D \in SUBSET HeaderNames /\ M \in [D -> {1, 2}]
    BY <1>1
  <2>3. \A k \in K : k[1] \in D /\ k[2] = M[k[1]]
    <3>. SUFFICES ASSUME NEW k \in K  PROVE k[1] \in D /\ k[2] = M[k[1]]
      OBVIOUS
    <3>1. CASE k = <<n, w>>
      BY <3>1
    <3>2. CASE k # <<n, w>>
      <4>1. k \in keys /\ k \in HeaderNames \X {1, 2} /\ k = <<k[1], k[2]>>
        BY <1>1, <3>2
      <4>2. k[1] \in DOMAIN map /\ k[2] = map[k[1]]
        BY <1>1, <4>1
      <4>3. k[1] # n
        <5>. SUFFICES ASSUME k[1] = n  PROVE FALSE
          OBVIOUS
        <5>1. Written(headers, n) = map[n] /\ Written(headers, n) \in {1, 2} /\ k = <<n, map[n]>>
          BY <1>1, <4>1, <4>2 DEF Written
        <5>2. map[n] # w
          BY <3>2, <5>1
        <5>. QED  BY <3>2, <5>1, <5>2
      <4>. QED  BY <4>2, <4>3
    <3>. QED  BY <3>1, <3>2
  <2>4. ~del => \A m \in D : <<m, M[m]>> \in K
    <3>. SUFFICES ASSUME ~del, NEW m \in D, m # n  PROVE <<m, M[m]>> \in K
      OBVIOUS
    <3>1. <<m, map[m]>> \in keys /\ M[m] = map[m] /\ <<m, map[m]>> # <<n, Written(headers, n)>>
      BY <1>1
    <3>. QED  BY <3>1
  <2>. HIDE DEF K, M, D
  <2>. QED  BY <1>1, <2>1, <2>2, <2>3, <2>4, DictIsMapped
<1>3. ASSUME HasHeader(headers, n), headers' = PopHeader(headers, n)  PROVE KeysAreMapped'
  <2>. DEFINE K == keys \ {<<n, Written(headers, n)>>}
              D == DOMAIN map \ {n}
              M == [m \in D |-> map[m]]
  <2>1. headers' = [keys |-> K, map |-> M, deleted |-> del]
    <3>. HIDE DEF K, M
    <3>1. headers' = [headers EXCEPT !.keys = K, !.map = M]
      BY <1>3 DEF PopHeader, Without, K, M
    <3>. QED  BY <1>1, <3>1
  <2>2. K \in SUBSET (HeaderNames \X {1, 2}) /\ D \in SUBSET HeaderNames /\ M \in [D -> {1, 2}]
    BY <1>1
  <2>3. \A k \in K : k[1] \in D /\ k[2] = M[k[1]]
    <3>. SUFFICES ASSUME NEW k \in K  PROVE k[1] \in D /\ k[2] = M[k[1]]
      OBVIOUS
    <3>1. k \in keys /\ k \in HeaderNames \X {1, 2} /\ k = <<k[1], k[2]>> /\ k[1] \in DOMAIN map /\ k[2] = map[k[1]]
      BY <1>1
    <3>2. k[1] # n
      BY <1>3, <3>1 DEF Written, HasHeader
    <3>. QED  BY <3>1, <3>2
  <2>4. ~del => \A m \in D : <<m, M[m]>> \in K
    BY <1>1
  <2>. HIDE DEF K, M, D
  <2>. QED  BY <1>1, <2>1, <2>2, <2>3, <2>4, DictIsMapped
<1>4. ASSUME HeaderFound(headers, n), headers' = DelHeader(headers, n)  PROVE KeysAreMapped'
  <2>. DEFINE K == keys \ {<<n, Written(headers, n)>>}
  <2>1. headers' = [keys |-> K, map |-> map, deleted |-> TRUE]
    <3>. HIDE DEF K
    <3>1. headers' = [headers EXCEPT !.keys = K, !.deleted = TRUE]
      BY <1>4 DEF DelHeader, K
    <3>. QED  BY <1>1, <3>1
  <2>2. K \in SUBSET (HeaderNames \X {1, 2}) /\ \A k \in K : k[1] \in DOMAIN map /\ k[2] = map[k[1]]
    BY <1>1
  <2>3. TRUE \in BOOLEAN /\ ~TRUE => \A m \in DOMAIN map : <<m, map[m]>> \in K
    OBVIOUS
  <2>. HIDE DEF K
  <2>. DEFINE D == DOMAIN map
  <2>4. /\ D \in SUBSET HeaderNames /\ map \in [D -> {1, 2}] /\ K \in SUBSET (HeaderNames \X {1, 2})
        /\ \A k \in K : k[1] \in D /\ k[2] = map[k[1]]
    BY <1>1, <2>2
  <2>. HIDE DEF D, map
  <2>. QED  BY <2>1, <2>4, DictIsMapped
<1>. QED  BY <1>2, <1>3, <1>4

LEMMA BeginningIsRead ==
  ASSUME NEW d \in Seq({"a", "b"}), NEW m \in 0..Len(d), upload' = [content |-> d, at |-> m, got |-> SubSeq(d, 1, m)]
  PROVE  upload' \in Uploads /\ ReadInOrder'
<1>1. \A i \in 1..m : d[i] \in {"a", "b"}
  BY ElementOfSeq
<1>2. SubSeq(d, 1, m) \in Seq({"a", "b"})
  <2>. DEFINE B == {"a", "b"}
  <2>. HIDE DEF B
  <2>1. SubSeq(d, 1, m) \in Seq(B)
    BY <1>1, SubSeqProperties DEF B
  <2>. QED  BY <2>1 DEF B
<1>. QED  BY <1>2 DEF Uploads, ReadInOrder

LEMMA UploadIsUsed ==
  ASSUME upload \in Uploads, ReadInOrder,
         \/ \E b \in {"a", "b"} : upload' = WriteUpload(upload, b)
         \/ \E size \in 1..2 : upload' = ReadUpload(upload, size)
         \/ upload' = SeekStart(upload)
  PROVE  upload' \in Uploads /\ ReadInOrder'
<1>. DEFINE c == upload.content
            at == upload.at
<1>1. /\ upload = [content |-> c, at |-> at, got |-> upload.got] /\ c \in Seq({"a", "b"}) /\ at \in 0..Len(c) /\ Len(c) \in Nat
      /\ upload.got = SubSeq(c, 1, at)
  BY DEF Uploads, ReadInOrder
<1>. HIDE DEF c, at
<1>2. ASSUME NEW b \in {"a", "b"}, upload' = WriteUpload(upload, b)  PROVE upload' \in Uploads /\ ReadInOrder'
  <2>. DEFINE d == Append(c, b)
  <2>1. d \in Seq({"a", "b"}) /\ Len(d) = Len(c) + 1 /\ \A i \in 1..Len(c) : d[i] = c[i]
    BY <1>1
  <2>. HIDE DEF d
  <2>2. SubSeq(d, 1, at) = SubSeq(c, 1, at)
    <3>1. SubSeq(d, 1, at) = [i \in 1..at |-> d[i]] /\ SubSeq(c, 1, at) = [i \in 1..at |-> c[i]]
      BY <1>1, <2>1
    <3>. QED  BY <1>1, <2>1, <3>1
  <2>3. upload' = [upload EXCEPT !.content = d]
    BY <1>2 DEF WriteUpload, c, d
  <2>4. upload' = [content |-> d, at |-> at, got |-> upload.got]
    <3>1. DOMAIN upload = {"content", "at", "got"} /\ upload.at = at
      BY <1>1 DEF at
    <3>2. [upload EXCEPT !.content = d] = [content |-> d, at |-> upload.at, got |-> upload.got]
      BY <3>1
    <3>. QED  BY <2>3, <3>1, <3>2
  <2>5. upload' = [content |-> d, at |-> at, got |-> SubSeq(d, 1, at)]
    BY <1>1, <2>2, <2>4
  <2>6. at \in 0..Len(d)
    BY <1>1, <2>1
  <2>. QED  BY <2>1, <2>5, <2>6, BeginningIsRead
<1>3. ASSUME NEW size \in 1..2, upload' = ReadUpload(upload, size)  PROVE upload' \in Uploads /\ ReadInOrder'
  <2>. DEFINE m == IF at + size < Len(c) THEN at + size ELSE Len(c)
              part == SubSeq(c, at + 1, m)
  <2>1. m \in at..Len(c)
    BY <1>1
  <2>. HIDE DEF m
  <2>2. Len(part) = m - at
    <3>1. \A i \in at + 1..m : c[i] \in {"a", "b"}
      BY <1>1, <2>1, ElementOfSeq
    <3>2. Len(part) = IF at + 1 <= m THEN m - (at + 1) + 1 ELSE 0
      BY <1>1, <2>1, <3>1, SubSeqProperties
    <3>. QED  BY <1>1, <2>1, <3>2
  <2>3. SubSeq(c, 1, at) \o part = SubSeq(c, 1, m)
    <3>1. 1 \in 1..Len(c) + 1 /\ at \in 1 - 1..Len(c) /\ m \in at..Len(c)
      BY <1>1, <2>1
    <3>. QED  BY <1>1, <3>1, ConcatAdjacentSubSeq DEF part
  <2>. HIDE DEF part
  <2>4. upload' = [content |-> c, at |-> at + Len(part), got |-> upload.got \o part]
    BY <1>3 DEF ReadUpload, Chunk, c, at, m, part
  <2>5. at + Len(part) = m
    BY <1>1, <2>1, <2>2
  <2>6. upload' = [content |-> c, at |-> m, got |-> upload.got \o part]
    BY <2>4, <2>5
  <2>7. upload' = [content |-> c, at |-> m, got |-> SubSeq(c, 1, m)]
    BY <1>1, <2>3, <2>6
  <2>8. m \in 0..Len(c)
    BY <1>1, <2>1
  <2>. QED  BY <1>1, <2>7, <2>8, BeginningIsRead
<1>4. ASSUME upload' = SeekStart(upload)  PROVE upload' \in Uploads /\ ReadInOrder'
  <2>1. SubSeq(c, 1, 0) = <<>>
    BY <1>1, SubSeqEmpty
  <2>2. upload' = [content |-> c, at |-> 0, got |-> SubSeq(c, 1, 0)]
    BY <1>4, <2>1 DEF SeekStart, c
  <2>3. 0 \in 0..Len(c)
    BY <1>1
  <2>. QED  BY <1>1, <2>2, <2>3, BeginningIsRead
<1>. QED  BY <1>2, <1>3, <1>4

LEMMA RepliesStart ==
  ASSUME RepliesInit
  PROVE  RepliesInv
<1>1. ValueIsTold
  BY DEF RepliesInit, ValueIsTold, PlainHandlers
<1>2. KeysAreMapped
  <2>. DEFINE M == << >>
  <2>1. M \in [{} -> {1, 2}]
    OBVIOUS
  <2>2. headers = [keys |-> {}, map |-> M, deleted |-> FALSE] /\ DOMAIN M = {}
    BY DEF RepliesInit
  <2>. HIDE DEF M
  <2>3. M \in UNION {[D -> {1, 2}] : D \in SUBSET HeaderNames}
    BY <2>1
  <2>. DEFINE Maps == UNION {[D -> {1, 2}] : D \in SUBSET HeaderNames}
  <2>4. M \in Maps
    BY <2>3
  <2>. HIDE DEF Maps
  <2>5. headers \in [keys : SUBSET (HeaderNames \X {1, 2}), map : Maps, deleted : BOOLEAN]
    BY <2>2, <2>4
  <2>6. headers \in HeaderDicts
    BY <2>5 DEF HeaderDicts, Maps
  <2>. QED  BY <2>2, <2>6 DEF KeysAreMapped
<1>3. upload \in Uploads /\ ReadInOrder
  <2>1. SubSeq(<<>>, 1, 0) = <<>>
    BY SubSeqEmpty
  <2>. QED  BY <2>1 DEF RepliesInit, NoUpload, Uploads, ReadInOrder
<1>4. pairs \in Seq(QueryKeys \X {"v", "w"})
  BY DEF RepliesInit
<1>. QED  BY <1>1, <1>2, <1>3, <1>4 DEF RepliesInv

LEMMA RepliesKeep ==
  ASSUME RepliesInv, [RepliesNext]_replyVars
  PROVE  RepliesInv'
<1>1. ASSUME NEW v \in Bare \cup Tuples, NEW how \in PlainHandlers, ReturnReply(how, <<v>>)  PROVE RepliesInv'
  <2>1. webHandler' = how /\ returned' = <<v>> /\ webReply' = Serialize(v) /\ UNCHANGED <<headers, pairs, upload>>
    BY <1>1 DEF ReturnReply, Result, PlainHandlers
  <2>2. ValueIsTold'
    BY <2>1 DEF ValueIsTold, PlainHandlers
  <2>. QED  BY <2>1, <2>2 DEF RepliesInv, KeysAreMapped, ReadInOrder
<1>2. ASSUME NEW v \in Bare, NEW w \in Bare, NEW how \in {"generator", "function of generator"}, ReturnReply(how, <<v, w>>)  PROVE RepliesInv'
  <2>1. webHandler' = how /\ UNCHANGED <<headers, pairs, upload>>
    BY <1>2 DEF ReturnReply
  <2>2. ValueIsTold'
    BY <2>1 DEF ValueIsTold, PlainHandlers
  <2>. QED  BY <2>1, <2>2 DEF RepliesInv, KeysAreMapped, ReadInOrder
<1>3. ASSUME NEW v \in Bare \cup Tuples, NEW json \in BOOLEAN, ReturnMade(v, json)  PROVE RepliesInv'
  <2>1. /\ webHandler' = (IF json THEN "jsonify" ELSE "make_response") /\ returned' = <<v>>
        /\ webReply' = (IF json THEN Jsonify(v) ELSE Make(v)) /\ UNCHANGED <<headers, pairs, upload>>
    BY <1>3 DEF ReturnMade
  <2>2. ValueIsTold'
    BY <2>1 DEF ValueIsTold, PlainHandlers
  <2>. QED  BY <2>1, <2>2 DEF RepliesInv, KeysAreMapped, ReadInOrder
<1>4. ASSUME RaiseReply  PROVE RepliesInv'
  <2>1. ValueIsTold'
    BY <1>4 DEF RaiseReply, ValueIsTold, PlainHandlers
  <2>. QED  BY <1>4, <2>1 DEF RaiseReply, RepliesInv, KeysAreMapped, ReadInOrder
<1>5. ASSUME ChangeHeaders  PROVE RepliesInv'
  <2>1. KeysAreMapped'
    BY <1>5, HeaderIsChanged DEF ChangeHeaders, RepliesInv
  <2>. QED  BY <1>5, <2>1 DEF ChangeHeaders, RepliesInv, ValueIsTold, ReadInOrder
<1>6. ASSUME AskWith  PROVE RepliesInv'
  <2>1. pairs' \in Seq(QueryKeys \X {"v", "w"})
    <3>1. PICK k \in QueryKeys, v \in {"v", "w"} : pairs' = Append(pairs, <<k, v>>)
      BY <1>6 DEF AskWith
    <3>. DEFINE P == QueryKeys \X {"v", "w"}
    <3>2. <<k, v>> \in P /\ pairs \in Seq(P)
      BY DEF RepliesInv
    <3>. HIDE DEF P
    <3>3. pairs' \in Seq(P)
      BY <3>1, <3>2
    <3>. QED  BY <3>3 DEF P
  <2>. QED  BY <1>6, <2>1 DEF AskWith, RepliesInv, ValueIsTold, KeysAreMapped, ReadInOrder
<1>7. ASSUME UseUpload  PROVE RepliesInv'
  <2>1. upload' \in Uploads /\ ReadInOrder'
    <3>1. \/ \E b \in {"a", "b"} : upload' = WriteUpload(upload, b)
          \/ \E size \in 1..2 : upload' = ReadUpload(upload, size)
          \/ upload' = SeekStart(upload)
      BY <1>7 DEF UseUpload
    <3>2. upload \in Uploads /\ ReadInOrder
      BY DEF RepliesInv
    <3>. QED  BY <3>1, <3>2, UploadIsUsed
  <2>. QED  BY <1>7, <2>1 DEF UseUpload, RepliesInv, ValueIsTold, KeysAreMapped
<1>8. ASSUME UNCHANGED replyVars  PROVE RepliesInv'
  BY <1>8 DEF replyVars, RepliesInv, ValueIsTold, KeysAreMapped, ReadInOrder
<1>. QED  BY <1>1, <1>2, <1>3, <1>4, <1>5, <1>6, <1>7, <1>8 DEF RepliesNext, PlainHandlers

\* For any routes, paths, threads and requests: the first route that fits serves a request, a
\* handler sees its own request and finds in it what was sent, and what it returns or raises
\* is what the host is told (dispatch.py, api/web.py).
THEOREM WebServesRight == WebSpec /\ RepliesSpec => []WebIsRight
<1>1. WebInv /\ RepliesInv => WebIsRight
  BY WebIsServed, ToldAsReturned, HeadersFound, ArgsFound DEF WebIsRight, RepliesInv
<1>. QED  BY <1>1, WebStart, WebKeeps, RepliesStart, RepliesKeep, PTL DEF WebSpec, RepliesSpec

-----------------------------------------------------------------------------
(* ToolTable: the registry of the built-in tools, and the MCP client         *)

\* A tool is there when its class is; both tables hold the same.
BuiltinTypes ==
  /\ className \in [BuiltinNames -> Nat] /\ runs \in [Mods -> Nat]
  /\ nameOf = {<<n, className[n]>> : n \in {x \in BuiltinNames : className[x] # 0}}
  /\ doing \in [module : {0} \union Mods, tool : Nat]

\* The modules before the one an import is at are complete, and that one up to its tool.
ImportedSoFar ==
  /\ loaded => \A m \in Mods : \A i \in DOMAIN Modules[m] : className[Modules[m][i]] # 0
  /\ doing.module # 0 =>
       /\ \A m \in 1..(doing.module - 1) : \A i \in DOMAIN Modules[m] : className[Modules[m][i]] # 0
       /\ \A i \in DOMAIN Modules[doing.module] : i < doing.tool => className[Modules[doing.module][i]] # 0
       /\ doing.tool \in 1..Len(Modules[doing.module]) => runs[doing.module] # 0

BuiltinInv == BuiltinTypes /\ ImportedSoFar

LEMMA ModulesAreLists ==
  /\ Mods = 1..Len(Modules) /\ Len(Modules) \in Nat /\ 1 \in Mods
  /\ \A m \in Mods : Modules[m] \in Seq(STRING) /\ Len(Modules[m]) \in Nat /\ DOMAIN Modules[m] = 1..Len(Modules[m])
  /\ \A m \in Mods : \A i \in DOMAIN Modules[m] : Modules[m][i] \in BuiltinNames
<1>1. Mods = 1..Len(Modules) /\ Len(Modules) \in Nat /\ 1 \in Mods
  BY ModulesAssumption DEF Mods
<1>2. \A m \in Mods : Modules[m] \in Seq(STRING)
  BY ModulesAssumption, <1>1
<1>3. \A m \in Mods : \A i \in DOMAIN Modules[m] : Modules[m][i] \in BuiltinNames
  BY DEF BuiltinNames
<1>4. \A m \in Mods : Len(Modules[m]) \in Nat /\ DOMAIN Modules[m] = 1..Len(Modules[m])
  BY <1>2
<1>. QED  BY <1>1, <1>2, <1>3, <1>4

LEMMA BuiltinStart ==
  ASSUME BuiltinInit
  PROVE  BuiltinInv
<1>1. BuiltinTypes
  BY DEF BuiltinInit, BuiltinTypes, NoImport
<1>2. ImportedSoFar
  BY DEF BuiltinInit, ImportedSoFar, NoImport
<1>. QED  BY <1>1, <1>2 DEF BuiltinInv

\* A step that registers nothing.
LEMMA NothingRegistered ==
  ASSUME BuiltinInv, UNCHANGED <<className, nameOf>>, runs' \in [Mods -> Nat],
         doing' \in [module : {0} \union Mods, tool : Nat]
  PROVE  BuiltinTypes'
BY DEF BuiltinInv, BuiltinTypes

LEMMA ImportBegins ==
  ASSUME BuiltinInv, Ensure
  PROVE  BuiltinInv'
<1>1. /\ doing' = [module |-> 1, tool |-> 0] /\ UNCHANGED <<className, nameOf, loaded, runs>> /\ ~loaded
  BY DEF Ensure
<1>2. doing' \in [module : {0} \union Mods, tool : Nat]
  BY <1>1, ModulesAreLists
<1>3. BuiltinTypes'
  BY <1>1, <1>2, NothingRegistered DEF BuiltinInv, BuiltinTypes
<1>4. ImportedSoFar'
  BY <1>1, ModulesAreLists DEF ImportedSoFar
<1>. QED  BY <1>3, <1>4 DEF BuiltinInv

LEMMA ModuleIsEntered ==
  ASSUME BuiltinInv, EnterModule
  PROVE  BuiltinInv'
<1>. DEFINE m == doing.module
<1>1. /\ m \in Mods /\ doing.tool = 0 /\ UNCHANGED <<className, nameOf, loaded>>
      /\ doing = [module |-> m, tool |-> 0] /\ runs \in [Mods -> Nat]
  BY DEF EnterModule, BuiltinInv, BuiltinTypes
<1>2. CASE runs[m] > 0 /\ ModuleImported(m)
  <2>1. doing' = [module |-> m, tool |-> Len(Modules[m]) + 1] /\ runs' = runs
    BY <1>1, <1>2 DEF EnterModule
  <2>2. \A i \in DOMAIN Modules[m] : className[Modules[m][i]] # 0
    BY <1>2 DEF ModuleImported, BuiltinInv, BuiltinTypes
  <2>3. BuiltinTypes'
    BY <1>1, <2>1, ModulesAreLists, NothingRegistered
  <2>4. ImportedSoFar'
    BY <1>1, <2>1, <2>2, ModulesAreLists DEF BuiltinInv, ImportedSoFar
  <2>. QED  BY <2>3, <2>4 DEF BuiltinInv
<1>3. CASE ~(runs[m] > 0 /\ ModuleImported(m))
  <2>1. doing' = [module |-> m, tool |-> 1] /\ runs' = [runs EXCEPT ![m] = @ + 1]
    BY <1>1, <1>3 DEF EnterModule
  <2>2. runs' \in [Mods -> Nat] /\ runs'[m] # 0
    BY <1>1, <2>1
  <2>3. BuiltinTypes'
    BY <1>1, <2>1, <2>2, NothingRegistered
  <2>4. ImportedSoFar'
    BY <1>1, <2>1, <2>2, ModulesAreLists DEF BuiltinInv, ImportedSoFar
  <2>. QED  BY <2>3, <2>4 DEF BuiltinInv
<1>. QED  BY <1>2, <1>3

LEMMA ToolIsRegistered ==
  ASSUME BuiltinInv, Register
  PROVE  BuiltinInv'
<1>. DEFINE m == doing.module
            t == doing.tool
            n == Modules[m][t]
<1>1. /\ m \in Mods /\ t \in DOMAIN Modules[m] /\ n \in BuiltinNames /\ UNCHANGED <<loaded, runs>>
      /\ doing = [module |-> m, tool |-> t] /\ runs[m] # 0 /\ runs[m] \in Nat /\ t \in Nat
  BY ModulesAreLists DEF Register, BuiltinInv, BuiltinTypes, ImportedSoFar
<1>2. CASE className[n] \in {0, runs[m]}
  <2>1. /\ className' = [className EXCEPT ![n] = runs[m]] /\ nameOf' = nameOf \cup {<<n, runs[m]>>}
        /\ doing' = [module |-> m, tool |-> t + 1]
    BY <1>1, <1>2 DEF Register
  <2>2. \A x \in BuiltinNames : className'[x] = IF x = n THEN runs[m] ELSE className[x]
    BY <1>1, <2>1 DEF BuiltinInv, BuiltinTypes
  <2>3. className' \in [BuiltinNames -> Nat]
    BY <1>1, <2>1 DEF BuiltinInv, BuiltinTypes
  <2>4. nameOf' = {<<x, className'[x]>> : x \in {y \in BuiltinNames : className'[y] # 0}}
    <3>. HIDE DEF n, m
    <3>1. nameOf = {<<x, className[x]>> : x \in {y \in BuiltinNames : className[y] # 0}}
      BY DEF BuiltinInv, BuiltinTypes
    <3>2. \A p \in nameOf' : p \in {<<x, className'[x]>> : x \in {y \in BuiltinNames : className'[y] # 0}}
      <4>. SUFFICES ASSUME NEW p \in nameOf'  PROVE \E x \in BuiltinNames : className'[x] # 0 /\ p = <<x, className'[x]>>
        OBVIOUS
      <4>1. CASE p = <<n, runs[m]>>
        BY <1>1, <2>2, <4>1
      <4>2. CASE p # <<n, runs[m]>>
        <5>1. PICK x \in BuiltinNames : className[x] # 0 /\ p = <<x, className[x]>>
          BY <2>1, <3>1, <4>2
        <5>2. x # n
          BY <1>2, <4>2, <5>1
        <5>. QED  BY <2>2, <5>1, <5>2
      <4>. QED  BY <4>1, <4>2
    <3>3. \A x \in BuiltinNames : className'[x] # 0 => <<x, className'[x]>> \in nameOf'
      <4>. SUFFICES ASSUME NEW x \in BuiltinNames, className'[x] # 0  PROVE <<x, className'[x]>> \in nameOf'
        OBVIOUS
      <4>1. CASE x = n
        BY <2>1, <2>2, <4>1
      <4>2. CASE x # n
        BY <2>1, <2>2, <3>1, <4>2
      <4>. QED  BY <4>1, <4>2
    <3>. QED  BY <3>2, <3>3
  <2>5. doing' \in [module : {0} \union Mods, tool : Nat]
    BY <1>1, <2>1
  <2>6. BuiltinTypes'
    BY <1>1, <2>3, <2>4, <2>5 DEF BuiltinInv, BuiltinTypes
  <2>7. \A x \in BuiltinNames : className[x] # 0 => className'[x] # 0
    BY <1>1, <2>2
  <2>8. ImportedSoFar'
    <3>1. doing'.module = m /\ doing'.tool = t + 1
      BY <2>1
    <3>2. \A k \in 1..(m - 1) : \A i \in DOMAIN Modules[k] : className'[Modules[k][i]] # 0
      BY <1>1, <2>7, ModulesAreLists DEF BuiltinInv, ImportedSoFar
    <3>3. \A i \in DOMAIN Modules[m] : i < t + 1 => className'[Modules[m][i]] # 0
      <4>. SUFFICES ASSUME NEW i \in DOMAIN Modules[m], i < t + 1  PROVE className'[Modules[m][i]] # 0
        OBVIOUS
      <4>1. CASE i = t
        BY <1>1, <2>2, <4>1
      <4>2. CASE i # t
        <5>1. i < t
          BY <1>1, <4>2, ModulesAreLists
        <5>2. className[Modules[m][i]] # 0
          BY <1>1, <5>1, ModulesAreLists DEF BuiltinInv, ImportedSoFar
        <5>. QED  BY <1>1, <2>7, <5>2, ModulesAreLists
      <4>. QED  BY <4>1, <4>2
    <3>4. loaded' => \A k \in Mods : \A i \in DOMAIN Modules[k] : className'[Modules[k][i]] # 0
      BY <1>1, <2>7, ModulesAreLists DEF BuiltinInv, ImportedSoFar
    <3>. HIDE DEF m, t, n
    <3>. QED  BY <1>1, <3>1, <3>2, <3>3, <3>4 DEF ImportedSoFar
  <2>. QED  BY <2>6, <2>8 DEF BuiltinInv
<1>3. CASE className[n] \notin {0, runs[m]}
  <2>1. doing' = NoImport /\ UNCHANGED <<className, nameOf>>
    BY <1>1, <1>3 DEF Register
  <2>. QED  BY <1>1, <2>1 DEF BuiltinInv, BuiltinTypes, ImportedSoFar, NoImport
<1>. QED  BY <1>2, <1>3

LEMMA ImportBreaksOff ==
  ASSUME BuiltinInv, ImportFails
  PROVE  BuiltinInv'
BY DEF ImportFails, BuiltinInv, BuiltinTypes, ImportedSoFar, NoImport

LEMMA ModuleIsLeft ==
  ASSUME BuiltinInv, LeaveModule
  PROVE  BuiltinInv'
<1>. DEFINE m == doing.module
<1>1. /\ m \in Mods /\ doing.tool = Len(Modules[m]) + 1 /\ UNCHANGED <<className, nameOf, runs>>
      /\ doing \in [module : {0} \union Mods, tool : Nat]
  BY DEF LeaveModule, BuiltinInv, BuiltinTypes
<1>2. \A k \in 1..m : \A i \in DOMAIN Modules[k] : className[Modules[k][i]] # 0
  <2>. SUFFICES ASSUME NEW k \in 1..m, NEW i \in DOMAIN Modules[k]  PROVE className[Modules[k][i]] # 0
    OBVIOUS
  <2>1. CASE k = m
    BY <1>1, <2>1, ModulesAreLists DEF BuiltinInv, ImportedSoFar
  <2>2. CASE k # m
    <3>1. k \in 1..(m - 1) /\ m # 0
      BY <1>1, <2>2, ModulesAreLists
    <3>. QED  BY <3>1 DEF BuiltinInv, ImportedSoFar
  <2>. QED  BY <2>1, <2>2
<1>3. CASE m = Len(Modules)
  <2>1. loaded' = TRUE /\ doing' = NoImport
    BY <1>3 DEF LeaveModule
  <2>. QED  BY <1>1, <1>2, <1>3, <2>1, ModulesAreLists DEF BuiltinInv, BuiltinTypes, ImportedSoFar, NoImport
<1>4. CASE m # Len(Modules)
  <2>1. loaded' = loaded /\ doing' = [module |-> m + 1, tool |-> 0] /\ m + 1 \in Mods
    BY <1>1, <1>4, ModulesAreLists DEF LeaveModule
  <2>2. BuiltinTypes'
    BY <1>1, <2>1, NothingRegistered DEF BuiltinInv, BuiltinTypes
  <2>3. ImportedSoFar'
    <3>1. doing'.module = m + 1 /\ doing'.tool = 0
      BY <2>1
    <3>2. \A k \in 1..(m + 1 - 1) : k \in 1..m
      BY <1>1, ModulesAreLists
    <3>. HIDE DEF m
    <3>. QED  BY <1>1, <1>2, <2>1, <3>1, <3>2, ModulesAreLists DEF BuiltinInv, ImportedSoFar
  <2>. QED  BY <2>2, <2>3 DEF BuiltinInv
<1>. QED  BY <1>3, <1>4

LEMMA BuiltinKeeps ==
  ASSUME BuiltinInv, [BuiltinNext]_bvars
  PROVE  BuiltinInv'
<1>1. ASSUME UNCHANGED bvars  PROVE BuiltinInv'
  BY <1>1 DEF bvars, BuiltinInv, BuiltinTypes, ImportedSoFar
<1>. QED  BY <1>1, ImportBegins, ModuleIsEntered, ToolIsRegistered, ImportBreaksOff, ModuleIsLeft DEF BuiltinNext

LEMMA BuiltinIsComplete ==
  ASSUME BuiltinInv
  PROVE  RegistryComplete
<1>1. \A n \in BuiltinNames : className[n] # 0 => <<n, className[n]>> \in nameOf
  BY DEF BuiltinInv, BuiltinTypes
<1>2. \A p, q \in nameOf : p[1] = q[1] => p = q
  BY DEF BuiltinInv, BuiltinTypes
<1>3. loaded => \A n \in BuiltinNames : className[n] # 0
  <2>. SUFFICES ASSUME loaded, NEW n \in BuiltinNames  PROVE className[n] # 0
    OBVIOUS
  <2>1. PICK m \in Mods : \E i \in DOMAIN Modules[m] : n = Modules[m][i]
    BY DEF BuiltinNames
  <2>. QED  BY <2>1 DEF BuiltinInv, ImportedSoFar
<1>. QED  BY <1>1, <1>2, <1>3 DEF RegistryComplete

LEMMA AbsenceEnablesNothing == NotEnabledByAbsence
<1>. SUFFICES ASSUME NEW c \in Conditions, NEW config \in Configs, c.operator # "truthy", config[c.key] = Missing
              PROVE  ~Enabled({c}, config)
  BY DEF NotEnabledByAbsence
<1>1. Missing \notin c.expected
  BY DEF Conditions, Missing
<1>. QED  BY <1>1 DEF Enabled, Matched

\* Connections are numbered as they begin; one that failed is about to end.
McpTypes ==
  /\ begun \in Nat /\ current \in 0..begun /\ old \subseteq Nat
  /\ task \in [Connections -> {"none", "connecting", "initializing", "up", "closing", "done"}]
  /\ ready \in [Connections -> {"pending", "ok", "error"}]
  /\ user \in [Users -> {"idle", "ready", "listing", "gather"}] /\ mine \in [Users -> Nat]
  /\ waitFor \in [Users -> SUBSET Nat]
  /\ begun <= MaxConnections
  /\ \A k \in Connections : (task[k] = "none" <=> k > begun) /\ (ready[k] = "error" => task[k] \in {"closing", "done"})

Ending(k) == k \in told \/ task[k] \in {"closing", "done"}

\* Users that wait for each other: one works at a time, on the connection the client holds,
\* and what was put aside is about to end.
McpHeld ==
  alone =>
    /\ \A u, v \in Users : user[u] # "idle" /\ user[v] # "idle" => u = v
    /\ \A u \in Users : user[u] = "ready" => mine[u] = current /\ current # 0
    /\ old \subseteq 1..begun /\ \A k \in old : Ending(k)
    /\ \A k \in 1..begun : k = current \/ Ending(k)
    /\ \A u \in Users : waitFor[u] \subseteq 1..begun /\ \A k \in waitFor[u] : Ending(k)

McpInv == McpTypes /\ McpHeld

LEMMA McpStart ==
  ASSUME McpInit
  PROVE  McpInv
BY ConnectionsAssumption DEF McpInit, McpInv, McpTypes, McpHeld, Connections

\* A step of a task: what is about to end stays so.
LEMMA TaskSteps ==
  ASSUME McpInv, NEW k \in Connections,
         OpenSession(k) \/ Initialized(k) \/ ConnectFails(k) \/ Cancelled(k) \/ Closed(k)
  PROVE  McpInv'
<1>1. /\ UNCHANGED <<alone, told, begun, current, old, users>>
      /\ task[k] \notin {"none", "done"} /\ task' = [task EXCEPT ![k] = task'[k]]
      /\ task'[k] \in {"initializing", "up", "closing", "done"}
      /\ task[k] = "closing" => task'[k] = "done"
      /\ ready' \in [Connections -> {"pending", "ok", "error"}]
      /\ \A c \in Connections : ready'[c] = "error" /\ (c # k \/ task'[k] \notin {"closing", "done"}) => ready[c] = "error"
  BY DEF OpenSession, Initialized, ConnectFails, Cancelled, Closed, Pass, client, McpInv, McpTypes
<1>2. \A c \in Connections : task'[c] = IF c = k THEN task'[k] ELSE task[c]
  BY <1>1 DEF McpInv, McpTypes
<1>3. McpTypes'
  <2>1. task' \in [Connections -> {"none", "connecting", "initializing", "up", "closing", "done"}]
    BY <1>1 DEF McpInv, McpTypes
  <2>2. \A c \in Connections : (task'[c] = "none" <=> c > begun) /\ (ready'[c] = "error" => task'[c] \in {"closing", "done"})
    BY <1>1, <1>2 DEF McpInv, McpTypes
  <2>. QED  BY <1>1, <2>1, <2>2 DEF McpInv, McpTypes, users
<1>4. \A c \in 1..begun : Ending(c) => Ending(c)'
  BY <1>1, <1>2, ConnectionsAssumption DEF McpInv, McpTypes, Ending, Connections
<1>5. McpHeld'
  BY <1>1, <1>4 DEF McpInv, McpHeld, users
<1>. QED  BY <1>3, <1>5 DEF McpInv

\* A connection that is put aside is told to end, unless it has.
LEMMA AsideEnds ==
  ASSUME McpInv, PutAside(current)
  PROVE  /\ told \subseteq told' /\ old' \subseteq Nat /\ (current # 0 => current \in told' \/ task[current] = "done")
         /\ alone => old' \subseteq 1..begun /\ \A k \in old' : k \in told' \/ task[k] \in {"closing", "done"}
<1>. DEFINE live == IF current = 0 \/ Done(current) THEN {} ELSE {current}
<1>1. told' = told \cup live /\ old' = {t \in old : ~Done(t)} \cup live
  BY DEF PutAside
<1>2. current # 0 => task[current] # "none" /\ current \in 1..begun
  BY ConnectionsAssumption DEF McpInv, McpTypes, Connections
<1>3. current # 0 => current \in told' \/ task[current] = "done"
  BY <1>1, <1>2 DEF Done
<1>4. old' \subseteq Nat
  <2>1. live \subseteq Nat /\ old \subseteq Nat
    BY DEF McpInv, McpTypes
  <2>2. {t \in old : ~Done(t)} \subseteq Nat
    BY <2>1
  <2>. QED  BY <1>1, <2>1, <2>2
<1>5. ASSUME alone  PROVE old' \subseteq 1..begun /\ \A k \in old' : k \in told' \/ task[k] \in {"closing", "done"}
  BY <1>1, <1>2, <1>5 DEF McpInv, McpHeld, Ending
<1>. QED  BY <1>1, <1>3, <1>4, <1>5

LEMMA Connects ==
  ASSUME McpInv, NEW u \in Users, Connect(u)
  PROVE  McpInv'
<1>. DEFINE k == begun + 1
<1>1. /\ user[u] = "idle" /\ (alone => \A v \in Users : user[v] = "idle") /\ begun < MaxConnections
      /\ begun' = k /\ current' = k /\ task' = [task EXCEPT ![k] = "connecting"]
      /\ mine' = [mine EXCEPT ![u] = k] /\ user' = [user EXCEPT ![u] = "ready"]
      /\ UNCHANGED <<alone, ready, waitFor>> /\ k \in Connections /\ begun \in Nat
  BY ConnectionsAssumption DEF Connect, MayBegin, UserGoes, McpInv, McpTypes, Connections
<1>2. /\ told \subseteq told' /\ old' \subseteq Nat /\ (current # 0 => current \in told' \/ task[current] = "done")
      /\ alone => old' \subseteq 1..begun /\ \A c \in old' : c \in told' \/ task[c] \in {"closing", "done"}
  BY AsideEnds DEF Connect
<1>3. \A c \in Connections : task'[c] = IF c = k THEN "connecting" ELSE task[c]
  BY <1>1 DEF McpInv, McpTypes
<1>4. McpTypes'
  <2>1. \A c \in Connections : (task'[c] = "none" <=> c > begun') /\ (ready'[c] = "error" => task'[c] \in {"closing", "done"})
    BY <1>1, <1>3 DEF McpInv, McpTypes, Connections
  <2>2. begun' \in Nat /\ current' \in 0..begun' /\ old' \subseteq Nat /\ begun' <= MaxConnections
    BY <1>1, <1>2, ConnectionsAssumption
  <2>3. task' \in [Connections -> {"none", "connecting", "initializing", "up", "closing", "done"}]
    BY <1>1 DEF McpInv, McpTypes
  <2>4. user' \in [Users -> {"idle", "ready", "listing", "gather"}] /\ mine' \in [Users -> Nat]
    BY <1>1 DEF McpInv, McpTypes
  <2>5. ready' \in [Connections -> {"pending", "ok", "error"}] /\ waitFor' \in [Users -> SUBSET Nat]
    BY <1>1 DEF McpInv, McpTypes
  <2>. QED  BY <2>1, <2>2, <2>3, <2>4, <2>5 DEF McpTypes
<1>5. \A c \in 1..begun : Ending(c) => Ending(c)'
  BY <1>1, <1>2, <1>3 DEF McpInv, McpTypes, Ending, Connections
<1>6. McpHeld'
  <2>. SUFFICES ASSUME alone  PROVE McpHeld'
    BY <1>1 DEF McpHeld
  <2>1. \A v \in Users : user'[v] = IF v = u THEN "ready" ELSE "idle"
    BY <1>1 DEF McpInv, McpTypes
  <2>2. old' \subseteq 1..begun' /\ \A c \in old' : Ending(c)'
    <3>. SUFFICES ASSUME NEW c \in old'  PROVE c \in 1..begun' /\ Ending(c)'
      OBVIOUS
    <3>1. c \in 1..begun /\ c # k /\ c \in Connections /\ (c \in told' \/ task[c] \in {"closing", "done"})
      BY <1>1, <1>2, ConnectionsAssumption DEF Connections
    <3>. QED  BY <1>1, <1>3, <3>1 DEF Ending
  <2>3. \A c \in 1..begun' : c = current' \/ Ending(c)'
    <3>. SUFFICES ASSUME NEW c \in 1..begun', c # k  PROVE Ending(c)'
      BY <1>1
    <3>1. c \in 1..begun /\ c \in Connections
      BY <1>1, ConnectionsAssumption DEF Connections
    <3>2. CASE c = current
      BY <1>2, <1>3, <3>1, <3>2 DEF Ending
    <3>3. CASE c # current
      BY <1>5, <3>1, <3>3 DEF McpInv, McpHeld
    <3>. QED  BY <3>2, <3>3
  <2>4. \A v \in Users : user'[v] = "ready" => mine'[v] = current' /\ current' # 0
    BY <1>1, <2>1 DEF McpInv, McpTypes
  <2>5. \A v \in Users : waitFor'[v] \subseteq 1..begun' /\ \A c \in waitFor'[v] : Ending(c)'
    BY <1>1, <1>5 DEF McpInv, McpHeld
  <2>6. \A v, w \in Users : user'[v] # "idle" /\ user'[w] # "idle" => v = w
    BY <2>1
  <2>. QED  BY <2>2, <2>3, <2>4, <2>5, <2>6 DEF McpHeld
<1>. QED  BY <1>4, <1>6 DEF McpInv

\* A user that steps while it is at work, or begins when it may.
LEMMA UsersStayApart ==
  ASSUME McpInv, NEW u \in Users, NEW to \in {"idle", "ready", "listing", "gather"}, user' = [user EXCEPT ![u] = to],
         alone, user[u] # "idle" \/ \A v \in Users : user[v] = "idle"
  PROVE  \A v, w \in Users : user'[v] # "idle" /\ user'[w] # "idle" => v = w
BY DEF McpInv, McpTypes, McpHeld

LEMMA ConnectIsCancelled ==
  ASSUME McpInv, NEW u \in Users, ConnectCancelled(u)
  PROVE  McpInv'
<1>1. /\ user[u] = "ready" /\ current' = 0 /\ user' = [user EXCEPT ![u] = "idle"]
      /\ UNCHANGED <<alone, task, ready, begun, mine, waitFor>>
  BY DEF ConnectCancelled, UserGoes
<1>2. /\ told \subseteq told' /\ old' \subseteq Nat /\ (current # 0 => current \in told' \/ task[current] = "done")
      /\ alone => old' \subseteq 1..begun /\ \A c \in old' : c \in told' \/ task[c] \in {"closing", "done"}
  BY AsideEnds DEF ConnectCancelled
<1>3. McpTypes'
  BY <1>1, <1>2 DEF McpInv, McpTypes
<1>4. \A c \in 1..begun : Ending(c) => Ending(c)'
  BY <1>1, <1>2 DEF Ending
<1>5. McpHeld'
  <2>. SUFFICES ASSUME alone  PROVE McpHeld'
    BY <1>1 DEF McpHeld
  <2>1. \A v \in Users : user'[v] = IF v = u THEN "idle" ELSE user[v]
    BY <1>1 DEF McpInv, McpTypes
  <2>2. \A v \in Users : user'[v] # "ready"
    BY <1>1, <2>1 DEF McpInv, McpHeld
  <2>3. \A c \in 1..begun' : c = current' \/ Ending(c)'
    BY <1>1, <1>2, <1>4 DEF McpInv, McpHeld, Ending
  <2>4. old' \subseteq 1..begun' /\ \A c \in old' : Ending(c)'
    BY <1>1, <1>2 DEF Ending
  <2>5. \A v \in Users : waitFor'[v] \subseteq 1..begun' /\ \A c \in waitFor'[v] : Ending(c)'
    BY <1>1, <1>4 DEF McpInv, McpHeld
  <2>. QED  BY <1>1, <2>2, <2>3, <2>4, <2>5, UsersStayApart DEF McpHeld
<1>. QED  BY <1>3, <1>5 DEF McpInv

LEMMA ConnectIsRefused ==
  ASSUME McpInv, NEW u \in Users, Refused(u)
  PROVE  McpInv'
<1>1. /\ user[u] = "ready" /\ ready[mine[u]] = "error" /\ current' = 0 /\ user' = [user EXCEPT ![u] = "idle"]
      /\ old' = (IF current # 0 /\ ~Done(current) THEN old \cup {current} ELSE old)
      /\ UNCHANGED <<alone, task, told, ready, begun, mine, waitFor>>
  BY DEF Refused, UserGoes, tasks
<1>2. McpTypes'
  BY <1>1 DEF McpInv, McpTypes
<1>3. \A c : Ending(c)' = Ending(c)
  BY <1>1 DEF Ending
<1>4. McpHeld'
  <2>. SUFFICES ASSUME alone  PROVE McpHeld'
    BY <1>1 DEF McpHeld
  <2>1. current \in 1..begun /\ current \in Connections /\ Ending(current)
    BY <1>1, ConnectionsAssumption DEF McpInv, McpTypes, McpHeld, Connections, Ending
  <2>2. \A v \in Users : user'[v] = IF v = u THEN "idle" ELSE user[v]
    BY <1>1 DEF McpInv, McpTypes
  <2>3. \A v \in Users : user'[v] # "ready"
    BY <1>1, <2>2 DEF McpInv, McpHeld
  <2>4. old' \subseteq 1..begun' /\ \A c \in old' : Ending(c)'
    BY <1>1, <1>3, <2>1 DEF McpInv, McpHeld
  <2>5. \A c \in 1..begun' : c = current' \/ Ending(c)'
    BY <1>1, <1>3, <2>1 DEF McpInv, McpHeld
  <2>6. \A v \in Users : waitFor'[v] \subseteq 1..begun' /\ \A c \in waitFor'[v] : Ending(c)'
    BY <1>1, <1>3 DEF McpInv, McpHeld
  <2>. QED  BY <1>1, <2>3, <2>4, <2>5, <2>6, UsersStayApart DEF McpHeld
<1>. QED  BY <1>2, <1>4 DEF McpInv

\* Connected, and the list of its tools that comes.
LEMMA ConnectGoesOn ==
  ASSUME McpInv, NEW u \in Users, Connected(u) \/ ToolsListed(u)
  PROVE  McpInv'
<1>1. /\ user[u] # "idle" /\ UNCHANGED <<alone, tasks, client, mine, waitFor>>
      /\ user' = [user EXCEPT ![u] = IF user[u] = "ready" THEN "listing" ELSE "idle"]
  BY DEF Connected, ToolsListed, UserGoes
<1>2. McpTypes'
  BY <1>1 DEF McpInv, McpTypes, tasks, client
<1>3. \A c : Ending(c)' = Ending(c)
  BY <1>1 DEF Ending, tasks
<1>4. McpHeld'
  <2>. SUFFICES ASSUME alone  PROVE McpHeld'
    BY <1>1 DEF McpHeld
  <2>1. \A v \in Users : user'[v] = IF v = u THEN (IF user[u] = "ready" THEN "listing" ELSE "idle") ELSE user[v]
    BY <1>1 DEF McpInv, McpTypes
  <2>2. \A v, w \in Users : user'[v] # "idle" /\ user'[w] # "idle" => v = w
    BY <1>1, <2>1 DEF McpInv, McpHeld
  <2>. QED  BY <1>1, <1>3, <2>1, <2>2 DEF McpInv, McpHeld, tasks, client
<1>. QED  BY <1>2, <1>4 DEF McpInv

LEMMA CleanupBegins ==
  ASSUME McpInv, NEW u \in Users, ListFails(u) \/ Cleanup(u)
  PROVE  McpInv'
<1>1. /\ current' = 0 /\ user' = [user EXCEPT ![u] = "gather"]
      /\ waitFor' = [waitFor EXCEPT ![u] = {t \in old' : ~Done(t)}]
      /\ UNCHANGED <<alone, task, ready, begun, mine>>
      /\ alone => user[u] # "idle" \/ \A v \in Users : user[v] = "idle"
  BY DEF ListFails, Cleanup, BeginCleanup, MayBegin, UserGoes
<1>2. /\ told \subseteq told' /\ old' \subseteq Nat /\ (current # 0 => current \in told' \/ task[current] = "done")
      /\ alone => old' \subseteq 1..begun /\ \A c \in old' : c \in told' \/ task[c] \in {"closing", "done"}
  BY AsideEnds DEF ListFails, Cleanup, BeginCleanup
<1>3. McpTypes'
  <2>1. {t \in old' : ~Done(t)} \in SUBSET Nat
    BY <1>2
  <2>2. waitFor' \in [Users -> SUBSET Nat]
    BY <1>1, <2>1 DEF McpInv, McpTypes
  <2>3. old' \subseteq Nat /\ current' \in 0..begun'
    BY <1>1, <1>2 DEF McpInv, McpTypes
  <2>4. user' \in [Users -> {"idle", "ready", "listing", "gather"}]
    BY <1>1 DEF McpInv, McpTypes
  <2>. QED  BY <1>1, <2>2, <2>3, <2>4 DEF McpInv, McpTypes
<1>4. \A c \in 1..begun : Ending(c) => Ending(c)'
  BY <1>1, <1>2 DEF Ending
<1>5. McpHeld'
  <2>. SUFFICES ASSUME alone  PROVE McpHeld'
    BY <1>1 DEF McpHeld
  <2>1. \A v \in Users : user'[v] = IF v = u THEN "gather" ELSE user[v]
    BY <1>1 DEF McpInv, McpTypes
  <2>2. \A v \in Users : user'[v] # "ready"
    BY <1>1, <2>1 DEF McpInv, McpHeld
  <2>3. \A c \in 1..begun' : c = current' \/ Ending(c)'
    BY <1>1, <1>2, <1>4 DEF McpInv, McpHeld, Ending
  <2>4. old' \subseteq 1..begun' /\ \A c \in old' : Ending(c)'
    BY <1>1, <1>2 DEF Ending
  <2>5. \A v \in Users : waitFor'[v] \subseteq 1..begun' /\ \A c \in waitFor'[v] : Ending(c)'
    BY <1>1, <1>4, <2>4 DEF McpInv, McpTypes, McpHeld
  <2>. QED  BY <1>1, <2>2, <2>3, <2>4, <2>5, UsersStayApart DEF McpHeld
<1>. QED  BY <1>3, <1>5 DEF McpInv

LEMMA CleanupEnds ==
  ASSUME McpInv, NEW u \in Users, Gathered(u)
  PROVE  McpInv'
<1>1. /\ user[u] = "gather" /\ old' = {} /\ waitFor' = [waitFor EXCEPT ![u] = {}] /\ user' = [user EXCEPT ![u] = "idle"]
      /\ UNCHANGED <<alone, tasks, current, mine>>
  BY DEF Gathered, UserGoes
<1>2. McpTypes'
  BY <1>1 DEF McpInv, McpTypes, tasks
<1>3. \A c : Ending(c)' = Ending(c)
  BY <1>1 DEF Ending, tasks
<1>4. McpHeld'
  <2>. SUFFICES ASSUME alone  PROVE McpHeld'
    BY <1>1 DEF McpHeld
  <2>1. \A v \in Users : user'[v] = IF v = u THEN "idle" ELSE user[v]
    BY <1>1 DEF McpInv, McpTypes
  <2>2. \A v \in Users : waitFor'[v] = IF v = u THEN {} ELSE waitFor[v]
    BY <1>1 DEF McpInv, McpTypes
  <2>. QED  BY <1>1, <1>3, <2>1, <2>2, UsersStayApart DEF McpInv, McpHeld, tasks
<1>. QED  BY <1>2, <1>4 DEF McpInv

LEMMA McpKeeps ==
  ASSUME McpInv, [McpNext]_mvars
  PROVE  McpInv'
<1>1. ASSUME UNCHANGED mvars  PROVE McpInv'
  BY <1>1 DEF mvars, tasks, client, users, McpInv, McpTypes, McpHeld, Ending
<1>. QED  BY <1>1, TaskSteps, Connects, ConnectIsCancelled, ConnectIsRefused, ConnectGoesOn, CleanupBegins, CleanupEnds
          DEF McpNext

LEMMA NoneIsLeft ==
  ASSUME McpInv
  PROVE  NoConnectionLeft
BY ConnectionsAssumption DEF McpInv, McpTypes, McpHeld, NoConnectionLeft, Connections, Ending

\* For any modules of tools, imports, users and connections: a registry that was loaded holds
\* every tool and tells the same both ways, nothing is enabled by what a configuration does
\* not say, and with users that wait for each other no connection is left running that was
\* not told to end (registry.py, mcp_client.py).
THEOREM ToolsSafe == BuiltinSpec /\ McpSpec => []ToolsAreRight
<1>1. BuiltinInv /\ McpInv => ToolsAreRight
  BY BuiltinIsComplete, AbsenceEnablesNothing, NoneIsLeft DEF ToolsAreRight
<1>. QED  BY <1>1, BuiltinStart, BuiltinKeeps, McpStart, McpKeeps, PTL DEF BuiltinSpec, McpSpec
=============================================================================
