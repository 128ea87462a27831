------------------------------- MODULE ToolTable -------------------------------
(***************************************************************************)
(* The table of LLM tools (FunctionToolManager of                          *)
(* core/provider/func_tool_manager.py, ToolSet of core/agent/tool.py, the  *)
(* tool methods of core/star/context.py).                                  *)
(*                                                                         *)
(* The table is a list without a lock.  remove_func assigns a new list;    *)
(* add_func removes the name and then appends, and Python loads the list   *)
(* to append to before it builds the tool: a list that was replaced in     *)
(* between takes the tool with it.  Lists may then hold a name twice, and  *)
(* the look-ups answer differently by design.                              *)
(* The second part is the registry of the built-in tools, the third the    *)
(* client of an MCP server; they share no state with the table.            *)
(***************************************************************************)
EXTENDS Naturals, Sequences, SequencesExt, FiniteSets

CONSTANTS
  ToolThreads,   \* threads that use the table
  ToolNames,
  MaxOps         \* bound: operations begun

VARIABLES
  serial,     \* one operation at a time: import, __init__, initialize
  funcs,      \* func_list: records of a name and the tool's identity
  activeTools,  \* the tools whose active flag is set
  step,       \* thread -> where it is in its operation
  op,         \* thread -> the operation and its tool's name
  keptFuncs,  \* thread -> the list its comprehension made
  target,     \* thread -> the list object it will append to: still func_list, or not
  ops,        \* operations begun; a tool's identity is its operation's
  wanted      \* name -> the tool the last finished operation left there, 0 for none

table == <<funcs, activeTools>>
local == <<step, op, keptFuncs, target>>
tvars == <<serial, table, local, ops, wanted>>

NoOp == [kind |-> "none", name |-> "none", id |-> 0]
TableOps == {"add", "remove", "activate", "deactivate"}

TableInit ==
  /\ serial \in BOOLEAN
  /\ funcs = <<>> /\ activeTools = {}
  /\ step = [t \in ToolThreads |-> "idle"]
  /\ op = [t \in ToolThreads |-> NoOp]
  /\ keptFuncs = [t \in ToolThreads |-> <<>>]
  /\ target = [t \in ToolThreads |-> "none"]
  /\ ops = 0
  /\ wanted = [n \in ToolNames |-> 0]

-----------------------------------------------------------------------------
(* Look-ups: the first of a name, or the last active one before the last.   *)

Places(list, name) == {i \in DOMAIN list : list[i].name = name}
First(S) == CHOOSE i \in S : \A j \in S : i <= j
Final(S) == CHOOSE i \in S : \A j \in S : i >= j
Pick(list, S, Which(_)) == IF S = {} THEN 0 ELSE list[Which(S)].id

GetFuncByName(list, name) == Pick(list, Places(list, name), First)

GetFunc(list, name) ==
  LET all == Places(list, name)
      on  == {i \in all : list[i].id \in activeTools}
  IN Pick(list, IF on = {} THEN all ELSE on, Final)

ListFuncs == SelectSeq(funcs, LAMBDA f : f.id \in activeTools)

\* ToolSet.add_tool: a tool replaces its namesake, unless it is inactive and that is not.
PutInSet(set, tool) ==
  LET here == Places(set, tool.name)
  IN IF here = {} THEN Append(set, tool)
     ELSE IF tool.id \in activeTools \/ set[First(here)].id \notin activeTools
          THEN [set EXCEPT ![First(here)] = tool]
          ELSE set

GetFullToolSet(list) == FoldLeft(PutInSet, <<>>, list)

-----------------------------------------------------------------------------
(* The operations                                                           *)

Begin(t, kind, name) ==
  /\ step[t] = "idle"
  /\ serial => \A u \in ToolThreads : step[u] = "idle"
  /\ ops < MaxOps
  /\ ops' = ops + 1
  /\ op' = [op EXCEPT ![t] = [kind |-> kind, name |-> name, id |-> ops']]
  /\ step' = [step EXCEPT ![t] = IF kind \in {"add", "remove"} THEN "filter" ELSE "flag"]
  /\ UNCHANGED <<serial, table, keptFuncs, target, wanted>>

\* mutant: the tools of the name are left in the list.
FilterNothing(t) ==
  /\ step[t] = "filter"
  /\ keptFuncs' = [keptFuncs EXCEPT ![t] = funcs]
  /\ step' = [step EXCEPT ![t] = "assign"]
  /\ UNCHANGED <<serial, table, op, target, ops, wanted>>

\* remove_func: the list of the tools with other names, and its assignment.
Filter(t) ==
  /\ step[t] = "filter"
  /\ keptFuncs' = [keptFuncs EXCEPT ![t] = SelectSeq(funcs, LAMBDA f : f.name # op[t].name)]
  /\ step' = [step EXCEPT ![t] = "assign"]
  /\ UNCHANGED <<serial, table, op, target, ops, wanted>>

Finish(t, tool) ==
  /\ step' = [step EXCEPT ![t] = "idle"]
  /\ op' = [op EXCEPT ![t] = NoOp]
  /\ wanted' = [wanted EXCEPT ![op[t].name] = tool]

Assign(t) ==
  /\ step[t] = "assign"
  /\ funcs' = keptFuncs[t]
  /\ target' = [u \in ToolThreads |-> IF target[u] = "live" THEN "gone" ELSE target[u]]
  /\ keptFuncs' = [keptFuncs EXCEPT ![t] = <<>>]
  /\ IF op[t].kind = "add"
     THEN step' = [step EXCEPT ![t] = "load"] /\ UNCHANGED <<op, wanted>>
     ELSE Finish(t, 0)
  /\ UNCHANGED <<serial, activeTools, ops>>

\* self.func_list.append is evaluated before its argument.
Load(t) ==
  /\ step[t] = "load"
  /\ target' = [target EXCEPT ![t] = "live"]
  /\ step' = [step EXCEPT ![t] = "append"]
  /\ UNCHANGED <<serial, table, op, keptFuncs, ops, wanted>>

AppendTool(t) ==
  /\ step[t] = "append"
  /\ funcs' = IF target[t] = "live"
              THEN Append(funcs, [name |-> op[t].name, id |-> op[t].id]) ELSE funcs
  /\ activeTools' = activeTools \cup {op[t].id}
  /\ target' = [target EXCEPT ![t] = "none"]
  /\ Finish(t, op[t].id)
  /\ UNCHANGED <<serial, keptFuncs, ops>>

\* activate and deactivate take the first of the name, activate_llm_tool and
\* deactivate_llm_tool what get_func returns.
FlagTool(t) ==
  /\ step[t] = "flag"
  /\ \E id \in {GetFuncByName(funcs, op[t].name), GetFunc(funcs, op[t].name)} :
       activeTools' = IF op[t].kind = "activate" THEN activeTools \cup ({id} \ {0}) ELSE activeTools \ {id}
  /\ Finish(t, wanted[op[t].name])
  /\ UNCHANGED <<serial, funcs, keptFuncs, target, ops>>

TableNext ==
  \E t \in ToolThreads :
    \/ \E kind \in TableOps, name \in ToolNames : Begin(t, kind, name)
    \/ Filter(t) \/ Assign(t) \/ Load(t) \/ AppendTool(t) \/ FlagTool(t)

TableSpec == TableInit /\ [][TableNext]_tvars

-----------------------------------------------------------------------------
TableIdle == \A t \in ToolThreads : step[t] = "idle"

\* Operations one after the other, as in an import and an initialize: between them the
\* table holds, for each name, the tool of the last add unless it was removed since, once,
\* and every look-up finds that one.
SerialTableRight ==
  serial /\ TableIdle =>
    \A n \in ToolNames :
      /\ Cardinality(Places(funcs, n)) <= 1
      /\ GetFuncByName(funcs, n) = wanted[n] /\ GetFunc(funcs, n) = wanted[n]

\* However the threads meet - a name may be in the list twice then -, the agent's ToolSet
\* holds each name once and holds the very tool get_func answers.
ToolSetAgrees ==
  LET set == GetFullToolSet(funcs)
  IN \A n \in ToolNames :
       /\ Cardinality(Places(set, n)) <= 1
       /\ GetFuncByName(set, n) = GetFunc(funcs, n)

\* With threads that meet, an add may end with its tool in no list (TLC finds it).
AddedIsThere ==
  TableIdle => \A n \in ToolNames : wanted[n] # 0 => Places(funcs, n) # {}

-----------------------------------------------------------------------------
(* The registry of the built-in tools (core/tools/registry.py).            *)
(*                                                                         *)
(* Importing a module runs its @builtin_tool decorators one after the      *)
(* other.  An import that fails half-way leaves what it has registered and *)
(* is run again, with new classes, by the next ensure_builtin_tools_loaded;*)
(* a module that was imported is never run again.  The rules decide under  *)
(* which configurations a tool is enabled.                                 *)

CONSTANTS
  Modules,     \* _BUILTIN_TOOL_MODULES: a sequence of sequences of tool names
  MaxImports   \* bound: runs of a module

\* A name stands once in the modules.
ASSUME ModulesAssumption ==
  /\ Modules \in Seq(Seq(STRING)) /\ Modules # <<>> /\ MaxImports \in Nat
  /\ \A m, k \in DOMAIN Modules : \A i \in DOMAIN Modules[m], j \in DOMAIN Modules[k] :
       Modules[m][i] = Modules[k][j] => m = k /\ i = j

VARIABLES
  className,  \* _builtin_tool_classes_by_name: name -> its class, 0 for none
  nameOf,     \* _builtin_tool_names_by_class: pairs <<name, class>>
  loaded,     \* _builtin_tools_loaded
  doing,      \* the module and the tool an import is at
  runs,       \* module -> how often it was run
  failed,     \* an import has failed for a reason outside the registry
  conflict    \* a name conflict was raised

bvars == <<className, nameOf, loaded, doing, runs, failed, conflict>>

Mods  == DOMAIN Modules
BuiltinNames == UNION {{Modules[m][i] : i \in DOMAIN Modules[m]} : m \in Mods}
NoImport == [module |-> 0, tool |-> 0]

BuiltinInit ==
  /\ className = [n \in BuiltinNames |-> 0] /\ nameOf = {}
  /\ loaded = FALSE /\ doing = NoImport
  /\ runs = [m \in Mods |-> 0]
  /\ failed = FALSE /\ conflict = FALSE

\* ensure_builtin_tools_loaded begins with the first module; one already imported is skipped.
Ensure ==
  /\ ~loaded /\ doing = NoImport /\ runs[1] < MaxImports
  /\ doing' = [module |-> 1, tool |-> 0]
  /\ UNCHANGED <<className, nameOf, loaded, runs, failed, conflict>>

ModuleImported(m) == \A i \in DOMAIN Modules[m] : <<Modules[m][i], runs[m]>> \in nameOf

EnterModule ==
  /\ doing.module # 0 /\ doing.tool = 0
  /\ IF runs[doing.module] > 0 /\ ModuleImported(doing.module)
     THEN doing' = [doing EXCEPT !.tool = Len(Modules[doing.module]) + 1] /\ runs' = runs
     ELSE /\ doing' = [doing EXCEPT !.tool = 1]
          /\ runs[doing.module] < MaxImports
          /\ runs' = [runs EXCEPT ![doing.module] = @ + 1]
  /\ UNCHANGED <<className, nameOf, loaded, failed, conflict>>

\* builtin_tool: a name that another class holds is a ValueError.
Register ==
  LET m == doing.module
      n == Modules[m][doing.tool]
  IN /\ doing.module # 0 /\ doing.tool \in 1 .. Len(Modules[doing.module])
     /\ IF className[n] \in {0, runs[m]}
        THEN /\ className' = [className EXCEPT ![n] = runs[m]]
             /\ nameOf' = nameOf \cup {<<n, runs[m]>>}
             /\ doing' = [doing EXCEPT !.tool = @ + 1]
             /\ conflict' = conflict
        ELSE /\ conflict' = TRUE /\ doing' = NoImport
             /\ UNCHANGED <<className, nameOf>>
     /\ UNCHANGED <<loaded, runs, failed>>

\* The module raises between two decorators.
ImportFails ==
  /\ doing.module # 0 /\ doing.tool \in 1 .. Len(Modules[doing.module])
  /\ doing' = NoImport /\ failed' = TRUE
  /\ UNCHANGED <<className, nameOf, loaded, runs, conflict>>

LeaveModule ==
  /\ doing.module # 0 /\ doing.tool = Len(Modules[doing.module]) + 1
  /\ IF doing.module = Len(Modules)
     THEN loaded' = TRUE /\ doing' = NoImport
     ELSE loaded' = loaded /\ doing' = [module |-> doing.module + 1, tool |-> 0]
  /\ UNCHANGED <<className, nameOf, runs, failed, conflict>>

BuiltinNext == Ensure \/ EnterModule \/ Register \/ ImportFails \/ LeaveModule

BuiltinSpec == BuiltinInit /\ [][BuiltinNext]_bvars

-----------------------------------------------------------------------------
(* The rules.  A value is 0 (false in a test), 1, or Missing.               *)

ConfigKeys    == {"k", "l"}
Missing == 3
Configs == [ConfigKeys -> {0, 1, Missing}]
Conditions == [key : ConfigKeys, operator : {"equals", "in", "truthy"}, expected : {{0}, {1}, {0, 1}}]

\* BuiltinToolConfigCondition.evaluate; the sentinel of a missing key is truthy.
Matched(c, config) ==
  IF c.operator = "truthy" THEN config[c.key] # 0 ELSE config[c.key] \in c.expected

\* get_builtin_tool_config_statuses
Enabled(conditions, config) ==
  conditions # {} /\ \A c \in conditions : Matched(c, config)

-----------------------------------------------------------------------------
\* Both tables tell the same: the class a name stands for carries that name; and once the
\* registry says it is loaded it holds every tool of every module.
RegistryComplete ==
  /\ \A n \in BuiltinNames : className[n] # 0 => <<n, className[n]>> \in nameOf
  /\ \A p, q \in nameOf : p[1] = q[1] => p = q
  /\ loaded => \A n \in BuiltinNames : className[n] # 0

\* No tool is enabled by a configuration that lacks the keys its rule compares.
NotEnabledByAbsence ==
  \A c \in Conditions, config \in Configs :
    c.operator # "truthy" /\ config[c.key] = Missing => ~Enabled({c}, config)

\* A failed import is cured by the next call (TLC finds that the classes of the failed run
\* stand in the way of the new ones for ever).
RetryCures == ~conflict

-----------------------------------------------------------------------------
(* MCPClient of core/provider/func_tool_manager.py: one connection to an   *)
(* MCP server, held by a task of its own.  Everything runs on one asyncio  *)
(* loop: an action is what happens between two awaits.                     *)
(*                                                                         *)
(* connect_to_server ends the task there is, starts a new one and awaits   *)
(* the future that task resolves; cleanup ends the task and awaits all the *)
(* tasks that were ever put aside.  Both look at self._connection_task     *)
(* after their await, which may be another caller's by then.               *)

CONSTANTS
  Users,          \* coroutines that use the client
  MaxConnections  \* bound: connections begun

ASSUME ConnectionsAssumption == MaxConnections \in Nat

VARIABLES
  alone,      \* the users wait for each other
  task,       \* connection -> the state of its task
  told,       \* connections whose task was cancelled
  ready,      \* connection -> its ready future
  begun,      \* connections begun
  current,    \* _connection_task, 0 for None
  old,        \* _old_connection_tasks
  session,    \* the connection whose session is self.session, 0 for None
  user,       \* user -> where it is
  mine,       \* user -> the connection it awaits
  waitFor     \* user -> the tasks its cleanup gathers

tasks  == <<task, told, ready, begun>>
client == <<current, old, session>>
users  == <<user, mine, waitFor>>
mvars  == <<alone, tasks, client, users>>

Connections == 1 .. MaxConnections
Done(k) == task[k] \in {"none", "done"}

McpInit ==
  /\ alone \in BOOLEAN
  /\ task = [k \in Connections |-> "none"] /\ told = {}
  /\ ready = [k \in Connections |-> "pending"] /\ begun = 0
  /\ current = 0 /\ old = {} /\ session = 0
  /\ user = [u \in Users |-> "idle"]
  /\ mine = [u \in Users |-> 0]
  /\ waitFor = [u \in Users |-> {}]

-----------------------------------------------------------------------------
(* The task of a connection: _run_connection, _do_connect                   *)

Pass(k, from, to) == task[k] \in from /\ task' = [task EXCEPT ![k] = to]

\* ClientSession is entered and assigned, then initialized.
OpenSession(k) ==
  /\ k \notin told /\ Pass(k, {"connecting"}, "initializing")
  /\ session' = k
  /\ UNCHANGED <<alone, told, ready, begun, current, old, users>>

Initialized(k) ==
  /\ k \notin told /\ Pass(k, {"initializing"}, "up")
  /\ ready' = [ready EXCEPT ![k] = "ok"]
  /\ UNCHANGED <<alone, told, begun, client, users>>

ConnectFails(k) ==
  /\ k \notin told /\ Pass(k, {"connecting", "initializing"}, "closing")
  /\ ready' = [ready EXCEPT ![k] = "error"]
  /\ UNCHANGED <<alone, told, begun, client, users>>

\* CancelledError is no Exception: ready is resolved when the stack is closed.
Cancelled(k) ==
  /\ k \in told /\ Pass(k, {"connecting", "initializing", "up"}, "closing")
  /\ UNCHANGED <<alone, told, ready, begun, client, users>>

Closed(k) ==
  /\ Pass(k, {"closing"}, "done")
  /\ ready' = IF ready[k] = "pending" THEN [ready EXCEPT ![k] = "error"] ELSE ready
  /\ UNCHANGED <<alone, told, begun, client, users>>

-----------------------------------------------------------------------------
(* The users                                                                *)

UserGoes(u, at) == user' = [user EXCEPT ![u] = at]
MayBegin(u) == user[u] = "idle" /\ (alone => \A v \in Users : user[v] = "idle")

\* mutant: the task is put aside without being cancelled.
SetAside(k) ==
  LET live == IF k = 0 \/ Done(k) THEN {} ELSE {k}
  IN told' = told /\ old' = {t \in old : ~Done(t)} \cup live

\* _cancel_connection_task
PutAside(k) ==
  LET live == IF k = 0 \/ Done(k) THEN {} ELSE {k}
  IN told' = told \cup live /\ old' = {t \in old : ~Done(t)} \cup live

Connect(u) ==
  /\ MayBegin(u) /\ begun < MaxConnections
  /\ PutAside(current)
  /\ begun' = begun + 1 /\ current' = begun'
  /\ task' = [task EXCEPT ![begun'] = "connecting"]
  /\ mine' = [mine EXCEPT ![u] = begun']
  /\ UserGoes(u, "ready")
  /\ UNCHANGED <<alone, ready, session, waitFor>>

\* The connect is cancelled while it awaits the future, by a wait_for of the plugin.
ConnectCancelled(u) ==
  /\ user[u] = "ready" /\ ready[mine[u]] = "pending"
  /\ PutAside(current)
  /\ current' = 0
  /\ UserGoes(u, "idle")
  /\ UNCHANGED <<alone, task, ready, begun, session, mine, waitFor>>

Refused(u) ==
  /\ user[u] = "ready" /\ ready[mine[u]] = "error"
  /\ old' = IF current # 0 /\ ~Done(current) THEN old \cup {current} ELSE old
  /\ current' = 0
  /\ UserGoes(u, "idle")
  /\ UNCHANGED <<alone, tasks, session, mine, waitFor>>

Connected(u) ==
  /\ user[u] = "ready" /\ ready[mine[u]] = "ok"
  /\ UserGoes(u, "listing")
  /\ UNCHANGED <<alone, tasks, client, mine, waitFor>>

\* list_tools_and_save
ToolsListed(u) ==
  /\ user[u] = "listing" /\ session # 0 /\ task[session] = "up"
  /\ UserGoes(u, "idle")
  /\ UNCHANGED <<alone, tasks, client, mine, waitFor>>

\* cleanup up to its await, and after it
BeginCleanup(u) ==
  /\ PutAside(current)
  /\ current' = 0
  /\ waitFor' = [waitFor EXCEPT ![u] = {t \in old' : ~Done(t)}]
  /\ UserGoes(u, "gather")
  /\ UNCHANGED <<alone, task, ready, begun, session, mine>>

ListFails(u) == user[u] = "listing" /\ BeginCleanup(u)
Cleanup(u)   == MayBegin(u) /\ BeginCleanup(u)

Gathered(u) ==
  /\ user[u] = "gather" /\ \A t \in waitFor[u] : Done(t)
  /\ old' = {} /\ session' = 0
  /\ waitFor' = [waitFor EXCEPT ![u] = {}]
  /\ UserGoes(u, "idle")
  /\ UNCHANGED <<alone, tasks, current, mine>>

McpNext ==
  \/ \E k \in Connections :
       OpenSession(k) \/ Initialized(k) \/ ConnectFails(k) \/ Cancelled(k) \/ Closed(k)
  \/ \E u \in Users :
       \/ Connect(u) \/ ConnectCancelled(u) \/ Refused(u) \/ Connected(u)
       \/ ToolsListed(u) \/ ListFails(u) \/ Cleanup(u) \/ Gathered(u)

McpSpec == McpInit /\ [][McpNext]_mvars

-----------------------------------------------------------------------------
\* When the users wait for each other, a connection that was not told to end is the one
\* the client holds: none is left running behind its back, and cleanup awaits only tasks
\* that are about to end, so it ends too.
NoConnectionLeft ==
  alone =>
    /\ \A k \in Connections : task[k] \in {"connecting", "initializing", "up"} =>
         k = current \/ k \in told
    /\ \A u \in Users : \A k \in waitFor[u] : k \in told \/ task[k] \in {"closing", "done"}

\* An idle client has no session, or that of the connection it holds (TLC finds that a
\* failed reconnect leaves the closed session of the connection before).
SessionIsHeld ==
  alone /\ (\A u \in Users : user[u] = "idle") => session \in {0, current}

-----------------------------------------------------------------------------
\* The registry of the built-in tools is complete and tells the same both ways, no rule
\* enables a tool by what a configuration does not say, and no connection to an MCP server
\* is left behind (registry.py, mcp_client.py).
ToolsAreRight == RegistryComplete /\ NotEnabledByAbsence /\ NoConnectionLeft
===============================================================================
