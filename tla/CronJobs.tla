------------------------------- MODULE CronJobs -------------------------------
(***************************************************************************)
(* Scheduled jobs of plugins (core/utils/cron_manager.py), the bridge      *)
(* calls they are forwarded with (cron_create to cron_run_now) and the RPC *)
(* that fires them (FeedCronJob in _bridge/dispatch.py).                   *)
(*                                                                         *)
(* A CronJobManager forwards every operation to the Go host and keeps a    *)
(* local mirror: the record, the handler and, when the host did not take   *)
(* the job, a trigger in the local scheduler.  Each Context builds one     *)
(* manager, and the module variable _manager is the last one built.        *)
(*                                                                         *)
(* A member of Adds is one add_basic_job or add_active_job call: it names  *)
(* the job id the host would give and the uuid of the local fallback.  A   *)
(* member of Edits is one update_job, delete_job, run_job_now or list_jobs *)
(* call.  A member of Runs is one trigger of a job, by the host or by the  *)
(* local scheduler.  The calls are coroutines of one loop: a step is what  *)
(* runs between two awaits, and the RPC is awaited in a worker thread.     *)
(***************************************************************************)
EXTENDS FiniteSets

CONSTANTS
  Managers,      \* CronJobManager objects, one per Context
  Adds,          \* add_basic_job and add_active_job calls
  Edits,         \* calls that name a job, and list_jobs calls
  Runs,          \* triggers
  Handlers,      \* handlers given by plugins
  Async,         \* the coroutine functions among them
  NoOne          \* None: no manager, no handler and no job

Jobs    == Adds \X {"host", "local"}
Calls   == Adds \cup Edits
HostId(a)  == <<a, "host">>
LocalId(a) == <<a, "local">>

ASSUME CallsAssumption ==
  /\ Adds \cap Edits = {}
  /\ Async \subseteq Handlers
  /\ NoOne \notin Jobs \cup Managers \cup Handlers

VARIABLES
  orderly,       \* do the plugins refrain from what Serial names, from the start on
  manager,       \* the module variable _manager
  built,         \* the managers built so far
  \* the mirror, of the manager that owns the job
  record,        \* _jobs: the job_type of the record
  enabled,       \* and its enabled flag
  handler,       \* _basic_handlers
  forwarded,     \* _host_jobs
  trigger,       \* the local scheduler's job: the callback it runs
  \* the host
  hosted,        \* its job table
  \* calls
  stage,         \* where the call is
  owner,         \* the manager it is made on
  reply,         \* what the RPC brought back
  op, target,    \* of an edit: the operation and the job
  change,        \* of an update: what it is given
  answer,        \* of an edit: whose answer it returned
  listing,       \* of a list_jobs call: the host's answer
  known,         \* the job ids plugins have been told
  \* triggers
  run, of, using \* where the run is, its job, the handler it looked up

mirror == <<record, enabled, handler, forwarded, trigger>>
calls  == <<stage, owner, reply, op, target, change, answer, listing, known>>
runs   == <<run, of, using>>
vars   == <<orderly, manager, built, mirror, hosted, calls, runs>>

Types   == {"none", "cron", "basic", "active_agent"}
Stages  == {"new", "asked", "answered", "done"}
Replies == {"none", "empty", "on", "off", "ack"}
Ops     == {"none", "update", "delete", "runNow", "list"}
Flags   == {"keep", "on", "off"}
\* the keyword arguments of update_job: is one of them a field of the host's,
\* what becomes of enabled (which is one), and the handler.
Changes == {ch \in [fields : BOOLEAN, flag : Flags, handler : Handlers \cup {NoOne}] :
              ch.flag # "keep" => ch.fields}
NoChange == [fields |-> FALSE, flag |-> "keep", handler |-> NoOne]
Answers == {"none", "host", "local", "nothing"}
RunStages == {"idle", "fed", "refused", "accepted", "threaded", "looked", "running",
              "skipped", "done"}

-----------------------------------------------------------------------------
Init ==
  /\ orderly \in BOOLEAN
  /\ manager = NoOne /\ built = {}
  /\ record  = [j \in Jobs |-> "none"]
  /\ enabled = [j \in Jobs |-> FALSE]
  /\ handler = [j \in Jobs |-> NoOne]
  /\ forwarded = {}
  /\ trigger = [j \in Jobs |-> "none"]
  /\ hosted  = [j \in Jobs |-> "absent"]
  /\ stage   = [c \in Calls |-> "new"]
  /\ owner   = [c \in Calls |-> NoOne]
  /\ reply   = [c \in Calls |-> "none"]
  /\ op      = [e \in Edits |-> "none"]
  /\ target  = [e \in Edits |-> NoOne]
  /\ change  = [e \in Edits |-> NoChange]
  /\ answer  = [e \in Edits |-> "none"]
  /\ listing = [e \in Edits |-> {}]
  /\ known   = {}
  /\ run     = [r \in Runs |-> "idle"]
  /\ of      = [r \in Runs |-> NoOne]
  /\ using   = [r \in Runs |-> NoOne]

\* CronJobManager.__init__: a Context builds a manager, the singleton is it.
Build(m) ==
  /\ m \notin built
  /\ built' = built \cup {m}
  /\ manager' = m
  /\ UNCHANGED <<orderly, mirror, hosted, calls, runs>>

Owner(j) == owner[j[1]]

\* mutant: every record is scheduled with the callback of a basic job.
TriggersBasic(type) == {"basic", "none"}

\* _schedule_job: the callback depends on the job_type; _build_trigger may find
\* no trigger for the expression, and then nothing is scheduled.
Triggers(type) == {IF type = "basic" THEN "basic" ELSE "active", "none"}

-----------------------------------------------------------------------------
(* _host_call: the call is awaited in a worker thread *)

edits == <<op, target, change, answer, listing, known>>

Move(c, to) == stage' = [stage EXCEPT ![c] = to]

Answer(c, r) == Move(c, "answered") /\ reply' = [reply EXCEPT ![c] = r]

\* the bridge is there: the RPC is made.
Ask(c, m) ==
  /\ stage[c] = "new" /\ m \in built
  /\ Move(c, "asked")
  /\ owner' = [owner EXCEPT ![c] = m]
  /\ UNCHANGED reply

\* there is no bridge: (False, None) at once, without leaving the loop.
NoBridge(c, m) ==
  /\ stage[c] = "new" /\ m \in built
  /\ owner' = [owner EXCEPT ![c] = m]
  /\ UNCHANGED reply

\* the RPC is back, and the coroutine goes on.
Back(c, m) ==
  /\ stage[c] = "answered" /\ m = owner[c]
  /\ UNCHANGED <<owner, reply>>

\* the bridge catches the error and returns an empty snapshot, False or [].
RpcFails(c) ==
  /\ stage[c] = "asked"
  /\ Answer(c, "empty")
  /\ UNCHANGED <<orderly, manager, built, mirror, hosted, owner, edits, runs>>

-----------------------------------------------------------------------------
(* add_basic_job, add_active_job *)

Add(a, m) ==
  /\ Ask(a, m)
  /\ UNCHANGED <<orderly, manager, built, mirror, hosted, edits, runs>>

\* CronCreate at the host; the answer may be lost on its way back.
HostCreates(a) ==
  /\ stage[a] = "asked"
  /\ hosted' = [hosted EXCEPT ![HostId(a)] = "on"]
  /\ \E r \in {"on", "empty"} : Answer(a, r)
  /\ UNCHANGED <<orderly, manager, built, mirror, owner, edits, runs>>

\* the host took the job: record and handler, no local trigger.
AddForwarded(a) ==
  /\ Back(a, owner[a]) /\ reply[a] = "on"
  /\ record'  = [record EXCEPT ![HostId(a)] = "cron"]
  /\ enabled' = [enabled EXCEPT ![HostId(a)] = TRUE]
  /\ \E h \in Handlers \cup {NoOne} : handler' = [handler EXCEPT ![HostId(a)] = h]
  /\ forwarded' = forwarded \cup {HostId(a)}
  /\ known' = known \cup {HostId(a)}
  /\ Move(a, "done")
  /\ UNCHANGED <<orderly, manager, built, trigger, hosted, op, target, change, answer, listing, runs>>

\* local fallback: the record under a uuid and, if enabled, its trigger.
AddLocal(a, m) ==
  /\ NoBridge(a, m) \/ (Back(a, m) /\ reply[a] = "empty")
  /\ \E h \in Handlers \cup {NoOne}, on \in BOOLEAN :
       LET type == IF h = NoOne THEN "active_agent" ELSE "basic"
       IN  /\ record'  = [record EXCEPT ![LocalId(a)] = type]
           /\ handler' = [handler EXCEPT ![LocalId(a)] = h]
           /\ enabled' = [enabled EXCEPT ![LocalId(a)] = on]
           /\ \E t \in IF on THEN Triggers(type) ELSE {"none"} :
                trigger' = [trigger EXCEPT ![LocalId(a)] = t]
  /\ known' = known \cup {LocalId(a)}
  /\ Move(a, "done")
  /\ UNCHANGED <<orderly, manager, built, forwarded, hosted, op, target, change, answer, listing, runs>>

-----------------------------------------------------------------------------
(* update_job, delete_job, run_job_now, list_jobs *)

Busy(j)    == \E e \in Edits : target[e] = j /\ stage[e] \in {"asked", "answered"}
Deleted(j) == \E e \in Edits : target[e] = j /\ op[e] = "delete" /\ stage[e] = "done"

\* the plugins edit a job in one call at a time, once add has returned (list_jobs
\* may name the job before that) and until it is deleted.
Serial(j) ==
  orderly => stage[j[1]] = "done" /\ ~Busy(j) /\ ~Deleted(j)

Name(e, o, j) ==
  /\ op' = [op EXCEPT ![e] = o]
  /\ target' = [target EXCEPT ![e] = j]

Edit(e, o, j) ==
  /\ j \in known /\ Serial(j)
  /\ Ask(e, Owner(j)) /\ Name(e, o, j)
  /\ UNCHANGED <<orderly, manager, built, mirror, hosted, answer, listing, known, runs>>

\* the fields the host has are forwarded; the handler is not one of them.
Update(e, j, ch) ==
  /\ ch.fields
  /\ Edit(e, "update", j)
  /\ change' = [change EXCEPT ![e] = ch]

HostUpdates(e) ==
  LET j == target[e] IN
  /\ stage[e] = "asked" /\ op[e] = "update" /\ hosted[j] # "absent"
  /\ hosted' = IF change[e].flag = "keep" THEN hosted
               ELSE [hosted EXCEPT ![j] = change[e].flag]
  /\ \E r \in {hosted'[j], "empty"} : Answer(e, r)
  /\ UNCHANGED <<orderly, manager, built, mirror, owner, edits, runs>>

\* the host's snapshot replaces the record.
UpdateForwarded(e) ==
  LET j == target[e] IN
  /\ Back(e, owner[e]) /\ op[e] = "update" /\ reply[e] \in {"on", "off"}
  /\ record'  = [record EXCEPT ![j] = "cron"]
  /\ enabled' = [enabled EXCEPT ![j] = (reply[e] = "on")]
  /\ forwarded' = forwarded \cup {j}
  /\ Move(e, "done")
  /\ answer' = [answer EXCEPT ![e] = "host"]
  /\ UNCHANGED <<orderly, manager, built, handler, trigger, hosted, op, target, change, listing, known, runs>>

\* local fallback: the record is changed and its trigger made anew.
Amend(e, j, ch) ==
  /\ UNCHANGED <<orderly, manager, built, record, forwarded, hosted, listing, known, runs>>
  /\ Move(e, "done")
  /\ \/ /\ record[j] = "none"
        /\ answer' = [answer EXCEPT ![e] = "nothing"]
        /\ UNCHANGED <<enabled, handler, trigger>>
     \/ /\ record[j] # "none"
        /\ answer' = [answer EXCEPT ![e] = "local"]
        /\ enabled' = IF ch.flag = "keep" THEN enabled
                      ELSE [enabled EXCEPT ![j] = (ch.flag = "on")]
        /\ handler' = IF ch.handler = NoOne THEN handler
                      ELSE [handler EXCEPT ![j] = ch.handler]
        /\ \E t \in IF enabled'[j] THEN Triggers(record[j]) ELSE {"none"} :
             trigger' = [trigger EXCEPT ![j] = t]

\* nothing for the host, or no bridge: no await before the fallback.
UpdateLocal(e, j, ch) ==
  /\ j \in known /\ Serial(j)
  /\ NoBridge(e, Owner(j)) /\ Name(e, "update", j)
  /\ change' = [change EXCEPT ![e] = ch]
  /\ Amend(e, j, ch)

UpdateFallsBack(e) ==
  /\ Back(e, owner[e]) /\ op[e] = "update" /\ reply[e] = "empty"
  /\ UNCHANGED <<op, target, change>>
  /\ Amend(e, target[e], change[e])

\* delete_job's cleaning of the mirror, whatever the host answered.
Clean(j, e) ==
  /\ forwarded' = forwarded \ {j}
  /\ trigger' = [trigger EXCEPT ![j] = "none"]
  /\ record'  = [record EXCEPT ![j] = "none"]
  /\ enabled' = [enabled EXCEPT ![j] = FALSE]
  /\ handler' = [handler EXCEPT ![j] = NoOne]

Delete(e, j) == Edit(e, "delete", j) /\ UNCHANGED change

HostDeletes(e) ==
  /\ stage[e] = "asked" /\ op[e] = "delete"
  /\ hosted' = [hosted EXCEPT ![target[e]] = "absent"]
  /\ \E r \in {"ack", "empty"} : Answer(e, r)
  /\ UNCHANGED <<orderly, manager, built, mirror, owner, edits, runs>>

DeleteLocal(e, j) ==
  /\ j \in known /\ Serial(j)
  /\ NoBridge(e, Owner(j)) /\ Name(e, "delete", j)
  /\ Clean(j, e)
  /\ Move(e, "done")
  /\ UNCHANGED <<orderly, manager, built, hosted, change, answer, listing, known, runs>>

DeleteReturns(e) ==
  /\ Back(e, owner[e]) /\ op[e] = "delete"
  /\ Clean(target[e], e)
  /\ Move(e, "done")
  /\ UNCHANGED <<orderly, manager, built, hosted, edits, runs>>

RunNow(e, j) == Edit(e, "runNow", j) /\ UNCHANGED change

\* CronRunNow: the host triggers a run of its job, as when its time comes.
HostRuns(e, r) ==
  LET j == target[e] IN
  /\ stage[e] = "asked" /\ op[e] = "runNow"
  /\ hosted[j] # "absent" /\ run[r] = "idle"
  /\ run' = [run EXCEPT ![r] = "fed"]
  /\ of'  = [of EXCEPT ![r] = j]
  /\ \E a \in {"ack", "empty"} : Answer(e, a)
  /\ UNCHANGED <<orderly, manager, built, mirror, hosted, owner, edits, using>>

\* _host_call made the RPC: (True, _), whether it returned True or False.
RunNowReturns(e) ==
  /\ Back(e, owner[e]) /\ op[e] = "runNow"
  /\ answer' = [answer EXCEPT ![e] = IF reply[e] = "ack" THEN "host" ELSE "nothing"]
  /\ Move(e, "done")
  /\ UNCHANGED <<orderly, manager, built, mirror, hosted, op, target, change, listing, known, runs>>

\* without a bridge a basic job's handler is called; awaiting it is left out.
RunNowLocal(e, j, r) ==
  /\ j \in known /\ Serial(j)
  /\ NoBridge(e, Owner(j)) /\ Name(e, "runNow", j)
  /\ Move(e, "done")
  /\ \/ /\ record[j] = "basic" /\ handler[j] # NoOne /\ run[r] = "idle"
        /\ run'   = [run EXCEPT ![r] = "running"]
        /\ of'    = [of EXCEPT ![r] = j]
        /\ using' = [using EXCEPT ![r] = handler[j]]
        /\ answer' = [answer EXCEPT ![e] = "local"]
     \/ /\ record[j] # "basic" \/ handler[j] = NoOne
        /\ answer' = [answer EXCEPT ![e] = "nothing"]
        /\ UNCHANGED runs
  /\ UNCHANGED <<orderly, manager, built, mirror, hosted, change, listing, known>>

List(e, m) ==
  /\ Ask(e, m) /\ Name(e, "list", NoOne)
  /\ UNCHANGED <<orderly, manager, built, mirror, hosted, change, answer, listing, known, runs>>

\* CronList: the host's jobs of this plugin.
HostLists(e) ==
  /\ stage[e] = "asked" /\ op[e] = "list"
  /\ listing' = [listing EXCEPT ![e] =
                   {j \in Jobs : hosted[j] # "absent" /\ Owner(j) = owner[e]}]
  /\ Answer(e, "ack")
  /\ UNCHANGED <<orderly, manager, built, mirror, hosted, owner, op, target, change, answer, known, runs>>

\* the bridge's empty list on an error is taken for the host's answer.
ListReturns(e) ==
  /\ Back(e, owner[e]) /\ op[e] = "list"
  /\ forwarded' = forwarded \cup listing[e]
  /\ known' = known \cup listing[e]
  /\ answer' = [answer EXCEPT ![e] = "host"]
  /\ Move(e, "done")
  /\ UNCHANGED <<orderly, manager, built, record, enabled, handler, trigger, hosted, op, target,
                 change, listing, runs>>

ListLocal(e, m) ==
  /\ NoBridge(e, m) /\ Name(e, "list", NoOne)
  /\ known' = known \cup {j \in Jobs : record[j] # "none" /\ Owner(j) = m}
  /\ answer' = [answer EXCEPT ![e] = "local"]
  /\ Move(e, "done")
  /\ UNCHANGED <<orderly, manager, built, mirror, hosted, change, listing, runs>>

-----------------------------------------------------------------------------
(* triggers *)

\* the host's scheduler comes to the job's time and calls FeedCronJob.
HostFires(r, j) ==
  /\ run[r] = "idle" /\ hosted[j] = "on"
  /\ run' = [run EXCEPT ![r] = "fed"]
  /\ of'  = [of EXCEPT ![r] = j]
  /\ UNCHANGED <<orderly, manager, built, mirror, hosted, calls, using>>

\* feed_cron_job: the singleton looks the handler up and answers handled; a
\* coroutine function goes to the loop, another one to a thread.
Feed(r) ==
  LET j == of[r] IN
  /\ run[r] = "fed"
  /\ \/ /\ manager # Owner(j) \/ handler[j] = NoOne
        /\ run' = [run EXCEPT ![r] = "refused"]
        /\ UNCHANGED forwarded
     \/ /\ manager = Owner(j) /\ handler[j] # NoOne
        /\ run' = [run EXCEPT ![r] = IF handler[j] \in Async THEN "accepted" ELSE "threaded"]
        /\ forwarded' = IF record[j] = "none" THEN forwarded ELSE forwarded \cup {j}
  /\ UNCHANGED <<orderly, manager, built, record, enabled, handler, trigger, hosted, calls, of, using>>

\* the local scheduler runs _basic_job_func: apscheduler's on the loop, the
\* minimal one on a thread.
LocalFires(r, j) ==
  /\ run[r] = "idle" /\ trigger[j] = "basic"
  /\ of' = [of EXCEPT ![r] = j]
  /\ \E s \in {"accepted", "threaded"} : run' = [run EXCEPT ![r] = s]
  /\ UNCHANGED <<orderly, manager, built, mirror, hosted, calls, using>>

LookUp(r, from, to) ==
  LET j == of[r] IN
  /\ run[r] = from
  /\ using' = [using EXCEPT ![r] = handler[j]]
  /\ run' = [run EXCEPT ![r] = IF handler[j] = NoOne THEN "skipped" ELSE to]
  /\ UNCHANGED <<orderly, manager, built, mirror, hosted, calls, of>>

\* mutant: the loop calls the handler that feed_cron_job found.
StartOnLoopFed(r) ==
  /\ run[r] = "accepted"
  /\ using' = [using EXCEPT ![r] = CHOOSE h \in Async : TRUE]
  /\ run' = [run EXCEPT ![r] = "running"]
  /\ UNCHANGED <<orderly, manager, built, mirror, hosted, calls, of>>

\* _run_basic_job on the loop: no await between the look-up and the call.
StartOnLoop(r) == LookUp(r, "accepted", "running")

\* _run_basic_job on a thread: the loop may run in between.
LookUpInThread(r) == LookUp(r, "threaded", "looked")

StartInThread(r) ==
  /\ run[r] = "looked"
  /\ run' = [run EXCEPT ![r] = "running"]
  /\ UNCHANGED <<orderly, manager, built, mirror, hosted, calls, of, using>>

\* the handler returned or raised: both end in the record's status only.
Finish(r) ==
  /\ run[r] = "running"
  /\ run' = [run EXCEPT ![r] = "done"]
  /\ UNCHANGED <<orderly, manager, built, mirror, hosted, calls, of, using>>

-----------------------------------------------------------------------------
AddNext(a) ==
  \/ \E m \in Managers : Add(a, m) \/ AddLocal(a, m)
  \/ HostCreates(a) \/ RpcFails(a) \/ AddForwarded(a)

EditNext(e) ==
  \/ \E j \in Jobs : Delete(e, j) \/ DeleteLocal(e, j) \/ RunNow(e, j)
  \/ \E j \in Jobs, ch \in Changes : Update(e, j, ch) \/ UpdateLocal(e, j, ch)
  \/ \E j \in Jobs, r \in Runs : RunNowLocal(e, j, r)
  \/ \E m \in Managers : List(e, m) \/ ListLocal(e, m)
  \/ RpcFails(e) \/ HostUpdates(e) \/ HostDeletes(e) \/ HostLists(e)
  \/ \E r \in Runs : HostRuns(e, r)
  \/ UpdateForwarded(e) \/ UpdateFallsBack(e) \/ DeleteReturns(e)
  \/ RunNowReturns(e) \/ ListReturns(e)

RunNext(r) ==
  \/ \E j \in Jobs : HostFires(r, j) \/ LocalFires(r, j)
  \/ Feed(r) \/ StartOnLoop(r) \/ LookUpInThread(r) \/ StartInThread(r) \/ Finish(r)

Next ==
  \/ \E m \in Managers : Build(m)
  \/ \E a \in Adds : AddNext(a)
  \/ \E e \in Edits : EditNext(e)
  \/ \E r \in Runs : RunNext(r)

Spec == Init /\ [][Next]_vars

-----------------------------------------------------------------------------
(* Properties *)

\* The state the module-level variables and the objects may be in.
TypeOK ==
  /\ orderly \in BOOLEAN /\ manager \in Managers \cup {NoOne} /\ built \subseteq Managers
  /\ record \in [Jobs -> Types] /\ enabled \in [Jobs -> BOOLEAN]
  /\ handler \in [Jobs -> Handlers \cup {NoOne}]
  /\ forwarded \subseteq Jobs
  /\ trigger \in [Jobs -> {"none", "basic", "active"}]
  /\ hosted \in [Jobs -> {"absent", "on", "off"}]
  /\ stage \in [Calls -> Stages] /\ owner \in [Calls -> Managers \cup {NoOne}]
  /\ reply \in [Calls -> Replies] /\ op \in [Edits -> Ops]
  /\ target \in [Edits -> Jobs \cup {NoOne}] /\ change \in [Edits -> Changes]
  /\ answer \in [Edits -> Answers] /\ listing \in [Edits -> SUBSET Jobs]
  /\ known \subseteq Jobs
  /\ run \in [Runs -> RunStages] /\ of \in [Runs -> Jobs \cup {NoOne}]
  /\ using \in [Runs -> Handlers \cup {NoOne}]

\* A job is never triggered by two schedulers: what the local scheduler would
\* call a handler for is a job that only this process knows, and it is enabled
\* and has its handler, however updates, deletions and lost replies interleave
\* (the fallbacks of add_basic_job and update_job, and _schedule_job).
OneScheduler ==
  \A j \in Jobs : trigger[j] = "basic" =>
    /\ hosted[j] = "absent"
    /\ record[j] = "basic" /\ enabled[j] /\ handler[j] # NoOne

\* Once delete_job has returned, no run that is still under way on the loop
\* starts the handler: _run_basic_job looks it up again before it calls it.
NoStartAfterDelete ==
  [][orderly => \A r \in Runs :
       run[r] = "accepted" /\ run'[r] = "running" => ~Deleted(of[r])]_vars

\* "本地镜像（记录/处理器/调度）总是一并清理" (delete_job): of a deleted job the
\* process keeps neither record nor handler nor trigger.
DeletedIsGone ==
  orderly => \A j \in Jobs : Deleted(j) =>
    record[j] = "none" /\ handler[j] = NoOne /\ trigger[j] = "none"

\* A job has one scheduler, and nothing of it is left when it was deleted
\* (cron_manager.py).
JobsAreRight == TypeOK /\ OneScheduler /\ DeletedIsGone

\* FeedCronJob answers handled=False only for a job no manager of the process
\* has a handler for ("按 job_id 匹配宿主转发的任务记录", feed_cron_job).
RefusedOnlyIfUnknown ==
  [][orderly => \A r \in Runs :
       run[r] = "fed" /\ run'[r] = "refused" => handler[of[r]] = NoOne]_vars

\* No run starts the handler of a deleted job, and only a job without a handler is
\* refused (cron_manager.py).
RunsAreRight == NoStartAfterDelete /\ RefusedOnlyIfUnknown

\* "宿主不可用 / bridge 无该 RPC / 任务不在宿主侧时回退本地执行：basic 任务直接
\* 调用 handler" (run_job_now): a call on a job with a handler here runs it.
RunNowRuns ==
  [][\A e \in Edits : op'[e] = "runNow" /\ stage[e] # "done" /\ stage'[e] = "done"
                        /\ record[target'[e]] = "basic" /\ handler[target'[e]] # NoOne
        => answer'[e] # "nothing"]_vars

\* "宿主不可用 / bridge 无该 RPC 时回退本地内存任务列表" (list_jobs): a list
\* the host did not give is the local one.
ListFallsBack ==
  \A e \in Edits : op[e] = "list" /\ stage[e] = "done" /\ reply[e] # "ack"
                     => answer[e] = "local"

\* "handler/... 为本进程概念，仅本地记录生效" (update_job): the handler given to
\* an update of a job that exists is the job's handler when it returns.
UpdateTakesHandler ==
  [][\A e \in Edits : op'[e] = "update" /\ stage[e] # "done" /\ stage'[e] = "done"
                        /\ answer'[e] \in {"host", "local"} /\ change'[e].handler # NoOne
        => handler'[target'[e]] = change'[e].handler]_vars

\* "这些任务由宿主 internal/cron 调度，本进程不做本地调度" (_host_jobs).
HostJobsLeftToHost == \A j \in forwarded : trigger[j] = "none"
=============================================================================
