--------------------------- MODULE MinimalScheduler ---------------------------
(***************************************************************************)
(* _MinimalScheduler (core/utils/cron_manager.py): the scheduler a plugin  *)
(* gets where apscheduler is not installed.  One runner thread looks every *)
(* five seconds for jobs whose time has come and starts a thread for each. *)
(*                                                                         *)
(* Calls come from any thread.  The lock guards the job table only: the    *)
(* flag _running, the event _stop_event and the thread are read and        *)
(* written one by one, and each access is a step.                          *)
(***************************************************************************)
EXTENDS Naturals, FiniteSets

CONSTANTS
  Calls,         \* add_job, remove_job, start and shutdown calls
  Runners,       \* runner threads: one start call may create one
  Jobs,          \* job ids
  MaxDue         \* bound on the times a job comes due

ASSUME RunnersAssumption == IsFiniteSet(Runners) /\ MaxDue \in Nat

VARIABLES
  careful,       \* do the callers keep to Serial, from the start on
  running,       \* _running
  stop,          \* _stop_event
  jobs,          \* _jobs: is next_run ahead, past, or None
  at,            \* the next step of a call
  runner,        \* the next step of a runner
  batch,         \* the jobs a runner collected: its list due
  dues,          \* how often the job has come due
  ran            \* how often a thread was started for it

flags == <<running, stop>>
scheduler  == <<careful, flags, jobs, at, runner, batch, dues, ran>>

JobStates   == {"absent", "ahead", "due", "never"}
CallSteps   == {"new", "check", "clear", "spawn", "set", "reset", "done"}
RunnerSteps == {"unborn", "loop", "wait", "woke", "collect", "launch", "ended"}

Going(r) == runner[r] \notin {"unborn", "ended"}

-----------------------------------------------------------------------------
SchedulerInit ==
  /\ careful \in BOOLEAN
  /\ running = FALSE /\ stop = FALSE
  /\ jobs   = [j \in Jobs |-> "absent"]
  /\ at     = [c \in Calls |-> "new"]
  /\ runner = [r \in Runners |-> "unborn"]
  /\ batch  = [r \in Runners |-> {}]
  /\ dues   = [j \in Jobs |-> 0]
  /\ ran    = [j \in Jobs |-> 0]

UnderWay(c) == at[c] \notin {"new", "done"}

\* the callers wait for one call to return before the next one is made.
Serial == careful => \A c \in Calls : ~UnderWay(c)

Call(c, to) ==
  /\ at[c] = "new" /\ Serial
  /\ at' = [at EXCEPT ![c] = to]

Advances(c, from, to) == at[c] = from /\ at' = [at EXCEPT ![c] = to]

-----------------------------------------------------------------------------
(* calls *)

\* add_job under the lock: an id that is there stays unless it is replaced; a
\* trigger that cannot be parsed is registered and never runs.
AddJob(c, j) ==
  \/ /\ jobs[j] # "absent"
     /\ Call(c, "done")
     /\ UNCHANGED <<careful, flags, jobs, runner, batch, dues, ran>>
  \/ \E s \in {"ahead", "never"} :
       /\ jobs' = [jobs EXCEPT ![j] = s]
       /\ Call(c, IF s = "ahead" THEN "check" ELSE "done")
       /\ UNCHANGED <<careful, flags, runner, batch, dues, ran>>

RemoveJob(c, j) ==
  /\ Call(c, "done")
  /\ jobs' = [jobs EXCEPT ![j] = "absent"]
  /\ UNCHANGED <<careful, flags, runner, batch, dues, ran>>

Start(c) ==
  /\ Call(c, "check")
  /\ UNCHANGED <<careful, flags, jobs, runner, batch, dues, ran>>

\* "if not self._running" of add_job and "if self._running" of start.
CheckRunning(c) ==
  /\ Advances(c, "check", IF running THEN "done" ELSE "clear")
  /\ UNCHANGED <<careful, flags, jobs, runner, batch, dues, ran>>

ClearStop(c) ==
  /\ Advances(c, "clear", "spawn")
  /\ stop' = FALSE
  /\ UNCHANGED <<careful, running, jobs, runner, batch, dues, ran>>

\* the thread starts after the flag is raised, with nothing the runner reads
\* in between.
Spawn(c, r) ==
  /\ Advances(c, "spawn", "done")
  /\ runner[r] = "unborn"
  /\ running' = TRUE
  /\ runner' = [runner EXCEPT ![r] = "loop"]
  /\ UNCHANGED <<careful, stop, jobs, batch, dues, ran>>

Shutdown(c) ==
  /\ Call(c, IF running THEN "set" ELSE "done")
  /\ UNCHANGED <<careful, flags, jobs, runner, batch, dues, ran>>

SetStop(c) ==
  /\ Advances(c, "set", "reset")
  /\ stop' = TRUE
  /\ UNCHANGED <<careful, running, jobs, runner, batch, dues, ran>>

\* the join, of at most five seconds, is left out: the caller goes on anyway.
ResetRunning(c) ==
  /\ Advances(c, "reset", "done")
  /\ running' = FALSE
  /\ UNCHANGED <<careful, stop, jobs, runner, batch, dues, ran>>

-----------------------------------------------------------------------------
(* the runner *)

To(r, from, to) == runner[r] = from /\ runner' = [runner EXCEPT ![r] = to]

LoopTest(r) ==
  /\ To(r, "loop", IF stop THEN "ended" ELSE "wait")
  /\ UNCHANGED <<careful, flags, jobs, at, batch, dues, ran>>

\* _stop_event.wait(5): the event, or five seconds.
Wake(r) ==
  /\ To(r, "wait", "woke")
  /\ UNCHANGED <<careful, flags, jobs, at, batch, dues, ran>>

WakeTest(r) ==
  /\ To(r, "woke", IF stop THEN "ended" ELSE "collect")
  /\ UNCHANGED <<careful, flags, jobs, at, batch, dues, ran>>

\* mutant: next_run is moved on after the lock is released.
CollectOnly(r) ==
  /\ To(r, "collect", "launch")
  /\ batch' = [batch EXCEPT ![r] = {j \in Jobs : jobs[j] = "due"}]
  /\ UNCHANGED <<careful, flags, jobs, at, dues, ran>>

\* under the lock: what is due is collected and its next run computed.
Collect(r) ==
  /\ To(r, "collect", "launch")
  /\ batch' = [batch EXCEPT ![r] = {j \in Jobs : jobs[j] = "due"}]
  /\ jobs' = [j \in Jobs |-> IF jobs[j] = "due" THEN "ahead" ELSE jobs[j]]
  /\ UNCHANGED <<careful, flags, at, dues, ran>>

\* one thread for each collected job, then back to the loop.
Launch(r, j) ==
  /\ runner[r] = "launch" /\ j \in batch[r]
  /\ batch' = [batch EXCEPT ![r] = @ \ {j}]
  /\ ran' = [ran EXCEPT ![j] = @ + 1]
  /\ UNCHANGED <<careful, flags, jobs, at, runner, dues>>

Again(r) ==
  /\ batch[r] = {}
  /\ To(r, "launch", "loop")
  /\ UNCHANGED <<careful, flags, jobs, at, batch, dues, ran>>

\* the clock passes next_run.
ComeDue(j) ==
  /\ jobs[j] = "ahead" /\ dues[j] < MaxDue
  /\ jobs' = [jobs EXCEPT ![j] = "due"]
  /\ dues' = [dues EXCEPT ![j] = @ + 1]
  /\ UNCHANGED <<careful, flags, at, runner, batch, ran>>

-----------------------------------------------------------------------------
Begin(c) ==
  \/ \E j \in Jobs : AddJob(c, j) \/ RemoveJob(c, j)
  \/ Start(c) \/ Shutdown(c)

Continue(c) ==
  \/ CheckRunning(c) \/ ClearStop(c) \/ SetStop(c) \/ ResetRunning(c)
  \/ \E r \in Runners : Spawn(c, r)

Run(r) ==
  \/ LoopTest(r) \/ Wake(r) \/ WakeTest(r) \/ Collect(r) \/ Again(r)
  \/ \E j \in Jobs : Launch(r, j)

SchedulerNext ==
  \/ \E c \in Calls : Begin(c) \/ Continue(c)
  \/ \E r \in Runners : Run(r)
  \/ \E j \in Jobs : ComeDue(j)

SchedulerSpec == SchedulerInit /\ [][SchedulerNext]_scheduler

\* The threads are scheduled; nobody has to call, and the clock may stand still.
FairScheduler ==
  /\ SchedulerSpec
  /\ \A c \in Calls : WF_scheduler(Continue(c))
  /\ \A r \in Runners : WF_scheduler(Run(r))

-----------------------------------------------------------------------------
(* Properties *)

\* What the fields and the threads' steps range over.
SchedulerTypeOK ==
  /\ careful \in BOOLEAN /\ running \in BOOLEAN /\ stop \in BOOLEAN
  /\ jobs \in [Jobs -> JobStates]
  /\ at \in [Calls -> CallSteps]
  /\ runner \in [Runners -> RunnerSteps]
  /\ batch \in [Runners -> SUBSET Jobs]
  /\ dues \in [Jobs -> 0..MaxDue] /\ ran \in [Jobs -> Nat]

\* A job runs at most once for each time it comes due, with any number of
\* runners alive (_runner moves next_run on while it holds the lock).
OncePerDue == \A j \in Jobs : ran[j] <= dues[j]

\* While no call is under way the flag "是否已启动" (running) is right: raised,
\* there is a runner that will go on; not raised, every runner is to end.
FlagIsRight ==
  careful /\ (\A c \in Calls : ~UnderWay(c)) =>
    IF running THEN ~stop /\ \E r \in Runners : Going(r)
    ELSE stop \/ \A r \in Runners : ~Going(r)

\* A job runs at most once for each time it comes due, and the flag tells whether there is
\* a runner (_MinimalScheduler of cron_manager.py).
SchedulerIsRight == OncePerDue /\ FlagIsRight

\* "启动调度线程（幂等）" (start): calls to start leave one runner thread.
OneRunner == Cardinality({r \in Runners : Going(r)}) <= 1

\* A job that is due while the scheduler runs is collected, unless it is
\* removed, replaced or the scheduler shut down first.
DueJobsAreCollected ==
  \A j \in Jobs : careful /\ jobs[j] = "due" /\ running ~> jobs[j] # "due" \/ ~running
=============================================================================
