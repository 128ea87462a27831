------------------------------- MODULE MCProcess ------------------------------
(* What a plugin's own process consists of, in one run: a behaviour is one   *)
(* of main with the RPCs that meet it (PluginServer), or one of the          *)
(* scheduler it falls back on (MinimalScheduler), and fair as theirs are.    *)
EXTENDS PluginServer, MinimalScheduler

VARIABLE subject

all == <<subject, vars, scheduler>>

ProcessInit ==
  /\ subject \in {"server", "scheduler"}
  /\ Init /\ (subject = "scheduler" => orderly)
  /\ SchedulerInit /\ (subject = "server" => careful)

InServer    == subject = "server" /\ UNCHANGED <<subject, scheduler>>
InScheduler == subject = "scheduler" /\ UNCHANGED <<subject, vars>>

ProcessNext == (InServer /\ Next) \/ (InScheduler /\ SchedulerNext)

\* The fairness of the two.
ProcessFairness ==
  /\ WF_all(InServer /\ Main) /\ \A w \in Workers : WF_all(InServer /\ Work(w))
  /\ \A c \in Calls : WF_all(InScheduler /\ Continue(c))
  /\ \A r \in Runners : WF_all(InScheduler /\ Run(r))

ProcessSpec == ProcessInit /\ [][ProcessNext]_all /\ ProcessFairness

-----------------------------------------------------------------------------
\* A process that was started ends up serving or gone, every RPC ends, and a due job is
\* collected (server.py, dispatch.py, cron_manager.py).
EverythingEnds ==
  /\ (subject = "server" /\ stage \in Starting) ~> (stage \in {"running", "cleanup", "gone", "killed"})
  /\ CallsEnd
  /\ DueJobsAreCollected
===============================================================================
