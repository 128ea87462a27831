---------------------------- MODULE SessionWaiter ----------------------------
(***************************************************************************)
(* Waiting for a user's next message (core/utils/session_waiter.py) and    *)
(* the RPC that feeds it (FeedSessionWait in _bridge/dispatch.py).         *)
(*                                                                         *)
(* All of it runs on one asyncio loop, so a step of the model is what runs *)
(* between two awaits.  A waiter is one register_wait call, from its entry *)
(* in USER_SESSIONS to its _cleanup; a feed is one FeedSessionWait RPC,    *)
(* from the host's decision to push a message to the end of try_trigger.   *)
(* Around the loop: the host, which keeps the waits it was asked for, the  *)
(* thread that asks it, and the timeouts of the callers, which cancel.     *)
(***************************************************************************)
EXTENDS Naturals, Sequences, SequencesExt, TLC

CONSTANTS
  Waiters,       \* register_wait calls
  Feeds,         \* FeedSessionWait RPCs
  Sessions,      \* session ids (umo)
  Orderly,       \* those of the sessions whose waits keep to Alone and Patient
  NoOne,         \* no entry: no waiter, feed or session
  MaxKeeps       \* bound on the keep() calls of handlers

ASSUME SessionsAssumption ==
  /\ Orderly \subseteq Sessions
  /\ NoOne \notin Sessions \cup Waiters
  /\ MaxKeeps \in Nat

VARIABLES
  table,         \* USER_SESSIONS
  state,         \* where the register_wait call is
  umo,           \* session_id
  future,        \* session_controller.future
  hold,          \* the latest _holding task: its timer
  late,          \* an older _holding task whose timer fired before it was relieved
  line,          \* the feeds at _lock, the first one holds it
  waitId,        \* the waiter knows the host's wait_id
  wait,          \* the host's wait
  feed,          \* where the FeedSessionWait RPC is
  message,       \* the session its message belongs to
  target,        \* the waiter it triggers
  keeps          \* keep() calls made by handlers

waiters == <<state, umo, future, waitId>>
holds   == <<hold, late>>
feeds   == <<feed, message, target>>
vars    == <<table, waiters, holds, line, wait, feeds, keeps>>

States  == {"new", "registering", "waiting", "ended"}
Futures == {"pending", "result", "error", "timeout", "cancelled"}
Holds   == {"none", "armed", "fired", "spent"}
Waits   == {"none", "asked", "live", "leaving", "refused", "gone"}
Stages  == {"idle", "sent", "queued", "handling", "done"}

-----------------------------------------------------------------------------
Init ==
  /\ table   = [s \in Sessions |-> NoOne]
  /\ state   = [w \in Waiters |-> "new"]
  /\ umo     = [w \in Waiters |-> NoOne]
  /\ future  = [w \in Waiters |-> "pending"]
  /\ waitId  = [w \in Waiters |-> FALSE]
  /\ hold    = [w \in Waiters |-> "none"]
  /\ late    = [w \in Waiters |-> FALSE]
  /\ line    = [w \in Waiters |-> <<>>]
  /\ wait    = [w \in Waiters |-> "none"]
  /\ feed    = [f \in Feeds |-> "idle"]
  /\ message = [f \in Feeds |-> NoOne]
  /\ target  = [f \in Feeds |-> NoOne]
  /\ keeps   = 0

Waiting(w) == state[w] \in {"registering", "waiting"}
Pending(w) == future[w] = "pending"

\* The future is settled once: stop() and _holding test done() first.
Settle(w, how) ==
  future' = [future EXCEPT ![w] = IF Pending(w) THEN how ELSE @]

-----------------------------------------------------------------------------
(* register_wait                                                           *)

\* alone: a plugin does not wait for a session it already waits for.
Alone(s) == s \in Orderly => \A v \in Waiters : Waiting(v) => umo[v] # s

\* patient: no caller is cancelled while the host is being asked.
Patient(w) == umo[w] \in Orderly

\* The entry in USER_SESSIONS replaces whatever is there; then a thread asks
\* the host to register the wait.
Begin(w, s) ==
  /\ state[w] = "new"
  /\ Alone(s)
  /\ state' = [state EXCEPT ![w] = "registering"]
  /\ umo'   = [umo EXCEPT ![w] = s]
  /\ table' = [table EXCEPT ![s] = w]
  /\ wait'  = [wait EXCEPT ![w] = "asked"]
  /\ UNCHANGED <<future, waitId, holds, line, feeds, keeps>>

\* The _cleanup of w: the entry is removed by session id, and with a wait_id a
\* task is scheduled that tells the host.
Cleanup(w) ==
  /\ state'  = [state EXCEPT ![w] = "ended"]
  /\ table'  = [table EXCEPT ![umo[w]] = NoOne]
  /\ waitId' = [waitId EXCEPT ![w] = FALSE]
  /\ wait'   = [wait EXCEPT ![w] = IF waitId[w] /\ @ = "live" THEN "leaving" ELSE @]
  /\ UNCHANGED <<umo, line, feeds, keeps>>

\* A new _holding task; the one before it is told to end, too late if its timer
\* has already fired.
Keep(w) ==
  /\ hold' = [hold EXCEPT ![w] = "armed"]
  /\ late' = [late EXCEPT ![w] = @ \/ hold[w] = "fired"]

\* _register_host_wait returns, with the host's wait_id or with "" (refused,
\* unreachable, answer lost); keep(timeout, reset_timeout=True); the call goes on
\* to await the future, or to its end if a feed has settled it meanwhile.
Resume(w, id) ==
  /\ state[w] = "registering"
  /\ id => wait[w] \in {"live", "gone"}
  /\ waitId' = [waitId EXCEPT ![w] = id]
  /\ state'  = [state EXCEPT ![w] = "waiting"]
  /\ Keep(w)
  /\ UNCHANGED <<table, umo, future, line, wait, feeds, keeps>>

\* The future is settled: the finally clause.
Wake(w) ==
  /\ state[w] = "waiting"
  /\ ~Pending(w)
  /\ Cleanup(w)
  /\ UNCHANGED <<future, holds>>

\* The caller's 60 seconds (HANDLER_TIMEOUT) are over and it cancels the call.
\* Before the try statement nothing is cleaned up, and the thread still asks.
CancelRegistering(w) ==
  /\ ~Patient(w)
  /\ state[w] = "registering"
  /\ state' = [state EXCEPT ![w] = "ended"]
  /\ UNCHANGED <<table, umo, future, waitId, holds, line, wait, feeds, keeps>>

CancelWaiting(w) ==
  /\ state[w] = "waiting"
  /\ Pending(w)
  /\ Settle(w, "cancelled")
  /\ UNCHANGED <<table, state, umo, waitId, holds, line, wait, feeds, keeps>>

-----------------------------------------------------------------------------
(* _holding: the timer and the task that wakes from it are two steps of    *)
(* the loop.                                                               *)

TimerFires(w) ==
  /\ hold[w] = "armed"
  /\ hold' = [hold EXCEPT ![w] = "fired"]
  /\ UNCHANGED <<table, waiters, late, line, wait, feeds, keeps>>

\* mutant: the timeout is swallowed like the cancellation.
HoldEndsQuietly(w) ==
  /\ hold[w] = "fired"
  /\ hold' = [hold EXCEPT ![w] = "spent"]
  /\ UNCHANGED <<table, waiters, late, line, wait, feeds, keeps>>

HoldTimesOut(w) ==
  /\ hold[w] = "fired"
  /\ hold' = [hold EXCEPT ![w] = "spent"]
  /\ Settle(w, "timeout")
  /\ UNCHANGED <<table, state, umo, waitId, late, line, wait, feeds, keeps>>

\* A relieved task whose timer had fired times the session out all the same.
LateTimesOut(w) ==
  /\ late[w]
  /\ late' = [late EXCEPT ![w] = FALSE]
  /\ Settle(w, "timeout")
  /\ UNCHANGED <<table, state, umo, waitId, hold, line, wait, feeds, keeps>>

-----------------------------------------------------------------------------
(* The host (not in this repository): it keeps a wait until it is told to  *)
(* forget it or its own timer does, and pushes the messages of the session *)
(* meanwhile.                                                              *)

HostAnswers(w) ==
  /\ wait[w] = "asked"
  /\ \E answer \in {"live", "refused"} : wait' = [wait EXCEPT ![w] = answer]
  /\ UNCHANGED <<table, waiters, holds, line, feeds, keeps>>

HostForgets(w) ==
  /\ wait[w] \in {"live", "leaving"}
  /\ wait' = [wait EXCEPT ![w] = "gone"]
  /\ UNCHANGED <<table, waiters, holds, line, feeds, keeps>>

HostSends(f, s) ==
  /\ feed[f] = "idle"
  /\ \E w \in Waiters : umo[w] = s /\ wait[w] \in {"live", "leaving"}
  /\ feed'    = [feed EXCEPT ![f] = "sent"]
  /\ message' = [message EXCEPT ![f] = s]
  /\ UNCHANGED <<table, waiters, holds, line, wait, target, keeps>>

-----------------------------------------------------------------------------
(* try_trigger and trigger                                                 *)

\* The place of a feed in a line.
Place(l, f) == CHOOSE i \in DOMAIN l : l[i] = f

\* The feed gives up its place at the lock; the next in line wakes later.
Leave(f) ==
  /\ feed' = [feed EXCEPT ![f] = "done"]
  /\ line' = [line EXCEPT ![target[f]] = RemoveAt(@, Place(@, f))]
  /\ UNCHANGED <<message, target>>

\* The message matches no pending waiter: handled = False.
NoMatch(f) ==
  LET w == table[message[f]]
  IN  /\ feed[f] = "sent"
      /\ w # NoOne => ~Pending(w)
      /\ feed' = [feed EXCEPT ![f] = "done"]
      /\ UNCHANGED <<table, waiters, holds, line, wait, message, target, keeps>>

\* It matches: the lock is taken at once if it is free.
Match(f) ==
  LET w == table[message[f]]
  IN  /\ feed[f] = "sent"
      /\ w # NoOne
      /\ Pending(w)
      /\ target' = [target EXCEPT ![f] = w]
      /\ feed'   = [feed EXCEPT ![f] = IF line[w] = <<>> THEN "handling" ELSE "queued"]
      /\ line'   = [line EXCEPT ![w] = Append(@, f)]
      /\ UNCHANGED <<table, waiters, holds, wait, message, keeps>>

\* mutant: done() is not asked again under the lock.
AcquireUnasked(f) ==
  /\ feed[f] = "queued"
  /\ Head(line[target[f]]) = f
  /\ feed' = [feed EXCEPT ![f] = "handling"]
  /\ UNCHANGED <<table, waiters, holds, line, wait, message, target, keeps>>

\* The lock is passed on: done() is asked again.
Acquire(f) ==
  /\ feed[f] = "queued"
  /\ Head(line[target[f]]) = f
  /\ IF Pending(target[f])
     THEN feed' = [feed EXCEPT ![f] = "handling"] /\ UNCHANGED <<line, message, target>>
     ELSE Leave(f)
  /\ UNCHANGED <<table, waiters, holds, wait, keeps>>

\* What the plugin's handler may do with the controller, between its awaits:
\* stop the session, ...
HandlerStops(f) ==
  /\ feed[f] = "handling"
  /\ Pending(target[f])
  /\ Settle(target[f], "result")
  /\ UNCHANGED <<table, state, umo, waitId, holds, line, wait, feeds, keeps>>

\* ... keep it for a new time, or for longer, which is legal only once a timeout
\* is set, ...
HandlerKeeps(f, reset) ==
  /\ feed[f] = "handling"
  /\ keeps < MaxKeeps
  /\ reset \/ hold[target[f]] # "none"
  /\ Keep(target[f])
  /\ keeps' = keeps + 1
  /\ UNCHANGED <<table, waiters, line, wait, feeds>>

\* ... return, ...
HandlerReturns(f) ==
  /\ feed[f] = "handling"
  /\ Leave(f)
  /\ UNCHANGED <<table, waiters, holds, wait, keeps>>

\* ... or raise, the failed assertion of keep() included.
HandlerRaises(f) ==
  /\ feed[f] = "handling"
  /\ Settle(target[f], "error")
  /\ Leave(f)
  /\ UNCHANGED <<table, state, umo, waitId, holds, wait, keeps>>

\* mutant: the cancelled handler keeps the lock.
FeedTimesOutLocked(f) ==
  /\ feed[f] \in {"queued", "handling"}
  /\ feed' = [feed EXCEPT ![f] = "done"]
  /\ UNCHANGED <<table, waiters, holds, line, wait, message, target, keeps>>

\* mutant: run_coro waits without a timeout.
FeedNeverTimesOut(f) == FALSE

\* The 30 seconds of run_coro are over: the handler is cancelled wherever it is.
\* CancelledError is no Exception: the session is not stopped.
FeedTimesOut(f) ==
  /\ feed[f] \in {"queued", "handling"}
  /\ Leave(f)
  /\ UNCHANGED <<table, waiters, holds, wait, keeps>>

-----------------------------------------------------------------------------
WaiterStep(w) == \/ Resume(w, TRUE) \/ Resume(w, FALSE) \/ Wake(w)
                 \/ TimerFires(w) \/ HoldTimesOut(w) \/ LateTimesOut(w)
FeedStep(f)   == NoMatch(f) \/ Match(f) \/ Acquire(f) \/ FeedTimesOut(f)
HandlerStep(f) == \/ HandlerStops(f) \/ HandlerKeeps(f, TRUE) \/ HandlerKeeps(f, FALSE)
                  \/ HandlerReturns(f) \/ HandlerRaises(f)
HostStep(w)   == HostAnswers(w) \/ HostForgets(w)

Next ==
  \/ \E w \in Waiters, s \in Sessions : Begin(w, s)
  \/ \E w \in Waiters : WaiterStep(w) \/ CancelRegistering(w) \/ CancelWaiting(w)
  \/ \E w \in Waiters : HostStep(w)
  \/ \E f \in Feeds, s \in Sessions : HostSends(f, s)
  \/ \E f \in Feeds : FeedStep(f) \/ HandlerStep(f)

Spec == Init /\ [][Next]_vars

\* The loop runs what is ready: answers (the RPC has a deadline), timers, tasks,
\* and the feeds, which are cancelled after 30 seconds.  Nothing makes a handler
\* return by itself.
Fairness ==
  /\ \A w \in Waiters : WF_vars(WaiterStep(w))
  /\ \A f \in Feeds : WF_vars(FeedStep(f))

FairSpec == Spec /\ Fairness

-----------------------------------------------------------------------------
TypeOK ==
  /\ table   \in [Sessions -> Waiters \cup {NoOne}]
  /\ state   \in [Waiters -> States]
  /\ umo     \in [Waiters -> Sessions \cup {NoOne}]
  /\ future  \in [Waiters -> Futures]
  /\ waitId  \in [Waiters -> BOOLEAN]
  /\ hold    \in [Waiters -> Holds]
  /\ late    \in [Waiters -> BOOLEAN]
  /\ line    \in [Waiters -> Seq(Feeds)]
  /\ wait    \in [Waiters -> Waits]
  /\ feed    \in [Feeds -> Stages]
  /\ message \in [Feeds -> Sessions \cup {NoOne}]
  /\ target  \in [Feeds -> Waiters \cup {NoOne}]
  /\ keeps   \in 0..MaxKeeps

Handling(w) == {f \in Feeds : feed[f] = "handling" /\ target[f] = w}

\* Whatever callers, timers and cancellations do, the feeds at a waiter's lock
\* and its line agree: the handler runs for the first in line alone, and a feed
\* that left, cancelled in the queue or in its handler, is not waited for.
LockHeld ==
  \A w \in Waiters :
    /\ \A f \in Handling(w) : line[w] # <<>> /\ Head(line[w]) = f
    /\ \A f \in Feeds : f \in ToSet(line[w]) <=>
         target[f] = w /\ feed[f] \in {"queued", "handling"}

\* The second done() of trigger: no handler starts for a session that ended while
\* its message waited for the lock.
NoHandlerAfterEnd ==
  [][\A f \in Feeds : feed[f] # "handling" /\ feed'[f] = "handling" =>
       Pending(target'[f])]_vars

\* A caller that waits is found by the messages of its session.
Reachable ==
  \A w \in Waiters : umo[w] \in Orderly /\ Waiting(w) /\ Pending(w) => table[umo[w]] = w

\* An entry in USER_SESSIONS belongs to a call that still waits: no message is
\* swallowed by a waiter nobody awaits.
NoStaleEntry ==
  \A s \in Orderly : table[s] # NoOne => Waiting(table[s])

\* The lock of a wait is held by the handler that runs, a wait is found by the messages
\* of its session, and an entry is a wait's that somebody awaits (session_waiter.py).
WaitsAreRight == TypeOK /\ LockHeld /\ Reachable /\ NoStaleEntry

\* Every register_wait returns or raises: whatever feeds and handlers do, some
\* timer ends the wait.
CallsEnd == \A w \in Waiters : Waiting(w) ~> state[w] = "ended"

\* Every feed is answered, those that wait for the lock included.
FeedsAnswered == \A f \in Feeds : feed[f] = "sent" ~> feed[f] = "done"

-----------------------------------------------------------------------------
(* What the repository says and the code does not do                       *)

\* session_waiter.py:156, one trigger at a time for a session: the lock is that
\* of a waiter, and a session may have two.
OneTriggerPerSession ==
  \A v, w \in Waiters :
    v # w /\ Handling(v) # {} /\ Handling(w) # {} => umo[v] # umo[w]

\* session_waiter.py:93, a keep() tells the previous one to end: from then on
\* only the new one can time the session out.
KeptMeansKept ==
  [][\A w \in Waiters :
       Pending(w) /\ hold[w] = "armed" => future'[w] # "timeout"]_vars

\* session_waiter.py:84, the assertion of keep(): a handler runs only for a
\* session that has a timeout to extend.
TimeoutSetInHandler == \A w \in Waiters : Handling(w) # {} => hold[w] # "none"

-----------------------------------------------------------------------------
\* For TLC: no wait is told from another, and no feed.
Symmetry == Permutations(Waiters) \cup Permutations(Feeds)
=============================================================================
