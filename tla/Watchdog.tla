------------------------------ MODULE Watchdog ------------------------------
(***************************************************************************)
(* The plugin watchdog of the shared runtime (astrbot/_runtime/watchdog.py)*)
(* and the dispatcher's failure recorder that feeds it                     *)
(* (Dispatcher._record_failure): gRPC worker threads report failures of a  *)
(* plugin, the watchdog keeps a rolling window of them per plugin, derives *)
(* a health verdict and raises one alarm when a plugin becomes UNHEALTHY,  *)
(* and the reporter writes the verdict into the plugin's session.          *)
(*                                                                         *)
(* report() reads the clock BEFORE it takes the lock and the verdict is    *)
(* written to the session AFTER it is released, so a report is three or    *)
(* four steps that those of other threads interleave with.                 *)
(***************************************************************************)
EXTENDS Naturals, Sequences, FiniteSets

CONSTANTS
  Plugins,           \* plugin ids
  Reporters,         \* threads that report failures
  Categories,        \* failure categories in use, among AllCategories
  Window,            \* WatchdogConfig.window_seconds
  DegradedAt,        \* WatchdogConfig.degraded_threshold
  UnhealthyAt,       \* WatchdogConfig.unhealthy_threshold
  TimeoutsAt,        \* WatchdogConfig.unhealthy_timeout_threshold
  Delay,             \* longest time a reporter spends between clock and lock
  MaxTime,           \* bound on the clock
  MaxEvents,         \* bound on the events of a window when a report starts
  MaxClears          \* bound on clear() calls per plugin

AllCategories == {"handler", "timeout", "background"}

ASSUME CategoriesAssumption == Categories \subseteq AllCategories

ASSUME ThresholdAssumption ==
  /\ {Window, DegradedAt, UnhealthyAt, TimeoutsAt} \subseteq Nat \ {0}
  /\ {Delay, MaxTime, MaxEvents, MaxClears} \subseteq Nat

\* A report is about a plugin, and a process has finitely many threads.
ASSUME PopulationAssumption == Plugins # {} /\ IsFiniteSet(Reporters)

VARIABLES
  clock,             \* time.time()
  events,            \* _FailureWindow.events of each plugin
  declared,          \* _FailureWindow.declared_unhealthy of each plugin
  health,            \* PluginSession.health of each plugin
  rep,               \* what each reporter is doing
  raised,            \* history: alarms decided under the lock, per plugin
  alarms,            \* history: on_unhealthy callbacks made, per plugin
  clears,            \* history: clear() calls, per plugin
  latest             \* history: the verdict of the last report, per plugin

vars == <<clock, events, declared, health, rep, raised, alarms, clears, latest>>

Health     == {"NORMAL", "DEGRADED", "UNHEALTHY"}
Steps      == {"idle", "stamped", "notify", "publish"}

IdleReporter == [pc |-> "idle", plugin |-> CHOOSE p \in Plugins : TRUE,
                 cat |-> "handler", at |-> 0, verdict |-> "NORMAL"]

-----------------------------------------------------------------------------
(* _FailureWindow                                                          *)

Count(ev, cat) == Cardinality({i \in DOMAIN ev : ev[i].cat = cat})

\* mutant: drops one event at most.
PruneOne(ev, now) ==
  IF ev # <<>> /\ Head(ev).at + Window < now THEN Tail(ev) ELSE ev

\* Drops events from the left while the head is older than the cutoff: an old
\* event behind a younger head stays.
Prune(ev, now) ==
  LET kept == {i \in DOMAIN ev : ev[i].at + Window >= now}
  IN  IF kept = {} THEN <<>>
      ELSE LET first == CHOOSE i \in kept : \A j \in kept : i <= j
           IN  SubSeq(ev, first, Len(ev))

Verdict(ev) ==
  LET h == Count(ev, "handler")
      t == Count(ev, "timeout")
      b == Count(ev, "background")
  IN  IF h >= UnhealthyAt \/ t >= TimeoutsAt \/ b >= UnhealthyAt THEN "UNHEALTHY"
      ELSE IF h + t + b >= DegradedAt THEN "DEGRADED" ELSE "NORMAL"

-----------------------------------------------------------------------------
Init ==
  /\ clock = 0
  /\ events   = [p \in Plugins |-> <<>>]
  /\ declared = [p \in Plugins |-> FALSE]
  /\ health   = [p \in Plugins |-> "NORMAL"]
  /\ rep      = [t \in Reporters |-> IdleReporter]
  /\ raised   = [p \in Plugins |-> 0]
  /\ alarms   = [p \in Plugins |-> 0]
  /\ clears   = [p \in Plugins |-> 0]
  /\ latest   = [p \in Plugins |-> "NORMAL"]

\* report() before the lock: now = time.time().
Stamp(t, p, cat) ==
  /\ rep[t].pc = "idle"
  /\ Len(events[p]) < MaxEvents
  /\ rep' = [rep EXCEPT ![t] = [pc |-> "stamped", plugin |-> p, cat |-> cat,
                                at |-> clock, verdict |-> "NORMAL"]]
  /\ UNCHANGED <<clock, events, declared, health, raised, alarms, clears, latest>>

\* report() for a SLEEPING or UNLOADED plugin: NORMAL, nothing is counted.
ReportDormant(t, p) ==
  /\ rep[t].pc = "idle"
  /\ rep' = [rep EXCEPT ![t].pc = "publish", ![t].plugin = p, ![t].verdict = "NORMAL"]
  /\ latest' = [latest EXCEPT ![p] = "NORMAL"]
  /\ UNCHANGED <<clock, events, declared, health, raised, alarms, clears>>

\* mutant: the latch is tested and never set.
RecordUnlatched(t) ==
  LET p       == rep[t].plugin
      ev      == Prune(Append(events[p], [at |-> rep[t].at, cat |-> rep[t].cat]),
                       rep[t].at)
      verdict == Verdict(ev)
      alarm   == verdict = "UNHEALTHY" /\ ~declared[p]
  IN  /\ rep[t].pc = "stamped"
      /\ events'   = [events EXCEPT ![p] = ev]
      /\ raised'   = [raised EXCEPT ![p] = IF alarm THEN @ + 1 ELSE @]
      /\ latest'   = [latest EXCEPT ![p] = verdict]
      /\ rep' = [rep EXCEPT ![t].pc = IF alarm THEN "notify" ELSE "publish",
                            ![t].verdict = verdict]
      /\ UNCHANGED <<clock, declared, health, alarms, clears>>

\* report() under the lock: append, prune, count, decide, latch the alarm.
Record(t) ==
  LET p       == rep[t].plugin
      ev      == Prune(Append(events[p], [at |-> rep[t].at, cat |-> rep[t].cat]),
                       rep[t].at)
      verdict == Verdict(ev)
      alarm   == verdict = "UNHEALTHY" /\ ~declared[p]
  IN  /\ rep[t].pc = "stamped"
      /\ events'   = [events EXCEPT ![p] = ev]
      /\ declared' = [declared EXCEPT ![p] = @ \/ alarm]
      /\ raised'   = [raised EXCEPT ![p] = IF alarm THEN @ + 1 ELSE @]
      /\ latest'   = [latest EXCEPT ![p] = verdict]
      /\ rep' = [rep EXCEPT ![t].pc = IF alarm THEN "notify" ELSE "publish",
                            ![t].verdict = verdict]
      /\ UNCHANGED <<clock, health, alarms, clears>>

\* The on_unhealthy callback, made after the lock is released.
Notify(t) ==
  /\ rep[t].pc = "notify"
  /\ alarms' = [alarms EXCEPT ![rep[t].plugin] = @ + 1]
  /\ rep' = [rep EXCEPT ![t].pc = "publish"]
  /\ UNCHANGED <<clock, events, declared, health, raised, clears, latest>>

\* Dispatcher._record_failure: session.health = the state report() returned.
Publish(t) ==
  /\ rep[t].pc = "publish"
  /\ health' = [health EXCEPT ![rep[t].plugin] = rep[t].verdict]
  /\ rep' = [rep EXCEPT ![t] = IdleReporter]
  /\ UNCHANGED <<clock, events, declared, raised, alarms, clears, latest>>

\* mark_fatal(): latches the alarm without counting.
MarkFatal(t, p) ==
  /\ rep[t].pc = "idle"
  /\ declared' = [declared EXCEPT ![p] = TRUE]
  /\ raised' = [raised EXCEPT ![p] = IF declared[p] THEN @ ELSE @ + 1]
  /\ latest' = [latest EXCEPT ![p] = "UNHEALTHY"]
  /\ rep' = [rep EXCEPT ![t].pc = IF declared[p] THEN "publish" ELSE "notify",
                        ![t].plugin = p, ![t].verdict = "UNHEALTHY"]
  /\ UNCHANGED <<clock, events, health, alarms, clears>>

\* clear(): forgets the window and the latch, whatever reporters are doing.
Clear(p) ==
  /\ clears[p] < MaxClears
  /\ clears'   = [clears EXCEPT ![p] = @ + 1]
  /\ events'   = [events EXCEPT ![p] = <<>>]
  /\ declared' = [declared EXCEPT ![p] = FALSE]
  /\ UNCHANGED <<clock, health, rep, raised, alarms, latest>>

\* Time passes; no reporter stays between clock and lock for more than Delay.
Tick ==
  /\ clock < MaxTime
  /\ \A t \in Reporters : rep[t].pc = "stamped" => clock < rep[t].at + Delay
  /\ clock' = clock + 1
  /\ UNCHANGED <<events, declared, health, rep, raised, alarms, clears, latest>>

ReporterStep(t) == Record(t) \/ Notify(t) \/ Publish(t)

Next ==
  \/ Tick
  \/ \E t \in Reporters, p \in Plugins :
       \/ \E cat \in Categories : Stamp(t, p, cat)
       \/ ReportDormant(t, p)
       \/ MarkFatal(t, p)
  \/ \E t \in Reporters : Record(t)
  \/ \E t \in Reporters : Notify(t)
  \/ \E t \in Reporters : Publish(t)
  \/ \E p \in Plugins : Clear(p)

Spec == Init /\ [][Next]_vars

-----------------------------------------------------------------------------
Event  == [at : Nat, cat : AllCategories]
Report == [pc : Steps, plugin : Plugins, cat : AllCategories, at : Nat, verdict : Health]

TypeOK ==
  /\ clock \in Nat
  /\ events   \in [Plugins -> Seq(Event)]
  /\ declared \in [Plugins -> BOOLEAN]
  /\ health   \in [Plugins -> Health]
  /\ rep      \in [Reporters -> Report]
  /\ {raised, alarms, clears} \subseteq [Plugins -> Nat]
  /\ latest \in [Plugins -> Health]

Notifying(p) == {t \in Reporters : rep[t].pc = "notify" /\ rep[t].plugin = p}

\* An UNHEALTHY plugin is reported once until it is cleared, however many
\* reporters cross the threshold together (declared_unhealthy is tested and set
\* under the lock, the callback runs outside it): every alarm decided is either
\* made or about to be made, and at most one is decided between two clears.
AlarmOncePerEpisode ==
  \A p \in Plugins :
    /\ alarms[p] + Cardinality(Notifying(p)) = raised[p]
    /\ raised[p] <= clears[p] + (IF declared[p] THEN 1 ELSE 0)

\* The tables and the published health have their form, and an episode has one
\* alarm (watchdog.py).
AlarmsAreRight == TypeOK /\ AlarmOncePerEpisode

\* A verdict counts no event that is older than the window by more than the
\* time a reporter may lose between reading the clock and taking the lock,
\* although the pruning stops at the first young event.
CountedWithinSlack ==
  [][\A t \in Reporters : Record(t) =>
       \A i \in DOMAIN events'[rep[t].plugin] :
         events'[rep[t].plugin][i].at + Window + Delay >= rep[t].at]_vars

\* watchdog.py:34 calls the window the interval the failures are counted over:
\* no verdict counts an event from outside it.
CountedWithinWindow ==
  [][\A t \in Reporters : Record(t) =>
       \A i \in DOMAIN events'[rep[t].plugin] :
         events'[rep[t].plugin][i].at + Window >= rep[t].at]_vars

\* states.py:18 calls health the current running state of the plugin: with no
\* report under way, it is the verdict of the last one.
HealthIsLatestVerdict ==
  \A p \in Plugins :
    (\A t \in Reporters : rep[t].pc = "idle") => health[p] = latest[p]
=============================================================================
