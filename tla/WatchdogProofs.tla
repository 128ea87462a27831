--------------------------- MODULE WatchdogProofs ---------------------------
(***************************************************************************)
(* Theorems about Watchdog for every number of plugins and reporters and   *)
(* every window, threshold and delay.                                      *)
(***************************************************************************)
EXTENDS Watchdog, FiniteSetTheorems, SequenceTheorems, TLAPS

\* A reporter that has read the clock is at most Delay behind it.
StampsAreRecent ==
  \A t \in Reporters : rep[t].pc = "stamped" =>
    rep[t].at <= clock /\ clock <= rep[t].at + Delay

\* The events of a window are of the past, and out of order by Delay at most.
AlmostInOrder ==
  \A p \in Plugins :
    /\ \A i \in DOMAIN events[p] : events[p][i].at <= clock
    /\ \A i, j \in DOMAIN events[p] : i <= j =>
         events[p][i].at <= events[p][j].at + Delay

\* What a verdict counts follows from the order of the events in the window: the
\* pruning looks at the head alone.
IInv == TypeOK /\ AlarmOncePerEpisode /\ StampsAreRecent /\ AlmostInOrder

(***************************************************************************)
(* The window                                                              *)
(***************************************************************************)
\* A nonempty set of numbers has a least one.
LEMMA LeastNumber ==
  ASSUME NEW K \in SUBSET Nat, K # {}
  PROVE  \E k \in K : \A j \in K : k <= j
<1> DEFINE Below(k) == 1..k
           R == StrictSubsetOrdering(Nat)
           T == {Below(k) : k \in K}
<1>1. T \subseteq FiniteSubsetsOf(Nat)
  <2> SUFFICES ASSUME NEW k \in K PROVE Below(k) \in FiniteSubsetsOf(Nat)
    OBVIOUS
  <2>1. IsFiniteSet(1..k)
    BY FS_Interval
  <2> QED
    BY <2>1 DEF FiniteSubsetsOf
<1>2. IsWellFoundedOn(R, FiniteSubsetsOf(Nat))
  BY FS_StrictSubsetOrderingWellFounded
<1>3. PICK B \in T : \A C \in T : ~ (<<C, B>> \in R)
  <2> HIDE DEF R, T
  <2>1. T # {}
    BY DEF T
  <2> QED
    BY <1>1, <1>2, <2>1, WFMin
<1>4. PICK k \in K : B = Below(k)
  OBVIOUS
<1>5. ASSUME NEW j \in K, ~ (k <= j) PROVE FALSE
  <2>1. Below(j) \subseteq Below(k) /\ Below(j) # Below(k)
    <3>1. k \in Below(k) /\ k \notin Below(j)
      BY <1>5
    <3> QED
      BY <1>5, <3>1
  <2>2. <<Below(j), Below(k)>> \in R
    BY <2>1 DEF StrictSubsetOrdering
  <2> QED
    BY <1>3, <1>4, <2>2
<1> QED
  BY <1>5

\* The pruning drops a prefix, and the head it leaves is in the window.
LEMMA PruneDropsPrefix ==
  ASSUME NEW ev \in Seq(Event), NEW now \in Nat
  PROVE  \/ Prune(ev, now) = <<>>
         \/ \E first \in DOMAIN ev :
              /\ Prune(ev, now) = SubSeq(ev, first, Len(ev))
              /\ ev[first].at + Window >= now
<1> DEFINE kept == {i \in DOMAIN ev : ev[i].at + Window >= now}
<1>1. CASE kept = {}
  BY <1>1 DEF Prune
<1>2. CASE kept # {}
  <2>1. kept \in SUBSET Nat
    OBVIOUS
  <2>2. \E k \in kept : \A j \in kept : k <= j
    BY <1>2, <2>1, LeastNumber
  <2> DEFINE first == CHOOSE i \in kept : \A j \in kept : i <= j
  <2>3. first \in kept
    BY <2>2
  <2>4. Prune(ev, now) = SubSeq(ev, first, Len(ev))
    BY <1>2 DEF Prune
  <2> QED
    BY <2>3, <2>4
<1> QED
  BY <1>1, <1>2

\* It keeps the window a sequence of events, of those it had.
LEMMA PruneTyped ==
  ASSUME NEW ev \in Seq(Event), NEW now \in Nat
  PROVE  Prune(ev, now) \in Seq(Event)
<1>1. ASSUME NEW first \in DOMAIN ev PROVE SubSeq(ev, first, Len(ev)) \in Seq(Event)
  <2>1. first \in Nat /\ Len(ev) \in Nat /\ \A i \in first..Len(ev) : ev[i] \in Event
    BY ElementOfSeq
  <2> QED
    BY <2>1, SubSeqProperties
<1>2. <<>> \in Seq(Event)
  BY EmptySeq
<1> QED
  BY <1>1, <1>2, PruneDropsPrefix

\* It keeps a window in order, and leaves nothing that is much older than it.
LEMMA PruneInOrder ==
  ASSUME NEW ev \in Seq(Event), NEW now \in Nat, NEW late \in Nat,
         \A i \in DOMAIN ev : ev[i].at <= late,
         \A i, j \in DOMAIN ev : i <= j => ev[i].at <= ev[j].at + Delay
  PROVE  LET kept == Prune(ev, now)
         IN  /\ \A i \in DOMAIN kept : kept[i].at <= late
             /\ \A i, j \in DOMAIN kept : i <= j => kept[i].at <= kept[j].at + Delay
             /\ \A i \in DOMAIN kept : kept[i].at + Window + Delay >= now
<1> DEFINE kept == Prune(ev, now)
<1>1. CASE kept = <<>>
  BY <1>1
<1>2. ASSUME NEW first \in DOMAIN ev, kept = SubSeq(ev, first, Len(ev)),
             ev[first].at + Window >= now
      PROVE  /\ \A i \in DOMAIN kept : kept[i].at <= late
             /\ \A i, j \in DOMAIN kept : i <= j => kept[i].at <= kept[j].at + Delay
             /\ \A i \in DOMAIN kept : kept[i].at + Window + Delay >= now
  <2>1. /\ first \in Nat /\ first >= 1 /\ Len(ev) \in Nat /\ first <= Len(ev)
        /\ \A i \in first..Len(ev) : ev[i] \in Event
    BY ElementOfSeq
  <2>2. /\ kept \in Seq(Event)
        /\ Len(kept) = Len(ev) - first + 1
        /\ \A i \in 1..(Len(ev) - first + 1) : kept[i] = ev[first + i - 1]
    <3> HIDE DEF kept
    <3> QED
      BY <1>2, <2>1, SubSeqProperties
  <2>3. \A i \in DOMAIN kept :
          /\ kept[i] = ev[first + i - 1]
          /\ first + i - 1 \in DOMAIN ev
          /\ first <= first + i - 1
          /\ ev[first + i - 1].at \in Nat
    <3> HIDE DEF kept
    <3>1. DOMAIN kept = 1..(Len(ev) - first + 1)
      BY <2>1, <2>2
    <3>2. \A i \in 1..(Len(ev) - first + 1) : first + i - 1 \in first..Len(ev)
      BY <2>1
    <3> SUFFICES ASSUME NEW i \in 1..(Len(ev) - first + 1)
                 PROVE  /\ kept[i] = ev[first + i - 1]
                        /\ first + i - 1 \in DOMAIN ev
                        /\ first <= first + i - 1
                        /\ ev[first + i - 1].at \in Nat
      BY <3>1
    <3>3. first + i - 1 \in 1..Len(ev) /\ first <= first + i - 1
      BY <2>1
    <3>4. ev[first + i - 1] \in Event
      BY <3>2, <2>1
    <3>5. ev[first + i - 1].at \in Nat
      BY <3>4 DEF Event
    <3> QED
      BY <3>3, <3>5, <2>2
  <2>4. ev[first].at \in Nat
    BY <2>1 DEF Event
  <2>5. Window \in Nat /\ Delay \in Nat
    BY ThresholdAssumption
  <2>6. \A i \in DOMAIN kept : kept[i].at + Window + Delay >= now
    <3> HIDE DEF kept
    <3> SUFFICES ASSUME NEW i \in DOMAIN kept PROVE kept[i].at + Window + Delay >= now
      OBVIOUS
    <3> DEFINE head == ev[first].at
               this == kept[i].at
    <3>1. head <= this + Delay /\ this \in Nat
      BY <2>3
    <3>2. head \in Nat /\ head + Window >= now
      BY <1>2, <2>4
    <3> HIDE DEF head, this
    <3>3. this + Window + Delay >= now
      BY <2>5, <3>1, <3>2
    <3> QED
      BY <3>3 DEF this
  <2>7. \A i \in DOMAIN kept : kept[i].at <= late
    BY <2>3
  <2>8. \A i, j \in DOMAIN kept : i <= j => kept[i].at <= kept[j].at + Delay
    <3> HIDE DEF kept
    <3> SUFFICES ASSUME NEW i \in DOMAIN kept, NEW j \in DOMAIN kept, i <= j
                 PROVE  kept[i].at <= kept[j].at + Delay
      OBVIOUS
    <3>1. i \in Nat /\ j \in Nat
      BY <2>2
    <3>2. first + i - 1 <= first + j - 1
      BY <2>1, <3>1
    <3> QED
      BY <2>3, <3>2
  <2> QED
    BY <2>6, <2>7, <2>8
<1> QED
  BY <1>1, <1>2, PruneDropsPrefix

\* A verdict is a health.
LEMMA VerdictTyped == \A ev : Verdict(ev) \in Health
  BY DEF Verdict, Health

(***************************************************************************)
(* The alarms                                                              *)
(***************************************************************************)
\* The reporters about to call back, after a step that moves only t.
LEMMA NotifyingFinite == \A p : IsFiniteSet(Notifying(p))
<1> SUFFICES ASSUME NEW p PROVE IsFiniteSet(Notifying(p))
  OBVIOUS
<1>1. Notifying(p) \in SUBSET Reporters
  BY DEF Notifying
<1> QED
  BY <1>1, PopulationAssumption, FS_Subset

\* A step that decides no alarm and makes no callback keeps the count.
LEMMA SameAlarms ==
  ASSUME AlarmOncePerEpisode, \A p \in Plugins : Notifying(p)' = Notifying(p),
         UNCHANGED <<alarms, raised, clears, declared>>
  PROVE  AlarmOncePerEpisode'
  BY DEF AlarmOncePerEpisode

\* The step of a reporter t before or after its callback.
LEMMA QuietStep ==
  ASSUME TypeOK, NEW t \in Reporters, \A u \in Reporters \ {t} : rep'[u] = rep[u],
         rep[t].pc # "notify", rep'[t].pc # "notify"
  PROVE  \A p \in Plugins : Notifying(p)' = Notifying(p)
  BY DEF TypeOK, Notifying

\* A decided alarm is counted as one about to be made.
LEMMA AlarmCounted ==
  ASSUME TypeOK, AlarmOncePerEpisode, NEW t \in Reporters, NEW p \in Plugins,
         \A u \in Reporters \ {t} : rep'[u] = rep[u],
         rep[t].pc # "notify", rep'[t].pc = "notify", rep'[t].plugin = p, ~declared[p],
         raised' = [raised EXCEPT ![p] = @ + 1],
         declared' = [declared EXCEPT ![p] = TRUE],
         UNCHANGED <<alarms, clears>>
  PROVE  AlarmOncePerEpisode'
<1> SUFFICES ASSUME NEW q \in Plugins
             PROVE  /\ alarms'[q] + Cardinality(Notifying(q)') = raised'[q]
                    /\ raised'[q] <= clears'[q] + (IF declared'[q] THEN 1 ELSE 0)
  BY DEF AlarmOncePerEpisode, Notifying
<1>1. /\ alarms[q] + Cardinality(Notifying(q)) = raised[q]
      /\ raised[q] <= clears[q] + (IF declared[q] THEN 1 ELSE 0)
      /\ alarms[q] \in Nat /\ raised[q] \in Nat /\ clears[q] \in Nat
      /\ Cardinality(Notifying(q)) \in Nat
  BY NotifyingFinite, FS_CardinalityType DEF AlarmOncePerEpisode, TypeOK
<1>2. CASE q = p
  <2>1. Notifying(q)' = Notifying(q) \cup {t} /\ t \notin Notifying(q)
    BY <1>2 DEF TypeOK, Notifying
  <2>2. Cardinality(Notifying(q)') = Cardinality(Notifying(q)) + 1
    <3>1. IsFiniteSet(Notifying(q))
      BY NotifyingFinite
    <3>2. Cardinality(Notifying(q) \cup {t}) = Cardinality(Notifying(q)) + 1
      BY <2>1, <3>1, FS_AddElement
    <3> QED
      BY <2>1, <3>2
  <2>3. raised'[q] = raised[q] + 1 /\ declared'[q] /\ ~declared[q]
    BY <1>2 DEF TypeOK
  <2>4. alarms'[q] = alarms[q] /\ clears'[q] = clears[q]
    OBVIOUS
  <2> QED
    BY <1>1, <2>2, <2>3, <2>4
<1>3. CASE q # p
  <2>1. Notifying(q)' = Notifying(q)
    BY <1>3 DEF TypeOK, Notifying
  <2>2. raised'[q] = raised[q] /\ declared'[q] = declared[q]
    BY <1>3 DEF TypeOK
  <2> QED
    BY <1>1, <2>1, <2>2
<1> QED
  BY <1>2, <1>3

\* A callback made is one less about to be made.
LEMMA NotifyAlarms ==
  ASSUME IInv, NEW t \in Reporters, Notify(t)
  PROVE  AlarmOncePerEpisode'
<1> DEFINE p == rep[t].plugin
<1> SUFFICES ASSUME NEW q \in Plugins
             PROVE  /\ alarms'[q] + Cardinality(Notifying(q)') = raised'[q]
                    /\ raised'[q] <= clears'[q] + (IF declared'[q] THEN 1 ELSE 0)
  BY DEF AlarmOncePerEpisode, Notifying
<1>1. /\ Notifying(q)' = IF q = p THEN Notifying(q) \ {t} ELSE Notifying(q)
      /\ t \in Notifying(q) <=> q = p
  BY DEF Notifying, Notify, IInv, TypeOK
<1>2. /\ Cardinality(Notifying(q)) \in Nat
      /\ Cardinality(Notifying(q)') = Cardinality(Notifying(q)) - (IF q = p THEN 1 ELSE 0)
  BY <1>1, NotifyingFinite, FS_RemoveElement, FS_CardinalityType
<1>3. /\ alarms[q] \in Nat /\ raised[q] \in Nat
      /\ alarms'[q] = alarms[q] + (IF q = p THEN 1 ELSE 0)
      /\ UNCHANGED <<raised, clears, declared>>
  BY DEF IInv, TypeOK, Notify
<1>4. /\ alarms[q] + Cardinality(Notifying(q)) = raised[q]
      /\ raised[q] <= clears[q] + (IF declared[q] THEN 1 ELSE 0)
  BY DEF IInv, AlarmOncePerEpisode
<1>5. alarms'[q] + Cardinality(Notifying(q)') = raised'[q]
  BY <1>2, <1>3, <1>4
<1> QED
  BY <1>3, <1>4, <1>5

(***************************************************************************)
(* The steps                                                               *)
(***************************************************************************)
LEMMA StampInv ==
  ASSUME IInv, NEW t \in Reporters, NEW p \in Plugins, NEW cat \in Categories,
         Stamp(t, p, cat)
  PROVE  IInv'
<1> USE DEF IInv, Stamp
<1>1. TypeOK'
  BY CategoriesAssumption DEF TypeOK, Steps, Health, Report
<1>2. AlarmOncePerEpisode'
  BY QuietStep, SameAlarms DEF TypeOK
<1>3. StampsAreRecent' /\ AlmostInOrder'
  <2>1. clock \in Nat /\ Delay \in Nat
    BY ThresholdAssumption DEF TypeOK
  <2>2. StampsAreRecent'
    BY <2>1 DEF StampsAreRecent, TypeOK
  <2> QED
    BY <2>2 DEF AlmostInOrder
<1> QED
  BY <1>1, <1>2, <1>3

LEMMA ReportDormantInv ==
  ASSUME IInv, NEW t \in Reporters, NEW p \in Plugins, ReportDormant(t, p)
  PROVE  IInv'
<1> USE DEF IInv, ReportDormant
<1>1. TypeOK'
  <2>1. rep[t] \in Report
    BY DEF IInv, TypeOK
  <2>2. rep'[t] \in Report /\ \A u \in Reporters \ {t} : rep'[u] = rep[u]
    BY <2>1 DEF IInv, TypeOK, ReportDormant, Report, Steps, Health
  <2>3. rep' \in [Reporters -> Report]
    BY <2>2 DEF IInv, TypeOK, ReportDormant
  <2> QED
    BY <2>3 DEF IInv, TypeOK, ReportDormant, Health
<1>2. AlarmOncePerEpisode'
  <2>1. rep[t].pc # "notify" /\ rep'[t].pc # "notify"
    BY DEF TypeOK
  <2>2. \A u \in Reporters \ {t} : rep'[u] = rep[u]
    BY DEF TypeOK
  <2>3. \A q \in Plugins : Notifying(q)' = Notifying(q)
    BY <2>1, <2>2, QuietStep
  <2> QED
    BY <2>3, SameAlarms
<1>3. StampsAreRecent' /\ AlmostInOrder'
  BY DEF StampsAreRecent, AlmostInOrder, TypeOK
<1> QED
  BY <1>1, <1>2, <1>3

LEMMA PublishInv ==
  ASSUME IInv, NEW t \in Reporters, Publish(t)
  PROVE  IInv'
<1> USE DEF IInv, Publish, IdleReporter
<1>1. TypeOK'
  BY PopulationAssumption DEF TypeOK, Steps, Health, AllCategories, Report
<1>2. AlarmOncePerEpisode'
  BY QuietStep, SameAlarms DEF TypeOK
<1>3. StampsAreRecent' /\ AlmostInOrder'
  BY DEF StampsAreRecent, AlmostInOrder, TypeOK
<1> QED
  BY <1>1, <1>2, <1>3

LEMMA NotifyInv ==
  ASSUME IInv, NEW t \in Reporters, Notify(t)
  PROVE  IInv'
<1>1. TypeOK'
  <2>1. rep[t] \in Report
    BY DEF IInv, TypeOK
  <2>2. /\ rep'[t] = [rep[t] EXCEPT !.pc = "publish"]
        /\ \A u \in Reporters \ {t} : rep'[u] = rep[u]
    BY DEF IInv, TypeOK, Notify
  <2>3. rep'[t] \in Report
    BY <2>1, <2>2 DEF Report, Steps
  <2>4. rep' \in [Reporters -> Report]
    BY <2>2, <2>3 DEF IInv, TypeOK, Notify
  <2> QED
    BY <2>1, <2>4, SMT DEF IInv, TypeOK, Notify, Report
<1>2. AlarmOncePerEpisode'
  BY NotifyAlarms
<1>3. StampsAreRecent' /\ AlmostInOrder'
  BY DEF IInv, Notify, StampsAreRecent, AlmostInOrder, TypeOK
<1> QED
  BY <1>1, <1>2, <1>3 DEF IInv

LEMMA MarkFatalInv ==
  ASSUME IInv, NEW t \in Reporters, NEW p \in Plugins, MarkFatal(t, p)
  PROVE  IInv'
<1>1. TypeOK'
  <2>1. rep[t] \in Report
    BY DEF IInv, TypeOK
  <2>2. rep'[t] \in Report /\ \A u \in Reporters \ {t} : rep'[u] = rep[u]
    BY <2>1 DEF IInv, TypeOK, MarkFatal, Report, Steps, Health
  <2>3. rep' \in [Reporters -> Report]
    BY <2>2 DEF IInv, TypeOK, MarkFatal
  <2> QED
    BY <2>3 DEF IInv, TypeOK, MarkFatal, Health
<1>2. AlarmOncePerEpisode'
  <2>1. CASE declared[p]
    <3>1. UNCHANGED <<alarms, raised, clears, declared>>
      BY <2>1 DEF IInv, MarkFatal, TypeOK
    <3>2. rep'[t].pc = "publish"
      BY <2>1 DEF IInv, MarkFatal, TypeOK
    <3>3. \A q \in Plugins : Notifying(q)' = Notifying(q)
      BY <3>2, QuietStep DEF IInv, MarkFatal, TypeOK
    <3> QED
      BY <3>1, <3>3, SameAlarms DEF IInv
  <2>2. CASE ~declared[p]
    <3>1. rep'[t].pc = "notify" /\ rep'[t].plugin = p
      BY <2>2 DEF IInv, MarkFatal, TypeOK, Report
    <3>2. rep[t].pc # "notify" /\ \A u \in Reporters \ {t} : rep'[u] = rep[u]
      BY DEF IInv, MarkFatal, TypeOK
    <3>3. raised' = [raised EXCEPT ![p] = @ + 1]
      BY <2>2 DEF MarkFatal
    <3>4. declared' = [declared EXCEPT ![p] = TRUE] /\ UNCHANGED <<alarms, clears>>
      BY DEF MarkFatal
    <3> QED
      BY <2>2, <3>1, <3>2, <3>3, <3>4, AlarmCounted DEF IInv
  <2> QED
    BY <2>1, <2>2
<1>3. StampsAreRecent' /\ AlmostInOrder'
  BY DEF IInv, MarkFatal, StampsAreRecent, AlmostInOrder, TypeOK
<1> QED
  BY <1>1, <1>2, <1>3 DEF IInv

LEMMA ClearInv ==
  ASSUME IInv, NEW p \in Plugins, Clear(p)
  PROVE  IInv'
<1>1. TypeOK'
  BY EmptySeq DEF IInv, Clear, TypeOK
<1>2. AlarmOncePerEpisode'
  <2> SUFFICES ASSUME NEW q \in Plugins
               PROVE  /\ alarms'[q] + Cardinality(Notifying(q)') = raised'[q]
                      /\ raised'[q] <= clears'[q] + (IF declared'[q] THEN 1 ELSE 0)
    BY DEF AlarmOncePerEpisode, Notifying
  <2>1. /\ alarms'[q] + Cardinality(Notifying(q)') = raised'[q]
        /\ raised[q] <= clears[q] + (IF declared[q] THEN 1 ELSE 0)
        /\ raised'[q] = raised[q] /\ raised[q] \in Nat /\ clears[q] \in Nat
    BY DEF IInv, AlarmOncePerEpisode, Clear, Notifying, TypeOK
  <2>2. CASE q = p
    <3>1. clears'[q] = clears[q] + 1 /\ ~declared'[q]
      BY <2>2 DEF IInv, TypeOK, Clear
    <3> QED
      BY <2>1, <3>1
  <2>3. CASE q # p
    BY <2>1, <2>3 DEF IInv, TypeOK, Clear
  <2> QED
    BY <2>2, <2>3
<1>3. StampsAreRecent' /\ AlmostInOrder'
  BY DEF IInv, Clear, StampsAreRecent, AlmostInOrder, TypeOK
<1> QED
  BY <1>1, <1>2, <1>3 DEF IInv

LEMMA TickInv ==
  ASSUME IInv, Tick
  PROVE  IInv'
<1>1. TypeOK'
  BY DEF IInv, Tick, TypeOK
<1>2. AlarmOncePerEpisode'
  BY SameAlarms DEF IInv, Tick, Notifying
<1>3. StampsAreRecent'
  <2> SUFFICES ASSUME NEW t \in Reporters, rep[t].pc = "stamped"
               PROVE  rep[t].at <= clock + 1 /\ clock + 1 <= rep[t].at + Delay
    BY DEF Tick, StampsAreRecent
  <2>1. clock \in Nat /\ rep[t].at \in Nat /\ Delay \in Nat
    BY ThresholdAssumption DEF IInv, TypeOK, Report
  <2>2. rep[t].at <= clock /\ clock < rep[t].at + Delay
    BY DEF IInv, Tick, StampsAreRecent
  <2> QED
    BY <2>1, <2>2
<1>4. AlmostInOrder'
  <2> SUFFICES ASSUME NEW p \in Plugins
               PROVE  \A i \in DOMAIN events[p] : events[p][i].at <= clock'
    BY DEF IInv, Tick, AlmostInOrder
  <2> SUFFICES ASSUME NEW i \in DOMAIN events[p]
               PROVE  events[p][i].at <= clock'
    OBVIOUS
  <2>1. events[p] \in Seq(Event) /\ clock \in Nat
    BY DEF IInv, TypeOK
  <2>2. events[p][i] \in Event
    BY <2>1, ElementOfSeq
  <2>3. events[p][i].at \in Nat
    BY <2>2 DEF Event
  <2> QED
    BY <2>1, <2>3 DEF IInv, Tick, AlmostInOrder
<1> QED
  BY <1>1, <1>2, <1>3, <1>4 DEF IInv

\* The window a reporter counts.
Counted(t) ==
  Prune(Append(events[rep[t].plugin], [at |-> rep[t].at, cat |-> rep[t].cat]), rep[t].at)

\* The window counted is almost in order, and within the slack.
LEMMA RecordOrder ==
  ASSUME TypeOK, StampsAreRecent, AlmostInOrder, NEW t \in Reporters,
         rep[t].pc = "stamped"
  PROVE  /\ Counted(t) \in Seq(Event)
         /\ \A i \in DOMAIN Counted(t) : Counted(t)[i].at <= clock
         /\ \A i, j \in DOMAIN Counted(t) : i <= j =>
              Counted(t)[i].at <= Counted(t)[j].at + Delay
         /\ \A i \in DOMAIN Counted(t) : Counted(t)[i].at + Window + Delay >= rep[t].at
<1> DEFINE ev  == events[rep[t].plugin]
           new == [at |-> rep[t].at, cat |-> rep[t].cat]
           all == Append(ev, new)
<1>1. /\ ev \in Seq(Event) /\ new \in Event /\ rep[t].at \in Nat /\ clock \in Nat
      /\ rep[t].plugin \in Plugins /\ Delay \in Nat
  BY ThresholdAssumption DEF TypeOK, Report, Event
<1>2. rep[t].at <= clock /\ clock <= rep[t].at + Delay
  BY DEF StampsAreRecent
<1>3. /\ all \in Seq(Event) /\ Len(ev) \in Nat /\ DOMAIN all = 1..(Len(ev) + 1)
      /\ \A i \in 1..Len(ev) : all[i] = ev[i]
      /\ all[Len(ev) + 1] = new
  BY <1>1, AppendProperties, LenProperties
<1>4. \A i \in 1..Len(ev) : ev[i].at \in Nat /\ ev[i].at <= clock
  <2> SUFFICES ASSUME NEW i \in 1..Len(ev) PROVE ev[i].at \in Nat /\ ev[i].at <= clock
    OBVIOUS
  <2>1. ev[i] \in Event
    BY <1>1, ElementOfSeq
  <2>2. ev[i].at <= clock
    BY <1>1 DEF AlmostInOrder
  <2> QED
    BY <2>1, <2>2 DEF Event
<1>5. \A i, j \in 1..Len(ev) : i <= j => ev[i].at <= ev[j].at + Delay
  BY <1>1 DEF AlmostInOrder
<1>6. new.at = rep[t].at
  OBVIOUS
<1> HIDE DEF ev, new, all
<1>7. \A i \in DOMAIN all : all[i].at <= clock
  BY <1>2, <1>3, <1>4, <1>6
<1>8. ASSUME NEW i \in DOMAIN all, NEW j \in DOMAIN all, i <= j
      PROVE  all[i].at <= all[j].at + Delay
  <2>1. CASE j \in 1..Len(ev)
    BY <1>3, <1>5, <1>8, <2>1
  <2>2. CASE j = Len(ev) + 1 /\ i \in 1..Len(ev)
    <3>1. all[i].at \in Nat /\ all[i].at <= clock /\ all[j].at = rep[t].at
      BY <1>3, <1>4, <1>6, <2>2
    <3> QED
      BY <3>1, <1>1, <1>2
  <2>3. CASE j = Len(ev) + 1 /\ i = Len(ev) + 1
    BY <1>1, <1>3, <1>6, <2>3
  <2> QED
    BY <1>3, <2>1, <2>2, <2>3
<1>9. Counted(t) = Prune(all, rep[t].at)
  BY DEF Counted, all, new, ev
<1>10. Counted(t) \in Seq(Event)
  BY <1>1, <1>3, <1>9, PruneTyped
<1> QED
  BY <1>1, <1>3, <1>7, <1>8, <1>9, <1>10, PruneInOrder

LEMMA RecordInv ==
  ASSUME IInv, NEW t \in Reporters, Record(t)
  PROVE  IInv'
<1> DEFINE p == rep[t].plugin
           verdict == Verdict(Counted(t))
           alarm == verdict = "UNHEALTHY" /\ ~declared[p]
<1>1. /\ rep[t] \in Report /\ p \in Plugins /\ rep[t].pc = "stamped" /\ verdict \in Health
      /\ clock \in Nat
  BY VerdictTyped DEF IInv, TypeOK, Report, Record
<1>2. /\ events'   = [events EXCEPT ![p] = Counted(t)]
      /\ declared' = [declared EXCEPT ![p] = @ \/ alarm]
      /\ raised'   = [raised EXCEPT ![p] = IF alarm THEN @ + 1 ELSE @]
      /\ latest'   = [latest EXCEPT ![p] = verdict]
      /\ rep' = [rep EXCEPT ![t].pc = IF alarm THEN "notify" ELSE "publish",
                            ![t].verdict = verdict]
      /\ UNCHANGED <<clock, health, alarms, clears>>
  BY DEF Record, Counted
<1>3. /\ Counted(t) \in Seq(Event)
      /\ \A i \in DOMAIN Counted(t) : Counted(t)[i].at <= clock
      /\ \A i, j \in DOMAIN Counted(t) : i <= j =>
           Counted(t)[i].at <= Counted(t)[j].at + Delay
  BY <1>1, RecordOrder DEF IInv
<1> HIDE DEF p, verdict
<1>4. /\ rep'[t] \in Report /\ rep'[t].pc = (IF alarm THEN "notify" ELSE "publish")
      /\ rep'[t].plugin = p
      /\ \A u \in Reporters \ {t} : rep'[u] = rep[u]
      /\ rep' \in [Reporters -> Report]
  <2>1. rep \in [Reporters -> Report] /\ rep[t].plugin = p
    BY DEF IInv, TypeOK, p
  <2>2. rep'[t] = [rep[t] EXCEPT !.pc = IF alarm THEN "notify" ELSE "publish",
                                 !.verdict = verdict]
    BY <1>2, <2>1
  <2>3. rep'[t] \in Report
    <3>1. PICK at \in Steps : rep'[t] = [rep[t] EXCEPT !.pc = at, !.verdict = verdict]
      BY <2>2, Zenon DEF Steps
    <3>2. [rep[t] EXCEPT !.pc = at, !.verdict = verdict] \in Report
      BY <1>1, Zenon DEF Report
    <3> QED
      BY <3>1, <3>2, Zenon
  <2>4. rep'[t].pc = (IF alarm THEN "notify" ELSE "publish") /\ rep'[t].plugin = p
    BY <1>1, <2>1, <2>2 DEF Report
  <2>5. \A u \in Reporters \ {t} : rep'[u] = rep[u]
    BY <1>2, <2>1
  <2>6. rep' \in [Reporters -> Report]
    BY <1>2, <2>1, <2>3, <2>5
  <2> QED
    BY <2>3, <2>4, <2>5, <2>6
<1>5. TypeOK'
  <2>1. declared' \in [Plugins -> BOOLEAN]
    BY <1>1, <1>2 DEF IInv, TypeOK
  <2>2. raised' \in [Plugins -> Nat] /\ latest' \in [Plugins -> Health]
    BY <1>1, <1>2 DEF IInv, TypeOK
  <2>3. events' \in [Plugins -> Seq(Event)]
    BY <1>1, <1>2, <1>3 DEF IInv, TypeOK
  <2> QED
    BY <1>2, <1>4, <2>1, <2>2, <2>3 DEF IInv, TypeOK
<1>6. AlarmOncePerEpisode'
  <2>1. CASE alarm
    <3>1. declared' = [declared EXCEPT ![p] = TRUE]
      BY <1>2, <2>1
    <3>2. raised' = [raised EXCEPT ![p] = @ + 1] /\ UNCHANGED <<alarms, clears>>
      BY <1>2, <2>1
    <3> QED
      BY <1>1, <1>4, <2>1, <3>1, <3>2, AlarmCounted DEF IInv
  <2>2. CASE ~alarm
    <3>1. \A q \in Plugins : Notifying(q)' = Notifying(q)
      BY <1>1, <1>4, <2>2, QuietStep DEF IInv
    <3>2. declared' = declared /\ raised' = raised
      BY <1>1, <1>2, <2>2 DEF IInv, TypeOK
    <3> QED
      BY <1>2, <3>1, <3>2, SameAlarms DEF IInv
  <2> QED
    BY <2>1, <2>2
<1>7. StampsAreRecent'
  BY <1>1, <1>2, <1>4 DEF IInv, StampsAreRecent
<1>8. AlmostInOrder'
  <2> SUFFICES ASSUME NEW q \in Plugins
               PROVE  /\ \A i \in DOMAIN events'[q] : events'[q][i].at <= clock'
                      /\ \A i, j \in DOMAIN events'[q] : i <= j =>
                           events'[q][i].at <= events'[q][j].at + Delay
    BY DEF AlmostInOrder
  <2>1. events'[q] = IF q = p THEN Counted(t) ELSE events[q]
    BY <1>2 DEF IInv, TypeOK
  <2>2. clock' = clock
    BY <1>2
  <2> QED
    BY <1>3, <2>1, <2>2 DEF IInv, AlmostInOrder
<1> QED
  BY <1>5, <1>6, <1>7, <1>8 DEF IInv

(***************************************************************************)
(* The specification                                                       *)
(***************************************************************************)
LEMMA InitInv == Init => IInv
<1> SUFFICES ASSUME Init PROVE IInv
  OBVIOUS
<1>1. TypeOK
  <2>1. IdleReporter \in Report
    BY PopulationAssumption DEF IdleReporter, Report, Steps, Health, AllCategories
  <2> QED
    BY <2>1, EmptySeq DEF Init, TypeOK, Health
<1>2. AlarmOncePerEpisode
  <2>1. \A p \in Plugins : Notifying(p) = {}
    BY DEF Init, Notifying, IdleReporter
  <2>2. Cardinality({}) = 0
    BY FS_EmptySet
  <2> QED
    <3> SUFFICES ASSUME NEW p \in Plugins
                 PROVE  /\ alarms[p] + Cardinality(Notifying(p)) = raised[p]
                        /\ raised[p] <= clears[p] + (IF declared[p] THEN 1 ELSE 0)
      BY DEF AlarmOncePerEpisode
    <3>1. Cardinality(Notifying(p)) = 0
      BY <2>1, <2>2
    <3>2. alarms[p] = 0 /\ raised[p] = 0 /\ clears[p] = 0 /\ declared[p] = FALSE
      BY DEF Init
    <3> QED
      BY <3>1, <3>2
<1>3. StampsAreRecent /\ AlmostInOrder
  BY DEF Init, StampsAreRecent, AlmostInOrder, IdleReporter
<1> QED
  BY <1>1, <1>2, <1>3 DEF IInv

LEMMA NextInv == IInv /\ [Next]_vars => IInv'
<1> SUFFICES ASSUME IInv, [Next]_vars PROVE IInv'
  OBVIOUS
<1>1. CASE Tick
  BY <1>1, TickInv
<1>2. ASSUME NEW t \in Reporters, NEW p \in Plugins, NEW cat \in Categories,
             Stamp(t, p, cat)
      PROVE  IInv'
  BY <1>2, StampInv
<1>3. ASSUME NEW t \in Reporters, NEW p \in Plugins, ReportDormant(t, p) PROVE IInv'
  BY <1>3, ReportDormantInv
<1>4. ASSUME NEW t \in Reporters, NEW p \in Plugins, MarkFatal(t, p) PROVE IInv'
  BY <1>4, MarkFatalInv
<1>5. ASSUME NEW t \in Reporters, Record(t) PROVE IInv'
  BY <1>5, RecordInv
<1>6. ASSUME NEW t \in Reporters, Notify(t) PROVE IInv'
  BY <1>6, NotifyInv
<1>7. ASSUME NEW t \in Reporters, Publish(t) PROVE IInv'
  BY <1>7, PublishInv
<1>8. ASSUME NEW p \in Plugins, Clear(p) PROVE IInv'
  BY <1>8, ClearInv
<1>9. CASE UNCHANGED vars
  BY <1>9 DEF vars, IInv, TypeOK, AlarmOncePerEpisode, Notifying, StampsAreRecent,
              AlmostInOrder
<1> QED
  BY <1>1, <1>2, <1>3, <1>4, <1>5, <1>6, <1>7, <1>8, <1>9 DEF Next

LEMMA SpecInv == Spec => []IInv
  BY InitInv, NextInv, PTL DEF Spec

\* However many threads report failures of however many plugins, an alarm decided is
\* made once and none is decided again before clear() (watchdog.py, report and
\* mark_fatal).
THEOREM AlarmsSafe == Spec => []AlarmsAreRight
<1>1. IInv => AlarmsAreRight
  BY DEF IInv, AlarmsAreRight
<1> QED
  BY <1>1, SpecInv, PTL

\* For every window and every delay between the clock and the lock, a verdict counts
\* no event older than the two together, although _prune stops at the first young
\* event.
THEOREM CountingSafe == Spec => CountedWithinSlack
<1>1. IInv /\ [Next]_vars =>
        [\A t \in Reporters : Record(t) =>
           \A i \in DOMAIN events'[rep[t].plugin] :
             events'[rep[t].plugin][i].at + Window + Delay >= rep[t].at]_vars
  <2> SUFFICES ASSUME IInv, NEW t \in Reporters, Record(t)
               PROVE  \A i \in DOMAIN events'[rep[t].plugin] :
                        events'[rep[t].plugin][i].at + Window + Delay >= rep[t].at
    OBVIOUS
  <2>1. events'[rep[t].plugin] = Counted(t)
    BY DEF IInv, TypeOK, Report, Record, Counted
  <2>2. rep[t].pc = "stamped"
    BY DEF Record
  <2> QED
    BY <2>1, <2>2, RecordOrder DEF IInv
<1> QED
  BY <1>1, SpecInv, PTL DEF Spec, CountedWithinSlack
=============================================================================
