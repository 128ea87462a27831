------------------------ MODULE SessionWaiterProofs -------------------------
(***************************************************************************)
(* Theorems about SessionWaiter for every number of waits, feeds and       *)
(* sessions, and every set of orderly sessions.                            *)
(***************************************************************************)
EXTENDS SessionWaiter, SequenceTheorems, TLAPS

\* A feed has one place at a lock, and a feed at a lock has a waiter.
LineOnce ==
  /\ \A w \in Waiters : \A i, j \in DOMAIN line[w] : line[w][i] = line[w][j] => i = j
  /\ \A f \in Feeds : feed[f] \in {"queued", "handling"} => target[f] \in Waiters
  /\ \A f \in Feeds : feed[f] # "idle" => message[f] \in Sessions

\* An entry is that of a call for its session, a call that has not begun has none.
OwnEntry ==
  /\ \A w \in Waiters : state[w] = "new" => umo[w] = NoOne
  /\ \A w \in Waiters : state[w] # "new" => umo[w] \in Sessions
  /\ \A s \in Sessions : table[s] # NoOne => umo[table[s]] = s

\* The entry of an orderly session is that of its one call.
OneCall ==
  \A w \in Waiters : umo[w] \in Orderly /\ Waiting(w) => table[umo[w]] = w

\* Reachable is not inductive: that a cleanup takes no other call's entry away rests
\* on there being one call for the session, pending or not.
IInv == TypeOK /\ LockHeld /\ LineOnce /\ OwnEntry /\ OneCall /\ NoStaleEntry

Entries == OwnEntry /\ OneCall /\ NoStaleEntry
Lines   == LockHeld /\ LineOnce

(***************************************************************************)
(* A place in a line                                                       *)
(***************************************************************************)
\* What RemoveAt leaves: the elements before the place, then those after it.
LEMMA RemoveAtElements ==
  ASSUME NEW S, NEW s \in Seq(S), NEW i \in DOMAIN s
  PROVE  /\ RemoveAt(s, i) \in Seq(S)
         /\ Len(RemoveAt(s, i)) = Len(s) - 1
         /\ \A j \in 1..(Len(s) - 1) :
              RemoveAt(s, i)[j] = IF j < i THEN s[j] ELSE s[j + 1]
<1> DEFINE a == SubSeq(s, 1, i - 1)
           b == SubSeq(s, i + 1, Len(s))
<1>1. Len(s) \in Nat /\ i \in 1..Len(s) /\ \A k \in 1..Len(s) : s[k] \in S
  BY ElementOfSeq
<1>2. /\ a \in Seq(S) /\ Len(a) = i - 1
      /\ \A j \in 1..(i - 1) : a[j] = s[j]
  <2>1. \A k \in 1..(i - 1) : s[k] \in S
    BY <1>1
  <2>2. /\ a \in Seq(S)
        /\ Len(a) = IF 1 <= i - 1 THEN (i - 1) - 1 + 1 ELSE 0
        /\ \A j \in 1..((i - 1) - 1 + 1) : a[j] = s[1 + j - 1]
    <3> HIDE DEF a
    <3>1. a = SubSeq(s, 1, i - 1)
      BY DEF a
    <3> QED
      BY <1>1, <2>1, <3>1, SubSeqProperties
  <2> QED
    BY <1>1, <2>2
<1>3. /\ b \in Seq(S) /\ Len(b) = Len(s) - i
      /\ \A j \in 1..(Len(s) - i) : b[j] = s[i + j]
  <2>1. \A k \in (i + 1)..Len(s) : s[k] \in S
    BY <1>1
  <2>2. /\ b \in Seq(S)
        /\ Len(b) = IF i + 1 <= Len(s) THEN Len(s) - (i + 1) + 1 ELSE 0
        /\ \A j \in 1..(Len(s) - (i + 1) + 1) : b[j] = s[i + 1 + j - 1]
    <3> HIDE DEF b
    <3>1. b = SubSeq(s, i + 1, Len(s))
      BY DEF b
    <3> QED
      BY <1>1, <2>1, <3>1, SubSeqProperties
  <2> QED
    BY <1>1, <2>2
<1>4. RemoveAt(s, i) = a \o b
  BY DEF RemoveAt
<1> HIDE DEF a, b
<1>5. /\ a \o b \in Seq(S)
      /\ Len(a \o b) = Len(a) + Len(b)
      /\ \A j \in 1..(Len(a) + Len(b)) :
           (a \o b)[j] = IF j <= Len(a) THEN a[j] ELSE b[j - Len(a)]
  BY <1>2, <1>3, ConcatProperties
<1>6. Len(a) + Len(b) = Len(s) - 1
  BY <1>1, <1>2, <1>3
<1>7. ASSUME NEW j \in 1..(Len(s) - 1)
      PROVE  (a \o b)[j] = IF j < i THEN s[j] ELSE s[j + 1]
  <2>1. (a \o b)[j] = IF j <= i - 1 THEN a[j] ELSE b[j - (i - 1)]
    BY <1>2, <1>5, <1>6
  <2>2. CASE j < i
    BY <1>1, <1>2, <2>1, <2>2
  <2>3. CASE ~(j < i)
    <3>1. j - (i - 1) \in 1..(Len(s) - i) /\ i + (j - (i - 1)) = j + 1
      BY <1>1, <2>3
    <3>2. (a \o b)[j] = b[j - (i - 1)]
      BY <1>1, <2>1, <2>3
    <3> QED
      BY <1>3, <2>3, <3>1, <3>2
  <2> QED
    BY <2>2, <2>3
<1> QED
  BY <1>4, <1>5, <1>6, <1>7

\* A line without repetitions loses the feed that leaves its place, and no other;
\* the first in line stays the first.
LEMMA RemovePlace ==
  ASSUME NEW l \in Seq(Feeds), NEW f, f \in ToSet(l),
         \A i, j \in DOMAIN l : l[i] = l[j] => i = j
  PROVE  LET rest == RemoveAt(l, Place(l, f))
         IN  /\ rest \in Seq(Feeds)
             /\ ToSet(rest) = ToSet(l) \ {f}
             /\ \A i, j \in DOMAIN rest : rest[i] = rest[j] => i = j
             /\ Head(l) # f => rest # <<>> /\ Head(rest) = Head(l)
<1> DEFINE p == Place(l, f)
           rest == RemoveAt(l, p)
<1>1. p \in DOMAIN l /\ l[p] = f
  BY DEF Place, ToSet
<1> HIDE DEF p
<1>2. Len(l) \in Nat /\ DOMAIN l = 1..Len(l)
  OBVIOUS
<1>3. /\ rest \in Seq(Feeds)
      /\ Len(rest) = Len(l) - 1
      /\ \A j \in 1..(Len(l) - 1) : rest[j] = IF j < p THEN l[j] ELSE l[j + 1]
  BY <1>1, RemoveAtElements
<1>4. DOMAIN rest = 1..(Len(l) - 1)
  BY <1>2, <1>3
<1> HIDE DEF rest
<1>5. \A j \in DOMAIN rest : rest[j] \in ToSet(l) \ {f}
  <2> SUFFICES ASSUME NEW j \in DOMAIN rest PROVE rest[j] \in ToSet(l) \ {f}
    OBVIOUS
  <2> DEFINE k == IF j < p THEN j ELSE j + 1
  <2>1. k \in DOMAIN l /\ k # p /\ rest[j] = l[k]
    BY <1>1, <1>2, <1>3, <1>4
  <2> QED
    BY <1>1, <2>1 DEF ToSet
<1>6. \A g \in ToSet(l) \ {f} : \E j \in DOMAIN rest : rest[j] = g
  <2> SUFFICES ASSUME NEW k \in DOMAIN l, l[k] # f PROVE \E j \in DOMAIN rest : rest[j] = l[k]
    BY DEF ToSet
  <2> DEFINE j == IF k < p THEN k ELSE k - 1
  <2>1. j \in DOMAIN rest /\ rest[j] = l[k]
    BY <1>1, <1>2, <1>3, <1>4
  <2> QED
    BY <2>1
<1>7. ToSet(rest) = ToSet(l) \ {f}
  <2>1. \A g : g \in ToSet(rest) <=> \E j \in DOMAIN rest : rest[j] = g
    BY DEF ToSet
  <2> QED
    BY <1>5, <1>6, <2>1
<1>8. ASSUME NEW i \in DOMAIN rest, NEW j \in DOMAIN rest, rest[i] = rest[j]
      PROVE  i = j
  <2> DEFINE at(n) == IF n < p THEN n ELSE n + 1
  <2>1. /\ at(i) \in DOMAIN l /\ at(j) \in DOMAIN l
        /\ rest[i] = l[at(i)] /\ rest[j] = l[at(j)]
    BY <1>1, <1>2, <1>3, <1>4
  <2>2. at(i) = at(j)
    BY <1>8, <2>1
  <2> QED
    BY <2>2, <1>1, <1>2, <1>4
<1>9. ASSUME Head(l) # f PROVE rest # <<>> /\ Head(rest) = Head(l)
  <2>1. Head(l) = l[1] /\ p # 1
    BY <1>1, <1>9
  <2>2. Len(l) >= 2 /\ 1 \in DOMAIN rest /\ 1 < p
    BY <1>1, <1>2, <1>4, <2>1
  <2>3. rest[1] = l[1]
    BY <1>3, <1>4, <2>2
  <2> QED
    BY <1>3, <1>2, <2>1, <2>2, <2>3
<1> QED
  BY <1>3, <1>7, <1>8, <1>9 DEF rest, p

(***************************************************************************)
(* The lines                                                               *)
(***************************************************************************)
\* A feed at a lock gives up its place in order.
LEMMA LeaveLines ==
  ASSUME IInv, NEW f \in Feeds, feed[f] \in {"queued", "handling"}, Leave(f)
  PROVE  /\ line' \in [Waiters -> Seq(Feeds)]
         /\ feed' \in [Feeds -> Stages]
         /\ Lines'
<1> DEFINE w == target[f]
           l == line[w]
<1>1. /\ w \in Waiters /\ l \in Seq(Feeds) /\ f \in ToSet(l)
      /\ \A i, j \in DOMAIN l : l[i] = l[j] => i = j
  BY DEF IInv, TypeOK, LockHeld, LineOnce
<1>2. /\ line' = [line EXCEPT ![w] = RemoveAt(l, Place(l, f))]
      /\ feed' = [feed EXCEPT ![f] = "done"]
      /\ message' = message /\ target' = target
  BY DEF Leave, IInv, TypeOK
<1>3. /\ line'[w] \in Seq(Feeds)
      /\ ToSet(line'[w]) = ToSet(l) \ {f}
      /\ \A i, j \in DOMAIN line'[w] : line'[w][i] = line'[w][j] => i = j
      /\ Head(l) # f => line'[w] # <<>> /\ Head(line'[w]) = Head(l)
      /\ \A v \in Waiters \ {w} : line'[v] = line[v]
  <2>1. line'[w] = RemoveAt(l, Place(l, f)) /\ \A v \in Waiters \ {w} : line'[v] = line[v]
    BY <1>1, <1>2 DEF IInv, TypeOK
  <2> QED
    BY <1>1, <2>1, RemovePlace
<1> HIDE DEF w
<1>4. line' \in [Waiters -> Seq(Feeds)] /\ feed' \in [Feeds -> Stages]
  BY <1>1, <1>2, <1>3 DEF IInv, TypeOK, Stages
<1>5. LockHeld'
  <2> SUFFICES ASSUME NEW v \in Waiters
               PROVE  /\ \A g \in Handling(v)' : line'[v] # <<>> /\ Head(line'[v]) = g
                      /\ \A g \in Feeds : g \in ToSet(line'[v]) <=>
                           target'[g] = v /\ feed'[g] \in {"queued", "handling"}
    BY DEF LockHeld, Handling
  <2>1. Handling(v)' \subseteq Handling(v) \ {f}
    BY <1>2 DEF Handling, IInv, TypeOK
  <2>2. \A g \in Handling(v) : line[v] # <<>> /\ Head(line[v]) = g
    BY DEF IInv, LockHeld
  <2>3. \A g \in Feeds : g \in ToSet(line[v]) <=>
          target[g] = v /\ feed[g] \in {"queued", "handling"}
    BY DEF IInv, LockHeld
  <2>4. \A g \in Feeds \ {f} : feed'[g] = feed[g]
    BY <1>2 DEF IInv, TypeOK
  <2>5. feed'[f] = "done"
    BY <1>2 DEF IInv, TypeOK
  <2>6. CASE v = w
    BY <1>2, <1>3, <2>1, <2>2, <2>3, <2>4, <2>5, <2>6
  <2>7. CASE v # w
    <3>1. line'[v] = line[v] /\ target[f] # v
      BY <1>3, <2>7 DEF w
    <3> QED
      BY <1>2, <2>1, <2>2, <2>3, <2>4, <2>5, <3>1
  <2> QED
    BY <2>6, <2>7
<1>6. LineOnce'
  <2>1. \A v \in Waiters : \A i, j \in DOMAIN line'[v] : line'[v][i] = line'[v][j] => i = j
    BY <1>3 DEF IInv, LineOnce
  <2>2. \A g \in Feeds : /\ feed'[g] \in {"queued", "handling"} => target'[g] \in Waiters
                         /\ feed'[g] # "idle" => message'[g] \in Sessions
    BY <1>2 DEF IInv, LineOnce, TypeOK
  <2> QED
    BY <2>1, <2>2 DEF LineOnce
<1> QED
  BY <1>4, <1>5, <1>6 DEF Lines

LEMMA SameLines ==
  ASSUME Lines, UNCHANGED <<line, feeds>>
  PROVE  Lines'
  BY DEF Lines, LockHeld, LineOnce, Handling, feeds

(***************************************************************************)
(* The entries                                                             *)
(***************************************************************************)
LEMMA SameEntries ==
  ASSUME Entries, UNCHANGED <<table, state, umo>>
  PROVE  Entries'
  BY DEF Entries, OwnEntry, OneCall, NoStaleEntry, Waiting

\* A cleanup takes away the entry of its own call.
LEMMA CleanupEntries ==
  ASSUME IInv, NEW w \in Waiters, Waiting(w), Cleanup(w)
  PROVE  /\ table'  \in [Sessions -> Waiters \cup {NoOne}]
         /\ state'  \in [Waiters -> States]
         /\ waitId' \in [Waiters -> BOOLEAN]
         /\ wait'   \in [Waiters -> Waits]
         /\ Entries'
<1>1. /\ table'  = [table EXCEPT ![umo[w]] = NoOne]
      /\ state'  = [state EXCEPT ![w] = "ended"]
      /\ umo' = umo
      /\ umo[w] \in Sessions
  BY DEF Cleanup, IInv, OwnEntry, Waiting
<1>2. /\ table'  \in [Sessions -> Waiters \cup {NoOne}]
      /\ state'  \in [Waiters -> States]
      /\ waitId' \in [Waiters -> BOOLEAN]
  BY <1>1 DEF IInv, TypeOK, States, Cleanup
<1>3. wait' \in [Waiters -> Waits]
  BY DEF IInv, TypeOK, Waits, Cleanup
<1>4. /\ table'[umo[w]] = NoOne /\ \A s \in Sessions \ {umo[w]} : table'[s] = table[s]
      /\ state'[w] = "ended" /\ \A v \in Waiters \ {w} : state'[v] = state[v]
  BY <1>1 DEF IInv, TypeOK
<1>5. OwnEntry'
  BY <1>1, <1>4 DEF IInv, OwnEntry, Waiting
<1>6. OneCall'
  <2> SUFFICES ASSUME NEW v \in Waiters, umo[v] \in Orderly, Waiting(v)'
               PROVE  table'[umo[v]] = v
    BY <1>1 DEF OneCall
  <2>1. v # w /\ Waiting(v)
    BY <1>4 DEF Waiting
  <2>2. table[umo[v]] = v /\ (umo[w] = umo[v] => table[umo[w]] = w)
    BY <2>1 DEF IInv, OneCall
  <2>3. umo[v] \in Sessions
    BY SessionsAssumption
  <2> QED
    BY <1>4, <2>1, <2>2, <2>3
<1>7. NoStaleEntry'
  <2> SUFFICES ASSUME NEW s \in Orderly, table'[s] # NoOne
               PROVE  state'[table'[s]] \in {"registering", "waiting"}
    BY DEF NoStaleEntry, Waiting
  <2>1. s \in Sessions
    BY SessionsAssumption
  <2>2. s # umo[w] /\ table'[s] = table[s]
    BY <1>4, <2>1
  <2>3. table[s] # w /\ Waiting(table[s]) /\ table[s] \in Waiters
    BY <2>1, <2>2 DEF IInv, OwnEntry, NoStaleEntry, TypeOK
  <2> QED
    BY <1>4, <2>2, <2>3 DEF Waiting
<1> QED
  BY <1>2, <1>3, <1>5, <1>6, <1>7 DEF Entries

LEMMA BeginInv ==
  ASSUME IInv, NEW w \in Waiters, NEW s \in Sessions, Begin(w, s)
  PROVE  IInv'
<1>1. TypeOK'
  BY DEF IInv, TypeOK, Begin, States, Waits, holds, feeds
<1>2. /\ state[w] = "new" /\ umo[w] = NoOne
      /\ \A r \in Sessions : table[r] # w
  BY SessionsAssumption DEF Begin, IInv, OwnEntry
<1>3. /\ table'[s] = w /\ \A r \in Sessions \ {s} : table'[r] = table[r]
      /\ umo'[w] = s /\ \A v \in Waiters \ {w} : umo'[v] = umo[v]
      /\ state'[w] = "registering" /\ \A v \in Waiters \ {w} : state'[v] = state[v]
  BY DEF IInv, TypeOK, Begin
<1>4. OwnEntry'
  <2>1. \A v \in Waiters : state'[v] = "new" => umo'[v] = NoOne
    BY <1>3 DEF IInv, OwnEntry
  <2>2. \A v \in Waiters : state'[v] # "new" => umo'[v] \in Sessions
    BY <1>3 DEF IInv, OwnEntry
  <2>3. \A r \in Sessions : table'[r] # NoOne => umo'[table'[r]] = r
    <3> SUFFICES ASSUME NEW r \in Sessions, table'[r] # NoOne, r # s
                 PROVE  umo'[table'[r]] = r
      BY <1>3
    <3>1. table'[r] = table[r] /\ table[r] \in Waiters \ {w} /\ umo[table[r]] = r
      BY <1>2, <1>3 DEF IInv, OwnEntry, TypeOK
    <3> QED
      BY <1>3, <3>1
  <2> QED
    BY <2>1, <2>2, <2>3 DEF OwnEntry
<1>5. OneCall'
  <2> SUFFICES ASSUME NEW v \in Waiters, umo'[v] \in Orderly, Waiting(v)', v # w
               PROVE  table'[umo'[v]] = v
    BY <1>3 DEF OneCall
  <2>1. umo'[v] = umo[v] /\ Waiting(v) /\ table[umo[v]] = v /\ umo[v] \in Sessions
    BY <1>3, SessionsAssumption DEF IInv, OneCall, Waiting
  <2>2. umo[v] # s
    BY <1>3, <2>1 DEF Begin, Alone
  <2> QED
    BY <1>3, <2>1, <2>2
<1>6. NoStaleEntry'
  <2> SUFFICES ASSUME NEW r \in Orderly, table'[r] # NoOne
               PROVE  state'[table'[r]] \in {"registering", "waiting"}
    BY DEF NoStaleEntry, Waiting
  <2>1. r \in Sessions
    BY SessionsAssumption
  <2>2. CASE r = s
    BY <1>3, <2>2 DEF Waiting
  <2>3. CASE r # s
    <3>1. table'[r] = table[r] /\ table[r] \in Waiters \ {w} /\ Waiting(table[r])
      BY <1>2, <1>3, <2>1, <2>3 DEF IInv, NoStaleEntry, TypeOK
    <3> QED
      BY <1>3, <3>1 DEF Waiting
  <2> QED
    BY <2>2, <2>3
<1>7. Lines'
  BY SameLines DEF Begin, IInv, Lines, feeds
<1> QED
  BY <1>1, <1>4, <1>5, <1>6, <1>7 DEF IInv, Lines

(***************************************************************************)
(* The other steps of a call, its timers and the host                      *)
(***************************************************************************)
LEMMA ResumeInv ==
  ASSUME IInv, NEW w \in Waiters, NEW id \in BOOLEAN, Resume(w, id)
  PROVE  IInv'
<1>1. TypeOK'
  BY DEF IInv, TypeOK, Resume, Keep, States, Holds, feeds
<1>2. /\ table' = table /\ umo' = umo /\ state[w] = "registering"
      /\ state'[w] = "waiting" /\ \A v \in Waiters \ {w} : state'[v] = state[v]
  BY DEF IInv, TypeOK, Resume
<1>3. \A v \in Waiters : /\ state'[v] = "new" <=> state[v] = "new"
                         /\ Waiting(v)' <=> Waiting(v)
  BY <1>2 DEF Waiting
<1>4. OwnEntry' /\ OneCall'
  BY <1>2, <1>3 DEF IInv, OwnEntry, OneCall
<1>5. NoStaleEntry'
  BY <1>2, SessionsAssumption DEF IInv, NoStaleEntry, Waiting, TypeOK
<1>6. Lines'
  BY SameLines DEF Resume, IInv, Lines
<1> QED
  BY <1>1, <1>4, <1>5, <1>6 DEF IInv, Lines

LEMMA WakeInv ==
  ASSUME IInv, NEW w \in Waiters, Wake(w)
  PROVE  IInv'
<1>1. /\ Waiting(w) /\ Cleanup(w)
      /\ UNCHANGED <<umo, future, hold, late, line, feed, message, target, keeps>>
  BY DEF Wake, Waiting, Cleanup, holds, feeds
<1>2. /\ table'  \in [Sessions -> Waiters \cup {NoOne}]
      /\ state'  \in [Waiters -> States]
      /\ waitId' \in [Waiters -> BOOLEAN]
      /\ wait'   \in [Waiters -> Waits]
      /\ Entries'
  BY <1>1, CleanupEntries
<1>3. TypeOK'
  BY <1>1, <1>2 DEF IInv, TypeOK
<1>4. Lines'
  BY <1>1, SameLines DEF IInv, Lines, feeds
<1> QED
  BY <1>2, <1>3, <1>4 DEF IInv, Lines, Entries

LEMMA CancelRegisteringInv ==
  ASSUME IInv, NEW w \in Waiters, CancelRegistering(w)
  PROVE  IInv'
<1>1. TypeOK'
  BY DEF IInv, TypeOK, CancelRegistering, States, holds, feeds
<1>2. /\ table' = table /\ umo' = umo /\ umo[w] \notin Orderly /\ state[w] = "registering"
      /\ state'[w] = "ended" /\ \A v \in Waiters \ {w} : state'[v] = state[v]
  BY DEF IInv, TypeOK, CancelRegistering, Patient
<1>3. OwnEntry'
  BY <1>2 DEF IInv, OwnEntry
<1>4. OneCall'
  BY <1>2 DEF IInv, OneCall, Waiting
<1>5. NoStaleEntry'
  <2> SUFFICES ASSUME NEW s \in Orderly, table[s] # NoOne
               PROVE  state'[table[s]] \in {"registering", "waiting"}
    BY <1>2 DEF NoStaleEntry, Waiting
  <2>1. table[s] \in Waiters /\ umo[table[s]] = s /\ Waiting(table[s])
    BY SessionsAssumption DEF IInv, OwnEntry, NoStaleEntry, TypeOK
  <2> QED
    BY <1>2, <2>1 DEF Waiting
<1>6. Lines'
  BY SameLines DEF CancelRegistering, IInv, Lines
<1> QED
  BY <1>1, <1>3, <1>4, <1>5, <1>6 DEF IInv, Lines

\* The steps that leave the entries and the lines alone.
LEMMA TimerInv ==
  ASSUME IInv, NEW w \in Waiters,
         \/ CancelWaiting(w) \/ TimerFires(w) \/ HoldTimesOut(w) \/ LateTimesOut(w)
         \/ HostAnswers(w) \/ HostForgets(w)
  PROVE  IInv'
<1>1. UNCHANGED <<table, state, umo, line, feeds>>
  BY DEF CancelWaiting, TimerFires, HoldTimesOut, LateTimesOut, HostAnswers, HostForgets,
         waiters
<1>2. TypeOK'
  <2>1. CASE CancelWaiting(w)
    BY <2>1 DEF IInv, TypeOK, CancelWaiting, Settle, Futures, holds, feeds
  <2>2. CASE TimerFires(w)
    BY <2>2 DEF IInv, TypeOK, TimerFires, Holds, waiters, feeds
  <2>3. CASE HoldTimesOut(w)
    BY <2>3 DEF IInv, TypeOK, HoldTimesOut, Settle, Futures, Holds, feeds
  <2>4. CASE LateTimesOut(w)
    BY <2>4 DEF IInv, TypeOK, LateTimesOut, Settle, Futures, feeds
  <2>5. CASE HostAnswers(w)
    BY <2>5 DEF IInv, TypeOK, HostAnswers, Waits, waiters, holds, feeds
  <2>6. CASE HostForgets(w)
    BY <2>6 DEF IInv, TypeOK, HostForgets, Waits, waiters, holds, feeds
  <2> QED
    BY <2>1, <2>2, <2>3, <2>4, <2>5, <2>6
<1>3. Lines' /\ Entries'
  BY <1>1, SameLines, SameEntries DEF IInv, Lines, Entries
<1> QED
  BY <1>2, <1>3 DEF IInv, Lines, Entries

(***************************************************************************)
(* The steps of a feed                                                     *)
(***************************************************************************)
LEMMA HostSendsInv ==
  ASSUME IInv, NEW f \in Feeds, NEW s \in Sessions, HostSends(f, s)
  PROVE  IInv'
<1>1. TypeOK'
  BY DEF IInv, TypeOK, HostSends, Stages, waiters, holds
<1>2. Entries'
  BY SameEntries DEF HostSends, IInv, Entries, waiters
<1>3. /\ line' = line /\ target' = target
      /\ feed[f] = "idle" /\ feed'[f] = "sent" /\ message'[f] = s
      /\ \A g \in Feeds \ {f} : feed'[g] = feed[g] /\ message'[g] = message[g]
  BY DEF IInv, TypeOK, HostSends
<1>4. \A w \in Waiters : Handling(w)' = Handling(w)
  BY <1>3 DEF Handling
<1>5. LockHeld'
  <2>1. \A g \in Feeds : feed'[g] \in {"queued", "handling"} <=>
                         feed[g] \in {"queued", "handling"}
    BY <1>3
  <2> QED
    BY <1>3, <1>4, <2>1 DEF IInv, LockHeld
<1>6. LineOnce'
  BY <1>3 DEF IInv, LineOnce
<1> QED
  BY <1>1, <1>2, <1>5, <1>6 DEF IInv, Entries

LEMMA NoMatchInv ==
  ASSUME IInv, NEW f \in Feeds, NoMatch(f)
  PROVE  IInv'
<1>1. TypeOK'
  BY DEF IInv, TypeOK, NoMatch, Stages, waiters, holds
<1>2. Entries'
  BY SameEntries DEF NoMatch, IInv, Entries, waiters
<1>3. /\ line' = line /\ target' = target /\ message' = message
      /\ feed[f] = "sent" /\ feed'[f] = "done"
      /\ \A g \in Feeds \ {f} : feed'[g] = feed[g]
  BY DEF IInv, TypeOK, NoMatch
<1>4. \A w \in Waiters : Handling(w)' = Handling(w)
  BY <1>3 DEF Handling
<1>5. LockHeld'
  <2>1. \A g \in Feeds : feed'[g] \in {"queued", "handling"} <=>
                         feed[g] \in {"queued", "handling"}
    BY <1>3
  <2> QED
    BY <1>3, <1>4, <2>1 DEF IInv, LockHeld
<1>6. LineOnce'
  BY <1>3 DEF IInv, LineOnce
<1> QED
  BY <1>1, <1>2, <1>5, <1>6 DEF IInv, Entries

\* The line of one waiter grows by the feed, which runs at once if it is the first.
LEMMA MatchInv ==
  ASSUME IInv, NEW f \in Feeds, Match(f)
  PROVE  IInv'
<1> DEFINE w == table[message[f]]
           l == line[w]
           more == Append(l, f)
<1>1. /\ feed[f] = "sent" /\ w \in Waiters /\ l \in Seq(Feeds)
      /\ target' = [target EXCEPT ![f] = w]
      /\ feed'   = [feed EXCEPT ![f] = IF l = <<>> THEN "handling" ELSE "queued"]
      /\ line'   = [line EXCEPT ![w] = more]
      /\ message' = message
      /\ UNCHANGED <<table, waiters, holds, wait, keeps>>
  BY DEF IInv, TypeOK, LineOnce, Match
<1> HIDE DEF w
<1>2. /\ target'[f] = w /\ \A g \in Feeds \ {f} : target'[g] = target[g]
      /\ feed'[f] = IF l = <<>> THEN "handling" ELSE "queued"
      /\ \A g \in Feeds \ {f} : feed'[g] = feed[g]
      /\ line'[w] = more /\ \A v \in Waiters \ {w} : line'[v] = line[v]
  BY <1>1 DEF IInv, TypeOK
<1>3. /\ more \in Seq(Feeds) /\ more # <<>>
      /\ Len(l) \in Nat /\ DOMAIN l = 1..Len(l) /\ DOMAIN more = 1..(Len(l) + 1)
      /\ \A i \in 1..Len(l) : more[i] = l[i]
      /\ more[Len(l) + 1] = f
  BY <1>1, AppendProperties, LenProperties
<1>4. Head(more) = IF l = <<>> THEN f ELSE Head(l)
  BY <1>1, HeadTailAppend
<1>5. f \notin ToSet(l)
  BY <1>1 DEF IInv, LockHeld
<1>6. ToSet(more) = ToSet(l) \cup {f}
  <2> HIDE DEF more, l
  <2>1. \A g : g \in ToSet(l) <=> \E i \in 1..Len(l) : l[i] = g
    BY <1>3 DEF ToSet
  <2>2. \A g : g \in ToSet(more) <=> \E i \in 1..(Len(l) + 1) : more[i] = g
    BY <1>3 DEF ToSet
  <2>3. ASSUME NEW g \in ToSet(l) PROVE g \in ToSet(more)
    <3>1. PICK i \in 1..Len(l) : l[i] = g
      BY <2>1
    <3>2. i \in 1..(Len(l) + 1) /\ more[i] = g
      BY <1>3, <3>1
    <3> QED
      BY <2>2, <3>2
  <2>4. f \in ToSet(more)
    <3>1. Len(l) + 1 \in 1..(Len(l) + 1)
      BY <1>3
    <3> QED
      BY <1>3, <2>2, <3>1
  <2>5. ASSUME NEW g \in ToSet(more) PROVE g \in ToSet(l) \cup {f}
    <3>1. PICK i \in 1..(Len(l) + 1) : more[i] = g
      BY <2>2
    <3>2. i \in 1..Len(l) \/ i = Len(l) + 1
      BY <1>3
    <3> QED
      BY <1>3, <2>1, <3>1, <3>2
  <2> QED
    BY <2>3, <2>4, <2>5
<1>7. \A i, j \in DOMAIN more : more[i] = more[j] => i = j
  <2>1. \A i, j \in 1..Len(l) : l[i] = l[j] => i = j
    BY <1>1, <1>3 DEF IInv, LineOnce
  <2>2. \A i \in 1..Len(l) : l[i] # f
    BY <1>3, <1>5 DEF ToSet
  <2> HIDE DEF more, l
  <2> SUFFICES ASSUME NEW i \in 1..(Len(l) + 1), NEW j \in 1..(Len(l) + 1),
                      more[i] = more[j]
               PROVE  i = j
    BY <1>3
  <2>3. /\ i \in 1..Len(l) \/ i = Len(l) + 1
        /\ j \in 1..Len(l) \/ j = Len(l) + 1
    BY <1>3
  <2> QED
    BY <1>3, <2>1, <2>2, <2>3
<1> HIDE DEF more
<1>8. TypeOK'
  <2>1. /\ feed' \in [Feeds -> Stages] /\ line' \in [Waiters -> Seq(Feeds)]
        /\ target' \in [Feeds -> Waiters \cup {NoOne}]
    BY <1>1, <1>3 DEF IInv, TypeOK, Stages
  <2> QED
    BY <1>1, <2>1 DEF IInv, TypeOK, waiters, holds
<1>9. Entries'
  BY <1>1, SameEntries DEF IInv, Entries, waiters
<1>10. LockHeld'
  <2> SUFFICES ASSUME NEW v \in Waiters
               PROVE  /\ \A g \in Handling(v)' : line'[v] # <<>> /\ Head(line'[v]) = g
                      /\ \A g \in Feeds : g \in ToSet(line'[v]) <=>
                           target'[g] = v /\ feed'[g] \in {"queued", "handling"}
    BY DEF LockHeld, Handling
  <2>1. \A g \in Feeds : g \in ToSet(line[v]) <=>
          target[g] = v /\ feed[g] \in {"queued", "handling"}
    BY DEF IInv, LockHeld
  <2>2. \A g \in Feeds : g \in ToSet(line'[v]) <=>
          target'[g] = v /\ feed'[g] \in {"queued", "handling"}
    BY <1>1, <1>2, <1>6, <2>1
  <2>3. ASSUME NEW g \in Handling(v)' PROVE line'[v] # <<>> /\ Head(line'[v]) = g
    <3>1. CASE g = f
      BY <1>2, <1>3, <1>4, <2>3, <3>1 DEF Handling
    <3>2. CASE g # f
      <4>1. g \in Handling(v)
        BY <1>2, <2>3, <3>2 DEF Handling
      <4>2. line[v] # <<>> /\ Head(line[v]) = g
        BY <4>1 DEF IInv, LockHeld
      <4> QED
        BY <1>2, <1>3, <1>4, <4>2
    <3> QED
      BY <3>1, <3>2
  <2> QED
    BY <2>2, <2>3
<1>11. LineOnce'
  <2>1. \A v \in Waiters : \A i, j \in DOMAIN line'[v] : line'[v][i] = line'[v][j] => i = j
    BY <1>2, <1>7 DEF IInv, LineOnce
  <2>2. \A g \in Feeds : /\ feed'[g] \in {"queued", "handling"} => target'[g] \in Waiters
                         /\ feed'[g] # "idle" => message'[g] \in Sessions
    BY <1>1, <1>2 DEF IInv, LineOnce
  <2> QED
    BY <2>1, <2>2 DEF LineOnce
<1> QED
  BY <1>8, <1>9, <1>10, <1>11 DEF IInv, Entries

\* A step that leaves the entries alone and ends a feed at its lock.
LEMMA LeaveInv ==
  ASSUME IInv, NEW f \in Feeds, feed[f] \in {"queued", "handling"}, Leave(f),
         UNCHANGED <<table, state, umo, waitId, holds, wait, keeps>>,
         future' \in [Waiters -> Futures]
  PROVE  IInv'
<1>1. line' \in [Waiters -> Seq(Feeds)] /\ feed' \in [Feeds -> Stages] /\ Lines'
  BY LeaveLines
<1>2. TypeOK'
  BY <1>1 DEF IInv, TypeOK, Leave, holds
<1>3. Entries'
  BY SameEntries DEF IInv, Entries
<1> QED
  BY <1>1, <1>2, <1>3 DEF IInv, Lines, Entries

LEMMA AcquireInv ==
  ASSUME IInv, NEW f \in Feeds, Acquire(f)
  PROVE  IInv'
<1>1. CASE ~Pending(target[f])
  BY <1>1, LeaveInv DEF Acquire, IInv, TypeOK, waiters
<1>2. CASE Pending(target[f])
  <2>1. /\ feed[f] = "queued" /\ Head(line[target[f]]) = f
        /\ feed' = [feed EXCEPT ![f] = "handling"]
        /\ UNCHANGED <<line, message, target, table, waiters, holds, wait, keeps>>
    BY <1>2 DEF Acquire
  <2>2. TypeOK'
    BY <2>1 DEF IInv, TypeOK, Stages, waiters, holds
  <2>3. Entries'
    BY <2>1, SameEntries DEF IInv, Entries, waiters
  <2>4. feed'[f] = "handling" /\ \A g \in Feeds \ {f} : feed'[g] = feed[g]
    BY <2>1 DEF IInv, TypeOK
  <2>5. LockHeld'
    <3> SUFFICES ASSUME NEW v \in Waiters
                 PROVE  /\ \A g \in Handling(v)' : line[v] # <<>> /\ Head(line[v]) = g
                        /\ \A g \in Feeds : g \in ToSet(line[v]) <=>
                             target[g] = v /\ feed'[g] \in {"queued", "handling"}
      BY <2>1 DEF LockHeld, Handling
    <3>1. \A g \in Feeds : g \in ToSet(line[v]) <=>
            target[g] = v /\ feed[g] \in {"queued", "handling"}
      BY DEF IInv, LockHeld
    <3>2. \A g \in Feeds : g \in ToSet(line[v]) <=>
            target[g] = v /\ feed'[g] \in {"queued", "handling"}
      BY <2>1, <2>4, <3>1
    <3>3. ASSUME NEW g \in Handling(v)' PROVE line[v] # <<>> /\ Head(line[v]) = g
      <4>1. CASE g = f
        <5>1. target[f] = v
          BY <2>1, <3>3, <4>1 DEF Handling
        <5>2. f \in ToSet(line[v]) /\ Head(line[v]) = f
          BY <2>1, <3>1, <5>1
        <5>3. line[v] # <<>>
          BY <5>2 DEF ToSet
        <5> QED
          BY <4>1, <5>2, <5>3
      <4>2. CASE g # f
        <5>1. g \in Handling(v)
          BY <2>1, <2>4, <3>3, <4>2 DEF Handling
        <5> QED
          BY <5>1 DEF IInv, LockHeld
      <4> QED
        BY <4>1, <4>2
    <3> QED
      BY <3>2, <3>3
  <2>6. LineOnce'
    BY <2>1, <2>4 DEF IInv, LineOnce
  <2> QED
    BY <2>2, <2>3, <2>5, <2>6 DEF IInv, Entries
<1> QED
  BY <1>1, <1>2

LEMMA HandlerInv ==
  ASSUME IInv, NEW f \in Feeds, HandlerStep(f)
  PROVE  IInv'
<1>1. CASE HandlerStops(f)
  <2>1. TypeOK'
    BY <1>1 DEF IInv, TypeOK, HandlerStops, Settle, Futures, holds, feeds
  <2>2. Lines' /\ Entries'
    BY <1>1, SameLines, SameEntries DEF IInv, Lines, Entries, HandlerStops
  <2> QED
    BY <2>1, <2>2 DEF IInv, Lines, Entries
<1>2. ASSUME NEW reset \in BOOLEAN, HandlerKeeps(f, reset) PROVE IInv'
  <2>1. keeps' \in 0..MaxKeeps
    BY <1>2, SessionsAssumption DEF IInv, TypeOK, HandlerKeeps
  <2>2. target[f] \in Waiters
    BY <1>2 DEF IInv, LineOnce, HandlerKeeps
  <2>3. hold' \in [Waiters -> Holds] /\ late' \in [Waiters -> BOOLEAN]
    BY <1>2, <2>2 DEF IInv, TypeOK, HandlerKeeps, Keep, Holds
  <2>4. TypeOK'
    BY <1>2, <2>1, <2>3 DEF IInv, TypeOK, HandlerKeeps, waiters, feeds
  <2>5. Lines' /\ Entries'
    BY <1>2, SameLines, SameEntries DEF IInv, Lines, Entries, HandlerKeeps, waiters
  <2> QED
    BY <2>4, <2>5 DEF IInv, Lines, Entries
<1>3. CASE HandlerReturns(f)
  BY <1>3, LeaveInv DEF HandlerReturns, IInv, TypeOK, waiters
<1>4. CASE HandlerRaises(f)
  <2>1. future' \in [Waiters -> Futures]
    BY <1>4 DEF IInv, TypeOK, HandlerRaises, Settle, Futures
  <2> QED
    BY <1>4, <2>1, LeaveInv DEF HandlerRaises
<1> QED
  BY <1>1, <1>2, <1>3, <1>4 DEF HandlerStep

LEMMA FeedTimesOutInv ==
  ASSUME IInv, NEW f \in Feeds, FeedTimesOut(f)
  PROVE  IInv'
  BY LeaveInv DEF FeedTimesOut, IInv, TypeOK, waiters

(***************************************************************************)
(* The specification                                                       *)
(***************************************************************************)
LEMMA InitInv == Init => IInv
<1> SUFFICES ASSUME Init PROVE IInv
  OBVIOUS
<1>1. TypeOK
  BY SessionsAssumption, EmptySeq
     DEF Init, TypeOK, States, Futures, Holds, Waits, Stages
<1>2. LockHeld /\ LineOnce
  <2>1. ToSet(<<>>) = {}
    BY DEF ToSet
  <2> QED
    BY <2>1 DEF Init, LockHeld, LineOnce, Handling
<1>3. OwnEntry /\ OneCall /\ NoStaleEntry
  BY SessionsAssumption DEF Init, OwnEntry, OneCall, NoStaleEntry, Waiting
<1> QED
  BY <1>1, <1>2, <1>3 DEF IInv

LEMMA NextInv == IInv /\ [Next]_vars => IInv'
<1> SUFFICES ASSUME IInv, [Next]_vars PROVE IInv'
  OBVIOUS
<1>1. ASSUME NEW w \in Waiters, NEW s \in Sessions, Begin(w, s) PROVE IInv'
  BY <1>1, BeginInv
<1>2. ASSUME NEW w \in Waiters, NEW id \in BOOLEAN, Resume(w, id) PROVE IInv'
  BY <1>2, ResumeInv
<1>3. ASSUME NEW w \in Waiters, Wake(w) PROVE IInv'
  BY <1>3, WakeInv
<1>4. ASSUME NEW w \in Waiters, CancelRegistering(w) PROVE IInv'
  BY <1>4, CancelRegisteringInv
<1>5. ASSUME NEW w \in Waiters,
             \/ CancelWaiting(w) \/ TimerFires(w) \/ HoldTimesOut(w) \/ LateTimesOut(w)
             \/ HostAnswers(w) \/ HostForgets(w)
      PROVE  IInv'
  BY <1>5, TimerInv
<1>6. ASSUME NEW f \in Feeds, NEW s \in Sessions, HostSends(f, s) PROVE IInv'
  BY <1>6, HostSendsInv
<1>7. ASSUME NEW f \in Feeds, NoMatch(f) PROVE IInv'
  BY <1>7, NoMatchInv
<1>8. ASSUME NEW f \in Feeds, Match(f) PROVE IInv'
  BY <1>8, MatchInv
<1>9. ASSUME NEW f \in Feeds, Acquire(f) PROVE IInv'
  BY <1>9, AcquireInv
<1>10. ASSUME NEW f \in Feeds, FeedTimesOut(f) PROVE IInv'
  BY <1>10, FeedTimesOutInv
<1>11. ASSUME NEW f \in Feeds, HandlerStep(f) PROVE IInv'
  BY <1>11, HandlerInv
<1>12. CASE UNCHANGED vars
  <2>1. TypeOK'
    BY <1>12 DEF vars, waiters, holds, feeds, IInv, TypeOK
  <2>2. Lines' /\ Entries'
    BY <1>12, SameLines, SameEntries DEF vars, waiters, IInv, Lines, Entries
  <2> QED
    BY <2>1, <2>2 DEF IInv, Lines, Entries
<1> QED
  BY <1>1, <1>2, <1>3, <1>4, <1>5, <1>6, <1>7, <1>8, <1>9, <1>10, <1>11, <1>12
     DEF Next, WaiterStep, FeedStep, HostStep

LEMMA SpecInv == Spec => []IInv
  BY InitInv, NextInv, PTL DEF Spec

\* Whatever callers, timers, handlers and the host do: the handler that runs is the
\* first at its waiter's lock, the call that waits for an orderly session is found by
\* the messages of the session, and an orderly entry has a call behind it
\* (session_waiter.py).
THEOREM WaitsSafe == Spec => []WaitsAreRight
<1>1. IInv => WaitsAreRight
  BY DEF IInv, WaitsAreRight, OneCall, Reachable
<1> QED
  BY <1>1, SpecInv, PTL

\* No handler starts for a session that has ended: trigger asks done() before the lock
\* and again under it.
THEOREM HandlersStartInTime == Spec => NoHandlerAfterEnd
<1>1. IInv /\ [Next]_vars =>
        [\A f \in Feeds : feed[f] # "handling" /\ feed'[f] = "handling" =>
           Pending(target'[f])]_vars
  <2> SUFFICES ASSUME IInv, Next, NEW f \in Feeds, feed[f] # "handling",
                      feed'[f] = "handling"
               PROVE  Pending(target'[f])
    OBVIOUS
  <2>1. ASSUME NEW g \in Feeds, FeedStep(g) PROVE Pending(target'[f])
    <3>1. CASE Match(g)
      BY <3>1 DEF Match, IInv, TypeOK
    <3>2. CASE Acquire(g)
      BY <3>2 DEF Acquire, Leave, IInv, TypeOK
    <3>3. CASE NoMatch(g) \/ FeedTimesOut(g)
      BY <3>3 DEF NoMatch, FeedTimesOut, Leave, IInv, TypeOK
    <3> QED
      BY <2>1, <3>1, <3>2, <3>3 DEF FeedStep
  <2>2. ASSUME NEW g \in Feeds, HandlerStep(g) PROVE FALSE
    <3>1. feed'[f] \in {feed[f], "done"}
      BY <2>2 DEF HandlerStep, HandlerStops, HandlerKeeps, HandlerReturns, HandlerRaises,
                  Leave, feeds, IInv, TypeOK
    <3> QED
      BY <3>1
  <2>3. ASSUME NEW g \in Feeds, NEW s \in Sessions, HostSends(g, s) PROVE FALSE
    BY <2>3 DEF HostSends, IInv, TypeOK
  <2>4. ASSUME NEW w \in Waiters, NEW s \in Sessions, Begin(w, s) PROVE FALSE
    BY <2>4 DEF Begin, feeds
  <2>5. ASSUME NEW w \in Waiters,
               WaiterStep(w) \/ CancelRegistering(w) \/ CancelWaiting(w) \/ HostStep(w)
        PROVE  FALSE
    BY <2>5 DEF WaiterStep, Resume, Wake, Cleanup, TimerFires, HoldTimesOut, LateTimesOut,
                CancelRegistering, CancelWaiting, HostStep, HostAnswers, HostForgets, feeds
  <2> QED
    BY <2>1, <2>2, <2>3, <2>4, <2>5 DEF Next
<1> QED
  BY <1>1, SpecInv, PTL DEF Spec, NoHandlerAfterEnd
=============================================================================
