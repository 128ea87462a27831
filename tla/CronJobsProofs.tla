--------------------------- MODULE CronJobsProofs ---------------------------
(***************************************************************************)
(* Theorems about CronJobs for every number of managers, jobs, edits and   *)
(* runs, whatever replies are lost.                                        *)
(***************************************************************************)
EXTENDS CronJobs, TLAPS

IsBusy(e) == stage[e] \in {"asked", "answered"}

\* The host never has a job that fell back to this process, and the records that
\* have a handler called by the local scheduler are of such jobs.
LocalIsLocal ==
  \A j \in Jobs :
    /\ j[2] = "local" => hosted[j] = "absent"
    /\ record[j] = "basic" => j[2] = "local" /\ handler[j] # NoOne

\* An edit on its way names a job, and the host answers an update only for one it has.
EditsName ==
  \A e \in Edits :
    /\ IsBusy(e) => op[e] = "list" \/ target[e] \in Jobs
    /\ stage[e] = "answered" /\ op[e] = "update" /\ reply[e] \in {"on", "off"} =>
         target[e] \in Jobs /\ target[e][2] = "host"

\* With orderly plugins a job is edited after its add has returned, by one call at a
\* time, and by none once it is deleted.
OneEdit ==
  orderly => \A j \in Jobs, e \in Edits : target[e] = j =>
    /\ stage[j[1]] = "done"
    /\ IsBusy(e) => ~Deleted(j)
    /\ \A d \in Edits : IsBusy(e) /\ IsBusy(d) /\ target[d] = j => d = e

\* A job the host has, or runs, was asked for by a manager that was built.
Owned ==
  /\ built # {} => manager \in Managers
  /\ \A c \in Calls : stage[c] # "new" => owner[c] \in built
  /\ \A j \in Jobs : hosted[j] # "absent" => stage[j[1]] # "new"
  /\ \A r \in Runs : run[r] # "idle" => of[r] \in Jobs
  /\ \A r \in Runs : run[r] = "fed" => stage[of[r][1]] # "new"

IInv == TypeOK /\ LocalIsLocal /\ EditsName /\ OneScheduler /\ OneEdit /\ DeletedIsGone /\ Owned

USE DEF mirror, calls, runs, edits

(***************************************************************************)
(* The jobs                                                                *)
(***************************************************************************)
LEMMA JobForm ==
  /\ \A j \in Jobs : j[1] \in Adds /\ j[2] \in {"host", "local"}
  /\ \A a \in Adds : /\ HostId(a) \in Jobs /\ HostId(a)[1] = a /\ HostId(a)[2] = "host"
                     /\ LocalId(a) \in Jobs /\ LocalId(a)[1] = a /\ LocalId(a)[2] = "local"
  BY DEF Jobs, HostId, LocalId

\* An add is no edit.
LEMMA CallForm ==
  /\ \A a \in Adds : a \in Calls /\ a \notin Edits
  /\ \A e \in Edits : e \in Calls /\ e \notin Adds
  /\ \A c \in Calls : c \in Adds \/ c \in Edits
  BY CallsAssumption DEF Calls

LEMMA SameJobs ==
  ASSUME IInv, UNCHANGED <<record, enabled, handler, trigger, hosted>>
  PROVE  LocalIsLocal' /\ OneScheduler'
  BY DEF IInv, LocalIsLocal, OneScheduler

\* A job and its host keep to the two invariants if the job changed does.
LEMMA OneJob ==
  ASSUME IInv, NEW j \in Jobs,
         \A i \in Jobs \ {j} : /\ record'[i] = record[i] /\ enabled'[i] = enabled[i]
                               /\ handler'[i] = handler[i] /\ trigger'[i] = trigger[i]
                               /\ hosted'[i] = hosted[i],
         j[2] = "local" => hosted'[j] = "absent",
         record'[j] = "basic" => j[2] = "local" /\ handler'[j] # NoOne,
         trigger'[j] = "basic" => record'[j] = "basic" /\ enabled'[j]
  PROVE  LocalIsLocal' /\ OneScheduler'
  BY DEF IInv, LocalIsLocal, OneScheduler

(***************************************************************************)
(* The calls                                                               *)
(***************************************************************************)
LEMMA SameCalls ==
  ASSUME IInv, UNCHANGED <<orderly, stage, op, target>>,
         \A e \in Edits : reply'[e] = reply[e]
  PROVE  EditsName' /\ OneEdit' /\ \A j \in Jobs : Deleted(j)' <=> Deleted(j)
  BY DEF IInv, EditsName, OneEdit, Deleted, IsBusy

\* An add that goes on is no edit, and was not done.
LEMMA AddMoves ==
  ASSUME IInv, NEW a \in Adds, stage[a] # "done", UNCHANGED <<orderly, op, target>>,
         \A c \in Calls \ {a} : stage'[c] = stage[c] /\ reply'[c] = reply[c]
  PROVE  EditsName' /\ OneEdit' /\ \A j \in Jobs : Deleted(j)' <=> Deleted(j)
<1>1. \A e \in Edits : stage'[e] = stage[e] /\ reply'[e] = reply[e]
  BY CallForm
<1>2. \A j \in Jobs : stage[j[1]] = "done" => stage'[j[1]] = "done"
  BY CallForm, JobForm
<1>3. \A j : Deleted(j)' <=> Deleted(j)
  BY <1>1 DEF Deleted
<1>4. EditsName'
  BY <1>1 DEF IInv, EditsName, IsBusy
<1>5. OneEdit'
  BY <1>1, <1>2, <1>3 DEF IInv, OneEdit, IsBusy
<1> QED
  BY <1>3, <1>4, <1>5

\* An edit begins: orderly plugins do that when no other is on its way.
LEMMA EditBegins ==
  ASSUME IInv, NEW e \in Edits, NEW j \in Jobs, Serial(j),
         stage[e] = "new", stage'[e] = "asked", target'[e] = j, orderly' = orderly,
         \A c \in Calls \ {e} : stage'[c] = stage[c],
         \A d \in Edits \ {e} : /\ op'[d] = op[d] /\ target'[d] = target[d]
                                /\ reply'[d] = reply[d]
  PROVE  EditsName' /\ OneEdit' /\ \A i \in Jobs : Deleted(i)' <=> Deleted(i)
<1>1. \A d \in Edits \ {e} : stage'[d] = stage[d]
  BY CallForm
<1>2. \A i \in Jobs : stage'[i[1]] = stage[i[1]]
  BY CallForm, JobForm
<1>3. \A i : Deleted(i)' <=> Deleted(i)
  BY <1>1 DEF Deleted
<1>4. EditsName'
  BY <1>1 DEF IInv, EditsName, IsBusy
<1>5. OneEdit'
  <2> SUFFICES ASSUME orderly, NEW i \in Jobs, NEW d \in Edits, target'[d] = i
               PROVE  /\ stage'[i[1]] = "done"
                      /\ IsBusy(d)' => ~Deleted(i)'
                      /\ \A c \in Edits : IsBusy(d)' /\ IsBusy(c)' /\ target'[c] = i => c = d
    BY DEF OneEdit
  <2>1. stage[j[1]] = "done" /\ ~Deleted(j) /\ \A c \in Edits : target[c] = j => ~IsBusy(c)
    BY DEF Serial, Busy, IsBusy
  <2>2. CASE d = e
    BY <1>1, <1>2, <1>3, <2>1, <2>2 DEF IsBusy
  <2>3. CASE d # e
    BY <1>1, <1>2, <1>3, <2>1, <2>3 DEF IInv, OneEdit, IsBusy
  <2> QED
    BY <2>2, <2>3
<1> QED
  BY <1>3, <1>4, <1>5

\* An edit on its way is answered.
LEMMA EditAnswered ==
  ASSUME IInv, NEW e \in Edits, stage[e] = "asked", stage'[e] = "answered",
         UNCHANGED <<orderly, op, target>>,
         \A c \in Calls \ {e} : stage'[c] = stage[c] /\ reply'[c] = reply[c],
         op[e] = "update" /\ reply'[e] \in {"on", "off"} => target[e][2] = "host"
  PROVE  EditsName' /\ OneEdit' /\ \A i \in Jobs : Deleted(i)' <=> Deleted(i)
<1>1. \A d \in Edits \ {e} : stage'[d] = stage[d] /\ reply'[d] = reply[d]
  BY CallForm
<1>2. \A i \in Jobs : stage'[i[1]] = stage[i[1]]
  BY CallForm, JobForm
<1>3. \A i : Deleted(i)' <=> Deleted(i)
  BY <1>1 DEF Deleted
<1>4. \A d \in Edits : IsBusy(d)' <=> IsBusy(d)
  BY <1>1 DEF IsBusy
<1>5. EditsName'
  BY <1>1, <1>4 DEF IInv, EditsName, IsBusy
<1>6. OneEdit'
  BY <1>2, <1>3, <1>4 DEF IInv, OneEdit
<1> QED
  BY <1>3, <1>5, <1>6

\* An edit returns; a deletion is complete then.
LEMMA EditReturns ==
  ASSUME IInv, NEW e \in Edits, stage[e] = "answered", stage'[e] = "done",
         UNCHANGED <<orderly, op, target, reply>>,
         \A c \in Calls \ {e} : stage'[c] = stage[c]
  PROVE  /\ EditsName' /\ OneEdit'
         /\ \A i \in Jobs : Deleted(i)' <=> Deleted(i) \/ (target[e] = i /\ op[e] = "delete")
         /\ orderly /\ target[e] \in Jobs => ~Deleted(target[e])
<1>1. \A d \in Edits \ {e} : stage'[d] = stage[d]
  BY CallForm
<1>2. \A i \in Jobs : stage'[i[1]] = stage[i[1]]
  BY CallForm, JobForm
<1>3. \A i : Deleted(i)' <=> Deleted(i) \/ (target[e] = i /\ op[e] = "delete")
  BY <1>1 DEF Deleted
<1>4. ~IsBusy(e)' /\ IsBusy(e) /\ \A d \in Edits \ {e} : IsBusy(d)' <=> IsBusy(d)
  BY <1>1 DEF IsBusy
<1>5. EditsName'
  BY <1>1, <1>4 DEF IInv, EditsName
<1>6. OneEdit'
  <2> SUFFICES ASSUME orderly, NEW i \in Jobs, NEW d \in Edits, target[d] = i
               PROVE  /\ stage'[i[1]] = "done"
                      /\ IsBusy(d)' => ~Deleted(i)'
                      /\ \A c \in Edits : IsBusy(d)' /\ IsBusy(c)' /\ target[c] = i => c = d
    BY DEF OneEdit
  <2>1. IsBusy(d)' => d # e /\ IsBusy(d) /\ target[e] # i
    BY <1>4 DEF IInv, OneEdit
  <2> QED
    BY <1>2, <1>3, <1>4, <2>1 DEF IInv, OneEdit
<1> QED
  BY <1>3, <1>4, <1>5, <1>6 DEF IInv, OneEdit

\* An edit without a bridge begins and returns in one step.
LEMMA EditAtOnce ==
  ASSUME IInv, NEW e \in Edits, NEW j \in Jobs, Serial(j),
         stage[e] = "new", stage'[e] = "done", target'[e] = j,
         UNCHANGED <<orderly, reply>>,
         \A c \in Calls \ {e} : stage'[c] = stage[c],
         \A d \in Edits \ {e} : op'[d] = op[d] /\ target'[d] = target[d]
  PROVE  /\ EditsName' /\ OneEdit'
         /\ \A i \in Jobs : Deleted(i)' <=> Deleted(i) \/ (j = i /\ op'[e] = "delete")
         /\ orderly => ~Deleted(j)
<1>1. \A d \in Edits \ {e} : stage'[d] = stage[d]
  BY CallForm
<1>2. \A i \in Jobs : stage'[i[1]] = stage[i[1]]
  BY CallForm, JobForm
<1>3. \A i : Deleted(i)' <=> Deleted(i) \/ (j = i /\ op'[e] = "delete")
  BY <1>1 DEF Deleted
<1>4. ~IsBusy(e)' /\ \A d \in Edits \ {e} : IsBusy(d)' <=> IsBusy(d)
  BY <1>1 DEF IsBusy
<1>5. EditsName'
  BY <1>1, <1>4 DEF IInv, EditsName, IsBusy
<1>6. OneEdit'
  <2> SUFFICES ASSUME orderly, NEW i \in Jobs, NEW d \in Edits, target'[d] = i
               PROVE  /\ stage'[i[1]] = "done"
                      /\ IsBusy(d)' => ~Deleted(i)'
                      /\ \A c \in Edits : IsBusy(d)' /\ IsBusy(c)' /\ target'[c] = i => c = d
    BY DEF OneEdit
  <2>1. stage[j[1]] = "done" /\ \A c \in Edits : target[c] = j => ~IsBusy(c)
    BY DEF Serial, Busy, IsBusy
  <2>2. CASE d = e
    BY <1>2, <1>4, <2>1, <2>2
  <2>3. CASE d # e
    BY <1>2, <1>3, <1>4, <2>1, <2>3 DEF IInv, OneEdit
  <2> QED
    BY <2>2, <2>3
<1>7. orderly => ~Deleted(j)
  BY DEF Serial
<1> QED
  BY <1>3, <1>5, <1>6, <1>7

(***************************************************************************)
(* Deletions and owners                                                    *)
(***************************************************************************)
LEMMA StillGone ==
  ASSUME IInv, orderly' = orderly, \A j \in Jobs : Deleted(j)' <=> Deleted(j),
         \A j \in Jobs : orderly /\ Deleted(j) =>
           record'[j] = record[j] /\ handler'[j] = handler[j] /\ trigger'[j] = trigger[j]
  PROVE  DeletedIsGone'
  BY DEF IInv, DeletedIsGone

\* A call keeps its manager, or gets one that was built.
LEMMA StillOwned ==
  ASSUME IInv, UNCHANGED <<manager, built>>,
         \A c \in Calls : /\ stage'[c] = "new" => stage[c] = "new"
                          /\ stage'[c] # "new" => owner'[c] \in built,
         \A j \in Jobs : hosted'[j] # "absent" => hosted[j] # "absent" \/ stage'[j[1]] # "new",
         UNCHANGED <<run, of>>
  PROVE  Owned'
<1>1. \A j \in Jobs : j[1] \in Calls
  BY JobForm, CallForm
<1>2. \A j \in Jobs : stage[j[1]] # "new" => stage'[j[1]] # "new"
  BY <1>1
<1>3. \A r \in Runs : run[r] = "fed" => stage'[of[r][1]] # "new"
  BY <1>2 DEF IInv, Owned
<1> QED
  BY <1>2, <1>3 DEF IInv, Owned

\* What Ask and NoBridge do to the callers, and Back does not.
LEMMA CallOwned ==
  ASSUME IInv, NEW c \in Calls, UNCHANGED <<manager, built>>,
         \A d \in Calls \ {c} : stage'[d] = stage[d] /\ owner'[d] = owner[d],
         stage'[c] # "new", owner'[c] \in built
  PROVE  \A d \in Calls : /\ stage'[d] = "new" => stage[d] = "new"
                          /\ stage'[d] # "new" => owner'[d] \in built
  BY DEF IInv, Owned

(***************************************************************************)
(* Adds                                                                    *)
(***************************************************************************)
LEMMA AddInv ==
  ASSUME IInv, NEW a \in Adds, NEW m \in Managers, Add(a, m)
  PROVE  IInv'
<1>1. /\ a \in Calls /\ stage[a] = "new" /\ m \in built
      /\ stage' = [stage EXCEPT ![a] = "asked"] /\ owner' = [owner EXCEPT ![a] = m]
      /\ UNCHANGED <<orderly, manager, built, mirror, hosted, reply, edits, runs>>
  BY CallForm DEF Add, Ask, Move
<1>2. TypeOK'
  BY <1>1 DEF IInv, TypeOK, Stages
<1>3. EditsName' /\ OneEdit' /\ \A j \in Jobs : Deleted(j)' <=> Deleted(j)
  BY <1>1, AddMoves DEF IInv, TypeOK
<1>4. LocalIsLocal' /\ OneScheduler' /\ DeletedIsGone'
  BY <1>1, <1>3, SameJobs, StillGone
<1>5. Owned'
  BY <1>1, CallOwned, StillOwned DEF IInv, TypeOK
<1> QED
  BY <1>2, <1>3, <1>4, <1>5 DEF IInv

LEMMA HostCreatesInv ==
  ASSUME IInv, NEW a \in Adds, HostCreates(a)
  PROVE  IInv'
<1>1. /\ a \in Calls /\ stage[a] = "asked" /\ owner' = owner
      /\ stage' = [stage EXCEPT ![a] = "answered"]
      /\ hosted' = [hosted EXCEPT ![HostId(a)] = "on"]
      /\ HostId(a) \in Jobs /\ HostId(a)[1] = a /\ HostId(a)[2] = "host"
      /\ UNCHANGED <<orderly, manager, built, mirror, edits, runs>>
  BY CallForm, JobForm DEF HostCreates, Answer, Move
<1>2. reply' \in [Calls -> Replies] /\ \A c \in Calls \ {a} : reply'[c] = reply[c]
  BY <1>1 DEF HostCreates, Answer, IInv, TypeOK, Replies
<1>3. TypeOK'
  BY <1>1, <1>2 DEF IInv, TypeOK, Stages
<1>4. EditsName' /\ OneEdit' /\ \A j \in Jobs : Deleted(j)' <=> Deleted(j)
  BY <1>1, <1>2, AddMoves DEF IInv, TypeOK
<1>5. LocalIsLocal' /\ OneScheduler'
  <2>1. trigger[HostId(a)] # "basic" /\ record[HostId(a)] # "basic"
    BY <1>1 DEF IInv, LocalIsLocal, OneScheduler
  <2> QED
    BY <1>1, <2>1, OneJob DEF IInv, TypeOK
<1>6. DeletedIsGone'
  BY <1>1, <1>4, StillGone
<1>7. Owned'
  <2>1. owner[a] \in built
    BY <1>1 DEF IInv, Owned
  <2>2. \A j \in Jobs : hosted'[j] # "absent" => hosted[j] # "absent" \/ stage'[j[1]] # "new"
    BY <1>1 DEF IInv, TypeOK
  <2> QED
    BY <1>1, <2>1, <2>2, CallOwned, StillOwned DEF IInv, TypeOK
<1> QED
  BY <1>3, <1>4, <1>5, <1>6, <1>7 DEF IInv

LEMMA RpcFailsInv ==
  ASSUME IInv, NEW c \in Calls, RpcFails(c)
  PROVE  IInv'
<1>1. /\ stage[c] = "asked" /\ owner' = owner
      /\ stage' = [stage EXCEPT ![c] = "answered"]
      /\ reply' = [reply EXCEPT ![c] = "empty"]
      /\ UNCHANGED <<orderly, manager, built, mirror, hosted, edits, runs>>
  BY DEF RpcFails, Answer, Move
<1>2. TypeOK'
  BY <1>1 DEF IInv, TypeOK, Stages, Replies
<1>3. EditsName' /\ OneEdit' /\ \A j \in Jobs : Deleted(j)' <=> Deleted(j)
  <2>1. CASE c \in Adds
    BY <1>1, <2>1, AddMoves DEF IInv, TypeOK
  <2>2. CASE c \in Edits
    BY <1>1, <2>2, EditAnswered DEF IInv, TypeOK
  <2> QED
    BY <2>1, <2>2, CallForm
<1>4. LocalIsLocal' /\ OneScheduler' /\ DeletedIsGone'
  BY <1>1, <1>3, SameJobs, StillGone
<1>5. Owned'
  <2>1. owner[c] \in built
    BY <1>1 DEF IInv, Owned
  <2> QED
    BY <1>1, <2>1, CallOwned, StillOwned DEF IInv, TypeOK
<1> QED
  BY <1>2, <1>3, <1>4, <1>5 DEF IInv

\* The add that returns was not done: nobody edits its job yet.
LEMMA AddForwardedInv ==
  ASSUME IInv, NEW a \in Adds, AddForwarded(a)
  PROVE  IInv'
<1> DEFINE j == HostId(a)
<1>1. /\ a \in Calls /\ stage[a] = "answered" /\ owner' = owner /\ reply' = reply
      /\ stage' = [stage EXCEPT ![a] = "done"]
      /\ j \in Jobs /\ j[1] = a /\ j[2] = "host"
      /\ record'  = [record EXCEPT ![j] = "cron"]
      /\ enabled' = [enabled EXCEPT ![j] = TRUE]
      /\ forwarded' = forwarded \cup {j} /\ known' = known \cup {j}
      /\ UNCHANGED <<orderly, manager, built, trigger, hosted, op, target, change, answer,
                     listing, runs>>
  BY CallForm, JobForm DEF AddForwarded, Back, Move
<1>2. PICK h \in Handlers \cup {NoOne} : handler' = [handler EXCEPT ![j] = h]
  BY DEF AddForwarded
<1> HIDE DEF j
<1>3. TypeOK'
  BY <1>1, <1>2 DEF IInv, TypeOK, Stages, Types
<1>4. EditsName' /\ OneEdit' /\ \A i \in Jobs : Deleted(i)' <=> Deleted(i)
  BY <1>1, AddMoves DEF IInv, TypeOK
<1>5. LocalIsLocal' /\ OneScheduler'
  <2>1. trigger[j] # "basic"
    BY <1>1 DEF IInv, LocalIsLocal, OneScheduler
  <2> QED
    BY <1>1, <1>2, <2>1, OneJob DEF IInv, TypeOK
<1>6. DeletedIsGone'
  <2>1. orderly => ~Deleted(j)
    BY <1>1 DEF IInv, OneEdit, Deleted
  <2> QED
    BY <1>1, <1>2, <1>4, <2>1, StillGone DEF IInv, TypeOK
<1>7. Owned'
  <2>1. owner[a] \in built
    BY <1>1 DEF IInv, Owned
  <2> QED
    BY <1>1, <2>1, CallOwned, StillOwned DEF IInv, TypeOK
<1> QED
  BY <1>3, <1>4, <1>5, <1>6, <1>7 DEF IInv

LEMMA AddLocalInv ==
  ASSUME IInv, NEW a \in Adds, NEW m \in Managers, AddLocal(a, m)
  PROVE  IInv'
<1> DEFINE j == LocalId(a)
<1>1. /\ a \in Calls /\ stage[a] # "done" /\ reply' = reply
      /\ stage' = [stage EXCEPT ![a] = "done"]
      /\ j \in Jobs /\ j[1] = a /\ j[2] = "local"
      /\ known' = known \cup {j}
      /\ UNCHANGED <<orderly, manager, built, forwarded, hosted, op, target, change, answer,
                     listing, runs>>
  BY CallForm, JobForm DEF AddLocal, NoBridge, Back, Move
<1>2. /\ owner' \in [Calls -> Managers \cup {NoOne}]
      /\ owner'[a] \in built /\ \A c \in Calls \ {a} : owner'[c] = owner[c]
  BY <1>1 DEF AddLocal, NoBridge, Back, IInv, TypeOK, Owned
<1>3. PICK h \in Handlers \cup {NoOne}, on \in BOOLEAN,
           t \in {"none", "basic", "active"} :
        LET type == IF h = NoOne THEN "active_agent" ELSE "basic"
        IN  /\ record'  = [record EXCEPT ![j] = type]
            /\ handler' = [handler EXCEPT ![j] = h]
            /\ enabled' = [enabled EXCEPT ![j] = on]
            /\ trigger' = [trigger EXCEPT ![j] = t]
            /\ t = "basic" => on /\ type = "basic"
  BY DEF AddLocal, Triggers
<1> HIDE DEF j
<1>4. TypeOK'
  BY <1>1, <1>2, <1>3 DEF IInv, TypeOK, Stages, Types
<1>5. EditsName' /\ OneEdit' /\ \A i \in Jobs : Deleted(i)' <=> Deleted(i)
  BY <1>1, AddMoves DEF IInv, TypeOK
<1>6. LocalIsLocal' /\ OneScheduler'
  <2>1. hosted'[j] = "absent"
    BY <1>1 DEF IInv, LocalIsLocal
  <2>2. /\ record'[j] = "basic" => handler'[j] # NoOne
        /\ trigger'[j] = "basic" => record'[j] = "basic" /\ enabled'[j]
    BY <1>1, <1>3 DEF IInv, TypeOK
  <2>3. \A i \in Jobs \ {j} : /\ record'[i] = record[i] /\ enabled'[i] = enabled[i]
                              /\ handler'[i] = handler[i] /\ trigger'[i] = trigger[i]
                              /\ hosted'[i] = hosted[i]
    BY <1>1, <1>3 DEF IInv, TypeOK
  <2> QED
    BY <1>1, <2>1, <2>2, <2>3, OneJob
<1>7. DeletedIsGone'
  <2>1. orderly => ~Deleted(j)
    BY <1>1 DEF IInv, OneEdit, Deleted
  <2>2. \A i \in Jobs \ {j} : /\ record'[i] = record[i] /\ handler'[i] = handler[i]
                              /\ trigger'[i] = trigger[i]
    BY <1>1, <1>3 DEF IInv, TypeOK
  <2> QED
    BY <1>1, <1>5, <2>1, <2>2, StillGone
<1>8. Owned'
  BY <1>1, <1>2, CallOwned, StillOwned DEF IInv, TypeOK
<1> QED
  BY <1>4, <1>5, <1>6, <1>7, <1>8 DEF IInv

(***************************************************************************)
(* Edits that are forwarded                                                *)
(***************************************************************************)
\* An update, a deletion or a run now sets out.
LEMMA EditInv ==
  ASSUME IInv, NEW e \in Edits, NEW j \in Jobs, NEW o \in Ops, Edit(e, o, j),
         change' \in [Edits -> Changes]
  PROVE  IInv'
<1>1. /\ e \in Calls /\ stage[e] = "new" /\ Serial(j) /\ Owner(j) \in built
      /\ stage' = [stage EXCEPT ![e] = "asked"] /\ owner' = [owner EXCEPT ![e] = Owner(j)]
      /\ op' = [op EXCEPT ![e] = o] /\ target' = [target EXCEPT ![e] = j]
      /\ UNCHANGED <<orderly, manager, built, mirror, hosted, reply, answer, listing, known,
                     runs>>
  BY CallForm DEF Edit, Ask, Move, Name
<1>2. TypeOK'
  BY <1>1 DEF IInv, TypeOK, Stages
<1>3. EditsName' /\ OneEdit' /\ \A i \in Jobs : Deleted(i)' <=> Deleted(i)
  BY <1>1, EditBegins DEF IInv, TypeOK
<1>4. LocalIsLocal' /\ OneScheduler' /\ DeletedIsGone'
  BY <1>1, <1>3, SameJobs, StillGone
<1>5. Owned'
  BY <1>1, CallOwned, StillOwned DEF IInv, TypeOK
<1> QED
  BY <1>2, <1>3, <1>4, <1>5 DEF IInv

LEMMA ForwardedInv ==
  ASSUME IInv, NEW e \in Edits, NEW j \in Jobs,
         \/ Delete(e, j) \/ RunNow(e, j) \/ \E ch \in Changes : Update(e, j, ch)
  PROVE  IInv'
<1>1. CASE Delete(e, j)
  BY <1>1, EditInv DEF Delete, Ops, IInv, TypeOK
<1>2. CASE RunNow(e, j)
  BY <1>2, EditInv DEF RunNow, Ops, IInv, TypeOK
<1>3. ASSUME NEW ch \in Changes, Update(e, j, ch) PROVE IInv'
  <2>1. change' \in [Edits -> Changes] /\ Edit(e, "update", j)
    BY <1>3 DEF Update, IInv, TypeOK
  <2> QED
    BY <2>1, EditInv DEF Ops
<1> QED
  BY <1>1, <1>2, <1>3

\* The host answers an edit, and keeps what it has of other jobs.
LEMMA HostAnswersInv ==
  ASSUME IInv, NEW e \in Edits, stage[e] = "asked", NEW r \in Replies, Answer(e, r),
         op[e] = "update" /\ r \in {"on", "off"} => target[e][2] = "host",
         UNCHANGED <<orderly, manager, built, mirror, owner, op, target, change, answer, known>>,
         hosted' \in [Jobs -> {"absent", "on", "off"}],
         \A j \in Jobs : hosted'[j] = hosted[j] \/ hosted'[j] = "absent" \/ hosted[j] # "absent",
         listing' \in [Edits -> SUBSET Jobs],
         run' \in [Runs -> RunStages], of' \in [Runs -> Jobs \cup {NoOne}], using' = using,
         \A q \in Runs : /\ run'[q] # "idle" => of'[q] \in Jobs
                         /\ run'[q] = "fed" => stage[of'[q][1]] # "new"
  PROVE  IInv'
<1>1. /\ e \in Calls /\ stage' = [stage EXCEPT ![e] = "answered"]
      /\ reply' = [reply EXCEPT ![e] = r]
  BY CallForm DEF Answer, Move
<1>2. TypeOK'
  BY <1>1 DEF IInv, TypeOK, Stages
<1>3. EditsName' /\ OneEdit' /\ \A i \in Jobs : Deleted(i)' <=> Deleted(i)
  BY <1>1, EditAnswered DEF IInv, TypeOK
<1>4. LocalIsLocal' /\ OneScheduler'
  BY DEF IInv, LocalIsLocal, OneScheduler, TypeOK
<1>5. DeletedIsGone'
  BY <1>3, StillGone
<1>6. Owned'
  <2>1. \A c \in Calls : stage'[c] # "new" <=> stage[c] # "new"
    BY <1>1 DEF IInv, TypeOK
  <2>2. \A c \in Calls : stage'[c] # "new" => owner'[c] \in built
    BY <2>1 DEF IInv, Owned
  <2>3. \A j \in Jobs : hosted'[j] # "absent" => stage'[j[1]] # "new"
    BY <2>1, CallForm, JobForm DEF IInv, Owned
  <2>4. \A q \in Runs : run'[q] = "fed" => stage'[of'[q][1]] # "new"
    <3> SUFFICES ASSUME NEW q \in Runs, run'[q] = "fed" PROVE stage'[of'[q][1]] # "new"
      OBVIOUS
    <3>1. of'[q] \in Jobs /\ stage[of'[q][1]] # "new"
      OBVIOUS
    <3>2. of'[q][1] \in Calls
      BY <3>1, CallForm, JobForm
    <3> QED
      BY <2>1, <3>1, <3>2
  <2> QED
    BY <2>2, <2>3, <2>4 DEF IInv, Owned
<1> QED
  BY <1>2, <1>3, <1>4, <1>5, <1>6 DEF IInv

\* A step that leaves the runs alone keeps them owned.
LEMMA RunsOwned ==
  ASSUME IInv, UNCHANGED <<run, of>>
  PROVE  /\ run' \in [Runs -> RunStages] /\ of' \in [Runs -> Jobs \cup {NoOne}]
         /\ \A q \in Runs : /\ run'[q] # "idle" => of'[q] \in Jobs
                            /\ run'[q] = "fed" => stage[of'[q][1]] # "new"
  BY DEF IInv, TypeOK, Owned

LEMMA HostUpdatesInv ==
  ASSUME IInv, NEW e \in Edits, HostUpdates(e)
  PROVE  IInv'
<1> DEFINE j == target[e]
<1>1. /\ stage[e] = "asked" /\ op[e] = "update" /\ j \in Jobs /\ hosted[j] # "absent"
  BY DEF HostUpdates, IInv, EditsName, IsBusy
<1>2. j[2] = "host"
  BY <1>1, JobForm DEF IInv, LocalIsLocal
<1>3. /\ hosted' \in [Jobs -> {"absent", "on", "off"}] /\ hosted'[j] \in {"on", "off"}
      /\ \A i \in Jobs : hosted'[i] = hosted[i] \/ hosted[i] # "absent"
  BY <1>1 DEF HostUpdates, IInv, TypeOK, Changes, Flags
<1>4. \E r \in {hosted'[j], "empty"} : Answer(e, r)
  BY DEF HostUpdates
<1>5. /\ UNCHANGED <<orderly, manager, built, mirror, owner, op, target, change, answer, known>>
      /\ UNCHANGED <<listing, run, of, using>>
  BY DEF HostUpdates
<1> HIDE DEF j
<1>6. PICK r \in Replies : Answer(e, r)
  BY <1>3, <1>4 DEF Replies
<1>7. listing' \in [Edits -> SUBSET Jobs]
  BY <1>5 DEF IInv, TypeOK
<1> QED
  BY <1>1, <1>2, <1>3, <1>5, <1>6, <1>7, RunsOwned, HostAnswersInv DEF j

LEMMA HostDeletesInv ==
  ASSUME IInv, NEW e \in Edits, HostDeletes(e)
  PROVE  IInv'
<1>1. /\ stage[e] = "asked" /\ op[e] = "delete"
      /\ hosted' = [hosted EXCEPT ![target[e]] = "absent"]
      /\ UNCHANGED <<orderly, manager, built, mirror, owner, op, target, change, answer, known>>
      /\ UNCHANGED <<listing, run, of, using>>
  BY DEF HostDeletes
<1>2. PICK r \in Replies : Answer(e, r)
  BY DEF HostDeletes, Replies
<1>3. /\ hosted' \in [Jobs -> {"absent", "on", "off"}]
      /\ \A i \in Jobs : hosted'[i] = hosted[i] \/ hosted'[i] = "absent"
      /\ listing' \in [Edits -> SUBSET Jobs]
  BY <1>1 DEF IInv, TypeOK
<1> QED
  BY <1>1, <1>2, <1>3, RunsOwned, HostAnswersInv

LEMMA HostListsInv ==
  ASSUME IInv, NEW e \in Edits, HostLists(e)
  PROVE  IInv'
<1>1. /\ stage[e] = "asked" /\ op[e] = "list" /\ Answer(e, "ack")
      /\ UNCHANGED <<orderly, manager, built, mirror, owner, op, target, change, answer, known>>
      /\ UNCHANGED <<hosted, run, of, using>>
  BY DEF HostLists
<1>2. hosted' \in [Jobs -> {"absent", "on", "off"}] /\ "ack" \in Replies
  BY <1>1 DEF IInv, TypeOK, Replies
<1>3. listing' \in [Edits -> SUBSET Jobs]
  BY DEF IInv, TypeOK, HostLists
<1> QED
  BY <1>1, <1>2, <1>3, RunsOwned, HostAnswersInv

LEMMA HostRunsInv ==
  ASSUME IInv, NEW e \in Edits, NEW r \in Runs, HostRuns(e, r)
  PROVE  IInv'
<1> DEFINE j == target[e]
<1>1. /\ stage[e] = "asked" /\ op[e] = "runNow" /\ j \in Jobs /\ hosted[j] # "absent"
      /\ run' = [run EXCEPT ![r] = "fed"] /\ of' = [of EXCEPT ![r] = j]
      /\ UNCHANGED <<orderly, manager, built, mirror, owner, op, target, change, answer, known>>
      /\ UNCHANGED <<hosted, listing, using>>
  BY DEF HostRuns, IInv, EditsName, IsBusy
<1>2. PICK a \in Replies : Answer(e, a)
  BY DEF HostRuns, Replies
<1>3. hosted' \in [Jobs -> {"absent", "on", "off"}] /\ listing' \in [Edits -> SUBSET Jobs]
  BY <1>1 DEF IInv, TypeOK
<1>4. /\ run' \in [Runs -> RunStages] /\ of' \in [Runs -> Jobs \cup {NoOne}]
      /\ \A q \in Runs : /\ run'[q] # "idle" => of'[q] \in Jobs
                         /\ run'[q] = "fed" => stage[of'[q][1]] # "new"
  BY <1>1 DEF IInv, TypeOK, Owned, RunStages
<1> HIDE DEF j
<1> QED
  BY <1>1, <1>2, <1>3, <1>4, HostAnswersInv

(***************************************************************************)
(* Edits that return                                                       *)
(***************************************************************************)
\* The manager of a call that returns, or that has no bridge, was built.
LEMMA ReturnOwned ==
  ASSUME IInv, NEW c \in Calls, UNCHANGED <<manager, built, hosted, run, of>>,
         stage' = [stage EXCEPT ![c] = "done"],
         \/ stage[c] = "answered" /\ owner' = owner
         \/ \E m \in Managers : NoBridge(c, m)
  PROVE  Owned' /\ owner' \in [Calls -> Managers \cup {NoOne}]
<1>1. /\ owner'[c] \in built /\ \A d \in Calls \ {c} : owner'[d] = owner[d]
      /\ owner' \in [Calls -> Managers \cup {NoOne}]
  BY DEF NoBridge, IInv, TypeOK, Owned
<1>2. Owned'
  BY <1>1, CallOwned, StillOwned DEF IInv, TypeOK
<1> QED
  BY <1>1, <1>2

\* The mirror after an edit of j, and what else TypeOK says of a call that is done.
LEMMA ReturnTyped ==
  ASSUME IInv, NEW e \in Edits, UNCHANGED <<orderly, manager, built, hosted, listing, runs>>,
         stage' = [stage EXCEPT ![e] = "done"], reply' = reply,
         owner'   \in [Calls -> Managers \cup {NoOne}],
         record'  \in [Jobs -> Types], enabled' \in [Jobs -> BOOLEAN],
         handler' \in [Jobs -> Handlers \cup {NoOne}], forwarded' \subseteq Jobs,
         trigger' \in [Jobs -> {"none", "basic", "active"}],
         op' \in [Edits -> Ops], target' \in [Edits -> Jobs \cup {NoOne}],
         change' \in [Edits -> Changes], answer' \in [Edits -> Answers], known' \subseteq Jobs
  PROVE  TypeOK'
  BY CallForm DEF IInv, TypeOK, Stages

LEMMA UpdateForwardedInv ==
  ASSUME IInv, NEW e \in Edits, UpdateForwarded(e)
  PROVE  IInv'
<1> DEFINE j == target[e]
<1>1. /\ e \in Calls /\ stage[e] = "answered" /\ op[e] = "update" /\ reply[e] \in {"on", "off"}
      /\ j \in Jobs /\ j[2] = "host"
      /\ stage' = [stage EXCEPT ![e] = "done"]
      /\ record'  = [record EXCEPT ![j] = "cron"]
      /\ enabled' = [enabled EXCEPT ![j] = (reply[e] = "on")]
      /\ forwarded' = forwarded \cup {j}
      /\ answer' = [answer EXCEPT ![e] = "host"]
      /\ UNCHANGED <<owner, reply>>
      /\ UNCHANGED <<orderly, manager, built, handler, trigger, hosted, op, target, change,
                     listing, known, runs>>
  BY CallForm DEF UpdateForwarded, Back, Move, IInv, EditsName
<1> HIDE DEF j
<1>2. Owned' /\ owner' \in [Calls -> Managers \cup {NoOne}]
  BY <1>1, ReturnOwned
<1>3. TypeOK'
  <2>1. /\ record' \in [Jobs -> Types] /\ enabled' \in [Jobs -> BOOLEAN]
        /\ forwarded' \subseteq Jobs /\ answer' \in [Edits -> Answers]
    BY <1>1 DEF IInv, TypeOK, Types, Answers
  <2>2. /\ handler' \in [Jobs -> Handlers \cup {NoOne}] /\ known' \subseteq Jobs
        /\ trigger' \in [Jobs -> {"none", "basic", "active"}]
        /\ op' \in [Edits -> Ops] /\ target' \in [Edits -> Jobs \cup {NoOne}]
        /\ change' \in [Edits -> Changes]
    BY <1>1 DEF IInv, TypeOK
  <2> QED
    BY <1>1, <1>2, <2>1, <2>2, ReturnTyped
<1>4. /\ EditsName' /\ OneEdit'
      /\ \A i \in Jobs : Deleted(i)' <=> Deleted(i)
      /\ orderly => ~Deleted(j)
  BY <1>1, EditReturns DEF IInv, TypeOK, j
<1>5. LocalIsLocal' /\ OneScheduler'
  <2>1. trigger[j] # "basic" /\ record'[j] # "basic"
    BY <1>1 DEF IInv, LocalIsLocal, OneScheduler, TypeOK
  <2> QED
    BY <1>1, <2>1, OneJob DEF IInv, TypeOK
<1>6. DeletedIsGone'
  BY <1>1, <1>4, StillGone DEF IInv, TypeOK
<1> QED
  BY <1>2, <1>3, <1>4, <1>5, <1>6 DEF IInv

\* The local half of an update leaves one scheduler, and changes no other job.
LEMMA AmendJobs ==
  ASSUME IInv, NEW e \in Edits, NEW j \in Jobs, NEW ch \in Changes, Amend(e, j, ch)
  PROVE  /\ enabled' \in [Jobs -> BOOLEAN] /\ handler' \in [Jobs -> Handlers \cup {NoOne}]
         /\ trigger' \in [Jobs -> {"none", "basic", "active"}]
         /\ answer' \in [Edits -> Answers]
         /\ record' = record
         /\ \A i \in Jobs \ {j} : /\ enabled'[i] = enabled[i] /\ handler'[i] = handler[i]
                                  /\ trigger'[i] = trigger[i]
         /\ LocalIsLocal' /\ OneScheduler'
<1>1. UNCHANGED <<record, hosted>>
  BY DEF Amend
<1>2. CASE record[j] = "none"
  <2>1. UNCHANGED <<enabled, handler, trigger>> /\ answer' = [answer EXCEPT ![e] = "nothing"]
    BY <1>2 DEF Amend
  <2> QED
    BY <1>1, <2>1, SameJobs DEF IInv, TypeOK, Answers
<1>3. CASE record[j] # "none"
  <2>1. /\ answer' = [answer EXCEPT ![e] = "local"]
        /\ enabled' = IF ch.flag = "keep" THEN enabled
                      ELSE [enabled EXCEPT ![j] = (ch.flag = "on")]
        /\ handler' = IF ch.handler = NoOne THEN handler
                      ELSE [handler EXCEPT ![j] = ch.handler]
    BY <1>3 DEF Amend
  <2>2. PICK t \in IF enabled'[j] THEN Triggers(record[j]) ELSE {"none"} :
          trigger' = [trigger EXCEPT ![j] = t]
    BY <1>3 DEF Amend
  <2>3. t \in {"none", "basic", "active"} /\ (t = "basic" => enabled'[j] /\ record[j] = "basic")
    BY <2>2 DEF Triggers
  <2>4. /\ enabled' \in [Jobs -> BOOLEAN]
        /\ \A i \in Jobs \ {j} : enabled'[i] = enabled[i]
    BY <2>1 DEF IInv, TypeOK
  <2>5. /\ handler' \in [Jobs -> Handlers \cup {NoOne}]
        /\ \A i \in Jobs \ {j} : handler'[i] = handler[i]
        /\ handler[j] # NoOne => handler'[j] # NoOne
    BY <2>1 DEF IInv, TypeOK, Changes
  <2>6. /\ trigger' \in [Jobs -> {"none", "basic", "active"}]
        /\ trigger'[j] = t /\ \A i \in Jobs \ {j} : trigger'[i] = trigger[i]
    BY <2>2, <2>3 DEF IInv, TypeOK
  <2>7. answer' \in [Edits -> Answers]
    BY <2>1 DEF IInv, TypeOK, Answers
  <2>8. LocalIsLocal' /\ OneScheduler'
    <3>1. /\ j[2] = "local" => hosted'[j] = "absent"
          /\ record'[j] = "basic" => j[2] = "local" /\ handler'[j] # NoOne
          /\ trigger'[j] = "basic" => record'[j] = "basic" /\ enabled'[j]
      BY <1>1, <2>3, <2>5, <2>6 DEF IInv, LocalIsLocal
    <3> QED
      BY <1>1, <2>4, <2>5, <2>6, <3>1, OneJob
  <2> QED
    BY <1>1, <2>4, <2>5, <2>6, <2>7, <2>8
<1> QED
  BY <1>2, <1>3

LEMMA UpdateFallsBackInv ==
  ASSUME IInv, NEW e \in Edits, UpdateFallsBack(e)
  PROVE  IInv'
<1> DEFINE j == target[e]
<1>1. /\ e \in Calls /\ stage[e] = "answered" /\ op[e] = "update" /\ j \in Jobs
      /\ change[e] \in Changes /\ Amend(e, j, change[e])
      /\ stage' = [stage EXCEPT ![e] = "done"]
      /\ UNCHANGED <<owner, reply, op, target, change>>
      /\ UNCHANGED <<orderly, manager, built, record, forwarded, hosted, listing, known, runs>>
  BY CallForm DEF UpdateFallsBack, Amend, Back, Move, IInv, TypeOK, EditsName, IsBusy
<1> HIDE DEF j
<1>2. Owned' /\ owner' \in [Calls -> Managers \cup {NoOne}]
  BY <1>1, ReturnOwned
<1>3. TypeOK'
  <2>1. /\ record' \in [Jobs -> Types] /\ forwarded' \subseteq Jobs /\ known' \subseteq Jobs
        /\ op' \in [Edits -> Ops] /\ target' \in [Edits -> Jobs \cup {NoOne}]
        /\ change' \in [Edits -> Changes]
    BY <1>1 DEF IInv, TypeOK
  <2> QED
    BY <1>1, <1>2, <2>1, AmendJobs, ReturnTyped
<1>4. /\ EditsName' /\ OneEdit'
      /\ \A i \in Jobs : Deleted(i)' <=> Deleted(i)
      /\ orderly => ~Deleted(j)
  BY <1>1, EditReturns DEF IInv, TypeOK, j
<1>5. DeletedIsGone'
  BY <1>1, <1>4, AmendJobs, StillGone
<1> QED
  BY <1>1, <1>2, <1>3, <1>4, <1>5, AmendJobs DEF IInv

LEMMA UpdateLocalInv ==
  ASSUME IInv, NEW e \in Edits, NEW j \in Jobs, NEW ch \in Changes, UpdateLocal(e, j, ch)
  PROVE  IInv'
<1>1. /\ e \in Calls /\ stage[e] = "new" /\ Serial(j) /\ Amend(e, j, ch)
      /\ Owner(j) \in built /\ NoBridge(e, Owner(j))
      /\ stage' = [stage EXCEPT ![e] = "done"]
      /\ op' = [op EXCEPT ![e] = "update"] /\ target' = [target EXCEPT ![e] = j]
      /\ change' = [change EXCEPT ![e] = ch] /\ reply' = reply
      /\ UNCHANGED <<orderly, manager, built, record, forwarded, hosted, listing, known, runs>>
  BY CallForm DEF UpdateLocal, Amend, NoBridge, Name, Move
<1>2. Owned' /\ owner' \in [Calls -> Managers \cup {NoOne}]
  BY <1>1, ReturnOwned DEF IInv, TypeOK
<1>3. TypeOK'
  <2>1. /\ record' \in [Jobs -> Types] /\ forwarded' \subseteq Jobs /\ known' \subseteq Jobs
        /\ op' \in [Edits -> Ops] /\ target' \in [Edits -> Jobs \cup {NoOne}]
        /\ change' \in [Edits -> Changes]
    BY <1>1 DEF IInv, TypeOK, Ops
  <2> QED
    BY <1>1, <1>2, <2>1, AmendJobs, ReturnTyped
<1>4. /\ EditsName' /\ OneEdit'
      /\ \A i \in Jobs : Deleted(i)' <=> Deleted(i)
      /\ orderly => ~Deleted(j)
  <2>1. op'[e] = "update"
    BY <1>1 DEF IInv, TypeOK
  <2> QED
    BY <1>1, <2>1, EditAtOnce DEF IInv, TypeOK
<1>5. DeletedIsGone'
  BY <1>1, <1>4, AmendJobs, StillGone
<1> QED
  BY <1>1, <1>2, <1>3, <1>4, <1>5, AmendJobs DEF IInv

\* Nothing is left of a job that is cleaned.
LEMMA CleanJobs ==
  ASSUME IInv, NEW e \in Edits, NEW j \in Jobs, Clean(j, e), hosted' = hosted
  PROVE  /\ record' \in [Jobs -> Types] /\ enabled' \in [Jobs -> BOOLEAN]
         /\ handler' \in [Jobs -> Handlers \cup {NoOne}] /\ forwarded' \subseteq Jobs
         /\ trigger' \in [Jobs -> {"none", "basic", "active"}]
         /\ record'[j] = "none" /\ handler'[j] = NoOne /\ trigger'[j] = "none"
         /\ \A i \in Jobs \ {j} : /\ record'[i] = record[i] /\ handler'[i] = handler[i]
                                  /\ trigger'[i] = trigger[i]
         /\ LocalIsLocal' /\ OneScheduler'
<1>1. /\ record' \in [Jobs -> Types] /\ enabled' \in [Jobs -> BOOLEAN]
      /\ handler' \in [Jobs -> Handlers \cup {NoOne}] /\ forwarded' \subseteq Jobs
      /\ trigger' \in [Jobs -> {"none", "basic", "active"}]
      /\ record'[j] = "none" /\ handler'[j] = NoOne /\ trigger'[j] = "none"
  BY DEF Clean, IInv, TypeOK, Types
<1>2. \A i \in Jobs \ {j} : /\ record'[i] = record[i] /\ handler'[i] = handler[i]
                            /\ trigger'[i] = trigger[i] /\ enabled'[i] = enabled[i]
  BY DEF Clean, IInv, TypeOK
<1>3. LocalIsLocal' /\ OneScheduler'
  BY <1>1, <1>2, OneJob DEF IInv, LocalIsLocal
<1> QED
  BY <1>1, <1>2, <1>3

LEMMA DeleteReturnsInv ==
  ASSUME IInv, NEW e \in Edits, DeleteReturns(e)
  PROVE  IInv'
<1> DEFINE j == target[e]
<1>1. /\ e \in Calls /\ stage[e] = "answered" /\ op[e] = "delete" /\ j \in Jobs
      /\ Clean(j, e)
      /\ stage' = [stage EXCEPT ![e] = "done"]
      /\ UNCHANGED <<owner, reply, op, target, change, answer, listing, known>>
      /\ UNCHANGED <<orderly, manager, built, hosted, runs>>
  BY CallForm DEF DeleteReturns, Back, Move, IInv, EditsName, IsBusy
<1> HIDE DEF j
<1>2. Owned' /\ owner' \in [Calls -> Managers \cup {NoOne}]
  BY <1>1, ReturnOwned
<1>3. TypeOK'
  <2>1. /\ op' \in [Edits -> Ops] /\ target' \in [Edits -> Jobs \cup {NoOne}]
        /\ change' \in [Edits -> Changes] /\ answer' \in [Edits -> Answers]
        /\ known' \subseteq Jobs
    BY <1>1 DEF IInv, TypeOK
  <2> QED
    BY <1>1, <1>2, <2>1, CleanJobs, ReturnTyped
<1>4. /\ EditsName' /\ OneEdit'
      /\ \A i \in Jobs : Deleted(i)' <=> Deleted(i) \/ i = j
  BY <1>1, EditReturns DEF IInv, TypeOK, j
<1>5. DeletedIsGone'
  BY <1>1, <1>4, CleanJobs DEF IInv, DeletedIsGone
<1> QED
  BY <1>1, <1>2, <1>3, <1>4, <1>5, CleanJobs DEF IInv

LEMMA DeleteLocalInv ==
  ASSUME IInv, NEW e \in Edits, NEW j \in Jobs, DeleteLocal(e, j)
  PROVE  IInv'
<1>1. /\ e \in Calls /\ stage[e] = "new" /\ Serial(j) /\ Clean(j, e)
      /\ Owner(j) \in built /\ NoBridge(e, Owner(j))
      /\ stage' = [stage EXCEPT ![e] = "done"]
      /\ op' = [op EXCEPT ![e] = "delete"] /\ target' = [target EXCEPT ![e] = j]
      /\ reply' = reply
      /\ UNCHANGED <<orderly, manager, built, hosted, change, answer, listing, known, runs>>
  BY CallForm DEF DeleteLocal, NoBridge, Name, Move
<1>2. Owned' /\ owner' \in [Calls -> Managers \cup {NoOne}]
  BY <1>1, ReturnOwned DEF IInv, TypeOK
<1>3. TypeOK'
  <2>1. /\ op' \in [Edits -> Ops] /\ target' \in [Edits -> Jobs \cup {NoOne}]
        /\ change' \in [Edits -> Changes] /\ answer' \in [Edits -> Answers]
        /\ known' \subseteq Jobs
    BY <1>1 DEF IInv, TypeOK, Ops
  <2> QED
    BY <1>1, <1>2, <2>1, CleanJobs, ReturnTyped
<1>4. /\ EditsName' /\ OneEdit'
      /\ \A i \in Jobs : Deleted(i)' <=> Deleted(i) \/ i = j
  <2>1. op'[e] = "delete"
    BY <1>1 DEF IInv, TypeOK
  <2> QED
    BY <1>1, <2>1, EditAtOnce DEF IInv, TypeOK
<1>5. DeletedIsGone'
  BY <1>1, <1>4, CleanJobs DEF IInv, DeletedIsGone
<1> QED
  BY <1>1, <1>2, <1>3, <1>4, <1>5, CleanJobs DEF IInv

LEMMA RunNowReturnsInv ==
  ASSUME IInv, NEW e \in Edits, RunNowReturns(e)
  PROVE  IInv'
<1>1. /\ e \in Calls /\ stage[e] = "answered" /\ op[e] = "runNow"
      /\ stage' = [stage EXCEPT ![e] = "done"]
      /\ UNCHANGED <<owner, reply, op, target, change, listing, known>>
      /\ UNCHANGED <<orderly, manager, built, mirror, hosted, runs>>
  BY CallForm DEF RunNowReturns, Back, Move
<1>2. Owned' /\ owner' \in [Calls -> Managers \cup {NoOne}]
  BY <1>1, ReturnOwned
<1>3. TypeOK'
  <2>1. answer' \in [Edits -> Answers]
    BY DEF RunNowReturns, IInv, TypeOK, Answers
  <2> QED
    BY <1>1, <2>1 DEF IInv, TypeOK, Stages
<1>4. /\ EditsName' /\ OneEdit'
      /\ \A i \in Jobs : Deleted(i)' <=> Deleted(i)
  BY <1>1, EditReturns DEF IInv, TypeOK
<1>5. LocalIsLocal' /\ OneScheduler' /\ DeletedIsGone'
  BY <1>1, <1>4, SameJobs, StillGone
<1> QED
  BY <1>2, <1>3, <1>4, <1>5 DEF IInv

LEMMA RunNowLocalInv ==
  ASSUME IInv, NEW e \in Edits, NEW j \in Jobs, NEW r \in Runs, RunNowLocal(e, j, r)
  PROVE  IInv'
<1>1. /\ e \in Calls /\ stage[e] = "new" /\ Serial(j)
      /\ Owner(j) \in built /\ NoBridge(e, Owner(j))
      /\ stage' = [stage EXCEPT ![e] = "done"] /\ owner' = [owner EXCEPT ![e] = Owner(j)]
      /\ op' = [op EXCEPT ![e] = "runNow"] /\ target' = [target EXCEPT ![e] = j]
      /\ reply' = reply
      /\ UNCHANGED <<orderly, manager, built, mirror, hosted, change, listing, known>>
  BY CallForm DEF RunNowLocal, NoBridge, Name, Move
<1>2. /\ run' \in [Runs -> RunStages] /\ of' \in [Runs -> Jobs \cup {NoOne}]
      /\ using' \in [Runs -> Handlers \cup {NoOne}]
      /\ \A q \in Runs : /\ run'[q] # "idle" => of'[q] \in Jobs
                         /\ run'[q] = "fed" => run[q] = "fed" /\ of'[q] = of[q]
      /\ answer' \in [Edits -> Answers]
  <2>1. CASE record[j] = "basic" /\ handler[j] # NoOne /\ run[r] = "idle"
               /\ run' = [run EXCEPT ![r] = "running"] /\ of' = [of EXCEPT ![r] = j]
               /\ using' = [using EXCEPT ![r] = handler[j]]
               /\ answer' = [answer EXCEPT ![e] = "local"]
    BY <2>1 DEF IInv, TypeOK, Owned, RunStages, Answers
  <2>2. CASE answer' = [answer EXCEPT ![e] = "nothing"] /\ UNCHANGED runs
    BY <2>2 DEF IInv, TypeOK, Owned, Answers
  <2> QED
    BY <2>1, <2>2 DEF RunNowLocal
<1>3. TypeOK'
  BY <1>1, <1>2 DEF IInv, TypeOK, Stages, Ops
<1>4. /\ EditsName' /\ OneEdit'
      /\ \A i \in Jobs : Deleted(i)' <=> Deleted(i)
  <2>1. op'[e] = "runNow"
    BY <1>1 DEF IInv, TypeOK
  <2> QED
    BY <1>1, <2>1, EditAtOnce DEF IInv, TypeOK
<1>5. LocalIsLocal' /\ OneScheduler' /\ DeletedIsGone'
  BY <1>1, <1>4, SameJobs, StillGone
<1>6. Owned'
  <2>1. \A c \in Calls : /\ stage[c] # "new" => stage'[c] # "new"
                         /\ stage'[c] # "new" => owner'[c] \in built
    BY <1>1 DEF IInv, TypeOK, Owned
  <2>2. \A i \in Jobs : stage[i[1]] # "new" => stage'[i[1]] # "new"
    BY <2>1, CallForm, JobForm
  <2> QED
    BY <1>1, <1>2, <2>1, <2>2 DEF IInv, Owned
<1> QED
  BY <1>3, <1>4, <1>5, <1>6 DEF IInv

LEMMA ListInv ==
  ASSUME IInv, NEW e \in Edits, NEW m \in Managers, List(e, m)
  PROVE  IInv'
<1>1. /\ e \in Calls /\ stage[e] = "new" /\ m \in built /\ reply' = reply
      /\ stage' = [stage EXCEPT ![e] = "asked"] /\ owner' = [owner EXCEPT ![e] = m]
      /\ op' = [op EXCEPT ![e] = "list"] /\ target' = [target EXCEPT ![e] = NoOne]
      /\ UNCHANGED <<orderly, manager, built, mirror, hosted, change, answer, listing, known,
                     runs>>
  BY CallForm DEF List, Ask, Name, Move
<1>2. TypeOK'
  BY <1>1 DEF IInv, TypeOK, Stages, Ops
<1>3. \A d \in Edits \ {e} : /\ stage'[d] = stage[d] /\ op'[d] = op[d]
                             /\ target'[d] = target[d] /\ reply'[d] = reply[d]
  BY <1>1, CallForm DEF IInv, TypeOK
<1>4. \A i \in Jobs : /\ stage'[i[1]] = stage[i[1]] /\ target'[e] # i
                      /\ Deleted(i)' <=> Deleted(i)
  BY <1>1, <1>3, CallForm, JobForm, CallsAssumption DEF Deleted, IInv, TypeOK
<1>5. EditsName' /\ OneEdit'
  <2>1. op'[e] = "list"
    BY <1>1 DEF IInv, TypeOK
  <2>2. EditsName'
    BY <1>3, <2>1 DEF IInv, EditsName, IsBusy
  <2>3. OneEdit'
    BY <1>1, <1>3, <1>4 DEF IInv, OneEdit, IsBusy
  <2> QED
    BY <2>2, <2>3
<1>6. LocalIsLocal' /\ OneScheduler' /\ DeletedIsGone'
  BY <1>1, <1>4, SameJobs, StillGone
<1>7. Owned'
  BY <1>1, CallOwned, StillOwned DEF IInv, TypeOK
<1> QED
  BY <1>2, <1>5, <1>6, <1>7 DEF IInv

LEMMA ListReturnsInv ==
  ASSUME IInv, NEW e \in Edits, ListReturns(e)
  PROVE  IInv'
<1>1. /\ e \in Calls /\ stage[e] = "answered" /\ op[e] = "list"
      /\ stage' = [stage EXCEPT ![e] = "done"]
      /\ UNCHANGED <<owner, reply, op, target, change, listing>>
      /\ UNCHANGED <<orderly, manager, built, record, enabled, handler, trigger, hosted, runs>>
  BY CallForm DEF ListReturns, Back, Move
<1>2. Owned' /\ owner' \in [Calls -> Managers \cup {NoOne}]
  BY <1>1, ReturnOwned
<1>3. TypeOK'
  <2>1. /\ answer' \in [Edits -> Answers] /\ known' \subseteq Jobs /\ forwarded' \subseteq Jobs
    BY DEF ListReturns, IInv, TypeOK, Answers
  <2> QED
    BY <1>1, <2>1 DEF IInv, TypeOK, Stages
<1>4. /\ EditsName' /\ OneEdit'
      /\ \A i \in Jobs : Deleted(i)' <=> Deleted(i)
  BY <1>1, EditReturns DEF IInv, TypeOK
<1>5. LocalIsLocal' /\ OneScheduler' /\ DeletedIsGone'
  BY <1>1, <1>4, SameJobs, StillGone
<1> QED
  BY <1>2, <1>3, <1>4, <1>5 DEF IInv

LEMMA ListLocalInv ==
  ASSUME IInv, NEW e \in Edits, NEW m \in Managers, ListLocal(e, m)
  PROVE  IInv'
<1>1. /\ e \in Calls /\ stage[e] = "new" /\ NoBridge(e, m) /\ reply' = reply
      /\ stage' = [stage EXCEPT ![e] = "done"]
      /\ op' = [op EXCEPT ![e] = "list"] /\ target' = [target EXCEPT ![e] = NoOne]
      /\ UNCHANGED <<orderly, manager, built, mirror, hosted, change, listing, runs>>
  BY CallForm DEF ListLocal, NoBridge, Name, Move
<1>2. Owned' /\ owner' \in [Calls -> Managers \cup {NoOne}]
  BY <1>1, ReturnOwned DEF IInv, TypeOK
<1>3. TypeOK'
  <2>1. answer' \in [Edits -> Answers] /\ known' \subseteq Jobs
    BY DEF ListLocal, IInv, TypeOK, Answers
  <2> QED
    BY <1>1, <1>2, <2>1 DEF IInv, TypeOK, Stages, Ops
<1>4. \A d \in Edits \ {e} : /\ stage'[d] = stage[d] /\ op'[d] = op[d]
                             /\ target'[d] = target[d] /\ reply'[d] = reply[d]
  BY <1>1, CallForm DEF IInv, TypeOK
<1>5. op'[e] = "list" /\ stage'[e] = "done" /\ target'[e] = NoOne
  BY <1>1 DEF IInv, TypeOK
<1>6. \A i \in Jobs : stage'[i[1]] = stage[i[1]]
  BY <1>1, CallForm, JobForm DEF IInv, TypeOK
<1>7. \A i \in Jobs : target'[e] # i
  BY <1>5, CallsAssumption
<1>8. \A i \in Jobs : Deleted(i)' <=> Deleted(i)
  BY <1>1, <1>4, <1>5 DEF Deleted
<1>9. EditsName' /\ OneEdit'
  <2>1. EditsName'
    BY <1>4, <1>5 DEF IInv, EditsName, IsBusy
  <2>2. OneEdit'
    BY <1>1, <1>4, <1>5, <1>6, <1>7, <1>8 DEF IInv, OneEdit, IsBusy
  <2> QED
    BY <2>1, <2>2
<1>10. LocalIsLocal' /\ OneScheduler' /\ DeletedIsGone'
  BY <1>1, <1>8, SameJobs, StillGone
<1> QED
  BY <1>2, <1>3, <1>9, <1>10 DEF IInv

(***************************************************************************)
(* Triggers                                                                *)
(***************************************************************************)
\* What leaves the calls and the jobs alone keeps to the invariant if the runs are of jobs,
\* and fed with jobs that were added.
LEMMA RunMoves ==
  ASSUME IInv, UNCHANGED <<orderly, manager, built, record, enabled, handler, trigger, hosted>>,
         UNCHANGED <<stage, owner, reply, op, target, change, answer, listing, known>>,
         forwarded' \subseteq Jobs,
         run' \in [Runs -> RunStages], of' \in [Runs -> Jobs \cup {NoOne}],
         using' \in [Runs -> Handlers \cup {NoOne}],
         \A r \in Runs : /\ run'[r] # "idle" => of'[r] \in Jobs
                         /\ run'[r] = "fed" => stage[of'[r][1]] # "new"
  PROVE  IInv'
<1>1. TypeOK'
  BY DEF IInv, TypeOK
<1>2. EditsName' /\ OneEdit' /\ \A j \in Jobs : Deleted(j)' <=> Deleted(j)
  BY SameCalls
<1>3. LocalIsLocal' /\ OneScheduler' /\ DeletedIsGone'
  BY <1>2, SameJobs, StillGone
<1>4. Owned'
  BY DEF IInv, Owned
<1> QED
  BY <1>1, <1>2, <1>3, <1>4 DEF IInv

LEMMA RunNextInv ==
  ASSUME IInv, NEW r \in Runs, RunNext(r)
  PROVE  IInv'
<1>1. ASSUME NEW j \in Jobs, HostFires(r, j)
      PROVE  IInv'
  BY <1>1, RunMoves DEF HostFires, IInv, TypeOK, Owned, RunStages
<1>2. ASSUME NEW j \in Jobs, LocalFires(r, j)
      PROVE  IInv'
  BY <1>2, RunMoves DEF LocalFires, IInv, TypeOK, Owned, RunStages
<1>3. CASE Feed(r)
  <2>1. /\ of[r] \in Jobs /\ of' = of /\ using' = using
        /\ UNCHANGED <<orderly, manager, built, record, enabled, handler, trigger, hosted, calls>>
    BY <1>3 DEF Feed, IInv, Owned
  <2>2. forwarded' \subseteq Jobs
    BY <1>3, <2>1 DEF Feed, IInv, TypeOK
  <2>3. PICK s \in {"refused", "accepted", "threaded"} : run' = [run EXCEPT ![r] = s]
    BY <1>3 DEF Feed
  <2>4. run' \in [Runs -> RunStages]
    BY <2>3 DEF IInv, TypeOK, RunStages
  <2>5. \A q \in Runs : (run'[q] # "idle" => run[q] # "idle") /\ (run'[q] = "fed" => run[q] = "fed")
    BY <1>3, <2>3 DEF Feed, IInv, TypeOK
  <2> QED
    BY <2>1, <2>2, <2>4, <2>5, RunMoves DEF IInv, TypeOK, Owned
<1>4. ASSUME NEW from \in RunStages, NEW to \in {"running", "looked"}, from # "idle",
             LookUp(r, from, to)
      PROVE  IInv'
  <2>1. /\ of[r] \in Jobs /\ of' = of /\ run[r] = from
        /\ using' = [using EXCEPT ![r] = handler[of[r]]]
        /\ UNCHANGED <<orderly, manager, built, mirror, hosted, calls>>
    BY <1>4 DEF LookUp, IInv, Owned
  <2>2. using' \in [Runs -> Handlers \cup {NoOne}]
    BY <2>1 DEF IInv, TypeOK
  <2>3. PICK s \in {"skipped", "running", "looked"} : run' = [run EXCEPT ![r] = s]
    BY <1>4 DEF LookUp
  <2>4. run' \in [Runs -> RunStages]
    BY <2>3 DEF IInv, TypeOK, RunStages
  <2>5. \A q \in Runs : (run'[q] # "idle" => run[q] # "idle") /\ (run'[q] = "fed" => run[q] = "fed")
    BY <1>4, <2>1, <2>3 DEF IInv, TypeOK
  <2> QED
    BY <2>1, <2>2, <2>4, <2>5, RunMoves DEF IInv, TypeOK, Owned
<1>5. CASE StartInThread(r)
  BY <1>5, RunMoves DEF StartInThread, IInv, TypeOK, Owned, RunStages
<1>6. CASE Finish(r)
  BY <1>6, RunMoves DEF Finish, IInv, TypeOK, Owned, RunStages
<1>7. StartOnLoop(r) => IInv'
  BY <1>4 DEF StartOnLoop, RunStages
<1>8. LookUpInThread(r) => IInv'
  BY <1>4 DEF LookUpInThread, RunStages
<1> QED
  BY <1>1, <1>2, <1>3, <1>5, <1>6, <1>7, <1>8 DEF RunNext

(***************************************************************************)
(* The specification                                                       *)
(***************************************************************************)
LEMMA BuildInv ==
  ASSUME IInv, NEW m \in Managers, Build(m)
  PROVE  IInv'
<1>1. /\ built' = built \cup {m} /\ manager' = m
      /\ UNCHANGED <<orderly, mirror, hosted, calls, runs>>
  BY DEF Build
<1>2. TypeOK'
  BY <1>1 DEF IInv, TypeOK
<1>3. EditsName' /\ OneEdit' /\ \A j \in Jobs : Deleted(j)' <=> Deleted(j)
  BY <1>1, SameCalls
<1>4. LocalIsLocal' /\ OneScheduler' /\ DeletedIsGone'
  BY <1>1, <1>3, SameJobs, StillGone
<1>5. Owned'
  BY <1>1 DEF IInv, Owned
<1> QED
  BY <1>2, <1>3, <1>4, <1>5 DEF IInv

LEMMA InitInv == Init => IInv
<1> SUFFICES ASSUME Init PROVE IInv
  OBVIOUS
<1>1. NoChange \in Changes
  BY DEF NoChange, Changes, Flags
<1>2. TypeOK
  BY <1>1 DEF Init, TypeOK, Types, Stages, Replies, Ops, Answers, RunStages
<1>3. \A c \in Calls : stage[c] = "new"
  BY DEF Init
<1>4. \A e \in Edits : ~IsBusy(e) /\ stage[e] = "new" /\ target[e] = NoOne
  BY <1>3, CallForm DEF Init, IsBusy
<1>5. EditsName /\ OneEdit /\ \A j \in Jobs : ~Deleted(j)
  BY <1>4, CallsAssumption DEF EditsName, OneEdit, Deleted
<1>6. LocalIsLocal /\ OneScheduler /\ DeletedIsGone
  BY <1>5 DEF Init, LocalIsLocal, OneScheduler, DeletedIsGone
<1>7. Owned
  BY <1>3 DEF Init, Owned
<1> QED
  BY <1>2, <1>5, <1>6, <1>7 DEF IInv

LEMMA NextInv == IInv /\ [Next]_vars => IInv'
<1> SUFFICES ASSUME IInv, [Next]_vars PROVE IInv'
  OBVIOUS
<1>1. ASSUME NEW m \in Managers, Build(m) PROVE IInv'
  BY <1>1, BuildInv
<1>2. ASSUME NEW a \in Adds, AddNext(a) PROVE IInv'
  BY <1>2, CallForm, AddInv, AddLocalInv, HostCreatesInv, RpcFailsInv, AddForwardedInv
     DEF AddNext
<1>3. ASSUME NEW e \in Edits, EditNext(e) PROVE IInv'
  <2>1. ASSUME NEW j \in Jobs, Delete(e, j) \/ DeleteLocal(e, j) \/ RunNow(e, j) PROVE IInv'
    BY <2>1, ForwardedInv, DeleteLocalInv
  <2>2. ASSUME NEW j \in Jobs, NEW ch \in Changes, Update(e, j, ch) \/ UpdateLocal(e, j, ch)
        PROVE  IInv'
    BY <2>2, ForwardedInv, UpdateLocalInv
  <2>3. ASSUME NEW j \in Jobs, NEW r \in Runs, RunNowLocal(e, j, r) PROVE IInv'
    BY <2>3, RunNowLocalInv
  <2>4. ASSUME NEW m \in Managers, List(e, m) \/ ListLocal(e, m) PROVE IInv'
    BY <2>4, ListInv, ListLocalInv
  <2>5. CASE RpcFails(e) \/ HostUpdates(e) \/ HostDeletes(e) \/ HostLists(e)
    BY <2>5, CallForm, RpcFailsInv, HostUpdatesInv, HostDeletesInv, HostListsInv
  <2>6. ASSUME NEW r \in Runs, HostRuns(e, r) PROVE IInv'
    BY <2>6, HostRunsInv
  <2>7. CASE \/ UpdateForwarded(e) \/ UpdateFallsBack(e) \/ DeleteReturns(e)
             \/ RunNowReturns(e) \/ ListReturns(e)
    BY <2>7, UpdateForwardedInv, UpdateFallsBackInv, DeleteReturnsInv, RunNowReturnsInv,
       ListReturnsInv
  <2> QED
    BY <1>3, <2>1, <2>2, <2>3, <2>4, <2>5, <2>6, <2>7 DEF EditNext
<1>4. ASSUME NEW r \in Runs, RunNext(r) PROVE IInv'
  BY <1>4, RunNextInv
<1>5. CASE UNCHANGED vars
  <2>1. TypeOK'
    BY <1>5 DEF vars, IInv, TypeOK
  <2>2. EditsName' /\ OneEdit' /\ \A j \in Jobs : Deleted(j)' <=> Deleted(j)
    BY <1>5, SameCalls DEF vars
  <2>3. LocalIsLocal' /\ OneScheduler' /\ DeletedIsGone'
    BY <1>5, <2>2, SameJobs, StillGone DEF vars
  <2>4. Owned'
    BY <1>5 DEF vars, IInv, Owned
  <2> QED
    BY <2>1, <2>2, <2>3, <2>4 DEF IInv
<1> QED
  BY <1>1, <1>2, <1>3, <1>4, <1>5 DEF Next

LEMMA SpecInv == Spec => []IInv
  BY InitInv, NextInv, PTL DEF Spec

\* Of every job of every number of managers: what the local scheduler would call a handler
\* for is not the host's, and of what was deleted nothing is left.
THEOREM JobsSafe == Spec => []JobsAreRight
<1>1. IInv => JobsAreRight
  BY DEF IInv, JobsAreRight
<1> QED
  BY <1>1, SpecInv, PTL

(***************************************************************************)
(* What a step may not do                                                  *)
(***************************************************************************)
\* A run that was fed or accepted goes on by a step of its own.
LEMMA RunGoesOn ==
  ASSUME IInv, [Next]_vars, NEW r \in Runs, run[r] \in {"fed", "accepted"}, run'[r] # run[r]
  PROVE  Feed(r) \/ StartOnLoop(r)
<1>1. ASSUME NEW e \in Edits, NEW j \in Jobs, NEW q \in Runs, RunNowLocal(e, j, q)
      PROVE  FALSE
  BY <1>1 DEF RunNowLocal, IInv, TypeOK
<1>2. ASSUME NEW e \in Edits, NEW q \in Runs, HostRuns(e, q)
      PROVE  FALSE
  BY <1>2 DEF HostRuns, IInv, TypeOK
<1>3. ASSUME NEW q \in Runs, NEW j \in Jobs, HostFires(q, j) \/ LocalFires(q, j)
      PROVE  FALSE
  BY <1>3 DEF HostFires, LocalFires, IInv, TypeOK
<1>4. ASSUME NEW q \in Runs, LookUpInThread(q) \/ StartInThread(q) \/ Finish(q)
      PROVE  FALSE
  BY <1>4 DEF LookUpInThread, LookUp, StartInThread, Finish, IInv, TypeOK
<1>5. ASSUME NEW q \in Runs, Feed(q) \/ StartOnLoop(q)
      PROVE  q = r
  BY <1>5 DEF Feed, StartOnLoop, LookUp, IInv, TypeOK
<1>6. ASSUME NEW a \in Adds, AddNext(a)
      PROVE  FALSE
  BY <1>6 DEF AddNext, Add, AddLocal, HostCreates, RpcFails, AddForwarded
<1>7. ASSUME NEW e \in Edits, NEW j \in Jobs,
             \/ Delete(e, j) \/ DeleteLocal(e, j) \/ RunNow(e, j)
             \/ \E ch \in Changes : Update(e, j, ch) \/ UpdateLocal(e, j, ch)
      PROVE  FALSE
  BY <1>7 DEF Delete, DeleteLocal, RunNow, Update, UpdateLocal, Edit, Amend
<1>8. ASSUME NEW e \in Edits,
             \/ \E m \in Managers : List(e, m) \/ ListLocal(e, m)
             \/ RpcFails(e) \/ HostUpdates(e) \/ HostDeletes(e) \/ HostLists(e)
      PROVE  FALSE
  BY <1>8 DEF List, ListLocal, RpcFails, HostUpdates, HostDeletes, HostLists
<1>9. ASSUME NEW e \in Edits,
             \/ UpdateForwarded(e) \/ UpdateFallsBack(e) \/ DeleteReturns(e)
             \/ RunNowReturns(e) \/ ListReturns(e)
      PROVE  FALSE
  BY <1>9 DEF UpdateForwarded, UpdateFallsBack, Amend, DeleteReturns, RunNowReturns,
              ListReturns
<1>10. run' # run
  OBVIOUS
<1>11. \A m \in Managers : Build(m) => run' = run
  BY DEF Build
<1>12. \A e \in Edits : EditNext(e) => FALSE
  BY <1>1, <1>2, <1>7, <1>8, <1>9 DEF EditNext
<1>13. \A q \in Runs : RunNext(q) => Feed(r) \/ StartOnLoop(r)
  BY <1>3, <1>4, <1>5 DEF RunNext
<1> QED
  BY <1>6, <1>10, <1>11, <1>12, <1>13 DEF Next, vars

\* A run gets its handler from the table, and a deleted job has none there.
LEMMA NoStartStep == IInv /\ [Next]_vars => [orderly => \A r \in Runs :
                       run[r] = "accepted" /\ run'[r] = "running" => ~Deleted(of[r])]_vars
<1> SUFFICES ASSUME IInv, [Next]_vars, orderly, NEW r \in Runs,
                    run[r] = "accepted", run'[r] = "running"
             PROVE  ~Deleted(of[r])
  OBVIOUS
<1>1. StartOnLoop(r)
  BY RunGoesOn DEF Feed
<1>2. handler[of[r]] # NoOne /\ of[r] \in Jobs
  BY <1>1 DEF StartOnLoop, LookUp, IInv, TypeOK, Owned
<1> QED
  BY <1>2 DEF IInv, DeletedIsGone

\* No run on the loop starts the handler of a job after its deletion has returned.
THEOREM NoLateStart == Spec => NoStartAfterDelete
  BY SpecInv, NoStartStep, PTL DEF Spec, NoStartAfterDelete

\* A job that has a handler is refused only by another manager than its own.
LEMMA RefusedStep == ASSUME \A m, n \in Managers : m = n
                     PROVE  IInv /\ [Next]_vars => [orderly => \A r \in Runs :
                              run[r] = "fed" /\ run'[r] = "refused" => handler[of[r]] = NoOne]_vars
<1> SUFFICES ASSUME IInv, [Next]_vars, NEW r \in Runs, run[r] = "fed", run'[r] = "refused"
             PROVE  handler[of[r]] = NoOne
  OBVIOUS
<1>1. Feed(r)
  BY RunGoesOn DEF StartOnLoop, LookUp
<1>2. of[r] \in Jobs /\ Owner(of[r]) \in built
  <2>1. of[r] \in Jobs /\ stage[of[r][1]] # "new"
    BY DEF IInv, Owned
  <2> QED
    BY <2>1, JobForm, CallForm DEF Owner, IInv, Owned
<1>3. manager = Owner(of[r])
  BY <1>2 DEF IInv, TypeOK, Owned
<1> QED
  BY <1>1, <1>3 DEF Feed, IInv, TypeOK

\* With one Context in the process, whatever it edits and whenever: no run starts the handler
\* of a deleted job, and the host is told that a run was not handled only for a job without
\* a handler.
THEOREM RunsSafe == ASSUME \A m, n \in Managers : m = n
                    PROVE  Spec => RunsAreRight
<1>1. Spec => RefusedOnlyIfUnknown
  BY SpecInv, RefusedStep, PTL DEF Spec, RefusedOnlyIfUnknown
<1> QED
  BY <1>1, NoLateStart DEF RunsAreRight
=============================================================================
