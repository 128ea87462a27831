--------------------------- MODULE MessageHistory ---------------------------
(***************************************************************************)
(* PlatformMessageHistoryManager (core/utils/message_history_manager.py):  *)
(* the records of a session, oldest first, in a cache of the manager that  *)
(* is written as a whole to message_history.json after every change.       *)
(*                                                                         *)
(* An operation holds the manager's lock from its first read to its        *)
(* os.replace, and what a crash in between loses is in memory only: it is  *)
(* one action here, and a crash another.                                   *)
(***************************************************************************)
EXTENDS Naturals, Sequences, FiniteSets, SequencesExt

CONSTANTS
  Managers,       \* one of every Context
  Chats,          \* platform_id|user_id
  MaxMessages,    \* max_messages of insert
  MaxInserts      \* bound on the operations

ASSUME HistoryAssumption == MaxMessages \in Nat \ {0}

VARIABLES
  historyFile,    \* message_history.json
  records,        \* _cache of a manager
  isLoaded,       \* _cache is not None
  nextId,         \* _next_id
  born,           \* inserts so far, by which records are dated
  known           \* by chat: the dates of what was inserted, not deleted and not pushed out

historyVars == <<historyFile, records, isLoaded, nextId, born, known>>

NoRecords == [c \in Chats |-> <<>>]

HistoryInit ==
  /\ historyFile = NoRecords
  /\ records = [m \in Managers |-> NoRecords]
  /\ isLoaded = [m \in Managers |-> FALSE]
  /\ nextId = [m \in Managers |-> 1]
  /\ born = 0 /\ known = [c \in Chats |-> {}]

IdsOf(data) == {r.id : r \in UNION {ToSet(data[c]) : c \in Chats}}

\* _load: the cache, or the file with the cursor set behind its greatest id.
Data(m) == IF isLoaded[m] THEN records[m] ELSE historyFile
Cursor(m) ==
  IF isLoaded[m] THEN nextId[m]
  ELSE IF IdsOf(historyFile) = {} THEN 1
  ELSE 1 + CHOOSE i \in IdsOf(historyFile) : \A j \in IdsOf(historyFile) : j <= i

\* The whole cache is written.
SaveRecords(m, data) ==
  /\ records' = [records EXCEPT ![m] = data]
  /\ historyFile' = data

LoadDone(m) == isLoaded' = [isLoaded EXCEPT ![m] = TRUE]

\* mutant: the newest are dropped.
KeepsOldest(rs) == IF Len(rs) > MaxMessages THEN SubSeq(rs, 1, MaxMessages) ELSE rs

Trimmed(rs) ==
  IF Len(rs) > MaxMessages THEN SubSeq(rs, Len(rs) - MaxMessages + 1, Len(rs)) ELSE rs

\* What of these dates a chat has room for.
Newest(dates) == {b \in dates : Cardinality({d \in dates : d > b}) < MaxMessages}

\* The record gets its id before the file is loaded, the cursor its step after.
Insert(m, c) ==
  LET r == [id |-> nextId[m], born |-> born]
      data == [Data(m) EXCEPT ![c] = Trimmed(Append(@, r))]
  IN  /\ born < MaxInserts /\ born' = born + 1
      /\ LoadDone(m) /\ nextId' = [nextId EXCEPT ![m] = Cursor(m) + 1]
      /\ SaveRecords(m, data)
      /\ known' = [known EXCEPT ![c] = Newest(@ \union {born})]

\* get, when it is the first use: the file is loaded.
GetRecords(m) ==
  /\ ~isLoaded[m] /\ LoadDone(m)
  /\ records' = [records EXCEPT ![m] = Data(m)]
  /\ nextId' = [nextId EXCEPT ![m] = Cursor(m)]
  /\ UNCHANGED <<historyFile, born, known>>

\* The records at these places, in the order they were in.
Rank(places, i) == Cardinality({j \in places : j <= i})
Those(rs, places) ==
  [n \in 1..Cardinality(places) |-> rs[CHOOSE i \in places : Rank(places, i) = n]]

\* A change that changes nothing is not written.
Change(m, data) ==
  /\ LoadDone(m) /\ nextId' = [nextId EXCEPT ![m] = Cursor(m)]
  /\ IF data = Data(m)
     THEN records' = [records EXCEPT ![m] = data] /\ UNCHANGED historyFile
     ELSE SaveRecords(m, data)
  /\ known' = [c \in Chats |->
       {b \in known[c] : \A i \in DOMAIN Data(m)[c] :
          Data(m)[c][i].born = b => Data(m)[c][i] \in ToSet(data[c])}]
  /\ UNCHANGED born

\* delete: what is older than a moment.
DeleteOld(m, c, cutoff) ==
  Change(m, [d \in Chats |->
    Those(Data(m)[d], {i \in DOMAIN Data(m)[d] : d = c => Data(m)[d][i].born >= cutoff})])

DeleteById(m, id) ==
  Change(m, [d \in Chats |-> Those(Data(m)[d], {i \in DOMAIN Data(m)[d] : Data(m)[d][i].id # id})])

\* update writes other contents only: the first record of that id is found.
Clear(m) ==
  /\ LoadDone(m) /\ nextId' = [nextId EXCEPT ![m] = 1]
  /\ SaveRecords(m, NoRecords)
  /\ known' = [c \in Chats |-> {}]
  /\ UNCHANGED born

RestartManager(m) ==
  /\ isLoaded[m]
  /\ isLoaded' = [isLoaded EXCEPT ![m] = FALSE]
  /\ records' = [records EXCEPT ![m] = NoRecords]
  /\ nextId' = [nextId EXCEPT ![m] = 1]
  /\ UNCHANGED <<historyFile, born, known>>

HistoryNext ==
  \E m \in Managers :
    \/ \E c \in Chats : \/ Insert(m, c)
                        \/ \E cutoff \in 0..born : DeleteOld(m, c, cutoff)
    \/ \E id \in 1..MaxInserts : DeleteById(m, id)
    \/ GetRecords(m) \/ Clear(m) \/ RestartManager(m)

HistorySpec == HistoryInit /\ [][HistoryNext]_historyVars

-----------------------------------------------------------------------------
(* The file has the newest records of a chat that were not deleted, as many *)
(* as fit, in the order they came in, after any restart.                    *)
NewestAreKept ==
  \A c \in Chats :
    LET rs == historyFile[c]
    IN  /\ \A i, j \in DOMAIN rs : i < j => rs[i].born < rs[j].born
        /\ {rs[i].born : i \in DOMAIN rs} = known[c]

(* The comment on line 233: two records never get the same id.  They do:    *)
(* the first insert of a manager takes 1 before the file is read.           *)
IdsAreUnique ==
  \A c, d \in Chats : \A i \in DOMAIN historyFile[c], j \in DOMAIN historyFile[d] :
    historyFile[c][i].id = historyFile[d][j].id => c = d /\ i = j
=============================================================================
