---------------------------- MODULE Preferences -----------------------------
(***************************************************************************)
(* SharedPreferences (core/utils/shared_preferences.py): preferences by    *)
(* scope, scope id and key, kept in a cache of the process and written as  *)
(* a whole to shared_preferences.json after every change.                  *)
(*                                                                         *)
(* The operations of a process exclude one another by the module's RLock,  *)
(* which no other process sees; a process may die at any step.             *)
(* The second part of the module is the other store of a plugin, its       *)
(* key-value file.                                                         *)
(***************************************************************************)
EXTENDS Naturals, Functions

CONSTANTS
  Processes,    \* plugin processes with the same ASTRBOT_DATA_PATH
  Scopes, ScopeIds, PrefKeys,
  PrefValues,   \* what json can write
  MaxPuts       \* bound on the operations, all together

Unwritable == "unwritable"      \* a value json.dump raises on
Absent     == "absent"          \* no such entry
Items      == Scopes \X ScopeIds \X PrefKeys

VARIABLES
  file,        \* shared_preferences.json, which without entries is like none
  torn,        \* the file is half of one
  prefCache,   \* _cache of a process
  loaded,      \* _cache_initialized
  op,          \* the operation that has the lock: what it does and how far it is
  prefAcked,   \* by item: what the last operation that returned has left
  tried,       \* by item: what was asked for since, without success so far
  puts

prefVars == <<file, torn, prefCache, loaded, op, prefAcked, tried, puts>>

NoPrefs == [i \in Items |-> Absent]
Idle  == [at |-> "idle", on |-> {}, val |-> Absent]

PrefInit ==
  /\ file = NoPrefs /\ torn = FALSE
  /\ prefCache = [p \in Processes |-> NoPrefs] /\ loaded = [p \in Processes |-> FALSE]
  /\ op = [p \in Processes |-> Idle]
  /\ prefAcked = NoPrefs /\ tried = [i \in Items |-> {}]
  /\ puts = 0

\* What _load makes of the file: half a file is no file.
PrefLoad == IF torn THEN NoPrefs ELSE file

\* The loop unpacks every key of the file, a string, into three names: with an
\* entry in the file it raises, and the cache stays uninitialised.
CanLoad(p) == loaded[p] \/ PrefLoad = NoPrefs

\* An operation that gets the lock and finds its cache, or raises here.
PrefBegin(p) ==
  /\ op[p] = Idle /\ puts < MaxPuts /\ puts' = puts + 1
  /\ CanLoad(p)
  /\ loaded' = [loaded EXCEPT ![p] = TRUE]

LoadRaises(p) ==
  /\ op[p] = Idle /\ puts < MaxPuts /\ puts' = puts + 1
  /\ ~CanLoad(p)
  /\ UNCHANGED <<file, torn, prefCache, loaded, op, prefAcked, tried>>

\* The cache is changed first; the entries and the value wait for the file.
PrefChange(p, items, v, c) ==
  /\ prefCache' = [prefCache EXCEPT ![p] = c]
  /\ op' = [op EXCEPT ![p] = [at |-> "persist", on |-> items, val |-> v]]
  /\ tried' = [i \in Items |-> IF i \in items THEN tried[i] \union {v} ELSE tried[i]]
  /\ UNCHANGED <<file, torn, prefAcked>>

PutSync(p, i, v) == PrefBegin(p) /\ PrefChange(p, {i}, v, [prefCache[p] EXCEPT ![i] = v])

RemoveSync(p, i) ==
  PrefBegin(p) /\ PrefChange(p, {i}, Absent, [prefCache[p] EXCEPT ![i] = Absent])

ClearSync(p, scope, id) ==
  LET gone == {i \in Items : i[1] = scope /\ i[2] = id /\ prefCache[p][i] # Absent}
  IN  PrefBegin(p) /\ PrefChange(p, gone, Absent, [i \in Items |-> IF i \in gone THEN Absent ELSE prefCache[p][i]])

\* A read, of an entry or of a range, loads the file if it is the first use.
GetSync(p) ==
  /\ ~loaded[p] /\ PrefBegin(p)
  /\ UNCHANGED <<file, torn, prefCache, op, prefAcked, tried>>

-----------------------------------------------------------------------------
PrefGoto(p, to) == op' = [op EXCEPT ![p].at = to]

Unlock(p) ==
  /\ op' = [op EXCEPT ![p] = Idle]
  /\ UNCHANGED <<prefCache, loaded, puts>>

\* mutant: the preferences are written in place.
SaveInPlace(p) ==
  /\ op[p].at = "persist"
  /\ \A i \in Items : prefCache[p][i] # Unwritable
  /\ torn' = TRUE /\ PrefGoto(p, "temp")
  /\ UNCHANGED <<file, prefCache, loaded, prefAcked, tried, puts>>

\* json.dump into a new temporary file.
PrefSave(p) ==
  /\ op[p].at = "persist"
  /\ \A i \in Items : prefCache[p][i] # Unwritable
  /\ PrefGoto(p, "temp")
  /\ UNCHANGED <<file, torn, prefCache, loaded, prefAcked, tried, puts>>

\* The cache keeps what the file did not get, and the caller gets the exception.
SaveRaises(p) ==
  /\ op[p].at = "persist"
  /\ \E i \in Items : prefCache[p][i] = Unwritable
  /\ Unlock(p) /\ UNCHANGED <<file, torn, prefAcked, tried>>

\* os.replace, and the operation returns.
PrefReplace(p) ==
  /\ op[p].at = "temp"
  /\ file' = prefCache[p] /\ torn' = FALSE
  /\ prefAcked' = [i \in Items |-> IF i \in op[p].on THEN op[p].val ELSE prefAcked[i]]
  /\ tried' = [i \in Items |-> IF i \in op[p].on THEN {} ELSE tried[i]]
  /\ Unlock(p)

\* The process dies; what takes its place starts without a cache.
Crash(p) ==
  /\ loaded[p]
  /\ op' = [op EXCEPT ![p] = Idle]
  /\ prefCache' = [prefCache EXCEPT ![p] = NoPrefs] /\ loaded' = [loaded EXCEPT ![p] = FALSE]
  /\ UNCHANGED <<file, torn, prefAcked, tried, puts>>

PrefNext ==
  \E p \in Processes :
    \/ \E i \in Items : \/ RemoveSync(p, i)
                        \/ \E v \in PrefValues \union {Unwritable} : PutSync(p, i, v)
    \/ \E s \in Scopes, d \in ScopeIds : ClearSync(p, s, d)
    \/ GetSync(p) \/ LoadRaises(p)
    \/ PrefSave(p) \/ SaveRaises(p) \/ PrefReplace(p) \/ Crash(p)

PrefSpec == PrefInit /\ [][PrefNext]_prefVars

-----------------------------------------------------------------------------
(* A crash at any step leaves a whole file, and in it every entry is what   *)
(* the last operation on it that returned has left, or what one that has    *)
(* not returned, or failed, has asked for since.  The lock is a process's   *)
(* own: two processes write over each other's entries.                      *)
OneProcess == \A p, q \in Processes : p = q

PreferencesSurvive ==
  ~torn /\ (OneProcess => \A i \in Items : file[i] \in {prefAcked[i]} \union tried[i])

(* What a process answers for an entry, if it does not raise, is no older   *)
(* than what the last operation on it that returned has left.               *)
ReadsAreFresh ==
  OneProcess => \A p \in Processes : loaded[p] =>
    \A i \in Items : prefCache[p][i] \in {prefAcked[i]} \union tried[i]

(* The docstring, line 5: preferences are kept in a file of the host's data *)
(* directory.  What was stored can be read after a restart.  It cannot.     *)
PersistedComesBack == \A p \in Processes : CanLoad(p)

-----------------------------------------------------------------------------
(* PluginKVStoreMixin (core/utils/plugin_kv_store.py): the key-value store *)
(* of a plugin, a JSON file that every change reads, changes and replaces  *)
(* under a lock of the process.  Calls run in worker threads, at any       *)
(* point of which the host may kill the process.                           *)

CONSTANTS
  KvCalls,     \* calls of put_kv_data, delete_kv_data and get_kv_data
  KvKeys,
  KvValues

NoValue == "none"
Bytes   == "bytes"         \* allowed by SUPPORTED_VALUE_TYPES, refused by json

ASSUME KvAssumption == "free" \notin KvCalls

VARIABLES
  kvFile,      \* kv_store.json
  kvLock,      \* _KV_LOCK: the call that holds it, or "free"
  kvCall,      \* by call: where it is, its key, what it puts and what it has read
  kvAcked      \* by key: what the last change that returned has left

kvVars == <<kvFile, kvLock, kvCall, kvAcked>>

NoData == [k \in KvKeys |-> NoValue]

KvInit ==
  /\ kvFile = NoData /\ kvLock = "free" /\ kvAcked = NoData
  /\ \E kind \in [KvCalls -> {"put", "get"}], key \in [KvCalls -> KvKeys],
        val \in [KvCalls -> KvValues \union {NoValue, Bytes}] :
       kvCall = [c \in KvCalls |->
                   [at |-> "start", kind |-> kind[c], key |-> key[c], val |-> val[c],
                    data |-> NoData]]

KvGoto(c, to) == kvCall' = [kvCall EXCEPT ![c].at = to]

\* _mutate_sync: the lock, the file, the change.  Deleting puts NoValue.
KvLoad(c) ==
  /\ kvCall[c].at = "start" /\ kvCall[c].kind = "put"
  /\ kvLock = "free" /\ kvLock' = c
  /\ kvCall' = [kvCall EXCEPT ![c].at = "loaded",
                              ![c].data = [kvFile EXCEPT ![kvCall[c].key] = kvCall[c].val]]
  /\ UNCHANGED <<kvFile, kvAcked>>

\* A reader takes no lock.
KvGet(c) ==
  /\ kvCall[c].at = "start" /\ kvCall[c].kind = "get"
  /\ kvCall' = [kvCall EXCEPT ![c].at = "done", ![c].data = kvFile]
  /\ UNCHANGED <<kvFile, kvLock, kvAcked>>

KvSaveRaises(c) ==
  /\ kvCall[c].at = "loaded" /\ \E k \in KvKeys : kvCall[c].data[k] = Bytes
  /\ KvGoto(c, "failed") /\ kvLock' = "free"
  /\ UNCHANGED <<kvFile, kvAcked>>

\* os.replace, then the lock is free and the caller is told.
KvSave(c) ==
  /\ kvCall[c].at = "loaded" /\ \A k \in KvKeys : kvCall[c].data[k] # Bytes
  /\ kvFile' = kvCall[c].data
  /\ KvGoto(c, "saved")
  /\ UNCHANGED <<kvLock, kvAcked>>

KvReturn(c) ==
  /\ kvCall[c].at = "saved"
  /\ kvLock' = "free" /\ KvGoto(c, "done")
  /\ kvAcked' = [kvAcked EXCEPT ![kvCall[c].key] = kvCall[c].val]
  /\ UNCHANGED kvFile

\* The host stops the plugin: every call that has not returned is lost.
KvKill ==
  /\ kvLock' = "free"
  /\ kvCall' = [c \in KvCalls |-> IF kvCall[c].at \in {"loaded", "saved"}
                                  THEN [kvCall[c] EXCEPT !.at = "killed"] ELSE kvCall[c]]
  /\ UNCHANGED <<kvFile, kvAcked>>

KvNext ==
  \/ \E c \in KvCalls : KvLoad(c) \/ KvGet(c) \/ KvSaveRaises(c) \/ KvSave(c) \/ KvReturn(c)
  \/ KvKill

KvSpec == KvInit /\ [][KvNext]_kvVars

-----------------------------------------------------------------------------
(* No change of one key undoes the change of another: an entry is what the  *)
(* last change of its key that returned has left, or what one that is under *)
(* way, or was killed on its way, has put.                                  *)
KvSurvives ==
  \A k \in KvKeys :
    \/ kvFile[k] = kvAcked[k]
    \/ \E c \in KvCalls : /\ kvCall[c].at \in {"saved", "killed"} /\ kvCall[c].kind = "put"
                          /\ kvCall[c].key = k /\ kvCall[c].val = kvFile[k]

(* A reader sees the file of one moment, never the work of a change that    *)
(* failed.                                                                  *)
KvReadsCommitted ==
  \A c \in KvCalls : kvCall[c].at = "done" /\ kvCall[c].kind = "get" =>
    \A k \in KvKeys : kvCall[c].data[k] # Bytes
=============================================================================
