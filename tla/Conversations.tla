--------------------------- MODULE Conversations ----------------------------
(***************************************************************************)
(* ConversationManager (core/conversation_mgr.py): the conversations of a  *)
(* session are the host's, which one is the current one is cached by the   *)
(* plugin.  Every method is a few calls of the bridge, one after another,  *)
(* between which other tasks, other plugins and the WebUI go on.           *)
(*                                                                         *)
(* A bridge method that fails says so by an empty answer, in HostBridge    *)
(* (_bridge/host.py); the host may have done its work all the same.        *)
(***************************************************************************)
EXTENDS Naturals, Sequences, FiniteSets

CONSTANTS
  Tasks,        \* calls of the manager's methods
  Cids,         \* conversation ids
  MaxSwitches   \* bound on what the WebUI and other plugins do

NoCid == "none"

Methods == {"new", "switch", "delete", "delete_all", "curr", "update"}

VARIABLES
  current,      \* the host's current conversation of the session
  exists,       \* the host's conversations of the session
  used,         \* ids given so far
  cached,       \* session_conversations
  task,         \* by task: method, argument, where it is, the id it works on, what it has been answered
  since,        \* by task: what was current at the host since its last call began
  past,         \* what was ever current at the host
  callbacks,    \* tasks whose deletion callbacks have run
  switches

convVars == <<current, exists, used, cached, task, since, past, callbacks, switches>>

ConvInit ==
  /\ exists \in SUBSET Cids /\ Cardinality(exists) <= 2 /\ used = exists
  /\ current \in exists \union {NoCid}
  /\ cached \in {current, NoCid}
  /\ \E m \in [Tasks -> Methods], arg \in [Tasks -> exists \union {NoCid}] :
       /\ \A t \in Tasks : /\ m[t] \in {"new", "delete_all", "curr"} => arg[t] = NoCid
                           /\ m[t] = "switch" => arg[t] # NoCid
       /\ task = [t \in Tasks |-> [method |-> m[t], arg |-> arg[t], at |-> "start",
                                   cid |-> NoCid, reply |-> NoCid, todo |-> {}]]
  /\ since = [t \in Tasks |-> {}] /\ past = {current} /\ callbacks = {} /\ switches = 0

At(t, m, at) == task[t].method = m /\ task[t].at = at
Goto(t, at) == task' = [task EXCEPT ![t].at = at]

\* What the host makes current is noted for the calls under way.
Becomes(c) ==
  /\ current' = c
  /\ since' = [t \in Tasks |-> since[t] \union {c}] /\ past' = past \union {c}

-----------------------------------------------------------------------------
(* The host                                                                 *)

\* The reply, or what the bridge answers in its place.
Answered(t, at, c) == task' = [task EXCEPT ![t].at = at, ![t].reply = c]

HostNew(t) ==
  /\ At(t, "new", "start")
  /\ \/ \E c \in Cids \ used :
          /\ exists' = exists \union {c} /\ used' = used \union {c} /\ Becomes(c)
          /\ \E r \in {c, NoCid} : Answered(t, "made", r)
     \/ Answered(t, "made", NoCid) /\ UNCHANGED <<exists, used, current, since, past>>
  /\ UNCHANGED <<cached, callbacks, switches>>

HostSwitch(t) ==
  /\ At(t, "switch", "start")
  /\ \/ /\ task[t].arg \in exists /\ Becomes(task[t].arg)
        /\ \E r \in {task[t].arg, NoCid} : Answered(t, "made", r)
     \/ Answered(t, "made", NoCid) /\ UNCHANGED <<current, since, past>>
  /\ UNCHANGED <<exists, used, cached, callbacks, switches>>

\* Deleting the current conversation leaves none current.
HostDeletes(c) ==
  /\ exists' = exists \ {c}
  /\ IF current = c THEN Becomes(NoCid) ELSE UNCHANGED <<current, since, past>>

HostDelete(t) ==
  /\ At(t, "delete", "delete")
  /\ \/ HostDeletes(task[t].cid)
     \/ UNCHANGED <<exists, current, since, past>>
  /\ Goto(t, "curr")
  /\ UNCHANGED <<used, cached, callbacks, switches>>

HostList(t) ==
  /\ At(t, "delete_all", "start")
  /\ \E found \in {exists, {}} :
       task' = [task EXCEPT ![t].at = "each", ![t].todo = found]
  /\ UNCHANGED <<current, exists, used, cached, since, past, callbacks, switches>>

HostDeleteEach(t) ==
  /\ At(t, "delete_all", "each")
  /\ \E c \in task[t].todo :
       /\ task' = [task EXCEPT ![t].todo = @ \ {c}]
       /\ \/ HostDeletes(c) \/ UNCHANGED <<exists, current, since, past>>
  /\ UNCHANGED <<used, cached, callbacks, switches>>

\* get_curr_conversation_id begins: from here on an answer of the host is true or none.
AskCurrent(t) ==
  /\ \/ At(t, "delete", "curr") \/ At(t, "curr", "start")
     \/ At(t, "update", "start") /\ task[t].arg = NoCid
  /\ Goto(t, "asked")
  /\ since' = [since EXCEPT ![t] = {current}]
  /\ UNCHANGED <<current, past, exists, used, cached, callbacks, switches>>

HostCurrent(t) ==
  /\ task[t].at = "asked"
  /\ \E r \in {current, NoCid} : Answered(t, "told", r)
  /\ UNCHANGED <<current, exists, used, cached, since, past, callbacks, switches>>

\* There is no bridge, or no thread for its call: the cached id is the answer, and stays.
BridgeRaises(t) ==
  /\ task[t].at = "asked" /\ Answered(t, "fell back", cached)
  /\ UNCHANGED <<current, exists, used, cached, since, past, callbacks, switches>>

\* Another plugin, /reset or the WebUI.
Elsewhere ==
  /\ switches < MaxSwitches /\ switches' = switches + 1
  /\ \/ \E c \in exists : c # current /\ Becomes(c) /\ UNCHANGED exists
     \/ \E c \in exists : HostDeletes(c)
  /\ UNCHANGED <<used, cached, task, callbacks>>

-----------------------------------------------------------------------------
(* The manager                                                              *)

\* new_conversation and switch_conversation: only an answer is cached.
Remember(t) ==
  /\ task[t].method \in {"new", "switch"} /\ task[t].at = "made"
  /\ Goto(t, "done")
  /\ cached' = IF task[t].reply # NoCid THEN task[t].reply ELSE cached
  /\ UNCHANGED <<current, exists, used, since, past, callbacks, switches>>

\* delete_conversation: without an id the cached conversation is meant, if any.
Delete(t) ==
  /\ At(t, "delete", "start")
  /\ LET c == IF task[t].arg # NoCid THEN task[t].arg ELSE cached
     IN  task' = [task EXCEPT ![t].cid = c, ![t].at = IF c = NoCid THEN "done" ELSE "delete"]
  /\ UNCHANGED <<current, exists, used, cached, since, past, callbacks, switches>>

\* mutant: an empty answer is taken for a failure, and the cache for the answer.
ToldFallsBack(t) ==
  /\ task[t].at = "told"
  /\ cached' = IF task[t].reply # NoCid THEN task[t].reply ELSE cached
  /\ task' = [task EXCEPT ![t].at = "got", ![t].reply = IF @ # NoCid THEN @ ELSE cached]
  /\ UNCHANGED <<current, exists, used, since, past, callbacks, switches>>

\* The cache is what the host has said, and nothing if that is nothing.
Told(t) ==
  /\ task[t].at = "told" /\ Goto(t, "got")
  /\ cached' = task[t].reply
  /\ UNCHANGED <<current, exists, used, since, past, callbacks, switches>>

Got(t) ==
  /\ task[t].at \in {"got", "fell back"} /\ Goto(t, IF task[t].method = "update" THEN "title" ELSE "done")
  /\ cached' = IF task[t].method = "delete" /\ task[t].reply = task[t].cid THEN NoCid ELSE cached
  /\ UNCHANGED <<current, exists, used, since, past, callbacks, switches>>

\* update_conversation_title and _persona_id: with an id, or the one got.
Update(t) ==
  /\ \/ At(t, "update", "start") /\ task[t].arg # NoCid
     \/ At(t, "update", "title")
  /\ task' = [task EXCEPT ![t].at = "done", ![t].cid = IF task[t].arg # NoCid THEN task[t].arg ELSE task[t].reply]
  /\ UNCHANGED <<current, exists, used, cached, since, past, callbacks, switches>>

\* delete_conversations_by_user_id: when each was tried the callbacks run.
AllTried(t) ==
  /\ At(t, "delete_all", "each") /\ task[t].todo = {}
  /\ Goto(t, "done")
  /\ cached' = NoCid /\ callbacks' = callbacks \union {t}
  /\ UNCHANGED <<current, exists, used, since, past, switches>>

ConvNext ==
  \/ \E t \in Tasks :
       \/ HostNew(t) \/ HostSwitch(t) \/ HostDelete(t) \/ HostList(t) \/ HostDeleteEach(t)
       \/ AskCurrent(t) \/ HostCurrent(t) \/ BridgeRaises(t) \/ Remember(t) \/ Delete(t) \/ Told(t)
       \/ Got(t) \/ Update(t) \/ AllTried(t)
  \/ Elsewhere

ConvSpec == ConvInit /\ [][ConvNext]_convVars

-----------------------------------------------------------------------------
(* What get_curr_conversation_id answers was the host's current            *)
(* conversation at some moment of the call, or is none.  Only when the     *)
(* bridge raises does the cache speak for the host, and then the answer was *)
(* current there once (conversation_mgr.py:218-225).                       *)
CurrentIsTheHosts ==
  \A t \in Tasks :
    /\ task[t].at = "got" => task[t].reply \in since[t] \union {NoCid}
    /\ task[t].at = "fell back" => task[t].reply \in past \union {NoCid}

-----------------------------------------------------------------------------
(* What the repository says and the code does not do                        *)

(* The docstring, lines 213-214: on a failure the cached id is the answer.  *)
(* A call that fails at the host is none to the facade: the bridge answers  *)
(* "" (_bridge/host.py:476-478), and the cached id is dropped.              *)
FailureFallsBack ==
  [][\A t \in Tasks : task[t].at = "told" /\ task'[t].at = "got" /\ NoCid \notin since[t]
       => task'[t].reply \in since[t] \union {cached}]_convVars

(* The other way round no caller is given an id from which the WebUI has    *)
(* switched before the call: what the cache answers may be long past.       *)
NeverStale ==
  \A t \in Tasks : task[t].at = "fell back" => task[t].reply \in since[t] \union {NoCid}

(* The docstring, line 176: without an id the current conversation is       *)
(* deleted.  It is the cached one, which the WebUI may have switched from.  *)
DeletesTheCurrent ==
  [][\A t \in Tasks : At(t, "delete", "start") /\ task[t].arg = NoCid =>
       task'[t] = task[t] \/ task'[t].cid = current]_convVars

(* delete_conversations_by_user_id tells the callbacks, which clean up what *)
(* belongs to the session, once its conversations are gone.                 *)
CallbacksAfterDeletion == [][callbacks' # callbacks => exists = {}]_convVars
=============================================================================
