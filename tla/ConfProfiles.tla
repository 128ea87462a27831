---------------------------- MODULE ConfProfiles ----------------------------
(***************************************************************************)
(* AstrBotConfigManager (core/astrbot_config_mgr.py): configuration        *)
(* profiles, each a file, an object in memory and an entry of a mapping,   *)
(* which SharedPreferences keeps if the manager was given them.            *)
(* An asyncio.Lock serialises the changes; the process may die between     *)
(* any two of their steps, and a caller be cancelled where it awaits the   *)
(* preferences.                                                            *)
(***************************************************************************)
EXTENDS Naturals, FiniteSets

CONSTANTS
  Ids,          \* profile ids that create_conf draws
  Restarts,     \* bound on the process's deaths
  MaxCancels    \* bound on the callers that are cancelled in a process

VARIABLES
  withSp,       \* the manager has SharedPreferences; a Context gives it none
  works,        \* they work in this process
  kept,         \* their file has an entry, after which they never work again
  files,        \* abconf_<id>.json
  confs,        \* the objects of the profiles, other than the default one
  mapping,      \* abconf_data
  stored,       \* abconf_mapping in the preferences of this process
  drawn,        \* ids used so far
  change,       \* the change that has the lock, and the mapping it has loaded
  late,         \* mappings on their way to the preferences whose callers were cancelled
  cancels,      \* the number of such callers in this process
  created,      \* ids that create_conf has returned in this process and nobody has deleted
  restarts

profileVars ==
  <<withSp, works, kept, files, confs, mapping, stored, drawn, change, late, cancels, created, restarts>>

NoChange == [at |-> "none", id |-> "none", kind |-> "none", loaded |-> {}]

ProfilesInit ==
  /\ withSp \in BOOLEAN /\ works \in {FALSE, withSp} /\ kept = (withSp /\ ~works)
  /\ files = {} /\ confs = {} /\ mapping = {} /\ stored = {} /\ drawn = {} /\ created = {}
  /\ change = NoChange /\ late = {} /\ cancels = 0 /\ restarts = 0

Reaches(at) == change' = [change EXCEPT !.at = at]

\* _load_abconf_mapping: the preferences', or the one in memory when they raise.
Mapping == IF works THEN stored ELSE mapping

\* The file is written and the object made of it.
CreateConf(id) ==
  /\ change = NoChange /\ id \notin drawn /\ drawn' = drawn \union {id}
  /\ files' = files \union {id}
  /\ \/ confs' = confs \union {id} /\ change' = [at |-> "load", id |-> id, kind |-> "create", loaded |-> {}]
     \/ UNCHANGED <<confs, change>>    \* an error on the way, which create_conf raises
  /\ UNCHANGED <<withSp, works, kept, mapping, stored, late, cancels, created, restarts>>

\* _save_conf_mapping awaits the mapping.
LoadMapping ==
  /\ change.at = "load"
  /\ change' = [change EXCEPT !.at = "map", !.loaded = Mapping]
  /\ UNCHANGED <<withSp, works, kept, files, confs, mapping, stored, drawn, late, cancels, created, restarts>>

\* delete_conf of an id that the mapping does not have answers False.
DeleteConf(id) ==
  /\ change = NoChange /\ id \in Mapping
  /\ change' = [at |-> "file", id |-> id, kind |-> "delete", loaded |-> Mapping]
  /\ UNCHANGED <<withSp, works, kept, files, confs, mapping, stored, drawn, late, cancels, created, restarts>>

\* The file cannot be removed: nothing is changed, and False answered.
DeleteFails ==
  /\ change.at = "file" /\ change.id \in files /\ change' = NoChange
  /\ UNCHANGED <<withSp, works, kept, files, confs, mapping, stored, drawn, late, cancels, created, restarts>>

\* The file first, the object, and the mapping last.
RemoveFile ==
  /\ change.at = "file" /\ Reaches("map")
  /\ files' = files \ {change.id} /\ confs' = confs \ {change.id} /\ created' = created \ {change.id}
  /\ UNCHANGED <<withSp, works, kept, mapping, stored, drawn, late, cancels, restarts>>

\* mutant: the new entry takes the place of the mapping.
SetMappingAlone ==
  /\ change.at = "map" /\ Reaches("put")
  /\ mapping' = IF change.kind = "create" THEN {change.id} ELSE change.loaded \ {change.id}
  /\ UNCHANGED <<withSp, works, kept, files, confs, stored, drawn, late, cancels, created, restarts>>

\* _persist_abconf_mapping: in memory first.
SetMapping ==
  /\ change.at = "map" /\ Reaches("put")
  /\ mapping' = IF change.kind = "create" THEN change.loaded \union {change.id} ELSE change.loaded \ {change.id}
  /\ UNCHANGED <<withSp, works, kept, files, confs, stored, drawn, late, cancels, created, restarts>>

\* The preferences that work have it, and their file unless it cannot be written; an error is
\* logged and the call returns.
ToPreferences(m) == IF works THEN stored' = m /\ kept' \in {kept, TRUE} ELSE UNCHANGED <<stored, kept>>

PutMapping ==
  /\ change.at = "put" /\ ToPreferences(mapping) /\ change' = NoChange
  /\ created' = IF change.kind = "create" THEN created \union {change.id} ELSE created
  /\ UNCHANGED <<withSp, works, files, confs, mapping, drawn, late, cancels, restarts>>

\* The caller is cancelled at one of the awaits; what a thread has been given is done all the same.
Cancel ==
  /\ withSp /\ change.at \in {"load", "put"} /\ change' = NoChange
  /\ cancels < MaxCancels /\ cancels' = cancels + 1
  /\ late' = IF change.at = "put" THEN late \union {mapping} ELSE late
  /\ UNCHANGED <<withSp, works, kept, files, confs, mapping, stored, drawn, created, restarts>>

LatePut(m) ==
  /\ m \in late /\ late' = late \ {m} /\ ToPreferences(m)
  /\ UNCHANGED <<withSp, works, files, confs, mapping, drawn, change, cancels, created, restarts>>

\* initialize, after a restart: of preferences with an entry every read raises
\* (shared_preferences.py:139), and without an entry there is no mapping.
Restart ==
  /\ restarts < Restarts /\ restarts' = restarts + 1
  /\ works' = (withSp /\ ~kept)
  /\ mapping' = {} /\ stored' = {} /\ confs' = {} /\ created' = {}
  /\ change' = NoChange /\ late' = {} /\ cancels' = 0
  /\ UNCHANGED <<withSp, kept, files, drawn>>

ProfilesNext ==
  \/ \E id \in Ids : CreateConf(id) \/ DeleteConf(id)
  \/ LoadMapping \/ DeleteFails \/ RemoveFile \/ SetMapping \/ PutMapping \/ Cancel
  \/ \E m \in late : LatePut(m)
  \/ Restart

ProfilesSpec == ProfilesInit /\ [][ProfilesNext]_profileVars

\* get_conf: the profile that is bound to a session, or the default one.
Resolves(id) == id \in mapping /\ id \in confs

-----------------------------------------------------------------------------
(* A profile that create_conf has returned resolves, with its file, until it*)
(* is deleted or the process ends, whatever errors are swallowed; but for a *)
(* process in which callers were cancelled.                                 *)
CreatedResolves == cancels = 0 => \A id \in created : Resolves(id) /\ id \in files

(* No session is answered from a profile whose file is gone; and between    *)
(* changes every object has its entry, but for cancelled callers.           *)
NoDeletedProfile == confs \subseteq files /\ (change = NoChange /\ cancels = 0 => confs \subseteq mapping)

(* What create_conf returned and what sessions are answered from            *)
(* (astrbot_config_mgr.py).                                                 *)
ProfilesAreRight == CreatedResolves /\ NoDeletedProfile

-----------------------------------------------------------------------------
(* What the repository says and the code does not do                        *)

(* initialize restores the mapping from the preferences (line 82).  Those   *)
(* that have it never work again.                                           *)
RestoredAtStart == [][restarts' # restarts /\ works /\ kept => mapping' = stored]_profileVars

(* create_conf has returned, so the profile is there.  A put of a caller    *)
(* that was cancelled may be the later one.                                 *)
ResolvesWhateverIsCancelled == \A id \in created : Resolves(id)

(* An object that sessions are answered from has its entry.  A caller that  *)
(* is cancelled before the mapping is set leaves one without.               *)
ObjectsAreMapped == change = NoChange => confs \subseteq mapping

(* No file is left behind.  A death between the file and the mapping leaves *)
(* one, and every restart does.                                             *)
NoOrphans == change = NoChange => files \subseteq mapping
=============================================================================
