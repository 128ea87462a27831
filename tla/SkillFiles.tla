----------------------------- MODULE SkillFiles -----------------------------
(***************************************************************************)
(* SkillManager (core/skills/skill_manager.py): skills are directories of  *)
(* the host's data path, which the plugin fills from zip archives; the     *)
(* host deletes and activates them; skills of the sandbox are known from a *)
(* cache file the host and the plugins share.                              *)
(***************************************************************************)
EXTENDS Naturals, FiniteSets, Functions

CONSTANTS
  Installs,     \* calls of install_skill_from_zip
  Folders,      \* top-level directories of archives that hold a SKILL.md or skill.md
  Others,       \* other top-level entries of archives: a file, a directory without one
  Hint,         \* skill_name_hint where it is given
  SkillNames,
  SkillNamed,   \* _normalize_skill_name of a directory; of Root, the archive's own name
  SerialInstalls  \* the calls are made one after another

NoSkill == "none"     \* no such directory
Host   == "host"     \* it was there before
Root   == "root"     \* the archive's root, when the SKILL.md is there
NoHint == "no hint"
NoName == ""         \* what no directory can be called
PathOut == "path out"    \* an absolute path, or one with ".."

ASSUME SkillAssumption ==
  /\ Root \notin Folders /\ NoSkill \notin Installs \union {Host}
  /\ SkillNamed \in [Folders \union {Root} -> SkillNames \union {NoName}]
  /\ Hint \in SkillNames \union {NoHint} /\ NoName \notin SkillNames
  /\ SerialInstalls \in BOOLEAN

VARIABLES
  disk,         \* by name: whose skill is in the directory
  nested,       \* names in whose directory another skill was moved
  sandbox,      \* names in sandbox_skills_cache.json
  enabled,      \* names the host was told to enable
  install,      \* by call: where it is, its archive, overwrite, what is installed and to do
  lost          \* names whose skill is gone without a new one

skillVars == <<disk, nested, sandbox, enabled, install, lost>>

SkillInit ==
  /\ disk \in [SkillNames -> {NoSkill, Host}]
  /\ nested = {} /\ enabled = {} /\ lost = {}
  /\ sandbox \in SUBSET SkillNames
  /\ \E fs \in [Installs -> (SUBSET Folders) \cup {{Root}}], os \in [Installs -> SUBSET Others],
        hint \in [Installs -> {NoHint, Hint}], over \in [Installs -> BOOLEAN] :
       install = [i \in Installs |->
                    [at |-> "start", folders |-> fs[i], others |-> os[i], todo |-> fs[i],
                     hint |-> hint[i], overwrite |-> over[i], done |-> {}, dir |-> NoSkill]]

SkillGoto(i, to) == install' = [install EXCEPT ![i].at = to]
Busy == {i \in Installs : install[i].at \notin {"start", "done", "refused", "failed"}}
There(n) == disk[n] # NoSkill

\* The hint names the root, or the only entry of the top level; otherwise a directory has
\* its own name.
TopDirs(i) == install[i].folders \cup install[i].others
HintHolds(i) == install[i].hint # NoHint /\ (Root \in install[i].folders \/ Cardinality(TopDirs(i)) = 1)
Target(i, f) == IF HintHolds(i) THEN install[i].hint ELSE SkillNamed[f]

\* A directory whose name is no name of a skill is passed over, whatever the hint.
Taken(i) == {f \in install[i].folders : SkillNamed[f] # NoName \/ (f = Root /\ install[i].hint # NoHint)}
Targets(i) == {Target(i, f) : f \in Taken(i)}

\* is_sandbox_only_skill
SandboxOnly(n) == ~There(n) /\ n \in sandbox

\* No file at all, a path that leads out of the directory, or a root without a name.
BadArchive(i) ==
  \/ TopDirs(i) = {} \/ PathOut \in install[i].others
  \/ Root \in install[i].folders /\ Taken(i) = {}

\* Without overwrite nothing is extracted if one of the targets exists; a root's target is
\* looked at later.
TargetsExist(i) ==
  ~install[i].overwrite /\ Root \notin install[i].folders /\ \E n \in Targets(i) : There(n)

\* mutant: a target that exists is met only when its turn comes.
CheckLater(i) ==
  /\ install[i].at = "start" /\ (SerialInstalls => Busy = {})
  /\ install' = [install EXCEPT ![i].at = "next", ![i].todo = Taken(i)]
  /\ UNCHANGED <<disk, nested, sandbox, enabled, lost>>

CheckArchive(i) ==
  /\ install[i].at = "start" /\ (SerialInstalls => Busy = {})
  /\ install' = [install EXCEPT ![i].todo = Taken(i),
                    ![i].at = IF BadArchive(i) \/ TargetsExist(i) THEN "refused" ELSE "next"]
  /\ UNCHANGED <<disk, nested, sandbox, enabled, lost>>

\* The next directory of the archive: what is at its target goes first.
MakeRoom(i, f) ==
  /\ install[i].at = "next" /\ f \in install[i].todo
  /\ LET n == Target(i, f)
     IN  IF There(n) /\ ~install[i].overwrite
         THEN SkillGoto(i, "refused") /\ UNCHANGED <<disk, nested, lost>>
         ELSE /\ install' = [install EXCEPT ![i].at = "move", ![i].dir = f, ![i].todo = @ \ {f}]
              /\ disk' = [disk EXCEPT ![n] = NoSkill]
              /\ nested' = nested \ {n}
              /\ lost' = IF There(n) THEN lost \union {n} ELSE lost
  /\ UNCHANGED <<sandbox, enabled>>

\* shutil.move puts a directory into one that exists.
Move(i) ==
  /\ install[i].at = "move"
  /\ LET n == Target(i, install[i].dir)
     IN  /\ IF There(n) THEN nested' = nested \union {n} /\ UNCHANGED disk
                        ELSE disk' = [disk EXCEPT ![n] = i] /\ UNCHANGED nested
         /\ lost' = lost \ {n}
  /\ SkillGoto(i, "enable")
  /\ UNCHANGED <<sandbox, enabled>>

MoveFails(i) ==
  /\ install[i].at = "move" /\ SkillGoto(i, "failed")
  /\ UNCHANGED <<disk, nested, sandbox, enabled, lost>>

\* set_skill_active: refused for a skill of the sandbox, and a host that does not
\* answer is taken for one that did.
Enable(i) ==
  /\ install[i].at = "enable"
  /\ LET n == Target(i, install[i].dir)
     IN  IF SandboxOnly(n)
         THEN SkillGoto(i, "failed") /\ UNCHANGED enabled
         ELSE /\ install' = [install EXCEPT ![i].at = "next", ![i].done = @ \union {n}]
              /\ enabled' \in {enabled, enabled \union {n}}
  /\ UNCHANGED <<disk, nested, sandbox, lost>>

\* An archive without a skill is a ValueError after all.
Installed(i) ==
  /\ install[i].at = "next" /\ install[i].todo = {}
  /\ SkillGoto(i, IF Taken(i) = {} THEN "refused" ELSE "done")
  /\ UNCHANGED <<disk, nested, sandbox, enabled, lost>>

\* delete_skill, and the host's part of it: the directory and the cache's entry go.
DeleteSkill(n) ==
  /\ ~SandboxOnly(n) /\ There(n) /\ (SerialInstalls => Busy = {})
  /\ disk' = [disk EXCEPT ![n] = NoSkill] /\ nested' = nested \ {n}
  /\ sandbox' = sandbox \ {n} /\ enabled' = enabled \ {n}
  /\ install' = [i \in Installs |-> [install[i] EXCEPT !.done = @ \ {n}]]
  /\ UNCHANGED lost

\* set_sandbox_skills_cache
SetSandbox ==
  /\ sandbox' \in SUBSET SkillNames
  /\ UNCHANGED <<disk, nested, enabled, install, lost>>

SkillNext ==
  \/ \E i \in Installs : \/ CheckArchive(i) \/ Move(i) \/ MoveFails(i) \/ Enable(i) \/ Installed(i)
                         \/ \E f \in Folders \union {Root} : MakeRoom(i, f)
  \/ \E n \in SkillNames : DeleteSkill(n)
  \/ SetSandbox

SkillSpec == SkillInit /\ [][SkillNext]_skillVars

-----------------------------------------------------------------------------
TargetsDiffer(i) == \A f, g \in Taken(i) : Target(i, f) = Target(i, g) => f = g

(* The docstring, line 722: without overwrite an archive one of whose       *)
(* targets exists is refused before anything is installed, when the calls   *)
(* are made one after another.  Two directories of one archive with the     *)
(* same normalised name are the exception.  The same holds for an archive   *)
(* that is refused for what is in it.                                       *)
NothingInstalledInPart ==
  \A i \in Installs :
    /\ install[i].at = "refused"
    /\ install[i].overwrite \/ (SerialInstalls /\ TargetsDiffer(i))
    => install[i].done = {}

(* What a call has installed is there, its own or that of a later call, or  *)
(* one that replaced it failed; and it is in a directory of its own, when   *)
(* the calls are made one after another.                                    *)
InstalledIsThere ==
  SerialInstalls =>
    /\ nested = {}
    /\ \A i \in Installs : \A n \in install[i].done : There(n) \/ n \in lost

(* An archive that is refused leaves nothing behind, and of the others what *)
(* was installed is there (skill_manager.py).                               *)
SkillsAreWhole == NothingInstalledInPart /\ InstalledIsThere

(* The docstring, line 721: the hint is the name of the only top-level      *)
(* directory.  A file beside that directory, and the hint is not used.      *)
HintIsUsed ==
  \A i \in Installs :
    install[i].at = "done" /\ install[i].hint # NoHint /\ Cardinality(install[i].folders) = 1 =>
      \A f \in Taken(i) : Target(i, f) = install[i].hint

(* Replacing a skill loses it if its successor cannot be moved.             *)
NothingIsLost == \A i \in Installs : install[i].at = "failed" => lost = {}
=============================================================================
