------------------------------ MODULE FilesProofs ------------------------------
(***************************************************************************)
(* Proofs about what a plugin keeps, whom it tells and what it runs:       *)
(* skills unpacked from archives (SkillFiles), the hooks and callbacks     *)
(* that are told of a switch of the provider and of a connection           *)
(* (Providers, Platforms), the files of the preferences, of the key-value  *)
(* store, of the configuration and of the messages of a chat (Preferences, *)
(* ConfigFile, MessageHistory), and the packages that are installed when   *)
(* they are imported and the code a plugin is loaded from (LazyDeps,       *)
(* PluginImport).                                                          *)
(***************************************************************************)
EXTENDS SkillFiles, PluginStores, MessageHistory, SequenceTheorems, FiniteSetTheorems, TLAPS

-----------------------------------------------------------------------------
(* SkillFiles: the inductive invariant                                      *)

SkillTypes ==
  /\ disk \in [SkillNames -> {NoSkill, Host} \union Installs]
  /\ nested \subseteq SkillNames /\ lost \subseteq SkillNames
  /\ install \in [Installs ->
       [at : {"start", "next", "move", "enable", "done", "refused", "failed"},
        folders : (SUBSET Folders) \union {{Root}}, others : SUBSET Others, todo : SUBSET (Folders \union {Root}),
        hint : {NoHint, Hint}, overwrite : BOOLEAN, done : SUBSET SkillNames,
        dir : Folders \union {Root, NoSkill}]]

\* What is installed is of directories that are no longer to do.
DoneWasToDo ==
  \A i \in Installs :
    /\ install[i].at = "start" => install[i].done = {}
    /\ install[i].at # "start" =>
         /\ install[i].todo \subseteq Taken(i)
         /\ \A n \in install[i].done : \E f \in Taken(i) \ install[i].todo : n = Target(i, f)
    /\ install[i].at \in {"move", "enable"} => install[i].dir \in Taken(i) \ install[i].todo

OneInstalls == SerialInstalls => \A i, j \in Busy : i = j

RoomIsMade ==
  SerialInstalls => \A i \in Installs :
    /\ install[i].at = "move" => ~There(Target(i, install[i].dir))
    /\ install[i].at = "enable" => There(Target(i, install[i].dir))

TargetsAreFree ==
  SerialInstalls => \A i \in Installs :
    install[i].at \in {"next", "move", "enable"} /\ ~install[i].overwrite /\ Root \notin install[i].folders
      /\ TargetsDiffer(i) =>
      \A f \in install[i].todo : ~There(Target(i, f))

SkillInv == SkillTypes /\ DoneWasToDo /\ OneInstalls /\ RoomIsMade /\ TargetsAreFree /\ SkillsAreWhole

\* The archive of a call is what it was when it was made.
SameArchives ==
  \A i \in Installs :
    /\ install'[i].folders = install[i].folders /\ install'[i].others = install[i].others
    /\ install'[i].hint = install[i].hint /\ install'[i].overwrite = install[i].overwrite

LEMMA TargetsStay ==
  ASSUME SameArchives, NEW i \in Installs
  PROVE  /\ Taken(i)' = Taken(i)
         /\ \A f : Target(i, f)' = Target(i, f)
         /\ TargetsDiffer(i)' = TargetsDiffer(i)
BY DEF SameArchives, Taken, Target, TargetsDiffer, HintHolds, TopDirs

LEMMA TargetHasName ==
  ASSUME SkillTypes, NEW i \in Installs, NEW f \in Taken(i)
  PROVE  f \in Folders \union {Root} /\ Target(i, f) \in SkillNames
<1>1. f \in install[i].folders /\ install[i].folders \in (SUBSET Folders) \union {{Root}}
  BY DEF Taken, SkillTypes
<1>2. f \in Folders \union {Root}
  <2>1. CASE install[i].folders \in SUBSET Folders
    BY <1>1, <2>1
  <2>2. CASE install[i].folders = {Root}
    BY <1>1, <2>2
  <2>. QED  BY <1>1, <2>1, <2>2
<1>3. CASE HintHolds(i)
  BY <1>2, <1>3, SkillAssumption DEF HintHolds, Target, SkillTypes
<1>4. CASE ~HintHolds(i)
  <2>1. SkillNamed[f] # NoName
    BY <1>1, <1>4 DEF HintHolds, Taken
  <2>2. SkillNamed[f] \in SkillNames
    BY <1>2, <2>1, SkillAssumption
  <2>. QED  BY <1>2, <1>4, <2>2 DEF Target
<1>. QED  BY <1>3, <1>4

LEMMA SkillStart ==
  ASSUME SkillInit
  PROVE  SkillInv
<1>1. PICK fs \in [Installs -> (SUBSET Folders) \union {{Root}}], os \in [Installs -> SUBSET Others],
           hint \in [Installs -> {NoHint, Hint}], over \in [Installs -> BOOLEAN] :
        install = [i \in Installs |->
                     [at |-> "start", folders |-> fs[i], others |-> os[i], todo |-> fs[i],
                      hint |-> hint[i], overwrite |-> over[i], done |-> {}, dir |-> NoSkill]]
  BY DEF SkillInit
<1>2. \A i \in Installs : /\ install[i].at = "start" /\ install[i].done = {}
                          /\ install[i].folders = fs[i] /\ install[i].todo = fs[i]
  BY <1>1
<1>3. SkillTypes
  <2>1. \A i \in Installs : fs[i] \in SUBSET (Folders \union {Root})
    <3>. TAKE i \in Installs
    <3>1. fs[i] \in SUBSET Folders \/ fs[i] = {Root}
      OBVIOUS
    <3>. QED  BY <3>1
  <2>. QED  BY <1>1, <2>1 DEF SkillTypes, SkillInit
<1>. QED  BY <1>2, <1>3 DEF SkillInv, DoneWasToDo, OneInstalls, Busy, RoomIsMade, TargetsAreFree, SkillsAreWhole,
                            NothingInstalledInPart, InstalledIsThere, SkillInit

LEMMA ArchiveIsChecked ==
  ASSUME SkillInv, NEW i \in Installs, CheckArchive(i)
  PROVE  SkillInv'
<1>. USE DEF SkillInv
<1>1. /\ \A j \in Installs : j # i => install'[j] = install[j]
      /\ install'[i].todo = Taken(i) /\ install'[i].done = {} /\ install'[i].at \in {"refused", "next"}
      /\ install'[i].at = "next" => ~TargetsExist(i)
      /\ SerialInstalls => Busy = {}
      /\ UNCHANGED <<disk, nested, lost>>
  BY DEF SkillTypes, DoneWasToDo, CheckArchive
<1>2. SameArchives
  BY DEF SameArchives, SkillTypes, CheckArchive
<1>3. \A j \in Installs : Taken(j)' = Taken(j) /\ (\A f : Target(j, f)' = Target(j, f)) /\ TargetsDiffer(j)' = TargetsDiffer(j)
  BY <1>2, TargetsStay
<1>4. SkillTypes'
  <2>1. Taken(i) \subseteq Folders \union {Root}
    BY TargetHasName
  <2>. QED  BY <2>1 DEF SkillTypes, CheckArchive
<1>5. DoneWasToDo'
  <2>. SUFFICES ASSUME NEW j \in Installs
       PROVE  /\ install'[j].at = "start" => install'[j].done = {}
              /\ install'[j].at # "start" =>
                   /\ install'[j].todo \subseteq Taken(j)
                   /\ \A n \in install'[j].done : \E f \in Taken(j) \ install'[j].todo : n = Target(j, f)
              /\ install'[j].at \in {"move", "enable"} => install'[j].dir \in Taken(j) \ install'[j].todo
    BY <1>3 DEF DoneWasToDo
  <2>1. CASE j = i
    BY <1>1, <2>1
  <2>2. CASE j # i
    BY <1>1, <2>2 DEF DoneWasToDo
  <2>. QED  BY <2>1, <2>2
<1>6. OneInstalls'
  BY <1>1 DEF OneInstalls, Busy
<1>7. RoomIsMade'
  <2>. SUFFICES ASSUME SerialInstalls, NEW j \in Installs, install'[j].at \in {"move", "enable"}
       PROVE  /\ install'[j].at = "move" => ~There(Target(j, install'[j].dir))
              /\ install'[j].at = "enable" => There(Target(j, install'[j].dir))
    BY <1>1, <1>3 DEF RoomIsMade, There
  <2>1. j # i
    BY <1>1
  <2>. QED  BY <1>1, <2>1 DEF RoomIsMade
<1>8. TargetsAreFree'
  <2>. SUFFICES ASSUME SerialInstalls, NEW j \in Installs,
                  install'[j].at \in {"next", "move", "enable"}, ~install[j].overwrite, Root \notin install[j].folders,
                  TargetsDiffer(j), NEW g \in install'[j].todo
       PROVE  ~There(Target(j, g))
    BY <1>1, <1>2, <1>3 DEF TargetsAreFree, There, SameArchives
  <2>1. CASE j = i
    BY <1>1, <2>1 DEF TargetsExist, Targets
  <2>2. CASE j # i
    BY <1>1, <2>2 DEF TargetsAreFree
  <2>. QED  BY <2>1, <2>2
<1>9. SkillsAreWhole'
  BY <1>1, <1>2, <1>3 DEF SkillsAreWhole, NothingInstalledInPart, InstalledIsThere, There, SameArchives
<1>. QED  BY <1>4, <1>5, <1>6, <1>7, <1>8, <1>9

LEMMA RoomIsMadeForOne ==
  ASSUME SkillInv, NEW i \in Installs, NEW f \in Folders \union {Root}, MakeRoom(i, f)
  PROVE  SkillInv'
<1>. DEFINE n == Target(i, f)
<1>. USE DEF SkillInv
<1>0. install[i].at = "next" /\ f \in install[i].todo /\ f \in Taken(i) /\ n \in SkillNames
  BY TargetHasName DEF MakeRoom, DoneWasToDo
<1>1. CASE There(n) /\ ~install[i].overwrite
  <2>. USE <1>1 DEF MakeRoom, SkillGoto
  <2>1. /\ \A j \in Installs : j # i => install'[j] = install[j]
        /\ install'[i].todo = install[i].todo /\ install'[i].done = install[i].done /\ install'[i].at = "refused"
        /\ UNCHANGED <<disk, nested, lost>>
    BY DEF SkillTypes
  <2>2. SameArchives
    BY DEF SameArchives, SkillTypes
  <2>3. \A j \in Installs : Taken(j)' = Taken(j) /\ (\A g : Target(j, g)' = Target(j, g)) /\ TargetsDiffer(j)' = TargetsDiffer(j)
    BY <2>2, TargetsStay
  <2>4. SkillTypes'
    BY DEF SkillTypes
  <2>5. DoneWasToDo'
    BY <1>0, <2>1, <2>3 DEF DoneWasToDo
  <2>6. OneInstalls'
    BY <2>1, <1>0 DEF OneInstalls, Busy
  <2>7. RoomIsMade'
    BY <2>1, <2>3 DEF RoomIsMade, There
  <2>8. TargetsAreFree'
    BY <2>1, <2>2, <2>3 DEF TargetsAreFree, There, SameArchives
  <2>9. SkillsAreWhole'
    <3>1. ASSUME SerialInstalls, TargetsDiffer(i)  PROVE install[i].done = {}
      <4>1. Root \in install[i].folders
        BY <1>0, <1>1, <3>1 DEF TargetsAreFree
      <4>2. Taken(i) = {f}
        <5>1. install[i].folders \in (SUBSET Folders) \union {{Root}}
          BY DEF SkillTypes
        <5>2. install[i].folders = {Root}
          BY <4>1, <5>1, SkillAssumption
        <5>. QED  BY <1>0, <5>2 DEF Taken
      <4>. QED  BY <1>0, <4>2 DEF DoneWasToDo
    <3>2. ~install'[i].overwrite
      BY <2>2 DEF SameArchives
    <3>. QED  BY <2>1, <2>2, <2>3, <3>1, <3>2 DEF SkillsAreWhole, NothingInstalledInPart, InstalledIsThere, There, SameArchives
  <2>. QED  BY <2>4, <2>5, <2>6, <2>7, <2>8, <2>9
<1>2. CASE ~(There(n) /\ ~install[i].overwrite)
  <2>. USE <1>2 DEF MakeRoom
  <2>1. /\ \A j \in Installs : j # i => install'[j] = install[j]
        /\ install'[i].todo = install[i].todo \ {f} /\ install'[i].done = install[i].done
        /\ install'[i].at = "move" /\ install'[i].dir = f
        /\ nested' = nested \ {n} /\ lost' = (IF There(n) THEN lost \union {n} ELSE lost)
        /\ disk' = [disk EXCEPT ![n] = NoSkill]
    BY DEF SkillTypes
  <2>2. SameArchives
    BY DEF SameArchives, SkillTypes
  <2>3. \A j \in Installs : Taken(j)' = Taken(j) /\ (\A g : Target(j, g)' = Target(j, g)) /\ TargetsDiffer(j)' = TargetsDiffer(j)
    BY <2>2, TargetsStay
  <2>t. /\ \A m \in SkillNames : There(m)' <=> There(m) /\ m # n
        /\ ~There(n)'
    BY <1>0, <2>1 DEF There, SkillTypes
  <2>4. SkillTypes'
    BY <1>0, <2>1 DEF SkillTypes
  <2>5. DoneWasToDo'
    BY <1>0, <2>1, <2>3 DEF DoneWasToDo
  <2>6. OneInstalls'
    BY <2>1, <1>0 DEF OneInstalls, Busy
  <2>7. RoomIsMade'
    <3>1. ASSUME SerialInstalls, NEW j \in Installs, j # i  PROVE install[j].at \notin {"move", "enable"}
      BY <1>0, <3>1 DEF OneInstalls, Busy
    <3>. QED  BY <2>1, <2>3, <2>t, <3>1 DEF RoomIsMade
  <2>8. TargetsAreFree'
    <3>. SUFFICES ASSUME SerialInstalls', NEW j \in Installs,
                    install'[j].at \in {"next", "move", "enable"}, ~install'[j].overwrite, Root \notin install'[j].folders,
                    TargetsDiffer(j)', NEW g \in install'[j].todo
                  PROVE  ~There(Target(j, g))'
      BY DEF TargetsAreFree
    <3>1. g \in install[j].todo /\ install[j].at \in {"next", "move", "enable"}
      BY <1>0, <2>1
    <3>2. ~There(Target(j, g))
      BY <3>1, <2>2, <2>3 DEF TargetsAreFree, SameArchives
    <3>3. Target(j, g) \in SkillNames
      BY <3>1, TargetHasName DEF DoneWasToDo
    <3>. QED  BY <2>3, <2>t, <3>2, <3>3 DEF There
  <2>9. SkillsAreWhole'
    <3>1. NothingInstalledInPart'
      BY <2>1, <2>2, <2>3 DEF SkillsAreWhole, NothingInstalledInPart, SameArchives
    <3>2. InstalledIsThere'
      <4>. SUFFICES ASSUME SerialInstalls', NEW j \in Installs, NEW m \in install'[j].done
                    PROVE  nested' = {} /\ (There(m)' \/ m \in lost')
        BY <2>1 DEF InstalledIsThere, SkillsAreWhole
      <4>1. m \in install[j].done /\ m \in SkillNames
        BY <2>1 DEF SkillTypes
      <4>. QED  BY <2>1, <2>t, <4>1 DEF SkillsAreWhole, InstalledIsThere
    <3>. QED  BY <3>1, <3>2 DEF SkillsAreWhole
  <2>. QED  BY <2>4, <2>5, <2>6, <2>7, <2>8, <2>9
<1>. QED  BY <1>1, <1>2

LEMMA SkillIsMoved ==
  ASSUME SkillInv, NEW i \in Installs, Move(i)
  PROVE  SkillInv'
<1>. DEFINE n == Target(i, install[i].dir)
<1>. USE DEF SkillInv
<1>0. install[i].at = "move" /\ install[i].dir \in Taken(i) \ install[i].todo /\ n \in SkillNames
  BY TargetHasName DEF Move, DoneWasToDo
<1>1. /\ \A j \in Installs : j # i => install'[j] = install[j]
      /\ install'[i].todo = install[i].todo /\ install'[i].done = install[i].done
      /\ install'[i].dir = install[i].dir /\ install'[i].at = "enable"
      /\ lost' = lost \ {n}
      /\ (There(n) /\ nested' = nested \union {n} /\ disk' = disk) \/ (~There(n) /\ disk' = [disk EXCEPT ![n] = i] /\ nested' = nested)
  BY DEF Move, SkillGoto, SkillTypes
<1>2. SameArchives
  BY DEF SameArchives, SkillTypes, Move, SkillGoto
<1>3. \A j \in Installs : Taken(j)' = Taken(j) /\ (\A g : Target(j, g)' = Target(j, g)) /\ TargetsDiffer(j)' = TargetsDiffer(j)
  BY <1>2, TargetsStay
<1>t. \A m \in SkillNames : There(m)' <=> There(m) \/ m = n
  BY <1>0, <1>1, SkillAssumption DEF There, SkillTypes
<1>u. SerialInstalls => ~There(n) /\ nested' = nested
  BY <1>0, <1>1 DEF RoomIsMade
<1>4. SkillTypes'
  BY <1>0, <1>1 DEF SkillTypes, Move, SkillGoto
<1>5. DoneWasToDo'
  BY <1>0, <1>1, <1>3 DEF DoneWasToDo
<1>6. OneInstalls'
  BY <1>0, <1>1 DEF OneInstalls, Busy
<1>o. ASSUME SerialInstalls, NEW j \in Installs, j # i  PROVE install[j].at \notin {"next", "move", "enable"}
  BY <1>0, <1>o DEF OneInstalls, Busy
<1>7. RoomIsMade'
  <2>. SUFFICES ASSUME SerialInstalls, NEW j \in Installs, install'[j].at \in {"move", "enable"}
       PROVE  /\ install'[j].at = "enable" /\ disk'[Target(j, install'[j].dir)] # NoSkill
    BY <1>3 DEF RoomIsMade, There
  <2>1. j = i
    BY <1>1, <1>o
  <2>2. disk'[n] # NoSkill
    BY <1>0, <1>t DEF There
  <2>. QED  BY <1>1, <2>1, <2>2
<1>8. TargetsAreFree'
  <2>. SUFFICES ASSUME SerialInstalls, NEW j \in Installs,
                  install'[j].at \in {"next", "move", "enable"}, ~install[j].overwrite, Root \notin install[j].folders,
                  TargetsDiffer(j), NEW g \in install'[j].todo
       PROVE  ~There(Target(j, g))'
    BY <1>2, <1>3 DEF TargetsAreFree, SameArchives, There
  <2>1. j = i
    BY <1>1, <1>o
  <2>2. g \in Taken(i) /\ g # install[i].dir /\ ~There(Target(i, g))
    BY <1>0, <1>1, <2>1 DEF DoneWasToDo, TargetsAreFree
  <2>3. Target(i, g) # n /\ Target(i, g) \in SkillNames
    BY <1>0, <2>1, <2>2, TargetHasName DEF TargetsDiffer
  <2>4. disk'[Target(i, g)] = NoSkill
    BY <1>t, <2>2, <2>3 DEF There
  <2>. QED  BY <1>3, <2>1, <2>4 DEF There
<1>9. SkillsAreWhole'
  <2>1. NothingInstalledInPart'
    BY <1>1, <1>2, <1>3 DEF SkillsAreWhole, NothingInstalledInPart, SameArchives
  <2>2. InstalledIsThere'
    <3>. SUFFICES ASSUME SerialInstalls, NEW j \in Installs, NEW m \in install'[j].done
                  PROVE  nested' = {} /\ (There(m)' \/ m \in lost')
      BY <1>u DEF InstalledIsThere, SkillsAreWhole
    <3>1. m \in install[j].done /\ m \in SkillNames
      BY <1>1 DEF SkillTypes
    <3>. QED  BY <1>1, <1>t, <1>u, <3>1 DEF SkillsAreWhole, InstalledIsThere
  <2>. QED  BY <2>1, <2>2 DEF SkillsAreWhole
<1>. QED  BY <1>4, <1>5, <1>6, <1>7, <1>8, <1>9

\* A step of a call that touches no directory and ends it, or leaves it as it is.
LEMMA CallEnds ==
  ASSUME SkillInv, NEW i \in Installs, NEW to \in {"done", "refused", "failed"}, SkillGoto(i, to),
         install[i].at \in {"next", "move", "enable"}, UNCHANGED <<disk, nested, lost>>,
         to = "refused" => install[i].done = {}
  PROVE  SkillInv'
<1>. USE DEF SkillInv
<1>1. /\ \A j \in Installs : j # i => install'[j] = install[j]
      /\ install'[i].todo = install[i].todo /\ install'[i].done = install[i].done /\ install'[i].at = to
  BY DEF SkillGoto, SkillTypes
<1>2. SameArchives
  BY DEF SameArchives, SkillTypes, SkillGoto
<1>3. \A j \in Installs : Taken(j)' = Taken(j) /\ (\A g : Target(j, g)' = Target(j, g)) /\ TargetsDiffer(j)' = TargetsDiffer(j)
  BY <1>2, TargetsStay
<1>4. SkillTypes'
  BY DEF SkillTypes, SkillGoto
<1>5. DoneWasToDo'
  BY <1>1, <1>3 DEF DoneWasToDo
<1>6. OneInstalls'
  BY <1>1 DEF OneInstalls, Busy
<1>7. RoomIsMade'
  BY <1>1, <1>3 DEF RoomIsMade, There
<1>8. TargetsAreFree'
  BY <1>1, <1>2, <1>3 DEF TargetsAreFree, There, SameArchives
<1>9. SkillsAreWhole'
  BY <1>1, <1>2, <1>3 DEF SkillsAreWhole, NothingInstalledInPart, InstalledIsThere, There, SameArchives
<1>. QED  BY <1>4, <1>5, <1>6, <1>7, <1>8, <1>9

LEMMA SkillIsEnabled ==
  ASSUME SkillInv, NEW i \in Installs, Enable(i)
  PROVE  SkillInv'
<1>. DEFINE n == Target(i, install[i].dir)
<1>. USE DEF SkillInv
<1>0. install[i].at = "enable" /\ install[i].dir \in Taken(i) \ install[i].todo /\ n \in SkillNames
  BY TargetHasName DEF Enable, DoneWasToDo
<1>1. CASE SandboxOnly(n)
  BY <1>0, <1>1, CallEnds DEF Enable
<1>2. CASE ~SandboxOnly(n)
  <2>1. /\ \A j \in Installs : j # i => install'[j] = install[j]
        /\ install'[i].todo = install[i].todo /\ install'[i].done = install[i].done \union {n}
        /\ install'[i].at = "next" /\ UNCHANGED <<disk, nested, lost>>
    BY <1>2 DEF Enable, SkillTypes
  <2>2. SameArchives
    BY <1>2 DEF SameArchives, SkillTypes, Enable
  <2>3. \A j \in Installs : Taken(j)' = Taken(j) /\ (\A g : Target(j, g)' = Target(j, g)) /\ TargetsDiffer(j)' = TargetsDiffer(j)
    BY <2>2, TargetsStay
  <2>4. SkillTypes'
    BY <1>0, <1>2 DEF SkillTypes, Enable
  <2>5. DoneWasToDo'
    BY <1>0, <2>1, <2>3 DEF DoneWasToDo
  <2>6. OneInstalls'
    BY <1>0, <2>1 DEF OneInstalls, Busy
  <2>7. RoomIsMade'
    BY <2>1, <2>3 DEF RoomIsMade, There
  <2>8. TargetsAreFree'
    BY <1>0, <2>1, <2>2, <2>3 DEF TargetsAreFree, There, SameArchives
  <2>9. SkillsAreWhole'
    <3>1. NothingInstalledInPart'
      BY <2>1, <2>2, <2>3 DEF SkillsAreWhole, NothingInstalledInPart, SameArchives
    <3>2. SerialInstalls => There(n)
      BY <1>0 DEF RoomIsMade
    <3>3. InstalledIsThere'
      BY <2>1, <3>2 DEF SkillsAreWhole, InstalledIsThere, There
    <3>. QED  BY <3>1, <3>3 DEF SkillsAreWhole
  <2>. QED  BY <2>4, <2>5, <2>6, <2>7, <2>8, <2>9
<1>. QED  BY <1>1, <1>2

LEMMA SkillIsDeleted ==
  ASSUME SkillInv, NEW n \in SkillNames, DeleteSkill(n)
  PROVE  SkillInv'
<1>. USE DEF SkillInv
<1>1. /\ \A j \in Installs : /\ install'[j].at = install[j].at /\ install'[j].todo = install[j].todo
                             /\ install'[j].dir = install[j].dir /\ install'[j].done = install[j].done \ {n}
      /\ nested' = nested \ {n} /\ lost' = lost /\ (SerialInstalls => Busy = {})
  BY DEF DeleteSkill, SkillTypes
<1>2. SameArchives
  BY DEF SameArchives, SkillTypes, DeleteSkill
<1>3. \A j \in Installs : Taken(j)' = Taken(j) /\ (\A g : Target(j, g)' = Target(j, g)) /\ TargetsDiffer(j)' = TargetsDiffer(j)
  BY <1>2, TargetsStay
<1>t. \A m \in SkillNames : There(m)' <=> There(m) /\ m # n
  BY DEF There, SkillTypes, DeleteSkill
<1>4. SkillTypes'
  <2>1. ASSUME NEW j \in Installs
        PROVE  [install[j] EXCEPT !.done = @ \ {n}] \in
          [at : {"start", "next", "move", "enable", "done", "refused", "failed"},
           folders : (SUBSET Folders) \union {{Root}}, others : SUBSET Others, todo : SUBSET (Folders \union {Root}),
           hint : {NoHint, Hint}, overwrite : BOOLEAN, done : SUBSET SkillNames,
           dir : Folders \union {Root, NoSkill}]
    BY DEF SkillTypes
  <2>. QED  BY <1>1, <2>1 DEF SkillTypes, DeleteSkill
<1>5. DoneWasToDo'
  BY <1>1, <1>3 DEF DoneWasToDo
<1>6. OneInstalls'
  BY <1>1 DEF OneInstalls, Busy
<1>7. RoomIsMade'
  BY <1>1 DEF RoomIsMade, Busy
<1>8. TargetsAreFree'
  BY <1>1 DEF TargetsAreFree, Busy
<1>9. SkillsAreWhole'
  <2>1. NothingInstalledInPart'
    BY <1>1, <1>2, <1>3 DEF SkillsAreWhole, NothingInstalledInPart, SameArchives
  <2>2. InstalledIsThere'
    <3>. SUFFICES ASSUME SerialInstalls, NEW j \in Installs, NEW m \in install'[j].done
                  PROVE  nested' = {} /\ (There(m)' \/ m \in lost')
      BY <1>1 DEF InstalledIsThere, SkillsAreWhole
    <3>1. m \in install[j].done /\ m # n /\ m \in SkillNames
      BY <1>1 DEF SkillTypes
    <3>. QED  BY <1>1, <1>t, <3>1 DEF SkillsAreWhole, InstalledIsThere
  <2>. QED  BY <2>1, <2>2 DEF SkillsAreWhole
<1>. QED  BY <1>4, <1>5, <1>6, <1>7, <1>8, <1>9

\* The installations and the skills they depend on read nothing of the sandbox's cache.
LEMMA SkillsRest ==
  ASSUME SkillInv, UNCHANGED <<disk, nested, install, lost>>
  PROVE  SkillInv'
<1>. USE DEF SkillInv
<1>1. SameArchives
  BY DEF SameArchives
<1>2. \A j \in Installs : Taken(j)' = Taken(j) /\ (\A g : Target(j, g)' = Target(j, g)) /\ TargetsDiffer(j)' = TargetsDiffer(j)
  BY <1>1, TargetsStay
<1>3. SkillTypes' /\ OneInstalls'
  BY DEF SkillTypes, OneInstalls, Busy
<1>4. DoneWasToDo'
  BY <1>2 DEF DoneWasToDo
<1>5. RoomIsMade' /\ TargetsAreFree'
  BY <1>2 DEF RoomIsMade, TargetsAreFree, There
<1>6. SkillsAreWhole'
  BY <1>2 DEF SkillsAreWhole, NothingInstalledInPart, InstalledIsThere, There
<1>. QED  BY <1>3, <1>4, <1>5, <1>6

\* Whatever archives are installed, by however many calls: one that is refused has installed
\* nothing, and with one call at a time no skill comes to lie inside another and what a call
\* has installed is there, unless a later one that failed took it away (skill_manager.py).
THEOREM WholeSkills == SkillSpec => []SkillsAreWhole
<1>1. SkillInit => SkillInv
  BY SkillStart
<1>2. SkillInv /\ [SkillNext]_skillVars => SkillInv'
  <2>. SUFFICES ASSUME SkillInv, [SkillNext]_skillVars  PROVE SkillInv'
    OBVIOUS
  <2>1. ASSUME NEW i \in Installs, CheckArchive(i)  PROVE SkillInv'
    BY <2>1, ArchiveIsChecked
  <2>2. ASSUME NEW i \in Installs, Move(i)  PROVE SkillInv'
    BY <2>2, SkillIsMoved
  <2>3. ASSUME NEW i \in Installs, MoveFails(i)  PROVE SkillInv'
    BY <2>3, CallEnds DEF MoveFails
  <2>4. ASSUME NEW i \in Installs, Enable(i)  PROVE SkillInv'
    BY <2>4, SkillIsEnabled
  <2>5. ASSUME NEW i \in Installs, Installed(i)  PROVE SkillInv'
    <3>1. Taken(i) = {} => install[i].done = {}
      BY <2>5 DEF SkillInv, DoneWasToDo, Installed
    <3>. QED  BY <2>5, <3>1, CallEnds DEF Installed
  <2>6. ASSUME NEW i \in Installs, NEW f \in Folders \union {Root}, MakeRoom(i, f)  PROVE SkillInv'
    BY <2>6, RoomIsMadeForOne
  <2>7. ASSUME NEW n \in SkillNames, DeleteSkill(n)  PROVE SkillInv'
    BY <2>7, SkillIsDeleted
  <2>8. ASSUME SetSandbox  PROVE SkillInv'
    BY <2>8, SkillsRest DEF SetSandbox
  <2>9. ASSUME UNCHANGED skillVars  PROVE SkillInv'
    BY <2>9, SkillsRest DEF skillVars
  <2>. QED  BY <2>1, <2>2, <2>3, <2>4, <2>5, <2>6, <2>7, <2>8, <2>9 DEF SkillNext
<1>. QED  BY <1>1, <1>2, PTL DEF SkillSpec, SkillInv

-----------------------------------------------------------------------------
(* Providers and Platforms: the inductive invariants                        *)

CallPlaces == {"new", "asked", "failed", "done", "listed", "refused", "switched", "unanswered"}

CallRecords ==
  [at : CallPlaces, umo : Umos, cap : Capabilities, prov : ProviderIds \union {"deleted", None}, made : BOOLEAN]

CallTypes == providerCalls \in [Calls -> CallRecords]

ProviderTypes ==
  /\ using \in [Umos \X Capabilities -> ProviderIds]
  /\ callback \in Objects \union {NoCallback} /\ hooks \in Seq(Objects)
  /\ CallTypes
  /\ \A c \in Switches : providerCalls[c].at = "listed" => providerCalls[c].prov \in ProviderIds
  /\ \A c \in Lookups : providerCalls[c].at \in {"new", "asked", "failed", "done"}
  /\ told \in [Objects -> [Switches -> Nat]]
  /\ due \in [Switches -> SUBSET Objects]

ProvidersInv == ProviderTypes /\ EachIsToldOnce

\* A step that tells nobody, and makes no switch known.
LEMMA NobodyIsTold ==
  ASSUME EachIsToldOnce, UNCHANGED <<told, due>>,
         \A c \in Switches : (providerCalls'[c].at = "done") <=> (providerCalls[c].at = "done")
  PROVE  EachIsToldOnce'
BY DEF EachIsToldOnce

LEMMA CallGoesOn ==
  ASSUME ProvidersInv, NEW c \in Calls, NEW to \in CallPlaces, CallGoes(c, to), UNCHANGED <<using, callback, hooks, told, due>>,
         to # "done" \/ c \in Lookups, c \in Switches => providerCalls[c].at # "done",
         c \in Lookups => to \in {"failed", "done"},
         to = "listed" => providerCalls[c].prov \in ProviderIds
  PROVE  ProvidersInv'
<1>t. CallTypes'
  <2>1. [providerCalls[c] EXCEPT !.at = to] \in CallRecords
    BY DEF ProvidersInv, ProviderTypes, CallTypes, CallRecords
  <2>. QED  BY <2>1 DEF ProvidersInv, ProviderTypes, CallTypes, CallGoes
<1>1. ProviderTypes'
  BY <1>t, ProvidersAssumption DEF ProvidersInv, ProviderTypes, CallTypes, CallRecords, CallGoes, Calls
<1>2. \A d \in Switches : (providerCalls'[d].at = "done") <=> (providerCalls[d].at = "done")
  BY ProvidersAssumption DEF ProvidersInv, ProviderTypes, CallTypes, CallRecords, CallGoes, Calls
<1>. QED  BY <1>1, <1>2, NobodyIsTold DEF ProvidersInv

LEMMA HooksAreKept ==
  ASSUME ProvidersInv, \/ \E o \in Objects \union {NoCallback} : SetProviderChangeCallback(o)
                       \/ \E h \in Hooks : RegisterProviderChangeHook(h)
  PROVE  ProvidersInv'
<1>1. UNCHANGED <<using, providerCalls, told, due>>
  BY DEF SetProviderChangeCallback, RegisterProviderChangeHook
<1>2. callback' \in Objects \union {NoCallback} /\ hooks' \in Seq(Objects)
  <2>1. ASSUME NEW o \in Objects \union {NoCallback}, SetProviderChangeCallback(o)
        PROVE  callback' \in Objects \union {NoCallback} /\ hooks' \in Seq(Objects)
    BY <2>1 DEF SetProviderChangeCallback, ProvidersInv, ProviderTypes
  <2>2. ASSUME NEW h \in Hooks, RegisterProviderChangeHook(h)
        PROVE  callback' \in Objects \union {NoCallback} /\ hooks' \in Seq(Objects)
    <3>1. <<h, 1>> \in Objects
      BY DEF Objects
    <3>. QED  BY <2>2, <3>1 DEF RegisterProviderChangeHook, ProvidersInv, ProviderTypes
  <2>. QED  BY <2>1, <2>2
<1>. QED  BY <1>1, <1>2 DEF ProvidersInv, ProviderTypes, CallTypes, CallRecords, EachIsToldOnce

LEMMA LookUpAsks ==
  ASSUME ProvidersInv, NEW c \in Calls, Ask(c)
  PROVE  ProvidersInv'
<1>1. CASE CallGoes(c, "failed")
  <2>1. c \in Lookups /\ c \notin Switches
    BY ProvidersAssumption DEF Ask
  <2>. QED  BY <1>1, <2>1, CallGoesOn DEF Ask, CallPlaces
<1>2. CASE providerCalls' = [providerCalls EXCEPT ![c].at = "asked", ![c].prov = using[<<providerCalls[c].umo, providerCalls[c].cap>>]]
  <2>1. using[<<providerCalls[c].umo, providerCalls[c].cap>>] \in ProviderIds
    <3>1. <<providerCalls[c].umo, providerCalls[c].cap>> \in Umos \X Capabilities
      BY DEF ProvidersInv, ProviderTypes, CallTypes, CallRecords
    <3>. QED  BY <3>1 DEF ProvidersInv, ProviderTypes, CallTypes, CallRecords
  <2>2. c \in Lookups /\ c \notin Switches
    BY ProvidersAssumption DEF Ask
  <2>3. \A d \in Calls : d # c => providerCalls'[d] = providerCalls[d]
    BY <1>2 DEF ProvidersInv, ProviderTypes, CallTypes, CallRecords
  <2>t. CallTypes'
    <3>1. "asked" \in CallPlaces
      BY DEF CallPlaces
    <3>2. providerCalls[c] \in CallRecords /\ <<providerCalls[c].umo, providerCalls[c].cap>> \in Umos \X Capabilities
      BY DEF ProvidersInv, ProviderTypes, CallTypes, CallRecords
    <3>. DEFINE p == using[<<providerCalls[c].umo, providerCalls[c].cap>>]
    <3>3. providerCalls' = [providerCalls EXCEPT ![c] = [[providerCalls[c] EXCEPT !.at = "asked"] EXCEPT !.prov = p]]
      BY <1>2, <3>2 DEF ProvidersInv, ProviderTypes, CallTypes, CallRecords
    <3>. HIDE DEF p
    <3>4. [[providerCalls[c] EXCEPT !.at = "asked"] EXCEPT !.prov = p] \in CallRecords
      BY <2>1, <3>1, <3>2 DEF CallRecords, p
    <3>. QED  BY <3>3, <3>4 DEF ProvidersInv, ProviderTypes, CallTypes, CallRecords
  <2>u. providerCalls'[c].at = "asked"
    BY <1>2 DEF ProvidersInv, ProviderTypes, CallTypes, CallRecords
  <2>4. ProviderTypes'
    BY <2>t, <2>u, <2>2, <2>3 DEF ProvidersInv, ProviderTypes, Ask, Calls
  <2>. QED  BY <2>2, <2>3, <2>4, NobodyIsTold DEF ProvidersInv, Ask, Calls
<1>. QED  BY <1>1, <1>2 DEF Ask

LEMMA HostIsSwitched ==
  ASSUME ProvidersInv, NEW c \in Calls, HostSwitches(c)
  PROVE  ProvidersInv'
<1>1. PICK to \in {"switched", "unanswered"} : providerCalls' = [providerCalls EXCEPT ![c].at = to, ![c].made = TRUE]
  BY DEF HostSwitches
<1>2. c \in Switches /\ c \notin Lookups /\ providerCalls[c].prov \in ProviderIds
  BY ProvidersAssumption DEF HostSwitches, ProvidersInv, ProviderTypes
<1>3. using' \in [Umos \X Capabilities -> ProviderIds]
  BY <1>2 DEF HostSwitches, ProvidersInv, ProviderTypes
<1>t. CallTypes'
  <2>1. to \in CallPlaces
    BY DEF CallPlaces
  <2>2. providerCalls[c] \in CallRecords
    BY DEF ProvidersInv, ProviderTypes, CallTypes, CallRecords
  <2>3. providerCalls' = [providerCalls EXCEPT ![c] = [[providerCalls[c] EXCEPT !.at = to] EXCEPT !.made = TRUE]]
    BY <1>1, <2>2 DEF ProvidersInv, ProviderTypes, CallTypes, CallRecords
  <2>4. [[providerCalls[c] EXCEPT !.at = to] EXCEPT !.made = TRUE] \in CallRecords
    BY <2>1, <2>2 DEF CallRecords
  <2>. QED  BY <2>3, <2>4 DEF ProvidersInv, ProviderTypes, CallTypes, CallRecords
<1>u. providerCalls'[c].at = to /\ \A d \in Calls : d # c => providerCalls'[d] = providerCalls[d]
  BY <1>1 DEF ProvidersInv, ProviderTypes, CallTypes, CallRecords
<1>4. ProviderTypes'
  BY <1>t, <1>u, <1>2, <1>3 DEF HostSwitches, ProvidersInv, ProviderTypes, Calls
<1>5. \A d \in Switches : (providerCalls'[d].at = "done") <=> (providerCalls[d].at = "done")
  BY <1>u, <1>2 DEF HostSwitches, ProvidersInv, ProviderTypes, Calls
<1>. QED  BY <1>4, <1>5, NobodyIsTold DEF ProvidersInv, HostSwitches

LEMMA SwitchIsTold ==
  ASSUME ProvidersInv, NEW c \in Calls, Switched(c)
  PROVE  ProvidersInv'
<1>. DEFINE who == ToSet(hooks) \union ({callback} \ {NoCallback})
<1>1. c \in Switches /\ c \notin Lookups /\ providerCalls[c].at = "switched"
  BY ProvidersAssumption DEF Switched
<1>2. who \subseteq Objects
  BY DEF ProvidersInv, ProviderTypes, CallTypes, CallRecords, ToSet
<1>3. /\ told' = [h \in Objects |-> [told[h] EXCEPT ![c] = IF h \in who THEN @ + 1 ELSE @]]
      /\ due' = [due EXCEPT ![c] = who]
      /\ providerCalls' = [providerCalls EXCEPT ![c].at = "done"]
      /\ UNCHANGED <<using, callback, hooks>>
  BY DEF Switched, Notify, TellHooks, CallGoes
<1>. HIDE DEF who
<1>4. told' \in [Objects -> [Switches -> Nat]]
  BY <1>1, <1>3 DEF ProvidersInv, ProviderTypes, CallTypes, CallRecords
<1>5. due' \in [Switches -> SUBSET Objects]
  BY <1>1, <1>2, <1>3 DEF ProvidersInv, ProviderTypes, CallTypes, CallRecords
<1>t. CallTypes'
  <2>1. "done" \in CallPlaces
    BY DEF CallPlaces
  <2>. QED  BY <1>3, <2>1, ZenonT(60) DEF ProvidersInv, ProviderTypes, CallTypes, CallRecords
<1>u. providerCalls'[c].at = "done" /\ \A d \in Calls : d # c => providerCalls'[d] = providerCalls[d]
  BY <1>3 DEF ProvidersInv, ProviderTypes, CallTypes, CallRecords
<1>6. ProviderTypes'
  BY <1>1, <1>3, <1>4, <1>5, <1>t, <1>u DEF ProvidersInv, ProviderTypes, Calls
<1>7. EachIsToldOnce'
  <2>. SUFFICES ASSUME NEW d \in Switches, NEW h \in Objects
                PROVE  told'[h][d] = IF providerCalls'[d].at = "done" /\ h \in due'[d] THEN 1 ELSE 0
    BY DEF EachIsToldOnce
  <2>1. CASE d = c
    <3>1. told[h][c] = 0
      BY <1>1 DEF ProvidersInv, EachIsToldOnce
    <3>2. told'[h][c] = (IF h \in who THEN told[h][c] + 1 ELSE told[h][c])
      BY <1>1, <1>3 DEF ProvidersInv, ProviderTypes, CallTypes, CallRecords
    <3>3. providerCalls'[c].at = "done" /\ due'[c] = who
      BY <1>1, <1>3 DEF ProvidersInv, ProviderTypes, CallTypes, CallRecords
    <3>. QED  BY <2>1, <3>1, <3>2, <3>3
  <2>2. CASE d # c
    <3>1. told'[h][d] = told[h][d] /\ due'[d] = due[d] /\ providerCalls'[d] = providerCalls[d]
      BY <1>1, <1>3, <2>2 DEF ProvidersInv, ProviderTypes, CallTypes, CallRecords, Calls
    <3>. QED  BY <3>1 DEF ProvidersInv, EachIsToldOnce
  <2>. QED  BY <2>1, <2>2
<1>. QED  BY <1>6, <1>7 DEF ProvidersInv

LEMMA ProvidersStart ==
  ASSUME ProvidersInit
  PROVE  ProvidersInv
<1>1. (CHOOSE p \in ProviderIds : TRUE) \in ProviderIds
  BY ProvidersAssumption
<1>2. ProviderTypes
  BY <1>1, ProvidersAssumption DEF ProviderTypes, CallTypes, CallRecords, CallPlaces, ProvidersInit, Calls
<1>. QED  BY <1>2 DEF ProvidersInit, ProvidersInv, EachIsToldOnce, Calls

LEMMA ProvidersKeep ==
  ASSUME ProvidersInv, [ProvidersNext]_providerVars
  PROVE  ProvidersInv'
<1>1. ASSUME \/ \E o \in Objects \union {NoCallback} : SetProviderChangeCallback(o)
             \/ \E h \in Hooks : RegisterProviderChangeHook(h)
      PROVE  ProvidersInv'
  BY <1>1, HooksAreKept
<1>2. ASSUME NEW c \in Calls, Ask(c)  PROVE ProvidersInv'
  BY <1>2, LookUpAsks
<1>3. ASSUME NEW c \in Calls, LookUpAnswered(c)  PROVE ProvidersInv'
  BY <1>3, CallGoesOn, ProvidersAssumption DEF LookUpAnswered, CallPlaces
<1>4. ASSUME NEW c \in Calls, ProviderListed(c)  PROVE ProvidersInv'
  BY <1>4, CallGoesOn, ProvidersAssumption DEF ProviderListed, CallPlaces
<1>5. ASSUME NEW c \in Calls, HostSwitches(c)  PROVE ProvidersInv'
  BY <1>5, HostIsSwitched
<1>6. ASSUME NEW c \in Calls, HostRefuses(c)  PROVE ProvidersInv'
  BY <1>6, CallGoesOn, ProvidersAssumption DEF HostRefuses, CallPlaces
<1>7. ASSUME NEW c \in Calls, SetRaises(c)  PROVE ProvidersInv'
  <2>1. c \notin Lookups
    BY <1>7 DEF SetRaises, ProvidersInv, ProviderTypes
  <2>. QED  BY <1>7, <2>1, CallGoesOn DEF SetRaises, CallPlaces
<1>8. ASSUME NEW c \in Calls, Switched(c)  PROVE ProvidersInv'
  BY <1>8, SwitchIsTold
<1>9. ASSUME UNCHANGED providerVars  PROVE ProvidersInv'
  BY <1>9 DEF providerVars, ProvidersInv, ProviderTypes, CallTypes, CallRecords, EachIsToldOnce
<1>. QED  BY <1>1, <1>2, <1>3, <1>4, <1>5, <1>6, <1>7, <1>8, <1>9 DEF ProvidersNext

-----------------------------------------------------------------------------
Polls == [Askers -> {"none", "asking", "telling", "over"}]
Registerings == [Askers -> {"idle", "appended", "starting"}]
Tellings == [Askers -> [next : Nat, last : Nat]]
Tolds == [Askers -> [1..MaxRegistered -> Nat]]

PlatformTypes ==
  /\ wsCallbacks \in 0..MaxRegistered
  /\ registering \in Registerings /\ poll \in Polls /\ telling \in Tellings /\ wsTold \in Tolds

\* A poll has called what is before the next callback of those it found.
ToldSoFar ==
  \A a \in Askers :
    /\ telling[a].next >= 1 /\ telling[a].last <= wsCallbacks /\ telling[a].next <= telling[a].last + 1
    /\ poll[a] \in {"none", "asking"} => telling[a].next = 1
    /\ \A i \in 1..MaxRegistered : wsTold[a][i] = IF i < telling[a].next THEN 1 ELSE 0

\* A thread starts one poll at most.
StartsOnce ==
  \A a \in Askers : /\ poll[a] # "none" => pollStarted
                    /\ registering[a] = "starting" => poll[a] = "none"

\* In turn, who is about to start a poll is alone in it, and there is none yet.
StartsAlone ==
  /\ \A a, b \in Askers : registering[a] # "idle" /\ registering[b] # "idle" => a = b
  /\ \A a \in Askers : registering[a] = "starting" => ~pollStarted
  /\ \A a, b \in Askers : poll[a] # "none" /\ poll[b] # "none" => a = b

PlatformsInv == PlatformTypes /\ StartsOnce /\ ToldSoFar /\ (inTurn => StartsAlone)

LEMMA CallbacksAreRegistered ==
  ASSUME PlatformsInv, NEW a \in Askers, Register(a)
  PROVE  PlatformsInv'
<1>1. UNCHANGED <<inTurn, telling, wsTold>> /\ \A b \in Askers : b # a => registering'[b] = registering[b] /\ poll'[b] = poll[b]
  BY DEF Register, AppendCallback, StartWsPoll, PollStarts, Registers, PlatformsInv, PlatformTypes, Registerings, Polls
<1>2. StartsOnce'
  BY DEF Register, AppendCallback, StartWsPoll, PollStarts, Registers, PlatformsInv, PlatformTypes, Registerings, Polls,
    StartsOnce
<1>3. CASE AppendCallback(a)
  <2>1. PlatformTypes'
    BY <1>3, PlatformsAssumption DEF AppendCallback, Registers, PlatformsInv, PlatformTypes, Registerings
  <2>2. ToldSoFar'
    BY <1>3, PlatformsAssumption DEF AppendCallback, PlatformsInv, PlatformTypes, ToldSoFar, Tellings
  <2>3. inTurn => StartsAlone'
    BY <1>3 DEF AppendCallback, Registers, PlatformsInv, PlatformTypes, Registerings, StartsAlone
  <2>. QED  BY <1>1, <1>2, <2>1, <2>2, <2>3 DEF PlatformsInv
<1>4. CASE StartWsPoll(a)
  <2>1. PlatformTypes'
    BY <1>4 DEF StartWsPoll, Registers, PlatformsInv, PlatformTypes, Registerings
  <2>2. ToldSoFar'
    BY <1>4 DEF StartWsPoll, PlatformsInv, ToldSoFar
  <2>3. inTurn => StartsAlone'
    BY <1>4 DEF StartWsPoll, Registers, PlatformsInv, PlatformTypes, Registerings, StartsAlone
  <2>. QED  BY <1>1, <1>2, <2>1, <2>2, <2>3 DEF PlatformsInv
<1>5. CASE PollStarts(a)
  <2>1. PlatformTypes'
    BY <1>5 DEF PollStarts, Registers, PlatformsInv, PlatformTypes, Registerings, Polls
  <2>2. ToldSoFar'
    BY <1>5 DEF PollStarts, PlatformsInv, PlatformTypes, Polls, StartsOnce, ToldSoFar
  <2>3. inTurn => StartsAlone'
    BY <1>1, <1>5 DEF PollStarts, Registers, PlatformsInv, PlatformTypes, Registerings, Polls, StartsOnce, StartsAlone
  <2>. QED  BY <1>1, <1>2, <2>1, <2>2, <2>3 DEF PlatformsInv
<1>. QED  BY <1>3, <1>4, <1>5 DEF Register

LEMMA Counted ==
  ASSUME NEW n, NEW f \in [1..n -> Nat], NEW j \in 1..n
  PROVE  /\ [f EXCEPT ![j] = f[j] + 1] \in [1..n -> Nat]
         /\ \A i \in 1..n : [f EXCEPT ![j] = f[j] + 1][i] = IF i = j THEN f[i] + 1 ELSE f[i]
OBVIOUS

LEMMA PollTells ==
  ASSUME PlatformsInv, NEW a \in Askers, Poll(a)
  PROVE  PlatformsInv'
<1>1. UNCHANGED <<inTurn, wsCallbacks, registering, pollStarted>>
  BY DEF Poll, PollAnswered, PollFails, TellNext, PollEnds
<1>2. /\ poll' \in Polls
      /\ \A b \in Askers : (poll'[b] # "none") = (poll[b] # "none")
  BY DEF Poll, PollAnswered, PollFails, TellNext, PollEnds, PlatformsInv, PlatformTypes, Polls
<1>3. inTurn => StartsAlone'
  BY <1>1, <1>2 DEF PlatformsInv, StartsAlone
<1>5. StartsOnce'
  BY <1>1, <1>2 DEF PlatformsInv, StartsOnce
<1>4. PlatformTypes' /\ ToldSoFar'
  <2>1. CASE TellNext(a)
    <3>1. telling[a].next \in 1..MaxRegistered /\ poll[a] = "telling" /\ UNCHANGED poll
      BY <2>1, PlatformsAssumption DEF TellNext, PlatformsInv, PlatformTypes, Tellings, ToldSoFar
    <3>2. telling' \in Tellings /\ telling'[a].next = telling[a].next + 1 /\ telling'[a].last = telling[a].last
          /\ \A b \in Askers : b # a => telling'[b] = telling[b]
      BY <2>1 DEF TellNext, PlatformsInv, PlatformTypes, Tellings
    <3>3. wsTold' = [wsTold EXCEPT ![a] = [wsTold[a] EXCEPT ![telling[a].next] = wsTold[a][telling[a].next] + 1]]
      BY <2>1 DEF TellNext
    <3>4. wsTold' \in Tolds /\ (\A b \in Askers : b # a => wsTold'[b] = wsTold[b])
          /\ \A i \in 1..MaxRegistered : wsTold'[a][i] = IF i = telling[a].next THEN wsTold[a][i] + 1 ELSE wsTold[a][i]
      <4>. DEFINE mine == [wsTold[a] EXCEPT ![telling[a].next] = wsTold[a][telling[a].next] + 1]
      <4>1. wsTold \in Tolds /\ wsTold[a] \in [1..MaxRegistered -> Nat]
        BY DEF PlatformsInv, PlatformTypes, Tolds
      <4>2. mine \in [1..MaxRegistered -> Nat]
            /\ \A i \in 1..MaxRegistered : mine[i] = IF i = telling[a].next THEN wsTold[a][i] + 1 ELSE wsTold[a][i]
        BY <3>1, <4>1, Counted
      <4>. HIDE DEF mine
      <4>3. wsTold' = [wsTold EXCEPT ![a] = mine]
        BY <3>3 DEF mine
      <4>. QED  BY <4>1, <4>2, <4>3 DEF Tolds
    <3>5. PlatformTypes'
      BY <1>1, <1>2, <3>2, <3>4 DEF PlatformsInv, PlatformTypes
    <3>6. telling[a].next <= telling[a].last /\ telling[a].next \in Nat /\ telling[a].last \in Nat
      BY <2>1 DEF TellNext, PlatformsInv, PlatformTypes, Tellings
    <3>7. ToldSoFar'
      <4> SUFFICES ASSUME NEW b \in Askers
                   PROVE  /\ telling'[b].next >= 1 /\ telling'[b].last <= wsCallbacks
                          /\ telling'[b].next <= telling'[b].last + 1
                          /\ poll[b] \in {"none", "asking"} => telling'[b].next = 1
                          /\ \A i \in 1..MaxRegistered : wsTold'[b][i] = IF i < telling'[b].next THEN 1 ELSE 0
        BY <1>1, <3>1 DEF ToldSoFar
      <4>1. CASE b = a
        <5>1. \A i \in 1..MaxRegistered : wsTold[a][i] = IF i < telling[a].next THEN 1 ELSE 0
          BY DEF PlatformsInv, ToldSoFar
        <5>2. \A i \in 1..MaxRegistered : wsTold'[a][i] = IF i < telling'[a].next THEN 1 ELSE 0
          BY <3>2, <3>4, <3>6, <5>1, PlatformsAssumption
        <5>3. telling[a].next >= 1 /\ telling[a].last <= wsCallbacks
          BY DEF PlatformsInv, ToldSoFar
        <5>4. wsCallbacks \in Nat
          BY PlatformsAssumption DEF PlatformsInv, PlatformTypes
        <5>. QED  BY <3>1, <3>2, <3>6, <4>1, <5>2, <5>3, <5>4
      <4>2. CASE b # a
        BY <3>2, <3>4, <4>2 DEF PlatformsInv, ToldSoFar
      <4>. QED  BY <4>1, <4>2
    <3>. QED  BY <3>5, <3>7
  <2>2. CASE PollAnswered(a)
    <3>1. /\ telling' \in Tellings /\ telling'[a].last = wsCallbacks /\ telling'[a].next = telling[a].next
          /\ poll[a] = "asking" /\ poll'[a] = "telling"
          /\ \A b \in Askers : b # a => telling'[b] = telling[b] /\ poll'[b] = poll[b]
      BY <2>2, PlatformsAssumption DEF PollAnswered, PlatformsInv, PlatformTypes, Tellings, Polls
    <3>2. PlatformTypes' /\ UNCHANGED wsTold
      BY <1>1, <1>2, <2>2, <3>1 DEF PollAnswered, PlatformsInv, PlatformTypes
    <3>3. ToldSoFar'
      BY <1>1, <3>1, <3>2, PlatformsAssumption DEF PlatformsInv, PlatformTypes, ToldSoFar
    <3>. QED  BY <3>2, <3>3
  <2>3. CASE PollFails(a) \/ PollEnds(a)
    BY <1>1, <1>2, <2>3 DEF PollFails, PollEnds, PlatformsInv, PlatformTypes, Polls, ToldSoFar
  <2>. QED  BY <2>1, <2>2, <2>3 DEF Poll
<1>. QED  BY <1>1, <1>3, <1>4, <1>5 DEF PlatformsInv

LEMMA PlatformsKeep ==
  ASSUME PlatformsInv, [PlatformsNext]_platformVars
  PROVE  PlatformsInv'
<1>1. ASSUME UNCHANGED wsVars  PROVE PlatformsInv'
  BY <1>1 DEF PlatformsInv, PlatformTypes, StartsOnce, ToldSoFar, StartsAlone, wsVars
<1>2. ASSUME NEW a \in Askers, Refresh(a) \/ PlatformsListed(a) \/ GetInsts(a)  PROVE PlatformsInv'
  BY <1>1, <1>2 DEF Refresh, PlatformsListed, GetInsts
<1>3. CASE HostConnects \/ UNCHANGED platformVars
  BY <1>1, <1>3 DEF HostConnects, platformVars, wsVars
<1>. QED  BY <1>2, <1>3, CallbacksAreRegistered, PollTells DEF PlatformsNext

\* For any providers, hooks and switches, and any callbacks and tries of a poll: an object
\* that was registered is told once of each switch that was made and of no other, also when
\* one told before it raised; a plugin that registers in turn has one poll of the bot's
\* connection, and a poll calls each callback at most once (provider/manager.py, context.py).
THEOREM EachToldOnce == ProvidersSpec /\ PlatformsSpec => []ToldOnce
<1>1. ProvidersInit => ProvidersInv
  BY ProvidersStart
<1>2. ProvidersInv /\ [ProvidersNext]_providerVars => ProvidersInv'
  BY ProvidersKeep
<1>3. PlatformsInit => PlatformsInv
  BY PlatformsAssumption DEF PlatformsInit, PlatformsInv, PlatformTypes, Registerings, Polls, Tellings, Tolds, StartsOnce,
    ToldSoFar, StartsAlone
<1>4. PlatformsInv /\ [PlatformsNext]_platformVars => PlatformsInv'
  BY PlatformsKeep
<1>5. PlatformsInv => WsToldOnce
  BY PlatformsAssumption DEF PlatformsInv, PlatformTypes, Tellings, ToldSoFar, StartsAlone, WsToldOnce
<1>6. ProvidersInv /\ PlatformsInv => ToldOnce
  BY <1>5 DEF ProvidersInv, ToldOnce
<1>. QED  BY <1>1, <1>2, <1>3, <1>4, <1>6, PTL DEF ProvidersSpec, PlatformsSpec

-----------------------------------------------------------------------------
(* Preferences: the inductive invariant of shared_preferences.py            *)

PrefVals == PrefValues \union {Unwritable, Absent}

PrefTypes ==
  /\ torn = FALSE /\ file \in [Items -> PrefVals]
  /\ prefCache \in [Processes -> [Items -> PrefVals]] /\ loaded \in [Processes -> BOOLEAN]
  /\ op \in [Processes -> [at : {"idle", "persist", "temp"}, on : SUBSET Items, val : PrefVals]]
  /\ prefAcked \in [Items -> PrefVals] /\ tried \in [Items -> SUBSET PrefVals]

\* What a store may hold of an entry.
May(i) == {prefAcked[i]} \union tried[i]

\* A cache that is not there is empty, and one that is holds what an operation under way
\* has put there.
PrefHolds ==
  OneProcess =>
    /\ \A i \in Items : file[i] \in May(i)
    /\ \A p \in Processes : loaded[p] => \A i \in Items : prefCache[p][i] \in May(i)
    /\ \A p \in Processes : ~loaded[p] => prefCache[p] = NoPrefs /\ op[p].at = "idle"
    /\ \A p \in Processes : op[p].at # "idle" => \A i \in op[p].on : prefCache[p][i] = op[p].val

PrefInv == PrefTypes /\ PrefHolds

LEMMA PrefStart ==
  ASSUME PrefInit
  PROVE  PrefInv
BY DEF PrefInit, PrefInv, PrefTypes, PrefHolds, May, NoPrefs, Idle, PrefVals

\* An operation changes its cache, and says what it tries.
LEMMA ChangesKeep ==
  ASSUME PrefInv, NEW p \in Processes, NEW items \in SUBSET Items, NEW v \in PrefVals, NEW c \in [Items -> PrefVals],
         \A i \in Items : c[i] = IF i \in items THEN v ELSE prefCache[p][i],
         PrefBegin(p), PrefChange(p, items, v, c)
  PROVE  PrefInv'
<1>1. /\ prefCache' = [prefCache EXCEPT ![p] = c] /\ loaded' = [loaded EXCEPT ![p] = TRUE]
      /\ op' = [op EXCEPT ![p] = [at |-> "persist", on |-> items, val |-> v]]
      /\ tried' = [i \in Items |-> IF i \in items THEN tried[i] \union {v} ELSE tried[i]]
      /\ UNCHANGED <<file, torn, prefAcked>>
  BY DEF PrefBegin, PrefChange
<1>2. PrefTypes'
  <2>1. tried' \in [Items -> SUBSET PrefVals]
    BY <1>1 DEF PrefInv, PrefTypes
  <2>2. op' \in [Processes -> [at : {"idle", "persist", "temp"}, on : SUBSET Items, val : PrefVals]]
    BY <1>1 DEF PrefInv, PrefTypes
  <2>. QED  BY <1>1, <2>1, <2>2 DEF PrefInv, PrefTypes
<1>3. \A i \in Items : May(i) \subseteq May(i)' /\ (i \in items => v \in May(i)')
  BY <1>1 DEF May
<1>4. PrefHolds'
  <2>. SUFFICES ASSUME OneProcess  PROVE PrefHolds'
    BY DEF PrefHolds, OneProcess
  <2>1. \A q \in Processes : q = p
    BY DEF OneProcess
  <2>2. \A i \in Items : prefCache[p][i] \in May(i)
    <3>1. CASE loaded[p]
      BY <3>1 DEF PrefInv, PrefHolds
    <3>2. CASE ~loaded[p]
      <4>1. file = NoPrefs /\ prefCache[p] = NoPrefs
        BY <3>2 DEF PrefBegin, CanLoad, PrefLoad, PrefInv, PrefTypes, PrefHolds
      <4>. QED  BY <4>1 DEF PrefInv, PrefHolds
    <3>. QED  BY <3>1, <3>2
  <2>3. prefCache'[p] = c /\ loaded'[p] /\ op'[p].on = items /\ op'[p].val = v
    BY <1>1 DEF PrefInv, PrefTypes
  <2>4. \A i \in Items : file'[i] \in May(i)' /\ c[i] \in May(i)'
    BY <1>1, <1>3, <2>2 DEF PrefInv, PrefHolds
  <2>. QED  BY <2>1, <2>3, <2>4 DEF PrefHolds
<1>. QED  BY <1>2, <1>4 DEF PrefInv

LEMMA PutsKeep ==
  ASSUME PrefInv, NEW p \in Processes, NEW i \in Items, NEW v \in PrefVals,
         PutSync(p, i, v) \/ (v = Absent /\ RemoveSync(p, i))
  PROVE  PrefInv'
<1>. DEFINE c == [prefCache[p] EXCEPT ![i] = v]
<1>1. prefCache[p] \in [Items -> PrefVals]
  BY DEF PrefInv, PrefTypes
<1>2. c \in [Items -> PrefVals] /\ \A j \in Items : c[j] = IF j \in {i} THEN v ELSE prefCache[p][j]
  BY <1>1
<1>3. PrefBegin(p) /\ PrefChange(p, {i}, v, c)
  BY DEF PutSync, RemoveSync
<1>. HIDE DEF c
<1>. QED  BY <1>2, <1>3, ChangesKeep

LEMMA ClearsKeep ==
  ASSUME PrefInv, NEW p \in Processes, NEW s, NEW d, ClearSync(p, s, d)
  PROVE  PrefInv'
<1>. DEFINE gone == {i \in Items : i[1] = s /\ i[2] = d /\ prefCache[p][i] # Absent}
            c == [i \in Items |-> IF i \in gone THEN Absent ELSE prefCache[p][i]]
<1>1. prefCache[p] \in [Items -> PrefVals] /\ Absent \in PrefVals
  BY DEF PrefInv, PrefTypes, PrefVals
<1>2. gone \in SUBSET Items /\ c \in [Items -> PrefVals] /\ \A j \in Items : c[j] = IF j \in gone THEN Absent ELSE prefCache[p][j]
  BY <1>1
<1>3. PrefBegin(p) /\ PrefChange(p, gone, Absent, c)
  BY DEF ClearSync
<1>. HIDE DEF c, gone
<1>. QED  BY <1>1, <1>2, <1>3, ChangesKeep

LEMMA ReadsKeep ==
  ASSUME PrefInv, NEW p \in Processes, GetSync(p) \/ LoadRaises(p)
  PROVE  PrefInv'
<1>1. CASE LoadRaises(p)
  BY <1>1 DEF LoadRaises, PrefInv, PrefTypes, PrefHolds, May
<1>2. CASE GetSync(p)
  <2>1. /\ loaded' = [loaded EXCEPT ![p] = TRUE] /\ ~loaded[p] /\ file = NoPrefs
        /\ UNCHANGED <<file, torn, prefCache, op, prefAcked, tried>>
    BY <1>2 DEF GetSync, PrefBegin, CanLoad, PrefLoad, PrefInv, PrefTypes
  <2>2. PrefTypes'
    BY <2>1 DEF PrefInv, PrefTypes
  <2>3. ASSUME OneProcess  PROVE prefCache[p] = file /\ \A q \in Processes : q = p
    BY <2>1, <2>3 DEF PrefInv, PrefHolds, OneProcess
  <2>4. PrefHolds'
    BY <2>1, <2>3 DEF PrefInv, PrefHolds, May, OneProcess, PrefTypes
  <2>. QED  BY <2>2, <2>4 DEF PrefInv
<1>. QED  BY <1>1, <1>2

LEMMA SavesKeep ==
  ASSUME PrefInv, NEW p \in Processes, PrefSave(p) \/ SaveRaises(p) \/ Crash(p)
  PROVE  PrefInv'
<1>1. CASE PrefSave(p)
  <2>1. /\ op[p].at = "persist" /\ op' = [op EXCEPT ![p].at = "temp"]
        /\ UNCHANGED <<file, torn, prefCache, loaded, prefAcked, tried>>
    BY <1>1 DEF PrefSave, PrefGoto
  <2>2. \A q \in Processes : op'[q].on = op[q].on /\ op'[q].val = op[q].val /\ (op'[q].at # "idle" <=> op[q].at # "idle")
    BY <2>1 DEF PrefInv, PrefTypes
  <2>3. op' \in [Processes -> [at : {"idle", "persist", "temp"}, on : SUBSET Items, val : PrefVals]]
    BY <2>1 DEF PrefInv, PrefTypes
  <2>. QED  BY <2>1, <2>2, <2>3 DEF PrefInv, PrefTypes, PrefHolds, May, OneProcess
<1>2. CASE SaveRaises(p)
  BY <1>2 DEF SaveRaises, Unlock, PrefInv, PrefTypes, PrefHolds, May, OneProcess, Idle, PrefVals
<1>3. CASE Crash(p)
  <2>1. /\ op' = [op EXCEPT ![p] = Idle] /\ prefCache' = [prefCache EXCEPT ![p] = NoPrefs]
        /\ loaded' = [loaded EXCEPT ![p] = FALSE] /\ UNCHANGED <<file, torn, prefAcked, tried>>
    BY <1>3 DEF Crash
  <2>2. NoPrefs \in [Items -> PrefVals] /\ Idle \in [at : {"idle", "persist", "temp"}, on : SUBSET Items, val : PrefVals]
    BY DEF NoPrefs, Idle, PrefVals
  <2>3. PrefTypes'
    BY <2>1, <2>2 DEF PrefInv, PrefTypes
  <2>4. Idle.at = "idle"
    BY DEF Idle
  <2>5. PrefHolds'
    <3>. SUFFICES ASSUME OneProcess  PROVE PrefHolds'
      BY DEF PrefHolds, OneProcess
    <3>1. \A q \in Processes : q = p
      BY DEF OneProcess
    <3>2. op'[p].at = "idle" /\ prefCache'[p] = NoPrefs /\ ~loaded'[p]
      BY <2>1, <2>4 DEF PrefInv, PrefTypes
    <3>3. \A i \in Items : file'[i] \in May(i)'
      BY <2>1 DEF PrefInv, PrefHolds, May
    <3>. QED  BY <3>1, <3>2, <3>3 DEF PrefHolds
  <2>. QED  BY <2>3, <2>5 DEF PrefInv
<1>. QED  BY <1>1, <1>2, <1>3

LEMMA ReplaceKeeps ==
  ASSUME PrefInv, NEW p \in Processes, PrefReplace(p)
  PROVE  PrefInv'
<1>1. /\ op[p].at = "temp" /\ file' = prefCache[p] /\ torn' = FALSE /\ op' = [op EXCEPT ![p] = Idle]
      /\ prefAcked' = [i \in Items |-> IF i \in op[p].on THEN op[p].val ELSE prefAcked[i]]
      /\ tried' = [i \in Items |-> IF i \in op[p].on THEN {} ELSE tried[i]]
      /\ UNCHANGED <<prefCache, loaded>>
  BY DEF PrefReplace, Unlock
<1>2. Idle.at = "idle" /\ Idle \in [at : {"idle", "persist", "temp"}, on : SUBSET Items, val : PrefVals]
  BY DEF Idle, PrefVals
<1>3. PrefTypes'
  BY <1>1, <1>2 DEF PrefInv, PrefTypes
<1>4. PrefHolds'
  <2>. SUFFICES ASSUME OneProcess  PROVE PrefHolds'
    BY DEF PrefHolds, OneProcess
  <2>1. \A q \in Processes : q = p
    BY DEF OneProcess
  <2>2. op'[p].at = "idle" /\ loaded[p]
    BY <1>1, <1>2 DEF PrefInv, PrefTypes, PrefHolds
  <2>3. \A i \in Items : prefCache[p][i] \in May(i)'
    BY <1>1, <2>2 DEF PrefInv, PrefHolds, May
  <2>. QED  BY <1>1, <2>1, <2>2, <2>3 DEF PrefHolds
<1>. QED  BY <1>3, <1>4 DEF PrefInv

LEMMA PrefKeeps ==
  ASSUME PrefInv, [PrefNext]_prefVars
  PROVE  PrefInv'
<1>1. CASE UNCHANGED prefVars
  BY <1>1 DEF prefVars, PrefInv, PrefTypes, PrefHolds, May
<1>2. Absent \in PrefVals /\ PrefValues \union {Unwritable} \subseteq PrefVals
  BY DEF PrefVals
<1>3. ASSUME NEW p \in Processes, NEW i \in Items, RemoveSync(p, i) \/ \E v \in PrefValues \union {Unwritable} : PutSync(p, i, v)
      PROVE  PrefInv'
  BY <1>2, <1>3, PutsKeep
<1>. QED  BY <1>1, <1>3, ClearsKeep, ReadsKeep, SavesKeep, ReplaceKeeps DEF PrefNext

LEMMA PrefSafe ==
  ASSUME PrefInv
  PROVE  PreferencesSurvive /\ ReadsAreFresh
BY DEF PrefInv, PrefTypes, PrefHolds, May, PreferencesSurvive, ReadsAreFresh

-----------------------------------------------------------------------------
(* Preferences: the inductive invariant of plugin_kv_store.py               *)

KvVals == KvValues \union {NoValue, Bytes}
KvData == [KvKeys -> KvVals]
KvRecords == [at : {"start", "loaded", "saved", "done", "failed", "killed"}, kind : {"put", "get"},
              key : KvKeys, val : KvVals, data : KvData]

KvTypes ==
  /\ kvFile \in KvData /\ kvAcked \in KvData
  /\ kvLock \in KvCalls \union {"free"} /\ kvCall \in [KvCalls -> KvRecords]

\* The change under way has read the file as it is but for its key; what a change has
\* saved is there until it returns; what json refuses never is.
KvHolds ==
  /\ \A c \in KvCalls : kvLock = c <=> kvCall[c].at \in {"loaded", "saved"}
  /\ \A c \in KvCalls : kvCall[c].at = "loaded" =>
       kvCall[c].kind = "put" /\ kvCall[c].data = [kvFile EXCEPT ![kvCall[c].key] = kvCall[c].val]
  /\ \A c \in KvCalls : kvCall[c].at = "saved" => kvCall[c].kind = "put" /\ kvFile[kvCall[c].key] = kvCall[c].val
  /\ \A k \in KvKeys : kvFile[k] # Bytes

KvInv == KvTypes /\ KvHolds /\ KvSurvives /\ KvReadsCommitted

LEMMA KvStart ==
  ASSUME KvInit
  PROVE  KvInv
<1>1. NoData \in KvData /\ \A k \in KvKeys : NoData[k] = NoValue
  BY DEF NoData, KvData, KvVals
<1>2. PICK kind \in [KvCalls -> {"put", "get"}], key \in [KvCalls -> KvKeys], val \in [KvCalls -> KvValues \union {NoValue, Bytes}] :
        kvCall = [c \in KvCalls |-> [at |-> "start", kind |-> kind[c], key |-> key[c], val |-> val[c], data |-> NoData]]
  BY DEF KvInit
<1>3. kvCall \in [KvCalls -> KvRecords] /\ \A c \in KvCalls : kvCall[c].at = "start"
  BY <1>1, <1>2 DEF KvRecords, KvVals
<1>4. kvFile = NoData /\ kvLock = "free" /\ kvAcked = NoData
  BY DEF KvInit
<1>. QED  BY <1>1, <1>3, <1>4, KvAssumption DEF KvInv, KvTypes, KvHolds, KvSurvives, KvReadsCommitted, NoValue, Bytes

\* A call takes the lock and reads, when nobody has it.
LEMMA KvLoads ==
  ASSUME KvInv, NEW c \in KvCalls, KvLoad(c)
  PROVE  KvInv'
<1>. DEFINE data == [kvFile EXCEPT ![kvCall[c].key] = kvCall[c].val]
<1>1. /\ kvCall[c].at = "start" /\ kvCall[c].kind = "put" /\ kvLock = "free" /\ kvLock' = c
      /\ kvCall' = [kvCall EXCEPT ![c].at = "loaded", ![c].data = data]
      /\ UNCHANGED <<kvFile, kvAcked>>
  BY DEF KvLoad
<1>2. data \in KvData
  BY DEF KvInv, KvTypes, KvData, KvRecords
<1>. HIDE DEF data
<1>3. /\ kvCall' \in [KvCalls -> KvRecords] /\ kvCall'[c].at = "loaded" /\ kvCall'[c].data = data
      /\ kvCall'[c].kind = kvCall[c].kind /\ kvCall'[c].key = kvCall[c].key /\ kvCall'[c].val = kvCall[c].val
      /\ \A d \in KvCalls : d # c => kvCall'[d] = kvCall[d]
  BY <1>1, <1>2 DEF KvInv, KvTypes, KvRecords
<1>4. \A d \in KvCalls : kvCall[d].at \notin {"loaded", "saved"}
  BY <1>1, KvAssumption DEF KvInv, KvHolds
<1>5. KvTypes'
  BY <1>1, <1>3 DEF KvInv, KvTypes
<1>6. KvHolds'
  BY <1>1, <1>3, <1>4 DEF KvInv, KvHolds, data
<1>7. KvSurvives'
  BY <1>1, <1>3, <1>4 DEF KvInv, KvSurvives
<1>8. KvReadsCommitted'
  BY <1>1, <1>3 DEF KvInv, KvReadsCommitted
<1>. QED  BY <1>5, <1>6, <1>7, <1>8 DEF KvInv

LEMMA KvGets ==
  ASSUME KvInv, NEW c \in KvCalls, KvGet(c)
  PROVE  KvInv'
<1>1. /\ kvCall[c].at = "start" /\ kvCall' = [kvCall EXCEPT ![c].at = "done", ![c].data = kvFile]
      /\ UNCHANGED <<kvFile, kvLock, kvAcked>>
  BY DEF KvGet
<1>2. /\ kvCall' \in [KvCalls -> KvRecords] /\ kvCall'[c].at = "done" /\ kvCall'[c].data = kvFile
      /\ \A d \in KvCalls : d # c => kvCall'[d] = kvCall[d]
  BY <1>1 DEF KvInv, KvTypes, KvRecords
<1>3. KvTypes'
  BY <1>1, <1>2 DEF KvInv, KvTypes
<1>4. KvHolds'
  BY <1>1, <1>2 DEF KvInv, KvHolds
<1>5. KvSurvives'
  BY <1>1, <1>2 DEF KvInv, KvSurvives
<1>6. KvReadsCommitted'
  BY <1>1, <1>2 DEF KvInv, KvHolds, KvReadsCommitted
<1>. QED  BY <1>3, <1>4, <1>5, <1>6 DEF KvInv

\* The file of a change that ends well: its key is as it asked, the others as they were.
LEMMA KvSaves ==
  ASSUME KvInv, NEW c \in KvCalls, KvSave(c)
  PROVE  KvInv'
<1>1. /\ kvCall[c].at = "loaded" /\ \A k \in KvKeys : kvCall[c].data[k] # Bytes
      /\ kvFile' = kvCall[c].data /\ kvCall' = [kvCall EXCEPT ![c].at = "saved"]
      /\ UNCHANGED <<kvLock, kvAcked>>
  BY DEF KvSave, KvGoto
<1>2. /\ kvCall' \in [KvCalls -> KvRecords] /\ kvCall'[c].at = "saved"
      /\ kvCall'[c].kind = kvCall[c].kind /\ kvCall'[c].key = kvCall[c].key /\ kvCall'[c].val = kvCall[c].val
      /\ \A d \in KvCalls : d # c => kvCall'[d] = kvCall[d]
  BY <1>1 DEF KvInv, KvTypes, KvRecords
<1>3. /\ kvLock = c /\ kvCall[c].kind = "put" /\ kvCall[c].key \in KvKeys
      /\ kvCall[c].data = [kvFile EXCEPT ![kvCall[c].key] = kvCall[c].val]
      /\ \A d \in KvCalls : d # c => kvCall[d].at \notin {"loaded", "saved"}
  BY <1>1 DEF KvInv, KvHolds, KvTypes, KvRecords
<1>4. kvFile' \in KvData /\ \A k \in KvKeys : kvFile'[k] = IF k = kvCall[c].key THEN kvCall[c].val ELSE kvFile[k]
  BY <1>1, <1>3 DEF KvInv, KvTypes, KvData, KvRecords
<1>5. KvTypes'
  BY <1>1, <1>2, <1>4 DEF KvInv, KvTypes
<1>6. KvHolds'
  BY <1>1, <1>2, <1>3, <1>4 DEF KvInv, KvHolds
<1>7. KvSurvives'
  <2>. SUFFICES ASSUME NEW k \in KvKeys
                PROVE  \/ kvFile'[k] = kvAcked'[k]
                       \/ \E d \in KvCalls : /\ kvCall'[d].at \in {"saved", "killed"} /\ kvCall'[d].kind = "put"
                                             /\ kvCall'[d].key = k /\ kvCall'[d].val = kvFile'[k]
    BY DEF KvSurvives
  <2>1. CASE k = kvCall[c].key
    BY <1>2, <1>3, <1>4, <2>1
  <2>2. CASE k # kvCall[c].key
    <3>1. kvFile'[k] = kvFile[k] /\ kvAcked'[k] = kvAcked[k]
      BY <1>1, <1>4, <2>2
    <3>2. ASSUME NEW d \in KvCalls, kvCall[d].at \in {"saved", "killed"}  PROVE kvCall'[d] = kvCall[d]
      BY <1>1, <1>2, <3>2
    <3>. QED  BY <3>1, <3>2 DEF KvInv, KvSurvives
  <2>. QED  BY <2>1, <2>2
<1>8. KvReadsCommitted'
  BY <1>1, <1>2 DEF KvInv, KvReadsCommitted
<1>. QED  BY <1>5, <1>6, <1>7, <1>8 DEF KvInv

LEMMA KvSaveFails ==
  ASSUME KvInv, NEW c \in KvCalls, KvSaveRaises(c)
  PROVE  KvInv'
<1>1. /\ kvCall[c].at = "loaded" /\ kvCall' = [kvCall EXCEPT ![c].at = "failed"] /\ kvLock' = "free"
      /\ UNCHANGED <<kvFile, kvAcked>>
  BY DEF KvSaveRaises, KvGoto
<1>2. /\ kvCall' \in [KvCalls -> KvRecords] /\ kvCall'[c].at = "failed"
      /\ \A d \in KvCalls : d # c => kvCall'[d] = kvCall[d]
  BY <1>1 DEF KvInv, KvTypes, KvRecords
<1>3. \A d \in KvCalls : d # c => kvCall[d].at \notin {"loaded", "saved"}
  BY <1>1 DEF KvInv, KvHolds
<1>4. KvTypes'
  BY <1>1, <1>2 DEF KvInv, KvTypes
<1>5. KvHolds'
  BY <1>1, <1>2, <1>3, KvAssumption DEF KvInv, KvHolds
<1>6. KvSurvives'
  BY <1>1, <1>2 DEF KvInv, KvSurvives
<1>7. KvReadsCommitted'
  BY <1>1, <1>2 DEF KvInv, KvReadsCommitted
<1>. QED  BY <1>4, <1>5, <1>6, <1>7 DEF KvInv

\* What has been saved is acknowledged.
LEMMA KvReturns ==
  ASSUME KvInv, NEW c \in KvCalls, KvReturn(c)
  PROVE  KvInv'
<1>1. /\ kvCall[c].at = "saved" /\ kvLock' = "free" /\ kvCall' = [kvCall EXCEPT ![c].at = "done"]
      /\ kvAcked' = [kvAcked EXCEPT ![kvCall[c].key] = kvCall[c].val] /\ UNCHANGED kvFile
  BY DEF KvReturn, KvGoto
<1>2. /\ kvCall' \in [KvCalls -> KvRecords] /\ kvCall'[c].at = "done" /\ kvCall'[c].kind = kvCall[c].kind
      /\ \A d \in KvCalls : d # c => kvCall'[d] = kvCall[d]
  BY <1>1 DEF KvInv, KvTypes, KvRecords
<1>3. /\ \A d \in KvCalls : d # c => kvCall[d].at \notin {"loaded", "saved"}
      /\ kvCall[c].kind = "put" /\ kvCall[c].key \in KvKeys /\ kvFile[kvCall[c].key] = kvCall[c].val
  BY <1>1 DEF KvInv, KvHolds, KvTypes, KvRecords
<1>4. kvAcked' \in KvData /\ \A k \in KvKeys : kvAcked'[k] = IF k = kvCall[c].key THEN kvCall[c].val ELSE kvAcked[k]
  BY <1>1, <1>3 DEF KvInv, KvTypes, KvData, KvRecords
<1>5. KvTypes'
  BY <1>1, <1>2, <1>4 DEF KvInv, KvTypes
<1>6. KvHolds'
  BY <1>1, <1>2, <1>3, KvAssumption DEF KvInv, KvHolds
<1>7. KvSurvives'
  BY <1>1, <1>2, <1>3, <1>4 DEF KvInv, KvSurvives
<1>8. KvReadsCommitted'
  BY <1>1, <1>2, <1>3 DEF KvInv, KvReadsCommitted
<1>. QED  BY <1>5, <1>6, <1>7, <1>8 DEF KvInv

LEMMA KvKills ==
  ASSUME KvInv, KvKill
  PROVE  KvInv'
<1>1. /\ kvLock' = "free" /\ UNCHANGED <<kvFile, kvAcked>>
      /\ kvCall' = [c \in KvCalls |-> IF kvCall[c].at \in {"loaded", "saved"} THEN [kvCall[c] EXCEPT !.at = "killed"] ELSE kvCall[c]]
  BY DEF KvKill
<1>2. ASSUME NEW c \in KvCalls
      PROVE  /\ kvCall'[c] \in KvRecords /\ kvCall'[c].kind = kvCall[c].kind /\ kvCall'[c].key = kvCall[c].key
             /\ kvCall'[c].val = kvCall[c].val /\ kvCall'[c].data = kvCall[c].data
             /\ kvCall'[c].at = IF kvCall[c].at \in {"loaded", "saved"} THEN "killed" ELSE kvCall[c].at
  BY <1>1 DEF KvInv, KvTypes, KvRecords
<1>3. KvTypes'
  BY <1>1, <1>2 DEF KvInv, KvTypes
<1>4. KvHolds'
  BY <1>1, <1>2, KvAssumption DEF KvInv, KvHolds
<1>5. KvSurvives'
  BY <1>1, <1>2 DEF KvInv, KvSurvives
<1>6. KvReadsCommitted'
  BY <1>1, <1>2 DEF KvInv, KvReadsCommitted
<1>. QED  BY <1>3, <1>4, <1>5, <1>6 DEF KvInv

LEMMA KvKeeps ==
  ASSUME KvInv, [KvNext]_kvVars
  PROVE  KvInv'
<1>1. CASE UNCHANGED kvVars
  BY <1>1 DEF kvVars, KvInv, KvTypes, KvHolds, KvSurvives, KvReadsCommitted
<1>. QED  BY <1>1, KvLoads, KvGets, KvSaves, KvSaveFails, KvReturns, KvKills DEF KvNext

-----------------------------------------------------------------------------
(* ConfigFile: the inductive invariant                                      *)

ItemSet == {"absent", "item", "bare"} \X Nat
KeyMaps == [FileKeys -> ItemSet]
FileRecords ==
  [at : {"start", "create", "empty", "read", "look", "write", "replace", "fallback", "done"},
   by : ConfigProcesses, op : FileOps, key : FileKeys, value : Nat, read : KeyMaps,
   answer : {"none", "absent", "torn", "there", "missing", "bare", "written", "read", "raised"}]

FileTypes ==
  /\ configFile \in [is : {"absent", "torn", "whole"}, keys : KeyMaps]
  /\ ioLock \in [ConfigProcesses -> FileCalls \union {Free}]
  /\ temps \subseteq FileCalls /\ fileLog \in Seq(FileKeys \X ItemSet)
  /\ fileCall \in [FileCalls -> FileRecords]

AtWork(c) == fileCall[c].at \in {"create", "empty", "read", "look", "write", "replace"}

\* A call answers at its end, and makes its temporary file go with it.
CallsEnd ==
  /\ \A c \in FileCalls : fileCall[c].at # "done" => fileCall[c].answer = "none"
  /\ \A c \in FileCalls : fileCall[c].at = "fallback" => fileCall[c].op = "fallback"
  /\ \A c \in temps : fileCall[c].at \in {"empty", "replace"}

\* The call that is at work has the lock and knows the file as it is.
CallsHold ==
  /\ \A c \in FileCalls : AtWork(c) => ioLock[fileCall[c].by] = c /\ fileCall[c].op \in {"put", "update"}
  /\ \A c \in FileCalls : fileCall[c].at \in {"create", "empty"} => configFile.is = "absent"
  /\ \A c \in FileCalls : fileCall[c].at = "look" => fileCall[c].read = configFile.keys
  /\ \A c \in FileCalls : fileCall[c].at \in {"write", "replace"} =>
       /\ fileCall[c].read = [configFile.keys EXCEPT ![fileCall[c].key] = Item(fileCall[c].value)]
       /\ fileCall[c].op = "put" => configFile.keys[fileCall[c].key] = NoItem

EntriesOf(k) == {i \in DOMAIN fileLog : fileLog[i][1] = k}

\* The file is the log, which has a last entry of every key it has an entry of.
FileHolds ==
  /\ configFile.is # "torn" /\ (configFile.is = "absent" => configFile.keys = NoItems /\ fileLog = <<>>)
  /\ \A k \in FileKeys : configFile.keys[k] = NoItem \/ configFile.keys[k][1] = "item"
  /\ \A k \in FileKeys : configFile.keys[k] = Logged(k)
  /\ \A i \in DOMAIN fileLog : fileLog[i][2][1] = "item"
  /\ \A k \in FileKeys : EntriesOf(k) # {} => \E i \in EntriesOf(k) : \A j \in EntriesOf(k) : j <= i
  /\ NeverTorn /\ PutsOnce

FileInv == FileTypes /\ CallsEnd /\ (OneProcessOnly => CallsHold /\ FileHolds)

LEMMA FileStart ==
  ASSUME FileInit
  PROVE  FileInv
<1>1. NoItems \in KeyMaps /\ \A k \in FileKeys : NoItems[k] = NoItem
  BY DEF NoItems, KeyMaps, ItemSet, NoItem
<1>2. PICK by \in [FileCalls -> ConfigProcesses], operation \in [FileCalls -> FileOps],
           key \in [FileCalls -> FileKeys], value \in [FileCalls -> FileValues] :
        fileCall = [c \in FileCalls |-> [at |-> "start", by |-> by[c], op |-> operation[c], key |-> key[c],
                                         value |-> value[c], read |-> NoItems, answer |-> "none"]]
  BY DEF FileInit
<1>3. fileCall \in [FileCalls -> FileRecords] /\ \A c \in FileCalls : fileCall[c].at = "start" /\ fileCall[c].answer = "none"
  BY <1>1, <1>2, FileAssumption DEF FileRecords
<1>4. /\ configFile = [is |-> "absent", keys |-> NoItems] /\ ioLock = [p \in ConfigProcesses |-> Free]
      /\ temps = {} /\ fileLog = <<>>
  BY DEF FileInit
<1>5. FileTypes
  BY <1>1, <1>3, <1>4 DEF FileTypes
<1>6. CallsEnd /\ CallsHold
  BY <1>3, <1>4 DEF CallsEnd, CallsHold, AtWork
<1>7. \A k : EntriesOf(k) = {} /\ Logged(k) = NoItem
  BY <1>4 DEF EntriesOf, Logged
<1>8. FileHolds
  BY <1>1, <1>3, <1>4, <1>7 DEF FileHolds, NeverTorn, PutsOnce
<1>. QED  BY <1>5, <1>6, <1>8 DEF FileInv

\* What a step of one call leaves of the calls.
OneSteps(c) ==
  /\ fileCall' \in [FileCalls -> FileRecords] /\ \A d \in FileCalls : d # c => fileCall'[d] = fileCall[d]
  /\ fileCall'[c].by = fileCall[c].by /\ fileCall'[c].op = fileCall[c].op
  /\ fileCall'[c].key = fileCall[c].key /\ fileCall'[c].value = fileCall[c].value

LEMMA StillOneProcess ==
  ASSUME NEW c \in FileCalls, OneSteps(c)
  PROVE  OneProcessOnly' = OneProcessOnly
BY DEF OneSteps, OneProcessOnly

LEMMA OthersWait ==
  ASSUME FileInv, OneProcessOnly, NEW c \in FileCalls, AtWork(c), NEW d \in FileCalls, d # c
  PROVE  ~AtWork(d)
BY DEF FileInv, OneProcessOnly, CallsHold

\* A step of a call that leaves the file alone leaves the log what the file is.
LEMMA FileStays ==
  ASSUME FileInv, OneProcessOnly, NEW c \in FileCalls, OneSteps(c), fileCall[c].at # "done",
         fileCall'[c].answer \notin {"torn", "bare"}, UNCHANGED <<configFile, fileLog>>
  PROVE  FileHolds'
<1>1. \A k : Logged(k)' = Logged(k) /\ EntriesOf(k)' = EntriesOf(k)
  BY DEF Logged, EntriesOf
<1>2. NeverTorn'
  BY DEF NeverTorn, OneSteps, FileInv, FileHolds
<1>3. \A d \in FileCalls : fileCall[d].answer = "written" => fileCall'[d] = fileCall[d]
  BY DEF FileInv, CallsEnd, OneSteps
<1>4. PutsOnce'
  BY <1>3 DEF PutsOnce, FileInv, FileHolds
<1>. QED  BY <1>1, <1>2, <1>4 DEF FileInv, FileHolds

\* A call that ends at its start: an update without a file, and a load.
LEMMA EndsAtOnce ==
  ASSUME FileInv, NEW c \in FileCalls, NoConfigFile(c) \/ LoadConfig(c)
  PROVE  FileInv'
<1>1. fileCall[c].at = "start" /\ UNCHANGED <<configFile, ioLock, temps, fileLog>>
  BY DEF NoConfigFile, LoadConfig, FileAt
<1>2. OneSteps(c) /\ fileCall'[c].at = "done" /\ (configFile.is # "torn" => fileCall'[c].answer \notin {"torn", "bare"})
  <2>1. CASE NoConfigFile(c)
    BY <2>1, ZenonT(60) DEF NoConfigFile, Ends, OneSteps, FileInv, FileTypes, FileRecords
  <2>2. CASE LoadConfig(c)
    <3>. DEFINE answer == IF configFile.is = "whole" THEN "read" ELSE configFile.is
    <3>1. /\ answer \in {"absent", "torn", "read"} /\ configFile.keys \in KeyMaps
          /\ configFile.is # "torn" => answer \notin {"torn", "bare"}
      BY DEF FileInv, FileTypes
    <3>2. fileCall' = [fileCall EXCEPT ![c].at = "done", ![c].read = configFile.keys, ![c].answer = answer]
      BY <2>2 DEF LoadConfig
    <3>. HIDE DEF answer
    <3>3. /\ \A d \in FileCalls : d # c => fileCall'[d] = fileCall[d]
          /\ fileCall'[c] = [fileCall[c] EXCEPT !.at = "done", !.read = configFile.keys, !.answer = answer]
          /\ DOMAIN fileCall' = FileCalls
      BY <3>2 DEF FileInv, FileTypes
    <3>4. fileCall[c] \in FileRecords
      BY DEF FileInv, FileTypes
    <3>5. /\ fileCall'[c].at = "done" /\ fileCall'[c].answer = answer /\ fileCall'[c].by = fileCall[c].by
          /\ fileCall'[c].op = fileCall[c].op /\ fileCall'[c].key = fileCall[c].key /\ fileCall'[c].value = fileCall[c].value
          /\ fileCall'[c] \in FileRecords
      BY <3>1, <3>3, <3>4 DEF FileRecords
    <3>6. fileCall' \in [FileCalls -> FileRecords]
      BY <3>2, <3>3, <3>5 DEF FileInv, FileTypes
    <3>. QED  BY <3>1, <3>3, <3>5, <3>6 DEF OneSteps
  <2>. QED  BY <2>1, <2>2
<1>3. FileTypes' /\ CallsEnd'
  BY <1>1, <1>2 DEF OneSteps, FileInv, FileTypes, CallsEnd
<1>4. OneProcessOnly' => CallsHold'
  <2>. SUFFICES ASSUME OneProcessOnly  PROVE CallsHold'
    BY <1>2, StillOneProcess
  <2>1. \A d \in FileCalls : d # c => fileCall'[d] = fileCall[d]
    BY <1>2 DEF OneSteps
  <2>. QED  BY <1>1, <1>2, <2>1 DEF FileInv, CallsHold, AtWork
<1>5. OneProcessOnly' => FileHolds'
  BY <1>1, <1>2, StillOneProcess, FileStays DEF FileInv, FileHolds
<1>. QED  BY <1>3, <1>4, <1>5 DEF FileInv

LEMMA LockKeeps ==
  ASSUME FileInv, NEW c \in FileCalls, Lock(c)
  PROVE  FileInv'
<1>1. /\ fileCall[c].at = "start" /\ fileCall[c].op \in {"put", "update"} /\ ioLock[fileCall[c].by] = Free
      /\ ioLock' = [ioLock EXCEPT ![fileCall[c].by] = c] /\ UNCHANGED <<configFile, temps, fileLog>>
  BY DEF Lock, FileAt
<1>2. /\ OneSteps(c) /\ fileCall'[c].at \in {"create", "read"} /\ (fileCall'[c].at = "create" => configFile.is = "absent")
      /\ fileCall'[c].answer = fileCall[c].answer
  BY ZenonT(60) DEF Lock, FileGoto, OneSteps, FileInv, FileTypes, FileRecords
<1>3. FileTypes' /\ CallsEnd'
  BY <1>1, <1>2, ZenonT(60) DEF OneSteps, FileInv, FileTypes, CallsEnd
<1>4. OneProcessOnly' => CallsHold'
  <2>. SUFFICES ASSUME OneProcessOnly  PROVE CallsHold'
    BY <1>2, StillOneProcess
  <2>1. \A d \in FileCalls : ~AtWork(d)
    BY <1>1, FileAssumption DEF FileInv, CallsHold, OneProcessOnly
  <2>2. \A d \in FileCalls : d # c => ~AtWork(d)'
    BY <1>2, <2>1 DEF OneSteps, AtWork
  <2>3. ioLock'[fileCall'[c].by] = c
    BY <1>1, <1>2 DEF OneSteps, FileInv, FileTypes, FileRecords
  <2>. QED  BY <1>1, <1>2, <2>2, <2>3 DEF OneSteps, CallsHold, AtWork
<1>5. OneProcessOnly' => FileHolds'
  BY <1>1, <1>2, StillOneProcess, FileStays DEF FileInv, CallsEnd
<1>. QED  BY <1>3, <1>4, <1>5 DEF FileInv

\* The holder of the lock goes on without touching the file.
LEMMA HolderGoesOn ==
  ASSUME FileInv, NEW c \in FileCalls, WriteTemp(c) \/ Read(c) \/ ChangeItem(c)
  PROVE  FileInv'
<1>1. AtWork(c) /\ UNCHANGED <<configFile, ioLock, fileLog>> /\ temps \subseteq temps' /\ temps' \subseteq temps \union {c}
  BY DEF WriteTemp, Read, ChangeItem, FileAt, AtWork
<1>2. OneSteps(c) /\ fileCall'[c].answer = fileCall[c].answer /\ AtWork(c)' /\ (c \in temps' => fileCall'[c].at \in {"empty", "replace"})
  <2>1. CASE WriteTemp(c)
    <3>1. PICK to \in {"empty", "replace"} : fileCall' = [fileCall EXCEPT ![c].at = to]
      BY <2>1 DEF WriteTemp, FileGoto
    <3>. QED  BY <3>1 DEF OneSteps, FileInv, FileTypes, FileRecords, AtWork
  <2>2. CASE Read(c)
    <3>1. c \notin temps /\ temps' = temps
      BY <2>2 DEF Read, FileAt, FileInv, CallsEnd
    <3>2. configFile.keys \in KeyMaps /\ fileCall' = [fileCall EXCEPT ![c].at = "look", ![c].read = configFile.keys]
      BY <2>2 DEF Read, FileInv, FileTypes
    <3>3. fileCall[c] \in FileRecords /\ fileCall \in [FileCalls -> FileRecords]
      BY DEF FileInv, FileTypes
    <3>4. [fileCall[c] EXCEPT !.at = "look", !.read = configFile.keys] \in FileRecords
      BY <3>2, <3>3 DEF FileRecords
    <3>5. fileCall' = [fileCall EXCEPT ![c] = [fileCall[c] EXCEPT !.at = "look", !.read = configFile.keys]]
      BY <3>2
    <3>6. OneSteps(c)
      BY <3>3, <3>4, <3>5 DEF OneSteps, FileRecords
    <3>7. fileCall'[c].at = "look" /\ fileCall'[c].answer = fileCall[c].answer
      BY <3>3, <3>5 DEF FileRecords
    <3>. QED  BY <3>1, <3>6, <3>7 DEF AtWork
  <2>3. CASE ChangeItem(c)
    <3>1. [fileCall[c].read EXCEPT ![fileCall[c].key] = Item(fileCall[c].value)] \in KeyMaps
      BY DEF FileInv, FileTypes, FileRecords, KeyMaps, ItemSet, Item
    <3>. QED  BY <2>3, <3>1, ZenonT(60) DEF ChangeItem, FileAt, OneSteps, FileInv, FileTypes, FileRecords, AtWork, CallsEnd
  <2>. QED  BY <2>1, <2>2, <2>3
<1>3. FileTypes' /\ CallsEnd'
  BY <1>1, <1>2 DEF OneSteps, FileInv, FileTypes, CallsEnd, AtWork
<1>4. OneProcessOnly' => CallsHold'
  <2>. SUFFICES ASSUME OneProcessOnly  PROVE CallsHold'
    BY <1>2, StillOneProcess
  <2>1. \A d \in FileCalls : d # c => ~AtWork(d)'
    BY <1>1, <1>2, OthersWait DEF OneSteps, AtWork
  <2>2. ioLock'[fileCall'[c].by] = c /\ fileCall'[c].op \in {"put", "update"}
    BY <1>1, <1>2 DEF OneSteps, FileInv, CallsHold
  <2>3. fileCall'[c].at \in {"create", "empty"} => configFile'.is = "absent"
    BY <1>1 DEF WriteTemp, Read, ChangeItem, FileAt, FileGoto, FileInv, FileTypes, FileRecords, CallsHold
  <2>4. fileCall'[c].at = "look" => fileCall'[c].read = configFile'.keys
    BY <1>1 DEF WriteTemp, Read, ChangeItem, FileAt, FileGoto, FileInv, FileTypes, FileRecords, CallsHold
  <2>5. fileCall'[c].at \in {"write", "replace"} =>
          /\ fileCall'[c].read = [configFile'.keys EXCEPT ![fileCall'[c].key] = Item(fileCall'[c].value)]
          /\ fileCall'[c].op = "put" => configFile'.keys[fileCall'[c].key] = NoItem
    <3>1. CASE WriteTemp(c)
      <4>1. CASE FileAt(c, "create") /\ FileGoto(c, "empty")
        BY <4>1 DEF FileGoto, FileInv, FileTypes, FileRecords
      <4>2. CASE FileAt(c, "write") /\ FileGoto(c, "replace")
        <5>1. fileCall[c].at = "write" /\ fileCall'[c].read = fileCall[c].read
          BY <4>2 DEF FileAt, FileGoto, FileInv, FileTypes, FileRecords
        <5>. QED  BY <1>1, <1>2, <5>1 DEF OneSteps, FileInv, CallsHold
      <4>. QED  BY <3>1, <4>1, <4>2 DEF WriteTemp
    <3>2. CASE Read(c)
      BY <3>2 DEF Read, FileAt, FileInv, FileTypes, FileRecords
    <3>3. CASE ChangeItem(c)
      <4>1. fileCall[c].read = configFile.keys /\ fileCall'[c].read = [fileCall[c].read EXCEPT ![fileCall[c].key] = Item(fileCall[c].value)]
        BY <3>3 DEF ChangeItem, FileAt, FileInv, FileTypes, FileRecords, CallsHold
      <4>2. fileCall[c].op = "put" => configFile.keys[fileCall[c].key] = NoItem
        BY <3>3, <4>1 DEF ChangeItem, Writes
      <4>. QED  BY <1>1, <1>2, <4>1, <4>2 DEF OneSteps
    <3>. QED  BY <3>1, <3>2, <3>3
  <2>. QED  BY <2>1, <2>2, <2>3, <2>4, <2>5 DEF CallsHold, AtWork
<1>5. OneProcessOnly' => FileHolds'
  BY <1>1, <1>2, StillOneProcess, FileStays DEF FileInv, CallsEnd, AtWork
<1>. QED  BY <1>3, <1>4, <1>5 DEF FileInv

\* An empty file is made where there was none.
LEMMA EmptyFileIsMade ==
  ASSUME FileInv, NEW c \in FileCalls, ReplaceByNothing(c)
  PROVE  FileInv'
<1>1. /\ fileCall[c].at = "empty" /\ temps' = temps \ {c} /\ configFile' = [is |-> "whole", keys |-> NoItems]
      /\ fileCall' = [fileCall EXCEPT ![c].at = "read"] /\ UNCHANGED <<ioLock, fileLog>>
  BY DEF ReplaceByNothing, FileAt, FileGoto, Whole
<1>2. OneSteps(c) /\ fileCall'[c].at = "read" /\ fileCall'[c].answer = fileCall[c].answer
  BY <1>1 DEF OneSteps, FileInv, FileTypes, FileRecords
<1>3. NoItems \in KeyMaps
  BY DEF NoItems, KeyMaps, ItemSet, NoItem
<1>4. FileTypes' /\ CallsEnd'
  BY <1>1, <1>2, <1>3 DEF OneSteps, FileInv, FileTypes, CallsEnd
<1>5. OneProcessOnly' => CallsHold' /\ FileHolds'
  <2>. SUFFICES ASSUME OneProcessOnly  PROVE CallsHold' /\ FileHolds'
    BY <1>2, StillOneProcess
  <2>1. \A d \in FileCalls : d # c => ~AtWork(d)'
    BY <1>1, <1>2, OthersWait DEF OneSteps, AtWork
  <2>2. CallsHold'
    BY <1>1, <1>2, <2>1 DEF OneSteps, FileInv, CallsHold, AtWork
  <2>3. configFile'.keys = configFile.keys /\ configFile'.is = "whole"
    BY <1>1 DEF FileInv, CallsHold, FileHolds
  <2>4. \A k : Logged(k)' = Logged(k) /\ EntriesOf(k)' = EntriesOf(k)
    BY <1>1 DEF Logged, EntriesOf
  <2>5. NeverTorn'
    BY <1>2 DEF NeverTorn, OneSteps, FileInv, FileHolds
  <2>6. \A d \in FileCalls : fileCall[d].answer = "written" => fileCall'[d] = fileCall[d]
    BY <1>1, <1>2 DEF FileInv, CallsEnd, OneSteps
  <2>7. PutsOnce'
    BY <1>1, <2>6 DEF PutsOnce, FileInv, FileHolds
  <2>8. FileHolds'
    BY <1>1, <2>3, <2>4, <2>5, <2>7 DEF FileInv, FileHolds
  <2>. QED  BY <2>2, <2>8
<1>. QED  BY <1>4, <1>5 DEF FileInv

\* The holder gives the lock back without a change.
LEMMA GivesBack ==
  ASSUME FileInv, NEW c \in FileCalls, ReadFails(c) \/ NoItemChange(c)
  PROVE  FileInv'
<1>. DEFINE answer == CASE fileCall[c].op = "put" -> "there"
                        [] fileCall[c].read[fileCall[c].key] = NoItem -> "missing"
                        [] OTHER -> "bare"
<1>1. /\ fileCall[c].at \in {"read", "look"} /\ ioLock' = [ioLock EXCEPT ![fileCall[c].by] = Free]
      /\ UNCHANGED <<configFile, temps, fileLog>>
      /\ \/ fileCall[c].at = "read" /\ configFile.is = "torn" /\ Ends(c, "torn")
         \/ fileCall[c].at = "look" /\ ~Writes(c) /\ Ends(c, answer)
  BY DEF ReadFails, NoItemChange, FileAt, GiveBack
<1>2. answer \in {"there", "missing", "bare"}
  OBVIOUS
<1>3. OneProcessOnly /\ fileCall[c].at = "look" /\ ~Writes(c) => answer # "bare"
  <2>. SUFFICES ASSUME OneProcessOnly, fileCall[c].at = "look", ~Writes(c), fileCall[c].op # "put"
                PROVE  fileCall[c].read[fileCall[c].key] = NoItem
    OBVIOUS
  <2>1. fileCall[c].read = configFile.keys /\ fileCall[c].key \in FileKeys
    BY DEF FileInv, FileTypes, FileRecords, CallsHold
  <2>. QED  BY <2>1 DEF Writes, FileInv, FileHolds
<1>. HIDE DEF answer
<1>4. PICK a \in {"there", "missing", "bare", "torn"} : Ends(c, a) /\ (OneProcessOnly => a \notin {"torn", "bare"})
  BY <1>1, <1>2, <1>3 DEF FileInv, FileHolds
<1>5. OneSteps(c) /\ fileCall'[c].at = "done" /\ fileCall'[c].answer = a
  BY <1>4 DEF Ends, OneSteps, FileInv, FileTypes, FileRecords
<1>6. FileTypes' /\ CallsEnd'
  BY <1>1, <1>5, ZenonT(60) DEF OneSteps, FileInv, FileTypes, CallsEnd
<1>7. OneProcessOnly' => CallsHold'
  <2>. SUFFICES ASSUME OneProcessOnly  PROVE CallsHold'
    BY <1>5, StillOneProcess
  <2>1. \A d \in FileCalls : ~AtWork(d)'
    BY <1>1, <1>5, OthersWait DEF OneSteps, AtWork
  <2>. QED  BY <2>1 DEF CallsHold, AtWork
<1>8. OneProcessOnly' => FileHolds'
  BY <1>1, <1>4, <1>5, StillOneProcess, FileStays
<1>. QED  BY <1>6, <1>7, <1>8 DEF FileInv

\* A write that fails: its temporary file goes, and the lock comes back.
LEMMA RaisesAndGivesBack ==
  ASSUME FileInv, NEW c \in FileCalls, WriteFails(c)
  PROVE  FileInv'
<1>1. /\ fileCall[c].at \in {"create", "empty", "write", "replace"} /\ Ends(c, "raised")
      /\ ioLock' = [ioLock EXCEPT ![fileCall[c].by] = Free]
      /\ temps' = temps \ {c} /\ UNCHANGED <<configFile, fileLog>>
  BY DEF WriteFails, FileAt, GiveBack
<1>2. OneSteps(c) /\ fileCall'[c].at = "done" /\ fileCall'[c].answer = "raised"
  BY <1>1 DEF Ends, OneSteps, FileInv, FileTypes, FileRecords
<1>3. FileTypes' /\ CallsEnd'
  BY <1>1, <1>2, ZenonT(60) DEF OneSteps, FileInv, FileTypes, CallsEnd
<1>4. OneProcessOnly' => CallsHold'
  <2>. SUFFICES ASSUME OneProcessOnly  PROVE CallsHold'
    BY <1>2, StillOneProcess
  <2>1. \A d \in FileCalls : ~AtWork(d)'
    BY <1>1, <1>2, OthersWait DEF OneSteps, AtWork
  <2>. QED  BY <2>1 DEF CallsHold, AtWork
<1>5. OneProcessOnly' => FileHolds'
  BY <1>1, <1>2, StillOneProcess, FileStays
<1>. QED  BY <1>3, <1>4, <1>5 DEF FileInv

\* One entry more at the end of the log is the last one of its key.
LEMMA LogGrows ==
  ASSUME FileInv, NEW k0 \in FileKeys, NEW v \in ItemSet, fileLog' = Append(fileLog, <<k0, v>>),
         \A k \in FileKeys : EntriesOf(k) # {} => \E i \in EntriesOf(k) : \A j \in EntriesOf(k) : j <= i
  PROVE  /\ DOMAIN fileLog' = DOMAIN fileLog \union {Len(fileLog) + 1} /\ fileLog'[Len(fileLog) + 1] = <<k0, v>>
         /\ \A i \in DOMAIN fileLog : i \in Nat /\ i <= Len(fileLog) /\ fileLog'[i] = fileLog[i]
         /\ \A k \in FileKeys : /\ EntriesOf(k)' # {} => \E i \in EntriesOf(k)' : \A j \in EntriesOf(k)' : j <= i
                             /\ Logged(k)' = IF k = k0 THEN v ELSE Logged(k)
<1>. DEFINE n == Len(fileLog) + 1
<1>1. fileLog \in Seq(FileKeys \X ItemSet) /\ n \in Nat
  BY DEF FileInv, FileTypes
<1>2. /\ DOMAIN fileLog' = DOMAIN fileLog \union {n} /\ fileLog'[n] = <<k0, v>> /\ n \notin DOMAIN fileLog
      /\ \A i \in DOMAIN fileLog : i \in Nat /\ i < n /\ fileLog'[i] = fileLog[i]
  BY <1>1
<1>. HIDE DEF n
<1>3. \A k : EntriesOf(k)' = IF k = k0 THEN EntriesOf(k) \union {n} ELSE EntriesOf(k)
  BY <1>2 DEF EntriesOf
<1>4. \A k : EntriesOf(k) \subseteq DOMAIN fileLog
  BY DEF EntriesOf
<1>5. ASSUME NEW k \in FileKeys, k # k0
      PROVE  /\ EntriesOf(k)' # {} => \E i \in EntriesOf(k)' : \A j \in EntriesOf(k)' : j <= i
             /\ Logged(k)' = Logged(k)
  <2>. DEFINE IsLast(i) == \A j \in EntriesOf(k) : j <= i
  <2>1. EntriesOf(k)' = EntriesOf(k)
    BY <1>3, <1>5
  <2>2. Logged(k) = IF EntriesOf(k) = {} THEN NoItem ELSE fileLog[CHOOSE i \in EntriesOf(k) : IsLast(i)][2]
    BY DEF Logged, EntriesOf
  <2>3. Logged(k)' = IF EntriesOf(k) = {} THEN NoItem ELSE fileLog'[CHOOSE i \in EntriesOf(k) : IsLast(i)][2]
    <3>. DEFINE E == {i \in DOMAIN fileLog' : fileLog'[i][1] = k}
    <3>1. E = EntriesOf(k)
      BY <2>1 DEF EntriesOf
    <3>2. Logged(k)' = IF E = {} THEN NoItem ELSE fileLog'[CHOOSE i \in E : \A j \in E : j <= i][2]
      BY DEF Logged
    <3>. HIDE DEF E
    <3>. QED  BY <3>1, <3>2
  <2>4. CASE EntriesOf(k) = {}
    BY <2>1, <2>2, <2>3, <2>4
  <2>5. CASE EntriesOf(k) # {}
    <3>1. \E i \in EntriesOf(k) : IsLast(i)
      BY <2>5
    <3>2. (CHOOSE i \in EntriesOf(k) : IsLast(i)) \in EntriesOf(k)
      BY <3>1
    <3>. HIDE DEF IsLast
    <3>3. Logged(k)' = Logged(k)
      BY <1>2, <1>4, <2>2, <2>3, <2>5, <3>2
    <3>. QED  BY <2>1, <3>1, <3>3 DEF IsLast
  <2>. QED  BY <2>4, <2>5
<1>6. /\ \E i \in EntriesOf(k0)' : \A j \in EntriesOf(k0)' : j <= i
      /\ Logged(k0)' = v
  <2>. DEFINE last == CHOOSE i \in EntriesOf(k0)' : \A j \in EntriesOf(k0)' : j <= i
  <2>1. EntriesOf(k0)' = EntriesOf(k0) \union {n} /\ \A j \in EntriesOf(k0)' : j \in Nat /\ j <= n
    BY <1>1, <1>2, <1>3, <1>4
  <2>2. n \in EntriesOf(k0)' /\ \A j \in EntriesOf(k0)' : j <= n
    BY <2>1
  <2>3. last \in EntriesOf(k0)' /\ \A j \in EntriesOf(k0)' : j <= last
    BY <2>2
  <2>. HIDE DEF last
  <2>4. last = n
    BY <1>1, <2>1, <2>2, <2>3
  <2>5. Logged(k0)' = fileLog'[last][2]
    BY <2>2 DEF Logged, EntriesOf, last
  <2>. QED  BY <1>2, <2>2, <2>4, <2>5
<1>7. \A i \in DOMAIN fileLog : i <= Len(fileLog)
  BY <1>1
<1>. QED  BY <1>2, <1>5, <1>6, <1>7 DEF n

\* The call that has changed an item replaces the file and adds to the log.
LEMMA ReplacesFile ==
  ASSUME FileInv, NEW c \in FileCalls, ReplaceFile(c)
  PROVE  FileInv'
<1>. DEFINE key == fileCall[c].key
            v == Item(fileCall[c].value)
<1>1. /\ fileCall[c].at = "replace" /\ temps' = temps \ {c}
      /\ configFile' = [is |-> "whole", keys |-> fileCall[c].read]
      /\ fileLog' = Append(fileLog, <<key, v>>)
      /\ fileCall' = [fileCall EXCEPT ![c].at = "done", ![c].answer = "written"]
      /\ ioLock' = [ioLock EXCEPT ![fileCall[c].by] = Free]
  BY DEF ReplaceFile, FileAt, Whole, Ends, GiveBack
<1>2. OneSteps(c) /\ fileCall'[c].at = "done" /\ fileCall'[c].answer = "written"
  BY <1>1 DEF OneSteps, FileInv, FileTypes, FileRecords
<1>3. key \in FileKeys /\ v \in ItemSet /\ v[1] = "item" /\ fileCall[c].read \in KeyMaps
  BY DEF FileInv, FileTypes, FileRecords, Item, ItemSet
<1>4. FileTypes' /\ CallsEnd'
  <2>1. fileLog' \in Seq(FileKeys \X ItemSet)
    BY <1>1, <1>3 DEF FileInv, FileTypes
  <2>2. ioLock' \in [ConfigProcesses -> FileCalls \union {Free}]
    BY <1>1 DEF FileInv, FileTypes, FileRecords
  <2>3. CallsEnd'
    <3>1. temps' = temps \ {c} /\ temps \subseteq FileCalls
      BY <1>1 DEF FileInv, FileTypes
    <3>2. fileCall'[c].at = "done" /\ \A d \in FileCalls : d # c => fileCall'[d] = fileCall[d]
      BY <1>2 DEF OneSteps
    <3>. QED  BY <3>1, <3>2 DEF FileInv, CallsEnd
  <2>. QED  BY <1>1, <1>2, <1>3, <2>1, <2>2, <2>3 DEF OneSteps, FileInv, FileTypes
<1>5. OneProcessOnly' => CallsHold' /\ FileHolds'
  <2>. SUFFICES ASSUME OneProcessOnly  PROVE CallsHold' /\ FileHolds'
    BY <1>2, StillOneProcess
  <2>0. CallsHold /\ FileHolds
    BY DEF FileInv
  <2>1. \A d \in FileCalls : ~AtWork(d)'
    BY <1>1, <1>2, OthersWait DEF OneSteps, AtWork
  <2>2. CallsHold'
    BY <2>1 DEF CallsHold, AtWork
  <2>3. /\ fileCall[c].read = [configFile.keys EXCEPT ![key] = v]
        /\ fileCall[c].op = "put" => configFile.keys[key] = NoItem
        /\ fileCall[c].op \in {"put", "update"}
    BY <1>1, <2>0 DEF CallsHold, AtWork
  <2>4. configFile'.is = "whole" /\ \A k \in FileKeys : configFile'.keys[k] = IF k = key THEN v ELSE configFile.keys[k]
    BY <1>1, <1>3, <2>3 DEF FileInv, FileTypes, KeyMaps
  <2>. HIDE DEF key, v
  <2>5. /\ DOMAIN fileLog' = DOMAIN fileLog \union {Len(fileLog) + 1} /\ fileLog'[Len(fileLog) + 1] = <<key, v>>
        /\ \A i \in DOMAIN fileLog : i \in Nat /\ i <= Len(fileLog) /\ fileLog'[i] = fileLog[i]
        /\ \A k \in FileKeys : /\ EntriesOf(k)' # {} => \E i \in EntriesOf(k)' : \A j \in EntriesOf(k)' : j <= i
                            /\ Logged(k)' = IF k = key THEN v ELSE Logged(k)
    BY <1>1, <1>3, <2>0, LogGrows DEF FileHolds
  <2>6. NeverTorn'
    BY <1>2, <2>0 DEF NeverTorn, OneSteps, FileHolds
  <2>7. \A d \in FileCalls : fileCall[d].answer = "written" => fileCall'[d] = fileCall[d]
    BY <1>1, <1>2 DEF FileInv, CallsEnd, OneSteps
  <2>8. ASSUME NEW i \in DOMAIN fileLog, fileLog[i][1] = key  PROVE fileCall[c].op = "update"
    <3>1. i \in EntriesOf(key)
      BY <2>8 DEF EntriesOf
    <3>2. Logged(key) # NoItem
      <4>. DEFINE last == CHOOSE j \in EntriesOf(key) : \A k \in EntriesOf(key) : k <= j
      <4>1. last \in EntriesOf(key)
        BY <1>3, <2>0, <3>1 DEF FileHolds
      <4>2. Logged(key) = fileLog[last][2]
        BY <3>1 DEF Logged, EntriesOf
      <4>. HIDE DEF last
      <4>3. fileLog[last][2][1] = "item"
        BY <2>0, <4>1 DEF FileHolds, EntriesOf
      <4>. QED  BY <4>2, <4>3 DEF NoItem
    <3>. QED  BY <1>3, <2>0, <2>3, <3>2 DEF FileHolds
  <2>9. PutsOnce'
    <3>. SUFFICES ASSUME NEW i \in DOMAIN fileLog', NEW j \in DOMAIN fileLog', i < j, fileLog'[i][1] = fileLog'[j][1]
                  PROVE  \E d \in FileCalls : /\ fileCall'[d].op = "update" /\ fileCall'[d].answer = "written"
                                             /\ fileLog'[j] = <<fileCall'[d].key, Item(fileCall'[d].value)>>
      BY DEF PutsOnce
    <3>0. Len(fileLog) \in Nat
      BY DEF FileInv, FileTypes
    <3>1. CASE j = Len(fileLog) + 1
      <4>1. i \in DOMAIN fileLog /\ fileLog[i][1] = key
        BY <2>5, <3>1
      <4>. QED  BY <1>2, <2>5, <2>8, <3>1, <4>1 DEF OneSteps, key, v
    <3>2. CASE j # Len(fileLog) + 1
      <4>1. j \in DOMAIN fileLog /\ i \in DOMAIN fileLog
        BY <2>5, <3>0, <3>2
      <4>. QED  BY <2>0, <2>5, <2>7, <4>1 DEF FileHolds, PutsOnce
    <3>. QED  BY <3>1, <3>2
  <2>10. FileHolds'
    BY <1>3, <2>0, <2>4, <2>5, <2>6, <2>9 DEF FileHolds
  <2>. QED  BY <2>2, <2>10
<1>. QED  BY <1>4, <1>5 DEF FileInv

\* A call that falls back is not alone in the sense of the promise: types and ends only.
LEMMA FallsBack ==
  ASSUME FileInv, NEW c \in FileCalls, OpenFallback(c) \/ WriteFallback(c) \/ FallbackFails(c)
  PROVE  FileInv'
<1>1. fileCall[c].op = "fallback" /\ fileCall[c].at \in {"start", "fallback"} /\ UNCHANGED <<ioLock, temps>>
  BY DEF OpenFallback, WriteFallback, FallbackFails, FileAt, FileInv, CallsEnd
<1>2. /\ OneSteps(c)
      /\ \/ fileCall'[c].at = "fallback" /\ fileCall'[c].answer = fileCall[c].answer
         \/ fileCall'[c].at = "done"
  <2>1. CASE OpenFallback(c)
    BY <2>1 DEF OpenFallback, FileGoto, OneSteps, FileInv, FileTypes, FileRecords
  <2>2. CASE WriteFallback(c)
    <3>1. fileCall' = [fileCall EXCEPT ![c].at = "done", ![c].answer = "written"]
      BY <2>2 DEF WriteFallback, Ends
    <3>2. fileCall[c] \in FileRecords /\ fileCall \in [FileCalls -> FileRecords]
      BY DEF FileInv, FileTypes
    <3>3. [fileCall[c] EXCEPT !.at = "done", !.answer = "written"] \in FileRecords
      BY <3>2 DEF FileRecords
    <3>4. fileCall' = [fileCall EXCEPT ![c] = [fileCall[c] EXCEPT !.at = "done", !.answer = "written"]]
      BY <3>1
    <3>5. fileCall'[c].at = "done"
      BY <3>2, <3>4 DEF FileRecords
    <3>. QED  BY <3>2, <3>3, <3>4, <3>5 DEF OneSteps, FileRecords
  <2>3. CASE FallbackFails(c)
    <3>1. fileCall' = [fileCall EXCEPT ![c].at = "done", ![c].answer = "raised"]
      BY <2>3 DEF FallbackFails, Ends
    <3>. QED  BY <3>1 DEF OneSteps, FileInv, FileTypes, FileRecords
  <2>. QED  BY <2>1, <2>2, <2>3
<1>3. ~OneProcessOnly'
  BY <1>1, <1>2 DEF OneProcessOnly, OneSteps
<1>4. CallsEnd'
  <2>1. c \notin temps /\ temps \subseteq FileCalls
    BY <1>1 DEF FileInv, FileTypes, CallsEnd
  <2>2. fileCall'[c].op = "fallback" /\ (fileCall'[c].at # "done" => fileCall'[c].answer = "none")
    BY <1>1, <1>2 DEF OneSteps, FileInv, CallsEnd
  <2>3. \A d \in FileCalls : d # c => fileCall'[d] = fileCall[d]
    BY <1>2 DEF OneSteps
  <2>. QED  BY <1>1, <2>1, <2>2, <2>3 DEF FileInv, CallsEnd
<1>5. configFile' \in [is : {"absent", "torn", "whole"}, keys : KeyMaps] /\ fileLog' \in Seq(FileKeys \X ItemSet)
  <2>1. NoItems \in KeyMaps
    BY DEF NoItems, KeyMaps, ItemSet, NoItem
  <2>2. fileCall[c].key \in FileKeys /\ Bare(fileCall[c].value) \in ItemSet
    BY DEF FileInv, FileTypes, FileRecords, Bare, ItemSet
  <2>3. [NoItems EXCEPT ![fileCall[c].key] = Bare(fileCall[c].value)] \in KeyMaps
    BY <2>1, <2>2 DEF KeyMaps
  <2>4. CASE OpenFallback(c)
    BY <2>1, <2>4 DEF OpenFallback, FileInv, FileTypes
  <2>5. CASE WriteFallback(c)
    <3>1. /\ configFile' = [is |-> "whole", keys |-> [NoItems EXCEPT ![fileCall[c].key] = Bare(fileCall[c].value)]]
          /\ fileLog' = <<<<fileCall[c].key, Bare(fileCall[c].value)>>>>
      BY <2>5 DEF WriteFallback, Whole
    <3>. QED  BY <2>2, <2>3, <3>1
  <2>6. CASE FallbackFails(c)
    BY <2>6 DEF FallbackFails, FileInv, FileTypes
  <2>. QED  BY <2>4, <2>5, <2>6
<1>. QED  BY <1>1, <1>2, <1>3, <1>4, <1>5 DEF OneSteps, FileInv, FileTypes

LEMMA FileKeeps ==
  ASSUME FileInv, [FileNext]_fileVars
  PROVE  FileInv'
<1>1. ASSUME UNCHANGED <<configFile, ioLock, fileCall, temps, fileLog>>  PROVE FileInv'
  <2>1. \A k : Logged(k)' = Logged(k) /\ EntriesOf(k)' = EntriesOf(k)
    BY <1>1 DEF Logged, EntriesOf
  <2>2. NeverTorn' = NeverTorn /\ PutsOnce' = PutsOnce /\ OneProcessOnly' = OneProcessOnly
    BY <1>1 DEF NeverTorn, PutsOnce, OneProcessOnly
  <2>3. FileTypes' = FileTypes /\ CallsEnd' = CallsEnd /\ CallsHold' = CallsHold
    BY <1>1 DEF FileTypes, CallsEnd, CallsHold, AtWork
  <2>4. FileHolds' = FileHolds
    BY <1>1, <2>1, <2>2 DEF FileHolds
  <2>. QED  BY <2>2, <2>3, <2>4 DEF FileInv
<1>2. CASE UNCHANGED fileVars \/ \E p \in ConfigProcesses : Die(p)
  BY <1>1, <1>2 DEF fileVars, Die
<1>. QED  BY <1>2, EndsAtOnce, LockKeeps, HolderGoesOn, EmptyFileIsMade, GivesBack, RaisesAndGivesBack, ReplacesFile, FallsBack DEF FileNext

LEMMA FileSafe ==
  ASSUME FileInv
  PROVE  (OneProcessOnly => FileIsTheLog /\ NeverTorn /\ PutsOnce) /\ TempsAreRemoved
BY DEF FileInv, CallsEnd, FileHolds, FileIsTheLog, TempsAreRemoved

\* All three stores, each with its own steps: the files are whole and hold what the calls
\* that returned have stored, whatever dies or raises in between, and no temporary file is
\* left; of the preferences and the configuration while one process writes them.  A call on
\* the preferences that answers is answered as the file is or younger.  That it answers after
\* a restart is not said: then every operation raises (shared_preferences.py:139).
THEOREM FilesSafe == PrefSpec /\ KvSpec /\ FileSpec => []FilesSurvive
<1>1. PrefInit => PrefInv
  BY PrefStart
<1>2. PrefInv /\ [PrefNext]_prefVars => PrefInv'
  BY PrefKeeps
<1>3. KvInit => KvInv
  BY KvStart
<1>4. KvInv /\ [KvNext]_kvVars => KvInv'
  BY KvKeeps
<1>5. FileInit => FileInv
  BY FileStart
<1>6. FileInv /\ [FileNext]_fileVars => FileInv'
  BY FileKeeps
<1>7. PrefInv => PreferencesSurvive /\ ReadsAreFresh
  BY PrefSafe
<1>8. FileInv => (OneProcessOnly => FileIsTheLog /\ NeverTorn /\ PutsOnce) /\ TempsAreRemoved
  BY FileSafe
<1>9. PrefInv /\ KvInv /\ FileInv => FilesSurvive
  BY <1>7, <1>8 DEF KvInv, FilesSurvive
<1>. QED  BY <1>1, <1>2, <1>3, <1>4, <1>5, <1>6, <1>9, PTL DEF PrefSpec, KvSpec, FileSpec

-----------------------------------------------------------------------------
(* MessageHistory: the inductive invariant                                  *)

\* What a list of records is: the dates rise and are of the past.
IsList(rs) == rs \in Seq(ToSet(rs)) /\ \A i \in DOMAIN rs : rs[i].born \in Nat
InOrder(rs) == \A i, j \in DOMAIN rs : i < j => rs[i].born < rs[j].born
Dates(rs) == {rs[i].born : i \in DOMAIN rs}

OneManager == \A m, n \in Managers : m = n

HistoryInv ==
  /\ born \in Nat /\ isLoaded \in [Managers -> BOOLEAN] /\ known \in [Chats -> SUBSET Nat]
  /\ historyFile = [c \in Chats |-> historyFile[c]] /\ records = [m \in Managers |-> records[m]]
  /\ \A c \in Chats :
       /\ IsList(historyFile[c]) /\ InOrder(historyFile[c]) /\ Len(historyFile[c]) <= MaxMessages
       /\ Dates(historyFile[c]) = known[c] /\ \A b \in known[c] : b < born
  /\ \A m \in Managers : isLoaded[m] => records[m] = historyFile

\* The places of a part of a list have ranks, which rise from one to their number.
LEMMA RanksRise ==
  ASSUME NEW n \in Nat, NEW S \in SUBSET (1..n)
  PROVE  /\ IsFiniteSet(S) /\ Cardinality(S) \in Nat /\ Cardinality(S) <= n
         /\ \A i \in S : Rank(S, i) \in 1..Cardinality(S)
         /\ \A i, j \in S : i < j => Rank(S, i) < Rank(S, j)
<1>1. IsFiniteSet(1..n) /\ Cardinality(1..n) = n
  BY FS_Interval
<1>2. IsFiniteSet(S) /\ Cardinality(S) \in Nat /\ Cardinality(S) <= n
  BY <1>1, FS_Subset, FS_CardinalityType
<1>. DEFINE UpTo(i) == {j \in S : j <= i}
<1>3. \A i \in S : IsFiniteSet(UpTo(i)) /\ Cardinality(UpTo(i)) \in 1..Cardinality(S)
  <2>. SUFFICES ASSUME NEW i \in S  PROVE IsFiniteSet(UpTo(i)) /\ Cardinality(UpTo(i)) \in 1..Cardinality(S)
    OBVIOUS
  <2>1. i \in UpTo(i) /\ UpTo(i) \in SUBSET S
    OBVIOUS
  <2>. HIDE DEF UpTo
  <2>2. IsFiniteSet(UpTo(i)) /\ Cardinality(UpTo(i)) <= Cardinality(S)
    BY <1>2, <2>1, FS_Subset
  <2>3. Cardinality(UpTo(i)) \in Nat /\ Cardinality(UpTo(i)) # 0
    BY <2>1, <2>2, FS_CardinalityType, FS_EmptySet
  <2>. QED  BY <1>2, <2>2, <2>3
<1>4. ASSUME NEW i \in S, NEW j \in S, i < j  PROVE Cardinality(UpTo(i)) < Cardinality(UpTo(j))
  <2>0. S \subseteq Nat /\ i \in Nat /\ j \in Nat
    OBVIOUS
  <2>a. \A x \in S : x \in Nat /\ (x <= i => x <= j /\ x # j)
    BY <1>4, <2>0
  <2>b. j <= j
    BY <2>0
  <2>1. UpTo(i) \in SUBSET (UpTo(j) \ {j}) /\ j \in UpTo(j)
    BY <2>a, <2>b
  <2>. HIDE DEF UpTo
  <2>2. IsFiniteSet(UpTo(j) \ {j}) /\ Cardinality(UpTo(j) \ {j}) = Cardinality(UpTo(j)) - 1
    BY <1>3, <2>1, FS_RemoveElement
  <2>3. Cardinality(UpTo(i)) <= Cardinality(UpTo(j) \ {j})
    BY <2>1, <2>2, FS_Subset
  <2>. QED  BY <1>3, <2>2, <2>3
<1>. QED  BY <1>2, <1>3, <1>4 DEF Rank

\* So there is one place of each rank.
LEMMA PlacesOfRanks ==
  ASSUME NEW n \in Nat, NEW S \in SUBSET (1..n), NEW at, at = [k \in 1..Cardinality(S) |-> CHOOSE i \in S : Rank(S, i) = k]
  PROVE  /\ \A k \in 1..Cardinality(S) : at[k] \in S /\ Rank(S, at[k]) = k
         /\ \A i \in S : at[Rank(S, i)] = i
         /\ \A k, l \in 1..Cardinality(S) : k < l => at[k] < at[l]
<1>. DEFINE C == 1..Cardinality(S)
            r == [i \in S |-> Rank(S, i)]
<1>0. /\ IsFiniteSet(S) /\ Cardinality(S) \in Nat /\ S \subseteq Nat
      /\ \A i \in S : Rank(S, i) \in C
      /\ \A i, j \in S : i < j => Rank(S, i) < Rank(S, j)
  BY RanksRise, SMTT(30)
<1>1. IsFiniteSet(C) /\ Cardinality(C) = Cardinality(S)
  BY <1>0, FS_Interval
<1>2. r \in [S -> C] /\ \A i, j \in S : i # j => r[i] # r[j]
  <2>1. \A i, j \in S : i # j => i < j \/ j < i
    BY <1>0
  <2>2. \A i, j \in S : i # j => Rank(S, i) # Rank(S, j)
    <3>1. \A i, j \in S : Rank(S, i) \in Nat /\ Rank(S, j) \in Nat
      BY <1>0
    <3>. QED  BY <1>0, <2>1, <3>1
  <2>. QED  BY <1>0, <2>2
<1>3. r \in Injection(S, C)
  BY <1>2 DEF Injection, IsInjective
<1>4. r \in Surjection(S, C)
  <2>. HIDE DEF r, C
  <2>. QED  BY <1>1, <1>3, FS_Injection
<1>5. \A k \in C : \E i \in S : Rank(S, i) = k
  BY <1>4 DEF Surjection
<1>6. \A k \in C : at[k] \in S /\ Rank(S, at[k]) = k
  BY <1>5
<1>7. \A i \in S : at[Rank(S, i)] = i
  BY <1>0, <1>2, <1>6
<1>8. ASSUME NEW k \in C, NEW l \in C, k < l  PROVE at[k] < at[l]
  <2>1. at[k] \in Nat /\ at[l] \in Nat /\ (at[k] = at[l] \/ at[l] < at[k] \/ at[k] < at[l])
    <3>1. at[k] \in S /\ at[l] \in S
      BY <1>6
    <3>2. \A x, y \in Nat : x = y \/ y < x \/ x < y
      OBVIOUS
    <3>. QED  BY <1>0, <3>1, <3>2
  <2>2. Rank(S, at[k]) = k /\ Rank(S, at[l]) = l /\ at[k] \in S /\ at[l] \in S
    BY <1>6
  <2>3. k \in Nat /\ l \in Nat /\ ~ (l < k) /\ k # l
    BY <1>8
  <2>4. at[k] # at[l] /\ ~ (at[l] < at[k])
    BY <1>0, <2>2, <2>3
  <2>. QED  BY <2>1, <2>4
<1>. QED  BY <1>6, <1>7, <1>8

\* A part of a list is a list, in the same order.
LEMMA PartIsList ==
  ASSUME NEW rs, IsList(rs), InOrder(rs), NEW S \in SUBSET DOMAIN rs
  PROVE  LET part == Those(rs, S)
         IN  /\ IsList(part) /\ InOrder(part) /\ Len(part) <= Len(rs)
             /\ ToSet(part) = {rs[i] : i \in S} /\ Dates(part) = {rs[i].born : i \in S}
<1>. DEFINE part == Those(rs, S)
            at == [k \in 1..Cardinality(S) |-> CHOOSE i \in S : Rank(S, i) = k]
<1>1. Len(rs) \in Nat /\ DOMAIN rs = 1..Len(rs)
  BY DEF IsList
<1>2. Cardinality(S) \in Nat /\ Cardinality(S) <= Len(rs)
  BY <1>1, RanksRise
<1>3. /\ \A k \in 1..Cardinality(S) : at[k] \in S
      /\ \A i \in S : Rank(S, i) \in 1..Cardinality(S) /\ at[Rank(S, i)] = i
      /\ \A k, l \in 1..Cardinality(S) : k < l => at[k] < at[l]
  <2>. HIDE DEF at
  <2>. QED  BY <1>1, RanksRise, PlacesOfRanks DEF at
<1>4. DOMAIN part = 1..Cardinality(S) /\ \A k \in DOMAIN part : part[k] = rs[at[k]]
  BY DEF Those
<1>5. part = [k \in 1..Cardinality(S) |-> part[k]]
  BY DEF Those
<1>. HIDE DEF part, at
<1>6. ToSet(part) = {rs[i] : i \in S} /\ Dates(part) = {rs[i].born : i \in S}
  <2>1. {part[k] : k \in DOMAIN part} = {rs[i] : i \in S}
    BY <1>3, <1>4
  <2>2. {part[k].born : k \in DOMAIN part} = {rs[i].born : i \in S}
    BY <1>3, <1>4
  <2>. QED  BY <2>1, <2>2 DEF ToSet, Dates
<1>7. part \in Seq(ToSet(part)) /\ Len(part) = Cardinality(S)
  <2>1. \A k \in 1..Cardinality(S) : part[k] \in ToSet(part)
    BY <1>4 DEF ToSet
  <2>2. part \in [1..Cardinality(S) -> ToSet(part)]
    BY <1>5, <2>1
  <2>. QED  BY <1>2, <2>2, SeqDef
<1>8. InOrder(part) /\ \A k \in DOMAIN part : part[k].born \in Nat
  BY <1>3, <1>4 DEF InOrder, IsList
<1>. QED  BY <1>2, <1>6, <1>7, <1>8 DEF IsList, part

\* As many dates as records.
LEMMA DatesDiffer ==
  ASSUME NEW rs, IsList(rs), InOrder(rs)
  PROVE  /\ Len(rs) \in Nat /\ DOMAIN rs = 1..Len(rs) /\ Dates(rs) \subseteq Nat
         /\ IsFiniteSet(Dates(rs)) /\ Cardinality(Dates(rs)) = Len(rs)
         /\ \A i, j \in DOMAIN rs : i # j => rs[i].born # rs[j].born
<1>. DEFINE f == [i \in 1..Len(rs) |-> rs[i].born]
<1>1. Len(rs) \in Nat /\ DOMAIN rs = 1..Len(rs) /\ Dates(rs) \subseteq Nat
  BY DEF IsList, Dates
<1>2. \A i, j \in DOMAIN rs : i # j => rs[i].born # rs[j].born
  <2>. SUFFICES ASSUME NEW i \in DOMAIN rs, NEW j \in DOMAIN rs, i # j  PROVE rs[i].born # rs[j].born
    OBVIOUS
  <2>1. i < j \/ j < i
    BY <1>1
  <2>2. rs[i].born < rs[j].born \/ rs[j].born < rs[i].born
    BY <2>1 DEF InOrder
  <2>3. rs[i].born \in Nat /\ rs[j].born \in Nat
    BY DEF IsList
  <2>. QED  BY <2>2, <2>3
<1>3. f \in [1..Len(rs) -> Dates(rs)] /\ \A d \in Dates(rs) : \E i \in 1..Len(rs) : f[i] = d
  BY <1>1 DEF Dates
<1>4. f \in Surjection(1..Len(rs), Dates(rs)) /\ f \in Injection(1..Len(rs), Dates(rs))
  BY <1>1, <1>2, <1>3 DEF Surjection, Injection, IsInjective
<1>5. IsFiniteSet(1..Len(rs)) /\ Cardinality(1..Len(rs)) = Len(rs)
  BY <1>1, FS_Interval
<1>6. IsFiniteSet(Dates(rs)) /\ Cardinality(Dates(rs)) = Len(rs)
  <2>. HIDE DEF f
  <2>. QED  BY <1>4, <1>5, FS_Surjection
<1>. QED  BY <1>1, <1>2, <1>6

\* The newest of the dates are those of the records that are left.
LEMMA TrimKeepsNewest ==
  ASSUME NEW rs, IsList(rs), InOrder(rs), Len(rs) <= MaxMessages + 1
  PROVE  /\ IsList(Trimmed(rs)) /\ InOrder(Trimmed(rs)) /\ Len(Trimmed(rs)) <= MaxMessages
         /\ Dates(Trimmed(rs)) = Newest(Dates(rs))
<1>. DEFINE D == Dates(rs)
            N == Len(rs)
            Later(b) == {d \in D : d > b}
<1>1. /\ N \in Nat /\ DOMAIN rs = 1..N /\ D \subseteq Nat /\ IsFiniteSet(D) /\ Cardinality(D) = N
      /\ \A i, j \in DOMAIN rs : i # j => rs[i].born # rs[j].born
  BY DatesDiffer
<1>2. MaxMessages \in Nat /\ MaxMessages >= 1
  BY HistoryAssumption
<1>3. \A i \in 1..N : rs[i].born \in D /\ rs[i].born \in Nat
  BY <1>1 DEF Dates
<1>4. CASE N <= MaxMessages
  <2>1. Trimmed(rs) = rs
    BY <1>1, <1>2, <1>4 DEF Trimmed
  <2>2. ASSUME NEW b \in D  PROVE Cardinality(Later(b)) < MaxMessages
    <3>1. Later(b) \in SUBSET (D \ {b})
      BY <1>1
    <3>2. IsFiniteSet(D \ {b}) /\ Cardinality(D \ {b}) = N - 1
      BY <1>1, <2>2, FS_RemoveElement
    <3>. HIDE DEF D, Later
    <3>3. IsFiniteSet(Later(b)) /\ Cardinality(Later(b)) <= N - 1
      BY <3>1, <3>2, FS_Subset
    <3>4. Cardinality(Later(b)) \in Nat
      BY <3>3, FS_CardinalityType
    <3>. QED  BY <1>1, <1>2, <1>4, <3>3, <3>4
  <2>3. Newest(D) = D
    BY <2>2 DEF Newest
  <2>. QED  BY <1>4, <2>1, <2>3
<1>5. CASE N = MaxMessages + 1
  <2>. DEFINE t == Trimmed(rs)
              o == rs[1].born
  <2>1. t = SubSeq(rs, 2, N) /\ N >= 2 /\ N - MaxMessages = 1
    BY <1>1, <1>2, <1>5 DEF Trimmed
  <2>2. rs \in Seq(ToSet(rs))
    BY DEF IsList
  <2>3. t \in Seq(ToSet(rs)) /\ Len(t) = N - 1 /\ \A k \in 1..(N - 1) : t[k] = rs[k + 1]
    BY <1>1, <2>1, <2>2
  <2>. HIDE DEF t
  <2>4. DOMAIN t = 1..(N - 1) /\ t = [k \in 1..(N - 1) |-> t[k]]
    BY <1>1, <2>3
  <2>5. t \in Seq(ToSet(t))
    <3>1. \A k \in 1..(N - 1) : t[k] \in ToSet(t)
      BY <2>4 DEF ToSet
    <3>2. N - 1 \in Nat
      BY <1>1, <2>1
    <3>. HIDE DEF N
    <3>3. t \in [1..(N - 1) -> ToSet(t)]
      BY <2>4, <3>1
    <3>. QED  BY <3>2, <3>3, SeqDef
  <2>6. \A k \in 1..(N - 1) : k + 1 \in 1..N
    BY <1>1
  <2>7. IsList(t) /\ InOrder(t) /\ Len(t) <= MaxMessages
    <3>1. \A k \in DOMAIN t : t[k].born \in Nat
      BY <1>3, <2>3, <2>4, <2>6
    <3>2. \A k, l \in DOMAIN t : k < l => t[k].born < t[l].born
      BY <1>1, <2>3, <2>4, <2>6 DEF InOrder
    <3>. QED  BY <1>2, <1>5, <2>3, <2>5, <3>1, <3>2 DEF IsList, InOrder
  <2>8. Dates(t) = D \ {o}
    <3>1. \A i \in 1..N : i # 1 => i - 1 \in 1..(N - 1) /\ (i - 1) + 1 = i
      BY <1>1
    <3>2. Dates(t) = {rs[i].born : i \in 2..N}
      <4>1. \A k \in 1..(N - 1) : k + 1 \in 2..N
        BY <1>1, <2>6
      <4>2. \A i \in 2..N : i - 1 \in 1..(N - 1) /\ t[i - 1] = rs[i]
        BY <1>1, <2>3, <3>1
      <4>. HIDE DEF N
      <4>3. \A k \in DOMAIN t : t[k].born = rs[k + 1].born /\ k + 1 \in 2..N
        BY <2>3, <2>4, <4>1
      <4>4. \A i \in 2..N : i - 1 \in DOMAIN t /\ t[i - 1].born = rs[i].born
        BY <2>4, <4>2
      <4>5. ASSUME NEW k \in DOMAIN t  PROVE t[k].born \in {rs[i].born : i \in 2..N}
        BY <4>3
      <4>6. ASSUME NEW i \in 2..N  PROVE rs[i].born \in Dates(t)
        BY <4>4 DEF Dates
      <4>. QED  BY <4>5, <4>6 DEF Dates
    <3>3. \A i \in 1..N : i \in 2..N <=> i # 1
      BY <1>1
    <3>4. 1 \in 1..N
      BY <2>1
    <3>5. \A i \in 1..N : rs[i].born = o <=> i = 1
      BY <1>1, <3>4
    <3>6. D = {rs[i].born : i \in 1..N}
      BY <1>1 DEF Dates
    <3>. HIDE DEF D, N, o
    <3>7. {rs[i].born : i \in 2..N} = D \ {o}
      BY <3>3, <3>5, <3>6
    <3>. QED  BY <3>2, <3>7
  <2>9. ASSUME NEW b \in D  PROVE Cardinality(Later(b)) < MaxMessages <=> b # o
    <3>1. o \in D /\ o \in Nat /\ \A d \in D : d = o \/ d > o
      <4>1. 1 \in 1..N /\ \A i \in 1..N : i = 1 \/ 1 < i
        BY <2>1
      <4>2. \A i \in 1..N : i = 1 \/ rs[i].born > o
        BY <1>1, <1>3, <4>1 DEF InOrder
      <4>. QED  BY <1>1, <1>3, <4>1, <4>2 DEF Dates
    <3>2. IsFiniteSet(D \ {o}) /\ Cardinality(D \ {o}) = N - 1
      <4>. HIDE DEF D, N, o
      <4>. QED  BY <1>1, <3>1, FS_RemoveElement
    <3>3. CASE b = o
      <4>1. Later(b) = D \ {o}
        BY <1>1, <3>1, <3>3
      <4>2. Cardinality(Later(b)) = MaxMessages
        <5>1. N - 1 = MaxMessages
          BY <1>1, <1>2, <1>5
        <5>. HIDE DEF D, N, o, Later
        <5>. QED  BY <3>2, <4>1, <5>1
      <4>. QED  BY <1>2, <3>3, <4>2
    <3>4. CASE b # o
      <4>1. IsFiniteSet((D \ {o}) \ {b}) /\ Cardinality((D \ {o}) \ {b}) = N - 2
        <5>1. b \in D \ {o}
          BY <2>9, <3>4
        <5>. HIDE DEF D, N
        <5>2. Cardinality((D \ {o}) \ {b}) = (N - 1) - 1 /\ IsFiniteSet((D \ {o}) \ {b})
          BY <3>2, <5>1, FS_RemoveElement
        <5>. QED  BY <1>1, <5>2
      <4>2. Later(b) \in SUBSET ((D \ {o}) \ {b})
        <5>1. b > o /\ b \in Nat
          BY <1>1, <3>1, <3>4
        <5>2. \A d \in D : d > b => d # b /\ d # o
          BY <1>1, <3>1, <5>1
        <5>. QED  BY <5>2
      <4>. HIDE DEF D, Later, N, o
      <4>3. IsFiniteSet(Later(b)) /\ Cardinality(Later(b)) <= N - 2
        BY <4>1, <4>2, FS_Subset
      <4>4. Cardinality(Later(b)) \in Nat
        BY <4>3, FS_CardinalityType
      <4>. QED  BY <1>1, <1>2, <1>5, <3>4, <4>3, <4>4
    <3>. QED  BY <3>3, <3>4
  <2>10. Newest(D) = D \ {o}
    BY <2>9 DEF Newest
  <2>. QED  BY <2>7, <2>8, <2>10 DEF t
<1>6. N <= MaxMessages \/ N = MaxMessages + 1
  <2>1. N <= MaxMessages + 1
    OBVIOUS
  <2>. HIDE DEF N
  <2>. QED  BY <1>1, <1>2, <2>1
<1>. QED  BY <1>4, <1>5, <1>6

-----------------------------------------------------------------------------
LEMMA AppendIsLater ==
  ASSUME NEW rs, IsList(rs), InOrder(rs), NEW r, r.born \in Nat, \A d \in Dates(rs) : d < r.born
  PROVE  LET longer == Append(rs, r)
         IN  /\ IsList(longer) /\ InOrder(longer) /\ Len(longer) = Len(rs) + 1
             /\ Dates(longer) = Dates(rs) \union {r.born}
<1>. DEFINE longer == Append(rs, r)
            n == Len(rs)
            S == ToSet(rs) \union {r}
<1>1. n \in Nat /\ DOMAIN rs = 1..n /\ rs \in Seq(S) /\ r \in S
  <2>1. rs \in Seq(ToSet(rs)) /\ ToSet(rs) \subseteq S
    BY DEF IsList
  <2>2. Len(rs) \in Nat /\ rs \in [1..Len(rs) -> ToSet(rs)]
    BY <2>1
  <2>3. rs \in [1..Len(rs) -> S]
    BY <2>1, <2>2
  <2>. QED  BY <2>2, <2>3, SeqDef
<1>. HIDE DEF S
<1>2. longer \in Seq(S) /\ Len(longer) = n + 1 /\ longer[n + 1] = r /\ \A i \in 1..n : longer[i] = rs[i]
  BY <1>1
<1>. HIDE DEF longer
<1>3. DOMAIN longer = 1..(n + 1) /\ longer \in [1..(n + 1) -> S]
  BY <1>1, <1>2
<1>4. \A i \in 1..(n + 1) : i = n + 1 \/ i \in 1..n
  BY <1>1
<1>5. longer \in Seq(ToSet(longer))
  <2>1. longer \in [1..(n + 1) -> ToSet(longer)]
    BY <1>3 DEF ToSet
  <2>2. n + 1 \in Nat
    BY <1>1
  <2>. HIDE DEF n
  <2>. QED  BY <2>1, <2>2, SeqDef
<1>6. \A i \in 1..n : rs[i].born \in Nat /\ rs[i].born < r.born
  BY <1>1 DEF IsList, Dates
<1>7. \A i \in DOMAIN longer : longer[i].born \in Nat
  BY <1>2, <1>3, <1>4, <1>6
<1>8. InOrder(longer)
  <2>. SUFFICES ASSUME NEW i \in 1..(n + 1), NEW j \in 1..(n + 1), i < j  PROVE longer[i].born < longer[j].born
    BY <1>3 DEF InOrder
  <2>1. i \in 1..n
    BY <1>1
  <2>2. CASE j = n + 1
    BY <1>2, <1>6, <2>1, <2>2
  <2>3. CASE j \in 1..n
    BY <1>1, <1>2, <2>1, <2>3 DEF InOrder
  <2>. QED  BY <1>4, <2>2, <2>3
<1>9. Dates(longer) = Dates(rs) \union {r.born}
  <2>1. n + 1 \in 1..(n + 1) /\ \A i \in 1..n : i \in 1..(n + 1)
    BY <1>1
  <2>2. {longer[i].born : i \in 1..(n + 1)} = {rs[i].born : i \in 1..n} \union {r.born}
    <3>. HIDE DEF n
    <3>. QED  BY <1>2, <1>4, <2>1
  <2>. QED  BY <1>1, <1>3, <2>2 DEF Dates
<1>. QED  BY <1>2, <1>5, <1>7, <1>8, <1>9 DEF IsList, longer

\* What the one manager reads is the file, loaded or not.
LEMMA DataIsTheFile ==
  ASSUME HistoryInv, NEW m \in Managers
  PROVE  Data(m) = historyFile
BY DEF HistoryInv, Data

\* A change that leaves lists in the file, of the dates that are known.
LEMMA NewFileKeeps ==
  ASSUME HistoryInv, OneManager, NEW m \in Managers, NEW data, data = [c \in Chats |-> data[c]],
         historyFile' = data, records' = [records EXCEPT ![m] = data], LoadDone(m),
         born' \in Nat, known' \in [Chats -> SUBSET Nat],
         \A c \in Chats : /\ IsList(data[c]) /\ InOrder(data[c]) /\ Len(data[c]) <= MaxMessages
                         /\ Dates(data[c]) = known'[c] /\ \A b \in known'[c] : b < born'
  PROVE  HistoryInv'
<1>1. \A k \in Managers : k = m
  BY DEF OneManager
<1>2. records' = [k \in Managers |-> records'[k]] /\ \A k \in Managers : records'[k] = data
  BY <1>1 DEF HistoryInv
<1>3. isLoaded' \in [Managers -> BOOLEAN]
  BY DEF HistoryInv, LoadDone
<1>4. ASSUME NEW c \in Chats
      PROVE  /\ IsList(historyFile[c])' /\ InOrder(historyFile[c])' /\ (Len(historyFile[c]) <= MaxMessages)'
             /\ (Dates(historyFile[c]) = known[c])' /\ (\A b \in known[c] : b < born)'
  BY DEF IsList, InOrder, Dates
<1>5. historyFile' = [c \in Chats |-> historyFile'[c]]
  OBVIOUS
<1>. QED  BY <1>2, <1>3, <1>4, <1>5 DEF HistoryInv

LEMMA InsertKeeps ==
  ASSUME HistoryInv, OneManager, NEW m \in Managers, NEW c \in Chats, Insert(m, c)
  PROVE  HistoryInv'
<1>. DEFINE r == [id |-> nextId[m], born |-> born]
            data == [Data(m) EXCEPT ![c] = Trimmed(Append(@, r))]
<1>1. Data(m) = historyFile
  BY DataIsTheFile
<1>2. /\ IsList(historyFile[c]) /\ InOrder(historyFile[c]) /\ Len(historyFile[c]) <= MaxMessages
      /\ Dates(historyFile[c]) = known[c] /\ \A b \in known[c] : b < born
  BY DEF HistoryInv
<1>3. r.born = born /\ born \in Nat
  BY DEF HistoryInv
<1>. HIDE DEF r
<1>4. /\ IsList(Append(historyFile[c], r)) /\ InOrder(Append(historyFile[c], r))
      /\ Len(Append(historyFile[c], r)) = Len(historyFile[c]) + 1
      /\ Dates(Append(historyFile[c], r)) = known[c] \union {born}
  BY <1>2, <1>3, AppendIsLater
<1>5. Len(Append(historyFile[c], r)) <= MaxMessages + 1
  BY <1>2, <1>4, HistoryAssumption DEF IsList
<1>6. /\ IsList(Trimmed(Append(historyFile[c], r))) /\ InOrder(Trimmed(Append(historyFile[c], r)))
      /\ Len(Trimmed(Append(historyFile[c], r))) <= MaxMessages
      /\ Dates(Trimmed(Append(historyFile[c], r))) = Newest(known[c] \union {born})
  BY <1>4, <1>5, TrimKeepsNewest
<1>7. data = [d \in Chats |-> IF d = c THEN Trimmed(Append(historyFile[c], r)) ELSE historyFile[d]]
  BY <1>1 DEF HistoryInv
<1>8. /\ historyFile' = data /\ records' = [records EXCEPT ![m] = data] /\ LoadDone(m) /\ born' = born + 1
      /\ known' = [known EXCEPT ![c] = Newest(@ \union {born})]
  BY DEF Insert, SaveRecords, r
<1>. HIDE DEF data
<1>9. /\ known' \in [Chats -> SUBSET Nat] /\ known'[c] = Newest(known[c] \union {born})
      /\ \A d \in Chats : d # c => known'[d] = known[d]
      /\ \A b \in known'[c] : b < born + 1
  <2>1. known \in [Chats -> SUBSET Nat] /\ Newest(known[c] \union {born}) \subseteq known[c] \union {born}
    BY DEF HistoryInv, Newest
  <2>2. \A b \in known[c] \union {born} : b \in Nat /\ b < born + 1
    BY <1>2, <1>3, <2>1
  <2>. QED  BY <1>8, <2>1, <2>2
<1>10. ASSUME NEW d \in Chats
       PROVE  /\ IsList(data[d]) /\ InOrder(data[d]) /\ Len(data[d]) <= MaxMessages
              /\ Dates(data[d]) = known'[d] /\ \A b \in known'[d] : b < born'
  <2>1. CASE d = c
    BY <1>6, <1>7, <1>8, <1>9, <2>1
  <2>2. CASE d # c
    <3>1. data[d] = historyFile[d] /\ known'[d] = known[d]
      BY <1>7, <1>9, <2>2
    <3>2. \A b \in known[d] : b \in Nat /\ b < born
      BY DEF HistoryInv
    <3>3. \A b \in known[d] : b < born'
      BY <1>3, <1>8, <3>2
    <3>. QED  BY <3>1, <3>3 DEF HistoryInv
  <2>. QED  BY <2>1, <2>2
<1>11. data = [d \in Chats |-> data[d]] /\ born' \in Nat
  BY <1>3, <1>7, <1>8
<1>. QED  BY <1>8, <1>9, <1>10, <1>11, NewFileKeeps

\* Whichever records a change takes away.
LEMMA ChangeKeeps ==
  ASSUME HistoryInv, OneManager, NEW m \in Managers, NEW places,
         \A d \in Chats : places[d] \subseteq DOMAIN historyFile[d],
         Change(m, [d \in Chats |-> Those(historyFile[d], places[d])])
  PROVE  HistoryInv'
<1>. DEFINE data == [d \in Chats |-> Those(historyFile[d], places[d])]
<1>1. Data(m) = historyFile
  BY DataIsTheFile
<1>2. /\ records' = [records EXCEPT ![m] = data] /\ LoadDone(m) /\ born' = born
      /\ historyFile' = data
      /\ known' = [c \in Chats |-> {b \in known[c] : \A i \in DOMAIN historyFile[c] :
                      historyFile[c][i].born = b => historyFile[c][i] \in ToSet(data[c])}]
  BY <1>1 DEF Change, SaveRecords
<1>3. ASSUME NEW c \in Chats
      PROVE  /\ IsList(data[c]) /\ InOrder(data[c]) /\ Len(data[c]) <= MaxMessages
             /\ Dates(data[c]) = known'[c] /\ known'[c] \subseteq known[c]
  <2>. DEFINE rs == historyFile[c]
              P == places[c]
  <2>1. IsList(rs) /\ InOrder(rs) /\ Len(rs) <= MaxMessages /\ Dates(rs) = known[c]
    BY DEF HistoryInv
  <2>2. P \in SUBSET DOMAIN rs
    OBVIOUS
  <2>. HIDE DEF P, rs
  <2>3. /\ IsList(Those(rs, P)) /\ InOrder(Those(rs, P)) /\ Len(Those(rs, P)) <= Len(rs)
        /\ ToSet(Those(rs, P)) = {rs[i] : i \in P} /\ Dates(Those(rs, P)) = {rs[i].born : i \in P}
    BY <2>1, <2>2, PartIsList
  <2>4. \A i, j \in DOMAIN rs : i # j => rs[i].born # rs[j].born
    BY <2>1, DatesDiffer
  <2>5. data[c] = Those(rs, P)
    BY DEF rs, P
  <2>6. known'[c] = {b \in known[c] : \A i \in DOMAIN rs : rs[i].born = b => rs[i] \in {rs[j] : j \in P}}
    BY <1>2, <2>3, <2>5 DEF rs
  <2>7. known'[c] = {rs[i].born : i \in P}
    <3>1. \A i \in DOMAIN rs : rs[i] \in {rs[j] : j \in P} <=> i \in P
      BY <2>2, <2>4
    <3>2. known[c] = {rs[i].born : i \in DOMAIN rs}
      BY <2>1 DEF Dates
    <3>3. \A i \in DOMAIN rs : rs[i].born \in known'[c] <=> i \in P
      BY <2>4, <2>6, <3>1, <3>2
    <3>4. known'[c] \subseteq {rs[i].born : i \in DOMAIN rs}
      BY <2>6, <3>2
    <3>. QED  BY <2>2, <3>3, <3>4
  <2>8. Len(Those(rs, P)) <= MaxMessages
    <3>1. Len(Those(rs, P)) \in Nat /\ Len(rs) \in Nat
      BY <2>1, <2>3 DEF IsList
    <3>. QED  BY <2>1, <2>3, <3>1, HistoryAssumption
  <2>9. known'[c] \subseteq known[c]
    BY <2>6
  <2>. QED  BY <2>3, <2>5, <2>7, <2>8, <2>9
<1>4. known' \in [Chats -> SUBSET Nat] /\ born' \in Nat
  BY <1>2 DEF HistoryInv
<1>5. ASSUME NEW c \in Chats  PROVE \A b \in known'[c] : b < born'
  BY <1>2, <1>3, <1>5 DEF HistoryInv
<1>6. data = [c \in Chats |-> data[c]]
  OBVIOUS
<1>. HIDE DEF data
<1>. QED  BY <1>2, <1>3, <1>4, <1>5, <1>6, NewFileKeeps

LEMMA DeletionsKeep ==
  ASSUME HistoryInv, OneManager, NEW m \in Managers,
         \/ \E c \in Chats : \E cutoff \in 0..born : DeleteOld(m, c, cutoff)
         \/ \E id \in 1..MaxInserts : DeleteById(m, id)
  PROVE  HistoryInv'
<1>1. Data(m) = historyFile
  BY DataIsTheFile
<1>2. ASSUME NEW c \in Chats, NEW cutoff \in 0..born, DeleteOld(m, c, cutoff)  PROVE HistoryInv'
  <2>. DEFINE places == [d \in Chats |-> {i \in DOMAIN historyFile[d] : d = c => historyFile[d][i].born >= cutoff}]
  <2>1. [d \in Chats |-> Those(historyFile[d], {i \in DOMAIN historyFile[d] : d = c => historyFile[d][i].born >= cutoff})]
          = [d \in Chats |-> Those(historyFile[d], places[d])]
    OBVIOUS
  <2>2. Change(m, [d \in Chats |-> Those(historyFile[d], places[d])])
    BY <1>1, <1>2, <2>1 DEF DeleteOld
  <2>3. \A d \in Chats : places[d] \subseteq DOMAIN historyFile[d]
    OBVIOUS
  <2>. HIDE DEF places
  <2>. QED  BY <2>2, <2>3, ChangeKeeps
<1>3. ASSUME NEW id \in 1..MaxInserts, DeleteById(m, id)  PROVE HistoryInv'
  <2>. DEFINE places == [d \in Chats |-> {i \in DOMAIN historyFile[d] : historyFile[d][i].id # id}]
  <2>1. [d \in Chats |-> Those(historyFile[d], {i \in DOMAIN historyFile[d] : historyFile[d][i].id # id})]
          = [d \in Chats |-> Those(historyFile[d], places[d])]
    OBVIOUS
  <2>2. Change(m, [d \in Chats |-> Those(historyFile[d], places[d])])
    BY <1>1, <1>3, <2>1 DEF DeleteById
  <2>3. \A d \in Chats : places[d] \subseteq DOMAIN historyFile[d]
    OBVIOUS
  <2>. HIDE DEF places
  <2>. QED  BY <2>2, <2>3, ChangeKeeps
<1>. QED  BY <1>2, <1>3

LEMMA NoRecordsAreLists ==
  ASSUME NEW c \in Chats
  PROVE  /\ IsList(NoRecords[c]) /\ InOrder(NoRecords[c]) /\ Len(NoRecords[c]) <= MaxMessages
         /\ Dates(NoRecords[c]) = {}
BY HistoryAssumption DEF NoRecords, IsList, InOrder, Dates

LEMMA ClearKeeps ==
  ASSUME HistoryInv, OneManager, NEW m \in Managers, Clear(m)
  PROVE  HistoryInv'
<1>1. /\ historyFile' = NoRecords /\ records' = [records EXCEPT ![m] = NoRecords] /\ LoadDone(m)
      /\ born' \in Nat /\ known' = [c \in Chats |-> {}]
  BY DEF HistoryInv, Clear, SaveRecords
<1>2. ASSUME NEW c \in Chats
      PROVE  /\ IsList(NoRecords[c]) /\ InOrder(NoRecords[c]) /\ Len(NoRecords[c]) <= MaxMessages
             /\ Dates(NoRecords[c]) = {}
  BY NoRecordsAreLists
<1>3. NoRecords = [c \in Chats |-> NoRecords[c]]
  BY DEF NoRecords
<1>4. known' \in [Chats -> SUBSET Nat] /\ \A c \in Chats : known'[c] = {}
  BY <1>1
<1>5. ASSUME NEW c \in Chats
      PROVE  /\ IsList(NoRecords[c]) /\ InOrder(NoRecords[c]) /\ Len(NoRecords[c]) <= MaxMessages
             /\ Dates(NoRecords[c]) = known'[c] /\ \A b \in known'[c] : b < born'
  BY <1>2, <1>4
<1>. QED  BY <1>1, <1>3, <1>4, <1>5, NewFileKeeps

LEMMA HistoryKeeps ==
  ASSUME HistoryInv, OneManager, [HistoryNext]_historyVars
  PROVE  HistoryInv'
<1>1. ASSUME NEW m \in Managers, GetRecords(m) \/ RestartManager(m)  PROVE HistoryInv'
  <2>1. UNCHANGED <<historyFile, born, known>>
    BY <1>1 DEF GetRecords, RestartManager
  <2>2. ASSUME NEW k \in Managers, isLoaded'[k]  PROVE records'[k] = historyFile
    <3>1. k = m
      BY DEF OneManager
    <3>2. CASE GetRecords(m)
      BY <3>1, <3>2, DataIsTheFile DEF GetRecords, HistoryInv
    <3>3. CASE RestartManager(m)
      BY <2>2, <3>1, <3>3 DEF RestartManager, HistoryInv
    <3>. QED  BY <1>1, <3>2, <3>3
  <2>3. isLoaded' \in [Managers -> BOOLEAN] /\ records' = [k \in Managers |-> records'[k]]
    BY <1>1 DEF GetRecords, RestartManager, LoadDone, HistoryInv
  <2>4. ASSUME NEW c \in Chats
        PROVE  /\ IsList(historyFile[c])' /\ InOrder(historyFile[c])' /\ (Len(historyFile[c]) <= MaxMessages)'
               /\ (Dates(historyFile[c]) = known[c])' /\ (\A b \in known[c] : b < born)'
    BY <2>1 DEF HistoryInv, IsList, InOrder, Dates
  <2>. QED  BY <2>1, <2>2, <2>3, <2>4 DEF HistoryInv
<1>2. ASSUME UNCHANGED historyVars  PROVE HistoryInv'
  BY <1>2 DEF historyVars, HistoryInv, IsList, InOrder, Dates
<1>. QED  BY <1>1, <1>2, InsertKeeps, DeletionsKeep, ClearKeeps DEF HistoryNext

\* With one manager of the histories, the file has the newest records of a chat that were
\* not deleted, as many as fit, in the order they came in, after any restart
\* (message_history_manager.py).
THEOREM NewestSafe ==
  ASSUME OneManager
  PROVE  HistorySpec => []NewestAreKept
<1>1. HistoryInit => HistoryInv
  <2>. SUFFICES ASSUME HistoryInit  PROVE HistoryInv
    OBVIOUS
  <2>1. historyFile = NoRecords /\ \A c \in Chats : known[c] = {}
    BY DEF HistoryInit
  <2>2. \A c \in Chats : IsList(historyFile[c]) /\ InOrder(historyFile[c]) /\ Len(historyFile[c]) <= MaxMessages
                         /\ Dates(historyFile[c]) = known[c]
    BY <2>1, NoRecordsAreLists
  <2>3. /\ historyFile = [c \in Chats |-> historyFile[c]] /\ records = [m \in Managers |-> records[m]]
        /\ born = 0 /\ isLoaded \in [Managers -> BOOLEAN] /\ known \in [Chats -> SUBSET Nat]
        /\ \A m \in Managers : ~isLoaded[m]
    BY DEF HistoryInit, NoRecords
  <2>. QED  BY <2>1, <2>2, <2>3 DEF HistoryInv
<1>2. HistoryInv /\ [HistoryNext]_historyVars => HistoryInv'
  BY HistoryKeeps
<1>3. HistoryInv => NewestAreKept
  <2>. SUFFICES ASSUME HistoryInv, NEW c \in Chats
       PROVE  /\ \A i, j \in DOMAIN historyFile[c] : i < j => historyFile[c][i].born < historyFile[c][j].born
              /\ {historyFile[c][i].born : i \in DOMAIN historyFile[c]} = known[c]
    BY DEF NewestAreKept
  <2>. QED  BY DEF HistoryInv, InOrder, Dates
<1>. QED  BY <1>1, <1>2, <1>3, PTL DEF HistorySpec

-----------------------------------------------------------------------------
(* LazyDeps: the inductive invariant                                        *)

Places  == {"enter", "load", "body", "find", "resolve", "file", "look", "pip", "again"}
Working == {"resolve", "file", "look", "pip", "again"}
Frames  == [mod : Modules, at : Places, todo : Seq(Modules)]
Interpreters ==
  [loaded : SUBSET Modules, attempted : SUBSET Packages, resolving : SUBSET Modules,
   lock : Importers \union {NoThread}]

DepsTypes ==
  /\ venv \subseteq Modules /\ fileLock \in Importers \union {NoThread}
  /\ py \in [DepProcesses -> Interpreters]
  /\ stack \in [Importers -> Seq(Frames)]
  /\ result \in [Importers -> [how : {"pending", "there", "missing", "raised"}, mod : Modules \union {""}]]
  /\ ran \in [DepProcesses -> [Packages -> Nat]]
  /\ notInstalled \in [DepProcesses -> SUBSET Packages]

\* What a thread does below its innermost import: it waits for that one, in the body of a
\* module or in the second look for the same module.
StacksNest ==
  \A t \in Importers : \A i \in DOMAIN stack[t] : i < Len(stack[t]) =>
    /\ stack[t][i].at \in {"look", "body"}
    /\ stack[t][i].at = "look" => stack[t][i + 1].mod = stack[t][i].mod

\* Who resolves a name has its process's lock, for that name and no other, and the lock is
\* held by nobody else.
Resolves(t, i) == i \in DOMAIN stack[t] /\ stack[t][i].at \in Working
LocksAreHeld ==
  \A t \in Importers : \A i \in DOMAIN stack[t] : Resolves(t, i) =>
    /\ Mine(t).lock = t /\ stack[t][i].mod \in Mine(t).resolving
    /\ \A j \in DOMAIN stack[t] : Resolves(t, j) => j = i
LocksHaveHolders ==
  \A p \in DepProcesses :
    /\ py[p].lock # NoThread => ProcessOf[py[p].lock] = p /\ \E i \in DOMAIN stack[py[p].lock] : Resolves(py[p].lock, i)
    /\ \A n \in py[p].resolving : \E t \in Importers : \E i \in DOMAIN stack[t] :
         ProcessOf[t] = p /\ Resolves(t, i) /\ stack[t][i].mod = n

\* So has, of the lock file, who looks or runs pip.
HoldsFile(t, i) == i \in DOMAIN stack[t] /\ stack[t][i].at \in {"look", "pip"}
FileLockIsHeld ==
  /\ \A t \in Importers : \A i \in DOMAIN stack[t] : HoldsFile(t, i) => fileLock = t
  /\ fileLock # NoThread => \E i \in DOMAIN stack[fileLock] : HoldsFile(fileLock, i)

\* Two threads of a process are not both in one module.
ModulesApart ==
  \A t, u \in Importers : t # u /\ ProcessOf[t] = ProcessOf[u] =>
    \A i \in DOMAIN stack[t], j \in DOMAIN stack[u] :
      stack[t][i].mod = stack[u][j].mod => stack[t][i].at = "enter" \/ stack[u][j].at = "enter"

\* pip is started by who has tried a package first.
TriedSoFar ==
  /\ \A p \in DepProcesses : \A k \in Packages : ran[p][k] = 0 \/ (ran[p][k] = 1 /\ k \in py[p].attempted)
  /\ \A t \in Importers : \A i \in DOMAIN stack[t] :
       LET f == stack[t][i] IN
       /\ f.at \in {"file", "look", "pip", "again"} => PackageOf[f.mod] \in Mine(t).attempted
       /\ f.at \in {"file", "look"} => ran[ProcessOf[t]][PackageOf[f.mod]] = 0

\* A module that is loaded is there, and so is one that was found.
FoundIsThere ==
  /\ Present \subseteq venv /\ \A p \in DepProcesses : py[p].loaded \subseteq venv
  /\ \A t \in Importers : \A i \in DOMAIN stack[t] :
       LET f == stack[t][i] IN
       /\ f.at \in {"load", "body"} => f.mod \in venv
       /\ f.at = "again" => f.mod \in venv \union Phantom
       /\ f.at = "look" /\ i = Len(stack[t]) =>
            result[t].how # "pending" /\ result[t].mod = f.mod /\ (result[t].how = "there" => f.mod \in venv)

\* A package was tried: its module is there, or is being seen to, or there is a reason.
HasReason(p, n) == PackageOf[n] = "unmapped" \/ n \in Phantom \/ PackageOf[n] \in notInstalled[p]
SeesTo(p, n) ==
  \E t \in Importers : ProcessOf[t] = p /\ \E i \in DOMAIN stack[t] :
    stack[t][i].mod = n /\ stack[t][i].at \in {"file", "look", "pip"}
LooksFor(t, n) == \E i \in DOMAIN stack[t] : stack[t][i].mod = n /\ stack[t][i].at = "look"
TriesHaveReason ==
  /\ \A p \in DepProcesses : \A n \in Modules :
       PackageOf[n] \in py[p].attempted => n \in venv \/ HasReason(p, n) \/ SeesTo(p, n)
  /\ \A t \in Importers : \A i \in DOMAIN stack[t] :
       LET f == stack[t][i] IN
       f.at \in {"find", "resolve"} /\ PackageOf[f.mod] \in Mine(t).attempted =>
         HasReason(ProcessOf[t], f.mod) \/ LooksFor(t, f.mod)

\* Where optional imports are of what is there, they never come to the finder.
OptionalsFound ==
  OptionalsThere => \A t \in Importers : \A i \in DOMAIN stack[t] :
    LET f == stack[t][i] IN
    /\ \A k \in DOMAIN f.todo : f.todo[k] \in Present
    /\ f.at = "find" => f.mod \notin Present
    /\ i < Len(stack[t]) /\ f.at = "body" => stack[t][i + 1].mod \in Present

DepsInv ==
  /\ DepsTypes /\ StacksNest /\ LocksAreHeld /\ LocksHaveHolders /\ FileLockIsHeld /\ ModulesApart
  /\ TriedSoFar /\ FoundIsThere /\ TriesHaveReason /\ OptionalsFound /\ FailsForAReason

-----------------------------------------------------------------------------
(* What a step makes of the stack of its thread.                            *)
OthersStand(t) == /\ stack' \in [Importers -> Seq(Frames)]
             /\ \A u \in Importers : u # t => stack'[u] = stack[u]
Below(t) == \A i \in DOMAIN stack[t] : i < Len(stack[t]) => i \in DOMAIN stack'[t] /\ stack'[t][i] = stack[t][i]
Gone(t, f) ==
  /\ OthersStand(t) /\ Below(t) /\ Len(stack'[t]) = Len(stack[t]) /\ DOMAIN stack'[t] = DOMAIN stack[t]
  /\ \A i \in DOMAIN stack'[t] : i < Len(stack[t]) \/ (i = Len(stack[t]) /\ stack'[t][i] = f)
  /\ Len(stack[t]) \in DOMAIN stack'[t] /\ stack'[t][Len(stack[t])] = f
Pushed(t, f, g) ==
  /\ OthersStand(t) /\ Below(t) /\ Len(stack'[t]) = Len(stack[t]) + 1 /\ DOMAIN stack'[t] = 1..(Len(stack[t]) + 1)
  /\ \A i \in DOMAIN stack'[t] :
       \/ i < Len(stack[t]) /\ i \in DOMAIN stack[t]
       \/ i = Len(stack[t]) /\ stack'[t][i] = f
       \/ i = Len(stack[t]) + 1 /\ stack'[t][i] = g
  /\ Len(stack[t]) \in DOMAIN stack'[t] /\ stack'[t][Len(stack[t])] = f
  /\ Len(stack[t]) + 1 \in DOMAIN stack'[t] /\ stack'[t][Len(stack[t]) + 1] = g
Popped(t) ==
  /\ OthersStand(t) /\ Below(t) /\ Len(stack'[t]) = Len(stack[t]) - 1
  /\ \A i \in DOMAIN stack'[t] : i \in DOMAIN stack[t] /\ i < Len(stack[t]) /\ stack'[t][i] = stack[t][i]

LEMMA TopIsFrame ==
  ASSUME DepsTypes, NEW t \in Importers, stack[t] # <<>>
  PROVE  /\ Len(stack[t]) \in Nat \ {0} /\ Len(stack[t]) \in DOMAIN stack[t] /\ DOMAIN stack[t] = 1..Len(stack[t])
         /\ Top(t) = stack[t][Len(stack[t])] /\ Top(t) \in Frames /\ \A i \in DOMAIN stack[t] : stack[t][i] \in Frames
<1>1. stack[t] \in Seq(Frames)
  BY DEF DepsTypes
<1>2. Len(stack[t]) \in Nat /\ DOMAIN stack[t] = 1..Len(stack[t]) /\ Len(stack[t]) # 0
  BY <1>1, EmptySeq
<1>3. \A i \in DOMAIN stack[t] : stack[t][i] \in Frames
  BY <1>1
<1>. QED  BY <1>2, <1>3 DEF Top, Last

LEMMA FramesHave ==
  ASSUME DepsTypes, NEW t \in Importers
  PROVE  /\ Len(stack[t]) \in Nat /\ DOMAIN stack[t] = 1..Len(stack[t])
         /\ \A i \in DOMAIN stack[t] : stack[t][i] \in Frames /\ stack[t][i].mod \in Modules
                                       /\ stack[t][i].at \in Places /\ stack[t][i].todo \in Seq(Modules)
         /\ ProcessOf[t] \in DepProcesses /\ py[ProcessOf[t]] \in Interpreters
<1>1. stack[t] \in Seq(Frames)
  BY DEF DepsTypes
<1>2. \A i \in DOMAIN stack[t] : stack[t][i] \in Frames
  BY <1>1
<1>3. ProcessOf[t] \in DepProcesses /\ py[ProcessOf[t]] \in Interpreters
  BY DEF DepsTypes, DepProcesses
<1>. QED  BY <1>1, <1>2, <1>3 DEF Frames

LEMMA GoesIs ==
  ASSUME DepsTypes, NEW t \in Importers, stack[t] # <<>>, NEW f \in Frames, TopBecomes(t, f)
  PROVE  Gone(t, f)
<1>1. /\ Len(stack[t]) \in Nat \ {0} /\ DOMAIN stack[t] = 1..Len(stack[t]) /\ stack[t] \in Seq(Frames)
  BY TopIsFrame DEF DepsTypes
<1>. DEFINE n == Len(stack[t])
            s == [stack[t] EXCEPT ![n] = f]
<1>2. stack' = [stack EXCEPT ![t] = s]
  BY DEF TopBecomes
<1>3. s \in Seq(Frames) /\ Len(s) = n /\ DOMAIN s = 1..n /\ s[n] = f /\ \A i \in 1..n : i # n => s[i] = stack[t][i]
  BY <1>1, SMTT(30)
<1>. HIDE DEF s
<1>4. stack' \in [Importers -> Seq(Frames)] /\ stack'[t] = s /\ \A u \in Importers : u # t => stack'[u] = stack[u]
  BY <1>2, <1>3 DEF DepsTypes
<1>5. n \in 1..n /\ \A i \in 1..n : i < n \/ i = n
  BY <1>1
<1>. QED  BY <1>1, <1>3, <1>4, <1>5 DEF Gone, OthersStand, Below

LEMMA PushesIs ==
  ASSUME DepsTypes, NEW t \in Importers, stack[t] # <<>>, NEW f \in Frames, NEW g \in Frames,
         stack' = [stack EXCEPT ![t] = Append([stack[t] EXCEPT ![Len(stack[t])] = f], g)]
  PROVE  Pushed(t, f, g)
<1>1. /\ Len(stack[t]) \in Nat \ {0} /\ DOMAIN stack[t] = 1..Len(stack[t]) /\ stack[t] \in Seq(Frames)
  BY TopIsFrame DEF DepsTypes
<1>. DEFINE n == Len(stack[t])
            r == [stack[t] EXCEPT ![n] = f]
            s == Append(r, g)
<1>3. r \in Seq(Frames) /\ Len(r) = n /\ DOMAIN r = 1..n /\ r[n] = f /\ \A i \in 1..n : i # n => r[i] = stack[t][i]
  BY <1>1
<1>. HIDE DEF r
<1>4. s \in Seq(Frames) /\ Len(s) = n + 1 /\ DOMAIN s = 1..(n + 1) /\ s[n + 1] = g /\ \A i \in 1..n : s[i] = r[i]
  BY <1>1, <1>3
<1>. HIDE DEF s
<1>5. stack' \in [Importers -> Seq(Frames)] /\ stack'[t] = s /\ \A u \in Importers : u # t => stack'[u] = stack[u]
  BY <1>4 DEF DepsTypes, s, r
<1>6. n \in 1..n /\ n \in 1..(n + 1) /\ n + 1 \in 1..(n + 1) /\ (\A i \in 1..n : i \in 1..(n + 1))
      /\ \A i \in 1..(n + 1) : (i < n /\ i \in 1..n) \/ i = n \/ i = n + 1
  BY <1>1
<1>7. \A i \in 1..n : i < n => i # n /\ i \in 1..(n + 1)
  BY <1>1, <1>6, SMTT(30)
<1>8. Below(t)
  <2>. HIDE DEF n
  <2>1. \A i \in 1..n : i < n => s[i] = stack[t][i]
    BY <1>3, <1>4, <1>7
  <2>. QED  BY <1>1, <1>4, <1>5, <1>7, <2>1 DEF Below, n
<1>9. s[n] = f
  BY <1>3, <1>4, <1>6
<1>. HIDE DEF n
<1>10. OthersStand(t)
  BY <1>5, SMTT(30) DEF OthersStand
<1>11. \A i \in DOMAIN stack'[t] : (i < n /\ i \in DOMAIN stack[t]) \/ (i = n /\ stack'[t][i] = f) \/ (i = n + 1 /\ stack'[t][i] = g)
  BY <1>1, <1>4, <1>5, <1>6, <1>9 DEF n
<1>12. Len(stack'[t]) = n + 1 /\ DOMAIN stack'[t] = 1..(n + 1) /\ n \in DOMAIN stack'[t] /\ n + 1 \in DOMAIN stack'[t]
  BY <1>4, <1>5, <1>6
<1>13. stack'[t][n] = f /\ stack'[t][n + 1] = g
  BY <1>4, <1>5, <1>9
<1>. QED  BY <1>8, <1>10, <1>11, <1>12, <1>13 DEF Pushed, n

LEMMA PopsIs ==
  ASSUME DepsTypes, NEW t \in Importers, stack[t] # <<>>, stack' = [stack EXCEPT ![t] = Front(stack[t])]
  PROVE  Popped(t)
<1>1. /\ Len(stack[t]) \in Nat \ {0} /\ DOMAIN stack[t] = 1..Len(stack[t]) /\ stack[t] \in Seq(Frames)
  BY TopIsFrame DEF DepsTypes
<1>. DEFINE n == Len(stack[t])
            s == Front(stack[t])
<1>2. s \in Seq(Frames) /\ Len(s) = n - 1 /\ DOMAIN s = 1..(n - 1) /\ \A i \in 1..(n - 1) : s[i] = stack[t][i]
  <2>1. \A i \in 1..(n - 1) : i \in 1..n /\ stack[t][i] \in Frames
    BY <1>1
  <2>2. s = SubSeq(stack[t], 1, n - 1) /\ n - 1 \in Nat /\ n - 1 <= n
    BY <1>1 DEF Front
  <2>. QED  BY <1>1, <2>1, <2>2, SubSeqProperties
<1>. HIDE DEF s
<1>3. stack' \in [Importers -> Seq(Frames)] /\ stack'[t] = s /\ \A u \in Importers : u # t => stack'[u] = stack[u]
  BY <1>2 DEF DepsTypes, s
<1>4. (\A i \in 1..n : i < n => i \in 1..(n - 1)) /\ \A i \in 1..(n - 1) : i \in 1..n /\ i < n
  BY <1>1
<1>. QED  BY <1>1, <1>2, <1>3, <1>4 DEF Popped, OthersStand, Below

-----------------------------------------------------------------------------
(* What stays as it is when a step leaves it alone.                         *)
SameLocks == /\ py' \in [DepProcesses -> Interpreters]
             /\ \A p \in DepProcesses : py'[p].lock = py[p].lock /\ py'[p].resolving = py[p].resolving

LEMMA LocksStay ==
  ASSUME DepsInv, NEW t \in Importers, OthersStand(t), SameLocks,
         \A i \in DOMAIN stack'[t] : stack'[t][i].at \in Working =>
           Resolves(t, i) /\ stack'[t][i].mod = stack[t][i].mod,
         \A i \in DOMAIN stack[t] : Resolves(t, i) => i \in DOMAIN stack'[t] /\ stack'[t][i].at \in Working
  PROVE  LocksAreHeld' /\ LocksHaveHolders'
<1>1. \A u \in Importers : ProcessOf[u] \in DepProcesses
  BY DEF DepProcesses
<1>2. ASSUME NEW u \in Importers, NEW i \in DOMAIN stack'[u], Resolves(u, i)'
      PROVE  Resolves(u, i) /\ stack'[u][i].mod = stack[u][i].mod
  <2>1. CASE u = t
    BY <1>2, <2>1 DEF Resolves
  <2>2. CASE u # t
    BY <1>2, <2>2 DEF Resolves, OthersStand
  <2>. QED  BY <2>1, <2>2
<1>3. ASSUME NEW u \in Importers, NEW i \in DOMAIN stack[u], Resolves(u, i)
      PROVE  i \in DOMAIN stack'[u] /\ stack'[u][i].at \in Working
  <2>1. CASE u = t
    BY <1>3, <2>1 DEF Resolves
  <2>2. CASE u # t
    BY <1>3, <2>2 DEF Resolves, OthersStand
  <2>. QED  BY <2>1, <2>2
<1>4. LocksAreHeld'
  <2>. SUFFICES ASSUME NEW u \in Importers, NEW i \in DOMAIN stack'[u], Resolves(u, i)'
       PROVE  /\ py'[ProcessOf[u]].lock = u /\ stack'[u][i].mod \in py'[ProcessOf[u]].resolving
              /\ \A j \in DOMAIN stack'[u] : Resolves(u, j)' => j = i
    BY DEF LocksAreHeld, Mine
  <2>1. i \in DOMAIN stack[u] /\ Resolves(u, i) /\ stack'[u][i].mod = stack[u][i].mod
    BY <1>2 DEF Resolves
  <2>2. py[ProcessOf[u]].lock = u /\ stack[u][i].mod \in py[ProcessOf[u]].resolving
    BY <2>1 DEF DepsInv, LocksAreHeld, Mine
  <2>3. ASSUME NEW j \in DOMAIN stack'[u], Resolves(u, j)'  PROVE j = i
    <3>1. j \in DOMAIN stack[u] /\ Resolves(u, j)
      BY <1>2, <2>3 DEF Resolves
    <3>. QED  BY <2>1, <3>1 DEF DepsInv, LocksAreHeld
  <2>. QED  BY <1>1, <2>1, <2>2, <2>3 DEF SameLocks
<1>5. LocksHaveHolders'
  <2>. SUFFICES ASSUME NEW p \in DepProcesses
       PROVE  /\ py'[p].lock # NoThread =>
                   ProcessOf[py'[p].lock] = p /\ \E i \in DOMAIN stack'[py'[p].lock] : stack'[py'[p].lock][i].at \in Working
              /\ \A n \in py'[p].resolving : \E u \in Importers : \E i \in DOMAIN stack'[u] :
                   ProcessOf[u] = p /\ stack'[u][i].at \in Working /\ stack'[u][i].mod = n
    BY DEF LocksHaveHolders, Resolves
  <2>1. py'[p].lock = py[p].lock /\ py'[p].resolving = py[p].resolving
    BY DEF SameLocks
  <2>2. ASSUME py[p].lock # NoThread
        PROVE  ProcessOf[py[p].lock] = p /\ \E i \in DOMAIN stack'[py[p].lock] : stack'[py[p].lock][i].at \in Working
    <3>1. py[p].lock \in Importers
      BY <2>2 DEF DepsInv, DepsTypes, Interpreters
    <3>2. PICK i \in DOMAIN stack[py[p].lock] : ProcessOf[py[p].lock] = p /\ Resolves(py[p].lock, i)
      BY <2>2 DEF DepsInv, LocksHaveHolders
    <3>. QED  BY <1>3, <3>1, <3>2
  <2>3. ASSUME NEW n \in py[p].resolving
        PROVE  \E u \in Importers : \E i \in DOMAIN stack'[u] : ProcessOf[u] = p /\ stack'[u][i].at \in Working /\ stack'[u][i].mod = n
    <3>1. PICK u \in Importers : \E i \in DOMAIN stack[u] : ProcessOf[u] = p /\ Resolves(u, i) /\ stack[u][i].mod = n
      BY <2>3 DEF DepsInv, LocksHaveHolders
    <3>2. PICK i \in DOMAIN stack[u] : ProcessOf[u] = p /\ Resolves(u, i) /\ stack[u][i].mod = n
      BY <3>1
    <3>3. i \in DOMAIN stack'[u] /\ stack'[u][i].at \in Working
      BY <1>3, <3>2
    <3>4. stack'[u][i].mod = n
      BY <1>2, <3>2, <3>3 DEF Resolves
    <3>. QED  BY <3>2, <3>3, <3>4
  <2>. QED  BY <2>1, <2>2, <2>3
<1>. QED  BY <1>4, <1>5

LEMMA FileLockStays ==
  ASSUME DepsInv, NEW t \in Importers, OthersStand(t), UNCHANGED fileLock,
         \A i \in DOMAIN stack'[t] : stack'[t][i].at \in {"look", "pip"} => HoldsFile(t, i),
         \A i \in DOMAIN stack[t] : HoldsFile(t, i) => i \in DOMAIN stack'[t] /\ stack'[t][i].at \in {"look", "pip"}
  PROVE  FileLockIsHeld'
<1>1. ASSUME NEW u \in Importers, NEW i \in DOMAIN stack'[u], HoldsFile(u, i)'  PROVE fileLock' = u
  <2>1. CASE u = t
    BY <1>1, <2>1 DEF HoldsFile, DepsInv, FileLockIsHeld
  <2>2. CASE u # t
    BY <1>1, <2>2 DEF HoldsFile, OthersStand, DepsInv, FileLockIsHeld
  <2>. QED  BY <2>1, <2>2
<1>2. ASSUME fileLock' # NoThread  PROVE \E i \in DOMAIN stack'[fileLock] : HoldsFile(fileLock, i)'
  <2>1. fileLock \in Importers
    BY <1>2 DEF DepsInv, DepsTypes
  <2>2. PICK i \in DOMAIN stack[fileLock] : HoldsFile(fileLock, i)
    BY <1>2 DEF DepsInv, FileLockIsHeld
  <2>3. CASE fileLock = t
    BY <2>2, <2>3 DEF HoldsFile
  <2>4. CASE fileLock # t
    BY <2>1, <2>2, <2>4 DEF HoldsFile, OthersStand
  <2>. QED  BY <2>3, <2>4
<1>. QED  BY <1>1, <1>2 DEF FileLockIsHeld, HoldsFile

LEMMA StillApart ==
  ASSUME DepsInv, NEW t \in Importers, OthersStand(t),
         \A i \in DOMAIN stack'[t] : stack'[t][i].at # "enter" =>
           \/ \E j \in DOMAIN stack[t] : stack[t][j].mod = stack'[t][i].mod /\ stack[t][j].at # "enter"
           \/ ModuleFree(t, stack'[t][i].mod)
  PROVE  ModulesApart'
<1>1. ASSUME NEW u \in Importers, u # t, ProcessOf[u] = ProcessOf[t],
             NEW i \in DOMAIN stack'[t], NEW j \in DOMAIN stack'[u], stack'[t][i].mod = stack'[u][j].mod
      PROVE  stack'[t][i].at = "enter" \/ stack'[u][j].at = "enter"
  <2>. SUFFICES ASSUME stack'[t][i].at # "enter"  PROVE stack'[u][j].at = "enter"
    OBVIOUS
  <2>1. stack'[u] = stack[u]
    BY <1>1 DEF OthersStand
  <2>2. CASE ModuleFree(t, stack'[t][i].mod)
    BY <1>1, <2>1, <2>2 DEF ModuleFree
  <2>3. CASE ~ ModuleFree(t, stack'[t][i].mod)
    <3>1. PICK k \in DOMAIN stack[t] : stack[t][k].mod = stack'[t][i].mod /\ stack[t][k].at # "enter"
      BY <2>3
    <3>. QED  BY <1>1, <2>1, <3>1 DEF DepsInv, ModulesApart
  <2>. QED  BY <2>2, <2>3
<1>2. ASSUME NEW u \in Importers, NEW w \in Importers, u # w, ProcessOf[u] = ProcessOf[w], u # t, w # t,
             NEW i \in DOMAIN stack'[u], NEW j \in DOMAIN stack'[w], stack'[u][i].mod = stack'[w][j].mod
      PROVE  stack'[u][i].at = "enter" \/ stack'[w][j].at = "enter"
  BY <1>2 DEF OthersStand, DepsInv, ModulesApart
<1>. QED  BY <1>1, <1>2 DEF ModulesApart

LEMMA StillTried ==
  ASSUME DepsInv, NEW t \in Importers, OthersStand(t), UNCHANGED ran,
         \A p \in DepProcesses : py'[p].attempted = py[p].attempted,
         \A i \in DOMAIN stack'[t] : stack'[t][i].at \in {"file", "look", "pip", "again"} =>
           \E j \in DOMAIN stack[t] : /\ stack[t][j].mod = stack'[t][i].mod
                                      /\ stack[t][j].at \in {"file", "look", "pip", "again"}
                                      /\ stack'[t][i].at \in {"file", "look"} => stack[t][j].at \in {"file", "look"}
  PROVE  TriedSoFar'
<1>1. \A u \in Importers : ProcessOf[u] \in DepProcesses
  BY DEF DepProcesses
<1>2. ASSUME NEW u \in Importers, NEW i \in DOMAIN stack'[u]
      PROVE  LET f == stack'[u][i] IN
             /\ f.at \in {"file", "look", "pip", "again"} => PackageOf[f.mod] \in py'[ProcessOf[u]].attempted
             /\ f.at \in {"file", "look"} => ran'[ProcessOf[u]][PackageOf[f.mod]] = 0
  <2>1. CASE u = t
    <3>. SUFFICES ASSUME stack'[t][i].at \in {"file", "look", "pip", "again"}
         PROVE  /\ PackageOf[stack'[t][i].mod] \in py[ProcessOf[t]].attempted
                /\ stack'[t][i].at \in {"file", "look"} => ran[ProcessOf[t]][PackageOf[stack'[t][i].mod]] = 0
      BY <1>1, <2>1
    <3>1. PICK j \in DOMAIN stack[t] :
             /\ stack[t][j].mod = stack'[t][i].mod /\ stack[t][j].at \in {"file", "look", "pip", "again"}
             /\ stack'[t][i].at \in {"file", "look"} => stack[t][j].at \in {"file", "look"}
      BY <2>1
    <3>. QED  BY <3>1 DEF DepsInv, TriedSoFar, Mine
  <2>2. CASE u # t
    BY <1>1, <2>2 DEF OthersStand, DepsInv, TriedSoFar, Mine
  <2>. QED  BY <2>1, <2>2
<1>3. \A p \in DepProcesses : \A k \in Packages : ran'[p][k] = 0 \/ (ran'[p][k] = 1 /\ k \in py'[p].attempted)
  BY DEF DepsInv, TriedSoFar
<1>. QED  BY <1>2, <1>3 DEF TriedSoFar, Mine

FrameFound(t, i) ==
  LET f == stack[t][i] IN
  /\ f.at \in {"load", "body"} => f.mod \in venv
  /\ f.at = "again" => f.mod \in venv \union Phantom
  /\ f.at = "look" /\ i = Len(stack[t]) =>
       result[t].how # "pending" /\ result[t].mod = f.mod /\ (result[t].how = "there" => f.mod \in venv)

LEMMA StillFound ==
  ASSUME DepsInv, NEW t \in Importers, OthersStand(t), venv \subseteq venv',
         \A p \in DepProcesses : py'[p].loaded \subseteq venv',
         \A u \in Importers : u # t => result'[u] = result[u],
         \A i \in DOMAIN stack'[t] : FrameFound(t, i)'
  PROVE  FoundIsThere'
<1>1. ASSUME NEW u \in Importers, NEW i \in DOMAIN stack'[u]  PROVE FrameFound(u, i)'
  <2>1. CASE u = t
    BY <2>1
  <2>2. CASE u # t
    BY <2>2 DEF OthersStand, DepsInv, FoundIsThere, FrameFound
  <2>. QED  BY <2>1, <2>2
<1>2. Present \subseteq venv'
  BY DEF DepsInv, FoundIsThere
<1>. QED  BY <1>1, <1>2 DEF FoundIsThere, FrameFound

FrameOptional(t, i) ==
  LET f == stack[t][i] IN
  /\ \A k \in DOMAIN f.todo : f.todo[k] \in Present
  /\ f.at = "find" => f.mod \notin Present
  /\ i < Len(stack[t]) /\ f.at = "body" => stack[t][i + 1].mod \in Present

LEMMA StillOptional ==
  ASSUME DepsInv, NEW t \in Importers, OthersStand(t), OptionalsThere => \A i \in DOMAIN stack'[t] : FrameOptional(t, i)'
  PROVE  OptionalsFound'
<1>1. OptionalsThere' <=> OptionalsThere
  BY DEF OptionalsThere
<1>2. ASSUME OptionalsThere, NEW u \in Importers, NEW i \in DOMAIN stack'[u]  PROVE FrameOptional(u, i)'
  <2>1. CASE u = t
    BY <1>2, <2>1
  <2>2. CASE u # t
    BY <1>2, <2>2 DEF OthersStand, DepsInv, OptionalsFound, FrameOptional
  <2>. QED  BY <2>1, <2>2
<1>. QED  BY <1>1, <1>2 DEF OptionalsFound, FrameOptional
MoreFailed == notInstalled' \in [DepProcesses -> SUBSET Packages] /\ \A p \in DepProcesses : notInstalled[p] \subseteq notInstalled'[p]

ReasonNext(p, n) == PackageOf[n] = "unmapped" \/ n \in Phantom \/ PackageOf[n] \in notInstalled'[p]

LEMMA ReasonsStay ==
  ASSUME MoreFailed, NEW p \in DepProcesses, NEW n, HasReason(p, n)
  PROVE  ReasonNext(p, n)
BY DEF MoreFailed, HasReason, ReasonNext

LEMMA StillReason ==
  ASSUME DepsInv, NEW t \in Importers, OthersStand(t), venv \subseteq venv', MoreFailed,
         \A p \in DepProcesses : py'[p].attempted = py[p].attempted,
         \A i \in DOMAIN stack[t] : stack[t][i].at \in {"file", "look", "pip"} =>
           \/ \E j \in DOMAIN stack'[t] : stack'[t][j].mod = stack[t][i].mod /\ stack'[t][j].at \in {"file", "look", "pip"}
           \/ stack[t][i].mod \in venv' \/ ReasonNext(ProcessOf[t], stack[t][i].mod),
         \A i \in DOMAIN stack'[t] :
           stack'[t][i].at \in {"find", "resolve"} /\ PackageOf[stack'[t][i].mod] \in py[ProcessOf[t]].attempted =>
             \/ ReasonNext(ProcessOf[t], stack'[t][i].mod)
             \/ \E j \in DOMAIN stack'[t] : stack'[t][j].mod = stack'[t][i].mod /\ stack'[t][j].at = "look"
  PROVE  TriesHaveReason'
<1>0. \A u \in Importers : ProcessOf[u] \in DepProcesses
  BY DEF DepProcesses
<1>1. ASSUME NEW p \in DepProcesses, NEW n \in Modules, PackageOf[n] \in py[p].attempted
      PROVE  n \in venv' \/ ReasonNext(p, n) \/ SeesTo(p, n)'
  <2>1. n \in venv \/ HasReason(p, n) \/ SeesTo(p, n)
    BY <1>1 DEF DepsInv, TriesHaveReason
  <2>2. CASE SeesTo(p, n)
    <3>1. PICK u \in Importers : ProcessOf[u] = p /\ \E i \in DOMAIN stack[u] :
             stack[u][i].mod = n /\ stack[u][i].at \in {"file", "look", "pip"}
      BY <2>2 DEF SeesTo
    <3>2. PICK i \in DOMAIN stack[u] : stack[u][i].mod = n /\ stack[u][i].at \in {"file", "look", "pip"}
      BY <3>1
    <3>3. CASE u = t
      BY <3>1, <3>2, <3>3 DEF SeesTo
    <3>4. CASE u # t
      BY <3>1, <3>2, <3>4 DEF SeesTo, OthersStand
    <3>. QED  BY <3>3, <3>4
  <2>. QED  BY <2>1, <2>2, ReasonsStay
<1>2. ASSUME NEW u \in Importers, NEW i \in DOMAIN stack'[u], stack'[u][i].at \in {"find", "resolve"},
             PackageOf[stack'[u][i].mod] \in py[ProcessOf[u]].attempted
      PROVE  \/ ReasonNext(ProcessOf[u], stack'[u][i].mod)
             \/ \E j \in DOMAIN stack'[u] : stack'[u][j].mod = stack'[u][i].mod /\ stack'[u][j].at = "look"
  <2>1. CASE u = t
    BY <1>2, <2>1
  <2>2. CASE u # t
    <3>1. stack'[u] = stack[u]
      BY <2>2 DEF OthersStand
    <3>2. HasReason(ProcessOf[u], stack[u][i].mod) \/ LooksFor(u, stack[u][i].mod)
      BY <1>2, <3>1 DEF DepsInv, TriesHaveReason, Mine
    <3>3. CASE HasReason(ProcessOf[u], stack[u][i].mod)
      BY <1>0, <3>1, <3>3 DEF MoreFailed, HasReason, ReasonNext
    <3>4. CASE LooksFor(u, stack[u][i].mod)
      BY <3>1, <3>4 DEF LooksFor
    <3>. QED  BY <3>2, <3>3, <3>4
  <2>. QED  BY <2>1, <2>2
<1>. QED  BY <1>0, <1>1, <1>2 DEF TriesHaveReason, HasReason, ReasonNext, SeesTo, LooksFor, Mine

LEMMA StillForAReason ==
  ASSUME DepsInv, NEW t \in Importers, OthersStand(t), MoreFailed,
         \A u \in Importers : u # t => result'[u] = result[u],
         result'[t].how = "missing" /\ stack'[t] = <<>> => ReasonNext(ProcessOf[t], result'[t].mod)
  PROVE  FailsForAReason'
<1>1. ASSUME NEW u \in Importers, result'[u].how = "missing", stack'[u] = <<>>
      PROVE  PackageOf[result'[u].mod] = "unmapped" \/ result'[u].mod \in Phantom
             \/ PackageOf[result'[u].mod] \in notInstalled'[ProcessOf[u]]
  <2>1. CASE u = t
    BY <1>1, <2>1 DEF ReasonNext
  <2>2. CASE u # t
    <3>1. ProcessOf[u] \in DepProcesses /\ result[u].how = "missing" /\ stack[u] = <<>> /\ result'[u] = result[u]
      BY <1>1, <2>2 DEF DepProcesses, OthersStand
    <3>. QED  BY <3>1 DEF DepsInv, FailsForAReason, MoreFailed
  <2>. QED  BY <2>1, <2>2
<1>. QED  BY <1>1 DEF FailsForAReason

\* Nests: what a step makes of the stack of its thread.
LEMMA StillNested ==
  ASSUME DepsInv, NEW t \in Importers, OthersStand(t), Len(stack'[t]) \in Nat,
         \A i \in DOMAIN stack'[t] : i < Len(stack'[t]) =>
           /\ stack'[t][i].at \in {"look", "body"}
           /\ stack'[t][i].at = "look" => stack'[t][i + 1].mod = stack'[t][i].mod
  PROVE  StacksNest'
<1>1. ASSUME NEW u \in Importers, NEW i \in DOMAIN stack'[u], i < Len(stack'[u])
      PROVE  /\ stack'[u][i].at \in {"look", "body"}
             /\ stack'[u][i].at = "look" => stack'[u][i + 1].mod = stack'[u][i].mod
  <2>1. CASE u = t
    BY <1>1, <2>1
  <2>2. CASE u # t
    BY <1>1, <2>2 DEF OthersStand, DepsInv, StacksNest
  <2>. QED  BY <2>1, <2>2
<1>. QED  BY <1>1 DEF StacksNest

LEMMA SetsIs ==
  ASSUME DepsTypes, NEW t \in Importers, NEW new \in Interpreters, Sets(t, new)
  PROVE  /\ py' \in [DepProcesses -> Interpreters] /\ py'[ProcessOf[t]] = new
         /\ \A p \in DepProcesses : p # ProcessOf[t] => py'[p] = py[p]
<1>1. ProcessOf[t] \in DepProcesses
  BY DEF DepProcesses
<1>. QED  BY <1>1 DEF DepsTypes, Sets
-----------------------------------------------------------------------------
(* Pops, and moves of the innermost import from one place to the next.      *)
LEMMA PopKeeps ==
  ASSUME DepsInv, NEW t \in Importers, stack[t] # <<>>, NEW how \in {"there", "missing", "raised"}, Pops(t, how),
         how = "there" => Top(t).mod \in venv, UNCHANGED venv
  PROVE  /\ Popped(t) /\ StacksNest' /\ ModulesApart' /\ OptionalsFound'
         /\ \A i \in DOMAIN stack'[t] : FrameFound(t, i)'
         /\ result' \in [Importers -> [how : {"pending", "there", "missing", "raised"}, mod : Modules \union {""}]]
         /\ result'[t] = [how |-> how, mod |-> Top(t).mod] /\ \A u \in Importers : u # t => result'[u] = result[u]
         /\ stack'[t] = <<>> => Len(stack[t]) = 1
<1>. DEFINE n == Len(stack[t])
<1>1. n \in Nat \ {0} /\ n \in DOMAIN stack[t] /\ DOMAIN stack[t] = 1..n /\ Top(t) = stack[t][n] /\ Top(t).mod \in Modules
  BY TopIsFrame, FramesHave DEF DepsInv
<1>2. Popped(t)
  BY PopsIs DEF DepsInv, Pops
<1>3. /\ OthersStand(t) /\ Below(t) /\ Len(stack'[t]) = n - 1
      /\ \A i \in DOMAIN stack'[t] : i \in DOMAIN stack[t] /\ i < n /\ stack'[t][i] = stack[t][i]
  BY <1>2 DEF Popped
<1>. HIDE DEF n
<1>4. StacksNest'
  <2>1. ASSUME NEW i \in DOMAIN stack'[t], i < Len(stack'[t])
        PROVE  /\ stack'[t][i].at \in {"look", "body"}
               /\ stack'[t][i].at = "look" => stack'[t][i + 1].mod = stack'[t][i].mod
    <3>1. i \in 1..n /\ i < n - 1 /\ i + 1 \in 1..n /\ i + 1 < n
      BY <1>1, <1>3, <2>1
    <3>2. stack'[t][i] = stack[t][i] /\ stack'[t][i + 1] = stack[t][i + 1]
      BY <1>1, <1>3, <3>1 DEF Below, n
    <3>. QED  BY <1>1, <1>3, <2>1, <3>2 DEF DepsInv, StacksNest, n
  <2>2. Len(stack'[t]) \in Nat
    BY <1>1, <1>3
  <2>. QED  BY <1>3, <2>1, <2>2, StillNested
<1>5. ModulesApart'
  <2>1. \A i \in DOMAIN stack'[t] : stack'[t][i].at # "enter" =>
          \E j \in DOMAIN stack[t] : stack[t][j].mod = stack'[t][i].mod /\ stack[t][j].at # "enter"
    BY <1>3
  <2>. QED  BY <1>3, <2>1, StillApart
<1>6. /\ result' \in [Importers -> [how : {"pending", "there", "missing", "raised"}, mod : Modules \union {""}]]
      /\ result'[t] = [how |-> how, mod |-> Top(t).mod] /\ \A u \in Importers : u # t => result'[u] = result[u]
  BY <1>1 DEF DepsInv, DepsTypes, Pops
<1>7. ASSUME NEW i \in DOMAIN stack'[t]  PROVE FrameFound(t, i)'
  <2>1. i \in DOMAIN stack[t] /\ i < n /\ stack'[t][i] = stack[t][i]
    BY <1>3
  <2>2. (stack[t][i].at \in {"load", "body"} => stack[t][i].mod \in venv) /\ (stack[t][i].at = "again" => stack[t][i].mod \in venv \union Phantom)
    BY <2>1 DEF DepsInv, FoundIsThere
  <2>3. ASSUME stack[t][i].at = "look", i = Len(stack'[t])  PROVE Top(t).mod = stack[t][i].mod
    <3>1. i + 1 = n
      BY <1>1, <1>3, <2>3
    <3>2. stack[t][i + 1].mod = stack[t][i].mod
      BY <2>1, <2>3 DEF DepsInv, StacksNest, n
    <3>. QED  BY <1>1, <3>1, <3>2
  <2>4. ASSUME stack'[t][i].at = "look", i = Len(stack'[t])
        PROVE  result'[t].how # "pending" /\ result'[t].mod = stack'[t][i].mod /\ (result'[t].how = "there" => stack'[t][i].mod \in venv')
    <3>1. Top(t).mod = stack[t][i].mod /\ stack'[t][i].mod = stack[t][i].mod
      BY <2>1, <2>3, <2>4
    <3>2. result'[t].how = how /\ result'[t].mod = Top(t).mod
      <4>1. result'[t] = [how |-> how, mod |-> Top(t).mod]
        BY <1>6
      <4>. QED  BY <4>1
    <3>3. how # "pending"
      OBVIOUS
    <3>. QED  BY <3>1, <3>2, <3>3
  <2>5. (stack'[t][i].at \in {"load", "body"} => stack'[t][i].mod \in venv') /\ (stack'[t][i].at = "again" => stack'[t][i].mod \in venv' \union Phantom)
    BY <2>1, <2>2
  <2>. QED  BY <2>4, <2>5 DEF FrameFound
<1>8. OptionalsFound'
  <2>1. ASSUME OptionalsThere, NEW i \in DOMAIN stack'[t]  PROVE FrameOptional(t, i)'
    <3>1. i \in DOMAIN stack[t] /\ i < n /\ stack'[t][i] = stack[t][i]
      BY <1>3
    <3>2. FrameOptional(t, i)
      BY <2>1, <3>1 DEF DepsInv, OptionalsFound, FrameOptional
    <3>3. ASSUME i < Len(stack'[t])  PROVE stack'[t][i + 1] = stack[t][i + 1]
      <4>1. i + 1 \in 1..n /\ i + 1 < n
        BY <1>1, <1>3, <3>1, <3>3
      <4>. QED  BY <1>1, <1>3, <4>1 DEF Below, n
    <3>. QED  BY <3>1, <3>2, <3>3 DEF FrameOptional, n
  <2>. QED  BY <1>3, <2>1, StillOptional
<1>9. stack'[t] = <<>> => n = 1
  BY <1>1, <1>3
<1>. QED  BY <1>2, <1>4, <1>5, <1>6, <1>7, <1>8, <1>9 DEF n

LEMMA GoKeeps ==
  ASSUME DepsInv, NEW t \in Importers, stack[t] # <<>>, Top(t).at # "enter" \/ ModuleFree(t, Top(t).mod),
         NEW f \in Frames, TopBecomes(t, f), f.at # "enter", f.at = "find" => f.mod \notin Present, f.mod = Top(t).mod,
         OptionalsThere => \A k \in DOMAIN f.todo : f.todo[k] \in Present,
         \A u \in Importers : u # t => result'[u] = result[u], UNCHANGED notInstalled
  PROVE  /\ Gone(t, f) /\ StacksNest' /\ ModulesApart' /\ OptionalsFound' /\ FailsForAReason'
         /\ Top(t) = stack[t][Len(stack[t])] /\ Len(stack[t]) \in DOMAIN stack[t]
<1>. DEFINE n == Len(stack[t])
<1>1. n \in Nat \ {0} /\ n \in DOMAIN stack[t] /\ DOMAIN stack[t] = 1..n /\ Top(t) = stack[t][n] /\ stack[t][n] \in Frames
  BY TopIsFrame DEF DepsInv
<1>2. Gone(t, f)
  BY GoesIs DEF DepsInv
<1>3. /\ OthersStand(t) /\ Below(t) /\ Len(stack'[t]) = n /\ DOMAIN stack'[t] = DOMAIN stack[t] /\ stack'[t][n] = f
      /\ \A i \in DOMAIN stack'[t] : i < n \/ i = n
  BY <1>2 DEF Gone
<1>4. \A i \in DOMAIN stack'[t] : i < n => i \in DOMAIN stack[t] /\ stack'[t][i] = stack[t][i]
  BY <1>3 DEF Below
<1>. HIDE DEF n
<1>5. StacksNest'
  <2>1. ASSUME NEW i \in DOMAIN stack'[t], i < Len(stack'[t])
        PROVE  /\ stack'[t][i].at \in {"look", "body"}
               /\ stack'[t][i].at = "look" => stack'[t][i + 1].mod = stack'[t][i].mod
    <3>1. i \in DOMAIN stack[t] /\ stack'[t][i] = stack[t][i] /\ i < n
      BY <1>3, <1>4, <2>1
    <3>2. i + 1 \in DOMAIN stack'[t] /\ (i + 1 < n \/ i + 1 = n)
      BY <1>1, <1>3, <3>1
    <3>3. stack'[t][i + 1].mod = stack[t][i + 1].mod
      BY <1>1, <1>3, <1>4, <3>2
    <3>. QED  BY <3>1, <3>3 DEF DepsInv, StacksNest, n
  <2>. QED  BY <1>1, <1>3, <2>1, StillNested
<1>6. ModulesApart'
  <2>1. \A i \in DOMAIN stack'[t] : stack'[t][i].at # "enter" =>
          \/ \E j \in DOMAIN stack[t] : stack[t][j].mod = stack'[t][i].mod /\ stack[t][j].at # "enter"
          \/ ModuleFree(t, stack'[t][i].mod)
    BY <1>1, <1>3, <1>4
  <2>. QED  BY <1>3, <2>1, StillApart
<1>7. OptionalsFound'
  <2>1. ASSUME OptionalsThere, NEW i \in DOMAIN stack'[t]  PROVE FrameOptional(t, i)'
    <3>1. CASE i = n
      BY <1>1, <1>3, <2>1, <3>1 DEF FrameOptional
    <3>2. CASE i < n
      <4>1. i \in DOMAIN stack[t] /\ stack'[t][i] = stack[t][i] /\ FrameOptional(t, i)
        BY <1>4, <2>1, <3>2 DEF DepsInv, OptionalsFound, FrameOptional
      <4>2. i + 1 \in DOMAIN stack'[t] /\ (i + 1 < n \/ i + 1 = n)
        BY <1>1, <1>3, <3>2
      <4>3. stack'[t][i + 1].mod = stack[t][i + 1].mod
        BY <1>1, <1>3, <1>4, <4>2
      <4>. QED  BY <1>3, <3>2, <4>1, <4>3 DEF FrameOptional, n
    <3>. QED  BY <1>3, <3>1, <3>2
  <2>. QED  BY <1>3, <2>1, StillOptional
<1>8. FailsForAReason'
  <2>1. stack'[t] # <<>>
    BY <1>1, <1>3
  <2>2. MoreFailed
    BY DEF MoreFailed, DepsInv, DepsTypes
  <2>. QED  BY <1>3, <2>1, <2>2, StillForAReason
<1>. QED  BY <1>1, <1>2, <1>5, <1>6, <1>7, <1>8 DEF n

\* An import begins within another, whose frame becomes f.
LEMMA PushKeeps ==
  ASSUME DepsInv, NEW t \in Importers, stack[t] # <<>>, NEW f \in Frames, NEW g \in Frames,
         Pushed(t, f, g), g.at = "enter", g.todo = <<>>, Top(t).at # "enter", f.mod = Top(t).mod,
         (f.at = "look" /\ g.mod = f.mod) \/ (f.at = "body" /\ (OptionalsThere => g.mod \in Present)),
         OptionalsThere => \A k \in DOMAIN f.todo : f.todo[k] \in Present,
         f.at = "body" => Top(t).at = "body", UNCHANGED <<venv, result, notInstalled>>
  PROVE  /\ StacksNest' /\ ModulesApart' /\ OptionalsFound' /\ FailsForAReason'
         /\ \A i \in DOMAIN stack'[t] : FrameFound(t, i)'
         /\ Top(t) = stack[t][Len(stack[t])] /\ Len(stack[t]) \in DOMAIN stack[t]
<1>. DEFINE n == Len(stack[t])
<1>1. n \in Nat \ {0} /\ n \in DOMAIN stack[t] /\ DOMAIN stack[t] = 1..n /\ Top(t) = stack[t][n] /\ stack[t][n] \in Frames
  BY TopIsFrame DEF DepsInv
<1>3. /\ OthersStand(t) /\ Below(t) /\ Len(stack'[t]) = n + 1 /\ DOMAIN stack'[t] = 1..(n + 1)
      /\ stack'[t][n] = f /\ stack'[t][n + 1] = g
      /\ \A i \in DOMAIN stack'[t] : i < n \/ i = n \/ i = n + 1
  BY DEF Pushed
<1>4. \A i \in DOMAIN stack'[t] : i < n => i \in DOMAIN stack[t] /\ stack'[t][i] = stack[t][i]
  BY <1>1, <1>3 DEF Below
<1>. HIDE DEF n
<1>5. StacksNest'
  <2>1. ASSUME NEW i \in DOMAIN stack'[t], i < Len(stack'[t])
        PROVE  /\ stack'[t][i].at \in {"look", "body"}
               /\ stack'[t][i].at = "look" => stack'[t][i + 1].mod = stack'[t][i].mod
    <3>1. CASE i = n
      BY <1>3, <3>1
    <3>2. CASE i < n
      <4>1. i \in DOMAIN stack[t] /\ stack'[t][i] = stack[t][i]
        BY <1>4, <3>2
      <4>2. i + 1 \in DOMAIN stack'[t] /\ (i + 1 < n \/ i + 1 = n)
        BY <1>1, <1>3, <3>2, <4>1
      <4>3. stack'[t][i + 1].mod = stack[t][i + 1].mod
        BY <1>1, <1>3, <1>4, <4>2
      <4>. QED  BY <3>2, <4>1, <4>3 DEF DepsInv, StacksNest, n
    <3>. QED  BY <1>1, <1>3, <2>1, <3>1, <3>2
  <2>. QED  BY <1>1, <1>3, <2>1, StillNested
<1>6. ModulesApart'
  <2>1. \A i \in DOMAIN stack'[t] : stack'[t][i].at # "enter" =>
          \E j \in DOMAIN stack[t] : stack[t][j].mod = stack'[t][i].mod /\ stack[t][j].at # "enter"
    BY <1>1, <1>3, <1>4
  <2>. QED  BY <1>3, <2>1, StillApart
<1>7. OptionalsFound'
  <2>1. ASSUME OptionalsThere, NEW i \in DOMAIN stack'[t]  PROVE FrameOptional(t, i)'
    <3>1. CASE i = n
      BY <1>1, <1>3, <2>1, <3>1 DEF FrameOptional
    <3>2. CASE i < n
      <4>1. i \in DOMAIN stack[t] /\ stack'[t][i] = stack[t][i] /\ FrameOptional(t, i)
        BY <1>4, <2>1, <3>2 DEF DepsInv, OptionalsFound, FrameOptional
      <4>2. i + 1 \in DOMAIN stack'[t] /\ (i + 1 < n \/ i + 1 = n)
        BY <1>1, <1>3, <3>2, <4>1
      <4>3. stack'[t][i + 1].mod = stack[t][i + 1].mod
        BY <1>1, <1>3, <1>4, <4>2
      <4>. QED  BY <1>3, <3>2, <4>1, <4>3 DEF FrameOptional, n
    <3>3. CASE i = n + 1
      <4>1. ~ (i < Len(stack'[t])) /\ stack'[t][i] = g
        BY <1>1, <1>3, <3>3
      <4>. QED  BY <4>1 DEF FrameOptional
    <3>. QED  BY <1>3, <3>1, <3>2, <3>3
  <2>. QED  BY <1>3, <2>1, StillOptional
<1>8. FailsForAReason'
  <2>1. stack'[t] # <<>>
    BY <1>1, <1>3
  <2>2. MoreFailed
    BY DEF MoreFailed, DepsInv, DepsTypes
  <2>. QED  BY <1>3, <2>1, <2>2, StillForAReason
<1>9. ASSUME NEW i \in DOMAIN stack'[t]  PROVE FrameFound(t, i)'
  <2>1. CASE i = n + 1
    BY <1>3, <2>1 DEF FrameFound
  <2>2. CASE i < n
    <3>1. i \in DOMAIN stack[t] /\ stack'[t][i] = stack[t][i] /\ i # Len(stack'[t])
      BY <1>1, <1>3, <1>4, <2>2
    <3>. QED  BY <3>1 DEF FrameFound, DepsInv, FoundIsThere
  <2>3. CASE i = n
    <3>1. i # Len(stack'[t]) /\ stack'[t][i] = f
      BY <1>1, <1>3, <2>3
    <3>2. Top(t).at = "body" => Top(t).mod \in venv
      BY <1>1 DEF DepsInv, FoundIsThere
    <3>. QED  BY <3>1, <3>2 DEF FrameFound
  <2>. QED  BY <1>3, <2>1, <2>2, <2>3
<1>. QED  BY <1>1, <1>5, <1>6, <1>7, <1>8, <1>9 DEF n

-----------------------------------------------------------------------------
(* Steps that leave the locks, pip and what is tried alone.                  *)
QuietFrames(t) ==
  /\ \A i \in DOMAIN stack'[t] : stack'[t][i].at \in Working =>
       i \in DOMAIN stack[t] /\ stack'[t][i] = stack[t][i]
  /\ \A i \in DOMAIN stack[t] : stack[t][i].at \in Working =>
       i \in DOMAIN stack'[t] /\ stack'[t][i] = stack[t][i]
  /\ \A i \in DOMAIN stack'[t] : stack'[t][i].at = "find" =>
       \/ i \in DOMAIN stack[t] /\ stack'[t][i] = stack[t][i]
       \/ PackageOf[stack'[t][i].mod] \in Mine(t).attempted =>
            HasReason(ProcessOf[t], stack'[t][i].mod) \/ LooksFor(t, stack'[t][i].mod)

Results == [Importers -> [how : {"pending", "there", "missing", "raised"}, mod : Modules \union {""}]]

LEMMA QuietKeeps ==
  ASSUME DepsInv, NEW t \in Importers, OthersStand(t), UNCHANGED <<venv, fileLock, ran, notInstalled>>, SameLocks,
         \A p \in DepProcesses : py'[p].attempted = py[p].attempted /\ py'[p].loaded \subseteq venv,
         result' \in Results, \A u \in Importers : u # t => result'[u] = result[u],
         QuietFrames(t), \A i \in DOMAIN stack'[t] : FrameFound(t, i)'
  PROVE  /\ DepsTypes' /\ LocksAreHeld' /\ LocksHaveHolders' /\ FileLockIsHeld'
         /\ TriedSoFar' /\ FoundIsThere' /\ TriesHaveReason'
<1>1. DepsTypes'
  BY DEF DepsInv, DepsTypes, OthersStand, SameLocks, Results
<1>2. LocksAreHeld' /\ LocksHaveHolders'
  BY LocksStay DEF QuietFrames, Resolves
<1>3. FileLockIsHeld'
  BY FileLockStays DEF QuietFrames, HoldsFile, Working
<1>4. TriedSoFar'
  <2>1. \A i \in DOMAIN stack'[t] : stack'[t][i].at \in {"file", "look", "pip", "again"} =>
           \E j \in DOMAIN stack[t] : /\ stack[t][j].mod = stack'[t][i].mod
                                      /\ stack[t][j].at \in {"file", "look", "pip", "again"}
                                      /\ stack'[t][i].at \in {"file", "look"} => stack[t][j].at \in {"file", "look"}
    BY DEF QuietFrames, Working
  <2>. QED  BY <2>1, StillTried
<1>5. FoundIsThere'
  BY StillFound
<1>6. TriesHaveReason'
  <2>0. MoreFailed /\ ProcessOf[t] \in DepProcesses
    BY DEF MoreFailed, DepsInv, DepsTypes, DepProcesses
  <2>1. \A i \in DOMAIN stack[t] : stack[t][i].at \in {"file", "look", "pip"} =>
          \E j \in DOMAIN stack'[t] : stack'[t][j].mod = stack[t][i].mod /\ stack'[t][j].at \in {"file", "look", "pip"}
    BY DEF QuietFrames, Working
  <2>2. ASSUME NEW i \in DOMAIN stack'[t], stack'[t][i].at \in {"find", "resolve"},
               PackageOf[stack'[t][i].mod] \in py[ProcessOf[t]].attempted
        PROVE  \/ ReasonNext(ProcessOf[t], stack'[t][i].mod)
               \/ \E j \in DOMAIN stack'[t] : stack'[t][j].mod = stack'[t][i].mod /\ stack'[t][j].at = "look"
    <3>1. HasReason(ProcessOf[t], stack'[t][i].mod) \/ LooksFor(t, stack'[t][i].mod)
      <4>1. CASE i \in DOMAIN stack[t] /\ stack'[t][i] = stack[t][i]
        BY <2>2, <4>1 DEF DepsInv, TriesHaveReason, Mine
      <4>2. CASE ~ (i \in DOMAIN stack[t] /\ stack'[t][i] = stack[t][i])
        <5>1. stack'[t][i].at = "find"
          BY <2>2, <4>2 DEF QuietFrames, Working
        <5>. QED  BY <2>2, <4>2, <5>1 DEF QuietFrames, Mine
      <4>. QED  BY <4>1, <4>2
    <3>2. CASE HasReason(ProcessOf[t], stack'[t][i].mod)
      BY <2>0, <3>2, ReasonsStay
    <3>3. CASE LooksFor(t, stack'[t][i].mod)
      <4>1. PICK j \in DOMAIN stack[t] : stack[t][j].mod = stack'[t][i].mod /\ stack[t][j].at = "look"
        BY <3>3 DEF LooksFor
      <4>. QED  BY <4>1 DEF QuietFrames, Working
    <3>. QED  BY <3>1, <3>2, <3>3
  <2>. QED  BY <2>0, <2>1, <2>2, StillReason
<1>. QED  BY <1>1, <1>2, <1>3, <1>4, <1>5, <1>6

LEMMA QuietPop ==
  ASSUME DepsInv, NEW t \in Importers, stack[t] # <<>>, Popped(t), Top(t).at \notin Working
  PROVE  QuietFrames(t)
<1>1. /\ Len(stack[t]) \in Nat \ {0} /\ DOMAIN stack[t] = 1..Len(stack[t]) /\ Top(t) = stack[t][Len(stack[t])]
  BY TopIsFrame DEF DepsInv
<1>2. \A i \in DOMAIN stack[t] : stack[t][i].at \in Working => i < Len(stack[t])
  BY <1>1
<1>. QED  BY <1>2 DEF QuietFrames, Popped, Below

LEMMA QuietGo ==
  ASSUME DepsInv, NEW t \in Importers, stack[t] # <<>>, NEW f, Gone(t, f), Top(t).at \notin Working,
         f.at \notin Working,
         f.at = "find" /\ PackageOf[f.mod] \in Mine(t).attempted => HasReason(ProcessOf[t], f.mod) \/ LooksFor(t, f.mod)
  PROVE  QuietFrames(t)
<1>1. /\ Len(stack[t]) \in Nat \ {0} /\ DOMAIN stack[t] = 1..Len(stack[t]) /\ Top(t) = stack[t][Len(stack[t])]
  BY TopIsFrame DEF DepsInv
<1>2. \A i \in DOMAIN stack[t] : stack[t][i].at \in Working => i < Len(stack[t])
  BY <1>1
<1>3. \A i \in DOMAIN stack'[t] : i \in DOMAIN stack[t] /\ (stack'[t][i] = stack[t][i] \/ stack'[t][i] = f)
  BY DEF Gone, Below
<1>. QED  BY <1>2, <1>3 DEF QuietFrames, Gone, Below

LEMMA QuietPush ==
  ASSUME DepsInv, NEW t \in Importers, stack[t] # <<>>, NEW f, NEW g, Pushed(t, f, g), Top(t).at \notin Working,
         f.at \notin Working, f.at # "find", g.at = "enter"
  PROVE  QuietFrames(t)
<1>1. /\ Len(stack[t]) \in Nat \ {0} /\ DOMAIN stack[t] = 1..Len(stack[t]) /\ Top(t) = stack[t][Len(stack[t])]
  BY TopIsFrame DEF DepsInv
<1>2. \A i \in DOMAIN stack[t] : stack[t][i].at \in Working => i < Len(stack[t])
  BY <1>1
<1>3. \A i \in DOMAIN stack'[t] : (i \in DOMAIN stack[t] /\ stack'[t][i] = stack[t][i]) \/ stack'[t][i] = f \/ stack'[t][i] = g
  BY DEF Pushed, Below
<1>4. g.at \notin Working /\ g.at # "find"
  BY DEF Working
<1>. QED  BY <1>2, <1>3, <1>4 DEF QuietFrames, Pushed, Below

LEMMA Unset ==
  ASSUME DepsTypes, UNCHANGED py
  PROVE  /\ py' \in [DepProcesses -> Interpreters] /\ SameLocks
         /\ \A p \in DepProcesses : py'[p].attempted = py[p].attempted /\ py'[p].loaded = py[p].loaded
BY DEF SameLocks, DepsTypes

LEMMA StartKeeps ==
  ASSUME DepsInv, NEW t \in Importers, NEW n \in Modules, StartImport(t, n)  PROVE DepsInv'
<1>. DEFINE f == Frame(n, "enter")
<1>1. f \in Frames /\ f.mod = n /\ f.at = "enter" /\ f.todo = <<>>
  BY DEF Frame, Frames, Places
<1>. HIDE DEF f
<1>2. <<f>> \in Seq(Frames) /\ Len(<<f>>) = 1 /\ DOMAIN <<f>> = {1} /\ <<f>>[1] = f
  BY <1>1
<1>3. OthersStand(t) /\ stack'[t] = <<f>> /\ DOMAIN stack'[t] = {1} /\ Len(stack'[t]) = 1 /\ stack'[t][1] = f
  BY <1>2 DEF StartImport, f, DepsInv, DepsTypes, OthersStand
<1>4. stack[t] = <<>> /\ DOMAIN stack[t] = {} /\ UNCHANGED <<venv, fileLock, py, result, ran, notInstalled>>
  BY DEF StartImport
<1>5. QuietFrames(t)
  BY <1>1, <1>3, <1>4 DEF QuietFrames, Working
<1>6. \A i \in DOMAIN stack'[t] : FrameFound(t, i)'
  BY <1>1, <1>3 DEF FrameFound
<1>7. /\ DepsTypes' /\ LocksAreHeld' /\ LocksHaveHolders' /\ FileLockIsHeld'
      /\ TriedSoFar' /\ FoundIsThere' /\ TriesHaveReason'
  BY <1>3, <1>4, <1>5, <1>6, Unset, QuietKeeps DEF DepsInv, DepsTypes, Results, FoundIsThere
<1>8. StacksNest'
  <2>1. Len(stack'[t]) \in Nat /\ \A i \in DOMAIN stack'[t] : ~ (i < Len(stack'[t]))
    BY <1>3
  <2>. QED  BY <1>3, <2>1, StillNested
<1>9. ModulesApart'
  BY <1>1, <1>3, StillApart
<1>10. OptionalsFound'
  <2>1. FrameOptional(t, 1)'
    BY <1>1, <1>3 DEF FrameOptional
  <2>. QED  BY <1>3, <2>1, StillOptional
<1>11. FailsForAReason'
  <2>1. MoreFailed /\ stack'[t] # <<>>
    BY <1>3, <1>4 DEF MoreFailed, DepsInv, DepsTypes
  <2>. QED  BY <1>3, <1>4, <2>1, StillForAReason
<1>. QED  BY <1>7, <1>8, <1>9, <1>10, <1>11 DEF DepsInv

\* An import that ends in nothing worse than "there" has no need of a reason.
LEMMA ThereNeedsNone ==
  ASSUME DepsInv, NEW t \in Importers, OthersStand(t), UNCHANGED notInstalled, result'[t].how # "missing",
         \A u \in Importers : u # t => result'[u] = result[u]
  PROVE  FailsForAReason'
<1>1. MoreFailed
  BY DEF MoreFailed, DepsInv, DepsTypes
<1>. QED  BY <1>1, StillForAReason

LEMMA EnterKeeps ==
  ASSUME DepsInv, NEW t \in Importers, Enter(t)  PROVE DepsInv'
<1>1. stack[t] # <<>> /\ Top(t).at = "enter" /\ ModuleFree(t, Top(t).mod) /\ UNCHANGED <<venv, fileLock, py, ran, notInstalled>>
  BY DEF Enter, FrameAt
<1>2. /\ Len(stack[t]) \in Nat \ {0} /\ DOMAIN stack[t] = 1..Len(stack[t]) /\ Top(t) = stack[t][Len(stack[t])]
      /\ Top(t) \in Frames /\ Len(stack[t]) \in DOMAIN stack[t]
  BY <1>1, TopIsFrame DEF DepsInv
<1>3. ProcessOf[t] \in DepProcesses /\ Top(t).mod \in Modules /\ Top(t).todo \in Seq(Modules)
  BY <1>2 DEF DepProcesses, Frames
<1>4. \A p \in DepProcesses : py[p].loaded \subseteq venv
  BY DEF DepsInv, FoundIsThere
<1>5. CASE Top(t).mod \in Mine(t).loaded
  <2>1. Pops(t, "there") /\ Top(t).mod \in venv
    BY <1>3, <1>4, <1>5 DEF Enter, Mine
  <2>2. /\ Popped(t) /\ StacksNest' /\ ModulesApart' /\ OptionalsFound'
        /\ \A i \in DOMAIN stack'[t] : FrameFound(t, i)'
        /\ result' \in Results /\ result'[t] = [how |-> "there", mod |-> Top(t).mod]
        /\ \A u \in Importers : u # t => result'[u] = result[u]
    BY <1>1, <2>1, PopKeeps DEF Results
  <2>3. QuietFrames(t) /\ OthersStand(t)
    BY <1>1, <2>2, QuietPop DEF Working, Popped
  <2>4. FailsForAReason'
    BY <1>1, <2>2, <2>3, ThereNeedsNone
  <2>. QED  BY <1>1, <1>4, <2>2, <2>3, <2>4, Unset, QuietKeeps DEF DepsInv
<1>6. CASE Top(t).mod \notin Mine(t).loaded
  <2>. DEFINE place == IF Top(t).mod \in venv THEN "load" ELSE "find"
              f == [Top(t) EXCEPT !.at = place]
  <2>1. TopBecomes(t, f) /\ UNCHANGED result
    BY <1>6 DEF Enter, Goes
  <2>2. f \in Frames /\ f.at = place /\ f.mod = Top(t).mod /\ f.todo = Top(t).todo
    BY <1>2 DEF Frames, Places
  <2>3. f.at # "enter" /\ (f.at = "find" => f.mod \notin Present) /\ f.at \notin Working
    BY <2>2 DEF DepsInv, FoundIsThere, Working
  <2>. HIDE DEF f
  <2>4. OptionalsThere => \A k \in DOMAIN f.todo : f.todo[k] \in Present
    BY <1>2, <2>2 DEF DepsInv, OptionalsFound
  <2>5. Gone(t, f) /\ StacksNest' /\ ModulesApart' /\ OptionalsFound' /\ FailsForAReason'
    BY <1>1, <2>1, <2>2, <2>3, <2>4, GoKeeps
  <2>6. ASSUME f.at = "find", PackageOf[f.mod] \in Mine(t).attempted
        PROVE  HasReason(ProcessOf[t], f.mod) \/ LooksFor(t, f.mod)
    <3>1. f.mod \notin venv
      BY <2>2, <2>6
    <3>2. HasReason(ProcessOf[t], f.mod) \/ SeesTo(ProcessOf[t], f.mod)
      BY <1>3, <2>2, <2>6, <3>1 DEF DepsInv, TriesHaveReason, Mine
    <3>3. ASSUME NEW u \in Importers, ProcessOf[u] = ProcessOf[t], NEW i \in DOMAIN stack[u],
                 stack[u][i].mod = f.mod, stack[u][i].at \in {"file", "look", "pip"}
          PROVE  LooksFor(t, f.mod)
      <4>1. u = t
        BY <1>1, <2>2, <3>3 DEF ModuleFree
      <4>2. i < Len(stack[t])
        BY <1>1, <1>2, <3>3, <4>1
      <4>3. stack[t][i].at = "look"
        BY <3>3, <4>1, <4>2 DEF DepsInv, StacksNest
      <4>. QED  BY <3>3, <4>1, <4>3 DEF LooksFor
    <3>. QED  BY <3>2, <3>3 DEF SeesTo
  <2>7. QuietFrames(t)
    BY <1>1, <2>3, <2>5, <2>6, QuietGo DEF Working
  <2>8. \A i \in DOMAIN stack'[t] : FrameFound(t, i)'
    <3>. SUFFICES ASSUME NEW i \in DOMAIN stack'[t]  PROVE FrameFound(t, i)'
      OBVIOUS
    <3>1. CASE i < Len(stack[t])
      <4>1. i \in DOMAIN stack[t] /\ stack'[t][i] = stack[t][i] /\ i # Len(stack'[t])
        BY <1>2, <2>5, <3>1 DEF Gone, Below
      <4>. QED  BY <1>1, <2>1, <4>1 DEF FrameFound, DepsInv, FoundIsThere
    <3>2. CASE i = Len(stack[t])
      <4>1. stack'[t][i] = f
        BY <2>5, <3>2 DEF Gone
      <4>. QED  BY <1>1, <2>2, <4>1 DEF FrameFound
    <3>. QED  BY <2>5, <3>1, <3>2 DEF Gone
  <2>9. result' \in Results /\ \A u \in Importers : u # t => result'[u] = result[u]
    BY <2>1 DEF Results, DepsInv, DepsTypes
  <2>. QED  BY <1>1, <1>4, <2>5, <2>7, <2>8, <2>9, Unset, QuietKeeps DEF DepsInv, Gone
<1>. QED  BY <1>5, <1>6

LEMMA GoFound ==
  ASSUME DepsInv, NEW t \in Importers, stack[t] # <<>>, NEW f, Gone(t, f), venv \subseteq venv', f.at # "look",
         f.at \in {"load", "body"} => f.mod \in venv', f.at = "again" => f.mod \in venv' \union Phantom
  PROVE  \A i \in DOMAIN stack'[t] : FrameFound(t, i)'
<1>1. /\ Len(stack[t]) \in Nat \ {0} /\ DOMAIN stack[t] = 1..Len(stack[t])
  BY TopIsFrame DEF DepsInv
<1>. SUFFICES ASSUME NEW i \in DOMAIN stack'[t]  PROVE FrameFound(t, i)'
  OBVIOUS
<1>2. CASE i < Len(stack[t])
  <2>1. i \in DOMAIN stack[t] /\ stack'[t][i] = stack[t][i] /\ i # Len(stack'[t])
    BY <1>1, <1>2 DEF Gone, Below
  <2>2. (stack[t][i].at \in {"load", "body"} => stack[t][i].mod \in venv) /\ (stack[t][i].at = "again" => stack[t][i].mod \in venv \union Phantom)
    BY <2>1 DEF DepsInv, FoundIsThere
  <2>. QED  BY <2>1, <2>2 DEF FrameFound
<1>3. CASE i = Len(stack[t])
  <2>1. stack'[t][i] = f
    BY <1>3 DEF Gone
  <2>. QED  BY <2>1 DEF FrameFound
<1>. QED  BY <1>2, <1>3 DEF Gone

LEMMA LoadKeeps ==
  ASSUME DepsInv, NEW t \in Importers, Load(t)  PROVE DepsInv'
<1>. DEFINE f == [Top(t) EXCEPT !.at = "body", !.todo = Optional[Top(t).mod]]
            new == [Mine(t) EXCEPT !.loaded = @ \cup {Top(t).mod}]
<1>1. /\ stack[t] # <<>> /\ Top(t).at = "load" /\ Sets(t, new) /\ TopBecomes(t, f)
      /\ UNCHANGED <<venv, fileLock, result, ran, notInstalled>>
  BY DEF Load, FrameAt
<1>2. /\ Len(stack[t]) \in Nat \ {0} /\ DOMAIN stack[t] = 1..Len(stack[t]) /\ Top(t) = stack[t][Len(stack[t])]
      /\ Top(t) \in Frames /\ Len(stack[t]) \in DOMAIN stack[t]
  BY <1>1, TopIsFrame DEF DepsInv
<1>3. ProcessOf[t] \in DepProcesses /\ Top(t).mod \in Modules /\ Mine(t) \in Interpreters
  BY <1>2, FramesHave DEF Frames, DepsInv, Mine
<1>4. Top(t).mod \in venv /\ \A p \in DepProcesses : py[p].loaded \subseteq venv
  BY <1>1, <1>2 DEF DepsInv, FoundIsThere
<1>5. f \in Frames /\ f.at = "body" /\ f.mod = Top(t).mod /\ f.todo = Optional[Top(t).mod]
  BY <1>2, <1>3, DepsAssumption DEF Frames, Places
<1>6. /\ new \in Interpreters /\ new.lock = Mine(t).lock /\ new.resolving = Mine(t).resolving
      /\ new.attempted = Mine(t).attempted /\ new.loaded = Mine(t).loaded \union {Top(t).mod}
  BY <1>3 DEF Interpreters
<1>. HIDE DEF f, new
<1>7. /\ py' \in [DepProcesses -> Interpreters] /\ py'[ProcessOf[t]] = new
      /\ \A p \in DepProcesses : p # ProcessOf[t] => py'[p] = py[p]
  BY <1>1, <1>6, SetsIs DEF DepsInv
<1>8. SameLocks /\ \A p \in DepProcesses : py'[p].attempted = py[p].attempted /\ py'[p].loaded \subseteq venv
  BY <1>3, <1>4, <1>6, <1>7 DEF SameLocks, Mine
<1>9. OptionalsThere => \A k \in DOMAIN f.todo : f.todo[k] \in Present
  BY <1>3, <1>5 DEF OptionalsThere
<1>10. Gone(t, f) /\ StacksNest' /\ ModulesApart' /\ OptionalsFound' /\ FailsForAReason'
  BY <1>1, <1>5, <1>9, GoKeeps
<1>11. QuietFrames(t)
  BY <1>1, <1>5, <1>10, QuietGo DEF Working
<1>12. \A i \in DOMAIN stack'[t] : FrameFound(t, i)'
  BY <1>1, <1>4, <1>5, <1>10, GoFound
<1>13. result' \in Results /\ \A u \in Importers : u # t => result'[u] = result[u]
  BY <1>1 DEF Results, DepsInv, DepsTypes
<1>. QED  BY <1>1, <1>8, <1>10, <1>11, <1>12, <1>13, QuietKeeps DEF DepsInv, Gone

LEMMA BodyKeeps ==
  ASSUME DepsInv, NEW t \in Importers, Body(t)  PROVE DepsInv'
<1>. DEFINE f == [Top(t) EXCEPT !.todo = Tail(@)]
            g == Frame(Head(Top(t).todo), "enter")
            s == stack[t]
<1>1. /\ s # <<>> /\ Top(t).at = "body" /\ Top(t).todo # <<>>
      /\ stack' = [stack EXCEPT ![t] = Append(Append(Front(s), f), g)]
      /\ UNCHANGED <<venv, fileLock, py, result, ran, notInstalled>>
  BY DEF Body, FrameAt
<1>2. /\ Len(s) \in Nat \ {0} /\ DOMAIN s = 1..Len(s) /\ Top(t) = s[Len(s)] /\ Top(t) \in Frames
      /\ Len(s) \in DOMAIN s /\ s \in Seq(Frames)
  BY <1>1, TopIsFrame DEF DepsInv, DepsTypes
<1>3. Top(t).mod \in Modules /\ Top(t).todo \in Seq(Modules)
  BY <1>2 DEF Frames
<1>4. /\ Head(Top(t).todo) \in Modules /\ Tail(Top(t).todo) \in Seq(Modules) /\ Head(Top(t).todo) = Top(t).todo[1]
      /\ 1 \in DOMAIN Top(t).todo
      /\ \A k \in DOMAIN Tail(Top(t).todo) : k + 1 \in DOMAIN Top(t).todo /\ Tail(Top(t).todo)[k] = Top(t).todo[k + 1]
  BY <1>1, <1>3
<1>5. f \in Frames /\ f.at = "body" /\ f.mod = Top(t).mod /\ f.todo = Tail(Top(t).todo)
  BY <1>1, <1>2, <1>4 DEF Frames, Places
<1>6. g \in Frames /\ g.at = "enter" /\ g.todo = <<>> /\ g.mod = Top(t).todo[1]
  BY <1>4 DEF Frame, Frames, Places
<1>. HIDE DEF f, g
<1>7. Append(Front(s), f) = [s EXCEPT ![Len(s)] = f]
  <2>1. Len(s) - 1 \in Nat /\ Len(s) - 1 <= Len(s) /\ \A i \in 1..(Len(s) - 1) : s[i] \in Frames
    BY <1>2
  <2>2. Front(s) \in Seq(Frames) /\ Len(Front(s)) = Len(s) - 1 /\ \A i \in 1..(Len(s) - 1) : Front(s)[i] = s[i]
    BY <1>2, <2>1, SubSeqProperties DEF Front
  <2>3. /\ Append(Front(s), f) \in Seq(Frames) /\ Len(Append(Front(s), f)) = Len(s)
        /\ \A i \in 1..Len(s) : Append(Front(s), f)[i] = IF i = Len(s) THEN f ELSE s[i]
    BY <1>2, <1>5, <2>2
  <2>4. [s EXCEPT ![Len(s)] = f] \in Seq(Frames) /\ Len([s EXCEPT ![Len(s)] = f]) = Len(s)
        /\ \A i \in 1..Len(s) : [s EXCEPT ![Len(s)] = f][i] = IF i = Len(s) THEN f ELSE s[i]
    BY <1>2, <1>5
  <2>. QED  BY <2>3, <2>4, SeqEqual
<1>8. Pushed(t, f, g)
  BY <1>1, <1>5, <1>6, <1>7, PushesIs DEF DepsInv
<1>9. OptionalsThere => g.mod \in Present /\ \A k \in DOMAIN f.todo : f.todo[k] \in Present
  BY <1>2, <1>4, <1>5, <1>6 DEF DepsInv, OptionalsFound
<1>10. /\ StacksNest' /\ ModulesApart' /\ OptionalsFound' /\ FailsForAReason'
       /\ \A i \in DOMAIN stack'[t] : FrameFound(t, i)'
  BY <1>1, <1>5, <1>6, <1>8, <1>9, PushKeeps
<1>11. QuietFrames(t)
  BY <1>1, <1>5, <1>6, <1>8, QuietPush DEF Working
<1>12. result' \in Results /\ \A u \in Importers : u # t => result'[u] = result[u]
  BY <1>1 DEF Results, DepsInv, DepsTypes
<1>13. \A p \in DepProcesses : py[p].loaded \subseteq venv
  BY DEF DepsInv, FoundIsThere
<1>. QED  BY <1>1, <1>8, <1>10, <1>11, <1>12, <1>13, Unset, QuietKeeps DEF DepsInv, Pushed

LEMMA BodyDoneKeeps ==
  ASSUME DepsInv, NEW t \in Importers, BodyDone(t)  PROVE DepsInv'
<1>1. /\ stack[t] # <<>> /\ Top(t).at = "body" /\ Pops(t, "there") /\ UNCHANGED <<venv, fileLock, py, ran, notInstalled>>
  BY DEF BodyDone, FrameAt
<1>2. Top(t).mod \in venv /\ \A p \in DepProcesses : py[p].loaded \subseteq venv
  BY <1>1, TopIsFrame DEF DepsInv, FoundIsThere
<1>3. /\ Popped(t) /\ StacksNest' /\ ModulesApart' /\ OptionalsFound'
      /\ \A i \in DOMAIN stack'[t] : FrameFound(t, i)'
      /\ result' \in Results /\ result'[t] = [how |-> "there", mod |-> Top(t).mod]
      /\ \A u \in Importers : u # t => result'[u] = result[u]
  BY <1>1, <1>2, PopKeeps DEF Results
<1>4. QuietFrames(t) /\ OthersStand(t)
  BY <1>1, <1>3, QuietPop DEF Working, Popped
<1>5. FailsForAReason'
  BY <1>1, <1>3, <1>4, ThereNeedsNone
<1>. QED  BY <1>1, <1>2, <1>3, <1>4, <1>5, Unset, QuietKeeps DEF DepsInv

LEMMA BodyRaisesKeeps ==
  ASSUME DepsInv, NEW t \in Importers, BodyRaises(t)  PROVE DepsInv'
<1>. DEFINE new == [Mine(t) EXCEPT !.loaded = @ \ {Top(t).mod}]
<1>1. /\ stack[t] # <<>> /\ Top(t).at = "body" /\ Sets(t, new) /\ Pops(t, "raised")
      /\ UNCHANGED <<venv, fileLock, ran, notInstalled>>
  BY DEF BodyRaises, FrameAt
<1>2. ProcessOf[t] \in DepProcesses /\ Mine(t) \in Interpreters /\ \A p \in DepProcesses : py[p].loaded \subseteq venv
  BY <1>1, TopIsFrame DEF DepsInv, FoundIsThere, DepsTypes, Mine, DepProcesses
<1>3. /\ new \in Interpreters /\ new.lock = Mine(t).lock /\ new.resolving = Mine(t).resolving
      /\ new.attempted = Mine(t).attempted /\ new.loaded \subseteq Mine(t).loaded
  BY <1>2 DEF Interpreters
<1>. HIDE DEF new
<1>4. /\ py' \in [DepProcesses -> Interpreters] /\ py'[ProcessOf[t]] = new
      /\ \A p \in DepProcesses : p # ProcessOf[t] => py'[p] = py[p]
  BY <1>1, <1>3, SetsIs DEF DepsInv
<1>5. SameLocks /\ \A p \in DepProcesses : py'[p].attempted = py[p].attempted /\ py'[p].loaded \subseteq venv
  BY <1>2, <1>3, <1>4 DEF SameLocks, Mine
<1>6. /\ Popped(t) /\ StacksNest' /\ ModulesApart' /\ OptionalsFound'
      /\ \A i \in DOMAIN stack'[t] : FrameFound(t, i)'
      /\ result' \in Results /\ result'[t] = [how |-> "raised", mod |-> Top(t).mod]
      /\ \A u \in Importers : u # t => result'[u] = result[u]
  BY <1>1, PopKeeps DEF Results
<1>7. QuietFrames(t) /\ OthersStand(t)
  BY <1>1, <1>6, QuietPop DEF Working, Popped
<1>8. FailsForAReason'
  <2>1. MoreFailed
    BY <1>1 DEF MoreFailed, DepsInv, DepsTypes
  <2>2. result'[t].how = "raised"
    BY <1>6
  <2>. QED  BY <1>6, <1>7, <2>1, <2>2, StillForAReason
<1>. QED  BY <1>1, <1>5, <1>6, <1>7, <1>8, QuietKeeps DEF DepsInv

LEMMA FindReenteredKeeps ==
  ASSUME DepsInv, NEW t \in Importers, FindReentered(t)  PROVE DepsInv'
<1>1. /\ stack[t] # <<>> /\ Top(t).at = "find" /\ Top(t).mod \in Mine(t).resolving /\ Pops(t, "missing")
      /\ UNCHANGED <<venv, fileLock, py, ran, notInstalled>>
  BY DEF FindReentered, Reentered, FrameAt
<1>2. \A p \in DepProcesses : py[p].loaded \subseteq venv
  BY DEF DepsInv, FoundIsThere
<1>3. /\ Popped(t) /\ StacksNest' /\ ModulesApart' /\ OptionalsFound'
      /\ \A i \in DOMAIN stack'[t] : FrameFound(t, i)'
      /\ result' \in Results /\ \A u \in Importers : u # t => result'[u] = result[u]
      /\ stack'[t] = <<>> => Len(stack[t]) = 1
  BY <1>1, PopKeeps DEF Results
<1>4. QuietFrames(t) /\ OthersStand(t)
  BY <1>1, <1>3, QuietPop DEF Working, Popped
<1>5. /\ DOMAIN stack[t] = 1..Len(stack[t]) /\ Top(t) = stack[t][Len(stack[t])] /\ Len(stack[t]) \in DOMAIN stack[t]
  BY <1>1, TopIsFrame DEF DepsInv
<1>6. stack'[t] # <<>>
  <2>. SUFFICES ASSUME Len(stack[t]) = 1  PROVE FALSE
    BY <1>3
  <2>1. ProcessOf[t] \in DepProcesses
    BY DEF DepProcesses
  <2>2. PICK u \in Importers : \E i \in DOMAIN stack[u] :
           ProcessOf[u] = ProcessOf[t] /\ Resolves(u, i) /\ stack[u][i].mod = Top(t).mod
    BY <1>1, <2>1 DEF DepsInv, LocksHaveHolders, Mine
  <2>3. PICK i \in DOMAIN stack[u] : ProcessOf[u] = ProcessOf[t] /\ Resolves(u, i) /\ stack[u][i].mod = Top(t).mod
    BY <2>2
  <2>4. u # t
    BY <1>1, <1>5, <2>3 DEF Resolves, Working
  <2>5. stack[u][i].at # "enter" /\ stack[t][Len(stack[t])].at # "enter"
    BY <1>1, <1>5, <2>3 DEF Resolves, Working
  <2>. QED  BY <1>5, <2>3, <2>4, <2>5 DEF DepsInv, ModulesApart
<1>7. FailsForAReason'
  <2>1. MoreFailed
    BY <1>1 DEF MoreFailed, DepsInv, DepsTypes
  <2>. QED  BY <1>3, <1>4, <1>6, <2>1, StillForAReason
<1>. QED  BY <1>1, <1>2, <1>3, <1>4, <1>7, Unset, QuietKeeps DEF DepsInv

-----------------------------------------------------------------------------
(* Steps of who resolves a name.                                            *)
LEMMA GoTries ==
  ASSUME DepsInv, NEW t \in Importers, stack[t] # <<>>, NEW f, Gone(t, f), f.mod = Top(t).mod, venv \subseteq venv',
         UNCHANGED <<notInstalled>>, \A p \in DepProcesses : py'[p].attempted = py[p].attempted,
         \/ Top(t).at \notin {"file", "look", "pip"} \/ f.at \in {"file", "look", "pip"}
         \/ f.mod \in venv' \/ f.mod \in Phantom,
         f.at # "find", f.at = "resolve" => Top(t).at = "find"
  PROVE  TriesHaveReason'
<1>1. /\ Len(stack[t]) \in Nat \ {0} /\ DOMAIN stack[t] = 1..Len(stack[t]) /\ Top(t) = stack[t][Len(stack[t])]
      /\ Len(stack[t]) \in DOMAIN stack[t]
  BY TopIsFrame DEF DepsInv
<1>2. MoreFailed /\ OthersStand(t)
  BY DEF MoreFailed, DepsInv, DepsTypes, Gone
<1>3. ASSUME NEW i \in DOMAIN stack[t], stack[t][i].at \in {"file", "look", "pip"}
      PROVE  \/ \E j \in DOMAIN stack'[t] : stack'[t][j].mod = stack[t][i].mod /\ stack'[t][j].at \in {"file", "look", "pip"}
             \/ stack[t][i].mod \in venv' \/ ReasonNext(ProcessOf[t], stack[t][i].mod)
  <2>1. CASE i < Len(stack[t])
    BY <1>3, <2>1 DEF Gone, Below
  <2>2. CASE i = Len(stack[t])
    BY <1>1, <1>3, <2>2 DEF Gone, ReasonNext
  <2>. QED  BY <1>1, <2>1, <2>2
<1>4. ASSUME NEW i \in DOMAIN stack'[t], stack'[t][i].at \in {"find", "resolve"},
             PackageOf[stack'[t][i].mod] \in py[ProcessOf[t]].attempted
      PROVE  \/ ReasonNext(ProcessOf[t], stack'[t][i].mod)
             \/ \E j \in DOMAIN stack'[t] : stack'[t][j].mod = stack'[t][i].mod /\ stack'[t][j].at = "look"
  <2>1. i = Len(stack[t])
    <3>1. ~ (i < Len(stack[t]))
      <4>. SUFFICES ASSUME i < Len(stack[t])  PROVE FALSE
        OBVIOUS
      <4>1. i \in DOMAIN stack[t] /\ stack'[t][i] = stack[t][i]
        BY DEF Gone, Below
      <4>. QED  BY <1>4, <4>1 DEF DepsInv, StacksNest
    <3>. QED  BY <3>1 DEF Gone
  <2>2. f = stack'[t][i] /\ Top(t).at = "find"
    BY <1>4, <2>1 DEF Gone
  <2>3. HasReason(ProcessOf[t], f.mod) \/ LooksFor(t, f.mod)
    BY <1>1, <1>4, <2>2 DEF DepsInv, TriesHaveReason, Mine
  <2>4. CASE LooksFor(t, f.mod)
    <3>1. PICK j \in DOMAIN stack[t] : stack[t][j].mod = f.mod /\ stack[t][j].at = "look"
      BY <2>4 DEF LooksFor
    <3>2. j < Len(stack[t])
      BY <1>1, <2>2, <3>1
    <3>. QED  BY <2>2, <3>1, <3>2 DEF Gone, Below
  <2>. QED  BY <2>2, <2>3, <2>4 DEF HasReason, ReasonNext
<1>. QED  BY <1>2, <1>3, <1>4, StillReason

LEMMA PopTries ==
  ASSUME DepsInv, NEW t \in Importers, stack[t] # <<>>, Popped(t), UNCHANGED venv, MoreFailed,
         \A p \in DepProcesses : py'[p].attempted = py[p].attempted,
         Top(t).at \in {"file", "look", "pip"} => ReasonNext(ProcessOf[t], Top(t).mod)
  PROVE  TriesHaveReason'
<1>1. /\ Len(stack[t]) \in Nat \ {0} /\ DOMAIN stack[t] = 1..Len(stack[t]) /\ Top(t) = stack[t][Len(stack[t])]
      /\ Len(stack[t]) \in DOMAIN stack[t]
  BY TopIsFrame DEF DepsInv
<1>2. OthersStand(t)
  BY DEF Popped
<1>3. ASSUME NEW i \in DOMAIN stack[t], stack[t][i].at \in {"file", "look", "pip"}
      PROVE  \/ \E j \in DOMAIN stack'[t] : stack'[t][j].mod = stack[t][i].mod /\ stack'[t][j].at \in {"file", "look", "pip"}
             \/ stack[t][i].mod \in venv' \/ ReasonNext(ProcessOf[t], stack[t][i].mod)
  <2>1. CASE i < Len(stack[t])
    BY <1>3, <2>1 DEF Popped, Below
  <2>2. CASE i = Len(stack[t])
    BY <1>1, <1>3, <2>2
  <2>. QED  BY <1>1, <2>1, <2>2
<1>4. \A i \in DOMAIN stack'[t] : stack'[t][i].at \notin {"find", "resolve"}
  BY DEF Popped, DepsInv, StacksNest
<1>. QED  BY <1>2, <1>3, <1>4, StillReason

LEMMA GoTried ==
  ASSUME DepsInv, NEW t \in Importers, stack[t] # <<>>, NEW f, Gone(t, f), UNCHANGED ran, f.mod = Top(t).mod,
         \A p \in DepProcesses : py'[p].attempted = py[p].attempted,
         f.at \in {"file", "look", "pip", "again"} => Top(t).at \in {"file", "look", "pip", "again"},
         f.at \notin {"file", "look"}
  PROVE  TriedSoFar'
<1>1. Top(t) = stack[t][Len(stack[t])] /\ Len(stack[t]) \in DOMAIN stack[t]
  BY TopIsFrame DEF DepsInv
<1>2. ASSUME NEW i \in DOMAIN stack'[t], stack'[t][i].at \in {"file", "look", "pip", "again"}
      PROVE  \E j \in DOMAIN stack[t] : /\ stack[t][j].mod = stack'[t][i].mod
                                        /\ stack[t][j].at \in {"file", "look", "pip", "again"}
                                        /\ stack'[t][i].at \in {"file", "look"} => stack[t][j].at \in {"file", "look"}
  <2>1. CASE i < Len(stack[t])
    BY <1>2, <2>1 DEF Gone, Below
  <2>2. CASE i = Len(stack[t])
    BY <1>1, <1>2, <2>2 DEF Gone
  <2>. QED  BY <2>1, <2>2 DEF Gone
<1>. QED  BY <1>2, StillTried DEF Gone

LEMMA PopTried ==
  ASSUME DepsInv, NEW t \in Importers, Popped(t), UNCHANGED ran,
         \A p \in DepProcesses : py'[p].attempted = py[p].attempted
  PROVE  TriedSoFar'
<1>1. \A i \in DOMAIN stack'[t] : stack'[t][i].at \in {"file", "look", "pip", "again"} =>
        \E j \in DOMAIN stack[t] : /\ stack[t][j].mod = stack'[t][i].mod
                                   /\ stack[t][j].at \in {"file", "look", "pip", "again"}
                                   /\ stack'[t][i].at \in {"file", "look"} => stack[t][j].at \in {"file", "look"}
  BY DEF Popped
<1>. QED  BY <1>1, StillTried DEF Popped

\* Nobody else of its process resolves anything, and it resolves nothing else.
LEMMA ResolvesAlone ==
  ASSUME DepsInv, NEW t \in Importers, stack[t] # <<>>, Top(t).at \in Working
  PROVE  /\ Mine(t).lock = t
         /\ \A u \in Importers : ProcessOf[u] = ProcessOf[t] =>
              \A i \in DOMAIN stack[u] : stack[u][i].at \in Working => u = t /\ i = Len(stack[t])
<1>1. Top(t) = stack[t][Len(stack[t])] /\ Len(stack[t]) \in DOMAIN stack[t]
  BY TopIsFrame DEF DepsInv
<1>2. Resolves(t, Len(stack[t]))
  BY <1>1 DEF Resolves
<1>3. Mine(t).lock = t
  BY <1>1, <1>2 DEF DepsInv, LocksAreHeld
<1>4. ASSUME NEW u \in Importers, ProcessOf[u] = ProcessOf[t], NEW i \in DOMAIN stack[u], stack[u][i].at \in Working
      PROVE  u = t /\ i = Len(stack[t])
  <2>1. Resolves(u, i) /\ Mine(u).lock = u
    BY <1>4 DEF DepsInv, LocksAreHeld, Resolves
  <2>2. u = t
    BY <1>3, <1>4, <2>1 DEF Mine
  <2>. QED  BY <1>1, <1>2, <2>1, <2>2 DEF DepsInv, LocksAreHeld
<1>. QED  BY <1>3, <1>4

LEMMA LockReleased ==
  ASSUME DepsInv, NEW t \in Importers, stack[t] # <<>>, Top(t).at \in Working, OthersStand(t), Sets(t, Released(t)),
         \A i \in DOMAIN stack'[t] : stack'[t][i].at \in Working =>
           i \in DOMAIN stack[t] /\ i < Len(stack[t]) /\ stack'[t][i] = stack[t][i]
  PROVE  /\ LocksAreHeld' /\ LocksHaveHolders' /\ py' \in [DepProcesses -> Interpreters]
         /\ \A p \in DepProcesses : py'[p].attempted = py[p].attempted /\ py'[p].loaded = py[p].loaded
<1>. DEFINE new == Released(t)
            p == ProcessOf[t]
<1>1. /\ Top(t) = stack[t][Len(stack[t])] /\ Len(stack[t]) \in DOMAIN stack[t] /\ Len(stack[t]) \in Nat
      /\ p \in DepProcesses /\ Mine(t) \in Interpreters /\ \A u \in Importers : ProcessOf[u] \in DepProcesses
  BY TopIsFrame, FramesHave DEF DepsInv, Mine, DepProcesses
<1>2. /\ new \in Interpreters /\ new.lock = NoThread /\ new.resolving = Mine(t).resolving \ {Top(t).mod}
      /\ new.attempted = Mine(t).attempted /\ new.loaded = Mine(t).loaded
  BY <1>1 DEF Released, Interpreters
<1>3. Sets(t, new)
  OBVIOUS
<1>. HIDE DEF new
<1>4. /\ py' \in [DepProcesses -> Interpreters] /\ py'[p] = new
      /\ \A q \in DepProcesses : q # p => py'[q] = py[q]
  BY <1>2, <1>3, SetsIs DEF DepsInv
<1>5. \A q \in DepProcesses : py'[q].attempted = py[q].attempted /\ py'[q].loaded = py[q].loaded
  BY <1>1, <1>2, <1>4 DEF Mine
<1>6. ASSUME NEW u \in Importers, ProcessOf[u] = p, NEW i \in DOMAIN stack'[u], stack'[u][i].at \in Working  PROVE FALSE
  <2>1. i \in DOMAIN stack[u] /\ stack[u][i].at \in Working /\ (u = t => i < Len(stack[t]))
    BY <1>6 DEF OthersStand
  <2>. QED  BY <1>1, <1>6, <2>1, ResolvesAlone
<1>. HIDE DEF p
<1>7. ASSUME NEW u \in Importers, ProcessOf[u] # p
      PROVE  stack'[u] = stack[u] /\ py'[ProcessOf[u]] = py[ProcessOf[u]]
  BY <1>1, <1>4, <1>7 DEF OthersStand, p
<1>8. LocksAreHeld'
  <2>. SUFFICES ASSUME NEW u \in Importers, NEW i \in DOMAIN stack'[u], stack'[u][i].at \in Working
       PROVE  /\ py'[ProcessOf[u]].lock = u /\ stack'[u][i].mod \in py'[ProcessOf[u]].resolving
              /\ \A j \in DOMAIN stack'[u] : stack'[u][j].at \in Working => j = i
    BY DEF LocksAreHeld, Resolves, Mine
  <2>1. ProcessOf[u] # p
    BY <1>6
  <2>. QED  BY <1>7, <2>1 DEF DepsInv, LocksAreHeld, Resolves, Mine
<1>9. LocksHaveHolders'
  <2>. SUFFICES ASSUME NEW q \in DepProcesses
       PROVE  /\ py'[q].lock # NoThread =>
                   ProcessOf[py'[q].lock] = q /\ \E i \in DOMAIN stack'[py'[q].lock] : stack'[py'[q].lock][i].at \in Working
              /\ \A n \in py'[q].resolving : \E u \in Importers : \E i \in DOMAIN stack'[u] :
                   ProcessOf[u] = q /\ stack'[u][i].at \in Working /\ stack'[u][i].mod = n
    BY DEF LocksHaveHolders, Resolves
  <2>1. CASE q = p
    <3>1. py'[q].lock = NoThread
      BY <1>2, <1>4, <2>1
    <3>2. ASSUME NEW n \in py'[q].resolving  PROVE FALSE
      <4>1. n \in py[q].resolving /\ n # Top(t).mod
        BY <1>2, <1>4, <2>1, <3>2 DEF Mine, p
      <4>2. PICK u \in Importers : \E i \in DOMAIN stack[u] : ProcessOf[u] = q /\ Resolves(u, i) /\ stack[u][i].mod = n
        BY <4>1 DEF DepsInv, LocksHaveHolders
      <4>3. PICK i \in DOMAIN stack[u] : ProcessOf[u] = q /\ Resolves(u, i) /\ stack[u][i].mod = n
        BY <4>2
      <4>4. u = t /\ i = Len(stack[t])
        BY <2>1, <4>3, ResolvesAlone DEF Resolves, p
      <4>. QED  BY <1>1, <4>1, <4>3, <4>4
    <3>. QED  BY <3>1, <3>2
  <2>2. CASE q # p
    <3>1. py'[q] = py[q]
      BY <1>4, <2>2
    <3>2. ASSUME py[q].lock # NoThread
          PROVE  ProcessOf[py[q].lock] = q /\ \E i \in DOMAIN stack'[py[q].lock] : stack'[py[q].lock][i].at \in Working
      <4>1. py[q].lock \in Importers
        BY <3>2 DEF DepsInv, DepsTypes, Interpreters
      <4>2. ProcessOf[py[q].lock] = q /\ \E i \in DOMAIN stack[py[q].lock] : stack[py[q].lock][i].at \in Working
        BY <3>2 DEF DepsInv, LocksHaveHolders, Resolves
      <4>. QED  BY <1>7, <2>2, <4>1, <4>2
    <3>3. ASSUME NEW n \in py[q].resolving
          PROVE  \E u \in Importers : \E i \in DOMAIN stack'[u] : ProcessOf[u] = q /\ stack'[u][i].at \in Working /\ stack'[u][i].mod = n
      <4>1. PICK u \in Importers : \E i \in DOMAIN stack[u] : ProcessOf[u] = q /\ stack[u][i].at \in Working /\ stack[u][i].mod = n
        BY <3>3 DEF DepsInv, LocksHaveHolders, Resolves
      <4>2. stack'[u] = stack[u]
        BY <1>7, <2>2, <4>1
      <4>. QED  BY <4>1, <4>2
    <3>. QED  BY <3>1, <3>2, <3>3
  <2>. QED  BY <2>1, <2>2
<1>. QED  BY <1>4, <1>5, <1>8, <1>9

LEMMA FileLockReleased ==
  ASSUME DepsInv, NEW t \in Importers, stack[t] # <<>>, Top(t).at \in {"look", "pip"}, OthersStand(t), fileLock' = NoThread,
         \A i \in DOMAIN stack'[t] : stack'[t][i].at \in {"look", "pip"} =>
           i \in DOMAIN stack[t] /\ i < Len(stack[t]) /\ stack'[t][i] = stack[t][i]
  PROVE  FileLockIsHeld'
<1>1. Top(t) = stack[t][Len(stack[t])] /\ Len(stack[t]) \in DOMAIN stack[t] /\ Len(stack[t]) \in Nat
  BY TopIsFrame DEF DepsInv
<1>2. fileLock = t
  BY <1>1 DEF DepsInv, FileLockIsHeld, HoldsFile
<1>3. ASSUME NEW u \in Importers, NEW i \in DOMAIN stack'[u], stack'[u][i].at \in {"look", "pip"}  PROVE FALSE
  <2>1. CASE u = t
    <3>1. i \in DOMAIN stack[t] /\ i < Len(stack[t]) /\ stack[t][i].at \in Working
      BY <1>3, <2>1 DEF Working
    <3>. QED  BY <1>1, <3>1, ResolvesAlone DEF Working
  <2>2. CASE u # t
    BY <1>2, <1>3, <2>2 DEF OthersStand, DepsInv, FileLockIsHeld, HoldsFile
  <2>. QED  BY <2>1, <2>2
<1>. QED  BY <1>3 DEF FileLockIsHeld, HoldsFile

\* What every step at the innermost import knows.
LEMMA TopIs ==
  ASSUME DepsInv, NEW t \in Importers, stack[t] # <<>>
  PROVE  /\ Len(stack[t]) \in Nat \ {0} /\ DOMAIN stack[t] = 1..Len(stack[t]) /\ Len(stack[t]) \in DOMAIN stack[t]
         /\ Top(t) = stack[t][Len(stack[t])] /\ Top(t) \in Frames /\ Top(t).mod \in Modules
         /\ ProcessOf[t] \in DepProcesses /\ Mine(t) \in Interpreters
         /\ \A p \in DepProcesses : py[p].loaded \subseteq venv
         /\ OptionalsThere => \A k \in DOMAIN Top(t).todo : Top(t).todo[k] \in Present
BY TopIsFrame, FramesHave DEF DepsInv, Mine, Frames, FoundIsThere, OptionalsFound

LEMMA GoesTo ==
  ASSUME DepsInv, NEW t \in Importers, stack[t] # <<>>, NEW place \in Places \ {"enter", "find"}, Goes(t, place),
         Top(t).at # "enter", \A u \in Importers : u # t => result'[u] = result[u], UNCHANGED notInstalled
  PROVE  LET f == [Top(t) EXCEPT !.at = place]
         IN  /\ f \in Frames /\ f.at = place /\ f.mod = Top(t).mod /\ Gone(t, f)
             /\ StacksNest' /\ ModulesApart' /\ OptionalsFound' /\ FailsForAReason'
<1>. DEFINE f == [Top(t) EXCEPT !.at = place]
<1>1. f \in Frames /\ f.at = place /\ f.mod = Top(t).mod /\ f.todo = Top(t).todo
  BY TopIs DEF Frames
<1>2. TopBecomes(t, f)
  BY DEF Goes
<1>3. OptionalsThere => \A k \in DOMAIN f.todo : f.todo[k] \in Present
  BY <1>1, TopIs
<1>. HIDE DEF f
<1>4. Gone(t, f) /\ StacksNest' /\ ModulesApart' /\ OptionalsFound' /\ FailsForAReason'
  BY <1>1, <1>2, <1>3, GoKeeps
<1>. QED  BY <1>1, <1>4 DEF f

LEMMA GoFile ==
  ASSUME DepsInv, NEW t \in Importers, stack[t] # <<>>, NEW f, Gone(t, f), UNCHANGED fileLock,
         Top(t).at \in {"look", "pip"} <=> f.at \in {"look", "pip"}
  PROVE  FileLockIsHeld'
<1>1. Top(t) = stack[t][Len(stack[t])] /\ DOMAIN stack[t] = 1..Len(stack[t]) /\ Len(stack[t]) \in Nat
  BY TopIs
<1>2. ASSUME NEW i \in DOMAIN stack[t]
      PROVE  i \in DOMAIN stack'[t] /\ (stack[t][i].at \in {"look", "pip"} <=> stack'[t][i].at \in {"look", "pip"})
  <2>1. CASE i < Len(stack[t])
    BY <2>1 DEF Gone, Below
  <2>2. CASE i = Len(stack[t])
    BY <1>1, <2>2 DEF Gone
  <2>. QED  BY <1>1, <2>1, <2>2
<1>3. DOMAIN stack'[t] = DOMAIN stack[t]
  BY DEF Gone
<1>. QED  BY <1>2, <1>3, FileLockStays DEF HoldsFile, Gone

LEMMA PopFile ==
  ASSUME DepsInv, NEW t \in Importers, stack[t] # <<>>, Popped(t), UNCHANGED fileLock, Top(t).at \notin {"look", "pip"}
  PROVE  FileLockIsHeld'
<1>1. Top(t) = stack[t][Len(stack[t])] /\ DOMAIN stack[t] = 1..Len(stack[t]) /\ Len(stack[t]) \in Nat
  BY TopIs
<1>2. ASSUME NEW i \in DOMAIN stack[t], stack[t][i].at \in {"look", "pip"}
      PROVE  i \in DOMAIN stack'[t] /\ stack'[t][i].at \in {"look", "pip"}
  <2>1. i < Len(stack[t])
    BY <1>1, <1>2
  <2>. QED  BY <1>2, <2>1 DEF Popped, Below
<1>3. \A i \in DOMAIN stack'[t] : i \in DOMAIN stack[t] /\ stack'[t][i] = stack[t][i]
  BY DEF Popped
<1>. QED  BY <1>2, <1>3, FileLockStays DEF HoldsFile, Popped

LEMMA FindSpecKeeps ==
  ASSUME DepsInv, NEW t \in Importers, FindSpec(t)  PROVE DepsInv'
<1>. DEFINE f == [Top(t) EXCEPT !.at = "resolve"]
            new == [Mine(t) EXCEPT !.lock = t, !.resolving = @ \cup {Top(t).mod}]
            p == ProcessOf[t]
<1>1. /\ stack[t] # <<>> /\ Top(t).at = "find" /\ Mine(t).lock = NoThread /\ Sets(t, new) /\ Goes(t, "resolve")
      /\ UNCHANGED <<venv, fileLock, result, ran, notInstalled>>
  BY DEF FindSpec, FrameAt
<1>2. /\ Len(stack[t]) \in Nat \ {0} /\ DOMAIN stack[t] = 1..Len(stack[t]) /\ Len(stack[t]) \in DOMAIN stack[t]
      /\ Top(t) = stack[t][Len(stack[t])] /\ Top(t).mod \in Modules
      /\ p \in DepProcesses /\ Mine(t) \in Interpreters /\ \A q \in DepProcesses : py[q].loaded \subseteq venv
  BY <1>1, TopIs
<1>3. /\ f \in Frames /\ f.at = "resolve" /\ f.mod = Top(t).mod /\ Gone(t, f)
      /\ StacksNest' /\ ModulesApart' /\ OptionalsFound' /\ FailsForAReason'
  BY <1>1, GoesTo DEF Places
<1>4. /\ new \in Interpreters /\ new.lock = t /\ new.resolving = Mine(t).resolving \union {Top(t).mod}
      /\ new.attempted = Mine(t).attempted /\ new.loaded = Mine(t).loaded
  BY <1>2 DEF Interpreters
<1>. HIDE DEF f, new
<1>5. /\ py' \in [DepProcesses -> Interpreters] /\ py'[p] = new
      /\ \A q \in DepProcesses : q # p => py'[q] = py[q]
  BY <1>1, <1>4, SetsIs DEF DepsInv
<1>6. \A q \in DepProcesses : py'[q].attempted = py[q].attempted /\ py'[q].loaded = py[q].loaded
  BY <1>2, <1>4, <1>5 DEF Mine
<1>7. DepsTypes'
  BY <1>1, <1>3, <1>5 DEF DepsInv, DepsTypes, Gone, OthersStand
<1>8. FoundIsThere'
  BY <1>1, <1>2, <1>3, <1>6, GoFound, StillFound DEF Gone
<1>9. TriedSoFar'
  BY <1>1, <1>3, <1>6, GoTried
<1>10. TriesHaveReason'
  BY <1>1, <1>3, <1>6, GoTries
<1>11. \A i \in DOMAIN stack'[t] : i < Len(stack[t]) => i \in DOMAIN stack[t] /\ stack'[t][i] = stack[t][i]
  BY <1>3 DEF Gone, Below
<1>12. FileLockIsHeld'
  BY <1>1, <1>3, GoFile
<1>13. ASSUME NEW u \in Importers, ProcessOf[u] = p, NEW i \in DOMAIN stack[u], stack[u][i].at \in Working  PROVE FALSE
  BY <1>1, <1>13, DepsAssumption DEF DepsInv, LocksAreHeld, Resolves, Mine
<1>14. Mine(t).resolving = {}
  BY <1>2, <1>13 DEF DepsInv, LocksHaveHolders, Resolves, Mine
<1>15. ASSUME NEW u \in Importers, ProcessOf[u] = p, NEW i \in DOMAIN stack'[u], stack'[u][i].at \in Working
       PROVE  u = t /\ i = Len(stack[t])
  <2>1. u = t
    BY <1>3, <1>13, <1>15 DEF Gone, OthersStand
  <2>. QED  BY <1>3, <1>11, <1>13, <1>15, <2>1 DEF Gone
<1>16. stack'[t][Len(stack[t])] = f /\ Len(stack[t]) \in DOMAIN stack'[t] /\ f.at \in Working
  BY <1>3 DEF Gone, Working
<1>. HIDE DEF p
<1>17. ASSUME NEW u \in Importers, ProcessOf[u] # p
       PROVE  stack'[u] = stack[u] /\ py'[ProcessOf[u]] = py[ProcessOf[u]]
  BY <1>3, <1>5, <1>17 DEF Gone, OthersStand, p, DepProcesses
<1>18. LocksAreHeld'
  <2>. SUFFICES ASSUME NEW u \in Importers, NEW i \in DOMAIN stack'[u], stack'[u][i].at \in Working
       PROVE  /\ py'[ProcessOf[u]].lock = u /\ stack'[u][i].mod \in py'[ProcessOf[u]].resolving
              /\ \A j \in DOMAIN stack'[u] : stack'[u][j].at \in Working => j = i
    BY DEF LocksAreHeld, Resolves, Mine
  <2>1. CASE ProcessOf[u] = p
    <3>1. u = t /\ i = Len(stack[t])
      BY <1>15, <2>1
    <3>. QED  BY <1>3, <1>4, <1>5, <1>15, <1>16, <2>1, <3>1
  <2>2. CASE ProcessOf[u] # p
    BY <1>17, <2>2 DEF DepsInv, LocksAreHeld, Resolves, Mine
  <2>. QED  BY <2>1, <2>2
<1>19. LocksHaveHolders'
  <2>. SUFFICES ASSUME NEW q \in DepProcesses
       PROVE  /\ py'[q].lock # NoThread =>
                   ProcessOf[py'[q].lock] = q /\ \E i \in DOMAIN stack'[py'[q].lock] : stack'[py'[q].lock][i].at \in Working
              /\ \A n \in py'[q].resolving : \E u \in Importers : \E i \in DOMAIN stack'[u] :
                   ProcessOf[u] = q /\ stack'[u][i].at \in Working /\ stack'[u][i].mod = n
    BY DEF LocksHaveHolders, Resolves
  <2>1. CASE q = p
    <3>1. py'[q].lock = t /\ py'[q].resolving = {Top(t).mod}
      BY <1>4, <1>5, <1>14, <2>1
    <3>. QED  BY <1>3, <1>16, <2>1, <3>1 DEF p
  <2>2. CASE q # p
    <3>1. py'[q] = py[q]
      BY <1>5, <2>2
    <3>2. ASSUME py[q].lock # NoThread
          PROVE  ProcessOf[py[q].lock] = q /\ \E i \in DOMAIN stack'[py[q].lock] : stack'[py[q].lock][i].at \in Working
      <4>1. py[q].lock \in Importers
        BY <3>2 DEF DepsInv, DepsTypes, Interpreters
      <4>2. ProcessOf[py[q].lock] = q /\ \E i \in DOMAIN stack[py[q].lock] : stack[py[q].lock][i].at \in Working
        BY <3>2 DEF DepsInv, LocksHaveHolders, Resolves
      <4>. QED  BY <1>17, <2>2, <4>1, <4>2
    <3>3. ASSUME NEW n \in py[q].resolving
          PROVE  \E u \in Importers : \E i \in DOMAIN stack'[u] : ProcessOf[u] = q /\ stack'[u][i].at \in Working /\ stack'[u][i].mod = n
      <4>1. PICK u \in Importers : \E i \in DOMAIN stack[u] : ProcessOf[u] = q /\ stack[u][i].at \in Working /\ stack[u][i].mod = n
        BY <3>3 DEF DepsInv, LocksHaveHolders, Resolves
      <4>2. stack'[u] = stack[u]
        BY <1>17, <2>2, <4>1
      <4>. QED  BY <4>1, <4>2
    <3>. QED  BY <3>1, <3>2, <3>3
  <2>. QED  BY <2>1, <2>2
<1>. QED  BY <1>3, <1>7, <1>8, <1>9, <1>10, <1>12, <1>18, <1>19 DEF DepsInv

\* An import that fails gives _resolver_lock back.
LEMMA GivesUp ==
  ASSUME DepsInv, NEW t \in Importers, stack[t] # <<>>, Top(t).at \in Working, Sets(t, Released(t)),
         NEW how \in {"missing", "raised"}, Pops(t, how),
         UNCHANGED <<venv, ran>>, MoreFailed,
         stack'[t] = <<>> => ReasonNext(ProcessOf[t], Top(t).mod),
         Top(t).at \in {"file", "look", "pip"} => ReasonNext(ProcessOf[t], Top(t).mod),
         fileLock' \in Importers \union {NoThread}, FileLockIsHeld'
  PROVE  DepsInv'
<1>1. /\ Len(stack[t]) \in Nat \ {0} /\ Top(t) = stack[t][Len(stack[t])] /\ \A q \in DepProcesses : py[q].loaded \subseteq venv
  BY TopIs
<1>2. /\ Popped(t) /\ StacksNest' /\ ModulesApart' /\ OptionalsFound'
      /\ \A i \in DOMAIN stack'[t] : FrameFound(t, i)'
      /\ result' \in Results /\ result'[t] = [how |-> how, mod |-> Top(t).mod]
      /\ \A u \in Importers : u # t => result'[u] = result[u]
  BY PopKeeps DEF Results
<1>3. OthersStand(t) /\ \A i \in DOMAIN stack'[t] : i \in DOMAIN stack[t] /\ i < Len(stack[t]) /\ stack'[t][i] = stack[t][i]
  BY <1>2 DEF Popped
<1>4. /\ LocksAreHeld' /\ LocksHaveHolders' /\ py' \in [DepProcesses -> Interpreters]
      /\ \A p \in DepProcesses : py'[p].attempted = py[p].attempted /\ py'[p].loaded = py[p].loaded
  BY <1>3, LockReleased
<1>5. DepsTypes'
  BY <1>2, <1>3, <1>4 DEF DepsInv, DepsTypes, OthersStand, Results, MoreFailed
<1>6. FoundIsThere'
  BY <1>1, <1>2, <1>3, <1>4, StillFound
<1>7. TriedSoFar'
  BY <1>2, <1>4, PopTried
<1>8. TriesHaveReason'
  BY <1>2, <1>4, PopTries
<1>9. FailsForAReason'
  <2>1. stack'[t] = <<>> => ReasonNext(ProcessOf[t], result'[t].mod)
    BY <1>2
  <2>. QED  BY <1>2, <1>3, <2>1, StillForAReason
<1>. QED  BY <1>2, <1>4, <1>5, <1>6, <1>7, <1>8, <1>9 DEF DepsInv

LEMMA ResolveNothingKeeps ==
  ASSUME DepsInv, NEW t \in Importers, ResolveNothing(t)  PROVE DepsInv'
<1>1. /\ stack[t] # <<>> /\ Top(t).at = "resolve" /\ Worthless(t) /\ Sets(t, Released(t)) /\ Pops(t, "missing")
      /\ UNCHANGED <<venv, fileLock, ran, notInstalled>>
  BY DEF ResolveNothing, FrameAt
<1>2. MoreFailed /\ fileLock' \in Importers \union {NoThread}
  BY <1>1 DEF MoreFailed, DepsInv, DepsTypes
<1>3. Popped(t)
  BY <1>1, PopsIs DEF DepsInv, Pops
<1>4. FileLockIsHeld'
  BY <1>1, <1>3, PopFile
<1>5. ASSUME stack'[t] = <<>>  PROVE ReasonNext(ProcessOf[t], Top(t).mod)
  <2>1. /\ Len(stack[t]) \in Nat /\ DOMAIN stack[t] = 1..Len(stack[t]) /\ Top(t) = stack[t][Len(stack[t])]
        /\ Len(stack[t]) \in DOMAIN stack[t] /\ ProcessOf[t] \in DepProcesses
    BY <1>1, TopIs
  <2>2. Len(stack[t]) = 1
    BY <1>3, <1>5, <2>1 DEF Popped
  <2>3. ~ LooksFor(t, Top(t).mod)
    BY <1>1, <2>1, <2>2 DEF LooksFor
  <2>4. HasReason(ProcessOf[t], Top(t).mod)
    <3>1. CASE PackageOf[Top(t).mod] = "unmapped"
      BY <3>1 DEF HasReason
    <3>2. CASE PackageOf[Top(t).mod] \in Mine(t).attempted
      BY <1>1, <2>1, <2>3, <3>2 DEF DepsInv, TriesHaveReason
    <3>. QED  BY <1>1, <3>1, <3>2 DEF Worthless
  <2>. QED  BY <1>2, <2>1, <2>4, ReasonsStay
<1>. QED  BY <1>1, <1>2, <1>4, <1>5, GivesUp DEF Working

LEMMA PipFailsKeeps ==
  ASSUME DepsInv, NEW t \in Importers, PipFails(t)  PROVE DepsInv'
<1>1. /\ stack[t] # <<>> /\ Top(t).at = "pip" /\ Sets(t, Released(t)) /\ Pops(t, "missing") /\ fileLock' = NoThread
      /\ notInstalled' = [notInstalled EXCEPT ![ProcessOf[t]] = @ \cup {PackageOf[Top(t).mod]}]
      /\ UNCHANGED <<venv, ran>>
  BY DEF PipFails, FrameAt
<1>2. /\ Len(stack[t]) \in DOMAIN stack[t] /\ Top(t) = stack[t][Len(stack[t])]
      /\ ProcessOf[t] \in DepProcesses /\ Mine(t) \in Interpreters
  BY <1>1, TopIs
<1>3. PackageOf[Top(t).mod] \in Packages
  <2>1. PackageOf[Top(t).mod] \in Mine(t).attempted
    BY <1>1, <1>2 DEF DepsInv, TriedSoFar
  <2>. QED  BY <1>2, <2>1 DEF Interpreters
<1>4. MoreFailed /\ PackageOf[Top(t).mod] \in notInstalled'[ProcessOf[t]]
  BY <1>1, <1>2, <1>3 DEF MoreFailed, DepsInv, DepsTypes
<1>5. ReasonNext(ProcessOf[t], Top(t).mod)
  BY <1>4 DEF ReasonNext
<1>6. Popped(t)
  BY <1>1, PopsIs DEF DepsInv, Pops
<1>7. FileLockIsHeld'
  BY <1>1, <1>6, FileLockReleased DEF Popped
<1>. QED  BY <1>1, <1>4, <1>5, <1>7, GivesUp DEF Working

LEMMA LockFailsKeeps ==
  ASSUME DepsInv, NEW t \in Importers, LockFails(t)  PROVE DepsInv'
<1>1. /\ stack[t] # <<>> /\ Top(t).at = "file" /\ Sets(t, Released(t)) /\ Pops(t, "raised")
      /\ notInstalled' = [notInstalled EXCEPT ![ProcessOf[t]] = @ \cup {PackageOf[Top(t).mod]}]
      /\ UNCHANGED <<venv, fileLock, ran>>
  BY DEF LockFails, FrameAt
<1>2. /\ Len(stack[t]) \in DOMAIN stack[t] /\ Top(t) = stack[t][Len(stack[t])]
      /\ ProcessOf[t] \in DepProcesses /\ Mine(t) \in Interpreters
  BY <1>1, TopIs
<1>3. PackageOf[Top(t).mod] \in Packages
  <2>1. PackageOf[Top(t).mod] \in Mine(t).attempted
    BY <1>1, <1>2 DEF DepsInv, TriedSoFar
  <2>. QED  BY <1>2, <2>1 DEF Interpreters
<1>4. MoreFailed /\ PackageOf[Top(t).mod] \in notInstalled'[ProcessOf[t]]
  BY <1>1, <1>2, <1>3 DEF MoreFailed, DepsInv, DepsTypes
<1>5. ReasonNext(ProcessOf[t], Top(t).mod)
  BY <1>4 DEF ReasonNext
<1>6. Popped(t)
  BY <1>1, PopsIs DEF DepsInv, Pops
<1>7. FileLockIsHeld' /\ fileLock' \in Importers \union {NoThread}
  BY <1>1, <1>6, PopFile DEF DepsInv, DepsTypes
<1>. QED  BY <1>1, <1>4, <1>5, <1>7, GivesUp DEF Working

LEMMA FindAgainKeeps ==
  ASSUME DepsInv, NEW t \in Importers, FindAgain(t)  PROVE DepsInv'
<1>1. /\ stack[t] # <<>> /\ Top(t).at = "again" /\ Sets(t, Released(t)) /\ UNCHANGED <<venv, fileLock, ran, notInstalled>>
  BY DEF FindAgain, FrameAt
<1>2. /\ Len(stack[t]) \in DOMAIN stack[t] /\ Top(t) = stack[t][Len(stack[t])]
      /\ \A q \in DepProcesses : py[q].loaded \subseteq venv
  BY <1>1, TopIs
<1>3. Top(t).mod \in venv \union Phantom
  BY <1>1, <1>2 DEF DepsInv, FoundIsThere
<1>4. MoreFailed /\ fileLock' \in Importers \union {NoThread}
  BY <1>1 DEF MoreFailed, DepsInv, DepsTypes
<1>5. CASE Top(t).mod \in venv
  <2>. DEFINE f == [Top(t) EXCEPT !.at = "load"]
  <2>1. Goes(t, "load") /\ UNCHANGED result
    BY <1>5 DEF FindAgain
  <2>2. /\ f \in Frames /\ f.at = "load" /\ f.mod = Top(t).mod /\ Gone(t, f)
        /\ StacksNest' /\ ModulesApart' /\ OptionalsFound' /\ FailsForAReason'
    BY <1>1, <2>1, GoesTo DEF Places
  <2>. HIDE DEF f
  <2>3. \A i \in DOMAIN stack'[t] : stack'[t][i].at \in Working =>
           i \in DOMAIN stack[t] /\ i < Len(stack[t]) /\ stack'[t][i] = stack[t][i]
    BY <2>2 DEF Gone, Below, Working
  <2>4. /\ LocksAreHeld' /\ LocksHaveHolders' /\ py' \in [DepProcesses -> Interpreters]
        /\ \A p \in DepProcesses : py'[p].attempted = py[p].attempted /\ py'[p].loaded = py[p].loaded
    BY <1>1, <2>2, <2>3, LockReleased DEF Working, Gone
  <2>5. DepsTypes'
    BY <1>1, <2>1, <2>2, <2>4 DEF DepsInv, DepsTypes, Gone, OthersStand
  <2>6. FoundIsThere'
    BY <1>1, <1>2, <1>5, <2>1, <2>2, <2>4, GoFound, StillFound DEF Gone
  <2>7. TriedSoFar'
    BY <1>1, <2>2, <2>4, GoTried
  <2>8. TriesHaveReason'
    BY <1>1, <2>2, <2>4, GoTries
  <2>9. FileLockIsHeld'
    BY <1>1, <2>2, GoFile
  <2>. QED  BY <2>2, <2>4, <2>5, <2>6, <2>7, <2>8, <2>9 DEF DepsInv
<1>6. CASE Top(t).mod \notin venv
  <2>1. Pops(t, "missing")
    BY <1>6 DEF FindAgain
  <2>2. Popped(t)
    BY <1>1, <2>1, PopsIs DEF DepsInv, Pops
  <2>3. FileLockIsHeld'
    BY <1>1, <2>2, PopFile
  <2>4. ReasonNext(ProcessOf[t], Top(t).mod)
    BY <1>3, <1>6 DEF ReasonNext
  <2>. QED  BY <1>1, <1>4, <2>1, <2>3, <2>4, GivesUp DEF Working
<1>. QED  BY <1>5, <1>6

LEMMA GoLocks ==
  ASSUME DepsInv, NEW t \in Importers, stack[t] # <<>>, NEW f, Gone(t, f), SameLocks, f.mod = Top(t).mod,
         Top(t).at \in Working, f.at \in Working
  PROVE  LocksAreHeld' /\ LocksHaveHolders'
<1>1. Top(t) = stack[t][Len(stack[t])] /\ DOMAIN stack[t] = 1..Len(stack[t]) /\ Len(stack[t]) \in Nat
  BY TopIs
<1>2. ASSUME NEW i \in DOMAIN stack[t]
      PROVE  /\ i \in DOMAIN stack'[t] /\ (stack[t][i].at \in Working <=> stack'[t][i].at \in Working)
             /\ stack'[t][i].mod = stack[t][i].mod
  <2>1. CASE i < Len(stack[t])
    BY <2>1 DEF Gone, Below
  <2>2. CASE i = Len(stack[t])
    BY <1>1, <2>2 DEF Gone
  <2>. QED  BY <1>1, <2>1, <2>2
<1>3. DOMAIN stack'[t] = DOMAIN stack[t]
  BY DEF Gone
<1>. QED  BY <1>2, <1>3, LocksStay DEF Resolves, Gone

LEMMA ResolveKeeps ==
  ASSUME DepsInv, NEW t \in Importers, Resolve(t)  PROVE DepsInv'
<1>. DEFINE f == [Top(t) EXCEPT !.at = "file"]
            pkg == PackageOf[Top(t).mod]
            new == [Mine(t) EXCEPT !.attempted = @ \cup {pkg}]
            p == ProcessOf[t]
<1>1. /\ stack[t] # <<>> /\ Top(t).at = "resolve" /\ Sets(t, new) /\ Goes(t, "file")
      /\ pkg # "unmapped" /\ pkg \notin Mine(t).attempted
      /\ UNCHANGED <<venv, fileLock, result, ran, notInstalled>>
  BY DEF Resolve, Worthless, FrameAt
<1>2. /\ Len(stack[t]) \in Nat \ {0} /\ DOMAIN stack[t] = 1..Len(stack[t]) /\ Len(stack[t]) \in DOMAIN stack[t]
      /\ Top(t) = stack[t][Len(stack[t])] /\ Top(t).mod \in Modules
      /\ p \in DepProcesses /\ Mine(t) \in Interpreters /\ \A q \in DepProcesses : py[q].loaded \subseteq venv
  BY <1>1, TopIs
<1>3. /\ f \in Frames /\ f.at = "file" /\ f.mod = Top(t).mod /\ Gone(t, f)
      /\ StacksNest' /\ ModulesApart' /\ OptionalsFound' /\ FailsForAReason'
  BY <1>1, GoesTo DEF Places
<1>4. pkg \in Packages
  BY <1>1, <1>2 DEF Packages
<1>5. /\ new \in Interpreters /\ new.lock = Mine(t).lock /\ new.resolving = Mine(t).resolving
      /\ new.attempted = Mine(t).attempted \union {pkg} /\ new.loaded = Mine(t).loaded
  BY <1>2, <1>4 DEF Interpreters
<1>. HIDE DEF f, new
<1>6. /\ py' \in [DepProcesses -> Interpreters] /\ py'[p] = new
      /\ \A q \in DepProcesses : q # p => py'[q] = py[q]
  BY <1>1, <1>5, SetsIs DEF DepsInv
<1>7. /\ SameLocks /\ \A q \in DepProcesses : py'[q].loaded = py[q].loaded /\ py[q].attempted \subseteq py'[q].attempted
      /\ py'[p].attempted = py[p].attempted \union {pkg}
      /\ \A q \in DepProcesses : \A k \in py'[q].attempted : k \in py[q].attempted \/ (q = p /\ k = pkg)
  BY <1>2, <1>5, <1>6 DEF SameLocks, Mine
<1>8. DepsTypes'
  BY <1>1, <1>3, <1>6 DEF DepsInv, DepsTypes, Gone, OthersStand
<1>9. LocksAreHeld' /\ LocksHaveHolders'
  BY <1>1, <1>3, <1>7, GoLocks DEF Working
<1>10. FileLockIsHeld'
  BY <1>1, <1>3, GoFile
<1>11. FoundIsThere'
  BY <1>1, <1>2, <1>3, <1>7, GoFound, StillFound DEF Gone
<1>12. /\ \A i \in DOMAIN stack'[t] : (i < Len(stack[t]) /\ i \in DOMAIN stack[t] /\ stack'[t][i] = stack[t][i]) \/ i = Len(stack[t])
       /\ stack'[t][Len(stack[t])] = f /\ Len(stack[t]) \in DOMAIN stack'[t]
       /\ \A u \in Importers : u # t => stack'[u] = stack[u]
  BY <1>3 DEF Gone, Below, OthersStand
<1>13. TriedSoFar'
  <2>1. ASSUME NEW u \in Importers, NEW i \in DOMAIN stack'[u]
        PROVE  /\ stack'[u][i].at \in {"file", "look", "pip", "again"} => PackageOf[stack'[u][i].mod] \in py'[ProcessOf[u]].attempted
               /\ stack'[u][i].at \in {"file", "look"} => ran[ProcessOf[u]][PackageOf[stack'[u][i].mod]] = 0
    <3>0. ProcessOf[u] \in DepProcesses
      BY DEF DepProcesses
    <3>1. CASE i \in DOMAIN stack[u] /\ stack'[u][i] = stack[u][i]
      <4>1. /\ stack[u][i].at \in {"file", "look", "pip", "again"} => PackageOf[stack[u][i].mod] \in py[ProcessOf[u]].attempted
            /\ stack[u][i].at \in {"file", "look"} => ran[ProcessOf[u]][PackageOf[stack[u][i].mod]] = 0
        BY <3>1 DEF DepsInv, TriedSoFar, Mine
      <4>. QED  BY <1>7, <3>0, <3>1, <4>1
    <3>2. CASE u = t /\ i = Len(stack[t])
      <4>1. stack'[u][i].mod = Top(t).mod
        BY <1>3, <1>12, <3>2
      <4>2. pkg \in py'[p].attempted /\ ran[p][pkg] = 0
        <5>1. pkg \notin py[p].attempted
          BY <1>1 DEF Mine
        <5>2. ran[p][pkg] = 0
          BY <1>2, <1>4, <5>1 DEF DepsInv, TriedSoFar
        <5>. QED  BY <1>7, <5>2
      <4>. QED  BY <3>2, <4>1, <4>2
    <3>. QED  BY <1>12, <3>1, <3>2
  <2>2. \A q \in DepProcesses : \A k \in Packages : ran[q][k] = 0 \/ (ran[q][k] = 1 /\ k \in py'[q].attempted)
    BY <1>7 DEF DepsInv, TriedSoFar
  <2>. QED  BY <1>1, <2>1, <2>2 DEF TriedSoFar, Mine
<1>14. TriesHaveReason'
  <2>1. ASSUME NEW q \in DepProcesses, NEW n \in Modules, PackageOf[n] \in py'[q].attempted
        PROVE  n \in venv \/ HasReason(q, n) \/ SeesTo(q, n)'
    <3>1. CASE q = p /\ n = Top(t).mod
      BY <1>3, <1>12, <3>1 DEF SeesTo
    <3>2. CASE ~ (q = p /\ n = Top(t).mod)
      <4>1. PackageOf[n] \in py[q].attempted
        <5>1. q = p /\ PackageOf[n] = pkg => n = Top(t).mod
          BY <1>1, <1>2, DepsAssumption
        <5>. QED  BY <1>7, <2>1, <3>2, <5>1
      <4>2. n \in venv \/ HasReason(q, n) \/ SeesTo(q, n)
        BY <4>1 DEF DepsInv, TriesHaveReason
      <4>3. ASSUME NEW u \in Importers, ProcessOf[u] = q, NEW i \in DOMAIN stack[u], stack[u][i].mod = n,
                   stack[u][i].at \in {"file", "look", "pip"}
            PROVE  i \in DOMAIN stack'[u] /\ stack'[u][i] = stack[u][i]
        <5>1. CASE u = t
          <6>1. i < Len(stack[t])
            BY <1>1, <1>2, <4>3, <5>1
          <6>. QED  BY <1>3, <4>3, <5>1, <6>1 DEF Gone, Below
        <5>. QED  BY <1>12, <4>3, <5>1
      <4>. QED  BY <4>2, <4>3 DEF SeesTo
    <3>. QED  BY <3>1, <3>2
  <2>2. ASSUME NEW u \in Importers, NEW i \in DOMAIN stack'[u], stack'[u][i].at \in {"find", "resolve"},
               PackageOf[stack'[u][i].mod] \in py'[ProcessOf[u]].attempted
        PROVE  /\ i \in DOMAIN stack[u] /\ stack'[u][i] = stack[u][i] /\ u # t
               /\ HasReason(ProcessOf[u], stack[u][i].mod) \/ LooksFor(u, stack[u][i].mod)
    <3>1. u # t
      <4>. SUFFICES ASSUME u = t  PROVE FALSE
        OBVIOUS
      <4>1. i < Len(stack[t]) /\ i \in DOMAIN stack[t] /\ stack'[t][i] = stack[t][i]
        BY <1>3, <1>12, <2>2
      <4>. QED  BY <2>2, <4>1 DEF DepsInv, StacksNest
    <3>2. i \in DOMAIN stack[u] /\ stack'[u][i] = stack[u][i]
      BY <1>12, <3>1
    <3>3. stack[u][i].mod \in Modules /\ ProcessOf[u] \in DepProcesses
      BY <3>2, FramesHave DEF DepsInv
    <3>4. PackageOf[stack[u][i].mod] \in py[ProcessOf[u]].attempted
      <4>. SUFFICES ASSUME ProcessOf[u] = p, PackageOf[stack[u][i].mod] = pkg  PROVE FALSE
        BY <1>7, <2>2, <3>2, <3>3
      <4>1. stack[u][i].mod = stack[t][Len(stack[t])].mod
        BY <1>1, <1>2, <3>3, DepsAssumption
      <4>2. stack[u][i].at # "enter" /\ stack[t][Len(stack[t])].at # "enter"
        BY <1>1, <1>2, <2>2, <3>2
      <4>. QED  BY <1>2, <3>1, <3>2, <4>1, <4>2 DEF DepsInv, ModulesApart
    <3>5. HasReason(ProcessOf[u], stack[u][i].mod) \/ LooksFor(u, stack[u][i].mod)
      BY <2>2, <3>2, <3>4 DEF DepsInv, TriesHaveReason, Mine
    <3>. QED  BY <3>1, <3>2, <3>5
  <2>3. ASSUME NEW u \in Importers, NEW i \in DOMAIN stack'[u], stack'[u][i].at \in {"find", "resolve"},
               PackageOf[stack'[u][i].mod] \in py'[ProcessOf[u]].attempted
        PROVE  \/ HasReason(ProcessOf[u], stack'[u][i].mod)
               \/ \E j \in DOMAIN stack'[u] : stack'[u][j].mod = stack'[u][i].mod /\ stack'[u][j].at = "look"
    <3>1. stack'[u] = stack[u]
      BY <1>12, <2>2, <2>3
    <3>. QED  BY <2>2, <2>3, <3>1 DEF LooksFor
  <2>. QED  BY <1>1, <2>1, <2>3 DEF TriesHaveReason, HasReason, LooksFor, Mine
<1>. QED  BY <1>3, <1>8, <1>9, <1>10, <1>11, <1>13, <1>14 DEF DepsInv

LEMMA LockFileKeeps ==
  ASSUME DepsInv, NEW t \in Importers, LockFile(t)  PROVE DepsInv'
<1>. DEFINE n == Len(stack[t])
            f == [Top(t) EXCEPT !.at = "look"]
            g == Frame(Top(t).mod, "enter")
<1>1. /\ stack[t] # <<>> /\ Top(t).at = "file" /\ fileLock = NoThread /\ fileLock' = t /\ Pushes(t, Top(t).mod, "look")
      /\ UNCHANGED <<venv, py, result, ran, notInstalled>>
  BY DEF LockFile, FrameAt
<1>2. /\ n \in Nat \ {0} /\ DOMAIN stack[t] = 1..n /\ n \in DOMAIN stack[t]
      /\ Top(t) = stack[t][n] /\ Top(t) \in Frames /\ Top(t).mod \in Modules /\ stack[t] \in Seq(Frames)
      /\ \A q \in DepProcesses : py[q].loaded \subseteq venv
      /\ OptionalsThere => \A k \in DOMAIN Top(t).todo : Top(t).todo[k] \in Present
  BY <1>1, TopIs DEF DepsInv, DepsTypes
<1>3. f \in Frames /\ f.at = "look" /\ f.mod = Top(t).mod /\ f.todo = Top(t).todo
  BY <1>2 DEF Frames, Places
<1>4. g \in Frames /\ g.at = "enter" /\ g.mod = Top(t).mod /\ g.todo = <<>>
  BY <1>2 DEF Frame, Frames, Places
<1>5. stack' = [stack EXCEPT ![t] = Append([stack[t] EXCEPT ![n] = f], g)]
  <2>1. [stack[t] EXCEPT ![n].at = "look"] = [stack[t] EXCEPT ![n] = f]
    BY <1>2
  <2>. QED  BY <1>1, <2>1 DEF Pushes
<1>. HIDE DEF f, g, n
<1>6. Pushed(t, f, g)
  BY <1>1, <1>3, <1>4, <1>5, PushesIs DEF DepsInv, n
<1>7. /\ StacksNest' /\ ModulesApart' /\ OptionalsFound' /\ FailsForAReason'
      /\ \A i \in DOMAIN stack'[t] : FrameFound(t, i)'
  <2>1. OptionalsThere => \A k \in DOMAIN f.todo : f.todo[k] \in Present
    BY <1>2, <1>3
  <2>2. Top(t).at # "enter" /\ g.mod = f.mod /\ f.at # "body"
    BY <1>1, <1>3, <1>4
  <2>. QED  BY <1>1, <1>3, <1>4, <1>6, <2>1, <2>2, PushKeeps
<1>8. /\ OthersStand(t) /\ n \in DOMAIN stack'[t] /\ stack'[t][n] = f
      /\ \A i \in DOMAIN stack'[t] :
           (i \in DOMAIN stack[t] /\ i < n /\ stack'[t][i] = stack[t][i]) \/ i = n \/ (i # n /\ stack'[t][i] = g)
      /\ \A i \in DOMAIN stack[t] : i \in DOMAIN stack'[t] /\ (i = n \/ stack'[t][i] = stack[t][i])
  BY <1>2, <1>6 DEF Pushed, Below, n
<1>9. DepsTypes'
  BY <1>1, <1>8 DEF DepsInv, DepsTypes, OthersStand
<1>10. LocksAreHeld' /\ LocksHaveHolders'
  <2>1. SameLocks
    BY <1>1, Unset DEF DepsInv
  <2>2. \A i \in DOMAIN stack'[t] : stack'[t][i].at \in Working => Resolves(t, i) /\ stack'[t][i].mod = stack[t][i].mod
    BY <1>1, <1>2, <1>3, <1>4, <1>8 DEF Resolves, Working
  <2>3. \A i \in DOMAIN stack[t] : Resolves(t, i) => i \in DOMAIN stack'[t] /\ stack'[t][i].at \in Working
    BY <1>3, <1>8 DEF Resolves, Working
  <2>. QED  BY <1>8, <2>1, <2>2, <2>3, LocksStay
<1>11. FileLockIsHeld'
  <2>1. \A u \in Importers : \A i \in DOMAIN stack[u] : stack[u][i].at \notin {"look", "pip"}
    BY <1>1, DepsAssumption DEF DepsInv, FileLockIsHeld, HoldsFile
  <2>2. ASSUME NEW u \in Importers, NEW i \in DOMAIN stack'[u], stack'[u][i].at \in {"look", "pip"}  PROVE u = t
    BY <1>8, <2>1, <2>2 DEF OthersStand
  <2>. QED  BY <1>1, <1>3, <1>8, <2>2 DEF FileLockIsHeld, HoldsFile
<1>12. TriedSoFar'
  <2>1. \A i \in DOMAIN stack'[t] : stack'[t][i].at \in {"file", "look", "pip", "again"} =>
          \E j \in DOMAIN stack[t] : /\ stack[t][j].mod = stack'[t][i].mod
                                     /\ stack[t][j].at \in {"file", "look", "pip", "again"}
                                     /\ stack'[t][i].at \in {"file", "look"} => stack[t][j].at \in {"file", "look"}
    BY <1>1, <1>2, <1>3, <1>4, <1>8
  <2>. QED  BY <1>1, <1>8, <2>1, StillTried
<1>13. FoundIsThere'
  BY <1>1, <1>2, <1>7, <1>8, StillFound
<1>14. TriesHaveReason'
  <2>1. MoreFailed
    BY <1>1 DEF MoreFailed, DepsInv, DepsTypes
  <2>2. \A i \in DOMAIN stack[t] : stack[t][i].at \in {"file", "look", "pip"} =>
          \E j \in DOMAIN stack'[t] : stack'[t][j].mod = stack[t][i].mod /\ stack'[t][j].at \in {"file", "look", "pip"}
    BY <1>2, <1>3, <1>8
  <2>3. \A i \in DOMAIN stack'[t] : stack'[t][i].at \notin {"find", "resolve"}
    BY <1>3, <1>4, <1>8 DEF DepsInv, StacksNest, n
  <2>. QED  BY <1>1, <1>8, <2>1, <2>2, <2>3, StillReason
<1>. QED  BY <1>7, <1>9, <1>10, <1>11, <1>12, <1>13, <1>14 DEF DepsInv

\* Steps from one place of who resolves a name to another.
LEMMA WorkKeeps ==
  ASSUME DepsInv, NEW t \in Importers, stack[t] # <<>>, Top(t).at \in Working, NEW place \in Working \ {"resolve"},
         Goes(t, place), UNCHANGED <<py, notInstalled>>,
         result' \in Results, \A u \in Importers : u # t => result'[u] = result[u],
         venv \subseteq venv', venv' \subseteq Modules, ran' \in [DepProcesses -> [Packages -> Nat]],
         fileLock' \in Importers \union {NoThread}, FileLockIsHeld', TriedSoFar',
         place = "pip" \/ (place = "again" /\ Top(t).mod \in venv' \union Phantom)
  PROVE  DepsInv'
<1>. DEFINE f == [Top(t) EXCEPT !.at = place]
<1>1. Top(t).at # "enter" /\ place \in Places \ {"enter", "find"} /\ \A q \in DepProcesses : py[q].loaded \subseteq venv
  BY TopIs DEF Working, Places
<1>2. /\ f \in Frames /\ f.at = place /\ f.mod = Top(t).mod /\ Gone(t, f)
      /\ StacksNest' /\ ModulesApart' /\ OptionalsFound' /\ FailsForAReason'
  BY <1>1, GoesTo
<1>. HIDE DEF f
<1>3. SameLocks /\ \A p \in DepProcesses : py'[p].attempted = py[p].attempted /\ py'[p].loaded = py[p].loaded
  BY Unset DEF DepsInv
<1>4. DepsTypes'
  BY <1>2 DEF DepsInv, DepsTypes, Gone, OthersStand, Results
<1>5. LocksAreHeld' /\ LocksHaveHolders'
  BY <1>2, <1>3, GoLocks
<1>6. FoundIsThere'
  BY <1>1, <1>2, <1>3, GoFound, StillFound DEF Gone
<1>7. TriesHaveReason'
  BY <1>2, <1>3, GoTries DEF Working
<1>. QED  BY <1>2, <1>4, <1>5, <1>6, <1>7 DEF DepsInv

LEMMA AlreadyThereKeeps ==
  ASSUME DepsInv, NEW t \in Importers, AlreadyThere(t)  PROVE DepsInv'
<1>. DEFINE f == [Top(t) EXCEPT !.at = "again"]
<1>1. /\ stack[t] # <<>> /\ Top(t).at = "look" /\ result[t].how = "there" /\ fileLock' = NoThread /\ Goes(t, "again")
      /\ result' = [result EXCEPT ![t] = Pending] /\ UNCHANGED <<venv, py, ran, notInstalled>>
  BY DEF AlreadyThere, FrameAt
<1>2. Top(t).mod \in venv
  BY <1>1, TopIs DEF DepsInv, FoundIsThere
<1>3. result' \in Results /\ \A u \in Importers : u # t => result'[u] = result[u]
  BY <1>1 DEF Results, Pending, DepsInv, DepsTypes
<1>4. /\ venv' \subseteq Modules /\ ran' \in [DepProcesses -> [Packages -> Nat]]
  BY <1>1 DEF DepsInv, DepsTypes
<1>5. f.at = "again" /\ f.mod = Top(t).mod /\ Gone(t, f)
  BY <1>1, <1>3, GoesTo DEF Places
<1>. HIDE DEF f
<1>6. FileLockIsHeld'
  <2>1. \A i \in DOMAIN stack'[t] : stack'[t][i].at \in {"look", "pip"} =>
          i \in DOMAIN stack[t] /\ i < Len(stack[t]) /\ stack'[t][i] = stack[t][i]
    BY <1>5 DEF Gone, Below
  <2>. QED  BY <1>1, <1>5, <2>1, FileLockReleased DEF Gone
<1>7. TriedSoFar'
  <2>1. \A p \in DepProcesses : py'[p].attempted = py[p].attempted
    BY <1>1
  <2>. QED  BY <1>1, <1>5, <2>1, GoTried
<1>. QED  BY <1>1, <1>2, <1>3, <1>4, <1>6, <1>7, WorkKeeps DEF Working

LEMMA PipInstallsKeeps ==
  ASSUME DepsInv, NEW t \in Importers, PipInstalls(t)  PROVE DepsInv'
<1>. DEFINE f == [Top(t) EXCEPT !.at = "again"]
<1>1. /\ stack[t] # <<>> /\ Top(t).at = "pip" /\ venv' = venv \cup FilesOf(PackageOf[Top(t).mod])
      /\ fileLock' = NoThread /\ Goes(t, "again") /\ UNCHANGED <<py, result, ran, notInstalled>>
  BY DEF PipInstalls, FrameAt
<1>2. Top(t).mod \in venv' \union Phantom /\ venv \subseteq venv' /\ venv' \subseteq Modules
  BY <1>1, TopIs DEF FilesOf, DepsInv, DepsTypes
<1>3. result' \in Results /\ \A u \in Importers : u # t => result'[u] = result[u]
  BY <1>1 DEF Results, DepsInv, DepsTypes
<1>4. ran' \in [DepProcesses -> [Packages -> Nat]]
  BY <1>1 DEF DepsInv, DepsTypes
<1>5. f.at = "again" /\ f.mod = Top(t).mod /\ Gone(t, f)
  BY <1>1, <1>3, GoesTo DEF Places
<1>. HIDE DEF f
<1>6. FileLockIsHeld'
  <2>1. \A i \in DOMAIN stack'[t] : stack'[t][i].at \in {"look", "pip"} =>
          i \in DOMAIN stack[t] /\ i < Len(stack[t]) /\ stack'[t][i] = stack[t][i]
    BY <1>5 DEF Gone, Below
  <2>. QED  BY <1>1, <1>5, <2>1, FileLockReleased DEF Gone
<1>7. TriedSoFar'
  <2>1. \A p \in DepProcesses : py'[p].attempted = py[p].attempted
    BY <1>1
  <2>. QED  BY <1>1, <1>5, <2>1, GoTried
<1>. QED  BY <1>1, <1>2, <1>3, <1>4, <1>6, <1>7, WorkKeeps DEF Working

LEMMA RunPipKeeps ==
  ASSUME DepsInv, NEW t \in Importers, RunPip(t)  PROVE DepsInv'
<1>. DEFINE f == [Top(t) EXCEPT !.at = "pip"]
            p == ProcessOf[t]
            pkg == PackageOf[Top(t).mod]
<1>1. /\ stack[t] # <<>> /\ Top(t).at = "look" /\ Goes(t, "pip") /\ result' = [result EXCEPT ![t] = Pending]
      /\ ran' = [ran EXCEPT ![p][pkg] = @ + 1] /\ UNCHANGED <<venv, fileLock, py, notInstalled>>
  BY DEF RunPip, FrameAt
<1>2. /\ Len(stack[t]) \in Nat \ {0} /\ Len(stack[t]) \in DOMAIN stack[t] /\ Top(t) = stack[t][Len(stack[t])]
      /\ p \in DepProcesses /\ Mine(t) \in Interpreters
  BY <1>1, TopIs
<1>3. result' \in Results /\ \A u \in Importers : u # t => result'[u] = result[u]
  BY <1>1 DEF Results, Pending, DepsInv, DepsTypes
<1>4. f.at = "pip" /\ f.mod = Top(t).mod /\ Gone(t, f)
  BY <1>1, <1>3, GoesTo DEF Places
<1>5. pkg \in py[p].attempted /\ ran[p][pkg] = 0 /\ pkg \in Packages
  BY <1>1, <1>2 DEF DepsInv, TriedSoFar, Mine, Interpreters
<1>6. /\ ran' \in [DepProcesses -> [Packages -> Nat]] /\ ran'[p][pkg] = 1
      /\ \A q \in DepProcesses : \A k \in Packages : q # p \/ k # pkg => ran'[q][k] = ran[q][k]
  <2>1. ran \in [DepProcesses -> [Packages -> Nat]] /\ ran[p] \in [Packages -> Nat]
    BY <1>2 DEF DepsInv, DepsTypes
  <2>. DEFINE r == [ran[p] EXCEPT ![pkg] = @ + 1]
  <2>2. r \in [Packages -> Nat] /\ r[pkg] = 1 /\ \A k \in Packages : k # pkg => r[k] = ran[p][k]
    BY <1>5, <2>1
  <2>3. ran' = [ran EXCEPT ![p] = r]
    BY <1>1
  <2>. HIDE DEF r, p, pkg
  <2>. QED  BY <1>2, <2>1, <2>2, <2>3
<1>. HIDE DEF f, p, pkg
<1>7. FileLockIsHeld'
  BY <1>1, <1>4, GoFile
<1>8. TriedSoFar'
  <2>1. ASSUME NEW u \in Importers, NEW i \in DOMAIN stack'[u]
        PROVE  /\ stack'[u][i].at \in {"file", "look", "pip", "again"} => PackageOf[stack'[u][i].mod] \in py[ProcessOf[u]].attempted
               /\ stack'[u][i].at \in {"file", "look"} => ran'[ProcessOf[u]][PackageOf[stack'[u][i].mod]] = 0
    <3>1. CASE u = t /\ i = Len(stack[t])
      <4>1. stack'[u][i] = f
        BY <1>4, <3>1 DEF Gone
      <4>. QED  BY <1>4, <1>5, <3>1, <4>1 DEF p, pkg
    <3>2. CASE ~ (u = t /\ i = Len(stack[t]))
      <4>1. i \in DOMAIN stack[u] /\ stack'[u][i] = stack[u][i]
        BY <1>4, <3>2 DEF Gone, Below, OthersStand
      <4>2. /\ stack[u][i].at \in {"file", "look", "pip", "again"} => PackageOf[stack[u][i].mod] \in py[ProcessOf[u]].attempted
            /\ stack[u][i].at \in {"file", "look"} => ran[ProcessOf[u]][PackageOf[stack[u][i].mod]] = 0
        BY <4>1 DEF DepsInv, TriedSoFar, Mine
      <4>3. ASSUME stack[u][i].at \in {"file", "look"}  PROVE ProcessOf[u] # p
        BY <1>1, <3>2, <4>1, <4>3, ResolvesAlone DEF Working, p
      <4>4. ASSUME stack[u][i].at \in {"file", "look"}
            PROVE  PackageOf[stack[u][i].mod] \in Packages /\ ProcessOf[u] \in DepProcesses
        <5>1. ProcessOf[u] \in DepProcesses /\ py[ProcessOf[u]] \in Interpreters
          BY FramesHave DEF DepsInv
        <5>. QED  BY <4>2, <4>4, <5>1 DEF Interpreters
      <4>. QED  BY <1>6, <4>1, <4>2, <4>3, <4>4
    <3>. QED  BY <3>1, <3>2
  <2>2. \A q \in DepProcesses : \A k \in Packages : ran'[q][k] = 0 \/ (ran'[q][k] = 1 /\ k \in py[q].attempted)
    BY <1>5, <1>6 DEF DepsInv, TriedSoFar
  <2>. QED  BY <1>1, <2>1, <2>2 DEF TriedSoFar, Mine
<1>9. venv' \subseteq Modules /\ fileLock' \in Importers \union {NoThread}
  BY <1>1 DEF DepsInv, DepsTypes
<1>. QED  BY <1>1, <1>3, <1>6, <1>7, <1>8, <1>9, WorkKeeps DEF Working

-----------------------------------------------------------------------------
LEMMA DepsBegin == DepsInit => DepsInv
<1>. SUFFICES ASSUME DepsInit  PROVE DepsInv
  OBVIOUS
<1>1. \A t \in Importers : stack[t] = <<>> /\ DOMAIN stack[t] = {} /\ result[t].how = "pending"
  <2>1. \A t \in Importers : stack[t] = <<>> /\ result[t] = Pending
    BY DEF DepsInit
  <2>2. Pending.how = "pending" /\ DOMAIN <<>> = {}
    BY DEF Pending
  <2>. QED  BY <2>1, <2>2
<1>2. \A p \in DepProcesses : py[p] = [loaded |-> {}, attempted |-> {}, resolving |-> {}, lock |-> NoThread]
  BY DEF DepsInit
<1>3. DepsTypes
  <2>1. <<>> \in Seq(Frames)
    OBVIOUS
  <2>2. [loaded |-> {}, attempted |-> {}, resolving |-> {}, lock |-> NoThread] \in Interpreters
    BY DEF Interpreters
  <2>3. Pending \in [how : {"pending", "there", "missing", "raised"}, mod : Modules \union {""}]
    BY DEF Pending
  <2>. QED  BY <2>1, <2>2, <2>3, DepsAssumption DEF DepsTypes, DepsInit
<1>4. StacksNest /\ LocksAreHeld /\ FileLockIsHeld /\ ModulesApart
  BY <1>1 DEF StacksNest, LocksAreHeld, FileLockIsHeld, ModulesApart, DepsInit
<1>5. LocksHaveHolders
  BY <1>2 DEF LocksHaveHolders
<1>6. TriedSoFar
  BY <1>1 DEF TriedSoFar, DepsInit
<1>7. FoundIsThere
  BY <1>1, <1>2 DEF FoundIsThere, DepsInit
<1>8. TriesHaveReason
  BY <1>1, <1>2 DEF TriesHaveReason
<1>9. OptionalsFound
  BY <1>1 DEF OptionalsFound
<1>10. FailsForAReason
  BY <1>1 DEF FailsForAReason
<1>. QED  BY <1>3, <1>4, <1>5, <1>6, <1>7, <1>8, <1>9, <1>10 DEF DepsInv

LEMMA DepsStep == DepsInv /\ [DepsNext]_depsVars => DepsInv'
<1>. SUFFICES ASSUME DepsInv, [DepsNext]_depsVars  PROVE DepsInv'
  OBVIOUS
<1>1. CASE UNCHANGED depsVars
  <2>1. UNCHANGED <<venv, fileLock, py, stack, result, ran, notInstalled>>
    BY <1>1 DEF depsVars
  <2>2. DepsTypes' /\ StacksNest' /\ FailsForAReason'
    BY <2>1 DEF DepsInv, DepsTypes, StacksNest, FailsForAReason
  <2>3. LocksAreHeld' /\ LocksHaveHolders' /\ FileLockIsHeld'
    BY <2>1 DEF DepsInv, LocksAreHeld, LocksHaveHolders, FileLockIsHeld, Resolves, HoldsFile, Mine
  <2>4. ModulesApart' /\ TriedSoFar' /\ FoundIsThere'
    BY <2>1 DEF DepsInv, ModulesApart, TriedSoFar, FoundIsThere, Mine
  <2>5. TriesHaveReason'
    BY <2>1 DEF DepsInv, TriesHaveReason, HasReason, SeesTo, LooksFor, Mine
  <2>6. OptionalsFound'
    BY <2>1 DEF DepsInv, OptionalsFound, OptionalsThere
  <2>. QED  BY <2>2, <2>3, <2>4, <2>5, <2>6 DEF DepsInv
<1>2. CASE DepsNext
  <2>1. PICK t \in Importers :
          \/ \E n \in Modules : StartImport(t, n)
          \/ Enter(t) \/ Load(t) \/ Body(t) \/ BodyDone(t) \/ BodyRaises(t) \/ LockFails(t)
          \/ FindReentered(t) \/ FindSpec(t) \/ ResolveNothing(t) \/ Resolve(t)
          \/ LockFile(t) \/ AlreadyThere(t) \/ RunPip(t) \/ PipInstalls(t) \/ PipFails(t) \/ FindAgain(t)
    BY <1>2 DEF DepsNext
  <2>. QED  BY <2>1, StartKeeps, EnterKeeps, LoadKeeps, BodyKeeps, BodyDoneKeeps, FindReenteredKeeps, FindSpecKeeps,
               ResolveNothingKeeps, ResolveKeeps, LockFileKeeps, AlreadyThereKeeps, RunPipKeeps, PipInstallsKeeps,
               PipFailsKeeps, FindAgainKeeps, BodyRaisesKeeps, LockFailsKeeps
<1>. QED  BY <1>1, <1>2

LEMMA NobodyWaitsForItself == DepsInv /\ OptionalsThere => WaitsForOthers
<1>. SUFFICES ASSUME DepsInv, OptionalsThere, NEW t \in Importers, stack[t] # <<>>
     PROVE  /\ Top(t).at = "find" /\ ~Reentered(t) => Mine(t).lock # t
            /\ Top(t).at = "file" => fileLock # t
  BY DEF WaitsForOthers, FrameAt
<1>. DEFINE n == Len(stack[t])
<1>1. /\ n \in Nat \ {0} /\ DOMAIN stack[t] = 1..n /\ n \in DOMAIN stack[t] /\ Top(t) = stack[t][n]
      /\ ProcessOf[t] \in DepProcesses
  BY TopIs
<1>2. ASSUME Top(t).at = "find", ~Reentered(t), Mine(t).lock = t  PROVE FALSE
  <2>1. PICK i \in DOMAIN stack[t] : Resolves(t, i)
    BY <1>1, <1>2, DepsAssumption DEF DepsInv, LocksHaveHolders, Mine
  <2>2. i < n /\ stack[t][i].at = "look"
    <3>1. i # n
      BY <1>1, <1>2, <2>1 DEF Resolves, Working
    <3>2. i < n
      BY <1>1, <3>1
    <3>. QED  BY <2>1, <3>2 DEF DepsInv, StacksNest, Resolves, Working
  <2>3. stack[t][i].mod \in Mine(t).resolving
    BY <2>1 DEF DepsInv, LocksAreHeld
  <2>4. n - 1 \in DOMAIN stack[t] /\ n - 1 < n /\ i <= n - 1 /\ (n - 1) + 1 = n
    BY <1>1, <2>2
  <2>5. CASE i = n - 1
    <3>1. stack[t][n].mod = stack[t][i].mod
      BY <2>2, <2>4, <2>5 DEF DepsInv, StacksNest
    <3>. QED  BY <1>1, <1>2, <2>3, <3>1 DEF Reentered
  <2>6. CASE i # n - 1
    <3>1. stack[t][n - 1].at = "body"
      <4>1. stack[t][n - 1].at \in {"look", "body"}
        BY <2>4 DEF DepsInv, StacksNest
      <4>2. stack[t][n - 1].at # "look"
        BY <2>1, <2>4, <2>6 DEF DepsInv, LocksAreHeld, Resolves, Working
      <4>. QED  BY <4>1, <4>2
    <3>2. stack[t][n].mod \in Present
      BY <2>4, <3>1 DEF DepsInv, OptionalsFound
    <3>. QED  BY <1>1, <1>2, <3>2 DEF DepsInv, OptionalsFound
  <2>. QED  BY <2>5, <2>6
<1>3. ASSUME Top(t).at = "file", fileLock = t  PROVE FALSE
  <2>1. PICK i \in DOMAIN stack[t] : HoldsFile(t, i)
    BY <1>3, DepsAssumption DEF DepsInv, FileLockIsHeld
  <2>2. i = n
    BY <1>3, <2>1, ResolvesAlone DEF HoldsFile, Working
  <2>. QED  BY <1>1, <1>3, <2>1, <2>2 DEF HoldsFile
<1>. QED  BY <1>2, <1>3

LEMMA OneRunsPip == DepsInv => OnePip
<1>. SUFFICES ASSUME DepsInv  PROVE OnePip
  OBVIOUS
<1>. DEFINE S == {t \in Importers : FrameAt(t, "pip")}
<1>1. S \subseteq {fileLock}
  BY TopIs DEF FrameAt, DepsInv, FileLockIsHeld, HoldsFile
<1>2. S = {} \/ S = {fileLock}
  BY <1>1
<1>3. Cardinality(S) <= 1
  <2>1. Cardinality({}) = 0 /\ Cardinality({fileLock}) = 1
    BY FS_EmptySet, FS_Singleton
  <2>. HIDE DEF S
  <2>2. Cardinality(S) = 0 \/ Cardinality(S) = 1
    BY <1>2, <2>1
  <2>. QED  BY <2>2
<1>. QED  BY <1>3 DEF OnePip

LEMMA AllGivenBack == DepsInv => LocksGivenBack
<1>. SUFFICES ASSUME DepsInv, \A t \in Importers : stack[t] = <<>>
     PROVE  fileLock = NoThread /\ \A p \in DepProcesses : py[p].lock = NoThread /\ py[p].resolving = {}
  BY DEF LocksGivenBack
<1>1. \A t \in Importers : DOMAIN stack[t] = {}
  OBVIOUS
<1>2. fileLock = NoThread
  BY <1>1 DEF DepsInv, DepsTypes, FileLockIsHeld
<1>3. ASSUME NEW p \in DepProcesses  PROVE py[p].lock = NoThread /\ py[p].resolving = {}
  <2>1. py[p].lock \in Importers \union {NoThread}
    BY DEF DepsInv, DepsTypes, Interpreters
  <2>. QED  BY <1>1, <2>1 DEF DepsInv, LocksHaveHolders
<1>. QED  BY <1>2, <1>3

LEMMA DepsAreSafe ==
  DepsInv => OnePip /\ TriedOnce /\ FailsForAReason /\ (OptionalsThere => WaitsForOthers) /\ LocksGivenBack
BY NobodyWaitsForItself, OneRunsPip, AllGivenBack DEF DepsInv, TriedSoFar, TriedOnce

-----------------------------------------------------------------------------
(* PluginImport: the inductive invariant                                    *)

Directories == Plugins \union {Base, Parent, Extra}
Stages == {"start", "save", "own directory", "parent directory", "import", "main", "leave", "discover", "done", "failed"}
LoadRecords ==
  [at : Stages, of : Plugins, saved : Seq(Directories), added : Seq(Directories),
   code : Plugins \union {NoPlugin}, parts : Plugins \union {NoPlugin}, star : BOOLEAN,
   why : {"none", "missing", "raised", "nothing", "not found", "no star"}]
Owners == [Names -> Plugins \union {NoPlugin}]

ImportTypes ==
  /\ oneByOne \in BOOLEAN /\ layout \in [Plugins -> Layouts] /\ hard \subseteq Plugins
  /\ path \in Seq(Directories) /\ modules \in Owners /\ subs \in Owners
  /\ load \in [Loads -> LoadRecords]

\* One load at a time leaves sys.path to itself and as it was.
LoadsApart ==
  \A k, l \in Running : oneByOne \/ load[k].of = load[l].of => k = l

OnPath(l) ==
  oneByOne /\ l \in Running =>
    /\ load[l].at \in {"save", "discover"} => path = <<Base>>
    /\ load[l].at \notin {"save", "discover"} => load[l].saved = <<Base>>
    /\ load[l].at \in {"parent directory", "import", "main"} => load[l].of \in ToSet(path)
    /\ load[l].at \in {"import", "main"} => Parent \in ToSet(path)
    /\ load[l].of \in hard => redirect = load[l].of

\* What is in sys.modules under the name of a plugin that has it alone is the plugin's own,
\* and so is what the plugin has imported from its package.
OwnPackage(l) ==
  LET p == load[l].of
      n == ByName(p)
  IN  Packaged(p) /\ Alone(l) =>
        /\ modules[n] \in {NoPlugin, p} /\ subs[n] \in {NoPlugin, p} /\ load[l].parts \in {NoPlugin, p}
        /\ load[l].at = "main" => modules[n] = p

OwnCode(l) ==
  /\ load[l].at = "main" => Packaged(load[l].of)
  /\ Packaged(load[l].of) /\ load[l].at \in {"leave", "discover", "done"} /\ load[l].why = "none" =>
       load[l].code = load[l].of
  /\ Packaged(load[l].of) /\ load[l].at = "leave" => load[l].why \in {"none", "raised"}
  /\ Packaged(load[l].of) /\ load[l].at = "failed" => load[l].why \in {"raised", "no star"}
  /\ load[l].at \in {"discover", "done"} => load[l].why = "none"

ImportInv ==
  /\ ImportTypes /\ LoadsApart /\ PathComesBack
  /\ \A l \in Loads : OnPath(l) /\ OwnPackage(l) /\ OwnCode(l)

-----------------------------------------------------------------------------
(* A step of one load.                                                      *)
Moves(l, r) == load' = [load EXCEPT ![l] = r]
Ended == {"start", "done", "failed"}

LEMMA MovesIs ==
  ASSUME ImportTypes, NEW l \in Loads, NEW r \in LoadRecords, Moves(l, r)
  PROVE  /\ load' \in [Loads -> LoadRecords] /\ load'[l] = r /\ \A k \in Loads : k # l => load'[k] = load[k]
         /\ \A k \in Loads : k # l => (k \in Running' <=> k \in Running)
         /\ l \in Running' <=> r.at \notin Ended
         /\ l \in Running <=> load[l].at \notin Ended
         /\ Running \subseteq Loads /\ Running' \subseteq Loads
<1>1. load' \in [Loads -> LoadRecords] /\ load'[l] = r /\ \A k \in Loads : k # l => load'[k] = load[k]
  BY DEF ImportTypes, Moves
<1>. QED  BY <1>1 DEF Running, Ended

\* The load that moves: what its record becomes.
LEMMA RecordIs ==
  ASSUME ImportInv, NEW l \in Loads
  PROVE  /\ load[l] \in LoadRecords /\ load[l].at \in Stages /\ load[l].of \in Plugins /\ ModuleOf[load[l].of] \in Names
         /\ ByName(load[l].of) \in Names
         /\ load[l].saved \in Seq(Directories) /\ load[l].added \in Seq(Directories) /\ load[l].star \in BOOLEAN
         /\ load[l].parts \in Plugins \union {NoPlugin}
         /\ load[l].why \in {"none", "missing", "raised", "nothing", "not found", "no star"}
         /\ (l \in Running <=> load[l].at \notin Ended)
         /\ path \in Seq(Directories) /\ modules \in Owners /\ subs \in Owners
         /\ OnPath(l) /\ OwnPackage(l) /\ OwnCode(l) /\ DOMAIN load = Loads
BY DEF ImportInv, ImportTypes, LoadRecords, Names, ByName, Running, Ended

\* What a load is of does not change, nor who else is imported under its name.
LEMMA AloneStays ==
  ASSUME ImportTypes, NEW l \in Loads, NEW r \in LoadRecords, Moves(l, r), r.of = load[l].of, Fixed, NEW k \in Loads
  PROVE  Alone(k)' = Alone(k) /\ load'[k].of = load[k].of
<1>1. \A j \in Loads : load'[j].of = load[j].of
  BY MovesIs
<1>2. \A j \in Loads : ByName(load[j].of)' = ByName(load[j].of)
  BY <1>1 DEF Fixed, ByName
<1>. QED  BY <1>1, <1>2 DEF Alone

\* A step that imports nothing.
LEMMA OwnStays ==
  ASSUME ImportInv, NEW l \in Loads, NEW r \in LoadRecords, Moves(l, r), r.of = load[l].of, r.parts = load[l].parts,
         r.at # "main", Fixed, UNCHANGED <<modules, subs>>
  PROVE  /\ OwnPackage(l)' /\ modules' \in Owners /\ subs' \in Owners
         /\ \A n \in Names \ {ByName(load[l].of)} : modules'[n] = modules[n] /\ subs'[n] = subs[n]
<1>1. load'[l] = r /\ Alone(l)' = Alone(l)
  BY MovesIs, AloneStays DEF ImportInv
<1>2. Packaged(load[l].of)' = Packaged(load[l].of) /\ ByName(load[l].of)' = ByName(load[l].of)
  BY <1>1 DEF Fixed, Packaged, ByName
<1>. QED  BY <1>1, <1>2 DEF OwnPackage, ImportInv, ImportTypes

\* What the other loads rest on.
LEMMA OthersStay ==
  ASSUME ImportInv, NEW l \in Loads, NEW r \in LoadRecords, Moves(l, r), r.of = load[l].of, Fixed,
         path' \in Seq(Directories), modules' \in Owners, subs' \in Owners,
         l \in Running \/ (oneByOne => Running = {}), l \notin Running => \A k \in Running : load[k].of # load[l].of,
         \A n \in Names \ {ByName(load[l].of)} : modules'[n] = modules[n] /\ subs'[n] = subs[n],
         r.at \in Ended => PathComesBack',
         OnPath(l)', OwnPackage(l)', OwnCode(l)'
  PROVE  ImportInv'
<1>1. /\ load' \in [Loads -> LoadRecords] /\ load'[l] = r /\ \A k \in Loads : k # l => load'[k] = load[k]
      /\ \A k \in Loads : k # l => (k \in Running' <=> k \in Running)
      /\ l \in Running' <=> r.at \notin Ended
      /\ Running \subseteq Loads /\ Running' \subseteq Loads
  BY MovesIs DEF ImportInv
<1>2. UNCHANGED <<oneByOne, layout, hard>>
  BY DEF Fixed
<1>3. ImportTypes'
  BY <1>1, <1>2 DEF ImportInv, ImportTypes
<1>4. ASSUME oneByOne, NEW k \in Running, k # l  PROVE FALSE
  BY <1>4 DEF ImportInv, LoadsApart
<1>5. ASSUME NEW k \in Running, k # l  PROVE load[k].of # load[l].of
  BY <1>5 DEF ImportInv, LoadsApart
<1>6. LoadsApart'
  <2>1. ASSUME NEW j \in Running', NEW k \in Running', oneByOne \/ load'[j].of = load'[k].of  PROVE j = k
    <3>1. CASE j = l
      BY <1>1, <1>4, <1>5, <2>1, <3>1
    <3>2. CASE k = l
      BY <1>1, <1>4, <1>5, <2>1, <3>2
    <3>3. CASE j # l /\ k # l
      BY <1>1, <2>1, <3>3 DEF ImportInv, LoadsApart
    <3>. QED  BY <3>1, <3>2, <3>3
  <2>. QED  BY <1>2, <2>1 DEF LoadsApart
<1>7. PathComesBack'
  <2>1. CASE r.at \in Ended
    BY <2>1
  <2>2. CASE r.at \notin Ended
    BY <1>1, <2>2 DEF PathComesBack
  <2>. QED  BY <2>1, <2>2
<1>8. ASSUME NEW k \in Loads, k # l  PROVE OnPath(k)' /\ OwnPackage(k)' /\ OwnCode(k)'
  <2>0. load'[k] = load[k] /\ (k \in Running' <=> k \in Running)
    BY <1>1, <1>8
  <2>1. OnPath(k)'
    BY <1>2, <1>4, <1>8, <2>0 DEF OnPath
  <2>2. OwnPackage(k)'
    <3>. DEFINE p == load[k].of
                n == ByName(p)
    <3>0. Packaged(load[k].of)' = Packaged(load[k].of) /\ ByName(load[k].of)' = ByName(load[k].of)
      BY <1>2, <2>0 DEF Packaged, ByName
    <3>1. Alone(k)' = Alone(k) /\ n \in Names
      BY AloneStays, RecordIs DEF ImportInv
    <3>. SUFFICES ASSUME Packaged(p), Alone(k)
         PROVE  /\ modules'[n] \in {NoPlugin, p} /\ subs'[n] \in {NoPlugin, p} /\ load[k].parts \in {NoPlugin, p}
                /\ load[k].at = "main" => modules'[n] = p
      BY <2>0, <3>0, <3>1 DEF OwnPackage
    <3>2. /\ modules[n] \in {NoPlugin, p} /\ subs[n] \in {NoPlugin, p} /\ load[k].parts \in {NoPlugin, p}
          /\ load[k].at = "main" => modules[n] = p
      BY DEF ImportInv, OwnPackage
    <3>3. CASE n # ByName(load[l].of)
      BY <3>1, <3>2, <3>3
    <3>4. CASE n = ByName(load[l].of)
      <4>1. load[l].of = p
        BY <3>4 DEF Alone
      <4>2. load[k].at # "main"
        BY <1>5, <1>8, <4>1 DEF Running
      <4>3. Alone(l)
        BY <3>4, <4>1 DEF Alone
      <4>4. modules'[n] \in {NoPlugin, p} /\ subs'[n] \in {NoPlugin, p}
        <5>1. Alone(l)' /\ load'[l].of = p
          BY <1>1, <4>1, <4>3, AloneStays DEF ImportInv
        <5>2. Packaged(load[l].of)' /\ ByName(load[l].of)' = n
          BY <1>1, <1>2, <4>1 DEF Packaged, ByName
        <5>. QED  BY <5>1, <5>2 DEF OwnPackage
      <4>. QED  BY <3>2, <4>2, <4>4
    <3>. QED  BY <3>3, <3>4
  <2>3. OwnCode(k)'
    <3>1. OwnCode(k)
      BY DEF ImportInv
    <3>2. load'[k] = load[k] /\ layout' = layout /\ oneByOne' = oneByOne
      BY <1>2, <2>0
    <3>. QED  BY <3>1, <3>2 DEF OwnCode, Packaged
  <2>. QED  BY <2>1, <2>2, <2>3
<1>9. \A k \in Loads : OnPath(k)' /\ OwnPackage(k)' /\ OwnCode(k)'
  BY <1>8
<1>. QED  BY <1>3, <1>6, <1>7, <1>9 DEF ImportInv

\* Put in front, what is in sys.path stays.
LEMMA InFront ==
  ASSUME path \in Seq(Directories), NEW d \in Directories
  PROVE  <<d>> \o path \in Seq(Directories) /\ ToSet(<<d>> \o path) = {d} \union ToSet(path)
<1>. DEFINE s == <<d>> \o path
<1>1. s \in Seq(Directories) /\ Len(s) = 1 + Len(path) /\ s[1] = d /\ \A i \in 1..Len(path) : s[i + 1] = path[i]
  OBVIOUS
<1>2. Len(path) \in Nat /\ DOMAIN path = 1..Len(path) /\ DOMAIN s = 1..(1 + Len(path))
  BY <1>1
<1>. HIDE DEF s
<1>3. ASSUME NEW x \in ToSet(s)  PROVE x \in {d} \union ToSet(path)
  <2>1. PICK i \in DOMAIN s : s[i] = x
    BY <1>3 DEF ToSet
  <2>2. CASE i = 1
    BY <1>1, <2>1, <2>2
  <2>3. CASE i # 1
    <3>1. i - 1 \in 1..Len(path) /\ (i - 1) + 1 = i
      BY <1>2, <2>1, <2>3
    <3>2. path[i - 1] = x
      BY <1>1, <2>1, <3>1
    <3>. QED  BY <1>2, <3>1, <3>2 DEF ToSet
  <2>. QED  BY <2>2, <2>3
<1>4. ASSUME NEW x \in {d} \union ToSet(path)  PROVE x \in ToSet(s)
  <2>1. CASE x = d
    <3>1. 1 \in DOMAIN s
      BY <1>2
    <3>. QED  BY <1>1, <2>1, <3>1 DEF ToSet
  <2>2. CASE x \in ToSet(path)
    <3>1. PICK i \in 1..Len(path) : path[i] = x
      BY <1>2, <2>2 DEF ToSet
    <3>2. i + 1 \in DOMAIN s /\ s[i + 1] = x
      BY <1>1, <1>2, <3>1
    <3>. QED  BY <3>2 DEF ToSet
  <2>. QED  BY <2>1, <2>2
<1>. QED  BY <1>1, <1>3, <1>4 DEF s

LEMMA TakenOut ==
  ASSUME path \in Seq(Directories), NEW i \in DOMAIN path
  PROVE  RemoveAt(path, i) \in Seq(Directories)
<1>1. Len(path) \in Nat /\ i \in 1..Len(path) /\ \A j \in 1..Len(path) : path[j] \in Directories
  OBVIOUS
<1>2. SubSeq(path, 1, i - 1) \in Seq(Directories) /\ SubSeq(path, i + 1, Len(path)) \in Seq(Directories)
  BY <1>1, SubSeqProperties
<1>. QED  BY <1>2 DEF RemoveAt

-----------------------------------------------------------------------------
LEMMA NotThereKeeps ==
  ASSUME ImportInv, NEW l \in Loads, NotThere(l)  PROVE ImportInv'
<1>. DEFINE r == [load[l] EXCEPT !.at = "failed", !.why = "missing"]
<1>1. /\ MayBegin(l) /\ layout[load[l].of] = "missing" /\ Fixed /\ UNCHANGED <<path, modules, subs, redirect>>
      /\ load[l].at = "start" /\ l \notin Running
  BY RecordIs DEF NotThere, MayBegin, Ended
<1>2. Moves(l, r)
  BY RecordIs DEF NotThere, Moves
<1>3. r \in LoadRecords /\ r.at = "failed" /\ r.of = load[l].of /\ r.parts = load[l].parts
  BY RecordIs DEF LoadRecords, Stages
<1>. HIDE DEF r
<1>4. load'[l] = r /\ l \notin Running' /\ Running' = Running
  BY <1>1, <1>2, <1>3, MovesIs DEF ImportInv, Ended
<1>5. OnPath(l)' /\ OwnCode(l)' /\ PathComesBack'
  BY <1>1, <1>3, <1>4 DEF OnPath, OwnCode, Packaged, PathComesBack, ImportInv, Fixed
<1>6. path' \in Seq(Directories)
  BY <1>1, RecordIs
<1>. QED  BY <1>1, <1>2, <1>3, <1>5, <1>6, OthersStay, OwnStays DEF MayBegin

LEMMA BeginLoadKeeps ==
  ASSUME ImportInv, NEW l \in Loads, BeginLoad(l)  PROVE ImportInv'
<1>. DEFINE r == [load[l] EXCEPT !.at = "save"]
<1>1. /\ MayBegin(l) /\ Fixed /\ UNCHANGED <<path, modules, subs>> /\ load[l].at = "start" /\ l \notin Running
      /\ redirect' = IF load[l].of \in hard THEN load[l].of ELSE redirect
  BY RecordIs DEF BeginLoad, MayBegin, Ended
<1>2. Moves(l, r)
  BY RecordIs DEF BeginLoad, Moves
<1>3. r \in LoadRecords /\ r.at = "save" /\ r.of = load[l].of /\ r.parts = load[l].parts
  BY RecordIs DEF LoadRecords, Stages
<1>. HIDE DEF r
<1>4. load'[l] = r
  BY <1>2, <1>3, MovesIs DEF ImportInv
<1>5. oneByOne => path = <<Base>>
  BY <1>1 DEF MayBegin, ImportInv, PathComesBack
<1>6. OnPath(l)' /\ OwnCode(l)'
  BY <1>1, <1>3, <1>4, <1>5 DEF OnPath, OwnCode, Fixed
<1>7. path' \in Seq(Directories)
  BY <1>1, RecordIs
<1>. QED  BY <1>1, <1>2, <1>3, <1>6, <1>7, OthersStay, OwnStays DEF MayBegin, Ended

LEMMA SavePathKeeps ==
  ASSUME ImportInv, NEW l \in Loads, SavePath(l)  PROVE ImportInv'
<1>. DEFINE r == [load[l] EXCEPT !.at = "own directory", !.saved = path]
<1>1. Fixed /\ UNCHANGED <<path, modules, subs, redirect>> /\ load[l].at = "save" /\ l \in Running
  BY RecordIs DEF SavePath, Ended
<1>2. Moves(l, r)
  BY RecordIs DEF SavePath, Moves
<1>3. r \in LoadRecords /\ r.at = "own directory" /\ r.of = load[l].of /\ r.saved = path /\ r.parts = load[l].parts
  BY RecordIs DEF LoadRecords, Stages
<1>. HIDE DEF r
<1>4. load'[l] = r
  BY <1>2, <1>3, MovesIs DEF ImportInv
<1>5. OnPath(l)' /\ OwnCode(l)'
  BY <1>1, <1>3, <1>4, RecordIs DEF OnPath, OwnCode, Fixed
<1>6. path' \in Seq(Directories)
  BY <1>1, RecordIs
<1>. QED  BY <1>1, <1>2, <1>3, <1>5, <1>6, OthersStay, OwnStays DEF Ended

LEMMA PutKeeps ==
  ASSUME ImportInv, NEW l \in Loads, NEW d \in Directories, NEW next \in {"parent directory", "import"}, Put(l, d, next),
         IF next = "import" THEN load[l].at = "parent directory" /\ d = Parent
         ELSE load[l].at = "own directory" /\ d = load[l].of
  PROVE  ImportInv'
<1>. DEFINE r == IF d \in ToSet(path) THEN [load[l] EXCEPT !.at = next]
                 ELSE [load[l] EXCEPT !.at = next, !.added = Append(@, d)]
<1>1. Fixed /\ UNCHANGED <<modules, subs, redirect>> /\ l \in Running /\ load[l].at \notin {"save", "discover"}
  BY RecordIs DEF Put, Ended
<1>2. Moves(l, r)
  BY RecordIs DEF Put, Moves
<1>3. r \in LoadRecords /\ r.at = next /\ r.of = load[l].of /\ r.saved = load[l].saved /\ r.parts = load[l].parts
  <2>1. Append(load[l].added, d) \in Seq(Directories)
    <3>. DEFINE a == load[l].added
    <3>1. a \in Seq(Directories)
      BY RecordIs
    <3>. HIDE DEF a
    <3>2. Append(a, d) \in Seq(Directories)
      BY <3>1, AppendProperties
    <3>. QED  BY <3>2 DEF a
  <2>. QED  BY <2>1, RecordIs DEF LoadRecords, Stages
<1>4. path' \in Seq(Directories) /\ ToSet(path') = {d} \union ToSet(path)
  <2>1. CASE d \in ToSet(path)
    BY <2>1, RecordIs DEF Put
  <2>2. CASE d \notin ToSet(path)
    BY <2>2, InFront, RecordIs DEF Put
  <2>. QED  BY <2>1, <2>2
<1>. HIDE DEF r
<1>5. load'[l] = r
  BY <1>2, <1>3, MovesIs DEF ImportInv
<1>6. OnPath(l)' /\ OwnCode(l)'
  BY <1>1, <1>3, <1>4, <1>5, RecordIs DEF OnPath, OwnCode, Fixed
<1>. QED  BY <1>1, <1>2, <1>3, <1>4, <1>6, OthersStay, OwnStays DEF Ended

LEMMA TakeBackKeeps ==
  ASSUME ImportInv, NEW l \in Loads, TakeBack(l)  PROVE ImportInv'
<1>. DEFINE r == [load[l] EXCEPT !.added = Tail(@)]
<1>1. Fixed /\ UNCHANGED <<modules, subs, redirect>> /\ load[l].at = "leave" /\ l \in Running /\ load[l].added # <<>>
  BY RecordIs DEF TakeBack, Ended
<1>2. Moves(l, r)
  BY RecordIs DEF TakeBack, Moves
<1>3. /\ r \in LoadRecords /\ r.at = "leave" /\ r.of = load[l].of /\ r.saved = load[l].saved /\ r.why = load[l].why
      /\ r.code = load[l].code /\ r.parts = load[l].parts
  <2>1. Tail(load[l].added) \in Seq(Directories)
    <3>. DEFINE a == load[l].added
    <3>1. a \in Seq(Directories) /\ a # <<>>
      BY <1>1, RecordIs
    <3>. HIDE DEF a
    <3>2. Tail(a) \in Seq(Directories)
      BY <3>1
    <3>. QED  BY <3>2 DEF a
  <2>. QED  BY <1>1, <2>1, RecordIs DEF LoadRecords, Stages
<1>4. path' \in Seq(Directories)
  <2>. DEFINE d == Head(load[l].added)
              i == CHOOSE i \in DOMAIN path : path[i] = d
  <2>1. CASE d \in ToSet(path)
    <3>1. path' = RemoveAt(path, i)
      BY <2>1 DEF TakeBack
    <3>2. \E j \in DOMAIN path : path[j] = d
      BY <2>1 DEF ToSet
    <3>3. i \in DOMAIN path
      BY <3>2
    <3>. HIDE DEF i
    <3>. QED  BY <3>1, <3>3, TakenOut, RecordIs
  <2>2. CASE d \notin ToSet(path)
    BY <2>2, RecordIs DEF TakeBack
  <2>. QED  BY <2>1, <2>2
<1>. HIDE DEF r
<1>5. load'[l] = r
  BY <1>2, <1>3, MovesIs DEF ImportInv
<1>6. OnPath(l)' /\ OwnCode(l)'
  <2>1. OnPath(l)'
    BY <1>1, <1>3, <1>5, RecordIs DEF OnPath, Fixed
  <2>2. OwnCode(l)'
    BY <1>1, <1>3, <1>5, RecordIs DEF OwnCode, Fixed, Packaged
  <2>. QED  BY <2>1, <2>2
<1>. QED  BY <1>1, <1>2, <1>3, <1>4, <1>6, OthersStay, OwnStays DEF Ended

LEMMA RestoreKeeps ==
  ASSUME ImportInv, NEW l \in Loads, Restore(l)  PROVE ImportInv'
<1>. DEFINE r == [load[l] EXCEPT !.at = IF load[l].why = "none" THEN "discover" ELSE "failed"]
<1>1. Fixed /\ UNCHANGED <<modules, subs, redirect>> /\ load[l].at = "leave" /\ l \in Running /\ path' = load[l].saved
  BY RecordIs DEF Restore, Ended
<1>2. Moves(l, r)
  BY RecordIs DEF Restore, Moves
<1>3. /\ r \in LoadRecords /\ r.at = (IF load[l].why = "none" THEN "discover" ELSE "failed")
      /\ r.of = load[l].of /\ r.saved = load[l].saved /\ r.why = load[l].why
      /\ r.code = load[l].code /\ r.parts = load[l].parts
  BY RecordIs DEF LoadRecords, Stages
<1>. HIDE DEF r
<1>4. load'[l] = r
  BY <1>2, <1>3, MovesIs DEF ImportInv
<1>5. oneByOne => path' = <<Base>>
  BY <1>1, RecordIs DEF OnPath
<1>6. PathComesBack' /\ OnPath(l)'
  BY <1>1, <1>3, <1>4, <1>5, RecordIs DEF OnPath, PathComesBack, Fixed
<1>7. OwnCode(l)'
  BY <1>1, <1>3, <1>4, RecordIs, ZenonT(60) DEF OwnCode, Fixed, Packaged
<1>8. path' \in Seq(Directories)
  BY <1>1, RecordIs
<1>. QED  BY <1>1, <1>2, <1>3, <1>6, <1>7, <1>8, OthersStay, OwnStays

\* What code does to sys.path when it runs.
LEMMA Extended ==
  ASSUME path \in Seq(Directories), NEW extends \in BOOLEAN,
         path' = IF extends /\ Extra \notin ToSet(path) THEN <<Extra>> \o path ELSE path
  PROVE  path' \in Seq(Directories) /\ ToSet(path) \subseteq ToSet(path')
BY InFront DEF Directories

\* What a run of code comes to.
LEMMA RunsTo ==
  ASSUME ImportInv, NEW l \in Loads, NEW n \in Names, NEW code \in Plugins, NEW from \in Plugins \union {NoPlugin},
         NEW next \in {"main", "leave"}, Runs(l, n, code, from, next)
  PROVE  \E r \in LoadRecords :
           /\ Moves(l, r) /\ r.of = load[l].of /\ r.saved = load[l].saved /\ r.code = code
           /\ (r.at = next /\ r.why = "none") \/ (r.at = "leave" /\ r.why = "raised")
           /\ r.parts \in {load[l].parts, subs'[n]}
           /\ path' \in Seq(Directories) /\ ToSet(path) \subseteq ToSet(path')
           /\ subs' \in Owners /\ subs'[n] \in {subs[n], from} /\ \A m \in Names \ {n} : subs'[m] = subs[m]
<1>1. PICK extends \in BOOLEAN, imports \in BOOLEAN, star \in BOOLEAN, raises \in BOOLEAN :
        /\ path' = IF extends /\ Extra \notin ToSet(path) THEN <<Extra>> \o path ELSE path
        /\ subs' = IF imports /\ subs[n] = NoPlugin THEN [subs EXCEPT ![n] = from] ELSE subs
        /\ load' = [load EXCEPT ![l].at = IF raises THEN "leave" ELSE next,
                                ![l].why = IF raises THEN "raised" ELSE "none", ![l].code = code,
                                ![l].parts = IF imports THEN subs'[n] ELSE @,
                                ![l].star = star /\ next = "leave"]
  BY DEF Runs
<1>2. subs' \in Owners /\ subs'[n] \in {subs[n], from} /\ \A m \in Names \ {n} : subs'[m] = subs[m]
  BY <1>1, RecordIs DEF Owners
<1>3. path' \in Seq(Directories) /\ ToSet(path) \subseteq ToSet(path')
  BY <1>1, Extended, RecordIs
<1>. DEFINE parts == IF imports THEN subs'[n] ELSE load[l].parts
            at    == IF raises THEN "leave" ELSE next
            why   == IF raises THEN "raised" ELSE "none"
            own   == star /\ next = "leave"
            r     == [load[l] EXCEPT !.at = at, !.why = why, !.code = code, !.parts = parts, !.star = own]
<1>4. Moves(l, r)
  <2>1. load' = [load EXCEPT ![l].at = at, ![l].why = why, ![l].code = code, ![l].parts = parts, ![l].star = own]
    BY <1>1, Zenon
  <2>. HIDE DEF parts, at, why, own
  <2>2. l \in DOMAIN load
    BY RecordIs
  <2>. QED  BY <2>1, <2>2, Zenon DEF Moves
<1>5. /\ parts \in Plugins \union {NoPlugin} /\ parts \in {load[l].parts, subs'[n]}
      /\ at \in Stages /\ why \in {"raised", "none"} /\ own \in BOOLEAN
      /\ (at = next /\ why = "none") \/ (at = "leave" /\ why = "raised")
  BY <1>2, RecordIs DEF Owners, Stages
<1>. HIDE DEF parts, at, why, own
<1>6. /\ r \in LoadRecords /\ r.of = load[l].of /\ r.saved = load[l].saved /\ r.code = code
      /\ r.at = at /\ r.why = why /\ r.parts = parts
  BY <1>5, RecordIs DEF LoadRecords
<1>. HIDE DEF r
<1>. QED  BY <1>2, <1>3, <1>4, <1>5, <1>6

LEMMA EnterPackageKeeps ==
  ASSUME ImportInv, NEW l \in Loads, EnterPackage(l)  PROVE ImportInv'
<1>. DEFINE p == load[l].of
            n == ModuleOf[p]
<1>1. /\ Fixed /\ UNCHANGED redirect /\ load[l].at = "import" /\ l \in Running /\ Packaged(p)
      /\ modules' = [modules EXCEPT ![n] = p] /\ p \in Plugins /\ n \in Names /\ n = ByName(p)
  BY RecordIs DEF EnterPackage, Ended, Packaged, ByName
<1>2. PICK r \in LoadRecords :
        /\ Moves(l, r) /\ r.of = p /\ r.saved = load[l].saved
        /\ r.at = "main" \/ (r.at = "leave" /\ r.why = "raised")
        /\ r.parts \in {load[l].parts, subs'[n]}
        /\ path' \in Seq(Directories) /\ ToSet(path) \subseteq ToSet(path')
        /\ subs' \in Owners /\ subs'[n] \in {subs[n], p} /\ \A m \in Names \ {n} : subs'[m] = subs[m]
  <2>1. CASE layout[p] = "package"
    <3>1. Runs(l, n, p, p, "main")
      BY <2>1 DEF EnterPackage
    <3>. QED  BY <1>1, <3>1, RunsTo
  <2>2. CASE layout[p] # "package"
    <3>. DEFINE r == [load[l] EXCEPT !.at = "main"]
    <3>1. Moves(l, r) /\ UNCHANGED <<path, subs>>
      BY <2>2, RecordIs DEF EnterPackage, Moves
    <3>2. r \in LoadRecords /\ r.of = p /\ r.saved = load[l].saved /\ r.at = "main" /\ r.parts = load[l].parts
      BY RecordIs DEF LoadRecords, Stages
    <3>. QED  BY <3>1, <3>2, RecordIs
  <2>. QED  BY <2>1, <2>2
<1>3. load'[l] = r /\ Alone(l)' = Alone(l)
  BY <1>1, <1>2, MovesIs, AloneStays DEF ImportInv
<1>4. /\ modules' \in Owners /\ modules'[n] = p
      /\ \A m \in Names \ {n} : modules'[m] = modules[m]
  BY <1>1, RecordIs DEF Owners
<1>5. OnPath(l)' /\ OwnCode(l)'
  BY <1>1, <1>2, <1>3, RecordIs DEF OnPath, OwnCode, Fixed, Packaged
<1>6. OwnPackage(l)'
  <2>1. Alone(l) => subs'[n] \in {NoPlugin, p} /\ load[l].parts \in {NoPlugin, p}
    BY <1>1, <1>2, RecordIs DEF OwnPackage
  <2>2. ByName(load[l].of)' = n
    BY <1>1, <1>2, <1>3 DEF ByName, Fixed
  <2>. QED  BY <1>2, <1>3, <1>4, <2>1, <2>2 DEF OwnPackage
<1>. QED  BY <1>1, <1>2, <1>4, <1>5, <1>6, OthersStay DEF Ended

LEMMA RunMainKeeps ==
  ASSUME ImportInv, NEW l \in Loads, RunMain(l)  PROVE ImportInv'
<1>. DEFINE p == load[l].of
            n == ModuleOf[p]
<1>1. /\ Fixed /\ UNCHANGED <<modules, redirect>> /\ load[l].at = "main" /\ l \in Running /\ Packaged(p)
      /\ p \in Plugins /\ n \in Names /\ n = ByName(p) /\ modules[n] \in Plugins \union {NoPlugin}
      /\ Runs(l, n, p, modules[n], "leave")
  BY RecordIs DEF RunMain, Ended, Packaged, ByName, OwnCode, Owners
<1>2. PICK r \in LoadRecords :
        /\ Moves(l, r) /\ r.of = p /\ r.saved = load[l].saved /\ r.code = p
        /\ r.at = "leave" /\ r.why \in {"none", "raised"}
        /\ r.parts \in {load[l].parts, subs'[n]}
        /\ path' \in Seq(Directories) /\ ToSet(path) \subseteq ToSet(path')
        /\ subs' \in Owners /\ subs'[n] \in {subs[n], modules[n]} /\ \A m \in Names \ {n} : subs'[m] = subs[m]
  BY <1>1, RunsTo
<1>3. load'[l] = r /\ Alone(l)' = Alone(l)
  BY <1>1, <1>2, MovesIs, AloneStays DEF ImportInv
<1>4. modules' \in Owners /\ modules' = modules
  BY <1>1, RecordIs
<1>5. OnPath(l)' /\ OwnCode(l)'
  BY <1>1, <1>2, <1>3, RecordIs DEF OnPath, OwnCode, Fixed, Packaged
<1>6. OwnPackage(l)'
  <2>1. Alone(l) => modules[n] = p /\ subs'[n] \in {NoPlugin, p} /\ load[l].parts \in {NoPlugin, p}
    BY <1>1, <1>2, RecordIs DEF OwnPackage
  <2>2. ByName(load[l].of)' = n
    BY <1>1, <1>2, <1>3 DEF ByName, Fixed
  <2>. QED  BY <1>2, <1>3, <1>4, <2>1, <2>2 DEF OwnPackage
<1>. QED  BY <1>1, <1>2, <1>4, <1>5, <1>6, OthersStay DEF Ended

\* A plugin without a main.py leaves the directories behind it in one way or another.
LEMMA LeavesByName ==
  ASSUME ImportInv, NEW l \in Loads, load[l].at = "import", ~ Packaged(load[l].of), Fixed, UNCHANGED redirect,
         NEW r \in LoadRecords, Moves(l, r), r.at = "leave", r.of = load[l].of, r.saved = load[l].saved,
         path' \in Seq(Directories), modules' \in Owners, subs' \in Owners,
         \A n \in Names \ {ByName(load[l].of)} : modules'[n] = modules[n] /\ subs'[n] = subs[n]
  PROVE  ImportInv'
<1>1. load'[l] = r /\ l \in Running
  BY MovesIs, RecordIs DEF ImportInv, Ended
<1>2. OnPath(l)' /\ OwnPackage(l)' /\ OwnCode(l)'
  BY <1>1, RecordIs DEF OnPath, OwnPackage, OwnCode, Fixed, Packaged
<1>. QED  BY <1>1, <1>2, OthersStay DEF Ended

LEMMA FindCachedKeeps ==
  ASSUME ImportInv, NEW l \in Loads, FindCached(l)  PROVE ImportInv'
<1>. DEFINE n == ByName(load[l].of)
            r == [load[l] EXCEPT !.at = "leave", !.code = modules[n]]
<1>1. /\ load[l].at = "import" /\ ~ Packaged(load[l].of) /\ Fixed /\ UNCHANGED <<path, modules, subs, redirect>>
  BY DEF FindCached, LooksByName, Packaged, Entries
<1>2. Moves(l, r)
  BY RecordIs DEF FindCached, Moves
<1>3. r \in LoadRecords /\ r.at = "leave" /\ r.of = load[l].of /\ r.saved = load[l].saved
  BY RecordIs DEF LoadRecords, Stages, Owners
<1>. HIDE DEF r
<1>. QED  BY <1>1, <1>2, <1>3, LeavesByName, RecordIs

LEMMA ImportByNameKeeps ==
  ASSUME ImportInv, NEW l \in Loads, ImportByName(l)  PROVE ImportInv'
<1>. DEFINE n == ByName(load[l].of)
<1>1. /\ load[l].at = "import" /\ ~ Packaged(load[l].of) /\ Fixed /\ UNCHANGED redirect
      /\ modules' = IF load'[l].why = "raised" THEN modules ELSE [modules EXCEPT ![n] = load'[l].code]
  BY DEF ImportByName, LooksByName, Packaged, Entries
<1>2. PICK p \in Finds(n) : Runs(l, n, p, p, "leave")
  BY DEF ImportByName
<1>3. p \in Plugins
  BY DEF Finds, Offers
<1>4. PICK r \in LoadRecords :
        /\ Moves(l, r) /\ r.of = load[l].of /\ r.saved = load[l].saved /\ r.code = p /\ r.at = "leave"
        /\ path' \in Seq(Directories)
        /\ subs' \in Owners /\ \A m \in Names \ {n} : subs'[m] = subs[m]
  <2>. HIDE DEF n
  <2>1. n \in Names
    BY RecordIs DEF n
  <2>. QED  BY <1>2, <1>3, <2>1, RunsTo
<1>5. load'[l] = r
  BY <1>4, MovesIs DEF ImportInv
<1>6. modules' \in Owners /\ \A m \in Names \ {n} : modules'[m] = modules[m]
  <2>. HIDE DEF n
  <2>1. n \in Names /\ modules \in Owners /\ load'[l].code \in Plugins
    BY <1>3, <1>4, <1>5, RecordIs DEF n
  <2>. QED  BY <1>1, <2>1 DEF Owners
<1>. QED  BY <1>1, <1>4, <1>6, LeavesByName

LEMMA ImportBareKeeps ==
  ASSUME ImportInv, NEW l \in Loads, ImportBare(l)  PROVE ImportInv'
<1>. DEFINE n == ByName(load[l].of)
<1>1. load[l].at = "import" /\ ~ Packaged(load[l].of) /\ Fixed /\ UNCHANGED <<path, subs, redirect>>
  BY DEF ImportBare, LooksByName, Packaged, Entries
<1>2. PICK p \in FindsBare(n) :
        modules' = [modules EXCEPT ![n] = p] /\ load' = [load EXCEPT ![l].at = "leave", ![l].code = p]
  BY DEF ImportBare
<1>3. p \in Plugins
  BY DEF FindsBare
<1>. DEFINE r == [load[l] EXCEPT !.at = "leave", !.code = p]
<1>4. Moves(l, r)
  BY <1>2, RecordIs DEF Moves
<1>5. r \in LoadRecords /\ r.at = "leave" /\ r.of = load[l].of /\ r.saved = load[l].saved
  BY <1>3, RecordIs DEF LoadRecords, Stages
<1>. HIDE DEF r
<1>6. modules' \in Owners /\ \A m \in Names \ {n} : modules'[m] = modules[m]
  BY <1>2, <1>3, RecordIs DEF Owners
<1>. QED  BY <1>1, <1>4, <1>5, <1>6, LeavesByName, RecordIs

LEMMA NotFoundKeeps ==
  ASSUME ImportInv, NEW l \in Loads, NotFound(l)  PROVE ImportInv'
<1>. DEFINE r == [load[l] EXCEPT !.at = "leave",
                                 !.why = IF layout[load[l].of] = "nothing" THEN "nothing" ELSE "not found"]
<1>1. /\ load[l].at = "import" /\ ~ Packaged(load[l].of) /\ Fixed /\ UNCHANGED <<path, modules, subs, redirect>>
  BY DEF NotFound, LooksByName, Packaged, Entries
<1>2. Moves(l, r)
  BY RecordIs DEF NotFound, Moves
<1>3. r \in LoadRecords /\ r.at = "leave" /\ r.of = load[l].of /\ r.saved = load[l].saved
  BY RecordIs DEF LoadRecords, Stages
<1>. HIDE DEF r
<1>. QED  BY <1>1, <1>2, <1>3, LeavesByName, RecordIs

\* The end of a load, which leaves sys.path as Restore has left it.
LEMMA EndKeeps ==
  ASSUME ImportInv, NEW l \in Loads, load[l].at = "discover", Fixed, UNCHANGED <<path, modules, subs, redirect>>,
         NEW r \in LoadRecords, Moves(l, r), r.of = load[l].of, r.code = load[l].code, r.parts = load[l].parts,
         (r.at = "done" /\ r.why = load[l].why) \/ (r.at = "failed" /\ r.why = "no star")
  PROVE  ImportInv'
<1>1. load'[l] = r /\ l \in Running /\ l \notin Running'
  BY MovesIs, RecordIs DEF ImportInv, Ended
<1>2. oneByOne => path = <<Base>>
  BY <1>1, RecordIs DEF OnPath
<1>3. OnPath(l)' /\ PathComesBack'
  BY <1>1, <1>2 DEF OnPath, PathComesBack, Fixed
<1>4. OwnCode(l)'
  BY <1>1, RecordIs DEF OwnCode, Fixed, Packaged
<1>. QED  BY <1>1, <1>3, <1>4, OthersStay, OwnStays, RecordIs

LEMMA DiscoverKeeps ==
  ASSUME ImportInv, NEW l \in Loads, Discover(l)  PROVE ImportInv'
<1>1. load[l].at = "discover" /\ Fixed /\ UNCHANGED <<path, modules, subs, redirect>>
  BY DEF Discover
<1>. DEFINE r == [load[l] EXCEPT !.at = "done"]
<1>2. Moves(l, r)
  BY RecordIs DEF Discover, Moves
<1>3. /\ r \in LoadRecords /\ r.at = "done" /\ r.of = load[l].of /\ r.code = load[l].code /\ r.parts = load[l].parts
      /\ r.why = load[l].why
  BY RecordIs DEF LoadRecords, Stages
<1>. HIDE DEF r
<1>. QED  BY <1>1, <1>2, <1>3, EndKeeps

LEMMA NoStarKeeps ==
  ASSUME ImportInv, NEW l \in Loads, NoStar(l)  PROVE ImportInv'
<1>. DEFINE r == [load[l] EXCEPT !.at = "failed", !.why = "no star"]
<1>1. load[l].at = "discover" /\ Fixed /\ UNCHANGED <<path, modules, subs, redirect>>
  BY DEF NoStar
<1>2. Moves(l, r)
  BY RecordIs DEF NoStar, Moves
<1>3. /\ r \in LoadRecords /\ r.at = "failed" /\ r.of = load[l].of /\ r.code = load[l].code /\ r.parts = load[l].parts
      /\ r.why = "no star"
  BY RecordIs DEF LoadRecords, Stages
<1>. HIDE DEF r
<1>. QED  BY <1>1, <1>2, <1>3, EndKeeps

LEMMA ImportBegins == ImportInit => ImportInv
<1>. SUFFICES ASSUME ImportInit  PROVE ImportInv
  OBVIOUS
<1>1. PICK of \in [Loads -> Plugins] :
        load = [l \in Loads |-> [at |-> "start", of |-> of[l], saved |-> <<>>, added |-> <<>>,
                                 code |-> NoPlugin, parts |-> NoPlugin, star |-> FALSE, why |-> "none"]]
  BY DEF ImportInit
<1>2. Running = {} /\ \A l \in Loads : load[l].at = "start"
  BY <1>1 DEF Running
<1>3. load \in [Loads -> LoadRecords]
  BY <1>1 DEF LoadRecords, Stages
<1>4. path \in Seq(Directories)
  BY DEF ImportInit, Directories
<1>5. ImportTypes
  BY <1>3, <1>4 DEF ImportTypes, ImportInit, Owners
<1>6. LoadsApart /\ PathComesBack
  BY <1>2 DEF LoadsApart, PathComesBack, ImportInit
<1>7. \A l \in Loads : OnPath(l) /\ OwnPackage(l) /\ OwnCode(l)
  <2>1. \A l \in Loads : ByName(load[l].of) \in Names
    BY <1>1 DEF ByName, Names
  <2>2. \A l \in Loads : OwnPackage(l)
    BY <1>1, <2>1 DEF OwnPackage, ImportInit
  <2>. QED  BY <1>2, <2>2 DEF OnPath, OwnCode
<1>. QED  BY <1>5, <1>6, <1>7 DEF ImportInv

LEMMA ImportStep == ImportInv /\ [ImportNext]_importVars => ImportInv'
<1>. SUFFICES ASSUME ImportInv, [ImportNext]_importVars  PROVE ImportInv'
  OBVIOUS
<1>1. CASE UNCHANGED importVars
  <2>1. UNCHANGED <<oneByOne, layout, hard, path, modules, subs, redirect, load>>
    BY <1>1 DEF importVars
  <2>2. ImportTypes' /\ LoadsApart' /\ PathComesBack'
    BY <2>1 DEF ImportInv, ImportTypes, LoadsApart, PathComesBack, Running
  <2>3. ASSUME NEW l \in Loads  PROVE OnPath(l)' /\ OwnPackage(l)' /\ OwnCode(l)'
    <3>1. OnPath(l) /\ OwnPackage(l) /\ OwnCode(l)
      BY DEF ImportInv
    <3>2. OnPath(l)'
      BY <2>1, <3>1 DEF OnPath, Running
    <3>3. OwnPackage(l)'
      BY <2>1, <3>1 DEF OwnPackage, Packaged, Alone, ByName
    <3>4. OwnCode(l)'
      BY <2>1, <3>1 DEF OwnCode, Packaged
    <3>. QED  BY <3>2, <3>3, <3>4
  <2>. QED  BY <2>2, <2>3 DEF ImportInv
<1>2. CASE ImportNext
  <2>1. PICK l \in Loads :
          \/ NotThere(l) \/ BeginLoad(l) \/ SavePath(l) \/ PutOwn(l) \/ PutParent(l)
          \/ EnterPackage(l) \/ RunMain(l) \/ FindCached(l) \/ ImportByName(l) \/ ImportBare(l)
          \/ NotFound(l) \/ TakeBack(l) \/ Restore(l) \/ Discover(l) \/ NoStar(l)
    BY <1>2 DEF ImportNext
  <2>2. CASE PutOwn(l) \/ PutParent(l)
    BY <2>2, PutKeeps, RecordIs DEF PutOwn, PutParent, Directories
  <2>3. CASE ~ (PutOwn(l) \/ PutParent(l))
    BY <2>1, <2>3, NotThereKeeps, BeginLoadKeeps, SavePathKeeps, EnterPackageKeeps, RunMainKeeps, FindCachedKeeps,
       ImportByNameKeeps, ImportBareKeeps, NotFoundKeeps, TakeBackKeeps, RestoreKeeps, DiscoverKeeps, NoStarKeeps
  <2>. QED  BY <2>2, <2>3
<1>. QED  BY <1>1, <1>2

\* pip runs once for what is missing and never twice at a time, in any number of threads and
\* processes, imports that wait for it get what it installs, its locks are given back, and
\* nobody waits for itself where what modules import on trial is there; and a plugin with a
\* main.py runs its own, and what it imports from its package is its own too if no other
\* plugin is imported under the same name, in any order of any number of loads
\* (deps_resolver.py, loader.py).
THEOREM InstallsSafe == DepsSpec /\ ImportSpec => []InstallsAreRight
<1>1. ImportInv => PathComesBack /\ ImportsInItsOwn /\ RunsItsOwn /\ PackagesLoad
  <2>. SUFFICES ASSUME ImportInv  PROVE PathComesBack /\ ImportsInItsOwn /\ RunsItsOwn /\ PackagesLoad
    OBVIOUS
  <2>1. ImportsInItsOwn
    BY DEF ImportInv, ImportsInItsOwn, OnPath, Running
  <2>2. RunsItsOwn
    BY DEF ImportInv, RunsItsOwn, OwnCode, OwnPackage
  <2>. QED  BY <2>1, <2>2 DEF ImportInv, PackagesLoad, OwnCode
<1>2. DepsInv /\ ImportInv => InstallsAreRight
  BY <1>1, DepsAreSafe DEF InstallsAreRight
<1>3. DepsSpec => []DepsInv
  BY DepsBegin, DepsStep, PTL DEF DepsSpec
<1>4. ImportSpec => []ImportInv
  BY ImportBegins, ImportStep, PTL DEF ImportSpec
<1>. QED  BY <1>2, <1>3, <1>4, PTL
=============================================================================
