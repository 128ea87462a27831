------------------------------- MODULE LazyDeps -------------------------------
(* Imports that install what they miss (_bridge/deps_resolver.py).  The      *)
(* finder at the end of sys.meta_path is asked for a module that no other    *)
(* finder has found; if the module is mapped to a package it runs pip, one   *)
(* thread of a process and one process of the virtual environment at a time. *)
EXTENDS Naturals, Sequences, FiniteSets, SequencesExt

CONSTANTS
  Importers,     \* threads that import
  ProcessOf,     \* the process of a thread; all share one virtual environment
  Modules,       \* module names
  PackageOf,     \* IMPORT_MAP, a package or "unmapped" for each module
  Optional,      \* what the body of a module imports in a try/except ImportError
  Present,       \* the modules whose files are on the disk from the start
  Phantom        \* mapped modules that their package does not have

DepProcesses == {ProcessOf[t] : t \in Importers}

NoThread == "nobody"

\* No two names of IMPORT_MAP have one package.  A dotted name below one of them falls back
\* to its package, but the interpreter imports the mapped one first and holds its lock
\* meanwhile: Modules has the names that are imported first.
ASSUME DepsAssumption ==
  /\ Present \subseteq Modules /\ Optional \in [Modules -> Seq(Modules)]
  /\ \A m, n \in Modules : PackageOf[m] = PackageOf[n] /\ PackageOf[m] # "unmapped" => m = n
  /\ NoThread \notin Importers

Pending == [how |-> "pending", mod |-> ""]

VARIABLES
  venv,        \* the modules that the path finder finds
  fileLock,    \* the thread that has the lock file
  py,          \* per process: what it has loaded, _attempted, _resolving, _resolver_lock
  stack,       \* per thread: its imports in progress, the innermost last
  result,      \* per thread: how its last import ended, and of what
  ran,         \* per process and package: how often pip was started
  notInstalled \* per process: the packages whose installation failed

depsVars == <<venv, fileLock, py, stack, result, ran, notInstalled>>

Packages == {PackageOf[n] : n \in Modules} \ {"unmapped"}
Frame(n, at) == [mod |-> n, at |-> at, todo |-> <<>>]
Top(t) == Last(stack[t])
FrameAt(t, place) == stack[t] # <<>> /\ Top(t).at = place
Mine(t) == py[ProcessOf[t]]

DepsInit ==
  /\ venv = Present /\ fileLock = NoThread
  /\ py = [p \in DepProcesses |-> [loaded |-> {}, attempted |-> {}, resolving |-> {}, lock |-> NoThread]]
  /\ stack = [t \in Importers |-> <<>>] /\ result = [t \in Importers |-> Pending]
  /\ ran = [p \in DepProcesses |-> [k \in Packages |-> 0]]
  /\ notInstalled = [p \in DepProcesses |-> {}]

TopBecomes(t, frame) == stack' = [stack EXCEPT ![t][Len(stack[t])] = frame]
Goes(t, place) == TopBecomes(t, [Top(t) EXCEPT !.at = place])
Pushes(t, n, place) ==
  stack' = [stack EXCEPT ![t] = Append([stack[t] EXCEPT ![Len(stack[t])].at = place], Frame(n, "enter"))]
Pops(t, how) ==
  /\ stack' = [stack EXCEPT ![t] = Front(stack[t])]
  /\ result' = [result EXCEPT ![t] = [how |-> how, mod |-> Top(t).mod]]
Sets(t, new) == py' = [py EXCEPT ![ProcessOf[t]] = new]

\* A thread that has nothing to do imports a module.
StartImport(t, n) ==
  /\ stack[t] = <<>> /\ result[t] = Pending
  /\ stack' = [stack EXCEPT ![t] = <<Frame(n, "enter")>>]
  /\ UNCHANGED <<venv, fileLock, py, result, ran, notInstalled>>

-----------------------------------------------------------------------------
\* The interpreter.  A module has a lock of its own, which the thread may enter again.
ModuleFree(t, n) ==
  \A u \in Importers \ {t} : ProcessOf[u] = ProcessOf[t] =>
    \A i \in DOMAIN stack[u] : stack[u][i].mod = n => stack[u][i].at = "enter"

\* What is in sys.modules is not looked for; the path finder comes first.
Enter(t) ==
  /\ FrameAt(t, "enter") /\ ModuleFree(t, Top(t).mod)
  /\ IF Top(t).mod \in Mine(t).loaded
       THEN Pops(t, "there") /\ UNCHANGED py
       ELSE IF Top(t).mod \in venv
         THEN Goes(t, "load") /\ UNCHANGED <<py, result>>
         ELSE Goes(t, "find") /\ UNCHANGED <<py, result>>
  /\ UNCHANGED <<venv, fileLock, ran, notInstalled>>

\* The body runs; the module is in sys.modules before it does.
Load(t) ==
  /\ FrameAt(t, "load")
  /\ Sets(t, [Mine(t) EXCEPT !.loaded = @ \cup {Top(t).mod}])
  /\ TopBecomes(t, [Top(t) EXCEPT !.at = "body", !.todo = Optional[Top(t).mod]])
  /\ UNCHANGED <<venv, fileLock, result, ran, notInstalled>>

\* An ImportError of what it imports is caught, nothing else is.
ImportRaised(t) == result[t].how = "raised"

Body(t) ==
  /\ FrameAt(t, "body") /\ Top(t).todo # <<>> /\ ~ImportRaised(t)
  /\ stack' = [stack EXCEPT ![t] =
       Append(Append(Front(@), [Top(t) EXCEPT !.todo = Tail(@)]), Frame(Head(Top(t).todo), "enter"))]
  /\ UNCHANGED <<venv, fileLock, py, result, ran, notInstalled>>

BodyDone(t) ==
  /\ FrameAt(t, "body") /\ Top(t).todo = <<>> /\ ~ImportRaised(t)
  /\ Pops(t, "there")
  /\ UNCHANGED <<venv, fileLock, py, ran, notInstalled>>

\* A module whose body raises is taken out of sys.modules.
BodyRaises(t) ==
  /\ FrameAt(t, "body") /\ ImportRaised(t)
  /\ Sets(t, [Mine(t) EXCEPT !.loaded = @ \ {Top(t).mod}])
  /\ Pops(t, "raised")
  /\ UNCHANGED <<venv, fileLock, ran, notInstalled>>

-----------------------------------------------------------------------------
\* LazyDepFinder.find_spec.  Who resolves a name is not asked for it again.
Reentered(t) == Top(t).mod \in Mine(t).resolving

FindReentered(t) ==
  /\ FrameAt(t, "find") /\ Reentered(t)
  /\ Pops(t, "missing")
  /\ UNCHANGED <<venv, fileLock, py, ran, notInstalled>>

\* _resolver_lock is a plain Lock: the thread that has it waits for itself.
FindSpec(t) ==
  /\ FrameAt(t, "find") /\ ~Reentered(t) /\ Mine(t).lock = NoThread
  /\ Sets(t, [Mine(t) EXCEPT !.lock = t, !.resolving = @ \cup {Top(t).mod}])
  /\ Goes(t, "resolve")
  /\ UNCHANGED <<venv, fileLock, result, ran, notInstalled>>

\* mutant: what was looked for stays in _resolving when the lock is given back.
ReleasedResolving(t) == [Mine(t) EXCEPT !.lock = NoThread]

Released(t) == [Mine(t) EXCEPT !.lock = NoThread, !.resolving = @ \ {Top(t).mod}]

\* Not mapped, or its package was tried before: the import fails.
Worthless(t) ==
  LET pkg == PackageOf[Top(t).mod] IN pkg = "unmapped" \/ pkg \in Mine(t).attempted

ResolveNothing(t) ==
  /\ FrameAt(t, "resolve") /\ Worthless(t)
  /\ Sets(t, Released(t)) /\ Pops(t, "missing")
  /\ UNCHANGED <<venv, fileLock, ran, notInstalled>>

Resolve(t) ==
  /\ FrameAt(t, "resolve") /\ ~Worthless(t)
  /\ Sets(t, [Mine(t) EXCEPT !.attempted = @ \cup {PackageOf[Top(t).mod]}])
  /\ Goes(t, "file")
  /\ UNCHANGED <<venv, fileLock, result, ran, notInstalled>>

\* _file_lock, and the second look behind it: another process may have installed it.
LockFile(t) ==
  /\ FrameAt(t, "file") /\ fileLock = NoThread
  /\ fileLock' = t
  /\ Pushes(t, Top(t).mod, "look")
  /\ UNCHANGED <<venv, py, result, ran, notInstalled>>

\* The file cannot be opened, another user's or too many are open: that is raised, and the
\* package counts as tried.
LockFails(t) ==
  /\ FrameAt(t, "file")
  /\ notInstalled' = [notInstalled EXCEPT ![ProcessOf[t]] = @ \cup {PackageOf[Top(t).mod]}]
  /\ Sets(t, Released(t)) /\ Pops(t, "raised")
  /\ UNCHANGED <<venv, fileLock, ran>>

AlreadyThere(t) ==
  /\ FrameAt(t, "look") /\ result[t].how = "there"
  /\ fileLock' = NoThread
  /\ Goes(t, "again") /\ result' = [result EXCEPT ![t] = Pending]
  /\ UNCHANGED <<venv, py, ran, notInstalled>>

RunPip(t) ==
  /\ FrameAt(t, "look") /\ result[t].how = "missing"
  /\ Goes(t, "pip") /\ result' = [result EXCEPT ![t] = Pending]
  /\ ran' = [ran EXCEPT ![ProcessOf[t]][PackageOf[Top(t).mod]] = @ + 1]
  /\ UNCHANGED <<venv, fileLock, py, notInstalled>>

FilesOf(pkg) == {n \in Modules \ Phantom : PackageOf[n] = pkg}

PipInstalls(t) ==
  /\ FrameAt(t, "pip")
  /\ venv' = venv \cup FilesOf(PackageOf[Top(t).mod])
  /\ fileLock' = NoThread
  /\ Goes(t, "again")
  /\ UNCHANGED <<py, result, ran, notInstalled>>

\* A time out, an exit code, no pip at all.
PipFails(t) ==
  /\ FrameAt(t, "pip")
  /\ fileLock' = NoThread
  /\ notInstalled' = [notInstalled EXCEPT ![ProcessOf[t]] = @ \cup {PackageOf[Top(t).mod]}]
  /\ Sets(t, Released(t)) /\ Pops(t, "missing")
  /\ UNCHANGED <<venv, ran>>

\* find_spec once more: of a module that the second look has loaded it is the
\* module's own spec, and the interpreter runs the body from it a second time.
FindAgain(t) ==
  /\ FrameAt(t, "again")
  /\ Sets(t, Released(t))
  /\ IF Top(t).mod \in venv THEN Goes(t, "load") /\ UNCHANGED result ELSE Pops(t, "missing")
  /\ UNCHANGED <<venv, fileLock, ran, notInstalled>>

DepsNext ==
  \E t \in Importers :
    \/ \E n \in Modules : StartImport(t, n)
    \/ Enter(t) \/ Load(t) \/ Body(t) \/ BodyDone(t) \/ BodyRaises(t)
    \/ FindReentered(t) \/ FindSpec(t) \/ ResolveNothing(t) \/ Resolve(t)
    \/ LockFile(t) \/ LockFails(t) \/ AlreadyThere(t) \/ RunPip(t) \/ PipInstalls(t) \/ PipFails(t) \/ FindAgain(t)

DepsSpec == DepsInit /\ [][DepsNext]_depsVars

-----------------------------------------------------------------------------
\* "避免并发写坏 site-packages": pip never runs twice at the same time, whatever the
\* threads and the processes of the virtual environment do.
OnePip == Cardinality({t \in Importers : FrameAt(t, "pip")}) <= 1

\* "每个映射包只尝试安装一次（含失败）": however many imports miss it.
TriedOnce == \A p \in DepProcesses : \A k \in Packages : ran[p][k] <= 1

\* A module is missing for no other reason than that the one try of this process to install
\* its package failed (pip did, or the lock file, after which pip never runs) or that the
\* package does not have it: who waited while another thread installed it gets it.
FailsForAReason ==
  \A t \in Importers : (result[t].how = "missing" /\ stack[t] = <<>>) =>
    LET n == result[t].mod IN
      PackageOf[n] = "unmapped" \/ n \in Phantom \/ PackageOf[n] \in notInstalled[ProcessOf[t]]

\* No thread waits for the lock that it has itself, if the optional imports of modules are
\* of modules that are there (otherwise it may: README).
OptionalsThere == \A n \in Modules : \A i \in DOMAIN Optional[n] : Optional[n][i] \in Present
WaitsForOthers ==
  \A t \in Importers :
    /\ FrameAt(t, "find") /\ ~Reentered(t) => Mine(t).lock # t
    /\ FrameAt(t, "file") => fileLock # t

\* The locks are given back.
LocksGivenBack ==
  (\A t \in Importers : stack[t] = <<>>) =>
    fileLock = NoThread /\ \A p \in DepProcesses : py[p].lock = NoThread /\ py[p].resolving = {}

-----------------------------------------------------------------------------
\* What the repository says and the code does not do

\* The docstring of ensure_import_module, "任何失败返回 False", and that of LazyDepFinder:
\* whatever fails, the import raises ModuleNotFoundError.  What opening the lock file raises
\* is passed on, through the body of a module that caught ImportError.
FailuresAreMissing == \A t \in Importers : ~ImportRaised(t)

\* A module's body runs once.
LoadedOnce == [][\A t \in Importers : FrameAt(t, "load") => Top(t).mod \notin Mine(t).loaded]_depsVars
===============================================================================
