---------------------------- MODULE PluginImport ----------------------------
(***************************************************************************)
(* Phase A of the loader (_bridge/loader.py, load_plugin_import) and the   *)
(* paths it redirects (_bridge/path_compat.py), in a shared runtime: the   *)
(* main thread loads the first plugins while RPC threads load others, and  *)
(* sys.path, sys.modules and the redirection are the interpreter's.        *)
(* Stars are registered in the session of the load.                        *)
(***************************************************************************)
EXTENDS Naturals, Sequences, FiniteSets, SequencesExt

CONSTANTS
  Loads,        \* calls of load_plugin_import
  Plugins,      \* names of plugin directories, all in one parent directory
  ModuleOf      \* [Plugins -> names], sanitize_module_name of a directory's name

NoPlugin == "nobody"
ASSUME ImportAssumption == NoPlugin \notin Plugins
Base   == "base"         \* what sys.path has before
Parent == "parent"       \* the directory of the plugins
Extra  == "extra"        \* what a plugin's code puts there itself

(* package: __init__.py and main.py; namespace: main.py alone; folder:      *)
(* __init__.py alone.  Without these the first that is there of main,       *)
(* plugin and the directory's own name, as a file or a directory (there is  *)
(* no file main.py): that is the entry.  nothing: none of them.             *)
Entries == {"main", "plugin", "own name"}
Layouts == {"package", "namespace", "folder", "nothing", "missing"} \union Entries

VARIABLES
  oneByOne,     \* the host has one plugin loaded at a time
  layout,       \* by plugin
  hard,         \* plugins whose code names their directory without the suffix
  path,         \* sys.path
  modules,      \* sys.modules: by name, of which plugin the code is
  subs,         \* sys.modules: by name, of which plugin the submodules <name>.x are
  redirect,     \* the plugin whose old name path_compat redirects
  load          \* by call

importVars == <<oneByOne, layout, hard, path, modules, subs, redirect, load>>
Fixed == UNCHANGED <<oneByOne, layout, hard>>

Names == {ModuleOf[p] : p \in Plugins} \union {"main", "plugin"}

ImportInit ==
  /\ oneByOne \in BOOLEAN
  /\ layout \in [Plugins -> Layouts] /\ hard \in SUBSET Plugins
  /\ path = <<Base>> /\ redirect = NoPlugin
  /\ modules = [n \in Names |-> NoPlugin] /\ subs = [n \in Names |-> NoPlugin]
  /\ \E of \in [Loads -> Plugins] :
       load = [l \in Loads |-> [at |-> "start", of |-> of[l], saved |-> <<>>, added |-> <<>>,
                                code |-> NoPlugin, parts |-> NoPlugin, star |-> FALSE, why |-> "none"]]

Running == {l \in Loads : load[l].at \notin {"start", "done", "failed"}}
Packaged(p) == layout[p] \in {"package", "namespace"}
ByName(p) == IF layout[p] \in {"main", "plugin"} THEN layout[p] ELSE ModuleOf[p]

\* A plugin is in the runtime once.
MayBegin(l) ==
  /\ load[l].at = "start"
  /\ oneByOne => Running = {}
  /\ \A k \in Running : load[k].of # load[l].of

NotThere(l) ==
  /\ MayBegin(l) /\ layout[load[l].of] = "missing"
  /\ load' = [load EXCEPT ![l].at = "failed", ![l].why = "missing"]
  /\ Fixed /\ UNCHANGED <<path, modules, subs, redirect>>

\* install() has one rule, for the last plugin that needs one.
BeginLoad(l) ==
  /\ MayBegin(l) /\ layout[load[l].of] # "missing"
  /\ redirect' = IF load[l].of \in hard THEN load[l].of ELSE redirect
  /\ load' = [load EXCEPT ![l].at = "save"]
  /\ Fixed /\ UNCHANGED <<path, modules, subs>>

-----------------------------------------------------------------------------
\* scoped_sys_path, one look at sys.path or one change of it at a time.
SavePath(l) ==
  /\ load[l].at = "save"
  /\ load' = [load EXCEPT ![l].at = "own directory", ![l].saved = path]
  /\ Fixed /\ UNCHANGED <<path, modules, subs, redirect>>

Put(l, directory, next) ==
  /\ IF directory \in ToSet(path)
     THEN /\ load' = [load EXCEPT ![l].at = next] /\ UNCHANGED path
     ELSE /\ load' = [load EXCEPT ![l].at = next, ![l].added = Append(@, directory)]
          /\ path' = <<directory>> \o path
  /\ Fixed /\ UNCHANGED <<modules, subs, redirect>>

PutOwn(l)    == load[l].at = "own directory" /\ Put(l, load[l].of, "parent directory")
PutParent(l) == load[l].at = "parent directory" /\ Put(l, Parent, "import")

\* Only what was added is taken away again; whoever has removed it already does not matter.
TakeBack(l) ==
  /\ load[l].at = "leave" /\ load[l].added # <<>>
  /\ path' = IF Head(load[l].added) \in ToSet(path)
             THEN LET i == CHOOSE i \in DOMAIN path : path[i] = Head(load[l].added)
                  IN  RemoveAt(path, i)
             ELSE path
  /\ load' = [load EXCEPT ![l].added = Tail(@)]
  /\ Fixed /\ UNCHANGED <<modules, subs, redirect>>

\* If the list is not what it was, it is made what it was.
Restore(l) ==
  /\ load[l].at = "leave" /\ load[l].added = <<>>
  /\ path' = load[l].saved
  /\ load' = [load EXCEPT ![l].at = IF load[l].why = "none" THEN "discover" ELSE "failed"]
  /\ Fixed /\ UNCHANGED <<modules, subs, redirect>>

-----------------------------------------------------------------------------
\* Code of the module n runs: it may put a directory of its own into sys.path, import from
\* its package, register a Star, and raise.  A submodule that is in sys.modules under its
\* full name is taken from there, another is found in the package's directory, from's.
Runs(l, n, code, from, next) ==
  \E extends, imports, star, raises \in BOOLEAN :
    /\ path' = IF extends /\ Extra \notin ToSet(path) THEN <<Extra>> \o path ELSE path
    /\ subs' = IF imports /\ subs[n] = NoPlugin THEN [subs EXCEPT ![n] = from] ELSE subs
    /\ load' = [load EXCEPT ![l].at = IF raises THEN "leave" ELSE next,
                            ![l].why = IF raises THEN "raised" ELSE "none", ![l].code = code,
                            ![l].parts = IF imports THEN subs'[n] ELSE @,
                            ![l].star = star /\ next = "leave"]

\* _load_package_plugin: the package is entered in sys.modules and then run, and so is
\* its main.  A package without __init__.py is only entered.  A Star of the package itself
\* is no Star of its main.
EnterPackage(l) ==
  LET p == load[l].of
  IN  /\ load[l].at = "import" /\ Packaged(p)
      /\ modules' = [modules EXCEPT ![ModuleOf[p]] = p]
      /\ IF layout[p] = "package" THEN Runs(l, ModuleOf[p], p, p, "main")
         ELSE load' = [load EXCEPT ![l].at = "main"] /\ UNCHANGED <<path, subs>>
      /\ Fixed /\ UNCHANGED redirect

\* main.py is found by its path; what it imports from its package by the package's name.
RunMain(l) ==
  LET p == load[l].of
  IN  /\ load[l].at = "main"
      /\ Runs(l, ModuleOf[p], p, modules[ModuleOf[p]], "leave")
      /\ Fixed /\ UNCHANGED <<modules, redirect>>

\* Whose module or package a directory of sys.path has under a name: the parent has those
\* of the plugins with an __init__.py, a plugin's own has its entry.
Offers(directory, n) ==
  IF directory = Parent THEN {p \in Plugins : p = n /\ layout[p] \in {"package", "folder"}}
  ELSE {p \in Plugins : p = directory /\ layout[p] \in Entries /\ n = IF layout[p] = "own name" THEN p ELSE layout[p]}

Finds(n) ==
  LET at == {i \in DOMAIN path : Offers(path[i], n) # {}}
  IN  UNION {Offers(path[i], n) : i \in {j \in at : \A k \in at : j <= k}}

\* A directory without __init__.py is a package too, without code, if nothing else is found.
FindsBare(n) == {p \in Plugins : p = n /\ layout[p] # "missing" /\ Parent \in ToSet(path) /\ Finds(n) = {}}

LooksByName(l) == load[l].at = "import" /\ layout[load[l].of] \in {"folder"} \union Entries

\* importlib.import_module: a module that is there is not run again.
FindCached(l) ==
  LET n == ByName(load[l].of)
  IN  /\ LooksByName(l) /\ modules[n] # NoPlugin
      /\ load' = [load EXCEPT ![l].at = "leave", ![l].code = modules[n]]
      /\ Fixed /\ UNCHANGED <<path, modules, subs, redirect>>

\* If it raises it is taken out of sys.modules again, its submodules are not.
ImportByName(l) ==
  LET n == ByName(load[l].of)
  IN  /\ LooksByName(l) /\ modules[n] = NoPlugin
      /\ \E p \in Finds(n) : Runs(l, n, p, p, "leave")
      /\ modules' = IF load'[l].why = "raised" THEN modules
                    ELSE [modules EXCEPT ![n] = load'[l].code]
      /\ Fixed /\ UNCHANGED redirect

ImportBare(l) ==
  LET n == ByName(load[l].of)
  IN  /\ LooksByName(l) /\ modules[n] = NoPlugin
      /\ \E p \in FindsBare(n) :
           /\ modules' = [modules EXCEPT ![n] = p]
           /\ load' = [load EXCEPT ![l].at = "leave", ![l].code = p]
      /\ Fixed /\ UNCHANGED <<path, subs, redirect>>

\* Nothing of the name (an entry with a name that is no module's is looked for under another
\* one), or none of the entries at all.
NotFound(l) ==
  /\ \/ /\ LooksByName(l) /\ modules[ByName(load[l].of)] = NoPlugin
        /\ Finds(ByName(load[l].of)) = {} /\ FindsBare(ByName(load[l].of)) = {}
     \/ load[l].at = "import" /\ layout[load[l].of] = "nothing"
  /\ load' = [load EXCEPT ![l].at = "leave",
                          ![l].why = IF layout[load[l].of] = "nothing" THEN "nothing" ELSE "not found"]
  /\ Fixed /\ UNCHANGED <<path, modules, subs, redirect>>

\* The Star of the module, or of one of its submodules, in the map of the session.
Discover(l) ==
  /\ load[l].at = "discover" /\ load[l].star
  /\ load' = [load EXCEPT ![l].at = "done"]
  /\ Fixed /\ UNCHANGED <<path, modules, subs, redirect>>

NoStar(l) ==
  /\ load[l].at = "discover" /\ ~load[l].star
  /\ load' = [load EXCEPT ![l].at = "failed", ![l].why = "no star"]
  /\ Fixed /\ UNCHANGED <<path, modules, subs, redirect>>

ImportNext ==
  \E l \in Loads :
    \/ NotThere(l) \/ BeginLoad(l) \/ SavePath(l) \/ PutOwn(l) \/ PutParent(l)
    \/ EnterPackage(l) \/ RunMain(l) \/ FindCached(l) \/ ImportByName(l) \/ ImportBare(l)
    \/ NotFound(l) \/ TakeBack(l) \/ Restore(l) \/ Discover(l) \/ NoStar(l)

ImportSpec == ImportInit /\ [][ImportNext]_importVars

-----------------------------------------------------------------------------
(* With one load at a time sys.path is after each what it was before,       *)
(* whatever failed and whatever the plugin's code did to it.                *)
PathComesBack == oneByOne /\ Running = {} => path = <<Base>>

(* ... its directories are in sys.path while its code runs, and a path it   *)
(* has written down leads to its own files.                                 *)
ImportsInItsOwn ==
  oneByOne => \A l \in Running :
    /\ load[l].at \in {"import", "main"} => {load[l].of, Parent} \subseteq ToSet(path)
    /\ load[l].of \in hard => redirect = load[l].of

(* A plugin with a main.py runs its own main.py, in any order of loads, and *)
(* what it imports from its package is its own if no other plugin is loaded *)
(* that is imported under the same name, whatever else is loaded meanwhile  *)
(* and whatever failed before.                                              *)
Alone(l) == \A k \in Loads : ByName(load[k].of) = ByName(load[l].of) => load[k].of = load[l].of
RunsItsOwn ==
  \A l \in Loads : load[l].at = "done" /\ Packaged(load[l].of) =>
    /\ load[l].code = load[l].of
    /\ Alone(l) => load[l].parts \in {NoPlugin, load[l].of}

(* A plugin with a main.py that raises nothing and has a Star is loaded.    *)
PackagesLoad ==
  \A l \in Loads : load[l].at = "failed" /\ Packaged(load[l].of) => load[l].why \in {"raised", "no star"}

-----------------------------------------------------------------------------
(* "Only what was added is removed, the paths of other code are kept": they *)
(* are not, the list is set to what it was.                                 *)
OthersPathsStay ==
  [][\A l \in Loads : load[l].at = "leave" => (Extra \in ToSet(path) => Extra \in ToSet(path'))]_importVars

(* sys.path comes back when loads overlap too.                              *)
PathComesBackAlways == Running = {} => path = <<Base>>

(* The comment on line 240: what main.py imports relatively is found by the *)
(* __path__ of its package.  It is looked for in sys.modules first, where   *)
(* the submodules of an earlier plugin with the same module name stay, so   *)
(* that the later one runs those also if loads are made one at a time.      *)
PartsAreItsOwn ==
  oneByOne => \A l \in Loads : load[l].at = "done" /\ Packaged(load[l].of) =>
    load[l].parts \in {NoPlugin, load[l].of}

(* Every plugin serves its own code.                                        *)
EveryoneRunsItsOwn == \A l \in Loads : load[l].at = "done" => load[l].code = load[l].of

(* A plugin that has been loaded can be loaded again.                       *)
LoadsAgain ==
  \A l, k \in Loads : load[l].at = "done" /\ load[k].of = load[l].of /\ load[k].at = "failed"
    => load[k].why = "raised"
=============================================================================
