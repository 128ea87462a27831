---------------------------- MODULE PluginStores ----------------------------
(***************************************************************************)
(* What the stores of one plugin, what it registers with the host's        *)
(* managers, and the code it is loaded and installed from promise together. *)
(***************************************************************************)
EXTENDS Providers, Platforms, Preferences, ConfigFile, LazyDeps, PluginImport

\* Who asked to be told of a switch of the provider, or of a connection of the bridge, is
\* told of it once (provider/manager.py, context.py).
ToldOnce == EachIsToldOnce /\ WsToldOnce

\* What the calls that returned have stored is in the files, whatever dies or raises in
\* between: of the preferences, of the key-value store, and of the configuration while one
\* process writes it whose saves reach the host.  In a process that answers at all the
\* preferences answer as the file has it or younger; after a restart they do not answer, see
\* PersistedComesBack (shared_preferences.py, plugin_kv_store.py, astrbot_config.py).
FilesSurvive ==
  /\ PreferencesSurvive /\ ReadsAreFresh
  /\ KvSurvives /\ KvReadsCommitted
  /\ OneProcessOnly => FileIsTheLog /\ NeverTorn /\ PutsOnce
  /\ TempsAreRemoved

\* pip runs once for what is missing and never twice at a time, imports that wait for it get
\* what it installs and none waits for itself (where what modules import on trial is there),
\* and a plugin with a main.py runs that in its own directories, with its own package if no
\* other plugin is imported under the same name (deps_resolver.py, loader.py).
InstallsAreRight ==
  /\ OnePip /\ TriedOnce /\ FailsForAReason
  /\ OptionalsThere => WaitsForOthers
  /\ LocksGivenBack
  /\ PathComesBack /\ ImportsInItsOwn /\ RunsItsOwn /\ PackagesLoad
=============================================================================
