# Verification of the AstrBot Python plugin SDK

The SDK (`src/astrbot`) runs AstrBot plugins written in Python in a child process of a Go
host and talks to it over gRPC in both directions: the host calls the plugin service
(commands, filters, hooks, tools, scheduled jobs, web requests, the next message of a
session), plugins call the host service back. These TLA+ modules model that process: the
concurrent core, what plugins keep, how they are installed and loaded, and what becomes of a
call on its way in or out. TLC checks them on small instances; for the modules with a
`...Proofs` module beside them TLAPS proves the safety properties for any number of plugins,
threads and requests.

## Inventory

Paths are under `src/astrbot`. The state named is what the code keeps between two calls. In
the last column *all* means that every operation that changes state is an action; what a
*part* leaves out is said in the component's note in `PROJECT.json`.

| component | state | operations | module | |
|---|---|---|---|---|
| shared runtime host (`_runtime/host.py`, `registry.py`, `context.py`) | `_sessions`, `_servicers`, sessions, servicers, the ContextVar | `add_plugin`, `manage_plugin`, `load_plugin`, `instantiate(_async)`, `unload_plugin` | SharedRuntime | all |
| dispatcher (`_runtime/dispatcher.py`) | none | `route`, `dispatch`, `_record_failure` | SharedRuntime, Watchdog | all |
| plugin gate (`_bridge/state.py`, waits in `dispatch.py`) | the phase of a servicer | `set`, `wait`, the three marks | SharedRuntime, PluginServer | part |
| watchdog (`_runtime/watchdog.py`) | failures of a plugin, its alarm | `report`, `mark_fatal`, `clear` | Watchdog | part |
| single-plugin server (`_bridge/server.py`, `bootstrap.py`, `loop.py`) | phase, servicer, event loop | the process phase by phase, its failures, its end | PluginServer, PluginLifecycle | all |
| handler registry and RPCs (`core/star/star_handler.py`, `_bridge/dispatch.py`) | list and map of handlers, the tables copied from them | decorators, `build_registry`, `Register`, `Handle*`, `ListTools` | HandlerCalls | part |
| events and results (`astr_message_event.py`, `active_event_registry.py`) | stop, result and sent flags, active events | send, stop, result, what an RPC answers | HandlerAnswers | part |
| filters (`core/star/filter`) | commands and groups | names, look-up, parameters, permissions | Filters | part |
| session waiter (`core/utils/session_waiter.py`) | `USER_SESSIONS`, future, lock and timer of a wait | `register_wait`, `trigger`, `keep`, `stop`, `FeedSessionWait` | SessionWaiter | all |
| cron jobs (`core/utils/cron_manager.py`) | records, handlers, host's jobs, local trigger | add, update, delete, run, list, `FeedCronJob` | CronJobs | part |
| minimal scheduler (same file) | job table, flag, event, thread | all of them | MinimalScheduler | part |
| channel to the host (`_bridge/host.py`, `broker.py`) | address, cached channel, stub, probe flag | `StartStream`, `dial`, `close`, `connect`, probe, teardown, preconnect | HostChannel | all |
| bridge methods and facades (`_bridge/host.py`, `core/*_mgr.py`) | none, or the last answer | reads, changes, second calls | HostMethods | part |
| tools (`func_tool_manager.py`, `core/agent/tool.py`, `core/tools/registry.py`, `mcp_client.py`) | table of tools, registry of built-in ones, a connection and its tasks | add, remove, look-up, import, connect, cleanup | ToolTable | part |
| schemas and runs of tools (same, `tool_executor.py`) | none | docstring to three vendors' schemas; one run of a tool or hook | ToolCalls | all |
| preferences, key-value store (`shared_preferences.py`, `plugin_kv_store.py`) | a file and its cache | get, put, remove, clear, under crashes | Preferences | all |
| message history (`message_history_manager.py`) | a file and its cache | insert with trim, get, update, delete | MessageHistory | all |
| conversations (`conversation_mgr.py`) | cached id of a session | new, switch, delete, current, update | Conversations | part |
| configuration of a plugin (`astrbot_config.py`, `star/context.py`) | the object, the host's copy, a file | get, edit, save; put, update, load; agreement with a schema | PluginConfig, ConfigFile | part |
| configuration profiles (`astrbot_config_mgr.py`) | files, objects, mapping | create, delete, restart | ConfProfiles | part |
| skills (`skill_manager.py`) | directories, the sandbox's cache | install from an archive, delete, activate | SkillFiles | part |
| providers (`provider/manager.py`) | the one in use, callbacks, hooks | use, switch, tell | Providers | part |
| model, embedding, speech calls (`provider/provider.py`) | a batch or a stream under way | batches with retries, streams, chats | ProviderCalls | part |
| platforms (`star/context.py`) | the list, a poll | list, poll, tell | Platforms | part |
| web routes and replies (`dispatch.py`, `api/web.py`) | routes and the servicer's copy | register, list, serve; request and reply | WebRoutes | all, part |
| message components (`message/components.py`, `_bridge/serialize.py`) | none | constructors, two wire forms, events and hooks | MessageParts | part |
| messages of agents (`core/agent/message.py`, `provider/entities.py`) | a stored history | bind, dump, strip, request, reply | AgentMessages | part |
| media (`media_utils.py`, `io.py`) | temporary files | resolve, read, detach, convert, compress, download | MediaFiles | part |
| loader (`_bridge/loader.py`, `path_compat.py`) | `sys.path`, `sys.modules`, redirection | find, import, redirect | PluginImport | part |
| lazy installation (`_bridge/deps_resolver.py`) | venv, lock, lock file, failures | import, pip | LazyDeps | all |
| requirements (`requirements_utils.py`) | none | parse, plan, ask | Requirements | all |
| archives and updates (`star/updater.py`) | none | root, metadata, validation | PluginArchive | all |
| registry proxies, star context, personas | see the modules | registration in the current session; one call each | SharedRuntime, HostMethods, ToolTable, ... | part |
| shared runtime process (`_bridge/shared_runtime.py`) | none | loads the plugins named by the environment | SharedRuntime | part |
| generated stubs, sub-agents and platform bases, database shell, text and HTML utilities, compatibility packages, re-exports | none | | | not |

### How they interact

```
 Go host --ManagePlugin, Register, Handle*--> Dispatcher --> SharedRuntimeHost --> PluginServiceServicer
   |                                             |  failures        gate: phase     handlers, filters,
   |                                             +--> PluginWatchdog --> health     tools, events, routes
   +--FeedSessionWait, FeedCronJob--> handler RPCs --> event loop: SessionWaiter, CronJobManager
   <--GetConfig, CronCreate, SendMessage, ...-- facades --> HostBridge --> broker --> channel
        plugin: preferences, key-value file, history, configuration, skills, media: files of its own
```

Every RPC runs on a thread of gRPC's pool. Plugin coroutines run on one asyncio loop in a
thread of its own; `run_coro` hands a coroutine over and waits for it with a timeout that
cancels it. Star instances are built in threads of their own (shared runtime) or by the main
thread (single plugin). So two sets of things are concurrent: threads, which interleave at
every access (SharedRuntime, PluginServer, HandlerCalls, ToolTable, LazyDeps, PluginImport,
Watchdog, MinimalScheduler, HostChannel, Preferences), and coroutines, which interleave at every
`await` (SessionWaiter, CronJobs, the connections of ToolTable, Conversations, Providers, MediaFiles,
ProviderCalls). Files are shared with other processes of the same host, and the host may kill
a process at any time.

### What is hard here

- Two dictionaries (`_sessions`, `_servicers`) that nothing updates together, and objects
  looked up again by plugin id after another thread may have replaced them.
- Gates with timeouts on both sides (15 s, 60 s, 120 s), with late answers.
- Locks released between a decision and its publication (watchdog, probe flag), and lists
  without one (handlers, tools), which Python empties while it sorts them.
- A table keyed by session id that can hold one wait, and callers that may make two.
- What the host keeps and a plugin mirrors (jobs, conversations, providers, configuration),
  while replies get lost and others change it.
- Cancellation of a coroutine at any of its awaits, with files half written.
- Two ways to do the same thing that have to agree: JSON and proto, the docstring and three
  schemas, the RPC and the local executor, two request types, an archive and its directory.
- The interpreter's own state: `sys.path`, `sys.modules`, one lock for all imports.

What each component must guarantee is stated at the end of its module. `PROJECT.json` lists
the hazards at their lines with the properties that cover them. Hazards met besides, which no
property covers: the watchdog's window survives an unload (`host.py:449` does not call
`clear`); two threads may make two brokers (`broker.py:93`); a request without `plugin_id`
runs outside every session (`dispatcher.py:107`); a plain function's cron run is in a thread
that a deletion can overtake (`cron_manager.py:865`); `StarTools._context` is one class
variable for all plugins of a shared runtime; `cancel_all_tasks` cancels tasks of the loop
from another thread, which does not wake the loop.

## The modules

One step of a module is the longest piece of code that no other thread (coroutine) can see
half done: one access to an unlocked shared object, one locked section, one stretch between
two awaits, one call of plugin code. A definition marked `mutant` in a module is a faulty
variant of the definition after it, used to see that a property notices the fault. A
statement about what *the code does not do* is one that TLC finds violated: see below.

### The runtime

**SharedRuntime.** A thread is a program counter `pc[t]` and Python locals (`plugin`,
`session`, `servicer`, `meta`). A member of `Loads` stands for a call of `load_plugin` and
names the session, servicer and metadata it makes; a member of `Starters` is an
instantiation thread and names the Star it builds. `registry` and `servicers` are the two
dictionaries; `phase` and `inst` are the servicer, `instance`, `lifecycle` and `handlers`
the session, `star` and `life` the Star. `Load`, `Unload`, `Register`, `Handle` and
`LoadEnvironment` begin a piece of work; the other actions are its steps in code order.
`Discipline` says what the host refrains from:

| word | meaning | who does it |
|---|---|---|
| `serial` | for one plugin, ManagePlugin and Register one after the other, load only what is not loaded | the order the host's RPCs are meant for; nothing in the SDK enforces it |
| `once` | one Register for a session | a host that registers a plugin when it has loaded it; `instantiate_async` spawns a thread for every Register answered |
| `settled` | no unload while an instantiation runs | an operator's patience |
| `prompt` | an import takes less than the 120 s Register waits | a property of plugins |

**Watchdog.** A reporter reads the clock, takes the lock, records and judges, calls the
callback if it is to alarm, and then writes the verdict into the session: `Stamp`, `Record`,
`Notify`, `Publish`. `Delay` bounds the time between clock and lock.

**PluginServer.** `main` is `stage`; the RPC threads are `call`. Both meet in `phase`, which
anybody may set. SIGTERM has one meaning before the handler is installed (`killed`) and
another after. `orderly` says that the host registers once and in time. **PluginLifecycle**
is what the host may rely on: a process offers itself, is bound, serves, and ends, and never
goes back; `KeepsPromise` says that PluginServer implements it, `promise` being read off
`stage` (`Promise`).

**SessionWaiter.** A waiter is one `register_wait`; a feed is one pushed message. The
timer task of each `keep()` is `hold`; `late` is an older one whose timer fired before it
was told to end. `Orderly` is the set of sessions whose callers wait once at a time
(`Alone`) and are not cancelled while the host is being asked (`Patient`); the others do
anything.

**CronJobs.** `Jobs` pairs an add call with the id it got, from the host or locally. The
host's table `hosted` and the mirror (`record`, `handler`, `forwarded`, `trigger`) change in
separate steps, because the RPC is awaited; an RPC may take effect and its reply be lost.
`orderly`, chosen in the initial state, says that plugins make one edit at a time and that
there is one manager.

**MinimalScheduler.** `start` and `shutdown` access the flag, the event and the thread one
by one. Time is a job's `ahead` becoming `due`. `careful` says one call at a time.

**HostChannel.** Channels are numbered as they are made; a host is numbered by its start,
and a restarted host is at another address. `Evict` and `Close` are two steps, as are a
failing probe and the teardown. A method that catches only `RpcError` and finds no stub ends
in `crashed`. `orderly` says one call at a time.

### Calls of the host

**HandlerCalls.** The import, the constructor and every RPC are threads over one registry
(`listed`, `mapped`) without a lock; a sort takes the list away and puts it back. The
tables `Register` makes are `commands`, `filters`, `hooks`, `copied`. An *orderly* plugin
registers in its import only. **HandlerAnswers** is one RPC after the handler is found: the
handler sends, sets results, stops events, asks the model, returns, raises or is cut off;
`answer` is what the host is told. **Filters** has commands as sequences of words; a
message is looked up the way the plugin does and the way the host's RPC does, and its words
become parameters.

**ToolTable** has three parts: the table of tools, whose add and remove are the two or three
list operations they are in Python, the registry of the built-in ones, and a connection to a
server of tools with the task that holds it. **ToolCalls** goes from an RPC, the executor
or the guard to a tool's or hook's handler and back, and, in its second part, from the lines
of a docstring to parameters, a registered tool and the schemas of three vendors.

**WebRoutes** keeps the context's list and the servicer's copy; a coroutine handler finds its
request in a ContextVar of its own. Its second part is one request and one reply with its
headers, query and upload.

### Calls to the host

**HostMethods** is one call of a facade, its one or two RPCs, each of which may fail before or
after it took effect, and what the facade makes of an empty answer. **Conversations**,
**Providers**, **Platforms**, **PluginConfig** keep something of what the host answered.
**ProviderCalls** has the batches of an embedding as tasks with retries and a semaphore, the
two queues of a stream of speech, and the ways to chat. **AgentMessages** is a plugin's agent on
a stored history; `careful` is a plugin that dumps what it has bound.

**MessageParts** turns a part into both wire forms and back, in an event, in a hook's
result and in a sent chain; parts and wire forms are records, a source of media one of a
few kinds.

### What a plugin keeps, and how it comes to be

**Preferences** (its second part is the key-value store of a plugin), **ConfProfiles** and
**ConfigFile**: the steps of reading, changing, writing a temporary file and replacing the
file, with a crash between any two; in **MessageHistory** an operation under the manager's lock
is one step, and a restart another. **SkillFiles** installs an archive directory by directory
and can fail in each. **MediaFiles** names every temporary file by the call that made it; what
comes over HTTP may be cut off without an error. **LazyDeps** has the process's lock, the lock
file of the virtual environment, which may not open, and pip;
**Requirements** and **PluginArchive** are pure: an input is chosen and everything asked about
it compared; **PluginImport** is two loads on one interpreter: `modules` and `subs` are
`sys.modules`, the second for the submodules of a name, which no load takes out.

### Compositions

SharedRuntime contains the dispatcher, the registry and the gate, PluginServer the gate,
`Register` and the handler RPCs. **MCPromises** puts the waiter and the channel in one run,
**MCProcess** the server and the scheduler, **MCCalls** the modules of calls, **MCStores** those
of files, copies and installation: a behaviour is one of the component that `subject` names.
These components share no state in the code, so their interleavings would show nothing; they
are put together only so that one run asks one question of all of them. MCProcess, MCCalls and
MCStores extend the modules something is proved about, with their own variables, so that a
theorem and a run speak of the same definition; the others are instances and take their
variables from common slots. MCProcess extends PluginServer and MinimalScheduler; MCCalls
HandlerCalls, HandlerAnswers, WebRoutes and ToolTable; MCStores HostChannel, PluginConfig,
Conversations, ConfProfiles, SkillFiles, MessageHistory and **PluginStores**, which puts
Providers, Platforms, Preferences, ConfigFile, LazyDeps and PluginImport side by side and states
what they promise together (`ToldOnce`, `FilesSurvive`, `InstallsAreRight`). An extended
component that is not the subject stays in one initial state. A property about instances is a
conjunction of the components' own, guarded by `subject`, which the MC module names. Watchdog, SessionWaiter and CronJobs are run by
themselves.

## The runs

`tlc -config X.cfg M` in this directory, with the names `PROJECT.json` pairs.

| run | instance | shows |
|---|---|---|
| shared_any_host | 1 plugin, 2 loads, 2 workers, 1 starter, `Discipline = {}` | whatever the host sends, a handler runs only on a published Star (`HandlerGated`) and set and reset of the ContextVar are paired on every path (`ContextPaired`) |
| shared_orderly | 2 plugins, one of the environment's, 2 loads, 2 workers, 2 starters, all disciplines | the two maps agree outside a load or unload, a servicer serves the Star of its own load, no Star is lost or built before Register's answer, Register reports the import's handlers, an open gate stays open |
| shared_liveness | 1 plugin, 2 loads, fairness | every RPC returns, and a registered plugin ends up serving, failed or unloaded |
| shared_unload_terminates | 1 plugin, 1 load | a disagreement: see below |
| web_late_routes | as `web` in calls | a disagreement: see below |
| watchdog | 2 reporters, 2 categories, window 2, delay 1, 4 ticks, 3 events, 1 clear | one alarm for an episode however many threads cross the threshold; a verdict counts nothing older than window and delay |
| session | 2 waits, 2 feeds, 1 keep, an orderly and a disorderly session | the lock's line is exact under cancellation, no handler starts for a session that ended (every session); an orderly wait is reachable and leaves no entry |
| cron | 1 job, 2 edits, 1 run now, a coroutine and a plain function | a job has one scheduler whatever is lost; for orderly plugins deletion is complete and final, and a feed is refused only for an unknown job |
| promises | 1 wait, 2 feeds, 2 keeps, disorderly; 1 caller and the thread that connects in advance, 2 calls, 2 attempts; fairness | every wait and call ends, every feed is answered, and while the host is up at the announced address it is reached |
| process | 2 RPC threads, 2 Registers, a SIGTERM at any moment, orderly or not; 3 calls, 3 runners, 1 job due twice; fairness | no handler before its Star; no Star before the answer to an orderly host holds the whole registry; the process implements PluginLifecycle; it ends up serving or gone, every RPC ends; a job runs once each time it is due, and what is due is collected |
| calls | below | what becomes of the host's calls and of the calls to it |
| stores | below | what a plugin keeps and is installed from |

| subject of calls | instance | property |
|---|---|---|
| handlers, hooks | a command, a filter, a tool or a hook of one plugin and one of another; 2 workers, 3 calls | what the host was told of is found, nothing of another plugin runs; an orderly plugin's handlers never leave the registry (`CallsReachTheirHandler`, `NothingIsLost`) |
| filters | 5 commands, aliases and nested groups, of which 2; 3 words | both ways to a command agree, every reported name is found, no word is lost, permissions are ordered (`FormsAgree`) |
| answers | 2 events, 3 acts | a reply the host is told of was delivered, one of aiocqhttp that was delivered is told, a stop is told, no event stays active (`AnswersAreTrue`) |
| schemas, tool runs, tools | 4 lines of 11 kinds and about 50 schemas; 9 outcomes, at most 5 hook arguments; 2 threads and 4 operations | what a docstring declares is what three vendors are told, the ways to run a tool agree, and the table is what one thread made of it (`FormsAgree`) |
| builtin, mcp | 3 modules, 3 imports; 2 users and 2 connections | a loaded registry has every tool, and no connection is left running untold (`ToolsAreRight`) |
| web, replies | 2 of 5 routes, 2 requests; 2 header names, 2 keys | `WebIsRight` |
| methods, embeddings, speech, chats | 2 things; 4 texts in batches of 1..2, limit 1..2, 0..2 retries; 3 parts; one chat of each kind | `HostMethodsAreRight` |
| parts, agent | every part, forwards two deep; 2 tool calls, 3 messages | what is sent arrives, and a history a plugin dumps keeps what it has bound (`MessagesSurvive`, `HistoryIsKept`) |

| subject of stores | instance | property |
|---|---|---|
| preferences, kv, config file, config fallback | 2 sessions, 2 keys, 4 puts; 3 calls; 3 calls of 1 process; 3 calls of 2 processes, of which one loads | the files hold what was stored, whatever dies or raises (`FilesSurvive`) |
| history | 2 chats, cap 2, 4 inserts | the newest that fit, in their order (`NewestAreKept`) |
| conversations | 2 tasks, 3 ids, 1 switch elsewhere | `CurrentIsTheHosts` |
| skills | 2 installs of 2 folders, or 1 install of any archive | `SkillsAreWhole` |
| config | 2 getters, 2 settings, one of them in a table, 3 edits, 2 saves | `HostHasTheLastSave` |
| profiles | 3 ids, 1 restart, 1 cancelled caller in each process, with preferences that work, that raise, or none | `ProfilesAreRight` |
| providers, platforms | 2 switches, 2 hooks, one of which raises and one is a bound method; 2 threads that ask and register, 2 callbacks, 2 tries | `ToldOnce` |
| channel | 2 callers, one of any kind, and the thread that connects in advance, 3 channels, 2 hosts | `ChannelIsRight` |
| deps, import | 3 threads of 2 processes and 4 modules; 2 loads of 3 plugins, two of them with one module name | `InstallsAreRight` |
| media, media pair, requirements, archive, config check | any call on 8 sources, 8 contents and 4 suffixes; 2 calls; 2 lines of 8; 8 members; two levels of keys | nothing a conversion makes is left behind, and what is named and written is read as it was meant, if a download was not cut off (`ReadAsMeant`) |

The bounds are the smallest at which each race has its parties: two workers for two requests
at once, two loads for a reload, two starters for the second Star of a reloaded plugin, two
plugins for interference across plugins, two edits for a deletion during an update, two
hosts for a restart, two callers and the connecting thread for a double dial with an
eviction, two keeps for a relieved timer, three threads of two processes for a lock within and
one between processes, a cap of two with four inserts for a trim that follows a trim, four
texts in batches of two for a batch that fails while another goes on. Cron jobs do not
touch one another, so one is enough; the same holds for waits of different sessions, of which
the run has two only to put both regimes in one instance. The inputs of the pure modules
have one member of each kind the code distinguishes, and two where order matters. Where the
members of a set are alike, one start of each kind stands for the others (`...Start` in
MCStores): two calls of the same kind are in one order, the sets of ids are initial ones, the
first call on a file is with one key and value. Loads that overlap are of two plugins that both
have something to load, one of them a package, and name no path in their code. `begun`,
`keeps`, `dues`, `clears`, `calls`, `puts`, `acts` and the sizes of the constant sets end the
behaviours; where the configuration switches deadlock checking off, the calls of the
instance are used up.

For every checked property one faulty variant of a modelled definition was found to violate
it in the same instance (`mutants` in `PROJECT.json`).

## Fairness

- SharedRuntime: weak fairness of every worker, starter and the main thread. Threads are
  scheduled, every wait has a timeout (`lifecycle.wait`), and plugin code on the loop is cut
  off by `run_coro`. Nothing obliges the host to send a request.
- PluginServer: weak fairness of `main` and of every RPC thread, for the same reason; the
  host need not register, and SIGTERM need not come.
- SessionWaiter: weak fairness of the steps of waits and feeds: RPCs have deadlines, the
  loop runs ready tasks, feeds are cancelled after 30 s. Handlers need not return.
- MinimalScheduler: weak fairness of a call under way and of the runners. Nobody has to call
  and the clock need not move.
- HostChannel: weak fairness of the steps of a call; each attempt waits at most the timeout.
  The host need not announce itself or come back.
- Everything else is checked for safety only.

## Proofs

Each of the eight `...Proofs` modules extends the modules it is about and proves, for all values
of their constants (sets finite or not, where no assumption says so), that what a run checks of
them on a small instance holds in every behaviour. Each safety proof has the same three parts:
an inductive invariant holds initially, every action keeps it (one lemma or step for each action,
below it one for each conjunct the action disturbs), and it implies the property. TLC checked
every inductive invariant on the instance of the run before it was proved. The assumptions are
the named ones of the modules, which TLC evaluates in the runs; they say that constants that
stand for different things differ, that bounds are numbers, and, where something is counted,
that sets are finite.

| theorem | of | states |
|---|---|---|
| `TypeCorrect`, `GateSafe`, `ContextSafe` | SharedRuntime, any `Discipline` | `TypeOK`; `HandlerGated`: no handler is called before its plugin's Star is published; `ContextPaired`: no plugin code runs in the session of another |
| `MapsSafe`, `StarsSafe`, `HandlersSafe`, `GateStays` | SharedRuntime, if `Discipline` has all four words | `MapsAgree`, `StarsAreRight`, `RegisteredHandlers`, and the action property `GateStaysOpen` |
| `AlarmsSafe`, `CountingSafe` | Watchdog | `AlarmsAreRight`: an alarm is made once; `CountedWithinSlack` (action property): a verdict counts nothing older than window and delay |
| `WaitsSafe`, `HandlersStartInTime` | SessionWaiter | `WaitsAreRight`; `NoHandlerAfterEnd` (action property) |
| `JobsSafe`, `NoLateStart`, `RunsSafe` | CronJobs; `RunsSafe` if there is one manager | `JobsAreRight`; `NoStartAfterDelete`, `RunsAreRight` (action properties) |
| `StarAwaited`, `PromiseKept` | PluginServer | `StarIsAwaited`; `KeepsPromise`, the refinement of PluginLifecycle |
| `SchedulerSafe` | MinimalScheduler | `SchedulerIsRight`: once per due time, and a truthful flag for careful callers |
| `ChannelSafe` | HostChannel | `ChannelIsRight`: no channel leaks, the cached one is open |
| `ConfigSafe`, `CurrentSafe`, `ProfilesSafe` | PluginConfig, Conversations, ConfProfiles | `HostHasTheLastSave`, `CurrentIsTheHosts`, `ProfilesAreRight` |
| `CallsSafe`, `MapGrows` | HandlerCalls | `CallsReachTheirHandler`; `NothingIsLost` (action property) |
| `AnswersSafe` | HandlerAnswers | `AnswersAreTrue`: the host is told the truth about replies (for aiocqhttp: of all that were delivered) and stops |
| `WebServesRight` | WebRoutes | `WebIsRight`: the first route that fits serves, a handler sees its own request and what was sent with it, and the host is told what it returned |
| `ToolsSafe` | ToolTable | `ToolsAreRight`: the registry of built-in tools is complete when it says so, and no connection to a server of tools is left running |
| `FilesSafe` | Preferences, ConfigFile | `FilesSurvive`: the files hold what the calls that returned have stored, whatever dies or raises, and no temporary file is left; not that the preferences can be read after a restart, which they cannot (`PersistedComesBack`) |
| `NewestSafe` | MessageHistory, if there is one manager | `NewestAreKept`: the file has the newest messages that were not deleted, as many as fit, in order |
| `WholeSkills` | SkillFiles | `SkillsAreWhole`: a refused archive leaves nothing, what was installed is there |
| `EachToldOnce` | Providers, Platforms | `ToldOnce`: each object registered is told of each switch once, also after one that raised; a plugin that registers in turn has one poll for the bot's connection, and a poll calls each callback at most once |
| `InstallsSafe` | LazyDeps, PluginImport | `InstallsAreRight`: one pip at a time and one for a package, who waits gets what it installs, nobody waits for itself where optional imports are there, the locks and `sys.path` come back, and a plugin with a `main.py` runs its own, and its own package if no other loaded plugin is imported under its name |

A theorem about several modules has their specifications side by side as its hypothesis: each
is a conjunct with variables of its own. Where a property holds only for some callers, the
regime is a constant or a variable of the module that the property itself names
(`OneProcess`, `OneProcessOnly`, `SerialInstalls`, `alone`, `oneByOne`, `OptionalsThere`), and
the theorem covers both cases; `OneManager` and the four words of `Discipline` are hypotheses.
Beyond well-typedness the assumptions say something of the code in one place: `DepsAssumption`,
that no two names of `IMPORT_MAP` (`deps_resolver.py:36`) have one package, which is so for all
of its entries. Without it an import could fail because another name of its package was tried
before. A dotted name below a mapped one does fall back to its package (`_lookup_pkg`), but only
after the mapped one was imported; such names are not modelled.

What each inductive invariant adds to the properties, and why:

- **SharedRuntimeProofs.** For any host (`IInv`): `GateOrder`, an open gate has a published
  Star, a thread about to publish has built one, a thread about to open the gate has published
  one, which is the order of `instantiate` and what "no handler before its Star" rests on;
  `LocalsFit`, the locals assigned at each step, which makes the look-ups defined; `SpawnsFresh`,
  the thread a Register will spawn is running nowhere and promised to nobody else. For the
  disciplined host (`DInv`) the properties say nothing about calls under way, which is all
  that can break them: `ThreadsFit`, at most one manager or Register of a plugin and whose
  session and servicer each one holds; `MapsFit`, what the two maps may hold at each step of a
  load or unload; `TodoFits`, the plugins of the environment not loaded yet; `OneSession`, a
  load belongs to one plugin; `ObjectsFit`, the servicer, session and Star of a load at each
  step. The hypothesis `Disciplined` is the regime of shared_orderly; without `settled`, for
  one, `ServesOwnStar` fails (see below).
- **WatchdogProofs.** `AlmostInOrder`: of two recorded events the earlier is at most `Delay`
  younger, which bounds what pruning from the front leaves; `StampsAreRecent`, a reporter's
  reading of the clock is at most `Delay` old; `AlarmOncePerEpisode` counts the alarms decided
  and on their way in finitely many reporters.
- **SessionWaiterProofs.** `LockHeld` and `LineOnce`: who holds a lock is first in its line, and
  nobody is in two places of a line, under cancellation anywhere; `OwnEntry`, `OneCall`,
  `NoStaleEntry`: whose call an entry of `USER_SESSIONS` belongs to.
- **CronJobsProofs.** `Owned`: a job the host has or runs was asked for by a manager that was
  built; `OneEdit` and `EditsName`: which job an edit holds across its await; `LocalIsLocal`: the
  host never has a job that fell back to this process.
- **ProcessProofs.** `AnswerBeforeStar`: while no answer with the whole registry is made, `main`
  has built no Star, which rests on `OneRegister` and on the phase of each stage
  (`StageAndPhase`); `InstanceIsThere`, `FewLoops`. The refinement is proved
  action by action, each being a step of PluginLifecycle or a stutter of `Promise`. For the
  scheduler `Paid`: how often a job ran, together with the threads about to start it, is at most
  how often it came due, which needs the runners to be finitely many; and `OneCall`: what the
  flags are at each step of a careful caller.
- **StoresProofs.** HostChannel: `NumberedInOrder` and `OwnersApart`: channels not made yet are
  nobody's, and no two callers own one; `WhatIsOpen`: an open channel is cached or owned by a
  caller that will store or close it; `AttemptsLeft`; and for orderly callers `OneAtATime` and
  `BridgeIsRight`. PluginConfig: `OneOnItsWay` and `LastOfTheEnded` follow the saves under way,
  `HostHasWhatWasSaved`, and for tables `ValuesWereSet` and `ObjectsGrow`: what an object has is
  never older than a save of it, so what is sent of a table is as young as what was saved. Conversations: `NotedSinceAsked`: the ids that were current since the
  call began contain all it may answer, and `CacheWasCurrent`: the cache holds what was current
  once. ConfProfiles: `MappingAgrees`, `ObjectsHaveEntries`, `CreatedStays`: mapping and objects
  agree except for the profile being changed.
- **CallsProofs.** HandlerCalls: `ThreadsTypeOK`, `TablesHoldOwn`, `RequestsFit`: what is called was
  reported, and what is checked or runs was found; for orderly plugins
  `RegisterOnce`, `ListIsTheMap`: the list that is sorted away during a Register holds what the
  map does. HandlerAnswers: `MarksAreTrue`, `StoppedIsTold`, and `ActiveIsOwn`: an event
  that was not renamed is registered for its own session only. WebRoutes: `FirstIsFound`, no
  earlier route fits, and `OneEach`, a thread's ContextVar names the request whose handler runs
  in it and no two requests share a thread; for replies, what was returned is what will be told,
  and the two tables of a header dictionary hold the same keys. ToolTable: `ImportedSoFar`, the
  modules before the one an import is at are complete and that one is up to its tool, which a
  failed import and a second one leave true; and `McpHeld`: of users that wait for each other
  one works, on the connection the client holds, and every other connection is about to end.
- **FilesProofs.** SkillFiles: `DoneWasToDo`: an installed skill's directory is no longer to do;
  with one call at a time `RoomIsMade` (nothing is in the place a directory is about to be moved
  to) and `TargetsAreFree` (without overwrite, what is still to do exists nowhere).
  Preferences: `PrefHolds`: file and cache hold of every entry the acknowledged value or one that
  was tried since. The key-value store: `KvHolds`: the change under way has the lock and has read
  the file as it is but for its own key. ConfigFile: `CallsHold`, the same for a put, and
  `FileHolds`: the file is the log of puts, and the last entry of a key is what counts; `CallsEnd`
  for temporary files. MessageHistory: `HistoryInv`: dates rise along a list, a list's dates are
  those that are to be kept, and a manager that has loaded the file holds what the file does; that
  a trim keeps the newest is a lemma that counts places. Providers: `EachIsToldOnce` is inductive
  with the types; `PlatformsInv`: a poll has called the callbacks before its place once and those
  from there on never (`ToldSoFar`), a thread starts one poll at most (`StartsOnce`), and in turn
  who is about to start one is alone in it and there is none yet (`StartsAlone`).
  LazyDeps (`DepsInv`): the stack of imports nests, below the innermost only bodies and second
  looks (`StacksNest`); the locks are held by exactly those whose frames say so (`LocksAreHeld`,
  `LocksHaveHolders`, `FileLockIsHeld`); two threads of a process are not in one module
  (`ModulesApart`); a package in `_attempted` has its module there, or somebody sees to it, or
  there is a reason why not (`TriedSoFar`, `FoundIsThere`, `TriesHaveReason`); and optional
  imports never come to the finder where they are there (`OptionalsFound`). PluginImport
  (`ImportInv`): loads of one plugin are apart (`LoadsApart`), what `sys.path` holds at each step
  of one that is alone (`OnPath`), whose code it runs (`OwnCode`), and whose package and
  submodules are under its name, if no other is imported under it (`OwnPackage`).

Only model-checked, and why:

- liveness under fairness (`RequestsReturn`, `RegisteredResolves`, `EveryCallEnds`,
  `EveryoneIsServed`, `EverythingEnds`): out of the prover's reach, as is ENABLED.
- what is computed from a sequence or tree of any length, whose proof is an induction over data:
  `FormsAgree` (Filters and ToolCalls fold over words, lines and schemas, and an agent's
  set of tools is a fold over the table), `MessagesSurvive` (MessageParts is recursive) and its agent's
  histories, `HistoryIsKept` (AgentMessages selects and folds), and of `ReadAsMeant` the plans of
  Requirements, the members of PluginArchive and the agreement of a configuration with its schema;
- large case analyses over data without concurrency, where a proof would repeat TLC's
  enumeration: `HostMethodsAreRight` (one call of every facade; the batches of an embedding fold
  as well) and the media of `ReadAsMeant`, whose combinations of source, content and suffix the
  run goes through.

## Where the code and what it says differ

Two are kept as runs whose counterexample TLC finds:

- `UnloadTerminates` (`_runtime/host.py:445`). `unload_plugin` takes `session.instance` for
  the metadata; `instantiate` has replaced it by the Star, so a serving plugin is unloaded
  without `terminate`.
- `LateRoutesAreListed` (`_bridge/server.py:145`, `_runtime/host.py:385`). `ListWebApis`
  promises the routes a constructor or `initialize` registers (`dispatch.py:1081`); the
  servicer reads a copy that was made before.

The rest are stated in the modules (those under *what the code does not do*, and properties
that hold only for the orderly). TLC finds each one violated when it is put into a
configuration, in the instance of the run, or of the `subject`, named. They restrict what the
runs above may claim, and are the reason for the regimes.

| property | instance | what the code does |
|---|---|---|
| `ServesOwnStar`, `CollectedBeforeStar` | shared_orderly without `settled` | `instantiate` looks the plugin up by id (`_runtime/host.py:411`): unload and reload during an instantiation publish the old Star in the new servicer, and build it before the new Register; `generation` (`registry.py:92`) is never compared |
| `NoStrayStar` | shared_orderly | `run_coro` says it cancels what outlives its timeout, so that nothing runs away with the loop (`_bridge/loop.py:41`); a constructor is synchronous code and runs on (`loader.py:356`): its Star may come to be after the plugin is in ERROR, with the handlers and tasks it started, and nobody has it to terminate |
| `AnsweredBeforeStar` | shared_orderly | instantiation is said to follow the return of Register (`_runtime/host.py:118`); `on_registered` spawns its thread before the response is sent (`:295`, as the comment at `_bridge/host.py:124` knows) |
| `UnloadedIsFinal` | shared_any_host | `_record_failure` tests the lifecycle and writes ERROR later (`dispatcher.py:99`) |
| `ActiveMeansServing` | shared_orderly | `load_plugin` sets ACTIVE before Register (`_runtime/host.py:389`), although `states.py:84` maps REGISTERING to LOADING |
| `CountedWithinWindow` | watchdog | the clock is read before the lock (`watchdog.py:100`): an old event hides behind a younger one |
| `HealthIsLatestVerdict` | watchdog | the verdict is written after the lock is released (`dispatcher.py:110`), out of order |
| `Reachable`, `NoStaleEntry` | session, disorderly session | a second wait overwrites the entry of the first, and `_cleanup` pops by id (`session_waiter.py:209`); a caller cancelled before the `try` (`:194`) leaves its entry |
| `OneTriggerPerSession` | session | the lock is a waiter's, not a session's (`:155`) |
| `KeptMeansKept` | session | a timer that fired but has not run times out the session just kept (`:104`) |
| `TimeoutSetInHandler` | session | a message for an older wait reaches a waiter before its first `keep` (`:84`) |
| `DeletedIsGone` | cron, not orderly | `update_job` writes back the record of a job deleted while it awaited (`cron_manager.py:665`) |
| `RefusedOnlyIfUnknown` | cron with two managers | the module variable is the last Context's manager (`:367`) |
| `RunNowRuns`, `ListFallsBack` | cron | the bridge catches the error, and `_host_call` takes False or [] for an answer (`:771`, `:707`) |
| `UpdateTakesHandler` | cron | `update_job` returns before it stores the handler when the host took the rest (`:667`) |
| `HostJobsLeftToHost` | cron | the fallback schedules a job the host also has on its list (`:681`) |
| `FlagIsRight`, `OneRunner` | process (scheduler), not careful | `start` and `shutdown` do not take the lock (`:273`, `:274`) |
| `DialledIsOpen` | channel | `close` pops and closes a channel `dial` has just returned (`broker.py:83`) |
| `FlagMeansReady` without `orderly` | channel | a probe of the previous channel sets the flag of the new one (`_bridge/host.py:83`) |
| `StubPresent` | channel | `_stub` may vanish after `ensure_connected` and has to be read under the lock (comment at `_bridge/host.py:133`); only `get_config` does that (`:172`) |
| `Reaches` | promises with a restart | once probed, a channel is never doubted: calls do not dial the new address (`_bridge/host.py:99`) |
| `ToldBeforeStar` | process, orderly | the Star is said to follow the completed Register (`loader.py:321`, `dispatch.py:484`); `mark_registered` releases `main` before the response is returned, as the comment at `_bridge/host.py:124` knows |
| `FailedIsNotTold` | answers | only what was sent is to be marked, so that the host replies when a send failed (`astr_message_event.py:432`); the event that `from_proto` makes for aiocqhttp (`:681`) marks first (`aiocqhttp_message_event.py:191`) and then raises, or returns without sending |
| `SentIsTold` | answers | the mark of a handler that raised after it sent, of a filter and of a hook is lost (`astr_message_event.py:432`) |
| `HookStopIsTold` | answers | a stopped event is told for commands only (`active_event_registry.py:8`); the SDK registers no event with that registry itself |
| `BadArgumentsAnswered` | filters | a parameter without annotation and default raises TypeError, where `HandleCommand` catches ValueError |
| `AddedIsThere` | tools | `add_func` evaluates the list before it builds the tool: a removal in between loses the tool |
| `SessionIsHeld` | mcp | a reconnect that fails leaves the closed session of the connection before |
| `RetryCures` | builtin | after a failed import the classes of that run stand in the way of the next; and `ensure_builtin_tools_loaded` of the manager awaits a plain function (`func_tool_manager.py:510`) |
| `HandlerComesFirst` | tool runs | `add_llm_tools` takes a tool's `run` or `call` before its `handler` (`tool.py:99` says the opposite) |
| `AdminMayCall` | tool runs | the guard gives the filter a `ContextWrapper` for an event: an admin is refused too (`func_tool_manager.py:463`) |
| `ResultsAreTold` | tool runs | a result of another kind, or an error without words, is an empty answer |
| `TextIsKept`, `DescriptionsStay` | schemas | a line that goes on with a parameter without a type is dropped; Google's schema drops the text of a parameter that may be null |
| `TupleSetsStatus` | replies | of `(Response, status)` the response's own status wins (`dispatch.py:1243`) |
| `GeneratorsAreTold`, `DataIsKept` | replies | a generator is sent as its `repr`; `jsonify` takes a list whose second item is a number for a tuple with a status, and puts any other into a list; `make_response` drops what is neither a dict nor a text |
| `RetrieveDegrades` | methods | a failed check of names makes every knowledge base unknown and `retrieve` raise (`kb_mgr.py:226`, `:234`) |
| `OldHostIsAsked` | methods | the bridge has caught the error that would make `list_skills` ask the older RPC (`skill_manager.py:431`) |
| `ProgressIsBounded` | embeddings | a callback that raises has its batch embedded and counted again |
| `NothingRunsOn` | embeddings | `gather` raises at the first failure; the other batches go on |
| `OnePerText` | embeddings | no retries end in a KeyError; the base class gives no vectors |
| `OwnProviderIsAsked`, `HistoryIsSent` | chats | `text_chat` and `test` do not name their provider (`provider.py:307`), the host's default answers; with a prompt the stream sends no contexts |
| `BytesArrive`, `EventIsRead`, `WritingIsPure` | parts | only an image's bytes are read from proto (`serialize.py:254`); a node with content raises and takes the event with it (`astr_message_event.py:536`); writing a file changes with what is on the disk (`serialize.py:148`) |
| `HistorySurvivesAll`, `SavesSucceed`, `LoadsSucceed` | agent | a history that was popped from, or not bound, is stored without its beginning; an unknown part can be neither dumped nor bound; nothing sets `_no_save` |
| `PersistedComesBack` | preferences | keys are stored as strings and read as triples: with an entry in the file the first operation after a restart raises (`shared_preferences.py:139`) |
| `IdsAreUnique` | history | the first insert takes its id before the file is read (`message_history_manager.py:233`) |
| `FailureFallsBack` | conversations | on a failure the cached id is to be the answer (`conversation_mgr.py:213`); the bridge answers `""` when its RPC fails (`_bridge/host.py:476`), which is taken for none, and the cached id is dropped |
| `NeverStale` | conversations | when the bridge raises the cached id is the answer, though the host may have switched long before |
| `DeletesTheCurrent` | conversations | without an id the cached conversation is deleted, from which the host may have switched (`conversation_mgr.py:176`) |
| `CallbacksAfterDeletion` | conversations | when each conversation was tried the callbacks are told, although the host may have refused or failed |
| `HintIsUsed` | skills | a file beside the only directory, and the hint is ignored (`skill_manager.py:721`) |
| `NothingIsLost` (SkillFiles) | skills | the old directory is removed before the new one is moved (`:873`) |
| `NothingInstalledInPart`, `InstalledIsThere` without their regimes | skills, `SerialInstalls` FALSE, or two directories that normalise to one name | the second finds, or removes, the first |
| `SentAsSaved` | config | the snapshot is `dict(self)`, which shares its tables with the object (`astrbot_config.py:387`), and is made JSON later, in a worker thread (`_bridge/host.py:175`, `:441`): the host gets what was set after the call, or half of it |
| `OneObject`, `NothingIsWiped`, `LastSaveWins` | config, the last with `Awaited` FALSE | two `get_config` at once make two objects; one that failed gives an empty one that a save sends whole; saves overtake one another |
| `RestoredAtStart` | profiles | `initialize` is to restore the mapping from the preferences (`astrbot_config_mgr.py:80`); those with an entry in their file raise from the next start on (`PersistedComesBack`), which is swallowed (`:95`): the mapping is empty, and later ones are swallowed too (`:106`) |
| `ResolvesWhateverIsCancelled`, `ObjectsAreMapped` | profiles | a caller cancelled where the mapping is awaited (`:242`) gives the lock back: its write may come after the next one's, or its object has no entry |
| `NoOrphans` | profiles | a death between the file and the mapping leaves the file |
| `KeptIsUsed`, `RefusedIsNotMade` | providers | a look-up answered before a switch is kept after it (`manager.py:301`); a switch whose answer was lost raises and tells nobody |
| `MethodIsToldOnce` | providers | a hook that is the callback is passed over with `is` (`manager.py:338`), registration knows equal ones for one (`:318`): a bound method given to both is told twice |
| `OneWsPoll` | platforms, registering not in turn | `_ws_poll_started` is looked at and set without a lock (`context.py:200`): two threads start two polls, and each calls every callback |
| `WsIsTold`, `ListIsFetched` | platforms | what is registered after the poll took its list is not called; a failed first fetch is final |
| `FileIsTheLog`, `NeverTorn` | config fallback | the lock is a thread's, the fallback writes in place and in another format than `load_config` reads |
| `DefaultsStay` | config check | a missing table becomes the schema's own object: editing the configuration edits the defaults |
| `OthersFilesStay` | media | any file in the temporary directory counts as the call's own (`media_utils.py:447`) |
| `CutOffIsRaised` | media | `download_file` is to raise errors of the connection (`io.py:128`); a body that ends before its announced length is no error to `read` (`:106`), and half a file is returned as the file |
| `CompressNeverRaises` | media | `compress_image` is to return the source when it fails (`media_utils.py:1271`); what Pillow cannot open or save raises through it (`:1320`) |
| `LoadedOnce` | deps | the finder imports the module it has installed and hands on that module's own spec: the interpreter runs its body a second time (`deps_resolver.py`, in `find_spec`) |
| `FailuresAreMissing` | deps | `find_spec` is to return None and `ensure_import_module` False on any failure (`deps_resolver.py:192`, `:247`); a lock file that cannot be opened (`:138`) raises through both, no optional import catches that, and the package counts as tried |
| `WaitsForOthers` | deps, with an imported module that imports a missing one | the lock is not reentrant, the thread waits for itself until the timeout |
| `NoLineLeftOut` | requirements | lines with a URL, a path or `-r` are in no plan |
| `NoPlanWithoutPackaging` | requirements | without `packaging` there is to be no plan (`requirements_utils.py:115`); one is made that looks at no version |
| `DirectoriesDoNotMatter` | archive | a member that only names a directory changes the root |
| `OthersPathsStay`, `PathComesBackAlways` | import | the loader puts the saved `sys.path` back (`loader.py:92`), where `:85` says that it removes what it added; loads that overlap leave one another's paths |
| `PartsAreItsOwn` | import | what `main.py` imports relatively is to be found by the package's `__path__` (`loader.py:240`); it is looked for in `sys.modules` first, where the submodules of an earlier plugin with the same module name stay: one load after the other, the second plugin runs the first one's |
| `EveryoneRunsItsOwn` | import | a plugin without a `main.py` runs what is in `sys.modules` or on the path under its name, be it another plugin's |
| `LoadsAgain` | import | a module that is cached registers no Star in the new session |

What was met on the way and has no statement of its own: `HandleHook` does not look at
`event.stop_event()`; `HandleTool` uses a tool that was removed after `Register` copied it;
`stop(5)` grants a grace the halted loop makes void (`server.py:201`), and a second `Register`
shuts the gate of a running plugin; routes with `<int:id>` or a repeated name never match;
`register_bridge_hook` reads `bridge.plugin_name`, which nobody sets; `Context.send_message`
returns True when the bridge said False (`context.py:694`); several managers of message
histories overwrite each other's file; `list_platforms` and three methods like it parse JSON
outside their `try`; unpadded base64 is written to the file as text; an archive's metadata
file has no size limit, a directory's has; a missing import holds all others for up to 300 s;
a plugin that is loaded again after its files changed runs its old submodules.

## Not modelled

- A request without `plugin_id`, which the dispatcher sends to the only servicer without a
  context and without `on_registered` (`dispatcher.py:107`), and registration outside every
  session, which goes to module globals.
- The window of `get_broker` in which two threads make two brokers (`broker.py:93`), and a
  channel closed under an RPC that is in flight.
- The payload of RPCs beyond the kinds the modules distinguish: wording, formats, pictures,
  durations, the prompt made of skills or personas, regular expressions.
- `run_job_now`'s await of the handler, the status field of cron records, the `join` in
  `shutdown`, the computation of the next run from a cron expression.
- A save of the message history that raises after the cache has changed, and a history file
  that cannot be read, which counts as an empty one (`message_history_manager.py:154`, `:179`).
- The watchdog's heartbeat timestamps and `snapshot()`; the handshake line, the port and the
  gRPC server of either process.
- The generated stubs (the host's interface), sub-agents, platform base classes and the
  database shell (record types, or one RPC each), conversion of text and HTML, the stand-ins
  for third-party packages, and re-exports.

## Plan

Done: the runtime (SharedRuntime, Watchdog, PluginServer with PluginLifecycle and its
refinement, SessionWaiter, CronJobs, MinimalScheduler, HostChannel), the host's calls
(HandlerCalls, HandlerAnswers, Filters, the tools, WebRoutes), calls to the host, what a plugin
keeps, and how it is installed and loaded; the proofs above.

Left, in this order:

1. SharedRuntime, for one orderly plugin, as another implementation of PluginLifecycle.
2. RuntimeHealth: SharedRuntime's failures composed with Watchdog: an unloaded and reloaded
   plugin inherits the window of its predecessor (`clear` is not called).
3. MessageHistory with saves that fail: what a restart then loses is what its caller was told.
4. Proofs of the parts of `ReadAsMeant`, `HostMethodsAreRight` and `FormsAgree` that fold over
   nothing: that media calls leave no file behind (MediaFiles), that a change that returned was
   made (HostMethods), and that the table of tools is what one thread made of it
   (`SerialTableRight`).
