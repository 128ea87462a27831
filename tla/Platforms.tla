----------------------------- MODULE Platforms ------------------------------
(***************************************************************************)
(* The platforms a plugin sees (core/star/context.py): the list of         *)
(* _PlatformManagerStub, fetched once, and _PlatformBotProxy, which polls  *)
(* the host for the bot's id and then calls what on_websocket_connection   *)
(* was given.  Plugin code runs in several threads, the poll on the loop.  *)
(***************************************************************************)
EXTENDS Naturals, Sequences, FiniteSets, SequencesExt

CONSTANTS
  Askers,         \* threads of the plugin
  MaxRegistered,  \* bound on the calls of on_websocket_connection
  MaxTries        \* a poll asks at most so often, 120 times in the code

ASSUME PlatformsAssumption == MaxRegistered \in Nat

VARIABLES
  refreshed,   \* _refreshed
  insts,       \* _platform_insts: "empty", or "listed"
  fetching,    \* by thread: where its _refresh is
  hostUp,      \* the host answers
  inTurn,      \* the plugin registers one callback after the other
  wsCallbacks, \* how many there are in _ws_callbacks, which has no test for equal ones
  registering, \* by thread: where its on_websocket_connection is
  pollStarted, \* _ws_poll_started
  poll,        \* by thread: the poll it has started: "none", "asking", "telling" or "over"
  pollTries,
  telling,     \* by poll: the next callback to call, and the last one
  wsTold       \* by poll and callback: how often it was called

platformVars ==
  <<refreshed, insts, fetching, hostUp, inTurn, wsCallbacks, registering, pollStarted, poll, pollTries, telling, wsTold>>
listVars == <<refreshed, insts, fetching>>
wsVars   == <<inTurn, wsCallbacks, registering, pollStarted, poll, pollTries, telling, wsTold>>

PlatformsInit ==
  /\ refreshed = FALSE /\ insts = "empty" /\ fetching = [a \in Askers |-> "idle"]
  /\ hostUp \in BOOLEAN /\ inTurn \in BOOLEAN
  /\ wsCallbacks = 0 /\ registering = [a \in Askers |-> "idle"]
  /\ pollStarted = FALSE /\ poll = [a \in Askers |-> "none"] /\ pollTries = [a \in Askers |-> 0]
  /\ telling = [a \in Askers |-> [next |-> 1, last |-> 0]]
  /\ wsTold = [a \in Askers |-> [i \in 1..MaxRegistered |-> 0]]

\* _refresh: the flag first, then the bridge.
Refresh(a) ==
  /\ fetching[a] = "idle"
  /\ IF refreshed THEN fetching' = [fetching EXCEPT ![a] = "answered"]
     ELSE fetching' = [fetching EXCEPT ![a] = "fetching"]
  /\ refreshed' = TRUE
  /\ UNCHANGED <<insts, hostUp, wsVars>>

\* list_platforms answers, or the host is not there and the list stays.
PlatformsListed(a) ==
  /\ fetching[a] = "fetching"
  /\ insts' = IF hostUp THEN "listed" ELSE insts
  /\ fetching' = [fetching EXCEPT ![a] = "answered"]
  /\ UNCHANGED <<refreshed, hostUp, wsVars>>

\* get_insts, get_platform: the answer, and the thread may ask again.
GetInsts(a) ==
  /\ fetching[a] = "answered"
  /\ fetching' = [fetching EXCEPT ![a] = "idle"]
  /\ UNCHANGED <<refreshed, insts, hostUp, wsVars>>

HostConnects ==
  /\ ~hostUp /\ hostUp' = TRUE
  /\ UNCHANGED <<listVars, wsVars>>

-----------------------------------------------------------------------------
Registers(a, to) == registering' = [registering EXCEPT ![a] = to]

\* on_websocket_connection
AppendCallback(a) ==
  /\ registering[a] = "idle" /\ (inTurn => \A b \in Askers : registering[b] = "idle")
  /\ wsCallbacks < MaxRegistered /\ wsCallbacks' = wsCallbacks + 1
  /\ Registers(a, "appended")
  /\ UNCHANGED <<listVars, hostUp, inTurn, pollStarted, poll, pollTries, telling, wsTold>>

\* mutant: the flag is not looked at.
StartWsPollAlways(a) ==
  /\ registering[a] = "appended" /\ Registers(a, "starting")
  /\ UNCHANGED <<listVars, hostUp, inTurn, wsCallbacks, pollStarted, poll, pollTries, telling, wsTold>>

\* _start_ws_poll: the flag is looked at, and set, without a lock.
StartWsPoll(a) ==
  /\ registering[a] = "appended" /\ Registers(a, IF pollStarted THEN "idle" ELSE "starting")
  /\ UNCHANGED <<listVars, hostUp, inTurn, wsCallbacks, pollStarted, poll, pollTries, telling, wsTold>>

\* The poll is given to the loop, if there is one.
PollStarts(a) ==
  /\ registering[a] = "starting" /\ Registers(a, "idle")
  /\ pollStarted' = TRUE /\ \E to \in {"asking", "none"} : poll' = [poll EXCEPT ![a] = to]
  /\ UNCHANGED <<listVars, hostUp, inTurn, wsCallbacks, pollTries, telling, wsTold>>

\* The bot's id is there: the callbacks of this moment are called in turn.
PollAnswered(a) ==
  /\ poll[a] = "asking" /\ hostUp
  /\ poll' = [poll EXCEPT ![a] = "telling"] /\ telling' = [telling EXCEPT ![a].last = wsCallbacks]
  /\ UNCHANGED <<listVars, hostUp, inTurn, wsCallbacks, registering, pollStarted, pollTries, wsTold>>

\* No id: again in a second, unless this was the last try.
PollFails(a) ==
  /\ poll[a] = "asking"
  /\ pollTries' = [pollTries EXCEPT ![a] = @ + 1]
  /\ poll' = [poll EXCEPT ![a] = IF pollTries[a] + 1 = MaxTries THEN "over" ELSE "asking"]
  /\ UNCHANGED <<listVars, hostUp, inTurn, wsCallbacks, registering, pollStarted, telling, wsTold>>

\* A callback returns, or raises and is logged; at its awaits plugins register.
TellNext(a) ==
  /\ poll[a] = "telling" /\ telling[a].next <= telling[a].last
  /\ wsTold' = [wsTold EXCEPT ![a][telling[a].next] = @ + 1]
  /\ telling' = [telling EXCEPT ![a].next = @ + 1]
  /\ UNCHANGED <<listVars, hostUp, inTurn, wsCallbacks, registering, pollStarted, poll, pollTries>>

PollEnds(a) ==
  /\ poll[a] = "telling" /\ telling[a].next > telling[a].last
  /\ poll' = [poll EXCEPT ![a] = "over"]
  /\ UNCHANGED <<listVars, hostUp, inTurn, wsCallbacks, registering, pollStarted, pollTries, telling, wsTold>>

Register(a) == AppendCallback(a) \/ StartWsPoll(a) \/ PollStarts(a)
Poll(a) == PollAnswered(a) \/ PollFails(a) \/ TellNext(a) \/ PollEnds(a)

PlatformsNext ==
  \/ \E a \in Askers : Refresh(a) \/ PlatformsListed(a) \/ GetInsts(a) \/ Register(a) \/ Poll(a)
  \/ HostConnects

PlatformsSpec == PlatformsInit /\ [][PlatformsNext]_platformVars

-----------------------------------------------------------------------------
(* For a plugin that registers its callbacks one after another there is one *)
(* poll, however many they are; for any plugin a poll calls each callback   *)
(* that was registered when the bot's id came at most once, and no other.   *)
WsToldOnce ==
  /\ inTurn => \A a, b \in Askers : poll[a] # "none" /\ poll[b] # "none" => a = b
  /\ \A a \in Askers, i \in 1..MaxRegistered : wsTold[a][i] <= IF i <= wsCallbacks THEN 1 ELSE 0

-----------------------------------------------------------------------------
(* What the repository says and the code does not do                        *)

(* _ws_poll_started (context.py:180) is there so that one poll is started.  *)
(* Two threads that register at a time both see it unset, and every         *)
(* callback is called by both polls.                                        *)
OneWsPoll ==
  \A a, b \in Askers, i \in 1..MaxRegistered : a # b => wsTold[a][i] + wsTold[b][i] <= 1

(* The docstring of on_websocket_connection: what is registered is called   *)
(* when the bot's id is there.  What is registered after the poll has taken *)
(* its list, or after the last try, is not.                                 *)
WsIsTold ==
  hostUp /\ (\E a \in Askers : poll[a] = "over") /\ (\A a \in Askers : registering[a] = "idle") =>
    \A i \in 1..wsCallbacks : \E a \in Askers : wsTold[a][i] = 1

(* The docstring of get_insts: the list is fetched when it is first needed. *)
(* A fetch that fails is never repeated, and who asks during the first gets *)
(* the empty list.                                                          *)
ListIsFetched == \A a \in Askers : hostUp /\ fetching[a] = "answered" => insts = "listed"
=============================================================================
