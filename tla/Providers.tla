----------------------------- MODULE Providers ------------------------------
(***************************************************************************)
(* ProviderManager (core/provider/manager.py): which provider a session    *)
(* uses is the host's; the manager keeps the last answer for each          *)
(* capability, switches providers by two RPCs, and tells the plugin's      *)
(* callbacks of every switch.  Calls are coroutines of one loop and give   *)
(* way at their RPCs.                                                      *)
(***************************************************************************)
EXTENDS Naturals, Sequences, FiniteSets, SequencesExt

CONSTANTS
  Switches,       \* calls of set_provider
  Lookups,        \* calls of get_using_provider_async
  ProviderIds,
  Umos,           \* sessions, "" for the default among them
  Hooks,          \* what a plugin registers: functions and bound methods
  BoundMethods,   \* those that are a new object each time they are named, equal to the others
  Raising         \* the hooks that raise

Capabilities == {"chat_completion", "embedding"}
Switchable   == {"chat_completion"}    \* and the two of speech, which are like it
None         == "none"

\* An object that is registered: what it calls, and whether it is the first of its kind, which
\* is in the list, or another one that is equal to it.
Objects    == {o \in Hooks \X {1, 2} : o[2] = 1 \/ o[1] \in BoundMethods}
NoCallback == <<None, 0>>

ASSUME ProvidersAssumption ==
  Switches \intersect Lookups = {} /\ None \notin Hooks /\ ProviderIds # {}

VARIABLES
  using,       \* the host's provider of a session and capability
  curr,        \* curr_*_provider_inst
  callback,    \* _provider_change_callback
  hooks,       \* _provider_change_hooks
  providerCalls,  \* by call: its session, capability, provider, where it is, and whether
               \* the host has switched
  told,        \* by object: how often it was told of a call's switch
  due          \* by call: the objects there were when it told them

providerVars == <<using, curr, callback, hooks, providerCalls, told, due>>

Calls == Switches \union Lookups
CallGoes(c, to) == providerCalls' = [providerCalls EXCEPT ![c].at = to]

ProvidersInit ==
  /\ using = [w \in Umos \X Capabilities |-> CHOOSE p \in ProviderIds : TRUE]
  /\ curr = [k \in Switchable |-> None]
  /\ callback = NoCallback /\ hooks = <<>>
  /\ \E umo \in [Calls -> Umos], cap \in [Calls -> Capabilities],
        prov \in [Calls -> ProviderIds \union {"deleted"}] :
       providerCalls = [c \in Calls |-> [at |-> "new", umo |-> umo[c], cap |-> cap[c],
                                 prov |-> IF c \in Switches THEN prov[c] ELSE None,
                                 made |-> FALSE]]
  /\ told = [o \in Objects |-> [c \in Switches |-> 0]]
  /\ due = [c \in Switches |-> {}]

SetProviderChangeCallback(o) ==
  /\ callback' = o
  /\ UNCHANGED <<using, curr, hooks, providerCalls, told, due>>

\* Of equal objects one is registered.
RegisterProviderChangeHook(h) ==
  /\ <<h, 1>> \notin ToSet(hooks)
  /\ hooks' = Append(hooks, <<h, 1>>)
  /\ UNCHANGED <<using, curr, callback, providerCalls, told, due>>

\* get_using_provider_async: the host answers, or the RPC fails and the call
\* returns None at once.
Ask(c) ==
  /\ c \in Lookups /\ providerCalls[c].at = "new"
  /\ \/ providerCalls' = [providerCalls EXCEPT ![c].at = "asked", ![c].prov = using[<<providerCalls[c].umo, providerCalls[c].cap>>]]
     \/ CallGoes(c, "failed")
  /\ UNCHANGED <<using, curr, callback, hooks, told, due>>

\* _cache_curr_provider: a capability without an attribute is not kept.
CacheCurr(cap, p) == curr' = IF cap \in Switchable THEN [curr EXCEPT ![cap] = p] ELSE curr

LookUpAnswered(c) ==
  /\ c \in Lookups /\ providerCalls[c].at = "asked"
  /\ CacheCurr(providerCalls[c].cap, providerCalls[c].prov)
  /\ CallGoes(c, "done")
  /\ UNCHANGED <<using, callback, hooks, told, due>>

\* set_provider: another kind of provider is refused before any RPC, an id the
\* host does not list, or a list that fails, after the first.
ProviderListed(c) ==
  /\ c \in Switches /\ providerCalls[c].at = "new"
  /\ \/ providerCalls[c].cap \in Switchable /\ providerCalls[c].prov \in ProviderIds /\ CallGoes(c, "listed")
     \/ CallGoes(c, "refused")
  /\ UNCHANGED <<using, curr, callback, hooks, told, due>>

\* The second RPC: the host switches and the answer comes, or is lost on its
\* way, or the host does not switch.
HostSwitches(c) ==
  /\ c \in Switches /\ providerCalls[c].at = "listed"
  /\ using' = [using EXCEPT ![<<providerCalls[c].umo, providerCalls[c].cap>>] = providerCalls[c].prov]
  /\ \E to \in {"switched", "unanswered"} :
       providerCalls' = [providerCalls EXCEPT ![c].at = to, ![c].made = TRUE]
  /\ UNCHANGED <<curr, callback, hooks, told, due>>

HostRefuses(c) ==
  /\ c \in Switches /\ providerCalls[c].at = "listed"
  /\ CallGoes(c, "unanswered")
  /\ UNCHANGED <<using, curr, callback, hooks, told, due>>

SetRaises(c) ==
  /\ providerCalls[c].at = "unanswered" /\ CallGoes(c, "refused")
  /\ UNCHANGED <<using, curr, callback, hooks, told, due>>

TellHooks(c, who) ==
  /\ told' = [o \in Objects |-> [told[o] EXCEPT ![c] = IF o \in who THEN @ + 1 ELSE @]]
  /\ due' = [due EXCEPT ![c] = ToSet(hooks) \union ({callback} \ {NoCallback})]

\* mutant: a hook that raises keeps those after it from being told.
NotifyUntilRaised(c) ==
  LET upTo == {i \in DOMAIN hooks : \A j \in 1..(i - 1) : hooks[j][1] \notin Raising}
  IN  TellHooks(c, {hooks[i] : i \in upTo} \union ({callback} \ {NoCallback}))

\* _notify_provider_changed: the callback, then the hooks that are not that very object,
\* each with its exception caught.
Notify(c) == TellHooks(c, ToSet(hooks) \union ({callback} \ {NoCallback}))

\* No await from the answer to the last hook.
Switched(c) ==
  /\ c \in Switches /\ providerCalls[c].at = "switched"
  /\ CacheCurr(providerCalls[c].cap, None)
  /\ Notify(c)
  /\ CallGoes(c, "done")
  /\ UNCHANGED <<using, callback, hooks>>

ProvidersNext ==
  \/ \E o \in Objects \union {NoCallback} : SetProviderChangeCallback(o)
  \/ \E h \in Hooks : RegisterProviderChangeHook(h)
  \/ \E c \in Calls : \/ Ask(c) \/ LookUpAnswered(c) \/ ProviderListed(c) \/ HostSwitches(c) \/ HostRefuses(c)
                      \/ SetRaises(c) \/ Switched(c)

ProvidersSpec == ProvidersInit /\ [][ProvidersNext]_providerVars

-----------------------------------------------------------------------------
(* Whatever object was registered when a switch was made known was told of  *)
(* it once, as callback or as hook or as both, also when one told before    *)
(* raised, and of a switch that was refused none was.                       *)
EachIsToldOnce ==
  \A c \in Switches, o \in Objects :
    told[o][c] = IF providerCalls[c].at = "done" /\ o \in due[c] THEN 1 ELSE 0

-----------------------------------------------------------------------------
(* What the repository says and the code does not do                        *)

(* A hook that is the callback too is passed over (line 338), so that       *)
(* nobody is told twice of one switch.  Registration knows equal methods    *)
(* for one (line 318), this looks for the object: a bound method that was   *)
(* given to both is told twice.                                             *)
MethodIsToldOnce ==
  \A c \in Switches, o, p \in Objects : o # p /\ o[1] = p[1] => told[o][c] + told[p][c] <= 1

(* The comment on line 301: a switch that succeeded invalidates what is     *)
(* kept.  With no call under way, what is kept is what the host uses for    *)
(* some session.  A look-up answered before the switch is kept after it.    *)
KeptIsUsed ==
  (\A c \in Calls : providerCalls[c].at \in {"new", "done", "refused", "failed"}) =>
    \A k \in Switchable : curr[k] = None \/ \E u \in Umos : using[<<u, k>>] = curr[k]

(* The docstring of set_provider: ValueError means that the provider does   *)
(* not exist.  It is also raised for a switch whose answer was lost, of     *)
(* which nobody is told.                                                    *)
RefusedIsNotMade == \A c \in Switches : providerCalls[c].at = "refused" => ~providerCalls[c].made
=============================================================================
