----------------------------- MODULE HostChannel -----------------------------
(***************************************************************************)
(* The plugin's way back to the Go host: HostBridge (_bridge/host.py) and  *)
(* the go-plugin broker it dials through (_bridge/broker.py).              *)
(*                                                                         *)
(* The host announces the address of its HostService (ConnInfo); the       *)
(* broker dials it and caches the channel; the bridge keeps the channel    *)
(* and a stub on it, probes a new one once and drops it when the probe     *)
(* fails.  Any thread calls the bridge.  The broker's table and the        *)
(* bridge's fields have a lock each, and a step is one locked section, one *)
(* unlocked read or one call of gRPC.                                      *)
(*                                                                         *)
(* A host is numbered by its start; 0 stands for no address and no host.   *)
(***************************************************************************)
EXTENDS Naturals, FiniteSets

CONSTANTS
  Threads,       \* threads that call methods of the bridge
  Preconnect,    \* the thread that connects in advance
  NoOne,         \* None: no channel
  MaxChannels,   \* bound on the gRPC channels, which are numbered as they are made
  MaxHosts,      \* bound on the starts of the host
  Attempts,      \* PRECONNECT_ATTEMPTS, one at least
  MaxCalls       \* bound on the calls of a thread

ASSUME ChannelAssumption ==
  /\ MaxChannels \in Nat /\ NoOne \notin 1..MaxChannels
  /\ MaxHosts \in Nat \ {0} /\ Attempts \in Nat \ {0} /\ MaxCalls \in Nat

Channels == 1..MaxChannels

Callers == Threads \cup {Preconnect}

VARIABLES
  orderly,       \* do the callers keep to Serial, from the start on
  host,          \* the host that listens, 0 when it is down
  starts,        \* hosts started so far
  conns,         \* GRPCBrokerServicer._conns: the address announced last
  cache,         \* GRPCBrokerServicer._channels
  address,       \* of a channel: the host it was made for
  open,          \* the channels made and not closed
  channel,       \* HostBridge._channel, and the stub on it: set together
  probed,        \* HostBridge._probed
  ready,         \* the channels a probe found READY
  pc,            \* the next step of a thread
  mine,          \* the channel it holds in a local variable
  tries,         \* its attempts to connect
  calls,         \* its calls so far
  kind           \* the kind of method it is in

broker == <<conns, cache>>
bridge == <<channel, probed>>
grpc   == <<address, open, ready>>
local  == <<pc, mine, tries, calls, kind>>
channelVars   == <<orderly, host, starts, broker, grpc, bridge, local>>

Steps == {"idle", "fast", "stub", "probe", "wait", "mark", "drop", "evict", "close",
          "dial", "await", "create", "store", "install", "use", "failed", "crashed"}

\* get_config; the methods that catch RpcError or nothing; those that catch Exception.
Kinds == {"config", "rpc", "quiet"}

-----------------------------------------------------------------------------
ChannelInit ==
  /\ orderly \in BOOLEAN
  /\ host = 1 /\ starts = 1
  /\ conns = 0 /\ cache = NoOne
  /\ address = [c \in Channels |-> 0] /\ open = {} /\ ready = {}
  /\ channel = NoOne /\ probed = FALSE
  /\ pc    = [t \in Callers |-> IF t = Preconnect THEN "dial" ELSE "idle"]
  /\ mine  = [t \in Callers |-> NoOne]
  /\ tries = [t \in Callers |-> 0]
  /\ calls = [t \in Callers |-> 0]
  /\ kind  = [t \in Callers |-> "rpc"]

Step(t, from, to) == pc[t] = from /\ pc' = [pc EXCEPT ![t] = to]

-----------------------------------------------------------------------------
(* the host *)

HostStops ==
  /\ host # 0
  /\ host' = 0
  /\ UNCHANGED <<orderly, starts, broker, grpc, bridge, local>>

\* it comes back at another address.
HostStarts ==
  /\ host = 0 /\ starts < MaxHosts
  /\ starts' = starts + 1
  /\ host' = starts + 1
  /\ UNCHANGED <<orderly, broker, grpc, bridge, local>>

\* StartStream: its ConnInfo reaches the plugin's broker.
Announce ==
  /\ host # 0 /\ conns # host
  /\ conns' = host
  /\ UNCHANGED <<orderly, host, starts, cache, grpc, bridge, local>>

-----------------------------------------------------------------------------
(* ensure_connected *)

\* the callers wait until the connection in advance has ended, and call one at a time.
Serial == orderly => \A u \in Callers : pc[u] \in {"idle", "failed", "crashed"}

Call(t, k) ==
  /\ Serial
  /\ t \in Threads /\ calls[t] < MaxCalls
  /\ pc[t] \in {"idle", "failed", "crashed"}
  /\ pc' = [pc EXCEPT ![t] = "fast"]
  /\ calls' = [calls EXCEPT ![t] = @ + 1]
  /\ tries' = [tries EXCEPT ![t] = 0]
  /\ kind' = [kind EXCEPT ![t] = k]
  /\ UNCHANGED <<orderly, host, starts, broker, grpc, bridge, mine>>

\* a stub that was probed before is taken at once.
FastPath(t) ==
  /\ Step(t, "fast", IF channel # NoOne /\ probed THEN "use" ELSE "stub")
  /\ UNCHANGED <<orderly, host, starts, broker, grpc, bridge, mine, tries, calls, kind>>

\* the stub is read without the lock.
ReadStub(t) ==
  /\ Step(t, "stub", IF channel # NoOne THEN "probe" ELSE "drop")
  /\ UNCHANGED <<orderly, host, starts, broker, grpc, bridge, mine, tries, calls, kind>>

BeginProbe(t) ==
  /\ Step(t, "probe", IF channel # NoOne THEN "wait" ELSE "drop")
  /\ mine' = [mine EXCEPT ![t] = channel]
  /\ UNCHANGED <<orderly, host, starts, broker, grpc, bridge, tries, calls, kind>>

Connected(c) == c \in open /\ address[c] = host

\* channel_ready_future: READY, or two seconds have passed.
ProbeReady(t) ==
  /\ Connected(mine[t])
  /\ Step(t, "wait", "mark")
  /\ ready' = ready \cup {mine[t]}
  /\ UNCHANGED <<orderly, host, starts, broker, address, open, bridge, mine, tries, calls, kind>>

ProbeFails(t) ==
  /\ Step(t, "wait", "drop")
  /\ UNCHANGED <<orderly, host, starts, broker, grpc, bridge, mine, tries, calls, kind>>

\* the flag is set whichever channel is the bridge's by now.
MarkProbed(t) ==
  /\ Step(t, "mark", "use")
  /\ probed' = TRUE
  /\ UNCHANGED <<orderly, host, starts, broker, grpc, channel, mine, tries, calls, kind>>

-----------------------------------------------------------------------------
(* _teardown and broker.close *)

Drop(t) ==
  /\ Step(t, "drop", "evict")
  /\ channel' = NoOne /\ probed' = FALSE
  /\ UNCHANGED <<orderly, host, starts, broker, grpc, mine, tries, calls, kind>>

Evict(t) ==
  /\ Step(t, "evict", IF cache = NoOne THEN "dial" ELSE "close")
  /\ mine' = [mine EXCEPT ![t] = cache]
  /\ cache' = NoOne
  /\ UNCHANGED <<orderly, host, starts, conns, grpc, bridge, tries, calls, kind>>

Close(t) ==
  /\ Step(t, "close", "dial")
  /\ open' = open \ {mine[t]}
  /\ mine' = [mine EXCEPT ![t] = NoOne]
  /\ UNCHANGED <<orderly, host, starts, broker, address, ready, bridge, tries, calls, kind>>

-----------------------------------------------------------------------------
(* connect and broker.dial *)

\* the address is read under the lock, the channel is made outside it.
Take(t, c, next) ==
  /\ Step(t, next, "create")
  /\ conns # 0 /\ c = Cardinality({d \in Channels : address[d] # 0}) + 1
  /\ address' = [address EXCEPT ![c] = conns]
  /\ mine' = [mine EXCEPT ![t] = c]
  /\ UNCHANGED <<orderly, host, starts, broker, open, ready, bridge, tries, calls, kind>>

DialCached(t) ==
  /\ cache # NoOne
  /\ Step(t, "dial", "install")
  /\ mine' = [mine EXCEPT ![t] = cache]
  /\ UNCHANGED <<orderly, host, starts, broker, grpc, bridge, tries, calls, kind>>

DialAnnounced(t, c) == cache = NoOne /\ Take(t, c, "dial")

DialUnannounced(t) ==
  /\ cache = NoOne /\ conns = 0
  /\ Step(t, "dial", "await")
  /\ UNCHANGED <<orderly, host, starts, broker, grpc, bridge, mine, tries, calls, kind>>

\* the cache is not looked at again.
AddressCame(t, c) == Take(t, c, "await")

\* get_config allows ensure_connected one attempt and counts its own.
Retry(t, from, again) ==
  /\ Step(t, from, IF tries[t] + 1 < Attempts THEN again ELSE "failed")
  /\ tries' = [tries EXCEPT ![t] = @ + 1]
  /\ UNCHANGED <<orderly, host, starts, broker, grpc, bridge, mine, calls, kind>>

\* eight seconds without an address.
DialTimesOut(t) ==
  /\ conns = 0
  /\ Retry(t, "await", IF kind[t] = "config" THEN "fast" ELSE "dial")

Create(t) ==
  /\ Step(t, "create", "store")
  /\ open' = open \cup {mine[t]}
  /\ UNCHANGED <<orderly, host, starts, broker, address, ready, bridge, mine, tries, calls, kind>>

\* mutant: the channel is used but not cached.
StoreLeaking(t) ==
  /\ Step(t, "store", "install")
  /\ UNCHANGED <<orderly, host, starts, broker, grpc, bridge, mine, tries, calls, kind>>

\* under the lock again: who comes second closes his own and takes the other.
Store(t) ==
  /\ Step(t, "store", "install")
  /\ \/ /\ cache = NoOne
        /\ cache' = mine[t]
        /\ UNCHANGED <<orderly, open, mine>>
     \/ /\ cache # NoOne
        /\ open' = open \ {mine[t]}
        /\ mine' = [mine EXCEPT ![t] = cache]
        /\ UNCHANGED cache
  /\ UNCHANGED <<orderly, host, starts, conns, address, ready, bridge, tries, calls, kind>>

Install(t) ==
  /\ Step(t, "install", IF t = Preconnect THEN "idle" ELSE "use")
  /\ channel' = mine[t] /\ probed' = FALSE
  /\ mine' = [mine EXCEPT ![t] = NoOne]
  /\ UNCHANGED <<orderly, host, starts, broker, grpc, tries, calls, kind>>

-----------------------------------------------------------------------------
(* the RPC *)

\* self._stub is read without the lock: None has no such method, and gRPC raises
\* a ValueError on a closed channel. Only the quiet methods catch these.
Raised(t) == IF kind[t] = "quiet" THEN "failed" ELSE "crashed"

UseNothing(t) ==
  /\ channel = NoOne /\ kind[t] # "config"
  /\ Step(t, "use", Raised(t))
  /\ UNCHANGED <<orderly, host, starts, broker, grpc, bridge, mine, tries, calls, kind>>

UseClosed(t) ==
  /\ channel # NoOne /\ channel \notin open
  /\ Step(t, "use", Raised(t))
  /\ UNCHANGED <<orderly, host, starts, broker, grpc, bridge, mine, tries, calls, kind>>

UseStub(t) ==
  /\ channel # NoOne /\ channel \in open
  /\ Step(t, "use", IF Connected(channel) THEN "idle" ELSE "failed")
  /\ kind[t] = "config" => Connected(channel)
  /\ UNCHANGED <<orderly, host, starts, broker, grpc, bridge, mine, tries, calls, kind>>

\* get_config finds no stub, or is told UNAVAILABLE.
UseAgain(t) ==
  /\ kind[t] = "config"
  /\ channel = NoOne \/ (channel \in open /\ ~Connected(channel))
  /\ Retry(t, "use", "fast")

-----------------------------------------------------------------------------
Work(t) ==
  \/ FastPath(t) \/ ReadStub(t) \/ BeginProbe(t) \/ ProbeReady(t) \/ ProbeFails(t)
  \/ MarkProbed(t) \/ Drop(t) \/ Evict(t) \/ Close(t)
  \/ DialCached(t) \/ DialUnannounced(t) \/ DialTimesOut(t) \/ Create(t) \/ Store(t)
  \/ (\E c \in Channels : DialAnnounced(t, c) \/ AddressCame(t, c))
  \/ Install(t) \/ UseNothing(t) \/ UseClosed(t) \/ UseStub(t) \/ UseAgain(t)

ChannelNext ==
  \/ HostStops \/ HostStarts \/ Announce
  \/ \E t \in Callers : (\E k \in Kinds : Call(t, k)) \/ Work(t)

ChannelSpec == ChannelInit /\ [][ChannelNext]_channelVars

\* Every step that is begun is finished; the host owes nothing, and need not come back.
ChannelFairness == \A t \in Callers : WF_channelVars(Work(t))

FairChannel == ChannelSpec /\ ChannelFairness

-----------------------------------------------------------------------------
(* properties *)

\* The variables have their types.
ChannelTypeOK ==
  /\ orderly \in BOOLEAN
  /\ host \in 0..MaxHosts /\ starts \in 1..MaxHosts /\ conns \in 0..MaxHosts
  /\ cache \in Channels \cup {NoOne} /\ channel \in Channels \cup {NoOne}
  /\ address \in [Channels -> 0..MaxHosts]
  /\ open \subseteq Channels /\ ready \subseteq Channels
  /\ probed \in BOOLEAN
  /\ pc \in [Callers -> Steps]
  /\ mine \in [Callers -> Channels \cup {NoOne}]
  /\ tries \in [Callers -> 0..Attempts]
  /\ calls \in [Callers -> 0..MaxCalls]
  /\ kind \in [Callers -> Kinds]

\* No channel leaks, whatever the threads do (broker.py: the cache is there against
\* the leak of descriptors): one that is open is the cached one, or a thread is
\* between making it and storing it, or between evicting it and closing it.
NoLeak ==
  open \subseteq {cache} \cup {mine[t] : t \in {u \in Callers : pc[u] \in {"store", "close"}}}

\* dial never finds a closed channel in the table: eviction comes before close, and
\* of two threads that dial at once the later closes his own.
CachedIsOpen == cache = NoOne \/ cache \in open

\* A channel that dial returned is open when connect installs it ("otherwise dial may
\* have just hit the cache and returned a channel which is popped and closed here":
\* the comment of broker.close says that the lock prevents this).
DialledIsOpen == \A t \in Callers : pc[t] = "install" => mine[t] \in open

\* The flag is about the channel the bridge has: that one was found READY
\* ("a new connection has not been probed").
FlagMeansReady == orderly /\ probed => channel \in ready

\* When a method is past ensure_connected there is a stub to call
\* (every method but get_config reads self._stub without looking).
StubPresent == \A t \in Threads : pc[t] = "use" /\ kind[t] # "config" => channel # NoOne

\* No call ends in an exception its method does not handle.
NeverCrashes == orderly => \A t \in Callers : pc[t] # "crashed"

\* No channel leaks, the cached one is open, the flag means that the channel was found
\* ready, and no call of an orderly caller raises what it does not handle
\* (host.py, broker.py).
ChannelIsRight == NoLeak /\ CachedIsOpen /\ FlagMeansReady /\ NeverCrashes

\* Every call of the bridge ends, with a result or a failure, whether or not the
\* host ever announces itself: each attempt waits at most the timeout, and they are counted.
CallsEnd == \A t \in Callers : pc[t] = "fast" ~> pc[t] \in {"idle", "failed", "crashed"}

\* A call made while the host is up at the address it announced, and stays so,
\* reaches it (ensure_connected: "if it is not connected, dial").
CallsReach == \A t \in Threads :
  (orderly /\ pc[t] = "fast" /\ [](host # 0 /\ conns = host)) ~> pc[t] = "idle"
=============================================================================
