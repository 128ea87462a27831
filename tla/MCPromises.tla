------------------------------ MODULE MCPromises ------------------------------
(* What a caller is promised, in one run: a behaviour is one of the session  *)
(* waiter or one of the channel to the host, fair as its FairSpec is.        *)
EXTENDS Naturals

CONSTANTS Waiters, Feeds, Sessions, Threads, Preconnect, NoOne

VARIABLES
  subject,
  table, state, umo, future, hold, late, line, waitId, wait, feed, message, target, keeps,
  orderly, host, starts, conns, cache, address, open, channel, probed, ready, pc, mine, tries, calls, kind

session == <<table, state, umo, future, hold, late, line, waitId, wait, feed, message, target, keeps>>
bridge  == <<orderly, host, starts, conns, cache, address, open, channel, probed, ready, pc, mine,
             tries, calls, kind>>
vars    == <<subject, session, bridge>>

Session == INSTANCE SessionWaiter WITH Orderly <- {}, MaxKeeps <- 2
Bridge  == INSTANCE HostChannel WITH MaxChannels <- 6, MaxHosts <- 1, Attempts <- 2, MaxCalls <- 2

Init ==
  /\ subject \in {"session", "bridge"}
  /\ Session!Init
  /\ Bridge!ChannelInit /\ (subject = "session" => orderly)

InSession == subject = "session" /\ UNCHANGED <<subject, bridge>>
InBridge  == subject = "bridge" /\ UNCHANGED <<subject, session>>

Next == (InSession /\ Session!Next) \/ (InBridge /\ Bridge!ChannelNext)

\* The fairness of the two, an action at a time.
Fairness ==
  /\ \A w \in Waiters : WF_vars(InSession /\ Session!WaiterStep(w))
  /\ \A f \in Feeds : WF_vars(InSession /\ Session!FeedStep(f))
  /\ \A t \in Threads \cup {Preconnect} : WF_vars(InBridge /\ Bridge!Work(t))

Spec == Init /\ [][Next]_vars /\ Fairness

\* No call waits for ever: a wait for a session's next message and a method of the
\* bridge end, whatever their other side does.
EveryCallEnds == Session!CallsEnd /\ Bridge!CallsEnd

\* Who is owed an answer gets it: the host that feeds a session, and a call of a host
\* that is up.
EveryoneIsServed == Session!FeedsAnswered /\ Bridge!CallsReach
===============================================================================
