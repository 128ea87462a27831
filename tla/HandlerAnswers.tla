---------------------------- MODULE HandlerAnswers ----------------------------
(***************************************************************************)
(* What the host is told of a handler's work: HandleCommand, HandleFilter, *)
(* HandleHook, HandleLLMRequest and HandleTool (_bridge/dispatch.py), the  *)
(* event a handler works on (core/platform/astr_message_event.py) and the  *)
(* active event registry, by which one handler stops another's event.      *)
(*                                                                         *)
(* An RPC makes an event and runs one handler on it.  The handler sends,   *)
(* sets and clears the event's result, stops the event and those of its    *)
(* session, yields results, and ends by itself, by an exception or by the  *)
(* 60 seconds' time-out.  Whatever is left of that in the event and in     *)
(* what it yielded is all the answer is made of.                           *)
(***************************************************************************)
EXTENDS Naturals, Sequences, FiniteSets

CONSTANTS
  Events,      \* the event of an RPC
  Sessions,    \* unified_msg_origin
  MaxActs      \* bound on what handlers do, all together

Kinds == {"command", "filter", "hook", "decorating", "llm", "tool", "bridge"}

VARIABLES
  rpc,         \* of an event: which RPC, whether of the aiocqhttp platform, where it is
  origin,      \* of an event: its session
  forced,      \* _force_stopped
  result,      \* _result
  marked,      \* _has_send_oper
  delivered,   \* the platform has got a message
  streamed,    \* the handler used send_streaming
  yielded,     \* what the handler has yielded or returned
  verdict,     \* the last bool among it
  request,     \* ProviderRequest.stop
  active,      \* _events: the events of a session
  callbacks,   \* _agent_stop_callbacks
  renamed,     \* events whose origin was set after the RPC began
  answer,      \* the response
  acts         \* handler steps so far

event    == <<forced, result, marked, delivered, streamed>>
handler  == <<yielded, verdict, request>>
registry == <<active, callbacks, origin, renamed>>
hvars    == <<rpc, event, handler, registry, answer, acts>>

\* A MessageEventResult is its type and whether its chain has components.
NoResult == [type |-> "none", chain |-> FALSE]
Results  == [type : {"CONTINUE", "STOP"}, chain : BOOLEAN]
Answers  == [sent : BOOLEAN, stop : BOOLEAN, allow : BOOLEAN, chain : BOOLEAN, how : {"none", "skipped", "ran", "failed"}]

Ended(how, sent) == [sent |-> sent, stop |-> FALSE, allow |-> TRUE, chain |-> FALSE, how |-> how]
Blank == Ended("none", FALSE)

AnswersInit ==
  /\ rpc \in [Events -> [kind : Kinds, onebot : BOOLEAN, at : {"arriving"}]]
  /\ origin \in [Events -> Sessions]
  /\ forced = [e \in Events |-> FALSE] /\ result = [e \in Events |-> NoResult]
  /\ marked = [e \in Events |-> FALSE] /\ delivered = [e \in Events |-> FALSE]
  /\ streamed = [e \in Events |-> FALSE]
  /\ yielded = [e \in Events |-> {}] /\ verdict = [e \in Events |-> TRUE]
  /\ request = [e \in Events |-> FALSE]
  /\ active = [s \in Sessions |-> {}] /\ callbacks = {} /\ renamed = {}
  /\ answer = [e \in Events |-> Blank]
  /\ acts = 0

Running(e) == rpc[e].at = "running"
Goto(e, to) == rpc' = [rpc EXCEPT ![e] = [kind |-> rpc[e].kind, onebot |-> rpc[e].onebot, at |-> to]]

\* from_proto, and for a result hook the chain of the request is set beforehand.
Receive(e) ==
  /\ rpc[e].at = "arriving"
  /\ Goto(e, "running")
  /\ IF rpc[e].kind = "decorating"
     THEN \E full \in BOOLEAN :
            result' = [result EXCEPT ![e] = [type |-> "CONTINUE", chain |-> full]]
     ELSE UNCHANGED result
  /\ UNCHANGED <<forced, marked, delivered, streamed, handler, registry, answer, acts>>

-----------------------------------------------------------------------------
(* The handler                                                              *)

Act(e) == Running(e) /\ acts < MaxActs /\ acts' = acts + 1 /\ UNCHANGED rpc

\* mutant: every send sets the mark first, as that of an aiocqhttp event does.
SendMarking(e) ==
  /\ Act(e)
  /\ \E got \in BOOLEAN, ok \in BOOLEAN :
       /\ ok => got
       /\ delivered' = [delivered EXCEPT ![e] = @ \/ got]
       /\ marked' = [marked EXCEPT ![e] = TRUE]
  /\ UNCHANGED <<forced, result, streamed, handler, registry, answer>>

\* The message may reach the platform and the reply get lost.  Only a reply marks; but an
\* event of aiocqhttp has a send of its own, which marks first and may then raise.
Send(e) ==
  /\ Act(e)
  /\ \E got \in BOOLEAN, ok \in BOOLEAN :
       /\ ok => got
       /\ delivered' = [delivered EXCEPT ![e] = @ \/ got]
       /\ marked' = [marked EXCEPT ![e] = @ \/ ok \/ rpc[e].onebot]
  /\ UNCHANGED <<forced, result, streamed, handler, registry, answer>>

\* Marks before anything is sent, but for aiocqhttp; what it sends are Sends.
SendStreaming(e) ==
  /\ Act(e)
  /\ marked' = [marked EXCEPT ![e] = @ \/ ~rpc[e].onebot]
  /\ streamed' = [streamed EXCEPT ![e] = TRUE]
  /\ UNCHANGED <<forced, result, delivered, handler, registry, answer>>

SetResult(e) ==
  /\ Act(e)
  /\ \E r \in Results : result' = [result EXCEPT ![e] = r]
  /\ UNCHANGED <<forced, marked, delivered, streamed, handler, registry, answer>>

ClearResult(e) ==
  /\ Act(e)
  /\ result' = [result EXCEPT ![e] = NoResult]
  /\ UNCHANGED <<forced, marked, delivered, streamed, handler, registry, answer>>

\* A result is made if there is none.
Typed(r, t) == [type |-> t, chain |-> r.chain]

StopEvents(S) ==
  /\ forced' = [e \in Events |-> forced[e] \/ e \in S]
  /\ result' = [e \in Events |-> IF e \in S THEN Typed(result[e], "STOP") ELSE result[e]]

StopEvent(e) ==
  /\ Act(e)
  /\ StopEvents({e})
  /\ UNCHANGED <<marked, delivered, streamed, handler, registry, answer>>

ContinueEvent(e) ==
  /\ Act(e)
  /\ forced' = [forced EXCEPT ![e] = FALSE]
  /\ result' = [result EXCEPT ![e] = Typed(@, "CONTINUE")]
  /\ UNCHANGED <<marked, delivered, streamed, handler, registry, answer>>

\* A result object of its own, a bool, or a ProviderRequest with or without stop.
Yield(e) ==
  /\ Act(e)
  /\ \/ \E r \in Results : yielded' = [yielded EXCEPT ![e] = @ \cup {r}] /\ UNCHANGED <<verdict, request>>
     \/ \E b \in BOOLEAN : verdict' = [verdict EXCEPT ![e] = b] /\ UNCHANGED <<yielded, request>>
     \/ \E b \in BOOLEAN : request' = [request EXCEPT ![e] = b] /\ UNCHANGED <<yielded, verdict>>
  /\ UNCHANGED <<event, registry, answer>>

-----------------------------------------------------------------------------
(* The active event registry, used by handlers                              *)

RegisterActive(e) ==
  /\ Act(e)
  /\ active' = [active EXCEPT ![origin[e]] = @ \cup {e}]
  /\ UNCHANGED <<event, handler, callbacks, origin, renamed, answer>>

RegisterCallback(e) ==
  /\ Act(e)
  /\ callbacks' = callbacks \cup {e}
  /\ UNCHANGED <<event, handler, active, origin, renamed, answer>>

\* unregister: of the session the event is in now.
Forget(e) ==
  /\ active' = [active EXCEPT ![origin[e]] = @ \ {e}]
  /\ callbacks' = callbacks \ {e}

UnregisterActive(e) ==
  /\ Act(e) /\ Forget(e)
  /\ UNCHANGED <<event, handler, origin, renamed, answer>>

StopAll(e) ==
  /\ Act(e)
  /\ StopEvents(active[origin[e]] \ {e})
  /\ UNCHANGED <<marked, delivered, streamed, handler, registry, answer>>

Rename(e) ==
  /\ Act(e)
  /\ \E s \in Sessions \ {origin[e]} : origin' = [origin EXCEPT ![e] = s]
  /\ renamed' = renamed \cup {e}
  /\ UNCHANGED <<event, handler, active, callbacks, answer>>

-----------------------------------------------------------------------------
(* The answers                                                              *)

IsStopped(e) == forced[e] \/ result[e].type = "STOP"

YieldsStop(e)  == \E r \in yielded[e] : r.type = "STOP"
YieldsChain(e) == \E r \in yielded[e] : r.chain

Ran(e, stop, allow, chain) ==
  [sent |-> marked[e], stop |-> stop, allow |-> allow, chain |-> chain, how |-> "ran"]
Skipped == Ended("skipped", FALSE)

\* What each RPC makes of a handler that returned.
CommandTold(e) == Ran(e, YieldsStop(e) \/ IsStopped(e), TRUE, YieldsChain(e))
FilterTold(e)  == Ran(e, FALSE, verdict[e], FALSE)
HookTold(e)    == Ran(e, YieldsStop(e), TRUE, FALSE)
LLMTold(e)     == Ran(e, request[e], TRUE, FALSE)
ToolTold(e)    == Ran(e, FALSE, TRUE, YieldsChain(e))
\* A result hook that left no chain tells nothing.
DecoratingTold(e) ==
  IF result[e].chain THEN Ran(e, result[e].type = "STOP", TRUE, TRUE) ELSE Skipped

Told(e) ==
  CASE rpc[e].kind = "command"    -> CommandTold(e)
    [] rpc[e].kind = "filter"     -> FilterTold(e)
    [] rpc[e].kind = "hook"       -> HookTold(e)
    [] rpc[e].kind = "decorating" -> DecoratingTold(e)
    [] rpc[e].kind = "llm"        -> LLMTold(e)
    [] rpc[e].kind = "tool"       -> ToolTold(e)
    [] rpc[e].kind = "bridge"     -> Skipped

\* Of one that raised or was cut off: an error, and for a command or a tool the mark.
ToldFailed(e) ==
  Ended("failed", marked[e] /\ rpc[e].kind \in {"command", "tool"})

End(e, a) ==
  /\ Running(e)
  /\ Goto(e, "done")
  /\ answer' = [answer EXCEPT ![e] = a]
  /\ UNCHANGED <<event, handler, acts>>

\* A handler unregisters its event in a finally clause.
Return(e) == End(e, Told(e)) /\ Forget(e) /\ UNCHANGED <<origin, renamed>>
Raise(e)  == End(e, ToldFailed(e)) /\ Forget(e) /\ UNCHANGED <<origin, renamed>>

AnswersNext == \E e \in Events :
  \/ Receive(e) \/ Send(e) \/ SendStreaming(e) \/ SetResult(e) \/ ClearResult(e) \/ StopEvent(e)
  \/ ContinueEvent(e) \/ Yield(e) \/ RegisterActive(e) \/ RegisterCallback(e)
  \/ UnregisterActive(e) \/ StopAll(e) \/ Rename(e) \/ Return(e) \/ Raise(e)

AnswersSpec == AnswersInit /\ [][AnswersNext]_hvars

-----------------------------------------------------------------------------
\* The host is not told of a reply the user has not got, so it does not leave out its
\* own: not for a send that failed.  (A streaming send marks before it sends, and so does
\* every send of aiocqhttp.)
NoFalseReply == \A e \in Events :
  answer[e].sent /\ ~streamed[e] /\ ~rpc[e].onebot => delivered[e]

\* A user of aiocqhttp who has got a reply of a command or a tool gets no second one of the
\* host's, though the reply of the RPC that sent it was lost or the handler raised.
NoSecondReply == \A e \in Events :
  rpc[e].at = "done" /\ rpc[e].onebot /\ rpc[e].kind \in {"command", "tool"} /\ delivered[e]
    => answer[e].sent

\* An event that was stopped, by its handler or by another one's stop_all, and not
\* continued since, is stopped for the host when its command returns, whatever became
\* of the result in between.
StoppedIsTold == \A e \in Events :
  rpc[e].kind = "command" /\ answer[e].how = "ran" /\ forced[e] /\ e \notin renamed
    => answer[e].stop

\* A handler that unregisters in the end leaves nothing behind, however it ended,
\* unless the event's session was changed meanwhile.
NothingStaysActive == \A e \in Events :
  rpc[e].at = "done" /\ e \notin renamed
    => e \notin callbacks /\ \A s \in Sessions : e \notin active[s]

\* What the host is told of a handler's work is true of its event, and nothing of the
\* event stays behind (dispatch.py, active_event_registry.py).
AnswersAreTrue == NoFalseReply /\ NoSecondReply /\ StoppedIsTold /\ NothingStaysActive

-----------------------------------------------------------------------------
(* What the repository says and the code does not do                        *)

\* astr_message_event.py:432, only what was sent is marked, so that the host replies when a
\* send has failed: the aiocqhttp event marks first (aiocqhttp_message_event.py:191).
FailedIsNotTold == \A e \in Events : answer[e].sent /\ ~streamed[e] => delivered[e]

\* astr_message_event.py:432, what a handler or a hook has sent keeps the host from
\* replying itself: the mark of one that raised afterwards, of a filter or a hook, and
\* that of a result hook that cleared the result, are lost.
SentIsTold == \A e \in Events :
  rpc[e].at = "done" /\ marked[e] /\ rpc[e].kind # "bridge" => answer[e].sent

\* active_event_registry.py:8, the host learns of stop_event() by the result: not from
\* a hook.
HookStopIsTold == \A e \in Events :
  rpc[e].kind = "hook" /\ answer[e].how = "ran" /\ forced[e] => answer[e].stop
=============================================================================
