--------------------------- MODULE AgentMessages ---------------------------
(***************************************************************************)
(* A plugin's own agent on the history of a conversation: the history is   *)
(* bound and dumped (core/agent/message.py), a request put together, the   *)
(* model's reply and the results of its tool calls added                   *)
(* (core/provider/entities.py, provider.py).                               *)
(*                                                                         *)
(* A message is a record; its content is a sequence of kinds of parts, of  *)
(* which <<"words">> is a string.  "unknown" is a part of a type that no   *)
(* class is registered for, "raw" one without a type.                      *)
(***************************************************************************)
EXTENDS Naturals, Sequences, FiniteSets, SequencesExt

CONSTANTS
  CallIds,            \* of the calls of tools
  MaxHistory,         \* messages in a history
  HostParts           \* what the host writes into a message, beside words

VARIABLES
  careful,     \* the plugin strips checkpoints, answers with segments and pops nothing
  stored,      \* the history as the host keeps it
  working,     \* the messages the plugin works on, each with its checkpoint; <<>> before it loads
  loaded,      \* it has loaded them
  prompt,      \* the contents that text_chat sent to the model
  request,     \* the last ProviderRequest, and its message
  response     \* an LLMResponse, and what its completion_text was last set to

agentVars == <<careful, stored, working, loaded, prompt, request, response>>

NoResult == "none"
Words == <<"words">>
Said(role, content) == [role |-> role, content |-> content, calls |-> <<>>, answers |-> ""]
Mark(c) == Said("_checkpoint", <<c>>)
IsMark(e) == e.role = "_checkpoint"

-----------------------------------------------------------------------------
(* Histories.                                                              *)
\* bind_checkpoint_messages: a checkpoint belongs to the message before it, in which it
\* takes the place of another one.
CanBind(h) == \A i \in DOMAIN h : ~IsMark(h[i]) => "unknown" \notin Range(h[i].content)
BindOne(ms, e) ==
  CASE ~IsMark(e)             -> Append(ms, [said |-> e, after |-> NoResult])
    [] IsMark(e) /\ ms = <<>> -> ms
    [] OTHER                  -> [ms EXCEPT ![Len(ms)].after = e.content[1]]
Bind(h) == FoldLeft(BindOne, <<>>, h)

\* dump_messages_with_checkpoints: every part of a list has a to_dict.
CanDump(ms) == \A i \in DOMAIN ms : "raw" \notin Range(ms[i].said.content)
\* mutant: a checkpoint goes before its message.
DumpOneMarkFirst(m) == IF m.after = NoResult THEN <<m.said>> ELSE <<Mark(m.after), m.said>>
DumpOne(m) == IF m.after = NoResult THEN <<m.said>> ELSE <<m.said, Mark(m.after)>>
Dump(ms) == FlattenSeq([i \in DOMAIN ms |-> DumpOne(ms[i])])

\* strip_checkpoint_messages.
Strip(h) == SelectSeq(h, LAMBDA e : ~IsMark(e))

\* pop_record: the first two entries that are not the system's.
Pop(h) ==
  LET said == {i \in DOMAIN h : h[i].role # "system" /\ Cardinality({j \in 1..i : h[j].role # "system"}) <= 2} IN
  FoldLeft(LAMBDA acc, i : IF i \in said THEN acc ELSE Append(acc, h[i]), <<>>, [i \in DOMAIN h |-> i])

-----------------------------------------------------------------------------
(* Requests and replies.                                                   *)
\* assemble_context: media that cannot be resolved are left out.
Usable(media, kind) == [i \in 1..Cardinality({j \in DOMAIN media : media[j] = "good"}) |-> kind]
Opening(r) ==
  CASE r.prompt = "words"                       -> Words
    [] r.prompt # "words" /\ r.images # <<>>    -> <<"[image]">>
    [] r.prompt # "words" /\ r.images = <<>> /\ r.audios # <<>> -> <<"[audio]">>
    [] OTHER                                    -> <<>>
Blocks(r) == Opening(r) \o r.extra \o Usable(r.images, "image") \o Usable(r.audios, "audio")
IsString(r) == Len(Blocks(r)) = 1 /\ Blocks(r)[1] = "words" /\ r.extra = <<>> /\ r.images = <<>> /\ r.audios = <<>>
Assemble(r) == [content |-> Blocks(r), string |-> IsString(r)]

\* text_chat: of the contexts the last, written out, goes before the prompt.
Sent(contexts) ==
  IF contexts # <<>> /\ Last(contexts).content # <<>> THEN Last(contexts).content \o Words ELSE Words

\* completion_text of an LLMResponse, which reads the chain if there is one.
Spoken(chain) == SelectSeq(chain, LAMBDA p : p # "other")
Completion(r) == IF r.chain = NoResult THEN r.text ELSE Spoken(r.chain)
SetText(r, v) == IF r.chain = NoResult THEN [r EXCEPT !.text = v] ELSE [r EXCEPT !.chain = v \o SelectSeq(@, LAMBDA p : p = "other")]

\* to_openai_tool_calls_model: an id for every set of arguments, or an IndexError.
Calling(ids) == [Said("assistant", <<>>) EXCEPT !.calls = ids]

\* ToolCallsResult.to_openai_messages: with the segment of the request every result is a
\* message; without it a result that is no dict is written out, its id too.
Answer(id) == [Said("tool", Words) EXCEPT !.answers = id]
Written(flat, form, id) == IF flat /\ form = "segment" THEN Said("tool", Words) ELSE Answer(id)
Results(flat, form, ids) == <<Calling(ids)>> \o [i \in DOMAIN ids |-> Written(flat, form, ids[i])]

Unbound(es) == [i \in DOMAIN es |-> [said |-> es[i], after |-> NoResult]]

-----------------------------------------------------------------------------
NoRequest == [prompt |-> "", extra |-> <<>>, images |-> <<>>, audios |-> <<>>]
NotAsked == [asked |-> NoRequest, got |-> Assemble(NoRequest)]
NoResponse == [text |-> <<>>, chain |-> NoResult, set |-> NoResult]

\* A request and a response are put together apart from the histories, and so before one
\* is begun: a bound.
Apart == stored = <<>> /\ ~loaded
Historic == request' = NotAsked /\ response' = NoResponse /\ UNCHANGED careful

AgentInit ==
  /\ careful \in BOOLEAN
  /\ stored = <<>> /\ working = <<>> /\ loaded = FALSE /\ prompt = <<>>
  /\ request = NotAsked /\ response = NoResponse

\* The host keeps what was said, and marks where it is in the platform's history
\* (external).
HostKeeps(e) ==
  /\ ~loaded /\ Len(stored) < MaxHistory
  /\ stored' = Append(stored, e) /\ prompt' = <<>>
  /\ Historic /\ UNCHANGED <<working, loaded>>

Load ==
  /\ ~loaded /\ CanBind(stored)
  /\ working' = Bind(stored) /\ loaded' = TRUE /\ prompt' = <<>>
  /\ Historic /\ UNCHANGED stored

\* A message of the plugin, which may have a part without a type in it.
Say(parts) ==
  /\ loaded /\ Len(Dump(working)) < MaxHistory
  /\ working' = working \o Unbound(<<Said("user", parts)>>) /\ prompt' = <<>>
  /\ Historic /\ UNCHANGED <<stored, loaded>>

Ask(r) ==
  /\ Apart
  /\ request' = [asked |-> r, got |-> Assemble(r)]
  /\ UNCHANGED <<careful, stored, working, loaded, prompt, response>>

Chat ==
  /\ loaded
  /\ prompt' = Sent(IF careful THEN Strip(Dump(working)) ELSE Dump(working))
  /\ Historic /\ UNCHANGED <<stored, working, loaded>>

UseTools(ids, flat, form) ==
  /\ loaded /\ Len(Dump(working)) + Len(ids) < MaxHistory
  /\ careful => ~(flat /\ form = "segment")
  /\ working' = working \o Unbound(Results(flat, form, ids)) /\ prompt' = <<>>
  /\ Historic /\ UNCHANGED <<stored, loaded>>

Forget ==
  /\ loaded /\ ~careful /\ working # <<>>
  /\ working' = Bind(Pop(Dump(working))) /\ prompt' = <<>>
  /\ Historic /\ UNCHANGED <<stored, loaded>>

Save ==
  /\ loaded /\ CanDump(working)
  /\ stored' = Dump(working) /\ working' = <<>> /\ loaded' = FALSE /\ prompt' = <<>>
  /\ Historic

SaveFails ==
  /\ loaded /\ ~CanDump(working)
  /\ working' = <<>> /\ loaded' = FALSE /\ prompt' = <<>>
  /\ Historic /\ UNCHANGED stored

\* The constructor sets the text and then the chain; a plugin may set either later.
Construct(v, chain) ==
  /\ Apart
  /\ response' = [text |-> v, chain |-> chain, set |-> NoResult]
  /\ UNCHANGED <<careful, stored, working, loaded, prompt, request>>

SetCompletion(v) ==
  /\ Apart
  /\ response' = [SetText(response, v) EXCEPT !.set = v]
  /\ UNCHANGED <<careful, stored, working, loaded, prompt, request>>

MediaLists == {<<>>, <<"good">>, <<"bad">>, <<"bad", "good">>}
Requests == [prompt : {"", "words"}, extra : {<<>>, <<"text">>}, images : MediaLists, audios : MediaLists]
Entries ==
  {Said("user", Words), Mark("m1"), Mark("m2")} \cup {Said("user", <<p>>) : p \in HostParts} \cup {Said("system", Words)}

AgentNext ==
  \/ \E e \in Entries : HostKeeps(e)
  \/ Load \/ Chat \/ Forget \/ Save \/ SaveFails
  \/ \E r \in Requests : Ask(r)
  \/ \E parts \in {Words, <<"raw">>} : Say(parts)
  \/ \E ids \in {<<i>> : i \in CallIds} \cup {<<i, j>> : i, j \in CallIds}, flat \in BOOLEAN, form \in {"dict", "segment"} :
       UseTools(ids, flat, form)
  \/ \E v \in {<<>>, Words} : SetCompletion(v)
  \/ \E v \in {<<>>, Words}, c \in {NoResult, <<>>, <<"other", "old">>} : Construct(v, c)

-----------------------------------------------------------------------------
(* Properties.                                                             *)
\* What of a history a plugin that only loads and saves must leave: its messages in order,
\* each with the last of its checkpoints.
Kept(h, i) ==
  ~IsMark(h[i]) \/ (/\ \E j \in 1..(i - 1) : ~IsMark(h[j])
                    /\ i < Len(h) => ~IsMark(h[i + 1]))
KeptOf(h) == FoldLeft(LAMBDA acc, i : IF Kept(h, i) THEN Append(acc, h[i]) ELSE acc, <<>>, [i \in DOMAIN h |-> i])

\* Nothing of a history is lost by loading it, adding to it and saving it, but what
\* pop_record takes out: a saved history begins with what was stored.
KeptIsPrefix(old, new) == IsPrefix(KeptOf(old), new)
HistorySurvives == [][careful /\ loaded /\ stored' # stored => KeptIsPrefix(stored, stored')]_agentVars

\* Each call of a tool in a stored history is answered, by the messages that follow it,
\* in order and by its id.
CallsAreAnswered ==
  careful => \A i \in DOMAIN stored : stored[i].calls # <<>> =>
    LET n == Len(stored[i].calls) IN
    /\ i + n <= Len(stored)
    /\ \A k \in 1..n : stored[i + k].role = "tool" /\ stored[i + k].answers = stored[i].calls[k]

\* No request is empty that asked for something, what could be resolved is in it, and it
\* is a plain string only if it is nothing else.
RequestIsWhole ==
  LET r == request.asked  c == request.got.content IN
  /\ (r.prompt # "" \/ r.images # <<>> \/ r.audios # <<>> \/ r.extra # <<>>) => c # <<>>
  /\ ("good" \in Range(r.images)) = ("image" \in Range(c)) /\ ("good" \in Range(r.audios)) = ("audio" \in Range(c))
  /\ r.prompt = "words" => c[1] = "words"
  /\ request.got.string => c = Words

\* A checkpoint is not what the model is asked, if the plugin strips its contexts.
NoMarkInPrompt == careful => Range(prompt) \cap {"m1", "m2"} = {}

\* completion_text is what it was last set to, whether or not there is a chain.
SetIsRead == response.set # NoResult => Completion(response) = response.set

\* What no plugin has to be careful for.
HistorySurvivesAll == [][loaded /\ stored' # stored => KeptIsPrefix(stored, stored')]_agentVars
SavesSucceed == loaded => CanDump(working)
LoadsSucceed == CanBind(stored)
=============================================================================
