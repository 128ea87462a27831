--------------------------- MODULE ProviderCalls ----------------------------
(***************************************************************************)
(* What a provider does besides being listed (core/provider/provider.py),  *)
(* with the methods of Context that call a model (core/star/context.py):   *)
(* embedding many texts in batches, speech from a stream of texts, and the *)
(* ways to ask a model or to ask about one, each of which is one RPC.      *)
(***************************************************************************)
EXTENDS Naturals, Sequences, FiniteSets, SequencesExt, FiniteSetsExt

CONSTANTS
  MaxTexts,     \* texts of a call of get_embeddings_batch
  MaxParts      \* texts put into the queue of a speech

VARIABLES
  plan,         \* the arguments of get_embeddings_batch
  batch,        \* by number: where process_batch is, and its attempt
  got,          \* batch_results
  counted,      \* completed_count
  progress,     \* what the callback was told, in order
  embedded,     \* what the call has come to
  textQueue,    \* the queue of texts, 0 for None
  audioQueue,   \* the queue of audio, <<>> for None
  said,         \* the texts that were put there
  speech,       \* get_audio_stream: what it has read, and where it is
  chat,         \* a call to a model: its way, its arguments and where it is
  sent,         \* what the host was asked
  answer        \* what the plugin gets

embedVars  == <<plan, batch, got, counted, progress, embedded>>
speechVars == <<textQueue, audioQueue, said, speech>>
chatVars   == <<chat, sent, answer>>

-----------------------------------------------------------------------------
\* get_embeddings_batch: texts 1..texts in batches of size; at most limit at a time.
Batches == 1..((plan.texts + plan.size - 1) \div plan.size)
Texts(b) == [i \in 1..Min({plan.size, plan.texts - (b - 1) * plan.size}) |-> (b - 1) * plan.size + i]
Nothing == <<0>>

EmbedInit ==
  /\ plan \in [texts : 0..MaxTexts, size : {1, 2}, limit : {1, 2}, retries : 0..2,
               callback : {"none", "returns", "awaits", "raises"}, base : BOOLEAN]
  /\ batch = [b \in Batches |-> [at |-> "waiting", attempt |-> 0]]
  /\ got = [b \in Batches |-> Nothing] /\ counted = 0 /\ progress = <<>>
  /\ embedded = [is |-> "running", all |-> <<>>]

Working == {b \in Batches : batch[b].at \in {"asking", "telling", "backing off"}}
InBatch(b, where) == batch[b].at = where
Moves(b, where) == batch' = [batch EXCEPT ![b].at = where]

\* The semaphore is given in the order of the batches, and kept for all attempts; without
\* an attempt the batch is over at once.
Acquire(b) ==
  /\ InBatch(b, "waiting") /\ Cardinality(Working) < plan.limit
  /\ \A c \in Batches : InBatch(c, "waiting") => b <= c
  /\ Moves(b, IF plan.retries = 0 THEN "done" ELSE "asking")
  /\ UNCHANGED <<plan, got, counted, progress, embedded>>

\* An attempt that raises: the last one's exception is that of the call, unless another
\* batch has raised before; the other batches go on.
Retry(b) ==
  IF batch[b].attempt + 1 < plan.retries
  THEN /\ batch' = [batch EXCEPT ![b] = [at |-> "backing off", attempt |-> @.attempt + 1]]
       /\ UNCHANGED embedded
  ELSE /\ Moves(b, "failed")
       /\ embedded' = IF embedded.is = "running" THEN [embedded EXCEPT !.is = "raised"] ELSE embedded

EmbeddingFails(b) ==
  /\ InBatch(b, "asking") /\ Retry(b)
  /\ UNCHANGED <<plan, got, counted, progress>>

\* The base class has no RPC to ask and answers with no vector.  What is counted is
\* counted before the callback is called, which may raise.
Embedded(b) ==
  /\ InBatch(b, "asking")
  /\ got' = [got EXCEPT ![b] = IF plan.base THEN <<>> ELSE Texts(b)]
  /\ counted' = counted + Len(Texts(b))
  /\ progress' = IF plan.callback = "none" THEN progress ELSE Append(progress, counted')
  /\ CASE plan.callback = "raises" -> Retry(b)
       [] plan.callback = "awaits" -> Moves(b, "telling") /\ UNCHANGED embedded
       [] OTHER                    -> Moves(b, "done") /\ UNCHANGED embedded
  /\ UNCHANGED plan

Told(b) ==
  /\ InBatch(b, "telling") /\ Moves(b, "done")
  /\ UNCHANGED <<plan, got, counted, progress, embedded>>

BackOff(b) ==
  /\ InBatch(b, "backing off") /\ Moves(b, "asking")
  /\ UNCHANGED <<plan, got, counted, progress, embedded>>

\* gather returns; a batch that was never asked for has no result.
Gathered ==
  /\ embedded.is = "running" /\ \A b \in Batches : InBatch(b, "done")
  /\ embedded' = IF \E b \in Batches : got[b] = Nothing THEN [embedded EXCEPT !.is = "no result"]
                 ELSE [is |-> "returned", all |-> FlattenSeq([b \in Batches |-> got[b]])]
  /\ UNCHANGED <<plan, batch, got, counted, progress>>

\* Who waits for the call is cancelled, and with it all batches.
CancelAll ==
  /\ embedded.is = "running"
  /\ embedded' = [embedded EXCEPT !.is = "cancelled"]
  /\ batch' = [b \in Batches |-> IF InBatch(b, "done") THEN batch[b] ELSE [batch[b] EXCEPT !.at = "cancelled"]]
  /\ UNCHANGED <<plan, got, counted, progress>>

EmbedNext ==
  \/ Gathered \/ CancelAll
  \/ \E b \in Batches : Acquire(b) \/ EmbeddingFails(b) \/ Embedded(b) \/ Told(b) \/ BackOff(b)

-----------------------------------------------------------------------------
\* get_audio_stream: one task puts texts, 1 an empty one, and then None; another takes
\* what becomes of them.
SpeechInit ==
  /\ textQueue = <<>> /\ audioQueue = <<>> /\ said = <<>>
  /\ speech = [at |-> "reading", text |-> <<>>, open |-> TRUE, heard |-> <<>>]

PutText(t) ==
  /\ speech.open /\ Len(said) < MaxParts
  /\ textQueue' = Append(textQueue, t) /\ said' = Append(said, t)
  /\ UNCHANGED <<audioQueue, speech>>

PutNone ==
  /\ speech.open /\ speech' = [speech EXCEPT !.open = FALSE]
  /\ textQueue' = Append(textQueue, 0)
  /\ UNCHANGED <<audioQueue, said>>

Spoken(ts) == SelectSeq(ts, LAMBDA t : t # 1)

ReadText ==
  /\ speech.at = "reading" /\ textQueue # <<>> /\ textQueue' = Tail(textQueue)
  /\ IF Head(textQueue) # 0
     THEN speech' = [speech EXCEPT !.text = Spoken(Append(@, Head(textQueue)))] /\ UNCHANGED audioQueue
     ELSE IF speech.text # <<>> THEN speech' = [speech EXCEPT !.at = "speaking"] /\ UNCHANGED audioQueue
     ELSE speech' = [speech EXCEPT !.at = "over"] /\ audioQueue' = Append(audioQueue, <<>>)
  /\ UNCHANGED said

\* get_audio raises, or names a file that is not there, as the base class does with "".
Speak ==
  /\ speech.at = "speaking" /\ speech' = [speech EXCEPT !.at = "over"]
  /\ \E made \in BOOLEAN :
       audioQueue' = audioQueue \o (IF made THEN <<speech.text>> ELSE <<>>) \o <<<<>>>>
  /\ UNCHANGED <<textQueue, said>>

Hear ==
  /\ audioQueue # <<>> /\ audioQueue' = Tail(audioQueue)
  /\ speech' = [speech EXCEPT !.heard = Append(@, Head(audioQueue))]
  /\ UNCHANGED <<textQueue, said>>

SpeechNext == PutNone \/ ReadText \/ Speak \/ Hear \/ \E t \in 1..3 : PutText(t)

-----------------------------------------------------------------------------
\* A provider's chats, the context's, and what asks about a provider.
Chats == {"text_chat", "text_chat_stream", "llm_generate", "tool_loop_agent"}
Ways  == Chats \union {"test", "get_models", "send_message", "provider id"}

Given ==
  [prompt : {"", "p"}, contexts : {<<>>, <<"c1", "c2">>, <<"c1", "no dict">>}, tools : SUBSET {"whole", "partial"},
   audio : BOOLEAN, session : {"object", "text", "bad text"}]

LastOf(contexts) == IF contexts = <<>> \/ contexts[Len(contexts)] = "no dict" THEN "" ELSE contexts[Len(contexts)]
Request(words) == [words |-> words, contexts |-> <<>>, tools |-> {}, audio |-> FALSE, provider |-> ""]
NoRequest == Request(<<>>)

ChatInit ==
  /\ chat \in {[at |-> "new", way |-> w, given |-> g] : w \in Ways, g \in Given}
  /\ sent = NoRequest /\ answer = [is |-> "none", text |-> "", chain |-> ""]

\* What chat_llm_async is called with.
ChatAsks(g)     == Request(<<LastOf(g.contexts), g.prompt>>)
StreamAsks(g)   == Request(<<"", IF g.prompt = "" THEN LastOf(g.contexts) ELSE g.prompt>>)
TestAsks        == Request(<<"", "PONG">>)
\* A tool that lacks its name, description or parameters is left out.
Offered(tools)  == tools \ {"partial"}
GenerateAsks(g) == [words |-> <<"", g.prompt>>, contexts |-> g.contexts, tools |-> Offered(g.tools),
                    audio |-> g.audio, provider |-> "named"]

Asked(way, g) ==
  CASE way = "text_chat"        -> ChatAsks(g)
    [] way = "text_chat_stream" -> StreamAsks(g)
    [] way = "test"             -> TestAsks
    [] way \in {"llm_generate", "tool_loop_agent"} -> GenerateAsks(g)
    [] OTHER -> NoRequest

\* What a call comes to: "not ready" without a bridge, or with one that cannot connect;
\* "fails" if the RPC does, or has not ended in time; else a text, or an empty one: a
\* list of models, or none; the provider in use, or none.
ChatSays(o)   == IF o \in {"not ready", "fails"} THEN "raised" ELSE "response"
TestSays(o)   == IF o = "t" THEN "true" ELSE "false"
ModelsSay(o)  == IF o = "t" THEN "value" ELSE "nothing"
CurrentSays(o) == IF o = "t" THEN "value" ELSE "nothing"
\* The bridge answers FALSE for a message the host has refused, and nobody looks at it.
SendSays(o)   == IF o = "not ready" THEN "false" ELSE "true"

Ends(o) ==
  /\ chat' = [chat EXCEPT !.at = "end"]
  /\ answer' = CASE chat.way = "test"         -> [answer EXCEPT !.is = TestSays(o)]
                 [] chat.way = "get_models"   -> [answer EXCEPT !.is = ModelsSay(o)]
                 [] chat.way = "provider id"  -> [answer EXCEPT !.is = CurrentSays(o)]
                 [] chat.way = "send_message" -> [answer EXCEPT !.is = SendSays(o)]
                 [] OTHER -> IF ChatSays(o) = "raised" THEN [answer EXCEPT !.is = "raised"]
                             ELSE [is |-> "response", text |-> o, chain |-> o]

\* A session that is a text is parsed before anything else.
BadSession ==
  /\ chat.at = "new" /\ chat.way = "send_message" /\ chat.given.session = "bad text"
  /\ chat' = [chat EXCEPT !.at = "end"] /\ answer' = [answer EXCEPT !.is = "bad session"]
  /\ UNCHANGED sent

Begins == chat.at = "new" /\ ~(chat.way = "send_message" /\ chat.given.session = "bad text")

NotReady == Begins /\ Ends("not ready") /\ UNCHANGED sent

Ask ==
  /\ Begins /\ chat' = [chat EXCEPT !.at = "asked"]
  /\ sent' = Asked(chat.way, chat.given)
  /\ UNCHANGED answer

Answers(o) == chat.at = "asked" /\ Ends(o) /\ UNCHANGED sent

ChatNext == NotReady \/ BadSession \/ Ask \/ \E o \in {"fails", "", "t"} : Answers(o)

-----------------------------------------------------------------------------
(* Vectors come back in the order of the texts, one for each, whatever was  *)
(* retried and in whatever order the batches ended.                         *)
VectorsInOrder ==
  embedded.is = "returned" /\ ~plan.base => embedded.all = [i \in 1..plan.texts |-> i]

(* At most tasks_limit batches are at work, those that back off among them, *)
(* and a call fails only if a batch has failed as often as it may.          *)
LimitIsKept ==
  /\ Cardinality(Working) <= plan.limit
  /\ embedded.is = "raised" => \E b \in Batches : InBatch(b, "failed") /\ batch[b].attempt + 1 = plan.retries

(* The callback sees the count rise to the number of texts, if it never     *)
(* raises.                                                                  *)
ProgressRises ==
  plan.callback # "raises" =>
    /\ \A i, j \in DOMAIN progress : i < j => progress[i] < progress[j]
    /\ \A i \in DOMAIN progress : progress[i] <= plan.texts
    /\ embedded.is = "returned" /\ plan.callback # "none" /\ plan.texts > 0
         => progress[Len(progress)] = plan.texts

(* Who listens to a speech hears one None, after everything else, and what  *)
(* is spoken is all that was said, in its order.                            *)
SpeechEnds ==
  LET all == speech.heard \o audioQueue
  IN  /\ speech.at = "over" => all # <<>> /\ all[Len(all)] = <<>> /\ ~speech.open
      /\ \A i \in DOMAIN all : all[i] = <<>> => i = Len(all) /\ speech.at = "over"
      /\ \A i \in DOMAIN all : all[i] # <<>> => all[i] = Spoken(said)

(* Without a history, tools or audio all ways to chat ask the same of the   *)
(* model, and the response has the host's text in both of its forms.        *)
ChatsAgree ==
  /\ chat.at = "asked" /\ chat.way \in Chats /\ chat.given.contexts = <<>> /\ chat.given.tools = {} /\ ~chat.given.audio =>
       \A way \in Chats : [Asked(way, chat.given) EXCEPT !.provider = ""] = [sent EXCEPT !.provider = ""]
  /\ answer.is = "response" => answer.text = answer.chain

(* What asks about a provider never raises, and says yes only when the host *)
(* was asked.                                                               *)
QuestionsNeverRaise ==
  chat.way \notin Chats =>
    /\ answer.is # "raised"
    /\ answer.is = "bad session" => chat.given.session = "bad text"
    /\ chat.way = "test" /\ answer.is = "true" => sent # NoRequest

-----------------------------------------------------------------------------
(* "progress callback, called with (current, total)": a callback that       *)
(* raises has its batch embedded, and counted, again.                       *)
ProgressIsBounded == \A i \in DOMAIN progress : progress[i] <= plan.texts

(* When the call has raised nothing of it is at work any more.              *)
NothingRunsOn == embedded.is = "raised" => Working = {}

(* A call that returns has a vector for each text.                          *)
OnePerText == embedded.is = "returned" => Len(embedded.all) = plan.texts

(* A provider's test tests that provider: it asks the host's default.       *)
OwnProviderIsAsked ==
  chat.at = "asked" /\ chat.way \in {"test", "text_chat", "text_chat_stream"} => sent.provider # ""

(* The history reaches the model in every way.                              *)
HistoryIsSent ==
  chat.at = "asked" /\ chat.way \in Chats /\ LastOf(chat.given.contexts) # "" =>
    sent.contexts = chat.given.contexts \/ sent.words[1] # "" \/ chat.given.prompt = ""
=============================================================================
