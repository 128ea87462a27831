------------------------------- MODULE MCCalls --------------------------------
(* What becomes of the host's calls, and of the plugin's calls to the host,  *)
(* in one run: a behaviour is one of the component that "subject" names.     *)
(* The components that are proved about are extended, with their own         *)
(* variables; the others take theirs from the same slots, and a slot the     *)
(* component has no use for is 0.                                            *)
EXTENDS HandlerCalls, HandlerAnswers, WebRoutes, ToolTable, TLC

Symmetry == Permutations(Workers)

VARIABLES subject, s1, s2, s3, s4, s5, s6, s7, s8, s9, s10, s11, s12, s13

toolVars == <<tvars, bvars, mvars>>
own   == <<handlersVars, hvars, webVars, replyVars, toolVars>>
slots == <<s1, s2, s3, s4, s5, s6, s7, s8, s9, s10, s11, s12, s13>>
vars  == <<subject, own, slots>>

Unused12 == s12 = 0 /\ s13 = 0
Unused10 == s10 = 0 /\ s11 = 0 /\ Unused12
Unused8  == s8 = 0 /\ s9 = 0 /\ Unused10
Unused7  == s7 = 0 /\ Unused8
Unused6  == s6 = 0 /\ Unused7
Unused1  == s1 = 0 /\ s2 = 0 /\ s3 = 0 /\ s4 = 0 /\ s5 = 0 /\ s6 = 0
NoSlots  == Unused1 /\ Unused7

Keep12 == UNCHANGED <<s12, s13>>
Keep10 == UNCHANGED <<s10, s11>> /\ Keep12
Keep8  == UNCHANGED <<s8, s9>> /\ Keep10
Keep7  == UNCHANGED s7 /\ Keep8
Keep6  == UNCHANGED s6 /\ Keep7
Keep1  == UNCHANGED <<s1, s2, s3, s4, s5, s6>>

\* Top-level commands, with and without an alias, and commands of the nested groups
\* "g" and "g h"; the last two share a word with the first, as a sub-command may.
Specs ==
  {[name |-> "a", alias |-> <<>>, parents |-> <<<<>>>>],
   [name |-> "a", alias |-> <<"b">>, parents |-> <<<<>>>>],
   [name |-> "b", alias |-> <<>>, parents |-> <<<<"g">>>>],
   [name |-> "b", alias |-> <<"h">>, parents |-> <<<<"g", "h">>>>],
   [name |-> "a", alias |-> <<>>, parents |-> <<<<"g">>, <<"h">>>>]}

Routing == INSTANCE Filters WITH
  filters <- s1, commands <- s2, message <- s3, custom <- s4, vetoed <- s5, wake <- s6, called <- s7,
  Words <- {"a", "b", "g", "h"}, Specs <- Specs, MaxWords <- 3, MaxCommands <- 2

\* Modules of one tool and of more.
SomeModules == <<<<"a", "b">>, <<"c">>, <<"d", "e">>>>

\* Routes with and without words to catch, and one that needs a number.
SomeRoutes == {<<"a">>, <<"<p>">>, <<"a", "<p>">>, <<"<p>", "<p>">>, <<"a", "<int:p>">>}
SomePaths  == {<<"a">>, <<"b">>, <<"a", "b">>}

Methods == INSTANCE HostMethods WITH
  kept <- s1, ask <- s2, first <- s3, result <- s4, done <- s5, Things <- {"x", "y"}

\* The parts of a message, nodes of a forward within nodes.
Parts == INSTANCE MessageParts WITH
  stage <- s1, way <- s2, part <- s3, wire <- s4, came <- s5, MaxNodeDepth <- 2

Agent == INSTANCE AgentMessages WITH
  careful <- s1, stored <- s2, working <- s3, loaded <- s4, prompt <- s5, request <- s6, response <- s7,
  CallIds <- {"c1", "c2"}, MaxHistory <- 3, HostParts <- {"image", "unknown"}

\* Docstrings of four lines of any kind, and schemas of an MCP server: a string that may
\* be null or has a format, a choice, an array with and without items, an object.
DocLine(kind, name, type) == [kind |-> kind, name |-> name, type |-> type]
Plain == [type |-> "string", items |-> <<>>, props |-> << >>, needed |-> {}, format |-> "", anyOf |-> {},
          said |-> TRUE]
Inner ==
  {[Plain EXCEPT !.type = t, !.format = f] :
     t \in {"string", "string|null", "null only", "null|integer", "any"}, f \in {"", "date-time", "int32", "uri"}}
  \cup {[Plain EXCEPT !.type = "", !.anyOf = {"string", "any"}]}
  \cup {[Plain EXCEPT !.type = "array", !.items = i] :
         i \in {<<>>, <<[Plain EXCEPT !.type = "array"]>>, <<[Plain EXCEPT !.type = "any"]>>}}
  \cup {[Plain EXCEPT !.type = "object", !.props = [k \in {"q"} |-> Plain]]}
Objects == {[Plain EXCEPT !.type = "object", !.props = [k \in {"x"} |-> p], !.needed = r] : p \in Inner, r \in {{}, {"x"}}}

ToolRuns == INSTANCE ToolCalls WITH
  doc <- s1, step <- s2, parsed <- s3, params <- s4, declared <- s5,
  MaxDocLines <- 4, McpSchemas <- Objects \cup {Plain},
  DocLines <- {DocLine("blank", "", ""), DocLine("section", "Returns", ""), DocLine("args", "", ""),
               DocLine("google", "x", "str"), DocLine("google", "y", "list[str]"), DocLine("google", "z", "any"),
               DocLine("google", "l", "list"), DocLine("plain", "x", ""), DocLine("colon", "x", ""),
               DocLine("typed", "y", "int"), DocLine("more", "t", "")},
  way <- s1, tool <- s2, may <- s3, stage <- s4, given <- s5, answer <- s6, hook <- s7,
  Outcomes <- {"words", "chain", "mcp", "mcp error", "nothing", "dict", "picture", "mcp error without words", "raises"},
  MaxHookArgs <- 5

Models == INSTANCE ProviderCalls WITH
  plan <- s1, batch <- s2, got <- s3, counted <- s4, progress <- s5, embedded <- s6,
  textQueue <- s7, audioQueue <- s8, said <- s9, speech <- s10, chat <- s11, sent <- s12, answer <- s13,
  MaxTexts <- 4, MaxParts <- 3

\* What a component that is not the subject is at all the while.
HandlersRest == regime = "orderly" /\ HandlersInit
\* The other event is a hook's; of aiocqhttp are a command or a tool.
AnswersStart == /\ rpc["e2"].kind = "hook" /\ ~rpc["e2"].onebot
                /\ rpc["e1"].onebot => rpc["e1"].kind \in {"command", "tool"}
                /\ origin = [e \in Events |-> "s1"]
AnswersRest  == /\ rpc = [e \in Events |-> [kind |-> "hook", onebot |-> FALSE, at |-> "arriving"]]
                /\ origin = [e \in Events |-> "s1"]
                /\ AnswersInit
TableRest    == serial = TRUE /\ TableInit
McpRest      == alone = TRUE /\ McpInit

\* Handlers and a tool, or a hook, and a handler of another plugin; two events of one
\* session, the second of which is a hook's.
OwnInit ==
  /\ IF subject \in {"handlers", "hooks"} THEN HandlersInit ELSE HandlersRest
  /\ IF subject = "answers" THEN AnswersInit /\ AnswersStart ELSE AnswersRest
  /\ IF subject = "tools" THEN TableInit ELSE TableRest
  /\ IF subject = "mcp" THEN McpInit ELSE McpRest
  /\ WebInit /\ RepliesInit /\ BuiltinInit

SlotInit ==
  \/ subject \in {"handlers", "hooks", "answers", "web", "replies", "tools", "builtin", "mcp"} /\ NoSlots
  \/ subject = "filters" /\ Routing!Init /\ Unused8
  \/ subject = "methods" /\ Methods!MethodsInit /\ Unused6
  \/ subject = "parts" /\ Parts!PartInit /\ Unused6
  \/ subject = "agent" /\ Agent!AgentInit /\ Unused8
  \/ subject = "schemas" /\ ToolRuns!SchemasInit /\ Unused6
  \/ subject = "tool runs" /\ ToolRuns!CallsInit /\ Unused8
  \/ subject = "embeddings" /\ Models!EmbedInit /\ Unused7
  \/ subject = "speech" /\ Unused1 /\ Models!SpeechInit /\ s11 = 0 /\ Unused12
  \/ subject = "chats" /\ Unused1 /\ s7 = 0 /\ s8 = 0 /\ s9 = 0 /\ s10 = 0 /\ Models!ChatInit

Init == SlotInit /\ OwnInit

RouteText   == subject = "filters" /\ Routing!Next /\ Keep8
HostCall    == subject = "methods" /\ Methods!MethodsNext /\ Keep6
ConvertPart == subject = "parts" /\ Parts!PartNext /\ Keep6
History     == subject = "agent" /\ Agent!AgentNext /\ Keep8
MakeSchema  == subject = "schemas" /\ ToolRuns!SchemasNext /\ Keep6
RunTool     == subject = "tool runs" /\ ToolRuns!OneCallNext /\ Keep8
Embed       == subject = "embeddings" /\ Models!EmbedNext /\ Keep7
Speech      == subject = "speech" /\ Models!SpeechNext /\ Keep1 /\ UNCHANGED s11 /\ Keep12
Chat        == subject = "chats" /\ Models!ChatNext /\ Keep1 /\ UNCHANGED <<s7, s8, s9, s10>>

SlotNext ==
  \/ RouteText \/ HostCall \/ ConvertPart \/ History \/ MakeSchema \/ RunTool \/ Embed \/ Speech \/ Chat

HandleCall == subject = "handlers" /\ HandlersNext /\ mapped' \cap Hooks = {}
                /\ UNCHANGED <<hvars, webVars, replyVars, toolVars>>
HandleHook == subject = "hooks" /\ HandlersNext /\ mapped' \subseteq Hooks \cup Virtuals /\ tools' = {}
                /\ UNCHANGED <<hvars, webVars, replyVars, toolVars>>
HandleRpc  == subject = "answers" /\ AnswersNext /\ UNCHANGED <<handlersVars, webVars, replyVars, toolVars>>
WebCall    == subject = "web" /\ WebNext /\ UNCHANGED <<handlersVars, hvars, replyVars, toolVars>>
WebReply   == subject = "replies" /\ RepliesNext /\ UNCHANGED <<handlersVars, hvars, webVars, toolVars>>

ToolsNext ==
  \/ subject = "tools" /\ TableNext /\ UNCHANGED <<bvars, mvars>>
  \/ subject = "builtin" /\ BuiltinNext /\ UNCHANGED <<tvars, mvars>>
  \/ subject = "mcp" /\ McpNext /\ UNCHANGED <<tvars, bvars>>

OwnNext ==
  \/ HandleCall \/ HandleHook \/ HandleRpc \/ WebCall \/ WebReply
  \/ ToolsNext /\ UNCHANGED <<handlersVars, hvars, webVars, replyVars>>

Next ==
  \/ OwnNext /\ UNCHANGED <<subject, slots>>
  \/ SlotNext /\ UNCHANGED <<subject, own>>

Spec == Init /\ [][Next]_vars

-----------------------------------------------------------------------------
\* A saved history of a careful plugin begins with what was stored (core/agent/message.py).
HistoryIsKept ==
  [][subject = "agent" /\ s1 /\ s4 /\ s2' # s2 => Agent!KeptIsPrefix(s2, s2')]_vars

\* The forms one thing has say the same: the two ways from a message to a command agree,
\* every reported name is found, no word of a message is lost on its way into parameters,
\* and a permission that a member has everybody has (core/star/filter); what a docstring
\* declares is what the model is told, and the ways to run a tool agree (tool.py,
\* tool_executor.py, dispatch.py); the table of tools is what one thread made of it, and
\* the set an agent gets agrees with its look-ups (func_tool_manager.py).
FormsAgree ==
  /\ subject = "filters" =>
       /\ Routing!RoutesAgree /\ Routing!EveryNameFound /\ Routing!GroupsAgree
       /\ Routing!NoWordLost /\ Routing!PermissionsOrdered
  /\ subject = "schemas" =>
       /\ ToolRuns!DocumentedIsParsed /\ ToolRuns!RegisteredIsTyped
       /\ ToolRuns!GoogleIsValid /\ ToolRuns!SchemasAgree
  /\ subject = "tool runs" =>
       /\ ToolRuns!HooksFit /\ ToolRuns!WaysAgree /\ ToolRuns!FailuresAreTold /\ ToolRuns!AdminOnly
  /\ subject = "tools" => SerialTableRight /\ ToolSetAgrees

\* A read of the host never raises, and a change that returns has been made; what is asked
\* of a model in pieces, in several tries or in several ways comes back whole (host.py,
\* provider.py and the facades in core/).
HostMethodsAreRight ==
  /\ subject = "methods" => Methods!ReadsAreTotal /\ Methods!ReturnedIsDone
  /\ subject = "embeddings" => Models!VectorsInOrder /\ Models!LimitIsKept /\ Models!ProgressRises
  /\ subject = "speech" => Models!SpeechEnds
  /\ subject = "chats" => Models!ChatsAgree /\ Models!QuestionsNeverRaise

\* A part of a message means the same on the other side of the wire, and a history that
\* a careful plugin stores is one a model accepts (serialize.py, components.py, message.py,
\* entities.py).
MessagesSurvive ==
  /\ subject = "parts" => Parts!MeaningSurvives /\ Parts!DepthIsBounded /\ Parts!HookKeepsResult
  /\ subject = "agent" =>
       /\ Agent!CallsAreAnswered /\ Agent!RequestIsWhole /\ Agent!NoMarkInPrompt /\ Agent!SetIsRead

===============================================================================
