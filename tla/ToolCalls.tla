----------------------------- MODULE ToolCalls -----------------------------
(***************************************************************************)
(* One call of a tool or of a hook, with the arguments it is given and     *)
(* what becomes of its result: by the host's HandleTool and HandleHook     *)
(* (_bridge/dispatch.py), by a plugin's own executor                       *)
(* (core/agent/tool_executor.py) and behind a guard of permissions         *)
(* (core/provider/func_tool_manager.py).  The second part of the module is *)
(* how the tool is declared to a model.                                    *)
(***************************************************************************)
EXTENDS Naturals, Sequences, FiniteSets, SequencesExt, Functions

CONSTANTS
  Outcomes,       \* of the function: see Texts
  MaxHookArgs     \* parameters that a hook may have

\* A tool is a subclass with run or with call, a FunctionTool with a handler, or a decorated
\* function; a function has a name and perhaps an annotation for its first parameter.
ToolKinds == {"run", "call", "handler", "decorated"}
ToolForms == [kind : ToolKinds, first : {"event", "context", "other"}, noted : {"", "event", "wrapper"},
              form : {"plain", "generator"}, does : Outcomes]

HookNames == {"on_plugin_loaded", "on_astrbot_loaded", "on_llm_response", "on_using_llm_tool", "on_llm_tool_respond",
              "on_plugin_error", "on_after_message_sent"}

VARIABLES
  way,        \* "rpc", "executor", "guard", "manager" (the check alone), or "hook"
  tool,       \* the tool
  may,        \* the level the tool is configured to need, and whether the caller is an admin
  stage,      \* "asked", "permitted", "refused", "called"
  given,      \* the arguments that the function was called with
  answer,     \* its text, and whether the answer is an error
  hook        \* the hook's event and number of parameters

callVars == <<way, tool, may, stage, given, answer, hook>>

-----------------------------------------------------------------------------
(* The first argument.                                                     *)
\* _tool_first_arg_is_context, of dispatch.py and of tool_executor.py: the annotation
\* before the name.
ByName(f, n) == IF n = "" THEN f = "context" ELSE n = "wrapper"
TakesContextRpc(f, n) == ByName(f, n)
TakesContextLocal(f, n) == ByName(f, n)
FirstRpc(f, n) == IF TakesContextRpc(f, n) THEN "wrapper" ELSE "event"
FirstLocal(f, n) == IF TakesContextLocal(f, n) THEN "wrapper" ELSE "event"

\* add_llm_tools takes run, else call, which every FunctionTool has: the handler of one is
\* never called.  _bind gives a decorated function its plugin.
RpcArgs(t) == IF t.kind = "handler" THEN <<"wrapper">> ELSE <<FirstRpc(t.first, t.noted)>>
RpcDoes(t) == IF t.kind = "handler" THEN "not implemented" ELSE t.does

\* The executor takes the handler, else call, else run; nothing binds a decorated function,
\* whose first parameter is then the plugin.
LocalArgs(t) == IF t.kind = "decorated" THEN <<"event">> ELSE <<FirstLocal(t.first, t.noted)>>
LocalDoes(t) == IF t.kind = "decorated" THEN "raises" ELSE t.does

\* The guard takes an overridden call, else the handler, and gives either the context.
GuardDoes(t) == CASE t.kind = "run" -> "no handler" [] t.kind = "decorated" -> "raises" [] OTHER -> t.does

-----------------------------------------------------------------------------
(* The result.                                                             *)
\* What HandleTool joins: strings, the texts of a chain and of an mcp result.
Texts(does) ==
  CASE does = "words" -> <<"words">> [] does = "chain" -> <<"words">> [] does = "mcp" -> <<"words">>
    [] does = "mcp error" -> <<"[error]words">>
    [] does \in {"nothing", "dict", "picture", "mcp error without words"} -> <<>>

\* _call collects what a generator yields.
Yielded(t, does) == IF t.form = "generator" THEN Texts(does) \o <<"more">> ELSE Texts(does)
Fails(does) == does \in {"raises", "not implemented"}
RpcAnswer(t) ==
  IF Fails(RpcDoes(t)) THEN [text |-> <<"failed">>, error |-> TRUE] ELSE [text |-> Yielded(t, RpcDoes(t)), error |-> FALSE]

\* A generator is no awaitable: the executor yields the object itself, before anything in it
\* has run, and the guard can wait for that of a handler only.  An exception is the caller's.
LocalAnswer(t) ==
  CASE t.kind # "decorated" /\ t.form = "generator"  -> [text |-> <<"generator">>, error |-> FALSE]
    [] t.form = "plain" /\ ~Fails(LocalDoes(t))      -> [text |-> <<LocalDoes(t)>>, error |-> FALSE]
    [] OTHER                                         -> [text |-> <<"failed">>, error |-> TRUE]
GuardAnswer(t) ==
  CASE GuardDoes(t) = "no handler"                  -> [text |-> <<"[error]no handler">>, error |-> FALSE]
    [] Fails(GuardDoes(t)) \/ (t.form = "generator" /\ t.kind = "call") -> [text |-> <<"failed">>, error |-> TRUE]
    [] t.form = "generator" /\ t.kind = "handler" /\ ~Fails(t.does) -> [text |-> <<"more">>, error |-> FALSE]
    [] OTHER                                        -> [text |-> <<GuardDoes(t)>>, error |-> FALSE]

-----------------------------------------------------------------------------
(* Permissions.                                                            *)
\* The guard hands PermissionTypeFilter the wrapper, which has no role: nobody is an admin.
\* No level, an unknown one and a failed look-up let everybody.
GuardPermits(m) == m.level # "admin"
ManagerPermits(m) == m.level # "admin" \/ m.admin

-----------------------------------------------------------------------------
(* Hooks.                                                                  *)
\* The parameters that a hook of the original has (dispatch.py:211-216).
Signature ==
  [h \in HookNames |->
    CASE h = "on_plugin_loaded" -> <<"metadata">> [] h = "on_astrbot_loaded" -> <<>>
      [] h = "on_llm_response" -> <<"event", "response">>
      [] h = "on_using_llm_tool" -> <<"event", "tool", "args">>
      [] h = "on_llm_tool_respond" -> <<"event", "tool", "args", "result">>
      [] h = "on_plugin_error" -> <<"event", "plugin", "handler", "error", "error">>
      [] h = "on_after_message_sent" -> <<"event">>]

\* _hook_args_for_payload: the payload decides, and for the hooks of the life of a plugin
\* the event's name.
PayloadOf(h) ==
  CASE h \in {"on_using_llm_tool", "on_llm_tool_respond"} -> <<"tool", "args", "result">>
    [] h = "on_plugin_error" -> <<"plugin", "handler", "error", "error">>
    [] h = "on_llm_response" -> <<"response">>
    [] h \in {"on_after_message_sent", "on_plugin_loaded", "on_astrbot_loaded"} -> <<>>
Cut(s, n) == SubSeq(s, 1, IF n < Len(s) THEN n ELSE Len(s))
HookArgs(h, n) ==
  CASE h = "on_plugin_loaded"  -> Cut(<<"metadata">>, n)
    [] h = "on_astrbot_loaded" -> <<>>
    [] OTHER                   -> Cut(<<"event">> \o PayloadOf(h), n)

-----------------------------------------------------------------------------
NoAnswer == [text |-> <<>>, error |-> FALSE]
NoHook == [event |-> "", count |-> 0]

CallsInit ==
  /\ way \in {"rpc", "executor", "guard", "manager", "hook"}
  /\ tool \in ToolForms /\ (tool.form = "generator" => tool.does \in {"words", "raises"})
  /\ may \in [level : {"", "member", "admin"}, admin : BOOLEAN]
  /\ (way \notin {"guard", "manager"} => may = [level |-> "", admin |-> FALSE])
  /\ (way = "hook" => tool.kind = "decorated" /\ tool.first = "other" /\ tool.noted = "" /\ tool.does = "nothing")
  /\ hook \in [event : HookNames, count : 0..MaxHookArgs] \cup {NoHook} /\ (way = "hook") = (hook # NoHook)
  /\ stage = "asked" /\ given = <<>> /\ answer = NoAnswer

Permits == CASE way = "guard" -> GuardPermits(may) [] way = "manager" -> ManagerPermits(may) [] OTHER -> TRUE

Permit ==
  /\ stage = "asked" /\ Permits /\ stage' = "permitted"
  /\ UNCHANGED <<way, tool, may, given, answer, hook>>

Refuse ==
  /\ stage = "asked" /\ ~Permits /\ stage' = "refused"
  /\ answer' = [text |-> <<"[error]permission">>, error |-> FALSE]
  /\ UNCHANGED <<way, tool, may, given, hook>>

CallRpc ==
  /\ stage = "permitted" /\ way = "rpc" /\ stage' = "called"
  /\ given' = RpcArgs(tool) /\ answer' = RpcAnswer(tool)
  /\ UNCHANGED <<way, tool, may, hook>>

CallLocal ==
  /\ stage = "permitted" /\ way = "executor" /\ stage' = "called"
  /\ given' = LocalArgs(tool) /\ answer' = LocalAnswer(tool)
  /\ UNCHANGED <<way, tool, may, hook>>

CallGuarded ==
  /\ stage = "permitted" /\ way = "guard" /\ stage' = "called"
  /\ given' = <<"wrapper">> /\ answer' = GuardAnswer(tool)
  /\ UNCHANGED <<way, tool, may, hook>>

CallHook ==
  /\ stage = "permitted" /\ way = "hook" /\ stage' = "called"
  /\ given' = HookArgs(hook.event, hook.count)
  /\ UNCHANGED <<way, tool, may, answer, hook>>

OneCallNext == Permit \/ Refuse \/ CallRpc \/ CallLocal \/ CallGuarded \/ CallHook

-----------------------------------------------------------------------------
(* Properties.                                                             *)
\* A hook is given its parameters in the order that the original has them, and no more
\* than it has: at most those that the original gives.
HooksFit ==
  stage = "called" /\ way = "hook" =>
    /\ Len(given) <= hook.count
    /\ \A i \in DOMAIN given : i \in DOMAIN Signature[hook.event] => given[i] = Signature[hook.event][i]
    /\ Len(given) >= Len(Cut(Signature[hook.event], hook.count))

\* A subclass with run or call is given the same by the host and by a plugin's executor.
WaysAgree ==
  stage = "called" /\ tool.kind \in {"run", "call"} =>
    /\ way = "rpc" => given = LocalArgs(tool)
    /\ way = "executor" => given = RpcArgs(tool)

\* A tool that raises when it is called is an error in the answer; one that returned a result with words
\* is told in words, an error as one.
FailuresAreTold ==
  stage = "called" /\ way \in {"rpc", "executor"} =>
    /\ tool.does = "raises" /\ (way = "rpc" \/ tool.form = "plain") => answer.error
    /\ way = "rpc" /\ ~answer.error /\ tool.does = "mcp error" => answer.text = <<"[error]words">>
    /\ way = "rpc" /\ ~answer.error /\ tool.does \in {"words", "chain", "mcp"} => answer.text[1] = "words"

\* No tool that needs an admin runs for anybody else.
AdminOnly == stage \in {"permitted", "called"} /\ may.level = "admin" => way \notin {"guard", "manager"} \/ may.admin

\* What the code does not do: the handler of a FunctionTool is called before its call
\* (tool.py:99), an admin may use the tools of admins, and a result that is not of the known
\* kinds is told.
HandlerComesFirst == stage = "called" /\ way = "rpc" /\ tool.kind = "handler" /\ tool.does = "words" => ~answer.error
AdminMayCall == may.admin => stage # "refused"
ResultsAreTold == stage = "called" /\ way = "rpc" /\ tool.does \in {"dict", "mcp error without words"} => answer # NoAnswer

-----------------------------------------------------------------------------
(* From the docstring of a function to the declarations of tools that the  *)
(* models read: parse_docstring and register_llm_tool                      *)
(* (core/provider/func_tool_manager.py, core/star/register/star_handler.py)*)
(* and the three schemas of a ToolSet (core/agent/tool.py).                *)
(*                                                                         *)
(* A line of a docstring is a kind with a name, a type and whether it has  *)
(* a text after the colon; a JSON schema is a record of one shape.         *)

CONSTANTS
  DocLines,        \* the lines a docstring may have
  MaxDocLines,
  McpSchemas       \* parameters of the tools of an MCP server

Line(kind, name, type) == [kind |-> kind, name |-> name, type |-> type]

VARIABLES
  doc,          \* the lines of the docstring, in order
  step,         \* "writing", "parsed", "registered", "refused", "declared"
  parsed,       \* what parse_docstring returns
  params,       \* the parameters of the tool
  declared      \* the declarations for the three families of models

schemaVars == <<doc, step, parsed, params, declared>>

-----------------------------------------------------------------------------
(* parse_docstring.                                                        *)
\* args: a line of parameters may come; typed: the last of them had a type in brackets.
Nothing == [description |-> <<>>, params |-> <<>>, args |-> FALSE, typed |-> FALSE]
Param(l) == [name |-> l.name, type |-> l.type, text |-> <<l.name>>]
Described(d, l) == [d EXCEPT !.description = Append(@, l.name)]
Continued(d, l) == [d EXCEPT !.params[Len(d.params)].text = Append(@, l.name)]

InArgs(d, l) ==
  CASE l.kind \in {"google", "plain"} -> [d EXCEPT !.params = Append(@, Param(l)), !.typed = (l.type # "")]
    [] l.kind = "more" /\ d.typed     -> Continued(d, l)
    [] OTHER                          -> d

\* A section ends the parameters; a line ":param x:" begins them, as "Args:" does; a line
\* without a word before a colon goes on with the last one.
Parse(d, l) ==
  CASE l.kind = "blank" ->
         IF ~d.args /\ d.description # <<>> /\ Last(d.description) # "" THEN [d EXCEPT !.description = Append(@, "")] ELSE d
    [] l.kind = "section" /\ d.args      -> [Described(d, l) EXCEPT !.args = FALSE, !.typed = FALSE]
    [] l.kind \in {"colon", "typed"}     -> [d EXCEPT !.args = TRUE, !.params = Append(@, Param(l))]
    [] l.kind = "args"                   -> [d EXCEPT !.args = TRUE]
    [] l.kind \in {"section", "google", "plain", "more"} -> IF d.args THEN InArgs(d, l) ELSE Described(d, l)
ParseDoc(ls) == FoldLeft(Parse, Nothing, ls)

-----------------------------------------------------------------------------
(* register_llm_tool and spec_to_func.                                     *)
JsonType(t) ==
  CASE t \in {"int", "float"} -> "number" [] t = "bool" -> "boolean" [] t = "str" -> "string"
    [] t = "dict" -> "object" [] t \in {"list", "tuple", "set", "list[str]", "list[any]"} -> "array" [] OTHER -> t
ItemType(t) == CASE t = "list[str]" -> "string" [] t = "list[any]" -> "any" [] OTHER -> ""
SupportedTypes == {"string", "number", "object", "array", "boolean"}
Registrable(p) == p.type # "" /\ JsonType(p.type) \in SupportedTypes /\ ItemType(p.type) \in SupportedTypes \cup {""}

Schema(type, items, props, needed) ==
  [type |-> type, items |-> items, props |-> props, needed |-> needed, format |-> "", anyOf |-> {}, said |-> TRUE]
NoItems == <<>>
Leaf(type) == Schema(type, NoItems, << >>, {})
ParamSchema(p) ==
  IF ItemType(p.type) # "" THEN Schema("array", <<Leaf(ItemType(p.type))>>, << >>, {}) ELSE Leaf(JsonType(p.type))

\* The properties are a dict: of two parameters of one name the later one stays.
NamesOf(ps) == {ps[i].name : i \in DOMAIN ps}
LastOf(ps, n) == ps[CHOOSE i \in DOMAIN ps : ps[i].name = n /\ \A j \in DOMAIN ps : ps[j].name = n => j <= i]
SpecToFunc(ps) == Schema("object", NoItems, [n \in NamesOf(ps) |-> ParamSchema(LastOf(ps, n))], {})

-----------------------------------------------------------------------------
(* openai_schema, anthropic_schema and google_schema.                      *)
GoogleTypes == {"string", "number", "integer", "boolean", "array", "object", "null"}
GoogleFormats(t) ==
  CASE t = "string" -> {"enum", "date-time"} [] t = "integer" -> {"int32", "int64"}
    [] t = "number" -> {"float", "double"} [] OTHER -> {}

\* A list of types becomes the first that is not null, and a type Google does not know null.
Target(t) == CASE t = "string|null" -> "string" [] t = "null|integer" -> "integer" [] t = "null only" -> "string" [] OTHER -> t
GoogleType(t) == IF Target(t) \in GoogleTypes THEN Target(t) ELSE "null"
GoogleItems(s, items) ==
  CASE Target(s.type) # "array"             -> NoItems
    [] Target(s.type) = "array" /\ items # NoItems -> items
    [] OTHER                                -> <<[Leaf("string") EXCEPT !.said = FALSE]>>

\* Below the root are two levels: convert_schema calls itself on what it finds.
Alone(t) == [Leaf("") EXCEPT !.said = FALSE, !.type = t]
ConvertLeaf(s) ==
  IF s.anyOf # {} THEN [Alone("") EXCEPT !.anyOf = {GoogleType(t) : t \in s.anyOf}]
  ELSE [s EXCEPT !.type = GoogleType(s.type), !.format = IF @ \in GoogleFormats(GoogleType(s.type)) THEN @ ELSE "",
                 !.items = GoogleItems(s, @)]
ConvertItems(s) == [i \in DOMAIN s.items |-> ConvertLeaf(s.items[i])]
ConvertInner(s) ==
  IF s.anyOf # {} THEN ConvertLeaf(s)
  ELSE [ConvertLeaf(s) EXCEPT !.items = GoogleItems(s, ConvertItems(s)), !.props = [n \in DOMAIN s.props |-> ConvertLeaf(s.props[n])]]
Convert(s) == [ConvertInner(s) EXCEPT !.props = [n \in DOMAIN s.props |-> ConvertInner(s.props[n])]]

\* Google and OpenAI get the parameters, Anthropic what they hold.
Declare(s) ==
  [openai    |-> s,
   anthropic |-> [Schema("object", NoItems, s.props, s.needed) EXCEPT !.said = FALSE],
   google    |-> Convert(s)]

-----------------------------------------------------------------------------
NotDeclared == Declare(Schema("object", NoItems, << >>, {}))

SchemasInit ==
  /\ doc = <<>> /\ step = "writing" /\ parsed = Nothing
  /\ params = Schema("object", NoItems, << >>, {}) /\ declared = NotDeclared

\* The author of the plugin writes the docstring (external).
Write(l) ==
  /\ step = "writing" /\ Len(doc) < MaxDocLines
  /\ doc' = Append(doc, l)
  /\ UNCHANGED <<step, parsed, params, declared>>

ParseDocstring ==
  /\ step = "writing"
  /\ parsed' = ParseDoc(doc) /\ step' = "parsed"
  /\ UNCHANGED <<doc, params, declared>>

RegisterTool ==
  /\ step = "parsed" /\ \A i \in DOMAIN parsed.params : Registrable(parsed.params[i])
  /\ params' = SpecToFunc(parsed.params) /\ step' = "registered"
  /\ UNCHANGED <<doc, parsed, declared>>

\* The ValueError of a parameter without a type, or of a type that is not supported.
RefuseTool ==
  /\ step = "parsed" /\ \E i \in DOMAIN parsed.params : ~Registrable(parsed.params[i])
  /\ step' = "refused"
  /\ UNCHANGED <<doc, parsed, params, declared>>

\* MCPTool: the parameters are the server's.
FromServer(s) ==
  /\ step = "writing" /\ doc = <<>>
  /\ params' = s /\ step' = "registered"
  /\ UNCHANGED <<doc, parsed, declared>>

DeclareTool ==
  /\ step = "registered"
  /\ declared' = Declare(params) /\ step' = "declared"
  /\ UNCHANGED <<doc, parsed, params>>

SchemasNext ==
  \/ \E l \in DocLines : Write(l)
  \/ ParseDocstring \/ RegisterTool \/ RefuseTool \/ DeclareTool
  \/ \E s \in McpSchemas : FromServer(s)

-----------------------------------------------------------------------------
(* Properties.                                                             *)
\* A line is a parameter's only after "Args:" or a ":param", and before the next section.
Opened(ls, i) ==
  \E j \in 1..(i - 1) : /\ ls[j].kind \in {"args", "colon", "typed"}
                        /\ \A k \in (j + 1)..(i - 1) : ls[k].kind # "section"
Documents(ls, i) == ls[i].kind \in {"colon", "typed"} \/ (ls[i].kind \in {"google", "plain"} /\ Opened(ls, i))
Documented(ls) == SelectSeq([i \in DOMAIN ls |-> i], LAMBDA i : Documents(ls, i))

\* The parameters of a tool are the documented ones, in order; no line of a section is
\* one, and no line of the description is lost before the parameters begin.
DocumentedIsParsed ==
  step # "writing" /\ doc # <<>> =>
    /\ [i \in DOMAIN parsed.params |-> parsed.params[i].name] = [i \in DOMAIN Documented(doc) |-> doc[Documented(doc)[i]].name]
    /\ \A i \in DOMAIN doc : doc[i].kind = "more" /\ ~Opened(doc, i) => doc[i].name \in Range(parsed.description)

\* A tool that is registered has a parameter of a known type for every documented name.
RegisteredIsTyped ==
  step \in {"registered", "declared"} /\ doc # <<>> =>
    /\ DOMAIN params.props = {doc[i].name : i \in Range(Documented(doc))}
    /\ \A n \in DOMAIN params.props : params.props[n].type \in SupportedTypes

\* What Google is given: types it knows, and items of every array.
GoogleValid(s) ==
  /\ s.anyOf = {} => s.type \in GoogleTypes
  /\ s.anyOf = {} /\ s.type = "array" => s.items # NoItems
  /\ s.format \in GoogleFormats(s.type) \cup {""}
GoogleIsValid ==
  step = "declared" =>
    /\ GoogleValid(declared.google)
    /\ \A n \in DOMAIN declared.google.props :
         LET p == declared.google.props[n] IN
         /\ GoogleValid(p) /\ \A i \in DOMAIN p.items : GoogleValid(p.items[i])
         /\ \A m \in DOMAIN p.props : GoogleValid(p.props[m])

\* The three families are told of the same parameters.
SchemasAgree ==
  step = "declared" =>
    /\ DOMAIN declared.openai.props = DOMAIN declared.anthropic.props
    /\ DOMAIN declared.openai.props = DOMAIN declared.google.props
    /\ declared.anthropic.needed = declared.openai.needed

\* What the code does not keep: every line that goes on with a parameter is in its text,
\* and a parameter that may be null may be for Google too.
TextIsKept ==
  step # "writing" =>
    \A i \in DOMAIN doc : doc[i].kind = "more" /\ i > 1 /\ Documents(doc, i - 1) /\ parsed.params # <<>> =>
      \E p \in DOMAIN parsed.params : doc[i].name \in Range(parsed.params[p].text)
DescriptionsStay == step = "declared" => \A n \in DOMAIN params.props : params.props[n].said => declared.google.props[n].said
=============================================================================
