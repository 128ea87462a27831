----------------------------- MODULE WebRoutes ------------------------------
(***************************************************************************)
(* The web pages of a plugin: Context.register_web_api                     *)
(* (core/star/context.py), ListWebApis and HandleWebRequest                *)
(* (_bridge/dispatch.py), and the request a handler reads from a           *)
(* ContextVar (api/web.py).                                                *)
(*                                                                         *)
(* A route is a sequence of segments, a path one of words.  A plain        *)
(* handler runs in the thread of the server, a coroutine in a copy of that *)
(* thread's context; threads are used again.  The second part of the       *)
(* module is what a handler reads and returns.                             *)
(***************************************************************************)
EXTENDS Naturals, Sequences, FiniteSets, SequencesExt

CONSTANTS
  WebThreads,     \* threads of the gRPC server
  WebRequests,    \* requests, of which the host sends each at most once
  Routes,         \* what plugins register
  Paths,          \* what the host asks for
  Verbs,          \* HTTP methods
  MaxRoutes       \* bound on the registrations

Catching == {"<p>", "<q>"}           \* a segment that stands for any word
Unusable == {"<int:p>"}              \* one whose name no group may have
Unset    == "none"

ASSUME WebAssumption ==
  /\ Routes \subseteq Seq(STRING) /\ Paths \subseteq Seq(STRING)
  /\ Unset \notin WebRequests \union WebThreads \union Verbs

VARIABLES
  apis,        \* Context._web_apis
  webApis,     \* web_apis of the servicer, from which requests are served
  webStage,    \* of the plugin: "import", or "ready" when web_apis was set
  hits,        \* by request: its thread, path, verb, where it is and its route
  bound        \* _request_var in the context of a thread

webVars == <<apis, webApis, webStage, hits, bound>>

WebInit ==
  /\ apis = <<>> /\ webApis = <<>> /\ webStage = "import"
  /\ hits = [r \in WebRequests |->
       [at |-> "new", thread |-> Unset, kind |-> Unset, path |-> <<>>, verb |-> Unset,
        entry |-> 0, params |-> <<>>, sees |-> Unset]]
  /\ bound = [t \in WebThreads |-> Unset]

\* The same route with the same methods, in the same order, is replaced.
RegisterWebApi(route, methods) ==
  LET same == {i \in DOMAIN apis : apis[i].route = route /\ apis[i].methods = methods}
      new  == [route |-> route, methods |-> methods, born |-> Len(apis)]
  IN  /\ Len(apis) < MaxRoutes
      /\ apis' = IF same = {} THEN Append(apis, new) ELSE [apis EXCEPT ![Min(same)] = new]
      /\ UNCHANGED <<webApis, webStage, hits, bound>>

\* load, before the Star is built: the servicer gets a copy of the list.
CopyRoutes ==
  /\ webStage = "import" /\ webStage' = "ready"
  /\ webApis' = apis
  /\ UNCHANGED <<apis, hits, bound>>

\* ListWebApis answers what the servicer has.
ListWebApis == ToSet(webApis)

-----------------------------------------------------------------------------
\* _web_route_pattern: a name twice, or one no group may have, and the route
\* matches nothing.
Compiles(route) ==
  /\ \A i \in DOMAIN route : route[i] \notin Unusable
  /\ \A i, j \in DOMAIN route : route[i] = route[j] /\ route[i] \in Catching => i = j

\* mutant: the pattern has no end.
MatchesAtStart(route, path) ==
  /\ Compiles(route) /\ Len(route) <= Len(path)
  /\ \A i \in DOMAIN route : route[i] \in Catching \/ route[i] = path[i]

Matches(route, path) ==
  /\ Compiles(route) /\ Len(route) = Len(path)
  /\ \A i \in DOMAIN route : route[i] \in Catching \/ route[i] = path[i]

\* What the groups have caught.
Params(route, path) == [i \in {j \in DOMAIN route : route[j] \in Catching} |-> path[i]]

Serving(path, verb) ==
  {i \in DOMAIN webApis : verb \in ToSet(webApis[i].methods) /\ Matches(webApis[i].route, path)}

Step(r, to) == hits' = [hits EXCEPT ![r].at = to]

NotFound(r, path, verb) ==
  /\ hits[r].at = "new" /\ Serving(path, verb) = {}
  /\ hits' = [hits EXCEPT ![r].at = "answered", ![r].path = path, ![r].verb = verb]
  /\ UNCHANGED <<apis, webApis, webStage, bound>>

\* The first route that fits; the thread is busy until the answer is there.
HandleWebRequest(r, t, path, verb, kind) ==
  LET serving == Serving(path, verb)
      i == Min(serving)
  IN  /\ hits[r].at = "new" /\ \A q \in WebRequests : hits[q].at \in {"found", "runs"} => hits[q].thread # t
      /\ serving # {}
      /\ hits' = [hits EXCEPT ![r] = [at |-> "found", thread |-> t, kind |-> kind, path |-> path, verb |-> verb,
                    entry |-> i, params |-> Params(webApis[i].route, path), sees |-> Unset]]
      /\ UNCHANGED <<apis, webApis, webStage, bound>>

\* A plain handler: the variable of the thread is set around the call.
RunHere(r) ==
  /\ hits[r].at = "found" /\ hits[r].kind = "plain"
  /\ bound' = [bound EXCEPT ![hits[r].thread] = r]
  /\ hits' = [hits EXCEPT ![r].at = "runs", ![r].sees = r]
  /\ UNCHANGED <<apis, webApis, webStage>>

\* A coroutine sets the variable in its own context.
RunOnLoop(r) ==
  /\ hits[r].at = "found" /\ hits[r].kind = "coroutine"
  /\ hits' = [hits EXCEPT ![r].at = "runs", ![r].sees = r]
  /\ UNCHANGED <<apis, webApis, webStage, bound>>

\* The handler returns or raises: 200 or 500.  Of a coroutine the thread may
\* have waited long enough before its end: 500 too.
WebEnds(r) ==
  /\ hits[r].at = "runs" /\ Step(r, "answered")
  /\ bound' = [bound EXCEPT ![hits[r].thread] = Unset]
  /\ UNCHANGED <<apis, webApis, webStage>>

\* Another call of the host in a thread that is free: what astrbot.api.web
\* says about the request there.
Seen(t) == bound[t]

WebNext ==
  \/ \E route \in Routes, m \in {<<v>> : v \in Verbs} \union {SetToSeq(Verbs)} : RegisterWebApi(route, m)
  \/ CopyRoutes
  \/ \E r \in WebRequests :
       \/ RunHere(r) \/ RunOnLoop(r) \/ WebEnds(r)
       \/ \E path \in Paths, verb \in Verbs :
            \/ NotFound(r, path, verb)
            \/ \E t \in WebThreads, kind \in {"plain", "coroutine"} : HandleWebRequest(r, t, path, verb, kind)

WebSpec == WebInit /\ [][WebNext]_webVars

-----------------------------------------------------------------------------
(* The route that serves a request becomes its path when the words it       *)
(* caught are put back, and no usable route before it in the list with that *)
(* verb becomes the path whatever words are put in.                         *)
Words == UNION {ToSet(p) : p \in Paths}
Caught(route) == {i \in DOMAIN route : route[i] \in Catching}

Becomes(route, path, words) ==
  Compiles(route) /\ path = [i \in DOMAIN route |-> IF i \in Caught(route) THEN words[i] ELSE route[i]]

RouteFits ==
  \A r \in WebRequests : hits[r].entry > 0 =>
    LET e == webApis[hits[r].entry]
    IN  /\ Becomes(e.route, hits[r].path, hits[r].params)
        /\ \A i \in 1..(hits[r].entry - 1) :
             hits[r].verb \in ToSet(webApis[i].methods) =>
               ~\E words \in [Caught(webApis[i].route) -> Words] : Becomes(webApis[i].route, hits[r].path, words)

(* A handler sees its own request from its start to its end, whatever runs  *)
(* beside it, and a thread that serves another call sees none.              *)
RequestIsOwn ==
  /\ \A r \in WebRequests : hits[r].at = "runs" =>
       hits[r].sees = r /\ (hits[r].kind = "plain" => bound[hits[r].thread] = r)
  /\ \A t \in WebThreads :
       (\A r \in WebRequests : hits[r].at = "runs" => hits[r].thread # t) => Seen(t) = Unset

(* The docstring of ListWebApis (dispatch.py, lines 1081-1085): a route     *)
(* that the plugin registers while it is built, or later, is listed.  The   *)
(* list it would be appended to is a copy.                                  *)
LateRoutesAreListed == webStage = "ready" => \A e \in ToSet(apis) : e \in ListWebApis

-----------------------------------------------------------------------------
(* What a handler of a web page reads and returns: the request of          *)
(* astrbot.api.web and the one that stands for quart's, and the replies of *)
(* both made into the host's (api/web.py, _bridge/dispatch.py).            *)
(*                                                                         *)
(* A value is a kind with a token for its data; a tuple adds a status and  *)
(* headers, none of them being <<>>.                                       *)

CONSTANTS
  HeaderNames,           \* names of headers, each of which may be written in two ways
  QueryKeys       \* names in a query

VARIABLES
  webHandler,     \* a function, a coroutine, or a generator, which may be returned by a function
  returned,    \* what it returns, or yields one after the other
  webReply,       \* the host's response
  headers,     \* a _HeadersDict: its own keys, the map from lower-case names to them, and whether
               \* del was used on it, of which the map is not told
  pairs,       \* the pairs of a query
  upload       \* an uploaded file: its bytes, where it is read, and what was read since the seek

replyVars == <<webHandler, returned, webReply, headers, pairs, upload>>

NoStatus == 0
Value(kind) == [kind |-> kind, status |-> NoStatus, heads |-> <<>>]
Returnable == {"nothing", "dict", "text", "bytes", "list", "response", "broken"}
Bare == {Value(k) : k \in Returnable}
Tuples == [kind : Returnable, status : {201}, heads : {<<>>, <<"type">>, <<"other">>}]

Reply(status, type, body, heads) == [status |-> status, type |-> type, body |-> body, heads |-> heads]
NoReply == Reply(0, "", "", <<>>)

-----------------------------------------------------------------------------
(* Replies.                                                                *)
\* _run_web_handler: a generator that runs on the loop is a list of its items, one that a
\* plain function returns is its last item.
Result(how, vs) ==
  CASE how \in {"function", "coroutine", "function of coroutine"} -> vs[1]
    [] how = "generator"                                          -> Value("list")
    [] how = "function of generator"                              -> Last(vs)

\* _serialize_web_result.  A response's own status and headers come after the tuple's; a
\* response whose data cannot be had has its body, perhaps empty.
StatusOf(v) ==
  CASE v.kind \in {"response", "broken"}                          -> 418
    [] v.kind \notin {"response", "broken"} /\ v.status # NoStatus -> v.status
    [] OTHER                                                               -> 200
Said(v, type) == IF v.heads = <<"type">> THEN "given" ELSE type
Serialize(v) ==
  CASE v.kind = "nothing"            -> Reply(StatusOf(v), Said(v, ""), "", v.heads)
    [] v.kind = "dict"               -> Reply(StatusOf(v), Said(v, "json"), "json", v.heads)
    [] v.kind = "text"               -> Reply(StatusOf(v), Said(v, "plain"), "text", v.heads)
    [] v.kind = "response"           -> Reply(StatusOf(v), "own", "own", v.heads)
    [] v.kind = "broken"    -> Reply(StatusOf(v), "own", "", v.heads)
    [] OTHER                         -> Reply(StatusOf(v), Said(v, ""), "repr", v.heads)

\* FakeQuartApp.make_response, whose result is a response.
Make(v) ==
  CASE v.kind = "response" /\ v.status = NoStatus -> Serialize(v)
    [] v.kind = "dict"      -> Reply(StatusOf(v), Said(v, "json"), "json", v.heads)
    [] v.kind = "text"      -> Reply(StatusOf(v), Said(v, "default"), "text", v.heads)
    [] v.status # NoStatus /\ v.kind \notin {"dict", "text"} -> Reply(v.status, Said(v, "default"), "repr", v.heads)
    [] OTHER                -> Reply(200, "default", "", <<>>)

\* FakeJSONProvider.response of what jsonify was given: a list whose second item is a number
\* is taken for a tuple with a status, and any other is put into a list.
Jsonify(v) ==
  CASE v.kind = "list" /\ v.status # NoStatus -> Reply(v.status, "json", "first item", <<>>)
    [] v.kind = "list" /\ v.status = NoStatus -> Reply(200, "json", "list of list", <<>>)
    [] OTHER                                  -> Reply(StatusOf(v), "json", "json", <<>>)

-----------------------------------------------------------------------------
(* Requests.                                                               *)
\* The keys of a header, as written: <<name, way>>; the map has one for each name.
Written(h, n) == IF n \in DOMAIN h.map THEN h.map[n] ELSE 0
HeaderFound(h, n) == Written(h, n) # 0 /\ <<n, Written(h, n)>> \in h.keys
HasHeader(h, n) == n \in DOMAIN h.map
Without(f, n) == [m \in DOMAIN f \ {n} |-> f[m]]
SetHeader(h, n, w) ==
  [h EXCEPT
     !.keys = (IF Written(h, n) \in {0, w} THEN @ ELSE @ \ {<<n, Written(h, n)>>}) \cup {<<n, w>>},
     !.map = [m \in DOMAIN h.map \cup {n} |-> IF m = n THEN w ELSE h.map[m]]]
PopHeader(h, n) == [h EXCEPT !.keys = @ \ {<<n, Written(h, n)>>}, !.map = Without(@, n)]
DelHeader(h, n) == [h EXCEPT !.keys = @ \ {<<n, Written(h, n)>>}, !.deleted = TRUE]

\* PluginMultiDict.get takes the last value of a name, FakeMultiDict.get the first.
ArgPlaces(ps, k) == {i \in DOMAIN ps : ps[i][1] = k}
PluginGet(ps, k) == IF ArgPlaces(ps, k) = {} THEN "default" ELSE ps[Max(ArgPlaces(ps, k))][2]
QuartGet(ps, k) == IF ArgPlaces(ps, k) = {} THEN "default" ELSE ps[Min(ArgPlaces(ps, k))][2]

\* PluginUploadFile.read and write: reading goes on from where it is, writing at the end.
Chunk(u, size) == SubSeq(u.content, u.at + 1, IF u.at + size < Len(u.content) THEN u.at + size ELSE Len(u.content))
ReadUpload(u, size) ==
  [content |-> u.content, at |-> u.at + Len(Chunk(u, size)), got |-> u.got \o Chunk(u, size)]
SeekStart(u) == [content |-> u.content, at |-> 0, got |-> <<>>]
WriteUpload(u, b) == [u EXCEPT !.content = Append(@, b)]

-----------------------------------------------------------------------------
NoUpload == [content |-> <<>>, at |-> 0, got |-> <<>>]

RepliesInit ==
  /\ webHandler = "none" /\ returned = <<>> /\ webReply = NoReply
  /\ headers = [keys |-> {}, map |-> << >>, deleted |-> FALSE] /\ pairs = <<>> /\ upload = NoUpload

NoReplyYet == webHandler = "none"

ReturnReply(how, vs) ==
  /\ NoReplyYet /\ headers.keys = {} /\ pairs = <<>> /\ upload = NoUpload
  /\ webHandler' = how /\ returned' = vs
  /\ webReply' = Serialize(Result(how, vs))
  /\ UNCHANGED <<headers, pairs, upload>>

\* make_response and jsonify in a coroutine.
ReturnMade(v, json) ==
  /\ NoReplyYet /\ headers.keys = {} /\ pairs = <<>> /\ upload = NoUpload
  /\ webHandler' = IF json THEN "jsonify" ELSE "make_response"
  /\ returned' = <<v>>
  /\ webReply' = IF json THEN Jsonify(v) ELSE Make(v)
  /\ UNCHANGED <<headers, pairs, upload>>

\* An exception of the handler is a reply too.
RaiseReply ==
  /\ NoReplyYet /\ headers.keys = {} /\ pairs = <<>> /\ upload = NoUpload
  /\ webHandler' = "raised" /\ webReply' = Reply(500, "", "json", <<>>)
  /\ UNCHANGED <<returned, headers, pairs, upload>>

ChangeHeaders ==
  /\ NoReplyYet /\ pairs = <<>> /\ upload = NoUpload
  /\ \E n \in HeaderNames : \/ \E w \in {1, 2} : headers' = SetHeader(headers, n, w)
                            \/ HasHeader(headers, n) /\ headers' = PopHeader(headers, n)
                            \/ HeaderFound(headers, n) /\ headers' = DelHeader(headers, n)
  /\ UNCHANGED <<webHandler, returned, webReply, pairs, upload>>

AskWith ==
  /\ NoReplyYet /\ headers.keys = {} /\ upload = NoUpload /\ Len(pairs) < 3
  /\ \E k \in QueryKeys, v \in {"v", "w"} : pairs' = Append(pairs, <<k, v>>)
  /\ UNCHANGED <<webHandler, returned, webReply, headers, upload>>

UseUpload ==
  /\ NoReplyYet /\ headers.keys = {} /\ pairs = <<>>
  /\ \/ Len(upload.content) < 3 /\ \E b \in {"a", "b"} : upload' = WriteUpload(upload, b)
     \/ \E size \in 1..2 : upload' = ReadUpload(upload, size)
     \/ upload' = SeekStart(upload)
  /\ UNCHANGED <<webHandler, returned, webReply, headers, pairs>>

RepliesNext ==
  \/ \E v \in Bare \cup Tuples, how \in {"function", "coroutine", "function of coroutine"} : ReturnReply(how, <<v>>)
  \/ \E v, w \in Bare, how \in {"generator", "function of generator"} : ReturnReply(how, <<v, w>>)
  \/ \E v \in Bare \cup Tuples, json \in BOOLEAN : ReturnMade(v, json)
  \/ RaiseReply \/ ChangeHeaders \/ AskWith \/ UseUpload

RepliesSpec == RepliesInit /\ [][RepliesNext]_replyVars

-----------------------------------------------------------------------------
(* Properties.                                                             *)
\* Apart from a response, which has its own, a value is told with the status and the
\* headers of its tuple, and its default type does not take the place of a given one.
RepliesAreRight ==
  webHandler \in {"function", "coroutine", "function of coroutine"} =>
    LET v == returned[1] IN
    /\ v.heads = webReply.heads
    /\ v.kind \notin {"response", "broken"} =>
         /\ webReply.status = (IF v.status = NoStatus THEN 200 ELSE v.status)
         /\ v.heads = <<"type">> => webReply.type = "given"
    /\ v.kind = "dict" /\ v.heads # <<"type">> => webReply.type = "json"
    /\ v.kind = "response" => webReply.body = "own" /\ webReply.status = 418

\* make_response and a plain return tell the host the same of a dict, of a string and of a
\* response.
MakingAgrees ==
  webHandler = "make_response" /\ (returned[1].kind \in {"dict", "text"} \/ returned[1] = Value("response")) =>
    /\ webReply.body = Serialize(returned[1]).body /\ webReply.status = Serialize(returned[1]).status
    /\ returned[1].kind = "dict" => webReply = Serialize(returned[1])

\* A header is found in whatever way its name is written, and only one way is kept of it;
\* and a name the dict has no entry for is not said to be there, until del is used.
HeadersAgree ==
  \A n \in HeaderNames : /\ HeaderFound(headers, n) => HasHeader(headers, n)
                         /\ HasHeader(headers, n) => HeaderFound(headers, n) \/ headers.deleted
                         /\ Cardinality({k \in headers.keys : k[1] = n}) <= 1

\* The two requests find the same of a name that comes once in the query, and nothing of
\* one that does not.
ArgsAgree ==
  \A k \in QueryKeys :
    /\ (\A i, j \in ArgPlaces(pairs, k) : i = j) => PluginGet(pairs, k) = QuartGet(pairs, k)
    /\ PluginGet(pairs, k) = "default" <=> ArgPlaces(pairs, k) = {}

\* What was read since the beginning of an uploaded file is its beginning, whatever was
\* written meanwhile.
ReadInOrder == upload.at <= Len(upload.content) /\ upload.got = SubSeq(upload.content, 1, upload.at)

\* A web request is served by the first route that fits it, the handler sees its own
\* request only, finds in it what was sent, and what it returns is what the host is told
\* (dispatch.py, api/web.py).
WebIsRight ==
  /\ RouteFits /\ RequestIsOwn
  /\ RepliesAreRight /\ MakingAgrees /\ HeadersAgree /\ ArgsAgree /\ ReadInOrder

\* What the code does not do: "(resp, status)" sets the status (dispatch.py:1244), a
\* generator's items are told, and jsonify and make_response keep any data.
TupleSetsStatus == webHandler = "coroutine" /\ returned[1].status # NoStatus => webReply.status = returned[1].status
GeneratorsAreTold == webHandler = "generator" => webReply.body # "repr"
DataIsKept ==
  webHandler \in {"jsonify", "make_response"} /\ returned[1].kind \in {"list", "bytes"} =>
    webReply.body \notin {"", "first item", "list of list"}

=============================================================================
