---------------------------- MODULE MessageParts ----------------------------
(***************************************************************************)
(* Message components between the host and a plugin: the constructors      *)
(* (core/message/components.py), their two forms on the wire, JSON and     *)
(* proto (_bridge/serialize.py), and the events and results that carry     *)
(* them (astr_message_event.py, dispatch.py).                              *)
(*                                                                         *)
(* Parts and wire forms are records of one shape; an empty string is what  *)
(* Python takes for nothing.  A source of media is "http", a file "uri",   *)
(* "bare" (a path), "data" or "b64"; on the wire there are "bytes" too.    *)
(***************************************************************************)
EXTENDS Naturals, Sequences, FiniteSets, SequencesExt

CONSTANT MaxNodeDepth       \* _MAX_NODE_DEPTH, 50 in the code

Blank == [type |-> "Unknown", text |-> "", said |-> "", id |-> "", name |-> "", target |-> "",
          file |-> "", url |-> "", path |-> "", bytes |-> "", data |-> "", kids |-> <<>>]

VARIABLES
  stage,       \* "made" or "sent" (by the host), "wired", "read", and "back" after a hook
  way,         \* "json", "proto", or "hook": there and back again
  part,        \* the plugin's component
  wire,        \* its form on the wire
  came         \* the component at the other end, or the form that went back

partVars == <<stage, way, part, wire, came>>

Or(a, b) == IF a # "" THEN a ELSE b
Parts(t, fields) == [x \in DOMAIN Blank |-> IF x = "type" THEN t ELSE IF x \in DOMAIN fields THEN fields[x] ELSE Blank[x]]

Raised == Parts("raised", [text |-> ""])        \* no component: an exception

-----------------------------------------------------------------------------
(* The constructors.                                                       *)
\* fromURL, fromBase64, fromFileSystem, and of a path that is data.
Media(t) ==
  {Parts(t, [file |-> s]) : s \in {"http", "b64", "data"}} \cup {Parts(t, [file |-> "uri", path |-> "bare"])}

\* File(name, file, url): anything may be in either.
FileParts == {Parts("File", [name |-> "n", file |-> f, url |-> u]) : f \in {"", "uri", "bare", "b64", "http"}, u \in {"", "http"}}

\* Poke(id) has a method of the name that other parts have a value for.
Simple ==
  {Parts("Plain", [text |-> "hello"]), Parts("At", [target |-> "u", name |-> "n"]), Parts("AtAll", [target |-> "all"]),
   Parts("Face", [id |-> "1"]), Parts("Json", [data |-> "d"]), Parts("Forward", [id |-> "f"]),
   Parts("Poke", [id |-> "p", target |-> "method"]), Parts("Location", [name |-> "n"]),
   Parts("Reply", [id |-> "r", said |-> "q"]), Parts("Reply", [id |-> "r", said |-> "q", text |-> "q", target |-> "u"])}

Leaves == Simple \cup FileParts \cup Media("Image") \cup Media("Record") \cup Media("Video")
NodeOf(kids) == Parts("Node", [id |-> "0", name |-> "n", kids |-> kids])

\* A forwarded message in a forwarded message, one deeper than is read.
Deep[n \in Nat] == IF n = 0 THEN NodeOf(<<Parts("Plain", [text |-> "hello"])>>) ELSE NodeOf(<<Deep[n - 1]>>)
Trees == {NodeOf(<<p>>) : p \in Leaves} \cup {Deep[n] : n \in 1..(MaxNodeDepth + 1)}
           \cup {Parts("Nodes", [kids |-> <<NodeOf(<<Parts("Plain", [text |-> "hello"])>>)>>])}
Made == Leaves \cup Trees

-----------------------------------------------------------------------------
(* component_to_json and component_from_json.                              *)
MediaToJson(c) ==
  IF c.file = "http" THEN Parts(c.type, [url |-> "http"])
  ELSE Parts(c.type, [url |-> c.url, path |-> c.path,
                      bytes |-> IF c.file = "b64" THEN "bytes" ELSE "", file |-> IF c.file = "b64" THEN "" ELSE c.file])

FileToJson(c) ==
  Parts("File", [name |-> Or(c.name, "file"), url |-> c.url, bytes |-> IF c.file = "b64" THEN "bytes" ELSE "",
                 file |-> IF c.file = "b64" THEN "" ELSE c.file])

\* What is no base64 becomes the path.
VideoToJson(c) ==
  Parts("Video", [url |-> c.url, bytes |-> IF c.url = "" /\ c.file = "b64" THEN "bytes" ELSE "",
                  path |-> IF c.url = "" /\ c.file \notin {"", "b64"} THEN c.file ELSE c.path])

RECURSIVE ToJson(_, _)
ToJson(c, depth) ==
  CASE c.type \in {"Plain"}           -> Parts("Plain", [text |-> c.text])
    [] c.type = "AtAll"               -> Parts("AtAll", [text |-> ""])
    [] c.type = "At"                  -> Parts("At", [target |-> c.target, name |-> c.name])
    [] c.type \in {"Image", "Record"} -> MediaToJson(c)
    [] c.type = "File"                -> FileToJson(c)
    [] c.type = "Video"               -> VideoToJson(c)
    [] c.type \in {"Face", "Forward"} -> Parts(c.type, [id |-> c.id])
    [] c.type = "Emoji"               -> Parts("Emoji", [id |-> c.id, url |-> c.url])
    [] c.type = "Json"                -> Parts("Json", [data |-> c.data])
    [] c.type = "Reply"               -> Parts("Reply", [id |-> c.id, text |-> c.said])
    [] c.type = "Node"                ->
         IF depth >= MaxNodeDepth THEN Blank
         ELSE Parts("Node", [id |-> c.id, name |-> c.name, kids |-> [i \in DOMAIN c.kids |-> ToJson(c.kids[i], depth + 1)]])
    [] c.type = "Nodes"               -> Parts("Nodes", [kids |-> [i \in DOMAIN c.kids |-> ToJson(c.kids[i], depth + 1)]])
    [] OTHER                          -> Parts("Unknown", [text |-> Or(c.text, "repr")])

\* Only an image takes bytes, and only when there is nothing else.
ImageFrom(w) == Parts("Image", [file |-> Or(w.file, IF w.bytes # "" /\ w.url = "" /\ w.path = "" THEN "b64" ELSE ""),
                                url |-> w.url, path |-> w.path])
RecordFrom(w) == Parts("Record", [file |-> w.file, url |-> w.url, path |-> w.path])
FileFrom(w)   == Parts("File", [name |-> w.name, file |-> Or(w.file, w.path), url |-> w.url])
VideoFrom(w)  == Parts("Video", [file |-> Or(w.file, w.url), url |-> w.url, path |-> w.path])
AtFrom(w)     == IF w.target \in {"all", "0"} THEN Parts("AtAll", [target |-> "all"])
                 ELSE Parts("At", [target |-> Or(w.target, "0"), name |-> w.name])

\* What the two forms have in common.
From(w) ==
  CASE w.type = "Plain"  -> Parts("Plain", [text |-> w.text])
    [] w.type = "At"     -> AtFrom(w)
    [] w.type = "AtAll"  -> Parts("AtAll", [target |-> "all"])
    [] w.type = "Image"  -> ImageFrom(w)
    [] w.type = "Record" -> RecordFrom(w)
    [] w.type = "File"   -> FileFrom(w)
    [] w.type = "Video"  -> VideoFrom(w)
    [] w.type = "Face"   -> Parts("Face", [id |-> IF w.id = "1" THEN "1" ELSE "0"])
    [] w.type = "Emoji"  -> Parts("Emoji", [id |-> w.id, url |-> w.url])
    [] w.type = "Json"   -> Parts("Json", [data |-> w.data])
    [] OTHER             -> Parts("Unknown", [text |-> w.text])

RECURSIVE FromJson(_, _)
FromJson(w, depth) ==
  CASE w.type = "Reply" -> Parts("Reply", [id |-> w.id, said |-> w.text])
    [] w.type = "Node"  ->
         IF depth >= MaxNodeDepth THEN Blank
         ELSE Parts("Node", [id |-> w.id, name |-> w.name, kids |-> [i \in DOMAIN w.kids |-> FromJson(w.kids[i], depth + 1)]])
    [] OTHER            -> From(w)

-----------------------------------------------------------------------------
(* component_to_proto and component_from_proto.                            *)
\* File.file: the path of a file that is there or not, or what a download gives.
FileProperty(c, fetched) ==
  CASE c.file \in {"uri", "bare"}          -> "bare"
    [] c.file = "b64"                      -> "mangled"
    [] c.file = "http" \/ c.url = "http"   -> IF fetched THEN "bare" ELSE "raises"
    [] OTHER                               -> ""

\* Bytes of base64 or of a data URI; a path without "://".
Raw(c) == Or(c.file, c.path)

ToProtoWithoutFile(c, fetched) ==
  IF c.type = "File" /\ FileProperty(c, fetched) = "raises" THEN Raised
  ELSE Parts(c.type, [text |-> c.text, target |-> c.target, name |-> c.name, url |-> c.url, id |-> c.id, path |-> c.path,
         data |-> IF c.type = "Json" THEN c.data ELSE "",
         bytes |-> IF c.type \in {"Image", "Record"} /\ Raw(c) \in {"b64", "data"} THEN "bytes" ELSE ""])

ToProto(c, fetched) ==
  IF c.type = "File" /\ FileProperty(c, fetched) = "raises" THEN Raised
  ELSE
    Parts(IF c.type = "AtAll" THEN "At" ELSE c.type,
      [text |-> c.text, target |-> c.target, name |-> c.name, url |-> c.url, id |-> c.id,
       file |-> IF c.type = "File" THEN FileProperty(c, fetched) ELSE c.file,
       path |-> IF c.type \in {"Image", "Record"} /\ Raw(c) = "bare" THEN "bare" ELSE c.path,
       data |-> IF c.type = "Json" THEN c.data ELSE "",
       bytes |-> IF c.type \in {"Image", "Record"} /\ Raw(c) \in {"b64", "data"} THEN "bytes" ELSE ""])

\* The message a reply quotes, as deep as is allowed.  The content of a node
\* is parsed JSON, and reading it as proto raises.
RECURSIVE FromProto(_, _)
FromProto(w, depth) ==
  CASE w.type = "Reply" ->
         Parts("Reply", [id |-> w.id, said |-> w.text, text |-> w.text, target |-> w.target,
           kids |-> IF depth >= MaxNodeDepth THEN <<>> ELSE [i \in DOMAIN w.kids |-> FromProto(w.kids[i], depth + 1)]])
    [] w.type = "Node"  ->
         IF depth >= MaxNodeDepth THEN Blank
         ELSE IF w.kids # <<>> THEN Raised
         ELSE Parts("Node", [id |-> Or(w.name, "0"), name |-> w.name])
    [] OTHER            -> From(w)

-----------------------------------------------------------------------------
(* What the host sends.                                                    *)
Quote[n \in Nat] ==
  Parts("Reply", [id |-> "r", text |-> "q", kids |-> IF n = 0 THEN <<>> ELSE <<Quote[n - 1]>>])

Wires ==
  {Parts(t, [file |-> f, url |-> u, path |-> p, bytes |-> b]) :
     t \in {"Image", "Record", "Video"}, f \in {"", "bare", "uri"}, u \in {"", "http"}, p \in {"", "bare"}, b \in {"", "bytes"}}
  \cup {Parts("File", [name |-> "n", file |-> f, url |-> u]) : f \in {"", "bare", "uri"}, u \in {"", "http"}}
  \cup {Parts("Plain", [text |-> "hello"]), Parts("At", [target |-> "u"]), Parts("At", [target |-> "all"]),
        Parts("AtAll", [text |-> ""]), Parts("Face", [id |-> "1"]), Parts("Face", [id |-> "x"]), Parts("Json", [data |-> "d"]),
        Parts("Emoji", [id |-> "e", url |-> "http"]), Parts("Forward", [id |-> "f"])}
  \cup {Quote[n] : n \in 0..(MaxNodeDepth + 1)}
  \cup {Parts("Node", [name |-> "n", kids |-> k]) : k \in {<<>>, <<Parts("Plain", [text |-> "hello"])>>}}

PartInit ==
  /\ came = Blank
  /\ \/ stage = "made" /\ way \in {"json", "proto"} /\ part \in Made /\ wire = Blank
     \/ stage = "sent" /\ way \in {"proto", "hook"} /\ part = Blank /\ wire \in Wires

\* What the plugin answers or sends.
Answer ==
  /\ stage = "made" /\ stage' = "wired"
  /\ \E fetched \in BOOLEAN :
       wire' = IF way = "json" THEN ToJson(part, 0) ELSE ToProto(part, fetched)
  /\ UNCHANGED <<way, part, came>>

\* And the same form read by the SDK, as another plugin does.
Arrive ==
  /\ stage = "wired" /\ wire # Raised /\ stage' = "read"
  /\ came' = IF way = "json" THEN FromJson(wire, 0) ELSE FromProto(wire, 0)
  /\ UNCHANGED <<way, part, wire>>

\* AstrMessageEvent.from_proto: one component that raises, and there is no event.
ReadEvent ==
  /\ stage = "sent" /\ way = "proto" /\ stage' = "read"
  /\ came' = FromProto(wire, 0)
  /\ UNCHANGED <<way, part, wire>>

\* HandleHook of a result: such a component becomes an empty Unknown.
ReadResult ==
  /\ stage = "sent" /\ way = "hook" /\ stage' = "hooked"
  /\ part' = IF FromProto(wire, 0) = Raised THEN Blank ELSE FromProto(wire, 0)
  /\ UNCHANGED <<way, wire, came>>

\* The hook has left the result alone, which goes back.
ReturnResult ==
  /\ stage = "hooked" /\ stage' = "back"
  /\ \E fetched \in BOOLEAN : came' = ToProto(part, fetched)
  /\ UNCHANGED <<way, part, wire>>

PartNext == Answer \/ Arrive \/ ReadEvent \/ ReadResult \/ ReturnResult

-----------------------------------------------------------------------------
\* A local file by its path or URI, and bytes in any of their forms.
Same(s) == CASE s \in {"uri", "bare"} -> "local" [] s \in {"data", "b64", "bytes"} -> "bytes" [] OTHER -> s

\* Where a part's media comes from: convert_to_file_path, get_file.
Picked(c) == Same(CASE c.type = "Image" -> Or(c.url, c.file)
                    [] c.type \in {"Record", "Video"} -> Or(c.file, Or(c.url, c.path))
                    [] c.type = "File" -> Or(c.file, c.url))

RECURSIVE Means(_)
Means(c) ==
  CASE c.type \in {"Image", "Record", "Video", "File"} -> <<c.type, Picked(c)>>
    [] c.type = "Plain" -> <<c.type, c.text>>
    [] c.type \in {"At", "AtAll"} -> <<"At", c.target>>
    [] c.type = "Node" -> <<c.type, [i \in DOMAIN c.kids |-> Means(c.kids[i])]>>
    [] OTHER -> <<c.type, c.id, c.data>>

RECURSIVE Height(_)
Height(c) == IF c.kids = <<>> THEN 0 ELSE 1 + FoldSeq(LAMBDA k, h : IF Height(k) > h THEN Height(k) ELSE h, 0, c.kids)

\* The parts each form has a place for.
InJson  == {"Plain", "At", "AtAll", "Face", "Json", "Reply", "Image", "Node"}
InProto == {"Plain", "At", "AtAll", "Face", "Json", "Reply", "Image", "Record", "Video"}

RECURSIVE AllIn(_, _)
AllIn(c, types) == c.type \in types /\ \A i \in DOMAIN c.kids : AllIn(c.kids[i], types)

\* Sources on the wire, or of a part.
On(w) == {Same(s) : s \in {w.file, w.url, w.path, w.bytes} \ {""}}

(* A part a form has a place for means the same at the other end: the same  *)
(* text, target or id, and media from the same source; of a tree, each part *)
(* of it that is not too deep.  A file is downloaded on its way, and has    *)
(* its source still, unless that is base64, or a URL in the place of a path.*)
MeaningSurvives ==
  stage = "read" /\ wire # Raised /\ part # Blank =>
    /\ way = "json" /\ AllIn(part, InJson) /\ Height(part) <= MaxNodeDepth => Means(came) = Means(part)
    /\ way = "proto" /\ part.type \in InProto => Means(came) = Means(part)
    /\ way = "proto" /\ part.type = "File" /\ part.file \notin {"b64", "http"} => On(part) \subseteq On(came)

(* However deep the host nests its messages, what a plugin gets is not      *)
(* deeper than the limit.                                                   *)
DepthIsBounded ==
  stage = "read" /\ came # Raised => Height(came) <= MaxNodeDepth

(* A result that a hook leaves alone goes back with the parts it came with: *)
(* the same type, text and id, and some of the sources of its media, when   *)
(* it is of a type with a place in proto, and audio, video or a file is not *)
(* given by its bytes only.                                                 *)
HookKeepsResult ==
  stage = "back" /\ came # Raised /\ wire.type \in InProto \cup {"File"} =>
    /\ came.type = wire.type \/ {came.type, wire.type} \subseteq {"At", "AtAll"}
    /\ came.text = wire.text /\ (wire.id # "x" => came.id = wire.id)
    /\ On(wire) \ {"bytes"} # {} \/ wire.type = "Image" => (On(wire) = {} \/ On(came) \cap On(wire) # {})

(* The docstring of component_from_proto: media comes as base64_data        *)
(* (serialize.py, lines 254-255).  Only an image's does.                    *)
BytesArrive == stage = "read" /\ wire # Raised /\ came # Raised /\ "bytes" \in On(wire) => On(came) # {}

(* The comment of from_event_json: a component that cannot be read must not *)
(* take the chain with it (astr_message_event.py, line 536).                *)
EventIsRead == stage = "read" => came # Raised

(* The comment of component_to_json: a component is written without         *)
(* downloading what it names (serialize.py, lines 148-150).                 *)
WritingIsPure == stage = "wired" /\ part.type = "File" => ToProto(part, TRUE) = ToProto(part, FALSE)
=============================================================================
