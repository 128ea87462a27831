----------------------------- MODULE MediaFiles -----------------------------
(***************************************************************************)
(* The files behind a media reference: MediaResolver, the converters and   *)
(* compress_image (core/utils/media_utils.py), download_file and what it   *)
(* stands on (core/utils/io.py).                                           *)
(*                                                                         *)
(* A file is a name with a suffix, in the temporary directory or not; what *)
(* is in it is one of a few contents.  Two files are there before: "own",  *)
(* a user's, and "tmp", a user's in the temporary directory.  The calls    *)
(* run on one event loop, and so everything between two awaits is one      *)
(* action; names of new files never clash.                                 *)
(***************************************************************************)
EXTENDS Naturals, FiniteSets

CONSTANTS
  MediaCalls,     \* calls that run at the same time, each once
  MediaOps,       \* what is called
  Sources,        \* forms of a reference
  Contents,       \* of what it refers to
  FileSuffixes,       \* of a user's files
  NewNames        \* names of new files

None    == "none"
Raised  == "raised"
Partial == "partial"                    \* what a killed or failing writer leaves

Audio    == {"wav", "amr", "silk"}
Pictures == {"jpg", "png", "alpha", "gif"}      \* alpha and gif (animated) stay as they are

\* Operations of a MediaResolver, and the functions that make a new file of a file.
Resolving  == {"to_path", "as_path", "to_bytes", "to_base64", "to_base64_data", "image", "audio"}
Converting == {"to_amr", "to_mp4", "ensure_wav", "ensure_jpeg", "cover", "compress"}

VARIABLES
  smooth,      \* whether the disk has room, files can be moved and nobody cancels
  disk,        \* files that exist, with what is in them
  madeBy,      \* the call that made a file, or "user"
  media        \* by call: its operation and source, where it is, its file and its result

mediaVars == <<smooth, disk, madeBy, media>>

Files == {"own", "tmp"} \cup NewNames
Exists(f) == disk[f].content # None

New(m) == [content |-> m, suffix |-> "bin", temp |-> TRUE]
Free == {f \in NewNames : ~Exists(f) /\ madeBy[f] = None}

MediaInit ==
  /\ smooth \in BOOLEAN
  /\ \E m \in Contents, s \in FileSuffixes :
       /\ disk = [f \in Files |->
            CASE f = "own" -> [content |-> m, suffix |-> s, temp |-> FALSE]
              [] f = "tmp" -> [content |-> m, suffix |-> s, temp |-> TRUE]
              [] OTHER     -> New(None)]
       /\ media = [c \in MediaCalls |->
            [op |-> None, source |-> None, means |-> m, at |-> "new", file |-> None, result |-> None,
             mime |-> None]]
  /\ madeBy = [f \in Files |-> IF f \in NewNames THEN None ELSE "user"]

Goes(c, to) == media' = [media EXCEPT ![c].at = to]
Ends(c, result) == media' = [media EXCEPT ![c].at = "end", ![c].result = result]
Fails(c) == Ends(c, Raised)

-----------------------------------------------------------------------------
\* MediaResolver(source): a path or file URI names a user's file or none, the
\* other forms carry what they mean (here the same); base64 may lack its padding.
Local(src) == src \in {"own", "tmp"}
Call(c, op, src) ==
  /\ media[c].at = "new"
  /\ (op \in Converting) => Local(src) \/ src = "missing"
  /\ media' = [media EXCEPT ![c].op = op, ![c].source = src,
                 ![c].at = IF op \in Converting THEN "convert" ELSE "resolve"]
  /\ UNCHANGED <<disk, madeBy>>

\* _write_base64: what is no base64 is written as it is, and a write that fails
\* leaves the file that was opened.
Written(c) == IF media[c].source = "unpadded" THEN "text" ELSE media[c].means

Write(c, f, content) ==
  /\ f \in Free
  /\ disk' = [disk EXCEPT ![f].content = content]
  /\ madeBy' = [madeBy EXCEPT ![f] = c]

\* _resolve_path, of a base64 or data reference.
ResolveData(c) ==
  /\ media[c].at = "resolve" /\ media[c].source \in {"base64", "unpadded", "data"}
  /\ \E f \in Free :
       \/ Write(c, f, Written(c)) /\ media' = [media EXCEPT ![c].at = "resolved", ![c].file = f]
       \/ ~smooth /\ Write(c, f, Partial) /\ Fails(c)

\* Only resolve_image_ref_to_base64_data answers nothing instead of raising.
Failed(op) == IF op = "image" THEN None ELSE Raised

\* A data URI that is not base64, a URL that cannot be fetched
\* (_download_to_temp removes what it began), no URL and no file.
CannotResolve(c) ==
  /\ media[c].at = "resolve" /\ media[c].source \in {"baddata", "http", "missing"}
  /\ Ends(c, Failed(media[c].op))
  /\ UNCHANGED <<disk, madeBy>>

\* _download_to_temp reads until nothing comes: of a body whose length was announced
\* that is also where the connection was cut off.
Received(c) == {media[c].means, Partial}

Download(c) ==
  /\ media[c].at = "resolve" /\ media[c].source = "http"
  /\ \E f \in Free, content \in Received(c) :
       Write(c, f, content) /\ media' = [media EXCEPT ![c].at = "resolved", ![c].file = f]

\* A local path, or a file URI, which need not be there.
ResolveLocal(c) ==
  /\ media[c].at = "resolve" /\ Local(media[c].source)
  /\ IF Exists(media[c].source)
     THEN media' = [media EXCEPT ![c].at = "resolved", ![c].file = media[c].source]
     ELSE \/ Ends(c, Failed(media[c].op))
          \/ media' = [media EXCEPT ![c].at = "resolved", ![c].file = media[c].source]
  /\ UNCHANGED <<disk, madeBy>>

\* _try_cleanup, cleanup: whatever is in the temporary directory goes.
Removed(f) == IF disk[f].temp THEN [disk EXCEPT ![f].content = None] ELSE disk

-----------------------------------------------------------------------------
\* to_path: the file is the caller's.
ToPath(c) ==
  /\ media[c].at = "resolved" /\ media[c].op = "to_path"
  /\ Ends(c, media[c].file) /\ UNCHANGED <<disk, madeBy>>

\* as_path and open: the caller has the file in the block, and may detach it.
Enter(c) ==
  /\ media[c].at = "resolved" /\ media[c].op = "as_path"
  /\ Goes(c, "inside") /\ UNCHANGED <<disk, madeBy>>

Detach(c) ==
  /\ media[c].at = "inside" /\ Goes(c, "detached") /\ UNCHANGED <<disk, madeBy>>

\* However the block ends.
Leave(c) ==
  /\ media[c].at \in {"inside", "detached"}
  /\ \/ media[c].at = "inside" /\ disk' = Removed(media[c].file) /\ Ends(c, "left")
     \/ media[c].at = "detached" /\ Ends(c, media[c].file) /\ UNCHANGED disk
  /\ UNCHANGED madeBy

RemovedIfRead(c) ==
  IF media[c].op = "to_bytes" /\ ~Exists(media[c].file) THEN disk
  ELSE IF media[c].op = "image" THEN disk ELSE Removed(media[c].file)

\* to_bytes, to_base64, to_base64_data: read, and remove in any case.
AfterRead(c) == Removed(media[c].file)

Read(c) ==
  /\ media[c].at = "resolved" /\ media[c].op \in Resolving \ {"to_path", "as_path"}
  /\ disk' = AfterRead(c)
  /\ IF ~Exists(media[c].file)
     THEN Ends(c, IF media[c].op \in {"image", "to_base64_data"} THEN None ELSE Raised)
     ELSE media' = [media EXCEPT ![c].at = IF media[c].op = "image" THEN "detect" ELSE "end",
                      ![c].result = disk[media[c].file].content]
  /\ UNCHANGED madeBy

\* detect_image_mime_type, in a thread: by the first bytes, which a picture that is
\* cut off has or has not.
Picture(content) == IF content \in Pictures THEN content ELSE None
Seen(c) ==
  IF media[c].result = Partial THEN {None, Picture(media[c].means)} ELSE {Picture(media[c].result)}

\* By default only if the reference says so.
Mime(c, seen) ==
  IF seen # None THEN seen
  ELSE IF media[c].source \in {"base64", "unpadded"} THEN "default" ELSE None

\* resolve_image_ref_to_base64_data: nothing, rather than no picture.
Detect(c) ==
  /\ media[c].at = "detect"
  /\ \E seen \in Seen(c) :
       media' = [media EXCEPT ![c].at = "end", ![c].mime = Mime(c, seen),
                   ![c].result = IF Mime(c, seen) = None THEN None ELSE @]
  /\ UNCHANGED <<disk, madeBy>>

-----------------------------------------------------------------------------
\* What a conversion is to become.
Target(op) ==
  CASE op = "to_amr" -> "amr" [] op = "to_mp4" -> "mp4" [] op = "ensure_wav" -> "wav"
    [] op \in {"ensure_jpeg", "cover"} -> "jpg" [] op = "compress" -> "small"

\* What the first bytes tell of audio.
Magic(f) == IF disk[f].content \in Audio THEN disk[f].content ELSE None

\* Where the source is returned as it is: by the suffix and the first bytes, by
\* the suffix alone, by the bytes, by both or for want of a still and opaque
\* picture, and for a small or moving one.
AudioSo(f) == disk[f].suffix = "amr" /\ (~Exists(f) \/ Magic(f) = "amr")
VideoSo(f) == disk[f].suffix = "mp4"
WavSo(f)   == ~Exists(f) \/ Magic(f) = "wav"
JpegSo(f)  ==
  \/ ~Exists(f) \/ disk[f].content \in {"alpha", "gif"}
  \/ disk[f].content = "jpg" /\ disk[f].suffix = "jpg"
SmallSo(f) == ~Exists(f) \/ disk[f].content \in {"gif", "small"}

AlreadySo(op, f) ==
  CASE op = "to_amr" -> AudioSo(f) [] op = "to_mp4" -> VideoSo(f) [] op = "ensure_wav" -> WavSo(f)
    [] op = "ensure_jpeg" -> JpegSo(f) [] op = "compress" -> SmallSo(f) [] OTHER -> FALSE

\* Opening what is no picture raises before anything is written.
NotAPicture(op, f) == op \in {"ensure_jpeg", "compress"} /\ disk[f].content \notin Pictures

\* A path that leads nowhere may have any suffix.
Source(c) == IF media[c].source = "missing" THEN None ELSE media[c].source

ReturnSource(c) ==
  /\ media[c].at = "convert"
  /\ \/ Source(c) = None /\ media[c].op # "cover"
     \/ Source(c) # None /\ AlreadySo(media[c].op, Source(c))
     \/ Source(c) # None /\ media[c].op = "compress" /\ NotAPicture("compress", Source(c))
  /\ Ends(c, IF Source(c) = None THEN "missing" ELSE Source(c))
  /\ UNCHANGED <<disk, madeBy>>

\* No ffmpeg, a source that is not there, or what Pillow cannot open.
CannotConvert(c) ==
  /\ media[c].at = "convert"
  /\ Source(c) # None => ~AlreadySo(media[c].op, Source(c))
  /\ \/ media[c].op \notin {"ensure_jpeg", "compress"} /\ (Source(c) = None => media[c].op # "ensure_wav")
     \/ Source(c) # None /\ NotAPicture(media[c].op, Source(c))
  /\ Fails(c) /\ UNCHANGED <<disk, madeBy>>

\* ffmpeg, or a thread with Pillow, has begun the new file.
Convert(c) ==
  /\ media[c].at = "convert" /\ Source(c) # None
  /\ ~AlreadySo(media[c].op, Source(c)) /\ ~NotAPicture(media[c].op, Source(c))
  /\ \E f \in Free :
       /\ disk' = [disk EXCEPT ![f] = [content |-> Partial, suffix |-> Target(media[c].op), temp |-> TRUE]]
       /\ madeBy' = [madeBy EXCEPT ![f] = c]
       /\ media' = [media EXCEPT ![c].at = "converting", ![c].file = f]

Converted(c) ==
  /\ media[c].at = "converting"
  /\ Source(c) # None /\ Exists(Source(c))
  /\ disk' = [disk EXCEPT ![media[c].file].content = Target(media[c].op)]
  /\ Ends(c, media[c].file) /\ UNCHANGED madeBy

\* The converter fails: what it wrote is removed (of compress: by Pillow).
ConversionFails(c) ==
  /\ media[c].at = "converting"
  /\ disk' = [disk EXCEPT ![media[c].file].content = None]
  /\ Fails(c) /\ UNCHANGED madeBy

\* A conversion that is cancelled leaves its process, and what that writes.
Cancelled(c) ==
  /\ media[c].at = "converting" /\ ~smooth
  /\ Fails(c) /\ UNCHANGED <<disk, madeBy>>

-----------------------------------------------------------------------------
\* download_file: an HTTP status is an error of its own; a certificate that
\* fails is tried again without a check, once, if the caller allows it; what
\* came is moved to the path asked for.
Fetch(c, allowed) ==
  /\ media[c].at = "new" /\ "download" \in MediaOps
  /\ media' = [media EXCEPT ![c].op = "download", ![c].source = IF allowed THEN "lax" ELSE "strict",
                 ![c].at = "fetch"]
  /\ UNCHANGED <<disk, madeBy>>

FetchFails(c, why) ==
  /\ media[c].at \in {"fetch", "unchecked"}
  /\ \/ why = "tls" /\ media[c].at = "fetch" /\ media[c].source = "lax" /\ Goes(c, "unchecked")
     \/ (why = "tls" => media[c].at = "unchecked" \/ media[c].source = "strict") /\ Fails(c)
  /\ UNCHANGED <<disk, madeBy>>

Fetched(c) ==
  /\ media[c].at \in {"fetch", "unchecked"}
  /\ \E f \in Free, content \in Received(c) :
       Write(c, f, content) /\ media' = [media EXCEPT ![c].at = "move", ![c].file = f]

\* To the path, out of the temporary directory; a move that raises leaves it.
Move(c) ==
  /\ media[c].at = "move"
  /\ \/ disk' = [disk EXCEPT ![media[c].file].temp = FALSE] /\ Ends(c, media[c].file)
     \/ ~smooth /\ Fails(c) /\ UNCHANGED disk
  /\ UNCHANGED madeBy

MediaNext == UNCHANGED smooth /\
  \E c \in MediaCalls :
    \/ \E op \in MediaOps, src \in Sources : Call(c, op, src)
    \/ ResolveData(c) \/ CannotResolve(c) \/ Download(c) \/ ResolveLocal(c)
    \/ ToPath(c) \/ Enter(c) \/ Detach(c) \/ Leave(c) \/ Read(c) \/ Detect(c)
    \/ ReturnSource(c) \/ CannotConvert(c) \/ Convert(c) \/ Converted(c) \/ ConversionFails(c) \/ Cancelled(c)
    \/ \E allowed \in BOOLEAN : Fetch(c, allowed)
    \/ \E why \in {"tls", "status"} : FetchFails(c, why)
    \/ Fetched(c) \/ Move(c)

-----------------------------------------------------------------------------
(* A call that has ended, by a result or by an exception, leaves no file it  *)
(* made but the one it returned, if the disk has room and nobody cancels it.  *)
NothingLeft ==
  smooth => \A c \in MediaCalls, f \in NewNames :
    media[c].at = "end" /\ madeBy[f] = c /\ Exists(f) => media[c].result = f

\* What was asked for over HTTP.
Remote(c) == media[c].source = "http" \/ media[c].op = "download"

(* A user's file outside the temporary directory is not removed, and no call *)
(* returns a file that is written in part, unless it came over HTTP, where   *)
(* the end of a connection is taken for the end of the file.                 *)
FilesAreWhole ==
  /\ Exists("own")
  /\ \A c \in MediaCalls :
       /\ media[c].at = "end" /\ media[c].result \in Files
       /\ disk[media[c].result].content = Partial
       => Remote(c)

(* What a converter returns is what was asked for, or the source for one of  *)
(* the reasons its docstring gives: it is not there, a moving or transparent *)
(* picture, or none at all - and of a video, that its name says so.          *)
ConvertedAsAsked ==
  \A c \in MediaCalls : media[c].at = "end" /\ media[c].op \in Converting /\ media[c].result \in Files =>
    LET d == disk[media[c].result] IN
      \/ d.content \in {Target(media[c].op), None}
      \/ media[c].op = "ensure_jpeg" /\ d.content \in {"alpha", "gif"}
      \/ media[c].op = "compress" /\ d.content \notin Pictures \ {"gif"}
      \/ media[c].op = "to_mp4" /\ d.suffix = "mp4"

(* What a resolver reads is what the reference means, unless base64 without  *)
(* its padding is written as text or a fetched file was cut off; and what is *)
(* called a picture is one, unless it came as base64, which nobody doubts.   *)
ReadsWhatIsMeant ==
  \A c \in MediaCalls : media[c].at = "end" /\ media[c].op \in Resolving \ {"to_path", "as_path"} =>
    /\ \/ media[c].result \in {media[c].means, None, Raised}
       \/ media[c].source = "unpadded"
       \/ media[c].result = Partial /\ Remote(c)
    /\ media[c].mime = "default" => media[c].source \in {"base64", "unpadded"}
    /\ media[c].op = "image" /\ media[c].result \notin {None, Raised} => media[c].mime # None

(* The comment of _try_cleanup: no user's file is removed by mistake         *)
(* (media_utils.py, line 447).  One in the temporary directory is, though    *)
(* this call has not made it.                                                *)
OthersFilesStay == Exists("tmp")

(* The docstring of download_file: an error of the network or the connection *)
(* is raised as it is (io.py, line 128).  The end of a connection in the     *)
(* middle of a body is none: half the file is returned as the file.          *)
CutOffIsRaised ==
  \A c \in MediaCalls : media[c].at = "end" /\ media[c].op = "download" /\ media[c].result # Raised =>
    disk[media[c].result].content # Partial

(* The docstring of compress_image: when compressing fails the source is     *)
(* returned and nothing is raised (media_utils.py, lines 1271-1272).  What   *)
(* Pillow cannot open, or save, raises.                                      *)
CompressNeverRaises ==
  smooth => \A c \in MediaCalls : media[c].op = "compress" => media[c].result # Raised
=============================================================================
