----------------------------- MODULE PluginArchive -----------------------------
(* Whether an archive or a directory is a plugin (core/star/updater.py): its  *)
(* metadata file is looked for in the one directory that holds everything,    *)
(* read and validated.  The archive is inspected, then what it unpacks to.    *)
EXTENDS Naturals, Sequences, FiniteSets, SequencesExt

CONSTANTS
  Members,     \* what an archive may have: [path, dir], a path without "." and ".."
  Contents     \* what a metadata file may hold

VARIABLES
  archive,     \* its members
  yaml,        \* whether PyYAML is there
  content,     \* what its metadata files hold
  looked,      \* "no", "archive", "both"
  ofArchive,   \* the answer of inspect_plugin_archive
  ofDirectory  \* the answer of inspect_plugin_directory

vars == <<archive, yaml, content, looked, ofArchive, ofDirectory>>

Refused == "ValueError"
Under(dir, path) == IsStrictPrefix(dir, path)
Paths(members) == {e.path : e \in members}

\* _resolve_archive_root_dir: the common path of the directories, of the members that
\* have members below them, and of the directories that the other files are in.
IsDirectory(e, members) == e.dir \/ \E p \in Paths(members) : Under(e.path, p)
Candidates(members) ==
  {IF IsDirectory(e, members) THEN e.path ELSE Front(e.path) : e \in members}
Root(members) ==
  IF members = {} \/ <<>> \in Candidates(members) THEN <<>>
  ELSE LongestCommonPrefix(Candidates(members))

\* find_plugin_metadata_entry: metadata.yaml before metadata.yml.
FileNames == <<"metadata.yaml", "metadata.yml">>
Entry(members) ==
  LET here == SelectSeq(FileNames, LAMBDA f : Append(Root(members), f) \in Paths(members)) IN
  IF here = <<>> THEN <<>> ELSE Append(Root(members), here[1])

\* _load_yaml_metadata and validate_plugin_metadata.  YAML reads a version such as 1.0 as
\* a number; the lines of the fallback hold text, and what is no mapping has no fields.
Valid ==
  \/ content \in {"complete", "description", "big"}
  \/ content = "number" /\ ~yaml

Readable == content # "not utf-8"

\* inspect_plugin_archive.
InspectArchive == IF Entry(archive) # <<>> /\ Readable /\ Valid THEN Last(Entry(archive)) ELSE Refused

\* inspect_plugin_directory, of the directory that the root has become: the first of the
\* names that is a file there, if it is no longer than a megabyte.
Unpacked ==
  LET root == Root(archive) IN
  {SubSeq(e.path, Len(root) + 1, Len(e.path)) : e \in {m \in archive : Under(root, m.path)}}
InspectDirectory ==
  LET here == SelectSeq(FileNames, LAMBDA f : <<f>> \in Unpacked) IN
  IF here # <<>> /\ content # "big" /\ Readable /\ Valid THEN here[1] ELSE Refused

ArchiveInit ==
  /\ archive \in SUBSET Members
  /\ yaml \in BOOLEAN /\ content = "unread"
  /\ looked = "no" /\ ofArchive = Refused /\ ofDirectory = Refused

Look ==
  /\ looked = "no"
  /\ content' \in Contents /\ looked' = "content"
  /\ UNCHANGED <<archive, yaml, ofArchive, ofDirectory>>

LookIntoArchive ==
  /\ looked = "content" /\ looked' = "archive"
  /\ ofArchive' = InspectArchive
  /\ UNCHANGED <<archive, yaml, content, ofDirectory>>

LookIntoDirectory ==
  /\ looked = "archive" /\ looked' = "both"
  /\ ofDirectory' = InspectDirectory
  /\ UNCHANGED <<archive, yaml, content, ofArchive>>

ArchiveNext == Look \/ LookIntoArchive \/ LookIntoDirectory

-----------------------------------------------------------------------------
\* All that is in the archive is in its root, or is a directory above it.
RootHoldsAll ==
  \A e \in archive :
    \/ IsPrefix(Root(archive), e.path)
    \/ IsDirectory(e, archive) /\ IsPrefix(e.path, Root(archive))

\* The archive is a plugin if the directory it unpacks to is one, with the same metadata
\* file, and the other way round (a large file apart: README).
ArchiveAsDirectory ==
  looked = "both" => (content = "big" /\ ofDirectory = Refused) \/ ofArchive = ofDirectory

\* Members that only name a directory change nothing (violated: README).
DirectoriesDoNotMatter ==
  Entry(archive) = Entry({e \in archive : ~IsDirectory(e, archive)})
===============================================================================
