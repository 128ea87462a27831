----------------------------- MODULE ConfigFile -----------------------------
(***************************************************************************)
(* The file API of AstrBotConfig (core/config/astrbot_config.py):          *)
(* load_config, put_config and update_config of data/config/<name>.json,   *)
(* the file save_config falls back to, and how a configuration is made to  *)
(* agree with a schema.                                                    *)
(***************************************************************************)
EXTENDS Naturals, Sequences, FiniteSets, SequencesExt, Functions

CONSTANTS
  ConfigProcesses,   \* plugins that use one namespace; the lock is a process's own
  FileCalls,         \* calls of put_config, update_config, load_config and the fallback
  FileKeys,
  FileValues

Free == "free"

ASSUME FileAssumption == FileValues \subseteq Nat /\ Free \notin FileCalls

NoItem == <<"absent", 0>>

VARIABLES
  configFile,   \* whether it is absent, torn (half of a JSON text) or whole, and its keys
  ioLock,       \* by process: the call that holds _config_io_lock
  fileCall,     \* by call
  temps,        \* temporary files that are there
  alive,        \* processes
  fileLog,      \* what was written, in its order
  defaults,     \* a reference configuration, and
  conf,         \* one that is made to agree with it
  given,        \* what it was before
  stage,
  changed       \* what check_config_integrity has returned

fileVars == <<configFile, ioLock, fileCall, temps, alive, fileLog>>
confVars == <<defaults, conf, given, stage, changed>>

\* An item as put_config makes it, and a bare value as the fallback writes it.
Item(v) == <<"item", v>>
Bare(v) == <<"bare", v>>
NoItems   == [k \in FileKeys |-> NoItem]
Whole(keys) == [is |-> "whole", keys |-> keys]

\* "fallback": save_config without a bridge writes the file too.
FileOps == {"put", "update", "load", "fallback"}

FileInit ==
  /\ configFile = [is |-> "absent", keys |-> NoItems] /\ ioLock = [p \in ConfigProcesses |-> Free]
  /\ temps = {} /\ alive = ConfigProcesses /\ fileLog = <<>>
  /\ \E by \in [FileCalls -> ConfigProcesses], op \in [FileCalls -> FileOps],
        key \in [FileCalls -> FileKeys], value \in [FileCalls -> FileValues] :
       fileCall = [c \in FileCalls |-> [at |-> "start", by |-> by[c], op |-> op[c], key |-> key[c],
                                        value |-> value[c], read |-> NoItems, answer |-> "none"]]

FileAt(c, where) == fileCall[c].at = where /\ fileCall[c].by \in alive
FileGoto(c, where) == fileCall' = [fileCall EXCEPT ![c].at = where]
Ends(c, answer) == fileCall' = [fileCall EXCEPT ![c].at = "done", ![c].answer = answer]
GiveBack(c) == ioLock' = [ioLock EXCEPT ![fileCall[c].by] = Free]

\* update_config looks for the file before it has the lock.
NoConfigFile(c) ==
  /\ FileAt(c, "start") /\ fileCall[c].op = "update" /\ configFile.is = "absent"
  /\ Ends(c, "absent")
  /\ UNCHANGED <<configFile, ioLock, temps, alive, fileLog>>

Lock(c) ==
  /\ FileAt(c, "start") /\ \/ fileCall[c].op = "put"
                           \/ fileCall[c].op = "update" /\ configFile.is # "absent"
  /\ ioLock[fileCall[c].by] = Free
  /\ ioLock' = [ioLock EXCEPT ![fileCall[c].by] = c]
  /\ FileGoto(c, IF fileCall[c].op = "put" /\ configFile.is = "absent" THEN "create" ELSE "read")
  /\ UNCHANGED <<configFile, temps, alive, fileLog>>

\* _atomic_write_json: a temporary file of its own, and then a replace.
WriteTemp(c) ==
  /\ \/ FileAt(c, "create") /\ FileGoto(c, "empty")
     \/ FileAt(c, "write") /\ FileGoto(c, "replace")
  /\ temps' = temps \union {c}
  /\ UNCHANGED <<configFile, ioLock, alive, fileLog>>

ReplaceByNothing(c) ==
  /\ FileAt(c, "empty") /\ temps' = temps \ {c}
  /\ configFile' = Whole(NoItems) /\ FileGoto(c, "read")
  /\ UNCHANGED <<ioLock, alive, fileLog>>

\* json.dump refuses the value, or there is an error of the system: the temporary file is
\* removed and the caller gets the exception.
WriteFails(c) ==
  /\ \E where \in {"create", "empty", "write", "replace"} : FileAt(c, where)
  /\ temps' = temps \ {c} /\ Ends(c, "raised") /\ GiveBack(c)
  /\ UNCHANGED <<configFile, alive, fileLog>>

Read(c) ==
  /\ FileAt(c, "read") /\ configFile.is = "whole"
  /\ fileCall' = [fileCall EXCEPT ![c].at = "look", ![c].read = configFile.keys]
  /\ UNCHANGED <<configFile, ioLock, temps, alive, fileLog>>

ReadFails(c) ==
  /\ FileAt(c, "read") /\ configFile.is = "torn"
  /\ Ends(c, "torn") /\ GiveBack(c)
  /\ UNCHANGED <<configFile, temps, alive, fileLog>>

\* put_config leaves a key that is there, update_config wants it to be there, as an item.
Writes(c) ==
  LET old == fileCall[c].read[fileCall[c].key]
  IN  IF fileCall[c].op = "put" THEN old = NoItem ELSE old[1] = "item"

ChangeItem(c) ==
  /\ FileAt(c, "look") /\ Writes(c)
  /\ fileCall' = [fileCall EXCEPT ![c].at = "write",
                                  ![c].read[fileCall[c].key] = Item(fileCall[c].value)]
  /\ UNCHANGED <<configFile, ioLock, temps, alive, fileLog>>

NoItemChange(c) ==
  /\ FileAt(c, "look") /\ ~Writes(c) /\ GiveBack(c)
  /\ Ends(c, CASE fileCall[c].op = "put" -> "there"
               [] fileCall[c].read[fileCall[c].key] = NoItem -> "missing"
               [] OTHER -> "bare")
  /\ UNCHANGED <<configFile, temps, alive, fileLog>>

ReplaceFile(c) ==
  /\ FileAt(c, "replace") /\ temps' = temps \ {c}
  /\ configFile' = Whole(fileCall[c].read)
  /\ fileLog' = Append(fileLog, <<fileCall[c].key, Item(fileCall[c].value)>>)
  /\ Ends(c, "written") /\ GiveBack(c)
  /\ UNCHANGED alive

\* load_config takes no lock and gives a bare value as it is.
LoadConfig(c) ==
  /\ FileAt(c, "start") /\ fileCall[c].op = "load"
  /\ fileCall' = [fileCall EXCEPT ![c].at = "done",
                                  ![c].read = configFile.keys,
                                  ![c].answer = IF configFile.is = "whole" THEN "read" ELSE configFile.is]
  /\ UNCHANGED <<configFile, ioLock, temps, alive, fileLog>>

\* _save_local_fallback: the whole object, without the lock, in place.
OpenFallback(c) ==
  /\ FileAt(c, "start") /\ fileCall[c].op = "fallback"
  /\ configFile' = [is |-> "torn", keys |-> NoItems] /\ FileGoto(c, "fallback")
  /\ UNCHANGED <<ioLock, temps, alive, fileLog>>

WriteFallback(c) ==
  /\ FileAt(c, "fallback") /\ Ends(c, "written")
  /\ configFile' = Whole([NoItems EXCEPT ![fileCall[c].key] = Bare(fileCall[c].value)])
  /\ fileLog' = <<<<fileCall[c].key, Bare(fileCall[c].value)>>>>
  /\ UNCHANGED <<ioLock, temps, alive>>

\* What cannot be written stays half a file.
FallbackFails(c) ==
  /\ FileAt(c, "fallback") /\ Ends(c, "raised")
  /\ UNCHANGED <<configFile, ioLock, temps, alive, fileLog>>

Die(p) ==
  /\ p \in alive /\ alive' = alive \ {p}
  /\ UNCHANGED <<configFile, ioLock, fileCall, temps, fileLog>>

FileNext ==
  \/ \E c \in FileCalls :
       \/ NoConfigFile(c) \/ Lock(c) \/ WriteTemp(c) \/ WriteFails(c) \/ ReplaceByNothing(c) \/ Read(c)
       \/ ReadFails(c) \/ ChangeItem(c) \/ NoItemChange(c) \/ ReplaceFile(c) \/ LoadConfig(c)
       \/ OpenFallback(c) \/ WriteFallback(c) \/ FallbackFails(c)
  \/ \E p \in ConfigProcesses : Die(p)

FileSpec == FileInit /\ [][FileNext]_fileVars

-----------------------------------------------------------------------------
\* check_config_integrity, of configurations two levels deep: a dict is the sequence of
\* its keys and values, a value is a leaf or a dict.
Leaf(v)    == [is |-> "leaf", leaf |-> v, items |-> <<>>]
Dict(its)  == [is |-> "dict", leaf |-> "none", items |-> its]
Keys(d)    == [i \in DOMAIN d |-> d[i][1]]
Has(d, k)  == \E i \in DOMAIN d : d[i][1] = k
Get(d, k)  == d[CHOOSE i \in DOMAIN d : d[i][1] = k][2]
PutKey(d, k, v) == [i \in DOMAIN d |-> IF d[i][1] = k THEN <<k, v>> ELSE d[i]]

\* What is missing, None or a leaf in a dict's place is the reference's; the rest is kept.
Kept(refer, d, k) ==
  /\ Has(d, k) /\ Get(d, k) # Leaf("none")
  /\ Get(refer, k).is = "dict" => Get(d, k).is = "dict"

Agreed(refer, d, Inner(_, _)) ==
  [i \in DOMAIN refer |->
     LET k == refer[i][1]
     IN  <<k, IF ~Kept(refer, d, k) THEN refer[i][2]
              ELSE IF refer[i][2].is = "dict" THEN Dict(Inner(refer[i][2].items, Get(d, k).items))
              ELSE Get(d, k)>>]

\* A key too many, one in another place, or one that was not kept.
Differs(refer, d, Inner(_, _)) ==
  \/ Keys(d) # Keys(refer)
  \/ \E k \in ToSet(Keys(refer)) :
       \/ ~Kept(refer, d, k)
       \/ Get(refer, k).is = "dict" /\ Inner(Get(refer, k).items, Get(d, k).items)

NoDeeper(refer, d) == d
NoChangeDeeper(refer, d) == FALSE
AgreedBelow(refer, d)  == Agreed(refer, d, NoDeeper)
DiffersBelow(refer, d) == Differs(refer, d, NoChangeDeeper)

Reference == <<<<"a", Leaf("default")>>, <<"b", Dict(<<<<"c", Leaf("default")>>, <<"d", Leaf("default")>>>>)>>>>
Lists(ks, Values) ==
  UNION {{[i \in DOMAIN order |-> <<order[i], v[i]>>] : v \in [DOMAIN order -> Values]} :
         order \in {o \in UNION {[1..n -> ks] : n \in 0..2} : \A i, j \in DOMAIN o : o[i] = o[j] => i = j}}
Leaves == {Leaf("none"), Leaf("user")}
Configurations ==
  Lists({"a", "b", "x"}, Leaves \union {Dict(its) : its \in Lists({"c", "d", "y"}, Leaves)})

ConfInit ==
  /\ defaults = Reference /\ conf \in Configurations
  /\ given = conf /\ stage = "given" /\ changed = FALSE

CheckIntegrity ==
  /\ stage \in {"given", "agreed", "edited"}
  /\ conf' = Agreed(defaults, conf, AgreedBelow) /\ given' = conf
  /\ changed' = Differs(defaults, conf, DiffersBelow)
  /\ stage' = IF stage = "given" THEN "agreed" ELSE "again"
  /\ UNCHANGED defaults

\* The plugin sets a key of the inner dict, which is the reference's own if that was put
\* there whole.
EditSetting(k) ==
  LET set(d) == PutKey(d, "b", Dict(PutKey(Get(d, "b").items, k, Leaf("edited"))))
  IN  /\ stage = "agreed" /\ stage' = "edited"
      /\ conf' = set(conf)
      /\ defaults' = IF Kept(Reference, given, "b") THEN defaults ELSE set(defaults)
      /\ UNCHANGED <<given, changed>>

ConfNext == CheckIntegrity \/ \E k \in {"c", "d"} : EditSetting(k)

-----------------------------------------------------------------------------
(* The file holds what was written last for each key, whoever wrote other   *)
(* keys in between and whenever the process was killed: no write undoes     *)
(* another's.                                                               *)
Logged(k) ==
  LET of == {i \in DOMAIN fileLog : fileLog[i][1] = k}
  IN  IF of = {} THEN NoItem ELSE fileLog[CHOOSE i \in of : \A j \in of : j <= i][2]

OneProcessOnly ==
  \A c, d \in FileCalls : fileCall[c].by = fileCall[d].by /\ fileCall[c].op # "fallback"

FileIsTheLog ==
  configFile.is # "torn" /\ \A k \in FileKeys : configFile.keys[k] = Logged(k)

(* No call fails on the file itself, and a temporary file outlives its call *)
(* only in a process that was killed.                                       *)
NeverTorn == \A c \in FileCalls : fileCall[c].answer \notin {"torn", "bare"}
TempsAreRemoved == \A c \in temps : fileCall[c].by \in alive => fileCall[c].at # "done"

(* put_config does not touch a value that was there.                        *)
PutsOnce ==
  \A i, j \in DOMAIN fileLog : i < j /\ fileLog[i][1] = fileLog[j][1]
    => \E c \in FileCalls : fileCall[c].op = "update" /\ fileCall[c].answer = "written"
                            /\ fileLog[j] = <<fileCall[c].key, Item(fileCall[c].value)>>

(* What a user has set stays as it was, whatever is missing or too much     *)
(* around it; what is returned is whether anything was changed.             *)
SettingsStay ==
  stage # "given" /\ stage # "edited" =>
    /\ Keys(conf) = Keys(defaults) /\ (changed <=> conf # given)
    /\ \A k \in {"a", "b"} : Has(given, k) /\ Get(given, k).is = Get(defaults, k).is =>
         CASE k = "a" -> Get(given, k) # Leaf("none") => Get(conf, k) = Get(given, k)
           [] k = "b" -> \A n \in {"c", "d"} :
                Has(Get(given, k).items, n) /\ Get(Get(given, k).items, n) # Leaf("none")
                  => Get(Get(conf, k).items, n) = Get(Get(given, k).items, n)

(* A configuration that agrees is left alone, edited or not.                *)
AgreesAtOnce == stage = "again" => ~changed /\ conf = given

(* The defaults of a schema are the same for the next configuration.        *)
DefaultsStay == defaults = Reference
=============================================================================
