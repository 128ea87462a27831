-------------------------------- MODULE Filters --------------------------------
(***************************************************************************)
(* Which command a message is for and who may run it                       *)
(* (astrbot/core/star/filter, _find_command and Register of dispatch.py).  *)
(*                                                                         *)
(* A text is a sequence of words, so a command's full name is one too, and *)
(* startswith(name + " ") or == is "is a prefix of".  The plugin registers *)
(* its commands; Register reports each of their names to the host; the     *)
(* host sends HandleCommand with such a name and the words that follow it, *)
(* and the plugin looks the command up again.  Beside that path the same   *)
(* filters answer filter(event) in the process.                            *)
(***************************************************************************)
EXTENDS Naturals, Sequences, SequencesExt, FiniteSets

CONSTANTS
  Words,       \* words of messages, command names and aliases
  Specs,       \* the commands a plugin may register: records, see CommandFilter;
               \* "parents" is never empty
  MaxWords,    \* bound: length of a message
  MaxCommands  \* bound: commands a plugin registers

Messages == UNION {[1..n -> Words] : n \in 0..MaxWords}

VARIABLES
  filters,    \* the CommandFilters in registration order
  commands,   \* servicer.commands: entries <<full name, filter>>
  message,    \* the text of the event
  custom,     \* the filters whose custom filters let the event pass
  vetoed,     \* the groups whose custom filters do not
  wake,       \* event.is_at_or_wake_command
  called      \* what HandleCommand did: its filter and parameters, or nothing

event == <<message, custom, vetoed, wake>>
vars  == <<filters, commands, event, called>>

Nothing == [filter |-> 0, args |-> <<>>]

-----------------------------------------------------------------------------
(* CommandFilter: name, aliases, the full names of its parent groups        *)

FullNames(f) ==
  LET own == <<f.name>> \o f.alias
  IN FlattenSeq([i \in DOMAIN own |->
       [j \in DOMAIN f.parents |-> Append(f.parents[j], own[i])]])

\* What is left of the text once every full name at its head was cut off in turn.
Cut(names, text) ==
  FoldLeft(LAMBDA acc, n :
             IF IsPrefix(n, acc.rest)
             THEN [ok |-> TRUE, rest |-> SubSeq(acc.rest, Len(n) + 1, Len(acc.rest))]
             ELSE acc,
           [ok |-> FALSE, rest |-> text], names)

\* CommandFilter.filter: the arguments it stores as parsed_params when it matches.
Filter(i) ==
  LET cut == Cut(FullNames(filters[i]), message)
  IN [ok |-> wake /\ i \in custom /\ cut.ok, args |-> cut.rest]

Groups == UNION {{SubSeq(p, 1, n) : n \in 1..Len(p)} :
                 p \in UNION {ToSet(filters[i].parents) : i \in DOMAIN filters}}

\* The command is in group g or in groups below it that no custom filter vetoes.
HangsUnder(g, i) ==
  \E p \in ToSet(filters[i].parents) :
    IsPrefix(g, p) /\ \A n \in Len(g) + 1 .. Len(p) : SubSeq(p, 1, n) \notin vetoed

\* CommandGroupFilter.find_sub_command: what it may find in group g.
FindSubCommand(g) ==
  {i \in DOMAIN filters : HangsUnder(g, i) /\ Cut(FullNames(filters[i]), message).ok
                          /\ i \in custom}

-----------------------------------------------------------------------------
(* The dispatch table                                                       *)

\* A dict keeps the place of the first assignment and the value of the last.
Put(d, key, value) ==
  IF \E i \in DOMAIN d : d[i][1] = key
  THEN [i \in DOMAIN d |-> IF d[i][1] = key THEN <<key, value>> ELSE d[i]]
  ELSE Append(d, <<key, value>>)

\* build_registry: every full name of every command.
Entries(fs) ==
  FoldLeft(LAMBDA d, i : FoldLeft(LAMBDA e, n : Put(e, n, i), d, FullNames(fs[i])),
           <<>>, [i \in DOMAIN fs |-> i])

\* mutant: only the commands' own names are compared.
FindCommandOwnName(name) ==
  LET hits == {i \in DOMAIN commands : <<filters[commands[i][2]].name>> = name}
  IN IF hits = {} THEN 0 ELSE commands[CHOOSE i \in hits : \A j \in hits : i <= j][2]

\* The first entry with that full name, or with that name of its own: 0 for none.
FindCommand(name) ==
  LET hits == {i \in DOMAIN commands :
                 commands[i][1] = name \/ <<filters[commands[i][2]].name>> = name}
  IN IF hits = {} THEN 0 ELSE commands[CHOOSE i \in hits : \A j \in hits : i <= j][2]

\* Register reports the last word of the first parent's full name.
ParentGroup(i) ==
  LET first == Head(filters[i].parents)
  IN IF first = <<>> THEN "" ELSE Last(first)

-----------------------------------------------------------------------------
(* validate_and_convert_params: what each declared parameter makes of its    *)
(* word.  A parameter with neither annotation nor default is bare: the class *)
(* Parameter.empty is called with the word, which raises a TypeError.        *)

Kinds  == {"text", "number", "any", "bare", "greedy"}
Params == [kind : Kinds, required : BOOLEAN]
Lists  == UNION {[1..n -> Params] : n \in 1..2}
Args   == UNION {[1..n -> {"7", "x"}] : n \in 0..3}

Trouble(ps, args, i) ==
  CASE ps[i].kind = "greedy" -> IF i = Len(ps) THEN "no" ELSE "ValueError"
    [] ps[i].kind # "greedy" /\ i > Len(args) -> IF ps[i].required THEN "ValueError" ELSE "no"
    [] ps[i].kind = "bare" /\ i <= Len(args) -> "TypeError"
    [] ps[i].kind = "number" /\ i <= Len(args) -> IF args[i] = "7" THEN "no" ELSE "ValueError"
    [] OTHER -> "no"

\* mutant: the greedy parameter starts one word late.
ValueLate(ps, args, i) ==
  CASE ps[i].kind = "greedy" -> SubSeq(args, i + 1, Len(args))
    [] ps[i].kind # "greedy" /\ i <= Len(args) -> <<args[i]>>
    [] OTHER -> <<>>

\* The words a parameter gets; none when its default stands.
Value(ps, args, i) ==
  CASE ps[i].kind = "greedy" -> SubSeq(args, i, Len(args))
    [] ps[i].kind # "greedy" /\ i <= Len(args) -> <<args[i]>>
    [] OTHER -> <<>>

\* The first parameter in trouble decides.
Conversion(ps, args) ==
  LET bad == {i \in DOMAIN ps : Trouble(ps, args, i) # "no"}
  IN IF bad = {} THEN "ok" ELSE Trouble(ps, args, CHOOSE i \in bad : \A j \in bad : i <= j)

-----------------------------------------------------------------------------
(* PermissionTypeFilter: sender is the role and the kind of chat            *)

Bits    == {"ADMIN", "MEMBER", "OWNER", "GROUP_ADMIN", "PRIVATE", "GROUP"}
Senders == [role : {"member", "admin", "owner"}, group : BOOLEAN]

Matches(bit, sender) ==
  CASE bit = "MEMBER" -> TRUE
    [] bit = "PRIVATE" -> ~sender.group
    [] bit = "GROUP" -> sender.group
    [] bit = "OWNER" -> sender.role = "owner"
    [] bit = "ADMIN" -> sender.role = "admin"
    [] bit = "GROUP_ADMIN" -> sender.group /\ sender.role \in {"admin", "owner"}

\* Before Python 3.11 iterating the Flag also yields its composite members.
Composites == {{"ADMIN", "GROUP_ADMIN"}, {"ADMIN", "MEMBER", "OWNER", "GROUP_ADMIN"}}

Permitted(need, sender, composite) ==
  \/ \E bit \in need : Matches(bit, sender)
  \/ composite /\ \E bits \in Composites :
       bits \subseteq need /\ ("MEMBER" \in bits \/ sender.role \in {"admin", "owner"})

-----------------------------------------------------------------------------
Init ==
  /\ filters = <<>> /\ commands = <<>>
  /\ message = <<>> /\ custom = {} /\ vetoed = {} /\ wake = FALSE
  /\ called = Nothing

\* The decorators of the module, while it is imported.
RegisterCommand ==
  /\ commands = <<>> /\ Len(filters) < MaxCommands
  /\ \E s \in Specs : s \notin ToSet(filters) /\ filters' = Append(filters, s)
  /\ UNCHANGED <<commands, event, called>>

BuildRegistry ==
  /\ commands = <<>> /\ filters # <<>>
  /\ commands' = Entries(filters)
  /\ UNCHANGED <<filters, event, called>>

Receive ==
  /\ commands # <<>> /\ message = <<>>
  /\ message' \in Messages \ {<<>>}
  /\ custom' \in SUBSET DOMAIN filters
  /\ vetoed' \in SUBSET Groups
  /\ wake' \in BOOLEAN
  /\ UNCHANGED <<filters, commands, called>>

\* The host strips a name it was told from the text and sends the rest along.
HandleCommand ==
  /\ message # <<>> /\ called = Nothing /\ wake
  /\ \E i \in DOMAIN commands :
       /\ IsPrefix(commands[i][1], message)
       /\ called' = [filter |-> FindCommand(commands[i][1]),
                     args |-> SubSeq(message, Len(commands[i][1]) + 1, Len(message))]
  /\ UNCHANGED <<filters, commands, event>>

Next == RegisterCommand \/ BuildRegistry \/ Receive \/ HandleCommand

Spec == Init /\ [][Next]_vars

-----------------------------------------------------------------------------
\* No two commands share a full name, and none has for its own name what is the full
\* name of another: then the first match of _find_command is the only one.
Distinct ==
  \A i, j \in DOMAIN filters : i # j =>
    /\ ToSet(FullNames(filters[i])) \cap ToSet(FullNames(filters[j])) = {}
    /\ <<filters[i].name>> \notin ToSet(FullNames(filters[j]))

\* No full name is the beginning of another one, or of what may follow it.
Unnested(i) ==
  \A n \in ToSet(FullNames(filters[i])) :
    IsPrefix(n, message) =>
      ~Cut(FullNames(filters[i]), SubSeq(message, Len(n) + 1, Len(message))).ok

\* The two ways to a command agree: when the names are distinct, what HandleCommand runs
\* is a command whose own filter matches the message (custom filters, which the host
\* leaves to it, aside), with the arguments that filter would have parsed.
RoutesAgree ==
  called # Nothing /\ Distinct =>
    /\ called.filter # 0
    /\ LET f == Cut(FullNames(filters[called.filter]), message)
       IN f.ok /\ (Unnested(called.filter) => called.args = f.rest)

\* Every name and alias Register reports calls the command it stands for, below the group
\* it is reported to hang in: no command is shadowed as long as the names are distinct.
EveryNameFound ==
  commands # <<>> /\ Distinct =>
    \A i \in DOMAIN filters : \A n \in ToSet(FullNames(filters[i])) :
      /\ FindCommand(n) = i
      /\ ParentGroup(i) # "" => \E m \in ToSet(FullNames(filters[i])) :
                                  Len(m) > 1 /\ m[Len(m) - 1] = ParentGroup(i)

\* A group finds only sub-commands whose own filter lets the event pass; unless a group on
\* the way vetoes the event it finds all of them, however deep they hang; and a veto of a
\* group on the way hides what it holds.
GroupsAgree ==
  wake => \A i \in DOMAIN filters : \A p \in ToSet(filters[i].parents) : p # <<>> =>
            /\ i \in FindSubCommand(<<Head(p)>>) => Filter(i).ok
            /\ Filter(i).ok /\ vetoed = {} => i \in FindSubCommand(<<Head(p)>>)
            /\ Len(p) > 1 /\ {p} = ToSet(filters[i].parents) /\ p \in vetoed
                 => i \notin FindSubCommand(<<Head(p)>>)

\* Facts about operators that read no variable are evaluated in the initial state.
AtStart == filters = <<>>

\* No word is lost: with a greedy last parameter the values, one after the other, are the
\* arguments; and a required parameter never gets a default.
NoWordLost ==
  AtStart => \A ps \in Lists, args \in Args : Conversion(ps, args) = "ok" =>
    /\ Last(ps).kind = "greedy" =>
         FlattenSeq([i \in DOMAIN ps |-> Value(ps, args, i)]) = args
    /\ \A i \in DOMAIN ps : ps[i].required /\ ps[i].kind # "greedy" => Value(ps, args, i) # <<>>

\* Bad arguments are an answer to the user and never a failed RPC: HandleCommand catches
\* the ValueError of the conversion, and only that.
BadArgumentsAnswered ==
  AtStart => \A ps \in Lists, args \in Args : Conversion(ps, args) \in {"ok", "ValueError"}

\* What a member may do everybody may do in the same chat; a permission of the group's
\* staff gives nothing in a private chat; and the Python version matters only for the
\* owner in a private chat.
PermissionsOrdered ==
  AtStart => \A need \in SUBSET Bits, sender \in Senders, old \in BOOLEAN :
    /\ Permitted(need, [sender EXCEPT !.role = "member"], old) => 
         Permitted(need, sender, old)
    /\ need \subseteq {"GROUP_ADMIN", "GROUP"} /\ ~sender.group => ~Permitted(need, sender, old)
    /\ Permitted(need, sender, TRUE) = Permitted(need, sender, FALSE)
         \/ sender = [role |-> "owner", group |-> FALSE]
=============================================================================
