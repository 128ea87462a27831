----------------------------- MODULE Requirements -----------------------------
(* Which lines of a plugin's requirements.txt are to be installed             *)
(* (core/utils/requirements_utils.py): a file and an environment are given,   *)
(* the plan is made, pip installs its lines, and the plan is made again.      *)
EXTENDS Naturals, Sequences, FiniteSets, SequencesExt

CONSTANTS
  Names,       \* canonical distribution names
  Versions,    \* versions, numbers above 0
  Lines,       \* lines: [kind, name, accepts]; accepts: what the specifier contains, or
               \* nothing if there is no specifier
  MaxLines     \* length of a file: bounds the state space

VARIABLES
  text,        \* the lines of the file, or Absent
  env,         \* the version of each distribution, 0 if it is not installed
  readable,    \* whether the distributions can be listed
  packaging,   \* whether the package "packaging" could be imported
  stage,       \* "asked", "planned", "installed", "again"
  plan         \* the answer: [missing, mismatch, lines], or NoPlan

vars == <<text, env, readable, packaging, stage, plan>>

Absent == <<[kind |-> "no file", name |-> "", accepts |-> {}]>>
NoPlan == [missing |-> {"no plan"}, mismatch |-> {}, lines |-> <<>>]

-----------------------------------------------------------------------------
\* _parse_requirement_line: a line that it has no name of is left out.  A comment, an
\* option and a URL or a path have none; "name @ url" has one and no specifier; a marker
\* may be false here.  Without packaging what comes before the specifier is the name.
Parses(line) ==
  IF packaging THEN line.kind \in {"plain", "named url"}
  ELSE line.kind \in {"plain", "named url", "marked off", "url"}
Name(line) == IF line.kind = "url" THEN "url" ELSE line.name
Accepts(line) == IF packaging /\ line.kind = "plain" THEN line.accepts ELSE {}

\* collect_installed_distribution_versions: a mapping, or nothing if it cannot be read.
Installed(n) == IF n \in DOMAIN env THEN env[n] ELSE 0

Required(lines) == {lines[i] : i \in {j \in DOMAIN lines : Parses(lines[j])}}
Lacks(line) == Installed(Name(line)) = 0
Mismatches(line) ==
  ~Lacks(line) /\ Accepts(line) # {} /\ Installed(Name(line)) \notin Accepts(line)

Missing(lines) == {Name(l) : l \in {k \in Required(lines) : Lacks(k) \/ Mismatches(k)}}
Mismatched(lines) == {Name(l) : l \in {k \in Required(lines) : Mismatches(k)}}

\* build_missing_requirements_install_lines, and the same at the end of the plan: every
\* line of a name that is missing, in the order of the file.
InstallLines(lines, missing) == SelectSeq(lines, LAMBDA l : Parses(l) /\ Name(l) \in missing)

\* plan_missing_requirements_install.
Plan ==
  IF text = Absent THEN NoPlan
  ELSE IF Required(text) = {} THEN [missing |-> {}, mismatch |-> {}, lines |-> <<>>]
  ELSE IF ~readable THEN NoPlan
  ELSE [missing |-> Missing(text), mismatch |-> Mismatched(text),
        lines |-> InstallLines(text, Missing(text))]

\* find_missing_requirements, and find_missing_requirements_from_lines.
FindMissing == IF Plan = NoPlan THEN NoPlan.missing ELSE Plan.missing \cup Plan.mismatch
FindFromLines(lines) ==
  IF Required(lines) = {} THEN {} ELSE IF ~readable THEN NoPlan.missing ELSE Missing(lines)

\* classify_missing_requirements_from_lines: nothing is missing where nothing can be read.
Classify(lines) ==
  IF Required(lines) = {} \/ ~readable THEN [missing |-> {}, mismatch |-> {}]
  ELSE [missing |-> Missing(lines), mismatch |-> Mismatched(lines)]

\* extract_requirement_names, and the names of parse_package_install_input, which parses
\* what is a requirement and takes the words of what is none (with packaging).
FileNames(lines) == {Name(l) : l \in Required(lines)}
InputNames(lines) ==
  {Name(l) : l \in Required(lines)}
    \cup {"url" : l \in {k \in ToSet(lines) : packaging /\ k.kind = "url"}}
    \cup {"file of -r" : l \in {k \in ToSet(lines) : packaging /\ k.kind = "option"}}

-----------------------------------------------------------------------------
RequirementsInit ==
  /\ text \in {Absent} \cup UNION {[1..n -> Lines] : n \in 0..MaxLines}
  /\ env \in [Names -> Versions \cup {0}] /\ readable \in BOOLEAN
  /\ packaging \in BOOLEAN
  /\ stage = "asked" /\ plan = NoPlan

MakePlan ==
  /\ stage \in {"asked", "installed"}
  /\ stage' = IF stage = "asked" THEN "planned" ELSE "again"
  /\ plan' = Plan
  /\ UNCHANGED <<text, env, readable, packaging>>

\* pip takes a version that every line of a name accepts; it refuses if there is none.
Suits(n, v) ==
  \A i \in DOMAIN plan.lines :
    (plan.lines[i].name = n /\ plan.lines[i].accepts # {}) => v \in plan.lines[i].accepts

Install ==
  /\ stage = "planned" /\ plan # NoPlan
  /\ stage' = "installed"
  /\ LET named == {l.name : l \in ToSet(plan.lines)} \cap Names IN
       env' \in {e \in [Names -> Versions \cup {0}] :
                   \A n \in Names :
                     IF n \in named THEN e[n] # 0 /\ Suits(n, e[n]) ELSE e[n] = Installed(n)}
  /\ UNCHANGED <<text, readable, packaging, plan>>

RequirementsNext == MakePlan \/ Install

-----------------------------------------------------------------------------
\* What the plan has installed it does not ask for again: its lines are enough for all
\* that is missing ("无法安全裁剪" is when there is no plan).
PlanIsEnough == (stage = "again" /\ packaging) => plan.missing = {}

\* The ways to ask for what is missing agree, where there is an answer.
AnswersAgree ==
  (stage = "planned" /\ plan # NoPlan) =>
    /\ FindMissing = plan.missing /\ FindFromLines(text) = plan.missing
    /\ readable =>
         Classify(text) = [missing |-> plan.missing, mismatch |-> plan.mismatch]
    /\ plan.lines = InstallLines(text, FindFromLines(text))
    /\ plan.missing \subseteq FileNames(text) /\ FileNames(text) \subseteq InputNames(text)

\* A line of a package that is there in a version that all lines accept is not installed.
NothingToSpare ==
  (stage = "planned" /\ plan # NoPlan) =>
    \A i \in DOMAIN plan.lines :
      \E j \in DOMAIN text : Parses(text[j]) /\ Name(text[j]) = Name(plan.lines[i])
                             /\ (Lacks(text[j]) \/ Mismatches(text[j]))

\* "任何解析异常都回退返回 None": no line is left out of a plan (violated: README).
NoLineLeftOut ==
  (stage = "planned" /\ plan # NoPlan /\ packaging) =>
    \A i \in DOMAIN text : text[i].kind # "url"

\* "无 packaging 时返回 None": without packaging there is no plan (violated: README).
NoPlanWithoutPackaging == (stage = "planned" /\ ~packaging) => plan = NoPlan
===============================================================================
