---------------------------- MODULE CommandGuard ----------------------------
(***************************************************************************)
(* The command guard: whether the rules of a policy deny a run of a         *)
(* program, by its words and the variables that are set (guard.rs), and     *)
(* what kakoi does when it is started in the place of that program          *)
(* (cli_guard.rs).  Rules, words and variables are added one by one, so     *)
(* every small rule table meets every short command line.                   *)
(*                                                                          *)
(* A word is known by its shape: `head' before its first `=', `value' after *)
(* it, the letters of its bundle.  A position of a sequence, an alternative *)
(* or a regular expression, is the set of words it matches; {} is a key the *)
(* rule leaves out.                                                         *)
(***************************************************************************)
EXTENDS Naturals, Sequences, FiniteSets, SequencesExt

CONSTANTS
    Words,      \* the words of command lines
    Shape,      \* word -> [dash, head, value, letters]
    Separator,  \* the word `--'
    Variables,  \* names of environment variables
    Rules,      \* the rules a policy may write
    Programs,   \* names a program may be started under
    MaxRules, MaxWords,
    None

VARIABLES
    rules,        \* the rules of the table, in order
    words,        \* the words after the program's name
    environment,  \* the variables that are set
    started,      \* the name this executable was started under, or None
    table,        \* whether the table of the guards can be read
    outcome       \* None, "kakoi", "report", "denied" or "real"

vars == <<rules, words, environment, started, table, outcome>>

Init ==
    /\ rules = <<>> /\ words = <<>> /\ environment = {}
    /\ started = None /\ table = TRUE
    /\ outcome = None

-----------------------------------------------------------------------------
(* The words                                                                *)

OneWord(rule, w) == 1

\* How many words an option at the front takes.
Width(rule, w) == IF w \in rule.options THEN 2 ELSE 1

\* skipped: how many leading words are global options and their values.
Skipped(rule, ws) ==
    LET From[i \in 1..(Len(ws) + 2)] ==
            IF i > Len(ws) THEN Len(ws)
            ELSE IF ws[i] = Separator THEN i
            ELSE IF ~Shape[ws[i]].dash THEN i - 1
            ELSE From[i + Width(rule, ws[i])]
    IN  From[1]

Rest(rule, ws) == SubSeq(ws, Skipped(rule, ws) + 1, Len(ws))

PrefixWhole(sequence, rest) ==
    Len(rest) = Len(sequence) /\ \A i \in DOMAIN sequence : rest[i] \in sequence[i]

\* prefix: the sequence matches the words from the front.
Prefix(sequence, rest) ==
    Len(rest) >= Len(sequence) /\ \A i \in DOMAIN sequence : rest[i] \in sequence[i]

WholeLine(ws) == ws

\* The words before the first `--'.
BeforeSeparator(ws) ==
    LET at == {i \in DOMAIN ws : ws[i] = Separator}
    IN  IF at = {} THEN ws ELSE SubSeq(ws, 1, Min(at) - 1)

\* flag_matches: the head is the flag, or a bundle has the flag's one letter.
FlagMatches(flag, w) == Shape[w].head = flag \/ flag \in Shape[w].letters

\* option_value: `name=value', or `name' and the next word.
OptionValue(pairs, ws) ==
    \E i \in DOMAIN ws :
        \/ <<Shape[ws[i]].head, Shape[ws[i]].value>> \in pairs
        \/ i < Len(ws) /\ <<ws[i], ws[i + 1]>> \in pairs

-----------------------------------------------------------------------------
(* The rules                                                                *)

Applies(rule, rest) == rule.for = {} \/ \E s \in rule.for : Prefix(s, rest)

ByEnv(rule, env) == rule.env \cap env # {}

ByDeny(rule, ws) == \E s \in rule.deny : Prefix(s, Rest(rule, ws))

ByFlag(rule, ws) ==
    LET before == BeforeSeparator(ws)
    IN  \/ \E i \in DOMAIN before, f \in rule.flags : FlagMatches(f, before[i])
        \/ OptionValue(rule.values, before)

\* denial: what is denied outright; `for' limits all of it but `deny'.
Denial(rule, ws, env) ==
    \/ ByDeny(rule, ws)
    \/ Applies(rule, Rest(rule, ws)) /\ (ByEnv(rule, env) \/ ByFlag(rule, ws))

\* outside_only: the rule lists the only ways to start the program, and this is none.
OutsideOnly(rule, ws) ==
    /\ rule.only # {}
    /\ Applies(rule, Rest(rule, ws))
    /\ ~\E s \in rule.only : Prefix(s, Rest(rule, ws))

FirstOnly(table_, ws, env) ==
    LET denies == {i \in DOMAIN table_ : Denial(table_[i], ws, env)}
        misses == {i \in DOMAIN table_ : i = 1 /\ OutsideOnly(table_[i], ws)}
    IN  IF denies # {} THEN <<"deny", Min(denies)>>
        ELSE IF misses # {} THEN <<"only", Min(misses)>>
        ELSE None

\* evaluate: the first rule that denies the run outright, else the first whose `only' it
\* misses, else None.
Evaluate(table_, ws, env) ==
    LET denies == {i \in DOMAIN table_ : Denial(table_[i], ws, env)}
        misses == {i \in DOMAIN table_ : OutsideOnly(table_[i], ws)}
    IN  IF denies # {} THEN <<"deny", Min(denies)>>
        ELSE IF misses # {} THEN <<"only", Min(misses)>>
        ELSE None


\* validate's program check: a name to look up other than kakoi's own.
Guardable(program) == program # "kakoi"

\* validate: a guardable program, some way to deny, no empty sequence or position, and the
\* rule alone denies its `examples.deny' and not its `examples.allow'.
Valid(rule) ==
    /\ Guardable(rule.program)
    /\ \E key \in {"deny", "flags", "values", "env", "only"} : rule[key] # {}
    /\ \A s \in rule.for \cup rule.deny \cup rule.only :
          s # <<>> /\ \A i \in DOMAIN s : s[i] # {}
    /\ \A e \in rule.denied : Evaluate(<<rule>>, e, {}) # None
    /\ \A e \in rule.allowed : Evaluate(<<rule>>, e, {}) = None

\* The rules of the table's entry for a program.
RulesOf(program) == SelectSeq(rules, LAMBDA r : r.program = program)

-----------------------------------------------------------------------------
(* Steps                                                                    *)

AddRule ==
    /\ outcome = None /\ Len(rules) < MaxRules
    /\ \E rule \in Rules : Valid(rule) /\ rules' = Append(rules, rule)
    /\ UNCHANGED <<words, environment, started, table, outcome>>

AddWord ==
    /\ outcome = None /\ Len(words) < MaxWords
    /\ \E w \in Words : words' = Append(words, w)
    /\ UNCHANGED <<rules, environment, started, table, outcome>>

SetVariable ==
    /\ outcome = None
    /\ \E v \in Variables \ environment : environment' = environment \cup {v}
    /\ UNCHANGED <<rules, words, started, table, outcome>>

\* run_if_guard and command, inside an isolation: without the table only the name tells a
\* guard from kakoi itself; with it, the entry's rules decide.
Start ==
    /\ outcome = None
    /\ started' \in Programs /\ table' \in BOOLEAN
    /\ outcome' =
          IF ~table' THEN (IF started' = "kakoi" THEN "kakoi" ELSE "report")
          ELSE IF RulesOf(started') = <<>> THEN "kakoi"
          ELSE IF Evaluate(RulesOf(started'), words, environment) # None THEN "denied"
          ELSE "real"
    /\ UNCHANGED <<rules, words, environment>>

Next == AddRule \/ AddWord \/ SetVariable \/ Start

Spec == Init /\ [][Next]_vars

-----------------------------------------------------------------------------
(* Properties                                                               *)

\* Types.
TypeOK ==
    /\ Range(rules) \subseteq Rules /\ Len(rules) <= MaxRules
    /\ Range(words) \subseteq Words /\ Len(words) <= MaxWords
    /\ environment \subseteq Variables
    /\ started \in Programs \cup {None} /\ table \in BOOLEAN
    /\ outcome \in {None, "kakoi", "report", "denied", "real"}

Verdict == Evaluate(rules, words, environment)

\* Nothing that is added lifts a denial.  A run denied outright stays denied whatever words
\* follow, whatever variable is set and whatever rule an upper layer adds; one that misses
\* an `only' stays denied until its own words change (evaluate, denial, prefix).
NeverLifted ==
    Verdict # None =>
        \/ Verdict' # None /\ (Verdict[1] = "deny" => Verdict'[1] = "deny")
        \/ Verdict[1] = "only" /\ words' # words

\* The whole table denies a run exactly if one of its rules alone does, so an example
\* checked against its rule alone tells what the table does (evaluate, check_example).
DeniedByOne ==
    (Verdict # None) =
        \E i \in DOMAIN rules : Evaluate(<<rules[i]>>, words, environment) # None

\* Global options in front, with or without a value, never hide a command from a rule's
\* sequences: the words `deny', `for' and `only' see stay the same (skipped).
OptionsTransparent ==
    outcome = None =>
      \A i \in DOMAIN rules, o \in {w \in Words : Shape[w].dash /\ w # Separator}, v \in Words :
          Rest(rules[i], (IF o \in rules[i].options THEN <<o, v>> ELSE <<o>>) \o words)
              = Rest(rules[i], words)

\* Words after the first `--' are operands: they are never denied as flags or as values of
\* options (before_separator).
OperandsAreNoFlags ==
    \A i \in DOMAIN rules, k \in DOMAIN words :
        words[k] = Separator =>
            ByFlag(rules[i], words) = ByFlag(rules[i], SubSeq(words, 1, k))

\* A guard is never taken for kakoi itself, even when its table cannot be read: no rule can
\* guard the one name that run_if_guard lets go on as kakoi (validate, run_if_guard).
NotTakenForKakoi ==
    outcome = "kakoi" => \A i \in DOMAIN rules : rules[i].program # started

=============================================================================
