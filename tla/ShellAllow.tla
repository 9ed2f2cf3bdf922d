----------------------------- MODULE ShellAllow -----------------------------
(***************************************************************************)
(* Which scripts run without an approval (hil/shell_allow.go,              *)
(* static_values.go, shell_expand_allow.go, allowlist.go), and what a      *)
(* shell does with such a script.  The walk collects the simple commands   *)
(* of a parsed script with what is known of its variables there; each has  *)
(* to satisfy the policy of its name.                                      *)
(*                                                                         *)
(* A script is a sequence of statements.  The walk of the code returns     *)
(* text ranges; here they are the words of the command.                    *)
(***************************************************************************)
EXTENDS CLIPolicy, FiniteSets

CONSTANTS
  Policies,     \* commands of the allow list, by name
  Values,       \* words an unknown variable may stand for
  Sinks,        \* names that end in a command xargs must not start
  MaxVariants   \* maxStaticValueVariants: 32

RECURSIVE ValidSubs(_)
ValidSubs(subs) ==
  /\ \A s \in DOMAIN subs : ValidRule(subs[s].flags) /\ ValidSubs(subs[s].subs)
  /\ \A s, t \in DOMAIN subs :
       /\ t \notin subs[s].aliases
       /\ s # t => subs[s].aliases \cap subs[t].aliases = {}

\* validateLoadedAllowlist, for one command
Valid(pol) ==
  /\ ValidRule(pol.global) /\ pol.global.must = <<>>
  /\ ValidRule(pol.root.flags) /\ ValidSubs(pol.root.subs)

-----------------------------------------------------------------------------
Wd(k, arg, name, body) == [k |-> k, arg |-> arg, name |-> name, body |-> body]
Lit(a) == Wd("lit", a, "", <<>>)
Var(x) == Wd("var", Opaque, x, <<>>)                 \* "$x"
CmdSubst(body) == Wd("subst", Subst, "", body)       \* "$(body)"
Attached(opt, body) == Wd("attached", Long(opt, "subst"), "", body)   \* --opt="$(body)"
Expansion(x) == Wd("exp", Opaque, x, <<>>)           \* $x, ${x:-...}, $((...))
ExtGlob == Wd("glob", Word("glob"), "", <<>>)

Stmt(k, name, words, body, other, more, writes) ==
  [k |-> k, name |-> name, words |-> words, body |-> body, other |-> other, more |-> more,
   writes |-> writes]
Call(words) == Stmt("call", "", words, <<>>, <<>>, <<>>, FALSE)
CallToFile(words) == Stmt("call", "", words, <<>>, <<>>, <<>>, TRUE)    \* > file
Assign(x, w) == Stmt("assign", x, <<w>>, <<>>, <<>>, <<>>, FALSE)
Binary(a, b) == Stmt("binary", "", <<>>, a, b, <<>>, FALSE)             \* a && b, a | b
If(cond, then, else) == Stmt("if", "", <<>>, cond, then, else, FALSE)
While(cond, do) == Stmt("while", "", <<>>, cond, do, <<>>, FALSE)
Subshell(body) == Stmt("subshell", "", <<>>, body, <<>>, <<>>, FALSE)
Block(body) == Stmt("block", "", <<>>, body, <<>>, <<>>, FALSE)
For(x, items, do) == Stmt("for", x, items, do, <<>>, <<>>, FALSE)
Case(w, items) == Stmt("case", "", <<w>>, items, <<>>, <<>>, FALSE)
Item(patterns, body) == Stmt("item", "", patterns, body, <<>>, <<>>, FALSE)
Equal(l, r) == Stmt("test", "", <<l, r>>, <<>>, <<>>, <<>>, FALSE)      \* [ l = r ], [[ l == r ]]
Func(f, body) == Stmt("func", f, <<>>, body, <<>>, <<>>, FALSE)
BashC(body) == Stmt("bash", "", <<>>, body, <<>>, <<>>, FALSE)          \* bash -c 'body'
Coproc(body) == Stmt("coproc", "", <<>>, body, <<>>, <<>>, FALSE)

-----------------------------------------------------------------------------
(* Static values: the values a variable can have, where they are known.    *)

Unknown == [x \in {} |-> <<>>]

With(env, x, values) ==
  IF values = <<>> THEN [y \in DOMAIN env \ {x} |-> env[y]]
  ELSE [y \in DOMAIN env \cup {x} |-> IF y = x THEN values ELSE env[y]]
Without(env, x) == [y \in DOMAIN env \ {x} |-> env[y]]

Known(env, x) == x \in DOMAIN env /\ env[x] # <<>>

\* staticValuesFromWord; <<>>: not known
WordValues(w, env) ==
  CASE w.k = "var" -> IF Known(env, w.name) THEN env[w.name] ELSE <<>>
    [] w.k = "lit" -> <<w.arg>>
    [] OTHER       -> <<>>

Distinct(s) == SelectSeq([i \in DOMAIN s |-> <<i, s[i]>>],
                         LAMBDA p : \A j \in 1 .. p[1] - 1 : s[j] # p[2])

\* staticValuesFromWordItems: in order, each once, and not too many
ItemValues(items, env) ==
  LET all == FlattenSeq([i \in DOMAIN items |-> WordValues(items[i], env)])
      once == [i \in DOMAIN Distinct(all) |-> Distinct(all)[i][2]]
  IN IF (\E i \in DOMAIN items : WordValues(items[i], env) = <<>>) \/ Len(once) > MaxVariants
     THEN <<>> ELSE once

UpdateForAssignKeeps(env, s) ==
  LET values == WordValues(s.words[1], env)
  IN IF values # <<>> THEN With(env, s.name, values) ELSE env

\* updateEnvForAssign
UpdateForAssign(env, s) ==
  LET values == WordValues(s.words[1], env)
  IN IF values # <<>> THEN With(env, s.name, values) ELSE Without(env, s.name)

\* updateEnvForReadBuiltin
UpdateForRead(env, s) ==
  LET names == {s.words[i].arg.name : i \in {j \in 2 .. Len(s.words) : s.words[j].k = "lit"}}
  IN [x \in DOMAIN env \ names |-> env[x]]

\* narrowEnvFromCondition: "$x" = value, either way round
Narrow(cond, env) ==
  IF Len(cond) # 1 \/ cond[1].k # "test" THEN env
  ELSE LET l == cond[1].words[1]
           r == cond[1].words[2]
       IN CASE l.k = "var" /\ WordValues(r, env) # <<>> -> With(env, l.name, WordValues(r, env))
            [] /\ ~(l.k = "var" /\ WordValues(r, env) # <<>>)
               /\ r.k = "var" /\ WordValues(l, env) # <<>> -> With(env, r.name, WordValues(l, env))
            [] OTHER -> env

-----------------------------------------------------------------------------
(* The walk: segments with what is known there, the values afterwards, and *)
(* whether something makes the script need an approval.                    *)

Result(segs, env, reject) == [segs |-> segs, env |-> env, reject |-> reject]
Join(a, b, env) == Result(a.segs \cup b.segs, env, a.reject \/ b.reject)
Join3(a, b, c, env) == Join(Join(a, b, env), c, env)
Nothing(env) == Result({}, env, FALSE)
Rejected(env) == Result({}, env, TRUE)

CommandName(s) == IF s.words[1].k = "lit" THEN s.words[1].arg.name ELSE ""
NoSegment == {":", "continue", "break", "return"}
DisallowedForRead(w) == w.k \in {"subst", "attached", "exp"}
Disallowed(w) == w.k = "exp"

\* LET and DEFINE of mutual recursion: statements, lists, substitutions.
RECURSIVE StmtSegments(_, _, _, _), WalkList(_, _, _, _), SubstSegments(_, _, _, _),
          LocalFunctions(_)

\* localFunctionNames: wherever the definition stands
LocalFunctions(stmts) ==
  UNION {(IF s.k = "func" THEN {s.name} ELSE {})
           \cup LocalFunctions(s.other) \cup LocalFunctions(s.more)
           \cup (IF s.k = "bash" THEN {} ELSE LocalFunctions(s.body)) : s \in Range(stmts)}

WalkList(stmts, funcs, unwrap, env) ==
  IF stmts = <<>> THEN Nothing(env)
  ELSE LET first == StmtSegments(Head(stmts), funcs, unwrap, env)
           rest == WalkList(Tail(stmts), funcs, unwrap, first.env)
       IN Join(first, rest, rest.env)

\* substSegsFromNode, for the words of a statement
SubstSegments(words, funcs, unwrap, env) ==
  IF words = <<>> THEN Nothing(env)
  ELSE LET w == Head(words)
           inner == IF w.k \in {"subst", "attached"} THEN WalkList(w.body, funcs, unwrap, env)
                    ELSE Nothing(env)
       IN Join(inner, SubstSegments(Tail(words), funcs, unwrap, env), env)

CallSegments(s, funcs, unwrap, env) ==
  LET name == CommandName(s)
      args == Tail(s.words)
      some(Test(_)) == \E i \in DOMAIN args : Test(args[i])
  IN CASE name = "" -> Rejected(env)
       [] name \in funcs -> Nothing(env)
       [] name \in NoSegment -> SubstSegments(s.words, funcs, unwrap, env)
       [] name = "read" ->
            IF some(DisallowedForRead) THEN Rejected(env)
            ELSE Result({}, UpdateForRead(env, s), FALSE)
       [] OTHER ->
            IF /\ ~(name \in DOMAIN Policies /\ PermissiveVarArgs(Policies[name]))
               /\ some(Disallowed)
            THEN Rejected(env)
            ELSE Result({[words |-> s.words, writes |-> s.writes, env |-> env]}, env, FALSE)

\* walkIfClause: the else branch starts from the values before the condition
IfSegments(s, funcs, unwrap, env) ==
  LET cond == WalkList(s.body, funcs, unwrap, env)
      then == WalkList(s.other, funcs, unwrap, Narrow(s.body, cond.env))
      else == WalkList(s.more, funcs, unwrap, env)
  IN Join3(cond, then, else, env)

ForSegments(s, funcs, unwrap, env) ==
  LET values == ItemValues(s.words, env)
      inBody == IF values = <<>> THEN Without(env, s.name) ELSE With(env, s.name, values)
      after == IF values = <<>> THEN Without(env, s.name)
               ELSE With(env, s.name, <<values[Len(values)]>>)
      do == WalkList(s.body, funcs, unwrap, inBody)
  IN Result(do.segs, after, do.reject)

CaseSegments(s, funcs, unwrap, env) ==
  LET w == s.words[1]
      itemEnv(item) ==
        IF w.k # "var" THEN env
        ELSE LET values == ItemValues(item.words, env)
             IN IF values = <<>> \/ \E i \in DOMAIN item.words : item.words[i].k = "glob"
                THEN Without(env, w.name) ELSE With(env, w.name, values)
      items == {WalkList(item.body, funcs, unwrap, itemEnv(item)) : item \in Range(s.body)}
  IN Result(UNION {r.segs : r \in items}, env, \E r \in items : r.reject)

StmtSegments(s, funcs, unwrap, env) ==
  CASE s.k = "call"   -> CallSegments(s, funcs, unwrap, env)
    [] s.k = "assign" -> Nothing(UpdateForAssign(env, s))
    [] s.k = "binary" -> Join(WalkList(s.body, funcs, unwrap, env),
                              WalkList(s.other, funcs, unwrap, env), env)
    [] s.k = "if"     -> IfSegments(s, funcs, unwrap, env)
    [] s.k = "while"  ->
         LET cond == WalkList(s.body, funcs, unwrap, env)
         IN Join(cond, WalkList(s.other, funcs, unwrap, cond.env), env)
    [] s.k = "subshell" -> [WalkList(s.body, funcs, unwrap, env) EXCEPT !.env = env]
    [] s.k = "block"  -> WalkList(s.body, funcs, unwrap, env)
    [] s.k = "for"    -> ForSegments(s, funcs, unwrap, env)
    [] s.k = "case"   -> CaseSegments(s, funcs, unwrap, env)
    [] s.k = "test"   -> SubstSegments(s.words, funcs, unwrap, env)
    [] s.k = "func"   -> [WalkList(s.body, funcs, unwrap, Unknown) EXCEPT !.env = env]
    [] s.k = "bash"   ->
         IF unwrap = 0 THEN Result({[words |-> <<Lit(Word("bash"))>>, writes |-> FALSE, env |-> env]},
                                   env, FALSE)
         ELSE [WalkList(s.body, LocalFunctions(s.body), unwrap - 1, Unknown) EXCEPT !.env = env]
    [] s.k = "coproc" -> Rejected(env)

\* The words of every statement outside a bash -c script, and of the
\* substitutions in them, are walked once more without any known value.
RECURSIVE AllSubsts(_, _)
AllSubsts(stmts, funcs) ==
  IF stmts = <<>> THEN Nothing(Unknown)
  ELSE LET s == Head(stmts)
           inWords == SubstSegments(s.words, funcs, 1, Unknown)
           nested == {AllSubsts(w.body, funcs) : w \in Range(s.words)}
           below == IF s.k = "bash" THEN Nothing(Unknown)
                    ELSE Join3(AllSubsts(s.body, funcs), AllSubsts(s.other, funcs),
                               AllSubsts(s.more, funcs), Unknown)
           here == Result(inWords.segs \cup UNION {r.segs : r \in nested}, Unknown,
                          inWords.reject \/ \E r \in nested : r.reject)
       IN Join3(here, below, AllSubsts(Tail(stmts), funcs), Unknown)

\* collectAllowlistSegmentInfos
Collect(script) ==
  LET funcs == LocalFunctions(script)
  IN Join(WalkList(script, funcs, 1, Unknown), AllSubsts(script, funcs), Unknown)

-----------------------------------------------------------------------------
(* One segment against the allow list.                                     *)

\* staticOrResolvedSimpleCommandArgVariants; {}: no static reading
Variants(seg) ==
  LET args == Tail(seg.words)
      choice(w) == IF w.k = "var" /\ Known(seg.env, w.name) THEN Range(seg.env[w.name]) ELSE {w.arg}
      all == {v \in [DOMAIN args -> UNION {choice(args[i]) : i \in DOMAIN args}] :
                \A i \in DOMAIN args : v[i] \in choice(args[i])}
  IN IF \/ \E i \in DOMAIN args : args[i].k \in {"glob", "exp"}
        \/ Cardinality(all) > MaxVariants
     THEN {} ELSE all

\* permissiveSimpleArgv: the words as they are written
Printed(words) ==
  [i \in DOMAIN Tail(words) |->
     LET w == Tail(words)[i]
     IN CASE w.k = "lit" -> w.arg
          [] w.k = "attached" -> Long(w.arg.name, "some")
          [] OTHER -> Word("text")]

\* parseSafeXargsPrefix: what is left after the options of xargs that are
\* known to be harmless; <<>> when there is another
RECURSIVE XargsTarget(_)
XargsTarget(args) ==
  IF args = <<>> THEN <<>>
  ELSE LET a == Head(args)
       IN CASE a = EndOfOptions -> Tail(args)
            [] a = Short(<<"r">>, "none") -> XargsTarget(Tail(args))
            [] a = Short(<<"n">>, "none") ->
                 IF Len(args) > 1 /\ args[2] = Word("1") THEN XargsTarget(Tail(Tail(args))) ELSE <<>>
            [] a.k = "word" -> args
            [] OTHER -> <<>>

\* xargsReadOnlySegmentOK: the target closes its options with --, and its
\* policy holds with and without an argument from the input.
XargsOK(args) ==
  LET target == XargsTarget(args)
      name == target[1].name
      pol == Policies[name]
  IN /\ target # <<>> /\ name \notin Sinks /\ name \in DOMAIN Policies
     /\ \/ /\ PermissiveVarArgs(pol) /\ pol.root.flags.mustNot = <<>>
           /\ Matches(Append(Tail(target), Opaque), pol)
        \/ /\ Len(target) >= 2 /\ target[Len(target)] = EndOfOptions
           /\ \A read \in {<<>>, <<Opaque>>} : Matches(Tail(Front(target)) \o read, pol)

\* structuredLiteralSegmentOKWithEnv
SegmentOK(seg) ==
  LET name == seg.words[1].arg.name
      args == Tail(seg.words)
      pol == Policies[name]
      permissive == PermissiveVarArgs(pol) /\ Matches(Printed(seg.words), pol)
  IN \/ /\ name = "xargs" /\ \A i \in DOMAIN args : args[i].k = "lit"
        /\ XargsOK([i \in DOMAIN args |-> args[i].arg])
     \/ /\ name \in DOMAIN Policies
        /\ IF PermissiveVarArgs(pol) THEN permissive
           ELSE LET all == Variants(seg) IN all # {} /\ \A v \in all : Matches(v, pol)

\* ContainsWriteRedirection: quoted text, a bash -c script among it, is skipped
RECURSIVE Writes(_)
Writes(stmts) ==
  \E s \in Range(stmts) :
    \/ s.writes
    \/ s.k # "bash" /\ Writes(s.body)
    \/ Writes(s.other) \/ Writes(s.more)
    \/ \E w \in Range(s.words) : Writes(w.body)

Accepts(walk) == ~walk.reject /\ \A seg \in walk.segs : ~seg.writes /\ SegmentOK(seg)

\* CommandAllowsAutoApprove
Approves(script) ==
  /\ ~Writes(script)
  /\ Accepts(Collect(script))

-----------------------------------------------------------------------------
(* What a shell does with a script: every way it can go, with the commands *)
(* that were started.                                                      *)

Outcome(env, funcs, ran) == [env |-> env, funcs |-> funcs, ran |-> ran]

RECURSIVE Run(_, _), RunStmt(_, _), RunWords(_, _), RunFor(_, _, _)

\* One statement after the other; every outcome of the first is continued.
Run(stmts, o) ==
  IF stmts = <<>> THEN {o} ELSE UNION {Run(Tail(stmts), p) : p \in RunStmt(Head(stmts), o)}

\* A substitution runs in a subshell.
RunWords(words, o) ==
  IF words = <<>> THEN {o}
  ELSE UNION {RunWords(Tail(words), [o EXCEPT !.ran = p.ran]) : p \in Run(Head(words).body, o)}

ValuesOf(w, env) ==
  CASE w.k = "lit" -> {w.arg}
    [] w.k = "var" -> {env[w.name]}
    [] w.k = "attached" -> {Long(w.arg.name, "some")}
    [] OTHER -> Values

Argvs(words, env) ==
  {v \in [DOMAIN words -> UNION {ValuesOf(words[i], env) : i \in DOMAIN words}] :
     \A i \in DOMAIN words : v[i] \in ValuesOf(words[i], env)}

\* xargs starts its target with what it reads, twice at most here, or nothing.
Started(argv) ==
  IF argv[1] # Word("xargs") THEN {argv}
  ELSE {XargsTarget(Tail(argv)) \o tail : tail \in BoundedSeq(Values, 2)}

RunCall(s, o) ==
  LET name == CommandName(s)
  IN UNION {
       CASE name \in DOMAIN o.funcs -> Run(o.funcs[name], p)
         [] name \in NoSegment -> {p}
         [] name = "read" -> {[p EXCEPT !.env[s.words[2].arg.name] = v] : v \in Values}
         [] OTHER -> {[p EXCEPT !.ran = @ \cup Started(argv)
                                          \cup (IF s.writes THEN {<<Word("write")>>} ELSE {})] :
                        argv \in Argvs(s.words, p.env)}
       : p \in RunWords(s.words, o)}

RunFor(s, items, o) ==
  IF items = <<>> THEN {o}
  ELSE UNION {UNION {RunFor(s, Tail(items), q) : q \in Run(s.body, [o EXCEPT !.env[s.name] = v])} :
                v \in ValuesOf(Head(items), o.env)}

\* A condition that is no test goes either way.
Holds(cond, env) ==
  IF Len(cond) = 1 /\ cond[1].k = "test"
  THEN {l = r : l \in ValuesOf(cond[1].words[1], env), r \in ValuesOf(cond[1].words[2], env)}
  ELSE BOOLEAN

RunStmt(s, o) ==
  LET sub(outcomes) == {[o EXCEPT !.ran = p.ran] : p \in outcomes}
      fits(item, v) == \E i \in DOMAIN item.words :
                         item.words[i].k = "glob" \/ v \in ValuesOf(item.words[i], o.env)
  IN CASE s.k = "call" -> RunCall(s, o)
       [] s.k = "assign" ->
            UNION {{[p EXCEPT !.env[s.name] = v] : v \in ValuesOf(s.words[1], o.env)} :
                     p \in RunWords(s.words, o)}
       [] s.k = "binary" -> Run(s.body, o) \cup Run(s.body \o s.other, o)
       [] s.k = "if" ->
            UNION {UNION {Run(IF b THEN s.other ELSE s.more, p) : b \in Holds(s.body, o.env)} :
                     p \in Run(s.body, o)}
       [] s.k = "while" -> Run(s.body, o) \cup Run(s.body \o s.other \o s.body, o)
       [] s.k = "subshell" -> sub(Run(s.body, o))
       [] s.k = "bash" -> sub(Run(s.body, [o EXCEPT !.funcs = [f \in {} |-> <<>>]]))
       [] s.k = "block" -> Run(s.body, o)
       [] s.k = "for" -> RunFor(s, s.words, o)
       [] s.k = "case" ->
            {o} \cup UNION {UNION {Run(item.body, o) : item \in {i \in Range(s.body) : fits(i, v)}} :
                              v \in ValuesOf(s.words[1], o.env)}
       [] s.k = "test" -> RunWords(s.words, o)
       [] s.k = "func" ->
            {[o EXCEPT !.funcs = [f \in DOMAIN @ \cup {s.name} |-> IF f = s.name THEN s.body ELSE @[f]]]}
       [] s.k = "coproc" -> sub(Run(s.body, o))

Listed(argv) ==
  argv[1].name \in DOMAIN Policies /\ Matches(Tail(argv), Policies[argv[1].name])

-----------------------------------------------------------------------------
\* The walk returns from a branch, a loop, a list, a function and an item with
\* the values from before, and takes the last of several equal items only once:
\* it says something of a variable where these assign none.
RECURSIVE Assigns(_), Straight(_)
Assigns(stmts) ==
  \E s \in Range(stmts) :
    \/ s.k \in {"assign", "for"}
    \/ s.k = "call" /\ CommandName(s) = "read"
    \/ Assigns(s.body) \/ Assigns(s.other) \/ Assigns(s.more)

Straight(stmts) ==
  \A s \in Range(stmts) :
    /\ s.k \in {"if", "while", "binary", "func", "item", "for"} =>
         ~Assigns(s.body) /\ ~Assigns(s.other) /\ ~Assigns(s.more)
    /\ s.k = "for" => \A i, j \in DOMAIN s.words : s.words[i] = s.words[j] => i = j
    /\ Straight(s.body) /\ Straight(s.other) /\ Straight(s.more)

\* Every command that a straight script starts without an approval, whatever
\* its variables, its input and its conditions turn out to be, satisfies the
\* policy of its name with the arguments it is really given, and no file is
\* written (CommandAllowsAutoApprove).
ApprovedRunsListed(script, vars) ==
  Approves(script) /\ Straight(script) =>
    \A start \in [vars -> Values] :
      \A o \in Run(script, Outcome(start, [f \in {} |-> <<>>], {})) :
        \A argv \in o.ran : Listed(argv)
=============================================================================
