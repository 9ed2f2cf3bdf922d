----------------------------- MODULE CLIPolicy -----------------------------
(***************************************************************************)
(* Which argument lists a policy of the allow list accepts                 *)
(* (hil/structured_readonly.go, config/read_only_cli.go).  A policy is a   *)
(* tree: flags before the first subcommand, flags, operands and            *)
(* subcommands of each node.  An argument is what the shell word shows:    *)
(* a literal, split into what the matcher looks at, or a placeholder for   *)
(* a value that is known only when the command runs.                       *)
(***************************************************************************)
EXTENDS Naturals, Sequences, SequencesExt

\* val: "none", or the value after = : "empty", "some", "subst" for ="$(...)".
Arg(k, name, letters, val) == [k |-> k, name |-> name, letters |-> letters, val |-> val]
Word(s) == Arg("word", s, <<>>, "none")
Long(s, val) == Arg("long", s, <<>>, val)             \* --s, --s=val
Short(letters, val) == Arg("short", "", letters, val)  \* -n, -abc, -n=val
EndOfOptions == Arg("end", "", <<>>, "none")           \* --
Opaque == Arg("opaque", "", <<>>, "none")              \* "$x", value not known
Subst == Arg("subst", "", <<>>, "none")                \* "$(...)"

IsLiteral(a) == a.k \notin {"opaque", "subst"} /\ a.val # "subst"
IsFlag(a) == a.k \in {"long", "short", "end"}

-----------------------------------------------------------------------------
(* FlagRule                                                                *)

Option(short, long, value) == [short |-> short, long |-> long, value |-> value]
Rule(any, allow, must, mustNot) ==
  [any |-> any, allow |-> allow, must |-> must, mustNot |-> mustNot]
FlagsAny == Rule(TRUE, <<>>, <<>>, <<>>)
FlagsNone == Rule(FALSE, <<>>, <<>>, <<>>)

IsOpenAny(f) == f.any /\ f.allow = <<>> /\ f.must = <<>>
IsAllowList(f) == f.allow # <<>> \/ f.must # <<>>
IsNone(f) == ~f.any /\ f.allow = <<>> /\ f.must = <<>> /\ f.mustNot = <<>>

\* AllowedEntrySatisfiesMust
Satisfies(m, o) ==
  /\ m.short # "" \/ m.long # ""
  /\ m.short \in {"", o.short} /\ m.long \in {"", o.long}

\* EffectiveConsumableAllowList: a must that no row satisfies is a row itself.
Rows(f) ==
  f.allow \o SelectSeq(f.must, LAMBDA m : \A i \in DOMAIN f.allow : ~Satisfies(m, f.allow[i]))

\* validateFlagRule
ValidRule(f) ==
  /\ \A o \in Range(f.allow) \cup Range(f.must) \cup Range(f.mustNot) : o.short # "" \/ o.long # ""
  /\ f.mustNot # <<>> => ~IsAllowList(f)

NoSubs == [s \in {} |-> s]
Node(flags, operands, aliases, subs) ==
  [flags |-> flags, operands |-> operands, aliases |-> aliases, subs |-> subs]

\* PermissiveVarArgs
PermissiveVarArgs(pol) ==
  /\ pol.name # "env" /\ IsNone(pol.global)
  /\ DOMAIN pol.root.subs = {} /\ IsOpenAny(pol.root.flags) /\ pol.root.operands

-----------------------------------------------------------------------------
(* What one flag consumes: the number of arguments, 0 when it is refused.  *)

\* consumeAnyFlagArg
ConsumeAny(args, i) ==
  LET a == args[i]
      valueFollows == /\ i < Len(args) /\ ~IsFlag(args[i + 1]) /\ args[i + 1].k # "subst"
  IN  IF a.k = "end" \/ a.val = "subst" THEN 0
      ELSE IF a.val = "none" /\ (a.k = "long" \/ Len(a.letters) = 1) /\ valueFollows THEN 2 ELSE 1

Names(o, a) ==
  \/ a.k = "long" /\ o.long # "" /\ o.long = a.name
  \/ a.k = "short" /\ o.short # "" /\ a.letters = <<o.short>>

\* consumeAllowListOptArgIdx
ConsumeRow(o, args, i) ==
  LET a == args[i]
  IN  CASE o.value /\ a.val = "none" -> IF i < Len(args) THEN 2 ELSE 0
        [] o.value /\ a.val # "none" -> IF a.val = "empty" THEN 0 ELSE 1
        [] ~o.value                  -> IF a.k = "short" /\ a.val # "none" THEN 0 ELSE 1

\* The first row that names the option; 0: none.
RowOf(f, a) == SelectInSeq(Rows(f), LAMBDA o : Names(o, a))

\* consumeFlagArgIdx: how many, and the row that allowed them
Consume(args, i, f) ==
  IF IsOpenAny(f) THEN [n |-> ConsumeAny(args, i), row |-> 0]
  ELSE LET r == RowOf(f, args[i])
       IN  [n |-> IF r = 0 THEN 0 ELSE ConsumeRow(Rows(f)[r], args, i), row |-> r]

\* The musts that a consumed row satisfies.
Fulfilled(f, row) ==
  IF row = 0 THEN {} ELSE {j \in DOMAIN f.must : Satisfies(f.must[j], Rows(f)[row])}

-----------------------------------------------------------------------------
(* must_not of an open rule                                                *)

\* flagTokenHitsMustNot, shortFlagHitsMustNot
HitsMustNot(a, mustNot) ==
  \/ a.k = "long" /\ \E o \in Range(mustNot) : o.long # "" /\ o.long = a.name
  \/ /\ a.k = "short" /\ (a.val = "none" \/ Len(a.letters) = 1)
     /\ \E o \in Range(mustNot), l \in Range(a.letters) : o.short = l

\* scanArgsForMustNotViolations, a loop that does not look at the value of a flag
PastLooked(args, i) ==
  LET n == IF i \in DOMAIN args /\ IsFlag(args[i]) THEN ConsumeAny(args, i) ELSE 0
  IN  i + (IF n = 0 THEN 1 ELSE n)

ViolatesMustNot(args, i, mustNot) ==
  LET at[k \in 0 .. Len(args)] == IF k = 0 THEN i ELSE PastLooked(args, at[k - 1])
  IN  \E k \in 0 .. Len(args) : at[k] \in DOMAIN args /\ HitsMustNot(args[at[k]], mustNot)

-----------------------------------------------------------------------------
(* The walk over the arguments                                             *)

\* flagsWithGlobalAllowMerged
Merged(pol, f) ==
  LET g == pol.global
  IN CASE IsAllowList(g) /\ IsAllowList(f) -> Rule(FALSE, g.allow \o Rows(f), f.must, <<>>)
       [] IsAllowList(g) /\ IsNone(f)      -> Rule(FALSE, g.allow, <<>>, <<>>)
       [] OTHER                            -> f

\* The loops of the walk go from place to place: the next argument, the musts
\* met, whether -- was passed.  They end after a round for each argument.
Place(i) == [at |-> i, sat |-> {}, ended |-> FALSE]
Refused == Place(0)

\* Over a flag, in both loops.
PastFlag(args, f, s) ==
  LET c == Consume(args, s.at, f)
  IN  IF c.n = 0 THEN Refused
      ELSE [s EXCEPT !.at = s.at + c.n, !.sat = s.sat \cup Fulfilled(f, c.row)]

\* consumeLeadingFlagsWithMust
LeadingStep(args, f, s) ==
  IF s.at \notin DOMAIN args \/ ~IsFlag(args[s.at]) \/ args[s.at].k = "end" THEN s
  ELSE PastFlag(args, f, s)

Leading(args, i, f) ==
  LET after[k \in 0 .. Len(args)] == IF k = 0 THEN Place(i) ELSE LeadingStep(args, f, after[k - 1])
  IN  after[Len(args)]

\* The musts are asked for at the end only.
InterleavedStepLateMust(args, f, operands, s) ==
  LET a == args[s.at]
  IN  CASE s.at \notin DOMAIN args -> s
        [] s.at \in DOMAIN args /\ IsFlag(a) /\ ~s.ended ->
             IF a.k # "end" THEN PastFlag(args, f, s)
             ELSE IF operands THEN [at |-> s.at + 1, sat |-> s.sat, ended |-> TRUE] ELSE Refused
        [] OTHER ->
             IF operands /\ (a.k # "subst" \/ s.ended) THEN [s EXCEPT !.at = s.at + 1] ELSE Refused

\* consumeInterleavedArg
InterleavedStep(args, f, operands, s) ==
  LET a == args[s.at]
      met == s.sat = DOMAIN f.must
  IN  CASE s.at \notin DOMAIN args -> s
        [] s.at \in DOMAIN args /\ IsFlag(a) /\ ~s.ended ->
             IF a.k # "end" THEN PastFlag(args, f, s)
             ELSE IF operands /\ met THEN [at |-> s.at + 1, sat |-> s.sat, ended |-> TRUE] ELSE Refused
        [] OTHER ->
             IF met /\ operands /\ (a.k # "subst" \/ s.ended) THEN [s EXCEPT !.at = s.at + 1] ELSE Refused

Interleaved(args, lead, f, operands) ==
  LET after[k \in 0 .. Len(args)] ==
        IF k = 0 THEN lead ELSE InterleavedStep(args, f, operands, after[k - 1])
  IN  after[Len(args)].at # 0 /\ after[Len(args)].sat = DOMAIN f.must

\* lookupSubcommand: a name goes before an alias
Lookup(subs, key) ==
  IF key \in DOMAIN subs THEN {key} ELSE {s \in DOMAIN subs : key \in subs[s].aliases}

\* matchNodeArg: the walk goes down to the last subcommand that is named behind
\* the leading flags; an alias is of one subcommand.
Stage(node, i, isRoot) == [node |-> node, at |-> i, isRoot |-> isRoot]
Flags(pol, s) == Merged(pol, s.node.flags)
Lead(args, pol, s) == Leading(args, s.at, Flags(pol, s))

AtWord(args, node, i) == DOMAIN node.subs # {} /\ i \in DOMAIN args /\ ~IsFlag(args[i])
Named(args, node, i) ==
  IF AtWord(args, node, i) /\ IsLiteral(args[i]) THEN Lookup(node.subs, args[i].name) ELSE {}

DescendBehind(args, pol, s, lead) ==
  LET named == Named(args, s.node, lead.at)
  IN  IF named # {} /\ lead.sat = DOMAIN Flags(pol, s).must
      THEN Stage(s.node.subs[CHOOSE sub \in named : TRUE], lead.at + 1, FALSE) ELSE s
Descend(args, pol, s) == DescendBehind(args, pol, s, Lead(args, pol, s))

\* Behind the leading flags of that one, its operands.
MatchBehind(args, pol, s, lead) ==
  /\ lead.at # 0
  /\ Named(args, s.node, lead.at) = {}      \* else a must is missing before it
  /\ AtWord(args, s.node, lead.at) => IsLiteral(args[lead.at]) /\ ~s.isRoot /\ s.node.operands
  /\ Interleaved(args, lead, Flags(pol, s), s.node.operands)
MatchRest(args, pol, s) == MatchBehind(args, pol, s, Lead(args, pol, s))

MatchNode(args, i, pol) ==
  LET below[k \in 0 .. Len(args)] ==
        IF k = 0 THEN Stage(pol.root, i, TRUE) ELSE Descend(args, pol, below[k - 1])
  IN  MatchRest(args, pol, below[Len(args)])

\* matchFromRootArg
MatchRoot(args, i, pol) ==
  IF DOMAIN pol.root.subs = {} /\ IsOpenAny(pol.root.flags) /\ pol.root.operands
  THEN ~ViolatesMustNot(args, i, pol.root.flags.mustNot)
  ELSE MatchNode(args, i, pol)

\* matchReadOnlyCLIArgs, without argv[0]
Matches(args, pol) ==
  LET i == IF IsNone(pol.global) THEN 1 ELSE Leading(args, 1, pol.global).at
  IN  /\ i # 0
      /\ IsOpenAny(pol.global) => ~ViolatesMustNot(SubSeq(args, 1, i - 1), 1, pol.global.mustNot)
      /\ MatchRoot(args, i, pol)

-----------------------------------------------------------------------------
(* The documented rule, for one node: every argument has a role.           *)

Roles == {"option", "value", "end", "operand"}

WantsNext(f, a) == Rows(f)[RowOf(f, a)].value /\ a.val = "none"

Reads(args, f, operands, role) ==
  LET n == Len(args)
      Ended(i) == \E e \in 1 .. i - 1 : role[e] = "end"
      Operands == {i \in 1 .. n : role[i] \in {"operand", "end"}}
  IN /\ \A i \in 1 .. n :
          LET a == args[i]
          IN CASE role[i] = "option" ->
                    /\ ~Ended(i) /\ a.k \in {"long", "short"} /\ RowOf(f, a) # 0
                    /\ WantsNext(f, a) => i < n /\ role[i + 1] = "value"
                    /\ ~Rows(f)[RowOf(f, a)].value /\ a.k = "short" => a.val = "none"
                    /\ Rows(f)[RowOf(f, a)].value => a.val # "empty"
               [] role[i] = "value" ->
                    i > 1 /\ role[i - 1] = "option" /\ WantsNext(f, args[i - 1])
               [] role[i] = "end" -> operands /\ ~Ended(i) /\ a.k = "end"
               [] role[i] = "operand" ->
                    /\ operands /\ (~IsFlag(a) \/ Ended(i))
                    /\ a.k = "subst" => Ended(i)
     /\ \A m \in Range(f.must) : \E i \in 1 .. n :
          /\ role[i] = "option" /\ Satisfies(m, Rows(f)[RowOf(f, args[i])])
          /\ \A j \in Operands : i < j

Readable(args, f, operands) == \E role \in [1 .. Len(args) -> Roles] : Reads(args, f, operands, role)

\* Where the rule lists its flags, what the matcher accepts is what can be read
\* with a role for each argument: every flag is a listed option or the value of
\* one, every must comes before the first operand, operands only where they are
\* allowed, a command substitution only where it cannot be a flag.
AcceptsAsRead(pol, args) ==
  LET f == Merged(pol, pol.root.flags)
  IN DOMAIN pol.root.subs = {} /\ ~f.any =>
       (MatchNode(args, 1, pol) <=> Readable(args, f, pol.root.operands))
=============================================================================
