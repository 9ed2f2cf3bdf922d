------------------------------- MODULE MCParts -------------------------------
(***************************************************************************)
(* One instance for TLC of the parts that share no state with the turn or  *)
(* with one another: a behaviour is a behaviour of one part, the others    *)
(* stand still.  The two analyses of a command have no state: their inputs *)
(* are the initial states.                                                 *)
(***************************************************************************)
EXTENDS Parts, Integers, TLC

CONSTANT
  MaxVariants    \* ShellAllow

-----------------------------------------------------------------------------
(* Lines and files of the input line.  "l" and "h" begin several rows, a    *)
(* host is saved and an alias, and one alias is the host of another.        *)

SomeLines == {<<"hi">>, <<"/">>, <<"/", "acc", "ess", " ", "l">>, <<"/", "skill", " ", "d", " ", "hi">>}

Saved(user, host, name) == [user |-> <<user>>, host |-> <<host>>, name |-> name]
Alias(alias, host) == [alias |-> <<alias>>, host |-> <<host>>, user |-> <<"me">>]

SomeFiles == {
  [saved |-> <<Saved("root", "h", <<"web">>)>>,
   ssh |-> <<Alias("a", "h"), Alias("l", "k")>>, skills |-> <<<<"d">>>>],
  [saved |-> <<Saved("root", "h", <<>>), Saved("me", "h", <<"l">>)>>,
   ssh |-> <<Alias("h", "k"), Alias("b", "k")>>, skills |-> <<>>]}

(* The dialogs: a server with a ref that begins another, one that does not  *)
(* answer, a skill without a source.                                        *)

hub == <<"hub">>
mirror == <<"mirror">>

Servers == hub :> <<[ref |-> <<"m">>, paths |-> <<<<"p">>>>], [ref |-> <<"m", "a">>, paths |-> <<>>]>>

Sources ==
  {[url |-> hub, ref |-> <<"m", "a">>], [url |-> mirror, ref |-> <<>>], [url |-> <<>>, ref |-> <<>>]}

AnyPiece == STRING
AnyText == Seq(STRING)
FieldTexts == (0 :> {hub, mirror}) @@ (1 :> {}) @@ (2 :> {<<"p">>}) @@ (3 :> {})

-----------------------------------------------------------------------------
Out == Option("o", "out", TRUE)
Test == Option("t", "", FALSE)

OneNode(name, global, flags, operands) ==
  [name |-> name, global |-> global, root |-> Node(flags, operands, {}, NoSubs)]

(* k has a subcommand get with an alias, ls takes anything, b anything but  *)
(* -t.                                                                      *)
GetNode == Node(FlagsNone, TRUE, {"g"}, NoSubs)
KPolicy == [name |-> "k", global |-> Rule(FALSE, <<Out>>, <<>>, <<>>),
            root |-> Node(FlagsNone, FALSE, {}, [s \in {"get"} |-> GetNode])]
Listed ==
  ("k" :> KPolicy)
    @@ ("ls" :> OneNode("ls", FlagsNone, FlagsAny, TRUE))
    @@ ("b" :> OneNode("b", FlagsNone, Rule(TRUE, <<>>, <<>>, <<Test>>), TRUE))

Stands == {Word("get"), Word("del")}

shl == INSTANCE ShellAllow WITH
  Policies <- Listed, Values <- Stands, Sinks <- {"xargs", "sh"}

(* Rules of one node: a must, two options, no operands, no flags, globals.  *)
Rules ==
  LET none == FlagsNone
      needs == Rule(FALSE, <<Out>>, <<Test>>, <<>>)
      lists(f) == Rule(FALSE, f, <<>>, <<>>)
      all == {OneNode("c", none, needs, TRUE), OneNode("c", none, needs, FALSE),
              OneNode("c", none, lists(<<Out, Test>>), TRUE),
              OneNode("c", none, none, TRUE), OneNode("c", lists(<<Out>>), none, TRUE)}
  IN  {pol \in all : shl!Valid(pol)}

Args == {Word("x"), Long("out", "none"), Long("out", "some"),
         Long("out", "empty"), Short(<<"t">>, "none"), EndOfOptions,
         Subst, Opaque}

-----------------------------------------------------------------------------
(* Scripts: some statements that set x or y, a compound one, one more; or   *)
(* one simple command after them, or a function around them.                *)

W(x) == shl!Lit(Word(x))
Get == W("get")
Del == W("del")
X == shl!Var("x")
K(args) == shl!Call(<<W("k")>> \o args)
B(args) == shl!Call(<<W("b")>> \o args)
Gets == K(<<Get>>)
Rm == shl!Call(<<W("rm")>>)

Simple == {
  Gets, K(<<Del>>), K(<<X>>), K(<<Get, X>>), K(<<shl!Expansion("x")>>), Rm,
  K(<<Get, shl!Lit(EndOfOptions), shl!CmdSubst(<<Gets>>)>>),
  K(<<Get, shl!Lit(EndOfOptions), shl!CmdSubst(<<Rm>>)>>),
  K(<<Get, shl!CmdSubst(<<Gets>>)>>),
  K(<<shl!Lit(Long("out", "none")), X, Get>>),
  K(<<shl!Attached("out", <<Gets>>), Get>>),
  B(<<Get>>), B(<<shl!Lit(Short(<<"t">>, "none"))>>), B(<<X>>),
  shl!Call(<<W("ls"), shl!Expansion("x")>>), shl!Call(<<X>>), shl!Call(<<W("f")>>),
  shl!Call(<<W(":"), shl!CmdSubst(<<Rm>>)>>), shl!CallToFile(<<W("ls")>>),
  shl!Call(<<W("xargs"), W("k"), Get, shl!Lit(EndOfOptions)>>),
  shl!Call(<<W("xargs"), W("k"), shl!Lit(EndOfOptions)>>),
  shl!Call(<<W("xargs"), W("sh")>>)}

Sets == {
  shl!Assign("x", Get), shl!Assign("x", Del), shl!Assign("x", shl!Var("y")),
  shl!Assign("x", shl!CmdSubst(<<Gets>>)), shl!Call(<<W("read"), W("x")>>),
  shl!Assign("y", Get), shl!Assign("y", Del)}

Few == {K(<<X>>), Gets, Rm, K(<<Get, X>>)}

Tests == {shl!Equal(X, Get), shl!Equal(X, Del), shl!Equal(Del, X), shl!Equal(X, shl!Var("y")),
          Gets, shl!Equal(shl!CmdSubst(<<Rm>>), Get)}

Compound ==
  {shl!If(<<c>>, <<a>>, <<b>>) : c \in Tests, a \in Few, b \in Few}
  \cup {shl!For("x", items, <<a>>) : a \in Few, items \in
          {<<Get>>, <<Get, Del>>, <<Get, Get>>, <<shl!Var("y")>>, <<Get, shl!Var("y")>>, <<>>}}
  \cup {shl!Case(X, <<shl!Item(p, <<a>>), shl!Item(<<shl!ExtGlob>>, <<b>>)>>) :
          p \in {<<Get>>, <<Get, Del>>, <<shl!Var("y")>>}, a \in Few, b \in Few}
  \cup UNION {{shl!Binary(<<a>>, <<b>>), shl!While(<<a>>, <<b>>)} : a \in Few, b \in Few}
  \cup UNION {{shl!BashC(<<a, b>>), shl!Subshell(<<a, b>>), shl!Block(<<a, b>>)} :
                a \in Few \cup Sets, b \in Few}
  \cup {shl!Coproc(<<Gets>>)}

Before ==
  {<<>>} \cup {<<s>> : s \in Sets}
  \cup {<<shl!Assign("y", v), shl!Assign("x", w)>> : v \in {Get, Del}, w \in {Get, Del, shl!Var("y")}}

Scripts ==
  {p \o <<c, s>> : p \in Before, c \in Compound, s \in Few}
  \cup {Append(p, s) : p \in Before, s \in Simple}
  \cup {<<shl!Func("f", <<a>>)>> \o p \o <<s, shl!Call(<<W("f")>>)>> :
          p \in Before, a \in Few, s \in Simple}

-----------------------------------------------------------------------------
stateless == <<part, input>>
sesVars == <<current, fileOf, handles, log, runner, stage, writer, given, moved, chats,
             records, target, queue, pending, timer, unread>>
hmVars == <<mem, at, copy, base, jobs, blind, overlapped, kept>>
sklVars == <<head, places, dir, fresh, backups, sources, torn, job, uses, installed, slipped>>
inpVars == <<line, suggest, hist, place, scratch, waiting, dialog, files, filled, asked>>
dlgVars == <<overlay, add, update, asks, calm>>
all == <<stateless, sesVars, hmVars, sklVars, inpVars, dlgVars>>

Nothing == <<>>

Init ==
  /\ ses!Init /\ hm!Init /\ skl!Init /\ inp!Init /\ dlg!Init
  /\ \/ part \in {"sessions", "memory", "skills", "line", "dialog"} /\ input = Nothing
     \/ /\ part = "rule"
        /\ \E pol \in Rules, args \in BoundedSeq(Args, 4) : input = [pol |-> pol, args |-> args]
     \/ part = "script" /\ input \in Scripts
  /\ part # "skills" => places = {}
  /\ part # "line" => files = CHOOSE s \in Setups : TRUE

Next ==
  /\ UNCHANGED stateless
  /\ \/ part = "sessions" /\ ses!Next
        /\ UNCHANGED <<hmVars, sklVars, inpVars, dlgVars>>
     \/ part = "memory" /\ hm!Next
        /\ UNCHANGED <<sesVars, sklVars, inpVars, dlgVars>>
     \/ part = "skills" /\ skl!Next
        /\ UNCHANGED <<sesVars, hmVars, inpVars, dlgVars>>
     \/ part = "line" /\ inp!Next
        /\ UNCHANGED <<sesVars, hmVars, sklVars, dlgVars>>
     \/ part = "dialog" /\ dlg!Next
        /\ UNCHANGED <<sesVars, hmVars, sklVars, inpVars>>

Spec == Init /\ [][Next]_all

-----------------------------------------------------------------------------
\* ShellAllow: a script that needs no approval starts only listed commands.
ApprovedRunsListed == part = "script" => shl!ApprovedRunsListed(input, {"x", "y"})
=============================================================================
