--------------------------- MODULE CLIPolicy_proofs ---------------------------
(***************************************************************************)
(* Proofs about the matcher of the allow list: its loops over the          *)
(* arguments accept exactly what the documented rule can read.  A loop     *)
(* keeps invariant that the whole list can be read if and only if what     *)
(* remains can be read from the place it is at.                            *)
(***************************************************************************)
EXTENDS Parts, WellFoundedInduction, TLAPS

-----------------------------------------------------------------------------
(* Induction and loops.                                                    *)

\* Induction over the natural numbers: of the places where something fails, one
\* is the first.
LEMMA LeastNatural ==
  ASSUME NEW S \in SUBSET Nat, S # {}
  PROVE  \E n \in S : \A m \in S : n <= m
  <1> DEFINE Less == {pair \in Nat \X Nat : pair[1] < pair[2]}
  <1>1. IsWellFoundedOn(Less, Nat)
    BY NatLessThanWellFounded DEF OpToRel
  <1>2. \E n \in S : \A m \in S : ~(<<m, n>> \in Less)
    <2> HIDE DEF Less
    <2>1. QED
      BY <1>1, WFMin
  <1>3. PICK n \in S : \A m \in S : ~(<<m, n>> \in Less)
    BY <1>2
  <1>4. ASSUME NEW m \in S PROVE n <= m
    <2>1. <<m, n>> \in Nat \X Nat
      OBVIOUS
    <2>2. ~(m < n)
      BY <1>3, <2>1
    <2>3. QED
      BY <2>2
  <1>5. QED
    BY <1>4

\* A set of numbers that has 0 and the successor of each of its members has all.
LEMMA Induction ==
  ASSUME NEW S, 0 \in S, \A n \in Nat : n \in S => n + 1 \in S
  PROVE  Nat \subseteq S
  <1> DEFINE missing == Nat \ S
  <1>1. SUFFICES ASSUME missing # {} PROVE FALSE
    OBVIOUS
  <1>2. PICK n \in missing : \A m \in missing : n <= m
    <2>1. missing \in SUBSET Nat
      OBVIOUS
    <2> HIDE DEF missing
    <2>2. QED
      BY <1>1, <2>1, LeastNatural
  <1>3. n # 0 /\ n - 1 \in Nat
    BY <1>2
  <1>4. n - 1 \in S
    BY <1>2, <1>3
  <1>5. QED
    BY <1>2, <1>3, <1>4

\* The rounds of a loop over a set of states; a loop of n rounds.
StepsOn(S) == [S -> S]
IsLoop(g, n, start, step) == g = [k \in 0 .. n |-> IF k = 0 THEN start ELSE step[g[k - 1]]]

\* A loop of n rounds, as the model writes it, has a run.
LEMMA LoopRuns ==
  ASSUME NEW S, NEW start \in S, NEW step \in StepsOn(S), NEW n \in Nat
  PROVE  \E g : IsLoop(g, n, start, step) /\ \A k \in 0 .. n : g[k] \in S
  <1>0. step \in [S -> S]
    BY DEF StepsOn
  <1> DEFINE IsRun(g, m) == /\ g = [k \in 0 .. m |-> IF k = 0 THEN start ELSE step[g[k - 1]]]
                            /\ \A k \in 0 .. m : g[k] \in S
             T == {m \in Nat : \E g : IsRun(g, m)}
  <1>1. 0 \in T
    <2>1. IsRun([k \in 0 .. 0 |-> start], 0)
      OBVIOUS
    <2>2. QED
      BY <2>1
  <1>2. ASSUME NEW m \in Nat, m \in T PROVE m + 1 \in T
    <2>1. PICK g : IsRun(g, m)
      BY <1>2
    <2> DEFINE h == [k \in 0 .. (m + 1) |-> IF k = m + 1 THEN step[g[m]] ELSE g[k]]
    <2>2. \A k \in 0 .. m : h[k] = g[k] /\ g[k] \in S
      BY <2>1
    <2>3. h[m + 1] = step[g[m]] /\ h[m + 1] \in S
      <3>1. m \in 0 .. m
        OBVIOUS
      <3>2. QED
        BY <1>0, <2>2, <3>1
    <2>4. \A k \in 0 .. (m + 1) : h[k] = (IF k = 0 THEN start ELSE step[h[k - 1]]) /\ h[k] \in S
      <3>1. TAKE k \in 0 .. (m + 1)
      <3>2. CASE k = m + 1
        BY <2>2, <2>3, <3>2
      <3>3. CASE k # m + 1
        <4>1. k \in 0 .. m /\ (k # 0 => k - 1 \in 0 .. m)
          BY <3>3
        <4>2. g[k] = IF k = 0 THEN start ELSE step[g[k - 1]]
          BY <2>1, <4>1
        <4>3. QED
          BY <2>2, <4>1, <4>2
      <3>4. QED
        BY <3>2, <3>3
    <2>5. h = [k \in 0 .. (m + 1) |-> h[k]]
      OBVIOUS
    <2> HIDE DEF h
    <2>6. IsRun(h, m + 1)
      BY <2>4, <2>5
    <2>7. QED
      BY <2>6
  <1> HIDE DEF T
  <1>3. Nat \subseteq T
    BY <1>1, <1>2, Induction
  <1>4. PICK g : IsRun(g, n)
    BY <1>3 DEF T
  <1>5. QED
    BY <1>4 DEF IsLoop

\* What holds before a loop and is kept by each round holds after it.
LEMMA LoopInvariant ==
  ASSUME NEW n \in Nat, NEW g, NEW inv, g[0] \in inv[0],
         \A k \in 1 .. n : g[k - 1] \in inv[k - 1] => g[k] \in inv[k]
  PROVE  g[n] \in inv[n]
  <1> DEFINE T == {m \in Nat : m <= n => g[m] \in inv[m]}
  <1>1. 0 \in T
    OBVIOUS
  <1>2. ASSUME NEW m \in Nat, m \in T PROVE m + 1 \in T
    <2>1. SUFFICES ASSUME m + 1 <= n PROVE g[m + 1] \in inv[m + 1]
      OBVIOUS
    <2>2. m + 1 \in 1 .. n /\ (m + 1) - 1 = m /\ g[m] \in inv[m]
      BY <1>2, <2>1
    <2>3. g[(m + 1) - 1] \in inv[(m + 1) - 1]
      BY <2>2
    <2>4. QED
      BY <2>2, <2>3
  <1> HIDE DEF T
  <1>3. Nat \subseteq T
    BY <1>1, <1>2, Induction
  <1>4. QED
    BY <1>3 DEF T

-----------------------------------------------------------------------------
(* What remains to be read.                                                *)

\* The places the loops can be at.
Places(args, f) == [at : 0 .. Len(args) + 1, sat : SUBSET DOMAIN f.must, ended : BOOLEAN]

\* -- was passed before an argument.
EndedBefore(s, role, i) == s.ended \/ \E e \in s.at .. i - 1 : role[e] = "end"

\* An argument that can be an option of the rule.
OptionFits(f, a) ==
  /\ a.k \in {"long", "short"} /\ RowOf(f, a) # 0
  /\ ~Rows(f)[RowOf(f, a)].value /\ a.k = "short" => a.val = "none"
  /\ Rows(f)[RowOf(f, a)].value => a.val # "empty"

\* An argument in its role, in what remains from a place.
RoleFits(args, f, operands, s, role, i) ==
  \/ /\ role[i] = "option" /\ ~EndedBefore(s, role, i) /\ OptionFits(f, args[i])
     /\ WantsNext(f, args[i]) => i < Len(args) /\ role[i + 1] = "value"
  \/ role[i] = "value" /\ i > s.at /\ role[i - 1] = "option" /\ WantsNext(f, args[i - 1])
  \/ role[i] = "end" /\ operands /\ ~EndedBefore(s, role, i) /\ args[i].k = "end"
  \/ /\ role[i] = "operand" /\ operands /\ (~IsFlag(args[i]) \/ EndedBefore(s, role, i))
     /\ args[i].k = "subst" => EndedBefore(s, role, i)

\* A must that was met, or is met by an option before the first operand.
MustFits(args, f, s, role, m) ==
  \/ m \in s.sat
  \/ \E i \in s.at .. Len(args) :
       /\ role[i] = "option" /\ Satisfies(f.must[m], Rows(f)[RowOf(f, args[i])])
       /\ \A j \in s.at .. Len(args) : role[j] \in {"operand", "end"} => i < j

\* The arguments from a place on can be read in these roles; in some roles.
RestReads(args, f, operands, s, role) ==
  /\ \A i \in s.at .. Len(args) : RoleFits(args, f, operands, s, role, i)
  /\ \A m \in DOMAIN f.must : MustFits(args, f, s, role, m)

RestReadable(args, f, operands, s) ==
  \E role \in [s.at .. Len(args) -> Roles] : RestReads(args, f, operands, s, role)

\* At the first argument, it is the documented rule.
LEMMA ReadableIsRest ==
  ASSUME NEW S, NEW args \in Seq(S), NEW f, NEW operands
  PROVE  Readable(args, f, operands) <=> RestReadable(args, f, operands, Place(1))
  <1>1. Place(1).at = 1 /\ Place(1).sat = {} /\ ~Place(1).ended
    BY DEF Place
  <1>2. SUFFICES ASSUME NEW role \in [1 .. Len(args) -> Roles]
                 PROVE  Reads(args, f, operands, role) <=> RestReads(args, f, operands, Place(1), role)
    BY <1>1 DEF Readable, RestReadable
  <1> DEFINE Ended(i) == \E e \in 1 .. i - 1 : role[e] = "end"
             Fits1(i) == LET a == args[i]
                         IN CASE role[i] = "option" ->
                    /\ ~Ended(i) /\ a.k \in {"long", "short"} /\ RowOf(f, a) # 0
                    /\ WantsNext(f, a) => i < Len(args) /\ role[i + 1] = "value"
                    /\ ~Rows(f)[RowOf(f, a)].value /\ a.k = "short" => a.val = "none"
                    /\ Rows(f)[RowOf(f, a)].value => a.val # "empty"
               [] role[i] = "value" ->
                    i > 1 /\ role[i - 1] = "option" /\ WantsNext(f, args[i - 1])
               [] role[i] = "end" -> operands /\ ~Ended(i) /\ a.k = "end"
               [] role[i] = "operand" ->
                    /\ operands /\ (~IsFlag(a) \/ Ended(i))
                    /\ a.k = "subst" => Ended(i)
             Must1(m) == \E i \in 1 .. Len(args) :
          /\ role[i] = "option" /\ Satisfies(m, Rows(f)[RowOf(f, args[i])])
          /\ \A j \in {i2 \in 1 .. Len(args) : role[i2] \in {"operand", "end"}} : i < j
  <1>3. Reads(args, f, operands, role) <=>
          (\A i \in 1 .. Len(args) : Fits1(i)) /\ \A m \in Range(f.must) : Must1(m)
    BY DEF Reads
  <1>4. ASSUME NEW i \in 1 .. Len(args)
        PROVE  Fits1(i) <=> RoleFits(args, f, operands, Place(1), role, i)
    <2>1. role[i] \in Roles
      OBVIOUS
    <2>2. Ended(i) <=> EndedBefore(Place(1), role, i)
      BY <1>1 DEF EndedBefore
    <2> HIDE DEF Ended
    <2>3. CASE role[i] = "option"
      BY <1>1, <2>2, <2>3 DEF RoleFits, OptionFits
    <2>4. CASE role[i] = "value"
      BY <1>1, <2>2, <2>4 DEF RoleFits
    <2>5. CASE role[i] = "end"
      BY <1>1, <2>2, <2>5 DEF RoleFits
    <2>6. CASE role[i] = "operand"
      BY <1>1, <2>2, <2>6 DEF RoleFits
    <2>7. QED
      BY <2>1, <2>3, <2>4, <2>5, <2>6 DEF Roles
  <1>5. \A m \in DOMAIN f.must : Must1(f.must[m]) <=> MustFits(args, f, Place(1), role, m)
    BY <1>1 DEF MustFits
  <1> HIDE DEF Fits1, Must1
  <1>6. (\A m \in Range(f.must) : Must1(m)) <=> \A m \in DOMAIN f.must : Must1(f.must[m])
    BY DEF Range
  <1>7. QED
    BY <1>1, <1>3, <1>4, <1>5, <1>6 DEF RestReads

\* Past the last argument, no must may be missing.
LEMMA ReadAtEnd ==
  ASSUME NEW S, NEW args \in Seq(S), NEW f, NEW operands,
         NEW s \in Places(args, f), s.at = Len(args) + 1
  PROVE  RestReadable(args, f, operands, s) <=> s.sat = DOMAIN f.must
  <1>1. s.at .. Len(args) = {} /\ s.sat \subseteq DOMAIN f.must
    BY DEF Places
  <1>2. \A role : RestReads(args, f, operands, s, role) <=> \A m \in DOMAIN f.must : m \in s.sat
    BY <1>1 DEF RestReads, MustFits
  <1>3. [i \in s.at .. Len(args) |-> "end"] \in [s.at .. Len(args) -> Roles]
    BY <1>1
  <1>4. QED
    BY <1>1, <1>2, <1>3 DEF RestReadable

\* One argument, or an option and its value, and what remains behind.
LEMMA RolesBehind ==
  ASSUME NEW S, NEW args \in Seq(S), NEW f, NEW operands,
         NEW s, s.at \in 1 .. Len(args), NEW n \in {1, 2}, s.at + n <= Len(args) + 1,
         NEW next, next.at = s.at + n,
         NEW role \in [s.at .. Len(args) -> Roles], NEW rest,
         \A i \in next.at .. Len(args) : rest[i] = role[i],
         role[s.at] # "value",
         n = 2 => role[s.at + 1] = "value" /\ role[s.at] = "option",
         role[s.at] = "option" => (WantsNext(f, args[s.at]) <=> n = 2),
         next.ended <=> s.ended \/ role[s.at] = "end"
  PROVE  (\A i \in s.at .. Len(args) : RoleFits(args, f, operands, s, role, i)) <=>
           /\ RoleFits(args, f, operands, s, role, s.at)
           /\ \A i \in next.at .. Len(args) : RoleFits(args, f, operands, next, rest, i)
  <1> DEFINE N == Len(args)
             p == s.at
  <1>1. N \in Nat /\ p \in Nat /\ p \in s.at .. N /\ p <= N
    OBVIOUS
  <1>2. n = 2 => RoleFits(args, f, operands, s, role, p + 1)
    <2>1. SUFFICES ASSUME n = 2 PROVE RoleFits(args, f, operands, s, role, p + 1)
      OBVIOUS
    <2>2. (p + 1) - 1 = p /\ p + 1 > p
      BY <1>1
    <2>3. QED
      BY <2>1, <2>2 DEF RoleFits
  <1>3. ASSUME NEW i \in next.at .. N
        PROVE  RoleFits(args, f, operands, s, role, i) <=> RoleFits(args, f, operands, next, rest, i)
    <2>1. i \in Nat /\ i > p /\ rest[i] = role[i] /\ i \in s.at .. N
      BY <1>1
    <2>2. EndedBefore(s, role, i) <=> EndedBefore(next, rest, i)
      <3>1. ASSUME NEW e \in s.at .. i - 1, role[e] = "end" PROVE EndedBefore(next, rest, i)
        <4>1. CASE e = p
          BY <3>1, <4>1 DEF EndedBefore
        <4>2. CASE e # p
          <5>1. e \in next.at .. i - 1
            BY <1>1, <2>1, <3>1, <4>2
          <5>2. e \in next.at .. N
            BY <1>1, <5>1
          <5>3. QED
            BY <3>1, <5>1, <5>2 DEF EndedBefore
        <4>3. QED
          BY <4>1, <4>2
      <3>2. ASSUME NEW e \in next.at .. i - 1, rest[e] = "end" PROVE EndedBefore(s, role, i)
        <4>1. e \in s.at .. i - 1 /\ e \in next.at .. N
          BY <1>1, <2>1
        <4>2. QED
          BY <3>2, <4>1 DEF EndedBefore
      <3>3. role[s.at] = "end" => EndedBefore(s, role, i)
        <4>1. s.at \in s.at .. i - 1
          BY <1>1, <2>1
        <4>2. QED
          BY <4>1 DEF EndedBefore
      <3>4. QED
        BY <3>1, <3>2, <3>3 DEF EndedBefore
    <2>3. i < N => rest[i + 1] = role[i + 1]
      <3>1. i < N => i + 1 \in next.at .. N
        BY <1>1, <2>1
      <3>2. QED
        BY <3>1
    <2>4. (i > s.at /\ role[i - 1] = "option" /\ WantsNext(f, args[i - 1]))
            <=> (i > next.at /\ rest[i - 1] = "option" /\ WantsNext(f, args[i - 1]))
      <3>1. CASE i = next.at
        <4>1. CASE n = 1
          <5>1. i - 1 = p
            BY <1>1, <3>1, <4>1
          <5>2. QED
            BY <1>1, <3>1, <4>1, <5>1
        <4>2. CASE n = 2
          <5>1. i - 1 = p + 1
            BY <1>1, <3>1, <4>2
          <5>2. QED
            BY <1>1, <3>1, <4>2, <5>1
        <4>3. QED
          BY <4>1, <4>2
      <3>2. CASE i # next.at
        <4>1. i > next.at /\ i > s.at /\ i - 1 \in next.at .. N
          BY <1>1, <2>1, <3>2
        <4>2. QED
          BY <4>1
      <3>3. QED
        BY <3>1, <3>2
    <2>5. QED
      BY <2>1, <2>2, <2>3, <2>4 DEF RoleFits
  <1>4. \A i \in s.at .. N : i = p \/ (n = 2 /\ i = p + 1) \/ i \in next.at .. N
    BY <1>1
  <1>5. next.at .. N \subseteq s.at .. N
    BY <1>1
  <1>6. QED
    BY <1>1, <1>2, <1>3, <1>4, <1>5

\* An option fulfils its musts, and no operand goes before it.
LEMMA MustsBehindOption ==
  ASSUME NEW S, NEW args \in Seq(S), NEW f,
         NEW s, s.at \in 1 .. Len(args), NEW n \in {1, 2}, s.at + n <= Len(args) + 1,
         NEW next, next.at = s.at + n,
         next.sat = s.sat \cup Fulfilled(f, RowOf(f, args[s.at])), RowOf(f, args[s.at]) # 0,
         NEW role \in [s.at .. Len(args) -> Roles], NEW rest,
         \A i \in next.at .. Len(args) : rest[i] = role[i],
         role[s.at] = "option", n = 2 => role[s.at + 1] = "value",
         NEW m \in DOMAIN f.must
  PROVE  MustFits(args, f, s, role, m) <=> MustFits(args, f, next, rest, m)
  <1> DEFINE N == Len(args)
             p == s.at
             Meets(i) == Satisfies(f.must[m], Rows(f)[RowOf(f, args[i])])
  <1>1. N \in Nat /\ p \in Nat /\ p \in s.at .. N /\ p <= N /\ next.at .. N \subseteq s.at .. N
    OBVIOUS
  <1>2. m \in next.sat <=> m \in s.sat \/ Meets(p)
    BY DEF Fulfilled
  <1>3. \A j \in s.at .. N : role[j] \in {"operand", "end"} => j \in next.at .. N
    <2>1. TAKE j \in s.at .. N
    <2>2. j = p \/ (n = 2 /\ j = p + 1) \/ j \in next.at .. N
      BY <1>1
    <2>3. QED
      BY <2>2
  <1>4. Meets(p) => MustFits(args, f, s, role, m)
    <2>1. \A j \in s.at .. N : role[j] \in {"operand", "end"} => p < j
      BY <1>1, <1>3
    <2>2. QED
      BY <1>1, <2>1 DEF MustFits
  <1>5. ASSUME NEW i \in next.at .. N
        PROVE  (\A j \in s.at .. N : role[j] \in {"operand", "end"} => i < j)
                 <=> \A j \in next.at .. N : rest[j] \in {"operand", "end"} => i < j
    BY <1>1, <1>3
  <1>6. \A i \in s.at .. N : role[i] = "option" => i = p \/ i \in next.at .. N
    <2>1. TAKE i \in s.at .. N
    <2>2. i = p \/ (n = 2 /\ i = p + 1) \/ i \in next.at .. N
      BY <1>1
    <2>3. QED
      BY <2>2
  <1> HIDE DEF Meets
  <1>7. MustFits(args, f, s, role, m) => MustFits(args, f, next, rest, m)
    BY <1>2, <1>5, <1>6 DEF MustFits, Meets
  <1>8. MustFits(args, f, next, rest, m) => MustFits(args, f, s, role, m)
    BY <1>1, <1>2, <1>4, <1>5 DEF MustFits
  <1>9. QED
    BY <1>7, <1>8

\* Before an operand or -- no must may be missing.
LEMMA MustsBeforeOperand ==
  ASSUME NEW args, NEW f, NEW s \in Places(args, f), NEW role,
         s.at \in s.at .. Len(args), \A i \in s.at .. Len(args) : ~(i < s.at),
         role[s.at] \in {"operand", "end"}
  PROVE  (\A m \in DOMAIN f.must : MustFits(args, f, s, role, m)) <=> s.sat = DOMAIN f.must
  <1>1. s.sat \subseteq DOMAIN f.must
    BY DEF Places
  <1>2. \A m \in DOMAIN f.must : MustFits(args, f, s, role, m) <=> m \in s.sat
    BY DEF MustFits
  <1>3. QED
    BY <1>1, <1>2

\* The roles of some of the arguments.
RolesOf(p, N) == [p .. N -> Roles]

\* The roles behind an argument leave that argument free.
LEMMA RolesFrom ==
  ASSUME NEW N \in Nat, NEW p \in 1 .. N, NEW q \in p + 1 .. p + 2, q <= N + 1,
         NEW rest \in RolesOf(q, N), NEW r \in Roles
  PROVE  \E role \in RolesOf(p, N) :
           /\ role[p] = r /\ (q = p + 2 => role[p + 1] = "value")
           /\ \A i \in q .. N : rest[i] = role[i]
  <1> DEFINE role == [i \in p .. N |-> IF i = p THEN r ELSE IF i < q THEN "value" ELSE rest[i]]
  <1>1. \A i \in p .. N : i = p \/ i < q \/ i \in q .. N
    OBVIOUS
  <1>2. \A i \in p .. N : role[i] \in Roles
    BY <1>1 DEF Roles, RolesOf
  <1>3. role \in RolesOf(p, N)
    BY <1>2 DEF RolesOf
  <1>4. p \in p .. N /\ (q = p + 2 => p + 1 \in p .. N /\ p + 1 # p /\ p + 1 < q)
    OBVIOUS
  <1>5. \A i \in q .. N : i \in p .. N /\ i # p /\ ~(i < q)
    OBVIOUS
  <1>6. role[p] = r /\ (q = p + 2 => role[p + 1] = "value") /\ \A i \in q .. N : rest[i] = role[i]
    BY <1>4, <1>5
  <1>7. QED
    BY <1>3, <1>6

\* A flag can only be read as the option its row allows.
LEMMA ReadFlag ==
  ASSUME NEW S, NEW args \in Seq(S), NEW f, ~f.any, NEW operands,
         NEW s \in Places(args, f), s.at \in DOMAIN args, ~s.ended,
         args[s.at].k \in {"long", "short"}
  PROVE  LET next == PastFlag(args, f, s)
         IN  /\ next \in Places(args, f) /\ (next.at = 0 \/ next.at > s.at)
             /\ RestReadable(args, f, operands, s) <=>
                  next.at # 0 /\ RestReadable(args, f, operands, next)
  <1> DEFINE N == Len(args)
             p == s.at
             a == args[s.at]
             r == RowOf(f, a)
             n == Consume(args, p, f).n
             next == PastFlag(args, f, s)
  <1>1. N \in Nat /\ p \in 1 .. N /\ p \in Nat /\ p <= N /\ DOMAIN args = 1 .. N /\ s.sat \subseteq DOMAIN f.must
    BY DEF Places
  <1>2. n = (IF r = 0 THEN 0 ELSE ConsumeRow(Rows(f)[r], args, p)) /\ Consume(args, p, f).row = r
    BY DEF Consume, IsOpenAny
  <1>3. /\ n = 0 <=> ~(OptionFits(f, a) /\ (WantsNext(f, a) => p < N))
        /\ n \in {0, 1, 2} /\ (n = 2 => p < N) /\ (n # 0 => r # 0 /\ (n = 2 <=> WantsNext(f, a)))
    BY <1>1, <1>2 DEF ConsumeRow, OptionFits, WantsNext
  <1>4. CASE n = 0
    <2>1. next = Refused
      BY <1>4 DEF PastFlag
    <2>2. next \in Places(args, f) /\ next.at = 0
      BY <1>1, <2>1 DEF Refused, Place, Places
    <2>3. ASSUME NEW role \in [s.at .. N -> Roles], RestReads(args, f, operands, s, role) PROVE FALSE
      <3>1. RoleFits(args, f, operands, s, role, p)
        BY <1>1, <2>3 DEF RestReads
      <3>2. ~EndedBefore(s, role, p)
        BY <1>1 DEF EndedBefore
      <3>3. role[p] # "option"
        BY <1>1, <1>3, <1>4, <3>1 DEF RoleFits
      <3>4. QED
        BY <1>1, <3>1, <3>2, <3>3 DEF RoleFits, IsFlag
    <2>4. QED
      BY <2>2, <2>3 DEF RestReadable
  <1>5. CASE n # 0
    <2>1. next = [s EXCEPT !.at = p + n, !.sat = s.sat \cup Fulfilled(f, r)]
      BY <1>2, <1>5 DEF PastFlag
    <2>2. /\ s = [at |-> s.at, sat |-> s.sat, ended |-> s.ended] /\ s.ended \in BOOLEAN
          /\ Fulfilled(f, r) \subseteq DOMAIN f.must
      BY DEF Places, Fulfilled
    <2> HIDE DEF n, r
    <2>3. /\ next.at = p + n /\ next.sat = s.sat \cup Fulfilled(f, r) /\ next.ended = s.ended
          /\ next \in Places(args, f)
      <3>1. next = [at |-> p + n, sat |-> s.sat \cup Fulfilled(f, r), ended |-> s.ended]
        BY <2>1, <2>2
      <3>2. p + n \in 0 .. N + 1 /\ s.sat \cup Fulfilled(f, r) \subseteq DOMAIN f.must
        BY <1>1, <1>3, <2>2
      <3> HIDE DEF next
      <3>3. QED
        BY <2>2, <3>1, <3>2 DEF Places
    <2>4. n \in {1, 2} /\ p + n <= N + 1 /\ next.at > p
      BY <1>1, <1>3, <1>5, <2>3
    <2> HIDE DEF next
    <2>5. ASSUME NEW role \in [s.at .. N -> Roles], NEW rest, \A i \in next.at .. N : rest[i] = role[i],
                 role[p] = "option", n = 2 => role[p + 1] = "value"
          PROVE  RestReads(args, f, operands, s, role) <=> RestReads(args, f, operands, next, rest)
      <3>1. (\A i \in s.at .. N : RoleFits(args, f, operands, s, role, i)) <=>
              /\ RoleFits(args, f, operands, s, role, p)
              /\ \A i \in next.at .. N : RoleFits(args, f, operands, next, rest, i)
        BY <1>1, <1>3, <1>5, <2>3, <2>4, <2>5, RolesBehind
      <3>2. RoleFits(args, f, operands, s, role, p)
        <4>1. ~EndedBefore(s, role, p)
          BY <1>1 DEF EndedBefore
        <4>2. QED
          BY <1>1, <1>3, <1>5, <2>5, <4>1 DEF RoleFits
      <3>3. \A m \in DOMAIN f.must : MustFits(args, f, s, role, m) <=> MustFits(args, f, next, rest, m)
        BY <1>1, <1>3, <1>5, <2>3, <2>4, <2>5, MustsBehindOption DEF r
      <3>4. QED
        BY <3>1, <3>2, <3>3 DEF RestReads
    <2>6. ASSUME NEW role \in [s.at .. N -> Roles], RestReads(args, f, operands, s, role)
          PROVE  RestReadable(args, f, operands, next)
      <3>1. RoleFits(args, f, operands, s, role, p)
        BY <1>1, <2>6 DEF RestReads
      <3>2. ~EndedBefore(s, role, p)
        BY <1>1 DEF EndedBefore
      <3>3. role[p] = "option" /\ (WantsNext(f, a) => role[p + 1] = "value")
        BY <1>1, <3>1, <3>2 DEF RoleFits, IsFlag
      <3> DEFINE rest == [i \in next.at .. N |-> role[i]]
      <3>4. rest \in [next.at .. N -> Roles] /\ \A i \in next.at .. N : rest[i] = role[i]
        <4>1. next.at .. N \subseteq s.at .. N
          BY <1>1, <2>3, <2>4
        <4>2. QED
          BY <4>1
      <3> HIDE DEF rest
      <3>5. RestReads(args, f, operands, next, rest)
        BY <1>3, <1>5, <2>5, <2>6, <3>3, <3>4
      <3>6. QED
        BY <3>4, <3>5 DEF RestReadable
    <2>7. ASSUME NEW rest \in [next.at .. N -> Roles], RestReads(args, f, operands, next, rest)
          PROVE  RestReadable(args, f, operands, s)
      <3>1. "option" \in Roles
        BY DEF Roles
      <3>2. PICK role \in [p .. N -> Roles] :
              /\ role[p] = "option" /\ (n = 2 => role[p + 1] = "value")
              /\ \A i \in next.at .. N : rest[i] = role[i]
        <4>1. next.at \in p + 1 .. p + 2 /\ next.at <= N + 1 /\ (n = 2 => next.at = p + 2)
          BY <1>1, <2>3, <2>4
        <4>2. rest \in RolesOf(next.at, N)
          BY <2>7 DEF RolesOf
        <4>3. \E role \in RolesOf(p, N) :
                /\ role[p] = "option" /\ (next.at = p + 2 => role[p + 1] = "value")
                /\ \A i \in next.at .. N : rest[i] = role[i]
          <5> HIDE DEF N, p
          <5>1. QED
            BY <1>1, <3>1, <4>1, <4>2, RolesFrom
        <4>4. QED
          BY <4>1, <4>3 DEF RolesOf
      <3>3. RestReads(args, f, operands, s, role)
        BY <2>3, <2>5, <2>7, <3>2
      <3>4. QED
        BY <3>3 DEF RestReadable
    <2>8. RestReadable(args, f, operands, s) <=> RestReadable(args, f, operands, next)
      BY <2>6, <2>7 DEF RestReadable
    <2>9. next.at # 0
      BY <1>1, <2>4
    <2>10. QED
      BY <2>3, <2>4, <2>8, <2>9 DEF next
  <1>6. QED
    BY <1>4, <1>5

\* Anything else can only be read as the end of the options or as an operand.
LEMMA ReadOperand ==
  ASSUME NEW S, NEW args \in Seq(S), NEW f, NEW operands,
         NEW s \in Places(args, f), s.at \in DOMAIN args,
         NEW r \in {"operand", "end"},
         r = "end" <=> args[s.at].k = "end" /\ ~s.ended,
         r = "operand" => ~IsFlag(args[s.at]) \/ s.ended,
         NEW next, next = [at |-> s.at + 1, sat |-> s.sat, ended |-> s.ended \/ r = "end"]
  PROVE  RestReadable(args, f, operands, s) <=>
           /\ operands /\ s.sat = DOMAIN f.must
           /\ r = "operand" /\ args[s.at].k = "subst" => s.ended
           /\ RestReadable(args, f, operands, next)
  <1> DEFINE N == Len(args)
             p == s.at
             a == args[s.at]
             Fit == operands /\ (r = "operand" /\ a.k = "subst" => s.ended)
  <1>1. N \in Nat /\ p \in 1 .. N /\ p \in Nat /\ p <= N /\ DOMAIN args = 1 .. N /\ s.ended \in BOOLEAN
    BY DEF Places
  <1>2. next.at = p + 1 /\ next.sat = s.sat /\ (next.ended <=> s.ended \/ r = "end")
    OBVIOUS
  <1>3. ASSUME NEW role \in [s.at .. N -> Roles], RoleFits(args, f, operands, s, role, p)
        PROVE  role[p] = r
    <2>1. EndedBefore(s, role, p) <=> s.ended
      BY <1>1 DEF EndedBefore
    <2>2. QED
      BY <1>1, <1>3, <2>1 DEF RoleFits, OptionFits, IsFlag
  <1>4. ASSUME NEW role \in [s.at .. N -> Roles], role[p] = r
        PROVE  RoleFits(args, f, operands, s, role, p) <=> Fit
    <2>1. EndedBefore(s, role, p) <=> s.ended
      BY <1>1 DEF EndedBefore
    <2>2. QED
      BY <1>1, <1>4, <2>1 DEF RoleFits
  <1>5. ASSUME NEW role \in [s.at .. N -> Roles], NEW rest, \A i \in next.at .. N : rest[i] = role[i],
               role[p] = r
        PROVE  RestReads(args, f, operands, s, role) <=>
                 Fit /\ s.sat = DOMAIN f.must /\ RestReads(args, f, operands, next, rest)
    <2>1. (\A i \in s.at .. N : RoleFits(args, f, operands, s, role, i)) <=>
            /\ RoleFits(args, f, operands, s, role, p)
            /\ \A i \in next.at .. N : RoleFits(args, f, operands, next, rest, i)
      <3>1. PICK n \in {1, 2} : n = 1 /\ next.at = p + n /\ p + n <= N + 1
        BY <1>1, <1>2
      <3>2. r # "value" /\ r # "option"
        OBVIOUS
      <3>3. s.at \in 1 .. Len(args) /\ role[s.at] # "value" /\ role[s.at] # "option"
        BY <1>1, <1>5, <3>2
      <3>4. s.at + n <= Len(args) + 1 /\ next.at = s.at + n
        BY <3>1
      <3> HIDE DEF N, p
      <3>5. QED
        BY <1>2, <1>5, <3>1, <3>3, <3>4, RolesBehind DEF N, p
    <2>2. /\ (\A m \in DOMAIN f.must : MustFits(args, f, s, role, m)) <=> s.sat = DOMAIN f.must
          /\ s.sat = DOMAIN f.must => \A m \in DOMAIN f.must : MustFits(args, f, next, rest, m)
      <3>1. /\ s.at \in s.at .. Len(args) /\ role[s.at] \in {"operand", "end"}
            /\ \A i \in s.at .. Len(args) : ~(i < s.at)
        BY <1>1, <1>5
      <3>2. (\A m \in DOMAIN f.must : MustFits(args, f, s, role, m)) <=> s.sat = DOMAIN f.must
        BY <3>1, MustsBeforeOperand
      <3>3. s.sat = DOMAIN f.must => \A m \in DOMAIN f.must : MustFits(args, f, next, rest, m)
        BY <1>2 DEF MustFits
      <3>4. QED
        BY <3>2, <3>3
    <2>3. RoleFits(args, f, operands, s, role, p) <=> Fit
      BY <1>4, <1>5
    <2> HIDE DEF Fit
    <2>4. QED
      BY <2>1, <2>2, <2>3 DEF RestReads
  <1>6. ASSUME NEW role \in [s.at .. N -> Roles], RestReads(args, f, operands, s, role)
        PROVE  Fit /\ s.sat = DOMAIN f.must /\ RestReadable(args, f, operands, next)
    <2>1. role[p] = r
      <3>1. RoleFits(args, f, operands, s, role, p)
        BY <1>1, <1>6 DEF RestReads
      <3>2. QED
        BY <1>3, <3>1
    <2> DEFINE rest == [i \in next.at .. N |-> role[i]]
    <2>2. rest \in [next.at .. N -> Roles] /\ \A i \in next.at .. N : rest[i] = role[i]
      <3>1. next.at .. N \subseteq s.at .. N
        BY <1>1, <1>2
      <3>2. QED
        BY <3>1
    <2> HIDE DEF rest, Fit
    <2>3. Fit /\ s.sat = DOMAIN f.must /\ RestReads(args, f, operands, next, rest)
      BY <1>5, <1>6, <2>1, <2>2
    <2>4. QED
      BY <2>2, <2>3 DEF RestReadable
  <1>7. ASSUME Fit, s.sat = DOMAIN f.must, NEW rest \in [next.at .. N -> Roles],
               RestReads(args, f, operands, next, rest)
        PROVE  RestReadable(args, f, operands, s)
    <2>1. r \in Roles
      BY DEF Roles
    <2>2. PICK role \in [p .. N -> Roles] : role[p] = r /\ \A i \in next.at .. N : rest[i] = role[i]
      <3>1. next.at \in p + 1 .. p + 2 /\ next.at <= N + 1
        BY <1>1, <1>2
      <3>2. rest \in RolesOf(next.at, N)
        BY <1>7 DEF RolesOf
      <3>3. \E role \in RolesOf(p, N) :
              /\ role[p] = r /\ (next.at = p + 2 => role[p + 1] = "value")
              /\ \A i \in next.at .. N : rest[i] = role[i]
        <4> HIDE DEF N, p
        <4>1. QED
          BY <1>1, <2>1, <3>1, <3>2, RolesFrom
      <3>4. QED
        BY <3>3 DEF RolesOf
    <2> HIDE DEF Fit
    <2>3. RestReads(args, f, operands, s, role)
      BY <1>2, <1>5, <1>7, <2>2
    <2>4. QED
      BY <2>3 DEF RestReadable
  <1>8. QED
    BY <1>6, <1>7 DEF RestReadable

\* One round of a loop: what remains can be read before it if and only if it can
\* be read after it, and it goes on or stops for good.
Kept(args, f, operands, s, next) ==
  /\ next \in Places(args, f)
  /\ s.at # 0 /\ RestReadable(args, f, operands, s)
       <=> next.at # 0 /\ RestReadable(args, f, operands, next)

\* A round of the loop over the leading flags; it does not pass --.
LEMMA LeadingKeeps ==
  ASSUME NEW S, NEW args \in Seq(S), NEW f, ~f.any, NEW operands,
         NEW s \in Places(args, f), ~s.ended
  PROVE  LET next == LeadingStep(args, f, s)
         IN  Kept(args, f, operands, s, next) /\ ~next.ended
  <1> DEFINE next == LeadingStep(args, f, s)
  <1>1. CASE next = s
    BY <1>1 DEF Kept
  <1>2. CASE next # s
    <2>1. s.at \in DOMAIN args /\ args[s.at].k \in {"long", "short"} /\ next = PastFlag(args, f, s)
      BY <1>2 DEF LeadingStep, IsFlag
    <2> HIDE DEF next
    <2>2. /\ next \in Places(args, f)
          /\ RestReadable(args, f, operands, s) <=> next.at # 0 /\ RestReadable(args, f, operands, next)
      BY <2>1, ReadFlag
    <2>3. s.at # 0
      BY <2>1
    <2>4. ~next.ended
      <3>1. CASE next = Refused
        BY <3>1 DEF Refused, Place
      <3>2. CASE next # Refused
        <4>1. PICK i, sat : next = [s EXCEPT !.at = i, !.sat = sat]
          BY <2>1, <3>2 DEF PastFlag
        <4>2. "ended" \in DOMAIN s
          BY DEF Places
        <4>3. next.ended = s.ended
          BY <4>1, <4>2
        <4>4. QED
          BY <4>3
      <3>3. QED
        BY <3>1, <3>2
    <2>5. QED
      BY <2>2, <2>3, <2>4 DEF Kept, next
  <1>3. QED
    BY <1>1, <1>2

\* A round of the loop over flags and operands goes on, stops, or stays at the end.
LEMMA InterleavedKeeps ==
  ASSUME NEW S, NEW args \in Seq(S), NEW f, ~f.any, NEW operands,
         NEW s \in Places(args, f)
  PROVE  LET next == InterleavedStep(args, f, operands, s)
         IN  /\ Kept(args, f, operands, s, next)
             /\ s.at \in DOMAIN args => next.at = 0 \/ next.at > s.at
             /\ s.at \notin DOMAIN args => next = s
  <1> DEFINE next == InterleavedStep(args, f, operands, s)
             a == args[s.at]
             met == s.sat = DOMAIN f.must
  <1>1. CASE s.at \notin DOMAIN args
    <2>1. next = s
      BY <1>1 DEF InterleavedStep
    <2> HIDE DEF next
    <2>2. QED
      BY <1>1, <2>1 DEF Kept, next
  <1>2. CASE s.at \in DOMAIN args
    <2>1. /\ s.at # 0 /\ s.at \in Nat /\ s.at <= Len(args) /\ Len(args) \in Nat
          /\ s.sat \in SUBSET DOMAIN f.must /\ s.ended \in BOOLEAN
          /\ s = [at |-> s.at, sat |-> s.sat, ended |-> s.ended]
      BY <1>2 DEF Places
    <2>2. CASE IsFlag(a) /\ ~s.ended /\ a.k # "end"
      <3>1. next = PastFlag(args, f, s)
        BY <1>2, <2>2 DEF InterleavedStep
      <3>2. a.k \in {"long", "short"}
        BY <2>2 DEF IsFlag
      <3> HIDE DEF next
      <3>3. /\ next \in Places(args, f) /\ (next.at = 0 \/ next.at > s.at)
            /\ RestReadable(args, f, operands, s) <=> next.at # 0 /\ RestReadable(args, f, operands, next)
        BY <1>2, <2>2, <3>1, <3>2, ReadFlag
      <3>4. QED
        BY <1>2, <2>1, <3>3 DEF Kept, next
    <2>3. CASE ~(IsFlag(a) /\ ~s.ended /\ a.k # "end")
      <3> DEFINE r == IF a.k = "end" /\ ~s.ended THEN "end" ELSE "operand"
                 after == [at |-> s.at + 1, sat |-> s.sat, ended |-> s.ended \/ r = "end"]
                 fit == operands /\ met /\ (r = "operand" /\ a.k = "subst" => s.ended)
      <3>1. r \in {"operand", "end"} /\ (r = "end" <=> a.k = "end" /\ ~s.ended)
            /\ (r = "operand" => ~IsFlag(a) \/ s.ended)
        BY <2>3
      <3>2. next = IF fit THEN after ELSE Refused
        <4>1. CASE a.k = "end" /\ ~s.ended
          <5>1. IsFlag(a)
            BY <4>1 DEF IsFlag
          <5>2. next = IF operands /\ met THEN [at |-> s.at + 1, sat |-> s.sat, ended |-> TRUE] ELSE Refused
            BY <1>2, <4>1, <5>1 DEF InterleavedStep
          <5>3. (s.ended \/ r = "end") = TRUE
            BY <4>1
          <5> HIDE DEF r
          <5>4. QED
            BY <4>1, <5>2, <5>3
        <4>2. CASE ~(a.k = "end" /\ ~s.ended)
          <5>1. next = IF met /\ operands /\ (a.k # "subst" \/ s.ended)
                       THEN [s EXCEPT !.at = s.at + 1] ELSE Refused
            BY <1>2, <2>3, <4>2 DEF InterleavedStep
          <5>2. [s EXCEPT !.at = s.at + 1] = after
            BY <2>1, <4>2
          <5>3. QED
            BY <4>2, <5>1, <5>2
        <4>3. QED
          BY <4>1, <4>2
      <3> HIDE DEF r
      <3>3. RestReadable(args, f, operands, s) <=> fit /\ RestReadable(args, f, operands, after)
        BY <1>2, <3>1, ReadOperand
      <3>4. after \in Places(args, f) /\ after.at = s.at + 1
        BY <2>1 DEF Places
      <3>5. Refused \in Places(args, f) /\ Refused.at = 0
        BY <2>1 DEF Refused, Place, Places
      <3> HIDE DEF after, fit, next
      <3>6. QED
        BY <1>2, <2>1, <3>2, <3>3, <3>4, <3>5 DEF Kept, next
    <2>4. QED
      BY <2>2, <2>3
  <1>3. QED
    BY <1>1, <1>2

-----------------------------------------------------------------------------
(* The loops.                                                              *)

\* Behind the leading flags, what remains can be read if and only if everything can.
LEMMA LeadingReads ==
  ASSUME NEW S, NEW args \in Seq(S), NEW f, ~f.any, NEW operands
  PROVE  LET lead == Leading(args, 1, f)
         IN  Kept(args, f, operands, Place(1), lead)
  <1> DEFINE N == Len(args)
             start == Place(1)
             Open == {s \in Places(args, f) : ~s.ended}
             step == [s \in Open |-> LeadingStep(args, f, s)]
             IsRun(g) == g = [k \in 0 .. N |-> IF k = 0 THEN start ELSE LeadingStep(args, f, g[k - 1])]
             after == CHOOSE g : IsRun(g)
  <1>1. N \in Nat /\ start \in Open /\ start.at = 1
    BY DEF Place, Places
  <1>2. ASSUME NEW s \in Open
        PROVE  LeadingStep(args, f, s) \in Open /\ Kept(args, f, operands, s, LeadingStep(args, f, s))
    BY <1>2, LeadingKeeps DEF Kept
  <1>3. step \in StepsOn(Open)
    BY <1>2 DEF StepsOn
  <1>4. PICK g : IsLoop(g, N, start, step) /\ \A k \in 0 .. N : g[k] \in Open
    <2> HIDE DEF Open, step, start, N
    <2>1. QED
      BY <1>1, <1>3, LoopRuns
  <1>5. IsRun(g)
    <2>1. \A k \in 0 .. N : k # 0 => k - 1 \in 0 .. N
      BY <1>1
    <2>2. \A k \in 0 .. N : k # 0 => step[g[k - 1]] = LeadingStep(args, f, g[k - 1])
      BY <1>4, <2>1
    <2> HIDE DEF step
    <2>3. QED
      BY <1>4, <2>2 DEF IsLoop
  <1>6. IsRun(after)
    BY <1>5
  <1>7. Leading(args, 1, f) = after[N]
    BY DEF Leading
  <1> HIDE DEF after
  <1>8. after[0] = start /\ \A k \in 1 .. N : after[k] = LeadingStep(args, f, after[k - 1])
    <2>1. 0 \in 0 .. N /\ \A k \in 1 .. N : k \in 0 .. N /\ k # 0
      BY <1>1
    <2>2. QED
      BY <1>6, <2>1
  <1> DEFINE good == {s \in Open : Kept(args, f, operands, start, s)}
             inv == [k \in 0 .. N |-> good]
  <1>9. start \in good
    BY <1>1 DEF Kept
  <1>10. \A s \in good : LeadingStep(args, f, s) \in good
    BY <1>2 DEF Kept
  <1>11. after[N] \in good
    <2>1. after[0] \in inv[0]
      BY <1>1, <1>8, <1>9
    <2>2. \A k \in 1 .. N : after[k - 1] \in inv[k - 1] => after[k] \in inv[k]
      <3>1. \A k \in 1 .. N : k - 1 \in 0 .. N /\ k \in 0 .. N
        BY <1>1
      <3> HIDE DEF good
      <3>2. QED
        BY <1>8, <1>10, <3>1
    <2>3. inv[N] = good
      BY <1>1
    <2> HIDE DEF inv
    <2>4. after[N] \in inv[N]
      BY <1>1, <2>1, <2>2, LoopInvariant
    <2>5. QED
      BY <2>3, <2>4
  <1>12. QED
    BY <1>7, <1>11

\* The loop over flags and operands accepts what can be read from where it begins.
LEMMA InterleavedReads ==
  ASSUME NEW S, NEW args \in Seq(S), NEW f, ~f.any, NEW operands,
         NEW lead \in Places(args, f), lead.at # 0
  PROVE  Interleaved(args, lead, f, operands) <=> RestReadable(args, f, operands, lead)
  <1> DEFINE N == Len(args)
             All == Places(args, f)
             Step(s) == InterleavedStep(args, f, operands, s)
             step == [s \in All |-> Step(s)]
             IsRun(g) == g = [k \in 0 .. N |-> IF k = 0 THEN lead ELSE Step(g[k - 1])]
             after == CHOOSE g : IsRun(g)
  <1>1. N \in Nat /\ DOMAIN args = 1 .. N
    OBVIOUS
  <1>2. ASSUME NEW s \in All
        PROVE  /\ Step(s) \in All /\ Kept(args, f, operands, s, Step(s))
               /\ s.at \in 1 .. N => Step(s).at = 0 \/ Step(s).at > s.at
               /\ s.at \notin 1 .. N => Step(s) = s
    BY <1>1, <1>2, InterleavedKeeps DEF Kept
  <1>3. step \in StepsOn(All)
    BY <1>2 DEF StepsOn
  <1>4. PICK g : IsLoop(g, N, lead, step) /\ \A k \in 0 .. N : g[k] \in All
    <2> HIDE DEF All, step, N
    <2>1. lead \in All
      BY DEF All
    <2>2. QED
      BY <1>1, <1>3, <2>1, LoopRuns
  <1>5. IsRun(g)
    <2>1. \A k \in 0 .. N : k # 0 => k - 1 \in 0 .. N
      BY <1>1
    <2>2. \A k \in 0 .. N : k # 0 => step[g[k - 1]] = Step(g[k - 1])
      BY <1>4, <2>1
    <2> HIDE DEF step
    <2>3. QED
      BY <1>4, <2>2 DEF IsLoop
  <1>6. IsRun(after)
    BY <1>5
  <1>7. Interleaved(args, lead, f, operands) <=> after[N].at # 0 /\ after[N].sat = DOMAIN f.must
    BY DEF Interleaved
  <1> HIDE DEF after
  <1>8. after[0] = lead /\ \A k \in 1 .. N : after[k] = Step(after[k - 1])
    <2>1. 0 \in 0 .. N /\ \A k \in 1 .. N : k \in 0 .. N /\ k # 0
      BY <1>1
    <2>2. QED
      BY <1>6, <2>1
  <1> DEFINE Good(s) == Kept(args, f, operands, lead, s)
             Far(s, k) == s.at = 0 \/ s.at > k \/ s.at = N + 1
             inv == [k \in 0 .. N |-> {s \in All : Good(s) /\ Far(s, k)}]
  <1> HIDE DEF Step
  <1>9. ASSUME NEW s \in All, NEW k \in 1 .. N, Good(s), Far(s, k - 1)
        PROVE  Step(s) \in All /\ Good(Step(s)) /\ Far(Step(s), k)
    <2>1. Step(s) \in All /\ Good(Step(s))
      BY <1>2, <1>9 DEF Kept
    <2>2. s.at \in 0 .. N + 1 /\ Step(s).at \in 0 .. N + 1
      BY <2>1 DEF Places
    <2>3. CASE s.at \in 1 .. N
      <3>1. Step(s).at = 0 \/ Step(s).at > s.at
        BY <1>2, <2>3
      <3>2. QED
        BY <1>1, <1>9, <2>1, <2>2, <2>3, <3>1
    <2>4. CASE s.at \notin 1 .. N
      <3>1. Step(s) = s
        BY <1>2, <2>4
      <3>2. QED
        BY <1>1, <2>1, <2>2, <2>4, <3>1
    <2>5. QED
      BY <2>3, <2>4
  <1>10. after[N] \in All /\ Good(after[N]) /\ Far(after[N], N)
    <2>1. after[0] \in inv[0]
      <3>1. Good(lead) /\ Far(lead, 0) /\ lead \in All
        BY DEF Kept, Places
      <3>2. QED
        BY <1>1, <1>8, <3>1
    <2>2. \A k \in 1 .. N : after[k - 1] \in inv[k - 1] => after[k] \in inv[k]
      <3>1. \A k \in 1 .. N : k - 1 \in 0 .. N /\ k \in 0 .. N
        BY <1>1
      <3> HIDE DEF Good, Far, All
      <3>2. QED
        BY <1>8, <1>9, <3>1
    <2> HIDE DEF inv
    <2>3. after[N] \in inv[N]
      BY <1>1, <2>1, <2>2, LoopInvariant
    <2>4. QED
      BY <1>1, <2>3 DEF inv
  <1>11. RestReadable(args, f, operands, lead)
           <=> after[N].at # 0 /\ RestReadable(args, f, operands, after[N])
    BY <1>10 DEF Kept
  <1>12. after[N].at = 0 \/ after[N].at = N + 1
    <2>1. after[N].at \in 0 .. N + 1
      BY <1>10 DEF Places
    <2>2. QED
      BY <1>1, <1>10, <2>1
  <1>13. after[N].at = N + 1 =>
           (RestReadable(args, f, operands, after[N]) <=> after[N].sat = DOMAIN f.must)
    BY <1>10, ReadAtEnd
  <1>14. QED
    BY <1>1, <1>7, <1>11, <1>12, <1>13

\* Without subcommands, the descent stays at the root.
LEMMA RootStays ==
  ASSUME NEW S, NEW args \in Seq(S), NEW pol, DOMAIN pol.root.subs = {}
  PROVE  MatchNode(args, 1, pol) <=> MatchRest(args, pol, Stage(pol.root, 1, TRUE))
  <1> DEFINE N == Len(args)
             first == Stage(pol.root, 1, TRUE)
             IsRun(g) == g = [k \in 0 .. N |-> IF k = 0 THEN first ELSE Descend(args, pol, g[k - 1])]
             below == CHOOSE g : IsRun(g)
  <1>1. N \in Nat /\ first.node = pol.root
    BY DEF Stage
  <1>2. Descend(args, pol, first) = first
    <2> HIDE DEF first
    <2>1. \A i : Named(args, first.node, i) = {}
      BY <1>1 DEF Named, AtWord
    <2>2. QED
      BY <2>1 DEF Descend, DescendBehind
  <1> HIDE DEF first
  <1>3. IsRun([k \in 0 .. N |-> first])
    <2>1. \A k \in 0 .. N : k # 0 => k - 1 \in 0 .. N
      BY <1>1
    <2>2. QED
      BY <1>2, <2>1
  <1>4. IsRun(below)
    BY <1>3
  <1>5. MatchNode(args, 1, pol) <=> MatchRest(args, pol, below[N])
    BY DEF MatchNode, first
  <1> HIDE DEF below
  <1> DEFINE inv == [k \in 0 .. N |-> {first}]
  <1>6. below[N] \in inv[N]
    <2>1. below[0] \in inv[0]
      BY <1>1, <1>4
    <2>2. \A k \in 1 .. N : below[k - 1] \in inv[k - 1] => below[k] \in inv[k]
      <3>1. \A k \in 1 .. N : k - 1 \in 0 .. N /\ k \in 0 .. N /\ k # 0
        BY <1>1
      <3>2. QED
        BY <1>2, <1>4, <3>1
    <2> HIDE DEF inv
    <2>3. QED
      BY <1>1, <2>1, <2>2, LoopInvariant
  <1>7. below[N] = first
    BY <1>1, <1>6
  <1>8. QED
    BY <1>5, <1>7 DEF first

\* Whatever the rule and however long the argument list, what the matcher of a
\* command without subcommands accepts is what the documented rule can read
\* (matchNodeArg, consumeLeadingFlagsWithMust and consumeInterleavedArg in
\* hil/structured_readonly.go).
THEOREM MatcherCorrect ==
  ASSUME NEW S, input.args \in Seq(S)
  PROVE  MatchesAsDocumented
  <1> DEFINE args == input.args
             pol == input.pol
             f == Merged(pol, pol.root.flags)
             operands == pol.root.operands
             first == Stage(pol.root, 1, TRUE)
             lead == Leading(args, 1, f)
  <1>1. SUFFICES ASSUME DOMAIN pol.root.subs = {}, ~f.any
                 PROVE  MatchNode(args, 1, pol) <=> Readable(args, f, operands)
    BY DEF MatchesAsDocumented, AcceptsAsRead
  <1>2. first.node = pol.root /\ first.at = 1
    BY DEF Stage
  <1>3. Lead(args, pol, first) = lead /\ Flags(pol, first) = f
    BY <1>2 DEF Lead, Flags
  <1>4. ~AtWord(args, first.node, lead.at) /\ Named(args, first.node, lead.at) = {}
    BY <1>1, <1>2 DEF AtWord, Named
  <1>5. MatchRest(args, pol, first) <=> lead.at # 0 /\ Interleaved(args, lead, f, operands)
    BY <1>2, <1>3, <1>4 DEF MatchRest, MatchBehind
  <1>6. MatchNode(args, 1, pol) <=> MatchRest(args, pol, first)
    BY <1>1, RootStays
  <1> HIDE DEF args, pol, f, operands, first, lead
  <1>7. args \in Seq(S)
    BY DEF args
  <1>8. Kept(args, f, operands, Place(1), lead)
    BY <1>1, <1>7, LeadingReads DEF lead
  <1>9. lead.at # 0 => (Interleaved(args, lead, f, operands) <=> RestReadable(args, f, operands, lead))
    BY <1>1, <1>7, <1>8, InterleavedReads DEF Kept
  <1>10. Readable(args, f, operands) <=> RestReadable(args, f, operands, Place(1))
    BY <1>7, ReadableIsRest
  <1>11. Place(1).at # 0
    BY DEF Place
  <1>12. QED
    BY <1>5, <1>6, <1>8, <1>9, <1>10, <1>11 DEF Kept
=============================================================================
