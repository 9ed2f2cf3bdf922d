---------------------------- MODULE Screen_proofs ----------------------------
(***************************************************************************)
(* Proofs about what the user sees and enters.  The dialogs of the skills: *)
(* whatever is typed, in whatever order the answers arrive and whatever    *)
(* dialog comes between, a list whose question is answered offers what the *)
(* form asks for, and the update that will run is the version that is      *)
(* highlighted.  The input line: whatever is typed, completed or sent, a   *)
(* line that is recalled is the one that was submitted, or its completion. *)
(* Induction and loops are those of the matcher's proofs.                  *)
(***************************************************************************)
EXTENDS CLIPolicy_proofs, Integers, SequenceTheorems

-----------------------------------------------------------------------------
(* The lists: filtering, entering, removing.                               *)

\* The smallest member of a set of numbers.
LEMMA MinIsLeast ==
  ASSUME NEW S \in SUBSET Nat, S # {}
  PROVE  dlg!Min(S) \in S /\ \A m \in S : dlg!Min(S) <= m
  BY LeastNatural DEF dlg!Min

\* The entries of a list that are let through are entries of it.
LEMMA EntriesAtKeeps ==
  ASSUME NEW S, NEW entries \in Seq(S), NEW chosen
  PROVE  EntriesAt(entries, chosen) \in Seq({entries[i] : i \in DOMAIN entries \cap chosen})
  <1> DEFINE T == {entries[i] : i \in DOMAIN entries \cap chosen}
             N == Len(entries)
             Next(taken, n) == IF n \in chosen THEN Append(taken, entries[n]) ELSE taken
             IsFilter(g, k) ==
               g = [n \in 0 .. k |-> IF n = 0 THEN <<>> ELSE
                      IF n \in chosen THEN Append(g[n - 1], entries[n]) ELSE g[n - 1]]
  <1>1. N \in Nat /\ DOMAIN entries = 1 .. N
    OBVIOUS
  <1>2. \A k \in Nat : k <= N => \E g : IsFilter(g, k)
    <2> DEFINE S2 == {k \in Nat : k <= N => \E g : IsFilter(g, k)}
    <2>1. 0 \in S2
      <3>1. IsFilter([n \in 0 .. 0 |-> <<>>], 0)
        OBVIOUS
      <3>2. QED
        BY <3>1
    <2>2. ASSUME NEW k \in Nat, k \in S2 PROVE k + 1 \in S2
      <3>1. SUFFICES ASSUME k + 1 <= N PROVE \E g : IsFilter(g, k + 1)
        <4> HIDE DEF IsFilter, N
        <4>1. QED
          OBVIOUS
      <3>2. PICK g : IsFilter(g, k)
        BY <1>1, <2>2, <3>1
      <3> DEFINE h == [n \in 0 .. (k + 1) |-> IF n = k + 1 THEN Next(g[k], k + 1) ELSE g[n]]
      <3>3. \A n \in 0 .. k : h[n] = g[n]
        OBVIOUS
      <3>4. h[k + 1] = Next(g[k], k + 1)
        OBVIOUS
      <3>5. \A n \in 0 .. (k + 1) : h[n] = IF n = 0 THEN <<>> ELSE
              IF n \in chosen THEN Append(h[n - 1], entries[n]) ELSE h[n - 1]
        <4>1. TAKE n \in 0 .. (k + 1)
        <4>2. CASE n = k + 1
          BY <3>3, <3>4, <4>2
        <4>3. CASE n # k + 1
          <5>1. n \in 0 .. k /\ (n # 0 => n - 1 \in 0 .. k)
            BY <4>3
          <5>2. h[n] = g[n] /\ (n # 0 => h[n - 1] = g[n - 1])
            BY <3>3, <5>1
          <5>3. g[n] = IF n = 0 THEN <<>> ELSE
                  IF n \in chosen THEN Append(g[n - 1], entries[n]) ELSE g[n - 1]
            BY <3>2, <5>1
          <5>4. QED
            BY <5>2, <5>3
        <4>4. QED
          BY <4>2, <4>3
      <3>6. h = [n \in 0 .. (k + 1) |-> h[n]]
        OBVIOUS
      <3> HIDE DEF h
      <3>7. IsFilter(h, k + 1)
        BY <3>5, <3>6
      <3>8. QED
        BY <3>7
    <2> HIDE DEF S2
    <2>3. Nat \subseteq S2
      BY <2>1, <2>2, Induction
    <2>4. QED
      BY <2>3 DEF S2
  <1> DEFINE g == CHOOSE g : IsFilter(g, N)
  <1>3. EntriesAt(entries, chosen) = g[N]
    BY DEF EntriesAt
  <1>4. g[0] = <<>> /\ \A n \in 1 .. N : g[n] = Next(g[n - 1], n)
    <2>1. IsFilter(g, N)
      <3> HIDE DEF IsFilter, N
      <3>1. \E h : IsFilter(h, N)
        BY <1>1, <1>2
      <3>2. QED
        BY <3>1
    <2> HIDE DEF g
    <2>2. g[0] = <<>>
      BY <1>1, <2>1
    <2>3. ASSUME NEW n \in 1 .. N PROVE g[n] = Next(g[n - 1], n)
      <3>1. n \in 0 .. N /\ n # 0
        OBVIOUS
      <3>2. QED
        BY <2>1, <3>1
    <2>4. QED
      BY <2>2, <2>3
  <1> HIDE DEF g
  <1>5. \A k \in Nat : k <= N => g[k] \in Seq(T)
    <2> DEFINE S2 == {k \in Nat : k <= N => g[k] \in Seq(T)}
    <2>1. 0 \in S2
      <3>1. <<>> \in Seq(T)
        OBVIOUS
      <3>2. QED
        BY <1>4, <3>1
    <2>2. ASSUME NEW k \in Nat, k \in S2 PROVE k + 1 \in S2
      <3>1. SUFFICES ASSUME k + 1 <= N PROVE g[k + 1] \in Seq(T)
        OBVIOUS
      <3>2. g[k] \in Seq(T) /\ k + 1 \in 0 .. N /\ k + 1 \in 1 .. N
        BY <1>1, <2>2, <3>1
      <3>3. g[k + 1] = Next(g[k], k + 1)
        <4>1. k + 1 - 1 = k
          OBVIOUS
        <4>2. QED
          BY <1>4, <3>2, <4>1
      <3>4. k + 1 \in DOMAIN entries
        BY <1>1, <3>2
      <3>5. CASE k + 1 \in chosen
        <4>1. entries[k + 1] \in T
          BY <3>4, <3>5
        <4> HIDE DEF T
        <4>2. QED
          BY <3>2, <3>3, <3>5, <4>1
      <3>6. CASE k + 1 \notin chosen
        BY <3>2, <3>3, <3>6
      <3>7. QED
        BY <3>5, <3>6
    <2> HIDE DEF S2
    <2>3. Nat \subseteq S2
      BY <2>1, <2>2, Induction
    <2>4. QED
      BY <2>3 DEF S2
  <1>6. QED
    BY <1>1, <1>3, <1>5

\* What is kept of a list is a list of those of its entries that have the prefix.
LEMMA FilterByPrefixKeeps ==
  ASSUME NEW S, NEW entries \in Seq(S), NEW text
  PROVE  dlg!FilterByPrefix(entries, text)
           \in Seq({v \in S : v \in dlg!Range(entries) /\ dlg!IsPrefix(text, v)})
  <1> DEFINE T == {v \in S : v \in dlg!Range(entries) /\ dlg!IsPrefix(text, v)}
             chosen == {i \in DOMAIN entries : dlg!IsPrefix(text, entries[i])}
             found == {entries[i] : i \in DOMAIN entries \cap chosen}
  <1>1. dlg!FilterByPrefix(entries, text) = EntriesAt(entries, chosen)
    BY DEF dlg!FilterByPrefix, dlg!EntriesAt, EntriesAt
  <1>2. found \subseteq T
    <2>1. \A i \in DOMAIN entries : entries[i] \in S /\ entries[i] \in dlg!Range(entries)
      BY DEF dlg!Range
    <2>2. QED
      BY <2>1
  <1>3. EntriesAt(entries, chosen) \in Seq(found)
    BY EntriesAtKeeps
  <1>4. EntriesAt(entries, chosen) \in Seq(T)
    <2> HIDE DEF found, T
    <2>1. QED
      BY <1>2, <1>3
  <1>5. QED
    BY <1>1, <1>4

-----------------------------------------------------------------------------
(* SkillDialog: what is shown is of what the form says.                    *)

USE DEF dlg!vars, dlg!Fields, dlg!Listed, dlg!Empty

\* What the dialogs are made of: lists, questions on their way, the variables.
Lists == [all : Seq(Texts), shown : Seq(Texts), at : Nat]
Questions == [field : dlg!Listed, url : Texts, ref : Texts]

DialogTypes ==
  /\ add \in [active : BOOLEAN, text : [dlg!Fields -> Texts], field : dlg!Fields,
              pick : [dlg!Listed -> Lists]]
  /\ update \in [active : BOOLEAN, refs : Seq(Texts), at : Nat, latest : Texts, url : Texts,
                 missed : BOOLEAN]
  /\ asks \in Seq(Questions) /\ calm \in [dlg!Listed -> BOOLEAN]

\* A list shows those of its entries that begin with what was typed, and the
\* highlight is on one.
Fits(list, text) ==
  /\ \A i \in DOMAIN list.shown :
       list.shown[i] \in dlg!Range(list.all) /\ dlg!IsPrefix(text, list.shown[i])
  /\ list.at = 0 \/ list.at < Len(list.shown)

\* Each list of the form fits what is typed in its field.
ShownInv == \A f \in dlg!Listed : Fits(add.pick[f], add.text[f])

\* Where the cursor is, the list is the answer to the question the form asks, or
\* that question is the only one on its way.
Found(f) == IF f = 1 THEN dlg!RefsOf(add.text[0]) ELSE dlg!PathsOf(add.text[0], add.text[1])
Answered(f) ==
  \/ dlg!InFlight(f) = {} /\ dlg!Range(add.pick[f].all) \subseteq dlg!Range(Found(f))
  \/ \E i \in DOMAIN asks : dlg!InFlight(f) = {i} /\ asks[i] = dlg!Question(f)

AnsweredInv ==
  \A f \in dlg!Listed :
    dlg!Adding /\ add.field = f /\ calm[f] /\ add.text[0] # <<>> => Answered(f)

\* The commit the update shows is of the version that is highlighted.
CommitInv == update.active /\ ~update.missed => update.latest = update.refs[update.at + 1]

\* The inductive invariant.
DialogInv == DialogTypes /\ ShownInv /\ AnsweredInv /\ CommitInv

\* What a sequence is made of.
LEMMA EntriesIn ==
  ASSUME NEW S, NEW s \in Seq(S)
  PROVE  Len(s) \in Nat /\ DOMAIN s = 1 .. Len(s) /\ \A i \in DOMAIN s : s[i] \in S
  OBVIOUS

\* What a repository answers: its versions, the paths of a version.
LEMMA FoundTypes ==
  ASSUME NEW url, NEW ref
  PROVE  dlg!RefsOf(url) \in Seq(Texts) /\ dlg!PathsOf(url, ref) \in Seq(Texts)
  <1>1. CASE url \notin DOMAIN Hosted
    BY <1>1 DEF dlg!RefsOf, dlg!PathsOf
  <1>2. CASE url \in DOMAIN Hosted
    <2>1. Hosted[url] \in Seq([ref : Texts, paths : Seq(Texts)])
      BY <1>2, DialogAssumption
    <2> DEFINE refs == [i \in DOMAIN Hosted[url] |-> Hosted[url][i].ref]
               under == {i \in DOMAIN Hosted[url] : ref \in {Hosted[url][i].ref, <<>>}}
    <2>0. \A i \in DOMAIN Hosted[url] : Hosted[url][i] \in [ref : Texts, paths : Seq(Texts)]
      BY <2>1, EntriesIn
    <2>2. refs \in Seq(Texts)
      <3>1. DOMAIN Hosted[url] = 1 .. Len(Hosted[url]) /\ Len(Hosted[url]) \in Nat
        BY <2>1
      <3>2. \A i \in DOMAIN Hosted[url] : Hosted[url][i].ref \in Texts
        BY <2>0
      <3>3. refs \in [1 .. Len(Hosted[url]) -> Texts]
        BY <3>1, <3>2
      <3>4. QED
        BY <3>1, <3>3
    <2>3. CASE under = {}
      BY <1>2, <2>2, <2>3 DEF dlg!RefsOf, dlg!PathsOf
    <2>4. CASE under # {}
      <3>1. under \in SUBSET Nat
        BY <2>1
      <3>2. dlg!Min(under) \in under
        <4> HIDE DEF under
        <4>1. QED
          BY <2>4, <3>1, MinIsLeast
      <3>3. Hosted[url][dlg!Min(under)].paths \in Seq(Texts)
        <4>1. dlg!Min(under) \in DOMAIN Hosted[url]
          BY <3>2
        <4> HIDE DEF under
        <4>2. QED
          BY <2>0, <4>1
      <3>4. QED
        BY <1>2, <2>2, <2>4, <3>3 DEF dlg!RefsOf, dlg!PathsOf
    <2>5. QED
      BY <2>3, <2>4
  <1>3. QED
    BY <1>1, <1>2

\* A list that was filtered anew shows entries that have the prefix, and the highlight
\* is on one of them (updateAddSkillPathCandidates).
LEMMA RefilterFits ==
  ASSUME NEW list \in Lists, NEW text
  PROVE  /\ dlg!Refilter(list, text) \in Lists /\ dlg!Refilter(list, text).all = list.all
         /\ Fits(dlg!Refilter(list, text), text)
  <1> DEFINE chosen == dlg!FilterByPrefix(list.all, text)
             T == {v \in Texts : v \in dlg!Range(list.all) /\ dlg!IsPrefix(text, v)}
  <1>1. list.all \in Seq(Texts)
    BY DEF Lists
  <1>2. chosen \in Seq(T)
    BY <1>1, FilterByPrefixKeeps
  <1>3. chosen \in Seq(Texts) /\ \A i \in DOMAIN chosen : chosen[i] \in T
    BY <1>2
  <1> HIDE DEF chosen
  <1>4. /\ dlg!Refilter(list, text) = [list EXCEPT !.shown = chosen, !.at = 0]
    BY DEF dlg!Refilter, chosen
  <1> DEFINE next == [list EXCEPT !.shown = chosen, !.at = 0]
  <1>5. next \in Lists /\ next.all = list.all /\ next.shown = chosen /\ next.at = 0
    BY <1>3 DEF Lists
  <1> HIDE DEF next
  <1>6. Fits(next, text)
    BY <1>3, <1>5 DEF Fits
  <1>7. QED
    BY <1>4, <1>5, <1>6 DEF next

\* A question joins those in flight, an answer leaves them.
LEMMA AskedInFlight ==
  ASSUME DialogTypes, NEW q \in Questions, asks' = Append(asks, q)
  PROVE  /\ asks' \in Seq(Questions)
         /\ \A f \in dlg!Listed : dlg!InFlight(f) = {} /\ q.field = f =>
              dlg!InFlight(f)' = {Len(asks')} /\ Len(asks') \in DOMAIN asks' /\ asks'[Len(asks')] = q
  <1>1. asks \in Seq(Questions) /\ Len(asks) \in Nat
    BY DEF DialogTypes
  <1>2. /\ asks' \in Seq(Questions) /\ Len(asks') = Len(asks) + 1 /\ DOMAIN asks' = 1 .. Len(asks')
        /\ asks'[Len(asks')] = q /\ \A i \in DOMAIN asks : asks'[i] = asks[i]
    BY <1>1
  <1>3. ASSUME NEW f \in dlg!Listed, dlg!InFlight(f) = {}, q.field = f
        PROVE  dlg!InFlight(f)' = {Len(asks')}
    <2>1. \A i \in DOMAIN asks' : i = Len(asks') \/ i \in DOMAIN asks
      BY <1>1, <1>2
    <2>2. \A i \in DOMAIN asks : asks[i].field # f
      BY <1>3 DEF dlg!InFlight
    <2>3. Len(asks') \in DOMAIN asks'
      BY <1>1, <1>2
    <2>4. QED
      BY <1>2, <1>3, <2>1, <2>2, <2>3 DEF dlg!InFlight
  <1>4. QED
    BY <1>1, <1>2, <1>3

\* Without its i-th entry, those behind it move up by one.
LEMMA RemoveAtEntries ==
  ASSUME NEW S, NEW s \in Seq(S), NEW i \in 1 .. Len(s)
  PROVE  /\ dlg!RemoveAt(s, i) \in Seq(S) /\ Len(dlg!RemoveAt(s, i)) = Len(s) - 1
         /\ \A k \in 1 .. (Len(s) - 1) : dlg!RemoveAt(s, i)[k] = s[IF k < i THEN k ELSE k + 1]
  <1> DEFINE a == SubSeq(s, 1, i - 1)
             b == SubSeq(s, i + 1, Len(s))
  <1>1. Len(s) \in Nat /\ i \in Nat /\ i <= Len(s) /\ 1 <= i
    OBVIOUS
  <1>2. a \in Seq(S) /\ Len(a) = i - 1 /\ \A k \in 1 .. (i - 1) : a[k] = s[k]
    BY <1>1
  <1>3. b \in Seq(S) /\ Len(b) = Len(s) - i /\ \A k \in 1 .. (Len(s) - i) : b[k] = s[i + k]
    BY <1>1
  <1> HIDE DEF a, b
  <1>4. a \o b \in Seq(S) /\ Len(a \o b) = Len(s) - 1
    <2>1. a \in Seq(S) /\ b \in Seq(S)
      BY <1>2, <1>3
    <2>2. a \o b \in Seq(S) /\ Len(a \o b) = Len(a) + Len(b)
      BY <2>1
    <2>3. QED
      BY <1>1, <1>2, <1>3, <2>2
  <1>5. ASSUME NEW k \in 1 .. (Len(s) - 1) PROVE (a \o b)[k] = s[IF k < i THEN k ELSE k + 1]
    <2>1. CASE k < i
      BY <1>1, <1>2, <1>3, <1>5, <2>1
    <2>2. CASE ~(k < i)
      <3>1. k - Len(a) \in 1 .. (Len(s) - i) /\ i + (k - Len(a)) = k + 1
        BY <1>1, <1>2, <1>5, <2>2
      <3>2. (a \o b)[k] = b[k - Len(a)]
        BY <1>1, <1>2, <1>3, <1>5, <2>2
      <3>3. QED
        BY <1>3, <2>2, <3>1, <3>2
    <2>3. QED
      BY <2>1, <2>2
  <1>6. QED
    BY <1>4, <1>5 DEF dlg!RemoveAt, a, b

\* The answered question leaves those in flight; the others are still in flight, at
\* their new places.
LEMMA AnsweredLeaves ==
  ASSUME DialogTypes, NEW i \in DOMAIN asks, asks' = dlg!RemoveAt(asks, i)
  PROVE  /\ asks' \in Seq(Questions) /\ asks[i] \in Questions
         /\ \A f \in dlg!Listed, j \in DOMAIN asks :
              dlg!InFlight(f) = {j} =>
                IF i = j THEN dlg!InFlight(f)' = {}
                ELSE \E k \in DOMAIN asks' : dlg!InFlight(f)' = {k} /\ asks'[k] = asks[j]
         /\ \A f \in dlg!Listed : dlg!InFlight(f) = {} => dlg!InFlight(f)' = {}
  <1> DEFINE old(k) == IF k < i THEN k ELSE k + 1
  <1>1. asks \in Seq(Questions) /\ Len(asks) \in Nat /\ DOMAIN asks = 1 .. Len(asks) /\ i \in 1 .. Len(asks)
    BY DEF DialogTypes
  <1>2. /\ asks' \in Seq(Questions) /\ Len(asks') = Len(asks) - 1 /\ DOMAIN asks' = 1 .. (Len(asks) - 1)
        /\ \A k \in DOMAIN asks' : asks'[k] = asks[old(k)]
    BY <1>1, RemoveAtEntries, EntriesIn
  <1>3. \A k \in DOMAIN asks' : old(k) \in DOMAIN asks /\ old(k) # i
    BY <1>1, <1>2
  <1>4. \A j \in DOMAIN asks : j # i =>
          \E k \in DOMAIN asks' : old(k) = j /\ \A l \in DOMAIN asks' : old(l) = j => l = k
    <2>1. SUFFICES ASSUME NEW j \in DOMAIN asks, j # i
                   PROVE  \E k \in DOMAIN asks' : old(k) = j /\ \A l \in DOMAIN asks' : old(l) = j => l = k
      OBVIOUS
    <2>2. CASE j < i
      <3>1. j \in DOMAIN asks' /\ old(j) = j
        BY <1>1, <1>2, <2>2
      <3>2. \A l \in DOMAIN asks' : old(l) = j => l = j
        BY <1>1, <1>2, <2>2
      <3>3. QED
        BY <3>1, <3>2
    <2>3. CASE j > i
      <3>1. j - 1 \in DOMAIN asks' /\ old(j - 1) = j
        BY <1>1, <1>2, <2>3
      <3>2. \A l \in DOMAIN asks' : old(l) = j => l = j - 1
        BY <1>1, <1>2, <2>3
      <3>3. QED
        BY <3>1, <3>2
    <2>4. QED
      BY <1>1, <2>1, <2>2, <2>3
  <1> HIDE DEF old
  <1>5. \A f \in dlg!Listed : dlg!InFlight(f)' = {k \in DOMAIN asks' : old(k) \in dlg!InFlight(f)}
    BY <1>2, <1>3 DEF dlg!InFlight
  <1>6. ASSUME NEW f \in dlg!Listed, NEW j \in DOMAIN asks, dlg!InFlight(f) = {j}
        PROVE  IF i = j THEN dlg!InFlight(f)' = {}
               ELSE \E k \in DOMAIN asks' : dlg!InFlight(f)' = {k} /\ asks'[k] = asks[j]
    BY <1>2, <1>3, <1>4, <1>5, <1>6
  <1>7. \A f \in dlg!Listed : dlg!InFlight(f) = {} => dlg!InFlight(f)' = {}
    BY <1>5
  <1>8. QED
    BY <1>1, <1>2, <1>6, <1>7

-----------------------------------------------------------------------------
\* A dialog that was just closed, or not yet opened, shows nothing.
LEMMA ClosedFits ==
  /\ \A b \in BOOLEAN : [dlg!Closed EXCEPT !.active = b]
       \in [active : BOOLEAN, text : [dlg!Fields -> Texts], field : dlg!Fields,
            pick : [dlg!Listed -> Lists]]
  /\ dlg!Closed \in [active : BOOLEAN, text : [dlg!Fields -> Texts], field : dlg!Fields,
            pick : [dlg!Listed -> Lists]]
  /\ dlg!NoUpdate \in [active : BOOLEAN, refs : Seq(Texts), at : Nat, latest : Texts, url : Texts,
                 missed : BOOLEAN]
  /\ Fits(dlg!NoList, dlg!Empty)
  <1>1. <<>> \in Texts /\ <<>> \in Seq(Texts)
    BY DialogAssumption
  <1>2. dlg!NoList \in Lists
    BY <1>1 DEF dlg!NoList, Lists
  <1>3. Fits(dlg!NoList, dlg!Empty)
    BY DEF Fits, dlg!NoList
  <1>4. QED
    BY <1>1, <1>2, <1>3 DEF dlg!Closed, dlg!NoUpdate

\* Nothing is open at the start.
LEMMA DialogStart == dlg!Init => DialogInv
  <1> SUFFICES ASSUME dlg!Init PROVE DialogInv
    OBVIOUS
  <1>1. add = dlg!Closed /\ update = dlg!NoUpdate /\ asks = <<>> /\ calm = [f \in dlg!Listed |-> TRUE]
        /\ overlay = ""
    BY DEF dlg!Init
  <1>2. asks \in Seq(Questions)
    <2>1. \A S : <<>> \in Seq(S)
      OBVIOUS
    <2>2. QED
      BY <1>1, <2>1
  <1>3. DialogTypes
    BY <1>1, <1>2, ClosedFits DEF DialogTypes
  <1>4. \A f \in dlg!Listed : add.pick[f] = dlg!NoList /\ add.text[f] = dlg!Empty
    <2>1. add.pick = [f \in dlg!Listed |-> dlg!NoList] /\ add.text = [f \in dlg!Fields |-> dlg!Empty]
      BY <1>1 DEF dlg!Closed
    <2>2. QED
      BY <2>1
  <1>5. ShownInv
    BY <1>4, ClosedFits DEF ShownInv
  <1>6. AnsweredInv
    BY <1>1 DEF dlg!Adding, AnsweredInv
  <1>7. CommitInv
    BY <1>1 DEF dlg!NoUpdate, CommitInv
  <1>8. QED
    BY <1>3, <1>5, <1>6, <1>7 DEF DialogInv

\* Opening a dialog, closing one, another over it.
LEMMA OpenStep ==
  ASSUME DialogInv, dlg!OpenAdd \/ dlg!OpenUpdate \/ dlg!Esc \/ dlg!OtherOpens \/ dlg!RunUpdate
  PROVE  DialogInv'
  <1>1. asks' = asks /\ calm' = calm
    BY DEF dlg!OpenAdd, dlg!OpenUpdate, dlg!Esc, dlg!OtherOpens, dlg!RunUpdate
  <1>2. add' = add \/ add' = dlg!Closed \/ add' = [dlg!Closed EXCEPT !.active = TRUE]
    BY DEF dlg!OpenAdd, dlg!OpenUpdate, dlg!Esc, dlg!OtherOpens, dlg!RunUpdate
  <1>3. AnsweredInv'
    <2>1. add' = dlg!Closed \/ add' = [dlg!Closed EXCEPT !.active = TRUE] \/ overlay' # "skill"
      BY DEF dlg!OpenAdd, dlg!OpenUpdate, dlg!Esc, dlg!OtherOpens, dlg!RunUpdate
    <2>2. ~dlg!Adding' \/ add'.field = 0
      BY <2>1 DEF dlg!Adding, dlg!Closed
    <2>3. QED
      BY <2>2 DEF AnsweredInv
  <1>4. ShownInv'
    <2>1. CASE add' = add
      BY <2>1 DEF DialogInv, ShownInv
    <2>2. CASE add' # add
      <3>1. add'.pick = [f \in dlg!Listed |-> dlg!NoList] /\ add'.text = [f \in dlg!Fields |-> dlg!Empty]
        BY <1>2, <2>2 DEF dlg!Closed
      <3>2. \A f \in dlg!Listed : add'.pick[f] = dlg!NoList /\ add'.text[f] = dlg!Empty
        BY <3>1
      <3>3. QED
        BY <3>2, ClosedFits DEF ShownInv
    <2>3. QED
      BY <2>1, <2>2
  <1>5. /\ update' \in [active : BOOLEAN, refs : Seq(Texts), at : Nat, latest : Texts, url : Texts,
                        missed : BOOLEAN]
        /\ CommitInv'
    <2>1. CASE dlg!OpenUpdate
      <3> DEFINE Refs(source, answer) ==
                   IF answer # <<>> THEN answer
                   ELSE IF source.ref # dlg!Empty THEN <<source.ref>> ELSE <<<<"main">>, <<"master">>>>
                 Wanted(source, answer) ==
                   IF source.ref = dlg!Empty THEN Refs(source, answer)[1] ELSE source.ref
                 Under(source, answer) ==
                   {i \in DOMAIN Refs(source, answer) : Refs(source, answer)[i] = Wanted(source, answer)}
                 Becomes(source, answer, found) ==
                   update' = IF source.url = dlg!Empty THEN [dlg!NoUpdate EXCEPT !.active = TRUE, !.missed = TRUE]
                             ELSE [active |-> TRUE, refs |-> Refs(source, answer), url |-> source.url,
                                   at |-> IF Under(source, answer) = {} THEN 0
                                          ELSE dlg!Min(Under(source, answer)) - 1,
                                   latest |-> IF found THEN Wanted(source, answer) ELSE dlg!Empty,
                                   missed |-> ~found \/ Under(source, answer) = {}]
      <3>0. PICK source \in RecordedSources :
              \E answer \in {dlg!RefsOf(source.url), <<>>}, found \in BOOLEAN : Becomes(source, answer, found)
        BY <2>1 DEF dlg!OpenUpdate
      <3>1. PICK answer \in {dlg!RefsOf(source.url), <<>>}, found \in BOOLEAN : Becomes(source, answer, found)
        BY <3>0
      <3> DEFINE refs == Refs(source, answer)
                 wanted == Wanted(source, answer)
                 under == Under(source, answer)
      <3>2. source.url \in Texts /\ source.ref \in Texts /\ <<>> \in Texts
        BY DialogAssumption
      <3>3. refs \in Seq(Texts) /\ refs # <<>>
        <4>1. <<"main">> \in Texts /\ <<"master">> \in Texts
          BY DialogAssumption
        <4>2. answer \in Seq(Texts)
          <5>1. dlg!RefsOf(source.url) \in Seq(Texts) /\ <<>> \in Seq(Texts)
            BY FoundTypes
          <5>2. QED
            BY <5>1
        <4>3. QED
          BY <3>2, <4>1, <4>2
      <3>4. wanted \in Texts
        <4> HIDE DEF Refs
        <4>1. QED
          BY <3>2, <3>3
      <3>5. under = {i \in DOMAIN refs : refs[i] = wanted}
        OBVIOUS
      <3>6. update' = IF source.url = dlg!Empty THEN [dlg!NoUpdate EXCEPT !.active = TRUE, !.missed = TRUE]
                      ELSE [active |-> TRUE, refs |-> refs, url |-> source.url,
                            at |-> IF under = {} THEN 0 ELSE dlg!Min(under) - 1,
                            latest |-> IF found THEN wanted ELSE dlg!Empty,
                            missed |-> ~found \/ under = {}]
        BY <3>1
      <3> HIDE DEF refs, wanted, under, Refs, Wanted, Under, Becomes
      <3>7. CASE source.url = dlg!Empty
        <4>1. update' = [dlg!NoUpdate EXCEPT !.active = TRUE, !.missed = TRUE]
          BY <3>6, <3>7
        <4>2. QED
          BY <4>1, ClosedFits DEF dlg!NoUpdate, CommitInv
      <3>8. CASE source.url # dlg!Empty
        <4>1. CASE under = {}
          BY <3>2, <3>3, <3>4, <3>6, <3>8, <4>1 DEF CommitInv
        <4>2. CASE under # {}
          <5>1. PICK i \in Nat : i = dlg!Min(under) - 1 /\ refs[i + 1] = wanted
            <6>1. under \in SUBSET Nat
              BY <3>3, <3>5
            <6>2. dlg!Min(under) \in under
              BY <4>2, <6>1, MinIsLeast
            <6>3. dlg!Min(under) \in DOMAIN refs /\ refs[dlg!Min(under)] = wanted
              BY <3>5, <6>2
            <6>4. \A k \in DOMAIN refs : k - 1 \in Nat /\ (k - 1) + 1 = k
              BY <3>3
            <6>5. QED
              BY <6>3, <6>4
          <5>2. update' = [active |-> TRUE, refs |-> refs, url |-> source.url, at |-> i,
                           latest |-> IF found THEN wanted ELSE dlg!Empty, missed |-> ~found]
            BY <3>6, <3>8, <4>2, <5>1
          <5>3. QED
            BY <3>2, <3>3, <3>4, <5>1, <5>2 DEF CommitInv
        <4>3. QED
          BY <4>1, <4>2
      <3>9. QED
        BY <3>7, <3>8
    <2>2. CASE ~dlg!OpenUpdate
      <3>1. update' \in {update, dlg!NoUpdate, [update EXCEPT !.active = FALSE]}
        BY <2>2 DEF dlg!OpenAdd, dlg!Esc, dlg!OtherOpens, dlg!RunUpdate
      <3>2. CASE update' = update
        BY <3>2 DEF DialogInv, DialogTypes, CommitInv
      <3>3. CASE update' = dlg!NoUpdate
        BY <3>3, ClosedFits DEF CommitInv, dlg!NoUpdate
      <3>4. CASE update' = [update EXCEPT !.active = FALSE]
        BY <3>4 DEF DialogInv, DialogTypes, CommitInv
      <3>5. QED
        BY <3>1, <3>2, <3>3, <3>4
    <2>3. QED
      BY <2>1, <2>2
  <1>6. DialogTypes'
    BY <1>1, <1>2, <1>5, ClosedFits DEF DialogInv, DialogTypes
  <1>7. QED
    BY <1>3, <1>4, <1>5, <1>6 DEF DialogInv

\* Keys that change neither the place in the form nor what its lists hold.
LEMMA StandingKept ==
  ASSUME DialogInv, DialogTypes', UNCHANGED <<asks, calm>>,
         overlay' = overlay /\ add'.active = add.active /\ add'.field = add.field,
         \A f \in dlg!Listed : add'.pick[f].all = add.pick[f].all,
         \A f \in dlg!Fields : f < add.field => add'.text[f] = add.text[f]
  PROVE  AnsweredInv'
  <1> SUFFICES ASSUME NEW f \in dlg!Listed,
                      dlg!Adding', add'.field = f, calm'[f], add'.text[0] # <<>>
               PROVE  Answered(f)'
    BY DEF AnsweredInv
  <1>1. add'.text[0] = add.text[0] /\ (f = 2 => add'.text[1] = add.text[1])
    BY DEF DialogInv, DialogTypes
  <1>2. Answered(f)
    BY <1>1 DEF DialogInv, AnsweredInv, dlg!Adding
  <1>3. dlg!InFlight(f)' = dlg!InFlight(f) /\ Found(f)' = Found(f) /\ dlg!Question(f)' = dlg!Question(f)
    BY <1>1 DEF dlg!InFlight, Found, dlg!Question
  <1>4. QED
    BY <1>2, <1>3 DEF Answered

\* A step that leaves the update dialog alone.
LEMMA UpdateKept ==
  ASSUME DialogInv, UNCHANGED update
  PROVE  CommitInv' /\ update' \in [active : BOOLEAN, refs : Seq(Texts), at : Nat, latest : Texts,
                                    url : Texts, missed : BOOLEAN]
  BY DEF DialogInv, DialogTypes, CommitInv

\* What a key may put into a field and into its list; the name follows the path.
LEMMA FormChanges ==
  ASSUME DialogInv, NEW f \in dlg!Listed, NEW text \in Texts, NEW list \in Lists, Fits(list, text),
         NEW next, next = [add EXCEPT !.text[f] = text, !.pick[f] = list],
         NEW name \in Texts, add' \in {next, [next EXCEPT !.text[3] = name]}
  PROVE  /\ add' \in [active : BOOLEAN, text : [dlg!Fields -> Texts], field : dlg!Fields,
                      pick : [dlg!Listed -> Lists]]
         /\ add'.active = add.active /\ add'.field = add.field
         /\ add'.pick[f] = list
         /\ \A g \in dlg!Listed : g # f => add'.pick[g] = add.pick[g]
         /\ \A g \in dlg!Fields : g \notin {f, 3} => add'.text[g] = add.text[g]
         /\ ShownInv'
  <1>1. add \in [active : BOOLEAN, text : [dlg!Fields -> Texts], field : dlg!Fields,
                 pick : [dlg!Listed -> Lists]]
    BY DEF DialogInv, DialogTypes
  <1>2. f \in dlg!Fields /\ 3 \in dlg!Fields /\ f # 3
    OBVIOUS
  <1>3. /\ next.active = add.active /\ next.field = add.field
        /\ next.text = [add.text EXCEPT ![f] = text] /\ next.pick = [add.pick EXCEPT ![f] = list]
        /\ next = [active |-> next.active, text |-> next.text, field |-> next.field, pick |-> next.pick]
    BY <1>1
  <1>4. next.text \in [dlg!Fields -> Texts] /\ next.pick \in [dlg!Listed -> Lists]
    BY <1>1, <1>2, <1>3
  <1>5. next \in [active : BOOLEAN, text : [dlg!Fields -> Texts], field : dlg!Fields,
                  pick : [dlg!Listed -> Lists]]
    BY <1>1, <1>3, <1>4
  <1>6. /\ add'.active = next.active /\ add'.field = next.field /\ add'.pick = next.pick
        /\ add'.text \in {next.text, [next.text EXCEPT ![3] = name]}
        /\ add' = [active |-> add'.active, text |-> add'.text, field |-> add'.field, pick |-> add'.pick]
    BY <1>5
  <1>7. add'.text \in [dlg!Fields -> Texts] /\ \A g \in dlg!Fields : g # 3 => add'.text[g] = next.text[g]
    BY <1>2, <1>4, <1>6
  <1>8. add' \in [active : BOOLEAN, text : [dlg!Fields -> Texts], field : dlg!Fields,
                  pick : [dlg!Listed -> Lists]]
    BY <1>1, <1>3, <1>4, <1>6, <1>7
  <1>9. /\ add'.pick[f] = list /\ add'.text[f] = text
        /\ \A g \in dlg!Listed : g # f => add'.pick[g] = add.pick[g]
        /\ \A g \in dlg!Fields : g \notin {f, 3} => add'.text[g] = add.text[g]
    BY <1>1, <1>2, <1>3, <1>6, <1>7
  <1>10. ShownInv'
    <2>1. ASSUME NEW g \in dlg!Listed PROVE Fits(add'.pick[g], add'.text[g])
      <3>1. g \in dlg!Fields /\ g # 3
        OBVIOUS
      <3>2. CASE g = f
        BY <1>9, <3>2
      <3>3. CASE g # f
        BY <1>9, <3>1, <3>3 DEF DialogInv, ShownInv
      <3>4. QED
        BY <3>2, <3>3
    <2>2. QED
      BY <2>1 DEF ShownInv
  <1>11. QED
    BY <1>3, <1>6, <1>8, <1>9, <1>10

\* Moving the highlight, or taking in an answer, changes only that of a list.
LEMMA ListChanges ==
  ASSUME NEW list \in Lists
  PROVE  /\ \A spot \in Nat : LET next == [list EXCEPT !.at = spot]
                               IN  /\ next \in Lists /\ next.all = list.all /\ next.shown = list.shown
                                   /\ next.at = spot
         /\ \A all \in Seq(Texts) : LET next == [list EXCEPT !.all = all]
                                    IN  next \in Lists /\ next.all = all
         /\ LET next == [list EXCEPT !.shown = <<>>, !.at = 0]
            IN  /\ next \in Lists /\ next.all = list.all /\ next.shown = <<>> /\ next.at = 0
                /\ \A text : Fits(next, text)
  <1>1. \A S : <<>> \in Seq(S)
    OBVIOUS
  <1>2. \A spot \in Nat : LET next == [list EXCEPT !.at = spot]
                           IN  /\ next \in Lists /\ next.all = list.all /\ next.shown = list.shown
                               /\ next.at = spot
    BY DEF Lists
  <1>3. \A all \in Seq(Texts) : LET next == [list EXCEPT !.all = all]
                                IN  next \in Lists /\ next.all = all
    BY DEF Lists
  <1>4. LET next == [list EXCEPT !.shown = <<>>, !.at = 0]
        IN  /\ next \in Lists /\ next.all = list.all /\ next.shown = <<>> /\ next.at = 0
            /\ \A text : Fits(next, text)
    <2> DEFINE next == [list EXCEPT !.shown = <<>>, !.at = 0]
    <2>1. next \in Lists /\ next.all = list.all /\ next.shown = <<>> /\ next.at = 0
      BY <1>1 DEF Lists
    <2> HIDE DEF next
    <2>2. \A text : Fits(next, text)
      BY <2>1 DEF Fits
    <2>3. QED
      BY <2>1, <2>2 DEF next
  <1>5. QED
    BY <1>2, <1>3, <1>4

\* Tab and Enter put the highlighted entry into the field.
LEMMA TakeStep ==
  ASSUME DialogInv, dlg!Take
  PROVE  DialogInv'
  <1>1. PICK f \in dlg!Listed : f = add.field /\ add.pick[f].shown # <<>>
    BY DEF dlg!Take, dlg!Picking
  <1>2. add.pick[f] \in Lists /\ add.pick[f].shown \in Seq(Texts) /\ add.pick[f].at \in Nat
    BY DEF DialogInv, DialogTypes, Lists
  <1>3. dlg!Picked \in Texts
    <2>1. Fits(add.pick[f], add.text[f])
      BY DEF DialogInv, ShownInv
    <2>2. add.pick[f].at + 1 \in 1 .. Len(add.pick[f].shown)
      <3>1. Len(add.pick[f].shown) \in Nat /\ Len(add.pick[f].shown) # 0
        BY <1>1, <1>2
      <3>2. add.pick[f].at = 0 \/ add.pick[f].at < Len(add.pick[f].shown)
        BY <2>1 DEF Fits
      <3>3. QED
        BY <1>2, <3>1, <3>2
    <2>3. add.pick[f].shown[add.pick[f].at + 1] \in Texts
      BY <1>2, <2>2
    <2>4. QED
      BY <1>1, <2>3 DEF dlg!Picked
  <1> DEFINE list == [add.pick[f] EXCEPT !.shown = <<>>, !.at = 0]
             next == [add EXCEPT !.text[f] = dlg!Picked, !.pick[f] = list]
  <1>4. list \in Lists /\ list.all = add.pick[f].all
    BY <1>2, ListChanges
  <1>5. Fits(list, dlg!Picked)
    BY <1>2, ListChanges
  <1>6. add' \in {next, [next EXCEPT !.text[3] = dlg!Picked]}
    <2>1. add \in [active : BOOLEAN, text : [dlg!Fields -> Texts], field : dlg!Fields,
                   pick : [dlg!Listed -> Lists]]
      BY DEF DialogInv, DialogTypes
    <2>2. [add EXCEPT !.text[f] = dlg!Picked, !.pick[f].shown = <<>>, !.pick[f].at = 0] = next
      BY <2>1, <1>2
    <2>3. QED
      BY <1>1, <2>2 DEF dlg!Take
  <1> HIDE DEF list, next
  <1>7. UNCHANGED <<overlay, update, asks, calm>>
    BY DEF dlg!Take
  <1>8. /\ add' \in [active : BOOLEAN, text : [dlg!Fields -> Texts], field : dlg!Fields,
                      pick : [dlg!Listed -> Lists]]
        /\ add'.active = add.active /\ add'.field = add.field
        /\ add'.pick[f] = list
        /\ \A g \in dlg!Listed : g # f => add'.pick[g] = add.pick[g]
        /\ \A g \in dlg!Fields : g \notin {f, 3} => add'.text[g] = add.text[g]
        /\ ShownInv'
    <2>1. next = [add EXCEPT !.text[f] = dlg!Picked, !.pick[f] = list]
      BY DEF next
    <2>2. QED
      BY <1>3, <1>4, <1>5, <1>6, <2>1, FormChanges
  <1>9. DialogTypes' /\ CommitInv'
    BY <1>7, <1>8, UpdateKept DEF DialogInv, DialogTypes
  <1>10. AnsweredInv'
    <2>1. \A g \in dlg!Listed : add'.pick[g].all = add.pick[g].all
      BY <1>4, <1>8
    <2>2. \A g \in dlg!Fields : g < add.field => g \notin {f, 3}
      BY <1>1
    <2>3. QED
      BY <1>7, <1>8, <1>9, <2>1, <2>2, StandingKept
  <1>11. QED
    BY <1>8, <1>9, <1>10 DEF DialogInv

\* Up and down move the highlight within what is shown.
LEMMA ChooseStep ==
  ASSUME DialogInv, dlg!Choose
  PROVE  DialogInv'
  <1>1. PICK f \in dlg!Listed : f = add.field /\ add.pick[f].shown # <<>>
    BY DEF dlg!Choose, dlg!Picking
  <1> DEFINE N == Len(add.pick[f].shown)
  <1>2. add.pick[f] \in Lists /\ add.pick[f].at \in Nat /\ N \in Nat /\ N > 0
    BY <1>1 DEF DialogInv, DialogTypes, Lists
  <1>3. PICK step \in {1, N - 1} : add' = [add EXCEPT !.pick[add.field].at = (@ + step) % N]
    BY <1>1 DEF dlg!Choose
  <1>4. PICK spot \in Nat : spot = (add.pick[f].at + step) % N /\ spot < N
    BY <1>2, <1>3
  <1> DEFINE list == [add.pick[f] EXCEPT !.at = spot]
             next == [add EXCEPT !.text[f] = add.text[f], !.pick[f] = list]
  <1>5. /\ list \in Lists /\ list.all = add.pick[f].all /\ list.shown = add.pick[f].shown
        /\ list.at = spot
    BY <1>2, ListChanges
  <1>6. Fits(list, add.text[f])
    <2>1. Fits(add.pick[f], add.text[f])
      BY DEF DialogInv, ShownInv
    <2> HIDE DEF list
    <2>2. QED
      BY <1>4, <1>5, <2>1 DEF Fits
  <1>7. add' = next /\ add.text[f] \in Texts
    BY <1>1, <1>2, <1>3, <1>4 DEF DialogInv, DialogTypes
  <1> HIDE DEF list, next
  <1>8. UNCHANGED <<overlay, update, asks, calm>>
    BY DEF dlg!Choose
  <1>9. /\ add' \in [active : BOOLEAN, text : [dlg!Fields -> Texts], field : dlg!Fields,
                      pick : [dlg!Listed -> Lists]]
        /\ add'.active = add.active /\ add'.field = add.field
        /\ add'.pick[f] = list
        /\ \A g \in dlg!Listed : g # f => add'.pick[g] = add.pick[g]
        /\ \A g \in dlg!Fields : g \notin {f, 3} => add'.text[g] = add.text[g]
        /\ ShownInv'
    BY <1>5, <1>6, <1>7, FormChanges DEF next
  <1>10. DialogTypes' /\ CommitInv'
    BY <1>8, <1>9, UpdateKept DEF DialogInv, DialogTypes
  <1>11. AnsweredInv'
    <2>1. \A g \in dlg!Listed : add'.pick[g].all = add.pick[g].all
      BY <1>5, <1>9
    <2>2. \A g \in dlg!Fields : g < add.field => g \notin {f, 3}
      BY <1>1
    <2>3. QED
      BY <1>8, <1>9, <1>10, <2>1, <2>2, StandingKept
  <1>12. QED
    BY <1>9, <1>10, <1>11 DEF DialogInv

\* A text typed into a field without a list.
LEMMA TextChanges ==
  ASSUME DialogInv, NEW f \in dlg!Fields \ dlg!Listed, NEW text \in Texts,
         add' = [add EXCEPT !.text[f] = text]
  PROVE  /\ add' \in [active : BOOLEAN, text : [dlg!Fields -> Texts], field : dlg!Fields,
                      pick : [dlg!Listed -> Lists]]
         /\ add'.active = add.active /\ add'.field = add.field /\ add'.pick = add.pick
         /\ \A g \in dlg!Fields : g # f => add'.text[g] = add.text[g]
         /\ ShownInv'
  <1>1. add \in [active : BOOLEAN, text : [dlg!Fields -> Texts], field : dlg!Fields,
                 pick : [dlg!Listed -> Lists]]
    BY DEF DialogInv, DialogTypes
  <1>2. /\ add'.active = add.active /\ add'.field = add.field /\ add'.pick = add.pick
        /\ add'.text = [add.text EXCEPT ![f] = text]
        /\ add' = [active |-> add'.active, text |-> add'.text, field |-> add'.field, pick |-> add'.pick]
    BY <1>1
  <1>3. add'.text \in [dlg!Fields -> Texts] /\ \A g \in dlg!Fields : g # f => add'.text[g] = add.text[g]
    BY <1>1, <1>2
  <1>4. ShownInv'
    <2>1. \A g \in dlg!Listed : g \in dlg!Fields /\ g # f
      OBVIOUS
    <2>2. QED
      BY <1>2, <1>3, <2>1 DEF DialogInv, ShownInv
  <1>5. QED
    BY <1>1, <1>2, <1>3, <1>4

\* A key typed into a field filters its list anew.
LEMMA TypeStep ==
  ASSUME DialogInv, dlg!Type
  PROVE  DialogInv'
  <1> DEFINE Typed(f, t) == [add EXCEPT !.text[f] = t]
             Refiltered(f, t) ==
               IF f \in dlg!Listed THEN [Typed(f, t) EXCEPT !.pick[f] = dlg!Refilter(@, t)] ELSE Typed(f, t)
             Becomes(f, t) ==
               add' = IF f = 2 /\ add.text[3] = dlg!Empty THEN [Refiltered(f, t) EXCEPT !.text[3] = t]
                      ELSE Refiltered(f, t)
  <1>0. \E t \in TypedFields[add.field] : Becomes(add.field, t)
    BY DEF dlg!Type
  <1>1. PICK f \in dlg!Fields : f = add.field
    BY DEF DialogInv, DialogTypes
  <1>2. PICK t \in TypedFields[f] : Becomes(f, t)
    <2> HIDE DEF Becomes
    <2>1. QED
      BY <1>0, <1>1
  <1>3. t \in Texts
    BY <1>2, DialogAssumption
  <1>4. UNCHANGED <<overlay, update, asks, calm>>
    BY DEF dlg!Type
  <1>5. CASE f \in dlg!Listed
    <2> DEFINE list == dlg!Refilter(add.pick[f], t)
    <2>1. add.pick[f] \in Lists
      BY <1>5 DEF DialogInv, DialogTypes
    <2>2. list \in Lists /\ list.all = add.pick[f].all /\ Fits(list, t)
      BY <2>1, RefilterFits
    <2> HIDE DEF list
    <2>3. PICK next : next = [add EXCEPT !.text[f] = t, !.pick[f] = list]
      OBVIOUS
    <2>4. add' \in {next, [next EXCEPT !.text[3] = t]}
      <3>1. add \in [active : BOOLEAN, text : [dlg!Fields -> Texts], field : dlg!Fields,
                     pick : [dlg!Listed -> Lists]]
        BY DEF DialogInv, DialogTypes
      <3>2. next = [[add EXCEPT !.text[f] = t] EXCEPT !.pick[f] = dlg!Refilter(@, t)]
        BY <1>5, <2>3, <3>1 DEF list
      <3>3. QED
        BY <1>2, <1>5, <3>2
    <2>5. /\ add' \in [active : BOOLEAN, text : [dlg!Fields -> Texts], field : dlg!Fields,
                        pick : [dlg!Listed -> Lists]]
          /\ add'.active = add.active /\ add'.field = add.field
          /\ add'.pick[f] = list
          /\ \A g \in dlg!Listed : g # f => add'.pick[g] = add.pick[g]
          /\ \A g \in dlg!Fields : g \notin {f, 3} => add'.text[g] = add.text[g]
          /\ ShownInv'
      BY <1>3, <1>5, <2>2, <2>3, <2>4, FormChanges
    <2>6. DialogTypes' /\ CommitInv'
      BY <1>4, <2>5, UpdateKept DEF DialogInv, DialogTypes
    <2>7. AnsweredInv'
      <3>1. \A g \in dlg!Listed : add'.pick[g].all = add.pick[g].all
        BY <2>2, <2>5
      <3>2. \A g \in dlg!Fields : g < add.field => g \notin {f, 3}
        BY <1>1
      <3>3. QED
        BY <1>4, <2>5, <2>6, <3>1, <3>2, StandingKept
    <2>8. QED
      BY <2>5, <2>6, <2>7 DEF DialogInv
  <1>6. CASE f \notin dlg!Listed
    <2>1. add' = [add EXCEPT !.text[f] = t]
      BY <1>2, <1>6
    <2>2. /\ add' \in [active : BOOLEAN, text : [dlg!Fields -> Texts], field : dlg!Fields,
                        pick : [dlg!Listed -> Lists]]
          /\ add'.active = add.active /\ add'.field = add.field /\ add'.pick = add.pick
          /\ \A g \in dlg!Fields : g # f => add'.text[g] = add.text[g]
          /\ ShownInv'
      BY <1>3, <1>6, <2>1, TextChanges
    <2>3. DialogTypes' /\ CommitInv'
      BY <1>4, <2>2, UpdateKept DEF DialogInv, DialogTypes
    <2>4. AnsweredInv'
      <3>1. \A g \in dlg!Fields : g < add.field => g # f
        BY <1>1
      <3>2. QED
        BY <1>4, <2>2, <2>3, <3>1, StandingKept
    <2>5. QED
      BY <2>2, <2>3, <2>4 DEF DialogInv
  <1>7. QED
    BY <1>5, <1>6

\* Enter in the last field goes back to what is missing, is refused, or closes the form.
LEMMA SubmitStep ==
  ASSUME DialogInv, dlg!Submit
  PROVE  DialogInv'
  <1>1. UNCHANGED <<update, asks, calm>> /\ add.field = 3
    BY DEF dlg!Submit
  <1>2. \/ UNCHANGED <<add, overlay>>
        \/ \E f \in {0, 3} : add' = [add EXCEPT !.field = f]
        \/ add' = [add EXCEPT !.active = FALSE] /\ overlay' = ""
    <2> DEFINE missing == {f \in {0, 3} : add.text[f] = dlg!Empty}
    <2>1. missing # {} => dlg!Min(missing) \in missing
      <3>1. missing \in SUBSET Nat
        OBVIOUS
      <3> HIDE DEF missing
      <3>2. QED
        BY <3>1, MinIsLeast
    <2>2. missing \subseteq {0, 3}
      OBVIOUS
    <2>3. \/ missing # {} /\ add' = [add EXCEPT !.field = dlg!Min(missing)]
          \/ UNCHANGED <<add, overlay>>
          \/ add' = [add EXCEPT !.active = FALSE] /\ overlay' = ""
      BY DEF dlg!Submit
    <2> HIDE DEF missing
    <2>4. QED
      BY <2>1, <2>2, <2>3
  <1>3. add \in [active : BOOLEAN, text : [dlg!Fields -> Texts], field : dlg!Fields,
                 pick : [dlg!Listed -> Lists]]
    BY DEF DialogInv, DialogTypes
  <1>4. /\ add' \in [active : BOOLEAN, text : [dlg!Fields -> Texts], field : dlg!Fields,
                      pick : [dlg!Listed -> Lists]]
        /\ add'.text = add.text /\ add'.pick = add.pick
        /\ add'.field \in {0, 3} \/ overlay' = ""
    <2>1. CASE UNCHANGED <<add, overlay>>
      BY <1>1, <1>3, <2>1
    <2>2. ASSUME NEW f \in {0, 3}, add' = [add EXCEPT !.field = f]
          PROVE  /\ add' \in [active : BOOLEAN, text : [dlg!Fields -> Texts], field : dlg!Fields,
                               pick : [dlg!Listed -> Lists]]
                 /\ add'.text = add.text /\ add'.pick = add.pick /\ add'.field \in {0, 3}
      BY <1>3, <2>2
    <2>3. CASE add' = [add EXCEPT !.active = FALSE] /\ overlay' = ""
      BY <1>3, <2>3
    <2>4. QED
      BY <1>2, <2>1, <2>2, <2>3
  <1>5. DialogTypes' /\ CommitInv'
    BY <1>1, <1>4, UpdateKept DEF DialogInv, DialogTypes
  <1>6. ShownInv' /\ AnsweredInv'
    <2>1. ShownInv'
      BY <1>4 DEF DialogInv, ShownInv
    <2>2. AnsweredInv'
      BY <1>4 DEF AnsweredInv, dlg!Adding
    <2>3. QED
      BY <2>1, <2>2
  <1>7. QED
    BY <1>5, <1>6 DEF DialogInv

\* Up and down in the update dialog take the commit of the version they reach.
LEMMA ChooseRefStep ==
  ASSUME DialogInv, dlg!ChooseRef
  PROVE  DialogInv'
  <1> DEFINE N == Len(update.refs)
  <1>1. UNCHANGED <<overlay, add, asks, calm>>
    BY DEF dlg!ChooseRef
  <1>2. update \in [active : BOOLEAN, refs : Seq(Texts), at : Nat, latest : Texts, url : Texts,
                    missed : BOOLEAN]
    BY DEF DialogInv, DialogTypes
  <1>3. N \in Nat /\ N > 0 /\ update.at \in Nat
    BY <1>2 DEF dlg!ChooseRef
  <1>4. PICK step \in {1, N - 1}, found \in BOOLEAN :
          LET next == (update.at + step) % N
          IN  update' = [update EXCEPT !.at = next,
                           !.latest = IF found THEN update.refs[next + 1] ELSE @,
                           !.missed = ~found]
    BY DEF dlg!ChooseRef, dlg!Move
  <1>5. PICK next \in Nat : next = (update.at + step) % N /\ next < N
    BY <1>3, <1>4
  <1>6. update' = [update EXCEPT !.at = next,
                     !.latest = IF found THEN update.refs[next + 1] ELSE @, !.missed = ~found]
    BY <1>4, <1>5
  <1>7. update.refs[next + 1] \in Texts
    BY <1>2, <1>3, <1>5
  <1>8. /\ update' \in [active : BOOLEAN, refs : Seq(Texts), at : Nat, latest : Texts, url : Texts,
                        missed : BOOLEAN]
        /\ CommitInv'
    BY <1>2, <1>6, <1>7 DEF CommitInv
  <1>9. DialogTypes' /\ ShownInv' /\ AnsweredInv'
    <2>1. DialogTypes'
      BY <1>1, <1>8 DEF DialogInv, DialogTypes
    <2>2. ShownInv'
      BY <1>1 DEF DialogInv, ShownInv
    <2>3. AnsweredInv'
      BY <1>1, <2>1, StandingKept
    <2>4. QED
      BY <2>1, <2>2, <2>3
  <1>10. QED
    BY <1>8, <1>9 DEF DialogInv

\* Entering a field with a list asks its question.
LEMMA WalkStep ==
  ASSUME DialogInv, dlg!Walk
  PROVE  DialogInv'
  <1>1. PICK g \in dlg!Fields : dlg!EnterField(g)
    <2>1. add.field \in dlg!Fields
      BY DEF DialogInv, DialogTypes
    <2>2. \A step \in {1, 3} : (add.field + step) % 4 \in dlg!Fields
      BY <2>1
    <2>3. QED
      BY <2>2 DEF dlg!Walk
  <1>2. UNCHANGED <<overlay, update>> /\ add' = dlg!Arrived(g) /\ dlg!Asks(g)
    BY <1>1 DEF dlg!EnterField
  <1>3. add \in [active : BOOLEAN, text : [dlg!Fields -> Texts], field : dlg!Fields,
                 pick : [dlg!Listed -> Lists]]
    BY DEF DialogInv, DialogTypes
  <1>4. add.pick[1] \in Lists /\ add.pick[2] \in Lists
    BY <1>3
  <1> DEFINE emptied == [add.pick[1] EXCEPT !.shown = <<>>, !.at = 0]
             refiltered == dlg!Refilter(add.pick[2], add.text[2])
  <1>5. emptied \in Lists /\ \A text : Fits(emptied, text)
    BY <1>4, ListChanges
  <1>6. refiltered \in Lists /\ Fits(refiltered, add.text[2])
    BY <1>4, RefilterFits
  <1> DEFINE pick == IF g = 1 THEN [add.pick EXCEPT ![1] = emptied]
                     ELSE IF g = 2 THEN [add.pick EXCEPT ![2] = refiltered] ELSE add.pick
  <1>7. add' = [add EXCEPT !.field = g, !.pick = pick]
    <2>1. [add.pick EXCEPT ![1].shown = <<>>, ![1].at = 0] = [add.pick EXCEPT ![1] = emptied]
      BY <1>3, <1>4
    <2>2. pick = CASE g = 1 -> [add.pick EXCEPT ![1].shown = <<>>, ![1].at = 0]
                   [] g = 2 -> [add.pick EXCEPT ![2] = dlg!Refilter(add.pick[2], add.text[2])]
                   [] OTHER -> add.pick
      <3> HIDE DEF emptied
      <3>1. CASE g = 1
        BY <2>1, <3>1
      <3>2. CASE g = 2
        BY <3>2
      <3>3. CASE g # 1 /\ g # 2
        BY <3>3
      <3>4. QED
        BY <3>1, <3>2, <3>3
    <2> HIDE DEF pick
    <2>3. QED
      BY <1>2, <2>2 DEF dlg!Arrived
  <1> HIDE DEF emptied, refiltered
  <1>8. /\ add' \in [active : BOOLEAN, text : [dlg!Fields -> Texts], field : dlg!Fields,
                      pick : [dlg!Listed -> Lists]]
        /\ add'.text = add.text /\ add'.field = g
        /\ add'.pick[1] = (IF g = 1 THEN emptied ELSE add.pick[1])
        /\ add'.pick[2] = (IF g = 2 THEN refiltered ELSE add.pick[2])
    <2>1. /\ pick \in [dlg!Listed -> Lists]
          /\ pick[1] = (IF g = 1 THEN emptied ELSE add.pick[1])
          /\ pick[2] = (IF g = 2 THEN refiltered ELSE add.pick[2])
      <3>1. add.pick \in [dlg!Listed -> Lists]
        BY <1>3
      <3>2. QED
        BY <1>5, <1>6, <3>1
    <2> HIDE DEF pick
    <2>2. QED
      BY <1>3, <1>7, <2>1
  <1>9. ShownInv'
    <2>1. Fits(add.pick[1], add.text[1]) /\ Fits(add.pick[2], add.text[2])
      BY DEF DialogInv, ShownInv
    <2>2. Fits(add'.pick[1], add'.text[1]) /\ Fits(add'.pick[2], add'.text[2])
      BY <1>5, <1>6, <1>8, <2>1
    <2>3. QED
      BY <2>2 DEF ShownInv
  <1>10. asks' \in Seq(Questions) /\ calm' \in [dlg!Listed -> BOOLEAN] /\ AnsweredInv'
    <2>1. CASE g \in dlg!Listed /\ add.text[0] # <<>>
      <3>1. asks' = Append(asks, dlg!Question(g)) /\ calm' = [calm EXCEPT ![g] = dlg!InFlight(g) = {}]
        BY <1>2, <2>1 DEF dlg!Asks
      <3>2. dlg!Question(g) \in Questions /\ dlg!Question(g).field = g
        <4>1. <<>> \in Texts /\ add.text[0] \in Texts /\ add.text[1] \in Texts
          BY <1>3, DialogAssumption
        <4>2. QED
          BY <2>1, <4>1 DEF Questions, dlg!Question
      <3>3. /\ asks' \in Seq(Questions)
            /\ dlg!InFlight(g) = {} =>
                 dlg!InFlight(g)' = {Len(asks')} /\ Len(asks') \in DOMAIN asks' /\ asks'[Len(asks')] = dlg!Question(g)
        BY <2>1, <3>1, <3>2, AskedInFlight DEF DialogInv
      <3>4. calm' \in [dlg!Listed -> BOOLEAN] /\ (calm'[g] <=> dlg!InFlight(g) = {})
        BY <2>1, <3>1 DEF DialogInv, DialogTypes
      <3>5. dlg!Question(g)' = dlg!Question(g)
        BY <1>8 DEF dlg!Question
      <3>6. calm'[g] => Answered(g)'
        BY <3>3, <3>4, <3>5 DEF Answered
      <3>7. QED
        BY <1>8, <3>3, <3>4, <3>6 DEF AnsweredInv
    <2>2. CASE ~(g \in dlg!Listed /\ add.text[0] # <<>>)
      <3>1. UNCHANGED <<asks, calm>>
        BY <1>2, <2>2 DEF dlg!Asks
      <3>2. \A f \in dlg!Listed : add'.field = f => add'.text[0] = <<>>
        BY <1>8, <2>2
      <3>3. QED
        BY <3>1, <3>2 DEF DialogInv, DialogTypes, AnsweredInv
    <2>3. QED
      BY <2>1, <2>2
  <1>11. QED
    BY <1>2, <1>8, <1>9, <1>10, UpdateKept DEF DialogInv, DialogTypes

\* An answer fills the list of its field; nothing else was on its way.
LEMMA AnswerStep ==
  ASSUME DialogInv, NEW i \in DOMAIN asks, dlg!Answer(i)
  PROVE  DialogInv'
  <1> DEFINE q == asks[i]
             found == IF q.field = 1 THEN dlg!RefsOf(q.url) ELSE dlg!PathsOf(q.url, q.ref)
  <1>1. asks' = dlg!RemoveAt(asks, i) /\ UNCHANGED <<overlay, update>>
    BY DEF dlg!Answer
  <1>2. /\ asks' \in Seq(Questions) /\ q \in Questions
        /\ \A f \in dlg!Listed, j \in DOMAIN asks :
             dlg!InFlight(f) = {j} =>
               IF i = j THEN dlg!InFlight(f)' = {}
               ELSE \E k \in DOMAIN asks' : dlg!InFlight(f)' = {k} /\ asks'[k] = asks[j]
        /\ \A f \in dlg!Listed : dlg!InFlight(f) = {} => dlg!InFlight(f)' = {}
    BY <1>1, AnsweredLeaves DEF DialogInv
  <1>3. add \in [active : BOOLEAN, text : [dlg!Fields -> Texts], field : dlg!Fields,
                 pick : [dlg!Listed -> Lists]]
    BY DEF DialogInv, DialogTypes
  <1>4. found \in Seq(Texts)
    BY FoundTypes
  <1>5. q.field \in dlg!Listed
    BY <1>2 DEF Questions
  <1>6. i \in dlg!InFlight(q.field)
    BY DEF dlg!InFlight
  <1>7. \/ /\ dlg!Adding /\ UNCHANGED calm
           /\ \E all \in {found, <<>>} :
                add' = [add EXCEPT !.pick[q.field] =
                          dlg!Refilter([add.pick[q.field] EXCEPT !.all = all], add.text[q.field])]
        \/ ~dlg!Adding /\ UNCHANGED add /\ calm' = [calm EXCEPT ![q.field] = FALSE]
    BY DEF dlg!Answer
  <1>8. CASE ~dlg!Adding /\ UNCHANGED add /\ calm' = [calm EXCEPT ![q.field] = FALSE]
    <2>1. ~dlg!Adding'
      BY <1>1, <1>8 DEF dlg!Adding
    <2>2. AnsweredInv' /\ ShownInv'
      BY <1>8, <2>1 DEF AnsweredInv, DialogInv, ShownInv
    <2>3. calm' \in [dlg!Listed -> BOOLEAN]
      BY <1>8 DEF DialogInv, DialogTypes
    <2>4. QED
      BY <1>1, <1>2, <1>3, <1>8, <2>2, <2>3, UpdateKept DEF DialogInv, DialogTypes
  <1>9. CASE dlg!Adding /\ UNCHANGED calm
              /\ \E all \in {found, <<>>} :
                   add' = [add EXCEPT !.pick[q.field] =
                             dlg!Refilter([add.pick[q.field] EXCEPT !.all = all], add.text[q.field])]
    <2>1. PICK all \in {found, <<>>} :
            add' = [add EXCEPT !.pick[q.field] =
                      dlg!Refilter([add.pick[q.field] EXCEPT !.all = all], add.text[q.field])]
      BY <1>9
    <2>2. PICK g \in dlg!Listed : g = q.field
      BY <1>5
    <2> DEFINE posed == [add.pick[g] EXCEPT !.all = all]
               list == dlg!Refilter(posed, add.text[g])
    <2>3. all \in Seq(Texts) /\ add.pick[g] \in Lists
      <3>1. \A S : <<>> \in Seq(S)
        OBVIOUS
      <3>2. QED
        BY <1>3, <1>4, <2>1, <3>1
    <2>4. posed \in Lists /\ posed.all = all
      BY <2>3, ListChanges
    <2>5. list \in Lists /\ list.all = all /\ Fits(list, add.text[g])
      <3> HIDE DEF posed
      <3>1. QED
        BY <2>4, RefilterFits
    <2>6. add' = [add EXCEPT !.pick[g] = list]
      BY <2>1, <2>2
    <2> HIDE DEF posed, list, found
    <2>7. /\ add' \in [active : BOOLEAN, text : [dlg!Fields -> Texts], field : dlg!Fields,
                        pick : [dlg!Listed -> Lists]]
          /\ add'.text = add.text /\ add'.field = add.field /\ add'.active = add.active
          /\ add'.pick[g] = list
          /\ \A f \in dlg!Listed : f # g => add'.pick[f] = add.pick[f]
      BY <1>3, <2>5, <2>6
    <2>8. ShownInv'
      <3>1. ASSUME NEW f \in dlg!Listed PROVE Fits(add'.pick[f], add'.text[f])
        <4>1. CASE f = g
          BY <2>5, <2>7, <4>1
        <4>2. CASE f # g
          BY <2>7, <4>2 DEF DialogInv, ShownInv
        <4>3. QED
          BY <4>1, <4>2
      <3>2. QED
        BY <3>1 DEF ShownInv
    <2>9. AnsweredInv'
      <3>1. SUFFICES ASSUME NEW f \in dlg!Listed,
                            dlg!Adding', add'.field = f, calm'[f], add'.text[0] # <<>>
                     PROVE  Answered(f)'
        BY DEF AnsweredInv
      <3>2. Answered(f)
        BY <1>9, <2>7, <3>1 DEF DialogInv, AnsweredInv
      <3>3. Found(f)' = Found(f) /\ dlg!Question(f)' = dlg!Question(f)
        BY <2>7 DEF Found, dlg!Question
      <3>4. CASE dlg!InFlight(f) = {} /\ dlg!Range(add.pick[f].all) \subseteq dlg!Range(Found(f))
        <4>1. f # g
          BY <1>6, <2>2, <3>4
        <4>2. QED
          BY <1>2, <2>7, <3>3, <3>4, <4>1 DEF Answered
      <3>5. ASSUME NEW j \in DOMAIN asks, dlg!InFlight(f) = {j}, asks[j] = dlg!Question(f)
            PROVE  Answered(f)'
        <4>1. CASE i = j
          <5>1. f = g /\ dlg!InFlight(f)' = {}
            <6>1. asks[j].field = f
              BY <3>5 DEF dlg!InFlight
            <6>2. QED
              BY <1>2, <2>2, <3>5, <4>1, <6>1
          <5>2. Found(f) = found
            <6>1. q.field = f /\ q.url = add.text[0] /\ (f # 1 => q.ref = add.text[1])
              <7>1. q = dlg!Question(f)
                BY <3>5, <4>1
              <7> HIDE DEF q
              <7>2. QED
                BY <7>1 DEF dlg!Question
            <6> HIDE DEF q
            <6>2. QED
              BY <6>1 DEF Found, found
          <5>3. dlg!Range(add'.pick[f].all) \subseteq dlg!Range(Found(f)')
            <6>1. add'.pick[f].all = all
              BY <2>5, <2>7, <5>1
            <6>2. dlg!Range(<<>>) = {}
              BY DEF dlg!Range
            <6>3. QED
              BY <2>1, <3>3, <5>2, <6>1, <6>2
          <5>4. QED
            BY <5>1, <5>3 DEF Answered
        <4>2. CASE i # j
          <5>1. PICK k \in DOMAIN asks' : dlg!InFlight(f)' = {k} /\ asks'[k] = asks[j]
            BY <1>2, <3>5, <4>2
          <5>2. QED
            BY <3>3, <3>5, <5>1 DEF Answered
        <4>3. QED
          BY <4>1, <4>2
      <3>6. QED
        BY <3>2, <3>4, <3>5 DEF Answered
    <2>10. QED
      BY <1>1, <1>2, <1>9, <2>7, <2>8, <2>9, UpdateKept DEF DialogInv, DialogTypes
  <1>10. QED
    BY <1>7, <1>8, <1>9

\* The invariant shows what the property says.
LEMMA ShownFollows == DialogInv => WhatIsShownFits
  <1> SUFFICES ASSUME DialogInv PROVE WhatIsShownFits
    OBVIOUS
  <1>1. ASSUME NEW f \in dlg!Listed, dlg!Settled(f)
        PROVE  dlg!ListFits(f, Found(f))
    <2>1. dlg!InFlight(f) = {} /\ Answered(f)
      BY <1>1 DEF DialogInv, AnsweredInv, dlg!Settled
    <2>2. dlg!Range(add.pick[f].all) \subseteq dlg!Range(Found(f))
      BY <2>1 DEF Answered
    <2>3. Fits(add.pick[f], add.text[f])
      BY DEF DialogInv, ShownInv
    <2>4. QED
      BY <2>2, <2>3 DEF Fits, dlg!ListFits
  <1>2. /\ dlg!Settled(1) => dlg!ListFits(1, dlg!RefsOf(add.text[0]))
        /\ dlg!Settled(2) => dlg!ListFits(2, dlg!PathsOf(add.text[0], add.text[1]))
    BY <1>1 DEF Found
  <1>3. dlg!Adding /\ dlg!Picking => add.pick[add.field].at < Len(add.pick[add.field].shown)
    <2>1. SUFFICES ASSUME dlg!Picking PROVE add.pick[add.field].at < Len(add.pick[add.field].shown)
      OBVIOUS
    <2>2. PICK f \in dlg!Listed : f = add.field /\ add.pick[f].shown # <<>>
      BY <2>1 DEF dlg!Picking
    <2>3. add.pick[f].shown \in Seq(Texts) /\ Fits(add.pick[f], add.text[f])
      BY DEF DialogInv, DialogTypes, ShownInv, Lists
    <2>4. QED
      BY <2>2, <2>3 DEF Fits
  <1>4. dlg!Updating /\ ~update.missed => update.latest = update.refs[update.at + 1]
    BY DEF DialogInv, CommitInv, dlg!Updating
  <1>5. QED
    BY <1>2, <1>3, <1>4 DEF WhatIsShownFits, dlg!WhatIsShownFits

\* The lists and the commit the skill dialogs show are of what the form says,
\* whatever the git servers hold and in whatever order they answer
\* (overlay_add_skill_key.go, overlay_event.go, overlay_update_skill_key.go).
THEOREM ShownCorrect == dlg!Spec => []WhatIsShownFits
  <1>1. DialogInv /\ [dlg!Next]_dlg!vars => DialogInv'
    <2> SUFFICES ASSUME DialogInv, [dlg!Next]_dlg!vars PROVE DialogInv'
      OBVIOUS
    <2>1. CASE dlg!OpenAdd \/ dlg!OpenUpdate \/ dlg!Esc \/ dlg!OtherOpens \/ dlg!RunUpdate
      BY <2>1, OpenStep
    <2>2. CASE dlg!Walk
      BY <2>2, WalkStep
    <2>3. CASE dlg!Choose
      BY <2>3, ChooseStep
    <2>4. CASE dlg!Take
      BY <2>4, TakeStep
    <2>5. CASE dlg!Type
      BY <2>5, TypeStep
    <2>6. CASE dlg!Submit
      BY <2>6, SubmitStep
    <2>7. CASE dlg!ChooseRef
      BY <2>7, ChooseRefStep
    <2>8. ASSUME NEW i \in DOMAIN asks, dlg!Answer(i) PROVE DialogInv'
      BY <2>8, AnswerStep
    <2>9. CASE UNCHANGED dlg!vars
      <3>1. UNCHANGED <<overlay, add, update, asks, calm>>
        BY <2>9
      <3>2. DialogTypes' /\ ShownInv' /\ CommitInv'
        BY <3>1 DEF DialogInv, DialogTypes, ShownInv, CommitInv
      <3>3. AnsweredInv'
        BY <3>1, <3>2, StandingKept
      <3>4. QED
        BY <3>2, <3>3 DEF DialogInv
    <2>10. QED
      BY <2>1, <2>2, <2>3, <2>4, <2>5, <2>6, <2>7, <2>8, <2>9 DEF dlg!Next
  <1>2. QED
    BY <1>1, DialogStart, ShownFollows, PTL DEF dlg!Spec

-----------------------------------------------------------------------------
(* InputLine: texts.                                                       *)

Lines == Seq(Pieces)
Gaps == {" ", "nl"}

\* A line as it is recorded, and a line that was completed from a row.
Entries == {t \in Lines : t # <<>> /\ t[1] \notin Gaps /\ t[Len(t)] \notin Gaps}
SlashTexts == {t \in OneLine : t # <<>> /\ t[1] = "/"}
Completions == {t \in SlashTexts : t[Len(t)] = " "}

\* The smallest and the largest of some places of a list.
LEMMA Bounds ==
  ASSUME NEW n \in Nat, NEW S \in SUBSET (1 .. n), S # {}
  PROVE  /\ inp!Min(S) \in S /\ \A m \in S : inp!Min(S) <= m
         /\ inp!Max(S) \in S /\ \A m \in S : inp!Max(S) >= m
  <1>1. \E k \in S : \A m \in S : k <= m
    BY LeastNatural
  <1>2. \E k \in S : \A m \in S : k >= m
    <2> DEFINE gaps == {n - k : k \in S}
    <2>1. gaps \in SUBSET Nat /\ gaps # {}
      <3>1. \A k \in S : n - k \in Nat
        OBVIOUS
      <3>2. QED
        BY <3>1
    <2>2. PICK g \in gaps : \A m \in gaps : g <= m
      <3> HIDE DEF gaps
      <3>1. QED
        BY <2>1, LeastNatural
    <2>3. PICK k \in S : g = n - k
      BY <2>2
    <2>4. ASSUME NEW m \in S PROVE k >= m
      <3>1. g <= n - m
        BY <2>2
      <3>2. QED
        BY <2>3, <3>1
    <2>5. QED
      BY <2>4
  <1>3. QED
    BY <1>1, <1>2 DEF inp!Min, inp!Max

\* Trimming leaves an entry, and an entry as it is.
LEMMA TrimKeeps ==
  ASSUME NEW t \in Lines
  PROVE  /\ inp!Trim(t) = <<>> \/ inp!Trim(t) \in Entries
         /\ t # <<>> /\ t[1] \notin Gaps => inp!Trim(t) \in Entries /\ inp!Trim(t)[1] = t[1]
         /\ t \in Entries => inp!Trim(t) = t
  <1> DEFINE V == inp!Visibly(t)
             a == inp!Min(V)
             b == inp!Max(V)
  <1>1. /\ Len(t) \in Nat /\ V \in SUBSET (1 .. Len(t)) /\ \A i \in 1 .. Len(t) : t[i] \in Pieces
        /\ \A i \in 1 .. Len(t) : i \in V <=> t[i] \notin Gaps
    <2>1. Len(t) \in Nat /\ DOMAIN t = 1 .. Len(t) /\ \A i \in 1 .. Len(t) : t[i] \in Pieces
      BY DEF Lines
    <2>2. V = {i \in 1 .. Len(t) : t[i] \notin Gaps}
      BY <2>1 DEF Gaps, inp!Visibly, inp!Blank
    <2> HIDE DEF V
    <2>3. QED
      BY <2>1, <2>2
  <1>2. CASE V = {}
    <2>1. inp!Trim(t) = <<>>
      BY <1>2 DEF inp!Trim
    <2>2. t = <<>> \/ t[1] \in Gaps
      <3>1. t # <<>> => 1 \in 1 .. Len(t)
        BY DEF Lines
      <3>2. QED
        BY <1>1, <1>2, <3>1
    <2>3. QED
      BY <2>1, <2>2 DEF Entries
  <1>3. CASE V # {}
    <2>1. a \in V /\ b \in V /\ \A m \in V : a <= m /\ m <= b
      <3> HIDE DEF V
      <3>1. QED
        BY <1>1, <1>3, Bounds
    <2>2. a \in 1 .. Len(t) /\ b \in 1 .. Len(t) /\ a <= b
      BY <1>1, <2>1
    <2>3. inp!Trim(t) = SubSeq(t, a, b)
      BY <1>3 DEF inp!Trim
    <2> HIDE DEF V, a, b
    <2>4. /\ SubSeq(t, a, b) \in Lines /\ Len(SubSeq(t, a, b)) = b - a + 1
          /\ SubSeq(t, a, b)[1] = t[a] /\ SubSeq(t, a, b)[b - a + 1] = t[b]
      <3>1. a \in 1 .. Len(t) + 1 /\ b \in a - 1 .. Len(t) /\ b - a + 1 \in 1 .. b - a + 1
        BY <1>1, <2>2
      <3>2. SubSeq(t, a, b) \in Lines /\ Len(SubSeq(t, a, b)) = b - a + 1
        BY <1>1, <2>2 DEF Lines
      <3>3. \A i \in 1 .. b - a + 1 : SubSeq(t, a, b)[i] = t[a + i - 1]
        BY <1>1, <2>2 DEF Lines
      <3>4. a + 1 - 1 = a /\ a + (b - a + 1) - 1 = b /\ 1 \in 1 .. b - a + 1
        BY <1>1, <2>2
      <3>5. QED
        BY <3>1, <3>2, <3>3, <3>4
    <2>5. SubSeq(t, a, b) \in Entries
      <3>1. t[a] \notin Gaps /\ t[b] \notin Gaps
        BY <1>1, <2>1
      <3>2. SubSeq(t, a, b) # <<>>
        BY <2>2, <2>4
      <3>3. QED
        BY <2>4, <3>1, <3>2 DEF Entries
    <2>6. t # <<>> /\ t[1] \notin Gaps => a = 1
      <3>1. t # <<>> => 1 \in 1 .. Len(t)
        BY DEF Lines
      <3>2. QED
        BY <1>1, <2>1, <2>2, <3>1
    <2>7. t \in Entries => a = 1 /\ b = Len(t)
      <3>1. t # <<>> => Len(t) \in 1 .. Len(t)
        BY DEF Lines
      <3>2. QED
        BY <1>1, <2>1, <2>2, <2>6, <3>1 DEF Entries
    <2>8. SubSeq(t, 1, Len(t)) = t
      BY DEF Lines
    <2>9. QED
      BY <2>3, <2>4, <2>5, <2>6, <2>7, <2>8
  <1>4. QED
    BY <1>2, <1>3

-----------------------------------------------------------------------------
(* InputLine: rows.                                                        *)

\* Rows that may be filled in give a slash line; the row of an empty directory
\* may not.
AnyRows == [cmd : OneLine, desc : OneLine, fill : OneLine, exec : OneLine, to : OneLine]
LineRows == {r \in AnyRows : /\ r.fill \in SlashTexts \cup {<<>>}
                            /\ (r.cmd \in SlashTexts \/ r = inp!Plain(<<"none">>))}

\* Texts of one line, put together and in small letters.
LEMMA JoinKeeps ==
  /\ \A s, t \in OneLine : s \o t \in OneLine
  /\ \A s \in SlashTexts, t \in OneLine : s \o t \in SlashTexts
  <1> DEFINE P == Pieces \ {"nl"}
  <1>1. OneLine = Seq(P)
    BY DEF OneLine
  <1> HIDE DEF P
  <1>2. \A s, t \in OneLine : s \o t \in OneLine /\ (s # <<>> => s \o t # <<>> /\ (s \o t)[1] = s[1])
    BY <1>1
  <1>3. QED
    BY <1>2 DEF SlashTexts

\* Texts of one line, piece by piece.
LinePieces == Pieces \ {"nl"}

\* Texts of no, one and two pieces.
LEMMA Tuples ==
  /\ \A a \in LinePieces : <<a>> \in OneLine
  /\ \A a, b \in LinePieces : <<a, b>> \in OneLine
  /\ <<>> \in OneLine
  <1>1. OneLine = Seq(LinePieces)
    BY DEF OneLine, LinePieces
  <1>2. /\ \A a \in LinePieces : <<a>> \in OneLine
        /\ \A a, b \in LinePieces : <<a, b>> \in OneLine
        /\ <<>> \in OneLine
    BY <1>1
  <1>3. QED
    BY <1>2

\* Small letters keep the length, "/" and "none".
LEMMA LowKeeps ==
  ASSUME NEW S, {"n", "l", "o", "r", "u"} \subseteq S, NEW t \in Seq(S)
  PROVE  /\ inp!Low(t) \in Seq(S) /\ Len(inp!Low(t)) = Len(t)
         /\ \A i \in 1 .. Len(t) : t[i] \in {"/", "none"} => inp!Low(t)[i] = t[i]
  <1> DEFINE small == [N |-> "n", L |-> "l", O |-> "o", R |-> "r", U |-> "u"]
             low == [i \in DOMAIN t |-> IF t[i] \in DOMAIN small THEN small[t[i]] ELSE t[i]]
  <1>1. Len(t) \in Nat /\ DOMAIN t = 1 .. Len(t) /\ \A i \in 1 .. Len(t) : t[i] \in S
    OBVIOUS
  <1>2. \A p \in DOMAIN small : small[p] \in S
    OBVIOUS
  <1>3. DOMAIN small = {"N", "L", "O", "R", "U"}
    OBVIOUS
  <1> HIDE DEF small
  <1>4. low \in [1 .. Len(t) -> S]
    BY <1>1, <1>2
  <1>5. \A i \in 1 .. Len(t) : t[i] \in {"/", "none"} => low[i] = t[i]
    BY <1>1, <1>3
  <1>6. inp!Low(t) = low
    BY DEF inp!Low, small
  <1> HIDE DEF low
  <1>7. low \in Seq(S) /\ Len(low) = Len(t)
    BY <1>1, <1>4
  <1>8. QED
    BY <1>5, <1>6, <1>7

\* The words of the rows.
LEMMA Words ==
  /\ inp!AccessPrefix \in SlashTexts /\ inp!SkillPrefix \in SlashTexts
  /\ inp!AccessWords \in Seq(OneLine) /\ inp!SkillWords \in Seq(OneLine)
  /\ inp!RemoveWord \in OneLine /\ inp!UpdateWord \in OneLine
  /\ <<"/">> \in SlashTexts /\ <<" ">> \in OneLine /\ <<>> \in OneLine /\ <<"none">> \in OneLine
  /\ \A s \in {"new", "quit"} : <<"/", s>> \in SlashTexts
  /\ <<"/">> \o inp!access \in SlashTexts /\ <<"/">> \o inp!skill \in SlashTexts
  <1>0. {"/", " ", "none", "new", "quit", "acc", "ess", "skill", "N", "L", "O", "R", "U",
         "ew", "ocal", "ffline", "emove", "pdate"} \subseteq LinePieces
    BY LinesAssumption DEF LinePieces
  <1>1. /\ <<"/">> \in SlashTexts /\ <<" ">> \in OneLine /\ <<>> \in OneLine /\ <<"none">> \in OneLine
        /\ \A s \in {"new", "quit"} : <<"/", s>> \in SlashTexts
    BY <1>0, Tuples DEF SlashTexts
  <1>2. inp!access \in OneLine /\ inp!skill \in OneLine
    BY <1>0, Tuples DEF inp!access, inp!skill
  <1>3. <<"/">> \o inp!access \in SlashTexts /\ <<"/">> \o inp!skill \in SlashTexts
    BY <1>1, <1>2, JoinKeeps
  <1>4. inp!AccessPrefix \in SlashTexts /\ inp!SkillPrefix \in SlashTexts
    BY <1>1, <1>3, JoinKeeps DEF inp!AccessPrefix, inp!SkillPrefix, inp!Slash, inp!Blank
  <1>5. /\ inp!NewWord \in OneLine /\ inp!LocalWord \in OneLine /\ inp!OfflineWord \in OneLine
        /\ inp!RemoveWord \in OneLine /\ inp!UpdateWord \in OneLine
    BY <1>0, Tuples DEF inp!NewWord, inp!LocalWord, inp!OfflineWord, inp!RemoveWord, inp!UpdateWord
  <1>6. inp!AccessWords \in Seq(OneLine) /\ inp!SkillWords \in Seq(OneLine)
    BY <1>5 DEF inp!AccessWords, inp!SkillWords
  <1>7. QED
    BY <1>1, <1>3, <1>4, <1>5, <1>6

\* A row whose command, and what it fills in, are slash lines.
LEMMA RowKeeps ==
  /\ \A c \in SlashTexts, d, e, t \in OneLine : \A f \in SlashTexts \cup {<<>>} :
       inp!Row(c, d, f, e, t) \in LineRows
  /\ \A c \in SlashTexts : inp!Plain(c) \in LineRows
  /\ inp!Plain(<<"none">>) \in LineRows
  <1>1. <<>> \in OneLine /\ <<"none">> \in OneLine
    BY Words
  <1>2. \A c \in SlashTexts, d, e, t \in OneLine : \A f \in SlashTexts \cup {<<>>} :
          inp!Row(c, d, f, e, t) \in LineRows
    BY <1>1 DEF inp!Row, LineRows, AnyRows, SlashTexts
  <1>3. inp!Plain(<<"none">>) \in LineRows
    BY <1>1 DEF inp!Row, inp!Plain, LineRows, AnyRows
  <1>4. QED
    BY <1>1, <1>2, <1>3 DEF inp!Plain

\* What a provider makes of a list.
LEMMA RowsOf ==
  ASSUME NEW S, NEW T, NEW s \in Seq(S), NEW Of,
         DOMAIN Of = DOMAIN s, Of = [i \in DOMAIN s |-> Of[i]], \A i \in DOMAIN s : Of[i] \in T
  PROVE  Of \in Seq(T)
  <1>1. Len(s) \in Nat /\ DOMAIN s = 1 .. Len(s)
    OBVIOUS
  <1>2. Of \in [1 .. Len(s) -> T]
    BY <1>1
  <1>3. QED
    BY <1>1, <1>2

\* What the loop of a list lets through are entries of it.
LEMMA Chosen ==
  ASSUME NEW S, NEW s \in Seq(S), NEW chosen
  PROVE  /\ inp!EntriesAt(s, chosen) \in Seq(S)
         /\ \A i \in DOMAIN inp!EntriesAt(s, chosen) : inp!EntriesAt(s, chosen)[i] \in S
  <1> DEFINE T == {s[i] : i \in DOMAIN s \cap chosen}
  <1>1. inp!EntriesAt(s, chosen) = EntriesAt(s, chosen)
    BY DEF inp!EntriesAt, EntriesAt
  <1>2. EntriesAt(s, chosen) \in Seq(T)
    BY EntriesAtKeeps
  <1>3. T \subseteq S
    OBVIOUS
  <1> HIDE DEF T
  <1>4. EntriesAt(s, chosen) \in Seq(S)
    BY <1>2, <1>3
  <1> HIDE DEF EntriesAt
  <1>5. QED
    BY <1>1, <1>4

\* Small letters of a text of one line.
LEMMA LowOneLine == \A t \in OneLine : inp!Low(t) \in OneLine
  <1>1. OneLine = Seq(LinePieces) /\ {"n", "l", "o", "r", "u"} \subseteq LinePieces
    BY LinesAssumption DEF OneLine, LinePieces
  <1>2. QED
    BY <1>1, LowKeeps

SavedHosts == [user : OneLine, host : OneLine, name : OneLine]
SshHosts == [alias : OneLine, host : OneLine, user : OneLine]

\* The target of a record is a text of one line.
LEMMA TargetKeeps == \A h \in SavedHosts \cup SshHosts : inp!TargetOf(h) \in OneLine
  <1>1. <<"@">> \in OneLine
    BY LinesAssumption, Tuples DEF LinePieces
  <1>2. \A h \in SavedHosts \cup SshHosts : h.user \in OneLine /\ h.host \in OneLine
    BY DEF SavedHosts, SshHosts
  <1>3. QED
    BY <1>1, <1>2, JoinKeeps DEF inp!TargetOf

\* The rows of saved remotes.
LEMMA SavedRowsKeep ==
  ASSUME NEW fs \in Filed
  PROVE  inp!SavedRows(fs) \in Seq(LineRows)
  <1> DEFINE keys == [i \in DOMAIN fs.saved |-> inp!Low(fs.saved[i].host)]
             firsts == inp!Firsts(fs.saved, keys)
             rows == [i \in DOMAIN firsts |->
                        inp!Row(inp!AccessPrefix \o inp!Low(firsts[i].host), firsts[i].name, <<>>, <<>>,
                                inp!TargetOf(firsts[i]))]
  <1>1. inp!SavedRows(fs) = rows
    BY DEF inp!SavedRows
  <1>2. firsts \in Seq(SavedHosts) /\ \A i \in DOMAIN firsts : firsts[i] \in SavedHosts
    <2>1. fs.saved \in Seq(SavedHosts)
      BY DEF Filed, SavedHosts
    <2>2. QED
      BY <2>1, Chosen DEF inp!Firsts
  <1> HIDE DEF firsts
  <1>3. \A i \in DOMAIN firsts : rows[i] \in LineRows
    <2>1. TAKE i \in DOMAIN firsts
    <2>2. firsts[i] \in SavedHosts /\ firsts[i].host \in OneLine /\ firsts[i].name \in OneLine
      BY <1>2 DEF SavedHosts
    <2>3. inp!TargetOf(firsts[i]) \in OneLine /\ inp!Low(firsts[i].host) \in OneLine /\ <<>> \in OneLine
      BY <2>2, TargetKeeps, LowOneLine, Words
    <2>4. inp!AccessPrefix \o inp!Low(firsts[i].host) \in SlashTexts
      BY <2>3, JoinKeeps, Words
    <2>5. QED
      BY <2>2, <2>3, <2>4, RowKeeps
  <1> HIDE DEF rows
  <1>4. DOMAIN rows = DOMAIN firsts /\ rows = [i \in DOMAIN firsts |-> rows[i]]
    BY DEF rows
  <1>5. QED
    BY <1>1, <1>2, <1>3, <1>4, RowsOf

\* The rows of ssh aliases.
LEMMA SshRowsKeep ==
  ASSUME NEW fs \in Filed
  PROVE  inp!SshRows(fs) \in Seq(LineRows)
  <1> DEFINE keys == [i \in DOMAIN fs.ssh |-> inp!Low(fs.ssh[i].alias)]
             firsts == inp!Firsts(fs.ssh, keys)
             hidden(h) == \E i \in DOMAIN fs.saved : inp!Low(fs.saved[i].host) = inp!Low(h.host)
             drawn(h) == inp!AccessPrefix \o inp!Low(h.host)
             exec(h) == IF hidden(h) THEN inp!AccessPrefix \o inp!Low(h.alias) ELSE <<>>
             rows == [i \in DOMAIN firsts |->
                        inp!Row(drawn(firsts[i]), firsts[i].alias, drawn(firsts[i]), exec(firsts[i]),
                                inp!TargetOf(firsts[i]))]
  <1>1. inp!SshRows(fs) = rows
    BY DEF inp!SshRows
  <1>2. firsts \in Seq(SshHosts) /\ \A i \in DOMAIN firsts : firsts[i] \in SshHosts
    <2>1. fs.ssh \in Seq(SshHosts)
      BY DEF Filed, SshHosts
    <2>2. QED
      BY <2>1, Chosen DEF inp!Firsts
  <1> HIDE DEF firsts, hidden
  <1>3. ASSUME NEW h \in SshHosts
        PROVE  /\ drawn(h) \in SlashTexts /\ h.alias \in OneLine /\ exec(h) \in OneLine
               /\ inp!TargetOf(h) \in OneLine
    <2>1. h.host \in OneLine /\ h.alias \in OneLine
      BY DEF SshHosts
    <2>2. inp!Low(h.host) \in OneLine /\ inp!Low(h.alias) \in OneLine /\ <<>> \in OneLine
      BY <2>1, LowOneLine, Words
    <2>3. inp!AccessPrefix \o inp!Low(h.alias) \in OneLine
      BY <2>2, JoinKeeps, Words DEF SlashTexts
    <2>4. drawn(h) \in SlashTexts
      BY <2>2, JoinKeeps, Words
    <2>5. QED
      BY <2>1, <2>2, <2>3, <2>4, TargetKeeps
  <1> HIDE DEF drawn, exec
  <1>4. \A i \in DOMAIN firsts : rows[i] \in LineRows
    BY <1>2, <1>3, RowKeeps
  <1> HIDE DEF rows
  <1>5. DOMAIN rows = DOMAIN firsts /\ rows = [i \in DOMAIN firsts |-> rows[i]]
    BY DEF rows
  <1>6. QED
    BY <1>1, <1>2, <1>4, <1>5, RowsOf

\* Rows made of the words or names of a list.
LEMMA PlainRowsKeep ==
  ASSUME NEW prefix \in SlashTexts, NEW names \in Seq(OneLine)
  PROVE  /\ [i \in DOMAIN names |-> inp!Plain(prefix \o names[i])] \in Seq(LineRows)
         /\ [i \in DOMAIN names |->
               inp!Row(prefix \o names[i], <<>>, prefix \o names[i], <<>>, <<>>)] \in Seq(LineRows)
  <1> DEFINE plain == [i \in DOMAIN names |-> inp!Plain(prefix \o names[i])]
             named == [i \in DOMAIN names |->
                         inp!Row(prefix \o names[i], <<>>, prefix \o names[i], <<>>, <<>>)]
  <1>1. \A i \in DOMAIN names : prefix \o names[i] \in SlashTexts
    BY JoinKeeps
  <1>2. \A i \in DOMAIN names : plain[i] \in LineRows /\ named[i] \in LineRows
    BY <1>1, RowKeeps, Words
  <1>3. /\ DOMAIN plain = DOMAIN names /\ plain = [i \in DOMAIN names |-> plain[i]]
        /\ DOMAIN named = DOMAIN names /\ named = [i \in DOMAIN names |-> named[i]]
    OBVIOUS
  <1> HIDE DEF plain, named
  <1>4. plain \in Seq(LineRows) /\ named \in Seq(LineRows)
    BY <1>2, <1>3, RowsOf
  <1>5. QED
    BY <1>4 DEF plain, named

\* The rows of /access.
LEMMA AccessRowsKeep ==
  ASSUME NEW fs \in Filed
  PROVE  inp!AccessRows(fs) \in Seq(LineRows)
  <1>1. [i \in DOMAIN inp!AccessWords |-> inp!Plain(inp!AccessPrefix \o inp!AccessWords[i])] \in Seq(LineRows)
    BY Words, PlainRowsKeep
  <1>2. \A s, t, u \in Seq(LineRows) : s \o t \o u \in Seq(LineRows)
    OBVIOUS
  <1>3. QED
    BY <1>1, <1>2, SavedRowsKeep, SshRowsKeep DEF inp!AccessRows

\* The rows of skills.
LEMMA ChoiceRowsKeep ==
  ASSUME NEW fs \in Filed, NEW filter
  PROVE  inp!ChoiceRows(fs, filter) \in Seq(LineRows)
  <1>1. \A f : inp!ReservedSkillRows(f) \in Seq(LineRows)
    <2>1. TAKE f
    <2> DEFINE words == inp!EntriesAt(inp!SkillWords,
                 {i \in DOMAIN inp!SkillWords : inp!ReservedMatch(f, inp!SkillWords[i])})
    <2>2. words \in Seq(OneLine)
      BY Words, Chosen
    <2>3. inp!ReservedSkillRows(f) = [i \in DOMAIN words |-> inp!Plain(inp!SkillPrefix \o words[i])]
      BY DEF inp!ReservedSkillRows
    <2> HIDE DEF words
    <2>4. QED
      BY <2>2, <2>3, Words, PlainRowsKeep
  <1>2. \A names \in Seq(OneLine) : inp!InstalledRows(names) \in Seq(LineRows)
    BY Words, PlainRowsKeep DEF inp!InstalledRows
  <1>3. fs.skills \in Seq(OneLine)
    BY DEF Filed
  <1> DEFINE token == inp!Word(filter)
             Offered(n) == inp!Holds(n, inp!Low(token)) /\ ~(token = inp!NewWord /\ n = inp!Low(inp!NewWord))
             found == inp!EntriesAt(fs.skills, {i \in DOMAIN fs.skills : Offered(fs.skills[i])})
             rows == inp!InstalledRows(found) \o inp!ReservedSkillRows(token)
  <1>4. found \in Seq(OneLine)
    <2> HIDE DEF Offered
    <2>1. QED
      BY <1>3, Chosen
  <1>5. inp!ChoiceRows(fs, filter) \in
          {inp!InstalledRows(fs.skills) \o inp!ReservedSkillRows(<<>>),
           inp!ReservedSkillRows(inp!NewWord), <<>>, <<inp!Plain(<<"none">>)>>, rows}
    BY DEF inp!ChoiceRows
  <1> HIDE DEF found, token
  <1>6. \A s, u \in Seq(LineRows) : s \o u \in Seq(LineRows)
    OBVIOUS
  <1>7. <<inp!Plain(<<"none">>)>> \in Seq(LineRows) /\ <<>> \in Seq(LineRows)
    BY RowKeeps
  <1>8. QED
    BY <1>1, <1>2, <1>3, <1>4, <1>5, <1>6, <1>7

\* The rows for removing and updating skills.
LEMMA NamedRowsKeep ==
  ASSUME NEW fs \in Filed, NEW word \in OneLine, NEW filter
  PROVE  inp!NamedRows(fs, word, filter) \in Seq(LineRows)
  <1> DEFINE names == inp!EntriesAt(fs.skills, {i \in DOMAIN fs.skills : inp!Holds(fs.skills[i], inp!Low(filter))})
             prefix == inp!SkillPrefix \o word \o <<inp!Blank>>
  <1>1. names \in Seq(OneLine)
    BY Chosen DEF Filed
  <1>2. inp!SkillPrefix \o word \in SlashTexts
    BY JoinKeeps, Words
  <1>3. prefix \in SlashTexts
    BY <1>2, JoinKeeps, Words DEF inp!Blank
  <1>4. <<inp!Plain(inp!SkillPrefix \o word)>> \in Seq(LineRows)
    BY <1>2, RowKeeps
  <1>5. inp!NamedRows(fs, word, filter) =
          IF names = <<>> THEN <<inp!Plain(inp!SkillPrefix \o word)>>
          ELSE [i \in DOMAIN names |-> inp!Plain(prefix \o names[i])]
    BY DEF inp!NamedRows
  <1> HIDE DEF names, prefix
  <1>6. QED
    BY <1>1, <1>3, <1>4, <1>5, PlainRowsKeep

\* Whatever the line, its rows are such rows.
LEMMA OptionsKeep ==
  ASSUME NEW fs \in Filed, NEW text
  PROVE  inp!Options(text, fs) \in Seq(LineRows)
  <1>1. \A f : inp!SkillRows(fs, f) \in Seq(LineRows)
    BY ChoiceRowsKeep, NamedRowsKeep, Words DEF inp!SkillRows
  <1>2. inp!Roots \in Seq(LineRows)
    <2>1. \A c \in SlashTexts : inp!Plain(c) \in LineRows
      BY RowKeeps
    <2>2. \A a, b, c, d \in LineRows : <<a, b, c, d>> \in Seq(LineRows)
      OBVIOUS
    <2>3. QED
      BY <2>1, <2>2, Words DEF inp!Roots, inp!Slash
  <1>3. QED
    BY <1>1, <1>2, AccessRowsKeep DEF inp!Options

-----------------------------------------------------------------------------
(* InputLine: what is filled in, and the lines that are recalled.          *)

\* The highlighted row is one of the rows, if there is one.
LEMMA HighlightedKeeps ==
  ASSUME line \in Lines, files \in Filed
  PROVE  inp!Highlighted \in LineRows \cup {inp!NoRow}
  <1> DEFINE opts == inp!Options(line, files)
             all == [i \in DOMAIN opts |-> i]
             past == {i \in DOMAIN opts : inp!Shows(inp!Bare(line), opts[i])}
             vis == inp!VisibleIndices(line, opts)
  <1>1. opts \in Seq(LineRows)
    BY OptionsKeep
  <1>2. vis = IF Len(opts) = 1 THEN <<1>> ELSE inp!EntriesAt(all, past)
    BY DEF inp!VisibleIndices
  <1>3. inp!Highlighted = IF suggest \in 0 .. Len(vis) - 1 THEN opts[vis[suggest + 1]] ELSE inp!NoRow
    BY DEF inp!Highlighted, inp!Rows, inp!SelectedByVisibleIndex
  <1> HIDE DEF opts, past
  <1>4. /\ Len(opts) \in Nat /\ DOMAIN opts = 1 .. Len(opts)
        /\ \A i \in DOMAIN opts : opts[i] \in LineRows
    BY <1>1
  <1>5. all \in Seq(DOMAIN opts)
    <2>1. all \in [1 .. Len(opts) -> DOMAIN opts]
      BY <1>4
    <2> HIDE DEF all
    <2>2. QED
      BY <1>4, <2>1
  <1>6. inp!EntriesAt(all, past) \in Seq(DOMAIN opts)
    <2> HIDE DEF all
    <2>1. QED
      BY <1>5, Chosen
  <1> HIDE DEF all
  <1>7. Len(opts) = 1 => <<1>> \in Seq(DOMAIN opts)
    BY <1>4
  <1>8. vis \in Seq(DOMAIN opts)
    BY <1>2, <1>6, <1>7
  <1> HIDE DEF vis
  <1>9. suggest \in 0 .. Len(vis) - 1 => vis[suggest + 1] \in DOMAIN opts
    BY <1>8
  <1>10. QED
    BY <1>3, <1>4, <1>9

\* The row of an empty directory is never filled in: a slash line is no
\* beginning of it.
LEMMA NoneStays ==
  ASSUME NEW text \in Lines, text # <<>>, text[1] = "/"
  PROVE  ~inp!ShouldFillOnly(inp!Plain(<<"none">>), text)
  <1> DEFINE none == inp!Plain(<<"none">>)
  <1>1. none.cmd = <<"none">> /\ none.desc = <<>> /\ none.fill = <<>> /\ none.exec = <<>>
    BY DEF inp!Plain, inp!Row
  <1>2. {"n", "l", "o", "r", "u"} \subseteq Pieces
    BY LinesAssumption
  <1>3. inp!Low(<<"none">>) = <<"none">> /\ inp!Low(<<>>) = <<>>
    <2>1. PICK S : S = {"n", "l", "o", "r", "u", "none"}
      OBVIOUS
    <2>2. /\ <<"none">> \in Seq(S) /\ Len(<<"none">>) = 1 /\ <<"none">>[1] = "none"
          /\ <<>> \in Seq(S) /\ Len(<<>>) = 0 /\ 1 \in 1 .. 1
      BY <2>1
    <2>3. {"n", "l", "o", "r", "u"} \subseteq S
      BY <2>1
    <2>4. ASSUME NEW t \in Seq(S), Len(t) = 1, t[1] = "none"
          PROVE  inp!Low(t) \in Seq(S) /\ Len(inp!Low(t)) = 1 /\ inp!Low(t)[1] = "none"
      <3>1. 1 \in 1 .. Len(t) /\ t[1] \in {"/", "none"}
        BY <2>4
      <3>2. QED
        BY <2>3, <2>4, <3>1, LowKeeps
    <2>5. inp!Low(<<>>) \in Seq(S) /\ Len(inp!Low(<<>>)) = 0
      BY <2>2, <2>3, LowKeeps
    <2>6. \A t \in Seq(S) : (Len(t) = 1 /\ t[1] = "none" => t = <<"none">>) /\ (Len(t) = 0 => t = <<>>)
      OBVIOUS
    <2>7. inp!Low(<<"none">>) = <<"none">>
      BY <2>2, <2>4, <2>6
    <2>8. QED
      BY <2>5, <2>6, <2>7
  <1>4. inp!Low(text) \in Seq(Pieces) /\ Len(inp!Low(text)) = Len(text) /\ inp!Low(text)[1] = "/"
    <2>1. 1 \in 1 .. Len(text) /\ text \in Seq(Pieces)
      BY DEF Lines
    <2>2. QED
      BY <1>2, <2>1, LowKeeps
  <1>5. Len(text) \in Nat \ {0}
    BY DEF Lines
  <1> DEFINE low == inp!Low(text)
  <1>6. ~inp!IsPrefix(low, <<"none">>)
    <2> HIDE DEF low
    <2>1. SUFFICES ASSUME Len(low) <= 1, SubSeq(low, 1, Len(low)) = SubSeq(<<"none">>, 1, Len(low))
                   PROVE  FALSE
      BY DEF inp!IsPrefix
    <2>2. Len(low) = 1 /\ low \in Seq(Pieces) /\ low[1] = "/"
      BY <1>4, <1>5, <2>1 DEF low
    <2>3. SubSeq(low, 1, 1)[1] = "/"
      BY <2>2
    <2>4. SubSeq(<<"none">>, 1, 1)[1] = "none"
      OBVIOUS
    <2>5. QED
      BY <2>1, <2>2, <2>3, <2>4
  <1> HIDE DEF low
  <1>7. ~inp!DescMatches(none.desc, text)
    BY <1>1 DEF inp!DescMatches
  <1> HIDE DEF none
  <1>8. {inp!Low(none.cmd), inp!Low(none.fill), inp!Low(none.exec)} \ {<<>>} \subseteq {<<"none">>}
    BY <1>1, <1>3
  <1>9. ~inp!ShouldFillOnly(none, text)
    BY <1>6, <1>7, <1>8 DEF inp!ShouldFillOnly, low
  <1>10. QED
    BY <1>9 DEF none

\* What is filled in is a slash line that ends with a blank.
LEMMA FillFits ==
  ASSUME line \in Lines, files \in Filed, inp!FillsIn
  PROVE  inp!ChosenToInputValue(inp!Highlighted) \in Completions
  <1> DEFINE row == inp!Highlighted
             text == inp!Trim(line)
  <1>1. row \in LineRows /\ inp!ShouldFillOnly(row, text)
    BY HighlightedKeeps DEF inp!FillsIn, inp!ShouldFillOnly
  <1>2. line # <<>> /\ line[1] = "/"
    BY DEF inp!FillsIn, inp!SlashLine, inp!IsSlash, inp!Slash
  <1>3. text \in Entries /\ text[1] = "/"
    BY <1>2, TrimKeeps DEF Gaps
  <1> HIDE DEF text, row
  <1>4. row # inp!Plain(<<"none">>)
    BY <1>1, <1>3, NoneStays DEF Entries
  <1>5. row.cmd \in SlashTexts /\ row.fill \in SlashTexts \cup {<<>>}
    BY <1>1, <1>4 DEF LineRows
  <1>6. \A s \in SlashTexts : s \o <<" ">> \in Completions
    <2>1. TAKE s \in SlashTexts
    <2>2. s \o <<" ">> \in SlashTexts
      BY Words, JoinKeeps
    <2>3. s \in Seq(LinePieces) /\ <<" ">> \in Seq(LinePieces)
      BY Words DEF SlashTexts, OneLine, LinePieces
    <2>4. PICK u : u = <<" ">>
      OBVIOUS
    <2>5. s \in Seq(LinePieces) /\ u \in Seq(LinePieces) /\ Len(u) = 1 /\ u[1] = " "
      BY <2>3, <2>4
    <2>6. ASSUME NEW v \in Seq(LinePieces), NEW w \in Seq(LinePieces), Len(w) = 1
          PROVE  (v \o w)[Len(v \o w)] = w[1]
      <3>1. Len(v) \in Nat /\ Len(v) + 1 \in 1 .. Len(v) + Len(w) /\ ~(Len(v) + 1 <= Len(v))
        BY <2>6
      <3>2. Len(v \o w) = Len(v) + 1 /\ (v \o w)[Len(v) + 1] = w[Len(v) + 1 - Len(v)]
        BY <2>6, <3>1, ConcatProperties
      <3>3. Len(v) + 1 - Len(v) = 1
        BY <3>1
      <3>4. QED
        BY <3>2, <3>3
    <2>7. (s \o u)[Len(s \o u)] = " "
      BY <2>5, <2>6
    <2>8. QED
      BY <2>2, <2>4, <2>7 DEF Completions
  <1>7. inp!ChosenToInputValue(row) \in Completions
    BY <1>5, <1>6 DEF inp!ChosenToInputValue, inp!Blank
  <1>8. QED
    BY <1>7 DEF row

\* Lines of the rows and recorded lines are lines, and go to the slash commands
\* when they start so.
LEMMA CompletionsAreLines ==
  \A t \in Completions : t \in Lines /\ t # <<>> /\ t[1] = "/" /\ "nl" \notin inp!Range(t)
  <1>1. TAKE t \in Completions
  <1>2. t \in Seq(LinePieces) /\ t # <<>> /\ t[1] = "/"
    BY DEF Completions, SlashTexts, OneLine, LinePieces
  <1>3. \A i \in DOMAIN t : t[i] \in LinePieces
    BY <1>2
  <1>4. "nl" \notin inp!Range(t)
    BY <1>3 DEF inp!Range, LinePieces
  <1>5. LinePieces \subseteq Pieces
    BY DEF LinePieces
  <1>6. t \in Lines
    BY <1>2, <1>5 DEF Lines
  <1>7. QED
    BY <1>2, <1>4, <1>6

\* The inductive invariant: what a submitted line is, and what the line may be
\* while submitted lines are recalled.
LineTypes ==
  /\ line \in Lines /\ scratch \in Lines /\ files \in Filed
  /\ hist \in Seq(Entries) /\ place \in -1 .. Len(hist) - 1
LineInv == LineTypes /\ (inp!Browsing => line = hist[place + 1] \/ line \in Completions)

\* Recording an entry.
LEMMA CommittedKeeps ==
  ASSUME hist \in Seq(Entries), NEW text \in Entries
  PROVE  inp!Committed(text) \in Seq(Entries)
  <1> DEFINE h == Append(hist, text)
  <1>1. h \in Seq(Entries) /\ h # <<>>
    BY AppendProperties
  <1>2. inp!Committed(text) \in {hist, h, Tail(h)}
    BY DEF inp!Committed
  <1> HIDE DEF h
  <1>3. Tail(h) \in Seq(Entries)
    BY <1>1
  <1>4. QED
    BY <1>1, <1>2, <1>3

\* A line that was entered is gone, and so is the browsing.
LEMMA Entered ==
  ASSUME LineInv, files' \in Filed, NEW text \in Entries,
         line' = <<>>, hist' = inp!Committed(text), place' = -1, scratch' = <<>>
  PROVE  LineInv'
  <1>1. hist' \in Seq(Entries)
    BY CommittedKeeps DEF LineInv, LineTypes
  <1>2. <<>> \in Lines
    BY DEF Lines
  <1>3. place' \in -1 .. Len(hist') - 1
    BY <1>1
  <1>4. QED
    BY <1>1, <1>2, <1>3 DEF LineInv, LineTypes, inp!Browsing, inp!NotBrowsing

\* The slash line that is run is recorded as it is trimmed.
LEMMA RunKeeps ==
  ASSUME LineInv, inp!RunSlash
  PROVE  LineInv'
  <1> DEFINE text == inp!Trim(line)
  <1>1. text \in Entries
    <2>1. line \in Lines /\ line # <<>> /\ line[1] \notin Gaps
      BY DEF LineInv, LineTypes, inp!RunSlash, inp!SlashLine, inp!IsSlash, inp!Slash, Gaps
    <2>2. QED
      BY <2>1, TrimKeeps
  <1> HIDE DEF text
  <1>2. ASSUME inp!ClearSlash(text), files' \in Filed
        PROVE  LineInv'
    BY <1>1, <1>2, Entered DEF inp!ClearSlash, inp!NotBrowsing
  <1>3. files \in Filed
    BY DEF LineInv, LineTypes
  <1>4. CASE inp!AccessLine(text)
    <2>1. UNCHANGED files
      BY <1>4 DEF inp!AccessLine, inp!ConnectTo
    <2>2. QED
      BY <1>2, <1>3, <1>4, <2>1 DEF inp!AccessLine
  <1>5. CASE inp!SkillLine(text)
    <2>1. files' = files \/ \E name : files' = inp!WithoutSkill(name)
      BY <1>5 DEF inp!SkillLine
    <2>2. \A name : inp!WithoutSkill(name) \in Filed
      <3>1. TAKE name
      <3> DEFINE left == inp!EntriesAt(files.skills, {i \in DOMAIN files.skills : files.skills[i] # name})
      <3>2. left \in Seq(OneLine)
        BY <1>3, Chosen DEF Filed
      <3>3. inp!WithoutSkill(name) = [files EXCEPT !.skills = left]
        BY DEF inp!WithoutSkill
      <3> HIDE DEF left
      <3>4. QED
        BY <1>3, <3>2, <3>3 DEF Filed
    <2>3. inp!ClearSlash(text)
      BY <1>5 DEF inp!SkillLine
    <2>4. QED
      BY <1>2, <1>3, <2>1, <2>2, <2>3
  <1>6. CASE inp!NewLine(text)
    <2>1. UNCHANGED files /\ text # <<"/", "quit">>
      BY <1>6 DEF inp!NewLine, inp!Slash
    <2>2. CASE inp!ClearSlash(text)
      BY <1>2, <1>3, <2>1, <2>2
    <2>3. CASE inp!Commit(text) /\ UNCHANGED line
      <3>1. hist' = inp!Committed(text) /\ place' = -1 /\ scratch' = <<>>
        BY <2>1, <2>3 DEF inp!Commit, inp!NotBrowsing, inp!Slash
      <3>2. hist' \in Seq(Entries)
        BY <1>1, <3>1, CommittedKeeps DEF LineInv, LineTypes
      <3>3. place' \in -1 .. Len(hist') - 1 /\ <<>> \in Lines
        BY <3>1, <3>2 DEF Lines
      <3>4. QED
        BY <2>1, <2>3, <3>1, <3>2, <3>3 DEF LineInv, LineTypes, inp!Browsing, inp!NotBrowsing
    <2>4. QED
      BY <1>6, <2>2, <2>3 DEF inp!NewLine
  <1>7. CASE inp!QuitLine(text) \/ inp!UnknownLine(text)
    BY <1>2, <1>3, <1>7 DEF inp!QuitLine, inp!UnknownLine
  <1>8. QED
    BY <1>4, <1>5, <1>6, <1>7 DEF inp!RunSlash, text

\* A line that is sent is recorded; while submitted lines are recalled it is
\* never "/quit", which would be a command.
LEMMA SendKeeps ==
  ASSUME LineInv, inp!SendChat
  PROVE  LineInv'
  <1> DEFINE text == inp!Trim(line)
  <1>1. text \in Entries /\ line \in Lines /\ files' \in Filed
    <2>1. line \in Lines /\ text # <<>> /\ files' \in Filed
      BY DEF LineInv, LineTypes, inp!SendChat
    <2>2. QED
      BY <2>1, TrimKeeps
  <1> HIDE DEF text
  <1>2. inp!Commit(text) /\ line' = <<>>
    BY DEF inp!SendChat, text
  <1>3. CASE text # <<"/", "quit">>
    <2>1. hist' = inp!Committed(text) /\ place' = -1 /\ scratch' = <<>>
      BY <1>2, <1>3 DEF inp!Commit, inp!NotBrowsing, inp!Slash
    <2>2. QED
      BY <1>1, <1>2, <2>1, Entered
  <1>4. CASE text = <<"/", "quit">>
    <2>1. UNCHANGED <<place, scratch>> /\ hist' = hist
      BY <1>2, <1>4 DEF inp!Commit, inp!Committed, inp!Slash
    <2>2. ~inp!Browsing
      <3>1. SUFFICES ASSUME inp!Browsing PROVE FALSE
        OBVIOUS
      <3>2. line \notin Completions
        BY CompletionsAreLines DEF inp!SendChat, inp!SlashLine, inp!Several, inp!IsSlash, inp!Slash
      <3>3. line = hist[place + 1] /\ hist[place + 1] \in Entries
        <4>1. hist \in Seq(Entries) /\ place \in -1 .. Len(hist) - 1 /\ place # -1
          BY <3>1 DEF LineInv, LineTypes, inp!Browsing, inp!NotBrowsing
        <4>2. place + 1 \in DOMAIN hist
          BY <4>1
        <4>3. QED
          BY <3>1, <3>2, <4>1, <4>2 DEF LineInv
      <3>4. line = <<"/", "quit">>
        BY <1>1, <1>4, <3>3, TrimKeeps DEF text
      <3>5. inp!Range(line) = {"/", "quit"} /\ line # <<>> /\ line[1] = "/"
        <4>1. DOMAIN line = {1, 2} /\ line[1] = "/" /\ line[2] = "quit" /\ line # <<>>
          BY <3>4
        <4>2. QED
          BY <4>1 DEF inp!Range
      <3>6. inp!SlashLine
        BY <3>5 DEF inp!SlashLine, inp!Several, inp!IsSlash, inp!Slash
      <3>7. QED
        BY <3>6 DEF inp!SendChat
    <2>3. <<>> \in Lines
      BY DEF Lines
    <2>4. QED
      BY <1>1, <1>2, <2>1, <2>2, <2>3 DEF LineInv, LineTypes, inp!Browsing
  <1>5. QED
    BY <1>3, <1>4

\* Up and Down put the entry before or after on the line, and at last what was
\* typed before.
LEMMA BrowseKeeps ==
  ASSUME LineInv, inp!Browse
  PROVE  LineInv'
  <1>1. /\ hist' = hist /\ files' = files /\ hist \in Seq(Entries) /\ hist # <<>>
        /\ place \in -1 .. Len(hist) - 1 /\ files \in Filed /\ line \in Lines /\ scratch \in Lines
    BY DEF LineInv, LineTypes, inp!Browse, inp!MayBrowse
  <1>2. Len(hist) \in Nat \ {0} /\ DOMAIN hist = 1 .. Len(hist)
    BY <1>1
  <1>3. ASSUME NEW i \in 0 .. Len(hist) - 1, inp!Recall(i), scratch' \in Lines
        PROVE  LineInv'
    <2>1. place' = i /\ line' = hist[i + 1] /\ i + 1 \in DOMAIN hist
      BY <1>2, <1>3 DEF inp!Recall
    <2>2. line' \in Entries
      BY <1>1, <2>1
    <2>3. line' \in Lines
      BY <2>2 DEF Entries
    <2>4. place' \in -1 .. Len(hist') - 1 /\ line' = hist'[place' + 1]
      BY <1>1, <1>2, <2>1
    <2>5. QED
      BY <1>1, <1>3, <2>3, <2>4 DEF LineInv, LineTypes
  <1>4. CASE place # 0 /\ inp!Older
    <2>1. CASE inp!Browsing
      <3>1. place - 1 \in 0 .. Len(hist) - 1
        BY <1>1, <1>2, <1>4, <2>1 DEF inp!Browsing, inp!NotBrowsing
      <3>2. QED
        BY <1>1, <1>3, <1>4, <2>1, <3>1 DEF inp!Older
    <2>2. CASE ~inp!Browsing
      <3>1. Len(hist) - 1 \in 0 .. Len(hist) - 1
        BY <1>2
      <3>2. QED
        BY <1>1, <1>3, <1>4, <2>2, <3>1 DEF inp!Older
    <2>3. QED
      BY <2>1, <2>2
  <1>5. CASE inp!Browsing /\ inp!Newer
    <2>1. CASE place < Len(hist) - 1 /\ inp!Recall(place + 1) /\ UNCHANGED scratch
      <3>1. place + 1 \in 0 .. Len(hist) - 1
        BY <1>1, <1>2, <2>1
      <3>2. QED
        BY <1>1, <1>3, <2>1, <3>1
    <2>2. CASE place' = inp!NotBrowsing /\ line' = scratch /\ scratch' = <<>>
      <3>1. place' \in -1 .. Len(hist') - 1 /\ <<>> \in Lines
        BY <1>1, <1>2, <2>2 DEF inp!NotBrowsing, Lines
      <3>2. QED
        BY <1>1, <2>2, <3>1 DEF LineInv, LineTypes, inp!Browsing
    <2>3. QED
      BY <1>5, <2>1, <2>2 DEF inp!Newer
  <1>6. QED
    BY <1>4, <1>5 DEF inp!Browse

\* InputLine: while submitted lines are recalled the line is the entry it stands
\* for, or a completion, which ends with a blank (handleInputHistoryNav,
\* withInputHistoryCommitted, the fill of update_input.go): a command that is run
\* or a line that is sent ends the recalling, and what is filled in is a slash
\* line, which "/quit", the only line that is not recorded, would be as well.
THEOREM RecalledCorrect == inp!Spec => []inp!RecalledLineIsEntry
  <1>1. inp!Init => LineInv
    <2>1. SUFFICES ASSUME inp!Init PROVE LineInv
      OBVIOUS
    <2>2. files \in Filed /\ line = <<>> /\ scratch = <<>> /\ hist = <<>> /\ place = -1
      BY <2>1, LinesAssumption DEF inp!Init, inp!NotBrowsing
    <2>3. <<>> \in Lines /\ <<>> \in Seq(Entries) /\ Len(<<>>) = 0
      BY DEF Lines
    <2>4. place \in -1 .. Len(hist) - 1
      BY <2>2, <2>3
    <2>5. QED
      BY <2>2, <2>3, <2>4 DEF LineInv, LineTypes, inp!Browsing, inp!NotBrowsing
  <1>2. LineInv /\ [inp!Next]_(inp!vars) => LineInv'
    <2>1. SUFFICES ASSUME LineInv, [inp!Next]_(inp!vars) PROVE LineInv'
      OBVIOUS
    <2>2. ASSUME UNCHANGED <<line, hist, place, scratch>>, files' \in Filed PROVE LineInv'
      BY <2>1, <2>2 DEF LineInv, LineTypes, inp!Browsing
    <2>3. files \in Filed
      BY <2>1 DEF LineInv, LineTypes
    <2>4. CASE inp!EnterOrTabFills
      <3>1. inp!FillsIn /\ line' = inp!ChosenToInputValue(inp!Highlighted)
            /\ UNCHANGED <<hist, place, scratch, files>>
        BY <2>4 DEF inp!EnterOrTabFills, inp!Fill, inp!recall
      <3>2. line' \in Completions
        BY <2>1, <3>1, FillFits DEF LineInv, LineTypes
      <3>3. line' \in Lines
        BY <3>2, CompletionsAreLines
      <3>4. QED
        BY <2>1, <3>1, <3>2, <3>3 DEF LineInv, LineTypes
    <2>5. CASE inp!Esc
      <3>1. files' = files
        BY <2>5 DEF inp!Esc
      <3>2. CASE line' = <<>> /\ place' = inp!NotBrowsing /\ scratch' = <<>> /\ UNCHANGED hist
        <4>1. <<>> \in Lines /\ place' \in -1 .. Len(hist') - 1
          BY <2>1, <3>2 DEF Lines, LineInv, LineTypes, inp!NotBrowsing
        <4>2. QED
          BY <2>1, <3>1, <3>2, <4>1 DEF LineInv, LineTypes, inp!Browsing
      <3>3. CASE UNCHANGED <<line, hist, place, scratch>>
        BY <2>2, <2>3, <3>1, <3>3
      <3>4. QED
        BY <2>5, <3>2, <3>3 DEF inp!Esc, inp!recall
    <2>6. CASE inp!Type
      <3>1. line' \in Lines /\ place' = -1 /\ scratch' \in {<<>>, scratch} /\ UNCHANGED <<hist, files>>
        BY <2>6, LinesAssumption DEF inp!Type, inp!NotBrowsing, Lines
      <3>2. <<>> \in Lines /\ place' \in -1 .. Len(hist') - 1
        BY <2>1, <3>1 DEF Lines, LineInv, LineTypes
      <3>3. QED
        BY <2>1, <3>1, <3>2 DEF LineInv, LineTypes, inp!Browsing, inp!NotBrowsing
    <2>7. CASE inp!Highlight \/ inp!DialogComes \/ inp!TurnEnds \/ UNCHANGED inp!vars
      <3>1. UNCHANGED <<line, hist, place, scratch, files>>
        BY <2>7 DEF inp!Highlight, inp!DialogComes, inp!TurnEnds, inp!recall, inp!vars
      <3>2. QED
        BY <2>2, <2>3, <3>1
    <2>8. CASE inp!FilesChange
      <3>1. UNCHANGED <<line, hist, place, scratch>> /\ files' \in Filed
        BY <2>8, LinesAssumption DEF inp!FilesChange, inp!recall
      <3>2. QED
        BY <2>2, <3>1
    <2>9. QED
      BY <2>1, <2>4, <2>5, <2>6, <2>7, <2>8, RunKeeps, SendKeeps, BrowseKeeps DEF inp!Next, inp!Keys
  <1>3. LineInv => inp!RecalledLineIsEntry
    BY DEF LineInv, Completions, inp!RecalledLineIsEntry, inp!Last, inp!Blank
  <1>4. QED
    BY <1>1, <1>2, <1>3, PTL DEF inp!Spec
=============================================================================
