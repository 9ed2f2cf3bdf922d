----------------------------- MODULE SkillDialog -----------------------------
(***************************************************************************)
(* The dialogs that add and update a skill (skill/overlay_*.go): a form    *)
(* whose pick-lists are filled by questions to a git server that run in    *)
(* the background, answer in any order, and whose answers do not say which *)
(* question they are for.  Another dialog may open over them by itself.    *)
(*                                                                         *)
(* Texts are sequences, so that one may begin with another.  What the      *)
(* installation and the update do to the files is in SkillStore.           *)
(***************************************************************************)
EXTENDS ListLoop, SequencesExt

CONSTANTS
  Hosted,      \* url -> its branches and tags, sorted: [ref, paths]
  Recorded,    \* the source recorded for each skill that may be updated: [url, ref]
  Typed,       \* field -> the texts typed into it
  MaxAsks      \* questions in flight

VARIABLES overlay, add, update, asks,
  calm         \* history: per field, no answer was overtaken or dropped

vars == <<overlay, add, update, asks, calm>>

Fields == 0 .. 3       \* url, ref, path, name
Listed == {1, 2}       \* the fields with a pick-list
Empty == <<>>
NoList == [all |-> <<>>, shown |-> <<>>, at |-> 0]

RefsOf(url) ==
  IF url \in DOMAIN Hosted THEN [i \in DOMAIN Hosted[url] |-> Hosted[url][i].ref] ELSE <<>>

\* Without a ref, the paths of the default branch.
PathsOf(url, ref) ==
  IF url \notin DOMAIN Hosted THEN <<>>
  ELSE LET places == {i \in DOMAIN Hosted[url] : ref \in {Hosted[url][i].ref, Empty}}
       IN  IF places = {} THEN <<>> ELSE Hosted[url][Min(places)].paths

Closed == [active |-> FALSE, text |-> [f \in Fields |-> Empty], field |-> 0,
           pick |-> [f \in Listed |-> NoList]]
NoUpdate == [active |-> FALSE, refs |-> <<>>, at |-> 0, latest |-> Empty, url |-> Empty, missed |-> FALSE]

Init ==
  /\ overlay = "" /\ add = Closed /\ update = NoUpdate
  /\ asks = <<>> /\ calm = [f \in Listed |-> TRUE]

-----------------------------------------------------------------------------
\* filterByPrefix: the entries that begin with a text, in their order.
FilterByPrefix(entries, text) ==
  EntriesAt(entries, {i \in DOMAIN entries : IsPrefix(text, entries[i])})

\* updateAddSkillPathCandidates.
Refilter(list, text) == [list EXCEPT !.shown = FilterByPrefix(list.all, text), !.at = 0]

InFlight(f) == {i \in DOMAIN asks : asks[i].field = f}

\* What the question is about; the answer carries only its result.
Question(f) ==
  [field |-> f, url |-> add.text[0], ref |-> IF f = 1 THEN Empty ELSE add.text[1]]

\* The lists are asked for once.
AsksOnce(f) ==
  IF f \in Listed /\ add.text[0] # Empty /\ add.pick[f].all = <<>>
  THEN /\ Len(asks) < MaxAsks /\ asks' = Append(asks, Question(f))
       /\ calm' = [calm EXCEPT ![f] = InFlight(f) = {}]
  ELSE UNCHANGED <<asks, calm>>

Asks(f) ==
  IF f \in Listed /\ add.text[0] # Empty
  THEN /\ Len(asks) < MaxAsks /\ asks' = Append(asks, Question(f))
       /\ calm' = [calm EXCEPT ![f] = InFlight(f) = {}]
  ELSE UNCHANGED <<asks, calm>>

\* Entering the ref field empties what is shown; entering the path field shows
\* the paths it has until the answer comes.
Arrived(f) ==
  [add EXCEPT !.field = f,
     !.pick = CASE f = 1 -> [add.pick EXCEPT ![1].shown = <<>>, ![1].at = 0]
                [] f = 2 -> [add.pick EXCEPT ![2] = Refilter(add.pick[2], add.text[2])]
                [] OTHER -> add.pick]

EnterField(f) == add' = Arrived(f) /\ Asks(f) /\ UNCHANGED <<overlay, update>>

Adding == overlay = "skill" /\ add.active
Picking == add.field \in Listed /\ add.pick[add.field].shown # <<>>
Picked == LET list == add.pick[add.field] IN list.shown[list.at + 1]

\* Tab and Enter take the highlighted entry; Enter on a path names the skill.
Take ==
  /\ Adding /\ Picking
  /\ LET f == add.field
         filled == [add EXCEPT !.text[f] = Picked, !.pick[f].shown = <<>>, !.pick[f].at = 0]
     IN  \/ add' = filled
         \/ add' = IF f = 2 /\ add.text[3] = Empty THEN [filled EXCEPT !.text[3] = Picked] ELSE filled
  /\ UNCHANGED <<overlay, update, asks, calm>>

Choose ==
  /\ Adding /\ Picking
  /\ LET list == add.pick[add.field]
     IN  \E step \in {1, Len(list.shown) - 1} :
           add' = [add EXCEPT !.pick[add.field].at = (@ + step) % Len(list.shown)]
  /\ UNCHANGED <<overlay, update, asks, calm>>

\* Tab, Up, Down, and Enter before the last field.
Walk == Adding /\ ~Picking /\ \E step \in {1, 3} : EnterField((add.field + step) % 4)

Type ==
  /\ Adding
  /\ \E t \in Typed[add.field] \ {add.text[add.field]} :
       LET f == add.field
           typed == [add EXCEPT !.text[f] = t]
           refiltered == IF f \in Listed THEN [typed EXCEPT !.pick[f] = Refilter(@, t)] ELSE typed
       IN  add' = IF f = 2 /\ add.text[3] = Empty THEN [refiltered EXCEPT !.text[3] = t] ELSE refiltered
  /\ UNCHANGED <<overlay, update, asks, calm>>

\* firstIncompleteAddSkillField, InstallFromGit.
Submit ==
  /\ Adding /\ add.field = 3
  /\ LET missing == {f \in {0, 3} : add.text[f] = Empty}
     IN  IF missing # {}
         THEN add' = [add EXCEPT !.field = Min(missing)] /\ UNCHANGED overlay
         ELSE \/ UNCHANGED <<add, overlay>>           \* refused: it exists, or git failed
              \/ add' = [add EXCEPT !.active = FALSE] /\ overlay' = ""
  /\ UNCHANGED <<update, asks, calm>>

-----------------------------------------------------------------------------
\* handleSkillOverlayEvent: a failed question answers with nothing; without
\* the dialog, or with another over it, the answer is dropped.
Answer(i) ==
  LET q == asks[i]
      found == IF q.field = 1 THEN RefsOf(q.url) ELSE PathsOf(q.url, q.ref)
  IN  /\ asks' = RemoveAt(asks, i)
      /\ \/ /\ Adding
            /\ \E all \in {found, <<>>} :
                 add' = [add EXCEPT !.pick[q.field] =
                           Refilter([@ EXCEPT !.all = all], add.text[q.field])]
            /\ UNCHANGED calm
         \/ ~Adding /\ UNCHANGED add /\ calm' = [calm EXCEPT ![q.field] = FALSE]
      /\ UNCHANGED <<overlay, update>>

-----------------------------------------------------------------------------
\* A slash line opens the dialogs, also while another one is open.
OpenAdd ==
  /\ overlay' = "skill" /\ add' = [Closed EXCEPT !.active = TRUE] /\ update' = NoUpdate
  /\ UNCHANGED <<asks, calm>>

\* openUpdateSkillOverlay: without an answer, the recorded ref or two usual
\* names; a lookup that fails shows no commit.
OpenUpdate ==
  /\ overlay' = "skill" /\ add' = Closed
  /\ \E source \in Recorded :
       \E answer \in {RefsOf(source.url), <<>>}, found \in BOOLEAN :
         LET refs == IF answer # <<>> THEN answer
                     ELSE IF source.ref # Empty THEN <<source.ref>> ELSE <<<<"main">>, <<"master">>>>
             wanted == IF source.ref = Empty THEN refs[1] ELSE source.ref
             places == {i \in DOMAIN refs : refs[i] = wanted}
         IN  update' = IF source.url = Empty THEN [NoUpdate EXCEPT !.active = TRUE, !.missed = TRUE]
                       ELSE [active |-> TRUE, refs |-> refs, url |-> source.url,
                             at |-> IF places = {} THEN 0 ELSE Min(places) - 1,
                             latest |-> IF found THEN wanted ELSE Empty,
                             missed |-> ~found \/ places = {}]
  /\ UNCHANGED <<asks, calm>>

Updating == overlay = "skill" /\ ~add.active /\ update.active

\* A failed lookup leaves the commit of the ref before.
Move(step) ==
  LET n == Len(update.refs)
      next == (update.at + step) % n
  IN  \E found \in BOOLEAN :
        update' = [update EXCEPT !.at = next,
                     !.latest = IF found THEN update.refs[next + 1] ELSE @,
                     !.missed = ~found]

ChooseRef ==
  /\ Updating /\ update.refs # <<>>
  /\ \E step \in {1, Len(update.refs) - 1} : Move(step)
  /\ UNCHANGED <<overlay, add, asks, calm>>

\* skillstore.Update fails, or the dialog closes.
RunUpdate ==
  /\ Updating /\ update.refs # <<>>
  /\ overlay' = "" /\ update' = [update EXCEPT !.active = FALSE]
  /\ UNCHANGED <<add, asks, calm>>

\* Esc forgets both dialogs only when it closes theirs; a prompt of the
\* connection takes their place and leaves what they hold.
Esc ==
  /\ overlay # "" /\ overlay' = ""
  /\ IF overlay = "skill" THEN add' = Closed /\ update' = NoUpdate ELSE UNCHANGED <<add, update>>
  /\ UNCHANGED <<asks, calm>>

OtherOpens == overlay # "other" /\ overlay' = "other" /\ UNCHANGED <<add, update, asks, calm>>

Next ==
  \/ OpenAdd \/ OpenUpdate \/ Esc \/ OtherOpens
  \/ Walk \/ Choose \/ Take \/ Type \/ Submit
  \/ ChooseRef \/ RunUpdate
  \/ \E i \in DOMAIN asks : Answer(i)

Spec == Init /\ [][Next]_vars

-----------------------------------------------------------------------------
\* The lists the form offers belong to the repository and the ref that stand
\* in it, once their last question was answered and no other question was in
\* flight with it; the highlight is on an entry; and the commit the update
\* dialog shows is of the ref it highlights, unless its lookup failed
\* (overlay_add_skill_key.go, overlay_event.go, overlay_update_skill_key.go).
ListFits(f, found) == \A i \in DOMAIN add.pick[f].shown :
  add.pick[f].shown[i] \in Range(found) /\ IsPrefix(add.text[f], add.pick[f].shown[i])

Settled(f) == Adding /\ add.field = f /\ calm[f] /\ InFlight(f) = {} /\ add.text[0] # Empty

WhatIsShownFits ==
  /\ Settled(1) => ListFits(1, RefsOf(add.text[0]))
  /\ Settled(2) => ListFits(2, PathsOf(add.text[0], add.text[1]))
  /\ Adding /\ Picking => add.pick[add.field].at < Len(add.pick[add.field].shown)
  /\ Updating /\ ~update.missed => update.latest = update.refs[update.at + 1]
=============================================================================
