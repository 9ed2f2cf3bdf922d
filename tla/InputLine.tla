------------------------------ MODULE InputLine ------------------------------
(***************************************************************************)
(* The line the user types into (ui/update_input.go): recalling submitted  *)
(* lines, the drop-down of slash commands, and what Enter, Tab, Esc, Up    *)
(* and Down do, key by key, while dialogs open by themselves, the model    *)
(* answers, and the files behind the rows change.                          *)
(***************************************************************************)
EXTENDS SlashRows, Integers

CONSTANTS
  Typed,       \* the lines the user types or edits a line to
  Setups,      \* what remotes.yaml, ~/.ssh/config and the skill directory hold
  MaxHistory   \* entries kept (1000 in the code)

VARIABLES
  line,        \* Input
  suggest,     \* slashSuggestIndex
  hist, place, scratch,   \* inputHistory, inputHistIndex, inputHistScratch
  waiting,     \* WaitingForAI: the input is locked
  dialog,      \* an overlay is open
  files,
  filled,      \* history: the row that was filled in and is still the line
  asked        \* history: the host the line just entered asked for, and the one picked

recall == <<hist, place, scratch>>
vars == <<line, suggest, recall, waiting, dialog, files, filled, asked>>

NotBrowsing == -1
Browsing == place # NotBrowsing
Several == "nl" \in Range(line)
SlashLine == IsSlash(line) /\ ~Several

NothingAsked == [picked |-> <<>>, reached |-> <<>>]
NothingIsAsked == asked' = NothingAsked

InputTypeOK ==
  /\ \A i \in DOMAIN hist : hist[i] = Trim(hist[i]) /\ hist[i] # <<>>
  /\ Len(hist) <= MaxHistory /\ place \in -1 .. Len(hist) - 1
  /\ suggest \in Nat /\ waiting \in BOOLEAN /\ dialog \in BOOLEAN

Init ==
  /\ line = <<>> /\ suggest = 0
  /\ hist = <<>> /\ place = NotBrowsing /\ scratch = <<>>
  /\ waiting = FALSE /\ dialog = FALSE
  /\ files \in Setups
  /\ filled = NoRow /\ asked = NothingAsked

-----------------------------------------------------------------------------
Rows(text) == Options(text, files)
Highlighted == SelectedByVisibleIndex(line, Rows(line), suggest)

\* withInputHistoryCommitted: /quit is not kept, and does not end the browsing.
Committed(text) == IF text = <<Slash, "quit">> THEN hist
                   ELSE LET h == Append(hist, text)
                     IN  IF Len(h) > MaxHistory THEN Tail(h) ELSE h

Commit(text) ==
  /\ hist' = Committed(text)
  /\ IF text = <<Slash, "quit">> THEN UNCHANGED <<place, scratch>>
     ELSE place' = NotBrowsing /\ scratch' = <<>>

\* clearSlashInput, after withInputHistoryCommitted.
ClearSlash(text) ==
  /\ line' = <<>> /\ suggest' = 0 /\ filled' = NoRow
  /\ hist' = Committed(text) /\ place' = NotBrowsing /\ scratch' = <<>>

FillsIn == SlashLine /\ ShouldFillOnly(Highlighted, Trim(line))

Fill ==
  /\ FillsIn
  /\ line' = ChosenToInputValue(Highlighted)
  /\ suggest' = IndexOfRow(line', Rows(line'), Highlighted)
  /\ filled' = Highlighted
  /\ UNCHANGED <<recall, waiting, dialog, files>> /\ NothingIsAsked

-----------------------------------------------------------------------------
\* What the slash executor makes of a line it was given with its row.  A
\* record that shares a name with another cannot be told by that name.
Names(r) == {r.host, TargetOf(r)}
Alone(target) ==
  LET hosts == Range(files.saved) \cup Range(files.ssh)
  IN  \A h, s \in Range(files.ssh) :
        /\ TargetOf(h) = target /\ h # s => h.host # s.host /\ s.alias # h.host
        /\ \A r \in Range(files.saved) : h.alias \notin Names(r) /\ r.host # s.alias

ConnectTo(text) ==
  LET named == AccessText(text, Highlighted)
      sure == filled # NoRow /\ filled.to # <<>> /\ Alone(filled.to)
  IN  /\ dialog' = TRUE
      /\ asked' = IF sure THEN [picked |-> filled.to,
                                reached |-> ResolveAccessRemoteTarget(files, After(named))]
                  ELSE NothingAsked
      /\ UNCHANGED <<waiting, files>>

AccessLine(text) ==
  LET rest == After(text)
  IN  /\ Word(text) = <<Slash>> \o access /\ rest # <<>>
      /\ CASE rest \in {LocalWord, OfflineWord} -> UNCHANGED <<waiting, dialog, files>> /\ NothingIsAsked
           [] rest = NewWord -> dialog' = TRUE /\ UNCHANGED <<waiting, files>> /\ NothingIsAsked
           [] OTHER -> ConnectTo(text)
      /\ ClearSlash(text)

WithoutSkill(name) ==
  LET names == files.skills
  IN  [files EXCEPT !.skills = EntriesAt(names, {i \in DOMAIN names : names[i] # name})]

SkillLine(text) ==
  LET rest == After(text)
      named == After(rest) # <<>>
  IN  /\ Word(text) = <<Slash>> \o skill /\ rest # <<>>
      /\ CASE rest = NewWord \/ (Word(rest) = UpdateWord /\ named) ->
                dialog' = TRUE /\ UNCHANGED <<waiting, files>> /\ NothingIsAsked
           [] Word(rest) = RemoveWord /\ named ->
                files' = WithoutSkill(After(rest)) /\ UNCHANGED <<waiting, dialog>> /\ NothingIsAsked
           [] OTHER ->
                /\ \/ waiting' = Installed(files, Word(rest))
                   \/ waiting' = FALSE       \* refused, or offline
                /\ UNCHANGED <<dialog, files>> /\ NothingIsAsked
      /\ ClearSlash(text)

NewLine(text) ==
  /\ text = <<Slash, "new">>
  /\ \/ ClearSlash(text)
     \/ Commit(text) /\ UNCHANGED <<line, suggest, filled>>      \* refused: the line stays
  /\ UNCHANGED <<waiting, dialog, files>> /\ NothingIsAsked

\* The program ends; the next one starts with the recorded lines.
QuitLine(text) ==
  /\ text = <<Slash, "quit">>
  /\ ClearSlash(text) /\ waiting' = FALSE /\ dialog' = FALSE
  /\ UNCHANGED files /\ NothingIsAsked

UnknownLine(text) ==
  /\ Low(Word(text)) \notin {<<Slash>> \o access, <<Slash>> \o skill} \/ After(text) = <<>>
  /\ text \notin {<<Slash, "new">>, <<Slash, "quit">>}
  /\ ClearSlash(text)
  /\ UNCHANGED <<waiting, dialog, files>> /\ NothingIsAsked

-----------------------------------------------------------------------------
\* Enter on a slash line fills or runs it, also while a dialog is open.
RunSlash ==
  /\ ~waiting /\ SlashLine /\ ~FillsIn
  /\ LET text == Trim(line)
     IN  AccessLine(text) \/ SkillLine(text) \/ NewLine(text) \/ QuitLine(text) \/ UnknownLine(text)

EnterOrTabFills == ~waiting /\ Fill

SendChat ==
  /\ ~waiting /\ ~dialog /\ ~SlashLine /\ Trim(line) # <<>>
  /\ line' = <<>> /\ suggest' = 0 /\ filled' = NoRow
  /\ Commit(Trim(line))
  /\ waiting' \in BOOLEAN                 \* FALSE: the command was refused
  /\ UNCHANGED <<dialog, files>> /\ NothingIsAsked

\* ResolveEscAction: the dialog, then a line that starts with "/", then the turn.
Esc ==
  /\ \/ /\ dialog /\ dialog' = FALSE
        /\ UNCHANGED <<line, suggest, recall, waiting, filled>>
     \/ /\ ~dialog /\ IsSlash(line)
        /\ line' = <<>> /\ suggest' = 0 /\ place' = NotBrowsing /\ scratch' = <<>> /\ filled' = NoRow
        /\ UNCHANGED <<hist, waiting, dialog>>
     \/ /\ ~dialog /\ ~IsSlash(line) /\ waiting /\ waiting' = FALSE
        /\ UNCHANGED <<line, suggest, recall, dialog, filled>>
  /\ UNCHANGED files /\ NothingIsAsked

\* handleInputHistoryNav.
MayBrowse == hist # <<>> /\ (Browsing \/ (~Several /\ ~IsSlash(line)))
Recall(i) == place' = i /\ line' = hist[i + 1]

Older ==
  /\ IF Browsing THEN UNCHANGED scratch /\ Recall(place - 1)
     ELSE scratch' = line /\ Recall(Len(hist) - 1)

Newer ==
  \/ place < Len(hist) - 1 /\ Recall(place + 1) /\ UNCHANGED scratch
  \/ place = Len(hist) - 1 /\ place' = NotBrowsing /\ line' = scratch /\ scratch' = <<>>

Browse ==
  /\ ~waiting /\ ~dialog /\ MayBrowse
  /\ (place # 0 /\ Older) \/ (Browsing /\ Newer)
  /\ suggest' = 0 /\ filled' = NoRow
  /\ UNCHANGED <<hist, waiting, dialog, files>> /\ NothingIsAsked

\* handleSlashUpDown.
Highlight ==
  /\ ~waiting /\ ~dialog /\ SlashLine /\ ~Browsing
  /\ LET count == Len(VisibleIndices(line, Rows(line)))
         now == IF suggest < count THEN suggest ELSE 0
     IN  count > 0 /\ suggest' \in {(now + 1) % count, (now - 1 + count) % count}
  /\ filled' = NoRow
  /\ UNCHANGED <<line, recall, waiting, dialog, files>> /\ NothingIsAsked

\* syncSuggestAfterInputChange.
Type ==
  /\ ~waiting /\ ~dialog
  /\ line' \in Typed \ {line}
  /\ suggest' = IF IsSlash(line') THEN 0 ELSE suggest
  /\ place' = NotBrowsing /\ scratch' = (IF Browsing THEN <<>> ELSE scratch) /\ filled' = NoRow
  /\ UNCHANGED <<hist, waiting, dialog, files>> /\ NothingIsAsked

\* Around the line: a prompt of the connection, the end of a turn, and the
\* files, which dialogs and other programs write.
DialogComes == ~dialog /\ dialog' = TRUE /\ UNCHANGED <<line, suggest, recall, waiting, files, filled>> /\ NothingIsAsked
TurnEnds == waiting /\ waiting' = FALSE /\ UNCHANGED <<line, suggest, recall, dialog, files, filled>> /\ NothingIsAsked
FilesChange ==
  /\ files' \in Setups \ {files} /\ filled' = NoRow
  /\ UNCHANGED <<line, suggest, recall, waiting, dialog>> /\ NothingIsAsked

Keys == EnterOrTabFills \/ RunSlash \/ SendChat \/ Esc \/ Browse \/ Highlight \/ Type
Next == Keys \/ DialogComes \/ TurnEnds \/ FilesChange

Spec == Init /\ [][Next]_vars

-----------------------------------------------------------------------------
\* What the user sees is what Enter takes.  A host picked in the drop-down is
\* the host the controller is asked to reach, also when a saved remote and an
\* alias of ssh show the same name (slashSuggestIndexForFilledOption,
\* ExecuteValue, resolveAccessRemoteTarget); and while submitted lines are
\* recalled, the line shows the entry it stands for, or the completion of it
\* (handleInputHistoryNav, withInputHistoryCommitted).
PickedHostIsReached == asked.reached = asked.picked
RecalledLineIsEntry == Browsing => line = hist[place + 1] \/ Last(line) = Blank
SeenIsEntered == PickedHostIsReached /\ RecalledLineIsEntry
=============================================================================
