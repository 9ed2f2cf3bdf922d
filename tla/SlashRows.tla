------------------------------ MODULE SlashRows ------------------------------
(***************************************************************************)
(* The rows of the drop-down under a line that starts with "/", which of   *)
(* them the line lets through (slash/view, remote/slash_options.go,        *)
(* skill/slash_options.go), what Enter makes of the highlighted one        *)
(* (slash/flow), and the host an /access line stands for (exec_remote.go,  *)
(* config/ssh_config.go, config/remotes.go).                               *)
(*                                                                         *)
(* A text is a sequence of pieces, fine enough to tell the texts apart     *)
(* that share a beginning.  The rows of /config, /history and /bash are    *)
(* left out.                                                               *)
(***************************************************************************)
EXTENDS ListLoop, SequencesExt

Blank == " "
Slash == "/"

\* Only the reserved words have capitals.
Low(t) ==
  LET small == [N |-> "n", L |-> "l", O |-> "o", R |-> "r", U |-> "u"]
  IN  [i \in DOMAIN t |-> IF t[i] \in DOMAIN small THEN small[t[i]] ELSE t[i]]

Visibly(t) == {i \in DOMAIN t : t[i] \notin {Blank, "nl"}}
Trim(t) == IF Visibly(t) = {} THEN <<>> ELSE SubSeq(t, Min(Visibly(t)), Max(Visibly(t)))
Blanks(t) == {i \in DOMAIN t : t[i] = Blank}
Word(t) == IF Blanks(t) = {} THEN t ELSE SubSeq(t, 1, Min(Blanks(t)) - 1)
After(t) == IF Blanks(t) = {} THEN <<>> ELSE Trim(SubSeq(t, Min(Blanks(t)) + 1, Len(t)))
IsSlash(t) == t # <<>> /\ t[1] = Slash
Bare(t) == Trim(IF IsSlash(t) THEN Tail(t) ELSE t)
Holds(t, u) == \E i \in 1 .. Len(t) + 1 : IsPrefix(u, SubSeq(t, i, Len(t)))

access == <<"acc", "ess">>
skill == <<"skill">>
NewWord == <<"N", "ew">>
LocalWord == <<"L", "ocal">>
OfflineWord == <<"O", "ffline">>
RemoveWord == <<"R", "emove">>
UpdateWord == <<"U", "pdate">>
AccessWords == <<NewWord, LocalWord, OfflineWord>>
SkillWords == <<NewWord, RemoveWord, UpdateWord>>

AccessPrefix == <<Slash>> \o access \o <<Blank>>
SkillPrefix == <<Slash>> \o skill \o <<Blank>>

\* "to" is no field of the code: the target of the record behind a host's row.
Row(cmd, desc, fill, exec, to) ==
  [cmd |-> cmd, desc |-> desc, fill |-> fill, exec |-> exec, to |-> to]
Plain(cmd) == Row(cmd, <<>>, <<>>, <<>>, <<>>)
NoRow == Plain(<<>>)

-----------------------------------------------------------------------------
\* files.saved: remotes.yaml, [user, host, name];  files.ssh: the explicit
\* aliases of ~/.ssh/config, [alias, host, user];  files.skills: their names.

TargetOf(r) == r.user \o <<"@">> \o r.host
HostOf(t) ==
  IF \E i \in DOMAIN t : t[i] = "@"
  THEN SubSeq(t, (CHOOSE i \in DOMAIN t : t[i] = "@") + 1, Len(t)) ELSE t

\* The first entry for each key.
Firsts(s, keys) ==
  EntriesAt(s, {i \in DOMAIN s : \A j \in 1 .. i - 1 : keys[j] # keys[i]})

SavedRows(files) ==
  LET suffix(r) == Low(r.host)
      kept == Firsts(files.saved, [i \in DOMAIN files.saved |-> suffix(files.saved[i])])
  IN  [i \in DOMAIN kept |->
         Row(AccessPrefix \o suffix(kept[i]), kept[i].name, <<>>, <<>>, TargetOf(kept[i]))]

\* A host that a saved remote shows already is entered by its alias.
SshRows(files) ==
  LET alias(h) == Low(h.alias)
      kept == Firsts(files.ssh, [i \in DOMAIN files.ssh |-> alias(files.ssh[i])])
      hidden(h) == \E i \in DOMAIN files.saved : Low(files.saved[i].host) = Low(h.host)
      shown(h) == AccessPrefix \o Low(h.host)
  IN  [i \in DOMAIN kept |->
         Row(shown(kept[i]), kept[i].alias, shown(kept[i]),
             IF hidden(kept[i]) THEN AccessPrefix \o alias(kept[i]) ELSE <<>>, TargetOf(kept[i]))]

AccessRows(files) ==
  SavedRows(files) \o SshRows(files)
    \o [i \in DOMAIN AccessWords |-> Plain(AccessPrefix \o AccessWords[i])]

ReservedMatch(rest, word) == IsPrefix(Low(rest), Low(word))

ReservedSkillRows(filter) ==
  LET words == EntriesAt(SkillWords, {i \in DOMAIN SkillWords : ReservedMatch(filter, SkillWords[i])})
  IN  [i \in DOMAIN words |-> Plain(SkillPrefix \o words[i])]

InstalledRows(names) ==
  [i \in DOMAIN names |->
     Row(SkillPrefix \o names[i], <<>>, SkillPrefix \o names[i], <<>>, <<>>)]

Installed(files, name) == name \in Range(files.skills)

\* getDelSkillSlashOptions; getUpdateSkillSlashOptions lists the manifest, in
\* the order of a Go map: that makes no difference, see SkillRowShows.
NamedRows(files, word, filter) ==
  LET names == EntriesAt(files.skills, {i \in DOMAIN files.skills : Holds(files.skills[i], Low(filter))})
  IN  IF names = <<>> THEN <<Plain(SkillPrefix \o word)>>
      ELSE [i \in DOMAIN names |-> Plain(SkillPrefix \o word \o <<Blank>> \o names[i])]

ChoiceRows(files, filter) ==
  LET token == Word(filter)
      collides == \E w \in Range(SkillWords) : Low(token) = Low(w) /\ token # w
      Offered(n) == Holds(n, Low(token)) /\ ~(token = NewWord /\ n = Low(NewWord))
      found == EntriesAt(files.skills, {i \in DOMAIN files.skills : Offered(files.skills[i])})
      rows == InstalledRows(found) \o ReservedSkillRows(token)
  IN  IF filter = <<>> THEN InstalledRows(files.skills) \o ReservedSkillRows(<<>>)
      ELSE IF filter = NewWord THEN ReservedSkillRows(NewWord)
      ELSE IF Installed(files, token) /\ ~collides THEN <<>>
      ELSE IF rows = <<>> /\ files.skills = <<>> THEN <<Plain(<<"none">>)>> ELSE rows

SkillRows(files, filter) ==
  LET under(w) == Word(filter) = w
  IN  CASE under(RemoveWord) -> NamedRows(files, RemoveWord, After(filter))
        [] under(UpdateWord) -> NamedRows(files, UpdateWord, After(filter))
        [] OTHER -> ChoiceRows(files, filter)

Roots == <<Plain(<<Slash>> \o access), Plain(<<Slash>> \o skill),
           Plain(<<Slash, "new">>), Plain(<<Slash, "quit">>)>>

\* SlashOptionsForInput: the first provider that knows the command.
Options(line, files) ==
  CASE Low(Word(Bare(line))) = access -> AccessRows(files)
    [] Low(Word(Bare(line))) = skill -> SkillRows(files, After(Bare(line)))
    [] OTHER -> Roots

-----------------------------------------------------------------------------
\* A reserved word in its capitals means the reserved row alone.
HostRowShows(rest, suffix, row) ==
  /\ rest \notin Range(AccessWords)
  /\ \E t \in {suffix, After(row.fill), After(row.exec), row.desc} :
       (t # <<>> \/ rest = <<>>) /\ IsPrefix(Low(rest), Low(t))

AccessRowShows(input, row) ==
  LET suffix == After(row.cmd)
  IN  /\ Low(Word(input)) = access
      /\ IF suffix \in Range(AccessWords) THEN ReservedMatch(After(input), suffix)
         ELSE HostRowShows(After(input), suffix, row)

\* The rows "/skill Remove x" and "/skill Update x" are taken for skills named
\* "Remove x": the typed word "Remove" excludes them, unless there is only one.
SkillRowShows(input, row) ==
  LET suffix == After(row.cmd)
      token == Word(After(input))
  IN  /\ Low(Word(input)) = skill
      /\ IF suffix \in Range(SkillWords) THEN ReservedMatch(After(input), suffix)
         ELSE token \notin Range(SkillWords) /\ IsPrefix(Low(token), Low(suffix))

Shows(input, row) ==
  LET typed == Low(input)
      prefixed == IsPrefix(<<Slash>> \o typed, Low(row.cmd))
  IN  CASE typed = <<>> -> TRUE
        [] IsPrefix(AccessPrefix, row.cmd) /\ IsPrefix(access, typed) -> AccessRowShows(input, row)
        [] IsPrefix(SkillPrefix, row.cmd) /\ IsPrefix(skill, typed) -> SkillRowShows(input, row)
        [] OTHER -> prefixed

VisibleIndices(line, opts) ==
  IF Len(opts) = 1 THEN <<1>>
  ELSE EntriesAt([i \in DOMAIN opts |-> i], {i \in DOMAIN opts : Shows(Bare(line), opts[i])})

SelectedByVisibleIndex(line, opts, index) ==
  LET vis == VisibleIndices(line, opts)
  IN  IF index \in 0 .. Len(vis) - 1 THEN opts[vis[index + 1]] ELSE NoRow

-----------------------------------------------------------------------------
DescMatches(desc, text) ==
  /\ desc # <<>>
  /\ \/ IsPrefix(Low(text), Low(desc))
     \/ /\ Low(Word(Bare(text))) = access /\ After(text) # <<>>
        /\ IsPrefix(Low(After(text)), Low(desc))

ShouldFillOnly(row, text) ==
  LET values == {Low(row.cmd), Low(row.fill), Low(row.exec)} \ {<<>>}
  IN  /\ row # NoRow
      /\ Low(text) \notin values
      /\ (\E v \in values : IsPrefix(Low(text), v)) \/ DescMatches(row.desc, text)

ChosenToInputValue(row) == (IF row.fill # <<>> THEN row.fill ELSE row.cmd) \o <<Blank>>

\* The first row shown, whichever was filled in.
FirstRow(line, opts, row) == 0

\* Where a row stands once it was filled in, among rows of the same command.
IndexOfRow(line, opts, row) ==
  LET vis == VisibleIndices(line, opts)
      same == {i \in DOMAIN vis : opts[vis[i]] = row}
  IN  IF same = {} THEN 0 ELSE Min(same) - 1

-----------------------------------------------------------------------------
\* The highlighted row decides what an /access line that names it stands for.
AccessText(text, row) ==
  IF /\ IsPrefix(AccessPrefix, row.exec)
     /\ Low(text) \in {Low(row.cmd), Low(row.fill), Low(row.exec)}
  THEN row.exec ELSE text

Fold(t, u) == Low(t) = Low(u)
Find(s, P(_)) ==
  LET found == {i \in DOMAIN s : P(s[i])} IN IF found = {} THEN <<>> ELSE <<s[Min(found)]>>

SavedAt(files, input) ==
  Find(files.saved, LAMBDA r : TargetOf(r) = input \/ HostOf(TargetOf(r)) = input)
SshAt(files, input) ==
  Find(files.ssh, LAMBDA h : Fold(h.alias, input) \/ Fold(h.host, input)
                               \/ Fold(TargetOf(h), input) \/ Fold(h.host, HostOf(input)))
SavedAs(files, input) == Find(files.saved, LAMBDA r : r.name = input)

\* Saved remotes by target or host, then the aliases of ssh, then the names of
\* saved remotes, and at last what was typed.
ResolveAccessRemoteTarget(files, input) ==
  LET found == SavedAt(files, input) \o SshAt(files, input) \o SavedAs(files, input)
  IN  IF input = <<>> \/ found = <<>> THEN input ELSE TargetOf(found[1])
=============================================================================
