-------------------------------- MODULE Parts --------------------------------
(***************************************************************************)
(* The parts that share no state with the turn or with one another: the    *)
(* session files, the memory of a host, the skills, the dialogs about      *)
(* skills, the matcher of the allow list.  What they promise is stated     *)
(* here once, for the instance TLC checks and for the proofs.              *)
(***************************************************************************)
EXTENDS CLIPolicy, ListLoop, FiniteSets

CONSTANTS
  Files, MemoryHosts, NoHost, NoRequest, QueueCap,
  MaxSessions, MaxChats, MaxRecords,                                 \* Sessions
  Probes, Patchers, Commands, Important, Notes, MaxNotes, MaxJobs,   \* HostMemory
  SkillNames, MaxCommits, MaxUses,                                   \* SkillStore
  Texts, Hosted, RecordedSources, TypedFields, MaxAsks,              \* SkillDialog
  Pieces, TypedLines, Setups, MaxHistory                             \* InputLine

\* There is a session file to begin with, and room for a request.
ASSUME SessionsAssumption == Files # {} /\ QueueCap \in Nat \ {0} /\ MaxChats \in Nat

\* A probe looks for known commands, and there are finitely many notes.
ASSUME MemoryAssumption ==
  Important \subseteq Commands /\ IsFiniteSet(Notes) /\ MaxNotes \in Nat

\* A repository that skills come from has a commit.
ASSUME SkillsAssumption == MaxCommits \in Nat \ {0}

\* Sources are recorded and fields are typed as texts, and a git server answers
\* with lists of texts.
ASSUME DialogAssumption ==
  /\ {<<>>, <<"main">>, <<"master">>} \subseteq Texts
  /\ \A url \in DOMAIN Hosted : Hosted[url] \in Seq([ref : Texts, paths : Seq(Texts)])
  /\ RecordedSources \subseteq [url : Texts, ref : Texts]
  /\ TypedFields \in [0 .. 3 -> SUBSET Texts]

OneLine == Seq(Pieces \ {"nl"})
Filed == [saved : Seq([user : OneLine, host : OneLine, name : OneLine]),
          ssh : Seq([alias : OneLine, host : OneLine, user : OneLine]), skills : Seq(OneLine)]

\* Texts are made of pieces, those of the words of the rows and of their small
\* letters among them; the names in the files have no line break.
ASSUME LinesAssumption ==
  /\ {"nl", " ", "/", "@", "none", "new", "quit", "acc", "ess", "skill", "ew", "ocal", "ffline",
      "emove", "pdate", "N", "L", "O", "R", "U", "n", "l", "o", "r", "u"} \subseteq Pieces
  /\ TypedLines \subseteq Seq(Pieces) /\ Setups \subseteq Filed /\ MaxHistory \in Nat

VARIABLES
  part, input,      \* what a behaviour is of, and the input of a part without a state
  current, fileOf, handles, log, runner, stage, writer, given, moved, chats,
  records, target, queue, pending, timer, unread,
  mem, at, copy, base, jobs, blind, overlapped, kept,
  head, places, dir, fresh, backups, sources, torn, job, uses, installed, slipped,
  overlay, add, update, asks, calm,
  line, suggest, hist, place, scratch, waiting, dialog, files, filled, asked

ses == INSTANCE Sessions
hm == INSTANCE HostMemory
skl == INSTANCE SkillStore
dlg == INSTANCE SkillDialog WITH Typed <- TypedFields, Recorded <- RecordedSources
inp == INSTANCE InputLine WITH Typed <- TypedLines

-----------------------------------------------------------------------------
\* Sessions: what a turn records before the user changes the session stands in
\* the file of the session it started in.
TurnInOneFile == ses!TurnInOneFile

\* Sessions: the newest request to read a session into the memory is never the
\* one that is dropped.
NewestIsKept == ses!NewestIsKept

\* HostMemory: a command is available or missing, never both.
AvailableOrMissing == hm!AvailableOrMissing

\* HostMemory: notes leave the file only for want of room.
NotesStay == hm!NotesStay

\* SkillStore: no crash or failure loses a skill the user did not remove.
SkillSurvives == skl!SkillSurvives

\* SkillStore: the manifest names the commit the files were copied from.
SourceMatchesFiles == skl!SourceMatchesFiles

\* SkillDialog: the lists and the commit the dialogs show are of what the form
\* says.
WhatIsShownFits == dlg!WhatIsShownFits

\* InputLine: what the user sees is what Enter takes.
SeenIsEntered == inp!SeenIsEntered

\* CLIPolicy: the matcher accepts what the documented rule reads.
MatchesAsDocumented == part = "rule" => AcceptsAsRead(input.pol, input.args)
=============================================================================
