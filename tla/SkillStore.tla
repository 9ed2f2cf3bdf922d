----------------------------- MODULE SkillStore -----------------------------
(***************************************************************************)
(* The skills on disk and their manifest (skill/store/skillstore.go,       *)
(* skill/git/fetch.go).  Installing, updating and removing run one at a    *)
(* time in the UI; the process can die between any two steps, and then     *)
(* only the disk is left.                                                  *)
(***************************************************************************)
EXTENDS Naturals, Sequences, SequencesExt

CONSTANTS
  SkillNames,
  MaxCommits,  \* bound: commits of the repository
  MaxUses      \* bound: operations of the user

\* The content of a directory: the commit it was copied from, or
Absent == 0
Partial == MaxCommits + 1
Complete(c) == c \in 1 .. MaxCommits

\* Where a repository may keep the skill: its root or a directory below.
Places == {".", "sub"}
Paths == Places \cup {""}      \* "": to be discovered

Source == [path : Places, commit : 1 .. MaxCommits]
NoSources == [s \in {} |-> <<>>]
IsManifest(m) == DOMAIN m \subseteq SkillNames /\ \A s \in DOMAIN m : m[s] \in Source

VARIABLES
  head, places,           \* the repository: newest commit, where SKILL.md is
  dir, fresh, backups,    \* <name>, <name>.new and the <name>.bak-... of a skill
  sources, torn,          \* the manifest; torn: cut off while it was written
  job, uses,
  installed,              \* history: skills that were complete and not removed
  slipped                 \* history: an error or crash kept the record from the disk

repo == <<head, places>>
disk == <<dir, fresh, backups>>
manifest == <<sources, torn>>
vars == <<repo, disk, manifest, job, uses, installed, slipped>>

Job(op, at, name, path, commit, known) ==
  [op |-> op, at |-> at, name |-> name, path |-> path, commit |-> commit, known |-> known]
NoJob == Job("none", "", "", "", 0, NoSources)

StoreTypeOK ==
  /\ head \in 1 .. MaxCommits /\ places \subseteq Places
  /\ dir \in [SkillNames -> 0 .. Partial] /\ fresh \in [SkillNames -> 0 .. Partial]
  /\ \A s \in SkillNames : \A i \in DOMAIN backups[s] : backups[s][i] \in 1 .. Partial
  /\ IsManifest(sources) /\ torn \in BOOLEAN
  /\ job.op \in {"none", "install", "update", "remove"} /\ IsManifest(job.known)
  /\ installed \subseteq SkillNames /\ slipped \subseteq SkillNames

Init ==
  /\ head = 1 /\ places \in SUBSET Places
  /\ dir = [s \in SkillNames |-> Absent] /\ fresh = [s \in SkillNames |-> Absent]
  /\ backups = [s \in SkillNames |-> <<>>]
  /\ sources = NoSources /\ torn = FALSE
  /\ job = NoJob /\ uses = 0 /\ installed = {} /\ slipped = {}

Begin(op, at, s, path, known) ==
  /\ job = NoJob /\ uses < MaxUses /\ uses' = uses + 1
  /\ job' = Job(op, at, s, path, 0, known)
At(op, at) == job.op = op /\ job.at = at
GoTo(at) == job' = [job EXCEPT !.at = at]
GiveUp == job' = NoJob

Publish ==
  /\ head < MaxCommits /\ head' = head + 1
  /\ places' \in SUBSET Places
  /\ UNCHANGED <<disk, manifest, job, uses, installed, slipped>>

\* DiscoverSkillDir: none and more than one are errors.
Discovered == IF \E p \in Places : places = {p} THEN places ELSE {}

\* FetchRepoTree, treeAtPath: a path is looked up entry by entry, and no entry
\* of a tree is called "." .
HasTree(path) == path \in places \ {"."}

-----------------------------------------------------------------------------
(* InstallFromGit                                                          *)

\* A manifest that cannot be read counts as empty; a name that is taken is
\* refused before anything is fetched.
BeginInstall(s, path) ==
  /\ dir[s] = Absent
  /\ Begin("install", "fetch", s, path, IF torn THEN NoSources ELSE sources)
  /\ UNCHANGED <<repo, disk, manifest, installed, slipped>>

\* An explicit path is recorded as it is and written straight to the skill's
\* directory; a discovered one is copied there.
InstallFetch ==
  /\ At("install", "fetch")
  /\ \/ GiveUp /\ UNCHANGED dir
     \/ \E p \in IF job.path = "" THEN Discovered ELSE {q \in {job.path} : HasTree(q)} :
          /\ job' = [job EXCEPT !.at = "write", !.path = p, !.commit = head]
          /\ dir' = [dir EXCEPT ![job.name] = Partial]
  /\ UNCHANGED <<repo, fresh, backups, manifest, uses, installed, slipped>>

InstallWrite ==
  /\ At("install", "write")
  /\ \/ /\ dir' = [dir EXCEPT ![job.name] = job.commit]
        /\ installed' = installed \cup {job.name}
        /\ GoTo("record")
     \/ /\ dir' = [dir EXCEPT ![job.name] = Absent]
        /\ GiveUp /\ UNCHANGED installed
  /\ UNCHANGED <<repo, fresh, backups, manifest, uses, slipped>>

-----------------------------------------------------------------------------
(* Update                                                                  *)

BeginUpdate(s) ==
  /\ ~torn /\ s \in DOMAIN sources
  /\ Begin("update", "fetch", s, sources[s].path, sources)
  /\ UNCHANGED <<repo, disk, manifest, installed, slipped>>

\* The manifest has a path for every skill that was installed, so nothing is
\* discovered anew.
UpdateFetch ==
  /\ At("update", "fetch")
  /\ \/ GiveUp /\ UNCHANGED fresh
     \/ /\ HasTree(job.path) /\ dir[job.name] # Absent
        /\ job' = [job EXCEPT !.at = "copy", !.commit = head]
        /\ fresh' = [fresh EXCEPT ![job.name] = Partial]
  /\ UNCHANGED <<repo, dir, backups, manifest, uses, installed, slipped>>

UpdateCopy ==
  /\ At("update", "copy")
  /\ \/ /\ fresh' = [fresh EXCEPT ![job.name] = job.commit] /\ GoTo("swapOut")
     \/ /\ fresh' = [fresh EXCEPT ![job.name] = Absent] /\ GiveUp
  /\ UNCHANGED <<repo, dir, backups, manifest, uses, installed, slipped>>

SwapOutDeletes ==
  /\ At("update", "swapOut")
  /\ dir' = [dir EXCEPT ![job.name] = Absent]
  /\ GoTo("swapIn") /\ UNCHANGED <<fresh, backups>>
  /\ UNCHANGED <<repo, manifest, uses, installed, slipped>>

\* Rename to a backup.
SwapOut ==
  /\ At("update", "swapOut")
  /\ \/ /\ backups' = [backups EXCEPT ![job.name] = Append(@, dir[job.name])]
        /\ dir' = [dir EXCEPT ![job.name] = Absent]
        /\ GoTo("swapIn") /\ UNCHANGED fresh
     \/ /\ fresh' = [fresh EXCEPT ![job.name] = Absent]
        /\ GiveUp /\ UNCHANGED <<dir, backups>>
  /\ UNCHANGED <<repo, manifest, uses, installed, slipped>>

\* Rename the new one, or go back; going back may fail, too.
SwapIn ==
  /\ At("update", "swapIn")
  /\ fresh' = [fresh EXCEPT ![job.name] = Absent]
  /\ \/ /\ dir' = [dir EXCEPT ![job.name] = fresh[job.name]]
        /\ GoTo("clean") /\ UNCHANGED <<backups, slipped>>
     \/ /\ dir' = [dir EXCEPT ![job.name] = Last(backups[job.name])]
        /\ backups' = [backups EXCEPT ![job.name] = Front(@)]
        /\ GiveUp /\ UNCHANGED slipped
     \/ /\ slipped' = slipped \cup {job.name}
        /\ GiveUp /\ UNCHANGED <<dir, backups>>
  /\ UNCHANGED <<repo, manifest, uses, installed>>

\* Removing the backup may fail half way; nobody looks.
CleanBackup ==
  /\ At("update", "clean") /\ GoTo("record")
  /\ \E rest \in {<<>>, <<Partial>>} :
       backups' = [backups EXCEPT ![job.name] = Front(@) \o rest]
  /\ UNCHANGED <<repo, dir, fresh, manifest, uses, installed, slipped>>

-----------------------------------------------------------------------------
(* Remove                                                                  *)

\* The manifest is loaded after the directory is gone.
BeginRemove(s) ==
  /\ dir[s] # Absent
  /\ Begin("remove", "delete", s, "", NoSources)
  /\ dir' = [dir EXCEPT ![s] = Partial]
  /\ installed' = installed \ {s}
  /\ UNCHANGED <<repo, fresh, backups, manifest, slipped>>

RemoveDir ==
  /\ At("remove", "delete")
  /\ \/ /\ dir' = [dir EXCEPT ![job.name] = Absent]
        /\ IF torn THEN GiveUp ELSE job' = [job EXCEPT !.at = "record", !.known = sources]
        /\ UNCHANGED slipped
     \/ /\ slipped' = slipped \cup {job.name}
        /\ GiveUp /\ UNCHANGED dir
  /\ UNCHANGED <<repo, fresh, backups, manifest, uses, installed>>

-----------------------------------------------------------------------------
(* saveManifest: the file is cut off, then written.  Only an update reports *)
(* that it could not be written.                                           *)

RecordedKeepsCommit ==
  IF job.op = "remove" THEN [s \in DOMAIN job.known \ {job.name} |-> job.known[s]]
  ELSE IF job.op = "update" THEN job.known
  ELSE [s \in DOMAIN job.known \cup {job.name} |->
          IF s = job.name THEN [path |-> job.path, commit |-> job.commit] ELSE job.known[s]]

Recorded ==
  IF job.op = "remove" THEN [s \in DOMAIN job.known \ {job.name} |-> job.known[s]]
  ELSE [s \in DOMAIN job.known \cup {job.name} |->
          IF s = job.name THEN [path |-> job.path, commit |-> job.commit] ELSE job.known[s]]

OpenManifest ==
  /\ job.at = "record"
  /\ \/ torn' = TRUE /\ GoTo("save") /\ UNCHANGED slipped
     \/ slipped' = slipped \cup {job.name} /\ GiveUp /\ UNCHANGED torn
  /\ UNCHANGED <<repo, disk, sources, uses, installed>>

SaveManifest ==
  /\ job.at = "save" /\ torn' = FALSE
  /\ sources' = Recorded
  /\ slipped' = slipped \ {job.name}
  /\ GiveUp
  /\ UNCHANGED <<repo, disk, uses, installed>>

-----------------------------------------------------------------------------
\* The process dies and is started again.
Crash ==
  /\ job # NoJob /\ GiveUp
  /\ slipped' = IF torn THEN SkillNames ELSE slipped \cup {job.name}
  /\ UNCHANGED <<repo, disk, manifest, uses, installed>>

UserBegins ==
  \E s \in SkillNames :
    (\E path \in Paths : BeginInstall(s, path)) \/ BeginUpdate(s) \/ BeginRemove(s)

Next ==
  \/ Publish \/ UserBegins
  \/ InstallFetch \/ InstallWrite
  \/ UpdateFetch \/ UpdateCopy \/ SwapOut \/ SwapIn \/ CleanBackup
  \/ RemoveDir
  \/ OpenManifest \/ SaveManifest
  \/ Crash

Spec == Init /\ [][Next]_vars

-----------------------------------------------------------------------------
\* A skill that was installed is on disk in one piece until the user removes
\* it, in its directory or as a backup beside it, whatever fails or dies while
\* it is replaced (Update: "atomically replaces the local skill directory").
SkillSurvives ==
  \A s \in installed : Complete(dir[s]) \/ \E c \in Range(backups[s]) : Complete(c)

\* Between two operations the manifest names the commit whose files are in the
\* directory, and nothing for a directory that is not there, except for a skill
\* whose last operation died or could not write the file; a manifest that was
\* cut off loses them all (InstallFromGit, Update, Remove).
SourceMatchesFiles ==
  job = NoJob =>
    \A s \in SkillNames \ slipped :
      IF s \in DOMAIN sources THEN dir[s] = sources[s].commit ELSE dir[s] = Absent
=============================================================================
