----------------------------- MODULE HostMemory -----------------------------
(***************************************************************************)
(* The memory file of one host (hostmem/hostmem.go) and the goroutines     *)
(* that change it: the probes that follow a connect, the tool of the       *)
(* model, and the background updater.  Each loads the file, changes its    *)
(* copy and saves it; only the saving is under a lock.                     *)
(***************************************************************************)
EXTENDS Naturals, FiniteSets

CONSTANTS
  Probes, Patchers,  \* goroutines: refreshHostMemory, and Update's callers
  Commands,
  Important,         \* the commands a probe reports on
  Notes,             \* texts of notes, evidence, tags and the like
  MaxNotes,          \* how many of them are kept
  MaxJobs            \* bound: probes and updates

Writers == Probes \cup Patchers

Memory == [available : SUBSET Commands, missing : SUBSET Commands, notes : SUBSET Notes]
Nothing == [available |-> {}, missing |-> {}, notes |-> {}]

VARIABLES
  mem,        \* the file; a missing one reads like Nothing
  at,         \* where a writer stands
  copy,       \* what it is about to save
  base,       \* history: what it loaded
  jobs,
  blind,      \* history: a probe that found no command was applied
  overlapped, \* history: a writer saved over what another had saved meanwhile
  kept        \* history: the notes that ever were in the file

vars == <<mem, at, copy, base, jobs, blind, overlapped, kept>>

MemoryTypeOK ==
  /\ mem \in Memory /\ at \in [Writers -> {"idle", "loaded"}]
  /\ copy \in [Writers -> Memory] /\ base \in [Writers -> Memory]
  /\ jobs \in 0 .. MaxJobs /\ blind \in BOOLEAN /\ overlapped \in BOOLEAN
  /\ kept \subseteq Notes

Init ==
  /\ mem = Nothing
  /\ at = [w \in Writers |-> "idle"]
  /\ copy = [w \in Writers |-> Nothing] /\ base = [w \in Writers |-> Nothing]
  /\ jobs = 0 /\ blind = FALSE /\ overlapped = FALSE /\ kept = {}

AtMost(n, m) == IF n < m THEN n ELSE m

MergeNewFirst(old, new, max) ==
  {s \in SUBSET (old \cup new) :
     /\ Cardinality(s) = AtMost(Cardinality(old \cup new), max)
     /\ new \subseteq s \/ s \subseteq new}

\* mergeUnique: what is there stays, the rest is filled up.
MergeUnique(old, new, max) ==
  {s \in SUBSET (old \cup new) :
     /\ Cardinality(s) = AtMost(Cardinality(old \cup new), max)
     /\ old \subseteq s \/ s \subseteq old}

UpdateAddsOnly(m, patch) ==
  {[available |-> m.available \cup patch.available,
    missing   |-> (m.missing \ patch.available) \cup patch.missing,
    notes     |-> n] : n \in MergeUnique(m.notes, patch.notes, MaxNotes)}

\* Update: a command that is missing now is no longer available.
Update(m, patch) ==
  {[available |-> (m.available \cup patch.available) \ patch.missing,
    missing   |-> (m.missing \ patch.available) \cup patch.missing,
    notes     |-> n] : n \in MergeUnique(m.notes, patch.notes, MaxNotes)}

\* ApplyProbe: a list that is not empty replaces the one of the memory.
ApplyProbe(m, found) ==
  [available |-> IF found # {} THEN found ELSE m.available,
   missing   |-> (IF Important \ found # {} THEN Important \ found ELSE m.missing) \ found,
   notes     |-> m.notes]

-----------------------------------------------------------------------------
Load(w, m) ==
  /\ at[w] = "idle" /\ jobs < MaxJobs /\ jobs' = jobs + 1
  /\ at' = [at EXCEPT ![w] = "loaded"]
  /\ copy' = [copy EXCEPT ![w] = m] /\ base' = [base EXCEPT ![w] = mem]

Patch(w) ==
  /\ w \in Patchers
  /\ \E patch \in Memory :
       /\ Cardinality(patch.notes) <= 1                         \* bound
       /\ \E m \in Update(mem, patch) : Load(w, m)
  /\ UNCHANGED <<mem, blind, overlapped, kept>>

\* A probe that fails changes nothing; one that lists no command reports all
\* of the important ones as missing.
Probe(w) ==
  /\ w \in Probes
  /\ \E found \in SUBSET Important :
       /\ Load(w, ApplyProbe(mem, found))
       /\ blind' = (blind \/ found = {})
  /\ UNCHANGED <<mem, overlapped, kept>>

Save(w) ==
  /\ at[w] = "loaded" /\ at' = [at EXCEPT ![w] = "idle"]
  /\ mem' = copy[w]
  /\ kept' = kept \cup copy[w].notes
  /\ overlapped' = (overlapped \/ mem # base[w])
  /\ copy' = [copy EXCEPT ![w] = Nothing] /\ base' = [base EXCEPT ![w] = Nothing]
  /\ UNCHANGED <<jobs, blind>>

Next == \E w \in Writers : Patch(w) \/ Probe(w) \/ Save(w)

Spec == Init /\ [][Next]_vars

-----------------------------------------------------------------------------
\* The model is not told of one command that it is there and that it is not,
\* whoever wrote last; only a probe that found no command at all adds to the
\* missing ones without touching the available ones (Update, ApplyProbe).
AvailableOrMissing == mem.available \cap mem.missing # {} => blind

\* A note that was in the file stays, also at the limit, unless two goroutines
\* changed the file at the same time: then the second takes back what the
\* first has added (Load, Update, Save).
NotesStay == kept \subseteq mem.notes \/ overlapped
=============================================================================
