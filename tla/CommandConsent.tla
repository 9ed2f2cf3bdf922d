---------------------------- MODULE CommandConsent ----------------------------
(***************************************************************************)
(* What delve-shell promises of every command its model proposes: it runs  *)
(* only after it was granted, by the policy or by the user, a refusal is   *)
(* final, and the session log has the decision before the command starts.  *)
(* AgentTurn implements this.                                              *)
(***************************************************************************)
CONSTANT Requests

VARIABLES
  phase,   \* where each request stands
  log      \* what the session file says of it

Phases == {"idle", "asked", "granted", "refused", "relayed", "started"}
Entries == {"approved", "declined", "proposal", "result"}

TypeOK ==
  /\ phase \in [Requests -> Phases]
  /\ log \in [Requests -> SUBSET Entries]

Init ==
  /\ phase = [q \in Requests |-> "idle"]
  /\ log = [q \in Requests |-> {}]

Move(q, from, to) ==
  /\ phase[q] \in from
  /\ phase' = [phase EXCEPT ![q] = to]

Note(q, entries) == log' = [log EXCEPT ![q] = @ \cup entries]

\* The user is asked, about the command or about a sensitive path it may read.
Ask(q) == Move(q, {"idle"}, "asked") /\ UNCHANGED log

\* The allow list, or the user's own /skill line, stands for the approval; a
\* sensitive path is asked about all the same.
Allow(q) ==
  /\ \E to \in {"asked", "granted"} : Move(q, {"idle"}, to)
  /\ Note(q, {"approved"})

Grant(q) == Move(q, {"asked"}, "granted") /\ UNCHANGED log

Refuse(q) == Move(q, {"asked"}, "refused") /\ UNCHANGED log

\* Offline the user runs the command elsewhere and pastes what it printed.
Relay(q) ==
  /\ Move(q, {"asked"}, "relayed")
  /\ \E kept \in SUBSET {"result"} : Note(q, {"proposal"} \cup kept)

NoteApproval(q) ==
  /\ phase[q] \in {"asked", "granted"}
  /\ Note(q, {"approved"})
  /\ UNCHANGED phase

NoteRefusal(q) ==
  /\ phase[q] = "refused" /\ "approved" \notin log[q]
  /\ Note(q, {"declined"})
  /\ UNCHANGED phase

Start(q) ==
  /\ "approved" \in log[q]
  /\ Move(q, {"granted"}, "started")
  /\ UNCHANGED log

KeepResult(q) ==
  /\ phase[q] = "started"
  /\ Note(q, {"result"})
  /\ UNCHANGED phase

Step(q) ==
  \/ Ask(q) \/ Allow(q) \/ Grant(q) \/ Refuse(q) \/ Relay(q)
  \/ NoteApproval(q) \/ NoteRefusal(q) \/ Start(q) \/ KeepResult(q)

Next == \E q \in Requests : Step(q)

Spec == Init /\ [][Next]_<<phase, log>>
=============================================================================
