---------------------------- MODULE AgentTurnInv ----------------------------
(***************************************************************************)
(* The inductive invariant behind the safety properties of AgentTurn: what *)
(* is on its way in the channels, and where each call stands.              *)
(***************************************************************************)
EXTENDS AgentTurn

\* A turn that is in the middle of a tool call has counted that call.
InCall == PCs \ {"unused", "model", "tools", "finished"}
CallCounted == \A r \in Runs : pc[r] \in InCall => Current(r) \in Requests

\* The messages of some kinds in a channel; none of them is there twice.
Sent(queue, kinds) == {queue[i] : i \in {j \in DOMAIN queue : queue[j].kind \in kinds}}
Once(queue, kinds) ==
  \A i, j \in DOMAIN queue : queue[i].kind \in kinds /\ queue[i] = queue[j] => i = j

\* Only the UI's channel carries commands, only the agent's channel questions.
KindsInv ==
  /\ \A m \in Range(cmds) : m.kind \in CmdKinds
  /\ \A m \in Range(agentq) : m.kind \in AgentKinds

\* A chat on its way is the only one of its number, and its turn has not begun.
ChatWaits(m) ==
  /\ m.req[1] \in 1 .. chats /\ m.req[2] = 0
  /\ pc[m.req[1]] = "unused"

ChatsInv ==
  /\ \A m \in Sent(cmds, {"chat"}) \cup Sent(bus, {"chat"}) : ChatWaits(m)
  /\ Once(cmds, {"chat"}) /\ Once(bus, {"chat"})
  /\ Sent(cmds, {"chat"}) \cap Sent(bus, {"chat"}) = {}
  /\ \A r \in Runs : r > chats => pc[r] = "unused"
  /\ \A r \in Runs : pc[r] = "unused" => call[r] = 0

\* A card anywhere between the agent and the screen is the question its agent is
\* blocked on, and there is no second copy of it.
Asked(m) ==
  /\ m.req \in Requests
  /\ Blocked(m.req[1])
  /\ m = Msg(pc[m.req[1]], Current(m.req[1]))

OnScreen == {card} \ {NoCard}

CardsInv ==
  /\ \A m \in Sent(agentq, CardKinds) \cup Sent(bus, CardKinds)
              \cup Sent(uiq, CardKinds) \cup OnScreen : Asked(m)
  /\ Once(agentq, CardKinds) /\ Once(bus, CardKinds) /\ Once(uiq, CardKinds)
  /\ Sent(agentq, CardKinds) \cap Sent(bus, CardKinds) = {}
  /\ Sent(agentq, CardKinds) \cap Sent(uiq, CardKinds) = {}
  /\ Sent(bus, CardKinds) \cap Sent(uiq, CardKinds) = {}
  /\ card \notin Sent(agentq, CardKinds) \cup Sent(bus, CardKinds) \cup Sent(uiq, CardKinds)
  /\ guiding => card.kind = "approval"

\* Nothing is known of a call that was not made yet.
Untouched(q) ==
  /\ answer[q] = "none" /\ audit[q] = {}
  /\ approval[q] = "none" /\ confirm[q] = "none"
  /\ q \notin started

FreshInv == \A q \in Requests : q[2] > call[q[1]] => Untouched(q)

\* What the call of turn r has behind it at each place it can be.
Permitted(q) ==
  \/ approval[q] = "user"
  \/ approval[q] = "allowed" /\ proposed[q] \in AllowListed
Confirmed(q) == proposed[q] \in Sensitive => confirm[q] \in {"store", "nostore"}
Approved(q) == Permitted(q) /\ "approved" \in audit[q] /\ "declined" \notin audit[q]

Stage(r) ==
  LET q == Current(r)
  IN /\ pc[r] \in CardKinds => q \notin started /\ "result" \notin audit[q]
     /\ pc[r] = "approval" =>
          /\ ~offline[r]
          /\ audit[q] = {} /\ confirm[q] = "none"
          /\ answer[q] = "approve" => approval[q] = "user"
     /\ pc[r] = "sensitive" => offline[r] \/ Approved(q)
     /\ pc[r] = "paste" => offline[r]
     /\ pc[r] \in {"ready", "registered", "executing"} =>
          Approved(q) /\ Confirmed(q) /\ ~offline[r]

StageInv == \A r \in Runs : Stage(r)

\* What stays true of a call for good.
History(q) ==
  /\ q \in started => Approved(q) /\ Confirmed(q) /\ ~offline[q[1]]
  /\ ~("approved" \in audit[q] /\ "declined" \in audit[q])
  /\ "result" \in audit[q] => confirm[q] \notin {"refuse", "nostore"}

HistoryInv == \A q \in Requests : History(q)

ConsentInv ==
  /\ TypeOK /\ CallCounted
  /\ KindsInv /\ ChatsInv /\ CardsInv /\ FreshInv
  /\ StageInv /\ HistoryInv

\* A completion on the bus is the only one, of the turn the controller started
\* last, and that turn is over.
TurnInv ==
  /\ OneTurn
  /\ Once(bus, {"done"})
  /\ \A m \in Sent(bus, {"done"}) :
       /\ m = Msg("done", <<llmCancel, 0>>)
       /\ \A r \in Runs : ~Live(r)

\* Without /bash the program that shows the cards is up until the process exits,
\* and the card of a blocked agent is somewhere between the two.
StaysUp ==
  /\ prog \in {"up", "toExit", "exited"} /\ ~shellSnap
  /\ \A m \in Range(cmds) : m.kind # "shell"

OnWay == Sent(agentq, CardKinds) \cup Sent(bus, CardKinds) \cup Sent(uiq, CardKinds) \cup OnScreen

NothingLost == \A r \in Runs : Alive /\ Blocked(r) => Msg(pc[r], Current(r)) \in OnWay

\* The decisions a call has had at each place, and that it has had no others.
Standing(r) ==
  LET q == Current(r)
  IN /\ pc[r] \in CardKinds \cup {"ready", "registered", "executing"} =>
          /\ proposed[q] # NoCommand /\ q \notin started
          /\ "proposal" \notin audit[q] /\ confirm[q] # "refuse"
     /\ pc[r] = "approval" =>
          /\ answer[q] = "none" => approval[q] = "none"
          /\ answer[q] \notin {"none", "approve"} => approval[q] = "declined"
     /\ pc[r] = "sensitive" =>
          /\ confirm[q] = "none" /\ proposed[q] \in Sensitive
          /\ offline[r] => approval[q] = "none"
     /\ pc[r] = "paste" => approval[q] = "none"
     /\ pc[r] \in {"running", "returned"} => q \in started

StandingInv ==
  /\ \A r \in Runs : Standing(r)
  /\ \A q \in Requests : q[2] > call[q[1]] => proposed[q] = NoCommand

\* An [EXECUTING] that was switched on is switched off behind it in the channel,
\* or somebody who will do so is further back.
InExec == \E r \in Runs : pc[r] \in {"executing", "running", "returned", "recorded"}

Followed(queue) ==
  \A i \in DOMAIN queue : queue[i].kind = "execOn" =>
    \E j \in DOMAIN queue : j > i /\ queue[j].kind = "execOff"

OffBehindUI == Has(bus, "execOff") \/ Has(agentq, "execOff") \/ InExec

ExecutingInv ==
  /\ executing => Has(uiq, "execOff") \/ OffBehindUI
  /\ Followed(uiq) \/ OffBehindUI
  /\ Followed(bus) \/ Has(agentq, "execOff") \/ InExec
  /\ Followed(agentq) \/ InExec

\* A chat on its way, a turn or a reply on its way keeps the input locked.
WaitingInv ==
  waiting =>
    \/ Has(cmds, "chat") \/ Has(bus, "chat") \/ llmRunning
    \/ Has(uiq, "reply") \/ Has(uiq, "busy")

\* Messages are dropped only while the shell has the terminal, and the next
\* program starts with a new model.
DroppedInv == prog = "bash" => ~waiting /\ ~executing

LocksInv == ExecutingInv /\ WaitingInv /\ DroppedInv

\* What the proofs show to be inductive.
InductiveInv ==
  /\ ConsentInv /\ TurnInv /\ StandingInv /\ LocksInv
  /\ "bash" \notin Leaves => StaysUp /\ NothingLost
=============================================================================
