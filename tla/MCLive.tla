------------------------------- MODULE MCLive -------------------------------
(* One instance for TLC of the two parts with properties about what must    *)
(* happen at last: a behaviour is a behaviour of turns, or of an SSH        *)
(* connection; the other part stands still.                                 *)
EXTENDS SSHConn

CONSTANTS
  Commands, AllowListed, Sensitive, Skills, NoCommand,
  MaxChats, MaxCalls, MaxCmds, MaxEsc, Leaves

VARIABLES
  part,
  llmRunning, fsm, llmCancel, cmds, bus, agentq, uiq,
  waiting, executing, card, guiding, hint, prog, shellSnap, chats, named,
  at, call, offline, ctxCancelled, hub, cmdCancelled,
  proposed, answer, audit, approval, confirm, started

turns == INSTANCE AgentTurn WITH pc <- at

turnVars == <<llmRunning, fsm, llmCancel, cmds, bus, agentq, uiq, waiting, executing, card,
              guiding, hint, prog, shellSnap, chats, named, at, call, offline, ctxCancelled,
              hub, cmdCancelled, proposed, answer, audit, approval, confirm, started>>

\* An executor that was closed and left by all.
Asleep ==
  /\ client = 0 /\ handle = 0 /\ aliveStop = 0 /\ recovery = 0 /\ closed = TRUE
  /\ issue = "" /\ lock = Nobody /\ pc = [a \in Actors |-> "none"]
  /\ cl = [a \in Actors |-> 0] /\ after = [a \in Actors |-> "none"]
  /\ open = {} /\ jumps = {} /\ broken = {} /\ dials = 0 /\ runs = 0

\* Before the first chat no fair action of the turns is enabled.
LiveInit ==
  \/ part = "turns" /\ turns!Init /\ Asleep
  \/ part = "ssh" /\ turns!Init /\ Init

LiveNext ==
  \/ part = "turns" /\ turns!Next /\ UNCHANGED <<part, vars>>
  \/ part = "ssh" /\ Next /\ UNCHANGED <<part, turnVars>>

LiveSpec ==
  /\ LiveInit /\ [][LiveNext]_<<part, vars, turnVars>>
  /\ (part = "turns" /\ turns!Fairness) \/ (part = "ssh" /\ Fairness)

-----------------------------------------------------------------------------
\* Esc under [EXECUTING], once sent, always ends in an unlocked input.
EscUnlocks == turns!EscUnlocks

\* A cancelled turn always ends, or asks the user something that is on screen.
CancelledTurnEnds == turns!CancelledTurnEnds
=============================================================================
