------------------------------ MODULE AgentTurn ------------------------------
(***************************************************************************)
(* One LLM turn of delve-shell, from the key that submits a chat to the    *)
(* reply: the terminal UI, the host controller, the agent goroutine with   *)
(* its command tools, and the restart loop that replaces the UI around     *)
(* /bash.  They share no state; they talk through FIFO channels            *)
(*                                                                         *)
(*     UI --cmds--> controller --uiq--> UI pump --> UI                     *)
(*     agent --agentq--> bridge --bus--> controller                        *)
(*     agent (turn completed) --bus--> controller                          *)
(*                                                                         *)
(* and through one response channel per question the agent asks the user.  *)
(* Messages that only print transcript lines are left out.  The channels   *)
(* are unbounded here, HostChannels models their capacities.               *)
(***************************************************************************)
EXTENDS Naturals, Sequences, Functions

CONSTANTS
  Commands,     \* the command lines and skill scripts the model may propose
  AllowListed,  \* those the allow list runs without asking
  Sensitive,    \* those that may read a sensitive path
  Skills,       \* those that are scripts of a skill (tool run_skill)
  NoCommand,
  MaxChats,     \* bound: chats the user submits
  MaxCalls,     \* bound: tool calls of one turn (MaxStep is 50 in the code)
  MaxCmds,      \* bound: commands waiting in the UI's channel (128 in the code)
  MaxEsc,       \* bound: cancellations sent and not yet handled
  Leaves        \* ways the user may leave the UI: a subset of {"bash", "quit"}

ASSUME CommandsAssumption ==
  /\ AllowListed \subseteq Commands \ Skills
  /\ Sensitive \subseteq Commands
  /\ Skills \subseteq Commands
  /\ NoCommand \notin Commands

ASSUME BoundsAssumption ==
  /\ MaxChats \in Nat \ {0}
  /\ MaxCalls \in Nat \ {0}
  /\ MaxCmds \in Nat \ {0}
  /\ MaxEsc \in Nat \ {0}
  /\ Leaves \subseteq {"bash", "quit"}

Runs == 1 .. MaxChats                 \* a turn carries the number of its chat
Requests == Runs \X (1 .. MaxCalls)   \* <<turn, tool call of that turn>>
NoRun == 0

CardKinds == {"approval", "sensitive", "paste"}
CmdKinds == {"chat", "cancelCommand", "cancelTurn", "shell"}
AgentKinds == CardKinds \cup {"execOn", "execOff"}
Kinds == CmdKinds \cup AgentKinds \cup {"done", "reply", "busy", "none"}

Messages == [kind : Kinds, req : (0 .. MaxChats) \X (0 .. MaxCalls)]
Msg(k, q) == [kind |-> k, req |-> q]
Plain(k) == Msg(k, <<0, 0>>)
NoCard == Plain("none")

VARIABLES
  \* controller
  llmRunning, fsm, llmCancel,
  \* channels
  cmds, bus, agentq, uiq,
  \* UI model, and the loop around the tea program
  waiting, executing, card, guiding, hint, prog, shellSnap,
  chats, named,
  \* agent, per turn
  pc, call, offline, ctxCancelled,
  \* execcancel.Hub and the command contexts
  hub, cmdCancelled,
  \* per request: what is proposed, the response channel, the session file
  proposed, answer, audit,
  \* history of what the user or the policy decided, and of what ran
  approval, confirm, started

host == <<llmRunning, fsm, llmCancel>>
screen == <<waiting, executing, card, guiding, hint>>
loop == <<prog, shellSnap>>
chat == <<chats, named>>
turn == <<pc, call, offline>>
cancels == <<ctxCancelled, hub, cmdCancelled>>
request == <<proposed, answer, audit>>
decisions == <<approval, confirm, started>>
agent == <<turn, cancels, request, decisions>>
vars == <<host, cmds, bus, agentq, uiq, screen, loop, chat, agent>>

PCs == {"unused", "model", "tools", "approval", "sensitive", "paste", "ready",
        "registered", "executing", "running", "returned", "recorded", "popped",
        "finished"}
Registered == {"registered", "executing", "running", "returned", "recorded", "popped"}

HostTypeOK ==
  /\ llmRunning \in BOOLEAN
  /\ fsm \in {"idle", "llm_running"}
  /\ llmCancel \in Runs \cup {NoRun}

ChannelsTypeOK ==
  /\ cmds \in Seq(Messages)
  /\ bus \in Seq(Messages)
  /\ agentq \in Seq(Messages)
  /\ uiq \in Seq(Messages)

ScreenTypeOK ==
  /\ waiting \in BOOLEAN
  /\ executing \in BOOLEAN
  /\ card \in Messages
  /\ guiding \in BOOLEAN
  /\ hint \in BOOLEAN
  /\ prog \in {"up", "toBash", "toExit", "bash", "exited"}
  /\ shellSnap \in BOOLEAN

TurnTypeOK ==
  /\ chats \in 0 .. MaxChats
  /\ named \in [Runs -> Skills \cup {NoCommand}]
  /\ pc \in [Runs -> PCs]
  /\ call \in [Runs -> 0 .. MaxCalls]
  /\ offline \in [Runs -> BOOLEAN]
  /\ ctxCancelled \subseteq Runs
  /\ hub \subseteq Runs
  /\ cmdCancelled \subseteq Runs

RequestTypeOK ==
  /\ proposed \in [Requests -> Commands \cup {NoCommand}]
  /\ answer \in [Requests -> {"none", "approve", "decline", "pasted", "cancelled"}]
  /\ audit \in [Requests -> SUBSET {"approved", "declined", "proposal", "result"}]
  /\ approval \in [Requests -> {"none", "allowed", "user", "declined"}]
  /\ confirm \in [Requests -> {"none", "refuse", "store", "nostore"}]
  /\ started \subseteq Requests

\* Every variable has its type; no turn makes more calls than its bound.
TypeOK ==
  HostTypeOK /\ ChannelsTypeOK /\ ScreenTypeOK /\ TurnTypeOK /\ RequestTypeOK

Init ==
  /\ llmRunning = FALSE /\ fsm = "idle" /\ llmCancel = NoRun
  /\ cmds = <<>> /\ bus = <<>> /\ agentq = <<>> /\ uiq = <<>>
  /\ waiting = FALSE /\ executing = FALSE /\ card = NoCard
  /\ guiding = FALSE /\ hint = FALSE
  /\ prog = "up" /\ shellSnap = FALSE
  /\ chats = 0
  /\ named = [r \in Runs |-> NoCommand]
  /\ pc = [r \in Runs |-> "unused"]
  /\ call = [r \in Runs |-> 0]
  /\ offline = [r \in Runs |-> FALSE]
  /\ ctxCancelled = {} /\ hub = {} /\ cmdCancelled = {}
  /\ proposed = [q \in Requests |-> NoCommand]
  /\ answer = [q \in Requests |-> "none"]
  /\ audit = [q \in Requests |-> {}]
  /\ approval = [q \in Requests |-> "none"]
  /\ confirm = [q \in Requests |-> "none"]
  /\ started = {}

\* A process that has exited does nothing more.
Alive == prog # "exited"

-----------------------------------------------------------------------------
(* The user at the terminal.  Keys reach a model only while its program is *)
(* up and not already quitting.                                            *)

InputLocked == waiting \/ executing

MainInput == prog = "up" /\ card = NoCard

Send(m) == Len(cmds) < MaxCmds /\ cmds' = Append(cmds, m)

\* The result of Send is ignored: a full channel drops the message.
TrySend(m) == cmds' = IF Len(cmds) < MaxCmds THEN Append(cmds, m) ELSE cmds

\* Enter on a chat line, or on a /skill line that names a skill.
Submit ==
  /\ MainInput /\ ~InputLocked
  /\ chats < MaxChats
  /\ chats' = chats + 1
  /\ \E s \in Skills \cup {NoCommand} : named' = [named EXCEPT ![chats + 1] = s]
  /\ Send(Msg("chat", <<chats + 1, 0>>))
  /\ waiting' = TRUE
  /\ hint' = FALSE
  /\ UNCHANGED <<host, bus, agentq, uiq, executing, card, guiding, loop, agent>>

IsCancel(m) == m.kind \in {"cancelCommand", "cancelTurn"}

\* The offline paste dialog and the guidance editor take Esc for themselves.
EscReachesControl ==
  /\ prog = "up" /\ card.kind # "paste" /\ ~guiding
  /\ Len(SelectSeq(cmds \o bus, IsCancel)) < MaxEsc

\* ResolveEscAction prefers the running command to the turn.  The host sees
\* the same CancelRequested in both cases, the kind only says what was meant.
EscCancelCommand ==
  /\ EscReachesControl /\ executing
  /\ Send(Plain("cancelCommand"))
  /\ UNCHANGED <<host, bus, agentq, uiq, screen, loop, chat, agent>>

EscCancelTurn ==
  /\ EscReachesControl /\ ~executing /\ waiting
  /\ Send(Plain("cancelTurn"))
  /\ waiting' = FALSE
  /\ UNCHANGED <<host, bus, agentq, uiq, executing, card, guiding, hint, loop, chat, agent>>

\* Approve leaves the UI waiting, Dismiss unlocks it while the turn goes on.
AnswerApproval(a, decision, keepWaiting) ==
  /\ answer' = [answer EXCEPT ![card.req] = a]
  /\ approval' = [approval EXCEPT ![card.req] = decision]
  /\ card' = NoCard
  /\ guiding' = FALSE
  /\ waiting' = (waiting /\ keepWaiting)
  /\ UNCHANGED <<host, cmds, bus, agentq, uiq, executing, hint, loop, chat, turn,
                 cancels, proposed, audit, confirm, started>>

ApprovalCard == prog = "up" /\ card.kind = "approval"

Approve == ApprovalCard /\ ~guiding /\ AnswerApproval("approve", "user", TRUE)
Dismiss == ApprovalCard /\ ~guiding /\ AnswerApproval("decline", "declined", FALSE)
SubmitGuidance == ApprovalCard /\ guiding /\ AnswerApproval("decline", "declined", TRUE)

\* Choice 2 opens the guidance editor, Esc in it goes back to the card.
ToggleGuidance ==
  /\ ApprovalCard
  /\ guiding' = ~guiding
  /\ UNCHANGED <<host, cmds, bus, agentq, uiq, waiting, executing, card, hint, loop, chat, agent>>

AnswerPaste(a) ==
  /\ prog = "up" /\ card.kind = "paste"
  /\ answer' = [answer EXCEPT ![card.req] = a]
  /\ card' = NoCard
  /\ UNCHANGED <<host, cmds, bus, agentq, uiq, waiting, executing, guiding, hint, loop, chat,
                 turn, cancels, proposed, audit, decisions>>

SubmitPaste == AnswerPaste("pasted")
EscCancelPaste == AnswerPaste("cancelled")

\* MUTANT: the refusal is taken for "do not store".
AfterSensitiveLenient(r, choice) == IF offline[r] THEN "paste" ELSE "ready"

AfterSensitive(r, choice) ==
  IF choice = "refuse" THEN "tools" ELSE IF offline[r] THEN "paste" ELSE "ready"

\* The sensitive card answers on an unbuffered channel: key and receive are
\* one step, for which the agent has to be there.
AnswerSensitive(choice) ==
  LET q == card.req
      r == q[1]
      next == AfterSensitive(r, choice)
  IN /\ prog = "up" /\ card.kind = "sensitive"
     /\ pc[r] = "sensitive" /\ call[r] = q[2]
     /\ confirm' = [confirm EXCEPT ![q] = choice]
     /\ pc' = [pc EXCEPT ![r] = next]
     /\ agentq' = IF next = "paste" THEN Append(agentq, Msg("paste", q)) ELSE agentq
     /\ card' = NoCard
     /\ UNCHANGED <<host, cmds, bus, uiq, waiting, executing, guiding, hint, loop, chat,
                    call, offline, cancels, request, approval, started>>

Refuse == AnswerSensitive("refuse")
RunAndStore == AnswerSensitive("store")
RunNoStore == AnswerSensitive("nostore")

-----------------------------------------------------------------------------
(* Leaving and restarting the UI.                                          *)

\* /bash asks for a snapshot through the host and quits the program at once,
\* whether or not the request was taken.
Bash ==
  /\ "bash" \in Leaves
  /\ MainInput /\ ~InputLocked
  /\ TrySend(Plain("shell"))
  /\ prog' = "toBash"
  /\ UNCHANGED <<host, bus, agentq, uiq, screen, shellSnap, chat, agent>>

CtrlC ==
  /\ "quit" \in Leaves
  /\ prog = "up"
  /\ prog' = "toExit"
  /\ UNCHANGED <<host, cmds, bus, agentq, uiq, screen, shellSnap, chat, agent>>

\* The loop looks for the snapshot without waiting; the next program starts
\* with a new model.
ProgramEnds ==
  /\ prog \in {"toBash", "toExit"}
  /\ prog' = IF shellSnap THEN "bash" ELSE "exited"
  /\ shellSnap' = FALSE
  /\ waiting' = FALSE /\ executing' = FALSE
  /\ card' = NoCard /\ guiding' = FALSE /\ hint' = FALSE
  /\ UNCHANGED <<host, cmds, bus, agentq, uiq, chat, agent>>

BashReturns ==
  /\ prog = "bash"
  /\ prog' = "up"
  /\ UNCHANGED <<host, cmds, bus, agentq, uiq, screen, shellSnap, chat, agent>>

-----------------------------------------------------------------------------
(* The UI pump and Model.Update.  A message that meets no program is lost. *)

Drawn == prog \in {"up", "toBash", "toExit"}

Deliver(kinds) ==
  /\ uiq # <<>> /\ Head(uiq).kind \in kinds
  /\ uiq' = Tail(uiq)
  /\ UNCHANGED <<host, cmds, bus, agentq, loop, chat, agent>>

\* One slot holds the approval or sensitive card, the paste dialog covers it.
ShowCard ==
  /\ Drawn /\ Deliver(CardKinds)
  /\ card' = Head(uiq)
  /\ guiding' = FALSE
  /\ UNCHANGED <<waiting, executing, hint>>

ShowExecuting ==
  /\ Drawn /\ Deliver({"execOn", "execOff"})
  /\ executing' = (Head(uiq).kind = "execOn")
  /\ UNCHANGED <<waiting, card, guiding, hint>>

\* Every AgentReply clears the waiting flag, "already running" too.
ShowReply ==
  /\ Drawn /\ Deliver({"reply", "busy"})
  /\ waiting' = FALSE
  /\ hint' = (Head(uiq).kind = "busy")
  /\ UNCHANGED <<executing, card, guiding>>

DropMessage ==
  /\ prog = "bash" /\ Deliver(Kinds)
  /\ UNCHANGED screen

-----------------------------------------------------------------------------
(* The controller goroutine: takes UI commands and bus events one by one.  *)

\* MUTANT: Publish in the place of PublishBlocking, with the bus at its limit.
PublishedIfRoom(m) == IF bus = <<>> THEN Append(bus, m) ELSE bus

Published(m) == Append(bus, m)

RelayCommand ==
  /\ Alive /\ cmds # <<>> /\ Head(cmds).kind # "shell"
  /\ cmds' = Tail(cmds)
  /\ bus' = Published(Head(cmds))
  /\ UNCHANGED <<host, agentq, uiq, screen, loop, chat, agent>>

RelaySnapshot ==
  /\ Alive /\ cmds # <<>> /\ Head(cmds).kind = "shell"
  /\ cmds' = Tail(cmds)
  /\ shellSnap' = TRUE
  /\ UNCHANGED <<host, bus, agentq, uiq, screen, prog, chat, agent>>

Event(kinds) ==
  /\ Alive /\ bus # <<>> /\ Head(bus).kind \in kinds
  /\ bus' = Tail(bus)
  /\ UNCHANGED <<cmds, agentq, screen, loop, chat>>

\* MUTANT: the controller relies on the UI not to submit twice.
TurnMayStartTwice == TRUE

TurnMayStart == ~llmRunning /\ fsm = "idle"

\* The runner may be missing (no model configured), the host FSM may refuse.
RejectChat ==
  /\ Event({"chat"})
  /\ \/ llmRunning /\ uiq' = Append(uiq, Plain("busy"))
     \/ ~llmRunning /\ uiq' = Append(uiq, Plain("reply"))
  /\ UNCHANGED <<host, agent>>

\* Offline mode is fixed when the runner is built; skills are not in its tools.
StartTurn ==
  /\ Event({"chat"})
  /\ TurnMayStart
  /\ LET r == Head(bus).req[1]
     IN /\ fsm' = "llm_running"
        /\ llmRunning' = TRUE
        /\ llmCancel' = r
        /\ pc' = [pc EXCEPT ![r] = "model"]
        /\ \E off \in BOOLEAN : offline' = [offline EXCEPT ![r] = off]
  /\ UNCHANGED <<uiq, call, cancels, request, decisions>>

\* handleCancelRequest: a registered command is cancelled, else the turn.
HandleCancel ==
  /\ Event({"cancelCommand", "cancelTurn"})
  /\ cmdCancelled' = cmdCancelled \cup hub
  /\ ctxCancelled' = IF hub = {} /\ llmRunning /\ llmCancel # NoRun
                     THEN ctxCancelled \cup {llmCancel} ELSE ctxCancelled
  /\ UNCHANGED <<host, uiq, hub, turn, request, decisions>>

PresentAgentUI ==
  /\ Event(AgentKinds)
  /\ uiq' = Append(uiq, Head(bus))
  /\ UNCHANGED <<host, agent>>

HandleDone ==
  /\ Event({"done"})
  /\ ctxCancelled' = IF llmCancel # NoRun THEN ctxCancelled \cup {llmCancel} ELSE ctxCancelled
  /\ llmCancel' = NoRun
  /\ llmRunning' = FALSE
  /\ fsm' = "idle"
  /\ uiq' = Append(uiq, Plain("reply"))
  /\ UNCHANGED <<hub, cmdCancelled, turn, request, decisions>>

\* BridgeInputs, a goroutine of its own.
Bridge ==
  /\ Alive /\ agentq # <<>>
  /\ agentq' = Tail(agentq)
  /\ bus' = Append(bus, Head(agentq))
  /\ UNCHANGED <<host, cmds, uiq, screen, loop, chat, agent>>

-----------------------------------------------------------------------------
(* The agent goroutine of turn r.                                          *)

Outside == <<host, cmds, uiq, screen, loop, chat>>

Current(r) == <<r, call[r]>>

At(r, label) == Alive /\ pc[r] = label
Goto(r, label) == pc' = [pc EXCEPT ![r] = label]

\* MUTANT: an approved command is not checked for sensitive paths.
PastApprovalUnchecked(cmd) == "ready"

\* Where a call goes once it is approved.
PastApproval(cmd) == IF cmd \in Sensitive THEN "sensitive" ELSE "ready"

\* MUTANT: the request is sent only if the channel has room.
EnterIfRoom(r, q, label) ==
  /\ Goto(r, label)
  /\ agentq' = IF label \in CardKinds /\ agentq = <<>> THEN Append(agentq, Msg(label, q)) ELSE agentq

\* Waiting at a card starts with sending it.
Enter(r, q, label) ==
  /\ Goto(r, label)
  /\ agentq' = IF label \in CardKinds THEN Append(agentq, Msg(label, q)) ELSE agentq

\* MUTANT: the limit of tool calls is taken for the last index.
CallsLeftOneMore(r) == call[r] <= MaxCalls

CallsLeft(r) == call[r] < MaxCalls

\* The next tool call.  A new answer of the model is not asked for once the
\* turn is cancelled, but further calls of the same answer still run.
Propose(r, cmd) ==
  LET q == <<r, call[r] + 1>>
      slash == cmd \in Skills /\ named[r] = cmd
  IN /\ (At(r, "model") /\ r \notin ctxCancelled) \/ At(r, "tools")
     /\ CallsLeft(r)
     /\ offline[r] => cmd \notin Skills
     /\ call' = [call EXCEPT ![r] = @ + 1]
     /\ proposed' = [proposed EXCEPT ![q] = cmd]
     /\ IF offline[r]
        THEN /\ Enter(r, q, IF cmd \in Sensitive THEN "sensitive" ELSE "paste")
             /\ UNCHANGED <<audit, approval>>
        ELSE IF cmd \in AllowListed \/ slash
        THEN /\ Enter(r, q, PastApproval(cmd))
             /\ audit' = [audit EXCEPT ![q] = @ \cup {"approved"}]
             /\ approval' = [approval EXCEPT ![q] = IF slash THEN "user" ELSE "allowed"]
        ELSE /\ Enter(r, q, "approval")
             /\ UNCHANGED <<audit, approval>>
     /\ UNCHANGED <<Outside, bus, offline, cancels, answer, confirm, started>>

\* MUTANT: a cancelled turn gives up waiting and leaves its card behind.
AnsweredOrCancelled(q) == answer[q] # "none" \/ q[1] \in ctxCancelled

\* A question waits for its answer only, not for the turn's context.
Answered(q) == answer[q] # "none"

\* The decision is written to the session before anything else happens.
ReceiveApproval(r) ==
  LET q == Current(r)
  IN /\ At(r, "approval") /\ Answered(q)
     /\ IF answer[q] = "approve"
        THEN /\ audit' = [audit EXCEPT ![q] = @ \cup {"approved"}]
             /\ Enter(r, q, PastApproval(proposed[q]))
        ELSE /\ audit' = [audit EXCEPT ![q] = @ \cup {"declined"}]
             /\ Enter(r, q, "tools")
     /\ answer' = [answer EXCEPT ![q] = "none"]
     /\ UNCHANGED <<Outside, bus, call, offline, cancels, proposed, decisions>>

\* MUTANT: only the mark of the call counts, not the user's choice.
StoredUnlessMarked(q, secrets) == ~secrets

\* A call whose result is marked as holding secrets is not stored; the mark
\* counts only where the sensitive card was not shown.
Stored(q, secrets) ==
  \/ confirm[q] = "store"
  \/ confirm[q] = "none" /\ ~secrets

ReceivePaste(r) ==
  LET q == Current(r)
  IN /\ At(r, "paste") /\ Answered(q)
     /\ \E secrets \in BOOLEAN :
          audit' = IF answer[q] = "cancelled" THEN audit
                   ELSE [audit EXCEPT ![q] = @ \cup {"proposal"} \cup
                           (IF Stored(q, secrets) THEN {"result"} ELSE {})]
     /\ Goto(r, "tools")
     /\ answer' = [answer EXCEPT ![q] = "none"]
     /\ UNCHANGED <<Outside, bus, agentq, call, offline, cancels, proposed, decisions>>

\* withCommandCancel: a command context of its own, known to the hub.
Register(r) ==
  /\ At(r, "ready")
  /\ Goto(r, "registered")
  /\ hub' = hub \cup {r}
  /\ cmdCancelled' = cmdCancelled \ {r}
  /\ UNCHANGED <<Outside, bus, agentq, call, offline, ctxCancelled, request, decisions>>

\* MUTANT: [EXECUTING] goes on before the copy and stays on when it fails.
SyncFailsWhileShown(r) ==
  /\ At(r, "executing") /\ proposed[Current(r)] \in Skills
  /\ Goto(r, "popped")
  /\ UNCHANGED <<Outside, bus, agentq, call, offline, cancels, request, decisions>>

\* A skill is first copied to a remote host; [EXECUTING] is still off.
SyncFails(r) ==
  /\ At(r, "registered") /\ proposed[Current(r)] \in Skills
  /\ Goto(r, "popped")
  /\ UNCHANGED <<Outside, bus, agentq, call, offline, cancels, request, decisions>>

PushExecuting(r) ==
  /\ At(r, "registered")
  /\ Goto(r, "executing")
  /\ agentq' = Append(agentq, Plain("execOn"))
  /\ UNCHANGED <<Outside, bus, call, offline, cancels, request, decisions>>

\* The process is started even if its context is cancelled already.
Launch(r) ==
  /\ At(r, "executing")
  /\ Goto(r, "running")
  /\ started' = started \cup {Current(r)}
  /\ UNCHANGED <<Outside, bus, agentq, call, offline, cancels, request, approval, confirm>>

Finish(r) ==
  /\ At(r, "running")
  /\ Goto(r, "returned")
  /\ UNCHANGED <<Outside, bus, agentq, call, offline, cancels, request, decisions>>

\* MUTANT: the command context does not descend from the turn's.
CancelledAlone(r) == r \in cmdCancelled

Cancelled(r) == r \in cmdCancelled \cup ctxCancelled

Record(r) ==
  LET q == Current(r)
  IN /\ At(r, "returned")
     /\ \E secrets \in BOOLEAN :
          audit' = IF Stored(q, secrets) /\ ~Cancelled(r)
                   THEN [audit EXCEPT ![q] = @ \cup {"result"}] ELSE audit
     /\ Goto(r, "recorded")
     /\ UNCHANGED <<Outside, bus, agentq, call, offline, cancels, proposed, answer, decisions>>

\* The deferred calls: [EXECUTING] off first, the hub afterwards.
PopExecuting(r) ==
  /\ At(r, "recorded")
  /\ Goto(r, "popped")
  /\ agentq' = Append(agentq, Plain("execOff"))
  /\ UNCHANGED <<Outside, bus, call, offline, cancels, request, decisions>>

Unregister(r) ==
  /\ At(r, "popped")
  /\ Goto(r, "tools")
  /\ hub' = hub \ {r}
  /\ UNCHANGED <<Outside, bus, agentq, call, offline, ctxCancelled, cmdCancelled, request, decisions>>

\* The results of all calls of an answer go back to the model.
ToolsDone(r) ==
  /\ At(r, "tools")
  /\ Goto(r, "model")
  /\ UNCHANGED <<Outside, bus, agentq, call, offline, cancels, request, decisions>>

\* The final answer, an error or the cancellation ends the turn.
Reply(r) ==
  /\ At(r, "model")
  /\ Goto(r, "finished")
  /\ bus' = Append(bus, Msg("done", <<r, 0>>))
  /\ UNCHANGED <<Outside, agentq, call, offline, cancels, request, decisions>>

-----------------------------------------------------------------------------
User ==
  \/ Submit \/ EscCancelCommand \/ EscCancelTurn
  \/ Approve \/ Dismiss \/ ToggleGuidance \/ SubmitGuidance
  \/ SubmitPaste \/ EscCancelPaste
  \/ Refuse \/ RunAndStore \/ RunNoStore
  \/ Bash \/ CtrlC \/ BashReturns

Pump == ShowCard \/ ShowExecuting \/ ShowReply \/ DropMessage

Host ==
  \/ RelayCommand \/ RelaySnapshot
  \/ RejectChat \/ StartTurn \/ HandleCancel \/ PresentAgentUI \/ HandleDone

Tool(r) ==
  \/ ReceiveApproval(r) \/ ReceivePaste(r)
  \/ Register(r) \/ SyncFails(r) \/ PushExecuting(r) \/ Launch(r)
  \/ Record(r) \/ PopExecuting(r) \/ Unregister(r)

Agent(r) ==
  \/ \E cmd \in Commands : Propose(r, cmd)
  \/ Tool(r) \/ Finish(r) \/ ToolsDone(r) \/ Reply(r)

Next ==
  \/ User \/ ProgramEnds \/ Pump \/ Host \/ Bridge
  \/ \E r \in Runs : Agent(r)

Spec == Init /\ [][Next]_vars

\* The goroutines run and a killed process ends.  Nothing makes the user, the
\* model or a command that was not cancelled take its next step.
Fairness ==
  /\ WF_vars(ProgramEnds)
  /\ WF_vars(Pump)
  /\ WF_vars(Host)
  /\ WF_vars(Bridge)
  /\ \A r \in Runs :
       /\ WF_vars(Tool(r))
       /\ WF_vars(Cancelled(r) /\ Finish(r))
       /\ WF_vars(ToolsDone(r))
       /\ WF_vars(r \in ctxCancelled /\ Reply(r))

FairSpec == Spec /\ Fairness

-----------------------------------------------------------------------------
(* Properties.                                                             *)

Live(r) == pc[r] \notin {"unused", "finished"}
Has(queue, kind) == \E i \in DOMAIN queue : queue[i].kind = kind

\* A command runs only with the consent it needs: the allow list or the user's
\* own key for this very call, and for a sensitive path a second key that did
\* not refuse.  In an offline turn nothing runs at all.
NoUnconsentedRun ==
  \A q \in started :
    /\ \/ approval[q] = "user"
       \/ approval[q] = "allowed" /\ proposed[q] \in AllowListed
    /\ proposed[q] \in Sensitive => confirm[q] \in {"store", "nostore"}
    /\ ~offline[q[1]]

\* The session file says "approved" before the command starts, never says both
\* approved and declined, and keeps no output the user asked not to store.
AuditBeforeRun ==
  \A q \in Requests :
    /\ q \in started => "approved" \in audit[q]
    /\ ~({"approved", "declined"} \subseteq audit[q])
    /\ "result" \in audit[q] => confirm[q] \notin {"refuse", "nostore"}
    /\ "declined" \in audit[q] => q \notin started

\* One turn at a time.  The controller's flag, its FSM and its cancel function
\* agree, and belong to the one goroutine that is alive or whose completion is
\* still on the bus.
OneTurn ==
  /\ \A r, s \in Runs : Live(r) /\ Live(s) => r = s
  /\ llmRunning <=> (\E r \in Runs : Live(r)) \/ Has(bus, "done")
  /\ llmRunning <=> fsm = "llm_running"
  /\ llmRunning <=> llmCancel # NoRun
  /\ \A r \in Runs : Live(r) => llmCancel = r

\* Agent r waits for an answer nobody has given.
Blocked(r) == pc[r] \in CardKinds /\ answer[Current(r)] = "none"

\* The card on screen is the question the agent is blocked on now: a key never
\* answers a call that is over, answers it twice, or answers another call.
CardIsLive ==
  /\ card # NoCard =>
       /\ card.req \in Requests
       /\ LET r == card.req[1]
          IN Blocked(r) /\ card = Msg(pc[r], Current(r))
  /\ guiding => card.kind = "approval"

\* An agent that waits for the user has its question on screen or on the way.
NoLostRequest ==
  \A r \in Runs : Alive /\ Blocked(r) =>
    Msg(pc[r], Current(r)) \in Range(agentq) \cup Range(bus) \cup Range(uiq) \cup {card}

\* The two flags that lock the input are never set for good: something that
\* clears them is running or on its way to the UI.
LocksAreReleased ==
  /\ executing =>
       \/ \E r \in Runs : pc[r] \in {"executing", "running", "returned", "recorded"}
       \/ Has(agentq, "execOff") \/ Has(bus, "execOff") \/ Has(uiq, "execOff")
  /\ waiting =>
       \/ Has(cmds, "chat") \/ Has(bus, "chat") \/ llmRunning
       \/ Has(uiq, "reply") \/ Has(uiq, "busy")

\* Esc under [EXECUTING], once sent, always ends in an unlocked input: by the
\* command's own cancellation or, when it came too late, by the turn's.
EscUnlocks == executing /\ Has(cmds, "cancelCommand") ~> ~executing \/ prog # "up"

\* A cancelled turn always ends, or asks the user something that is on screen.
CancelledTurnEnds ==
  \A r \in Runs :
    (r \in ctxCancelled) ~> (pc[r] = "finished" \/ card.req[1] = r \/ prog # "up")

\* Where a call stands, in the terms of CommandConsent.
phaseOf ==
  [q \in Requests |->
     IF q \in started THEN "started"
     ELSE IF approval[q] = "declined" \/ confirm[q] = "refuse" THEN "refused"
     ELSE IF "proposal" \in audit[q] THEN "relayed"
     ELSE IF /\ approval[q] # "none"
             /\ proposed[q] \in Sensitive => confirm[q] # "none" THEN "granted"
     ELSE IF proposed[q] # NoCommand THEN "asked" ELSE "idle"]

Consent == INSTANCE CommandConsent WITH phase <- phaseOf, log <- audit

\* Every step of the UI, the host and the agent is a step of the promise made for
\* some call, or none: nothing runs ungranted, no refusal is taken back, and the
\* decision is in the session file before the command starts.
ImplementsConsent == Consent!Spec

\* execute_command.go: "ESC during [EXECUTING] cancels the command context (not
\* the whole LLM turn)".
EscKeepsTurn ==
  [][bus # <<>> /\ Head(bus).kind = "cancelCommand" /\ bus' = Tail(bus)
       => ctxCancelled' = ctxCancelled]_vars

\* "LLM request is already running; press Esc to cancel it first": while the
\* newest line says so and the turn is running, Esc must be able to cancel.
EscCancelsAsTold ==
  hint /\ prog = "up" /\ (\E r \in Runs : Live(r) /\ r \notin ctxCancelled)
    => \/ waiting \/ executing
       \/ Has(cmds, "cancelTurn") \/ Has(bus, "cancelTurn")

\* /bash: "exit the shell to return to the TUI": asking for the shell never ends
\* the application.
BashReturnsToUI == [][prog = "toBash" => prog' # "exited"]_vars
=============================================================================
