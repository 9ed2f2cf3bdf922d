----------------------------- MODULE ExecTarget -----------------------------
(***************************************************************************)
(* Where commands run.  The user switches with /access between the local   *)
(* host, remote hosts and the offline mode; the controller carries the     *)
(* switch out in several steps, each on a store of its own:                *)
(*                                                                         *)
(*   executor   the executor of the executor manager                       *)
(*   mode       the runtime's mirror, read for the audit and the prompt    *)
(*   runner     the cached runner, with the offline flag it was built with *)
(*   footer     what the status line shows                                 *)
(*   memCtx     the host whose memory is put into the prompt               *)
(*                                                                         *)
(* while a turn of the model proposes commands, asks and runs them, and    *)
(* while probes of the hosts are under way.                                *)
(***************************************************************************)
EXTENDS Naturals, Sequences, SequencesExt

CONSTANTS
  Hosts,          \* remote hosts
  Local, Offline, None,
  Known,          \* hosts whose key is in known_hosts
  Configured,     \* hosts with an identity file in remotes.yaml or ssh_config
  MaxInputs,      \* bound: /access commands, chats and troubles together
  MaxCalls,       \* bound: tool calls of all turns
  MaxTroubles     \* bound: failures and recoveries a connection reports

ASSUME TargetsAssumption ==
  /\ Known \subseteq Hosts /\ Configured \subseteq Hosts
  /\ {Local, Offline, None} \cap Hosts = {}
  /\ Local # Offline /\ Local # None /\ Offline # None

ASSUME InputsAssumption ==
  MaxInputs \in Nat /\ MaxCalls \in Nat /\ MaxTroubles \in Nat

Targets == Hosts \cup {Local, Offline}
Machines == Hosts \cup {Local}        \* where a command can run

SwitchKinds == {"remote", "local", "offline", "accept", "secret"}
InputKinds == SwitchKinds \cup {"reject", "chat"}
Inputs == [kind : InputKinds, host : Hosts \cup {None}]
In(k, h) == [kind |-> k, host |-> h]

PromptKinds == {"hostKey", "auth", "auto"}
MessageKinds == PromptKinds \cup {"status", "report", "done", "failed", "card", "reply"}
Messages == [kind : MessageKinds, target : Targets \cup {None}]
Msg(k, t) == [kind |-> k, target |-> t]

Dialogs == [kind : PromptKinds \cup {"none", "connect"}, host : Hosts \cup {None}, busy : BOOLEAN]
Dialog(k, h, b) == [kind |-> k, host |-> h, busy |-> b]
NoDialog == Dialog("none", None, FALSE)

VARIABLES
  inbox, uiq, reports,                  \* commands, messages to the UI, keep-alive reports
  dialog, waiting, card, footer,        \* UI
  ctl, mode, runner, pending, trusted,  \* controller, runtime, runner cache, host keys
  executor, orphans, creds,             \* executor manager; connections nobody closed
  probes, memCtx,                       \* host memory
  pc, turnOffline, ctx,                 \* the turn and its call
  inputs, calls, troubles,              \* how much of the bounds is used
  turnMode, seen, calm, steady, odd, last  \* history

queues == <<inbox, uiq, reports>>
screen == <<dialog, waiting, card, footer>>
execs == <<executor, orphans, creds>>
host == <<ctl, mode, runner, pending, trusted>>
memory == <<probes, memCtx>>
turn == <<pc, turnOffline, ctx>>
bounds == <<inputs, calls, troubles>>
history == <<turnMode, seen, calm, steady, odd, last>>
vars == <<queues, screen, host, execs, memory, turn, bounds, history>>

Idle == [at |-> "idle", host |-> None]

\* What is remembered of the command that runs.
RunRecord == [mode : Targets, target : Machines, seen : Targets \cup {None},
              ctx : Targets, turnMode : Targets, footer : Targets, calm : BOOLEAN,
              steady : BOOLEAN]
NoRunYet == [mode |-> Local, target |-> Local, seen |-> None, ctx |-> Local,
             turnMode |-> Local, footer |-> Local, calm |-> FALSE, steady |-> FALSE]

\* Every variable has its type.
TypeOK ==
  /\ inbox \in Seq(Inputs) /\ uiq \in Seq(Messages) /\ reports \in Seq(Targets)
  /\ dialog \in Dialogs /\ waiting \in BOOLEAN /\ card \in BOOLEAN /\ footer \in Targets
  /\ ctl \in [at : {"idle", "connecting", "connected", "toLocal", "toOffline"},
              host : Hosts \cup {None}]
  /\ mode \in Targets /\ runner \in {"none", "online", "offline"}
  /\ pending \in Hosts \cup {None} /\ trusted \subseteq Hosts
  /\ executor \in Machines /\ orphans \subseteq Hosts /\ creds \subseteq Hosts
  /\ probes \subseteq Machines /\ memCtx \in Machines \cup {None}
  /\ pc \in {"none", "thinking", "asking", "ready", "running"}
  /\ turnOffline \in BOOLEAN /\ ctx \in Targets
  /\ inputs \in 0 .. MaxInputs /\ calls \in 0 .. MaxCalls /\ troubles \in 0 .. MaxTroubles
  /\ turnMode \in Targets
  /\ seen \in Targets \cup {None} /\ calm \in BOOLEAN /\ steady \in BOOLEAN
  /\ odd \subseteq {"stray", "login"} /\ last \in RunRecord

\* The controller probes the local host when it starts.
Init ==
  /\ inbox = <<>> /\ uiq = <<>> /\ reports = <<>>
  /\ dialog = NoDialog /\ waiting = FALSE /\ card = FALSE /\ footer = Local
  /\ ctl = Idle /\ mode = Local /\ runner = "none" /\ pending = None /\ trusted = Known
  /\ executor = Local /\ orphans = {} /\ creds = {}
  /\ probes = {Local} /\ memCtx = None
  /\ pc = "none" /\ turnOffline = FALSE /\ ctx = Local
  /\ inputs = 0 /\ calls = 0 /\ troubles = 0
  /\ turnMode = Local /\ seen = None /\ calm = FALSE
  /\ steady = FALSE /\ odd = {} /\ last = NoRunYet

-----------------------------------------------------------------------------
(* The user.  A card takes the keys before the dialog does; while the input *)
(* is locked the dialog gets no key but Esc.                                *)

MainInput == dialog.kind = "none" /\ ~waiting /\ ~card

Type(input) ==
  /\ MainInput
  /\ inputs + troubles < MaxInputs
  /\ inputs' = inputs + 1
  /\ inbox' = Append(inbox, input)
  /\ UNCHANGED <<uiq, reports, card, footer, host, execs, memory, turn, calls, troubles, history>>

\* /access host opens the connecting dialog and sends the command from there.
AccessRemote ==
  \E h \in Hosts :
    /\ Type(In("remote", h))
    /\ dialog' = Dialog("connect", h, TRUE)
    /\ UNCHANGED waiting

AccessLocal == Type(In("local", None)) /\ UNCHANGED <<dialog, waiting>>
AccessOffline == Type(In("offline", None)) /\ UNCHANGED <<dialog, waiting>>
Chat == Type(In("chat", None)) /\ waiting' = TRUE /\ UNCHANGED dialog

\* Esc closes the dialog and tells nobody.
CloseDialog ==
  /\ dialog.kind # "none" /\ ~card
  /\ dialog' = NoDialog
  /\ UNCHANGED <<queues, waiting, card, footer, host, execs, memory, turn, bounds, history>>

DialogKey(kind) == dialog.kind = kind /\ ~dialog.busy /\ ~waiting /\ ~card

AcceptKey ==
  /\ DialogKey("hostKey")
  /\ inbox' = Append(inbox, In("accept", dialog.host))
  /\ dialog' = [dialog EXCEPT !.busy = TRUE]
  /\ UNCHANGED <<uiq, reports, waiting, card, footer, host, execs, memory, turn, bounds,
                 turnMode, seen, calm, steady, odd, last>>

RejectKey ==
  /\ DialogKey("hostKey")
  /\ inbox' = Append(inbox, In("reject", dialog.host))
  /\ dialog' = NoDialog
  /\ UNCHANGED <<uiq, reports, waiting, card, footer, host, execs, memory, turn, bounds, history>>

\* A password, or the path of a key.
GiveSecret ==
  /\ DialogKey("auth")
  /\ inbox' = Append(inbox, In("secret", dialog.host))
  /\ dialog' = [dialog EXCEPT !.busy = TRUE]
  /\ UNCHANGED <<uiq, reports, waiting, card, footer, host, execs, memory, turn, bounds, history>>

\* Nothing that switches the target is on its way.
Settled ==
  /\ ctl = Idle /\ reports = <<>>
  /\ \A i \in DOMAIN inbox : inbox[i].kind \notin SwitchKinds
  /\ \A i \in DOMAIN uiq : uiq[i].kind \notin {"status", "report"}

Approve ==
  /\ card
  /\ card' = FALSE
  /\ pc' = "ready"
  /\ seen' = footer
  /\ calm' = Settled
  /\ UNCHANGED <<queues, dialog, waiting, footer, host, execs, memory, turnOffline, ctx,
                 bounds, turnMode, steady, odd, last>>

\* Dismissing a card unlocks the input while the turn goes on.
Dismiss ==
  /\ card
  /\ card' = FALSE
  /\ waiting' = FALSE
  /\ pc' = "thinking"
  /\ ctx' = Local /\ steady' = FALSE
  /\ UNCHANGED <<queues, dialog, footer, host, execs, memory, turnOffline, bounds,
                 turnMode, seen, calm, odd, last>>

-----------------------------------------------------------------------------
(* The executor manager.                                                   *)

MachineOf(t) == IF t = Offline THEN Local ELSE t

\* A new connection takes the place of the old one, which nobody closes.
SwitchTo(h) ==
  /\ executor' = h
  /\ orphans' = orphans \cup ({executor} \cap Hosts)

SwitchToLocalKeepsCreds == executor' = Local /\ UNCHANGED <<creds, orphans>>
SwitchToLocalKeepsExecutor == creds' = {} /\ UNCHANGED <<executor, orphans>>
SwitchToLocalStoresMode == executor' = mode /\ creds' = {} /\ UNCHANGED orphans

\* The current connection is closed, what the user typed is forgotten.
SwitchToLocal == executor' = Local /\ creds' = {} /\ UNCHANGED orphans

-----------------------------------------------------------------------------
(* The controller: one goroutine, which takes one command after the other. *)
(* The agent and the probes see it stop halfway at ctl.                    *)

Take(kind) ==
  /\ ctl = Idle
  /\ inbox # <<>> /\ Head(inbox).kind = kind
  /\ inbox' = Tail(inbox)

\* History: a switch begins, perhaps while a probe of the old machine runs.
Strays == IF probes = {} THEN {} ELSE {"stray"}
Moves == calm' = FALSE /\ steady' = FALSE /\ odd' = odd \cup Strays

InvalidateNothing == UNCHANGED runner
Invalidate == runner' = "none"

Show(msgs) == uiq' = uiq \o msgs

\* handleAccessRemote leaves the offline mode before it connects.
BeginRemote ==
  /\ Take("remote")
  /\ ctl' = [at |-> "connecting", host |-> Head(inbox).host]
  /\ mode' = MachineOf(mode)
  /\ Invalidate
  /\ Moves
  /\ UNCHANGED <<uiq, reports, screen, pending, trusted, execs, memory, turn, bounds,
                 turnMode, seen, last>>

Connecting == ctl.at = "connecting"

ConnectUntouched == UNCHANGED <<inbox, reports, screen, memory, turn, bounds, history>>

\* With the credential that worked last time, or without one.
ConnectCached ==
  /\ Connecting /\ ctl.host \in trusted \cap creds
  /\ SwitchTo(ctl.host)
  /\ ctl' = [ctl EXCEPT !.at = "connected"]
  /\ UNCHANGED <<uiq, mode, runner, pending, trusted, creds>> /\ ConnectUntouched

ConnectFresh ==
  /\ Connecting /\ ctl.host \in trusted
  /\ SwitchTo(ctl.host)
  /\ creds' = creds \ {ctl.host}
  /\ ctl' = [ctl EXCEPT !.at = "connected"]
  /\ Show(IF ctl.host \in Configured THEN <<Msg("auto", ctl.host)>> ELSE <<>>)
  /\ UNCHANGED <<mode, runner, pending, trusted>> /\ ConnectUntouched

FailConnectSilently(msgs) ==
  /\ Connecting
  /\ ctl' = Idle
  /\ creds' = creds \ {ctl.host}
  /\ UNCHANGED <<uiq, mode, runner, trusted, executor, orphans>> /\ ConnectUntouched
FailConnectDisconnected(msgs) ==
  /\ Connecting
  /\ ctl' = Idle
  /\ creds' = creds \ {ctl.host}
  /\ Show(msgs)
  /\ executor' = Local
  /\ UNCHANGED <<mode, runner, trusted, orphans>> /\ ConnectUntouched

FailConnect(msgs) ==
  /\ Connecting
  /\ ctl' = Idle
  /\ creds' = creds \ {ctl.host}
  /\ Show(msgs)
  /\ UNCHANGED <<mode, runner, trusted, executor, orphans>> /\ ConnectUntouched

\* The host shows a key known_hosts does not have: the decision is kept in
\* pending, over any earlier one.
HostKeyUnknown ==
  /\ ctl.host \notin trusted
  /\ FailConnect(<<Msg("hostKey", ctl.host)>>)
  /\ pending' = ctl.host

AuthRefused ==
  /\ ctl.host \in trusted
  /\ FailConnect(<<Msg("auth", ctl.host)>>)
  /\ UNCHANGED pending

Unreachable == FailConnect(<<Msg("failed", ctl.host)>>) /\ UNCHANGED pending

FinishConnectRemembers ==
  /\ ctl.at = "connected"
  /\ ctl' = Idle
  /\ mode' = ctl.host
  /\ probes' = probes \cup {executor}
  /\ Show(<<Msg("status", ctl.host), Msg("done", ctl.host)>>)
  /\ UNCHANGED <<inbox, reports, screen, runner, pending, trusted, execs, memCtx, turn, bounds, history>>

\* SetRemoteExecution, the probe of the new host, and the messages to the UI.
FinishConnect ==
  /\ ctl.at = "connected"
  /\ ctl' = Idle
  /\ mode' = ctl.host
  /\ memCtx' = None
  /\ probes' = probes \cup {executor}
  /\ Show(<<Msg("status", ctl.host), Msg("done", ctl.host)>>)
  /\ UNCHANGED <<inbox, reports, screen, runner, pending, trusted, execs, turn, bounds, history>>

BeginLocal ==
  /\ Take("local")
  /\ ctl' = [at |-> "toLocal", host |-> None]
  /\ mode' = Local /\ memCtx' = None
  /\ Moves
  /\ UNCHANGED <<uiq, reports, screen, runner, pending, trusted, execs, probes, turn, bounds,
                 turnMode, seen, last>>

FinishLocalUnseen ==
  /\ ctl.at = "toLocal"
  /\ ctl' = Idle
  /\ SwitchToLocal /\ Invalidate
  /\ probes' = probes \cup {Local}
  /\ UNCHANGED <<inbox, uiq, reports, screen, mode, pending, trusted, memCtx, turn, bounds, history>>

FinishLocal ==
  /\ ctl.at = "toLocal"
  /\ ctl' = Idle
  /\ SwitchToLocal /\ Invalidate
  /\ Show(<<Msg("status", Local)>>)
  /\ probes' = probes \cup {Local}
  /\ UNCHANGED <<inbox, reports, screen, mode, pending, trusted, memCtx, turn, bounds, history>>

BeginOffline ==
  /\ Take("offline")
  /\ ctl' = [at |-> "toOffline", host |-> None]
  /\ SwitchToLocal
  /\ Moves
  /\ UNCHANGED <<uiq, reports, screen, mode, runner, pending, trusted, memory, turn, bounds,
                 turnMode, seen, last>>

FinishOffline ==
  /\ ctl.at = "toOffline"
  /\ ctl' = Idle
  /\ mode' = Offline /\ memCtx' = None
  /\ Invalidate
  /\ Show(<<Msg("status", Offline)>>)
  /\ UNCHANGED <<inbox, reports, screen, pending, trusted, execs, probes, turn, bounds, history>>

\* The answer to a host-key prompt carries the host that was asked about; it
\* is pending that is resolved.
AnswerUntouched ==
  UNCHANGED <<reports, screen, mode, runner, memory, turn, bounds, turnMode, seen, last>>

AnswersNothing == AnswerUntouched /\ UNCHANGED <<calm, steady, odd>>

NothingPending(kind) ==
  /\ Take(kind) /\ pending = None
  /\ Show(<<Msg("failed", Head(inbox).host)>>)
  /\ UNCHANGED <<ctl, pending, trusted, execs>> /\ AnswersNothing

RefuseKey ==
  /\ Take("reject") /\ pending # None
  /\ pending' = None
  /\ Show(<<Msg("failed", pending)>>)
  /\ UNCHANGED <<ctl, trusted, execs>> /\ AnswersNothing

\* History: a login that may find an offline runner in the cache.
Answers ==
  /\ calm' = FALSE /\ steady' = FALSE
  /\ odd' = odd \cup Strays \cup (IF runner = "offline" THEN {"login"} ELSE {})

\* UpdateKnownHost may fail, and so may the second attempt to connect.
TrustKey ==
  /\ Take("accept") /\ pending # None
  /\ pending' = None
  /\ Answers
  /\ \/ /\ trusted' = trusted \cup {pending}
        /\ SwitchTo(pending)
        /\ ctl' = [at |-> "connected", host |-> pending]
        /\ UNCHANGED <<uiq, creds>>
     \/ /\ trusted' \in {trusted, trusted \cup {pending}}
        /\ Show(<<Msg("auth", pending), Msg("failed", pending)>>)
        /\ UNCHANGED <<ctl, execs>>
  /\ AnswerUntouched

LogIn ==
  /\ Take("secret")
  /\ Answers
  /\ LET h == Head(inbox).host IN
     \/ /\ h \in trusted
        /\ creds' = creds \cup {h}
        /\ SwitchTo(h)
        /\ ctl' = [at |-> "connected", host |-> h]
        /\ UNCHANGED uiq
     \/ /\ Show(<<Msg("auth", h)>>)
        /\ UNCHANGED <<ctl, execs>>
  /\ UNCHANGED <<pending, trusted>> /\ AnswerUntouched

\* runnermgr.Get: the cached runner, or a new one that freezes the mode.
RunnerOffline == IF runner = "none" THEN mode = Offline ELSE runner = "offline"

StartTurn ==
  /\ Take("chat") /\ pc = "none"
  /\ runner' = IF RunnerOffline THEN "offline" ELSE "online"
  /\ turnOffline' = RunnerOffline
  /\ turnMode' = mode
  /\ pc' = "thinking"
  /\ UNCHANGED <<uiq, reports, screen, ctl, mode, pending, trusted, execs, memory, ctx, bounds,
                 seen, calm, steady, odd, last>>

\* A turn is running, or the runner cannot be built.
RefuseChat ==
  /\ Take("chat")
  /\ Show(<<Msg("reply", None)>>)
  /\ UNCHANGED <<reports, screen, host, execs, memory, turn, bounds, history>>

-----------------------------------------------------------------------------
(* The turn.  The execution context is read before the user is asked, the  *)
(* executor is fetched when the command starts.                            *)

Asks(asks) ==
  /\ calls < MaxCalls /\ calls' = calls + 1
  /\ pc = "thinking"
  /\ ctx' = mode
  /\ steady' = (ctl = Idle)
  /\ IF asks THEN pc' = "asking" /\ UNCHANGED <<seen, calm>>
             ELSE pc' = "ready" /\ seen' = None /\ calm' = FALSE
  /\ UNCHANGED <<queues, screen, host, execs, memory, turnOffline, inputs, troubles,
                 turnMode, odd, last>>

Propose == ~turnOffline /\ Asks(TRUE)
ProposeAllowed == ~turnOffline /\ Asks(FALSE)

\* The card goes the way of all messages.
ShowQuestion ==
  /\ pc = "asking" /\ ~card
  /\ \A i \in DOMAIN uiq : uiq[i].kind # "card"
  /\ Show(<<Msg("card", None)>>)
  /\ UNCHANGED <<inbox, reports, screen, host, execs, memory, turn, bounds, history>>

StartCommand ==
  /\ pc = "ready"
  /\ pc' = "running"
  /\ last' = [mode |-> mode, target |-> executor, seen |-> seen, ctx |-> ctx,
              turnMode |-> turnMode, footer |-> footer, calm |-> calm, steady |-> steady]
  /\ UNCHANGED <<queues, screen, host, execs, memory, turnOffline, ctx, bounds,
                 turnMode, seen, calm, steady, odd>>

\* The call is over: what was remembered of it is dropped.
ForgetCall ==
  /\ ctx' = Local /\ seen' = None /\ calm' = FALSE /\ steady' = FALSE /\ last' = NoRunYet
  /\ UNCHANGED <<turnMode, odd>>

CommandReturns ==
  /\ pc = "running"
  /\ pc' = "thinking"
  /\ ForgetCall
  /\ UNCHANGED <<queues, screen, host, execs, memory, turnOffline, bounds>>

EndTurn ==
  /\ pc = "thinking"
  /\ pc' = "none"
  /\ turnOffline' = FALSE /\ turnMode' = Local
  /\ Show(<<Msg("reply", None)>>)
  /\ UNCHANGED <<inbox, reports, screen, host, execs, memory, ctx, bounds,
                 seen, calm, steady, odd, last>>

-----------------------------------------------------------------------------
(* Probes, keep-alives, and what reaches the UI.                           *)

\* refreshHostMemory sets the context of the host it was started for.
ProbeEnds ==
  \E m \in probes :
    /\ probes' = probes \ {m}
    /\ memCtx' \in {memCtx, m}
    /\ UNCHANGED <<queues, screen, host, execs, turn, bounds, history>>

\* remoteIssueChanged names the target of the runtime, whoever reports: a
\* keep-alive, or a command that has returned.
ReportTrouble ==
  /\ troubles < MaxTroubles /\ inputs + troubles < MaxInputs
  /\ troubles' = troubles + 1
  /\ ({executor} \cup orphans) \cap Hosts # {}
  /\ reports' = IF mode \in Hosts THEN Append(reports, mode) ELSE reports
  /\ UNCHANGED <<inbox, uiq, screen, host, execs, memory, turn, inputs, calls, history>>

RelayReport ==
  /\ reports # <<>>
  /\ reports' = Tail(reports)
  /\ Show(<<Msg("report", Head(reports))>>)
  /\ UNCHANGED <<inbox, screen, host, execs, memory, turn, bounds, history>>

Arrives(kinds) ==
  /\ uiq # <<>> /\ Head(uiq).kind \in kinds
  /\ uiq' = Tail(uiq)
  /\ UNCHANGED <<inbox, reports, host, execs, memory, turn, bounds, history>>

\* ExecutionChangedMsg
ShowStatus ==
  /\ Arrives({"status", "report"})
  /\ footer' = Head(uiq).target
  /\ UNCHANGED <<dialog, waiting, card>>

\* AuthPromptMsg opens its dialog over whatever is there.
ShowPrompt ==
  /\ Arrives(PromptKinds)
  /\ dialog' = Dialog(Head(uiq).kind, Head(uiq).target, Head(uiq).kind = "auto")
  /\ UNCHANGED <<waiting, card, footer>>

\* ConnectDoneMsg
ShowConnected ==
  /\ Arrives({"done"})
  /\ dialog' = NoDialog
  /\ UNCHANGED <<waiting, card, footer>>

ShowFailed ==
  /\ Arrives({"failed"})
  /\ dialog' = [dialog EXCEPT !.busy = FALSE]
  /\ UNCHANGED <<waiting, card, footer>>

ShowCard == Arrives({"card"}) /\ card' = TRUE /\ UNCHANGED <<dialog, waiting, footer>>
ShowReply == Arrives({"reply"}) /\ waiting' = FALSE /\ UNCHANGED <<dialog, card, footer>>

-----------------------------------------------------------------------------
User ==
  \/ AccessRemote \/ AccessLocal \/ AccessOffline \/ Chat \/ CloseDialog
  \/ AcceptKey \/ RejectKey \/ GiveSecret \/ Approve \/ Dismiss

Controller ==
  \/ BeginRemote \/ ConnectCached \/ ConnectFresh \/ HostKeyUnknown \/ AuthRefused
  \/ Unreachable \/ FinishConnect \/ BeginLocal \/ FinishLocal \/ BeginOffline
  \/ FinishOffline \/ NothingPending("accept") \/ NothingPending("reject")
  \/ RefuseKey \/ TrustKey \/ LogIn \/ StartTurn \/ RefuseChat

Turn ==
  \/ Propose \/ ProposeAllowed \/ ShowQuestion \/ StartCommand \/ CommandReturns \/ EndTurn

Pump ==
  \/ ShowStatus \/ ShowPrompt \/ ShowConnected \/ ShowFailed \/ ShowCard \/ ShowReply

Next == User \/ Controller \/ Turn \/ Pump \/ ProbeEnds \/ ReportTrouble \/ RelayReport

Spec == Init /\ [][Next]_vars

-----------------------------------------------------------------------------
(* Properties.                                                             *)

\* Between two commands of the user the runtime's mirror and the executor
\* manager name the same machine, although each switch changes them in steps
\* of its own and may fail halfway (exec_remote.go).
TargetsAgree == ctl = Idle => executor = MachineOf(mode)

\* When every message has arrived the status line names the machine commands
\* run on.  "Offline" may stand for the local host, see FailConnect.
FooterAgrees ==
  Settled /\ troubles = 0 => MachineOf(footer) = executor

\* A turn that starts in the offline mode executes nothing, whatever the user
\* switches to while it runs and whichever runner the cache holds.
OfflineTurnsExecuteNothing == last.turnMode # Offline

\* A command approved while nothing was being switched runs on the machine
\* the status line showed, unless the user has asked to switch since or a
\* keep-alive has relabelled the line: see ReportTrouble.
NoSilentSwitch ==
  last.calm /\ troubles = 0 => last.target = MachineOf(last.seen)

\* Passwords the user typed are forgotten when the host is left for the local
\* host or the offline mode, and no failing attempt brings them back.
CredsAreForgotten == ctl = Idle /\ executor = Local => creds = {}

\* While a dialog says "Connecting..." an answer is on its way to it: in the
\* inbox, in the hands of the controller, or among the messages to the UI.
BusyIsAnswered ==
  dialog.busy =>
    \/ ctl # Idle
    \/ \E i \in DOMAIN inbox : inbox[i].kind \in {"remote", "accept", "secret"}
    \/ \E i \in DOMAIN uiq : uiq[i].kind \in {"hostKey", "auth", "done", "failed"}

\* The runner of a turn was built for the mode in which the turn started,
\* unless a login found an offline runner in the cache: handleRemoteAuthResp
\* does not drop it.
RunnerFitsMode ==
  pc # "none" /\ "login" \notin odd => (turnOffline <=> turnMode = Offline)

\* The host memory put into the prompt is that of the current machine, unless
\* a probe of an earlier one was still running when it was left
\* (refreshHostMemory sets the context of the host it was started for).
MemoryFits ==
  ctl = Idle /\ mode # Offline /\ "stray" \notin odd => memCtx \in {None, executor}

\* The audit names the machine a command ran on, unless a switch began between
\* the proposal, which reads the context, and the start, which gets the
\* executor (execute_command.go).
AuditNamesTarget == last.steady => MachineOf(last.ctx) = last.target
=============================================================================
