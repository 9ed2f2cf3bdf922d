----------------------------- MODULE HostChannels -----------------------------
(***************************************************************************)
(* The bounded channels between the UI, the host controller and the agent, *)
(* and the goroutines that move messages through them:                     *)
(*                                                                         *)
(*   UI --cmds--> controller --bus--> controller --uiq--> pump --> UI      *)
(*   agent, SSH loops --agentq--> bridge --bus-->                          *)
(*                                                                         *)
(* A goroutine that has taken a message and waits for room in the next     *)
(* channel holds it.  The controller is both the only reader of the bus    *)
(* and, for every command of the UI, a writer to it; when it installs a    *)
(* connection that is in trouble already, it writes to the channel of the  *)
(* agent, too.                                                             *)
(***************************************************************************)
EXTENDS Naturals, Sequences

CONSTANTS
  CmdCap, BusCap, AgentCap, UiCap,  \* 128, 512, 64 and 256 in the code
  MaxLines,                         \* bound: messages of the agent
  MaxIssues,                        \* bound: reports of the loops of a connection
  MaxCommands                       \* bound: commands of the UI

ASSUME CapacityAssumption ==
  /\ CmdCap \in Nat \ {0} /\ BusCap \in Nat \ {0}
  /\ AgentCap \in Nat \ {0} /\ UiCap \in Nat \ {0}
  /\ MaxLines \in Nat /\ MaxCommands \in Nat /\ MaxIssues \in Nat

VARIABLES
  cmds, bus, agentq, uiq,    \* the channels
  ui,                        \* Update is running: blocked in Send, or free
  controller, bridge, pump,  \* what each goroutine holds
  run,                       \* the turn: running, completing, done
  lines,                     \* messages the agent has sent, 1 .. lines
  issues,                    \* reports the loops of a connection have sent
  shown,                     \* those the UI has received
  accepted, handled          \* commands the channel took, and that were handled

vars == <<cmds, bus, agentq, uiq, ui, controller, bridge, pump, run, lines,
          issues, shown, accepted, handled>>

\* A line of the agent, a command of the UI (Esc or any other), the completion
\* of the turn, a notice of the controller itself, or a report that a connection
\* is in trouble or out of it.
Kinds == {"line", "cancel", "other", "done", "notice", "issue"}
Messages == [kind : Kinds, n : 0 .. (MaxLines + MaxCommands)]
Msg(k, n) == [kind |-> k, n |-> n]
Commands == [kind : {"cancel", "other"}, n : 1 .. MaxCommands]

Idle == [does |-> "idle", msg |-> Msg("notice", 0)]
Holding(action, m) == [does |-> action, msg |-> m]
Holds(actions) == [does : actions \cup {"idle"}, msg : Messages]

BoundedSeq(cap) == {s \in Seq(Messages) : Len(s) <= cap}

\* No channel holds more than its capacity, no goroutine more than one message.
TypeOK ==
  /\ cmds \in BoundedSeq(CmdCap) /\ bus \in BoundedSeq(BusCap)
  /\ agentq \in BoundedSeq(AgentCap) /\ uiq \in BoundedSeq(UiCap)
  /\ ui \in {"free", "sending"}
  /\ controller \in Holds({"publish", "present", "report"})
  /\ bridge \in Holds({"publish"})
  /\ pump \in Holds({"deliver"})
  /\ run \in {"running", "completing", "done"}
  /\ lines \in 0 .. MaxLines /\ issues \in 0 .. MaxIssues
  /\ shown \in Seq(1 .. MaxLines)
  /\ accepted \in Seq(Commands) /\ handled \in Seq(Commands)

Init ==
  /\ cmds = <<>> /\ bus = <<>> /\ agentq = <<>> /\ uiq = <<>>
  /\ ui = "free"
  /\ controller = Idle /\ bridge = Idle /\ pump = Idle
  /\ run = "running" /\ lines = 0 /\ issues = 0
  /\ shown = <<>> /\ accepted = <<>> /\ handled = <<>>

\* MUTANT: one message more than make(chan, cap) holds.
RoomForOneMore(queue, cap) == Len(queue) <= cap

Room(queue, cap) == Len(queue) < cap

-----------------------------------------------------------------------------
(* UI: CommandSender.Send.  Esc waits for room, everything else is refused *)
(* when there is none.  Update runs one message at a time.                 *)

Accept(kind) ==
  LET m == Msg(kind, Len(accepted) + 1)
  IN cmds' = Append(cmds, m) /\ accepted' = Append(accepted, m)

SendOther ==
  /\ ui = "free" /\ Len(accepted) < MaxCommands
  /\ Room(cmds, CmdCap) /\ Accept("other")
  /\ UNCHANGED <<bus, agentq, uiq, ui, controller, bridge, pump, run, lines, issues, shown, handled>>

PressEsc ==
  /\ ui = "free" /\ Len(accepted) < MaxCommands
  /\ ui' = "sending"
  /\ UNCHANGED <<cmds, bus, agentq, uiq, controller, bridge, pump, run, lines, issues,
                 shown, accepted, handled>>

SendCancel ==
  /\ ui = "sending"
  /\ Room(cmds, CmdCap) /\ Accept("cancel")
  /\ ui' = "free"
  /\ UNCHANGED <<bus, agentq, uiq, controller, bridge, pump, run, lines, issues, shown, handled>>

-----------------------------------------------------------------------------
(* Controller.run: a select over the bus and the commands.                 *)

TakeCommand ==
  /\ controller = Idle /\ cmds # <<>>
  /\ cmds' = Tail(cmds)
  /\ controller' = Holding("publish", Head(cmds))
  /\ UNCHANGED <<bus, agentq, uiq, ui, bridge, pump, run, lines, issues, shown, accepted, handled>>

\* MUTANT: Publish for PublishBlocking.
PublishedOrDropped == bus' = IF Room(bus, BusCap) THEN Append(bus, controller.msg) ELSE bus

\* PublishBlocking.
Published == Room(bus, BusCap) /\ bus' = Append(bus, controller.msg)

PublishCommand ==
  /\ controller.does = "publish"
  /\ Published
  /\ controller' = Idle
  /\ UNCHANGED <<cmds, agentq, uiq, ui, bridge, pump, run, lines, issues, shown, accepted, handled>>

\* Manager.Set of a connection whose keep-alive has failed since it was dialled.
Installing == Holding("report", Msg("issue", 0))

\* A line, a completion or a report is presented to the UI; a command may or may
\* not print something (a started chat does not), or install a connection.
TakeEvent ==
  /\ controller = Idle /\ bus # <<>>
  /\ bus' = Tail(bus)
  /\ LET e == Head(bus)
     IN \/ /\ e.kind \in {"line", "done", "issue"}
           /\ controller' = Holding("present", e)
           /\ UNCHANGED handled
        \/ /\ e.kind \in {"cancel", "other"}
           /\ controller' \in {Idle, Holding("present", Msg("notice", 0)), Installing}
           /\ handled' = Append(handled, e)
  /\ UNCHANGED <<cmds, agentq, uiq, ui, bridge, pump, run, lines, issues, shown, accepted>>

\* remoteIssueChanged, called by SetTransportIssueHandler; then the status is shown.
ReportInstalled ==
  /\ controller.does = "report"
  /\ Room(agentq, AgentCap) /\ agentq' = Append(agentq, controller.msg)
  /\ controller' = Holding("present", Msg("notice", 0))
  /\ UNCHANGED <<cmds, bus, uiq, ui, bridge, pump, run, lines, issues, shown, accepted, handled>>

\* MUTANT: EnqueueUI for EnqueueUIBlocking.
EnqueuedOrDropped == uiq' = IF Room(uiq, UiCap) THEN Append(uiq, controller.msg) ELSE uiq

\* EnqueueUIBlocking, behind every call of the presenter.
Enqueued == Room(uiq, UiCap) /\ uiq' = Append(uiq, controller.msg)

Present ==
  /\ controller.does = "present"
  /\ Enqueued
  /\ controller' = Idle
  /\ UNCHANGED <<cmds, bus, agentq, ui, bridge, pump, run, lines, issues, shown, accepted, handled>>

-----------------------------------------------------------------------------
(* BridgeInputs and StartUIPump.                                           *)

\* MUTANT: the bridge stops with the turn.
BridgeRunsWithTurn == run = "running"

\* The bridge runs as long as the process.
BridgeRuns == TRUE

BridgeTake ==
  /\ BridgeRuns
  /\ bridge = Idle /\ agentq # <<>>
  /\ agentq' = Tail(agentq)
  /\ bridge' = Holding("publish", Head(agentq))
  /\ UNCHANGED <<cmds, bus, uiq, ui, controller, pump, run, lines, issues, shown, accepted, handled>>

BridgePublish ==
  /\ bridge.does = "publish"
  /\ Room(bus, BusCap) /\ bus' = Append(bus, bridge.msg)
  /\ bridge' = Idle
  /\ UNCHANGED <<cmds, agentq, uiq, ui, controller, pump, run, lines, issues, shown, accepted, handled>>

PumpTake ==
  /\ pump = Idle /\ uiq # <<>>
  /\ uiq' = Tail(uiq)
  /\ pump' = Holding("deliver", Head(uiq))
  /\ UNCHANGED <<cmds, bus, agentq, ui, controller, bridge, run, lines, issues, shown, accepted, handled>>

\* p.Send meets Update, or waits until Update has returned.
PumpDeliver ==
  /\ pump.does = "deliver" /\ ui = "free"
  /\ pump' = Idle
  /\ shown' = IF pump.msg.kind = "line" THEN Append(shown, pump.msg.n) ELSE shown
  /\ UNCHANGED <<cmds, bus, agentq, uiq, ui, controller, bridge, run, lines, issues, accepted, handled>>

-----------------------------------------------------------------------------
(* The agent: the lines of its commands, then the completion of the turn,  *)
(* which goes to the bus without passing the bridge.                       *)

Emit ==
  /\ run = "running" /\ lines < MaxLines
  /\ Room(agentq, AgentCap) /\ agentq' = Append(agentq, Msg("line", lines + 1))
  /\ lines' = lines + 1
  /\ UNCHANGED <<cmds, bus, uiq, ui, controller, bridge, pump, run, issues, shown, accepted, handled>>

EndRun ==
  /\ run = "running"
  /\ run' = "completing"
  /\ UNCHANGED <<cmds, bus, agentq, uiq, ui, controller, bridge, pump, lines, issues,
                 shown, accepted, handled>>

Complete ==
  /\ run = "completing"
  /\ Room(bus, BusCap) /\ bus' = Append(bus, Msg("done", 0))
  /\ run' = "done"
  /\ UNCHANGED <<cmds, agentq, uiq, ui, controller, bridge, pump, lines, issues,
                 shown, accepted, handled>>

-----------------------------------------------------------------------------
(* The keep-alive and recovery loops of a connection: reportTransportIssue *)
(* when it is lost and when it is back.                                    *)

Report ==
  /\ issues < MaxIssues
  /\ Room(agentq, AgentCap) /\ agentq' = Append(agentq, Msg("issue", 0))
  /\ issues' = issues + 1
  /\ UNCHANGED <<cmds, bus, uiq, ui, controller, bridge, pump, run, lines, shown, accepted, handled>>

-----------------------------------------------------------------------------
Controller == TakeCommand \/ PublishCommand \/ TakeEvent \/ ReportInstalled \/ Present
Bridge == BridgeTake \/ BridgePublish
Pump == PumpTake \/ PumpDeliver

Next ==
  \/ SendOther \/ PressEsc \/ SendCancel
  \/ Controller \/ Bridge \/ Pump
  \/ Emit \/ EndRun \/ Complete \/ Report

Spec == Init /\ [][Next]_vars

\* A goroutine that can move moves.  The user, the agent and a
\* connection need not.
Fairness ==
  /\ WF_vars(SendCancel) /\ WF_vars(Controller) /\ WF_vars(Bridge)
  /\ WF_vars(Pump) /\ WF_vars(Complete)

FairSpec == Spec /\ Fairness

-----------------------------------------------------------------------------
(* Properties.                                                             *)

AgentPipe ==
  INSTANCE Pipe WITH Message <- 1 .. MaxLines,
                     sent <- [i \in 1 .. lines |-> i], received <- shown
CommandPipe == INSTANCE Pipe WITH Message <- Commands, sent <- accepted, received <- handled

\* What the agent sends reaches the UI in order, nothing lost or doubled, over
\* three channels and three goroutines with full channels anywhere.
AgentToUI == AgentPipe!Spec

\* So do the commands the channel took from the UI, on their way to a handler.
CommandsToHost == CommandPipe!Spec

\* The controller waits for room on the bus that only it can make.
SelfWait == controller.does = "publish" /\ ~Room(bus, BusCap)

\* Update waits for the controller, the controller for the pump, the pump for
\* Update.
CircularWait ==
  /\ ui = "sending" /\ ~Room(cmds, CmdCap)
  /\ pump.does = "deliver"
  /\ controller.does = "present" /\ ~Room(uiq, UiCap)

\* The controller waits for the bridge, the bridge for the controller.
InstallWait ==
  /\ controller.does = "report" /\ ~Room(agentq, AgentCap)
  /\ bridge.does = "publish" /\ ~Room(bus, BusCap)

Stuck == SelfWait \/ CircularWait \/ InstallWait

\* Each of these waits is for good: no timeout, no other reader, no way out.
StuckIsForever == [][Stuck => Stuck']_vars

\* Nothing else ever stops the traffic: a message the agent sent is shown, or one
\* of the three waits has begun.
LinesShownUnlessStuck == \A i \in 1 .. MaxLines : lines >= i ~> Len(shown) >= i \/ Stuck

\* A command the channel took is handled, or one of the three waits has begun.
CommandsHandledUnlessStuck ==
  \A i \in 1 .. MaxCommands : Len(accepted) >= i ~> Len(handled) >= i \/ Stuck

\* ui/actions.go: "Cancel must not be dropped when the channel is momentarily
\* full; otherwise [...] the host never runs handleCancelRequest": the host gets
\* to every Esc that was sent.
EscIsHandled ==
  \A i \in 1 .. MaxCommands :
    Len(accepted) >= i /\ accepted[i].kind = "cancel" ~> Len(handled) >= i
=============================================================================
