-------------------------- MODULE HostChannels_proofs --------------------------
(***************************************************************************)
(* Proofs about HostChannels, for every capacity and any number of         *)
(* messages: what a channel took arrives, once and in the order it was     *)
(* sent, and a wait of the goroutines for each other is never over.        *)
(***************************************************************************)
EXTENDS HostChannels, TLAPS

USE DEF vars
USE CapacityAssumption

-----------------------------------------------------------------------------
(* What travels where.                                                     *)

CommandKinds == {"cancel", "other"}
Lines == [kind : {"line"}, n : 1 .. MaxLines]
Reports == Lines \cup {Msg("issue", 0)}
Events == Reports \cup Commands \cup {Msg("done", 0)}
Outputs == Reports \cup {Msg("done", 0), Msg("notice", 0)}

\* Commands and lines keep to their ways: nothing comes back to the bus that was
\* for the UI, and only the controller holds what is neither a line nor a report.
WaysInv ==
  /\ cmds \in Seq(Commands) /\ bus \in Seq(Events)
  /\ agentq \in Seq(Reports) /\ uiq \in Seq(Outputs)
  /\ controller.does = "publish" => controller.msg \in Commands
  /\ controller.does = "present" => controller.msg \in Outputs
  /\ controller.does = "report" => controller.msg = Msg("issue", 0)
  /\ bridge.does = "publish" => bridge.msg \in Reports
  /\ pump.does = "deliver" => pump.msg \in Outputs
  /\ Len(accepted) <= MaxCommands
  /\ ui = "sending" => Len(accepted) < MaxCommands

\* Every kind of message is a message.
LEMMA MessageTypes ==
  /\ Commands \subseteq Messages /\ Lines \subseteq Messages
  /\ Reports \subseteq Messages /\ Reports \subseteq Events /\ Reports \subseteq Outputs
  /\ Events \subseteq Messages /\ Outputs \subseteq Messages
  /\ Idle.does = "idle" /\ Idle.msg \in Messages
  /\ \A e \in Events : /\ e.kind \in CommandKinds <=> e \in Commands
                       /\ e.kind = "line" <=> e \in Lines
                       /\ e.kind \in {"line", "done", "issue"} => e \in Outputs
                       /\ e.kind \in CommandKinds \cup {"line", "done", "issue"}
  /\ \A e \in Outputs : /\ e.kind = "line" <=> e \in Lines
                        /\ e.kind \notin CommandKinds
  BY DEF Commands, Lines, Reports, Events, Outputs, Messages, Kinds, Msg, CommandKinds, Idle

\* Sending into a channel with room keeps its bound, receiving too.
LEMMA BoundedSteps ==
  ASSUME NEW S, NEW s \in Seq(S), NEW cap \in Nat, Len(s) <= cap
  PROVE  /\ \A m \in S : Append(s, m) \in Seq(S) /\ Len(Append(s, m)) = Len(s) + 1
         /\ s # <<>> => Head(s) \in S /\ Tail(s) \in Seq(S) /\ Len(Tail(s)) <= cap
  OBVIOUS

\* A channel keeps its bound whatever is sent and received.
LEMMA ChannelsStep == TypeOK /\ WaysInv /\ [Next]_vars =>
  /\ cmds' \in Seq(Commands) /\ bus' \in Seq(Events)
  /\ agentq' \in Seq(Reports) /\ uiq' \in Seq(Outputs)
  /\ Len(cmds') <= CmdCap /\ Len(bus') <= BusCap
  /\ Len(agentq') <= AgentCap /\ Len(uiq') <= UiCap
  <1> SUFFICES ASSUME TypeOK, WaysInv, [Next]_vars
               PROVE  /\ cmds' \in Seq(Commands) /\ Len(cmds') <= CmdCap
                      /\ bus' \in Seq(Events) /\ Len(bus') <= BusCap
                      /\ agentq' \in Seq(Reports) /\ Len(agentq') <= AgentCap
                      /\ uiq' \in Seq(Outputs) /\ Len(uiq') <= UiCap
    OBVIOUS
  <1> USE DEF Room
  <1>0. /\ cmds \in Seq(Commands) /\ Len(cmds) <= CmdCap
        /\ bus \in Seq(Events) /\ Len(bus) <= BusCap
        /\ agentq \in Seq(Reports) /\ Len(agentq) <= AgentCap
        /\ uiq \in Seq(Outputs) /\ Len(uiq) <= UiCap
        /\ Len(accepted) \in Nat
    BY DEF TypeOK, WaysInv, BoundedSeq
  <1>1. cmds' \in Seq(Commands) /\ Len(cmds') <= CmdCap
    <2>1. CASE UNCHANGED cmds
      BY <1>0, <2>1
    <2>2. CASE SendOther \/ SendCancel
      <3>1. PICK m : /\ m = Msg("other", Len(accepted) + 1) \/ m = Msg("cancel", Len(accepted) + 1)
                     /\ cmds' = Append(cmds, m)
        BY <2>2 DEF SendOther, SendCancel, Accept
      <3>2. Len(accepted) < MaxCommands /\ Len(cmds) < CmdCap
        BY <2>2 DEF SendOther, SendCancel, WaysInv
      <3>3. m \in Commands
        BY <1>0, <3>1, <3>2 DEF Msg, Commands
      <3>4. QED
        BY <1>0, <3>1, <3>2, <3>3, BoundedSteps
    <2>3. CASE TakeCommand
      BY <1>0, <2>3, BoundedSteps DEF TakeCommand
    <2>4. QED
      BY <2>1, <2>2, <2>3 DEF Next, PressEsc, Controller, PublishCommand, TakeEvent, Present, Bridge,
         BridgeTake, BridgePublish, Pump, PumpTake, PumpDeliver, Emit, EndRun, Complete, Report,
         ReportInstalled
  <1>2. bus' \in Seq(Events) /\ Len(bus') <= BusCap
    <2>1. CASE UNCHANGED bus
      BY <1>0, <2>1
    <2>2. ASSUME NEW m \in Events, Len(bus) < BusCap, bus' = Append(bus, m)
          PROVE  bus' \in Seq(Events) /\ Len(bus') <= BusCap
      BY <1>0, <2>2, BoundedSteps
    <2>3. CASE PublishCommand
      BY <2>2, <2>3 DEF PublishCommand, Published, WaysInv, Events
    <2>4. CASE BridgePublish
      BY <2>2, <2>4, MessageTypes DEF BridgePublish, WaysInv
    <2>5. CASE Complete
      BY <2>2, <2>5 DEF Complete, Events
    <2>6. CASE TakeEvent
      BY <1>0, <2>6, BoundedSteps DEF TakeEvent
    <2>7. QED
      BY <2>1, <2>3, <2>4, <2>5, <2>6 DEF Next, SendOther, PressEsc, SendCancel, Controller, TakeCommand,
         Present, Bridge, BridgeTake, Pump, PumpTake, PumpDeliver, Emit, EndRun, Report, ReportInstalled
  <1>3. agentq' \in Seq(Reports) /\ Len(agentq') <= AgentCap
    <2>1. CASE UNCHANGED agentq
      BY <1>0, <2>1
    <2>2. CASE Emit
      <3>1. Msg("line", lines + 1) \in Reports
        BY <2>2 DEF Emit, Reports, Lines, Msg, TypeOK
      <3>2. QED
        BY <1>0, <2>2, <3>1, BoundedSteps DEF Emit
    <2>3. CASE BridgeTake
      BY <1>0, <2>3, BoundedSteps DEF BridgeTake
    <2>4. CASE Report \/ ReportInstalled
      <3>1. agentq' = Append(agentq, Msg("issue", 0)) /\ Len(agentq) < AgentCap
        BY <2>4 DEF Report, ReportInstalled, WaysInv
      <3>2. Msg("issue", 0) \in Reports
        BY DEF Reports
      <3>3. QED
        BY <1>0, <3>1, <3>2, BoundedSteps
    <2>5. QED
      BY <2>1, <2>2, <2>3, <2>4 DEF Next, SendOther, PressEsc, SendCancel, Controller, TakeCommand, PublishCommand,
         TakeEvent, Present, Bridge, BridgePublish, Pump, PumpTake, PumpDeliver, EndRun, Complete
  <1>4. uiq' \in Seq(Outputs) /\ Len(uiq') <= UiCap
    <2>1. CASE UNCHANGED uiq
      BY <1>0, <2>1
    <2>2. CASE Present
      BY <1>0, <2>2, BoundedSteps DEF Present, Enqueued, WaysInv
    <2>3. CASE PumpTake
      BY <1>0, <2>3, BoundedSteps DEF PumpTake
    <2>4. QED
      BY <2>1, <2>2, <2>3 DEF Next, SendOther, PressEsc, SendCancel, Controller, TakeCommand, PublishCommand,
         TakeEvent, Bridge, BridgeTake, BridgePublish, Pump, PumpDeliver, Emit, EndRun, Complete, Report,
         ReportInstalled
  <1>5. QED
    BY <1>1, <1>2, <1>3, <1>4

\* A goroutine holds what it took, for what it is about to do with it.
LEMMA HoldingType ==
  ASSUME NEW actions, NEW action \in actions, NEW m \in Messages
  PROVE  /\ Holding(action, m) \in Holds(actions)
         /\ Holding(action, m).does = action /\ Holding(action, m).msg = m
  BY DEF Holding, Holds

\* What a goroutine takes from a channel belongs where it takes it.
LEMMA HeldStep == TypeOK /\ WaysInv /\ [Next]_vars =>
  /\ controller.does' = "publish" => controller.msg' \in Commands
  /\ controller.does' = "present" => controller.msg' \in Outputs
  /\ controller.does' = "report" => controller.msg' = Msg("issue", 0)
  /\ bridge.does' = "publish" => bridge.msg' \in Reports
  /\ pump.does' = "deliver" => pump.msg' \in Outputs
  /\ controller' \in Holds({"publish", "present", "report"})
  /\ bridge' \in Holds({"publish"})
  /\ pump' \in Holds({"deliver"})
  <1> SUFFICES ASSUME TypeOK, WaysInv, [Next]_vars
               PROVE  /\ /\ controller' \in Holds({"publish", "present", "report"})
                         /\ controller.does' = "publish" => controller.msg' \in Commands
                         /\ controller.does' = "present" => controller.msg' \in Outputs
                         /\ controller.does' = "report" => controller.msg' = Msg("issue", 0)
                      /\ /\ bridge' \in Holds({"publish"})
                         /\ bridge.does' = "publish" => bridge.msg' \in Reports
                      /\ /\ pump' \in Holds({"deliver"})
                         /\ pump.does' = "deliver" => pump.msg' \in Outputs
    OBVIOUS
  <1>0. Idle.does = "idle" /\ \A actions : Idle \in Holds(actions)
    BY MessageTypes DEF Idle, Holding, Holds
  <1>3. /\ controller' \in Holds({"publish", "present", "report"})
        /\ controller.does' = "publish" => controller.msg' \in Commands
        /\ controller.does' = "present" => controller.msg' \in Outputs
        /\ controller.does' = "report" => controller.msg' = Msg("issue", 0)
    <2>1. CASE UNCHANGED controller
      BY <2>1 DEF TypeOK, WaysInv
    <2>2. CASE controller' = Idle
      BY <1>0, <2>2
    <2>3. CASE TakeCommand
      <3>1. Head(cmds) \in Commands /\ controller' = Holding("publish", Head(cmds))
        BY <2>3 DEF TakeCommand, WaysInv
      <3>2. Head(cmds) \in Messages /\ "publish" \in {"publish", "present", "report"}
        BY <3>1, MessageTypes
      <3>3. controller' \in Holds({"publish", "present", "report"}) /\ controller.does' = "publish" /\ controller.msg' = Head(cmds)
        BY <3>1, <3>2, HoldingType
      <3>4. QED
        BY <3>1, <3>3
    <2>4. CASE TakeEvent /\ controller' \notin {Idle, Installing}
      <3>1. Head(bus) \in Events
        BY <2>4 DEF TakeEvent, WaysInv
      <3>2. PICK m \in Outputs : controller' = Holding("present", m)
        BY <2>4, <3>1, MessageTypes DEF TakeEvent, Outputs
      <3>3. m \in Messages /\ "present" \in {"publish", "present", "report"}
        BY MessageTypes
      <3>4. /\ controller' \in Holds({"publish", "present", "report"})
            /\ controller.does' = "present" /\ controller.msg' = m
        BY <3>2, <3>3, HoldingType
      <3>5. QED
        BY <3>4
    <2>5. CASE controller' = Installing
      <3>1. Msg("issue", 0) \in Messages /\ "report" \in {"publish", "present", "report"}
        BY MessageTypes DEF Reports
      <3>2. /\ controller' \in Holds({"publish", "present", "report"})
            /\ controller.does' = "report" /\ controller.msg' = Msg("issue", 0)
        BY <2>5, <3>1, HoldingType DEF Installing
      <3>3. QED
        BY <3>2
    <2>6. CASE ReportInstalled
      <3>1. controller' = Holding("present", Msg("notice", 0)) /\ Msg("notice", 0) \in Outputs
        BY <2>6 DEF ReportInstalled, Outputs
      <3>2. Msg("notice", 0) \in Messages /\ "present" \in {"publish", "present", "report"}
        BY <3>1, MessageTypes
      <3>3. /\ controller' \in Holds({"publish", "present", "report"})
            /\ controller.does' = "present" /\ controller.msg' = Msg("notice", 0)
        BY <3>1, <3>2, HoldingType
      <3>4. QED
        BY <3>1, <3>3
    <2>7. QED
      BY <2>1, <2>2, <2>3, <2>4, <2>5, <2>6 DEF Next, SendOther, PressEsc, SendCancel, Controller, PublishCommand,
         Present, Bridge, BridgeTake, BridgePublish, Pump, PumpTake, PumpDeliver, Emit, EndRun, Complete, Report
  <1>4. bridge' \in Holds({"publish"}) /\ (bridge.does' = "publish" => bridge.msg' \in Reports)
    <2>1. CASE UNCHANGED bridge
      BY <2>1 DEF TypeOK, WaysInv
    <2>2. CASE BridgePublish
      BY <1>0, <2>2 DEF BridgePublish
    <2>3. CASE BridgeTake
      <3>1. Head(agentq) \in Reports /\ bridge' = Holding("publish", Head(agentq))
        BY <2>3 DEF BridgeTake, WaysInv
      <3>2. Head(agentq) \in Messages /\ "publish" \in {"publish"}
        BY <3>1, MessageTypes
      <3>3. bridge' \in Holds({"publish"}) /\ bridge.does' = "publish" /\ bridge.msg' = Head(agentq)
        BY <3>1, <3>2, HoldingType
      <3>4. QED
        BY <3>1, <3>3
    <2>4. QED
      BY <2>1, <2>2, <2>3 DEF Next, SendOther, PressEsc, SendCancel, Controller, TakeCommand, PublishCommand,
         TakeEvent, Present, Bridge, Pump, PumpTake, PumpDeliver, Emit, EndRun, Complete, Report,
         ReportInstalled
  <1>5. pump' \in Holds({"deliver"}) /\ (pump.does' = "deliver" => pump.msg' \in Outputs)
    <2>1. CASE UNCHANGED pump
      BY <2>1 DEF TypeOK, WaysInv
    <2>2. CASE PumpDeliver
      BY <1>0, <2>2 DEF PumpDeliver
    <2>3. CASE PumpTake
      <3>1. Head(uiq) \in Outputs /\ pump' = Holding("deliver", Head(uiq))
        BY <2>3 DEF PumpTake, WaysInv
      <3>2. Head(uiq) \in Messages /\ "deliver" \in {"deliver"}
        BY <3>1, MessageTypes
      <3>3. pump' \in Holds({"deliver"}) /\ pump.does' = "deliver" /\ pump.msg' = Head(uiq)
        BY <3>1, <3>2, HoldingType
      <3>4. QED
        BY <3>1, <3>3
    <2>4. QED
      BY <2>1, <2>2, <2>3 DEF Next, SendOther, PressEsc, SendCancel, Controller, TakeCommand, PublishCommand,
         TakeEvent, Present, Bridge, BridgeTake, BridgePublish, Pump, Emit, EndRun, Complete, Report,
         ReportInstalled
  <1>6. QED
    BY <1>3, <1>4, <1>5

\* What was shown, accepted and handled are lines and commands.
LEMMA HistoryStep == TypeOK /\ WaysInv /\ [Next]_vars =>
  /\ lines' \in 0 .. MaxLines /\ issues' \in 0 .. MaxIssues /\ shown' \in Seq(1 .. MaxLines)
  /\ accepted' \in Seq(Commands) /\ handled' \in Seq(Commands)
  /\ ui' \in {"free", "sending"} /\ run' \in {"running", "completing", "done"}
  /\ Len(accepted') <= MaxCommands
  /\ ui' = "sending" => Len(accepted') < MaxCommands
  <1> SUFFICES ASSUME TypeOK, WaysInv, [Next]_vars
               PROVE  /\ lines' \in 0 .. MaxLines /\ issues' \in 0 .. MaxIssues
                      /\ shown' \in Seq(1 .. MaxLines)
                      /\ handled' \in Seq(Commands)
                      /\ ui' \in {"free", "sending"} /\ run' \in {"running", "completing", "done"}
                      /\ /\ accepted' \in Seq(Commands) /\ Len(accepted') <= MaxCommands
                         /\ ui' = "sending" => Len(accepted') < MaxCommands
    OBVIOUS
  <1> USE DEF Next, SendOther, PressEsc, SendCancel, Controller, TakeCommand, PublishCommand, TakeEvent,
              Present, Bridge, BridgeTake, BridgePublish, Pump, PumpTake, PumpDeliver, Emit, EndRun, Complete, Report,
         ReportInstalled
  <1>1. lines' \in 0 .. MaxLines /\ issues' \in 0 .. MaxIssues
    BY DEF TypeOK
  <1>2. shown' \in Seq(1 .. MaxLines)
    <2>1. CASE UNCHANGED shown
      BY <2>1 DEF TypeOK
    <2>2. CASE PumpDeliver /\ pump.msg.kind = "line"
      <3>1. pump.msg \in Lines
        BY <2>2, MessageTypes DEF WaysInv
      <3>2. pump.msg.n \in 1 .. MaxLines /\ shown' = Append(shown, pump.msg.n)
        BY <2>2, <3>1 DEF Lines
      <3>3. QED
        BY <3>2 DEF TypeOK
    <2>3. QED
      BY <2>1, <2>2
  <1>3. handled' \in Seq(Commands)
    <2>1. CASE UNCHANGED handled
      BY <2>1 DEF TypeOK
    <2>2. CASE TakeEvent /\ Head(bus).kind \in {"cancel", "other"}
      <3>1. Head(bus) \in Events
        BY <2>2 DEF WaysInv
      <3>2. Head(bus) \in Commands /\ handled' = Append(handled, Head(bus))
        BY <2>2, <3>1, MessageTypes DEF CommandKinds
      <3>3. QED
        BY <3>2 DEF TypeOK
    <2>3. QED
      BY <2>1, <2>2
  <1>4. ui' \in {"free", "sending"} /\ run' \in {"running", "completing", "done"}
    BY DEF TypeOK
  <1>5. /\ accepted' \in Seq(Commands) /\ Len(accepted') <= MaxCommands
        /\ ui' = "sending" => Len(accepted') < MaxCommands
    <2>1. CASE UNCHANGED accepted
      BY <2>1 DEF WaysInv, TypeOK
    <2>2. CASE SendOther \/ SendCancel
      <3>1. PICK m : /\ m = Msg("other", Len(accepted) + 1) \/ m = Msg("cancel", Len(accepted) + 1)
                     /\ accepted' = Append(accepted, m)
        BY <2>2 DEF Accept
      <3>2. Len(accepted) < MaxCommands /\ Len(accepted) \in Nat /\ ui' = "free"
        BY <2>2 DEF WaysInv, TypeOK
      <3>3. m \in Commands
        BY <3>1, <3>2 DEF Msg, Commands
      <3>4. QED
        BY <3>1, <3>2, <3>3 DEF TypeOK
    <2>3. QED
      BY <2>1, <2>2
  <1>6. QED
    BY <1>1, <1>2, <1>3, <1>4, <1>5

\* No channel ever holds more than make(chan, n) gave it room for, no goroutine
\* more than one message, and each message keeps to its way.
LEMMA TypeStep == TypeOK /\ WaysInv /\ [Next]_vars => TypeOK' /\ WaysInv'
  <1> SUFFICES ASSUME TypeOK, WaysInv, [Next]_vars PROVE TypeOK' /\ WaysInv'
    OBVIOUS
  <1>1. \A S \in {Commands, Events, Reports, Outputs} : \A s \in Seq(S) : s \in Seq(Messages)
    BY MessageTypes
  <1>2. WaysInv'
    BY ChannelsStep, HeldStep, HistoryStep DEF WaysInv
  <1>3. /\ cmds' \in BoundedSeq(CmdCap) /\ bus' \in BoundedSeq(BusCap)
        /\ agentq' \in BoundedSeq(AgentCap) /\ uiq' \in BoundedSeq(UiCap)
    BY <1>1, ChannelsStep DEF BoundedSeq
  <1>4. QED
    BY <1>2, <1>3, HeldStep, HistoryStep DEF TypeOK

\* Every goroutine idle, every channel empty.
LEMMA TypeInit == Init => TypeOK /\ WaysInv
  BY MessageTypes DEF Init, TypeOK, WaysInv, BoundedSeq, Holds, Idle, Holding

\* The capacities of the bus, the UI's two channels and the agent's hold for any
\* traffic (host/bus, uipump.go, ui/actions.go).
THEOREM TypeCorrect == Spec => []TypeOK
  <1>1. Spec => [](TypeOK /\ WaysInv)
    BY TypeInit, TypeStep, PTL DEF Spec
  <1>2. QED
    BY <1>1, PTL

-----------------------------------------------------------------------------
(* Waits without an end.                                                   *)

\* PublishBlocking by the only reader of the bus, the circle of Update, the
\* controller and the pump, and that of the controller and the bridge: nobody who could end the wait can move.
THEOREM StuckCorrect == Spec => StuckIsForever
  <1>1. Stuck /\ [Next]_vars => Stuck'
    <2> SUFFICES ASSUME Stuck, [Next]_vars PROVE Stuck'
      OBVIOUS
    <2> USE DEF Idle, Holding
    <2>1. CASE SelfWait
      <3>1. UNCHANGED <<controller, bus>>
        BY <2>1 DEF SelfWait, Next, SendOther, PressEsc, SendCancel, Controller, TakeCommand, PublishCommand,
           Published, TakeEvent, Present, Bridge, BridgeTake, BridgePublish, Pump, PumpTake, PumpDeliver,
           Emit, EndRun, Complete, Report, ReportInstalled
      <3>2. QED
        BY <2>1, <3>1 DEF Stuck, SelfWait, Room
    <2>2. CASE CircularWait
      <3>1. UNCHANGED <<ui, cmds, pump, controller, uiq>>
        BY <2>2 DEF CircularWait, Next, SendOther, PressEsc, SendCancel, Controller, TakeCommand,
           PublishCommand, TakeEvent, Present, Enqueued, Bridge, BridgeTake, BridgePublish, Pump, PumpTake,
           PumpDeliver, Emit, EndRun, Complete, Report, ReportInstalled
      <3>2. QED
        BY <2>2, <3>1 DEF Stuck, CircularWait, Room
    <2>3. CASE InstallWait
      <3>1. UNCHANGED <<controller, agentq, bridge, bus>>
        BY <2>3 DEF InstallWait, Next, SendOther, PressEsc, SendCancel, Controller, TakeCommand,
           PublishCommand, TakeEvent, Present, Bridge, BridgeTake, BridgePublish, Pump, PumpTake,
           PumpDeliver, Emit, EndRun, Complete, Report, ReportInstalled
      <3>2. QED
        BY <2>3, <3>1 DEF Stuck, InstallWait, Room
    <2>4. QED
      BY <2>1, <2>2, <2>3 DEF Stuck
  <1>2. QED
    BY <1>1, PTL DEF Spec, StuckIsForever

-----------------------------------------------------------------------------
(* Nothing lost, doubled or overtaken: a path is a row of channels and     *)
(* hands, the place a message is at last being the first; it carries the   *)
(* messages of some kinds whose numbers are in an interval, in order.      *)

\* One channel carries the messages lo + 1 .. hi.
Carries(s, kinds, lo, hi) ==
  /\ lo <= hi
  /\ \A i \in DOMAIN s : s[i].kind \in kinds => s[i].n \in (lo + 1) .. hi
  /\ \A n \in (lo + 1) .. hi : \E i \in DOMAIN s : s[i].kind \in kinds /\ s[i].n = n
  /\ \A i, j \in DOMAIN s :
       i < j /\ s[i].kind \in kinds /\ s[j].kind \in kinds => s[i].n < s[j].n

\* The channels and hands of a path carry what is between, each its interval.
FlowsBy(path, length, kinds, cut) ==
  /\ \A k \in 1 .. length : Carries(path[k], kinds, cut[k - 1], cut[k])
  /\ \A i, j \in 0 .. length : i <= j => cut[i] <= cut[j]

Flows(path, length, kinds, lo, hi) ==
  \E cut \in [0 .. length -> lo .. hi] :
    cut[0] = lo /\ cut[length] = hi /\ FlowsBy(path, length, kinds, cut)

\* Sending the next message, or a message of another kind.
LEMMA CarriesSend ==
  ASSUME NEW s \in Seq(Messages), NEW m \in Messages, NEW kinds, NEW lo \in Nat, NEW hi \in Nat,
         Carries(s, kinds, lo, hi)
  PROVE  /\ m.kind \notin kinds => Carries(Append(s, m), kinds, lo, hi)
         /\ m.kind \in kinds /\ m.n = hi + 1 => Carries(Append(s, m), kinds, lo, hi + 1)
  <1> DEFINE t == Append(s, m)
  <1>1. \A i \in DOMAIN s : t[i] = s[i] /\ i < Len(s) + 1
    OBVIOUS
  <1>2. DOMAIN t = DOMAIN s \cup {Len(s) + 1} /\ t[Len(s) + 1] = m /\ Len(s) + 1 \notin DOMAIN s
        /\ DOMAIN s \subseteq Nat /\ Len(s) \in Nat
    OBVIOUS
  <1> HIDE DEF t
  <1>3. ASSUME m.kind \notin kinds
        PROVE  Carries(t, kinds, lo, hi)
    <2>1. \A i \in DOMAIN t : t[i].kind \in kinds => i \in DOMAIN s /\ t[i] = s[i]
      BY <1>1, <1>2, <1>3
    <2>2. \A i \in DOMAIN t : t[i].kind \in kinds => t[i].n \in (lo + 1) .. hi
      BY <2>1 DEF Carries
    <2>3. \A n \in (lo + 1) .. hi : \E i \in DOMAIN t : t[i].kind \in kinds /\ t[i].n = n
      BY <1>1, <1>2 DEF Carries
    <2>4. \A i, j \in DOMAIN t : i < j /\ t[i].kind \in kinds /\ t[j].kind \in kinds => t[i].n < t[j].n
      BY <2>1 DEF Carries
    <2>5. QED
      BY <2>2, <2>3, <2>4 DEF Carries
  <1>4. ASSUME m.kind \in kinds, m.n = hi + 1
        PROVE  Carries(t, kinds, lo, hi + 1)
    <2>1. lo <= hi + 1
      BY <1>4 DEF Carries
    <2>2. \A i \in DOMAIN t : t[i].kind \in kinds => t[i].n \in (lo + 1) .. (hi + 1)
      BY <1>1, <1>2, <1>4 DEF Carries
    <2>3. ASSUME NEW n \in (lo + 1) .. (hi + 1)
          PROVE  \E i \in DOMAIN t : t[i].kind \in kinds /\ t[i].n = n
      <3>1. CASE n = hi + 1
        BY <1>2, <1>4, <3>1
      <3>2. CASE n # hi + 1
        <4>1. n \in (lo + 1) .. hi
          BY <3>2
        <4>2. QED
          BY <1>1, <1>2, <4>1 DEF Carries
      <3>3. QED
        BY <3>1, <3>2
    <2>4. ASSUME NEW i \in DOMAIN t, NEW j \in DOMAIN t, i < j, t[i].kind \in kinds, t[j].kind \in kinds
          PROVE  t[i].n < t[j].n
      <3>1. i \in DOMAIN s
        BY <1>1, <1>2, <2>4
      <3>2. CASE j \in DOMAIN s
        BY <1>1, <2>4, <3>1, <3>2 DEF Carries
      <3>3. CASE j = Len(s) + 1
        <4>1. s[i].n \in (lo + 1) .. hi /\ t[j].n = hi + 1 /\ t[i].n = s[i].n
          BY <1>1, <1>2, <1>4, <2>4, <3>1, <3>3 DEF Carries
        <4>2. QED
          BY <4>1
      <3>4. QED
        BY <1>2, <3>2, <3>3
    <2>5. QED
      BY <2>1, <2>2, <2>3, <2>4 DEF Carries
  <1>5. QED
    BY <1>3, <1>4 DEF t

\* What is received is the first of the interval.
LEMMA CarriesReceive ==
  ASSUME NEW s \in Seq(Messages), s # <<>>, NEW kinds, NEW lo \in Nat, NEW hi \in Nat,
         Carries(s, kinds, lo, hi)
  PROVE  /\ Head(s).kind \notin kinds => Carries(Tail(s), kinds, lo, hi)
         /\ Head(s).kind \in kinds =>
              Head(s).n = lo + 1 /\ lo < hi /\ Carries(Tail(s), kinds, lo + 1, hi)
  <1> DEFINE t == Tail(s)
  <1>1. \A i \in DOMAIN t : i + 1 \in DOMAIN s /\ t[i] = s[i + 1]
    OBVIOUS
  <1>2. \A i \in DOMAIN s : i # 1 => i - 1 \in DOMAIN t /\ t[i - 1] = s[i] /\ i > 1
    OBVIOUS
  <1>3. 1 \in DOMAIN s /\ s[1] = Head(s) /\ DOMAIN s \subseteq Nat /\ DOMAIN t \subseteq Nat \ {0}
    OBVIOUS
  <1> HIDE DEF t
  <1>4. \A i, j \in DOMAIN t : i < j /\ t[i].kind \in kinds /\ t[j].kind \in kinds => t[i].n < t[j].n
    <2>1. \A i, j \in DOMAIN t : i < j => i + 1 < j + 1
      BY <1>3
    <2>2. QED
      BY <1>1, <2>1 DEF Carries
  <1>5. ASSUME Head(s).kind \notin kinds
        PROVE  Carries(t, kinds, lo, hi)
    <2>1. \A i \in DOMAIN t : t[i].kind \in kinds => t[i].n \in (lo + 1) .. hi
      BY <1>1 DEF Carries
    <2>2. \A n \in (lo + 1) .. hi : \E i \in DOMAIN t : t[i].kind \in kinds /\ t[i].n = n
      BY <1>2, <1>3, <1>5 DEF Carries
    <2>3. QED
      BY <1>4, <2>1, <2>2 DEF Carries
  <1>6. ASSUME Head(s).kind \in kinds
        PROVE  Head(s).n = lo + 1 /\ lo < hi /\ Carries(t, kinds, lo + 1, hi)
    <2>1. Head(s).n \in (lo + 1) .. hi
      BY <1>3, <1>6 DEF Carries
    <2>2. lo < hi /\ lo + 1 \in (lo + 1) .. hi
      BY <2>1
    <2>3. PICK i \in DOMAIN s : s[i].kind \in kinds /\ s[i].n = lo + 1
      BY <2>2 DEF Carries
    <2>4. i = 1
      <3>1. CASE i # 1
        <4>1. s[1].n < lo + 1
          BY <1>2, <1>3, <1>6, <2>3, <3>1 DEF Carries
        <4>2. QED
          BY <1>3, <2>1, <4>1
      <3>2. QED
        BY <3>1
    <2>5. Head(s).n = lo + 1
      BY <1>3, <2>3, <2>4
    <2>6. \A k \in DOMAIN t : t[k].kind \in kinds => t[k].n \in (lo + 2) .. hi
      <3>1. ASSUME NEW k \in DOMAIN t, t[k].kind \in kinds PROVE t[k].n \in (lo + 2) .. hi
        <4>1. k + 1 \in DOMAIN s /\ t[k] = s[k + 1] /\ 1 < k + 1
          BY <1>1, <1>3
        <4>2. s[1].n < s[k + 1].n /\ s[k + 1].n \in (lo + 1) .. hi
          BY <1>3, <1>6, <3>1, <4>1 DEF Carries
        <4>3. QED
          BY <1>3, <2>5, <4>1, <4>2
      <3>2. QED
        BY <3>1
    <2>7. \A n \in (lo + 2) .. hi : \E k \in DOMAIN t : t[k].kind \in kinds /\ t[k].n = n
      <3>1. ASSUME NEW n \in (lo + 2) .. hi PROVE \E k \in DOMAIN t : t[k].kind \in kinds /\ t[k].n = n
        <4>1. n \in (lo + 1) .. hi /\ n # lo + 1
          OBVIOUS
        <4>2. PICK k \in DOMAIN s : s[k].kind \in kinds /\ s[k].n = n
          BY <4>1 DEF Carries
        <4>3. k # 1
          BY <1>3, <2>5, <4>1, <4>2
        <4>4. QED
          BY <1>2, <4>2, <4>3
      <3>2. QED
        BY <3>1
    <2>8. lo + 1 <= hi /\ (lo + 1) + 1 = lo + 2
      BY <2>2
    <2>9. QED
      BY <1>4, <2>2, <2>5, <2>6, <2>7, <2>8 DEF Carries
  <1>7. QED
    BY <1>5, <1>6 DEF t

\* A message that goes from one channel to the one before moves the cut between
\* them, if it is of the kinds that count.
LEMMA CarriesMove ==
  ASSUME NEW s \in Seq(Messages), NEW t \in Seq(Messages), t # <<>>, NEW kinds,
         NEW a \in Nat, NEW b \in Nat, NEW c \in Nat, Carries(s, kinds, a, b), Carries(t, kinds, b, c)
  PROVE  \E d \in {b, b + 1} :
           d <= c /\ Carries(Append(s, Head(t)), kinds, a, d) /\ Carries(Tail(t), kinds, d, c)
  <1>1. Head(t) \in Messages /\ b <= c
    BY DEF Carries
  <1>2. CASE Head(t).kind \notin kinds
    BY <1>1, <1>2, CarriesSend, CarriesReceive
  <1>3. CASE Head(t).kind \in kinds
    <2>1. Head(t).n = b + 1 /\ b < c /\ Carries(Tail(t), kinds, b + 1, c)
      BY <1>3, CarriesReceive
    <2>2. Carries(Append(s, Head(t)), kinds, a, b + 1)
      BY <1>1, <1>3, <2>1, CarriesSend
    <2>3. QED
      BY <2>1, <2>2
  <1>4. QED
    BY <1>2, <1>3

\* A message that moves on from one place to the next is carried on.
LEMMA FlowMove ==
  ASSUME NEW path, NEW new, NEW length \in Nat, NEW kinds, NEW lo \in Nat, NEW hi \in Nat,
         Flows(path, length, kinds, lo, hi), NEW k \in 1 .. length, k < length,
         path[k] \in Seq(Messages), path[k + 1] \in Seq(Messages), path[k + 1] # <<>>,
         new[k] = Append(path[k], Head(path[k + 1])), new[k + 1] = Tail(path[k + 1]),
         \A j \in 1 .. length : j \notin {k, k + 1} => new[j] = path[j]
  PROVE  Flows(new, length, kinds, lo, hi)
  <1>1. PICK cut \in [0 .. length -> lo .. hi] :
          cut[0] = lo /\ cut[length] = hi /\ FlowsBy(path, length, kinds, cut)
    BY DEF Flows
  <1>2. PICK a, b, c \in lo .. hi :
          a = cut[k - 1] /\ b = cut[k] /\ c = cut[k + 1] /\ k + 1 \in 1 .. length /\ (k + 1) - 1 = k
    OBVIOUS
  <1>3. a \in Nat /\ b \in Nat /\ c \in Nat /\ k \in 0 .. length /\ k # 0 /\ k # length
    OBVIOUS
  <1>4. Carries(path[k], kinds, a, b) /\ Carries(path[k + 1], kinds, b, c)
    BY <1>1, <1>2 DEF FlowsBy
  <1>5. PICK d \in {b, b + 1} : d <= c /\ Carries(new[k], kinds, a, d) /\ Carries(new[k + 1], kinds, d, c)
    <2>1. PICK s, t \in Seq(Messages) :
            s = path[k] /\ t = path[k + 1] /\ new[k] = Append(s, Head(t)) /\ new[k + 1] = Tail(t)
      OBVIOUS
    <2>2. Carries(s, kinds, a, b) /\ Carries(t, kinds, b, c) /\ t # <<>>
      BY <1>4, <2>1
    <2>3. PICK d \in {b, b + 1} :
            d <= c /\ Carries(Append(s, Head(t)), kinds, a, d) /\ Carries(Tail(t), kinds, d, c)
      BY <1>3, <2>2, CarriesMove
    <2>4. QED
      BY <2>1, <2>3
  <1> DEFINE next == [cut EXCEPT ![k] = d]
  <1>6. d \in lo .. hi /\ b <= d
    BY <1>3, <1>5
  <1>7. /\ next \in [0 .. length -> lo .. hi] /\ next[0] = lo /\ next[length] = hi
        /\ next[k] = d /\ \A j \in 0 .. length : j # k => next[j] = cut[j]
    BY <1>1, <1>3, <1>6
  <1> HIDE DEF next
  <1>8. ASSUME NEW j \in 1 .. length PROVE Carries(new[j], kinds, next[j - 1], next[j])
    <2>1. j \in 0 .. length /\ j - 1 \in 0 .. length
      OBVIOUS
    <2>2. CASE j = k
      <3>1. j - 1 # k /\ next[j - 1] = a /\ next[j] = d
        BY <1>2, <1>7, <2>1, <2>2
      <3>2. QED
        BY <1>5, <2>2, <3>1
    <2>3. CASE j = k + 1
      <3>1. j - 1 = k /\ j # k /\ next[j - 1] = d /\ next[j] = c
        BY <1>2, <1>7, <2>1, <2>3
      <3>2. QED
        BY <1>5, <2>3, <3>1
    <2>4. CASE j \notin {k, k + 1}
      <3>1. next[j - 1] = cut[j - 1] /\ next[j] = cut[j] /\ new[j] = path[j]
        BY <1>7, <2>1, <2>4
      <3>2. QED
        BY <1>1, <3>1 DEF FlowsBy
    <2>5. QED
      BY <2>2, <2>3, <2>4
  <1>9. ASSUME NEW i \in 0 .. length, NEW j \in 0 .. length, i <= j PROVE next[i] <= next[j]
    <2>1. cut[i] <= cut[j] /\ cut[i] \in lo .. hi /\ cut[j] \in lo .. hi
      BY <1>1, <1>9 DEF FlowsBy
    <2>2. ASSUME i = k, j # k PROVE c <= cut[j]
      <3>1. k + 1 <= j /\ k + 1 \in 0 .. length
        BY <1>9, <2>2
      <3>2. QED
        BY <1>1, <1>2, <3>1 DEF FlowsBy
    <2>3. CASE i = k /\ j # k
      <3>1. next[i] = d /\ next[j] = cut[j]
        BY <1>7, <2>3
      <3>2. QED
        BY <1>3, <1>5, <1>6, <2>1, <2>2, <2>3, <3>1
    <2>4. CASE i # k /\ j = k
      <3>1. next[i] = cut[i] /\ next[j] = d /\ cut[j] = b
        BY <1>2, <1>7, <2>4
      <3>2. QED
        BY <1>3, <1>6, <2>1, <3>1
    <2>5. CASE i = k /\ j = k
      BY <1>6, <1>7, <2>5
    <2>6. CASE i # k /\ j # k
      BY <1>7, <2>1, <2>6
    <2>7. QED
      BY <2>3, <2>4, <2>5, <2>6
  <1>10. QED
    BY <1>7, <1>8, <1>9 DEF Flows, FlowsBy

\* The next message enters a path at its far end.
LEMMA FlowSend ==
  ASSUME NEW path, NEW new, NEW length \in Nat \ {0}, NEW kinds, NEW lo \in Nat, NEW hi \in Nat,
         Flows(path, length, kinds, lo, hi), NEW m \in Messages, m.kind \in kinds, m.n = hi + 1,
         path[length] \in Seq(Messages), new[length] = Append(path[length], m),
         \A j \in 1 .. length : j # length => new[j] = path[j]
  PROVE  Flows(new, length, kinds, lo, hi + 1)
  <1>1. PICK cut \in [0 .. length -> lo .. hi] :
          cut[0] = lo /\ cut[length] = hi /\ FlowsBy(path, length, kinds, cut)
    BY DEF Flows
  <1> DEFINE next == [cut EXCEPT ![length] = hi + 1]
  <1>2. length \in 1 .. length /\ length - 1 \in 0 .. length /\ cut[length - 1] \in Nat
    OBVIOUS
  <1>3. lo <= hi
    BY <1>1
  <1>4. /\ next \in [0 .. length -> lo .. (hi + 1)] /\ next[0] = lo /\ next[length] = hi + 1
        /\ \A j \in 0 .. length : j # length => next[j] = cut[j]
    BY <1>1, <1>3
  <1> HIDE DEF next
  <1>5. ASSUME NEW j \in 1 .. length PROVE Carries(new[j], kinds, next[j - 1], next[j])
    <2>1. j \in 0 .. length /\ j - 1 \in 0 .. length /\ j - 1 # length
      OBVIOUS
    <2>2. next[j - 1] = cut[j - 1] /\ Carries(path[j], kinds, cut[j - 1], cut[j])
      BY <1>1, <1>4, <2>1 DEF FlowsBy
    <2>3. CASE j = length
      <3>1. PICK a \in Nat : a = cut[j - 1] /\ Carries(path[j], kinds, a, hi)
        BY <1>1, <1>2, <2>2, <2>3
      <3>2. PICK s \in Seq(Messages) : s = path[j] /\ new[j] = Append(s, m)
        BY <2>3
      <3>3. Carries(Append(s, m), kinds, a, hi + 1)
        BY <3>1, <3>2, CarriesSend
      <3>4. QED
        BY <1>4, <2>2, <2>3, <3>1, <3>2, <3>3
    <2>4. CASE j # length
      BY <1>4, <2>1, <2>2, <2>4
    <2>5. QED
      BY <2>3, <2>4
  <1>6. ASSUME NEW i \in 0 .. length, NEW j \in 0 .. length, i <= j PROVE next[i] <= next[j]
    <2>1. cut[i] <= cut[j] /\ cut[i] \in lo .. hi /\ cut[j] \in lo .. hi
      BY <1>1, <1>6 DEF FlowsBy
    <2>2. next[i] \in lo .. (hi + 1)
      BY <1>4
    <2>3. CASE j = length
      <3>1. next[j] = hi + 1
        BY <1>4, <2>3
      <3>2. QED
        BY <2>2, <3>1
    <2>4. CASE j # length
      <3>1. i # length
        BY <1>6, <2>4
      <3>2. next[i] = cut[i] /\ next[j] = cut[j]
        BY <1>4, <2>4, <3>1
      <3>3. QED
        BY <2>1, <3>2
    <2>5. QED
      BY <2>3, <2>4
  <1>7. QED
    BY <1>4, <1>5, <1>6 DEF Flows, FlowsBy

\* Messages of other kinds come and go anywhere on a path.
LEMMA FlowOther ==
  ASSUME NEW path, NEW new, NEW length \in Nat, NEW kinds, NEW lo \in Nat, NEW hi \in Nat,
         Flows(path, length, kinds, lo, hi), NEW k \in 1 .. length, path[k] \in Seq(Messages),
         \/ \E m \in Messages : m.kind \notin kinds /\ new[k] = Append(path[k], m)
         \/ path[k] # <<>> /\ Head(path[k]).kind \notin kinds /\ new[k] = Tail(path[k]),
         \A j \in 1 .. length : j # k => new[j] = path[j]
  PROVE  Flows(new, length, kinds, lo, hi)
  <1>1. PICK cut \in [0 .. length -> lo .. hi] :
          cut[0] = lo /\ cut[length] = hi /\ FlowsBy(path, length, kinds, cut)
    BY DEF Flows
  <1>2. PICK a, b \in Nat : a = cut[k - 1] /\ b = cut[k]
    <2>1. k - 1 \in 0 .. length /\ k \in 0 .. length
      OBVIOUS
    <2>2. cut[k - 1] \in Nat /\ cut[k] \in Nat
      BY <2>1
    <2>3. QED
      BY <2>2
  <1>3. Carries(path[k], kinds, a, b)
    BY <1>1, <1>2 DEF FlowsBy
  <1>4. Carries(new[k], kinds, a, b)
    <2>1. PICK s \in Seq(Messages) : s = path[k] /\ Carries(s, kinds, a, b)
      BY <1>3
    <2>2. CASE s # <<>> /\ Head(s).kind \notin kinds /\ new[k] = Tail(s)
      BY <2>1, <2>2, CarriesReceive
    <2>3. ASSUME NEW m \in Messages, m.kind \notin kinds, new[k] = Append(s, m)
          PROVE  Carries(new[k], kinds, a, b)
      BY <2>1, <2>3, CarriesSend
    <2>4. QED
      BY <2>1, <2>2, <2>3
  <1>5. FlowsBy(new, length, kinds, cut)
    BY <1>1, <1>2, <1>4 DEF FlowsBy
  <1>6. QED
    BY <1>1, <1>5 DEF Flows

\* What leaves a path is the next message to be received.
LEMMA FlowReceive ==
  ASSUME NEW path, NEW new, NEW length \in Nat \ {0}, NEW kinds, NEW lo \in Nat, NEW hi \in Nat,
         Flows(path, length, kinds, lo, hi), path[1] \in Seq(Messages), path[1] # <<>>,
         Head(path[1]).kind \in kinds, new[1] = Tail(path[1]),
         \A j \in 1 .. length : j # 1 => new[j] = path[j]
  PROVE  Head(path[1]).n = lo + 1 /\ lo < hi /\ Flows(new, length, kinds, lo + 1, hi)
  <1>1. PICK cut \in [0 .. length -> lo .. hi] :
          cut[0] = lo /\ cut[length] = hi /\ FlowsBy(path, length, kinds, cut)
    BY DEF Flows
  <1>2. 1 \in 1 .. length /\ cut[1] \in lo .. hi /\ 1 - 1 = 0
    OBVIOUS
  <1>3. Carries(path[1], kinds, lo, cut[1])
    BY <1>1, <1>2 DEF FlowsBy
  <1>4. Head(path[1]).n = lo + 1 /\ lo < cut[1] /\ Carries(new[1], kinds, lo + 1, cut[1])
    BY <1>2, <1>3, CarriesReceive
  <1> DEFINE next == [cut EXCEPT ![0] = lo + 1]
  <1>5. /\ next \in [0 .. length -> (lo + 1) .. hi] /\ next[0] = lo + 1 /\ next[length] = hi
        /\ \A j \in 0 .. length : j # 0 => next[j] = cut[j]
    <2>1. \A j \in 1 .. length : cut[j] \in (lo + 1) .. hi
      <3>1. \A j \in 1 .. length : cut[j] \in lo .. hi /\ 1 \in 0 .. length /\ j \in 0 .. length /\ 1 <= j
        OBVIOUS
      <3>2. \A j \in 1 .. length : cut[1] <= cut[j]
        BY <1>1, <3>1 DEF FlowsBy
      <3>3. QED
        BY <1>2, <1>4, <3>1, <3>2
    <2>2. lo + 1 \in (lo + 1) .. hi
      BY <1>2, <1>4
    <2>3. QED
      BY <1>1, <2>1, <2>2
  <1> HIDE DEF next
  <1>6. \A i, j \in 0 .. length : i <= j => next[i] <= next[j]
    <2>1. \A j \in 0 .. length : next[0] <= next[j]
      BY <1>5
    <2>2. \A i, j \in 0 .. length : i <= j /\ i # 0 => j # 0 /\ cut[i] <= cut[j]
      BY <1>1 DEF FlowsBy
    <2>3. QED
      BY <1>5, <2>1, <2>2
  <1>7. ASSUME NEW j \in 1 .. length PROVE Carries(new[j], kinds, next[j - 1], next[j])
    <2>1. CASE j = 1
      BY <1>2, <1>4, <1>5, <2>1
    <2>2. CASE j # 1
      <3>1. j \in 0 .. length /\ j - 1 \in 0 .. length /\ j # 0 /\ j - 1 # 0
        BY <2>2
      <3>2. next[j - 1] = cut[j - 1] /\ next[j] = cut[j] /\ new[j] = path[j]
        BY <1>5, <2>2, <3>1
      <3>3. QED
        BY <1>1, <3>2 DEF FlowsBy
    <2>3. QED
      BY <2>1, <2>2
  <1>8. lo < hi
    BY <1>2, <1>4
  <1>9. QED
    BY <1>4, <1>5, <1>6, <1>7, <1>8 DEF Flows, FlowsBy

\* A path that looks the same carries the same.
LEMMA FlowSame ==
  ASSUME NEW path, NEW new, NEW length \in Nat, NEW kinds, NEW lo, NEW hi,
         Flows(path, length, kinds, lo, hi), \A k \in 1 .. length : new[k] = path[k]
  PROVE  Flows(new, length, kinds, lo, hi)
  BY DEF Flows, FlowsBy

-----------------------------------------------------------------------------
(* The two paths.                                                          *)

\* What a goroutine holds for one thing it is about to do.
Held(goroutine, action) == IF goroutine.does = action THEN <<goroutine.msg>> ELSE <<>>

LinePath ==
  <<Held(pump, "deliver"), uiq, Held(controller, "present"), bus, Held(bridge, "publish"), agentq>>

\* Between what was shown and what was sent, every line is somewhere, once and in
\* order.
LinesInv ==
  /\ Flows(LinePath, 6, {"line"}, Len(shown), lines)
  /\ \A i \in DOMAIN shown : shown[i] = i

CommandPath == <<bus, Held(controller, "publish"), cmds>>

\* A command carries its number, and is the one the channel took under it.
IsAccepted(m) == m.n \in DOMAIN accepted /\ accepted[m.n] = m
TakenInv ==
  /\ \A i \in DOMAIN cmds : IsAccepted(cmds[i])
  /\ controller.does = "publish" => IsAccepted(controller.msg)
  /\ \A i \in DOMAIN bus : bus[i].kind \in CommandKinds => IsAccepted(bus[i])

CommandsInv ==
  /\ Flows(CommandPath, 3, CommandKinds, Len(handled), Len(accepted))
  /\ \A i \in DOMAIN handled : i \in DOMAIN accepted /\ handled[i] = accepted[i]

\* Taking a message into a free hand, and giving it on, is moving it.
LEMMA HandSteps ==
  ASSUME NEW m \in Messages, NEW action, action # "idle"
  PROVE  /\ Held(Idle, action) = <<>>
         /\ \A other : Held(Holding(other, m), action) = IF other = action THEN <<m>> ELSE <<>>
         /\ <<m>> = Append(<<>>, m) /\ <<m>> # <<>> /\ Head(<<m>>) = m /\ Tail(<<m>>) = <<>>
         /\ <<m>> \in Seq(Messages)
  BY DEF Held, Holding, Idle

\* The places of the lines' path are channels.
LEMMA LinePathType ==
  ASSUME TypeOK
  PROVE  /\ LinePath[1] = Held(pump, "deliver") /\ LinePath[2] = uiq
         /\ LinePath[3] = Held(controller, "present") /\ LinePath[4] = bus
         /\ LinePath[5] = Held(bridge, "publish") /\ LinePath[6] = agentq
         /\ \A k \in 1 .. 6 : LinePath[k] \in Seq(Messages)
  <1>1. controller.msg \in Messages /\ bridge.msg \in Messages /\ pump.msg \in Messages
    BY DEF TypeOK, Holds
  <1>2. \A m \in Messages : <<m>> \in Seq(Messages)
    OBVIOUS
  <1>3. /\ Held(pump, "deliver") \in Seq(Messages) /\ Held(controller, "present") \in Seq(Messages)
        /\ Held(bridge, "publish") \in Seq(Messages)
    BY <1>1, <1>2 DEF Held
  <1>4. /\ uiq \in Seq(Messages) /\ bus \in Seq(Messages) /\ agentq \in Seq(Messages)
    BY DEF TypeOK, BoundedSeq
  <1>5. /\ LinePath[1] = Held(pump, "deliver") /\ LinePath[2] = uiq
        /\ LinePath[3] = Held(controller, "present") /\ LinePath[4] = bus
        /\ LinePath[5] = Held(bridge, "publish") /\ LinePath[6] = agentq
    BY DEF LinePath
  <1>6. ASSUME NEW k \in 1 .. 6 PROVE LinePath[k] \in Seq(Messages)
    <2>1. k = 1 \/ k = 2 \/ k = 3 \/ k = 4 \/ k = 5 \/ k = 6
      OBVIOUS
    <2>2. QED
      BY <1>3, <1>4, <1>5, <2>1
  <1>7. QED
    BY <1>5, <1>6

\* A line goes from hand to channel to hand, and on to the screen.
LEMMA LinesStep ==
  ASSUME TypeOK, WaysInv, LinesInv, [Next]_vars
  PROVE  /\ LinesInv'
         /\ \/ UNCHANGED <<lines, shown>>
            \/ lines' = lines + 1 /\ lines' \in 1 .. MaxLines /\ UNCHANGED shown
            \/ Len(shown) < lines /\ shown' = Append(shown, Len(shown) + 1) /\ UNCHANGED lines
  <1> DEFINE K == {"line"}
             p == LinePath
             q == LinePath'
             Flowing == Flows(q, 6, K, Len(shown), lines)
  <1>0. /\ p[1] = Held(pump, "deliver") /\ p[2] = uiq /\ p[3] = Held(controller, "present")
        /\ p[4] = bus /\ p[5] = Held(bridge, "publish") /\ p[6] = agentq
        /\ \A k \in 1 .. 6 : p[k] \in Seq(Messages)
    BY LinePathType
  <1>1. /\ q[1] = Held(pump', "deliver") /\ q[2] = uiq' /\ q[3] = Held(controller', "present")
        /\ q[4] = bus' /\ q[5] = Held(bridge', "publish") /\ q[6] = agentq'
    BY DEF LinePath, Held
  <1>2. Flows(p, 6, K, Len(shown), lines) /\ Len(shown) \in Nat /\ lines \in Nat /\ 6 \in Nat \ {0}
    BY DEF LinesInv, TypeOK
  <1> HIDE DEF p, q, K
  <1>3. \A k \in 1 .. 6 : k = 1 \/ k = 2 \/ k = 3 \/ k = 4 \/ k = 5 \/ k = 6
    OBVIOUS
  <1>4. controller.msg \in Messages /\ bridge.msg \in Messages /\ pump.msg \in Messages
    BY DEF TypeOK, Holds
  <1>5. ASSUME Flowing, UNCHANGED <<lines, shown>>
        PROVE  LinesInv' /\ UNCHANGED <<lines, shown>>
    BY <1>5 DEF LinesInv, q, K
  <1>6. ASSUME \A k \in 1 .. 6 : q[k] = p[k] PROVE Flowing
    BY <1>2, <1>6, FlowSame
  <1>7. ASSUME NEW k \in 1 .. 6, k < 6, p[k + 1] # <<>>,
               q[k] = Append(p[k], Head(p[k + 1])), q[k + 1] = Tail(p[k + 1]),
               \A j \in 1 .. 6 : j \notin {k, k + 1} => q[j] = p[j]
        PROVE  Flowing
    <2>1. k + 1 \in 1 .. 6
      BY <1>7
    <2>2. p[k] \in Seq(Messages) /\ p[k + 1] \in Seq(Messages)
      BY <1>0, <2>1
    <2>3. QED
      BY <1>2, <1>7, <2>2, FlowMove
  <1>8. ASSUME NEW k \in 1 .. 6,
               \/ \E m \in Messages : m.kind \notin K /\ q[k] = Append(p[k], m)
               \/ p[k] # <<>> /\ Head(p[k]).kind \notin K /\ q[k] = Tail(p[k]),
               \A j \in 1 .. 6 : j # k => q[j] = p[j]
        PROVE  Flowing
    BY <1>0, <1>2, <1>8, FlowOther
  <1>9. Held(Idle, "present") = <<>> /\ Held(Idle, "deliver") = <<>> /\ Held(Idle, "publish") = <<>>
    BY DEF Held, Idle, Holding
  <1>10. CASE SendOther \/ PressEsc \/ SendCancel \/ EndRun \/ UNCHANGED vars
    <2>1. UNCHANGED <<lines, shown, pump, uiq, controller, bus, bridge, agentq>>
      BY <1>10 DEF SendOther, PressEsc, SendCancel, EndRun
    <2>2. \A k \in 1 .. 6 : q[k] = p[k]
      BY <1>0, <1>1, <1>3, <2>1
    <2>3. QED
      BY <1>5, <1>6, <2>1, <2>2
  <1>11. CASE TakeCommand
    <2>1. /\ UNCHANGED <<lines, shown, pump, uiq, bus, bridge, agentq>>
          /\ controller = Idle /\ controller' = Holding("publish", Head(cmds))
      BY <1>11 DEF TakeCommand
    <2>2. Held(controller', "present") = <<>>
      BY <2>1 DEF Held, Holding
    <2>3. \A k \in 1 .. 6 : q[k] = p[k]
      BY <1>0, <1>1, <1>3, <1>9, <2>1, <2>2
    <2>4. QED
      BY <1>5, <1>6, <2>1, <2>3
  <1>12. CASE PublishCommand
    <2>1. /\ UNCHANGED <<lines, shown, pump, uiq, bridge, agentq>>
          /\ controller.does = "publish" /\ controller' = Idle /\ bus' = Append(bus, controller.msg)
      BY <1>12 DEF PublishCommand, Published
    <2>2. Held(controller, "present") = <<>> /\ controller.msg.kind \notin K
      BY <2>1, MessageTypes DEF Held, WaysInv, Commands, K
    <2>3. q[4] = Append(p[4], controller.msg) /\ \A j \in 1 .. 6 : j # 4 => q[j] = p[j]
      BY <1>0, <1>1, <1>3, <1>9, <2>1, <2>2
    <2>4. Flowing
      BY <1>4, <1>8, <2>2, <2>3
    <2>5. QED
      BY <1>5, <2>1, <2>4
  <1>13. CASE TakeEvent
    <2>1. /\ UNCHANGED <<lines, shown, pump, uiq, bridge, agentq>>
          /\ controller = Idle /\ bus # <<>> /\ bus' = Tail(bus)
      BY <1>13 DEF TakeEvent
    <2>2. Held(controller, "present") = <<>> /\ Head(bus) \in Events /\ Head(bus) \in Messages
      BY <1>9, <2>1, MessageTypes DEF WaysInv
    <2>3. CASE controller' = Holding("present", Head(bus))
      <3>1. Held(controller', "present") = <<Head(bus)>> /\ <<Head(bus)>> = Append(<<>>, Head(bus))
        BY <2>2, <2>3, HandSteps
      <3>2. /\ q[3] = Append(p[3], Head(p[4])) /\ q[4] = Tail(p[4]) /\ p[4] # <<>>
            /\ \A j \in 1 .. 6 : j \notin {3, 4} => q[j] = p[j]
        BY <1>0, <1>1, <1>3, <2>1, <2>2, <3>1
      <3>3. 3 \in 1 .. 6 /\ 3 < 6 /\ 3 + 1 = 4
        OBVIOUS
      <3>4. Flowing
        BY <1>7, <3>2, <3>3
      <3>5. QED
        BY <1>5, <2>1, <3>4
    <2>4. CASE Head(bus).kind \in CommandKinds /\ controller' \in {Idle, Installing}
      <3>0. Held(controller', "present") = <<>>
        BY <1>9, <2>4 DEF Installing, Held, Holding
      <3>1. q[4] = Tail(p[4]) /\ p[4] # <<>> /\ \A j \in 1 .. 6 : j # 4 => q[j] = p[j]
        BY <1>0, <1>1, <1>3, <1>9, <2>1, <2>2, <3>0
      <3>2. Head(p[4]).kind \notin K
        BY <1>0, <2>4 DEF CommandKinds, K
      <3>3. Flowing
        BY <1>8, <3>1, <3>2
      <3>4. QED
        BY <1>5, <2>1, <3>3
    <2>5. CASE Head(bus).kind \in CommandKinds /\ controller' = Holding("present", Msg("notice", 0))
      <3> DEFINE mid == [k \in 1 .. 6 |-> IF k = 4 THEN Tail(p[4]) ELSE p[k]]
      <3>1. Msg("notice", 0) \in Messages /\ Msg("notice", 0).kind \notin K
        BY MessageTypes DEF Outputs, Msg, K
      <3>2. Held(controller', "present") = Append(<<>>, Msg("notice", 0))
        BY <2>5, <3>1, HandSteps
      <3>3. /\ mid[4] = Tail(p[4]) /\ \A j \in 1 .. 6 : j # 4 => mid[j] = p[j]
            /\ 4 \in 1 .. 6 /\ 3 \in 1 .. 6 /\ 3 # 4
        OBVIOUS
      <3> HIDE DEF mid
      <3>4. p[4] # <<>> /\ Head(p[4]).kind \notin K /\ p[4] \in Seq(Messages)
        BY <1>0, <2>1, <2>5, <3>3 DEF CommandKinds, K
      <3>5. Flows(mid, 6, K, Len(shown), lines)
        BY <1>2, <3>3, <3>4, FlowOther
      <3>6. /\ mid[3] \in Seq(Messages) /\ q[3] = Append(mid[3], Msg("notice", 0))
            /\ \A j \in 1 .. 6 : j # 3 => q[j] = mid[j]
        BY <1>0, <1>1, <1>3, <2>1, <2>2, <3>2, <3>3
      <3>7. Flowing
        BY <1>2, <3>1, <3>3, <3>5, <3>6, FlowOther
      <3>8. QED
        BY <1>5, <2>1, <3>7
    <2>6. QED
      BY <1>13, <2>3, <2>4, <2>5 DEF TakeEvent, CommandKinds
  <1>14. CASE Present
    <2>1. /\ UNCHANGED <<lines, shown, pump, bus, bridge, agentq>>
          /\ controller.does = "present" /\ controller' = Idle /\ uiq' = Append(uiq, controller.msg)
      BY <1>14 DEF Present, Enqueued
    <2>2. Held(controller, "present") = <<controller.msg>>
      BY <2>1 DEF Held
    <2>3. /\ <<controller.msg>> # <<>> /\ Head(<<controller.msg>>) = controller.msg
          /\ Tail(<<controller.msg>>) = <<>>
      BY <1>4
    <2>4. /\ q[2] = Append(p[2], Head(p[3])) /\ q[3] = Tail(p[3]) /\ p[3] # <<>>
          /\ \A j \in 1 .. 6 : j \notin {2, 3} => q[j] = p[j]
      BY <1>0, <1>1, <1>3, <1>9, <2>1, <2>2, <2>3
    <2>5. 2 \in 1 .. 6 /\ 2 < 6 /\ 2 + 1 = 3
      OBVIOUS
    <2>6. QED
      BY <1>5, <1>7, <2>1, <2>4, <2>5
  <1>15. CASE BridgeTake
    <2>1. /\ UNCHANGED <<lines, shown, pump, uiq, controller, bus>>
          /\ bridge = Idle /\ agentq # <<>> /\ agentq' = Tail(agentq)
          /\ bridge' = Holding("publish", Head(agentq)) /\ Head(agentq) \in Messages
      BY <1>15, MessageTypes DEF BridgeTake, WaysInv
    <2>2. Held(bridge', "publish") = <<Head(agentq)>> /\ <<Head(agentq)>> = Append(<<>>, Head(agentq))
      <3>1. Held(bridge', "publish") = <<Head(agentq)>>
        BY <2>1 DEF Held, Holding
      <3>2. \A m \in Messages : <<m>> = Append(<<>>, m)
        OBVIOUS
      <3>3. QED
        BY <2>1, <3>1, <3>2
    <2>3. /\ q[5] = Append(p[5], Head(p[6])) /\ q[6] = Tail(p[6]) /\ p[6] # <<>>
          /\ \A j \in 1 .. 6 : j \notin {5, 6} => q[j] = p[j]
      BY <1>0, <1>1, <1>3, <1>9, <2>1, <2>2
    <2>4. 5 \in 1 .. 6 /\ 5 < 6 /\ 5 + 1 = 6
      OBVIOUS
    <2>5. QED
      BY <1>5, <1>7, <2>1, <2>3, <2>4
  <1>16. CASE BridgePublish
    <2>1. /\ UNCHANGED <<lines, shown, pump, uiq, controller, agentq>>
          /\ bridge.does = "publish" /\ bridge' = Idle /\ bus' = Append(bus, bridge.msg)
      BY <1>16 DEF BridgePublish
    <2>2. Held(bridge, "publish") = <<bridge.msg>>
      BY <2>1 DEF Held
    <2>3. /\ <<bridge.msg>> # <<>> /\ Head(<<bridge.msg>>) = bridge.msg
          /\ Tail(<<bridge.msg>>) = <<>>
      BY <1>4
    <2>4. /\ q[4] = Append(p[4], Head(p[5])) /\ q[5] = Tail(p[5]) /\ p[5] # <<>>
          /\ \A j \in 1 .. 6 : j \notin {4, 5} => q[j] = p[j]
      BY <1>0, <1>1, <1>3, <1>9, <2>1, <2>2, <2>3
    <2>5. 4 \in 1 .. 6 /\ 4 < 6 /\ 4 + 1 = 5
      OBVIOUS
    <2>6. QED
      BY <1>5, <1>7, <2>1, <2>4, <2>5
  <1>17. CASE PumpTake
    <2>1. /\ UNCHANGED <<lines, shown, controller, bus, bridge, agentq>>
          /\ pump = Idle /\ uiq # <<>> /\ uiq' = Tail(uiq)
          /\ pump' = Holding("deliver", Head(uiq)) /\ Head(uiq) \in Messages
      BY <1>17, MessageTypes DEF PumpTake, WaysInv
    <2>2. Held(pump', "deliver") = <<Head(uiq)>> /\ <<Head(uiq)>> = Append(<<>>, Head(uiq))
      <3>1. Held(pump', "deliver") = <<Head(uiq)>>
        BY <2>1 DEF Held, Holding
      <3>2. \A m \in Messages : <<m>> = Append(<<>>, m)
        OBVIOUS
      <3>3. QED
        BY <2>1, <3>1, <3>2
    <2>3. /\ q[1] = Append(p[1], Head(p[2])) /\ q[2] = Tail(p[2]) /\ p[2] # <<>>
          /\ \A j \in 1 .. 6 : j \notin {1, 2} => q[j] = p[j]
      BY <1>0, <1>1, <1>3, <1>9, <2>1, <2>2
    <2>4. 1 \in 1 .. 6 /\ 1 < 6 /\ 1 + 1 = 2
      OBVIOUS
    <2>5. QED
      BY <1>5, <1>7, <2>1, <2>3, <2>4
  <1>18. CASE PumpDeliver
    <2>1. /\ UNCHANGED <<lines, uiq, controller, bus, bridge, agentq>>
          /\ pump.does = "deliver" /\ pump' = Idle
      BY <1>18 DEF PumpDeliver
    <2>2. Held(pump, "deliver") = <<pump.msg>>
      BY <2>1 DEF Held
    <2>3. /\ <<pump.msg>> # <<>> /\ Head(<<pump.msg>>) = pump.msg /\ Tail(<<pump.msg>>) = <<>>
      BY <1>4
    <2>4. /\ p[1] # <<>> /\ Head(p[1]) = pump.msg /\ q[1] = Tail(p[1]) /\ 1 \in 1 .. 6
          /\ \A j \in 1 .. 6 : j # 1 => q[j] = p[j]
      <3>1. p[1] = <<pump.msg>> /\ q[1] = <<>>
        BY <1>0, <1>1, <1>9, <2>1, <2>2
      <3>2. \A j \in 1 .. 6 : j # 1 => q[j] = p[j]
        BY <1>0, <1>1, <1>3, <2>1
      <3>3. QED
        BY <2>3, <3>1, <3>2
    <2>5. CASE pump.msg.kind \notin K
      <3>1. UNCHANGED shown
        BY <1>18, <2>5 DEF PumpDeliver, K
      <3>2. Flowing
        BY <1>8, <2>4, <2>5
      <3>3. QED
        BY <1>5, <2>1, <3>1, <3>2
    <2>6. CASE pump.msg.kind \in K
      <3>1. shown' = Append(shown, pump.msg.n)
        BY <1>18, <2>6 DEF PumpDeliver, K
      <3>2. pump.msg.n = Len(shown) + 1 /\ Len(shown) < lines /\ Flows(q, 6, K, Len(shown) + 1, lines)
        <4>1. p[1] \in Seq(Messages) /\ Head(p[1]).kind \in K
          BY <1>0, <2>4, <2>6
        <4>2. Head(p[1]).n = Len(shown) + 1 /\ Len(shown) < lines /\ Flows(q, 6, K, Len(shown) + 1, lines)
          BY <1>2, <2>4, <4>1, FlowReceive
        <4>3. QED
          BY <2>4, <4>2
      <3>3. Len(shown') = Len(shown) + 1 /\ \A i \in DOMAIN shown' : shown'[i] = i
        BY <3>1, <3>2 DEF LinesInv, TypeOK
      <3>4. LinesInv'
        BY <2>1, <3>2, <3>3 DEF LinesInv, q, K
      <3>5. QED
        BY <2>1, <3>1, <3>2, <3>4
    <2>7. QED
      BY <2>5, <2>6
  <1>19. CASE Emit
    <2>1. /\ UNCHANGED <<shown, pump, uiq, controller, bus, bridge>>
          /\ lines' = lines + 1 /\ agentq' = Append(agentq, Msg("line", lines + 1)) /\ lines < MaxLines
      BY <1>19 DEF Emit
    <2>2. Msg("line", lines + 1) \in Lines /\ lines + 1 \in 1 .. MaxLines
      BY <1>2, <2>1 DEF Msg, Lines
    <2>3. PICK m \in Messages : m = Msg("line", lines + 1) /\ m.kind \in K /\ m.n = lines + 1
      BY <2>2, MessageTypes DEF Msg, K
    <2>4. q[6] = Append(p[6], m) /\ \A j \in 1 .. 6 : j # 6 => q[j] = p[j]
      BY <1>0, <1>1, <1>3, <2>1, <2>3
    <2>5. Flows(q, 6, K, Len(shown), lines + 1)
      <3>1. p[6] \in Seq(Messages) /\ 6 \in Nat \ {0}
        BY <1>0
      <3>2. QED
        BY <1>2, <2>3, <2>4, <3>1, FlowSend
    <2>6. LinesInv'
      BY <2>1, <2>5 DEF LinesInv, q, K
    <2>7. QED
      BY <2>1, <2>2, <2>6
  <1>20. CASE Complete
    <2>1. /\ UNCHANGED <<lines, shown, pump, uiq, controller, bridge, agentq>>
          /\ bus' = Append(bus, Msg("done", 0))
      BY <1>20 DEF Complete
    <2>2. Msg("done", 0) \in Messages /\ Msg("done", 0).kind \notin K
      BY MessageTypes DEF Events, Msg, K
    <2>3. q[4] = Append(p[4], Msg("done", 0)) /\ \A j \in 1 .. 6 : j # 4 => q[j] = p[j]
      BY <1>0, <1>1, <1>3, <2>1
    <2>4. Flowing
      BY <1>8, <2>2, <2>3
    <2>5. QED
      BY <1>5, <2>1, <2>4
  <1>21. CASE Report
    <2>1. /\ UNCHANGED <<lines, shown, pump, uiq, controller, bus, bridge>>
          /\ agentq' = Append(agentq, Msg("issue", 0))
      BY <1>21 DEF Report
    <2>2. Msg("issue", 0) \in Messages /\ Msg("issue", 0).kind \notin K
      BY MessageTypes DEF Reports, Msg, K
    <2>3. q[6] = Append(p[6], Msg("issue", 0)) /\ \A j \in 1 .. 6 : j # 6 => q[j] = p[j]
      BY <1>0, <1>1, <1>3, <2>1
    <2>4. Flowing
      BY <1>8, <2>2, <2>3
    <2>5. QED
      BY <1>5, <2>1, <2>4
  <1>22. CASE ReportInstalled
    <2> DEFINE mid == [k \in 1 .. 6 |-> IF k = 6 THEN Append(p[6], Msg("issue", 0)) ELSE p[k]]
    <2>1. /\ UNCHANGED <<lines, shown, pump, uiq, bus, bridge>>
          /\ controller.does = "report" /\ controller' = Holding("present", Msg("notice", 0))
          /\ agentq' = Append(agentq, Msg("issue", 0))
      BY <1>22 DEF ReportInstalled, WaysInv
    <2>2. /\ Msg("issue", 0) \in Messages /\ Msg("issue", 0).kind \notin K
          /\ Msg("notice", 0) \in Messages /\ Msg("notice", 0).kind \notin K
      BY MessageTypes DEF Reports, Outputs, Msg, K
    <2>3. /\ Held(controller, "present") = <<>>
          /\ Held(controller', "present") = Append(<<>>, Msg("notice", 0))
      BY <2>1, <2>2, HandSteps DEF Held
    <2>4. /\ mid[6] = Append(p[6], Msg("issue", 0)) /\ \A j \in 1 .. 6 : j # 6 => mid[j] = p[j]
          /\ 6 \in 1 .. 6 /\ 3 \in 1 .. 6 /\ 3 # 6
      OBVIOUS
    <2> HIDE DEF mid
    <2>5. Flows(mid, 6, K, Len(shown), lines)
      <3>1. \E m \in Messages : m.kind \notin K /\ mid[6] = Append(p[6], m)
        BY <2>2, <2>4
      <3>2. \A j \in 1 .. 6 : j # 6 => mid[j] = p[j]
        BY <2>4
      <3>3. p[6] \in Seq(Messages) /\ 6 \in 1 .. 6 /\ 6 \in Nat
        BY <1>0
      <3>4. QED
        BY <1>2, <3>1, <3>2, <3>3, FlowOther
    <2>6. /\ mid[3] \in Seq(Messages) /\ q[3] = Append(mid[3], Msg("notice", 0))
          /\ \A j \in 1 .. 6 : j # 3 => q[j] = mid[j]
      BY <1>0, <1>1, <1>3, <2>1, <2>3, <2>4
    <2>7. Flowing
      BY <1>2, <2>2, <2>4, <2>5, <2>6, FlowOther
    <2>8. QED
      BY <1>5, <2>1, <2>7
  <1>23. QED
    BY <1>10, <1>11, <1>12, <1>13, <1>14, <1>15, <1>16, <1>17, <1>18, <1>19, <1>20, <1>21, <1>22
       DEF Next, Controller, Bridge, Pump

\* The places of the commands' path are channels.
LEMMA CommandPathType ==
  ASSUME TypeOK
  PROVE  /\ CommandPath[1] = bus /\ CommandPath[2] = Held(controller, "publish") /\ CommandPath[3] = cmds
         /\ \A k \in 1 .. 3 : CommandPath[k] \in Seq(Messages)
  <1>1. controller.msg \in Messages
    BY DEF TypeOK, Holds
  <1>2. <<controller.msg>> \in Seq(Messages)
    BY <1>1
  <1>3. Held(controller, "publish") \in Seq(Messages)
    BY <1>2 DEF Held
  <1>4. bus \in Seq(Messages) /\ cmds \in Seq(Messages)
    BY DEF TypeOK, BoundedSeq
  <1>5. CommandPath[1] = bus /\ CommandPath[2] = Held(controller, "publish") /\ CommandPath[3] = cmds
    BY DEF CommandPath
  <1>6. ASSUME NEW k \in 1 .. 3 PROVE CommandPath[k] \in Seq(Messages)
    <2>1. k = 1 \/ k = 2 \/ k = 3
      OBVIOUS
    <2>2. QED
      BY <1>3, <1>4, <1>5, <2>1
  <1>7. QED
    BY <1>5, <1>6

\* What holds of all messages of a channel holds after a send and a receive.
LEMMA AllSteps ==
  ASSUME NEW s \in Seq(Messages), NEW Good, \A i \in DOMAIN s : s[i] \in Good
  PROVE  /\ \A m \in Messages \cap Good : \A i \in DOMAIN Append(s, m) : Append(s, m)[i] \in Good
         /\ s # <<>> => Head(s) \in Good /\ \A i \in DOMAIN Tail(s) : Tail(s)[i] \in Good
  <1>1. ASSUME NEW m \in Messages \cap Good, NEW i \in DOMAIN Append(s, m)
        PROVE  Append(s, m)[i] \in Good
    <2>1. (i \in DOMAIN s /\ Append(s, m)[i] = s[i]) \/ Append(s, m)[i] = m
      OBVIOUS
    <2>2. QED
      BY <1>1, <2>1
  <1>2. ASSUME s # <<>>, NEW i \in DOMAIN Tail(s) PROVE Tail(s)[i] \in Good
    <2>1. i + 1 \in DOMAIN s /\ Tail(s)[i] = s[i + 1]
      BY <1>2
    <2>2. QED
      BY <2>1
  <1>3. s # <<>> => 1 \in DOMAIN s /\ Head(s) = s[1]
    OBVIOUS
  <1>4. QED
    BY <1>1, <1>2, <1>3

\* A command keeps its number wherever it goes.
LEMMA TakenStep == TypeOK /\ WaysInv /\ TakenInv /\ [Next]_vars => TakenInv'
  <1> SUFFICES ASSUME TypeOK, WaysInv, TakenInv, [Next]_vars PROVE TakenInv'
    OBVIOUS
  <1> DEFINE Good == {m \in Messages : m.kind \in CommandKinds => IsAccepted(m)}
             Next1 == {m \in Messages : m.kind \in CommandKinds => IsAccepted(m)'}
  <1>0. /\ cmds \in Seq(Messages) /\ bus \in Seq(Messages) /\ accepted \in Seq(Messages)
        /\ Len(accepted) \in Nat
    BY MessageTypes DEF TypeOK, BoundedSeq
  <1>1. Good \subseteq Next1
    <2>1. CASE UNCHANGED accepted
      BY <2>1 DEF IsAccepted
    <2>2. CASE \E m : accepted' = Append(accepted, m)
      <3>1. \A n \in DOMAIN accepted : n \in DOMAIN accepted' /\ accepted'[n] = accepted[n]
        BY <1>0, <2>2
      <3>2. QED
        BY <3>1 DEF IsAccepted
    <2>3. QED
      BY <2>1, <2>2 DEF Next, SendOther, PressEsc, SendCancel, Accept, Controller, TakeCommand, PublishCommand,
         TakeEvent, Present, Bridge, BridgeTake, BridgePublish, Pump, PumpTake, PumpDeliver, Emit, EndRun,
         Complete, Report, ReportInstalled
  <1>2. /\ \A i \in DOMAIN cmds : cmds[i] \in Next1
        /\ \A i \in DOMAIN bus : bus[i] \in Next1
        /\ controller.does = "publish" => controller.msg \in Next1
    <2>1. \A i \in DOMAIN cmds : cmds[i] \in Good
      BY <1>0 DEF TakenInv
    <2>2. \A i \in DOMAIN bus : bus[i] \in Good
      BY <1>0 DEF TakenInv
    <2>3. controller.does = "publish" => controller.msg \in Good
      BY DEF TakenInv, TypeOK, Holds
    <2>4. QED
      BY <1>1, <2>1, <2>2, <2>3
  <1>3. \A m \in Commands \cap Next1 : IsAccepted(m)'
    BY DEF Commands, CommandKinds
  <1>4. \A m \in Messages : m.kind \notin CommandKinds => m \in Next1
    OBVIOUS
  <1>5. /\ \A m \in Next1 : m.kind \in CommandKinds => IsAccepted(m)'
        /\ Next1 \subseteq Messages
    OBVIOUS
  <1> HIDE DEF Good, Next1
  <1>6. ASSUME \A i \in DOMAIN cmds' : cmds'[i] \in Next1,
               \A i \in DOMAIN bus' : bus'[i] \in Next1,
               controller.does' = "publish" => controller.msg' \in Next1
        PROVE  TakenInv'
    <2>1. cmds' \in Seq(Commands) /\ (controller.does' = "publish" => controller.msg' \in Commands)
      BY ChannelsStep, HeldStep
    <2>2. \A i \in DOMAIN cmds' : IsAccepted(cmds[i])'
      BY <1>3, <1>6, <2>1
    <2>3. controller.does' = "publish" => IsAccepted(controller.msg)'
      BY <1>3, <1>6, <2>1
    <2>4. \A i \in DOMAIN bus' : bus'[i].kind \in CommandKinds => IsAccepted(bus[i])'
      BY <1>5, <1>6
    <2>5. QED
      BY <2>2, <2>3, <2>4 DEF TakenInv
  <1>7. CASE UNCHANGED <<cmds, bus, controller>>
    BY <1>2, <1>6, <1>7
  <1>8. CASE SendOther \/ SendCancel
    <2>1. PICK m : /\ m = Msg("other", Len(accepted) + 1) \/ m = Msg("cancel", Len(accepted) + 1)
                   /\ cmds' = Append(cmds, m) /\ accepted' = Append(accepted, m)
      BY <1>8 DEF SendOther, SendCancel, Accept
    <2>2. Len(accepted) < MaxCommands /\ UNCHANGED <<bus, controller>>
      BY <1>8 DEF SendOther, SendCancel, WaysInv
    <2>3. m \in Commands
      BY <1>0, <2>1, <2>2 DEF Msg, Commands
    <2>4. m \in Messages /\ m.n = Len(accepted) + 1
      BY <2>1, <2>3, MessageTypes DEF Msg
    <2>5. m.n \in DOMAIN accepted' /\ accepted'[m.n] = m
      BY <1>0, <2>1, <2>4
    <2>6. m \in Next1
      BY <2>4, <2>5 DEF Next1, IsAccepted
    <2>7. \A i \in DOMAIN cmds' : cmds'[i] \in Next1
      BY <1>0, <1>2, <2>1, <2>4, <2>6, AllSteps
    <2>8. QED
      BY <1>2, <1>6, <2>2, <2>7
  <1>9. CASE TakeCommand
    <2>1. /\ UNCHANGED bus /\ cmds # <<>> /\ cmds' = Tail(cmds)
          /\ controller.msg' = Head(cmds)
      BY <1>9 DEF TakeCommand, Holding
    <2>2. Head(cmds) \in Next1 /\ \A i \in DOMAIN cmds' : cmds'[i] \in Next1
      BY <1>0, <1>2, <2>1, AllSteps
    <2>3. QED
      BY <1>2, <1>6, <2>1, <2>2
  <1>10. ASSUME NEW m \in Messages \cap Next1, bus' = Append(bus, m)
         PROVE  \A i \in DOMAIN bus' : bus'[i] \in Next1
    BY <1>0, <1>2, <1>10, AllSteps
  <1>11. CASE PublishCommand
    <2>1. /\ controller.does = "publish" /\ bus' = Append(bus, controller.msg)
          /\ UNCHANGED cmds /\ controller.does' = "idle"
      BY <1>11 DEF PublishCommand, Published, Idle, Holding
    <2>2. QED
      BY <1>2, <1>5, <1>6, <1>10, <2>1
  <1>12. CASE BridgePublish
    <2>1. bridge.msg \in Reports /\ bus' = Append(bus, bridge.msg) /\ UNCHANGED <<cmds, controller>>
      BY <1>12 DEF BridgePublish, WaysInv
    <2>2. bridge.msg \in Messages /\ bridge.msg.kind \notin CommandKinds
      BY <2>1, MessageTypes DEF Lines, CommandKinds
    <2>3. QED
      BY <1>2, <1>4, <1>6, <1>10, <2>1, <2>2
  <1>13. CASE Complete
    <2>1. bus' = Append(bus, Msg("done", 0)) /\ UNCHANGED <<cmds, controller>>
      BY <1>13 DEF Complete
    <2>2. Msg("done", 0) \in Messages /\ Msg("done", 0).kind \notin CommandKinds
      BY MessageTypes DEF Events, CommandKinds, Msg
    <2>3. QED
      BY <1>2, <1>4, <1>6, <1>10, <2>1, <2>2
  <1>14. CASE TakeEvent
    <2>1. /\ bus # <<>> /\ bus' = Tail(bus) /\ UNCHANGED cmds
          /\ controller.does' \in {"idle", "present", "report"}
      BY <1>14 DEF TakeEvent, Installing, Idle, Holding
    <2>2. \A i \in DOMAIN bus' : bus'[i] \in Next1
      BY <1>0, <1>2, <2>1, AllSteps
    <2>3. QED
      BY <1>2, <1>6, <2>1, <2>2
  <1>15. CASE Present \/ ReportInstalled
    <2>1. UNCHANGED <<bus, cmds>> /\ controller.does' \in {"idle", "present"}
      BY <1>15 DEF Present, ReportInstalled, Idle, Holding
    <2>2. QED
      BY <1>2, <1>6, <2>1
  <1>16. QED
    BY <1>7, <1>8, <1>9, <1>11, <1>12, <1>13, <1>14, <1>15 DEF Next, PressEsc, Controller, Bridge,
       BridgeTake, Pump, PumpTake, PumpDeliver, Emit, EndRun, Report

\* A command goes from the UI's channel through the controller's hand and the bus to
\* its handler.
LEMMA CommandsStep ==
  ASSUME TypeOK, WaysInv, TakenInv, CommandsInv, [Next]_vars
  PROVE  /\ CommandsInv'
         /\ \/ UNCHANGED <<accepted, handled>>
            \/ (\E m \in Commands : accepted' = Append(accepted, m)) /\ UNCHANGED handled
            \/ /\ Len(handled) < Len(accepted) /\ UNCHANGED accepted
               /\ handled' = Append(handled, accepted[Len(handled) + 1])
  <1> DEFINE K == CommandKinds
             p == CommandPath
             q == CommandPath'
             Flowing == Flows(q, 3, K, Len(handled), Len(accepted))
  <1>0. /\ p[1] = bus /\ p[2] = Held(controller, "publish") /\ p[3] = cmds
        /\ \A k \in 1 .. 3 : p[k] \in Seq(Messages)
    BY CommandPathType
  <1>1. q[1] = bus' /\ q[2] = Held(controller', "publish") /\ q[3] = cmds'
    BY DEF CommandPath, Held
  <1>2. /\ Flows(p, 3, K, Len(handled), Len(accepted))
        /\ Len(handled) \in Nat /\ Len(accepted) \in Nat /\ 3 \in Nat \ {0}
    BY DEF CommandsInv, TypeOK
  <1>18. accepted \in Seq(Commands) /\ handled \in Seq(Commands)
    BY DEF TypeOK
  <1>19. \A i \in DOMAIN handled : i \in DOMAIN accepted /\ handled[i] = accepted[i]
    BY DEF CommandsInv
  <1> HIDE DEF p, q, K
  <1>3. \A k \in 1 .. 3 : k = 1 \/ k = 2 \/ k = 3
    OBVIOUS
  <1>4. controller.msg \in Messages /\ bridge.msg \in Messages
    BY DEF TypeOK, Holds
  <1>5. ASSUME Flowing, UNCHANGED <<accepted, handled>>
        PROVE  CommandsInv' /\ UNCHANGED <<accepted, handled>>
    BY <1>5, <1>19 DEF CommandsInv, q, K
  <1>6. ASSUME \A k \in 1 .. 3 : q[k] = p[k] PROVE Flowing
    BY <1>2, <1>6, FlowSame
  <1>7. ASSUME NEW k \in 1 .. 3, k < 3, p[k + 1] # <<>>,
               q[k] = Append(p[k], Head(p[k + 1])), q[k + 1] = Tail(p[k + 1]),
               \A j \in 1 .. 3 : j \notin {k, k + 1} => q[j] = p[j]
        PROVE  Flowing
    <2>1. k + 1 \in 1 .. 3
      BY <1>7
    <2>2. p[k] \in Seq(Messages) /\ p[k + 1] \in Seq(Messages)
      BY <1>0, <2>1
    <2>3. QED
      BY <1>2, <1>7, <2>2, FlowMove
  <1>8. ASSUME NEW m \in Messages, m.kind \notin K, q[1] = Append(p[1], m),
               \A j \in 1 .. 3 : j # 1 => q[j] = p[j]
        PROVE  Flowing
    <2>1. 1 \in 1 .. 3 /\ p[1] \in Seq(Messages)
      BY <1>0
    <2>2. QED
      BY <1>2, <1>8, <2>1, FlowOther
  <1>9. Held(Idle, "publish") = <<>>
    BY DEF Held, Idle, Holding
  <1>10. CASE PressEsc \/ BridgeTake \/ Pump \/ Emit \/ EndRun \/ Report \/ UNCHANGED vars
    <2>1. UNCHANGED <<accepted, handled, controller, bus, cmds>>
      BY <1>10 DEF PressEsc, BridgeTake, Pump, PumpTake, PumpDeliver, Emit, EndRun, Report
    <2>2. \A k \in 1 .. 3 : q[k] = p[k]
      BY <1>0, <1>1, <1>3, <2>1
    <2>3. QED
      BY <1>5, <1>6, <2>1, <2>2
  <1>11. CASE SendOther \/ SendCancel
    <2>1. PICK m : /\ m = Msg("other", Len(accepted) + 1) \/ m = Msg("cancel", Len(accepted) + 1)
                   /\ cmds' = Append(cmds, m) /\ accepted' = Append(accepted, m)
      BY <1>11 DEF SendOther, SendCancel, Accept
    <2>2. Len(accepted) < MaxCommands /\ UNCHANGED <<bus, controller, handled>>
      BY <1>11 DEF SendOther, SendCancel, WaysInv
    <2>3. m \in Commands
      <3>1. Len(accepted) + 1 \in 1 .. MaxCommands
        BY <1>2, <2>2
      <3>2. QED
        BY <2>1, <3>1 DEF Msg, Commands
    <2>4. m \in Messages /\ m.n = Len(accepted) + 1 /\ m.kind \in K
      BY <2>1, <2>3, MessageTypes DEF Msg, Commands, CommandKinds, K
    <2>5. q[3] = Append(p[3], m) /\ \A j \in 1 .. 3 : j # 3 => q[j] = p[j]
      BY <1>0, <1>1, <1>3, <2>1, <2>2
    <2>6. p[3] \in Seq(Messages)
      BY <1>0
    <2>7. Flows(q, 3, K, Len(handled), Len(accepted) + 1)
      BY <1>2, <2>4, <2>5, <2>6, FlowSend
    <2>8. /\ Len(accepted') = Len(accepted) + 1
          /\ \A i \in DOMAIN accepted : i \in DOMAIN accepted' /\ accepted'[i] = accepted[i]
      BY <1>18, <2>1, <2>3
    <2>9. CommandsInv'
      BY <1>19, <2>2, <2>7, <2>8 DEF CommandsInv, q, K
    <2>10. QED
      BY <2>1, <2>2, <2>3, <2>9
  <1>12. CASE TakeCommand
    <2>1. /\ UNCHANGED <<accepted, handled, bus>>
          /\ controller = Idle /\ cmds # <<>> /\ cmds' = Tail(cmds)
          /\ controller' = Holding("publish", Head(cmds)) /\ Head(cmds) \in Messages
      BY <1>12, MessageTypes DEF TakeCommand, WaysInv
    <2>2. Held(controller', "publish") = <<Head(cmds)>> /\ <<Head(cmds)>> = Append(<<>>, Head(cmds))
      <3>1. Held(controller', "publish") = <<Head(cmds)>>
        BY <2>1 DEF Held, Holding
      <3>2. \A m \in Messages : <<m>> = Append(<<>>, m)
        OBVIOUS
      <3>3. QED
        BY <2>1, <3>1, <3>2
    <2>3. /\ q[2] = Append(p[2], Head(p[3])) /\ q[3] = Tail(p[3]) /\ p[3] # <<>>
          /\ \A j \in 1 .. 3 : j \notin {2, 3} => q[j] = p[j]
      BY <1>0, <1>1, <1>3, <1>9, <2>1, <2>2
    <2>4. 2 \in 1 .. 3 /\ 2 < 3 /\ 2 + 1 = 3
      OBVIOUS
    <2>5. QED
      BY <1>5, <1>7, <2>1, <2>3, <2>4
  <1>13. CASE PublishCommand
    <2>1. /\ UNCHANGED <<accepted, handled, cmds>>
          /\ controller.does = "publish" /\ controller' = Idle /\ bus' = Append(bus, controller.msg)
      BY <1>13 DEF PublishCommand, Published
    <2>2. Held(controller, "publish") = <<controller.msg>>
      BY <2>1 DEF Held
    <2>3. /\ <<controller.msg>> # <<>> /\ Head(<<controller.msg>>) = controller.msg
          /\ Tail(<<controller.msg>>) = <<>>
      BY <1>4
    <2>4. /\ q[1] = Append(p[1], Head(p[2])) /\ q[2] = Tail(p[2]) /\ p[2] # <<>>
          /\ \A j \in 1 .. 3 : j \notin {1, 2} => q[j] = p[j]
      BY <1>0, <1>1, <1>3, <1>9, <2>1, <2>2, <2>3
    <2>5. 1 \in 1 .. 3 /\ 1 < 3 /\ 1 + 1 = 2
      OBVIOUS
    <2>6. QED
      BY <1>5, <1>7, <2>1, <2>4, <2>5
  <1>14. CASE TakeEvent
    <2>1. /\ UNCHANGED <<accepted, cmds>>
          /\ controller = Idle /\ bus # <<>> /\ bus' = Tail(bus)
          /\ controller'.does \in {"idle", "present", "report"}
      BY <1>14 DEF TakeEvent, Installing, Idle, Holding
    <2>2. Held(controller', "publish") = <<>>
      BY <2>1 DEF Held
    <2>3. /\ q[1] = Tail(p[1]) /\ p[1] # <<>> /\ \A j \in 1 .. 3 : j # 1 => q[j] = p[j]
          /\ p[1] \in Seq(Messages) /\ 1 \in 1 .. 3 /\ Head(p[1]) = Head(bus)
      BY <1>0, <1>1, <1>3, <1>9, <2>1, <2>2
    <2>4. CASE Head(bus).kind \notin K
      <3>1. UNCHANGED handled
        BY <1>14, <2>4 DEF TakeEvent, K, CommandKinds
      <3>2. Flowing
        BY <1>2, <2>3, <2>4, FlowOther
      <3>3. QED
        BY <1>5, <2>1, <3>1, <3>2
    <2>5. CASE Head(bus).kind \in K
      <3>1. handled' = Append(handled, Head(bus))
        BY <1>14, <2>5 DEF TakeEvent, K, CommandKinds
      <3>2. /\ Head(bus).n = Len(handled) + 1 /\ Len(handled) < Len(accepted)
            /\ Flows(q, 3, K, Len(handled) + 1, Len(accepted))
        <4>1. Head(p[1]).kind \in K
          BY <2>3, <2>5
        <4>2. /\ Head(p[1]).n = Len(handled) + 1 /\ Len(handled) < Len(accepted)
              /\ Flows(q, 3, K, Len(handled) + 1, Len(accepted))
          BY <1>2, <2>3, <4>1, FlowReceive
        <4>3. QED
          BY <2>3, <4>2
      <3>3. IsAccepted(Head(bus))
        <4>1. bus \in Seq(Messages) /\ bus # <<>>
          BY <1>0, <2>1
        <4>2. 1 \in DOMAIN bus /\ Head(bus) = bus[1]
          BY <4>1
        <4>3. QED
          BY <2>5, <4>2 DEF TakenInv, K
      <3>4. Head(bus) = accepted[Len(handled) + 1] /\ Len(handled) + 1 \in DOMAIN accepted
        BY <3>2, <3>3 DEF IsAccepted
      <3>5. /\ Len(handled') = Len(handled) + 1
            /\ \A i \in DOMAIN handled' : i \in DOMAIN accepted /\ handled'[i] = accepted[i]
        <4>1. PICK c \in Commands : c = accepted[Len(handled) + 1] /\ handled' = Append(handled, c)
          BY <1>18, <3>1, <3>4
        <4>2. \A i \in DOMAIN handled' :
                \/ i = Len(handled) + 1 /\ handled'[i] = c
                \/ i \in DOMAIN handled /\ handled'[i] = handled[i]
          BY <1>18, <4>1
        <4>3. Len(handled') = Len(handled) + 1
          BY <1>18, <4>1
        <4>4. QED
          BY <1>19, <3>4, <4>1, <4>2, <4>3
      <3>6. CommandsInv'
        BY <2>1, <3>2, <3>5 DEF CommandsInv, q, K
      <3>7. QED
        BY <2>1, <3>1, <3>2, <3>4, <3>6
    <2>6. QED
      BY <2>4, <2>5
  <1>15. CASE Present \/ ReportInstalled
    <2>1. /\ UNCHANGED <<accepted, handled, cmds, bus>>
          /\ controller.does \in {"present", "report"} /\ controller'.does \in {"idle", "present"}
      BY <1>15 DEF Present, ReportInstalled, Idle, Holding
    <2>2. Held(controller, "publish") = <<>> /\ Held(controller', "publish") = <<>>
      BY <2>1 DEF Held
    <2>3. \A k \in 1 .. 3 : q[k] = p[k]
      BY <1>0, <1>1, <1>3, <1>9, <2>1, <2>2
    <2>4. QED
      BY <1>5, <1>6, <2>1, <2>3
  <1>16. CASE BridgePublish \/ Complete
    <2>1. UNCHANGED <<accepted, handled, cmds, controller>>
      BY <1>16 DEF BridgePublish, Complete
    <2>2. \E m \in Messages : m.kind \notin K /\ bus' = Append(bus, m)
      <3>1. CASE BridgePublish
        <4>1. bridge.msg \in Reports /\ bus' = Append(bus, bridge.msg)
          BY <3>1 DEF BridgePublish, WaysInv
        <4>2. bridge.msg \in Messages /\ bridge.msg.kind \notin K
          BY <4>1, MessageTypes DEF K
        <4>3. QED
          BY <4>1, <4>2
      <3>2. CASE Complete
        <4>1. Msg("done", 0) \in Messages /\ Msg("done", 0).kind \notin K
          BY MessageTypes DEF Events, Msg, K, CommandKinds
        <4>2. QED
          BY <3>2, <4>1 DEF Complete
      <3>3. QED
        BY <1>16, <3>1, <3>2
    <2>3. PICK m \in Messages : m.kind \notin K /\ q[1] = Append(p[1], m)
      BY <1>0, <1>1, <2>2
    <2>4. \A j \in 1 .. 3 : j # 1 => q[j] = p[j]
      BY <1>0, <1>1, <1>3, <2>1
    <2>5. QED
      BY <1>5, <1>8, <2>1, <2>3, <2>4
  <1>17. QED
    BY <1>10, <1>11, <1>12, <1>13, <1>14, <1>15, <1>16 DEF Next, Controller, Bridge

-----------------------------------------------------------------------------
(* What is sent arrives.                                                   *)

\* A path of empty channels carries nothing.
LEMMA FlowInit ==
  ASSUME NEW path, NEW length \in Nat, NEW kinds, \A k \in 1 .. length : path[k] = <<>>
  PROVE  Flows(path, length, kinds, 0, 0)
  <1> DEFINE cut == [k \in 0 .. length |-> 0]
  <1>1. cut \in [0 .. length -> 0 .. 0] /\ cut[0] = 0 /\ cut[length] = 0
    OBVIOUS
  <1>2. \A k \in 0 .. length : cut[k] = 0
    OBVIOUS
  <1> HIDE DEF cut
  <1>3. Carries(<<>>, kinds, 0, 0)
    BY DEF Carries
  <1>4. \A k \in 1 .. length : Carries(path[k], kinds, cut[k - 1], cut[k])
    <2>1. \A k \in 1 .. length : k \in 0 .. length /\ k - 1 \in 0 .. length
      OBVIOUS
    <2>2. QED
      BY <1>2, <1>3, <2>1
  <1>5. \A i, j \in 0 .. length : i <= j => cut[i] <= cut[j]
    BY <1>2
  <1>6. QED
    BY <1>1, <1>4, <1>5 DEF Flows, FlowsBy

\* At the start nothing is on its way.
LEMMA PathsInit == Init => LinesInv /\ TakenInv /\ CommandsInv
  <1> SUFFICES ASSUME Init PROVE LinesInv /\ TakenInv /\ CommandsInv
    OBVIOUS
  <1>1. \A action \in {"publish", "present", "deliver"} : Held(Idle, action) = <<>>
    BY DEF Held, Idle, Holding
  <1>2. LinePath = <<<<>>, <<>>, <<>>, <<>>, <<>>, <<>>>> /\ CommandPath = <<<<>>, <<>>, <<>>>>
    BY <1>1 DEF Init, LinePath, CommandPath
  <1>3. Flows(LinePath, 6, {"line"}, 0, 0)
    <2>1. \A k \in 1 .. 6 : LinePath[k] = <<>>
      BY <1>2
    <2>2. QED
      BY <2>1, FlowInit
  <1>4. Flows(CommandPath, 3, CommandKinds, 0, 0)
    <2>1. \A k \in 1 .. 3 : CommandPath[k] = <<>>
      BY <1>2
    <2>2. QED
      BY <2>1, FlowInit
  <1>5. QED
    BY <1>3, <1>4 DEF Init, LinesInv, TakenInv, CommandsInv, Idle

\* The messages of the agent are the numbers up to lines.
LEMMA SentLines ==
  ASSUME NEW n \in Nat
  PROVE  /\ Len([i \in 1 .. n |-> i]) = n
         /\ \A i \in 1 .. n : [j \in 1 .. n |-> j][i] = i
         /\ [i \in 1 .. (n + 1) |-> i] = Append([i \in 1 .. n |-> i], n + 1)
  <1>1. [i \in 1 .. n |-> i] \in Seq(Nat) /\ Len([i \in 1 .. n |-> i]) = n
    OBVIOUS
  <1>2. QED
    BY <1>1

\* Pipe for the lines: whatever the capacities, and with any of the channels full,
\* the UI is given what the agent sent, in order, once.
THEOREM LinesArrive == Spec => AgentToUI
  <1>1. Init => AgentPipe!Init
    BY DEF Init, AgentPipe!Init
  <1>2. /\ TypeOK /\ WaysInv /\ LinesInv /\ [Next]_vars
        => LinesInv' /\ [AgentPipe!Next]_<<[i \in 1 .. lines |-> i], shown>>
    <2> SUFFICES ASSUME TypeOK, WaysInv, LinesInv, [Next]_vars
                 PROVE  /\ LinesInv'
                        /\ [AgentPipe!Next]_<<[i \in 1 .. lines |-> i], shown>>
      OBVIOUS
    <2>1. lines \in Nat /\ shown \in Seq(1 .. MaxLines) /\ Len(shown) \in Nat
      BY DEF TypeOK
    <2>2. CASE UNCHANGED <<lines, shown>>
      BY <2>2, LinesStep
    <2>3. CASE lines' = lines + 1 /\ lines' \in 1 .. MaxLines /\ UNCHANGED shown
      <3>1. [i \in 1 .. lines' |-> i] = Append([i \in 1 .. lines |-> i], lines')
        BY <2>1, <2>3, SentLines
      <3>2. AgentPipe!Send
        BY <2>3, <3>1 DEF AgentPipe!Send
      <3>3. QED
        BY <3>2, LinesStep DEF AgentPipe!Next
    <2>4. CASE Len(shown) < lines /\ shown' = Append(shown, Len(shown) + 1) /\ UNCHANGED lines
      <3>1. /\ Len([i \in 1 .. lines |-> i]) = lines
            /\ [i \in 1 .. lines |-> i][Len(shown) + 1] = Len(shown) + 1
        BY <2>1, <2>4, SentLines
      <3>2. AgentPipe!Receive
        BY <2>4, <3>1 DEF AgentPipe!Receive
      <3>3. QED
        BY <3>2, LinesStep DEF AgentPipe!Next
    <2>5. QED
      BY <2>2, <2>3, <2>4, LinesStep
  <1>3. QED
    BY <1>1, <1>2, PathsInit, TypeInit, TypeStep, PTL DEF Spec, AgentToUI, AgentPipe!Spec

\* Pipe for the commands: what the channel took from the UI is handled, in the order
\* it was sent, once, although the controller puts it behind what is on the bus.
THEOREM CommandsArrive == Spec => CommandsToHost
  <1>1. Init => CommandPipe!Init
    BY DEF Init, CommandPipe!Init
  <1>2. /\ TypeOK /\ WaysInv /\ TakenInv /\ CommandsInv /\ [Next]_vars
        => CommandsInv' /\ [CommandPipe!Next]_<<accepted, handled>>
    BY CommandsStep DEF CommandPipe!Next, CommandPipe!Send, CommandPipe!Receive
  <1>3. QED
    BY <1>1, <1>2, PathsInit, TypeInit, TypeStep, TakenStep, PTL DEF Spec, CommandsToHost, CommandPipe!Spec
=============================================================================
