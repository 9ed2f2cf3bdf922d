-------------------------- MODULE ExecTarget_proofs --------------------------
(***************************************************************************)
(* Proofs about where commands run: the stores a switch changes one after  *)
(* the other - executor, mirror, typed passwords, cached runner and host   *)
(* memory - agree whenever the controller is between two commands, and the *)
(* audit of a call names the machine unless a switch came between.  Then,  *)
(* what the screen says of the switch: the status line, the command        *)
(* approved by it, and a dialog that waits for an answer.                  *)
(***************************************************************************)
EXTENDS ExecTarget, TLAPS

USE DEF queues, screen, execs, host, memory, turn, bounds, history, vars
USE TargetsAssumption, InputsAssumption

-----------------------------------------------------------------------------
(* Types.  What is asked of a host names a host, wherever it stands.       *)

HostInputs == {i \in Inputs : i.kind \in {"remote", "secret"} => i.host \in Hosts}
HostMessages ==
  {m \in Messages : /\ m.kind \in PromptKinds => m.target \in Hosts
                    /\ m.kind \in {"status", "report"} => m.target \in Targets}
HostDialogs == {d \in Dialogs : d.kind \in PromptKinds => d.host \in Hosts}
Stages == {"idle", "connecting", "connected", "toLocal", "toOffline"}
HostStages ==
  {c \in [at : Stages, host : Hosts \cup {None}] :
     /\ c.at \in {"connecting", "connected"} => c.host \in Hosts
     /\ c.at = "idle" => c = Idle}

TrafficInv ==
  /\ inbox \in Seq(HostInputs) /\ uiq \in Seq(HostMessages) /\ reports \in Seq(Targets)
  /\ dialog \in HostDialogs /\ footer \in Targets

StoresInv ==
  /\ ctl \in HostStages
  /\ mode \in Targets /\ runner \in {"none", "online", "offline"}
  /\ pending \in Hosts \cup {None} /\ trusted \subseteq Hosts
  /\ executor \in Machines /\ orphans \subseteq Hosts /\ creds \subseteq Hosts
  /\ probes \subseteq Machines /\ memCtx \in Machines \cup {None}

CallInv ==
  /\ pc \in {"none", "thinking", "asking", "ready", "running"}
  /\ ctx \in Targets
  /\ inputs \in 0 .. MaxInputs /\ calls \in 0 .. MaxCalls /\ troubles \in 0 .. MaxTroubles
  /\ turnMode \in Targets /\ seen \in Targets \cup {None}
  /\ odd \subseteq {"stray", "login"} /\ last \in RunRecord

FlagsInv ==
  /\ waiting \in BOOLEAN /\ card \in BOOLEAN /\ turnOffline \in BOOLEAN
  /\ calm \in BOOLEAN /\ steady \in BOOLEAN

Shape == TrafficInv /\ StoresInv /\ CallInv /\ FlagsInv

\* The kinds of messages and the places of the controller.
LEMMA Kinds ==
  /\ Idle \in HostStages /\ Idle.at = "idle"
  /\ NoDialog \in HostDialogs
  /\ \A k \in InputKinds, h \in Hosts \cup {None} :
       (k \in {"remote", "secret"} => h \in Hosts) => In(k, h) \in HostInputs
  /\ \A k \in MessageKinds, t \in Targets \cup {None} :
       /\ k \in PromptKinds => t \in Hosts
       /\ k \in {"status", "report"} => t \in Targets
       => Msg(k, t) \in HostMessages
  BY DEF Idle, HostStages, Stages, NoDialog, Dialog, HostDialogs, Dialogs, PromptKinds, In, HostInputs,
     Inputs, Msg, HostMessages, Messages, Targets

\* What the controller and the turn tell the UI.
LEMMA Told ==
  /\ \A h \in Hosts : /\ <<Msg("hostKey", h)>> \in Seq(HostMessages)
                      /\ <<Msg("auth", h)>> \in Seq(HostMessages)
                      /\ <<Msg("auto", h)>> \in Seq(HostMessages)
                      /\ <<Msg("auth", h), Msg("failed", h)>> \in Seq(HostMessages)
                      /\ <<Msg("status", h), Msg("done", h)>> \in Seq(HostMessages)
  /\ \A h \in Hosts \cup {None} : <<Msg("failed", h)>> \in Seq(HostMessages)
  /\ \A t \in Targets : /\ <<Msg("status", t)>> \in Seq(HostMessages)
                        /\ <<Msg("report", t)>> \in Seq(HostMessages)
  /\ <<Msg("card", None)>> \in Seq(HostMessages)
  /\ <<Msg("reply", None)>> \in Seq(HostMessages)
  /\ <<>> \in Seq(HostMessages)
  <1>1. \A h \in Hosts : /\ Msg("hostKey", h) \in HostMessages /\ Msg("auth", h) \in HostMessages
                         /\ Msg("auto", h) \in HostMessages /\ Msg("status", h) \in HostMessages
                         /\ Msg("done", h) \in HostMessages
    BY Kinds DEF MessageKinds, PromptKinds, Targets
  <1>2. \A h \in Hosts \cup {None} : Msg("failed", h) \in HostMessages
    BY Kinds DEF MessageKinds, PromptKinds, Targets
  <1>3. \A t \in Targets : Msg("status", t) \in HostMessages /\ Msg("report", t) \in HostMessages
    BY Kinds DEF MessageKinds, PromptKinds
  <1>4. Msg("card", None) \in HostMessages /\ Msg("reply", None) \in HostMessages
    BY Kinds DEF MessageKinds, PromptKinds
  <1>5. QED
    BY <1>1, <1>2, <1>3, <1>4

LEMMA Shown ==
  ASSUME TrafficInv, NEW msgs \in Seq(HostMessages), Show(msgs)
  PROVE  uiq' \in Seq(HostMessages)
  BY DEF TrafficInv, Show

LEMMA ShapeHasTypes == Shape => TypeOK
  <1> SUFFICES ASSUME Shape PROVE TypeOK
    OBVIOUS
  <1>1. HostInputs \subseteq Inputs /\ HostMessages \subseteq Messages /\ HostDialogs \subseteq Dialogs
    BY DEF HostInputs, HostMessages, HostDialogs
  <1>2. inbox \in Seq(Inputs) /\ uiq \in Seq(Messages)
    BY <1>1 DEF Shape, TrafficInv
  <1>3. ctl \in [at : {"idle", "connecting", "connected", "toLocal", "toOffline"},
                 host : Hosts \cup {None}]
    BY DEF Shape, StoresInv, HostStages, Stages
  <1>4. QED
    BY <1>1, <1>2, <1>3 DEF TypeOK, Shape, TrafficInv, StoresInv, CallInv, FlagsInv

LEMMA ShapeInit == Init => Shape
  <1> SUFFICES ASSUME Init PROVE Shape
    OBVIOUS
  <1>1. TrafficInv
    BY Kinds DEF Init, TrafficInv, Targets
  <1>2. StoresInv
    BY Kinds DEF Init, StoresInv, Targets, Machines
  <1>3. NoRunYet \in RunRecord
    BY DEF NoRunYet, RunRecord, Targets, Machines
  <1>4. CallInv
    BY <1>3 DEF Init, CallInv, Targets
  <1>5. FlagsInv
    BY DEF Init, FlagsInv
  <1>6. QED
    BY <1>1, <1>2, <1>4, <1>5 DEF Shape

\* What is left alone keeps its shape.
LEMMA TrafficStays ==
  ASSUME TrafficInv, inbox' \in Seq(HostInputs), uiq' \in Seq(HostMessages), UNCHANGED <<reports, screen>>
  PROVE  TrafficInv'
  BY DEF TrafficInv

LEMMA StoresStay == ASSUME StoresInv, UNCHANGED <<host, execs, memory>> PROVE StoresInv'
  BY DEF StoresInv

LEMMA CallStays == ASSUME CallInv, UNCHANGED <<turn, bounds, history>> PROVE CallInv'
  BY DEF CallInv

LEMMA FlagsStay ==
  ASSUME FlagsInv, UNCHANGED <<waiting, card, turnOffline, calm, steady>> PROVE FlagsInv'
  BY DEF FlagsInv

LEMMA Marked ==
  ASSUME CallInv, FlagsInv, Moves \/ Answers,
         UNCHANGED <<screen, turn, bounds, turnMode, seen, last>>
  PROVE  CallInv' /\ FlagsInv'
  <1>1. FlagsInv'
    BY DEF Moves, Answers, FlagsInv
  <1>2. odd' \subseteq {"stray", "login"}
    BY DEF Moves, Answers, Strays, CallInv
  <1>3. QED
    BY <1>1, <1>2 DEF CallInv

LEMMA ShapeUser == Shape /\ User => Shape'
  <1> SUFFICES ASSUME TrafficInv, StoresInv, CallInv, FlagsInv, User PROVE Shape'
    BY DEF Shape
  <1>1. ASSUME NEW input \in HostInputs, Type(input), dialog' \in HostDialogs, waiting' \in BOOLEAN
        PROVE  Shape'
    <2>1. inputs' \in 0 .. MaxInputs
      BY <1>1 DEF Type, CallInv
    <2>2. TrafficInv'
      BY <1>1 DEF Type, TrafficInv
    <2>3. StoresInv' /\ CallInv'
      BY <1>1, <2>1, StoresStay DEF Type, CallInv
    <2>4. FlagsInv'
      BY <1>1 DEF Type, FlagsInv
    <2>5. QED
      BY <2>2, <2>3, <2>4 DEF Shape
  <1>2. ASSUME inbox' \in Seq(HostInputs), dialog' \in HostDialogs,
               UNCHANGED <<uiq, reports, waiting, card, footer, host, execs, memory, turn,
                           bounds, history>>
        PROVE  Shape'
    <2>1. TrafficInv'
      BY <1>2 DEF TrafficInv
    <2>2. QED
      BY <1>2, <2>1, StoresStay, CallStays, FlagsStay DEF Shape
  <1>3. CASE AccessRemote
    <2>1. PICK h \in Hosts : /\ Type(In("remote", h))
                             /\ dialog' = Dialog("connect", h, TRUE) /\ UNCHANGED waiting
      BY <1>3 DEF AccessRemote
    <2>2. In("remote", h) \in HostInputs /\ dialog' \in HostDialogs
      BY <2>1, Kinds DEF InputKinds, SwitchKinds, Dialog, HostDialogs, Dialogs, PromptKinds
    <2>3. waiting' \in BOOLEAN
      BY <2>1 DEF FlagsInv
    <2>4. QED
      BY <1>1, <2>1, <2>2, <2>3
  <1>4. CASE AccessLocal \/ AccessOffline \/ Chat
    <2>1. In("local", None) \in HostInputs /\ In("offline", None) \in HostInputs
          /\ In("chat", None) \in HostInputs
      BY Kinds DEF InputKinds, SwitchKinds
    <2>2. dialog' \in HostDialogs
      BY <1>4 DEF AccessLocal, AccessOffline, Chat, TrafficInv
    <2>3. waiting' \in BOOLEAN
      BY <1>4 DEF AccessLocal, AccessOffline, Chat, FlagsInv
    <2>4. QED
      BY <1>1, <1>4, <2>1, <2>2, <2>3 DEF AccessLocal, AccessOffline, Chat
  <1>5. CASE CloseDialog
    BY <1>2, <1>5, Kinds DEF CloseDialog, TrafficInv
  <1>6. CASE AcceptKey \/ RejectKey \/ GiveSecret
    <2>1. dialog.host \in Hosts
      BY <1>6 DEF AcceptKey, RejectKey, GiveSecret, DialogKey, HostDialogs, PromptKinds, TrafficInv
    <2>2. /\ In("accept", dialog.host) \in HostInputs /\ In("reject", dialog.host) \in HostInputs
          /\ In("secret", dialog.host) \in HostInputs
      BY <2>1, Kinds DEF InputKinds, SwitchKinds
    <2>3. [dialog EXCEPT !.busy = TRUE] \in HostDialogs
      BY DEF HostDialogs, Dialogs, TrafficInv
    <2>4. inbox' \in Seq(HostInputs)
      <3>1. inbox \in Seq(HostInputs)
        BY DEF TrafficInv
      <3>2. CASE AcceptKey
        BY <2>2, <3>1, <3>2 DEF AcceptKey
      <3>3. CASE RejectKey
        BY <2>2, <3>1, <3>3 DEF RejectKey
      <3>4. CASE GiveSecret
        BY <2>2, <3>1, <3>4 DEF GiveSecret
      <3>5. QED
        BY <1>6, <3>2, <3>3, <3>4
    <2>5. dialog' \in HostDialogs
      BY <1>6, <2>3, Kinds DEF AcceptKey, RejectKey, GiveSecret
    <2>6. QED
      BY <1>2, <1>6, <2>4, <2>5 DEF AcceptKey, RejectKey, GiveSecret
  <1>7. CASE Approve \/ Dismiss
    <2>1. TrafficInv'
      BY <1>7 DEF Approve, Dismiss, TrafficInv
    <2>2. StoresInv'
      BY <1>7, StoresStay DEF Approve, Dismiss
    <2>3. CallInv'
      BY <1>7 DEF Approve, Dismiss, CallInv, TrafficInv, Targets
    <2>4. FlagsInv'
      BY <1>7 DEF Approve, Dismiss, FlagsInv, Settled
    <2>5. QED
      BY <2>1, <2>2, <2>3, <2>4 DEF Shape
  <1>8. QED
    BY <1>3, <1>4, <1>5, <1>6, <1>7 DEF User

\* A command that is taken leaves the others.
LEMMA Taken ==
  ASSUME TrafficInv, NEW k, Take(k)
  PROVE  /\ ctl = Idle /\ Head(inbox).host \in Hosts \cup {None}
         /\ k \in {"remote", "secret"} => Head(inbox).host \in Hosts
         /\ inbox' \in Seq(HostInputs)
  <1>1. Head(inbox) \in HostInputs /\ Tail(inbox) \in Seq(HostInputs)
    BY DEF TrafficInv, Take
  <1>2. QED
    BY <1>1 DEF Take, HostInputs, Inputs

LEMMA ControllerShape ==
  ASSUME TrafficInv, CallInv, FlagsInv,
         inbox' \in Seq(HostInputs), uiq' \in Seq(HostMessages), StoresInv',
         UNCHANGED <<reports, screen>>,
         \/ UNCHANGED <<turn, bounds, history>>
         \/ (Moves \/ Answers) /\ UNCHANGED <<turn, bounds, turnMode, seen, last>>
  PROVE  Shape'
  <1>1. TrafficInv'
    BY TrafficStays
  <1>2. CallInv' /\ FlagsInv'
    <2>1. CASE UNCHANGED <<turn, bounds, history>>
      BY <2>1, CallStays, FlagsStay
    <2>2. CASE (Moves \/ Answers) /\ UNCHANGED <<turn, bounds, turnMode, seen, last>>
      BY <2>2, Marked
    <2>3. QED
      BY <2>1, <2>2
  <1>3. QED
    BY <1>1, <1>2 DEF Shape

LEMMA ShapeBegins ==
  ASSUME TrafficInv, StoresInv, CallInv, FlagsInv, BeginRemote \/ BeginLocal \/ BeginOffline
  PROVE  Shape'
  <1>1. inbox' \in Seq(HostInputs) /\ uiq' \in Seq(HostMessages)
    BY Taken DEF BeginRemote, BeginLocal, BeginOffline, TrafficInv
  <1>2. CASE BeginRemote
    <2>1. Head(inbox).host \in Hosts
      BY <1>2, Taken DEF BeginRemote
    <2>2. StoresInv'
      BY <1>2, <2>1 DEF BeginRemote, StoresInv, HostStages, Stages, Invalidate, MachineOf, Targets
    <2>3. QED
      BY <1>1, <1>2, <2>2, ControllerShape DEF BeginRemote
  <1>3. CASE BeginLocal
    <2>1. StoresInv'
      BY <1>3 DEF BeginLocal, StoresInv, HostStages, Stages, Targets
    <2>2. QED
      BY <1>1, <1>3, <2>1, ControllerShape DEF BeginLocal
  <1>4. CASE BeginOffline
    <2>1. StoresInv'
      BY <1>4 DEF BeginOffline, StoresInv, HostStages, Stages, SwitchToLocal, Machines
    <2>2. QED
      BY <1>1, <1>4, <2>1, ControllerShape DEF BeginOffline
  <1>5. QED
    BY <1>2, <1>3, <1>4

LEMMA ShapeConnects ==
  ASSUME TrafficInv, StoresInv, CallInv, FlagsInv,
         ConnectCached \/ ConnectFresh \/ HostKeyUnknown \/ AuthRefused \/ Unreachable
  PROVE  Shape'
  <1>1. ctl.host \in Hosts /\ Connecting
    BY DEF ConnectCached, ConnectFresh, HostKeyUnknown, AuthRefused, Unreachable, FailConnect,
       Connecting, StoresInv, HostStages
  <1>2. [ctl EXCEPT !.at = "connected"] \in HostStages
    BY <1>1 DEF StoresInv, HostStages, Stages
  <1>3. uiq' \in Seq(HostMessages)
    <2>1. CASE ConnectCached
      BY <2>1 DEF ConnectCached, TrafficInv
    <2>2. CASE ConnectFresh
      BY <1>1, <2>2, Told, Shown DEF ConnectFresh
    <2>3. CASE HostKeyUnknown \/ AuthRefused \/ Unreachable
      BY <1>1, <2>3, Told, Shown DEF HostKeyUnknown, AuthRefused, Unreachable, FailConnect
    <2>4. QED
      BY <2>1, <2>2, <2>3
  <1>4. StoresInv'
    <2>1. CASE ConnectCached \/ ConnectFresh
      BY <1>1, <1>2, <2>1 DEF ConnectCached, ConnectFresh, ConnectUntouched, SwitchTo, StoresInv, Machines
    <2>2. CASE HostKeyUnknown \/ AuthRefused \/ Unreachable
      BY <1>1, <2>2, Kinds DEF HostKeyUnknown, AuthRefused, Unreachable, FailConnect,
         ConnectUntouched, StoresInv
    <2>3. QED
      BY <2>1, <2>2
  <1>5. ConnectUntouched
    BY DEF ConnectCached, ConnectFresh, HostKeyUnknown, AuthRefused, Unreachable, FailConnect
  <1>6. QED
    BY <1>3, <1>4, <1>5, ControllerShape DEF ConnectUntouched, TrafficInv

LEMMA ShapeFinishes ==
  ASSUME TrafficInv, StoresInv, CallInv, FlagsInv, FinishConnect \/ FinishLocal \/ FinishOffline
  PROVE  Shape'
  <1>1. CASE FinishConnect
    <2>1. ctl.host \in Hosts
      BY <1>1 DEF FinishConnect, StoresInv, HostStages
    <2>2. uiq' \in Seq(HostMessages)
      BY <1>1, <2>1, Told, Shown DEF FinishConnect
    <2>3. StoresInv'
      BY <1>1, <2>1, Kinds DEF FinishConnect, StoresInv, Targets
    <2>4. QED
      BY <1>1, <2>2, <2>3, ControllerShape DEF FinishConnect, TrafficInv
  <1>2. CASE FinishLocal
    <2>1. uiq' \in Seq(HostMessages)
      BY <1>2, Told, Shown DEF FinishLocal, Targets
    <2>2. StoresInv'
      BY <1>2, Kinds DEF FinishLocal, StoresInv, SwitchToLocal, Invalidate, Machines
    <2>3. QED
      BY <1>2, <2>1, <2>2, ControllerShape DEF FinishLocal, TrafficInv
  <1>3. CASE FinishOffline
    <2>1. uiq' \in Seq(HostMessages)
      BY <1>3, Told, Shown DEF FinishOffline, Targets
    <2>2. StoresInv'
      BY <1>3, Kinds DEF FinishOffline, StoresInv, Invalidate, Targets
    <2>3. QED
      BY <1>3, <2>1, <2>2, ControllerShape DEF FinishOffline, TrafficInv
  <1>4. QED
    BY <1>1, <1>2, <1>3

LEMMA ShapeAnswers ==
  ASSUME TrafficInv, StoresInv, CallInv, FlagsInv,
         \/ NothingPending("accept") \/ NothingPending("reject")
         \/ RefuseKey \/ TrustKey \/ LogIn
  PROVE  Shape'
  <1>1. inbox' \in Seq(HostInputs)
    BY Taken DEF NothingPending, RefuseKey, TrustKey, LogIn
  <1>2. CASE NothingPending("accept") \/ NothingPending("reject")
    <2>1. Head(inbox).host \in Hosts \cup {None}
      BY <1>2, Taken DEF NothingPending
    <2>2. uiq' \in Seq(HostMessages)
      BY <1>2, <2>1, Told, Shown DEF NothingPending
    <2>3. QED
      BY <1>1, <1>2, <2>2, StoresStay, ControllerShape DEF NothingPending, AnswersNothing, AnswerUntouched
  <1>3. CASE RefuseKey
    <2>1. uiq' \in Seq(HostMessages)
      BY <1>3, Told, Shown DEF RefuseKey, StoresInv
    <2>2. StoresInv'
      BY <1>3 DEF RefuseKey, AnswersNothing, AnswerUntouched, StoresInv
    <2>3. QED
      BY <1>1, <1>3, <2>1, <2>2, ControllerShape DEF RefuseKey, AnswersNothing, AnswerUntouched
  <1>4. CASE TrustKey
    <2>1. pending \in Hosts
      BY <1>4 DEF TrustKey, StoresInv
    <2>2. uiq' \in Seq(HostMessages)
      BY <1>4, <2>1, Told, Shown DEF TrustKey, TrafficInv
    <2>3. StoresInv'
      BY <1>4, <2>1 DEF TrustKey, AnswerUntouched, StoresInv, SwitchTo, HostStages, Stages, Machines
    <2>4. QED
      BY <1>1, <1>4, <2>2, <2>3, ControllerShape DEF TrustKey, AnswerUntouched
  <1>5. CASE LogIn
    <2>1. Head(inbox).host \in Hosts
      BY <1>5, Taken DEF LogIn
    <2>2. uiq' \in Seq(HostMessages)
      BY <1>5, <2>1, Told, Shown DEF LogIn, TrafficInv
    <2>3. StoresInv'
      BY <1>5, <2>1 DEF LogIn, AnswerUntouched, StoresInv, SwitchTo, HostStages, Stages, Machines
    <2>4. QED
      BY <1>1, <1>5, <2>2, <2>3, ControllerShape DEF LogIn, AnswerUntouched
  <1>6. QED
    BY <1>2, <1>3, <1>4, <1>5

LEMMA ShapeChats ==
  ASSUME TrafficInv, StoresInv, CallInv, FlagsInv, StartTurn \/ RefuseChat
  PROVE  Shape'
  <1>1. inbox' \in Seq(HostInputs)
    BY Taken DEF StartTurn, RefuseChat
  <1>2. uiq' \in Seq(HostMessages)
    BY Told, Shown DEF StartTurn, RefuseChat, TrafficInv
  <1>3. CASE StartTurn
    <2>1. TrafficInv'
      BY <1>1, <1>2, <1>3, TrafficStays DEF StartTurn
    <2>2. StoresInv'
      BY <1>3 DEF StartTurn, StoresInv
    <2>3. CallInv'
      BY <1>3 DEF StartTurn, CallInv, StoresInv
    <2>4. RunnerOffline \in BOOLEAN
      BY DEF RunnerOffline
    <2>5. FlagsInv'
      BY <1>3, <2>4 DEF StartTurn, FlagsInv
    <2>6. QED
      BY <2>1, <2>2, <2>3, <2>5 DEF Shape
  <1>4. CASE RefuseChat
    BY <1>1, <1>2, <1>4, StoresStay, ControllerShape DEF RefuseChat
  <1>5. QED
    BY <1>3, <1>4

LEMMA ShapeTurn ==
  ASSUME TrafficInv, StoresInv, CallInv, FlagsInv, Turn
  PROVE  Shape'
  <1>1. TrafficInv'
    <2>1. uiq' \in Seq(HostMessages)
      BY Told, Shown DEF Turn, Propose, ProposeAllowed, Asks, ShowQuestion, StartCommand,
         CommandReturns, EndTurn, TrafficInv
    <2>2. QED
      BY <2>1, TrafficStays DEF Turn, Propose, ProposeAllowed, Asks, ShowQuestion, StartCommand,
         CommandReturns, EndTurn, TrafficInv
  <1>2. StoresInv'
    BY StoresStay DEF Turn, Propose, ProposeAllowed, Asks, ShowQuestion, StartCommand,
       CommandReturns, EndTurn
  <1>3. CallInv' /\ FlagsInv'
    <2>1. CASE Propose \/ ProposeAllowed
      <3>1. calls' \in 0 .. MaxCalls
        BY <2>1 DEF Propose, ProposeAllowed, Asks, CallInv
      <3>2. CallInv'
        BY <2>1, <3>1 DEF Propose, ProposeAllowed, Asks, CallInv, StoresInv
      <3>3. FlagsInv'
        BY <2>1 DEF Propose, ProposeAllowed, Asks, FlagsInv
      <3>4. QED
        BY <3>2, <3>3
    <2>2. CASE ShowQuestion
      BY <2>2, CallStays, FlagsStay DEF ShowQuestion
    <2>3. CASE StartCommand
      <3>1. last' \in RunRecord
        BY <2>3 DEF StartCommand, RunRecord, TrafficInv, StoresInv, CallInv, FlagsInv
      <3>2. CallInv'
        BY <2>3, <3>1 DEF StartCommand, CallInv
      <3>3. QED
        BY <2>3, <3>2, FlagsStay DEF StartCommand
    <2>4. CASE CommandReturns
      <3>1. NoRunYet \in RunRecord
        BY DEF NoRunYet, RunRecord, Targets, Machines
      <3>2. CallInv'
        BY <2>4, <3>1 DEF CommandReturns, ForgetCall, CallInv, Targets
      <3>3. FlagsInv'
        BY <2>4 DEF CommandReturns, ForgetCall, FlagsInv
      <3>4. QED
        BY <3>2, <3>3
    <2>5. CASE EndTurn
      <3>1. CallInv'
        BY <2>5 DEF EndTurn, CallInv, Targets
      <3>2. FlagsInv'
        BY <2>5 DEF EndTurn, FlagsInv
      <3>3. QED
        BY <3>1, <3>2
    <2>6. QED
      BY <2>1, <2>2, <2>3, <2>4, <2>5 DEF Turn
  <1>4. QED
    BY <1>1, <1>2, <1>3 DEF Shape

LEMMA ShapePump ==
  ASSUME TrafficInv, StoresInv, CallInv, FlagsInv, Pump
  PROVE  Shape'
  <1>1. PICK kinds : Arrives(kinds)
    BY DEF Pump, ShowStatus, ShowPrompt, ShowConnected, ShowFailed, ShowCard, ShowReply
  <1>2. Head(uiq) \in HostMessages /\ uiq' \in Seq(HostMessages)
    BY <1>1 DEF Arrives, TrafficInv
  <1>3. dialog' \in HostDialogs
    <2>1. CASE ShowPrompt
      <3>1. Head(uiq).kind \in PromptKinds /\ Head(uiq).target \in Hosts
        BY <1>2, <2>1 DEF ShowPrompt, Arrives, HostMessages
      <3>2. \A b \in BOOLEAN : Dialog(Head(uiq).kind, Head(uiq).target, b) \in HostDialogs
        BY <3>1 DEF Dialog, HostDialogs, Dialogs
      <3>3. QED
        BY <2>1, <3>2 DEF ShowPrompt
    <2>2. CASE ShowConnected
      BY <2>2, Kinds DEF ShowConnected
    <2>3. CASE ShowFailed
      BY <2>3 DEF ShowFailed, TrafficInv, HostDialogs, Dialogs
    <2>4. CASE ShowStatus \/ ShowCard \/ ShowReply
      BY <2>4 DEF ShowStatus, ShowCard, ShowReply, TrafficInv
    <2>5. QED
      BY <2>1, <2>2, <2>3, <2>4 DEF Pump
  <1>4. footer' \in Targets
    <2>1. CASE ShowStatus
      <3>1. Head(uiq).kind \in {"status", "report"}
        BY <2>1 DEF ShowStatus, Arrives
      <3>2. Head(uiq).target \in Targets
        BY <1>2, <3>1 DEF HostMessages, Messages
      <3>3. QED
        BY <2>1, <3>2 DEF ShowStatus
    <2>2. CASE ~ShowStatus
      BY <2>2 DEF Pump, ShowPrompt, ShowConnected, ShowFailed, ShowCard, ShowReply, TrafficInv
    <2>3. QED
      BY <2>1, <2>2
  <1>5. TrafficInv'
    BY <1>1, <1>2, <1>3, <1>4 DEF Arrives, TrafficInv
  <1>6. StoresInv' /\ CallInv'
    BY <1>1, StoresStay, CallStays DEF Arrives
  <1>7. FlagsInv'
    BY <1>1 DEF Arrives, Pump, ShowStatus, ShowPrompt, ShowConnected, ShowFailed, ShowCard, ShowReply,
       FlagsInv
  <1>8. QED
    BY <1>5, <1>6, <1>7 DEF Shape

LEMMA ShapeRest ==
  ASSUME TrafficInv, StoresInv, CallInv, FlagsInv, ProbeEnds \/ ReportTrouble \/ RelayReport
  PROVE  Shape'
  <1>1. CASE ProbeEnds
    <2>1. TrafficInv' /\ StoresInv'
      BY <1>1 DEF ProbeEnds, TrafficInv, StoresInv
    <2>2. QED
      BY <1>1, <2>1, CallStays, FlagsStay DEF ProbeEnds, Shape
  <1>2. CASE ReportTrouble
    <2>1. reports' \in Seq(Targets)
      BY <1>2 DEF ReportTrouble, TrafficInv, StoresInv
    <2>2. TrafficInv'
      BY <1>2, <2>1 DEF ReportTrouble, TrafficInv
    <2>3. troubles' \in 0 .. MaxTroubles
      BY <1>2 DEF ReportTrouble, CallInv
    <2>4. CallInv'
      BY <1>2, <2>3 DEF ReportTrouble, CallInv
    <2>5. QED
      BY <1>2, <2>2, <2>4, StoresStay, FlagsStay DEF ReportTrouble, Shape
  <1>3. CASE RelayReport
    <2>1. Head(reports) \in Targets /\ reports' \in Seq(Targets)
      BY <1>3 DEF RelayReport, TrafficInv
    <2>2. uiq' \in Seq(HostMessages)
      BY <1>3, <2>1, Told, Shown DEF RelayReport
    <2>3. TrafficInv'
      BY <1>3, <2>1, <2>2 DEF RelayReport, TrafficInv
    <2>4. QED
      BY <1>3, <2>3, StoresStay, CallStays, FlagsStay DEF RelayReport, Shape
  <1>4. QED
    BY <1>1, <1>2, <1>3

LEMMA ShapeStep == Shape /\ [Next]_vars => Shape'
  <1> SUFFICES ASSUME TrafficInv, StoresInv, CallInv, FlagsInv, [Next]_vars PROVE Shape'
    BY DEF Shape
  <1>1. CASE User
    BY <1>1, ShapeUser DEF Shape
  <1>2. CASE Controller
    BY <1>2, ShapeBegins, ShapeConnects, ShapeFinishes, ShapeAnswers, ShapeChats DEF Controller
  <1>3. CASE Turn
    BY <1>3, ShapeTurn
  <1>4. CASE Pump
    BY <1>4, ShapePump
  <1>5. CASE ProbeEnds \/ ReportTrouble \/ RelayReport
    BY <1>5, ShapeRest
  <1>6. CASE UNCHANGED vars
    <2>1. TrafficInv'
      BY <1>6 DEF TrafficInv
    <2>2. QED
      BY <1>6, <2>1, StoresStay, CallStays, FlagsStay DEF Shape
  <1>7. QED
    BY <1>1, <1>2, <1>3, <1>4, <1>5, <1>6 DEF Next

LEMMA ShapeAlways == Spec => []Shape
  BY ShapeInit, ShapeStep, PTL DEF Spec

\* Every variable of the switch between machines has its type, for any hosts
\* and bounds.
THEOREM TypeCorrect == Spec => []TypeOK
  BY ShapeAlways, ShapeHasTypes, PTL

-----------------------------------------------------------------------------
\* What executor and mirror are at each place where the controller stops.
AgreeInv ==
  /\ ctl.at = "idle" => executor = MachineOf(mode)
  /\ ctl.at = "connecting" => executor = mode
  /\ ctl.at = "connected" => executor = ctl.host
  /\ ctl.at = "toLocal" => mode = Local
  /\ ctl.at = "toOffline" => executor = Local

\* Typed passwords belong to a session with a remote host.
CredsInv ==
  executor = Local /\ ctl.at \in {"idle", "connecting", "toOffline"} => creds = {}

\* A proposal stays with its machine until a switch begins.
AuditInv ==
  /\ steady => ctl = Idle /\ executor = MachineOf(ctx)
  /\ last.steady => MachineOf(last.ctx) = last.target

\* The cached runner and the flag of the turn.
RunnerInv ==
  /\ mode = Offline => runner # "online"
  /\ "login" \notin odd /\ runner = "offline" =>
       /\ ctl.at \notin {"connecting", "connected"}
       /\ ctl.at # "toLocal" => mode = Offline
  /\ pc # "none" /\ turnMode = Offline => turnOffline
  /\ pc # "none" /\ "login" \notin odd /\ turnOffline => turnMode = Offline

\* Probes and the memory they leave, when none was under way at a switch.
MemoryInv ==
  "stray" \notin odd =>
    /\ IF ctl.at = "idle" THEN probes \subseteq {executor} ELSE probes = {}
    /\ ctl.at \in {"idle", "connecting"} => memCtx \in {None, executor}
    /\ ctl.at = "toLocal" => memCtx = None

\* Only the controller switches.
Others == User \/ Turn \/ Pump \/ ProbeEnds \/ ReportTrouble \/ RelayReport \/ UNCHANGED vars

LEMMA OthersSwitchNothing == Others => UNCHANGED <<host, execs>>
  <1>1. User => UNCHANGED <<host, execs>>
    BY DEF User, AccessRemote, AccessLocal, AccessOffline, Chat, Type, CloseDialog, AcceptKey, RejectKey,
       GiveSecret, Approve, Dismiss
  <1>2. Turn => UNCHANGED <<host, execs>>
    BY DEF Turn, Propose, ProposeAllowed, Asks, ShowQuestion, StartCommand, CommandReturns, EndTurn
  <1>3. Pump => UNCHANGED <<host, execs>>
    BY DEF Pump, Arrives, ShowStatus, ShowPrompt, ShowConnected, ShowFailed, ShowCard, ShowReply
  <1>4. ProbeEnds \/ ReportTrouble \/ RelayReport => UNCHANGED <<host, execs>>
    BY DEF ProbeEnds, ReportTrouble, RelayReport
  <1>5. QED
    BY <1>1, <1>2, <1>3, <1>4 DEF Others

LEMMA Splits == [Next]_vars => Others \/ Controller
  BY DEF Next, Others

LEMMA AgreeStep == StoresInv /\ AgreeInv /\ [Next]_vars => AgreeInv'
  <1> SUFFICES ASSUME StoresInv, AgreeInv, Others \/ Controller PROVE AgreeInv'
    BY Splits
  <1>1. CASE Others
    BY <1>1, OthersSwitchNothing DEF AgreeInv, MachineOf
  <1>2. CASE BeginRemote \/ BeginLocal \/ BeginOffline
    BY <1>2 DEF BeginRemote, BeginLocal, BeginOffline, Take, Idle, SwitchToLocal, AgreeInv, MachineOf
  <1>3. CASE ConnectCached \/ ConnectFresh
    <2>1. ctl' = [ctl EXCEPT !.at = "connected"] /\ executor' = ctl.host
      BY <1>3 DEF ConnectCached, ConnectFresh, SwitchTo
    <2>2. ctl'.at = "connected" /\ ctl'.host = ctl.host
      BY <2>1 DEF StoresInv, HostStages
    <2>3. QED
      BY <2>1, <2>2 DEF AgreeInv
  <1>4. CASE HostKeyUnknown \/ AuthRefused \/ Unreachable
    BY <1>4 DEF HostKeyUnknown, AuthRefused, Unreachable, FailConnect, Connecting, Idle, AgreeInv,
       MachineOf, StoresInv, Machines
  <1>5. CASE FinishConnect
    <2>1. ctl.host \in Hosts
      BY <1>5 DEF FinishConnect, StoresInv, HostStages
    <2>2. QED
      BY <1>5, <2>1 DEF FinishConnect, Idle, AgreeInv, MachineOf
  <1>6. CASE FinishLocal \/ FinishOffline
    BY <1>6 DEF FinishLocal, FinishOffline, SwitchToLocal, Idle, AgreeInv, MachineOf
  <1>7. CASE TrustKey \/ LogIn
    <2>1. ctl = Idle /\ UNCHANGED mode
      BY <1>7 DEF TrustKey, LogIn, Take, AnswerUntouched
    <2>2. CASE UNCHANGED <<ctl, executor>>
      BY <2>1, <2>2 DEF AgreeInv, MachineOf
    <2>3. CASE \E h : ctl' = [at |-> "connected", host |-> h] /\ executor' = h
      BY <2>3 DEF AgreeInv
    <2>4. QED
      BY <1>7, <2>2, <2>3 DEF TrustKey, LogIn, SwitchTo
  <1>8. CASE NothingPending("accept") \/ NothingPending("reject") \/ RefuseKey \/ StartTurn \/ RefuseChat
    <2>1. UNCHANGED <<ctl, mode, executor>>
      BY <1>8 DEF NothingPending, RefuseKey, StartTurn, RefuseChat, AnswersNothing, AnswerUntouched
    <2>2. QED
      BY <2>1 DEF AgreeInv, MachineOf
  <1>9. QED
    BY <1>1, <1>2, <1>3, <1>4, <1>5, <1>6, <1>7, <1>8 DEF Controller

LEMMA AgreeInit == Init => AgreeInv
  BY DEF Init, AgreeInv, Idle, MachineOf

\* Between two commands of the user the runtime's mirror and the executor
\* manager name the same machine (exec_remote.go), whatever the hosts.
THEOREM TargetsCorrect == Spec => []TargetsAgree
  <1>1. Shape /\ AgreeInv => TargetsAgree
    BY DEF TargetsAgree, AgreeInv, Idle
  <1>2. Shape /\ AgreeInv /\ [Next]_vars => AgreeInv'
    BY AgreeStep DEF Shape
  <1>3. QED
    BY <1>1, <1>2, AgreeInit, ShapeAlways, PTL DEF Spec

LEMMA CredsStep == StoresInv /\ AgreeInv /\ CredsInv /\ [Next]_vars => CredsInv'
  <1> SUFFICES ASSUME StoresInv, AgreeInv, CredsInv, Others \/ Controller PROVE CredsInv'
    BY Splits
  <1>1. CASE Others
    BY <1>1, OthersSwitchNothing DEF CredsInv
  <1>2. CASE BeginRemote \/ BeginLocal \/ BeginOffline
    BY <1>2 DEF BeginRemote, BeginLocal, BeginOffline, Take, Idle, SwitchToLocal, CredsInv
  <1>3. CASE ConnectCached \/ ConnectFresh
    <2>1. ctl' = [ctl EXCEPT !.at = "connected"]
      BY <1>3 DEF ConnectCached, ConnectFresh
    <2>2. ctl'.at = "connected"
      BY <2>1 DEF StoresInv, HostStages
    <2>3. QED
      BY <2>2 DEF CredsInv
  <1>4. CASE HostKeyUnknown \/ AuthRefused \/ Unreachable
    BY <1>4 DEF HostKeyUnknown, AuthRefused, Unreachable, FailConnect, Connecting, Idle, CredsInv
  <1>5. CASE FinishConnect \/ FinishOffline
    <2>1. UNCHANGED <<executor, creds>> /\ ctl.at \in {"connected", "toOffline"}
      BY <1>5 DEF FinishConnect, FinishOffline
    <2>2. CASE FinishConnect
      BY <2>1, <2>2 DEF FinishConnect, AgreeInv, CredsInv, StoresInv, HostStages
    <2>3. CASE FinishOffline
      BY <2>1, <2>3 DEF FinishOffline, CredsInv
    <2>4. QED
      BY <1>5, <2>2, <2>3
  <1>6. CASE FinishLocal
    BY <1>6 DEF FinishLocal, SwitchToLocal, CredsInv
  <1>7. CASE TrustKey \/ LogIn
    <2>1. CASE UNCHANGED <<ctl, execs>>
      BY <2>1 DEF CredsInv
    <2>2. CASE \E h : ctl' = [at |-> "connected", host |-> h]
      BY <2>2 DEF CredsInv
    <2>3. QED
      BY <1>7, <2>1, <2>2 DEF TrustKey, LogIn
  <1>8. CASE NothingPending("accept") \/ NothingPending("reject") \/ RefuseKey \/ StartTurn \/ RefuseChat
    <2>1. UNCHANGED <<ctl, execs>>
      BY <1>8 DEF NothingPending, RefuseKey, StartTurn, RefuseChat
    <2>2. QED
      BY <2>1 DEF CredsInv
  <1>9. QED
    BY <1>1, <1>2, <1>3, <1>4, <1>5, <1>6, <1>7, <1>8 DEF Controller

LEMMA CredsInit == Init => CredsInv
  BY DEF Init, CredsInv

\* The passwords the user typed are forgotten when a remote host is left, and
\* no failing attempt to connect brings them back (executormgr.go).
THEOREM CredsCorrect == Spec => []CredsAreForgotten
  <1>1. AgreeInv /\ CredsInv => CredsAreForgotten
    BY DEF CredsAreForgotten, CredsInv, Idle
  <1>2. Shape /\ AgreeInv /\ CredsInv /\ [Next]_vars => AgreeInv' /\ CredsInv'
    BY AgreeStep, CredsStep DEF Shape
  <1>3. QED
    BY <1>1, <1>2, AgreeInit, CredsInit, ShapeAlways, PTL DEF Spec

-----------------------------------------------------------------------------
(* The audit of a call.                                                    *)

LEMMA AuditStep == AgreeInv /\ AgreeInv' /\ AuditInv /\ [Next]_vars => AuditInv'
  <1> SUFFICES ASSUME AgreeInv, AgreeInv', AuditInv, Others \/ Controller PROVE AuditInv'
    BY Splits
  <1>1. ASSUME UNCHANGED <<ctl, executor, ctx, steady, last>> PROVE AuditInv'
    BY <1>1 DEF AuditInv, MachineOf
  <1>2. ASSUME steady' = FALSE, UNCHANGED last PROVE AuditInv'
    BY <1>2 DEF AuditInv, MachineOf
  <1>3. CASE User
    <2>1. CASE Dismiss
      BY <1>2, <2>1 DEF Dismiss
    <2>2. CASE ~Dismiss
      BY <1>1, <1>3, <2>2 DEF User, AccessRemote, AccessLocal, AccessOffline, Chat, Type, CloseDialog,
         AcceptKey, RejectKey, GiveSecret, Approve
    <2>3. QED
      BY <2>1, <2>2
  <1>4. CASE Turn
    <2>1. CASE Propose \/ ProposeAllowed
      <3>1. ctx' = mode /\ steady' = (ctl = Idle) /\ UNCHANGED <<ctl, executor, mode, last>>
        BY <2>1 DEF Propose, ProposeAllowed, Asks
      <3>2. steady' => ctl = Idle
        BY <3>1, Zenon
      <3>3. steady' => ctl' = Idle /\ executor' = MachineOf(ctx')
        BY <3>1, <3>2 DEF AgreeInv, Idle, MachineOf
      <3>4. QED
        BY <3>1, <3>3 DEF AuditInv, MachineOf
    <2>2. CASE StartCommand
      <3>1. last'.steady = steady /\ last'.ctx = ctx /\ last'.target = executor
        BY <2>2 DEF StartCommand
      <3>2. QED
        BY <2>2, <3>1 DEF StartCommand, AuditInv, MachineOf
    <2>3. CASE CommandReturns
      BY <2>3 DEF CommandReturns, ForgetCall, NoRunYet, AuditInv
    <2>4. CASE ShowQuestion \/ EndTurn
      BY <1>1, <2>4 DEF ShowQuestion, EndTurn
    <2>5. QED
      BY <1>4, <2>1, <2>2, <2>3, <2>4 DEF Turn
  <1>5. CASE Pump \/ ProbeEnds \/ ReportTrouble \/ RelayReport \/ UNCHANGED vars
    BY <1>1, <1>5 DEF Pump, Arrives, ShowStatus, ShowPrompt, ShowConnected, ShowFailed, ShowCard,
       ShowReply, ProbeEnds, ReportTrouble, RelayReport
  <1>6. CASE Controller
    <2>1. CASE BeginRemote \/ BeginLocal \/ BeginOffline \/ TrustKey \/ LogIn
      BY <1>2, <2>1 DEF BeginRemote, BeginLocal, BeginOffline, TrustKey, LogIn, AnswerUntouched,
         Moves, Answers
    <2>2. CASE ConnectCached \/ ConnectFresh \/ HostKeyUnknown \/ AuthRefused \/ Unreachable
      <3>1. ctl # Idle /\ UNCHANGED <<steady, last>>
        BY <2>2 DEF ConnectCached, ConnectFresh, HostKeyUnknown, AuthRefused, Unreachable, FailConnect,
           Connecting, ConnectUntouched, Idle
      <3>2. QED
        BY <3>1 DEF AuditInv, MachineOf
    <2>3. CASE FinishConnect \/ FinishLocal \/ FinishOffline
      <3>1. ctl # Idle /\ UNCHANGED <<steady, last>>
        BY <2>3 DEF FinishConnect, FinishLocal, FinishOffline, Idle
      <3>2. QED
        BY <3>1 DEF AuditInv, MachineOf
    <2>4. CASE NothingPending("accept") \/ NothingPending("reject") \/ RefuseKey
      BY <1>1, <2>4 DEF NothingPending, RefuseKey, AnswersNothing, AnswerUntouched
    <2>5. CASE StartTurn \/ RefuseChat
      BY <1>1, <2>5 DEF StartTurn, RefuseChat
    <2>6. QED
      BY <1>6, <2>1, <2>2, <2>3, <2>4, <2>5 DEF Controller
  <1>7. QED
    BY <1>3, <1>4, <1>5, <1>6 DEF Others

LEMMA AuditInit == Init => AuditInv
  BY DEF Init, AuditInv, NoRunYet

\* The audit names the machine the command ran on, unless a switch began
\* between its proposal and its start (execute_command.go).
THEOREM AuditCorrect == Spec => []AuditNamesTarget
  <1>1. AuditInv => AuditNamesTarget
    BY DEF AuditInv, AuditNamesTarget
  <1>2. Shape /\ AgreeInv /\ AuditInv /\ [Next]_vars => AgreeInv' /\ AuditInv'
    BY AgreeStep, AuditStep DEF Shape
  <1>3. QED
    BY <1>1, <1>2, AgreeInit, AuditInit, ShapeAlways, PTL DEF Spec

-----------------------------------------------------------------------------
(* The card of a call, as a message or on the screen.                      *)

Cards(q) == {i \in DOMAIN q : q[i].kind = "card"}

\* There is one, and the call waits for it.
CardInv ==
  /\ card => pc = "asking" /\ Cards(uiq) = {}
  /\ Cards(uiq) # {} => pc = "asking"
  /\ \A i, j \in Cards(uiq) : i = j

\* Other messages behind it are none.
LEMMA ShownCards ==
  ASSUME TrafficInv, NEW msgs \in Seq(HostMessages), Show(msgs),
         \A i \in DOMAIN msgs : msgs[i].kind # "card"
  PROVE  Cards(uiq') = Cards(uiq)
  <1> DEFINE n == Len(uiq)
  <1>1. uiq \in Seq(HostMessages) /\ uiq' = uiq \o msgs
    BY DEF TrafficInv, Show
  <1>2. DOMAIN uiq' = 1 .. n + Len(msgs) /\ DOMAIN uiq = 1 .. n /\ DOMAIN msgs = 1 .. Len(msgs)
    BY <1>1
  <1>3. \A i \in 1 .. n : uiq'[i] = uiq[i]
    BY <1>1
  <1>4. \A i \in n + 1 .. n + Len(msgs) : i - n \in DOMAIN msgs /\ uiq'[i] = msgs[i - n]
    BY <1>1
  <1>5. QED
    BY <1>1, <1>2, <1>3, <1>4 DEF Cards

LEMMA ToldNoCard ==
  ASSUME NEW k \in MessageKinds \ {"card"}, NEW l \in MessageKinds \ {"card"}, NEW t, NEW u
  PROVE  /\ \A i \in DOMAIN <<Msg(k, t)>> : <<Msg(k, t)>>[i].kind # "card"
         /\ \A i \in DOMAIN <<Msg(k, t), Msg(l, u)>> : <<Msg(k, t), Msg(l, u)>>[i].kind # "card"
  BY DEF Msg

\* The controller and the keep-alives show no card.
LEMMA NoOtherCards ==
  ASSUME TrafficInv, StoresInv, Controller \/ RelayReport \/ EndTurn
  PROVE  Cards(uiq') = Cards(uiq)
  <1>1. CASE UNCHANGED uiq
    BY <1>1
  <1>2. ASSUME NEW k \in MessageKinds \ {"card"}, NEW t, Show(<<Msg(k, t)>>),
               <<Msg(k, t)>> \in Seq(HostMessages)
        PROVE  Cards(uiq') = Cards(uiq)
    BY <1>2, ToldNoCard, ShownCards
  <1>3. ASSUME NEW k \in MessageKinds \ {"card"}, NEW l \in MessageKinds \ {"card"}, NEW t,
               Show(<<Msg(k, t), Msg(l, t)>>), <<Msg(k, t), Msg(l, t)>> \in Seq(HostMessages)
        PROVE  Cards(uiq') = Cards(uiq)
    BY <1>3, ToldNoCard, ShownCards
  <1>4. /\ {"hostKey", "auth", "auto", "status", "report", "done", "failed", "reply"}
             \subseteq MessageKinds \ {"card"}
    BY DEF MessageKinds, PromptKinds
  <1>5. CASE BeginRemote \/ BeginLocal \/ BeginOffline \/ StartTurn \/ ConnectCached
    BY <1>1, <1>5 DEF BeginRemote, BeginLocal, BeginOffline, StartTurn, ConnectCached
  <1>6. CASE ConnectFresh \/ HostKeyUnknown \/ AuthRefused \/ Unreachable
    <2>1. ctl.host \in Hosts
      BY <1>6 DEF ConnectFresh, HostKeyUnknown, AuthRefused, Unreachable, FailConnect, Connecting,
         StoresInv, HostStages
    <2>2. CASE ConnectFresh
      <3>1. CASE ctl.host \in Configured
        BY <1>2, <1>4, <2>1, <2>2, <3>1, Told DEF ConnectFresh
      <3>2. CASE ctl.host \notin Configured
        <4>1. Show(<<>>)
          BY <2>2, <3>2 DEF ConnectFresh
        <4>2. UNCHANGED uiq
          BY <4>1 DEF Show, TrafficInv
        <4>3. QED
          BY <4>2
      <3>3. QED
        BY <3>1, <3>2
    <2>3. CASE HostKeyUnknown \/ AuthRefused \/ Unreachable
      BY <1>2, <1>4, <2>1, <2>3, Told DEF HostKeyUnknown, AuthRefused, Unreachable, FailConnect
    <2>4. QED
      BY <1>6, <2>2, <2>3
  <1>7. CASE FinishConnect
    <2>1. ctl.host \in Hosts
      BY <1>7 DEF FinishConnect, StoresInv, HostStages
    <2>2. QED
      BY <1>3, <1>4, <1>7, <2>1, Told DEF FinishConnect
  <1>8. CASE FinishLocal \/ FinishOffline
    BY <1>2, <1>4, <1>8, Told DEF FinishLocal, FinishOffline, Targets
  <1>9. CASE NothingPending("accept") \/ NothingPending("reject")
    <2>1. Head(inbox).host \in Hosts \cup {None}
      BY <1>9, Taken DEF NothingPending
    <2>2. QED
      BY <1>2, <1>4, <1>9, <2>1, Told DEF NothingPending
  <1>10. CASE RefuseKey \/ TrustKey
    <2>1. pending \in Hosts
      BY <1>10 DEF RefuseKey, TrustKey, StoresInv
    <2>2. UNCHANGED uiq \/ Show(<<Msg("failed", pending)>>)
          \/ Show(<<Msg("auth", pending), Msg("failed", pending)>>)
      BY <1>10 DEF RefuseKey, TrustKey
    <2>3. QED
      BY <1>1, <1>2, <1>3, <1>4, <2>1, <2>2, Told
  <1>11. CASE LogIn
    <2>1. Head(inbox).host \in Hosts
      BY <1>11, Taken DEF LogIn
    <2>2. UNCHANGED uiq \/ Show(<<Msg("auth", Head(inbox).host)>>)
      BY <1>11 DEF LogIn
    <2>3. QED
      BY <1>1, <1>2, <1>4, <2>1, <2>2, Told
  <1>12. CASE RefuseChat \/ EndTurn
    BY <1>2, <1>4, <1>12, Told DEF RefuseChat, EndTurn
  <1>13. CASE RelayReport
    <2>1. Head(reports) \in Targets
      BY <1>13 DEF RelayReport, TrafficInv
    <2>2. QED
      BY <1>2, <1>4, <1>13, <2>1, Told DEF RelayReport
  <1>14. QED
    BY <1>5, <1>6, <1>7, <1>8, <1>9, <1>10, <1>11, <1>12, <1>13 DEF Controller

LEMMA CardStep == TrafficInv /\ StoresInv /\ FlagsInv /\ CardInv /\ [Next]_vars => CardInv'
  <1> SUFFICES ASSUME TrafficInv, StoresInv, FlagsInv, CardInv, [Next]_vars PROVE CardInv'
    OBVIOUS
  <1>1. ASSUME Cards(uiq') = Cards(uiq), UNCHANGED <<card, pc>> PROVE CardInv'
    BY <1>1 DEF CardInv
  <1>2. CASE User
    <2>1. CASE Approve \/ Dismiss
      <3>1. UNCHANGED uiq /\ card /\ card' = FALSE
        BY <2>1 DEF Approve, Dismiss
      <3>2. Cards(uiq') = {}
        BY <3>1 DEF CardInv
      <3>3. QED
        BY <3>1, <3>2 DEF CardInv
    <2>2. CASE ~(Approve \/ Dismiss)
      BY <1>1, <1>2, <2>2 DEF User, AccessRemote, AccessLocal, AccessOffline, Chat, Type, CloseDialog,
         AcceptKey, RejectKey, GiveSecret
    <2>3. QED
      BY <2>1, <2>2
  <1>3. CASE Controller
    <2>1. CASE StartTurn
      <3>1. pc = "none" /\ UNCHANGED <<uiq, card>>
        BY <2>1 DEF StartTurn
      <3>2. QED
        BY <3>1 DEF CardInv
    <2>2. CASE ~StartTurn
      <3>1. UNCHANGED <<card, pc>>
        BY <1>3, <2>2 DEF Controller, BeginRemote, ConnectCached, ConnectFresh, HostKeyUnknown,
           AuthRefused, Unreachable, FailConnect, ConnectUntouched, FinishConnect, BeginLocal,
           FinishLocal, BeginOffline, FinishOffline, NothingPending, RefuseKey, TrustKey, LogIn,
           AnswersNothing, AnswerUntouched, RefuseChat
      <3>2. QED
        BY <1>1, <1>3, <3>1, NoOtherCards
    <2>3. QED
      BY <2>1, <2>2
  <1>4. CASE Turn
    <2>1. CASE ShowQuestion
      <3>1. pc = "asking" /\ ~card /\ Cards(uiq) = {} /\ UNCHANGED <<card, pc>>
        BY <2>1 DEF ShowQuestion, Cards
      <3>2. uiq' = Append(uiq, Msg("card", None)) /\ uiq \in Seq(HostMessages)
        BY <2>1 DEF ShowQuestion, Show, TrafficInv
      <3>3. Cards(uiq') \subseteq {Len(uiq) + 1}
        BY <3>1, <3>2 DEF Cards
      <3>4. QED
        BY <3>1, <3>3 DEF CardInv
    <2>2. CASE EndTurn
      <3>1. pc = "thinking" /\ UNCHANGED card
        BY <2>2 DEF EndTurn
      <3>2. Cards(uiq) = {} /\ ~card
        BY <3>1 DEF CardInv
      <3>3. QED
        BY <2>2, <3>1, <3>2, NoOtherCards DEF CardInv
    <2>3. CASE Propose \/ ProposeAllowed \/ StartCommand \/ CommandReturns
      <3>1. UNCHANGED <<uiq, card>> /\ pc # "asking"
        BY <2>3 DEF Propose, ProposeAllowed, Asks, StartCommand, CommandReturns
      <3>2. QED
        BY <3>1 DEF CardInv
    <2>4. QED
      BY <1>4, <2>1, <2>2, <2>3 DEF Turn
  <1>5. CASE Pump
    <2>1. uiq # <<>> /\ uiq' = Tail(uiq) /\ UNCHANGED pc /\ uiq \in Seq(HostMessages)
      BY <1>5 DEF Pump, Arrives, ShowStatus, ShowPrompt, ShowConnected, ShowFailed, ShowCard, ShowReply,
         TrafficInv
    <2>2. \A i \in Cards(uiq') : i + 1 \in Cards(uiq) /\ i + 1 # 1
      BY <2>1 DEF Cards
    <2>3. CASE ShowCard
      <3>1. 1 \in Cards(uiq) /\ card' = TRUE
        BY <2>1, <2>3 DEF ShowCard, Arrives, Cards
      <3>2. Cards(uiq') = {} /\ pc = "asking"
        BY <2>2, <3>1 DEF CardInv
      <3>3. QED
        BY <2>1, <3>1, <3>2 DEF CardInv
    <2>4. CASE ~ShowCard
      <3>1. UNCHANGED card
        BY <1>5, <2>4 DEF Pump, ShowStatus, ShowPrompt, ShowConnected, ShowFailed, ShowReply
      <3>2. \A i, j \in Cards(uiq') : i = j
        BY <2>1, <2>2 DEF CardInv, Cards
      <3>3. QED
        BY <2>1, <2>2, <3>1, <3>2 DEF CardInv
    <2>5. QED
      BY <2>3, <2>4
  <1>6. CASE RelayReport
    BY <1>1, <1>6, NoOtherCards DEF RelayReport
  <1>7. CASE ProbeEnds \/ ReportTrouble \/ UNCHANGED vars
    BY <1>1, <1>7 DEF ProbeEnds, ReportTrouble
  <1>8. QED
    BY <1>2, <1>3, <1>4, <1>5, <1>6, <1>7 DEF Next

LEMMA CardInit == Init => CardInv
  BY DEF Init, CardInv, Cards

-----------------------------------------------------------------------------
(* The runner of a turn.                                                   *)

LEMMA RunnerStep == StoresInv /\ FlagsInv /\ CardInv /\ RunnerInv /\ [Next]_vars => RunnerInv'
  <1> SUFFICES ASSUME StoresInv, FlagsInv, CardInv, RunnerInv, Others \/ Controller PROVE RunnerInv'
    BY Splits
  <1>1. ASSUME UNCHANGED <<ctl, mode, runner, turnMode, turnOffline>>, odd \subseteq odd',
               pc' # "none" => pc # "none"
        PROVE  RunnerInv'
    BY <1>1 DEF RunnerInv
  <1>2. CASE User
    BY <1>1, <1>2 DEF User, AccessRemote, AccessLocal, AccessOffline, Chat, Type, CloseDialog, AcceptKey,
       RejectKey, GiveSecret, Approve, Dismiss, CardInv
  <1>3. CASE Pump \/ ProbeEnds \/ ReportTrouble \/ RelayReport \/ UNCHANGED vars
    BY <1>1, <1>3 DEF Pump, Arrives, ShowStatus, ShowPrompt, ShowConnected, ShowFailed, ShowCard,
       ShowReply, ProbeEnds, ReportTrouble, RelayReport
  <1>4. CASE Turn
    <2>1. CASE EndTurn
      BY <2>1 DEF EndTurn, RunnerInv
    <2>2. CASE Propose \/ ProposeAllowed \/ ShowQuestion \/ StartCommand
      BY <1>1, <2>2 DEF Propose, ProposeAllowed, Asks, ShowQuestion, StartCommand
    <2>3. CASE CommandReturns
      BY <1>1, <2>3 DEF CommandReturns, ForgetCall
    <2>4. QED
      BY <1>4, <2>1, <2>2, <2>3 DEF Turn
  <1>5. ASSUME UNCHANGED <<turn, turnMode>>, odd \subseteq odd',
               \/ UNCHANGED <<mode, runner>> /\ ctl'.at = ctl.at
               \/ UNCHANGED <<mode, runner>> /\ ctl'.at = "connected"
                  /\ (runner = "offline" => ctl.at = "connecting" \/ "login" \in odd')
               \/ runner' = "none"
               \/ UNCHANGED runner /\ mode' = Local /\ ctl'.at = "toLocal"
               \/ UNCHANGED runner /\ mode' # Offline /\ ctl.at = "connected" /\ ctl'.at = "idle"
               \/ UNCHANGED <<mode, runner>> /\ ctl.at # "toLocal" /\ ctl'.at \in {"idle", "toOffline"}
        PROVE  RunnerInv'
    BY <1>5 DEF RunnerInv
  <1>6. CASE BeginRemote \/ BeginLocal \/ BeginOffline
    BY <1>5, <1>6 DEF BeginRemote, BeginLocal, BeginOffline, Take, Idle, Moves, Invalidate
  <1>7. CASE ConnectCached \/ ConnectFresh
    <2>1. ctl'.at = "connected" /\ ctl.at = "connecting"
      BY <1>7 DEF ConnectCached, ConnectFresh, Connecting, StoresInv, HostStages
    <2>2. UNCHANGED <<turn, turnMode, odd, mode, runner>>
      BY <1>7 DEF ConnectCached, ConnectFresh, ConnectUntouched
    <2>3. QED
      BY <1>5, <2>1, <2>2
  <1>8. CASE HostKeyUnknown \/ AuthRefused \/ Unreachable
    BY <1>5, <1>8 DEF HostKeyUnknown, AuthRefused, Unreachable, FailConnect, Connecting, Idle,
       ConnectUntouched
  <1>9. CASE FinishConnect
    <2>1. mode' \in Hosts
      BY <1>9 DEF FinishConnect, StoresInv, HostStages
    <2>2. QED
      BY <1>5, <1>9, <2>1 DEF FinishConnect, Idle
  <1>10. CASE FinishLocal \/ FinishOffline
    BY <1>5, <1>10 DEF FinishLocal, FinishOffline, Invalidate
  <1>11. CASE TrustKey \/ LogIn
    <2>1. ctl = Idle /\ UNCHANGED <<turn, turnMode, mode, runner>> /\ odd \subseteq odd'
      BY <1>11 DEF TrustKey, LogIn, Take, AnswerUntouched, Answers
    <2>2. runner = "offline" => "login" \in odd'
      BY <1>11 DEF TrustKey, LogIn, Answers
    <2>3. UNCHANGED ctl \/ \E h : ctl' = [at |-> "connected", host |-> h]
      BY <1>11 DEF TrustKey, LogIn
    <2>4. QED
      BY <1>5, <2>1, <2>2, <2>3
  <1>12. CASE NothingPending("accept") \/ NothingPending("reject") \/ RefuseKey \/ RefuseChat
    BY <1>1, <1>12 DEF NothingPending, RefuseKey, AnswersNothing, AnswerUntouched, RefuseChat
  <1>13. CASE StartTurn
    <2>1. ctl.at = "idle" /\ UNCHANGED <<ctl, mode, odd>> /\ turnMode' = mode
          /\ turnOffline' = RunnerOffline
          /\ runner' = IF RunnerOffline THEN "offline" ELSE "online"
      BY <1>13 DEF StartTurn, Take, Idle
    <2>2. mode = Offline => RunnerOffline
      BY DEF RunnerInv, RunnerOffline, StoresInv
    <2>3. RunnerOffline /\ "login" \notin odd => mode = Offline
      BY <2>1 DEF RunnerInv, RunnerOffline
    <2>4. turnOffline' <=> RunnerOffline
      BY <2>1, Zenon
    <2>5. QED
      BY <2>1, <2>2, <2>3, <2>4 DEF RunnerInv
  <1>14. QED
    BY <1>2, <1>3, <1>4, <1>6, <1>7, <1>8, <1>9, <1>10, <1>11, <1>12, <1>13 DEF Others, Controller

LEMMA RunnerInit == Init => RunnerInv
  BY DEF Init, RunnerInv, Idle

\* The runner of a turn was built for the mode in which the turn started,
\* unless a login found an offline runner in the cache (exec_remote.go).
THEOREM RunnerCorrect == Spec => []RunnerFitsMode
  <1>1. Shape /\ RunnerInv => RunnerFitsMode
    BY DEF RunnerInv, RunnerFitsMode, Shape, FlagsInv
  <1>2. Shape /\ CardInv /\ RunnerInv /\ [Next]_vars => CardInv' /\ RunnerInv'
    BY CardStep, RunnerStep DEF Shape
  <1>3. QED
    BY <1>1, <1>2, CardInit, RunnerInit, ShapeAlways, PTL DEF Spec

\* A turn of the offline mode proposes nothing, so nothing of it is asked,
\* approved or started.
OfflineInv ==
  /\ pc \in {"asking", "ready", "running"} => turnMode # Offline
  /\ last.turnMode # Offline

LEMMA OfflineStep ==
  FlagsInv /\ CardInv /\ RunnerInv /\ OfflineInv /\ [Next]_vars => OfflineInv'
  <1> SUFFICES ASSUME FlagsInv, CardInv, RunnerInv, OfflineInv, [Next]_vars PROVE OfflineInv'
    OBVIOUS
  <1>1. ASSUME UNCHANGED <<turnMode, last>>,
               pc' \in {"asking", "ready", "running"} => pc \in {"asking", "ready", "running"}
        PROVE  OfflineInv'
    BY <1>1 DEF OfflineInv
  <1>2. CASE User
    BY <1>1, <1>2 DEF User, AccessRemote, AccessLocal, AccessOffline, Chat, Type, CloseDialog, AcceptKey,
       RejectKey, GiveSecret, Approve, Dismiss, CardInv
  <1>3. CASE Controller
    <2>1. CASE StartTurn
      BY <2>1 DEF StartTurn, OfflineInv
    <2>2. CASE ~StartTurn
      BY <1>1, <1>3, <2>2 DEF Controller, BeginRemote, ConnectCached, ConnectFresh, HostKeyUnknown,
         AuthRefused, Unreachable, FailConnect, ConnectUntouched, FinishConnect, BeginLocal,
         FinishLocal, BeginOffline, FinishOffline, NothingPending, RefuseKey, TrustKey, LogIn,
         AnswersNothing, AnswerUntouched, RefuseChat
    <2>3. QED
      BY <2>1, <2>2
  <1>4. CASE Turn
    <2>1. CASE Propose \/ ProposeAllowed
      <3>1. pc = "thinking" /\ ~turnOffline /\ UNCHANGED <<turnMode, last>>
        BY <2>1 DEF Propose, ProposeAllowed, Asks
      <3>2. turnMode # Offline
        BY <3>1 DEF RunnerInv
      <3>3. QED
        BY <3>1, <3>2 DEF OfflineInv
    <2>2. CASE StartCommand
      BY <2>2 DEF StartCommand, OfflineInv
    <2>3. CASE CommandReturns
      BY <2>3 DEF CommandReturns, ForgetCall, NoRunYet, OfflineInv
    <2>4. CASE EndTurn
      BY <2>4 DEF EndTurn, OfflineInv
    <2>5. CASE ShowQuestion
      BY <1>1, <2>5 DEF ShowQuestion
    <2>6. QED
      BY <1>4, <2>1, <2>2, <2>3, <2>4, <2>5 DEF Turn
  <1>5. CASE Pump \/ ProbeEnds \/ ReportTrouble \/ RelayReport \/ UNCHANGED vars
    BY <1>1, <1>5 DEF Pump, Arrives, ShowStatus, ShowPrompt, ShowConnected, ShowFailed, ShowCard,
       ShowReply, ProbeEnds, ReportTrouble, RelayReport
  <1>6. QED
    BY <1>2, <1>3, <1>4, <1>5 DEF Next

LEMMA OfflineInit == Init => OfflineInv
  BY DEF Init, OfflineInv, NoRunYet

\* A turn that starts in the offline mode executes nothing, whatever the user
\* switches to while it runs and whichever runner the cache holds
\* (runnermgr.go, exec_remote.go).
THEOREM OfflineCorrect == Spec => []OfflineTurnsExecuteNothing
  <1>1. OfflineInv => OfflineTurnsExecuteNothing
    BY DEF OfflineInv, OfflineTurnsExecuteNothing
  <1>2. /\ Shape /\ CardInv /\ RunnerInv /\ OfflineInv /\ [Next]_vars
           => CardInv' /\ RunnerInv' /\ OfflineInv'
    BY CardStep, RunnerStep, OfflineStep DEF Shape
  <1>3. QED
    BY <1>1, <1>2, CardInit, RunnerInit, OfflineInit, ShapeAlways, PTL DEF Spec

-----------------------------------------------------------------------------
(* The host memory in the prompt.                                          *)

LEMMA MemoryStep ==
  StoresInv /\ AgreeInv /\ MemoryInv /\ [Next]_vars => MemoryInv'
  <1> SUFFICES ASSUME StoresInv, AgreeInv, MemoryInv, [Next]_vars PROVE MemoryInv'
    OBVIOUS
  <1>1. ASSUME ctl'.at = ctl.at, UNCHANGED <<executor, memory>>, odd \subseteq odd'
        PROVE  MemoryInv'
    BY <1>1 DEF MemoryInv
  <1>2. CASE User \/ Turn \/ Pump \/ ReportTrouble \/ RelayReport \/ UNCHANGED vars
    <2>1. UNCHANGED <<host, execs>>
      BY <1>2, OthersSwitchNothing DEF Others
    <2>2. UNCHANGED <<memory, odd>>
      BY <1>2 DEF User, AccessRemote, AccessLocal, AccessOffline, Chat, Type, CloseDialog, AcceptKey,
         RejectKey, GiveSecret, Approve, Dismiss, Turn, Propose, ProposeAllowed, Asks, ShowQuestion,
         StartCommand, CommandReturns, ForgetCall, EndTurn, Pump, Arrives, ShowStatus, ShowPrompt,
         ShowConnected, ShowFailed, ShowCard, ShowReply, ReportTrouble, RelayReport
    <2>3. QED
      BY <1>1, <2>1, <2>2
  <1>3. CASE ProbeEnds
    BY <1>3 DEF ProbeEnds, MemoryInv
  <1>4. CASE Controller
    <2>1. CASE BeginRemote \/ BeginLocal \/ BeginOffline
      <3>1. ctl.at = "idle" /\ odd' = odd \cup Strays
        BY <2>1 DEF BeginRemote, BeginLocal, BeginOffline, Take, Idle, Moves
      <3>2. "stray" \notin odd' => "stray" \notin odd /\ probes = {}
        BY <3>1 DEF Strays
      <3>3. QED
        BY <2>1, <3>1, <3>2 DEF BeginRemote, BeginLocal, BeginOffline, MemoryInv
    <2>2. CASE ConnectCached \/ ConnectFresh
      <3>1. ctl'.at = "connected" /\ ctl.at = "connecting"
        BY <2>2 DEF ConnectCached, ConnectFresh, Connecting, StoresInv, HostStages
      <3>2. QED
        BY <2>2, <3>1 DEF ConnectCached, ConnectFresh, ConnectUntouched, MemoryInv
    <2>3. CASE HostKeyUnknown \/ AuthRefused \/ Unreachable
      BY <2>3 DEF HostKeyUnknown, AuthRefused, Unreachable, FailConnect, Connecting, Idle,
         ConnectUntouched, MemoryInv
    <2>4. CASE FinishConnect
      BY <2>4 DEF FinishConnect, Idle, MemoryInv
    <2>5. CASE FinishLocal
      BY <2>5 DEF FinishLocal, SwitchToLocal, Idle, MemoryInv
    <2>6. CASE FinishOffline
      BY <2>6 DEF FinishOffline, Idle, MemoryInv
    <2>7. CASE TrustKey \/ LogIn
      <3>1. ctl.at = "idle" /\ UNCHANGED memory /\ odd \subseteq odd' /\ Strays \subseteq odd'
        BY <2>7 DEF TrustKey, LogIn, Take, Idle, AnswerUntouched, Answers
      <3>2. "stray" \notin odd' => "stray" \notin odd /\ probes = {}
        BY <3>1 DEF Strays
      <3>3. CASE UNCHANGED <<ctl, execs>>
        BY <1>1, <3>1, <3>3
      <3>4. CASE \E h : ctl' = [at |-> "connected", host |-> h]
        BY <3>1, <3>2, <3>4 DEF MemoryInv
      <3>5. QED
        BY <2>7, <3>3, <3>4 DEF TrustKey, LogIn
    <2>8. CASE NothingPending("accept") \/ NothingPending("reject") \/ RefuseKey
      BY <1>1, <2>8 DEF NothingPending, RefuseKey, AnswersNothing, AnswerUntouched
    <2>9. CASE StartTurn \/ RefuseChat
      BY <1>1, <2>9 DEF StartTurn, RefuseChat
    <2>10. QED
      BY <1>4, <2>1, <2>2, <2>3, <2>4, <2>5, <2>6, <2>7, <2>8, <2>9 DEF Controller
  <1>5. QED
    BY <1>2, <1>3, <1>4 DEF Next

LEMMA MemoryInit == Init => MemoryInv
  BY DEF Init, MemoryInv, Idle

\* The host memory put into the prompt is that of the current machine, unless
\* a probe of an earlier one was still running when it was left (hostmem.go).
THEOREM MemoryCorrect == Spec => []MemoryFits
  <1>1. MemoryInv => MemoryFits
    BY DEF MemoryInv, MemoryFits, Idle
  <1>2. Shape /\ AgreeInv /\ MemoryInv /\ [Next]_vars => AgreeInv' /\ MemoryInv'
    BY AgreeStep, MemoryStep DEF Shape
  <1>3. QED
    BY <1>1, <1>2, AgreeInit, MemoryInit, ShapeAlways, PTL DEF Spec
-----------------------------------------------------------------------------
(* What each step tells the UI.                                            *)

Plain == {"hostKey", "auth", "failed", "reply", "card", "done"}
Quiet == Plain \cup {"auto"}
Subjects == Targets \cup {None}

\* A message or two of these kinds.
Says(K) ==
  \/ UNCHANGED uiq
  \/ \E k \in K, t \in Subjects : <<Msg(k, t)>> \in Seq(HostMessages) /\ Show(<<Msg(k, t)>>)
  \/ \E k, l \in K, t \in Subjects :
       /\ <<Msg(k, t), Msg(l, t)>> \in Seq(HostMessages)
       /\ Show(<<Msg(k, t), Msg(l, t)>>)

\* What does not touch the status line.
Mutters == Says(Quiet)

\* Only the end of a switch and the relay of a report change the status line.
LEMMA OthersMutter ==
  ASSUME TrafficInv, StoresInv,
         Turn \/ (Controller /\ ~FinishConnect /\ ~FinishLocal /\ ~FinishOffline)
  PROVE  Mutters /\ (ConnectFresh \/ Says(Plain))
  <1>1. Says(Plain) => Mutters
    BY DEF Says, Mutters, Quiet
  <1>2. CASE ConnectFresh
    <2>1. ctl.host \in Hosts
      BY <1>2 DEF ConnectFresh, Connecting, StoresInv, HostStages
    <2>2. CASE ctl.host \in Configured
      BY <1>2, <2>1, <2>2, Told DEF ConnectFresh, Mutters, Says, Quiet, Subjects, Targets
    <2>3. CASE ctl.host \notin Configured
      <3>1. Show(<<>>)
        BY <1>2, <2>3 DEF ConnectFresh
      <3>2. QED
        BY <1>2, <3>1 DEF Show, TrafficInv, Mutters, Says
    <2>4. QED
      BY <2>2, <2>3
  <1>3. CASE ~ConnectFresh
    <2>1. SUFFICES Says(Plain)
      BY <1>1
    <2>2. CASE Turn
      BY <2>2, Told DEF Turn, Propose, ProposeAllowed, Asks, ShowQuestion, StartCommand, CommandReturns,
         EndTurn, Says, Plain, Subjects
    <2>3. CASE BeginRemote \/ BeginLocal \/ BeginOffline \/ StartTurn \/ ConnectCached
      BY <2>3 DEF BeginRemote, BeginLocal, BeginOffline, StartTurn, ConnectCached, Says
    <2>4. CASE HostKeyUnknown \/ AuthRefused \/ Unreachable
      <3>1. ctl.host \in Hosts
        BY <2>4 DEF HostKeyUnknown, AuthRefused, Unreachable, FailConnect, Connecting, StoresInv, HostStages
      <3>2. QED
        BY <2>4, <3>1, Told DEF HostKeyUnknown, AuthRefused, Unreachable, FailConnect, Says, Plain,
           Subjects, Targets
    <2>5. CASE NothingPending("accept") \/ NothingPending("reject") \/ LogIn
      <3>1. Head(inbox).host \in Hosts \cup {None} /\ (LogIn => Head(inbox).host \in Hosts)
        BY <2>5, Taken DEF NothingPending, LogIn
      <3>2. QED
        BY <2>5, <3>1, Told DEF NothingPending, LogIn, Says, Plain, Subjects, Targets
    <2>6. CASE RefuseKey \/ TrustKey
      <3>1. pending \in Hosts
        BY <2>6 DEF RefuseKey, TrustKey, StoresInv
      <3>2. QED
        BY <2>6, <3>1, Told DEF RefuseKey, TrustKey, Says, Plain, Subjects, Targets
    <2>7. CASE RefuseChat
      BY <2>7, Told DEF RefuseChat, Says, Plain, Subjects
    <2>8. QED
      BY <1>3, <2>2, <2>3, <2>4, <2>5, <2>6, <2>7 DEF Controller
  <1>4. QED
    BY <1>2, <1>3

-----------------------------------------------------------------------------
(* The status line.                                                        *)

\* Once the messages of q have arrived at a line that shows f, it names m.
Labels(q, f, m) ==
  \/ MachineOf(f) = m /\ \A i \in DOMAIN q : q[i].kind # "status"
  \/ \E i \in DOMAIN q :
       /\ q[i].kind = "status" /\ MachineOf(q[i].target) = m
       /\ \A j \in DOMAIN q : j > i => q[j].kind # "status"

LEMMA LabelsOther ==
  ASSUME NEW q \in Seq(HostMessages), NEW x \in HostMessages, x.kind # "status", NEW f, NEW m,
         Labels(q, f, m)
  PROVE  Labels(Append(q, x), f, m)
  <1>1. /\ DOMAIN Append(q, x) = DOMAIN q \cup {Len(q) + 1}
        /\ Append(q, x)[Len(q) + 1] = x
        /\ \A i \in DOMAIN q : Append(q, x)[i] = q[i]
    OBVIOUS
  <1>2. QED
    BY <1>1 DEF Labels

LEMMA LabelsStatus ==
  ASSUME NEW q \in Seq(HostMessages), NEW x \in HostMessages, x.kind = "status", NEW f
  PROVE  Labels(Append(q, x), f, MachineOf(x.target))
  <1>1. /\ Len(q) + 1 \in DOMAIN Append(q, x) /\ Append(q, x)[Len(q) + 1] = x
        /\ \A j \in DOMAIN Append(q, x) : ~(j > Len(q) + 1)
    OBVIOUS
  <1>2. QED
    BY <1>1 DEF Labels

LEMMA LabelsTail ==
  ASSUME NEW q \in Seq(HostMessages), q # <<>>, NEW f, NEW m, Labels(q, f, m)
  PROVE  Labels(Tail(q), IF Head(q).kind = "status" THEN Head(q).target ELSE f, m)
  <1>1. /\ \A i \in DOMAIN Tail(q) : i + 1 \in DOMAIN q /\ Tail(q)[i] = q[i + 1] /\ i + 1 > 1 /\ i \in Nat
        /\ \A i \in DOMAIN q : i # 1 => i - 1 \in DOMAIN Tail(q) /\ Tail(q)[i - 1] = q[i]
        /\ 1 \in DOMAIN q /\ Head(q) = q[1] /\ DOMAIN q \subseteq Nat
    OBVIOUS
  <1>2. CASE \A i \in DOMAIN q : q[i].kind # "status"
    BY <1>1, <1>2 DEF Labels
  <1>3. ASSUME NEW i \in DOMAIN q, q[i].kind = "status", MachineOf(q[i].target) = m,
               \A j \in DOMAIN q : j > i => q[j].kind # "status"
        PROVE  Labels(Tail(q), IF Head(q).kind = "status" THEN Head(q).target ELSE f, m)
    <2>1. CASE i = 1
      BY <1>1, <1>3, <2>1 DEF Labels
    <2>2. CASE i # 1
      <3>1. i - 1 \in DOMAIN Tail(q) /\ Tail(q)[i - 1] = q[i]
        BY <1>1, <2>2
      <3>2. \A j \in DOMAIN Tail(q) : j > i - 1 => Tail(q)[j].kind # "status"
        BY <1>1, <1>3
      <3>3. QED
        BY <1>3, <3>1, <3>2 DEF Labels
    <2>3. QED
      BY <2>1, <2>2
  <1>4. QED
    BY <1>2, <1>3 DEF Labels

\* As long as no keep-alive has reported, the status line will name the
\* machine, until the controller leaves it.
FooterInv ==
  troubles = 0 =>
    /\ reports = <<>> /\ \A i \in DOMAIN uiq : uiq[i].kind # "report"
    /\ ctl.at \in {"idle", "connecting"} => Labels(uiq, footer, executor)

LEMMA FooterAdds ==
  ASSUME TrafficInv, FooterInv, Mutters, UNCHANGED <<reports, footer, troubles>>,
         ctl'.at \in {"idle", "connecting"} =>
           ctl.at \in {"idle", "connecting"} /\ UNCHANGED executor
  PROVE  FooterInv'
  <1>1. ASSUME NEW x \in HostMessages, x.kind \in Quiet, NEW q \in Seq(HostMessages), troubles = 0,
               \A i \in DOMAIN q : q[i].kind # "report"
        PROVE  \A i \in DOMAIN Append(q, x) : Append(q, x)[i].kind # "report"
    BY <1>1 DEF Quiet, Plain
  <1>2. CASE UNCHANGED uiq
    BY <1>2 DEF FooterInv, Labels, MachineOf
  <1>3. CASE \E k \in Quiet, t \in Subjects :
               <<Msg(k, t)>> \in Seq(HostMessages) /\ Show(<<Msg(k, t)>>)
    <2>1. PICK k \in Quiet, t \in Subjects : <<Msg(k, t)>> \in Seq(HostMessages) /\ Show(<<Msg(k, t)>>)
      BY <1>3
    <2>2. /\ Msg(k, t) \in HostMessages /\ Msg(k, t).kind = k
          /\ uiq' = Append(uiq, Msg(k, t)) /\ uiq \in Seq(HostMessages)
      BY <2>1 DEF Show, TrafficInv, Msg
    <2>3. QED
      BY <1>1, <2>2, LabelsOther DEF FooterInv, Quiet, Plain
  <1>4. CASE \E k, l \in Quiet, t \in Subjects :
               /\ <<Msg(k, t), Msg(l, t)>> \in Seq(HostMessages)
               /\ Show(<<Msg(k, t), Msg(l, t)>>)
    <2>1. PICK k \in Quiet, l \in Quiet, t \in Subjects :
                 /\ <<Msg(k, t), Msg(l, t)>> \in Seq(HostMessages)
                 /\ Show(<<Msg(k, t), Msg(l, t)>>)
      BY <1>4
    <2>2. /\ Msg(k, t) \in HostMessages /\ Msg(k, t).kind = k
          /\ Msg(l, t) \in HostMessages /\ Msg(l, t).kind = l
      <3>1. <<Msg(k, t), Msg(l, t)>>[1] \in HostMessages /\ <<Msg(k, t), Msg(l, t)>>[2] \in HostMessages
        BY <2>1
      <3>2. QED
        BY <3>1 DEF Msg
    <2>3. DEFINE q == Append(uiq, Msg(k, t))
    <2>4. q \in Seq(HostMessages) /\ uiq' = Append(q, Msg(l, t))
      BY <2>1, <2>2 DEF Show, TrafficInv
    <2>5. troubles = 0 => \A i \in DOMAIN uiq' : uiq'[i].kind # "report"
      BY <1>1, <2>2, <2>4 DEF FooterInv, TrafficInv
    <2>6. Labels(uiq, footer, executor) => Labels(uiq', footer, executor)
      <3>1. Labels(uiq, footer, executor) => Labels(q, footer, executor)
        BY <2>2, LabelsOther DEF Quiet, Plain, TrafficInv
      <3> HIDE DEF q
      <3>2. Labels(q, footer, executor) => Labels(uiq', footer, executor)
        BY <2>2, <2>4, LabelsOther DEF Quiet, Plain
      <3>3. QED
        BY <3>1, <3>2
    <2>7. QED
      BY <2>5, <2>6 DEF FooterInv
  <1>5. QED
    BY <1>2, <1>3, <1>4 DEF Mutters, Says

LEMMA FooterFinishes ==
  ASSUME TrafficInv, StoresInv, AgreeInv, FooterInv, FinishConnect \/ FinishLocal \/ FinishOffline
  PROVE  FooterInv'
  <1>1. UNCHANGED <<reports, footer, troubles>> /\ uiq \in Seq(HostMessages)
    BY DEF FinishConnect, FinishLocal, FinishOffline, TrafficInv
  <1>2. ASSUME NEW t \in Targets, Show(<<Msg("status", t)>>), executor' = MachineOf(t) PROVE FooterInv'
    <2>1. /\ Msg("status", t) \in HostMessages /\ Msg("status", t).kind = "status"
          /\ Msg("status", t).target = t
      BY <1>2, Kinds DEF MessageKinds, PromptKinds, Msg
    <2>2. uiq' = Append(uiq, Msg("status", t))
      BY <1>1, <1>2, <2>1 DEF Show
    <2>3. Labels(uiq', footer', executor')
      BY <1>1, <1>2, <2>1, <2>2, LabelsStatus
    <2>4. troubles = 0 => \A i \in DOMAIN uiq' : uiq'[i].kind # "report"
      BY <1>1, <2>1, <2>2 DEF FooterInv
    <2>5. QED
      BY <1>1, <2>3, <2>4 DEF FooterInv
  <1>3. CASE FinishConnect
    <2>1. ctl.host \in Hosts /\ executor' = MachineOf(ctl.host)
      BY <1>3 DEF FinishConnect, StoresInv, HostStages, AgreeInv, MachineOf
    <2>2. DEFINE x == Msg("status", ctl.host)
                 y == Msg("done", ctl.host)
                 q == Append(uiq, x)
    <2>3. /\ x \in HostMessages /\ x.kind = "status" /\ x.target = ctl.host
          /\ y \in HostMessages /\ y.kind = "done"
      BY <2>1, Kinds DEF MessageKinds, PromptKinds, Targets, Msg
    <2>4. q \in Seq(HostMessages) /\ uiq' = Append(q, y)
      BY <1>1, <1>3, <2>3 DEF FinishConnect, Show
    <2>5. Labels(q, footer, executor')
      BY <1>1, <2>1, <2>3, LabelsStatus
    <2>6. troubles = 0 => \A i \in DOMAIN uiq' : uiq'[i].kind # "report"
      BY <1>1, <2>3, <2>4 DEF FooterInv
    <2> HIDE DEF x, y, q
    <2>7. Labels(uiq', footer, executor')
      BY <2>3, <2>4, <2>5, LabelsOther
    <2>8. QED
      BY <1>1, <2>6, <2>7 DEF FooterInv
  <1>4. CASE FinishLocal
    BY <1>2, <1>4 DEF FinishLocal, SwitchToLocal, MachineOf, Targets
  <1>5. CASE FinishOffline
    BY <1>2, <1>5 DEF FinishOffline, AgreeInv, MachineOf, Targets
  <1>6. QED
    BY <1>3, <1>4, <1>5

LEMMA FooterPump == ASSUME TrafficInv, FooterInv, Pump PROVE FooterInv'
  <1>1. uiq # <<>> /\ uiq' = Tail(uiq) /\ UNCHANGED <<reports, host, execs, bounds>>
    BY DEF Pump, Arrives, ShowStatus, ShowPrompt, ShowConnected, ShowFailed, ShowCard, ShowReply
  <1>2. footer' = IF Head(uiq).kind \in {"status", "report"} THEN Head(uiq).target ELSE footer
    BY DEF Pump, Arrives, ShowStatus, ShowPrompt, ShowConnected, ShowFailed, ShowCard, ShowReply,
       PromptKinds
  <1>3. uiq \in Seq(HostMessages)
    BY DEF TrafficInv
  <1>4. CASE troubles = 0
    <2>1. Head(uiq).kind # "report" /\ \A i \in DOMAIN uiq' : uiq'[i].kind # "report"
      BY <1>1, <1>3, <1>4 DEF FooterInv
    <2>2. footer' = IF Head(uiq).kind = "status" THEN Head(uiq).target ELSE footer
      BY <1>2, <2>1
    <2>3. Labels(uiq, footer, executor) => Labels(uiq', footer', executor)
      BY <1>1, <1>3, <2>2, LabelsTail
    <2>4. QED
      BY <1>1, <1>4, <2>1, <2>3 DEF FooterInv
  <1>5. CASE troubles # 0
    BY <1>1, <1>5 DEF FooterInv
  <1>6. QED
    BY <1>4, <1>5

LEMMA FooterStep == Shape /\ AgreeInv /\ FooterInv /\ [Next]_vars => FooterInv'
  <1> SUFFICES ASSUME TrafficInv, StoresInv, CallInv, AgreeInv, FooterInv, [Next]_vars PROVE FooterInv'
    BY DEF Shape
  <1>1. CASE User \/ ProbeEnds \/ UNCHANGED vars
    <2>1. UNCHANGED <<uiq, reports, footer, ctl, executor, troubles>>
      BY <1>1 DEF User, AccessRemote, AccessLocal, AccessOffline, Chat, Type, CloseDialog, AcceptKey,
         RejectKey, GiveSecret, Approve, Dismiss, ProbeEnds
    <2>2. QED
      BY <2>1, FooterAdds DEF Mutters, Says
  <1>2. CASE Turn
    <2>1. UNCHANGED <<reports, footer, ctl, executor, troubles>>
      BY <1>2 DEF Turn, Propose, ProposeAllowed, Asks, ShowQuestion, StartCommand, CommandReturns, EndTurn
    <2>2. QED
      BY <1>2, <2>1, OthersMutter, FooterAdds
  <1>3. CASE FinishConnect \/ FinishLocal \/ FinishOffline
    BY <1>3, FooterFinishes
  <1>4. CASE Controller /\ ~FinishConnect /\ ~FinishLocal /\ ~FinishOffline
    <2>1. Mutters
      BY <1>4, OthersMutter
    <2>2. UNCHANGED <<reports, footer, troubles>>
      BY <1>4 DEF Controller, BeginRemote, ConnectCached, ConnectFresh, HostKeyUnknown, AuthRefused,
         Unreachable, FailConnect, ConnectUntouched, BeginLocal, BeginOffline, NothingPending, RefuseKey,
         TrustKey, LogIn, AnswersNothing, AnswerUntouched, StartTurn, RefuseChat
    <2>3. ASSUME ctl'.at \in {"idle", "connecting"}
          PROVE  ctl.at \in {"idle", "connecting"} /\ UNCHANGED executor
      <3>1. CASE HostKeyUnknown \/ AuthRefused \/ Unreachable
        BY <3>1 DEF HostKeyUnknown, AuthRefused, Unreachable, FailConnect, Connecting
      <3>2. CASE ConnectCached \/ ConnectFresh
        BY <2>3, <3>2 DEF ConnectCached, ConnectFresh, StoresInv, HostStages
      <3>3. CASE BeginRemote \/ BeginLocal \/ BeginOffline
        BY <2>3, <3>3 DEF BeginRemote, BeginLocal, BeginOffline, Take, Idle
      <3>4. CASE TrustKey \/ LogIn
        BY <2>3, <3>4 DEF TrustKey, LogIn, Take, Idle
      <3>5. CASE NothingPending("accept") \/ NothingPending("reject") \/ RefuseKey \/ StartTurn \/ RefuseChat
        BY <3>5 DEF NothingPending, RefuseKey, StartTurn, RefuseChat, Take, Idle
      <3>6. QED
        BY <1>4, <3>1, <3>2, <3>3, <3>4, <3>5 DEF Controller
    <2>4. QED
      BY <2>1, <2>2, <2>3, FooterAdds
  <1>5. CASE Pump
    BY <1>5, FooterPump
  <1>6. CASE ReportTrouble
    BY <1>6 DEF ReportTrouble, CallInv, FooterInv
  <1>7. CASE RelayReport
    BY <1>7 DEF RelayReport, FooterInv
  <1>8. QED
    BY <1>1, <1>2, <1>3, <1>4, <1>5, <1>6, <1>7 DEF Next

LEMMA FooterInit == Init => FooterInv
  BY DEF Init, FooterInv, Labels, MachineOf

\* When every message has arrived and no keep-alive has relabelled it, the
\* status line names the machine commands run on (exec_remote.go).
THEOREM FooterCorrect == Spec => []FooterAgrees
  <1>1. FooterInv => FooterAgrees
    BY DEF FooterInv, FooterAgrees, Settled, Labels, Idle
  <1>2. Shape /\ AgreeInv /\ FooterInv /\ [Next]_vars => AgreeInv' /\ FooterInv'
    BY AgreeStep, FooterStep DEF Shape
  <1>3. QED
    BY <1>1, <1>2, AgreeInit, FooterInit, ShapeAlways, PTL DEF Spec

-----------------------------------------------------------------------------
(* The command approved by the status line.                                *)

CalmInv ==
  /\ calm /\ troubles = 0 => ctl = Idle /\ executor = MachineOf(seen)
  /\ last.calm /\ troubles = 0 => last.target = MachineOf(last.seen)

LEMMA CalmStep ==
  FooterAgrees /\ CallInv /\ CalmInv /\ [Next]_vars => CalmInv'
  <1> SUFFICES ASSUME FooterAgrees, CallInv, CalmInv, [Next]_vars PROVE CalmInv'
    OBVIOUS
  <1>1. ASSUME UNCHANGED <<ctl, executor, seen, calm, last>>, troubles' = 0 => troubles = 0
        PROVE  CalmInv'
    BY <1>1 DEF CalmInv, MachineOf
  <1>2. ASSUME calm' = FALSE, UNCHANGED <<last, troubles>> PROVE CalmInv'
    BY <1>2 DEF CalmInv, MachineOf
  <1>3. CASE User
    <2>1. CASE Approve
      <3>1. calm' = Settled /\ seen' = footer /\ UNCHANGED <<ctl, executor, troubles, last>>
        BY <2>1 DEF Approve
      <3>2. calm' => Settled
        BY <3>1, Zenon
      <3>3. Settled => ctl = Idle
        BY DEF Settled
      <3>4. calm' /\ troubles' = 0 => ctl' = Idle /\ executor' = MachineOf(seen')
        BY <3>1, <3>2, <3>3 DEF FooterAgrees, MachineOf
      <3>5. QED
        BY <3>1, <3>4 DEF CalmInv, MachineOf
    <2>2. CASE ~Approve
      BY <1>1, <1>3, <2>2 DEF User, AccessRemote, AccessLocal, AccessOffline, Chat, Type, CloseDialog,
         AcceptKey, RejectKey, GiveSecret, Dismiss
    <2>3. QED
      BY <2>1, <2>2
  <1>4. CASE Turn
    <2>1. CASE Propose
      BY <1>1, <2>1 DEF Propose, Asks
    <2>2. CASE ProposeAllowed
      BY <1>2, <2>2 DEF ProposeAllowed, Asks
    <2>3. CASE StartCommand
      <3>1. last'.calm = calm /\ last'.seen = seen /\ last'.target = executor
        BY <2>3 DEF StartCommand
      <3>2. QED
        BY <2>3, <3>1 DEF StartCommand, CalmInv, MachineOf
    <2>4. CASE CommandReturns
      BY <2>4 DEF CommandReturns, ForgetCall, NoRunYet, CalmInv
    <2>5. CASE ShowQuestion \/ EndTurn
      BY <1>1, <2>5 DEF ShowQuestion, EndTurn
    <2>6. QED
      BY <1>4, <2>1, <2>2, <2>3, <2>4, <2>5 DEF Turn
  <1>5. CASE ReportTrouble
    BY <1>5 DEF ReportTrouble, CallInv, CalmInv
  <1>6. CASE Pump \/ ProbeEnds \/ RelayReport \/ UNCHANGED vars
    BY <1>1, <1>6 DEF Pump, Arrives, ShowStatus, ShowPrompt, ShowConnected, ShowFailed, ShowCard,
       ShowReply, ProbeEnds, RelayReport
  <1>7. CASE Controller
    <2>1. CASE BeginRemote \/ BeginLocal \/ BeginOffline \/ TrustKey \/ LogIn
      BY <1>2, <2>1 DEF BeginRemote, BeginLocal, BeginOffline, TrustKey, LogIn, AnswerUntouched,
         Moves, Answers
    <2>2. CASE ConnectCached \/ ConnectFresh \/ HostKeyUnknown \/ AuthRefused \/ Unreachable
      <3>1. ctl # Idle /\ UNCHANGED <<calm, last, troubles>>
        BY <2>2 DEF ConnectCached, ConnectFresh, HostKeyUnknown, AuthRefused, Unreachable, FailConnect,
           Connecting, ConnectUntouched, Idle
      <3>2. QED
        BY <3>1 DEF CalmInv, MachineOf
    <2>3. CASE FinishConnect \/ FinishLocal \/ FinishOffline
      <3>1. ctl # Idle /\ UNCHANGED <<calm, last, troubles>>
        BY <2>3 DEF FinishConnect, FinishLocal, FinishOffline, Idle
      <3>2. QED
        BY <3>1 DEF CalmInv, MachineOf
    <2>4. CASE NothingPending("accept") \/ NothingPending("reject") \/ RefuseKey
      BY <1>1, <2>4 DEF NothingPending, RefuseKey, AnswersNothing, AnswerUntouched
    <2>5. CASE StartTurn \/ RefuseChat
      BY <1>1, <2>5 DEF StartTurn, RefuseChat
    <2>6. QED
      BY <1>7, <2>1, <2>2, <2>3, <2>4, <2>5 DEF Controller
  <1>8. QED
    BY <1>3, <1>4, <1>5, <1>6, <1>7 DEF Next

LEMMA CalmInit == Init => CalmInv
  BY DEF Init, CalmInv, NoRunYet

\* A command approved while nothing was being switched runs on the machine the
\* status line showed, unless the user has asked to switch since or a
\* keep-alive has reported (execute_command.go).
THEOREM NoSilentSwitchCorrect == Spec => []NoSilentSwitch
  <1>1. CalmInv => NoSilentSwitch
    BY DEF CalmInv, NoSilentSwitch
  <1>2. Shape /\ FooterAgrees /\ CalmInv /\ [Next]_vars => CalmInv'
    BY CalmStep DEF Shape
  <1>3. QED
    BY <1>1, <1>2, CalmInit, FooterCorrect, ShapeAlways, PTL DEF Spec

-----------------------------------------------------------------------------
(* A dialog that waits for an answer.                                      *)

KindsOf(q) == {q[i].kind : i \in DOMAIN q}

Asking == {"remote", "accept", "secret"}
Answer == {"hostKey", "auth", "done", "failed"}
AtWork == ctl.at \in {"connecting", "connected"}

BusyInv ==
  dialog.busy => AtWork \/ KindsOf(inbox) \cap Asking # {} \/ KindsOf(uiq) \cap Answer # {}

\* The automatic login is followed by its end.
AutoInv ==
  \A i \in DOMAIN uiq :
    uiq[i].kind = "auto" =>
      \/ ctl.at = "connected"
      \/ \E j \in DOMAIN uiq : j > i /\ uiq[j].kind \in Answer

LEMMA KindsAppend ==
  ASSUME NEW S, NEW q \in Seq(S), NEW x
  PROVE  KindsOf(Append(q, x)) = KindsOf(q) \cup {x.kind}
  <1>1. /\ DOMAIN Append(q, x) = DOMAIN q \cup {Len(q) + 1}
        /\ Append(q, x)[Len(q) + 1] = x
        /\ \A i \in DOMAIN q : Append(q, x)[i] = q[i]
    OBVIOUS
  <1>2. QED
    BY <1>1 DEF KindsOf

LEMMA KindsTail ==
  ASSUME NEW S, NEW q \in Seq(S), q # <<>>
  PROVE  KindsOf(q) = KindsOf(Tail(q)) \cup {Head(q).kind}
  <1>1. /\ \A i \in DOMAIN Tail(q) : i + 1 \in DOMAIN q /\ Tail(q)[i] = q[i + 1]
        /\ \A i \in DOMAIN q : i # 1 => i - 1 \in DOMAIN Tail(q) /\ Tail(q)[i - 1] = q[i]
        /\ 1 \in DOMAIN q /\ Head(q) = q[1]
    OBVIOUS
  <1>2. KindsOf(Tail(q)) \subseteq KindsOf(q) /\ Head(q).kind \in KindsOf(q)
    BY <1>1 DEF KindsOf
  <1>3. ASSUME NEW i \in DOMAIN q PROVE q[i].kind \in KindsOf(Tail(q)) \cup {Head(q).kind}
    <2>1. CASE i = 1
      BY <1>1, <2>1
    <2>2. CASE i # 1
      <3>1. i - 1 \in DOMAIN Tail(q) /\ Tail(q)[i - 1] = q[i]
        BY <1>1, <2>2
      <3>2. QED
        BY <3>1 DEF KindsOf
    <2>3. QED
      BY <2>1, <2>2
  <1>4. KindsOf(q) \subseteq KindsOf(Tail(q)) \cup {Head(q).kind}
    BY <1>3 DEF KindsOf
  <1>5. QED
    BY <1>2, <1>4

LEMMA KindsShown ==
  ASSUME TrafficInv, NEW msgs \in Seq(HostMessages), Show(msgs)
  PROVE  KindsOf(uiq') = KindsOf(uiq) \cup KindsOf(msgs)
  <1> DEFINE n == Len(uiq)
  <1>1. uiq \in Seq(HostMessages) /\ uiq' = uiq \o msgs
    BY DEF TrafficInv, Show
  <1>2. DOMAIN uiq' = 1 .. n + Len(msgs) /\ DOMAIN uiq = 1 .. n /\ DOMAIN msgs = 1 .. Len(msgs)
    BY <1>1
  <1>3. \A i \in 1 .. n : uiq'[i] = uiq[i]
    BY <1>1
  <1>4. \A i \in n + 1 .. n + Len(msgs) : i - n \in DOMAIN msgs /\ uiq'[i] = msgs[i - n]
    BY <1>1
  <1>5. \A i \in 1 .. Len(msgs) : i + n \in DOMAIN uiq' /\ uiq'[i + n] = msgs[i]
    BY <1>1
  <1>6. KindsOf(uiq') \subseteq KindsOf(uiq) \cup KindsOf(msgs)
    <2>1. ASSUME NEW i \in DOMAIN uiq' PROVE uiq'[i].kind \in KindsOf(uiq) \cup KindsOf(msgs)
      <3>1. CASE i \in 1 .. n
        BY <1>2, <1>3, <3>1 DEF KindsOf
      <3>2. CASE i \in n + 1 .. n + Len(msgs)
        BY <1>4, <3>2 DEF KindsOf
      <3>3. i \in 1 .. n \/ i \in n + 1 .. n + Len(msgs)
        BY <1>1, <1>2
      <3>4. QED
        BY <3>1, <3>2, <3>3
    <2>2. QED
      BY <2>1 DEF KindsOf
  <1>7. KindsOf(uiq) \subseteq KindsOf(uiq')
    <2>1. \A i \in DOMAIN uiq : i \in DOMAIN uiq' /\ uiq'[i] = uiq[i]
      BY <1>1
    <2>2. QED
      BY <2>1 DEF KindsOf
  <1>8. KindsOf(msgs) \subseteq KindsOf(uiq')
    BY <1>2, <1>5 DEF KindsOf
  <1>9. QED
    BY <1>6, <1>7, <1>8

\* What is told is there, and what was there stays.
LEMMA OneKind ==
  ASSUME TrafficInv, NEW k, NEW t, <<Msg(k, t)>> \in Seq(HostMessages), Show(<<Msg(k, t)>>)
  PROVE  KindsOf(uiq') = KindsOf(uiq) \cup {k}
  <1>1. KindsOf(<<Msg(k, t)>>) = {k}
    BY DEF KindsOf, Msg
  <1>2. QED
    BY <1>1, KindsShown

LEMMA TwoKinds ==
  ASSUME TrafficInv, NEW k, NEW t, NEW l, NEW u, <<Msg(k, t), Msg(l, u)>> \in Seq(HostMessages),
         Show(<<Msg(k, t), Msg(l, u)>>)
  PROVE  KindsOf(uiq') = KindsOf(uiq) \cup {k, l}
  <1>1. KindsOf(<<Msg(k, t), Msg(l, u)>>) = {k, l}
    BY DEF KindsOf, Msg
  <1>2. QED
    BY <1>1, KindsShown

LEMMA MuttersKinds == TrafficInv /\ Mutters => KindsOf(uiq) \subseteq KindsOf(uiq')
  <1> SUFFICES ASSUME TrafficInv, Mutters PROVE KindsOf(uiq) \subseteq KindsOf(uiq')
    OBVIOUS
  <1>1. CASE UNCHANGED uiq
    BY <1>1
  <1>2. ASSUME NEW k \in Quiet, NEW t \in Subjects, <<Msg(k, t)>> \in Seq(HostMessages),
               Show(<<Msg(k, t)>>)
        PROVE  KindsOf(uiq) \subseteq KindsOf(uiq')
    BY <1>2, OneKind
  <1>3. ASSUME NEW k \in Quiet, NEW l \in Quiet, NEW t \in Subjects,
               <<Msg(k, t), Msg(l, t)>> \in Seq(HostMessages), Show(<<Msg(k, t), Msg(l, t)>>)
        PROVE  KindsOf(uiq) \subseteq KindsOf(uiq')
    BY <1>3, TwoKinds
  <1>4. QED
    BY <1>1, <1>2, <1>3 DEF Mutters, Says

LEMMA TakenKind ==
  ASSUME TrafficInv, NEW k, Take(k)
  PROVE  KindsOf(inbox) = KindsOf(inbox') \cup {k} /\ ~AtWork
  BY KindsTail DEF Take, TrafficInv, AtWork, Idle

LEMMA BusyKept ==
  ASSUME BusyInv, UNCHANGED dialog, KindsOf(uiq) \subseteq KindsOf(uiq'),
         \/ AtWork'
         \/ KindsOf(uiq') \cap Answer # {}
         \/ (AtWork => AtWork') /\ KindsOf(inbox) \cap Asking \subseteq KindsOf(inbox')
  PROVE  BusyInv'
  BY DEF BusyInv

LEMMA BusyController ==
  ASSUME TrafficInv, StoresInv, BusyInv, Controller
  PROVE  BusyInv'
  <1>1. UNCHANGED dialog
    BY DEF Controller, BeginRemote, ConnectCached, ConnectFresh, HostKeyUnknown, AuthRefused,
       Unreachable, FailConnect, ConnectUntouched, FinishConnect, BeginLocal, FinishLocal, BeginOffline,
       FinishOffline, NothingPending, RefuseKey, TrustKey, LogIn, AnswersNothing, AnswerUntouched,
       StartTurn, RefuseChat
  <1>2. CASE FinishConnect
    <2>1. ctl.host \in Hosts
      BY <1>2 DEF FinishConnect, StoresInv, HostStages
    <2>2. KindsOf(uiq') = KindsOf(uiq) \cup {"status", "done"}
      BY <1>2, <2>1, Told, TwoKinds DEF FinishConnect
    <2>3. QED
      BY <1>1, <2>2, BusyKept DEF Answer
  <1>3. CASE FinishLocal \/ FinishOffline
    <2>1. KindsOf(uiq') = KindsOf(uiq) \cup {"status"}
      BY <1>3, Told, OneKind DEF FinishLocal, FinishOffline, Targets
    <2>2. ~AtWork /\ UNCHANGED inbox
      BY <1>3 DEF FinishLocal, FinishOffline, AtWork
    <2>3. KindsOf(inbox) \cap Asking \subseteq KindsOf(inbox')
      BY <2>2
    <2>4. QED
      BY <1>1, <2>1, <2>2, <2>3, BusyKept
  <1>4. CASE ~FinishConnect /\ ~FinishLocal /\ ~FinishOffline
    <2>1. KindsOf(uiq) \subseteq KindsOf(uiq')
      BY <1>4, OthersMutter, MuttersKinds
    <2>2. CASE BeginRemote
      BY <1>1, <2>1, <2>2, BusyKept DEF BeginRemote, AtWork
    <2>3. CASE ConnectCached \/ ConnectFresh
      <3>1. AtWork'
        BY <2>3 DEF ConnectCached, ConnectFresh, AtWork, StoresInv, HostStages
      <3>2. QED
        BY <1>1, <2>1, <3>1, BusyKept
    <2>4. CASE HostKeyUnknown \/ AuthRefused \/ Unreachable
      <3>1. ctl.host \in Hosts
        BY <2>4 DEF HostKeyUnknown, AuthRefused, Unreachable, FailConnect, Connecting, StoresInv, HostStages
      <3>2. \E k \in Answer : Show(<<Msg(k, ctl.host)>>) /\ <<Msg(k, ctl.host)>> \in Seq(HostMessages)
        BY <2>4, <3>1, Told DEF HostKeyUnknown, AuthRefused, Unreachable, FailConnect, Answer
      <3>3. KindsOf(uiq') \cap Answer # {}
        BY <3>2, OneKind
      <3>4. QED
        BY <1>1, <2>1, <3>3, BusyKept
    <2>5. CASE NothingPending("accept")
      <3>1. Head(inbox).host \in Hosts \cup {None}
        BY <2>5, Taken DEF NothingPending
      <3>2. KindsOf(uiq') = KindsOf(uiq) \cup {"failed"}
        BY <2>5, <3>1, Told, OneKind DEF NothingPending
      <3>3. QED
        BY <1>1, <2>1, <3>2, BusyKept DEF Answer
    <2>6. CASE TrustKey
      <3>1. pending \in Hosts
        BY <2>6 DEF TrustKey, StoresInv
      <3>2. CASE ctl' = [at |-> "connected", host |-> pending]
        BY <1>1, <2>1, <3>2, BusyKept DEF AtWork
      <3>3. CASE Show(<<Msg("auth", pending), Msg("failed", pending)>>)
        <4>1. KindsOf(uiq') = KindsOf(uiq) \cup {"auth", "failed"}
          BY <3>1, <3>3, Told, TwoKinds
        <4>2. QED
          BY <1>1, <2>1, <4>1, BusyKept DEF Answer
      <3>4. QED
        BY <2>6, <3>2, <3>3 DEF TrustKey
    <2>7. CASE LogIn
      <3>1. Head(inbox).host \in Hosts
        BY <2>7, Taken DEF LogIn
      <3>2. CASE ctl' = [at |-> "connected", host |-> Head(inbox).host]
        BY <1>1, <2>1, <3>2, BusyKept DEF AtWork
      <3>3. CASE Show(<<Msg("auth", Head(inbox).host)>>)
        <4>1. KindsOf(uiq') = KindsOf(uiq) \cup {"auth"}
          BY <3>1, <3>3, Told, OneKind
        <4>2. QED
          BY <1>1, <2>1, <4>1, BusyKept DEF Answer
      <3>4. QED
        BY <2>7, <3>2, <3>3 DEF LogIn
    <2>8. CASE \E k \in {"local", "offline", "chat", "reject"} : Take(k)
      <3>1. ~AtWork /\ KindsOf(inbox) \cap Asking \subseteq KindsOf(inbox')
        BY <2>8, TakenKind DEF Asking
      <3>2. QED
        BY <1>1, <2>1, <3>1, BusyKept
    <2>9. CASE BeginLocal \/ BeginOffline \/ StartTurn \/ RefuseChat \/ RefuseKey \/ NothingPending("reject")
      BY <2>8, <2>9 DEF BeginLocal, BeginOffline, StartTurn, RefuseChat, RefuseKey, NothingPending
    <2>10. QED
      BY <1>4, <2>2, <2>3, <2>4, <2>5, <2>6, <2>7, <2>9 DEF Controller
  <1>5. QED
    BY <1>2, <1>3, <1>4

LEMMA BusyUser == ASSUME TrafficInv, BusyInv, User PROVE BusyInv'
  <1>1. CASE CloseDialog \/ RejectKey
    BY <1>1 DEF CloseDialog, RejectKey, NoDialog, Dialog, BusyInv
  <1>2. ASSUME NEW x \in [kind : InputKinds, host : Hosts \cup {None}], inbox' = Append(inbox, x),
               UNCHANGED <<uiq, ctl>>, x.kind \in Asking \/ UNCHANGED dialog
        PROVE  BusyInv'
    <2>1. inbox \in Seq(HostInputs)
      BY DEF TrafficInv
    <2>2. KindsOf(inbox') = KindsOf(inbox) \cup {x.kind}
      <3>1. HostInputs \subseteq Inputs
        BY DEF HostInputs
      <3>2. inbox \in Seq(Inputs)
        BY <2>1, <3>1
      <3>3. x \in Inputs
        BY DEF Inputs
      <3>4. QED
        BY <1>2, <3>2, <3>3, KindsAppend
    <2>3. KindsOf(uiq') = KindsOf(uiq) /\ (AtWork => AtWork')
      BY <1>2 DEF AtWork
    <2>4. QED
      BY <1>2, <2>2, <2>3 DEF BusyInv
  <1>3. CASE AccessRemote \/ AccessLocal \/ AccessOffline \/ Chat
    <2>1. ASSUME NEW k \in InputKinds, NEW h \in Hosts \cup {None}, Type(In(k, h)),
                 k = "remote" \/ UNCHANGED dialog
          PROVE  BusyInv'
      <3>1. In(k, h) \in [kind : InputKinds, host : Hosts \cup {None}] /\ In(k, h).kind = k
        BY DEF In
      <3>2. inbox' = Append(inbox, In(k, h)) /\ UNCHANGED <<uiq, ctl>>
        BY <2>1 DEF Type
      <3>3. QED
        BY <1>2, <2>1, <3>1, <3>2 DEF Asking
    <2>2. {"remote", "local", "offline", "chat"} \subseteq InputKinds
      BY DEF InputKinds, SwitchKinds
    <2>3. CASE AccessRemote
      BY <2>1, <2>2, <2>3 DEF AccessRemote
    <2>4. CASE AccessLocal \/ AccessOffline \/ Chat
      BY <2>1, <2>2, <2>4 DEF AccessLocal, AccessOffline, Chat
    <2>5. QED
      BY <1>3, <2>3, <2>4
  <1>4. CASE AcceptKey \/ GiveSecret
    <2>1. dialog.host \in Hosts \cup {None}
      BY DEF TrafficInv, HostDialogs, Dialogs
    <2>2. PICK k \in {"accept", "secret"} : inbox' = Append(inbox, In(k, dialog.host))
      BY <1>4 DEF AcceptKey, GiveSecret
    <2>3. In(k, dialog.host) \in [kind : InputKinds, host : Hosts \cup {None}]
          /\ In(k, dialog.host).kind \in Asking
      BY <2>1 DEF In, InputKinds, SwitchKinds, Asking
    <2>4. QED
      BY <1>2, <1>4, <2>2, <2>3 DEF AcceptKey, GiveSecret
  <1>5. CASE Approve \/ Dismiss
    <2>1. UNCHANGED <<inbox, uiq, dialog, ctl>>
      BY <1>5 DEF Approve, Dismiss
    <2>2. QED
      BY <2>1 DEF BusyInv, AtWork, KindsOf
  <1>6. QED
    BY <1>1, <1>3, <1>4, <1>5 DEF User

LEMMA BusyPump == ASSUME TrafficInv, BusyInv, AutoInv, Pump PROVE BusyInv'
  <1>1. uiq # <<>> /\ uiq' = Tail(uiq) /\ UNCHANGED <<inbox, ctl>> /\ uiq \in Seq(HostMessages)
    BY DEF Pump, Arrives, ShowStatus, ShowPrompt, ShowConnected, ShowFailed, ShowCard, ShowReply, TrafficInv
  <1>2. KindsOf(uiq) = KindsOf(uiq') \cup {Head(uiq).kind}
    BY <1>1, KindsTail
  <1>3. (AtWork => AtWork') /\ KindsOf(inbox') = KindsOf(inbox)
    BY <1>1 DEF AtWork
  <1>4. CASE ShowStatus \/ ShowCard \/ ShowReply
    <2>1. Head(uiq).kind \notin Answer /\ UNCHANGED dialog
      BY <1>4 DEF ShowStatus, ShowCard, ShowReply, Arrives, Answer
    <2>2. QED
      BY <1>2, <1>3, <2>1 DEF BusyInv
  <1>5. CASE ShowConnected
    BY <1>5 DEF ShowConnected, NoDialog, Dialog, BusyInv
  <1>6. CASE ShowFailed
    <2>1. dialog'.busy = FALSE
      BY <1>6 DEF ShowFailed, TrafficInv, HostDialogs, Dialogs
    <2>2. QED
      BY <2>1 DEF BusyInv
  <1>7. CASE ShowPrompt
    <2>1. dialog' = Dialog(Head(uiq).kind, Head(uiq).target, Head(uiq).kind = "auto")
      BY <1>7 DEF ShowPrompt
    <2>2. CASE Head(uiq).kind # "auto"
      <3>1. ~dialog'.busy
        BY <2>1, <2>2 DEF Dialog
      <3>2. QED
        BY <3>1 DEF BusyInv
    <2>3. CASE Head(uiq).kind = "auto"
      <3>1. 1 \in DOMAIN uiq /\ uiq[1] = Head(uiq)
        BY <1>1
      <3>2. CASE ctl.at = "connected"
        BY <1>3, <3>2 DEF AtWork, BusyInv
      <3>3. ASSUME NEW j \in DOMAIN uiq, j > 1, uiq[j].kind \in Answer PROVE BusyInv'
        <4>1. uiq[j].kind \in KindsOf(uiq) /\ uiq[j].kind # "auto"
          BY <3>3 DEF KindsOf, Answer
        <4>2. uiq[j].kind \in KindsOf(uiq') \cap Answer
          BY <1>2, <2>3, <3>3, <4>1
        <4>3. QED
          BY <4>2 DEF BusyInv
      <3>4. QED
        BY <2>3, <3>1, <3>2, <3>3 DEF AutoInv
    <2>4. QED
      BY <2>2, <2>3
  <1>8. QED
    BY <1>4, <1>5, <1>6, <1>7 DEF Pump

LEMMA BusyStep ==
  TrafficInv /\ StoresInv /\ BusyInv /\ AutoInv /\ [Next]_vars => BusyInv'
  <1> SUFFICES ASSUME TrafficInv, StoresInv, BusyInv, AutoInv, [Next]_vars PROVE BusyInv'
    OBVIOUS
  <1>1. ASSUME UNCHANGED <<inbox, dialog, ctl>>, KindsOf(uiq) \subseteq KindsOf(uiq') PROVE BusyInv'
    BY <1>1 DEF BusyInv, AtWork
  <1>2. CASE Turn
    <2>1. KindsOf(uiq) \subseteq KindsOf(uiq')
      BY <1>2, OthersMutter, MuttersKinds
    <2>2. QED
      BY <1>1, <1>2, <2>1 DEF Turn, Propose, ProposeAllowed, Asks, ShowQuestion, StartCommand,
         CommandReturns, EndTurn
  <1>3. CASE ProbeEnds \/ ReportTrouble \/ UNCHANGED vars
    <2>1. UNCHANGED <<inbox, uiq, dialog, ctl>>
      BY <1>3 DEF ProbeEnds, ReportTrouble
    <2>2. QED
      BY <1>1, <2>1
  <1>4. CASE RelayReport
    <2>1. Head(reports) \in Targets
      BY <1>4 DEF RelayReport, TrafficInv
    <2>2. KindsOf(uiq') = KindsOf(uiq) \cup {"report"}
      BY <1>4, <2>1, Told, OneKind DEF RelayReport
    <2>3. QED
      BY <1>1, <1>4, <2>2 DEF RelayReport
  <1>5. QED
    BY <1>2, <1>3, <1>4, BusyController, BusyUser, BusyPump DEF Next

\* More messages leave an automatic login as it was, unless they are one.
LEMMA AutoKept ==
  ASSUME TrafficInv, AutoInv, NEW msgs \in Seq(HostMessages), Show(msgs),
         ctl.at = "connected" =>
           ctl'.at = "connected" \/ \E i \in DOMAIN msgs : msgs[i].kind \in Answer,
         \A i \in DOMAIN msgs : msgs[i].kind = "auto" => ctl'.at = "connected"
  PROVE  AutoInv'
  <1> DEFINE n == Len(uiq)
  <1>1. uiq \in Seq(HostMessages) /\ uiq' = uiq \o msgs /\ n \in Nat
    BY DEF TrafficInv, Show
  <1>2. DOMAIN uiq = 1 .. n /\ DOMAIN msgs = 1 .. Len(msgs) /\ Len(msgs) \in Nat
    BY <1>1
  <1>3. \A i \in 1 .. n : i \in DOMAIN uiq' /\ uiq'[i] = uiq[i]
    BY <1>1
  <1>4. \A i \in DOMAIN uiq' : i \in 1 .. n \/ (i - n \in DOMAIN msgs /\ uiq'[i] = msgs[i - n])
    <2>1. DOMAIN uiq' = 1 .. n + Len(msgs)
      BY <1>1
    <2>2. \A i \in n + 1 .. n + Len(msgs) : i - n \in DOMAIN msgs /\ uiq'[i] = msgs[i - n]
      BY <1>1
    <2>3. \A i \in 1 .. n + Len(msgs) : i \in 1 .. n \/ i \in n + 1 .. n + Len(msgs)
      BY <1>1, <1>2
    <2>4. ASSUME NEW i \in DOMAIN uiq', ~(i \in 1 .. n)
          PROVE  i - n \in DOMAIN msgs /\ uiq'[i] = msgs[i - n]
      <3>1. i \in 1 .. n + Len(msgs)
        BY <2>1, <2>4
      <3>2. i \in n + 1 .. n + Len(msgs)
        BY <2>3, <2>4, <3>1
      <3>3. QED
        BY <2>2, <3>2
    <2>5. QED
      BY <2>4
  <1>5. \A i \in 1 .. Len(msgs) : i + n \in DOMAIN uiq' /\ uiq'[i + n] = msgs[i]
    BY <1>1
  <1>6. SUFFICES ASSUME NEW i \in DOMAIN uiq', uiq'[i].kind = "auto", ctl'.at # "connected"
                 PROVE  \E j \in DOMAIN uiq' : j > i /\ uiq'[j].kind \in Answer
    BY DEF AutoInv
  <1>7. i \in 1 .. n /\ uiq[i].kind = "auto"
    BY <1>3, <1>4, <1>6
  <1>8. CASE ctl.at = "connected"
    <2>1. PICK j \in DOMAIN msgs : msgs[j].kind \in Answer
      BY <1>6, <1>8
    <2>2. j + n \in DOMAIN uiq' /\ uiq'[j + n].kind \in Answer /\ j + n > i
      BY <1>1, <1>2, <1>5, <1>7, <2>1
    <2>3. QED
      BY <2>2
  <1>9. CASE ctl.at # "connected"
    <2>1. PICK j \in DOMAIN uiq : j > i /\ uiq[j].kind \in Answer
      BY <1>2, <1>7, <1>9 DEF AutoInv
    <2>2. QED
      BY <1>2, <1>3, <2>1
  <1>10. QED
    BY <1>8, <1>9

LEMMA AutoPlain ==
  ASSUME TrafficInv, AutoInv, Says(Plain), ctl.at = "connected" => ctl'.at = "connected"
  PROVE  AutoInv'
  <1>1. CASE UNCHANGED uiq
    BY <1>1 DEF AutoInv
  <1>2. ASSUME NEW k \in Plain, NEW t \in Subjects, <<Msg(k, t)>> \in Seq(HostMessages),
               Show(<<Msg(k, t)>>)
        PROVE  AutoInv'
    <2>1. \A i \in DOMAIN <<Msg(k, t)>> : <<Msg(k, t)>>[i].kind = k
      BY DEF Msg
    <2>2. QED
      BY <1>2, <2>1, AutoKept DEF Plain
  <1>3. ASSUME NEW k \in Plain, NEW l \in Plain, NEW t \in Subjects,
               <<Msg(k, t), Msg(l, t)>> \in Seq(HostMessages), Show(<<Msg(k, t), Msg(l, t)>>)
        PROVE  AutoInv'
    <2>1. \A i \in DOMAIN <<Msg(k, t), Msg(l, t)>> : <<Msg(k, t), Msg(l, t)>>[i].kind \in {k, l}
      BY DEF Msg
    <2>2. QED
      BY <1>3, <2>1, AutoKept DEF Plain
  <1>4. QED
    BY <1>1, <1>2, <1>3 DEF Says

LEMMA AutoConnects ==
  ASSUME TrafficInv, StoresInv, AutoInv, Controller PROVE AutoInv'
  <1>1. CASE ConnectFresh
    <2>1. ctl.at = "connecting" /\ ctl'.at = "connected" /\ ctl.host \in Hosts
      BY <1>1 DEF ConnectFresh, Connecting, StoresInv, HostStages
    <2>2. QED
      BY <2>1 DEF AutoInv
  <1>2. CASE FinishConnect
    <2>1. DEFINE msgs == <<Msg("status", ctl.host), Msg("done", ctl.host)>>
    <2>2. ctl.host \in Hosts
      BY <1>2 DEF FinishConnect, StoresInv, HostStages
    <2>3. msgs \in Seq(HostMessages) /\ Show(msgs)
      BY <1>2, <2>2, Told DEF FinishConnect
    <2>4. 2 \in DOMAIN msgs /\ msgs[2].kind \in Answer
      BY DEF Msg, Answer
    <2>5. \A i \in DOMAIN msgs : msgs[i].kind # "auto"
      BY DEF Msg
    <2> HIDE DEF msgs
    <2>6. QED
      BY <2>3, <2>4, <2>5, AutoKept
  <1>3. CASE FinishLocal \/ FinishOffline
    <2>1. PICK t \in Targets : Show(<<Msg("status", t)>>) /\ <<Msg("status", t)>> \in Seq(HostMessages)
      BY <1>3, Told DEF FinishLocal, FinishOffline, Targets
    <2>2. \A i \in DOMAIN <<Msg("status", t)>> : <<Msg("status", t)>>[i].kind # "auto"
      BY DEF Msg
    <2>3. ctl.at # "connected"
      BY <1>3 DEF FinishLocal, FinishOffline
    <2>4. QED
      BY <2>1, <2>2, <2>3, AutoKept
  <1>4. CASE Controller /\ ~ConnectFresh /\ ~FinishConnect /\ ~FinishLocal /\ ~FinishOffline
    <2>1. Says(Plain)
      BY <1>4, OthersMutter
    <2>2. ctl.at = "connected" => ctl'.at = "connected"
      BY <1>4 DEF Controller, BeginRemote, ConnectCached, HostKeyUnknown, AuthRefused, Unreachable,
         FailConnect, Connecting, BeginLocal, BeginOffline, NothingPending, RefuseKey, TrustKey, LogIn,
         StartTurn, RefuseChat, Take, Idle
    <2>3. QED
      BY <2>1, <2>2, AutoPlain
  <1>5. QED
    BY <1>1, <1>2, <1>3, <1>4

LEMMA AutoStep == TrafficInv /\ StoresInv /\ AutoInv /\ [Next]_vars => AutoInv'
  <1> SUFFICES ASSUME TrafficInv, StoresInv, AutoInv, [Next]_vars PROVE AutoInv'
    OBVIOUS
  <1>1. CASE User \/ ProbeEnds \/ ReportTrouble \/ UNCHANGED vars
    <2>1. UNCHANGED <<uiq, ctl>>
      BY <1>1 DEF User, AccessRemote, AccessLocal, AccessOffline, Chat, Type, CloseDialog, AcceptKey,
         RejectKey, GiveSecret, Approve, Dismiss, ProbeEnds, ReportTrouble
    <2>2. QED
      BY <2>1 DEF AutoInv
  <1>2. CASE Turn
    <2>1. UNCHANGED ctl
      BY <1>2, OthersSwitchNothing DEF Others
    <2>2. ~ConnectFresh
      BY <1>2, <2>1 DEF ConnectFresh, Connecting, StoresInv, HostStages
    <2>3. QED
      BY <1>2, <2>1, <2>2, OthersMutter, AutoPlain
  <1>3. CASE Pump
    <2>1. uiq # <<>> /\ uiq' = Tail(uiq) /\ UNCHANGED ctl /\ uiq \in Seq(HostMessages)
      BY <1>3 DEF Pump, Arrives, ShowStatus, ShowPrompt, ShowConnected, ShowFailed, ShowCard, ShowReply,
         TrafficInv
    <2>2. \A i \in DOMAIN uiq' : i \in Nat /\ i > 0 /\ i + 1 \in DOMAIN uiq /\ uiq'[i] = uiq[i + 1]
      BY <2>1
    <2>3. \A j \in DOMAIN uiq : j > 1 => j - 1 \in DOMAIN uiq' /\ uiq'[j - 1] = uiq[j]
      BY <2>1
    <2>4. SUFFICES ASSUME NEW i \in DOMAIN uiq', uiq'[i].kind = "auto", ctl.at # "connected"
                   PROVE  \E j \in DOMAIN uiq' : j > i /\ uiq'[j].kind \in Answer
      BY <2>1 DEF AutoInv
    <2>5. PICK j \in DOMAIN uiq : j > i + 1 /\ uiq[j].kind \in Answer
      BY <2>2, <2>4 DEF AutoInv
    <2>6. j \in Nat /\ i \in Nat /\ i > 0
      BY <2>1, <2>2
    <2>7. j - 1 \in DOMAIN uiq' /\ uiq'[j - 1].kind \in Answer /\ j - 1 > i
      BY <2>3, <2>5, <2>6
    <2>8. QED
      BY <2>7
  <1>4. CASE RelayReport
    <2>1. Head(reports) \in Targets
      BY <1>4 DEF RelayReport, TrafficInv
    <2>2. \A i \in DOMAIN <<Msg("report", Head(reports))>> :
            <<Msg("report", Head(reports))>>[i].kind # "auto"
      BY DEF Msg
    <2>3. QED
      BY <1>4, <2>1, <2>2, Told, AutoKept DEF RelayReport
  <1>5. QED
    BY <1>1, <1>2, <1>3, <1>4, AutoConnects DEF Next

LEMMA BusyInit == Init => BusyInv /\ AutoInv
  BY DEF Init, BusyInv, AutoInv, NoDialog, Dialog

\* While a dialog says "Connecting..." an answer is on its way to it: in the
\* inbox, in the hands of the controller, or among the messages to the UI
\* (exec_remote.go, the overlays of internal/ui).
THEOREM BusyCorrect == Spec => []BusyIsAnswered
  <1>1. BusyInv => BusyIsAnswered
    BY DEF BusyInv, BusyIsAnswered, AtWork, Idle, KindsOf, Asking, Answer
  <1>2. Shape /\ BusyInv /\ AutoInv /\ [Next]_vars => BusyInv' /\ AutoInv'
    BY BusyStep, AutoStep DEF Shape
  <1>3. QED
    BY <1>1, <1>2, BusyInit, ShapeAlways, PTL DEF Spec
=============================================================================
