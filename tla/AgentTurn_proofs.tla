--------------------------- MODULE AgentTurn_proofs ---------------------------
(***************************************************************************)
(* Proofs about AgentTurn, for every value of its constants: its types,    *)
(* that no command runs without the consent it needs, that the session     *)
(* file has the decision first, and that a card on screen is the question  *)
(* its agent is blocked on.  Then, that one turn runs at a time and the    *)
(* controller's bookkeeping always names it, and that no question to the   *)
(* user is lost as long as the user does not leave for /bash.              *)
(***************************************************************************)
EXTENDS AgentTurnInv, TLAPS

USE DEF host, screen, loop, chat, turn, cancels, request, decisions, agent, vars

\* A message of a known kind about a known request is a message.
LEMMA MsgType ==
  ASSUME NEW k \in Kinds, NEW q \in (0 .. MaxChats) \X (0 .. MaxCalls)
  PROVE  Msg(k, q) \in Messages
  BY DEF Msg, Messages

\* An empty card slot holds a message too.
LEMMA NoCardType == NoCard \in Messages
  BY BoundsAssumption DEF NoCard, Plain, Msg, Messages, Kinds

\* Sending on a channel keeps its type.
LEMMA QueueStep ==
  ASSUME NEW S, NEW s \in Seq(S), NEW m \in S
  PROVE  Append(s, m) \in Seq(S)
  OBVIOUS

\* What is received from a channel has its type, and so has what stays.
LEMMA QueueHead ==
  ASSUME NEW S, NEW s \in Seq(S), s # <<>>
  PROVE  Head(s) \in S /\ Tail(s) \in Seq(S)
  OBVIOUS

\* The state before the first key is well typed.
LEMMA InitTypeOK == Init => TypeOK
  <1> SUFFICES ASSUME Init PROVE TypeOK
    OBVIOUS
  <1> USE DEF Init
  <1>1. HostTypeOK
    BY DEF HostTypeOK, NoRun
  <1>2. ChannelsTypeOK
    BY DEF ChannelsTypeOK
  <1>3. ScreenTypeOK
    BY NoCardType DEF ScreenTypeOK
  <1>4. TurnTypeOK
    BY BoundsAssumption DEF TurnTypeOK, PCs, Runs
  <1>5. RequestTypeOK
    BY DEF RequestTypeOK
  <1>6. QED
    BY <1>1, <1>2, <1>3, <1>4, <1>5 DEF TypeOK

(* The parts of the type invariant, one after the other.                   *)

\* The controller's fields: only StartTurn and HandleDone write them.
LEMMA HostTypeStep == TypeOK /\ [Next]_vars => HostTypeOK'
  <1> SUFFICES ASSUME TypeOK, [Next]_vars PROVE HostTypeOK'
    OBVIOUS
  <1>1. CASE StartTurn
    <2>1. Head(bus) \in Messages
      BY <1>1, QueueHead DEF StartTurn, Event, TypeOK, ChannelsTypeOK
    <2>2. Head(bus).req[1] \in Runs \cup {NoRun}
      BY <2>1, BoundsAssumption DEF Messages, Runs, NoRun
    <2>3. QED
      BY <1>1, <2>2 DEF StartTurn, HostTypeOK
  <1>2. CASE HandleDone
    BY <1>2 DEF HandleDone, HostTypeOK
  <1>3. CASE UNCHANGED host
    BY <1>3 DEF TypeOK, HostTypeOK
  <1>4. CASE User
    BY <1>3, <1>4 DEF User, Submit, EscCancelCommand, EscCancelTurn, Approve, Dismiss, SubmitGuidance,
       AnswerApproval, ToggleGuidance, SubmitPaste, EscCancelPaste, AnswerPaste, Refuse, RunAndStore,
       RunNoStore, AnswerSensitive, Bash, CtrlC, BashReturns
  <1>5. CASE ProgramEnds \/ Pump \/ Bridge
    BY <1>3, <1>5 DEF ProgramEnds, Pump, ShowCard, ShowExecuting, ShowReply, DropMessage, Deliver, Bridge
  <1>6. CASE RelayCommand \/ RelaySnapshot \/ RejectChat \/ HandleCancel \/ PresentAgentUI
    BY <1>3, <1>6 DEF RelayCommand, RelaySnapshot, RejectChat, HandleCancel, PresentAgentUI
  <1>7. CASE \E r \in Runs : Agent(r)
    BY <1>3, <1>7 DEF Agent, Propose, Tool, ReceiveApproval, ReceivePaste, Register, SyncFails,
       PushExecuting, Launch, Finish, Record, PopExecuting, Unregister, ToolsDone, Reply, Outside
  <1>8. QED
    BY <1>1, <1>2, <1>3, <1>4, <1>5, <1>6, <1>7 DEF Next, Host

queues == <<cmds, bus, agentq, uiq>>

\* Every action sends messages, over the channels it sends them on.
LEMMA ChannelsTypeStep == TypeOK /\ [Next]_vars => ChannelsTypeOK'
  <1> SUFFICES ASSUME TypeOK, [Next]_vars PROVE ChannelsTypeOK'
    OBVIOUS
  <1>0. ChannelsTypeOK /\ card \in Messages
    BY DEF TypeOK, ScreenTypeOK
  <1>a. \A q \in Requests : \A k \in CardKinds : Msg(k, q) \in Messages
    <2> SUFFICES ASSUME NEW q \in Requests, NEW k \in CardKinds PROVE Msg(k, q) \in Messages
      OBVIOUS
    <2>1. q \in (0 .. MaxChats) \X (0 .. MaxCalls)
      BY BoundsAssumption DEF Requests, Runs
    <2>2. QED
      BY <2>1, MsgType DEF Kinds, AgentKinds
  <1>b. \A k \in Kinds : Plain(k) \in Messages
    BY BoundsAssumption, MsgType DEF Plain
  <1>c. \A r \in Runs, k \in {"chat", "done"} : Msg(k, <<r, 0>>) \in Messages
    BY BoundsAssumption, MsgType DEF Kinds, CmdKinds, Runs
  <1>1. CASE UNCHANGED queues
    BY <1>0, <1>1 DEF ChannelsTypeOK, queues
  <1>2. CASE User
    <2>1. CASE Submit
      <3>1. chats + 1 \in Runs
        BY <2>1, BoundsAssumption DEF Submit, TypeOK, TurnTypeOK, Runs
      <3>2. QED
        BY <1>0, <1>c, <2>1, <3>1, QueueStep DEF Submit, Send, ChannelsTypeOK
    <2>2. CASE EscCancelCommand \/ EscCancelTurn \/ Bash
      BY <1>0, <1>b, <2>2, QueueStep
      DEF EscCancelCommand, EscCancelTurn, Bash, Send, TrySend, ChannelsTypeOK, Kinds, CmdKinds
    <2>3. CASE Refuse \/ RunAndStore \/ RunNoStore
      <3>1. PICK choice : AnswerSensitive(choice)
        BY <2>3 DEF Refuse, RunAndStore, RunNoStore
      <3>2. card.req \in (0 .. MaxChats) \X (0 .. MaxCalls)
        BY <1>0 DEF Messages
      <3>3. Msg("paste", card.req) \in Messages
        BY <3>2, MsgType DEF Kinds, AgentKinds, CardKinds
      <3>4. agentq' \in Seq(Messages)
        BY <1>0, <3>1, <3>3, QueueStep DEF AnswerSensitive, ChannelsTypeOK
      <3>5. QED
        BY <1>0, <3>1, <3>4 DEF AnswerSensitive, ChannelsTypeOK
    <2>4. QED
      BY <1>1, <1>2, <2>1, <2>2, <2>3 DEF User, Approve, Dismiss, SubmitGuidance, AnswerApproval,
         ToggleGuidance, SubmitPaste, EscCancelPaste, AnswerPaste, CtrlC, BashReturns, queues
  <1>3. CASE ProgramEnds \/ Pump \/ Bridge
    BY <1>0, <1>1, <1>3, QueueStep, QueueHead DEF ProgramEnds, Pump, ShowCard, ShowExecuting, ShowReply,
       DropMessage, Deliver, Bridge, ChannelsTypeOK, queues
  <1>4. CASE Host
    <2>1. CASE RelayCommand \/ RelaySnapshot
      BY <1>0, <2>1, QueueStep, QueueHead DEF RelayCommand, RelaySnapshot, Published, ChannelsTypeOK
    <2>2. CASE RejectChat \/ StartTurn \/ HandleCancel \/ PresentAgentUI \/ HandleDone
      <3>1. bus # <<>> /\ bus' = Tail(bus) /\ UNCHANGED <<cmds, agentq>>
        BY <2>2 DEF RejectChat, StartTurn, HandleCancel, PresentAgentUI, HandleDone, Event
      <3>2. Head(bus) \in Messages /\ bus' \in Seq(Messages)
        BY <1>0, <3>1, QueueHead DEF ChannelsTypeOK
      <3>3. uiq' \in Seq(Messages)
        BY <1>0, <1>b, <2>2, <3>2, QueueStep
        DEF RejectChat, StartTurn, HandleCancel, PresentAgentUI, HandleDone, ChannelsTypeOK, Kinds
      <3>4. QED
        BY <1>0, <3>1, <3>2, <3>3 DEF ChannelsTypeOK
    <2>3. QED
      BY <1>4, <2>1, <2>2 DEF Host
  <1>5. ASSUME NEW r \in Runs, Agent(r) PROVE ChannelsTypeOK'
    <2>1. CASE \E cmd \in Commands : Propose(r, cmd)
      <3>1. <<r, call[r] + 1>> \in Requests
        BY <2>1, BoundsAssumption DEF Propose, CallsLeft, TypeOK, TurnTypeOK, Requests, Runs
      <3>2. PICK label : Enter(r, <<r, call[r] + 1>>, label)
        BY <2>1 DEF Propose
      <3>3. agentq' \in Seq(Messages)
        BY <1>0, <1>a, <3>1, <3>2, QueueStep DEF Enter, ChannelsTypeOK
      <3>4. QED
        BY <1>0, <2>1, <3>3 DEF Propose, Outside, ChannelsTypeOK
    <2>2. CASE ReceiveApproval(r)
      <3>1. Current(r) \in (0 .. MaxChats) \X (0 .. MaxCalls)
        BY BoundsAssumption DEF TypeOK, TurnTypeOK, Current, Runs
      <3>2. \A k \in CardKinds : Msg(k, Current(r)) \in Messages
        BY <3>1, MsgType DEF Kinds, AgentKinds
      <3>3. agentq' \in Seq(Messages)
        BY <1>0, <2>2, <3>2, QueueStep DEF ReceiveApproval, Enter, ChannelsTypeOK
      <3>4. QED
        BY <1>0, <2>2, <3>3 DEF ReceiveApproval, Outside, ChannelsTypeOK
    <2>3. CASE PushExecuting(r) \/ PopExecuting(r)
      BY <1>0, <1>b, <2>3, QueueStep
      DEF PushExecuting, PopExecuting, Outside, ChannelsTypeOK, Kinds, AgentKinds
    <2>4. CASE Reply(r)
      BY <1>0, <1>c, <2>4, QueueStep DEF Reply, Outside, ChannelsTypeOK
    <2>5. QED
      BY <1>1, <1>5, <2>1, <2>2, <2>3, <2>4 DEF Agent, Tool, ReceivePaste, Register, SyncFails,
         Launch, Finish, Record, Unregister, ToolsDone, Outside, queues
  <1>6. QED
    BY <1>1, <1>2, <1>3, <1>4, <1>5 DEF Next, queues

\* The UI model and the loop around it.
LEMMA ScreenTypeStep == TypeOK /\ [Next]_vars => ScreenTypeOK'
  <1> SUFFICES ASSUME TypeOK, [Next]_vars PROVE ScreenTypeOK'
    OBVIOUS
  <1>0. ScreenTypeOK
    BY DEF TypeOK
  <1>1. CASE UNCHANGED <<screen, loop>>
    BY <1>0, <1>1 DEF ScreenTypeOK
  <1>2. CASE User
    BY <1>0, <1>2, NoCardType DEF ScreenTypeOK, User, Submit, EscCancelCommand, EscCancelTurn, Approve,
       Dismiss, SubmitGuidance, AnswerApproval, ToggleGuidance, SubmitPaste, EscCancelPaste, AnswerPaste,
       Refuse, RunAndStore, RunNoStore, AnswerSensitive, Bash, CtrlC, BashReturns
  <1>3. CASE Pump
    <2>1. uiq # <<>>
      BY <1>3 DEF Pump, ShowCard, ShowExecuting, ShowReply, DropMessage, Deliver
    <2>2. Head(uiq) \in Messages
      BY <2>1, QueueHead DEF TypeOK, ChannelsTypeOK
    <2>3. QED
      BY <1>0, <1>3, <2>2 DEF ScreenTypeOK, Pump, ShowCard, ShowExecuting, ShowReply, DropMessage, Deliver
  <1>4. CASE ProgramEnds \/ Bridge \/ RelayCommand \/ RelaySnapshot
    BY <1>0, <1>4, NoCardType DEF ScreenTypeOK, ProgramEnds, Bridge, RelayCommand, RelaySnapshot
  <1>5. CASE RejectChat \/ StartTurn \/ HandleCancel \/ PresentAgentUI \/ HandleDone
    BY <1>1, <1>5 DEF RejectChat, StartTurn, HandleCancel, PresentAgentUI, HandleDone, Event
  <1>6. CASE \E r \in Runs : Agent(r)
    BY <1>1, <1>6 DEF Agent, Propose, Tool, ReceiveApproval, ReceivePaste, Register, SyncFails,
       PushExecuting, Launch, Finish, Record, PopExecuting, Unregister, ToolsDone, Reply, Outside
  <1>7. QED
    BY <1>1, <1>2, <1>3, <1>4, <1>5, <1>6 DEF Next, Host

\* The chats, the agent goroutines and the two levels of cancellation.
LEMMA TurnTypeStep == TypeOK /\ [Next]_vars => TurnTypeOK'
  <1> SUFFICES ASSUME TypeOK, [Next]_vars PROVE TurnTypeOK'
    OBVIOUS
  <1>0. TurnTypeOK
    BY DEF TypeOK
  <1>1. CASE UNCHANGED <<chat, turn, cancels>>
    BY <1>0, <1>1 DEF TurnTypeOK
  <1>2. CASE Submit
    BY <1>0, <1>2, BoundsAssumption DEF Submit, TurnTypeOK, Runs
  <1>3. CASE Refuse \/ RunAndStore \/ RunNoStore
    BY <1>0, <1>3 DEF Refuse, RunAndStore, RunNoStore, AnswerSensitive, AfterSensitive, TurnTypeOK, PCs
  <1>4. CASE User
    BY <1>1, <1>2, <1>3, <1>4 DEF User, EscCancelCommand, EscCancelTurn, Approve,
       Dismiss, SubmitGuidance, AnswerApproval, ToggleGuidance, SubmitPaste, EscCancelPaste, AnswerPaste,
       Bash, CtrlC, BashReturns
  <1>5. CASE ProgramEnds \/ Pump \/ Bridge \/ RelayCommand \/ RelaySnapshot \/ RejectChat \/ PresentAgentUI
    BY <1>1, <1>5 DEF ProgramEnds, Pump, ShowCard, ShowExecuting, ShowReply, DropMessage, Deliver, Bridge,
       RelayCommand, RelaySnapshot, RejectChat, PresentAgentUI, Event
  <1>6. CASE StartTurn
    BY <1>0, <1>6 DEF StartTurn, Event, TurnTypeOK, PCs
  <1>7. CASE HandleCancel \/ HandleDone
    BY <1>0, <1>7 DEF HandleCancel, HandleDone, Event, TurnTypeOK, TypeOK, HostTypeOK
  <1>8. ASSUME NEW r \in Runs, Agent(r) PROVE TurnTypeOK'
    <2>1. ASSUME NEW cmd \in Commands, Propose(r, cmd) PROVE TurnTypeOK'
      <3>1. PICK label \in PCs : Enter(r, <<r, call[r] + 1>>, label)
        BY <2>1 DEF Propose, PastApproval, PCs
      <3>2. pc' \in [Runs -> PCs]
        BY <1>0, <3>1 DEF Enter, Goto, TurnTypeOK
      <3>3. call' \in [Runs -> 0 .. MaxCalls]
        BY <1>0, <2>1, BoundsAssumption DEF Propose, CallsLeft, TurnTypeOK
      <3>4. UNCHANGED <<chats, named, offline, ctxCancelled, hub, cmdCancelled>>
        BY <2>1 DEF Propose, Outside
      <3>5. QED
        BY <1>0, <3>2, <3>3, <3>4 DEF TurnTypeOK
    <2>2. CASE ReceiveApproval(r)
      BY <1>0, <2>2 DEF ReceiveApproval, Enter, PastApproval, Goto, Outside, TurnTypeOK, PCs
    <2>3. CASE Tool(r) \/ Finish(r) \/ ToolsDone(r) \/ Reply(r)
      BY <1>0, <1>8, <2>2, <2>3 DEF Tool, ReceivePaste, Register, SyncFails, PushExecuting, Launch, Finish,
         Record, PopExecuting, Unregister, ToolsDone, Reply, Goto, Outside, TurnTypeOK, PCs
    <2>4. QED
      BY <1>8, <2>1, <2>3 DEF Agent
  <1>9. QED
    BY <1>1, <1>2, <1>3, <1>4, <1>5, <1>6, <1>7, <1>8 DEF Next, Host

\* A turn in the middle of a tool call stays at a call it has counted.
LEMMA CallCountedStep == TypeOK /\ CallCounted /\ [Next]_vars => CallCounted'
  <1> SUFFICES ASSUME TypeOK, CallCounted, [Next]_vars PROVE CallCounted'
    OBVIOUS
  <1>0. TurnTypeOK
    BY DEF TypeOK
  <1> USE DEF CallCounted, InCall, Current
  <1>1. CASE UNCHANGED <<pc, call>>
    BY <1>1
  <1>2. CASE User
    <2>1. CASE Refuse \/ RunAndStore \/ RunNoStore
      BY <1>0, <2>1 DEF Refuse, RunAndStore, RunNoStore, AnswerSensitive, AfterSensitive, TurnTypeOK, PCs
    <2>2. QED
      BY <1>1, <1>2, <2>1 DEF User, Submit, EscCancelCommand, EscCancelTurn, Approve,
         Dismiss, SubmitGuidance, AnswerApproval, ToggleGuidance, SubmitPaste, EscCancelPaste, AnswerPaste,
         Bash, CtrlC, BashReturns
  <1>3. CASE ProgramEnds \/ Pump \/ Bridge
    BY <1>1, <1>3 DEF ProgramEnds, Pump, ShowCard, ShowExecuting, ShowReply, DropMessage, Deliver, Bridge
  <1>4. CASE Host
    <2>1. CASE StartTurn
      BY <1>0, <2>1 DEF StartTurn, TurnTypeOK, PCs
    <2>2. QED
      BY <1>1, <1>4, <2>1 DEF Host, RelayCommand, RelaySnapshot, RejectChat, HandleCancel,
         PresentAgentUI, HandleDone
  <1>5. ASSUME NEW r \in Runs, Agent(r) PROVE CallCounted'
    <2>1. CASE \E cmd \in Commands : Propose(r, cmd)
      <3>1. pc' = [pc EXCEPT ![r] = pc'[r]] /\ call' = [call EXCEPT ![r] = @ + 1]
        BY <1>0, <2>1 DEF Propose, Enter, Goto, TurnTypeOK
      <3>2. <<r, call'[r]>> \in Requests
        BY <1>0, <2>1, <3>1, BoundsAssumption DEF Propose, CallsLeft, TurnTypeOK, Requests
      <3>3. QED
        BY <1>0, <3>1, <3>2 DEF TurnTypeOK
    <2>2. CASE ~\E cmd \in Commands : Propose(r, cmd)
      <3>1. /\ call' = call
            /\ pc' = [pc EXCEPT ![r] = pc'[r]]
            /\ pc'[r] \in InCall => pc[r] \in InCall
        BY <1>0, <1>5, <2>2 DEF Agent, Tool, ReceiveApproval, ReceivePaste, Register, SyncFails,
           PushExecuting, Launch, Finish, Record, PopExecuting, Unregister, ToolsDone, Reply,
           At, Enter, PastApproval, Goto, TurnTypeOK, PCs
      <3>2. QED
        BY <1>0, <3>1 DEF TurnTypeOK
    <2>3. QED
      BY <2>1, <2>2
  <1>6. QED
    BY <1>1, <1>2, <1>3, <1>4, <1>5 DEF Next

\* The per-call state; a command that starts is one its turn has counted.
LEMMA RequestTypeStep == TypeOK /\ CallCounted /\ [Next]_vars => RequestTypeOK'
  <1> SUFFICES ASSUME TypeOK, CallCounted, [Next]_vars PROVE RequestTypeOK'
    OBVIOUS
  <1>0. RequestTypeOK
    BY DEF TypeOK
  <1>1. CASE UNCHANGED <<request, decisions>>
    BY <1>0, <1>1 DEF RequestTypeOK
  <1>2. CASE User
    BY <1>0, <1>1, <1>2 DEF RequestTypeOK, User, Submit, EscCancelCommand, EscCancelTurn, Approve,
       Dismiss, SubmitGuidance, AnswerApproval, ToggleGuidance, SubmitPaste, EscCancelPaste, AnswerPaste,
       Refuse, RunAndStore, RunNoStore, AnswerSensitive, Bash, CtrlC, BashReturns
  <1>3. CASE ProgramEnds \/ Pump \/ Bridge
    BY <1>1, <1>3 DEF ProgramEnds, Pump, ShowCard, ShowExecuting, ShowReply, DropMessage, Deliver, Bridge
  <1>4. CASE Host
    BY <1>1, <1>4 DEF Host, RelayCommand, RelaySnapshot, RejectChat, StartTurn, HandleCancel,
       PresentAgentUI, HandleDone
  <1>5. ASSUME NEW r \in Runs, Agent(r) PROVE RequestTypeOK'
    <2>1. ASSUME NEW cmd \in Commands, Propose(r, cmd) PROVE RequestTypeOK'
      <3>1. proposed' \in [Requests -> Commands \cup {NoCommand}]
        BY <1>0, <2>1 DEF Propose, RequestTypeOK
      <3>2. /\ audit' \in [Requests -> SUBSET {"approved", "declined", "proposal", "result"}]
            /\ approval' \in [Requests -> {"none", "allowed", "user", "declined"}]
        BY <1>0, <2>1 DEF Propose, RequestTypeOK
      <3>3. UNCHANGED <<answer, confirm, started>>
        BY <2>1 DEF Propose
      <3>4. QED
        BY <1>0, <3>1, <3>2, <3>3 DEF RequestTypeOK
    <2>2. CASE ReceiveApproval(r) \/ ReceivePaste(r) \/ Record(r)
      <3>1. \A q \in Requests, new \in SUBSET {"approved", "declined", "proposal", "result"} :
              [audit EXCEPT ![q] = @ \cup new]
                \in [Requests -> SUBSET {"approved", "declined", "proposal", "result"}]
        BY <1>0 DEF RequestTypeOK
      <3>2. Current(r) \in Requests
        BY <2>2 DEF ReceiveApproval, ReceivePaste, Record, At, CallCounted, InCall, PCs
      <3>3. \/ audit' = audit
            \/ \E new \in SUBSET {"approved", "declined", "proposal", "result"} :
                 audit' = [audit EXCEPT ![Current(r)] = @ \cup new]
        <4>1. CASE ReceiveApproval(r)
          BY <4>1 DEF ReceiveApproval
        <4>2. CASE ReceivePaste(r)
          <5>1. PICK secrets \in BOOLEAN :
                  audit' = IF answer[Current(r)] = "cancelled" THEN audit
                           ELSE [audit EXCEPT ![Current(r)] = @ \cup {"proposal"} \cup
                                   (IF Stored(Current(r), secrets) THEN {"result"} ELSE {})]
            BY <4>2 DEF ReceivePaste
          <5>2. CASE answer[Current(r)] = "cancelled"
            BY <5>1, <5>2
          <5>3. CASE answer[Current(r)] # "cancelled" /\ Stored(Current(r), secrets)
            <6> DEFINE new == {"proposal", "result"}
            <6>1. audit' = [audit EXCEPT ![Current(r)] = @ \cup new]
              BY <5>1, <5>3
            <6>2. QED
              BY <6>1
          <5>4. CASE answer[Current(r)] # "cancelled" /\ ~Stored(Current(r), secrets)
            <6> DEFINE new == {"proposal"}
            <6>1. audit' = [audit EXCEPT ![Current(r)] = @ \cup new]
              BY <5>1, <5>4
            <6>2. QED
              BY <6>1
          <5>5. QED
            BY <5>2, <5>3, <5>4
        <4>3. CASE Record(r)
          BY <4>3 DEF Record
        <4>4. QED
          BY <2>2, <4>1, <4>2, <4>3
      <3>4. audit' \in [Requests -> SUBSET {"approved", "declined", "proposal", "result"}]
        BY <1>0, <3>1, <3>2, <3>3 DEF RequestTypeOK
      <3>5. /\ answer' \in [Requests -> {"none", "approve", "decline", "pasted", "cancelled"}]
            /\ UNCHANGED <<proposed, approval, confirm, started>>
        BY <1>0, <2>2 DEF ReceiveApproval, ReceivePaste, Record, RequestTypeOK
      <3>6. QED
        BY <1>0, <3>4, <3>5 DEF RequestTypeOK
    <2>3. CASE Launch(r)
      <3>1. Current(r) \in Requests
        BY <2>3 DEF Launch, At, CallCounted, InCall, PCs
      <3>2. QED
        BY <1>0, <2>3, <3>1 DEF Launch, RequestTypeOK
    <2>4. QED
      BY <1>1, <1>5, <2>1, <2>2, <2>3 DEF Agent, Tool, Register, SyncFails, PushExecuting, Finish,
         PopExecuting, Unregister, ToolsDone, Reply
  <1>6. QED
    BY <1>1, <1>2, <1>3, <1>4, <1>5 DEF Next

(* TypeOK is an invariant, and so is what was needed to prove it.          *)
THEOREM TypeCorrect == Spec => [](TypeOK /\ CallCounted)
  <1>1. Init => TypeOK /\ CallCounted
    BY InitTypeOK DEF Init, CallCounted, InCall
  <1>2. TypeOK /\ CallCounted /\ [Next]_vars => (TypeOK /\ CallCounted)'
    BY HostTypeStep, ChannelsTypeStep, ScreenTypeStep, TurnTypeStep, RequestTypeStep, CallCountedStep
    DEF TypeOK
  <1>3. QED
    BY <1>1, <1>2, PTL DEF Spec
-----------------------------------------------------------------------------
(* Channels, as the set of messages of some kinds that are in them.        *)

\* Sending a message adds it, if it is of these kinds.
LEMMA SentAppend ==
  ASSUME NEW s \in Seq(Messages), NEW m \in Messages, NEW K
  PROVE  Sent(Append(s, m), K) = Sent(s, K) \cup (IF m.kind \in K THEN {m} ELSE {})
  <1>1. \A i \in DOMAIN s : Append(s, m)[i] = s[i]
    OBVIOUS
  <1>2. DOMAIN Append(s, m) = DOMAIN s \cup {Len(s) + 1} /\ Append(s, m)[Len(s) + 1] = m
    OBVIOUS
  <1>3. QED
    BY <1>1, <1>2 DEF Sent

\* Receiving the head removes at most that message.
LEMMA SentTail ==
  ASSUME NEW s \in Seq(Messages), s # <<>>, NEW K
  PROVE  Sent(s, K) = Sent(Tail(s), K) \cup (IF Head(s).kind \in K THEN {Head(s)} ELSE {})
  <1>1. \A i \in DOMAIN Tail(s) : i + 1 \in DOMAIN s /\ Tail(s)[i] = s[i + 1]
    OBVIOUS
  <1>2. \A i \in DOMAIN s : i # 1 => i - 1 \in DOMAIN Tail(s) /\ Tail(s)[i - 1] = s[i]
    OBVIOUS
  <1>3. 1 \in DOMAIN s /\ s[1] = Head(s)
    OBVIOUS
  <1>4. ASSUME NEW m \in Sent(s, K)
        PROVE  m \in Sent(Tail(s), K) \cup (IF Head(s).kind \in K THEN {Head(s)} ELSE {})
    <2>1. PICK i \in DOMAIN s : s[i] = m /\ s[i].kind \in K
      BY DEF Sent
    <2>2. QED
      BY <1>2, <1>3, <2>1 DEF Sent
  <1>5. QED
    BY <1>1, <1>3, <1>4 DEF Sent

\* A message that is not in the channel may be sent.
LEMMA OnceAppend ==
  ASSUME NEW s \in Seq(Messages), NEW m \in Messages, NEW K,
         Once(s, K), m.kind \in K => m \notin Sent(s, K)
  PROVE  Once(Append(s, m), K)
  <1>1. \A i \in DOMAIN s : Append(s, m)[i] = s[i]
    OBVIOUS
  <1>2. DOMAIN Append(s, m) = DOMAIN s \cup {Len(s) + 1} /\ Append(s, m)[Len(s) + 1] = m
    OBVIOUS
  <1>3. QED
    BY <1>1, <1>2 DEF Sent, Once

\* Once the head is received, it is not in the channel any more.
LEMMA OnceTail ==
  ASSUME NEW s \in Seq(Messages), s # <<>>, NEW K, Once(s, K)
  PROVE  /\ Once(Tail(s), K)
         /\ Head(s).kind \in K => Head(s) \notin Sent(Tail(s), K)
  <1>1. \A i \in DOMAIN Tail(s) : i + 1 \in DOMAIN s /\ Tail(s)[i] = s[i + 1]
    OBVIOUS
  <1>2. 1 \in DOMAIN s /\ s[1] = Head(s) /\ \A i \in DOMAIN Tail(s) : i \in Nat /\ i # 0
    OBVIOUS
  <1>3. ASSUME NEW i \in DOMAIN Tail(s), NEW j \in DOMAIN Tail(s),
               Tail(s)[i].kind \in K, Tail(s)[i] = Tail(s)[j]
        PROVE  i = j
    <2>1. i + 1 = j + 1
      BY <1>1, <1>3 DEF Once
    <2>2. QED
      BY <1>2, <2>1
  <1>4. ASSUME Head(s).kind \in K, NEW i \in DOMAIN Tail(s), Tail(s)[i] = Head(s) PROVE FALSE
    <2>1. i + 1 = 1
      BY <1>1, <1>2, <1>4 DEF Once
    <2>2. QED
      BY <1>2, <2>1
  <1>5. QED
    BY <1>3, <1>4 DEF Once, Sent

\* Sending a message of other kinds changes nothing.
LEMMA SendOther ==
  ASSUME NEW s \in Seq(Messages), NEW m \in Messages, NEW K, m.kind \notin K, Once(s, K)
  PROVE  Sent(Append(s, m), K) = Sent(s, K) /\ Once(Append(s, m), K)
  <1>1. Sent(Append(s, m), K) = Sent(s, K) \cup {}
    BY SentAppend
  <1>2. QED
    BY <1>1, OnceAppend

\* Sending a message that is not there yet adds it.
LEMMA SendNew ==
  ASSUME NEW s \in Seq(Messages), NEW m \in Messages, NEW K, m.kind \in K, Once(s, K), m \notin Sent(s, K)
  PROVE  Sent(Append(s, m), K) = Sent(s, K) \cup {m} /\ Once(Append(s, m), K)
  BY SentAppend, OnceAppend

\* Receiving a message of other kinds changes nothing.
LEMMA ReceiveOther ==
  ASSUME NEW s \in Seq(Messages), s # <<>>, NEW K, Head(s).kind \notin K, Once(s, K)
  PROVE  Sent(Tail(s), K) = Sent(s, K) /\ Once(Tail(s), K)
  <1>1. Sent(s, K) = Sent(Tail(s), K) \cup {}
    BY SentTail
  <1>2. QED
    BY <1>1, OnceTail

\* Receiving a message takes it out.
LEMMA ReceiveOne ==
  ASSUME NEW s \in Seq(Messages), s # <<>>, NEW K, Head(s).kind \in K, Once(s, K)
  PROVE  /\ Head(s) \in Sent(s, K)
         /\ Sent(Tail(s), K) = Sent(s, K) \ {Head(s)}
         /\ Once(Tail(s), K)
  BY SentTail, OnceTail

\* Sending adds one message to those of a channel.
LEMMA RangeAppend ==
  ASSUME NEW s \in Seq(Messages), NEW m \in Messages
  PROVE  Range(Append(s, m)) = Range(s) \cup {m}
  <1>1. \A i \in DOMAIN s : Append(s, m)[i] = s[i]
    OBVIOUS
  <1>2. DOMAIN Append(s, m) = DOMAIN s \cup {Len(s) + 1} /\ Append(s, m)[Len(s) + 1] = m
    OBVIOUS
  <1>3. QED
    BY <1>1, <1>2 DEF Range

\* Receiving adds no message to a channel.
LEMMA RangeTail ==
  ASSUME NEW s \in Seq(Messages), s # <<>>
  PROVE  Range(Tail(s)) \subseteq Range(s) /\ Head(s) \in Range(s)
  <1>1. \A i \in DOMAIN Tail(s) : i + 1 \in DOMAIN s /\ Tail(s)[i] = s[i + 1]
    OBVIOUS
  <1>2. 1 \in DOMAIN s /\ s[1] = Head(s)
    OBVIOUS
  <1>3. QED
    BY <1>1, <1>2 DEF Range

(* What the channels carry.                                                *)

\* The UI sends commands, the agent questions; nobody else sends there.
LEMMA KindsStep == TypeOK /\ KindsInv /\ [Next]_vars => KindsInv'
  <1> SUFFICES ASSUME TypeOK, KindsInv, [Next]_vars PROVE KindsInv'
    OBVIOUS
  <1>0. ChannelsTypeOK /\ card \in Messages
    BY DEF TypeOK, ScreenTypeOK
  <1>1. CASE UNCHANGED <<cmds, agentq>>
    BY <1>1 DEF KindsInv
  <1>2. CASE cmds # <<>> /\ cmds' = Tail(cmds) /\ UNCHANGED agentq
    BY <1>0, <1>2, RangeTail DEF KindsInv, ChannelsTypeOK
  <1>3. CASE agentq # <<>> /\ agentq' = Tail(agentq) /\ UNCHANGED cmds
    BY <1>0, <1>3, RangeTail DEF KindsInv, ChannelsTypeOK
  <1>4. ASSUME NEW m \in Messages, m.kind \in CmdKinds, cmds' = Append(cmds, m), UNCHANGED agentq
        PROVE  KindsInv'
    BY <1>0, <1>4, RangeAppend DEF KindsInv, ChannelsTypeOK
  <1>5. ASSUME NEW m \in Messages, m.kind \in AgentKinds, agentq' = Append(agentq, m), UNCHANGED cmds
        PROVE  KindsInv'
    BY <1>0, <1>5, RangeAppend DEF KindsInv, ChannelsTypeOK
  <1>a. \A k \in Kinds : Plain(k) \in Messages /\ Plain(k).kind = k
    BY BoundsAssumption, MsgType DEF Plain, Msg
  <1>b. \A q \in (0 .. MaxChats) \X (0 .. MaxCalls), k \in Kinds :
          Msg(k, q) \in Messages /\ Msg(k, q).kind = k
    BY MsgType DEF Msg
  <1>6. CASE User
    <2>1. CASE Submit
      <3>1. <<chats + 1, 0>> \in (0 .. MaxChats) \X (0 .. MaxCalls)
        BY <2>1, BoundsAssumption DEF Submit, TypeOK, TurnTypeOK, Runs
      <3>2. QED
        BY <1>4, <1>b, <2>1, <3>1 DEF Submit, Send, CmdKinds, Kinds
    <2>2. CASE EscCancelCommand \/ EscCancelTurn \/ Bash
      <3>1. CASE UNCHANGED cmds
        BY <1>1, <2>2, <3>1 DEF EscCancelCommand, EscCancelTurn, Bash
      <3>2. CASE \E k \in {"cancelCommand", "cancelTurn", "shell"} : cmds' = Append(cmds, Plain(k))
        BY <1>4, <1>a, <2>2, <3>2 DEF EscCancelCommand, EscCancelTurn, Bash, CmdKinds, Kinds
      <3>3. QED
        BY <2>2, <3>1, <3>2 DEF EscCancelCommand, EscCancelTurn, Bash, Send, TrySend
    <2>3. CASE Refuse \/ RunAndStore \/ RunNoStore
      <3>1. card.req \in (0 .. MaxChats) \X (0 .. MaxCalls)
        BY <1>0 DEF Messages
      <3>2. QED
        BY <1>1, <1>5, <1>b, <2>3, <3>1 DEF Refuse, RunAndStore, RunNoStore, AnswerSensitive,
           AgentKinds, CardKinds, Kinds
    <2>4. QED
      BY <1>1, <1>6, <2>1, <2>2, <2>3 DEF User, Approve, Dismiss, SubmitGuidance, AnswerApproval,
         ToggleGuidance, SubmitPaste, EscCancelPaste, AnswerPaste, CtrlC, BashReturns
  <1>7. CASE ProgramEnds \/ Pump \/ Bridge
    BY <1>1, <1>3, <1>7 DEF ProgramEnds, Pump, ShowCard, ShowExecuting, ShowReply, DropMessage, Deliver, Bridge
  <1>8. CASE Host
    BY <1>1, <1>2, <1>8 DEF Host, RelayCommand, RelaySnapshot, RejectChat, StartTurn, HandleCancel,
       PresentAgentUI, HandleDone, Event
  <1>9. ASSUME NEW r \in Runs, Agent(r) PROVE KindsInv'
    <2>1. ASSUME NEW q \in (0 .. MaxChats) \X (0 .. MaxCalls), NEW label, Enter(r, q, label), UNCHANGED cmds
          PROVE  KindsInv'
      BY <1>1, <1>5, <1>b, <2>1 DEF Enter, AgentKinds, Kinds
    <2>2. CASE \E cmd \in Commands : Propose(r, cmd)
      <3>1. <<r, call[r] + 1>> \in (0 .. MaxChats) \X (0 .. MaxCalls)
        BY <2>2, BoundsAssumption DEF Propose, CallsLeft, TypeOK, TurnTypeOK, Runs
      <3>2. QED
        BY <2>1, <2>2, <3>1 DEF Propose, Outside
    <2>3. CASE ReceiveApproval(r)
      <3>1. Current(r) \in (0 .. MaxChats) \X (0 .. MaxCalls)
        BY BoundsAssumption DEF TypeOK, TurnTypeOK, Current, Runs
      <3>2. QED
        BY <2>1, <2>3, <3>1 DEF ReceiveApproval, Outside
    <2>4. CASE PushExecuting(r) \/ PopExecuting(r)
      BY <1>5, <1>a, <2>4 DEF PushExecuting, PopExecuting, Outside, AgentKinds, Kinds
    <2>5. QED
      BY <1>1, <1>9, <2>2, <2>3, <2>4 DEF Agent, Tool, ReceivePaste, Register, SyncFails, Launch, Finish,
         Record, Unregister, ToolsDone, Reply, Outside
  <1>10. QED
    BY <1>1, <1>6, <1>7, <1>8, <1>9 DEF Next

\* Chat numbers are used once: the chat on its way is that of a turn not begun.
LEMMA ChatsStep == TypeOK /\ KindsInv /\ ChatsInv /\ [Next]_vars => ChatsInv'
  <1> SUFFICES ASSUME TypeOK, KindsInv, ChatsInv, [Next]_vars PROVE ChatsInv'
    OBVIOUS
  <1>0. ChannelsTypeOK /\ TurnTypeOK
    BY DEF TypeOK
  <1>1. CASE UNCHANGED <<cmds, bus, chats, pc, call>>
    BY <1>1 DEF ChatsInv, ChatWaits
  <1>2. CASE Submit
    <2> DEFINE m == Msg("chat", <<chats + 1, 0>>)
    <2>1. m \in Messages /\ m.kind = "chat" /\ m.req = <<chats + 1, 0>> /\ chats + 1 \in Runs
      BY <1>0, <1>2, BoundsAssumption, MsgType DEF Submit, TurnTypeOK, Runs, Msg, Kinds, CmdKinds
    <2>2. m \notin Sent(cmds, {"chat"}) \cup Sent(bus, {"chat"})
      BY <1>0, <2>1 DEF ChatsInv, ChatWaits, TurnTypeOK
    <2>3. /\ Sent(cmds', {"chat"}) = Sent(cmds, {"chat"}) \cup {m}
          /\ Once(cmds', {"chat"})
      <3> HIDE DEF m
      <3>1. cmds' = Append(cmds, m) /\ m.kind \in {"chat"}
        BY <1>2, <2>1 DEF Submit, Send, m
      <3>2. cmds \in Seq(Messages) /\ Once(cmds, {"chat"}) /\ m \notin Sent(cmds, {"chat"}) /\ m \in Messages
        BY <1>0, <2>1, <2>2 DEF ChannelsTypeOK, ChatsInv
      <3>3. QED
        BY <3>1, <3>2, SendNew
    <2>4. chats' = chats + 1 /\ UNCHANGED <<bus, pc, call>> /\ pc[chats + 1] = "unused"
      BY <1>0, <1>2, <2>1 DEF Submit, ChatsInv, TurnTypeOK
    <2>5. \A x \in Sent(cmds', {"chat"}) \cup Sent(bus', {"chat"}) : ChatWaits(x)'
      BY <1>0, <2>1, <2>3, <2>4 DEF ChatsInv, ChatWaits, TurnTypeOK
    <2>6. QED
      BY <1>0, <2>2, <2>3, <2>4, <2>5 DEF ChatsInv, TurnTypeOK, Runs
  <1>4. CASE /\ UNCHANGED chats
             /\ Sent(cmds', {"chat"}) = Sent(cmds, {"chat"}) /\ Once(cmds', {"chat"})
             /\ Sent(bus', {"chat"}) = Sent(bus, {"chat"}) /\ Once(bus', {"chat"})
             /\ \A r \in Runs : pc[r] = "unused" <=> pc'[r] = "unused"
             /\ \A r \in Runs : pc[r] = "unused" => call'[r] = call[r]
    <2>1. ASSUME NEW x, ChatWaits(x) PROVE ChatWaits(x)'
      <3>1. x.req[1] \in Runs
        BY <1>0, <2>1, BoundsAssumption DEF ChatWaits, TurnTypeOK, Runs
      <3>2. QED
        BY <1>4, <2>1, <3>1 DEF ChatWaits
    <2>2. QED
      BY <1>4, <2>1 DEF ChatsInv
  <1>3. ASSUME NEW m \in Messages, m.kind \notin {"chat"},
               \/ cmds' = Append(cmds, m) /\ bus' = bus
               \/ bus' = Append(bus, m) /\ cmds' = cmds,
               \A r \in Runs : pc'[r] = "unused" <=> pc[r] = "unused", UNCHANGED <<chats, call>>
        PROVE  ChatsInv'
    <2>1. /\ Sent(Append(cmds, m), {"chat"}) = Sent(cmds, {"chat"}) /\ Once(Append(cmds, m), {"chat"})
          /\ Sent(Append(bus, m), {"chat"}) = Sent(bus, {"chat"}) /\ Once(Append(bus, m), {"chat"})
      BY <1>0, <1>3, SendOther DEF ChannelsTypeOK, ChatsInv
    <2>2. QED
      BY <1>3, <1>4, <2>1 DEF ChatsInv
  <1>b. CASE /\ UNCHANGED <<cmds, bus, chats>>
             /\ \A r \in Runs : pc[r] = "unused" <=> pc'[r] = "unused"
             /\ \A r \in Runs : pc[r] = "unused" => call'[r] = call[r]
    BY <1>4, <1>b DEF ChatsInv
  <1>5. ASSUME bus # <<>>, bus' = Tail(bus), UNCHANGED <<cmds, chats, call>>,
               \/ UNCHANGED pc
               \/ Head(bus).kind = "chat" /\ pc' = [pc EXCEPT ![Head(bus).req[1]] = "model"]
        PROVE  ChatsInv'
    <2>1. /\ Once(bus', {"chat"}) /\ Sent(bus', {"chat"}) \subseteq Sent(bus, {"chat"})
          /\ Head(bus).kind \in {"chat"} =>
               Head(bus) \in Sent(bus, {"chat"}) /\ Head(bus) \notin Sent(bus', {"chat"})
      <3>1. bus \in Seq(Messages) /\ Once(bus, {"chat"})
        BY <1>0 DEF ChannelsTypeOK, ChatsInv
      <3>2. QED
        BY <1>5, <3>1, ReceiveOne, ReceiveOther
    <2>2. Head(bus) \in Messages
      BY <1>0, <1>5, QueueHead DEF ChannelsTypeOK
    <2>3. ASSUME NEW x \in Sent(cmds', {"chat"}) \cup Sent(bus', {"chat"}) PROVE ChatWaits(x)'
      <3>1. ChatWaits(x) /\ x \in Messages /\ x.kind = "chat"
        BY <1>0, <1>5, <2>1 DEF ChatsInv, Sent, ChannelsTypeOK
      <3>2. CASE UNCHANGED pc
        BY <1>5, <3>1, <3>2 DEF ChatWaits
      <3>3. CASE Head(bus).kind = "chat" /\ pc' = [pc EXCEPT ![Head(bus).req[1]] = "model"]
        <4>1. Head(bus) \in Sent(bus, {"chat"}) /\ x # Head(bus)
          BY <1>5, <2>1, <2>3, <3>3 DEF ChatsInv
        <4>2. ChatWaits(Head(bus))
          BY <4>1 DEF ChatsInv
        <4>3. x.req # Head(bus).req
          BY <2>2, <3>1, <3>3, <4>1 DEF Messages
        <4>4. x.req[1] # Head(bus).req[1]
          BY <2>2, <3>1, <4>2, <4>3 DEF Messages, ChatWaits
        <4>5. QED
          BY <1>0, <1>5, <3>1, <3>3, <4>4 DEF ChatWaits, TurnTypeOK
      <3>4. QED
        BY <1>5, <3>2, <3>3
    <2>4. \A r \in Runs : (r > chats => pc'[r] = "unused") /\ (pc'[r] = "unused" => pc[r] = "unused")
      <3>1. CASE UNCHANGED pc
        BY <3>1 DEF ChatsInv
      <3>2. CASE Head(bus).kind = "chat" /\ pc' = [pc EXCEPT ![Head(bus).req[1]] = "model"]
        <4>1. ChatWaits(Head(bus))
          BY <2>1, <3>2 DEF ChatsInv
        <4>2. QED
          BY <1>0, <3>2, <4>1 DEF ChatsInv, ChatWaits, TurnTypeOK, Runs
      <3>3. QED
        BY <1>5, <3>1, <3>2
    <2>5. QED
      BY <1>5, <2>1, <2>3, <2>4 DEF ChatsInv
  <1>a. \A k \in Kinds : Plain(k) \in Messages /\ Plain(k).kind = k
    BY BoundsAssumption, MsgType DEF Plain, Msg
  <1>6. CASE User
    <2>1. CASE EscCancelCommand \/ EscCancelTurn \/ Bash
      <3>1. bus' = bus /\ UNCHANGED <<chats, call, pc>>
        BY <2>1 DEF EscCancelCommand, EscCancelTurn, Bash
      <3>2. CASE UNCHANGED cmds
        BY <1>b, <3>1, <3>2
      <3>3. CASE \E k \in {"cancelCommand", "cancelTurn", "shell"} : cmds' = Append(cmds, Plain(k))
        <4>1. PICK k \in {"cancelCommand", "cancelTurn", "shell"} : cmds' = Append(cmds, Plain(k))
          BY <3>3
        <4>2. Plain(k) \in Messages /\ Plain(k).kind \notin {"chat"}
          BY <1>a DEF CmdKinds, Kinds
        <4>3. QED
          BY <1>3, <3>1, <4>1, <4>2
      <3>4. QED
        BY <2>1, <3>2, <3>3 DEF EscCancelCommand, EscCancelTurn, Bash, Send, TrySend
    <2>2. CASE Refuse \/ RunAndStore \/ RunNoStore
      BY <1>0, <1>b, <2>2 DEF Refuse, RunAndStore, RunNoStore, AnswerSensitive, AfterSensitive, TurnTypeOK
    <2>3. QED
      BY <1>1, <1>2, <1>6, <2>1, <2>2 DEF User, Approve, Dismiss, SubmitGuidance, AnswerApproval,
         ToggleGuidance, SubmitPaste, EscCancelPaste, AnswerPaste, CtrlC, BashReturns
  <1>7. CASE ProgramEnds \/ Pump
    BY <1>1, <1>7 DEF ProgramEnds, Pump, ShowCard, ShowExecuting, ShowReply, DropMessage, Deliver
  <1>8. CASE Bridge
    <2>1. Head(agentq) \in Messages /\ Head(agentq).kind # "chat"
      BY <1>0, <1>8, QueueHead, RangeTail DEF Bridge, ChannelsTypeOK, KindsInv, AgentKinds, CardKinds
    <2>2. QED
      BY <1>3, <1>8, <2>1 DEF Bridge
  <1>9. CASE RelayCommand \/ RelaySnapshot
    <2>1. /\ Head(cmds) \in Messages
          /\ Once(cmds', {"chat"}) /\ Sent(cmds', {"chat"}) \subseteq Sent(cmds, {"chat"})
          /\ Head(cmds).kind \in {"chat"} =>
               Head(cmds) \in Sent(cmds, {"chat"}) /\ Head(cmds) \notin Sent(cmds', {"chat"})
      <3>1. cmds \in Seq(Messages) /\ cmds # <<>> /\ cmds' = Tail(cmds) /\ Once(cmds, {"chat"})
        BY <1>0, <1>9 DEF RelayCommand, RelaySnapshot, ChannelsTypeOK, ChatsInv
      <3>2. QED
        BY <3>1, QueueHead, ReceiveOne, ReceiveOther
    <2>2. UNCHANGED <<chats, pc, call>>
      BY <1>9 DEF RelayCommand, RelaySnapshot
    <2>3. CASE RelaySnapshot
      BY <2>1, <2>2, <2>3 DEF RelaySnapshot, ChatsInv, ChatWaits
    <2>4. CASE RelayCommand
      <3>1. Head(cmds).kind \in {"chat"} => Head(cmds) \notin Sent(bus, {"chat"})
        BY <2>1 DEF ChatsInv
      <3>2. /\ Sent(bus', {"chat"}) \ Sent(bus, {"chat"}) =
                  (IF Head(cmds).kind \in {"chat"} THEN {Head(cmds)} ELSE {})
            /\ Once(bus', {"chat"})
        <4>1. bus \in Seq(Messages) /\ bus' = Append(bus, Head(cmds)) /\ Once(bus, {"chat"})
          BY <1>0, <2>4 DEF RelayCommand, Published, ChannelsTypeOK, ChatsInv
        <4>2. QED
          BY <2>1, <3>1, <4>1, SendNew, SendOther
      <3>3. QED
        BY <2>1, <2>2, <3>1, <3>2 DEF ChatsInv, ChatWaits
    <2>5. QED
      BY <1>9, <2>3, <2>4
  <1>10. CASE RejectChat \/ StartTurn \/ HandleCancel \/ PresentAgentUI \/ HandleDone
    BY <1>5, <1>10 DEF RejectChat, StartTurn, HandleCancel, PresentAgentUI, HandleDone, Event
  <1>11. ASSUME NEW r \in Runs, Agent(r) PROVE ChatsInv'
    <2>1. CASE \E cmd \in Commands : Propose(r, cmd)
      BY <1>0, <1>b, <2>1 DEF Propose, Enter, PastApproval, Goto, At, Outside, TurnTypeOK
    <2>2. CASE Reply(r)
      <3>1. Msg("done", <<r, 0>>) \in Messages /\ Msg("done", <<r, 0>>).kind # "chat"
        BY BoundsAssumption, MsgType DEF Kinds, Runs, Msg
      <3>2. QED
        BY <1>0, <1>3, <2>2, <3>1 DEF Reply, Goto, At, Outside, TurnTypeOK
    <2>3. CASE Tool(r) \/ Finish(r) \/ ToolsDone(r)
      BY <1>0, <1>b, <2>3 DEF Tool, ReceiveApproval, ReceivePaste, Register, SyncFails, PushExecuting,
         Launch, Finish, Record, PopExecuting, Unregister, ToolsDone, Enter, PastApproval, Goto, At, Outside,
         TurnTypeOK
    <2>4. QED
      BY <1>11, <2>1, <2>2, <2>3 DEF Agent
  <1>12. QED
    BY <1>1, <1>2, <1>6, <1>7, <1>8, <1>9, <1>10, <1>11 DEF Next, Host

(* The cards: every question is asked once, of the agent that waits for it. *)

\* A turn whose pc, call and answers did not change is still asked its question.
LEMMA AskedKept ==
  ASSUME TypeOK, NEW r \in Runs, NEW m, Asked(m), m.req[1] # r,
         \A s \in Runs \ {r} : pc'[s] = pc[s] /\ call'[s] = call[s],
         \A q \in Requests : q[1] # r => answer'[q] = answer[q]
  PROVE  Asked(m)'
  <1> DEFINE s == m.req[1]
  <1>1. s \in Runs \ {r} /\ m.req = <<s, call[s]>> /\ m.req \in Requests
    BY DEF Asked, Requests, Msg, Current
  <1>2. pc'[s] = pc[s] /\ call'[s] = call[s] /\ answer'[<<s, call[s]>>] = answer[<<s, call[s]>>]
    BY <1>1
  <1>3. QED
    BY <1>1, <1>2 DEF Asked, Blocked, Current, Msg

\* There is one card of a turn at most, and none of a turn that is not blocked.
LEMMA OneCard ==
  ASSUME CardsInv, NEW m \in OnWay, NEW n \in OnWay, m.req[1] = n.req[1]
  PROVE  m = n /\ Blocked(m.req[1])
  BY DEF CardsInv, OnWay, Asked

\* The empty slot is no card.
LEMMA NoCardIsNone ==
  ASSUME NEW s
  PROVE  NoCard.kind = "none" /\ NoCard \notin Sent(s, CardKinds)
  BY DEF NoCard, Plain, Msg, Sent, CardKinds

\* What is in a channel, or shown, is a message.
LEMMA OnWayType == TypeOK => OnWay \subseteq Messages
  <1> SUFFICES ASSUME TypeOK PROVE OnWay \subseteq Messages
    OBVIOUS
  <1>1. agentq \in Seq(Messages) /\ bus \in Seq(Messages) /\ uiq \in Seq(Messages) /\ card \in Messages
    BY DEF TypeOK, ChannelsTypeOK, ScreenTypeOK
  <1>2. \A s \in Seq(Messages) : \A i \in DOMAIN s : s[i] \in Messages
    OBVIOUS
  <1>3. QED
    BY <1>1, <1>2 DEF OnWay, OnScreen, Sent

\* Keys, drops and messages that are no cards: nothing is on its way but what was.
LEMMA CardsFewer ==
  ASSUME TypeOK, CardsInv,
         Once(agentq', CardKinds), Once(bus', CardKinds), Once(uiq', CardKinds),
         Sent(agentq', CardKinds) \subseteq Sent(agentq, CardKinds),
         Sent(bus', CardKinds) \subseteq Sent(bus, CardKinds),
         Sent(uiq', CardKinds) \subseteq Sent(uiq, CardKinds),
         card' \in {card, NoCard}, guiding' => card'.kind = "approval",
         \A m \in OnWay' : Asked(m)'
  PROVE  CardsInv'
  BY NoCardIsNone DEF CardsInv, OnWay

\* The keys that answer a card take it off the screen with the answer.
LEMMA CardsUser == TypeOK /\ CardsInv /\ User => CardsInv'
  <1> SUFFICES ASSUME TypeOK, CardsInv, User PROVE CardsInv'
    OBVIOUS
  <1>1. CASE UNCHANGED <<agentq, bus, uiq, card, pc, call, answer>> /\ (guiding' => card.kind = "approval")
    BY <1>1 DEF CardsInv, OnScreen, Asked, Blocked, Current
  <1>2. ASSUME UNCHANGED <<agentq, bus, uiq, pc, call>>, card \in OnScreen, card' = NoCard, guiding' = FALSE,
               NEW a, answer' = [answer EXCEPT ![card.req] = a]
        PROVE  CardsInv'
    <2>1. card.req \in Requests /\ card.req[1] \in Runs /\ card \notin OnWay'
      BY <1>2, NoCardIsNone DEF CardsInv, Asked, Requests, OnWay, OnScreen
    <2>2. ASSUME NEW m \in OnWay' PROVE Asked(m)'
      <3>1. m \in OnWay /\ card \in OnWay /\ m # card
        BY <1>2, <2>1, <2>2 DEF OnWay, OnScreen
      <3>2. m.req[1] # card.req[1] /\ Asked(m)
        BY <3>1, OneCard DEF CardsInv, OnWay
      <3>3. \A q \in Requests : q[1] # card.req[1] => answer'[q] = answer[q]
        BY <1>2, <2>1 DEF TypeOK, RequestTypeOK
      <3>4. \A s \in Runs : pc'[s] = pc[s] /\ call'[s] = call[s]
        BY <1>2
      <3>5. QED
        BY <2>1, <3>2, <3>3, <3>4, AskedKept
    <2>3. QED
      BY <1>2, <2>2, CardsFewer DEF CardsInv
  <1>3. CASE Approve \/ Dismiss \/ SubmitGuidance
    BY <1>2, <1>3, NoCardIsNone DEF Approve, Dismiss, SubmitGuidance, AnswerApproval, ApprovalCard, OnScreen
  <1>4. CASE SubmitPaste \/ EscCancelPaste
    <2>1. PICK a : AnswerPaste(a)
      BY <1>4 DEF SubmitPaste, EscCancelPaste
    <2>2. ~guiding /\ guiding \in BOOLEAN
      BY <2>1 DEF AnswerPaste, CardsInv, TypeOK, ScreenTypeOK
    <2>3. QED
      BY <1>2, <2>1, <2>2, NoCardIsNone DEF AnswerPaste, OnScreen
  <1>5. CASE Refuse \/ RunAndStore \/ RunNoStore
    <2>1. PICK choice : AnswerSensitive(choice)
      BY <1>5 DEF Refuse, RunAndStore, RunNoStore
    <2>a. PICK q \in Requests : q = card.req
      BY <2>1, NoCardIsNone DEF AnswerSensitive, OnScreen, CardsInv, Asked
    <2> DEFINE r == q[1]
               m == Msg("paste", q)
    <2>2. /\ card \in OnScreen /\ Asked(card) /\ q \in Requests /\ r \in Runs
          /\ q = <<r, call[r]>> /\ answer[q] = "none" /\ ~guiding /\ guiding \in BOOLEAN
      BY <2>1, <2>a, NoCardIsNone
      DEF AnswerSensitive, OnScreen, CardsInv, Asked, Blocked, Current, Requests, Msg, TypeOK, ScreenTypeOK
    <2>3. /\ pc' = [pc EXCEPT ![r] = AfterSensitive(r, choice)]
          /\ agentq' = IF AfterSensitive(r, choice) = "paste" THEN Append(agentq, m) ELSE agentq
          /\ card' = NoCard /\ UNCHANGED <<bus, uiq, guiding, call, answer>>
      BY <2>1, <2>a DEF AnswerSensitive
    <2>4. m \in Messages /\ m.kind = "paste" /\ m.req = q
      BY <2>2, BoundsAssumption, MsgType DEF Requests, Runs, Kinds, AgentKinds, CardKinds, Msg
    <2>5. ASSUME NEW x \in Sent(agentq, CardKinds) \cup Sent(bus, CardKinds) \cup Sent(uiq, CardKinds)
          PROVE  Asked(x)' /\ x.req[1] # r
      <3>1. x \in OnWay /\ card \in OnWay /\ x # card
        BY <2>2, <2>5 DEF OnWay, CardsInv
      <3>2. x.req[1] # r /\ Asked(x)
        BY <2>a, <3>1, OneCard DEF CardsInv, OnWay
      <3>3. \A s \in Runs \ {r} : pc'[s] = pc[s] /\ call'[s] = call[s]
        BY <2>2, <2>3 DEF TypeOK, TurnTypeOK
      <3>4. answer' = answer
        BY <2>3
      <3>5. QED
        BY <2>2, <3>2, <3>3, <3>4, AskedKept
    <2>6. CASE AfterSensitive(r, choice) # "paste"
      <3>1. OnWay' \subseteq Sent(agentq, CardKinds) \cup Sent(bus, CardKinds) \cup Sent(uiq, CardKinds)
        BY <2>3, <2>6 DEF OnWay, OnScreen
      <3>2. QED
        BY <2>2, <2>3, <2>5, <2>6, <3>1, CardsFewer DEF CardsInv
    <2>7. CASE AfterSensitive(r, choice) = "paste"
      <3>1. m \notin Sent(agentq, CardKinds) \cup Sent(bus, CardKinds) \cup Sent(uiq, CardKinds)
        BY <2>4, <2>5
      <3>2. Sent(agentq', CardKinds) = Sent(agentq, CardKinds) \cup {m} /\ Once(agentq', CardKinds)
        BY <2>3, <2>4, <2>7, <3>1, SendNew DEF CardsInv, TypeOK, ChannelsTypeOK, CardKinds
      <3>3. Asked(m)'
        <4>1. pc'[r] = "paste" /\ call'[r] = call[r] /\ answer'[q] = "none"
          BY <2>2, <2>3, <2>7 DEF TypeOK, TurnTypeOK
        <4>2. QED
          BY <2>2, <2>4, <4>1 DEF Asked, Blocked, Current, CardKinds, Msg
      <3>4. OnScreen' = {} /\ UNCHANGED <<bus, uiq>> /\ ~guiding'
        BY <2>2, <2>3 DEF OnScreen
      <3>5. QED
        BY <2>3, <2>5, <3>1, <3>2, <3>3, <3>4, NoCardIsNone DEF CardsInv
    <2>8. QED
      BY <2>6, <2>7
  <1>6. CASE Submit
    BY <1>1, <1>6 DEF Submit, CardsInv
  <1>7. CASE EscCancelCommand \/ EscCancelTurn \/ ToggleGuidance \/ Bash \/ CtrlC \/ BashReturns
    BY <1>1, <1>7 DEF EscCancelCommand, EscCancelTurn, ToggleGuidance, ApprovalCard, Bash, CtrlC,
       BashReturns, CardsInv
  <1>8. QED
    BY <1>3, <1>4, <1>5, <1>6, <1>7 DEF User

\* A question moves from channel to channel and to the screen, or is dropped with
\* the program that would have shown it.
LEMMA CardsMoved ==
  TypeOK /\ KindsInv /\ CardsInv /\ (ProgramEnds \/ Pump \/ Bridge \/ RelayCommand \/ RelaySnapshot)
    => CardsInv'
  <1> SUFFICES ASSUME TypeOK, KindsInv, CardsInv,
                      ProgramEnds \/ Pump \/ Bridge \/ RelayCommand \/ RelaySnapshot
               PROVE  CardsInv'
    OBVIOUS
  <1>0. ChannelsTypeOK
    BY DEF TypeOK
  <1>1. UNCHANGED <<pc, call, answer>>
    BY DEF ProgramEnds, Pump, ShowCard, ShowExecuting, ShowReply, DropMessage, Deliver, Bridge,
       RelayCommand, RelaySnapshot
  <1>2. \A m : Asked(m)' = Asked(m)
    BY <1>1 DEF Asked, Blocked, Current
  <1>3. CASE ProgramEnds \/ RelaySnapshot
    <2>1. /\ UNCHANGED <<agentq, bus, uiq>> /\ card' \in {card, NoCard}
          /\ guiding' => card'.kind = "approval"
      BY <1>3 DEF ProgramEnds, RelaySnapshot, CardsInv
    <2>2. OnWay' \subseteq OnWay
      BY <2>1 DEF OnWay, OnScreen
    <2>3. QED
      BY <1>2, <2>1, <2>2, CardsFewer DEF CardsInv, OnWay
  <1>4. CASE RelayCommand
    <2>1. Head(cmds) \in Messages /\ Head(cmds).kind \notin CardKinds /\ bus' = Append(bus, Head(cmds))
      BY <1>0, <1>4, QueueHead, RangeTail
      DEF RelayCommand, Published, ChannelsTypeOK, KindsInv, CmdKinds, CardKinds
    <2>2. Sent(bus', CardKinds) = Sent(bus, CardKinds) /\ Once(bus', CardKinds)
      BY <1>0, <2>1, SendOther DEF ChannelsTypeOK, CardsInv
    <2>3. UNCHANGED <<agentq, uiq, card, guiding>>
      BY <1>4 DEF RelayCommand
    <2>4. QED
      BY <1>2, <2>2, <2>3 DEF CardsInv, OnScreen
  <1>5. CASE Bridge
    <2> DEFINE m == Head(agentq)
    <2>1. m \in Messages /\ agentq # <<>> /\ agentq' = Tail(agentq) /\ bus' = Append(bus, m)
      BY <1>0, <1>5, QueueHead DEF Bridge, ChannelsTypeOK
    <2>2. UNCHANGED <<uiq, card, guiding>>
      BY <1>5 DEF Bridge
    <2>3. Once(agentq, CardKinds) /\ Once(bus, CardKinds)
      BY DEF CardsInv
    <2>4. agentq \in Seq(Messages) /\ bus \in Seq(Messages)
      BY <1>0 DEF ChannelsTypeOK
    <2>5. CASE m.kind \notin CardKinds
      <3>1. /\ Sent(agentq', CardKinds) = Sent(agentq, CardKinds) /\ Once(agentq', CardKinds)
            /\ Sent(bus', CardKinds) = Sent(bus, CardKinds) /\ Once(bus', CardKinds)
        BY <2>1, <2>3, <2>4, <2>5, SendOther, ReceiveOther
      <3>2. QED
        BY <1>2, <2>2, <3>1 DEF CardsInv, OnScreen
    <2>6. CASE m.kind \in CardKinds
      <3>1. /\ m \in Sent(agentq, CardKinds) /\ Once(agentq', CardKinds)
            /\ Sent(agentq', CardKinds) = Sent(agentq, CardKinds) \ {m}
        BY <2>1, <2>3, <2>4, <2>6, ReceiveOne
      <3>2. m \notin Sent(bus, CardKinds)
        BY <3>1 DEF CardsInv
      <3>3. Sent(bus', CardKinds) = Sent(bus, CardKinds) \cup {m} /\ Once(bus', CardKinds)
        BY <2>1, <2>3, <2>4, <2>6, <3>2, SendNew
      <3>4. QED
        BY <1>2, <2>2, <3>1, <3>3 DEF CardsInv, OnScreen
    <2>7. QED
      BY <2>5, <2>6
  <1>6. CASE Pump
    <2> DEFINE m == Head(uiq)
    <2>1. uiq \in Seq(Messages) /\ uiq # <<>> /\ uiq' = Tail(uiq) /\ UNCHANGED <<agentq, bus>>
      BY <1>0, <1>6 DEF Pump, ShowCard, ShowExecuting, ShowReply, DropMessage, Deliver, ChannelsTypeOK
    <2>2. /\ Once(uiq', CardKinds) /\ Sent(uiq', CardKinds) \subseteq Sent(uiq, CardKinds)
          /\ m.kind \in CardKinds => m \in Sent(uiq, CardKinds) /\ m \notin Sent(uiq', CardKinds)
      BY <2>1, ReceiveOther, ReceiveOne DEF CardsInv
    <2>3. CASE ShowCard
      <3>1. m.kind \in CardKinds /\ card' = m /\ ~guiding'
        BY <2>3 DEF ShowCard, Deliver
      <3>2. m \notin Sent(agentq, CardKinds) \cup Sent(bus, CardKinds) \cup Sent(uiq', CardKinds)
        BY <2>2, <3>1 DEF CardsInv
      <3>3. OnWay' \subseteq OnWay
        BY <2>1, <2>2, <3>1 DEF OnWay, OnScreen
      <3>4. QED
        BY <1>2, <2>1, <2>2, <3>1, <3>2, <3>3 DEF CardsInv, OnWay
    <2>4. CASE ShowExecuting \/ ShowReply \/ DropMessage
      <3>1. UNCHANGED <<card, guiding>>
        BY <2>4 DEF ShowExecuting, ShowReply, DropMessage
      <3>2. OnWay' \subseteq OnWay
        BY <2>1, <2>2, <3>1 DEF OnWay, OnScreen
      <3>3. QED
        BY <1>2, <2>1, <2>2, <3>1, <3>2 DEF CardsInv, OnWay
    <2>5. QED
      BY <1>6, <2>3, <2>4 DEF Pump
  <1>7. QED
    BY <1>3, <1>4, <1>5, <1>6

\* The controller passes questions on; a turn it starts is not asked anything yet.
LEMMA CardsHandled ==
  TypeOK /\ ChatsInv /\ CardsInv
    /\ (RejectChat \/ StartTurn \/ HandleCancel \/ PresentAgentUI \/ HandleDone) => CardsInv'
  <1> SUFFICES ASSUME TypeOK, ChatsInv, CardsInv,
                      RejectChat \/ StartTurn \/ HandleCancel \/ PresentAgentUI \/ HandleDone
               PROVE  CardsInv'
    OBVIOUS
  <1> DEFINE m == Head(bus)
  <1>1. /\ bus \in Seq(Messages) /\ uiq \in Seq(Messages) /\ bus # <<>> /\ bus' = Tail(bus)
        /\ UNCHANGED <<agentq, card, guiding, call, answer>>
    BY DEF RejectChat, StartTurn, HandleCancel, PresentAgentUI, HandleDone, Event, TypeOK, ChannelsTypeOK
  <1>2. m \in Messages
    BY <1>1, QueueHead
  <1>3. /\ Once(bus', CardKinds) /\ Sent(bus', CardKinds) \subseteq Sent(bus, CardKinds)
        /\ m.kind \in CardKinds => m \in Sent(bus, CardKinds) /\ m \notin Sent(bus', CardKinds)
    BY <1>1, ReceiveOther, ReceiveOne DEF CardsInv
  <1>4. ASSUME NEW x \in OnWay PROVE Asked(x)'
    <2>1. Asked(x) /\ x.req[1] \in Runs
      BY <1>4 DEF CardsInv, OnWay, Asked, Requests
    <2>2. CASE UNCHANGED pc
      BY <1>1, <2>1, <2>2 DEF Asked, Blocked, Current
    <2>3. CASE StartTurn
      <3>1. m \in Sent(bus, {"chat"})
        BY <1>1, <2>3, ReceiveOne DEF StartTurn, Event, ChatsInv
      <3>2. ChatWaits(m) /\ m.req[1] \in Runs
        BY <3>1, BoundsAssumption DEF ChatsInv, ChatWaits, Runs, TypeOK, TurnTypeOK
      <3>3. x.req[1] # m.req[1]
        BY <2>1, <3>2 DEF Asked, Blocked, ChatWaits, CardKinds
      <3>4. \A s \in Runs \ {m.req[1]} : pc'[s] = pc[s] /\ call'[s] = call[s]
        BY <1>1, <2>3 DEF StartTurn, TypeOK, TurnTypeOK
      <3>5. answer' = answer
        BY <1>1
      <3>6. QED
        BY <2>1, <3>2, <3>3, <3>4, <3>5, AskedKept
    <2>4. QED
      BY <2>2, <2>3 DEF RejectChat, HandleCancel, PresentAgentUI, HandleDone
  <1>5. CASE Sent(uiq', CardKinds) = Sent(uiq, CardKinds) /\ Once(uiq', CardKinds)
    <2>1. OnWay' \subseteq OnWay
      BY <1>1, <1>3, <1>5 DEF OnWay, OnScreen
    <2>2. QED
      BY <1>1, <1>3, <1>4, <1>5, <2>1, CardsFewer DEF CardsInv
  <1>6. \A k \in {"busy", "reply"} : Plain(k) \in Messages /\ Plain(k).kind \notin CardKinds
    BY BoundsAssumption, MsgType DEF Plain, Msg, Kinds, CardKinds
  <1>7. CASE RejectChat \/ StartTurn \/ HandleCancel \/ HandleDone
    <2>1. uiq' = uiq \/ \E k \in {"busy", "reply"} : uiq' = Append(uiq, Plain(k))
      BY <1>7 DEF RejectChat, StartTurn, HandleCancel, HandleDone
    <2>2. CASE uiq' = uiq
      BY <1>5, <2>2 DEF CardsInv
    <2>3. ASSUME NEW k \in {"busy", "reply"}, uiq' = Append(uiq, Plain(k)) PROVE CardsInv'
      <3>1. Sent(uiq', CardKinds) = Sent(uiq, CardKinds) /\ Once(uiq', CardKinds)
        BY <1>1, <1>6, <2>3, SendOther DEF CardsInv
      <3>2. QED
        BY <1>5, <3>1
    <2>4. QED
      BY <2>1, <2>2, <2>3
  <1>8. CASE PresentAgentUI
    <2>1. uiq' = Append(uiq, m)
      BY <1>8 DEF PresentAgentUI
    <2>2. CASE m.kind \notin CardKinds
      <3>1. Sent(uiq', CardKinds) = Sent(uiq, CardKinds) /\ Once(uiq', CardKinds)
        BY <1>1, <1>2, <2>1, <2>2, SendOther DEF CardsInv
      <3>2. QED
        BY <1>5, <3>1
    <2>3. CASE m.kind \in CardKinds
      <3>1. m \notin Sent(uiq, CardKinds) /\ Once(uiq, CardKinds)
        BY <1>3, <2>3 DEF CardsInv
      <3>2. Sent(uiq', CardKinds) = Sent(uiq, CardKinds) \cup {m} /\ Once(uiq', CardKinds)
        BY <1>1, <1>2, <2>1, <2>3, <3>1, SendNew
      <3>3. OnWay' \subseteq OnWay
        BY <1>1, <1>3, <2>3, <3>2 DEF OnWay, OnScreen
      <3>4. m \notin Sent(agentq, CardKinds) /\ m # card
        BY <1>3, <2>3 DEF CardsInv
      <3>5. QED
        BY <1>1, <1>3, <1>4, <2>3, <3>2, <3>3, <3>4 DEF CardsInv, OnWay
    <2>4. QED
      BY <2>2, <2>3
  <1>9. QED
    BY <1>7, <1>8

\* An agent asks one question, and nothing else before it has the answer.
LEMMA CardsAgent ==
  ASSUME TypeOK, CallCounted, FreshInv, CardsInv, NEW r \in Runs, Agent(r)
  PROVE  CardsInv'
  <1>0. TurnTypeOK /\ ChannelsTypeOK /\ RequestTypeOK
    BY DEF TypeOK
  <1>1. UNCHANGED <<uiq, card, guiding>>
    BY DEF Agent, Propose, Tool, ReceiveApproval, ReceivePaste, Register, SyncFails,
       PushExecuting, Launch, Finish, Record, PopExecuting, Unregister, ToolsDone, Reply, Outside
  <1>2. ~Blocked(r)
    BY DEF Blocked, Agent, Propose, Tool, ReceiveApproval, ReceivePaste, Answered, Register, SyncFails,
       PushExecuting, Launch, Finish, Record, PopExecuting, Unregister, ToolsDone, Reply, At, CardKinds
  <1>3. \A s \in Runs \ {r} : pc'[s] = pc[s] /\ call'[s] = call[s]
    BY <1>0 DEF Agent, Propose, Tool, ReceiveApproval, ReceivePaste, Register, SyncFails, Enter, Goto,
       PushExecuting, Launch, Finish, Record, PopExecuting, Unregister, ToolsDone, Reply, TurnTypeOK
  <1>4. answer' = answer \/ answer' = [answer EXCEPT ![Current(r)] = "none"]
    BY DEF Agent, Propose, Tool, ReceiveApproval, ReceivePaste, Register, SyncFails,
       PushExecuting, Launch, Finish, Record, PopExecuting, Unregister, ToolsDone, Reply
  <1>5. \A q \in Requests : q[1] # r => answer'[q] = answer[q]
    BY <1>0, <1>4 DEF RequestTypeOK, Current
  <1>6. ASSUME NEW x \in OnWay PROVE Asked(x)' /\ x.req[1] # r
    <2>1. Asked(x) /\ x.req[1] # r
      BY <1>2, <1>6, OneCard DEF CardsInv, OnWay
    <2>2. QED
      BY <1>3, <1>5, <2>1, AskedKept
  <1>7. CASE /\ Sent(agentq', CardKinds) = Sent(agentq, CardKinds) /\ Once(agentq', CardKinds)
             /\ Sent(bus', CardKinds) = Sent(bus, CardKinds) /\ Once(bus', CardKinds)
    <2>1. OnWay' = OnWay
      BY <1>1, <1>7 DEF OnWay, OnScreen
    <2>2. QED
      BY <1>1, <1>6, <1>7, <2>1, CardsFewer DEF CardsInv
  <1>8. ASSUME NEW m \in Messages, m.kind \notin CardKinds,
               \/ agentq' = Append(agentq, m) /\ bus' = bus
               \/ bus' = Append(bus, m) /\ agentq' = agentq
        PROVE  CardsInv'
    <2>1. agentq \in Seq(Messages) /\ bus \in Seq(Messages) /\ Once(agentq, CardKinds) /\ Once(bus, CardKinds)
      BY <1>0 DEF ChannelsTypeOK, CardsInv
    <2>2. /\ Sent(Append(agentq, m), CardKinds) = Sent(agentq, CardKinds) /\ Once(Append(agentq, m), CardKinds)
          /\ Sent(Append(bus, m), CardKinds) = Sent(bus, CardKinds) /\ Once(Append(bus, m), CardKinds)
      BY <1>8, <2>1, SendOther
    <2>3. QED
      BY <1>7, <1>8, <2>1, <2>2
  <1>9. ASSUME NEW q \in Requests, NEW label, Enter(r, q, label), UNCHANGED bus,
               q = <<r, call'[r]>>, answer'[q] = "none"
        PROVE  CardsInv'
    <2>1. CASE label \notin CardKinds
      BY <1>7, <1>9, <2>1 DEF Enter, CardsInv
    <2>2. CASE label \in CardKinds
      <3> DEFINE m == Msg(label, q)
      <3>1. m \in Messages /\ m.kind = label /\ m.req = q
        BY <2>2, BoundsAssumption, MsgType DEF Requests, Runs, Kinds, AgentKinds, Msg
      <3>2. m \notin OnWay
        BY <1>6, <1>9, <3>1
      <3>3. agentq' = Append(agentq, m) /\ pc'[r] = label
        BY <1>0, <1>9, <2>2 DEF Enter, Goto, TurnTypeOK
      <3>4. Asked(m)'
        BY <1>9, <2>2, <3>1, <3>3 DEF Asked, Blocked, Current
      <3>5. /\ agentq \in Seq(Messages) /\ Once(agentq, CardKinds) /\ m.kind \in CardKinds
            /\ m \notin Sent(agentq, CardKinds)
        BY <1>0, <2>2, <3>1, <3>2 DEF ChannelsTypeOK, CardsInv, OnWay
      <3>6. Sent(agentq', CardKinds) = Sent(agentq, CardKinds) \cup {m} /\ Once(agentq', CardKinds)
        BY <3>1, <3>3, <3>5, SendNew
      <3>7. m # card
        BY <3>1, <3>2, <3>5, NoCardIsNone DEF OnWay, OnScreen, CardKinds
      <3>8. QED
        BY <1>1, <1>6, <1>9, <3>2, <3>4, <3>6, <3>7 DEF CardsInv, OnWay, OnScreen
    <2>3. QED
      BY <2>1, <2>2
  <1>10. CASE \E cmd \in Commands : Propose(r, cmd)
    <2>1. PICK label : Enter(r, <<r, call[r] + 1>>, label)
      BY <1>10 DEF Propose
    <2>2. /\ <<r, call[r] + 1>> \in Requests /\ call'[r] = call[r] + 1 /\ call[r] + 1 > call[r]
          /\ UNCHANGED <<bus, answer>>
      BY <1>0, <1>10, BoundsAssumption DEF Propose, CallsLeft, TurnTypeOK, Requests
    <2>3. answer[<<r, call[r] + 1>>] = "none"
      BY <2>2 DEF FreshInv, Untouched
    <2>4. QED
      BY <1>9, <2>1, <2>2, <2>3
  <1>11. CASE ReceiveApproval(r)
    <2>1. Current(r) \in Requests
      BY <1>11 DEF ReceiveApproval, At, CallCounted, InCall, PCs
    <2>2. PICK label : Enter(r, Current(r), label)
      BY <1>11 DEF ReceiveApproval
    <2>3. UNCHANGED <<bus, call>> /\ answer'[Current(r)] = "none" /\ Current(r) = <<r, call[r]>>
      BY <1>0, <1>11, <2>1 DEF ReceiveApproval, RequestTypeOK, Current
    <2>4. QED
      BY <1>9, <2>1, <2>2, <2>3
  <1>12. CASE PushExecuting(r) \/ PopExecuting(r) \/ Reply(r)
    <2>1. PICK k \in {"execOn", "execOff", "done"}, q \in (0 .. MaxChats) \X (0 .. MaxCalls) :
            \/ agentq' = Append(agentq, Msg(k, q)) /\ bus' = bus
            \/ bus' = Append(bus, Msg(k, q)) /\ agentq' = agentq
      <3>1. <<0, 0>> \in (0 .. MaxChats) \X (0 .. MaxCalls) /\ <<r, 0>> \in (0 .. MaxChats) \X (0 .. MaxCalls)
        BY BoundsAssumption DEF Runs
      <3>2. QED
        BY <1>12, <3>1 DEF PushExecuting, PopExecuting, Reply, Outside, Plain
    <2>2. Msg(k, q) \in Messages /\ Msg(k, q).kind \notin CardKinds
      BY MsgType DEF Msg, Kinds, AgentKinds, CardKinds
    <2>3. QED
      BY <1>8, <2>1, <2>2
  <1>13. QED
    BY <1>7, <1>10, <1>11, <1>12 DEF Agent, Tool, ReceivePaste, Register, SyncFails, Launch, Finish,
       Record, Unregister, ToolsDone, Outside, CardsInv

\* Every step keeps the cards and their agents together.
LEMMA CardsStep ==
  TypeOK /\ CallCounted /\ KindsInv /\ ChatsInv /\ FreshInv /\ CardsInv /\ [Next]_vars => CardsInv'
  <1> SUFFICES ASSUME TypeOK, CallCounted, KindsInv, ChatsInv, FreshInv, CardsInv, [Next]_vars
               PROVE  CardsInv'
    OBVIOUS
  <1>1. CASE UNCHANGED vars
    BY <1>1 DEF CardsInv, OnScreen, Asked, Blocked, Current
  <1>2. QED
    BY <1>1, CardsUser, CardsMoved, CardsHandled, CardsAgent DEF Next, Host

(* The calls: what is known of each, and where it stands.                  *)

known == <<proposed, answer, audit, approval, confirm, started>>

\* What the user's key can change is the call whose card is on screen.
LEMMA KeyAnswersCall ==
  ASSUME TypeOK, CardsInv, User
  PROVE  \/ UNCHANGED <<known, pc, call, offline>>
         \/ \E r \in Runs :
              LET q == Current(r)
              IN /\ q \in Requests /\ answer[q] = "none"
                 /\ UNCHANGED <<call, offline, proposed, audit, started>>
                 /\ \/ /\ pc[r] = "approval" /\ UNCHANGED <<pc, confirm>>
                       /\ \/ /\ answer' = [answer EXCEPT ![q] = "approve"]
                             /\ approval' = [approval EXCEPT ![q] = "user"]
                          \/ /\ answer' = [answer EXCEPT ![q] = "decline"]
                             /\ approval' = [approval EXCEPT ![q] = "declined"]
                    \/ /\ pc[r] = "paste" /\ UNCHANGED <<pc, confirm, approval>>
                       /\ \E a : answer' = [answer EXCEPT ![q] = a]
                    \/ /\ pc[r] = "sensitive" /\ UNCHANGED <<answer, approval>>
                       /\ \E choice \in {"refuse", "store", "nostore"} :
                            /\ confirm' = [confirm EXCEPT ![q] = choice]
                            /\ pc' = [pc EXCEPT ![r] = AfterSensitive(r, choice)]
  <1>1. CASE UNCHANGED <<known, pc, call, offline>>
    BY <1>1
  <1>2. ASSUME card # NoCard
        PROVE  \E r \in Runs : /\ Current(r) = card.req /\ Current(r) \in Requests
                               /\ answer[card.req] = "none" /\ pc[r] = card.kind /\ r = card.req[1]
    <2>1. Asked(card)
      BY <1>2 DEF CardsInv, OnScreen
    <2>2. QED
      BY <2>1 DEF Asked, Blocked, Requests, Msg
  <1>3. CASE Approve \/ Dismiss \/ SubmitGuidance
    <2>1. card # NoCard /\ card.kind = "approval"
      BY <1>3, NoCardIsNone DEF Approve, Dismiss, SubmitGuidance, ApprovalCard
    <2>2. PICK r \in Runs : Current(r) = card.req /\ Current(r) \in Requests
                           /\ answer[card.req] = "none" /\ pc[r] = "approval"
      BY <1>2, <2>1
    <2>3. QED
      BY <1>3, <2>2 DEF Approve, Dismiss, SubmitGuidance, AnswerApproval
  <1>4. CASE SubmitPaste \/ EscCancelPaste
    <2>1. card # NoCard /\ card.kind = "paste"
      BY <1>4, NoCardIsNone DEF SubmitPaste, EscCancelPaste, AnswerPaste
    <2>2. PICK r \in Runs : Current(r) = card.req /\ Current(r) \in Requests
                           /\ answer[card.req] = "none" /\ pc[r] = "paste"
      BY <1>2, <2>1
    <2>3. QED
      BY <1>4, <2>2 DEF SubmitPaste, EscCancelPaste, AnswerPaste
  <1>5. CASE Refuse \/ RunAndStore \/ RunNoStore
    <2>1. card # NoCard /\ card.kind = "sensitive"
      BY <1>5, NoCardIsNone DEF Refuse, RunAndStore, RunNoStore, AnswerSensitive
    <2>2. PICK r \in Runs : /\ Current(r) = card.req /\ Current(r) \in Requests
                           /\ answer[card.req] = "none" /\ pc[r] = "sensitive" /\ r = card.req[1]
      BY <1>2, <2>1
    <2>3. QED
      BY <1>5, <2>2 DEF Refuse, RunAndStore, RunNoStore, AnswerSensitive
  <1>6. QED
    BY <1>1, <1>3, <1>4, <1>5 DEF User, Submit, EscCancelCommand, EscCancelTurn, ToggleGuidance, Bash,
       CtrlC, BashReturns, known

\* Beside the user and the agents, only StartTurn touches a turn: it begins it.
LEMMA OthersKeepCalls ==
  ASSUME TypeOK, ChatsInv, ProgramEnds \/ Pump \/ Bridge \/ Host \/ UNCHANGED vars
  PROVE  \/ UNCHANGED <<known, pc, call, offline>>
         \/ \E r \in Runs : /\ pc[r] = "unused" /\ call[r] = 0
                             /\ pc' = [pc EXCEPT ![r] = "model"]
                             /\ \E off \in BOOLEAN : offline' = [offline EXCEPT ![r] = off]
                             /\ UNCHANGED <<known, call>>
  <1>1. CASE StartTurn
    <2>1. Head(bus) \in Sent(bus, {"chat"})
      BY <1>1, ReceiveOne DEF StartTurn, Event, ChatsInv, TypeOK, ChannelsTypeOK
    <2>2. ChatWaits(Head(bus)) /\ Head(bus).req[1] \in Runs
      BY <2>1, BoundsAssumption DEF ChatsInv, ChatWaits, Runs, TypeOK, TurnTypeOK
    <2>3. QED
      BY <1>1, <2>2 DEF StartTurn, Event, ChatsInv, ChatWaits, known
  <1>2. QED
    BY <1>1 DEF ProgramEnds, Pump, ShowCard, ShowExecuting, ShowReply, DropMessage, Deliver, Bridge,
       Host, RelayCommand, RelaySnapshot, RejectChat, HandleCancel, PresentAgentUI, HandleDone, Event, known

\* What the agent of turn r changes is its current call, or its next one.
LEMMA AgentKeepsOthers ==
  ASSUME TypeOK, CallCounted, NEW r \in Runs, Agent(r)
  PROVE  /\ \A s \in Runs \ {r} : pc'[s] = pc[s] /\ call'[s] = call[s]
         /\ UNCHANGED <<offline, confirm>>
         /\ call'[r] \in {call[r], call[r] + 1}
         /\ \A q \in Requests : q # Current(r)' =>
              /\ proposed'[q] = proposed[q] /\ answer'[q] = answer[q] /\ audit'[q] = audit[q]
              /\ approval'[q] = approval[q] /\ (q \in started' <=> q \in started)
  <1>0. TurnTypeOK /\ RequestTypeOK
    BY DEF TypeOK
  <1>1. ASSUME NEW cmd \in Commands, Propose(r, cmd)
        PROVE  /\ \A s \in Runs \ {r} : pc'[s] = pc[s] /\ call'[s] = call[s]
               /\ UNCHANGED <<offline, confirm>>
               /\ call'[r] \in {call[r], call[r] + 1}
               /\ \A q \in Requests : q # Current(r)' =>
                    /\ proposed'[q] = proposed[q] /\ answer'[q] = answer[q] /\ audit'[q] = audit[q]
                    /\ approval'[q] = approval[q] /\ (q \in started' <=> q \in started)
    <2>1. Current(r)' = <<r, call[r] + 1>> /\ call'[r] = call[r] + 1
      BY <1>0, <1>1 DEF Propose, Current, TurnTypeOK
    <2>2. UNCHANGED <<offline, confirm, answer, started>>
      BY <1>1 DEF Propose
    <2>3. \A s \in Runs \ {r} : pc'[s] = pc[s] /\ call'[s] = call[s]
      BY <1>0, <1>1 DEF Propose, Enter, Goto, TurnTypeOK
    <2>4. ASSUME NEW q \in Requests, q # <<r, call[r] + 1>>
          PROVE  proposed'[q] = proposed[q] /\ audit'[q] = audit[q] /\ approval'[q] = approval[q]
      BY <1>0, <1>1, <2>4 DEF Propose, RequestTypeOK
    <2>5. QED
      BY <2>1, <2>2, <2>3, <2>4
  <1>2. ASSUME ~\E cmd \in Commands : Propose(r, cmd)
        PROVE  /\ \A s \in Runs \ {r} : pc'[s] = pc[s]
               /\ UNCHANGED <<offline, confirm, call, proposed, approval>>
               /\ \A q \in Requests : q # Current(r) =>
                    /\ answer'[q] = answer[q] /\ audit'[q] = audit[q] /\ (q \in started' <=> q \in started)
    BY <1>0, <1>2 DEF Agent, Tool, ReceiveApproval, ReceivePaste, Register, SyncFails, Enter, Goto,
       PushExecuting, Launch, Finish, Record, PopExecuting, Unregister, ToolsDone, Reply, TurnTypeOK,
       RequestTypeOK
  <1>3. QED
    BY <1>1, <1>2 DEF Agent, Current

\* Nothing happens to a call before it is made.
LEMMA FreshStep ==
  TypeOK /\ CallCounted /\ ChatsInv /\ CardsInv /\ FreshInv /\ [Next]_vars => FreshInv'
  <1> SUFFICES ASSUME TypeOK, CallCounted, ChatsInv, CardsInv, FreshInv, [Next]_vars,
                      NEW q \in Requests, q[2] > call'[q[1]]
               PROVE  Untouched(q)'
    BY DEF FreshInv
  <1>0. TurnTypeOK /\ RequestTypeOK /\ q[1] \in Runs /\ q[2] \in Nat
    BY DEF TypeOK, Requests
  <1>1. CASE call' = call /\ UNCHANGED known
    BY <1>1 DEF FreshInv, Untouched, known
  <1>2. CASE User
    <2>1. ASSUME NEW r \in Runs, Current(r) \in Requests, UNCHANGED call
          PROVE  q # Current(r) /\ Untouched(q)
      BY <1>0, <2>1 DEF Current, FreshInv, TurnTypeOK
    <2>2. QED
      BY <1>0, <1>1, <1>2, <2>1, KeyAnswersCall DEF Untouched, RequestTypeOK
  <1>3. CASE ProgramEnds \/ Pump \/ Bridge \/ Host \/ UNCHANGED vars
    BY <1>1, <1>3, OthersKeepCalls
  <1>4. ASSUME NEW r \in Runs, Agent(r) PROVE Untouched(q)'
    <2>1. call'[q[1]] >= call[q[1]] /\ call[q[1]] \in Nat /\ call'[q[1]] \in Nat
      BY <1>0, <1>4, AgentKeepsOthers DEF TurnTypeOK
    <2>2. Untouched(q)
      BY <1>0, <2>1 DEF FreshInv
    <2>3. q # Current(r)'
      BY <1>0, <2>1 DEF Current
    <2>4. QED
      BY <1>4, <2>2, <2>3, AgentKeepsOthers DEF Untouched
  <1>5. QED
    BY <1>2, <1>3, <1>4 DEF Next

\* A key moves its own call on, with the consent it gives.
LEMMA ConsentUser ==
  ASSUME TypeOK, CallCounted, CardsInv, StageInv, HistoryInv, User
  PROVE  StageInv' /\ HistoryInv'
  <1>0. TurnTypeOK /\ RequestTypeOK
    BY DEF TypeOK
  <1>1. CASE UNCHANGED <<known, pc, call, offline>>
    BY <1>1 DEF StageInv, Stage, HistoryInv, History, Approved, Permitted, Confirmed, Current, known
  <1>2. ASSUME NEW r \in Runs, Current(r) \in Requests, pc[r] \in CardKinds,
               UNCHANGED <<call, offline, proposed, audit, started>>,
               \A s \in Runs \ {r} : pc'[s] = pc[s],
               \A q \in Requests : q # Current(r) =>
                 answer'[q] = answer[q] /\ approval'[q] = approval[q] /\ confirm'[q] = confirm[q],
               Stage(r)'
        PROVE  StageInv' /\ HistoryInv'
    <2>1. ASSUME NEW s \in Runs \ {r} PROVE Stage(s)'
      <3>1. CASE pc[s] \in InCall
        <4>1. Current(s) \in Requests /\ Current(s) # Current(r) /\ Current(s)' = Current(s)
          BY <1>2, <3>1 DEF Current, CallCounted
        <4>2. QED
          BY <1>2, <4>1 DEF StageInv, Stage, Approved, Permitted, Confirmed
      <3>2. CASE pc[s] \notin InCall
        BY <1>0, <1>2, <3>2 DEF Stage, InCall, PCs, CardKinds, TurnTypeOK
      <3>3. QED
        BY <3>1, <3>2
    <2>2. ASSUME NEW q \in Requests PROVE History(q)'
      <3>1. History(q)
        BY DEF HistoryInv
      <3>2. CASE q = Current(r)
        <4>1. q \notin started /\ "result" \notin audit[q]
          BY <1>2, <3>2 DEF StageInv, Stage
        <4>2. QED
          BY <1>2, <3>1, <4>1 DEF History
      <3>3. CASE q # Current(r)
        BY <1>2, <3>1, <3>3 DEF History, Approved, Permitted, Confirmed
      <3>4. QED
        BY <3>2, <3>3
    <2>3. QED
      BY <1>2, <2>1, <2>2 DEF StageInv, HistoryInv
  <1>3. ASSUME NEW r \in Runs,
               LET q == Current(r)
               IN /\ q \in Requests /\ answer[q] = "none"
                  /\ UNCHANGED <<call, offline, proposed, audit, started>>
                  /\ \/ /\ pc[r] = "approval" /\ UNCHANGED <<pc, confirm>>
                        /\ \/ /\ answer' = [answer EXCEPT ![q] = "approve"]
                              /\ approval' = [approval EXCEPT ![q] = "user"]
                           \/ /\ answer' = [answer EXCEPT ![q] = "decline"]
                              /\ approval' = [approval EXCEPT ![q] = "declined"]
                     \/ /\ pc[r] = "paste" /\ UNCHANGED <<pc, confirm, approval>>
                        /\ \E a : answer' = [answer EXCEPT ![q] = a]
                     \/ /\ pc[r] = "sensitive" /\ UNCHANGED <<answer, approval>>
                        /\ \E choice \in {"refuse", "store", "nostore"} :
                             /\ confirm' = [confirm EXCEPT ![q] = choice]
                             /\ pc' = [pc EXCEPT ![r] = AfterSensitive(r, choice)]
        PROVE  StageInv' /\ HistoryInv'
    <2> DEFINE q == Current(r)
    <2>1. q \in Requests /\ UNCHANGED <<call, offline, proposed, audit, started>> /\ q' = q /\ Stage(r)
      BY <1>3 DEF Current, StageInv
    <2> HIDE DEF q
    <2>2. CASE pc[r] = "approval"
      <3>1. /\ UNCHANGED <<pc, confirm>>
            /\ \/ /\ answer' = [answer EXCEPT ![q] = "approve"]
                  /\ approval' = [approval EXCEPT ![q] = "user"]
               \/ /\ answer' = [answer EXCEPT ![q] = "decline"]
                  /\ approval' = [approval EXCEPT ![q] = "declined"]
        BY <1>3, <2>2 DEF q
      <3>2. Stage(r)'
        BY <1>0, <2>1, <2>2, <3>1 DEF Stage, RequestTypeOK, q
      <3>3. QED
        BY <1>0, <1>2, <2>1, <2>2, <3>1, <3>2 DEF RequestTypeOK, CardKinds, q
    <2>3. CASE pc[r] = "paste"
      <3>1. UNCHANGED <<pc, confirm, approval>> /\ \E a : answer' = [answer EXCEPT ![q] = a]
        BY <1>3, <2>3 DEF q
      <3>2. Stage(r)'
        BY <2>1, <2>3, <3>1 DEF Stage, q
      <3>3. QED
        BY <1>0, <1>2, <2>1, <2>3, <3>1, <3>2 DEF RequestTypeOK, CardKinds, q
    <2>4. CASE pc[r] = "sensitive"
      <3>1. PICK choice \in {"refuse", "store", "nostore"} :
              /\ UNCHANGED <<answer, approval>>
              /\ confirm' = [confirm EXCEPT ![q] = choice]
              /\ pc' = [pc EXCEPT ![r] = AfterSensitive(r, choice)]
        BY <1>3, <2>4 DEF q
      <3>2. pc'[r] = AfterSensitive(r, choice) /\ confirm'[q] = choice
        BY <1>0, <2>1, <3>1 DEF TurnTypeOK, RequestTypeOK
      <3>3. Stage(r)'
        BY <2>1, <2>4, <3>1, <3>2
        DEF Stage, AfterSensitive, Approved, Permitted, Confirmed, CardKinds, q
      <3>4. QED
        BY <1>0, <1>2, <2>1, <2>4, <3>1, <3>3 DEF TurnTypeOK, RequestTypeOK, CardKinds, q
    <2>5. QED
      BY <1>3, <2>2, <2>3, <2>4
  <1>4. QED
    BY <1>1, <1>3, KeyAnswersCall

\* A turn that begins has run nothing; nobody else touches a call.
LEMMA ConsentOthers ==
  ASSUME TypeOK, CallCounted, ChatsInv, FreshInv, StageInv, HistoryInv,
         ProgramEnds \/ Pump \/ Bridge \/ Host \/ UNCHANGED vars
  PROVE  StageInv' /\ HistoryInv'
  <1>1. CASE UNCHANGED <<known, pc, call, offline>>
    BY <1>1 DEF StageInv, Stage, HistoryInv, History, Approved, Permitted, Confirmed, Current, known
  <1>2. ASSUME NEW r \in Runs, pc[r] = "unused", call[r] = 0, pc' = [pc EXCEPT ![r] = "model"],
               NEW off \in BOOLEAN, offline' = [offline EXCEPT ![r] = off], UNCHANGED <<known, call>>
        PROVE  StageInv' /\ HistoryInv'
    <2>1. pc'[r] = "model" /\ \A s \in Runs \ {r} : pc'[s] = pc[s] /\ offline'[s] = offline[s]
      BY <1>2 DEF TypeOK, TurnTypeOK
    <2>2. ASSUME NEW s \in Runs PROVE Stage(s)'
      <3>1. CASE s = r
        BY <2>1, <3>1 DEF Stage, CardKinds
      <3>2. CASE s # r
        BY <1>2, <2>1, <3>2 DEF StageInv, Stage, Approved, Permitted, Confirmed, Current, known
      <3>3. QED
        BY <3>1, <3>2
    <2>3. ASSUME NEW q \in Requests PROVE History(q)'
      <3>1. History(q) /\ q[1] \in Runs /\ q[2] \in Nat /\ q[2] > 0
        BY BoundsAssumption DEF HistoryInv, Requests
      <3>2. CASE q[1] = r
        BY <1>2, <3>1, <3>2 DEF FreshInv, Untouched, History, known
      <3>3. CASE q[1] # r
        BY <1>2, <2>1, <3>1, <3>3 DEF History, Approved, Permitted, Confirmed, known
      <3>4. QED
        BY <3>2, <3>3
    <2>4. QED
      BY <2>2, <2>3 DEF StageInv, HistoryInv
  <1>3. QED
    BY <1>1, <1>2, OthersKeepCalls

\* A new call starts from nothing: asked, or allowed with the entry that says so.
LEMMA ConsentPropose ==
  ASSUME TypeOK, FreshInv, NEW r \in Runs, NEW cmd \in Commands, Propose(r, cmd)
  PROVE  Stage(r)' /\ History(Current(r))' /\ Current(r)' \in Requests
  <1>0. TurnTypeOK /\ RequestTypeOK
    BY DEF TypeOK
  <1> DEFINE slash == cmd \in Skills /\ named[r] = cmd
  <1>1. PICK q \in Requests :
          q = <<r, call[r] + 1>> /\ Current(r)' = q /\ q[1] = r /\ q[2] > call[r]
    BY <1>0, BoundsAssumption DEF Propose, CallsLeft, Current, TurnTypeOK, Requests
  <1>2. Untouched(q)
    BY <1>1 DEF FreshInv
  <1>3. proposed'[q] = cmd /\ UNCHANGED <<answer, confirm, started, offline>>
    BY <1>0, <1>1 DEF Propose, RequestTypeOK
  <1>4. q \notin started' /\ confirm'[q] = "none" /\ answer'[q] = "none"
    BY <1>2, <1>3 DEF Untouched
  <1> USE DEF Enter, Goto, PastApproval
  <1>5. CASE offline[r]
    <2>1. pc'[r] \in {"sensitive", "paste"} /\ UNCHANGED <<audit, approval>> /\ offline'[r]
      BY <1>0, <1>3, <1>5 DEF Propose, TurnTypeOK
    <2>2. QED
      BY <1>1, <1>2, <1>4, <2>1 DEF Stage, History, Untouched
  <1>6. CASE ~offline[r] /\ (cmd \in AllowListed \/ slash)
    <2>1. /\ pc'[r] \in {"sensitive", "ready"} /\ (pc'[r] = "ready" => cmd \notin Sensitive)
          /\ ~offline'[r]
      BY <1>0, <1>3, <1>6 DEF Propose, TurnTypeOK
    <2>2. /\ audit'[q] = audit[q] \cup {"approved"}
          /\ approval'[q] = IF slash THEN "user" ELSE "allowed"
      <3>1. /\ audit' = [audit EXCEPT ![q] = @ \cup {"approved"}]
            /\ approval' = [approval EXCEPT ![q] = IF slash THEN "user" ELSE "allowed"]
        BY <1>1, <1>6 DEF Propose
      <3>2. QED
        BY <1>0, <3>1 DEF RequestTypeOK
    <2>3. audit'[q] = {"approved"}
      <3>1. audit[q] = {}
        BY <1>2 DEF Untouched
      <3>2. QED
        BY <2>2, <3>1
    <2>4. Approved(q)'
      BY <1>1, <1>3, <1>6, <2>2, <2>3 DEF Approved, Permitted
    <2>5. pc'[r] = "ready" => Confirmed(q)'
      BY <1>3, <2>1 DEF Confirmed, Propose
    <2>6. QED
      BY <1>1, <1>4, <2>1, <2>3, <2>4, <2>5 DEF Stage, History
  <1>7. CASE ~offline[r] /\ ~(cmd \in AllowListed \/ slash)
    <2>1. pc'[r] = "approval" /\ UNCHANGED <<audit, approval>> /\ ~offline'[r]
      BY <1>0, <1>3, <1>7 DEF Propose, TurnTypeOK
    <2>2. QED
      BY <1>1, <1>2, <1>4, <2>1 DEF Stage, History, Untouched
  <1>8. QED
    BY <1>5, <1>6, <1>7

\* Within a call the consent is collected before the command is launched.
LEMMA ConsentTool ==
  ASSUME TypeOK, CallCounted, StageInv, HistoryInv, NEW r \in Runs, Agent(r),
         ~\E cmd \in Commands : Propose(r, cmd), Current(r) \in Requests
  PROVE  Stage(r)' /\ History(Current(r))' /\ Current(r)' = Current(r)
  <1>0. TurnTypeOK /\ RequestTypeOK /\ Stage(r) /\ History(Current(r))
    BY DEF TypeOK, StageInv, HistoryInv
  <1>1. UNCHANGED <<call, offline, confirm, proposed, approval>>
    BY DEF Agent, Tool, ReceiveApproval, ReceivePaste, Register, SyncFails, PushExecuting, Launch, Finish,
       Record, PopExecuting, Unregister, ToolsDone, Reply
  <1>2. PICK q \in Requests : q = Current(r) /\ q[1] = r
    BY DEF Current
  <1>3. Current(r)' = q
    BY <1>1, <1>2 DEF Current
  <1>4. CASE ReceiveApproval(r)
    <2>1. pc[r] = "approval" /\ UNCHANGED started /\ ~offline[r]
      BY <1>0, <1>4 DEF ReceiveApproval, At, Stage
    <2>2. audit[q] = {} /\ q \notin started /\ confirm[q] = "none"
      BY <1>0, <1>2, <2>1 DEF Stage, CardKinds
    <2>3. CASE answer[q] = "approve"
      <3>1. audit'[q] = {"approved"} /\ pc'[r] = PastApproval(proposed[q])
        BY <1>0, <1>2, <1>4, <2>2, <2>3 DEF ReceiveApproval, Enter, Goto, TurnTypeOK, RequestTypeOK
      <3>2. approval[q] = "user"
        BY <1>0, <1>2, <2>1, <2>3 DEF Stage
      <3>3. QED
        BY <1>1, <1>2, <1>3, <2>1, <2>2, <3>1, <3>2
        DEF Stage, History, Approved, Permitted, Confirmed, PastApproval
    <2>4. CASE answer[q] # "approve"
      <3>1. audit'[q] = {"declined"} /\ pc'[r] = "tools"
        BY <1>0, <1>2, <1>4, <2>2, <2>4 DEF ReceiveApproval, Enter, Goto, TurnTypeOK, RequestTypeOK
      <3>2. QED
        BY <1>2, <1>3, <2>1, <2>2, <3>1 DEF Stage, History, CardKinds
    <2>5. QED
      BY <2>3, <2>4
  <1>5. CASE ReceivePaste(r)
    <2>1. pc[r] = "paste" /\ pc'[r] = "tools" /\ UNCHANGED started
      BY <1>0, <1>5 DEF ReceivePaste, At, Goto, TurnTypeOK
    <2>2. q \notin started
      BY <1>0, <1>2, <2>1 DEF Stage, CardKinds
    <2>3. PICK secrets \in BOOLEAN :
            audit' = IF answer[q] = "cancelled" THEN audit
                     ELSE [audit EXCEPT ![q] = @ \cup {"proposal"} \cup
                             (IF Stored(q, secrets) THEN {"result"} ELSE {})]
      BY <1>2, <1>5 DEF ReceivePaste
    <2>4. /\ "approved" \in audit'[q] => "approved" \in audit[q]
          /\ "declined" \in audit'[q] => "declined" \in audit[q]
          /\ "result" \in audit'[q] => "result" \in audit[q] \/ Stored(q, secrets)
      BY <1>0, <2>3 DEF RequestTypeOK
    <2>5. Stored(q, secrets) => confirm[q] \notin {"refuse", "nostore"}
      BY DEF Stored
    <2>6. QED
      BY <1>0, <1>1, <1>2, <1>3, <2>1, <2>2, <2>4, <2>5 DEF Stage, History, CardKinds
  <1>6. CASE Record(r)
    <2>1. pc'[r] = "recorded" /\ UNCHANGED started
      BY <1>0, <1>6 DEF Record, Goto, TurnTypeOK
    <2>2. PICK secrets \in BOOLEAN :
            audit' = IF Stored(q, secrets) /\ ~Cancelled(r)
                     THEN [audit EXCEPT ![q] = @ \cup {"result"}] ELSE audit
      BY <1>2, <1>6 DEF Record
    <2>3. /\ "approved" \in audit'[q] <=> "approved" \in audit[q]
          /\ "declined" \in audit'[q] <=> "declined" \in audit[q]
          /\ "result" \in audit'[q] => "result" \in audit[q] \/ Stored(q, secrets)
      BY <1>0, <2>2 DEF RequestTypeOK
    <2>4. Stored(q, secrets) => confirm[q] \notin {"refuse", "nostore"}
      BY DEF Stored
    <2>5. QED
      BY <1>0, <1>1, <1>2, <1>3, <2>1, <2>3, <2>4 DEF Stage, History, Approved, Permitted, Confirmed, CardKinds
  <1>7. CASE Launch(r)
    <2>1. pc[r] = "executing" /\ pc'[r] = "running" /\ started' = started \cup {q} /\ UNCHANGED audit
      BY <1>0, <1>2, <1>7 DEF Launch, At, Goto, TurnTypeOK
    <2>2. Approved(q) /\ Confirmed(q) /\ ~offline[q[1]]
      BY <1>0, <1>2, <2>1 DEF Stage
    <2>3. QED
      BY <1>0, <1>1, <1>2, <1>3, <2>1, <2>2 DEF Stage, History, Approved, Permitted, Confirmed, CardKinds
  <1>8. CASE \/ Register(r) \/ SyncFails(r) \/ PushExecuting(r) \/ Finish(r) \/ PopExecuting(r)
             \/ Unregister(r) \/ ToolsDone(r) \/ Reply(r)
    <2>1. /\ UNCHANGED <<answer, audit, started>> /\ pc'[r] \notin CardKinds
          /\ pc'[r] \in {"registered", "executing"} => pc[r] \in {"ready", "registered"}
          /\ pc'[r] # "ready"
      BY <1>0, <1>8 DEF Register, SyncFails, PushExecuting, Finish, PopExecuting, Unregister, ToolsDone,
         Reply, At, Goto, TurnTypeOK, CardKinds
    <2>2. QED
      BY <1>0, <1>1, <1>2, <1>3, <2>1 DEF Stage, History, Approved, Permitted, Confirmed, CardKinds
  <1>9. QED
    BY <1>2, <1>3, <1>4, <1>5, <1>6, <1>7, <1>8 DEF Agent, Tool

\* The agent of turn r touches no call but its own.
LEMMA ConsentAgent ==
  ASSUME TypeOK, CallCounted, FreshInv, StageInv, HistoryInv, NEW r \in Runs, Agent(r)
  PROVE  StageInv' /\ HistoryInv'
  <1>0. TurnTypeOK
    BY DEF TypeOK
  <1>1. /\ \A s \in Runs \ {r} : pc'[s] = pc[s] /\ call'[s] = call[s]
        /\ UNCHANGED <<offline, confirm>>
        /\ \A q \in Requests : q # Current(r)' =>
              /\ proposed'[q] = proposed[q] /\ answer'[q] = answer[q] /\ audit'[q] = audit[q]
              /\ approval'[q] = approval[q] /\ (q \in started' <=> q \in started)
    BY AgentKeepsOthers
  <1>2. Stage(r)' /\ (Current(r)' \in Requests => History(Current(r))')
    <2>1. CASE \E cmd \in Commands : Propose(r, cmd)
      BY <2>1, ConsentPropose
    <2>2. CASE (~\E cmd \in Commands : Propose(r, cmd)) /\ Current(r) \in Requests
      BY <2>2, ConsentTool
    <2>3. CASE (~\E cmd \in Commands : Propose(r, cmd)) /\ Current(r) \notin Requests
      <3>1. pc[r] \in {"model", "tools"}
        BY <1>0, <2>3 DEF CallCounted, InCall, TurnTypeOK, Agent, Tool, ReceiveApproval, ReceivePaste,
           Register, SyncFails, PushExecuting, Launch, Finish, Record, PopExecuting, Unregister, ToolsDone,
           Reply, At
      <3>2. pc'[r] \in {"model", "finished"} /\ call' = call
        BY <1>0, <2>3, <3>1 DEF Agent, Tool, ReceiveApproval, ReceivePaste, Register, SyncFails,
           PushExecuting, Launch, Finish, Record, PopExecuting, Unregister, ToolsDone, Reply, At, Goto,
           TurnTypeOK
      <3>3. QED
        BY <2>3, <3>2 DEF Stage, CardKinds, Current
    <2>4. QED
      BY <2>1, <2>2, <2>3
  <1>3. ASSUME NEW s \in Runs \ {r} PROVE Stage(s)'
    <2>1. CASE pc[s] \in InCall
      <3>1. Current(s) \in Requests /\ Current(s) # Current(r)' /\ Current(s)' = Current(s)
        BY <1>1, <2>1 DEF Current, CallCounted
      <3>2. QED
        BY <1>1, <3>1 DEF StageInv, Stage, Approved, Permitted, Confirmed
    <2>2. CASE pc[s] \notin InCall
      BY <1>0, <1>1, <2>2 DEF Stage, InCall, PCs, CardKinds, TurnTypeOK
    <2>3. QED
      BY <2>1, <2>2
  <1>4. ASSUME NEW q \in Requests, q # Current(r)' PROVE History(q)'
    BY <1>1, <1>4 DEF HistoryInv, History, Approved, Permitted, Confirmed
  <1>5. QED
    BY <1>2, <1>3, <1>4 DEF StageInv, HistoryInv

-----------------------------------------------------------------------------
\* The invariant holds before the first key.
LEMMA ConsentInit == Init => ConsentInv
  <1> SUFFICES ASSUME Init PROVE ConsentInv
    OBVIOUS
  <1>1. TypeOK
    BY InitTypeOK
  <1>2. \A K : Sent(<<>>, K) = {} /\ Once(<<>>, K)
    BY DEF Sent, Once
  <1>3. CallCounted /\ KindsInv /\ FreshInv
    BY DEF Init, CallCounted, InCall, KindsInv, Range, FreshInv, Untouched
  <1>4. ChatsInv
    BY <1>2 DEF Init, ChatsInv, Runs
  <1>5. CardsInv
    <2>1. OnScreen = {}
      BY DEF Init, OnScreen
    <2>2. QED
      BY <1>2, <2>1 DEF Init, CardsInv
  <1>6. StageInv /\ HistoryInv
    BY DEF Init, StageInv, Stage, HistoryInv, History, CardKinds
  <1>7. QED
    BY <1>1, <1>3, <1>4, <1>5, <1>6 DEF ConsentInv

\* Every step keeps the invariant.
LEMMA ConsentStep == ConsentInv /\ [Next]_vars => ConsentInv'
  <1> SUFFICES ASSUME ConsentInv, [Next]_vars PROVE ConsentInv'
    OBVIOUS
  <1> USE DEF ConsentInv
  <1>1. TypeOK'
    BY HostTypeStep, ChannelsTypeStep, ScreenTypeStep, TurnTypeStep, RequestTypeStep DEF TypeOK
  <1>2. CallCounted'
    BY CallCountedStep
  <1>3. KindsInv' /\ ChatsInv' /\ CardsInv' /\ FreshInv'
    BY KindsStep, ChatsStep, CardsStep, FreshStep
  <1>4. StageInv' /\ HistoryInv'
    BY ConsentUser, ConsentOthers, ConsentAgent DEF Next
  <1>5. QED
    BY <1>1, <1>2, <1>3, <1>4

\* The inductive invariant of the consent and card properties.
THEOREM ConsentInvariant == Spec => []ConsentInv
  BY ConsentInit, ConsentStep, PTL DEF Spec

\* Whatever the model proposes and the user does, in whatever order the messages
\* arrive: execute_command and run_skill start a command only with the consent it
\* needs.
THEOREM ConsentCorrect == Spec => []NoUnconsentedRun
  <1>1. ConsentInv => NoUnconsentedRun
    BY DEF ConsentInv, TypeOK, RequestTypeOK, HistoryInv, History, Approved, Permitted, Confirmed,
       NoUnconsentedRun
  <1>2. QED
    BY <1>1, ConsentInvariant, PTL

\* The session file has the approval before the command starts, never both
\* decisions, and no output the user asked not to store.
THEOREM AuditCorrect == Spec => []AuditBeforeRun
  <1>1. ConsentInv => AuditBeforeRun
    BY DEF ConsentInv, HistoryInv, History, Approved, AuditBeforeRun
  <1>2. QED
    BY <1>1, ConsentInvariant, PTL

\* The card on screen is always the question its agent is blocked on.
THEOREM CardCorrect == Spec => []CardIsLive
  <1>1. ConsentInv => CardIsLive
    <2> SUFFICES ASSUME ConsentInv PROVE CardIsLive
      OBVIOUS
    <2>1. card # NoCard => Asked(card)
      BY DEF ConsentInv, CardsInv, OnScreen
    <2>2. guiding => card.kind = "approval"
      BY DEF ConsentInv, CardsInv
    <2>3. QED
      BY <2>1, <2>2 DEF CardIsLive, Asked
  <1>2. QED
    BY <1>1, ConsentInvariant, PTL

-----------------------------------------------------------------------------
\* A kind is in a channel if a message of that kind is.
LEMMA HasSent == ASSUME NEW s, NEW k PROVE Has(s, k) <=> Sent(s, {k}) # {}
  BY DEF Has, Sent

\* Nothing that concerns the controller's bookkeeping has happened.
LEMMA TurnSame ==
  ASSUME TurnInv, UNCHANGED host, \A r \in Runs : Live(r)' = Live(r),
         Sent(bus', {"done"}) = Sent(bus, {"done"}), Once(bus', {"done"})
  PROVE  TurnInv'
  BY HasSent DEF TurnInv, OneTurn

\* Beside the completion, nothing ends or begins a turn but StartTurn.
LEMMA TurnUser == TypeOK /\ TurnInv /\ (User \/ ProgramEnds \/ Pump \/ RelaySnapshot) => TurnInv'
  <1> SUFFICES ASSUME TypeOK, TurnInv, User \/ ProgramEnds \/ Pump \/ RelaySnapshot PROVE TurnInv'
    OBVIOUS
  <1>1. bus' = bus /\ UNCHANGED host
    BY DEF User, Submit, EscCancelCommand, EscCancelTurn, Approve, Dismiss, SubmitGuidance, AnswerApproval,
       ToggleGuidance, SubmitPaste, EscCancelPaste, AnswerPaste, Refuse, RunAndStore, RunNoStore,
       AnswerSensitive, Bash, CtrlC, BashReturns, ProgramEnds, Pump, ShowCard, ShowExecuting, ShowReply,
       DropMessage, Deliver, RelaySnapshot
  <1>2. CASE UNCHANGED pc
    BY <1>1, <1>2, TurnSame DEF TurnInv, Live
  <1>3. CASE Refuse \/ RunAndStore \/ RunNoStore
    <2>1. PICK choice : AnswerSensitive(choice)
      BY <1>3 DEF Refuse, RunAndStore, RunNoStore
    <2>2. /\ pc[card.req[1]] = "sensitive"
          /\ pc' = [pc EXCEPT ![card.req[1]] = AfterSensitive(card.req[1], choice)]
          /\ AfterSensitive(card.req[1], choice) \in {"tools", "paste", "ready"}
      BY <2>1 DEF AnswerSensitive, AfterSensitive
    <2>3. \A r \in Runs : Live(r)' = Live(r)
      BY <2>2 DEF Live, TypeOK, TurnTypeOK
    <2>4. QED
      BY <1>1, <2>3, TurnSame DEF TurnInv
  <1>4. QED
    BY <1>2, <1>3 DEF User, Submit, EscCancelCommand, EscCancelTurn, Approve, Dismiss, SubmitGuidance,
       AnswerApproval, ToggleGuidance, SubmitPaste, EscCancelPaste, AnswerPaste, Bash, CtrlC, BashReturns,
       ProgramEnds, Pump, ShowCard, ShowExecuting, ShowReply, DropMessage, Deliver, RelaySnapshot

\* The controller starts a turn when none is alive and no completion is pending.
LEMMA TurnHost ==
  TypeOK /\ KindsInv /\ ChatsInv /\ TurnInv /\ (Bridge \/ Host) => TurnInv'
  <1> SUFFICES ASSUME TypeOK, KindsInv, ChatsInv, TurnInv, Bridge \/ Host PROVE TurnInv'
    OBVIOUS
  <1>0. /\ cmds \in Seq(Messages) /\ bus \in Seq(Messages) /\ agentq \in Seq(Messages)
        /\ Once(bus, {"done"})
    BY DEF TypeOK, ChannelsTypeOK, TurnInv
  <1>1. ASSUME NEW m \in Messages, m.kind # "done", bus' = Append(bus, m), UNCHANGED <<host, pc>>
        PROVE  TurnInv'
    <2>1. Sent(bus', {"done"}) = Sent(bus, {"done"}) /\ Once(bus', {"done"})
      BY <1>0, <1>1, SendOther
    <2>2. QED
      BY <1>1, <2>1, TurnSame DEF Live
  <1>2. CASE RelayCommand
    <2>1. Head(cmds) \in Messages /\ Head(cmds).kind # "done" /\ bus' = Append(bus, Head(cmds))
      BY <1>0, <1>2, QueueHead, RangeTail DEF RelayCommand, Published, KindsInv, CmdKinds
    <2>2. QED
      BY <1>1, <1>2, <2>1 DEF RelayCommand
  <1>3. CASE Bridge
    <2>1. Head(agentq) \in Messages /\ Head(agentq).kind # "done" /\ bus' = Append(bus, Head(agentq))
      BY <1>0, <1>3, QueueHead, RangeTail DEF Bridge, KindsInv, AgentKinds, CardKinds
    <2>2. QED
      BY <1>1, <1>3, <2>1 DEF Bridge
  <1>4. ASSUME bus # <<>>, bus' = Tail(bus), Head(bus).kind # "done"
        PROVE  Sent(bus', {"done"}) = Sent(bus, {"done"}) /\ Once(bus', {"done"})
    BY <1>0, <1>4, ReceiveOther
  <1>5. CASE RejectChat \/ HandleCancel \/ PresentAgentUI
    <2>1. bus # <<>> /\ bus' = Tail(bus) /\ Head(bus).kind # "done" /\ UNCHANGED <<host, pc>>
      BY <1>5 DEF RejectChat, HandleCancel, PresentAgentUI, Event, AgentKinds, CardKinds
    <2>2. QED
      BY <1>4, <2>1, TurnSame DEF Live
  <1>6. CASE StartTurn
    <2>1. bus # <<>> /\ bus' = Tail(bus) /\ Head(bus).kind = "chat" /\ ~llmRunning
      BY <1>6 DEF StartTurn, Event, TurnMayStart
    <2>2. Sent(bus', {"done"}) = {} /\ Once(bus', {"done"}) /\ \A r \in Runs : ~Live(r)
      BY <1>4, <2>1, HasSent DEF TurnInv, OneTurn
    <2>3. Head(bus) \in Sent(bus, {"chat"})
      BY <1>0, <2>1, ReceiveOne DEF ChatsInv
    <2>4. PICK r \in Runs : r = Head(bus).req[1]
      BY <2>3, BoundsAssumption DEF ChatsInv, ChatWaits, Runs, TypeOK, TurnTypeOK
    <2>5. /\ pc' = [pc EXCEPT ![r] = "model"] /\ llmRunning' = TRUE /\ fsm' = "llm_running"
          /\ llmCancel' = r /\ r # NoRun
      BY <1>6, <2>4 DEF StartTurn, Runs, NoRun
    <2>6. \A s \in Runs : Live(s)' <=> s = r
      BY <2>2, <2>5 DEF Live, TypeOK, TurnTypeOK
    <2>7. QED
      BY <2>2, <2>5, <2>6, HasSent DEF TurnInv, OneTurn
  <1>7. CASE HandleDone
    <2>1. /\ bus # <<>> /\ bus' = Tail(bus) /\ Head(bus).kind \in {"done"} /\ UNCHANGED pc
          /\ llmRunning' = FALSE /\ fsm' = "idle" /\ llmCancel' = NoRun
      BY <1>7 DEF HandleDone, Event
    <2>2. /\ Head(bus) \in Sent(bus, {"done"}) /\ Once(bus', {"done"})
          /\ Sent(bus', {"done"}) = Sent(bus, {"done"}) \ {Head(bus)}
      BY <1>0, <2>1, ReceiveOne
    <2>3. Sent(bus', {"done"}) = {} /\ \A r \in Runs : ~Live(r)
      BY <2>2 DEF TurnInv
    <2>4. \A r \in Runs : ~Live(r)'
      BY <2>1, <2>3 DEF Live
    <2>5. QED
      BY <2>1, <2>2, <2>3, <2>4, HasSent DEF TurnInv, OneTurn
  <1>8. CASE RelaySnapshot
    BY <1>8, TurnUser
  <1>9. QED
    BY <1>2, <1>3, <1>5, <1>6, <1>7, <1>8 DEF Host

\* The agent ends its own turn, with one completion.
LEMMA TurnAgent ==
  ASSUME TypeOK, TurnInv, NEW r \in Runs, Agent(r)
  PROVE  TurnInv'
  <1>0. /\ bus \in Seq(Messages) /\ Once(bus, {"done"}) /\ pc \in [Runs -> PCs]
        /\ UNCHANGED host
    BY DEF TypeOK, ChannelsTypeOK, TurnInv, TurnTypeOK, Agent, Propose, Tool, ReceiveApproval,
       ReceivePaste, Register, SyncFails, PushExecuting, Launch, Finish, Record, PopExecuting, Unregister,
       ToolsDone, Reply, Outside
  <1>1. CASE Reply(r)
    <2> DEFINE m == Msg("done", <<r, 0>>)
    <2>1. m \in Messages /\ m.kind \in {"done"}
      BY BoundsAssumption, MsgType DEF Runs, Kinds, Msg
    <2>2. Live(r) /\ pc' = [pc EXCEPT ![r] = "finished"] /\ bus' = Append(bus, m)
      BY <1>1 DEF Reply, At, Goto, Live
    <2>3. Sent(bus, {"done"}) = {} /\ llmCancel = r /\ llmRunning
      BY <2>2 DEF TurnInv, OneTurn
    <2>4. Sent(bus', {"done"}) = {m} /\ Once(bus', {"done"})
      BY <1>0, <2>1, <2>2, <2>3, SendNew
    <2>5. \A s \in Runs : ~Live(s)'
      BY <1>0, <2>2 DEF TurnInv, OneTurn, Live
    <2>6. QED
      BY <1>0, <2>3, <2>4, <2>5, HasSent DEF TurnInv, OneTurn
  <1>2. CASE ~Reply(r)
    <2>1. bus' = bus
      BY <1>2 DEF Agent, Propose, Tool, ReceiveApproval, ReceivePaste, Register, SyncFails,
         PushExecuting, Launch, Finish, Record, PopExecuting, Unregister, ToolsDone
    <2>2. pc[r] \notin {"unused", "finished"}
      BY <1>2 DEF Agent, Propose, Tool, ReceiveApproval, ReceivePaste, Register, SyncFails,
         PushExecuting, Launch, Finish, Record, PopExecuting, Unregister, ToolsDone, At
    <2>3. pc' = [pc EXCEPT ![r] = pc'[r]] /\ pc'[r] \notin {"unused", "finished"}
      BY <1>0, <1>2 DEF Agent, Propose, Tool, ReceiveApproval, ReceivePaste, Register, SyncFails,
         PushExecuting, Launch, Finish, Record, PopExecuting, Unregister, ToolsDone, Enter, PastApproval, Goto
    <2>4. \A s \in Runs : Live(s)' = Live(s)
      BY <1>0, <2>2, <2>3 DEF Live
    <2>5. QED
      BY <1>0, <2>1, <2>4, TurnSame
  <1>3. QED
    BY <1>1, <1>2

\* Every step keeps the controller's bookkeeping right.
LEMMA TurnStep == ConsentInv /\ TurnInv /\ [Next]_vars => TurnInv'
  <1> SUFFICES ASSUME ConsentInv, TurnInv, [Next]_vars PROVE TurnInv'
    OBVIOUS
  <1>1. CASE UNCHANGED vars
    BY <1>1, TurnSame DEF TurnInv, Live
  <1>2. QED
    BY <1>1, TurnUser, TurnHost, TurnAgent DEF ConsentInv, Next

\* The inductive invariant of the turn's bookkeeping.
THEOREM TurnInvariant == Spec => []TurnInv
  <1>1. Init => TurnInv
    BY DEF Init, TurnInv, OneTurn, Has, Sent, Once, Live, NoRun
  <1>2. QED
    BY <1>1, TurnStep, ConsentInvariant, PTL DEF Spec

\* handleUserChat and handleLLMRunCompleted: however chats, cancellations and
\* completions interleave, one turn is alive at most, and llmRunning, the host FSM
\* and llmRunCancel say so.
THEOREM OneTurnCorrect == Spec => []OneTurn
  <1>1. TurnInv => OneTurn
    BY DEF TurnInv
  <1>2. QED
    BY <1>1, TurnInvariant, PTL

-----------------------------------------------------------------------------
(* Delivery: a question reaches the screen, if the user does not leave.    *)

\* Nobody asks for a shell, so the loop never starts one.
LEMMA StaysUpStep == TypeOK /\ "bash" \notin Leaves /\ StaysUp /\ [Next]_vars => StaysUp'
  <1> SUFFICES ASSUME TypeOK, "bash" \notin Leaves, StaysUp, [Next]_vars PROVE StaysUp'
    OBVIOUS
  <1>0. cmds \in Seq(Messages)
    BY DEF TypeOK, ChannelsTypeOK
  <1>1. CASE UNCHANGED <<cmds, loop>>
    BY <1>1 DEF StaysUp
  <1>2. ASSUME NEW k \in CmdKinds \ {"shell"}, NEW q \in (0 .. MaxChats) \X (0 .. MaxCalls),
               cmds' = Append(cmds, Msg(k, q)), UNCHANGED loop
        PROVE  StaysUp'
    <2>1. Msg(k, q) \in Messages /\ Msg(k, q).kind = k
      BY MsgType DEF Kinds, Msg
    <2>2. QED
      BY <1>0, <1>2, <2>1, RangeAppend DEF StaysUp
  <1>3. CASE Submit
    <2>1. <<chats + 1, 0>> \in (0 .. MaxChats) \X (0 .. MaxCalls)
      BY <1>3, BoundsAssumption DEF Submit, TypeOK, TurnTypeOK
    <2>2. QED
      BY <1>2, <1>3, <2>1 DEF Submit, Send, CmdKinds
  <1>4. CASE EscCancelCommand \/ EscCancelTurn
    BY <1>2, <1>4, BoundsAssumption DEF EscCancelCommand, EscCancelTurn, Send, Plain, CmdKinds
  <1>5. CASE Bash \/ CtrlC \/ BashReturns \/ ProgramEnds
    BY <1>5 DEF Bash, CtrlC, BashReturns, ProgramEnds, StaysUp
  <1>6. CASE RelayCommand \/ RelaySnapshot
    <2>1. cmds # <<>> /\ cmds' = Tail(cmds) /\ prog' = prog
      BY <1>6 DEF RelayCommand, RelaySnapshot
    <2>2. Range(cmds') \subseteq Range(cmds) /\ Head(cmds).kind # "shell"
      BY <1>0, <2>1, RangeTail DEF StaysUp
    <2>3. shellSnap' = shellSnap
      BY <1>6, <2>2 DEF RelayCommand, RelaySnapshot
    <2>4. QED
      BY <2>1, <2>2, <2>3 DEF StaysUp
  <1>7. CASE User
    BY <1>1, <1>3, <1>4, <1>5, <1>7 DEF User, Approve, Dismiss, SubmitGuidance, AnswerApproval,
       ToggleGuidance, SubmitPaste, EscCancelPaste, AnswerPaste, Refuse, RunAndStore, RunNoStore,
       AnswerSensitive
  <1>8. CASE Pump \/ Bridge \/ RejectChat \/ StartTurn \/ HandleCancel \/ PresentAgentUI \/ HandleDone
    BY <1>1, <1>8 DEF Pump, ShowCard, ShowExecuting, ShowReply, DropMessage, Deliver, Bridge, RejectChat,
       StartTurn, HandleCancel, PresentAgentUI, HandleDone, Event
  <1>9. CASE \E r \in Runs : Agent(r)
    BY <1>1, <1>9 DEF Agent, Propose, Tool, ReceiveApproval, ReceivePaste, Register, SyncFails,
       PushExecuting, Launch, Finish, Record, PopExecuting, Unregister, ToolsDone, Reply, Outside
  <1>10. QED
    BY <1>1, <1>5, <1>6, <1>7, <1>8, <1>9 DEF Next, Host

\* What is sent is in the channel; what is received was the head.
LEMMA SentKept ==
  ASSUME NEW s \in Seq(Messages), NEW m \in Messages, NEW K
  PROVE  /\ Sent(s, K) \subseteq Sent(Append(s, m), K)
         /\ m.kind \in K => m \in Sent(Append(s, m), K)
         /\ s # <<>> => /\ Sent(s, K) \subseteq Sent(Tail(s), K) \cup {Head(s)}
                        /\ Head(s).kind \notin K => Sent(s, K) \subseteq Sent(Tail(s), K)
  BY SentAppend, SentTail

\* Keys take a card away with its answer; everything else passes it on.
LEMMA DeliveryUser ==
  ASSUME TypeOK, CardsInv, NothingLost, User
  PROVE  NothingLost'
  <1>0. TurnTypeOK /\ RequestTypeOK
    BY DEF TypeOK
  <1>1. CASE UNCHANGED <<agentq, bus, uiq, card, pc, call, answer>>
    <2>1. Alive' => Alive
      BY DEF User, Submit, EscCancelCommand, EscCancelTurn, Approve, Dismiss, SubmitGuidance,
         AnswerApproval, ToggleGuidance, SubmitPaste, EscCancelPaste, AnswerPaste, Refuse, RunAndStore,
         RunNoStore, AnswerSensitive, Bash, MainInput, CtrlC, BashReturns, Alive
    <2>2. QED
      BY <1>1, <2>1 DEF NothingLost, Blocked, Current, OnWay, OnScreen
  <1>2. ASSUME UNCHANGED <<agentq, bus, uiq, pc, call>>, card # NoCard, prog = "up",
               NEW a, a # "none", answer' = [answer EXCEPT ![card.req] = a]
        PROVE  NothingLost'
    <2>1. Asked(card) /\ card.req \in Requests
      BY <1>2 DEF CardsInv, OnScreen, Asked
    <2>2. ASSUME NEW r \in Runs, Blocked(r)' PROVE Msg(pc'[r], Current(r)') \in OnWay'
      <3>1. Current(r)' = Current(r) /\ pc'[r] = pc[r]
        BY <1>2 DEF Current
      <3>2. Current(r) # card.req /\ Blocked(r)
        BY <1>0, <1>2, <2>1, <2>2, <3>1 DEF Blocked, RequestTypeOK
      <3>3. Msg(pc[r], Current(r)) \in OnWay \ {card}
        BY <1>2, <3>2 DEF NothingLost, Alive, Msg
      <3>4. QED
        BY <1>2, <3>1, <3>3 DEF OnWay, OnScreen
    <2>3. QED
      BY <2>2 DEF NothingLost
  <1>3. CASE Approve \/ Dismiss \/ SubmitGuidance \/ SubmitPaste \/ EscCancelPaste
    BY <1>2, <1>3, NoCardIsNone DEF Approve, Dismiss, SubmitGuidance, AnswerApproval, ApprovalCard,
       SubmitPaste, EscCancelPaste, AnswerPaste
  <1>4. CASE Refuse \/ RunAndStore \/ RunNoStore
    <2>1. PICK choice : AnswerSensitive(choice)
      BY <1>4 DEF Refuse, RunAndStore, RunNoStore
    <2>2. card # NoCard /\ card.kind = "sensitive"
      BY <2>1, NoCardIsNone DEF AnswerSensitive
    <2>3. PICK q \in Requests : q = card.req /\ q[1] \in Runs /\ q = Current(q[1]) /\ Asked(card)
      BY <2>2 DEF CardsInv, OnScreen, Asked, Requests, Msg
    <2> DEFINE s == q[1]
    <2>4. /\ pc' = [pc EXCEPT ![s] = AfterSensitive(s, choice)] /\ UNCHANGED <<bus, uiq, call, answer>>
          /\ agentq' = IF AfterSensitive(s, choice) = "paste" THEN Append(agentq, Msg("paste", q)) ELSE agentq
          /\ prog = "up"
      BY <2>1, <2>3 DEF AnswerSensitive
    <2>a. AfterSensitive(s, choice) \in {"tools", "paste", "ready"}
      BY DEF AfterSensitive
    <2>5. Msg("paste", q) \in Messages /\ Msg("paste", q).kind \in CardKinds /\ agentq \in Seq(Messages)
      <3>1. q \in (0 .. MaxChats) \X (0 .. MaxCalls) /\ "paste" \in Kinds
        BY BoundsAssumption DEF Requests, Runs, Kinds, AgentKinds, CardKinds
      <3>2. QED
        BY <3>1, MsgType DEF Msg, CardKinds, TypeOK, ChannelsTypeOK
    <2>6. /\ Sent(agentq, CardKinds) \subseteq Sent(agentq', CardKinds)
          /\ AfterSensitive(s, choice) = "paste" => Msg("paste", q) \in Sent(agentq', CardKinds)
      BY <2>4, <2>5, SentKept
    <2>7. ASSUME NEW r \in Runs, Blocked(r)' PROVE Msg(pc'[r], Current(r)') \in OnWay'
      <3>1. Current(r)' = Current(r)
        BY <2>4 DEF Current
      <3>2. CASE r = s
        <4>1. pc'[r] = "paste" /\ AfterSensitive(s, choice) = "paste" /\ Current(r) = q
          BY <1>0, <2>3, <2>4, <2>a, <2>7, <3>2 DEF Blocked, CardKinds, TurnTypeOK
        <4>2. QED
          BY <2>6, <3>1, <4>1 DEF OnWay
      <3>3. CASE r # s
        <4>1. pc'[r] = pc[r] /\ Blocked(r) /\ Current(r) # q
          BY <1>0, <2>3, <2>4, <2>7, <3>1, <3>3 DEF Blocked, TurnTypeOK, Current
        <4>2. Msg(pc[r], Current(r)) \in OnWay \ {card}
          BY <2>3, <2>4, <4>1 DEF NothingLost, Alive, Msg
        <4>3. QED
          BY <2>4, <2>6, <3>1, <4>1, <4>2 DEF OnWay, OnScreen
      <3>4. QED
        BY <3>2, <3>3
    <2>8. QED
      BY <2>7 DEF NothingLost
  <1>5. CASE Submit \/ EscCancelCommand \/ EscCancelTurn \/ ToggleGuidance \/ Bash \/ CtrlC \/ BashReturns
    BY <1>1, <1>5 DEF Submit, EscCancelCommand, EscCancelTurn, ToggleGuidance, Bash, CtrlC, BashReturns
  <1>6. QED
    BY <1>3, <1>4, <1>5 DEF User

\* The pump shows a card in the place of an answered one only.
LEMMA DeliveryMoved ==
  ASSUME TypeOK, CardsInv, OneTurn, StaysUp, NothingLost,
         ProgramEnds \/ Pump \/ Bridge \/ Host \/ UNCHANGED vars,
         ChatsInv
  PROVE  NothingLost'
  <1>0. /\ cmds \in Seq(Messages) /\ bus \in Seq(Messages)
        /\ agentq \in Seq(Messages) /\ uiq \in Seq(Messages)
    BY DEF TypeOK, ChannelsTypeOK
  <1>1. ASSUME Alive' => Alive, OnWay \subseteq OnWay', UNCHANGED <<call, answer>>,
               \A r \in Runs : pc'[r] = pc[r] \/ pc'[r] = "model"
        PROVE  NothingLost'
    <2> SUFFICES ASSUME NEW r \in Runs, Alive', Blocked(r)' PROVE Msg(pc'[r], Current(r)') \in OnWay'
      BY DEF NothingLost
    <2>1. pc'[r] = pc[r] /\ Current(r)' = Current(r) /\ Blocked(r)
      BY <1>1 DEF Blocked, Current, CardKinds
    <2>2. QED
      BY <1>1, <2>1 DEF NothingLost
  <1>2. CASE UNCHANGED vars
    BY <1>1, <1>2 DEF Alive, OnWay, OnScreen
  <1>3. CASE ProgramEnds
    BY <1>3 DEF ProgramEnds, StaysUp, NothingLost, Alive
  <1>4. CASE Bridge
    <2>1. Head(agentq) \in Messages /\ agentq # <<>>
      BY <1>0, <1>4, QueueHead DEF Bridge
    <2>2. OnWay \subseteq OnWay'
      <3>1. /\ Sent(agentq, CardKinds) \subseteq Sent(agentq', CardKinds) \cup {Head(agentq)}
            /\ Head(agentq).kind \notin CardKinds =>
                 Sent(agentq, CardKinds) \subseteq Sent(agentq', CardKinds)
            /\ Sent(bus, CardKinds) \subseteq Sent(bus', CardKinds)
            /\ Head(agentq).kind \in CardKinds => Head(agentq) \in Sent(bus', CardKinds)
        BY <1>0, <1>4, <2>1, SentKept DEF Bridge
      <3>2. UNCHANGED <<uiq, card>>
        BY <1>4 DEF Bridge
      <3>3. QED
        BY <3>1, <3>2 DEF OnWay, OnScreen
    <2>3. QED
      BY <1>1, <1>4, <2>2 DEF Bridge, Alive
  <1>5. CASE RelayCommand \/ RelaySnapshot
    <2>1. Sent(bus, CardKinds) \subseteq Sent(bus', CardKinds)
      BY <1>0, <1>5, QueueHead, SentKept DEF RelayCommand, RelaySnapshot, Published
    <2>2. QED
      BY <1>1, <1>5, <2>1 DEF RelayCommand, RelaySnapshot, Alive, OnWay, OnScreen
  <1>6. CASE RejectChat \/ StartTurn \/ HandleCancel \/ HandleDone
    <2>1. /\ bus # <<>> /\ bus' = Tail(bus) /\ Head(bus).kind \notin CardKinds
          /\ UNCHANGED <<agentq, card, call, answer, prog>>
      BY <1>6 DEF RejectChat, StartTurn, HandleCancel, HandleDone, Event, CardKinds
    <2>2. Sent(bus, CardKinds) \subseteq Sent(bus', CardKinds)
      BY <1>0, <2>1, SentKept
    <2>3. uiq' = uiq \/ \E k \in {"busy", "reply"} : uiq' = Append(uiq, Plain(k))
      BY <1>6 DEF RejectChat, StartTurn, HandleCancel, HandleDone
    <2>4. \A k \in {"busy", "reply"} : Plain(k) \in Messages
      BY BoundsAssumption, MsgType DEF Plain, Kinds
    <2>5. Sent(uiq, CardKinds) \subseteq Sent(uiq', CardKinds)
      BY <1>0, <2>3, <2>4, SentKept
    <2>6. \A r \in Runs : pc'[r] = pc[r] \/ pc'[r] = "model"
      BY <1>6 DEF RejectChat, StartTurn, HandleCancel, HandleDone, TypeOK, TurnTypeOK
    <2>7. QED
      BY <1>1, <2>1, <2>2, <2>5, <2>6 DEF Alive, OnWay, OnScreen
  <1>7. CASE PresentAgentUI
    <2>1. Head(bus) \in Messages /\ bus # <<>> /\ bus' = Tail(bus) /\ uiq' = Append(uiq, Head(bus))
      BY <1>0, <1>7, QueueHead DEF PresentAgentUI, Event
    <2>2. /\ Sent(bus, CardKinds) \subseteq Sent(bus', CardKinds) \cup {Head(bus)}
          /\ Head(bus).kind \notin CardKinds => Sent(bus, CardKinds) \subseteq Sent(bus', CardKinds)
          /\ Sent(uiq, CardKinds) \subseteq Sent(uiq', CardKinds)
          /\ Head(bus).kind \in CardKinds => Head(bus) \in Sent(uiq', CardKinds)
      BY <1>0, <2>1, SentKept
    <2>3. UNCHANGED <<agentq, card, pc, call, answer, prog>>
      BY <1>7 DEF PresentAgentUI, Event
    <2>4. QED
      BY <1>1, <2>2, <2>3 DEF Alive, OnWay, OnScreen
  <1>8. CASE ShowExecuting \/ ShowReply
    <2>1. /\ uiq # <<>> /\ uiq' = Tail(uiq) /\ Head(uiq).kind \notin CardKinds
          /\ UNCHANGED <<agentq, bus, card, pc, call, answer, prog>>
      BY <1>8 DEF ShowExecuting, ShowReply, Deliver, CardKinds
    <2>2. Sent(uiq, CardKinds) \subseteq Sent(uiq', CardKinds)
      BY <1>0, <2>1, SentKept
    <2>3. QED
      BY <1>1, <2>1, <2>2 DEF Alive, OnWay, OnScreen
  <1>9. CASE ShowCard
    <2> DEFINE m == Head(uiq)
    <2>1. /\ uiq # <<>> /\ uiq' = Tail(uiq) /\ m.kind \in CardKinds /\ card' = m
          /\ UNCHANGED <<agentq, bus, pc, call, answer, prog>>
      BY <1>9 DEF ShowCard, Deliver
    <2>2. Sent(uiq, CardKinds) \subseteq Sent(uiq', CardKinds) \cup {m} /\ m \in Sent(uiq, CardKinds)
      BY <1>0, <2>1, SentKept, ReceiveOne DEF CardsInv
    <2>3. m # NoCard /\ m # card /\ Asked(m)
      BY <2>2, NoCardIsNone DEF CardsInv
    <2>4. card = NoCard
      <3> SUFFICES ASSUME card # NoCard PROVE FALSE
        OBVIOUS
      <3>1. Asked(card) /\ card \in OnWay /\ m \in OnWay
        BY <2>2 DEF CardsInv, OnScreen, OnWay
      <3>2. card.req[1] \in Runs /\ m.req[1] \in Runs /\ Live(card.req[1]) /\ Live(m.req[1])
        BY <2>3, <3>1 DEF Asked, Blocked, Live, Requests, CardKinds
      <3>3. card.req[1] = m.req[1]
        BY <3>2 DEF OneTurn
      <3>4. QED
        BY <2>3, <3>1, <3>3, OneCard
    <2>5. OnWay \subseteq OnWay'
      BY <2>1, <2>2, <2>3, <2>4 DEF OnWay, OnScreen
    <2>6. QED
      BY <1>1, <2>1, <2>5 DEF Alive
  <1>10. CASE DropMessage
    BY <1>10 DEF DropMessage, StaysUp
  <1>11. QED
    BY <1>2, <1>3, <1>4, <1>5, <1>6, <1>7, <1>8, <1>9, <1>10 DEF Pump, Host

\* An agent that begins to wait has sent its question first.
LEMMA DeliveryAgent ==
  ASSUME TypeOK, CallCounted, NothingLost, NEW r \in Runs, Agent(r)
  PROVE  NothingLost'
  <1>0. /\ bus \in Seq(Messages) /\ agentq \in Seq(Messages) /\ TurnTypeOK /\ RequestTypeOK
        /\ UNCHANGED <<uiq, card, prog>> /\ Alive
    BY DEF TypeOK, ChannelsTypeOK, Agent, Propose, Tool, ReceiveApproval, ReceivePaste, Register,
       SyncFails, PushExecuting, Launch, Finish, Record, PopExecuting, Unregister, ToolsDone, Reply,
       Outside, At
  <1>1. ASSUME OnWay \subseteq OnWay', pc'[r] \in CardKinds => Msg(pc'[r], Current(r)') \in OnWay'
        PROVE  NothingLost'
    <2> SUFFICES ASSUME NEW s \in Runs, Blocked(s)' PROVE Msg(pc'[s], Current(s)') \in OnWay'
      BY DEF NothingLost
    <2>1. CASE s = r
      BY <1>1, <2>1 DEF Blocked
    <2>2. CASE s # r
      <3>1. pc'[s] = pc[s] /\ call'[s] = call[s] /\ Current(s)' = Current(s) /\ Current(s) # Current(r)'
        BY <2>2, AgentKeepsOthers DEF Current
      <3>2. Current(s) \in Requests
        BY <3>1 DEF Blocked, CallCounted, InCall, PCs, CardKinds
      <3>3. Blocked(s)
        BY <3>1, <3>2, AgentKeepsOthers DEF Blocked
      <3>4. QED
        BY <1>0, <1>1, <3>1, <3>3 DEF NothingLost
    <2>3. QED
      BY <2>1, <2>2
  <1>2. ASSUME NEW q \in Requests, NEW label, Enter(r, q, label), UNCHANGED bus, q = <<r, call'[r]>>
        PROVE  NothingLost'
    <2>1. pc'[r] = label /\ q = Current(r)'
      BY <1>0, <1>2 DEF Enter, Goto, TurnTypeOK, Current
    <2>2. CASE label \in CardKinds
      <3>1. Msg(label, q) \in Messages /\ Msg(label, q).kind = label
        BY <2>2, BoundsAssumption, MsgType DEF Requests, Runs, Kinds, AgentKinds, Msg
      <3>2. agentq' = Append(agentq, Msg(label, q))
        BY <1>2, <2>2 DEF Enter
      <3>3. /\ Sent(agentq, CardKinds) \subseteq Sent(agentq', CardKinds)
            /\ Msg(label, q) \in Sent(agentq', CardKinds)
        BY <1>0, <2>2, <3>1, <3>2, SentKept
      <3>4. QED
        BY <1>0, <1>1, <1>2, <2>1, <3>3 DEF OnWay, OnScreen
    <2>3. CASE label \notin CardKinds
      BY <1>0, <1>1, <1>2, <2>1, <2>3 DEF Enter, OnWay, OnScreen
    <2>4. QED
      BY <2>2, <2>3
  <1>3. CASE \E cmd \in Commands : Propose(r, cmd)
    <2>1. PICK label : Enter(r, <<r, call[r] + 1>>, label)
      BY <1>3 DEF Propose
    <2>2. <<r, call[r] + 1>> \in Requests /\ call'[r] = call[r] + 1 /\ UNCHANGED bus
      BY <1>0, <1>3, BoundsAssumption DEF Propose, CallsLeft, TurnTypeOK, Requests
    <2>3. QED
      BY <1>2, <2>1, <2>2
  <1>4. CASE ReceiveApproval(r)
    <2>1. Current(r) \in Requests /\ Current(r) = <<r, call[r]>> /\ UNCHANGED <<bus, call>>
      BY <1>4 DEF ReceiveApproval, At, CallCounted, InCall, PCs, Current
    <2>2. PICK label : Enter(r, Current(r), label)
      BY <1>4 DEF ReceiveApproval
    <2>3. QED
      BY <1>2, <2>1, <2>2
  <1>5. CASE ~ReceiveApproval(r) /\ ~\E cmd \in Commands : Propose(r, cmd)
    <2>1. pc'[r] \notin CardKinds
      BY <1>0, <1>5 DEF Agent, Tool, ReceivePaste, Register, SyncFails, PushExecuting, Launch, Finish,
         Record, PopExecuting, Unregister, ToolsDone, Reply, Goto, TurnTypeOK, CardKinds
    <2>2. /\ agentq' = agentq \/ \E m \in Messages : agentq' = Append(agentq, m)
          /\ bus' = bus \/ \E m \in Messages : bus' = Append(bus, m)
      <3>1. Plain("execOn") \in Messages /\ Plain("execOff") \in Messages /\ Msg("done", <<r, 0>>) \in Messages
        BY BoundsAssumption, MsgType DEF Plain, Kinds, AgentKinds, Runs
      <3>2. QED
        BY <1>5, <3>1 DEF Agent, Tool, ReceivePaste, Register, SyncFails, PushExecuting, Launch, Finish,
           Record, PopExecuting, Unregister, ToolsDone, Reply, Outside
    <2>3. /\ Sent(agentq, CardKinds) \subseteq Sent(agentq', CardKinds)
          /\ Sent(bus, CardKinds) \subseteq Sent(bus', CardKinds)
      BY <1>0, <2>2, SentKept
    <2>4. QED
      BY <1>0, <1>1, <2>1, <2>3 DEF OnWay, OnScreen
  <1>6. QED
    BY <1>3, <1>4, <1>5

\* Without /bash the screen that shows the cards stays up, and the question of
\* every blocked agent is between the agent and the screen, sensitive and offline
\* cards included.
THEOREM DeliveryInvariant == ASSUME "bash" \notin Leaves PROVE Spec => [](StaysUp /\ NothingLost)
  <1>1. Init => StaysUp /\ NothingLost
    BY DEF Init, StaysUp, Range, NothingLost, Blocked, CardKinds
  <1>2. ConsentInv /\ TurnInv /\ StaysUp /\ NothingLost /\ [Next]_vars => (StaysUp /\ NothingLost)'
    BY StaysUpStep, DeliveryUser, DeliveryMoved, DeliveryAgent DEF ConsentInv, TurnInv, Next
  <1>3. QED
    BY <1>1, <1>2, ConsentInvariant, TurnInvariant, PTL DEF Spec

\* requestApproval and its kin wait without a timeout.  As long as the user does
\* not leave for /bash, the question they wait for is on screen or on its way.
THEOREM DeliveryCorrect == ASSUME "bash" \notin Leaves PROVE Spec => []NoLostRequest
  <1>1. NothingLost => NoLostRequest
    <2>1. \A s : Sent(s, CardKinds) \subseteq Range(s)
      BY DEF Sent, Range
    <2>2. QED
      BY <2>1 DEF NothingLost, NoLostRequest, OnWay, OnScreen
  <1>2. QED
    BY <1>1, DeliveryInvariant, PTL
=============================================================================
