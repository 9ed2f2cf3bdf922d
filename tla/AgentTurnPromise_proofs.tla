------------------------ MODULE AgentTurnPromise_proofs ------------------------
(***************************************************************************)
(* Proofs that the flags that lock the input of AgentTurn are released,    *)
(* and that AgentTurn implements CommandConsent.                           *)
(***************************************************************************)
EXTENDS AgentTurn_proofs

USE DEF host, screen, loop, chat, turn, cancels, request, decisions, agent, vars

(* The [EXECUTING] flag and the waiting flag.                              *)

\* Sending adds one kind to those of a channel.
LEMMA HasAppend ==
  ASSUME NEW s \in Seq(Messages), NEW m \in Messages, NEW k
  PROVE  Has(Append(s, m), k) <=> Has(s, k) \/ m.kind = k
  <1>1. \A i \in DOMAIN s : Append(s, m)[i] = s[i]
    OBVIOUS
  <1>2. DOMAIN Append(s, m) = DOMAIN s \cup {Len(s) + 1} /\ Append(s, m)[Len(s) + 1] = m
    OBVIOUS
  <1>3. QED
    BY <1>1, <1>2 DEF Has

\* Receiving takes at most the kind of the head away.
LEMMA HasTail ==
  ASSUME NEW s \in Seq(Messages), s # <<>>, NEW k
  PROVE  Has(s, k) <=> Has(Tail(s), k) \/ Head(s).kind = k
  <1>1. \A i \in DOMAIN Tail(s) : i + 1 \in DOMAIN s /\ Tail(s)[i] = s[i + 1]
    OBVIOUS
  <1>2. \A i \in DOMAIN s : i # 1 => i - 1 \in DOMAIN Tail(s) /\ Tail(s)[i - 1] = s[i]
    OBVIOUS
  <1>3. 1 \in DOMAIN s /\ s[1] = Head(s)
    OBVIOUS
  <1>4. Has(s, k) => Has(Tail(s), k) \/ Head(s).kind = k
    BY <1>2, <1>3 DEF Has
  <1>5. Has(Tail(s), k) \/ Head(s).kind = k => Has(s, k)
    BY <1>1, <1>3 DEF Has
  <1>6. QED
    BY <1>4, <1>5

\* A switch that is sent last is behind every other.
LEMMA FollowedAppend ==
  ASSUME NEW s \in Seq(Messages), NEW m \in Messages
  PROVE  /\ m.kind = "execOff" => Followed(Append(s, m))
         /\ m.kind # "execOn" /\ Followed(s) => Followed(Append(s, m))
  <1>1. \A i \in DOMAIN s : Append(s, m)[i] = s[i]
    OBVIOUS
  <1>2. /\ DOMAIN Append(s, m) = DOMAIN s \cup {Len(s) + 1}
        /\ Append(s, m)[Len(s) + 1] = m
        /\ \A i \in DOMAIN s : Len(s) + 1 > i
    OBVIOUS
  <1>3. QED
    BY <1>1, <1>2 DEF Followed

\* What follows in a channel is still there when the head is received.
LEMMA FollowedTail ==
  ASSUME NEW s \in Seq(Messages), s # <<>>, Followed(s)
  PROVE  Followed(Tail(s)) /\ (Head(s).kind = "execOn" => Has(Tail(s), "execOff"))
  <1>1. \A i \in DOMAIN Tail(s) : i + 1 \in DOMAIN s /\ Tail(s)[i] = s[i + 1]
    OBVIOUS
  <1>2. \A i \in DOMAIN s : i > 1 => i - 1 \in DOMAIN Tail(s) /\ Tail(s)[i - 1] = s[i]
    OBVIOUS
  <1>3. 1 \in DOMAIN s /\ s[1] = Head(s) /\ DOMAIN s \subseteq Nat /\ DOMAIN Tail(s) \subseteq Nat
    OBVIOUS
  <1>4. ASSUME NEW i \in DOMAIN Tail(s), Tail(s)[i].kind = "execOn"
        PROVE  \E j \in DOMAIN Tail(s) : j > i /\ Tail(s)[j].kind = "execOff"
    <2>1. PICK j \in DOMAIN s : j > i + 1 /\ s[j].kind = "execOff"
      BY <1>1, <1>4 DEF Followed
    <2>2. j > 1 /\ j - 1 > i
      BY <1>3, <2>1
    <2>3. QED
      BY <1>2, <2>1, <2>2
  <1>5. ASSUME Head(s).kind = "execOn" PROVE Has(Tail(s), "execOff")
    <2>1. PICK j \in DOMAIN s : j > 1 /\ s[j].kind = "execOff"
      BY <1>3, <1>5 DEF Followed
    <2>2. QED
      BY <1>2, <2>1 DEF Has
  <1>6. QED
    BY <1>4, <1>5 DEF Followed

\* A step of a channel that loses no switch-off and sends no switch-on.
Harmless(s, t) ==
  /\ Followed(s) => Followed(t)
  /\ Has(s, "execOff") => Has(t, "execOff")

\* Most sends and receipts are of that kind.
LEMMA HarmlessSteps ==
  ASSUME NEW s \in Seq(Messages)
  PROVE  /\ Harmless(s, s)
         /\ \A m \in Messages : m.kind # "execOn" => Harmless(s, Append(s, m))
         /\ s # <<>> /\ Head(s).kind # "execOff" => Harmless(s, Tail(s))
  BY HasAppend, HasTail, FollowedAppend, FollowedTail DEF Harmless

\* Over harmless steps the flag stays covered.
LEMMA ExecutingStays ==
  ASSUME ExecutingInv, Harmless(uiq, uiq'), Harmless(bus, bus'), Harmless(agentq, agentq'),
         executing' => executing, InExec => InExec'
  PROVE  ExecutingInv'
  BY DEF ExecutingInv, OffBehindUI, Harmless
\* A turn leaves the stretch of its [EXECUTING] only by switching it off.
LEMMA InExecStays ==
  ASSUME TypeOK, ChatsInv, CardsInv, [Next]_vars, ~\E r \in Runs : PopExecuting(r)
  PROVE  InExec => InExec'
  <1>0. TurnTypeOK
    BY DEF TypeOK
  <1>1. ASSUME NEW r \in Runs, pc[r] \notin {"executing", "running", "returned", "recorded"},
               \A s \in Runs \ {r} : pc'[s] = pc[s]
        PROVE  InExec => InExec'
    BY <1>1 DEF InExec
  <1>2. CASE UNCHANGED pc
    BY <1>2 DEF InExec
  <1>3. CASE User
    <2>1. \/ UNCHANGED pc
          \/ \E r \in Runs : pc[r] = "sensitive" /\ \E next : pc' = [pc EXCEPT ![r] = next]
      BY <1>3, KeyAnswersCall
    <2>2. QED
      BY <1>0, <1>1, <1>2, <2>1 DEF TurnTypeOK
  <1>4. CASE ProgramEnds \/ Pump \/ Bridge \/ Host \/ UNCHANGED vars
    <2>1. \/ UNCHANGED pc
          \/ \E r \in Runs : pc[r] = "unused" /\ pc' = [pc EXCEPT ![r] = "model"]
      BY <1>4, OthersKeepCalls
    <2>2. QED
      BY <1>0, <1>1, <1>2, <2>1 DEF TurnTypeOK
  <1>5. ASSUME NEW r \in Runs, Agent(r) PROVE InExec => InExec'
    <2>1. CASE Launch(r) \/ Finish(r) \/ Record(r)
      BY <1>0, <2>1 DEF Launch, Finish, Record, Goto, TurnTypeOK, InExec
    <2>2. CASE ~(Launch(r) \/ Finish(r) \/ Record(r))
      <3>1. pc[r] \notin {"executing", "running", "returned", "recorded"}
        BY <1>5, <2>2 DEF Agent, Propose, Tool, ReceiveApproval, ReceivePaste, Register, SyncFails,
           PushExecuting, Unregister, ToolsDone, Reply, At
      <3>2. \E label : pc' = [pc EXCEPT ![r] = label]
        BY <1>5, <2>2 DEF Agent, Propose, Tool, ReceiveApproval, ReceivePaste, Register, SyncFails,
           PushExecuting, Unregister, ToolsDone, Reply, Enter, Goto
      <3>3. QED
        BY <1>0, <1>1, <3>1, <3>2 DEF TurnTypeOK
    <2>3. QED
      BY <2>1, <2>2
  <1>6. QED
    BY <1>3, <1>4, <1>5 DEF Next

\* On the way to the screen a switch-on never overtakes the switch-off behind it.
LEMMA ExecutingMoves ==
  ASSUME TypeOK, ExecutingInv, DroppedInv, InExec => InExec', Pump \/ Bridge \/ PresentAgentUI
  PROVE  ExecutingInv'
  <1>0. uiq \in Seq(Messages) /\ bus \in Seq(Messages) /\ agentq \in Seq(Messages)
    BY DEF TypeOK, ChannelsTypeOK
  <1>1. Harmless(uiq, uiq) /\ Harmless(bus, bus) /\ Harmless(agentq, agentq)
    BY <1>0, HarmlessSteps
  <1>2. CASE ShowExecuting
    <2>1. uiq # <<>> /\ uiq' = Tail(uiq) /\ UNCHANGED <<bus, agentq>>
          /\ Head(uiq).kind \in {"execOn", "execOff"}
          /\ executing' = (Head(uiq).kind = "execOn")
      BY <1>2 DEF ShowExecuting, Deliver
    <2>2. /\ Followed(uiq) => Followed(Tail(uiq))
          /\ Followed(uiq) /\ Head(uiq).kind = "execOn" => Has(Tail(uiq), "execOff")
      BY <1>0, <2>1, FollowedTail
    <2>3. OffBehindUI => OffBehindUI'
      BY <2>1 DEF OffBehindUI
    <2>4. (Followed(uiq) \/ OffBehindUI)'
      BY <2>1, <2>2, <2>3 DEF ExecutingInv
    <2>5. executing' => Has(uiq', "execOff") \/ OffBehindUI'
      BY <2>1, <2>2, <2>3 DEF ExecutingInv
    <2>6. (Followed(bus) \/ Has(agentq, "execOff") \/ InExec)' /\ (Followed(agentq) \/ InExec)'
      BY <2>1 DEF ExecutingInv
    <2>7. QED
      BY <2>4, <2>5, <2>6 DEF ExecutingInv
  <1>3. CASE ShowCard \/ ShowReply
    <2>1. uiq # <<>> /\ uiq' = Tail(uiq) /\ UNCHANGED <<bus, agentq, executing>>
          /\ Head(uiq).kind # "execOff"
      BY <1>3 DEF ShowCard, ShowReply, Deliver, CardKinds
    <2>2. Harmless(uiq, uiq')
      BY <1>0, <2>1, HarmlessSteps
    <2>3. QED
      BY <1>1, <2>1, <2>2, ExecutingStays
  <1>4. CASE DropMessage
    <2>1. uiq # <<>> /\ uiq' = Tail(uiq) /\ UNCHANGED <<bus, agentq, executing>> /\ ~executing
      BY <1>4 DEF DropMessage, Deliver, DroppedInv
    <2>2. Followed(uiq) => Followed(Tail(uiq))
      BY <1>0, <2>1, FollowedTail
    <2>3. OffBehindUI => OffBehindUI'
      BY <2>1 DEF OffBehindUI
    <2>4. (Followed(uiq) \/ OffBehindUI)' /\ ~executing'
      BY <2>1, <2>2, <2>3 DEF ExecutingInv
    <2>5. (Followed(bus) \/ Has(agentq, "execOff") \/ InExec)' /\ (Followed(agentq) \/ InExec)'
      BY <2>1 DEF ExecutingInv
    <2>6. QED
      BY <2>4, <2>5 DEF ExecutingInv
  <1>5. CASE Bridge
    <2>1. /\ agentq # <<>> /\ agentq' = Tail(agentq) /\ bus' = Append(bus, Head(agentq))
          /\ UNCHANGED <<uiq, executing, pc>>
      BY <1>5 DEF Bridge
    <2>2. Head(agentq) \in Messages
      BY <1>0, <2>1
    <2>3. /\ Has(agentq, "execOff") => Has(bus', "execOff") \/ Has(agentq', "execOff")
          /\ Has(bus, "execOff") => Has(bus', "execOff")
      BY <1>0, <2>1, <2>2, HasTail, HasAppend
    <2>4. /\ Followed(agentq) => Followed(agentq')
          /\ Followed(agentq) /\ Head(agentq).kind = "execOn" => Has(agentq', "execOff")
      BY <1>0, <2>1, FollowedTail
    <2>5. /\ Head(agentq).kind = "execOff" => Followed(bus')
          /\ Head(agentq).kind # "execOn" /\ Followed(bus) => Followed(bus')
      BY <1>0, <2>1, <2>2, FollowedAppend
    <2>6. InExec' = InExec /\ (OffBehindUI => OffBehindUI')
      BY <2>1, <2>3 DEF InExec, OffBehindUI
    <2>7. Has(agentq, "execOff") => Head(agentq).kind = "execOff" \/ Has(agentq', "execOff")
      BY <1>0, <2>1, HasTail
    <2>8. (Followed(bus) \/ Has(agentq, "execOff") \/ InExec)'
      BY <2>4, <2>5, <2>6, <2>7 DEF ExecutingInv
    <2>9. (Followed(agentq) \/ InExec)' /\ (Followed(uiq) \/ OffBehindUI)'
      BY <2>1, <2>4, <2>6 DEF ExecutingInv
    <2>10. executing' => Has(uiq', "execOff") \/ OffBehindUI'
      BY <2>1, <2>6 DEF ExecutingInv
    <2>11. QED
      BY <2>8, <2>9, <2>10 DEF ExecutingInv
  <1>6. CASE PresentAgentUI
    <2>1. /\ bus # <<>> /\ bus' = Tail(bus) /\ uiq' = Append(uiq, Head(bus))
          /\ UNCHANGED <<agentq, executing, pc>>
      BY <1>6 DEF PresentAgentUI, Event
    <2>2. Head(bus) \in Messages
      BY <1>0, <2>1
    <2>3. /\ Has(bus, "execOff") => Has(uiq', "execOff") \/ Has(bus', "execOff")
          /\ Has(uiq, "execOff") => Has(uiq', "execOff")
      BY <1>0, <2>1, <2>2, HasTail, HasAppend
    <2>4. /\ Followed(bus) => Followed(bus')
          /\ Followed(bus) /\ Head(bus).kind = "execOn" => Has(bus', "execOff")
      BY <1>0, <2>1, FollowedTail
    <2>5. /\ Head(bus).kind = "execOff" => Followed(uiq')
          /\ Head(bus).kind # "execOn" /\ Followed(uiq) => Followed(uiq')
      BY <1>0, <2>1, <2>2, FollowedAppend
    <2>6. InExec' = InExec
      BY <2>1 DEF InExec
    <2>7. Has(bus, "execOff") => Head(bus).kind = "execOff" \/ Has(bus', "execOff")
      BY <1>0, <2>1, HasTail
    <2>8. (Followed(uiq) \/ OffBehindUI)'
      BY <2>1, <2>4, <2>5, <2>6, <2>7 DEF ExecutingInv, OffBehindUI
    <2>9. (Followed(agentq) \/ InExec)' /\ (Followed(bus) \/ Has(agentq, "execOff") \/ InExec)'
      BY <2>1, <2>4, <2>6 DEF ExecutingInv
    <2>10. executing' => Has(uiq', "execOff") \/ OffBehindUI'
      BY <2>1, <2>3, <2>6 DEF ExecutingInv, OffBehindUI
    <2>11. QED
      BY <2>8, <2>9, <2>10 DEF ExecutingInv
  <1>7. QED
    BY <1>2, <1>3, <1>4, <1>5, <1>6 DEF Pump
\* The two switches of a command: Push puts its turn in charge, Pop sends the
\* switch-off behind everything else.
LEMMA ExecutingSwitched ==
  ASSUME TypeOK, ExecutingInv, NEW r \in Runs, PushExecuting(r) \/ PopExecuting(r)
  PROVE  ExecutingInv'
  <1>0. agentq \in Seq(Messages) /\ TurnTypeOK
    BY DEF TypeOK, ChannelsTypeOK
  <1>1. CASE PushExecuting(r)
    <2>1. InExec'
      BY <1>0, <1>1 DEF PushExecuting, Goto, InExec, TurnTypeOK
    <2>2. OffBehindUI'
      BY <2>1 DEF OffBehindUI
    <2>3. QED
      BY <2>1, <2>2 DEF ExecutingInv
  <1>2. CASE PopExecuting(r)
    <2>1. Plain("execOff") \in Messages /\ Plain("execOff").kind = "execOff"
      BY MsgType, BoundsAssumption DEF Plain, Msg, Kinds, AgentKinds
    <2>2. agentq' = Append(agentq, Plain("execOff"))
      BY <1>2 DEF PopExecuting
    <2>3. Has(agentq', "execOff") /\ Followed(agentq')
      BY <1>0, <2>1, <2>2, HasAppend, FollowedAppend
    <2>4. OffBehindUI'
      BY <2>3 DEF OffBehindUI
    <2>5. QED
      BY <2>3, <2>4 DEF ExecutingInv
  <1>3. QED
    BY <1>1, <1>2

\* Every step keeps the [EXECUTING] flag covered.
LEMMA ExecutingStep ==
  TypeOK /\ KindsInv /\ ChatsInv /\ CardsInv /\ ExecutingInv /\ DroppedInv /\ [Next]_vars => ExecutingInv'
  <1> SUFFICES ASSUME TypeOK, KindsInv, ChatsInv, CardsInv, ExecutingInv, DroppedInv, [Next]_vars
               PROVE  ExecutingInv'
    OBVIOUS
  <1>1. CASE \E r \in Runs : PushExecuting(r) \/ PopExecuting(r)
    BY <1>1, ExecutingSwitched
  <1> SUFFICES ASSUME ~\E r \in Runs : PushExecuting(r) \/ PopExecuting(r) PROVE ExecutingInv'
    BY <1>1
  <1>2. InExec => InExec'
    BY InExecStays
  <1>3. uiq \in Seq(Messages) /\ bus \in Seq(Messages) /\ agentq \in Seq(Messages) /\ cmds \in Seq(Messages)
    BY DEF TypeOK, ChannelsTypeOK
  <1>4. Harmless(uiq, uiq) /\ Harmless(bus, bus) /\ Harmless(agentq, agentq)
    BY <1>3, HarmlessSteps
  <1>5. /\ \A k \in Kinds : Plain(k) \in Messages
        /\ \A k \in Kinds : Plain(k).kind = k
    BY MsgType, BoundsAssumption DEF Plain, Msg
  <1>6. CASE Pump \/ Bridge \/ PresentAgentUI
    BY <1>2, <1>6, ExecutingMoves
  <1>7. CASE User
    <2>1. UNCHANGED <<uiq, bus, executing>>
      BY <1>7 DEF User, Submit, EscCancelCommand, EscCancelTurn, Approve, Dismiss, SubmitGuidance,
         AnswerApproval, ToggleGuidance, SubmitPaste, EscCancelPaste, AnswerPaste, Refuse, RunAndStore,
         RunNoStore, AnswerSensitive, Bash, CtrlC, BashReturns
    <2>2. agentq' = agentq \/ agentq' = Append(agentq, Msg("paste", card.req))
      BY <1>7 DEF User, Submit, EscCancelCommand, EscCancelTurn, Approve, Dismiss, SubmitGuidance,
         AnswerApproval, ToggleGuidance, SubmitPaste, EscCancelPaste, AnswerPaste, Refuse, RunAndStore,
         RunNoStore, AnswerSensitive, Bash, CtrlC, BashReturns
    <2>3. card.req \in (0 .. MaxChats) \X (0 .. MaxCalls)
      BY DEF TypeOK, ScreenTypeOK, Messages
    <2>4. Msg("paste", card.req) \in Messages /\ Msg("paste", card.req).kind = "paste"
      BY <2>3, MsgType DEF Msg, Kinds, AgentKinds, CardKinds
    <2>5. Harmless(agentq, agentq')
      BY <1>3, <1>4, <2>2, <2>4, HarmlessSteps
    <2>6. QED
      BY <1>2, <1>4, <2>1, <2>5, ExecutingStays
  <1>8. CASE ProgramEnds
    <2>1. UNCHANGED <<uiq, bus, agentq>> /\ ~executing'
      BY <1>8 DEF ProgramEnds
    <2>2. QED
      BY <1>2, <1>4, <2>1, ExecutingStays
  <1>9. CASE RelayCommand \/ RelaySnapshot
    <2>1. UNCHANGED <<uiq, agentq, executing>> /\ cmds # <<>>
          /\ (bus' = bus \/ bus' = Append(bus, Head(cmds)))
      BY <1>9 DEF RelayCommand, RelaySnapshot, Published
    <2>2. Head(cmds) \in Messages /\ Head(cmds).kind # "execOn"
      BY <1>3, <2>1, RangeTail, QueueHead DEF KindsInv, CmdKinds
    <2>3. Harmless(bus, bus')
      BY <1>3, <1>4, <2>1, <2>2, HarmlessSteps
    <2>4. QED
      BY <1>2, <1>4, <2>1, <2>3, ExecutingStays
  <1>10. CASE RejectChat \/ StartTurn \/ HandleCancel \/ HandleDone
    <2>1. UNCHANGED <<agentq, executing>> /\ bus # <<>> /\ bus' = Tail(bus) /\ Head(bus).kind # "execOff"
      BY <1>10 DEF RejectChat, StartTurn, HandleCancel, HandleDone, Event
    <2>2. \/ uiq' = uiq \/ uiq' = Append(uiq, Plain("busy")) \/ uiq' = Append(uiq, Plain("reply"))
      BY <1>10 DEF RejectChat, StartTurn, HandleCancel, HandleDone
    <2>3. Harmless(bus, bus') /\ Harmless(uiq, uiq')
      BY <1>3, <1>4, <1>5, <2>1, <2>2, HarmlessSteps DEF Kinds
    <2>4. QED
      BY <1>2, <1>4, <2>1, <2>3, ExecutingStays
  <1>11. ASSUME NEW r \in Runs, Agent(r) PROVE ExecutingInv'
    <2>1. CASE Reply(r)
      <3>1. UNCHANGED <<agentq, uiq, executing>> /\ bus' = Append(bus, Msg("done", <<r, 0>>))
        BY <2>1 DEF Reply, Outside
      <3>2. Msg("done", <<r, 0>>) \in Messages /\ Msg("done", <<r, 0>>).kind = "done"
        BY MsgType, BoundsAssumption DEF Msg, Kinds, Runs
      <3>3. Harmless(bus, bus')
        BY <1>3, <3>1, <3>2, HarmlessSteps
      <3>4. QED
        BY <1>2, <1>4, <3>1, <3>3, ExecutingStays
    <2>2. CASE \E cmd \in Commands : Propose(r, cmd)
      <3>1. UNCHANGED <<bus, uiq, executing>> /\ \E label : Enter(r, <<r, call[r] + 1>>, label)
        BY <2>2 DEF Propose, Outside
      <3>2. <<r, call[r] + 1>> \in (0 .. MaxChats) \X (0 .. MaxCalls)
        BY <2>2, BoundsAssumption DEF Propose, CallsLeft, TypeOK, TurnTypeOK, Runs
      <3>3. \A k \in CardKinds : Msg(k, <<r, call[r] + 1>>) \in Messages
                                 /\ Msg(k, <<r, call[r] + 1>>).kind = k
        BY <3>2, MsgType DEF Msg, Kinds, AgentKinds
      <3>4. Harmless(agentq, agentq')
        BY <1>3, <1>4, <3>1, <3>3, HarmlessSteps DEF Enter, CardKinds
      <3>5. QED
        BY <1>2, <1>4, <3>1, <3>4, ExecutingStays
    <2>3. CASE ReceiveApproval(r)
      <3>1. UNCHANGED <<bus, uiq, executing>> /\ \E label : Enter(r, Current(r), label)
        BY <2>3 DEF ReceiveApproval, Outside
      <3>2. Current(r) \in (0 .. MaxChats) \X (0 .. MaxCalls)
        BY BoundsAssumption DEF TypeOK, TurnTypeOK, Runs, Current
      <3>3. \A k \in CardKinds : Msg(k, Current(r)) \in Messages /\ Msg(k, Current(r)).kind = k
        BY <3>2, MsgType DEF Msg, Kinds, AgentKinds
      <3>4. Harmless(agentq, agentq')
        BY <1>3, <1>4, <3>1, <3>3, HarmlessSteps DEF Enter, CardKinds
      <3>5. QED
        BY <1>2, <1>4, <3>1, <3>4, ExecutingStays
    <2>4. CASE \/ ReceivePaste(r) \/ Register(r) \/ SyncFails(r) \/ Launch(r) \/ Finish(r) \/ Record(r)
               \/ Unregister(r) \/ ToolsDone(r)
      <3>1. UNCHANGED <<bus, uiq, agentq, executing>>
        BY <2>4 DEF ReceivePaste, Register, SyncFails, Launch, Finish, Record, Unregister, ToolsDone, Outside
      <3>2. QED
        BY <1>2, <1>4, <3>1, ExecutingStays
    <2>5. QED
      BY <1>11, <2>1, <2>2, <2>3, <2>4 DEF Agent, Tool
  <1>12. CASE UNCHANGED vars
    BY <1>2, <1>4, <1>12, ExecutingStays
  <1>13. QED
    BY <1>6, <1>7, <1>8, <1>9, <1>10, <1>11, <1>12 DEF Next, Host

\* While the shell has the terminal nothing locks the input.
LEMMA DroppedStep == TypeOK /\ DroppedInv /\ [Next]_vars => DroppedInv'
  <1> SUFFICES ASSUME TypeOK, DroppedInv, [Next]_vars, prog' = "bash" PROVE ~waiting' /\ ~executing'
    BY DEF DroppedInv
  <1>1. CASE UNCHANGED <<prog, waiting, executing>>
    BY <1>1 DEF DroppedInv
  <1>2. CASE User
    BY <1>1, <1>2 DEF User, Submit, EscCancelCommand, EscCancelTurn, EscReachesControl, MainInput, Approve,
       Dismiss, SubmitGuidance, ApprovalCard, AnswerApproval, ToggleGuidance, SubmitPaste, EscCancelPaste,
       AnswerPaste, Refuse, RunAndStore, RunNoStore, AnswerSensitive, Bash, CtrlC, BashReturns
  <1>3. CASE ProgramEnds
    BY <1>3 DEF ProgramEnds
  <1>4. CASE Pump \/ Bridge \/ Host
    BY <1>1, <1>4 DEF Pump, ShowCard, ShowExecuting, ShowReply, DropMessage, Deliver, Drawn, Bridge, Host,
       RelayCommand, RelaySnapshot, RejectChat, StartTurn, HandleCancel, PresentAgentUI, HandleDone, Event
  <1>5. CASE \E r \in Runs : Agent(r)
    BY <1>1, <1>5 DEF Agent, Propose, Tool, ReceiveApproval, ReceivePaste, Register, SyncFails,
       PushExecuting, Launch, Finish, Record, PopExecuting, Unregister, ToolsDone, Reply, Outside
  <1>6. QED
    BY <1>1, <1>2, <1>3, <1>4, <1>5 DEF Next
\* What locks the input between a chat and its reply.
Locked == Has(cmds, "chat") \/ Has(bus, "chat") \/ llmRunning \/ Has(uiq, "reply") \/ Has(uiq, "busy")

\* As long as that stays, so does the cover of the waiting flag.
LEMMA WaitingStays == ASSUME WaitingInv, waiting' => waiting, Locked => Locked' PROVE WaitingInv'
  BY DEF WaitingInv, Locked

\* The controller takes a chat on, refuses it, or passes another message on.
LEMMA WaitingHost ==
  ASSUME TypeOK, WaitingInv, Host
  PROVE  WaitingInv'
  <1>0. uiq \in Seq(Messages) /\ bus \in Seq(Messages) /\ cmds \in Seq(Messages)
    BY DEF TypeOK, ChannelsTypeOK
  <1>1. \A k \in Kinds : Plain(k) \in Messages /\ Plain(k).kind = k
    BY MsgType, BoundsAssumption DEF Plain, Msg
  <1>2. waiting' = waiting
    BY DEF Host, RelayCommand, RelaySnapshot, RejectChat, StartTurn, HandleCancel, PresentAgentUI,
       HandleDone, Event
  <1>3. CASE RelayCommand
    <2>1. /\ cmds # <<>> /\ cmds' = Tail(cmds) /\ bus' = Append(bus, Head(cmds))
          /\ UNCHANGED <<uiq, llmRunning>> /\ Head(cmds) \in Messages
      BY <1>0, <1>3, QueueHead DEF RelayCommand, Published
    <2>2. /\ Has(cmds, "chat") => Has(cmds', "chat") \/ Has(bus', "chat")
          /\ Has(bus, "chat") => Has(bus', "chat")
      BY <1>0, <2>1, HasTail, HasAppend
    <2>3. Locked => Locked'
      BY <2>1, <2>2 DEF Locked
    <2>4. QED
      BY <1>2, <2>3, WaitingStays
  <1>4. CASE RelaySnapshot
    <2>1. /\ cmds # <<>> /\ cmds' = Tail(cmds) /\ Head(cmds).kind # "chat"
          /\ UNCHANGED <<bus, uiq, llmRunning>>
      BY <1>4 DEF RelaySnapshot
    <2>2. Has(cmds, "chat") => Has(cmds', "chat")
      BY <1>0, <2>1, HasTail
    <2>3. Locked => Locked'
      BY <2>1, <2>2 DEF Locked
    <2>4. QED
      BY <1>2, <2>3, WaitingStays
  <1>5. CASE StartTurn
    BY <1>5 DEF StartTurn, WaitingInv
  <1>6. CASE RejectChat \/ HandleDone
    <2>1. PICK k \in {"busy", "reply"} : uiq' = Append(uiq, Plain(k))
      BY <1>6 DEF RejectChat, HandleDone
    <2>2. Plain(k) \in Messages /\ Plain(k).kind = k
      BY <1>1 DEF Kinds
    <2>3. Has(uiq', k)
      BY <1>0, <2>1, <2>2, HasAppend
    <2>4. QED
      BY <2>3 DEF WaitingInv
  <1>7. CASE HandleCancel \/ PresentAgentUI
    <2>1. /\ bus # <<>> /\ bus' = Tail(bus) /\ Head(bus).kind # "chat" /\ Head(bus) \in Messages
          /\ UNCHANGED <<cmds, llmRunning>> /\ (uiq' = uiq \/ uiq' = Append(uiq, Head(bus)))
      BY <1>0, <1>7, QueueHead DEF HandleCancel, PresentAgentUI, Event, AgentKinds, CardKinds
    <2>2. Has(bus, "chat") => Has(bus', "chat")
      BY <1>0, <2>1, HasTail
    <2>3. \A k \in {"reply", "busy"} : Has(uiq, k) => Has(uiq', k)
      BY <1>0, <2>1, HasAppend
    <2>4. Locked => Locked'
      BY <2>1, <2>2, <2>3 DEF Locked
    <2>5. QED
      BY <1>2, <2>4, WaitingStays
  <1>8. QED
    BY <1>3, <1>4, <1>5, <1>6, <1>7 DEF Host

\* Every step keeps the waiting flag covered.
LEMMA WaitingStep == TypeOK /\ DroppedInv /\ WaitingInv /\ [Next]_vars => WaitingInv'
  <1> SUFFICES ASSUME TypeOK, DroppedInv, WaitingInv, [Next]_vars PROVE WaitingInv'
    OBVIOUS
  <1>0. uiq \in Seq(Messages) /\ bus \in Seq(Messages) /\ cmds \in Seq(Messages) /\ agentq \in Seq(Messages)
    BY DEF TypeOK, ChannelsTypeOK
  <1>1. CASE UNCHANGED <<cmds, bus, uiq, llmRunning>> /\ (waiting' => waiting)
    BY <1>1, WaitingStays DEF Locked
  <1>2. CASE Submit
    <2>1. Msg("chat", <<chats + 1, 0>>) \in Messages /\ Msg("chat", <<chats + 1, 0>>).kind = "chat"
      BY <1>2, MsgType, BoundsAssumption DEF Submit, TypeOK, TurnTypeOK, Msg, Kinds, CmdKinds
    <2>2. Has(cmds', "chat")
      BY <1>0, <1>2, <2>1, HasAppend DEF Submit, Send
    <2>3. QED
      BY <2>2 DEF WaitingInv
  <1>3. CASE EscCancelCommand \/ EscCancelTurn \/ Bash
    <2>1. UNCHANGED <<bus, uiq, llmRunning>> /\ (waiting' => waiting)
          /\ (cmds' = cmds \/ \E k \in CmdKinds : cmds' = Append(cmds, Plain(k)))
      BY <1>3 DEF EscCancelCommand, EscCancelTurn, Bash, Send, TrySend, CmdKinds
    <2>2. \A k \in CmdKinds : Plain(k) \in Messages
      BY MsgType, BoundsAssumption DEF Plain, Kinds
    <2>3. Has(cmds, "chat") => Has(cmds', "chat")
      BY <1>0, <2>1, <2>2, HasAppend
    <2>4. Locked => Locked'
      BY <2>1, <2>3 DEF Locked
    <2>5. QED
      BY <2>1, <2>4, WaitingStays
  <1>4. CASE Approve \/ Dismiss \/ SubmitGuidance
    <2>1. UNCHANGED <<cmds, bus, uiq, llmRunning>>
      BY <1>4 DEF Approve, Dismiss, SubmitGuidance, AnswerApproval
    <2>2. waiting' => waiting
      BY <1>4 DEF Approve, Dismiss, SubmitGuidance, AnswerApproval
    <2>3. QED
      BY <1>1, <2>1, <2>2
  <1>5. CASE User
    BY <1>1, <1>2, <1>3, <1>4, <1>5 DEF User, ToggleGuidance, SubmitPaste, EscCancelPaste, AnswerPaste,
       Refuse, RunAndStore, RunNoStore, AnswerSensitive, CtrlC, BashReturns
  <1>6. CASE ProgramEnds \/ ShowReply
    BY <1>6 DEF ProgramEnds, ShowReply, WaitingInv
  <1>7. CASE DropMessage
    <2>1. ~waiting /\ waiting' = waiting
      BY <1>7 DEF DropMessage, DroppedInv
    <2>2. QED
      BY <2>1 DEF WaitingInv
  <1>8. CASE ShowCard \/ ShowExecuting
    <2>1. /\ uiq # <<>> /\ uiq' = Tail(uiq) /\ Head(uiq).kind \notin {"reply", "busy"}
          /\ UNCHANGED <<cmds, bus, llmRunning, waiting>>
      BY <1>8 DEF ShowCard, ShowExecuting, Deliver, CardKinds
    <2>2. \A k \in {"reply", "busy"} : Has(uiq, k) => Has(uiq', k)
      BY <1>0, <2>1, HasTail
    <2>3. Locked => Locked'
      BY <2>1, <2>2 DEF Locked
    <2>4. QED
      BY <2>1, <2>3, WaitingStays
  <1>9. CASE Bridge
    <2>1. /\ agentq # <<>> /\ bus' = Append(bus, Head(agentq)) /\ Head(agentq) \in Messages
          /\ UNCHANGED <<cmds, uiq, llmRunning, waiting>>
      BY <1>0, <1>9, QueueHead DEF Bridge
    <2>2. Has(bus, "chat") => Has(bus', "chat")
      BY <1>0, <2>1, HasAppend
    <2>3. Locked => Locked'
      BY <2>1, <2>2 DEF Locked
    <2>4. QED
      BY <2>1, <2>3, WaitingStays
  <1>10. ASSUME NEW r \in Runs, Agent(r) PROVE WaitingInv'
    <2>1. UNCHANGED <<cmds, uiq, llmRunning, waiting>>
          /\ (bus' = bus \/ bus' = Append(bus, Msg("done", <<r, 0>>)))
      BY <1>10 DEF Agent, Propose, Tool, ReceiveApproval, ReceivePaste, Register, SyncFails,
         PushExecuting, Launch, Finish, Record, PopExecuting, Unregister, ToolsDone, Reply, Outside
    <2>2. Msg("done", <<r, 0>>) \in Messages
      BY MsgType, BoundsAssumption DEF Kinds, Runs
    <2>3. Has(bus, "chat") => Has(bus', "chat")
      BY <1>0, <2>1, <2>2, HasAppend
    <2>4. Locked => Locked'
      BY <2>1, <2>3 DEF Locked
    <2>5. QED
      BY <2>1, <2>4, WaitingStays
  <1>11. CASE UNCHANGED vars
    BY <1>1, <1>11
  <1>12. QED
    BY <1>5, <1>6, <1>7, <1>8, <1>9, <1>10, <1>11, WaitingHost DEF Next, Pump

\* The two flags that lock the input are covered in every state.
THEOREM LocksInvariant == Spec => []LocksInv
  <1>1. Init => LocksInv
    BY DEF Init, LocksInv, ExecutingInv, WaitingInv, DroppedInv, Followed
  <1>2. ConsentInv /\ LocksInv /\ [Next]_vars => LocksInv'
    BY ExecutingStep, WaitingStep, DroppedStep DEF ConsentInv, LocksInv
  <1>3. QED
    BY <1>1, <1>2, ConsentInvariant, PTL DEF Spec

\* ExecEventPush/Pop and AgentReply: whatever is cancelled, refused or left, what
\* clears [EXECUTING] and the waiting flag is running or on its way to the UI.
THEOREM LocksCorrect == Spec => []LocksAreReleased
  <1>1. LocksInv => LocksAreReleased
    BY DEF LocksInv, ExecutingInv, WaitingInv, OffBehindUI, InExec, LocksAreReleased
  <1>2. QED
    BY <1>1, LocksInvariant, PTL
-----------------------------------------------------------------------------
(* The decisions a call has had at each place.                             *)

\* A call that nobody touches stands where it stood.
LEMMA StandingStays ==
  ASSUME TypeOK, CallCounted, NEW r \in Runs, Standing(r),
         pc'[r] = pc[r], call'[r] = call[r], offline'[r] = offline[r],
         \A q \in Requests : q = Current(r) =>
           /\ proposed'[q] = proposed[q] /\ answer'[q] = answer[q] /\ audit'[q] = audit[q]
           /\ approval'[q] = approval[q] /\ confirm'[q] = confirm[q] /\ (q \in started' <=> q \in started)
  PROVE  Standing(r)'
  <1>1. CASE pc[r] \in InCall
    <2>1. Current(r) \in Requests /\ Current(r)' = Current(r)
      BY <1>1 DEF CallCounted, Current
    <2>2. QED
      BY <2>1 DEF Standing
  <1>2. CASE pc[r] \notin InCall
    BY <1>2 DEF Standing, InCall, PCs, CardKinds, TypeOK, TurnTypeOK
  <1>3. QED
    BY <1>1, <1>2

\* A key moves the call on whose card it answers.
LEMMA StandingUser ==
  ASSUME TypeOK, CallCounted, CardsInv, StandingInv, User
  PROVE  StandingInv'
  <1>0. TurnTypeOK /\ RequestTypeOK
    BY DEF TypeOK
  <1>1. CASE UNCHANGED <<known, pc, call, offline>>
    BY <1>1 DEF StandingInv, Standing, Current, known
  <1>2. ASSUME NEW r \in Runs, Current(r) \in Requests, pc[r] \in CardKinds,
               UNCHANGED <<call, offline, proposed, audit, started>>,
               \A s \in Runs \ {r} : pc'[s] = pc[s],
               \A q \in Requests : q # Current(r) =>
                 answer'[q] = answer[q] /\ approval'[q] = approval[q] /\ confirm'[q] = confirm[q],
               Standing(r)'
        PROVE  StandingInv'
    <2>1. ASSUME NEW s \in Runs \ {r} PROVE Standing(s)'
      <3>1. Current(s) # Current(r)
        BY DEF Current
      <3>2. QED
        BY <1>2, <3>1, StandingStays DEF StandingInv
    <2>2. QED
      BY <1>2, <2>1 DEF StandingInv
  <1>3. ASSUME NEW r \in Runs,
               LET q == Current(r)
               IN /\ q \in Requests /\ answer[q] = "none"
                  /\ UNCHANGED <<call, offline, proposed, audit, started>>
                  /\ \/ /\ pc[r] = "approval" /\ UNCHANGED <<pc, confirm>>
                        /\ \/ /\ answer' = [answer EXCEPT ![q] = "approve"]
                              /\ approval' = [approval EXCEPT ![q] = "user"]
                           \/ /\ answer' = [answer EXCEPT ![q] = "decline"]
                              /\ approval' = [approval EXCEPT ![q] = "declined"]
                     \/ /\ pc[r] = "paste" /\ UNCHANGED <<pc, confirm, approval>>
                        /\ \E a : answer' = [answer EXCEPT ![q] = a]
                     \/ /\ pc[r] = "sensitive" /\ UNCHANGED <<answer, approval>>
                        /\ \E choice \in {"refuse", "store", "nostore"} :
                             /\ confirm' = [confirm EXCEPT ![q] = choice]
                             /\ pc' = [pc EXCEPT ![r] = AfterSensitive(r, choice)]
        PROVE  StandingInv'
    <2> DEFINE q == Current(r)
    <2>1. q \in Requests /\ UNCHANGED <<call, offline, proposed, audit, started>> /\ q' = q /\ Standing(r)
      BY <1>3 DEF Current, StandingInv
    <2> HIDE DEF q
    <2>2. CASE pc[r] = "approval"
      <3>1. /\ UNCHANGED <<pc, confirm>>
            /\ \/ /\ answer' = [answer EXCEPT ![q] = "approve"]
                  /\ approval' = [approval EXCEPT ![q] = "user"]
               \/ /\ answer' = [answer EXCEPT ![q] = "decline"]
                  /\ approval' = [approval EXCEPT ![q] = "declined"]
        BY <1>3, <2>2 DEF q
      <3>2. Standing(r)'
        BY <1>0, <2>1, <2>2, <3>1 DEF Standing, RequestTypeOK, q
      <3>3. QED
        BY <1>0, <1>2, <2>1, <2>2, <3>1, <3>2 DEF RequestTypeOK, CardKinds, q
    <2>3. CASE pc[r] = "paste"
      <3>1. UNCHANGED <<pc, confirm, approval>> /\ \E a : answer' = [answer EXCEPT ![q] = a]
        BY <1>3, <2>3 DEF q
      <3>2. Standing(r)'
        BY <2>1, <2>3, <3>1 DEF Standing, q
      <3>3. QED
        BY <1>0, <1>2, <2>1, <2>3, <3>1, <3>2 DEF RequestTypeOK, CardKinds, q
    <2>4. CASE pc[r] = "sensitive"
      <3>1. PICK choice \in {"refuse", "store", "nostore"} :
              /\ UNCHANGED <<answer, approval>>
              /\ confirm' = [confirm EXCEPT ![q] = choice]
              /\ pc' = [pc EXCEPT ![r] = AfterSensitive(r, choice)]
        BY <1>3, <2>4 DEF q
      <3>2. pc'[r] = AfterSensitive(r, choice) /\ confirm'[q] = choice
        BY <1>0, <2>1, <3>1 DEF TurnTypeOK, RequestTypeOK
      <3>3. Standing(r)'
        BY <2>1, <2>4, <3>1, <3>2 DEF Standing, AfterSensitive, CardKinds, q
      <3>4. QED
        BY <1>0, <1>2, <2>1, <2>4, <3>1, <3>3 DEF TurnTypeOK, RequestTypeOK, CardKinds, q
    <2>5. QED
      BY <1>3, <2>2, <2>3, <2>4
  <1>4. QED
    BY <1>1, <1>3, KeyAnswersCall

\* A turn that begins has no call yet; nobody else touches one.
LEMMA StandingOthers ==
  ASSUME TypeOK, CallCounted, ChatsInv, StandingInv,
         ProgramEnds \/ Pump \/ Bridge \/ Host \/ UNCHANGED vars
  PROVE  StandingInv'
  <1>1. CASE UNCHANGED <<known, pc, call, offline>>
    BY <1>1 DEF StandingInv, Standing, Current, known
  <1>2. ASSUME NEW r \in Runs, pc[r] = "unused", call[r] = 0, pc' = [pc EXCEPT ![r] = "model"],
               NEW off \in BOOLEAN, offline' = [offline EXCEPT ![r] = off], UNCHANGED <<known, call>>
        PROVE  StandingInv'
    <2>1. pc'[r] = "model" /\ \A s \in Runs \ {r} : pc'[s] = pc[s] /\ offline'[s] = offline[s]
      BY <1>2 DEF TypeOK, TurnTypeOK
    <2>2. ASSUME NEW s \in Runs PROVE Standing(s)'
      <3>1. CASE s = r
        BY <2>1, <3>1 DEF Standing, CardKinds
      <3>2. CASE s # r
        BY <1>2, <2>1, <3>2, StandingStays DEF StandingInv, known
      <3>3. QED
        BY <3>1, <3>2
    <2>3. QED
      BY <1>2, <2>2 DEF StandingInv, known
  <1>3. QED
    BY <1>1, <1>2, OthersKeepCalls

\* A call that is made stands at its first question, or at the gate.
LEMMA StandingPropose ==
  ASSUME TypeOK, FreshInv, StandingInv, NEW r \in Runs, NEW cmd \in Commands, Propose(r, cmd)
  PROVE  Standing(r)'
  <1>0. TurnTypeOK /\ RequestTypeOK
    BY DEF TypeOK
  <1> DEFINE slash == cmd \in Skills /\ named[r] = cmd
  <1>1. PICK q \in Requests :
          q = <<r, call[r] + 1>> /\ Current(r)' = q /\ q[1] = r /\ q[2] > call[r]
    BY <1>0, BoundsAssumption DEF Propose, CallsLeft, Current, TurnTypeOK, Requests
  <1>2. Untouched(q)
    BY <1>1 DEF FreshInv
  <1>3. proposed'[q] = cmd /\ cmd # NoCommand /\ UNCHANGED <<answer, confirm, started, offline>>
    BY <1>0, <1>1, CommandsAssumption DEF Propose, RequestTypeOK
  <1>4. q \notin started' /\ confirm'[q] = "none" /\ answer'[q] = "none"
    BY <1>2, <1>3 DEF Untouched
  <1>5. "proposal" \notin audit'[q]
    <2>1. audit' = audit \/ audit' = [audit EXCEPT ![q] = @ \cup {"approved"}]
      BY <1>1 DEF Propose
    <2>2. "proposal" \notin audit[q]
      BY <1>2 DEF Untouched
    <2>3. QED
      BY <1>0, <2>1, <2>2 DEF RequestTypeOK
  <1> USE DEF Enter, Goto, PastApproval
  <1>6. CASE offline[r]
    <2>1. /\ pc'[r] \in {"sensitive", "paste"} /\ UNCHANGED approval /\ offline'[r]
          /\ pc'[r] = "sensitive" => cmd \in Sensitive
      BY <1>0, <1>3, <1>6 DEF Propose, TurnTypeOK
    <2>2. QED
      BY <1>1, <1>2, <1>3, <1>4, <1>5, <2>1 DEF Standing, Untouched
  <1>7. CASE ~offline[r] /\ (cmd \in AllowListed \/ slash)
    <2>1. /\ pc'[r] \in {"sensitive", "ready"} /\ ~offline'[r]
          /\ pc'[r] = "sensitive" => cmd \in Sensitive
      BY <1>0, <1>3, <1>7 DEF Propose, TurnTypeOK
    <2>2. QED
      BY <1>1, <1>3, <1>4, <1>5, <2>1 DEF Standing
  <1>8. CASE ~offline[r] /\ ~(cmd \in AllowListed \/ slash)
    <2>1. pc'[r] = "approval" /\ UNCHANGED approval
      BY <1>0, <1>8 DEF Propose, TurnTypeOK
    <2>2. QED
      BY <1>1, <1>2, <1>3, <1>4, <1>5, <2>1 DEF Standing, Untouched
  <1>9. QED
    BY <1>6, <1>7, <1>8
\* The steps of a call keep it in order: an answer before the gate, the gate
\* before the launch.
LEMMA StandingTool ==
  ASSUME TypeOK, CallCounted, StageInv, StandingInv, NEW r \in Runs, Agent(r),
         ~\E cmd \in Commands : Propose(r, cmd), Current(r) \in Requests
  PROVE  Standing(r)'
  <1>0. TurnTypeOK /\ RequestTypeOK /\ Stage(r) /\ Standing(r)
    BY DEF TypeOK, StageInv, StandingInv
  <1>1. UNCHANGED <<call, offline, confirm, proposed, approval>>
    BY DEF Agent, Tool, ReceiveApproval, ReceivePaste, Register, SyncFails, PushExecuting, Launch, Finish,
       Record, PopExecuting, Unregister, ToolsDone, Reply
  <1>2. PICK q \in Requests : q = Current(r) /\ q[1] = r
    BY DEF Current
  <1>3. Current(r)' = q
    BY <1>1, <1>2 DEF Current
  <1>4. CASE ReceiveApproval(r)
    <2>1. pc[r] = "approval" /\ UNCHANGED started /\ ~offline[r] /\ confirm[q] = "none"
      BY <1>0, <1>2, <1>4 DEF ReceiveApproval, At, Stage
    <2>2. pc'[r] \in {"sensitive", "ready", "tools"} /\ (pc'[r] = "sensitive" => proposed[q] \in Sensitive)
      BY <1>0, <1>2, <1>4 DEF ReceiveApproval, Enter, Goto, PastApproval, TurnTypeOK
    <2>3. "proposal" \notin audit'[q]
      <3>1. \/ audit' = [audit EXCEPT ![q] = @ \cup {"approved"}]
            \/ audit' = [audit EXCEPT ![q] = @ \cup {"declined"}]
        BY <1>2, <1>4 DEF ReceiveApproval
      <3>2. "proposal" \notin audit[q]
        BY <1>0, <1>2, <2>1 DEF Standing, CardKinds
      <3>3. QED
        BY <1>0, <3>1, <3>2 DEF RequestTypeOK
    <2>4. proposed[q] # NoCommand /\ q \notin started
      BY <1>0, <1>2, <2>1 DEF Standing, CardKinds
    <2>5. QED
      BY <1>1, <1>3, <2>1, <2>2, <2>3, <2>4 DEF Standing, CardKinds
  <1>5. CASE ReceivePaste(r) \/ Record(r)
    <2>1. pc'[r] \in {"tools", "recorded"}
      BY <1>0, <1>5 DEF ReceivePaste, Record, Goto, TurnTypeOK
    <2>2. QED
      BY <2>1 DEF Standing, CardKinds
  <1>6. CASE Launch(r)
    <2>1. pc'[r] = "running" /\ started' = started \cup {q}
      BY <1>0, <1>2, <1>6 DEF Launch, Goto, TurnTypeOK
    <2>2. QED
      BY <1>3, <2>1 DEF Standing, CardKinds
  <1>7. CASE Finish(r)
    <2>1. pc[r] = "running" /\ pc'[r] = "returned" /\ UNCHANGED started
      BY <1>0, <1>7 DEF Finish, At, Goto, TurnTypeOK
    <2>2. QED
      BY <1>0, <1>2, <1>3, <2>1 DEF Standing, CardKinds
  <1>8. CASE Register(r) \/ PushExecuting(r)
    <2>1. /\ pc[r] \in {"ready", "registered"} /\ pc'[r] \in {"registered", "executing"}
          /\ UNCHANGED <<audit, started>>
      BY <1>0, <1>8 DEF Register, PushExecuting, At, Goto, TurnTypeOK
    <2>2. QED
      BY <1>0, <1>1, <1>2, <1>3, <2>1 DEF Standing, CardKinds
  <1>9. CASE SyncFails(r) \/ PopExecuting(r) \/ Unregister(r) \/ ToolsDone(r) \/ Reply(r)
    <2>1. pc'[r] \in {"popped", "tools", "model", "finished"}
      BY <1>0, <1>9 DEF SyncFails, PopExecuting, Unregister, ToolsDone, Reply, Goto, TurnTypeOK
    <2>2. QED
      BY <2>1 DEF Standing, CardKinds
  <1>10. QED
    BY <1>4, <1>5, <1>6, <1>7, <1>8, <1>9 DEF Agent, Tool

\* The agent of turn r touches no call but its own.
LEMMA StandingAgent ==
  ASSUME TypeOK, CallCounted, FreshInv, StageInv, StandingInv, NEW r \in Runs, Agent(r)
  PROVE  StandingInv'
  <1>0. TurnTypeOK
    BY DEF TypeOK
  <1>1. /\ \A s \in Runs \ {r} : pc'[s] = pc[s] /\ call'[s] = call[s]
        /\ UNCHANGED <<offline, confirm>>
        /\ call'[r] \in {call[r], call[r] + 1}
        /\ \A q \in Requests : q # Current(r)' =>
              /\ proposed'[q] = proposed[q] /\ answer'[q] = answer[q] /\ audit'[q] = audit[q]
              /\ approval'[q] = approval[q] /\ (q \in started' <=> q \in started)
    BY AgentKeepsOthers
  <1>2. Standing(r)'
    <2>1. CASE \E cmd \in Commands : Propose(r, cmd)
      BY <2>1, StandingPropose
    <2>2. CASE (~\E cmd \in Commands : Propose(r, cmd)) /\ Current(r) \in Requests
      BY <2>2, StandingTool
    <2>3. CASE (~\E cmd \in Commands : Propose(r, cmd)) /\ Current(r) \notin Requests
      <3>1. pc[r] \in {"model", "tools"}
        BY <1>0, <2>3 DEF CallCounted, InCall, TurnTypeOK, Agent, Tool, ReceiveApproval, ReceivePaste,
           Register, SyncFails, PushExecuting, Launch, Finish, Record, PopExecuting, Unregister, ToolsDone,
           Reply, At
      <3>2. pc'[r] \in {"model", "finished"}
        BY <1>0, <2>3, <3>1 DEF Agent, Tool, ReceiveApproval, ReceivePaste, Register, SyncFails,
           PushExecuting, Launch, Finish, Record, PopExecuting, Unregister, ToolsDone, Reply, At, Goto,
           TurnTypeOK
      <3>3. QED
        BY <3>2 DEF Standing, CardKinds
    <2>4. QED
      BY <2>1, <2>2, <2>3
  <1>3. ASSUME NEW s \in Runs \ {r} PROVE Standing(s)'
    <2>1. Current(s) # Current(r)'
      BY DEF Current
    <2>2. \A q \in Requests : q = Current(s) =>
           /\ proposed'[q] = proposed[q] /\ answer'[q] = answer[q] /\ audit'[q] = audit[q]
           /\ approval'[q] = approval[q] /\ confirm'[q] = confirm[q] /\ (q \in started' <=> q \in started)
      BY <1>1, <2>1
    <2>3. QED
      BY <1>1, <2>2, StandingStays DEF StandingInv
  <1>4. ASSUME NEW q \in Requests, q[2] > call'[q[1]] PROVE proposed'[q] = NoCommand
    <2>1. q[1] \in Runs /\ q[2] \in Nat /\ q # Current(r)'
      BY <1>4, <1>0, <1>1 DEF Requests, Current, TurnTypeOK
    <2>2. q[2] > call[q[1]]
      BY <1>0, <1>1, <1>4, <2>1 DEF TurnTypeOK
    <2>3. QED
      BY <1>1, <2>1, <2>2 DEF StandingInv
  <1>5. QED
    BY <1>2, <1>3, <1>4 DEF StandingInv

\* Every step keeps the decisions of all calls in order.
LEMMA StandingStep == ConsentInv /\ StandingInv /\ [Next]_vars => StandingInv'
  BY StandingUser, StandingOthers, StandingAgent DEF ConsentInv, Next

\* At each place a call has had the decisions that lead there, and no others.
THEOREM StandingInvariant == Spec => []StandingInv
  <1>1. Init => StandingInv
    BY DEF Init, StandingInv, Standing, CardKinds
  <1>2. QED
    BY <1>1, StandingStep, ConsentInvariant, PTL DEF Spec
-----------------------------------------------------------------------------
(* AgentTurn implements CommandConsent.                                    *)

\* A call nobody touched looks as before.
LEMMA PhaseStays ==
  ASSUME NEW q \in Requests,
         proposed'[q] = proposed[q], audit'[q] = audit[q], approval'[q] = approval[q],
         confirm'[q] = confirm[q], q \in started' <=> q \in started
  PROVE  phaseOf'[q] = phaseOf[q]
  BY DEF phaseOf

\* If one call is touched at most, the promise sees one call move at most.
LEMMA OneCallMoves ==
  ASSUME RequestTypeOK, RequestTypeOK', NEW q \in Requests,
         \A p \in Requests : p # q =>
           /\ proposed'[p] = proposed[p] /\ audit'[p] = audit[p] /\ approval'[p] = approval[p]
           /\ confirm'[p] = confirm[p] /\ (p \in started' <=> p \in started)
  PROVE  /\ phaseOf' = [phaseOf EXCEPT ![q] = phaseOf'[q]]
         /\ audit' = [audit EXCEPT ![q] = audit'[q]]
  <1>1. \A p \in Requests : p # q => phaseOf'[p] = phaseOf[p]
    BY PhaseStays
  <1>2. DOMAIN phaseOf = Requests /\ DOMAIN phaseOf' = Requests
    BY DEF phaseOf
  <1>3. phaseOf' = [p \in Requests |-> phaseOf'[p]] /\ phaseOf = [p \in Requests |-> phaseOf[p]]
    BY DEF phaseOf
  <1>4. phaseOf' = [phaseOf EXCEPT ![q] = phaseOf'[q]]
    BY <1>1, <1>3
  <1>5. audit' = [audit EXCEPT ![q] = audit'[q]]
    BY DEF RequestTypeOK
  <1>6. QED
    BY <1>4, <1>5

\* The steps of the promise, for a call that is seen to move.
LEMMA StepOfPromise ==
  ASSUME NEW q \in Requests,
         phaseOf' = [phaseOf EXCEPT ![q] = phaseOf'[q]],
         audit' = [audit EXCEPT ![q] = audit'[q]],
         RequestTypeOK,
         \/ /\ phaseOf'[q] = phaseOf[q] /\ audit'[q] = audit[q]
         \/ /\ phaseOf[q] = "idle" /\ phaseOf'[q] = "asked" /\ audit'[q] = audit[q]
         \/ /\ phaseOf[q] = "idle" /\ phaseOf'[q] \in {"asked", "granted"}
            /\ audit'[q] = audit[q] \cup {"approved"}
         \/ /\ phaseOf[q] = "asked" /\ phaseOf'[q] \in {"granted", "refused"} /\ audit'[q] = audit[q]
         \/ /\ phaseOf[q] = "asked" /\ phaseOf'[q] = "relayed"
            /\ \E kept \in SUBSET {"result"} : audit'[q] = audit[q] \cup ({"proposal"} \cup kept)
         \/ /\ phaseOf[q] \in {"asked", "granted"} /\ phaseOf'[q] = phaseOf[q]
            /\ audit'[q] = audit[q] \cup {"approved"}
         \/ /\ phaseOf[q] = "refused" /\ phaseOf'[q] = phaseOf[q] /\ "approved" \notin audit[q]
            /\ audit'[q] = audit[q] \cup {"declined"}
         \/ /\ phaseOf[q] = "granted" /\ phaseOf'[q] = "started" /\ "approved" \in audit[q]
            /\ audit'[q] = audit[q]
         \/ /\ phaseOf[q] = "started" /\ phaseOf'[q] = phaseOf[q] /\ audit'[q] = audit[q] \cup {"result"}
  PROVE  [Consent!Next]_<<phaseOf, audit>>
  <1>0. audit = [p \in Requests |-> audit[p]] /\ phaseOf = [p \in Requests |-> phaseOf[p]]
    BY DEF RequestTypeOK, phaseOf
  <1>1. phaseOf'[q] = phaseOf[q] => phaseOf' = phaseOf
    BY <1>0
  <1>2. audit'[q] = audit[q] => audit' = audit
    BY <1>0
  <1>3. \A new : audit'[q] = audit[q] \cup new => Consent!Note(q, new)
    BY DEF Consent!Note
  <1>4. \A from, to : phaseOf[q] \in from /\ phaseOf'[q] = to => Consent!Move(q, from, to)
    BY DEF Consent!Move
  <1>5. CASE phaseOf'[q] = phaseOf[q] /\ audit'[q] = audit[q]
    BY <1>1, <1>2, <1>5
  <1>6. CASE phaseOf[q] = "idle" /\ phaseOf'[q] = "asked" /\ audit'[q] = audit[q]
    <2>1. Consent!Ask(q)
      BY <1>2, <1>4, <1>6 DEF Consent!Ask
    <2>2. QED
      BY <2>1 DEF Consent!Next, Consent!Step
  <1>7. CASE /\ phaseOf[q] = "idle" /\ phaseOf'[q] \in {"asked", "granted"}
             /\ audit'[q] = audit[q] \cup {"approved"}
    <2>1. Consent!Allow(q)
      BY <1>3, <1>4, <1>7 DEF Consent!Allow
    <2>2. QED
      BY <2>1 DEF Consent!Next, Consent!Step
  <1>8. CASE phaseOf[q] = "asked" /\ phaseOf'[q] \in {"granted", "refused"} /\ audit'[q] = audit[q]
    <2>1. Consent!Grant(q) \/ Consent!Refuse(q)
      BY <1>2, <1>4, <1>8 DEF Consent!Grant, Consent!Refuse
    <2>2. QED
      BY <2>1 DEF Consent!Next, Consent!Step
  <1>9. CASE /\ phaseOf[q] = "asked" /\ phaseOf'[q] = "relayed"
             /\ \E kept \in SUBSET {"result"} : audit'[q] = audit[q] \cup ({"proposal"} \cup kept)
    <2>1. Consent!Relay(q)
      BY <1>3, <1>4, <1>9 DEF Consent!Relay
    <2>2. QED
      BY <2>1 DEF Consent!Next, Consent!Step
  <1>10. CASE /\ phaseOf[q] \in {"asked", "granted"} /\ phaseOf'[q] = phaseOf[q]
              /\ audit'[q] = audit[q] \cup {"approved"}
    <2>1. Consent!NoteApproval(q)
      BY <1>1, <1>3, <1>10 DEF Consent!NoteApproval
    <2>2. QED
      BY <2>1 DEF Consent!Next, Consent!Step
  <1>11. CASE /\ phaseOf[q] = "refused" /\ phaseOf'[q] = phaseOf[q] /\ "approved" \notin audit[q]
              /\ audit'[q] = audit[q] \cup {"declined"}
    <2>1. Consent!NoteRefusal(q)
      BY <1>1, <1>3, <1>11 DEF Consent!NoteRefusal
    <2>2. QED
      BY <2>1 DEF Consent!Next, Consent!Step
  <1>12. CASE /\ phaseOf[q] = "granted" /\ phaseOf'[q] = "started" /\ "approved" \in audit[q]
              /\ audit'[q] = audit[q]
    <2>1. Consent!Start(q)
      BY <1>2, <1>4, <1>12 DEF Consent!Start
    <2>2. QED
      BY <2>1 DEF Consent!Next, Consent!Step
  <1>13. CASE /\ phaseOf[q] = "started" /\ phaseOf'[q] = phaseOf[q]
              /\ audit'[q] = audit[q] \cup {"result"}
    <2>1. Consent!KeepResult(q)
      BY <1>1, <1>3, <1>13 DEF Consent!KeepResult
    <2>2. QED
      BY <2>1 DEF Consent!Next, Consent!Step
  <1>14. QED
    BY <1>5, <1>6, <1>7, <1>8, <1>9, <1>10, <1>11, <1>12, <1>13

\* A key answers for one call: it grants or refuses what the call asked.
LEMMA PromiseUser ==
  ASSUME ConsentInv, StandingInv, RequestTypeOK', User
  PROVE  [Consent!Next]_<<phaseOf, audit>>
  <1>0. TypeOK /\ TurnTypeOK /\ RequestTypeOK /\ CardsInv /\ CallCounted
    BY DEF ConsentInv, TypeOK
  <1>1. CASE UNCHANGED <<known, pc, call, offline>>
    BY <1>1 DEF known, phaseOf
  <1>2. ASSUME NEW r \in Runs,
               LET q == Current(r)
               IN /\ q \in Requests /\ answer[q] = "none"
                  /\ UNCHANGED <<call, offline, proposed, audit, started>>
                  /\ \/ /\ pc[r] = "approval" /\ UNCHANGED <<pc, confirm>>
                        /\ \/ /\ answer' = [answer EXCEPT ![q] = "approve"]
                              /\ approval' = [approval EXCEPT ![q] = "user"]
                           \/ /\ answer' = [answer EXCEPT ![q] = "decline"]
                              /\ approval' = [approval EXCEPT ![q] = "declined"]
                     \/ /\ pc[r] = "paste" /\ UNCHANGED <<pc, confirm, approval>>
                        /\ \E a : answer' = [answer EXCEPT ![q] = a]
                     \/ /\ pc[r] = "sensitive" /\ UNCHANGED <<answer, approval>>
                        /\ \E choice \in {"refuse", "store", "nostore"} :
                             /\ confirm' = [confirm EXCEPT ![q] = choice]
                             /\ pc' = [pc EXCEPT ![r] = AfterSensitive(r, choice)]
        PROVE  [Consent!Next]_<<phaseOf, audit>>
    <2> DEFINE q == Current(r)
    <2>1. /\ q \in Requests /\ UNCHANGED <<proposed, audit, started>> /\ answer[q] = "none" /\ q[1] = r
          /\ Standing(r) /\ Stage(r)
      BY <1>2 DEF StandingInv, ConsentInv, StageInv, Current
    <2> HIDE DEF q
    <2>2. ASSUME \A p \in Requests : p # q => (approval'[p] = approval[p] /\ confirm'[p] = confirm[p]),
                 \/ phaseOf'[q] = phaseOf[q]
                 \/ phaseOf[q] = "asked" /\ phaseOf'[q] \in {"granted", "refused"}
          PROVE  [Consent!Next]_<<phaseOf, audit>>
      <3>1. /\ phaseOf' = [phaseOf EXCEPT ![q] = phaseOf'[q]]
            /\ audit' = [audit EXCEPT ![q] = audit'[q]]
        BY <1>0, <2>1, <2>2, OneCallMoves
      <3>2. audit'[q] = audit[q]
        BY <2>1
      <3>3. QED
        BY <1>0, <2>1, <2>2, <3>1, <3>2, StepOfPromise
    <2>3. CASE pc[r] = "approval"
      <3>1. /\ UNCHANGED confirm
            /\ \/ approval' = [approval EXCEPT ![q] = "user"]
               \/ approval' = [approval EXCEPT ![q] = "declined"]
        BY <1>2, <2>3 DEF q
      <3>2. /\ proposed[q] # NoCommand /\ q \notin started /\ approval[q] = "none"
            /\ confirm[q] = "none" /\ audit[q] = {}
        BY <2>1, <2>3 DEF Standing, Stage, CardKinds, q
      <3>3. phaseOf[q] = "asked"
        BY <2>1, <3>2 DEF phaseOf
      <3>4. approval'[q] \in {"user", "declined"} /\ confirm'[q] = "none" /\ audit'[q] = {}
            /\ q \notin started' /\ proposed'[q] # NoCommand
        BY <1>0, <2>1, <3>1, <3>2 DEF RequestTypeOK
      <3>5. phaseOf'[q] \in {"asked", "granted", "refused"}
        BY <2>1, <3>4 DEF phaseOf
      <3>6. \A p \in Requests : p # q => approval'[p] = approval[p] /\ confirm'[p] = confirm[p]
        BY <1>0, <3>1 DEF RequestTypeOK
      <3>7. QED
        BY <2>2, <3>3, <3>5, <3>6
    <2>4. CASE pc[r] = "paste"
      <3>1. UNCHANGED <<confirm, approval>>
        BY <1>2, <2>4
      <3>2. QED
        BY <2>1, <3>1 DEF phaseOf
    <2>5. CASE pc[r] = "sensitive"
      <3>1. PICK choice \in {"refuse", "store", "nostore"} :
              UNCHANGED approval /\ confirm' = [confirm EXCEPT ![q] = choice]
        BY <1>2, <2>5 DEF q
      <3>2. /\ proposed[q] # NoCommand /\ proposed[q] \in Sensitive /\ q \notin started
            /\ confirm[q] = "none" /\ "proposal" \notin audit[q] /\ approval[q] # "declined"
        BY <2>1, <2>5 DEF Standing, Stage, CardKinds, Approved, Permitted, q
      <3>3. phaseOf[q] = "asked"
        BY <2>1, <3>2 DEF phaseOf
      <3>4. /\ confirm'[q] = choice /\ approval'[q] # "declined" /\ "proposal" \notin audit'[q]
            /\ q \notin started' /\ proposed'[q] # NoCommand
        BY <1>0, <2>1, <3>1, <3>2 DEF RequestTypeOK
      <3>5. phaseOf'[q] \in {"asked", "granted", "refused"}
        BY <2>1, <3>4 DEF phaseOf
      <3>6. \A p \in Requests : p # q => approval'[p] = approval[p] /\ confirm'[p] = confirm[p]
        BY <1>0, <3>1 DEF RequestTypeOK
      <3>7. QED
        BY <2>2, <3>3, <3>5, <3>6
    <2>6. QED
      BY <1>2, <2>3, <2>4, <2>5
  <1>3. QED
    BY <1>0, <1>1, <1>2, KeyAnswersCall

\* A call that is made is asked about, or the allow list or the user's own
\* /skill line stands for the approval.
LEMMA PromisePropose ==
  ASSUME ConsentInv, StandingInv, NEW r \in Runs, NEW cmd \in Commands, Propose(r, cmd),
         NEW q \in Requests, q = <<r, call[r] + 1>>
  PROVE  /\ phaseOf[q] = "idle"
         /\ \/ phaseOf'[q] = "asked" /\ audit'[q] = audit[q]
            \/ phaseOf'[q] \in {"asked", "granted"} /\ audit'[q] = audit[q] \cup {"approved"}
  <1> DEFINE slash == cmd \in Skills /\ named[r] = cmd
  <1>0. TypeOK /\ TurnTypeOK /\ RequestTypeOK
    BY DEF ConsentInv, TypeOK
  <1>1. q[1] = r /\ q[2] > call[r]
    BY <1>0, BoundsAssumption DEF TurnTypeOK
  <1>2. Untouched(q) /\ proposed[q] = NoCommand
    BY <1>1 DEF ConsentInv, FreshInv, StandingInv
  <1>3. phaseOf[q] = "idle"
    BY <1>2 DEF phaseOf, Untouched
  <1>4. proposed'[q] = cmd /\ cmd # NoCommand /\ UNCHANGED <<confirm, started>>
    BY <1>0, CommandsAssumption DEF Propose, RequestTypeOK
  <1>5. confirm'[q] = "none" /\ q \notin started' /\ audit[q] = {} /\ approval[q] = "none"
    BY <1>2, <1>4 DEF Untouched
  <1>6. CASE offline[r] \/ ~(cmd \in AllowListed \/ slash)
    <2>1. UNCHANGED <<audit, approval>>
      BY <1>6 DEF Propose
    <2>2. phaseOf'[q] = "asked"
      BY <1>4, <1>5, <2>1 DEF phaseOf
    <2>3. QED
      BY <1>3, <2>1, <2>2
  <1>7. CASE ~offline[r] /\ (cmd \in AllowListed \/ slash)
    <2>1. /\ audit' = [audit EXCEPT ![q] = @ \cup {"approved"}]
          /\ approval' = [approval EXCEPT ![q] = IF slash THEN "user" ELSE "allowed"]
      BY <1>7 DEF Propose
    <2>2. audit'[q] = audit[q] \cup {"approved"} /\ approval'[q] \in {"user", "allowed"}
      BY <1>0, <2>1 DEF RequestTypeOK
    <2>3. audit'[q] = {"approved"}
      BY <1>5, <2>2
    <2>4. phaseOf'[q] \in {"asked", "granted"}
      BY <1>4, <1>5, <2>2, <2>3 DEF phaseOf
    <2>5. QED
      BY <1>3, <2>2, <2>4
  <1>8. QED
    BY <1>6, <1>7

\* The steps of a tool call, for its own call: the decision goes into the log
\* before the start, the output afterwards.
LEMMA PromiseTool ==
  ASSUME ConsentInv, StandingInv, NEW r \in Runs, Agent(r), ~\E cmd \in Commands : Propose(r, cmd),
         NEW q \in Requests, q = Current(r)
  PROVE  \/ phaseOf'[q] = phaseOf[q] /\ audit'[q] = audit[q]
         \/ /\ phaseOf[q] = "asked" /\ phaseOf'[q] = "relayed"
            /\ \E kept \in SUBSET {"result"} : audit'[q] = audit[q] \cup ({"proposal"} \cup kept)
         \/ /\ phaseOf[q] \in {"asked", "granted"} /\ phaseOf'[q] = phaseOf[q]
            /\ audit'[q] = audit[q] \cup {"approved"}
         \/ /\ phaseOf[q] = "refused" /\ phaseOf'[q] = phaseOf[q] /\ "approved" \notin audit[q]
            /\ audit'[q] = audit[q] \cup {"declined"}
         \/ /\ phaseOf[q] = "granted" /\ phaseOf'[q] = "started" /\ "approved" \in audit[q]
            /\ audit'[q] = audit[q]
         \/ /\ phaseOf[q] = "started" /\ phaseOf'[q] = phaseOf[q] /\ audit'[q] = audit[q] \cup {"result"}
  <1>0. TypeOK /\ TurnTypeOK /\ RequestTypeOK /\ Standing(r) /\ Stage(r) /\ q[1] = r
    BY DEF ConsentInv, TypeOK, StandingInv, StageInv, Current
  <1>1. UNCHANGED <<confirm, proposed, approval>>
    BY DEF Agent, Tool, ReceiveApproval, ReceivePaste, Register, SyncFails, PushExecuting, Launch, Finish,
       Record, PopExecuting, Unregister, ToolsDone, Reply
  <1>2. CASE ReceiveApproval(r)
    <2>1. pc[r] = "approval" /\ answer[q] # "none" /\ UNCHANGED started
      BY <1>2 DEF ReceiveApproval, At, Answered
    <2>2. /\ proposed[q] # NoCommand /\ q \notin started /\ confirm[q] = "none" /\ audit[q] = {}
          /\ answer[q] = "approve" => approval[q] = "user"
          /\ answer[q] # "approve" => approval[q] = "declined"
      BY <1>0, <2>1 DEF Standing, Stage, CardKinds
    <2>3. CASE answer[q] = "approve"
      <3>1. audit' = [audit EXCEPT ![q] = @ \cup {"approved"}]
        BY <1>2, <2>3 DEF ReceiveApproval
      <3>2. audit'[q] = audit[q] \cup {"approved"}
        BY <1>0, <3>1 DEF RequestTypeOK
      <3>3. phaseOf[q] \in {"asked", "granted"} /\ phaseOf'[q] = phaseOf[q]
        BY <1>1, <2>1, <2>2, <2>3, <3>2 DEF phaseOf
      <3>4. QED
        BY <3>2, <3>3
    <2>4. CASE answer[q] # "approve"
      <3>1. audit' = [audit EXCEPT ![q] = @ \cup {"declined"}]
        BY <1>2, <2>4 DEF ReceiveApproval
      <3>2. audit'[q] = audit[q] \cup {"declined"}
        BY <1>0, <3>1 DEF RequestTypeOK
      <3>3. phaseOf[q] = "refused" /\ phaseOf'[q] = "refused"
        BY <1>1, <2>1, <2>2, <2>4 DEF phaseOf
      <3>4. QED
        BY <2>2, <3>2, <3>3
    <2>5. QED
      BY <2>3, <2>4
  <1>3. CASE ReceivePaste(r)
    <2>1. pc[r] = "paste" /\ UNCHANGED started
      BY <1>3 DEF ReceivePaste, At
    <2>2. /\ proposed[q] # NoCommand /\ q \notin started /\ "proposal" \notin audit[q]
          /\ confirm[q] # "refuse" /\ approval[q] = "none"
      BY <1>0, <2>1 DEF Standing, CardKinds
    <2>3. phaseOf[q] = "asked"
      BY <2>2 DEF phaseOf
    <2>4. CASE answer[q] = "cancelled"
      <3>1. audit' = audit
        BY <1>3, <2>4 DEF ReceivePaste
      <3>2. phaseOf'[q] = phaseOf[q]
        BY <1>1, <2>1, <3>1 DEF phaseOf
      <3>3. QED
        BY <3>1, <3>2
    <2>5. CASE answer[q] # "cancelled"
      <3>1. PICK kept \in SUBSET {"result"} :
              audit' = [audit EXCEPT ![q] = @ \cup {"proposal"} \cup kept]
        BY <1>3, <2>5 DEF ReceivePaste
      <3>2. audit'[q] = audit[q] \cup ({"proposal"} \cup kept)
        BY <1>0, <3>1 DEF RequestTypeOK
      <3>3. "proposal" \in audit'[q]
        BY <3>2
      <3>4. phaseOf'[q] = "relayed"
        BY <1>1, <2>1, <2>2, <3>3 DEF phaseOf
      <3>5. QED
        BY <2>3, <3>2, <3>4
    <2>6. QED
      BY <2>4, <2>5
  <1>4. CASE Launch(r)
    <2>1. pc[r] = "executing" /\ UNCHANGED audit /\ q \in started'
      BY <1>4 DEF Launch, At
    <2>2. /\ proposed[q] # NoCommand /\ q \notin started /\ "proposal" \notin audit[q]
          /\ confirm[q] # "refuse" /\ Approved(q) /\ Confirmed(q)
      BY <1>0, <2>1 DEF Standing, Stage, CardKinds
    <2>3. phaseOf[q] = "granted" /\ "approved" \in audit[q]
      BY <2>2 DEF phaseOf, Approved, Permitted, Confirmed
    <2>4. phaseOf'[q] = "started"
      BY <2>1 DEF phaseOf
    <2>5. QED
      BY <2>1, <2>3, <2>4
  <1>5. CASE Record(r)
    <2>1. pc[r] = "returned" /\ UNCHANGED started
      BY <1>5 DEF Record, At
    <2>2. q \in started
      BY <1>0, <2>1 DEF Standing
    <2>3. phaseOf[q] = "started" /\ phaseOf'[q] = "started"
      BY <2>1, <2>2 DEF phaseOf
    <2>4. audit' = audit \/ audit' = [audit EXCEPT ![q] = @ \cup {"result"}]
      BY <1>5 DEF Record
    <2>5. audit'[q] = audit[q] \/ audit'[q] = audit[q] \cup {"result"}
      BY <1>0, <2>4 DEF RequestTypeOK
    <2>6. QED
      BY <2>3, <2>5
  <1>6. CASE ~(ReceiveApproval(r) \/ ReceivePaste(r) \/ Launch(r) \/ Record(r))
    <2>1. UNCHANGED <<audit, started>>
      BY <1>6 DEF Agent, Tool, Register, SyncFails, PushExecuting, Finish, PopExecuting, Unregister,
         ToolsDone, Reply
    <2>2. QED
      BY <1>1, <2>1 DEF phaseOf
  <1>7. QED
    BY <1>2, <1>3, <1>4, <1>5, <1>6

\* The agent of a turn takes one step of the promise, for its own call, or none.
LEMMA PromiseAgent ==
  ASSUME ConsentInv, StandingInv, RequestTypeOK', NEW r \in Runs, Agent(r)
  PROVE  [Consent!Next]_<<phaseOf, audit>>
  <1>0. TypeOK /\ TurnTypeOK /\ RequestTypeOK /\ CallCounted
    BY DEF ConsentInv, TypeOK
  <1>1. /\ UNCHANGED confirm
        /\ \A p \in Requests : p # Current(r)' =>
              /\ proposed'[p] = proposed[p] /\ audit'[p] = audit[p]
              /\ approval'[p] = approval[p] /\ (p \in started' <=> p \in started)
    BY <1>0, AgentKeepsOthers
  <1>2. CASE \E cmd \in Commands : Propose(r, cmd)
    <2>1. PICK cmd \in Commands : Propose(r, cmd)
      BY <1>2
    <2>2. PICK q \in Requests : q = <<r, call[r] + 1>> /\ Current(r)' = q
      BY <1>0, <2>1, BoundsAssumption DEF Propose, CallsLeft, Current, TurnTypeOK, Requests
    <2>3. /\ phaseOf' = [phaseOf EXCEPT ![q] = phaseOf'[q]]
          /\ audit' = [audit EXCEPT ![q] = audit'[q]]
      BY <1>0, <1>1, <2>2, OneCallMoves
    <2>4. /\ phaseOf[q] = "idle"
          /\ \/ phaseOf'[q] = "asked" /\ audit'[q] = audit[q]
             \/ phaseOf'[q] \in {"asked", "granted"} /\ audit'[q] = audit[q] \cup {"approved"}
      BY <2>1, <2>2, PromisePropose
    <2>5. QED
      BY <1>0, <2>3, <2>4, StepOfPromise
  <1>3. CASE (~\E cmd \in Commands : Propose(r, cmd)) /\ Current(r) \in Requests
    <2>1. Current(r)' = Current(r)
      BY <1>3 DEF Current, Agent, Tool, ReceiveApproval, ReceivePaste, Register, SyncFails, PushExecuting,
         Launch, Finish, Record, PopExecuting, Unregister, ToolsDone, Reply
    <2>2. PICK q \in Requests : q = Current(r)
      BY <1>3
    <2>3. /\ phaseOf' = [phaseOf EXCEPT ![q] = phaseOf'[q]]
          /\ audit' = [audit EXCEPT ![q] = audit'[q]]
      BY <1>0, <1>1, <2>1, <2>2, OneCallMoves
    <2>4. QED
      BY <1>0, <1>3, <2>2, <2>3, PromiseTool, StepOfPromise
  <1>4. CASE (~\E cmd \in Commands : Propose(r, cmd)) /\ Current(r) \notin Requests
    <2>1. pc[r] \in {"model", "tools"}
      BY <1>0, <1>4 DEF CallCounted, InCall, TurnTypeOK, Agent, Tool, ReceiveApproval, ReceivePaste,
         Register, SyncFails, PushExecuting, Launch, Finish, Record, PopExecuting, Unregister, ToolsDone,
         Reply, At
    <2>2. UNCHANGED <<proposed, audit, approval, confirm, started>>
      BY <1>4, <2>1 DEF Agent, Tool, ReceiveApproval, ReceivePaste, Register, SyncFails, PushExecuting,
         Launch, Finish, Record, PopExecuting, Unregister, ToolsDone, Reply, At
    <2>3. QED
      BY <2>2 DEF phaseOf
  <1>5. QED
    BY <1>2, <1>3, <1>4

\* CommandConsent for every instance: no step of the UI, the host, the bridge, the
\* restart loop or any agent does to any call what the promise does not allow.
THEOREM PromiseKept == Spec => ImplementsConsent
  <1>1. Init => Consent!Init
    BY DEF Init, Consent!Init, phaseOf
  <1>2. ConsentInv /\ ConsentInv' /\ StandingInv /\ [Next]_vars => [Consent!Next]_<<phaseOf, audit>>
    <2> SUFFICES ASSUME ConsentInv, ConsentInv', StandingInv, [Next]_vars
                 PROVE  [Consent!Next]_<<phaseOf, audit>>
      OBVIOUS
    <2>1. RequestTypeOK' /\ TypeOK /\ ChatsInv
      BY DEF ConsentInv, TypeOK
    <2>2. CASE ProgramEnds \/ Pump \/ Bridge \/ Host \/ UNCHANGED vars
      <3>1. UNCHANGED known
        BY <2>1, <2>2, OthersKeepCalls
      <3>2. QED
        BY <3>1 DEF known, phaseOf
    <2>3. CASE User
      BY <2>1, <2>3, PromiseUser
    <2>4. ASSUME NEW r \in Runs, Agent(r) PROVE [Consent!Next]_<<phaseOf, audit>>
      BY <2>1, <2>4, PromiseAgent
    <2>5. QED
      BY <2>2, <2>3, <2>4 DEF Next
  <1>3. QED
    BY <1>1, <1>2, ConsentInvariant, StandingInvariant, PTL DEF Spec, ImplementsConsent, Consent!Spec

\* Everything AgentTurnInv says, in every reachable state: it is inductive, and
\* what the runs check of one instance holds of all.
THEOREM InductiveCorrect == Spec => []InductiveInv
  <1>1. CASE "bash" \notin Leaves
    <2>1. Spec => [](StaysUp /\ NothingLost)
      BY <1>1, DeliveryInvariant
    <2>2. ConsentInv /\ TurnInv /\ StandingInv /\ LocksInv /\ StaysUp /\ NothingLost => InductiveInv
      BY DEF InductiveInv
    <2>3. QED
      BY <2>1, <2>2, ConsentInvariant, TurnInvariant, StandingInvariant, LocksInvariant, PTL
  <1>2. CASE "bash" \in Leaves
    <2>1. ConsentInv /\ TurnInv /\ StandingInv /\ LocksInv => InductiveInv
      BY <1>2 DEF InductiveInv
    <2>2. QED
      BY <2>1, ConsentInvariant, TurnInvariant, StandingInvariant, LocksInvariant, PTL
  <1>3. QED
    BY <1>1, <1>2
=============================================================================
