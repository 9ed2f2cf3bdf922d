----------------------------- MODULE Parts_proofs -----------------------------
(***************************************************************************)
(* Proofs about the parts that keep something on disk, each for any        *)
(* number of its objects and operations: the session files and the updater *)
(* that reads them, the memory file of a host, the skills.  Each theorem   *)
(* is about the specification of its part: what is proved of ses!Spec is   *)
(* proved of Sessions.                                                     *)
(***************************************************************************)
EXTENDS Parts, FiniteSetTheorems, TLAPS

USE DEF ses!vars, ses!sessions, ses!turnState, ses!updater, hm!vars,
  skl!vars, skl!repo, skl!disk, skl!manifest

-----------------------------------------------------------------------------
(* Sessions: who writes to which file.                                     *)

Events == [kind : ses!Kinds, turn : Nat]

SessionsTypes ==
  /\ fileOf \in Seq(Files) /\ current \in 1 .. Len(fileOf)
  /\ log \in [Files -> Seq(Events)]
  /\ chats \in Nat
  /\ target \in MemoryHosts \cup {NoHost}
  /\ queue \in Seq(ses!Requests)
  /\ ses!Running => writer \in 1 .. Len(fileOf)

\* Until the user changes the session, the running turn writes to the current
\* one, and so does the runner that is kept for the next turn.
TurnsInv ==
  /\ runner \in {0, current}
  /\ ses!Running /\ chats \notin moved =>
       writer = current /\ ses!FilesOf(chats) \subseteq {ses!FileOf(current)}
  /\ TurnInOneFile
  /\ \A t \in Nat : t > chats => ses!FilesOf(t) = {}

\* What a write adds to the files: the one written to, for its turn.
LEMMA WriteAdds ==
  ASSUME SessionsTypes, NEW o \in 1 .. Len(fileOf), NEW kind \in ses!Kinds, NEW turn \in Nat,
         ses!Write(o, kind, turn)
  PROVE  /\ log' \in [Files -> Seq(Events)]
         /\ \A t : ses!FilesOf(t)' \subseteq
                     ses!FilesOf(t) \cup (IF t = turn THEN {ses!FileOf(o)} ELSE {})
  <1> DEFINE e == [kind |-> kind, turn |-> turn]
             file == ses!FileOf(o)
  <1>1. file \in Files /\ e \in Events
    BY DEF SessionsTypes, ses!FileOf, Events
  <1>2. log' = [log EXCEPT ![file] = Append(@, e)] /\ log \in [Files -> Seq(Events)]
    BY DEF ses!Write, SessionsTypes
  <1>3. log' \in [Files -> Seq(Events)]
    BY <1>1, <1>2
  <1>4. ASSUME NEW t, NEW f \in Files, NEW i \in DOMAIN log'[f], log'[f][i].turn = t
        PROVE  f \in ses!FilesOf(t) \/ (t = turn /\ f = file)
    <2>1. CASE f # file
      BY <1>2, <1>4, <2>1 DEF ses!FilesOf
    <2>2. CASE f = file
      <3>1. log'[f] = Append(log[f], e) /\ log[f] \in Seq(Events)
        BY <1>1, <1>2, <2>2
      <3>2. CASE i = Len(log[f]) + 1
        BY <1>4, <2>2, <3>1, <3>2
      <3>3. CASE i # Len(log[f]) + 1
        <4>1. i \in DOMAIN log[f] /\ log[f][i].turn = t
          BY <1>4, <3>1, <3>3
        <4>2. QED
          BY <4>1 DEF ses!FilesOf
      <3>4. QED
        BY <3>2, <3>3
    <2>3. QED
      BY <2>1, <2>2
  <1>5. QED
    BY <1>3, <1>4 DEF ses!FilesOf

\* A queue that loses its head and is not empty then ends as it did.
LEMMA LastOfTail ==
  ASSUME NEW S, NEW q \in Seq(S), q # <<>>, Len(q) # 1
  PROVE  Tail(q) \in Seq(S) /\ Tail(q) # <<>> /\ Tail(q)[Len(Tail(q))] = q[Len(q)]
  <1>1. Len(q) \in Nat /\ Len(q) # 0
    OBVIOUS
  <1>2. PICK n \in Nat : Len(q) = n /\ n # 0 /\ n # 1
    BY <1>1
  <1>3. Tail(q) \in Seq(S) /\ Len(Tail(q)) = n - 1
    BY <1>1, <1>2
  <1>4. \A i \in 1 .. n - 1 : Tail(q)[i] = q[i + 1]
    BY <1>2
  <1>5. n - 1 \in 1 .. n - 1 /\ (n - 1) + 1 = n
    BY <1>2
  <1>6. Tail(q)[n - 1] = q[n]
    BY <1>4, <1>5
  <1>7. Tail(q) # <<>>
    BY <1>3, <1>5
  <1>8. QED
    BY <1>2, <1>3, <1>6, <1>7

\* What waits for the updater ends with the newest request; without one that
\* waits, the timer runs for it.
NewestInv ==
  /\ queue # <<>> => unread \in {NoRequest, queue[Len(queue)]}
  /\ queue = <<>> => unread = NoRequest \/ (unread = pending /\ timer \in {"armed", "fired"})

\* The hook of a session leaves the newest request at the end of the queue.
LEMMA EnqueueAdds ==
  ASSUME SessionsTypes, NewestInv, NEW f \in Files, ses!Enqueue(f),
         UNCHANGED <<pending, timer>>
  PROVE  queue' \in Seq(ses!Requests) /\ NewestInv'
  <1>1. CASE target = NoHost
    BY <1>1 DEF ses!Enqueue, SessionsTypes, NewestInv
  <1>2. CASE target # NoHost
    <2> DEFINE req == [file |-> f, host |-> target]
               room == IF Len(queue) = QueueCap THEN Tail(queue) ELSE queue
    <2>1. queue' = Append(room, req) /\ unread' = req
      BY <1>2 DEF ses!Enqueue
    <2>2. req \in ses!Requests
      BY <1>2 DEF SessionsTypes, ses!Requests
    <2>3. room \in Seq(ses!Requests)
      <3>1. Len(queue) = QueueCap => queue # <<>>
        BY SessionsAssumption DEF SessionsTypes
      <3>2. QED
        BY <3>1 DEF SessionsTypes
    <2> HIDE DEF req, room
    <2>4. queue' \in Seq(ses!Requests) /\ queue' # <<>> /\ queue'[Len(queue')] = req
      BY <2>1, <2>2, <2>3
    <2>5. QED
      BY <2>1, <2>4 DEF NewestInv
  <1>3. QED
    BY <1>1, <1>2

-----------------------------------------------------------------------------
\* A running turn that the user has not moved away from, and a chat that is
\* refused, write to the current session.
LEMMA WriteKeeps ==
  ASSUME SessionsTypes, TurnsInv, NEW o \in 1 .. Len(fileOf), NEW kind \in ses!Kinds,
         NEW turn \in {0, chats}, ses!Running, ses!Write(o, kind, turn),
         turn = chats /\ chats \notin moved => o = current,
         UNCHANGED <<current, fileOf, runner, moved, chats>>, ses!Running' => writer' = writer
  PROVE  TurnsInv'
  <1>1. turn \in Nat
    BY DEF SessionsTypes
  <1>2. \A t : ses!FilesOf(t)' \subseteq
                 ses!FilesOf(t) \cup (IF t = turn THEN {ses!FileOf(o)} ELSE {})
    BY <1>1, WriteAdds
  <1>3. chats \notin moved =>
          writer = current /\ ses!FilesOf(chats)' \subseteq {ses!FileOf(current)}
    BY <1>2 DEF TurnsInv
  <1>4. ses!TurnInOneFile'
    <2> SUFFICES ASSUME NEW t \in 1 .. MaxChats, t \notin moved,
                        NEW f \in ses!FilesOf(t)', NEW g \in ses!FilesOf(t)'
                 PROVE  f = g
      BY DEF ses!TurnInOneFile
    <2>1. CASE t = turn
      <3>1. t = chats
        BY <2>1, SessionsAssumption
      <3>2. QED
        BY <1>3, <3>1
    <2>2. CASE t # turn
      <3>1. f \in ses!FilesOf(t) /\ g \in ses!FilesOf(t)
        BY <1>2, <2>2
      <3>2. QED
        BY <3>1 DEF TurnsInv, TurnInOneFile, ses!TurnInOneFile
    <2>3. QED
      BY <2>1, <2>2
  <1>5. \A t \in Nat : t > chats => ses!FilesOf(t)' = {}
    <2> SUFFICES ASSUME NEW t \in Nat, t > chats PROVE ses!FilesOf(t)' = {}
      OBVIOUS
    <2>1. t # turn
      BY DEF SessionsTypes
    <2>2. QED
      BY <1>2, <2>1 DEF TurnsInv
  <1>6. QED
    BY <1>3, <1>4, <1>5 DEF TurnsInv, TurnInOneFile, ses!FileOf

\* A step that neither writes nor changes who writes keeps what is said of the
\* turns, also one that ends the turn.
LEMMA NothingWritten ==
  ASSUME TurnsInv, ses!Running' => ses!Running,
         UNCHANGED <<log, current, fileOf, runner, moved, chats>>,
         ses!Running' => writer' = writer
  PROVE  TurnsInv'
  BY DEF TurnsInv, TurnInOneFile, ses!TurnInOneFile, ses!FilesOf, ses!FileOf

\* The session changes: the turn that runs is moved away from, the runner is
\* dropped.
LEMMA EnterKeeps ==
  ASSUME SessionsTypes, TurnsInv, NEW f \in Files, ses!Enter(f),
         UNCHANGED <<stage, writer, chats>>
  PROVE  SessionsTypes' => TurnsInv'
  <1>1. /\ runner' = 0 /\ log' = log
        /\ moved' = IF ses!Running THEN moved \cup {chats} ELSE moved
    BY DEF ses!Enter, ses!Turn
  <1>2. \A t : ses!FilesOf(t)' = ses!FilesOf(t)
    BY <1>1 DEF ses!FilesOf
  <1>3. ses!TurnInOneFile'
    BY <1>1, <1>2 DEF TurnsInv, TurnInOneFile, ses!TurnInOneFile
  <1>4. ses!Running' => chats' \in moved'
    BY <1>1 DEF ses!Running
  <1>5. QED
    BY <1>1, <1>2, <1>3, <1>4 DEF TurnsInv, TurnInOneFile

\* A chat starts: no file has an event of its turn yet.
LEMMA StartKeeps ==
  ASSUME SessionsTypes, TurnsInv, ses!StartChat, NEW new, new = chats + 1
  PROVE  TurnsInv' /\ writer' = current
  <1>1. /\ chats' = new /\ writer' = current /\ runner' = current
        /\ ses!Write(current, "user", new)
        /\ UNCHANGED <<current, fileOf, moved>>
    BY DEF ses!StartChat, TurnsInv
  <1>2. "user" \in ses!Kinds /\ new \in Nat /\ current \in 1 .. Len(fileOf)
    BY DEF ses!Kinds, SessionsTypes
  <1>3. \A t : ses!FilesOf(t)' \subseteq
                 ses!FilesOf(t) \cup (IF t = new THEN {ses!FileOf(current)} ELSE {})
    BY <1>1, <1>2, WriteAdds
  <1>4. ses!FilesOf(new) = {}
    BY <1>2 DEF TurnsInv, SessionsTypes
  <1>5. ses!FilesOf(new)' \subseteq {ses!FileOf(current)}
    BY <1>3, <1>4
  <1>6. ses!TurnInOneFile'
    <2> SUFFICES ASSUME NEW t \in 1 .. MaxChats, t \notin moved,
                        NEW f \in ses!FilesOf(t)', NEW g \in ses!FilesOf(t)'
                 PROVE  f = g
      BY <1>1 DEF ses!TurnInOneFile
    <2>1. CASE t = new
      BY <1>5, <2>1 DEF ses!FilesOf
    <2>2. CASE t # new
      <3>1. f \in ses!FilesOf(t) /\ g \in ses!FilesOf(t)
        BY <1>3, <2>2
      <3>2. QED
        BY <3>1 DEF TurnsInv, TurnInOneFile, ses!TurnInOneFile
    <2>3. QED
      BY <2>1, <2>2
  <1>7. \A t \in Nat : t > new => ses!FilesOf(t)' = {}
    <2> SUFFICES ASSUME NEW t \in Nat, t > new PROVE ses!FilesOf(t)' = {}
      OBVIOUS
    <2>1. t # new /\ t > chats
      BY DEF SessionsTypes
    <2>2. QED
      BY <1>3, <2>1 DEF TurnsInv
  <1>8. ses!FileOf(current)' = ses!FileOf(current)
    BY <1>1 DEF ses!FileOf
  <1>9. QED
    BY <1>1, <1>5, <1>6, <1>7, <1>8 DEF TurnsInv, TurnInOneFile

-----------------------------------------------------------------------------
(* Sessions: the steps.                                                    *)

SessionsInv == SessionsTypes /\ TurnsInv /\ NewestInv

\* Every step of the session files and the updater keeps the invariant.
LEMMA SessionsStep == SessionsInv /\ [ses!Next]_(ses!vars) => SessionsInv'
  <1> SUFFICES ASSUME SessionsTypes, TurnsInv, NewestInv, [ses!Next]_(ses!vars)
               PROVE  SessionsInv'
    BY DEF SessionsInv
  <1> USE DEF SessionsInv
  <1>1. CASE ses!RefuseChat
    <2>1. ses!Write(current, "user", 0) /\ "user" \in ses!Kinds /\ ses!Running
      BY <1>1 DEF ses!RefuseChat, ses!Kinds
    <2>2. UNCHANGED <<current, fileOf, ses!turnState, target, ses!updater>>
      BY <1>1 DEF ses!RefuseChat
    <2>3. log' \in [Files -> Seq(Events)] /\ current \in 1 .. Len(fileOf)
      BY <2>1, WriteAdds DEF SessionsTypes
    <2>4. SessionsTypes'
      BY <2>2, <2>3 DEF SessionsTypes, ses!Running
    <2>5. TurnsInv'
      BY <2>1, <2>2, <2>3, WriteKeeps
    <2>6. QED
      BY <2>2, <2>4, <2>5 DEF NewestInv
  <1>2. CASE ses!StartChat
    <2>1. /\ ses!Write(current, "user", chats + 1) /\ "user" \in ses!Kinds
          /\ chats' = chats + 1
          /\ UNCHANGED <<current, fileOf, target, ses!updater>>
      BY <1>2 DEF ses!StartChat, ses!Kinds
    <2>2. chats + 1 \in Nat /\ current \in 1 .. Len(fileOf)
      BY DEF SessionsTypes
    <2>3. log' \in [Files -> Seq(Events)]
      BY <2>1, <2>2, WriteAdds
    <2>4. TurnsInv' /\ writer' = current
      BY <1>2, StartKeeps
    <2>5. SessionsTypes'
      BY <2>1, <2>2, <2>3, <2>4 DEF SessionsTypes
    <2>6. QED
      BY <2>1, <2>4, <2>5 DEF NewestInv
  <1>3. CASE ses!Complete
    <2>1. /\ ses!Running /\ ~ses!Running'
          /\ UNCHANGED <<current, fileOf, runner, moved, chats, target, pending, timer>>
      BY <1>3 DEF ses!Complete, ses!Running
    <2>2. CASE ses!Write(current, "reply", ses!Turn) /\ ses!Enqueue(ses!FileOf(current))
      <3>1. /\ ses!Write(current, "reply", chats) /\ "reply" \in ses!Kinds
            /\ chats \in Nat /\ current \in 1 .. Len(fileOf) /\ ses!FileOf(current) \in Files
        BY <2>2 DEF ses!Turn, ses!Kinds, SessionsTypes, ses!FileOf
      <3>2. log' \in [Files -> Seq(Events)]
        BY <3>1, WriteAdds
      <3>3. queue' \in Seq(ses!Requests) /\ NewestInv'
        BY <2>1, <2>2, <3>1, EnqueueAdds
      <3>4. SessionsTypes'
        BY <2>1, <3>2, <3>3 DEF SessionsTypes
      <3>5. TurnsInv'
        BY <2>1, <3>1, WriteKeeps
      <3>6. QED
        BY <3>3, <3>4, <3>5
    <2>3. CASE UNCHANGED <<handles, log, queue, unread>>
      <3>1. SessionsTypes' /\ NewestInv'
        BY <2>1, <2>3 DEF SessionsTypes, NewestInv
      <3>2. TurnsInv'
        BY <2>1, <2>3, NothingWritten
      <3>3. QED
        BY <3>1, <3>2
    <2>4. QED
      BY <1>3, <2>2, <2>3 DEF ses!Complete
  <1>4. CASE ses!NewSession \/ ses!SwitchSession
    <2>1. PICK f \in Files : ses!Enter(f)
      BY <1>4 DEF ses!NewSession, ses!SwitchSession, ses!Range, SessionsTypes
    <2>2. UNCHANGED <<stage, writer, given, chats, records, target, ses!updater>>
      BY <1>4 DEF ses!NewSession, ses!SwitchSession
    <2>3. fileOf' = Append(fileOf, f) /\ current' = Len(fileOf) + 1 /\ log' = log
      BY <2>1 DEF ses!Enter
    <2>4. fileOf' \in Seq(Files) /\ Len(fileOf') = Len(fileOf) + 1 /\ Len(fileOf) \in Nat
      BY <2>3 DEF SessionsTypes
    <2>5. SessionsTypes'
      BY <2>2, <2>3, <2>4 DEF SessionsTypes, ses!Running
    <2>6. TurnsInv'
      BY <2>1, <2>2, <2>5, EnterKeeps
    <2>7. QED
      BY <2>2, <2>5, <2>6 DEF NewestInv
  <1>5. CASE ses!ChangeTarget
    <2>1. UNCHANGED <<ses!sessions, ses!turnState, ses!updater>>
      BY <1>5 DEF ses!ChangeTarget
    <2>2. target' \in MemoryHosts \cup {NoHost}
      BY <1>5 DEF ses!ChangeTarget
    <2>3. SessionsTypes' /\ NewestInv'
      BY <2>1, <2>2 DEF SessionsTypes, NewestInv, ses!Running
    <2>4. TurnsInv'
      BY <2>1, NothingWritten DEF ses!Running
    <2>5. QED
      BY <2>3, <2>4
  <1>6. CASE ses!ReadConversation \/ ses!EndTurn
    <2>1. /\ ses!Running /\ UNCHANGED <<ses!sessions, target, ses!updater>>
          /\ UNCHANGED <<runner, writer, moved, chats>>
      BY <1>6 DEF ses!ReadConversation, ses!EndTurn, ses!Running
    <2>2. SessionsTypes' /\ NewestInv'
      BY <2>1 DEF SessionsTypes, NewestInv
    <2>3. TurnsInv'
      BY <2>1, NothingWritten
    <2>4. QED
      BY <2>2, <2>3
  <1>7. CASE ses!Decide
    <2>1. /\ ses!Running /\ ses!Write(writer, "decision", chats) /\ "decision" \in ses!Kinds
          /\ UNCHANGED <<current, fileOf, runner, writer, moved, chats, target, ses!updater>>
      BY <1>7 DEF ses!Decide, ses!Running, ses!Turn, ses!Kinds
    <2>2. writer \in 1 .. Len(fileOf) /\ chats \in Nat
      BY <2>1 DEF SessionsTypes
    <2>3. log' \in [Files -> Seq(Events)]
      BY <2>1, <2>2, WriteAdds
    <2>4. SessionsTypes' /\ NewestInv'
      BY <2>1, <2>2, <2>3 DEF SessionsTypes, NewestInv
    <2>5. chats \notin moved => writer = current
      BY <2>1 DEF TurnsInv
    <2>6. TurnsInv'
      BY <2>1, <2>2, <2>5, WriteKeeps
    <2>7. QED
      BY <2>4, <2>6
  <1>8. CASE ses!Record
    <2>1. /\ ses!Running
          /\ UNCHANGED <<current, fileOf, runner, writer, moved, chats, target, pending, timer>>
      BY <1>8 DEF ses!Record, ses!Running
    <2>2. writer \in 1 .. Len(fileOf) /\ chats \in Nat /\ ses!FileOf(writer) \in Files
      BY <2>1 DEF SessionsTypes, ses!FileOf
    <2>3. CASE ses!Write(writer, "result", ses!Turn) /\ ses!Enqueue(ses!FileOf(writer))
      <3>1. ses!Write(writer, "result", chats) /\ "result" \in ses!Kinds
        BY <2>3 DEF ses!Turn, ses!Kinds
      <3>2. log' \in [Files -> Seq(Events)]
        BY <2>2, <3>1, WriteAdds
      <3>3. queue' \in Seq(ses!Requests) /\ NewestInv'
        BY <2>1, <2>2, <2>3, EnqueueAdds
      <3>4. SessionsTypes'
        BY <2>1, <2>2, <3>2, <3>3 DEF SessionsTypes
      <3>5. chats \notin moved => writer = current
        BY <2>1 DEF TurnsInv
      <3>6. TurnsInv'
        BY <2>1, <2>2, <3>1, <3>5, WriteKeeps
      <3>7. QED
        BY <3>3, <3>4, <3>6
    <2>4. CASE UNCHANGED <<handles, log, queue, unread>>
      <3>1. SessionsTypes' /\ NewestInv'
        BY <2>1, <2>2, <2>4 DEF SessionsTypes, NewestInv
      <3>2. TurnsInv'
        BY <2>1, <2>4, NothingWritten
      <3>3. QED
        BY <3>1, <3>2
    <2>5. QED
      BY <1>8, <2>3, <2>4 DEF ses!Record
  <1>9. CASE ses!Updater
    <2>1. UNCHANGED <<ses!sessions, ses!turnState, target>>
      BY <1>9 DEF ses!Updater, ses!Receive, ses!Fire, ses!Process, ses!Processed
    <2>2. TurnsInv'
      BY <2>1, NothingWritten DEF ses!Running
    <2>3. queue' \in Seq(ses!Requests) /\ NewestInv'
      <3>1. CASE ses!Receive
        <4>1. /\ queue # <<>> /\ queue' = Tail(queue) /\ pending' = Head(queue)
              /\ timer' = "armed" /\ unread' = unread
          BY <3>1 DEF ses!Receive
        <4>2. queue \in Seq(ses!Requests)
          BY DEF SessionsTypes
        <4>3. CASE Len(queue) = 1
          <5>1. queue' = <<>> /\ pending' = queue[Len(queue)] /\ queue' \in Seq(ses!Requests)
            BY <4>1, <4>2, <4>3
          <5>2. QED
            BY <4>1, <5>1 DEF NewestInv
        <4>4. CASE Len(queue) # 1
          <5>1. /\ queue' # <<>> /\ queue'[Len(queue')] = queue[Len(queue)]
                /\ queue' \in Seq(ses!Requests)
            BY <4>1, <4>2, <4>4, LastOfTail
          <5>2. QED
            BY <4>1, <5>1 DEF NewestInv
        <4>5. QED
          BY <4>3, <4>4
      <3>2. CASE ses!Fire \/ ses!Process \/ ses!Processed
        BY <3>2 DEF ses!Fire, ses!Process, ses!Processed, NewestInv, SessionsTypes
      <3>3. QED
        BY <1>9, <3>1, <3>2 DEF ses!Updater
    <2>4. SessionsTypes'
      BY <2>1, <2>3 DEF SessionsTypes, ses!Running
    <2>5. QED
      BY <2>2, <2>3, <2>4
  <1>10. CASE UNCHANGED ses!vars
    <2>1. SessionsTypes' /\ NewestInv'
      BY <1>10 DEF SessionsTypes, NewestInv, ses!Running
    <2>2. TurnsInv'
      BY <1>10, NothingWritten DEF ses!Running
    <2>3. QED
      BY <2>1, <2>2
  <1>11. QED
    BY <1>1, <1>2, <1>3, <1>4, <1>5, <1>6, <1>7, <1>8, <1>9, <1>10 DEF ses!Next

\* The first session is the current one, and nothing is in a file.
LEMMA SessionsStart == ses!Init => SessionsInv
  <1> SUFFICES ASSUME ses!Init PROVE SessionsInv
    OBVIOUS
  <1>1. ses!FirstFile \in Files
    BY SessionsAssumption DEF ses!FirstFile
  <1>2. SessionsTypes
    <2>1. fileOf \in Seq(Files) /\ Len(fileOf) = 1
      BY <1>1 DEF ses!Init
    <2>2. log \in [Files -> Seq(Events)] /\ queue \in Seq(ses!Requests)
      BY DEF ses!Init
    <2>3. QED
      BY <2>1, <2>2 DEF ses!Init, SessionsTypes, ses!Running
  <1>3. \A t : ses!FilesOf(t) = {}
    BY DEF ses!Init, ses!FilesOf
  <1>4. TurnsInv
    BY <1>3 DEF ses!Init, TurnsInv, TurnInOneFile, ses!TurnInOneFile, ses!Running
  <1>5. QED
    BY <1>2, <1>4 DEF ses!Init, NewestInv, SessionsInv

\* What a turn records before the user changes the session stands in one file:
\* handleSubmitNewSession and handleSubmitSwitchSession drop the runner, so
\* that the runner a chat finds always holds the current session.
THEOREM OneFileCorrect == ses!Spec => []TurnInOneFile
  <1>1. SessionsInv => TurnInOneFile
    BY DEF SessionsInv, TurnsInv
  <1>2. QED
    BY SessionsStart, SessionsStep, <1>1, PTL DEF ses!Spec

\* The newest request is read, or a newer one is, for a queue of any length:
\* a full one loses its oldest, and the last that waits is the newest
\* (BackgroundUpdater.Enqueue, run).
THEOREM NewestCorrect == ses!Spec => []NewestIsKept
  <1>1. SessionsInv => NewestIsKept
    <2> SUFFICES ASSUME SessionsInv, unread # NoRequest
                 PROVE  unread \in ses!Range(queue)
                        \/ (unread = pending /\ timer \in {"armed", "fired"})
      BY DEF NewestIsKept, ses!NewestIsKept
    <2>1. CASE queue = <<>>
      BY <2>1 DEF SessionsInv, NewestInv
    <2>2. CASE queue # <<>>
      <3>1. unread = queue[Len(queue)] /\ Len(queue) \in DOMAIN queue
        BY <2>2 DEF SessionsInv, NewestInv, SessionsTypes
      <3>2. QED
        BY <3>1 DEF ses!Range
    <2>3. QED
      BY <2>1, <2>2
  <1>2. QED
    BY SessionsStart, SessionsStep, <1>1, PTL DEF ses!Spec

-----------------------------------------------------------------------------
(* HostMemory: verdicts on commands.                                       *)

\* What a writer is about to save says no more than what is in the file.
VerdictsInv ==
  /\ hm!AvailableOrMissing
  /\ copy = [w \in hm!Writers |-> copy[w]]
  /\ \A w \in hm!Writers : copy[w].available \cap copy[w].missing # {} => blind

\* A patch leaves no command both available and missing.
LEMMA UpdateSeparates ==
  ASSUME NEW m, NEW patch, NEW u \in hm!Update(m, patch),
         m.available \cap m.missing = {}
  PROVE  u.available \cap u.missing = {}
  BY DEF hm!Update

\* Nor does a probe that found a command.
LEMMA ProbeSeparates ==
  ASSUME NEW m, NEW found, m.available \cap m.missing = {}, found # {}
  PROVE  hm!ApplyProbe(m, found).available \cap hm!ApplyProbe(m, found).missing = {}
  BY DEF hm!ApplyProbe

\* A command is available or missing, never both, unless a probe found none
\* (Update, ApplyProbe): the invariant behind it also says so of every copy
\* that is loaded and not yet saved.
THEOREM AvailableOrMissingCorrect == hm!Spec => []AvailableOrMissing
  <1>1. hm!Init => VerdictsInv
    BY DEF hm!Init, VerdictsInv, hm!AvailableOrMissing, hm!Nothing
  <1>2. VerdictsInv /\ [hm!Next]_(hm!vars) => VerdictsInv'
    <2> SUFFICES ASSUME VerdictsInv, [hm!Next]_(hm!vars) PROVE VerdictsInv'
      OBVIOUS
    <2>1. ASSUME NEW w \in hm!Writers, hm!Patch(w) PROVE VerdictsInv'
      <3>1. PICK patch \in hm!Memory : \E m \in hm!Update(mem, patch) : hm!Load(w, m)
        BY <2>1 DEF hm!Patch
      <3>2. PICK m \in hm!Update(mem, patch) : hm!Load(w, m)
        BY <3>1
      <3>3. m.available \cap m.missing # {} => blind
        BY UpdateSeparates DEF VerdictsInv, hm!AvailableOrMissing
      <3>4. copy' = [copy EXCEPT ![w] = m] /\ mem' = mem /\ blind' = blind
        BY <2>1, <3>2 DEF hm!Patch, hm!Load
      <3>5. QED
        BY <3>3, <3>4 DEF VerdictsInv, hm!AvailableOrMissing
    <2>2. ASSUME NEW w \in hm!Writers, hm!Probe(w) PROVE VerdictsInv'
      <3>1. PICK found \in SUBSET Important :
              hm!Load(w, hm!ApplyProbe(mem, found)) /\ blind' = (blind \/ found = {})
        BY <2>2 DEF hm!Probe
      <3> DEFINE m == hm!ApplyProbe(mem, found)
      <3>2. m.available \cap m.missing # {} => blind'
        BY <3>1, ProbeSeparates DEF VerdictsInv, hm!AvailableOrMissing
      <3>3. copy' = [copy EXCEPT ![w] = m] /\ mem' = mem
        BY <2>2, <3>1 DEF hm!Probe, hm!Load
      <3> HIDE DEF m
      <3>4. QED
        BY <3>1, <3>2, <3>3 DEF VerdictsInv, hm!AvailableOrMissing
    <2>3. ASSUME NEW w \in hm!Writers, hm!Save(w) PROVE VerdictsInv'
      BY <2>3 DEF hm!Save, VerdictsInv, hm!AvailableOrMissing, hm!Nothing
    <2>4. CASE UNCHANGED hm!vars
      BY <2>4 DEF VerdictsInv, hm!AvailableOrMissing
    <2>5. QED
      BY <2>1, <2>2, <2>3, <2>4 DEF hm!Next
  <1>3. VerdictsInv => AvailableOrMissing
    BY DEF VerdictsInv, AvailableOrMissing
  <1>4. QED
    BY <1>1, <1>2, <1>3, PTL DEF hm!Spec

-----------------------------------------------------------------------------
(* Notes.                                                                  *)

\* No memory has more notes than the limit, and a writer adds to those it has
\* loaded.
NotesInv ==
  /\ hm!NotesStay
  /\ at \in [hm!Writers -> {"idle", "loaded"}]
  /\ mem \in hm!Memory /\ copy \in [hm!Writers -> hm!Memory] /\ base \in [hm!Writers -> hm!Memory]
  /\ Cardinality(mem.notes) <= MaxNotes
  /\ \A w \in hm!Writers : /\ Cardinality(copy[w].notes) <= MaxNotes
                        /\ base[w].notes \subseteq copy[w].notes

\* mergeUnique keeps what was there, if that was within the limit, and stays
\* within it.
LEMMA MergeKeeps ==
  ASSUME NEW old \in SUBSET Notes, NEW new \in SUBSET Notes,
         Cardinality(old) <= MaxNotes, NEW s \in hm!MergeUnique(old, new, MaxNotes)
  PROVE  s \in SUBSET Notes /\ old \subseteq s /\ Cardinality(s) <= MaxNotes
  <1> DEFINE union == old \cup new
  <1>1. IsFiniteSet(old) /\ IsFiniteSet(union)
    BY FS_Subset, MemoryAssumption
  <1>2. /\ s \in SUBSET union
        /\ Cardinality(s) = hm!AtMost(Cardinality(union), MaxNotes)
        /\ old \subseteq s \/ s \subseteq old
    BY DEF hm!MergeUnique, hm!Cardinality, Cardinality
  <1>3. Cardinality(old) <= Cardinality(union)
    BY <1>1, FS_Subset
  <1>4. IsFiniteSet(s)
    BY <1>1, <1>2, FS_Subset
  <1>5. Cardinality(old) \in Nat /\ Cardinality(union) \in Nat /\ Cardinality(s) \in Nat
    BY <1>1, <1>4, FS_CardinalityType
  <1>6. Cardinality(s) <= MaxNotes /\ Cardinality(old) <= Cardinality(s)
    BY <1>2, <1>3, <1>5, MemoryAssumption DEF hm!AtMost
  <1>7. CASE s \subseteq old
    <2>1. Cardinality(s) <= Cardinality(old) /\ (Cardinality(old) = Cardinality(s) => old = s)
      BY <1>1, <1>7, FS_Subset
    <2>2. QED
      BY <1>2, <1>5, <1>6, <2>1
  <1>8. QED
    BY <1>2, <1>6, <1>7

\* A note stays in the file, also at the limit, unless two goroutines changed
\* the file at the same time (Load, Update, Save): what a writer saves has the
\* notes of the file it loaded, which is the file it saves over.
THEOREM NotesCorrect == hm!Spec => []NotesStay
  <1>1. hm!Init => NotesInv
    <2>1. Cardinality({}) = 0
      BY FS_EmptySet
    <2>2. hm!Nothing \in hm!Memory /\ hm!Nothing.notes = {}
      BY DEF hm!Nothing, hm!Memory
    <2>3. QED
      BY <2>1, <2>2, MemoryAssumption DEF hm!Init, NotesInv, hm!NotesStay
  <1>2. NotesInv /\ [hm!Next]_(hm!vars) => NotesInv'
    <2> SUFFICES ASSUME NotesInv, [hm!Next]_(hm!vars) PROVE NotesInv'
      OBVIOUS
    <2>1. ASSUME NEW w \in hm!Writers, NEW m \in hm!Memory, hm!Load(w, m), mem.notes \subseteq m.notes,
                 Cardinality(m.notes) <= MaxNotes, UNCHANGED <<mem, overlapped, kept>>
          PROVE  NotesInv'
      <3>1. /\ at' = [at EXCEPT ![w] = "loaded"]
            /\ copy' = [copy EXCEPT ![w] = m] /\ base' = [base EXCEPT ![w] = mem]
        BY <2>1 DEF hm!Load
      <3>2. at' \in [hm!Writers -> {"idle", "loaded"}]
        BY <3>1 DEF NotesInv
      <3>3. copy' \in [hm!Writers -> hm!Memory] /\ base' \in [hm!Writers -> hm!Memory]
        BY <3>1, <2>1 DEF NotesInv
      <3>4. \A v \in hm!Writers : /\ copy'[v] = IF v = w THEN m ELSE copy[v]
                               /\ base'[v] = IF v = w THEN mem ELSE base[v]
        BY <3>1 DEF NotesInv
      <3>5. QED
        BY <2>1, <3>2, <3>3, <3>4 DEF NotesInv, hm!NotesStay
    <2>2. ASSUME NEW w \in hm!Writers, hm!Patch(w) PROVE NotesInv'
      <3>1. PICK patch \in hm!Memory : \E m \in hm!Update(mem, patch) : hm!Load(w, m)
        BY <2>2 DEF hm!Patch
      <3>2. PICK m \in hm!Update(mem, patch) : hm!Load(w, m)
        BY <3>1
      <3>3. PICK n \in hm!MergeUnique(mem.notes, patch.notes, MaxNotes) :
              m = [available |-> (mem.available \cup patch.available) \ patch.missing,
                   missing   |-> (mem.missing \ patch.available) \cup patch.missing,
                   notes     |-> n]
        BY DEF hm!Update
      <3>4. mem.notes \in SUBSET Notes /\ patch.notes \in SUBSET Notes
        BY DEF NotesInv, hm!Memory
      <3>5. n \in SUBSET Notes /\ mem.notes \subseteq n /\ Cardinality(n) <= MaxNotes
        BY <3>4, MergeKeeps DEF NotesInv
      <3>6. m \in hm!Memory /\ m.notes = n
        BY <3>3, <3>5 DEF NotesInv, hm!Memory
      <3>7. QED
        BY <2>1, <2>2, <3>2, <3>5, <3>6 DEF hm!Patch
    <2>3. ASSUME NEW w \in hm!Writers, hm!Probe(w) PROVE NotesInv'
      <3>1. PICK found \in SUBSET Important : hm!Load(w, hm!ApplyProbe(mem, found))
        BY <2>3 DEF hm!Probe
      <3>2. /\ hm!ApplyProbe(mem, found) \in hm!Memory
            /\ hm!ApplyProbe(mem, found).notes = mem.notes
        BY MemoryAssumption DEF hm!ApplyProbe, NotesInv, hm!Memory
      <3>3. QED
        BY <2>1, <2>3, <3>1, <3>2 DEF hm!Probe, NotesInv
    <2>4. ASSUME NEW w \in hm!Writers, hm!Save(w) PROVE NotesInv'
      <3>1. /\ mem' = copy[w] /\ kept' = kept \cup copy[w].notes
            /\ overlapped' = (overlapped \/ mem # base[w])
            /\ at' = [at EXCEPT ![w] = "idle"]
            /\ copy' = [copy EXCEPT ![w] = hm!Nothing] /\ base' = [base EXCEPT ![w] = hm!Nothing]
        BY <2>4 DEF hm!Save
      <3>2. hm!NotesStay'
        BY <3>1 DEF NotesInv, hm!NotesStay
      <3>3. hm!Nothing \in hm!Memory /\ hm!Nothing.notes = {} /\ Cardinality({}) = 0
        BY FS_EmptySet DEF hm!Nothing, hm!Memory
      <3>4. /\ at' \in [hm!Writers -> {"idle", "loaded"}] /\ mem' \in hm!Memory
            /\ copy' \in [hm!Writers -> hm!Memory] /\ base' \in [hm!Writers -> hm!Memory]
        BY <3>1, <3>3 DEF NotesInv
      <3>5. \A v \in hm!Writers : /\ copy'[v] = IF v = w THEN hm!Nothing ELSE copy[v]
                               /\ base'[v] = IF v = w THEN hm!Nothing ELSE base[v]
        BY <3>1 DEF NotesInv
      <3>6. Cardinality(mem'.notes) <= MaxNotes
        BY <3>1 DEF NotesInv
      <3>7. \A v \in hm!Writers : /\ Cardinality(copy'[v].notes) <= MaxNotes
                               /\ base'[v].notes \subseteq copy'[v].notes
        <4> SUFFICES ASSUME NEW v \in hm!Writers
                     PROVE  /\ Cardinality(copy'[v].notes) <= MaxNotes
                            /\ base'[v].notes \subseteq copy'[v].notes
          OBVIOUS
        <4>1. CASE v = w
          BY <3>3, <3>5, <4>1, MemoryAssumption
        <4>2. CASE v # w
          BY <3>5, <4>2 DEF NotesInv
        <4>3. QED
          BY <4>1, <4>2
      <3>8. QED
        BY <3>2, <3>4, <3>6, <3>7 DEF NotesInv
    <2>5. CASE UNCHANGED hm!vars
      BY <2>5 DEF NotesInv, hm!NotesStay
    <2>6. QED
      BY <2>2, <2>3, <2>4, <2>5 DEF hm!Next
  <1>3. NotesInv => NotesStay
    BY DEF NotesInv, NotesStay
  <1>4. QED
    BY <1>1, <1>2, <1>3, PTL DEF hm!Spec

-----------------------------------------------------------------------------
(* SkillStore: the files of the skills and what is recorded of them.       *)

\* What a directory, a job or a record may say.
Contents == 0 .. skl!Partial
Commits == 1 .. MaxCommits

StoreTypes ==
  /\ head \in Commits /\ places \subseteq skl!Places
  /\ dir \in [SkillNames -> Contents] /\ fresh \in [SkillNames -> Contents]
  /\ backups \in [SkillNames -> Seq(Contents)]
  /\ \A s \in DOMAIN sources : sources[s].commit \in Commits
  /\ installed \subseteq SkillNames

\* An operation knows the commit it brings once it has fetched it.
Stages(op) ==
  CASE op = "install" -> {"fetch", "write", "record", "save"}
    [] op = "update" -> {"fetch", "copy", "swapOut", "swapIn", "clean", "record", "save"}
    [] op = "remove" -> {"delete", "record", "save"}

JobInv ==
  job # skl!NoJob =>
    /\ job = skl!Job(job.op, job.at, job.name, job.path, job.commit, job.known)
    /\ job.op \in {"install", "update", "remove"} /\ job.at \in Stages(job.op)
    /\ job.name \in SkillNames
    /\ job.op # "remove" /\ job.at # "fetch" => job.commit \in Commits

Doing(op, stages) == job.op = op /\ job.at \in stages

\* How far the operation has come with the files of its skill.
FilesInv ==
  LET n == job.name
  IN  /\ Doing("install", {"fetch"}) => dir[n] = skl!Absent
      /\ Doing("install", {"write"}) => dir[n] = skl!Partial
      /\ Doing("install", {"record", "save"}) => dir[n] = job.commit
      /\ Doing("update", {"swapOut", "swapIn"}) => fresh[n] = job.commit
      /\ Doing("update", {"swapIn"}) => dir[n] = skl!Absent
      /\ Doing("update", {"swapIn", "clean"}) => backups[n] # <<>>
      /\ Doing("update", {"clean", "record", "save"}) => dir[n] = job.commit
      /\ Doing("remove", {"record", "save"}) => dir[n] = skl!Absent

\* A skill is in one piece somewhere, or the user removes it.
SurvivesInv == SkillSurvives /\ (job.op = "remove" => job.name \notin installed)

\* The manifest says of a skill what is in its directory.
Fits(s) ==
  IF s \in DOMAIN sources THEN dir[s] = sources[s].commit ELSE dir[s] = skl!Absent

\* What is recorded of the skill of the operation is what was there before it,
\* or it is among those whose record slipped.
OldRecord ==
  LET n == job.name
  IN  /\ Doing("install", {"fetch", "write"}) => n \notin DOMAIN sources
      /\ Doing("update", {"fetch", "copy", "swapOut"}) =>
           n \in DOMAIN sources /\ dir[n] = sources[n].commit
      /\ Doing("update", {"swapIn"}) =>
           n \in DOMAIN sources /\ skl!Last(backups[n]) = sources[n].commit

\* The other skills are as recorded, and what the operation is about to write
\* says of them what the manifest says; a manifest that a dead operation cut
\* off has lost them all.
RecordsInv ==
  /\ \A s \in SkillNames \ slipped : job = skl!NoJob \/ s # job.name => Fits(s)
  /\ slipped \subseteq SkillNames
  /\ torn /\ job.at # "save" => slipped = SkillNames
  /\ job.op \in {"install", "update"} \/ Doing("remove", {"record", "save"}) =>
       job.known = sources \/ slipped = SkillNames
  /\ \A s \in DOMAIN job.known : job.known[s].commit \in Commits
  /\ job # skl!NoJob /\ job.name \notin slipped => OldRecord

StoreInv == StoreTypes /\ JobInv /\ FilesInv /\ SurvivesInv /\ RecordsInv

\* A backup that is made is the last one, and the others stay.
LEMMA BackupAdded ==
  ASSUME NEW b \in Seq(Contents), NEW c \in Contents
  PROVE  /\ Append(b, c) \in Seq(Contents) /\ Append(b, c) # <<>>
         /\ skl!Last(Append(b, c)) = c
         /\ skl!Range(b) \cup {c} \subseteq skl!Range(Append(b, c))
  BY DEF skl!Last, skl!Range

\* Taking the last backup back leaves the others.
LEMMA BackupTaken ==
  ASSUME NEW b \in Seq(Contents), b # <<>>
  PROVE  /\ skl!Front(b) \in Seq(Contents) /\ skl!Last(b) \in Contents
         /\ skl!Range(b) \subseteq skl!Range(skl!Front(b)) \cup {skl!Last(b)}
  <1>1. PICK n \in Nat : Len(b) = n /\ n # 0 /\ DOMAIN b = 1 .. n
    OBVIOUS
  <1>2. skl!Front(b) \in Seq(Contents) /\ skl!Last(b) = b[n] /\ skl!Last(b) \in Contents
    BY <1>1 DEF skl!Front, skl!Last
  <1>3. Len(skl!Front(b)) = n - 1 /\ \A i \in 1 .. n - 1 : skl!Front(b)[i] = b[i]
    BY <1>1 DEF skl!Front
  <1>4. DOMAIN skl!Front(b) = 1 .. n - 1
    BY <1>2, <1>3
  <1>5. ASSUME NEW i \in 1 .. n, i # n
        PROVE  b[i] \in skl!Range(skl!Front(b))
    <2>1. i \in 1 .. n - 1
      BY <1>1, <1>5
    <2>2. QED
      BY <1>3, <1>4, <2>1 DEF skl!Range
  <1>6. QED
    BY <1>1, <1>2, <1>5 DEF skl!Range

\* An operation that is under way is one of the three, on a skill.
LEMMA UnderWay ==
  ASSUME JobInv, job.op # "none" \/ job.at # ""
  PROVE  /\ job # skl!NoJob
         /\ job = skl!Job(job.op, job.at, job.name, job.path, job.commit, job.known)
         /\ job.name \in SkillNames
  <1>1. skl!NoJob.op = "none" /\ skl!NoJob.at = ""
    BY DEF skl!NoJob, skl!Job
  <1>2. job # skl!NoJob
    BY <1>1
  <1>3. QED
    BY <1>2 DEF JobInv

\* What an operation knows does not change with its stage.
LEMMA StageSet ==
  ASSUME JobInv, job # skl!NoJob, NEW a, skl!GoTo(a)
  PROVE  /\ job'.op = job.op /\ job'.at = a /\ job'.name = job.name
         /\ job'.commit = job.commit /\ job'.known = job.known /\ job' # skl!NoJob
         /\ job' = skl!Job(job.op, a, job.name, job.path, job.commit, job.known)
  <1>1. /\ job = skl!Job(job.op, job.at, job.name, job.path, job.commit, job.known)
        /\ job.op # "none"
    BY DEF JobInv
  <1>2. job' = skl!Job(job.op, a, job.name, job.path, job.commit, job.known)
    BY <1>1 DEF skl!GoTo, skl!Job
  <1>3. QED
    BY <1>1, <1>2 DEF skl!Job, skl!NoJob

\* A step that leaves what is recorded alone and touches the directory of one
\* skill only leaves the others as recorded.
LEMMA OthersFit ==
  ASSUME RecordsInv, NEW n, job = skl!NoJob \/ job.name = n,
         sources' = sources, slipped \subseteq slipped',
         \A s \in SkillNames \ {n} : dir'[s] = dir[s]
  PROVE  \A s \in SkillNames \ slipped' : s # n => Fits(s)'
  BY DEF RecordsInv, Fits

\* A step that touches the files of one skill only loses no other.
LEMMA OthersSurvive ==
  ASSUME StoreTypes, SkillSurvives, NEW n, installed' \ {n} \subseteq installed,
         \A s \in SkillNames \ {n} : dir'[s] = dir[s] /\ backups'[s] = backups[s],
         n \in installed' =>
           skl!Complete(dir'[n]) \/ \E c \in skl!Range(backups'[n]) : skl!Complete(c)
  PROVE  SkillSurvives'
  BY DEF StoreTypes, SkillSurvives, skl!SkillSurvives, skl!Complete

\* The operation goes on to its next stage.
LEMMA GoOn ==
  ASSUME JobInv, RecordsInv, job # skl!NoJob, job.op \in {"install", "update"},
         job'.op = job.op, job'.name = job.name, job'.known = job.known, job' # skl!NoJob,
         job.at # "save", job'.at # "save", UNCHANGED <<skl!manifest, slipped>>,
         \A s \in SkillNames \ {job.name} : dir'[s] = dir[s],
         job.name \notin slipped => OldRecord'
  PROVE  RecordsInv'
  <1>1. \A s \in SkillNames \ slipped : s # job.name => Fits(s)'
    BY OthersFit
  <1>2. QED
    BY <1>1 DEF RecordsInv

\* The operation is given up before it has opened the manifest.
LEMMA LeaveOff ==
  ASSUME JobInv, RecordsInv, NEW n, n = job.name, job # skl!NoJob, job' = skl!NoJob,
         job.at # "save", UNCHANGED skl!manifest,
         slipped' \in {slipped, slipped \cup {n}},
         \A s \in SkillNames \ {n} : dir'[s] = dir[s],
         n \notin slipped' => Fits(n)'
  PROVE  RecordsInv' /\ JobInv' /\ FilesInv'
  <1>1. \A s \in SkillNames \ slipped' : s # n => Fits(s)'
    BY OthersFit
  <1>2. /\ job'.op = "none" /\ job'.at = "" /\ DOMAIN job'.known = {}
    BY DEF skl!NoJob, skl!Job, skl!NoSources
  <1>3. n \in SkillNames
    BY DEF JobInv
  <1>4. RecordsInv'
    <2>1. \A s \in SkillNames \ slipped' : Fits(s)'
      BY <1>1 DEF Fits
    <2>2. slipped' \subseteq SkillNames /\ (torn' => slipped' = SkillNames)
      BY <1>3 DEF RecordsInv
    <2>3. \A s \in DOMAIN job'.known : job'.known[s].commit \in Commits
      BY <1>2
    <2>4. QED
      BY <1>2, <2>1, <2>2, <2>3 DEF RecordsInv, Doing
  <1>5. JobInv'
    BY DEF JobInv
  <1>6. FilesInv'
    BY <1>2 DEF FilesInv, Doing
  <1>7. QED
    BY <1>4, <1>5, <1>6

-----------------------------------------------------------------------------
(* SkillStore: the operations.                                             *)

\* BeginInstall: the name is free, so the manifest has nothing of it, unless
\* its record slipped.
LEMMA BeginInstallStep ==
  ASSUME StoreInv, NEW s \in SkillNames, NEW path \in skl!Paths, skl!BeginInstall(s, path)
  PROVE  StoreInv'
  <1> DEFINE known == IF torn THEN skl!NoSources ELSE sources
  <1>1. /\ job = skl!NoJob /\ dir[s] = skl!Absent
        /\ job' = skl!Job("install", "fetch", s, path, 0, known)
        /\ UNCHANGED <<skl!repo, skl!disk, skl!manifest, installed, slipped>>
    BY DEF skl!BeginInstall, skl!Begin
  <1>2. /\ job'.op = "install" /\ job'.at = "fetch" /\ job'.name = s /\ job'.known = known
        /\ job' = skl!Job(job'.op, job'.at, job'.name, job'.path, job'.commit, job'.known)
        /\ job.at = ""
    BY <1>1 DEF skl!Job, skl!NoJob
  <1>3. StoreTypes' /\ JobInv' /\ FilesInv'
    BY <1>1, <1>2 DEF StoreInv, StoreTypes, JobInv, Stages, FilesInv, Doing
  <1>4. SurvivesInv'
    BY <1>1, <1>2 DEF StoreInv, SurvivesInv, SkillSurvives, skl!SkillSurvives
  <1>5. torn => slipped = SkillNames
    BY <1>2 DEF StoreInv, RecordsInv
  <1>6. \A r \in DOMAIN known : known[r].commit \in Commits
    BY DEF StoreInv, StoreTypes, skl!NoSources
  <1>7. s \notin slipped => s \notin DOMAIN sources
    <2>1. s \notin slipped => Fits(s)
      BY <1>1 DEF StoreInv, RecordsInv
    <2>2. s \in DOMAIN sources => dir[s] # sources[s].commit
      BY <1>1, SkillsAssumption DEF StoreInv, StoreTypes, Commits, skl!Absent
    <2>3. QED
      BY <2>1, <2>2 DEF Fits
  <1>8. s \notin slipped => OldRecord'
    BY <1>1, <1>2, <1>7 DEF OldRecord, Doing
  <1>9. \A r \in SkillNames \ slipped : Fits(r)'
    BY <1>1 DEF StoreInv, RecordsInv, Fits
  <1>10. RecordsInv'
    BY <1>1, <1>2, <1>5, <1>6, <1>8, <1>9 DEF StoreInv, RecordsInv, Doing
  <1>11. QED
    BY <1>3, <1>4, <1>10 DEF StoreInv

\* BeginUpdate: only with a manifest that can be read, and only for a skill it
\* has.
LEMMA BeginUpdateStep ==
  ASSUME StoreInv, NEW s \in SkillNames, skl!BeginUpdate(s)
  PROVE  StoreInv'
  <1>1. /\ job = skl!NoJob /\ ~torn /\ s \in DOMAIN sources
        /\ job' = skl!Job("update", "fetch", s, sources[s].path, 0, sources)
        /\ UNCHANGED <<skl!repo, skl!disk, skl!manifest, installed, slipped>>
    BY DEF skl!BeginUpdate, skl!Begin
  <1>2. /\ job'.op = "update" /\ job'.at = "fetch" /\ job'.name = s /\ job'.known = sources
        /\ job' = skl!Job(job'.op, job'.at, job'.name, job'.path, job'.commit, job'.known)
    BY <1>1 DEF skl!Job
  <1>3. StoreTypes' /\ JobInv' /\ FilesInv'
    BY <1>1, <1>2 DEF StoreInv, StoreTypes, JobInv, Stages, FilesInv, Doing
  <1>4. SurvivesInv'
    BY <1>1, <1>2 DEF StoreInv, SurvivesInv, SkillSurvives, skl!SkillSurvives
  <1>5. \A r \in SkillNames \ slipped : Fits(r)
    BY <1>1 DEF StoreInv, RecordsInv
  <1>6. s \notin slipped => OldRecord'
    BY <1>1, <1>2, <1>5 DEF OldRecord, Doing, Fits
  <1>7. \A r \in SkillNames \ slipped : Fits(r)'
    BY <1>1, <1>5 DEF Fits
  <1>8. RecordsInv'
    BY <1>1, <1>2, <1>6, <1>7 DEF StoreInv, StoreTypes, RecordsInv, Doing
  <1>9. QED
    BY <1>3, <1>4, <1>8 DEF StoreInv

\* BeginRemove: from here on the user no longer has the skill.
LEMMA BeginRemoveStep ==
  ASSUME StoreInv, NEW s \in SkillNames, skl!BeginRemove(s)
  PROVE  StoreInv'
  <1>1. /\ job = skl!NoJob /\ dir' = [dir EXCEPT ![s] = skl!Partial]
        /\ job' = skl!Job("remove", "delete", s, "", 0, skl!NoSources)
        /\ installed' = installed \ {s}
        /\ UNCHANGED <<skl!repo, fresh, backups, skl!manifest, slipped>>
    BY DEF skl!BeginRemove, skl!Begin
  <1>2. /\ job'.op = "remove" /\ job'.at = "delete" /\ job'.name = s
        /\ job' = skl!Job(job'.op, job'.at, job'.name, job'.path, job'.commit, job'.known)
        /\ DOMAIN job'.known = {} /\ job.at = ""
    BY <1>1 DEF skl!Job, skl!NoJob, skl!NoSources
  <1>3. skl!Partial \in Contents
    BY SkillsAssumption DEF Contents, skl!Partial
  <1>4. \A r \in SkillNames \ {s} : dir'[r] = dir[r]
    BY <1>1 DEF StoreInv, StoreTypes
  <1>5. StoreTypes'
    BY <1>1, <1>3 DEF StoreInv, StoreTypes
  <1>6. JobInv' /\ FilesInv'
    BY <1>2 DEF JobInv, Stages, FilesInv, Doing
  <1>7. SkillSurvives'
    BY <1>1, <1>4, OthersSurvive DEF StoreInv, SurvivesInv
  <1>8. SurvivesInv'
    BY <1>1, <1>2, <1>7 DEF SurvivesInv
  <1>9. \A r \in SkillNames \ slipped : r # s => Fits(r)'
    BY <1>1, <1>4, OthersFit DEF StoreInv
  <1>10. RecordsInv'
    BY <1>1, <1>2, <1>9 DEF StoreInv, RecordsInv, Doing, OldRecord
  <1>11. QED
    BY <1>5, <1>6, <1>8, <1>10 DEF StoreInv

\* InstallFetch and InstallWrite: the directory is written straight away, and
\* taken away again if that fails.
LEMMA InstallStep ==
  ASSUME StoreInv, skl!InstallFetch \/ skl!InstallWrite
  PROVE  StoreInv'
  <1>1. /\ job.op = "install" /\ job.at \in {"fetch", "write"}
        /\ UNCHANGED <<skl!repo, fresh, backups, skl!manifest, slipped>>
    BY DEF skl!InstallFetch, skl!InstallWrite, skl!At
  <1>2. /\ job # skl!NoJob /\ job.name \in SkillNames
        /\ job = skl!Job(job.op, job.at, job.name, job.path, job.commit, job.known)
    BY <1>1, UnderWay DEF StoreInv
  <1> PICK n \in SkillNames : n = job.name
    BY <1>2
  <1>3. n \notin slipped => n \notin DOMAIN sources
    BY <1>1, <1>2 DEF StoreInv, RecordsInv, OldRecord, Doing
  <1>4. /\ dir[n] \in {skl!Absent, skl!Partial} /\ skl!Partial \in Contents
        /\ skl!Absent \in Contents /\ ~skl!Complete(skl!Absent) /\ ~skl!Complete(skl!Partial)
    BY <1>1, SkillsAssumption
      DEF StoreInv, FilesInv, Doing, Contents, skl!Partial, skl!Absent, skl!Complete
  <1>5. n \in installed => \E c \in skl!Range(backups[n]) : skl!Complete(c)
    BY <1>4 DEF StoreInv, SurvivesInv, SkillSurvives, skl!SkillSurvives
  <1>6. CASE skl!GiveUp /\ dir' = [dir EXCEPT ![n] = skl!Absent] /\ installed' = installed
    <2>1. /\ dir'[n] = skl!Absent /\ \A s \in SkillNames \ {n} : dir'[s] = dir[s]
          /\ StoreTypes'
      BY <1>1, <1>2, <1>4, <1>6 DEF StoreInv, StoreTypes
    <2>2. n \notin slipped => Fits(n)'
      BY <1>1, <1>3, <2>1 DEF Fits
    <2>3. RecordsInv' /\ JobInv' /\ FilesInv'
      BY <1>1, <1>2, <1>6, <2>1, <2>2, LeaveOff DEF StoreInv, skl!GiveUp
    <2>4. SkillSurvives'
      BY <1>1, <1>5, <1>6, <2>1, OthersSurvive DEF StoreInv, SurvivesInv
    <2>5. SurvivesInv'
      BY <1>6, <2>4 DEF SurvivesInv, skl!GiveUp, skl!NoJob, skl!Job
    <2>6. QED
      BY <2>1, <2>3, <2>5 DEF StoreInv
  <1>7. CASE skl!InstallFetch
    <2>1. job.at = "fetch" /\ dir[n] = skl!Absent /\ installed' = installed
      BY <1>1, <1>7 DEF skl!InstallFetch, skl!At, StoreInv, FilesInv, Doing
    <2>2. CASE skl!GiveUp /\ UNCHANGED dir
      <3>1. dir' = [dir EXCEPT ![n] = skl!Absent]
        BY <2>1, <2>2 DEF StoreInv, StoreTypes
      <3>2. QED
        BY <1>6, <2>1, <2>2, <3>1
    <2>3. CASE \E p \in skl!Places : /\ job' = [job EXCEPT !.at = "write", !.path = p, !.commit = head]
                                     /\ dir' = [dir EXCEPT ![n] = skl!Partial]
      <3>1. PICK p : job' = skl!Job("install", "write", n, p, head, job.known)
        BY <1>1, <1>2, <2>3 DEF skl!Job
      <3>2. /\ job'.op = "install" /\ job'.at = "write" /\ job'.name = n
            /\ job'.known = job.known /\ job'.commit = head
            /\ job' = skl!Job(job'.op, job'.at, job'.name, job'.path, job'.commit, job'.known)
            /\ job' # skl!NoJob
        BY <3>1 DEF skl!Job, skl!NoJob
      <3>3. /\ dir'[n] = skl!Partial /\ \A s \in SkillNames \ {n} : dir'[s] = dir[s]
            /\ StoreTypes'
        BY <1>1, <1>2, <1>4, <2>1, <2>3 DEF StoreInv, StoreTypes
      <3>4. JobInv' /\ FilesInv'
        BY <1>2, <3>2, <3>3 DEF StoreInv, StoreTypes, JobInv, Stages, FilesInv, Doing
      <3>5. n \notin slipped => OldRecord'
        BY <1>1, <1>3, <3>2 DEF OldRecord, Doing
      <3>6. RecordsInv'
        BY <1>1, <1>2, <2>1, <3>2, <3>3, <3>5, GoOn DEF StoreInv
      <3>7. SkillSurvives'
        BY <1>1, <1>5, <2>1, <3>3, OthersSurvive DEF StoreInv, SurvivesInv
      <3>8. QED
        BY <3>2, <3>3, <3>4, <3>6, <3>7 DEF StoreInv, SurvivesInv
    <2>4. QED
      <3>1. ASSUME NEW p \in (IF job.path = "" THEN skl!Discovered
                             ELSE {q \in {job.path} : skl!HasTree(q)})
            PROVE  p \in skl!Places
        BY DEF skl!Discovered, skl!HasTree, StoreInv, StoreTypes
      <3>2. QED
        BY <1>7, <2>2, <2>3, <3>1 DEF skl!InstallFetch
  <1>8. CASE skl!InstallWrite
    <2>1. CASE /\ dir' = [dir EXCEPT ![n] = job.commit]
               /\ installed' = installed \cup {n} /\ skl!GoTo("record")
      <3>1. /\ job.at = "write" /\ job.commit \in Commits
        BY <1>1, <1>2, <1>8 DEF skl!InstallWrite, skl!At, StoreInv, JobInv
      <3>2. /\ job'.op = "install" /\ job'.at = "record" /\ job'.name = n
            /\ job'.known = job.known /\ job'.commit = job.commit
            /\ job' = skl!Job(job'.op, job'.at, job'.name, job'.path, job'.commit, job'.known)
            /\ job' # skl!NoJob
        BY <1>1, <1>2, <2>1, StageSet DEF StoreInv, skl!Job
      <3>3. job.commit \in Contents /\ skl!Complete(job.commit)
        BY <3>1, SkillsAssumption DEF Commits, Contents, skl!Partial, skl!Complete
      <3>4. /\ dir'[n] = job.commit /\ \A s \in SkillNames \ {n} : dir'[s] = dir[s]
            /\ StoreTypes'
        BY <1>1, <1>2, <2>1, <3>3 DEF StoreInv, StoreTypes
      <3>5. JobInv' /\ FilesInv'
        BY <1>2, <3>1, <3>2, <3>4 DEF StoreInv, JobInv, Stages, FilesInv, Doing
      <3>6. OldRecord'
        BY <3>2 DEF OldRecord, Doing
      <3>7. RecordsInv'
        BY <1>1, <1>2, <3>1, <3>2, <3>4, <3>6, GoOn DEF StoreInv
      <3>8. SkillSurvives'
        BY <1>1, <2>1, <3>3, <3>4, OthersSurvive DEF StoreInv, SurvivesInv
      <3>9. QED
        BY <3>2, <3>4, <3>5, <3>7, <3>8 DEF StoreInv, SurvivesInv
    <2>2. QED
      BY <1>6, <1>8, <2>1 DEF skl!InstallWrite
  <1>9. QED
    BY <1>7, <1>8

\* Update until the new files are there: nothing of the old ones is touched.
LEMMA UpdateStep ==
  ASSUME StoreInv, skl!UpdateFetch \/ skl!UpdateCopy
  PROVE  StoreInv'
  <1>1. /\ job.op = "update" /\ job.at \in {"fetch", "copy"}
        /\ UNCHANGED <<skl!repo, dir, backups, skl!manifest, installed, slipped>>
    BY DEF skl!UpdateFetch, skl!UpdateCopy, skl!At
  <1>2. /\ job # skl!NoJob /\ job.name \in SkillNames
        /\ job = skl!Job(job.op, job.at, job.name, job.path, job.commit, job.known)
    BY <1>1, UnderWay DEF StoreInv
  <1> PICK n \in SkillNames : n = job.name
    BY <1>2
  <1>3. n \notin slipped => n \in DOMAIN sources /\ dir[n] = sources[n].commit
    BY <1>1, <1>2 DEF StoreInv, RecordsInv, OldRecord, Doing
  <1>4. SkillSurvives'
    BY <1>1 DEF StoreInv, SurvivesInv, SkillSurvives, skl!SkillSurvives
  <1>5. /\ skl!Partial \in Contents /\ skl!Absent \in Contents
        /\ \A c \in Commits : c \in Contents
    BY SkillsAssumption DEF Contents, Commits, skl!Partial, skl!Absent
  <1>6. CASE skl!GiveUp /\ fresh' \in [SkillNames -> Contents]
    <2>1. n \notin slipped => Fits(n)'
      BY <1>1, <1>3 DEF Fits
    <2>2. RecordsInv' /\ JobInv' /\ FilesInv'
      BY <1>1, <1>2, <1>6, <2>1, LeaveOff DEF StoreInv, skl!GiveUp
    <2>3. StoreTypes'
      BY <1>1, <1>6 DEF StoreInv, StoreTypes
    <2>4. job'.op = "none"
      BY <1>6 DEF skl!GiveUp, skl!NoJob, skl!Job
    <2>5. QED
      BY <1>4, <2>2, <2>3, <2>4 DEF StoreInv, SurvivesInv
  <1>7. ASSUME NEW a \in {"copy", "swapOut"}, NEW c \in Contents, NEW d \in Commits,
               job' = skl!Job("update", a, n, job.path, d, job.known),
               fresh' = [fresh EXCEPT ![n] = c], a = "swapOut" => c = d
        PROVE  StoreInv'
    <2>1. /\ job'.op = "update" /\ job'.at = a /\ job'.name = n
          /\ job'.known = job.known /\ job'.commit = d
          /\ job' = skl!Job(job'.op, job'.at, job'.name, job'.path, job'.commit, job'.known)
          /\ job' # skl!NoJob
      BY <1>7 DEF skl!Job, skl!NoJob
    <2>2. StoreTypes' /\ fresh'[n] = c
      BY <1>1, <1>7 DEF StoreInv, StoreTypes
    <2>3. JobInv' /\ FilesInv'
      BY <1>7, <2>1, <2>2 DEF JobInv, Stages, FilesInv, Doing
    <2>4. n \notin slipped => OldRecord'
      BY <1>1, <1>3, <1>7, <2>1 DEF OldRecord, Doing
    <2>5. RecordsInv'
      BY <1>1, <1>2, <1>7, <2>1, <2>4, GoOn DEF StoreInv
    <2>6. QED
      BY <1>4, <2>1, <2>2, <2>3, <2>5 DEF StoreInv, SurvivesInv
  <1>8. CASE skl!UpdateFetch
    <2>1. CASE skl!GiveUp /\ UNCHANGED fresh
      BY <1>6, <2>1 DEF StoreInv, StoreTypes
    <2>2. CASE /\ job' = [job EXCEPT !.at = "copy", !.commit = head]
               /\ fresh' = [fresh EXCEPT ![n] = skl!Partial]
      <3>1. job' = skl!Job("update", "copy", n, job.path, head, job.known)
        BY <1>1, <1>2, <2>2 DEF skl!Job
      <3>2. head \in Commits
        BY DEF StoreInv, StoreTypes
      <3>3. QED
        BY <1>5, <1>7, <2>2, <3>1, <3>2
    <2>3. QED
      BY <1>8, <2>1, <2>2 DEF skl!UpdateFetch
  <1>9. CASE skl!UpdateCopy
    <2>1. job.at = "copy" /\ job.commit \in Commits
      BY <1>1, <1>2, <1>9 DEF skl!UpdateCopy, skl!At, StoreInv, JobInv
    <2>2. CASE fresh' = [fresh EXCEPT ![n] = job.commit] /\ skl!GoTo("swapOut")
      <3>1. job' = skl!Job("update", "swapOut", n, job.path, job.commit, job.known)
        BY <1>1, <1>2, <2>2, StageSet DEF StoreInv
      <3>2. QED
        BY <1>5, <1>7, <2>1, <2>2, <3>1
    <2>3. CASE fresh' = [fresh EXCEPT ![n] = skl!Absent] /\ skl!GiveUp
      <3>1. fresh' \in [SkillNames -> Contents]
        BY <1>5, <2>3 DEF StoreInv, StoreTypes
      <3>2. QED
        BY <1>6, <2>3, <3>1
    <2>4. QED
      BY <1>9, <2>2, <2>3 DEF skl!UpdateCopy
  <1>10. QED
    BY <1>8, <1>9

\* SwapOut: the old files become the last backup.
LEMMA SwapOutStep ==
  ASSUME StoreInv, skl!SwapOut
  PROVE  StoreInv'
  <1>1. /\ job.op = "update" /\ job.at = "swapOut"
        /\ UNCHANGED <<skl!repo, skl!manifest, installed, slipped>>
    BY DEF skl!SwapOut, skl!At
  <1>2. /\ job # skl!NoJob /\ job.name \in SkillNames
        /\ job = skl!Job(job.op, job.at, job.name, job.path, job.commit, job.known)
    BY <1>1, UnderWay DEF StoreInv
  <1> PICK n \in SkillNames : n = job.name
    BY <1>2
  <1>3. n \notin slipped => n \in DOMAIN sources /\ dir[n] = sources[n].commit
    BY <1>1, <1>2 DEF StoreInv, RecordsInv, OldRecord, Doing
  <1>4. skl!Absent \in Contents
    BY SkillsAssumption DEF Contents, skl!Partial, skl!Absent
  <1>5. CASE /\ fresh' = [fresh EXCEPT ![n] = skl!Absent]
             /\ skl!GiveUp /\ UNCHANGED <<dir, backups>>
    <2>1. n \notin slipped => Fits(n)'
      BY <1>1, <1>3, <1>5 DEF Fits
    <2>2. RecordsInv' /\ JobInv' /\ FilesInv'
      BY <1>1, <1>2, <1>5, <2>1, LeaveOff DEF StoreInv, skl!GiveUp
    <2>3. StoreTypes'
      BY <1>1, <1>4, <1>5 DEF StoreInv, StoreTypes
    <2>4. job'.op = "none"
      BY <1>5 DEF skl!GiveUp, skl!NoJob, skl!Job
    <2>5. SkillSurvives'
      BY <1>1, <1>5 DEF StoreInv, SurvivesInv, SkillSurvives, skl!SkillSurvives
    <2>6. QED
      BY <2>2, <2>3, <2>4, <2>5 DEF StoreInv, SurvivesInv
  <1>6. CASE /\ backups' = [backups EXCEPT ![n] = Append(@, dir[n])]
             /\ dir' = [dir EXCEPT ![n] = skl!Absent]
             /\ skl!GoTo("swapIn") /\ UNCHANGED fresh
    <2>1. /\ job'.op = "update" /\ job'.at = "swapIn" /\ job'.name = n
          /\ job'.known = job.known /\ job'.commit = job.commit
          /\ job' = skl!Job(job'.op, job'.at, job'.name, job'.path, job'.commit, job'.known)
          /\ job' # skl!NoJob
      BY <1>1, <1>2, <1>6, StageSet DEF StoreInv, skl!Job
    <2>2. backups[n] \in Seq(Contents) /\ dir[n] \in Contents
      BY DEF StoreInv, StoreTypes
    <2>3. /\ backups'[n] = Append(backups[n], dir[n]) /\ dir'[n] = skl!Absent
          /\ \A s \in SkillNames \ {n} : dir'[s] = dir[s] /\ backups'[s] = backups[s]
      BY <1>6 DEF StoreInv, StoreTypes
    <2>4. /\ backups'[n] \in Seq(Contents) /\ backups'[n] # <<>>
          /\ skl!Last(backups'[n]) = dir[n]
          /\ skl!Range(backups[n]) \cup {dir[n]} \subseteq skl!Range(backups'[n])
      BY <2>2, <2>3, BackupAdded
    <2>5. StoreTypes'
      <3>1. backups' \in [SkillNames -> Seq(Contents)]
        BY <1>6, <2>3, <2>4 DEF StoreInv, StoreTypes
      <3>2. QED
        BY <1>1, <1>4, <1>6, <3>1 DEF StoreInv, StoreTypes
    <2>6. fresh[n] = job.commit
      BY <1>1 DEF StoreInv, FilesInv, Doing
    <2>7. JobInv' /\ FilesInv'
      <3>1. JobInv'
        BY <1>1, <1>2, <2>1 DEF StoreInv, JobInv, Stages
      <3>2. FilesInv'
        BY <1>6, <2>1, <2>3, <2>4, <2>6 DEF FilesInv, Doing
      <3>3. QED
        BY <3>1, <3>2
    <2>8. n \notin slipped => OldRecord'
      BY <1>1, <1>3, <2>1, <2>4 DEF OldRecord, Doing
    <2>9. RecordsInv'
      BY <1>1, <1>2, <2>1, <2>3, <2>8, GoOn DEF StoreInv
    <2>10. n \in installed =>
             skl!Complete(dir[n]) \/ \E c \in skl!Range(backups[n]) : skl!Complete(c)
      BY DEF StoreInv, SurvivesInv, SkillSurvives, skl!SkillSurvives
    <2>11. SkillSurvives'
      BY <1>1, <2>3, <2>4, <2>10, OthersSurvive DEF StoreInv, SurvivesInv
    <2>12. QED
      BY <2>1, <2>5, <2>7, <2>9, <2>11 DEF StoreInv, SurvivesInv
  <1>7. QED
    BY <1>5, <1>6 DEF skl!SwapOut

\* SwapIn: the new files, or the old ones again, or none; then they are in the
\* backup.
LEMMA SwapInStep ==
  ASSUME StoreInv, skl!SwapIn
  PROVE  StoreInv'
  <1>1. /\ job.op = "update" /\ job.at = "swapIn"
        /\ UNCHANGED <<skl!repo, skl!manifest, installed>>
    BY DEF skl!SwapIn, skl!At
  <1>2. /\ job # skl!NoJob /\ job.name \in SkillNames
        /\ job = skl!Job(job.op, job.at, job.name, job.path, job.commit, job.known)
    BY <1>1, UnderWay DEF StoreInv
  <1> PICK n \in SkillNames : n = job.name
    BY <1>2
  <1>3. n \notin slipped => n \in DOMAIN sources /\ skl!Last(backups[n]) = sources[n].commit
    BY <1>1, <1>2 DEF StoreInv, RecordsInv, OldRecord, Doing
  <1>4. /\ dir[n] = skl!Absent /\ fresh[n] = job.commit /\ job.commit \in Commits
        /\ backups[n] \in Seq(Contents) /\ backups[n] # <<>>
    BY <1>1, <1>2 DEF StoreInv, StoreTypes, FilesInv, Doing, JobInv
  <1>5. /\ skl!Absent \in Contents /\ ~skl!Complete(skl!Absent)
        /\ job.commit \in Contents /\ skl!Complete(job.commit)
    BY <1>4, SkillsAssumption DEF Contents, Commits, skl!Partial, skl!Absent, skl!Complete
  <1>6. n \in installed => \E c \in skl!Range(backups[n]) : skl!Complete(c)
    BY <1>4, <1>5 DEF StoreInv, SurvivesInv, SkillSurvives, skl!SkillSurvives
  <1>7. /\ skl!Front(backups[n]) \in Seq(Contents) /\ skl!Last(backups[n]) \in Contents
        /\ skl!Range(backups[n])
             \subseteq skl!Range(skl!Front(backups[n])) \cup {skl!Last(backups[n])}
    BY <1>4, BackupTaken
  <1>8. fresh' = [fresh EXCEPT ![n] = skl!Absent] /\ fresh' \in [SkillNames -> Contents]
    BY <1>5 DEF skl!SwapIn, StoreInv, StoreTypes
  <1>9. CASE /\ dir' = [dir EXCEPT ![n] = fresh[n]]
             /\ skl!GoTo("clean") /\ UNCHANGED <<backups, slipped>>
    <2>1. /\ job'.op = "update" /\ job'.at = "clean" /\ job'.name = n
          /\ job'.known = job.known /\ job'.commit = job.commit
          /\ job' = skl!Job(job'.op, job'.at, job'.name, job'.path, job'.commit, job'.known)
          /\ job' # skl!NoJob
      BY <1>1, <1>2, <1>9, StageSet DEF StoreInv, skl!Job
    <2>2. /\ dir'[n] = job.commit /\ \A s \in SkillNames \ {n} : dir'[s] = dir[s]
          /\ dir' \in [SkillNames -> Contents]
      BY <1>4, <1>5, <1>9 DEF StoreInv, StoreTypes
    <2>3. StoreTypes'
      BY <1>1, <1>8, <1>9, <2>2 DEF StoreInv, StoreTypes
    <2>4. JobInv' /\ FilesInv'
      BY <1>4, <1>9, <2>1, <2>2 DEF JobInv, Stages, FilesInv, Doing
    <2>5. OldRecord'
      BY <2>1 DEF OldRecord, Doing
    <2>6. RecordsInv'
      BY <1>1, <1>2, <1>9, <2>1, <2>2, <2>5, GoOn DEF StoreInv
    <2>7. SkillSurvives'
      BY <1>1, <1>5, <1>9, <2>2, OthersSurvive DEF StoreInv, SurvivesInv
    <2>8. QED
      BY <2>1, <2>3, <2>4, <2>6, <2>7 DEF StoreInv, SurvivesInv
  <1>10. CASE /\ dir' = [dir EXCEPT ![n] = skl!Last(backups[n])]
              /\ backups' = [backups EXCEPT ![n] = skl!Front(@)]
              /\ skl!GiveUp /\ UNCHANGED slipped
    <2>1. /\ dir'[n] = skl!Last(backups[n]) /\ backups'[n] = skl!Front(backups[n])
          /\ \A s \in SkillNames \ {n} : dir'[s] = dir[s] /\ backups'[s] = backups[s]
      BY <1>10 DEF StoreInv, StoreTypes
    <2>2. dir' \in [SkillNames -> Contents] /\ backups' \in [SkillNames -> Seq(Contents)]
      BY <1>7, <1>10, <2>1 DEF StoreInv, StoreTypes
    <2>3. StoreTypes'
      BY <1>1, <1>8, <2>2 DEF StoreInv, StoreTypes
    <2>4. n \notin slipped => Fits(n)'
      BY <1>1, <1>3, <2>1 DEF Fits
    <2>5. RecordsInv' /\ JobInv' /\ FilesInv'
      BY <1>1, <1>2, <1>10, <2>1, <2>4, LeaveOff DEF StoreInv, skl!GiveUp
    <2>6. SkillSurvives'
      BY <1>1, <1>6, <1>7, <2>1, OthersSurvive DEF StoreInv, SurvivesInv
    <2>7. job'.op = "none"
      BY <1>10 DEF skl!GiveUp, skl!NoJob, skl!Job
    <2>8. QED
      BY <2>3, <2>5, <2>6, <2>7 DEF StoreInv, SurvivesInv
  <1>11. CASE /\ slipped' = slipped \cup {n} /\ skl!GiveUp /\ UNCHANGED <<dir, backups>>
    <2>1. StoreTypes'
      BY <1>1, <1>8, <1>11 DEF StoreInv, StoreTypes
    <2>2. RecordsInv' /\ JobInv' /\ FilesInv'
      BY <1>1, <1>2, <1>11, LeaveOff DEF StoreInv, skl!GiveUp
    <2>3. SkillSurvives'
      BY <1>1, <1>11 DEF StoreInv, SurvivesInv, SkillSurvives, skl!SkillSurvives
    <2>4. job'.op = "none"
      BY <1>11 DEF skl!GiveUp, skl!NoJob, skl!Job
    <2>5. QED
      BY <2>1, <2>2, <2>3, <2>4 DEF StoreInv, SurvivesInv
  <1>12. QED
    BY <1>9, <1>10, <1>11 DEF skl!SwapIn

\* CleanBackup: the new files are in place, so the backup may go, or half of
\* it.
LEMMA CleanStep ==
  ASSUME StoreInv, skl!CleanBackup
  PROVE  StoreInv'
  <1>1. /\ job.op = "update" /\ job.at = "clean" /\ skl!GoTo("record")
        /\ UNCHANGED <<skl!repo, dir, fresh, skl!manifest, installed, slipped>>
    BY DEF skl!CleanBackup, skl!At
  <1>2. /\ job # skl!NoJob /\ job.name \in SkillNames
        /\ job = skl!Job(job.op, job.at, job.name, job.path, job.commit, job.known)
    BY <1>1, UnderWay DEF StoreInv
  <1> PICK n \in SkillNames : n = job.name
    BY <1>2
  <1>3. /\ dir[n] = job.commit /\ job.commit \in Commits
        /\ backups[n] \in Seq(Contents) /\ backups[n] # <<>>
    BY <1>1, <1>2 DEF StoreInv, StoreTypes, FilesInv, Doing, JobInv
  <1>4. PICK rest \in {<<>>, <<skl!Partial>>} :
          backups' = [backups EXCEPT ![n] = skl!Front(@) \o rest]
    BY DEF skl!CleanBackup
  <1>5. skl!Front(backups[n]) \o rest \in Seq(Contents)
    <2>1. skl!Front(backups[n]) \in Seq(Contents)
      BY <1>3, BackupTaken
    <2>2. skl!Partial \in Contents
      BY SkillsAssumption DEF Contents, skl!Partial
    <2>3. rest \in Seq(Contents)
      <3>1. <<>> \in Seq(Contents) /\ <<skl!Partial>> \in Seq(Contents)
        BY <2>2
      <3>2. QED
        BY <3>1
    <2>4. QED
      BY <2>1, <2>3
  <1>6. /\ backups' \in [SkillNames -> Seq(Contents)]
        /\ \A s \in SkillNames \ {n} : backups'[s] = backups[s]
    BY <1>4, <1>5 DEF StoreInv, StoreTypes
  <1>7. /\ job'.op = "update" /\ job'.at = "record" /\ job'.name = n
        /\ job'.known = job.known /\ job'.commit = job.commit
        /\ job' = skl!Job(job'.op, job'.at, job'.name, job'.path, job'.commit, job'.known)
        /\ job' # skl!NoJob
    BY <1>1, <1>2, StageSet DEF StoreInv, skl!Job
  <1>8. StoreTypes'
    BY <1>1, <1>6 DEF StoreInv, StoreTypes
  <1>9. JobInv' /\ FilesInv'
    BY <1>1, <1>3, <1>7 DEF JobInv, Stages, FilesInv, Doing
  <1>10. OldRecord'
    BY <1>7 DEF OldRecord, Doing
  <1>11. RecordsInv'
    BY <1>1, <1>2, <1>7, <1>10, GoOn DEF StoreInv
  <1>12. skl!Complete(dir[n])
    BY <1>3 DEF Commits, skl!Complete
  <1>13. SkillSurvives'
    BY <1>1, <1>6, <1>12, OthersSurvive DEF StoreInv, SurvivesInv
  <1>14. QED
    BY <1>7, <1>8, <1>9, <1>11, <1>13 DEF StoreInv, SurvivesInv

\* RemoveDir: the manifest is read when the directory is gone; one that cannot
\* be read is left, and half a directory has slipped.
LEMMA RemoveStep ==
  ASSUME StoreInv, skl!RemoveDir
  PROVE  StoreInv'
  <1>1. /\ job.op = "remove" /\ job.at = "delete"
        /\ UNCHANGED <<skl!repo, fresh, backups, skl!manifest, installed>>
    BY DEF skl!RemoveDir, skl!At
  <1>2. /\ job # skl!NoJob /\ job.name \in SkillNames
        /\ job = skl!Job(job.op, job.at, job.name, job.path, job.commit, job.known)
    BY <1>1, UnderWay DEF StoreInv
  <1> PICK n \in SkillNames : n = job.name
    BY <1>2
  <1>3. n \notin installed
    BY <1>1 DEF StoreInv, SurvivesInv
  <1>4. skl!Absent \in Contents
    BY SkillsAssumption DEF Contents, skl!Partial, skl!Absent
  <1>5. torn => slipped = SkillNames
    BY <1>1 DEF StoreInv, RecordsInv
  <1>6. ASSUME dir' = dir \/ dir' = [dir EXCEPT ![n] = skl!Absent]
        PROVE  StoreTypes' /\ SkillSurvives' /\ \A s \in SkillNames \ {n} : dir'[s] = dir[s]
    <2>1. StoreTypes' /\ \A s \in SkillNames \ {n} : dir'[s] = dir[s]
      BY <1>1, <1>4, <1>6 DEF StoreInv, StoreTypes
    <2>2. SkillSurvives'
      BY <1>1, <1>3, <2>1, OthersSurvive DEF StoreInv, SurvivesInv
    <2>3. QED
      BY <2>1, <2>2
  <1>7. CASE /\ skl!GiveUp
             /\ \/ dir' = dir /\ slipped' = slipped \cup {n}
                \/ dir' = [dir EXCEPT ![n] = skl!Absent] /\ torn /\ slipped' = slipped
    <2>1. n \in slipped' /\ slipped' \in {slipped, slipped \cup {n}}
      BY <1>5, <1>7
    <2>2. RecordsInv' /\ JobInv' /\ FilesInv'
      BY <1>1, <1>2, <1>6, <1>7, <2>1, LeaveOff DEF StoreInv, skl!GiveUp
    <2>3. job'.op = "none"
      BY <1>7 DEF skl!GiveUp, skl!NoJob, skl!Job
    <2>4. QED
      BY <1>6, <1>7, <2>2, <2>3 DEF StoreInv, SurvivesInv
  <1>8. CASE /\ dir' = [dir EXCEPT ![n] = skl!Absent] /\ ~torn /\ slipped' = slipped
             /\ job' = [job EXCEPT !.at = "record", !.known = sources]
    <2>1. job' = skl!Job("remove", "record", n, job.path, job.commit, sources)
      BY <1>1, <1>2, <1>8 DEF skl!Job
    <2>2. /\ job'.op = "remove" /\ job'.at = "record" /\ job'.name = n /\ job'.known = sources
          /\ job' = skl!Job(job'.op, job'.at, job'.name, job'.path, job'.commit, job'.known)
          /\ job' # skl!NoJob
      BY <2>1 DEF skl!Job, skl!NoJob
    <2>3. dir'[n] = skl!Absent
      BY <1>8 DEF StoreInv, StoreTypes
    <2>4. JobInv' /\ FilesInv'
      BY <2>2, <2>3 DEF JobInv, Stages, FilesInv, Doing
    <2>5. \A s \in SkillNames \ slipped : s # n => Fits(s)'
      BY <1>1, <1>2, <1>6, <1>8, OthersFit DEF StoreInv
    <2>6. OldRecord'
      BY <2>2 DEF OldRecord, Doing
    <2>7. RecordsInv'
      BY <1>1, <1>8, <2>2, <2>5, <2>6 DEF StoreInv, StoreTypes, RecordsInv
    <2>8. SurvivesInv'
      BY <1>1, <1>3, <1>6, <1>8, <2>2 DEF SurvivesInv
    <2>9. QED
      BY <1>6, <1>8, <2>4, <2>7, <2>8 DEF StoreInv
  <1>9. QED
    BY <1>7, <1>8 DEF skl!RemoveDir

\* OpenManifest: the file is cut off before it is written.
LEMMA OpenStep ==
  ASSUME StoreInv, skl!OpenManifest
  PROVE  StoreInv'
  <1>1. /\ job.at = "record"
        /\ UNCHANGED <<skl!repo, skl!disk, sources, installed>>
    BY DEF skl!OpenManifest
  <1>2. /\ job # skl!NoJob /\ job.name \in SkillNames
        /\ job = skl!Job(job.op, job.at, job.name, job.path, job.commit, job.known)
    BY <1>1, UnderWay DEF StoreInv
  <1> PICK n \in SkillNames : n = job.name
    BY <1>2
  <1>3. StoreTypes'
    BY <1>1 DEF StoreInv, StoreTypes
  <1>4. SkillSurvives'
    BY <1>1 DEF StoreInv, SurvivesInv, SkillSurvives, skl!SkillSurvives
  <1>5. CASE torn' = TRUE /\ skl!GoTo("save") /\ UNCHANGED slipped
    <2>1. /\ job'.op = job.op /\ job'.at = "save" /\ job'.name = n
          /\ job'.known = job.known /\ job'.commit = job.commit
          /\ job' = skl!Job(job'.op, job'.at, job'.name, job'.path, job'.commit, job'.known)
          /\ job' # skl!NoJob
      BY <1>1, <1>2, <1>5, StageSet DEF StoreInv, skl!Job
    <2>2. job.op \in {"install", "update", "remove"}
      BY <1>2 DEF StoreInv, JobInv
    <2>3. JobInv'
      BY <1>1, <1>2, <2>1, <2>2 DEF StoreInv, JobInv, Stages
    <2>4. FilesInv'
      BY <1>1, <2>1, <2>2 DEF StoreInv, FilesInv, Doing
    <2>5. \A s \in SkillNames \ slipped : s # n => Fits(s)'
      BY <1>1, <1>2, <1>5, OthersFit DEF StoreInv
    <2>6. OldRecord'
      BY <2>1 DEF OldRecord, Doing
    <2>7. RecordsInv'
      BY <1>1, <1>5, <2>1, <2>2, <2>5, <2>6 DEF StoreInv, RecordsInv, Doing
    <2>8. SurvivesInv'
      BY <1>1, <1>4, <2>1 DEF StoreInv, SurvivesInv
    <2>9. QED
      BY <1>3, <2>3, <2>4, <2>7, <2>8 DEF StoreInv
  <1>6. CASE slipped' = slipped \cup {n} /\ skl!GiveUp /\ UNCHANGED torn
    <2>1. RecordsInv' /\ JobInv' /\ FilesInv'
      BY <1>1, <1>2, <1>6, LeaveOff DEF StoreInv, skl!GiveUp
    <2>2. job'.op = "none"
      BY <1>6 DEF skl!GiveUp, skl!NoJob, skl!Job
    <2>3. QED
      BY <1>3, <1>4, <2>1, <2>2 DEF StoreInv, SurvivesInv
  <1>7. QED
    BY <1>5, <1>6 DEF skl!OpenManifest

\* SaveManifest: what is recorded of the skill is what the operation has
\* brought about, and of the others what was recorded.
LEMMA SaveStep ==
  ASSUME StoreInv, skl!SaveManifest
  PROVE  StoreInv'
  <1>1. /\ job.at = "save" /\ torn' = FALSE /\ job' = skl!NoJob
        /\ sources' = skl!Recorded /\ slipped' = slipped \ {job.name}
        /\ UNCHANGED <<skl!repo, skl!disk, installed>>
    BY DEF skl!SaveManifest, skl!GiveUp
  <1>2. /\ job # skl!NoJob /\ job.name \in SkillNames
        /\ job.op \in {"install", "update", "remove"}
        /\ job.op # "remove" => job.commit \in Commits
    BY <1>1, UnderWay DEF StoreInv, JobInv
  <1> PICK n \in SkillNames : n = job.name
    BY <1>2
  <1>3. /\ job.op = "remove" => n \notin DOMAIN sources'
        /\ job.op # "remove" => n \in DOMAIN sources' /\ sources'[n].commit = job.commit
        /\ \A s : s # n => /\ s \in DOMAIN sources' <=> s \in DOMAIN job.known
                           /\ s \in DOMAIN sources' => sources'[s] = job.known[s]
    BY <1>1, <1>2 DEF skl!Recorded
  <1>4. \A s \in DOMAIN sources' : sources'[s].commit \in Commits
    BY <1>2, <1>3 DEF StoreInv, RecordsInv
  <1>5. Fits(n)'
    <2>1. CASE job.op = "remove"
      <3>1. dir[n] = skl!Absent
        BY <1>1, <2>1 DEF StoreInv, FilesInv, Doing
      <3>2. QED
        BY <1>1, <1>3, <2>1, <3>1 DEF Fits
    <2>2. CASE job.op # "remove"
      <3>1. dir[n] = job.commit
        BY <1>1, <1>2, <2>2 DEF StoreInv, FilesInv, Doing
      <3>2. QED
        BY <1>1, <1>3, <2>2, <3>1 DEF Fits
    <2>3. QED
      BY <2>1, <2>2
  <1>6. job.known = sources \/ slipped = SkillNames
    BY <1>1, <1>2 DEF StoreInv, RecordsInv, Doing
  <1>7. ASSUME NEW s \in SkillNames, s \notin slipped, s # n PROVE Fits(s)'
    <2>1. Fits(s) /\ job.known = sources
      BY <1>6, <1>7 DEF StoreInv, RecordsInv
    <2>2. QED
      BY <1>1, <1>3, <1>7, <2>1 DEF Fits
  <1>8. \A s \in SkillNames \ slipped' : Fits(s)'
    BY <1>1, <1>5, <1>7 DEF Fits
  <1>9. /\ job'.op = "none" /\ job'.at = "" /\ DOMAIN job'.known = {}
    BY <1>1 DEF skl!NoJob, skl!Job, skl!NoSources
  <1>10. RecordsInv'
    <2>1. slipped' \subseteq SkillNames
      BY <1>1 DEF StoreInv, RecordsInv
    <2>2. QED
      BY <1>1, <1>8, <1>9, <2>1 DEF RecordsInv, Doing
  <1>11. JobInv' /\ FilesInv'
    BY <1>1, <1>9 DEF JobInv, FilesInv, Doing
  <1>12. SurvivesInv'
    BY <1>1, <1>9 DEF StoreInv, SurvivesInv, SkillSurvives, skl!SkillSurvives
  <1>13. StoreTypes'
    BY <1>1, <1>4 DEF StoreInv, StoreTypes
  <1>14. QED
    BY <1>10, <1>11, <1>12, <1>13 DEF StoreInv

\* The process dies: only the disk is left.
LEMMA CrashStep ==
  ASSUME StoreInv, skl!Crash
  PROVE  StoreInv'
  <1>1. /\ job # skl!NoJob /\ job' = skl!NoJob
        /\ slipped' = IF torn THEN SkillNames ELSE slipped \cup {job.name}
        /\ UNCHANGED <<skl!repo, skl!disk, skl!manifest, installed>>
    BY DEF skl!Crash, skl!GiveUp
  <1>2. job.name \in SkillNames
    BY <1>1 DEF StoreInv, JobInv
  <1>3. /\ job'.op = "none" /\ job'.at = "" /\ DOMAIN job'.known = {}
    BY <1>1 DEF skl!NoJob, skl!Job, skl!NoSources
  <1>4. \A s \in SkillNames \ slipped' : Fits(s)'
    BY <1>1 DEF StoreInv, RecordsInv, Fits
  <1>5. RecordsInv'
    <2>1. slipped' \subseteq SkillNames /\ (torn' => slipped' = SkillNames)
      BY <1>1, <1>2 DEF StoreInv, RecordsInv
    <2>2. QED
      BY <1>1, <1>3, <1>4, <2>1 DEF RecordsInv, Doing
  <1>6. JobInv' /\ FilesInv'
    BY <1>1, <1>3 DEF JobInv, FilesInv, Doing
  <1>7. SurvivesInv'
    BY <1>1, <1>3 DEF StoreInv, SurvivesInv, SkillSurvives, skl!SkillSurvives
  <1>8. StoreTypes'
    BY <1>1 DEF StoreInv, StoreTypes
  <1>9. QED
    BY <1>5, <1>6, <1>7, <1>8 DEF StoreInv

\* Every step of the skills keeps the invariant; a new commit of the
\* repository touches nothing on disk.
LEMMA StoreStep == StoreInv /\ [skl!Next]_(skl!vars) => StoreInv'
  <1> SUFFICES ASSUME StoreInv, [skl!Next]_(skl!vars) PROVE StoreInv'
    OBVIOUS
  <1>1. CASE skl!Publish \/ UNCHANGED skl!vars
    <2>1. UNCHANGED <<skl!disk, skl!manifest, job, installed, slipped>>
      BY <1>1 DEF skl!Publish
    <2>2. head' \in Commits /\ places' \subseteq skl!Places
      BY <1>1, SkillsAssumption DEF skl!Publish, StoreInv, StoreTypes, Commits
    <2>3. StoreTypes' /\ JobInv' /\ FilesInv'
      BY <2>1, <2>2 DEF StoreInv, StoreTypes, JobInv, FilesInv, Doing
    <2>4. SurvivesInv'
      BY <2>1 DEF StoreInv, SurvivesInv, SkillSurvives, skl!SkillSurvives
    <2>5. RecordsInv'
      BY <2>1 DEF StoreInv, RecordsInv, Fits, OldRecord, Doing
    <2>6. QED
      BY <2>3, <2>4, <2>5 DEF StoreInv
  <1>2. CASE skl!UserBegins
    <2>1. PICK s \in SkillNames :
            \/ \E path \in skl!Paths : skl!BeginInstall(s, path)
            \/ skl!BeginUpdate(s) \/ skl!BeginRemove(s)
      BY <1>2 DEF skl!UserBegins
    <2>2. QED
      BY <2>1, BeginInstallStep, BeginUpdateStep, BeginRemoveStep
  <1>3. QED
    BY <1>1, <1>2, InstallStep, UpdateStep, SwapOutStep, SwapInStep, CleanStep,
       RemoveStep, OpenStep, SaveStep, CrashStep DEF skl!Next

\* There is no skill and no manifest to begin with.
LEMMA StoreStart == skl!Init => StoreInv
  <1> SUFFICES ASSUME skl!Init PROVE StoreInv
    OBVIOUS
  <1>1. /\ skl!Absent \in Contents /\ 1 \in Commits
    BY SkillsAssumption DEF Contents, Commits, skl!Partial, skl!Absent
  <1>2. /\ job = skl!NoJob /\ job.op = "none" /\ job.at = "" /\ DOMAIN job.known = {}
        /\ DOMAIN sources = {} /\ installed = {} /\ torn = FALSE /\ slipped = {}
        /\ dir = [s \in SkillNames |-> skl!Absent]
    BY DEF skl!Init, skl!NoJob, skl!Job, skl!NoSources
  <1>3. StoreTypes
    <2>1. fresh \in [SkillNames -> Contents] /\ dir \in [SkillNames -> Contents]
      BY <1>1, <1>2 DEF skl!Init
    <2>2. backups \in [SkillNames -> Seq(Contents)]
      BY DEF skl!Init
    <2>3. QED
      BY <1>1, <1>2, <2>1, <2>2 DEF skl!Init, StoreTypes
  <1>4. JobInv /\ FilesInv
    BY <1>2 DEF JobInv, FilesInv, Doing
  <1>5. SurvivesInv
    BY <1>2 DEF SurvivesInv, SkillSurvives, skl!SkillSurvives
  <1>6. RecordsInv
    BY <1>2 DEF RecordsInv, Fits, Doing
  <1>7. QED
    BY <1>3, <1>4, <1>5, <1>6 DEF StoreInv

\* A skill that was installed is on disk in one piece until the user removes
\* it, whatever fails or dies while it is replaced: before the directory is
\* renamed the new files are complete beside it, and while it is away it is
\* the last backup (Update).
THEOREM SurvivesCorrect == skl!Spec => []SkillSurvives
  <1>1. StoreInv => SkillSurvives
    BY DEF StoreInv, SurvivesInv
  <1>2. QED
    BY StoreStart, StoreStep, <1>1, PTL DEF skl!Spec

\* Between two operations the manifest names the commit whose files are in the
\* directory of every skill whose record has not slipped (InstallFromGit,
\* Update, Remove, saveManifest).
THEOREM SourceCorrect == skl!Spec => []SourceMatchesFiles
  <1>1. StoreInv => SourceMatchesFiles
    BY DEF StoreInv, RecordsInv, Fits, SourceMatchesFiles, skl!SourceMatchesFiles
  <1>2. QED
    BY StoreStart, StoreStep, <1>1, PTL DEF skl!Spec
=============================================================================
