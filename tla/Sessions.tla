------------------------------ MODULE Sessions ------------------------------
(***************************************************************************)
(* The session files (runtime/sessionmgr, history/session.go), who writes  *)
(* to them, and the updater that analyses them for the host memory         *)
(* (hostmem/background_updater.go).  The controller appends what the user  *)
(* says and what the model replies to the current session; the tools of a  *)
(* turn append to the session its runner was built with.  A session that   *)
(* is opened again is a new object over the same file.                     *)
(***************************************************************************)
EXTENDS Naturals, Sequences, SequencesExt

CONSTANTS
  Files,         \* session files
  MemoryHosts,   \* hosts that have a memory
  NoHost,        \* offline, or before the first probe
  NoRequest,
  QueueCap,      \* requests that wait for the updater (32 in the code)
  MaxSessions,   \* bound: session objects
  MaxChats,      \* bound: chats
  MaxRecords     \* bound: commands of a turn

Objects == 1 .. MaxSessions
Requests == [file : Files, host : MemoryHosts]
Kinds == {"user", "decision", "result", "reply"}

VARIABLES
  current,     \* the object sessions.Current() returns
  fileOf,      \* the file of each object that was opened
  handles,     \* objects whose file is open
  log,         \* the events in each file
  runner,      \* the session object of the cached runner, 0: no runner
  stage,       \* where the agent goroutine of the turn stands
  writer,      \* the session object of the running turn
  given,       \* the events the running turn was given as conversation
  moved,       \* history: turns during which the user changed the session
  chats, records,
  target,      \* the context of the host memory
  queue, pending, timer,
  unread       \* history: the last request, until the updater has read the file

sessions == <<current, fileOf, handles, log>>
turnState == <<runner, stage, writer, given, moved, chats, records>>
updater == <<queue, pending, timer, unread>>
vars == <<sessions, turnState, target, updater>>

SessionsTypeOK ==
  /\ current \in 1 .. Len(fileOf) /\ fileOf \in BoundedSeq(Files, MaxSessions)
  /\ handles \subseteq 1 .. Len(fileOf)
  /\ \A f \in Files : \A i \in DOMAIN log[f] :
       log[f][i].kind \in Kinds /\ log[f][i].turn \in 0 .. MaxChats
  /\ runner \in 0 .. Len(fileOf) /\ writer \in 0 .. Len(fileOf)
  /\ stage \in {"none", "start", "working", "deciding", "over"}
  /\ moved \subseteq 1 .. MaxChats
  /\ target \in MemoryHosts \cup {NoHost}
  /\ Len(queue) <= QueueCap /\ pending \in Requests \cup {NoRequest}
  /\ timer \in {"off", "armed", "fired", "busy"}

FirstFile == CHOOSE f \in Files : TRUE

Init ==
  /\ current = 1 /\ fileOf = <<FirstFile>> /\ handles = {}
  /\ log = [f \in Files |-> <<>>]
  /\ runner = 0 /\ stage = "none" /\ writer = 0 /\ given = <<>> /\ moved = {}
  /\ chats = 0 /\ records = 0
  /\ target = NoHost
  /\ queue = <<>> /\ pending = NoRequest /\ timer = "off"
  /\ unread = NoRequest

Turn == chats
Running == stage # "none"
FileOf(o) == fileOf[o]

-----------------------------------------------------------------------------
(* Session.append: the file is opened by the first write, also by the      *)
(* first write after Close, and grows at its end.                          *)

Write(o, kind, turn) ==
  /\ handles' = handles \cup {o}
  /\ log' = [log EXCEPT ![FileOf(o)] = Append(@, [kind |-> kind, turn |-> turn])]

EnqueueUnlessFull(f) ==
  IF target = NoHost THEN UNCHANGED <<queue, unread>>
  ELSE LET req == [file |-> f, host |-> target]
       IN /\ queue' = IF Len(queue) = QueueCap THEN queue ELSE Append(queue, req)
          /\ unread' = req

\* The hook of a session: a full queue loses its oldest request.
Enqueue(f) ==
  IF target = NoHost THEN UNCHANGED <<queue, unread>>
  ELSE LET req == [file |-> f, host |-> target]
       IN /\ queue' = Append(IF Len(queue) = QueueCap THEN Tail(queue) ELSE queue, req)
          /\ unread' = req

-----------------------------------------------------------------------------
(* The controller.                                                         *)

\* The line is in the session before it is known whether the chat is refused.
RefuseChat ==
  /\ Running /\ chats < MaxChats
  /\ \A i \in DOMAIN log[FileOf(current)] : log[FileOf(current)][i].turn # 0   \* bound: one
  /\ Write(current, "user", 0)
  /\ UNCHANGED <<current, fileOf, turnState, target, updater>>

StartChat ==
  /\ ~Running /\ chats < MaxChats
  /\ chats' = chats + 1 /\ records' = 0
  /\ Write(current, "user", chats + 1)
  /\ runner' = IF runner = 0 THEN current ELSE runner
  /\ stage' = "start" /\ writer' = runner' /\ given' = <<>>
  /\ UNCHANGED <<current, fileOf, moved, target, updater>>

\* A reply is a relevant event; a turn that failed leaves none.
Complete ==
  /\ stage = "over"
  /\ stage' = "none" /\ writer' = 0 /\ given' = <<>>
  /\ \/ /\ Write(current, "reply", Turn)
        /\ Enqueue(FileOf(current))
     \/ UNCHANGED <<handles, log, queue, unread>>
  /\ UNCHANGED <<current, fileOf, runner, moved, chats, records, target,
                 pending, timer>>

\* NewSession, SwitchTo: the old object is closed, the runner dropped.
EnterKeepsRunner(f) ==
  /\ fileOf' = Append(fileOf, f) /\ current' = Len(fileOf) + 1
  /\ handles' = handles \ {current}
  /\ moved' = IF Running THEN moved \cup {Turn} ELSE moved
  /\ UNCHANGED <<runner, log>>

Enter(f) ==
  /\ fileOf' = Append(fileOf, f) /\ current' = Len(fileOf) + 1
  /\ handles' = handles \ {current}
  /\ runner' = 0
  /\ moved' = IF Running THEN moved \cup {Turn} ELSE moved
  /\ UNCHANGED log

NewSession ==
  /\ Len(fileOf) < MaxSessions
  /\ \E f \in Files \ Range(fileOf) : Enter(f)
  /\ UNCHANGED <<stage, writer, given, chats, records, target, updater>>

SwitchSession ==
  /\ Len(fileOf) < MaxSessions
  /\ \E f \in Range(fileOf) : Enter(f)
  /\ UNCHANGED <<stage, writer, given, chats, records, target, updater>>

\* A probe of the host ends, or the user goes offline.
ChangeTarget ==
  /\ \E h \in MemoryHosts \cup {NoHost} : h # target /\ target' = h
  /\ UNCHANGED <<sessions, turnState, updater>>

-----------------------------------------------------------------------------
(* The agent goroutine of a turn.                                          *)

Said(f) == SelectSeq(log[f], LAMBDA e : e.kind \in {"user", "reply"})

\* The conversation is read from the session that is current by now.
ReadConversation ==
  /\ stage = "start" /\ stage' = "working"
  /\ given' = Said(FileOf(current))
  /\ UNCHANGED <<sessions, runner, writer, moved, chats, records, target, updater>>

Decide ==
  /\ stage = "working" /\ records < MaxRecords
  /\ stage' = "deciding" /\ records' = records + 1
  /\ Write(writer, "decision", Turn)
  /\ UNCHANGED <<current, fileOf, runner, writer, given, moved, chats, target, updater>>

\* Nothing is recorded of a refused or cancelled command, nor of one whose
\* output the user keeps to himself.
Record ==
  /\ stage = "deciding" /\ stage' = "working"
  /\ \/ /\ Write(writer, "result", Turn)
        /\ Enqueue(FileOf(writer))
     \/ UNCHANGED <<handles, log, queue, unread>>
  /\ UNCHANGED <<current, fileOf, runner, writer, given, moved, chats, records, target,
                 pending, timer>>

EndTurn ==
  /\ stage = "working" /\ stage' = "over"
  /\ UNCHANGED <<sessions, runner, writer, given, moved, chats, records, target, updater>>

-----------------------------------------------------------------------------
(* BackgroundUpdater.run                                                   *)

\* The timer is armed anew by every request, also when it has just fired.
Receive ==
  /\ queue # <<>> /\ timer # "busy"
  /\ pending' = Head(queue) /\ queue' = Tail(queue)
  /\ timer' = "armed"
  /\ UNCHANGED <<sessions, turnState, target, unread>>

Fire ==
  /\ timer = "armed" /\ timer' = "fired"
  /\ UNCHANGED <<sessions, turnState, target, queue, pending, unread>>

\* process reads the file; requests wait while it analyses and updates.
Process ==
  /\ timer = "fired" /\ timer' = "busy"
  /\ unread' = IF unread = pending THEN NoRequest ELSE unread
  /\ UNCHANGED <<sessions, turnState, target, queue, pending>>

Processed ==
  /\ timer = "busy" /\ timer' = "off"
  /\ pending' = NoRequest
  /\ UNCHANGED <<sessions, turnState, target, queue, unread>>

-----------------------------------------------------------------------------
Updater == Receive \/ Fire \/ Process \/ Processed

Next ==
  \/ RefuseChat \/ StartChat \/ Complete
  \/ NewSession \/ SwitchSession \/ ChangeTarget
  \/ ReadConversation \/ Decide \/ Record \/ EndTurn
  \/ Updater

Spec == Init /\ [][Next]_vars

-----------------------------------------------------------------------------
FilesOf(t) == {f \in Files : \E i \in DOMAIN log[f] : log[f][i].turn = t}

\* What belongs together is in one file: the line of the user, the decisions,
\* the results and the reply of a turn, unless the user changed the session
\* while it ran; then the reply goes to the new session and the rest to the
\* old one (handleSubmitNewSession and handleSubmitSwitchSession drop the
\* runner that holds the old session).
TurnInOneFile ==
  \A t \in 1 .. MaxChats : t \notin moved => \A f, g \in FilesOf(t) : f = g

\* The model is given the conversation before the user's line, and the line
\* once (Runner.Run appends it to the conversation).
PromptOnce == \A i \in DOMAIN given : given[i].turn # Turn

\* The last relevant event of a session is read by the updater, or a newer one
\* is, also when the queue overflows and when a request meets the timer as it
\* fires: the request waits, or the timer runs for it (Enqueue, run).
NewestIsKept ==
  unread # NoRequest =>
    \/ unread \in Range(queue)
    \/ unread = pending /\ timer \in {"armed", "fired"}
=============================================================================
