------------------------------- MODULE SSHConn -------------------------------
(***************************************************************************)
(* One SSHExecutor (remote/execenv/ssh.go) and the goroutines that share   *)
(* it: the commands that run over it, one keep-alive loop per connection,  *)
(* the recovery loop that is started when a connection is lost, and the    *)
(* controller, which closes it.  Connections are numbered in the order in  *)
(* which they are dialled; 0 is no connection.                             *)
(***************************************************************************)
EXTENDS Naturals

CONSTANTS
  Users,      \* goroutines that run a command, copy a file or open a shell
  MaxDials,   \* bound: connections that are ever established
  MaxRuns     \* bound: commands

Conns == 1 .. MaxDials
Issues == {"", "disconnected"}

Loops == {"alive", "recover"} \X Conns      \* the loops connection c gives rise to
Alive(c) == <<"alive", c>>
Recover(c) == <<"recover", c>>
Actors == Users \cup Loops

VARIABLES
  client,     \* the current connection
  handle,     \* what clientClose closes
  aliveStop,  \* the keep-alive loop that keepAliveStop stops
  recovery,   \* the recovery loop that recoveryStop stops
  closed,
  issue,      \* the last issue reported
  lock,       \* who holds reconnectMu
  pc, cl,     \* where each goroutine stands; the connection it has in hand
  after,      \* where a goroutine goes on after its reconnect
  open,       \* connections that are open on this side
  jumps,      \* connections whose jump host is still connected
  broken,     \* connections the network has dropped
  dials, runs

own == <<client, handle, aliveStop, recovery, closed>>
net == <<open, jumps, broken, dials>>
local == <<pc, cl, after>>
vars == <<own, issue, lock, local, net, runs>>

Nobody == <<"nobody", 0>>

ASSUME ActorsAssumption == Users \cap (Loops \cup {Nobody}) = {}
ASSUME BoundsAssumption == MaxDials \in Nat \ {0} /\ MaxRuns \in Nat

Places == {"none", "idle", "ensured", "opening", "reopened", "running", "nil",
           "lock", "dialing", "dialed", "replaced", "failed",
           "marked", "waiting", "asking", "lost", "unmarked"}

SSHTypeOK ==
  /\ client \in 0 .. MaxDials /\ handle \in 0 .. MaxDials
  /\ aliveStop \in 0 .. MaxDials /\ recovery \in 0 .. MaxDials
  /\ closed \in BOOLEAN /\ issue \in Issues
  /\ lock \in Actors \cup {Nobody}
  /\ pc \in [Actors -> Places] /\ cl \in [Actors -> 0 .. MaxDials]
  /\ after \in [Actors -> Places]
  /\ open \subseteq Conns /\ jumps \subseteq Conns /\ broken \subseteq Conns
  /\ dials \in 0 .. MaxDials /\ runs \in 0 .. MaxRuns

\* NewSSHExecutor has dialled and replaced no connection by the first.
Init ==
  /\ client = 1 /\ handle = 1 /\ aliveStop = 1 /\ recovery = 0 /\ closed = FALSE
  /\ issue = "" /\ lock = Nobody
  /\ pc = [a \in Actors |-> IF a \in Users THEN "idle"
                            ELSE IF a = Alive(1) THEN "waiting" ELSE "none"]
  /\ cl = [a \in Actors |-> IF a \in Users THEN 0 ELSE a[2]]
  /\ after = [a \in Actors |-> "none"]
  /\ open = {1} /\ jumps = {1} /\ broken = {} /\ dials = 1 /\ runs = 0

Go(a, place) == pc' = [pc EXCEPT ![a] = place]
Healthy(c) == c \in open \ broken

-----------------------------------------------------------------------------
(* Run, RunStreaming, CopyLocalFileToRemote and runInteractiveShell.       *)

Reconnect(u, back) ==
  /\ Go(u, "lock")
  /\ after' = [after EXCEPT ![u] = back]

\* ensureClient
Start(u) ==
  /\ pc[u] = "idle" /\ runs < MaxRuns
  /\ runs' = runs + 1
  /\ IF client # 0 THEN Go(u, "opening") /\ cl' = [cl EXCEPT ![u] = client] /\ UNCHANGED after
     ELSE IF closed THEN UNCHANGED local
     ELSE Reconnect(u, "ensured") /\ UNCHANGED cl
  /\ UNCHANGED <<own, issue, lock, net>>

\* A connection that was lost again since the reconnect is an error.
Ensured(u) ==
  /\ pc[u] = "ensured"
  /\ IF client = 0 THEN Go(u, "idle") /\ UNCHANGED cl
                   ELSE Go(u, "opening") /\ cl' = [cl EXCEPT ![u] = client]
  /\ UNCHANGED <<own, issue, lock, after, net, runs>>

Open(u) ==
  /\ pc[u] = "opening"
  /\ IF Healthy(cl[u]) THEN Go(u, "running") /\ UNCHANGED after ELSE Reconnect(u, "reopened")
  /\ UNCHANGED <<own, issue, lock, cl, net, runs>>

\* The current connection is used without another look at it: a command that
\* finds none calls a method of a nil client, and the program ends ("nil").
Reopen(u) ==
  /\ pc[u] = "reopened"
  /\ cl' = [cl EXCEPT ![u] = client]
  /\ Go(u, IF client = 0 THEN "nil" ELSE IF Healthy(client) THEN "running" ELSE "idle")
  /\ UNCHANGED <<own, issue, lock, after, net, runs>>

\* The command exits or is cancelled.
Finish(u) ==
  /\ pc[u] = "running"
  /\ Go(u, "idle")
  /\ UNCHANGED <<own, issue, lock, cl, after, net, runs>>

Lose(u) ==
  /\ pc[u] = "running" /\ ~Healthy(cl[u])
  /\ Reconnect(u, "idle")
  /\ UNCHANGED <<own, issue, lock, cl, net, runs>>

-----------------------------------------------------------------------------
(* reconnect, by a user or by the recovery loop.                           *)

TakeLock(a) ==
  /\ pc[a] = "lock" /\ lock = Nobody
  /\ IF closed THEN Go(a, "failed") /\ UNCHANGED lock
               ELSE Go(a, "dialing") /\ lock' = a
  /\ UNCHANGED <<own, issue, cl, after, net, runs>>

DialFails(a) ==
  /\ pc[a] = "dialing"
  /\ Go(a, "failed") /\ lock' = Nobody
  /\ UNCHANGED <<own, issue, cl, after, net, runs>>

Dial(a) ==
  /\ pc[a] = "dialing" /\ dials < MaxDials
  /\ dials' = dials + 1
  /\ open' = open \cup {dials + 1} /\ jumps' = jumps \cup {dials + 1}
  /\ Go(a, "dialed")
  /\ UNCHANGED <<own, issue, lock, cl, after, broken, runs>>

CloseConn(cs) == open' = open \ cs /\ jumps' = jumps \ cs

SetClientAnyway(a) ==
  /\ CloseConn({handle})
  /\ client' = dials /\ handle' = dials /\ aliveStop' = dials /\ recovery' = 0
  /\ pc' = [b \in Actors |-> IF b = a THEN "replaced"
                             ELSE IF b = Alive(dials) THEN "waiting" ELSE pc[b]]
  /\ UNCHANGED <<closed, lock>>

\* replaceClient: a closed executor takes no connection; the loops of the old
\* one are stopped, which they find when they look next.
SetClient(a) ==
  IF closed
  THEN CloseConn({dials}) /\ Go(a, "failed") /\ lock' = Nobody /\ UNCHANGED own
  ELSE /\ CloseConn({handle})
       /\ client' = dials /\ handle' = dials /\ aliveStop' = dials /\ recovery' = 0
       /\ pc' = [b \in Actors |-> IF b = a THEN "replaced"
                                  ELSE IF b = Alive(dials) THEN "waiting" ELSE pc[b]]
       /\ UNCHANGED <<closed, lock>>

Replace(a) ==
  /\ pc[a] = "dialed"
  /\ SetClient(a)
  /\ UNCHANGED <<issue, cl, after, broken, dials, runs>>

\* reportTransportIssue
ReportRecovery(a) ==
  /\ pc[a] = "replaced"
  /\ issue' = ""
  /\ Go(a, after[a]) /\ lock' = Nobody
  /\ UNCHANGED <<own, cl, after, net, runs>>

\* After a failure a command marks its connection as lost, unless it had
\* none; the recovery loop looks whether it was stopped.
UserFails(u) ==
  /\ u \in Users /\ pc[u] = "failed"
  /\ Go(u, IF after[u] = "ensured" THEN "idle" ELSE "lost")
  /\ after' = [after EXCEPT ![u] = "idle"]
  /\ UNCHANGED <<own, issue, lock, cl, net, runs>>

-----------------------------------------------------------------------------
(* markClientDisconnected and startRecoveryLoop, by a user or a keep-alive *)
(* loop.                                                                   *)

Back(a) == IF a \in Users THEN "idle" ELSE "none"

\* client.Close leaves the jump host connected; clientClose still has it.
DropClient(c) ==
  /\ client' = 0 /\ aliveStop' = 0
  /\ open' = open \ {c}
  /\ UNCHANGED <<handle, recovery, closed, jumps>>

Mark(a) ==
  /\ pc[a] = "lost"
  /\ IF client = cl[a] THEN DropClient(cl[a]) /\ Go(a, "marked")
                       ELSE Go(a, Back(a)) /\ UNCHANGED <<own, open, jumps>>
  /\ UNCHANGED <<issue, lock, cl, after, broken, dials, runs>>

ReportLoss(a) ==
  /\ pc[a] = "marked"
  /\ issue' = "disconnected"
  /\ Go(a, "unmarked")
  /\ UNCHANGED <<own, lock, cl, after, net, runs>>

StartRecoveryOnce(a) ==
  /\ pc[a] = "unmarked"
  /\ IF closed \/ client # 0 \/ recovery # 0 \/ \E c \in Conns : pc[Recover(c)] # "none"
     THEN Go(a, Back(a)) /\ UNCHANGED <<own, after>>
     ELSE /\ recovery' = cl[a]
          /\ pc' = [pc EXCEPT ![a] = Back(a), ![Recover(cl[a])] = "waiting"]
          /\ after' = [after EXCEPT ![Recover(cl[a])] = "none"]
          /\ UNCHANGED <<client, handle, aliveStop, closed>>
  /\ UNCHANGED <<issue, lock, cl, net, runs>>

StartRecovery(a) ==
  /\ pc[a] = "unmarked"
  /\ IF closed \/ client # 0 \/ recovery # 0
     THEN Go(a, Back(a)) /\ UNCHANGED <<own, after>>
     ELSE /\ recovery' = cl[a]
          /\ pc' = [pc EXCEPT ![a] = Back(a), ![Recover(cl[a])] = "waiting"]
          /\ after' = [after EXCEPT ![Recover(cl[a])] = "none"]
          /\ UNCHANGED <<client, handle, aliveStop, closed>>
  /\ UNCHANGED <<issue, lock, cl, net, runs>>

\* recoveryLoop: every few seconds, until it is stopped or succeeds.
Retry(c) ==
  /\ pc[Recover(c)] \in {"waiting", "failed"}
  /\ Go(Recover(c), IF recovery = c THEN "lock" ELSE "none")
  /\ UNCHANGED <<own, issue, lock, cl, after, net, runs>>

-----------------------------------------------------------------------------
(* keepAliveLoop                                                           *)

Tick(c) ==
  /\ pc[Alive(c)] = "waiting"
  /\ Go(Alive(c), IF aliveStop = c THEN "asking" ELSE "none")
  /\ UNCHANGED <<own, issue, lock, cl, after, net, runs>>

AnsweredUnsaid(c) ==
  /\ pc[Alive(c)] = "asking" /\ Healthy(c)
  /\ Go(Alive(c), "waiting")
  /\ UNCHANGED <<own, issue, lock, cl, after, net, runs>>

Answered(c) ==
  /\ pc[Alive(c)] = "asking" /\ Healthy(c)
  /\ issue' = ""
  /\ Go(Alive(c), "waiting")
  /\ UNCHANGED <<own, lock, cl, after, net, runs>>

\* A request without an answer closes the connection.
NotAnswered(c) ==
  /\ pc[Alive(c)] = "asking" /\ ~Healthy(c)
  /\ Go(Alive(c), IF aliveStop = c THEN "lost" ELSE "none")
  /\ UNCHANGED <<own, issue, lock, cl, after, net, runs>>

-----------------------------------------------------------------------------
(* The controller, SwitchToLocal, and the network.                         *)

Close ==
  /\ ~closed /\ closed' = TRUE
  /\ client' = 0 /\ handle' = 0 /\ aliveStop' = 0 /\ recovery' = 0
  /\ CloseConn({handle})
  /\ UNCHANGED <<issue, lock, local, broken, dials, runs>>

Break ==
  \E c \in open \ broken :
    /\ broken' = broken \cup {c}
    /\ UNCHANGED <<own, issue, lock, local, open, jumps, dials, runs>>

UserStep(u) ==
  \/ Ensured(u) \/ Open(u) \/ Reopen(u) \/ Lose(u) \/ UserFails(u)

ReconnectStep(a) == TakeLock(a) \/ DialFails(a) \/ Replace(a) \/ ReportRecovery(a)

MarkStep(a) == Mark(a) \/ ReportLoss(a) \/ StartRecovery(a)

User(u) == UserStep(u) \/ ReconnectStep(u) \/ MarkStep(u)
Recovery(c) == Retry(c) \/ ReconnectStep(Recover(c))
KeepAlive(c) == Tick(c) \/ Answered(c) \/ NotAnswered(c) \/ MarkStep(Alive(c))

Next ==
  \/ \E u \in Users : Start(u) \/ User(u) \/ Dial(u) \/ Finish(u)
  \/ \E c \in Conns : Recovery(c) \/ Dial(Recover(c)) \/ KeepAlive(c)
  \/ Close \/ Break

Spec == Init /\ [][Next]_vars

\* Every goroutine moves on; who waits for the lock again and again gets it
\* once, and a dial that is tried for ever succeeds once.
Fairness ==
  /\ \A u \in Users : WF_vars(User(u)) /\ SF_vars(TakeLock(u)) /\ SF_vars(Dial(u))
  /\ \A c \in Conns :
       /\ WF_vars(Recovery(c)) /\ SF_vars(TakeLock(Recover(c))) /\ SF_vars(Dial(Recover(c)))
       /\ WF_vars(KeepAlive(c))

FairSpec == Spec /\ Fairness

-----------------------------------------------------------------------------
\* No connection and no jump host is forgotten: open are the current one, the
\* jump host of a lost one until the next reconnect, and what has just been
\* dialled.  A closed executor has none, and takes none from a reconnect that
\* was under way (Close, replaceClient, markClientDisconnected).
InHand == {c \in Conns : c = dials /\ \E a \in Actors : pc[a] = "dialed"}
ClosedStaysClosed ==
  /\ closed => client = 0 /\ handle = 0
  /\ open \subseteq {client} \cup InHand /\ jumps \subseteq {handle} \cup InHand

\* A connection is watched as long as it is in use, and a lost one is looked
\* for: somebody is about to start the recovery loop, or it runs, or someone
\* else dials already.
Watched == client # 0 => pc[Alive(client)] \in {"waiting", "asking", "lost"}
Sought ==
  client = 0 /\ ~closed =>
    \/ \E a \in Actors : pc[a] \in {"marked", "unmarked"}
    \/ recovery # 0 /\ pc[Recover(recovery)] \in
         {"waiting", "failed", "lock", "dialing", "dialed"}
NobodyGivesUp == Watched /\ Sought

\* The status line does not say "disconnected" for ever over a connection that
\* works: a loss reported late is taken back by the keep-alive loop.
TroubleIsCleared == issue # "" /\ client # 0 ~> issue = "" \/ client = 0 \/ closed
=============================================================================
