---------------------------- MODULE SSHConn_proofs ----------------------------
(***************************************************************************)
(* Proofs about SSHConn, for any number of commands that share the         *)
(* executor, of connections and of drops: no connection is forgotten, none *)
(* is taken by a closed executor, and a lost one is always looked for.     *)
(***************************************************************************)
EXTENDS SSHConn, TLAPS

USE DEF vars, own, net, local
USE ActorsAssumption, BoundsAssumption

-----------------------------------------------------------------------------
(* The invariant.                                                          *)

\* Who has the lock, and who else may be where.
Reconnecting == {"dialing", "dialed", "replaced"}
Reaching == {"lock", "failed"} \cup Reconnecting
Marking == {"marked", "unmarked"}
Looking == {"waiting", "failed", "lock", "dialing", "dialed"}

\* reconnectMu is held from the dial to the report, by one goroutine.
LockInv == \A a \in Actors : pc[a] \in Reconnecting <=> lock = a

\* The loops keep to their code and to their connection.
AlivePlaces == {"none", "waiting", "asking", "lost"} \cup Marking
RecoverPlaces == {"none", "waiting"} \cup Reaching
PlacesInv ==
  \A c \in Conns :
    /\ pc[Alive(c)] \in AlivePlaces /\ pc[Recover(c)] \in RecoverPlaces
    /\ cl[Alive(c)] = c /\ cl[Recover(c)] = c /\ after[Recover(c)] = "none"

\* The keep-alive loop that would be stopped is that of the current connection,
\* and so is the connection that would be closed, as long as there is one.
OwnInv ==
  /\ aliveStop = client /\ (client # 0 => handle = client)
  /\ closed => client = 0 /\ handle = 0

\* A command that has lost its connection knows which.
Hand(u) ==
  /\ pc[u] \in {"opening", "running", "lost"} \cup Marking => cl[u] # 0
  /\ pc[u] \in Reaching => after[u] = "ensured" \/ (after[u] \in {"reopened", "idle"} /\ cl[u] # 0)
HandInv == \A u \in Users : Hand(u)

\* A connection that was just dialled is nobody's yet.
Dialed == \E a \in Actors : pc[a] = "dialed"
Used == IF Dialed THEN dials - 1 ELSE dials
FreshInv ==
  /\ dials # 0 /\ client <= Used
  /\ \A u \in Users : cl[u] <= Used
  /\ \A c \in Conns : c > Used => pc[Alive(c)] = "none" /\ pc[Recover(c)] = "none"

\* A connection is lost once: there is one goroutine that says so and one recovery
\* loop for it.
OnceInv ==
  /\ client # 0 => pc[Recover(client)] = "none"
  /\ \A a \in Actors : pc[a] \in Marking =>
       /\ cl[a] # client /\ pc[Recover(cl[a])] = "none"
       /\ \A b \in Actors : pc[b] \in Marking /\ cl[b] = cl[a] => b = a

\* A recovery loop that may be stopped runs; without a connection there is one, or
\* it is about to be started.
RecoveryInv ==
  /\ recovery # 0 => pc[Recover(recovery)] \in Looking
  /\ client = 0 /\ ~closed => recovery # 0 \/ \E a \in Actors : pc[a] \in Marking

SharedInv ==
  /\ LockInv /\ PlacesInv /\ OwnInv /\ HandInv /\ FreshInv /\ OnceInv /\ RecoveryInv
  /\ Watched /\ ClosedStaysClosed

-----------------------------------------------------------------------------
(* The goroutines and their steps.                                         *)

\* Goroutines are told apart by what they are and by their connection.
LEMMA ActorFacts ==
  /\ \A c \in Conns : Alive(c) \in Actors /\ Recover(c) \in Actors
  /\ \A c, d \in Conns : Alive(c) # Recover(d)
  /\ \A c, d \in Conns : c # d => Alive(c) # Alive(d) /\ Recover(c) # Recover(d)
  /\ \A u \in Users : u \in Actors /\ \A c \in Conns : u # Alive(c) /\ u # Recover(c)
  /\ \A a \in Actors : a \in Users \/ \E c \in Conns : a = Alive(c) \/ a = Recover(c)
  /\ Nobody \notin Actors
  <1>1. \A c \in Conns : Alive(c) \in Loops /\ Recover(c) \in Loops
    BY DEF Alive, Recover, Loops
  <1>2. \A c, d \in Conns : Alive(c) # Recover(d)
    BY DEF Alive, Recover
  <1>3. \A c, d \in Conns : c # d => Alive(c) # Alive(d) /\ Recover(c) # Recover(d)
    BY DEF Alive, Recover
  <1>4. \A a \in Loops : \E c \in Conns : a = Alive(c) \/ a = Recover(c)
    BY DEF Alive, Recover, Loops
  <1>5. Nobody \notin Loops
    BY DEF Nobody, Loops
  <1>6. QED
    BY <1>1, <1>2, <1>3, <1>4, <1>5 DEF Actors

\* The steps of Next by what they do.
LEMMA Steps ==
  ASSUME [Next]_vars
  PROVE  \/ \E u \in Users : Start(u) \/ UserStep(u) \/ Finish(u)
         \/ \E c \in Conns : Retry(c) \/ Tick(c) \/ Answered(c) \/ NotAnswered(c)
         \/ \E a \in Users \cup {Recover(c) : c \in Conns} : ReconnectStep(a) \/ Dial(a)
         \/ \E a \in Users \cup {Alive(c) : c \in Conns} : MarkStep(a)
         \/ Close \/ Break \/ UNCHANGED vars
  BY DEF Next, User, Recovery, KeepAlive

\* Connections and places are what they are.
LEMMA TypeStep == SSHTypeOK /\ [Next]_vars => SSHTypeOK'
  <1> SUFFICES ASSUME SSHTypeOK, [Next]_vars PROVE SSHTypeOK'
    OBVIOUS
  <1> USE DEF SSHTypeOK, Go, Places
  <1>1. ASSUME NEW u \in Users, Start(u) \/ UserStep(u) \/ Finish(u) PROVE SSHTypeOK'
    <2>1. CASE Start(u)
      BY <2>1 DEF Start, Reconnect
    <2>2. CASE Ensured(u) \/ Open(u) \/ Reopen(u)
      BY <2>2 DEF Ensured, Open, Reopen, Reconnect
    <2>3. CASE Lose(u) \/ UserFails(u) \/ Finish(u)
      BY <2>3 DEF Lose, UserFails, Finish, Reconnect
    <2>4. QED
      BY <1>1, <2>1, <2>2, <2>3 DEF UserStep
  <1>2. ASSUME NEW c \in Conns, Retry(c) \/ Tick(c) \/ Answered(c) \/ NotAnswered(c) PROVE SSHTypeOK'
    BY <1>2 DEF Retry, Tick, Answered, NotAnswered, Issues
  <1>3. ASSUME NEW a \in Actors, ReconnectStep(a) \/ Dial(a) PROVE SSHTypeOK'
    <2>1. CASE TakeLock(a) \/ DialFails(a)
      BY <2>1 DEF TakeLock, DialFails
    <2>2. CASE Dial(a)
      <3>1. dials' \in 0 .. MaxDials /\ dials + 1 \in Conns
        BY <2>2 DEF Dial, Conns
      <3>2. QED
        BY <2>2, <3>1 DEF Dial
    <2>3. CASE Replace(a)
      BY <2>3 DEF Replace, SetClient, CloseConn
    <2>4. CASE ReportRecovery(a)
      BY <2>4 DEF ReportRecovery, Issues
    <2>5. QED
      BY <1>3, <2>1, <2>2, <2>3, <2>4 DEF ReconnectStep
  <1>4. ASSUME NEW a \in Actors, MarkStep(a) PROVE SSHTypeOK'
    <2>1. CASE Mark(a)
      BY <2>1 DEF Mark, DropClient, Back
    <2>2. CASE ReportLoss(a)
      BY <2>2 DEF ReportLoss, Issues
    <2>3. CASE StartRecovery(a)
      BY <2>3 DEF StartRecovery, Back
    <2>4. QED
      BY <1>4, <2>1, <2>2, <2>3 DEF MarkStep
  <1>5. CASE Close
    BY <1>5 DEF Close, CloseConn
  <1>6. CASE Break
    BY <1>6 DEF Break
  <1>7. CASE UNCHANGED vars
    BY <1>7
  <1>8. \A c \in Conns : Alive(c) \in Actors /\ Recover(c) \in Actors
    BY ActorFacts
  <1>9. Users \subseteq Actors
    BY DEF Actors
  <1> HIDE DEF SSHTypeOK
  <1>10. QED
    BY <1>1, <1>2, <1>3, <1>4, <1>5, <1>6, <1>7, <1>8, <1>9, Steps

\* Before the first step.
LEMMA TypeInit == Init => SSHTypeOK
  <1> SUFFICES ASSUME Init PROVE SSHTypeOK
    OBVIOUS
  <1>1. 1 \in Conns
    BY DEF Conns
  <1>2. \A a \in Actors \ Users : a[2] \in Conns
    BY DEF Actors, Loops
  <1>3. cl \in [Actors -> 0 .. MaxDials]
    <2>1. \A a \in Actors : (IF a \in Users THEN 0 ELSE a[2]) \in 0 .. MaxDials
      BY <1>2 DEF Conns
    <2>2. QED
      BY <2>1 DEF Init
  <1>4. pc \in [Actors -> Places] /\ after \in [Actors -> Places]
    BY DEF Init, Places
  <1>5. 1 \in 0 .. MaxDials /\ 0 \in 0 .. MaxDials /\ 0 \in 0 .. MaxRuns
    OBVIOUS
  <1>6. QED
    BY <1>1, <1>3, <1>4, <1>5 DEF Init, SSHTypeOK, Issues

-----------------------------------------------------------------------------
(* One goroutine moves.                                                    *)

Only(a) == \A b \in Actors \ {a} : pc'[b] = pc[b] /\ cl'[b] = cl[b] /\ after'[b] = after[b]

\* A step of one goroutine that dials and replaces nothing, marks nothing and does not
\* leave what it should watch disturbs no connection.
LEMMA QuietStep ==
  ASSUME SSHTypeOK, SSHTypeOK', SharedInv, NEW a \in Actors, Only(a),
         UNCHANGED <<client, handle, aliveStop, closed, open, jumps, dials>>,
         UNCHANGED recovery,
         pc'[a] \in Reconnecting <=> lock' = a, lock' # lock => {lock, lock'} \subseteq {a, Nobody},
         pc[a] # "dialed", pc'[a] # "dialed", cl'[a] \in {cl[a], client},
         pc'[a] \in Marking => pc[a] \in Marking,
         pc[a] \in Marking => pc'[a] \in Marking \/ client # 0 \/ closed \/ recovery # 0,
         a \in Users => Hand(a)' /\ (pc'[a] \in Marking => cl'[a] = cl[a]),
         \A c \in Conns : a = Alive(c) =>
           /\ pc'[a] \in AlivePlaces /\ cl'[a] = c
           /\ pc[a] = "none" => pc'[a] = "none"
           /\ c = client => pc'[a] \in {"waiting", "asking", "lost"},
         \A c \in Conns : a = Recover(c) =>
           /\ pc'[a] \in RecoverPlaces /\ cl'[a] = c /\ after'[a] = "none"
           /\ pc[a] = "none" => pc'[a] = "none"
           /\ c = recovery => pc'[a] \in Looking
  PROVE  SharedInv'
  <1> USE DEF SharedInv
  <1>1. \A b \in Actors : b # a => pc'[b] = pc[b] /\ cl'[b] = cl[b]
    BY DEF Only
  <1>2. (Dialed' <=> Dialed) /\ Used' = Used
    BY <1>1 DEF Dialed, Used
  <1>3. OwnInv'
    BY DEF OwnInv
  <1>4. LockInv'
    <2>1. ASSUME NEW b \in Actors, b # a PROVE pc'[b] \in Reconnecting <=> lock' = b
      <3>1. lock = b <=> lock' = b
        BY <2>1, ActorFacts
      <3>2. QED
        BY <1>1, <2>1, <3>1 DEF LockInv
    <2>2. QED
      BY <2>1 DEF LockInv
  <1>5. PlacesInv'
    <2>1. ASSUME NEW c \in Conns
          PROVE  /\ pc'[Alive(c)] \in AlivePlaces /\ pc'[Recover(c)] \in RecoverPlaces
                 /\ cl'[Alive(c)] = c /\ cl'[Recover(c)] = c /\ after'[Recover(c)] = "none"
      <3>1. CASE a # Alive(c) /\ a # Recover(c)
        BY <3>1, ActorFacts DEF Only, PlacesInv
      <3>2. CASE a = Alive(c)
        BY <3>2, ActorFacts DEF Only, PlacesInv
      <3>3. CASE a = Recover(c)
        BY <3>3, ActorFacts DEF Only, PlacesInv
      <3>4. QED
        BY <3>1, <3>2, <3>3
    <2>2. QED
      BY <2>1 DEF PlacesInv
  <1>6. HandInv'
    BY DEF HandInv, Hand, Only, Actors
  <1>7. RecoveryInv'
    <2>1. recovery # 0 => pc'[Recover(recovery)] \in Looking
      <3>1. CASE recovery # 0
        <4>1. recovery \in Conns /\ pc[Recover(recovery)] \in Looking
          BY <3>1 DEF RecoveryInv, SSHTypeOK, Conns
        <4>2. QED
          BY <1>1, <4>1, ActorFacts
      <3>2. QED
        BY <3>1
    <2>2. client = 0 /\ ~closed => recovery # 0 \/ \E b \in Actors : pc'[b] \in Marking
      BY <1>1 DEF RecoveryInv
    <2>3. QED
      BY <2>1, <2>2 DEF RecoveryInv
  <1>8. \A c \in Conns : /\ pc[Alive(c)] = "none" => pc'[Alive(c)] = "none"
                         /\ pc[Recover(c)] = "none" => pc'[Recover(c)] = "none"
    BY <1>1, ActorFacts
  <1>9. \A u \in Users : cl'[u] \in {cl[u], client}
    BY <1>1 DEF Actors
  <1>10. FreshInv'
    BY <1>2, <1>8, <1>9 DEF FreshInv
  <1>11. \A b \in Actors : pc'[b] \in Marking => pc[b] \in Marking /\ cl'[b] = cl[b]
    BY <1>1, ActorFacts DEF PlacesInv
  <1>12. \A b \in Actors : pc[b] \in Marking => cl[b] \in Conns
    <2>1. ASSUME NEW b \in Actors, pc[b] \in Marking PROVE cl[b] \in Conns
      <3>1. CASE b \in Users
        BY <2>1, <3>1 DEF HandInv, Hand, SSHTypeOK, Conns
      <3>2. CASE \E c \in Conns : b = Alive(c) \/ b = Recover(c)
        BY <3>2 DEF PlacesInv
      <3>3. QED
        BY <3>1, <3>2, ActorFacts
    <2>2. QED
      BY <2>1
  <1>13. client # 0 => client \in Conns
    BY DEF SSHTypeOK, Conns
  <1>14. OnceInv'
    BY <1>8, <1>11, <1>12, <1>13 DEF OnceInv
  <1>15. Watched'
    <2>1. CASE client # 0 /\ a = Alive(client)
      BY <1>13, <2>1 DEF Watched
    <2>2. CASE client # 0 /\ a # Alive(client)
      BY <1>1, <1>13, <2>2, ActorFacts DEF Watched
    <2>3. CASE client = 0
      BY <2>3 DEF Watched
    <2>4. QED
      BY <2>1, <2>2, <2>3
  <1>16. ClosedStaysClosed'
    BY <1>2 DEF ClosedStaysClosed, InHand, Dialed
  <1>17. QED
    BY <1>3, <1>10, <1>14, <1>15, <1>16, <1>4, <1>5, <1>6, <1>7

\* A command on its way to a connection, over it, and off it.
LEMMA UserSteps ==
  ASSUME SSHTypeOK, SSHTypeOK', SharedInv, NEW u \in Users, Start(u) \/ UserStep(u) \/ Finish(u)
  PROVE  SharedInv'
  <1> USE DEF Go, Reconnect, SSHTypeOK
  <1>1. /\ UNCHANGED <<own, net, lock>>
        /\ pc[u] \in {"idle", "ensured", "opening", "reopened", "running", "failed"}
    BY DEF Start, UserStep, Finish, Ensured, Open, Reopen, Lose, UserFails
  <1>2. Only(u) /\ u \in Actors /\ \A c \in Conns : u # Alive(c) /\ u # Recover(c)
    <2>1. u \in Actors /\ \A c \in Conns : u # Alive(c) /\ u # Recover(c)
      BY ActorFacts
    <2>2. Only(u)
      BY DEF Only, Start, UserStep, Finish, Ensured, Open, Reopen, Lose, UserFails
    <2>3. QED
      BY <2>1, <2>2
  <1>3. Hand(u)
    BY DEF SharedInv, HandInv
  <1>4. /\ pc'[u] \in {"idle", "opening", "running", "nil", "lock", "lost"}
        /\ cl'[u] \in {cl[u], client}
    BY <1>2 DEF Start, UserStep, Finish, Ensured, Open, Reopen, Lose, UserFails
  <1>5. Hand(u)'
    BY <1>1, <1>2, <1>3 DEF Hand, Reaching, Reconnecting, Marking, Healthy, Conns, Start, UserStep,
       Finish, Ensured, Open, Reopen, Lose, UserFails
  <1>6. lock # u
    BY <1>1, <1>2 DEF SharedInv, LockInv, Reconnecting
  <1> HIDE DEF SSHTypeOK
  <1>7. pc[u] \notin Marking \cup {"dialed"} /\ pc'[u] \notin Marking \cup Reconnecting \cup {"dialed"}
    BY <1>1, <1>4 DEF Marking, Reconnecting
  <1>8. QED
    BY <1>1, <1>2, <1>4, <1>5, <1>6, <1>7, QuietStep

\* A keep-alive loop asks; a recovery loop waits for its next try.
LEMMA LoopSteps ==
  ASSUME SSHTypeOK, SSHTypeOK', SharedInv, NEW c \in Conns,
         Retry(c) \/ Tick(c) \/ Answered(c) \/ NotAnswered(c)
  PROVE  SharedInv'
  <1> USE DEF Go, SSHTypeOK
  <1>1. UNCHANGED <<own, net, lock, cl, after>>
    BY DEF Retry, Tick, Answered, NotAnswered
  <1>2. /\ Alive(c) \in Actors /\ Recover(c) \in Actors /\ Alive(c) \notin Users /\ Recover(c) \notin Users
        /\ \A d \in Conns : /\ Alive(c) # Recover(d) /\ Recover(c) # Alive(d)
                            /\ Alive(c) = Alive(d) => c = d
                            /\ Recover(c) = Recover(d) => c = d
    BY ActorFacts
  <1>3. /\ cl[Alive(c)] = c /\ cl[Recover(c)] = c /\ after[Recover(c)] = "none"
        /\ aliveStop = client
    BY DEF SharedInv, PlacesInv, OwnInv
  <1>4. CASE Retry(c)
    <2> DEFINE a == Recover(c)
    <2>1. /\ pc[a] \in {"waiting", "failed"} /\ pc' = [pc EXCEPT ![a] = IF recovery = c THEN "lock" ELSE "none"]
      BY <1>4 DEF Retry
    <2>2. pc'[a] = (IF recovery = c THEN "lock" ELSE "none") /\ Only(a)
      BY <1>1, <1>2, <2>1 DEF Only
    <2>3. /\ pc[a] \notin Marking \cup Reconnecting /\ pc'[a] \notin Marking \cup Reconnecting
          /\ pc'[a] \in RecoverPlaces /\ pc[a] # "dialed" /\ pc'[a] # "dialed" /\ pc[a] # "none"
          /\ (c = recovery => pc'[a] \in Looking)
      BY <2>1, <2>2 DEF Marking, Reconnecting, RecoverPlaces, Reaching, Looking
    <2>4. lock # a
      BY <1>2, <2>3 DEF SharedInv, LockInv
    <2> HIDE DEF SSHTypeOK
    <2>5. QED
      BY <1>1, <1>2, <1>3, <2>2, <2>3, <2>4, QuietStep
  <1>5. CASE Tick(c) \/ Answered(c) \/ NotAnswered(c)
    <2> DEFINE a == Alive(c)
    <2>1. /\ pc[a] \in {"waiting", "asking"} /\ pc' = [pc EXCEPT ![a] = pc'[a]]
          /\ pc'[a] \in {"none", "waiting", "asking", "lost"}
          /\ (aliveStop = c => pc'[a] # "none")
      BY <1>2, <1>5 DEF Tick, Answered, NotAnswered
    <2>2. Only(a)
      BY <1>1, <1>2, <2>1 DEF Only
    <2>3. /\ pc[a] \notin Marking \cup Reconnecting /\ pc'[a] \notin Marking \cup Reconnecting
          /\ pc'[a] \in AlivePlaces /\ pc[a] # "dialed" /\ pc'[a] # "dialed" /\ pc[a] # "none"
          /\ (c = client => pc'[a] \in {"waiting", "asking", "lost"})
      BY <1>3, <2>1 DEF Marking, Reconnecting, AlivePlaces
    <2>4. lock # a
      BY <1>2, <2>3 DEF SharedInv, LockInv
    <2> HIDE DEF SSHTypeOK
    <2>5. QED
      BY <1>1, <1>2, <1>3, <2>2, <2>3, <2>4, QuietStep
  <1>6. QED
    BY <1>4, <1>5

\* The lock is taken, given back by a failed dial and by a report.
LEMMA LockSteps ==
  ASSUME SSHTypeOK, SSHTypeOK', SharedInv, NEW a \in Users \cup {Recover(c) : c \in Conns},
         TakeLock(a) \/ DialFails(a) \/ ReportRecovery(a)
  PROVE  SharedInv'
  <1> USE DEF Go, SSHTypeOK
  <1>1. UNCHANGED <<own, net, cl, after>>
    BY DEF TakeLock, DialFails, ReportRecovery
  <1>2. /\ a \in Actors /\ \A c \in Conns : a # Alive(c)
        /\ \A c \in Conns : a = Recover(c) => a \notin Users
        /\ a \in Users \/ \E c \in Conns : a = Recover(c)
    BY ActorFacts
  <1>3. Only(a)
    BY <1>1, <1>2 DEF Only, TakeLock, DialFails, ReportRecovery
  <1>4. /\ a \in Users => Hand(a)
        /\ \A c \in Conns : a = Recover(c) => cl[a] = c /\ after[a] = "none"
        /\ \A c \in Conns : c = recovery => pc[Recover(c)] # "replaced"
        /\ pc[a] \in Reconnecting <=> lock = a
    <2>1. \A c \in Conns : c = recovery => pc[Recover(c)] # "replaced"
      BY DEF SharedInv, RecoveryInv, Looking, Conns
    <2>2. QED
      BY <1>2, <2>1 DEF SharedInv, HandInv, PlacesInv, LockInv
  <1>5. /\ pc[a] \in {"lock", "dialing", "replaced"}
        /\ pc' = [pc EXCEPT ![a] = pc'[a]]
        /\ pc[a] # "replaced" => pc'[a] \in {"failed", "dialing"}
        /\ pc[a] = "replaced" => pc'[a] = after[a]
    BY <1>2 DEF TakeLock, DialFails, ReportRecovery
  <1>6. a \in Users => Hand(a)' /\ pc'[a] \notin Marking
    BY <1>1, <1>4, <1>5 DEF Hand, Reaching, Reconnecting, Marking
  <1>7. pc[a] \notin Marking /\ pc'[a] \notin Marking /\ pc[a] # "dialed" /\ pc'[a] # "dialed" /\ pc[a] # "none"
    BY <1>2, <1>4, <1>5 DEF Hand, Marking, Reaching, Reconnecting
  <1>8. /\ pc'[a] \in Reconnecting <=> lock' = a
        /\ lock' # lock => {lock, lock'} \subseteq {a, Nobody}
    <2>1. a # Nobody
      BY <1>2, ActorFacts
    <2>2. CASE TakeLock(a)
      BY <1>2, <2>1, <2>2 DEF TakeLock, Reconnecting
    <2>3. CASE DialFails(a)
      BY <1>2, <1>4, <2>1, <2>3 DEF DialFails, Reconnecting
    <2>4. CASE ReportRecovery(a)
      BY <1>2, <1>4, <2>1, <2>4 DEF ReportRecovery, Reconnecting, Hand, Reaching
    <2>5. QED
      BY <2>2, <2>3, <2>4
  <1>9. \A c \in Conns : a = Recover(c) =>
          /\ pc'[a] \in RecoverPlaces /\ cl'[a] = c /\ after'[a] = "none"
          /\ c = recovery => pc'[a] \in Looking
    BY <1>1, <1>4, <1>5 DEF RecoverPlaces, Reaching, Reconnecting, Looking
  <1> HIDE DEF SSHTypeOK
  <1>10. QED
    BY <1>1, <1>2, <1>3, <1>6, <1>7, <1>8, <1>9, QuietStep

\* The goroutine that finds its connection lost: it says so once, and sees to it that
\* somebody looks for a new one.
LEMMA MarkSteps ==
  ASSUME SSHTypeOK, SSHTypeOK', SharedInv, NEW a \in Users \cup {Alive(c) : c \in Conns}, MarkStep(a)
  PROVE  SharedInv'
  <1> USE DEF Go
  <1>1. /\ pc \in [Actors -> Places] /\ cl \in [Actors -> 0 .. MaxDials]
        /\ pc' \in [Actors -> Places] /\ after \in [Actors -> Places]
        /\ client \in 0 .. MaxDials /\ recovery \in 0 .. MaxDials
    BY DEF SSHTypeOK
  <1>2. /\ a \in Actors /\ \A c \in Conns : a # Recover(c)
        /\ \A c \in Conns : a = Alive(c) => a \notin Users
        /\ a \in Users \/ \E c \in Conns : a = Alive(c)
        /\ \A c, d \in Conns : Alive(c) = Alive(d) => c = d
    BY ActorFacts
  <1>3. UNCHANGED <<lock, cl, closed, handle, jumps, dials>> /\ pc[a] \in {"lost", "marked", "unmarked"}
    BY DEF MarkStep, Mark, DropClient, ReportLoss, StartRecovery
  <1>4. cl[a] \in Conns
    <2>1. CASE a \in Users
      <3>1. pc[a] \in {"opening", "running", "lost"} \cup Marking
        BY <1>3 DEF Marking
      <3>2. QED
        BY <1>1, <1>2, <2>1, <3>1 DEF SharedInv, HandInv, Hand, Conns
    <2>2. CASE \E c \in Conns : a = Alive(c)
      BY <2>2 DEF SharedInv, PlacesInv
    <2>3. QED
      BY <1>2, <2>1, <2>2
  <1>5. /\ \A c \in Conns : a = Alive(c) => cl[a] = c /\ (c = client => pc[a] = "lost")
        /\ lock # a
    <2>1. \A c \in Conns : a = Alive(c) => cl[a] = c /\ (c = client => pc[a] = "lost")
      BY <1>3, <1>4 DEF SharedInv, PlacesInv, Watched, Conns
    <2>2. QED
      BY <1>2, <1>3, <2>1 DEF SharedInv, LockInv, Reconnecting
  <1>6. ASSUME pc' = [pc EXCEPT ![a] = pc'[a]], UNCHANGED <<own, open, after>>,
               pc'[a] \in {"unmarked", Back(a)},
               pc'[a] = "unmarked" => pc[a] \in Marking,
               pc[a] \in Marking => pc'[a] \in Marking \/ client # 0 \/ closed \/ recovery # 0,
               \A c \in Conns : a = Alive(c) => c # client
        PROVE  SharedInv'
    <2>1. Only(a)
      BY <1>1, <1>2, <1>3, <1>6 DEF Only
    <2>2. pc'[a] \in {"unmarked", "idle", "none"} /\ (a \in Users => pc'[a] \in {"unmarked", "idle"})
      BY <1>6 DEF Back
    <2>3. a \in Users => Hand(a)'
      BY <1>3, <1>4, <2>2 DEF Hand, Reaching, Reconnecting, Conns
    <2>4. /\ pc[a] # "dialed" /\ pc'[a] # "dialed" /\ pc[a] # "none"
          /\ pc'[a] \notin Reconnecting /\ (pc'[a] \in Marking => pc[a] \in Marking)
      BY <1>3, <1>6, <2>2 DEF Reconnecting, Marking
    <2>5. \A c \in Conns : a = Alive(c) => pc'[a] \in AlivePlaces
      BY <1>2, <1>6 DEF AlivePlaces, Marking, Back
    <2>6. QED
      BY <1>2, <1>3, <1>5, <1>6, <2>1, <2>3, <2>4, <2>5, QuietStep
  <1>7. CASE ReportLoss(a)
    <2>1. /\ pc' = [pc EXCEPT ![a] = pc'[a]] /\ UNCHANGED <<own, open, after>>
          /\ pc[a] = "marked" /\ pc'[a] = "unmarked"
      BY <1>1, <1>2, <1>7 DEF ReportLoss
    <2>2. QED
      BY <1>5, <1>6, <2>1 DEF Marking
  <1>8. CASE Mark(a) /\ client # cl[a]
    <2>1. /\ pc' = [pc EXCEPT ![a] = pc'[a]] /\ UNCHANGED <<own, open, after>>
          /\ pc[a] = "lost" /\ pc'[a] = Back(a)
      BY <1>1, <1>2, <1>8 DEF Mark
    <2>2. pc[a] \notin Marking /\ pc'[a] # "unmarked"
      BY <2>1 DEF Marking, Back
    <2>3. QED
      BY <1>5, <1>6, <1>8, <2>1, <2>2
  <1>9. CASE StartRecovery(a) /\ (closed \/ client # 0 \/ recovery # 0)
    <2>1. /\ pc' = [pc EXCEPT ![a] = pc'[a]] /\ UNCHANGED <<own, open, after>>
          /\ pc[a] = "unmarked" /\ pc'[a] = Back(a)
      BY <1>1, <1>2, <1>9 DEF StartRecovery
    <2>2. pc'[a] # "unmarked"
      BY <2>1 DEF Back
    <2>3. QED
      BY <1>5, <1>6, <1>9, <2>1, <2>2
  <1>10. CASE Mark(a) /\ client = cl[a]
    <2>1. /\ client' = 0 /\ aliveStop' = 0 /\ open' = open \ {client} /\ UNCHANGED <<recovery, after>>
          /\ pc[a] = "lost" /\ pc'[a] = "marked"
          /\ \A b \in Actors \ {a} : pc'[b] = pc[b]
          /\ client \in Conns
      BY <1>1, <1>2, <1>4, <1>10 DEF Mark, DropClient
    <2>2. (Dialed' <=> Dialed) /\ Used' = Used
      BY <1>3, <2>1 DEF Dialed, Used
    <2>3. LockInv'
      BY <1>3, <1>5, <2>1 DEF SharedInv, LockInv, Reconnecting
    <2>4. PlacesInv'
      <3>1. ASSUME NEW c \in Conns
            PROVE  pc'[Alive(c)] \in AlivePlaces /\ pc'[Recover(c)] \in RecoverPlaces
        <4>1. pc'[Recover(c)] = pc[Recover(c)] /\ pc'[Alive(c)] \in {pc[Alive(c)], "marked"}
          BY <1>2, <2>1, ActorFacts
        <4>2. QED
          BY <4>1 DEF SharedInv, PlacesInv, AlivePlaces, Marking
      <3>2. QED
        BY <1>3, <2>1, <3>1 DEF SharedInv, PlacesInv
    <2>5. OwnInv'
      BY <1>3, <2>1 DEF SharedInv, OwnInv, Conns
    <2>6. HandInv'
      <3>1. ASSUME NEW u \in Users PROVE Hand(u)'
        <4>1. u \in Actors /\ Hand(u) /\ (u = a => cl[u] # 0)
          BY <1>4 DEF SharedInv, HandInv, Actors, Conns
        <4>2. u = a \/ pc'[u] = pc[u]
          BY <2>1, <4>1
        <4>3. QED
          BY <1>3, <2>1, <4>1, <4>2 DEF Hand, Marking, Reaching, Reconnecting
      <3>2. QED
        BY <3>1 DEF HandInv
    <2>7. FreshInv'
      <3>1. client <= Used /\ Used \in Nat /\ dials # 0
        BY <2>1 DEF SharedInv, FreshInv, Used, SSHTypeOK, Conns
      <3>2. ASSUME NEW c \in Conns, c > Used PROVE pc'[Alive(c)] = "none" /\ pc'[Recover(c)] = "none"
        <4>1. pc[Alive(c)] = "none" /\ pc[Recover(c)] = "none"
          BY <3>2 DEF SharedInv, FreshInv
        <4>2. QED
          BY <1>2, <2>1, <4>1, ActorFacts
      <3>3. \A u \in Users : cl[u] <= Used
        BY DEF SharedInv, FreshInv
      <3>4. 0 <= Used
        BY <3>1
      <3>5. QED
        BY <1>3, <2>1, <2>2, <3>1, <3>2, <3>3, <3>4 DEF FreshInv
    <2>8. OnceInv'
      <3>1. pc[Recover(client)] = "none" /\ \A b \in Actors : pc[b] \in Marking => cl[b] # client
        BY <2>1 DEF SharedInv, OnceInv, Conns
      <3>2. \A c \in Conns : pc'[Recover(c)] = pc[Recover(c)]
        BY <1>2, <2>1, ActorFacts
      <3>3. ASSUME NEW b \in Actors, pc[b] \in Marking PROVE cl[b] \in Conns
        <4>1. CASE b \in Users
          BY <1>1, <3>3, <4>1 DEF SharedInv, HandInv, Hand, Conns
        <4>2. CASE \E c \in Conns : b = Alive(c) \/ b = Recover(c)
          BY <4>2 DEF SharedInv, PlacesInv
        <4>3. QED
          BY <4>1, <4>2, ActorFacts
      <3>4. ASSUME NEW b \in Actors, pc'[b] \in Marking
            PROVE  /\ cl[b] # 0 /\ pc'[Recover(cl[b])] = "none"
                   /\ \A d \in Actors : pc'[d] \in Marking /\ cl[d] = cl[b] => d = b
        <4>1. CASE b = a
          BY <1>4, <1>10, <2>1, <3>1, <3>2, <4>1 DEF Conns
        <4>2. CASE b # a
          <5>1. pc[b] \in Marking /\ cl[b] \in Conns
            BY <2>1, <3>3, <3>4, <4>2
          <5>2. cl[b] # 0 /\ pc'[Recover(cl[b])] = "none"
            BY <3>2, <5>1 DEF SharedInv, OnceInv, Conns
          <5>3. ASSUME NEW d \in Actors, pc'[d] \in Marking, cl[d] = cl[b] PROVE d = b
            <6>1. d # a
              BY <1>10, <3>1, <5>1, <5>3
            <6>2. QED
              BY <2>1, <5>1, <5>3, <6>1 DEF SharedInv, OnceInv
          <5>4. QED
            BY <5>2, <5>3
        <4>3. QED
          BY <4>1, <4>2
      <3>5. QED
        BY <1>3, <2>1, <3>4 DEF OnceInv
    <2>9. RecoveryInv'
      <3>1. recovery # 0 => pc'[Recover(recovery)] \in Looking
        <4>1. recovery # 0 => recovery \in Conns /\ pc[Recover(recovery)] \in Looking
          BY <1>1 DEF SharedInv, RecoveryInv, Conns
        <4>2. QED
          BY <1>2, <2>1, <4>1, ActorFacts
      <3>2. \E b \in Actors : pc'[b] \in Marking
        BY <1>2, <2>1 DEF Marking
      <3>3. QED
        BY <2>1, <3>1, <3>2 DEF RecoveryInv
    <2>10. Watched' /\ ClosedStaysClosed'
      BY <1>3, <2>1, <2>2 DEF SharedInv, OwnInv, Watched, ClosedStaysClosed, InHand, Dialed
    <2>11. QED
      BY <2>3, <2>4, <2>5, <2>6, <2>7, <2>8, <2>9, <2>10 DEF SharedInv
  <1>11. CASE StartRecovery(a) /\ ~(closed \/ client # 0 \/ recovery # 0)
    <2> DEFINE r == Recover(cl[a])
    <2>1. /\ UNCHANGED <<client, handle, aliveStop, closed, open>> /\ recovery' = cl[a] /\ client = 0
          /\ pc[a] = "unmarked" /\ r \in Actors /\ r # a /\ r \notin Users
      BY <1>2, <1>4, <1>11, ActorFacts DEF StartRecovery
    <2>2. /\ pc' = [pc EXCEPT ![a] = Back(a), ![r] = "waiting"]
          /\ after' = [after EXCEPT ![r] = "none"]
      BY <1>11 DEF StartRecovery
    <2>3. /\ pc'[a] = Back(a) /\ pc'[r] = "waiting" /\ after'[r] = "none"
          /\ \A b \in Actors \ {a, r} : pc'[b] = pc[b]
          /\ \A b \in Actors \ {r} : after'[b] = after[b]
      BY <1>1, <1>2, <2>1, <2>2
    <2>4. /\ pc[r] = "none" /\ \A b \in Actors \ {a} : pc[b] \in Marking => cl[b] # cl[a]
          /\ pc'[a] \in {"idle", "none"} /\ (a \in Users => pc'[a] = "idle")
      BY <1>2, <2>1, <2>3 DEF SharedInv, OnceInv, Marking, Back
    <2> HIDE DEF r
    <2>5. (Dialed' <=> Dialed) /\ Used' = Used
      <3>1. \A b \in Actors : pc'[b] = "dialed" <=> pc[b] = "dialed"
        BY <2>1, <2>3, <2>4
      <3>2. QED
        BY <1>3, <3>1 DEF Dialed, Used
    <2>6. LockInv'
      <3>1. lock # r
        BY <2>1, <2>4 DEF SharedInv, LockInv, Reconnecting
      <3>2. QED
        BY <1>3, <1>5, <2>1, <2>3, <2>4, <3>1 DEF SharedInv, LockInv, Reconnecting
    <2>7. PlacesInv'
      <3>1. ASSUME NEW c \in Conns
            PROVE  /\ pc'[Alive(c)] \in AlivePlaces /\ pc'[Recover(c)] \in RecoverPlaces
                   /\ after'[Recover(c)] = "none"
        <4>1. Alive(c) # r /\ Alive(c) \in Actors /\ Recover(c) \in Actors /\ Recover(c) # a
          BY <1>2, <1>4, ActorFacts DEF r
        <4>2. pc'[Alive(c)] \in {pc[Alive(c)], "none", "idle"} /\ (Alive(c) = a => pc'[Alive(c)] = "none")
          BY <1>2, <2>3, <2>4, <4>1, ActorFacts DEF Back
        <4>3. pc'[Alive(c)] \in AlivePlaces
          BY <2>3, <4>1, <4>2 DEF SharedInv, PlacesInv, AlivePlaces
        <4>4. pc'[Recover(c)] \in {pc[Recover(c)], "waiting"} /\ after'[Recover(c)] = "none"
          BY <2>3, <4>1 DEF SharedInv, PlacesInv
        <4>5. QED
          BY <4>3, <4>4 DEF SharedInv, PlacesInv, RecoverPlaces
      <3>2. QED
        BY <1>3, <3>1 DEF SharedInv, PlacesInv
    <2>8. OwnInv'
      BY <2>1 DEF SharedInv, OwnInv
    <2>9. HandInv'
      <3>1. ASSUME NEW u \in Users PROVE Hand(u)'
        <4>1. u \in Actors /\ Hand(u) /\ u # r
          BY <2>1 DEF SharedInv, HandInv, Actors
        <4>2. after'[u] = after[u] /\ (pc'[u] = "idle" \/ pc'[u] = pc[u])
          BY <2>3, <2>4, <4>1
        <4>3. QED
          BY <1>3, <4>1, <4>2 DEF Hand, Marking, Reaching, Reconnecting
      <3>2. QED
        BY <3>1 DEF HandInv
    <2>10. FreshInv'
      <3>1. \A u \in Users : cl[u] <= Used
        BY DEF SharedInv, FreshInv
      <3>2. cl[a] <= Used
        <4>1. CASE a \in Users
          BY <3>1, <4>1
        <4>2. ASSUME NEW c \in Conns, a = Alive(c) PROVE cl[a] <= Used
          <5>1. cl[a] = c /\ ~(c > Used)
            BY <1>5, <2>1, <4>2 DEF SharedInv, FreshInv
          <5>2. QED
            BY <5>1 DEF Conns, Used, SSHTypeOK
        <4>3. QED
          BY <1>2, <4>1, <4>2
      <3>3. ASSUME NEW c \in Conns, c > Used PROVE pc'[Alive(c)] = "none" /\ pc'[Recover(c)] = "none"
        <4>1. pc[Alive(c)] = "none" /\ pc[Recover(c)] = "none"
          BY <3>3 DEF SharedInv, FreshInv
        <4>2. c # cl[a]
          BY <1>4, <3>2, <3>3 DEF Conns, Used, SSHTypeOK
        <4>3. Recover(c) # r /\ Recover(c) # a /\ Alive(c) # r /\ Alive(c) # a /\ Alive(c) \in Actors
              /\ Recover(c) \in Actors
          BY <1>2, <1>4, <2>1, <4>1, <4>2, ActorFacts DEF r
        <4>4. QED
          BY <2>3, <4>1, <4>3
      <3>4. QED
        BY <1>3, <2>1, <2>5, <3>1, <3>3 DEF SharedInv, FreshInv
    <2>11. OnceInv'
      <3>1. ASSUME NEW b \in Actors, pc'[b] \in Marking
            PROVE  /\ cl[b] # 0 /\ pc'[Recover(cl[b])] = "none"
                   /\ \A d \in Actors : pc'[d] \in Marking /\ cl[d] = cl[b] => d = b
        <4>1. \A d \in Actors : pc'[d] \in Marking => pc[d] \in Marking /\ d # a
          BY <2>1, <2>3, <2>4 DEF Marking
        <4>2. /\ pc[Recover(cl[b])] = "none" /\ cl[b] # 0 /\ cl[b] # cl[a]
              /\ \A d \in Actors : pc[d] \in Marking /\ cl[d] = cl[b] => d = b
          BY <2>1, <2>4, <3>1, <4>1 DEF SharedInv, OnceInv
        <4>3. cl[b] \in Conns
          BY <1>1, <4>2 DEF Conns
        <4>4. Recover(cl[b]) \in Actors /\ Recover(cl[b]) # r /\ Recover(cl[b]) # a
          BY <1>2, <1>4, <4>2, <4>3, ActorFacts DEF r
        <4>5. QED
          BY <2>3, <4>1, <4>2, <4>4
      <3>2. QED
        BY <1>3, <2>1, <3>1 DEF OnceInv
    <2>12. RecoveryInv'
      BY <1>4, <2>1, <2>3 DEF RecoveryInv, Looking, Conns, r
    <2>13. Watched' /\ ClosedStaysClosed'
      BY <1>3, <2>1, <2>5 DEF SharedInv, Watched, ClosedStaysClosed, InHand, Dialed
    <2>14. QED
      BY <2>6, <2>7, <2>8, <2>9, <2>10, <2>11, <2>12, <2>13 DEF SharedInv
  <1>12. QED
    BY <1>7, <1>8, <1>9, <1>10, <1>11 DEF MarkStep

\* A connection is dialled under the lock.
LEMMA DialStep ==
  ASSUME SSHTypeOK, SSHTypeOK', SharedInv, NEW a \in Users \cup {Recover(c) : c \in Conns}, Dial(a)
  PROVE  SharedInv'
  <1>1. /\ a \in Actors /\ \A c \in Conns : a # Alive(c)
        /\ a \in Users \/ \E c \in Conns : a = Recover(c)
    BY ActorFacts
  <1>2. /\ pc \in [Actors -> Places] /\ client \in 0 .. MaxDials /\ recovery \in 0 .. MaxDials
        /\ dials \in Nat /\ cl \in [Actors -> 0 .. MaxDials] /\ open \subseteq Conns /\ jumps \subseteq Conns
    BY DEF SSHTypeOK
  <1>3. /\ UNCHANGED <<own, lock, cl, after>> /\ pc[a] = "dialing" /\ pc'[a] = "dialed"
        /\ \A b \in Actors \ {a} : pc'[b] = pc[b]
        /\ dials' = dials + 1 /\ dials + 1 \in Conns
        /\ open' = open \cup {dials + 1} /\ jumps' = jumps \cup {dials + 1}
    BY <1>1, <1>2 DEF Dial, Go, Conns
  <1>4. ~Dialed /\ Dialed' /\ Used = dials /\ Used' = Used
    <2>1. ~Dialed
      BY <1>1, <1>3 DEF SharedInv, LockInv, Reconnecting, Dialed
    <2>2. Dialed'
      BY <1>1, <1>3 DEF Dialed
    <2>3. QED
      BY <1>2, <1>3, <2>1, <2>2 DEF Used
  <1>5. LockInv'
    BY <1>1, <1>3 DEF SharedInv, LockInv, Reconnecting
  <1>6. \A c \in Conns : /\ pc'[Alive(c)] = pc[Alive(c)]
                         /\ pc'[Recover(c)] = (IF a = Recover(c) THEN "dialed" ELSE pc[Recover(c)])
    BY <1>1, <1>3, ActorFacts
  <1>7. PlacesInv'
    BY <1>3, <1>6 DEF SharedInv, PlacesInv, RecoverPlaces, Reaching, Reconnecting
  <1>8. OwnInv'
    BY <1>3 DEF SharedInv, OwnInv
  <1>9. HandInv'
    <2>1. ASSUME NEW u \in Users PROVE Hand(u)'
      <3>1. u \in Actors /\ Hand(u)
        BY DEF SharedInv, HandInv, Actors
      <3>2. u # a => pc'[u] = pc[u]
        BY <1>3, <3>1
      <3>3. QED
        BY <1>3, <3>1, <3>2 DEF Hand, Marking, Reaching, Reconnecting
    <2>2. QED
      BY <2>1 DEF HandInv
  <1>10. \A c \in Conns : pc[Recover(c)] = "none" => pc'[Recover(c)] = "none"
    BY <1>3, <1>6
  <1>11. FreshInv'
    <2>1. dials' # 0
      BY <1>2, <1>3
    <2>2. QED
      BY <1>3, <1>4, <1>6, <1>10, <2>1 DEF SharedInv, FreshInv
  <1>12. OnceInv'
    <2>1. \A b \in Actors : pc'[b] \in Marking <=> pc[b] \in Marking
      BY <1>3 DEF Marking
    <2>2. ASSUME NEW b \in Actors, pc[b] \in Marking PROVE cl[b] \in Conns
      <3>1. CASE b \in Users
        BY <1>2, <2>2, <3>1 DEF SharedInv, HandInv, Hand, Conns, Actors
      <3>2. CASE \E c \in Conns : b = Alive(c) \/ b = Recover(c)
        BY <3>2 DEF SharedInv, PlacesInv
      <3>3. QED
        BY <3>1, <3>2, ActorFacts
    <2>3. client # 0 => client \in Conns
      BY <1>2 DEF Conns
    <2>4. QED
      BY <1>3, <1>10, <2>1, <2>2, <2>3 DEF SharedInv, OnceInv
  <1>13. RecoveryInv'
    <2>1. recovery # 0 => recovery \in Conns
      BY <1>2 DEF Conns
    <2>2. \A c \in Conns : pc[Recover(c)] \in Looking => pc'[Recover(c)] \in Looking
      BY <1>6 DEF Looking
    <2>3. \A b \in Actors : pc[b] \in Marking => pc'[b] \in Marking
      BY <1>3 DEF Marking
    <2>4. QED
      BY <1>3, <2>1, <2>2, <2>3 DEF SharedInv, RecoveryInv
  <1>14. Watched'
    BY <1>2, <1>3, <1>6 DEF SharedInv, Watched, Conns
  <1>15. ClosedStaysClosed'
    <2>1. InHand = {} /\ InHand' = {dials + 1}
      BY <1>3, <1>4 DEF InHand, Dialed
    <2>2. QED
      BY <1>3, <2>1 DEF SharedInv, ClosedStaysClosed
  <1>16. QED
    BY <1>5, <1>7, <1>8, <1>9, <1>11, <1>12, <1>13, <1>14, <1>15 DEF SharedInv

\* The new connection takes the place of the old one, which is closed, or is closed
\* itself when the executor was closed meanwhile.
LEMMA ReplaceStep ==
  ASSUME SSHTypeOK, SSHTypeOK', SharedInv, NEW a \in Users \cup {Recover(c) : c \in Conns}, Replace(a)
  PROVE  SharedInv'
  <1>1. /\ a \in Actors /\ \A c \in Conns : a # Alive(c)
        /\ a \in Users \/ \E c \in Conns : a = Recover(c)
    BY ActorFacts
  <1>2. /\ pc \in [Actors -> Places] /\ client \in 0 .. MaxDials /\ recovery \in 0 .. MaxDials
        /\ dials \in Conns /\ cl \in [Actors -> 0 .. MaxDials] /\ open \subseteq Conns /\ jumps \subseteq Conns
    BY DEF SSHTypeOK, SharedInv, FreshInv, Conns
  <1>3. UNCHANGED <<closed, cl, after, dials>> /\ pc[a] = "dialed"
    BY DEF Replace, SetClient
  <1>4. Dialed /\ Used = dials - 1 /\ InHand = {dials} /\ lock = a
    <2>1. Dialed
      BY <1>1, <1>3 DEF Dialed
    <2>2. InHand = {dials}
      BY <1>1, <1>2, <1>3 DEF InHand
    <2>3. QED
      BY <1>1, <1>3, <2>1, <2>2 DEF Used, SharedInv, LockInv, Reconnecting
  <1>5. ASSUME NEW b \in Actors, pc[b] \in Marking PROVE cl[b] \in Conns /\ cl[b] <= Used
    <2>1. CASE b \in Users
      BY <1>2, <1>5, <2>1 DEF SharedInv, HandInv, Hand, Conns, Actors, FreshInv
    <2>2. ASSUME NEW c \in Conns, b = Alive(c) PROVE cl[b] \in Conns /\ cl[b] <= Used
      <3>1. cl[b] = c /\ ~(c > Used)
        BY <1>5, <2>2 DEF SharedInv, FreshInv, PlacesInv, Marking
      <3>2. QED
        BY <1>2, <1>4, <3>1 DEF Conns
    <2>3. ASSUME NEW c \in Conns, b = Recover(c) PROVE FALSE
      BY <1>5, <2>3 DEF SharedInv, PlacesInv, Marking, RecoverPlaces, Reaching, Reconnecting
    <2>4. QED
      BY <2>1, <2>2, <2>3, ActorFacts
  <1>6. \A b \in Actors \ {a} : pc[b] # "dialed"
    BY <1>4 DEF SharedInv, LockInv, Reconnecting
  <1>7. ASSUME NEW u \in Users, pc'[u] = pc[u] \/ (u = a /\ pc'[u] \in {"failed", "replaced"})
        PROVE  Hand(u)'
    <2>1. Hand(u)
      BY DEF SharedInv, HandInv
    <2>2. QED
      BY <1>3, <1>7, <2>1 DEF Hand, Marking, Reaching, Reconnecting
  <1>8. CASE closed
    <2>1. /\ open' = open \ {dials} /\ jumps' = jumps \ {dials} /\ UNCHANGED own /\ lock' = Nobody
          /\ pc'[a] = "failed" /\ \A b \in Actors \ {a} : pc'[b] = pc[b]
      BY <1>1, <1>2, <1>8 DEF Replace, SetClient, CloseConn, Go
    <2>2. client = 0 /\ handle = 0
      BY <1>8 DEF SharedInv, OwnInv
    <2>3. ~Dialed' /\ Used' = dials
      <3>1. ~Dialed'
        BY <1>6, <2>1 DEF Dialed
      <3>2. QED
        BY <1>3, <3>1 DEF Used
    <2>4. LockInv'
      BY <1>4, <2>1, ActorFacts DEF SharedInv, LockInv, Reconnecting
    <2>5. \A c \in Conns : /\ pc'[Alive(c)] = pc[Alive(c)]
                           /\ pc'[Recover(c)] = (IF a = Recover(c) THEN "failed" ELSE pc[Recover(c)])
      BY <1>1, <2>1, ActorFacts
    <2>6. PlacesInv'
      BY <1>3, <2>5 DEF SharedInv, PlacesInv, RecoverPlaces, Reaching
    <2>7. OwnInv'
      BY <1>3, <2>1 DEF SharedInv, OwnInv
    <2>8. HandInv'
      <3>1. \A u \in Users : pc'[u] = pc[u] \/ (u = a /\ pc'[u] = "failed")
        BY <2>1 DEF Actors
      <3>2. QED
        BY <1>7, <3>1 DEF HandInv
    <2>9. FreshInv'
      <3>1. \A c \in Conns : c > Used' => c > Used
        BY <1>2, <1>4, <2>3 DEF Conns
      <3>2. \A u \in Users : cl[u] <= Used'
        <4>1. \A u \in Users : cl[u] <= Used /\ cl[u] \in Nat
          BY <1>2 DEF SharedInv, FreshInv, Actors
        <4>2. QED
          BY <1>2, <1>4, <2>3, <4>1 DEF Conns
      <3>3. \A c \in Conns : pc[Recover(c)] = "none" => pc'[Recover(c)] = "none"
        BY <1>3, <2>5
      <3>4. client' <= Used' /\ dials' # 0
        BY <1>2, <1>3, <2>1, <2>2, <2>3 DEF Conns
      <3>5. QED
        BY <1>3, <2>5, <3>1, <3>2, <3>3, <3>4 DEF SharedInv, FreshInv
    <2>10. OnceInv'
      <3>1. \A b \in Actors : pc'[b] \in Marking => pc[b] \in Marking
        BY <2>1 DEF Marking
      <3>2. \A c \in Conns : pc[Recover(c)] = "none" => pc'[Recover(c)] = "none"
        BY <1>3, <2>5
      <3>3. QED
        BY <1>3, <1>5, <2>1, <2>2, <3>1, <3>2 DEF SharedInv, OnceInv
    <2>11. RecoveryInv'
      <3>1. recovery # 0 => recovery \in Conns /\ pc[Recover(recovery)] \in Looking
        BY <1>2 DEF SharedInv, RecoveryInv, Conns
      <3>2. recovery # 0 => pc'[Recover(recovery)] \in Looking
        BY <2>5, <3>1 DEF Looking
      <3>3. QED
        BY <1>3, <1>8, <2>1, <3>2 DEF RecoveryInv
    <2>12. Watched' /\ ClosedStaysClosed'
      <3>1. InHand' = {}
        BY <2>3 DEF InHand, Dialed
      <3>2. QED
        BY <1>4, <2>1, <2>2, <3>1 DEF SharedInv, Watched, ClosedStaysClosed
    <2>13. QED
      BY <2>4, <2>6, <2>7, <2>8, <2>9, <2>10, <2>11, <2>12 DEF SharedInv
  <1>9. CASE ~closed
    <2>1. /\ open' = open \ {handle} /\ jumps' = jumps \ {handle} /\ UNCHANGED lock
          /\ client' = dials /\ handle' = dials /\ aliveStop' = dials /\ recovery' = 0
          /\ Alive(dials) \in Actors
      BY <1>2, <1>9, ActorFacts DEF Replace, SetClient, CloseConn
    <2>2. \A b \in Actors : pc'[b] = IF b = a THEN "replaced" ELSE IF b = Alive(dials) THEN "waiting" ELSE pc[b]
      BY <1>9 DEF Replace, SetClient
    <2>3. pc[Alive(dials)] = "none" /\ pc[Recover(dials)] = "none" /\ a # Alive(dials)
      <3>1. dials > Used
        BY <1>2, <1>4 DEF Conns
      <3>2. QED
        BY <1>1, <1>2, <3>1 DEF SharedInv, FreshInv
    <2>4. ~Dialed' /\ Used' = dials
      <3>1. ~Dialed'
        BY <1>6, <2>2 DEF Dialed
      <3>2. QED
        BY <1>3, <3>1 DEF Used
    <2>5. LockInv'
      <3>1. \A b \in Actors \ {a} : pc'[b] \notin Reconnecting
        BY <1>4, <2>2 DEF SharedInv, LockInv, Reconnecting
      <3>2. QED
        BY <1>1, <1>4, <2>1, <2>2, <3>1 DEF LockInv, Reconnecting
    <2>6. \A c \in Conns : /\ pc'[Alive(c)] = (IF c = dials THEN "waiting" ELSE pc[Alive(c)])
                           /\ pc'[Recover(c)] = (IF a = Recover(c) THEN "replaced" ELSE pc[Recover(c)])
      BY <1>1, <1>2, <2>2, ActorFacts
    <2>7. PlacesInv'
      BY <1>3, <2>6 DEF SharedInv, PlacesInv, AlivePlaces, RecoverPlaces, Reaching, Reconnecting
    <2>8. OwnInv'
      BY <1>3, <1>9, <2>1 DEF OwnInv
    <2>9. HandInv'
      <3>1. \A u \in Users : u \in Actors /\ u # Alive(dials)
        BY <1>2, ActorFacts
      <3>2. \A u \in Users : pc'[u] = pc[u] \/ (u = a /\ pc'[u] = "replaced")
        BY <2>2, <2>3, <3>1
      <3>3. QED
        BY <1>7, <3>2 DEF HandInv
    <2>10. FreshInv'
      <3>1. \A c \in Conns : c > Used' => c > Used /\ c # dials
        BY <1>2, <1>4, <2>4 DEF Conns
      <3>2. \A u \in Users : cl[u] <= Used'
        <4>1. \A u \in Users : cl[u] <= Used /\ cl[u] \in Nat
          BY <1>2 DEF SharedInv, FreshInv, Actors
        <4>2. QED
          BY <1>2, <1>4, <2>4, <4>1 DEF Conns
      <3>3. \A c \in Conns : pc[Recover(c)] = "none" => pc'[Recover(c)] = "none"
        BY <1>3, <2>6
      <3>4. client' <= Used' /\ dials' # 0
        BY <1>2, <1>3, <2>1, <2>4 DEF Conns
      <3>5. QED
        BY <1>3, <2>6, <3>1, <3>2, <3>3, <3>4 DEF SharedInv, FreshInv
    <2>11. OnceInv'
      <3>1. \A b \in Actors : pc'[b] \in Marking => pc[b] \in Marking
        BY <2>2 DEF Marking
      <3>2. \A c \in Conns : pc[Recover(c)] = "none" => pc'[Recover(c)] = "none"
        BY <1>3, <2>6
      <3>3. \A b \in Actors : pc[b] \in Marking => cl[b] \in Conns /\ cl[b] # dials
        BY <1>2, <1>4, <1>5 DEF Conns
      <3>4. QED
        BY <1>2, <1>3, <2>1, <2>3, <3>1, <3>2, <3>3 DEF SharedInv, OnceInv
    <2>12. RecoveryInv'
      BY <1>2, <2>1 DEF RecoveryInv, Conns
    <2>13. Watched'
      BY <1>2, <2>1, <2>6 DEF Watched
    <2>14. ClosedStaysClosed'
      <3>1. client = 0 \/ client = handle
        BY DEF SharedInv, OwnInv
      <3>2. QED
        BY <1>2, <1>3, <1>4, <1>9, <2>1, <3>1 DEF SharedInv, ClosedStaysClosed, Conns
    <2>15. QED
      BY <2>5, <2>7, <2>8, <2>9, <2>10, <2>11, <2>12, <2>13, <2>14 DEF SharedInv
  <1>10. QED
    BY <1>8, <1>9

\* Close, and the network.
LEMMA OutsideSteps ==
  ASSUME SSHTypeOK, SSHTypeOK', SharedInv, Close \/ Break \/ UNCHANGED vars
  PROVE  SharedInv'
  <1>1. CASE Close
    <2>1. /\ UNCHANGED <<lock, pc, cl, after, dials>>
          /\ closed' = TRUE /\ client' = 0 /\ handle' = 0 /\ aliveStop' = 0 /\ recovery' = 0
          /\ open' = open \ {handle} /\ jumps' = jumps \ {handle}
      BY <1>1 DEF Close, CloseConn
    <2>2. Used' = Used /\ InHand' = InHand
      BY <2>1 DEF Used, Dialed, InHand
    <2>3. LockInv' /\ PlacesInv' /\ HandInv' /\ OwnInv'
      BY <2>1 DEF SharedInv, LockInv, PlacesInv, HandInv, Hand, OwnInv
    <2>4. FreshInv'
      <3>1. 0 <= Used
        BY DEF SharedInv, FreshInv, Used, SSHTypeOK
      <3>2. QED
        BY <2>1, <2>2, <3>1 DEF SharedInv, FreshInv
    <2>5. OnceInv'
      <3>1. ASSUME NEW b \in Actors, pc[b] \in Marking PROVE cl[b] # 0
        <4>1. CASE b \in Users
          BY <3>1, <4>1 DEF SharedInv, HandInv, Hand
        <4>2. CASE \E c \in Conns : b = Alive(c) \/ b = Recover(c)
          BY <4>2 DEF SharedInv, PlacesInv, Conns
        <4>3. QED
          BY <4>1, <4>2, ActorFacts
      <3>2. QED
        BY <2>1, <3>1 DEF SharedInv, OnceInv
    <2>6. RecoveryInv' /\ Watched'
      BY <2>1 DEF RecoveryInv, Watched
    <2>7. ClosedStaysClosed'
      <3>1. client = 0 \/ client = handle
        BY DEF SharedInv, OwnInv
      <3>2. open \subseteq Conns /\ jumps \subseteq Conns
        BY DEF SSHTypeOK
      <3>3. QED
        BY <2>1, <2>2, <3>1, <3>2 DEF SharedInv, ClosedStaysClosed, Conns
    <2>8. QED
      BY <2>3, <2>4, <2>5, <2>6, <2>7 DEF SharedInv
  <1>2. CASE Break \/ UNCHANGED vars
    <2>1. UNCHANGED <<own, lock, pc, cl, after, open, jumps, dials>>
      BY <1>2 DEF Break
    <2>2. QED
      BY <2>1 DEF SharedInv, LockInv, PlacesInv, HandInv, Hand, OwnInv, FreshInv, Used, Dialed, OnceInv,
         RecoveryInv, Watched, ClosedStaysClosed, InHand
  <1>3. QED
    BY <1>1, <1>2

-----------------------------------------------------------------------------
(* The theorems.                                                           *)

\* The first connection is in use and watched.
LEMMA SharedInit == Init => SharedInv
  <1> SUFFICES ASSUME Init PROVE SharedInv
    OBVIOUS
  <1>1. 1 \in Conns /\ Alive(1) \in Actors /\ Alive(1) \notin Users
    BY ActorFacts DEF Conns
  <1>2. \A a \in Actors : pc[a] = IF a \in Users THEN "idle" ELSE IF a = Alive(1) THEN "waiting" ELSE "none"
    BY DEF Init
  <1>3. \A c \in Conns : /\ pc[Alive(c)] = (IF c = 1 THEN "waiting" ELSE "none")
                         /\ pc[Recover(c)] = "none"
                         /\ cl[Alive(c)] = c /\ cl[Recover(c)] = c /\ after[Recover(c)] = "none"
    <2>1. \A c \in Conns : Alive(c)[2] = c /\ Recover(c)[2] = c
      BY DEF Alive, Recover
    <2>2. \A c \in Conns : Alive(c) \in Actors \ Users /\ Recover(c) \in Actors \ Users /\ Recover(c) # Alive(1)
      BY <1>1, ActorFacts
    <2>3. \A c \in Conns : c # 1 => Alive(c) # Alive(1)
      BY <1>1, ActorFacts
    <2>4. QED
      BY <1>2, <2>1, <2>2, <2>3 DEF Init
  <1>4. ~Dialed /\ Used = 1 /\ \A u \in Users : pc[u] = "idle" /\ cl[u] = 0
    BY <1>2 DEF Dialed, Used, Init, Actors
  <1>5. LockInv
    BY <1>2, ActorFacts DEF LockInv, Reconnecting, Init
  <1>6. PlacesInv
    BY <1>3 DEF PlacesInv, AlivePlaces, RecoverPlaces
  <1>7. OwnInv /\ RecoveryInv
    <2>1. client = 1 /\ handle = 1 /\ aliveStop = 1 /\ recovery = 0 /\ ~closed
      BY DEF Init
    <2>2. QED
      BY <2>1 DEF OwnInv, RecoveryInv
  <1>8. HandInv
    BY <1>4 DEF HandInv, Hand, Marking, Reaching, Reconnecting
  <1>9. FreshInv
    <2>1. \A c \in Conns : c > 1 => c # 1
      BY DEF Conns
    <2>2. client = 1 /\ dials = 1
      BY DEF Init
    <2>3. QED
      BY <1>3, <1>4, <2>1, <2>2 DEF FreshInv
  <1>10. OnceInv
    <2>1. \A a \in Actors : pc[a] \notin Marking
      BY <1>2 DEF Marking
    <2>2. client = 1
      BY DEF Init
    <2>3. QED
      BY <1>1, <1>3, <2>1, <2>2 DEF OnceInv
  <1>11. Watched /\ ClosedStaysClosed
    BY <1>1, <1>3 DEF Init, Watched, ClosedStaysClosed
  <1>12. QED
    BY <1>5, <1>6, <1>7, <1>8, <1>9, <1>10, <1>11 DEF SharedInv

\* Whatever the goroutines do, in whatever order.
LEMMA SharedStep == SSHTypeOK /\ SharedInv /\ [Next]_vars => SharedInv'
  <1> SUFFICES ASSUME SSHTypeOK, SharedInv, [Next]_vars PROVE SharedInv'
    OBVIOUS
  <1>1. SSHTypeOK'
    BY TypeStep
  <1>2. ASSUME NEW a \in Users \cup {Recover(c) : c \in Conns}, ReconnectStep(a) PROVE SharedInv'
    BY <1>1, <1>2, LockSteps, ReplaceStep DEF ReconnectStep
  <1>3. QED
    BY <1>1, <1>2, Steps, UserSteps, LoopSteps, DialStep, MarkSteps, OutsideSteps

\* Every variable of the executor has its type, for any number of goroutines.
THEOREM SSHTypeCorrect == Spec => []SSHTypeOK
  BY TypeInit, TypeStep, PTL DEF Spec

\* The invariant of the lock, the loops and the connections.
THEOREM SharedInvariant == Spec => []SharedInv
  BY SSHTypeCorrect, SharedInit, SharedStep, PTL DEF Spec

\* replaceClient, markClientDisconnected and Close forget no connection and no jump
\* host; a reconnect under way gives none to an executor that was closed.
THEOREM ClosedCorrect == Spec => []ClosedStaysClosed
  <1>1. SharedInv => ClosedStaysClosed
    BY DEF SharedInv
  <1>2. QED
    BY <1>1, SharedInvariant, PTL

\* The connection in use is watched, and a lost one is looked for, whichever of the
\* commands and loops found the loss, and whoever reconnected meanwhile.
THEOREM WatchCorrect == Spec => []NobodyGivesUp
  <1>1. SharedInv => NobodyGivesUp
    BY DEF SharedInv, RecoveryInv, NobodyGivesUp, Sought, Looking, Marking
  <1>2. QED
    BY <1>1, SharedInvariant, PTL
=============================================================================
