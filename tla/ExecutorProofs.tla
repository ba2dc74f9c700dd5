--------------------------- MODULE ExecutorProofs ---------------------------
(***************************************************************************)
(* Proofs about the executor, for any number of runtimes, rows, sessions,  *)
(* any batch limit and any bounds.                                         *)
(***************************************************************************)
EXTENDS ExecutorProperties, TLAPS

USE DEF LockTypeOK

\* A step of main leaves the database alone; the loop goroutine goes on
\* undisturbed, or goes down with the process.
LEMMA MainEffect ==
  ASSUME TypeOK, NEW r \in Runtimes, MainStep(r) \/ Sigterm(r) \/ Crash(r)
  PROVE  /\ UNCHANGED <<held, rows, starts, budget>>
         /\ phase' \in [Runtimes -> Phases]
         /\ UNCHANGED loop \/ GoDown(r)
  <1>1. ASSUME NEW from, NEW to \in Phases, PhaseStep(r, from, to)
        PROVE  phase' \in [Runtimes -> Phases] /\ UNCHANGED <<held, rows, starts>>
    BY <1>1 DEF PhaseStep, TypeOK
  <1>2. \A p \in {"stopping", "draining", "forced", "drained", "exited", "crashed"} : p \in Phases
    BY DEF Phases
  <1>3. CASE Sigterm(r)
    BY <1>1, <1>2, <1>3 DEF Sigterm
  <1>4. CASE Crash(r)
    BY <1>1, <1>2, <1>4 DEF Crash
  <1>5. CASE MainStep(r)
    BY <1>1, <1>2, <1>5 DEF MainStep, StartDrain, DrainTimeout, WaitGroupZero, Exit
  <1> QED BY <1>3, <1>4, <1>5

\* Every variable keeps its type: in particular the executor only ever
\* writes the statuses the schema knows.
LEMMA TypeStep == TypeOK /\ [Next]_vars => TypeOK'
  <1> SUFFICES ASSUME TypeOK, [Next]_vars PROVE TypeOK'
    OBVIOUS
  <1> USE LockAssumption, ExecutorAssumption
  <1> USE DEF TypeOK, rows, loop, budget, Goto, Mishap
  <1>0. /\ Refused \in Outcomes
        /\ [Refused EXCEPT !.why = "cancelled"] \in Outcomes
    BY DEF Refused, Outcomes, Causes
  <1>1. ASSUME NEW r \in Runtimes, TryLock(r) PROVE TypeOK'
    BY <1>1 DEF TryLock, TryLockOn, Points
  <1>2. ASSUME NEW r \in Runtimes, LockAnswer(r) PROVE TypeOK'
    BY <1>2 DEF LockAnswer, Points
  <1>3. ASSUME NEW r \in Runtimes, LockAnswerLost(r) PROVE TypeOK'
    BY <1>3 DEF LockAnswerLost, Points
  <1>4. ASSUME NEW r \in Runtimes, Unlock(r) PROVE TypeOK'
    BY <1>4 DEF Unlock, UnlockOn, Points
  <1>5. ASSUME NEW r \in Runtimes, ListQueued(r) PROVE TypeOK'
    BY <1>5 DEF ListQueued, Queued, Points
  <1>6. ASSUME NEW r \in Runtimes, NEW e \in Executions, Claim(r, e) PROVE TypeOK'
    BY <1>6 DEF Claim, MarkRunning, Points, Status
  <1>7. ASSUME NEW r \in Runtimes, VerifyClaim(r) PROVE TypeOK'
    BY <1>7 DEF VerifyClaim, Points
  <1>8. ASSUME NEW r \in Runtimes, EndBatch(r) PROVE TypeOK'
    BY <1>8 DEF EndBatch, Points
  <1>9. ASSUME NEW r \in Runtimes, RefuseRun(r) PROVE TypeOK'
    BY <1>0, <1>9 DEF RefuseRun, Conclude, Points
  <1>10. ASSUME NEW r \in Runtimes, CancelledBeforeStart(r) PROVE TypeOK'
    BY <1>0, <1>10 DEF CancelledBeforeStart, Conclude, Points
  <1>11. ASSUME NEW r \in Runtimes, StartBot(r) PROVE TypeOK'
    <2>1. cur[r] \in Executions
      BY <1>11 DEF StartBot
    <2>2. starts' \in [Executions -> Nat]
      BY <1>11, <2>1 DEF StartBot
    <2> QED BY <1>11, <2>2 DEF StartBot, Points
  <1>12. ASSUME NEW r \in Runtimes, BotEnds(r) PROVE TypeOK'
    <2>1. PICK o \in Outcomes : Conclude(r, o)
      BY <1>12 DEF BotEnds, ResultsOf
    <2> QED BY <1>12, <2>1 DEF BotEnds, Conclude, Points
  <1>13. ASSUME NEW r \in Runtimes, BotKilled(r) PROVE TypeOK'
    <2>1. PICK o \in Outcomes : Conclude(r, o)
      BY <1>13 DEF BotKilled, ResultsOf
    <2> QED BY <1>13, <2>1 DEF BotKilled, Conclude, Points
  <1>14. ASSUME NEW r \in Runtimes, Finalize(r) PROVE TypeOK'
    <2>1. outcome[r] \in Outcomes
      OBVIOUS
    <2>2. Verdict(outcome[r]) \in Status /\ outcome[r].review \in BOOLEAN
      BY <2>1 DEF Verdict, Status, Settled, Outcomes
    <2>3. status' \in [Executions -> Status] /\ review' \in [Executions -> BOOLEAN]
      BY <1>14, <2>2 DEF Finalize, WriteVerdict
    <2> QED BY <1>0, <1>14, <2>3 DEF Finalize, Points
  <1>15. ASSUME NEW r \in Runtimes, LoopStops(r) PROVE TypeOK'
    BY <1>15 DEF LoopStops, Points
  <1>16. ASSUME NEW r \in Runtimes, MainStep(r) \/ Sigterm(r) \/ Crash(r) PROVE TypeOK'
    <2>1. CASE UNCHANGED loop
      BY <1>16, <2>1, MainEffect
    <2>2. CASE GoDown(r)
      BY <1>0, <1>16, <2>2, MainEffect DEF GoDown, Points
    <2> QED BY <1>16, <2>1, <2>2, MainEffect
  <1>17. ASSUME NEW r \in Runtimes, Restart(r) PROVE TypeOK'
    BY <1>17 DEF Restart, PhaseStep, Points, Phases
  <1>18. ASSUME NEW e \in Executions, Submit(e) \/ Reject(e) PROVE TypeOK'
    BY <1>18 DEF Submit, Reject, Status
  <1>19. ASSUME NEW s \in Sessions, DropSession(s) PROVE TypeOK'
    BY <1>19 DEF DropSession, CloseSession
  <1>20. CASE UNCHANGED vars
    BY <1>20 DEF vars
  <1> QED
    BY <1>1, <1>2, <1>3, <1>4, <1>5, <1>6, <1>7, <1>8, <1>9, <1>10, <1>11, <1>12,
       <1>13, <1>14, <1>15, <1>16, <1>17, <1>18, <1>19, <1>20
    DEF Next, LoopStep

\* The initial state is well typed.
LEMMA TypeInit == Init => TypeOK
  BY LockAssumption, ExecutorAssumption
  DEF Init, LockInit, TypeOK, Points, Phases, Status, Outcomes, Refused, Causes

\* Type correctness of the executor.
THEOREM TypeCorrect == Spec => []TypeOK
  BY TypeInit, TypeStep, PTL DEF Spec

-----------------------------------------------------------------------------
(* The lock.                                                               *)

\* With private sessions, a runtime that has the lock excludes the others.
LEMMA Exclusion ==
  ASSUME PrivateSessions, OneSessionHolds, HolderHasLock
  PROVE  BatchIsExclusive
  <1> SUFFICES ASSUME NEW r \in Runtimes, NEW q \in Runtimes, InBatch(r), InBatch(q)
               PROVE  r = q
    BY DEF BatchIsExclusive
  <1>1. PICK s \in SessionsFor[r] : held[s] > 0
    BY DEF HolderHasLock, HasLock
  <1>2. PICK t \in SessionsFor[q] : held[t] > 0
    BY DEF HolderHasLock, HasLock
  <1>3. s \in Sessions /\ t \in Sessions
    BY LockAssumption
  <1>4. s = t
    BY <1>1, <1>2, <1>3 DEF OneSessionHolds
  <1> QED BY <1>4 DEF PrivateSessions

\* Steps that neither take nor give back the lock: nobody enters the batch.
LockFree(r) ==
  /\ UNCHANGED held
  /\ \A q \in Runtimes : InBatch(q)' => InBatch(q)

\* A step of the loop that is not the try-lock or the release leaves the lock
\* alone and brings nobody into the batch.
LEMMA LoopLockFree ==
  ASSUME TypeOK, NEW r \in Runtimes, LoopStep(r)
  PROVE  TryLock(r) \/ Unlock(r) \/ LockFree(r)
  <1> USE DEF InBatch, Goto, LockFree, TypeOK
  <1>1. CASE LockAnswer(r) \/ LockAnswerLost(r)
    BY <1>1 DEF LockAnswer, LockAnswerLost
  <1>2. CASE ListQueued(r) \/ VerifyClaim(r) \/ EndBatch(r) \/ LoopStops(r)
    BY <1>2 DEF ListQueued, VerifyClaim, EndBatch, LoopStops
  <1>3. CASE \E e \in Executions : Claim(r, e)
    BY <1>3 DEF Claim
  <1>4. CASE RefuseRun(r) \/ CancelledBeforeStart(r) \/ StartBot(r)
    BY <1>4 DEF RefuseRun, CancelledBeforeStart, StartBot, Conclude
  <1>5. CASE BotEnds(r) \/ BotKilled(r)
    <2>1. PICK o \in Outcomes : Conclude(r, o)
      BY <1>5 DEF BotEnds, BotKilled, ResultsOf
    <2> QED BY <1>5, <2>1 DEF BotEnds, BotKilled, Conclude
  <1>6. CASE Finalize(r)
    BY <1>6 DEF Finalize
  <1> QED BY <1>1, <1>2, <1>3, <1>4, <1>5, <1>6 DEF LoopStep

\* Neither does a step of main, a signal or a crash.
LEMMA MainLockFree ==
  ASSUME TypeOK, NEW r \in Runtimes, MainStep(r) \/ Sigterm(r) \/ Crash(r)
  PROVE  LockFree(r)
  <1>1. CASE UNCHANGED loop
    BY <1>1, MainEffect DEF LockFree, InBatch, loop
  <1>2. CASE GoDown(r)
    BY <1>2, MainEffect DEF LockFree, InBatch, GoDown, Goto, TypeOK
  <1> QED BY <1>1, <1>2, MainEffect

\* Whoever is inside a batch keeps the lock, on a session nobody else uses.
LEMMA LockStep ==
  ASSUME PrivateSessions, ~DropInUse, TypeOK, OneSessionHolds, HolderHasLock, [Next]_vars
  PROVE  OneSessionHolds' /\ HolderHasLock'
  <1> USE LockAssumption DEF TypeOK
  <1>1. ASSUME NEW r \in Runtimes, LockFree(r) PROVE OneSessionHolds' /\ HolderHasLock'
    BY <1>1 DEF LockFree, OneSessionHolds, HolderHasLock, HasLock
  <1>2. ASSUME NEW r \in Runtimes, TryLock(r) PROVE OneSessionHolds' /\ HolderHasLock'
    <2>1. PICK s \in SessionsFor[r], g \in BOOLEAN :
            TryLockOn(s, g) /\ granted' = [granted EXCEPT ![r] = g]
      BY <1>2 DEF TryLock
    <2>2. \A q \in Runtimes \ {r} : InBatch(q)' => InBatch(q)
      BY <1>2, <2>1 DEF TryLock, InBatch, Goto
    <2>3. CASE Grantable(s)
      <3>1. held' = [held EXCEPT ![s] = @ + 1]
        BY <2>1, <2>3 DEF TryLockOn
      <3>2. OneSessionHolds'
        BY <2>3, <3>1 DEF Grantable, OneSessionHolds
      <3>3. ASSUME NEW q \in Runtimes, InBatch(q)'
            PROVE  \E t \in SessionsFor[q] : held'[t] > 0
        <4>1. CASE q = r
          BY <3>1, <4>1
        <4>2. CASE q # r
          BY <2>2, <3>1, <3>3, <4>2 DEF HolderHasLock, HasLock
        <4> QED BY <4>1, <4>2
      <3> QED BY <3>2, <3>3 DEF HolderHasLock, HasLock
    <2>4. CASE ~Grantable(s)
      <3>1. ~g /\ UNCHANGED held
        BY <2>1, <2>4 DEF TryLockOn
      <3>2. ~InBatch(r)'
        BY <1>2, <2>1, <3>1 DEF TryLock, InBatch, Goto
      <3> QED BY <2>2, <3>1, <3>2 DEF OneSessionHolds, HolderHasLock, HasLock
    <2> QED BY <2>3, <2>4
  <1>3. ASSUME NEW r \in Runtimes, Unlock(r) PROVE OneSessionHolds' /\ HolderHasLock'
    <2>1. \A q \in Runtimes : InBatch(q)' => InBatch(q) /\ q # r
      BY <1>3 DEF Unlock, InBatch, Goto
    <2>2. CASE UNCHANGED held
      BY <2>1, <2>2 DEF OneSessionHolds, HolderHasLock, HasLock
    <2>3. ASSUME NEW s \in SessionsFor[r], held[s] > 0, held' = [held EXCEPT ![s] = @ - 1]
          PROVE  OneSessionHolds' /\ HolderHasLock'
      <3>1. OneSessionHolds'
        BY <2>3 DEF OneSessionHolds
      <3>2. ASSUME NEW q \in Runtimes, InBatch(q)'
            PROVE  \E t \in SessionsFor[q] : held'[t] > 0
        <4>1. PICK t \in SessionsFor[q] : held[t] > 0
          BY <2>1, <3>2 DEF HolderHasLock, HasLock
        <4>2. t # s
          BY <2>1, <3>2 DEF PrivateSessions
        <4> QED BY <2>3, <4>1, <4>2
      <3> QED BY <3>1, <3>2 DEF HolderHasLock, HasLock
    <2> QED BY <1>3, <2>2, <2>3 DEF Unlock, UnlockOn
  <1>4. ASSUME NEW s \in Sessions, DropSession(s) PROVE OneSessionHolds' /\ HolderHasLock'
    <2>1. held' = [held EXCEPT ![s] = 0] /\ UNCHANGED loop
      BY <1>4 DEF DropSession, CloseSession
    <2>2. OneSessionHolds'
      BY <2>1 DEF OneSessionHolds
    <2>3. \A q \in Runtimes : InBatch(q)' => InBatch(q) /\ s \notin SessionsFor[q]
      BY <1>4, <2>1 DEF DropSession, InBatch, loop
    <2> QED BY <2>1, <2>2, <2>3 DEF HolderHasLock, HasLock
  <1>5. ASSUME UNCHANGED <<held, loop>> PROVE OneSessionHolds' /\ HolderHasLock'
    BY <1>5 DEF OneSessionHolds, HolderHasLock, HasLock, InBatch, loop
  <1>6. ASSUME NEW r \in Runtimes, Restart(r) PROVE OneSessionHolds' /\ HolderHasLock'
    <2>1. LockFree(r)
      BY <1>6 DEF Restart, PhaseStep, Goto, LockFree, InBatch
    <2> QED BY <1>1, <2>1
  <1>7. ASSUME NEW e \in Executions, Submit(e) \/ Reject(e)
        PROVE  OneSessionHolds' /\ HolderHasLock'
    BY <1>5, <1>7 DEF Submit, Reject
  <1>8. CASE UNCHANGED vars
    BY <1>5, <1>8 DEF vars
  <1> QED
    BY <1>1, <1>2, <1>3, <1>4, <1>6, <1>7, <1>8, LoopLockFree, MainLockFree DEF Next

-----------------------------------------------------------------------------
(* The rows.                                                               *)

RowInv == ListedAreQueued /\ CurrentIsRunning /\ QueuedNotStarted /\ StartedAtMostOnce

\* The lock holder is the only one with rows listed or at hand.
LEMMA HolderAlone ==
  ASSUME BatchIsExclusive, ListedAreQueued, CurrentIsRunning,
         NEW r \in Runtimes, InBatch(r), NEW q \in Runtimes, q # r
  PROVE  /\ todo[q] = {} /\ cur[q] = NoExecution
         /\ pc[q] \notin {"batch", "verify", "prepare", "bot", "finalize"}
  BY DEF BatchIsExclusive, ListedAreQueued, CurrentIsRunning, InBatch

\* A step outside the batch of one runtime, its rows being let go.
LEMMA RowsIdle ==
  ASSUME TypeOK, RowInv, NEW r \in Runtimes, NEW p \in Points,
         p \notin {"batch", "verify", "prepare", "bot", "finalize"},
         Goto(r, p), UNCHANGED <<rows, starts>>,
         todo'[r] = {}, cur'[r] = NoExecution,
         \A q \in Runtimes \ {r} :
           todo'[q] = todo[q] /\ cur'[q] = cur[q] /\ outcome'[q] = outcome[q]
  PROVE  RowInv'
  <1> USE DEF TypeOK, RowInv, Goto, rows
  <1>1. ListedAreQueued'
    BY DEF ListedAreQueued
  <1>2. CurrentIsRunning'
    BY DEF CurrentIsRunning
  <1>3. QueuedNotStarted' /\ StartedAtMostOnce'
    BY DEF QueuedNotStarted, StartedAtMostOnce
  <1> QED BY <1>1, <1>2, <1>3

\* What the lock holder knows of its rows stays true at every step of the
\* loop, of main and of the rest of the system.
LEMMA RowStep ==
  ASSUME TypeOK, BatchIsExclusive, RowInv, ReviewedIsSettled, [Next]_vars
  PROVE  RowInv'
  <1> USE LockAssumption, ExecutorAssumption
  <1> USE DEF TypeOK, RowInv, rows, Goto
  <1>1. ASSUME NEW r \in Runtimes,
               TryLock(r) \/ LockAnswer(r) \/ LockAnswerLost(r) \/ Unlock(r) \/ LoopStops(r)
        PROVE  RowInv'
    <2>1. todo[r] = {} /\ cur[r] = NoExecution
      BY <1>1 DEF TryLock, LockAnswer, LockAnswerLost, Unlock, LoopStops,
        ListedAreQueued, CurrentIsRunning
    <2>2. PICK p \in {"idle", "locking", "list", "stopped"} : Goto(r, p)
      BY <1>1 DEF TryLock, LockAnswer, LockAnswerLost, Unlock, LoopStops
    <2>3. UNCHANGED <<rows, starts, todo, cur, outcome>>
      BY <1>1 DEF TryLock, LockAnswer, LockAnswerLost, Unlock, LoopStops
    <2> QED BY <2>1, <2>2, <2>3, RowsIdle DEF Points
  <1>2. ASSUME NEW r \in Runtimes, ListQueued(r) PROVE RowInv'
    <2>1. todo[r] = {} /\ cur[r] = NoExecution /\ InBatch(r)
      BY <1>2 DEF ListQueued, ListedAreQueued, CurrentIsRunning, InBatch
    <2>2. CASE pc' = [pc EXCEPT ![r] = "batch"]
      <3>1. PICK S \in SUBSET Queued : todo' = [todo EXCEPT ![r] = S]
        BY <1>2, <2>2 DEF ListQueued
      <3>2. ListedAreQueued'
        BY <1>2, <2>2, <3>1 DEF ListQueued, ListedAreQueued, Queued
      <3>3. CurrentIsRunning'
        BY <1>2, <2>1, <2>2 DEF ListQueued, CurrentIsRunning
      <3> QED BY <1>2, <3>2, <3>3 DEF ListQueued, QueuedNotStarted, StartedAtMostOnce
    <2>3. CASE pc' = [pc EXCEPT ![r] = "unlock"] /\ UNCHANGED todo
      BY <1>2, <2>1, <2>3, RowsIdle DEF ListQueued, Points
    <2> QED BY <1>2, <2>2, <2>3 DEF ListQueued
  <1>3. ASSUME NEW r \in Runtimes, NEW e \in Executions, Claim(r, e) PROVE RowInv'
    <2>1. /\ status[e] = "queued" /\ starts[e] = 0 /\ cur[r] = NoExecution /\ InBatch(r)
          /\ pc[r] = "batch"
      BY <1>3 DEF Claim, ListedAreQueued, QueuedNotStarted, CurrentIsRunning, InBatch
    <2>2. /\ status' = [status EXCEPT ![e] = "running"] \/ UNCHANGED status
          /\ todo' = [todo EXCEPT ![r] = @ \ {e}]
          /\ UNCHANGED <<outcome, starts>>
      BY <1>3, <2>1 DEF Claim, MarkRunning
    <2>3. \A q \in Runtimes \ {r} :
             /\ todo[q] = {} /\ cur[q] = NoExecution
             /\ pc[q] \notin {"batch", "verify", "prepare", "bot", "finalize"}
      BY <2>1, HolderAlone
    <2>4. QueuedNotStarted' /\ StartedAtMostOnce'
      BY <2>1, <2>2 DEF QueuedNotStarted, StartedAtMostOnce
    <2>5. pc'[r] \in {"batch", "verify"} /\ \A q \in Runtimes \ {r} : pc'[q] = pc[q] /\ cur'[q] = cur[q]
      BY <1>3, <2>1 DEF Claim
    <2>6. ListedAreQueued'
      BY <2>2, <2>3, <2>5 DEF ListedAreQueued
    <2>7. \/ pc'[r] = "batch" /\ cur'[r] = NoExecution
          \/ pc'[r] = "verify" /\ cur'[r] = e /\ status'[e] = "running"
      BY <1>3, <2>1 DEF Claim, MarkRunning
    <2>8. CurrentIsRunning'
      BY <2>1, <2>2, <2>3, <2>5, <2>7 DEF CurrentIsRunning
    <2> QED BY <2>4, <2>6, <2>8
  <1>4. ASSUME NEW r \in Runtimes, VerifyClaim(r) PROVE RowInv'
    <2>1. UNCHANGED <<status, starts, todo, outcome>>
      BY <1>4 DEF VerifyClaim
    <2>2. ListedAreQueued'
      BY <1>4, <2>1 DEF VerifyClaim, ListedAreQueued
    <2>3. CurrentIsRunning'
      BY <1>4, <2>1 DEF VerifyClaim, CurrentIsRunning
    <2> QED BY <2>1, <2>2, <2>3 DEF QueuedNotStarted, StartedAtMostOnce
  <1>5. ASSUME NEW r \in Runtimes, EndBatch(r) PROVE RowInv'
    <2>1. todo[r] = {} /\ cur[r] = NoExecution
      BY <1>5 DEF EndBatch, CurrentIsRunning
    <2> QED BY <1>5, <2>1, RowsIdle DEF EndBatch, Points
  <1>6. ASSUME NEW r \in Runtimes, NEW o \in Outcomes, Conclude(r, o),
               \/ pc[r] = "prepare" /\ o.why # "success"
               \/ pc[r] = "bot"
        PROVE  RowInv'
    <2>1. UNCHANGED <<status, starts, todo, cur>>
      BY <1>6 DEF Conclude
    <2>2. ListedAreQueued'
      BY <1>6, <2>1 DEF Conclude, ListedAreQueued
    <2>3. CurrentIsRunning'
      BY <1>6, <2>1 DEF Conclude, CurrentIsRunning
    <2> QED BY <2>1, <2>2, <2>3 DEF QueuedNotStarted, StartedAtMostOnce
  <1>7. ASSUME NEW r \in Runtimes, RefuseRun(r) \/ CancelledBeforeStart(r) PROVE RowInv'
    <2>1. /\ Refused \in Outcomes /\ Refused.why # "success"
          /\ [Refused EXCEPT !.why = "cancelled"] \in Outcomes
          /\ [Refused EXCEPT !.why = "cancelled"].why # "success"
      BY DEF Refused, Outcomes, Causes
    <2> QED BY <1>6, <1>7, <2>1 DEF RefuseRun, CancelledBeforeStart
  <1>8. ASSUME NEW r \in Runtimes, BotEnds(r) \/ BotKilled(r) PROVE RowInv'
    BY <1>6, <1>8 DEF BotEnds, BotKilled, ResultsOf
  <1>9. ASSUME NEW r \in Runtimes, StartBot(r) PROVE RowInv'
    <2>1. /\ cur[r] \in Executions /\ status[cur[r]] = "running"
          /\ starts[cur[r]] = 0 /\ InBatch(r)
      BY <1>9 DEF StartBot, CurrentIsRunning, InBatch
    <2>2. /\ UNCHANGED <<status, todo, cur, outcome>>
          /\ starts' = [starts EXCEPT ![cur[r]] = 1]
      BY <1>9, <2>1 DEF StartBot
    <2>3. ListedAreQueued'
      BY <1>9, <2>2 DEF StartBot, ListedAreQueued
    <2>4. CurrentIsRunning'
      <3>1. \A q \in Runtimes \ {r} :
               /\ cur[q] = NoExecution
               /\ pc[q] \notin {"batch", "verify", "prepare", "bot", "finalize"}
        BY <2>1, HolderAlone
      <3> QED BY <1>9, <2>1, <2>2, <3>1 DEF StartBot, CurrentIsRunning
    <2> QED BY <2>1, <2>2, <2>3, <2>4 DEF QueuedNotStarted, StartedAtMostOnce
  <1>10. ASSUME NEW r \in Runtimes, Finalize(r) PROVE RowInv'
    <2>1. cur[r] \in Executions /\ status[cur[r]] = "running" /\ InBatch(r)
      BY <1>10 DEF Finalize, CurrentIsRunning, InBatch
    <2>2. \/ UNCHANGED status
          \/ status' = [status EXCEPT ![cur[r]] = "completed"]
          \/ status' = [status EXCEPT ![cur[r]] = "failed"]
      BY <1>10 DEF Finalize, WriteVerdict, Verdict
    <2>3. /\ UNCHANGED <<starts, todo>> /\ cur' = [cur EXCEPT ![r] = NoExecution]
          /\ pc' = [pc EXCEPT ![r] = "batch"] /\ pc[r] = "finalize"
          /\ \A q \in Runtimes \ {r} : outcome'[q] = outcome[q]
      BY <1>10 DEF Finalize
    <2>4. ListedAreQueued'
      BY <2>1, <2>2, <2>3 DEF ListedAreQueued
    <2>5. CurrentIsRunning'
      <3>1. \A q \in Runtimes \ {r} :
               /\ cur[q] = NoExecution
               /\ pc[q] \notin {"batch", "verify", "prepare", "bot", "finalize"}
        BY <2>1, HolderAlone
      <3> QED BY <2>3, <3>1 DEF CurrentIsRunning
    <2> QED BY <2>1, <2>2, <2>3, <2>4, <2>5 DEF QueuedNotStarted, StartedAtMostOnce
  <1>11. ASSUME NEW r \in Runtimes, MainStep(r) \/ Sigterm(r) \/ Crash(r) PROVE RowInv'
    <2>1. CASE UNCHANGED loop
      BY <1>11, <2>1, MainEffect DEF loop, ListedAreQueued, CurrentIsRunning,
        QueuedNotStarted, StartedAtMostOnce
    <2>2. CASE GoDown(r)
      BY <1>11, <2>2, MainEffect, RowsIdle DEF GoDown, Points
    <2> QED BY <1>11, <2>1, <2>2, MainEffect
  <1>12. ASSUME NEW r \in Runtimes, Restart(r) PROVE RowInv'
    <2>1. todo[r] = {} /\ cur[r] = NoExecution
      BY <1>12 DEF Restart, ListedAreQueued, CurrentIsRunning
    <2> QED BY <1>12, <2>1, RowsIdle DEF Restart, PhaseStep, Points
  <1>13. ASSUME NEW e \in Executions, Submit(e) \/ Reject(e) PROVE RowInv'
    <2>1. /\ UNCHANGED <<loop, starts>>
          /\ \/ status[e] = "absent" /\ status' = [status EXCEPT ![e] = "queued"]
             \/ /\ status[e] \in Settled \cup {"rejected"}
                /\ status' = [status EXCEPT ![e] = "rejected"]
      BY <1>13 DEF Submit, Reject, ReviewedIsSettled
    <2> QED BY <2>1 DEF loop, Settled, ListedAreQueued, CurrentIsRunning,
      QueuedNotStarted, StartedAtMostOnce
  <1>14. ASSUME UNCHANGED <<rows, loop, starts>> PROVE RowInv'
    BY <1>14 DEF loop, ListedAreQueued, CurrentIsRunning, QueuedNotStarted, StartedAtMostOnce
  <1>15. ASSUME NEW s \in Sessions, DropSession(s) PROVE RowInv'
    BY <1>14, <1>15 DEF DropSession
  <1>16. CASE UNCHANGED vars
    BY <1>14, <1>16 DEF vars
  <1> QED
    BY <1>1, <1>2, <1>3, <1>4, <1>5, <1>7, <1>8, <1>9, <1>10, <1>11, <1>12, <1>13,
       <1>15, <1>16 DEF Next, LoopStep

-----------------------------------------------------------------------------
(* The theorems.                                                           *)

\* The invariant holds at the start.
LEMMA InvInit == Init => ExecutorInv
  <1> SUFFICES ASSUME Init PROVE ExecutorInv
    OBVIOUS
  <1>1. TypeOK
    BY TypeInit
  <1>2. OneSessionHolds /\ HolderHasLock
    BY LockAssumption DEF Init, LockInit, OneSessionHolds, HolderHasLock, HasLock, InBatch
  <1>3. ListedAreQueued /\ CurrentIsRunning /\ QueuedNotStarted /\ StartedAtMostOnce
    BY DEF Init, ListedAreQueued, CurrentIsRunning, QueuedNotStarted, StartedAtMostOnce
  <1>4. ReviewedIsSettled
    BY DEF Init, ReviewedIsSettled
  <1> QED BY <1>1, <1>2, <1>3, <1>4 DEF ExecutorInv

\* A review is asked for with the verdict, and no verdict is taken back.
LEMMA ReviewStep ==
  ASSUME TypeOK, ReviewedIsSettled, [Next]_vars
  PROVE  ReviewedIsSettled'
  <1> USE DEF TypeOK, ReviewedIsSettled, rows
  <1>1. ASSUME UNCHANGED rows PROVE ReviewedIsSettled'
    BY <1>1
  <1>2. ASSUME NEW r \in Runtimes, NEW e \in Executions, Claim(r, e) PROVE ReviewedIsSettled'
    <2>1. UNCHANGED review /\ (MarkRunning(e) \/ UNCHANGED status)
      BY <1>2 DEF Claim
    <2> QED BY <2>1 DEF MarkRunning, Settled
  <1>3. ASSUME NEW r \in Runtimes, Finalize(r) PROVE ReviewedIsSettled'
    <2>1. UNCHANGED rows \/ WriteVerdict(cur[r], outcome[r])
      BY <1>3 DEF Finalize
    <2> QED BY <2>1 DEF WriteVerdict, Verdict, Settled
  <1>4. ASSUME NEW e \in Executions, Submit(e) \/ Reject(e) PROVE ReviewedIsSettled'
    BY <1>4 DEF Submit, Reject, Settled
  <1>5. ASSUME NEW r \in Runtimes, MainStep(r) \/ Sigterm(r) \/ Crash(r) \/ Restart(r)
        PROVE  ReviewedIsSettled'
    BY <1>1, <1>5, MainEffect DEF Restart, PhaseStep
  <1>6. ASSUME NEW r \in Runtimes,
               \/ TryLock(r) \/ LockAnswer(r) \/ LockAnswerLost(r) \/ Unlock(r)
               \/ ListQueued(r) \/ VerifyClaim(r) \/ EndBatch(r) \/ LoopStops(r)
        PROVE  ReviewedIsSettled'
    BY <1>1, <1>6 DEF TryLock, LockAnswer, LockAnswerLost, Unlock,
      ListQueued, VerifyClaim, EndBatch, LoopStops
  <1>7. ASSUME NEW r \in Runtimes,
               \/ RefuseRun(r) \/ CancelledBeforeStart(r) \/ StartBot(r)
               \/ BotEnds(r) \/ BotKilled(r)
        PROVE  ReviewedIsSettled'
    BY <1>1, <1>7 DEF RefuseRun, CancelledBeforeStart, StartBot, BotEnds, BotKilled, Conclude
  <1>8. ASSUME NEW s \in Sessions, DropSession(s) PROVE ReviewedIsSettled'
    BY <1>1, <1>8 DEF DropSession
  <1>9. CASE UNCHANGED vars
    BY <1>1, <1>9 DEF vars
  <1> QED BY <1>2, <1>3, <1>4, <1>5, <1>6, <1>7, <1>8, <1>9 DEF Next, LoopStep

\* The invariant is inductive where replicas do not share sessions.
LEMMA InvStep ==
  ASSUME PrivateSessions, ~DropInUse, ExecutorInv, [Next]_vars
  PROVE  ExecutorInv'
  <1>1. BatchIsExclusive
    BY Exclusion DEF ExecutorInv
  <1>2. TypeOK'
    BY TypeStep DEF ExecutorInv
  <1>3. OneSessionHolds' /\ HolderHasLock'
    BY LockStep DEF ExecutorInv
  <1>4. RowInv'
    BY <1>1, RowStep DEF ExecutorInv, RowInv
  <1>5. ReviewedIsSettled'
    BY ReviewStep DEF ExecutorInv
  <1> QED BY <1>2, <1>3, <1>4, <1>5 DEF ExecutorInv, RowInv

\* The inductive invariant: when every runtime has sessions of its own, which
\* stay open while it holds the lock.
THEOREM Invariance ==
  ASSUME PrivateSessions, ~DropInUse
  PROVE  Spec => []ExecutorInv
  <1>1. ExecutorInv /\ [Next]_vars => ExecutorInv'
    BY InvStep
  <1> QED BY <1>1, InvInit, PTL DEF Spec

\* Then batches exclude each other, and no execution's bot is started twice.
THEOREM AtMostOneStart ==
  ASSUME PrivateSessions, ~DropInUse
  PROVE  Spec => []StartedAtMostOnce
  <1>1. ExecutorInv => StartedAtMostOnce
    BY DEF ExecutorInv
  <1> QED BY <1>1, Invariance, PTL

-----------------------------------------------------------------------------
(* The executor implements the life cycle: every step moves one row along  *)
(* it, or none.                                                            *)

\* Every step of the executor is a step of the life cycle or changes nothing
\* the life cycle speaks of.
LEMMA LifecycleStep ==
  ASSUME ExecutorInv, [Next]_vars
  PROVE  [Lifecycle!Next]_(Lifecycle!vars)
  <1> USE ExecutorAssumption
  <1> USE DEF ExecutorInv, TypeOK, Lifecycle!vars, rows
  <1>1. ASSUME UNCHANGED <<status, starts>> PROVE [Lifecycle!Next]_(Lifecycle!vars)
    BY <1>1
  <1>2. ASSUME NEW e \in Executions, UNCHANGED starts,
               \/ status[e] = "absent" /\ status' = [status EXCEPT ![e] = "queued"]
               \/ status[e] = "queued" /\ status' = [status EXCEPT ![e] = "running"]
               \/ status[e] = "running" /\ status' = [status EXCEPT ![e] = "failed"]
               \/ /\ status[e] = "running" /\ starts[e] = 1
                  /\ status' = [status EXCEPT ![e] = "completed"]
               \/ status[e] \in Settled /\ status' = [status EXCEPT ![e] = "rejected"]
        PROVE  Lifecycle!Next
    BY <1>2 DEF Settled, Lifecycle!Next, Lifecycle!Move, Lifecycle!Enqueue, Lifecycle!TakeUp,
      Lifecycle!Fail, Lifecycle!Complete, Lifecycle!TurnDown
  <1>3. ASSUME NEW r \in Runtimes, NEW e \in Executions, Claim(r, e)
        PROVE  [Lifecycle!Next]_(Lifecycle!vars)
    <2>1. status[e] = "queued"
      BY <1>3 DEF Claim, ListedAreQueued
    <2>2. /\ UNCHANGED starts
          /\ status' = [status EXCEPT ![e] = "running"] \/ UNCHANGED status
      BY <1>3, <2>1 DEF Claim, MarkRunning
    <2>3. CASE UNCHANGED status
      BY <1>1, <2>2, <2>3
    <2>4. CASE status' = [status EXCEPT ![e] = "running"]
      BY <1>2, <2>1, <2>2, <2>4
    <2> QED BY <2>2, <2>3, <2>4
  <1>4. ASSUME NEW r \in Runtimes, StartBot(r) PROVE Lifecycle!Next
    <2>1. cur[r] \in Executions /\ status[cur[r]] = "running" /\ starts[cur[r]] = 0
      BY <1>4 DEF StartBot, CurrentIsRunning
    <2>2. Lifecycle!Start(cur[r])
      BY <1>4, <2>1 DEF StartBot, Lifecycle!Start
    <2> QED BY <2>1, <2>2 DEF Lifecycle!Next
  <1>5. ASSUME NEW r \in Runtimes, Finalize(r) PROVE [Lifecycle!Next]_(Lifecycle!vars)
    <2>1. /\ cur[r] \in Executions /\ status[cur[r]] = "running" /\ UNCHANGED starts
          /\ outcome[r].why = "success" => starts[cur[r]] = 1
      BY <1>5 DEF Finalize, CurrentIsRunning
    <2>2. \/ UNCHANGED status
          \/ outcome[r].why = "success" /\ status' = [status EXCEPT ![cur[r]] = "completed"]
          \/ status' = [status EXCEPT ![cur[r]] = "failed"]
      BY <1>5 DEF Finalize, WriteVerdict, Verdict
    <2> QED BY <1>1, <1>2, <2>1, <2>2 DEF Settled
  <1>6. ASSUME NEW e \in Executions, Submit(e) \/ Reject(e)
        PROVE  [Lifecycle!Next]_(Lifecycle!vars)
    <2>1. CASE Submit(e)
      BY <1>2, <2>1 DEF Submit
    <2>2. CASE Reject(e)
      <3>1. status[e] \in Settled \cup {"rejected"} /\ UNCHANGED starts
        BY <2>2 DEF Reject, ReviewedIsSettled
      <3>2. status' = [status EXCEPT ![e] = "rejected"]
        BY <2>2 DEF Reject
      <3>3. CASE status[e] = "rejected"
        BY <1>1, <3>1, <3>2, <3>3
      <3> QED BY <1>2, <3>1, <3>2, <3>3
    <2> QED BY <1>6, <2>1, <2>2
  <1>7. ASSUME NEW r \in Runtimes, MainStep(r) \/ Sigterm(r) \/ Crash(r) \/ Restart(r)
        PROVE  [Lifecycle!Next]_(Lifecycle!vars)
    BY <1>1, <1>7, MainEffect DEF Restart, PhaseStep
  <1>8. ASSUME NEW r \in Runtimes,
               \/ TryLock(r) \/ LockAnswer(r) \/ LockAnswerLost(r) \/ Unlock(r)
               \/ ListQueued(r) \/ VerifyClaim(r) \/ EndBatch(r) \/ LoopStops(r)
        PROVE  [Lifecycle!Next]_(Lifecycle!vars)
    BY <1>1, <1>8 DEF TryLock, LockAnswer, LockAnswerLost, Unlock,
      ListQueued, VerifyClaim, EndBatch, LoopStops
  <1>9. ASSUME NEW r \in Runtimes,
               RefuseRun(r) \/ CancelledBeforeStart(r) \/ BotEnds(r) \/ BotKilled(r)
        PROVE  [Lifecycle!Next]_(Lifecycle!vars)
    BY <1>1, <1>9 DEF RefuseRun, CancelledBeforeStart, BotEnds, BotKilled, Conclude
  <1>10. ASSUME NEW s \in Sessions, DropSession(s) PROVE [Lifecycle!Next]_(Lifecycle!vars)
    BY <1>1, <1>10 DEF DropSession
  <1>11. CASE UNCHANGED vars
    BY <1>1, <1>11 DEF vars
  <1> QED
    BY <1>3, <1>4, <1>5, <1>6, <1>7, <1>8, <1>9, <1>10, <1>11 DEF Next, LoopStep

\* The executor's steps are the life cycle's: no row is requeued, finished
\* twice, completed without a run, or changed after it was rejected.
THEOREM Refinement ==
  ASSUME PrivateSessions, ~DropInUse
  PROVE  Spec => ImplementsLifecycle
  <1>1. Init => Lifecycle!Init
    BY DEF Init, Lifecycle!Init
  <1>2. ExecutorInv /\ [Next]_vars => [Lifecycle!Next]_(Lifecycle!vars)
    BY LifecycleStep
  <1> QED BY <1>1, <1>2, Invariance, PTL DEF Spec, ImplementsLifecycle, Lifecycle!Spec

-----------------------------------------------------------------------------
(* What holds in every deployment: runtimes may share the database sessions,*)
(* and the gateway may close one under its holder.                         *)

\* Rows never go back to the queue, and starts are never taken back.
Advances ==
  \A e \in Executions :
    /\ status[e] # "absent" => status'[e] # "absent"
    /\ status[e] \notin {"absent", "queued"} => status'[e] \notin {"absent", "queued"}
    /\ starts'[e] >= starts[e]
    /\ status'[e] = "completed" /\ starts[e] = 0 => status[e] = "completed"

\* A step of a runtime keeps what is known of the rows of all others.
LEMMA OthersKeep ==
  ASSUME TypeOK, TypeOK', Advances, NEW q \in Runtimes, HandInv(q),
         pc'[q] = pc[q], cur'[q] = cur[q], outcome'[q] = outcome[q],
         todo'[q] \subseteq todo[q]
  PROVE  HandInv(q)'
  <1> USE DEF Advances, TypeOK
  <1>1. \A e \in todo'[q] : status'[e] # "absent"
    BY DEF HandInv
  <1>2. pc[q] \in {"verify", "prepare", "bot", "finalize"} =>
          cur[q] \in Executions /\ status'[cur[q]] \notin {"absent", "queued"}
    BY DEF HandInv
  <1>3. pc[q] = "bot" \/ (pc[q] = "finalize" /\ outcome[q].why = "success") =>
          starts'[cur[q]] > 0
    <2>1. \A e \in Executions : starts[e] > 0 => starts'[e] > 0
      OBVIOUS
    <2> QED BY <2>1 DEF HandInv
  <1> QED BY <1>1, <1>2, <1>3 DEF HandInv

\* A runtime that has let go of its rows knows nothing that could be wrong.
LEMMA EmptyHanded ==
  ASSUME NEW q \in Runtimes, todo'[q] = {},
         pc'[q] \notin {"verify", "prepare", "bot", "finalize"}
  PROVE  HandInv(q)'
  BY DEF HandInv

\* Rows advance at every step of the system, and none is completed that was
\* not started.
LEMMA RowsAdvance ==
  ASSUME AnyDeploymentInv, [Next]_vars
  PROVE  Advances
  <1> USE ExecutorAssumption DEF AnyDeploymentInv, TypeOK, rows
  <1>1. ASSUME UNCHANGED <<status, starts>> PROVE Advances
    BY <1>1 DEF Advances
  <1>2. ASSUME NEW r \in Runtimes, NEW e \in Executions, Claim(r, e) PROVE Advances
    <2>1. UNCHANGED starts /\ (MarkRunning(e) \/ UNCHANGED status)
      BY <1>2 DEF Claim
    <2> QED BY <2>1 DEF MarkRunning, Advances
  <1>3. ASSUME NEW r \in Runtimes, StartBot(r) PROVE Advances
    BY <1>3 DEF StartBot, Advances
  <1>4. ASSUME NEW r \in Runtimes, Finalize(r) PROVE Advances
    <2>1. /\ cur[r] \in Executions
          /\ outcome[r].why = "success" => starts[cur[r]] > 0
      BY <1>4 DEF Finalize, HandInv
    <2>2. /\ UNCHANGED starts
          /\ \/ UNCHANGED status
             \/ status' = [status EXCEPT ![cur[r]] = Verdict(outcome[r])]
      BY <1>4 DEF Finalize, WriteVerdict
    <2>3. /\ Verdict(outcome[r]) \in {"completed", "failed"}
          /\ Verdict(outcome[r]) = "completed" => starts[cur[r]] > 0
      BY <2>1 DEF Verdict
    <2> QED BY <2>1, <2>2, <2>3 DEF Advances
  <1>5. ASSUME NEW e \in Executions, Submit(e) \/ Reject(e) PROVE Advances
    BY <1>5 DEF Submit, Reject, Advances
  <1>6. ASSUME NEW r \in Runtimes, MainStep(r) \/ Sigterm(r) \/ Crash(r) \/ Restart(r)
        PROVE  Advances
    BY <1>1, <1>6, MainEffect DEF Restart, PhaseStep
  <1>7. ASSUME NEW r \in Runtimes,
               \/ TryLock(r) \/ LockAnswer(r) \/ LockAnswerLost(r) \/ Unlock(r)
               \/ ListQueued(r) \/ VerifyClaim(r) \/ EndBatch(r) \/ LoopStops(r)
        PROVE  Advances
    BY <1>1, <1>7 DEF TryLock, LockAnswer, LockAnswerLost, Unlock,
      ListQueued, VerifyClaim, EndBatch, LoopStops
  <1>8. ASSUME NEW r \in Runtimes,
               RefuseRun(r) \/ CancelledBeforeStart(r) \/ BotEnds(r) \/ BotKilled(r)
        PROVE  Advances
    BY <1>1, <1>8 DEF RefuseRun, CancelledBeforeStart, BotEnds, BotKilled, Conclude
  <1>9. ASSUME NEW s \in Sessions, DropSession(s) PROVE Advances
    BY <1>1, <1>9 DEF DropSession
  <1>10. CASE UNCHANGED vars
    BY <1>1, <1>10 DEF vars
  <1> QED
    BY <1>2, <1>3, <1>4, <1>5, <1>6, <1>7, <1>8, <1>9, <1>10 DEF Next, LoopStep

\* What a runtime knows of its rows stays true at its own steps.
LEMMA HandStep ==
  ASSUME AnyDeploymentInv, Advances, NEW r \in Runtimes, LoopStep(r)
  PROVE  HandInv(r)'
  <1> USE ExecutorAssumption DEF AnyDeploymentInv, TypeOK, rows, Goto
  <1>1. CASE TryLock(r) \/ LockAnswer(r) \/ LockAnswerLost(r) \/ Unlock(r) \/ LoopStops(r)
    <2>1. /\ UNCHANGED todo
          /\ pc'[r] \notin {"verify", "prepare", "bot", "finalize"}
      BY <1>1 DEF TryLock, LockAnswer, LockAnswerLost, Unlock, LoopStops
    <2> QED BY <2>1 DEF Advances, HandInv
  <1>2. CASE ListQueued(r)
    <2>1. /\ UNCHANGED status
          /\ pc'[r] \in {"batch", "unlock"}
          /\ todo'[r] = todo[r] \/ todo'[r] \subseteq Queued
      BY <1>2 DEF ListQueued
    <2> QED BY <2>1 DEF Queued, HandInv
  <1>3. ASSUME NEW e \in Executions, Claim(r, e) PROVE HandInv(r)'
    <2>1. e \in todo[r] /\ status[e] # "absent" /\ todo'[r] \subseteq todo[r] /\ pc[r] = "batch"
      BY <1>3 DEF Claim, HandInv
    <2>2. \/ pc'[r] = "batch"
          \/ pc'[r] = "verify" /\ cur'[r] = e /\ MarkRunning(e)
      BY <1>3, <2>1 DEF Claim
    <2>3. MarkRunning(e) => status'[e] \notin {"absent", "queued"}
      BY <2>1 DEF MarkRunning
    <2> QED BY <2>1, <2>2, <2>3 DEF Advances, HandInv
  <1>4. CASE VerifyClaim(r)
    <2>1. /\ pc[r] = "verify" /\ UNCHANGED todo
          /\ pc'[r] = "batch" \/ (pc'[r] = "prepare" /\ UNCHANGED cur)
      BY <1>4 DEF VerifyClaim
    <2> QED BY <2>1 DEF Advances, HandInv
  <1>5. CASE EndBatch(r)
    BY <1>5 DEF EndBatch, HandInv
  <1>6. CASE RefuseRun(r) \/ CancelledBeforeStart(r)
    <2>1. /\ pc[r] = "prepare" /\ pc'[r] = "finalize" /\ UNCHANGED <<todo, cur>>
          /\ outcome'[r].why \in {"refused", "cancelled"}
      BY <1>6 DEF RefuseRun, CancelledBeforeStart, Conclude, Refused
    <2> QED BY <2>1 DEF Advances, HandInv
  <1>7. CASE StartBot(r)
    <2>1. /\ pc[r] = "prepare" /\ cur[r] \in Executions /\ UNCHANGED <<todo, cur, status>>
          /\ pc'[r] = "bot" /\ starts'[cur[r]] = starts[cur[r]] + 1
      BY <1>7 DEF StartBot, HandInv
    <2> QED BY <2>1 DEF HandInv
  <1>8. CASE BotEnds(r) \/ BotKilled(r)
    <2>1. pc[r] = "bot" /\ pc'[r] = "finalize" /\ UNCHANGED <<todo, cur, starts, status>>
      BY <1>8 DEF BotEnds, BotKilled, Conclude
    <2> QED BY <2>1 DEF HandInv
  <1>9. CASE Finalize(r)
    <2>1. pc'[r] = "batch" /\ UNCHANGED todo
      BY <1>9 DEF Finalize
    <2> QED BY <2>1 DEF Advances, HandInv
  <1> QED BY <1>1, <1>2, <1>3, <1>4, <1>5, <1>6, <1>7, <1>8, <1>9 DEF LoopStep

\* A step of one runtime's loop leaves the loops of the others alone.
LEMMA LoopFrame ==
  ASSUME TypeOK, NEW r \in Runtimes, LoopStep(r), NEW q \in Runtimes, q # r
  PROVE  /\ pc'[q] = pc[q] /\ cur'[q] = cur[q] /\ outcome'[q] = outcome[q]
         /\ todo'[q] = todo[q]
  <1> USE DEF TypeOK, Goto
  <1>1. CASE \/ TryLock(r) \/ LockAnswer(r) \/ LockAnswerLost(r) \/ Unlock(r)
             \/ ListQueued(r) \/ VerifyClaim(r) \/ EndBatch(r) \/ LoopStops(r)
    BY <1>1 DEF TryLock, LockAnswer, LockAnswerLost, Unlock, ListQueued, VerifyClaim,
      EndBatch, LoopStops
  <1>2. CASE \E e \in Executions : Claim(r, e)
    BY <1>2 DEF Claim
  <1>3. CASE RefuseRun(r) \/ CancelledBeforeStart(r) \/ BotEnds(r) \/ BotKilled(r)
    BY <1>3 DEF RefuseRun, CancelledBeforeStart, BotEnds, BotKilled, Conclude
  <1>4. CASE StartBot(r) \/ Finalize(r)
    BY <1>4 DEF StartBot, Finalize
  <1> QED BY <1>1, <1>2, <1>3, <1>4 DEF LoopStep

\* The invariant is inductive without any assumption on the sessions.
LEMMA AnyDeploymentStep ==
  ASSUME AnyDeploymentInv, [Next]_vars
  PROVE  AnyDeploymentInv'
  <1> USE DEF AnyDeploymentInv
  <1>1. TypeOK'
    BY TypeStep
  <1>2. Advances
    BY RowsAdvance
  <1>3. CompletedWasStarted'
    BY <1>1, <1>2 DEF CompletedWasStarted, Advances, TypeOK
  <1>4. ASSUME NEW q \in Runtimes PROVE HandInv(q)'
    <2>1. ASSUME UNCHANGED loop PROVE HandInv(q)'
      BY <1>1, <1>2, <2>1, OthersKeep DEF loop
    <2>2. ASSUME NEW r \in Runtimes, LoopStep(r) PROVE HandInv(q)'
      BY <1>1, <1>2, <2>2, HandStep, LoopFrame, OthersKeep
    <2>3. ASSUME NEW r \in Runtimes, MainStep(r) \/ Sigterm(r) \/ Crash(r) PROVE HandInv(q)'
      <3>1. CASE GoDown(r) /\ q = r
        BY <3>1, EmptyHanded DEF GoDown, Goto, TypeOK
      <3>2. CASE GoDown(r) /\ q # r
        BY <1>1, <1>2, <3>2, OthersKeep DEF GoDown, Goto, TypeOK
      <3> QED BY <2>1, <2>3, <3>1, <3>2, MainEffect
    <2>4. ASSUME NEW r \in Runtimes, Restart(r) PROVE HandInv(q)'
      <3>1. CASE q = r
        <4>1. pc'[q] = "idle" /\ todo'[q] = todo[q]
          BY <2>4, <3>1 DEF Restart, Goto, TypeOK
        <4> QED BY <1>2, <4>1 DEF HandInv, Advances, TypeOK
      <3>2. CASE q # r
        BY <1>1, <1>2, <2>4, <3>2, OthersKeep DEF Restart, Goto, TypeOK
      <3> QED BY <3>1, <3>2
    <2>5. ASSUME NEW e \in Executions, Submit(e) \/ Reject(e) PROVE HandInv(q)'
      BY <2>1, <2>5 DEF Submit, Reject
    <2>6. ASSUME NEW s \in Sessions, DropSession(s) PROVE HandInv(q)'
      BY <2>1, <2>6 DEF DropSession
    <2>7. CASE UNCHANGED vars
      BY <2>1, <2>7 DEF vars
    <2> QED BY <2>2, <2>3, <2>4, <2>5, <2>6, <2>7 DEF Next
  <1> QED BY <1>1, <1>3, <1>4

\* The initial state: nothing is listed, in hand or completed.
LEMMA AnyDeploymentInit == Init => AnyDeploymentInv
  BY TypeInit DEF Init, AnyDeploymentInv, CompletedWasStarted, HandInv

\* The inductive invariant, for every deployment.
THEOREM AnyDeployment == Spec => []AnyDeploymentInv
  <1>1. AnyDeploymentInv /\ [Next]_vars => AnyDeploymentInv'
    BY AnyDeploymentStep
  <1> QED BY <1>1, AnyDeploymentInit, PTL DEF Spec

\* No row is completed whose bot was never started, whoever shares the lock's
\* sessions.
THEOREM NoVerdictWithoutRun == Spec => []CompletedWasStarted
  <1>1. AnyDeploymentInv => CompletedWasStarted
    BY DEF AnyDeploymentInv
  <1> QED BY <1>1, AnyDeployment, PTL

\* No runtime executes a row that is still queued.
THEOREM OnlyClaimedRowsRun == Spec => []RunsOnlyClaimedRows
  <1>1. AnyDeploymentInv => RunsOnlyClaimedRows
    BY DEF AnyDeploymentInv, HandInv, RunsOnlyClaimedRows, InExecuteOne
  <1> QED BY <1>1, AnyDeployment, PTL

-----------------------------------------------------------------------------
(* The lock, however sessions are shared.                                  *)

\* A step that neither takes nor gives back the lock leaves it where it was.
LEMMA LockFreeKeeps ==
  ASSUME NEW r \in Runtimes, LockFree(r), NEW q \in Runtimes, InBatch(q)', ~HasLock(q)'
  PROVE  InBatch(q) /\ ~HasLock(q)
  BY DEF LockFree, HasLock

\* Who has the lock loses it to a release of another, or to the gateway.
LEMMA LossStep ==
  ASSUME TypeOK, [Next]_vars, NEW r \in Runtimes, InBatch(r)', ~HasLock(r)'
  PROVE  \/ InBatch(r) /\ ~HasLock(r)
         \/ \E q \in Runtimes \ {r} :
              pc[q] = "unlock" /\ SessionsFor[q] \cap SessionsFor[r] # {}
         \/ DropInUse /\ UNCHANGED loop
  <1> USE LockAssumption DEF TypeOK
  <1>1. ASSUME NEW q \in Runtimes, TryLock(q) PROVE InBatch(r) /\ ~HasLock(r)
    <2>1. PICK s \in SessionsFor[q], g \in BOOLEAN :
            TryLockOn(s, g) /\ granted' = [granted EXCEPT ![q] = g]
      BY <1>1 DEF TryLock
    <2>2. \A t \in Sessions : held[t] > 0 => held'[t] > 0
      BY <2>1 DEF TryLockOn
    <2>3. CASE q = r
      <3>1. ~g
        BY <2>1, <2>3 DEF TryLockOn, HasLock
      <3> QED BY <1>1, <2>1, <2>3, <3>1 DEF TryLock, InBatch, Goto
    <2>4. CASE q # r
      BY <1>1, <2>1, <2>2, <2>4 DEF TryLock, InBatch, Goto, HasLock
    <2> QED BY <2>3, <2>4
  <1>2. ASSUME NEW q \in Runtimes, Unlock(q)
        PROVE  \/ InBatch(r) /\ ~HasLock(r)
               \/ q # r /\ pc[q] = "unlock" /\ SessionsFor[q] \cap SessionsFor[r] # {}
    <2>1. InBatch(r) /\ q # r /\ pc[q] = "unlock"
      BY <1>2 DEF Unlock, InBatch, Goto
    <2>2. CASE UNCHANGED held
      BY <2>1, <2>2 DEF HasLock
    <2>3. ASSUME NEW s \in SessionsFor[q], held[s] > 0, held' = [held EXCEPT ![s] = @ - 1]
          PROVE  ~HasLock(r) \/ SessionsFor[q] \cap SessionsFor[r] # {}
      BY <2>3 DEF HasLock
    <2> QED BY <1>2, <2>1, <2>2, <2>3 DEF Unlock, UnlockOn
  <1>3. ASSUME NEW s \in Sessions, DropSession(s)
        PROVE  (InBatch(r) /\ ~HasLock(r)) \/ (DropInUse /\ UNCHANGED loop)
    <2>1. held' = [held EXCEPT ![s] = 0] /\ InBatch(r)
      BY <1>3 DEF DropSession, CloseSession, InBatch, loop
    <2> QED BY <1>3, <2>1 DEF DropSession, HasLock
  <1>4. ASSUME NEW q \in Runtimes, Restart(q) PROVE InBatch(r) /\ ~HasLock(r)
    <2>1. LockFree(q)
      BY <1>4 DEF Restart, PhaseStep, Goto, LockFree, InBatch
    <2> QED BY <2>1, LockFreeKeeps
  <1>5. ASSUME UNCHANGED <<held, loop>> PROVE InBatch(r) /\ ~HasLock(r)
    BY <1>5 DEF HasLock, InBatch, loop
  <1>6. ASSUME NEW e \in Executions, Submit(e) \/ Reject(e) PROVE InBatch(r) /\ ~HasLock(r)
    BY <1>5, <1>6 DEF Submit, Reject
  <1>7. CASE UNCHANGED vars
    BY <1>5, <1>7 DEF vars
  <1> QED
    BY <1>1, <1>2, <1>3, <1>4, <1>6, <1>7, LoopLockFree, MainLockFree, LockFreeKeeps DEF Next

\* In any deployment a runtime that is in its batch without the lock lost it to
\* a release of another runtime on a session they share, or to the gateway.
THEOREM OnlyOthersTakeTheLock == Spec => LockIsLostToOthers
  <1> DEFINE Explained == \A r \in Runtimes : InBatch(r)' /\ ~HasLock(r)' =>
               \/ InBatch(r) /\ ~HasLock(r)
               \/ \E q \in Runtimes \ {r} :
                    pc[q] = "unlock" /\ SessionsFor[q] \cap SessionsFor[r] # {}
               \/ DropInUse /\ UNCHANGED loop
  <1>1. TypeOK /\ [Next]_vars => [Explained]_vars
    BY LossStep
  <1> QED BY <1>1, TypeCorrect, PTL DEF Spec, LockIsLostToOthers

-----------------------------------------------------------------------------
(* The graceful exit.                                                      *)

\* Once Drain has returned no bot runs: none did at that moment, and a
\* cancelled context starts none.
DrainedHasNoBot == \A r \in Runtimes : phase[r] = "drained" => pc[r] # "bot"

\* A bot is started only while no signal has come.
LEMMA StartsWhenUp ==
  ASSUME TypeOK, NEW r \in Runtimes, LoopStep(r)
  PROVE  UNCHANGED phase /\ (pc'[r] = "bot" => phase[r] = "up")
  <1> USE DEF TypeOK, Goto
  <1>1. CASE \/ TryLock(r) \/ LockAnswer(r) \/ LockAnswerLost(r) \/ Unlock(r)
             \/ ListQueued(r) \/ VerifyClaim(r) \/ EndBatch(r) \/ LoopStops(r)
    BY <1>1 DEF TryLock, LockAnswer, LockAnswerLost, Unlock, ListQueued, VerifyClaim,
      EndBatch, LoopStops
  <1>2. CASE \E e \in Executions : Claim(r, e)
    BY <1>2 DEF Claim
  <1>3. CASE RefuseRun(r) \/ CancelledBeforeStart(r) \/ BotEnds(r) \/ BotKilled(r)
    BY <1>3 DEF RefuseRun, CancelledBeforeStart, BotEnds, BotKilled, Conclude
  <1>4. CASE StartBot(r) \/ Finalize(r)
    BY <1>4 DEF StartBot, Finalize
  <1> QED BY <1>1, <1>2, <1>3, <1>4 DEF LoopStep

\* The wait group is zero when main counts as drained.
LEMMA DrainedStep ==
  ASSUME TypeOK, DrainedHasNoBot, [Next]_vars
  PROVE  DrainedHasNoBot'
  <1> SUFFICES ASSUME NEW q \in Runtimes, phase'[q] = "drained" PROVE pc'[q] # "bot"
    BY DEF DrainedHasNoBot
  <1> USE DEF TypeOK
  <1>1. ASSUME UNCHANGED <<loop, phase>> PROVE pc'[q] # "bot"
    BY <1>1 DEF loop, DrainedHasNoBot
  <1>2. ASSUME NEW r \in Runtimes, LoopStep(r) PROVE pc'[q] # "bot"
    <2>1. CASE q = r
      BY <1>2, <2>1, StartsWhenUp
    <2>2. CASE q # r
      BY <1>2, <2>2, StartsWhenUp, LoopFrame DEF DrainedHasNoBot
    <2> QED BY <2>1, <2>2
  <1>3. ASSUME NEW r \in Runtimes, WaitGroupZero(r) PROVE pc'[q] # "bot"
    BY <1>3 DEF WaitGroupZero, InExecuteOne, PhaseStep, DrainedHasNoBot, loop
  <1>4. ASSUME NEW r \in Runtimes, Exit(r) \/ Crash(r) PROVE pc'[q] # "bot"
    BY <1>4 DEF Exit, Crash, GoDown, Goto, PhaseStep, DrainedHasNoBot
  <1>5. ASSUME NEW r \in Runtimes, StartDrain(r) \/ DrainTimeout(r) \/ Sigterm(r)
        PROVE  pc'[q] # "bot"
    BY <1>5 DEF StartDrain, DrainTimeout, Sigterm, PhaseStep, DrainedHasNoBot, loop
  <1>6. ASSUME NEW r \in Runtimes, Restart(r) PROVE pc'[q] # "bot"
    BY <1>6 DEF Restart, PhaseStep, Goto, DrainedHasNoBot
  <1>7. ASSUME NEW e \in Executions, Submit(e) \/ Reject(e) PROVE pc'[q] # "bot"
    BY <1>1, <1>7 DEF Submit, Reject
  <1>8. ASSUME NEW s \in Sessions, DropSession(s) PROVE pc'[q] # "bot"
    BY <1>1, <1>8 DEF DropSession
  <1>9. CASE UNCHANGED vars
    BY <1>1, <1>9 DEF vars
  <1> QED BY <1>2, <1>3, <1>4, <1>5, <1>6, <1>7, <1>8, <1>9 DEF Next, MainStep

\* Only main's own exit makes a runtime count as exited.
LEMMA ExitsDrained ==
  ASSUME TypeOK, [Next]_vars, NEW q \in Runtimes, phase'[q] = "exited", phase[q] # "exited"
  PROVE  phase[q] = "drained"
  <1> USE DEF TypeOK
  <1>1. ASSUME NEW r \in Runtimes, LoopStep(r) PROVE FALSE
    BY <1>1, StartsWhenUp
  <1>2. ASSUME NEW r \in Runtimes, MainStep(r) \/ Sigterm(r) \/ Crash(r) \/ Restart(r)
        PROVE  phase[q] = "drained"
    BY <1>2 DEF MainStep, StartDrain, DrainTimeout, WaitGroupZero, Exit, Sigterm, Crash,
      Restart, PhaseStep
  <1>3. ASSUME NEW e \in Executions, Submit(e) \/ Reject(e) PROVE FALSE
    BY <1>3 DEF Submit, Reject
  <1>4. ASSUME NEW s \in Sessions, DropSession(s) PROVE FALSE
    BY <1>4 DEF DropSession
  <1>5. CASE UNCHANGED vars
    BY <1>5 DEF vars
  <1> QED BY <1>1, <1>2, <1>3, <1>4, <1>5 DEF Next

\* A graceful exit never abandons a running bot, in any deployment.
THEOREM GracefulExit == Spec => ExitNeverAbandonsABot
  <1>1. Init => DrainedHasNoBot
    BY DEF Init, DrainedHasNoBot
  <1>2. TypeOK /\ DrainedHasNoBot /\ [Next]_vars => DrainedHasNoBot'
    BY DrainedStep
  <1>3. TypeOK /\ DrainedHasNoBot /\ [Next]_vars =>
          [\A r \in Runtimes :
             phase'[r] = "exited" /\ phase[r] # "exited" => pc[r] # "bot"]_vars
    BY ExitsDrained DEF DrainedHasNoBot
  <1> QED BY <1>1, <1>2, <1>3, TypeCorrect, PTL DEF Spec, ExitNeverAbandonsABot
-----------------------------------------------------------------------------
(* Rows that stay running.                                                 *)

AtWork == {"verify", "prepare", "bot", "finalize"}

\* A row that is running while no runtime has it in hand: nobody lists it, so
\* it stays as it is.
Stranded(e) == status[e] = "running" /\ \A r \in Runtimes : cur[r] # e

\* A row is stranded only by a failed call, by the end of the process that has
\* it in hand, or by a result that is refused for its size: no other replica,
\* lost claim or cancelled bot leaves a row running (runner.go:129-222,
\* store.go:238-256).
StrandedByFailure ==
  [][\A e \in Executions : ~Stranded(e) /\ Stranded(e)' =>
       \/ mishaps' # mishaps
       \/ \E r \in Runtimes : cur[r] = e /\ pc'[r] = "down"
       \/ e \in Overflowing]_vars

\* A runtime has a row in hand only while it works on it, and an outcome that
\* does not fit only of a row whose result may be oversized.
HandsInv ==
  \A r \in Runtimes :
    /\ pc[r] \notin AtWork => cur[r] = NoExecution
    /\ ~outcome[r].fits => pc[r] = "finalize" /\ cur[r] \in Overflowing

\* A step of a runtime's loop puts a row in its hand, or lets one go.
LEMMA LoopHands ==
  ASSUME TypeOK, HandsInv, NEW r \in Runtimes, LoopStep(r)
  PROVE  /\ pc'[r] \notin AtWork => cur'[r] = NoExecution
         /\ ~outcome'[r].fits => pc'[r] = "finalize" /\ cur'[r] \in Overflowing
         /\ \/ UNCHANGED <<status, cur>>
            \/ mishaps' # mishaps
            \/ pc[r] = "batch" /\ \E e \in Executions : MarkRunning(e) /\ cur'[r] = e
            \/ status[cur[r]] # "running" /\ UNCHANGED status
            \/ cur[r] \in Overflowing /\ UNCHANGED status
            \/ status' = [status EXCEPT ![cur[r]] = Verdict(outcome[r])]
  <1> USE ExecutorAssumption DEF TypeOK, HandsInv, AtWork, Goto, Mishap, rows, budget
  <1>1. CASE \/ TryLock(r) \/ LockAnswer(r) \/ LockAnswerLost(r) \/ Unlock(r)
             \/ ListQueued(r) \/ EndBatch(r) \/ LoopStops(r)
    BY <1>1 DEF TryLock, LockAnswer, LockAnswerLost, Unlock, ListQueued, EndBatch, LoopStops
  <1>2. CASE \E e \in Executions : Claim(r, e)
    BY <1>2 DEF Claim
  <1>3. CASE VerifyClaim(r)
    BY <1>3 DEF VerifyClaim
  <1>4. CASE RefuseRun(r) \/ CancelledBeforeStart(r)
    BY <1>4 DEF RefuseRun, CancelledBeforeStart, Conclude, Refused
  <1>5. CASE StartBot(r)
    BY <1>5 DEF StartBot
  <1>6. CASE BotEnds(r) \/ BotKilled(r)
    BY <1>6 DEF BotEnds, BotKilled, Conclude, ResultsOf
  <1>7. CASE Finalize(r)
    BY <1>7 DEF Finalize, WriteVerdict, Refused
  <1> QED BY <1>1, <1>2, <1>3, <1>4, <1>5, <1>6, <1>7 DEF LoopStep

\* What is known of the hands stays true.
LEMMA HandsStep ==
  ASSUME TypeOK, HandsInv, [Next]_vars
  PROVE  HandsInv'
  <1> USE DEF TypeOK
  <1>1. ASSUME UNCHANGED loop PROVE HandsInv'
    BY <1>1 DEF loop, HandsInv
  <1>2. ASSUME NEW r \in Runtimes, LoopStep(r) PROVE HandsInv'
    BY <1>2, LoopHands, LoopFrame DEF HandsInv
  <1>3. ASSUME NEW r \in Runtimes, MainStep(r) \/ Sigterm(r) \/ Crash(r) PROVE HandsInv'
    <2>1. GoDown(r) => HandsInv'
      BY DEF GoDown, Goto, HandsInv, Refused, AtWork
    <2> QED BY <1>1, <1>3, <2>1, MainEffect
  <1>4. ASSUME NEW r \in Runtimes, Restart(r) PROVE HandsInv'
    BY <1>4 DEF Restart, Goto, HandsInv, AtWork
  <1>5. ASSUME NEW e \in Executions, Submit(e) \/ Reject(e) PROVE HandsInv'
    BY <1>1, <1>5 DEF Submit, Reject
  <1>6. ASSUME NEW s \in Sessions, DropSession(s) PROVE HandsInv'
    BY <1>1, <1>6 DEF DropSession
  <1>7. CASE UNCHANGED vars
    BY <1>1, <1>7 DEF vars
  <1> QED BY <1>2, <1>3, <1>4, <1>5, <1>6, <1>7 DEF Next

\* Only what StrandedByFailure names leaves a row running in nobody's hand.
LEMMA StrandingStep ==
  ASSUME TypeOK, HandsInv, [Next]_vars, NEW e \in Executions, ~Stranded(e), Stranded(e)'
  PROVE  \/ mishaps' # mishaps
         \/ \E r \in Runtimes : cur[r] = e /\ pc'[r] = "down"
         \/ e \in Overflowing
  <1> USE ExecutorAssumption DEF TypeOK, Stranded
  <1>1. ASSUME UNCHANGED <<status, cur>> PROVE FALSE
    BY <1>1
  <1>2. ASSUME NEW r \in Runtimes, LoopStep(r), mishaps' = mishaps
        PROVE  e \in Overflowing
    <2>1. \A q \in Runtimes \ {r} : cur'[q] = cur[q]
      BY <1>2, LoopFrame
    <2>2. cur'[r] # e /\ status'[e] = "running"
      OBVIOUS
    <2>3. CASE pc[r] = "batch" /\ \E f \in Executions : MarkRunning(f) /\ cur'[r] = f
      <3>1. cur[r] = NoExecution /\ status'[e] = status[e]
        BY <2>2, <2>3 DEF MarkRunning, HandsInv, AtWork
      <3> QED BY <2>1, <2>2, <3>1
    <2>4. CASE status' = [status EXCEPT ![cur[r]] = Verdict(outcome[r])]
      <3>1. cur[r] # e /\ status'[e] = status[e]
        BY <2>2, <2>4 DEF Verdict
      <3> QED BY <2>1, <2>2, <3>1
    <2>5. CASE UNCHANGED status /\ (status[cur[r]] # "running" \/ cur[r] \in Overflowing)
      BY <2>1, <2>2, <2>5
    <2> QED BY <1>1, <1>2, <2>3, <2>4, <2>5, LoopHands
  <1>3. ASSUME NEW r \in Runtimes, MainStep(r) \/ Sigterm(r) \/ Crash(r)
        PROVE  \E q \in Runtimes : cur[q] = e /\ pc'[q] = "down"
    <2>1. UNCHANGED status /\ GoDown(r)
      BY <1>1, <1>3, MainEffect DEF rows, loop
    <2> QED BY <2>1 DEF GoDown, Goto
  <1>4. ASSUME NEW r \in Runtimes, Restart(r) PROVE FALSE
    BY <1>1, <1>4 DEF Restart, PhaseStep, rows
  <1>5. ASSUME NEW f \in Executions, Submit(f) \/ Reject(f) PROVE FALSE
    BY <1>5 DEF Submit, Reject, loop
  <1>6. ASSUME NEW s \in Sessions, DropSession(s) PROVE FALSE
    BY <1>1, <1>6 DEF DropSession, rows, loop
  <1>7. CASE UNCHANGED vars
    BY <1>1, <1>7 DEF vars, rows, loop
  <1> QED BY <1>2, <1>3, <1>4, <1>5, <1>6, <1>7 DEF Next

\* No row is left running but by a failure, in any deployment.
THEOREM OnlyFailuresStrand == Spec => StrandedByFailure
  <1> DEFINE Explained == \A e \in Executions : ~Stranded(e) /\ Stranded(e)' =>
               \/ mishaps' # mishaps
               \/ \E r \in Runtimes : cur[r] = e /\ pc'[r] = "down"
               \/ e \in Overflowing
  <1>0. Refused.fits
    BY DEF Refused
  <1>1. Init => HandsInv
    BY <1>0 DEF Init, HandsInv
  <1>2. TypeOK /\ HandsInv /\ [Next]_vars => HandsInv' /\ [Explained]_vars
    BY HandsStep, StrandingStep
  <1> QED BY <1>1, <1>2, TypeCorrect, PTL DEF Spec, StrandedByFailure
=============================================================================
