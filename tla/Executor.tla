------------------------------ MODULE Executor ------------------------------
(***************************************************************************)
(* The executor half of the runtime: replicas of one process, each with a  *)
(* loop (Runner.Run / runBatch) that takes the advisory lock, lists queued *)
(* execution rows, claims them one by one, runs the bot's binary and       *)
(* writes the verdict; and main's shutdown sequence around that loop.      *)
(*                                                                         *)
(* Every request to the database is a step of its own, so that crashes,    *)
(* signals and other replicas come between any two of them.  A request may *)
(* also fail, or take effect and lose its answer: that uses up "mishaps".  *)
(***************************************************************************)
EXTENDS AdvisoryLock, FiniteSets

CONSTANTS
  Executions,     \* ids of execution rows
  NoExecution,    \* "no row"
  Runnable,       \* executions whose trigger, bot, repo, manifest and binary are sound
  Overflowing,    \* executions whose encoded result may exceed maxResultPayloadLen
  Lingering,      \* executions whose bot leaves a child behind that never lets
                  \* go of the output pipes
  BatchLimit,     \* rows listed per batch (10 in the code)
  MayStop,        \* runtimes that may crash or be told to stop
  DropInUse,      \* may the gateway close the session of a lock holder?
  MaxMishaps,     \* bound: failed requests and lost answers
  MaxRestarts     \* bound: restarts of stopped or crashed runtimes

ASSUME ExecutorAssumption ==
  /\ NoExecution \notin Executions
  /\ Runnable \subseteq Executions
  /\ Overflowing \subseteq Executions
  /\ Lingering \subseteq Executions
  /\ BatchLimit \in Nat \ {0}
  /\ MayStop \subseteq Runtimes
  /\ DropInUse \in BOOLEAN
  /\ MaxMishaps \in Nat
  /\ MaxRestarts \in Nat

VARIABLES
  status,     \* executions.status of every row ("absent": not inserted yet)
  review,     \* executions.requires_review of every row
  pc,         \* where the executor goroutine of a runtime is
  phase,      \* where main is: running, or in its shutdown sequence
  granted,    \* the database's answer to a runtime's last try-lock
  todo,       \* rows listed by the batch under way and not yet looked at
  cur,        \* the row being claimed, run or finalized
  outcome,    \* what executeOne is about to write for cur
  starts,     \* history: how many times a bot was started for a row
  mishaps, restarts

rows   == <<status, review>>
loop   == <<pc, granted, todo, cur, outcome>>
budget == <<mishaps, restarts>>
vars   == <<held, rows, loop, phase, starts, budget>>

Settled  == {"completed", "failed"}
Status   == {"absent", "queued", "running", "rejected"} \cup Settled
Phases   == {"up", "stopping", "draining", "forced", "drained", "exited", "crashed"}
Points   == {"down", "idle", "locking", "list", "batch", "verify", "prepare",
             "bot", "finalize", "unlock", "stopped"}
Causes   == {"success", "refused", "exit code", "timeout", "cancelled"}
Outcomes == [why : Causes, fits : BOOLEAN, review : BOOLEAN]
Refused  == [why |-> "refused", fits |-> TRUE, review |-> FALSE]

\* Mutants of Verdict: the cause as it is; only a process that ran can fail.
RawVerdict(o)        == o.why
OptimisticVerdict(o) == IF o.why \in {"exit code", "timeout"} THEN "failed" ELSE "completed"

Verdict(o) == IF o.why = "success" THEN "completed" ELSE "failed"

\* runBatch between the grant of the lock and the release.
InBatch(r) ==
  \/ pc[r] \in {"list", "batch", "verify", "prepare", "bot", "finalize", "unlock"}
  \/ pc[r] = "locking" /\ granted[r]

\* Between wg.Add(1) and wg.Done(): what Drain waits for.
InExecuteOne(r) == pc[r] \in {"prepare", "bot", "finalize"}

TypeOK ==
  /\ LockTypeOK
  /\ status \in [Executions -> Status]
  /\ review \in [Executions -> BOOLEAN]
  /\ pc \in [Runtimes -> Points]
  /\ phase \in [Runtimes -> Phases]
  /\ granted \in [Runtimes -> BOOLEAN]
  /\ todo \in [Runtimes -> SUBSET Executions]
  /\ cur \in [Runtimes -> Executions \cup {NoExecution}]
  /\ outcome \in [Runtimes -> Outcomes]
  /\ starts \in [Executions -> Nat]
  /\ mishaps \in Nat
  /\ restarts \in Nat

Init ==
  /\ LockInit
  /\ status = [e \in Executions |-> "absent"]
  /\ review = [e \in Executions |-> FALSE]
  /\ pc = [r \in Runtimes |-> "idle"]
  /\ phase = [r \in Runtimes |-> "up"]
  /\ granted = [r \in Runtimes |-> FALSE]
  /\ todo = [r \in Runtimes |-> {}]
  /\ cur = [r \in Runtimes |-> NoExecution]
  /\ outcome = [r \in Runtimes |-> Refused]
  /\ starts = [e \in Executions |-> 0]
  /\ mishaps = 0
  /\ restarts = 0

Goto(r, point) == pc' = [pc EXCEPT ![r] = point]
Mishap == mishaps < MaxMishaps /\ mishaps' = mishaps + 1 /\ UNCHANGED restarts

-----------------------------------------------------------------------------
(* The lock around a batch.                                                *)

\* The request is sent and the database answers it.  A context that is
\* already cancelled sends nothing, hence the guard on phase.
TryLock(r) ==
  /\ pc[r] = "idle" /\ phase[r] = "up"
  /\ \E s \in SessionsFor[r], g \in BOOLEAN :
       TryLockOn(s, g) /\ granted' = [granted EXCEPT ![r] = g]
  /\ Goto(r, "locking")
  /\ UNCHANGED <<rows, todo, cur, outcome, phase, starts, budget>>

\* The answer reaches the runtime, which enters the batch if it was granted.
\* A cancelled context drops the answer, the lock staying taken.
LockAnswer(r) ==
  /\ pc[r] = "locking"
  /\ Goto(r, IF granted[r] /\ phase[r] = "up" THEN "list" ELSE "idle")
  /\ granted' = [granted EXCEPT ![r] = FALSE]
  /\ UNCHANGED <<held, rows, todo, cur, outcome, phase, starts, budget>>

\* The answer is lost (15 s client timeout, connection reset).
LockAnswerLost(r) ==
  /\ pc[r] = "locking"
  /\ Mishap
  /\ Goto(r, "idle")
  /\ granted' = [granted EXCEPT ![r] = FALSE]
  /\ UNCHANGED <<held, rows, todo, cur, outcome, phase, starts>>

\* The deferred release, on whichever session the gateway picks.
Unlock(r) ==
  /\ pc[r] = "unlock"
  /\ Goto(r, "idle")
  /\ \/ (\E s \in SessionsFor[r] : UnlockOn(s)) /\ UNCHANGED budget
     \/ Mishap /\ UNCHANGED held
  /\ UNCHANGED <<rows, granted, todo, cur, outcome, phase, starts>>

-----------------------------------------------------------------------------
(* The batch.                                                              *)

\* Mutant of Queued: rows that a stopped runtime left running are listed again.
Unfinished == {e \in Executions : status[e] \in {"queued", "running"}}

Queued == {e \in Executions : status[e] = "queued"}

\* At most BatchLimit queued rows, in no particular order; on an error the
\* batch is given up.
ListQueued(r) ==
  /\ pc[r] = "list"
  /\ \/ /\ \E S \in SUBSET Queued :
             /\ Cardinality(S) <= BatchLimit
             /\ S = Queued \/ Cardinality(S) = BatchLimit
             /\ todo' = [todo EXCEPT ![r] = S]
        /\ Goto(r, "batch")
        /\ UNCHANGED budget
     \/ Mishap /\ Goto(r, "unlock") /\ UNCHANGED todo
  /\ UNCHANGED <<held, rows, granted, cur, outcome, phase, starts>>

\* Mutant of MarkRunning: the claim is never written.
ForgetToMark(e) == e \in Executions /\ UNCHANGED status

\* UPDATE executions SET status = 'running' WHERE id = e AND status = 'queued'.
MarkRunning(e) ==
  status' = [status EXCEPT ![e] = IF @ = "queued" THEN "running" ELSE @]

\* Mutant of Claim: an error of the claim is not looked at.
ClaimAnyway(r, e) ==
  /\ pc[r] = "batch" /\ e \in todo[r]
  /\ todo' = [todo EXCEPT ![r] = @ \ {e}]
  /\ cur' = [cur EXCEPT ![r] = e]
  /\ Goto(r, "prepare")
  /\ (MarkRunning(e) /\ UNCHANGED budget) \/ (Mishap /\ UNCHANGED status)
  /\ UNCHANGED <<held, review, granted, outcome, phase, starts>>

\* First request of ClaimExecution.  The context is not consulted: the batch
\* goes on after a shutdown signal.
Claim(r, e) ==
  /\ pc[r] = "batch" /\ e \in todo[r]
  /\ todo' = [todo EXCEPT ![r] = @ \ {e}]
  /\ \/ /\ MarkRunning(e)
        /\ cur' = [cur EXCEPT ![r] = e]
        /\ Goto(r, "verify")
        /\ UNCHANGED budget
     \/ /\ Mishap
        /\ MarkRunning(e) \/ UNCHANGED status
        /\ UNCHANGED <<cur, pc>>
  /\ UNCHANGED <<held, review, granted, outcome, phase, starts>>

\* Second request of ClaimExecution: the row counts as claimed when it is
\* running, whoever made it so.
VerifyClaim(r) ==
  /\ pc[r] = "verify"
  /\ \/ status[cur[r]] = "running" /\ Goto(r, "prepare") /\ UNCHANGED <<cur, budget>>
     \/ /\ \/ status[cur[r]] # "running" /\ UNCHANGED budget
           \/ Mishap
        /\ Goto(r, "batch")
        /\ cur' = [cur EXCEPT ![r] = NoExecution]
  /\ UNCHANGED <<held, rows, granted, todo, outcome, phase, starts>>

EndBatch(r) ==
  /\ pc[r] = "batch" /\ todo[r] = {}
  /\ Goto(r, "unlock")
  /\ UNCHANGED <<held, rows, granted, todo, cur, outcome, phase, starts, budget>>

-----------------------------------------------------------------------------
(* executeOne.                                                             *)

Conclude(r, o) ==
  /\ outcome' = [outcome EXCEPT ![r] = o]
  /\ Goto(r, "finalize")
  /\ UNCHANGED <<held, rows, granted, todo, cur, phase, starts>>

\* One of the checks before the process is started fails, or a request they
\* need does.
RefuseRun(r) ==
  /\ pc[r] = "prepare"
  /\ \/ cur[r] \notin Runnable /\ UNCHANGED budget
     \/ Mishap
  /\ Conclude(r, Refused)

\* command.Run with a context that is already cancelled starts nothing.
CancelledBeforeStart(r) ==
  /\ pc[r] = "prepare" /\ cur[r] \in Runnable /\ phase[r] # "up"
  /\ Conclude(r, [Refused EXCEPT !.why = "cancelled"])
  /\ UNCHANGED budget

StartBot(r) ==
  /\ pc[r] = "prepare" /\ cur[r] \in Runnable /\ phase[r] = "up"
  /\ starts' = [starts EXCEPT ![cur[r]] = @ + 1]
  /\ Goto(r, "bot")
  /\ UNCHANGED <<held, rows, granted, todo, cur, outcome, phase, budget>>

\* Mutant of ResultsOf: nothing bounds the result, any may be oversized.
UnboundedResults(r, causes) == {o \in Outcomes : r \in Runtimes /\ o.why \in causes}

\* What executeOne may report of a process that ended for one of these reasons.
ResultsOf(r, causes) ==
  {o \in Outcomes : o.why \in causes /\ (~o.fits => cur[r] \in Overflowing)}

\* command.Run returns when the process has ended AND its output is closed:
\* no WaitDelay is set, and a kill reaches the process but not its children.
RunReturns(r) == cur[r] \notin Lingering

\* The process ends by itself or at its time limit.
BotEnds(r) ==
  /\ pc[r] = "bot" /\ RunReturns(r)
  /\ \E o \in ResultsOf(r, {"success", "exit code", "timeout"}) : Conclude(r, o)
  /\ UNCHANGED budget

\* runCtx descends from main's context: a shutdown signal kills the process.
BotKilled(r) ==
  /\ pc[r] = "bot" /\ RunReturns(r) /\ phase[r] # "up"
  /\ \E o \in ResultsOf(r, {"cancelled"}) : Conclude(r, o)
  /\ UNCHANGED budget

WriteVerdict(e, o) ==
  /\ status' = [status EXCEPT ![e] = Verdict(o)]
  /\ review' = [review EXCEPT ![e] = o.review]

\* FinalizeExecution: an oversized result is refused before anything is sent;
\* otherwise the row is overwritten whatever its status.
Finalize(r) ==
  /\ pc[r] = "finalize"
  /\ \/ ~outcome[r].fits /\ UNCHANGED <<rows, budget>>
     \/ outcome[r].fits /\ WriteVerdict(cur[r], outcome[r]) /\ UNCHANGED budget
     \/ /\ outcome[r].fits /\ Mishap
        /\ WriteVerdict(cur[r], outcome[r]) \/ UNCHANGED rows
  /\ Goto(r, "batch")
  /\ cur' = [cur EXCEPT ![r] = NoExecution]
  /\ outcome' = [outcome EXCEPT ![r] = Refused]
  /\ UNCHANGED <<held, granted, todo, phase, starts>>

-----------------------------------------------------------------------------
(* main: shutdown, crash, restart.                                         *)

PhaseStep(r, from, to) ==
  /\ phase[r] \in from
  /\ phase' = [phase EXCEPT ![r] = to]
  /\ UNCHANGED <<held, rows, starts>>

Sigterm(r) ==
  /\ r \in MayStop
  /\ PhaseStep(r, {"up"}, "stopping")
  /\ UNCHANGED <<loop, budget>>

\* The loop goroutine sees the cancelled context and returns.
LoopStops(r) ==
  /\ pc[r] = "idle" /\ phase[r] \in {"stopping", "draining", "forced", "drained"}
  /\ Goto(r, "stopped")
  /\ UNCHANGED <<held, rows, granted, todo, cur, outcome, phase, starts, budget>>

\* main stops waiting for the loops: they returned, or 30 s went by.
StartDrain(r) == PhaseStep(r, {"stopping"}, "draining") /\ UNCHANGED <<loop, budget>>

\* Drain's own 30 s went by: it cancels the registered contexts.
DrainTimeout(r) ==
  /\ InExecuteOne(r)
  /\ PhaseStep(r, {"draining"}, "forced")
  /\ UNCHANGED <<loop, budget>>

\* Mutant of WaitGroupZero: Drain returns without waiting.
DrainAtOnce(r) ==
  /\ PhaseStep(r, {"draining", "forced"}, "drained")
  /\ UNCHANGED <<loop, budget>>

\* wg.Wait returns: no executeOne is under way at this moment.
WaitGroupZero(r) ==
  /\ ~InExecuteOne(r)
  /\ PhaseStep(r, {"draining", "forced"}, "drained")
  /\ UNCHANGED <<loop, budget>>

GoDown(r) ==
  /\ Goto(r, "down")
  /\ granted' = [granted EXCEPT ![r] = FALSE]
  /\ todo' = [todo EXCEPT ![r] = {}]
  /\ cur' = [cur EXCEPT ![r] = NoExecution]
  /\ outcome' = [outcome EXCEPT ![r] = Refused]

\* main returns, wherever the loop goroutine happens to be.
Exit(r) == PhaseStep(r, {"drained"}, "exited") /\ GoDown(r) /\ UNCHANGED budget

Crash(r) ==
  /\ r \in MayStop
  /\ PhaseStep(r, {"up", "stopping", "draining", "forced", "drained"}, "crashed")
  /\ GoDown(r)
  /\ UNCHANGED budget

Restart(r) ==
  /\ pc[r] = "down" /\ restarts < MaxRestarts
  /\ restarts' = restarts + 1
  /\ PhaseStep(r, {"exited", "crashed"}, "up")
  /\ Goto(r, "idle")
  /\ UNCHANGED <<granted, todo, cur, outcome, mishaps>>

-----------------------------------------------------------------------------
(* What the rest of the system does to the rows and to the sessions.       *)

\* The API's trigger or the dispatcher inserts the row.
Submit(e) ==
  /\ status[e] = "absent"
  /\ status' = [status EXCEPT ![e] = "queued"]
  /\ UNCHANGED <<held, review, loop, phase, starts, budget>>

\* A reviewer rejects a review item of an execution that asked for one; the
\* update does not look at the status it overwrites.
Reject(e) ==
  /\ review[e]
  /\ status' = [status EXCEPT ![e] = "rejected"]
  /\ UNCHANGED <<held, review, loop, phase, starts, budget>>

DropSession(s) ==
  /\ DropInUse \/ \A r \in Runtimes : s \in SessionsFor[r] => ~InBatch(r)
  /\ CloseSession(s)
  /\ UNCHANGED <<rows, loop, phase, starts, budget>>

-----------------------------------------------------------------------------
LoopStep(r) ==
  \/ TryLock(r) \/ LockAnswer(r) \/ LockAnswerLost(r) \/ Unlock(r)
  \/ ListQueued(r) \/ VerifyClaim(r) \/ EndBatch(r)
  \/ \E e \in Executions : Claim(r, e)
  \/ RefuseRun(r) \/ CancelledBeforeStart(r) \/ StartBot(r)
  \/ BotEnds(r) \/ BotKilled(r) \/ Finalize(r)
  \/ LoopStops(r)

MainStep(r) ==
  StartDrain(r) \/ DrainTimeout(r) \/ WaitGroupZero(r) \/ Exit(r)

Next ==
  \/ \E r \in Runtimes :
       LoopStep(r) \/ MainStep(r) \/ Sigterm(r) \/ Crash(r) \/ Restart(r)
  \/ \E e \in Executions : Submit(e) \/ Reject(e)
  \/ \E s \in Sessions : DropSession(s)

Spec == Init /\ [][Next]_vars

\* A live process keeps executing, a bot that leaves no child behind ends at
\* the latest at its time limit, main's timers fire, and the gateway closes
\* idle sessions in the end.  Nothing is assumed of crashes, restarts or of the reviewers.
Fairness ==
  /\ \A r \in Runtimes : WF_vars(LoopStep(r)) /\ WF_vars(MainStep(r))
  /\ \A s \in Sessions : WF_vars(DropSession(s))

FairSpec == Spec /\ Fairness
=============================================================================
