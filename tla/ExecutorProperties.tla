------------------------- MODULE ExecutorProperties -------------------------
(***************************************************************************)
(* What is checked of the executor.  Which of these hold depends on the    *)
(* deployment: PrivateSessions, DropInUse and MayStop.                     *)
(***************************************************************************)
EXTENDS Executor

\* Two replicas never both believe they are inside the batch: the advisory
\* lock serialises runBatch (runner.go:90-97).
BatchIsExclusive ==
  \A r, q \in Runtimes : InBatch(r) /\ InBatch(q) => r = q

\* A bot never runs twice for one execution, across replicas, crashes and
\* restarts (store.go ClaimExecution, runner.go:172).
StartedAtMostOnce == \A e \in Executions : starts[e] <= 1

\* A row is completed only after its bot was started: no refusal, kill or
\* error path writes "completed" (runner.go:129-222).
CompletedWasStarted ==
  \A e \in Executions : status[e] = "completed" => starts[e] > 0

\* Whatever the lock does, a bot runs only for a row that has left the queue:
\* the conditional update of the claim precedes the run (store.go:238-256).
RunsOnlyClaimedRows ==
  \A r \in Runtimes :
    InExecuteOne(r) => status[cur[r]] \notin {"absent", "queued"}

\* The graceful exit of a runtime never abandons a running bot, although the
\* wait group may reach zero between two executions of a batch and main may
\* then leave while the loop is already at the next one (runner.go:68-87,
\* main.go:58-66).
ExitNeverAbandonsABot ==
  [][\A r \in Runtimes :
       phase'[r] = "exited" /\ phase[r] # "exited" => pc[r] # "bot"]_vars

\* The executor implements the life cycle the platform promises: an execution
\* is its row, and a run is a started process.
Lifecycle == INSTANCE ExecutionLifecycle WITH
  Items <- Executions, state <- status, runs <- starts
ImplementsLifecycle == Lifecycle!Spec

-----------------------------------------------------------------------------
(* Why a bot starts at most once: what the lock holder knows of its rows.  *)

\* The lock is held on one of the sessions that serve this runtime.
HasLock(r) == \E s \in SessionsFor[r] : held[s] > 0

\* A runtime inside its batch has the lock on one of its own sessions.
HolderHasLock == \A r \in Runtimes : InBatch(r) => HasLock(r)

\* Nobody touches the rows a batch has listed and not yet looked at.
ListedAreQueued ==
  \A r \in Runtimes : \A e \in todo[r] :
    /\ pc[r] \in {"batch", "verify", "prepare", "bot", "finalize"}
    /\ status[e] = "queued"

\* The row at hand is running, and its bot starts when the code says so.
CurrentIsRunning ==
  \A r \in Runtimes :
    IF pc[r] \in {"verify", "prepare", "bot", "finalize"}
    THEN /\ cur[r] \in Executions
         /\ status[cur[r]] = "running"
         /\ pc[r] \in {"verify", "prepare"} => starts[cur[r]] = 0
         /\ pc[r] = "bot" => starts[cur[r]] = 1
         /\ pc[r] = "finalize" /\ outcome[r].why = "success" => starts[cur[r]] = 1
    ELSE cur[r] = NoExecution

QueuedNotStarted ==
  \A e \in Executions : status[e] \in {"absent", "queued"} => starts[e] = 0

\* Only an execution that has its verdict asks for a review.
ReviewedIsSettled ==
  \A e \in Executions : review[e] => status[e] \in Settled \cup {"rejected"}

ExecutorInv ==
  /\ TypeOK /\ OneSessionHolds /\ HolderHasLock
  /\ ListedAreQueued /\ CurrentIsRunning
  /\ QueuedNotStarted /\ StartedAtMostOnce /\ ReviewedIsSettled

-----------------------------------------------------------------------------
(* What holds when runtimes share sessions, and of the rows a runtime      *)
(* works on even when the lock does not keep the others away from them.    *)

\* A runtime enters its batch with the lock on one of its sessions.  Inside it
\* has the lock until another runtime, served by one of the same sessions,
\* releases it there, or until the gateway closes the session: neither an
\* answer that is lost, nor a crash, a restart or a lock that is left behind
\* takes it away (store.go:88-132, 004_add_runtime_advisory_lock_rpcs.sql).
LockIsLostToOthers ==
  [][\A r \in Runtimes : InBatch(r)' /\ ~HasLock(r)' =>
       \/ InBatch(r) /\ ~HasLock(r)
       \/ \E q \in Runtimes \ {r} :
            pc[q] = "unlock" /\ SessionsFor[q] \cap SessionsFor[r] # {}
       \/ DropInUse /\ UNCHANGED loop]_vars

\* What a runtime has listed exists; what it has in hand has left the queue;
\* a success is reported of a bot that was started.
HandInv(r) ==
  /\ \A e \in todo[r] : status[e] # "absent"
  /\ pc[r] \in {"verify", "prepare", "bot", "finalize"} =>
       cur[r] \in Executions /\ status[cur[r]] \notin {"absent", "queued"}
  /\ pc[r] = "bot" \/ (pc[r] = "finalize" /\ outcome[r].why = "success") =>
       starts[cur[r]] > 0

AnyDeploymentInv ==
  TypeOK /\ CompletedWasStarted /\ \A r \in Runtimes : HandInv(r)

-----------------------------------------------------------------------------
(* Liveness, under FairSpec.                                               *)

\* A queued execution is taken up eventually, as long as one runtime stays:
\* a replica that stops inside its batch does not keep the lock for good.
QueuedIsTakenUp ==
  \A e \in Executions : status[e] = "queued" ~> status[e] # "queued"

\* An execution that a runtime which stays has claimed gets a verdict.
ClaimedGetsVerdict ==
  \A e \in Executions, r \in Runtimes \ MayStop :
    cur[r] = e ~> status[e] \in Settled \cup {"rejected"}

-----------------------------------------------------------------------------
(* What the runbook says and the code does not do.                         *)

\* RUNBOOK.md:20-22 "Timeout validation: use a bot that sleeps beyond 10
\* minutes; verify execution transitions to failed with timeout message".
BotRunIsBounded ==
  \A e \in Executions, r \in Runtimes \ MayStop :
    pc[r] = "bot" /\ cur[r] = e ~> status[e] \in Settled \cup {"rejected"}

\* RUNBOOK.md:29 "verify runtime waits for in-progress work up to 30 seconds
\* before force-cancel": a bot whose time is not up is killed only by Drain.
KilledOnlyByDrain ==
  [][\A r \in Runtimes :
       pc[r] = "bot" /\ outcome'[r].why = "cancelled" => phase[r] = "forced"]_vars

\* RUNBOOK.md:19 "execution transitions to completed and stores result on
\* success".
SuccessIsStored ==
  [][\A r \in Runtimes :
       /\ pc[r] = "finalize" /\ pc'[r] = "batch"
       /\ outcome[r].why = "success" /\ UNCHANGED mishaps
       => status'[cur[r]] = "completed"]_vars
=============================================================================
