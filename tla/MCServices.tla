----------------------------- MODULE MCServices -----------------------------
(***************************************************************************)
(* The runtime's two loops and the API's smaller protocols, in one run:    *)
(* the dispatcher (by way of MCDispatcher), `recos run` (TriggerRun),      *)
(* readers of the evidence (Attestations), the key set in front of the     *)
(* API's requests (KeySet), and the executor.  The five models share no    *)
(* state, so a behaviour is one of them at work while the others stay as   *)
(* they are: interleaving them would show nothing more.                    *)
(***************************************************************************)
EXTENDS MCDispatcher, TriggerRun, Attestations, KeySet

CONSTANTS e1, none,                           \* Executor
          c1, c2, t1, t2,                     \* TriggerRun
          q1, q2, q3,                         \* KeySet
          a1, a2, a3, x1, x2, x3, p1, p2, h1  \* Attestations

\* Two runs of the CLI, of one bot on one repository; the dispatcher's rows may
\* be of another.
MCTargetOf == [c \in {c1, c2} |-> t1]

\* Three attempts for executions of two repositories.
MCAttestedBy == a1 :> x1 @@ a2 :> x2 @@ a3 :> x3
MCHashOf     == [a \in {a1, a2, a3} |-> h1]
MCRepoOf     == x1 :> p1 @@ x2 :> p1 @@ x3 :> p2

VARIABLES
  part,   \* which of the five is at work
  lock, execStatus, review, execPc, phase, granted, listed, cur, outcome, starts, lapses,
  restarts

\* Two replicas on a pool of sessions that close under them, one of which may
\* stop, and one row.
Exec == INSTANCE ExecutorProperties WITH
  held <- lock, status <- execStatus, pc <- execPc, todo <- listed, mishaps <- lapses,
  SessionsFor <- [r \in {r1, r2} |-> {s1, s2}], MaxHold <- 2,
  Executions <- {e1}, NoExecution <- none, Runnable <- {e1}, Overflowing <- {},
  Lingering <- {}, BatchLimit <- 1, MayStop <- {r1}, DropInUse <- TRUE,
  MaxMishaps <- 0, MaxRestarts <- 0

ASSUME InstanceAssumptions ==
  DispatcherAssumption /\ Exec!ExecutorAssumption /\ TriggerAssumption /\ AttestationsAssumption

execVars == <<lock, execStatus, review, execPc, phase, granted, listed, cur, outcome, starts,
              lapses, restarts>>
others   == <<execVars, runVars, keyVars, evidenceVars>>
allVars  == <<part, vars, others>>

ServicesInit ==
  /\ part \in {"executor", "dispatcher", "run", "keys", "evidence"}
  /\ Init /\ Exec!Init /\ RunInit /\ KeyInit /\ EvidenceInit

ServicesNext ==
  \/ part = "dispatcher" /\ Next
     /\ UNCHANGED <<part, others>>
  \/ part = "executor" /\ Exec!Next
     /\ UNCHANGED <<part, vars, runVars, keyVars, evidenceVars>>
  \/ part = "run" /\ RunNext
     /\ UNCHANGED <<part, vars, execVars, keyVars, evidenceVars>>
  \/ part = "keys" /\ KeyNext
     /\ UNCHANGED <<part, vars, execVars, runVars, evidenceVars>>
  \/ part = "evidence" /\ EvidenceNext
     /\ UNCHANGED <<part, vars, execVars, runVars, keyVars>>

\* The fairness of each model, while it is at work.
ServicesSpec ==
  /\ ServicesInit /\ [][ServicesNext]_allVars
  /\ \A r \in Runtimes : WF_vars(part = "dispatcher" /\ LoopStep(r))
  /\ \A s \in Sessions : WF_vars(part = "dispatcher" /\ DropSession(s))
  /\ \A r \in Runtimes : WF_execVars(part = "executor" /\ Exec!LoopStep(r))
  /\ \A r \in Runtimes : WF_execVars(part = "executor" /\ Exec!MainStep(r))
  /\ \A s \in Sessions : WF_execVars(part = "executor" /\ Exec!DropSession(s))
  /\ \A c \in Clients : WF_runVars(part = "run" /\ ClientStep(c))
  /\ \A q \in Requests : SF_keyVars(part = "keys" /\ KeyStep(q))

-----------------------------------------------------------------------------
(* Properties of the instance, and those that ask who is at work.          *)

\* A row is taken up while a runtime stays, on a shared pool as well.
QueuedIsTakenUp == Exec!QueuedIsTakenUp

\* A claimed row gets its verdict.
ClaimedGetsVerdict == Exec!ClaimedGetsVerdict

\* Every request gets past the cache, with keys or without.
RequestsGoOn == part = "keys" => EveryRequestGoesOn
=============================================================================
