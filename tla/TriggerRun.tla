----------------------------- MODULE TriggerRun -----------------------------
(***************************************************************************)
(* `recos run`: the CLI asks the API to trigger an execution, is told an   *)
(* id, polls that execution until it is settled and exits accordingly.     *)
(* The API inserts the row and then looks for "the latest execution" of    *)
(* this organisation, bot and repository to learn the id; the order it     *)
(* asks for is by started_at, which a queued row does not have yet.  Rows  *)
(* of earlier runs and of the dispatcher are among those it looks through. *)
(***************************************************************************)
EXTENDS Naturals, FiniteSets

CONSTANTS
  Clients,            \* runs of the CLI
  Targets, TargetOf,  \* (organisation, bot, repository) triples, and a client's
  MaxId,              \* ids are 1..MaxId; random, so taken in any order
  NullsFirst,         \* are rows without started_at first in the descending order?
  MaxFailures          \* bound: clients that meet a failed call

Ids == 1 .. MaxId

\* What the code grants of the constants.
TriggerAssumption ==
  /\ TargetOf \in [Clients -> Targets]
  /\ NullsFirst \in BOOLEAN /\ MaxFailures \in Nat /\ MaxId \in Nat

VARIABLES
  status,    \* executions.status ("absent": no row)
  target,    \* whose execution a row is
  started,   \* executions.started_at: its rank among all starts (0: null)
  clientPc, exit,  \* where a client is, and its exit
  own,       \* history: the row inserted for a client (0: none)
  watched,   \* the id the client was told
  mixed,     \* history: clients whose row was not alone when it was looked up
  hurt       \* history: clients that met a failed call

row     == <<status, target, started>>
runVars == <<row, clientPc, exit, own, watched, mixed, hurt>>

Status  == {"absent", "queued", "running", "completed", "failed", "rejected"}

\* Mutant of Settled: a rejected execution is not taken for settled.
Verdicts == {"completed", "failed"}

Settled == {"completed", "failed", "rejected"}

RunTypeOK ==
  /\ status \in [Ids -> Status] /\ target \in [Ids -> Targets]
  /\ started \in [Ids -> 0 .. MaxId]
  /\ clientPc \in [Clients -> {"idle", "lookup", "polling", "end"}]
  /\ exit \in [Clients -> {"none", "success", "failure", "error"}]
  /\ {own, watched} \subseteq [Clients -> 0 .. MaxId]
  /\ mixed \subseteq Clients /\ hurt \subseteq Clients

RunInit ==
  /\ status = [i \in Ids |-> "absent"]
  /\ target = [i \in Ids |-> CHOOSE t \in Targets : TRUE]
  /\ started = [i \in Ids |-> 0]
  /\ clientPc = [c \in Clients |-> "idle"] /\ exit = [c \in Clients |-> "none"]
  /\ own = [c \in Clients |-> 0] /\ watched = [c \in Clients |-> 0]
  /\ mixed = {} /\ hurt = {}

ClientGoto(c, point) == clientPc' = [clientPc EXCEPT ![c] = point] /\ UNCHANGED <<exit, hurt>>
ExitWith(c, x) ==
  /\ clientPc' = [clientPc EXCEPT ![c] = "end"]
  /\ exit' = [exit EXCEPT ![c] = x]

\* A request of the client fails or is refused: it prints the error and exits
\* with 1.
CallFails(c) ==
  /\ Cardinality(hurt) < MaxFailures
  /\ hurt' = hurt \cup {c}
  /\ ExitWith(c, "error")

-----------------------------------------------------------------------------
(* The API's TriggerExecution.                                             *)

NewRow(i, t) ==
  /\ status[i] = "absent"
  /\ status' = [status EXCEPT ![i] = "queued"]
  /\ target' = [target EXCEPT ![i] = t]

InsertRow(c, i) == NewRow(i, TargetOf[c]) /\ own' = [own EXCEPT ![c] = i]

Trigger(c) ==
  /\ clientPc[c] = "idle"
  /\ \/ (\E i \in Ids : InsertRow(c, i)) /\ ClientGoto(c, "lookup")
     \/ CallFails(c) /\ ((\E i \in Ids : InsertRow(c, i)) \/ UNCHANGED <<status, target, own>>)
  /\ UNCHANGED <<started, watched, mixed>>

\* ORDER BY started_at DESC, id DESC.
Before(i, j) ==
  \/ started[i] = started[j] /\ i > j
  \/ started[i] # started[j] /\ IF 0 \in {started[i], started[j]}
                                THEN (started[i] = 0) = NullsFirst
                                ELSE started[i] > started[j]

\* Mutant of RowsOf: the filters on bot and repository are dropped.
AllRows(t) == {i \in Ids : status[i] # "absent" /\ t \in Targets}

RowsOf(t) == {i \in Ids : status[i] # "absent" /\ target[i] = t}

LookUp(c) ==
  /\ clientPc[c] = "lookup"
  /\ \/ /\ \E i \in RowsOf(TargetOf[c]) :
             /\ \A j \in RowsOf(TargetOf[c]) \ {i} : Before(i, j)
             /\ watched' = [watched EXCEPT ![c] = i]
        /\ mixed' = IF RowsOf(TargetOf[c]) = {own[c]} THEN mixed ELSE mixed \cup {c}
        /\ ClientGoto(c, "polling")
     \/ CallFails(c) /\ UNCHANGED <<watched, mixed>>
  /\ UNCHANGED <<row, own>>

ExitFor(s) == IF s = "failed" THEN "failure" ELSE "success"

\* GetExecutionStatus of the id the client was told.
Seen(c) == status[watched[c]]

\* poll_execution_status, every two seconds, and the exit of `run`.
Poll(c) ==
  /\ clientPc[c] = "polling"
  /\ \/ /\ Seen(c) \in Settled
        /\ ExitWith(c, ExitFor(Seen(c)))
        /\ UNCHANGED hurt
     \/ CallFails(c)
  /\ UNCHANGED <<row, own, watched, mixed>>

-----------------------------------------------------------------------------
(* The runtime and the reviewers.                                          *)

\* The dispatcher inserts an execution of its own, of any bot and repository.
Dispatch(i) ==
  /\ \E t \in Targets : NewRow(i, t)
  /\ UNCHANGED <<started, clientPc, exit, own, watched, mixed, hurt>>

RowStep(i, from, to) ==
  /\ status[i] \in from
  /\ \E s \in to : status' = [status EXCEPT ![i] = s]
  /\ UNCHANGED <<target, clientPc, exit, own, watched, mixed, hurt>>

Claim(i) ==
  /\ RowStep(i, {"queued"}, {"running"})
  /\ started' = [started EXCEPT ![i] = Cardinality({j \in Ids : started[j] > 0}) + 1]
Finish(i) == RowStep(i, {"running"}, {"completed", "failed"}) /\ UNCHANGED started
Reject(i) == RowStep(i, {"completed", "failed"}, {"rejected"}) /\ UNCHANGED started

ClientStep(c) == Trigger(c) \/ LookUp(c) \/ Poll(c)

RunNext ==
  \/ \E c \in Clients : ClientStep(c)
  \/ \E i \in Ids : Dispatch(i) \/ Claim(i) \/ Finish(i) \/ Reject(i)

RunSpec == RunInit /\ [][RunNext]_runVars

\* A client that runs keeps polling; nothing is assumed of the runtime.
FairRunSpec == RunSpec /\ \A c \in Clients : WF_runVars(ClientStep(c))

-----------------------------------------------------------------------------
(* Properties.                                                             *)

\* README.md: the exit of a run tells about the execution that run inserted.
ExitReflectsOwnRun ==
  \A c \in Clients :
    /\ exit[c] = "success" => status[own[c]] \in {"completed", "rejected"}
    /\ exit[c] = "failure" => status[own[c]] \in {"failed", "rejected"}

\* What the code does promise.  The id a run is told is that of a row of its
\* organisation, bot and repository, its own unless another one was there when
\* it was looked up: from an earlier run, a concurrent one or the dispatcher.
\* The exit tells how that row ended (execution_service.go:159-168, main.rs).
ExitReflectsItsTarget ==
  \A c \in Clients :
    /\ watched[c] # 0 => target[watched[c]] = TargetOf[c] /\ (c \in mixed \/ watched[c] = own[c])
    /\ exit[c] = "success" => status[watched[c]] \in {"completed", "rejected"}
    /\ exit[c] = "failure" => status[watched[c]] \in {"failed", "rejected"}

\* A run returns once the execution it was told of is settled, a reviewer's
\* rejection between two polls included; when that row is left running for
\* good, the client polls for good (api_client.rs:143-151).
ReturnsOnceSettled ==
  \A c \in Clients : watched[c] # 0 /\ status[watched[c]] \in Settled ~> clientPc[c] = "end"
=============================================================================
