-------------------------- MODULE TriggerRunProofs --------------------------
(***************************************************************************)
(* Proofs about `recos run`: types, and which execution an exit is about,  *)
(* for any clients, rows of earlier runs and rows of the dispatcher.       *)
(***************************************************************************)
EXTENDS TriggerRun, FiniteSetTheorems, TLAPS

\* Types but for the bound on started, which the rows' states decide.
Typed ==
  /\ status \in [Ids -> Status] /\ target \in [Ids -> Targets]
  /\ started \in [Ids -> Nat]
  /\ clientPc \in [Clients -> {"idle", "lookup", "polling", "end"}]
  /\ exit \in [Clients -> {"none", "success", "failure", "error"}]
  /\ own \in [Clients -> 0 .. MaxId] /\ watched \in [Clients -> 0 .. MaxId]
  /\ mixed \subseteq Clients /\ hurt \subseteq Clients

\* A row that has not been claimed has no rank, and no rank exceeds the rows.
Ranked ==
  \A i \in Ids : started[i] <= MaxId /\ (status[i] \in {"absent", "queued"} => started[i] = 0)

-----------------------------------------------------------------------------
(* Types.                                                                  *)

\* The rank of a row that is claimed is one of 1..MaxId: it had none.
LEMMA NextRank ==
  ASSUME TriggerAssumption, Typed, NEW i \in Ids, started[i] = 0
  PROVE  Cardinality({j \in Ids : started[j] > 0}) + 1 \in 1 .. MaxId
  <1> DEFINE S == {j \in Ids : started[j] > 0}
  <1>1. IsFiniteSet(Ids) /\ Cardinality(Ids) = MaxId
    BY FS_Interval DEF Ids, TriggerAssumption
  <1>2. S \subseteq Ids \ {i}
    BY DEF Typed
  <1>3. IsFiniteSet(Ids \ {i}) /\ Cardinality(Ids \ {i}) = MaxId - 1
    BY <1>1, FS_RemoveElement
  <1>4. IsFiniteSet(S) /\ Cardinality(S) <= MaxId - 1
    BY <1>2, <1>3, FS_Subset
  <1>5. Cardinality(S) \in Nat
    BY <1>4, FS_CardinalityType
  <1>6. MaxId \in Nat
    BY DEF TriggerAssumption
  <1> HIDE DEF S
  <1>7. Cardinality(S) + 1 \in 1 .. MaxId
    BY <1>4, <1>5, <1>6
  <1>8. QED
    BY <1>7 DEF S

\* Every step keeps the types and the ranks.
LEMMA TriggerTypeStep ==
  ASSUME TriggerAssumption, Typed, Ranked, [RunNext]_runVars
  PROVE  Typed' /\ Ranked'
  <1> USE DEF Typed, Ranked, Status, TriggerAssumption
  <1>1. ASSUME NEW c \in Clients, NEW i \in Ids, InsertRow(c, i)
        PROVE  /\ status' \in [Ids -> Status] /\ target' \in [Ids -> Targets]
               /\ own' \in [Clients -> 0 .. MaxId]
               /\ \A j \in Ids : status'[j] \in {"absent", "queued"} =>
                                   status[j] \in {"absent", "queued"}
    BY <1>1 DEF InsertRow, NewRow, Ids
  <1>2. ASSUME NEW c \in Clients, Trigger(c) PROVE Typed' /\ Ranked'
    <2>1. /\ clientPc' \in [Clients -> {"idle", "lookup", "polling", "end"}]
          /\ exit' \in [Clients -> {"none", "success", "failure", "error"}]
          /\ hurt' \subseteq Clients /\ UNCHANGED <<started, watched, mixed>>
      BY <1>2 DEF Trigger, ClientGoto, CallFails, ExitWith
    <2>2. (\E i \in Ids : InsertRow(c, i)) \/ UNCHANGED <<status, target, own>>
      BY <1>2 DEF Trigger
    <2>3. /\ status' \in [Ids -> Status] /\ target' \in [Ids -> Targets]
          /\ own' \in [Clients -> 0 .. MaxId]
          /\ \A j \in Ids : status'[j] \in {"absent", "queued"} =>
                              status[j] \in {"absent", "queued"}
      BY <1>1, <2>2
    <2>4. QED
      BY <2>1, <2>3
  <1>3. ASSUME NEW c \in Clients, LookUp(c) PROVE Typed' /\ Ranked'
    <2>1. /\ clientPc' \in [Clients -> {"idle", "lookup", "polling", "end"}]
          /\ exit' \in [Clients -> {"none", "success", "failure", "error"}]
          /\ hurt' \subseteq Clients /\ mixed' \subseteq Clients
          /\ UNCHANGED <<status, target, started, own>>
      BY <1>3 DEF LookUp, ClientGoto, CallFails, ExitWith, row
    <2>2. watched' = watched \/ \E i \in Ids : watched' = [watched EXCEPT ![c] = i]
      BY <1>3 DEF LookUp, RowsOf
    <2>3. Ids \subseteq 0 .. MaxId
      BY DEF Ids
    <2>4. QED
      BY <2>1, <2>2, <2>3
  <1>4. ASSUME NEW c \in Clients, Poll(c) PROVE Typed' /\ Ranked'
    BY <1>4 DEF Poll, CallFails, ExitWith, ExitFor, row
  <1>5. ASSUME NEW i \in Ids, Claim(i) PROVE Typed' /\ Ranked'
    <2>1. /\ status[i] = "queued" /\ status' = [status EXCEPT ![i] = "running"]
          /\ UNCHANGED <<target, clientPc, exit, own, watched, mixed, hurt>>
      BY <1>5 DEF Claim, RowStep
    <2>2. PICK n \in 1 .. MaxId : started' = [started EXCEPT ![i] = n]
      BY <1>5, <2>1, NextRank DEF Claim
    <2>3. QED
      BY <2>1, <2>2
  <1>6. ASSUME NEW i \in Ids, Dispatch(i) \/ Finish(i) \/ Reject(i) PROVE Typed' /\ Ranked'
    BY <1>6 DEF Dispatch, NewRow, Finish, Reject, RowStep
  <1>7. CASE UNCHANGED runVars
    BY <1>7 DEF runVars, row
  <1>8. QED
    BY <1>2, <1>3, <1>4, <1>5, <1>6, <1>7 DEF RunNext, ClientStep

\* Type correctness of the trigger and its clients.
THEOREM TriggerTypes ==
  ASSUME TriggerAssumption, Targets # {} PROVE RunSpec => []RunTypeOK
  <1>1. RunInit => Typed /\ Ranked
    BY DEF RunInit, Typed, Ranked, Status, TriggerAssumption
  <1>2. Typed /\ Ranked /\ [RunNext]_runVars => (Typed /\ Ranked)'
    BY TriggerTypeStep
  <1>3. Typed /\ Ranked => RunTypeOK
    BY DEF Typed, Ranked, RunTypeOK
  <1>4. QED
    BY <1>1, <1>2, <1>3, PTL DEF RunSpec

-----------------------------------------------------------------------------
(* Which execution an exit is about.                                       *)

\* A client's row is there, and so is the one it was told of, its own unless
\* there was another; an exit follows from what was told.
Follows ==
  \A c \in Clients :
    /\ clientPc[c] = "idle" => own[c] = 0
    /\ clientPc[c] = "lookup" => own[c] # 0
    /\ clientPc[c] \in {"idle", "lookup"} => watched[c] = 0 /\ exit[c] = "none"
    /\ clientPc[c] = "polling" => watched[c] # 0 /\ exit[c] = "none"
    /\ exit[c] \in {"success", "failure"} => watched[c] # 0
    /\ own[c] # 0 => status[own[c]] # "absent" /\ target[own[c]] = TargetOf[c]
    /\ watched[c] # 0 => status[watched[c]] # "absent"

TriggerInv == Typed /\ Ranked /\ Follows /\ ExitReflectsItsTarget

\* Rows are added and move on, and never change hands; an end that was told
\* stays true, but for a later rejection.
RowsMove ==
  \A i \in Ids : status[i] # "absent" =>
    /\ status'[i] # "absent" /\ target'[i] = target[i]
    /\ status[i] \in Settled => status'[i] \in {status[i], "rejected"}

LEMMA RowsMoveStep == ASSUME Typed, [RunNext]_runVars PROVE RowsMove
  <1> USE DEF Typed, RowsMove, Settled
  <1>1. ASSUME NEW i \in Ids, NEW t, NewRow(i, t) PROVE RowsMove
    BY <1>1 DEF NewRow
  <1>2. ASSUME NEW c \in Clients, ClientStep(c) PROVE RowsMove
    BY <1>1, <1>2 DEF ClientStep, Trigger, InsertRow, LookUp, Poll, row
  <1>3. ASSUME NEW i \in Ids, Claim(i) \/ Finish(i) \/ Reject(i) PROVE RowsMove
    BY <1>3 DEF Claim, Finish, Reject, RowStep
  <1>4. ASSUME NEW i \in Ids, Dispatch(i) PROVE RowsMove
    BY <1>1, <1>4 DEF Dispatch
  <1>5. CASE UNCHANGED runVars
    BY <1>5 DEF runVars, row
  <1>6. QED
    BY <1>2, <1>3, <1>4, <1>5 DEF RunNext

\* What a client knows stays so while it makes no step, and its rows' ends too.
LEMMA OtherClients ==
  ASSUME TriggerInv, RowsMove, NEW c \in Clients,
         own'[c] = own[c], clientPc'[c] = clientPc[c], exit'[c] = exit[c],
         watched'[c] = watched[c], mixed \subseteq mixed'
  PROVE  /\ clientPc'[c] = "idle" => own'[c] = 0
         /\ clientPc'[c] = "lookup" => own'[c] # 0
         /\ clientPc'[c] \in {"idle", "lookup"} => watched'[c] = 0 /\ exit'[c] = "none"
         /\ clientPc'[c] = "polling" => watched'[c] # 0 /\ exit'[c] = "none"
         /\ exit'[c] \in {"success", "failure"} => watched'[c] # 0
         /\ own'[c] # 0 => status'[own'[c]] # "absent" /\ target'[own'[c]] = TargetOf[c]
         /\ watched'[c] # 0 => /\ status'[watched'[c]] # "absent"
                               /\ target'[watched'[c]] = TargetOf[c]
                               /\ c \in mixed' \/ watched'[c] = own'[c]
         /\ exit'[c] = "success" => status'[watched'[c]] \in {"completed", "rejected"}
         /\ exit'[c] = "failure" => status'[watched'[c]] \in {"failed", "rejected"}
  <1>1. /\ own[c] = 0 \/ own[c] \in Ids
        /\ watched[c] = 0 \/ watched[c] \in Ids
    BY DEF TriggerInv, Typed, Ids
  <1>2. QED
    BY <1>1 DEF TriggerInv, Follows, ExitReflectsItsTarget, RowsMove, Settled

\* What is left for a step of client c is that client.
LEMMA OneClient ==
  ASSUME TriggerInv, RowsMove, NEW c \in Clients, mixed \subseteq mixed',
         \A d \in Clients \ {c} : /\ own'[d] = own[d] /\ clientPc'[d] = clientPc[d]
                                  /\ exit'[d] = exit[d] /\ watched'[d] = watched[d],
         clientPc'[c] \in {"lookup", "polling", "end"},
         clientPc'[c] = "lookup" => own'[c] # 0 /\ watched'[c] = 0 /\ exit'[c] = "none",
         clientPc'[c] = "polling" => watched'[c] # 0 /\ exit'[c] = "none",
         exit'[c] \in {"success", "failure"} => watched'[c] # 0,
         own'[c] # 0 => status'[own'[c]] # "absent" /\ target'[own'[c]] = TargetOf[c],
         watched'[c] # 0 => /\ status'[watched'[c]] # "absent"
                            /\ target'[watched'[c]] = TargetOf[c]
                            /\ c \in mixed' \/ watched'[c] = own'[c],
         exit'[c] = "success" => status'[watched'[c]] \in {"completed", "rejected"},
         exit'[c] = "failure" => status'[watched'[c]] \in {"failed", "rejected"}
  PROVE  Follows' /\ ExitReflectsItsTarget'
  <1>1. Follows'
    BY OtherClients DEF Follows
  <1>2. ExitReflectsItsTarget'
    BY OtherClients DEF ExitReflectsItsTarget
  <1>3. QED
    BY <1>1, <1>2

\* Every step keeps a client at a row of its target.
LEMMA FollowsStep ==
  ASSUME TriggerAssumption, TriggerInv, [RunNext]_runVars
  PROVE  Follows' /\ ExitReflectsItsTarget'
  <1> USE DEF TriggerInv, Typed
  <1>0. RowsMove /\ \A c \in Clients : TargetOf[c] \in Targets
    BY RowsMoveStep DEF TriggerAssumption
  <1>1. ASSUME NEW c \in Clients, Trigger(c) PROVE Follows' /\ ExitReflectsItsTarget'
    <2>1. /\ clientPc[c] = "idle" /\ own[c] = 0 /\ exit[c] = "none" /\ watched[c] = 0
          /\ UNCHANGED <<started, watched, mixed>>
          /\ \/ clientPc' = [clientPc EXCEPT ![c] = "lookup"] /\ exit' = exit
                /\ \E i \in Ids : InsertRow(c, i)
             \/ clientPc' = [clientPc EXCEPT ![c] = "end"] /\ exit' = [exit EXCEPT ![c] = "error"]
          /\ (\E i \in Ids : InsertRow(c, i)) \/ UNCHANGED <<status, target, own>>
      BY <1>1 DEF Trigger, ClientGoto, CallFails, ExitWith, Follows
    <2>2. \/ own' = own
          \/ \E i \in Ids : /\ own' = [own EXCEPT ![c] = i] /\ i # 0
                            /\ status'[i] = "queued" /\ target'[i] = TargetOf[c]
      <3>1. CASE own' = own
        BY <3>1
      <3>2. ASSUME NEW i \in Ids, InsertRow(c, i)
            PROVE  /\ own' = [own EXCEPT ![c] = i] /\ i # 0
                   /\ status'[i] = "queued" /\ target'[i] = TargetOf[c]
        BY <3>2 DEF InsertRow, NewRow, Ids
      <3>3. QED
        BY <2>1, <3>1, <3>2
    <2>3. clientPc'[c] = "lookup" => \E i \in Ids : own' = [own EXCEPT ![c] = i] /\ i # 0
      BY <2>1 DEF InsertRow, Ids
    <2>4. own'[c] # 0 => status'[own'[c]] # "absent" /\ target'[own'[c]] = TargetOf[c]
      BY <2>1, <2>2
    <2>5. /\ clientPc'[c] = "lookup" => own'[c] # 0 /\ exit'[c] = "none"
          /\ clientPc'[c] \in {"lookup", "end"} /\ exit'[c] \in {"none", "error"}
          /\ watched'[c] = 0 /\ mixed \subseteq mixed'
      BY <2>1, <2>3
    <2>6. \A d \in Clients \ {c} : /\ own'[d] = own[d] /\ clientPc'[d] = clientPc[d]
                                   /\ exit'[d] = exit[d] /\ watched'[d] = watched[d]
      BY <2>1, <2>2
    <2>7. QED
      BY <1>0, <2>4, <2>5, <2>6, OneClient
  <1>2. ASSUME NEW c \in Clients, LookUp(c) PROVE Follows' /\ ExitReflectsItsTarget'
    <2>1. /\ clientPc[c] = "lookup" /\ exit[c] = "none" /\ watched[c] = 0
          /\ own[c] # 0 /\ UNCHANGED <<status, target, own>> /\ mixed \subseteq mixed'
          /\ \/ /\ clientPc' = [clientPc EXCEPT ![c] = "polling"] /\ exit' = exit
                /\ c \in mixed' \/ RowsOf(TargetOf[c]) = {own[c]}
                /\ \E i \in RowsOf(TargetOf[c]) : watched' = [watched EXCEPT ![c] = i]
             \/ /\ clientPc' = [clientPc EXCEPT ![c] = "end"] /\ exit' = [exit EXCEPT ![c] = "error"]
                /\ watched' = watched
      BY <1>2 DEF LookUp, ClientGoto, CallFails, ExitWith, Follows, row
    <2>2. \A i \in RowsOf(TargetOf[c]) : /\ i \in Ids /\ i # 0
                                         /\ status[i] # "absent" /\ target[i] = TargetOf[c]
      BY DEF RowsOf, Ids
    <2>3. own'[c] # 0 => status'[own'[c]] # "absent" /\ target'[own'[c]] = TargetOf[c]
      BY <2>1 DEF Follows
    <2>4. QED
      BY <1>0, <2>1, <2>2, <2>3, OneClient
  <1>3. ASSUME NEW c \in Clients, Poll(c) PROVE Follows' /\ ExitReflectsItsTarget'
    <2>1. /\ clientPc[c] = "polling" /\ UNCHANGED <<status, target, own, watched, mixed>>
          /\ clientPc' = [clientPc EXCEPT ![c] = "end"] /\ watched[c] # 0
          /\ \/ exit' = [exit EXCEPT ![c] = "error"]
             \/ /\ status[watched[c]] \in Settled
                /\ exit' = [exit EXCEPT ![c] = ExitFor(status[watched[c]])]
      BY <1>3 DEF Poll, CallFails, ExitWith, Seen, Follows, row
    <2>2. /\ exit'[c] = "success" => status[watched[c]] \in {"completed", "rejected"}
          /\ exit'[c] = "failure" => status[watched[c]] \in {"failed", "rejected"}
      BY <2>1 DEF ExitFor, Settled
    <2>3. /\ own[c] # 0 => status[own[c]] # "absent" /\ target[own[c]] = TargetOf[c]
          /\ status[watched[c]] # "absent" /\ target[watched[c]] = TargetOf[c]
          /\ c \in mixed \/ watched[c] = own[c]
      BY <2>1 DEF Follows, ExitReflectsItsTarget
    <2>4. QED
      BY <1>0, <2>1, <2>2, <2>3, OneClient
  <1>4. CASE UNCHANGED <<clientPc, exit, own, watched, mixed>>
    <2>1. Follows'
      BY <1>0, <1>4, OtherClients DEF Follows
    <2>2. ExitReflectsItsTarget'
      BY <1>0, <1>4, OtherClients DEF ExitReflectsItsTarget
    <2>3. QED
      BY <2>1, <2>2
  <1>5. QED
    BY <1>1, <1>2, <1>3, <1>4
       DEF RunNext, ClientStep, Dispatch, Claim, Finish, Reject, RowStep, runVars

\* The id a run is told is that of an execution of its own organisation, bot
\* and repository, and of its own row unless another one was there when it was
\* looked up; its exit tells how that execution ended.  It holds of any number
\* of runs and of dispatched rows, in any order of their ids and starts, and
\* whether nulls come first or last (execution_service.go:159-168,
\* main.rs:67-73).
THEOREM ExitIsOfTheTarget ==
  ASSUME TriggerAssumption, Targets # {}
  PROVE  RunSpec => []ExitReflectsItsTarget
  <1>1. RunInit => TriggerInv
    <2> SUFFICES ASSUME RunInit PROVE TriggerInv
      OBVIOUS
    <2>1. Typed /\ Ranked
      BY DEF RunInit, Typed, Ranked, Status, TriggerAssumption
    <2>2. Follows /\ ExitReflectsItsTarget
      BY DEF RunInit, Follows, ExitReflectsItsTarget
    <2>3. QED
      BY <2>1, <2>2 DEF TriggerInv
  <1>2. TriggerInv /\ [RunNext]_runVars => TriggerInv'
    BY TriggerTypeStep, FollowsStep DEF TriggerInv
  <1>3. TriggerInv => ExitReflectsItsTarget
    BY DEF TriggerInv
  <1>4. QED
    BY <1>1, <1>2, <1>3, PTL DEF RunSpec
=============================================================================
