-------------------------- MODULE DispatcherProofs --------------------------
(***************************************************************************)
(* Proofs about the dispatcher, for any number of runtimes, events, bots,  *)
(* failures and stops.  The first half holds in any deployment, the second *)
(* where every runtime has database sessions of its own.                   *)
(***************************************************************************)
EXTENDS Dispatcher, FiniteSetTheorems, TLAPS

USE DEF LockTypeOK

\* The event in hand is one of the batch.
HandIsListed ==
  \A r \in Runtimes : pc[r] = "bots" => hand[r] \in Events /\ hand[r] \in todo[r]

-----------------------------------------------------------------------------
(* Types.                                                                  *)

\* The initial state is well typed.
LEMMA DispatcherInit ==
  ASSUME DispatcherAssumption, Init PROVE TypeOK /\ HandIsListed
  <1>1. \A r \in Runtimes : pc[r] = "idle"
    BY DEF Init
  <1>2. /\ held \in [Sessions -> Nat] /\ arrived \in 0 .. MaxEvents
        /\ processed \in [Events -> BOOLEAN] /\ pc \in [Runtimes -> Points]
        /\ stopping \in [Runtimes -> BOOLEAN] /\ todo \in [Runtimes -> SUBSET Events]
        /\ hand \in [Runtimes -> Events \cup {0}] /\ bots \in [Runtimes -> SUBSET Bots]
        /\ mishaps = 0 /\ stops = 0
    BY DEF Init, LockInit, DispatcherAssumption, Points
  <1>3. made \in [Events -> [Bots -> Nat]]
    BY DEF Init
  <1>4. QED
    BY <1>1, <1>2, <1>3 DEF TypeOK, HandIsListed

\* What an insert makes of the table.
LEMMA Inserted ==
  ASSUME TypeOK, NEW ev \in Events, NEW b \in Bots, Insert(ev, b)
  PROVE  /\ made' \in [Events -> [Bots -> Nat]]
         /\ \A f \in Events, c \in Bots :
              made'[f][c] = IF f = ev /\ c = b THEN made[f][c] + 1 ELSE made[f][c]
  <1>1. made \in [Events -> [Bots -> Nat]]
    BY DEF TypeOK
  <1>2. made' = [made EXCEPT ![ev] = [made[ev] EXCEPT ![b] = made[ev][b] + 1]]
    BY DEF Insert
  <1>3. [made[ev] EXCEPT ![b] = made[ev][b] + 1] \in [Bots -> Nat]
    BY <1>1
  <1>4. QED
    BY <1>1, <1>2, <1>3

\* The effect of a round of the loop over the installations.
LEMMA Looked ==
  ASSUME TypeOK, HandIsListed, NEW r \in Runtimes, NEW b \in Bots, LookAtBot(r, b)
  PROVE  /\ pc[r] = "bots" /\ b \in bots[r] /\ hand[r] \in Events
         /\ bots' = [bots EXCEPT ![r] = @ \ {b}]
         /\ UNCHANGED <<held, arrived, processed, pc, stopping, todo, hand, stops>>
         /\ \/ mishaps' = mishaps /\ made' = made
               /\ (b \notin Triggered(hand[r]) \/ hand[r] \in WithoutRepo)
            \/ mishaps' = mishaps + 1 /\ made' = made
            \/ /\ mishaps' \in {mishaps, mishaps + 1} /\ b \in Triggered(hand[r])
               /\ Insert(hand[r], b)
         /\ made' \in [Events -> [Bots -> Nat]]
  <1>1. /\ pc[r] = "bots" /\ b \in bots[r] /\ hand[r] \in Events
        /\ bots' = [bots EXCEPT ![r] = @ \ {b}]
        /\ UNCHANGED <<held, arrived, processed, pc, stopping, todo, hand, stops>>
    BY DEF LookAtBot, HandIsListed
  <1>2. \/ mishaps' = mishaps /\ made' = made
           /\ (b \notin Triggered(hand[r]) \/ hand[r] \in WithoutRepo)
        \/ mishaps' = mishaps + 1 /\ made' = made
        \/ /\ mishaps' \in {mishaps, mishaps + 1} /\ b \in Triggered(hand[r])
           /\ Insert(hand[r], b)
    BY DEF LookAtBot, NoMishap, Mishap
  <1>3. made' \in [Events -> [Bots -> Nat]]
    <2>1. CASE made' = made
      BY <2>1 DEF TypeOK
    <2>2. CASE Insert(hand[r], b)
      BY <1>1, <2>2, Inserted
    <2>3. QED
      BY <1>2, <2>1, <2>2
  <1>4. QED
    BY <1>1, <1>2, <1>3

\* Every variable keeps its type.
LEMMA DispatcherTypeStep ==
  ASSUME DispatcherAssumption, TypeOK, HandIsListed, [Next]_vars
  PROVE  TypeOK'
  <1> USE LockAssumption
  <1> USE DEF TypeOK, Goto, Mishap, NoMishap
  <1>0. 1 .. arrived \subseteq Events /\ \A ev \in Events : ev # 0
    BY DEF Events, DispatcherAssumption
  <1>1. ASSUME NEW r \in Runtimes, TryLock(r) PROVE TypeOK'
    <2>1. held' \in [Sessions -> Nat]
      BY <1>1 DEF TryLock, TryLockOn
    <2>2. pc' \in [Runtimes -> Points] /\ mishaps' \in Nat
      BY <1>1 DEF TryLock, Points
    <2>3. QED
      BY <1>1, <2>1, <2>2 DEF TryLock
  <1>2. ASSUME NEW r \in Runtimes, Unlock(r) PROVE TypeOK'
    BY <1>2 DEF Unlock, UnlockOn, Points
  <1>3. ASSUME NEW r \in Runtimes, ListEvents(r) PROVE TypeOK'
    <2> DEFINE batch == Oldest(Unprocessed, BatchLimit)
    <2>1. batch \in SUBSET Events
      BY <1>0 DEF Oldest, Unprocessed
    <2>2. /\ todo' = [todo EXCEPT ![r] = batch] \/ todo' = todo
          /\ pc' = [pc EXCEPT ![r] = "batch"] \/ pc' = [pc EXCEPT ![r] = "unlock"]
          /\ mishaps' \in Nat
          /\ UNCHANGED <<held, arrived, processed, made, stopping, hand, bots, stops>>
      BY <1>3 DEF ListEvents
    <2> HIDE DEF batch
    <2>3. QED
      BY <2>1, <2>2 DEF Points
  <1>4. ASSUME NEW r \in Runtimes, TakeEvent(r) PROVE TypeOK'
    <2>1. PICK ev \in Oldest(todo[r], 1) :
            \/ /\ hand' = [hand EXCEPT ![r] = ev]
               /\ bots' = [bots EXCEPT ![r] = ActiveInstallations(ev)]
               /\ Goto(r, "bots") /\ UNCHANGED <<todo, mishaps>>
            \/ /\ mishaps' \in Nat
               /\ todo' = [todo EXCEPT ![r] = AfterError(@, ev)]
               /\ UNCHANGED <<pc, hand, bots>>
      BY <1>4 DEF TakeEvent
    <2>2. ev \in todo[r] /\ ev \in Events
      BY DEF Oldest
    <2>3. PICK active \in SUBSET Bots : active = ActiveInstallations(ev)
      BY <2>2 DEF ActiveInstallations, DispatcherAssumption
    <2>4. UNCHANGED <<held, arrived, processed, made, stopping, stops>>
      BY <1>4 DEF TakeEvent
    <2>5. CASE /\ hand' = [hand EXCEPT ![r] = ev] /\ bots' = [bots EXCEPT ![r] = active]
               /\ Goto(r, "bots") /\ UNCHANGED <<todo, mishaps>>
      BY <2>2, <2>4, <2>5 DEF Points
    <2>6. CASE /\ mishaps' \in Nat /\ todo' = [todo EXCEPT ![r] = todo[r] \ {ev}]
               /\ UNCHANGED <<pc, hand, bots>>
      BY <2>4, <2>6
    <2>7. QED
      BY <2>1, <2>3, <2>5, <2>6 DEF AfterError
  <1>5. ASSUME NEW r \in Runtimes, NEW b \in Bots, LookAtBot(r, b) PROVE TypeOK'
    <2>1. /\ mishaps' \in Nat /\ made' \in [Events -> [Bots -> Nat]]
          /\ bots' = [bots EXCEPT ![r] = @ \ {b}]
          /\ UNCHANGED <<held, arrived, processed, pc, stopping, todo, hand, stops>>
      BY <1>5, Looked
    <2>2. QED
      BY <2>1
  <1>6. ASSUME NEW r \in Runtimes, MarkProcessed(r) PROVE TypeOK'
    <2>1. /\ pc[r] = "bots" /\ hand[r] \in Events
          /\ processed' = [processed EXCEPT ![hand[r]] = TRUE] \/ processed' = processed
          /\ mishaps' \in Nat
          /\ todo' = [todo EXCEPT ![r] = @ \ {hand[r]}] /\ hand' = [hand EXCEPT ![r] = 0]
          /\ pc' = [pc EXCEPT ![r] = "batch"]
          /\ UNCHANGED <<held, arrived, made, stopping, bots, stops>>
      BY <1>6 DEF MarkProcessed, HandIsListed
    <2>2. processed' \in [Events -> BOOLEAN]
      BY <2>1
    <2>3. QED
      BY <2>1, <2>2 DEF Points
  <1>7. ASSUME NEW r \in Runtimes, EndBatch(r) PROVE TypeOK'
    BY <1>7 DEF EndBatch, Points
  <1>8. ASSUME NEW r \in Runtimes, Sigterm(r) PROVE TypeOK'
    <2>1. stops' \in Nat /\ stopping' \in [Runtimes -> BOOLEAN]
      BY <1>8 DEF Sigterm
    <2>2. QED
      BY <1>8, <2>1 DEF Sigterm
  <1>9. ASSUME NEW r \in Runtimes, Restart(r) PROVE TypeOK'
    BY <1>9 DEF Restart, Points
  <1>10. ASSUME NEW r \in Runtimes, GoDown(r) PROVE TypeOK'
    BY <1>10 DEF GoDown, Points
  <1>11. ASSUME NEW s \in Sessions, DropSession(s) PROVE TypeOK'
    BY <1>11 DEF DropSession, CloseSession
  <1>12. CASE Arrive
    BY <1>12 DEF Arrive, DispatcherAssumption
  <1>13. CASE UNCHANGED vars
    BY <1>13 DEF vars
  <1>14. QED
    BY <1>1, <1>2, <1>3, <1>4, <1>5, <1>6, <1>7, <1>8, <1>9, <1>10, <1>11, <1>12, <1>13
    DEF Next, LoopStep

\* The event in hand stays in the batch until the batch is done with it.
LEMMA HandStep ==
  ASSUME TypeOK, HandIsListed, [Next]_vars
  PROVE  HandIsListed'
  <1> USE DEF TypeOK, HandIsListed, Goto
  <1>1. ASSUME NEW r \in Runtimes,
               \A q \in Runtimes \ {r} :
                  pc'[q] = pc[q] /\ hand'[q] = hand[q] /\ todo'[q] = todo[q],
               pc'[r] = "bots" => hand'[r] \in Events /\ hand'[r] \in todo'[r]
        PROVE  HandIsListed'
    BY <1>1
  <1>2. ASSUME UNCHANGED <<pc, hand, todo>> PROVE HandIsListed'
    BY <1>2
  <1>3. ASSUME NEW r \in Runtimes,
               TryLock(r) \/ Unlock(r) \/ ListEvents(r) \/ EndBatch(r) \/ MarkProcessed(r)
               \/ GoDown(r) \/ Restart(r)
        PROVE  HandIsListed'
    <2>1. pc'[r] # "bots"
      BY <1>3 DEF TryLock, Unlock, ListEvents, EndBatch, MarkProcessed, GoDown, Restart
    <2>2. \A q \in Runtimes \ {r} :
            pc'[q] = pc[q] /\ hand'[q] = hand[q] /\ todo'[q] = todo[q]
      BY <1>3 DEF TryLock, Unlock, ListEvents, EndBatch, MarkProcessed, GoDown, Restart
    <2>3. QED
      BY <1>1, <2>1, <2>2
  <1>4. ASSUME NEW r \in Runtimes, TakeEvent(r) PROVE HandIsListed'
    <2>1. PICK ev \in todo[r] :
            \/ /\ hand' = [hand EXCEPT ![r] = ev] /\ pc' = [pc EXCEPT ![r] = "bots"]
               /\ todo' = todo
            \/ pc[r] = "batch" /\ (\E T : todo' = [todo EXCEPT ![r] = T]) /\ UNCHANGED <<pc, hand>>
      BY <1>4 DEF TakeEvent, Oldest, AfterError
    <2>2. QED
      BY <1>1, <2>1
  <1>5. ASSUME NEW r \in Runtimes, \/ \E b \in Bots : LookAtBot(r, b)
                                   \/ Sigterm(r)
        PROVE  HandIsListed'
    BY <1>2, <1>5 DEF LookAtBot, Sigterm
  <1>6. ASSUME \/ \E s \in Sessions : DropSession(s)
               \/ Arrive \/ UNCHANGED vars
        PROVE  HandIsListed'
    BY <1>2, <1>6 DEF DropSession, Arrive, vars
  <1>7. QED
    BY <1>3, <1>4, <1>5, <1>6 DEF Next, LoopStep

-----------------------------------------------------------------------------
(* What is lost.                                                           *)

\* A batch under way has looked at the bot, for the event in hand.
Passed(ev, b) == \E r \in Runtimes : pc[r] = "bots" /\ hand[r] = ev /\ b \notin bots[r]

\* What is lost, or will be when the event is marked.
Lost == {x \in Events \X Bots :
           Due(x[1], x[2]) /\ (processed[x[1]] \/ Passed(x[1], x[2]))}

LossInv ==
  /\ TypeOK /\ HandIsListed
  /\ IsFiniteSet(Lost) /\ Cardinality(Lost) <= mishaps

\* A step loses nothing, or one execution to the failure of its own request.
LEMMA LossStep ==
  ASSUME DispatcherAssumption, TypeOK, HandIsListed, [Next]_vars
  PROVE  \/ mishaps' \in Nat /\ mishaps' >= mishaps /\ Lost' \subseteq Lost
         \/ mishaps' = mishaps + 1 /\ \E x : Lost' \subseteq Lost \cup {x}
  <1> USE DEF TypeOK, HandIsListed, Goto, Mishap, NoMishap
  <1>0. ASSUME made' = made, processed' = processed,
               \A ev \in Events, b \in Bots : Passed(ev, b)' => Passed(ev, b) \/ b \notin Triggered(ev)
        PROVE  Lost' \subseteq Lost
    BY <1>0 DEF Lost, Due, Triggered, ActiveInstallations, Parses, eventMatches
  <1>1. ASSUME NEW r \in Runtimes,
               TryLock(r) \/ Unlock(r) \/ ListEvents(r) \/ EndBatch(r) \/ Restart(r)
        PROVE  mishaps' \in Nat /\ mishaps' >= mishaps /\ Lost' \subseteq Lost
    <2>1. mishaps' \in {mishaps, mishaps + 1}
      BY <1>1 DEF TryLock, Unlock, ListEvents, EndBatch, Restart
    <2>2. UNCHANGED <<made, processed, hand, bots>>
      BY <1>1 DEF TryLock, Unlock, ListEvents, EndBatch, Restart
    <2>3. \A q \in Runtimes : pc'[q] = "bots" => pc[q] = "bots"
      BY <1>1 DEF TryLock, Unlock, ListEvents, EndBatch, Restart
    <2>4. \A ev \in Events, b \in Bots : Passed(ev, b)' => Passed(ev, b)
      BY <2>2, <2>3 DEF Passed
    <2>5. mishaps' \in Nat /\ mishaps' >= mishaps
      BY <2>1
    <2>6. QED
      BY <1>0, <2>2, <2>4, <2>5
  <1>2. ASSUME NEW r \in Runtimes, TakeEvent(r)
        PROVE  mishaps' \in Nat /\ mishaps' >= mishaps /\ Lost' \subseteq Lost
    <2>1. UNCHANGED <<made, processed>> /\ mishaps' \in Nat /\ mishaps' >= mishaps
      BY <1>2 DEF TakeEvent
    <2>2. \/ UNCHANGED <<pc, hand, bots>>
          \/ \E ev \in Events :
               /\ hand' = [hand EXCEPT ![r] = ev]
               /\ bots' = [bots EXCEPT ![r] = ActiveInstallations(ev)]
               /\ pc' = [pc EXCEPT ![r] = "bots"]
      BY <1>2 DEF TakeEvent, Oldest
    <2>3. ASSUME NEW ev \in Events, NEW b \in Bots, Passed(ev, b)'
          PROVE  Passed(ev, b) \/ b \notin Triggered(ev)
      <3>1. PICK q \in Runtimes : pc'[q] = "bots" /\ hand'[q] = ev /\ b \notin bots'[q]
        BY <2>3 DEF Passed
      <3>2. CASE pc[q] = "bots" /\ hand[q] = ev /\ b \notin bots[q]
        BY <3>2 DEF Passed
      <3>3. CASE q = r /\ b \notin ActiveInstallations(ev)
        BY <3>3 DEF Triggered
      <3>4. QED
        BY <2>2, <3>1, <3>2, <3>3
    <2>4. QED
      BY <1>0, <2>1, <2>3
  <1>3. ASSUME NEW r \in Runtimes, NEW b \in Bots, LookAtBot(r, b)
        PROVE  \/ mishaps' \in Nat /\ mishaps' >= mishaps /\ Lost' \subseteq Lost
               \/ mishaps' = mishaps + 1 /\ \E x : Lost' \subseteq Lost \cup {x}
    <2>0. PICK ev \in Events : ev = hand[r]
      BY <1>3, Looked
    <2> DEFINE x == <<ev, b>>
    <2>1. /\ pc[r] = "bots" /\ hand[r] = ev
          /\ bots' = [bots EXCEPT ![r] = @ \ {b}]
          /\ UNCHANGED <<processed, pc, hand>>
      BY <1>3, <2>0, Looked
    <2>2. \A f \in Events, c \in Bots : Passed(f, c)' => Passed(f, c) \/ (f = ev /\ c = b)
      BY <2>1 DEF Passed
    <2>3. \A f \in Events, c \in Bots :
            made'[f][c] = 0 => made[f][c] = 0 /\ (Insert(ev, b) => ~(f = ev /\ c = b))
      <3>1. CASE made' = made
        <4>1. ~Insert(ev, b)
          <5>1. Insert(ev, b) => made'[ev][b] = made[ev][b] + 1
            BY <2>1, Inserted
          <5>2. made[ev][b] \in Nat
            BY <2>1
          <5>3. QED
            BY <3>1, <5>1, <5>2
        <4>2. QED
          BY <3>1, <4>1
      <3>2. CASE Insert(ev, b)
        <4>1. \A f \in Events, c \in Bots :
                made'[f][c] = IF f = ev /\ c = b THEN made[f][c] + 1 ELSE made[f][c]
          BY <2>1, <3>2, Inserted
        <4>2. \A f \in Events, c \in Bots : made[f][c] \in Nat
          OBVIOUS
        <4>3. QED
          BY <4>1, <4>2
      <3>3. QED
        BY <1>3, <2>0, <3>1, <3>2, Looked
    <2>4. \A f \in Events, c \in Bots : Due(f, c)' => Due(f, c)
      BY <2>3 DEF Due, Triggered, ActiveInstallations, Parses, eventMatches
    <2>5. Lost' \subseteq Lost \cup {x}
      BY <2>1, <2>2, <2>4 DEF Lost
    <2>6. Due(ev, b)' => b \in Triggered(ev) /\ ev \notin WithoutRepo /\ ~Insert(ev, b)
      <3>1. ASSUME Due(ev, b)'
            PROVE  b \in Triggered(ev) /\ ev \notin WithoutRepo /\ made'[ev][b] = 0
        BY <3>1 DEF Due, Triggered, ActiveInstallations, Parses, eventMatches
      <3>2. QED
        BY <2>3, <3>1
    <2>7. CASE mishaps' = mishaps + 1
      BY <2>5, <2>7
    <2>8. CASE mishaps' = mishaps
      <3>1. b \notin Triggered(ev) \/ ev \in WithoutRepo \/ Insert(ev, b)
        BY <1>3, <2>0, <2>8, Looked
      <3>2. x \notin Lost'
        BY <2>6, <3>1 DEF Lost
      <3>3. Lost' \subseteq Lost
        BY <2>5, <3>2
      <3>4. mishaps' \in Nat /\ mishaps' >= mishaps
        BY <2>8
      <3>5. QED
        BY <3>3, <3>4
    <2>9. QED
      BY <1>3, <2>7, <2>8, Looked
  <1>4. ASSUME NEW r \in Runtimes, MarkProcessed(r)
        PROVE  mishaps' \in Nat /\ mishaps' >= mishaps /\ Lost' \subseteq Lost
    <2>1. /\ pc[r] = "bots" /\ hand[r] \in Events /\ bots[r] = {}
          /\ processed' = [processed EXCEPT ![hand[r]] = TRUE] \/ processed' = processed
          /\ mishaps' \in Nat /\ mishaps' >= mishaps
          /\ pc' = [pc EXCEPT ![r] = "batch"] /\ hand' = [hand EXCEPT ![r] = 0]
          /\ UNCHANGED <<made, bots>>
      BY <1>4 DEF MarkProcessed, Dispatched
    <2>2. ASSUME NEW ev \in Events, NEW b \in Bots, processed'[ev]
          PROVE  processed[ev] \/ Passed(ev, b)
      BY <2>1, <2>2 DEF Passed
    <2>3. \A ev \in Events, b \in Bots : Passed(ev, b)' => Passed(ev, b)
      BY <2>1 DEF Passed
    <2>4. \A ev \in Events, b \in Bots : Due(ev, b)' <=> Due(ev, b)
      BY <2>1 DEF Due, Triggered, ActiveInstallations, Parses, eventMatches
    <2>5. Lost' \subseteq Lost
      BY <2>2, <2>3, <2>4 DEF Lost
    <2>6. QED
      BY <2>1, <2>5
  <1>5. ASSUME NEW r \in Runtimes, Sigterm(r) \/ GoDown(r)
        PROVE  mishaps' \in Nat /\ mishaps' >= mishaps /\ Lost' \subseteq Lost
    <2>1. /\ UNCHANGED <<made, processed, mishaps>>
          /\ \A q \in Runtimes : pc'[q] = "bots" =>
               pc[q] = "bots" /\ hand'[q] = hand[q] /\ bots'[q] = bots[q]
      BY <1>5 DEF Sigterm, GoDown
    <2>2. \A ev \in Events, b \in Bots : Passed(ev, b)' => Passed(ev, b)
      BY <2>1 DEF Passed
    <2>3. QED
      BY <1>0, <2>1, <2>2
  <1>6. ASSUME \/ \E s \in Sessions : DropSession(s)
               \/ Arrive \/ UNCHANGED vars
        PROVE  mishaps' \in Nat /\ mishaps' >= mishaps /\ Lost' \subseteq Lost
    <2>1. UNCHANGED <<made, processed, pc, hand, bots, mishaps>>
      BY <1>6 DEF DropSession, Arrive, vars
    <2>2. \A ev \in Events, b \in Bots : Passed(ev, b)' => Passed(ev, b)
      BY <2>1 DEF Passed
    <2>3. QED
      BY <1>0, <2>1, <2>2
  <1>7. QED
    BY <1>1, <1>2, <1>3, <1>4, <1>5, <1>6 DEF Next, LoopStep

\* The losses are counted by the failures.
LEMMA LossInvStep ==
  ASSUME DispatcherAssumption, LossInv, [Next]_vars
  PROVE  LossInv'
  <1>1. TypeOK /\ HandIsListed /\ IsFiniteSet(Lost) /\ Cardinality(Lost) <= mishaps
    BY DEF LossInv
  <1>2. TypeOK' /\ HandIsListed'
    BY <1>1, DispatcherTypeStep, HandStep
  <1>3. Cardinality(Lost) \in Nat /\ mishaps \in Nat
    BY <1>1, FS_CardinalityType DEF TypeOK
  <1>4. CASE mishaps' \in Nat /\ mishaps' >= mishaps /\ Lost' \subseteq Lost
    <2>1. IsFiniteSet(Lost') /\ Cardinality(Lost') <= Cardinality(Lost)
      BY <1>1, <1>4, FS_Subset
    <2>2. Cardinality(Lost') \in Nat
      BY <2>1, FS_CardinalityType
    <2>3. QED
      BY <1>1, <1>2, <1>3, <1>4, <2>1, <2>2 DEF LossInv
  <1>5. ASSUME NEW x, mishaps' = mishaps + 1, Lost' \subseteq Lost \cup {x}
        PROVE  LossInv'
    <2>1. /\ IsFiniteSet(Lost \cup {x})
          /\ Cardinality(Lost \cup {x}) \in {Cardinality(Lost), Cardinality(Lost) + 1}
      BY <1>1, FS_AddElement
    <2>2. IsFiniteSet(Lost') /\ Cardinality(Lost') <= Cardinality(Lost \cup {x})
      BY <1>5, <2>1, FS_Subset
    <2>3. Cardinality(Lost') \in Nat /\ Cardinality(Lost \cup {x}) \in Nat
      BY <2>1, <2>2, FS_CardinalityType
    <2>4. QED
      BY <1>1, <1>2, <1>3, <1>5, <2>1, <2>2, <2>3 DEF LossInv
  <1>6. QED
    BY <1>1, <1>4, <1>5, LossStep

\* The invariant about losses, in any deployment.
THEOREM LossInvariance ==
  ASSUME DispatcherAssumption PROVE Spec => []LossInv
  <1>1. Init => LossInv
    <2> SUFFICES ASSUME Init PROVE LossInv
      OBVIOUS
    <2>1. TypeOK /\ HandIsListed
      BY DispatcherInit
    <2>2. Lost = {}
      BY DEF Init, Lost, Passed
    <2>3. IsFiniteSet(Lost) /\ Cardinality(Lost) <= mishaps
      BY <2>2, FS_EmptySet DEF Init
    <2>4. QED
      BY <2>1, <2>3 DEF LossInv
  <1>2. LossInv /\ [Next]_vars => LossInv'
    BY LossInvStep
  <1>3. QED
    BY <1>1, <1>2, PTL DEF Spec

\* Type correctness of the dispatcher.
THEOREM DispatcherTypes ==
  ASSUME DispatcherAssumption PROVE Spec => []TypeOK
  <1>1. LossInv => TypeOK
    BY DEF LossInv
  <1>2. QED
    BY <1>1, LossInvariance, PTL

\* Every execution that is missing for a processed event is missing because a
\* request failed, and one request accounts for one, whoever stops when and
\* even if replicas share the lock (dispatcher.go:64-76, 122-124).
THEOREM LossesAreCounted ==
  ASSUME DispatcherAssumption PROVE Spec => []LossesAreMishaps
  <1>1. LossInv => LossesAreMishaps
    <2> SUFFICES ASSUME LossInv PROVE Cardinality(Missing) <= mishaps
      BY DEF LossesAreMishaps
    <2>1. Missing \subseteq Lost
      BY DEF Missing, Lost
    <2>2. Cardinality(Missing) <= Cardinality(Lost) /\ IsFiniteSet(Missing)
      BY <2>1, FS_Subset DEF LossInv
    <2>3. Cardinality(Missing) \in Nat /\ Cardinality(Lost) \in Nat /\ mishaps \in Nat
      BY <2>2, FS_CardinalityType DEF LossInv, TypeOK
    <2>4. QED
      BY <2>2, <2>3 DEF LossInv
  <1>2. QED
    BY <1>1, LossInvariance, PTL

-----------------------------------------------------------------------------
(* With private sessions: what is repeated.                                *)

\* A runtime in its batch has the lock on one of its sessions.
HolderHasLock ==
  \A r \in Runtimes : InBatch(r) => \E s \in SessionsFor[r] : held[s] > 0

\* What the holder has listed is known and not processed; the others have
\* nothing.
ListedAreUnprocessed ==
  \A r \in Runtimes : \A ev \in todo[r] :
     pc[r] \in {"batch", "bots"} /\ ev <= arrived /\ ~processed[ev]

\* A runtime that was told to stop is in its last batch: the stop is spent.
LastBatch == \E r \in Runtimes : InBatch(r) /\ stopping[r]
Spent     == IF LastBatch THEN 1 ELSE 0

\* One execution per failure and stop, and one more while or after the event
\* is dispatched.
Counted ==
  \A ev \in Events, b \in Bots :
    /\ made[ev][b] + Spent <= 1 + mishaps + stops
    /\ ~processed[ev] /\ ~Passed(ev, b) => made[ev][b] + Spent <= mishaps + stops

LockInv     == OneSessionHolds /\ HolderHasLock
DispatchInv == TypeOK /\ HandIsListed /\ LockInv /\ ListedAreUnprocessed /\ Counted

\* Two runtimes are never in a batch at a time.
LEMMA OneBatch ==
  ASSUME PrivateSessions, LockInv, NEW r \in Runtimes, NEW q \in Runtimes,
         InBatch(r), InBatch(q)
  PROVE  r = q
  <1>1. PICK s \in SessionsFor[r] : held[s] > 0
    BY DEF LockInv, HolderHasLock
  <1>2. PICK t \in SessionsFor[q] : held[t] > 0
    BY DEF LockInv, HolderHasLock
  <1>3. s \in Sessions /\ t \in Sessions
    BY LockAssumption
  <1>4. s = t
    BY <1>1, <1>2, <1>3 DEF LockInv, OneSessionHolds
  <1>5. QED
    BY <1>4 DEF PrivateSessions

\* Every step keeps the lock's half of the invariant.
LEMMA DispatchLockStep ==
  ASSUME PrivateSessions, TypeOK, LockInv, [Next]_vars
  PROVE  LockInv'
  <1> USE LockAssumption
  <1> USE DEF TypeOK, Goto, LockInv
  <1>1. ASSUME held' = held, \A r \in Runtimes : InBatch(r)' => InBatch(r) PROVE LockInv'
    BY <1>1 DEF OneSessionHolds, HolderHasLock
  <1>2. ASSUME NEW r \in Runtimes, TryLock(r) PROVE LockInv'
    <2>1. PICK s \in SessionsFor[r] : TryLockOn(s, TRUE)
      BY <1>2 DEF TryLock
    <2>2. /\ s \in Sessions /\ \A t \in Sessions \ {s} : held[t] = 0
          /\ held' = [held EXCEPT ![s] = @ + 1]
      BY <2>1 DEF TryLockOn, Grantable
    <2>3. OneSessionHolds'
      BY <2>2 DEF OneSessionHolds
    <2>4. held'[s] > 0 /\ \A t \in Sessions : held[t] > 0 => held'[t] > 0
      BY <2>2
    <2>5. ASSUME NEW q \in Runtimes, InBatch(q)' PROVE \E t \in SessionsFor[q] : held'[t] > 0
      <3>1. q = r \/ InBatch(q)
        BY <1>2, <2>5 DEF TryLock, InBatch
      <3>2. QED
        BY <2>4, <3>1 DEF HolderHasLock
    <2>6. QED
      BY <2>3, <2>5 DEF HolderHasLock
  <1>3. ASSUME NEW r \in Runtimes, Unlock(r) PROVE LockInv'
    <2>1. \/ held' = held
          \/ \E s \in SessionsFor[r] : held[s] > 0 /\ held' = [held EXCEPT ![s] = @ - 1]
      BY <1>3 DEF Unlock, UnlockOn
    <2>2. \A t \in Sessions : held'[t] > 0 => held[t] > 0
      BY <2>1
    <2>3. OneSessionHolds'
      BY <2>2 DEF OneSessionHolds
    <2>4. ASSUME NEW q \in Runtimes, InBatch(q)' PROVE \E t \in SessionsFor[q] : held'[t] > 0
      <3>1. InBatch(q) /\ q # r
        BY <1>3, <2>4 DEF Unlock, InBatch
      <3>2. PICK t \in SessionsFor[q] : held[t] > 0
        BY <3>1 DEF HolderHasLock
      <3>3. t \notin SessionsFor[r] /\ t \in Sessions
        BY <3>1, <3>2 DEF PrivateSessions
      <3>4. held'[t] = held[t]
        BY <2>1, <3>3
      <3>5. QED
        BY <3>2, <3>4
    <2>5. QED
      BY <2>3, <2>4 DEF HolderHasLock
  <1>4. ASSUME NEW r \in Runtimes,
               ListEvents(r) \/ TakeEvent(r) \/ (\E b \in Bots : LookAtBot(r, b))
               \/ MarkProcessed(r) \/ EndBatch(r) \/ Sigterm(r) \/ GoDown(r) \/ Restart(r)
        PROVE  LockInv'
    <2>1. held' = held
      BY <1>4 DEF ListEvents, TakeEvent, LookAtBot, MarkProcessed, EndBatch, Sigterm, GoDown,
                  Restart
    <2>2. \A q \in Runtimes : InBatch(q)' => InBatch(q)
      BY <1>4 DEF InBatch, ListEvents, TakeEvent, LookAtBot, MarkProcessed, EndBatch, Sigterm,
                  GoDown, Restart
    <2>3. QED
      BY <1>1, <2>1, <2>2
  <1>5. ASSUME NEW s \in Sessions, DropSession(s) PROVE LockInv'
    <2>1. /\ \A r \in Runtimes : s \in SessionsFor[r] => ~InBatch(r)
          /\ held' = [held EXCEPT ![s] = 0] /\ pc' = pc
      BY <1>5 DEF DropSession, CloseSession
    <2>2. OneSessionHolds'
      BY <2>1 DEF OneSessionHolds
    <2>3. HolderHasLock'
      BY <2>1 DEF HolderHasLock, InBatch
    <2>4. QED
      BY <2>2, <2>3
  <1>6. CASE Arrive \/ UNCHANGED vars
    BY <1>1, <1>6 DEF Arrive, vars, InBatch
  <1>7. QED
    BY <1>2, <1>3, <1>4, <1>5, <1>6 DEF Next, LoopStep

\* Every step keeps the listed events unprocessed: only the holder marks.
LEMMA ListedStep ==
  ASSUME PrivateSessions, DispatcherAssumption, DispatchInv, [Next]_vars
  PROVE  ListedAreUnprocessed'
  <1> USE DEF DispatchInv, TypeOK, Goto, ListedAreUnprocessed
  <1>1. ASSUME \A r \in Runtimes : \A ev \in todo'[r] : ev \in todo[r],
               \A r \in Runtimes : pc[r] \in {"batch", "bots"} =>
                  pc'[r] \in {"batch", "bots"} \/ todo'[r] = {},
               arrived <= arrived', processed' = processed
        PROVE  ListedAreUnprocessed'
    <2> SUFFICES ASSUME NEW r \in Runtimes, NEW ev \in todo'[r]
                 PROVE  pc'[r] \in {"batch", "bots"} /\ ev <= arrived' /\ ~processed'[ev]
      OBVIOUS
    <2>1. ev \in todo[r] /\ ev \in Nat /\ arrived \in Nat /\ ev <= arrived
      BY <1>1 DEF Events
    <2>2. arrived' \in Nat
      BY DispatcherTypeStep
    <2>3. QED
      BY <1>1, <2>1, <2>2
  <1>2. ASSUME NEW r \in Runtimes,
               \/ TryLock(r) \/ Unlock(r) \/ TakeEvent(r) \/ (\E b \in Bots : LookAtBot(r, b))
               \/ EndBatch(r) \/ Sigterm(r) \/ GoDown(r) \/ Restart(r)
        PROVE  ListedAreUnprocessed'
    <2>1. processed' = processed /\ arrived' = arrived
      BY <1>2 DEF TryLock, Unlock, TakeEvent, LookAtBot, EndBatch, Sigterm, GoDown, Restart
    <2>2. \A q \in Runtimes : \A ev \in todo'[q] : ev \in todo[q]
      BY <1>2 DEF TryLock, Unlock, TakeEvent, AfterError, LookAtBot, EndBatch, Sigterm, GoDown,
                  Restart
    <2>3. \A q \in Runtimes : pc[q] \in {"batch", "bots"} =>
            pc'[q] \in {"batch", "bots"} \/ todo'[q] = {}
      BY <1>2 DEF TryLock, Unlock, TakeEvent, LookAtBot, EndBatch, Sigterm, GoDown, Restart
    <2>4. QED
      BY <1>1, <2>1, <2>2, <2>3
  <1>3. ASSUME NEW r \in Runtimes, ListEvents(r) PROVE ListedAreUnprocessed'
    <2>1. /\ processed' = processed /\ arrived' = arrived /\ pc[r] = "list"
          /\ \A q \in Runtimes \ {r} : pc'[q] = pc[q] /\ todo'[q] = todo[q]
          /\ \/ todo' = todo /\ pc'[r] = "unlock"
             \/ /\ pc'[r] = "batch"
                /\ \A ev \in todo'[r] : ev \in 1 .. arrived /\ ~processed[ev]
      <3>1. /\ processed' = processed /\ arrived' = arrived /\ pc[r] = "list"
            /\ \A q \in Runtimes \ {r} : pc'[q] = pc[q] /\ todo'[q] = todo[q]
        BY <1>3 DEF ListEvents
      <3>2. \/ todo' = todo /\ pc'[r] = "unlock"
            \/ pc'[r] = "batch" /\ todo'[r] = Oldest(Unprocessed, BatchLimit)
        BY <1>3 DEF ListEvents
      <3>3. Oldest(Unprocessed, BatchLimit) \subseteq {ev \in 1 .. arrived : ~processed[ev]}
        BY DEF Oldest, Unprocessed
      <3>4. QED
        BY <3>1, <3>2, <3>3
    <2>2. \A ev \in 1 .. arrived : ev <= arrived
      OBVIOUS
    <2>3. QED
      BY <2>1, <2>2
  <1>4. ASSUME NEW r \in Runtimes, MarkProcessed(r) PROVE ListedAreUnprocessed'
    <2>1. /\ pc[r] = "bots" /\ hand[r] \in Events
          /\ processed' = [processed EXCEPT ![hand[r]] = TRUE] \/ processed' = processed
          /\ todo' = [todo EXCEPT ![r] = @ \ {hand[r]}]
          /\ pc' = [pc EXCEPT ![r] = "batch"] /\ arrived' = arrived
      BY <1>4 DEF MarkProcessed, HandIsListed
    <2>2. \A q \in Runtimes : \A ev \in todo[q] : q = r
      BY <2>1, OneBatch DEF InBatch
    <2>3. QED
      BY <2>1, <2>2
  <1>5. CASE Arrive
    <2>1. arrived \in Nat /\ arrived' = arrived + 1 /\ UNCHANGED <<pc, todo, processed>>
      BY <1>5 DEF Arrive
    <2>2. QED
      BY <1>1, <2>1
  <1>6. ASSUME (\E s \in Sessions : DropSession(s)) \/ UNCHANGED vars
        PROVE  ListedAreUnprocessed'
    BY <1>6 DEF DropSession, vars
  <1>7. QED
    BY <1>2, <1>3, <1>4, <1>5, <1>6 DEF Next, LoopStep

\* What a step may do to the count: nothing that is new without a failure, a
\* stop or a passed bot.
LEMMA CountKept ==
  ASSUME DispatchInv, TypeOK',
         made' = made, processed' = processed,
         mishaps <= mishaps',
         \/ Spent' + stops <= Spent + stops'
            /\ \A ev \in Events, b \in Bots : Passed(ev, b) => Passed(ev, b)'
         \/ Spent' + stops + 1 <= Spent + stops'
  PROVE  Counted'
  <1> USE DEF DispatchInv, TypeOK
  <1>1. Spent \in Nat /\ Spent' \in Nat
    BY DEF Spent
  <1> SUFFICES ASSUME NEW ev \in Events, NEW b \in Bots
               PROVE  /\ made'[ev][b] + Spent' <= 1 + mishaps' + stops'
                      /\ ~processed'[ev] /\ ~Passed(ev, b)' =>
                           made'[ev][b] + Spent' <= mishaps' + stops'
    BY DEF Counted
  <1>2. made[ev][b] \in Nat /\ made'[ev][b] = made[ev][b]
    OBVIOUS
  <1>3. /\ made[ev][b] + Spent <= 1 + mishaps + stops
        /\ ~processed[ev] /\ ~Passed(ev, b) => made[ev][b] + Spent <= mishaps + stops
    BY DEF Counted
  <1>4. mishaps \in Nat /\ mishaps' \in Nat /\ stops \in Nat /\ stops' \in Nat
    OBVIOUS
  <1> HIDE DEF DispatchInv, TypeOK
  <1>5. QED
    BY <1>1, <1>2, <1>3, <1>4

\* An insert is counted as the one execution the event may have.
LEMMA CountLook ==
  ASSUME PrivateSessions, DispatcherAssumption, DispatchInv, TypeOK',
         NEW r \in Runtimes, NEW b \in Bots, LookAtBot(r, b)
  PROVE  Counted'
  <1> USE DEF DispatchInv, TypeOK
  <1>1. PICK ev \in Events : ev = hand[r] /\ pc[r] = "bots" /\ b \in bots[r]
    BY Looked
  <1>2. /\ bots' = [bots EXCEPT ![r] = @ \ {b}]
        /\ UNCHANGED <<processed, pc, hand, stopping, stops>>
        /\ mishaps' \in {mishaps, mishaps + 1}
        /\ made' = made \/ Insert(ev, b)
    BY <1>1, Looked
  <1>3. Spent' = Spent /\ Spent \in Nat
    BY <1>2 DEF Spent, LastBatch, InBatch
  <1>4. \A f \in Events, c \in Bots : Passed(f, c) => Passed(f, c)'
    BY <1>2 DEF Passed
  <1>5. CASE made' = made
    <2>1. mishaps <= mishaps' /\ Spent' + stops <= Spent + stops'
      BY <1>2, <1>3
    <2>2. QED
      BY <1>2, <1>4, <1>5, <2>1, CountKept
  <1>6. CASE Insert(ev, b)
    <2>1. \A f \in Events, c \in Bots :
            made'[f][c] = IF f = ev /\ c = b THEN made[f][c] + 1 ELSE made[f][c]
      BY <1>6, Inserted
    <2>2. ~processed[ev]
      BY <1>1 DEF HandIsListed, ListedAreUnprocessed
    <2>3. ~Passed(ev, b)
      <3>1. SUFFICES ASSUME NEW q \in Runtimes, pc[q] = "bots", hand[q] = ev, b \notin bots[q]
                     PROVE  FALSE
        BY DEF Passed
      <3>2. q = r
        BY <1>1, <3>1, OneBatch DEF InBatch
      <3>3. QED
        BY <1>1, <3>1, <3>2
    <2>4. Passed(ev, b)'
      BY <1>1, <1>2 DEF Passed
    <2> SUFFICES ASSUME NEW f \in Events, NEW c \in Bots
                 PROVE  /\ made'[f][c] + Spent' <= 1 + mishaps' + stops'
                        /\ ~processed'[f] /\ ~Passed(f, c)' =>
                             made'[f][c] + Spent' <= mishaps' + stops'
      BY DEF Counted
    <2>5. made[f][c] \in Nat /\ mishaps \in Nat /\ stops \in Nat
      OBVIOUS
    <2>6. CASE f = ev /\ c = b
      <3>1. made[f][c] + Spent <= mishaps + stops
        BY <2>2, <2>3, <2>6 DEF Counted
      <3>2. made'[f][c] = made[f][c] + 1
        BY <2>1, <2>6
      <3>3. made'[f][c] + Spent' <= 1 + mishaps' + stops'
        <4> HIDE DEF DispatchInv, TypeOK
        <4> QED BY <1>2, <1>3, <2>5, <3>1, <3>2
      <3>4. QED
        BY <2>4, <2>6, <3>3
    <2>7. CASE ~(f = ev /\ c = b)
      <3>1. /\ made[f][c] + Spent <= 1 + mishaps + stops
            /\ ~processed[f] /\ ~Passed(f, c) => made[f][c] + Spent <= mishaps + stops
        BY DEF Counted
      <3>2. made'[f][c] = made[f][c]
        BY <2>1, <2>7
      <3>3. Passed(f, c) => Passed(f, c)'
        BY <1>4
      <3> HIDE DEF DispatchInv, TypeOK
      <3>4. QED
        BY <1>2, <1>3, <2>5, <3>1, <3>2, <3>3
    <2>8. QED
      BY <2>6, <2>7
  <1>7. QED
    BY <1>2, <1>5, <1>6

\* An event that leaves the batch is marked, or its mark failed.
LEMMA CountMark ==
  ASSUME PrivateSessions, DispatcherAssumption, DispatchInv, TypeOK',
         NEW r \in Runtimes, MarkProcessed(r)
  PROVE  Counted'
  <1> USE DEF DispatchInv, TypeOK
  <1>1. /\ pc[r] = "bots" /\ hand[r] \in Events
        /\ pc' = [pc EXCEPT ![r] = "batch"] /\ hand' = [hand EXCEPT ![r] = 0]
        /\ UNCHANGED <<made, stopping, bots, stops>>
        /\ \/ mishaps' = mishaps /\ processed' = [processed EXCEPT ![hand[r]] = TRUE]
           \/ mishaps' = mishaps + 1
        /\ processed' = [processed EXCEPT ![hand[r]] = TRUE] \/ processed' = processed
    BY DEF MarkProcessed, HandIsListed, Goto, Mishap, NoMishap
  <1>2. Spent' = Spent /\ Spent \in Nat
    BY <1>1 DEF Spent, LastBatch, InBatch
  <1> SUFFICES ASSUME NEW f \in Events, NEW c \in Bots
               PROVE  /\ made'[f][c] + Spent' <= 1 + mishaps' + stops'
                      /\ ~processed'[f] /\ ~Passed(f, c)' =>
                           made'[f][c] + Spent' <= mishaps' + stops'
    BY DEF Counted
  <1>3. made[f][c] \in Nat /\ mishaps \in Nat /\ stops \in Nat /\ made' = made
    BY <1>1
  <1>4. /\ made[f][c] + Spent <= 1 + mishaps + stops
        /\ ~processed[f] /\ ~Passed(f, c) => made[f][c] + Spent <= mishaps + stops
    BY DEF Counted
  <1>5. CASE mishaps' = mishaps + 1
    <2>1. processed[f] => processed'[f]
      BY <1>1
    <2> HIDE DEF DispatchInv, TypeOK
    <2>2. QED
      BY <1>1, <1>2, <1>3, <1>4, <1>5, <2>1
  <1>6. CASE mishaps' = mishaps /\ processed' = [processed EXCEPT ![hand[r]] = TRUE]
    <2>1. ~processed'[f] => ~processed[f] /\ f # hand[r]
      BY <1>1, <1>6
    <2>2. f # hand[r] /\ Passed(f, c) => Passed(f, c)'
      BY <1>1 DEF Passed
    <2> HIDE DEF DispatchInv, TypeOK
    <2>3. QED
      BY <1>1, <1>2, <1>3, <1>4, <1>6, <2>1, <2>2
  <1>7. QED
    BY <1>1, <1>5, <1>6

\* The arithmetic of the next lemma: a is the batch a stop is spent on, s the
\* stops there were.
LEMMA Balance ==
  ASSUME NEW a \in 0 .. 1, NEW b \in 0 .. 1, NEW s \in Nat, NEW t \in {s, s + 1}
  PROVE  /\ (b = 1 => a = 1 \/ t = s + 1) => b + s <= a + t
         /\ b = 0 /\ (a = 1 \/ t = s + 1) => b + s + 1 <= a + t
  OBVIOUS

\* A stop is spent on the batch it interrupts.
LEMMA CountDown ==
  ASSUME PrivateSessions, DispatcherAssumption, DispatchInv, TypeOK',
         NEW r \in Runtimes, Sigterm(r) \/ GoDown(r)
  PROVE  Counted'
  <1>1. UNCHANGED <<made, processed, mishaps>>
    BY DEF Sigterm, GoDown
  <1>2. Spent \in 0 .. 1 /\ Spent' \in 0 .. 1 /\ stops \in Nat
    BY DEF Spent, DispatchInv, TypeOK
  <1>8. mishaps <= mishaps'
    BY <1>1 DEF DispatchInv, TypeOK
  <1>3. ASSUME stops' \in {stops, stops + 1}, LastBatch' => LastBatch \/ stops' = stops + 1
        PROVE  Spent' + stops <= Spent + stops'
    <2>1. Spent' = 1 => Spent = 1 \/ stops' = stops + 1
      BY <1>3 DEF Spent
    <2>2. QED
      BY <1>2, <1>3, <2>1, Balance
  <1>4. ASSUME ~LastBatch', LastBatch \/ stops' = stops + 1, stops' \in {stops, stops + 1}
        PROVE  Spent' + stops + 1 <= Spent + stops'
    <2>1. Spent' = 0 /\ (Spent = 1 \/ stops' = stops + 1)
      BY <1>4 DEF Spent
    <2>2. QED
      BY <1>2, <1>4, <2>1, Balance
  <1>5. CASE Sigterm(r)
    <2>1. stops' = stops + 1 /\ \A ev \in Events, b \in Bots : Passed(ev, b) => Passed(ev, b)'
      BY <1>5 DEF Sigterm, Passed
    <2>2. Spent' + stops <= Spent + stops'
      BY <1>3, <2>1
    <2>3. QED
      BY <1>1, <1>8, <2>1, <2>2, CountKept
  <1>6. CASE GoDown(r)
    <2>1. stopping' = stopping /\ pc' = [pc EXCEPT ![r] = "down"]
          /\ pc \in [Runtimes -> Points]
      BY <1>6 DEF GoDown, Goto, DispatchInv, TypeOK
    <2>2. stops' \in {stops, stops + 1} /\ (stopping[r] \/ stops' = stops + 1)
      BY <1>6 DEF GoDown
    <2>3. \A q \in Runtimes : InBatch(q)' => InBatch(q) /\ q # r
      BY <2>1 DEF InBatch
    <2>4. CASE InBatch(r)
      <3>1. ~LastBatch'
        BY <2>3, <2>4, OneBatch DEF LastBatch, DispatchInv
      <3>2. LastBatch \/ stops' = stops + 1
        BY <2>2, <2>4 DEF LastBatch
      <3>3. Spent' + stops + 1 <= Spent + stops'
        BY <1>4, <2>2, <3>1, <3>2
      <3>4. QED
        BY <1>1, <1>8, <3>3, CountKept
    <2>5. CASE ~InBatch(r)
      <3>1. LastBatch' => LastBatch
        BY <2>1, <2>3 DEF LastBatch
      <3>2. \A ev \in Events, b \in Bots : Passed(ev, b) => Passed(ev, b)'
        <4>1. \A q \in Runtimes \ {r} :
                pc'[q] = pc[q] /\ hand'[q] = hand[q] /\ bots'[q] = bots[q]
          BY <1>6, <2>1 DEF GoDown, DispatchInv, TypeOK
        <4>2. pc[r] # "bots"
          BY <2>5 DEF InBatch
        <4>3. QED
          BY <4>1, <4>2 DEF Passed
      <3>3. Spent' + stops <= Spent + stops'
        BY <1>3, <2>2, <3>1
      <3>4. QED
        BY <1>1, <1>8, <3>2, <3>3, CountKept
    <2>6. QED
      BY <2>4, <2>5
  <1>9. QED
    BY <1>5, <1>6

\* The other steps create nothing and end no batch early.
LEMMA CountStep ==
  ASSUME PrivateSessions, DispatcherAssumption, DispatchInv, TypeOK', [Next]_vars
  PROVE  Counted'
  <1> USE DEF DispatchInv, TypeOK
  <1>0. Spent \in {0, 1} /\ Spent' \in {0, 1} /\ stops \in Nat /\ mishaps \in Nat
    BY DEF Spent
  <1>1. ASSUME made' = made, processed' = processed, stops' = stops,
               mishaps' \in {mishaps, mishaps + 1}, LastBatch' => LastBatch,
               \A ev \in Events, b \in Bots : Passed(ev, b) => Passed(ev, b)'
        PROVE  Counted'
    <2>1. Spent' + stops <= Spent + stops' /\ mishaps <= mishaps'
      BY <1>0, <1>1 DEF Spent
    <2>2. QED
      BY <1>1, <2>1, CountKept
  <1>2. ASSUME NEW r \in Runtimes,
               TryLock(r) \/ Unlock(r) \/ ListEvents(r) \/ TakeEvent(r) \/ EndBatch(r)
               \/ Restart(r)
        PROVE  Counted'
    <2>1. made' = made /\ processed' = processed /\ stops' = stops
      BY <1>2 DEF TryLock, Unlock, ListEvents, TakeEvent, EndBatch, Restart
    <2>2. mishaps' \in {mishaps, mishaps + 1}
      BY <1>2 DEF TryLock, Unlock, ListEvents, TakeEvent, EndBatch, Restart, Mishap, NoMishap
    <2>3. LastBatch' => LastBatch
      BY <1>2 DEF TryLock, Unlock, ListEvents, TakeEvent, EndBatch, Restart, Goto, LastBatch,
                  InBatch
    <2>4. \A q \in Runtimes : pc[q] = "bots" =>
            pc'[q] = "bots" /\ hand'[q] = hand[q] /\ bots'[q] = bots[q]
      BY <1>2 DEF TryLock, Unlock, ListEvents, TakeEvent, EndBatch, Restart, Goto
    <2>5. \A ev \in Events, b \in Bots : Passed(ev, b) => Passed(ev, b)'
      BY <2>4 DEF Passed
    <2>6. QED
      BY <1>1, <2>1, <2>2, <2>3, <2>5
  <1>3. ASSUME (\E s \in Sessions : DropSession(s)) \/ Arrive \/ UNCHANGED vars
        PROVE  Counted'
    <2>1. UNCHANGED <<made, processed, stops, mishaps, pc, stopping, hand, bots>>
      BY <1>3 DEF DropSession, Arrive, vars
    <2>2. (LastBatch' => LastBatch)
          /\ \A ev \in Events, b \in Bots : Passed(ev, b) => Passed(ev, b)'
      BY <2>1 DEF LastBatch, InBatch, Passed
    <2>3. QED
      BY <1>1, <2>1, <2>2
  <1> HIDE DEF DispatchInv, TypeOK
  <1>4. QED
    BY <1>2, <1>3, CountLook, CountMark, CountDown DEF Next, LoopStep

\* The invariant of replicas with sessions of their own.
THEOREM DispatchInvariance ==
  ASSUME PrivateSessions, DispatcherAssumption PROVE Spec => []DispatchInv
  <1>1. Init => DispatchInv
    <2> SUFFICES ASSUME Init PROVE DispatchInv
      OBVIOUS
    <2>1. TypeOK /\ HandIsListed
      BY DispatcherInit
    <2>2. LockInv
      BY DEF Init, LockInit, LockInv, OneSessionHolds, HolderHasLock, InBatch
    <2>3. ListedAreUnprocessed
      BY DEF Init, ListedAreUnprocessed
    <2>4. Spent = 0
      BY DEF Init, Spent, LastBatch
    <2>5. Counted
      BY <2>4 DEF Init, Counted
    <2>6. QED
      BY <2>1, <2>2, <2>3, <2>5 DEF DispatchInv
  <1>2. DispatchInv /\ [Next]_vars => DispatchInv'
    <2> SUFFICES ASSUME DispatchInv, [Next]_vars PROVE DispatchInv'
      OBVIOUS
    <2>1. TypeOK' /\ HandIsListed'
      BY DispatcherTypeStep, HandStep DEF DispatchInv
    <2>2. LockInv'
      BY DispatchLockStep DEF DispatchInv
    <2>3. QED
      BY <2>1, <2>2, ListedStep, CountStep DEF DispatchInv
  <1>3. QED
    BY <1>1, <1>2, PTL DEF Spec

\* A bot gets an event again only when a request failed or a runtime stopped
\* (dispatcher.go:50-76).
THEOREM DuplicatesAreCounted ==
  ASSUME PrivateSessions, DispatcherAssumption PROVE Spec => []DuplicatesAreInterruptions
  <1>1. DispatchInv => DuplicatesAreInterruptions
    <2> SUFFICES ASSUME DispatchInv, NEW ev \in Events, NEW b \in Bots
                 PROVE  made[ev][b] <= 1 + mishaps + stops
      BY DEF DuplicatesAreInterruptions
    <2>1. /\ made[ev][b] \in Nat /\ mishaps \in Nat /\ stops \in Nat /\ Spent \in {0, 1}
          /\ made[ev][b] + Spent <= 1 + mishaps + stops
      BY DEF DispatchInv, TypeOK, Counted, Spent
    <2>2. QED
      BY <2>1
  <1>2. QED
    BY <1>1, DispatchInvariance, PTL

-----------------------------------------------------------------------------
(* The refinement.                                                         *)

\* The dispatcher's steps are the life cycle's.
LEMMA EventStep ==
  ASSUME PrivateSessions, DispatcherAssumption, DispatchInv, [Next]_vars
  PROVE  [Lifecycle!Next]_(Lifecycle!vars)
  <1> USE DEF DispatchInv, Lifecycle!vars
  <1>1. ASSUME UNCHANGED <<arrived, processed, made>> PROVE [Lifecycle!Next]_(Lifecycle!vars)
    BY <1>1
  <1>2. ASSUME NEW r \in Runtimes, NEW b \in Bots, LookAtBot(r, b)
        PROVE  [Lifecycle!Next]_(Lifecycle!vars)
    <2>1. /\ pc[r] = "bots" /\ hand[r] \in Events /\ UNCHANGED <<arrived, processed>>
          /\ made' = made \/ (b \in Triggered(hand[r]) /\ Insert(hand[r], b))
      BY <1>2, Looked
    <2>2. hand[r] <= arrived /\ ~processed[hand[r]]
      BY <2>1 DEF HandIsListed, ListedAreUnprocessed
    <2>3. ASSUME b \in Triggered(hand[r]), Insert(hand[r], b)
          PROVE  Lifecycle!Create(hand[r], b)
      BY <2>1, <2>2, <2>3 DEF Lifecycle!Create, Insert
    <2>4. QED
      BY <1>1, <2>1, <2>3 DEF Lifecycle!Next
  <1>3. ASSUME NEW r \in Runtimes, MarkProcessed(r) PROVE [Lifecycle!Next]_(Lifecycle!vars)
    <2>1. /\ pc[r] = "bots" /\ hand[r] \in Events /\ UNCHANGED <<arrived, made>>
          /\ processed' = [processed EXCEPT ![hand[r]] = TRUE] \/ processed' = processed
      BY <1>3 DEF MarkProcessed, HandIsListed
    <2>2. hand[r] <= arrived
      BY <2>1 DEF HandIsListed, ListedAreUnprocessed
    <2>3. ASSUME processed' = [processed EXCEPT ![hand[r]] = TRUE]
          PROVE  Lifecycle!Settle(hand[r])
      BY <2>1, <2>2, <2>3 DEF Lifecycle!Settle
    <2>4. QED
      BY <1>1, <2>1, <2>3 DEF Lifecycle!Next
  <1>4. ASSUME NEW r \in Runtimes,
               TryLock(r) \/ Unlock(r) \/ ListEvents(r) \/ TakeEvent(r) \/ EndBatch(r)
               \/ Sigterm(r) \/ GoDown(r) \/ Restart(r)
        PROVE  [Lifecycle!Next]_(Lifecycle!vars)
    BY <1>1, <1>4 DEF TryLock, Unlock, ListEvents, TakeEvent, EndBatch, Sigterm, GoDown, Restart
  <1>5. CASE Arrive
    BY <1>5 DEF Arrive, Lifecycle!Next, Lifecycle!Receive
  <1>6. ASSUME (\E s \in Sessions : DropSession(s)) \/ UNCHANGED vars
        PROVE  [Lifecycle!Next]_(Lifecycle!vars)
    BY <1>1, <1>6 DEF DropSession, vars
  <1>7. QED
    BY <1>2, <1>3, <1>4, <1>5, <1>6 DEF Next, LoopStep

\* With sessions of its own for each replica the dispatcher implements the life
\* cycle of an event: nothing is created for one that is processed, however old
\* the list a replica works on (dispatcher.go:64-76, 116-124).
THEOREM DispatchRefinement ==
  ASSUME PrivateSessions, DispatcherAssumption PROVE Spec => ImplementsEventLifecycle
  <1>1. Init => Lifecycle!Init
    BY DEF Init, Lifecycle!Init
  <1>2. DispatchInv /\ [Next]_vars => [Lifecycle!Next]_(Lifecycle!vars)
    BY EventStep
  <1>3. QED
    BY <1>1, <1>2, DispatchInvariance, PTL DEF Spec, ImplementsEventLifecycle, Lifecycle!Spec
=============================================================================
