----------------------------- MODULE Dispatcher -----------------------------
(***************************************************************************)
(* The dispatcher half of the runtime: a loop (Dispatcher.Run) that takes  *)
(* its own advisory lock, lists the oldest unprocessed events, inserts one *)
(* queued execution per installed bot whose manifest names the event's     *)
(* type, and marks the event processed.                                    *)
(*                                                                         *)
(* Events are numbered by received_at.  As in Executor, a request may fail *)
(* or lose its answer ("mishaps"), and a runtime may stop between any two  *)
(* requests ("stops").                                                     *)
(***************************************************************************)
EXTENDS AdvisoryLock, FiniteSets

CONSTANTS
  MaxEvents,    \* events are 1..MaxEvents, oldest first
  Bots,         \* installed bots: the schema lets an organisation install a bot
                \* twice, which counts as two here
  Malformed,    \* events that dispatchEvent refuses before it looks at any bot
  WithoutRepo,  \* events whose repo_id is null
  EventType,    \* the (trimmed, case-folded) type of an event
  Installed,    \* the bots actively installed in the event's organisation
  Sound,        \* bots whose row loads and whose manifest converts and parses
  Triggers,     \* the (trimmed, case-folded) triggers of a bot's manifest
  BatchLimit,   \* events listed per batch (50 in the code)
  MaxMishaps,   \* bound: failed requests and lost answers
  MaxStops      \* bound: crashes and shutdowns

Events == 1 .. MaxEvents

\* What the code and its configuration grant of the constants.
DispatcherAssumption ==
  /\ MaxEvents \in Nat /\ BatchLimit \in Nat \ {0}
  /\ MaxMishaps \in Nat /\ MaxStops \in Nat
  /\ Malformed \subseteq Events /\ WithoutRepo \subseteq Events
  /\ Installed \in [Events -> SUBSET Bots] /\ Sound \subseteq Bots
  /\ DOMAIN EventType = Events /\ DOMAIN Triggers = Bots

VARIABLES
  arrived,      \* events 1..arrived are in the table
  processed,    \* events.processed
  made,         \* made[ev][b]: executions inserted for event ev and bot b
  pc,           \* where the dispatcher goroutine of a runtime is
  stopping,     \* its context is cancelled
  todo,         \* events of the batch under way that are not done with
  hand,         \* the one that is dispatched (0: none)
  bots,         \* installations of that event not yet looked at
  mishaps, stops

vars == <<held, arrived, processed, made, pc, stopping, todo, hand, bots, mishaps, stops>>

Points == {"down", "idle", "list", "batch", "bots", "unlock"}

InBatch(r) == pc[r] \in {"list", "batch", "bots", "unlock"}

TypeOK ==
  /\ LockTypeOK
  /\ arrived \in 0 .. MaxEvents
  /\ processed \in [Events -> BOOLEAN]
  /\ made \in [Events -> [Bots -> Nat]]
  /\ pc \in [Runtimes -> Points]
  /\ stopping \in [Runtimes -> BOOLEAN]
  /\ todo \in [Runtimes -> SUBSET Events]
  /\ hand \in [Runtimes -> Events \cup {0}]
  /\ bots \in [Runtimes -> SUBSET Bots]
  /\ mishaps \in Nat /\ stops \in Nat

Init ==
  /\ LockInit
  /\ arrived = 0
  /\ processed = [ev \in Events |-> FALSE]
  /\ made = [ev \in Events |-> [b \in Bots |-> 0]]
  /\ pc = [r \in Runtimes |-> "idle"]
  /\ stopping = [r \in Runtimes |-> FALSE]
  /\ todo = [r \in Runtimes |-> {}]
  /\ hand = [r \in Runtimes |-> 0]
  /\ bots = [r \in Runtimes |-> {}]
  /\ mishaps = 0
  /\ stops = 0

Goto(r, point) == pc' = [pc EXCEPT ![r] = point]
Mishap == mishaps < MaxMishaps /\ mishaps' = mishaps + 1
NoMishap == UNCHANGED mishaps

-----------------------------------------------------------------------------
(* The lock.                                                               *)

\* TryLock and its answer, which may be lost although the lock is taken.
\* A denied attempt changes nothing.
TryLock(r) ==
  /\ pc[r] = "idle" /\ ~stopping[r]
  /\ \E s \in SessionsFor[r] : TryLockOn(s, TRUE)
  /\ \/ Goto(r, "list") /\ NoMishap
     \/ Mishap /\ UNCHANGED pc
  /\ UNCHANGED <<arrived, processed, made, stopping, todo, hand, bots, stops>>

Unlock(r) ==
  /\ pc[r] = "unlock"
  /\ Goto(r, "idle")
  /\ \/ (\E s \in SessionsFor[r] : UnlockOn(s)) /\ NoMishap
     \/ Mishap /\ UNCHANGED held
  /\ UNCHANGED <<arrived, processed, made, stopping, todo, hand, bots, stops>>

-----------------------------------------------------------------------------
(* The batch.                                                              *)

\* Mutants of Unprocessed: an off-by-one, and the filter on processed dropped.
FromZero      == {ev \in 0 .. arrived : ev = 0 \/ ~processed[ev]}
EverythingYet == 1 .. arrived

Unprocessed == {ev \in 1 .. arrived : ~processed[ev]}

\* The first members of a set of events, at most n.
Oldest(S, n) == {ev \in S : Cardinality({older \in S : older < ev}) < n}

\* The BatchLimit oldest unprocessed events.
ListEvents(r) ==
  /\ pc[r] = "list"
  /\ \/ /\ todo' = [todo EXCEPT ![r] = Oldest(Unprocessed, BatchLimit)]
        /\ Goto(r, "batch")
        /\ NoMishap
     \/ Mishap /\ Goto(r, "unlock") /\ UNCHANGED todo
  /\ UNCHANGED <<held, arrived, processed, made, stopping, hand, bots, stops>>

\* Mutant of AfterError: the first error ends the batch.
StopAtError(batch, ev) == batch \ (batch \cup {ev})

\* An error leaves the event unprocessed and goes on with the next one.
AfterError(batch, ev) == batch \ {ev}

\* ListActiveInstallations of the event's organisation.
ActiveInstallations(ev) == Installed[ev]

\* dispatchEvent up to the loop over the installations, or to its first error.
TakeEvent(r) ==
  /\ pc[r] = "batch"
  /\ \E ev \in Oldest(todo[r], 1) :
     \/ /\ ev \notin Malformed
        /\ hand' = [hand EXCEPT ![r] = ev]
        /\ bots' = [bots EXCEPT ![r] = ActiveInstallations(ev)]
        /\ Goto(r, "bots")
        /\ NoMishap /\ UNCHANGED todo
     \/ /\ (ev \in Malformed /\ NoMishap) \/ Mishap
        /\ todo' = [todo EXCEPT ![r] = AfterError(@, ev)]
        /\ UNCHANGED <<pc, hand, bots>>
  /\ UNCHANGED <<held, arrived, processed, made, stopping, stops>>

\* The bot's row loads, and manifest.Parse accepts its manifest.
Parses(b) == b \in Sound

eventMatches(b, ev) == EventType[ev] \in Triggers[b]

\* The bots an event is for.
Triggered(ev) == {b \in ActiveInstallations(ev) : Parses(b) /\ eventMatches(b, ev)}

Insert(ev, b) == made' = [made EXCEPT ![ev][b] = @ + 1]

\* One round of the loop over the installations.  Whatever goes wrong with a
\* bot or with the insert is logged and forgotten; an event without a repo
\* gives an insert with the repo_id "", which the database refuses.
LookAtBot(r, b) ==
  /\ pc[r] = "bots" /\ b \in bots[r]
  /\ bots' = [bots EXCEPT ![r] = @ \ {b}]
  /\ LET ev == hand[r] IN
     \/ /\ b \notin Triggered(ev) \/ ev \in WithoutRepo
        /\ NoMishap /\ UNCHANGED made
     \/ /\ b \in Triggered(ev) /\ ev \notin WithoutRepo
        /\ \/ Insert(ev, b) /\ NoMishap
           \/ Mishap /\ (Insert(ev, b) \/ UNCHANGED made)
  /\ UNCHANGED <<held, arrived, processed, pc, stopping, todo, hand, stops>>

\* Mutant of Dispatched: the event is marked before its bots are looked at.
DispatchedAtOnce(r) == r \in Runtimes

Dispatched(r) == bots[r] = {}

\* MarkEventProcessed; its error is logged and the batch goes on.
MarkProcessed(r) ==
  /\ pc[r] = "bots" /\ Dispatched(r)
  /\ LET Mark == processed' = [processed EXCEPT ![hand[r]] = TRUE] IN
     (Mark /\ NoMishap) \/ (Mishap /\ (Mark \/ UNCHANGED processed))
  /\ todo' = [todo EXCEPT ![r] = @ \ {hand[r]}]
  /\ hand' = [hand EXCEPT ![r] = 0]
  /\ Goto(r, "batch")
  /\ UNCHANGED <<held, arrived, made, stopping, bots, stops>>

EndBatch(r) ==
  /\ pc[r] = "batch" /\ todo[r] = {}
  /\ Goto(r, "unlock")
  /\ UNCHANGED <<held, arrived, processed, made, stopping, todo, hand, bots, mishaps, stops>>

-----------------------------------------------------------------------------
\* The context is cancelled: no further batch, the one under way goes on.
Sigterm(r) ==
  /\ pc[r] # "down" /\ ~stopping[r] /\ stops < MaxStops
  /\ stopping' = [stopping EXCEPT ![r] = TRUE]
  /\ stops' = stops + 1
  /\ UNCHANGED <<held, arrived, processed, made, pc, todo, hand, bots, mishaps>>

\* The process ends: at a crash, or when main's waits are over, wherever the
\* dispatcher is by then.
GoDown(r) ==
  /\ pc[r] # "down"
  /\ \/ stopping[r] /\ UNCHANGED stops
     \/ ~stopping[r] /\ stops < MaxStops /\ stops' = stops + 1
  /\ Goto(r, "down")
  /\ todo' = [todo EXCEPT ![r] = {}]
  /\ hand' = [hand EXCEPT ![r] = 0]
  /\ bots' = [bots EXCEPT ![r] = {}]
  /\ UNCHANGED <<held, arrived, processed, made, stopping, mishaps>>

Restart(r) ==
  /\ pc[r] = "down"
  /\ Goto(r, "idle")
  /\ stopping' = [stopping EXCEPT ![r] = FALSE]
  /\ UNCHANGED <<held, arrived, processed, made, todo, hand, bots, mishaps, stops>>

\* The API's webhook inserts an event.
Arrive ==
  /\ arrived < MaxEvents
  /\ arrived' = arrived + 1
  /\ UNCHANGED <<held, processed, made, pc, stopping, todo, hand, bots, mishaps, stops>>

\* The gateway closes a session of runtimes that are not inside a batch.
DropSession(s) ==
  /\ \A r \in Runtimes : s \in SessionsFor[r] => ~InBatch(r)
  /\ CloseSession(s)
  /\ UNCHANGED <<arrived, processed, made, pc, stopping, todo, hand, bots, mishaps, stops>>

-----------------------------------------------------------------------------
LoopStep(r) ==
  \/ TryLock(r) \/ Unlock(r) \/ ListEvents(r) \/ TakeEvent(r)
  \/ \E b \in Bots : LookAtBot(r, b)
  \/ MarkProcessed(r) \/ EndBatch(r)

Next ==
  \/ \E r \in Runtimes : LoopStep(r) \/ Sigterm(r) \/ GoDown(r) \/ Restart(r)
  \/ \E s \in Sessions : DropSession(s)
  \/ Arrive

Spec == Init /\ [][Next]_vars

\* A live loop keeps going and the gateway closes idle sessions in the end.
\* Nothing is assumed of stops and restarts.
Fairness ==
  /\ \A r \in Runtimes : WF_vars(LoopStep(r))
  /\ \A s \in Sessions : WF_vars(DropSession(s))

FairSpec == Spec /\ Fairness

-----------------------------------------------------------------------------
(* Properties.                                                             *)

\* An execution is due and not made.
Due(ev, b) == ev \notin WithoutRepo /\ b \in Triggered(ev) /\ made[ev][b] = 0

\* Executions missing for events that will not be looked at again.
Missing == {x \in Events \X Bots : processed[x[1]] /\ Due(x[1], x[2])}

\* An execution is lost only to a failed request, one for each, however the
\* runtimes stop and restart between the inserts and the mark
\* (dispatcher.go:64-76, 122-124).
LossesAreMishaps == Cardinality(Missing) <= mishaps

\* A bot gets an event twice only when a request failed or a runtime stopped:
\* the lock keeps replicas from dispatching the same event (dispatcher.go:50-76).
DuplicatesAreInterruptions ==
  \A ev \in Events, b \in Bots : made[ev][b] <= 1 + mishaps + stops

\* The dispatcher implements the life cycle the platform promises of an event.
Lifecycle == INSTANCE EventLifecycle WITH
  Items <- Events, Targets <- Bots, For <- [ev \in Events |-> Triggered(ev)],
  known <- arrived, settled <- processed, created <- made

\* Nothing is created for an event once it is processed, for a bot it is not
\* for, or before it was received, whoever listed it when: the batch works on
\* a list of its own, and what it creates is not conditional on the event's
\* row (dispatcher.go:64-76, 116-124).
ImplementsEventLifecycle == Lifecycle!Spec

\* Every well-formed event is processed in the end although runtimes stop while
\* they hold the lock, as long as one is left and malformed events do not fill
\* the batch (dispatcher.go:64-76: they stay at its head for good).
EveryEventIsProcessed ==
  \A ev \in Events \ Malformed : arrived >= ev ~> processed[ev]

\* RUNBOOK.md:15-16 "event is marked processed=true; matching executions rows
\* are created with status='queued'", when every request succeeds.
MatchingRowsAreCreated ==
  \A ev \in Events : processed[ev] =>
    \A b \in Triggered(ev) : made[ev][b] > 0
=============================================================================
