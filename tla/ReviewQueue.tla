----------------------------- MODULE ReviewQueue -----------------------------
(***************************************************************************)
(* Reviewers decide on the items of the review queue.  Approving marks the *)
(* item, logs the diff's hash in Rekor, records the attestation and opens  *)
(* a pull request; rejecting marks the item and its execution.  The        *)
(* requests run concurrently, each a series of calls with no transaction   *)
(* around them: any call may fail, or take effect and lose its answer (the *)
(* request is then "hurt"), and the API may go down between two of them.   *)
(***************************************************************************)
EXTENDS Naturals, FiniteSets

CONSTANTS
  Items,          \* review_queue rows (inserted by code outside the repository)
  Executions, ExecutionOf,
  Approvals, Rejections, ItemOf,   \* requests, and the item each is about
  ContextLoads,   \* does loading an execution's bot and repo succeed?
  Unfit,          \* items whose diff or summary fails validateQueuePayload
  TooLong,        \* items that pass there and that normalizeRemediationPRInput refuses
  OneInstallation,\* the organisation has exactly one GitHub installation
  BranchPushed,   \* executions whose review branch exists on GitHub
  MaxMishaps,     \* bound: requests hurt by a failed call
  MaxStops        \* bound: crashes of the API

Requests == Approvals \cup Rejections

ASSUME ReviewAssumption ==
  /\ Approvals \cap Rejections = {}
  /\ ExecutionOf \in [Items -> Executions] /\ ItemOf \in [Requests -> Items]
  /\ {ContextLoads, OneInstallation} \subseteq BOOLEAN
  /\ Unfit \subseteq Items /\ TooLong \subseteq Items
  /\ BranchPushed \subseteq Executions
  /\ {MaxMishaps, MaxStops} \subseteq Nat

VARIABLES
  status,      \* review_queue.status
  execStatus,  \* executions.status
  logged,      \* Rekor: the requests that made an entry for their item's diff
  attested,    \* attestation rows: the requests that inserted one
  prs,         \* GitHub: executions with an open pull request
  pc,          \* where a request is
  answer,      \* what it was answered
  hurt, stops

tables == <<status, execStatus, attested>>
vars   == <<tables, logged, prs, pc, answer, hurt, stops>>

Points  == {"idle", "context", "decide", "attest", "log", "record", "reread", "pr",
            "execution", "end"}
Answers == {"none", "ok", "conflict", "error"}

TypeOK ==
  /\ status \in [Items -> {"pending", "approved", "rejected"}]
  /\ execStatus \in [Executions -> {"completed", "failed", "rejected"}]
  /\ attested \subseteq Approvals /\ logged \subseteq Approvals
  /\ prs \subseteq Executions
  /\ pc \in [Requests -> Points] /\ answer \in [Requests -> Answers]
  /\ hurt \subseteq Requests /\ stops \in 0 .. MaxStops

Init ==
  /\ status = [i \in Items |-> "pending"]
  /\ execStatus \in [Executions -> {"completed", "failed"}]
  /\ logged = {} /\ attested = {} /\ prs = {}
  /\ pc = [q \in Requests |-> "idle"]
  /\ answer = [q \in Requests |-> "none"]
  /\ hurt = {} /\ stops = 0

Exec(q) == ExecutionOf[ItemOf[q]]

GoOn(q, point) ==
  /\ pc' = [pc EXCEPT ![q] = point]
  /\ UNCHANGED <<answer, hurt>>
Reply(q, a) ==
  /\ pc' = [pc EXCEPT ![q] = "end"]
  /\ answer' = [answer EXCEPT ![q] = a]
Refuse(q, a) == Reply(q, a) /\ UNCHANGED hurt

\* A call of the request failed, whether or not it took effect.
CallFails(q) ==
  /\ q \notin hurt /\ Cardinality(hurt) < MaxMishaps
  /\ hurt' = hurt \cup {q}
  /\ Reply(q, "error")

-----------------------------------------------------------------------------
\* validateQueuePayload: the diff and the summary.
Fit(i) == i \notin Unfit

\* fetchQueueRowByID and the pending check; an approval also looks at the
\* payload.
Fetch(q) ==
  /\ pc[q] = "idle"
  /\ \/ status[ItemOf[q]] # "pending" /\ Refuse(q, "conflict")
     \/ /\ status[ItemOf[q]] = "pending"
        /\ \/ q \in Rejections /\ GoOn(q, "decide")
           \/ q \in Approvals /\ ~Fit(ItemOf[q]) /\ Refuse(q, "error")
           \/ q \in Approvals /\ Fit(ItemOf[q]) /\ GoOn(q, "context")
     \/ CallFails(q)
  /\ UNCHANGED <<tables, logged, prs, stops>>

\* loadExecutionContext: execution, bot and repo of the organisation.
LoadContext(q) ==
  /\ pc[q] = "context"
  /\ \/ ContextLoads /\ GoOn(q, "decide")
     \/ ~ContextLoads /\ Refuse(q, "error")
     \/ CallFails(q)
  /\ UNCHANGED <<tables, logged, prs, stops>>

\* Mutant of Decision: the verb of the route is stored.
Verb(q) == IF q \in Approvals THEN "approve" ELSE "reject"

Decision(q) == IF q \in Approvals THEN "approved" ELSE "rejected"

\* Mutant of AfterDecision: the pull request comes before the evidence.
StraightToPR(q) == IF q \in Approvals THEN "pr" ELSE "execution"

AfterDecision(q) == IF q \in Approvals THEN "attest" ELSE "execution"

\* updateQueueReviewStatus, which does not look at the status it overwrites.
Decide(q) ==
  /\ pc[q] = "decide"
  /\ LET Set == status' = [status EXCEPT ![ItemOf[q]] = Decision(q)] IN
     \/ Set /\ GoOn(q, AfterDecision(q))
     \/ CallFails(q) /\ (Set \/ UNCHANGED status)
  /\ UNCHANGED <<execStatus, attested, logged, prs, stops>>

\* SignAndAttest loads the execution, its bot and its repo again, and builds
\* and signs the statement about them.
LoadSubject(q) ==
  /\ pc[q] = "attest"
  /\ GoOn(q, "log") \/ CallFails(q)
  /\ UNCHANGED <<tables, logged, prs, stops>>

\* One more entry of the public log, for the hash of the diff.
LogEntry(q) == logged' = logged \cup {q}

\* The signed statement goes to Rekor.
SubmitToRekor(q) ==
  /\ pc[q] = "log"
  /\ \/ LogEntry(q) /\ GoOn(q, "record")
     \/ CallFails(q) /\ (LogEntry(q) \/ UNCHANGED logged)
  /\ UNCHANGED <<tables, prs, stops>>

About(e, S) == {q \in S : Exec(q) = e}

\* Mutant of InsertRow: one attestation per execution is kept.
InsertIfNone(q) ==
  attested' = IF About(Exec(q), attested) = {} THEN attested \cup {q} ELSE attested

InsertRow(q) == attested' = attested \cup {q}

RecordAttestation(q) ==
  /\ pc[q] = "record"
  /\ \/ InsertRow(q) /\ GoOn(q, "reread")
     \/ CallFails(q) /\ (InsertRow(q) \/ UNCHANGED attested)
  /\ UNCHANGED <<status, execStatus, logged, prs, stops>>

\* Mutant of RereadAttestation: without the limit, a second row is an error.
RereadTheOnlyOne(q) ==
  /\ pc[q] = "reread"
  /\ \/ Cardinality(About(Exec(q), attested)) = 1 /\ GoOn(q, "pr")
     \/ Cardinality(About(Exec(q), attested)) > 1 /\ Refuse(q, "error")
     \/ CallFails(q)
  /\ UNCHANGED <<tables, logged, prs, stops>>

\* The row is read back: the latest one of this execution and hash, which may
\* be that of a concurrent approval.
RereadAttestation(q) ==
  /\ pc[q] = "reread"
  /\ GoOn(q, "pr") \/ CallFails(q)
  /\ UNCHANGED <<tables, logged, prs, stops>>

\* CreateRemediationPR validates again, more strictly, and needs exactly one
\* installation; GitHub opens one pull request per branch, which must exist.
CanOpen(q) ==
  /\ ItemOf[q] \notin TooLong /\ OneInstallation
  /\ Exec(q) \in BranchPushed \ prs

OpenPullRequest(q) ==
  /\ pc[q] = "pr"
  /\ LET Open == CanOpen(q) /\ prs' = prs \cup {Exec(q)} IN
     \/ Open /\ Refuse(q, "ok")
     \/ ~CanOpen(q) /\ Refuse(q, "error") /\ UNCHANGED prs
     \/ CallFails(q) /\ (Open \/ UNCHANGED prs)
  /\ UNCHANGED <<tables, logged, stops>>

\* Mutant of RejectExecution: only the item is rejected.
RejectItemOnly(q) ==
  /\ pc[q] = "execution" /\ Refuse(q, "ok")
  /\ UNCHANGED <<tables, logged, prs, stops>>

\* updateExecutionStatus of a rejection.
RejectExecution(q) ==
  /\ pc[q] = "execution"
  /\ LET Set == execStatus' = [execStatus EXCEPT ![Exec(q)] = "rejected"] IN
     \/ Set /\ Refuse(q, "ok")
     \/ CallFails(q) /\ (Set \/ UNCHANGED execStatus)
  /\ UNCHANGED <<status, attested, logged, prs, stops>>

\* The API goes down: the requests under way are answered by nobody.
Active == {q \in Requests : pc[q] \notin {"idle", "end"}}

Stop ==
  /\ stops < MaxStops /\ Active # {}
  /\ stops' = stops + 1
  /\ pc' = [q \in Requests |-> IF q \in Active THEN "end" ELSE pc[q]]
  /\ hurt' = hurt \cup Active
  /\ UNCHANGED <<tables, logged, prs, answer>>

-----------------------------------------------------------------------------
Process(q) ==
  \/ LoadContext(q) \/ Decide(q) \/ LoadSubject(q)
  \/ SubmitToRekor(q) \/ RecordAttestation(q) \/ RereadAttestation(q)
  \/ OpenPullRequest(q) \/ RejectExecution(q)

Next == (\E q \in Requests : Fetch(q) \/ Process(q)) \/ Stop

Spec == Init /\ [][Next]_vars

\* A request that was accepted is worked on while the API lives.
FairSpec == Spec /\ \A q \in Requests : WF_vars(Process(q))

-----------------------------------------------------------------------------
(* Properties.                                                             *)

\* A pull request never precedes its evidence: its diff was logged in Rekor
\* and recorded by one and the same approval, and no approval's record
\* precedes its log entry (review_queue.go:239-268, attestation.go:150-173).
PullRequestIsAttested ==
  /\ \A e \in prs : About(e, logged \cap attested) # {}
  /\ attested \subseteq logged

\* A Rekor entry without a row, a marked item without a log entry: what a
\* partly failed approval leaves behind is never more than one step behind
\* the requests that failed or are still on the way (review_queue.go:232-246).
LeftoversAreFailures ==
  /\ logged \ attested \subseteq hurt \cup {q \in Approvals : pc[q] = "record"}
  /\ \A i \in Items : status[i] = "approved" =>
       \E q \in Approvals : ItemOf[q] = i /\ (q \in logged \cup hurt \/ pc[q] \in {"attest", "log"})

\* "ok" tells the reviewer the truth, whatever the other requests and failures
\* did: the pull request is open, the execution is rejected.
OkMeansDone ==
  \A q \in Requests : answer[q] = "ok" =>
    IF q \in Approvals THEN Exec(q) \in prs ELSE execStatus[Exec(q)] = "rejected"

\* Approving an item that the PR service accepts ends with a pull request
\* unless a call of that very request fails: concurrent approvals cannot both
\* lose (review_queue.go:239-268).
ApprovalIsCarriedOut ==
  \A q \in Approvals :
    pc[q] = "attest" /\ (CanOpen(q) \/ Exec(q) \in prs)
      ~> Exec(q) \in prs \/ q \in hurt

\* review_queue.go:214 and 308, "review queue item is no longer pending":
\* whoever decides after the first decision gets a conflict.
DecidedOnce ==
  [][\A i \in Items : status[i] # "pending" => status'[i] = status[i]]_vars
=============================================================================
