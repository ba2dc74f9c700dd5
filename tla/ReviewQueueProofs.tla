------------------------- MODULE ReviewQueueProofs -------------------------
(***************************************************************************)
(* Proofs about the review queue, for any number of items and of           *)
(* concurrent approvals and rejections, whichever of their calls fail, and *)
(* about the page in front of it, for any number of lists and lost answers.*)
(***************************************************************************)
EXTENDS QueuePage, TLAPS

\* The point a request has reached tells what it is and what it left behind:
\* only approvals get to the log and to the pull request.
Progress ==
  \A q \in Requests :
    /\ pc[q] \in {"context", "attest", "log", "record", "reread", "pr"} => q \in Approvals
    /\ pc[q] = "execution" => q \in Rejections
    /\ pc[q] \in {"record", "reread", "pr"} => q \in logged
    /\ pc[q] \in {"reread", "pr"} => q \in attested

\* The effects of a request are never taken back, and are its own.
Effects(q) ==
  /\ logged' \in {logged, logged \cup {q}}
  /\ attested' \in {attested, attested \cup {q}}
  /\ prs' \in {prs, prs \cup {Exec(q)}}
  /\ hurt' \in {hurt, hurt \cup {q}}
  /\ UNCHANGED stops

\* A step of a request moves that request only; its answer ends it.
Moves(q) ==
  \E p \in Points, a \in Answers :
    /\ pc' = [pc EXCEPT ![q] = p]
    /\ answer' = answer \/ (p = "end" /\ answer' = [answer EXCEPT ![q] = a])

\* The two hold of every step of a request.
LEMMA RequestStep ==
  ASSUME NEW q \in Requests, Fetch(q) \/ Process(q)
  PROVE  Effects(q) /\ Moves(q)
  <1> USE DEF tables
  <1>1. /\ \A p \in Points : GoOn(q, p) => Moves(q) /\ UNCHANGED hurt
        /\ \A a \in Answers : Refuse(q, a) => Moves(q) /\ UNCHANGED hurt
        /\ CallFails(q) => Moves(q) /\ hurt' = hurt \cup {q}
    BY DEF GoOn, Refuse, Reply, CallFails, Moves, Points, Answers
  <1>2. /\ \A p \in {"context", "decide", "attest", "execution", "log", "record", "reread", "pr"} : p \in Points
        /\ \A a \in {"ok", "conflict", "error"} : a \in Answers
        /\ AfterDecision(q) \in Points
    BY DEF Points, Answers, AfterDecision
  <1>3. CASE Fetch(q)
    BY <1>1, <1>2, <1>3 DEF Fetch, Effects
  <1>4. CASE LoadContext(q)
    BY <1>1, <1>2, <1>4 DEF LoadContext, Effects
  <1>5. CASE Decide(q)
    BY <1>1, <1>2, <1>5 DEF Decide, Effects
  <1>6. CASE LoadSubject(q)
    BY <1>1, <1>2, <1>6 DEF LoadSubject, Effects
  <1>7. CASE SubmitToRekor(q)
    BY <1>1, <1>2, <1>7 DEF SubmitToRekor, LogEntry, Effects
  <1>8. CASE RecordAttestation(q)
    BY <1>1, <1>2, <1>8 DEF RecordAttestation, InsertRow, Effects
  <1>9. CASE RereadAttestation(q)
    BY <1>1, <1>2, <1>9 DEF RereadAttestation, Effects
  <1>10. CASE OpenPullRequest(q)
    BY <1>1, <1>2, <1>10 DEF OpenPullRequest, Effects
  <1>11. CASE RejectExecution(q)
    BY <1>1, <1>2, <1>11 DEF RejectExecution, Effects
  <1> QED BY <1>3, <1>4, <1>5, <1>6, <1>7, <1>8, <1>9, <1>10, <1>11 DEF Process

-----------------------------------------------------------------------------
(* Types, and how far a request is.                                        *)

\* Every variable keeps its type: only approvals log and attest.
LEMMA TypeStep ==
  ASSUME TypeOK, Progress, [Next]_vars
  PROVE  TypeOK'
  <1> USE ReviewAssumption DEF TypeOK
  <1>1. ASSUME NEW q \in Requests, Fetch(q) \/ Process(q) PROVE TypeOK'
    <2>1. Exec(q) \in Executions /\ ItemOf[q] \in Items
      BY DEF Exec, Requests
    <2>2. pc' \in [Requests -> Points] /\ answer' \in [Requests -> Answers]
      BY <1>1, RequestStep DEF Moves
    <2>3. prs' \subseteq Executions /\ hurt' \subseteq Requests /\ stops' \in 0 .. MaxStops
      BY <1>1, <2>1, RequestStep DEF Effects
    <2>4. status' \in [Items -> {"pending", "approved", "rejected"}]
      BY <1>1, <2>1 DEF Process, Fetch, LoadContext, Decide, LoadSubject, SubmitToRekor,
        RecordAttestation, RereadAttestation, OpenPullRequest, RejectExecution, Decision, tables
    <2>5. execStatus' \in [Executions -> {"completed", "failed", "rejected"}]
      BY <1>1, <2>1 DEF Process, Fetch, LoadContext, Decide, LoadSubject, SubmitToRekor,
        RecordAttestation, RereadAttestation, OpenPullRequest, RejectExecution, tables
    <2>6. logged' \subseteq Approvals
      BY <1>1 DEF Process, Fetch, LoadContext, Decide, LoadSubject, SubmitToRekor, LogEntry,
        RecordAttestation, RereadAttestation, OpenPullRequest, RejectExecution, Progress
    <2>7. attested' \subseteq Approvals
      BY <1>1 DEF Process, Fetch, LoadContext, Decide, LoadSubject, SubmitToRekor, InsertRow,
        RecordAttestation, RereadAttestation, OpenPullRequest, RejectExecution, Progress, tables
    <2> QED BY <2>2, <2>3, <2>4, <2>5, <2>6, <2>7
  <1>2. CASE Stop
    BY <1>2 DEF Stop, Active, Points, tables
  <1>3. CASE UNCHANGED vars
    BY <1>3 DEF vars, tables
  <1> QED BY <1>1, <1>2, <1>3 DEF Next

\* Progress is kept: no step gets ahead of the effects it relies on.
LEMMA ProgressStep ==
  ASSUME TypeOK, Progress, [Next]_vars
  PROVE  Progress'
  <1> USE ReviewAssumption DEF TypeOK
  <1>1. ASSUME NEW q \in Requests, Fetch(q) \/ Process(q) PROVE Progress'
    <2> SUFFICES ASSUME NEW w \in Requests
          PROVE  /\ pc'[w] \in {"context", "attest", "log", "record", "reread", "pr"} => w \in Approvals
                 /\ pc'[w] = "execution" => w \in Rejections
                 /\ pc'[w] \in {"record", "reread", "pr"} => w \in logged'
                 /\ pc'[w] \in {"reread", "pr"} => w \in attested'
      BY DEF Progress
    <2>1. CASE w # q
      <3>1. pc'[w] = pc[w] /\ logged \subseteq logged' /\ attested \subseteq attested'
        BY <1>1, <2>1, RequestStep DEF Effects, Moves
      <3> QED BY <3>1 DEF Progress
    <2>2. CASE w = q
      <3> USE <2>2 DEF GoOn, Refuse, Reply, CallFails, Progress, tables
      <3>1. CASE Fetch(q)
        BY <3>1 DEF Fetch
      <3>2. CASE LoadContext(q)
        BY <3>2 DEF LoadContext
      <3>3. CASE Decide(q)
        BY <3>3 DEF Decide, AfterDecision, Requests
      <3>4. CASE LoadSubject(q)
        BY <3>4 DEF LoadSubject
      <3>5. CASE SubmitToRekor(q)
        BY <3>5 DEF SubmitToRekor, LogEntry
      <3>6. CASE RecordAttestation(q)
        BY <3>6 DEF RecordAttestation, InsertRow
      <3>7. CASE RereadAttestation(q)
        BY <3>7 DEF RereadAttestation
      <3>8. CASE OpenPullRequest(q)
        BY <3>8 DEF OpenPullRequest
      <3>9. CASE RejectExecution(q)
        BY <3>9 DEF RejectExecution
      <3> QED BY <1>1, <3>1, <3>2, <3>3, <3>4, <3>5, <3>6, <3>7, <3>8, <3>9 DEF Process
    <2> QED BY <2>1, <2>2
  <1>2. CASE Stop
    BY <1>2 DEF Stop, Active, Progress, tables
  <1>3. CASE UNCHANGED vars
    BY <1>3 DEF vars, tables, Progress
  <1> QED BY <1>1, <1>2, <1>3 DEF Next

-----------------------------------------------------------------------------
(* The safety properties, one at a time.                                   *)

\* Where the effects of a step come from.
LEMMA EffectsAreEarned ==
  ASSUME NEW q \in Requests, Fetch(q) \/ Process(q)
  PROVE  /\ logged' # logged => pc[q] = "log"
         /\ attested' # attested => pc[q] = "record"
         /\ prs' # prs => pc[q] = "pr"
  BY DEF Process, Fetch, LoadContext, Decide, LoadSubject, SubmitToRekor,
    RecordAttestation, RereadAttestation, OpenPullRequest, RejectExecution, CallFails, tables

\* A request opens its pull request after it logged and recorded the diff.
LEMMA AttestedStep ==
  ASSUME TypeOK, Progress, PullRequestIsAttested, [Next]_vars
  PROVE  PullRequestIsAttested'
  <1> USE DEF PullRequestIsAttested, About
  <1>1. ASSUME NEW q \in Requests, Fetch(q) \/ Process(q) PROVE PullRequestIsAttested'
    <2>1. /\ logged \subseteq logged' /\ attested \subseteq attested'
          /\ attested' # attested => attested' = attested \cup {q} /\ q \in logged
          /\ prs' # prs => prs' = prs \cup {Exec(q)} /\ q \in logged \cap attested
      BY <1>1, RequestStep, EffectsAreEarned DEF Effects, Progress
    <2>2. attested' \subseteq logged'
      BY <2>1
    <2>3. ASSUME NEW e \in prs' PROVE \E w \in logged' \cap attested' : Exec(w) = e
      BY <2>1, <2>3
    <2> QED BY <2>2, <2>3 DEF Exec
  <1>2. CASE Stop
    BY <1>2 DEF Stop, tables, Exec
  <1>3. CASE UNCHANGED vars
    BY <1>3 DEF vars, tables, Exec
  <1> QED BY <1>1, <1>2, <1>3 DEF Next

\* A request that lets go of an unfinished approval is counted as hurt.
LEMMA LettingGo ==
  ASSUME NEW q \in Requests, Fetch(q) \/ Process(q), TypeOK, Progress
  PROVE  /\ pc[q] = "attest" => pc'[q] = "log" \/ q \in hurt'
         /\ pc[q] = "log" => (pc'[q] = "record" /\ q \in logged') \/ q \in hurt'
         /\ pc[q] = "record" => q \in attested' \/ q \in hurt'
         /\ logged' # logged => pc'[q] = "record" \/ q \in hurt'
         /\ status' # status =>
              /\ status' = [status EXCEPT ![ItemOf[q]] = Decision(q)]
              /\ q \in Approvals => pc'[q] = "attest" \/ q \in hurt'
  <1> USE DEF GoOn, Refuse, Reply, CallFails, tables, TypeOK
  <1>1. CASE Fetch(q)
    BY <1>1 DEF Fetch
  <1>2. CASE LoadContext(q)
    BY <1>2 DEF LoadContext
  <1>3. CASE Decide(q)
    BY <1>3 DEF Decide, AfterDecision
  <1>4. CASE LoadSubject(q)
    BY <1>4 DEF LoadSubject
  <1>5. CASE SubmitToRekor(q)
    BY <1>5 DEF SubmitToRekor, LogEntry
  <1>6. CASE RecordAttestation(q)
    BY <1>6 DEF RecordAttestation, InsertRow
  <1>7. CASE RereadAttestation(q)
    BY <1>7 DEF RereadAttestation
  <1>8. CASE OpenPullRequest(q)
    BY <1>8 DEF OpenPullRequest
  <1>9. CASE RejectExecution(q)
    BY <1>9 DEF RejectExecution
  <1> QED BY <1>1, <1>2, <1>3, <1>4, <1>5, <1>6, <1>7, <1>8, <1>9 DEF Process

\* What a failure leaves behind is one step behind a request that is hurt or
\* still at that step.
LEMMA LeftoversStep ==
  ASSUME TypeOK, Progress, LeftoversAreFailures, [Next]_vars
  PROVE  LeftoversAreFailures'
  <1> USE ReviewAssumption DEF TypeOK
  <1> DEFINE Behind(w) == w \in logged \cup hurt \/ pc[w] \in {"attest", "log"}
  <1>1. ASSUME NEW q \in Requests, Fetch(q) \/ Process(q) PROVE LeftoversAreFailures'
    <2>1. /\ logged \subseteq logged' /\ attested \subseteq attested' /\ hurt \subseteq hurt'
          /\ logged' \subseteq logged \cup {q}
          /\ \A w \in Requests \ {q} : pc'[w] = pc[w]
      BY <1>1, RequestStep DEF Effects, Moves
    <2>2. ASSUME NEW w \in logged' \ attested'
          PROVE  w \in hurt' \cup {v \in Approvals : pc'[v] = "record"}
      <3>1. w \in Approvals
        BY <1>1, <2>2, TypeStep DEF Next
      <3>2. CASE w # q
        BY <2>1, <2>2, <3>1, <3>2 DEF LeftoversAreFailures, Requests
      <3>3. CASE w = q /\ q \in logged
        <4>1. q \in hurt \/ pc[q] = "record"
          BY <2>1, <2>2, <3>3 DEF LeftoversAreFailures
        <4> QED BY <1>1, <2>1, <2>2, <3>3, <4>1, LettingGo
      <3>4. CASE w = q /\ q \notin logged
        BY <1>1, <2>2, <3>1, <3>4, LettingGo
      <3> QED BY <3>2, <3>3, <3>4
    <2>3. ASSUME NEW w \in Approvals, Behind(w) PROVE Behind(w)'
      <3>1. CASE w # q
        BY <2>1, <2>3, <3>1 DEF Requests
      <3>2. CASE w = q
        BY <1>1, <2>1, <2>3, <3>2, LettingGo
      <3> QED BY <3>1, <3>2
    <2>4. ASSUME NEW i \in Items, status'[i] = "approved"
          PROVE  \E w \in Approvals : ItemOf[w] = i /\ Behind(w)'
      <3>1. CASE status[i] = "approved"
        <4>1. PICK w \in Approvals : ItemOf[w] = i /\ Behind(w)
          BY <3>1 DEF LeftoversAreFailures
        <4> QED BY <2>3, <4>1
      <3>2. CASE status[i] # "approved"
        <4>1. status' = [status EXCEPT ![ItemOf[q]] = Decision(q)]
          BY <1>1, <2>4, <3>2, LettingGo
        <4>2. i = ItemOf[q] /\ q \in Approvals
          BY <2>4, <3>2, <4>1 DEF Decision
        <4>3. pc'[q] = "attest" \/ q \in hurt'
          BY <1>1, <2>4, <3>2, <4>2, LettingGo
        <4> QED BY <4>2, <4>3
      <3> QED BY <3>1, <3>2
    <2> QED BY <2>2, <2>4 DEF LeftoversAreFailures
  <1>2. CASE Stop
    <2>1. /\ UNCHANGED <<status, logged, attested>>
          /\ hurt' = hurt \cup Active
          /\ \A w \in Requests : w \in Active \/ pc'[w] = pc[w]
      BY <1>2 DEF Stop, tables
    <2> QED BY <2>1 DEF LeftoversAreFailures, Active, Requests
  <1>3. CASE UNCHANGED vars
    BY <1>3 DEF vars, tables, LeftoversAreFailures
  <1> QED BY <1>1, <1>2, <1>3 DEF Next

\* "ok" is answered by the step that does what it says, and nothing undoes it.
LEMMA OkStep ==
  ASSUME TypeOK, Progress, OkMeansDone, [Next]_vars
  PROVE  OkMeansDone'
  <1> USE ReviewAssumption DEF TypeOK
  <1>1. ASSUME NEW q \in Requests, Fetch(q) \/ Process(q) PROVE OkMeansDone'
    <2>1. /\ prs \subseteq prs'
          /\ \A w \in Requests \ {q} : answer'[w] = answer[w]
      BY <1>1, RequestStep DEF Effects, Moves
    <2>2. \A e \in Executions : execStatus[e] = "rejected" => execStatus'[e] = "rejected"
      BY <1>1 DEF Process, Fetch, LoadContext, Decide, LoadSubject, SubmitToRekor,
        RecordAttestation, RereadAttestation, OpenPullRequest, RejectExecution, tables
    <2>3. \/ answer'[q] \in {answer[q], "conflict", "error"}
          \/ q \in Approvals /\ Exec(q) \in prs'
          \/ q \in Rejections /\ execStatus'[Exec(q)] = "rejected"
      <3> USE DEF GoOn, Refuse, Reply, CallFails, Progress, Exec, Requests
      <3>1. CASE Fetch(q) \/ LoadContext(q) \/ Decide(q) \/ LoadSubject(q)
        BY <3>1 DEF Fetch, LoadContext, Decide, LoadSubject
      <3>2. CASE SubmitToRekor(q) \/ RecordAttestation(q) \/ RereadAttestation(q)
        BY <3>2 DEF SubmitToRekor, RecordAttestation, RereadAttestation
      <3>3. CASE OpenPullRequest(q)
        BY <3>3 DEF OpenPullRequest
      <3>4. CASE RejectExecution(q)
        BY <3>4 DEF RejectExecution
      <3> QED BY <1>1, <3>1, <3>2, <3>3, <3>4 DEF Process
    <2>4. \A w \in Requests : Exec(w) \in Executions
      BY DEF Exec, Requests
    <2> QED BY <2>1, <2>2, <2>3, <2>4 DEF OkMeansDone, Exec
  <1>2. CASE Stop
    BY <1>2 DEF Stop, tables, OkMeansDone, Exec
  <1>3. CASE UNCHANGED vars
    BY <1>3 DEF vars, tables, OkMeansDone, Exec
  <1> QED BY <1>1, <1>2, <1>3 DEF Next

-----------------------------------------------------------------------------
(* The theorems.                                                           *)

ReviewInv ==
  TypeOK /\ Progress /\ PullRequestIsAttested /\ LeftoversAreFailures /\ OkMeansDone

\* The invariant holds before the first request.
LEMMA ReviewInit == Init => ReviewInv
  <1> SUFFICES ASSUME Init PROVE ReviewInv
    OBVIOUS
  <1> USE ReviewAssumption DEF Init
  <1>1. TypeOK
    BY DEF TypeOK, Points, Answers
  <1>2. Progress
    BY DEF Progress
  <1>3. PullRequestIsAttested /\ LeftoversAreFailures /\ OkMeansDone
    BY DEF PullRequestIsAttested, LeftoversAreFailures, OkMeansDone, About
  <1> QED BY <1>1, <1>2, <1>3 DEF ReviewInv

\* The inductive invariant of the review queue.
THEOREM ReviewInvariance == Spec => []ReviewInv
  <1>1. ReviewInv /\ [Next]_vars => ReviewInv'
    BY TypeStep, ProgressStep, AttestedStep, LeftoversStep, OkStep DEF ReviewInv
  <1> QED BY <1>1, ReviewInit, PTL DEF Spec

\* Type correctness of the review queue.
THEOREM ReviewTypes == Spec => []TypeOK
  <1>1. ReviewInv => TypeOK
    BY DEF ReviewInv
  <1> QED BY <1>1, ReviewInvariance, PTL

\* A pull request never precedes its evidence.
THEOREM EvidenceFirst == Spec => []PullRequestIsAttested
  <1>1. ReviewInv => PullRequestIsAttested
    BY DEF ReviewInv
  <1> QED BY <1>1, ReviewInvariance, PTL

\* Partial failures leave behind no more than the step they failed at.
THEOREM Leftovers == Spec => []LeftoversAreFailures
  <1>1. ReviewInv => LeftoversAreFailures
    BY DEF ReviewInv
  <1> QED BY <1>1, ReviewInvariance, PTL

\* "ok" tells the reviewer the truth.
THEOREM OkIsTrue == Spec => []OkMeansDone
  <1>1. ReviewInv => OkMeansDone
    BY DEF ReviewInv
  <1> QED BY <1>1, ReviewInvariance, PTL

-----------------------------------------------------------------------------
(* How requests end.                                                       *)

\* The points behind the decision, and how far a request is from it.
Late == {"attest", "log", "record", "reread", "pr", "execution"}

\* Only the call at its point writes a decision; a request gets near that
\* point while the item is pending, and beyond it with the decision.
LEMMA DecisionStep ==
  ASSUME TypeOK, NEW q \in Requests, Fetch(q) \/ Process(q)
  PROVE  /\ \/ status' = status
            \/ /\ pc[q] = "decide"
               /\ status' = [status EXCEPT ![ItemOf[q]] = Decision(q)]
         /\ pc'[q] \in {"context", "decide"} =>
              /\ status' = status
              /\ pc[q] = "context" \/ status[ItemOf[q]] = "pending"
         /\ pc'[q] \in Late \/ answer'[q] = "ok" =>
              \/ pc[q] \in Late \/ answer[q] = "ok"
              \/ status' = [status EXCEPT ![ItemOf[q]] = Decision(q)]
  <1> USE DEF GoOn, Refuse, Reply, CallFails, tables, TypeOK, Late
  <1>1. CASE Fetch(q)
    BY <1>1 DEF Fetch
  <1>2. CASE LoadContext(q)
    BY <1>2 DEF LoadContext
  <1>3. CASE Decide(q)
    BY <1>3 DEF Decide, AfterDecision
  <1>4. CASE LoadSubject(q)
    BY <1>4 DEF LoadSubject
  <1>5. CASE SubmitToRekor(q)
    BY <1>5 DEF SubmitToRekor
  <1>6. CASE RecordAttestation(q)
    BY <1>6 DEF RecordAttestation
  <1>7. CASE RereadAttestation(q)
    BY <1>7 DEF RereadAttestation
  <1>8. CASE OpenPullRequest(q)
    BY <1>8 DEF OpenPullRequest
  <1>9. CASE RejectExecution(q)
    BY <1>9 DEF RejectExecution
  <1> QED BY <1>1, <1>2, <1>3, <1>4, <1>5, <1>6, <1>7, <1>8, <1>9 DEF Process

\* A request that is past its decision, or was answered "ok", has decided.
OkMeansDecided ==
  \A q \in Requests : pc[q] \in Late \/ answer[q] = "ok" => status[ItemOf[q]] # "pending"

\* A decided item is never pending again, and whoever decided it knows.
LEMMA DecidedStep ==
  ASSUME TypeOK, OkMeansDecided, [Next]_vars
  PROVE  /\ OkMeansDecided'
         /\ \A i \in Items : status'[i] = "pending" => status[i] = "pending"
  <1> USE ReviewAssumption DEF TypeOK, OkMeansDecided
  <1>1. ASSUME NEW q \in Requests, Fetch(q) \/ Process(q)
        PROVE  /\ OkMeansDecided'
               /\ \A i \in Items : status'[i] = "pending" => status[i] = "pending"
    <2>1. \/ status' = status
          \/ status' = [status EXCEPT ![ItemOf[q]] = Decision(q)]
      BY <1>1, DecisionStep
    <2>2. Decision(q) # "pending"
      BY DEF Decision
    <2>3. \A i \in Items : status'[i] = "pending" => status[i] = "pending"
      BY <2>1, <2>2
    <2>4. \A w \in Requests \ {q} : pc'[w] = pc[w] /\ answer'[w] = answer[w]
      BY <1>1, RequestStep DEF Moves
    <2>5. pc'[q] \in Late \/ answer'[q] = "ok" => status'[ItemOf[q]] # "pending"
      <3>1. pc'[q] \in Late \/ answer'[q] = "ok" =>
              \/ pc[q] \in Late \/ answer[q] = "ok"
              \/ status' = [status EXCEPT ![ItemOf[q]] = Decision(q)]
        BY <1>1, DecisionStep
      <3> QED BY <2>2, <2>3, <3>1
    <2> QED BY <2>3, <2>4, <2>5
  <1>2. CASE Stop
    BY <1>2 DEF Stop, Active, tables, Late
  <1>3. CASE UNCHANGED vars
    BY <1>3 DEF vars, tables
  <1> QED BY <1>1, <1>2, <1>3 DEF Next

\* How a request ends that no failure touched: it did what it says; or it
\* came after another's decision, or is not acceptable, and left nothing
\* behind; or the pull request of an approval, logged and recorded, cannot be
\* opened or is open already.
EndsWell(q) ==
  \/ answer[q] = "ok"
  \/ answer[q] = "conflict" /\ status[ItemOf[q]] # "pending" /\ q \notin logged
  \/ /\ answer[q] = "error" /\ q \in Approvals \ logged
     /\ ~Fit(ItemOf[q]) \/ ~ContextLoads
  \/ answer[q] = "error" /\ q \in logged \cap attested /\ ~CanOpen(q)

\* A request that has not reached the log made no entry of it.
EveryEndIsEarned ==
  \A q \in Requests :
    /\ pc[q] = "end" => q \in hurt \/ EndsWell(q)
    /\ pc[q] \in {"idle", "context", "decide", "attest", "log"} => q \notin logged

\* The step a request ends with.
LEMMA EndStep ==
  ASSUME TypeOK, Progress, EveryEndIsEarned, NEW q \in Requests, Fetch(q) \/ Process(q)
  PROVE  /\ pc'[q] = "end" => q \in hurt' \/ EndsWell(q)'
         /\ pc'[q] \in {"idle", "context", "decide", "attest", "log"} => q \notin logged'
  <1> USE DEF GoOn, Refuse, Reply, CallFails, tables, TypeOK, Progress, EveryEndIsEarned, EndsWell
  <1>1. CASE Fetch(q)
    BY <1>1 DEF Fetch, Fit
  <1>2. CASE LoadContext(q)
    BY <1>2 DEF LoadContext
  <1>3. CASE Decide(q)
    BY <1>3 DEF Decide, AfterDecision
  <1>4. CASE LoadSubject(q)
    BY <1>4 DEF LoadSubject
  <1>5. CASE SubmitToRekor(q)
    BY <1>5 DEF SubmitToRekor, LogEntry
  <1>6. CASE RecordAttestation(q)
    BY <1>6 DEF RecordAttestation, InsertRow
  <1>7. CASE RereadAttestation(q)
    BY <1>7 DEF RereadAttestation
  <1>8. CASE OpenPullRequest(q)
    BY <1>8 DEF OpenPullRequest, CanOpen, Exec
  <1>9. CASE RejectExecution(q)
    BY <1>9 DEF RejectExecution
  <1> QED BY <1>1, <1>2, <1>3, <1>4, <1>5, <1>6, <1>7, <1>8, <1>9 DEF Process

\* What a request ended with stays true: decisions are overwritten but never
\* withdrawn, and a pull request that cannot be opened stays so.
LEMMA EarnedStep ==
  ASSUME TypeOK, Progress, OkMeansDecided, EveryEndIsEarned, [Next]_vars
  PROVE  EveryEndIsEarned'
  <1> USE DEF TypeOK
  <1>1. ASSUME NEW q \in Requests, Fetch(q) \/ Process(q) PROVE EveryEndIsEarned'
    <2>1. /\ \A w \in Requests \ {q} : pc'[w] = pc[w] /\ answer'[w] = answer[w]
          /\ prs \subseteq prs' /\ hurt \subseteq hurt' /\ attested \subseteq attested'
          /\ \A w \in Requests \ {q} : w \in logged' <=> w \in logged
      BY <1>1, RequestStep DEF Effects, Moves
    <2>2. \A w \in Requests : status[ItemOf[w]] # "pending" => status'[ItemOf[w]] # "pending"
      BY <1>1, DecidedStep, ReviewAssumption DEF Next, Requests
    <2>3. ASSUME NEW w \in Requests \ {q}, EndsWell(w) PROVE EndsWell(w)'
      BY <2>1, <2>2, <2>3 DEF EndsWell, CanOpen, Fit, Exec
    <2>4. ASSUME NEW w \in Requests \ {q}
          PROVE  /\ pc'[w] = "end" => w \in hurt' \/ EndsWell(w)'
                 /\ pc'[w] \in {"idle", "context", "decide", "attest", "log"} => w \notin logged'
      BY <2>1, <2>3 DEF EveryEndIsEarned
    <2> QED BY <1>1, <2>4, EndStep DEF EveryEndIsEarned
  <1>2. CASE Stop
    BY <1>2 DEF Stop, Active, tables, EveryEndIsEarned, EndsWell, CanOpen, Fit, Exec
  <1>3. CASE UNCHANGED vars
    BY <1>3 DEF vars, tables, EveryEndIsEarned, EndsWell, CanOpen, Fit, Exec
  <1> QED BY <1>1, <1>2, <1>3 DEF Next

\* An approval of an item that every check accepts and whose branch is there
\* ends with its pull request open, whoever else approves the same diff: only a
\* decision before it, or a failed call of its own, keeps it from that
\* (review_queue.go:193-268).  That it ends is left to the liveness property.
NoneFallsShort ==
  \A q \in Approvals :
    /\ pc[q] = "end" /\ q \notin hurt /\ answer[q] # "conflict"
    /\ Fit(ItemOf[q]) /\ ContextLoads /\ (CanOpen(q) \/ Exec(q) \in prs)
    => Exec(q) \in prs

\* No approval falls short because of another.
THEOREM ApprovalsReachTheirEnd == Spec => [](EveryEndIsEarned /\ NoneFallsShort)
  <1>1. Init => OkMeansDecided /\ EveryEndIsEarned
    BY DEF Init, OkMeansDecided, Late, EveryEndIsEarned
  <1>2. ReviewInv /\ OkMeansDecided /\ EveryEndIsEarned /\ [Next]_vars
          => OkMeansDecided' /\ EveryEndIsEarned'
    BY DecidedStep, EarnedStep DEF ReviewInv
  <1>3. ReviewInv /\ EveryEndIsEarned => NoneFallsShort
    BY ReviewAssumption
      DEF ReviewInv, OkMeansDone, EveryEndIsEarned, EndsWell, NoneFallsShort, Requests
  <1> QED BY <1>1, <1>2, <1>3, ReviewInvariance, PTL DEF Spec

-----------------------------------------------------------------------------
(* The page.                                                               *)

\* What the page knows of its requests.  One that was not sent has not begun,
\* one whose answer came has ended, one under way keeps the item's buttons
\* disabled, and so an item has no two of them under way.
RequestsOfThePage ==
  /\ told \subseteq clicked /\ clicked \subseteq Own /\ lost \subseteq told
  /\ \A q \in Own \ clicked : pc[q] = "idle"
  /\ \A q \in told \ lost : pc[q] = "end"
  /\ \A q \in clicked \ told : ItemOf[q] \in busy
  /\ \A p, q \in clicked \ told : ItemOf[p] = ItemOf[q] => p = q

\* A request about to decide still finds the item pending, unless somebody
\* else is at work on it.
DecidesPending ==
  \A q \in Requests :
    pc[q] \in {"context", "decide"} /\ OnlyHere(ItemOf[q]) => status[ItemOf[q]] = "pending"

\* Lists are of items, and what the page shows is as NothingHidden says.
ListsOfThePage ==
  /\ DOMAIN list = Lists /\ rows \in [Lists -> SUBSET Items] /\ listed \subseteq Items
  /\ NothingHidden

PageInv == ReviewInv /\ OkMeansDecided /\ RequestsOfThePage /\ DecidesPending /\ ListsOfThePage

\* The page does nothing to the tables but through its requests.
LEMMA PageStepIsReviewStep ==
  ASSUME Own \subseteq Requests, [PageNext]_pageVars
  PROVE  [Next]_vars
  BY DEF PageNext, pageVars, AskList, GetToken, Send, LoseToken, AskInVain, Clear, ReadList,
         BuildList, ShowList, ListFails, Click, Serve, ServeOthers, Answered, LoseAnswer, Next

\* The invariant holds when the page opens.
LEMMA PageInitInv ==
  ASSUME Own \subseteq Requests, PageInit
  PROVE  PageInv
  <1>1. ReviewInv
    BY ReviewInit DEF PageInit
  <1>2. OkMeansDecided /\ DecidesPending
    BY DEF PageInit, Init, OkMeansDecided, DecidesPending, Late
  <1>3. RequestsOfThePage /\ ListsOfThePage
    BY DEF PageInit, Init, RequestsOfThePage, ListsOfThePage, NothingHidden
  <1> QED BY <1>1, <1>2, <1>3 DEF PageInv

\* A request that has begun does not become idle again.
LEMMA Begun ==
  ASSUME TypeOK, NEW q \in Requests, Fetch(q) \/ Process(q)
  PROVE  pc'[q] # "idle"
  <1> USE DEF GoOn, Refuse, Reply, CallFails, TypeOK
  <1>1. CASE Fetch(q) \/ LoadContext(q) \/ Decide(q) \/ LoadSubject(q)
    BY <1>1 DEF Fetch, LoadContext, Decide, AfterDecision, LoadSubject
  <1>2. CASE SubmitToRekor(q) \/ RecordAttestation(q) \/ RereadAttestation(q)
    BY <1>2 DEF SubmitToRekor, RecordAttestation, RereadAttestation
  <1>3. CASE OpenPullRequest(q) \/ RejectExecution(q)
    BY <1>3 DEF OpenPullRequest, RejectExecution
  <1> QED BY <1>1, <1>2, <1>3 DEF Process

\* Once somebody else has asked about an item, it is so for good.
LEMMA OnlyHereBefore ==
  ASSUME Own \subseteq Requests, PageInv, [PageNext]_pageVars, NEW i \in Items, OnlyHere(i)'
  PROVE  OnlyHere(i)
  <1> USE DEF PageInv, RequestsOfThePage
  <1>1. \A q \in Requests : pc[q] # "idle" => pc'[q] # "idle"
    <2>1. ASSUME NEW q \in Requests, Fetch(q) \/ Process(q)
          PROVE  \A w \in Requests : pc[w] # "idle" => pc'[w] # "idle"
      <3>1. \A w \in Requests \ {q} : pc'[w] = pc[w]
        BY <2>1, RequestStep DEF Moves, ReviewInv, TypeOK
      <3>2. pc'[q] # "idle"
        BY <2>1, Begun DEF ReviewInv
      <3> QED BY <3>1, <3>2
    <2>2. CASE Stop
      BY <2>2 DEF Stop, Active
    <2>3. CASE UNCHANGED vars
      BY <2>3 DEF vars
    <2> QED BY <2>1, <2>2, <2>3, PageStepIsReviewStep DEF Next
  <1>2. lost \subseteq lost' /\ clicked' \subseteq Own
    BY DEF PageNext, pageVars, page, AskList, GetToken, Send, LoseToken, AskInVain, Clear,
       ReadList, BuildList, ShowList, ListFails, Click, Serve, ServeOthers, Answered, LoseAnswer
  <1> QED BY <1>1, <1>2 DEF OnlyHere

\* A step of the API for a request leaves what the page knows.
LEMMA ServeStep ==
  ASSUME Own \subseteq Requests, PageInv, [PageNext]_pageVars,
         NEW q \in Requests, q \in clicked \/ q \notin Own,
         Fetch(q) \/ Process(q), UNCHANGED page
  PROVE  RequestsOfThePage' /\ DecidesPending'
  <1> USE ReviewAssumption DEF PageInv, RequestsOfThePage
  <1>2. \A w \in Requests \ {q} : pc'[w] = pc[w]
    BY RequestStep DEF Moves, ReviewInv, TypeOK
  <1>3. pc[q] # "end"
    BY DEF Fetch, Process, LoadContext, Decide, LoadSubject, SubmitToRekor,
       RecordAttestation, RereadAttestation, OpenPullRequest, RejectExecution
  <1>4. RequestsOfThePage'
    BY <1>2, <1>3 DEF page
  <1>5. DecidesPending'
    <2> SUFFICES ASSUME NEW w \in Requests, pc'[w] \in {"context", "decide"},
                        OnlyHere(ItemOf[w])'
                 PROVE  status'[ItemOf[w]] = "pending"
      BY DEF DecidesPending
    <2>1. OnlyHere(ItemOf[w]) /\ ItemOf[w] \in Items
      BY OnlyHereBefore DEF Requests
    <2>2. CASE w = q
      BY <2>1, <2>2, DecisionStep DEF DecidesPending, ReviewInv
    <2>3. CASE w # q
      <3>1. status[ItemOf[w]] = "pending" /\ pc[w] \in {"context", "decide"}
        BY <1>2, <2>1, <2>3 DEF DecidesPending
      <3>2. w \in clicked \ told
        BY <2>1, <3>1 DEF OnlyHere
      <3>3. pc'[q] # "idle"
        BY Begun DEF ReviewInv
      <3>4. ItemOf[q] # ItemOf[w]
        <4> SUFFICES ASSUME ItemOf[q] = ItemOf[w] PROVE FALSE
          OBVIOUS
        <4>1. q \in clicked \ told
          BY <1>3, <2>1, <3>3 DEF OnlyHere, page
        <4> QED BY <2>3, <3>2, <4>1
      <3>5. status' = status \/ status' = [status EXCEPT ![ItemOf[q]] = Decision(q)]
        BY DecisionStep DEF ReviewInv
      <3> QED BY <3>1, <3>4, <3>5 DEF ReviewInv, TypeOK
    <2> QED BY <2>2, <2>3
  <1> QED BY <1>4, <1>5

\* What the page does itself: buttons are disabled with the click and enabled
\* with the outcome, and a lost answer is remembered.
LEMMA RequestsStep ==
  ASSUME Own \subseteq Requests, PageInv, [PageNext]_pageVars
  PROVE  RequestsOfThePage' /\ DecidesPending'
  <1> USE DEF PageInv
  <1>1. \A q \in Requests : OnlyHere(ItemOf[q])' => OnlyHere(ItemOf[q])
    BY OnlyHereBefore, ReviewAssumption DEF Requests
  <1>2. ASSUME UNCHANGED vars \/ Stop PROVE DecidesPending'
    BY <1>1, <1>2 DEF Stop, Active, vars, tables, DecidesPending
  <1>3. CASE UNCHANGED <<vars, clicked, told, lost, busy>>
    BY <1>2, <1>3 DEF vars, RequestsOfThePage
  <1>4. ASSUME NEW q \in Own, Click(q) PROVE RequestsOfThePage' /\ DecidesPending'
    BY <1>2, <1>4 DEF Click, Enabled, vars, RequestsOfThePage
  <1>5. ASSUME NEW q \in Own, Answered(q) PROVE RequestsOfThePage' /\ DecidesPending'
    BY <1>2, <1>5 DEF Answered, Release, vars, RequestsOfThePage
  <1>6. ASSUME NEW q \in Own, LoseAnswer(q) PROVE RequestsOfThePage' /\ DecidesPending'
    BY <1>2, <1>6 DEF LoseAnswer, Release, vars, RequestsOfThePage
  <1>7. CASE Stop /\ UNCHANGED page
    BY <1>2, <1>7 DEF Stop, Active, page, tables, RequestsOfThePage
  <1>8. ASSUME NEW q \in Own, Serve(q) PROVE RequestsOfThePage' /\ DecidesPending'
    BY <1>8, ServeStep DEF Serve
  <1>9. ASSUME NEW q \in Requests \ Own, ServeOthers(q)
        PROVE  RequestsOfThePage' /\ DecidesPending'
    BY <1>9, ServeStep DEF ServeOthers
  <1> QED BY <1>3, <1>4, <1>5, <1>6, <1>7, <1>8, <1>9
        DEF PageNext, pageVars, page, AskList, GetToken, Send, LoseToken, AskInVain, Clear,
            ReadList, BuildList, ShowList, ListFails

\* Lists come and go with the token, and an answer takes an item away only when
\* it is decided.
LEMMA ListsStep ==
  ASSUME Own \subseteq Requests, PageInv, [PageNext]_pageVars
  PROVE  ListsOfThePage'
  <1> USE ReviewAssumption DEF PageInv, ListsOfThePage, NothingHidden
  <1>1. \A i \in Items : status'[i] = "pending" => status[i] = "pending"
    BY PageStepIsReviewStep, DecidedStep DEF ReviewInv
  <1>2. CASE UNCHANGED <<token, listed, shown, list, rows, loading, failed>>
    BY <1>1, <1>2
  <1>3. ASSUME NEW l \in Lists,
               Send(l) \/ (token' = token /\ (ReadList(l) \/ BuildList(l) \/ ListFails(l)))
        PROVE  ListsOfThePage'
    <2>1. UNCHANGED <<status, listed, shown>>
      BY <1>3 DEF Send, ReadList, BuildList, ListFails, vars, tables
    <2>2. DOMAIN list' = Lists /\ rows' \in [Lists -> SUBSET Items]
      BY <1>3 DEF Send, ReadList, BuildList, ListFails, PendingRows
    <2>3. token' /\ ~loading' /\ ~failed' => \E m \in Lists : list'[m] = "shown"
      BY <1>3 DEF Send, ReadList, BuildList, ListFails, Start
    <2> QED BY <2>1, <2>2, <2>3
  <1>4. ASSUME NEW l \in Lists, ShowList(l) PROVE ListsOfThePage'
    BY <1>4 DEF ShowList
  <1>5. ASSUME NEW q \in Own, Answered(q) PROVE ListsOfThePage'
    <2>1. q \in Requests /\ (answer[q] = "ok" => status[ItemOf[q]] # "pending")
      BY DEF OkMeansDecided
    <2>2. UNCHANGED <<status, token, listed, list, rows, loading, failed>> /\ shown' = After(q)
      BY <1>5 DEF Answered, vars, tables
    <2> QED BY <2>1, <2>2 DEF After
  <1>6. \A q \in Own : Click(q) \/ Serve(q) \/ LoseAnswer(q) =>
          UNCHANGED <<token, listed, shown, list, rows, loading, failed>>
    BY DEF Click, Serve, LoseAnswer, page
  <1>7. \A q \in Requests \ Own : ServeOthers(q) =>
          UNCHANGED <<token, listed, shown, list, rows, loading, failed>>
    BY DEF ServeOthers, page
  <1>8. CASE LoseToken \/ AskInVain
    BY <1>8 DEF LoseToken, AskInVain, Clear
  <1>9. \A l \in Lists : AskList(l) \/ GetToken(l) => Send(l)
    BY DEF AskList, GetToken
  <1>10. \A l \in Lists : ReadList(l) \/ BuildList(l) \/ ListFails(l) => token' = token
    BY DEF ReadList, BuildList, ListFails
  <1> QED BY <1>2, <1>3, <1>4, <1>5, <1>6, <1>7, <1>8, <1>9, <1>10 DEF PageNext, pageVars, page

\* The inductive invariant of the page and the API behind it.
THEOREM PageInvariance ==
  ASSUME Own \subseteq Requests PROVE PageSpec => []PageInv
  <1>1. PageInit => PageInv
    BY PageInitInv
  <1>2. PageInv /\ [PageNext]_pageVars => PageInv'
    <2> SUFFICES ASSUME PageInv, [PageNext]_pageVars PROVE PageInv'
      OBVIOUS
    <2>1. [Next]_vars
      BY PageStepIsReviewStep
    <2>2. ReviewInv'
      BY <2>1, TypeStep, ProgressStep, AttestedStep, LeftoversStep, OkStep DEF ReviewInv, PageInv
    <2>3. OkMeansDecided'
      BY <2>1, DecidedStep DEF ReviewInv, PageInv
    <2> QED BY <2>2, <2>3, RequestsStep, ListsStep DEF PageInv
  <1> QED BY <1>1, <1>2, PTL DEF PageSpec

\* The page asks nothing of the API that the review queue's model does not
\* have: what is proved of Spec holds behind the page as well.
THEOREM PageUsesTheApi ==
  ASSUME Own \subseteq Requests PROVE PageSpec => Spec
  <1>1. PageInit => Init
    BY DEF PageInit
  <1>2. [PageNext]_pageVars => [Next]_vars
    BY PageStepIsReviewStep
  <1> QED BY <1>1, <1>2, PTL DEF PageSpec, Spec

\* With a token in hand the page hides nothing that is pending, and claims no
\* list it was not answered since it was last empty for want of a token.
THEOREM PageShowsWhatIsPending ==
  ASSUME Own \subseteq Requests PROVE PageSpec => []NothingHidden
  <1>1. PageInv => NothingHidden
    BY DEF PageInv, ListsOfThePage
  <1> QED BY <1>1, PageInvariance, PTL

\* One page decides an item once, unless an answer about it was lost or
\* somebody else is at work on it: the request that would overwrite a decision
\* is not under way.
THEOREM OnePageDecidesOnce ==
  ASSUME Own \subseteq Requests PROVE PageSpec => PageDecidesOnce
  <1> DEFINE Kept == \A i \in Items :
               status[i] # "pending" /\ OnlyHere(i) => status'[i] = status[i]
  <1>1. ASSUME PageInv, [PageNext]_pageVars PROVE Kept
    <2>1. ASSUME NEW q \in Requests, Fetch(q) \/ Process(q) PROVE Kept
      <3>1. TypeOK
        BY <1>1 DEF PageInv, ReviewInv
      <3>2. \/ status' = status
            \/ pc[q] = "decide" /\ status' = [status EXCEPT ![ItemOf[q]] = Decision(q)]
        BY <2>1, <3>1, DecisionStep
      <3>3. pc[q] = "decide" /\ OnlyHere(ItemOf[q]) => status[ItemOf[q]] = "pending"
        BY <1>1 DEF PageInv, DecidesPending
      <3> QED BY <3>1, <3>2, <3>3 DEF TypeOK
    <2>2. (\A q \in Requests : ~(Fetch(q) \/ Process(q))) => status' = status
      BY <1>1, PageStepIsReviewStep DEF Next, Stop, vars, tables
    <2> QED BY <2>1, <2>2
  <1>2. PageInv /\ [PageNext]_pageVars => [Kept]_pageVars
    BY <1>1
  <1> QED BY <1>2, PageInvariance, PTL DEF PageSpec, PageDecidesOnce
=============================================================================
