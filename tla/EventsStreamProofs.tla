-------------------------- MODULE EventsStreamProofs --------------------------
(***************************************************************************)
(* Proofs about the dashboard's event stream, for any tables, intervals,   *)
(* delays and numbers of missed polls that the window covers.              *)
(***************************************************************************)
EXTENDS EventsStream, FiniteSetTheorems, TLAPS

\* What the theorems ask of the constants beyond StreamAssumption.
Covered == StreamAssumption /\ WideWindow /\ RoomForBursts

\* What a missed poll costs, what is left to cost after f of them, and when
\* the next good poll comes at the latest.
Setback  == Period + RetryDelay
Slack(f) == (MaxFails - f) * Setback
Deadline == nextPoll + Slack(fails)

\* A poll under way was due.
PollingIsDue == point # "wait" => open /\ nextPoll <= now

\* While the stream is open the ticker is ahead of the clock, and by no more
\* than the failures it has left.
Timing == open => now <= nextPoll /\ Deadline <= now + Period + Slack(0)

Verdict == {"completed", "failed", "rejected"}
Started == Verdict \cup {"running"}

\* What a row's stamps tell of its status.
StampsTell ==
  /\ \A x \in Rows : stamped[x] <= now
  /\ \A x \in Rows : writing[x] # 0 =>
       stamped[x] <= writing[x] /\ writing[x] <= now /\ now <= writing[x] + MaxLag
  /\ \A x \in Rows : writing[x] # 0 => status[x] \in {"absent", "queued", "running"}
  /\ \A x \in Executions :
       /\ status[x] \in Started \cup {"queued"}
       /\ stamped[x] # 0 => status[x] \in Started
       /\ completed[x] # 0 => status[x] \in Verdict
       /\ status[x] \in Verdict => completed[x] # 0 /\ stamped[x] <= completed[x]
  /\ \A x \in Reviews :
       /\ status[x] \in {"absent", "pending", "decided"}
       /\ stamped[x] # 0 => status[x] # "absent"
  /\ \A x \in Attestations : status[x] \in {"absent", "signed"}

\* A window holds no more rows than a query answers.
Burst == Cardinality(Busy) <= MaxBusy

\* What was sent was shown, an execution with one of its statuses.
SentIsShown ==
  /\ \A x \in sent : shown[x] # {}
  /\ \A x \in sent \cap Executions : shown[x] \cap Started # {}

\* Points past the queries of executions by completed_at, of reviews and of
\* attestations.
PastCompletions  == {"reviews", "attestations", "send"}
PastReviews      == {"attestations", "send"}
PastAttestations == {"send"}

\* What the queries made so far answered of the executions.
AnsweredIsStarted ==
  /\ point = "wait" => \A x \in Rows : seen[x] = "none"
  /\ \A x \in Executions : seen[x] # "none" => seen[x] \in Started /\ status[x] \in Started

\* Between the first two queries: a row that changes is for the second.
FirstAnswer ==
  point = "completions" =>
    \A x \in Executions : seen[x] # "none" =>
      x \in Recent(stamped) /\ (seen[x] = status[x] \/ x \in JustSettled)

\* From the second query on, the executions are those of its moment.
OneMoment ==
  point \in PastCompletions => \A x \in Executions : seen[x] # "none" => seen[x] = asOf[x]

\* What a query that was made has not answered has only just landed.
MissedIsLate ==
  /\ point # "wait" =>
       \A x \in Executions \cap Recent(stamped) :
         seen[x] = "none" => now <= stamped[x] + MaxLag
  /\ point \in PastCompletions =>
       \A x \in Executions \cap Recent(completed) :
         seen[x] = "none" => now <= completed[x] + MaxLag
  /\ point \in PastReviews =>
       \A x \in Reviews \cap Recent(stamped) :
         seen[x] = "none" /\ status[x] # "decided" => now <= stamped[x] + MaxLag
  /\ point \in PastAttestations =>
       \A x \in Attestations \cap Recent(stamped) :
         seen[x] = "none" => now <= stamped[x] + MaxLag

Answers == AnsweredIsStarted /\ FirstAnswer /\ OneMoment /\ MissedIsLate

\* A row that is not shown yet stays in the window until the next good poll.
StartIsDue ==
  \A x \in Rows :
    open /\ stamped[x] >= opened /\ status[x] # "decided" /\ shown[x] = {} =>
      Deadline <= stamped[x] + Window

SettledIsDue ==
  \A x \in Executions :
    open /\ completed[x] >= opened /\ shown[x] \cap Started = {} =>
      Deadline <= completed[x] + Window

StreamInv ==
  /\ TypeOK /\ PollingIsDue /\ StampsTell /\ Burst /\ SentIsShown
  /\ Timing /\ Answers /\ StartIsDue /\ SettledIsDue

-----------------------------------------------------------------------------
(* Types.                                                                  *)

\* What a query answers are statuses.
LEMMA MergeIsStatus ==
  ASSUME TypeOK, NEW S, NEW x \in Rows
  PROVE  /\ Merge(S)[x] = (IF x \in S THEN status[x] ELSE seen[x])
         /\ Merge(S)[x] \in Statuses \cup {"none"}
  BY DEF Merge, TypeOK

\* A query of a poll, and what any of them leaves alone.
PollQuery == PollStarted \/ PollCompleted \/ PollReviews \/ PollAttestations

LEMMA QueryKeeps ==
  ASSUME PollQuery
  PROVE  /\ UNCHANGED <<now, row, nextPoll, sent, shown, fails, page>>
         /\ point = "wait" => open /\ now >= nextPoll
         /\ point' \in Points \ {"wait"}
  BY DEF PollQuery, PollStarted, PollCompleted, PollReviews, PollAttestations, Query, Points

\* Types hold, and a poll is under way only when it was due.
LEMMA StreamTypeStep ==
  ASSUME StreamAssumption, TypeOK, PollingIsDue, [Next]_vars
  PROVE  TypeOK' /\ PollingIsDue'
  <1> USE DEF TypeOK, PollingIsDue
  <1> USE DEF StreamAssumption
  <1>1. ASSUME NEW x \in Rows, BeginWrite(x) \/ Land(x) \/ Decide(x) \/ Reject(x)
        PROVE  TypeOK' /\ PollingIsDue'
    <2>1. UNCHANGED <<now, stream, page>>
      BY <1>1 DEF BeginWrite, Land, Decide, Reject
    <2>2. status' \in [Rows -> Statuses]
      BY <1>1 DEF BeginWrite, Land, Decide, Reject, Stamp, Settle, Statuses
    <2>3. {stamped', completed', writing'} \subseteq [Rows -> 0 .. Horizon]
      BY <1>1 DEF BeginWrite, Land, Decide, Reject, Stamp, Settle
    <2> QED BY <2>1, <2>2, <2>3 DEF stream, page
  <1>2. CASE PollQuery
    <2>1. /\ UNCHANGED <<now, row, nextPoll, sent, shown, fails, page>>
          /\ point' \in Points /\ (open /\ nextPoll <= now)
      BY <1>2, QueryKeeps
    <2>2. \A S : Merge(S) \in [Rows -> Statuses \cup {"none"}]
      BY MergeIsStatus DEF Merge
    <2>3. seen' \in [Rows -> Statuses \cup {"none"}]
      BY <1>2, <2>2 DEF PollQuery, PollStarted, PollCompleted, PollReviews, PollAttestations, Query
    <2>4. asOf' \in [Rows -> Statuses \cup {"none"}]
      BY <1>2 DEF PollQuery, PollStarted, PollCompleted, PollReviews, PollAttestations
    <2> QED BY <2>1, <2>3, <2>4 DEF row, page
  <1>3. CASE SendNew
    <2>1. sent' = sent \cup Unsent /\ UNCHANGED <<now, row, page>> /\ fails' \in 0 .. MaxFails
      BY <1>3 DEF SendNew
    <2>2. sent' \subseteq Rows
      BY <2>1 DEF Unsent
    <2>3. shown' \in [Rows -> SUBSET Statuses]
      <3>1. \A x \in Unsent : x \in Rows /\ seen[x] \in Statuses
        BY DEF Unsent
      <3> QED BY <1>3, <3>1 DEF SendNew
    <2>4. nextPoll' \in 1 .. Horizon + RetryDelay + Period
      BY <1>3 DEF SendNew, EndPoll
    <2>5. point' = "wait" /\ {seen', asOf'} \subseteq [Rows -> Statuses \cup {"none"}]
      BY <1>3 DEF SendNew, EndPoll, Nothing
    <2> QED BY <2>1, <2>2, <2>3, <2>4, <2>5 DEF row, page, Points
  <1>4. CASE PollFails
    <2>1. UNCHANGED <<now, row, sent, shown, page>>
      BY <1>4 DEF PollFails
    <2>2. nextPoll' \in 1 .. Horizon + RetryDelay + Period /\ fails' \in 0 .. MaxFails
      BY <1>4 DEF PollFails, EndPoll
    <2>3. point' = "wait" /\ {seen', asOf'} \subseteq [Rows -> Statuses \cup {"none"}]
      BY <1>4 DEF PollFails, EndPoll, Nothing
    <2> QED BY <2>1, <2>2, <2>3 DEF row, page, Points
  <1>5. ASSUME NEW time \in 1 .. Horizon + RetryDelay, NewConnection(time)
        PROVE  /\ sent' = {} /\ point' = "wait" /\ point' \in Points
               /\ nextPoll' \in 1 .. Horizon + RetryDelay + Period
               /\ {seen', asOf'} \subseteq [Rows -> Statuses \cup {"none"}]
    BY <1>5 DEF NewConnection, Nothing, Points
  <1>6. CASE Reconnect
    <2>1. /\ now + RetryDelay \in 1 .. Horizon + RetryDelay /\ NewConnection(now + RetryDelay)
          /\ UNCHANGED <<now, row, shown, open, opened>>
          /\ breaks' \in 0 .. MaxBreaks /\ fails' \in 0 .. MaxFails
      BY <1>6 DEF Reconnect
    <2> QED BY <1>5, <2>1 DEF row
  <1>7. CASE Refuse
    <2>1. /\ now \in 1 .. Horizon + RetryDelay /\ NewConnection(now)
          /\ UNCHANGED <<now, row, shown, fails, opened>>
          /\ breaks' \in 0 .. MaxBreaks /\ open' = FALSE
      BY <1>7 DEF Refuse
    <2> QED BY <1>5, <2>1 DEF row
  <1>8. CASE RefreshToken
    <2>1. /\ now \in 1 .. Horizon + RetryDelay /\ NewConnection(now)
          /\ UNCHANGED <<now, row, shown, breaks>>
          /\ open' = TRUE /\ opened' = now /\ fails' \in 0 .. MaxFails
      BY <1>8 DEF RefreshToken
    <2> QED BY <1>5, <2>1 DEF row
  <1>9. CASE Tick
    BY <1>9 DEF Tick, row, stream, page
  <1>10. CASE UNCHANGED vars
    BY <1>10 DEF vars, row, stream, page
  <1> QED BY <1>1, <1>2, <1>3, <1>4, <1>6, <1>7, <1>8, <1>9, <1>10 DEF Next, PollQuery

-----------------------------------------------------------------------------
(* Rows.                                                                   *)

\* How a write lands.
LEMMA LandCases ==
  ASSUME StreamAssumption, TypeOK, StampsTell, NEW x \in Rows, Land(x)
  PROVE  /\ writing[x] # 0 /\ writing' = [writing EXCEPT ![x] = 0]
         /\ UNCHANGED <<now, stream, page>>
         /\ \/ /\ x \in Executions /\ status[x] = "queued"
               /\ status' = [status EXCEPT ![x] = "running"]
               /\ stamped' = [stamped EXCEPT ![x] = writing[x]] /\ completed' = completed
            \/ /\ x \in Executions /\ status[x] = "running"
               /\ \E v \in Verdict : status' = [status EXCEPT ![x] = v]
               /\ completed' = [completed EXCEPT ![x] = writing[x]] /\ stamped' = stamped
            \/ /\ x \in Reviews /\ status' = [status EXCEPT ![x] = "pending"]
               /\ stamped' = [stamped EXCEPT ![x] = writing[x]] /\ completed' = completed
            \/ /\ x \in Attestations /\ status' = [status EXCEPT ![x] = "signed"]
               /\ stamped' = [stamped EXCEPT ![x] = writing[x]] /\ completed' = completed
  BY DEF Land, Stamp, Settle, Rows, StampsTell, StreamAssumption, Verdict, Started

\* The stamps of a row go with its status.
LEMMA StampsStep ==
  ASSUME StreamAssumption, TypeOK, StampsTell, [Next]_vars
  PROVE  StampsTell'
  <1> USE DEF TypeOK, StreamAssumption, Rows
  <1>1. ASSUME NEW x \in Rows, BeginWrite(x) PROVE StampsTell'
    BY <1>1 DEF BeginWrite, StampsTell
  <1>2. ASSUME NEW x \in Rows, Land(x) PROVE StampsTell'
    BY <1>2, LandCases DEF StampsTell, Started, Verdict
  <1>3. ASSUME NEW x \in Rows, Decide(x) \/ Reject(x) PROVE StampsTell'
    BY <1>3 DEF Decide, Reject, StampsTell, Started, Verdict
  <1>4. CASE Tick
    BY <1>4 DEF Tick, row, StampsTell
  <1>5. CASE UNCHANGED <<now, row>>
    BY <1>5 DEF row, StampsTell
  <1> QED BY <1>1, <1>2, <1>3, <1>4, <1>5, QueryKeeps
        DEF Next, PollQuery, SendNew, PollFails, Reconnect, Refuse, RefreshToken, vars

\* A window's rows stay few: only a write that begins adds one.
LEMMA BurstStep ==
  ASSUME Covered, TypeOK, StampsTell, Burst, [Next]_vars
  PROVE  Burst'
  <1> USE DEF Burst
  <1>1. Busy \subseteq Rows /\ Busy' \subseteq Rows
    BY DEF Busy, Recent
  <1>2. ASSUME Busy' \subseteq Busy PROVE Burst'
    <2>1. IsFiniteSet(Busy)
      BY <1>1, FS_Subset DEF Covered, RoomForBursts
    <2>2. Cardinality(Busy') <= Cardinality(Busy)
      BY <1>2, <2>1, FS_Subset
    <2>3. Cardinality(Busy) \in Nat /\ Cardinality(Busy') \in Nat /\ MaxBusy \in Nat
      BY <1>2, <2>1, FS_Subset, FS_CardinalityType DEF Covered, StreamAssumption
    <2> QED BY <2>2, <2>3
  <1>3. ASSUME NEW x \in Rows, BeginWrite(x) PROVE Burst'
    <2>1. Busy' \subseteq Busy \cup {x}
      BY <1>3 DEF BeginWrite, Busy, Recent, TypeOK
    <2>2. IsFiniteSet(Busy \cup {x})
      BY <1>1, FS_Subset DEF Covered, RoomForBursts
    <2>3. Cardinality(Busy') <= Cardinality(Busy \cup {x})
      BY <2>1, <2>2, FS_Subset
    <2>4. Cardinality(Busy \cup {x}) <= MaxBusy
      BY <1>3 DEF BeginWrite
    <2>5. /\ Cardinality(Busy \cup {x}) \in Nat /\ Cardinality(Busy') \in Nat
          /\ MaxBusy \in Nat
      BY <2>1, <2>2, FS_Subset, FS_CardinalityType DEF Covered, StreamAssumption
    <2> QED BY <2>3, <2>4, <2>5
  <1>4. ASSUME NEW x \in Rows, Land(x) PROVE Burst'
    <2>1. StreamAssumption
      BY DEF Covered
    <2>2. Busy' \subseteq Busy
      BY <1>4, <2>1, LandCases DEF Busy, Recent, TypeOK
    <2> QED BY <1>2, <2>2
  <1>5. CASE Tick
    <2>1. Busy' \subseteq Busy
      BY <1>5 DEF Tick, row, Busy, Recent, TypeOK, Covered, StreamAssumption
    <2> QED BY <1>2, <2>1
  <1>6. CASE UNCHANGED <<now, writing, stamped, completed>>
    <2>1. Busy' = Busy
      BY <1>6 DEF Busy, Recent
    <2> QED BY <2>1
  <1> QED BY <1>3, <1>4, <1>5, <1>6, QueryKeeps
        DEF Next, Decide, Reject, PollQuery, SendNew, PollFails, Reconnect, Refuse, RefreshToken,
            vars, row

\* A query answers all the rows of a window.
LEMMA QueryAnswersAll ==
  ASSUME Covered, Burst, NEW R, R \subseteq Busy, NEW stamp, NEW S \in Latest(stamp, R)
  PROVE  S = R
  <1>1. IsFiniteSet(Busy)
    BY FS_Subset DEF Covered, RoomForBursts, Busy, Recent
  <1>2. IsFiniteSet(R) /\ Cardinality(R) <= Cardinality(Busy)
    BY <1>1, FS_Subset
  <1>3. S \subseteq R /\ (S = R \/ Cardinality(S) = Limit)
    BY DEF Latest
  <1>4. Cardinality(S) <= Cardinality(R) /\ (Cardinality(R) = Cardinality(S) => S = R)
    BY <1>2, <1>3, FS_Subset
  <1>5. /\ Cardinality(R) \in Nat /\ Cardinality(S) \in Nat /\ Cardinality(Busy) \in Nat
        /\ MaxBusy \in Nat /\ Limit \in Nat /\ MaxBusy <= Limit
    BY <1>1, <1>2, <1>3, FS_Subset, FS_CardinalityType
       DEF Covered, StreamAssumption, RoomForBursts
  <1> QED BY <1>2, <1>3, <1>4, <1>5 DEF Burst

-----------------------------------------------------------------------------
(* Time.                                                                   *)

\* What the failures left may cost goes down with every one of them.
LEMMA SlackFacts ==
  ASSUME Covered
  PROVE  /\ Setback \in Nat /\ Setback = Period + RetryDelay /\ Slack(0) \in Nat
         /\ \A f \in 0 .. MaxFails : Slack(f) \in Nat
         /\ \A f \in 0 .. MaxFails : f < MaxFails => Slack(f) = Slack(f + 1) + Setback
         /\ Window >= MaxLag + Period + Slack(0)
  <1> USE DEF Covered, StreamAssumption, WideWindow
  <1>1. Setback \in Nat /\ Setback = Period + RetryDelay
    BY DEF Setback
  <1>2. \A m, k \in Nat : m * k \in Nat
    OBVIOUS
  <1>3. ASSUME NEW f \in 0 .. MaxFails PROVE Slack(f) \in Nat
    <2>1. MaxFails - f \in Nat
      OBVIOUS
    <2> QED BY <1>1, <1>2, <2>1 DEF Slack
  <1>4. ASSUME NEW f \in 0 .. MaxFails, f < MaxFails PROVE Slack(f) = Slack(f + 1) + Setback
    <2>1. \A m \in Int, k \in Nat : m * k = (m - 1) * k + k
      OBVIOUS
    <2>2. MaxFails - f \in Int /\ (MaxFails - f) - 1 = MaxFails - (f + 1)
      OBVIOUS
    <2> QED BY <1>1, <2>1, <2>2 DEF Slack
  <1>5. Window >= MaxLag + Period + Slack(0)
    BY <1>1 DEF Slack
  <1>6. 0 \in 0 .. MaxFails
    OBVIOUS
  <1> QED BY <1>1, <1>3, <1>4, <1>5, <1>6

\* What every step does with the ticker: it is late by no more than the
\* failures left, and the next good poll is put off only by one that shows
\* everything due and by a new EventSource.
LEMMA DeadlineStep ==
  ASSUME Covered, TypeOK, PollingIsDue, Timing, [Next]_vars
  PROVE  /\ Timing'
         /\ open' /\ ~SendNew /\ ~RefreshToken =>
              open /\ opened' = opened /\ Deadline' <= Deadline
         /\ SendNew => /\ open /\ nextPoll = now /\ opened' = opened /\ now' = now
                          /\ Deadline' = now + Period + Slack(0)
         /\ RefreshToken => opened' = now /\ Deadline' = now + Period + Slack(0)
  <1> DEFINE Concl == /\ Timing'
                      /\ open' /\ ~SendNew /\ ~RefreshToken =>
                           open /\ opened' = opened /\ Deadline' <= Deadline
                      /\ SendNew => /\ open /\ nextPoll = now /\ opened' = opened /\ now' = now
                                       /\ Deadline' = now + Period + Slack(0)
                      /\ RefreshToken => opened' = now /\ Deadline' = now + Period + Slack(0)
  <1>1. /\ now \in Nat /\ nextPoll \in Nat /\ fails \in 0 .. MaxFails /\ MaxFails \in Nat
        /\ Period \in Nat /\ RetryDelay \in Nat /\ open \in BOOLEAN
    BY DEF TypeOK, Covered, StreamAssumption
  <1>2. /\ Setback = Period + RetryDelay /\ Slack(0) \in Nat /\ Slack(fails) \in Nat
        /\ fails < MaxFails => Slack(fails) = Slack(fails + 1) + Setback /\ Slack(fails + 1) \in Nat
    BY <1>1, SlackFacts
  <1>3. CASE SendNew
    <2>1. nextPoll' = nextPoll + Period /\ fails' = 0 /\ UNCHANGED <<now, open, opened>>
          /\ point # "wait"
      BY <1>3 DEF SendNew, EndPoll, page
    <2>2. nextPoll = now /\ open
      BY <1>1, <2>1 DEF PollingIsDue, Timing
    <2>3. Deadline' = now + Period + Slack(0)
      BY <2>1, <2>2 DEF Deadline
    <2>4. ~RefreshToken
      BY <2>2 DEF RefreshToken
    <2> QED BY <1>1, <1>2, <1>3, <2>1, <2>2, <2>3, <2>4 DEF Timing
  <1>4. CASE RefreshToken
    <2>1. /\ nextPoll' = now + Period /\ fails' = 0 /\ opened' = now /\ now' = now /\ ~open
      BY <1>4 DEF RefreshToken, NewConnection
    <2>2. Deadline' = now + Period + Slack(0)
      BY <2>1 DEF Deadline
    <2>3. ~SendNew
      BY <2>1 DEF SendNew, PollingIsDue
    <2> QED BY <1>1, <1>2, <1>4, <2>1, <2>2, <2>3 DEF Timing
  <1>5. ASSUME ~SendNew, ~RefreshToken,
               open' => /\ open /\ opened' = opened /\ Deadline' <= Deadline
                        /\ now' <= nextPoll' /\ now' >= now,
               now' \in Nat, nextPoll' \in Nat, Deadline' \in Nat
        PROVE  Concl
    <2>1. Deadline \in Nat
      BY <1>1, <1>2 DEF Deadline
    <2> QED BY <1>1, <1>2, <1>5, <2>1 DEF Timing
  <1>6. CASE ~SendNew /\ ~RefreshToken /\ PollFails
    <2>1. /\ nextPoll' = nextPoll + Period /\ fails' = fails + 1 /\ fails < MaxFails
          /\ UNCHANGED <<now, open, opened>> /\ open /\ nextPoll <= now
      BY <1>6, <1>1 DEF PollFails, EndPoll, page
    <2>2. Deadline' = nextPoll + Period + Slack(fails + 1)
      BY <2>1 DEF Deadline
    <2> QED BY <1>1, <1>2, <1>5, <1>6, <2>1, <2>2 DEF Timing, Deadline
  <1>7. CASE ~SendNew /\ ~RefreshToken /\ Reconnect
    <2>1. /\ nextPoll' = now + RetryDelay + Period /\ fails' = fails + 1 /\ fails < MaxFails
          /\ UNCHANGED <<now, open, opened>> /\ open
      BY <1>7 DEF Reconnect, NewConnection
    <2>2. Deadline' = now + RetryDelay + Period + Slack(fails + 1)
      BY <2>1 DEF Deadline
    <2> QED BY <1>1, <1>2, <1>5, <1>7, <2>1, <2>2 DEF Timing, Deadline
  <1>8. CASE ~SendNew /\ ~RefreshToken /\ Refuse
    <2>1. open' = FALSE /\ nextPoll' = now + Period /\ fails' = fails /\ now' = now
      BY <1>8 DEF Refuse, NewConnection
    <2>2. Deadline' = now + Period + Slack(fails)
      BY <2>1 DEF Deadline
    <2> QED BY <1>1, <1>2, <1>5, <1>8, <2>1, <2>2
  <1>9. CASE ~SendNew /\ ~RefreshToken /\ Tick
    <2>1. /\ now' = now + 1 /\ (open => now < nextPoll)
          /\ UNCHANGED <<nextPoll, fails, open, opened>>
      BY <1>9 DEF Tick, stream, page
    <2>2. Deadline' = Deadline /\ Deadline \in Nat
      BY <1>1, <1>2, <2>1 DEF Deadline
    <2> QED BY <1>1, <1>2, <1>5, <1>9, <2>1, <2>2
  <1>10. CASE ~SendNew /\ ~RefreshToken /\ UNCHANGED <<now, nextPoll, fails, open, opened>>
    <2>1. Deadline' = Deadline /\ Deadline \in Nat
      BY <1>1, <1>2, <1>10 DEF Deadline
    <2> QED BY <1>1, <1>2, <1>5, <1>10, <2>1 DEF Timing
  <1> QED BY <1>3, <1>4, <1>6, <1>7, <1>8, <1>9, <1>10, QueryKeeps
        DEF Next, BeginWrite, Land, Decide, Reject, PollQuery, vars, stream, page

-----------------------------------------------------------------------------
(* What a connection sends.                                                *)

\* A query answers every row in its window.
LEMMA QueryCases ==
  ASSUME Covered, TypeOK, Burst, PollQuery
  PROVE  \/ /\ point = "wait" /\ point' = "completions" /\ asOf' = asOf
            /\ seen' = [x \in Rows |-> IF x \in Executions \cap Recent(stamped)
                                       THEN status[x] ELSE "none"]
         \/ /\ point = "completions" /\ point' = "reviews" /\ seen' = Merge(JustSettled)
            /\ asOf' = [x \in Rows |-> IF x \in Executions THEN status[x] ELSE "none"]
         \/ /\ point = "reviews" /\ point' = "attestations" /\ asOf' = asOf
            /\ seen' = Merge(PendingItems)
         \/ /\ point = "attestations" /\ point' = "send" /\ asOf' = asOf
            /\ seen' = Merge(NewAttestations)
  <1>1. /\ Executions \cap Recent(stamped) \subseteq Busy /\ JustSettled \subseteq Busy
        /\ PendingItems \subseteq Busy /\ NewAttestations \subseteq Busy
    BY DEF JustSettled, PendingItems, NewAttestations, Busy
  <1>2. CASE PollStarted
    BY <1>1, <1>2, QueryAnswersAll DEF PollStarted
  <1>3. CASE PollCompleted
    BY <1>1, <1>3, QueryAnswersAll DEF PollCompleted, Query
  <1>4. CASE PollReviews
    BY <1>1, <1>4, QueryAnswersAll DEF PollReviews, Query
  <1>5. CASE PollAttestations
    BY <1>1, <1>5, QueryAnswersAll DEF PollAttestations, Query
  <1> QED BY <1>2, <1>3, <1>4, <1>5 DEF PollQuery

\* Every query adds to the answers, or replaces them, with what is there now.
LEMMA AnswersAfterQuery ==
  ASSUME Covered, TypeOK, StampsTell, Burst, Answers, PollQuery
  PROVE  Answers'
  <1> USE DEF Answers, Covered, StreamAssumption, TypeOK
  <1>0. /\ UNCHANGED <<now, status, stamped, completed, writing>> /\ point' # "wait"
        /\ Recent(stamped)' = Recent(stamped) /\ Recent(completed)' = Recent(completed)
        /\ JustSettled' = JustSettled
    BY QueryKeeps DEF row, Recent, JustSettled
  <1>1. /\ Executions \subseteq Rows /\ Reviews \subseteq Rows /\ Attestations \subseteq Rows
        /\ JustSettled \subseteq Executions
        /\ \A x \in Rows : status[x] # "none"
        /\ \A x \in Executions \cap Recent(stamped) : status[x] \in Started
        /\ \A x \in JustSettled : status[x] \in Started
    BY DEF Rows, Statuses, JustSettled, Recent, StampsTell, Started
  <1>2. CASE /\ point = "wait" /\ point' = "completions"
             /\ seen' = [x \in Rows |-> IF x \in Executions \cap Recent(stamped)
                                        THEN status[x] ELSE "none"]
    <2>1. \A x \in Executions :
            seen'[x] = IF x \in Recent(stamped) THEN status[x] ELSE "none"
      BY <1>1, <1>2
    <2>2. AnsweredIsStarted' /\ FirstAnswer'
      BY <1>0, <1>1, <1>2, <2>1 DEF AnsweredIsStarted, FirstAnswer
    <2>3. OneMoment' /\ MissedIsLate'
      BY <1>0, <1>1, <1>2, <2>1
         DEF OneMoment, MissedIsLate, PastCompletions, PastReviews, PastAttestations
    <2> QED BY <2>2, <2>3
  <1>3. CASE /\ point = "completions" /\ point' = "reviews" /\ seen' = Merge(JustSettled)
             /\ asOf' = [x \in Rows |-> IF x \in Executions THEN status[x] ELSE "none"]
    <2>1. \A x \in Rows : seen'[x] = IF x \in JustSettled THEN status[x] ELSE seen[x]
      BY <1>3 DEF Merge
    <2>2. AnsweredIsStarted' /\ FirstAnswer'
      BY <1>0, <1>1, <1>3, <2>1 DEF AnsweredIsStarted, FirstAnswer
    <2>3. OneMoment'
      <3>1. \A x \in Executions : asOf'[x] = status[x]
        BY <1>1, <1>3
      <3> QED BY <1>1, <1>3, <2>1, <3>1 DEF OneMoment, FirstAnswer
    <2>4. MissedIsLate'
      <3>1. \A x \in Executions \cap Recent(completed) : seen'[x] # "none"
        BY <1>1, <2>1 DEF JustSettled
      <3>2. \A x \in Executions : seen'[x] = "none" => seen[x] = "none"
        BY <1>1, <2>1
      <3> QED BY <1>0, <1>3, <3>1, <3>2
              DEF MissedIsLate, PastCompletions, PastReviews, PastAttestations
    <2> QED BY <2>2, <2>3, <2>4
  <1>4. ASSUME NEW R, R \cap Executions = {}, seen' = Merge(R), asOf' = asOf,
               point \in PastCompletions, point' \in PastReviews
        PROVE  /\ AnsweredIsStarted' /\ FirstAnswer' /\ OneMoment'
               /\ \A x \in Executions : seen'[x] = seen[x]
               /\ \A x \in Rows : x \in R => seen'[x] # "none"
               /\ \A x \in Rows : seen'[x] = "none" => seen[x] = "none"
    <2>1. \A x \in Rows : seen'[x] = IF x \in R THEN status[x] ELSE seen[x]
      BY <1>4 DEF Merge
    <2>2. \A x \in Executions : seen'[x] = seen[x]
      BY <1>1, <1>4, <2>1
    <2>3. AnsweredIsStarted' /\ FirstAnswer' /\ OneMoment'
      BY <1>0, <1>4, <2>2
         DEF AnsweredIsStarted, FirstAnswer, OneMoment, PastCompletions, PastReviews
    <2> QED BY <1>1, <2>1, <2>2, <2>3
  <1>5. CASE point = "reviews" /\ point' = "attestations" /\ seen' = Merge(PendingItems)
             /\ asOf' = asOf
    <2>1. PendingItems \cap Executions = {}
      BY DEF PendingItems
    <2>2. /\ AnsweredIsStarted' /\ FirstAnswer' /\ OneMoment'
          /\ \A x \in Executions : seen'[x] = seen[x]
          /\ \A x \in Rows : x \in PendingItems => seen'[x] # "none"
          /\ \A x \in Rows : seen'[x] = "none" => seen[x] = "none"
      BY <1>4, <1>5, <2>1 DEF PastCompletions, PastReviews
    <2>3. \A x \in Reviews \cap Recent(stamped) : status[x] # "decided" => x \in PendingItems
      BY DEF PendingItems, Recent, StampsTell
    <2>4. MissedIsLate'
      BY <1>0, <1>1, <1>5, <2>2, <2>3
         DEF MissedIsLate, PastCompletions, PastReviews, PastAttestations
    <2> QED BY <2>2, <2>4
  <1>6. CASE point = "attestations" /\ point' = "send" /\ seen' = Merge(NewAttestations)
             /\ asOf' = asOf
    <2>1. NewAttestations \cap Executions = {}
      BY DEF NewAttestations
    <2>2. /\ AnsweredIsStarted' /\ FirstAnswer' /\ OneMoment'
          /\ \A x \in Executions : seen'[x] = seen[x]
          /\ \A x \in Rows : x \in NewAttestations => seen'[x] # "none"
          /\ \A x \in Rows : seen'[x] = "none" => seen[x] = "none"
      BY <1>4, <1>6, <2>1 DEF PastCompletions, PastReviews
    <2>3. MissedIsLate'
      BY <1>0, <1>1, <1>6, <2>2
         DEF MissedIsLate, PastCompletions, PastReviews, PastAttestations, NewAttestations
    <2> QED BY <2>2, <2>3
  <1> QED BY <1>2, <1>3, <1>5, <1>6, QueryCases

\* The answers stay good until they are sent, whatever is written meanwhile.
LEMMA AnswersAfterWrite ==
  ASSUME Covered, TypeOK, StampsTell, Answers, NEW x \in Rows, Land(x) \/ Decide(x) \/ Reject(x)
  PROVE  Answers'
  <1> USE DEF Answers, Covered, StreamAssumption, TypeOK
  <1>0. /\ UNCHANGED <<now, point, seen, asOf>>
        /\ Executions \subseteq Rows /\ Reviews \subseteq Rows /\ Attestations \subseteq Rows
    BY DEF Land, Decide, Reject, stream, Rows
  <1>1. /\ \A y \in Rows \ {x} : /\ status'[y] = status[y] /\ stamped'[y] = stamped[y]
                                /\ completed'[y] = completed[y]
        /\ stamped'[x] = stamped[x] \/ (stamped'[x] = writing[x] /\ status[x] \notin Started)
        /\ completed'[x] = completed[x]
           \/ (completed'[x] = writing[x] /\ stamped'[x] = stamped[x])
        /\ status'[x] # status[x] /\ status[x] \in Started =>
             /\ status'[x] \in Verdict
             /\ completed'[x] # completed[x] \/ status[x] \in Verdict
        /\ status[x] = "decided" => status'[x] = "decided" \/ stamped'[x] # stamped[x]
        /\ completed'[x] # completed[x] \/ stamped'[x] # stamped[x] => writing[x] # 0
    <2>1. CASE Land(x)
      BY <2>1, LandCases DEF Verdict, Started, StampsTell
    <2>2. CASE Decide(x) \/ Reject(x)
      BY <2>2 DEF Decide, Reject, Verdict, Started
    <2> QED BY <2>1, <2>2
  <1>2. writing[x] # 0 => now <= writing[x] + MaxLag /\ now <= writing[x] + Window
    BY SlackFacts DEF StampsTell
  <1>3. AnsweredIsStarted'
    BY <1>0, <1>1 DEF AnsweredIsStarted, Started
  <1>4. FirstAnswer'
    <2> SUFFICES ASSUME point = "completions", NEW y \in Executions, seen[y] # "none"
          PROVE  y \in Recent(stamped)' /\ (seen[y] = status'[y] \/ y \in JustSettled')
      BY <1>0 DEF FirstAnswer
    <2>1. /\ y \in Recent(stamped) /\ status[y] \in Started /\ y \in Rows
          /\ seen[y] = status[y] \/ y \in JustSettled
      BY <1>0 DEF FirstAnswer, AnsweredIsStarted
    <2>2. y \in Recent(stamped)'
      BY <1>0, <1>1, <2>1 DEF Recent
    <2>3. y \in JustSettled => y \in JustSettled'
      <3>1. CASE completed'[y] = completed[y]
        BY <1>0, <3>1 DEF JustSettled, Recent
      <3>2. CASE completed'[y] # completed[y]
        BY <1>0, <1>1, <1>2, <2>1, <3>2 DEF JustSettled, Recent
      <3> QED BY <3>1, <3>2
    <2>4. CASE status'[y] = status[y]
      BY <2>1, <2>2, <2>3, <2>4
    <2>5. CASE status'[y] # status[y]
      <3>1. y = x
        BY <1>1, <2>1, <2>5
      <3>2. CASE completed'[y] # completed[y]
        BY <1>0, <1>1, <1>2, <2>1, <2>2, <3>1, <3>2 DEF JustSettled, Recent
      <3>3. CASE completed'[y] = completed[y] /\ status[y] \in Verdict
        <4>1. completed[y] # 0 /\ stamped[y] <= completed[y] /\ stamped[y] + Window >= now
          BY <2>1, <3>3 DEF StampsTell, Recent
        <4>2. y \in JustSettled'
          BY <1>0, <2>1, <3>3, <4>1 DEF JustSettled, Recent
        <4> QED BY <2>2, <4>2
      <3> QED BY <1>1, <2>1, <2>5, <3>1, <3>2, <3>3
    <2> QED BY <2>4, <2>5
  <1>5. OneMoment'
    BY <1>0 DEF OneMoment
  <1>6. ASSUME NEW y \in Rows
        PROVE  /\ y \in Recent(stamped)' =>
                    \/ y \in Recent(stamped) /\ stamped'[y] = stamped[y]
                    \/ now <= stamped'[y] + MaxLag
               /\ y \in Recent(completed)' =>
                    \/ y \in Recent(completed) /\ completed'[y] = completed[y]
                    \/ now <= completed'[y] + MaxLag
    BY <1>0, <1>1, <1>2 DEF Recent
  <1>7. \A y \in Rows : status'[y] # "decided" => status[y] # "decided" \/ stamped'[y] # stamped[y]
    BY <1>1
  <1>8. MissedIsLate'
    BY <1>0, <1>6, <1>7 DEF MissedIsLate
  <1> QED BY <1>3, <1>4, <1>5, <1>8

\* Every step keeps the answers good.
LEMMA AnswersStep ==
  ASSUME Covered, TypeOK, StampsTell, Burst, Answers, [Next]_vars
  PROVE  Answers'
  <1>1. CASE PollQuery
    BY <1>1, AnswersAfterQuery
  <1>2. ASSUME NEW x \in Rows, Land(x) \/ Decide(x) \/ Reject(x) PROVE Answers'
    BY <1>2, AnswersAfterWrite
  <1>3. CASE point' = "wait" /\ seen' = Nothing
    <2>1. \A x \in Rows \cup Executions : seen'[x] = "none"
      BY <1>3 DEF Nothing, Rows
    <2> QED BY <1>3, <2>1
            DEF Answers, AnsweredIsStarted, FirstAnswer, OneMoment, MissedIsLate,
                PastCompletions, PastReviews, PastAttestations
  <1>4. CASE UNCHANGED <<now, status, stamped, completed, point, seen, asOf>>
    <2>1. /\ Recent(stamped)' = Recent(stamped) /\ Recent(completed)' = Recent(completed)
          /\ JustSettled' = JustSettled
      BY <1>4 DEF Recent, JustSettled
    <2> QED BY <1>4, <2>1 DEF Answers, AnsweredIsStarted, FirstAnswer, OneMoment, MissedIsLate
  <1>5. CASE Tick
    BY <1>5 DEF Tick, row, stream, Answers, AnsweredIsStarted, FirstAnswer, OneMoment,
                MissedIsLate, PastCompletions, PastReviews, PastAttestations
  <1>6. ASSUME NEW x \in Rows, BeginWrite(x) PROVE Answers'
    BY <1>4, <1>6 DEF BeginWrite, stream
  <1> QED BY <1>1, <1>2, <1>3, <1>4, <1>5, <1>6
        DEF Next, PollQuery, SendNew, PollFails, EndPoll, Reconnect, Refuse, RefreshToken,
            NewConnection, vars, row, stream

\* What is sent is shown.
LEMMA SentIsShownStep ==
  ASSUME TypeOK, Answers, SentIsShown, [Next]_vars
  PROVE  SentIsShown'
  <1>1. CASE UNCHANGED <<sent, shown>>
    BY <1>1 DEF SentIsShown
  <1>2. CASE sent' = {}
    BY <1>2 DEF SentIsShown
  <1>3. CASE SendNew
    <2>1. /\ sent' = sent \cup Unsent
          /\ \A x \in Rows : shown'[x] = shown[x] \cup IF x \in Unsent THEN {seen[x]} ELSE {}
      BY <1>3 DEF SendNew
    <2>2. \A x \in sent : x \in Rows /\ shown[x] \subseteq shown'[x]
      BY <2>1 DEF TypeOK
    <2>3. \A x \in Unsent : x \in Rows /\ seen[x] \in shown'[x]
      BY <2>1 DEF Unsent
    <2>4. \A x \in Unsent \cap Executions : seen[x] \in Started
      BY DEF Unsent, Answers, AnsweredIsStarted
    <2> QED BY <2>1, <2>2, <2>3, <2>4 DEF SentIsShown
  <1> QED BY <1>1, <1>2, <1>3, QueryKeeps
        DEF Next, BeginWrite, Land, Decide, Reject, PollQuery, PollFails, Reconnect, Refuse,
            RefreshToken, NewConnection, Tick, vars, stream

-----------------------------------------------------------------------------
(* What is due.                                                            *)

\* After a good poll, a row stamped since the page was opened is shown, or its
\* write has only just landed.
LEMMA DueAfterPoll ==
  ASSUME Covered, StreamInv, SendNew, NEW x \in Rows, stamped[x] >= opened
  PROVE  status[x] = "decided" \/ shown'[x] # {} \/ now <= stamped[x] + MaxLag
  <1> SUFFICES ASSUME status[x] # "decided", shown'[x] = {}, ~(now <= stamped[x] + MaxLag)
               PROVE  FALSE
    OBVIOUS
  <1> USE DEF StreamInv
  <1>1. shown'[x] = shown[x] \cup IF x \in Unsent THEN {seen[x]} ELSE {}
    BY DEF SendNew
  <1>2. shown[x] = {} /\ x \notin sent /\ seen[x] = "none"
    <2>1. shown[x] = {} /\ x \notin Unsent
      BY <1>1
    <2>2. x \notin sent
      BY <2>1 DEF SentIsShown
    <2> QED BY <2>1, <2>2 DEF Unsent
  <1>3. point = "send" /\ open /\ nextPoll = now
    BY DeadlineStep DEF SendNew, vars, Next
  <1>4. stamped[x] # 0 /\ x \in Recent(stamped)
    <2>1. stamped[x] \in Nat /\ opened \in Nat /\ opened >= 1 /\ now \in Nat /\ nextPoll \in Nat
          /\ Window \in Nat
      BY DEF TypeOK, Covered, StreamAssumption
    <2>2. Deadline <= stamped[x] + Window
      BY <1>2, <1>3 DEF StartIsDue
    <2>3. Deadline >= now
      BY <1>3, <2>1, SlackFacts DEF Deadline, TypeOK
    <2>4. Deadline \in Nat
      BY <2>1, SlackFacts DEF Deadline, TypeOK
    <2> QED BY <2>1, <2>2, <2>3, <2>4 DEF Recent
  <1>5. now <= stamped[x] + MaxLag
    BY <1>2, <1>3, <1>4
       DEF Rows, Answers, MissedIsLate, PastReviews, PastAttestations
  <1> QED BY <1>5

\* A row that is not shown yet stays in the window until the next good poll.
LEMMA StartIsDueStep ==
  ASSUME Covered, StreamInv, [Next]_vars
  PROVE  StartIsDue'
  <1> USE DEF StreamInv
  <1>1. TypeOK' /\ Timing'
    BY StreamTypeStep, DeadlineStep DEF Covered
  <1> SUFFICES ASSUME NEW x \in Rows,
                      open' /\ stamped'[x] >= opened' /\ status'[x] # "decided" /\ shown'[x] = {}
               PROVE  Deadline' <= stamped'[x] + Window
    BY DEF StartIsDue
  <1>2. /\ now \in Nat /\ stamped'[x] \in Nat /\ stamped[x] \in Nat /\ opened \in Nat
        /\ Window \in Nat /\ MaxLag \in Nat /\ Period \in Nat /\ Slack(0) \in Nat
        /\ Window >= MaxLag + Period + Slack(0)
    BY <1>1, SlackFacts DEF TypeOK, Covered, StreamAssumption
  <1>3. Deadline \in Nat /\ Deadline' \in Nat
    BY <1>1, SlackFacts DEF TypeOK, Deadline, Covered, StreamAssumption
  <1>4. CASE SendNew
    <2>1. UNCHANGED <<stamped, status, opened>>
      BY <1>4 DEF SendNew, row, page
    <2>2. now <= stamped[x] + MaxLag
      BY <1>4, <2>1, DueAfterPoll
    <2>3. Deadline' = now + Period + Slack(0)
      BY <1>4, DeadlineStep
    <2> QED BY <1>2, <2>1, <2>2, <2>3
  <1>5. CASE RefreshToken
    <2>1. opened' = now /\ Deadline' = now + Period + Slack(0)
      BY <1>5, DeadlineStep
    <2> QED BY <1>2, <2>1
  <1>6. CASE ~SendNew /\ ~RefreshToken
    <2>1. open /\ opened' = opened /\ Deadline' <= Deadline
      BY <1>6, DeadlineStep
    <2>2. shown' = shown
      BY <1>6, QueryKeeps DEF Next, BeginWrite, Land, Decide, Reject, PollQuery, PollFails,
                              Reconnect, Refuse, Tick, vars, stream
    <2>3. CASE stamped'[x] = stamped[x] /\ status[x] # "decided"
      <3>1. Deadline <= stamped[x] + Window
        BY <2>1, <2>2, <2>3 DEF StartIsDue
      <3> QED BY <1>2, <1>3, <2>1, <2>3, <3>1
    <2>4. CASE stamped'[x] # stamped[x] \/ status[x] = "decided"
      <3>1. Land(x)
        <4>1. PICK y \in Rows : Land(y) \/ Decide(y) \/ Reject(y)
          BY <1>6, <2>4, QueryKeeps DEF Next, BeginWrite, PollQuery, PollFails, Reconnect, Refuse,
                                        Tick, vars, row
        <4>2. CASE Land(y)
          BY <2>4, <4>2, LandCases DEF TypeOK, Covered
        <4>3. CASE Decide(y) \/ Reject(y)
          BY <2>4, <4>3 DEF TypeOK, Decide, Reject
        <4> QED BY <4>1, <4>2, <4>3
      <3>2. writing[x] # 0 /\ now <= writing[x] + MaxLag /\ writing[x] \in Nat
        BY <3>1, LandCases DEF StampsTell, Covered, TypeOK
      <3>3. stamped'[x] = writing[x]
        BY <2>4, <3>1, <3>2, LandCases DEF StampsTell, Covered, TypeOK
      <3>4. Deadline <= now + Period + Slack(0)
        BY <2>1 DEF Timing
      <3> QED BY <1>2, <1>3, <2>1, <3>2, <3>3, <3>4
    <2> QED BY <2>3, <2>4
  <1> QED BY <1>4, <1>5, <1>6

\* An execution that is not shown yet stays in the settled ones' window too.
LEMMA SettledIsDueStep ==
  ASSUME Covered, StreamInv, [Next]_vars
  PROVE  SettledIsDue'
  <1> USE DEF StreamInv
  <1>1. TypeOK' /\ Timing'
    BY StreamTypeStep, DeadlineStep DEF Covered
  <1> SUFFICES ASSUME NEW x \in Executions,
                      open' /\ completed'[x] >= opened' /\ shown'[x] \cap Started = {}
               PROVE  Deadline' <= completed'[x] + Window
    BY DEF SettledIsDue
  <1>2. /\ now \in Nat /\ completed'[x] \in Nat /\ completed[x] \in Nat /\ opened \in Nat
        /\ Window \in Nat /\ MaxLag \in Nat /\ Period \in Nat /\ Slack(0) \in Nat
        /\ Window >= MaxLag + Period + Slack(0) /\ x \in Rows /\ opened >= 1
    BY <1>1, SlackFacts DEF TypeOK, Covered, StreamAssumption, Rows
  <1>3. Deadline \in Nat /\ Deadline' \in Nat
    BY <1>1, SlackFacts DEF TypeOK, Deadline, Covered, StreamAssumption
  <1>4. CASE SendNew
    <2>1. UNCHANGED <<completed, status, opened, now>> /\ open /\ nextPoll = now
      BY <1>4, DeadlineStep DEF SendNew, row, page
    <2>2. shown'[x] = shown[x] \cup IF x \in Unsent THEN {seen[x]} ELSE {}
      BY <1>2, <1>4 DEF SendNew
    <2>3. shown[x] \cap Started = {} /\ x \notin sent
      BY <2>2 DEF SentIsShown
    <2>4. seen[x] = "none"
      BY <1>2, <2>2, <2>3 DEF Unsent, Answers, AnsweredIsStarted
    <2>5. Deadline <= completed[x] + Window /\ Deadline >= now
      <3>1. Deadline <= completed[x] + Window
        BY <2>1, <2>3 DEF SettledIsDue
      <3> QED BY <1>2, <2>1, <3>1, SlackFacts DEF Deadline, TypeOK
    <2>6. completed[x] # 0 /\ x \in Recent(completed)
      BY <1>2, <1>3, <2>1, <2>5 DEF Recent
    <2>7. now <= completed[x] + MaxLag
      BY <1>4, <2>4, <2>6 DEF SendNew, Answers, MissedIsLate, PastCompletions
    <2>8. Deadline' = now + Period + Slack(0)
      BY <1>4, DeadlineStep
    <2> QED BY <1>2, <2>1, <2>7, <2>8
  <1>5. CASE RefreshToken
    <2>1. opened' = now /\ Deadline' = now + Period + Slack(0)
      BY <1>5, DeadlineStep
    <2> QED BY <1>2, <2>1
  <1>6. CASE ~SendNew /\ ~RefreshToken
    <2>1. open /\ opened' = opened /\ Deadline' <= Deadline
      BY <1>6, DeadlineStep
    <2>2. shown' = shown
      BY <1>6, QueryKeeps DEF Next, BeginWrite, Land, Decide, Reject, PollQuery, PollFails,
                              Reconnect, Refuse, Tick, vars, stream
    <2>3. CASE completed'[x] = completed[x]
      <3>1. Deadline <= completed[x] + Window
        BY <2>1, <2>2, <2>3 DEF SettledIsDue
      <3> QED BY <1>2, <1>3, <2>1, <2>3, <3>1
    <2>4. CASE completed'[x] # completed[x]
      <3>1. Land(x)
        <4>1. PICK y \in Rows : Land(y)
          BY <1>6, <2>4, QueryKeeps DEF Next, BeginWrite, Decide, Reject, PollQuery, PollFails,
                                        Reconnect, Refuse, Tick, vars, row
        <4> QED BY <1>2, <2>4, <4>1, LandCases DEF TypeOK, Covered
      <3>2. writing[x] # 0 /\ now <= writing[x] + MaxLag /\ writing[x] \in Nat
        BY <1>2, <3>1, LandCases DEF StampsTell, Covered, TypeOK
      <3>3. completed'[x] = writing[x]
        BY <1>2, <2>4, <3>1, <3>2, LandCases DEF Covered, TypeOK
      <3>4. Deadline <= now + Period + Slack(0)
        BY <2>1 DEF Timing
      <3> QED BY <1>2, <1>3, <2>1, <3>2, <3>3, <3>4
    <2> QED BY <2>3, <2>4
  <1> QED BY <1>4, <1>5, <1>6

-----------------------------------------------------------------------------
(* The theorems.                                                           *)

LEMMA StreamTypeInit == ASSUME StreamAssumption, Init PROVE TypeOK /\ PollingIsDue
  <1> USE DEF StreamAssumption
  <1>1. status \in [Rows -> Statuses]
    BY DEF Init, Statuses
  <1>2. {stamped, completed, writing} \subseteq [Rows -> 0 .. Horizon]
    BY DEF Init, Never
  <1>3. point \in Points /\ {seen, asOf} \subseteq [Rows -> Statuses \cup {"none"}]
    BY DEF Init, Nothing, Points
  <1>4. sent \subseteq Rows /\ shown \in [Rows -> SUBSET Statuses]
    BY DEF Init
  <1>5. /\ now = 1 /\ nextPoll = 1 + Period /\ fails = 0 /\ breaks = 0
        /\ open = TRUE /\ opened = 1 /\ point = "wait"
    BY DEF Init
  <1>6. /\ now \in 1 .. Horizon /\ nextPoll \in 1 .. Horizon + RetryDelay + Period
        /\ fails \in 0 .. MaxFails /\ opened \in 1 .. Horizon /\ breaks \in 0 .. MaxBreaks
    <2>1. /\ Horizon \in Nat /\ Horizon >= 1 /\ Period \in Nat /\ RetryDelay \in Nat
          /\ MaxFails \in Nat /\ MaxBreaks \in Nat
      OBVIOUS
    <2> QED BY <1>5, <2>1
  <1>7. open \in BOOLEAN
    BY <1>5
  <1>8. TypeOK
    BY <1>1, <1>2, <1>3, <1>4, <1>6, <1>7 DEF TypeOK
  <1> QED BY <1>5, <1>8 DEF PollingIsDue

LEMMA StreamInit == Covered /\ Init => StreamInv
  <1> SUFFICES ASSUME Covered, Init PROVE StreamInv
    OBVIOUS
  <1> USE DEF Init, Never, Nothing, Covered, StreamAssumption
  <1>1. now = 1 /\ nextPoll = 1 + Period /\ fails = 0
    OBVIOUS
  <1>3. TypeOK
    BY StreamTypeInit
  <1>4. /\ \A x \in Executions : status[x] \in {"running", "queued"}
        /\ \A x \in Reviews \cup Attestations : status[x] = "absent"
    BY DEF Rows
  <1>5. StampsTell
    BY <1>4 DEF StampsTell, Started, Verdict, Rows
  <1>6. Burst
    <2>1. Busy = {}
      BY DEF Busy, Recent
    <2> QED BY <2>1, FS_EmptySet DEF Burst
  <1>7. PollingIsDue /\ SentIsShown /\ Answers
    BY DEF PollingIsDue, SentIsShown, Answers, AnsweredIsStarted, FirstAnswer, OneMoment,
           MissedIsLate, PastCompletions, PastReviews, PastAttestations, Rows
  <1>8. Slack(0) \in Nat /\ Deadline = 1 + Period + Slack(0)
    BY SlackFacts DEF Deadline
  <1>9. Timing
    BY <1>8 DEF Timing
  <1>10. StartIsDue /\ SettledIsDue
    BY DEF StartIsDue, SettledIsDue, Rows
  <1> QED BY <1>3, <1>5, <1>6, <1>7, <1>9, <1>10 DEF StreamInv

LEMMA StreamNext == Covered /\ StreamInv /\ [Next]_vars => StreamInv'
  <1> SUFFICES ASSUME Covered, StreamInv, [Next]_vars PROVE StreamInv'
    OBVIOUS
  <1>1. TypeOK' /\ PollingIsDue'
    BY StreamTypeStep DEF StreamInv, Covered
  <1>2. StampsTell' /\ Burst'
    BY StampsStep, BurstStep DEF StreamInv, Covered
  <1>3. SentIsShown' /\ Answers'
    BY SentIsShownStep, AnswersStep DEF StreamInv
  <1>4. Timing'
    BY DeadlineStep DEF StreamInv
  <1>5. StartIsDue' /\ SettledIsDue'
    BY StartIsDueStep, SettledIsDueStep
  <1> QED BY <1>1, <1>2, <1>3, <1>4, <1>5 DEF StreamInv

\* The types of the stream's state, for any constants the code allows: the
\* ticker of a connection is never further ahead than a delay and an interval
\* (events_stream.go:180-214), whatever the window and the limit.
THEOREM StreamTypes == ASSUME StreamAssumption PROVE Spec => []TypeOK
  <1>1. Init => TypeOK /\ PollingIsDue
    BY StreamTypeInit
  <1>2. (TypeOK /\ PollingIsDue) /\ [Next]_vars => (TypeOK /\ PollingIsDue)'
    BY StreamTypeStep
  <1> QED BY <1>1, <1>2, PTL DEF Spec

\* Whatever is not shown yet stays in the window until the next good poll, a
\* window's rows fit in one answer, what the poll's first query answered stays
\* true or is answered again by the second, and what a query has not answered
\* has only just been written (events_stream.go:269-363).
THEOREM StreamInvariance == ASSUME Covered PROVE Spec => []StreamInv
  <1>1. Init => StreamInv
    BY StreamInit
  <1>2. StreamInv /\ [Next]_vars => StreamInv'
    BY StreamNext
  <1> QED BY <1>1, <1>2, PTL DEF Spec

\* A row that starts, is signed or asks for a review while the page is open is
\* shown before its stamp leaves the window, for any window as wide as the
\* writes may be late and the polls missed (events_stream.go:129-170).
THEOREM StartsAreShown == ASSUME Covered PROVE Spec => []StartIsShown
  <1>1. StreamInv => StartIsShown
    <2> SUFFICES ASSUME StreamInv, NEW x \in Rows, open, stamped[x] >= opened,
                        now > stamped[x] + Window, status[x] # "decided", shown[x] = {}
                 PROVE  FALSE
      BY DEF StartIsShown
    <2>1. /\ now \in Nat /\ stamped[x] \in Nat /\ Window \in Nat /\ nextPoll \in Nat
          /\ Slack(fails) \in Nat
      BY SlackFacts DEF StreamInv, TypeOK, Covered, StreamAssumption
    <2>2. nextPoll + Slack(fails) <= stamped[x] + Window /\ now <= nextPoll
      BY DEF StreamInv, StartIsDue, Timing, Deadline
    <2> QED BY <2>1, <2>2
  <1>2. Spec => []StreamInv
    BY StreamInvariance
  <1> QED BY <1>1, <1>2, PTL

\* An execution's verdict is shown before it leaves the window, or the
\* execution had been shown as running (events_stream.go:303-318).
THEOREM VerdictsAreShown == ASSUME Covered PROVE Spec => []SettledIsShown
  <1>1. StreamInv => SettledIsShown
    <2> SUFFICES ASSUME StreamInv, NEW x \in Executions, open, completed[x] >= opened,
                        now > completed[x] + Window, shown[x] \cap Started = {}
                 PROVE  FALSE
      BY DEF SettledIsShown, Started, Verdict
    <2>1. /\ now \in Nat /\ completed[x] \in Nat /\ Window \in Nat /\ nextPoll \in Nat
          /\ Slack(fails) \in Nat
      BY SlackFacts DEF StreamInv, TypeOK, Covered, StreamAssumption, Rows
    <2>2. nextPoll + Slack(fails) <= completed[x] + Window /\ now <= nextPoll
      BY DEF StreamInv, SettledIsDue, Timing, Deadline
    <2> QED BY <2>1, <2>2
  <1>2. Spec => []StreamInv
    BY StreamInvariance
  <1> QED BY <1>1, <1>2, PTL

\* The executions that a poll sends are sent as they all were when its second
\* query was answered, although two queries found them and rows were written
\* between the five steps: one that changed after the first query is in the
\* second one's answer, which replaces it (events_stream.go:279-318, 347-363).
THEOREM PollIsOneMoment == ASSUME Covered PROVE Spec => SendsOneMoment
  <1> DEFINE Shows == \A x \in Executions :
                        x \in sent' \ sent => shown'[x] = shown[x] \cup {asOf[x]}
  <1>1. StreamInv /\ [Next]_vars => [Shows]_vars
    <2> SUFFICES ASSUME StreamInv, [Next]_vars PROVE Shows
      OBVIOUS
    <2>1. CASE SendNew
      <3>1. /\ sent' = sent \cup Unsent
            /\ \A x \in Unsent : x \in Rows /\ seen[x] # "none"
                                 /\ shown'[x] = shown[x] \cup {seen[x]}
        BY <2>1 DEF SendNew, Unsent
      <3>2. \A x \in Executions : seen[x] # "none" => seen[x] = asOf[x]
        BY <2>1 DEF SendNew, StreamInv, Answers, OneMoment, PastCompletions
      <3> QED BY <3>1, <3>2
    <2>2. CASE sent' \subseteq sent
      BY <2>2
    <2> QED BY <2>1, <2>2, QueryKeeps
          DEF Next, BeginWrite, Land, Decide, Reject, PollQuery, PollFails, Reconnect, Refuse,
              RefreshToken, NewConnection, Tick, vars, stream
  <1>2. Spec => []StreamInv
    BY StreamInvariance
  <1> QED BY <1>1, <1>2, PTL DEF SendsOneMoment, Spec
=============================================================================
