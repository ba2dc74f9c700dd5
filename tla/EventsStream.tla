----------------------------- MODULE EventsStream -----------------------------
(***************************************************************************)
(* The dashboard's event stream of one organisation.  A connection polls   *)
(* three tables on a ticker: executions whose started_at, and then those   *)
(* whose completed_at, lies in the recent window, pending review items by  *)
(* created_at and attestations by signed_at; it sends what it has not sent *)
(* before.  The four queries and the sending are steps of their own, and   *)
(* rows are written between them.                                          *)
(*                                                                         *)
(* Time is counted in seconds, and a poll begins and ends within one.  A   *)
(* timestamp is taken before the write that carries it, so a row becomes   *)
(* visible some time after it.                                             *)
(***************************************************************************)
EXTENDS Naturals, FiniteSets

CONSTANTS
  Executions, Reviews, Attestations,   \* ids of the three tables
  Period,         \* ssePollInterval: 3 s
  Window,         \* sseRecentWindowSeconds: 10 s
  Limit,          \* rows per query: 100
  MaxLag,         \* assumed: seconds from a timestamp to its visibility, clock skew included
  RetryDelay,     \* seconds before the browser opens a broken connection again
  MaxFails,       \* assumed: failed polls and broken connections in a row
  MaxBreaks,      \* bound: broken connections, and those answered 401
  MaxBusy,        \* bound: rows that are written
  Horizon         \* bound: the clock

Rows == Executions \cup Reviews \cup Attestations

\* What the code grants of the constants.
StreamAssumption ==
  /\ {Period, Window, Limit, Horizon} \subseteq Nat \ {0}
  /\ {MaxLag, RetryDelay, MaxFails, MaxBreaks, MaxBusy} \subseteq Nat
  /\ Executions \cap (Reviews \cup Attestations) = {} /\ Reviews \cap Attestations = {}

\* The window covers a late write, the polls that may be missed and the one
\* that is made; a query answers all the rows of one window.
WideWindow    == Window >= MaxLag + Period + MaxFails * (Period + RetryDelay)
RoomForBursts == IsFiniteSet(Rows) /\ MaxBusy <= Limit

VARIABLES
  now,         \* the clock; 0 is "no timestamp"
  status,      \* the status of every row
  stamped,     \* started_at, created_at or signed_at (0: none, or long ago)
  completed,   \* executions.completed_at
  writing,     \* the timestamp of a row's write under way (0: none)
  nextPoll,    \* when the ticker fires
  point,       \* what the connection does next: wait, a later query or the sending
  seen,        \* what this poll's queries have answered so far
  asOf,        \* history: the executions when the poll's second query was answered
  sent,        \* sentExecutions, sentQueueItems and sentAttestations of this connection
  shown,       \* history: the statuses each row was shown with
  fails,       \* failed polls and broken connections since the last good poll
  open,        \* the browser's EventSource has not given up
  opened,      \* when the page last made an EventSource
  breaks       \* connections that broke or were refused

row    == <<status, stamped, completed, writing>>
page   == <<open, opened, breaks>>
stream == <<nextPoll, point, seen, asOf, sent, shown, fails>>
vars   == <<now, row, stream, page>>

Statuses == {"absent", "queued", "running", "completed", "failed", "rejected",
             "pending", "decided", "signed"}
Points   == {"wait", "completions", "reviews", "attestations", "send"}

TypeOK ==
  /\ now \in 1 .. Horizon
  /\ status \in [Rows -> Statuses]
  /\ {stamped, completed, writing} \subseteq [Rows -> 0 .. Horizon]
  /\ nextPoll \in 1 .. Horizon + RetryDelay + Period
  /\ point \in Points /\ {seen, asOf} \subseteq [Rows -> Statuses \cup {"none"}]
  /\ sent \subseteq Rows /\ shown \in [Rows -> SUBSET Statuses]
  /\ fails \in 0 .. MaxFails
  /\ open \in BOOLEAN /\ opened \in 1 .. Horizon /\ breaks \in 0 .. MaxBreaks

Nothing == [x \in Rows |-> "none"]
Never   == [x \in Rows |-> 0]

Init ==
  /\ now = 1
  /\ \E early \in SUBSET Executions :
       status = [x \in Rows |-> IF x \in early THEN "running"
                                ELSE IF x \in Executions THEN "queued" ELSE "absent"]
  /\ stamped = Never /\ completed = Never /\ writing = Never
  /\ nextPoll = 1 + Period
  /\ point = "wait" /\ seen = Nothing /\ asOf = Nothing
  /\ sent = {} /\ shown = [x \in Rows |-> {}]
  /\ fails = 0
  /\ open = TRUE /\ opened = 1 /\ breaks = 0

-----------------------------------------------------------------------------
(* The writers.                                                            *)

\* Mutant of Recent: the window is as long as the poll interval.
RecentPeriod(stamp) == {x \in Rows : stamp[x] # 0 /\ stamp[x] + Period >= now}

Recent(stamp) == {x \in Rows : stamp[x] # 0 /\ stamp[x] + Window >= now}

Busy == {x \in Rows : writing[x] # 0} \cup Recent(stamped) \cup Recent(completed)

\* ClaimExecution, FinalizeExecution and SignAndAttest take the time, then
\* send the write; a review item is stamped by its insert.
BeginWrite(x) ==
  /\ Cardinality(Busy \cup {x}) <= MaxBusy
  /\ writing[x] = 0 /\ status[x] \in {"absent", "queued", "running"}
  /\ writing' = [writing EXCEPT ![x] = now]
  /\ UNCHANGED <<now, status, stamped, completed, stream, page>>

Stamp(x, new) ==
  /\ status' = [status EXCEPT ![x] = new]
  /\ stamped' = [stamped EXCEPT ![x] = writing[x]]
  /\ UNCHANGED completed

Settle(x, new) ==
  /\ status' = [status EXCEPT ![x] = new]
  /\ completed' = [completed EXCEPT ![x] = writing[x]]
  /\ UNCHANGED stamped

Land(x) ==
  /\ writing[x] # 0
  /\ \/ status[x] = "queued" /\ Stamp(x, "running")
     \/ status[x] = "running" /\ \E v \in {"completed", "failed"} : Settle(x, v)
     \/ x \in Reviews /\ Stamp(x, "pending")
     \/ x \in Attestations /\ Stamp(x, "signed")
  /\ writing' = [writing EXCEPT ![x] = 0]
  /\ UNCHANGED <<now, stream, page>>

\* updateReviewQueueDecision: the item leaves the stream's query.
Decide(x) ==
  /\ status[x] = "pending"
  /\ status' = [status EXCEPT ![x] = "decided"]
  /\ UNCHANGED <<now, stamped, completed, writing, stream, page>>

\* updateExecutionStatus: a reviewer rejects a settled execution, whose
\* completed_at stays what it is.
Reject(x) ==
  /\ status[x] \in {"completed", "failed"}
  /\ status' = [status EXCEPT ![x] = "rejected"]
  /\ UNCHANGED <<now, stamped, completed, writing, stream, page>>

-----------------------------------------------------------------------------
(* One connection.                                                         *)

\* The Limit latest rows of R: ORDER BY stamp DESC LIMIT Limit.
Latest(stamp, R) ==
  {S \in SUBSET R :
     /\ Cardinality(S) <= Limit
     /\ S = R \/ Cardinality(S) = Limit
     /\ \A x \in S, y \in R \ S : stamp[x] >= stamp[y]}

\* Mutant of JustSettled: the second query filters by started_at as well.
JustStarted == Executions \cap Recent(stamped)

\* The rows that the other queries of a poll may answer.
JustSettled     == Executions \cap Recent(completed)
PendingItems    == {x \in Reviews \cap Recent(stamped) : status[x] = "pending"}
NewAttestations == Attestations \cap Recent(stamped)

\* The ticker fires; the first query: executions by started_at.
PollStarted ==
  /\ open /\ now >= nextPoll /\ point = "wait"
  /\ \E S \in Latest(stamped, Executions \cap Recent(stamped)) :
       seen' = [x \in Rows |-> IF x \in S THEN status[x] ELSE "none"]
  /\ point' = "completions"
  /\ UNCHANGED <<now, row, nextPoll, asOf, sent, shown, fails, page>>

\* Mutant of Merge: the rows answered before win.
MergeFirst(S) == [x \in Rows |-> IF seen[x] # "none" THEN seen[x]
                                 ELSE IF x \in S THEN status[x] ELSE "none"]

\* mergeExecutionRows: what is answered now replaces what was before.
Merge(S) == [x \in Rows |-> IF x \in S THEN status[x] ELSE seen[x]]

\* A later query answers the Limit latest rows of R.
Query(at, stamp, R, next) ==
  /\ point = at
  /\ \E S \in Latest(stamp, R) : seen' = Merge(S)
  /\ point' = next
  /\ UNCHANGED <<now, row, nextPoll, sent, shown, fails, page>>

PollCompleted ==
  /\ Query("completions", completed, JustSettled, "reviews")
  /\ asOf' = [x \in Rows |-> IF x \in Executions THEN status[x] ELSE "none"]
PollReviews ==
  Query("reviews", stamped, PendingItems, "attestations") /\ UNCHANGED asOf
PollAttestations ==
  Query("attestations", stamped, NewAttestations, "send") /\ UNCHANGED asOf

EndPoll ==
  /\ nextPoll' = nextPoll + Period
  /\ point' = "wait" /\ seen' = Nothing /\ asOf' = Nothing

\* Mutant of Unsent: rows that no query returned are sent too.
UnsentOrUnknown == Rows \ sent

\* A row whose id was sent on this connection is skipped, whatever its status
\* has become.
Unsent == {x \in Rows : seen[x] # "none"} \ sent

\* The rows go out as they were answered, whatever has become of them since.
SendNew ==
  /\ point = "send"
  /\ sent' = sent \cup Unsent
  /\ shown' = [x \in Rows |-> shown[x] \cup IF x \in Unsent THEN {seen[x]} ELSE {}]
  /\ fails' = 0
  /\ EndPoll
  /\ UNCHANGED <<now, row, page>>

\* One of the queries fails: the whole poll shows nothing, but for an error
\* that the page ignores.
PollFails ==
  /\ open /\ now >= nextPoll /\ point # "send" /\ fails < MaxFails
  /\ fails' = fails + 1
  /\ EndPoll
  /\ UNCHANGED <<now, row, sent, shown, page>>

\* handleStream: a connection has a ticker and sent sets of its own.
NewConnection(time) ==
  /\ sent' = {} /\ point' = "wait" /\ seen' = Nothing /\ asOf' = Nothing
  /\ nextPoll' = time + Period

\* The browser's EventSource replaces a broken connection.
Reconnect ==
  /\ open /\ breaks < MaxBreaks /\ fails < MaxFails
  /\ breaks' = breaks + 1 /\ fails' = fails + 1
  /\ NewConnection(now + RetryDelay)
  /\ UNCHANGED <<now, row, shown, open, opened>>

\* The new connection is answered 401, because the token has expired or the
\* organisation could not be looked up: an EventSource then gives up.
Refuse ==
  /\ open /\ breaks < MaxBreaks
  /\ breaks' = breaks + 1
  /\ open' = FALSE
  /\ NewConnection(now)
  /\ UNCHANGED <<now, row, shown, fails, opened>>

\* The session's token is refreshed: the page's stream URL changes with it,
\* and the effect makes a new EventSource.  (With a live one this is a
\* Reconnect without its delay.)
RefreshToken ==
  /\ ~open
  /\ open' = TRUE /\ opened' = now
  /\ NewConnection(now)
  /\ fails' = 0
  /\ UNCHANGED <<now, row, shown, breaks>>

\* Writes land within MaxLag, polls are made when the ticker fires.
Tick ==
  /\ now < Horizon /\ (open => now < nextPoll) /\ point = "wait"
  /\ \A x \in Rows : writing[x] # 0 => now < writing[x] + MaxLag
  /\ now' = now + 1
  /\ UNCHANGED <<row, stream, page>>

Next ==
  \/ \E x \in Rows : BeginWrite(x) \/ Land(x) \/ Decide(x) \/ Reject(x)
  \/ PollStarted \/ PollCompleted \/ PollReviews \/ PollAttestations \/ SendNew
  \/ PollFails
  \/ Reconnect \/ Refuse \/ RefreshToken
  \/ Tick

Spec == Init /\ [][Next]_vars

-----------------------------------------------------------------------------
(* Properties.                                                             *)

\* Whatever starts, is signed, or asks for a review and still does, while the
\* dashboard's EventSource is alive, is shown by the time its stamp has left
\* the window, across a failed poll or a broken connection and late writes:
\* the window is wide enough for the polls missed (events_stream.go:129-170).
StartIsShown ==
  \A x \in Rows :
    /\ open /\ stamped[x] >= opened /\ now > stamped[x] + Window
    /\ status[x] # "decided"
    => shown[x] # {}

\* An execution that settles is shown as settled by the time it has left the
\* window, unless it had been sent before as running: a page opened, or a
\* connection made, while it ran learns its verdict (events_stream.go:303-318,
\* 140-148).
SettledIsShown ==
  \A x \in Executions :
    open /\ completed[x] >= opened /\ now > completed[x] + Window =>
      shown[x] \cap {"completed", "failed", "rejected"} # {} \/ "running" \in shown[x]

\* The executions of one poll are sent as they all were at one moment, that of
\* its second query, although they come from two queries, rows are written
\* before, between and after them, and the next two are still made before
\* anything is sent: no row that the first query answered is older than what
\* the second one saw of the others (events_stream.go:279-318, 347-363).
SendsOneMoment ==
  [][\A x \in Executions : x \in sent' \ sent => shown'[x] = shown[x] \cup {asOf[x]}]_vars

\* DashboardPage.tsx:75 "Execution status changed" and :204 "Realtime
\* execution, review, and attestation updates": an execution's verdict is
\* shown by the time it has left the window.
VerdictIsShown ==
  \A x \in Executions :
    open /\ completed[x] >= opened /\ now > completed[x] + Window =>
      shown[x] \cap {"completed", "failed", "rejected"} # {}
=============================================================================
