# ReconcileOS: verification project

TLA+ models of the concurrent core of ReconcileOS, checked with TLC, with
proofs checked by TLAPS about the executor, the dispatcher, sign-in and
webhooks, the review queue and its page, the evidence store, the event stream,
the key set's cache, the execution trigger and `recos login`. `PROJECT.json` maps every definition to the lines of the
repository it stands for, lists the runs, the mutants that show each property
can fail, the findings and the hazards. Paths below are relative to the
repository's `src/`.

## 1. The system

ReconcileOS runs bots on repositories. Everything durable is in one Postgres
database behind Supabase's REST gateway; no component uses a transaction, and
every request to the database is one HTTP call. So the processes interact
through the rows, one request at a time, and may fail between any two of them.

| Part | State it keeps | Operations | What is hard | What makes it correct |
|---|---|---|---|---|
| runtime: executor (`runtime/executor/runner.go`, `main.go`, `internal/store/store.go`) | `executions`, an advisory lock; in memory: rows listed, row at hand, wait group, kill table | take the lock, list, claim (update, then read), check, start the bot, finalize, release; SIGTERM, drain, exit | replicas, two-step claim, shutdown against a running batch, lost answers, crashes | a bot starts at most once per execution; every row taken up gets one verdict; a graceful exit leaves no bot behind |
| runtime: advisory lock (`infra/supabase/migrations/004…sql`) | lock of a database session | try, release | the session belongs to the gateway, not to the runtime | one replica in a batch |
| runtime: dispatcher (`runtime/queue/dispatcher.go`) | `events.processed`, `executions` | lock, list, match triggers, insert, mark | stops between insert and mark, swallowed errors, events that are always refused | what is lost or repeated is accounted for; every sound event is processed |
| API: webhook (`api/handlers/webhook.go`) | `events`, `github_installations` | verify, answer, then resolve and insert in a goroutine | answer before the work, cache of another system's state | an event belongs to an owner of its installation |
| API: login, tenancy, installation tokens (`api/handlers/auth.go`, `github_token.go`, `api/middleware/org_scope.go`) | `orgs`, `users` | sign in, issue a session, find or create the organisation, upsert the user; scope later requests; hand out an installation's token | concurrent first logins, failures after the session exists, installations that change hands | one organisation per account; tokens mean membership |
| API: key set cache (`api/middleware/auth.go`, and again in `events_stream.go`) | the signing keys, a read-write lock | look, lock, look again, fetch | first requests race, the key server is down | one key set is kept, errors are not, nobody waits for good |
| API: review queue, pull requests (`api/handlers/review_queue.go`, `api/services/pr_service.go`, `github.go`) | `review_queue`, `executions.status`; GitHub | list, approve, reject | check-then-act between reviewers, five external effects in a row | evidence before a pull request; "ok" tells the truth; one decision per item |
| API: attestations (`api/services/attestation.go`, `api/handlers/attestations.go`) | `attestations`; Rekor | sign and attest, list in pages, verify a hash | entry, insert and re-read without a transaction; pages over a growing table; fetches that fail | a page misses nothing; a verification is complete |
| API: event stream (`api/handlers/events_stream.go`), dashboard (`web/src/pages/DashboardPage.tsx`) | per connection: what was sent | poll three tables every 3 s over a 10 s window | late writes, failed polls, reconnects, two queries of one table | each start is shown; what one poll sends was so at one moment |
| API: trigger and status (`execution_service.go`), CLI `recos run` | `executions` | insert, find the id, poll, exit | rows of other clients, of earlier runs, of the dispatcher | the exit tells about an execution of one's own bot and repository |
| Web: queue page (`web/src/pages/QueuePage.tsx`) | the items shown, those at work | list, click, answer | lists that overlap with decisions, lost answers, tokens that come and go | no item hidden, none decided twice |
| CLI: `recos login` (`cli/src/auth.rs`) | a port, the keychain | open a window, wait for its call, exchange, store | one port and one entry for all runs; connections that say nothing | the stored session is one's own; a run that is called back ends |
| API: triage, health, wiring; CLI status, verify, output; other web pages; bots | none shared | – | – | not modelled, see section 8 |

Flow: a webhook inserts an event, the dispatcher turns it into queued
executions, the executor runs them, a row that asks for review is decided by
reviewers, an approval becomes an attestation and a pull request. The CLI
inserts executions directly and polls them; the dashboard polls everything.

## 2. Modules

| Module | Models | State and actions against the code |
|---|---|---|
| `AdvisoryLock` | the two stored procedures | `held[s]` is how deeply session `s` holds the lock; `TryLockOn`, `UnlockOn`, `CloseSession`. `SessionsFor` says which sessions the gateway may use for a runtime |
| `Executor` | the executor loop and `main` | `pc` is the point in `runBatch`/`executeOne`, `phase` the point in `main`'s shutdown; each request is an action: `TryLock`, `LockAnswer`, `ListQueued`, `Claim`, `VerifyClaim`, `StartBot`, `BotEnds`, `Finalize`, `Unlock`; `Sigterm`, `StartDrain`, `DrainTimeout`, `WaitGroupZero`, `Exit`, `Crash`, `Restart` |
| `ExecutionLifecycle` | what the platform promises about an execution | abstract specification |
| `ExecutorProperties` | what is checked and proved of `Executor` | `ImplementsLifecycle` is `ExecutionLifecycle!Spec` with `status` and `starts` as they are |
| `Dispatcher` | the dispatcher loop | `todo` is the rest of the listed events, `hand` the one being dispatched, `bots` the installations left for it, `made` counts inserted executions |
| `EventLifecycle` | what the platform promises about an event | abstract specification; `Dispatcher!ImplementsEventLifecycle` maps `arrived`, `processed` and `made` to it |
| `Tenancy` | OAuth callbacks, later requests of the user for an installation's token, webhook goroutines | one worker per request, `pc` its next call, `slug` and `org` its local variables; `tokens` remembers who was given whose token |
| `KeySet` | `getOrInitJWKS` | `readers`, `writers` and `waiting` are the read-write lock, `serving` the key server |
| `ReviewQueue` | approvals and rejections | one request per click, `pc` its next call; `logged` is Rekor, `prs` GitHub |
| `QueuePage` | a page in front of `ReviewQueue` (EXTENDS it) | `shown`, `busy`, `loading` and `failed` are the page's state hooks, `token` whether the session has a token that the page uses (`GetToken`, `LoseToken`; without one `AskInVain` empties the page); `Serve` lets the API take a step for a request the page sent; the requests in `Own` are the page's, `ServeOthers` is the API at work for somebody else's |
| `Attestations` | the evidence of an organisation | `Submit`, `TakeTime`, `InsertAttestation` of attempts; a `walk` through the pages; the `proof` that a verification puts together |
| `EventsStream` | one connection, and the timestamped writes to the three tables | a clock in seconds; `PollStarted`, `PollCompleted`, `PollReviews` and `PollAttestations` are the four queries of a poll and `SendNew` sends what they answered, `point` says which is next; refused connections and refreshed tokens. `WideWindow` and `RoomForBursts` name what its properties ask of the intervals and of the limit |
| `TriggerRun` | `recos run` with the API behind it | `own` is the row inserted, `watched` the id the client was told; `Dispatch` inserts the rows of others, and `mixed` remembers whose lookup met one |
| `CliLogin` | `recos login` | `backlog` is what has connected to the port, `got` what was brought, `keychain` whose session is stored |
| `MC…` | constants for TLC | |
| `…Proofs` | the proofs, section 6 | |

How they are composed. `AdvisoryLock` is part of `Executor` and of `Dispatcher`
by EXTENDS: the two loops use different lock keys and never meet in a lock,
only in rows. `QueuePage` extends `ReviewQueue`, whose actions it takes whole.
`MCServices` and `MCReviews` extend the models they run, so that what a run
checks is the definition that the theorems are about; only the executor, whose
names are the dispatcher's, is an instance there.
The other modules meet in `executions` and contain the few steps of the
neighbour they depend on (`Submit` and `Reject` in `Executor`, `Arrive` in
`Dispatcher`, `Dispatch`, `Claim`, `Finish` and `Reject` in `TriggerRun`, `BeginWrite` and
`Land` in `EventsStream`). `MCServices` and `MCReviews` put models that share
no state into one run: a variable `part`, chosen at the start, says which of
them is at work while the others stay. Since they share nothing, interleaving
them would show nothing more.

Failure is modelled in one way everywhere: a request may fail, or take effect
and lose its answer. Each such case spends a bounded budget (`mishaps` in the
runtime's modules; in the API's, the set `hurt` of requests it happened to).

Operators commented "Mutant of …" are not part of a model: they are plausible
bugs used to show that a property can be violated.

## 3. Runs

| Run | Question | Bounds |
|---|---|---|
| `exec_private` | With a session per replica: is each execution run at most once, is the life cycle implemented, does a graceful exit leave no bot behind? | 2 replicas, both may stop; 2 rows (one sound with an oversized result, one refused by the checks); 1 failed request, 1 restart |
| `exec_kill` (violation) | Is a bot given the drain period? | 2 rows, 1 replica may stop, nothing fails |
| `exec_success` (violation) | Is a success stored? | nothing fails |
| `exec_pipes` (violation) | Does an execution end when its bot's time is up? | one bot that leaves a child behind; nobody stops, nothing fails; fairness |
| `services` | The dispatcher: which executions are lost or repeated, and is every sound event processed? | 2 replicas with private sessions; 3 events, the first malformed; 3 bots, one unsound; batches of 2; 2 failed requests, 1 stop |
| | The executor on a shared pool: is work still taken up, does a claimed row get its verdict? | 2 replicas, both on 2 sessions that may close under a holder, one may stop; 1 row |
| | `recos run`: of which execution do two runs for one bot tell, is it true, and do they return? | 2 clients of one target, the dispatcher's rows of it and of another, 2 ids in any order, 1 failed call |
| | The evidence: do pages miss anything, is a verification complete? | 3 attempts for executions of 2 repositories with one hash, pages of one row, at most 2 ids in a filter and 2 entries of an index answer |
| | The key set: is it fetched once, does every request go on? | 3 first requests, 2 outages of the key server |
| `dispatch_norepo` (violation) | Does an event without a repository get its executions? | nothing fails |
| `tenancy` | Who ends up in which organisation, and whose installation's token do they get? | 2 logins of a new account, 2 deliveries of one installation, which may change hands once; 1 failed call, 1 crash |
| `review` | Decisions from anywhere: what do partial failures leave behind, is an approval carried out? | 2 approvals and 1 rejection of one item, 1 approval of an item between the two size limits; 2 failed calls, 1 crash |
| | A page: does it hide anything or decide twice? | an approval and a rejection of one item by the page, another reviewer's approval of it or of another item, 2 lists, 1 lost answer, 1 failed call, tokens that come and go. `PageBound`: when somebody else is at work, there is one list and nothing fails; a token is lost only while nobody else has begun and no call of a decision has failed |
| | `recos login`: whose session is stored, and does it end? | 2 runs, 1 connection that says nothing at first |
| `review_race` (violation) | Is an item decided once? | 1 approval, 1 rejection, nothing fails |
| `stream` | Is each start and each end shown, and are the executions of a poll sent as of one moment? | one row per table, two of the three written within a window and two rows to an answer; polls every second over a window of 4 s, writes visible within 1 s, one failed poll in a row, one broken connection (1 s to reopen), 6 s |
| `stream_once` (violation) | Is the verdict shown of an execution that was shown as running? | 1 row, no failures, 24 s |
| `trigger_again` (violation) | Is each exit about the run's own execution (`ExitReflectsOwnRun`)? | 2 clients of one target, 2 ids, nothing fails |

Why the bounds are enough. Every race the code can have is between two
requests of the same kind or two of different kinds, so two of each are there
wherever they meet, with one more for an item of a different nature. One
failure shows each error path and two a failure of each of two actors. A batch
of 2 with a malformed event at its head leaves one useful slot, the smallest in
which an event could be starved. Three requests are one at the fetch, one
behind it and one that comes with the cache filled. Three rows in pages of one
let a row land before, on and behind the page being read. The stream's seconds are
scaled down from the code's 3 and 10, keeping what matters: the window is
exactly as wide as a late write, the polls missed and the one made
(`WideWindow` with equality, as it is for 3 s, 10 s, writes 1 s late and 3 s to
reopen); with 3 s `StartIsShown` fails. In six seconds a start stamped just before
the first poll and visible just after it leaves the window. Two ids are two runs
that meet, or one that meets a row of the dispatcher's. How a reviewed execution
ended decides nothing in the review queue, so it varies for one of two. `MaxHold` bounds how deep
one session takes the lock; depth 2 is the first that a single release does not
undo. `MaxBusy` bounds the rows written within one window, not those of a run; `Limit`
is as large, so an answer may be full, but overflow of the code's 100 rows per query is not
looked at.

Deadlock is not checked: every one of these systems may stop (all executions
settled, all requests answered, the clock at its end).

## 4. What the runs show

Executor. When each replica reaches the database through sessions of its own
that are not closed inside a batch (`PrivateSessions`, `~DropInUse`), batches
exclude each other and a bot starts at most once, although the claim itself
does not tell who claimed. This is the deployment with one replica, or a
gateway or direct connection per replica. It is NOT what a PostgREST pool
shared by several replicas gives, where the lock may be taken twice on one session.
There a row is still run only after it left the queue, "completed" still means
that a bot ran (both proved for any deployment, section 6), and work is still
taken up (`services`).

Shutdown. `ExitNeverAbandonsABot` holds because a cancelled context starts
nothing: main may leave between two executions of a batch, and the one that
follows never gets a process. But the same cancellation kills the bot that is
running at once (`exec_kill`). And the kill at the time limit does not end the
execution of a bot with a child that keeps its output open (`exec_pipes`).

Dispatcher. Executions are lost only one per failed request, and repeated only
once per failed request or stop. It implements `EventLifecycle`: executions are
created only for bots that an event is for, and never after it is processed.
Every event the webhook inserts lacks a repository, and then nothing is created
(`dispatch_norepo`).

Tenancy. The merge on the organisation's slug makes concurrent first logins
agree; every error path after the session was issued withholds it. A delivery
found mapped is recorded, but possibly for an account that no longer owns
the installation: `EventsFollowOwnership` says "owns or has owned" because
the cache is never refreshed. So do the tokens made for it
(`TokenFollowsOwnership`).

Key set. The second look under the write lock keeps racing first requests from
fetching twice, an outage refuses only those whose own fetch met it, and
whoever waits for the lock gets it.

Review. A pull request always has evidence of one and the same approval, and
what a failure leaves is never more than the step it failed at. Two reviewers
may both decide (`review_race`); if both approve, the second pull request is
refused by GitHub, and one exists. A rejection may follow an approval whose
pull request is open. One page does not produce that race: the API's check
stops what its lists bring back, unless an answer was lost while the API went
on, or somebody else is at work on the same item (`PageDecidesOnce`). However its requests overlap, the page hides no item
that is pending in the list it shows, and while it has a token it is not empty and silent
before it has been answered (`NothingHidden`). Without one it is:
`QueuePage.tsx:101-105` clears the items, ends the loading and sets no error, so
the page says that the network is clean with no list behind it. A token of
unexpected length has the same effect as none.

Evidence. An insert moves rows to later pages only, so a client that pages to
the end misses none that was there when it began. That is under timestamps of
their own for all rows. A verification that succeeds shows every entry there
was, up to the index's limit, or it fails.

Stream. The 10 s window is just wide enough for one missed poll together with
a reconnect delay of 3 s and writes 1 s late (proved for any intervals that satisfy
`WideWindow`). Rows are written between the queries of a poll and before it is sent, so
what arrives need not be what the tables hold by then; but the executions of one
poll are sent as they all were at one moment (`SendsOneMoment`), because what the first query answered
and has changed since is answered again by the second. What is not shown is the verdict
of an execution already shown as running on the connection (`stream_once`).

CLI. The exit of `recos run` is about an execution of its organisation, bot and
repository, its own unless another one was there when the id was looked up
(`ExitReflectsItsTarget`). Another one may well be: two runs of one bot on
one repository mix up (`trigger_again`), and a row of an earlier run or of
the dispatcher does the same to one run, for the order puts a row that has started before a
queued one. Logins cannot get
each other's session, although their windows call at one port. A login that was
called back ends, but one that nothing connects to waits beyond its 120 seconds
(`auth.rs:94` looks at the clock between two connections only).

Findings (`PROJECT.json`, "findings"): seven places where the code does
something else than its runbook, README or its own answer says, one for each
run marked as a violation.

## 5. Fairness, and other assumptions

- `Executor!Fairness`: a live loop and a live `main` keep going; a bot that
  leaves no child behind ends by its time limit; the gateway closes idle sessions
  eventually. The code gives the first two by its tickers and timers. `Lingering`
  is the set of executions whose bot leaves a child with its output open: for
  them `command.Run` (`runner.go:192`) need not return, and nothing is assumed.
  The third is what a connection pool with an idle or lifetime limit does.
  Nothing is assumed of crashes, signals, restarts, reviewers or the arrival of work. `ClaimedGetsVerdict` is
  about runtimes that are never stopped: a row claimed by one that dies stays
  running for good.
- `Dispatcher!Fairness`: the same for its loop. Stops are bounded.
- `Tenancy!FairSpec`, `ReviewQueue!FairSpec`: a request or goroutine that was
  accepted is worked on. Nobody is obliged to sign in, deliver or decide, hence no
  fairness on `SignIn`, `Receive` and `Fetch`.
- `FairKeySpec`: strong fairness of each request's steps. Go's `RWMutex` lets a waiting writer
  before later readers and lets those readers in after it, so nobody who waits
  is passed over for good; a fetch ends by its ten-second limit.
- `FairRunSpec`: a client keeps polling; nothing of the runtime.
- `FairLoginSpec`: the command goes on where neither `accept` nor `read`
  blocks it. Nobody is obliged to finish in the browser, and time need not pass.
- `EventsStream` and `QueuePage` have no fairness and no liveness property. The
  clock of `EventsStream` does not pass a due poll or a late
  write, which is the assumption `MaxLag` and `MaxFails` name. `MaxBusy <= Limit` is the
  other one: a window's rows fit in one answer.
- `MCServices` and `MCReviews` restate the fairness of each model for the time it is
  at work.
- `ContextLoads = TRUE` in the review runs. `loadExecutionContextMaps`
  (`review_queue.go:492`) filters bots by `org_id`, which the migrations in the
  repository do not create; on that schema every approval is refused at this
  step, every list fails, and nothing after it happens. The runs assume a schema with the column.
- `BranchPushed`: an open pull request needs the review branch on GitHub.
  Nothing in the repository pushes it; the runs assume that something does.
- `NullsFirst = FALSE`: what the client library sends with an order
  (`nullslast`).
- A poll of the stream begins and ends within one second of its clock, whose ticks are
  therefore between polls; writes come between its queries all the same. A connection
  that breaks while a poll is being sent has sent nothing of it.
- `MCReviews` has a page with a token in its other two parts, where there is no page.
- Timestamps of attestations differ. With equal ones the order inside a page is
  the database's, and two rows may change places between two pages.
- Rekor, GoTrue and GitHub are outside; a submission or a sign-in may succeed
  or fail. Rekor's index answers with whatever entries it has, up to the limit.
- The `tenancy` run has no refused or ignored deliveries: they change nothing.
- A request of a reviewer that is waiting when the API goes down is counted as
  hurt, as is one whose call failed.

## 6. Proofs

Every theorem holds for all sets of runtimes, rows, requests and so on and for
all bounds; `Spec` is each module's own (`KeySpec`, `LoginSpec`, `EvidenceSpec`,
`RunSpec`). The fairness that a run adds plays no part in them. All rest on the named assumptions on the constants that the modules
state (`ExecutorAssumption`, `DispatcherAssumption`, ...); "assumes" lists what
comes on top.

| Module | Theorem | Statement (`Spec =>`) | Assumes |
|---|---|---|---|
| `ExecutorProofs` | `TypeCorrect` | `[]TypeOK` | |
| | `Invariance` | `[]ExecutorInv` | `PrivateSessions`, `~DropInUse` |
| | `AtMostOneStart` | `[]StartedAtMostOnce` | the same |
| | `Refinement` | `ImplementsLifecycle` | the same |
| | `AnyDeployment` | `[]AnyDeploymentInv` | |
| | `NoVerdictWithoutRun` | `[]CompletedWasStarted` | |
| | `OnlyClaimedRowsRun` | `[]RunsOnlyClaimedRows` | |
| | `OnlyOthersTakeTheLock` | `LockIsLostToOthers` | |
| | `GracefulExit` | `ExitNeverAbandonsABot` | |
| | `OnlyFailuresStrand` | `StrandedByFailure` | |
| `DispatcherProofs` | `DispatcherTypes` | `[]TypeOK` | |
| | `LossInvariance` | `[]LossInv` | |
| | `LossesAreCounted` | `[]LossesAreMishaps` | |
| | `DispatchInvariance` | `[]DispatchInv` | `PrivateSessions` |
| | `DuplicatesAreCounted` | `[]DuplicatesAreInterruptions` | the same |
| | `DispatchRefinement` | `ImplementsEventLifecycle` | the same |
| `TenancyProofs` | `TenancyInvariance`, `TenancyTypes` | `[]TenancyInv`, `[]TypeOK` | |
| | `OneOrganisation` | `[]OneOrgPerAccount` | |
| | `Membership` | `[]TokenMeansMember` | |
| | `EventOwnership` | `[]EventsFollowOwnership` | |
| | `TokenOwnership` | `[]TokenFollowsOwnership` | |
| | `DeliveriesEndRightly` | `[]DeliveriesInv` | |
| `ReviewQueueProofs` | `ReviewInvariance`, `ReviewTypes` | `[]ReviewInv`, `[]TypeOK` | |
| | `EvidenceFirst` | `[]PullRequestIsAttested` | |
| | `Leftovers` | `[]LeftoversAreFailures` | |
| | `OkIsTrue` | `[]OkMeansDone` | |
| | `ApprovalsReachTheirEnd` | `[](EveryEndIsEarned /\ NoneFallsShort)` | |
| | `PageInvariance` | `[]PageInv` (of `PageSpec`) | `Own \subseteq Requests` |
| | `PageUsesTheApi` | `Spec` (of `PageSpec`) | the same |
| | `PageShowsWhatIsPending` | `[]NothingHidden` (of `PageSpec`) | the same |
| | `OnePageDecidesOnce` | `PageDecidesOnce` (of `PageSpec`) | the same |
| `AuthenticationProofs` | `LoginInvariance` | `[]LoginInv` | `MaxStrays \in Nat` |
| | `OwnSession` | `[]SessionIsOwn` | the same |
| | `KeySetInvariance` | `[]KeySetInv` | |
| | `OneKeySet` | `[]FetchedAtMostOnce` | |
| | `ErrorsAreNotKept` | `[]RefusedOnOwnFailure` | |
| `AttestationsProofs` | `EvidenceInvariance` | `[]EvidenceInv` | |
| | `CompleteVerification` | `[]VerifiedIsComplete` | |
| | `CompletePages` | `[]PagesMissNothing` | `IsFiniteSet(Executions)` |
| `EventsStreamProofs` | `StreamTypes` | `[]TypeOK` | |
| | `StreamInvariance` | `[]StreamInv` | `WideWindow`, `RoomForBursts` |
| | `StartsAreShown` | `[]StartIsShown` | the same |
| | `VerdictsAreShown` | `[]SettledIsShown` | the same |
| | `PollIsOneMoment` | `SendsOneMoment` | the same |
| `TriggerRunProofs` | `TriggerTypes` | `[]RunTypeOK` | `Targets # {}` |
| | `ExitIsOfTheTarget` | `[]ExitReflectsItsTarget` | the same |

Why the invariants are what they are.

Executor, private sessions. `StartedAtMostOnce` is not inductive: `VerifyClaim` accepts any running row, so
a step from a state in which another runtime has the row would break it. The
invariant therefore says what keeps others away. `OneSessionHolds`: Postgres
grants the lock to one session. `HolderHasLock`: a runtime inside its batch has
it on one of its sessions. With private sessions these give `BatchIsExclusive`
(lemma `Exclusion`, for which the assumption does the work, so it is not
listed as a result of its own). `ListedAreQueued` and `CurrentIsRunning` say what the
holder knows: its listed rows are still queued, its row at hand is running and
has been started exactly when the code is past the start. `QueuedNotStarted`
links the two. The proof has one lemma for the lock half (`LockStep`), in which
most actions are seen not to touch it (`LoopLockFree`, `MainLockFree`), and one
for the rows (`RowStep`), which uses that a runtime outside its batch has
nothing listed and nothing at hand (`HolderAlone`). Refinement follows from the
invariant: every step is one of the abstract steps or leaves `status` and `starts`
alone; that a verdict hits a row still running is `CurrentIsRunning`, and that a
reviewer's rejection, which the code writes whatever the status is, hits a settled one is
`ReviewedIsSettled`.

Executor, any deployment. The last six assume nothing of sessions, so they cover
runtimes that share the gateway's sessions and lose them in the middle of a batch, where
`StartedAtMostOnce` fails. `OnlyOthersTakeTheLock` says how it comes to that: a
runtime enters its batch with the lock, and loses it inside only to a release
by another runtime on a session they share, or to the gateway closing the session
(`LossStep`, action by action; no crash, restart or lost answer does it).
`AnyDeploymentInv` says of each runtime: the rows it listed exist, the row it
has in hand has left the queue, and a success in hand has a start behind it.
Others may move that row, but rows only advance (lemma on every action), and
`starts` never decreases. `GracefulExit` rests on `DrainedHasNoBot`: the wait
group was zero when the phase was entered, and the loop may by then be at the
next row, but its context is cancelled, and only an `up` runtime starts a bot
(`StartsWhenUp`). `OnlyFailuresStrand` is what safety can say of rows that get no
verdict: a running row leaves a runtime's hand with its verdict (`LoopHands`), or
because a call failed, the process ended or the result was refused for its size.
`HandsInv` adds that a loop between two rows has none in hand, so that taking the
next one lets nothing go, and that only oversized results do not fit.

Dispatcher. The loss bound needs no lock. An execution is lost as soon as a loop has
passed its bot over, which is before the event is marked; `LossInv` counts those
(`Lost`), and `LossStep` shows that a step adds one only with a failed request of
its own. That an event is passed over in one batch only is `HandIsListed`. The
bound on repetitions does need the lock. It is not inductive because a stop is
spent only when the batch it interrupts is over: `Counted` charges a stop that
is still in its last batch (`Spent`) in advance, and says that an event whose bot is still
ahead has one execution less. `ListedAreUnprocessed`, true because a batch is
alone (`OneBatch`), says that what is listed is still to be dispatched; the
refinement rests on it: an execution is created for an event that is not
processed.

Tenancy. The properties speak of the tables, the requests of what they read
earlier: `LoginKnows` and `SendKnows` say what a request knows at each of its points.
That this stays true while other requests move is stated once: tables only grow
(`Grows`: organisations stay, former owners are remembered), and a step moves
its own request alone (`OnlyMoves`, lemma `KnowledgeLasts`). `Upserted` is the
merge on the slug. `DeliveriesEndRightly` is the safety half of `MappedIsRecorded`, for
accounts with an organisation from the start: a delivery fails without a failed call
only at the lookup of an account it has seen own the installation, and that one is
there (`SeededStay`).

Review queue. `Progress` ties a request's point to its effects: a request past the log call is in the
log, one past the insertion has its attestation. That the other requests cannot
undo it is stated once, for all steps (`RequestStep`: effects are only added,
and only a request's own; a step moves that request alone). `ApprovalsReachTheirEnd`
is the safety half of `ApprovalIsCarriedOut`: the ways a request can end
(`EndsWell`) stay true after it, because decisions are overwritten but not withdrawn and a
pull request that is open already stays open, whoever opened it.

Queue page. The API alone does not keep a second decision from overwriting a first
(`review_race`), so the proof is about what the page has under way. An item has at most one
request of this page that was sent and not answered, because its buttons are disabled
meanwhile, with a token or without, and one that was answered has ended, unless its answer was lost
(`RequestsOfThePage`). Hence a request that is about to decide still finds
the item pending (`DecidesPending`): whoever could have decided in between is
idle or at its end. That holds of items on which nobody else has begun and no answer
was lost (`OnlyHere`), which a step can only end (`OnlyHereBefore`). `NothingHidden` rests on `OkMeansDecided`: an item is taken
away for an "ok", and then it has been decided and is never pending again; and a page that has a
token and is not loading was answered after it last had none, because both a new
token and a click on refresh start a list.

Login. `OwnCode` is what the comparison of the state leaves. Types need that one
run listens at a time, and closes the port when it is done (`PortInv`).

Key set. Whoever fetches has seen the cache empty under the write lock
(`FetchingFindsNone`), and nobody else can fill it (`OneWriter`); what is cached
counts the fetches (`CachedIsFetched`).

Evidence. A row has its entry (`RowsAreLogged`), so a verification owes logged
entries only (`OwedIsLogged`); from the index's answer on, what is fetched and what is
still to fetch make up what is owed or reach the limit (`NothingPassedOver`).
For the pages, the rank of a row is how many matching rows are later. An insert
only raises ranks (`RanksGrow`), a page takes the rows of its ranks, so what is
owed and not yet read has a rank on a page to come (`OwedIsAhead`). The walk
ends at a page that is not full, and a page is full while any row has a later rank
(`PageIsFull`): the ranks of finitely many rows with different timestamps map
them one to one to the numbers below their count, hence onto them. The
executions of a repository are finite and at most `IdLimit`, so each lookup of the
filter finds them all (`AllIdsFound`).

Stream. That a row is shown in time is not inductive; what is, is when the next
good poll comes at the latest. `Deadline` is the ticker plus what the failures still
allowed would cost (`Slack`: an interval and a delay each), and a row that is due and not
shown leaves the window after it (`StartIsDue`, `SettledIsDue`). A failed
poll spends what it costs, a broken connection too, a tick changes nothing
(`DeadlineStep`). A good poll pushes the deadline on, but leaves nothing due
that has not only just landed (`DueAfterPoll`). What lands late has `MaxLag` less of
its window, a refreshed token starts the count anew, and both are covered by `WideWindow`.
That a query answers everything in the window is `QueryAnswersAll`, from `Burst`; rows land between it
and the sending, so what a poll has not answered when it is sent has only just
landed (`MissedIsLate`). Between its two
queries on executions, what the first answered is still so, or the second answers it
again (`FirstAnswer`); hence from the second on, what the poll holds of the executions is
what all of them were then (`OneMoment`), which is `SendsOneMoment`.

Trigger. `Follows` says what a client knows at each of its points: its own row is
there and is of its target once inserted, so the lookup always finds some row,
its own if there is no other. That this and a settled end stay true while the others go
on is stated once: rows are added and move on, never change hands, and leave a settled
status only for "rejected" (`RowsMove`).

Each conjunct of these invariants that is not itself a property of
a run was checked with TLC in the configuration of a run first.

Only model-checked: the liveness properties (`MappedIsRecorded`,
`ApprovalIsCarriedOut`, `CalledBackEnds`, `EveryEventIsProcessed`, `QueuedIsTakenUp`,
`ClaimedGetsVerdict`, `ReturnsOnceSettled`, `RequestsGoOn`), since fairness means
ENABLED, which is outside the prover. Every invariant and every action
property of a passing run is a theorem, but for `BatchIsExclusive`, which is a step of `Invariance`, and of three of the liveness properties
(`MappedIsRecorded`, `ApprovalIsCarriedOut`, `ClaimedGetsVerdict`) a safety half is: it tells how
the thing ends, the run that it does. What the runs marked as violations check is false.

## 7. What could come next

1. The dispatcher and the executor composed through `executions`: an event to
   its verdicts.
2. The manifest's validation as operators over bounded inputs.
3. The stream's limit of 100 rows per query: what a burst hides.

## 8. Not modelled

- Triage: one request to an external model and a validation of its answer.
- Health, wiring and configuration, the Supabase client: no state of their own.
- `GetRepoStatus`, a read without a follow-up, and the export of attestations,
  which is a page like the others and which no handler calls.
- The CLI's `status`, `verify` and output: one request and its rendering each.
- The web pages apart from the stream's and the queue's state hooks.
- The bots' scripts: a bot is a process with an exit status and output.
- Row level security: the service role used by all of this code bypasses it.
- Cryptography: a signature, a state or a token is right or it is not.
- The key set's background refresh, which belongs to the library, and its
  unlocked write of an error that nothing reads.

The texts of results, messages and pull requests appear only where a limit on them
decides a path.
