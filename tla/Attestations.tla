---------------------------- MODULE Attestations ----------------------------
(***************************************************************************)
(* The evidence store of one organisation: SignAndAttest publishes a Rekor *)
(* entry and then inserts a row, while clients page through the rows       *)
(* (ListAttestationsForOrg) and anybody verifies a hash against the public *)
(* log (VerifyAttestation).  No answer is taken from a snapshot: every     *)
(* page, and every fetch of an entry, is a request of its own.             *)
(***************************************************************************)
EXTENDS Naturals, FiniteSets

CONSTANTS
  Attempts,     \* calls of SignAndAttest; one makes at most one entry and one row
  Executions,
  Repos,
  AnyRepo,      \* "no repo filter"
  ExecutionOf,  \* the execution an attempt attests
  HashOf,       \* the artifact hash it attests
  RepoOf,       \* the repository of an execution
  PageSize,     \* maxAttestationPageSize: 50
  IdLimit,      \* executions looked up for a repo filter: 1000
  IndexLimit    \* maxAttestationPublicSearch: 100 entries per hash

Hashes == {HashOf[a] : a \in Attempts}

\* What the code grants of the constants.
AttestationsAssumption ==
  /\ ExecutionOf \in [Attempts -> Executions] /\ DOMAIN HashOf = Attempts
  /\ RepoOf \in [Executions -> Repos] /\ AnyRepo \notin Repos
  /\ {PageSize, IdLimit, IndexLimit} \subseteq Nat \ {0}

VARIABLES
  log,      \* Rekor's entries, named by the attempt that made them
  clock,    \* how many timestamps were taken; no two are equal
  signedAt, \* the timestamp of an attempt (0: none yet)
  table,    \* the rows of attestations
  over,     \* attempts that were answered, or died
  walk,     \* one client's walk through the pages
  proof     \* or its verification: clients only read, so one is enough

signing      == <<log, clock, signedAt, table, over>>
evidenceVars == <<log, clock, signedAt, table, over, walk, proof>>

Walks  == [at : {"idle", "ids", "page", "done"}, repo : Repos \cup {AnyRepo},
           ids : SUBSET Executions, page : Nat, got : SUBSET Attempts,
           due : SUBSET Attempts]
Proofs == [at : {"idle", "index", "fetch", "ok", "error"}, hash : Hashes,
           todo : SUBSET Attempts, got : SUBSET Attempts, due : SUBSET Attempts]

EvidenceTypeOK ==
  /\ log \subseteq Attempts /\ table \subseteq Attempts /\ over \subseteq Attempts
  /\ clock \in Nat /\ signedAt \in [Attempts -> Nat]
  /\ walk \in Walks /\ proof \in Proofs

NoWalk == [at |-> "idle", repo |-> AnyRepo, ids |-> {}, page |-> 1, got |-> {}, due |-> {}]

EvidenceInit ==
  /\ log = {} /\ table = {} /\ over = {}
  /\ clock = 0 /\ signedAt = [a \in Attempts |-> 0]
  /\ walk = NoWalk
  /\ \E h \in Hashes :
       proof = [at |-> "idle", hash |-> h, todo |-> {}, got |-> {}, due |-> {}]

-----------------------------------------------------------------------------
(* SignAndAttest.                                                          *)

Submit(a) ==
  /\ a \notin log \cup over
  /\ log' = log \cup {a}
  /\ UNCHANGED <<clock, signedAt, table, over, walk, proof>>

TakeTime(a) ==
  /\ a \in log \ over /\ signedAt[a] = 0
  /\ clock' = clock + 1
  /\ signedAt' = [signedAt EXCEPT ![a] = clock + 1]
  /\ UNCHANGED <<log, table, over, walk, proof>>

\* Mutant of Insertable: the row is written before the entry is made.
InsertableEarly(a) == a \notin over

Insertable(a) == a \in log \ over /\ signedAt[a] # 0

InsertAttestation(a) ==
  /\ Insertable(a)
  /\ table' = table \cup {a} /\ over' = over \cup {a}
  /\ UNCHANGED <<log, clock, signedAt, walk, proof>>

\* A request fails, or the process dies, wherever the attempt is.
GiveUp(a) ==
  /\ a \notin over
  /\ over' = over \cup {a}
  /\ UNCHANGED <<log, clock, signedAt, table, walk, proof>>

-----------------------------------------------------------------------------
(* ListAttestationsForOrg, page after page until one is not full.          *)

InRepo(e, repo) == repo \in {AnyRepo, RepoOf[e]}

Matching(E) == {a \in table : ExecutionOf[a] \in E}

StartWalk(repo) ==
  /\ walk.at = "idle" /\ proof.at = "idle"
  /\ walk' = [walk EXCEPT !.at = "ids", !.repo = repo,
                !.due = Matching({e \in Executions : InRepo(e, repo)})]
  /\ UNCHANGED <<signing, proof>>

\* listExecutionIDsForRepo: at most IdLimit executions, in no order.
IdsFor(repo) ==
  IF repo = AnyRepo THEN {Executions}
  ELSE LET all == {e \in Executions : InRepo(e, repo)} IN
       {S \in SUBSET all : Cardinality(S) <= IdLimit
                           /\ (S = all \/ Cardinality(S) = IdLimit)}

LookUpIds ==
  /\ walk.at = "ids"
  /\ \E E \in IdsFor(walk.repo) : walk' = [walk EXCEPT !.at = "page", !.ids = E]
  /\ UNCHANGED <<signing, proof>>

\* Mutant of From: the range starts one row late.
FromLate(page) == (page - 1) * PageSize + 1

From(page) == (page - 1) * PageSize

\* The rows of R with the ranks of the page, by signed_at, latest first.
PageOf(R, page) ==
  {a \in R : LET rank == Cardinality({b \in R : signedAt[b] > signedAt[a]})
             IN  From(page) <= rank /\ rank < From(page) + PageSize}

\* A request that fails is made again.
ReadPage ==
  /\ walk.at = "page"
  /\ LET rows == PageOf(Matching(walk.ids), walk.page) IN
     walk' = [walk EXCEPT !.got = @ \cup rows, !.page = @ + 1,
                !.at = IF Cardinality(rows) < PageSize THEN "done" ELSE "ids"]
  /\ UNCHANGED <<signing, proof>>

-----------------------------------------------------------------------------
(* VerifyAttestation.                                                      *)

StartVerify ==
  /\ proof.at = "idle" /\ walk.at = "idle"
  /\ proof' = [proof EXCEPT !.at = "index",
                 !.due = {a \in table : HashOf[a] = proof.hash}]
  /\ UNCHANGED <<signing, walk>>

\* lookupRekorUUIDsByHash: the index answers every entry of the hash; what
\* exceeds the limit is cut off.
LookUpIndex ==
  /\ proof.at = "index"
  /\ LET all == {a \in log : HashOf[a] = proof.hash} IN
     \/ \E S \in SUBSET all :
          /\ Cardinality(S) <= IndexLimit
          /\ S = all \/ Cardinality(S) = IndexLimit
          /\ proof' = [proof EXCEPT !.at = IF S = {} THEN "ok" ELSE "fetch", !.todo = S]
     \/ proof' = [proof EXCEPT !.at = "error"]
  /\ UNCHANGED <<signing, walk>>

\* Mutant of AfterFetchError: an entry that cannot be fetched is left out.
SkipEntry(p, a) == [p EXCEPT !.todo = @ \ {a}, !.at = IF p.todo = {a} THEN "ok" ELSE "fetch"]

AfterFetchError(p, a) == [p EXCEPT !.todo = {}, !.at = "error"]

\* fetchRekorEntry, one after the other; the first error ends the request.
FetchEntry(a) ==
  /\ proof.at = "fetch" /\ a \in proof.todo
  /\ \/ proof' = [proof EXCEPT !.todo = @ \ {a}, !.got = @ \cup {a},
                    !.at = IF proof.todo = {a} THEN "ok" ELSE "fetch"]
     \/ proof' = AfterFetchError(proof, a)
  /\ UNCHANGED <<signing, walk>>

EvidenceNext ==
  \/ \E a \in Attempts :
       Submit(a) \/ TakeTime(a) \/ InsertAttestation(a) \/ GiveUp(a) \/ FetchEntry(a)
  \/ \E repo \in Repos \cup {AnyRepo} : StartWalk(repo)
  \/ LookUpIds \/ ReadPage \/ StartVerify \/ LookUpIndex

EvidenceSpec == EvidenceInit /\ [][EvidenceNext]_evidenceVars

-----------------------------------------------------------------------------
(* Properties.                                                             *)

\* A client that pages to the end has seen every matching row that was there
\* when it began, although approvals insert rows, not always in the order of
\* their timestamps, between two of its pages (attestation.go:231-302): the
\* order is latest first, so an insert moves rows to later pages only.  For a
\* repository it needs the executions to be at most IdLimit.
PagesMissNothing ==
  /\ walk.at = "done"
  /\ \A repo \in Repos : Cardinality({e \in Executions : InRepo(e, repo)}) <= IdLimit
  => walk.due \subseteq walk.got

\* A verification that succeeds shows the entry of every attestation that was
\* recorded before it began, unless the hash has more entries than it looks
\* at: no failed request is passed over in silence, and no row is without its
\* entry (attestation.go:152-177, 191-229, 545-576).
VerifiedIsComplete ==
  proof.at = "ok" =>
    proof.due \subseteq proof.got \/ Cardinality(proof.got) = IndexLimit
=============================================================================
