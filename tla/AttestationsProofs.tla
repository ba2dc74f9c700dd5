-------------------------- MODULE AttestationsProofs --------------------------
(***************************************************************************)
(* Proofs about the evidence store, for any number of attestations and of  *)
(* executions, pages of any size and an index of any limit.                *)
(***************************************************************************)
EXTENDS Attestations, FiniteSetTheorems, TLAPS

\* A row is inserted after its entry was made, and entries stay.
RowsAreLogged == table \subseteq log

\* Before the index is asked nothing is at hand, and what the verification
\* owes has its entry.
OwedIsLogged ==
  /\ proof.at \in {"idle", "index"} => proof.todo = {} /\ proof.got = {}
  /\ proof.at = "index" => proof.due \subseteq {a \in log : HashOf[a] = proof.hash}

\* From then on what is fetched and what is still to fetch make up all that
\* is owed, or all that the limit allows.
NothingPassedOver ==
  /\ proof.at \in {"fetch", "ok"} =>
       \/ proof.due \subseteq proof.todo \cup proof.got
       \/ Cardinality(proof.todo \cup proof.got) = IndexLimit
  /\ proof.at = "ok" => proof.todo = {}

EvidenceInv == EvidenceTypeOK /\ RowsAreLogged /\ OwedIsLogged /\ NothingPassedOver

-----------------------------------------------------------------------------

\* The invariant holds before the first request.
LEMMA EvidenceInitInv == AttestationsAssumption /\ EvidenceInit => EvidenceInv
  <1> SUFFICES ASSUME AttestationsAssumption, EvidenceInit PROVE EvidenceInv
    OBVIOUS
  <1>1. PICK h \in Hashes :
          proof = [at |-> "idle", hash |-> h, todo |-> {}, got |-> {}, due |-> {}]
    BY DEF EvidenceInit
  <1>2. proof \in Proofs
    BY <1>1 DEF Proofs
  <1>3. walk \in Walks
    BY DEF EvidenceInit, NoWalk, Walks
  <1>4. EvidenceTypeOK
    BY <1>2, <1>3 DEF EvidenceInit, EvidenceTypeOK
  <1>5. RowsAreLogged /\ OwedIsLogged /\ NothingPassedOver
    BY <1>1 DEF EvidenceInit, RowsAreLogged, OwedIsLogged, NothingPassedOver
  <1>6. QED
    BY <1>4, <1>5 DEF EvidenceInv

\* Signing adds entries and rows, in this order, and nothing else.
LEMMA EvidenceSigning ==
  ASSUME EvidenceInv, NEW a \in Attempts,
         Submit(a) \/ TakeTime(a) \/ InsertAttestation(a) \/ GiveUp(a)
  PROVE  EvidenceInv'
  <1>1. /\ log \subseteq log' /\ log' \subseteq Attempts
        /\ table' \subseteq log' /\ over' \subseteq Attempts
    BY DEF EvidenceInv, EvidenceTypeOK, RowsAreLogged, Submit, TakeTime,
           InsertAttestation, Insertable, GiveUp
  <1>2. clock' \in Nat /\ signedAt' \in [Attempts -> Nat]
    BY DEF EvidenceInv, EvidenceTypeOK, Submit, TakeTime, InsertAttestation, Insertable, GiveUp
  <1>3. walk' = walk /\ proof' = proof
    BY DEF Submit, TakeTime, InsertAttestation, Insertable, GiveUp
  <1>4. EvidenceTypeOK' /\ RowsAreLogged'
    BY <1>1, <1>2, <1>3 DEF EvidenceInv, EvidenceTypeOK, RowsAreLogged
  <1>5. OwedIsLogged'
    BY <1>1, <1>3 DEF EvidenceInv, OwedIsLogged
  <1>6. NothingPassedOver'
    BY <1>3 DEF EvidenceInv, NothingPassedOver
  <1>7. QED
    BY <1>4, <1>5, <1>6 DEF EvidenceInv

\* The pages do not touch what the verification rests on.
LEMMA EvidencePaging ==
  ASSUME EvidenceInv,
         (\E repo \in Repos \cup {AnyRepo} : StartWalk(repo)) \/ LookUpIds \/ ReadPage
  PROVE  EvidenceInv'
  <1>1. UNCHANGED <<log, clock, signedAt, table, over, proof>>
    BY DEF StartWalk, LookUpIds, ReadPage, signing
  <1>2. walk' \in Walks
    <2>1. ASSUME NEW repo \in Repos \cup {AnyRepo}, StartWalk(repo) PROVE walk' \in Walks
      <3>1. Matching({e \in Executions : InRepo(e, repo)}) \in SUBSET Attempts
        BY DEF Matching, EvidenceInv, EvidenceTypeOK
      <3>2. QED
        BY <2>1, <3>1 DEF StartWalk, EvidenceInv, EvidenceTypeOK, Walks
    <2>2. ASSUME LookUpIds PROVE walk' \in Walks
      <3>1. PICK E \in IdsFor(walk.repo) : walk' = [walk EXCEPT !.at = "page", !.ids = E]
        BY <2>2 DEF LookUpIds
      <3>2. E \in SUBSET Executions
        BY <3>1 DEF IdsFor
      <3>3. QED
        BY <3>1, <3>2 DEF EvidenceInv, EvidenceTypeOK, Walks
    <2>3. ASSUME ReadPage PROVE walk' \in Walks
      <3> DEFINE rows == PageOf(Matching(walk.ids), walk.page)
                 next == IF Cardinality(rows) < PageSize THEN "done" ELSE "ids"
      <3>1. rows \in SUBSET Attempts
        BY DEF PageOf, Matching, EvidenceInv, EvidenceTypeOK
      <3>2. walk' = [walk EXCEPT !.got = @ \cup rows, !.page = @ + 1,
                       !.at = next]
        BY <2>3 DEF ReadPage
      <3>3. next \in {"done", "ids"}
        OBVIOUS
      <3> DEFINE seen == walk.got \cup rows
                 page == walk.page + 1
      <3>4. seen \in SUBSET Attempts /\ page \in Nat
        BY <3>1 DEF EvidenceInv, EvidenceTypeOK, Walks
      <3>5. walk' = [walk EXCEPT !.got = seen, !.page = page, !.at = next]
        BY <3>2
      <3> HIDE DEF rows, next, seen, page
      <3>6. QED
        BY <3>3, <3>4, <3>5 DEF EvidenceInv, EvidenceTypeOK, Walks
    <2>4. QED
      BY <2>1, <2>2, <2>3
  <1>3. QED
    BY <1>1, <1>2 DEF EvidenceInv, EvidenceTypeOK, RowsAreLogged, OwedIsLogged, NothingPassedOver

\* A verification looks up the index once and fetches what it got, one entry
\* at a time.
LEMMA EvidenceVerifying ==
  ASSUME EvidenceInv,
         StartVerify \/ LookUpIndex \/ (\E a \in Attempts : FetchEntry(a))
  PROVE  EvidenceInv'
  <1>1. UNCHANGED <<log, clock, signedAt, table, over, walk>>
    BY DEF StartVerify, LookUpIndex, FetchEntry, signing
  <1>2. proof \in Proofs
    BY DEF EvidenceInv, EvidenceTypeOK
  <1>3. ASSUME proof' \in Proofs, OwedIsLogged', NothingPassedOver' PROVE EvidenceInv'
    BY <1>1, <1>3 DEF EvidenceInv, EvidenceTypeOK, RowsAreLogged
  <1>4. CASE StartVerify
    <2> DEFINE due == {a \in table : HashOf[a] = proof.hash}
    <2>1. proof.at = "idle" /\ proof' = [proof EXCEPT !.at = "index", !.due = due]
      BY <1>4 DEF StartVerify
    <2>2. due \in SUBSET Attempts /\ due \subseteq {a \in log : HashOf[a] = proof.hash}
      BY DEF EvidenceInv, EvidenceTypeOK, RowsAreLogged
    <2> HIDE DEF due
    <2>3. proof' \in Proofs
      BY <1>2, <2>1, <2>2 DEF Proofs
    <2>4. OwedIsLogged'
      BY <1>1, <1>2, <2>1, <2>2 DEF EvidenceInv, OwedIsLogged, Proofs
    <2>5. NothingPassedOver'
      BY <1>2, <2>1 DEF NothingPassedOver, Proofs
    <2>6. QED
      BY <1>3, <2>3, <2>4, <2>5
  <1>5. CASE LookUpIndex
    <2> DEFINE all == {a \in log : HashOf[a] = proof.hash}
    <2>1. /\ proof.at = "index" /\ proof.got = {} /\ proof.todo = {}
          /\ proof.due \subseteq all
      BY <1>5 DEF LookUpIndex, EvidenceInv, OwedIsLogged
    <2>2. ASSUME proof' = [proof EXCEPT !.at = "error"] PROVE EvidenceInv'
      <3>1. proof' \in Proofs
        BY <1>2, <2>2 DEF Proofs
      <3>2. proof'.at = "error"
        BY <1>2, <2>2 DEF Proofs
      <3>3. QED
        BY <1>3, <3>1, <3>2 DEF OwedIsLogged, NothingPassedOver
    <2>3. ASSUME NEW S \in SUBSET all,
                 S = all \/ Cardinality(S) = IndexLimit,
                 proof' = [proof EXCEPT !.at = IF S = {} THEN "ok" ELSE "fetch",
                                        !.todo = S]
          PROVE  EvidenceInv'
      <3>1. S \in SUBSET Attempts
        BY DEF EvidenceInv, EvidenceTypeOK
      <3>2. /\ proof'.at \in {"ok", "fetch"} /\ (proof'.at = "ok" => S = {})
            /\ proof'.todo = S /\ proof'.got = {} /\ proof'.due = proof.due
        BY <1>2, <2>1, <2>3 DEF Proofs
      <3>3. proof' \in Proofs
        BY <1>2, <2>3, <3>1 DEF Proofs
      <3>4. proof'.todo \cup proof'.got = S
        BY <3>2
      <3>5. proof'.due \subseteq S \/ Cardinality(S) = IndexLimit
        BY <2>1, <2>3, <3>2
      <3>6. NothingPassedOver'
        BY <3>2, <3>4, <3>5 DEF NothingPassedOver
      <3>7. OwedIsLogged'
        BY <3>2 DEF OwedIsLogged
      <3>8. QED
        BY <1>3, <3>3, <3>6, <3>7
    <2>4. QED
      BY <1>5, <2>2, <2>3 DEF LookUpIndex
  <1>6. ASSUME NEW a \in Attempts, FetchEntry(a) PROVE EvidenceInv'
    <2>1. proof.at = "fetch" /\ a \in proof.todo
      BY <1>6 DEF FetchEntry
    <2>2. ASSUME proof' = AfterFetchError(proof, a) PROVE EvidenceInv'
      <3>1. proof' \in Proofs /\ proof'.at = "error"
        BY <1>2, <2>2 DEF AfterFetchError, Proofs
      <3>2. QED
        BY <1>3, <3>1 DEF OwedIsLogged, NothingPassedOver
    <2>3. ASSUME proof' = [proof EXCEPT !.todo = @ \ {a}, !.got = @ \cup {a},
                             !.at = IF proof.todo = {a} THEN "ok" ELSE "fetch"]
          PROVE  EvidenceInv'
      <3>1. /\ proof'.at = (IF proof.todo = {a} THEN "ok" ELSE "fetch")
            /\ proof'.todo = proof.todo \ {a} /\ proof'.got = proof.got \cup {a}
            /\ proof'.due = proof.due
        BY <1>2, <2>3 DEF Proofs
      <3>2. proof' \in Proofs
        BY <1>2, <2>3 DEF Proofs
      <3>3. proof'.todo \cup proof'.got = proof.todo \cup proof.got
        BY <2>1, <3>1
      <3>4. \/ proof.due \subseteq proof.todo \cup proof.got
            \/ Cardinality(proof.todo \cup proof.got) = IndexLimit
        BY <2>1 DEF EvidenceInv, NothingPassedOver
      <3>5. NothingPassedOver'
        BY <3>1, <3>3, <3>4 DEF NothingPassedOver
      <3>6. OwedIsLogged'
        BY <3>1 DEF OwedIsLogged
      <3>7. QED
        BY <1>3, <3>2, <3>5, <3>6
    <2>4. QED
      BY <1>6, <2>2, <2>3 DEF FetchEntry
  <1>7. QED
    BY <1>4, <1>5, <1>6

\* Every step keeps the invariant.
LEMMA EvidenceNextInv == EvidenceInv /\ [EvidenceNext]_evidenceVars => EvidenceInv'
  <1> SUFFICES ASSUME EvidenceInv, [EvidenceNext]_evidenceVars PROVE EvidenceInv'
    OBVIOUS
  <1>1. CASE UNCHANGED evidenceVars
    BY <1>1 DEF evidenceVars, EvidenceInv, EvidenceTypeOK, RowsAreLogged, OwedIsLogged,
               NothingPassedOver
  <1>2. CASE EvidenceNext
    BY <1>2, EvidenceSigning, EvidencePaging, EvidenceVerifying DEF EvidenceNext
  <1>3. QED
    BY <1>1, <1>2

\* The store's invariant, whatever requests interleave.
THEOREM EvidenceInvariance ==
  ASSUME AttestationsAssumption PROVE EvidenceSpec => []EvidenceInv
  <1>1. EvidenceInit => EvidenceInv
    BY EvidenceInitInv
  <1>2. QED
    BY <1>1, EvidenceNextInv, PTL DEF EvidenceSpec

\* A verification that succeeds shows the entry of every attestation that was
\* recorded before it began, up to the index's limit (attestation.go:191-229).
THEOREM CompleteVerification ==
  ASSUME AttestationsAssumption PROVE EvidenceSpec => []VerifiedIsComplete
  <1>1. EvidenceInv => VerifiedIsComplete
    <2> SUFFICES ASSUME EvidenceInv, proof.at = "ok"
                 PROVE  \/ proof.due \subseteq proof.got
                        \/ Cardinality(proof.got) = IndexLimit
      BY DEF VerifiedIsComplete
    <2>1. proof.todo \cup proof.got = proof.got
      BY DEF EvidenceInv, NothingPassedOver
    <2>2. QED
      BY <2>1 DEF EvidenceInv, NothingPassedOver
  <1>2. QED
    BY <1>1, EvidenceInvariance, PTL

-----------------------------------------------------------------------------
(* The pages.                                                              *)

\* The executions of a repository filter, and whether they can be looked up.
RepoExecutions(repo) == {e \in Executions : InRepo(e, repo)}
FewExecutions        == \A repo \in Repos : Cardinality(RepoExecutions(repo)) <= IdLimit

\* The rows that the walk pages through, and those that come before one.
Filed   == Matching(RepoExecutions(walk.repo))
Rank(a) == Cardinality({b \in Filed : signedAt[b] > signedAt[a]})

\* Rows are inserted once, with timestamps of their own.
RowsAreStamped ==
  /\ table \subseteq over /\ IsFiniteSet(table)
  /\ \A a \in table : signedAt[a] # 0
  /\ \A a \in Attempts : signedAt[a] <= clock
  /\ \A a, b \in Attempts : signedAt[a] = signedAt[b] /\ signedAt[a] # 0 => a = b

\* What the walk owes and has not got is on a page to come: an insert may move
\* it back, and nothing moves it forward.
OwedIsAhead ==
  /\ walk.page >= 1 /\ (walk.at = "idle" => walk.page = 1)
  /\ walk.at \in {"ids", "page"} => walk.due \subseteq Filed
  /\ walk.at = "page" => walk.ids = RepoExecutions(walk.repo)
  /\ walk.at \in {"ids", "page"} =>
       \A a \in walk.due \ walk.got : Rank(a) >= From(walk.page)
  /\ walk.at = "done" => walk.due \subseteq walk.got

\* What is kept while a client walks the pages.
PagesInv == RowsAreStamped /\ (FewExecutions => OwedIsAhead)

\* Pages follow one another without a gap.
LEMMA FromNext ==
  ASSUME AttestationsAssumption, NEW page \in Nat \ {0}
  PROVE  From(page) \in Nat /\ From(page + 1) = From(page) + PageSize /\ From(1) = 0
  <1>1. PageSize \in Nat /\ page - 1 \in Nat
    BY DEF AttestationsAssumption
  <1>2. \A m, k \in Nat : m * k \in Nat /\ (m + 1) * k = m * k + k /\ 0 * k = 0
    OBVIOUS
  <1>3. (page + 1) - 1 = (page - 1) + 1 /\ 1 - 1 = 0
    OBVIOUS
  <1> QED BY <1>1, <1>2, <1>3 DEF From

\* The ranks of finitely many rows are the numbers below their count, so a
\* page before any row's own is full.
LEMMA PageIsFull ==
  ASSUME AttestationsAssumption, EvidenceTypeOK, RowsAreStamped,
         NEW R \in SUBSET table, NEW page \in Nat \ {0}, NEW a \in R,
         Cardinality({b \in R : signedAt[b] > signedAt[a]}) >= From(page) + PageSize
  PROVE  Cardinality(PageOf(R, page)) >= PageSize
  <1> DEFINE N     == Cardinality(R)
             Up(x) == {b \in R : signedAt[b] > signedAt[x]}
             rank  == [x \in R |-> Cardinality(Up(x))]
             lo    == From(page)
             P     == PageOf(R, page)
             T     == lo .. lo + PageSize - 1
  <1>1. IsFiniteSet(R) /\ N \in Nat
    BY FS_Subset, FS_CardinalityType DEF RowsAreStamped
  <1>2. R \subseteq Attempts /\ \A x \in R : signedAt[x] \in Nat
    BY DEF EvidenceTypeOK
  <1>3. ASSUME NEW x \in R, NEW S \in SUBSET R, x \notin S
        PROVE  Cardinality(S) \in Nat /\ Cardinality(S) < N
    <2>1. IsFiniteSet(S) /\ Cardinality(S) <= N /\ (N = Cardinality(S) => R = S)
      BY <1>1, FS_Subset
    <2>2. Cardinality(S) \in Nat
      BY <2>1, FS_CardinalityType
    <2> QED BY <1>1, <1>3, <2>1, <2>2
  <1>4. \A x \in R : rank[x] \in 0 .. N - 1
    <2> SUFFICES ASSUME NEW x \in R PROVE rank[x] \in 0 .. N - 1
      OBVIOUS
    <2>1. Up(x) \in SUBSET R /\ x \notin Up(x)
      BY <1>2
    <2>2. Cardinality(Up(x)) \in Nat /\ Cardinality(Up(x)) < N
      BY <1>3, <2>1
    <2> QED BY <1>1, <2>2
  <1>5. ASSUME NEW x \in R, NEW y \in R, signedAt[x] > signedAt[y]
        PROVE  rank[x] < rank[y]
    <2>1. Up(x) \subseteq Up(y) /\ x \in Up(y) /\ x \notin Up(x)
      BY <1>2, <1>5
    <2>2. IsFiniteSet(Up(y))
      BY <1>1, FS_Subset
    <2>3. /\ IsFiniteSet(Up(x)) /\ Cardinality(Up(x)) <= Cardinality(Up(y))
          /\ Cardinality(Up(y)) = Cardinality(Up(x)) => Up(y) = Up(x)
      BY <2>1, <2>2, FS_Subset
    <2>4. Cardinality(Up(x)) \in Nat /\ Cardinality(Up(y)) \in Nat
      BY <2>2, <2>3, FS_CardinalityType
    <2> HIDE DEF Up
    <2> QED BY <2>1, <2>3, <2>4
  <1>6. rank \in Injection(R, 0 .. N - 1)
    <2>1. rank \in [R -> 0 .. N - 1]
      BY <1>4
    <2>2. ASSUME NEW x \in R, NEW y \in R, rank[x] = rank[y] PROVE x = y
      <3>1. rank[x] \in Int /\ rank[y] \in Int
        BY <1>4
      <3>2. ~(signedAt[x] > signedAt[y]) /\ ~(signedAt[y] > signedAt[x])
        BY <1>5, <2>2, <3>1
      <3>3. signedAt[x] = signedAt[y]
        BY <1>2, <3>2
      <3> QED BY <1>2, <3>3 DEF RowsAreStamped
    <2>3. DOMAIN rank = R
      OBVIOUS
    <2> HIDE DEF rank
    <2> QED BY <2>1, <2>2, <2>3 DEF Injection, IsInjective
  <1>7. rank \in Surjection(R, 0 .. N - 1)
    <2> HIDE DEF rank, N
    <2>1. IsFiniteSet(0 .. N - 1) /\ Cardinality(0 .. N - 1) = N
      <3>1. N - 1 \in Int /\ 0 \in Int /\ (N - 1) - 0 + 1 = N /\ (0 > N - 1 => N = 0)
        BY <1>1
      <3>2. /\ IsFiniteSet(0 .. N - 1)
            /\ Cardinality(0 .. N - 1) = IF 0 > N - 1 THEN 0 ELSE (N - 1) - 0 + 1
        BY <3>1, FS_Interval
      <3> QED BY <3>1, <3>2
    <2>2. Cardinality(R) = N
      BY DEF N
    <2> QED BY <1>6, <2>1, <2>2, FS_Injection
  <1>8. lo \in Nat /\ PageSize \in Nat /\ PageSize >= 1
    BY FromNext DEF AttestationsAssumption
  <1>9. P = {x \in R : lo <= rank[x] /\ rank[x] < lo + PageSize}
    BY DEF PageOf
  <1>10. lo + PageSize <= N - 1
    <2>1. rank[a] >= lo + PageSize /\ rank[a] \in 0 .. N - 1
      BY <1>4
    <2> HIDE DEF rank, lo, N
    <2> QED BY <1>1, <1>8, <2>1
  <1> HIDE DEF rank, lo, N, P
  <1>11. [x \in P |-> rank[x]] \in Surjection(P, T)
    <2>1. \A x \in P : rank[x] \in T
      BY <1>4, <1>8, <1>9
    <2>2. ASSUME NEW t \in T PROVE \E x \in P : rank[x] = t
      <3>1. t \in 0 .. N - 1
        BY <1>1, <1>8, <1>10
      <3>2. PICK x \in R : rank[x] = t
        BY <1>7, <3>1 DEF Surjection
      <3> QED BY <1>8, <1>9, <3>2
    <2> QED BY <2>1, <2>2 DEF Surjection
  <1>12. IsFiniteSet(P)
    BY <1>1, <1>9, FS_Subset
  <1>13. Cardinality(T) <= Cardinality(P)
    BY <1>11, <1>12, FS_Surjection
  <1>14. Cardinality(T) = PageSize
    <2>1. /\ lo \in Int /\ lo + PageSize - 1 \in Int /\ ~(lo > lo + PageSize - 1)
          /\ (lo + PageSize - 1) - lo + 1 = PageSize
      BY <1>8
    <2>2. Cardinality(T) = IF lo > lo + PageSize - 1 THEN 0 ELSE (lo + PageSize - 1) - lo + 1
      BY <2>1, FS_Interval
    <2> QED BY <2>1, <2>2
  <1>15. Cardinality(P) \in Nat
    BY <1>12, FS_CardinalityType
  <1> QED BY <1>8, <1>13, <1>14, <1>15 DEF P

\* An insert moves a row to later ranks only.
LEMMA RanksGrow ==
  ASSUME EvidenceTypeOK, RowsAreStamped, NEW a \in table,
         table \subseteq table', IsFiniteSet(table'), walk'.repo = walk.repo,
         \A b \in table : signedAt'[b] = signedAt[b]
  PROVE  Rank(a)' \in Nat /\ Rank(a) \in Nat /\ Rank(a)' >= Rank(a)
  <1> DEFINE Up == {b \in Filed : signedAt[b] > signedAt[a]}
             Now == {b \in Filed' : signedAt'[b] > signedAt'[a]}
  <1>1. Filed \subseteq table /\ Filed \subseteq Filed' /\ Filed' \subseteq table'
    BY DEF Filed, Matching, RepoExecutions, InRepo
  <1>2. Up \subseteq Now
    BY <1>1
  <1>3. IsFiniteSet(Now)
    BY <1>1, FS_Subset
  <1>4. IsFiniteSet(Up) /\ Cardinality(Up) <= Cardinality(Now)
    BY <1>2, <1>3, FS_Subset
  <1>5. Cardinality(Up) \in Nat /\ Cardinality(Now) \in Nat
    BY <1>3, <1>4, FS_CardinalityType
  <1>6. Rank(a) = Cardinality(Up) /\ Rank(a)' = Cardinality(Now)
    BY DEF Rank
  <1> HIDE DEF Up, Now
  <1> QED BY <1>4, <1>5, <1>6

\* Rows are inserted once, by attempts that took a time.
LEMMA RowsStep ==
  ASSUME EvidenceTypeOK, RowsAreStamped, [EvidenceNext]_evidenceVars
  PROVE  /\ RowsAreStamped' /\ table \subseteq table'
         /\ \A b \in table : signedAt'[b] = signedAt[b]
  <1> USE DEF EvidenceTypeOK, RowsAreStamped
  <1>1. CASE UNCHANGED <<clock, signedAt, table, over>>
    BY <1>1
  <1>2. ASSUME NEW a \in Attempts, TakeTime(a)
        PROVE  /\ RowsAreStamped' /\ table \subseteq table'
               /\ \A b \in table : signedAt'[b] = signedAt[b]
    BY <1>2 DEF TakeTime
  <1>3. ASSUME NEW a \in Attempts, InsertAttestation(a)
        PROVE  /\ RowsAreStamped' /\ table \subseteq table'
               /\ \A b \in table : signedAt'[b] = signedAt[b]
    <2>1. IsFiniteSet(table')
      BY <1>3, FS_AddElement DEF InsertAttestation
    <2> QED BY <1>3, <2>1 DEF InsertAttestation, Insertable
  <1>4. ASSUME NEW a \in Attempts, GiveUp(a)
        PROVE  /\ RowsAreStamped' /\ table \subseteq table'
               /\ \A b \in table : signedAt'[b] = signedAt[b]
    BY <1>4 DEF GiveUp
  <1> QED BY <1>1, <1>2, <1>3, <1>4
        DEF EvidenceNext, evidenceVars, signing, Submit, FetchEntry, StartWalk, LookUpIds,
            ReadPage, StartVerify, LookUpIndex

\* The executions of a filter are all looked up when they are few.
LEMMA AllIdsFound ==
  ASSUME AttestationsAssumption, IsFiniteSet(Executions), FewExecutions,
         NEW repo \in Repos \cup {AnyRepo}, NEW E \in IdsFor(repo)
  PROVE  E = RepoExecutions(repo)
  <1>1. CASE repo = AnyRepo
    BY <1>1 DEF IdsFor, RepoExecutions, InRepo
  <1>2. CASE repo # AnyRepo
    <2>1. /\ E \in SUBSET RepoExecutions(repo)
          /\ E = RepoExecutions(repo) \/ Cardinality(E) = IdLimit
      BY <1>2 DEF IdsFor, RepoExecutions
    <2>2. Cardinality(RepoExecutions(repo)) <= IdLimit
      BY <1>2 DEF FewExecutions
    <2>3. IsFiniteSet(RepoExecutions(repo))
      BY FS_Subset DEF RepoExecutions
    <2>4. /\ Cardinality(E) <= Cardinality(RepoExecutions(repo))
          /\ Cardinality(RepoExecutions(repo)) = Cardinality(E) => RepoExecutions(repo) = E
          /\ IsFiniteSet(E)
      BY <2>1, <2>3, FS_Subset
    <2>5. Cardinality(E) \in Nat /\ Cardinality(RepoExecutions(repo)) \in Nat /\ IdLimit \in Nat
      BY <2>3, <2>4, FS_CardinalityType DEF AttestationsAssumption
    <2> QED BY <2>1, <2>2, <2>4, <2>5
  <1> QED BY <1>1, <1>2

\* A page takes what has its ranks, and leaves the rest to later ones.
LEMMA PageStep ==
  ASSUME AttestationsAssumption, EvidenceTypeOK, RowsAreStamped, OwedIsAhead, ReadPage
  PROVE  OwedIsAhead'
  <1> DEFINE rows == PageOf(Matching(walk.ids), walk.page)
             after == IF Cardinality(rows) < PageSize THEN "done" ELSE "ids"
  <1>1. /\ walk.at = "page" /\ UNCHANGED <<table, signedAt>>
        /\ walk' = [walk EXCEPT !.got = @ \cup rows, !.page = @ + 1, !.at = after]
    BY DEF ReadPage, signing
  <1>2. /\ walk'.at = after /\ walk'.got = walk.got \cup rows /\ walk'.page = walk.page + 1
        /\ walk'.due = walk.due /\ walk'.repo = walk.repo /\ after \in {"done", "ids"}
    BY <1>1 DEF EvidenceTypeOK, Walks
  <1>3. walk.page \in Nat \ {0} /\ PageSize \in Nat
    BY DEF EvidenceTypeOK, Walks, OwedIsAhead, AttestationsAssumption
  <1>4. /\ From(walk.page) \in Nat /\ From(walk.page + 1) = From(walk.page) + PageSize
    BY <1>3, FromNext
  <1>5. Matching(walk.ids) = Filed /\ walk.due \subseteq Filed /\ Filed \subseteq table
    BY <1>1 DEF OwedIsAhead, Filed, Matching
  <1>6. \A a \in Filed : a \in rows <=>
          From(walk.page) <= Rank(a) /\ Rank(a) < From(walk.page) + PageSize
    BY <1>5 DEF PageOf, Rank
  <1>7. \A a \in Filed : Rank(a) \in Nat
    <2> SUFFICES ASSUME NEW a \in Filed PROVE Rank(a) \in Nat
      OBVIOUS
    <2>1. IsFiniteSet({b \in Filed : signedAt[b] > signedAt[a]})
      BY <1>5, FS_Subset DEF RowsAreStamped
    <2> QED BY <2>1, FS_CardinalityType DEF Rank
  <1>8. \A a \in walk.due \ walk'.got : Rank(a) >= From(walk.page) + PageSize
    BY <1>1, <1>2, <1>3, <1>4, <1>5, <1>6, <1>7 DEF OwedIsAhead
  <1>9. Filed' = Filed /\ \A a : Rank(a)' = Rank(a)
    BY <1>1, <1>2 DEF Filed, Matching, RepoExecutions, InRepo, Rank
  <1>10. after = "done" => walk.due \subseteq walk'.got
    <2> SUFFICES ASSUME NEW a \in walk.due \ walk'.got PROVE Cardinality(rows) >= PageSize
                                                            /\ Cardinality(rows) \in Nat
      BY <1>3
    <2>1. Cardinality({b \in Filed : signedAt[b] > signedAt[a]}) >= From(walk.page) + PageSize
      BY <1>8 DEF Rank
    <2>2. Cardinality(PageOf(Filed, walk.page)) >= PageSize
      BY <1>3, <1>5, <2>1, PageIsFull
    <2>3. IsFiniteSet(rows)
      BY <1>5, FS_Subset DEF RowsAreStamped, PageOf
    <2> QED BY <1>5, <2>2, <2>3, FS_CardinalityType
  <1> HIDE DEF rows, after
  <1> QED BY <1>2, <1>3, <1>4, <1>5, <1>8, <1>9, <1>10 DEF OwedIsAhead

\* Every other step leaves what is owed where it is, or moves it back.
LEMMA OwedStep ==
  ASSUME AttestationsAssumption, IsFiniteSet(Executions), FewExecutions,
         EvidenceTypeOK, RowsAreStamped, OwedIsAhead, [EvidenceNext]_evidenceVars
  PROVE  OwedIsAhead'
  <1>1. /\ RowsAreStamped' /\ table \subseteq table'
        /\ \A b \in table : signedAt'[b] = signedAt[b]
    BY RowsStep
  <1>2. walk \in Walks
    BY DEF EvidenceTypeOK
  <1>3. CASE walk' = walk
    <2>1. Filed \subseteq Filed' /\ Filed \subseteq table
      BY <1>1, <1>3 DEF Filed, Matching, RepoExecutions, InRepo
    <2>2. ASSUME walk.at \in {"ids", "page"}, NEW a \in walk.due \ walk.got
          PROVE  Rank(a)' >= From(walk.page)
      <3>1. a \in table /\ Rank(a) >= From(walk.page)
        BY <2>1, <2>2 DEF OwedIsAhead
      <3>2. Rank(a)' \in Nat /\ Rank(a) \in Nat /\ Rank(a)' >= Rank(a)
        BY <1>1, <1>3, <3>1, RanksGrow DEF RowsAreStamped
      <3>3. From(walk.page) \in Nat
        BY <1>2, FromNext DEF Walks, OwedIsAhead
      <3> QED BY <3>1, <3>2, <3>3
    <2> QED BY <1>3, <2>1, <2>2 DEF OwedIsAhead
  <1>4. ASSUME NEW repo \in Repos \cup {AnyRepo}, StartWalk(repo) PROVE OwedIsAhead'
    <2> DEFINE due == Matching({e \in Executions : InRepo(e, repo)})
    <2>1. /\ walk.at = "idle" /\ UNCHANGED <<table, signedAt>>
          /\ walk' = [walk EXCEPT !.at = "ids", !.repo = repo, !.due = due]
      BY <1>4 DEF StartWalk, signing
    <2>2. /\ walk'.at = "ids" /\ walk'.due = due /\ walk'.repo = repo
          /\ walk'.page = walk.page /\ walk'.got = walk.got
      BY <1>2, <2>1 DEF Walks
    <2>3. Filed' = due
      BY <2>1, <2>2 DEF Filed, Matching, RepoExecutions, InRepo
    <2>4. walk.page = 1
      BY <2>1 DEF OwedIsAhead
    <2>5. ASSUME NEW a \in due PROVE Rank(a)' >= From(1)
      <3>1. IsFiniteSet({b \in Filed' : signedAt'[b] > signedAt'[a]})
        BY <1>1, <2>1, <2>3, FS_Subset DEF RowsAreStamped, Matching
      <3>2. Rank(a)' \in Nat
        BY <3>1, FS_CardinalityType DEF Rank
      <3>3. From(1) = 0
        BY <1>2, FromNext DEF Walks, OwedIsAhead
      <3> QED BY <3>2, <3>3
    <2> HIDE DEF due
    <2> QED BY <2>2, <2>3, <2>4, <2>5 DEF OwedIsAhead
  <1>5. CASE LookUpIds
    <2>1. PICK E \in IdsFor(walk.repo) : walk' = [walk EXCEPT !.at = "page", !.ids = E]
      BY <1>5 DEF LookUpIds
    <2>2. /\ walk'.at = "page" /\ walk'.ids = E /\ walk'.repo = walk.repo
          /\ walk'.page = walk.page /\ walk'.got = walk.got /\ walk'.due = walk.due
          /\ walk.at = "ids" /\ walk.repo \in Repos \cup {AnyRepo}
      BY <1>2, <1>5, <2>1 DEF Walks, LookUpIds
    <2>3. UNCHANGED <<table, signedAt>>
      BY <1>5 DEF LookUpIds, signing
    <2>4. E = RepoExecutions(walk.repo)
      BY <2>2, AllIdsFound
    <2>5. Filed' = Filed /\ \A a : Rank(a)' = Rank(a)
      BY <2>2, <2>3 DEF Filed, Matching, RepoExecutions, InRepo, Rank
    <2> QED BY <2>2, <2>4, <2>5 DEF OwedIsAhead, RepoExecutions, InRepo
  <1>6. CASE ReadPage
    BY <1>6, PageStep
  <1> QED BY <1>3, <1>4, <1>5, <1>6
        DEF EvidenceNext, evidenceVars, signing, Submit, TakeTime, InsertAttestation, GiveUp,
            FetchEntry, StartVerify, LookUpIndex

\* A client that pages to the end has seen every matching row that was there
\* when it began, whatever is inserted between its pages, for pages of any
\* size and any number of rows (attestation.go:231-302).
THEOREM CompletePages ==
  ASSUME AttestationsAssumption, IsFiniteSet(Executions)
  PROVE  EvidenceSpec => []PagesMissNothing
  <1>1. EvidenceInit => EvidenceInv /\ RowsAreStamped /\ OwedIsAhead
    <2> SUFFICES ASSUME EvidenceInit PROVE RowsAreStamped /\ OwedIsAhead
      BY EvidenceInitInv
    <2>1. RowsAreStamped
      BY FS_EmptySet DEF EvidenceInit, RowsAreStamped
    <2>2. OwedIsAhead
      BY DEF EvidenceInit, NoWalk, OwedIsAhead
    <2> QED BY <2>1, <2>2
  <1>2. EvidenceInv /\ PagesInv /\ [EvidenceNext]_evidenceVars => (EvidenceInv /\ PagesInv)'
    <2> SUFFICES ASSUME EvidenceInv, PagesInv, [EvidenceNext]_evidenceVars
                 PROVE  EvidenceInv' /\ PagesInv'
      OBVIOUS
    <2>1. EvidenceInv' /\ RowsAreStamped'
      BY EvidenceNextInv, RowsStep DEF EvidenceInv, PagesInv
    <2>2. FewExecutions' <=> FewExecutions
      BY DEF FewExecutions, RepoExecutions, InRepo
    <2>3. FewExecutions => OwedIsAhead'
      BY OwedStep DEF EvidenceInv, PagesInv
    <2> QED BY <2>1, <2>2, <2>3 DEF PagesInv
  <1>3. PagesInv => PagesMissNothing
    BY DEF PagesInv, OwedIsAhead, PagesMissNothing, FewExecutions, RepoExecutions
  <1>4. EvidenceInit => EvidenceInv /\ PagesInv
    BY <1>1 DEF PagesInv
  <1> QED BY <1>2, <1>3, <1>4, PTL DEF EvidenceSpec
=============================================================================
