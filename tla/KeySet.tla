------------------------------- MODULE KeySet -------------------------------
(***************************************************************************)
(* The cache of Supabase's signing keys in front of every authenticated    *)
(* request: getOrInitJWKS, once in the JWT middleware and once, with a     *)
(* cache of its own, in the event stream.  Request goroutines look at the  *)
(* cache under the read lock; whoever misses takes the write lock, looks   *)
(* again, and fetches the keys while it holds the lock.                    *)
(***************************************************************************)
EXTENDS Naturals

CONSTANTS
  Requests,     \* request goroutines
  MaxOutages    \* bound: how often the key server goes down

VARIABLES
  cached,    \* the key set is in the cache
  readers,   \* holders of the read lock
  writers,   \* the holder of the write lock, if there is one
  waiting,   \* the writer that waits for the readers, if there is one
  serving,   \* the key server answers
  fetches,   \* history: key sets that were fetched
  tried,     \* history: requests whose own fetch failed
  keyPc, outages

keyVars == <<cached, readers, writers, waiting, serving, fetches, tried, keyPc, outages>>

KeyPoints == {"start", "look", "miss", "lock", "check", "fetch", "keys", "refused"}

\* Types, and who holds the lock where.
KeyTypeOK ==
  /\ \A q \in Requests :
       /\ q \in readers <=> keyPc[q] = "look"
       /\ q \in writers <=> keyPc[q] \in {"check", "fetch"}
  /\ cached \in BOOLEAN /\ serving \in BOOLEAN
  /\ readers \subseteq Requests /\ writers \subseteq Requests
  /\ waiting \subseteq Requests
  /\ fetches \in Nat /\ tried \subseteq Requests
  /\ keyPc \in [Requests -> KeyPoints] /\ outages \in Nat

KeyInit ==
  /\ cached = FALSE /\ serving = TRUE
  /\ readers = {} /\ writers = {} /\ waiting = {}
  /\ fetches = 0 /\ tried = {}
  /\ keyPc = [q \in Requests |-> "start"] /\ outages = 0

KeyGoto(q, point) == keyPc' = [keyPc EXCEPT ![q] = point]

-----------------------------------------------------------------------------
(* sync.RWMutex.                                                           *)

\* Writers come one at a time, and the one that waits for the readers keeps
\* new ones out.
RLock(q)   == writers = {} /\ waiting = {} /\ readers' = readers \cup {q}
RUnlock(q) == readers' = readers \ {q}

Ask(q)  == writers = {} /\ waiting = {} /\ waiting' = {q}
WLock(q) == writers = {} /\ readers = {} /\ writers' = {q} /\ waiting' = waiting \ {q}

\* Mutant of WUnlock: the early return forgets it.
NeverWUnlock(q) == q \in writers /\ UNCHANGED writers

WUnlock(q) == q \in writers /\ writers' = {}

-----------------------------------------------------------------------------
(* getOrInitJWKS.                                                          *)

ReadLock(q) ==
  /\ keyPc[q] = "start"
  /\ RLock(q) /\ KeyGoto(q, "look")
  /\ UNCHANGED <<cached, writers, waiting, serving, fetches, tried, outages>>

Look(q) ==
  /\ keyPc[q] = "look"
  /\ RUnlock(q) /\ KeyGoto(q, IF cached THEN "keys" ELSE "miss")
  /\ UNCHANGED <<cached, writers, waiting, serving, fetches, tried, outages>>

Announce(q) ==
  /\ keyPc[q] = "miss"
  /\ Ask(q) /\ KeyGoto(q, "lock")
  /\ UNCHANGED <<cached, readers, writers, serving, fetches, tried, outages>>

WriteLock(q) ==
  /\ keyPc[q] = "lock"
  /\ WLock(q) /\ KeyGoto(q, "check")
  /\ UNCHANGED <<cached, readers, serving, fetches, tried, outages>>

\* Mutants of AfterMiss: the second look at the cache is left out; an error
\* once remembered is answered again.
FetchAnyway == "fetch"
StickyError == IF cached THEN "keys" ELSE IF tried # {} THEN "refused" ELSE "fetch"

\* What the second look, under the write lock, leads to.
AfterMiss == IF cached THEN "keys" ELSE "fetch"

Check(q) ==
  /\ keyPc[q] = "check"
  /\ KeyGoto(q, AfterMiss)
  /\ IF AfterMiss = "fetch" THEN UNCHANGED writers ELSE WUnlock(q)
  /\ UNCHANGED <<cached, readers, waiting, serving, fetches, tried, outages>>

\* keyfunc.Get: an answer, or an error at the latest after 10 s; errors are
\* not cached.
FetchKeys(q) ==
  /\ keyPc[q] = "fetch"
  /\ \/ /\ serving /\ cached' = TRUE /\ fetches' = fetches + 1
        /\ KeyGoto(q, "keys") /\ UNCHANGED tried
     \/ /\ ~serving /\ tried' = tried \cup {q}
        /\ KeyGoto(q, "refused") /\ UNCHANGED <<cached, fetches>>
  /\ WUnlock(q)
  /\ UNCHANGED <<readers, waiting, serving, outages>>

KeysGoDown ==
  /\ serving /\ outages < MaxOutages
  /\ serving' = FALSE /\ outages' = outages + 1
  /\ UNCHANGED <<cached, readers, writers, waiting, fetches, tried, keyPc>>

KeysComeBack ==
  /\ ~serving /\ serving' = TRUE
  /\ UNCHANGED <<cached, readers, writers, waiting, fetches, tried, keyPc, outages>>

KeyStep(q) ==
  ReadLock(q) \/ Look(q) \/ Announce(q) \/ WriteLock(q) \/ Check(q) \/ FetchKeys(q)

KeyNext == (\E q \in Requests : KeyStep(q)) \/ KeysGoDown \/ KeysComeBack

KeySpec == KeyInit /\ [][KeyNext]_keyVars

\* A goroutine runs on; Go's mutexes hand over to whoever waits.
FairKeySpec == KeySpec /\ \A q \in Requests : SF_keyVars(KeyStep(q))

-----------------------------------------------------------------------------
(* Properties.                                                             *)

\* However many first requests race, one key set is fetched and kept, each
\* of which refreshes itself in the background for good
\* (middleware/auth.go:115-166, events_stream.go:217-255).
FetchedAtMostOnce == fetches <= 1

\* A request is refused for want of keys only when its own fetch failed: an
\* outage is over for the requests that come after it (auth.go:158-161).
RefusedOnOwnFailure ==
  \A q \in Requests : keyPc[q] = "refused" => q \in tried

\* Every request gets past the cache, with keys or without: nobody waits for
\* the lock for good, whoever held it while the key server was down.
EveryRequestGoesOn == <>(\A q \in Requests : keyPc[q] \in {"keys", "refused"})
=============================================================================
