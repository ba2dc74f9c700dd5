---------------------------- MODULE AdvisoryLock ----------------------------
(***************************************************************************)
(* One Postgres session-level advisory lock, as the runtime reaches it:    *)
(* store.TryLock and store.Unlock post to two stored procedures through a  *)
(* REST gateway that runs each request on one of its database sessions.    *)
(* The lock belongs to the SESSION, not to the runtime that asked for it:  *)
(* taking it again on the session that holds it succeeds and deepens the   *)
(* hold, releasing it on another session does nothing, and it goes away    *)
(* when the session is closed.                                             *)
(***************************************************************************)
EXTENDS Naturals

CONSTANTS
  Runtimes,      \* runtime processes that ask for the lock
  Sessions,      \* database sessions of the gateway
  SessionsFor,   \* the sessions that may serve the requests of a runtime
  MaxHold        \* bound: how deep one session's hold may get

ASSUME LockAssumption ==
  /\ SessionsFor \in [Runtimes -> SUBSET Sessions]
  /\ \A r \in Runtimes : SessionsFor[r] # {}
  /\ MaxHold \in Nat \ {0}

VARIABLE held    \* held[s]: how many times session s has taken the lock

\* No session serves two runtimes.  A shared gateway does not give this; a
\* gateway (or a direct connection) per runtime does.
PrivateSessions ==
  \A r, q \in Runtimes : r # q => SessionsFor[r] \cap SessionsFor[q] = {}

LockTypeOK == held \in [Sessions -> Nat]

LockInit == held = [s \in Sessions |-> 0]

\* Mutant of Grantable: pg_try_advisory_lock_shared.
SharedGrantable(s) == s \in Sessions

Grantable(s) == \A t \in Sessions \ {s} : held[t] = 0

\* runtime_try_lock on session s, answering "granted" or not.
TryLockOn(s, granted) ==
  IF Grantable(s)
  THEN granted /\ held[s] < MaxHold /\ held' = [held EXCEPT ![s] = @ + 1]
  ELSE ~granted /\ UNCHANGED held

\* runtime_unlock on session s; pg_advisory_unlock answers false, and does
\* nothing, when s does not hold the lock.  The runtime ignores the answer.
UnlockOn(s) ==
  IF held[s] > 0 THEN held' = [held EXCEPT ![s] = @ - 1]
                 ELSE UNCHANGED held

\* The gateway closes a session (idle or maximal lifetime, lost connection).
CloseSession(s) ==
  /\ held[s] > 0
  /\ held' = [held EXCEPT ![s] = 0]

\* Postgres never lets two sessions hold the lock.
OneSessionHolds ==
  \A s, t \in Sessions : held[s] > 0 /\ held[t] > 0 => s = t
=============================================================================
