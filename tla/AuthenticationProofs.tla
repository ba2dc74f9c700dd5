------------------------- MODULE AuthenticationProofs -------------------------
(***************************************************************************)
(* Proofs about the two ends of an authenticated call: the API's cache of  *)
(* signing keys (KeySet), for any number of requests and of outages, and   *)
(* the CLI's login (CliLogin), for any number of runs of it on one machine *)
(* and of connections that bring nothing.                                  *)
(***************************************************************************)
EXTENDS KeySet, CliLogin, TLAPS

-----------------------------------------------------------------------------
(* The key set.                                                            *)

\* The cache holds what was fetched: one key set or none.
CachedIsFetched == fetches = IF cached THEN 1 ELSE 0

\* The write lock belongs to one request at most.
OneWriter == \A p, q \in writers : p = q

\* Whoever fetches has seen the cache empty, and it has stayed empty.
FetchingFindsNone == \A q \in Requests : keyPc[q] = "fetch" => ~cached

KeySetInv ==
  KeyTypeOK /\ OneWriter /\ CachedIsFetched /\ FetchingFindsNone /\ RefusedOnOwnFailure

-----------------------------------------------------------------------------

\* The invariant holds before the first request.
LEMMA KeySetInit == KeyInit => KeySetInv
  <1> SUFFICES ASSUME KeyInit PROVE KeySetInv
    OBVIOUS
  <1>1. KeyTypeOK
    BY DEF KeyInit, KeyTypeOK, KeyPoints
  <1>2. OneWriter
    BY DEF KeyInit, OneWriter
  <1>3. CachedIsFetched
    BY DEF KeyInit, CachedIsFetched
  <1>4. FetchingFindsNone /\ RefusedOnOwnFailure
    BY DEF KeyInit, FetchingFindsNone, RefusedOnOwnFailure
  <1>5. QED
    BY <1>1, <1>2, <1>3, <1>4 DEF KeySetInv

\* Every step of a request keeps it: the fetch and the second look happen
\* under the write lock, which keeps the others from both.
LEMMA KeySetRequestStep ==
  ASSUME KeySetInv, NEW q \in Requests, KeyStep(q)
  PROVE  KeySetInv'
  <1> USE DEF KeySetInv, KeyTypeOK, OneWriter, CachedIsFetched, FetchingFindsNone,
              RefusedOnOwnFailure, KeyPoints, KeyGoto
  <1>1. CASE ReadLock(q)
    BY <1>1 DEF ReadLock, RLock
  <1>2. CASE Look(q)
    BY <1>2 DEF Look, RUnlock
  <1>3. CASE Announce(q)
    BY <1>3 DEF Announce, Ask
  <1>4. CASE WriteLock(q)
    BY <1>4 DEF WriteLock, WLock
  <1>5. CASE Check(q)
    BY <1>5 DEF Check, AfterMiss, WUnlock
  <1>6. CASE FetchKeys(q)
    <2>1. /\ keyPc[q] = "fetch" /\ ~cached /\ fetches = 0
          /\ writers = {q} /\ writers' = {}
          /\ readers' = readers /\ waiting' = waiting
          /\ serving' = serving /\ outages' = outages
      BY <1>6 DEF FetchKeys, WUnlock
    <2>2. CASE /\ cached' = TRUE /\ fetches' = fetches + 1
               /\ keyPc' = [keyPc EXCEPT ![q] = "keys"] /\ tried' = tried
      <3>1. KeyTypeOK'
        BY <2>1, <2>2
      <3>2. OneWriter' /\ FetchingFindsNone' /\ RefusedOnOwnFailure'
        BY <2>1, <2>2
      <3>3. CachedIsFetched'
        BY <2>1, <2>2
      <3>4. QED
        BY <3>1, <3>2, <3>3
    <2>3. CASE /\ tried' = tried \cup {q} /\ keyPc' = [keyPc EXCEPT ![q] = "refused"]
               /\ cached' = cached /\ fetches' = fetches
      <3>1. KeyTypeOK'
        BY <2>1, <2>3
      <3>2. OneWriter' /\ FetchingFindsNone' /\ RefusedOnOwnFailure'
        BY <2>1, <2>3
      <3>3. CachedIsFetched'
        BY <2>1, <2>3
      <3>4. QED
        BY <3>1, <3>2, <3>3
    <2>4. QED
      BY <1>6, <2>2, <2>3 DEF FetchKeys
  <1>7. QED
    BY <1>1, <1>2, <1>3, <1>4, <1>5, <1>6 DEF KeyStep

\* So does every step.
LEMMA KeySetNext == KeySetInv /\ [KeyNext]_keyVars => KeySetInv'
  <1> SUFFICES ASSUME KeySetInv, [KeyNext]_keyVars PROVE KeySetInv'
    OBVIOUS
  <1> USE DEF KeySetInv, KeyTypeOK, OneWriter, CachedIsFetched, FetchingFindsNone,
              RefusedOnOwnFailure
  <1>1. ASSUME NEW q \in Requests, KeyStep(q) PROVE KeySetInv'
    BY <1>1, KeySetRequestStep
  <1>2. CASE KeysGoDown
    <2>1. UNCHANGED <<cached, readers, writers, waiting, fetches, tried, keyPc>>
      BY <1>2 DEF KeysGoDown
    <2>2. serving' \in BOOLEAN
      BY <1>2, Zenon DEF KeysGoDown
    <2>3. outages' \in Nat
      <3>1. outages' = outages + 1
        BY <1>2, Zenon DEF KeysGoDown
      <3>2. QED
        BY <3>1
    <2>4. KeyTypeOK'
      BY <2>1, <2>2, <2>3
    <2>5. QED
      BY <2>1, <2>4
  <1>3. CASE KeysComeBack
    BY <1>3 DEF KeysComeBack
  <1>4. CASE UNCHANGED keyVars
    BY <1>4 DEF keyVars
  <1>5. QED
    BY <1>1, <1>2, <1>3, <1>4 DEF KeyNext

\* The cache's invariant: one key set, fetched by the holder of the lock.
THEOREM KeySetInvariance == KeySpec => []KeySetInv
  BY KeySetInit, KeySetNext, PTL DEF KeySpec

\* One key set is fetched and kept, however many first requests race
\* (middleware/auth.go:115-166).
THEOREM OneKeySet == KeySpec => []FetchedAtMostOnce
  <1>1. KeySetInv => FetchedAtMostOnce
    BY DEF KeySetInv, CachedIsFetched, FetchedAtMostOnce
  <1>2. QED
    BY <1>1, KeySetInvariance, PTL

\* A request is refused only for a failure of its own fetch: errors are not
\* kept (middleware/auth.go:158-161).
THEOREM ErrorsAreNotKept == KeySpec => []RefusedOnOwnFailure
  <1>1. KeySetInv => RefusedOnOwnFailure
    BY DEF KeySetInv
  <1>2. QED
    BY <1>1, KeySetInvariance, PTL

-----------------------------------------------------------------------------
(* The login.                                                              *)

\* A run that goes on to the exchange was brought its own window's code.
OwnCode == \A l \in Logins : loginPc[l] \in {"exchange", "store"} => got[l] = l

\* Types, one listener at the port, and a connection for whoever reads.
PortInv ==
  /\ LoginTypeOK
  /\ \A k, l \in Listening : k = l
  /\ \A l \in Logins : loginPc[l] = "read" => backlog # <<>>

LoginInv == PortInv /\ OwnCode /\ SessionIsOwn

-----------------------------------------------------------------------------

\* A run that moves on without listening leaves the port as it was.
LEMMA PortRests ==
  ASSUME PortInv, NEW l \in Logins, loginPc' \in [Logins -> LoginPoints],
         \A k \in Logins \ {l} : loginPc'[k] = loginPc[k],
         l \notin Listening, l \notin Listening', backlog' = backlog
  PROVE  /\ backlog' # <<>> => Listening' # {}
         /\ \A k, m \in Listening' : k = m
         /\ \A k \in Logins : loginPc'[k] = "read" => backlog' # <<>>
  BY DEF PortInv, LoginTypeOK, Listening

\* A listener that goes on listening keeps the port, and one that ends closes
\* it.
LEMMA PortMoves ==
  ASSUME PortInv, NEW l \in Listening, loginPc' \in [Logins -> LoginPoints],
         \A k \in Logins \ {l} : loginPc'[k] = loginPc[k],
         \/ l \in Listening' /\ (loginPc'[l] = "read" => backlog' # <<>>)
         \/ l \notin Listening' /\ backlog' = <<>>
  PROVE  /\ backlog' # <<>> => Listening' # {}
         /\ \A k, m \in Listening' : k = m
         /\ \A k \in Logins : loginPc'[k] = "read" => backlog' # <<>>
  BY DEF PortInv, LoginTypeOK, Listening

\* Every step of a run.
LEMMA LoginTypeStep ==
  ASSUME PortInv, OwnCode, NEW l \in Logins, OpenWindow(l) \/ LoginStep(l)
  PROVE  PortInv'
  <1> USE DEF LoginGoto
  <1>0. LoginTypeOK
    BY DEF PortInv
  <1>1. CASE OpenWindow(l) \/ Compare(l) \/ Exchange(l) \/ Store(l)
    <2>1. /\ loginPc' \in [Logins -> LoginPoints]
          /\ \A k \in Logins \ {l} : loginPc'[k] = loginPc[k]
          /\ l \notin Listening /\ l \notin Listening'
          /\ UNCHANGED <<late, backlog, got, strays>>
      BY <1>0, <1>1 DEF OpenWindow, Compare, Exchange, Store, LoginTypeOK, LoginPoints, Listening
    <2>2. /\ window' \in [Logins -> {"none", "open", "called"}]
          /\ keychain' \in {Nobody} \cup [by : Logins, code : Logins]
      BY <1>0, <1>1 DEF OpenWindow, Compare, Exchange, Store, LoginTypeOK, OwnCode
    <2> QED BY <1>0, <2>1, <2>2, PortRests DEF PortInv, LoginTypeOK
  <1>2. CASE Bind(l)
    <2>1. /\ loginPc' \in [Logins -> LoginPoints]
          /\ \A k \in Logins \ {l} : loginPc'[k] = loginPc[k]
          /\ l \notin Listening /\ loginPc'[l] \in {"check", "error"}
          /\ UNCHANGED <<window, late, backlog, got, keychain, strays>>
      BY <1>0, <1>2 DEF Bind, LoginTypeOK, LoginPoints, Listening
    <2>2. CASE loginPc'[l] = "error"
      BY <1>0, <2>1, <2>2, PortRests DEF PortInv, LoginTypeOK, Listening
    <2>3. CASE loginPc'[l] = "check"
      BY <1>0, <1>2, <2>1, <2>3 DEF Bind, PortInv, LoginTypeOK, Listening
    <2> QED BY <2>1, <2>2, <2>3
  <1>3. CASE CheckTime(l) \/ Accept(l) \/ Read(l)
    <2>1. /\ loginPc' \in [Logins -> LoginPoints]
          /\ \A k \in Logins \ {l} : loginPc'[k] = loginPc[k]
          /\ l \in Listening
          /\ UNCHANGED <<window, late, keychain, strays>>
      BY <1>0, <1>3 DEF CheckTime, Accept, Read, LoginTypeOK, LoginPoints, Listening
    <2>2. \/ l \in Listening' /\ (loginPc'[l] = "read" => backlog' # <<>>)
          \/ l \notin Listening' /\ backlog' = <<>>
      BY <1>0, <1>3 DEF CheckTime, Accept, Read, LoginTypeOK, Listening
    <2>3. backlog' \in Seq(Logins \cup Silences)
      <3>1. \/ backlog' = backlog
            \/ backlog' = <<>>
            \/ backlog # <<>> /\ backlog' = Tail(backlog)
        BY <1>3 DEF CheckTime, Accept, Read, PortInv
      <3>2. backlog \in Seq(Logins \cup Silences)
        BY <1>0 DEF LoginTypeOK
      <3>3. CASE backlog # <<>> /\ backlog' = Tail(backlog)
        BY <3>2, <3>3
      <3>4. <<>> \in Seq(Logins \cup Silences)
        OBVIOUS
      <3> QED BY <3>1, <3>2, <3>3, <3>4
    <2>4. got' \in [Logins -> Logins \cup {"nobody"}]
      BY <1>0, <1>3 DEF CheckTime, Accept, Read, LoginTypeOK
    <2> QED BY <1>0, <2>1, <2>2, <2>3, <2>4, PortMoves DEF PortInv, LoginTypeOK
  <1> QED BY <1>1, <1>2, <1>3 DEF LoginStep

\* Browsers add connections to an open port, and none of them goes away.
LEMMA BrowserTypeStep ==
  ASSUME PortInv, MaxStrays \in Nat,
         \/ \E l \in Logins : CallBack(l) \/ TimePasses(l)
         \/ Connect \/ \E n \in DOMAIN backlog : Speak(n)
  PROVE  PortInv'
  <1>0. LoginTypeOK
    BY DEF PortInv
  <1>1. loginPc' = loginPc /\ UNCHANGED <<got, keychain>> /\ Listening' = Listening
    BY DEF CallBack, TimePasses, Connect, Speak, Listening
  <1>2. /\ backlog' \in Seq(Logins \cup Silences)
        /\ backlog' = backlog \/ (Listening # {} /\ backlog' # <<>>)
    <2>1. backlog \in Seq(Logins \cup Silences)
      BY <1>0 DEF LoginTypeOK
    <2>2. ASSUME NEW x \in Logins \cup Silences, backlog' = Append(backlog, x), Listening # {}
          PROVE  backlog' \in Seq(Logins \cup Silences) /\ backlog' # <<>>
      BY <2>1, <2>2
    <2>3. ASSUME NEW n \in DOMAIN backlog, NEW x \in Logins \cup Silences,
                 backlog' = [backlog EXCEPT ![n] = x]
          PROVE  backlog' \in Seq(Logins \cup Silences) /\ backlog' # <<>> /\ Listening # {}
      <3>1. backlog # <<>> /\ Listening # {}
        BY <2>1, <1>0 DEF LoginTypeOK
      <3>2. backlog' \in Seq(Logins \cup Silences) /\ Len(backlog') = Len(backlog)
        BY <2>1, <2>3
      <3> QED BY <2>1, <3>1, <3>2
    <2>4. CASE \E l \in Logins : CallBack(l)
      BY <2>2, <2>4 DEF CallBack
    <2>5. CASE Connect
      BY <2>2, <2>5 DEF Connect, Silences
    <2>6. CASE \E n \in DOMAIN backlog : Speak(n)
      BY <2>3, <2>6 DEF Speak
    <2>7. CASE \E l \in Logins : TimePasses(l)
      BY <2>1, <2>7 DEF TimePasses
    <2> QED BY <2>4, <2>5, <2>6, <2>7
  <1>3. /\ window' \in [Logins -> {"none", "open", "called"}]
        /\ late' \in [Logins -> BOOLEAN] /\ strays' \in 0 .. MaxStrays
    <2>1. CASE \E l \in Logins : CallBack(l) \/ TimePasses(l)
      BY <1>0, <2>1 DEF CallBack, TimePasses, LoginTypeOK
    <2>2. CASE Connect
      BY <1>0, <2>2 DEF Connect, LoginTypeOK
    <2>3. CASE \E n \in DOMAIN backlog : Speak(n)
      BY <1>0, <2>3 DEF Speak, LoginTypeOK
    <2> QED BY <2>1, <2>2, <2>3
  <1> QED BY <1>0, <1>1, <1>2, <1>3 DEF PortInv, LoginTypeOK

\* Only the comparison leads to the exchange, and from there on the run keeps
\* the code it has.
LEMMA OwnCodeStep ==
  ASSUME LoginInv, [LoginNext]_loginVars
  PROVE  OwnCode' /\ SessionIsOwn'
  <1> USE DEF LoginInv, PortInv, LoginTypeOK, OwnCode, SessionIsOwn, LoginGoto
  <1>1. CASE \E l \in Logins : OpenWindow(l) \/ CallBack(l) \/ TimePasses(l)
    BY <1>1 DEF OpenWindow, CallBack, TimePasses
  <1>2. ASSUME NEW l \in Logins, LoginStep(l) PROVE OwnCode' /\ SessionIsOwn'
    BY <1>2 DEF LoginStep, Bind, CheckTime, Accept, Read, Compare, StateMatches, Exchange, Store
  <1>3. CASE Connect \/ \E n \in DOMAIN backlog : Speak(n)
    BY <1>3 DEF Connect, Speak
  <1>4. CASE UNCHANGED loginVars
    BY <1>4 DEF loginVars
  <1> QED BY <1>1, <1>2, <1>3, <1>4 DEF LoginNext

\* The inductive invariant of the runs of `recos login`.
THEOREM LoginInvariance ==
  ASSUME MaxStrays \in Nat PROVE LoginSpec => []LoginInv
  <1>1. LoginInit => LoginInv
    BY DEF LoginInit, LoginInv, PortInv, LoginTypeOK, OwnCode, SessionIsOwn, Nobody,
           LoginPoints, Listening
  <1>2. LoginInv /\ [LoginNext]_loginVars => LoginInv'
    <2> SUFFICES ASSUME LoginInv, [LoginNext]_loginVars PROVE PortInv'
      BY OwnCodeStep DEF LoginInv
    <2>1. CASE UNCHANGED loginVars
      BY <2>1 DEF loginVars, LoginInv, PortInv, LoginTypeOK, Listening
    <2> QED BY <2>1, LoginTypeStep, BrowserTypeStep DEF LoginNext, LoginInv
  <1> QED BY <1>1, <1>2, PTL DEF LoginSpec

\* The session that is stored came from the window of the run that stored it.
THEOREM OwnSession ==
  ASSUME MaxStrays \in Nat PROVE LoginSpec => []SessionIsOwn
  <1>1. LoginInv => SessionIsOwn
    BY DEF LoginInv
  <1> QED BY <1>1, LoginInvariance, PTL
=============================================================================
