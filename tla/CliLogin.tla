------------------------------ MODULE CliLogin ------------------------------
(***************************************************************************)
(* `recos login`: a run of it opens a browser window on GitHub, then waits *)
(* at a fixed local port for the window to bring a code and the state the  *)
(* run made, has the API exchange the code, and keeps the session in the   *)
(* keychain.  All runs on a machine share the port and the keychain entry, *)
(* and connections are handled one at a time, in the order they came in.   *)
(***************************************************************************)
EXTENDS Naturals, Sequences

CONSTANTS
  Logins,      \* runs of `recos login` on one machine
  MaxStrays    \* bound: connections that bring nothing at first

VARIABLES
  loginPc,        \* where a run is
  window,    \* its browser window
  late,      \* the 120 seconds since it listens are over
  backlog,   \* connections at the port: the login whose window calls back, or
             \* "silent" (so far), "closed", "reset", "other" (without a code)
  got,       \* whose window's code and state the run was brought
  keychain,  \* whose window's code the stored session came from, and by whom
  strays

loginVars == <<loginPc, window, late, backlog, got, keychain, strays>>

Silences  == {"silent", "closed", "reset", "other"}
Nobody    == [by |-> "nobody", code |-> "nobody"]
Listening == {l \in Logins : loginPc[l] \in {"check", "accept", "read"}}

LoginPoints == {"idle", "bind", "check", "accept", "read", "compare", "exchange", "store", "ok",
           "error"}

LoginTypeOK ==
  /\ loginPc \in [Logins -> LoginPoints]
  /\ window \in [Logins -> {"none", "open", "called"}]
  /\ late \in [Logins -> BOOLEAN]
  /\ backlog \in Seq(Logins \cup Silences) /\ (backlog # <<>> => Listening # {})
  /\ got \in [Logins -> Logins \cup {"nobody"}]
  /\ keychain \in {Nobody} \cup [by : Logins, code : Logins]
  /\ strays \in 0 .. MaxStrays

LoginInit ==
  /\ loginPc = [l \in Logins |-> "idle"] /\ window = [l \in Logins |-> "none"]
  /\ late = [l \in Logins |-> FALSE] /\ got = [l \in Logins |-> "nobody"]
  /\ backlog = <<>> /\ keychain = Nobody /\ strays = 0

LoginGoto(l, point) == loginPc' = [loginPc EXCEPT ![l] = point]

-----------------------------------------------------------------------------
(* The command.                                                            *)

\* The window is opened before the port is taken.
OpenWindow(l) ==
  /\ loginPc[l] = "idle"
  /\ \/ LoginGoto(l, "bind") /\ window' = [window EXCEPT ![l] = "open"]
     \/ LoginGoto(l, "error") /\ UNCHANGED window
  /\ UNCHANGED <<late, backlog, got, keychain, strays>>

Bind(l) ==
  /\ loginPc[l] = "bind"
  /\ LoginGoto(l, IF Listening = {} THEN "check" ELSE "error")
  /\ UNCHANGED <<window, late, backlog, got, keychain, strays>>

\* The time limit is looked at between two connections only, so a run that
\* nothing connects to waits beyond it.  When the wait ends,
\* the port is closed, and with it whatever else has connected.
CheckTime(l) ==
  /\ loginPc[l] = "check"
  /\ \/ ~late[l] /\ LoginGoto(l, "accept") /\ UNCHANGED backlog
     \/ late[l] /\ LoginGoto(l, "error") /\ backlog' = <<>>
  /\ UNCHANGED <<window, late, got, keychain, strays>>

\* accept blocks until there is a connection.
Accept(l) ==
  /\ loginPc[l] = "accept" /\ backlog # <<>>
  /\ LoginGoto(l, "read")
  /\ UNCHANGED <<window, late, backlog, got, keychain, strays>>

\* Mutant of Read: the answer goes out and the loop waits for the next one.
ReadOn(l) ==
  /\ loginPc[l] = "read" /\ Head(backlog) # "silent"
  /\ LoginGoto(l, "check") /\ backlog' = Tail(backlog)
  /\ UNCHANGED <<window, late, got, keychain, strays>>

\* read blocks while nothing is sent.  A code and a state end the wait; what
\* brings neither is answered 400, and a broken connection is an error.
Read(l) ==
  /\ loginPc[l] = "read"
  /\ LET said == Head(backlog) IN
     \/ /\ said \in Logins /\ got' = [got EXCEPT ![l] = said]
        /\ LoginGoto(l, "compare") /\ backlog' = <<>>
     \/ /\ said \in {"closed", "other"} /\ UNCHANGED got
        /\ LoginGoto(l, "check") /\ backlog' = Tail(backlog)
     \/ said = "reset" /\ LoginGoto(l, "error") /\ backlog' = <<>> /\ UNCHANGED got
  /\ UNCHANGED <<window, late, keychain, strays>>

\* Mutant of StateMatches: any state is taken.
AnyState(l) == got[l] \in Logins

StateMatches(l) == got[l] = l

Compare(l) ==
  /\ loginPc[l] = "compare"
  /\ LoginGoto(l, IF StateMatches(l) THEN "exchange" ELSE "error")
  /\ UNCHANGED <<window, late, backlog, got, keychain, strays>>

Exchange(l) ==
  /\ loginPc[l] = "exchange"
  /\ LoginGoto(l, "store") \/ LoginGoto(l, "error")
  /\ UNCHANGED <<window, late, backlog, got, keychain, strays>>

Store(l) ==
  /\ loginPc[l] = "store"
  /\ \/ LoginGoto(l, "ok") /\ keychain' = [by |-> l, code |-> got[l]]
     \/ LoginGoto(l, "error") /\ UNCHANGED keychain
  /\ UNCHANGED <<window, late, backlog, got, strays>>

-----------------------------------------------------------------------------
(* Browsers and the clock.                                                 *)

\* GitHub sends a window to the port, whoever listens there; with nobody
\* there, it may be tried again.
CallBack(l) ==
  /\ window[l] = "open" /\ Listening # {}
  /\ window' = [window EXCEPT ![l] = "called"]
  /\ backlog' = Append(backlog, l)
  /\ UNCHANGED <<loginPc, late, got, keychain, strays>>

\* A connection without a request yet, as browsers open them ahead of need.
Connect ==
  /\ strays < MaxStrays /\ Listening # {}
  /\ strays' = strays + 1
  /\ backlog' = Append(backlog, "silent")
  /\ UNCHANGED <<loginPc, window, late, got, keychain>>

\* What becomes of it.
Speak(n) ==
  /\ n \in DOMAIN backlog /\ backlog[n] = "silent"
  /\ \/ \E said \in Silences \ {"silent"} :
          backlog' = [backlog EXCEPT ![n] = said] /\ UNCHANGED window
     \/ \E l \in Logins : /\ window[l] = "open"
                          /\ window' = [window EXCEPT ![l] = "called"]
                          /\ backlog' = [backlog EXCEPT ![n] = l]
  /\ UNCHANGED <<loginPc, late, got, keychain, strays>>

TimePasses(l) ==
  /\ l \in Listening /\ ~late[l]
  /\ late' = [late EXCEPT ![l] = TRUE]
  /\ UNCHANGED <<loginPc, window, backlog, got, keychain, strays>>

-----------------------------------------------------------------------------
LoginStep(l) ==
  \/ Bind(l) \/ CheckTime(l) \/ Accept(l) \/ Read(l) \/ Compare(l) \/ Exchange(l) \/ Store(l)

LoginNext ==
  \/ \E l \in Logins : OpenWindow(l) \/ LoginStep(l) \/ CallBack(l) \/ TimePasses(l)
  \/ Connect \/ \E n \in DOMAIN backlog : Speak(n)

LoginSpec == LoginInit /\ [][LoginNext]_loginVars

\* The command goes on where nothing blocks it; nobody is obliged to start a
\* login or to finish it in the browser, and no time limit is relied on.
FairLoginSpec == LoginSpec /\ \A l \in Logins : WF_loginVars(LoginStep(l))

-----------------------------------------------------------------------------
(* Properties.                                                             *)

\* The stored session is the one that the window of its own run asked for,
\* although every run's window calls at the same port (auth.rs:62-69).
SessionIsOwn == keychain.by = keychain.code

\* A run that was called back ends, unless a connection that says nothing is
\* in front (auth.rs:93-126).
CalledBackEnds ==
  \A l \in Logins :
    l \in Listening /\ (\E n \in DOMAIN backlog :
        backlog[n] \in Logins /\ \A m \in 1 .. n : backlog[m] # "silent")
      ~> l \notin Listening
=============================================================================
