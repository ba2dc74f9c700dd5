------------------------- MODULE ExecutionLifecycle -------------------------
(***************************************************************************)
(* What the platform promises about one execution row, whoever works on    *)
(* it: it is queued once, taken up once, its bot is started at most once,  *)
(* it gets one verdict, and only a reviewer changes that verdict, for      *)
(* good.                                                                   *)
(***************************************************************************)
EXTENDS Naturals

CONSTANT Items   \* executions

VARIABLES
  state,   \* the status of every execution
  runs     \* how many times its bot was started

vars == <<state, runs>>

Init ==
  /\ state = [e \in Items |-> "absent"]
  /\ runs = [e \in Items |-> 0]

Move(e, from, to) ==
  /\ state[e] \in from
  /\ state' = [state EXCEPT ![e] = to]
  /\ UNCHANGED runs

Enqueue(e)   == Move(e, {"absent"}, "queued")
TakeUp(e)    == Move(e, {"queued"}, "running")
Fail(e)      == Move(e, {"running"}, "failed")
Complete(e)  == runs[e] = 1 /\ Move(e, {"running"}, "completed")
TurnDown(e)  == Move(e, {"completed", "failed"}, "rejected")

Start(e) ==
  /\ state[e] = "running" /\ runs[e] = 0
  /\ runs' = [runs EXCEPT ![e] = 1]
  /\ UNCHANGED state

Next == \E e \in Items :
  Enqueue(e) \/ TakeUp(e) \/ Start(e) \/ Fail(e) \/ Complete(e) \/ TurnDown(e)

Spec == Init /\ [][Next]_vars
=============================================================================
