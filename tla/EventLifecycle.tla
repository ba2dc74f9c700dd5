--------------------------- MODULE EventLifecycle ---------------------------
(***************************************************************************)
(* What the platform promises about an event, whoever dispatches it: until *)
(* it is processed, executions may be created for the bots it is for, and  *)
(* for no others; processed it stays, and nothing more comes of it.        *)
(***************************************************************************)
EXTENDS Naturals

CONSTANTS
  Items,     \* events
  Targets,   \* bots
  For        \* the bots an event is for

VARIABLES
  known,     \* events 1..known have been received
  settled,   \* which events are processed
  created    \* executions created for an event and a bot

vars == <<known, settled, created>>

Init ==
  /\ known = 0
  /\ settled = [ev \in Items |-> FALSE]
  /\ created = [ev \in Items |-> [b \in Targets |-> 0]]

Receive == known' = known + 1 /\ UNCHANGED <<settled, created>>

Create(ev, b) ==
  /\ ev <= known /\ ~settled[ev] /\ b \in For[ev]
  /\ created' = [created EXCEPT ![ev][b] = @ + 1]
  /\ UNCHANGED <<known, settled>>

Settle(ev) ==
  /\ ev <= known
  /\ settled' = [settled EXCEPT ![ev] = TRUE]
  /\ UNCHANGED <<known, created>>

Next ==
  \/ Receive
  \/ \E ev \in Items : Settle(ev) \/ \E b \in Targets : Create(ev, b)

Spec == Init /\ [][Next]_vars
=============================================================================
