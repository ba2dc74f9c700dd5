---------------------------- MODULE MCDispatcher ----------------------------
(* Two replicas, an organisation with a matching, an unsound and an          *)
(* uninterested bot.                                                         *)
EXTENDS Dispatcher, TLC

CONSTANTS r1, r2, s1, s2, b1, b2, b3

MCSessionsFor == r1 :> {s1} @@ r2 :> {s2}
MCEventType   == [ev \in 1 .. MaxEvents |-> IF ev = 3 THEN "installation" ELSE "push"]
MCInstalled   == [ev \in 1 .. MaxEvents |-> IF ev = 3 THEN {b1, b2} ELSE Bots]
MCTriggers    == b1 :> {"push", "installation"} @@ b2 :> {"push"} @@ b3 :> {"push"}
=============================================================================
