---------------------------- MODULE MCTriggerRun ----------------------------
(* Two runs of the CLI: of two bots, or of one. *)
EXTENDS TriggerRun, TLC

CONSTANTS c1, c2, t1, t2

OwnTargets == c1 :> t1 @@ c2 :> t2
OneTarget  == [c \in Clients |-> t1]
=============================================================================
