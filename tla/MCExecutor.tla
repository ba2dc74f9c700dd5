----------------------------- MODULE MCExecutor -----------------------------
(* Two replicas, two rows, two database sessions. *)
EXTENDS ExecutorProperties, TLC

CONSTANTS r1, r2, s1, s2, e1, e2

\* A gateway, or a direct connection, per replica.
OwnSession == r1 :> s1 @@ r2 :> s2
MCPrivate  == [r \in {r1, r2} |-> {OwnSession[r]}]

\* The lock's guarantee rests on this.
ASSUME PrivateDeployment == PrivateSessions
=============================================================================
