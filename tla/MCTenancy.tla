----------------------------- MODULE MCTenancy -----------------------------
(* Two logins of one user race, with two deliveries of an installation that *)
(* may move between that user's account and a seeded one.                   *)
EXTENDS Tenancy, TLC

CONSTANTS l1, l2, w1, w2, u1, i1, acme, beta

MCUserOf         == [l \in Logins |-> u1]
MCLoginName      == u1 :> acme
MCInstallationOf == [w \in Sends |-> i1]
MCSeeded         == <<beta>>
=============================================================================
