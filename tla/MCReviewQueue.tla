--------------------------- MODULE MCReviewQueue ---------------------------
(* Two approvals and a rejection of one item, an approval of another whose  *)
(* diff the PR service does not take.                                       *)
EXTENDS ReviewQueue, TLC

CONSTANTS i1, i2, e1, e2, a1, a2, a3, j1

MCExecutionOf == i1 :> e1 @@ i2 :> e2
MCItemOf      == [q \in Approvals \cup Rejections |-> IF q = a3 THEN i2 ELSE i1]
=============================================================================
