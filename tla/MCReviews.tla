----------------------------- MODULE MCReviews -----------------------------
(***************************************************************************)
(* What people do in front of the API, in one run: racing decisions that   *)
(* come from anywhere (ReviewQueue, by way of MCReviewQueue), the          *)
(* decisions of one page, with its lists, among those of others            *)
(* (QueuePage), and `recos login` (CliLogin).  A behaviour is one of the   *)
(* three at work while the others stay as they are.                        *)
(***************************************************************************)
EXTENDS MCReviewQueue, QueuePage, CliLogin

CONSTANTS l1, l2

VARIABLE part   \* which of the three is at work

\* A page without a token matters to its own part only.  How an execution ended
\* decides nothing that a request does: it varies for one of them, in one part.
ReviewsInit ==
  /\ part \in {"anywhere", "page", "login"}
  /\ PageInit
  /\ execStatus[e2] = "completed" /\ (part # "anywhere" => execStatus[e1] = "completed")
  /\ (part # "page" => token)
  /\ LoginInit

\* Bound of the page's part: one failed call; and one request of others, then
\* without a failed call or a stop and with one list.  While the page has no
\* token, none of these has happened yet.
PageBound ==
  /\ Cardinality(hurt) <= 1
  /\ \E q \in {a2, a3} :
       /\ pc[q] = "idle"
       /\ \A r \in {a2, a3} \ {q} : pc[r] # "idle" =>
            token /\ hurt = {} /\ stops = 0 /\ list[l2] = "none"
  /\ token \/ (hurt = {} /\ stops = 0)

ReviewsNext ==
  \/ part = "anywhere" /\ Next /\ UNCHANGED <<part, page, loginVars>>
  \/ part = "page" /\ PageNext /\ PageBound' /\ UNCHANGED <<part, loginVars>>
  \/ part = "login" /\ LoginNext /\ UNCHANGED <<part, pageVars>>

\* The fairness of the API's requests and of the command.
ReviewsSpec ==
  /\ ReviewsInit /\ [][ReviewsNext]_<<part, pageVars, loginVars>>
  /\ \A q \in Requests : WF_vars(Process(q))
  /\ \A l \in Logins : WF_loginVars(LoginStep(l))
=============================================================================
