------------------------------ MODULE QueuePage ------------------------------
(***************************************************************************)
(* A reviewer's queue page in front of the API of ReviewQueue.  The page   *)
(* shows the list it was answered last, sends an approval or a rejection   *)
(* when a button is clicked, disables an item's buttons meanwhile, and     *)
(* removes the item when the answer is good.  Lists are asked for when the *)
(* page opens, when the session gets another token, at every focus of its  *)
(* window and on demand; nothing orders their answers, and any answer may  *)
(* be lost while the API goes on.  A token of unexpected length counts as  *)
(* none: the page then empties itself instead of asking.                   *)
(***************************************************************************)
EXTENDS ReviewQueue

CONSTANTS
  Own,       \* requests the page may send; the others come from elsewhere
  Lists,     \* list requests of the page
  MaxLost    \* bound: answers that are lost

VARIABLES
  token,     \* accessToken: does the session have a token that the page uses?
  shown,     \* the items it shows
  listed,    \* history: the items of the list that was shown last, and is not
             \* cleared away
  busy,      \* pendingActionByID: the items whose buttons are disabled
  clicked,   \* approvals and rejections the page has sent
  told,      \* those it has an outcome of
  lost,      \* those whose answer was lost
  list,      \* list[l]: where a list request is: none, sent, read, built, shown,
             \* shown and cleared away since, or failed
  rows,      \* rows[l]: what the API read for it
  loading, failed   \* what the page says: still loading, an error message

page     == <<token, shown, listed, busy, clicked, told, lost, list, rows, loading, failed>>
pageVars == <<vars, page>>

PageInit ==
  /\ Init
  /\ token \in BOOLEAN
  /\ shown = {} /\ listed = {} /\ busy = {}
  /\ clicked = {} /\ told = {} /\ lost = {}
  /\ list = [l \in Lists |-> "none"] /\ rows = [l \in Lists |-> {}]
  /\ loading = TRUE /\ failed = FALSE

-----------------------------------------------------------------------------
(* Lists.                                                                  *)

\* Mutant of Start: the page keeps what it says while it loads.
StartQuietly == UNCHANGED loading /\ failed' = FALSE

Start == loading' = TRUE /\ failed' = FALSE

\* A list that nobody asked for yet goes to the API.
Send(l) ==
  /\ list[l] = "none"
  /\ list' = [list EXCEPT ![l] = "sent"]
  /\ Start
  /\ UNCHANGED <<vars, shown, listed, busy, clicked, told, lost, rows>>

\* fetchQueue with a token, and without one: it clears the items, ends the
\* loading and says nothing.
AskList(l) == token /\ Send(l) /\ UNCHANGED token

Clear ==
  /\ shown' = {} /\ listed' = {}
  /\ list' = [l \in Lists |-> IF list[l] = "shown" THEN "cleared" ELSE list[l]]
  /\ loading' = FALSE
  /\ UNCHANGED <<vars, busy, clicked, told, lost, rows, failed>>

AskInVain == ~token /\ Clear /\ UNCHANGED token

\* The session gets another token, which the page uses or not: either way the
\* effect calls fetchQueue.
GetToken(l) == token' = TRUE /\ Send(l)
LoseToken   == token /\ token' = FALSE /\ Clear

PendingRows == {i \in Items : status[i] = "pending"}

\* fetchQueueRows of the API.
ReadList(l) ==
  /\ list[l] = "sent"
  /\ list' = [list EXCEPT ![l] = "read"]
  /\ rows' = [rows EXCEPT ![l] = PendingRows]
  /\ UNCHANGED <<vars, token, shown, listed, busy, clicked, told, lost, loading, failed>>

\* buildQueueResponses looks up executions, bots and repositories afterwards.
BuildList(l) ==
  /\ list[l] = "read" /\ (ContextLoads \/ rows[l] = {})
  /\ list' = [list EXCEPT ![l] = "built"]
  /\ UNCHANGED <<vars, token, shown, listed, busy, clicked, told, lost, rows, loading, failed>>

ShowList(l) ==
  /\ list[l] = "built"
  /\ list' = [list EXCEPT ![l] = "shown"]
  /\ shown' = rows[l] /\ listed' = rows[l]
  /\ loading' = FALSE
  /\ UNCHANGED <<vars, token, busy, clicked, told, lost, rows, failed>>

\* Whatever goes wrong, at the API or on the way, what is shown stays.
ListFails(l) ==
  /\ list[l] \in {"sent", "read", "built"}
  /\ list' = [list EXCEPT ![l] = "failed"]
  /\ loading' = FALSE /\ failed' = TRUE
  /\ UNCHANGED <<vars, token, shown, listed, busy, clicked, told, lost, rows>>

-----------------------------------------------------------------------------
(* Decisions.                                                              *)

\* Mutant of Enabled: the buttons stay enabled.
AlwaysEnabled(i) == i \in shown /\ ~loading

Enabled(i) == i \in shown \ busy /\ ~loading

\* Without a token a click says that the session expired, and does no more.
Click(q) ==
  /\ token /\ q \notin clicked /\ Enabled(ItemOf[q])
  /\ clicked' = clicked \cup {q}
  /\ busy' = busy \cup {ItemOf[q]}
  /\ UNCHANGED <<vars, token, shown, listed, told, lost, list, rows, loading, failed>>

\* The API at work for the page, and for somebody else.
Serve(q) ==
  /\ q \in clicked
  /\ Fetch(q) \/ Process(q)
  /\ UNCHANGED page

ServeOthers(q) == (Fetch(q) \/ Process(q)) /\ UNCHANGED page

\* What is shown after an answer.
After(q) == IF answer[q] = "ok" THEN shown \ {ItemOf[q]} ELSE shown

\* The buttons that are disabled after an answer.
Release(q) == busy \ {ItemOf[q]}

\* The answer arrives; a stop of the API is no answer, and an error here.
Answered(q) ==
  /\ q \in clicked \ told /\ pc[q] = "end"
  /\ told' = told \cup {q}
  /\ shown' = After(q) /\ busy' = Release(q)
  /\ UNCHANGED <<vars, token, listed, clicked, lost, list, rows, loading, failed>>

\* The answer is lost, before the API is done or after.
LoseAnswer(q) ==
  /\ q \in clicked \ told /\ Cardinality(lost) < MaxLost
  /\ told' = told \cup {q} /\ lost' = lost \cup {q}
  /\ busy' = Release(q)
  /\ UNCHANGED <<vars, token, shown, listed, clicked, list, rows, loading, failed>>

-----------------------------------------------------------------------------
PageNext ==
  \/ \E l \in Lists :
       \/ AskList(l) \/ GetToken(l)
       \/ ReadList(l) \/ BuildList(l) \/ ShowList(l) \/ ListFails(l)
  \/ LoseToken \/ AskInVain
  \/ \E q \in Own : Click(q) \/ Serve(q) \/ Answered(q) \/ LoseAnswer(q)
  \/ \E q \in Requests \ Own : ServeOthers(q)
  \/ Stop /\ UNCHANGED page

PageSpec == PageInit /\ [][PageNext]_pageVars

-----------------------------------------------------------------------------
(* Properties.                                                             *)

\* Nobody but this page has asked for a decision on item i, and no answer
\* about it was lost.
OnlyHere(i) ==
  /\ \A q \in Requests : ItemOf[q] = i /\ pc[q] # "idle" => q \in clicked
  /\ \A q \in lost : ItemOf[q] # i

\* The API would let a second decision overwrite a first one that it races
\* with, and a list that was read before a decision brings the item back after
\* it: yet one page does not decide an item twice, whatever others decide
\* about other items meanwhile, unless an answer about it was lost
\* (QueuePage.tsx:155, 271-294, review_queue.go:214).
PageDecidesOnce ==
  [][\A i \in Items : status[i] # "pending" /\ OnlyHere(i) => status'[i] = status[i]]_pageVars

\* While it has a token, and unless it says that it is loading or that
\* something went wrong, the page shows a list that was answered since it was
\* last empty for want of a token, however tokens change and the answers of
\* several requests overlap; and whatever fails, an item of that list is shown
\* until it is decided, here or elsewhere.  So "the network is clean" is true of
\* it then; without a token it says that with nothing behind it
\* (QueuePage.tsx:100-127, 167-180, 252-256).
NothingHidden ==
  /\ token /\ ~loading /\ ~failed => \E l \in Lists : list[l] = "shown"
  /\ \A i \in listed : status[i] = "pending" => i \in shown
=============================================================================
