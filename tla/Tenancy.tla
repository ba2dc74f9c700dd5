------------------------------ MODULE Tenancy ------------------------------
(***************************************************************************)
(* How the API learns who belongs to which organisation.  Two kinds of     *)
(* requests run concurrently: OAuth callbacks, which create the            *)
(* organisation of a GitHub login on demand and put the user into it, and  *)
(* webhook deliveries, answered at once and then worked on by a goroutine  *)
(* that resolves the organisation of the installation, caches the answer   *)
(* in github_installations and records the event.                          *)
(*                                                                         *)
(* Every request to the database or to GitHub is a step.  One of them may  *)
(* fail, or take effect and lose its answer (the request is then "hurt").  *)
(***************************************************************************)
EXTENDS Naturals, Sequences, FiniteSets

CONSTANTS
  Logins,        \* OAuth callbacks
  Sends,         \* webhook requests; GitHub's redelivery is a request of its own
  Users, UserOf, \* GitHub users, and whose callback a login is
  LoginName,     \* the GitHub login of a user
  Unsigned,      \* sends whose signature or body validation fails
  Ignored,       \* sends of other event types or without an installation id
  Installations,
  InstallationOf,\* the installation of a send
  Slugs,         \* GitHub account names
  Seeded,        \* accounts that already have an organisation
  MaxMishaps,    \* bound: requests that are hurt by a failed call
  MaxStops,      \* bound: crashes and restarts of the API
  MaxTransfers   \* bound: changes of an installation's account name

Workers == Logins \cup Sends

ASSUME TenancyAssumption ==
  /\ Logins \cap Sends = {}
  /\ UserOf \in [Logins -> Users] /\ LoginName \in [Users -> Slugs]
  /\ Unsigned \subseteq Sends /\ Ignored \subseteq Sends
  /\ InstallationOf \in [Sends -> Installations]
  /\ Seeded \in Seq(Slugs)
  /\ \A i, j \in DOMAIN Seeded : Seeded[i] = Seeded[j] => i = j
  /\ {MaxMishaps, MaxStops, MaxTransfers} \subseteq Nat

VARIABLES
  orgs,       \* the organisations' slugs; the id of a row is its position
  userOrg,    \* users.org_id (0: no row)
  mapping,    \* github_installations.org_id (0: no row)
  events,     \* event rows: the send they come from and their org_id
  account,    \* GitHub: the account an installation belongs to
  owners,     \* history: all accounts it has belonged to
  pc, slug, org,   \* where a request is, and its local variables
  tokens,     \* history: whose request got a token for which installation
  hurt,       \* history: requests that met a failed call or a crash
  stops, transfers

tables == <<orgs, userOrg, mapping, events>>
github == <<account, owners>>
budget == <<tokens, stops, transfers>>
vars   == <<tables, github, pc, slug, org, hurt, budget>>

Points == {"idle", "mapping", "github", "session", "org", "create", "select", "user",
           "upsert", "insert", "done", "failed", "ignored", "served", "denied",
           "tokened", "refused"}

\* The id of an organisation's row, or 0.
OrgId == 0 .. Len(orgs)

\* Types; every reference to an organisation has its row.
TypeOK ==
  /\ orgs \in Seq(Slugs)
  /\ userOrg \in [Users -> OrgId] /\ mapping \in [Installations -> OrgId]
  /\ events \subseteq [send : Sends, org : OrgId \ {0}]
  /\ account \in [Installations -> Slugs] /\ owners \in [Installations -> SUBSET Slugs]
  /\ pc \in [Workers -> Points]
  /\ slug \in [Workers -> Slugs] /\ org \in [Workers -> OrgId]
  /\ hurt \subseteq Workers /\ tokens \subseteq Logins \X Installations
  /\ stops \in 0 .. MaxStops /\ transfers \in 0 .. MaxTransfers

Init ==
  /\ orgs = Seeded
  /\ userOrg = [u \in Users |-> 0]
  /\ mapping = [i \in Installations |-> 0]
  /\ events = {}
  /\ account \in [Installations -> Slugs]
  /\ owners = [i \in Installations |-> {account[i]}]
  /\ pc = [w \in Workers |-> "idle"]
  /\ slug = [w \in Workers |-> CHOOSE s \in Slugs : TRUE]
  /\ org = [w \in Workers |-> 0]
  /\ hurt = {} /\ tokens = {}
  /\ stops = 0 /\ transfers = 0

Goto(w, point) == pc' = [pc EXCEPT ![w] = point]
Mishap(w) ==
  /\ w \notin hurt /\ Cardinality(hurt) < MaxMishaps
  /\ hurt' = hurt \cup {w}

\* Mutant of RowsOf: the filter on the slug is dropped.
AllRows(s) == {i \in DOMAIN orgs : s \in Slugs}

RowsOf(s) == {i \in DOMAIN orgs : orgs[i] = s}

\* SELECT id FROM orgs WHERE github_org_slug = slug[w], limited to one row.
FindOrg(w, found, missing) ==
  /\ \/ \E i \in RowsOf(slug[w]) :
          org' = [org EXCEPT ![w] = i] /\ Goto(w, found) /\ UNCHANGED hurt
     \/ /\ (RowsOf(slug[w]) = {} /\ UNCHANGED hurt) \/ Mishap(w)
        /\ Goto(w, missing) /\ UNCHANGED org
  /\ UNCHANGED <<tables, github, slug, budget>>

-----------------------------------------------------------------------------
(* The OAuth callback.                                                     *)

\* ExchangeOAuthCode and GetAuthenticatedUser; a failure ends the request.
SignIn(l) ==
  /\ pc[l] = "idle"
  /\ \/ Goto(l, "session") /\ UNCHANGED hurt
     \/ Mishap(l) /\ Goto(l, "failed")
  /\ slug' = [slug EXCEPT ![l] = LoginName[UserOf[l]]]
  /\ UNCHANGED <<tables, github, org, budget>>

\* issueSupabaseSessionForEmail: the tokens exist before the organisation and
\* the users row do; they are answered last.
IssueSession(l) ==
  /\ pc[l] = "session"
  /\ \/ Goto(l, "org") /\ UNCHANGED hurt
     \/ Mishap(l) /\ Goto(l, "failed")
  /\ UNCHANGED <<tables, github, slug, org, budget>>

\* ensureOrgForGitHubLogin: any error of the first lookup means "none yet".
FindOwnOrg(l)  == l \in Logins /\ pc[l] = "org" /\ FindOrg(l, "user", "create")

\* Mutant of UpsertOrg: a plain insert, without the unique slug.
InsertOrg(s) == orgs' = Append(orgs, s)

\* Insert with merge-duplicates on github_org_slug: a row of a concurrent
\* login keeps its id.
UpsertOrg(s) == orgs' = IF RowsOf(s) = {} THEN Append(orgs, s) ELSE orgs

CreateOrg(l) ==
  /\ pc[l] = "create"
  /\ \/ UpsertOrg(slug[l]) /\ Goto(l, "select") /\ UNCHANGED hurt
     \/ Mishap(l) /\ Goto(l, "failed") /\ (UpsertOrg(slug[l]) \/ UNCHANGED orgs)
  /\ UNCHANGED <<userOrg, mapping, events, github, slug, org, budget>>

SelectOrg(l) == pc[l] = "select" /\ FindOrg(l, "user", "failed")

\* Mutant of PutUser: the error of the upsert is swallowed.
PutUserAnyway(l) ==
  /\ pc[l] = "user"
  /\ Goto(l, "done")
  /\ \/ userOrg' = [userOrg EXCEPT ![UserOf[l]] = org[l]] /\ UNCHANGED hurt
     \/ Mishap(l) /\ UNCHANGED userOrg
  /\ UNCHANGED <<orgs, mapping, events, github, slug, org, budget>>

\* upsertUserRow, and only then the answer with the session's tokens.
PutUser(l) ==
  /\ pc[l] = "user"
  /\ LET Put == userOrg' = [userOrg EXCEPT ![UserOf[l]] = org[l]] IN
     \/ Put /\ Goto(l, "done") /\ UNCHANGED hurt
     \/ Mishap(l) /\ Goto(l, "failed") /\ (Put \/ UNCHANGED userOrg)
  /\ UNCHANGED <<orgs, mapping, events, github, slug, org, budget>>

\* lookupOrgID of the middleware: no row, no organisation.
OrgFor(l) == userOrg[UserOf[l]]

\* A later request with the tokens: JWTAuthMiddleware scopes it to the user's
\* organisation, or answers 401.
Authenticate(l) ==
  /\ pc[l] = "done"
  /\ \/ OrgFor(l) # 0 /\ Goto(l, "served") /\ UNCHANGED hurt
     \/ ((OrgFor(l) = 0 /\ UNCHANGED hurt) \/ Mishap(l)) /\ Goto(l, "denied")
  /\ org' = [org EXCEPT ![l] = OrgFor(l)]
  /\ UNCHANGED <<tables, github, slug, budget>>

\* Mutant of InstallationsOf: the filter on the organisation is dropped.
AllInstallations(o) == {i \in Installations : mapping[i] # 0 /\ o \in OrgId}

InstallationsOf(o) == {i \in Installations : mapping[i] = o}

\* lookupInstallationIDByOrg and GenerateInstallationToken, for the bot of a
\* user's organisation: an organisation with no installation is answered 404,
\* one with two of them 409.
AskToken(l) ==
  /\ pc[l] = "served"
  /\ \/ \E i \in Installations :
          /\ InstallationsOf(org[l]) = {i}
          /\ tokens' = tokens \cup {<<l, i>>}
          /\ Goto(l, "tokened") /\ UNCHANGED hurt
     \/ /\ (Cardinality(InstallationsOf(org[l])) # 1 /\ UNCHANGED hurt) \/ Mishap(l)
        /\ Goto(l, "refused") /\ UNCHANGED tokens
  /\ UNCHANGED <<tables, github, slug, org, stops, transfers>>

-----------------------------------------------------------------------------
(* The webhook.                                                            *)

\* validateGitHubWebhookSignature, and the checks of the body before it.
Signed(w) == w \notin Unsigned

\* processGitHubWebhookEvent handles three event types and needs the id of an
\* installation.
Relevant(w) == w \notin Ignored

\* GitHubWebhook answers 401, or 200 before anything is done about the event.
Receive(w) ==
  /\ w \in Sends /\ pc[w] = "idle"
  /\ Goto(w, IF Signed(w) /\ Relevant(w) THEN "mapping" ELSE "ignored")
  /\ UNCHANGED <<tables, github, slug, org, hurt, budget>>

\* Mutants of Mapped: an empty row counts, the cache is never used.
MappedAlways(id) == id \in OrgId
MappedNever(id)  == id \notin OrgId

Mapped(id) == id # 0

\* resolveOrgIDForInstallation: the cached mapping, if there is one and the
\* lookup succeeds.
FindMapping(w) ==
  /\ pc[w] = "mapping"
  /\ LET id == mapping[InstallationOf[w]] IN
     \/ /\ Mapped(id) /\ Goto(w, "insert") /\ UNCHANGED hurt
        /\ org' = [org EXCEPT ![w] = id]
     \/ /\ (~Mapped(id) /\ UNCHANGED hurt) \/ Mishap(w)
        /\ Goto(w, "github") /\ UNCHANGED org
  /\ UNCHANGED <<tables, github, slug, budget>>

\* GetInstallationOrgSlug asks GitHub.
AskGitHub(w) ==
  /\ pc[w] = "github"
  /\ \/ /\ slug' = [slug EXCEPT ![w] = account[InstallationOf[w]]]
        /\ Goto(w, "org") /\ UNCHANGED hurt
     \/ Mishap(w) /\ Goto(w, "failed") /\ UNCHANGED slug
  /\ UNCHANGED <<tables, github, org, budget>>

\* Nobody of the account has signed in yet: the event is dropped.
FindInstallationOrg(w) ==
  w \in Sends /\ pc[w] = "org" /\ FindOrg(w, "upsert", "failed")

SaveMapping(w) ==
  /\ pc[w] = "upsert"
  /\ LET Save == mapping' = [mapping EXCEPT ![InstallationOf[w]] = org[w]] IN
     \/ Save /\ Goto(w, "insert") /\ UNCHANGED hurt
     \/ Mishap(w) /\ Goto(w, "failed") /\ (Save \/ UNCHANGED mapping)
  /\ UNCHANGED <<orgs, userOrg, events, github, slug, org, budget>>

InsertEvent(w) ==
  /\ pc[w] = "insert"
  /\ LET Add == events' = events \cup {[send |-> w, org |-> org[w]]} IN
     \/ Add /\ Goto(w, "done") /\ UNCHANGED hurt
     \/ Mishap(w) /\ Goto(w, "failed") /\ (Add \/ UNCHANGED events)
  /\ UNCHANGED <<orgs, userOrg, mapping, github, slug, org, budget>>

-----------------------------------------------------------------------------
\* Points at which a request is not under way.
Resting == {"idle", "done", "failed", "ignored", "served", "denied", "tokened", "refused"}

Active == {w \in Workers : pc[w] \notin Resting}

\* The API process goes down with every request and goroutine it works on.
Stop ==
  /\ stops < MaxStops /\ Active # {}
  /\ stops' = stops + 1
  /\ pc' = [w \in Workers |-> IF w \in Active THEN "failed" ELSE pc[w]]
  /\ hurt' = hurt \cup Active
  /\ UNCHANGED <<tables, github, slug, org, tokens, transfers>>

\* GitHub: the account is renamed, or the installation moves to another one.
Transfer(i, s) ==
  /\ transfers < MaxTransfers /\ account[i] # s
  /\ transfers' = transfers + 1
  /\ account' = [account EXCEPT ![i] = s]
  /\ owners' = [owners EXCEPT ![i] = @ \cup {s}]
  /\ UNCHANGED <<tables, pc, slug, org, hurt, tokens, stops>>

LoginStep(l) ==
  \/ SignIn(l) \/ IssueSession(l) \/ FindOwnOrg(l) \/ CreateOrg(l)
  \/ SelectOrg(l) \/ PutUser(l) \/ Authenticate(l) \/ AskToken(l)
Process(w) ==
  \/ FindMapping(w) \/ AskGitHub(w) \/ FindInstallationOrg(w)
  \/ SaveMapping(w) \/ InsertEvent(w)

Next ==
  \/ \E l \in Logins : LoginStep(l)
  \/ \E w \in Sends : Receive(w) \/ Process(w)
  \/ Stop
  \/ \E i \in Installations, s \in Slugs : Transfer(i, s)

Spec == Init /\ [][Next]_vars

\* A goroutine that was started goes on while the process lives; nobody is
\* obliged to sign in or to deliver.
FairSpec == Spec /\ \A w \in Sends : WF_vars(Process(w))

-----------------------------------------------------------------------------
(* Properties.                                                             *)

\* Concurrent first logins of one account end up in one organisation: the
\* insert merges with the row another login made between lookup and insert
\* (auth.go:194-241).
OneOrgPerAccount ==
  \A i, j \in DOMAIN orgs : orgs[i] = orgs[j] => i = j

\* Whoever was given tokens is a member of the organisation of their login,
\* and a later request is served for that organisation: no error path of the
\* callback answers with tokens that are of no use (handlers/auth.go:98-118,
\* middleware/auth.go:80-87).
TokenMeansMember ==
  \A l \in Logins :
    /\ pc[l] \in {"done", "served", "tokened"} => OrgFor(l) \in RowsOf(LoginName[UserOf[l]])
    /\ pc[l] \in {"served", "tokened"} => org[l] \in RowsOf(LoginName[UserOf[l]])
    /\ pc[l] = "denied" => l \in hurt

\* An event is recorded for an organisation whose account owns, or has owned,
\* the installation, whatever lookups, cache writes and transfers interleave
\* (webhook.go:210-275).
EventsFollowOwnership ==
  \A e \in events : orgs[e.org] \in owners[InstallationOf[e.send]]

\* An installation's token is given out only to members of an organisation
\* whose account owns, or has owned, the installation, although the mapping
\* was written by deliveries that raced with transfers and with each other
\* (github_token.go:92-120, webhook.go:259).
TokenFollowsOwnership ==
  \A t \in tokens : orgs[org[t[1]]] \in owners[t[2]]

\* A delivery that was answered while its installation was mapped is recorded,
\* unless a call of its own failed or the process stopped: no other request
\* can make it fail (webhook.go:105, 196).
MappedIsRecorded ==
  \A w \in Sends :
    pc[w] = "mapping" /\ mapping[InstallationOf[w]] # 0
      ~> w \in hurt \/ \E e \in events : e.send = w
=============================================================================
