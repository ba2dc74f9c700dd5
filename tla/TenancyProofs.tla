---------------------------- MODULE TenancyProofs ----------------------------
(***************************************************************************)
(* Proofs about logins and webhook deliveries, for any number of them, of  *)
(* installations, of transfers and of failed calls.                        *)
(***************************************************************************)
EXTENDS Tenancy, TLAPS

Account(l) == LoginName[UserOf[l]]

\* A user's row refers to the organisation of that user's login.
UsersBelong == \A u \in Users : userOrg[u] # 0 => userOrg[u] \in RowsOf(LoginName[u])

\* What a callback knows at the point where it is.
LoginKnows(l) ==
  /\ pc[l] \in {"session", "org", "create", "select", "user"} => slug[l] = Account(l)
  /\ pc[l] = "user" => org[l] \in RowsOf(Account(l))
  /\ pc[l] \in {"done", "served", "tokened"} => userOrg[UserOf[l]] # 0
  /\ pc[l] \in {"served", "tokened"} => org[l] \in RowsOf(Account(l))
  /\ pc[l] = "denied" => l \in hurt

\* Organisation o is of an account that owns, or has owned, installation i.
Owned(i, o) == o \in DOMAIN orgs /\ orgs[o] \in owners[i]

\* What a delivery knows at the point where it is.
SendKnows(w) ==
  /\ pc[w] = "org" => slug[w] \in owners[InstallationOf[w]]
  /\ pc[w] \in {"upsert", "insert"} => Owned(InstallationOf[w], org[w])

AccountsOwn  == \A i \in Installations : account[i] \in owners[i]
MappingsOwn  == \A i \in Installations : mapping[i] # 0 => Owned(i, mapping[i])
EventsOwn    == \A e \in events : Owned(InstallationOf[e.send], e.org)
TokensOwn    == \A t \in tokens : pc[t[1]] = "tokened" /\ Owned(t[2], org[t[1]])

TablesInv == OneOrgPerAccount /\ UsersBelong /\ AccountsOwn /\ MappingsOwn
             /\ EventsOwn /\ TokensOwn
WorkersInv == /\ \A l \in Logins : LoginKnows(l)
              /\ \A w \in Sends : SendKnows(w)

TenancyInv == TypeOK /\ TablesInv /\ WorkersInv

-----------------------------------------------------------------------------
(* What never goes back.                                                   *)

\* Rows of organisations stay, former owners are remembered, users keep an
\* organisation, and a hurt request stays hurt.
Grows ==
  /\ \A o \in DOMAIN orgs : o \in DOMAIN orgs' /\ orgs'[o] = orgs[o]
  /\ \A i \in Installations : owners[i] \subseteq owners'[i]
  /\ \A u \in Users : userOrg[u] # 0 => userOrg'[u] # 0
  /\ hurt \subseteq hurt'

\* A step of v leaves the other requests where they are.
OnlyMoves(v) ==
  \A w \in Workers \ {v} : pc'[w] = pc[w] /\ slug'[w] = slug[w] /\ org'[w] = org[w]

\* What a request knows stays true while it rests.
LEMMA KnowledgeLasts ==
  ASSUME TypeOK, Grows, NEW v, OnlyMoves(v)
  PROVE  /\ \A l \in Logins \ {v} : LoginKnows(l) => LoginKnows(l)'
         /\ \A w \in Sends \ {v} : SendKnows(w) => SendKnows(w)'
  <1>1. ASSUME NEW l \in Logins \ {v}, LoginKnows(l) PROVE LoginKnows(l)'
    <2>1. pc'[l] = pc[l] /\ slug'[l] = slug[l] /\ org'[l] = org[l]
      BY DEF OnlyMoves, Workers
    <2>2. UserOf[l] \in Users
      BY TenancyAssumption
    <2>3. org[l] \in RowsOf(Account(l)) => org'[l] \in RowsOf(Account(l))'
      BY <2>1 DEF Grows, RowsOf, Account
    <2>4. QED
      BY <1>1, <2>1, <2>2, <2>3 DEF LoginKnows, Grows, Account
  <1>2. ASSUME NEW w \in Sends \ {v}, SendKnows(w) PROVE SendKnows(w)'
    <2>1. pc'[w] = pc[w] /\ slug'[w] = slug[w] /\ org'[w] = org[w]
      BY DEF OnlyMoves, Workers
    <2>2. InstallationOf[w] \in Installations
      BY TenancyAssumption
    <2>3. QED
      BY <1>2, <2>1, <2>2 DEF SendKnows, Grows, Owned
  <1>3. QED
    BY <1>1, <1>2

\* So does what the tables say, as far as a step leaves them alone.
LEMMA OwnershipLasts ==
  ASSUME Grows, NEW i \in Installations, NEW o, Owned(i, o)
  PROVE  Owned(i, o)'
  BY DEF Grows, Owned

\* The merge on the slug: rows stay, and there is one per account.
LEMMA Upserted ==
  ASSUME TypeOK, OneOrgPerAccount, NEW s \in Slugs, UpsertOrg(s)
  PROVE  /\ orgs' \in Seq(Slugs) /\ Len(orgs) <= Len(orgs')
         /\ \A o \in DOMAIN orgs : o \in DOMAIN orgs' /\ orgs'[o] = orgs[o]
         /\ OneOrgPerAccount'
  <1> orgs \in Seq(Slugs)
    BY DEF TypeOK
  <1>1. CASE RowsOf(s) # {}
    BY <1>1 DEF UpsertOrg, OneOrgPerAccount
  <1>2. CASE RowsOf(s) = {}
    <2>1. orgs' = Append(orgs, s)
      BY <1>2 DEF UpsertOrg
    <2>2. \A o \in DOMAIN orgs : orgs[o] # s
      BY <1>2 DEF RowsOf
    <2>3. /\ orgs' \in Seq(Slugs) /\ Len(orgs') = Len(orgs) + 1
          /\ \A o \in 1 .. Len(orgs) : orgs'[o] = orgs[o]
          /\ orgs'[Len(orgs) + 1] = s
      BY <2>1
    <2>4. QED
      BY <2>2, <2>3 DEF OneOrgPerAccount
  <1>3. QED
    BY <1>1, <1>2

-----------------------------------------------------------------------------

\* The invariant holds before the first request.
LEMMA TenancyInit == Init => TenancyInv
  <1> SUFFICES ASSUME Init PROVE TenancyInv
    OBVIOUS
  <1> USE TenancyAssumption
  <1>1. TypeOK
    <2>1. ASSUME NEW w \in Workers PROVE (CHOOSE s \in Slugs : TRUE) \in Slugs
      <3>1. Slugs # {}
        <4>1. CASE w \in Logins
          BY <4>1
        <4>2. CASE w \in Sends
          BY <4>2 DEF Init
        <4>3. QED
          BY <4>1, <4>2 DEF Workers
      <3>2. QED
        BY <3>1
    <2>2. slug \in [Workers -> Slugs]
      BY <2>1 DEF Init
    <2>3. orgs \in Seq(Slugs) /\ 0 \in OrgId
      BY DEF Init, OrgId
    <2>4. pc \in [Workers -> Points] /\ org \in [Workers -> OrgId]
      BY <2>3 DEF Init, Points
    <2>5. account \in [Installations -> Slugs] /\ owners \in [Installations -> SUBSET Slugs]
      BY DEF Init
    <2>6. userOrg \in [Users -> OrgId] /\ mapping \in [Installations -> OrgId]
      BY <2>3 DEF Init
    <2>7. stops \in 0 .. MaxStops /\ transfers \in 0 .. MaxTransfers
      BY DEF Init
    <2>8. QED
      BY <2>2, <2>3, <2>4, <2>5, <2>6, <2>7 DEF Init, TypeOK
  <1>2. OneOrgPerAccount
    BY DEF Init, OneOrgPerAccount
  <1>3. UsersBelong /\ AccountsOwn /\ MappingsOwn /\ EventsOwn /\ TokensOwn
    BY DEF Init, UsersBelong, AccountsOwn, MappingsOwn, EventsOwn, TokensOwn
  <1>4. WorkersInv
    BY DEF Init, WorkersInv, LoginKnows, SendKnows, Workers
  <1>5. QED
    BY <1>1, <1>2, <1>3, <1>4 DEF TenancyInv, TablesInv

-----------------------------------------------------------------------------
(* Steps that change nothing but where a request is.                       *)

\* A request that only reads keeps the tables' half of the invariant, and the
\* others' knowledge.
LEMMA LocalStep ==
  ASSUME TenancyInv, NEW v \in Workers, pc[v] # "tokened", OnlyMoves(v),
         UNCHANGED <<tables, github, budget>>,
         hurt \subseteq hurt', hurt' \subseteq Workers,
         pc' \in [Workers -> Points], slug' \in [Workers -> Slugs],
         org' \in [Workers -> OrgId],
         v \in Logins => LoginKnows(v)', v \in Sends => SendKnows(v)'
  PROVE  TenancyInv'
  <1> USE DEF tables, github, budget
  <1>1. OrgId' = OrgId
    BY DEF OrgId
  <1>2. TypeOK'
    BY <1>1 DEF TenancyInv, TypeOK
  <1>3. OneOrgPerAccount' /\ UsersBelong' /\ AccountsOwn' /\ MappingsOwn' /\ EventsOwn'
    BY DEF TenancyInv, TablesInv, OneOrgPerAccount, UsersBelong, AccountsOwn, MappingsOwn,
           EventsOwn, Owned, RowsOf
  <1>4. TokensOwn'
    <2> SUFFICES ASSUME NEW t \in tokens
                 PROVE  pc'[t[1]] = "tokened" /\ Owned(t[2], org[t[1]])'
      BY DEF TokensOwn
    <2>1. t[1] \in Workers /\ pc[t[1]] = "tokened" /\ Owned(t[2], org[t[1]])
      BY DEF TenancyInv, TypeOK, TablesInv, TokensOwn, Workers
    <2>2. pc'[t[1]] = pc[t[1]] /\ org'[t[1]] = org[t[1]]
      BY <2>1 DEF OnlyMoves
    <2>3. QED
      BY <2>1, <2>2 DEF Owned
  <1>5. Grows
    BY DEF Grows
  <1>6. WorkersInv'
    BY <1>5, KnowledgeLasts DEF TenancyInv, WorkersInv
  <1>7. QED
    BY <1>2, <1>3, <1>4, <1>6 DEF TenancyInv, TablesInv

\* A lookup of an organisation finds a row of the account, or changes only the
\* point.
LEMMA Found ==
  ASSUME TenancyInv, NEW v \in Workers, NEW found \in Points, NEW missing \in Points,
         FindOrg(v, found, missing)
  PROVE  /\ UNCHANGED <<tables, github, slug, budget>>
         /\ hurt \subseteq hurt' /\ hurt' \subseteq Workers
         /\ pc' \in [Workers -> Points] /\ org' \in [Workers -> OrgId]
         /\ OnlyMoves(v)
         /\ \/ pc'[v] = found /\ org'[v] \in RowsOf(slug[v])
            \/ pc'[v] = missing
  <1> USE DEF TenancyInv, TypeOK, Goto
  <1>1. UNCHANGED <<tables, github, slug, budget>>
    BY DEF FindOrg
  <1>2. hurt \subseteq hurt' /\ hurt' \subseteq Workers
    BY DEF FindOrg, Mishap
  <1>3. ASSUME NEW i \in RowsOf(slug[v]), org' = [org EXCEPT ![v] = i], Goto(v, found)
        PROVE  /\ pc' \in [Workers -> Points] /\ org' \in [Workers -> OrgId]
               /\ pc'[v] = found /\ org'[v] \in RowsOf(slug[v]) /\ OnlyMoves(v)
    <2>1. i \in OrgId
      BY DEF RowsOf, OrgId
    <2>2. QED
      BY <1>1, <1>3, <2>1 DEF OnlyMoves
  <1>4. ASSUME Goto(v, missing), org' = org
        PROVE  /\ pc' \in [Workers -> Points] /\ org' \in [Workers -> OrgId]
               /\ pc'[v] = missing /\ OnlyMoves(v)
    BY <1>1, <1>4 DEF OnlyMoves
  <1>5. QED
    BY <1>1, <1>2, <1>3, <1>4 DEF FindOrg

\* The steps of a callback that write nothing.
LEMMA LoginReads ==
  ASSUME TenancyInv, NEW l \in Logins,
         SignIn(l) \/ IssueSession(l) \/ FindOwnOrg(l) \/ SelectOrg(l) \/ Authenticate(l)
  PROVE  TenancyInv'
  <1> l \in Workers /\ UserOf[l] \in Users /\ Account(l) \in Slugs /\ l \notin Sends
    BY TenancyAssumption DEF Workers, Account
  <1>0. /\ pc \in [Workers -> Points] /\ slug \in [Workers -> Slugs]
        /\ org \in [Workers -> OrgId] /\ hurt \subseteq Workers /\ LoginKnows(l)
        /\ userOrg \in [Users -> OrgId]
    BY DEF TenancyInv, TypeOK, WorkersInv
  <1>1. CASE SignIn(l)
    <2>1. /\ UNCHANGED <<tables, github, org, budget>>
          /\ pc[l] = "idle" /\ slug' = [slug EXCEPT ![l] = Account(l)]
          /\ hurt \subseteq hurt' /\ hurt' \subseteq Workers
          /\ pc' = [pc EXCEPT ![l] = "session"] \/ pc' = [pc EXCEPT ![l] = "failed"]
      BY <1>0, <1>1 DEF SignIn, Mishap, Goto, Account
    <2>2. pc' \in [Workers -> Points] /\ slug' \in [Workers -> Slugs] /\ OnlyMoves(l)
      BY <1>0, <2>1 DEF Points, OnlyMoves
    <2>3. LoginKnows(l)'
      BY <1>0, <2>1 DEF LoginKnows, Account
    <2>4. QED
      BY <1>0, <2>1, <2>2, <2>3, LocalStep
  <1>2. CASE IssueSession(l)
    <2>1. /\ UNCHANGED <<tables, github, slug, org, budget>> /\ pc[l] = "session"
          /\ hurt \subseteq hurt' /\ hurt' \subseteq Workers
          /\ pc' = [pc EXCEPT ![l] = "org"] \/ pc' = [pc EXCEPT ![l] = "failed"]
      BY <1>0, <1>2 DEF IssueSession, Mishap, Goto
    <2>2. pc' \in [Workers -> Points] /\ OnlyMoves(l)
      BY <1>0, <2>1 DEF Points, OnlyMoves
    <2>3. LoginKnows(l)'
      BY <1>0, <2>1 DEF LoginKnows, Account
    <2>4. QED
      BY <1>0, <2>1, <2>2, <2>3, LocalStep
  <1>3. CASE FindOwnOrg(l) \/ SelectOrg(l)
    <2> DEFINE missing == IF pc[l] = "org" THEN "create" ELSE "failed"
    <2>1. pc[l] \in {"org", "select"} /\ FindOrg(l, "user", missing)
      BY <1>3 DEF FindOwnOrg, SelectOrg
    <2>2. "user" \in Points /\ missing \in Points /\ missing \in {"create", "failed"}
      BY DEF Points
    <2> HIDE DEF missing
    <2>3. slug[l] = Account(l)
      BY <1>0, <2>1 DEF LoginKnows
    <2>4. /\ UNCHANGED <<tables, github, slug, budget>>
          /\ hurt \subseteq hurt' /\ hurt' \subseteq Workers
          /\ pc' \in [Workers -> Points] /\ org' \in [Workers -> OrgId]
          /\ OnlyMoves(l)
          /\ \/ pc'[l] = "user" /\ org'[l] \in RowsOf(slug[l])
             \/ pc'[l] = missing
      BY <2>1, <2>2, Found
    <2>5. LoginKnows(l)'
      BY <2>2, <2>3, <2>4 DEF LoginKnows, Account, RowsOf, tables
    <2>6. QED
      BY <1>0, <2>1, <2>4, <2>5, LocalStep
  <1>4. CASE Authenticate(l)
    <2>1. /\ UNCHANGED <<tables, github, slug, budget>> /\ pc[l] = "done"
          /\ org' = [org EXCEPT ![l] = userOrg[UserOf[l]]]
          /\ hurt \subseteq hurt' /\ hurt' \subseteq Workers
          /\ \/ pc' = [pc EXCEPT ![l] = "served"]
             \/ pc' = [pc EXCEPT ![l] = "denied"] /\ (userOrg[UserOf[l]] = 0 \/ l \in hurt')
      BY <1>0, <1>4 DEF Authenticate, Mishap, Goto, OrgFor
    <2>2. userOrg[UserOf[l]] # 0 /\ userOrg[UserOf[l]] \in RowsOf(Account(l))
      BY <1>0, <2>1 DEF LoginKnows, TenancyInv, TablesInv, UsersBelong, Account
    <2>3. /\ pc' \in [Workers -> Points] /\ org' \in [Workers -> OrgId] /\ OnlyMoves(l)
      BY <1>0, <2>1 DEF Points, OnlyMoves
    <2>4. LoginKnows(l)'
      BY <1>0, <2>1, <2>2 DEF LoginKnows, Account, RowsOf, tables
    <2>5. QED
      BY <1>0, <2>1, <2>3, <2>4, LocalStep
  <1>5. QED
    BY <1>1, <1>2, <1>3, <1>4

\* The steps of a delivery that write nothing.
LEMMA SendReads ==
  ASSUME TenancyInv, NEW w \in Sends,
         Receive(w) \/ FindMapping(w) \/ AskGitHub(w) \/ FindInstallationOrg(w)
  PROVE  TenancyInv'
  <1> w \in Workers /\ InstallationOf[w] \in Installations /\ w \notin Logins
    BY TenancyAssumption DEF Workers
  <1>0. /\ pc \in [Workers -> Points] /\ slug \in [Workers -> Slugs]
        /\ org \in [Workers -> OrgId] /\ hurt \subseteq Workers /\ SendKnows(w)
        /\ mapping \in [Installations -> OrgId] /\ account \in [Installations -> Slugs]
        /\ MappingsOwn /\ AccountsOwn
    BY DEF TenancyInv, TypeOK, WorkersInv, TablesInv
  <1>1. CASE Receive(w)
    <2>1. /\ UNCHANGED <<tables, github, slug, org, hurt, budget>> /\ pc[w] = "idle"
          /\ pc' = [pc EXCEPT ![w] = "mapping"] \/ pc' = [pc EXCEPT ![w] = "ignored"]
      BY <1>1 DEF Receive, Goto
    <2>2. pc' \in [Workers -> Points] /\ OnlyMoves(w)
      BY <1>0, <2>1 DEF Points, OnlyMoves
    <2>3. SendKnows(w)'
      BY <1>0, <2>1 DEF SendKnows
    <2>4. QED
      BY <1>0, <2>1, <2>2, <2>3, LocalStep
  <1>2. CASE FindMapping(w)
    <2> DEFINE id == mapping[InstallationOf[w]]
    <2>1. /\ UNCHANGED <<tables, github, slug, budget>> /\ pc[w] = "mapping"
          /\ hurt \subseteq hurt' /\ hurt' \subseteq Workers
          /\ \/ /\ id # 0 /\ pc' = [pc EXCEPT ![w] = "insert"]
                /\ org' = [org EXCEPT ![w] = id]
             \/ pc' = [pc EXCEPT ![w] = "github"] /\ org' = org
      BY <1>0, <1>2 DEF FindMapping, Mapped, Mishap, Goto
    <2>2. /\ pc' \in [Workers -> Points] /\ org' \in [Workers -> OrgId] /\ OnlyMoves(w)
      BY <1>0, <2>1 DEF Points, OnlyMoves
    <2>3. id # 0 => Owned(InstallationOf[w], id)
      BY <1>0 DEF MappingsOwn
    <2>4. SendKnows(w)'
      BY <1>0, <2>1, <2>3 DEF SendKnows, Owned, tables, github
    <2>5. QED
      BY <1>0, <2>1, <2>2, <2>4, LocalStep
  <1>3. CASE AskGitHub(w)
    <2>1. /\ UNCHANGED <<tables, github, org, budget>> /\ pc[w] = "github"
          /\ hurt \subseteq hurt' /\ hurt' \subseteq Workers
          /\ \/ /\ pc' = [pc EXCEPT ![w] = "org"]
                /\ slug' = [slug EXCEPT ![w] = account[InstallationOf[w]]]
             \/ pc' = [pc EXCEPT ![w] = "failed"] /\ slug' = slug
      BY <1>0, <1>3 DEF AskGitHub, Mishap, Goto
    <2>2. /\ pc' \in [Workers -> Points] /\ slug' \in [Workers -> Slugs] /\ OnlyMoves(w)
      BY <1>0, <2>1 DEF Points, OnlyMoves
    <2>3. SendKnows(w)'
      BY <1>0, <2>1 DEF SendKnows, AccountsOwn, github
    <2>4. QED
      BY <1>0, <2>1, <2>2, <2>3, LocalStep
  <1>4. CASE FindInstallationOrg(w)
    <2>1. pc[w] = "org" /\ FindOrg(w, "upsert", "failed")
      BY <1>4 DEF FindInstallationOrg
    <2>2. "upsert" \in Points /\ "failed" \in Points
      BY DEF Points
    <2>3. slug[w] \in owners[InstallationOf[w]]
      BY <1>0, <2>1 DEF SendKnows
    <2>4. /\ UNCHANGED <<tables, github, slug, budget>>
          /\ hurt \subseteq hurt' /\ hurt' \subseteq Workers
          /\ pc' \in [Workers -> Points] /\ org' \in [Workers -> OrgId]
          /\ OnlyMoves(w)
          /\ \/ pc'[w] = "upsert" /\ org'[w] \in RowsOf(slug[w])
             \/ pc'[w] = "failed"
      BY <2>1, <2>2, Found
    <2>5. SendKnows(w)'
      BY <2>3, <2>4 DEF SendKnows, Owned, RowsOf, tables, github
    <2>6. QED
      BY <1>0, <2>1, <2>4, <2>5, LocalStep
  <1>5. QED
    BY <1>1, <1>2, <1>3, <1>4

-----------------------------------------------------------------------------
(* Steps that write a table.                                               *)

\* A request that writes, too, keeps what is not about its own write.
LEMMA WriteStep ==
  ASSUME TenancyInv, NEW v \in Workers, pc[v] # "tokened", OnlyMoves(v), Grows,
         UNCHANGED <<github, slug, org, stops, transfers>>,
         hurt' \subseteq Workers, pc' \in [Workers -> Points],
         orgs' \in Seq(Slugs), Len(orgs) <= Len(orgs'), OneOrgPerAccount',
         userOrg' \in [Users -> OrgId'], mapping' \in [Installations -> OrgId'],
         events' \subseteq [send : Sends, org : OrgId' \ {0}],
         tokens' \subseteq Logins \X Installations,
         UsersBelong', MappingsOwn', EventsOwn',
         \A t \in tokens' \ tokens : pc'[t[1]] = "tokened" /\ Owned(t[2], org[t[1]])',
         v \in Logins => LoginKnows(v)', v \in Sends => SendKnows(v)'
  PROVE  TenancyInv'
  <1> USE DEF github
  <1>1. \A o \in OrgId : o \in OrgId'
    BY DEF TenancyInv, TypeOK, OrgId
  <1>2. org \in [Workers -> OrgId']
    BY <1>1 DEF TenancyInv, TypeOK
  <1>3. TypeOK'
    BY <1>2 DEF TenancyInv, TypeOK
  <1>4. AccountsOwn'
    BY DEF TenancyInv, TablesInv, AccountsOwn
  <1>5. TokensOwn'
    <2> SUFFICES ASSUME NEW t \in tokens', t \in tokens
                 PROVE  pc'[t[1]] = "tokened" /\ Owned(t[2], org[t[1]])'
      BY DEF TokensOwn
    <2>1. /\ t[1] \in Workers /\ t[2] \in Installations
          /\ pc[t[1]] = "tokened" /\ Owned(t[2], org[t[1]])
      BY DEF TenancyInv, TypeOK, TablesInv, TokensOwn, Workers
    <2>2. pc'[t[1]] = pc[t[1]] /\ org'[t[1]] = org[t[1]]
      BY <2>1 DEF OnlyMoves
    <2>3. QED
      BY <2>1, <2>2 DEF Owned, Grows
  <1>6. WorkersInv'
    BY KnowledgeLasts DEF TenancyInv, WorkersInv
  <1>7. QED
    BY <1>3, <1>4, <1>5, <1>6 DEF TenancyInv, TablesInv

\* The insert of an organisation merges with a row of the same account.
LEMMA CreateOrgStep ==
  ASSUME TenancyInv, NEW l \in Logins, CreateOrg(l)
  PROVE  TenancyInv'
  <1> l \in Workers /\ l \notin Sends
    BY TenancyAssumption DEF Workers
  <1> USE DEF TenancyInv, TypeOK, TablesInv
  <1>1. /\ UNCHANGED <<userOrg, mapping, events, github, slug, org, budget>>
        /\ pc[l] = "create" /\ hurt \subseteq hurt' /\ hurt' \subseteq Workers
        /\ pc' = [pc EXCEPT ![l] = "select"] \/ pc' = [pc EXCEPT ![l] = "failed"]
        /\ UpsertOrg(slug[l]) \/ orgs' = orgs
    BY DEF CreateOrg, Mishap, Goto
  <1>2. /\ orgs' \in Seq(Slugs) /\ Len(orgs) <= Len(orgs')
        /\ \A o \in DOMAIN orgs : o \in DOMAIN orgs' /\ orgs'[o] = orgs[o]
        /\ OneOrgPerAccount'
    <2>1. CASE UpsertOrg(slug[l])
      BY <2>1, Upserted
    <2>2. CASE orgs' = orgs
      BY <2>2 DEF OneOrgPerAccount
    <2>3. QED
      BY <1>1, <2>1, <2>2
  <1>3. Grows
    BY <1>1, <1>2 DEF Grows, github
  <1>4. pc' \in [Workers -> Points] /\ OnlyMoves(l)
    BY <1>1 DEF Points, OnlyMoves
  <1>5. \A o \in OrgId : o \in OrgId'
    BY <1>2 DEF OrgId
  <1>6. /\ userOrg' \in [Users -> OrgId'] /\ mapping' \in [Installations -> OrgId']
        /\ events' \subseteq [send : Sends, org : OrgId' \ {0}]
    BY <1>1, <1>5
  <1>7. UsersBelong'
    BY <1>1, <1>2 DEF UsersBelong, RowsOf
  <1>8. MappingsOwn' /\ EventsOwn'
    <2>1. \A e \in events : InstallationOf[e.send] \in Installations
      BY TenancyAssumption
    <2>2. QED
      BY <1>1, <1>3, <2>1, OwnershipLasts DEF MappingsOwn, EventsOwn
  <1>9. LoginKnows(l)'
    BY <1>1 DEF WorkersInv, LoginKnows, Account
  <1>10. QED
    BY <1>1, <1>2, <1>3, <1>4, <1>6, <1>7, <1>8, <1>9, WriteStep DEF budget

\* The user's row is written only with the organisation of the login.
LEMMA PutUserStep ==
  ASSUME TenancyInv, NEW l \in Logins, PutUser(l)
  PROVE  TenancyInv'
  <1> l \in Workers /\ l \notin Sends /\ UserOf[l] \in Users
    BY TenancyAssumption DEF Workers
  <1> USE DEF TenancyInv, TypeOK, TablesInv
  <1>1. /\ UNCHANGED <<orgs, mapping, events, github, slug, org, budget>>
        /\ pc[l] = "user" /\ hurt \subseteq hurt' /\ hurt' \subseteq Workers
        /\ \/ pc' = [pc EXCEPT ![l] = "done"] /\ userOrg'[UserOf[l]] = org[l]
           \/ pc' = [pc EXCEPT ![l] = "failed"]
        /\ userOrg' = [userOrg EXCEPT ![UserOf[l]] = org[l]] \/ userOrg' = userOrg
    BY DEF PutUser, Mishap, Goto
  <1>2. org[l] \in RowsOf(Account(l)) /\ org[l] # 0
    BY <1>1 DEF WorkersInv, LoginKnows, RowsOf
  <1>3. OrgId' = OrgId /\ org[l] \in OrgId
    BY <1>1 DEF OrgId
  <1>4. Grows
    BY <1>1, <1>2 DEF Grows, github
  <1>5. pc' \in [Workers -> Points] /\ OnlyMoves(l)
    BY <1>1 DEF Points, OnlyMoves
  <1>6. userOrg' \in [Users -> OrgId']
    BY <1>1, <1>3
  <1>7. UsersBelong'
    BY <1>1, <1>2 DEF UsersBelong, RowsOf, Account
  <1>8. MappingsOwn' /\ EventsOwn' /\ OneOrgPerAccount'
    BY <1>1 DEF MappingsOwn, EventsOwn, OneOrgPerAccount, Owned, github
  <1>9. LoginKnows(l)'
    BY <1>1, <1>2 DEF LoginKnows, Account
  <1>10. /\ UNCHANGED <<github, slug, org, stops, transfers>> /\ hurt' \subseteq Workers
         /\ orgs' \in Seq(Slugs) /\ Len(orgs) <= Len(orgs')
         /\ mapping' \in [Installations -> OrgId']
         /\ events' \subseteq [send : Sends, org : OrgId' \ {0}]
         /\ tokens' \subseteq Logins \X Installations /\ tokens' \ tokens = {}
    BY <1>1, <1>3 DEF budget
  <1> HIDE DEF TenancyInv, TypeOK, TablesInv
  <1>11. QED
    BY <1>1, <1>4, <1>5, <1>6, <1>7, <1>8, <1>9, <1>10, WriteStep

\* A token is for the one installation that is mapped to the organisation.
LEMMA AskTokenStep ==
  ASSUME TenancyInv, NEW l \in Logins, AskToken(l)
  PROVE  TenancyInv'
  <1> l \in Workers /\ l \notin Sends /\ UserOf[l] \in Users
    BY TenancyAssumption DEF Workers
  <1> USE DEF TenancyInv, TypeOK, TablesInv
  <1>1. /\ UNCHANGED <<tables, github, slug, org, stops, transfers>>
        /\ pc[l] = "served" /\ hurt \subseteq hurt' /\ hurt' \subseteq Workers
        /\ \/ /\ pc' = [pc EXCEPT ![l] = "tokened"]
              /\ \E i \in Installations :
                   tokens' = tokens \cup {<<l, i>>} /\ mapping[i] = org[l]
           \/ pc' = [pc EXCEPT ![l] = "refused"] /\ tokens' = tokens
    BY DEF AskToken, Mishap, Goto, InstallationsOf
  <1>2. org[l] \in RowsOf(Account(l)) /\ org[l] # 0 /\ userOrg[UserOf[l]] # 0
    BY <1>1 DEF WorkersInv, LoginKnows, RowsOf
  <1>3. OrgId' = OrgId
    BY <1>1 DEF OrgId, tables
  <1>4. Grows
    BY <1>1 DEF Grows, github, tables
  <1>5. pc' \in [Workers -> Points] /\ OnlyMoves(l)
    BY <1>1 DEF Points, OnlyMoves
  <1>6. UsersBelong' /\ MappingsOwn' /\ EventsOwn' /\ OneOrgPerAccount'
    BY <1>1 DEF UsersBelong, RowsOf, MappingsOwn, EventsOwn, OneOrgPerAccount, Owned,
                github, tables
  <1>7. ASSUME NEW t \in tokens' \ tokens
        PROVE  t \in Logins \X Installations /\ pc'[t[1]] = "tokened"
               /\ Owned(t[2], org[t[1]])'
    <2>1. PICK i \in Installations : t = <<l, i>> /\ mapping[i] = org[l]
      BY <1>1, <1>7
    <2>2. Owned(i, org[l])
      BY <1>2, <2>1 DEF MappingsOwn
    <2>3. pc'[l] = "tokened"
      BY <1>1, <1>7
    <2>4. QED
      BY <1>1, <2>1, <2>2, <2>3 DEF Owned, github, tables
  <1>8. tokens' \subseteq Logins \X Installations
    BY <1>7
  <1>9. LoginKnows(l)'
    BY <1>1, <1>2 DEF LoginKnows, Account, RowsOf, tables
  <1>10. QED
    BY <1>1, <1>3, <1>4, <1>5, <1>6, <1>7, <1>8, <1>9, WriteStep DEF tables

\* A mapping is saved, and an event inserted, for an organisation whose account
\* was seen to own the installation.
LEMMA SendWrites ==
  ASSUME TenancyInv, NEW w \in Sends, SaveMapping(w) \/ InsertEvent(w)
  PROVE  TenancyInv'
  <1> DEFINE i == InstallationOf[w]
  <1> w \in Workers /\ w \notin Logins /\ i \in Installations
    BY TenancyAssumption DEF Workers
  <1> USE DEF TenancyInv, TypeOK, TablesInv
  <1>1. /\ UNCHANGED <<orgs, userOrg, github, slug, org, budget>>
        /\ pc[w] \in {"upsert", "insert"} /\ hurt \subseteq hurt' /\ hurt' \subseteq Workers
        /\ \/ pc[w] = "upsert" /\ pc' = [pc EXCEPT ![w] = "insert"]
           \/ pc' = [pc EXCEPT ![w] = "done"]
           \/ pc' = [pc EXCEPT ![w] = "failed"]
    BY DEF SaveMapping, InsertEvent, Mishap, Goto
  <1>2. /\ mapping' = [mapping EXCEPT ![i] = org[w]] \/ mapping' = mapping
        /\ events' = events \cup {[send |-> w, org |-> org[w]]} \/ events' = events
    BY DEF SaveMapping, InsertEvent
  <1> HIDE DEF i
  <1>3. Owned(i, org[w]) /\ org[w] # 0 /\ org[w] \in OrgId
    BY <1>1 DEF WorkersInv, SendKnows, Owned, i
  <1>4. OrgId' = OrgId /\ \A j, o : Owned(j, o)' <=> Owned(j, o)
    BY <1>1 DEF OrgId, Owned, github
  <1>5. Grows
    BY <1>1 DEF Grows, github
  <1>6. pc' \in [Workers -> Points] /\ OnlyMoves(w)
    BY <1>1 DEF Points, OnlyMoves
  <1>7. mapping' \in [Installations -> OrgId'] /\ MappingsOwn'
    BY <1>2, <1>3, <1>4 DEF MappingsOwn
  <1>8. events' \subseteq [send : Sends, org : OrgId' \ {0}]
    BY <1>2, <1>3, <1>4
  <1>9. EventsOwn'
    <2>1. ASSUME NEW e \in events' PROVE Owned(InstallationOf[e.send], e.org)
      BY <1>2, <1>3 DEF EventsOwn, i
    <2>2. QED
      BY <1>4, <2>1 DEF EventsOwn
  <1>10. UsersBelong' /\ OneOrgPerAccount'
    BY <1>1 DEF UsersBelong, RowsOf, OneOrgPerAccount
  <1>11. SendKnows(w)'
    BY <1>1, <1>3, <1>4 DEF SendKnows, i
  <1>12. QED
    BY <1>1, <1>4, <1>5, <1>6, <1>7, <1>8, <1>9, <1>10, <1>11, WriteStep DEF budget

-----------------------------------------------------------------------------
(* Steps of the surroundings.                                              *)

\* A crash ends the requests under way; a request that is waiting for nothing
\* keeps what it was told.
LEMMA StopStep == TenancyInv /\ Stop => TenancyInv'
  <1> SUFFICES ASSUME TenancyInv, Stop PROVE TenancyInv'
    OBVIOUS
  <1> USE DEF TenancyInv, TypeOK, TablesInv, tables, github
  <1>1. /\ UNCHANGED <<orgs, userOrg, mapping, events, account, owners, slug, org, tokens,
                       transfers>>
        /\ pc' = [w \in Workers |-> IF w \in Active THEN "failed" ELSE pc[w]]
        /\ hurt' = hurt \cup Active /\ stops' \in 0 .. MaxStops
    BY TenancyAssumption DEF Stop
  <1>2. Active \subseteq Workers /\ \A w \in Workers : pc[w] = "tokened" => w \notin Active
    BY DEF Active, Resting
  <1>3. TypeOK'
    BY <1>1, <1>2 DEF Points, OrgId
  <1>4. OneOrgPerAccount' /\ UsersBelong' /\ AccountsOwn' /\ MappingsOwn' /\ EventsOwn'
    BY <1>1 DEF OneOrgPerAccount, UsersBelong, AccountsOwn, MappingsOwn, EventsOwn, Owned,
                RowsOf
  <1>5. TokensOwn'
    <2> SUFFICES ASSUME NEW t \in tokens
                 PROVE  pc'[t[1]] = "tokened" /\ Owned(t[2], org[t[1]])'
      BY <1>1 DEF TokensOwn
    <2>1. t[1] \in Workers /\ pc[t[1]] = "tokened" /\ Owned(t[2], org[t[1]])
      BY DEF TokensOwn, Workers
    <2>2. QED
      BY <1>1, <1>2, <2>1 DEF Owned
  <1>6. ASSUME NEW l \in Logins PROVE LoginKnows(l)'
    <2>1. l \in Workers /\ LoginKnows(l)
      BY DEF Workers, WorkersInv
    <2>2. pc'[l] = "failed" \/ pc'[l] = pc[l]
      BY <1>1, <2>1
    <2>3. QED
      BY <1>1, <2>1, <2>2 DEF LoginKnows, Account, RowsOf
  <1>7. ASSUME NEW w \in Sends PROVE SendKnows(w)'
    <2>1. w \in Workers /\ SendKnows(w)
      BY DEF Workers, WorkersInv
    <2>2. pc'[w] = "failed" \/ pc'[w] = pc[w]
      BY <1>1, <2>1
    <2>3. QED
      BY <1>1, <2>1, <2>2 DEF SendKnows, Owned
  <1>8. QED
    BY <1>3, <1>4, <1>5, <1>6, <1>7 DEF WorkersInv

\* After a transfer the former owner is still among the owners.
LEMMA TransferStep ==
  ASSUME TenancyInv, NEW i \in Installations, NEW s \in Slugs, Transfer(i, s)
  PROVE  TenancyInv'
  <1> USE DEF TenancyInv, TypeOK, TablesInv, tables
  <1>1. /\ UNCHANGED <<orgs, userOrg, mapping, events, pc, slug, org, hurt, tokens, stops>>
        /\ account' = [account EXCEPT ![i] = s]
        /\ owners' = [owners EXCEPT ![i] = @ \cup {s}]
        /\ transfers' \in 0 .. MaxTransfers
    BY TenancyAssumption DEF Transfer
  <1>2. Grows
    BY <1>1 DEF Grows
  <1>3. TypeOK'
    BY <1>1 DEF OrgId
  <1>4. OneOrgPerAccount' /\ UsersBelong' /\ AccountsOwn'
    BY <1>1 DEF OneOrgPerAccount, UsersBelong, AccountsOwn, RowsOf
  <1>5. \A j \in Installations : \A o : Owned(j, o) => Owned(j, o)'
    BY <1>2, OwnershipLasts
  <1>6. MappingsOwn' /\ EventsOwn' /\ TokensOwn'
    <2>1. \A e \in events : InstallationOf[e.send] \in Installations
      BY TenancyAssumption
    <2>2. QED
      BY <1>1, <1>5, <2>1 DEF MappingsOwn, EventsOwn, TokensOwn
  <1>7. WorkersInv'
    <2>1. \A l \in Logins : LoginKnows(l)'
      BY <1>1 DEF WorkersInv, LoginKnows, Account, RowsOf
    <2>2. \A w \in Sends : InstallationOf[w] \in Installations
      BY TenancyAssumption
    <2>3. \A w \in Sends : SendKnows(w)'
      BY <1>1, <1>2, <1>5, <2>2 DEF WorkersInv, SendKnows, Grows
    <2>4. QED
      BY <2>1, <2>3 DEF WorkersInv
  <1>8. QED
    BY <1>3, <1>4, <1>6, <1>7

\* Every step keeps the invariant.
LEMMA TenancyNext == TenancyInv /\ [Next]_vars => TenancyInv'
  <1> SUFFICES ASSUME TenancyInv, [Next]_vars PROVE TenancyInv'
    OBVIOUS
  <1>1. ASSUME NEW l \in Logins, LoginStep(l) PROVE TenancyInv'
    BY <1>1, LoginReads, CreateOrgStep, PutUserStep, AskTokenStep DEF LoginStep
  <1>2. ASSUME NEW w \in Sends, Receive(w) \/ Process(w) PROVE TenancyInv'
    BY <1>2, SendReads, SendWrites DEF Process
  <1>3. CASE UNCHANGED vars
    BY <1>3 DEF vars, tables, github, budget, TenancyInv, TypeOK, TablesInv, WorkersInv,
                OneOrgPerAccount, UsersBelong, AccountsOwn, MappingsOwn, EventsOwn,
                TokensOwn, LoginKnows, SendKnows, Owned, RowsOf, Account, OrgId
  <1>4. QED
    BY <1>1, <1>2, <1>3, StopStep, TransferStep DEF Next

-----------------------------------------------------------------------------

\* The invariant of logins and deliveries.
THEOREM TenancyInvariance == Spec => []TenancyInv
  BY TenancyInit, TenancyNext, PTL DEF Spec

\* Types, and every reference to an organisation has its row.
THEOREM TenancyTypes == Spec => []TypeOK
  <1>1. TenancyInv => TypeOK
    BY DEF TenancyInv
  <1>2. QED
    BY <1>1, TenancyInvariance, PTL

\* Concurrent first logins of one account end up in one organisation
\* (auth.go:194-241).
THEOREM OneOrganisation == Spec => []OneOrgPerAccount
  <1>1. TenancyInv => OneOrgPerAccount
    BY DEF TenancyInv, TablesInv
  <1>2. QED
    BY <1>1, TenancyInvariance, PTL

\* Whoever was given tokens is a member of the organisation of their login
\* (handlers/auth.go:98-118).
THEOREM Membership == Spec => []TokenMeansMember
  <1>1. TenancyInv => TokenMeansMember
    <2> SUFFICES ASSUME TenancyInv, NEW l \in Logins
                 PROVE  /\ pc[l] \in {"done", "served", "tokened"} =>
                             OrgFor(l) \in RowsOf(LoginName[UserOf[l]])
                        /\ pc[l] \in {"served", "tokened"} =>
                             org[l] \in RowsOf(LoginName[UserOf[l]])
                        /\ pc[l] = "denied" => l \in hurt
      BY DEF TokenMeansMember
    <2>1. UserOf[l] \in Users
      BY TenancyAssumption
    <2>2. LoginKnows(l) /\ UsersBelong
      BY DEF TenancyInv, WorkersInv, TablesInv
    <2>3. QED
      BY <2>1, <2>2 DEF LoginKnows, UsersBelong, OrgFor, Account
  <1>2. QED
    BY <1>1, TenancyInvariance, PTL

\* An event belongs to an organisation whose account owns, or has owned, the
\* installation (webhook.go:210-275).
THEOREM EventOwnership == Spec => []EventsFollowOwnership
  <1>1. TenancyInv => EventsFollowOwnership
    BY DEF TenancyInv, TablesInv, EventsOwn, Owned, EventsFollowOwnership
  <1>2. QED
    BY <1>1, TenancyInvariance, PTL

\* So does the token of an installation (github_token.go:92-120).
THEOREM TokenOwnership == Spec => []TokenFollowsOwnership
  <1>1. TenancyInv => TokenFollowsOwnership
    BY DEF TenancyInv, TablesInv, TokensOwn, Owned, TokenFollowsOwnership
  <1>2. QED
    BY <1>1, TenancyInvariance, PTL
-----------------------------------------------------------------------------
(* How deliveries end.                                                     *)

\* Every account that installation i has belonged to had an organisation from
\* the start.
KnownToTheApi(i) == \A s \in owners[i] : \E o \in DOMAIN Seeded : Seeded[o] = s

\* A delivery that is done has been recorded, one that failed did so because
\* of a call of its own, or of an account that nobody has signed in for, and
\* one that is ignored is not for the API.
EndedRightly(w) ==
  /\ pc[w] = "done" => \E e \in events : e.send = w
  /\ pc[w] = "failed" => w \in hurt \/ ~KnownToTheApi(InstallationOf[w])
  /\ pc[w] = "ignored" => ~(Signed(w) /\ Relevant(w))

\* Organisations are never deleted.
SeededStay == \A o \in DOMAIN Seeded : o \in DOMAIN orgs /\ orgs[o] = Seeded[o]

DeliveriesInv == SeededStay /\ \A w \in Sends : EndedRightly(w)

\* Rows of organisations and events, former owners and mishaps stay.
LEMMA RowsStay ==
  ASSUME TenancyInv, [Next]_vars
  PROVE  /\ \A o \in DOMAIN orgs : o \in DOMAIN orgs' /\ orgs'[o] = orgs[o]
         /\ \A i \in Installations : owners[i] \subseteq owners'[i]
         /\ events \subseteq events' /\ hurt \subseteq hurt'
  <1> USE DEF tables, github, budget
  <1>1. ASSUME NEW l \in Logins, LoginStep(l)
        PROVE  /\ \A o \in DOMAIN orgs : o \in DOMAIN orgs' /\ orgs'[o] = orgs[o]
               /\ UNCHANGED <<events, owners>> /\ hurt \subseteq hurt'
    <2>1. CASE CreateOrg(l)
      <3>1. slug[l] \in Slugs
        BY DEF TenancyInv, TypeOK, Workers
      <3>2. UpsertOrg(slug[l]) \/ UNCHANGED orgs
        BY <2>1 DEF CreateOrg
      <3>3. \A o \in DOMAIN orgs : o \in DOMAIN orgs' /\ orgs'[o] = orgs[o]
        BY <3>1, <3>2, Upserted DEF TenancyInv, TablesInv
      <3> QED BY <2>1, <3>3 DEF CreateOrg, Mishap
    <2>2. CASE ~CreateOrg(l)
      BY <1>1, <2>2 DEF LoginStep, SignIn, IssueSession, FindOwnOrg, SelectOrg, FindOrg,
        PutUser, Authenticate, AskToken, Mishap
    <2> QED BY <2>1, <2>2
  <1>2. ASSUME NEW w \in Sends, Receive(w) \/ Process(w)
        PROVE  UNCHANGED <<orgs, owners>> /\ events \subseteq events' /\ hurt \subseteq hurt'
    BY <1>2 DEF Receive, Process, FindMapping, AskGitHub, FindInstallationOrg, FindOrg,
      SaveMapping, InsertEvent, Mishap
  <1>3. CASE Stop
    BY <1>3 DEF Stop
  <1>4. ASSUME NEW i \in Installations, NEW s \in Slugs, Transfer(i, s)
        PROVE  /\ UNCHANGED <<orgs, events, hurt>>
               /\ \A j \in Installations : owners[j] \subseteq owners'[j]
    BY <1>4 DEF Transfer, TenancyInv, TypeOK
  <1>5. CASE UNCHANGED vars
    BY <1>5 DEF vars
  <1> QED BY <1>1, <1>2, <1>3, <1>4, <1>5 DEF Next

\* The step a delivery ends with: a lookup that finds no organisation is the
\* only way to fail without a failed call.
LEMMA DeliveryEndStep ==
  ASSUME TenancyInv, DeliveriesInv, NEW w \in Sends, Receive(w) \/ Process(w)
  PROVE  EndedRightly(w)'
  <1> w \in Workers /\ pc \in [Workers -> Points] /\ SendKnows(w)
    BY DEF Workers, TenancyInv, TypeOK, WorkersInv
  <1> USE DEF EndedRightly, Goto, Mishap
  <1>1. CASE Receive(w)
    BY <1>1 DEF Receive, Signed, Relevant
  <1>2. CASE FindMapping(w) \/ AskGitHub(w) \/ SaveMapping(w)
    BY <1>2 DEF FindMapping, AskGitHub, SaveMapping
  <1>3. CASE FindInstallationOrg(w)
    <2>1. /\ pc'[w] = "upsert" \/ (pc'[w] = "failed" /\ (RowsOf(slug[w]) = {} \/ w \in hurt'))
          /\ slug[w] \in owners[InstallationOf[w]] /\ owners' = owners
      BY <1>3 DEF FindInstallationOrg, FindOrg, SendKnows, github
    <2>2. KnownToTheApi(InstallationOf[w])' => RowsOf(slug[w]) # {}
      BY <2>1 DEF KnownToTheApi, DeliveriesInv, SeededStay, RowsOf
    <2> QED BY <2>1, <2>2
  <1>4. CASE InsertEvent(w)
    <2>1. \/ pc'[w] = "done" /\ [send |-> w, org |-> org[w]] \in events'
          \/ pc'[w] = "failed" /\ w \in hurt'
      BY <1>4 DEF InsertEvent
    <2> QED BY <2>1
  <1> QED BY <1>1, <1>2, <1>3, <1>4 DEF Process

\* What a delivery ended with stays true.
LEMMA DeliveriesStep ==
  ASSUME TenancyInv, DeliveriesInv, [Next]_vars
  PROVE  DeliveriesInv'
  <1>1. SeededStay'
    BY RowsStay DEF DeliveriesInv, SeededStay
  <1>2. ASSUME NEW w \in Sends PROVE EndedRightly(w)'
    <2>1. w \in Workers /\ InstallationOf[w] \in Installations /\ w \notin Logins
      BY TenancyAssumption DEF Workers
    <2>2. KnownToTheApi(InstallationOf[w])' => KnownToTheApi(InstallationOf[w])
      BY <2>1, RowsStay DEF KnownToTheApi
    <2>3. CASE pc'[w] = pc[w]
      BY <2>2, <2>3, RowsStay DEF DeliveriesInv, EndedRightly, Signed, Relevant
    <2>4. CASE Receive(w) \/ Process(w)
      BY <2>4, DeliveryEndStep
    <2>5. CASE Stop
      <3>1. pc'[w] = pc[w] \/ (pc'[w] = "failed" /\ w \in hurt')
        BY <2>1, <2>5 DEF Stop
      <3> QED BY <2>3, <3>1 DEF EndedRightly
    <2>6. ASSUME NEW v \in Workers \ {w}, (v \in Logins /\ LoginStep(v))
                                          \/ (v \in Sends /\ (Receive(v) \/ Process(v)))
          PROVE  pc'[w] = pc[w]
      BY <2>1, <2>6 DEF TenancyInv, TypeOK, Goto, FindOrg,
        LoginStep, SignIn, IssueSession, FindOwnOrg, CreateOrg, SelectOrg, PutUser,
        Authenticate, AskToken, Receive, Process, FindMapping, AskGitHub,
        FindInstallationOrg, SaveMapping, InsertEvent
    <2>7. \A i \in Installations, s \in Slugs : Transfer(i, s) => pc' = pc
      BY DEF Transfer
    <2>8. UNCHANGED vars => pc' = pc
      BY DEF vars
    <2> QED BY <2>1, <2>3, <2>4, <2>5, <2>6, <2>7, <2>8 DEF Next, Workers
  <1> QED BY <1>1, <1>2 DEF DeliveriesInv

\* A delivery that is done is recorded, and one whose installation never left
\* the accounts with an organisation does not fail unless a call of its own
\* does: no other delivery, login or transfer can make it (webhook.go:105,
\* 196-275).
THEOREM DeliveriesEndRightly == Spec => []DeliveriesInv
  <1>1. Init => DeliveriesInv
    BY DEF Init, DeliveriesInv, SeededStay, EndedRightly, Workers
  <1>2. TenancyInv /\ DeliveriesInv /\ [Next]_vars => DeliveriesInv'
    BY DeliveriesStep
  <1> QED BY <1>1, <1>2, TenancyInvariance, PTL DEF Spec

=============================================================================
