----------------------------- MODULE VaultProofs -----------------------------
(***************************************************************************)
(* For any users, names, requests and failures: the workspaces and the     *)
(* accounts of Vault are sound.                                            *)
(***************************************************************************)
EXTENDS Vault, FiniteSetTheorems, SequenceTheorems, TLAPS

----------------------------------------------------------------------------
(* The inductive invariant.                                                *)

\* The steps of a request: before it has made a row or a workspace, ...
Owing == {"find", "insertUser", "login", "session", "insertSession", "perm", "appWs",
          "workspace", "lock", "recheck", "post"}
\* ... after the login, ...
LoggedIn == {"session", "insertSession", "deleteUser", "perm", "appWs", "workspace",
             "lock", "recheck", "post", "key", "secret", "done"}
\* ... and between the lookup of an account and its creation.
Inserting == {"insertKeys", "insertMember"}
Making == {"insertUser"} \cup Inserting
\* Those that hold the mutex.
Locked == {"recheck", "post"}
Pcs == Owing \cup LoggedIn \cup Making \cup {"idle"}

Records == [pc : Pcs, op : Ops \cup {NoOne}, user : Users \cup {<<>>},
              name : Names \cup {<<>>}, key : Keys \cup {NoOne},
              row : Nat, ws : Nat, pk : Nat, i : Nat, missing : BOOLEAN]

Spaces == [name : Seq(Letters), row : Nat, st : {"made", "pending", "late"}]
Secrets == [with : Nat, by : Users \cup {<<>>}]

\* The numbers that the code indexes with.
Types ==
  /\ rows \in Seq([email : Users, keys : BOOLEAN, member : BOOLEAN])
  /\ sessions \in [1..Max -> Nat]
  /\ wss \in Seq(Spaces)
  /\ secrets \in [1..Max -> [Keys -> Secrets]]
  /\ req \in [Reqs -> Records]
  /\ mu \in Reqs \cup {NoOne}
  /\ made \subseteq Users /\ overlap \subseteq Users
  /\ requests \in 0..MaxRequests /\ faults \in 0..MaxFaults

\* The user a workspace was made for.
Owner(w) == rows[wss[w].row].email

\* What a request knows is true.
Knows(q) ==
  /\ q.pc # "idle" => q.user \in Users /\ q.op \in Ops
  /\ q.row <= Len(rows) /\ q.ws <= Len(wss) /\ q.pk <= Len(wss)
  /\ q.row # 0 => rows[q.row].email = q.user
  /\ q.ws # 0 => Owner(q.ws) = q.user
  /\ q.pc \in LoggedIn \cup Inserting => q.row # 0
  /\ q.pc \in {"key", "secret"} => q.ws # 0
  /\ q.pc # "key" => q.pk = q.ws
  /\ q.pc = "appWs" => /\ q.i \in 1..Len(AppPerm)
                       /\ q.i > 1 /\ ~q.missing => q.ws # 0
  /\ q.op \in SecretOps \cup AppOps => q.key \in Keys
  /\ q.op = "createUser" <=> q.pc \in {"find"} \cup Making
  /\ q.pc \in Inserting => ~rows[q.row].member
  /\ q.pc = "insertMember" => rows[q.row].keys

\* The workspaces of a name that Infisical made while their request waited.
Waited(name) == {w \in DOMAIN wss : wss[w].name = name /\ wss[w].st = "made"}

\* A request that posts a workspace holds the mutex, and there is none of the name
\* but those that came late.
Posting ==
  /\ \A r \in Reqs : mu = r <=> req[r].pc \in Locked
  /\ \A r \in Reqs : req[r].pc = "post" => Waited(WsName(r)) = {}

\* Every workspace is of a user, and its name ends in that of the user.
Workspaces ==
  \A w \in DOMAIN wss :
    /\ wss[w].row \in DOMAIN rows
    /\ \E n \in Seq(Letters) : wss[w].name = UserWorkspaceName(n, Owner(w))

\* The secrets of a workspace.
SecretsOK ==
  \A w \in 1..Max, k \in Keys :
    secrets[w][k] # NoSecret =>
      w <= Len(wss) /\ secrets[w][k].with = w /\ secrets[w][k].by = Owner(w)

\* A row is filled in by one request; who creates an account that no one else is
\* creating has found none.
Makers ==
  /\ \A r, s \in Reqs : /\ r # s /\ req[r].pc \in Inserting /\ req[s].pc \in Inserting
                        => req[r].row # req[s].row
  /\ \A r, s \in Reqs : /\ r # s /\ req[r].op = "createUser" /\ req[s].op = "createUser"
                        /\ req[r].user = req[s].user
                        => req[r].user \in overlap
  /\ \A r \in Reqs : req[r].pc \in Making /\ req[r].user \notin overlap
                     => Accounts(req[r].user) = {}
  /\ \A u \in Users \ overlap : \A m, n \in Accounts(u) : m = n

\* Every row and every workspace is of a request, or there from the start.
Room ==
  Len(rows) + Len(wss) + Cardinality({r \in Reqs : req[r].pc \in Owing})
     <= Cardinality(Known) + requests

\* No session is inserted once one is found.
Sessions ==
  \A n \in 1..Max :
    sessions[n] + Cardinality({r \in Reqs : req[r].pc = "insertSession" /\ req[r].row = n})
       <= Cardinality(Reqs)

OrgOK == org \in {NoOne, "org", "unsaved"}

Inv == /\ OrgOK /\ Types /\ \A r \in Reqs : Knows(req[r])
       /\ Posting /\ Workspaces /\ OneWorkspacePerName /\ SecretsOK
       /\ Makers /\ CreatedCanLogin /\ Room /\ Sessions

----------------------------------------------------------------------------
(* Names.                                                                  *)

\* The joined name, letter by letter.
LEMMA NameType ==
  ASSUME NEW n \in Seq(Letters), NEW u \in Seq(Letters)
  PROVE  /\ UserWorkspaceName(n, u) \in Seq(Letters)
         /\ Len(UserWorkspaceName(n, u)) = Len(n) + 1 + Len(u)
         /\ UserWorkspaceName(n, u)[Len(n) + 1] = Dash
         /\ \A i \in 1..Len(u) : UserWorkspaceName(n, u)[Len(n) + 1 + i] = u[i]
<1> DEFINE d == <<Dash>>
           p == n \o d
<1>1. d \in Seq(Letters) /\ Len(d) = 1 /\ d[1] = Dash
  <2>2. Dash \in Letters  BY DEF Letters
  <2> QED  BY <2>2
<1>2. Len(n) \in Nat /\ Len(u) \in Nat  BY LenProperties
<1>3. /\ p \in Seq(Letters) /\ Len(p) = Len(n) + 1 /\ p[Len(n) + 1] = Dash
  <2>1. /\ p \in Seq(Letters) /\ Len(p) = Len(n) + Len(d)
        /\ \A i \in 1 .. Len(n) + Len(d) : p[i] = IF i <= Len(n) THEN n[i] ELSE d[i - Len(n)]
    BY <1>1, ConcatProperties
  <2> QED  BY <2>1, <1>1, <1>2
<1>4. /\ p \o u \in Seq(Letters) /\ Len(p \o u) = Len(p) + Len(u)
      /\ \A i \in 1 .. Len(p) + Len(u) : (p \o u)[i] = IF i <= Len(p) THEN p[i] ELSE u[i - Len(p)]
  BY <1>3, ConcatProperties
<1>5. UserWorkspaceName(n, u) = p \o u  BY DEF UserWorkspaceName
<1> HIDE DEF d, p
<1> QED  BY <1>2, <1>3, <1>4, <1>5

\* The last dash of a workspace's name is the one that UserWorkspaceName puts in: the
\* user can be read off the name.
LEMMA OwnName ==
  ASSUME NEW n \in Seq(Letters), NEW m \in Seq(Letters), NEW u \in Users, NEW v \in Users,
         UserWorkspaceName(n, u) = UserWorkspaceName(m, v)
  PROVE  u = v
<1>1. u \in Seq(Letters) /\ v \in Seq(Letters)  BY UsersAssumption
<1>2. /\ Len(n) \in Nat /\ Len(m) \in Nat /\ Len(u) \in Nat /\ Len(v) \in Nat
      /\ DOMAIN u = 1..Len(u) /\ DOMAIN v = 1..Len(v)
  BY <1>1, LenProperties
<1>3. Len(n) + Len(u) = Len(m) + Len(v)
  <2>1. /\ Len(UserWorkspaceName(n, u)) = Len(n) + 1 + Len(u)
        /\ Len(UserWorkspaceName(m, v)) = Len(m) + 1 + Len(v)
    BY <1>1, NameType, Zenon
  <2>2. Len(n) + 1 + Len(u) = Len(m) + 1 + Len(v)  BY <2>1, Zenon
  <2> DEFINE a == Len(n)  b == Len(m)  c == Len(u)  e == Len(v)
  <2>3. a \in Nat /\ b \in Nat /\ c \in Nat /\ e \in Nat /\ a + 1 + c = b + 1 + e
    BY <1>2, <2>2
  <2> HIDE DEF a, b, c, e
  <2>4. a + c = b + e  BY <2>3
  <2> QED  BY <2>4 DEF a, b, c, e
<1>4. /\ (\A i \in 1..Len(u) : u[i] # Dash) /\ (\A i \in 1..Len(v) : v[i] # Dash)
  BY <1>2, UsersAssumption
<1> DEFINE x == UserWorkspaceName(n, u)
<1>5. /\ x[Len(n) + 1] = Dash /\ x[Len(m) + 1] = Dash
      /\ \A i \in 1..Len(u) : x[Len(n) + 1 + i] = u[i]
      /\ \A i \in 1..Len(v) : x[Len(m) + 1 + i] = v[i]
  <2> DEFINE y == UserWorkspaceName(m, v)
  <2>1. x[Len(n) + 1] = Dash /\ \A i \in 1..Len(u) : x[Len(n) + 1 + i] = u[i]
    BY <1>1, NameType
  <2>2. y[Len(m) + 1] = Dash /\ \A i \in 1..Len(v) : y[Len(m) + 1 + i] = v[i]
    BY <1>1, NameType
  <2>3. x = y  OBVIOUS
  <2> HIDE DEF x, y
  <2> QED  BY <2>1, <2>2, <2>3
<1> HIDE DEF x
<1>6. ~(Len(m) < Len(n))
  <2> SUFFICES ASSUME Len(m) < Len(n) PROVE FALSE  OBVIOUS
  <2> DEFINE a == Len(n)  b == Len(m)  c == Len(u)  e == Len(v)
  <2>0. a \in Nat /\ b \in Nat /\ c \in Nat /\ e \in Nat /\ a + c = b + e /\ b < a
    BY <1>2, <1>3
  <2> HIDE DEF a, b, c, e
  <2>1. Len(n) - Len(m) \in 1..Len(v)
    <3>1. a - b \in 1..e  BY <2>0
    <3> QED  BY <3>1 DEF a, b, c, e
  <2>2. x[Len(n) + 1] = v[Len(n) - Len(m)]
    <3>1. b + 1 + (a - b) = a + 1  BY <2>0
    <3>2. Len(m) + 1 + (Len(n) - Len(m)) = Len(n) + 1  BY <3>1 DEF a, b
    <3> QED  BY <2>1, <3>2, <1>5
  <2> QED  BY <2>1, <2>2, <1>4, <1>5
<1>7. ~(Len(n) < Len(m))
  <2> SUFFICES ASSUME Len(n) < Len(m) PROVE FALSE  OBVIOUS
  <2> DEFINE a == Len(n)  b == Len(m)  c == Len(u)  e == Len(v)
  <2>0. a \in Nat /\ b \in Nat /\ c \in Nat /\ e \in Nat /\ a + c = b + e /\ a < b
    BY <1>2, <1>3
  <2> HIDE DEF a, b, c, e
  <2>1. Len(m) - Len(n) \in 1..Len(u)
    <3>1. b - a \in 1..c  BY <2>0
    <3> QED  BY <3>1 DEF a, b, c, e
  <2>2. x[Len(m) + 1] = u[Len(m) - Len(n)]
    <3>1. a + 1 + (b - a) = b + 1  BY <2>0
    <3>2. Len(n) + 1 + (Len(m) - Len(n)) = Len(m) + 1  BY <3>1 DEF a, b
    <3> QED  BY <2>1, <3>2, <1>5
  <2> QED  BY <2>1, <2>2, <1>4, <1>5
<1>8. Len(n) = Len(m) /\ Len(u) = Len(v)
  <2> DEFINE a == Len(n)  b == Len(m)  c == Len(u)  e == Len(v)
  <2>1. /\ a \in Nat /\ b \in Nat /\ c \in Nat /\ e \in Nat
        /\ a + c = b + e /\ ~(b < a) /\ ~(a < b)
    BY <1>2, <1>3, <1>6, <1>7
  <2> HIDE DEF a, b, c, e
  <2>2. a = b /\ c = e  BY <2>1
  <2> QED  BY <2>2 DEF a, b, c, e
<1>9. \A i \in 1..Len(u) : u[i] = v[i]  BY <1>5, <1>8
<1> QED  BY <1>1, <1>8, <1>9, SeqEqual

\* A workspace that is found by its name is of the user.
LEMMA FoundIsOwn ==
  ASSUME Types, Workspaces, NEW n \in Seq(Letters), NEW u \in Users,
         NEW w \in Found(UserWorkspaceName(n, u))
  PROVE  w \in 1..Len(wss) /\ w \in Nat /\ w # 0 /\ Owner(w) = u
<1>1. w \in DOMAIN wss /\ wss[w].name = UserWorkspaceName(n, u)  BY DEF Found
<1>2. DOMAIN wss = 1..Len(wss) /\ Len(wss) \in Nat  BY LenProperties DEF Types
<1>3. wss[w].row \in DOMAIN rows  BY <1>1 DEF Workspaces
<1>4. PICK m \in Seq(Letters) : wss[w].name = UserWorkspaceName(m, Owner(w))
  BY <1>1 DEF Workspaces
<1>5. rows[wss[w].row] \in [email : Users, keys : BOOLEAN, member : BOOLEAN]
  BY <1>3, ElementOfSeq, LenProperties DEF Types
<1>6. Owner(w) \in Users  BY <1>5 DEF Owner
<1>7. Owner(w) = u  BY <1>1, <1>4, <1>6, OwnName
<1> QED  BY <1>1, <1>2, <1>7

----------------------------------------------------------------------------
(* Steps that only change a request and the mutex.                         *)

\* Sets of requests can be counted.
LEMMA Count ==
  ASSUME NEW A \in SUBSET Reqs, NEW B \in SUBSET Reqs
  PROVE  /\ Cardinality(A) \in Nat /\ Cardinality(B) \in Nat
         /\ Cardinality(A) <= Cardinality(Reqs) /\ Cardinality(Reqs) \in Nat
         /\ B \subseteq A => Cardinality(B) <= Cardinality(A)
         /\ \A r \in Reqs \ A : Cardinality(A \cup {r}) = Cardinality(A) + 1
         /\ \A r \in A : Cardinality(A \ {r}) = Cardinality(A) - 1
<1>1. IsFiniteSet(Reqs)  BY ReqsAssumption
<1>2. IsFiniteSet(A) /\ IsFiniteSet(B) /\ Cardinality(A) <= Cardinality(Reqs)
  BY <1>1, FS_Subset
<1>3. Cardinality(A) \in Nat /\ Cardinality(B) \in Nat /\ Cardinality(Reqs) \in Nat
  BY <1>1, <1>2, FS_CardinalityType
<1>4. B \subseteq A => Cardinality(B) <= Cardinality(A)
  BY <1>2, FS_Subset
<1>5. \A r \in Reqs \ A : Cardinality(A \cup {r}) = Cardinality(A) + 1
  BY <1>2, FS_AddElement
<1>6. \A r \in A : Cardinality(A \ {r}) = Cardinality(A) - 1
  BY <1>2, FS_RemoveElement
<1> QED  BY <1>2, <1>3, <1>4, <1>5, <1>6

\* The mutex, when a request goes on with record q.
LEMMA PostingStep ==
  ASSUME Types, Posting, NEW r \in Reqs, NEW q \in Records,
         req' = [req EXCEPT ![r] = q], wss' = wss,
         mu' = IF q.pc \in Locked THEN r ELSE Unlock(r),
         q.pc \in Locked => mu \in {NoOne, r},
         q.pc = "post" => Waited(UserWorkspaceName(q.name, q.user)) = {}
  PROVE  mu' \in Reqs \cup {NoOne} /\ Posting'
<1>1. NoOne \notin Reqs  BY ReqsAssumption DEF NoOne
<1>2. mu \in Reqs \cup {NoOne} /\ req \in [Reqs -> Records]  BY DEF Types
<1>3. mu' \in Reqs \cup {NoOne}  BY <1>2 DEF Unlock
<1>4. \A s \in Reqs : req'[s] = IF s = r THEN q ELSE req[s]  BY <1>2
<1>5. ASSUME NEW s \in Reqs PROVE mu' = s <=> req'[s].pc \in Locked
  <2>1. CASE s = r  BY <1>1, <1>4, <2>1 DEF Unlock
  <2>2. CASE s # r
    <3>1. mu = s <=> req[s].pc \in Locked  BY DEF Posting
    <3>2. mu' = s <=> mu = s  BY <1>1, <2>2 DEF Unlock
    <3> QED  BY <1>4, <2>2, <3>1, <3>2
  <2> QED  BY <2>1, <2>2
<1>6. ASSUME NEW s \in Reqs, req'[s].pc = "post" PROVE Waited(WsName(s))' = {}
  <2>1. CASE s = r  BY <1>4, <1>6, <2>1 DEF WsName, Waited
  <2>2. CASE s # r  BY <1>4, <1>6, <2>2 DEF WsName, Waited, Posting
  <2> QED  BY <2>1, <2>2
<1> QED  BY <1>3, <1>5, <1>6 DEF Posting

\* A request goes on with record q, and nothing but the mutex changes with it.
LocalStep(r, q) ==
  /\ req' = [req EXCEPT ![r] = q]
  /\ UNCHANGED <<rows, wss, requests, overlap>>
  /\ mu' = IF q.pc \in Locked THEN r ELSE Unlock(r)
  /\ q.pc \in Locked => mu \in {NoOne, r}
  /\ q.pc = "post" => Waited(UserWorkspaceName(q.name, q.user)) = {}
  /\ q.pc \in Owing => req[r].pc \in Owing
  /\ q.op = "createUser" => req[r].op = "createUser" /\ q.user = req[r].user
  /\ q.pc \in Making => Accounts(q.user) = {}
  /\ q.pc \notin Inserting

\* The accounts, when a request goes on.
LEMMA LocalMakers ==
  ASSUME Types, Makers, NEW r \in Reqs, NEW q \in Records, LocalStep(r, q)
  PROVE  Makers'
<1>1. req \in [Reqs -> Records]  BY DEF Types
<1>2. \A s \in Reqs : req'[s] = IF s = r THEN q ELSE req[s]  BY <1>1 DEF LocalStep
<1>3. rows' = rows /\ overlap' = overlap  BY DEF LocalStep
<1>4. \A u : Accounts(u)' = Accounts(u)  BY <1>3 DEF Accounts, Complete
<1>5. \A s, t \in Reqs : s # t /\ req'[s].pc \in Inserting /\ req'[t].pc \in Inserting
                         => req'[s].row # req'[t].row
  BY <1>2 DEF Makers, LocalStep
<1>6. \A s, t \in Reqs : /\ s # t /\ req'[s].op = "createUser" /\ req'[t].op = "createUser"
                         /\ req'[s].user = req'[t].user
                         => req'[s].user \in overlap
  BY <1>2 DEF Makers, LocalStep
<1>7. \A s \in Reqs : req'[s].pc \in Making /\ req'[s].user \notin overlap
                      => Accounts(req'[s].user) = {}
  BY <1>2 DEF Makers, LocalStep
<1> QED  BY <1>3, <1>4, <1>5, <1>6, <1>7 DEF Makers

\* Rows and workspaces, when a request goes on.
LEMMA LocalRoom ==
  ASSUME Types, Room, NEW r \in Reqs, NEW q \in Records, LocalStep(r, q)
  PROVE  Room'
<1>1. req \in [Reqs -> Records]  BY DEF Types
<1>2. \A s \in Reqs : req'[s] = IF s = r THEN q ELSE req[s]  BY <1>1 DEF LocalStep
<1>3. UNCHANGED <<rows, wss, requests>>  BY DEF LocalStep
<1> DEFINE A == {s \in Reqs : req[s].pc \in Owing}
           B == {s \in Reqs : req'[s].pc \in Owing}
<1>4. B \subseteq A  BY <1>2 DEF LocalStep
<1>5. Cardinality(B) <= Cardinality(A) /\ Cardinality(A) \in Nat /\ Cardinality(B) \in Nat
  <2>1. A \in SUBSET Reqs /\ B \in SUBSET Reqs  OBVIOUS
  <2> HIDE DEF A, B
  <2> QED  BY <1>4, <2>1, Count
<1>6. Len(rows) \in Nat /\ Len(wss) \in Nat /\ requests \in Nat  BY LenProperties DEF Types
<1>7. Cardinality(Known) \in Nat  BY UsersAssumption, FS_CardinalityType
<1>8. Len(rows) + Len(wss) + Cardinality(A) <= Cardinality(Known) + requests  BY DEF Room
<1>9. Room' <=> Len(rows) + Len(wss) + Cardinality(B) <= Cardinality(Known) + requests
  BY <1>3 DEF Room
<1> HIDE DEF A, B
<1> QED  BY <1>5, <1>6, <1>7, <1>8, <1>9

\* A request goes on, and is not about to insert a session unless there is none.
LEMMA SessionsStep ==
  ASSUME Types, Sessions, NEW r \in Reqs, NEW q \in Records,
         req' = [req EXCEPT ![r] = q], sessions' = sessions,
         q.pc = "insertSession" => sessions[q.row] = 0
  PROVE  sessions' \in [1..Max -> Nat] /\ Sessions'
<1>1. req \in [Reqs -> Records]  BY DEF Types
<1>2. \A s \in Reqs : req'[s] = IF s = r THEN q ELSE req[s]  BY <1>1
<1>3. ASSUME NEW n \in 1..Max
      PROVE  sessions[n] + Cardinality({s \in Reqs : req'[s].pc = "insertSession" /\ req'[s].row = n})
                <= Cardinality(Reqs)
  <2> DEFINE A == {s \in Reqs : req[s].pc = "insertSession" /\ req[s].row = n}
             B == {s \in Reqs : req'[s].pc = "insertSession" /\ req'[s].row = n}
  <2>1. A \in SUBSET Reqs /\ B \in SUBSET Reqs  OBVIOUS
  <2>2. sessions[n] \in Nat /\ sessions[n] + Cardinality(A) <= Cardinality(Reqs)
    BY DEF Types, Sessions
  <2>3. B \subseteq A \/ sessions[n] = 0  BY <1>2
  <2> HIDE DEF A, B
  <2>4. /\ Cardinality(A) \in Nat /\ Cardinality(B) \in Nat /\ Cardinality(Reqs) \in Nat
        /\ Cardinality(B) <= Cardinality(Reqs)
        /\ B \subseteq A => Cardinality(B) <= Cardinality(A)
    BY <2>1, Count
  <2>5. sessions[n] + Cardinality(B) <= Cardinality(Reqs)  BY <2>2, <2>3, <2>4
  <2> QED  BY <2>5 DEF B
<1> QED  BY <1>3 DEF Sessions, Types

\* The secrets are what they were.
LEMMA SecretsKept ==
  ASSUME Inv, UNCHANGED <<rows, wss, secrets>>
  PROVE  secrets' \in [1..Max -> [Keys -> Secrets]] /\ SecretsOK'
<1>1. secrets \in [1..Max -> [Keys -> Secrets]] /\ SecretsOK  BY DEF Inv, Types
<1> QED  BY <1>1 DEF SecretsOK, Owner

\* Such a step keeps the invariant.
LEMMA Local ==
  ASSUME Inv, NEW r \in Reqs, NEW q \in Records, LocalStep(r, q), Knows(q),
         sessions' \in [1..Max -> Nat], Sessions',
         secrets' \in [1..Max -> [Keys -> Secrets]], SecretsOK',
         faults' \in 0..MaxFaults, OrgOK', made' \subseteq Users, CreatedCanLogin'
  PROVE  Inv'
<1>1. req \in [Reqs -> Records]  BY DEF Inv, Types
<1>2. \A s \in Reqs : req'[s] = IF s = r THEN q ELSE req[s]  BY <1>1 DEF LocalStep
<1>3. req' \in [Reqs -> Records]  BY <1>1 DEF LocalStep
<1>4. UNCHANGED <<rows, wss, requests, overlap>>  BY DEF LocalStep
<1>5. mu' \in Reqs \cup {NoOne} /\ Posting'  BY PostingStep DEF Inv, LocalStep
<1>6. Types'
  <2>1. Types  BY DEF Inv
  <2> QED  BY <2>1, <1>3, <1>4, <1>5 DEF Types
<1>7. ASSUME NEW s \in Reqs PROVE Knows(req[s])'
  <2>1. Knows(req[s]) BY DEF Inv
  <2>2. PICK p \in Records : p = req'[s] /\ Knows(p)  BY <1>2, <1>3, <2>1
  <2>3. Knows(p)'  BY <1>4, <2>2 DEF Knows, Owner
  <2> QED  BY <2>2, <2>3
<1>8. Workspaces' /\ OneWorkspacePerName'
  <2>1. Workspaces /\ OneWorkspacePerName  BY DEF Inv
  <2>2. Workspaces'  BY <2>1, <1>4 DEF Workspaces, Owner
  <2>3. OneWorkspacePerName'  BY <2>1, <1>4 DEF OneWorkspacePerName
  <2> QED  BY <2>2, <2>3
<1>9. Makers' /\ Room'  BY LocalMakers, LocalRoom DEF Inv
<1> QED  BY <1>5, <1>6, <1>7, <1>8, <1>9 DEF Inv

----------------------------------------------------------------------------
(* The local actions.                                                      *)

\* Only requests that create a workspace have a mutex to unlock.
LEMMA NotLocked ==
  ASSUME Inv, NEW r \in Reqs, req[r].pc \notin Locked
  PROVE  Unlock(r) = mu
BY DEF Inv, Posting, Unlock

\* The fields of a request.
LEMMA RecordType ==
  ASSUME Inv, NEW r \in Reqs
  PROVE  /\ req[r] \in Records /\ Knows(req[r])
         /\ req[r].pc \in Pcs /\ req[r].row \in Nat /\ req[r].ws \in Nat /\ req[r].pk \in Nat
         /\ req[r].i \in Nat /\ req[r].missing \in BOOLEAN
         /\ req[r].op \in Ops \cup {NoOne} /\ req[r].user \in Users \cup {<<>>}
         /\ req[r].name \in Names \cup {<<>>} /\ req[r].key \in Keys \cup {NoOne}
<1>1. req[r] \in Records /\ Knows(req[r])  BY DEF Inv, Types
<1> QED  BY <1>1 DEF Records

\* The name a request looks for is a sequence of letters.
LEMMA RequestName ==
  ASSUME Inv, NEW r \in Reqs
  PROVE  req[r].name \in Seq(Letters)
<1>1. req[r].name \in Names \cup {<<>>}  BY RecordType
<1>2. <<>> \in Seq(Letters)  BY EmptySeq
<1> QED  BY <1>1, <1>2, NamesAssumption

\* The lengths are numbers.
LEMMA Lengths ==
  ASSUME Inv
  PROVE  /\ Len(rows) \in Nat /\ DOMAIN rows = 1..Len(rows)
         /\ Len(wss) \in Nat /\ DOMAIN wss = 1..Len(wss)
         /\ \A n \in 1..Len(rows) : /\ rows[n] \in [email : Users, keys : BOOLEAN, member : BOOLEAN]
                                    /\ rows[n].email \in Users
         /\ \A w \in 1..Len(wss) : wss[w] \in Spaces
<1>1. /\ rows \in Seq([email : Users, keys : BOOLEAN, member : BOOLEAN])
      /\ wss \in Seq(Spaces)
  BY DEF Inv, Types
<1>2. /\ Len(rows) \in Nat /\ DOMAIN rows = 1..Len(rows)
      /\ Len(wss) \in Nat /\ DOMAIN wss = 1..Len(wss)
  BY <1>1, LenProperties
<1>3. \A n \in 1..Len(rows) : rows[n] \in [email : Users, keys : BOOLEAN, member : BOOLEAN]
  BY <1>1, ElementOfSeq
<1>4. \A w \in 1..Len(wss) : wss[w] \in Spaces
  BY <1>1, ElementOfSeq
<1> QED  BY <1>2, <1>3, <1>4

\* A request that is over.
LEMMA IdleType ==
  ASSUME Inv
  PROVE  /\ Idle \in Records /\ Knows(Idle)
         /\ Idle.pc = "idle" /\ Idle.op = NoOne /\ Idle.user = <<>>
<1>1. Len(rows) \in Nat /\ Len(wss) \in Nat  BY Lengths
<1>2. Idle \in Records  BY DEF Idle, Records, Pcs
<1>3. /\ Idle.pc = "idle" /\ Idle.op = NoOne /\ Idle.user = <<>> /\ Idle.row = 0
      /\ Idle.ws = 0 /\ Idle.pk = 0
  BY DEF Idle
<1>4. NoOne \notin Ops  BY DEF NoOne, Ops, SecretOps, AppOps
<1>5. Knows(Idle)
  BY <1>1, <1>3, <1>4 DEF Knows, Ops, Owing, LoggedIn, Inserting, Making, Pcs
<1> QED  BY <1>2, <1>3, <1>5

\* A request returns and unlocks.
LEMMA Returns ==
  ASSUME Inv, NEW r \in Reqs, Return(r), mu' = Unlock(r),
         UNCHANGED <<rows, sessions, wss, secrets, requests, overlap>>,
         faults' \in 0..MaxFaults, OrgOK', made' \subseteq Users, CreatedCanLogin'
  PROVE  Inv'
<1>1. /\ Idle \in Records /\ Knows(Idle)
      /\ Idle.pc = "idle" /\ Idle.op = NoOne
  BY IdleType
<1>2. NoOne # "createUser"  BY DEF NoOne
<1>3. LocalStep(r, Idle)
  BY <1>1, <1>2 DEF LocalStep, Return, Locked, Owing, Making, Inserting
<1>4. sessions' \in [1..Max -> Nat] /\ Sessions'
  BY <1>1, SessionsStep DEF Inv, Return
<1>5. secrets' \in [1..Max -> [Keys -> Secrets]] /\ SecretsOK'  BY SecretsKept
<1> QED  BY <1>1, <1>3, <1>4, <1>5, Local

\* Everything else stays when a step touches neither accounts nor workspaces.
Quiet == UNCHANGED <<org, rows, sessions, wss, secrets, made, overlap, requests, faults>>

\* What follows for the parts of the invariant.
LEMMA QuietFacts ==
  ASSUME Inv, Quiet
  PROVE  /\ UNCHANGED <<rows, sessions, wss, secrets, requests, overlap>>
         /\ faults' \in 0..MaxFaults /\ OrgOK' /\ made' \subseteq Users /\ CreatedCanLogin'
<1>1. OrgOK'  BY DEF Inv, OrgOK, Quiet
<1>2. made' \subseteq Users /\ faults' \in 0..MaxFaults  BY DEF Inv, Types, Quiet
<1>3. CreatedCanLogin'  BY DEF Inv, CreatedCanLogin, Accounts, Complete, Quiet
<1> QED  BY <1>1, <1>2, <1>3 DEF Quiet

\* A quiet return.
LEMMA QuietReturn ==
  ASSUME Inv, NEW r \in Reqs, Return(r), Quiet, mu' = Unlock(r)
  PROVE  Inv'
BY QuietFacts, Returns

\* A request goes on quietly with record q.
LEMMA QuietStep ==
  ASSUME Inv, NEW r \in Reqs, NEW q \in Records, Quiet, Knows(q),
         req' = [req EXCEPT ![r] = q],
         mu' = IF q.pc \in Locked THEN r ELSE Unlock(r),
         q.pc \in Locked => mu \in {NoOne, r},
         q.pc = "post" => Waited(UserWorkspaceName(q.name, q.user)) = {},
         q.pc \in Owing => req[r].pc \in Owing,
         q.pc = "insertSession" => sessions[q.row] = 0,
         q.op = "createUser" => req[r].op = "createUser" /\ q.user = req[r].user,
         q.pc \in Making => Accounts(q.user) = {},
         q.pc \notin Inserting
  PROVE  Inv'
<1>1. LocalStep(r, q)  BY QuietFacts DEF LocalStep
<1>2. sessions' \in [1..Max -> Nat] /\ Sessions'
  BY QuietFacts, SessionsStep DEF Inv
<1>3. secrets' \in [1..Max -> [Keys -> Secrets]] /\ SecretsOK'
  BY QuietFacts, SecretsKept
<1> QED  BY <1>1, <1>2, <1>3, QuietFacts, Local

\* A request that goes on to another step with what it knows.
LEMMA GotoType ==
  ASSUME Inv, NEW r \in Reqs, NEW p \in Pcs, Goto(r, p)
  PROVE  \E q \in Records :
           /\ req' = [req EXCEPT ![r] = q]
           /\ q.pc = p /\ q.op = req[r].op /\ q.user = req[r].user /\ q.name = req[r].name
           /\ q.key = req[r].key /\ q.row = req[r].row /\ q.ws = req[r].ws
           /\ q.pk = req[r].pk /\ q.i = req[r].i /\ q.missing = req[r].missing
<1> DEFINE q == [req[r] EXCEPT !.pc = p]
<1>1. req \in [Reqs -> Records] /\ req[r] \in Records  BY DEF Inv, Types
<1>2. req' = [req EXCEPT ![r] = q]  BY DEF Goto
<1>3. q \in Records  BY <1>1 DEF Records
<1>4. /\ q.pc = p /\ q.op = req[r].op /\ q.user = req[r].user /\ q.name = req[r].name
      /\ q.key = req[r].key /\ q.row = req[r].row /\ q.ws = req[r].ws
      /\ q.pk = req[r].pk /\ q.i = req[r].i /\ q.missing = req[r].missing
  BY <1>1 DEF Records
<1> QED  BY <1>2, <1>3, <1>4

USE DEF Locked, Inserting, Making, Owing, LoggedIn, Pcs

\* CreateUser and the calls that only return.
LEMMA InvCreateUser ==
  ASSUME Inv, NEW r \in Reqs, CreateUser(r) \/ DeleteUser(r) \/ Answer(r)
  PROVE  Inv'
<1>1. Unlock(r) = mu
  <2>1. req[r].pc \notin Locked  BY DEF CreateUser, DeleteUser, Answer, At
  <2> QED  BY <2>1, NotLocked
<1>2. CASE DeleteUser(r) \/ Answer(r)
  <2>1. Quiet /\ Return(r) /\ mu' = mu  BY <1>2 DEF DeleteUser, Answer, Quiet, data
  <2> QED  BY <1>1, <2>1, QuietReturn
<1>3. CASE CreateUser(r) /\ Accounts(req[r].user) = {}
  <2>1. At(r, "find") /\ Goto(r, "insertUser") /\ Quiet /\ mu' = mu
    BY <1>3 DEF CreateUser, Quiet, data
  <2>2. PICK q \in Records :
           /\ req' = [req EXCEPT ![r] = q]
           /\ q.pc = "insertUser" /\ q.op = req[r].op /\ q.user = req[r].user
           /\ q.key = req[r].key /\ q.row = req[r].row /\ q.ws = req[r].ws /\ q.pk = req[r].pk
    BY <2>1, GotoType
  <2>3. Knows(req[r])  BY RecordType
  <2>4. Knows(q)  BY <2>1, <2>2, <2>3 DEF Knows, At
  <2>5. req[r].op = "createUser"  BY <2>1, <2>3 DEF Knows, At
  <2> QED  BY <1>1, <1>3, <2>1, <2>2, <2>4, <2>5, QuietStep DEF At
<1>4. CASE CreateUser(r) /\ Accounts(req[r].user) # {}
  <2>1. /\ At(r, "find") /\ Return(r) /\ made' = made \cup {req[r].user}
        /\ UNCHANGED <<org, rows, sessions, wss, secrets, mu, overlap, requests, faults>>
    BY <1>4 DEF CreateUser, data
  <2>2. req[r].user \in Users  BY <2>1, RecordType DEF Knows, At
  <2>3. made' \subseteq Users /\ faults' \in 0..MaxFaults  BY <2>1, <2>2 DEF Inv, Types
  <2>4. CreatedCanLogin'
    <3>1. \A u : Accounts(u)' = Accounts(u)  BY <2>1 DEF Accounts, Complete
    <3> QED  BY <1>4, <2>1, <3>1 DEF Inv, CreatedCanLogin
  <2>5. OrgOK'  BY <2>1 DEF Inv, OrgOK
  <2> QED  BY <1>1, <2>1, <2>3, <2>4, <2>5, Returns
<1> QED  BY <1>2, <1>3, <1>4

\* What follows the login.
LEMMA AfterLoginType ==
  ASSUME NEW op \in Ops, op # "createUser"
  PROVE  AfterLogin(op) \in {"deleteUser", "perm", "workspace"}
BY DEF AfterLogin, Ops, SecretOps, AppOps

\* The login: a complete row of the user, and its session.
LEMMA InvLogin ==
  ASSUME Inv, NEW r \in Reqs, Login(r) \/ Session(r)
  PROVE  Inv'
<1>1. Unlock(r) = mu
  <2>1. req[r].pc \notin Locked  BY DEF Login, Session, At
  <2> QED  BY <2>1, NotLocked
<1>2. Quiet /\ mu' = mu  BY DEF Login, Session, Quiet, data
<1>3. req \in [Reqs -> Records] /\ req[r] \in Records /\ Knows(req[r])  BY RecordType DEF Inv, Types
<1>4. Len(rows) \in Nat /\ Len(wss) \in Nat /\ DOMAIN rows = 1..Len(rows)  BY Lengths
<1>5. CASE Login(r) /\ Accounts(req[r].user) = {}
  BY <1>1, <1>2, <1>5, QuietReturn DEF Login
<1>6. CASE Login(r) /\ Accounts(req[r].user) # {}
  <2>1. At(r, "login")  BY <1>6 DEF Login
  <2>2. PICK n \in Accounts(req[r].user) :
           req' = [req EXCEPT ![r].pc = "session", ![r].row = n]
    BY <1>6 DEF Login
  <2>3. n \in 1..Len(rows) /\ n # 0 /\ n \in Nat /\ rows[n].email = req[r].user
    BY <1>4 DEF Accounts
  <2> DEFINE q == [req[r] EXCEPT !.pc = "session", !.row = n]
  <2>4. req' = [req EXCEPT ![r] = q]  BY <2>2
  <2>5. /\ q \in Records /\ q.pc = "session" /\ q.op = req[r].op /\ q.user = req[r].user
        /\ q.key = req[r].key /\ q.row = n /\ q.ws = req[r].ws /\ q.pk = req[r].pk
    BY <1>3, <2>3 DEF Records
  <2> HIDE DEF q
  <2>6. Knows(q)  BY <1>3, <1>4, <2>1, <2>3, <2>5 DEF Knows, At
  <2>7. req[r].op # "createUser"  BY <1>3, <2>1 DEF Knows, At
  <2> QED  BY <1>1, <1>2, <2>1, <2>4, <2>5, <2>6, <2>7, QuietStep DEF At
<1>7. CASE Session(r)
  <2>1. At(r, "session") /\ Goto(r, IF sessions[req[r].row] = 0 THEN "insertSession"
                                    ELSE AfterLogin(req[r].op))
    BY <1>7 DEF Session
  <2>2. req[r].op # "createUser" /\ req[r].op \in Ops \cup {NoOne}
    BY <1>3, <2>1, RecordType DEF Knows, At
  <2>3. req[r].op \in Ops  BY <2>1, <1>3 DEF Knows, At
  <2>4. PICK p \in {"insertSession", "deleteUser", "perm", "workspace"} :
           Goto(r, p) /\ (p = "insertSession" => sessions[req[r].row] = 0)
    BY <2>1, <2>2, <2>3, AfterLoginType
  <2>5. PICK q \in Records :
           /\ req' = [req EXCEPT ![r] = q]
           /\ q.pc = p /\ q.op = req[r].op /\ q.user = req[r].user
           /\ q.key = req[r].key /\ q.row = req[r].row /\ q.ws = req[r].ws /\ q.pk = req[r].pk
    BY <2>4, GotoType
  <2>6. Knows(q)  BY <2>1, <2>4, <2>5, <1>3 DEF Knows, At
  <2> QED  BY <1>1, <1>2, <2>1, <2>2, <2>4, <2>5, <2>6, QuietStep DEF At
<1> QED  BY <1>5, <1>6, <1>7

\* A workspace of the user is found, and its key, or none is.
LEMMA InvUserWorkspace ==
  ASSUME Inv, NEW r \in Reqs, UserWorkspace(r)
  PROVE  Inv'
<1>1. Unlock(r) = mu
  <2>1. req[r].pc \notin Locked
    BY DEF UserWorkspace, GetWorkspace, NoWorkspace, GetWorkspaceKey, At
  <2> QED  BY <2>1, NotLocked
<1>2. Quiet /\ mu' = mu
  BY DEF UserWorkspace, GetWorkspace, NoWorkspace, GetWorkspaceKey, Quiet, data
<1>3. req \in [Reqs -> Records] /\ req[r] \in Records /\ Knows(req[r])  BY RecordType DEF Inv, Types
<1>4. Len(rows) \in Nat /\ Len(wss) \in Nat /\ DOMAIN wss = 1..Len(wss)  BY Lengths
<1>5. CASE GetWorkspace(r)
  <2>1. At(r, "workspace")  BY <1>5 DEF GetWorkspace
  <2>2. PICK w \in Found(WsName(r)) : req' = [req EXCEPT ![r].pc = "key", ![r].ws = w]
    BY <1>5 DEF GetWorkspace
  <2>3. w \in 1..Len(wss) /\ w \in Nat /\ w # 0 /\ Owner(w) = req[r].user
    <3>1. req[r].user \in Users /\ req[r].name \in Seq(Letters)
      BY <1>3, <2>1, RequestName DEF Knows, At
    <3> QED  BY <2>2, <3>1, FoundIsOwn DEF WsName, Inv
  <2> DEFINE q == [req[r] EXCEPT !.pc = "key", !.ws = w]
  <2>4. req' = [req EXCEPT ![r] = q]  BY <2>2
  <2>5. /\ q \in Records /\ q.pc = "key" /\ q.op = req[r].op /\ q.user = req[r].user
        /\ q.key = req[r].key /\ q.row = req[r].row /\ q.ws = w /\ q.pk = req[r].pk
    BY <1>3, <1>4, <2>3 DEF Records
  <2> HIDE DEF q
  <2>6. Knows(q)  BY <1>3, <1>4, <2>1, <2>3, <2>5 DEF Knows, At
  <2>7. req[r].op # "createUser"  BY <1>3, <2>1 DEF Knows, At
  <2> QED  BY <1>1, <1>2, <2>1, <2>4, <2>5, <2>6, <2>7, QuietStep DEF At
<1>6. CASE NoWorkspace(r) /\ req[r].op = "create"
  <2>1. At(r, "workspace") /\ Goto(r, "lock")  BY <1>6 DEF NoWorkspace
  <2>2. PICK q \in Records :
           /\ req' = [req EXCEPT ![r] = q]
           /\ q.pc = "lock" /\ q.op = req[r].op /\ q.user = req[r].user
           /\ q.key = req[r].key /\ q.row = req[r].row /\ q.ws = req[r].ws /\ q.pk = req[r].pk
    BY <2>1, GotoType
  <2>3. Knows(q)  BY <2>1, <2>2, <1>3 DEF Knows, At
  <2> QED  BY <1>1, <1>2, <1>6, <2>1, <2>2, <2>3, QuietStep DEF At
<1>7. CASE NoWorkspace(r) /\ req[r].op # "create"
  BY <1>1, <1>2, <1>7, QuietReturn DEF NoWorkspace
<1>8. CASE GetWorkspaceKey(r)
  <2>1. CASE Return(r)  BY <1>1, <1>2, <2>1, QuietReturn
  <2>2. CASE req' = [req EXCEPT ![r].pc = "secret", ![r].pk = req[r].ws]
    <3>1. At(r, "key")  BY <1>8 DEF GetWorkspaceKey
    <3> DEFINE q == [req[r] EXCEPT !.pc = "secret", !.pk = req[r].ws]
    <3>2. req' = [req EXCEPT ![r] = q]  BY <2>2
    <3>3. /\ q \in Records /\ q.pc = "secret" /\ q.op = req[r].op /\ q.user = req[r].user
          /\ q.key = req[r].key /\ q.row = req[r].row /\ q.ws = req[r].ws /\ q.pk = req[r].ws
      BY <1>3 DEF Records
    <3> HIDE DEF q
    <3>4. Knows(q)  BY <1>3, <1>4, <3>1, <3>3 DEF Knows, At
    <3>5. req[r].op # "createUser"  BY <1>3, <3>1 DEF Knows, At
    <3> QED  BY <1>1, <1>2, <3>1, <3>2, <3>3, <3>4, <3>5, QuietStep DEF At
  <2> QED  BY <1>8, <2>1, <2>2 DEF GetWorkspaceKey
<1> QED  BY <1>5, <1>6, <1>7, <1>8 DEF UserWorkspace

\* CreateWorkspace up to the call: the mutex, and the second look.
LEMMA InvRecheck ==
  ASSUME Inv, NEW r \in Reqs, Lock(r) \/ Recheck(r)
  PROVE  Inv'
<1>1. Quiet  BY DEF Lock, Recheck, Quiet, data
<1>2. req \in [Reqs -> Records] /\ req[r] \in Records /\ Knows(req[r])  BY RecordType DEF Inv, Types
<1>3. Len(rows) \in Nat /\ Len(wss) \in Nat /\ DOMAIN wss = 1..Len(wss)  BY Lengths
<1>4. CASE Lock(r)
  <2>1. At(r, "lock") /\ Goto(r, "recheck") /\ mu = NoOne /\ mu' = r  BY <1>4 DEF Lock
  <2>2. PICK q \in Records :
           /\ req' = [req EXCEPT ![r] = q]
           /\ q.pc = "recheck" /\ q.op = req[r].op /\ q.user = req[r].user
           /\ q.key = req[r].key /\ q.row = req[r].row /\ q.ws = req[r].ws /\ q.pk = req[r].pk
    BY <2>1, GotoType
  <2>3. Knows(q)  BY <2>1, <2>2, <1>2 DEF Knows, At
  <2>4. req[r].op # "createUser"  BY <1>2, <2>1 DEF Knows, At
  <2> QED  BY <1>1, <2>1, <2>2, <2>3, <2>4, QuietStep DEF At
<1>5. ASSUME Recheck(r) PROVE mu = r
  <2>1. req[r].pc \in Locked  BY <1>5 DEF Recheck, At
  <2> QED  BY <2>1 DEF Inv, Posting
<1>6. CASE Recheck(r) /\ Found(WsName(r)) = {}
  <2>1. At(r, "recheck") /\ Goto(r, "post") /\ mu' = r  BY <1>5, <1>6 DEF Recheck
  <2>2. PICK q \in Records :
           /\ req' = [req EXCEPT ![r] = q]
           /\ q.pc = "post" /\ q.op = req[r].op /\ q.user = req[r].user /\ q.name = req[r].name
           /\ q.key = req[r].key /\ q.row = req[r].row /\ q.ws = req[r].ws /\ q.pk = req[r].pk
    BY <2>1, GotoType
  <2>3. Knows(q)  BY <2>1, <2>2, <1>2 DEF Knows, At
  <2>4. req[r].op # "createUser"  BY <1>2, <2>1 DEF Knows, At
  <2>5. Waited(UserWorkspaceName(q.name, q.user)) = {}
    <3>1. Waited(WsName(r)) \subseteq Found(WsName(r))  BY DEF Waited, Found
    <3> QED  BY <1>6, <2>2, <3>1 DEF WsName
  <2> QED  BY <1>1, <1>5, <1>6, <2>1, <2>2, <2>3, <2>4, <2>5, QuietStep DEF At
<1>7. CASE Recheck(r) /\ Found(WsName(r)) # {}
  <2>1. At(r, "recheck") /\ mu' = NoOne  BY <1>7 DEF Recheck
  <2>2. PICK w \in Found(WsName(r)) : req' = [req EXCEPT ![r].pc = "key", ![r].ws = w]
    BY <1>7 DEF Recheck
  <2>3. w \in 1..Len(wss) /\ w \in Nat /\ w # 0 /\ Owner(w) = req[r].user
    <3>1. req[r].user \in Users /\ req[r].name \in Seq(Letters)
      BY <1>2, <2>1, RequestName DEF Knows, At
    <3> QED  BY <2>2, <3>1, FoundIsOwn DEF WsName, Inv
  <2> DEFINE q == [req[r] EXCEPT !.pc = "key", !.ws = w]
  <2>4. req' = [req EXCEPT ![r] = q]  BY <2>2
  <2>5. /\ q \in Records /\ q.pc = "key" /\ q.op = req[r].op /\ q.user = req[r].user
        /\ q.key = req[r].key /\ q.row = req[r].row /\ q.ws = w /\ q.pk = req[r].pk
    BY <1>2, <1>3, <2>3 DEF Records
  <2> HIDE DEF q
  <2>6. Knows(q)  BY <1>2, <1>3, <2>1, <2>3, <2>5 DEF Knows, At
  <2>7. req[r].op # "createUser"  BY <1>2, <2>1 DEF Knows, At
  <2>8. Unlock(r) = NoOne  BY <1>5, <1>7 DEF Unlock
  <2> QED  BY <1>1, <2>1, <2>4, <2>5, <2>6, <2>7, <2>8, QuietStep DEF At
<1> QED  BY <1>4, <1>6, <1>7

\* What follows the workspaces of the permissions.
LEMMA AfterWorkspacesType ==
  ASSUME NEW p \in Records
  PROVE  /\ AfterWorkspaces(p) \in {"lock", "secret", "done"}
         /\ AfterWorkspaces(p) = "secret" /\ (~p.missing => p.ws # 0) => p.ws # 0
<1>1. p.missing \in BOOLEAN  BY DEF Records
<1>2. CASE p.op = "appCreate" /\ p.ws = 0  BY <1>2 DEF AfterWorkspaces
<1>3. CASE p.op = "appCreate" /\ p.ws # 0  BY <1>3 DEF AfterWorkspaces
<1>4. CASE p.op \in {"appUpdate", "appDelete"} /\ ~p.missing  BY <1>4 DEF AfterWorkspaces
<1>5. CASE p.op # "appCreate" /\ ~(p.op \in {"appUpdate", "appDelete"} /\ ~p.missing)
  BY <1>5 DEF AfterWorkspaces
<1> QED  BY <1>2, <1>3, <1>4, <1>5

\* One of the workspaces has been looked for: p is what is known now.
LEMMA NextWorkspace ==
  ASSUME Inv, NEW r \in Reqs, At(r, "appWs"), Quiet, mu' = mu, NEW p \in Records,
         p.op = req[r].op, p.user = req[r].user, p.key = req[r].key, p.row = req[r].row,
         p.pk = p.ws, p.ws <= Len(wss), p.ws # 0 => Owner(p.ws) = p.user,
         ~p.missing => p.ws # 0,
         req' = [req EXCEPT ![r] = [p EXCEPT !.i = req[r].i + 1,
                                             !.pc = IF req[r].i < Len(AppPerm) THEN "appWs"
                                                    ELSE AfterWorkspaces(p)]]
  PROVE  Inv'
<1>1. Unlock(r) = mu  BY NotLocked DEF At
<1>2. Knows(req[r]) /\ req[r].i \in Nat  BY RecordType
<1>3. Len(rows) \in Nat /\ Len(wss) \in Nat  BY Lengths
<1>4. Len(AppPerm) \in Nat  BY NamesAssumption, LenProperties
<1>5. PICK pc \in {"appWs", "lock", "secret", "done"} :
         /\ pc = IF req[r].i < Len(AppPerm) THEN "appWs" ELSE AfterWorkspaces(p)
         /\ pc = "secret" => p.ws # 0
         /\ pc = "appWs" => req[r].i < Len(AppPerm)
  BY AfterWorkspacesType
<1> DEFINE q == [p EXCEPT !.i = req[r].i + 1, !.pc = pc]
<1>6. req' = [req EXCEPT ![r] = q]  BY <1>5
<1>7. /\ q \in Records /\ q.pc = pc /\ q.op = p.op /\ q.user = p.user /\ q.key = p.key
      /\ q.row = p.row /\ q.ws = p.ws /\ q.pk = p.pk /\ q.missing = p.missing
      /\ q.i = req[r].i + 1
  <2>1. pc \in Pcs /\ req[r].i + 1 \in Nat  BY <1>2, <1>5
  <2> HIDE DEF Pcs
  <2> QED  BY <2>1 DEF Records
<1> HIDE DEF q
<1>8. Knows(q)  BY <1>2, <1>3, <1>4, <1>5, <1>7 DEF Knows, At
<1>9. req[r].op # "createUser"  BY <1>2 DEF Knows, At
<1> QED  BY <1>1, <1>5, <1>6, <1>7, <1>8, <1>9, QuietStep DEF At

\* getAppSecretWorkspaces.
LEMMA InvAppWorkspaces ==
  ASSUME Inv, NEW r \in Reqs, getAppSecretWorkspaces(r)
  PROVE  Inv'
<1>1. Quiet /\ mu' = mu
  BY DEF getAppSecretWorkspaces, ListPermissions, AppWorkspace, Quiet, data
<1>2. Unlock(r) = mu
  <2>1. req[r].pc \notin Locked
    BY DEF getAppSecretWorkspaces, ListPermissions, AppWorkspace, At
  <2> QED  BY <2>1, NotLocked
<1>3. /\ req \in [Reqs -> Records] /\ req[r] \in Records /\ Knows(req[r])
      /\ req[r].i \in Nat
  BY RecordType DEF Inv, Types
<1>4. Len(AppPerm) \in Nat /\ AppPerm \in Seq(Names)  BY NamesAssumption, LenProperties
<1>5. Len(rows) \in Nat /\ Len(wss) \in Nat  BY Lengths
<1>6. CASE Return(r)  BY <1>1, <1>2, <1>6, QuietReturn
<1>7. CASE ListPermissions(r) /\ AppPerm # <<>>
  <2>1. At(r, "perm") /\ req' = [req EXCEPT ![r].pc = "appWs", ![r].i = 1]
    BY <1>7 DEF ListPermissions
  <2> DEFINE q == [req[r] EXCEPT !.pc = "appWs", !.i = 1]
  <2>2. req' = [req EXCEPT ![r] = q]  BY <2>1
  <2>3. /\ q \in Records /\ q.pc = "appWs" /\ q.op = req[r].op /\ q.user = req[r].user
        /\ q.key = req[r].key /\ q.row = req[r].row /\ q.ws = req[r].ws /\ q.pk = req[r].pk
        /\ q.i = 1
    BY <1>3 DEF Records
  <2> HIDE DEF q
  <2>4. 1 \in 1..Len(AppPerm)  BY <1>4, <1>7, EmptySeq
  <2>5. Knows(q)  BY <1>3, <2>1, <2>3, <2>4 DEF Knows, At
  <2>6. req[r].op # "createUser"  BY <1>3, <2>1 DEF Knows, At
  <2> QED  BY <1>1, <1>2, <2>1, <2>2, <2>3, <2>5, <2>6, QuietStep DEF At
<1>8. CASE AppWorkspace(r) /\ ~Return(r)
  <2> DEFINE name == UserWorkspaceName(AppPerm[req[r].i], req[r].user)
             next(p) == [p EXCEPT !.i = req[r].i + 1,
                                  !.pc = IF req[r].i < Len(AppPerm) THEN "appWs"
                                         ELSE AfterWorkspaces(p)]
  <2>1. At(r, "appWs")  BY <1>8 DEF AppWorkspace
  <2>2. /\ req[r].i \in 1..Len(AppPerm) /\ req[r].user \in Users
        /\ req[r].pk = req[r].ws /\ req[r].ws <= Len(wss) /\ req[r].ws \in Nat
        /\ req[r].ws # 0 => Owner(req[r].ws) = req[r].user
        /\ req[r].i > 1 /\ ~req[r].missing => req[r].ws # 0
    BY <1>3, <2>1, RecordType DEF Knows, At
  <2>3. AppPerm[1] \in Names /\ AppPerm[req[r].i] \in Seq(Letters)
    <3>1. 1 \in 1..Len(AppPerm)  BY <1>4, <2>2
    <3>2. AppPerm[1] \in Names /\ AppPerm[req[r].i] \in Names  BY <1>4, <2>2, <3>1, ElementOfSeq
    <3> QED  BY <3>2, NamesAssumption
  <2>4. CASE req' = [req EXCEPT ![r] = next([req[r] EXCEPT !.missing = TRUE,
                                                           !.name = AppPerm[1]])]
    <3> DEFINE p == [req[r] EXCEPT !.missing = TRUE, !.name = AppPerm[1]]
    <3>1. /\ p \in Records /\ p.op = req[r].op /\ p.user = req[r].user /\ p.key = req[r].key
          /\ p.row = req[r].row /\ p.ws = req[r].ws /\ p.pk = req[r].pk /\ p.missing
      BY <1>3, <2>3 DEF Records
    <3>2. req' = [req EXCEPT ![r] = next(p)]  BY <2>4
    <3> HIDE DEF p
    <3> QED  BY <1>1, <2>1, <2>2, <3>1, <3>2, NextWorkspace
  <2>5. ASSUME NEW w \in Found(name),
               req' = [req EXCEPT ![r] =
                         next([req[r] EXCEPT !.ws = IF req[r].i = 1 THEN w ELSE @,
                                             !.pk = IF req[r].i = 1 THEN w ELSE @,
                                             !.name = AppPerm[1]])]
        PROVE  Inv'
    <3>1. w \in 1..Len(wss) /\ w \in Nat /\ w # 0 /\ Owner(w) = req[r].user
      BY <2>2, <2>3, <2>5, FoundIsOwn DEF Inv
    <3> DEFINE p == [req[r] EXCEPT !.ws = IF req[r].i = 1 THEN w ELSE @,
                                   !.pk = IF req[r].i = 1 THEN w ELSE @,
                                   !.name = AppPerm[1]]
    <3>2. /\ p \in Records /\ p.op = req[r].op /\ p.user = req[r].user /\ p.key = req[r].key
          /\ p.row = req[r].row /\ p.missing = req[r].missing
          /\ p.ws = IF req[r].i = 1 THEN w ELSE req[r].ws
          /\ p.pk = IF req[r].i = 1 THEN w ELSE req[r].pk
      BY <1>3, <2>2, <2>3, <3>1 DEF Records
    <3>3. req' = [req EXCEPT ![r] = next(p)]  BY <2>5
    <3> HIDE DEF p
    <3>4. /\ p.pk = p.ws /\ p.ws <= Len(wss) /\ (p.ws # 0 => Owner(p.ws) = p.user)
          /\ ~p.missing => p.ws # 0
      BY <1>4, <1>5, <2>2, <3>1, <3>2
    <3> QED  BY <1>1, <2>1, <3>2, <3>3, <3>4, NextWorkspace
  <2> QED  BY <1>8, <2>4, <2>5 DEF AppWorkspace
<1> QED  BY <1>6, <1>7, <1>8 DEF getAppSecretWorkspaces, ListPermissions

\* A call fails: the request returns and the mutex is free.
LEMMA InvCallFails ==
  ASSUME Inv, NEW r \in Reqs, CallFails(r)
  PROVE  Inv'
<1>1. /\ Return(r) /\ mu' = Unlock(r) /\ faults < MaxFaults /\ faults' = faults + 1
      /\ UNCHANGED <<org, rows, sessions, wss, secrets, made, requests, overlap>>
  BY DEF CallFails, data
<1>2. faults' \in 0..MaxFaults
  <2>1. faults \in 0..MaxFaults  BY DEF Inv, Types
  <2> QED  BY <1>1, <2>1, BoundAssumption
<1>3. OrgOK'  BY <1>1 DEF Inv, OrgOK
<1>4. made' \subseteq Users  BY <1>1 DEF Inv, Types
<1>5. CreatedCanLogin'  BY <1>1 DEF Inv, CreatedCanLogin, Accounts, Complete
<1> QED  BY <1>1, <1>2, <1>3, <1>4, <1>5, Returns

----------------------------------------------------------------------------
(* Sessions, secrets and workspaces.                                       *)

\* There is room for every row and every workspace.
LEMMA Bounds ==
  ASSUME Inv
  PROVE  /\ Max \in Nat /\ Len(rows) <= Max /\ Len(wss) <= Max
         /\ \A r \in Reqs : req[r].pc \in Owing => Len(rows) < Max /\ Len(wss) < Max
<1> DEFINE A == {r \in Reqs : req[r].pc \in Owing}
<1>1. Len(rows) \in Nat /\ Len(wss) \in Nat  BY Lengths
<1>2. requests \in 0..MaxRequests /\ MaxRequests \in Nat  BY BoundAssumption DEF Inv, Types
<1>3. Cardinality(Known) \in Nat  BY UsersAssumption, FS_CardinalityType
<1>4. Len(rows) + Len(wss) + Cardinality(A) <= Cardinality(Known) + requests  BY DEF Inv, Room
<1>5. Cardinality(A) \in Nat /\ \A r \in A : Cardinality(A) # 0
  <2>1. A \in SUBSET Reqs  OBVIOUS
  <2>2. IsFiniteSet(A)
    <3> HIDE DEF A
    <3> QED  BY <2>1, ReqsAssumption, FS_Subset
  <2> HIDE DEF A
  <2> QED  BY <2>2, FS_CardinalityType, FS_EmptySet
<1>6. \A r \in Reqs : req[r].pc \in Owing => Cardinality(A) # 0  BY <1>5
<1> HIDE DEF A
<1> QED  BY <1>1, <1>2, <1>3, <1>4, <1>5, <1>6 DEF Max

\* A session is inserted.
LEMMA InvInsertSession ==
  ASSUME Inv, NEW r \in Reqs, InsertSession(r)
  PROVE  Inv'
<1>1. /\ At(r, "insertSession") /\ Goto(r, AfterLogin(req[r].op))
      /\ sessions' = [sessions EXCEPT ![req[r].row] = @ + 1]
      /\ UNCHANGED <<org, rows, wss, secrets, mu, made, overlap, requests, faults>>
  BY DEF InsertSession
<1>2. req \in [Reqs -> Records] /\ req[r] \in Records /\ Knows(req[r])
  BY RecordType DEF Inv, Types
<1>3. req[r].op \in Ops /\ req[r].op # "createUser"  BY <1>1, <1>2 DEF Knows, At
<1>4. PICK p \in {"deleteUser", "perm", "workspace"} : Goto(r, p)
  BY <1>1, <1>3, AfterLoginType
<1>5. PICK q \in Records :
         /\ req' = [req EXCEPT ![r] = q]
         /\ q.pc = p /\ q.op = req[r].op /\ q.user = req[r].user
         /\ q.key = req[r].key /\ q.row = req[r].row /\ q.ws = req[r].ws /\ q.pk = req[r].pk
  BY <1>4, GotoType
<1>6. Knows(q)  BY <1>1, <1>2, <1>4, <1>5 DEF Knows, At
<1>7. Unlock(r) = mu  BY <1>1, NotLocked DEF At
<1>8. LocalStep(r, q)  BY <1>1, <1>3, <1>4, <1>5, <1>7 DEF LocalStep, At
<1>9. secrets' \in [1..Max -> [Keys -> Secrets]] /\ SecretsOK'  BY <1>1, SecretsKept
<1>10. req[r].row \in 1..Max
  <2>1. req[r].row \in Nat /\ req[r].row # 0 /\ req[r].row <= Len(rows)
    BY <1>1, <1>2, RecordType DEF Knows, At
  <2> QED  BY <2>1, Bounds, Lengths
<1>11. sessions \in [1..Max -> Nat]  BY DEF Inv, Types
<1>12. sessions' \in [1..Max -> Nat]  BY <1>1, <1>10, <1>11
<1>13. ASSUME NEW n \in 1..Max
       PROVE  sessions'[n] + Cardinality({s \in Reqs : req'[s].pc = "insertSession" /\ req'[s].row = n})
                 <= Cardinality(Reqs)
  <2> DEFINE A == {s \in Reqs : req[s].pc = "insertSession" /\ req[s].row = n}
             B == {s \in Reqs : req'[s].pc = "insertSession" /\ req'[s].row = n}
  <2>1. A \in SUBSET Reqs /\ B \in SUBSET Reqs  OBVIOUS
  <2>2. sessions[n] \in Nat /\ sessions[n] + Cardinality(A) <= Cardinality(Reqs)
    BY DEF Inv, Types, Sessions
  <2>3. B = A \ {r}  BY <1>2, <1>4, <1>5
  <2>4. r \in A <=> n = req[r].row  BY <1>1 DEF At
  <2>5. sessions'[n] = IF n = req[r].row THEN sessions[n] + 1 ELSE sessions[n]
    BY <1>1, <1>11
  <2> HIDE DEF A, B
  <2>6. /\ Cardinality(A) \in Nat /\ Cardinality(B) \in Nat /\ Cardinality(Reqs) \in Nat
        /\ Cardinality(B) <= Cardinality(A)
        /\ r \in A => Cardinality(B) = Cardinality(A) - 1
    BY <2>1, <2>3, Count
  <2>7. sessions'[n] + Cardinality(B) <= Cardinality(Reqs)  BY <2>2, <2>4, <2>5, <2>6
  <2> QED  BY <2>7 DEF B
<1>14. Sessions'  BY <1>13 DEF Sessions
<1>15. OrgOK'  BY <1>1 DEF Inv, OrgOK
<1>16. made' \subseteq Users /\ faults' \in 0..MaxFaults  BY <1>1 DEF Inv, Types
<1>17. CreatedCanLogin'  BY <1>1 DEF Inv, CreatedCanLogin, Accounts, Complete
<1> QED  BY <1>6, <1>8, <1>9, <1>12, <1>14, <1>15, <1>16, <1>17, Local

\* A secret is created, changed or deleted, or only read.
LEMMA InvStore ==
  ASSUME Inv, NEW r \in Reqs, NEW guard \in BOOLEAN, NEW x \in {NoSecret, Encrypted(req[r])},
         Store(r, guard, x), req[r].op \in SecretOps \cup AppOps
  PROVE  Inv'
<1>1. /\ At(r, "secret") /\ Return(r)
      /\ secrets' = IF guard THEN [secrets EXCEPT ![req[r].ws][req[r].key] = x] ELSE secrets
      /\ UNCHANGED <<org, rows, sessions, wss, mu, made, overlap, requests, faults>>
  BY DEF Store
<1>2. /\ req[r].ws \in Nat /\ req[r].ws # 0 /\ req[r].ws <= Len(wss) /\ req[r].pk = req[r].ws
      /\ Owner(req[r].ws) = req[r].user /\ req[r].key \in Keys /\ req[r].user \in Users
  BY <1>1, RecordType DEF Knows, At
<1>3. req[r].ws \in 1..Max  BY <1>2, Bounds, Lengths
<1>4. x \in Secrets  BY <1>2 DEF Secrets, NoSecret, Encrypted
<1>5. secrets \in [1..Max -> [Keys -> Secrets]] /\ SecretsOK  BY DEF Inv, Types
<1>6. secrets' \in [1..Max -> [Keys -> Secrets]]  BY <1>1, <1>3, <1>4, <1>5, <1>2
<1>7. SecretsOK'
  <2> SUFFICES ASSUME NEW w \in 1..Max, NEW k \in Keys, secrets'[w][k] # NoSecret
               PROVE  w <= Len(wss) /\ secrets'[w][k].with = w /\ secrets'[w][k].by = Owner(w)
    BY <1>1 DEF SecretsOK, Owner
  <2>1. CASE secrets'[w][k] = secrets[w][k]  BY <1>5, <2>1 DEF SecretsOK
  <2>2. CASE secrets'[w][k] # secrets[w][k]
    <3>1. w = req[r].ws /\ secrets'[w][k] = x  BY <1>1, <1>5, <2>2
    <3>2. x = Encrypted(req[r])  BY <3>1
    <3> QED  BY <1>2, <3>1, <3>2 DEF Encrypted
  <2> QED  BY <2>1, <2>2
<1>8. Unlock(r) = mu  BY <1>1, NotLocked DEF At
<1>9. /\ Idle \in Records /\ Knows(Idle)
      /\ Idle.pc = "idle" /\ Idle.op = NoOne
  BY IdleType
<1>10. LocalStep(r, Idle)
  <2>1. NoOne # "createUser"  BY DEF NoOne
  <2> QED  BY <1>1, <1>8, <1>9, <2>1 DEF LocalStep, Return
<1>11. sessions' \in [1..Max -> Nat] /\ Sessions'
  BY <1>1, <1>9, SessionsStep DEF Inv, Return
<1>12. OrgOK'  BY <1>1 DEF Inv, OrgOK
<1>13. made' \subseteq Users /\ faults' \in 0..MaxFaults  BY <1>1 DEF Inv, Types
<1>14. CreatedCanLogin'  BY <1>1 DEF Inv, CreatedCanLogin, Accounts, Complete
<1> QED  BY <1>6, <1>7, <1>9, <1>10, <1>11, <1>12, <1>13, <1>14, Local

\* A request that has just been made or is over is not one of those that create accounts.
LEMMA OthersMake ==
  ASSUME Types, Makers, NEW r \in Reqs, NEW q \in Records, req' = [req EXCEPT ![r] = q],
         UNCHANGED <<rows, overlap>>, q.op # "createUser", q.pc \notin Making
  PROVE  Makers'
<1>1. req \in [Reqs -> Records]  BY DEF Types
<1>2. \A s \in Reqs : req'[s] = IF s = r THEN q ELSE req[s]  BY <1>1
<1>3. \A u : Accounts(u)' = Accounts(u)  BY DEF Accounts, Complete
<1>4. \A s, t \in Reqs : s # t /\ req'[s].pc \in Inserting /\ req'[t].pc \in Inserting
                         => req'[s].row # req'[t].row
  BY <1>2 DEF Makers
<1>5. \A s, t \in Reqs : /\ s # t /\ req'[s].op = "createUser" /\ req'[t].op = "createUser"
                         /\ req'[s].user = req'[t].user
                         => req'[s].user \in overlap
  BY <1>2 DEF Makers
<1>6. \A s \in Reqs : req'[s].pc \in Making /\ req'[s].user \notin overlap
                      => Accounts(req'[s].user) = {}
  BY <1>2 DEF Makers
<1> QED  BY <1>3, <1>4, <1>5, <1>6 DEF Makers

\* Infisical takes the creation of a request, and the request goes on with record q.
LEMMA NewWorkspace ==
  ASSUME Inv, NEW r \in Reqs, At(r, "post"), NEW st \in {"made", "pending"}, NEW q \in Records, Knows(q)',
         req' = [req EXCEPT ![r] = q],
         Asked(r, st), mu' = NoOne,
         q.pc \in {"key", "idle"}, q.op # "createUser",
         UNCHANGED <<org, rows, sessions, secrets, made, overlap, requests>>,
         faults' \in 0..MaxFaults
  PROVE  Inv'
<1>1. /\ req \in [Reqs -> Records] /\ wss \in Seq(Spaces)
      /\ Posting /\ Workspaces /\ OneWorkspacePerName /\ SecretsOK /\ Room /\ Sessions
      /\ Types /\ Makers
  BY DEF Inv, Types
<1>2. \A s \in Reqs : req'[s] = IF s = r THEN q ELSE req[s]  BY <1>1
<1>3. req[r].pc = "post" /\ Waited(WsName(r)) = {} /\ mu = r  BY <1>1 DEF Posting, At
<1>4. /\ req[r].row \in Nat /\ req[r].row # 0 /\ req[r].row <= Len(rows)
      /\ rows[req[r].row].email = req[r].user /\ req[r].user \in Users
  BY <1>3, RecordType DEF Knows
<1>5. req[r].name \in Seq(Letters) /\ req[r].user \in Seq(Letters)
  BY <1>4, RequestName, UsersAssumption
<1>6. WsName(r) \in Seq(Letters)  BY <1>5, NameType DEF WsName
<1> DEFINE x == [name |-> WsName(r), row |-> req[r].row, st |-> st]
<1>7. x \in Spaces /\ x.name = WsName(r) /\ x.row = req[r].row /\ x.st = st
  BY <1>4, <1>6 DEF Spaces
<1> HIDE DEF x
<1>8. wss' = Append(wss, x)  BY DEF Asked, x
<1>9. /\ wss' \in Seq(Spaces) /\ Len(wss') = Len(wss) + 1
      /\ \A w \in 1..Len(wss) : wss'[w] = wss[w]
      /\ wss'[Len(wss) + 1] = x
  BY <1>1, <1>7, <1>8, AppendProperties
<1>10. /\ Len(rows) \in Nat /\ Len(wss) \in Nat /\ DOMAIN wss = 1..Len(wss)
       /\ DOMAIN rows = 1..Len(rows)
  BY Lengths
<1>11. DOMAIN wss' = 1..Len(wss) + 1  BY <1>9, LenProperties
<1>12. /\ \A w \in 1..Len(wss) : Owner(w)' = Owner(w)
       /\ \A w : w = Len(wss) + 1 => Owner(w)' = req[r].user
  BY <1>4, <1>7, <1>9, <1>10 DEF Owner
<1>13. Types'
  <2>1. req' \in [Reqs -> Records]  BY <1>1
  <2> QED  BY <1>1, <1>9, <2>1 DEF Types
<1>14. ASSUME NEW s \in Reqs PROVE Knows(req[s])'
  <2>1. CASE s = r
    <3>1. req'[s] = q  BY <1>2, <2>1
    <3> QED  BY <3>1
  <2>2. CASE s # r
    <3>1. PICK p \in Records : p = req[s] /\ p = req'[s] /\ Knows(p)
      BY <1>1, <1>2, <2>2, RecordType
    <3>2. p.ws \in Nat /\ p.row \in Nat /\ p.pk \in Nat  BY DEF Records
    <3>3. p.ws # 0 => Owner(p.ws)' = Owner(p.ws)  BY <1>10, <1>12, <3>1, <3>2 DEF Knows
    <3>4. Knows(p)'  BY <1>9, <1>10, <3>1, <3>2, <3>3 DEF Knows
    <3> QED  BY <3>1, <3>4
  <2> QED  BY <2>1, <2>2
<1>15. Posting'
  <2>1. \A s \in Reqs : req'[s].pc \notin Locked
    BY <1>1, <1>2, <1>3 DEF Posting
  <2>2. NoOne \notin Reqs  BY ReqsAssumption DEF NoOne
  <2> QED  BY <2>1, <2>2 DEF Posting
<1>16. Workspaces'
  <2> SUFFICES ASSUME NEW w \in 1..Len(wss) + 1
               PROVE  /\ wss'[w].row \in DOMAIN rows
                      /\ \E n \in Seq(Letters) : wss'[w].name = UserWorkspaceName(n, Owner(w)')
    BY <1>11 DEF Workspaces
  <2>1. CASE w \in 1..Len(wss)  BY <1>1, <1>9, <1>10, <1>12, <2>1 DEF Workspaces
  <2>2. CASE w = Len(wss) + 1
    <3>1. wss'[w].row \in DOMAIN rows  BY <1>4, <1>7, <1>9, <1>10, <2>2
    <3>2. wss'[w].name = UserWorkspaceName(req[r].name, Owner(w)')
      BY <1>7, <1>9, <1>12, <2>2 DEF WsName
    <3> QED  BY <1>5, <3>1, <3>2
  <2> QED  BY <1>10, <2>1, <2>2
<1>17. OneWorkspacePerName'
  <2>1. \A w \in 1..Len(wss) : wss[w].st = "made" => wss[w].name # WsName(r)
    BY <1>3, <1>10 DEF Waited
  <2> SUFFICES ASSUME NEW v \in 1..Len(wss) + 1, NEW w \in 1..Len(wss) + 1,
                      wss'[v].name = wss'[w].name, wss'[v].st = "made", wss'[w].st = "made"
               PROVE  v = w
    BY <1>11 DEF OneWorkspacePerName
  <2>2. CASE v \in 1..Len(wss) /\ w \in 1..Len(wss)
    BY <1>1, <1>9, <1>10, <2>2 DEF OneWorkspacePerName
  <2>3. CASE v = Len(wss) + 1 /\ w \in 1..Len(wss)  BY <1>7, <1>9, <2>1, <2>3
  <2>4. CASE w = Len(wss) + 1 /\ v \in 1..Len(wss)  BY <1>7, <1>9, <2>1, <2>4
  <2>5. CASE v = Len(wss) + 1 /\ w = Len(wss) + 1  BY <2>5
  <2> QED  BY <1>10, <2>2, <2>3, <2>4, <2>5
<1>18. SecretsOK'
  <2> SUFFICES ASSUME NEW w \in 1..Max, NEW k \in Keys, secrets[w][k] # NoSecret
               PROVE  /\ w <= Len(wss') /\ secrets[w][k].with = w
                      /\ secrets[w][k].by = Owner(w)'
    BY DEF SecretsOK
  <2>1. w <= Len(wss) /\ secrets[w][k].with = w /\ secrets[w][k].by = Owner(w)
    BY <1>1 DEF SecretsOK
  <2> QED  BY <1>9, <1>10, <1>12, <2>1, Bounds
<1>19. Makers'
  BY <1>1, OthersMake
<1>20. CreatedCanLogin' /\ OrgOK'
  <2>1. CreatedCanLogin'  BY DEF Inv, CreatedCanLogin, Accounts, Complete
  <2>2. OrgOK'  BY DEF Inv, OrgOK
  <2> QED  BY <2>1, <2>2
<1>21. Room'
  <2> DEFINE A == {s \in Reqs : req[s].pc \in Owing}
             B == {s \in Reqs : req'[s].pc \in Owing}
  <2>1. B = A \ {r} /\ r \in A  BY <1>2, <1>3
  <2>2. A \in SUBSET Reqs /\ B \in SUBSET Reqs  OBVIOUS
  <2>3. Len(rows) + Len(wss) + Cardinality(A) <= Cardinality(Known) + requests  BY <1>1 DEF Room
  <2>4. Room' <=> Len(rows) + Len(wss') + Cardinality(B) <= Cardinality(Known) + requests
    BY DEF Room
  <2> HIDE DEF A, B
  <2>5. Cardinality(B) = Cardinality(A) - 1 /\ Cardinality(A) \in Nat  BY <2>1, <2>2, Count
  <2>6. Cardinality(Known) \in Nat /\ requests \in Nat
    BY <1>1, UsersAssumption, FS_CardinalityType DEF Types
  <2> QED  BY <1>9, <1>10, <2>3, <2>4, <2>5, <2>6
<1>22. Sessions'  BY <1>1, SessionsStep
<1> QED
  BY <1>13, <1>14, <1>15, <1>16, <1>17, <1>18, <1>19, <1>20, <1>21, <1>22 DEF Inv

\* The answer comes, or is lost.
LEMMA InvPost ==
  ASSUME Inv, NEW r \in Reqs, PostWorkspace(r) \/ PostAnswerLost(r)
  PROVE  Inv'
<1>1. req \in [Reqs -> Records] /\ req[r] \in Records /\ Knows(req[r])
  BY RecordType DEF Inv, Types
<1>2. PICK st \in {"made", "pending"} :
           /\ At(r, "post") /\ Asked(r, st)
           /\ UNCHANGED <<org, rows, sessions, secrets, made, overlap, requests>>
  BY DEF PostWorkspace, PostAnswerLost
<1>3. mu = r /\ req[r].op # "createUser"  BY <1>1, <1>2 DEF Inv, Posting, At, Knows
<1>4. mu' = NoOne  BY <1>3 DEF PostWorkspace, PostAnswerLost, Unlock
<1>5. faults \in 0..MaxFaults /\ MaxFaults \in Nat  BY BoundAssumption DEF Inv, Types
<1>6. faults' \in 0..MaxFaults  BY <1>5 DEF PostWorkspace, PostAnswerLost
<1>7. /\ Len(rows) \in Nat /\ Len(wss) \in Nat
      /\ req[r].row \in Nat /\ req[r].row # 0 /\ req[r].row <= Len(rows) /\ req[r].ws \in Nat
      /\ req[r].pk \in Nat /\ req[r].pk <= Len(wss)
      /\ rows[req[r].row].email = req[r].user
  BY <1>1, <1>2, Lengths, RecordType DEF Knows, At
<1>8. /\ Len(wss') = Len(wss) + 1
      /\ wss'[Len(wss) + 1].row = req[r].row
  <2> DEFINE x == [name |-> WsName(r), row |-> req[r].row, st |-> st]
  <2>1. x.row = req[r].row  OBVIOUS
  <2>2. x \in Spaces
    <3>1. req[r].name \in Seq(Letters) /\ req[r].user \in Seq(Letters)
      BY <1>1, <1>2, RequestName, UsersAssumption DEF Knows, At
    <3> QED  BY <1>7, <3>1, NameType DEF WsName, Spaces
  <2>3. wss' = Append(wss, x)  BY <1>2 DEF Asked
  <2>4. wss \in Seq(Spaces)  BY DEF Inv, Types
  <2> HIDE DEF x
  <2> QED  BY <2>1, <2>2, <2>3, <2>4, AppendProperties
<1>9. CASE PostAnswerLost(r)
  <2>1. Idle \in Records /\ Idle.pc = "idle" /\ Idle.op = NoOne  BY IdleType
  <2>2. req' = [req EXCEPT ![r] = Idle]  BY <1>9 DEF PostAnswerLost, Return
  <2>3. Knows(Idle)'
    <3>1. /\ Idle.pc = "idle" /\ Idle.op = NoOne /\ Idle.user = <<>> /\ Idle.row = 0
          /\ Idle.ws = 0 /\ Idle.pk = 0
      BY DEF Idle
    <3>2. NoOne \notin Ops  BY DEF NoOne, Ops, SecretOps, AppOps
    <3> QED  BY <1>2, <1>7, <1>8, <3>1, <3>2 DEF Knows, Ops
  <2>4. NoOne # "createUser"  BY DEF NoOne
  <2> QED  BY <1>2, <1>4, <1>6, <2>1, <2>2, <2>3, <2>4, NewWorkspace
<1>10. CASE PostWorkspace(r)
  <2>0. PICK q : q = [req[r] EXCEPT !.pc = "key", !.ws = Len(wss) + 1]  OBVIOUS
  <2>1. req' = [req EXCEPT ![r] = q]  BY <1>8, <1>10, <2>0 DEF PostWorkspace
  <2>2. /\ q \in Records /\ q.pc = "key" /\ q.op = req[r].op /\ q.user = req[r].user
        /\ q.key = req[r].key /\ q.row = req[r].row /\ q.ws = Len(wss) + 1 /\ q.pk = req[r].pk
    <3>1. "key" \in Pcs /\ Len(wss) + 1 \in Nat  BY <1>7
    <3> HIDE DEF Pcs
    <3> QED  BY <1>1, <2>0, <3>1 DEF Records
  <2>3. Owner(q.ws)' = q.user  BY <1>2, <1>7, <1>8, <2>2 DEF Owner
  <2>4. Knows(q)'  BY <1>1, <1>2, <1>7, <1>8, <2>2, <2>3 DEF Knows, At
  <2> QED  BY <1>2, <1>3, <1>4, <1>6, <2>1, <2>2, <2>4, NewWorkspace
<1> QED  BY <1>9, <1>10

\* Infisical makes a workspace that no request waits for.
LEMMA InvMadeLate ==
  ASSUME Inv, MadeLate
  PROVE  Inv'
<1>1. UNCHANGED <<org, rows, sessions, secrets, mu, req, made, overlap, requests, faults>>
  BY DEF MadeLate
<1>2. PICK w \in DOMAIN wss : wss[w].st = "pending" /\ wss' = [wss EXCEPT ![w].st = "late"]
  BY DEF MadeLate
<1>3. /\ Len(wss) \in Nat /\ DOMAIN wss = 1..Len(wss) /\ Len(rows) \in Nat
      /\ \A v \in 1..Len(wss) : wss[v] \in Spaces
  BY Lengths
<1>4. wss \in [1..Len(wss) -> Spaces]  BY LenProperties DEF Inv, Types
<1>5. PICK x : x = [wss[w] EXCEPT !.st = "late"]  OBVIOUS
<1>6. x \in Spaces /\ x.name = wss[w].name /\ x.row = wss[w].row /\ x.st = "late"
  BY <1>3, <1>5 DEF Spaces
<1>7. wss' = [wss EXCEPT ![w] = x]  BY <1>2, <1>5
<1>8. /\ wss' \in [1..Len(wss) -> Spaces] /\ DOMAIN wss' = DOMAIN wss
      /\ \A v \in 1..Len(wss) : /\ wss'[v].name = wss[v].name /\ wss'[v].row = wss[v].row
                                /\ wss'[v].st = "made" <=> wss[v].st = "made"
  BY <1>2, <1>3, <1>4, <1>6, <1>7
<1>9. wss' \in Seq(Spaces) /\ Len(wss') = Len(wss)
  <2>1. wss' \in Seq(Spaces)  BY <1>3, <1>8, SeqDef
  <2>2. Len(wss') \in Nat /\ DOMAIN wss' = 1..Len(wss')  BY <2>1, LenProperties
  <2> QED  BY <1>3, <1>8, <2>1, <2>2
<1>10. \A v \in 1..Len(wss) : Owner(v)' = Owner(v)  BY <1>1, <1>8 DEF Owner
<1>11. Types'
  <2>1. Types  BY DEF Inv
  <2> QED  BY <1>1, <1>9, <2>1 DEF Types
<1>12. ASSUME NEW s \in Reqs PROVE Knows(req[s])'
  <2>1. PICK p \in Records : p = req[s] /\ p = req'[s] /\ Knows(p)
    BY <1>1, RecordType
  <2>2. p.ws \in Nat /\ p.row \in Nat /\ p.pk \in Nat  BY DEF Records
  <2>3. p.ws # 0 => Owner(p.ws)' = Owner(p.ws)  BY <1>3, <1>10, <2>1, <2>2 DEF Knows
  <2>4. Knows(p)'  BY <1>1, <1>9, <2>1, <2>2, <2>3 DEF Knows
  <2> QED  BY <2>1, <2>4
<1>13. Posting'
  <2>1. \A n : Waited(n)' = Waited(n)  BY <1>3, <1>8 DEF Waited
  <2> QED  BY <1>1, <2>1 DEF Inv, Posting, WsName
<1>14. Workspaces'
  BY <1>1, <1>3, <1>8, <1>10 DEF Inv, Workspaces
<1>15. OneWorkspacePerName'
  BY <1>3, <1>8 DEF Inv, OneWorkspacePerName
<1>16. SecretsOK'
  <2> SUFFICES ASSUME NEW v \in 1..Max, NEW k \in Keys, secrets[v][k] # NoSecret
               PROVE  /\ v <= Len(wss') /\ secrets[v][k].with = v
                      /\ secrets[v][k].by = Owner(v)'
    BY <1>1 DEF SecretsOK
  <2>1. v <= Len(wss) /\ secrets[v][k].with = v /\ secrets[v][k].by = Owner(v)
    BY DEF Inv, SecretsOK
  <2> QED  BY <1>3, <1>9, <1>10, <2>1, Bounds
<1>17. Makers' /\ CreatedCanLogin'
  <2>1. Makers'  BY <1>1 DEF Inv, Makers, Accounts, Complete
  <2>2. CreatedCanLogin'  BY <1>1 DEF Inv, CreatedCanLogin, Accounts, Complete
  <2> QED  BY <2>1, <2>2
<1>18. Room' /\ Sessions' /\ OrgOK'
  <2>1. Room'  BY <1>1, <1>9 DEF Inv, Room
  <2>2. Sessions'  BY <1>1 DEF Inv, Sessions
  <2>3. OrgOK'  BY <1>1 DEF Inv, OrgOK
  <2> QED  BY <2>1, <2>2, <2>3
<1> QED
  BY <1>11, <1>12, <1>13, <1>14, <1>15, <1>16, <1>17, <1>18 DEF Inv

----------------------------------------------------------------------------
(* Accounts.                                                               *)

RowSet == [email : Users, keys : BOOLEAN, member : BOOLEAN]

\* A statement of SaveUser: rows are appended, or the request's own row changes.
LEMMA RowStep ==
  ASSUME Inv, NEW r \in Reqs, req[r].pc \in Making, NEW q \in Records, Knows(q)',
         req' = [req EXCEPT ![r] = q], q.pc \in Inserting \cup {"idle"},
         rows' \in Seq(RowSet), Len(rows) <= Len(rows'),
         \A n \in 1..Len(rows) :
            /\ rows'[n].email = rows[n].email
            /\ rows'[n] = rows[n] \/ (req[r].pc \in Inserting /\ n = req[r].row),
         made' \subseteq Users, CreatedCanLogin', Makers', Room',
         UNCHANGED <<org, sessions, wss, secrets, mu, overlap, requests, faults>>
  PROVE  Inv'
<1>1. /\ req \in [Reqs -> Records] /\ Types /\ Posting /\ Workspaces /\ OneWorkspacePerName
      /\ SecretsOK /\ Sessions /\ Makers
  BY DEF Inv, Types
<1>2. \A s \in Reqs : req'[s] = IF s = r THEN q ELSE req[s]  BY <1>1
<1>3. /\ Len(rows) \in Nat /\ Len(wss) \in Nat /\ DOMAIN wss = 1..Len(wss)
      /\ DOMAIN rows = 1..Len(rows)
  BY Lengths
<1>4. Len(rows') \in Nat /\ DOMAIN rows' = 1..Len(rows')  BY LenProperties
<1>5. \A w \in 1..Len(wss) : Owner(w)' = Owner(w)  BY <1>1, <1>3 DEF Owner, Workspaces
<1>6. Types'
  <2>1. req' \in [Reqs -> Records]  BY <1>1
  <2> QED  BY <1>1, <2>1 DEF Types, RowSet
<1>7. ASSUME NEW s \in Reqs PROVE Knows(req[s])'
  <2>1. CASE s = r
    <3>1. req'[s] = q  BY <1>2, <2>1
    <3> QED  BY <3>1
  <2>2. CASE s # r
    <3>1. PICK p \in Records : p = req[s] /\ p = req'[s] /\ Knows(p)
      BY <1>1, <1>2, <2>2, RecordType
    <3>2. p.ws \in Nat /\ p.row \in Nat /\ p.pk \in Nat  BY DEF Records
    <3>3. p.ws # 0 => Owner(p.ws)' = Owner(p.ws)  BY <1>3, <1>5, <3>1, <3>2 DEF Knows
    <3>4. p.row # 0 => rows'[p.row].email = rows[p.row].email  BY <1>3, <3>1, <3>2 DEF Knows
    <3>5. p.pc \in Inserting => rows'[p.row] = rows[p.row]
      BY <1>1, <1>3, <2>2, <3>1, <3>2 DEF Knows, Makers
    <3>6. p.row <= Len(rows')  BY <1>3, <1>4, <3>1, <3>2 DEF Knows
    <3>7. Knows(p)'  BY <3>1, <3>2, <3>3, <3>4, <3>5, <3>6 DEF Knows
    <3> QED  BY <3>1, <3>7
  <2> QED  BY <2>1, <2>2
<1>8. Posting'
  <2>1. \A s \in Reqs : /\ req'[s].pc \in Locked <=> req[s].pc \in Locked
                        /\ req'[s].pc = "post" => req'[s] = req[s]
    BY <1>2
  <2>2. \A s \in Reqs : mu' = s <=> req'[s].pc \in Locked  BY <1>1, <2>1 DEF Posting
  <2>3. \A s \in Reqs : req'[s].pc = "post" => Waited(WsName(s))' = {}
    BY <1>1, <2>1 DEF Posting, Waited, WsName
  <2> QED  BY <2>2, <2>3 DEF Posting
<1>9. Workspaces'
  <2> SUFFICES ASSUME NEW w \in 1..Len(wss)
               PROVE  /\ wss[w].row \in DOMAIN rows'
                      /\ \E n \in Seq(Letters) : wss[w].name = UserWorkspaceName(n, Owner(w)')
    BY <1>3 DEF Workspaces
  <2>1. wss[w].row \in 1..Len(rows)
        /\ \E n \in Seq(Letters) : wss[w].name = UserWorkspaceName(n, Owner(w))
    BY <1>1, <1>3 DEF Workspaces
  <2>2. wss[w].row \in DOMAIN rows'  BY <1>3, <1>4, <2>1
  <2> QED  BY <1>5, <2>1, <2>2
<1>10. OneWorkspacePerName'  BY <1>1 DEF OneWorkspacePerName
<1>11. SecretsOK'
  <2> SUFFICES ASSUME NEW w \in 1..Max, NEW k \in Keys, secrets[w][k] # NoSecret
               PROVE  /\ w <= Len(wss) /\ secrets[w][k].with = w
                      /\ secrets[w][k].by = Owner(w)'
    BY DEF SecretsOK
  <2>1. w <= Len(wss) /\ secrets[w][k].with = w /\ secrets[w][k].by = Owner(w)
    BY <1>1 DEF SecretsOK
  <2> QED  BY <1>3, <1>5, <2>1, Bounds
<1>12. OrgOK'  BY DEF Inv, OrgOK
<1>13. Sessions'  BY <1>1, SessionsStep
<1> QED  BY <1>6, <1>7, <1>8, <1>9, <1>10, <1>11, <1>12, <1>13 DEF Inv

\* A row is inserted, without keys and membership.
LEMMA InvInsertUser ==
  ASSUME Inv, NEW r \in Reqs, InsertUser(r)
  PROVE  Inv'
<1>1. /\ At(r, "insertUser")
      /\ UNCHANGED <<org, sessions, wss, secrets, mu, made, overlap, requests, faults>>
  BY DEF InsertUser
<1>2. /\ req \in [Reqs -> Records] /\ req[r] \in Records /\ Knows(req[r]) /\ Makers /\ Types
      /\ rows \in Seq(RowSet)
  BY RecordType DEF Inv, Types, RowSet
<1>3. CASE Return(r) /\ rows' = rows
  <2>1. Quiet  BY <1>1, <1>3 DEF Quiet
  <2>2. Unlock(r) = mu  BY <1>1, NotLocked DEF At
  <2> QED  BY <1>1, <1>3, <2>1, <2>2, QuietReturn
<1>4. CASE ~(Return(r) /\ rows' = rows)
  <2> DEFINE x == [email |-> req[r].user, keys |-> FALSE, member |-> FALSE]
  <2>1. /\ rows' = Append(rows, x)
        /\ req' = [req EXCEPT ![r].pc = "insertKeys", ![r].row = Len(rows')]
    BY <1>4 DEF InsertUser
  <2>2. /\ x \in RowSet /\ x.email = req[r].user /\ x.keys = FALSE /\ x.member = FALSE
    BY <1>1, <1>2 DEF RowSet, Knows, At
  <2> HIDE DEF x
  <2>3. /\ rows' \in Seq(RowSet) /\ Len(rows') = Len(rows) + 1
        /\ \A n \in 1..Len(rows) : rows'[n] = rows[n]
        /\ rows'[Len(rows) + 1] = x
    BY <1>2, <2>1, <2>2, AppendProperties
  <2>4. Len(rows) \in Nat /\ DOMAIN rows = 1..Len(rows) /\ DOMAIN rows' = 1..Len(rows) + 1
    BY <2>3, Lengths, LenProperties
  <2>5. PICK q : q = [req[r] EXCEPT !.pc = "insertKeys", !.row = Len(rows) + 1]  OBVIOUS
  <2>6. req' = [req EXCEPT ![r] = q]  BY <2>1, <2>3, <2>5
  <2>7. /\ q \in Records /\ q.pc = "insertKeys" /\ q.op = req[r].op /\ q.user = req[r].user
        /\ q.key = req[r].key /\ q.row = Len(rows) + 1 /\ q.ws = req[r].ws /\ q.pk = req[r].pk
    <3>1. "insertKeys" \in Pcs /\ Len(rows) + 1 \in Nat  BY <2>4
    <3> HIDE DEF Pcs
    <3> QED  BY <1>2, <2>5, <3>1 DEF Records
  <2>8. \A s \in Reqs : req'[s] = IF s = r THEN q ELSE req[s]  BY <1>2, <2>6
  <2>9. Knows(q)'
    <3>1. q.ws \in Nat /\ (q.ws # 0 => Owner(q.ws)' = Owner(q.ws))
      <4>1. q.ws \in Nat /\ q.ws <= Len(wss)  BY <1>2, <2>7, RecordType DEF Knows
      <4>2. q.ws # 0 => wss[q.ws].row \in DOMAIN rows  BY <4>1, Lengths DEF Inv, Workspaces
      <4> QED  BY <1>1, <2>3, <2>4, <4>1, <4>2 DEF Owner
    <3>2. q.row # 0 /\ rows'[q.row] = x  BY <2>3, <2>4, <2>7
    <3> QED  BY <1>1, <1>2, <2>2, <2>3, <2>4, <2>7, <3>1, <3>2 DEF Knows, At
  <2>10. \A u : Accounts(u)' = Accounts(u)
    BY <2>2, <2>3, <2>4 DEF Accounts, Complete
  <2>11. Makers'
    <3>1. \A s \in Reqs : req[s].pc \in Inserting => req[s].row # Len(rows) + 1
      <4> SUFFICES ASSUME NEW s \in Reqs PROVE req[s].row # Len(rows) + 1  OBVIOUS
      <4>1. req[s].row \in Nat /\ req[s].row <= Len(rows)  BY RecordType DEF Knows
      <4> QED  BY <2>4, <4>1
    <3>2. \A s, t \in Reqs : s # t /\ req'[s].pc \in Inserting /\ req'[t].pc \in Inserting
                             => req'[s].row # req'[t].row
      BY <1>2, <2>7, <2>8, <3>1 DEF Makers
    <3>3. \A s, t \in Reqs : /\ s # t /\ req'[s].op = "createUser" /\ req'[t].op = "createUser"
                             /\ req'[s].user = req'[t].user
                             => req'[s].user \in overlap
      BY <1>2, <2>7, <2>8 DEF Makers
    <3>4. \A s \in Reqs : req'[s].pc \in Making /\ req'[s].user \notin overlap
                          => Accounts(req'[s].user) = {}
      BY <1>1, <1>2, <2>7, <2>8 DEF Makers, At
    <3> QED  BY <1>1, <1>2, <2>10, <3>2, <3>3, <3>4 DEF Makers
  <2>12. CreatedCanLogin'  BY <1>1, <2>10 DEF Inv, CreatedCanLogin
  <2>13. Room'
    <3> DEFINE A == {s \in Reqs : req[s].pc \in Owing}
               B == {s \in Reqs : req'[s].pc \in Owing}
    <3>1. B = A \ {r} /\ r \in A  BY <1>1, <2>7, <2>8 DEF At
    <3>2. A \in SUBSET Reqs /\ B \in SUBSET Reqs  OBVIOUS
    <3>3. Len(rows) + Len(wss) + Cardinality(A) <= Cardinality(Known) + requests
      BY DEF Inv, Room
    <3>4. Room' <=> Len(rows') + Len(wss) + Cardinality(B) <= Cardinality(Known) + requests
      BY <1>1 DEF Room
    <3> HIDE DEF A, B
    <3>5. Cardinality(B) = Cardinality(A) - 1 /\ Cardinality(A) \in Nat  BY <3>1, <3>2, Count
    <3>6. Cardinality(Known) \in Nat /\ requests \in Nat /\ Len(wss) \in Nat
      BY <1>2, UsersAssumption, FS_CardinalityType, Lengths DEF Types
    <3> QED  BY <2>3, <2>4, <3>3, <3>4, <3>5, <3>6
  <2>14. made' \subseteq Users  BY <1>1, <1>2 DEF Types
  <2>15. req[r].pc \in Making /\ Len(rows) <= Len(rows')  BY <1>1, <2>3, <2>4 DEF At
  <2> QED  BY <1>1, <2>3, <2>6, <2>7, <2>9, <2>11, <2>12, <2>13, <2>14, <2>15, RowStep
<1> QED  BY <1>3, <1>4

\* The request's row is filled in: its keys, or its membership.
LEMMA FillRow ==
  ASSUME Inv, NEW r \in Reqs, req[r].pc \in Inserting, NEW y \in RowSet,
         y.email = rows[req[r].row].email,
         rows' = [rows EXCEPT ![req[r].row] = y]
  PROVE  /\ req[r].row \in 1..Len(rows)
         /\ rows' \in Seq(RowSet) /\ Len(rows') = Len(rows) /\ DOMAIN rows' = DOMAIN rows
         /\ \A n \in 1..Len(rows) : /\ rows'[n].email = rows[n].email
                                    /\ rows'[n] = IF n = req[r].row THEN y ELSE rows[n]
<1>1. req[r].row \in Nat /\ req[r].row # 0 /\ req[r].row <= Len(rows)  BY RecordType DEF Knows
<1>2. req[r].row \in 1..Len(rows)  BY <1>1, Lengths
<1>3. rows \in Seq(RowSet)  BY DEF Inv, Types, RowSet
<1>4. /\ rows' \in Seq(RowSet) /\ Len(rows') = Len(rows)
      /\ \A n \in 1..Len(rows) : rows'[n] = IF n = req[r].row THEN y ELSE rows[n]
  BY <1>2, <1>3, ExceptSeq
<1>5. DOMAIN rows' = DOMAIN rows  BY <1>4, Lengths, LenProperties
<1> QED  BY <1>2, <1>4, <1>5

\* The keys of the row are stored.
LEMMA InvInsertKeys ==
  ASSUME Inv, NEW r \in Reqs, InsertKeys(r)
  PROVE  Inv'
<1>1. /\ At(r, "insertKeys") /\ Goto(r, "insertMember")
      /\ rows' = [rows EXCEPT ![req[r].row].keys = TRUE]
      /\ UNCHANGED <<org, sessions, wss, secrets, mu, made, overlap, requests, faults>>
  BY DEF InsertKeys
<1>2. /\ req \in [Reqs -> Records] /\ req[r] \in Records /\ Knows(req[r]) /\ Makers /\ Types
  BY RecordType DEF Inv, Types
<1>3. req[r].row \in 1..Len(rows) /\ rows[req[r].row] \in RowSet /\ ~rows[req[r].row].member
  <2>1. req[r].row \in Nat /\ req[r].row # 0 /\ req[r].row <= Len(rows) /\ ~rows[req[r].row].member
    BY <1>1, <1>2, RecordType DEF Knows, At
  <2> QED  BY <2>1, Lengths DEF RowSet
<1> DEFINE y == [rows[req[r].row] EXCEPT !.keys = TRUE]
<1>4. /\ y \in RowSet /\ y.email = rows[req[r].row].email /\ y.keys /\ ~y.member
  BY <1>3 DEF RowSet
<1>5. rows' = [rows EXCEPT ![req[r].row] = y]  BY <1>1
<1> HIDE DEF y
<1>6. /\ rows' \in Seq(RowSet) /\ Len(rows') = Len(rows) /\ DOMAIN rows' = DOMAIN rows
      /\ \A n \in 1..Len(rows) : /\ rows'[n].email = rows[n].email
                                 /\ rows'[n] = IF n = req[r].row THEN y ELSE rows[n]
  BY <1>1, <1>4, <1>5, FillRow DEF At
<1>7. PICK q \in Records :
         /\ req' = [req EXCEPT ![r] = q]
         /\ q.pc = "insertMember" /\ q.op = req[r].op /\ q.user = req[r].user
         /\ q.key = req[r].key /\ q.row = req[r].row /\ q.ws = req[r].ws /\ q.pk = req[r].pk
  BY <1>1, GotoType
<1>8. \A s \in Reqs : req'[s] = IF s = r THEN q ELSE req[s]  BY <1>2, <1>7
<1>9. Knows(q)'
  <2>1. q.ws \in Nat /\ (q.ws # 0 => Owner(q.ws)' = Owner(q.ws))
    <3>1. q.ws \in Nat /\ q.ws <= Len(wss)  BY <1>2, <1>7, RecordType DEF Knows
    <3>2. q.ws # 0 => wss[q.ws].row \in DOMAIN rows  BY <3>1, Lengths DEF Inv, Workspaces
    <3> QED  BY <1>1, <1>6, <3>1, <3>2, Lengths DEF Owner
  <2>2. q.row # 0 /\ rows'[q.row] = y  BY <1>3, <1>6, <1>7
  <2> QED  BY <1>1, <1>2, <1>4, <1>6, <1>7, <2>1, <2>2 DEF Knows, At
<1>10. \A u : Accounts(u)' = Accounts(u)
  BY <1>3, <1>4, <1>6, Lengths DEF Accounts, Complete
<1>11. Makers'
  <2>1. \A s, t \in Reqs : s # t /\ req'[s].pc \in Inserting /\ req'[t].pc \in Inserting
                           => req'[s].row # req'[t].row
    BY <1>1, <1>2, <1>7, <1>8 DEF Makers, At
  <2>2. \A s, t \in Reqs : /\ s # t /\ req'[s].op = "createUser" /\ req'[t].op = "createUser"
                           /\ req'[s].user = req'[t].user
                           => req'[s].user \in overlap
    BY <1>2, <1>7, <1>8 DEF Makers
  <2>3. \A s \in Reqs : req'[s].pc \in Making /\ req'[s].user \notin overlap
                        => Accounts(req'[s].user) = {}
    BY <1>1, <1>2, <1>7, <1>8 DEF Makers, At
  <2> QED  BY <1>1, <1>2, <1>10, <2>1, <2>2, <2>3 DEF Makers
<1>12. CreatedCanLogin'  BY <1>1, <1>10 DEF Inv, CreatedCanLogin
<1>13. Room'
  <2>1. {s \in Reqs : req'[s].pc \in Owing} = {s \in Reqs : req[s].pc \in Owing}
    BY <1>1, <1>7, <1>8 DEF At
  <2> QED  BY <1>1, <1>6, <2>1 DEF Inv, Room
<1>14. made' \subseteq Users  BY <1>1, <1>2 DEF Types
<1>15. /\ req[r].pc \in Making /\ req[r].pc \in Inserting /\ Len(rows) <= Len(rows')
       /\ \A n \in 1..Len(rows) : rows'[n] = rows[n] \/ n = req[r].row
  BY <1>1, <1>6, Lengths DEF At
<1> QED  BY <1>1, <1>6, <1>7, <1>9, <1>11, <1>12, <1>13, <1>14, <1>15, RowStep

\* The membership completes the account, unless there is no organisation.
LEMMA InvInsertMember ==
  ASSUME Inv, NEW r \in Reqs, InsertMember(r)
  PROVE  Inv'
<1>0. PICK b \in BOOLEAN : b <=> org = "org"  OBVIOUS
<1>1. /\ At(r, "insertMember") /\ Return(r)
      /\ rows' = [rows EXCEPT ![req[r].row].member = b]
      /\ made' = IF b THEN made \cup {req[r].user} ELSE made
      /\ UNCHANGED <<org, sessions, wss, secrets, mu, overlap, requests, faults>>
  BY <1>0 DEF InsertMember
<1>2. /\ req \in [Reqs -> Records] /\ req[r] \in Records /\ Knows(req[r]) /\ Makers /\ Types
  BY RecordType DEF Inv, Types
<1>3. /\ req[r].row \in 1..Len(rows) /\ rows[req[r].row] \in RowSet /\ ~rows[req[r].row].member
      /\ rows[req[r].row].keys /\ rows[req[r].row].email = req[r].user /\ req[r].user \in Users
      /\ req[r].op = "createUser"
  <2>1. /\ req[r].row \in Nat /\ req[r].row # 0 /\ req[r].row <= Len(rows)
        /\ ~rows[req[r].row].member /\ rows[req[r].row].keys
        /\ rows[req[r].row].email = req[r].user /\ req[r].user \in Users
        /\ req[r].op = "createUser"
    BY <1>1, <1>2, RecordType DEF Knows, At
  <2> QED  BY <2>1, Lengths DEF RowSet
<1> DEFINE y == [rows[req[r].row] EXCEPT !.member = b]
<1>4. /\ y \in RowSet /\ y.email = rows[req[r].row].email /\ y.keys /\ y.member = b
  BY <1>3 DEF RowSet
<1>5. rows' = [rows EXCEPT ![req[r].row] = y]  BY <1>1
<1> HIDE DEF y
<1>6. /\ rows' \in Seq(RowSet) /\ Len(rows') = Len(rows) /\ DOMAIN rows' = DOMAIN rows
      /\ \A n \in 1..Len(rows) : /\ rows'[n].email = rows[n].email
                                 /\ rows'[n] = IF n = req[r].row THEN y ELSE rows[n]
  BY <1>1, <1>4, <1>5, FillRow DEF At
<1>7. Idle \in Records /\ Idle.pc = "idle" /\ Idle.op = NoOne /\ NoOne # "createUser"
  BY IdleType DEF NoOne
<1>8. req' = [req EXCEPT ![r] = Idle]  BY <1>1 DEF Return
<1>9. \A s \in Reqs : req'[s] = IF s = r THEN Idle ELSE req[s]  BY <1>2, <1>8
<1>10. Knows(Idle)'
  <2>1. Knows(Idle)  BY IdleType
  <2>2. Idle.ws = 0 /\ Idle.row = 0  BY DEF Idle
  <2> QED  BY <1>1, <1>6, <1>7, <2>1, <2>2 DEF Knows
<1>11. \A u : Accounts(u)' = Accounts(u) \cup
                (IF b /\ u = req[r].user THEN {req[r].row} ELSE {})
  BY <1>3, <1>4, <1>6, Lengths DEF Accounts, Complete
<1>12. Makers'
  <2>1. \A s, t \in Reqs : s # t /\ req'[s].pc \in Inserting /\ req'[t].pc \in Inserting
                           => req'[s].row # req'[t].row
    BY <1>2, <1>7, <1>9 DEF Makers
  <2>2. \A s, t \in Reqs : /\ s # t /\ req'[s].op = "createUser" /\ req'[t].op = "createUser"
                           /\ req'[s].user = req'[t].user
                           => req'[s].user \in overlap
    BY <1>2, <1>7, <1>9 DEF Makers
  <2>3. ASSUME NEW s \in Reqs, req'[s].pc \in Making, req'[s].user \notin overlap
        PROVE  Accounts(req[s].user)' = {}
    <3>1. s # r /\ req'[s] = req[s]  BY <1>7, <1>9, <2>3
    <3>2. req[s].op = "createUser"  BY <2>3, <3>1, RecordType DEF Knows
    <3>3. req[s].user # req[r].user  BY <1>2, <1>3, <2>3, <3>1, <3>2 DEF Makers
    <3>4. Accounts(req[s].user) = {}  BY <1>2, <2>3, <3>1 DEF Makers
    <3>5. PICK u : u = req[s].user /\ u = req'[s].user  BY <3>1
    <3>6. Accounts(u)' = {}  BY <1>11, <3>3, <3>4, <3>5
    <3> QED  BY <3>5, <3>6
  <2>4. ASSUME NEW u \in Users \ overlap PROVE \A m, n \in Accounts(u)' : m = n
    <3>1. \A m, n \in Accounts(u) : m = n  BY <1>2 DEF Makers
    <3>2. u = req[r].user => Accounts(u) = {}  BY <1>1, <1>2 DEF Makers, At
    <3> QED  BY <1>11, <3>1, <3>2
  <2>5. overlap' = overlap  BY <1>1
  <2> QED  BY <2>1, <2>2, <2>3, <2>4, <2>5 DEF Makers
<1>13. CreatedCanLogin'
  <2> SUFFICES ASSUME NEW u \in made' PROVE Accounts(u)' # {}  BY DEF CreatedCanLogin
  <2>1. CASE u \in made
    <3>1. Accounts(u) # {}  BY <2>1 DEF Inv, CreatedCanLogin
    <3> QED  BY <1>11, <3>1
  <2>2. CASE u \notin made
    <3>1. b /\ u = req[r].user  BY <1>1, <2>2
    <3> QED  BY <1>11, <3>1
  <2> QED  BY <2>1, <2>2
<1>14. Room'
  <2>1. {s \in Reqs : req'[s].pc \in Owing} = {s \in Reqs : req[s].pc \in Owing}
    BY <1>1, <1>7, <1>9 DEF At
  <2> QED  BY <1>1, <1>6, <2>1 DEF Inv, Room
<1>15. made' \subseteq Users  BY <1>1, <1>2, <1>3 DEF Types
<1>16. /\ req[r].pc \in Making /\ req[r].pc \in Inserting /\ Len(rows) <= Len(rows')
       /\ \A n \in 1..Len(rows) : rows'[n] = rows[n] \/ n = req[r].row
  BY <1>1, <1>6, Lengths DEF At
<1> QED  BY <1>1, <1>6, <1>7, <1>8, <1>10, <1>12, <1>13, <1>14, <1>15, <1>16, RowStep

\* A request arrives; a second creation of a user is noted.
LEMMA InvReceive ==
  ASSUME Inv, NEW r \in Reqs, NEW op \in Ops, NEW user \in Users,
         NEW name \in Names \cup {<<>>}, NEW key \in Keys \cup {NoOne},
         op \in SecretOps \cup AppOps => key \in Keys,
         Receive(r, op, user, name, key)
  PROVE  Inv'
<1>1. /\ At(r, "idle") /\ requests < MaxRequests /\ requests' = requests + 1
      /\ UNCHANGED <<org, rows, sessions, wss, secrets, mu, made, faults>>
      /\ overlap' = IF op = "createUser" /\ \E s \in Reqs : req[s].op = op /\ req[s].user = user
                    THEN overlap \cup {user} ELSE overlap
  BY DEF Receive
<1>2. PICK q : q = [Idle EXCEPT !.pc = IF op = "createUser" THEN "find" ELSE "login",
                                !.op = op, !.user = user, !.name = name, !.key = key]
  OBVIOUS
<1>3. req' = [req EXCEPT ![r] = q]  BY <1>2 DEF Receive
<1>4. /\ q \in Records /\ q.pc = IF op = "createUser" THEN "find" ELSE "login"
      /\ q.op = op /\ q.user = user /\ q.key = key /\ q.row = 0 /\ q.ws = 0 /\ q.pk = 0
  <2>1. Idle \in Records /\ Idle.row = 0 /\ Idle.ws = 0 /\ Idle.pk = 0  BY IdleType DEF Idle
  <2>2. (IF op = "createUser" THEN "find" ELSE "login") \in Pcs  OBVIOUS
  <2> HIDE DEF Pcs
  <2> QED  BY <1>2, <2>1, <2>2 DEF Records
<1>5. /\ req \in [Reqs -> Records] /\ Types /\ Posting /\ Workspaces /\ OneWorkspacePerName
      /\ SecretsOK /\ Sessions /\ Makers /\ Room
  BY DEF Inv, Types
<1>6. \A s \in Reqs : req'[s] = IF s = r THEN q ELSE req[s]  BY <1>3, <1>5
<1>7. Types'
  <2>1. req' \in [Reqs -> Records]  BY <1>3, <1>4, <1>5
  <2>2. requests' \in 0..MaxRequests
    <3>1. requests \in 0..MaxRequests  BY <1>5 DEF Types
    <3> QED  BY <1>1, <3>1, BoundAssumption
  <2>3. overlap' \subseteq Users  BY <1>1, <1>5 DEF Types
  <2> QED  BY <1>1, <1>5, <2>1, <2>2, <2>3 DEF Types
<1>8. ASSUME NEW s \in Reqs PROVE Knows(req[s])'
  <2>1. PICK p \in Records : p = req'[s] /\ Knows(p)
    <3>1. Knows(q)
      <4>1. Len(rows) \in Nat /\ Len(wss) \in Nat  BY Lengths
      <4> QED  BY <1>4, <4>1 DEF Knows
    <3> QED  BY <1>4, <1>6, <3>1, RecordType
  <2>2. Knows(p)'  BY <1>1, <2>1 DEF Knows, Owner
  <2> QED  BY <2>1, <2>2
<1>9. Posting'
  <2>1. \A s \in Reqs : /\ req'[s].pc \in Locked <=> req[s].pc \in Locked
                        /\ req'[s].pc = "post" => req'[s] = req[s]
    BY <1>1, <1>4, <1>6 DEF At
  <2>2. \A s \in Reqs : mu' = s <=> req'[s].pc \in Locked  BY <1>1, <1>5, <2>1 DEF Posting
  <2>3. \A s \in Reqs : req'[s].pc = "post" => Waited(WsName(s))' = {}
    BY <1>1, <1>5, <2>1 DEF Posting, Waited, WsName
  <2> QED  BY <2>2, <2>3 DEF Posting
<1>10. Workspaces' /\ OneWorkspacePerName' /\ SecretsOK'
  <2>1. Workspaces'  BY <1>1, <1>5 DEF Workspaces, Owner
  <2>2. OneWorkspacePerName'  BY <1>1, <1>5 DEF OneWorkspacePerName
  <2>3. SecretsOK'  BY <1>1, <1>5 DEF SecretsOK, Owner
  <2> QED  BY <2>1, <2>2, <2>3
<1>11. Makers'
  <2>1. \A u : Accounts(u)' = Accounts(u)  BY <1>1 DEF Accounts, Complete
  <2>2. \A s, t \in Reqs : s # t /\ req'[s].pc \in Inserting /\ req'[t].pc \in Inserting
                           => req'[s].row # req'[t].row
    BY <1>4, <1>5, <1>6 DEF Makers
  <2>3. overlap \subseteq overlap'  BY <1>1
  <2>4. ASSUME NEW s \in Reqs, NEW t \in Reqs, s # t, req'[s].op = "createUser",
               req'[t].op = "createUser", req'[s].user = req'[t].user
        PROVE  req'[s].user \in overlap'
    <3>1. CASE s # r /\ t # r  BY <1>5, <1>6, <2>3, <2>4, <3>1 DEF Makers
    <3>2. CASE s = r /\ t # r
      <4>1. op = "createUser" /\ req[t].op = op /\ req[t].user = user /\ req'[s].user = user
        BY <1>4, <1>6, <2>4, <3>2
      <4> QED  BY <1>1, <4>1
    <3>3. CASE t = r /\ s # r
      <4>1. op = "createUser" /\ req[s].op = op /\ req[s].user = user /\ req'[s].user = user
        BY <1>4, <1>6, <2>4, <3>3
      <4> QED  BY <1>1, <4>1
    <3> QED  BY <2>4, <3>1, <3>2, <3>3
  <2>5. \A s \in Reqs : req'[s].pc \in Making /\ req'[s].user \notin overlap'
                        => Accounts(req'[s].user) = {}
    BY <1>4, <1>5, <1>6, <2>3 DEF Makers
  <2>6. \A u \in Users \ overlap' : \A m, n \in Accounts(u) : m = n  BY <1>5, <2>3 DEF Makers
  <2> QED  BY <2>1, <2>2, <2>4, <2>5, <2>6 DEF Makers
<1>12. CreatedCanLogin' /\ OrgOK'
  <2>1. CreatedCanLogin'  BY <1>1 DEF Inv, CreatedCanLogin, Accounts, Complete
  <2>2. OrgOK'  BY <1>1 DEF Inv, OrgOK
  <2> QED  BY <2>1, <2>2
<1>13. Room'
  <2> DEFINE A == {s \in Reqs : req[s].pc \in Owing}
             B == {s \in Reqs : req'[s].pc \in Owing}
  <2>1. B = A \cup {r} /\ r \in Reqs \ A  BY <1>1, <1>4, <1>6 DEF At
  <2>2. A \in SUBSET Reqs /\ B \in SUBSET Reqs  OBVIOUS
  <2>3. Len(rows) + Len(wss) + Cardinality(A) <= Cardinality(Known) + requests
    BY <1>5 DEF Room
  <2>4. Room' <=> Len(rows) + Len(wss) + Cardinality(B) <= Cardinality(Known) + (requests + 1)
    BY <1>1 DEF Room
  <2> HIDE DEF A, B
  <2>5. Cardinality(B) = Cardinality(A) + 1 /\ Cardinality(A) \in Nat  BY <2>1, <2>2, Count
  <2>6. /\ Cardinality(Known) \in Nat /\ requests \in Nat
        /\ Len(wss) \in Nat /\ Len(rows) \in Nat
    BY <1>5, UsersAssumption, FS_CardinalityType, Lengths DEF Types
  <2> QED  BY <2>3, <2>4, <2>5, <2>6
<1>14. Sessions'  BY <1>1, <1>3, <1>4, <1>5, SessionsStep
<1> QED  BY <1>7, <1>8, <1>9, <1>10, <1>11, <1>12, <1>13, <1>14 DEF Inv

\* The server starts.
LEMMA InvStart ==
  ASSUME Inv, InitSuperAdmin
  PROVE  Inv'
<1>1. UNCHANGED <<rows, sessions, wss, secrets, mu, req, made, overlap, requests>>
  BY DEF InitSuperAdmin
<1>2. OrgOK'  BY DEF InitSuperAdmin, OrgOK
<1>3. faults' \in 0..MaxFaults
  <2>1. faults \in 0..MaxFaults  BY DEF Inv, Types
  <2>2. faults' = faults \/ (faults < MaxFaults /\ faults' = faults + 1)
    BY Zenon DEF InitSuperAdmin
  <2> QED  BY <2>1, <2>2, BoundAssumption
<1>4. Types'  BY <1>1, <1>3 DEF Inv, Types
<1>5. \A r \in Reqs : Knows(req[r])'
  <2>1. \A r \in Reqs : Knows(req[r])  BY DEF Inv
  <2> QED  BY <1>1, <2>1 DEF Knows, Owner
<1>6. Posting' /\ Workspaces' /\ OneWorkspacePerName' /\ SecretsOK'
  <2>1. Posting'  BY <1>1 DEF Inv, Posting, Waited, WsName
  <2>2. Workspaces'  BY <1>1 DEF Inv, Workspaces, Owner
  <2>3. OneWorkspacePerName'  BY <1>1 DEF Inv, OneWorkspacePerName
  <2>4. SecretsOK'  BY <1>1 DEF Inv, SecretsOK, Owner
  <2> QED  BY <2>1, <2>2, <2>3, <2>4
<1>7. Makers' /\ CreatedCanLogin'
  BY <1>1 DEF Inv, Makers, CreatedCanLogin, Accounts, Complete
<1>8. Room' /\ Sessions'
  BY <1>1 DEF Inv, Room, Sessions
<1> QED  BY <1>2, <1>4, <1>5, <1>6, <1>7, <1>8 DEF Inv

----------------------------------------------------------------------------
(* The start.                                                              *)

\* The accounts of an earlier start: one complete row of each known user.
LEMMA KnownRowsType ==
  /\ KnownRows \in Seq(RowSet) /\ Len(KnownRows) = Cardinality(Known)
  /\ \A m, n \in 1..Len(KnownRows) : KnownRows[m].email = KnownRows[n].email => m = n
<1> DEFINE C == Cardinality(Known)
           F == [1..C -> [email : Known, keys : {TRUE}, member : {TRUE}]]
           P(s) == \A u \in Known : \E i \in DOMAIN s : s[i].email = u
<1>1. C \in Nat /\ IsFiniteSet(Known) /\ Known \subseteq Users
  BY UsersAssumption, FS_CardinalityType
<1>2. \E s \in F : P(s)
  <2>1. ExistsBijection(1..C, Known)  BY <1>1, FS_CardinalityType
  <2>2. PICK f \in Bijection(1..C, Known) : TRUE  BY <2>1 DEF ExistsBijection
  <2>3. f \in [1..C -> Known] /\ \A u \in Known : \E i \in 1..C : f[i] = u
    BY <2>2 DEF Bijection, Surjection
  <2> DEFINE s == [i \in 1..C |-> [email |-> f[i], keys |-> TRUE, member |-> TRUE]]
  <2>4. s \in F  BY <2>3
  <2>5. P(s)  BY <2>3
  <2> QED  BY <2>4, <2>5
<1>3. KnownRows \in F /\ P(KnownRows)
  <2>1. KnownRows = CHOOSE s \in F : P(s)  BY DEF KnownRows
  <2> HIDE DEF F, P
  <2> QED  BY <1>2, <2>1
<1>4. KnownRows \in [1..C -> RowSet]  BY <1>1, <1>3 DEF RowSet
<1>5. KnownRows \in Seq(RowSet)  BY <1>1, <1>4, SeqDef
<1>6. Len(KnownRows) = C
  <2>1. Len(KnownRows) \in Nat /\ 1..Len(KnownRows) = 1..C  BY <1>4, <1>5, LenProperties
  <2> QED  BY <1>1, <2>1
<1>7. \A m, n \in 1..C : KnownRows[m].email = KnownRows[n].email => m = n
  <2> DEFINE g == [i \in 1..C |-> KnownRows[i].email]
  <2>1. g \in [1..C -> Known]  BY <1>3
  <2>2. \A u \in Known : \E i \in 1..C : g[i] = u  BY <1>3
  <2>3. g \in Surjection(1..C, Known)  BY <2>1, <2>2 DEF Surjection
  <2>4. IsFiniteSet(1..C) /\ Cardinality(1..C) = Cardinality(Known)  BY <1>1, FS_Interval
  <2>5. g \in Injection(1..C, Known)
    <3> HIDE DEF g
    <3> QED  BY <2>3, <2>4, FS_SurjSameCardinalityImpliesInj
  <2>6. \A m, n \in 1..C : g[m] = g[n] => m = n  BY <2>5 DEF Injection, IsInjective
  <2> QED  BY <2>6
<1> QED  BY <1>5, <1>6, <1>7

\* At the start there are the rows of the known users, and nothing else.
LEMMA InvInit ==
  ASSUME Init PROVE Inv
<1>1. /\ org = NoOne /\ sessions = [n \in 1..Max |-> 0] /\ wss = <<>>
      /\ secrets = [w \in 1..Max |-> [k \in Keys |-> NoSecret]]
      /\ mu = NoOne /\ req = [r \in Reqs |-> Idle] /\ made = {} /\ overlap = {}
      /\ requests = 0 /\ faults = 0 /\ rows \in {<<>>, KnownRows}
  BY DEF Init
<1>2. OrgOK  BY <1>1 DEF OrgOK
<1>3. /\ Idle.pc = "idle" /\ Idle.op = NoOne /\ Idle.user = <<>> /\ Idle.row = 0
      /\ Idle.ws = 0 /\ Idle.pk = 0 /\ Idle \in Records
  BY DEF Idle, Records
<1>4. /\ rows \in Seq(RowSet) /\ Len(rows) <= Cardinality(Known) /\ Len(rows) \in Nat
      /\ DOMAIN rows = 1..Len(rows)
      /\ \A m, n \in 1..Len(rows) : rows[m].email = rows[n].email => m = n
  <2>1. Cardinality(Known) \in Nat  BY UsersAssumption, FS_CardinalityType
  <2>2. CASE rows = KnownRows  BY <2>1, <2>2, KnownRowsType, LenProperties
  <2>3. CASE rows = <<>>
    <3>1. rows \in Seq(RowSet) /\ Len(rows) = 0  BY <2>3, EmptySeq
    <3> QED  BY <2>1, <3>1, LenProperties
  <2> QED  BY <1>1, <2>2, <2>3
<1>5. wss \in Seq(Spaces) /\ Len(wss) = 0 /\ DOMAIN wss = 1..0
  <2>1. wss \in Seq(Spaces) /\ Len(wss) = 0  BY <1>1, EmptySeq
  <2> QED  BY <2>1, LenProperties
<1>6. Types
  <2>1. NoSecret \in Secrets  BY DEF NoSecret, Secrets
  <2>2. 0 \in 0..MaxRequests /\ 0 \in 0..MaxFaults  BY BoundAssumption
  <2> QED  BY <1>1, <1>3, <1>4, <1>5, <2>1, <2>2 DEF Types, RowSet
<1>7. \A r \in Reqs : req[r] = Idle  BY <1>1
<1>8. \A r \in Reqs : Knows(req[r])
  <2>1. NoOne \notin Ops  BY DEF NoOne, Ops, SecretOps, AppOps
  <2> QED  BY <1>3, <1>4, <1>5, <1>7, <2>1 DEF Knows, Ops
<1>9. Posting
  <2>1. NoOne \notin Reqs  BY ReqsAssumption DEF NoOne
  <2> QED  BY <1>1, <1>3, <1>7, <2>1 DEF Posting
<1>10. Workspaces /\ OneWorkspacePerName  BY <1>5 DEF Workspaces, OneWorkspacePerName
<1>11. SecretsOK  BY <1>1 DEF SecretsOK
<1>12. Makers
  <2>1. NoOne # "createUser"  BY DEF NoOne
  <2>2. \A u : \A m, n \in Accounts(u) : m = n  BY <1>4 DEF Accounts
  <2> QED  BY <1>3, <1>7, <2>1, <2>2 DEF Makers
<1>13. CreatedCanLogin  BY <1>1 DEF CreatedCanLogin
<1>14. Room
  <2>1. {r \in Reqs : req[r].pc \in Owing} = {}  BY <1>3, <1>7
  <2>2. Cardinality({}) = 0  BY FS_EmptySet
  <2>3. Cardinality(Known) \in Nat  BY UsersAssumption, FS_CardinalityType
  <2>4. Room <=> Len(rows) + Len(wss) + 0 <= Cardinality(Known) + requests  BY <2>1, <2>2 DEF Room
  <2> QED  BY <1>1, <1>4, <1>5, <2>3, <2>4
<1>15. Sessions
  <2> SUFFICES ASSUME NEW n \in 1..Max
               PROVE  sessions[n] + Cardinality({r \in Reqs : req[r].pc = "insertSession"
                                                              /\ req[r].row = n})
                         <= Cardinality(Reqs)
    BY DEF Sessions
  <2>1. {r \in Reqs : req[r].pc = "insertSession" /\ req[r].row = n} = {}  BY <1>3, <1>7
  <2>2. Cardinality({}) = 0  BY FS_EmptySet
  <2>3. Cardinality(Reqs) \in Nat  BY ReqsAssumption, FS_CardinalityType
  <2>4. sessions[n] = 0  BY <1>1
  <2>5. sessions[n] + 0 <= Cardinality(Reqs)  BY <2>3, <2>4
  <2> QED  BY <2>1, <2>2, <2>5
<1> QED
  BY <1>2, <1>6, <1>8, <1>9, <1>10, <1>11, <1>12, <1>13, <1>14, <1>15 DEF Inv

----------------------------------------------------------------------------
(* Every step.                                                             *)

\* The handlers of secrets.
LEMMA InvSecrets ==
  ASSUME Inv, NEW r \in Reqs,
         \/ CreateSecret(r) \/ RetrieveSecret(r) \/ ListSecret(r)
         \/ DeleteSecret(r) \/ UpdateSecret(r)
  PROVE  Inv'
<1>1. req[r].op \in SecretOps \cup AppOps
  BY DEF CreateSecret, RetrieveSecret, ListSecret, DeleteSecret, UpdateSecret, SecretOps
<1>2. CASE UserWorkspace(r)  BY <1>2, InvUserWorkspace
<1>3. CASE CreateWorkspace(r)  BY <1>3, InvRecheck, InvPost DEF CreateWorkspace
<1>4. CASE CreateSecretInWorkspace(r)
  BY <1>1, <1>4, InvStore DEF CreateSecretInWorkspace, There
<1>5. CASE UpdateSecretInWorkspace(r)
  BY <1>1, <1>5, InvStore DEF UpdateSecretInWorkspace, There
<1>6. CASE DeleteSecretInWorkspace(r)
  BY <1>1, <1>6, InvStore DEF DeleteSecretInWorkspace, There
<1>7. CASE GetSecretInWorkspace(r) \/ ListSecretInWorkspace(r)
  BY <1>1, <1>7, InvStore DEF GetSecretInWorkspace, ListSecretInWorkspace
<1> QED
  BY <1>2, <1>3, <1>4, <1>5, <1>6, <1>7
  DEF CreateSecret, RetrieveSecret, ListSecret, DeleteSecret, UpdateSecret

\* The handlers of an application's secrets.
LEMMA InvAppSecrets ==
  ASSUME Inv, NEW r \in Reqs,
         \/ CreateAppSecret(r) \/ DeleteAppSecret(r) \/ UpdateAppSecret(r)
         \/ ListAppSecret(r) \/ CheckAppSecretPerm(r)
  PROVE  Inv'
<1>1. req[r].op \in SecretOps \cup AppOps
  BY DEF CreateAppSecret, DeleteAppSecret, UpdateAppSecret, ListAppSecret, CheckAppSecretPerm,
         AppOps
<1>2. CASE getAppSecretWorkspaces(r)  BY <1>2, InvAppWorkspaces
<1>3. CASE CreateWorkspace(r)  BY <1>3, InvRecheck, InvPost DEF CreateWorkspace
<1>4. CASE GetWorkspaceKey(r)  BY <1>4, InvUserWorkspace DEF UserWorkspace
<1>5. CASE Answer(r)  BY <1>5, InvCreateUser
<1>6. CASE CreateSecretInWorkspace(r)
  BY <1>1, <1>6, InvStore DEF CreateSecretInWorkspace, There
<1>7. CASE UpdateSecretInWorkspace(r)
  BY <1>1, <1>7, InvStore DEF UpdateSecretInWorkspace, There
<1>8. CASE DeleteSecretInWorkspace(r)
  BY <1>1, <1>8, InvStore DEF DeleteSecretInWorkspace, There
<1> QED
  BY <1>2, <1>3, <1>4, <1>5, <1>6, <1>7, <1>8
  DEF CreateAppSecret, DeleteAppSecret, UpdateAppSecret, ListAppSecret, CheckAppSecretPerm

\* Requests carry what their operation reads.
LEMMA InvRequests ==
  ASSUME Inv, Requests
  PROVE  Inv'
<1>1. PICK r \in Reqs, u \in Users :
        \/ \E op \in SecretOps, n \in Names, k \in Keys : Receive(r, op, u, n, k)
        \/ \E op \in AppOps, k \in Keys : Receive(r, op, u, <<>>, k)
        \/ \E op \in {"createUser", "deleteUser"} : Receive(r, op, u, <<>>, NoOne)
  BY DEF Requests
<1>2. ASSUME NEW op \in SecretOps, NEW n \in Names, NEW k \in Keys, Receive(r, op, u, n, k)
      PROVE  Inv'
  <2>1. op \in Ops  BY DEF Ops
  <2> QED  BY <1>2, <2>1, InvReceive
<1>3. ASSUME NEW op \in AppOps, NEW k \in Keys, Receive(r, op, u, <<>>, k)
      PROVE  Inv'
  <2>1. op \in Ops  BY DEF Ops
  <2> QED  BY <1>3, <2>1, InvReceive
<1>4. ASSUME NEW op \in {"createUser", "deleteUser"}, Receive(r, op, u, <<>>, NoOne)
      PROVE  Inv'
  <2>1. op \in Ops /\ op \notin SecretOps \cup AppOps  BY DEF Ops, SecretOps, AppOps
  <2> QED  BY <1>4, <2>1, InvReceive
<1> QED  BY <1>1, <1>2, <1>3, <1>4

\* Every step keeps the invariant.
LEMMA InvNext ==
  ASSUME Inv, [Next]_vars PROVE Inv'
<1>1. CASE UNCHANGED vars
  <2>1. UNCHANGED <<rows, sessions, wss, secrets, mu, req, made, overlap, requests, faults, org>>
    BY <1>1 DEF vars
  <2>2. OrgOK'  BY <2>1 DEF Inv, OrgOK
  <2>3. Types'  BY <2>1 DEF Inv, Types
  <2>4. \A r \in Reqs : Knows(req[r])'
    <3>1. \A r \in Reqs : Knows(req[r])  BY DEF Inv
    <3> QED  BY <2>1, <3>1 DEF Knows, Owner
  <2>5. Posting'  BY <2>1 DEF Inv, Posting, Waited, WsName
  <2>6. Workspaces'  BY <2>1 DEF Inv, Workspaces, Owner
  <2>7. OneWorkspacePerName'  BY <2>1 DEF Inv, OneWorkspacePerName
  <2>8. SecretsOK'  BY <2>1 DEF Inv, SecretsOK, Owner
  <2>9. Makers' /\ CreatedCanLogin'
    BY <2>1 DEF Inv, Makers, CreatedCanLogin, Accounts, Complete
  <2>10. Room' /\ Sessions'  BY <2>1 DEF Inv, Room, Sessions
  <2> QED  BY <2>2, <2>3, <2>4, <2>5, <2>6, <2>7, <2>8, <2>9, <2>10 DEF Inv
<1>2. CASE InitSuperAdmin  BY <1>2, InvStart
<1>3. CASE Requests  BY <1>3, InvRequests
<1>5. CASE MadeLate  BY <1>5, InvMadeLate
<1>4. ASSUME NEW r \in Reqs, Step(r) \/ CallFails(r) \/ PostAnswerLost(r)
      PROVE  Inv'
  <2>1. CASE CallFails(r)  BY <2>1, InvCallFails
  <2>2. CASE PostAnswerLost(r)  BY <2>2, InvPost
  <2>3. CASE CreateUser(r) \/ DeleteUser(r)  BY <2>3, InvCreateUser
  <2>4. CASE SaveUser(r)  BY <2>4, InvInsertUser, InvInsertKeys, InvInsertMember DEF SaveUser
  <2>5. CASE IssueInfisicalToken(r)
    BY <2>5, InvLogin, InvInsertSession DEF IssueInfisicalToken
  <2>6. CASE \/ CreateSecret(r) \/ RetrieveSecret(r) \/ ListSecret(r)
             \/ DeleteSecret(r) \/ UpdateSecret(r)
    BY <2>6, InvSecrets
  <2>7. CASE \/ CreateAppSecret(r) \/ DeleteAppSecret(r) \/ UpdateAppSecret(r)
             \/ ListAppSecret(r) \/ CheckAppSecretPerm(r)
    BY <2>7, InvAppSecrets
  <2> QED  BY <1>4, <2>1, <2>2, <2>3, <2>4, <2>5, <2>6, <2>7 DEF Step
<1> QED  BY <1>1, <1>2, <1>3, <1>4, <1>5 DEF Next

\* The inductive invariant holds in every reachable state.
LEMMA Invariant == Spec => []Inv
<1>1. Init => Inv  BY InvInit
<1>2. Inv /\ [Next]_vars => Inv'  BY InvNext
<1> QED  BY <1>1, <1>2, PTL DEF Spec

\* However the requests interleave and whatever calls and answers are lost, a name has
\* one workspace besides those that Infisical made after their client gave up; in each
\* of them a secret is encrypted with the key of its workspace, and the workspace holds
\* secrets of one user only.  The users' names have no dash (UsersAssumption).
THEOREM WorkspacesSoundHolds == Spec => []WorkspacesSound
<1>1. ASSUME Inv PROVE WorkspacesSound
  <2>1. OneWorkspacePerName /\ SecretsOK  BY <1>1 DEF Inv
  <2>2. Decryptable  BY <2>1 DEF SecretsOK, Decryptable
  <2>3. OwnSecretsOnly
    <3>1. \A w \in DOMAIN wss : w \in 1..Max
      BY <1>1, Bounds, Lengths
    <3> QED  BY <2>1, <3>1 DEF SecretsOK, OwnSecretsOnly, Owner
  <2> QED  BY <2>1, <2>2, <2>3 DEF WorkspacesSound
<1> QED  BY <1>1, Invariant, PTL

\* The types, from the invariant: the bounds on rows, workspaces and sessions are counts.
LEMMA InvTypeOK ==
  ASSUME Inv PROVE TypeOK
<1>1. Types /\ Workspaces /\ SecretsOK /\ Sessions /\ Posting  BY DEF Inv
<1>2. /\ Max \in Nat /\ Len(rows) \in Nat /\ Len(wss) \in Nat /\ Len(rows) <= Max
      /\ DOMAIN wss = 1..Len(wss) /\ DOMAIN rows = 1..Len(rows) /\ Len(wss) <= Max
  BY Bounds, Lengths
<1>3. sessions \in [1..Max -> 0..Cardinality(Reqs)]
  <2>1. sessions \in [1..Max -> Nat]  BY <1>1 DEF Types
  <2>2. ASSUME NEW n \in 1..Max PROVE sessions[n] \in 0..Cardinality(Reqs)
    <3> DEFINE A == {r \in Reqs : req[r].pc = "insertSession" /\ req[r].row = n}
    <3>1. sessions[n] \in Nat /\ sessions[n] + Cardinality(A) <= Cardinality(Reqs)
      BY <1>1, <2>1 DEF Sessions
    <3>2. A \in SUBSET Reqs  OBVIOUS
    <3> HIDE DEF A
    <3>3. Cardinality(A) \in Nat /\ Cardinality(Reqs) \in Nat  BY <3>2, Count
    <3> QED  BY <3>1, <3>3
  <2> QED  BY <2>1, <2>2
<1>4. wss \in Seq([name : Seq(Letters), row : Nums \ {0}, st : {"made", "pending", "late"}])
  <2> DEFINE T == [name : Seq(Letters), row : Nums \ {0}, st : {"made", "pending", "late"}]
  <2>1. ASSUME NEW w \in 1..Len(wss) PROVE wss[w] \in T
    <3>1. wss[w] \in Spaces  BY Lengths
    <3>2. wss[w].row \in 1..Len(rows)  BY <1>1, <1>2 DEF Workspaces
    <3>3. wss[w].row \in Nums \ {0}  BY <1>2, <3>2 DEF Nums
    <3> QED  BY <3>1, <3>3 DEF Spaces
  <2>2. wss \in [1..Len(wss) -> Spaces]
    BY <1>1, LenProperties DEF Types
  <2> HIDE DEF T
  <2>3. wss \in [1..Len(wss) -> T]  BY <2>1, <2>2
  <2>4. wss \in Seq(T)  BY <1>2, <2>3, SeqDef
  <2> QED  BY <2>4 DEF T
<1>5. secrets \in [1..Max -> [Keys -> Stored]]
  <2>1. secrets \in [1..Max -> [Keys -> Secrets]]  BY <1>1 DEF Types
  <2>2. ASSUME NEW w \in 1..Max, NEW k \in Keys PROVE secrets[w][k] \in Stored
    <3>1. secrets[w][k] \in Secrets  BY <2>1
    <3>2. secrets[w][k].with \in Nums
      <4>1. CASE secrets[w][k] = NoSecret  BY <1>2, <4>1 DEF NoSecret, Nums
      <4>2. CASE secrets[w][k] # NoSecret
        <5>1. secrets[w][k].with = w  BY <1>1, <4>2 DEF SecretsOK
        <5> QED  BY <1>2, <5>1 DEF Nums
      <4> QED  BY <4>1, <4>2
    <3> QED  BY <3>1, <3>2 DEF Stored, Secrets
  <2> QED  BY <2>1, <2>2
<1>6. ASSUME NEW r \in Reqs
      PROVE  /\ req[r].op \in Ops \cup {NoOne} /\ req[r].user \in Users \cup {<<>>}
             /\ req[r].row \in 0..Len(rows) /\ req[r].ws \in 0..Len(wss)
             /\ req[r].pk \in 0..Len(wss)
             /\ mu = r <=> req[r].pc \in {"recheck", "post"}
  <2>1. /\ req[r].op \in Ops \cup {NoOne} /\ req[r].user \in Users \cup {<<>>}
        /\ req[r].row \in Nat /\ req[r].ws \in Nat /\ req[r].pk \in Nat
        /\ req[r].row <= Len(rows) /\ req[r].ws <= Len(wss) /\ req[r].pk <= Len(wss)
    BY RecordType DEF Knows
  <2>2. mu = r <=> req[r].pc \in {"recheck", "post"}  BY <1>1 DEF Posting
  <2>3. /\ req[r].row \in 0..Len(rows) /\ req[r].ws \in 0..Len(wss)
        /\ req[r].pk \in 0..Len(wss)
    BY <1>2, <2>1
  <2> QED  BY <2>1, <2>2, <2>3
<1>7. /\ rows \in Seq([email : Users, keys : BOOLEAN, member : BOOLEAN]) /\ Len(rows) <= Max
      /\ made \subseteq Users /\ overlap \subseteq Users
      /\ requests \in 0..MaxRequests /\ faults \in 0..MaxFaults
  BY <1>1, <1>2 DEF Types
<1>8. org \in {NoOne, "org", "unsaved"}  BY DEF Inv, OrgOK
<1> QED  BY <1>3, <1>4, <1>5, <1>6, <1>7, <1>8, Zenon DEF TypeOK

\* The variables have their types; creations of a user that do not overlap leave one
\* account, whatever half of one a failed creation left; and who was reported created
\* can log in.
THEOREM AccountsSoundHolds == Spec => []AccountsSound
<1>1. ASSUME Inv PROVE AccountsSound
  <2>1. TypeOK  BY <1>1, InvTypeOK
  <2>2. ASSUME NEW u \in Users \ overlap PROVE Cardinality(Accounts(u)) <= 1
    <3>1. \A m, n \in Accounts(u) : m = n  BY <1>1 DEF Inv, Makers
    <3>2. CASE Accounts(u) = {}
      <4>1. Cardinality(Accounts(u)) = 0  BY <3>2, FS_EmptySet
      <4> QED  BY <4>1
    <3>3. CASE Accounts(u) # {}
      <4>1. PICK n : Accounts(u) = {n}  BY <3>1, <3>3
      <4>2. Cardinality(Accounts(u)) = 1  BY <4>1, FS_Singleton
      <4> QED  BY <4>2
    <3> QED  BY <3>2, <3>3
  <2>3. CreatedCanLogin  BY <1>1 DEF Inv
  <2> QED  BY <2>1, <2>2, <2>3 DEF AccountsSound, OneAccount
<1> QED  BY <1>1, Invariant, PTL

==============================================================================
