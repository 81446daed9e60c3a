------------------------------- MODULE Vault -------------------------------
(***************************************************************************)
(* The secret vault: an HTTP server in front of Infisical.  Requests run   *)
(* concurrently; each logs its user in, finds the workspace and calls      *)
(* Infisical (pkg/vault/infisical and its controllers).  Accounts are made *)
(* by writing into Infisical's database.                                   *)
(*                                                                         *)
(* Names of users and workspaces are sequences of letters, so that         *)
(* UserWorkspaceName can join them.  A project key is the number of its    *)
(* workspace.                                                              *)
(***************************************************************************)
EXTENDS Naturals, Sequences, FiniteSets

CONSTANTS Users,        \* names of users; an email stands for its user
          Known,        \* users with an account when the server starts
          Names,        \* workspace names that clients ask for
          AppPerm,      \* the workspaces in the permissions of the application
          Keys,         \* names of secrets
          Reqs,         \* requests that can run at the same time
          UniqueEmail,  \* whether Infisical's schema refuses a second row of an email
          MaxRequests,  \* bound: requests
          MaxFaults     \* bound: failing calls

\* Names are sequences of letters.  The code does not check that a user's name has
\* no dash, and two users' workspaces could have one name if it had: that it has none
\* is assumed of whoever creates the users.
Dash == "-"
NameLetters == UNION {{u[i] : i \in DOMAIN u} : u \in Users \cup Names}
Letters == NameLetters \cup {Dash}

ASSUME UsersAssumption ==
  /\ Users \subseteq Seq(Letters) /\ Known \subseteq Users /\ IsFiniteSet(Known)
  /\ \A u \in Users : \A i \in DOMAIN u : u[i] # Dash
ASSUME NamesAssumption == Names \subseteq Seq(Letters) /\ AppPerm \in Seq(Names)
ASSUME ReqsAssumption == IsFiniteSet(Reqs) /\ "none" \notin Reqs
ASSUME BoundAssumption == MaxRequests \in Nat /\ MaxFaults \in Nat

VARIABLES org,       \* organisation whose id the server holds: "unsaved" after a failed creation
          rows,      \* the users table joined with keys and memberships
          sessions,  \* token sessions of each row
          wss,       \* the workspaces Infisical made, or was asked to make by a client that
                     \* gave up: name, the row that created it, and whether it is there
          secrets,   \* the secrets of each workspace: key they are encrypted with, and writer
          mu,        \* holder of the mutex of workspaceClient
          req,       \* the requests
          made,      \* users for whom CreateUser has returned without error
          overlap,   \* users for whom two CreateUser calls ran at the same time
          requests, faults

vars == <<org, rows, sessions, wss, secrets, mu, req, made, overlap, requests, faults>>
data == <<org, rows, sessions, wss, secrets>>

NoOne == "none"
SecretOps == {"create", "update", "delete", "retrieve", "list"}
AppOps == {"appCreate", "appUpdate", "appDelete", "appList", "appCheck"}
Ops == SecretOps \cup AppOps \cup {"createUser", "deleteUser"}

NoSecret == [with |-> 0, by |-> <<>>]

Idle == [pc |-> "idle", op |-> NoOne, user |-> <<>>, name |-> <<>>, key |-> NoOne,
         row |-> 0, ws |-> 0, pk |-> 0, i |-> 0, missing |-> FALSE]

Max == MaxRequests + Cardinality(Known)   \* rows and workspaces there can be

KnownRows == CHOOSE s \in [1..Cardinality(Known) -> [email : Known, keys : {TRUE}, member : {TRUE}]] :
               \A u \in Known : \E i \in DOMAIN s : s[i].email = u

Init ==
  /\ org = NoOne
  /\ rows \in {<<>>, KnownRows}   \* the first start, and a later one
  /\ sessions = [n \in 1..Max |-> 0]
  /\ wss = <<>>
  /\ secrets = [w \in 1..Max |-> [k \in Keys |-> NoSecret]]
  /\ mu = NoOne
  /\ req = [r \in Reqs |-> Idle]
  /\ made = {} /\ overlap = {}
  /\ requests = 0 /\ faults = 0

At(r, pc) == req[r].pc = pc
Goto(r, pc) == req' = [req EXCEPT ![r].pc = pc]
Return(r) == req' = [req EXCEPT ![r] = Idle]

\* "we need to generate a unique workspace name for each user"
UserWorkspaceName(name, user) == name \o <<Dash>> \o user

-----------------------------------------------------------------------------
(* Start of the server.                                                    *)

\* At the first start the organisation has to be created.  The id is chosen before
\* the statement and returned with its error, and the server starts: the id is of
\* no organisation.
InitSuperAdmin ==
  /\ org = NoOne
  /\ \/ org' = "org" /\ UNCHANGED faults
     \/ org' = "unsaved" /\ rows = <<>> /\ faults < MaxFaults /\ faults' = faults + 1
  /\ UNCHANGED <<rows, sessions, wss, secrets, mu, req, made, overlap, requests>>

\* A client sends a request.
Receive(r, op, user, name, key) ==
  /\ org # NoOne
  /\ At(r, "idle")
  /\ requests < MaxRequests
  /\ requests' = requests + 1
  /\ req' = [req EXCEPT ![r] = [Idle EXCEPT !.pc = IF op = "createUser" THEN "find" ELSE "login",
                                            !.op = op, !.user = user, !.name = name, !.key = key]]
  /\ overlap' = IF op = "createUser" /\ \E s \in Reqs : req[s].op = op /\ req[s].user = user
                THEN overlap \cup {user} ELSE overlap
  /\ UNCHANGED <<org, rows, sessions, wss, secrets, mu, made, faults>>

Complete(n) == rows[n].keys /\ rows[n].member

\* GetUser joins the three tables; one of several rows is as good as another.
Accounts(user) == {n \in DOMAIN rows : rows[n].email = user /\ Complete(n)}

-----------------------------------------------------------------------------
(* CreateUser and DeleteUser                                               *)

CreateUser_Blind(r) ==
  /\ At(r, "find")
  /\ Goto(r, "insertUser")
  /\ made' = made
  /\ UNCHANGED <<data, mu, overlap, requests, faults>>

CreateUser(r) ==
  /\ At(r, "find")
  /\ IF Accounts(req[r].user) = {}
     THEN Goto(r, "insertUser") /\ made' = made
     ELSE Return(r) /\ made' = made \cup {req[r].user}
  /\ UNCHANGED <<data, mu, overlap, requests, faults>>

\* SaveUser: three statements in three transactions.
InsertUser(r) ==
  /\ At(r, "insertUser")
  /\ IF UniqueEmail /\ \E n \in DOMAIN rows : rows[n].email = req[r].user
     THEN Return(r) /\ rows' = rows
     ELSE /\ rows' = Append(rows, [email |-> req[r].user, keys |-> FALSE, member |-> FALSE])
          /\ req' = [req EXCEPT ![r].pc = "insertKeys", ![r].row = Len(rows')]
  /\ UNCHANGED <<org, sessions, wss, secrets, mu, made, overlap, requests, faults>>

InsertKeys(r) ==
  /\ At(r, "insertKeys")
  /\ rows' = [rows EXCEPT ![req[r].row].keys = TRUE]
  /\ Goto(r, "insertMember")
  /\ UNCHANGED <<org, sessions, wss, secrets, mu, made, overlap, requests, faults>>

\* A membership refers to its organisation (a foreign key of Infisical's schema):
\* without one the statement is refused.
InsertMember(r) ==
  /\ At(r, "insertMember")
  /\ rows' = [rows EXCEPT ![req[r].row].member = (org = "org")]
  /\ made' = IF org = "org" THEN made \cup {req[r].user} ELSE made
  /\ Return(r)
  /\ UNCHANGED <<org, sessions, wss, secrets, mu, overlap, requests, faults>>

\* "delete from user id = ...": no such statement in SQL.  The database
\* refuses it, and neither the account nor its workspaces are deleted.
DeleteUser(r) ==
  /\ At(r, "deleteUser")
  /\ Return(r)
  /\ UNCHANGED <<data, mu, made, overlap, requests, faults>>

-----------------------------------------------------------------------------
(* IssueInfisicalToken                                                     *)

AfterLogin(op) ==
  CASE op = "deleteUser"  -> "deleteUser"
    [] op \in AppOps      -> "perm"
    [] op \in SecretOps   -> "workspace"

Login(r) ==
  /\ At(r, "login")
  /\ IF Accounts(req[r].user) = {}
     THEN Return(r)
     ELSE \E n \in Accounts(req[r].user) : req' = [req EXCEPT ![r].pc = "session", ![r].row = n]
  /\ UNCHANGED <<data, mu, made, overlap, requests, faults>>

\* GetUserTokenSession: a session that is not found is inserted.
Session(r) ==
  /\ At(r, "session")
  /\ Goto(r, IF sessions[req[r].row] = 0 THEN "insertSession" ELSE AfterLogin(req[r].op))
  /\ UNCHANGED <<data, mu, made, overlap, requests, faults>>

InsertSession(r) ==
  /\ At(r, "insertSession")
  /\ sessions' = [sessions EXCEPT ![req[r].row] = @ + 1]
  /\ Goto(r, AfterLogin(req[r].op))
  /\ UNCHANGED <<org, rows, wss, secrets, mu, made, overlap, requests, faults>>

-----------------------------------------------------------------------------
(* Workspaces.                                                             *)

Found(name) == {w \in DOMAIN wss : wss[w].name = name /\ wss[w].st # "pending"}
WsName(r) == UserWorkspaceName(req[r].name, req[r].user)

GetWorkspace(r) ==
  /\ At(r, "workspace")
  /\ \E w \in Found(WsName(r)) : req' = [req EXCEPT ![r].pc = "key", ![r].ws = w]
  /\ UNCHANGED <<data, mu, made, overlap, requests, faults>>

\* Only CreateSecret goes on to create a workspace that is not found.
NoWorkspace(r) ==
  /\ At(r, "workspace")
  /\ Found(WsName(r)) = {}
  /\ IF req[r].op = "create" THEN Goto(r, "lock") ELSE Return(r)
  /\ UNCHANGED <<data, mu, made, overlap, requests, faults>>

\* The project key, encrypted for the member whose token asks; Infisical may
\* refuse it to another account.
HasKey(r, w) == wss[w].row = req[r].row

GetWorkspaceKey(r) ==
  /\ At(r, "key")
  /\ \/ req' = [req EXCEPT ![r].pc = "secret", ![r].pk = req[r].ws]
     \/ ~HasKey(r, req[r].ws) /\ Return(r)
  /\ UNCHANGED <<data, mu, made, overlap, requests, faults>>

\* CreateWorkspace: one at a time, and it looks again.
Lock(r) ==
  /\ At(r, "lock")
  /\ mu = NoOne
  /\ mu' = r
  /\ Goto(r, "recheck")
  /\ UNCHANGED <<data, made, overlap, requests, faults>>

Recheck_None(r) ==
  /\ At(r, "recheck")
  /\ Goto(r, "post")
  /\ UNCHANGED <<data, mu, made, overlap, requests, faults>>

Recheck(r) ==
  /\ At(r, "recheck")
  /\ IF Found(WsName(r)) = {}
     THEN Goto(r, "post") /\ mu' = mu
     ELSE /\ \E w \in Found(WsName(r)) : req' = [req EXCEPT ![r].pc = "key", ![r].ws = w]
          /\ mu' = NoOne
  /\ UNCHANGED <<data, made, overlap, requests, faults>>

Asked(r, st) == wss' = Append(wss, [name |-> WsName(r), row |-> req[r].row, st |-> st])

PostWorkspace(r) ==
  /\ At(r, "post")
  /\ Asked(r, "made")
  /\ mu' = NoOne
  /\ req' = [req EXCEPT ![r].pc = "key", ![r].ws = Len(wss')]
  /\ UNCHANGED <<org, rows, sessions, secrets, made, overlap, requests, faults>>

-----------------------------------------------------------------------------
(* Secrets.                                                                *)

\* The call to Infisical and the answer.  Infisical refuses to create a secret
\* that is there and to change or delete one that is not.
There(q) == secrets[q.ws][q.key] # NoSecret
Store(r, guard, s) ==
  /\ At(r, "secret")
  /\ secrets' = IF guard THEN [secrets EXCEPT ![req[r].ws][req[r].key] = s] ELSE secrets
  /\ Return(r)
  /\ UNCHANGED <<org, rows, sessions, wss, mu, made, overlap, requests, faults>>
Encrypted(q) == [with |-> q.pk, by |-> q.user]

CreateSecretInWorkspace(r) == Store(r, ~There(req[r]), Encrypted(req[r]))
UpdateSecretInWorkspace(r) == Store(r, There(req[r]), Encrypted(req[r]))
DeleteSecretInWorkspace(r) == Store(r, There(req[r]), NoSecret)
GetSecretInWorkspace(r) == Store(r, FALSE, NoSecret)
ListSecretInWorkspace(r) == Store(r, FALSE, NoSecret)

-----------------------------------------------------------------------------
(* The administration of an application's secrets.                         *)

\* getAppSecretWorkspaces reads the permissions of the application ...
ListPermissions(r) ==
  /\ At(r, "perm")
  /\ IF AppPerm = <<>> THEN Return(r)
     ELSE req' = [req EXCEPT ![r].pc = "appWs", ![r].i = 1]
  /\ UNCHANGED <<data, mu, made, overlap, requests, faults>>

\* What follows once the workspaces are known: the first of them is used.  Only
\* a creation goes on when one is missing.
AfterWorkspaces(q) ==
  CASE q.op = "appCreate" /\ q.ws = 0 -> "lock"
    [] q.op = "appCreate" /\ q.ws # 0 -> "secret"
    [] q.op \in {"appUpdate", "appDelete"} /\ ~q.missing -> "secret"
    [] OTHER -> "done"

\* ... and looks for each of the workspaces, and for its key.
AppWorkspace(r) ==
  /\ At(r, "appWs")
  /\ LET q == req[r]
         name == UserWorkspaceName(AppPerm[q.i], q.user)
         first(v, old) == IF q.i = 1 THEN v ELSE old
         next(p) == [p EXCEPT !.i = q.i + 1, !.pc = IF q.i < Len(AppPerm) THEN "appWs"
                                                    ELSE AfterWorkspaces(p)]
     IN \/ /\ Found(name) = {}
           /\ req' = [req EXCEPT ![r] = next([q EXCEPT !.missing = TRUE, !.name = AppPerm[1]])]
        \/ \E w \in Found(name) :
             req' = [req EXCEPT ![r] = next([q EXCEPT !.ws = first(w, @), !.pk = first(w, @),
                                                      !.name = AppPerm[1]])]
        \/ (\E w \in Found(name) : ~HasKey(r, w)) /\ Return(r)
  /\ UNCHANGED <<data, mu, made, overlap, requests, faults>>

\* CheckAppSecretPerm and ListAppSecret answer from what was found.
Answer(r) ==
  /\ At(r, "done")
  /\ Return(r)
  /\ UNCHANGED <<data, mu, made, overlap, requests, faults>>

-----------------------------------------------------------------------------
(* Failures.                                                               *)

Unlock_OnSuccess(r) == mu

\* defer w.mu.Unlock()
Unlock(r) == IF mu = r THEN NoOne ELSE mu

\* A statement or a call to Infisical fails.  The request returns an error,
\* with the mutex unlocked.
CallFails(r) ==
  /\ req[r].pc \notin {"idle", "lock", "done"}
  /\ faults < MaxFaults
  /\ faults' = faults + 1
  /\ mu' = Unlock(r)
  /\ Return(r)
  /\ UNCHANGED <<data, made, overlap, requests>>

\* The answer is lost: the connection breaks when the workspace is there already,
\* or the client gives up after 30 s while Infisical is still making it.  Either way
\* the mutex is free.
PostAnswerLost(r) ==
  /\ At(r, "post")
  /\ faults < MaxFaults
  /\ faults' = faults + 1
  /\ \E st \in {"made", "pending"} : Asked(r, st)
  /\ mu' = Unlock(r)
  /\ Return(r)
  /\ UNCHANGED <<org, rows, sessions, secrets, made, overlap, requests>>

\* Infisical makes a workspace that nobody waits for any more, or never does.
MadeLate ==
  /\ \E w \in DOMAIN wss :
       /\ wss[w].st = "pending"
       /\ wss' = [wss EXCEPT ![w].st = "late"]
  /\ UNCHANGED <<org, rows, sessions, secrets, mu, req, made, overlap, requests, faults>>

-----------------------------------------------------------------------------
(* The handlers, each after the login that IssueInfisicalToken does.       *)

IssueInfisicalToken(r) == Login(r) \/ Session(r) \/ InsertSession(r)
SaveUser(r) == InsertUser(r) \/ InsertKeys(r) \/ InsertMember(r)
CreateWorkspace(r) == Lock(r) \/ Recheck(r) \/ PostWorkspace(r)
UserWorkspace(r) == GetWorkspace(r) \/ NoWorkspace(r) \/ GetWorkspaceKey(r)
getAppSecretWorkspaces(r) == ListPermissions(r) \/ AppWorkspace(r)

CreateSecret(r) ==
  /\ req[r].op = "create"
  /\ UserWorkspace(r) \/ CreateWorkspace(r) \/ CreateSecretInWorkspace(r)
RetrieveSecret(r) == req[r].op = "retrieve" /\ (UserWorkspace(r) \/ GetSecretInWorkspace(r))
ListSecret(r) == req[r].op = "list" /\ (UserWorkspace(r) \/ ListSecretInWorkspace(r))
DeleteSecret(r) == req[r].op = "delete" /\ (UserWorkspace(r) \/ DeleteSecretInWorkspace(r))
UpdateSecret(r) == req[r].op = "update" /\ (UserWorkspace(r) \/ UpdateSecretInWorkspace(r))

CreateAppSecret(r) ==
  /\ req[r].op = "appCreate"
  /\ \/ getAppSecretWorkspaces(r) \/ CreateWorkspace(r) \/ GetWorkspaceKey(r)
     \/ CreateSecretInWorkspace(r)
DeleteAppSecret(r) ==
  /\ req[r].op = "appDelete"
  /\ getAppSecretWorkspaces(r) \/ DeleteSecretInWorkspace(r) \/ Answer(r)
UpdateAppSecret(r) ==
  /\ req[r].op = "appUpdate"
  /\ getAppSecretWorkspaces(r) \/ UpdateSecretInWorkspace(r) \/ Answer(r)
ListAppSecret(r) == req[r].op = "appList" /\ (getAppSecretWorkspaces(r) \/ Answer(r))
CheckAppSecretPerm(r) == req[r].op = "appCheck" /\ (getAppSecretWorkspaces(r) \/ Answer(r))

Step(r) ==
  \/ CreateUser(r) \/ SaveUser(r) \/ IssueInfisicalToken(r) \/ DeleteUser(r)
  \/ CreateSecret(r) \/ RetrieveSecret(r) \/ ListSecret(r) \/ DeleteSecret(r) \/ UpdateSecret(r)
  \/ CreateAppSecret(r) \/ DeleteAppSecret(r) \/ UpdateAppSecret(r) \/ ListAppSecret(r)
  \/ CheckAppSecretPerm(r)

\* A request carries a workspace name and a key only if its operation reads them.
Requests ==
  \E r \in Reqs, u \in Users :
    \/ \E op \in SecretOps, n \in Names, k \in Keys : Receive(r, op, u, n, k)
    \/ \E op \in AppOps, k \in Keys : Receive(r, op, u, <<>>, k)
    \/ \E op \in {"createUser", "deleteUser"} : Receive(r, op, u, <<>>, NoOne)

Next ==
  \/ InitSuperAdmin
  \/ MadeLate
  \/ Requests
  \/ \E r \in Reqs : Step(r) \/ CallFails(r) \/ PostAnswerLost(r)

Spec == Init /\ [][Next]_vars

\* The goroutine of a request runs.
FairSpec == Spec /\ \A r \in Reqs : WF_vars(Step(r))

-----------------------------------------------------------------------------
(* Properties.                                                             *)

Nums == 0..Max
Stored == [with : Nums, by : Users \cup {<<>>}]

\* Type invariant.  The mutex is held exactly by the request that is creating a
\* workspace.
TypeOK ==
  /\ org \in {NoOne, "org", "unsaved"}
  /\ rows \in Seq([email : Users, keys : BOOLEAN, member : BOOLEAN]) /\ Len(rows) <= Max
  /\ sessions \in [1..Max -> 0..Cardinality(Reqs)]
  /\ wss \in Seq([name : Seq(Letters), row : Nums \ {0}, st : {"made", "pending", "late"}])
  /\ secrets \in [1..Max -> [Keys -> Stored]]
  /\ \A r \in Reqs :
       /\ req[r].op \in Ops \cup {NoOne} /\ req[r].user \in Users \cup {<<>>}
       /\ req[r].row \in 0..Len(rows) /\ req[r].ws \in 0..Len(wss) /\ req[r].pk \in 0..Len(wss)
       /\ mu = r <=> req[r].pc \in {"recheck", "post"}
  /\ made \subseteq Users /\ overlap \subseteq Users
  /\ requests \in 0..MaxRequests /\ faults \in 0..MaxFaults

\* However many requests miss a workspace at the same time, and even if the
\* connection breaks before the answer, a name has one workspace: a second one
\* would hide the secrets of the first (GetWorkspace takes the first of the name).
\* Only a workspace that Infisical makes after its client has given up, when
\* the mutex protects it no more, can be a second one.
OneWorkspacePerName ==
  \A v, w \in DOMAIN wss :
    wss[v].name = wss[w].name /\ wss[v].st = "made" /\ wss[w].st = "made" => v = w

\* A secret is encrypted with the key of the workspace it is in, whichever of
\* the three ways the request got the workspace and the key by; otherwise no
\* one could decrypt it, and listing the workspace would fail.
Decryptable ==
  \A w \in 1..Max, k \in Keys : secrets[w][k] # NoSecret => secrets[w][k].with = w

\* A workspace only holds secrets of the user it was created for, although the
\* organisation shares all of them: the names that UserWorkspaceName makes for
\* two users never coincide (as long as a user's name has no dash).
OwnSecretsOnly ==
  \A w \in DOMAIN wss, k \in Keys :
    secrets[w][k] # NoSecret => secrets[w][k].by = rows[wss[w].row].email

\* What a user finds in the vault, in one invariant: one workspace of a name that
\* was waited for, and in each of them secrets that are the user's own and can be
\* decrypted.
WorkspacesSound == OneWorkspacePerName /\ Decryptable /\ OwnSecretsOnly

\* Creations of a user that do not overlap make one account, whatever half of
\* an account a failed one has left: two accounts of an email have different
\* keys, and GetUser takes either.
OneAccount ==
  \A u \in Users \ overlap : Cardinality(Accounts(u)) <= 1

\* A user whose creation was reported done can log in.
CreatedCanLogin ==
  \A u \in made : Accounts(u) # {}

\* Who can use the vault, in one invariant: a created user, with one account.
AccountsSound == TypeOK /\ OneAccount /\ CreatedCanLogin

\* Every request returns: a failed creation of a workspace does not keep the
\* mutex, on which all later ones would wait.
EveryRequestReturns ==
  \A r \in Reqs : ~At(r, "idle") ~> At(r, "idle")

=============================================================================
