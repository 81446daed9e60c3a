---------------------------- MODULE Middlewares ----------------------------
(***************************************************************************)
(* The requests of the middleware-request controller that are not for      *)
(* PostgreSQL: MongoDB, KVRocks namespaces, NATS, MinIO, RabbitMQ,         *)
(* Elasticsearch, MariaDB and MySQL.  handler() is, for each of them, a    *)
(* fixed sequence of calls to a server; a behaviour is about one kind of   *)
(* server and one request, with the queue and the worker of controller.go  *)
(* (whose own properties are those of RequestController).                  *)
(*                                                                         *)
(* A container is what the request lists: a database, bucket, virtual      *)
(* host, index or kvrocks namespace.  A MinIO or Elasticsearch request may *)
(* also allow all names with the prefix of the app's namespace.            *)
(***************************************************************************)
EXTENDS Naturals, Sequences, FiniteSets, SequencesExt

CONSTANTS Containers,   \* names "ns-..." a request may list, for the app's namespace ns
          OwnNames,     \* names "ns_...", which no request lists
          Kinds,        \* the middlewares to look at
          Pwds,         \* passwords (tokens) a request may have
          MaxGen,       \* bound: versions of the request object
          MaxErrors,    \* bound: calls that fail, applied or not
          MaxUpsets     \* bound: restarts, and installations and removals of a server

ASSUME KindsAssumption ==
  Kinds \subseteq {"mongodb", "kvrocks", "nats", "minio", "rabbitmq",
                   "elasticsearch", "mariadb", "mysql"}
ASSUME PwdsAssumption == Pwds \subseteq Nat \ {0}
ASSUME ContainersAssumption == IsFiniteSet(Containers) /\ Containers \cap OwnNames = {}
ASSUME MwBoundsAssumption == MaxGen \in Nat \ {0} /\ MaxErrors \in Nat /\ MaxUpsets \in Nat

VARIABLES kind,    \* the middleware of this behaviour
          svc,     \* its admin secret (or cluster object) exists
          srv,     \* what the server holds of this app
          file,    \* NATS: the configuration file
          init,    \* NATS: where the ConfigMap handler stands
          obj,     \* the MiddlewareRequest in the API server
          queue,   \* the workqueue: actions with their copy of the object
          task,    \* what the worker does
          last,    \* the item just carried out, until anything else happens
          torn,    \* a write of the configuration was cut short or read half-way
          errors, upsets

mw_vars == <<kind, svc, srv, file, init, obj, queue, task, last, torn, errors, upsets>>

None == [act |-> "NONE"]
Sql == {"mariadb", "mysql"}
Policied == {"minio", "elasticsearch"}

\* all is AllowNamespaceBuckets or AllowNamespaceIndexes.
Specs == [want : (SUBSET Containers) \ {{}}, pwd : Pwds, all : BOOLEAN]
Requests == [act : {"ADD", "UPDATE", "DELETE"}, want : (SUBSET Containers) \ {{}}, pwd : Pwds,
             all : BOOLEAN]

\* A kvrocks request has exactly one namespace, and two kinds have the flag.
Allowed(s) ==
  /\ kind = "kvrocks" => Cardinality(s.want) = 1
  /\ s.all => kind \in Policied

\* The prefix the flag stands for: buckets are named and granted as "ns-...",
\* but indexes are named "ns-..." and granted as "ns_*".
Prefixed == IF kind = "minio" THEN Containers ELSE OwnNames

\* What the request lets the app use.
Granted(i) == i.want \cup (IF i.all THEN Prefixed ELSE {})

NoAcct == [pwd |-> 0, roles |-> {}]
EmptySrv == [user |-> 0, att |-> FALSE, pol |-> {}, cont |-> {},
             acct |-> [c \in Containers |-> NoAcct]]

\* What the app's account may use.
Access(s) == IF s.user = 0 \/ (kind \in Policied /\ ~s.att) THEN {} ELSE s.pol

MwInit ==
  /\ kind \in Kinds
  /\ svc \in IF kind = "nats" THEN {TRUE} ELSE BOOLEAN
  /\ srv = EmptySrv
  /\ file = [st |-> "absent", base |-> {}, user |-> 0]
  /\ init = IF kind = "nats" THEN "stat" ELSE "done"
  /\ obj = None
  /\ queue = <<>>
  /\ task = None
  /\ last = None
  /\ torn = FALSE
  /\ errors = 0
  /\ upsets = 0

-----------------------------------------------------------------------------
(* The calls.  A call names what it does, the container it is about, and   *)
(* whether its error ends the handler (must) or is only logged.            *)

Must(do, c) == [do |-> do, on |-> c, must |-> TRUE]
Warn(do, c) == [do |-> do, on |-> c, must |-> FALSE]
NoneOf == CHOOSE c \in Containers : TRUE      \* for calls that are about no container
Each(S, do) == [k \in 1..Cardinality(S) |-> Must(do, SetToSeq(S)[k])]
EachWarn(S, do) == [k \in 1..Cardinality(S) |-> Warn(do, SetToSeq(S)[k])]
Only(b, p) == IF b THEN p ELSE <<>>
EachPair(S, do1, do2) ==
  [k \in 1..2 * Cardinality(S) |->
     Must(IF k % 2 = 1 THEN do1 ELSE do2, SetToSeq(S)[(k + 1) \div 2])]

createOrUpdateElasticsearchRequest(i) ==
  <<Must("PutUserNoRole", NoneOf)>> \o Each(i.want, "Make")
    \o <<Must("PutPolicy", NoneOf), Must("Attach", NoneOf)>>

deleteElasticsearchRequest(i) ==
  <<Must("DelUser", NoneOf), Must("DelPolicy", NoneOf)>> \o Each(i.want, "Drop")
    \o Only(i.all, <<Warn("DropListed", NoneOf)>>)

createOrUpdateMinioRequest(i) ==
  <<Must("PutUser", NoneOf)>> \o Each(i.want, "Make")
    \o <<Must("PutPolicy", NoneOf), Must("Attach", NoneOf)>>

deleteMinioRequest(i) ==
  EachWarn(i.want, "Drop") \o Only(i.all, <<Warn("DropListed", NoneOf)>>)
    \o <<Must("DelUser", NoneOf), Warn("DelPolicy", NoneOf)>>

createOrUpdateRabbitMQRequest(i) ==
  <<Must("PutUser", NoneOf)>> \o EachPair(i.want, "Make", "Grant")

deleteRabbitMQRequest(i) ==
  EachPair(i.want, "Revoke", "Drop") \o <<Must("DelUser", NoneOf)>>

createOrUpdateMariaDBRequest(i) ==
  <<Must("NewUser", NoneOf)>> \o EachPair(i.want, "Make", "Grant") \o <<Must("Flush", NoneOf)>>

createOrUpdateMysqlRequest(i) ==
  <<Must("NewUser", NoneOf)>> \o EachPair(i.want, "Make", "Grant") \o <<Must("Flush", NoneOf)>>

deleteMariaDBRequest(i) == <<Must("DelUser", NoneOf)>> \o Each(i.want, "Drop")

deleteMysqlRequest(i) == <<Must("DelUser", NoneOf)>> \o Each(i.want, "Drop")

CreateOrUpdateUserWithDatabase(i) == EachPair(i.want, "PutAccount", "Script")

\* The accounts of the user are looked for in all databases at once.
DropUserAndDatabase(i) ==
  (IF \E c \in Containers : srv.acct[c] # NoAcct THEN Each(i.want, "DelAccount") ELSE <<>>)
    \o Each(i.want, "Drop")

\* A namespace that does not exist yet may be a renamed one: UPDATE removes
\* those that have the token first.
createOrUpdateKVRocksRequest(i) ==
  IF \E c \in i.want : srv.acct[c] # NoAcct
  THEN Each(i.want, "SetNamespace")
  ELSE (IF i.act = "UPDATE"
        THEN EachWarn({c \in Containers : srv.acct[c].pwd = i.pwd}, "DelNamespace")
        ELSE <<>>) \o Each(i.want, "AddNamespace")

deleteKVRocksRequest(i) ==
  Each({c \in i.want : srv.acct[c] # NoAcct}, "DelNamespace")

createOrUpdateNatsUser(i) ==
  <<Must("Load", NoneOf), Must("Truncate", NoneOf), Must("Write", NoneOf), Must("Stream", NoneOf)>>

deleteNatsUserAndStream(i) ==
  <<Must("Load", NoneOf), Must("Truncate", NoneOf), Must("Write", NoneOf), Must("Stream", NoneOf)>>

Creation(i) ==
  CASE kind = "mongodb"       -> CreateOrUpdateUserWithDatabase(i)
    [] kind = "kvrocks"       -> createOrUpdateKVRocksRequest(i)
    [] kind = "nats"          -> createOrUpdateNatsUser(i)
    [] kind = "minio"         -> createOrUpdateMinioRequest(i)
    [] kind = "rabbitmq"      -> createOrUpdateRabbitMQRequest(i)
    [] kind = "elasticsearch" -> createOrUpdateElasticsearchRequest(i)
    [] kind = "mariadb"       -> createOrUpdateMariaDBRequest(i)
    [] kind = "mysql"         -> createOrUpdateMysqlRequest(i)

Deletion(i) ==
  CASE kind = "mongodb"       -> DropUserAndDatabase(i)
    [] kind = "kvrocks"       -> deleteKVRocksRequest(i)
    [] kind = "nats"          -> deleteNatsUserAndStream(i)
    [] kind = "minio"         -> deleteMinioRequest(i)
    [] kind = "rabbitmq"      -> deleteRabbitMQRequest(i)
    [] kind = "elasticsearch" -> deleteElasticsearchRequest(i)
    [] kind = "mariadb"       -> deleteMariaDBRequest(i)
    [] kind = "mysql"         -> deleteMysqlRequest(i)

Program(i) == IF i.act = "DELETE" THEN Deletion(i) ELSE Creation(i)

-----------------------------------------------------------------------------
(* What a call does to the server.                                         *)

AccountAfter_KeepPassword(k, i, s) ==
  CASE k.do \in {"PutUser", "PutUserNoRole", "NewUser"} ->
         IF s.user = 0 THEN [s EXCEPT !.user = i.pwd] ELSE s
    [] k.do = "Attach"  -> [s EXCEPT !.att = TRUE]
    [] k.do = "DelUser" -> [s EXCEPT !.user = 0, !.att = FALSE]

\* The app's account.  CREATE USER IF NOT EXISTS leaves an old password, and
\* esPutUser takes the roles away until esPutUserRole.
AccountAfter(k, i, s) ==
  CASE k.do = "PutUser"       -> [s EXCEPT !.user = i.pwd]
    [] k.do = "PutUserNoRole" -> [s EXCEPT !.user = i.pwd, !.att = FALSE]
    [] k.do = "NewUser"       -> IF s.user = 0 THEN [s EXCEPT !.user = i.pwd] ELSE s
    [] k.do = "Attach"        -> [s EXCEPT !.att = TRUE]
    [] k.do = "DelUser"       -> [s EXCEPT !.user = 0, !.att = FALSE,
                                           !.pol = IF kind \in Policied THEN @ ELSE {}]

\* Roles and policies are written as a whole ...
PolicyAfter(k, i, s) == [s EXCEPT !.pol = IF k.do = "PutPolicy" THEN Granted(i) ELSE {}]

\* ... permissions and grants one by one.
PermissionsAfter(k, s) ==
  [s EXCEPT !.pol = IF k.do = "Grant" THEN @ \cup {k.on} ELSE @ \ {k.on}]

\* Containers.  esListIndices and ListBuckets find those with the prefix.
ContainersAfter(k, i, s) ==
  CASE k.do = "Make"       -> [s EXCEPT !.cont = @ \cup {k.on}]
    [] k.do = "Drop"       -> [s EXCEPT !.cont = @ \ {k.on}]
    [] k.do = "DropListed" -> [s EXCEPT !.cont = @ \ Prefixed]

\* A MongoDB account belongs to one database, which comes into being with what is
\* written to it.
MongoAfter(k, i, s) ==
  IF k.do = "DelAccount" THEN [s EXCEPT !.acct[k.on] = NoAcct]
  ELSE [s EXCEPT !.acct[k.on] = [pwd |-> i.pwd, roles |-> i.want], !.cont = @ \cup {k.on}]

\* A kvrocks namespace is its token.
NamespaceAfter(k, i, s) ==
  [s EXCEPT !.acct[k.on] = IF k.do = "DelNamespace" THEN NoAcct
                           ELSE [pwd |-> i.pwd, roles |-> {}]]

After(k, i, s) ==
  CASE k.do \in {"PutUser", "PutUserNoRole", "NewUser", "Attach", "DelUser"} -> AccountAfter(k, i, s)
    [] k.do \in {"PutPolicy", "DelPolicy"}                       -> PolicyAfter(k, i, s)
    [] k.do \in {"Grant", "Revoke"}                              -> PermissionsAfter(k, s)
    [] k.do \in {"Make", "Drop", "DropListed"}                   -> ContainersAfter(k, i, s)
    [] k.do \in {"PutAccount", "DelAccount"}                     -> MongoAfter(k, i, s)
    [] k.do \in {"SetNamespace", "AddNamespace", "DelNamespace"} -> NamespaceAfter(k, i, s)
    [] OTHER -> s

Unreadable_NoStart == file.st = "garbled"

\* The configuration is not there yet, or is none.
Unreadable == file.st \in {"absent", "garbled"}

\* Calls the server refuses in any case: dropUser of an account that is not
\* there, and a kvrocks token that another namespace has.
Refuses(k, i) ==
  \/ ~svc
  \/ k.do = "DelAccount" /\ srv.acct[k.on] = NoAcct
  \/ /\ k.do \in {"SetNamespace", "AddNamespace"}
     /\ \E c \in Containers \ {k.on} : srv.acct[c].pwd = i.pwd
  \/ k.do = "Load" /\ Unreadable

-----------------------------------------------------------------------------
(* The NATS configuration: read, changed, truncated and written.           *)

\* The first configuration has the settings and the administrator that Config
\* and its template know, and may have others.
Parts == {"settings", "admin", "others"}
Config == {"settings", "admin"}

\* ParseFile keeps what Config has a field for.  An empty file is a
\* configuration without anything.
ParseFile == [st |-> "full", base |-> file.base \cap Config, user |-> file.user]

\* createOrUpdateUser and DeleteUser change the user of this request only.
UserPut(conf, i) == [conf EXCEPT !.user = i.pwd]
UserDeleted(conf) == [conf EXCEPT !.user = 0]
Changed(conf, i) == IF i.act = "DELETE" THEN UserDeleted(conf) ELSE UserPut(conf, i)

\* ioutil.WriteFile truncates the file when it opens it.
FileAfter(k) ==
  CASE k.do = "Truncate" -> [st |-> "empty", base |-> {}, user |-> 0]
    [] k.do = "Write"    -> task.conf
    [] OTHER             -> file

-----------------------------------------------------------------------------
(* The worker.                                                             *)

Next1 == Head(task.rest)
Working == task # None /\ task.rest # <<>> /\ ~task.begin
NoConf == [st |-> "absent", base |-> {}, user |-> 0]
Begin(i) == [act |-> i.act, item |-> i, begin |-> TRUE, rest |-> <<>>,
             clean |-> TRUE, served |-> TRUE, conf |-> NoConf]

Take ==
  /\ task = None
  /\ queue # <<>>
  /\ task' = Begin(Head(queue))
  /\ queue' = Tail(queue)
  /\ last' = None
  /\ UNCHANGED <<kind, svc, srv, file, init, obj, torn, errors, upsets>>

\* A failed DELETE runs again at once, everything else goes to the queue's end.
TryAgain ==
  IF task.act = "DELETE"
  THEN task' = Begin(task.item) /\ UNCHANGED queue
  ELSE task' = None /\ queue' = Append(queue, task.item)

Returned(served) ==
  /\ task' = None
  /\ last' = [act |-> task.act, item |-> task.item, clean |-> task.clean,
              served |-> served /\ task.served]
  /\ UNCHANGED queue

Unserved_AlwaysError(i) == TryAgain /\ last' = None

\* Without the server a deletion has nothing to do and a creation fails;
\* without a RedixCluster both do nothing.
Unserved(i) == IF i.act = "DELETE" \/ kind = "kvrocks" THEN Returned(FALSE) ELSE TryAgain /\ last' = None

Open ==
  /\ task # None
  /\ task.begin
  /\ IF svc
     THEN /\ task' = [task EXCEPT !.begin = FALSE, !.rest = Program(task.item)]
          /\ UNCHANGED <<queue, last>>
     ELSE Unserved(task.item)
  /\ UNCHANGED <<kind, svc, srv, file, init, obj, torn, errors, upsets>>

Answered ==
  task' = [task EXCEPT !.rest = Tail(@),
                       !.conf = IF Next1.do = "Load" THEN Changed(ParseFile, task.item) ELSE @]

CallOk ==
  /\ Working
  /\ ~Refuses(Next1, task.item)
  /\ srv' = After(Next1, task.item, srv)
  /\ file' = FileAfter(Next1)
  /\ torn' = (torn \/ (Next1.do = "Load" /\ init = "write"))
  /\ Answered
  /\ UNCHANGED <<kind, svc, init, obj, queue, last, errors, upsets>>

\* An error that is only logged, or one MakeBucket gives for a bucket that
\* does exist.
Tolerated(k) ==
  \/ ~k.must
  \/ kind = "minio" /\ k.do = "Make" /\ k.on \in srv'.cont

\* An error leaves the server as it was, or the answer of a call that was
\* carried out is lost.
CallError ==
  /\ Working
  /\ Next1.do \notin {"Load", "Truncate", "Write"}
  /\ \/ Refuses(Next1, task.item) /\ UNCHANGED <<srv, errors>>
     \/ /\ errors < MaxErrors
        /\ errors' = errors + 1
        /\ ~Refuses(Next1, task.item)
        /\ srv' \in {srv, After(Next1, task.item, srv)}
  /\ IF Tolerated(Next1)
     THEN task' = [task EXCEPT !.rest = Tail(@), !.clean = FALSE] /\ UNCHANGED queue
     ELSE TryAgain
  /\ ~(kind = "mysql" /\ Next1.do = "DelUser")
  /\ UNCHANGED <<kind, svc, file, init, obj, last, torn, upsets>>

\* The file cannot be read: it is not there yet, or not a configuration.
LoadFails ==
  /\ Working
  /\ Next1.do = "Load"
  /\ Refuses(Next1, task.item)
  /\ TryAgain
  /\ UNCHANGED <<kind, svc, srv, file, init, obj, last, torn, errors, upsets>>

\* What was written of the configuration when the disk is full.
WriteFails ==
  /\ Working
  /\ Next1.do = "Write"
  /\ errors < MaxErrors
  /\ errors' = errors + 1
  /\ file' \in {file, [task.conf EXCEPT !.st = "garbled"]}
  /\ torn' = TRUE
  /\ TryAgain
  /\ UNCHANGED <<kind, svc, srv, init, obj, last, upsets>>

Return ==
  /\ task # None
  /\ ~task.begin
  /\ task.rest = <<>>
  /\ Returned(TRUE)
  /\ UNCHANGED <<kind, svc, srv, file, init, obj, torn, errors, upsets>>

\* What is in memory is lost; the informer delivers the object again.
Reborn ==
  /\ queue' = IF obj = None THEN <<>>
              ELSE <<[act |-> "ADD", want |-> obj.want, pwd |-> obj.pwd, all |-> obj.all]>>
  /\ task' = None
  /\ last' = None
  /\ init' = IF kind = "nats" THEN "stat" ELSE "done"

\* deleteMysqlRequest reports the error of DROP USER with the MariaDB part of
\* the request, which is nil: the process dies and the deletion with it.
Panic ==
  /\ Working
  /\ kind = "mysql"
  /\ Next1.do = "DelUser"
  /\ \/ ~svc /\ UNCHANGED <<srv, errors>>
     \/ /\ errors < MaxErrors
        /\ errors' = errors + 1
        /\ srv' \in {srv, After(Next1, task.item, srv)}
  /\ Reborn
  /\ UNCHANGED <<kind, svc, file, obj, torn, upsets>>

OperatorRestart ==
  /\ upsets < MaxUpsets
  /\ upsets' = upsets + 1
  /\ torn' = (torn \/ file.st = "empty")
  /\ Reborn
  /\ UNCHANGED <<kind, svc, srv, file, obj, errors>>

-----------------------------------------------------------------------------
(* The ConfigMap controller provides the first NATS configuration.         *)

\* Nothing is done when the file exists.
CmStat ==
  /\ init = "stat"
  /\ init' = IF file.st = "absent" THEN "open" ELSE "done"
  /\ UNCHANGED <<kind, svc, srv, file, obj, queue, task, last, torn, errors, upsets>>

CmOpen ==
  /\ init = "open"
  /\ init' = "write"
  /\ file' = [st |-> "empty", base |-> {}, user |-> 0]
  /\ UNCHANGED <<kind, svc, srv, obj, queue, task, last, torn, errors, upsets>>

\* A file that somebody else wrote in between is overwritten from its start:
\* the longer of the two texts shows at its end.
CmWrite ==
  /\ init = "write"
  /\ init' = "done"
  /\ file' \in {[st |-> "full", base |-> Parts, user |-> 0]}
               \cup (IF file.st = "empty" THEN {} ELSE {[file EXCEPT !.st = "garbled"]})
  /\ UNCHANGED <<kind, svc, srv, obj, queue, task, last, torn, errors, upsets>>

-----------------------------------------------------------------------------
(* The object, the app and the server.                                     *)

Event(act, s) == Append(queue, [act |-> act, want |-> s.want, pwd |-> s.pwd, all |-> s.all])

CreateObject ==
  /\ obj = None
  /\ queue = <<>> /\ task = None
  /\ \E s \in Specs :
       /\ Allowed(s)
       /\ obj' = [act |-> "OBJ", want |-> s.want, pwd |-> s.pwd, all |-> s.all, gen |-> 1]
       /\ queue' = Event("ADD", s)
  /\ last' = None
  /\ UNCHANGED <<kind, svc, srv, file, init, task, torn, errors, upsets>>

UpdateObject ==
  /\ obj # None
  /\ obj.gen < MaxGen
  /\ \E s \in Specs :
       /\ Allowed(s)
       /\ obj' = [act |-> "OBJ", want |-> s.want, pwd |-> s.pwd, all |-> s.all,
                   gen |-> obj.gen + 1]
       /\ queue' = Event("UPDATE", s)
  /\ UNCHANGED <<kind, svc, srv, file, init, task, last, torn, errors, upsets>>

DeleteObject ==
  /\ obj # None
  /\ obj' = None
  /\ queue' = Event("DELETE", obj)
  /\ UNCHANGED <<kind, svc, srv, file, init, task, last, torn, errors, upsets>>

\* The app makes a container itself, where its account may.
AppCreates ==
  /\ kind \in Policied
  /\ svc
  /\ \E c \in Access(srv) \ srv.cont : srv' = [srv EXCEPT !.cont = @ \cup {c}]
  /\ UNCHANGED <<kind, svc, file, init, obj, queue, task, last, torn, errors, upsets>>

Installed ==
  /\ ~svc
  /\ svc' = TRUE
  /\ UNCHANGED <<kind, srv, file, init, obj, queue, task, last, torn, errors, upsets>>

Removed ==
  /\ svc
  /\ kind # "nats"
  /\ upsets < MaxUpsets
  /\ upsets' = upsets + 1
  /\ svc' = FALSE
  /\ srv' = EmptySrv
  /\ last' = None
  /\ task' = IF task = None THEN None ELSE [task EXCEPT !.served = FALSE]
  /\ UNCHANGED <<kind, file, init, obj, queue, torn, errors>>

Worker == Take \/ Open \/ CallOk \/ CallError \/ LoadFails \/ WriteFails \/ Return \/ Panic
ConfigMap == CmStat \/ CmOpen \/ CmWrite

MwNext ==
  \/ Take
  \/ Open
  \/ CallOk
  \/ CallError
  \/ LoadFails
  \/ WriteFails
  \/ Return
  \/ Panic
  \/ CmStat
  \/ CmOpen
  \/ CmWrite
  \/ CreateObject
  \/ UpdateObject
  \/ DeleteObject
  \/ AppCreates
  \/ Installed
  \/ Removed
  \/ OperatorRestart

MwSpec == MwInit /\ [][MwNext]_mw_vars

\* The worker and the ConfigMap controller run whenever they can.
FairMwSpec == MwSpec /\ WF_mw_vars(Worker) /\ WF_mw_vars(ConfigMap)

-----------------------------------------------------------------------------
(* Properties.                                                             *)

Acts == {"ADD", "UPDATE", "DELETE"}
Calls == [do : {"PutUser", "PutUserNoRole", "NewUser", "Attach", "DelUser", "PutPolicy",
                "DelPolicy", "Grant", "Revoke", "Make", "Drop", "DropListed", "PutAccount",
                "DelAccount", "SetNamespace", "AddNamespace", "DelNamespace", "Load",
                "Truncate", "Write", "Stream", "Script", "Flush"},
          on : Containers, must : BOOLEAN]
Files == [st : {"absent", "empty", "full", "garbled"}, base : SUBSET Parts, user : Pwds \cup {0}]
Accts == [pwd : Pwds \cup {0}, roles : SUBSET Containers]

\* Type invariant.  Of the sequences only the elements are checked.
MwTypeOK ==
  /\ kind \in Kinds /\ svc \in BOOLEAN /\ torn \in BOOLEAN
  /\ srv \in [user : Pwds \cup {0}, att : BOOLEAN, pol : SUBSET (Containers \cup OwnNames),
              cont : SUBSET (Containers \cup OwnNames), acct : [Containers -> Accts]]
  /\ file \in Files
  /\ init \in {"stat", "open", "write", "done"}
  /\ obj = None \/ obj \in [act : {"OBJ"}, want : SUBSET Containers, pwd : Pwds, all : BOOLEAN,
                            gen : 1..MaxGen]
  /\ \A n \in DOMAIN queue : queue[n] \in Requests
  /\ task = None \/ /\ task.act \in Acts /\ task.item \in Requests /\ task.conf \in Files
                    /\ {task.begin, task.clean, task.served} \subseteq BOOLEAN
                    /\ \A n \in DOMAIN task.rest : task.rest[n] \in Calls
  /\ last = None \/ last \in [act : Acts, item : Requests, clean : BOOLEAN, served : BOOLEAN]
  /\ errors \in 0..MaxErrors /\ upsets \in 0..MaxUpsets

\* The app of item i can work: its containers exist, its account has the
\* password of the item (MySQL and MariaDB keep the first one) and access to
\* all of them.  Where a policy is written as a whole the access is exactly
\* what the request grants: what it lists, and with the flag every name of the
\* prefix.
Serves(i) ==
  CASE kind = "nats"    -> file.st = "full" /\ Config \subseteq file.base /\ file.user = i.pwd
    [] kind = "mongodb" -> \A c \in i.want : srv.acct[c] = [pwd |-> i.pwd, roles |-> i.want]
    [] kind = "kvrocks" -> {c \in Containers : srv.acct[c].pwd = i.pwd} = i.want
    [] kind \in Sql     -> srv.user # 0 /\ i.want \subseteq srv.cont \cap Access(srv)
    [] kind = "rabbitmq" -> srv.user = i.pwd /\ i.want \subseteq srv.cont \cap Access(srv)
    [] OTHER            -> srv.user = i.pwd /\ i.want \subseteq srv.cont /\ Access(srv) = Granted(i)

\* When an ADD or UPDATE is reported as done, by handler() returning nil, the
\* app is served, whatever earlier attempts, of this or of another version of
\* the object, failed half-way or lost an answer.
DoneMeansServed ==
  (last.act \in {"ADD", "UPDATE"} /\ last.served) => (torn \/ Serves(last.item))

\* When a DELETE is reported as done the account is gone and can use nothing,
\* and, unless an error was only logged, so are the containers the request
\* grants: those it lists, and with the flag also the "ns_..." indexes the app
\* made.  (What the app made while an earlier version of the object had the flag
\* stays; and a MinIO account is deleted after its buckets and may make new ones
\* until then.)
DoneMeansGone ==
  (last.act = "DELETE" /\ last.served) =>
    /\ srv.user = 0 /\ Access(srv) = {}
    /\ kind = "nats" => torn \/ file.user = 0
    /\ \A c \in last.item.want : srv.acct[c] = NoAcct
    /\ (last.clean /\ kind # "minio") => Granted(last.item) \cap srv.cont = {}

\* handler() returns nil only when what the item asks for is so: the app is
\* served, or what it had is gone.
DoneMeansDone == MwTypeOK /\ DoneMeansServed /\ DoneMeansGone

\* Two controllers write the NATS configuration, each by truncating it first: a
\* complete file always has the administrator and the settings of Config, and so
\* no worker ever read the file of the other half-way, unless it read between
\* the ConfigMap handler's truncation and its write, or a write was cut short by
\* the end of the process or an error.  (Other settings go with the first
\* request: the struct has no fields for them.)
AdminKept == (file.st = "full" /\ ~torn) => Config \subseteq file.base

\* The worker returns from every DELETE, which it repeats in place: also when
\* the server has been removed, and when some of its objects are gone already.
\* The exceptions are calls the server refuses every time: dropUser of a MongoDB
\* account an earlier attempt has dropped, and a NATS configuration that two
\* writers garbled.
DeletionsReturn ==
  (task.act = "DELETE") ~>
    (task = None \/ torn \/ (kind = "mongodb" /\ Working /\ svc /\ Refuses(Next1, task.item)))

=============================================================================
