# A TLA+ verification project for tapr

tapr is the set of system services that Olares/Terminus runs for its
applications: an operator that provisions middleware (PostgreSQL/citus,
kvrocks, MongoDB, NATS, ...), a websocket gateway, a watcher that distributes
system events, a vault front end and a few sidecars. This directory holds TLA+
models of the parts whose correctness depends on interleaving, failure and
order, the TLC configurations that check them on small instances, and TLAPS
proofs of the properties that matter most.

- [Inventory](#inventory)
- [Modules](#modules)
- [Runs](#runs)
- [Fairness](#fairness)
- [Proofs](#proofs)
- [What the models say about the code](#what-the-models-say-about-the-code)
- [What is not modelled](#what-is-not-modelled)
- [Running it](#running-it)

## Inventory

Paths are relative to `src/`. "Hard" names what a unit test would hardly reach;
`PROJECT.json` lists each such place with its line under `hazards`.

### Middleware operator (`cmd/middleware`)

One process, `cmd/middleware/main.go`. Every controller has an informer, a
workqueue and **one** worker goroutine; controllers of different kinds run
concurrently and meet in the Kubernetes API server, in the databases and on
the disk.

| Part | State it keeps | Operations | Interacts with | Hard |
|---|---|---|---|---|
| middleware-request controller (`operator/middleware-request/controller.go`, `handler.go`) | the workqueue of (action, object) pairs | ADD, UPDATE, DELETE of a `MiddlewareRequest`, by middleware type | informer, all databases | a retry carries the object of its event; DELETE is retried in place; tombstones; restarts |
| PostgreSQL requests (`handler_pg.go`, `pkg/postgres/client.go`) | roles, databases, extensions, citus worker lists on every node | create or update role and databases, add workers, drop what is not listed, delete all | pgcluster controller's replay (`PGClusterRecreated`) | a statement fails after others ran; two goroutines on one cluster |
| other requests (`handler_redis.go`, `handler_mdb.go`, `handler_nats.go`, `handler_minio.go`, ...) | accounts, roles and policies, databases, buckets, hosts, indices, namespaces; the NATS configuration file | create, update, delete | the middleware; the ConfigMap controller (`controller_config.go`) writes the same file | half-done sequences of calls; calls refused the second time; read-change-write of one file without a lock |
| pgcluster controller (`operator/pgcluster`, `pkg/workload/citus`) | StatefulSet, admin user, replicas, registered nodes | create the cluster, change the admin user, notify, scale | request controller (`notifyClusterCreated`) | each step is found to be needed by comparing object and StatefulSet, which change before the databases do |
| pgcluster-backup controller (`operator/pgcluster-backup`) | status of `PGClusterBackup`, one Job of a fixed name, dumps on disk | run the job, wait, record the outcome, delete files | job controller, restore controller | optimistic concurrency with stale copies, lost answers, restart while a job runs |
| pgcluster-restore controller (`operator/pgcluster-restore`) | status of `PGClusterRestore`, one Job | find a ready backup, run the job, wait, record the outcome | backup controller (its objects and dumps) | the backup may go after it was looked up; a dump must not be loaded twice |
| kvrocks controllers (`operator/redixcluster`, `kvrocks-bakcup`, `kvrocks-restore`, `pkg/workload/kvrocks`) | StatefulSet replicas, the data directory, the backup directory | scale to 0, remove, rename, scale to 1 | each other through the directories | crash between two steps; backup racing restore |
| backup watcher (`operator/backup`) | phases of a system backup | start the backups of all middlewares in parallel, wait for them | backup controllers | not started: commented out in `main.go` |
| workload helpers (`pkg/workload/*`) | none of their own | templates and single calls | API server | the NATS configuration file |
| HTTP API (`cmd/middleware/app`) | none | list and create requests | API server | - |

### Websocket gateway (`cmd/websocket`, `pkg/ws`)

| Part | State it keeps | Operations | Interacts with | Hard |
|---|---|---|---|---|
| server (`pkg/ws/server.go`, `filters.go`) | `users` (connections by user) under a lock; three bounded channels | add, close, write, read, list, expire | goroutines of connections, apps | everybody shares the channels; the filter works on a snapshot taken before the lock |
| connection (`pkg/ws/client.go`) | position of its read loop, context, time of the last ping | open, read, pong, message, close | server, the socket | a cancellation is noticed only at the next turn of the loop |
| HTTP handlers (`cmd/websocket/app/handler.go`) | none | upgrade, send, close, list; callback to the app | server | empty targets |

### System events (`cmd/sys-event`)

| Part | State it keeps | Operations | Interacts with | Hard |
|---|---|---|---|---|
| queue and subscribers (`watchers/app.go`, `callback.go`, `notification.go`, `apps`, `workflows`, `metrics`, `custom`) | a rate limited queue of events with one worker; times of the last alerts | call the registered callbacks in order, send messages, regenerate the Corefile | informers, a poll of metrics, an HTTP request fill it | a failure in the middle repeats the earlier calls; a retried event is overtaken; rate limits against lost alerts |
| watch of users (`watchers/users`) | what was handled (`cacheEvent`), users being activated | call callbacks for created, activated, deleted users; initialise new callbacks | two raw watches, the queue | watches break and repeat everything; calls fail; two channels in any order |
| CoreDNS configuration (`watchers/corefile.go`, `dnspod`) | none but the config map | regenerate the whole file | users, pods, nodes, the queue | several reads, then a write under the version read first |

### Vault (`cmd/vault`, `pkg/vault/infisical`)

An HTTP server before Infisical: users, workspaces and secrets. It keeps a mutex
and the id of the organisation; the rest is in Infisical and its database, into
which it writes directly. Requests run concurrently. Hard: look up, then create;
three inserts without a transaction; a mutex held over remote calls.

### Others

The image uploader and upload sidecar, the KubeSphere and Terminus clients, and
generated code (`pkg/generated`). They keep little state of their own or none.

### What makes each part correct

- *Requests*: once the operator has nothing left to do, the cluster holds
  exactly what the existing objects ask for; nothing that was deleted stays;
  work comes to an end.
- *Backups*: what a status reports agrees with the dumps on disk and stays that
  way; every backup gets an outcome; files of deleted backups are removed.
- *Gateway*: messages reach only their targets; the app sees a well-formed
  history of every connection, but for events whose POST failed; a closed, lost or expired connection leaves the
  registry; channels of any capacity do not block for good.
- *Kvrocks*: nobody touches the database directory while kvrocks has it open; a
  restore, wherever it stops, never leaves neither data nor backup; kvrocks never
  starts without a database, and comes back after an undisturbed restore.
- *Restores*: success means that a complete dump was loaded, and it is loaded again
  only after a load that failed; every restore gets an outcome.
- *Other requests*: what is reported as done is done, whatever half an earlier
  attempt has left; deletions come to an end; the NATS administrator survives.
- *Cluster*: once an object is carried out, the cluster has its size and all nodes
  accept its administrator; the requests were replayed on a new cluster; what a request
  did since the cluster last changed its size, it did for all nodes.
- *Events*: in order unless they failed, repeated only after a failure, none
  finished untold, none forgotten. A callback hears of every user, of none after
  its deletion, of an activation once, but for repetitions of calls that failed.
- *CoreDNS*: the file at rest is that of the present users, pods and nodes; edits
  of others survive; it does come to rest.
- *Vault*: one workspace of a name (but for those made after their client gave up),
  secrets that can be decrypted and belong to their user, one account of a user; every
  request returns.

## Modules

| Module | Models | 
|---|---|
| `RequestController.tla` | the queue, the dispatch and the PostgreSQL handler of the middleware-request controller, and the replay by the pgcluster controller |
| `MCRequestController.tla` | its instances |
| `RequestControllerProofs.tla` | theorems about it |
| `Middlewares.tla` | the requests of the eight other middlewares, and the two writers of the NATS configuration |
| `PGCluster.tla`, `MCPGCluster.tla` | the pgcluster controller: creation, administrator, scaling, deletion; and what the request controller does on the same nodes |
| `MiddlewareProofs.tla` | theorems about `PGCluster` and `Middlewares` |
| `PGBackup.tla`, `MCPGBackup.tla` | the pgcluster-backup controller with the job it runs |
| `PGRestore.tla`, `MCPGRestore.tla` | the pgcluster-restore controller composed with `PGBackup` |
| `PGBackupProofs.tla` | theorems about both |
| `KVRocks.tla`, `MCKVRocks.tla` | the kvrocks backup and restore controllers, both on one StatefulSet and one pair of directories |
| `DataDir.tla` | what those two promise about the data, implemented by `KVRocks` |
| `KVRocksProofs.tla` | theorems about it |
| `WSGateway.tla`, `MCWSGateway.tla` | the websocket gateway |
| `WSGatewayProofs.tla` | theorems about it |
| `SysEvents.tla` | the event queue, its subscribers and what fills it |
| `UserWatch.tla`, `MCUserWatch.tla` | the goroutine that watches users and callbacks |
| `SysEventProofs.tla` | theorems about `UserWatch` and `SysEvents` |
| `DnsRecords.tla` | the regeneration of the Corefile |
| `DnsRecordsProofs.tla` | theorems about it |
| `Vault.tla`, `MCVault.tla` | the vault server |
| `VaultProofs.tla` | theorems about it |

Modules without an MC module take their instances from the configuration alone.
Each module starts with the files it translates and the abstractions it makes;
`PROJECT.json` maps every definition to its lines. Operators named
`Definition_Variant` are faulty versions of `Definition`, used to confirm that
each property notices the mistake it is meant to notice; nothing refers to them.

### RequestController

State and code:

| Variable | Code |
|---|---|
| `api`, `gen` | the `MiddlewareRequest` objects in the API server; the version counts their changes |
| `known`, `watch` | the informer's cache and the events on their way to `handleAddObject`, `handleUpdateObject`, `handleDeleteObject` |
| `queue`, `delayed` | `c.workqueue`, and the items of `AddAfter(..., 5s)` |
| `task["worker"]`, `task["recreate"]` | where the worker goroutine, and the goroutine that runs `PGClusterRecreated`, are |
| `notify`, `replay` | the pending `notifyClusterCreated`, and the requests its loop still has to visit |
| `role`, `dbs`, `setup`, `workers` | the citus nodes: roles with the version of their password, databases, the databases whose citus, extension and script statements have run, and the master's list of workers |
| `applied`, `excuse` | history, read by properties only |

One step is one group of SQL statements on one node: `CreateOrUpdateUser`,
`CreateDatabaseIfNotExists`, `SetupDatabase`, `AddWorkerNode`, `ListUnlisted`,
`PruneDatabase`, `DropOne`, `ListOwned`, `DeleteUser`. `NextNode` is the end of
an iteration of a node loop. Both goroutines run the same statements, so any two
of them interleave. Every statement may fail (`WorkerError`, `ReplayError`); some
are refused by the database whatever the network does (`Refused`: a database
cannot be owned by a role that does not exist, a role that owns a database
cannot be dropped). `Restart` loses queue and cache, and the informer reports
every existing object as an ADD; `Relist` replaces pending events by the
difference between cache and list, with a tombstone for a deletion.

`excuse[r]` records three things the code does by design, so that the properties
can say what holds otherwise: `"overtaken"` (an older item of `r` ran after a
newer one), `"lost"` (events disappeared in a restart or a re-list, there is no
finalizer), `"swallowed"` (the replay logged an error and went on). Each
property names the excuses it grants.

### PGBackup

`cr[b]` is the object with its resourceVersion `ver`; a queue item holds a *copy*.
`UpdateStatus` succeeds only for a current copy, changes the copy in place before the
call (as `updateStatus` does with the pointer it is given), and its answer may be lost
after it was applied. The actions follow `handler()`: `IgnoreFinished`, `RefuseUnnamed`,
`RejectDuplicate`, `DeletePrevJob`, `NoPrevJob`, `PrevJobGone`, `CreateJob`,
`CreateJobFails`, `MarkFailed`, `MarkRunning`, `JobCompleted`, `WaitFails`,
`RemoveFiles`, `RemoveFails`. The job controller, its pods and the TTL controller are
external (`JobStarts`, `JobEnds`, `JobRemoved`, `JobExpires`); a job with one failed pod
and none active is `"backoff"`, which `waitForJobComplete` cannot tell from a failed
one. The path of a dump is the number of the job that writes it; `owner` is history.

### PGRestore

Extends `PGBackup` with the objects (`rcr`), queue, worker and job of the restore
controller; a step of one controller leaves the variables of the other alone, and
`Restart` is one step of both. The two meet where the code lets them:
`LookupBackup` reads the state and path of the backup object, and the restore job
(`RJobStarts`, `RJobEnds`) reads whatever dump is at that path when it starts,
which may have been removed since (`RemoveFiles` of PGBackup). The handler is
`RIgnoreFinished`, `RRefuseUnnamed`, `LookupBackup`, `RRejectDuplicate`,
`RDeletePrevJob` (which does not wait for the job to go), `RNoPrevJob`, `RCreateJob`,
`RCreateJobFails`, `RMarkFailed`, `RMarkRunning`, `RJobCompleted`, `RWaitFails`.
`load[j]` is history: for whom job `j` was made, what it has read, and how often psql
ran and failed. The job has no `BackoffLimit` of its own, so a pod that failed in the
middle of a load is followed by another that loads the whole dump again.

### PGCluster

`def` is the object, `sts` the StatefulSet with the credential in its environment,
`node[n]` the credential the database of node `n` really has, `on[x]` the nodes with a
database of name `x`, `workers[x]` what is registered in that database of the master.
`wk` is where `handler()` is and what it has read; its actions carry
the names of the functions they model. The handler compares the object with the
StatefulSet, so once that is patched or scaled nothing tells the next attempt that
the databases are not: `broken` records when an error or a restart came there, and
the properties name what they except. `Notify` is the step `ClusterCreated` of
RequestController begins with.

A request makes the database `GetDatabaseName(namespace, name)`; `ScalePGClusterNodes`
works with the `name` alone, and only on the requests in the namespace of the cluster.
A member of `Dbs` is a name on the servers, `RawName[d]` the name without the namespace,
`OwnDbs` the databases of the requests that are looked at. `createOrUpdatePGRequest`,
`addWorkerNode` with `RegisterNode` and `RequestDone`, and `deletePGAll` are the request
controller on the same nodes, `rq` is where it stands; `settled` is history, the
databases whose request was carried out since the StatefulSet last changed its size.

### Middlewares

A behaviour is about one kind of server and one request. A container is what the request
lists; `all` is `AllowNamespaceBuckets` or `AllowNamespaceIndexes`, and `Granted(i)` what
the app may use: what is listed, and with the flag every name of `Prefixed`. For MinIO these
are the names requests list, too; for Elasticsearch they are not, since indexes are
created as `ns-...` but granted and listed as `ns_*` (`OwnNames`). `Program(i)` is the
sequence of calls the handler of that kind makes for item `i`, each either fatal
(`Must`) or only logged (`Warn`); `After` and its parts say what a call does to the
server, `Refuses` what the server refuses whenever it is asked. `Open` looks for the
server (admin secret or cluster object), `CallOk` and `CallError` carry out the next
call, the latter with or without its effect; `TryAgain` sends the item back or, for
DELETE, to its first call. `last` is the item just finished, so that the
properties speak about the state `handler()` reports success in. For NATS the server
is a file that the worker reads, truncates and writes while `CmStat`, `CmOpen` and
`CmWrite` create it. What is read goes through the struct `Config` and its template:
`ParseFile` keeps the parts it has fields for and drops all others. `WriteFails` leaves an
empty or a garbled file. `torn` is history: a write was cut short by an error or a
restart, or the worker has read between the two steps of the ConfigMap handler.

### KVRocks and DataDir

Two controllers, `"backup"` and `"restore"`, with a queue and a worker each, and the
same copies and `UpdateStatus` as in PGBackup. `replicas` is the StatefulSet's,
`pod` says whether a kvrocks exists (and has the database open), `saving` what the BGSAVE it
executes will deliver, namely the data of the moment it was accepted; `db` and `bak` are
the contents of `KVRocksDataDir/db` and `KVRocksBackupDir/backup`: a version of the data,
`Part` when some files of it are missing, or `Gone`. `os.RemoveAll` takes two steps,
`RemoveSome` and `RemovePrev` (or `RemoveFiles`), `EraseSome` and `EraseDb`, between which
anything else may happen; what was `Part` when it was renamed stays `Part`, so it does not
matter how much the removal still takes from it. `task[w].phase` is the
call of `BackupKVRocks` (`connect`, `remove`, `save`, `await`) or `RestoreKVRocks`
(`stat`, `down`, `closing`, `erase`, `rename`, `up`, `starting`) that comes next, and
every call is an action: `Connect`, `RemovePrev`, `BgSave`, `BackupComplete`,
`BackupTimeout`, `StatBackup`, `ScaleDown`, `PodsClosed`, `EraseDb`, `Rename`, `ScaleUp`,
`PodsStarted`. A call may fail without effect (`CallFails`, also the end of a wait), and
`UpdateScale`, BGSAVE and `UpdateStatus` may fail after they took effect. kvrocks and the
StatefulSet controller are external (`Write`, `SaveDone`, `PodStops`, `PodStarts`).
A backup directory may be there from the start.

`DataDir` knows only whether kvrocks runs, the two directories and the checkpoint that is
being saved. It allows a backup to be discarded at any time, wholly or in part, the
database to be erased only while kvrocks does not run, its place to be taken only when
all of it is gone and only by the backup directory as it is, that directory to receive
only a checkpoint of kvrocks, and kvrocks to start only with a database. The refinement
mapping is `running <- pod`, `snap <- saving`.

`overlapped` is history: a backup removed the directory a restore relied on, or a
restore moved the directory a backup was waiting for. The two controllers do not know
of each other, and in this case the code does lose data. `cut`, too, is history: a
failure or a restart left the backup directory half removed, and the next restore takes
it for a backup. The properties say what holds otherwise, `ImplementsDataDir` holds even
then.

### WSGateway

`pc[c]` is where the goroutine of connection `c` is (`onConnection`); `reg` is the
set of connections in `server.users`; `readQ`, `writeQ` and `closeQ` are the
channels with capacity `QueueSize`; `writer` and `closer` are the consumers
between their snapshot (`NewFilter`) and the critical section that acts on it;
`ticker` is `checkExpired` between reading the connections and queueing them.
`Select` is the chain of filters; `IsFor` says whom a target means without
filters and is used by the property only. `seen` is what the app was told. A POST that
fails is only logged (`PostFails`): the app may have acted on it, may do so later
(`flying`, `ToldLate`) or never; `failed` is history. Time is a flag: a connection in
`Silent` may become idle whenever no ping has reset it.

### SysEvents, UserWatch and DnsRecords

`SysEvents` has the queue (`queue`, `delayed`, `worker`); an item is a short program
of steps (`Do`), one for each remote call of its subscriber: `AdminUser`, `Invoke`
(callback by callback), `GetWorkflowOwner`, `Send`, `Corefile`, `Alert`, `Stamp`. What
fills the queue is modelled with its conditions: informers of applications and
namespaces, the poll of metrics with its minute per metric, and other events.
`Crash` and `Run` lose and rebuild what is in memory. A call of a callback that fails may
have been acted on and is repeated in place (`retry.OnError`) until it succeeds or ends
the attempt; `told` counts the calls that succeeded, `unsure` the others. `sent`,
`failures`, `rounds`, `done`, `lost` are history as well.

`UserWatch` is the goroutine of `users.go`: `OpenWatches`, `ReadUserEvent`,
`ListCallbacks`, `InvokeCallback`, `InvokedAll`, `ReadCallbackEvent`,
`InitializeCallback`, `Initialized`, with `cacheUser`, `cacheCb` and `activing` for its
maps. `got[c]` is the log of the calls callback `c` has received, each with `ok`: a call
that timed out or was answered with an error may have been acted on, and is made again
(`InvokeRetry`). A registration without a URL ends the walk (`InvokeNoUrl`). The events it
queues are `OtherEvent` of SysEvents.

`DnsRecords` is one run of `RegenerateCorefile` after the other, request by request,
while the cluster changes between them. Of the old file the ten plugins that
`RegenerateCorefile` names are kept (`defaults`) and everything else is written anew; a file
without a server ends the run without an error (`NoServer`). `LocalIp` is the arithmetic of
`getUserLocalIp` with bytes modulo 256. What queues a run and what does not (a
created user, a service) follows the subscribers.

### Vault

`req[r]` is where the request handled by goroutine `r` is; the handlers (`CreateSecret`,
`CreateAppSecret`, `CreateUser`, ...) are made of the same steps: log in
(`IssueInfisicalToken`), find the workspace and its key, create one under the mutex
(`Lock`, `Recheck`, `PostWorkspace`), call Infisical. `rows` are the users with a flag
for each of the other two tables, so that an account can be half made. A workspace whose
answer is lost may be there already, or Infisical may still be at it when the client
gives up after 30 seconds (`PostAnswerLost`, `MadeLate`); the mutex is free then. Names are
sequences of letters, because whether joined names can coincide is a question.

## Runs

CHECK_DEADLOCK is off everywhere: users, clients and faults are bounded, so every
model ends in states where the system waits for input. That it does not stop
earlier is what the liveness runs show.

| Run | Instance | Shows |
|---|---|---|
| `request_safety` | one request, two databases of which `d1` is distributed, two nodes, three changes, one failing statement, and one of: restart, re-list, cluster created anew | `Provisioned`, `Deprovisioned`, `MasterPruned`, `NoDanglingWorker`, `TypeOK` |
| `request_liveness` | one database, three changes, one failure, one restart | `EventuallyQuiet`: the work ends, also the in-place retry of DELETE |
| `backup` | two names, two objects, two jobs, one failing call, one restart, one restarted pod; symmetry in the names | `BackupsSound`, `RejectedNeverRan`, `FinishedIsFinal` |
| `restore` | one backup, one restore, three jobs of the first and two of the second, one restarted pod, and a restart or a failing call of the restore controller | `RestoreSound`, `EveryOutcomeComes` |
| `kvrocks` | one backup and one restore name, two objects, two versions, a failing call or a restart, with and without an old backup | `DataNotLost`, `ImplementsDataDir`, `ReadyMeansSaved`, `EventuallyDone`, `TypeOK` |
| `ws` | two connections of one user (one private, one public, one silent), channels of capacity two, three targets, two messages, one of: push, close, failing POST | `OnlyToTarget`, `EventsInOrder`, `AtMostOneLateRead`, `PeerGoneIsHandled`, `ExpiredIsRemoved`, `TypeOK` |
| `sys_events` | two users, two callbacks, two events of any kind, one failing call, one crash, one hour | `EventsSound`, `DoneMeansTold`, `EveryItemFinishes` |
| `user_watch` | one user with four versions, two callbacks of which the second has no URL, two upsets (failed call, broken watch, restart) | `NothingAfterDeleted`, `NoDuplicates`, `EveryCallbackInitialized` |
| `dns_records` | two users, three indices (two valid, at byte and subnet boundaries, one out of range), three changes (of a user, pod, node or the file), one failing request | `QuietMeansRight`, `NoLostEdit`, `EventuallyFresh` |
| `middlewares` | all eight kinds, two containers and a name with the other prefix, the flag on and off, two passwords, two versions of the object, one failing call, one restart or removal of the server | `DoneMeansDone`, `AdminKept`, `DeletionsReturn` |
| `pgcluster` | the default and two other administrators (one in a secret), up to three nodes, two databases (one looked for by scaling, under the name of the other), three changes, one failing call, one restart | `AdminWorks`, `ClusterSound`, `EventuallyGood` |
| `vault` | a known and a new user, two workspace names of which one ends in a user's name, one key, three requests of which two run together, one call that fails or that the client gives up | `WorkspacesSound`, `AccountsSound`, `EveryRequestReturns` |

`BackupsSound`, `RestoreSound`, `EventsSound`, `NoDuplicates`, `QuietMeansRight`,
`DoneMeansDone`, `ClusterSound`, `WorkspacesSound`, `AccountsSound`, `EventuallyDone` and
`EveryOutcomeComes` are conjunctions of the named parts that precede them in their
module, each with its own comment.

Five runs with liveness have a state constraint (`kvrocks`, `restore`, `ws`,
`user_watch`, `pgcluster`). What a constraint cuts off there is only ever a step that
nobody has to take: a fault, a restart, a change of an object, a message of a client or
an app. No fair action leads out of it, so no behaviour that the fairness forces on is
lost.

Why the bounds are enough:

- *Requests are independent*: a request has its own role and databases, and the
  only thing two requests share is the worker. One request with three changes
  already has create-edit-delete, create-delete-create and two edits in a row.
  Two nodes distinguish master and worker; a distributed and a plain database
  distinguish what a worker node holds. One failure hits every place in turn,
  and its retry is complete; the statement sequence is repeated from its start,
  so a second failure meets a state the first one could have met.
- `OneUpset` of `MCRequestController`, a state constraint of `request_safety`, allows one restart, re-list
  or new cluster per behaviour, and a new cluster only with the distributed
  database. It keeps the replay, the most expensive part, to the case in which
  it touches both nodes; the other database behaves on node 0 as `d1` does.
- *Backups* share one job name, so two names and two objects are needed for one
  to meet the job of the other; two jobs suffice for an object to meet its own
  earlier job. One failing call is enough for a stale copy, and the stale copy
  meets every later state.
- *Kvrocks*: one worker per controller, so one name each meets every overlap of a
  backup and a restore; a second object of the same name covers deletion and
  re-creation. A failing call or a restart (`OneUpset`) hits every place in turn, the
  middle of a removal included. Two versions tell a new backup from an old one. The safety
  of the data is also proved without bounds.
- *Gateway*: capacity two has events of both connections, and two of one, wait in one
  channel, and is still small enough for senders to block; the proof of the order is
  for every capacity. Two messages are needed to tell one late read from two. `OneTalks`
  lets the client of one connection send; the other connection still opens, is written
  to, closes and is closed. A POST fails in behaviours of their own, at any event.

- *Restores*: one of each suffices for the backup to be deleted, repeated or fail
  at any moment of the restore; two jobs for an object to meet its own earlier job, and a
  third of the backup for the second to be waited for after a restart.
- *Cluster*: three nodes distinguish the master, a first and a later worker; three
  changes are a creation and two of: another administrator, more nodes, deletion. The
  request that scaling looks at wants a database whose raw name is that of the other, so
  that the registration is tried with and without one of that name. `OneConcern` keeps
  databases apart from changes of the administrator and restarts, which meet only in calls
  that fail; the theorems have no such bound.
- *Other requests*: two containers distinguish what an update adds, keeps and
  leaves; a failing call with and without effect hits every call of every handler,
  and its retry is complete.
- *Events*: two items suffice for one to overtake the other, two callbacks for one
  to be told and the next not; *users*: four versions are creation, start and
  completion of the wizard and one change after it. `FewUpsets` allows no upset beside a
  registration without a URL, and only three versions with two upsets.
- *CoreDNS*: a run reads six times, and each change may fall between any two reads;
  three changes are one before, one during and one after a conflict.
- *Vault*: a third request sees what two concurrent ones have left.

## Fairness

Only what the operator and Kubernetes do is fair; users, clients, apps and faults
never have to act.

- *RequestController*: the informer delivers, `Get`, `Requeue` (five seconds pass)
  and `Forget` happen, and both goroutines run their statements: weak fairness,
  goroutines that can run do run. An error is fair only when the database refuses
  the statement (`Refused`), since such a call does return.
- *PGRestore* (both controllers): weak fairness of the workers, of the delay of
  `AddRateLimited` and of the job controller (a job starts, ends and is removed after
  deletion). Strong fairness of `RGet` for each name: the queue is modelled as a set
  but the workqueue is first-in first-out, so an item is not passed over for ever.
- *Middlewares*: weak fairness of the worker and of the ConfigMap controller.
  Failing calls are bounded, refused ones return.
- *PGCluster*: weak fairness of the worker and of the StatefulSet controller, which
  starts the pods that are missing.
- *SysEvents*: weak fairness of the worker and of the rate limiter. *DnsRecords*: weak
  fairness of the worker.
- *UserWatch*: weak fairness of the goroutine, strong fairness of reading either
  channel: Go's `select` chooses at random among the channels that are ready.
- *Vault*: weak fairness of every request's goroutine. Waiting for the mutex needs no
  more, because the number of requests is bounded.
- *KVRocks*: weak fairness of both workers and of the delay of `AddRateLimited`, of
  BGSAVE, and of the StatefulSet controller, which follows the number of replicas.
- *WSGateway*: weak fairness of the consumers and the ticker; the handler's call
  to the app ends, because its HTTP client has a timeout of two seconds. Strong
  fairness of the senders (`Goroutine`, `QueueExpired`): a goroutine that waits for
  room in a channel competes with other senders, and the Go runtime serves blocked
  senders in order. Messages of clients are not part of `Goroutine`: a client may
  stay silent for ever.

## Proofs

All theorems hold for every value of the constants that satisfies the named
assumptions: `DistAssumption`, `ReplicasAssumption`, `BoundAssumption` of
RequestController; `NamesAssumption`, `BoundAssumption` of KVRocks (finitely many
names, none of both kinds); `ConnsAssumption`, `TargetsAssumption`, `BoundAssumption` of
WSGateway (the types of the parameters and positive capacities); `NamesAssumption`,
`BoundAssumption` of PGBackup (finitely many names) and `RNamesAssumption`,
`RBoundAssumption` of PGRestore (there is a name a restore can refer to);
`AdminsAssumption`, `DbsAssumption`, `BoundAssumption` of PGCluster (finitely many
databases, none of which is called like its name without the namespace); `UsersAssumption`,
`NamesAssumption`, `ReqsAssumption`, `BoundAssumption` of Vault (no dash in the name of a
user, which the code does not check but leaves to whoever creates users; finitely many
requests run together); `DnsAssumption` of DnsRecords (at
most 2^22 users: with more, `getUserLocalIp` shifts by a negative number and panics);
`UserWatchAssumption` of UserWatch (finitely many user names, at least one version, any
number of callbacks and any set of them without a URL);
`SysEventsAssumption` of SysEvents (there is a user, the first of whom is the
administrator; the number of callbacks and the bounds are any numbers);
`KindsAssumption`, `PwdsAssumption`, `ContainersAssumption`, `MwBoundsAssumption` of
Middlewares (the eight kinds, a request lists finitely many containers and none of the
names with the other prefix, 0 is no password). `NoLostEditHolds` needs none of them.

`PGCluster` and `Middlewares` are proved about in one module, and so are `UserWatch` and
`SysEvents`: each pair runs in one process. No variable is shared, and the definitions
of `Middlewares` and `SysEvents` that exist for every component carry a prefix
(`MwInit`, `MwNext`, `MwSpec`, `EventsInit`, ...) so that both can be extended.

| Theorem | Says | Inductive invariant |
|---|---|---|
| `RequestControllerProofs!TypeCorrect` | `Spec => []TypeOK` | `TypeInv`: `TypeOK`, a goroutine that is not idle has an item (`Busy`), an event or object implies a counted change (`Counted`, without it versions could be 0) |
| `RequestControllerProofs!NoDanglingWorkerHolds` | `Spec => []NoDanglingWorker` | `DanglingInv`, below |
| `RequestControllerProofs!ProvisionedHolds` | `Spec => []Provisioned` | `RInv`, below |
| `RequestControllerProofs!DeprovisionedHolds` | `Spec => []Deprovisioned` | `RInv`, below |
| `RequestControllerProofs!MasterPrunedHolds` | `Spec => []MasterPruned` | `DanglingInv`, `RInv` and `PInv`, below |
| `PGBackupProofs!BackupsSoundHolds` | `Spec => []BackupsSound` | `Inv`, below |
| `PGBackupProofs!FinishedIsFinalHolds` | `Spec => FinishedIsFinal` | `Inv`, below |
| `PGBackupProofs!RejectedNeverRanHolds` | `Spec => []RejectedNeverRan` | `Inv`, and `Orderly` as long as nothing has failed |
| `PGBackupProofs!RestoreSoundHolds` | `RSpec => []RestoreSound` | `Inv` and `RInv`, and `ROrderly` as long as nothing has failed, below |
| `MiddlewareProofs!AdminWorksHolds` | `Spec => []AdminWorks` | `Inv`, below |
| `MiddlewareProofs!ClusterSoundHolds` | `Spec => []ClusterSound` | `Inv`, below |
| `MiddlewareProofs!DoneMeansDoneHolds` | `MwSpec => []DoneMeansDone` | `MwInv`, below |
| `MiddlewareProofs!AdminKeptHolds` | `MwSpec => []AdminKept` | `MwInv`, below |
| `KVRocksProofs!TypeCorrect` | `Spec => []TypeOK` | `TInv`: `TypeOK`, and a worker past the Running update holds an item and a stored copy (`TaskShape`) |
| `KVRocksProofs!Refinement` | `Spec => ImplementsDataDir` | `DInv`, below |
| `KVRocksProofs!DataNotLostHolds` | `Spec => []DataNotLost` | `DInv`, below |
| `KVRocksProofs!ReadyMeansSavedHolds` | `Spec => ReadyMeansSaved` | `Routed` and `SInv`, below |
| `WSGatewayProofs!TypeCorrect` | `Spec => []TypeOK`, channel capacities included | `TypeInv`: `TypeOK`, `LateSent` (late messages are among those sent) and `FlyingFailed` (a POST under way failed) |
| `WSGatewayProofs!OnlyToTargetHolds` | `Spec => []OnlyToTarget` | `TargetInv`: nothing in `writeQ` is without a target, and the snapshot that `writer` holds contains only connections its message is for |
| `WSGatewayProofs!AtMostOneLateReadHolds` | `Spec => []AtMostOneLateRead` | `LateInv`: a connection with a late read is cancelled and past the read |
| `WSGatewayProofs!EventsInOrderHolds` | `Spec => []EventsInOrder` | `OrderInv`, below |
| `DnsRecordsProofs!NoLostEditHolds` | `Spec => NoLostEdit` | `EditInv`: from `GetConfigMap` on a run holds a version that is not newer than the file's and, while it is the file's, the plugins that are in the file |
| `DnsRecordsProofs!QuietMeansRightHolds` | `Spec => []QuietMeansRight` | `QInv`, below |
| `SysEventProofs!NothingAfterDeletedHolds` | `Spec => []NothingAfterDeleted` | `WInv`, below |
| `SysEventProofs!NoDuplicatesHolds` | `Spec => []NoDuplicates` | `WInv`, and `Once` as long as nothing has failed |
| `SysEventProofs!EventsSoundHolds` | `EventsSpec => []EventsSound` | `EInv`, below |
| `SysEventProofs!DoneMeansToldHolds` | `EventsSpec => []DoneMeansTold` | `EInv`, below |
| `VaultProofs!WorkspacesSoundHolds` | `Spec => []WorkspacesSound` | `Inv`, below |
| `VaultProofs!AccountsSoundHolds` | `Spec => []AccountsSound` | `Inv`, below |

*No dangling worker.* `NoDanglingWorker` is about the cluster only and not
inductive: whether a drop is safe depends on where the goroutine is. `DanglingInv`
adds, as long as the cluster has not been created anew, that the replay is idle
(`Sequential`), that what is set up exists (`SetupExists`), that every worker the
master lists has its copy set up (`Backed`), and that a goroutine that drops on a
worker node has already dropped the database on the master (`MasterFirst`), where
the list of workers goes with it. The proof has one step per statement; a failure
or a restart forgets where the goroutine was and so cannot break `MasterFirst`.

*Nothing left to do means done.* `Provisioned` and `Deprovisioned` speak of an idle operator;
the induction has to say where the newest version of a request is before that. `NotForgotten`:
it waits (in the watch, the queue or a delay), the worker has it, or it was applied;
a lost deletion is the recorded exception. `InOrder`: unless an item was overtaken, the
worker never has an older version than the last one applied. `Provided` and `Removed` then
follow the worker and the replay statement by statement: `Progress` is what a task in a
given phase has achieved on the nodes before the present one and among the databases
not in its `todo`. A statement of another item can undo this only by being older, which
is the excuse, or by being the replay of the same version, which establishes the same.

*What is no longer listed is gone.* Only an UPDATE or a DELETE takes databases away, an ADD
leaves them, so `MasterPruned` depends on the order in which the versions of a request
are carried out. `Alive` is all that is on its way for the worker (watch, queue, delay, the
item in hand), and `Undone` says that whatever makes a database the object does not list is
followed there by a newer item that takes it away; `Doomed` says the same of a database that
is already there, where `Past` tells whether the item in hand has left the place where it
drops it. Taking an item from the queue could break this, if a creation came before the
deletion it follows: `Parted` says that between an older version and a creation there is a
DELETE, and `InLine` that the queue has no creation before an older DELETE, although failed
items come back at its end (a DELETE never does, it is run again in place). After a re-list
the event for an object the cache does not have is an ADD; `Closed` says that a cache
without the object has been given a deletion for all it was given before. `Ranked` says
that versions in the watch rise, are newer than what was taken from it and, unless the
operator restarted, than what was applied. TLC checked `PInv` on the instance of
`request_safety` before the proof.

*Ready means dumped.* A worker acts on a copy that may be old, and the API server refuses
updates of old copies. `ItemsOK` says what a copy tells of the object: it is not newer,
its path is that of a job made for the object, and a copy of the current version knows
whether the object is finished, so that no accepted update touches a finished
object (`FinishedIsFinalHolds`, lemma by lemma over `ObjectStep`). `OwnJob` says that from
"run" on the job of the fixed name is the worker's own, and `ReadyJob` that the job of a
ready backup does not start again. Without failures `Orderly` adds that an object has one
item, and that no job was made for it before its worker is past the rejection.

*Ready means loaded.* A restore looks at the backup and its job opens the dump much later.
What makes this safe is `Fixed`: a dump that was complete once is never written again,
only removed, and a job that finds it removed fails. Every step of the backup controller
keeps `Fixed` (`KeepsFixed`), and every step of `RSpec` is a step of PGBackup or leaves its
variables alone, so `Inv` is at hand. Without failures `ROrderly` adds that there is one
item or one task of a restore, and no job before it. `Loads` counts the loads of a job:
at most as many as failed when a pod is about to start, one more after it.

*The cluster.* `Control` says that what the handler has read of the StatefulSet stays true
but for its own changes, since nobody else writes it. `Credentials` lists the nodes still
to be changed, those from `wk.n` on. `Registered` follows the request controller instead:
what it has registered, the nodes below `rq.n`, is all there is below `rq.r`, which is the
size of the StatefulSet unless that has changed meanwhile (`rq.late`). The scaling itself
cannot be relied on for databases of requests, since it uses other names.
`Items` says that an object the worker has not read has an item waiting. `Done` says that
once the object is carried out a later call finds nothing to do.

*The Corefile at rest.* The invariant says: what the run has read is current *unless there
is news*, that is, unless another run is queued, or an event or a replacement of the file
was missed (`NoNews`). The list of users, the node and
the adguard pod have each their conjunct (`ListCurrent`, `NodeCurrent`, `AdguardCurrent`),
and `Written` that the views made so far are those of the users already looked at. That
addresses do not coincide is arithmetic: `LocalIp` is injective on valid indices for every
number of users up to 2^22 (`LocalIpInjective`, by cases over the number of host bits).

*The vault.* `Knows` says that what a request has found (row, workspace, key) is of its own
user. That a workspace found by name is of the user who asks rests on the lemma `OwnName`:
joined names `w1-u1` and `w2-u2` are equal only if `u1 = u2`, because no user name has a
dash. `Posting` is the mutex: who is about to create holds it and has looked under it, so
that there is no workspace of the name but one that came late, of which the mutex knows
nothing (`Waited`).
`Makers` says that a row is filled in by one request, and that who creates an account
nobody else is creating has found none. `Room` and `Sessions` count rows and sessions
against requests and give the bounds in `TypeOK`.

*What a callback is told.* The goroutine reads events long after they happened, so the
induction is about those it has yet to read. `Stream`: they wait in the order of their
versions, and those of a user end with his deletion. `Burials`: once a callback was told
that a user is gone, neither the API server nor the watch nor the list of a new watch
has that user (his name may be back, with another uid), and a call of this callback that
is still due is one that failed, made again (`Repeated`). `Announcements`: an announced
user is not in `activing`, and no event that waits could announce him again. As long as
nothing fails and every registration has a URL, `Once` adds that what was delivered is
either older than all that waits of the same user or is recorded in `cacheUser`, which
is what `isDupEvent` compares with. The step that opens the watches reports the existing
users in any order; the proof takes that order as an arbitrary enumeration of a finite
set.

*What an event causes.* `EventsSound` speaks of the messages sent, not of the queue that
orders them. `OnePlace` says that an item is in the queue, delayed or with the worker, in
one of these only; `InTurn` that among the queue, the worker and what was sent, an item
comes before one with a smaller number only if the latter has failed. `Counted` bounds the
messages of an item by its failures, one less while the message is still in the worker's
`todo`, so a repetition needs a failed attempt. `Walked` says that by calls that succeeded
the callbacks before `worker.cb` have been told once more than those from it on, for any
number of callbacks, and `InListOrder` that a call that failed, too, was made only when
those before had been told. `Rounds` counts the users' alerts: one for each hour and each crash,
and one more only when the hour runs. `Informed` follows the worker to the end of its
program, where the item is recorded as done. `QueueTypes` says which steps can be left for
an item of each kind; it stands in for the typing of `Do`.

*What a middleware request achieves.* The handlers are programs, so the invariant is about
what is left of one. `Making(rest, item, srv)` says that each part of what a creation owes
(user, containers, grants, policy, accounts, namespace) is on the server or its call is
still in `rest`; `Removing` says the same of a deletion, except for calls whose error was
logged (`clean` is false). `ProgramStarts` shows that a complete program owes
everything, for each of the eight kinds and any finite set of containers; `MakingStep`,
`MakingSkip` and `RemovingStep` that a call pays what leaves `rest` and takes nothing else
away. The last needs an order (`Ordered`): an Elasticsearch user written after its role is
attached would lose it, a kvrocks namespace removed after it is set would be gone. `Fit`
says that every call in `rest` is one the handler of this kind makes for an item like
this (with or without the flag), `KindOnly` what a
kind of server cannot hold. An empty `rest` then leaves nothing but what `DoneMeansServed` and
`DoneMeansGone` say. A failure or restart ends or restarts the program and so forgets
`rest`.

*The NATS file.* `ConfigFile` follows two writers of one file. A file is empty only while
one of them is between truncating and writing it, unless it is torn; from `Load` on what the
worker has in memory has the settings of `Config`, the administrator and this request's
user, the file exists and nobody else is about to write it. That `Load` has succeeded is
what makes the rest true: it fails on a file that is missing or garbled, and the ConfigMap
handler writes only a file that was missing when it looked, so that the only moment at
which the two meet is the one that `torn` records.

All of these invariants were model-checked on small instances before they were proved.

*The data directory.* That `EraseDb` is a step of DataDir depends on a wait that ended
earlier, so `Stopped` ties the restore's phase to the StatefulSet: from `closing` on
there are no replicas, from `erase` on no pod, in `rename` no database, in `up` there is
one again; and whoever runs or may be started has a database. Nothing else scales the
StatefulSet, and a failure or restart only moves the worker to a phase that `Stopped`
does not mention. `Whole` adds, as long as no restore was disturbed and no removal cut
short: only the backup worker has the directory half removed, a restore has a whole one
up to the rename, and what kvrocks has, will start with or is saving is whole. Both
theorems follow from the one step lemma
`DInvStep`, which shows at the same time that the invariant is kept and that the step
is one of DataDir or leaves its variables alone.

*Ready means saved.* A backup begins with the data kvrocks has or, if a save of an earlier
attempt is still running, with the older data which that will deliver: `since` is what it
can count on. `SavedSince` says of a backup no restore has disturbed that neither the
database, nor what a save will deliver, nor what is in the backup directory after
`RemovePrev`, is older than that; a restore takes the database away, but can put another in
its place only by the rename, which is recorded in `overlapped`. `NotNewer` (no directory
is newer than the data) makes a write count as progress, and `SavedDb` says that a
checkpoint is not newer than the database it was taken from. `Routed` says that an item is with
the controller of its object, so only `MarkReady` of the backup controller makes a backup
ready (`OnlyMarkReady`).

*Events in order.* The app's history of a connection is only half of the story: the
other half waits in the shared channel, and a POST that failed may be acted on at any
later time. `QueueInOrder` says that the events in the channel continue what has been
posted, whether it failed or not (the first of a connection is its opening exactly if
nothing was posted, nothing follows a closing), `Flown` that an opening or closing that
failed was the only POST of it, and `Told` ties both to `pc`: nothing is known before
the goroutine has queued ACTION_OPEN, something is known after, and ACTION_CLOSE is
queued only by a goroutine that is about to end. The two interesting steps, appending to
the channel and taking from it, are the lemmas `QueueKeepsOrder` and `ReadKeepsOrder`.

Only model-checked: all liveness (`EventuallyQuiet`, `EveryOutcomeComes`, `EventuallyDone`,
`PeerGoneIsHandled`, `ExpiredIsRemoved`, `EveryItemFinishes`, `EveryCallbackInitialized`,
`EventuallyFresh`, `DeletionsReturn`, `EventuallyGood`, `EveryRequestReturns`): fairness and
ENABLED are out of the prover's reach. Every invariant and every action property that a run
checks is also a theorem.

## What the models say about the code

No run ends in an error: the properties say what holds, and name what they except.
The exceptions are behaviours of the code as it is, and worth knowing.

*Requests.* A deletion the informer finds by a re-list arrives as
`cache.DeletedFinalStateUnknown`; `handler()` refuses it, and since a failing DELETE is
retried in place, the only worker never does anything else (`request_liveness` has no
re-lists). A failed ADD or UPDATE returns to the queue with the object of its event,
behind a newer UPDATE, and undoes it (excuse `overtaken`). Databases to remove are
listed on the master only: when the drop on a worker node fails, the retry does not
see the database (`MasterPruned` is about the master, and excepts a re-list together
with a new cluster).

*Other middlewares.* A retried deletion of a MongoDB user stops at `dropUser` of an
account the first attempt dropped, for ever. An error of `DROP USER` panics in
`deleteMysqlRequest`, which reads the MariaDB part of a MySQL request. MySQL and MariaDB
never change a password. Indexes are created as `ns-name`, but `AllowNamespaceIndexes`
grants and lists `ns_*`; what an app made under the flag stays when the object no longer
has it as it is deleted. Without a RedixCluster a request succeeds with nothing done and
is not repeated. A kvrocks namespace renamed together with its token stays (a FIXME in
the code). A NATS configuration read while it is written, or whose write was cut short,
loses its administrator (`torn`), and every setting that the struct has no field for
goes with the first request.

*Cluster.* Scaling creates and looks for databases under the name in the request, without
the namespace that `GetDatabaseName` adds, and only for requests in the namespace of the
cluster. The registration of a new node so fails, after `UpdateScale`, unless another
database is called so; the retry finds equal replicas and returns nil. The distributed
databases that were there before get the new nodes only when their request is carried out
again. A failure between the patch of the StatefulSet and the last database, or
between `UpdateScale` and the last registration, is not repaired by the retry. A
failure after the creation of the StatefulSet loses the notification. An object with
fewer replicas, or with a password from a secret in place of a plain one (and the
reverse), is refused for ever (`Hopeless`).

*Backups and restores.* After one lost answer of `UpdateStatus` in the backup controller
every retry conflicts, until the stale copy itself says finished; the object says
running for ever, so `restore` has no failing calls of that controller. A backup deleted
while it runs is run again by the retried item, and its dump stays. A restore whose last
status update fails, or that meets a restart after its job has ended, is carried out a
second time on the same database, and a pod that failed in the middle of a load is
followed by one that loads everything again (`LoadedAgainOnlyAfterFailure` excepts
both). A kvrocks restore that fails or is interrupted after `UpdateScale(0)` is not
completed by any retry, so kvrocks stays at zero replicas (`ComesBack`). A kvrocks
backup that starts while a restore waits for the pods removes the directory the restore
is about to use (`overlapped`). A backup interrupted while it removes the old directory
leaves a part of it, which a restore takes for a backup (`cut`). A save that an earlier
attempt has begun may put its older data into the directory a new backup waits for.

*Gateway.* A POST of an event that fails is logged and the event dropped: an app can miss
that a connection was opened or closed. The loop over targets works on a snapshot; what
it sends or closes is decided by the id, which is used once.

*Events.* A failed list of users ends the poll of metrics until a restart. The hour of
the users' alerts begins although messages failed, and the retry sends nothing. A
call of a callback is made up to ten times, and a callback that answers slowly is told of
one event as often; after the tenth nobody repeats it for a user event. A registration
without a URL keeps all that are listed after it from hearing of users. One user
with an invalid index or without a pod keeps the Corefile from being updated for all
(`Computable`); a failed list of pods drops adguard from it. A Corefile without a server
stays as it is, and the run counts as done; plugins other than ten are not kept. A message
to a user who is gone is tried again for ever.

*Vault.* `DeleteUser` sends a statement without `where`, which the database refuses:
accounts stay. Two concurrent creations of one user make two accounts unless
Infisical's schema forbids it (`overlap`, `UniqueEmail`). A workspace that Infisical makes
after its client has given up can be the second of its name. When the first organisation
cannot be saved the server starts with an id that no organisation has, and every account
is refused its membership. A user name with a dash could
share a workspace name with another user (`UsersAssumption`).

## What is not modelled

- *RequestController*: `Replicas` is constant (scaling is in PGCluster); the lookup
  of the password and the connection to a node are part of the first statement
  that uses them; a request that changes its type.
- *Middlewares*: the subjects a NATS user may use, contents of streams (the inverted
  error test of their deletion included), the effect of MongoDB scripts, two requests
  at a time, tombstones.
- *PGCluster*: the single statements of a request, whose creation of a database is one
  step that may end at any node (they are those of RequestController); requests that are
  replayed by the notification while others run; tombstones. "Carried out" means that
  `handler()` returned nil.
- *PGBackup, PGRestore*: `watchJobDelete`, which removes the pods of a deleted job;
  tombstones; a restore name used twice. `WaitForAllBackupComplete` and the forced
  creation of backups, which only the backup watcher calls.
- *Backup watcher*: `main.go` does not start it.
- *KVRocks*: tombstones; clusters of other types. A started pod is taken to have its database open at once.
- *WSGateway*: a `WriteMessage` that never returns (it has no deadline and runs
  under the read lock, so one client that does not read would stop the gateway;
  the liveness properties assume that writes end); the `List` request, which only
  reads; headers and cookies of the upgrade, which become the constants `User`,
  `Token` and `Public`; a gateway without an app (an empty path), which posts nothing.
- *SysEvents, UserWatch*: tombstones, for which the conversion panics; the
  login subscriber, which `main.go` does not add; callbacks that are removed.
- *DnsRecords*: the text of the Corefile; services are read but not watched, and no
  property speaks of the shared entrance.
- *Vault*: cryptography; `mongo.go`, which nothing uses; a database that never comes back,
  for which `CreateUser` and `DeleteUser` wait for ever (`EveryRequestReturns` assumes that
  it does come back).
- Other components: see `components` in `PROJECT.json` for each reason. Generated
  code, templates and stateless clients stay out.

## Running it

    tlc -workers 2 -config RequestSafety.cfg MCRequestController
    tlapm RequestControllerProofs.tla

`PROJECT.json` lists the module and configuration of each run. The longest take
about three and a half minutes; the proofs take from one to about ten minutes a module.
