---------------------------- MODULE DnsRecords -----------------------------
(***************************************************************************)
(* cmd/sys-event/watchers/corefile.go and dnspod: the CoreDNS              *)
(* configuration of the cluster, regenerated as a whole from users, pods   *)
(* and nodes whenever one of them changes.                                 *)
(*                                                                         *)
(* RegenerateCorefile runs in the single worker of the event queue and     *)
(* reads the objects one request after the other while they change; the    *)
(* Corefile it read first is written back under its resource version.      *)
(* A failed run is queued again.  Items differ only in what triggered      *)
(* them, so the queue is a number.                                         *)
(*                                                                         *)
(* Abstractions: the ten plugins that are kept from the first server of    *)
(* the old Corefile are a version number, everything else in it is         *)
(* dropped; a view is the set of its answers <<user, address>>; addresses  *)
(* other than the VPN ones are small numbers, 0 where there is none.       *)
(***************************************************************************)
EXTENDS Integers, FiniteSetsExt

CONSTANTS
    Users,        \* users, as numbers in list order
    Index,        \* values of the annotation bytetrade.io/user-index
    MaxUsers,     \* OLARES_MAX_USERS
    MaxChanges,   \* bound: changes of the cluster
    MaxFaults     \* bound: failed requests

\* More users than addresses of 100.64.0.0/10 is a negative shift, which panics.
ASSUME DnsAssumption ==
    /\ Users \subseteq Nat /\ Index \subseteq Nat /\ MaxUsers \in 1 .. 2^22
    /\ MaxChanges \in Nat /\ MaxFaults \in Nat

Absent == -2        \* no such user
Bare == -1          \* a user without zone or index annotation
None == 0           \* no pod, no node, no address
NoIp == 3           \* a pod without an address
Ips == {1, 2}

VARIABLES
    user,        \* user[u]: Absent, Bare or the user's index
    bfl,         \* bfl[u]: the pod bfl-0 of the user: None, NoIp or its address
    master,      \* address of the control plane node
    adguard,     \* address of the adguardhome pod
    shared,      \* address of the shared entrance's service
    file,        \* the Corefile in the config map
    pending,     \* items in the queue
    run,         \* the run of RegenerateCorefile
    missed,      \* since the last user list a user event was lost in a broken watch,
                 \* or somebody replaced the file, or a run found no server in it
    changes, faults

cluster == <<user, bfl, master, adguard, shared>>
vars == <<cluster, file, pending, run, missed, changes, faults>>

NoFile == [version |-> 0, defaults |-> 0, servers |-> TRUE, incluster |-> {}, vpn |-> {},
           other |-> {}, master |-> None, adguard |-> None, shared |-> None]
\* [at, file, users, left]: the next request, the Corefile read and changed, the user
\* list and the users still to be looked at.
Idle == [at |-> "idle", file |-> NoFile, users |-> [u \in Users |-> Absent], left |-> {}]

----------------------------------------------------------------------------
(* Addresses of users: subDNSSplit and getUserLocalIp.                     *)

\* The least k with 2^k >= n.
Log2(n) == CHOOSE k \in 0 .. 22 : 2^k >= n /\ (k = 0 \/ 2^(k - 1) < n)

\* User i gets the first usable address of the i-th of 2^Log2(n) subnets of
\* 100.64.0.0/10.  Bytes are added one by one, modulo 256.
LocalIp(i, n) ==
    LET offset == i * 2^(22 - Log2(n))
        byte(k) == (offset \div 256^k) % 256 IN
    <<100, (64 + byte(2)) % 256, byte(1), (byte(0) + 1) % 256>>

ValidIndex(i) == i < 2^Log2(MaxUsers)

\* The users who get answers, and the views of a file that is up to date.
Served == {u \in Users : user[u] >= 0 /\ bfl[u] \in Ips}
InCluster == {<<u, bfl[u]>> : u \in Served}
Vpn == {<<u, LocalIp(user[u], MaxUsers)>> : u \in Served}
Other == IF master = None THEN {} ELSE {<<u, master>> : u \in Served}

\* Some users have everything, the others do not exist, and the file is right.
Init == /\ user \in [Users -> Index \cup {Absent}]
        /\ \A u, v \in Users : user[u] = user[v] => u = v \/ user[u] = Absent
        /\ \A u \in Users : user[u] # Absent => ValidIndex(user[u])
        /\ bfl = [u \in Users |-> IF user[u] = Absent THEN None ELSE 1]
        /\ master = 1 /\ adguard = None /\ shared = None
        /\ file = [NoFile EXCEPT !.master = 1, !.incluster = InCluster, !.vpn = Vpn,
                                 !.other = Other]
        /\ pending = 0 /\ run = Idle /\ missed = FALSE /\ changes = 0 /\ faults = 0

----------------------------------------------------------------------------
(* The cluster.  A change is an item of the queue if it is of a user (a    *)
(* created one is not: UserDomain.doAdd does nothing), a bfl or adguard    *)
(* pod, or a control plane node; services are not watched.                 *)

Change == changes < MaxChanges /\ changes' = changes + 1

UserEvent == \/ pending' = pending + 1 /\ UNCHANGED missed
             \/ missed' = TRUE /\ UNCHANGED pending      \* lost in a broken watch

CreateUser(u) == /\ user[u] = Absent /\ bfl[u] = None
                 /\ \E i \in Index \cup {Bare} :
                       /\ \A v \in Users : user[v] # i \/ i = Bare
                       /\ user' = [user EXCEPT ![u] = i]
                 /\ UNCHANGED <<bfl, master, adguard, shared, pending, missed>>
UpdateUser(u) == /\ user[u] = Bare
                 /\ \E i \in Index : /\ \A v \in Users : user[v] # i
                                     /\ user' = [user EXCEPT ![u] = i]
                 /\ UserEvent
                 /\ UNCHANGED <<bfl, master, adguard, shared>>
DeleteUser(u) == /\ user[u] # Absent
                 /\ user' = [user EXCEPT ![u] = Absent]
                 /\ UserEvent
                 /\ UNCHANGED <<bfl, master, adguard, shared>>

\* PodSubscriber.HandleEvent.
PodChanges == /\ \/ \E u \in Users : /\ user[u] # Absent \/ bfl[u] # None
                                     /\ bfl' \in {[bfl EXCEPT ![u] = p] : p \in {None, NoIp} \cup Ips}
                                     /\ bfl' # bfl /\ (user[u] = Absent => bfl'[u] = None)
                                     /\ UNCHANGED adguard
                 \/ adguard' \in {None, 1} \ {adguard} /\ UNCHANGED bfl
              /\ pending' = pending + 1
              /\ UNCHANGED <<user, master, shared, missed>>
\* NodeSubscriber.HandleEvent, for nodes with the control plane label.
NodeChanges_AddOnly == /\ master' \in ({None} \cup Ips) \ {master}
                       /\ pending' = IF master = None THEN pending + 1 ELSE pending
                       /\ UNCHANGED <<user, bfl, adguard, shared, missed>>
NodeChanges == /\ master' \in ({None} \cup Ips) \ {master}
               /\ pending' = pending + 1
               /\ UNCHANGED <<user, bfl, adguard, shared, missed>>
ServiceChanges == /\ shared' \in {None, 1} \ {shared}
                  /\ UNCHANGED <<user, bfl, master, adguard, pending, missed>>
\* Somebody edits the config map: plugins that are kept, or something else.
EditDefaults == /\ Change /\ file.servers
                /\ \E d \in {file.defaults, file.defaults + 1} :
                      file' = [file EXCEPT !.defaults = d, !.version = @ + 1]
                /\ UNCHANGED <<cluster, pending, run, missed, faults>>
\* Somebody replaces the whole Corefile, perhaps by one without any server.  The config
\* map is not watched.
ReplaceFile == /\ Change
               /\ \E s \in BOOLEAN :
                     file' = [NoFile EXCEPT !.servers = s, !.defaults = file.defaults + 1,
                                            !.version = file.version + 1]
               /\ missed' = TRUE
               /\ UNCHANGED <<cluster, pending, run, faults>>

ClusterChanges == /\ Change
                  /\ \/ \E u \in Users : CreateUser(u) \/ UpdateUser(u) \/ DeleteUser(u)
                     \/ PodChanges \/ NodeChanges \/ ServiceChanges
                  /\ UNCHANGED <<file, run, faults>>

----------------------------------------------------------------------------
(* RegenerateCorefile                                                      *)

Start == /\ run.at = "idle" /\ pending > 0
         /\ pending' = pending - 1
         /\ run' = [Idle EXCEPT !.at = "get"]
         /\ UNCHANGED <<file, missed>>

\* The error goes back to the queue, which tries again later.
Fail_Dropped == run' = Idle /\ UNCHANGED <<pending, file, missed>>
Fail == run' = Idle /\ pending' = pending + 1 /\ UNCHANGED <<file, missed>>

\* The ten named plugins of the first server are kept.
GetConfigMap == /\ run.at = "get" /\ file.servers
                /\ run' = [run EXCEPT !.at = "users", !.file = [NoFile EXCEPT
                              !.version = file.version, !.defaults = file.defaults]]
                /\ UNCHANGED <<pending, file, missed>>
\* Without a server the run is over, without an error and without another try.
NoServer == /\ run.at = "get" /\ ~file.servers
            /\ run' = Idle /\ missed' = TRUE
            /\ UNCHANGED <<pending, file>>
ListUsers == /\ run.at = "users"
             /\ run' = [run EXCEPT !.at = "nodes", !.users = user,
                                   !.left = {u \in Users : user[u] # Absent}]
             /\ missed' = FALSE
             /\ UNCHANGED <<pending, file>>
ListNodes == /\ run.at = "nodes"
             /\ run' = [run EXCEPT !.at = "each", !.file.master = master]
             /\ UNCHANGED <<pending, file, missed>>

\* addUserTemplates in the views of the cluster, of the VPN and of everybody else.
AddUserTemplates(f, u, ip) ==
    [f EXCEPT !.incluster = @ \cup {<<u, ip>>},
              !.vpn = @ \cup {<<u, LocalIp(run.users[u], MaxUsers)>>},
              !.other = IF f.master = None THEN @ ELSE @ \cup {<<u, f.master>>}]

\* The next user.  Without zone, index or address of its bfl pod a user is passed over;
\* an index out of range and a missing pod are errors, which end the run.
EachUser ==
    /\ run.at = "each" /\ run.left # {}
    /\ LET u == Min(run.left)
           next == [run EXCEPT !.left = @ \ {u}] IN
       IF run.users[u] = Bare
       THEN run' = next /\ UNCHANGED <<pending, file, missed>>
       ELSE IF ~ValidIndex(run.users[u]) \/ bfl[u] = None
       THEN Fail
       ELSE /\ run' = IF bfl[u] = NoIp THEN next
                      ELSE [next EXCEPT !.file = AddUserTemplates(run.file, u, bfl[u])]
            /\ UNCHANGED <<pending, file, missed>>

\* The shared entrances, if the first user in the list has a zone.
SharedEntrances ==
    /\ run.at = "each" /\ run.left = {}
    /\ LET listed == {u \in Users : run.users[u] # Absent} IN
       run' = [run EXCEPT !.at = "pods",
                   !.file.shared = IF listed # {} /\ run.users[Min(listed)] # Bare
                                   THEN shared ELSE None]
    /\ UNCHANGED <<pending, file, missed>>
ListPods == /\ run.at = "pods"
            /\ run' = [run EXCEPT !.at = "update", !.file.adguard = adguard]
            /\ UNCHANGED <<pending, file, missed>>
\* Without the list of pods the file is written for no adguard at all.
ListPodsFails == /\ run.at = "pods"
                 /\ run' = [run EXCEPT !.at = "update"]
                 /\ UNCHANGED <<pending, file, missed>>

\* The update is refused if the config map is not the one that was read.
Update_Unversioned == /\ run.at = "update"
                      /\ file' = [run.file EXCEPT !.version = file.version + 1]
                      /\ run' = Idle
                      /\ UNCHANGED <<pending, missed>>
Update == /\ run.at = "update"
          /\ IF run.file.version # file.version THEN Fail
             ELSE /\ file' = [run.file EXCEPT !.version = @ + 1]
                  /\ run' = Idle
                  /\ UNCHANGED <<pending, missed>>

Worker == /\ \/ Start \/ GetConfigMap \/ NoServer \/ ListUsers \/ ListNodes \/ EachUser
             \/ SharedEntrances \/ ListPods \/ Update
          /\ UNCHANGED <<cluster, changes, faults>>
RequestFails == /\ faults < MaxFaults /\ faults' = faults + 1
                /\ \/ run.at \in {"get", "users", "nodes", "each", "update"} /\ Fail
                   \/ ListPodsFails
                /\ UNCHANGED <<cluster, changes>>

Next == ClusterChanges \/ EditDefaults \/ ReplaceFile \/ Worker \/ RequestFails

Spec == Init /\ [][Next]_vars

\* The worker of the event queue keeps running.
FairSpec == Spec /\ WF_vars(Worker)

----------------------------------------------------------------------------
(* Properties                                                              *)

\* The variables have their types; addresses in the views are valid ones.
TypeOK ==
    /\ user \in [Users -> Index \cup {Absent, Bare}]
    /\ bfl \in [Users -> {None, NoIp} \cup Ips] /\ pending \in 0 .. MaxChanges + 1
    /\ run.at \in {"idle", "get", "users", "nodes", "each", "pods", "update"}
    /\ file.incluster \subseteq Users \X Ips /\ file.other \subseteq Users \X Ips

\* Whether a run could succeed.
Computable == \A u \in Users : user[u] >= 0 => ValidIndex(user[u]) /\ bfl[u] # None

\* The views of the file are those of the users, pods and nodes of the moment.
Fresh == /\ file.incluster = InCluster /\ file.vpn = Vpn /\ file.other = Other
         /\ file.master = master

\* Nothing is queued or running only if the file is up to date, for whatever order of
\* changes, reads, conflicts and failures: every change of a bfl pod, a node or a user
\* that a run might have missed has queued another one.  (Excepted are lost user events
\* and files that somebody replaced or that have no server to start from.)
QuietMeansFresh ==
    pending = 0 /\ run.at = "idle" /\ ~missed => Fresh

\* The same for the adguard pod, as long as no request has failed: a failed list of
\* pods is only logged.
QuietKnowsAdguard ==
    pending = 0 /\ run.at = "idle" /\ ~missed /\ faults = 0 => file.adguard = adguard

\* Two users never get the same address in the VPN view.
DistinctLocalIps ==
    \A x, y \in file.vpn : x[2] = y[2] => x = y

\* The file at rest, in one invariant: up to date, knows the adguard pod, and gives every
\* user an address of its own.
QuietMeansRight == TypeOK /\ QuietMeansFresh /\ QuietKnowsAdguard /\ DistinctLocalIps

\* A run never overwrites what somebody else wrote to the config map meanwhile.
NoLostEdit == [][file'.defaults >= file.defaults]_vars

\* Once the cluster stays as it is and every user with an index has its pod, the file
\* becomes right and stays so.
EventuallyFresh == <>[](Computable => missed \/ Fresh)
=============================================================================
