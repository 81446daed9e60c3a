-------------------------- MODULE DnsRecordsProofs --------------------------
(***************************************************************************)
(* For every set of users and indices and any number of changes and        *)
(* failures: a regeneration of the Corefile never overwrites an edit that  *)
(* somebody made after it had read the file; and a file at rest is right.  *)
(***************************************************************************)
EXTENDS DnsRecords, WellFoundedInduction, TLAPS

\* A Corefile has its fields, and numbers for the two that are compared.
IsFile(f) == DOMAIN f = DOMAIN NoFile /\ f.version \in Nat /\ f.defaults \in Nat

Shape == IsFile(file) /\ DOMAIN run = DOMAIN Idle /\ IsFile(run.file)

\* From GetConfigMap on the run holds a version that was in the config map, and as
\* long as it is the present one also the plugins of the moment.
ReadEarlier ==
    run.at \notin {"idle", "get"} =>
        /\ run.file.version <= file.version
        /\ run.file.version = file.version => run.file.defaults = file.defaults

EditInv == Shape /\ ReadEarlier

----------------------------------------------------------------------------

\* The initial file has the version the run will be compared with.
LEMMA EditInvInit == Init => EditInv
BY DEF Init, EditInv, Shape, ReadEarlier, IsFile, NoFile, Idle

\* Looking at one more user changes the views only.
LEMMA TemplatesKeepVersion ==
    ASSUME NEW f, NEW u, NEW ip, IsFile(f)
    PROVE  LET g == AddUserTemplates(f, u, ip) IN
           IsFile(g) /\ g.version = f.version /\ g.defaults = f.defaults
BY DEF AddUserTemplates, IsFile, NoFile

\* A run that goes on with the version and the plugins it has read keeps the invariant.
LEMMA GoesOn ==
    ASSUME EditInv, run.at \notin {"idle", "get"}, UNCHANGED file,
           DOMAIN run' = DOMAIN Idle, IsFile(run'.file),
           run'.file.version = run.file.version, run'.file.defaults = run.file.defaults
    PROVE  EditInv' /\ file'.defaults >= file.defaults
BY DEF EditInv, Shape, ReadEarlier, IsFile

\* So does one that ends.
LEMMA Ends ==
    ASSUME EditInv, UNCHANGED file, run' = Idle
    PROVE  EditInv' /\ file'.defaults >= file.defaults
BY DEF EditInv, Shape, ReadEarlier, IsFile, Idle, NoFile

\* Every step of the worker keeps the invariant and the edits.
LEMMA WorkerStep ==
    ASSUME EditInv, Worker
    PROVE  EditInv' /\ file'.defaults >= file.defaults
<1>1. CASE Start
  BY <1>1 DEF Start, EditInv, Shape, ReadEarlier, IsFile, Idle, NoFile
<1>2. CASE GetConfigMap
  <2> DEFINE f == [NoFile EXCEPT !.version = file.version, !.defaults = file.defaults]
  <2>1. run' = [run EXCEPT !.at = "users", !.file = f] /\ UNCHANGED file
    BY <1>2 DEF GetConfigMap
  <2>2. IsFile(f) /\ f.version = file.version /\ f.defaults = file.defaults
    BY DEF EditInv, Shape, IsFile, NoFile
  <2>3. DOMAIN run' = DOMAIN Idle /\ run'.file = f
    BY <2>1 DEF EditInv, Shape, Idle
  <2>4. /\ UNCHANGED file /\ DOMAIN run' = DOMAIN Idle /\ IsFile(run'.file)
        /\ run'.file.version = file.version /\ run'.file.defaults = file.defaults
    BY <2>1, <2>2, <2>3
  <2> HIDE DEF f
  <2> QED  BY <2>4 DEF EditInv, Shape, ReadEarlier, IsFile
<1>3. CASE ListUsers
  <2>1. /\ run.at = "users" /\ UNCHANGED file /\ DOMAIN run' = DOMAIN Idle
        /\ run'.file = run.file
    BY <1>3 DEF ListUsers, EditInv, Shape, Idle
  <2> QED  BY <2>1, GoesOn DEF EditInv, Shape
<1>4. CASE ListNodes
  <2>1. /\ run.at = "nodes" /\ UNCHANGED file /\ DOMAIN run' = DOMAIN Idle
        /\ run'.file = [run.file EXCEPT !.master = master]
    BY <1>4 DEF ListNodes, EditInv, Shape, Idle
  <2> QED  BY <2>1, GoesOn DEF EditInv, Shape, IsFile, NoFile
<1>5. CASE EachUser
  <2> DEFINE u == Min(run.left)
             next == [run EXCEPT !.left = @ \ {u}]
  <2>1. run.at = "each"  BY <1>5 DEF EachUser
  <2>2. DOMAIN next = DOMAIN Idle /\ next.file = run.file
    BY DEF EditInv, Shape, Idle
  <2>3. CASE run' = next /\ UNCHANGED file
    BY <2>1, <2>2, <2>3, GoesOn DEF EditInv, Shape
  <2>4. CASE Fail
    BY <2>4, Ends DEF Fail
  <2>5. CASE /\ run' = [next EXCEPT !.file = AddUserTemplates(run.file, u, bfl[u])]
             /\ UNCHANGED file
    <3>1. DOMAIN run' = DOMAIN Idle /\ run'.file = AddUserTemplates(run.file, u, bfl[u])
      BY <2>2, <2>5 DEF Idle
    <3>2. IsFile(run.file)  BY DEF EditInv, Shape
    <3>3. /\ IsFile(run'.file)
          /\ run'.file.version = run.file.version /\ run'.file.defaults = run.file.defaults
      BY <3>1, <3>2, TemplatesKeepVersion
    <3> QED  BY <2>1, <2>5, <3>1, <3>3, GoesOn
  <2> QED  BY <1>5, <2>3, <2>4, <2>5 DEF EachUser
<1>6. CASE SharedEntrances
  <2>1. /\ run.at = "each" /\ UNCHANGED file
        /\ \E x : run' = [run EXCEPT !.at = "pods", !.file.shared = x]
    BY <1>6 DEF SharedEntrances
  <2>2. DOMAIN run' = DOMAIN Idle /\ \E x : run'.file = [run.file EXCEPT !.shared = x]
    BY <2>1 DEF EditInv, Shape, Idle
  <2> QED  BY <2>1, <2>2, GoesOn DEF EditInv, Shape, IsFile, NoFile
<1>7. CASE ListPods
  <2>1. /\ run.at = "pods" /\ UNCHANGED file /\ DOMAIN run' = DOMAIN Idle
        /\ run'.file = [run.file EXCEPT !.adguard = adguard]
    BY <1>7 DEF ListPods, EditInv, Shape, Idle
  <2> QED  BY <2>1, GoesOn DEF EditInv, Shape, IsFile, NoFile
<1>8. CASE Update
  <2>1. CASE run.file.version # file.version
    BY <1>8, <2>1, Ends DEF Update, Fail
  <2>2. CASE run.file.version = file.version
    <3>1. run.at = "update" /\ run' = Idle /\ file' = [run.file EXCEPT !.version = @ + 1]
      BY <1>8, <2>2 DEF Update
    <3>2. file'.defaults = file.defaults /\ IsFile(file')
      BY <2>2, <3>1 DEF EditInv, Shape, ReadEarlier, IsFile, NoFile
    <3> QED  BY <3>1, <3>2 DEF EditInv, Shape, ReadEarlier, IsFile, Idle, NoFile
  <2> QED  BY <2>1, <2>2
<1>9. CASE NoServer
  BY <1>9, Ends DEF NoServer
<1> QED
  BY <1>1, <1>2, <1>3, <1>4, <1>5, <1>6, <1>7, <1>8, <1>9 DEF Worker

\* Every step keeps the invariant and the edits.
LEMMA EditInvNext ==
    ASSUME EditInv, [Next]_vars
    PROVE  EditInv' /\ file'.defaults >= file.defaults
<1>1. CASE ClusterChanges
  BY <1>1 DEF ClusterChanges, EditInv, Shape, ReadEarlier, IsFile
<1>2. CASE EditDefaults
  <2>1. PICK d \in {file.defaults, file.defaults + 1} :
           file' = [file EXCEPT !.defaults = d, !.version = @ + 1]
    BY <1>2 DEF EditDefaults
  <2>2. UNCHANGED run /\ d \in Nat /\ d >= file.defaults
    BY <1>2, <2>1 DEF EditDefaults, EditInv, Shape, IsFile
  <2> QED  BY <2>1, <2>2 DEF EditInv, Shape, ReadEarlier, IsFile, NoFile
<1>6. CASE ReplaceFile
  BY <1>6 DEF ReplaceFile, EditInv, Shape, ReadEarlier, IsFile, NoFile
<1>3. CASE Worker
  BY <1>3, WorkerStep
<1>4. CASE RequestFails
  <2>1. CASE Fail
    BY <2>1, Ends DEF Fail
  <2>2. CASE ListPodsFails
    <3>1. /\ run.at = "pods" /\ UNCHANGED file /\ DOMAIN run' = DOMAIN Idle
          /\ run'.file = run.file
      BY <2>2 DEF ListPodsFails, EditInv, Shape, Idle
    <3> QED  BY <3>1, GoesOn DEF EditInv, Shape
  <2> QED  BY <1>4, <2>1, <2>2 DEF RequestFails
<1>5. CASE UNCHANGED vars
  BY <1>5 DEF vars, EditInv, Shape, ReadEarlier, IsFile
<1> QED  BY <1>1, <1>2, <1>3, <1>4, <1>5, <1>6 DEF Next

\* A run never overwrites what somebody else wrote to the config map after the run had
\* read it, for any interleaving of changes, reads, failures and edits: the update of
\* RegenerateCorefile is refused unless the config map has the version it read.
THEOREM NoLostEditHolds == Spec => NoLostEdit
<1>1. Init => EditInv  BY EditInvInit
<1>2. EditInv /\ [Next]_vars => EditInv' /\ [file'.defaults >= file.defaults]_vars
  BY EditInvNext
<1> QED  BY <1>1, <1>2, PTL DEF Spec, NoLostEdit

----------------------------------------------------------------------------
(* The file at rest.                                                       *)

Addrs == {LocalIp(i, MaxUsers) : i \in Index}
Files == [version : Nat, defaults : Nat, servers : BOOLEAN,
          incluster : SUBSET (Users \X Ips), vpn : SUBSET (Users \X Addrs), other : SUBSET (Users \X Ips),
          master : {None} \cup Ips, adguard : {None, 1}, shared : {None, 1}]
Ats == {"idle", "get", "users", "nodes", "each", "pods", "update"}
UserLists == [Users -> Index \cup {Absent, Bare}]
Runs == [at : Ats, file : Files, users : UserLists, left : SUBSET Users]

\* The types of all variables.
Types ==
    /\ user \in UserLists /\ bfl \in [Users -> {None, NoIp} \cup Ips]
    /\ master \in {None} \cup Ips /\ adguard \in {None, 1} /\ shared \in {None, 1}
    /\ file \in Files /\ run \in Runs /\ missed \in BOOLEAN
    /\ pending \in Nat /\ changes \in 0 .. MaxChanges /\ faults \in 0 .. MaxFaults

\* Every item, the one of the run included, comes from a change.
Bounded == IF run.at = "idle" THEN pending <= changes ELSE pending < changes

\* No two users of a list have the same index.
Distinct(l) == \A u, v \in Users : l[u] = l[v] /\ l[u] >= 0 => u = v

\* The VPN view of f gives every user of list l the address of its index.
OwnAddress(f, l) ==
    \A x \in f.vpn : /\ l[x[1]] >= 0 /\ ValidIndex(l[x[1]])
                     /\ x[2] = LocalIp(l[x[1]], MaxUsers)

Addresses == /\ Distinct(user) /\ Distinct(run.users)
             /\ OwnAddress(run.file, run.users) /\ DistinctLocalIps

\* No change is waiting to be looked at.
NoNews == pending = 0 /\ ~missed

AtRest == NoNews /\ run.at = "idle" => Fresh

\* What the run has read so far is what is there now, except users that have been
\* created meanwhile and have no pod yet.
ListCurrent ==
    NoNews /\ run.at \in {"nodes", "each", "pods", "update"} =>
        \A u \in Users : run.users[u] = user[u] \/ (run.users[u] = Absent /\ bfl[u] = None)
NodeCurrent ==
    NoNews /\ run.at \in {"each", "pods", "update"} => run.file.master = master
AdguardCurrent ==
    pending = 0 /\ faults = 0 /\ run.at = "update" => run.file.adguard = adguard

\* The views of the run hold exactly the users it has passed.
NoViews == run.at \in {"get", "users", "nodes"} =>
              run.file.incluster = {} /\ run.file.vpn = {} /\ run.file.other = {}
Remaining == /\ run.at = "nodes" => run.left = {u \in Users : run.users[u] # Absent}
             /\ \A u \in run.left : run.users[u] # Absent
             /\ run.at \in {"pods", "update"} => run.left = {}
ViewsOf(f, S) == /\ f.incluster = {<<u, bfl[u]>> : u \in S}
                 /\ f.vpn = {<<u, LocalIp(user[u], MaxUsers)>> : u \in S}
                 /\ f.other = IF master = None THEN {} ELSE {<<u, master>> : u \in S}
Written == NoNews /\ run.at \in {"each", "pods", "update"} =>
              ViewsOf(run.file, Served \ run.left)

QInv == /\ Types /\ Bounded /\ Addresses /\ AtRest /\ ListCurrent /\ NodeCurrent
        /\ AdguardCurrent /\ NoViews /\ Remaining /\ Written /\ QuietKnowsAdguard

----------------------------------------------------------------------------
(* Addresses.                                                              *)

\* A nonempty set of natural numbers has a least element.
LEMMA LeastIn ==
    ASSUME NEW S, S \subseteq Nat, S # {}
    PROVE  Min(S) \in S /\ \A y \in S : Min(S) <= y
<1> DEFINE R == {ss \in Nat \X Nat : ss[1] < ss[2]}
<1>1. IsWellFoundedOn(R, Nat)  BY NatLessThanWellFounded DEF OpToRel
<1>2. \A y, x \in Nat : y < x => <<y, x>> \in R  OBVIOUS
<1> HIDE DEF R
<1>3. PICK x \in S : \A y \in S : <<y, x>> \notin R
  BY <1>1, WFMin
<1>4. \A y \in S : ~(y < x)  BY <1>2, <1>3
<1>5. \A y \in S : x <= y  BY <1>4
<1> QED  BY <1>5 DEF Min

\* The powers of two that the split of the address range needs.
LEMMA Powers ==
    ASSUME NEW k \in 0 .. 22
    PROVE  2^k \in Nat \ {0} /\ 2^(22 - k) \in Nat \ {0} /\ 2^k * 2^(22 - k) = 2^22
<1>0. CASE k = 0  BY <1>0, SMT
<1>1. CASE k = 1  BY <1>1, SMT
<1>2. CASE k = 2  BY <1>2, SMT
<1>3. CASE k = 3  BY <1>3, SMT
<1>4. CASE k = 4  BY <1>4, SMT
<1>5. CASE k = 5  BY <1>5, SMT
<1>6. CASE k = 6  BY <1>6, SMT
<1>7. CASE k = 7  BY <1>7, SMT
<1>8. CASE k = 8  BY <1>8, SMT
<1>9. CASE k = 9  BY <1>9, SMT
<1>10. CASE k = 10  BY <1>10, SMT
<1>11. CASE k = 11  BY <1>11, SMT
<1>12. CASE k = 12  BY <1>12, SMT
<1>13. CASE k = 13  BY <1>13, SMT
<1>14. CASE k = 14  BY <1>14, SMT
<1>15. CASE k = 15  BY <1>15, SMT
<1>16. CASE k = 16  BY <1>16, SMT
<1>17. CASE k = 17  BY <1>17, SMT
<1>18. CASE k = 18  BY <1>18, SMT
<1>19. CASE k = 19  BY <1>19, SMT
<1>20. CASE k = 20  BY <1>20, SMT
<1>21. CASE k = 21  BY <1>21, SMT
<1>22. CASE k = 22  BY <1>22, SMT
<1> QED  BY <1>0, <1>1, <1>2, <1>3, <1>4, <1>5, <1>6, <1>7, <1>8, <1>9, <1>10, <1>11,
            <1>12, <1>13, <1>14, <1>15, <1>16, <1>17, <1>18, <1>19, <1>20, <1>21, <1>22, SMT

\* Log2 finds an exponent.
LEMMA Log2Range == Log2(MaxUsers) \in 0 .. 22
<1> DEFINE S == {k \in 0 .. 22 : 2^k >= MaxUsers}
           m == Min(S)
<1>1. 22 \in S  BY DnsAssumption, SMT
<1>2. m \in S /\ \A k \in S : m <= k
  <2>1. S \subseteq Nat  BY SMT
  <2> HIDE DEF S
  <2> QED  BY <1>1, <2>1, LeastIn
<1> HIDE DEF m
<1>3. m \in 0 .. 22 /\ 2^m >= MaxUsers  BY <1>2, SMT
<1>4. m = 0 \/ 2^(m - 1) < MaxUsers
  <2> SUFFICES ASSUME m # 0  PROVE 2^(m - 1) < MaxUsers
    BY SMT
  <2>1. m - 1 \in 0 .. 22  BY <1>3, SMT
  <2>2. m - 1 \notin S  BY <1>2, <1>3, <2>1, SMT
  <2>3. \A k \in 0 .. 22 : 2^k \in Nat
    <3> TAKE k \in 0 .. 22
    <3>1. 2^k \in Nat \ {0}  BY Powers, Zenon
    <3> QED  BY <3>1, Zenon
  <2>4. 2^(m - 1) \in Nat  BY <2>1, <2>3, Zenon
  <2> QED  BY <2>1, <2>2, <2>4, DnsAssumption, SMT
<1>5. \E k \in 0 .. 22 : 2^k >= MaxUsers /\ (k = 0 \/ 2^(k - 1) < MaxUsers)
  BY <1>3, <1>4, Zenon
<1> QED  BY <1>5 DEF Log2

\* Three bytes determine the offset of a subnet.
LEMMA BytesInjective ==
    ASSUME NEW a \in Nat, NEW b \in Nat, a < 2^22, b < 2^22,
           (64 + ((a \div 65536) % 256)) % 256 = (64 + ((b \div 65536) % 256)) % 256,
           (a \div 256) % 256 = (b \div 256) % 256,
           ((a % 256) + 1) % 256 = ((b % 256) + 1) % 256
    PROVE  a = b
<1>1. \A c \in Nat : c < 2^22 =>
         (64 + ((c \div 65536) % 256)) % 256 = 64 + ((c \div 65536) % 256)
  BY SMT
<1>3. a % 256 \in 0 .. 255 /\ b % 256 \in 0 .. 255  BY SMT
<1>4. a % 256 = b % 256
  <2>1. PICK x \in 0 .. 255 : x = a % 256  BY <1>3
  <2>2. PICK y \in 0 .. 255 : y = b % 256  BY <1>3
  <2>3. (x + 1) % 256 = (y + 1) % 256  BY <2>1, <2>2
  <2>4. (x = 255 /\ (x + 1) % 256 = 0) \/ (x + 1) % 256 = x + 1  BY SMT
  <2>5. (y = 255 /\ (y + 1) % 256 = 0) \/ (y + 1) % 256 = y + 1  BY SMT
  <2>6. x = y  BY <2>3, <2>4, <2>5, SMT
  <2> QED  BY <2>1, <2>2, <2>6
<1>5. (a \div 65536) % 256 = (b \div 65536) % 256  BY <1>1, SMT
<1> QED  BY <1>4, <1>5, SMT

\* Two valid indices never get the same address.
LEMMA LocalIpInjective ==
    ASSUME NEW i \in Nat, NEW j \in Nat, ValidIndex(i), ValidIndex(j),
           LocalIp(i, MaxUsers) = LocalIp(j, MaxUsers)
    PROVE  i = j
<1> DEFINE k == Log2(MaxUsers)
           c == 2^(22 - k)
<1>1. k \in 0 .. 22  BY Log2Range
<1>2. 2^k \in Nat \ {0} /\ c \in Nat \ {0} /\ 2^k * c = 2^22  BY <1>1, Powers
<1>3. i < 2^k /\ j < 2^k  BY DEF ValidIndex
<1>4. PICK d \in Nat \ {0} : d = c  BY <1>2
<1>5. PICK e \in Nat \ {0} : e = 2^k  BY <1>2
<1>6. /\ i * d \in Nat /\ i * d < 2^22
      /\ j * d \in Nat /\ j * d < 2^22
  BY <1>2, <1>3, <1>4, <1>5, SMT
<1>7. LocalIp(i, MaxUsers)[2] = LocalIp(j, MaxUsers)[2]
      /\ LocalIp(i, MaxUsers)[3] = LocalIp(j, MaxUsers)[3]
      /\ LocalIp(i, MaxUsers)[4] = LocalIp(j, MaxUsers)[4]
  OBVIOUS
<1>8. 256^0 = 1 /\ 256^1 = 256 /\ 256^2 = 65536  BY SMT
<1>9. (i * d) \div 1 = i * d /\ (j * d) \div 1 = j * d  BY <1>6, SMT
<1>10. (64 + (((i * d) \div 65536) % 256)) % 256 = (64 + (((j * d) \div 65536) % 256)) % 256
  BY <1>4, <1>7, <1>8, SMT DEF LocalIp
<1>11. ((i * d) \div 256) % 256 = ((j * d) \div 256) % 256
  BY <1>4, <1>7, <1>8, SMT DEF LocalIp
<1>12. (((i * d) % 256) + 1) % 256 = (((j * d) % 256) + 1) % 256
  BY <1>4, <1>7, <1>8, <1>9, SMT DEF LocalIp
<1>13. PICK a \in Nat : a = i * d  BY <1>6
<1>14. PICK b \in Nat : b = j * d  BY <1>6
<1>15. a = b
  BY <1>6, <1>10, <1>11, <1>12, <1>13, <1>14, BytesInjective, SMT
<1> QED  BY <1>13, <1>14, <1>15, SMT

----------------------------------------------------------------------------
(* The invariant is kept.                                                  *)

\* The constants of the views are numbers apart from each other.
LEMMA NoFileType == NoFile \in Files /\ Idle \in Runs
<1>1. NoFile \in Files  BY DEF NoFile, Files, None, Ips
<1>2. [u \in Users |-> Absent] \in UserLists  BY DEF UserLists
<1> HIDE DEF Files, UserLists
<1> QED  BY <1>1, <1>2 DEF Idle, Runs, Ats

\* Only a user with an index and a pod with an address is served.
LEMMA ServedFacts ==
    ASSUME Types
    PROVE  \A u \in Served : /\ u \in Users /\ user[u] \in Index /\ user[u] \in Nat
                             /\ user[u] # Absent /\ user[u] # Bare /\ bfl[u] \in Ips
<1> TAKE u \in Served
<1>1. u \in Users /\ user[u] >= 0 /\ bfl[u] \in Ips  BY DEF Served
<1>2. user[u] \in Index \cup {Absent, Bare}  BY <1>1 DEF Types, UserLists
<1>3. user[u] # Absent /\ user[u] # Bare  BY <1>1 DEF Absent, Bare
<1>4. Index \subseteq Nat  BY DnsAssumption
<1> QED  BY <1>1, <1>2, <1>3, <1>4

\* The initial file is up to date.
LEMMA QInvInit == Init => QInv
<1> SUFFICES ASSUME Init  PROVE QInv
  OBVIOUS
<1>1. /\ user \in UserLists /\ bfl \in [Users -> {None, NoIp} \cup Ips]
      /\ \A u \in Users : user[u] = Absent \/ (user[u] \in Index /\ ValidIndex(user[u]))
  BY DEF Init, UserLists, Ips
<1>2. \A u \in Served : /\ u \in Users /\ user[u] \in Index /\ ValidIndex(user[u])
                        /\ bfl[u] \in Ips
  BY <1>1 DEF Served, Absent
<1>3. /\ master = 1 /\ adguard = None /\ shared = None
      /\ file = [NoFile EXCEPT !.master = 1, !.incluster = InCluster, !.vpn = Vpn,
                               !.other = Other]
      /\ pending = 0 /\ run = Idle /\ missed = FALSE /\ changes = 0 /\ faults = 0
  BY DEF Init
<1>4. InCluster \in SUBSET (Users \X Ips)  BY <1>2 DEF InCluster
<1>5. Vpn \in SUBSET (Users \X Addrs)
  <2>1. \A u \in Served : LocalIp(user[u], MaxUsers) \in Addrs  BY <1>2 DEF Addrs
  <2> QED  BY <1>2, <2>1 DEF Vpn
<1>6. Other \in SUBSET (Users \X Ips)
  BY <1>2, <1>3 DEF Other, Ips, None
<1>7. /\ file \in Files /\ file.master = master /\ file.adguard = None
      /\ file.incluster = InCluster /\ file.vpn = Vpn /\ file.other = Other
  <2> HIDE DEF InCluster, Vpn, Other
  <2> QED  BY <1>3, <1>4, <1>5, <1>6, NoFileType DEF Files, NoFile, Ips, None
<1>8. Types
  <2>1. MaxChanges \in Nat /\ MaxFaults \in Nat  BY DnsAssumption
  <2>2. 0 \in 0 .. MaxChanges /\ 0 \in 0 .. MaxFaults  BY <2>1
  <2>3. master \in {None} \cup Ips  BY <1>3 DEF Ips
  <2> QED  BY <1>1, <1>3, <1>7, <2>2, <2>3, NoFileType DEF Types
<1>9. Distinct(user) /\ Distinct(run.users)
  <2>1. \A u \in Users : run.users[u] = Absent  BY <1>3 DEF Idle
  <2>2. ~(Absent >= 0)  BY DEF Absent
  <2>3. \A u, v \in Users : user[u] = user[v] => u = v \/ user[u] = Absent
    BY DEF Init
  <2> QED  BY <2>1, <2>2, <2>3 DEF Distinct
<1>10. DistinctLocalIps
  <2> SUFFICES ASSUME NEW x \in Vpn, NEW y \in Vpn, x[2] = y[2]  PROVE x = y
    BY <1>7 DEF DistinctLocalIps
  <2>1. PICK u \in Served : x = <<u, LocalIp(user[u], MaxUsers)>>  BY DEF Vpn
  <2>2. PICK v \in Served : y = <<v, LocalIp(user[v], MaxUsers)>>  BY DEF Vpn
  <2>3. user[u] \in Nat /\ user[v] \in Nat  BY <1>8, ServedFacts
  <2>4. LocalIp(user[u], MaxUsers) = LocalIp(user[v], MaxUsers)  BY <2>1, <2>2
  <2>5. user[u] = user[v]  BY <1>2, <2>3, <2>4, LocalIpInjective
  <2>6. u = v
    <3>1. u \in Users /\ v \in Users /\ user[u] >= 0  BY <1>2, <2>3
    <3> QED  BY <1>9, <2>5, <3>1 DEF Distinct
  <2> QED  BY <2>1, <2>2, <2>6
<1>11. run.at = "idle" /\ run.left = {} /\ run.file.vpn = {}
  BY <1>3 DEF Idle, NoFile
<1>12. Addresses
  BY <1>9, <1>10, <1>11 DEF Addresses, OwnAddress
<1> QED
  BY <1>3, <1>7, <1>8, <1>11, <1>12
  DEF QInv, Bounded, AtRest, Fresh, ListCurrent, NodeCurrent, AdguardCurrent, NoViews,
      Remaining, Written, QuietKnowsAdguard

\* An item in the queue: nothing is claimed of the file and the run but their types.
LEMMA Newsworthy ==
    ASSUME Types', Bounded', Addresses', NoViews', Remaining', pending' > 0
    PROVE  QInv'
BY DEF QInv, NoNews, AtRest, ListCurrent, NodeCurrent, AdguardCurrent, Written,
       QuietKnowsAdguard

\* A failed run puts its item back.
LEMMA FailStep ==
    ASSUME QInv, Fail, run.at # "idle", UNCHANGED <<cluster, changes>>,
           faults' \in 0 .. MaxFaults
    PROVE  QInv'
<1>1. /\ run' = Idle /\ pending' = pending + 1 /\ UNCHANGED <<file, missed>>
      /\ UNCHANGED <<user, bfl, master, adguard, shared, changes>>
  BY DEF Fail, cluster
<1>2. Types /\ Bounded /\ pending \in Nat  BY DEF QInv, Types
<1>3. Types'  BY <1>1, <1>2, NoFileType DEF Types
<1>4. pending' > 0  BY <1>1, <1>2
<1>5. /\ run'.at = "idle" /\ run'.left = {} /\ run'.file.vpn = {}
      /\ \A u \in Users : run'.users[u] = Absent
  BY <1>1 DEF Idle, NoFile
<1>6. Bounded'  BY <1>1, <1>2, <1>5 DEF Bounded, Types
<1>7. Addresses'
  <2>1. ~(Absent >= 0)  BY DEF Absent
  <2>2. Distinct(run'.users)  BY <1>5, <2>1 DEF Distinct
  <2>3. OwnAddress(run'.file, run'.users)  BY <1>5 DEF OwnAddress
  <2>4. Distinct(user') /\ DistinctLocalIps'
    BY <1>1 DEF QInv, Addresses, DistinctLocalIps
  <2> QED  BY <2>2, <2>3, <2>4 DEF Addresses
<1>8. NoViews' /\ Remaining'  BY <1>5 DEF NoViews, Remaining
<1> QED  BY <1>3, <1>4, <1>6, <1>7, <1>8, Newsworthy

\* What holds after any change of the cluster that keeps indices apart.
LEMMA ClusterKeeps ==
    ASSUME QInv, Change, UNCHANGED <<file, run, faults>>,
           user' \in UserLists, bfl' \in [Users -> {None, NoIp} \cup Ips],
           master' \in {None} \cup Ips, adguard' \in {None, 1}, shared' \in {None, 1},
           missed' \in BOOLEAN, pending' = pending \/ pending' = pending + 1,
           Distinct(user')
    PROVE  /\ Types' /\ Bounded' /\ Addresses' /\ NoViews' /\ Remaining'
           /\ pending' = pending + 1 => QInv'
<1>1. Types /\ pending \in Nat /\ changes \in 0 .. MaxChanges  BY DEF QInv, Types
<1>2. MaxChanges \in Nat  BY DnsAssumption
<1>3. changes' = changes + 1 /\ changes' \in 0 .. MaxChanges  BY <1>1, <1>2 DEF Change
<1>4. Types'  BY <1>1, <1>3 DEF Types
<1>5. Bounded'  BY <1>1, <1>3 DEF QInv, Bounded
<1>6. Addresses'  BY DEF QInv, Addresses, DistinctLocalIps, OwnAddress, Distinct
<1>7. NoViews' /\ Remaining'  BY DEF QInv, NoViews, Remaining
<1>8. ASSUME pending' = pending + 1  PROVE QInv'
  <2>1. pending' > 0  BY <1>1, <1>8
  <2> QED  BY <1>4, <1>5, <1>6, <1>7, <2>1, Newsworthy
<1> QED  BY <1>4, <1>5, <1>6, <1>7, <1>8

\* An event of a user is queued or, lost in a broken watch, known to be missed.
LEMMA UserEventStep ==
    ASSUME QInv, Change, UserEvent, UNCHANGED <<file, run, faults>>,
           UNCHANGED <<bfl, master, adguard, shared>>, user' \in UserLists, Distinct(user')
    PROVE  QInv'
<1>1. Types  BY DEF QInv
<1>2. missed' \in BOOLEAN /\ (pending' = pending \/ pending' = pending + 1)
  BY <1>1 DEF UserEvent, Types
<1>3. /\ Types' /\ Bounded' /\ Addresses' /\ NoViews' /\ Remaining'
      /\ pending' = pending + 1 => QInv'
  BY <1>1, <1>2, ClusterKeeps DEF Types
<1>4. CASE missed' = TRUE /\ pending' = pending
  <2>1. ~NoNews'  BY <1>4 DEF NoNews
  <2>2. AtRest' /\ ListCurrent' /\ NodeCurrent' /\ Written'
    BY <2>1 DEF AtRest, ListCurrent, NodeCurrent, Written
  <2>3. AdguardCurrent' /\ QuietKnowsAdguard'
    BY <1>4 DEF QInv, AdguardCurrent, QuietKnowsAdguard
  <2> QED  BY <1>3, <2>2, <2>3 DEF QInv
<1> QED  BY <1>3, <1>4 DEF UserEvent

\* A user who is created has no pod: whatever has been read stays right.
LEMMA CreateUserStep ==
    ASSUME QInv, Change, NEW u \in Users, CreateUser(u), UNCHANGED <<file, run, faults>>
    PROVE  QInv'
<1>1. Types  BY DEF QInv
<1>2. PICK i \in Index \cup {Bare} : /\ \A v \in Users : user[v] # i \/ i = Bare
                                     /\ user' = [user EXCEPT ![u] = i]
  BY DEF CreateUser
<1>3. /\ user[u] = Absent /\ bfl[u] = None
      /\ UNCHANGED <<bfl, master, adguard, shared, pending, missed>>
  BY DEF CreateUser
<1>4. user' \in UserLists /\ \A v \in Users : v # u => user'[v] = user[v]
  BY <1>1, <1>2 DEF Types, UserLists
<1>5. user'[u] = i  BY <1>1, <1>2 DEF Types, UserLists
<1>6. Distinct(user')
  <2> SUFFICES ASSUME NEW v \in Users, NEW w \in Users,
                      user'[v] = user'[w], user'[v] >= 0, v # w
               PROVE  FALSE
    BY DEF Distinct
  <2>1. ~(Bare >= 0)  BY DEF Bare
  <2>2. CASE v = u
    BY <1>2, <1>4, <1>5, <2>1, <2>2
  <2>3. CASE w = u
    BY <1>2, <1>4, <1>5, <2>1, <2>3
  <2>4. CASE v # u /\ w # u
    BY <1>4, <2>4 DEF QInv, Addresses, Distinct
  <2> QED  BY <2>2, <2>3, <2>4
<1>7. Types' /\ Bounded' /\ Addresses' /\ NoViews' /\ Remaining'
  BY <1>1, <1>3, <1>4, <1>6, ClusterKeeps DEF Types
<1>8. Served' = Served /\ u \notin Served
  <2>1. None \notin Ips  BY DEF None, Ips
  <2> QED  BY <1>3, <1>4, <2>1 DEF Served
<1>9. \A v \in Served : user'[v] = user[v] /\ bfl'[v] = bfl[v]
  BY <1>3, <1>4, <1>8 DEF Served
<1>10. InCluster' = InCluster /\ Vpn' = Vpn /\ Other' = Other
  BY <1>3, <1>8, <1>9 DEF InCluster, Vpn, Other
<1>11. AtRest'
  BY <1>3, <1>10 DEF QInv, AtRest, NoNews, Fresh
<1>12. ListCurrent'
  <2> SUFFICES ASSUME NoNews, run.at \in {"nodes", "each", "pods", "update"},
                      NEW v \in Users
               PROVE  run.users[v] = user'[v] \/ (run.users[v] = Absent /\ bfl[v] = None)
    BY <1>3 DEF ListCurrent, NoNews
  <2>1. run.users[v] = user[v] \/ (run.users[v] = Absent /\ bfl[v] = None)
    BY DEF QInv, ListCurrent
  <2> QED  BY <1>3, <1>4, <2>1
<1>13. NodeCurrent' /\ AdguardCurrent' /\ QuietKnowsAdguard'
  BY <1>3 DEF QInv, NodeCurrent, NoNews, AdguardCurrent, QuietKnowsAdguard
<1>14. Written'
  <2> SUFFICES ASSUME NoNews, run.at \in {"each", "pods", "update"}
               PROVE  ViewsOf(run.file, Served \ run.left)'
    BY <1>3 DEF Written, NoNews
  <2>1. ViewsOf(run.file, Served \ run.left)  BY DEF QInv, Written
  <2>2. \A v \in Served \ run.left : user'[v] = user[v] /\ bfl'[v] = bfl[v]  BY <1>9
  <2> QED  BY <1>3, <1>8, <2>1, <2>2 DEF ViewsOf
<1> QED  BY <1>7, <1>11, <1>12, <1>13, <1>14 DEF QInv

\* Every change of the cluster keeps the invariant.
LEMMA ClusterStep ==
    ASSUME QInv, ClusterChanges
    PROVE  QInv'
<1>1. Change /\ UNCHANGED <<file, run, faults>>  BY DEF ClusterChanges
<1>2. Types /\ Distinct(user)  BY DEF QInv, Addresses
<1>3. ASSUME NEW u \in Users, CreateUser(u)  PROVE QInv'
  BY <1>1, <1>3, CreateUserStep
<1>4. ASSUME NEW u \in Users, UpdateUser(u)  PROVE QInv'
  <2>1. PICK i \in Index : /\ \A v \in Users : user[v] # i
                           /\ user' = [user EXCEPT ![u] = i]
    BY <1>4 DEF UpdateUser
  <2>2. user' \in UserLists  BY <1>2, <2>1 DEF Types, UserLists
  <2>3. \A v \in Users : user'[v] = IF v = u THEN i ELSE user[v]
    BY <1>2, <2>1 DEF Types, UserLists
  <2>4. Distinct(user')  BY <1>2, <2>1, <2>3 DEF Distinct
  <2> QED  BY <1>1, <1>4, <2>2, <2>4, UserEventStep DEF UpdateUser
<1>5. ASSUME NEW u \in Users, DeleteUser(u)  PROVE QInv'
  <2>1. user' = [user EXCEPT ![u] = Absent]  BY <1>5 DEF DeleteUser
  <2>2. user' \in UserLists  BY <1>2, <2>1 DEF Types, UserLists
  <2>3. \A v \in Users : user'[v] = IF v = u THEN Absent ELSE user[v]
    BY <1>2, <2>1 DEF Types, UserLists
  <2>4. ~(Absent >= 0)  BY DEF Absent
  <2>5. Distinct(user')  BY <1>2, <2>3, <2>4 DEF Distinct
  <2> QED  BY <1>1, <1>5, <2>2, <2>5, UserEventStep DEF DeleteUser
<1>6. CASE PodChanges
  <2>1. /\ pending' = pending + 1 /\ UNCHANGED <<user, master, shared, missed>>
        /\ bfl' \in [Users -> {None, NoIp} \cup Ips] /\ adguard' \in {None, 1}
    BY <1>2, <1>6 DEF PodChanges, Types
  <2> QED  BY <1>1, <1>2, <2>1, ClusterKeeps DEF Types
<1>7. CASE NodeChanges
  <2>1. /\ pending' = pending + 1 /\ UNCHANGED <<user, bfl, adguard, shared, missed>>
        /\ master' \in {None} \cup Ips
    BY <1>7 DEF NodeChanges
  <2> QED  BY <1>1, <1>2, <2>1, ClusterKeeps DEF Types
<1>8. CASE ServiceChanges
  <2>1. /\ UNCHANGED <<user, bfl, master, adguard, pending, missed>>
        /\ shared' \in {None, 1}
    BY <1>8 DEF ServiceChanges
  <2>2. Types' /\ Bounded' /\ Addresses' /\ NoViews' /\ Remaining'
    BY <1>1, <1>2, <2>1, ClusterKeeps DEF Types
  <2>3. /\ Served' = Served /\ InCluster' = InCluster /\ Vpn' = Vpn /\ Other' = Other
        /\ NoNews' = NoNews
    BY <2>1 DEF Served, InCluster, Vpn, Other, NoNews
  <2>4. AtRest'  BY <1>1, <2>1, <2>3 DEF QInv, AtRest, Fresh
  <2>5. ListCurrent' /\ NodeCurrent'
    BY <1>1, <2>1, <2>3 DEF QInv, ListCurrent, NodeCurrent
  <2>6. AdguardCurrent' /\ QuietKnowsAdguard'
    BY <1>1, <2>1 DEF QInv, AdguardCurrent, QuietKnowsAdguard
  <2>7. Written'  BY <1>1, <2>1, <2>3 DEF QInv, Written, ViewsOf
  <2> QED  BY <2>2, <2>4, <2>5, <2>6, <2>7 DEF QInv
<1> QED  BY <1>3, <1>4, <1>5, <1>6, <1>7, <1>8 DEF ClusterChanges

\* An edit of the config map leaves the views alone.
LEMMA EditStep ==
    ASSUME QInv, EditDefaults
    PROVE  QInv'
<1>1. /\ Change /\ UNCHANGED <<user, bfl, master, adguard, shared, pending, run, missed, faults>>
  BY DEF EditDefaults, cluster
<1>2. Types /\ file \in Files /\ file.defaults \in Nat  BY DEF QInv, Types, Files
<1>0. PICK d \in Nat : file' = [file EXCEPT !.defaults = d, !.version = @ + 1]
  <2>1. PICK d \in {file.defaults, file.defaults + 1} :
           file' = [file EXCEPT !.defaults = d, !.version = @ + 1]
    BY DEF EditDefaults
  <2>2. d \in Nat  BY <1>2, <2>1
  <2> QED  BY <2>1, <2>2
<1>3. /\ file' \in Files /\ file'.incluster = file.incluster /\ file'.vpn = file.vpn
      /\ file'.other = file.other /\ file'.master = file.master
      /\ file'.adguard = file.adguard
  <2> DEFINE W == SUBSET (Users \X Ips)
             V == SUBSET (Users \X Addrs)
             M == {None} \cup Ips
             A == {None, 1}
  <2>1. file \in [version : Nat, defaults : Nat, servers : BOOLEAN, incluster : W, vpn : V,
                  other : W, master : M, adguard : A, shared : A]
    BY <1>2 DEF Files
  <2> HIDE DEF W, V, M, A
  <2>2. /\ file.version + 1 \in Nat /\ file.servers \in BOOLEAN
        /\ file.incluster \in W /\ file.vpn \in V /\ file.other \in W
        /\ file.master \in M /\ file.adguard \in A /\ file.shared \in A
    BY <2>1
  <2>3. file' = [version |-> file.version + 1, defaults |-> d, servers |-> file.servers,
                 incluster |-> file.incluster, vpn |-> file.vpn, other |-> file.other,
                 master |-> file.master, adguard |-> file.adguard, shared |-> file.shared]
    BY <1>0, <2>1
  <2>4. file' \in [version : Nat, defaults : Nat, servers : BOOLEAN, incluster : W, vpn : V,
                   other : W, master : M, adguard : A, shared : A]
    BY <2>2, <2>3
  <2> QED  BY <2>3, <2>4 DEF W, V, M, A, Files
<1>4. MaxChanges \in Nat  BY DnsAssumption
<1>5. changes \in 0 .. MaxChanges /\ pending \in Nat  BY <1>2 DEF Types
<1>6. changes' = changes + 1 /\ changes' \in 0 .. MaxChanges
  BY <1>1, <1>4, <1>5 DEF Change
<1>7. Types'  BY <1>1, <1>2, <1>3, <1>6 DEF Types
<1>8. Bounded'  BY <1>1, <1>5, <1>6 DEF QInv, Bounded
<1>9. Addresses'
  BY <1>1, <1>3 DEF QInv, Addresses, Distinct, OwnAddress, DistinctLocalIps
<1>10. NoNews' = NoNews /\ Served' = Served /\ InCluster' = InCluster /\ Vpn' = Vpn
       /\ Other' = Other
  BY <1>1 DEF NoNews, Served, InCluster, Vpn, Other
<1>11. AtRest'  BY <1>1, <1>3, <1>10 DEF QInv, AtRest, Fresh
<1>12. ListCurrent' /\ NodeCurrent' /\ NoViews' /\ Remaining'
  BY <1>1, <1>10 DEF QInv, ListCurrent, NodeCurrent, NoViews, Remaining
<1>13. AdguardCurrent' /\ QuietKnowsAdguard'
  BY <1>1, <1>3 DEF QInv, AdguardCurrent, QuietKnowsAdguard
<1>14. Written'  BY <1>1, <1>10 DEF QInv, Written, ViewsOf
<1> QED  BY <1>7, <1>8, <1>9, <1>11, <1>12, <1>13, <1>14 DEF QInv

\* What is known to be missed need not be right.
LEMMA MissedStep ==
    ASSUME QInv, Types', Bounded', Addresses', NoViews', Remaining', missed', UNCHANGED pending,
           AdguardCurrent'
    PROVE  QInv'
BY DEF QInv, NoNews, AtRest, ListCurrent, NodeCurrent, Written, QuietKnowsAdguard

\* A file that was replaced has no views, but this is known.
LEMMA ReplaceStep ==
    ASSUME QInv, ReplaceFile
    PROVE  QInv'
<1>1. /\ Change /\ missed' = TRUE
      /\ UNCHANGED <<user, bfl, master, adguard, shared, pending, run, faults>>
  BY DEF ReplaceFile, cluster
<1>2. Types /\ file \in Files /\ file.defaults \in Nat /\ file.version \in Nat
  BY DEF QInv, Types, Files
<1>3. PICK s \in BOOLEAN :
         file' = [NoFile EXCEPT !.servers = s, !.defaults = file.defaults + 1,
                                !.version = file.version + 1]
  BY DEF ReplaceFile
<1>4. file' \in Files /\ file'.vpn = {}
  <2>1. PICK d \in Nat : d = file.defaults + 1  BY <1>2
  <2>2. PICK v \in Nat : v = file.version + 1  BY <1>2
  <2>3. file' = [NoFile EXCEPT !.servers = s, !.defaults = d, !.version = v]
    BY <1>3, <2>1, <2>2
  <2>4. file'.vpn = {}  BY <2>3 DEF NoFile
  <2>5. file' \in Files  BY <2>3, NoFileType DEF Files
  <2> QED  BY <2>4, <2>5
<1>5. changes \in 0 .. MaxChanges /\ MaxChanges \in Nat /\ pending \in Nat
  BY <1>2, DnsAssumption DEF Types
<1>6. changes' = changes + 1 /\ changes' \in 0 .. MaxChanges  BY <1>1, <1>5 DEF Change
<1>7. Types'  BY <1>1, <1>2, <1>4, <1>6 DEF Types
<1>8. Bounded'  BY <1>1, <1>5, <1>6 DEF QInv, Bounded
<1>9. Addresses'
  BY <1>1, <1>4 DEF QInv, Addresses, Distinct, OwnAddress, DistinctLocalIps
<1>10. NoViews' /\ Remaining' /\ AdguardCurrent'
  BY <1>1 DEF QInv, NoViews, Remaining, AdguardCurrent
<1> QED  BY <1>1, <1>7, <1>8, <1>9, <1>10, MissedStep

\* A step of the run that changes nothing else.
Reads == /\ UNCHANGED <<user, bfl, master, adguard, shared, file, changes>>
         /\ run.at # "idle" /\ run'.at # "idle" /\ pending' = pending /\ run' \in Runs
         /\ faults' \in 0 .. MaxFaults /\ (faults = 0 \/ faults' # 0)

\* What is left to show of such a step.
LEMMA ReadKeeps ==
    ASSUME QInv, Reads, missed' \in BOOLEAN
    PROVE  /\ Types' /\ Bounded' /\ AtRest' /\ QuietKnowsAdguard' /\ Served' = Served
           /\ (Distinct(run'.users) /\ OwnAddress(run'.file, run'.users) => Addresses')
<1>1. Types'  BY DEF QInv, Reads, Types
<1>2. Bounded'  BY DEF QInv, Reads, Bounded
<1>3. AtRest' /\ QuietKnowsAdguard'  BY DEF Reads, AtRest, QuietKnowsAdguard
<1>4. Served' = Served  BY DEF Reads, Served
<1>5. Distinct(run'.users) /\ OwnAddress(run'.file, run'.users) => Addresses'
  <2>1. Distinct(user') /\ DistinctLocalIps'
    BY DEF QInv, Reads, Addresses, Distinct, DistinctLocalIps
  <2> QED  BY <2>1 DEF Addresses
<1> QED  BY <1>1, <1>2, <1>3, <1>4, <1>5

\* The run starts, and reads the config map.
LEMMA StartStep ==
    ASSUME QInv, Start, UNCHANGED <<cluster, changes, faults>>
    PROVE  QInv'
<1>1. /\ run.at = "idle" /\ pending > 0 /\ pending' = pending - 1
      /\ run' = [Idle EXCEPT !.at = "get"] /\ UNCHANGED <<file, missed>>
      /\ UNCHANGED <<user, bfl, master, adguard, shared, changes, faults>>
  BY DEF Start, cluster
<1>2. Types /\ Bounded /\ pending \in Nat /\ changes \in Nat  BY DEF QInv, Types
<1>3. /\ run' \in Runs /\ run'.at = "get" /\ run'.file = NoFile /\ run'.left = {}
      /\ run'.users = [u \in Users |-> Absent]
  <2>1. "get" \in Ats  BY DEF Ats
  <2>2. Idle \in Runs  BY NoFileType
  <2>3. run' \in Runs /\ run'.at = "get"  BY <1>1, <2>1, <2>2 DEF Runs
  <2> QED  BY <1>1, <2>3 DEF Idle
<1>4. Types'  BY <1>1, <1>2, <1>3 DEF Types
<1>5. Bounded'  BY <1>1, <1>2, <1>3 DEF Bounded
<1>6. NoFile.vpn = {} /\ NoFile.incluster = {} /\ NoFile.other = {}  BY DEF NoFile
<1>7. Addresses'
  <2>1. ~(Absent >= 0)  BY DEF Absent
  <2>2. \A u \in Users : run'.users[u] = Absent  BY <1>3
  <2>3. Distinct(run'.users)  BY <2>1, <2>2 DEF Distinct
  <2>4. OwnAddress(run'.file, run'.users)  BY <1>3, <1>6 DEF OwnAddress
  <2>5. Distinct(user') /\ DistinctLocalIps'
    BY <1>1 DEF QInv, Addresses, DistinctLocalIps
  <2> QED  BY <2>3, <2>4, <2>5 DEF Addresses
<1>8. NoViews' /\ Remaining'  BY <1>3, <1>6 DEF NoViews, Remaining
<1> QED
  BY <1>3, <1>4, <1>5, <1>7, <1>8
  DEF QInv, AtRest, ListCurrent, NodeCurrent, AdguardCurrent, Written, QuietKnowsAdguard

\* GetConfigMap: the views start empty.
LEMMA GetStep ==
    ASSUME QInv, GetConfigMap, UNCHANGED <<cluster, changes, faults>>
    PROVE  QInv'
<1> DEFINE f == [NoFile EXCEPT !.version = file.version, !.defaults = file.defaults]
<1>1. /\ run.at = "get" /\ run' = [run EXCEPT !.at = "users", !.file = f]
      /\ UNCHANGED <<pending, file, missed>>
      /\ UNCHANGED <<user, bfl, master, adguard, shared, changes, faults>>
  BY DEF GetConfigMap, cluster
<1>2. Types  BY DEF QInv
<1>3. f \in Files /\ f.vpn = {} /\ f.incluster = {} /\ f.other = {}
  <2>1. file.version \in Nat /\ file.defaults \in Nat  BY <1>2 DEF Types, Files
  <2> QED  BY <2>1 DEF NoFile, Files, None, Ips
<1> HIDE DEF f
<1>4. /\ run' \in Runs /\ run'.at = "users" /\ run'.file = f /\ run'.users = run.users
      /\ run'.left = run.left
  <2>1. "users" \in Ats /\ run \in Runs  BY <1>2 DEF Ats, Types
  <2> HIDE DEF Ats, Files, UserLists
  <2> QED  BY <1>1, <1>3, <2>1 DEF Runs
<1>5. Reads /\ missed' \in BOOLEAN  BY <1>1, <1>2, <1>4 DEF Reads, Types
<1>6. Types' /\ Bounded' /\ AtRest' /\ QuietKnowsAdguard' /\ Addresses'
  <2>1. Distinct(run'.users)  BY <1>4 DEF QInv, Addresses
  <2>2. OwnAddress(run'.file, run'.users)  BY <1>3, <1>4 DEF OwnAddress
  <2> QED  BY <1>5, <2>1, <2>2, ReadKeeps
<1>7. NoViews' /\ Remaining'
  BY <1>3, <1>4 DEF QInv, NoViews, Remaining
<1> QED
  BY <1>4, <1>6, <1>7
  DEF QInv, ListCurrent, NodeCurrent, AdguardCurrent, Written

\* A file without a server: the run ends, and what it was started for is missed.
LEMMA NoServerStep ==
    ASSUME QInv, NoServer, UNCHANGED <<cluster, changes, faults>>
    PROVE  QInv'
<1>1. /\ run.at = "get" /\ run' = Idle /\ missed' = TRUE /\ UNCHANGED <<pending, file>>
      /\ UNCHANGED <<user, bfl, master, adguard, shared, changes, faults>>
  BY DEF NoServer, cluster
<1>2. Types /\ Bounded /\ pending \in Nat /\ changes \in Nat  BY DEF QInv, Types
<1>3. /\ run'.at = "idle" /\ run'.left = {} /\ run'.file.vpn = {}
      /\ \A u \in Users : run'.users[u] = Absent
  BY <1>1 DEF Idle, NoFile
<1>4. Types'  BY <1>1, <1>2, NoFileType DEF Types
<1>5. Bounded'  BY <1>1, <1>2, <1>3 DEF Bounded
<1>6. Addresses'
  <2>1. ~(Absent >= 0)  BY DEF Absent
  <2>2. Distinct(run'.users)  BY <1>3, <2>1 DEF Distinct
  <2>3. OwnAddress(run'.file, run'.users)  BY <1>3 DEF OwnAddress
  <2>4. Distinct(user') /\ DistinctLocalIps'
    BY <1>1 DEF QInv, Addresses, DistinctLocalIps
  <2> QED  BY <2>2, <2>3, <2>4 DEF Addresses
<1>7. NoViews' /\ Remaining' /\ AdguardCurrent'
  BY <1>3 DEF NoViews, Remaining, AdguardCurrent
<1> QED  BY <1>1, <1>4, <1>5, <1>6, <1>7, MissedStep

\* ListUsers: from here on the events that were missed before do not matter.
LEMMA ListUsersStep ==
    ASSUME QInv, ListUsers, UNCHANGED <<cluster, changes, faults>>
    PROVE  QInv'
<1> DEFINE l == {u \in Users : user[u] # Absent}
<1>1. /\ run.at = "users" /\ missed' = FALSE /\ UNCHANGED <<pending, file>>
      /\ run' = [run EXCEPT !.at = "nodes", !.users = user, !.left = l]
      /\ UNCHANGED <<user, bfl, master, adguard, shared, changes, faults>>
  BY DEF ListUsers, cluster
<1>2. Types  BY DEF QInv
<1>3. l \in SUBSET Users /\ user \in UserLists  BY <1>2 DEF Types
<1>4. \A u \in Users : u \in l <=> user[u] # Absent  OBVIOUS
<1> HIDE DEF l
<1>5. /\ run' \in Runs /\ run'.at = "nodes" /\ run'.file = run.file /\ run'.users = user
      /\ run'.left = l
  <2>1. "nodes" \in Ats /\ run \in Runs  BY <1>2 DEF Ats, Types
  <2> HIDE DEF Ats, Files, UserLists
  <2> QED  BY <1>1, <1>3, <2>1 DEF Runs
<1>6. Reads /\ missed' \in BOOLEAN  BY <1>1, <1>2, <1>5 DEF Reads, Types
<1>7. run.file.vpn = {} /\ run.file.incluster = {} /\ run.file.other = {}
  BY <1>1 DEF QInv, NoViews
<1>8. Types' /\ Bounded' /\ AtRest' /\ QuietKnowsAdguard' /\ Addresses'
  <2>1. Distinct(run'.users)  BY <1>5 DEF QInv, Addresses
  <2>2. OwnAddress(run'.file, run'.users)  BY <1>5, <1>7 DEF OwnAddress
  <2> QED  BY <1>6, <2>1, <2>2, ReadKeeps
<1>9. NoViews'  BY <1>5, <1>7 DEF NoViews
<1>10. Remaining'  BY <1>3, <1>4, <1>5 DEF Remaining
<1>11. ListCurrent'  BY <1>1, <1>5 DEF ListCurrent
<1> QED
  BY <1>5, <1>8, <1>9, <1>10, <1>11 DEF QInv, NodeCurrent, AdguardCurrent, Written

\* ListNodes: every user that is served is still to be looked at.
LEMMA ListNodesStep ==
    ASSUME QInv, ListNodes, UNCHANGED <<cluster, changes, faults>>
    PROVE  QInv'
<1>1. /\ run.at = "nodes" /\ UNCHANGED <<pending, file, missed>>
      /\ run' = [run EXCEPT !.at = "each", !.file.master = master]
      /\ UNCHANGED <<user, bfl, master, adguard, shared, changes, faults>>
  BY DEF ListNodes, cluster
<1>2. Types /\ run \in Runs /\ run.file \in Files  BY DEF QInv, Types, Runs
<1>3. PICK g : g = [run.file EXCEPT !.master = master]  OBVIOUS
<1>4. run' = [run EXCEPT !.at = "each", !.file = g]
  BY <1>1, <1>2, <1>3 DEF Runs
<1>5. /\ g \in Files /\ g.vpn = run.file.vpn /\ g.incluster = run.file.incluster
      /\ g.other = run.file.other /\ g.master = master
  <2>1. master \in {None} \cup Ips  BY <1>2 DEF Types
  <2> QED  BY <1>2, <1>3, <2>1 DEF Files
<1>6. /\ run' \in Runs /\ run'.at = "each" /\ run'.file = g /\ run'.users = run.users
      /\ run'.left = run.left
  <2>1. "each" \in Ats  BY DEF Ats
  <2> HIDE DEF Ats, Files, UserLists
  <2> QED  BY <1>2, <1>4, <1>5, <2>1 DEF Runs
<1>7. Reads /\ missed' \in BOOLEAN  BY <1>1, <1>2, <1>6 DEF Reads, Types
<1>8. run.file.vpn = {} /\ run.file.incluster = {} /\ run.file.other = {}
  BY <1>1 DEF QInv, NoViews
<1>9. /\ Types' /\ Bounded' /\ AtRest' /\ QuietKnowsAdguard' /\ Addresses'
      /\ Served' = Served
  <2>1. Distinct(run'.users)  BY <1>6 DEF QInv, Addresses
  <2>2. OwnAddress(run'.file, run'.users)  BY <1>5, <1>6, <1>8 DEF OwnAddress
  <2> QED  BY <1>7, <2>1, <2>2, ReadKeeps
<1>10. NoViews' /\ Remaining'
  BY <1>6 DEF QInv, NoViews, Remaining
<1>11. NoNews' = NoNews  BY <1>1 DEF NoNews
<1>12. ListCurrent'  BY <1>1, <1>6, <1>11 DEF QInv, ListCurrent
<1>13. NodeCurrent' /\ AdguardCurrent'
  BY <1>1, <1>5, <1>6 DEF NodeCurrent, AdguardCurrent
<1>14. Written'
  <2> SUFFICES ASSUME NoNews  PROVE ViewsOf(g, Served \ run.left)'
    BY <1>6, <1>9, <1>11 DEF Written, ViewsOf
  <2>1. \A u \in Served : u \in run.left
    <3> TAKE u \in Served
    <3>1. u \in Users /\ user[u] # Absent /\ bfl[u] # None
      BY <1>2, ServedFacts DEF Ips, None
    <3>2. run.users[u] = user[u]  BY <1>1, <3>1 DEF QInv, ListCurrent
    <3> QED  BY <1>1, <3>1, <3>2 DEF QInv, Remaining
  <2>2. Served \ run.left = {}  BY <2>1
  <2>3. Served' \ run'.left = {}  BY <1>6, <1>9, <2>2
  <2> QED  BY <1>5, <1>6, <1>8, <2>3 DEF ViewsOf
<1> QED  BY <1>9, <1>10, <1>12, <1>13, <1>14 DEF QInv

\* A user that is passed over is not served; one that is added has the address of its
\* pod, of its index and of the node.
LEMMA EachUserStep ==
    ASSUME QInv, EachUser, UNCHANGED <<cluster, changes, faults>>
    PROVE  QInv'
<1> DEFINE u == Min(run.left)
           next == [run EXCEPT !.left = @ \ {u}]
<1>1. run.at = "each" /\ run.left # {}  BY DEF EachUser
<1>2. Types /\ run \in Runs /\ run.file \in Files /\ run.users \in UserLists
      /\ run.left \in SUBSET Users /\ faults \in 0 .. MaxFaults
  BY DEF QInv, Types, Runs
<1>3. Users \subseteq Nat /\ Index \subseteq Nat  BY DnsAssumption
<1>4. u \in run.left /\ u \in Users
  <2>1. run.left \subseteq Nat  BY <1>2, <1>3
  <2> QED  BY <1>1, <1>2, <2>1, LeastIn
<1>5. run.users[u] # Absent  BY <1>4 DEF QInv, Remaining
<1>6. UNCHANGED <<user, bfl, master, adguard, shared, changes, faults>>  BY DEF cluster
<1>7. NoNews => /\ run.users[u] = user[u]
                /\ run.file.master = master
                /\ ViewsOf(run.file, Served \ run.left)
  BY <1>1, <1>4, <1>5 DEF QInv, ListCurrent, NodeCurrent, Written
<1>8. PICK w : w = u  OBVIOUS
<1> HIDE DEF u
<1>9. CASE Fail
  BY <1>1, <1>2, <1>6, <1>9, FailStep DEF cluster
<1>10. ASSUME NEW g \in Files, run' = [run EXCEPT !.left = @ \ {w}, !.file = g],
              UNCHANGED <<pending, file, missed>>, OwnAddress(g, run.users),
              g.master = run.file.master, g.adguard = run.file.adguard,
              NoNews => ViewsOf(g, Served \ (run.left \ {w}))
       PROVE  QInv'
  <2>1. /\ run' \in Runs /\ run'.at = "each" /\ run'.file = g /\ run'.users = run.users
        /\ run'.left = run.left \ {w}
    <3> HIDE DEF Ats, Files, UserLists
    <3> QED  BY <1>1, <1>2, <1>10 DEF Runs
  <2>2. Reads /\ missed' \in BOOLEAN  BY <1>1, <1>2, <1>6, <1>10, <2>1 DEF Reads, Types
  <2>3. /\ Types' /\ Bounded' /\ AtRest' /\ QuietKnowsAdguard' /\ Addresses'
        /\ Served' = Served
    <3>1. Distinct(run'.users)  BY <2>1 DEF QInv, Addresses
    <3>2. OwnAddress(run'.file, run'.users)  BY <1>10, <2>1
    <3> QED  BY <2>2, <3>1, <3>2, ReadKeeps
  <2>4. NoViews' /\ Remaining'
    BY <1>2, <2>1 DEF QInv, NoViews, Remaining
  <2>5. NoNews' = NoNews  BY <1>10 DEF NoNews
  <2>6. ListCurrent'  BY <1>1, <1>6, <2>1, <2>5 DEF QInv, ListCurrent
  <2>7. NodeCurrent' /\ AdguardCurrent'
    BY <1>1, <1>6, <1>10, <2>1, <2>5 DEF QInv, NodeCurrent, AdguardCurrent
  <2>8. Written'
    BY <1>6, <1>10, <2>1, <2>3, <2>5 DEF Written, ViewsOf
  <2> QED  BY <2>3, <2>4, <2>6, <2>7, <2>8 DEF QInv
<1>11. CASE /\ run' = next /\ UNCHANGED <<pending, file, missed>>
            /\ run.users[u] = Bare \/ bfl[u] = NoIp
  <2>1. run' = [run EXCEPT !.left = @ \ {w}, !.file = run.file]
    BY <1>2, <1>8, <1>11 DEF Runs
  <2>2. NoNews => w \notin Served
    <3>1. NoIp \notin Ips  BY DEF NoIp, Ips
    <3> QED  BY <1>2, <1>7, <1>8, <1>11, <3>1, ServedFacts
  <2>3. NoNews => Served \ (run.left \ {w}) = Served \ run.left  BY <2>2
  <2>4. OwnAddress(run.file, run.users)  BY DEF QInv, Addresses
  <2> QED  BY <1>2, <1>7, <1>10, <1>11, <2>1, <2>3, <2>4
<1>12. CASE /\ run' = [next EXCEPT !.file = AddUserTemplates(run.file, u, bfl[u])]
            /\ UNCHANGED <<pending, file, missed>>
            /\ run.users[u] # Bare /\ ValidIndex(run.users[u])
            /\ bfl[u] # None /\ bfl[u] # NoIp
  <2>1. PICK ip : ip = bfl[w]  OBVIOUS
  <2>2. PICK a : a = LocalIp(run.users[w], MaxUsers)  OBVIOUS
  <2>3. PICK f : f = run.file  OBVIOUS
  <2>4. PICK g : g = [f EXCEPT !.incluster = @ \cup {<<w, ip>>}, !.vpn = @ \cup {<<w, a>>},
                               !.other = IF f.master = None THEN @
                                         ELSE @ \cup {<<w, f.master>>}]
    OBVIOUS
  <2>5. g = AddUserTemplates(run.file, u, bfl[u])
    BY <1>8, <2>1, <2>2, <2>3, <2>4 DEF AddUserTemplates
  <2>6. run' = [run EXCEPT !.left = @ \ {w}, !.file = g]
    BY <1>2, <1>8, <1>12, <2>5 DEF Runs
  <2>7. run.users[w] \in Index /\ run.users[w] >= 0
    <3>1. run.users[w] \in Index \cup {Absent, Bare}  BY <1>2, <1>4, <1>8 DEF UserLists
    <3> QED  BY <1>3, <1>5, <1>8, <1>12, <3>1
  <2>8. ip \in Ips
    <3>1. bfl[w] \in {None, NoIp} \cup Ips  BY <1>2, <1>4, <1>8 DEF Types
    <3> QED  BY <1>8, <1>12, <2>1, <3>1
  <2>9. /\ g.incluster = run.file.incluster \cup {<<w, ip>>}
        /\ g.vpn = run.file.vpn \cup {<<w, a>>}
        /\ g.other = IF run.file.master = None THEN run.file.other
                     ELSE run.file.other \cup {<<w, run.file.master>>}
        /\ g.master = run.file.master /\ g.adguard = run.file.adguard
        /\ g.version = run.file.version /\ g.defaults = run.file.defaults
        /\ g.shared = run.file.shared /\ g.servers = run.file.servers
        /\ g = [version |-> g.version, defaults |-> g.defaults, servers |-> g.servers,
                incluster |-> g.incluster, vpn |-> g.vpn, other |-> g.other, master |-> g.master,
                adguard |-> g.adguard, shared |-> g.shared]
    BY <1>2, <2>3, <2>4 DEF Files
  <2>10. g \in Files
    <3>1. /\ run.file.incluster \subseteq Users \X Ips
          /\ run.file.vpn \subseteq Users \X Addrs /\ run.file.other \subseteq Users \X Ips
          /\ run.file.master \in {None} \cup Ips /\ run.file.adguard \in {None, 1}
          /\ run.file.shared \in {None, 1} /\ run.file.version \in Nat
          /\ run.file.defaults \in Nat /\ run.file.servers \in BOOLEAN
      BY <1>2 DEF Files
    <3>2. a \in Addrs  BY <2>2, <2>7 DEF Addrs
    <3>3. w \in Users  BY <1>4, <1>8
    <3>4. g.incluster \in SUBSET (Users \X Ips)  BY <2>8, <2>9, <3>1, <3>3
    <3>5. g.vpn \in SUBSET (Users \X Addrs)  BY <2>9, <3>1, <3>2, <3>3
    <3>6. g.other \in SUBSET (Users \X Ips)  BY <2>9, <3>1, <3>3
    <3> HIDE DEF Addrs
    <3> QED  BY <2>9, <3>1, <3>4, <3>5, <3>6 DEF Files
  <2>11. OwnAddress(g, run.users)
    <3>1. OwnAddress(run.file, run.users)  BY DEF QInv, Addresses
    <3> SUFFICES ASSUME NEW x \in g.vpn
                 PROVE  /\ run.users[x[1]] >= 0 /\ ValidIndex(run.users[x[1]])
                        /\ x[2] = LocalIp(run.users[x[1]], MaxUsers)
      BY DEF OwnAddress
    <3>2. CASE x \in run.file.vpn  BY <3>1, <3>2 DEF OwnAddress
    <3>3. CASE x = <<w, a>>
      BY <1>8, <1>12, <2>2, <2>7, <3>3
    <3> QED  BY <2>9, <3>2, <3>3
  <2>12. ASSUME NoNews  PROVE ViewsOf(g, Served \ (run.left \ {w}))
    <3>1. w \in Served
      BY <1>4, <1>7, <1>8, <1>12, <2>1, <2>7, <2>8, <2>12 DEF Served
    <3>2. Served \ (run.left \ {w}) = (Served \ run.left) \cup {w}  BY <3>1
    <3>3. PICK S : S = Served \ run.left  OBVIOUS
    <3>4. ViewsOf(run.file, S) /\ run.file.master = master  BY <1>7, <2>12, <3>3
    <3>5. g.incluster = {<<v, bfl[v]>> : v \in S \cup {w}}
      BY <2>1, <2>9, <3>4 DEF ViewsOf
    <3>6. a = LocalIp(user[w], MaxUsers)  BY <1>7, <1>8, <2>2, <2>12
    <3>7. g.vpn = {<<v, LocalIp(user[v], MaxUsers)>> : v \in S \cup {w}}
      BY <2>9, <3>4, <3>6 DEF ViewsOf
    <3>8. g.other = IF master = None THEN {} ELSE {<<v, master>> : v \in S \cup {w}}
      BY <2>9, <3>4 DEF ViewsOf
    <3> QED  BY <3>2, <3>3, <3>5, <3>7, <3>8 DEF ViewsOf
  <2> QED  BY <1>10, <1>12, <2>6, <2>9, <2>10, <2>11, <2>12
<1> QED
  <2>1. \/ run' = next /\ UNCHANGED <<pending, file, missed>> /\ run.users[u] = Bare
        \/ Fail
        \/ /\ run.users[u] # Bare /\ ValidIndex(run.users[u]) /\ bfl[u] # None
           /\ run' = IF bfl[u] = NoIp THEN next
                     ELSE [next EXCEPT !.file = AddUserTemplates(run.file, u, bfl[u])]
           /\ UNCHANGED <<pending, file, missed>>
    BY DEF EachUser, u
  <2> HIDE DEF next
  <2> QED  BY <1>9, <1>11, <1>12, <2>1

\* After the last user the run goes on with the views as they are.
LEMMA PassOn ==
    ASSUME QInv, NEW s \in {"pods", "update"}, NEW g \in Files,
           run' = [run EXCEPT !.at = s, !.file = g],
           (run.at = "each" /\ run.left = {}) \/ run.at = "pods",
           g.incluster = run.file.incluster, g.vpn = run.file.vpn,
           g.other = run.file.other, g.master = run.file.master,
           s = "update" => g.adguard = adguard \/ faults' # 0,
           UNCHANGED <<cluster, pending, file, missed, changes>>,
           faults' \in 0 .. MaxFaults, faults = 0 \/ faults' # 0
    PROVE  QInv'
<1>1. UNCHANGED <<user, bfl, master, adguard, shared>>  BY DEF cluster
<1>2. Types /\ run \in Runs  BY DEF QInv, Types
<1>3. run.left = {} /\ run.at \in {"each", "pods"}  BY DEF QInv, Remaining
<1>4. /\ run' \in Runs /\ run'.at = s /\ run'.file = g /\ run'.users = run.users
      /\ run'.left = run.left
  <2>1. s \in Ats  BY DEF Ats
  <2> HIDE DEF Ats, Files, UserLists
  <2> QED  BY <1>2, <2>1 DEF Runs
<1>5. Reads /\ missed' \in BOOLEAN  BY <1>1, <1>2, <1>3, <1>4 DEF Reads, Types
<1>6. /\ Types' /\ Bounded' /\ AtRest' /\ QuietKnowsAdguard' /\ Addresses'
      /\ Served' = Served
  <2>1. Distinct(run'.users) /\ OwnAddress(run'.file, run'.users)
    BY <1>4 DEF QInv, Addresses, OwnAddress
  <2> QED  BY <1>5, <2>1, ReadKeeps
<1>7. NoViews' /\ Remaining'  BY <1>3, <1>4 DEF NoViews, Remaining
<1>8. NoNews' = NoNews  BY DEF NoNews
<1>9. ListCurrent'  BY <1>1, <1>3, <1>4, <1>8 DEF QInv, ListCurrent
<1>10. NodeCurrent'  BY <1>1, <1>3, <1>4, <1>8 DEF QInv, NodeCurrent
<1>11. AdguardCurrent'  BY <1>1, <1>4 DEF AdguardCurrent
<1>12. Written'  BY <1>1, <1>3, <1>4, <1>6, <1>8 DEF QInv, Written, ViewsOf
<1> QED  BY <1>6, <1>7, <1>9, <1>10, <1>11, <1>12 DEF QInv

\* SharedEntrances sets the address of the shared entrances only.
LEMMA SharedStep ==
    ASSUME QInv, SharedEntrances, UNCHANGED <<cluster, changes, faults>>
    PROVE  QInv'
<1>1. Types /\ run \in Runs /\ run.file \in Files  BY DEF QInv, Types, Runs
<1>2. PICK x \in {None, 1} : run' = [run EXCEPT !.at = "pods", !.file.shared = x]
  BY <1>1 DEF SharedEntrances, Types
<1>3. PICK g : g = [run.file EXCEPT !.shared = x]  OBVIOUS
<1>4. run' = [run EXCEPT !.at = "pods", !.file = g]  BY <1>1, <1>2, <1>3 DEF Runs
<1>5. /\ g \in Files /\ g.vpn = run.file.vpn /\ g.incluster = run.file.incluster
      /\ g.other = run.file.other /\ g.master = run.file.master
  BY <1>1, <1>3 DEF Files
<1> QED  BY <1>1, <1>4, <1>5, PassOn DEF SharedEntrances, Types

\* ListPods reads the adguard pod, or fails to.
LEMMA PodsStep ==
    ASSUME QInv,
           \/ ListPods /\ UNCHANGED <<cluster, changes, faults>>
           \/ /\ ListPodsFails /\ UNCHANGED <<cluster, changes>>
              /\ faults < MaxFaults /\ faults' = faults + 1
    PROVE  QInv'
<1>1. Types /\ run \in Runs /\ run.file \in Files /\ adguard \in {None, 1}
      /\ faults \in 0 .. MaxFaults
  BY DEF QInv, Types, Runs
<1>2. CASE ListPods /\ UNCHANGED <<cluster, changes, faults>>
  <2>1. PICK g : g = [run.file EXCEPT !.adguard = adguard]  OBVIOUS
  <2>2. run' = [run EXCEPT !.at = "update", !.file = g]
    BY <1>1, <1>2, <2>1 DEF Runs, ListPods
  <2>3. /\ g \in Files /\ g.vpn = run.file.vpn /\ g.incluster = run.file.incluster
        /\ g.other = run.file.other /\ g.master = run.file.master /\ g.adguard = adguard
    BY <1>1, <2>1 DEF Files
  <2> QED  BY <1>1, <1>2, <2>2, <2>3, PassOn DEF ListPods
<1>3. CASE /\ ListPodsFails /\ UNCHANGED <<cluster, changes>>
           /\ faults < MaxFaults /\ faults' = faults + 1
  <2>1. run' = [run EXCEPT !.at = "update", !.file = run.file]
    BY <1>1, <1>3 DEF Runs, ListPodsFails
  <2>2. MaxFaults \in Nat  BY DnsAssumption
  <2>3. faults' \in 0 .. MaxFaults /\ faults' # 0  BY <1>1, <1>3, <2>2
  <2> QED  BY <1>1, <1>3, <2>1, <2>3, PassOn DEF ListPodsFails
<1> QED  BY <1>2, <1>3

\* Update writes what the run has read, which is what is there unless there is news.
LEMMA UpdateStep ==
    ASSUME QInv, Update, UNCHANGED <<cluster, changes, faults>>
    PROVE  QInv'
<1>1. UNCHANGED <<user, bfl, master, adguard, shared, changes, faults>>  BY DEF cluster
<1>2. Types /\ run \in Runs /\ run.file \in Files /\ faults \in 0 .. MaxFaults
      /\ pending \in Nat /\ changes \in Nat
  BY DEF QInv, Types, Runs
<1>3. run.at = "update"  BY DEF Update
<1>4. CASE run.file.version # file.version
  BY <1>2, <1>3, <1>4, FailStep DEF Update
<1>5. CASE run.file.version = file.version
  <2>1. /\ run' = Idle /\ UNCHANGED <<pending, missed>>
        /\ file' = [run.file EXCEPT !.version = @ + 1]
    BY <1>5 DEF Update
  <2>2. /\ file' \in Files /\ file'.vpn = run.file.vpn
        /\ file'.incluster = run.file.incluster /\ file'.other = run.file.other
        /\ file'.master = run.file.master /\ file'.adguard = run.file.adguard
    <3>1. run.file.version + 1 \in Nat  BY <1>2 DEF Files
    <3> QED  BY <1>2, <2>1, <3>1 DEF Files
  <2>3. /\ run'.at = "idle" /\ run'.left = {} /\ run'.file.vpn = {}
        /\ \A u \in Users : run'.users[u] = Absent
    BY <2>1 DEF Idle, NoFile
  <2>4. Types'  BY <1>1, <1>2, <2>1, <2>2, NoFileType DEF Types
  <2>5. Bounded'  BY <1>1, <1>2, <1>3, <2>1, <2>3 DEF QInv, Bounded
  <2>6. DistinctLocalIps'
    <3> SUFFICES ASSUME NEW x \in run.file.vpn, NEW y \in run.file.vpn, x[2] = y[2]
                 PROVE  x = y
      BY <2>2 DEF DistinctLocalIps
    <3>1. OwnAddress(run.file, run.users) /\ Distinct(run.users)  BY DEF QInv, Addresses
    <3>2. x \in Users \X Addrs /\ y \in Users \X Addrs  BY <1>2 DEF Files
    <3>3. PICK u \in Users : u = x[1]  BY <3>2
    <3>4. PICK v \in Users : v = y[1]  BY <3>2
    <3>5. /\ run.users[u] >= 0 /\ ValidIndex(run.users[u])
          /\ x[2] = LocalIp(run.users[u], MaxUsers)
      BY <3>1, <3>3 DEF OwnAddress
    <3>6. /\ run.users[v] >= 0 /\ ValidIndex(run.users[v])
          /\ y[2] = LocalIp(run.users[v], MaxUsers)
      BY <3>1, <3>4 DEF OwnAddress
    <3>7. run.users[u] \in Nat /\ run.users[v] \in Nat
      <4>1. run.users \in UserLists  BY <1>2 DEF Runs
      <4>2. Index \subseteq Nat  BY DnsAssumption
      <4>3. /\ run.users[u] \in Index \cup {Absent, Bare}
            /\ run.users[v] \in Index \cup {Absent, Bare}
        BY <4>1 DEF UserLists
      <4>4. ~(Absent >= 0) /\ ~(Bare >= 0)  BY DEF Absent, Bare
      <4> QED  BY <3>5, <3>6, <4>2, <4>3, <4>4
    <3>8. run.users[u] = run.users[v]  BY <3>5, <3>6, <3>7, LocalIpInjective
    <3>9. u = v  BY <3>1, <3>5, <3>8 DEF Distinct
    <3>10. x = <<x[1], x[2]>> /\ y = <<y[1], y[2]>>  BY <3>2
    <3> QED  BY <3>3, <3>4, <3>9, <3>10
  <2>7. Addresses'
    <3>1. ~(Absent >= 0)  BY DEF Absent
    <3>2. Distinct(run'.users)  BY <2>3, <3>1 DEF Distinct
    <3>3. OwnAddress(run'.file, run'.users)  BY <2>3 DEF OwnAddress
    <3>4. Distinct(user')  BY <1>1 DEF QInv, Addresses
    <3> QED  BY <2>6, <3>2, <3>3, <3>4 DEF Addresses
  <2>8. AtRest'
    <3> SUFFICES ASSUME NoNews  PROVE Fresh'
      BY <2>1 DEF AtRest, NoNews
    <3>1. run.left = {} /\ run.file.master = master
      BY <1>3 DEF QInv, Remaining, NodeCurrent
    <3>2. ViewsOf(run.file, Served)
      <4>1. Served \ run.left = Served  BY <3>1
      <4> QED  BY <1>3, <4>1 DEF QInv, Written
    <3>3. /\ run.file.incluster = InCluster /\ run.file.vpn = Vpn /\ run.file.other = Other
      BY <3>2 DEF ViewsOf, InCluster, Vpn, Other
    <3>4. Served' = Served  BY <1>1 DEF Served
    <3>5. InCluster' = InCluster /\ Vpn' = Vpn /\ Other' = Other
      BY <1>1, <3>4 DEF InCluster, Vpn, Other
    <3> QED  BY <1>1, <2>2, <3>1, <3>3, <3>5 DEF Fresh
  <2>9. QuietKnowsAdguard'
    BY <1>1, <1>3, <2>1, <2>2 DEF QInv, AdguardCurrent, QuietKnowsAdguard
  <2> QED
    BY <2>3, <2>4, <2>5, <2>7, <2>8, <2>9
    DEF QInv, ListCurrent, NodeCurrent, AdguardCurrent, NoViews, Remaining, Written
<1> QED  BY <1>4, <1>5

\* Every step keeps the invariant.
LEMMA QInvNext ==
    ASSUME QInv, [Next]_vars
    PROVE  QInv'
<1>1. faults \in 0 .. MaxFaults /\ MaxFaults \in Nat  BY DnsAssumption DEF QInv, Types
<1>2. CASE Worker
  BY <1>2, StartStep, GetStep, NoServerStep, ListUsersStep, ListNodesStep, EachUserStep, SharedStep,
     PodsStep, UpdateStep
  DEF Worker
<1>3. CASE RequestFails
  <2>1. faults' \in 0 .. MaxFaults  BY <1>1, <1>3 DEF RequestFails
  <2>2. CASE ListPodsFails  BY <1>3, <2>2, PodsStep DEF RequestFails
  <2>3. CASE run.at # "idle" /\ Fail  BY <1>3, <2>1, <2>3, FailStep DEF RequestFails
  <2> QED  BY <1>3, <2>2, <2>3 DEF RequestFails
<1>4. CASE UNCHANGED vars
  <2>1. UNCHANGED <<user, bfl, master, adguard, shared, file, pending, run, missed,
                    changes, faults>>
    BY <1>4 DEF vars, cluster
  <2>2. Types' /\ Bounded' /\ Addresses'
    BY <2>1 DEF QInv, Types, Bounded, Addresses, Distinct, OwnAddress, DistinctLocalIps
  <2>3. NoNews' = NoNews /\ Served' = Served /\ InCluster' = InCluster /\ Vpn' = Vpn
        /\ Other' = Other
    BY <2>1 DEF NoNews, Served, InCluster, Vpn, Other
  <2>4. AtRest'  BY <2>1, <2>3 DEF QInv, AtRest, Fresh
  <2>5. ListCurrent' /\ NodeCurrent' /\ NoViews' /\ Remaining'
    BY <2>1, <2>3 DEF QInv, ListCurrent, NodeCurrent, NoViews, Remaining
  <2>6. AdguardCurrent' /\ QuietKnowsAdguard'
    BY <2>1 DEF QInv, AdguardCurrent, QuietKnowsAdguard
  <2>7. Written'  BY <2>1, <2>3 DEF QInv, Written, ViewsOf
  <2> QED  BY <2>2, <2>4, <2>5, <2>6, <2>7 DEF QInv
<1> QED  BY <1>2, <1>3, <1>4, ClusterStep, EditStep, ReplaceStep DEF Next

\* What the invariant says of a file at rest.
LEMMA QInvRight == QInv => QuietMeansRight
<1> SUFFICES ASSUME QInv  PROVE QuietMeansRight
  OBVIOUS
<1>1. Types /\ Bounded  BY DEF QInv
<1>2. TypeOK
  <2>1. /\ run.at \in Ats /\ file.incluster \subseteq Users \X Ips
        /\ file.other \subseteq Users \X Ips
    BY <1>1 DEF Types, Runs, Files
  <2>2. pending \in 0 .. MaxChanges + 1
    <3>1. /\ pending \in Nat /\ changes \in 0 .. MaxChanges /\ MaxChanges \in Nat
          /\ pending <= changes
      BY <1>1, DnsAssumption DEF Types, Bounded
    <3> QED  BY <3>1
  <2> QED  BY <1>1, <2>1, <2>2 DEF TypeOK, Types, UserLists, Ats
<1>3. QuietMeansFresh  BY DEF QInv, AtRest, NoNews, QuietMeansFresh
<1> QED  BY <1>2, <1>3 DEF QInv, Addresses, QuietMeansRight

\* Whenever nothing is queued or running, and no user event was lost and nobody
\* replaced the file since the last regeneration, the Corefile gives
\* exactly the answers that users, pods and nodes of the moment call for; it knows the
\* adguard pod unless a request failed; and no two users ever share an address of the
\* VPN: for every order of changes, reads, conflicts and failures of RegenerateCorefile.
THEOREM QuietMeansRightHolds == Spec => []QuietMeansRight
<1>1. Init => QInv  BY QInvInit
<1>2. QInv /\ [Next]_vars => QInv'  BY QInvNext
<1>3. QInv => QuietMeansRight  BY QInvRight
<1> QED  BY <1>1, <1>2, <1>3, PTL DEF Spec
=============================================================================
