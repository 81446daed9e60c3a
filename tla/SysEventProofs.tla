--------------------------- MODULE SysEventProofs ---------------------------
(***************************************************************************)
(* cmd/sys-event.  How users are watched: for any users, callbacks,        *)
(* versions and upsets nobody hears of a user after its deletion, an       *)
(* activation is announced once (but for repeated calls), and without      *)
(* failures a version is delivered once.  The queue of events: for any numbers of users,         *)
(* callbacks, events, errors, crashes and hours its deliveries are in      *)
(* order and counted, and what is done has been told.                      *)
(***************************************************************************)
EXTENDS UserWatch, SysEvents, FiniteSetTheorems, WellFoundedInduction, TLAPS


----------------------------------------------------------------------------
(* The users: the inductive invariant.                                     *)

Events == [type : {"ADDED", "MODIFIED", "DELETED"}, name : Names, obj : UserObj]
Messages == [what : {"ADDED", "MODIFIED", "DELETED"}, uid : Uids, version : 1 .. MaxVersion,
             by : {"user", "callback"}, ok : BOOLEAN]
Jobs == [do : {"idle", "list", "call", "users"}, ev : Events \cup {NoEvent},
         cb : Callbacks \cup {0}, list : SUBSET Callbacks, users : SUBSET Events]

\* The goroutine handles an event of a user; callback c has still to hear of it.
InCall == job.do \in {"list", "call"}
Due(c) == job.do = "list" \/ (job.do = "call" /\ c \in job.list)

\* Call m is of the event that is handled, and failed; it may be made again.
Repeated(m) == /\ ~m.ok /\ m.by = "user" /\ m.what = job.ev.type
               /\ m.uid = job.ev.obj.uid /\ m.version = job.ev.obj.version

\* The calls made to callback c.
Told(c) == {got[c][i] : i \in DOMAIN got[c]}

\* Types.
Types ==
    /\ user \in [Names -> UserObj \cup {NoUser}] /\ nextUid \in 1 .. MaxUids + 1
    /\ registered \subseteq Callbacks /\ open \in BOOLEAN
    /\ userEv \in Seq(Events) /\ cbEv \in Seq(Callbacks)
    /\ cacheCb \subseteq Callbacks /\ activing \subseteq Names
    /\ job \in Jobs /\ (InCall => job.ev \in Events)
    /\ job.do = "users" => job.cb \in Callbacks
    /\ got \in [Callbacks -> Seq(Messages)]
    /\ faults \in Nat /\ restarts \in Nat

\* Uids are used once.
Objects ==
    /\ \A n \in Names : user[n].uid < nextUid
    /\ \A n, m \in Names : user[n] # NoUser /\ user[n].uid = user[m].uid => n = m
    /\ \A c \in Callbacks : \A m \in Told(c) : m.uid < nextUid
    /\ job.do = "users" => \A e \in job.users : e.type = "ADDED" /\ e.obj.uid < nextUid

\* Event e comes before event f.
InOrder(e, f) ==
    /\ e.obj.uid = f.obj.uid =>
          /\ e.name = f.name /\ e.type # "DELETED" /\ f.type # "ADDED"
          /\ f.type = "MODIFIED" => e.obj.version < f.obj.version
          /\ e.obj.wizard = "completed" => f.obj.wizard = "completed"
    /\ e.name = f.name => e.obj.uid <= f.obj.uid

\* What an event says of the objects of the moment.
UpToDate(e) ==
    /\ e.obj.uid < nextUid
    /\ \A n \in Names : user[n].uid = e.obj.uid =>
          /\ e.name = n /\ e.type # "DELETED" /\ e.obj.version <= user[n].version
          /\ e.obj.wizard = "completed" => user[n].wizard = "completed"
    /\ \A n \in Names : user[n] # NoUser /\ e.name = n => e.obj.uid <= user[n].uid

\* The events are read in order.
Stream ==
    /\ \A i, j \in DOMAIN userEv : i < j => InOrder(userEv[i], userEv[j])
    /\ \A i \in DOMAIN userEv : UpToDate(userEv[i])
    /\ InCall => /\ UpToDate(job.ev)
                 /\ \A i \in DOMAIN userEv : InOrder(job.ev, userEv[i])

\* Once a callback knows of a deletion, nothing is left of the user but the same call.
Buried(c, m) ==
    /\ \A n \in Names : user[n].uid # m.uid
    /\ \A i \in DOMAIN userEv : userEv[i].obj.uid # m.uid
    /\ job.do = "users" => \A e \in job.users : e.obj.uid # m.uid
    /\ InCall /\ job.ev.obj.uid = m.uid =>
          job.ev.type = "DELETED" /\ (Due(c) => Repeated(m))

Burials == \A c \in Callbacks : \A m \in Told(c) : m.what = "DELETED" => Buried(c, m)

\* The activation of user u has been announced, or is being announced.
Announced(u) ==
    \/ \E c \in Callbacks : \E m \in Told(c) : m.what = "MODIFIED" /\ m.uid = u
    \/ InCall /\ job.ev.type = "MODIFIED" /\ job.ev.obj.uid = u

\* Whatever comes of an announced user is completed, and its name is not remembered;
\* nor will events of an earlier user of the name bring it back.
Settled(u) ==
    /\ \A n \in Names : user[n].uid = u =>
          /\ user[n].wizard = "completed" /\ n \notin activing
          /\ \A i \in DOMAIN userEv : userEv[i].name = n => userEv[i].obj.uid >= u
    /\ \A i \in DOMAIN userEv : userEv[i].obj.uid = u =>
          /\ userEv[i].obj.wizard = "completed" /\ userEv[i].name \notin activing
          /\ \A j \in DOMAIN userEv : userEv[j].name = userEv[i].name => userEv[j].obj.uid >= u

Announcements ==
    /\ \A u \in Uids : Announced(u) => Settled(u)
    /\ InCall /\ job.ev.type = "MODIFIED" =>
          \A c \in Callbacks : Due(c) =>
              \A m \in Told(c) : m.what = "MODIFIED" /\ m.uid = job.ev.obj.uid => Repeated(m)

WInv == /\ Types /\ Objects /\ Stream /\ Burials /\ Announcements
        /\ NothingAfterDeleted /\ ActivatedOnce

\* As long as no call fails, all registrations have a URL and the process is not
\* restarted: what has been delivered is older than what may come, or recorded.
Quiet == faults = 0 /\ restarts = 0 /\ registered \cap NoUrl = {}

\* Those to be called are registered.
CallsRegistered == job.do = "call" => job.list \subseteq registered

\* The event of an added user of this version has been recorded as handled.
Recorded(m) == <<m.uid, "ADDED", m.version>> \in cacheUser

\* The goroutine handles the event that m is about.
Handled(m) == /\ InCall /\ job.ev.type = "ADDED"
              /\ job.ev.obj.uid = m.uid /\ job.ev.obj.version = m.version

Delivered(c, m) ==
    /\ \A i \in DOMAIN userEv : userEv[i].obj.uid = m.uid /\ userEv[i].type = m.what =>
          \/ m.version < userEv[i].obj.version
          \/ m.what = "ADDED" /\ m.version = userEv[i].obj.version /\ Recorded(m)
    /\ \A n \in Names : user[n].uid = m.uid =>
          \/ m.version < user[n].version
          \/ m.version = user[n].version /\ (m.what = "ADDED" => Recorded(m) \/ Handled(m))
    /\ InCall /\ job.ev.obj.uid = m.uid /\ job.ev.type = m.what =>
          /\ m.version <= job.ev.obj.version
          /\ Due(c) => m.version < job.ev.obj.version

Deliveries == \A c \in Callbacks : \A m \in Told(c) : m.by = "user" => Delivered(c, m)


----------------------------------------------------------------------------
(* Sequences, and the least element of a set.                              *)

\* A nonempty set of numbers has a least element, which Min takes.
LEMMA MinIn ==
    ASSUME NEW S, S \subseteq Nat, S # {}
    PROVE  Min(S) \in S
<1> DEFINE R == {p \in Nat \X Nat : p[1] < p[2]}
<1>1. IsWellFoundedOn(R, Nat)  BY NatLessThanWellFounded DEF OpToRel
<1>2. \A x, y \in Nat : y < x => <<y, x>> \in R  OBVIOUS
<1> HIDE DEF R
<1>3. PICK x \in S : \A y \in S : <<y, x>> \notin R  BY <1>1, WFMin
<1>4. \A y \in S : x <= y
  <2>1. \A y \in S : ~(y < x)  BY <1>2, <1>3
  <2> QED  BY <2>1
<1> QED  BY <1>4 DEF Min

\* Where the elements of an extended sequence are.
LEMMA Extended ==
    ASSUME NEW S, NEW s \in Seq(S), NEW e \in S, NEW t, t = Append(s, e)
    PROVE  /\ t \in Seq(S) /\ Len(s) \in Nat
           /\ DOMAIN s = 1 .. Len(s) /\ DOMAIN t = 1 .. Len(s) + 1
           /\ \A i \in 1 .. Len(s) : t[i] = s[i]
           /\ t[Len(s) + 1] = e
OBVIOUS

\* The sequence without its first element.
LEMMA Shortened ==
    ASSUME NEW S, NEW s \in Seq(S), s # <<>>
    PROVE  /\ Tail(s) \in Seq(S) /\ Head(s) = s[1] /\ Head(s) \in S
           /\ 1 \in DOMAIN s
           /\ \A i \in DOMAIN Tail(s) : i \in Nat /\ i >= 1 /\ i + 1 \in DOMAIN s
                                        /\ Tail(s)[i] = s[i + 1]
<1>1. Len(s) \in Nat /\ Len(s) >= 1 /\ Len(Tail(s)) = Len(s) - 1 /\ DOMAIN s = 1 .. Len(s)
  OBVIOUS
<1>2. DOMAIN Tail(s) = 1 .. Len(s) - 1 /\ Tail(s) \in Seq(S)
  <2>1. Tail(s) \in Seq(S)  OBVIOUS
  <2> QED  BY <1>1, <2>1
<1>3. \A i \in 1 .. Len(s) - 1 : Tail(s)[i] = s[i + 1]  OBVIOUS
<1>4. Head(s) = s[1] /\ Head(s) \in S  OBVIOUS
<1> QED  BY <1>1, <1>2, <1>3, <1>4

\* What a callback has been told is what it had been told and the new message.
LEMMA TellAdds ==
    ASSUME Types, NEW c \in Callbacks, NEW m \in Messages,
           got' = [got EXCEPT ![c] = Append(@, m)]
    PROVE  /\ got' \in [Callbacks -> Seq(Messages)]
           /\ \A d \in Callbacks : d # c => got'[d] = got[d] /\ Told(d)' = Told(d)
           /\ Told(c)' = Told(c) \cup {m}
           /\ Len(got[c]) \in Nat /\ DOMAIN got[c] = 1 .. Len(got[c])
           /\ DOMAIN got'[c] = 1 .. Len(got[c]) + 1
           /\ \A i \in 1 .. Len(got[c]) : got'[c][i] = got[c][i]
           /\ got'[c][Len(got[c]) + 1] = m
<1>1. got \in [Callbacks -> Seq(Messages)]  BY DEF Types
<1>2. got'[c] = Append(got[c], m) /\ \A d \in Callbacks : d # c => got'[d] = got[d]
  BY <1>1
<1>3. /\ got'[c] \in Seq(Messages) /\ Len(got[c]) \in Nat
      /\ DOMAIN got[c] = 1 .. Len(got[c]) /\ DOMAIN got'[c] = 1 .. Len(got[c]) + 1
      /\ \A i \in 1 .. Len(got[c]) : got'[c][i] = got[c][i]
      /\ got'[c][Len(got[c]) + 1] = m
  <2>1. got[c] \in Seq(Messages)  BY <1>1
  <2> QED  BY <1>2, <2>1, Extended
<1>4. got' \in [Callbacks -> Seq(Messages)]
  BY <1>1, <1>3
<1>5. \A d \in Callbacks : d # c => Told(d)' = Told(d)
  BY <1>2 DEF Told
<1>6. Told(c)' = Told(c) \cup {m}
  <2>1. \A i \in 1 .. Len(got[c]) + 1 : i \in 1 .. Len(got[c]) \/ i = Len(got[c]) + 1
    BY <1>3
  <2>2. /\ \A i \in 1 .. Len(got[c]) : i \in 1 .. Len(got[c]) + 1
        /\ Len(got[c]) + 1 \in 1 .. Len(got[c]) + 1
    BY <1>3
  <2>3. Told(c)' \subseteq Told(c) \cup {m}
    BY <1>3, <2>1 DEF Told
  <2>4. Told(c) \cup {m} \subseteq Told(c)'
    BY <1>3, <2>2 DEF Told
  <2> QED  BY <2>3, <2>4
<1> QED  BY <1>2, <1>3, <1>4, <1>5, <1>6

\* The orders in which a finite set can be listed.
LEMMA Listed ==
    ASSUME NEW S, IsFiniteSet(S), NEW s \in SetToSeqs(S)
    PROVE  /\ s \in Seq(S)
           /\ \A i, j \in DOMAIN s : i # j => s[i] # s[j]
<1>1. Cardinality(S) \in Nat  BY FS_CardinalityType
<1>2. PICK n \in Nat : n = Cardinality(S)  BY <1>1
<1>3. s \in [1 .. n -> S] /\ \A i, j \in 1 .. n : i # j => s[i] # s[j]
  BY <1>2 DEF SetToSeqs
<1> QED  BY <1>3

----------------------------------------------------------------------------
(* Steps by which nothing new is known or waits.                           *)

\* From place k + 1 on, the events that waited still wait.
Rest(k) == \A i \in DOMAIN userEv' : /\ i \in Nat /\ i + k \in DOMAIN userEv
                                     /\ userEv'[i] = userEv[i + k]

\* What is handled after the step was handled before.
SameCall == /\ InCall' => InCall /\ job'.ev = job.ev
            /\ \A c \in Callbacks : Due(c)' => Due(c)

\* The users a new callback is told of are those of the moment, or fewer than before.
UsersKnown ==
    job'.do = "users" =>
        \A e \in job'.users : \/ job.do = "users" /\ e \in job.users
                              \/ \E n \in Existing : e = Event("ADDED", n, user[n])

\* An existing user has an object.
LEMMA ExistingObj ==
    ASSUME Types, NEW n \in Existing
    PROVE  n \in Names /\ user[n] \in UserObj /\ user[n] # NoUser
BY DEF Types, Existing

\* The part of the invariant about events of users.
LEMMA RestStream ==
    ASSUME Stream, UNCHANGED <<user, nextUid>>, NEW k \in Nat, Rest(k), SameCall
    PROVE  Stream'
<1>1. \A e : UpToDate(e)' <=> UpToDate(e)  BY DEF UpToDate
<1>2. \A i, j \in DOMAIN userEv' : i < j => InOrder(userEv'[i], userEv'[j])
  <2> TAKE i, j \in DOMAIN userEv'
  <2> HAVE i < j
  <2>1. /\ i \in Nat /\ j \in Nat /\ i + k \in DOMAIN userEv /\ j + k \in DOMAIN userEv
        /\ userEv'[i] = userEv[i + k] /\ userEv'[j] = userEv[j + k]
    BY DEF Rest
  <2>2. i + k < j + k  BY <2>1
  <2>3. InOrder(userEv[i + k], userEv[j + k])  BY <2>1, <2>2 DEF Stream
  <2> QED  BY <2>1, <2>3
<1>3. \A i \in DOMAIN userEv' : UpToDate(userEv[i])'
  <2> TAKE i \in DOMAIN userEv'
  <2>1. UpToDate(userEv[i + k]) /\ userEv'[i] = userEv[i + k]  BY DEF Rest, Stream
  <2>2. PICK e : e = userEv[i + k]  OBVIOUS
  <2>3. UpToDate(e)'  BY <1>1, <2>1, <2>2
  <2> QED  BY <2>1, <2>2, <2>3 DEF UpToDate
<1>4. ASSUME InCall'
      PROVE  /\ UpToDate(job.ev)'
             /\ \A i \in DOMAIN userEv' : InOrder(job'.ev, userEv'[i])
  <2>1. InCall /\ job'.ev = job.ev  BY <1>4 DEF SameCall
  <2>2. PICK e : e = job.ev  OBVIOUS
  <2>3. UpToDate(e)' /\ \A i \in DOMAIN userEv : InOrder(e, userEv[i])
    BY <1>1, <2>1, <2>2 DEF Stream
  <2>4. UpToDate(job.ev)'  BY <2>1, <2>2, <2>3 DEF UpToDate
  <2> QED  BY <2>1, <2>2, <2>3, <2>4 DEF Rest
<1> QED  BY <1>2, <1>3, <1>4 DEF Stream

\* The part about deleted users.
LEMMA RestBurials ==
    ASSUME WInv, UNCHANGED <<user, nextUid, got>>, NEW k \in Nat, Rest(k), SameCall, UsersKnown
    PROVE  Burials'
<1> SUFFICES ASSUME NEW c \in Callbacks, NEW m \in Told(c)', m.what = "DELETED"
             PROVE  Buried(c, m)'
  BY DEF Burials
<1>1. Buried(c, m)  BY DEF Burials, Told, WInv
<1>2. \A n \in Names : user'[n].uid # m.uid  BY <1>1 DEF Buried
<1>3. \A i \in DOMAIN userEv' : userEv'[i].obj.uid # m.uid  BY <1>1 DEF Buried, Rest
<1>4. ASSUME job'.do = "users", NEW e \in job'.users  PROVE e.obj.uid # m.uid
  <2>1. CASE job.do = "users" /\ e \in job.users  BY <1>1, <2>1 DEF Buried
  <2>2. ASSUME NEW n \in Existing, e = Event("ADDED", n, user[n])  PROVE e.obj.uid # m.uid
    BY <1>1, <2>2 DEF Buried, Event, Existing
  <2> QED  BY <1>4, <2>1, <2>2 DEF UsersKnown
<1>5. InCall' /\ job'.ev.obj.uid = m.uid =>
         job'.ev.type = "DELETED" /\ (Due(c)' => Repeated(m)')
  BY <1>1 DEF Buried, SameCall, Repeated
<1> QED  BY <1>2, <1>3, <1>4, <1>5 DEF Buried

\* Settled users stay settled.
LEMMA RestSettled ==
    ASSUME UNCHANGED user, NEW k \in Nat, Rest(k), activing' \subseteq activing, NEW u, Settled(u)
    PROVE  Settled(u)'
<1>1. \A n \in Names : user'[n].uid = u =>
          /\ user'[n].wizard = "completed" /\ n \notin activing'
          /\ \A i \in DOMAIN userEv' : userEv'[i].name = n => userEv'[i].obj.uid >= u
  BY DEF Settled, Rest
<1>2. \A i \in DOMAIN userEv' : userEv'[i].obj.uid = u =>
          /\ userEv'[i].obj.wizard = "completed" /\ userEv'[i].name \notin activing'
          /\ \A j \in DOMAIN userEv' : userEv'[j].name = userEv'[i].name
                                        => userEv'[j].obj.uid >= u
  BY DEF Settled, Rest
<1> QED  BY <1>1, <1>2 DEF Settled

\* The part about activations.
LEMMA RestAnnouncements ==
    ASSUME WInv, UNCHANGED <<user, nextUid, got>>, NEW k \in Nat, Rest(k), SameCall,
           activing' \subseteq activing
    PROVE  Announcements'
<1>1. \A u \in Uids : Announced(u)' => Announced(u)
  BY DEF Announced, SameCall, Told
<1>2. \A u \in Uids : Announced(u)' => Settled(u)'
  BY <1>1, RestSettled DEF WInv, Announcements
<1>3. ASSUME InCall', job'.ev.type = "MODIFIED", NEW c \in Callbacks, Due(c)',
             NEW m \in Told(c)', m.what = "MODIFIED", m.uid = job'.ev.obj.uid
      PROVE  Repeated(m)'
  <2>1. InCall /\ job'.ev = job.ev /\ Due(c)  BY <1>3 DEF SameCall
  <2>2. m \in Told(c)  BY DEF Told
  <2>3. Repeated(m)  BY <1>3, <2>1, <2>2 DEF WInv, Announcements
  <2> QED  BY <2>1, <2>3 DEF Repeated
<1> QED  BY <1>2, <1>3 DEF Announcements

\* The part about uids.
LEMMA RestObjects ==
    ASSUME WInv, UNCHANGED <<user, nextUid, got>>, UsersKnown
    PROVE  Objects'
<1>1. /\ \A n \in Names : user'[n].uid < nextUid'
      /\ \A n, m \in Names : user'[n] # NoUser /\ user'[n].uid = user'[m].uid => n = m
      /\ \A c \in Callbacks : \A m \in Told(c)' : m.uid < nextUid'
  BY DEF WInv, Objects, Told
<1>2. ASSUME job'.do = "users", NEW e \in job'.users
      PROVE  e.type = "ADDED" /\ e.obj.uid < nextUid'
  <2>1. CASE job.do = "users" /\ e \in job.users  BY <2>1 DEF WInv, Objects
  <2>2. ASSUME NEW n \in Existing, e = Event("ADDED", n, user[n])
        PROVE  e.type = "ADDED" /\ e.obj.uid < nextUid'
    BY <2>2 DEF Event, Existing, WInv, Objects
  <2> QED  BY <1>2, <2>1, <2>2 DEF UsersKnown
<1> QED  BY <1>1, <1>2 DEF Objects

\* All of it.
LEMMA RestKeeps ==
    ASSUME WInv, Types', UNCHANGED <<user, nextUid, got>>, NEW k \in Nat, Rest(k), SameCall,
           UsersKnown, activing' \subseteq activing
    PROVE  WInv'
<1>1. Stream'  BY RestStream DEF WInv
<1>2. Burials'  BY RestBurials
<1>3. Announcements'  BY RestAnnouncements
<1>4. Objects'  BY RestObjects
<1>5. NothingAfterDeleted' /\ ActivatedOnce'
  BY DEF WInv, NothingAfterDeleted, ActivatedOnce
<1> QED  BY <1>1, <1>2, <1>3, <1>4, <1>5 DEF WInv

----------------------------------------------------------------------------
(* Users are created, changed and deleted.                                 *)

\* An object has a uid, and no object has none.
LEMMA Uid ==
    /\ \A o \in UserObj : o.uid \in Uids /\ o.uid \in Nat /\ o.uid > 0 /\ o.version \in Nat
    /\ NoUser.uid = 0 /\ NoUser \notin UserObj
<1>1. \A o \in UserObj : o.uid \in Uids /\ o.uid \in Nat /\ o.uid > 0 /\ o.version \in Nat
  BY UserWatchAssumption DEF UserObj, Uids
<1>2. NoUser.uid = 0  BY DEF NoUser
<1> QED  BY <1>1, <1>2

\* The object of user n becomes v, and the watch, if open, reports event e of it: the
\* first of a new user, or one more of the user there was.
Change(n, v, e) ==
    /\ user' = [user EXCEPT ![n] = v]
    /\ e.name = n /\ Watched(e)
    /\ nextUid <= nextUid' /\ e.obj.uid < nextUid'
    /\ \/ user[n] = NoUser /\ e.obj.uid = nextUid
       \/ user[n] # NoUser /\ e.obj.uid = user[n].uid
    /\ v # NoUser => v = e.obj /\ e.type # "DELETED"
    /\ user[n] # NoUser => /\ e.type # "ADDED"
                           /\ user[n].version <= e.obj.version
                           /\ e.type = "MODIFIED" => user[n].version < e.obj.version
                           /\ user[n].wizard = "completed" => e.obj.wizard = "completed"
    /\ UNCHANGED <<job, got, activing>>

\* The events that wait after a change.
LEMMA ChangeEvents ==
    ASSUME Types, NEW e \in Events, Watched(e), NEW i \in DOMAIN userEv'
    PROVE  /\ i \in Nat /\ \A j \in DOMAIN userEv : j \in Nat
           /\ \/ i \in DOMAIN userEv /\ userEv'[i] = userEv[i]
              \/ userEv'[i] = e /\ \A j \in DOMAIN userEv : j < i
<1>1. userEv \in Seq(Events)  BY DEF Types
<1>2. Len(userEv) \in Nat /\ DOMAIN userEv = 1 .. Len(userEv)  BY <1>1
<1>3. CASE open
  <2>1. PICK t : t = Append(userEv, e)  OBVIOUS
  <2>2. userEv' = t  BY <1>3, <2>1 DEF Watched
  <2>3. /\ DOMAIN t = 1 .. Len(userEv) + 1
        /\ \A j \in 1 .. Len(userEv) : t[j] = userEv[j]
        /\ t[Len(userEv) + 1] = e
    BY <1>1, <2>1, Extended
  <2>4. CASE i \in 1 .. Len(userEv)  BY <1>2, <2>2, <2>3, <2>4
  <2>5. CASE i = Len(userEv) + 1  BY <1>2, <2>2, <2>3, <2>5
  <2>6. i \in 1 .. Len(userEv) \/ i = Len(userEv) + 1  BY <1>2, <2>2, <2>3
  <2> QED  BY <2>4, <2>5, <2>6
<1>4. CASE ~open  BY <1>2, <1>4 DEF Watched
<1> QED  BY <1>3, <1>4

\* How the objects change.
LEMMA ChangeObjects ==
    ASSUME Types, NEW n \in Names, NEW v \in UserObj \cup {NoUser}, NEW e \in Events,
           Change(n, v, e)
    PROVE  /\ user'[n] = v /\ \A m \in Names : m # n => user'[m] = user[m]
           /\ \A m \in Names : user[m] \in UserObj \cup {NoUser}
           /\ e.obj \in UserObj /\ e.name = n
BY DEF Types, Change, Events

\* An event stays up to date, and comes before the new one.
LEMMA ChangeOlder ==
    ASSUME Types, Types', Objects, NEW n \in Names, NEW v \in UserObj \cup {NoUser},
           NEW e \in Events, Change(n, v, e), NEW x \in Events, UpToDate(x)
    PROVE  UpToDate(x)' /\ InOrder(x, e)
<1>1. /\ user'[n] = v /\ \A m \in Names : m # n => user'[m] = user[m]
      /\ \A m \in Names : user[m] \in UserObj \cup {NoUser}
      /\ e.obj \in UserObj /\ e.name = n
  BY ChangeObjects
<1>2. x.obj \in UserObj  BY DEF Events
<1>3. nextUid \in Nat /\ nextUid' \in Nat /\ nextUid <= nextUid'
  BY UserWatchAssumption DEF Types, Change
<1>4. x.obj.uid \in Nat /\ x.obj.uid > 0 /\ x.obj.version \in Nat /\ x.obj.uid < nextUid
  BY <1>2, Uid DEF UpToDate
<1>5. e.obj.uid \in Nat /\ e.obj.uid > 0 /\ e.obj.version \in Nat
  BY <1>1, Uid
<1>6. CASE user[n] = NoUser
  <2>1. e.obj.uid = nextUid  BY <1>1, <1>5, <1>6, Uid DEF Change
  <2>2. v.uid # x.obj.uid /\ (v # NoUser => v.uid = nextUid)
    BY <1>4, <2>1, Uid DEF Change
  <2>3. InOrder(x, e)  BY <1>3, <1>4, <2>1 DEF InOrder
  <2>4. x.obj.uid < nextUid'  BY <1>3, <1>4
  <2>5. \A m \in Names : user'[m].uid = x.obj.uid =>
          /\ x.name = m /\ x.type # "DELETED" /\ x.obj.version <= user'[m].version
          /\ x.obj.wizard = "completed" => user'[m].wizard = "completed"
    BY <1>1, <2>2 DEF UpToDate
  <2>6. \A m \in Names : user'[m] # NoUser /\ x.name = m => x.obj.uid <= user'[m].uid
    BY <1>1, <1>3, <1>4, <2>1, <2>2 DEF UpToDate
  <2> QED  BY <2>3, <2>4, <2>5, <2>6 DEF UpToDate
<1>7. CASE user[n] # NoUser
  <2>1. e.obj.uid = user[n].uid /\ user[n] \in UserObj  BY <1>1, <1>7 DEF Change
  <2>2. user[n].version \in Nat  BY <2>1, Uid
  <2>3. v # NoUser => v = e.obj /\ v.uid = user[n].uid  BY <2>1 DEF Change
  <2>4. x.obj.uid = user[n].uid =>
          /\ x.name = n /\ x.type # "DELETED" /\ x.obj.version <= user[n].version
          /\ x.obj.wizard = "completed" => user[n].wizard = "completed"
    BY DEF UpToDate
  <2>5. x.name = n => x.obj.uid <= user[n].uid  BY <1>7 DEF UpToDate
  <2>6. /\ e.type # "ADDED" /\ user[n].version <= e.obj.version
        /\ e.type = "MODIFIED" => user[n].version < e.obj.version
        /\ user[n].wizard = "completed" => e.obj.wizard = "completed"
    BY <1>7 DEF Change
  <2>7. InOrder(x, e)  BY <1>1, <1>4, <1>5, <2>1, <2>2, <2>4, <2>5, <2>6 DEF InOrder
  <2>8. x.obj.uid < nextUid'  BY <1>3, <1>4
  <2>9. \A m \in Names : user'[m].uid = x.obj.uid =>
          /\ x.name = m /\ x.type # "DELETED" /\ x.obj.version <= user'[m].version
          /\ x.obj.wizard = "completed" => user'[m].wizard = "completed"
    <3> TAKE m \in Names
    <3> HAVE user'[m].uid = x.obj.uid
    <3>1. CASE m # n  BY <1>1, <3>1 DEF UpToDate
    <3>2. CASE m = n
      <4>1. v # NoUser  BY <1>1, <1>4, <3>2, Uid
      <4>2. user'[n] = e.obj /\ x.obj.uid = user[n].uid  BY <1>1, <2>3, <3>2, <4>1
      <4> QED  BY <1>4, <1>5, <2>2, <2>4, <2>6, <3>2, <4>2
    <3> QED  BY <3>1, <3>2
  <2>10. \A m \in Names : user'[m] # NoUser /\ x.name = m => x.obj.uid <= user'[m].uid
    BY <1>1, <2>3, <2>5 DEF UpToDate
  <2> QED  BY <2>7, <2>8, <2>9, <2>10 DEF UpToDate
<1> QED  BY <1>6, <1>7

\* What has been told, and to what the goroutine attends.
LEMMA Known ==
    ASSUME Types
    PROVE  /\ \A c \in Callbacks : Told(c) \subseteq Messages
           /\ \A m \in Messages : m.uid \in Uids /\ m.uid \in Nat /\ m.uid > 0 /\ m.version \in Nat
           /\ \A i \in DOMAIN userEv : i \in Nat /\ userEv[i] \in Events
           /\ \A x \in Events : /\ x.obj \in UserObj /\ x.name \in Names
                                /\ x.type \in {"ADDED", "MODIFIED", "DELETED"}
           /\ nextUid \in Nat
<1>1. \A c \in Callbacks : Told(c) \subseteq Messages  BY DEF Types, Told
<1>2. \A m \in Messages : m.uid \in Uids /\ m.uid \in Nat /\ m.uid > 0 /\ m.version \in Nat
  BY UserWatchAssumption DEF Messages, Uids
<1>3. \A i \in DOMAIN userEv : i \in Nat /\ userEv[i] \in Events  BY DEF Types
<1>4. \A x \in Events : /\ x.obj \in UserObj /\ x.name \in Names
                        /\ x.type \in {"ADDED", "MODIFIED", "DELETED"}
  BY DEF Events
<1>5. nextUid \in Nat  BY UserWatchAssumption DEF Types
<1> QED  BY <1>1, <1>2, <1>3, <1>4, <1>5

\* An announced user has been created.
LEMMA AnnouncedUid ==
    ASSUME WInv, NEW u \in Uids, Announced(u)
    PROVE  u < nextUid
BY DEF WInv, Announced, Objects, Stream, UpToDate

\* The new event is up to date, and of no other user of the moment.
LEMMA ChangeNew ==
    ASSUME Types, Types', Objects, NEW n \in Names, NEW v \in UserObj \cup {NoUser},
           NEW e \in Events, Change(n, v, e)
    PROVE  /\ \A m \in Names : m # n => user[m].uid # e.obj.uid
           /\ UpToDate(e)'
           /\ nextUid' \in Nat /\ e.obj.uid \in Nat /\ e.obj.uid > 0
<1>1. /\ user'[n] = v /\ \A m \in Names : m # n => user'[m] = user[m]
      /\ \A m \in Names : user[m] \in UserObj \cup {NoUser}
      /\ e.obj \in UserObj /\ e.name = n
  BY ChangeObjects
<1>2. e.obj.uid \in Nat /\ e.obj.uid > 0 /\ e.obj.version \in Nat  BY <1>1, Uid
<1>3. nextUid \in Nat /\ nextUid' \in Nat  BY UserWatchAssumption DEF Types
<1>4. \A m \in Names : user[m].uid \in Nat /\ user[m].uid < nextUid  BY <1>1, Uid DEF Objects
<1>5. \A m \in Names : m # n => user[m].uid # e.obj.uid
  <2>1. CASE user[n] = NoUser
    <3>1. e.obj.uid = nextUid  BY <2>1 DEF Change
    <3> QED  BY <1>3, <1>4, <3>1
  <2>2. CASE user[n] # NoUser
    <3>1. e.obj.uid = user[n].uid  BY <2>2 DEF Change
    <3> QED  BY <2>2, <3>1 DEF Objects
  <2> QED  BY <2>1, <2>2
<1>6. v # NoUser => v = e.obj /\ e.type # "DELETED"  BY DEF Change
<1>7. \A m \in Names : user'[m].uid = e.obj.uid =>
          /\ e.name = m /\ e.type # "DELETED" /\ e.obj.version <= user'[m].version
          /\ e.obj.wizard = "completed" => user'[m].wizard = "completed"
  <2> TAKE m \in Names
  <2> HAVE user'[m].uid = e.obj.uid
  <2>1. m = n  BY <1>1, <1>5
  <2>2. v # NoUser  BY <1>1, <1>2, <2>1, Uid
  <2> QED  BY <1>1, <1>2, <1>6, <2>1, <2>2
<1>8. \A m \in Names : user'[m] # NoUser /\ e.name = m => e.obj.uid <= user'[m].uid
  BY <1>1, <1>2, <1>6
<1>9. e.obj.uid < nextUid'  BY DEF Change
<1> QED  BY <1>2, <1>3, <1>5, <1>7, <1>8, <1>9 DEF UpToDate

\* A change keeps the order of the events.
LEMMA ChangeStream ==
    ASSUME WInv, Types', NEW n \in Names, NEW v \in UserObj \cup {NoUser}, NEW e \in Events,
           Change(n, v, e)
    PROVE  Stream'
<1>1. \A x \in Events : UpToDate(x) => UpToDate(x)' /\ InOrder(x, e)
  BY ChangeOlder DEF WInv
<1>2. UpToDate(e)'  BY ChangeNew DEF WInv
<1>3. \A i \in DOMAIN userEv' :
         /\ i \in Nat /\ \A j \in DOMAIN userEv : j \in Nat
         /\ \/ i \in DOMAIN userEv /\ userEv'[i] = userEv[i]
            \/ userEv'[i] = e /\ \A j \in DOMAIN userEv : j < i
  BY ChangeEvents DEF WInv, Change
<1>4. \A i \in DOMAIN userEv : userEv[i] \in Events /\ UpToDate(userEv[i])
  BY Known DEF WInv, Stream
<1>5. \A i \in DOMAIN userEv' : UpToDate(userEv[i])'
  <2> TAKE i \in DOMAIN userEv'
  <2>1. PICK x : x = userEv'[i]  OBVIOUS
  <2>2. UpToDate(x)'
    <3>1. CASE i \in DOMAIN userEv /\ userEv'[i] = userEv[i]
      BY <1>1, <1>4, <2>1, <3>1
    <3>2. CASE userEv'[i] = e  BY <1>2, <2>1, <3>2
    <3> QED  BY <1>3, <3>1, <3>2
  <2> QED  BY <2>1, <2>2 DEF UpToDate
<1>6. \A i, j \in DOMAIN userEv' : i < j => InOrder(userEv'[i], userEv'[j])
  <2> TAKE i, j \in DOMAIN userEv'
  <2> HAVE i < j
  <2>1. i \in Nat /\ j \in Nat  BY <1>3
  <2>2. CASE j \in DOMAIN userEv /\ userEv'[j] = userEv[j]
    <3>1. ~ (\A k \in DOMAIN userEv : k < i)  BY <1>3, <2>1, <2>2
    <3>2. i \in DOMAIN userEv /\ userEv'[i] = userEv[i]  BY <1>3, <3>1
    <3> QED  BY <2>2, <3>2 DEF WInv, Stream
  <2>3. CASE userEv'[j] = e /\ \A k \in DOMAIN userEv : k < j
    <3>1. CASE i \in DOMAIN userEv /\ userEv'[i] = userEv[i]
      BY <1>1, <1>4, <2>3, <3>1
    <3>2. CASE userEv'[i] = e /\ \A k \in DOMAIN userEv : k < i
      <4>1. userEv \in Seq(Events) /\ Len(userEv) \in Nat /\ DOMAIN userEv = 1 .. Len(userEv)
        BY DEF WInv, Types
      <4>2. i > Len(userEv) /\ i >= 1
        <5>1. CASE Len(userEv) = 0
          <6>1. userEv' \in Seq(Events)  BY DEF WInv, Types
          <6> QED  BY <2>1, <5>1, <6>1
        <5>2. CASE Len(userEv) # 0
          <6>1. Len(userEv) \in DOMAIN userEv  BY <4>1, <5>2
          <6> QED  BY <2>1, <3>2, <4>1, <5>2, <6>1
        <5> QED  BY <5>1, <5>2
      <4>3. j <= Len(userEv) + 1
        <5>1. CASE open
          <6>1. DOMAIN userEv' = 1 .. Len(userEv) + 1
            BY <4>1, <5>1, Extended DEF Change, Watched
          <6> QED  BY <2>1, <4>1, <6>1
        <5>2. CASE ~open  BY <2>1, <4>1, <5>2 DEF Change, Watched
        <5> QED  BY <5>1, <5>2
      <4> QED  BY <2>1, <4>1, <4>2, <4>3
    <3> QED  BY <1>3, <3>1, <3>2
  <2> QED  BY <1>3, <2>2, <2>3
<1>7. ASSUME InCall'
      PROVE  UpToDate(job.ev)' /\ \A i \in DOMAIN userEv' : InOrder(job'.ev, userEv'[i])
  <2>1. InCall /\ job' = job /\ job.ev \in Events  BY <1>7 DEF Change, InCall, WInv, Types
  <2>2. PICK x : x = job.ev  OBVIOUS
  <2>3. UpToDate(x) /\ \A i \in DOMAIN userEv : InOrder(x, userEv[i])
    BY <2>1, <2>2 DEF WInv, Stream
  <2>4. UpToDate(x)' /\ InOrder(x, e)  BY <1>1, <2>1, <2>2, <2>3
  <2>5. UpToDate(job.ev)'  BY <2>1, <2>2, <2>4 DEF UpToDate
  <2> QED  BY <1>3, <2>1, <2>2, <2>3, <2>4, <2>5
<1> QED  BY <1>5, <1>6, <1>7 DEF Stream

\* A change keeps uids apart.
LEMMA ChangeUids ==
    ASSUME WInv, Types', NEW n \in Names, NEW v \in UserObj \cup {NoUser}, NEW e \in Events,
           Change(n, v, e)
    PROVE  Objects'
<1>1. /\ user'[n] = v /\ \A m \in Names : m # n => user'[m] = user[m]
      /\ \A m \in Names : user[m] \in UserObj \cup {NoUser}
  BY ChangeObjects DEF WInv
<1>2. /\ \A m \in Names : m # n => user[m].uid # e.obj.uid
      /\ nextUid' \in Nat /\ e.obj.uid \in Nat /\ e.obj.uid > 0
  BY ChangeNew DEF WInv
<1>3. /\ nextUid <= nextUid' /\ e.obj.uid < nextUid'
      /\ v # NoUser => v = e.obj
      /\ job' = job /\ got' = got
  BY DEF Change
<1>4. nextUid \in Nat  BY UserWatchAssumption DEF WInv, Types
<1>5. \A m \in Names : user[m].uid \in Nat /\ user[m].uid < nextUid
  BY <1>1, Uid DEF WInv, Objects
<1>6. \A m \in Names : user'[m].uid < nextUid'
  BY <1>1, <1>2, <1>3, <1>4, <1>5, Uid
<1>7. \A k, m \in Names : user'[k] # NoUser /\ user'[k].uid = user'[m].uid => k = m
  <2> TAKE k, m \in Names
  <2> HAVE user'[k] # NoUser /\ user'[k].uid = user'[m].uid
  <2>1. CASE k # n /\ m # n  BY <1>1, <2>1 DEF WInv, Objects
  <2>2. CASE k = n /\ m # n
    <3>1. v # NoUser  BY <1>1, <2>2
    <3>2. user'[k].uid = e.obj.uid  BY <1>1, <1>3, <2>2, <3>1
    <3> QED  BY <1>1, <1>2, <2>2, <3>2
  <2>3. CASE k # n /\ m = n
    <3>1. user[k] \in UserObj /\ user[k].uid = v.uid  BY <1>1, <2>3
    <3>2. v # NoUser  BY <3>1, Uid
    <3> QED  BY <1>2, <1>3, <2>3, <3>1, <3>2
  <2> QED  BY <2>1, <2>2, <2>3
<1>8. \A c \in Callbacks : \A m \in Told(c)' : m.uid < nextUid'
  <2> TAKE c \in Callbacks
  <2> TAKE m \in Told(c)'
  <2>1. m \in Told(c)  BY <1>3 DEF Told
  <2>2. m.uid \in Nat /\ m.uid < nextUid  BY <2>1, Known DEF WInv, Objects
  <2> QED  BY <1>2, <1>3, <1>4, <2>2
<1>9. job'.do = "users" => \A x \in job'.users : x.type = "ADDED" /\ x.obj.uid < nextUid'
  <2> HAVE job'.do = "users"
  <2> TAKE x \in job'.users
  <2>1. x \in Events /\ x.type = "ADDED" /\ x.obj.uid < nextUid
    BY <1>3 DEF WInv, Objects, Types, Jobs
  <2>2. x.obj.uid \in Nat  BY <2>1, Uid DEF Events
  <2> QED  BY <1>2, <1>3, <1>4, <2>1, <2>2
<1> QED  BY <1>6, <1>7, <1>8, <1>9 DEF Objects

\* A change brings no deleted user back.
LEMMA ChangeBurials ==
    ASSUME WInv, Types', NEW n \in Names, NEW v \in UserObj \cup {NoUser}, NEW e \in Events,
           Change(n, v, e)
    PROVE  Burials'
<1> SUFFICES ASSUME NEW c \in Callbacks, NEW m \in Told(c)', m.what = "DELETED"
             PROVE  Buried(c, m)'
  BY DEF Burials
<1>1. /\ user'[n] = v /\ \A k \in Names : k # n => user'[k] = user[k]
  BY ChangeObjects DEF WInv
<1>2. job' = job /\ got' = got /\ (v # NoUser => v = e.obj)  BY DEF Change
<1>3. m \in Told(c)  BY <1>2 DEF Told
<1>4. Buried(c, m) /\ m.uid \in Nat /\ m.uid > 0 /\ m.uid < nextUid
  BY <1>3, Known DEF WInv, Burials, Objects
<1>5. e.obj.uid # m.uid
  <2>1. nextUid \in Nat  BY Known DEF WInv
  <2> QED  BY <1>4, <2>1 DEF Change, Buried
<1>6. \A k \in Names : user'[k].uid # m.uid
  BY <1>1, <1>2, <1>4, <1>5, Uid DEF Buried
<1>7. \A i \in DOMAIN userEv' : userEv'[i].obj.uid # m.uid
  <2> TAKE i \in DOMAIN userEv'
  <2>1. (i \in DOMAIN userEv /\ userEv'[i] = userEv[i]) \/ userEv'[i] = e
    BY ChangeEvents DEF WInv, Change
  <2> QED  BY <1>4, <1>5, <2>1 DEF Buried
<1>8. /\ job'.do = "users" => \A x \in job'.users : x.obj.uid # m.uid
      /\ InCall' /\ job'.ev.obj.uid = m.uid =>
            job'.ev.type = "DELETED" /\ (Due(c)' => Repeated(m)')
  BY <1>2, <1>4 DEF Buried, InCall, Due, Repeated
<1> QED  BY <1>6, <1>7, <1>8 DEF Buried

\* A change leaves an announced user settled.
LEMMA ChangeSettled ==
    ASSUME WInv, Types', NEW n \in Names, NEW v \in UserObj \cup {NoUser}, NEW e \in Events,
           Change(n, v, e), NEW u \in Uids, u < nextUid, Settled(u)
    PROVE  Settled(u)'
<1>1. /\ user'[n] = v /\ \A k \in Names : k # n => user'[k] = user[k]
      /\ \A m \in Names : user[m] \in UserObj \cup {NoUser}
      /\ e.name = n
  BY ChangeObjects DEF WInv
<1>2. /\ activing' = activing /\ (v # NoUser => v = e.obj)  BY DEF Change
<1>3. /\ nextUid \in Nat /\ u \in Nat /\ u > 0 /\ e.obj.uid \in Nat
      /\ \A x \in Events : x.obj.uid \in Nat
  BY UserWatchAssumption, Known, Uid DEF WInv, Uids
<1>4. \A i \in DOMAIN userEv' :
         (i \in DOMAIN userEv /\ userEv'[i] = userEv[i]) \/ userEv'[i] = e
  BY ChangeEvents DEF WInv, Change
<1>5. e.obj.uid = u => user[n] # NoUser /\ user[n].uid = u /\ e.obj.wizard = "completed"
  BY <1>3 DEF Change, Settled
<1>6. ASSUME NEW k \in Names, user'[k].uid = u
      PROVE  /\ user'[k].wizard = "completed" /\ k \notin activing'
             /\ \A i \in DOMAIN userEv' : userEv'[i].name = k => userEv'[i].obj.uid >= u
  <2>1. CASE k # n
    <3>1. user'[k] = user[k]  BY <1>1, <2>1
    <3> QED  BY <1>1, <1>2, <1>4, <1>6, <2>1, <3>1 DEF Settled
  <2>2. CASE k = n
    <3>1. v # NoUser  BY <1>1, <1>3, <1>6, <2>2, Uid
    <3>2. e.obj.uid = u /\ user'[k] = e.obj  BY <1>1, <1>2, <1>6, <2>2, <3>1
    <3> QED  BY <1>2, <1>3, <1>4, <1>5, <2>2, <3>2 DEF Settled
  <2> QED  BY <2>1, <2>2
<1>7. ASSUME NEW i \in DOMAIN userEv', userEv'[i].obj.uid = u
      PROVE  /\ userEv'[i].obj.wizard = "completed" /\ userEv'[i].name \notin activing'
             /\ \A j \in DOMAIN userEv' : userEv'[j].name = userEv'[i].name
                                           => userEv'[j].obj.uid >= u
  <2>1. CASE i \in DOMAIN userEv /\ userEv'[i] = userEv[i]
    <3>1. /\ userEv[i].obj.wizard = "completed" /\ userEv[i].name \notin activing
          /\ \A j \in DOMAIN userEv : userEv[j].name = userEv[i].name => userEv[j].obj.uid >= u
      BY <1>7, <2>1 DEF Settled
    <3>2. e.name = userEv[i].name => e.obj.uid >= u
      <4>1. UpToDate(userEv[i])  BY <2>1 DEF WInv, Stream
      <4>2. user[n] # NoUser /\ n = userEv[i].name => u <= user[n].uid
        BY <1>7, <2>1, <4>1 DEF UpToDate
      <4> QED  BY <1>1, <1>3, <4>2 DEF Change
    <3> QED  BY <1>2, <1>4, <2>1, <3>1, <3>2
  <2>2. CASE userEv'[i] = e
    <3>1. user[n].uid = u /\ e.obj.wizard = "completed"  BY <1>5, <1>7, <2>2
    <3>2. /\ n \notin activing
          /\ \A j \in DOMAIN userEv : userEv[j].name = n => userEv[j].obj.uid >= u
      BY <3>1 DEF Settled
    <3> QED  BY <1>1, <1>2, <1>3, <1>4, <1>7, <2>2, <3>1, <3>2
  <2> QED  BY <1>4, <2>1, <2>2
<1> QED  BY <1>6, <1>7 DEF Settled

\* All of it.
LEMMA ChangeKeeps ==
    ASSUME WInv, Types', NEW n \in Names, NEW v \in UserObj \cup {NoUser}, NEW e \in Events,
           Change(n, v, e)
    PROVE  WInv'
<1>1. Stream'  BY ChangeStream
<1>2. Objects'  BY ChangeUids
<1>3. Burials'  BY ChangeBurials
<1>4. job' = job /\ got' = got  BY DEF Change
<1>5. \A u \in Uids : Announced(u)' => Announced(u)
  BY <1>4 DEF Announced, InCall, Told
<1>6. \A u \in Uids : Announced(u)' => Settled(u)'
  BY <1>5, AnnouncedUid, ChangeSettled DEF WInv, Announcements
<1>7. Announcements'
  BY <1>4, <1>6 DEF WInv, Announcements, InCall, Due, Told, Repeated
<1>8. NothingAfterDeleted' /\ ActivatedOnce'
  BY <1>4 DEF WInv, NothingAfterDeleted, ActivatedOnce
<1> QED  BY <1>1, <1>2, <1>3, <1>7, <1>8 DEF WInv

\* What the steps of the cluster leave alone.
LEMMA EnvironmentTypes ==
    ASSUME Types, UNCHANGED <<open, mem_vars, job, got, bound_vars>>,
           user' \in [Names -> UserObj \cup {NoUser}], nextUid' \in 1 .. MaxUids + 1,
           registered' \subseteq Callbacks, userEv' \in Seq(Events), cbEv' \in Seq(Callbacks)
    PROVE  Types'
BY DEF Types, InCall, mem_vars, bound_vars

\* An event is appended to events.
LEMMA WatchedTypes ==
    ASSUME Types, NEW e \in Events, Watched(e)
    PROVE  userEv' \in Seq(Events)
BY DEF Types, Watched

\* A user is created.
LEMMA CreateUserKeeps ==
    ASSUME WInv, NEW n \in Names, CreateUser(n), UNCHANGED <<open, mem_vars, job, got, bound_vars>>
    PROVE  WInv' /\ \E o \in UserObj : Change(n, o, Event("ADDED", n, o)) /\ user[n] = NoUser
<1>0. Types  BY DEF WInv
<1>1. PICK o : o = [uid |-> nextUid, version |-> 1, wizard |-> "none"]  OBVIOUS
<1>2. nextUid \in Uids /\ nextUid \in Nat /\ nextUid' = nextUid + 1 /\ user[n] = NoUser
      /\ nextUid' \in 1 .. MaxUids + 1
  BY <1>0, UserWatchAssumption DEF CreateUser, Types, Uids
<1>3. o \in UserObj /\ o.uid = nextUid
  <2>1. 1 \in 1 .. MaxVersion  BY UserWatchAssumption
  <2> QED  BY <1>1, <1>2, <2>1 DEF UserObj, Wizard
<1>4. PICK e : e = Event("ADDED", n, o)  OBVIOUS
<1>5. e \in Events /\ e.name = n /\ e.obj = o /\ e.type = "ADDED"
  BY <1>3, <1>4 DEF Event, Events
<1>6. user' = [user EXCEPT ![n] = o] /\ Watched(e)
  BY <1>1, <1>4 DEF CreateUser
<1>7. Change(n, o, e)
  BY <1>2, <1>3, <1>5, <1>6 DEF Change, mem_vars
<1>8. Types'
  <2>1. user' \in [Names -> UserObj \cup {NoUser}]  BY <1>0, <1>3, <1>6 DEF Types
  <2>2. userEv' \in Seq(Events)  BY <1>0, <1>5, <1>6, WatchedTypes
  <2>3. registered' \subseteq Callbacks /\ cbEv' \in Seq(Callbacks)
    BY <1>0 DEF CreateUser, Types
  <2> QED  BY <1>0, <1>2, <2>1, <2>2, <2>3, EnvironmentTypes
<1> QED  BY <1>2, <1>3, <1>4, <1>5, <1>7, <1>8, ChangeKeeps

\* A user changes.
LEMMA ModifyUserKeeps ==
    ASSUME WInv, NEW n \in Names, ModifyUser(n), UNCHANGED <<open, mem_vars, job, got, bound_vars>>
    PROVE  WInv' /\ \E o \in UserObj : /\ Change(n, o, Event("MODIFIED", n, o))
                                       /\ user[n] # NoUser /\ user[n].version < o.version
<1>0. Types  BY DEF WInv
<1>1. user[n] \in UserObj /\ user[n] # NoUser  BY <1>0 DEF ModifyUser, Types
<1>2. PICK w \in {user[n].wizard} \cup
                  (IF user[n].wizard = "none" THEN {"started"} ELSE {"completed"}) :
         LET o == [user[n] EXCEPT !.version = @ + 1, !.wizard = w] IN
         user' = [user EXCEPT ![n] = o] /\ Watched(Event("MODIFIED", n, o))
  BY DEF ModifyUser
<1>3. PICK o : o = [user[n] EXCEPT !.version = @ + 1, !.wizard = w]  OBVIOUS
<1>4. /\ o \in UserObj /\ o.uid = user[n].uid /\ o.version = user[n].version + 1
      /\ user[n].version < o.version /\ o.wizard = w
  <2>1. w \in Wizard  BY <1>1 DEF UserObj, Wizard
  <2>2. user[n].version + 1 \in 1 .. MaxVersion /\ user[n].version \in Nat
    BY <1>1, UserWatchAssumption DEF ModifyUser, UserObj
  <2>3. PICK x \in UserObj : x = user[n]  BY <1>1
  <2>4. PICK k \in 1 .. MaxVersion : k = x.version + 1  BY <2>2, <2>3
  <2>5. o = [x EXCEPT !.version = k, !.wizard = w]  BY <1>3, <2>3, <2>4
  <2>6. o \in UserObj  BY <2>1, <2>5 DEF UserObj
  <2>7. o.uid = x.uid /\ o.version = k /\ o.wizard = w  BY <2>5 DEF UserObj
  <2> QED  BY <2>2, <2>3, <2>4, <2>6, <2>7
<1>5. user[n].wizard = "completed" => o.wizard = "completed"  BY <1>4
<1>6. PICK e : e = Event("MODIFIED", n, o)  OBVIOUS
<1>7. e \in Events /\ e.name = n /\ e.obj = o /\ e.type = "MODIFIED"
  BY <1>4, <1>6 DEF Event, Events
<1>8. user' = [user EXCEPT ![n] = o] /\ Watched(e) /\ nextUid' = nextUid
  BY <1>2, <1>3, <1>6 DEF ModifyUser
<1>9. nextUid \in Nat /\ user[n].uid < nextUid  BY <1>0, Known DEF WInv, Objects
<1>10. Change(n, o, e)
  <2>1. user[n].version \in Nat /\ o.version \in Nat  BY <1>1, <1>4, Uid
  <2> QED  BY <1>1, <1>4, <1>5, <1>7, <1>8, <1>9, <2>1 DEF Change, mem_vars
<1>11. Types'
  <2>1. user' \in [Names -> UserObj \cup {NoUser}]  BY <1>0, <1>4, <1>8 DEF Types
  <2>2. userEv' \in Seq(Events)  BY <1>0, <1>7, <1>8, WatchedTypes
  <2>3. registered' \subseteq Callbacks /\ cbEv' \in Seq(Callbacks) /\ nextUid' \in 1 .. MaxUids + 1
    BY <1>0 DEF ModifyUser, Types
  <2> QED  BY <1>0, <2>1, <2>2, <2>3, EnvironmentTypes
<1> QED  BY <1>1, <1>4, <1>6, <1>7, <1>10, <1>11, ChangeKeeps

\* A user is deleted.
LEMMA DeleteUserKeeps ==
    ASSUME WInv, NEW n \in Names, DeleteUser(n), UNCHANGED <<open, mem_vars, job, got, bound_vars>>
    PROVE  /\ WInv' /\ user[n] \in UserObj
           /\ \A e : e = Event("DELETED", n, user[n]) => Change(n, NoUser, e)
<1>0. Types  BY DEF WInv
<1>1. user[n] \in UserObj /\ user[n] # NoUser  BY <1>0 DEF DeleteUser, Types
<1>2. PICK e : e = Event("DELETED", n, user[n])  OBVIOUS
<1>3. e \in Events /\ e.name = n /\ e.obj = user[n] /\ e.type = "DELETED"
  BY <1>1, <1>2 DEF Event, Events
<1>4. user' = [user EXCEPT ![n] = NoUser] /\ Watched(e) /\ nextUid' = nextUid
  BY <1>2 DEF DeleteUser
<1>5. nextUid \in Nat /\ user[n].uid < nextUid  BY <1>0, Known DEF WInv, Objects
<1>6. Change(n, NoUser, e)
  <2>1. user[n].version \in Nat  BY <1>1, Uid
  <2> QED  BY <1>1, <1>3, <1>4, <1>5, <2>1 DEF Change, mem_vars
<1>7. Types'
  <2>1. user' \in [Names -> UserObj \cup {NoUser}]  BY <1>0, <1>4 DEF Types
  <2>2. userEv' \in Seq(Events)  BY <1>0, <1>3, <1>4, WatchedTypes
  <2>3. registered' \subseteq Callbacks /\ cbEv' \in Seq(Callbacks) /\ nextUid' \in 1 .. MaxUids + 1
    BY <1>0 DEF DeleteUser, Types
  <2> QED  BY <1>0, <2>1, <2>2, <2>3, EnvironmentTypes
<1> QED  BY <1>1, <1>2, <1>3, <1>6, <1>7, ChangeKeeps

\* A callback is registered.
LEMMA RegisterKeeps ==
    ASSUME WInv, NEW c \in Callbacks, Register(c),
           UNCHANGED <<open, mem_vars, job, got, bound_vars>>
    PROVE  WInv'
<1>0. Types  BY DEF WInv
<1>1. Types'
  <2>1. registered' \subseteq Callbacks /\ cbEv' \in Seq(Callbacks)
    BY <1>0 DEF Register, Types
  <2>2. user' = user /\ nextUid' = nextUid /\ userEv' = userEv  BY DEF Register
  <2> QED  BY <1>0, <2>1, <2>2, EnvironmentTypes DEF Types
<1>2. UNCHANGED <<user, nextUid, got, userEv, job, activing>>  BY DEF Register, mem_vars
<1>3. Rest(0)
  BY <1>0, <1>2 DEF Rest, Types
<1>4. SameCall /\ UsersKnown
  BY <1>2 DEF SameCall, UsersKnown, InCall, Due
<1> QED  BY <1>1, <1>2, <1>3, <1>4, RestKeeps

----------------------------------------------------------------------------
(* The goroutine.                                                          *)

\* A goroutine that waits for events does nothing else.
LEMMA IdleJob ==
    /\ Idle \in Jobs /\ Idle.do = "idle" /\ Idle.list = {} /\ Idle.users = {} /\ Idle.cb = 0
    /\ job' = Idle => ~InCall' /\ SameCall /\ UsersKnown
<1>1. Idle \in Jobs /\ Idle.do = "idle" /\ Idle.list = {} /\ Idle.users = {} /\ Idle.cb = 0
  BY DEF Idle, Jobs
<1>2. ASSUME job' = Idle  PROVE ~InCall' /\ SameCall /\ UsersKnown
  BY <1>1, <1>2 DEF InCall, SameCall, UsersKnown, Due
<1> QED  BY <1>1, <1>2

\* What waits is the rest of what waited, if it is that, all but the first, or nothing.
LEMMA RestOf ==
    ASSUME Types
    PROVE  /\ userEv' = userEv => Rest(0)
           /\ userEv # <<>> /\ userEv' = Tail(userEv) => Rest(1)
           /\ userEv' = <<>> => Rest(0)
<1>1. userEv' = userEv => Rest(0)  BY DEF Rest, Types
<1>2. ASSUME userEv # <<>>, userEv' = Tail(userEv)  PROVE Rest(1)
  <2>1. userEv \in Seq(Events)  BY DEF Types
  <2> QED  BY <1>2, <2>1, Shortened DEF Rest
<1>3. userEv' = <<>> => Rest(0)  BY DEF Rest
<1> QED  BY <1>1, <1>2, <1>3

\* The watches are opened: every user of the moment is reported, in some order.
LEMMA OpenEvents ==
    ASSUME Types, NEW s \in SetToSeqs(Existing), userEv' = AsAdded(s)
    PROVE  /\ userEv' \in Seq(Events)
           /\ \A i \in DOMAIN userEv' : /\ userEv'[i].name \in Existing
                                        /\ userEv'[i].obj = user[userEv'[i].name]
                                        /\ userEv'[i].type = "ADDED"
           /\ \A i, j \in DOMAIN userEv' : i # j => userEv'[i].name # userEv'[j].name
<1>1. IsFiniteSet(Existing)
  <2>1. Existing \subseteq Names  BY DEF Existing
  <2> QED  BY <2>1, UserWatchAssumption, FS_Subset
<1>2. s \in Seq(Existing) /\ \A i, j \in DOMAIN s : i # j => s[i] # s[j]
  BY <1>1, Listed
<1>3. userEv' = [k \in DOMAIN s |-> Event("ADDED", s[k], user[s[k]])]
  BY DEF AsAdded
<1>4. \A k \in DOMAIN s : /\ s[k] \in Existing
                          /\ userEv'[k] = Event("ADDED", s[k], user[s[k]])
  BY <1>2, <1>3
<1>5. \A k \in DOMAIN s : /\ userEv'[k] \in Events /\ userEv'[k].name = s[k]
                          /\ userEv'[k].obj = user[s[k]] /\ userEv'[k].type = "ADDED"
  <2> TAKE k \in DOMAIN s
  <2>1. s[k] \in Names /\ user[s[k]] \in UserObj  BY <1>4, ExistingObj
  <2>2. PICK n \in Names : n = s[k]  BY <2>1
  <2>3. PICK o \in UserObj : o = user[s[k]]  BY <2>1
  <2>4. PICK e : e = userEv'[k]  OBVIOUS
  <2>5. e = [type |-> "ADDED", name |-> n, obj |-> o]  BY <1>4, <2>2, <2>3, <2>4 DEF Event
  <2>6. e \in Events /\ e.name = n /\ e.obj = o /\ e.type = "ADDED"  BY <2>5 DEF Events
  <2> QED  BY <2>2, <2>3, <2>4, <2>6
<1>6. PICK l \in Nat : DOMAIN s = 1 .. l  BY <1>2
<1>7. userEv' \in Seq(Events)
  <2>1. userEv' \in [1 .. l -> Events]
    BY <1>3, <1>5, <1>6
  <2> QED  BY <2>1
<1>8. DOMAIN userEv' = DOMAIN s  BY <1>3
<1> QED  BY <1>2, <1>4, <1>5, <1>7, <1>8

\* What they report is right, and nobody deleted is among them.
LEMMA OpenWatchesKeeps ==
    ASSUME WInv, OpenWatches
    PROVE  WInv'
<1>0. Types /\ Objects  BY DEF WInv
<1>1. /\ job = Idle /\ job' = Idle /\ open' = TRUE
      /\ UNCHANGED <<user, nextUid, registered, cacheUser, cacheCb, activing, got, faults,
                     restarts>>
  BY DEF OpenWatches, env_vars, mem_vars, bound_vars
<1>2. PICK s \in SetToSeqs(Existing) : userEv' = AsAdded(s)  BY DEF OpenWatches
<1>3. /\ userEv' \in Seq(Events)
      /\ \A i \in DOMAIN userEv' : /\ userEv'[i].name \in Existing
                                   /\ userEv'[i].obj = user[userEv'[i].name]
                                   /\ userEv'[i].type = "ADDED"
      /\ \A i, j \in DOMAIN userEv' : i # j => userEv'[i].name # userEv'[j].name
  BY <1>0, <1>2, OpenEvents
<1>4. cbEv' \in Seq(Callbacks)
  <2>1. registered \subseteq Callbacks /\ IsFiniteSet(Callbacks)
    <3>1. IsFiniteSet(1 .. NCallbacks)  BY UserWatchAssumption, FS_Interval
    <3> QED  BY <1>0, <3>1 DEF Types, Callbacks
  <2>2. IsFiniteSet(registered)  BY <2>1, FS_Subset
  <2>3. cbEv' \in SetToSeqs(registered)  BY DEF OpenWatches
  <2>4. cbEv' \in Seq(registered)
    <3>1. PICK t : t = cbEv'  OBVIOUS
    <3> QED  BY <2>2, <2>3, <3>1, Listed
  <2> QED  BY <2>1, <2>4
<1>5. ~InCall' /\ job'.do # "users"  BY <1>1, IdleJob
<1>6. Types'
  BY <1>0, <1>1, <1>3, <1>4, <1>5 DEF Types, InCall
<1>7. \A n \in Existing : n \in Names /\ user[n] \in UserObj /\ user[n] # NoUser
  BY <1>0, ExistingObj
<1>8. \A n \in Existing, m \in Names : user[n].uid = user[m].uid => n = m
  BY <1>0, <1>7 DEF Objects
<1>9. \A o \in UserObj : o.uid \in Nat /\ o.version \in Nat  BY Uid
<1>10. Stream'
  <2>1. ASSUME NEW i \in DOMAIN userEv', NEW j \in DOMAIN userEv', i < j
        PROVE  InOrder(userEv'[i], userEv'[j])
    <3>1. i \in Nat /\ j \in Nat  BY <1>3
    <3>2. userEv'[i].name # userEv'[j].name  BY <1>3, <2>1, <3>1
    <3>3. userEv'[i].obj.uid # userEv'[j].obj.uid  BY <1>3, <1>7, <1>8, <3>2
    <3> QED  BY <3>2, <3>3 DEF InOrder
  <2>2. ASSUME NEW i \in DOMAIN userEv'  PROVE UpToDate(userEv[i])'
    <3>1. PICK e : e = userEv'[i]  OBVIOUS
    <3>2. e.name \in Existing /\ e.obj = user[e.name] /\ e.type = "ADDED"  BY <1>3, <3>1
    <3>3. e.obj.uid < nextUid  BY <1>0, <1>7, <3>2 DEF Objects
    <3>4. \A n \in Names : user[n].uid = e.obj.uid => n = e.name  BY <1>8, <3>2
    <3>5. e.obj.version \in Nat /\ e.obj.uid \in Nat  BY <1>7, <1>9, <3>2
    <3>6. UpToDate(e)'  BY <1>1, <3>2, <3>3, <3>4, <3>5 DEF UpToDate
    <3> QED  BY <3>1, <3>6 DEF UpToDate
  <2> QED  BY <1>5, <2>1, <2>2 DEF Stream
<1>11. Burials'
  <2> SUFFICES ASSUME NEW c \in Callbacks, NEW m \in Told(c)', m.what = "DELETED"
               PROVE  Buried(c, m)'
    BY DEF Burials
  <2>1. Buried(c, m)  BY <1>1 DEF WInv, Burials, Told
  <2> QED  BY <1>1, <1>3, <1>5, <1>7, <2>1 DEF Buried
<1>12. \A u \in Uids : Announced(u)' => Settled(u)'
  <2> TAKE u \in Uids
  <2> HAVE Announced(u)'
  <2>1. Settled(u)  BY <1>1, <1>5 DEF Announced, WInv, Announcements, Told
  <2>2. u \in Nat /\ \A i \in DOMAIN userEv' : userEv'[i].obj.uid \in Nat
    BY <1>3, <1>7, <1>9, UserWatchAssumption DEF Uids
  <2>3. \A n \in Names : user'[n].uid = u =>
          /\ user'[n].wizard = "completed" /\ n \notin activing'
          /\ \A i \in DOMAIN userEv' : userEv'[i].name = n => userEv'[i].obj.uid >= u
    BY <1>1, <1>3, <2>1, <2>2 DEF Settled
  <2>4. \A i \in DOMAIN userEv' : userEv'[i].obj.uid = u =>
          /\ userEv'[i].obj.wizard = "completed" /\ userEv'[i].name \notin activing'
          /\ \A j \in DOMAIN userEv' : userEv'[j].name = userEv'[i].name
                                        => userEv'[j].obj.uid >= u
    BY <1>1, <1>3, <1>7, <2>1, <2>2 DEF Settled
  <2> QED  BY <2>3, <2>4 DEF Settled
<1>13. Announcements'  BY <1>5, <1>12 DEF Announcements
<1>14. Objects'  BY <1>1, <1>5, IdleJob, RestObjects
<1>15. NothingAfterDeleted' /\ ActivatedOnce'
  BY <1>1 DEF WInv, NothingAfterDeleted, ActivatedOnce
<1> QED  BY <1>6, <1>10, <1>11, <1>13, <1>14, <1>15 DEF WInv

\* An event is read and nobody is called: a repeated one, or a change that is no activation.
LEMMA ReadOnly ==
    ASSUME WInv, NEW e, userEv # <<>>, e = Head(userEv), userEv' = Tail(userEv),
           job = Idle, job' = Idle, UNCHANGED <<open, cbEv, cacheCb, env_vars, got, bound_vars>>,
           \/ activing' = activing
           \/ activing' = activing \cup {e.name} /\ e.obj.wizard = "started"
    PROVE  WInv'
<1>0. Types  BY DEF WInv
<1>1. userEv \in Seq(Events)  BY <1>0 DEF Types
<1>2. /\ userEv' \in Seq(Events) /\ e \in Events /\ e = userEv[1] /\ 1 \in DOMAIN userEv
      /\ \A i \in DOMAIN userEv' : /\ i \in Nat /\ i >= 1 /\ i + 1 \in DOMAIN userEv
                                   /\ userEv'[i] = userEv[i + 1]
  BY <1>1, Shortened
<1>3. e.name \in Names  BY <1>2 DEF Events
<1>4. ~InCall' /\ SameCall /\ UsersKnown /\ Rest(1)  BY <1>0, IdleJob, RestOf
<1>5. Types'
  BY <1>0, <1>2, <1>3, <1>4, IdleJob DEF Types, InCall, env_vars, bound_vars
<1>6. CASE activing' = activing
  BY <1>4, <1>5, <1>6, RestKeeps DEF env_vars
<1>7. CASE activing' = activing \cup {e.name} /\ e.obj.wizard = "started"
  <2>1. Stream' /\ Burials' /\ Objects'
    BY <1>4, RestStream, RestBurials, RestObjects DEF WInv, env_vars
  <2>2. NothingAfterDeleted' /\ ActivatedOnce'
    BY DEF WInv, NothingAfterDeleted, ActivatedOnce
  <2>3. ASSUME NEW u \in Uids, Announced(u)'  PROVE Settled(u)'
    <3>1. Announced(u)  BY <1>4, <2>3 DEF Announced, Told
    <3>2. Settled(u) /\ u \in Nat
      BY <3>1, UserWatchAssumption DEF WInv, Announcements, Uids
    <3>3. user' = user /\ e.obj.uid \in Nat /\ e.obj.uid # u
      <4>1. e.obj.uid \in Nat  BY <1>0, <1>2, Known, Uid
      <4> QED  BY <1>2, <1>7, <3>2, <4>1 DEF Settled, env_vars
    <3>4. \A n \in Names : user[n].uid = u => n # e.name
      <4> TAKE n \in Names
      <4> HAVE user[n].uid = u
      <4>1. n = e.name => e.obj.uid >= u  BY <1>2, <3>2 DEF Settled
      <4>2. user[n] # NoUser  BY Uid, UserWatchAssumption DEF Uids
      <4>3. n = e.name => e.obj.uid <= u  BY <1>2, <4>2 DEF WInv, Stream, UpToDate
      <4> QED  BY <3>2, <3>3, <4>1, <4>3
    <3>5. \A i \in DOMAIN userEv' : userEv'[i].obj.uid = u => userEv'[i].name # e.name
      <4> TAKE i \in DOMAIN userEv'
      <4> HAVE userEv'[i].obj.uid = u
      <4>1. i + 1 \in DOMAIN userEv /\ userEv'[i] = userEv[i + 1] /\ 1 < i + 1  BY <1>2
      <4>2. userEv[i + 1].name = e.name => e.obj.uid >= u
        BY <1>2, <3>2, <4>1 DEF Settled
      <4>3. InOrder(e, userEv[i + 1])  BY <1>2, <4>1 DEF WInv, Stream
      <4>4. userEv[i + 1].name = e.name => e.obj.uid <= u  BY <4>1, <4>3 DEF InOrder
      <4> QED  BY <3>2, <3>3, <4>1, <4>2, <4>4
    <3>6. \A n \in Names : user'[n].uid = u =>
            /\ user'[n].wizard = "completed" /\ n \notin activing'
            /\ \A i \in DOMAIN userEv' : userEv'[i].name = n => userEv'[i].obj.uid >= u
      BY <1>2, <1>7, <3>2, <3>3, <3>4 DEF Settled
    <3>7. \A i \in DOMAIN userEv' : userEv'[i].obj.uid = u =>
            /\ userEv'[i].obj.wizard = "completed" /\ userEv'[i].name \notin activing'
            /\ \A j \in DOMAIN userEv' : userEv'[j].name = userEv'[i].name
                                          => userEv'[j].obj.uid >= u
      BY <1>2, <1>7, <3>2, <3>5 DEF Settled
    <3> QED  BY <3>6, <3>7 DEF Settled
  <2>4. Announcements'  BY <1>4, <2>3 DEF Announcements
  <2> QED  BY <1>5, <2>1, <2>2, <2>4 DEF WInv
<1> QED  BY <1>6, <1>7

\* An event is read that the callbacks are to hear of.
LEMMA ReadCall ==
    ASSUME WInv, NEW e, userEv # <<>>, e = Head(userEv), userEv' = Tail(userEv),
           job = Idle, job' = [Idle EXCEPT !.do = "list", !.ev = e],
           UNCHANGED <<open, cbEv, cacheCb, env_vars, got, bound_vars>>,
           \/ activing' = activing /\ e.type # "MODIFIED"
           \/ activing' = activing \ {e.name} /\ Activates(e)
    PROVE  WInv'
<1>0. Types  BY DEF WInv
<1>1. userEv \in Seq(Events)  BY <1>0 DEF Types
<1>2. /\ userEv' \in Seq(Events) /\ e \in Events /\ e = userEv[1] /\ 1 \in DOMAIN userEv
      /\ \A i \in DOMAIN userEv' : /\ i \in Nat /\ i >= 1 /\ i + 1 \in DOMAIN userEv
                                   /\ userEv'[i] = userEv[i + 1]
  BY <1>1, Shortened
<1>3. /\ job' \in Jobs /\ job'.do = "list" /\ job'.ev = e
  BY <1>2 DEF Idle, Jobs
<1>4. InCall' /\ job'.do # "users" /\ \A c \in Callbacks : Due(c)'
  BY <1>3 DEF InCall, Due
<1>5. UNCHANGED <<user, nextUid, registered, got, faults, restarts>> /\ ~InCall
      /\ activing' \subseteq activing
  BY IdleJob DEF env_vars, bound_vars, InCall
<1>6. Types'
  BY <1>0, <1>2, <1>3, <1>4, <1>5 DEF Types
<1>7. UpToDate(e) /\ \A i \in DOMAIN userEv' : InOrder(e, userEv'[i])
  <2>1. UpToDate(e)  BY <1>2 DEF WInv, Stream
  <2>2. ASSUME NEW i \in DOMAIN userEv'  PROVE InOrder(e, userEv'[i])
    <3>1. i + 1 \in DOMAIN userEv /\ userEv'[i] = userEv[i + 1] /\ 1 < i + 1  BY <1>2
    <3> QED  BY <1>2, <3>1 DEF WInv, Stream
  <2> QED  BY <2>1, <2>2
<1>8. Rest(1)  BY <1>0, RestOf
<1>9. Stream'
  <2>1. \A x : UpToDate(x)' <=> UpToDate(x)  BY <1>5 DEF UpToDate
  <2>2. ASSUME NEW i \in DOMAIN userEv', NEW j \in DOMAIN userEv', i < j
        PROVE  InOrder(userEv'[i], userEv'[j])
    <3>1. i + 1 \in DOMAIN userEv /\ j + 1 \in DOMAIN userEv /\ i + 1 < j + 1  BY <1>2, <2>2
    <3> QED  BY <1>2, <3>1 DEF WInv, Stream
  <2>3. ASSUME NEW i \in DOMAIN userEv'  PROVE UpToDate(userEv[i])'
    <3>1. PICK x : x = userEv'[i]  OBVIOUS
    <3>2. UpToDate(x)  BY <1>2, <3>1 DEF WInv, Stream
    <3> QED  BY <2>1, <3>1, <3>2 DEF UpToDate
  <2>4. UpToDate(job.ev)'
    <3>1. UpToDate(e)'  BY <1>7, <2>1
    <3> QED  BY <1>3, <3>1 DEF UpToDate
  <2> QED  BY <1>3, <1>7, <2>2, <2>3, <2>4 DEF Stream
<1>10. Burials'
  <2> SUFFICES ASSUME NEW c \in Callbacks, NEW m \in Told(c)', m.what = "DELETED"
               PROVE  Buried(c, m)'
    BY DEF Burials
  <2>1. Buried(c, m)  BY <1>5 DEF WInv, Burials, Told
  <2>2. e.obj.uid # m.uid  BY <1>2, <2>1 DEF Buried
  <2> QED  BY <1>2, <1>3, <1>4, <1>5, <2>1, <2>2 DEF Buried
<1>11. Objects'
  <2>1. UsersKnown  BY <1>4 DEF UsersKnown
  <2> QED  BY <1>5, <2>1, RestObjects
<1>12. ASSUME NEW u \in Uids, Announced(u)'  PROVE Settled(u)'
  <2>1. CASE Announced(u)
    <3>1. Settled(u)  BY <2>1 DEF WInv, Announcements
    <3> QED  BY <1>5, <1>8, <3>1, RestSettled
  <2>2. CASE e.type = "MODIFIED" /\ e.obj.uid = u
    <3>1. activing' = activing \ {e.name} /\ e.obj.wizard = "completed"
      BY <2>2 DEF Activates
    <3>2. \A n \in Names : user'[n].uid = u =>
            /\ user'[n].wizard = "completed" /\ n \notin activing'
            /\ \A i \in DOMAIN userEv' : userEv'[i].name = n => userEv'[i].obj.uid >= u
      <4> TAKE n \in Names
      <4> HAVE user'[n].uid = u
      <4>1. e.name = n /\ user[n].wizard = "completed"
        BY <1>5, <1>7, <2>2, <3>1 DEF UpToDate
      <4>2. \A i \in DOMAIN userEv' : userEv'[i].name = n => userEv'[i].obj.uid >= u
        BY <1>0, <1>2, <1>7, <2>2, <4>1, Known, Uid DEF InOrder
      <4> QED  BY <1>5, <3>1, <4>1, <4>2
    <3>3. \A i \in DOMAIN userEv' : userEv'[i].obj.uid = u =>
            /\ userEv'[i].obj.wizard = "completed" /\ userEv'[i].name \notin activing'
            /\ \A j \in DOMAIN userEv' : userEv'[j].name = userEv'[i].name
                                          => userEv'[j].obj.uid >= u
      <4> TAKE i \in DOMAIN userEv'
      <4> HAVE userEv'[i].obj.uid = u
      <4>1. userEv'[i].name = e.name /\ userEv'[i].obj.wizard = "completed"
        BY <1>7, <2>2, <3>1 DEF InOrder
      <4>2. \A j \in DOMAIN userEv' : userEv'[j].name = e.name => userEv'[j].obj.uid >= u
        BY <1>0, <1>2, <1>7, <2>2, Known, Uid DEF InOrder
      <4> QED  BY <3>1, <4>1, <4>2
    <3> QED  BY <3>2, <3>3 DEF Settled
  <2> QED  BY <1>3, <1>5, <1>12, <2>1, <2>2 DEF Announced, Told
<1>13. ASSUME job'.ev.type = "MODIFIED", NEW c \in Callbacks,
              NEW m \in Told(c)', m.what = "MODIFIED"
       PROVE  m.uid # job'.ev.obj.uid
  <2>1. Activates(e)  BY <1>3, <1>13
  <2>2. m \in Told(c) /\ m.uid \in Uids
    <3>1. m \in Told(c)  BY <1>5 DEF Told
    <3> QED  BY <1>0, <3>1, Known
  <2>3. Announced(m.uid)
    <3>1. PICK u : u = m.uid  OBVIOUS
    <3>2. Announced(u)  BY <1>13, <2>2, <3>1 DEF Announced
    <3> QED  BY <3>1, <3>2
  <2>4. Settled(m.uid)
    <3>1. PICK u \in Uids : u = m.uid  BY <2>2
    <3>2. Settled(u)  BY <2>3, <3>1 DEF WInv, Announcements
    <3> QED  BY <3>1, <3>2
  <2> QED  BY <1>2, <1>3, <2>1, <2>4 DEF Settled, Activates
<1>14. Announcements'  BY <1>12, <1>13 DEF Announcements
<1>15. NothingAfterDeleted' /\ ActivatedOnce'
  BY <1>5 DEF WInv, NothingAfterDeleted, ActivatedOnce
<1> QED  BY <1>6, <1>9, <1>10, <1>11, <1>14, <1>15 DEF WInv

\* An event is read.
LEMMA ReadUserEventKeeps ==
    ASSUME WInv, ReadUserEvent
    PROVE  WInv'
<1>1. PICK e : e = Head(userEv)  OBVIOUS
<1>2. /\ open /\ job = Idle /\ userEv # <<>> /\ userEv' = Tail(userEv)
      /\ UNCHANGED <<env_vars, open, cbEv, got, bound_vars>>
  BY DEF ReadUserEvent
<1>3. CASE IsDupEvent(e)
  <2>1. UNCHANGED <<job, mem_vars>>  BY <1>1, <1>3 DEF ReadUserEvent
  <2> QED  BY <1>1, <1>2, <2>1, ReadOnly DEF mem_vars
<1>4. CASE ~IsDupEvent(e)
  <2>1. /\ activing' = Activing(e) /\ UNCHANGED cacheCb
        /\ IF e.type # "MODIFIED" \/ Activates(e)
           THEN job' = [Idle EXCEPT !.do = "list", !.ev = e] /\ UNCHANGED cacheUser
           ELSE EventRecord(e) /\ UNCHANGED job
    BY <1>1, <1>4 DEF ReadUserEvent
  <2>2. CASE e.type # "MODIFIED" \/ Activates(e)
    <3>1. \/ activing' = activing /\ e.type # "MODIFIED"
          \/ activing' = activing \ {e.name} /\ Activates(e)
      BY <2>1, <2>2 DEF Activing
    <3> QED  BY <1>1, <1>2, <2>1, <2>2, <3>1, ReadCall
  <2>3. CASE ~(e.type # "MODIFIED" \/ Activates(e))
    <3>1. \/ activing' = activing
          \/ activing' = activing \cup {e.name} /\ e.obj.wizard = "started"
      BY <2>1, <2>3 DEF Activing
    <3> QED  BY <1>1, <1>2, <2>1, <2>3, <3>1, ReadOnly
  <2> QED  BY <2>2, <2>3
<1> QED  BY <1>3, <1>4

\* A call that is repeated.
LEMMA RepeatedAgain ==
    ASSUME NEW m \in Messages, Repeated(m), job.ev \in Events, NEW ok \in BOOLEAN
    PROVE  Again(m, Message(job.ev, "user", ok))
<1>1. PICK n : n = Message(job.ev, "user", ok)  OBVIOUS
<1>2. n = [what |-> job.ev.type, uid |-> job.ev.obj.uid, version |-> job.ev.obj.version,
           by |-> "user", ok |-> ok]
  BY <1>1 DEF Message
<1>3. m = [what |-> m.what, uid |-> m.uid, version |-> m.version, by |-> m.by, ok |-> m.ok]
  BY DEF Messages
<1>4. [m EXCEPT !.ok = ok]
        = [what |-> m.what, uid |-> m.uid, version |-> m.version, by |-> m.by, ok |-> ok]
  BY <1>3
<1>5. n.ok = ok  BY <1>2
<1> QED  BY <1>1, <1>2, <1>4, <1>5 DEF Repeated, Again

\* A callback is called; who is told of a deletion will hear no more of the user, unless
\* the call failed and is made again.
LEMMA CallMade ==
    ASSUME WInv, Calling, NEW ok \in BOOLEAN, CallNext(ok),
           UNCHANGED <<user, nextUid, registered, open, userEv, cbEv, cacheCb, activing,
                       restarts>>,
           faults' \in Nat,
           \/ ok /\ job' = [job EXCEPT !.list = @ \ {Min(@)}]
           \/ ~ok /\ job' \in {job, Idle}
    PROVE  /\ WInv'
           /\ \E c \in Callbacks : /\ Due(c) /\ (ok => ~Due(c)')
                                   /\ Tell(c, job.ev, "user", ok) /\ InCall /\ (ok => InCall')
                                   /\ (InCall' => job'.ev = job.ev) /\ job.ev \in Events
<1>0. Types  BY DEF WInv
<1>1. PICK e : e = job.ev  OBVIOUS
<1>2. job \in Jobs /\ job.do = "call" /\ job.list # {} /\ InCall /\ e \in Events
      /\ job.list \subseteq Callbacks
  BY <1>0, <1>1 DEF Calling, InCall, Types, Jobs
<1>3. PICK c \in job.list : c = Min(job.list)
  <2>1. job.list \subseteq Nat  BY <1>2, UserWatchAssumption DEF Callbacks
  <2> QED  BY <1>2, <2>1, MinIn
<1>4. c \in Callbacks  BY <1>2
<1>6. /\ job' \in Jobs /\ job'.do # "users" /\ (InCall' => job'.ev = e)
      /\ (ok => InCall' /\ ~Due(c)')
      /\ \A d \in Callbacks : Due(d)' => Due(d)
  <2>1. CASE ok
    <3>1. PICK l : l = job.list \ {c}  OBVIOUS
    <3>2. job' = [job EXCEPT !.list = l] /\ l \subseteq Callbacks  BY <1>2, <1>3, <2>1, <3>1
    <3>3. job' \in Jobs /\ job'.do = "call" /\ job'.ev = job.ev /\ job'.list = l
      BY <1>2, <3>2 DEF Jobs
    <3> QED  BY <1>1, <1>2, <3>1, <3>3 DEF InCall, Due
  <2>2. CASE ~ok /\ job' = job  BY <1>1, <1>2, <2>2 DEF Due
  <2>3. CASE ~ok /\ job' = Idle
    <3>1. job' \in Jobs /\ job'.do # "users" /\ ~InCall' /\ SameCall  BY <2>3, IdleJob
    <3> QED  BY <2>3, <3>1 DEF SameCall
  <2> QED  BY <2>1, <2>2, <2>3
<1>7. Due(c)  BY <1>2 DEF Due
<1>8. PICK m : m = Message(e, "user", ok)  OBVIOUS
<1>9. /\ m \in Messages /\ m.what = e.type /\ m.uid = e.obj.uid /\ m.version = e.obj.version
      /\ m.by = "user" /\ m.ok = ok
  BY <1>2, <1>8 DEF Message, Messages, Events, UserObj
<1>10. got' = [got EXCEPT ![c] = Append(@, m)]
  BY <1>1, <1>3, <1>8 DEF CallNext, Tell
<1>5. InCall' /\ Due(c)' => Repeated(m)'  BY <1>6, <1>9 DEF Repeated
<1>21. \A x : InCall' /\ Repeated(x) => Repeated(x)'  BY <1>1, <1>6 DEF Repeated
<1>22. \A x \in Messages : Repeated(x) => Again(x, m)  BY <1>1, <1>2, <1>8, RepeatedAgain
<1>11. /\ got' \in [Callbacks -> Seq(Messages)]
       /\ \A d \in Callbacks : d # c => got'[d] = got[d] /\ Told(d)' = Told(d)
       /\ Told(c)' = Told(c) \cup {m}
       /\ Len(got[c]) \in Nat /\ DOMAIN got[c] = 1 .. Len(got[c])
       /\ DOMAIN got'[c] = 1 .. Len(got[c]) + 1
       /\ \A i \in 1 .. Len(got[c]) : got'[c][i] = got[c][i]
       /\ got'[c][Len(got[c]) + 1] = m
  BY <1>0, <1>4, <1>9, <1>10, TellAdds
<1>12. UpToDate(e) /\ \A i \in DOMAIN userEv : InOrder(e, userEv[i])
  BY <1>1, <1>2 DEF WInv, Stream
<1>13. Types'  BY <1>0, <1>1, <1>2, <1>6, <1>11 DEF Types
<1>14. Stream'
  <2>1. SameCall  BY <1>1, <1>2, <1>6 DEF SameCall
  <2>2. Rest(0)  BY <1>0, RestOf
  <2> QED  BY <2>1, <2>2, RestStream DEF WInv
<1>15. Objects'
  <2>1. m.uid < nextUid  BY <1>9, <1>12 DEF UpToDate
  <2>2. \A d \in Callbacks : \A x \in Told(d)' : x.uid < nextUid'
    BY <1>11, <2>1 DEF WInv, Objects
  <2> QED  BY <1>6, <2>2 DEF WInv, Objects
<1>16. Burials'
  <2> SUFFICES ASSUME NEW d \in Callbacks, NEW x \in Told(d)', x.what = "DELETED"
               PROVE  Buried(d, x)'
    BY DEF Burials
  <2>1. CASE x \in Told(d)
    <3>1. Buried(d, x)  BY <2>1 DEF WInv, Burials
    <3> QED  BY <1>1, <1>2, <1>6, <1>21, <3>1 DEF Buried
  <2>2. CASE d = c /\ x = m
    <3>1. e.type = "DELETED"  BY <1>9, <2>2
    <3>2. \A n \in Names : user[n].uid # x.uid
      BY <1>9, <1>12, <2>2, <3>1 DEF UpToDate
    <3>3. \A i \in DOMAIN userEv : userEv[i].obj.uid # x.uid
      BY <1>9, <1>12, <2>2, <3>1 DEF InOrder
    <3> QED  BY <1>5, <1>6, <2>2, <3>1, <3>2, <3>3 DEF Buried
  <2> QED  BY <1>11, <2>1, <2>2
<1>17. Announcements'
  <2>1. \A u \in Uids : Announced(u)' => Announced(u)
    <3> TAKE u \in Uids
    <3> HAVE Announced(u)'
    <3>1. CASE InCall' /\ job'.ev.type = "MODIFIED" /\ job'.ev.obj.uid = u
      BY <1>1, <1>2, <1>6, <3>1 DEF Announced
    <3>2. ASSUME NEW d \in Callbacks, NEW x \in Told(d)', x.what = "MODIFIED", x.uid = u
          PROVE  Announced(u)
      BY <1>1, <1>2, <1>9, <1>11, <3>2 DEF Announced
    <3> QED  BY <3>1, <3>2 DEF Announced
  <2>2. \A u \in Uids : Announced(u)' => Settled(u)'
    <3>1. Rest(0)  BY <1>0, RestOf
    <3> QED  BY <2>1, <3>1, RestSettled DEF WInv, Announcements
  <2>3. ASSUME InCall', job'.ev.type = "MODIFIED", NEW d \in Callbacks, Due(d)',
               NEW x \in Told(d)', x.what = "MODIFIED", x.uid = job'.ev.obj.uid
        PROVE  Repeated(x)'
    <3>1. Due(d) /\ job'.ev = e  BY <1>6, <2>3
    <3>2. CASE x \in Told(d)
      <4>1. Repeated(x)  BY <1>1, <1>2, <2>3, <3>1, <3>2 DEF WInv, Announcements
      <4> QED  BY <1>21, <2>3, <4>1
    <3>3. CASE d = c /\ x = m  BY <1>5, <2>3, <3>3
    <3> QED  BY <1>11, <3>2, <3>3
  <2> QED  BY <2>2, <2>3 DEF Announcements
<1>18. \A i \in 1 .. Len(got[c]) : got[c][i] \in Told(c) /\ got[c][i] \in Messages
  <2>1. Told(c) \subseteq Messages  BY <1>0, <1>4, Known
  <2> QED  BY <1>11, <2>1 DEF Told
<1>19. NothingAfterDeleted'
  <2> SUFFICES ASSUME NEW d \in Callbacks, NEW i \in DOMAIN got'[d], NEW j \in DOMAIN got'[d],
                      i < j, got'[d][i].what = "DELETED", got'[d][j].uid = got'[d][i].uid
               PROVE  Again(got'[d][i], got'[d][j])
    BY DEF NothingAfterDeleted
  <2>1. CASE d # c  BY <1>11, <2>1 DEF WInv, NothingAfterDeleted
  <2>2. CASE d = c /\ j \in 1 .. Len(got[c])
    <3>1. i \in 1 .. Len(got[c])  BY <1>11, <2>2
    <3> QED  BY <1>11, <2>2, <3>1 DEF WInv, NothingAfterDeleted
  <2>3. CASE d = c /\ j = Len(got[c]) + 1
    <3>1. i \in 1 .. Len(got[c])  BY <1>11, <2>3
    <3>2. got'[d][i] \in Told(c) /\ got'[d][i] \in Messages  BY <1>11, <1>18, <2>3, <3>1
    <3>3. PICK x \in Messages : x = got'[d][i]  BY <3>2
    <3>4. Buried(c, x)  BY <1>4, <3>2, <3>3 DEF WInv, Burials
    <3>5. e.obj.uid = x.uid  BY <1>9, <1>11, <2>3, <3>3
    <3>6. Repeated(x)  BY <1>1, <1>2, <1>7, <3>4, <3>5 DEF Buried
    <3> QED  BY <1>11, <1>22, <2>3, <3>3, <3>6
  <2>4. d = c => j \in 1 .. Len(got[c]) \/ j = Len(got[c]) + 1  BY <1>11
  <2> QED  BY <2>1, <2>2, <2>3, <2>4
<1>20. ActivatedOnce'
  <2> SUFFICES ASSUME NEW d \in Callbacks, NEW i \in DOMAIN got'[d], NEW j \in DOMAIN got'[d],
                      i < j, got'[d][i].what = "MODIFIED", got'[d][j].what = "MODIFIED",
                      got'[d][i].uid = got'[d][j].uid
               PROVE  Again(got'[d][i], got'[d][j])
    BY DEF ActivatedOnce
  <2>1. CASE d # c  BY <1>11, <2>1 DEF WInv, ActivatedOnce
  <2>2. CASE d = c /\ j \in 1 .. Len(got[c])
    <3>1. i \in 1 .. Len(got[c])  BY <1>11, <2>2
    <3> QED  BY <1>11, <2>2, <3>1 DEF WInv, ActivatedOnce
  <2>3. CASE d = c /\ j = Len(got[c]) + 1
    <3>1. i \in 1 .. Len(got[c])  BY <1>11, <2>3
    <3>2. got'[d][i] \in Told(c) /\ got'[d][i] \in Messages  BY <1>11, <1>18, <2>3, <3>1
    <3>3. PICK x \in Messages : x = got'[d][i]  BY <3>2
    <3>4. e.type = "MODIFIED" /\ e.obj.uid = x.uid /\ x.what = "MODIFIED"
      BY <1>9, <1>11, <2>3, <3>3
    <3>5. Repeated(x)
      <4>1. x \in Told(c) /\ x.uid = job.ev.obj.uid /\ job.ev.type = "MODIFIED"
        BY <1>1, <3>2, <3>3, <3>4
      <4> QED  BY <1>2, <1>4, <1>7, <3>4, <4>1 DEF WInv, Announcements
    <3> QED  BY <1>11, <1>22, <2>3, <3>3, <3>5
  <2>4. d = c => j \in 1 .. Len(got[c]) \/ j = Len(got[c]) + 1
    <3>1. PICK k \in Nat : k = Len(got[c])  BY <1>11
    <3>2. d = c => j \in 1 .. k + 1  BY <1>11, <3>1
    <3> QED  BY <3>1, <3>2
  <2> QED  BY <2>1, <2>2, <2>3, <2>4
<1>23. Tell(c, job.ev, "user", ok)  BY <1>1, <1>8, <1>10 DEF Tell
<1>24. WInv'  BY <1>13, <1>14, <1>15, <1>16, <1>17, <1>19, <1>20 DEF WInv
<1> QED  BY <1>1, <1>2, <1>4, <1>6, <1>7, <1>23, <1>24

\* The call succeeds, ...
LEMMA InvokeCallbackKeeps ==
    ASSUME WInv, InvokeCallback
    PROVE  /\ WInv'
           /\ \E c \in Callbacks : /\ Due(c) /\ ~Due(c)'
                                   /\ Tell(c, job.ev, "user", TRUE) /\ InCall /\ InCall'
                                   /\ job'.ev = job.ev /\ job.ev \in Events
<1>1. /\ Calling /\ CallNext(TRUE)
      /\ UNCHANGED <<user, nextUid, registered, open, userEv, cbEv, cacheCb, activing, restarts>>
      /\ job' = [job EXCEPT !.list = @ \ {Min(@)}]
  BY DEF InvokeCallback, env_vars, mem_vars, bound_vars
<1>2. faults' \in Nat  BY DEF InvokeCallback, bound_vars, WInv, Types
<1>3. \E ok \in BOOLEAN : ok = TRUE  OBVIOUS
<1> QED  BY <1>1, <1>2, <1>3, CallMade

\* ... or fails, and is made again or not.
LEMMA FailedCallKeeps ==
    ASSUME WInv, Calling, CallNext(FALSE), InvokeRetry \/ InvokeFails
    PROVE  WInv'
<1>1. /\ UNCHANGED <<user, nextUid, registered, open, userEv, cbEv, cacheCb, activing, restarts>>
      /\ faults' = faults + 1
      /\ job' \in {job, Idle}
  BY DEF InvokeRetry, InvokeFails, CallFails, env_vars, mem_vars
<1>2. faults' \in Nat  BY <1>1 DEF WInv, Types
<1>3. \E ok \in BOOLEAN : ok = FALSE  OBVIOUS
<1> QED  BY <1>1, <1>2, <1>3, CallMade

\* A new callback is told of one of the users, or the call fails.
LEMMA InitializeCallbackKeeps ==
    ASSUME WInv, InitializeCallback
    PROVE  /\ WInv' /\ ~InCall /\ ~InCall'
           /\ \/ UNCHANGED got
              \/ \E c \in Callbacks, m \in Messages :
                    m.by = "callback" /\ got' = [got EXCEPT ![c] = Append(@, m)]
<1>0. Types  BY DEF WInv
<1>1. PICK e \in job.users :
         /\ job' \in {job, [job EXCEPT !.users = @ \ {e}]}
         /\ faults' \in {faults, faults + 1}
         /\ UNCHANGED got \/ \E ok \in BOOLEAN : Tell(job.cb, e, "callback", ok)
  BY DEF InitializeCallback, CallFails
<1>2. /\ job \in Jobs /\ job.do = "users" /\ job.cb \in Callbacks /\ e \in Events
      /\ UNCHANGED <<user, nextUid, registered, open, userEv, cbEv, cacheUser, cacheCb, activing,
                     restarts>>
  BY <1>0 DEF InitializeCallback, Types, Jobs, env_vars, mem_vars
<1>3. PICK l : /\ l \subseteq job.users
               /\ (job' = job /\ l = job.users) \/ job' = [job EXCEPT !.users = l]
  <2>1. CASE job' = job  BY <2>1
  <2>2. CASE job' = [job EXCEPT !.users = @ \ {e}]
    <3>1. PICK l : l = job.users \ {e}  OBVIOUS
    <3> QED  BY <2>2, <3>1
  <2> QED  BY <1>1, <2>1, <2>2
<1>4. /\ job' \in Jobs /\ job'.do = "users" /\ job'.cb = job.cb /\ job'.users = l
  <2>1. l \subseteq Events  BY <1>2, <1>3 DEF Jobs
  <2> QED  BY <1>2, <1>3, <2>1 DEF Jobs
<1>5. ~InCall /\ ~InCall' /\ \A c \in Callbacks : ~Due(c) /\ ~Due(c)'
  BY <1>2, <1>4 DEF InCall, Due
<1>6. SameCall /\ UsersKnown /\ Rest(0)
  <2>1. Rest(0)  BY <1>0, <1>2, RestOf
  <2> QED  BY <1>2, <1>3, <1>4, <1>5, <2>1 DEF SameCall, UsersKnown
<1>7. faults' \in Nat  BY <1>0, <1>1 DEF Types
<1>8. got' \in [Callbacks -> Seq(Messages)] => Types'
  BY <1>0, <1>2, <1>4, <1>5, <1>7 DEF Types
<1>9. CASE UNCHANGED got
  <2>1. Types'  BY <1>0, <1>8, <1>9 DEF Types
  <2> QED  BY <1>2, <1>5, <1>6, <1>9, <2>1, RestKeeps
<1>10. ASSUME NEW ok \in BOOLEAN, Tell(job.cb, e, "callback", ok)
       PROVE  /\ WInv'
              /\ \E c \in Callbacks, m \in Messages :
                    m.by = "callback" /\ got' = [got EXCEPT ![c] = Append(@, m)]
  <2>1. PICK c \in Callbacks : c = job.cb  BY <1>2
  <2>2. PICK m : m = Message(e, "callback", ok)  OBVIOUS
  <2>3. /\ e.type = "ADDED" /\ e.obj.uid < nextUid  BY <1>2 DEF WInv, Objects
  <2>4. m \in Messages /\ m.what = "ADDED" /\ m.uid = e.obj.uid /\ m.by = "callback"
    BY <1>2, <2>2, <2>3 DEF Message, Messages, Events, UserObj
  <2>5. got' = [got EXCEPT ![c] = Append(@, m)]
    BY <1>10, <2>1, <2>2 DEF Tell
  <2>6. /\ got' \in [Callbacks -> Seq(Messages)]
        /\ \A d \in Callbacks : d # c => got'[d] = got[d] /\ Told(d)' = Told(d)
        /\ Told(c)' = Told(c) \cup {m}
        /\ Len(got[c]) \in Nat /\ DOMAIN got[c] = 1 .. Len(got[c])
        /\ DOMAIN got'[c] = 1 .. Len(got[c]) + 1
        /\ \A i \in 1 .. Len(got[c]) : got'[c][i] = got[c][i]
        /\ got'[c][Len(got[c]) + 1] = m
    BY <1>0, <2>4, <2>5, TellAdds
  <2>7. Types'  BY <1>8, <2>6
  <2>8. Stream'  BY <1>2, <1>6, RestStream DEF WInv
  <2>9. Objects'
    <3>1. \A d \in Callbacks : \A x \in Told(d)' : x.uid < nextUid'
      BY <1>2, <2>3, <2>4, <2>6 DEF WInv, Objects
    <3>2. \A x \in job'.users : x.type = "ADDED" /\ x.obj.uid < nextUid'
      BY <1>2, <1>3, <1>4 DEF WInv, Objects
    <3> QED  BY <1>2, <3>1, <3>2 DEF WInv, Objects
  <2>10. \A d \in Callbacks : \A x \in Told(d)' : x.what # "ADDED" => x \in Told(d)
    BY <2>4, <2>6
  <2>11. Burials'
    <3> SUFFICES ASSUME NEW d \in Callbacks, NEW x \in Told(d)', x.what = "DELETED"
                 PROVE  Buried(d, x)'
      BY DEF Burials
    <3>1. Buried(d, x)  BY <2>10 DEF WInv, Burials
    <3> QED  BY <1>2, <1>3, <1>4, <1>5, <3>1 DEF Buried
  <2>12. Announcements'
    <3>1. \A u \in Uids : Announced(u)' => Announced(u)
      BY <1>5, <2>10 DEF Announced
    <3> QED  BY <1>2, <1>5, <1>6, <3>1, RestSettled DEF WInv, Announcements
  <2>13. \A i \in 1 .. Len(got[c]) : got[c][i] \in Told(c)  BY <2>6 DEF Told
  <2>14. NothingAfterDeleted'
    <3> SUFFICES ASSUME NEW d \in Callbacks, NEW i \in DOMAIN got'[d], NEW j \in DOMAIN got'[d],
                        i < j, got'[d][i].what = "DELETED", got'[d][j].uid = got'[d][i].uid
                 PROVE  Again(got'[d][i], got'[d][j])
      BY DEF NothingAfterDeleted
    <3>1. CASE d # c  BY <2>6, <3>1 DEF WInv, NothingAfterDeleted
    <3>2. CASE d = c /\ j \in 1 .. Len(got[c])
      <4>1. i \in 1 .. Len(got[c])  BY <2>6, <3>2
      <4> QED  BY <2>6, <3>2, <4>1 DEF WInv, NothingAfterDeleted
    <3>3. CASE d = c /\ j = Len(got[c]) + 1
      <4>1. i \in 1 .. Len(got[c])  BY <2>6, <3>3
      <4>2. got'[d][i] \in Told(c)  BY <2>6, <2>13, <3>3, <4>1
      <4>3. PICK x : x = got'[d][i]  OBVIOUS
      <4>4. Buried(c, x)  BY <4>2, <4>3 DEF WInv, Burials
      <4>5. e.obj.uid # x.uid  BY <1>2, <4>4 DEF Buried
      <4> QED  BY <2>4, <2>6, <3>3, <4>3, <4>5
    <3>4. d = c => j \in 1 .. Len(got[c]) \/ j = Len(got[c]) + 1  BY <2>6
    <3> QED  BY <3>1, <3>2, <3>3, <3>4
  <2>15. ActivatedOnce'
    <3> SUFFICES ASSUME NEW d \in Callbacks, NEW i \in DOMAIN got'[d], NEW j \in DOMAIN got'[d],
                        i < j, got'[d][i].what = "MODIFIED", got'[d][j].what = "MODIFIED",
                        got'[d][i].uid = got'[d][j].uid
                 PROVE  Again(got'[d][i], got'[d][j])
      BY DEF ActivatedOnce
    <3>1. CASE d # c  BY <2>6, <3>1 DEF WInv, ActivatedOnce
    <3>2. CASE d = c
      <4>0. m.what # "MODIFIED"  BY <2>4
      <4>1. i \in 1 .. Len(got[c]) /\ j \in 1 .. Len(got[c])
        <5>1. i # Len(got[c]) + 1 /\ j # Len(got[c]) + 1  BY <2>6, <3>2, <4>0
        <5>2. PICK k \in Nat : k = Len(got[c])  BY <2>6
        <5>3. i \in 1 .. k + 1 /\ j \in 1 .. k + 1 /\ i # k + 1 /\ j # k + 1
          BY <2>6, <3>2, <5>1, <5>2
        <5>4. i \in 1 .. k /\ j \in 1 .. k  BY <5>3
        <5> QED  BY <5>2, <5>4
      <4> QED  BY <2>6, <3>2, <4>1 DEF WInv, ActivatedOnce
    <3> QED  BY <3>1, <3>2
  <2> QED
    BY <1>5, <2>4, <2>5, <2>7, <2>8, <2>9, <2>11, <2>12, <2>14, <2>15 DEF WInv
<1> QED  BY <1>1, <1>5, <1>9, <1>10

\* The callbacks are listed, or cannot be, or all have been called, or one has no URL.
LEMMA CallKeeps ==
    ASSUME WInv, ListCallbacks \/ InvokedAll \/ InvokeNoUrl \/ (InvokeFails /\ UNCHANGED got)
    PROVE  WInv'
<1>0. Types  BY DEF WInv
<1>1. UNCHANGED <<user, nextUid, registered, open, userEv, cbEv, cacheCb, activing, got, restarts>>
      /\ faults' \in Nat
  <2>1. faults \in Nat /\ faults + 1 \in Nat  BY <1>0 DEF Types
  <2>2. CASE ListCallbacks \/ InvokedAll \/ InvokeNoUrl
    BY <2>1, <2>2 DEF ListCallbacks, InvokedAll, InvokeNoUrl, env_vars, mem_vars, bound_vars
  <2>3. CASE InvokeFails /\ UNCHANGED got
    BY <2>1, <2>3 DEF InvokeFails, CallFails, env_vars, mem_vars
  <2> QED  BY <2>2, <2>3
<1>2. Rest(0)  BY <1>0, <1>1, RestOf
<1>3. CASE ListCallbacks
  <2>1. /\ job \in Jobs /\ job.do = "list" /\ registered \subseteq Callbacks
        /\ job' = [job EXCEPT !.do = "call", !.list = registered]
    BY <1>0, <1>3 DEF ListCallbacks, Types
  <2>2. job' \in Jobs /\ job'.do = "call" /\ job'.ev = job.ev  BY <2>1 DEF Jobs
  <2>3. InCall /\ InCall' /\ \A c \in Callbacks : Due(c)  BY <2>1, <2>2 DEF InCall, Due
  <2>4. SameCall /\ UsersKnown  BY <2>2, <2>3 DEF SameCall, UsersKnown
  <2>5. Types'  BY <1>0, <1>1, <2>2, <2>3 DEF Types
  <2> QED  BY <1>1, <1>2, <2>4, <2>5, RestKeeps
<1>4. CASE InvokedAll \/ InvokeNoUrl \/ InvokeFails
  <2>1. job' = Idle  BY <1>4 DEF InvokedAll, InvokeNoUrl, InvokeFails
  <2>2. ~InCall' /\ SameCall /\ UsersKnown /\ job' \in Jobs /\ job'.do # "users"
    BY <2>1, IdleJob
  <2>3. Types'  BY <1>0, <1>1, <2>2 DEF Types
  <2> QED  BY <1>1, <1>2, <2>2, <2>3, RestKeeps
<1> QED  BY <1>3, <1>4

\* A registration is read, or is done with.
LEMMA RegistrationKeeps ==
    ASSUME WInv, ReadCallbackEvent \/ ListUsersFails \/ Initialized
    PROVE  WInv'
<1>0. Types  BY DEF WInv
<1>1. UNCHANGED <<user, nextUid, registered, open, userEv, activing, got, restarts>>
      /\ faults' \in Nat
  BY <1>0 DEF ReadCallbackEvent, ListUsersFails, CallFails, Initialized, env_vars, mem_vars,
              bound_vars, Types
<1>2. Rest(0)  BY <1>0, <1>1, RestOf
<1>3. CASE ReadCallbackEvent
  <2>1. /\ cbEv \in Seq(Callbacks) /\ cbEv # <<>> /\ cbEv' = Tail(cbEv) /\ job = Idle
        /\ cacheCb' = cacheCb
    BY <1>0, <1>3 DEF ReadCallbackEvent, Types, mem_vars
  <2>2. cbEv' \in Seq(Callbacks) /\ Head(cbEv) \in Callbacks  BY <2>1, Shortened
  <2>3. PICK U : U = {Event("ADDED", n, user[n]) : n \in Existing}  OBVIOUS
  <2>4. U \subseteq Events
    <3> SUFFICES ASSUME NEW n \in Existing  PROVE Event("ADDED", n, user[n]) \in Events
      BY <2>3
    <3>1. n \in Names /\ user[n] \in UserObj  BY <1>0, ExistingObj
    <3> QED  BY <3>1 DEF Event, Events
  <2>5. \/ job' = Idle
        \/ job' = [Idle EXCEPT !.do = "users", !.cb = Head(cbEv), !.users = U]
    BY <1>3, <2>3 DEF ReadCallbackEvent
  <2>6. CASE job' = Idle
    <3>1. ~InCall' /\ SameCall /\ UsersKnown /\ job' \in Jobs /\ job'.do # "users"
      BY <2>6, IdleJob
    <3>2. Types'  BY <1>0, <1>1, <2>1, <2>2, <3>1 DEF Types
    <3> QED  BY <1>1, <1>2, <3>1, <3>2, RestKeeps
  <2>7. CASE job' = [Idle EXCEPT !.do = "users", !.cb = Head(cbEv), !.users = U]
    <3>1. job' \in Jobs /\ job'.do = "users" /\ job'.cb \in Callbacks /\ job'.users = U
      BY <2>2, <2>4, <2>7 DEF Idle, Jobs
    <3>2. ~InCall' /\ SameCall  BY <3>1 DEF InCall, SameCall, Due
    <3>3. UsersKnown  BY <2>3, <3>1 DEF UsersKnown
    <3>4. Types'  BY <1>0, <1>1, <2>1, <2>2, <3>1, <3>2 DEF Types
    <3> QED  BY <1>1, <1>2, <3>2, <3>3, <3>4, RestKeeps
  <2> QED  BY <2>5, <2>6, <2>7
<1>4. CASE ListUsersFails \/ Initialized
  <2>1. job' = Idle  BY <1>4 DEF ListUsersFails, Initialized
  <2>2. ~InCall' /\ SameCall /\ UsersKnown /\ job' \in Jobs /\ job'.do # "users"
    BY <2>1, IdleJob
  <2>3. cbEv' \in Seq(Callbacks) /\ cacheCb' \subseteq Callbacks
    <3>1. CASE ListUsersFails
      <4>1. cbEv \in Seq(Callbacks) /\ cbEv # <<>> /\ cbEv' = Tail(cbEv) /\ cacheCb' = cacheCb
        BY <1>0, <3>1 DEF ListUsersFails, Types, mem_vars
      <4> QED  BY <1>0, <4>1, Shortened DEF Types
    <3>2. CASE Initialized
      BY <1>0, <3>2 DEF Initialized, Types
    <3> QED  BY <1>4, <3>1, <3>2
  <2>4. Types'  BY <1>0, <1>1, <2>2, <2>3 DEF Types
  <2> QED  BY <1>1, <1>2, <2>2, <2>4, RestKeeps
<1> QED  BY <1>3, <1>4

\* The watches break, or the process is restarted.
LEMMA EndKeeps ==
    ASSUME WInv, WatchBreaks \/ Restart
    PROVE  WInv'
<1>0. Types  BY DEF WInv
<1>1. /\ UNCHANGED <<user, nextUid, registered, got, faults>> /\ restarts' \in Nat
      /\ open' = FALSE /\ userEv' = <<>> /\ cbEv' = <<>> /\ job' = Idle
      /\ cacheCb' \subseteq cacheCb /\ activing' \subseteq activing
  BY <1>0 DEF WatchBreaks, Restart, env_vars, mem_vars, Types
<1>2. ~InCall' /\ SameCall /\ UsersKnown /\ job' \in Jobs /\ job'.do # "users"
  BY <1>1, IdleJob
<1>3. Types'
  <2>1. userEv' \in Seq(Events) /\ cbEv' \in Seq(Callbacks)  BY <1>1
  <2>2. open' \in BOOLEAN  BY <1>1
  <2>3. cacheCb' \subseteq Callbacks /\ activing' \subseteq Names  BY <1>0, <1>1 DEF Types
  <2> QED  BY <1>0, <1>1, <1>2, <2>1, <2>2, <2>3 DEF Types
<1>4. Rest(0)  BY <1>0, <1>1, RestOf
<1> QED  BY <1>1, <1>2, <1>3, <1>4, RestKeeps

\* The initial state satisfies the invariant.
LEMMA WInvInit == Init => WInv
<1> SUFFICES ASSUME Init  PROVE WInv
  OBVIOUS
<1>1. \A c \in Callbacks : got[c] = <<>> /\ Told(c) = {}  BY DEF Init, Told
<1>2. ~InCall /\ job.do = "idle" /\ job \in Jobs  BY IdleJob DEF Init, InCall
<1>3. Types
  <2>1. got \in [Callbacks -> Seq(Messages)]  BY DEF Init
  <2>2. user \in [Names -> UserObj \cup {NoUser}]  BY DEF Init
  <2>3. nextUid \in 1 .. MaxUids + 1  BY UserWatchAssumption DEF Init
  <2>4. userEv \in Seq(Events) /\ cbEv \in Seq(Callbacks)  BY DEF Init
  <2>5. open \in BOOLEAN  BY DEF Init
  <2>6. registered \subseteq Callbacks /\ cacheCb \subseteq Callbacks /\ activing \subseteq Names
    BY DEF Init
  <2>7. faults \in Nat /\ restarts \in Nat  BY DEF Init
  <2> QED  BY <1>2, <2>1, <2>2, <2>3, <2>4, <2>5, <2>6, <2>7 DEF Types
<1>4. Objects  BY <1>1, <1>2, Uid DEF Init, Objects
<1>5. Stream  BY <1>2 DEF Init, Stream
<1>6. Burials  BY <1>1 DEF Burials
<1>7. Announcements  BY <1>1, <1>2 DEF Announcements, Announced
<1>8. NothingAfterDeleted /\ ActivatedOnce  BY <1>1 DEF NothingAfterDeleted, ActivatedOnce
<1> QED  BY <1>3, <1>4, <1>5, <1>6, <1>7, <1>8 DEF WInv

\* Every step keeps it.
LEMMA WInvStep == WInv /\ [Next]_vars => WInv'
<1> SUFFICES ASSUME WInv, [Next]_vars  PROVE WInv'
  OBVIOUS
<1>1. CASE Environment
  <2>1. UNCHANGED <<open, mem_vars, job, got, bound_vars>>  BY <1>1 DEF Environment
  <2>2. ASSUME NEW n \in Names, CreateUser(n) \/ ModifyUser(n) \/ DeleteUser(n)  PROVE WInv'
    BY <2>1, <2>2, CreateUserKeeps, ModifyUserKeeps, DeleteUserKeeps
  <2>3. ASSUME NEW c \in Callbacks, Register(c)  PROVE WInv'
    BY <2>1, <2>3, RegisterKeeps
  <2> QED  BY <1>1, <2>2, <2>3 DEF Environment
<1>2. CASE Watcher
  BY <1>2, OpenWatchesKeeps, ReadUserEventKeeps, CallKeeps, InvokeCallbackKeeps,
     RegistrationKeeps, InitializeCallbackKeeps DEF Watcher
<1>3. CASE WatchBreaks \/ Restart  BY <1>3, EndKeeps
<1>4. CASE InvokeRetry \/ InvokeFails
  <2>1. InvokeRetry => Calling /\ CallNext(FALSE)  BY DEF InvokeRetry
  <2>2. InvokeFails => (Calling /\ CallNext(FALSE)) \/ UNCHANGED got  BY DEF InvokeFails
  <2> QED  BY <1>4, <2>1, <2>2, FailedCallKeeps, CallKeeps
<1>5. CASE ListUsersFails  BY <1>5, RegistrationKeeps
<1>6. CASE UNCHANGED vars
  <2>0. Types  BY DEF WInv
  <2>1. UNCHANGED <<user, nextUid, registered, open, userEv, cbEv, cacheUser, cacheCb, activing,
                    job, got, faults, restarts>>
    BY <1>6 DEF vars, env_vars, mem_vars, bound_vars
  <2>2. Types'  BY <2>0, <2>1 DEF Types, InCall
  <2>3. Rest(0)  BY <2>0, <2>1, RestOf
  <2>4. SameCall /\ UsersKnown  BY <2>1 DEF SameCall, UsersKnown, InCall, Due
  <2> QED  BY <2>1, <2>2, <2>3, <2>4, RestKeeps
<1> QED  BY <1>1, <1>2, <1>3, <1>4, <1>5, <1>6 DEF Next

\* Once it has been called about a user's deletion, a callback is called about this user
\* again only to repeat that call, if it failed: events of one user are handled in the
\* order in which they happened, and whatever is read from the objects of the moment (a
\* new watch, the users for a new callback) is not of a deleted user.
THEOREM NothingAfterDeletedHolds == Spec => []NothingAfterDeleted
<1>1. WInv => NothingAfterDeleted  BY DEF WInv
<1> QED  BY <1>1, WInvInit, WInvStep, PTL DEF Spec

----------------------------------------------------------------------------
(* As long as nothing fails, a version is delivered once.                  *)

\* What is recorded of added users stays so, but for the user whose event is recorded.
LEMMA StillRecorded ==
    ASSUME NEW e, EventRecord(e), NEW m
    PROVE  /\ Recorded(m) /\ ~(e.type = "ADDED" /\ e.obj.uid = m.uid) => Recorded(m)'
           /\ e.type = "ADDED" /\ e.obj.uid = m.uid /\ e.obj.version = m.version => Recorded(m)'
<1>1. PICK k : k = <<m.uid, "ADDED", m.version>>  OBVIOUS
<1>2. k[1] = m.uid /\ k[2] = "ADDED"  BY <1>1
<1>3. ASSUME k \in cacheUser, ~(e.type = "ADDED" /\ e.obj.uid = m.uid)  PROVE k \in cacheUser'
  BY <1>2, <1>3 DEF EventRecord
<1>4. ASSUME e.type = "ADDED", e.obj.uid = m.uid, e.obj.version = m.version
      PROVE  k \in cacheUser'
  BY <1>1, <1>4 DEF EventRecord, Key
<1> QED  BY <1>1, <1>3, <1>4 DEF Recorded

\* A step that leaves the objects alone and calls nobody new.
LEMMA RestDelivered ==
    ASSUME UNCHANGED user, NEW k \in Nat, Rest(k), SameCall, NEW c \in Callbacks, NEW m,
           InCall => InCall' /\ job'.ev = job.ev,
           Recorded(m) => Recorded(m)', Delivered(c, m)
    PROVE  Delivered(c, m)'
<1>1. Handled(m) => Handled(m)'  BY DEF Handled
<1>2. \A i \in DOMAIN userEv' : userEv'[i].obj.uid = m.uid /\ userEv'[i].type = m.what =>
          \/ m.version < userEv'[i].obj.version
          \/ m.what = "ADDED" /\ m.version = userEv'[i].obj.version /\ Recorded(m)'
  BY DEF Rest, Delivered
<1>3. \A n \in Names : user'[n].uid = m.uid =>
          \/ m.version < user'[n].version
          \/ /\ m.version = user'[n].version
             /\ m.what = "ADDED" => Recorded(m)' \/ Handled(m)'
  BY <1>1 DEF Delivered
<1>4. InCall' /\ job'.ev.obj.uid = m.uid /\ job'.ev.type = m.what =>
          /\ m.version <= job'.ev.obj.version
          /\ Due(c)' => m.version < job'.ev.obj.version
  BY DEF Delivered, SameCall
<1> QED  BY <1>2, <1>3, <1>4 DEF Delivered

\* A change is newer than what has been delivered.
LEMMA ChangeDelivered ==
    ASSUME WInv, NEW n \in Names, NEW v \in UserObj \cup {NoUser}, NEW e \in Events,
           Change(n, v, e), cacheUser' = cacheUser,
           NEW c \in Callbacks, NEW m \in Told(c), Delivered(c, m)
    PROVE  Delivered(c, m)'
<1>0. Types  BY DEF WInv
<1>1. /\ user'[n] = v /\ \A k \in Names : k # n => user'[k] = user[k]
      /\ \A k \in Names : user[k] \in UserObj \cup {NoUser} /\ e.obj \in UserObj
  BY <1>0, ChangeObjects
<1>2. m \in Messages /\ m.uid \in Nat /\ m.uid > 0 /\ m.version \in Nat /\ m.uid < nextUid
  BY <1>0, Known DEF WInv, Objects
<1>3. ASSUME e.obj.uid = m.uid
      PROVE  /\ user[n] # NoUser /\ user[n].uid = m.uid /\ e.type # "ADDED"
             /\ e.type = "MODIFIED" => m.version < e.obj.version
  <2>1. user[n] # NoUser /\ user[n].uid = m.uid /\ e.type # "ADDED"
    <3>1. nextUid \in Nat  BY <1>0, Known
    <3> QED  BY <1>2, <1>3, <3>1 DEF Change
  <2>2. user[n] \in UserObj  BY <1>1, <2>1
  <2>3. user[n].version \in Nat /\ e.obj.version \in Nat  BY <1>1, <2>2, Uid
  <2>4. m.version <= user[n].version  BY <1>2, <2>1, <2>3 DEF Delivered
  <2>5. e.type = "MODIFIED" => user[n].version < e.obj.version  BY <2>1 DEF Change
  <2> QED  BY <1>2, <2>1, <2>3, <2>4, <2>5
<1>4. Recorded(m)' <=> Recorded(m)  BY DEF Recorded
<1>5. job' = job  BY DEF Change
<1>6. Handled(m)' <=> Handled(m)  BY <1>5 DEF Handled, InCall
<1>7. ASSUME NEW i \in DOMAIN userEv', userEv'[i].obj.uid = m.uid, userEv'[i].type = m.what
      PROVE  \/ m.version < userEv'[i].obj.version
             \/ m.what = "ADDED" /\ m.version = userEv'[i].obj.version /\ Recorded(m)'
  <2>1. (i \in DOMAIN userEv /\ userEv'[i] = userEv[i]) \/ userEv'[i] = e
    BY <1>0, ChangeEvents DEF Change
  <2>2. CASE i \in DOMAIN userEv /\ userEv'[i] = userEv[i]
    BY <1>4, <1>7, <2>2 DEF Delivered
  <2>3. CASE userEv'[i] = e
    <3>1. e.type # "DELETED"
      <4>1. m.what = "DELETED" => user[n].uid # m.uid  BY DEF WInv, Burials, Buried
      <4> QED  BY <1>3, <1>7, <2>3, <4>1
    <3>2. e.type = "MODIFIED"  BY <1>3, <1>7, <2>3, <3>1 DEF Events
    <3> QED  BY <1>3, <1>7, <2>3, <3>2
  <2> QED  BY <2>1, <2>2, <2>3
<1>8. ASSUME NEW k \in Names, user'[k].uid = m.uid
      PROVE  \/ m.version < user'[k].version
             \/ /\ m.version = user'[k].version
                /\ m.what = "ADDED" => Recorded(m)' \/ Handled(m)'
  <2>1. CASE k # n  BY <1>1, <1>4, <1>6, <1>8, <2>1 DEF Delivered
  <2>2. CASE k = n
    <3>1. v # NoUser  BY <1>1, <1>2, <1>8, <2>2, Uid
    <3>2. v = e.obj /\ e.type # "DELETED"  BY <3>1 DEF Change
    <3>3. e.obj.uid = m.uid  BY <1>1, <1>8, <2>2, <3>2
    <3>4. e.type = "MODIFIED"  BY <1>3, <3>2, <3>3 DEF Events
    <3> QED  BY <1>1, <1>3, <2>2, <3>2, <3>3, <3>4
  <2> QED  BY <2>1, <2>2
<1>9. InCall' /\ job'.ev.obj.uid = m.uid /\ job'.ev.type = m.what =>
          /\ m.version <= job'.ev.obj.version
          /\ Due(c)' => m.version < job'.ev.obj.version
  BY <1>5 DEF Delivered, InCall, Due
<1> QED  BY <1>7, <1>8, <1>9 DEF Delivered

\* The users that a new watch reports are recorded, or newer.
LEMMA OpenDelivered ==
    ASSUME WInv, OpenWatches, NEW c \in Callbacks, NEW m \in Told(c), Delivered(c, m)
    PROVE  Delivered(c, m)'
<1>0. Types  BY DEF WInv
<1>1. job = Idle /\ job' = Idle /\ UNCHANGED <<user, cacheUser>>
  BY DEF OpenWatches, env_vars, mem_vars
<1>2. PICK s \in SetToSeqs(Existing) : userEv' = AsAdded(s)  BY DEF OpenWatches
<1>3. \A i \in DOMAIN userEv' : /\ userEv'[i].name \in Existing
                                /\ userEv'[i].obj = user[userEv'[i].name]
                                /\ userEv'[i].type = "ADDED"
  BY <1>0, <1>2, OpenEvents
<1>4. ~InCall /\ ~InCall' /\ ~Handled(m)  BY <1>1, IdleJob DEF InCall, Handled
<1>5. Recorded(m)' <=> Recorded(m)  BY <1>1 DEF Recorded
<1>6. \A i \in DOMAIN userEv' : userEv'[i].obj.uid = m.uid /\ userEv'[i].type = m.what =>
          \/ m.version < userEv'[i].obj.version
          \/ m.what = "ADDED" /\ m.version = userEv'[i].obj.version /\ Recorded(m)'
  <2> TAKE i \in DOMAIN userEv'
  <2> HAVE userEv'[i].obj.uid = m.uid /\ userEv'[i].type = m.what
  <2>1. PICK n \in Names : userEv'[i].obj = user[n]  BY <1>3 DEF Existing
  <2>2. m.what = "ADDED" /\ user[n].uid = m.uid  BY <1>3, <2>1
  <2> QED  BY <1>4, <1>5, <2>1, <2>2 DEF Delivered
<1>7. \A n \in Names : user'[n].uid = m.uid =>
          \/ m.version < user'[n].version
          \/ /\ m.version = user'[n].version
             /\ m.what = "ADDED" => Recorded(m)' \/ Handled(m)'
  BY <1>1, <1>4, <1>5 DEF Delivered
<1> QED  BY <1>4, <1>6, <1>7 DEF Delivered

\* An event that is read is newer, or was recorded and is dropped.
LEMMA ReadDelivered ==
    ASSUME WInv, ReadUserEvent, NEW c \in Callbacks, NEW m \in Told(c), Delivered(c, m)
    PROVE  Delivered(c, m)'
<1>0. Types  BY DEF WInv
<1>1. PICK e : e = Head(userEv)  OBVIOUS
<1>2. /\ job = Idle /\ userEv # <<>> /\ userEv' = Tail(userEv) /\ user' = user
  BY DEF ReadUserEvent, env_vars
<1>3. Rest(1) /\ ~InCall /\ ~Handled(m)  BY <1>0, <1>2, RestOf, IdleJob DEF InCall, Handled
<1>4. e = userEv[1] /\ 1 \in DOMAIN userEv /\ e \in Events
  BY <1>0, <1>1, <1>2, Shortened DEF Types
<1>5. CASE IsDupEvent(e)
  <2>1. job' = Idle /\ cacheUser' = cacheUser  BY <1>1, <1>2, <1>5 DEF ReadUserEvent, mem_vars
  <2>2. SameCall  BY <2>1, IdleJob
  <2> QED  BY <1>2, <1>3, <2>1, <2>2, RestDelivered DEF Recorded
<1>6. CASE ~IsDupEvent(e) /\ ~(e.type # "MODIFIED" \/ Activates(e))
  <2>1. job' = Idle /\ EventRecord(e)  BY <1>1, <1>2, <1>6 DEF ReadUserEvent
  <2>2. SameCall  BY <2>1, IdleJob
  <2>3. Recorded(m) => Recorded(m)'  BY <1>6, <2>1, StillRecorded
  <2> QED  BY <1>2, <1>3, <2>2, <2>3, RestDelivered
<1>7. CASE ~IsDupEvent(e) /\ (e.type # "MODIFIED" \/ Activates(e))
  <2>1. job' = [Idle EXCEPT !.do = "list", !.ev = e] /\ cacheUser' = cacheUser
    BY <1>1, <1>7 DEF ReadUserEvent
  <2>2. job'.ev = e  BY <2>1 DEF Idle
  <2>3. Recorded(m)' <=> Recorded(m)  BY <2>1 DEF Recorded
  <2>4. \A i \in DOMAIN userEv' : userEv'[i].obj.uid = m.uid /\ userEv'[i].type = m.what =>
          \/ m.version < userEv'[i].obj.version
          \/ m.what = "ADDED" /\ m.version = userEv'[i].obj.version /\ Recorded(m)'
    BY <1>3, <2>3 DEF Rest, Delivered
  <2>5. \A n \in Names : user'[n].uid = m.uid =>
          \/ m.version < user'[n].version
          \/ /\ m.version = user'[n].version
             /\ m.what = "ADDED" => Recorded(m)' \/ Handled(m)'
    BY <1>2, <1>3, <2>3 DEF Delivered
  <2>6. e.obj.uid = m.uid /\ e.type = m.what => m.version < e.obj.version
    <3> HAVE e.obj.uid = m.uid /\ e.type = m.what
    <3>1. \/ m.version < e.obj.version
          \/ m.what = "ADDED" /\ m.version = e.obj.version /\ Recorded(m)
      BY <1>4 DEF Delivered
    <3>2. ~(m.what = "ADDED" /\ m.version = e.obj.version /\ Recorded(m))
      BY <1>7 DEF IsDupEvent, Key, Recorded
    <3> QED  BY <3>1, <3>2
  <2>7. m.version \in Nat /\ e.obj.version \in Nat  BY <1>0, <1>4, Known, Uid
  <2> QED  BY <2>2, <2>4, <2>5, <2>6, <2>7 DEF Delivered
<1> QED  BY <1>5, <1>6, <1>7

\* When all callbacks have been called, the event is recorded.
LEMMA InvokedDelivered ==
    ASSUME WInv, InvokedAll, NEW c \in Callbacks, NEW m \in Told(c), Delivered(c, m)
    PROVE  Delivered(c, m)'
<1>0. Types  BY DEF WInv
<1>1. PICK e : e = job.ev  OBVIOUS
<1>2. InCall /\ e \in Events /\ EventRecord(e) /\ job' = Idle /\ UNCHANGED <<user, userEv>>
  BY <1>0, <1>1 DEF InvokedAll, InCall, Types, env_vars
<1>3. ~InCall'  BY <1>2, IdleJob
<1>4. UpToDate(e) /\ \A i \in DOMAIN userEv : InOrder(e, userEv[i])
  BY <1>1, <1>2 DEF WInv, Stream
<1>5. Recorded(m) /\ ~(e.type = "ADDED" /\ e.obj.uid = m.uid) => Recorded(m)'
  BY <1>2, StillRecorded
<1>6. Handled(m) => Recorded(m)'  BY <1>1, <1>2, StillRecorded DEF Handled
<1>7. ASSUME NEW i \in DOMAIN userEv', userEv'[i].obj.uid = m.uid, userEv'[i].type = m.what
      PROVE  \/ m.version < userEv'[i].obj.version
             \/ m.what = "ADDED" /\ m.version = userEv'[i].obj.version /\ Recorded(m)'
  <2>1. \/ m.version < userEv'[i].obj.version
        \/ m.what = "ADDED" /\ m.version = userEv'[i].obj.version /\ Recorded(m)
    BY <1>2, <1>7 DEF Delivered
  <2>2. m.what = "ADDED" => e.obj.uid # m.uid  BY <1>2, <1>4, <1>7 DEF InOrder
  <2> QED  BY <1>5, <2>1, <2>2
<1>8. ASSUME NEW n \in Names, user'[n].uid = m.uid
      PROVE  \/ m.version < user'[n].version
             \/ /\ m.version = user'[n].version
                /\ m.what = "ADDED" => Recorded(m)' \/ Handled(m)'
  <2>1. \/ m.version < user[n].version
        \/ m.version = user[n].version /\ (m.what = "ADDED" => Recorded(m) \/ Handled(m))
    BY <1>2, <1>8 DEF Delivered
  <2>2. ASSUME m.version = user[n].version, m.what = "ADDED", Recorded(m)  PROVE Recorded(m)'
    <3>1. CASE e.type = "ADDED" /\ e.obj.uid = m.uid
      <4>1. m.version <= e.obj.version  BY <1>1, <1>2, <2>2, <3>1 DEF Delivered
      <4>2. e.obj.version <= user[n].version  BY <1>2, <1>4, <1>8, <3>1 DEF UpToDate
      <4>3. m.version \in Nat /\ e.obj.version \in Nat  BY <1>0, <1>2, Known, Uid
      <4>4. e.obj.version = m.version  BY <2>2, <4>1, <4>2, <4>3
      <4> QED  BY <1>2, <3>1, <4>4, StillRecorded
    <3> QED  BY <1>5, <2>2, <3>1
  <2> QED  BY <1>2, <1>6, <2>1, <2>2
<1> QED  BY <1>3, <1>7, <1>8 DEF Delivered

\* What a callback is told is new to it, and older than what will come.
LEMMA InvokeDelivered ==
    ASSUME WInv, InvokeCallback, Deliveries
    PROVE  /\ Deliveries'
           /\ EachVersionOnce /\ Quiet => EachVersionOnce'
<1>0. Types  BY DEF WInv
<1>1. PICK e : e = job.ev  OBVIOUS
<1>2. PICK c \in Callbacks : /\ Due(c) /\ ~Due(c)'
                             /\ Tell(c, job.ev, "user", TRUE) /\ InCall /\ InCall'
                             /\ job'.ev = job.ev /\ job.ev \in Events
  BY InvokeCallbackKeeps
<1>3. PICK m : m = Message(e, "user", TRUE)  OBVIOUS
<1>4. /\ m \in Messages /\ m.what = e.type /\ m.uid = e.obj.uid /\ m.version = e.obj.version
      /\ m.by = "user"
  BY <1>1, <1>2, <1>3 DEF Message, Messages, Events, UserObj
<1>5. got' = [got EXCEPT ![c] = Append(@, m)]  BY <1>1, <1>2, <1>3 DEF Tell
<1>6. /\ \A d \in Callbacks : d # c => got'[d] = got[d] /\ Told(d)' = Told(d)
      /\ Told(c)' = Told(c) \cup {m}
      /\ Len(got[c]) \in Nat /\ DOMAIN got[c] = 1 .. Len(got[c])
      /\ DOMAIN got'[c] = 1 .. Len(got[c]) + 1
      /\ \A i \in 1 .. Len(got[c]) : got'[c][i] = got[c][i]
      /\ got'[c][Len(got[c]) + 1] = m
  BY <1>0, <1>4, <1>5, TellAdds
<1>7. UNCHANGED <<user, userEv, cacheUser, faults, restarts>>
  BY DEF InvokeCallback, env_vars, mem_vars, bound_vars
<1>8. SameCall
  <2>1. job.do = "call" /\ job'.do = "call" /\ job'.list \subseteq job.list
    <3>1. job \in Jobs /\ job.do = "call" /\ job' = [job EXCEPT !.list = @ \ {Min(@)}]
      BY <1>0 DEF InvokeCallback, Calling, Types
    <3> QED  BY <3>1 DEF Jobs
  <2> QED  BY <1>2, <2>1 DEF SameCall, Due
<1>9. Rest(0)  BY <1>0, <1>7, RestOf
<1>10. ASSUME NEW d \in Callbacks, NEW x \in Told(d), x.by = "user"  PROVE Delivered(d, x)'
  <2>1. Delivered(d, x)  BY <1>10 DEF Deliveries
  <2>2. Recorded(x)' <=> Recorded(x)  BY <1>7 DEF Recorded
  <2> QED  BY <1>2, <1>7, <1>8, <1>9, <2>1, <2>2, RestDelivered
<1>11. Delivered(c, m)'
  <2>1. UpToDate(e) /\ \A i \in DOMAIN userEv : InOrder(e, userEv[i])
    BY <1>1, <1>2 DEF WInv, Stream
  <2>2. m.version \in Nat /\ \A o \in UserObj : o.version \in Nat  BY <1>0, <1>4, Known, Uid
  <2>3. \A i \in DOMAIN userEv' : userEv'[i].obj.uid = m.uid /\ userEv'[i].type = m.what =>
          m.version < userEv'[i].obj.version
    <3> TAKE i \in DOMAIN userEv'
    <3> HAVE userEv'[i].obj.uid = m.uid /\ userEv'[i].type = m.what
    <3>1. userEv'[i] \in Events /\ InOrder(e, userEv'[i])  BY <1>0, <1>7, <2>1, Known
    <3>2. userEv'[i].type = "MODIFIED"  BY <1>4, <3>1 DEF InOrder, Events
    <3> QED  BY <1>4, <3>1, <3>2 DEF InOrder
  <2>4. m.what = "ADDED" => Handled(m)'  BY <1>1, <1>2, <1>4 DEF Handled
  <2>5. \A n \in Names : user'[n].uid = m.uid =>
          \/ m.version < user'[n].version
          \/ /\ m.version = user'[n].version
             /\ m.what = "ADDED" => Recorded(m)' \/ Handled(m)'
    <3> TAKE n \in Names
    <3> HAVE user'[n].uid = m.uid
    <3>1. m.version <= user[n].version  BY <1>4, <1>7, <2>1 DEF UpToDate
    <3>2. user[n].version \in Nat  BY <1>0, <2>2 DEF Types, NoUser
    <3> QED  BY <1>7, <2>2, <2>4, <3>1, <3>2
  <2>6. m.version <= job'.ev.obj.version  BY <1>1, <1>2, <1>4, <2>2
  <2> QED  BY <1>2, <2>3, <2>5, <2>6 DEF Delivered
<1>12. Deliveries'
  BY <1>6, <1>10, <1>11 DEF Deliveries
<1>13. m \notin Told(c)
  <2>1. m \in Told(c) => Delivered(c, m)  BY <1>4 DEF Deliveries
  <2>2. Delivered(c, m) => m.version < e.obj.version  BY <1>1, <1>2, <1>4 DEF Delivered
  <2>3. m.version \in Nat  BY <1>0, <1>4, Known
  <2> QED  BY <1>4, <2>1, <2>2, <2>3
<1>14. ASSUME EachVersionOnce, Quiet  PROVE EachVersionOnce'
  <2> SUFFICES ASSUME NEW d \in Callbacks, NEW i \in DOMAIN got'[d], NEW j \in DOMAIN got'[d],
                      got'[d][i] = got'[d][j], got'[d][i].by = "user"
               PROVE  i = j
    BY DEF EachVersionOnce
  <2>1. faults = 0 /\ restarts = 0 /\ registered \cap NoUrl = {}  BY <1>14 DEF Quiet
  <2>2. CASE d # c  BY <1>6, <1>14, <2>1, <2>2 DEF EachVersionOnce
  <2>3. CASE d = c
    <3>1. \A k \in 1 .. Len(got[c]) : got[c][k] \in Told(c)  BY <1>6 DEF Told
    <3>2. /\ i \in 1 .. Len(got[c]) \/ i = Len(got[c]) + 1
          /\ j \in 1 .. Len(got[c]) \/ j = Len(got[c]) + 1
      BY <1>6, <2>3
    <3>3. CASE i \in 1 .. Len(got[c]) /\ j \in 1 .. Len(got[c])
      BY <1>6, <1>14, <2>1, <2>3, <3>3 DEF EachVersionOnce
    <3>4. CASE i \in 1 .. Len(got[c]) /\ j = Len(got[c]) + 1
      BY <1>6, <1>13, <2>3, <3>1, <3>4
    <3>5. CASE i = Len(got[c]) + 1 /\ j \in 1 .. Len(got[c])
      BY <1>6, <1>13, <2>3, <3>1, <3>5
    <3> QED  BY <3>2, <3>3, <3>4, <3>5
  <2> QED  BY <2>2, <2>3
<1> QED  BY <1>12, <1>14

\* A message for a new callback is not one of those that count.
LEMMA InitializeDelivered ==
    ASSUME WInv, InitializeCallback, Deliveries, EachVersionOnce, Quiet
    PROVE  Deliveries' /\ EachVersionOnce'
<1>0. Types  BY DEF WInv
<1>1. /\ ~InCall /\ ~InCall'
      /\ \/ UNCHANGED got
         \/ \E c \in Callbacks, m \in Messages :
               m.by = "callback" /\ got' = [got EXCEPT ![c] = Append(@, m)]
  BY InitializeCallbackKeeps
<1>2. UNCHANGED <<user, userEv, cacheUser, restarts>>
  BY DEF InitializeCallback, env_vars, mem_vars
<1>3. Rest(0)  BY <1>0, <1>2, RestOf
<1>4. SameCall  BY <1>1 DEF SameCall, InCall, Due
<1>5. ASSUME NEW d \in Callbacks, NEW x \in Told(d), x.by = "user"  PROVE Delivered(d, x)'
  <2>1. Delivered(d, x)  BY <1>5 DEF Deliveries
  <2>2. Recorded(x)' <=> Recorded(x)  BY <1>2 DEF Recorded
  <2> QED  BY <1>1, <1>2, <1>3, <1>4, <2>1, <2>2, RestDelivered
<1>6. CASE UNCHANGED got
  <2>1. \A d \in Callbacks : Told(d)' = Told(d)  BY <1>6 DEF Told
  <2>2. Deliveries'  BY <1>5, <2>1 DEF Deliveries
  <2>3. EachVersionOnce'  BY <1>6 DEF EachVersionOnce, Quiet
  <2> QED  BY <2>2, <2>3
<1>7. ASSUME NEW c \in Callbacks, NEW m \in Messages, m.by = "callback",
             got' = [got EXCEPT ![c] = Append(@, m)]
      PROVE  Deliveries' /\ EachVersionOnce'
  <2>1. /\ \A d \in Callbacks : d # c => got'[d] = got[d] /\ Told(d)' = Told(d)
        /\ Told(c)' = Told(c) \cup {m}
        /\ Len(got[c]) \in Nat /\ DOMAIN got[c] = 1 .. Len(got[c])
        /\ DOMAIN got'[c] = 1 .. Len(got[c]) + 1
        /\ \A i \in 1 .. Len(got[c]) : got'[c][i] = got[c][i]
        /\ got'[c][Len(got[c]) + 1] = m
    BY <1>0, <1>7, TellAdds
  <2>2. m.by # "user"  BY <1>7
  <2>3. Deliveries'  BY <1>5, <2>1, <2>2 DEF Deliveries
  <2>4. EachVersionOnce'
    <3> SUFFICES ASSUME NEW d \in Callbacks, NEW i \in DOMAIN got'[d], NEW j \in DOMAIN got'[d],
                        got'[d][i] = got'[d][j], got'[d][i].by = "user"
                 PROVE  i = j
      BY DEF EachVersionOnce
    <3>1. faults = 0 /\ restarts = 0 /\ registered \cap NoUrl = {}  BY DEF Quiet
    <3>2. CASE d # c  BY <2>1, <3>1, <3>2 DEF EachVersionOnce
    <3>3. CASE d = c
      <4>1. PICK k \in Nat : k = Len(got[c])  BY <2>1
      <4>2. i # k + 1 /\ j # k + 1  BY <2>1, <2>2, <3>3, <4>1
      <4>3. i \in 1 .. k + 1 /\ j \in 1 .. k + 1  BY <2>1, <3>3, <4>1
      <4>4. i \in 1 .. k /\ j \in 1 .. k  BY <4>2, <4>3
      <4> QED  BY <2>1, <3>1, <3>3, <4>1, <4>4 DEF EachVersionOnce
    <3> QED  BY <3>2, <3>3
  <2> QED  BY <2>3, <2>4
<1> QED  BY <1>1, <1>6, <1>7

\* As long as nothing fails, deliveries are recorded and not repeated.
Once == Quiet => Deliveries /\ EachVersionOnce

\* Steps that tell nobody anything.
LEMMA SilentOnce ==
    ASSUME Quiet, Deliveries, EachVersionOnce, UNCHANGED got,
           \A c \in Callbacks : \A m \in Told(c) : Delivered(c, m) => Delivered(c, m)'
    PROVE  Deliveries' /\ EachVersionOnce'
<1>1. \A c \in Callbacks : Told(c)' = Told(c)  BY DEF Told
<1>2. Deliveries'  BY <1>1 DEF Deliveries
<1>3. EachVersionOnce'  BY DEF EachVersionOnce, Quiet
<1> QED  BY <1>2, <1>3

\* The same for the steps that neither call nor record.
LEMMA StillOnce ==
    ASSUME Types, Quiet, Deliveries, EachVersionOnce, UNCHANGED <<user, cacheUser, got>>,
           NEW k \in Nat, Rest(k), SameCall, InCall => InCall' /\ job'.ev = job.ev
    PROVE  Deliveries' /\ EachVersionOnce'
<1>1. \A c \in Callbacks : \A m \in Told(c) : Delivered(c, m) => Delivered(c, m)'
  <2> TAKE c \in Callbacks
  <2> TAKE m \in Told(c)
  <2> HAVE Delivered(c, m)
  <2>1. Recorded(m)' <=> Recorded(m)  BY DEF Recorded
  <2> QED  BY <2>1, RestDelivered
<1> QED  BY <1>1, SilentOnce

\* The list is of registered callbacks, which stay registered.
LEMMA RegisteredStep == Types /\ CallsRegistered /\ [Next]_vars => CallsRegistered'
<1> SUFFICES ASSUME Types, CallsRegistered, [Next]_vars, job'.do = "call"
             PROVE  job'.list \subseteq registered'
  BY DEF CallsRegistered
<1>1. registered \subseteq registered'
  BY DEF Next, Environment, CreateUser, ModifyUser, DeleteUser, Register, Watcher, OpenWatches,
         ReadUserEvent, ListCallbacks, InvokeCallback, InvokedAll, InvokeNoUrl,
         ReadCallbackEvent, InitializeCallback, Initialized, WatchBreaks, InvokeRetry,
         InvokeFails, ListUsersFails, Restart, vars, env_vars
<1>2. job \in Jobs  BY DEF Types
<1>3. CASE job' = job  BY <1>1, <1>3 DEF CallsRegistered
<1>4. CASE ListCallbacks
  <2>1. job' = [job EXCEPT !.do = "call", !.list = registered]  BY <1>4 DEF ListCallbacks
  <2>2. job'.list = registered  BY <1>2, <2>1 DEF Jobs
  <2> QED  BY <1>1, <2>2
<1>5. CASE InvokeCallback
  <2>1. PICK l : l = job.list \ {Min(job.list)}  OBVIOUS
  <2>2. job' = [job EXCEPT !.list = l] /\ job.do = "call"  BY <1>5, <2>1 DEF InvokeCallback, Calling
  <2>3. job'.list = l  BY <1>2, <2>2 DEF Jobs
  <2> QED  BY <1>1, <2>1, <2>2, <2>3 DEF CallsRegistered
<1>6. job' # Idle  BY IdleJob DEF Idle
<1>7. ~InitializeCallback
  <2> SUFFICES ASSUME InitializeCallback  PROVE FALSE
    OBVIOUS
  <2>1. job.do = "users"  BY DEF InitializeCallback
  <2>2. PICK l : job' = job \/ job' = [job EXCEPT !.users = l]
    <3>1. PICK e : job' \in {job, [job EXCEPT !.users = @ \ {e}]}  BY DEF InitializeCallback
    <3>2. PICK l : l = job.users \ {e}  OBVIOUS
    <3> QED  BY <3>1, <3>2
  <2>3. job'.do = "users"  BY <1>2, <2>1, <2>2 DEF Jobs
  <2> QED  BY <2>3
<1>8. ASSUME ReadCallbackEvent  PROVE FALSE
  <2>1. PICK U : U = {Event("ADDED", n, user[n]) : n \in Existing}  OBVIOUS
  <2>2. PICK h : h = Head(cbEv)  OBVIOUS
  <2>3. job' = [Idle EXCEPT !.do = "users", !.cb = h, !.users = U]
    BY <1>6, <1>8, <2>1, <2>2 DEF ReadCallbackEvent
  <2>4. job'.do = "users"  BY <2>3 DEF Idle
  <2> QED  BY <2>4
<1>9. ASSUME ReadUserEvent, job' # job  PROVE FALSE
  <2>1. PICK e : e = Head(userEv)  OBVIOUS
  <2>2. job' = [Idle EXCEPT !.do = "list", !.ev = e]  BY <1>9, <2>1 DEF ReadUserEvent
  <2>3. job'.do = "list"  BY <2>2 DEF Idle
  <2> QED  BY <2>3
<1>10. CASE UNCHANGED vars \/ Environment \/ OpenWatches \/ WatchBreaks \/ InvokeRetry
            \/ ListUsersFails
  <2>1. job' = job
    BY <1>10 DEF vars, Environment, OpenWatches, WatchBreaks, InvokeRetry, ListUsersFails
  <2> QED  BY <1>3, <2>1
<1>11. CASE InvokedAll \/ InvokeNoUrl \/ Initialized \/ InvokeFails \/ Restart
  BY <1>6, <1>11 DEF InvokedAll, InvokeNoUrl, Initialized, InvokeFails, Restart
<1> QED
  BY <1>3, <1>4, <1>5, <1>7, <1>8, <1>9, <1>10, <1>11 DEF Next, Watcher

\* Every step keeps this.
LEMMA OnceStep == WInv /\ CallsRegistered /\ Once /\ [Next]_vars => Once'
<1> SUFFICES ASSUME WInv, CallsRegistered, Once, [Next]_vars, Quiet'
             PROVE  Deliveries' /\ EachVersionOnce'
  BY DEF Once
<1>0. Types /\ faults \in Nat /\ restarts \in Nat  BY DEF WInv, Types
<1>1. Quiet /\ faults' = faults /\ restarts' = restarts
  <2>1. \/ faults' = faults /\ restarts' = restarts
        \/ faults' = faults + 1 \/ restarts' = restarts + 1
    BY DEF Next, Environment, Watcher, OpenWatches, ReadUserEvent, ListCallbacks,
           InvokeCallback, InvokedAll, InvokeNoUrl, ReadCallbackEvent, InitializeCallback,
           Initialized, WatchBreaks, InvokeRetry, InvokeFails, ListUsersFails, CallFails,
           Restart, vars, bound_vars
  <2>2. registered \subseteq registered'
    BY DEF Next, Environment, CreateUser, ModifyUser, DeleteUser, Register, Watcher, OpenWatches,
           ReadUserEvent, ListCallbacks, InvokeCallback, InvokedAll, InvokeNoUrl,
           ReadCallbackEvent, InitializeCallback, Initialized, WatchBreaks, InvokeRetry,
           InvokeFails, ListUsersFails, Restart, vars, env_vars
  <2> QED  BY <1>0, <2>1, <2>2 DEF Quiet
<1>2. Deliveries /\ EachVersionOnce  BY <1>1 DEF Once
<1>3. CASE Environment
  <2>1. /\ UNCHANGED <<open, mem_vars, job, got, bound_vars>> /\ cacheUser' = cacheUser
        /\ got' = got
    BY <1>3 DEF Environment, mem_vars
  <2>2. ASSUME NEW n \in Names, NEW v \in UserObj \cup {NoUser}, NEW e \in Events, Change(n, v, e)
        PROVE  Deliveries' /\ EachVersionOnce'
    BY <1>1, <1>2, <2>1, <2>2, ChangeDelivered, SilentOnce
  <2>3. \A n \in Names, o \in UserObj, t \in {"ADDED", "MODIFIED", "DELETED"} :
           Event(t, n, o) \in Events
    BY DEF Event, Events
  <2>4. ASSUME NEW n \in Names, CreateUser(n)  PROVE Deliveries' /\ EachVersionOnce'
    BY <2>1, <2>2, <2>3, <2>4, CreateUserKeeps
  <2>5. ASSUME NEW n \in Names, ModifyUser(n)  PROVE Deliveries' /\ EachVersionOnce'
    BY <2>1, <2>2, <2>3, <2>5, ModifyUserKeeps
  <2>6. ASSUME NEW n \in Names, DeleteUser(n)  PROVE Deliveries' /\ EachVersionOnce'
    <3>1. PICK e : e = Event("DELETED", n, user[n])  OBVIOUS
    <3>2. Change(n, NoUser, e) /\ e \in Events  BY <2>1, <2>3, <2>6, <3>1, DeleteUserKeeps
    <3> QED  BY <2>2, <3>2
  <2>7. ASSUME NEW c \in Callbacks, Register(c)  PROVE Deliveries' /\ EachVersionOnce'
    <3>1. user' = user /\ userEv' = userEv /\ job' = job  BY <2>1, <2>7 DEF Register
    <3>2. Rest(0)  BY <1>0, <3>1, RestOf
    <3>3. SameCall /\ (InCall => InCall' /\ job'.ev = job.ev)
      BY <3>1 DEF SameCall, InCall, Due
    <3> QED  BY <1>0, <1>1, <1>2, <2>1, <3>1, <3>2, <3>3, StillOnce
  <2> QED  BY <1>3, <2>4, <2>5, <2>6, <2>7 DEF Environment
<1>4. CASE OpenWatches
  <2>1. got' = got  BY <1>4 DEF OpenWatches
  <2> QED  BY <1>1, <1>2, <1>4, <2>1, OpenDelivered, SilentOnce
<1>5. CASE ReadUserEvent
  <2>1. got' = got  BY <1>5 DEF ReadUserEvent
  <2> QED  BY <1>1, <1>2, <1>5, <2>1, ReadDelivered, SilentOnce
<1>6. CASE ListCallbacks
  <2>1. UNCHANGED <<user, userEv, cacheUser, got>>  BY <1>6 DEF ListCallbacks, env_vars, mem_vars
  <2>2. job'.do = "call" /\ job'.ev = job.ev /\ job.do = "list"
    <3>1. job \in Jobs /\ job.do = "list"
          /\ job' = [job EXCEPT !.do = "call", !.list = registered]
      BY <1>0, <1>6 DEF ListCallbacks, Types
    <3> QED  BY <3>1 DEF Jobs
  <2>3. InCall /\ InCall' /\ SameCall  BY <2>2 DEF InCall, SameCall, Due
  <2>4. Rest(0)  BY <1>0, <2>1, RestOf
  <2> QED  BY <1>0, <1>1, <1>2, <2>1, <2>2, <2>3, <2>4, StillOnce
<1>7. CASE InvokeCallback  BY <1>1, <1>2, <1>7, InvokeDelivered
<1>8. CASE InvokedAll
  <2>1. got' = got  BY <1>8 DEF InvokedAll
  <2> QED  BY <1>1, <1>2, <1>8, <2>1, InvokedDelivered, SilentOnce
<1>9. CASE InitializeCallback  BY <1>1, <1>2, <1>9, InitializeDelivered
<1>10. CASE ReadCallbackEvent \/ Initialized \/ WatchBreaks
  <2>1. UNCHANGED <<user, cacheUser, got>> /\ (userEv' = userEv \/ userEv' = <<>>)
    BY <1>10 DEF ReadCallbackEvent, Initialized, WatchBreaks, env_vars, mem_vars
  <2>2. Rest(0)  BY <1>0, <2>1, RestOf
  <2>3. ~InCall
    BY <1>10, IdleJob DEF ReadCallbackEvent, Initialized, WatchBreaks, InCall
  <2>4. ~InCall'
    <3>1. CASE ReadCallbackEvent
      <4>1. PICK U : U = {Event("ADDED", n, user[n]) : n \in Existing}  OBVIOUS
      <4>2. \/ job' = Idle
            \/ job' = [Idle EXCEPT !.do = "users", !.cb = Head(cbEv), !.users = U]
        BY <3>1, <4>1 DEF ReadCallbackEvent
      <4>3. PICK h : h = Head(cbEv)  OBVIOUS
      <4>4. job' = [Idle EXCEPT !.do = "users", !.cb = h, !.users = U] => job'.do = "users"
        BY DEF Idle
      <4>5. job' = Idle => job'.do = "idle"  BY IdleJob
      <4> QED  BY <4>2, <4>3, <4>4, <4>5 DEF InCall
    <3>2. CASE Initialized \/ WatchBreaks
      <4>1. job' = Idle  BY <3>2 DEF Initialized, WatchBreaks
      <4> QED  BY <4>1, IdleJob
    <3> QED  BY <1>10, <3>1, <3>2
  <2>5. SameCall  BY <2>4 DEF SameCall, InCall, Due
  <2> QED  BY <1>0, <1>1, <1>2, <2>1, <2>2, <2>3, <2>5, StillOnce
<1>13. ~InvokeNoUrl
  <2> SUFFICES ASSUME Calling, Min(job.list) \in NoUrl  PROVE FALSE
    BY DEF InvokeNoUrl
  <2>1. job.list \subseteq registered /\ job.list # {}  BY DEF Calling, CallsRegistered
  <2>2. job.list \subseteq Nat
    <3>1. registered \subseteq Callbacks  BY <1>0 DEF Types
    <3>2. Callbacks \subseteq Nat  BY UserWatchAssumption DEF Callbacks
    <3> QED  BY <2>1, <3>1, <3>2
  <2>3. Min(job.list) \in job.list  BY <2>1, <2>2, MinIn
  <2> QED  BY <1>1, <2>1, <2>3 DEF Quiet
<1>11. ~(InvokeRetry \/ InvokeFails \/ ListUsersFails \/ Restart)
  <2>1. InvokeRetry \/ InvokeFails \/ ListUsersFails \/ Restart =>
           faults' = faults + 1 \/ restarts' = restarts + 1
    BY DEF InvokeRetry, InvokeFails, ListUsersFails, CallFails, Restart
  <2> QED  BY <1>0, <1>1, <2>1
<1>12. CASE UNCHANGED vars
  <2>1. UNCHANGED <<user, userEv, cacheUser, got, job>>  BY <1>12 DEF vars, env_vars, mem_vars
  <2>2. Rest(0)  BY <1>0, <2>1, RestOf
  <2>3. SameCall /\ (InCall => InCall' /\ job'.ev = job.ev)
    BY <2>1 DEF SameCall, InCall, Due
  <2> QED  BY <1>0, <1>1, <1>2, <2>1, <2>2, <2>3, StillOnce
<1> QED
  BY <1>3, <1>4, <1>5, <1>6, <1>7, <1>8, <1>9, <1>10, <1>11, <1>12, <1>13 DEF Next, Watcher

\* A callback is called about an activation once, but for repetitions of a call that
\* failed, and of a version of a user once as long as nothing fails: what a new watch repeats has been recorded, or is still to be
\* delivered.
THEOREM NoDuplicatesHolds == Spec => []NoDuplicates
<1>1. Init => Once
  <2> SUFFICES ASSUME Init  PROVE Deliveries /\ EachVersionOnce
    BY DEF Once
  <2>1. \A c \in Callbacks : got[c] = <<>> /\ Told(c) = {}  BY DEF Init, Told
  <2> QED  BY <2>1 DEF Deliveries, EachVersionOnce
<1>2. WInv /\ Once => NoDuplicates
  <2> SUFFICES ASSUME WInv, Once  PROVE NoDuplicates
    OBVIOUS
  <2>0. Types  BY DEF WInv
  <2>1. \A i \in DOMAIN userEv : userEv[i].obj \in UserObj /\ userEv[i].name \in Names
    BY <2>0, Known
  <2>2. job.do \in {"idle", "list", "call", "users"} /\ job.list \subseteq Callbacks
    BY <2>0 DEF Types, Jobs
  <2>3. TypeOK  BY <2>0, <2>1, <2>2 DEF Types, TypeOK
  <2>4. EachVersionOnce  BY DEF Once, EachVersionOnce, Quiet
  <2> QED  BY <2>3, <2>4 DEF WInv, NoDuplicates
<1>3. Init => CallsRegistered  BY IdleJob DEF Init, CallsRegistered, Idle
<1>4. WInv /\ CallsRegistered /\ [Next]_vars => CallsRegistered'  BY RegisteredStep DEF WInv
<1> QED  BY <1>1, <1>2, <1>3, <1>4, WInvInit, WInvStep, OnceStep, PTL DEF Spec

----------------------------------------------------------------------------
(* The queue of events: the inductive invariant.                           *)

\* What may be left of the program of an item of kind k.
Remainder(k) ==
    CASE k \in {"appAdd", "appDelete", "custom"} -> {<<"notifyUser">>, <<>>}
      [] k = "recommend" -> {<<"callbacks", "owner", "notifyUser">>, <<"owner", "notifyUser">>,
                             <<"notifyUser">>, <<>>}
      [] k \in {"appSuspend", "userAdd"} -> {<<"admin", "notifyAdmin">>, <<"notifyAdmin">>, <<>>}
      [] k = "userDelete" -> {<<"admin", "notifyAdmin", "corefile">>, <<"notifyAdmin", "corefile">>,
                              <<"corefile">>, <<>>}
      [] k = "corefile" -> {<<"corefile">>, <<>>}
      [] k = "cluster" -> {<<"admin", "callbacks", "notifyAdmin">>, <<"callbacks", "notifyAdmin">>,
                           <<"notifyAdmin">>, <<>>}
      [] k = "user" -> {<<"admin", "callbacks", "alertAdmin", "alertUser", "stamp">>,
                        <<"callbacks", "alertAdmin", "alertUser", "stamp">>,
                        <<"alertAdmin", "alertUser", "stamp">>, <<"alertUser", "stamp">>,
                        <<"stamp">>, <<>>}

\* Items that are for a user name one.
Proper(i) == i.kind \notin {"cluster", "recommend"} => i.user \in Users

\* The worker runs an item: what is left is of its kind, the user is known when a
\* message to him comes next, and the walk over the callbacks is at its start
\* unless it is under way.
InWork ==
    /\ worker \in [item : Item, todo : Remainder(worker.item.kind), cb : 1 .. LastCallback + 1,
                   user : Users \cup {Nobody}, err : BOOLEAN]
    /\ Proper(worker.item)
    /\ worker.item.kind # "recommend" => worker.user = worker.item.user
    /\ worker.item.kind = "recommend" /\ worker.todo = <<"notifyUser">> => worker.user \in Users
    /\ ~Step("callbacks") => worker.cb = 1

QueueTypes ==
    /\ queue \in Seq(Item) /\ delayed \subseteq Item /\ last \in 0 .. MaxItems
    /\ \A j \in DOMAIN queue : Proper(queue[j])
    /\ \A i \in delayed : Proper(i)
    /\ worker = NoWork \/ InWork

HistoryTypes ==
    /\ sent \in Seq(Ids \X Says \X Users)
    /\ told \in [Ids -> [1 .. LastCallback -> Nat]]
    /\ unsure \in [Ids -> [1 .. LastCallback -> Nat]]
    /\ failures \in [Ids -> Nat]
    /\ done \subseteq Item /\ lost \subseteq Ids

SourceTypes ==
    /\ up \in BOOLEAN /\ polling \in BOOLEAN /\ minute \subseteq {"cluster", "user"}
    /\ app \in {"absent", "fresh", "old"} /\ ns \in {"absent", "plain", "labelled"}

\* An item is in one place, and has been given its number.
OnePlace ==
    /\ \A j \in DOMAIN queue : queue[j].id <= last
    /\ \A i \in delayed : i.id <= last
    /\ Busy => worker.item.id <= last
    /\ \A j, k \in DOMAIN queue : queue[j].id = queue[k].id => j = k
    /\ \A j \in DOMAIN queue, i \in delayed : queue[j].id # i.id
    /\ Busy => \A j \in DOMAIN queue : queue[j].id # worker.item.id
    /\ Busy => \A i \in delayed : i.id # worker.item.id
    /\ \A i, k \in delayed : i.id = k.id => i = k
    /\ \A m \in DOMAIN sent : sent[m][1] <= last

\* Item number i comes no earlier than number k, or has failed.
Behind(k, i) == k <= i \/ failures[i] > 0

\* What has not failed comes in the order of the numbers.
InTurn ==
    /\ \A i \in delayed : failures[i.id] > 0
    /\ \A j, k \in DOMAIN queue : j < k => Behind(queue[j].id, queue[k].id)
    /\ Busy => \A k \in DOMAIN queue : Behind(worker.item.id, queue[k].id)
    /\ \A m \in DOMAIN sent, k \in DOMAIN queue : Behind(sent[m][1], queue[k].id)
    /\ Busy => \A m \in DOMAIN sent : Behind(sent[m][1], worker.item.id)
    /\ FifoUnlessFailed

\* How often a message has been sent: not yet in this attempt, if it is still to come.
Count(i, s, u) == Cardinality({m \in DOMAIN sent : sent[m] = <<i, s, u>>})
Counted ==
    \A s \in Says, u \in Users :
        /\ \A i \in Ids : Count(i, s, u) <= failures[i] + 1
        /\ \A j \in DOMAIN queue : Count(queue[j].id, s, u) <= failures[queue[j].id]
        /\ \A i \in delayed : Count(i.id, s, u) <= failures[i.id]
        /\ Busy /\ s \in Range(worker.todo) =>
              Count(worker.item.id, s, u) <= failures[worker.item.id]

\* The walk over the callbacks has told those before worker.cb once more.
Walked ==
    /\ \A i \in Ids : \A c, d \in 1 .. LastCallback : c < d => told[i][c] >= told[i][d]
    /\ Step("callbacks") =>
          \A c, d \in 1 .. LastCallback : c < worker.cb /\ worker.cb <= d =>
              told[worker.item.id][c] > told[worker.item.id][d]

\* A callback has been called when those before it had been told.
InListOrder ==
    \A i \in Ids : \A c, d \in 1 .. LastCallback :
        c < d => (unsure[i][d] > 0 => told[i][c] > 0)

\* An hour that has not begun may have its round.
Rounds ==
    /\ rounds \in Nat /\ hours \in Nat /\ crashes \in Nat /\ hour \in BOOLEAN
    /\ rounds <= hours + crashes + (IF hour THEN 1 ELSE 0)
    /\ Step("alertUser") \/ Step("stamp") => ~hour

\* What the worker has behind it has been sent.
Got(i, u) == \E n \in DOMAIN sent : sent[n][1] = i /\ sent[n][3] = u
Informed ==
    /\ Busy /\ worker.item.kind \in {"appAdd", "appDelete", "custom"} /\ worker.todo = <<>> =>
          Got(worker.item.id, worker.user)
    /\ Busy /\ worker.item.kind = "recommend" /\ worker.todo = <<>> =>
          worker.user = Nobody \/ Got(worker.item.id, worker.user)
    /\ (/\ Busy /\ worker.item.kind \in {"appSuspend", "userAdd", "userDelete", "cluster"}
        /\ worker.todo \in {<<>>, <<"corefile">>}) => Got(worker.item.id, Admin)
    /\ DoneMeansTold

EInv == /\ QueueTypes /\ HistoryTypes /\ SourceTypes /\ OnePlace /\ InTurn /\ Counted
        /\ Walked /\ InListOrder /\ Rounds /\ Informed

----------------------------------------------------------------------------
(* Programs and sequences.                                                 *)

\* Short sequences.
LEMMA Tails ==
    ASSUME NEW a, NEW b, NEW c, NEW d, NEW e
    PROVE  /\ Tail(<<a>>) = <<>> /\ Tail(<<a, b>>) = <<b>> /\ Tail(<<a, b, c>>) = <<b, c>>
           /\ Tail(<<a, b, c, d>>) = <<b, c, d>> /\ Tail(<<a, b, c, d, e>>) = <<b, c, d, e>>
OBVIOUS
\* A pair and one more are a triple.
LEMMA Three ==
    ASSUME NEW a, NEW b, NEW c  PROVE <<a, b>> \o <<c>> = <<a, b, c>>
<1> DEFINE t == <<a, b>> \o <<c>>
           S == {a, b, c}
<1>1. <<a, b>> \in Seq(S) /\ <<c>> \in Seq(S) /\ Len(<<a, b>>) = 2 /\ Len(<<c>>) = 1  OBVIOUS
<1>2. t \in Seq(S) /\ Len(t) = 3  BY <1>1
<1>3. t[1] = a /\ t[2] = b /\ t[3] = c  BY <1>1
<1> HIDE DEF t
<1>4. DOMAIN t = 1 .. 3 /\ t = [j \in 1 .. 3 |-> t[j]]  BY <1>2
<1>5. DOMAIN <<a, b, c>> = 1 .. 3 /\ <<a, b, c>> = [j \in 1 .. 3 |-> <<a, b, c>>[j]]  OBVIOUS
<1>6. \A j \in 1 .. 3 : t[j] = <<a, b, c>>[j]  BY <1>3
<1>7. t = <<a, b, c>>  BY <1>4, <1>5, <1>6
<1> QED  BY <1>7 DEF t

\* The worker begins with the program of the item's kind.
LEMMA DoRemains ==
    ASSUME NEW i \in Item  PROVE Do(i) \in Remainder(i.kind)
<1>1. Notify \o <<"corefile">> = <<"admin", "notifyAdmin", "corefile">>  BY Three DEF Notify
<1>2. Notify = <<"admin", "notifyAdmin">>  BY DEF Notify
<1>3. i.kind \in Kinds  BY DEF Item
<1>4. CASE i.kind \in {"appAdd", "appDelete", "appSuspend"}  BY <1>4 DEF Do, Remainder, AppsDo
<1>5. CASE i.kind \in {"userAdd", "userDelete"}  BY <1>1, <1>2, <1>5 DEF Do, Remainder, UsersDo
<1>6. CASE i.kind \in {"cluster", "user"}  BY <1>6 DEF Do, Remainder, MetricsDo
<1>7. CASE i.kind \in {"recommend", "corefile", "custom"}
  BY <1>7 DEF Do, Remainder, WorkflowsDo, CustomDo
<1> QED  BY <1>3, <1>4, <1>5, <1>6, <1>7 DEF Kinds

\* It does one call after the other, none of them twice.
LEMMA OneByOne ==
    ASSUME NEW k \in Kinds, NEW t \in Remainder(k), t # <<>>
    PROVE  /\ Tail(t) \in Remainder(k) /\ Head(t) \in Range(t)
           /\ Head(t) \notin Range(Tail(t)) /\ Range(Tail(t)) \subseteq Range(t)
<1>1. CASE k \in {"appAdd", "appDelete", "custom"}
  <2>1. Remainder(k) = {<<"notifyUser">>, <<>>}
    BY <1>1 DEF Remainder
  <2>2. CASE t = <<"notifyUser">>
    <3>1. Head(t) = "notifyUser" /\ Tail(t) = <<>>  BY <2>2, Tails
    <3>2. Range(t) = {"notifyUser"}  BY <2>2 DEF Range
    <3>3. Range(<<>>) = {}  BY DEF Range
    <3> QED  BY <2>1, <3>1, <3>2, <3>3
  <2> QED  BY <2>1, <2>2
<1>2. CASE k = "recommend"
  <2>1. Remainder(k) = {<<"callbacks", "owner", "notifyUser">>, <<"owner", "notifyUser">>, <<"notifyUser">>, <<>>}
    BY <1>2 DEF Remainder
  <2>2. CASE t = <<"callbacks", "owner", "notifyUser">>
    <3>1. Head(t) = "callbacks" /\ Tail(t) = <<"owner", "notifyUser">>  BY <2>2, Tails
    <3>2. Range(t) = {"callbacks", "owner", "notifyUser"}  BY <2>2 DEF Range
    <3>3. Range(<<"owner", "notifyUser">>) = {"owner", "notifyUser"}  BY DEF Range
    <3> QED  BY <2>1, <3>1, <3>2, <3>3
  <2>3. CASE t = <<"owner", "notifyUser">>
    <3>1. Head(t) = "owner" /\ Tail(t) = <<"notifyUser">>  BY <2>3, Tails
    <3>2. Range(t) = {"owner", "notifyUser"}  BY <2>3 DEF Range
    <3>3. Range(<<"notifyUser">>) = {"notifyUser"}  BY DEF Range
    <3> QED  BY <2>1, <3>1, <3>2, <3>3
  <2>4. CASE t = <<"notifyUser">>
    <3>1. Head(t) = "notifyUser" /\ Tail(t) = <<>>  BY <2>4, Tails
    <3>2. Range(t) = {"notifyUser"}  BY <2>4 DEF Range
    <3>3. Range(<<>>) = {}  BY DEF Range
    <3> QED  BY <2>1, <3>1, <3>2, <3>3
  <2> QED  BY <2>1, <2>2, <2>3, <2>4
<1>3. CASE k \in {"appSuspend", "userAdd"}
  <2>1. Remainder(k) = {<<"admin", "notifyAdmin">>, <<"notifyAdmin">>, <<>>}
    BY <1>3 DEF Remainder
  <2>2. CASE t = <<"admin", "notifyAdmin">>
    <3>1. Head(t) = "admin" /\ Tail(t) = <<"notifyAdmin">>  BY <2>2, Tails
    <3>2. Range(t) = {"admin", "notifyAdmin"}  BY <2>2 DEF Range
    <3>3. Range(<<"notifyAdmin">>) = {"notifyAdmin"}  BY DEF Range
    <3> QED  BY <2>1, <3>1, <3>2, <3>3
  <2>3. CASE t = <<"notifyAdmin">>
    <3>1. Head(t) = "notifyAdmin" /\ Tail(t) = <<>>  BY <2>3, Tails
    <3>2. Range(t) = {"notifyAdmin"}  BY <2>3 DEF Range
    <3>3. Range(<<>>) = {}  BY DEF Range
    <3> QED  BY <2>1, <3>1, <3>2, <3>3
  <2> QED  BY <2>1, <2>2, <2>3
<1>4. CASE k = "userDelete"
  <2>1. Remainder(k) = {<<"admin", "notifyAdmin", "corefile">>, <<"notifyAdmin", "corefile">>, <<"corefile">>, <<>>}
    BY <1>4 DEF Remainder
  <2>2. CASE t = <<"admin", "notifyAdmin", "corefile">>
    <3>1. Head(t) = "admin" /\ Tail(t) = <<"notifyAdmin", "corefile">>  BY <2>2, Tails
    <3>2. Range(t) = {"admin", "notifyAdmin", "corefile"}  BY <2>2 DEF Range
    <3>3. Range(<<"notifyAdmin", "corefile">>) = {"notifyAdmin", "corefile"}  BY DEF Range
    <3> QED  BY <2>1, <3>1, <3>2, <3>3
  <2>3. CASE t = <<"notifyAdmin", "corefile">>
    <3>1. Head(t) = "notifyAdmin" /\ Tail(t) = <<"corefile">>  BY <2>3, Tails
    <3>2. Range(t) = {"notifyAdmin", "corefile"}  BY <2>3 DEF Range
    <3>3. Range(<<"corefile">>) = {"corefile"}  BY DEF Range
    <3> QED  BY <2>1, <3>1, <3>2, <3>3
  <2>4. CASE t = <<"corefile">>
    <3>1. Head(t) = "corefile" /\ Tail(t) = <<>>  BY <2>4, Tails
    <3>2. Range(t) = {"corefile"}  BY <2>4 DEF Range
    <3>3. Range(<<>>) = {}  BY DEF Range
    <3> QED  BY <2>1, <3>1, <3>2, <3>3
  <2> QED  BY <2>1, <2>2, <2>3, <2>4
<1>5. CASE k = "corefile"
  <2>1. Remainder(k) = {<<"corefile">>, <<>>}
    BY <1>5 DEF Remainder
  <2>2. CASE t = <<"corefile">>
    <3>1. Head(t) = "corefile" /\ Tail(t) = <<>>  BY <2>2, Tails
    <3>2. Range(t) = {"corefile"}  BY <2>2 DEF Range
    <3>3. Range(<<>>) = {}  BY DEF Range
    <3> QED  BY <2>1, <3>1, <3>2, <3>3
  <2> QED  BY <2>1, <2>2
<1>6. CASE k = "cluster"
  <2>1. Remainder(k) = {<<"admin", "callbacks", "notifyAdmin">>, <<"callbacks", "notifyAdmin">>, <<"notifyAdmin">>, <<>>}
    BY <1>6 DEF Remainder
  <2>2. CASE t = <<"admin", "callbacks", "notifyAdmin">>
    <3>1. Head(t) = "admin" /\ Tail(t) = <<"callbacks", "notifyAdmin">>  BY <2>2, Tails
    <3>2. Range(t) = {"admin", "callbacks", "notifyAdmin"}  BY <2>2 DEF Range
    <3>3. Range(<<"callbacks", "notifyAdmin">>) = {"callbacks", "notifyAdmin"}  BY DEF Range
    <3> QED  BY <2>1, <3>1, <3>2, <3>3
  <2>3. CASE t = <<"callbacks", "notifyAdmin">>
    <3>1. Head(t) = "callbacks" /\ Tail(t) = <<"notifyAdmin">>  BY <2>3, Tails
    <3>2. Range(t) = {"callbacks", "notifyAdmin"}  BY <2>3 DEF Range
    <3>3. Range(<<"notifyAdmin">>) = {"notifyAdmin"}  BY DEF Range
    <3> QED  BY <2>1, <3>1, <3>2, <3>3
  <2>4. CASE t = <<"notifyAdmin">>
    <3>1. Head(t) = "notifyAdmin" /\ Tail(t) = <<>>  BY <2>4, Tails
    <3>2. Range(t) = {"notifyAdmin"}  BY <2>4 DEF Range
    <3>3. Range(<<>>) = {}  BY DEF Range
    <3> QED  BY <2>1, <3>1, <3>2, <3>3
  <2> QED  BY <2>1, <2>2, <2>3, <2>4
<1>7. CASE k = "user"
  <2>1. Remainder(k) = {<<"admin", "callbacks", "alertAdmin", "alertUser", "stamp">>, <<"callbacks", "alertAdmin", "alertUser", "stamp">>, <<"alertAdmin", "alertUser", "stamp">>, <<"alertUser", "stamp">>, <<"stamp">>, <<>>}
    BY <1>7 DEF Remainder
  <2>2. CASE t = <<"admin", "callbacks", "alertAdmin", "alertUser", "stamp">>
    <3>1. Head(t) = "admin" /\ Tail(t) = <<"callbacks", "alertAdmin", "alertUser", "stamp">>  BY <2>2, Tails
    <3>2. Range(t) = {"admin", "callbacks", "alertAdmin", "alertUser", "stamp"}  BY <2>2 DEF Range
    <3>3. Range(<<"callbacks", "alertAdmin", "alertUser", "stamp">>) = {"callbacks", "alertAdmin", "alertUser", "stamp"}  BY DEF Range
    <3> QED  BY <2>1, <3>1, <3>2, <3>3
  <2>3. CASE t = <<"callbacks", "alertAdmin", "alertUser", "stamp">>
    <3>1. Head(t) = "callbacks" /\ Tail(t) = <<"alertAdmin", "alertUser", "stamp">>  BY <2>3, Tails
    <3>2. Range(t) = {"callbacks", "alertAdmin", "alertUser", "stamp"}  BY <2>3 DEF Range
    <3>3. Range(<<"alertAdmin", "alertUser", "stamp">>) = {"alertAdmin", "alertUser", "stamp"}  BY DEF Range
    <3> QED  BY <2>1, <3>1, <3>2, <3>3
  <2>4. CASE t = <<"alertAdmin", "alertUser", "stamp">>
    <3>1. Head(t) = "alertAdmin" /\ Tail(t) = <<"alertUser", "stamp">>  BY <2>4, Tails
    <3>2. Range(t) = {"alertAdmin", "alertUser", "stamp"}  BY <2>4 DEF Range
    <3>3. Range(<<"alertUser", "stamp">>) = {"alertUser", "stamp"}  BY DEF Range
    <3> QED  BY <2>1, <3>1, <3>2, <3>3
  <2>5. CASE t = <<"alertUser", "stamp">>
    <3>1. Head(t) = "alertUser" /\ Tail(t) = <<"stamp">>  BY <2>5, Tails
    <3>2. Range(t) = {"alertUser", "stamp"}  BY <2>5 DEF Range
    <3>3. Range(<<"stamp">>) = {"stamp"}  BY DEF Range
    <3> QED  BY <2>1, <3>1, <3>2, <3>3
  <2>6. CASE t = <<"stamp">>
    <3>1. Head(t) = "stamp" /\ Tail(t) = <<>>  BY <2>6, Tails
    <3>2. Range(t) = {"stamp"}  BY <2>6 DEF Range
    <3>3. Range(<<>>) = {}  BY DEF Range
    <3> QED  BY <2>1, <3>1, <3>2, <3>3
  <2> QED  BY <2>1, <2>2, <2>3, <2>4, <2>5, <2>6
<1> QED  BY <1>1, <1>2, <1>3, <1>4, <1>5, <1>6, <1>7 DEF Kinds

\* The program of any item may be at its end.
LEMMA NothingRemains ==
    ASSUME NEW k \in Kinds  PROVE <<>> \in Remainder(k)
BY DEF Remainder, Kinds

\* Two sequences in a row, and a sequence without its head.
LEMMA Joined ==
    ASSUME NEW S, NEW p \in Seq(S), NEW s \in Seq(S)
    PROVE  /\ p \o s \in Seq(S)
           /\ DOMAIN (p \o s) = 1 .. Len(p) + Len(s)
           /\ \A j \in DOMAIN (p \o s) :
                 \/ j \in DOMAIN p /\ (p \o s)[j] = p[j]
                 \/ /\ j > Len(p) /\ j - Len(p) \in DOMAIN s
                    /\ (p \o s)[j] = s[j - Len(p)]
OBVIOUS

\* A sequence without its first element.
LEMMA Without ==
    ASSUME NEW S, NEW p \in Seq(S), p # <<>>
    PROVE  /\ Head(p) = p[1] /\ 1 \in DOMAIN p /\ Head(p) \in S
           /\ Tail(p) \in Seq(S)
           /\ \A j \in DOMAIN Tail(p) : j \in Nat /\ j + 1 \in DOMAIN p /\ j + 1 > 1 /\ Tail(p)[j] = p[j + 1]
OBVIOUS

\* A sequence with one element more.
LEMMA Appended ==
    ASSUME NEW S, NEW p \in Seq(S), NEW x \in S
    PROVE  /\ Append(p, x) \in Seq(S)
           /\ DOMAIN p \subseteq DOMAIN Append(p, x)
           /\ DOMAIN Append(p, x) = DOMAIN p \cup {Len(p) + 1}
           /\ Len(p) + 1 \notin DOMAIN p /\ Append(p, x)[Len(p) + 1] = x
           /\ \A j \in DOMAIN p : j \in Nat /\ j < Len(p) + 1 /\ Append(p, x)[j] = p[j]
OBVIOUS

\* Elements of the messages sent.
LEMMA MessageParts ==
    ASSUME HistoryTypes, NEW m \in DOMAIN sent
    PROVE  /\ sent[m] \in Ids \X Says \X Users
           /\ sent[m][1] \in Ids /\ sent[m][2] \in Says /\ sent[m][3] \in Users
BY DEF HistoryTypes

----------------------------------------------------------------------------
(* The sources of events only add new items at the end of the queue.       *)

News(s) == /\ s \in Seq(Item)
           /\ last + Len(s) <= MaxItems
           /\ \A j \in DOMAIN s : s[j].id = last + j /\ Proper(s[j])
           /\ queue' = queue \o s /\ last' = last + Len(s)

\* A step that leaves the queue alone brings no news.
LEMMA NothingNew ==
    ASSUME QueueTypes, UNCHANGED <<queue, last>>
    PROVE  \E s : News(s)
<1>1. News(<<>>)
  <2>1. queue \in Seq(Item) /\ last \in Nat /\ last <= MaxItems
    BY SysEventsAssumption DEF QueueTypes
  <2>2. queue \o <<>> = queue  BY <2>1
  <2> QED  BY <2>1, <2>2 DEF News
<1> QED  BY <1>1

\* The items that Enqueue makes.
LEMMA AddedNews ==
    ASSUME QueueTypes, NEW k \in Kinds, NEW u \in Users \cup {Nobody},
           k \notin {"cluster", "recommend"} => u \in Users,
           last + 1 <= MaxItems
    PROVE  LET s == <<[id |-> last + 1, kind |-> k, user |-> u]>> IN
           /\ Added(queue, last, <<k>>, u) = queue \o s
           /\ s \in Seq(Item) /\ \A j \in DOMAIN s : s[j].id = last + j /\ Proper(s[j])
           /\ Len(s) = 1
<1> DEFINE i == [id |-> last + 1, kind |-> k, user |-> u]
           s == <<i>>
           t == [j \in 1 .. Len(<<k>>) |-> [id |-> last + j, kind |-> <<k>>[j], user |-> u]]
<1>1. last \in Nat /\ last + 1 \in Ids  BY SysEventsAssumption DEF QueueTypes, Ids
<1>2. i \in Item  BY <1>1 DEF Item
<1>3. t = s
  <2>1. Len(<<k>>) = 1 /\ <<k>>[1] = k  OBVIOUS
  <2>2. DOMAIN t = 1 .. 1 /\ \A j \in 1 .. 1 : t[j] = i  BY <2>1
  <2>3. t = [j \in 1 .. 1 |-> i]  BY <2>2
  <2> HIDE DEF i, t
  <2> QED  BY <2>3
<1>4. Added(queue, last, <<k>>, u) = queue \o t  BY DEF Added
<1>5. Proper(i)  BY DEF Proper
<1>6. \A j \in DOMAIN s : s[j].id = last + j /\ Proper(s[j])
  <2>1. \A j \in DOMAIN s : j = 1 /\ s[j] = i  OBVIOUS
  <2>2. i.id = last + 1  OBVIOUS
  <2> HIDE DEF i
  <2> QED  BY <1>1, <1>5, <2>1, <2>2
<1> QED  BY <1>2, <1>3, <1>4, <1>6

\* Enqueue brings one piece of news, ...
LEMMA EnqueueNews ==
    ASSUME QueueTypes, NEW k \in Kinds, NEW u \in Users \cup {Nobody},
           k \notin {"cluster", "recommend"} => u \in Users,
           Enqueue(<<k>>, u)
    PROVE  \E s : News(s)
<1> DEFINE s == <<[id |-> last + 1, kind |-> k, user |-> u]>>
<1>1. last + 1 <= MaxItems /\ queue' = Added(queue, last, <<k>>, u) /\ last' = last + 1
  <2>1. Len(<<k>>) = 1  OBVIOUS
  <2> QED  BY <2>1 DEF Enqueue
<1>2. /\ queue' = queue \o s
      /\ s \in Seq(Item) /\ \A j \in DOMAIN s : s[j].id = last + j /\ Proper(s[j])
      /\ Len(s) = 1
  BY <1>1, AddedNews
<1> HIDE DEF s
<1>3. News(s)  BY <1>1, <1>2 DEF News
<1> QED  BY <1>3

\* ... and so does a report.
LEMMA ReportNews ==
    ASSUME QueueTypes, NEW k \in Kinds, NEW u \in Users \cup {Nobody},
           k \notin {"cluster", "recommend"} => u \in Users,
           Report(<<k>>, u)
    PROVE  \E s : News(s)
BY EnqueueNews, NothingNew DEF Report

\* One round of the poll queues at most one item of each metric.
LEMMA PollNews ==
    ASSUME QueueTypes, SourceTypes, Poll
    PROVE  (\E s : News(s)) /\ minute' \subseteq {"cluster", "user"}
<1>1. PICK high \in SUBSET ({Nobody} \cup Users) :
         LET us == UserDue(high)
             cs == IF ClusterDue(high) THEN <<"cluster">> ELSE <<>>
             q == Added(queue, last, cs, Nobody)
             n == last + Len(cs) IN
         /\ cs # <<>> \/ us # {}
         /\ queue' = IF us = {} THEN q ELSE Added(q, n, <<"user">>, Min(us))
         /\ last' = (IF us = {} THEN n ELSE n + 1) /\ last' <= MaxItems
         /\ minute' = minute \cup (IF cs = <<>> THEN {} ELSE {"cluster"})
                            \cup (IF us = {} THEN {} ELSE {"user"})
  BY DEF Poll
<1> DEFINE us == UserDue(high)
           cs == IF ClusterDue(high) THEN <<"cluster">> ELSE <<>>
           q == Added(queue, last, cs, Nobody)
           n == last + Len(cs)
           c == [id |-> last + 1, kind |-> "cluster", user |-> Nobody]
           a(m) == [id |-> m + 1, kind |-> "user", user |-> Min(us)]
<1>2. minute' \subseteq {"cluster", "user"}  BY <1>1 DEF SourceTypes
<1>3. last \in Nat /\ MaxItems \in Nat /\ queue \in Seq(Item)
  BY SysEventsAssumption DEF QueueTypes
<1>4. us # {} => Min(us) \in Users
  <2>1. us \subseteq Nat /\ us \subseteq Users  BY SysEventsAssumption DEF UserDue, Users
  <2> QED  BY <2>1, MinIn
<1>5. Added(queue, last, <<>>, Nobody) = queue
  <2>1. [j \in 1 .. Len(<<>>) |-> [id |-> last + j, kind |-> <<>>[j], user |-> Nobody]] = <<>>
    OBVIOUS
  <2> QED  BY <1>3, <2>1 DEF Added
<1>6. ASSUME NEW p \in Seq(Item), NEW m \in Nat, us # {}
      PROVE  Added(p, m, <<"user">>, Min(us)) = p \o <<a(m)>>
  <2>1. [j \in 1 .. Len(<<"user">>) |-> [id |-> m + j, kind |-> <<"user">>[j], user |-> Min(us)]] = <<a(m)>>
    OBVIOUS
  <2> QED  BY <2>1 DEF Added
<1>7. CASE us = {}
  <2>1. ClusterDue(high) /\ Len(<<"cluster">>) = 1  BY <1>1, <1>7
  <2>2. queue' = Added(queue, last, <<"cluster">>, Nobody) /\ last' = last + 1 /\ last' <= MaxItems
    BY <1>1, <1>7, <2>1
  <2>3. Enqueue(<<"cluster">>, Nobody)  BY <2>1, <2>2 DEF Enqueue
  <2> QED  BY <1>2, <2>3, EnqueueNews DEF Kinds
<1>8. CASE us # {} /\ ~ClusterDue(high)
  <2>1. queue' = Added(queue, last, <<"user">>, Min(us)) /\ last' = last + 1 /\ last' <= MaxItems
    BY <1>1, <1>3, <1>5, <1>8
  <2>2. Len(<<"user">>) = 1  OBVIOUS
  <2> HIDE DEF us
  <2>3. Enqueue(<<"user">>, Min(us))  BY <2>1, <2>2 DEF Enqueue
  <2> QED  BY <1>2, <1>4, <1>8, <2>3, EnqueueNews DEF Kinds
<1>9. CASE us # {} /\ ClusterDue(high)
  <2>1. Len(<<"cluster">>) = 1  OBVIOUS
  <2>2. /\ queue' = Added(Added(queue, last, <<"cluster">>, Nobody), last + 1, <<"user">>, Min(us))
        /\ last' = last + 2 /\ last' <= MaxItems
    BY <1>1, <1>3, <1>9, <2>1
  <2>3. last + 1 <= MaxItems /\ last + 1 \in Ids /\ last + 2 \in Ids  BY <1>3, <2>2 DEF Ids
  <2>4. c \in Item /\ a(last + 1) \in Item /\ Proper(c) /\ Proper(a(last + 1))
    BY <1>3, <1>4, <1>9, <2>3 DEF Item, Kinds, Proper
  <2>5. Added(queue, last, <<"cluster">>, Nobody) = queue \o <<c>>
    BY <2>3, AddedNews DEF Kinds
  <2>6. queue' = (queue \o <<c>>) \o <<a(last + 1)>>
    <3>1. queue \o <<c>> \in Seq(Item) /\ last + 1 \in Nat  BY <1>3, <2>4
    <3> HIDE DEF a, c, us
    <3>2. Added(queue \o <<c>>, last + 1, <<"user">>, Min(us)) = (queue \o <<c>>) \o <<a(last + 1)>>
      BY <1>6, <1>9, <3>1
    <3> QED  BY <2>2, <2>5, <3>2
  <2>7. c.id = last + 1 /\ a(last + 1).id = last + 2  BY <1>3
  <2> DEFINE b == a(last + 1)
  <2> HIDE DEF c, b, a, us
  <2>8. queue' = queue \o <<c, b>>  BY <1>3, <2>4, <2>6 DEF b
  <2>9. <<c, b>> \in Seq(Item) /\ Len(<<c, b>>) = 2  BY <2>4 DEF b
  <2>10. \A j \in DOMAIN <<c, b>> : <<c, b>>[j].id = last + j /\ Proper(<<c, b>>[j])
    BY <1>3, <2>4, <2>7 DEF b
  <2>11. News(<<c, b>>)  BY <2>2, <2>8, <2>9, <2>10 DEF News
  <2> QED  BY <1>2, <2>11
<1> QED  BY <1>7, <1>8, <1>9

\* Whatever queues events queues new ones, and does nothing else.
LEMMA SourceNews ==
    ASSUME QueueTypes, SourceTypes, Source \/ PollFails \/ Run
    PROVE  /\ \E s : News(s)
           /\ SourceTypes'
           /\ UNCHANGED <<hour, delayed, worker, crashes, hours, hist_vars>>
<1>1. NUsers \in Users /\ Nobody \in Users \cup {Nobody}  BY SysEventsAssumption DEF Users
<1>2. CASE Source
  <2>1. UNCHANGED <<up, hour, delayed, worker, crashes, hours, hist_vars>>  BY <1>2 DEF Source
  <2>2. CASE AppsHandleAdd
    <3>1. Report(<<"appAdd">>, NUsers) /\ app' = "fresh" /\ UNCHANGED <<ns, minute, polling>>
      BY <2>2 DEF AppsHandleAdd
    <3>2. \E s : News(s)  BY <1>1, <3>1, ReportNews DEF Kinds
    <3> QED  BY <2>1, <3>1, <3>2 DEF SourceTypes
  <2>3. CASE AppsHandleDelete
    <3>1. Report(<<"appDelete">>, NUsers) /\ app' = "absent" /\ UNCHANGED <<ns, minute, polling>>
      BY <2>3 DEF AppsHandleDelete
    <3>2. \E s : News(s)  BY <1>1, <3>1, ReportNews DEF Kinds
    <3> QED  BY <2>1, <3>1, <3>2 DEF SourceTypes
  <2>4. CASE AppsHandleUpdate
    <3>1. Enqueue(<<"appSuspend">>, NUsers) /\ UNCHANGED <<app, ns, minute, polling>>
      BY <2>4 DEF AppsHandleUpdate, src_vars
    <3>2. \E s : News(s)  BY <1>1, <3>1, EnqueueNews DEF Kinds
    <3> QED  BY <2>1, <3>1, <3>2 DEF SourceTypes
  <2>5. CASE AppAges \/ NamespaceCreated \/ MinutePasses
    <3>1. UNCHANGED <<queue, last>>  BY <2>5 DEF AppAges, NamespaceCreated, MinutePasses
    <3>2. SourceTypes'
      BY <2>1, <2>5 DEF AppAges, NamespaceCreated, MinutePasses, SourceTypes
    <3> QED  BY <2>1, <3>1, <3>2, NothingNew
  <2>6. CASE WorkflowsHandleUpdate
    <3>1. PICK o \in {Nobody, NUsers} : Report(<<"recommend">>, o)
      BY <2>6 DEF WorkflowsHandleUpdate
    <3>2. \E s : News(s)  BY <1>1, <3>1, ReportNews DEF Kinds
    <3> QED  BY <2>1, <2>6, <3>2 DEF SourceTypes, WorkflowsHandleUpdate
  <2>7. CASE WorkflowsHandleDelete
    <3>1. ASSUME ns = "labelled"  PROVE \E s : News(s)
      <4>1. PICK o \in {Nobody, NUsers} : Report(<<"recommend">>, o)
        BY <2>7, <3>1 DEF WorkflowsHandleDelete
      <4> QED  BY <1>1, <4>1, ReportNews DEF Kinds
    <3>2. ASSUME ns # "labelled"  PROVE \E s : News(s)
      BY <2>7, <3>2, NothingNew DEF WorkflowsHandleDelete
    <3>3. SourceTypes'  BY <2>1, <2>7 DEF SourceTypes, WorkflowsHandleDelete
    <3> QED  BY <2>1, <3>1, <3>2, <3>3
  <2>8. CASE OtherEvent
    <3>1. PICK k \in {"userAdd", "userDelete", "corefile", "custom"} : Enqueue(<<k>>, NUsers)
      BY <2>8 DEF OtherEvent
    <3>2. \E s : News(s)  BY <1>1, <3>1, EnqueueNews DEF Kinds
    <3> QED  BY <2>1, <2>8, <3>2 DEF SourceTypes, OtherEvent, src_vars
  <2>9. CASE Poll
    <3>1. UNCHANGED <<app, ns, polling>>  BY <2>9 DEF Poll
    <3> QED  BY <2>1, <2>9, <3>1, PollNews DEF SourceTypes
  <2> QED  BY <1>2, <2>2, <2>3, <2>4, <2>5, <2>6, <2>7, <2>8, <2>9 DEF Source
<1>3. CASE PollFails
  <2>1. UNCHANGED <<up, app, ns, hour, delayed, worker, crashes, hours, hist_vars>>
        /\ polling' = FALSE
    BY <1>3 DEF PollFails
  <2>2. CASE Enqueue(<<"cluster">>, Nobody) /\ minute' = minute \cup {"cluster"}
    <3>1. \E s : News(s)  BY <1>1, <2>2, EnqueueNews DEF Kinds
    <3> QED  BY <2>1, <2>2, <3>1 DEF SourceTypes
  <2>3. CASE UNCHANGED <<queue, last, minute>>
    <3>1. \E s : News(s)  BY <2>3, NothingNew
    <3> QED  BY <2>1, <2>3, <3>1 DEF SourceTypes
  <2> QED  BY <1>3, <2>2, <2>3 DEF PollFails
<1>4. CASE Run
  <2>1. UNCHANGED <<app, ns, minute, polling, hour, delayed, worker, crashes, hours, hist_vars>>
        /\ up' = TRUE
    BY <1>4 DEF Run, src_vars
  <2>2. CASE app = "fresh"
    <3>1. Enqueue(<<"appAdd">>, NUsers)  BY <1>4, <2>2 DEF Run
    <3>2. \E s : News(s)  BY <1>1, <3>1, EnqueueNews DEF Kinds
    <3> QED  BY <2>1, <3>2 DEF SourceTypes
  <2>3. CASE app # "fresh"
    <3>1. \E s : News(s)  BY <1>4, <2>3, NothingNew DEF Run
    <3> QED  BY <2>1, <3>1 DEF SourceTypes
  <2> QED  BY <2>2, <2>3
<1> QED  BY <1>2, <1>3, <1>4

----------------------------------------------------------------------------
(* What a step of the worker is for the queue: it goes on with its item,   *)
(* or gives up and puts the item back.  A message is sent at most.         *)

Sends == \/ sent' = sent
         \/ \E u \in Users : Sent(u) /\ Head(worker.todo) \in Says \cap Range(worker.todo)

GoesOn == /\ InWork /\ InWork' /\ worker'.item = worker.item
          /\ UNCHANGED <<queue, delayed, last, failures>>
          /\ Range(worker'.todo) \subseteq Range(worker.todo)
          /\ Sends
          /\ sent' = sent \/ Head(worker.todo) \notin Range(worker'.todo)

GivesUp == /\ InWork /\ worker' = NoWork
           /\ delayed' = delayed \cup {worker.item}
           /\ failures' = [failures EXCEPT ![worker.item.id] = @ + 1]
           /\ UNCHANGED <<queue, last>>
           /\ Sends

\* A worker in work is busy.
LEMMA InWorkBusy == (InWork => Busy) /\ (InWork' => Busy')
BY DEF InWork, Busy, NoWork, NoItem, Item, Ids

\* The worker goes on with the next call, or with none.
LEMMA NextCall ==
    ASSUME InWork, worker.todo # <<>>,
           NEW u \in Users \cup {Nobody}, NEW b \in BOOLEAN, NEW t \in {Tail(worker.todo), <<>>},
           worker' = [item |-> worker.item, todo |-> t, cb |-> 1, user |-> u, err |-> b],
           u # worker.user => worker.item.kind = "recommend",
           t = <<>> \/ u = worker.user \/ u \in Users,
           Step("owner") => t = <<>> \/ u \in Users
    PROVE  /\ InWork' /\ worker'.item = worker.item
           /\ Range(worker'.todo) \subseteq Range(worker.todo)
           /\ Head(worker.todo) \notin Range(worker'.todo)
           /\ Head(worker.todo) \in Range(worker.todo)
<1>1. worker.item \in Item /\ worker.item.kind \in Kinds /\ worker.todo \in Remainder(worker.item.kind)
  BY DEF InWork, Item
<1>2. t \in Remainder(worker.item.kind) /\ Range(t) \subseteq Range(worker.todo)
      /\ Head(worker.todo) \notin Range(t) /\ Head(worker.todo) \in Range(worker.todo)
  <2>1. Range(<<>>) = {}  BY DEF Range
  <2>2. CASE t = <<>>
    <3>1. <<>> \in Remainder(worker.item.kind)  BY <1>1, NothingRemains
    <3>2. Head(worker.todo) \in Range(worker.todo)  BY <1>1, OneByOne
    <3> QED  BY <2>1, <2>2, <3>1, <3>2
  <2>3. CASE t = Tail(worker.todo)  BY <1>1, <2>3, OneByOne
  <2> QED  BY <2>2, <2>3
<1>3. 1 \in 1 .. LastCallback + 1  BY SysEventsAssumption
<1>4. ASSUME worker.item.kind = "recommend", t = <<"notifyUser">>  PROVE u \in Users
  <2>1. worker.todo \in {<<"callbacks", "owner", "notifyUser">>, <<"owner", "notifyUser">>,
                         <<"notifyUser">>, <<>>}
    BY <1>1, <1>4 DEF Remainder
  <2>2. Tail(worker.todo) = <<"notifyUser">> /\ <<"notifyUser">> # <<>>  BY <1>4
  <2>3. worker.todo = <<"owner", "notifyUser">>
    <3>1. Tail(<<"callbacks", "owner", "notifyUser">>) = <<"owner", "notifyUser">>  BY Tails
    <3>2. Tail(<<"notifyUser">>) = <<>>  BY Tails
    <3>3. <<"owner", "notifyUser">> # <<"notifyUser">>  OBVIOUS
    <3> QED  BY <2>1, <2>2, <3>1, <3>2, <3>3
  <2>4. Step("owner")  BY <2>3 DEF Step
  <2> QED  BY <1>4, <2>2, <2>4
<1>5. worker'.item = worker.item /\ worker'.todo = t /\ worker'.cb = 1 /\ worker'.user = u  OBVIOUS
<1>6. worker' \in [item : Item, todo : Remainder(worker'.item.kind), cb : 1 .. LastCallback + 1,
                   user : Users \cup {Nobody}, err : BOOLEAN]
  BY <1>1, <1>2, <1>3, <1>5
<1>7. InWork'  BY <1>4, <1>5, <1>6 DEF InWork, Proper
<1> QED  BY <1>2, <1>5, <1>7

\* Which call belongs to which kind of item.
LEMMA CallsOf ==
    ASSUME InWork, worker.todo # <<>>
    PROVE  /\ Step("notifyUser") => /\ worker.todo = <<"notifyUser">>
                                    /\ worker.item.kind \in {"appAdd", "appDelete", "custom", "recommend"}
           /\ Step("alertUser") \/ Step("alertAdmin") \/ Step("stamp") => worker.item.kind = "user"
           /\ Step("owner") => worker.item.kind = "recommend"
           /\ worker.item.kind \in {"appAdd", "appDelete", "custom"} => Step("notifyUser")
           /\ worker.item.kind \in {"appSuspend", "userAdd", "userDelete", "cluster"} =>
                 \/ Step("notifyAdmin") \/ worker.todo = <<"corefile">>
                 \/ Tail(worker.todo) \notin {<<>>, <<"corefile">>}
           /\ worker.item.kind = "recommend" =>
                 Step("notifyUser") \/ Step("owner") \/ Step("callbacks")
           /\ Step("callbacks") => Tail(worker.todo) # <<>> /\ Tail(worker.todo) # <<"corefile">>
                                   /\ Head(Tail(worker.todo)) \notin {"alertUser", "stamp", "callbacks"}
           /\ Step("alertAdmin") => Tail(worker.todo) = <<"alertUser", "stamp">>
           /\ Step("alertUser") => Tail(worker.todo) = <<"stamp">>
           /\ Step("stamp") => Tail(worker.todo) = <<>>
           /\ Tail(worker.todo) # <<>> /\ ~Step("alertAdmin") /\ ~Step("alertUser") =>
                 Head(Tail(worker.todo)) \notin {"alertUser", "stamp"}
<1> DEFINE k == worker.item.kind
           t == worker.todo
<1>1. k \in Kinds /\ t \in Remainder(k)  BY DEF InWork, Item
<1> HIDE DEF k, t
<1>2. CASE k \in {"appAdd", "appDelete", "custom"}
  <2>1. t \in {<<"notifyUser">>, <<>>}
    BY <1>1, <1>2 DEF Remainder
  <2>2. CASE t = <<"notifyUser">>
    <3>1. Head(t) = "notifyUser" /\ Tail(t) = <<>>  BY <2>2, Tails
    <3> QED  BY <1>2, <2>2, <3>1 DEF Step, k, t
  <2> QED  BY <2>1, <2>2 DEF t
<1>3. CASE k = "recommend"
  <2>1. t \in {<<"callbacks", "owner", "notifyUser">>, <<"owner", "notifyUser">>, <<"notifyUser">>, <<>>}
    BY <1>1, <1>3 DEF Remainder
  <2>2. CASE t = <<"callbacks", "owner", "notifyUser">>
    <3>1. Head(t) = "callbacks" /\ Tail(t) = <<"owner", "notifyUser">>  BY <2>2, Tails
    <3>2. Head(<<"owner", "notifyUser">>) = "owner"  OBVIOUS
    <3> QED  BY <1>3, <2>2, <3>1, <3>2 DEF Step, k, t
  <2>3. CASE t = <<"owner", "notifyUser">>
    <3>1. Head(t) = "owner" /\ Tail(t) = <<"notifyUser">>  BY <2>3, Tails
    <3>2. Head(<<"notifyUser">>) = "notifyUser"  OBVIOUS
    <3> QED  BY <1>3, <2>3, <3>1, <3>2 DEF Step, k, t
  <2>4. CASE t = <<"notifyUser">>
    <3>1. Head(t) = "notifyUser" /\ Tail(t) = <<>>  BY <2>4, Tails
    <3> QED  BY <1>3, <2>4, <3>1 DEF Step, k, t
  <2> QED  BY <2>1, <2>2, <2>3, <2>4 DEF t
<1>4. CASE k \in {"appSuspend", "userAdd"}
  <2>1. t \in {<<"admin", "notifyAdmin">>, <<"notifyAdmin">>, <<>>}
    BY <1>1, <1>4 DEF Remainder
  <2>2. CASE t = <<"admin", "notifyAdmin">>
    <3>1. Head(t) = "admin" /\ Tail(t) = <<"notifyAdmin">>  BY <2>2, Tails
    <3>2. Head(<<"notifyAdmin">>) = "notifyAdmin"  OBVIOUS
    <3> QED  BY <1>4, <2>2, <3>1, <3>2 DEF Step, k, t
  <2>3. CASE t = <<"notifyAdmin">>
    <3>1. Head(t) = "notifyAdmin" /\ Tail(t) = <<>>  BY <2>3, Tails
    <3> QED  BY <1>4, <2>3, <3>1 DEF Step, k, t
  <2> QED  BY <2>1, <2>2, <2>3 DEF t
<1>5. CASE k = "userDelete"
  <2>1. t \in {<<"admin", "notifyAdmin", "corefile">>, <<"notifyAdmin", "corefile">>, <<"corefile">>, <<>>}
    BY <1>1, <1>5 DEF Remainder
  <2>2. CASE t = <<"admin", "notifyAdmin", "corefile">>
    <3>1. Head(t) = "admin" /\ Tail(t) = <<"notifyAdmin", "corefile">>  BY <2>2, Tails
    <3>2. Head(<<"notifyAdmin", "corefile">>) = "notifyAdmin"  OBVIOUS
    <3> QED  BY <1>5, <2>2, <3>1, <3>2 DEF Step, k, t
  <2>3. CASE t = <<"notifyAdmin", "corefile">>
    <3>1. Head(t) = "notifyAdmin" /\ Tail(t) = <<"corefile">>  BY <2>3, Tails
    <3>2. Head(<<"corefile">>) = "corefile"  OBVIOUS
    <3> QED  BY <1>5, <2>3, <3>1, <3>2 DEF Step, k, t
  <2>4. CASE t = <<"corefile">>
    <3>1. Head(t) = "corefile" /\ Tail(t) = <<>>  BY <2>4, Tails
    <3> QED  BY <1>5, <2>4, <3>1 DEF Step, k, t
  <2> QED  BY <2>1, <2>2, <2>3, <2>4 DEF t
<1>6. CASE k = "corefile"
  <2>1. t \in {<<"corefile">>, <<>>}
    BY <1>1, <1>6 DEF Remainder
  <2>2. CASE t = <<"corefile">>
    <3>1. Head(t) = "corefile" /\ Tail(t) = <<>>  BY <2>2, Tails
    <3> QED  BY <1>6, <2>2, <3>1 DEF Step, k, t
  <2> QED  BY <2>1, <2>2 DEF t
<1>7. CASE k = "cluster"
  <2>1. t \in {<<"admin", "callbacks", "notifyAdmin">>, <<"callbacks", "notifyAdmin">>, <<"notifyAdmin">>, <<>>}
    BY <1>1, <1>7 DEF Remainder
  <2>2. CASE t = <<"admin", "callbacks", "notifyAdmin">>
    <3>1. Head(t) = "admin" /\ Tail(t) = <<"callbacks", "notifyAdmin">>  BY <2>2, Tails
    <3>2. Head(<<"callbacks", "notifyAdmin">>) = "callbacks"  OBVIOUS
    <3> QED  BY <1>7, <2>2, <3>1, <3>2 DEF Step, k, t
  <2>3. CASE t = <<"callbacks", "notifyAdmin">>
    <3>1. Head(t) = "callbacks" /\ Tail(t) = <<"notifyAdmin">>  BY <2>3, Tails
    <3>2. Head(<<"notifyAdmin">>) = "notifyAdmin"  OBVIOUS
    <3> QED  BY <1>7, <2>3, <3>1, <3>2 DEF Step, k, t
  <2>4. CASE t = <<"notifyAdmin">>
    <3>1. Head(t) = "notifyAdmin" /\ Tail(t) = <<>>  BY <2>4, Tails
    <3> QED  BY <1>7, <2>4, <3>1 DEF Step, k, t
  <2> QED  BY <2>1, <2>2, <2>3, <2>4 DEF t
<1>8. CASE k = "user"
  <2>1. t \in {<<"admin", "callbacks", "alertAdmin", "alertUser", "stamp">>, <<"callbacks", "alertAdmin", "alertUser", "stamp">>, <<"alertAdmin", "alertUser", "stamp">>, <<"alertUser", "stamp">>, <<"stamp">>, <<>>}
    BY <1>1, <1>8 DEF Remainder
  <2>2. CASE t = <<"admin", "callbacks", "alertAdmin", "alertUser", "stamp">>
    <3>1. Head(t) = "admin" /\ Tail(t) = <<"callbacks", "alertAdmin", "alertUser", "stamp">>  BY <2>2, Tails
    <3>2. Head(<<"callbacks", "alertAdmin", "alertUser", "stamp">>) = "callbacks"  OBVIOUS
    <3> QED  BY <1>8, <2>2, <3>1, <3>2 DEF Step, k, t
  <2>3. CASE t = <<"callbacks", "alertAdmin", "alertUser", "stamp">>
    <3>1. Head(t) = "callbacks" /\ Tail(t) = <<"alertAdmin", "alertUser", "stamp">>  BY <2>3, Tails
    <3>2. Head(<<"alertAdmin", "alertUser", "stamp">>) = "alertAdmin"  OBVIOUS
    <3> QED  BY <1>8, <2>3, <3>1, <3>2 DEF Step, k, t
  <2>4. CASE t = <<"alertAdmin", "alertUser", "stamp">>
    <3>1. Head(t) = "alertAdmin" /\ Tail(t) = <<"alertUser", "stamp">>  BY <2>4, Tails
    <3>2. Head(<<"alertUser", "stamp">>) = "alertUser"  OBVIOUS
    <3> QED  BY <1>8, <2>4, <3>1, <3>2 DEF Step, k, t
  <2>5. CASE t = <<"alertUser", "stamp">>
    <3>1. Head(t) = "alertUser" /\ Tail(t) = <<"stamp">>  BY <2>5, Tails
    <3>2. Head(<<"stamp">>) = "stamp"  OBVIOUS
    <3> QED  BY <1>8, <2>5, <3>1, <3>2 DEF Step, k, t
  <2>6. CASE t = <<"stamp">>
    <3>1. Head(t) = "stamp" /\ Tail(t) = <<>>  BY <2>6, Tails
    <3> QED  BY <1>8, <2>6, <3>1 DEF Step, k, t
  <2> QED  BY <2>1, <2>2, <2>3, <2>4, <2>5, <2>6 DEF t
<1> QED  BY <1>1, <1>2, <1>3, <1>4, <1>5, <1>6, <1>7, <1>8 DEF Kinds

\* Messages go to users.
LEMMA RecipientIsUser ==
    ASSUME InWork, Step("notifyUser") \/ Step("notifyAdmin") \/ Step("alertAdmin") \/ Step("alertUser")
    PROVE  Recipient \in Users
<1>1. Admin \in Users  BY SysEventsAssumption DEF Admin, Users
<1>2. worker.todo # <<>>  BY DEF Step
<1>3. CASE Step("notifyAdmin") \/ Step("alertAdmin")  BY <1>1, <1>3 DEF Recipient
<1>4. CASE Step("notifyUser")
  <2>1. worker.user \in Users  BY <1>2, <1>4, CallsOf DEF InWork, Proper
  <2> QED  BY <1>1, <2>1 DEF Recipient
<1>5. CASE Step("alertUser")
  <2>1. worker.user \in Users  BY <1>2, <1>5, CallsOf DEF InWork, Proper
  <2> QED  BY <1>1, <2>1 DEF Recipient
<1> QED  BY <1>3, <1>4, <1>5

\* The fields of the worker that goes on.
LEMMA WorkerParts ==
    ASSUME InWork
    PROVE  /\ Advance = [item |-> worker.item, todo |-> Tail(worker.todo), cb |-> worker.cb,
                         user |-> worker.user, err |-> worker.err]
           /\ [Advance EXCEPT !.cb = 1] = [item |-> worker.item, todo |-> Tail(worker.todo),
                                 cb |-> 1, user |-> worker.user, err |-> worker.err]
           /\ [Advance EXCEPT !.user = NUsers] = [item |-> worker.item, todo |-> Tail(worker.todo),
                                 cb |-> worker.cb, user |-> NUsers, err |-> worker.err]
           /\ [Advance EXCEPT !.err = TRUE] = [item |-> worker.item, todo |-> Tail(worker.todo),
                                 cb |-> worker.cb, user |-> worker.user, err |-> TRUE]
           /\ [worker EXCEPT !.todo = <<>>] = [item |-> worker.item, todo |-> <<>>,
                                 cb |-> worker.cb, user |-> worker.user, err |-> worker.err]
           /\ [worker EXCEPT !.cb = @ + 1] = [item |-> worker.item, todo |-> worker.todo,
                                 cb |-> worker.cb + 1, user |-> worker.user, err |-> worker.err]
           /\ worker.user \in Users \cup {Nobody} /\ worker.err \in BOOLEAN
           /\ ~Step("callbacks") => worker.cb = 1
<1> DEFINE R == Remainder(worker.item.kind)
<1>1. worker \in [item : Item, todo : R, cb : 1 .. LastCallback + 1,
                  user : Users \cup {Nobody}, err : BOOLEAN]
  BY DEF InWork
<1>2. ~Step("callbacks") => worker.cb = 1  BY DEF InWork
<1> HIDE DEF R
<1>3. worker.user \in Users \cup {Nobody} /\ worker.err \in BOOLEAN  BY <1>1
<1>4. worker = [item |-> worker.item, todo |-> worker.todo, cb |-> worker.cb,
                user |-> worker.user, err |-> worker.err]
  BY <1>1
<1> DEFINE t == Tail(worker.todo)
           w == [item |-> worker.item, todo |-> worker.todo, cb |-> worker.cb,
                 user |-> worker.user, err |-> worker.err]
           a == [item |-> worker.item, todo |-> t, cb |-> worker.cb,
                 user |-> worker.user, err |-> worker.err]
<1>5. Advance = [w EXCEPT !.todo = t]  BY <1>4 DEF Advance
<1> HIDE DEF t
<1>6. Advance = a  BY <1>5
<1>7. [worker EXCEPT !.todo = <<>>] = [w EXCEPT !.todo = <<>>]
      /\ [worker EXCEPT !.cb = @ + 1] = [w EXCEPT !.cb = @ + 1]
  BY <1>4
<1>8. [a EXCEPT !.cb = 1] = [item |-> worker.item, todo |-> t,
                             cb |-> 1, user |-> worker.user, err |-> worker.err]
  OBVIOUS
<1>9. [a EXCEPT !.user = NUsers] = [item |-> worker.item, todo |-> t,
                             cb |-> worker.cb, user |-> NUsers, err |-> worker.err]
  OBVIOUS
<1>10. \A b : [a EXCEPT !.err = b] = [item |-> worker.item, todo |-> t,
                             cb |-> worker.cb, user |-> worker.user, err |-> b]
  OBVIOUS
<1>11. /\ [w EXCEPT !.todo = <<>>] = [item |-> worker.item, todo |-> <<>>,
                                 cb |-> worker.cb, user |-> worker.user, err |-> worker.err]
       /\ [w EXCEPT !.cb = @ + 1] = [item |-> worker.item, todo |-> worker.todo,
                                 cb |-> worker.cb + 1, user |-> worker.user, err |-> worker.err]
  OBVIOUS
<1> QED  BY <1>2, <1>3, <1>6, <1>7, <1>8, <1>9, <1>10, <1>11, Zenon DEF t

\* Every call of a subscriber goes on or gives up.
LEMMA WorkerGoes ==
    ASSUME QueueTypes, UNCHANGED last,
           AdminUser \/ Invoke \/ GetWorkflowOwner \/ Send \/ Corefile \/ Alert \/ Stamp
    PROVE  GoesOn \/ GivesUp
<1>1. worker.todo # <<>>
  BY DEF AdminUser, Invoke, GetWorkflowOwner, Send, Corefile, Alert, Stamp, Step
<1>2. InWork  BY <1>1 DEF QueueTypes, NoWork
<1>3. worker.user \in Users \cup {Nobody} /\ worker.err \in BOOLEAN  BY <1>2, WorkerParts
<1>4. CASE AdminUser
  <2>1. ~Step("callbacks") /\ ~Step("owner")  BY <1>4 DEF AdminUser, Step
  <2>2. CASE worker' = Advance /\ UNCHANGED <<queue, delayed, hist_vars>>
    <3>1. worker' = [item |-> worker.item, todo |-> Tail(worker.todo), cb |-> 1,
                     user |-> worker.user, err |-> worker.err]
      BY <1>2, <2>1, <2>2, WorkerParts
    <3>2. /\ InWork' /\ worker'.item = worker.item
          /\ Range(worker'.todo) \subseteq Range(worker.todo)
      BY <1>1, <1>2, <1>3, <2>1, <3>1, NextCall
    <3> QED  BY <1>2, <2>2, <3>2 DEF GoesOn, Sends, hist_vars
  <2>3. CASE Fail /\ UNCHANGED sent  BY <1>2, <2>3 DEF GivesUp, Fail, Sends
  <2> QED  BY <1>4, <2>2, <2>3 DEF AdminUser
<1>5. CASE Invoke
  <2>1. ~Step("owner") /\ Step("callbacks")  BY <1>5 DEF Invoke, Step
  <2>2. UNCHANGED <<queue, delayed, sent, failures>>  BY <1>5 DEF Invoke
  <2>3. CASE worker' = [Advance EXCEPT !.cb = 1]
    <3>1. worker' = [item |-> worker.item, todo |-> Tail(worker.todo), cb |-> 1,
                     user |-> worker.user, err |-> worker.err]
      BY <1>2, <2>3, WorkerParts
    <3>2. /\ InWork' /\ worker'.item = worker.item
          /\ Range(worker'.todo) \subseteq Range(worker.todo)
      BY <1>1, <1>2, <1>3, <2>1, <3>1, NextCall
    <3> QED  BY <1>2, <2>2, <3>2 DEF GoesOn, Sends
  <2>4. CASE worker' = [worker EXCEPT !.cb = @ + 1] /\ worker.cb <= LastCallback
    <3>1. worker' = [item |-> worker.item, todo |-> worker.todo, cb |-> worker.cb + 1,
                     user |-> worker.user, err |-> worker.err]
      BY <1>2, <2>4, WorkerParts
    <3>2. worker.cb + 1 \in 1 .. LastCallback + 1  BY <1>2, <2>4, SysEventsAssumption DEF InWork
    <3>3. InWork'  BY <1>2, <2>1, <3>1, <3>2 DEF InWork, Step, Proper
    <3> QED  BY <1>2, <2>2, <3>1, <3>3 DEF GoesOn, Sends
  <2>5. CASE worker' = worker
    <3>1. InWork'  BY <1>2, <2>5 DEF InWork, Step, Proper
    <3> QED  BY <1>2, <2>2, <2>5, <3>1 DEF GoesOn, Sends
  <2> QED  BY <1>5, <2>3, <2>4, <2>5 DEF Invoke
<1>6. CASE GetWorkflowOwner
  <2>1. ~Step("callbacks") /\ Step("owner")  BY <1>6 DEF GetWorkflowOwner, Step
  <2>2. UNCHANGED <<queue, delayed, sent, failures>>  BY <1>6 DEF GetWorkflowOwner, hist_vars
  <2>3. worker.item.kind = "recommend"  BY <1>1, <1>2, <2>1, CallsOf
  <2>4. PICK u \in Users \cup {Nobody}, t \in {Tail(worker.todo), <<>>} :
           /\ worker' = [item |-> worker.item, todo |-> t, cb |-> 1, user |-> u, err |-> worker.err]
           /\ t = <<>> \/ u \in Users
    <3>1. CASE worker.user # Nobody /\ worker' = Advance
      <4>1. worker.user \in Users  BY <1>3, <3>1
      <4> QED  BY <1>2, <1>3, <2>1, <3>1, <4>1, WorkerParts
    <3>2. CASE worker' = [Advance EXCEPT !.user = NUsers]
      <4>1. NUsers \in Users  BY SysEventsAssumption DEF Users
      <4> QED  BY <1>2, <1>3, <2>1, <3>2, <4>1, WorkerParts
    <3>3. CASE worker' = [worker EXCEPT !.todo = <<>>]  BY <1>2, <1>3, <2>1, <3>3, WorkerParts
    <3> QED  BY <1>6, <3>1, <3>2, <3>3 DEF GetWorkflowOwner
  <2>5. /\ InWork' /\ worker'.item = worker.item
        /\ Range(worker'.todo) \subseteq Range(worker.todo)
    BY <1>1, <1>2, <1>3, <2>3, <2>4, NextCall
  <2> QED  BY <1>2, <2>2, <2>5 DEF GoesOn, Sends
<1>7. CASE Send
  <2>1. ~Step("callbacks") /\ ~Step("owner")  BY <1>7 DEF Send, Step
  <2>2. Recipient \in Users  BY <1>2, <1>7, RecipientIsUser DEF Send
  <2>3. Head(worker.todo) \in Says  BY <1>7 DEF Send, Step, Says
  <2>4. Head(worker.todo) \in Range(worker.todo)
    BY <1>1, <1>2, OneByOne DEF InWork, Item
  <2>5. CASE Sent(Recipient) /\ worker' = Advance /\ UNCHANGED <<queue, delayed, failures>>
    <3>1. worker' = [item |-> worker.item, todo |-> Tail(worker.todo), cb |-> 1,
                     user |-> worker.user, err |-> worker.err]
      BY <1>2, <2>1, <2>5, WorkerParts
    <3>2. /\ InWork' /\ worker'.item = worker.item
          /\ Range(worker'.todo) \subseteq Range(worker.todo)
          /\ Head(worker.todo) \notin Range(worker'.todo)
      BY <1>1, <1>2, <1>3, <2>1, <3>1, NextCall
    <3>3. Sends  BY <2>2, <2>3, <2>4, <2>5 DEF Sends
    <3> QED  BY <1>2, <2>5, <3>2, <3>3 DEF GoesOn
  <2>6. CASE Fail /\ (Sent(Recipient) \/ UNCHANGED sent)
    <3>1. Sends  BY <2>2, <2>3, <2>4, <2>6 DEF Sends
    <3> QED  BY <1>2, <2>6, <3>1 DEF GivesUp, Fail
  <2> QED  BY <1>7, <2>5, <2>6 DEF Send
<1>8. CASE Corefile
  <2>1. ~Step("callbacks") /\ ~Step("owner")  BY <1>8 DEF Corefile, Step
  <2>2. CASE worker' = Advance /\ UNCHANGED <<queue, delayed, failures>>
    <3>1. worker' = [item |-> worker.item, todo |-> Tail(worker.todo), cb |-> 1,
                     user |-> worker.user, err |-> worker.err]
      BY <1>2, <2>1, <2>2, WorkerParts
    <3>2. /\ InWork' /\ worker'.item = worker.item
          /\ Range(worker'.todo) \subseteq Range(worker.todo)
      BY <1>1, <1>2, <1>3, <2>1, <3>1, NextCall
    <3> QED  BY <1>2, <1>8, <2>2, <3>2 DEF GoesOn, Sends, Corefile
  <2>3. CASE Fail  BY <1>2, <1>8, <2>3 DEF GivesUp, Fail, Sends, Corefile
  <2> QED  BY <1>8, <2>2, <2>3 DEF Corefile
<1>9. CASE Alert
  <2>1. ~Step("callbacks") /\ ~Step("owner")  BY <1>9 DEF Alert, Step
  <2>2. Recipient \in Users  BY <1>2, <1>9, RecipientIsUser DEF Alert
  <2>3. Head(worker.todo) \in Says  BY <1>9 DEF Alert, Step, Says
  <2>4. Head(worker.todo) \in Range(worker.todo)
    BY <1>1, <1>2, OneByOne DEF InWork, Item
  <2>5. UNCHANGED <<queue, delayed, failures>>  BY <1>9 DEF Alert
  <2>6. Sends  BY <1>9, <2>2, <2>3, <2>4 DEF Sends, Alert
  <2>7. PICK t \in {Tail(worker.todo), <<>>}, b \in BOOLEAN :
           worker' = [item |-> worker.item, todo |-> t, cb |-> 1, user |-> worker.user, err |-> b]
    <3>1. CASE worker' = [worker EXCEPT !.todo = <<>>]  BY <1>2, <1>3, <2>1, <3>1, WorkerParts
    <3>2. CASE worker' = Advance  BY <1>2, <1>3, <2>1, <3>2, WorkerParts
    <3>3. CASE worker' = [Advance EXCEPT !.err = TRUE]  BY <1>2, <1>3, <2>1, <3>3, WorkerParts
    <3> QED  BY <1>9, <3>1, <3>2, <3>3 DEF Alert
  <2>8. /\ InWork' /\ worker'.item = worker.item
        /\ Range(worker'.todo) \subseteq Range(worker.todo)
        /\ Head(worker.todo) \notin Range(worker'.todo)
    BY <1>1, <1>2, <1>3, <2>1, <2>7, NextCall
  <2> QED  BY <1>2, <2>5, <2>6, <2>8 DEF GoesOn
<1>10. CASE Stamp
  <2>1. ~Step("callbacks") /\ ~Step("owner")  BY <1>10 DEF Stamp, Step
  <2>2. UNCHANGED <<queue, sent>>  BY <1>10 DEF Stamp
  <2>3. CASE worker.err  BY <1>2, <1>10, <2>2, <2>3 DEF GivesUp, Sends, Stamp
  <2>4. CASE ~worker.err
    <3>1. worker' = [item |-> worker.item, todo |-> Tail(worker.todo), cb |-> 1,
                     user |-> worker.user, err |-> worker.err]
      BY <1>2, <1>10, <2>1, <2>4, WorkerParts DEF Stamp
    <3>2. /\ InWork' /\ worker'.item = worker.item
          /\ Range(worker'.todo) \subseteq Range(worker.todo)
      BY <1>1, <1>2, <1>3, <2>1, <3>1, NextCall
    <3> QED  BY <1>2, <1>10, <2>2, <2>4, <3>2 DEF GoesOn, Sends, Stamp
  <2> QED  BY <2>3, <2>4
<1> QED  BY <1>4, <1>5, <1>6, <1>7, <1>8, <1>9, <1>10

----------------------------------------------------------------------------
(* Numbers, order and counts of the items, step by step.                   *)

QInv == QueueTypes /\ HistoryTypes /\ OnePlace /\ InTurn /\ Counted

\* How often something was sent is a number.
LEMMA CountNat ==
    ASSUME HistoryTypes, NEW i, NEW s, NEW u  PROVE Count(i, s, u) \in Nat
<1>1. DOMAIN sent = 1 .. Len(sent) /\ Len(sent) \in Nat  BY DEF HistoryTypes
<1>2. IsFiniteSet(DOMAIN sent)  BY <1>1, FS_Interval
<1>3. {m \in DOMAIN sent : sent[m] = <<i, s, u>>} \subseteq DOMAIN sent  OBVIOUS
<1>4. IsFiniteSet({m \in DOMAIN sent : sent[m] = <<i, s, u>>})  BY <1>2, <1>3, FS_Subset
<1> QED  BY <1>4, FS_CardinalityType DEF Count

\* Of a number that has not been given nothing was sent.
LEMMA CountNew ==
    ASSUME HistoryTypes, OnePlace, NEW i \in Nat, i > last, last \in Nat, NEW s, NEW u
    PROVE  Count(i, s, u) = 0
<1>1. \A m \in DOMAIN sent : sent[m] # <<i, s, u>>
  BY MessageParts DEF OnePlace, Ids
<1>2. {m \in DOMAIN sent : sent[m] = <<i, s, u>>} = {}  BY <1>1
<1> QED  BY <1>2, FS_EmptySet DEF Count

\* One more message counts as one more.
LEMMA CountSent ==
    ASSUME HistoryTypes, worker.item.id \in Ids, NEW r \in Users, Sent(r),
           Head(worker.todo) \in Says,
           NEW i, NEW s, NEW u
    PROVE  Count(i, s, u)' = IF <<i, s, u>> = <<worker.item.id, Head(worker.todo), r>>
                             THEN Count(i, s, u) + 1 ELSE Count(i, s, u)
<1> DEFINE x == <<worker.item.id, Head(worker.todo), r>>
           y == <<i, s, u>>
           A == {m \in DOMAIN sent : sent[m] = y}
           n == Len(sent) + 1
           B == {m \in DOMAIN sent' : sent'[m] = y}
<1>1. x \in Ids \X Says \X Users  OBVIOUS
<1>2. sent \in Seq(Ids \X Says \X Users) /\ sent' = Append(sent, x)  BY DEF HistoryTypes, Sent
<1> HIDE DEF x, y
<1>3. /\ DOMAIN sent' = DOMAIN sent \cup {n} /\ n \notin DOMAIN sent /\ sent'[n] = x
      /\ \A j \in DOMAIN sent : sent'[j] = sent[j]
  BY <1>1, <1>2, Appended
<1>4. IsFiniteSet(A)
  <2>1. DOMAIN sent = 1 .. Len(sent) /\ Len(sent) \in Nat  BY <1>2
  <2>2. IsFiniteSet(DOMAIN sent) /\ A \subseteq DOMAIN sent  BY <2>1, FS_Interval
  <2> QED  BY <2>2, FS_Subset
<1>5. CASE x = y
  <2>1. B = A \cup {n} /\ n \notin A  BY <1>3, <1>5
  <2>2. Cardinality(B) = Cardinality(A) + 1  BY <1>4, <2>1, FS_AddElement
  <2> QED  BY <1>5, <2>2 DEF Count, x, y
<1>6. CASE x # y
  <2>1. B = A  BY <1>3, <1>6
  <2> QED  BY <1>6, <2>1 DEF Count, x, y
<1> QED  BY <1>5, <1>6

\* Numbers of items.
LEMMA ItemParts ==
    ASSUME QueueTypes
    PROVE  /\ \A j \in DOMAIN queue : queue[j] \in Item /\ queue[j].id \in Ids
           /\ \A i \in delayed : i \in Item /\ i.id \in Ids
           /\ Busy => InWork /\ worker.item \in Item /\ worker.item.id \in Ids
           /\ last \in Nat
<1>1. \A i \in Item : i.id \in Ids  BY DEF Item
<1>2. \A j \in DOMAIN queue : queue[j] \in Item  BY DEF QueueTypes
<1>3. Busy => InWork /\ worker.item \in Item  BY DEF QueueTypes, Busy, InWork
<1> QED  BY <1>1, <1>2, <1>3, SysEventsAssumption DEF QueueTypes

\* New items have numbers nobody has, and nobody comes after them.
LEMMA NewsKeeps ==
    ASSUME QInv, NEW s, News(s), UNCHANGED <<delayed, worker, sent, failures>>
    PROVE  QueueTypes' /\ OnePlace' /\ InTurn' /\ Counted'
<1> USE DEF QInv
<1>1. /\ queue \in Seq(Item) /\ s \in Seq(Item) /\ queue' = queue \o s /\ last \in Nat
      /\ last' = last + Len(s) /\ last' \in 0 .. MaxItems /\ last' >= last /\ last' \in Nat
  BY SysEventsAssumption DEF News, QueueTypes
<1> DEFINE Old(j) == j \in DOMAIN queue /\ queue'[j] = queue[j]
           New(j) == /\ j > Len(queue) /\ j - Len(queue) \in DOMAIN s
                     /\ queue'[j] = s[j - Len(queue)]
<1>2. /\ queue' \in Seq(Item)
      /\ \A j \in DOMAIN queue' : j \in Nat /\ (Old(j) \/ New(j))
      /\ Len(queue) \in Nat /\ \A j \in DOMAIN queue : j <= Len(queue)
  BY <1>1, Joined
<1>3. \A j \in DOMAIN queue' : New(j) =>
         /\ queue'[j].id = last + (j - Len(queue)) /\ queue'[j].id > last
         /\ queue'[j].id <= last' /\ Proper(queue'[j])
  BY <1>1 DEF News
<1> HIDE DEF New, Old
<1>4. Busy' = Busy /\ InWork' = InWork  BY DEF Busy, InWork, Step, Proper
<1>5. QueueTypes'
  <2>1. \A j \in DOMAIN queue' : Proper(queue'[j])
    BY <1>2, <1>3 DEF QueueTypes, Old
  <2> QED  BY <1>1, <1>2, <1>4, <2>1 DEF QueueTypes
<1>6. OnePlace'
  <2>1. \A j \in DOMAIN queue' : queue'[j].id <= last'
    BY <1>1, <1>2, <1>3, ItemParts DEF OnePlace, Old, Ids
  <2>2. \A j, k \in DOMAIN queue' : queue'[j].id = queue'[k].id => j = k
    BY <1>1, <1>2, <1>3, ItemParts DEF OnePlace, Old, Ids
  <2>3. \A j \in DOMAIN queue', i \in delayed' : queue'[j].id # i.id
    BY <1>1, <1>2, <1>3, ItemParts DEF OnePlace, Old, Ids
  <2>4. Busy' => \A j \in DOMAIN queue' : queue'[j].id # worker'.item.id
    BY <1>1, <1>2, <1>3, <1>4, ItemParts DEF OnePlace, Old, Ids
  <2>5. \A m \in DOMAIN sent : sent[m][1] <= last'
    BY <1>1, MessageParts DEF OnePlace, Ids
  <2>6. (\A i \in delayed : i.id <= last') /\ (Busy => worker.item.id <= last')
    BY <1>1, ItemParts DEF OnePlace, Ids
  <2> QED  BY <1>4, <2>1, <2>2, <2>3, <2>4, <2>5, <2>6 DEF OnePlace
<1>7. InTurn'
  <2>1. \A j, k \in DOMAIN queue' : j < k => Behind(queue[j].id, queue[k].id)'
    <3> SUFFICES ASSUME NEW j \in DOMAIN queue', NEW k \in DOMAIN queue', j < k
                 PROVE  queue'[j].id <= queue'[k].id \/ failures[queue'[k].id] > 0
      BY DEF Behind
    <3>1. CASE Old(j) /\ Old(k)  BY <3>1 DEF Old, InTurn, Behind
    <3>2. CASE Old(j) /\ New(k)  BY <1>1, <1>3, <3>2, ItemParts DEF Old, OnePlace, Ids
    <3>3. CASE New(j) /\ New(k)  BY <1>1, <1>2, <1>3, <3>3
    <3>4. CASE New(j) /\ Old(k)  BY <1>2, <3>4 DEF Old, New
    <3> QED  BY <1>2, <3>1, <3>2, <3>3, <3>4
  <2>2. Busy' => \A k \in DOMAIN queue' : Behind(worker.item.id, queue[k].id)'
    BY <1>1, <1>2, <1>3, <1>4, ItemParts DEF InTurn, OnePlace, Old, Behind, Ids
  <2>3. \A m \in DOMAIN sent', k \in DOMAIN queue' : Behind(sent[m][1], queue[k].id)'
    <3> SUFFICES ASSUME NEW m \in DOMAIN sent, NEW k \in DOMAIN queue'
                 PROVE  sent[m][1] <= queue'[k].id \/ failures[queue'[k].id] > 0
      BY DEF Behind
    <3>1. CASE Old(k)  BY <3>1 DEF Old, InTurn, Behind
    <3>2. CASE New(k)
      <4>1. sent[m][1] \in Nat /\ sent[m][1] <= last  BY MessageParts DEF OnePlace, Ids
      <4> QED  BY <1>1, <1>2, <1>3, <3>2, <4>1
    <3> QED  BY <1>2, <3>1, <3>2
  <2> QED  BY <1>4, <2>1, <2>2, <2>3 DEF InTurn, Behind, FifoUnlessFailed
<1>8. Counted'
  <2>1. \A i, m, u : Count(i, m, u)' = Count(i, m, u)  BY DEF Count
  <2>2. \A m \in Says, u \in Users, j \in DOMAIN queue' :
           Count(queue'[j].id, m, u) <= failures[queue'[j].id]
    <3> TAKE m \in Says, u \in Users, j \in DOMAIN queue'
    <3>1. CASE Old(j)  BY <3>1 DEF Old, Counted
    <3>2. CASE New(j)
      <4>1. queue'[j] \in Item  BY <1>2
      <4>2. queue'[j].id \in Ids /\ queue'[j].id \in Nat  BY <4>1 DEF Item, Ids
      <4>3. Count(queue'[j].id, m, u) = 0  BY <1>1, <1>3, <3>2, <4>2, CountNew
      <4>4. failures[queue'[j].id] \in Nat  BY <4>2 DEF HistoryTypes
      <4> QED  BY <4>3, <4>4
    <3> QED  BY <1>2, <3>1, <3>2
  <2> QED  BY <1>4, <2>1, <2>2 DEF Counted
<1> QED  BY <1>5, <1>6, <1>7, <1>8

\* The worker takes the first item of the queue.
LEMMA GetKeeps ==
    ASSUME QInv, Get, UNCHANGED last
    PROVE  QueueTypes' /\ OnePlace' /\ InTurn' /\ Counted' /\ InWork' /\ worker'.todo = Do(Head(queue))
           /\ worker'.cb = 1 /\ worker'.item = Head(queue)
<1> USE DEF QInv
<1>1. /\ ~Busy /\ queue # <<>> /\ queue \in Seq(Item) /\ queue' = Tail(queue)
      /\ UNCHANGED <<delayed, sent, failures, last>>
  BY DEF Get, QueueTypes, hist_vars
<1>2. /\ Head(queue) = queue[1] /\ 1 \in DOMAIN queue /\ queue[1] \in Item
      /\ queue' \in Seq(Item)
      /\ \A j \in DOMAIN queue' : j \in Nat /\ j + 1 \in DOMAIN queue /\ j + 1 > 1
                                  /\ queue'[j] = queue[j + 1]
  BY <1>1, Without
<1> DEFINE i == queue[1]
<1>3. worker' = [item |-> i, todo |-> Do(i), cb |-> 1, user |-> i.user, err |-> FALSE]
  BY <1>2 DEF Get, NoWork
<1>4. i \in Item /\ Proper(i) /\ Do(i) \in Remainder(i.kind) /\ i.user \in Users \cup {Nobody}
  BY <1>2, DoRemains DEF QueueTypes, Item
<1>5. InWork'
  <2>1. worker'.item = i /\ worker'.todo = Do(i) /\ worker'.cb = 1 /\ worker'.user = i.user
    BY <1>3
  <2>2. ASSUME i.kind = "recommend"  PROVE Do(i) # <<"notifyUser">>
    <3>1. Do(i) = <<"callbacks", "owner", "notifyUser">>  BY <2>2 DEF Do, WorkflowsDo
    <3> QED  BY <3>1
  <2>3. 1 \in 1 .. LastCallback + 1  BY SysEventsAssumption
  <2> HIDE DEF i
  <2>4. worker' \in [item : Item, todo : Remainder(worker'.item.kind), cb : 1 .. LastCallback + 1,
                     user : Users \cup {Nobody}, err : BOOLEAN]
    BY <1>3, <1>4, <2>1, <2>3
  <2> QED  BY <1>4, <2>1, <2>2, <2>4 DEF InWork
<1>6. Busy' /\ worker'.item = i  BY <1>3, <1>5, InWorkBusy
<1> HIDE DEF i
<1>7. QueueTypes'
  <2>1. \A j \in DOMAIN queue' : Proper(queue'[j])  BY <1>2 DEF QueueTypes
  <2> QED  BY <1>1, <1>2, <1>5, <2>1 DEF QueueTypes
<1>8. OnePlace'
  <2>1. /\ \A j \in DOMAIN queue' : queue'[j].id <= last /\ queue'[j].id # i.id
        /\ \A j, k \in DOMAIN queue' : queue'[j].id = queue'[k].id => j = k
    <3>1. \A j \in DOMAIN queue' : j + 1 # 1  BY <1>2
    <3>2. \A j, k \in DOMAIN queue' : j + 1 = k + 1 => j = k  BY <1>2
    <3> QED  BY <1>2, <3>1, <3>2 DEF OnePlace, i
  <2>2. /\ \A j \in DOMAIN queue', d \in delayed : queue'[j].id # d.id
        /\ \A d \in delayed : d.id # i.id
        /\ i.id <= last
    BY <1>2 DEF OnePlace, i
  <2> QED  BY <1>1, <1>6, <2>1, <2>2 DEF OnePlace
<1>9. InTurn'
  <2>1. \A j, k \in DOMAIN queue' : j < k => Behind(queue[j].id, queue[k].id)'
    <3> SUFFICES ASSUME NEW j \in DOMAIN queue', NEW k \in DOMAIN queue', j < k
                 PROVE  Behind(queue[j].id, queue[k].id)'
      OBVIOUS
    <3>1. j + 1 < k + 1  BY <1>2
    <3>2. Behind(queue[j + 1].id, queue[k + 1].id)  BY <1>2, <3>1 DEF InTurn
    <3> QED  BY <1>1, <1>2, <3>2 DEF Behind
  <2>2. \A k \in DOMAIN queue' : Behind(worker.item.id, queue[k].id)'
    BY <1>1, <1>2, <1>6 DEF InTurn, Behind, i
  <2>3. \A m \in DOMAIN sent', k \in DOMAIN queue' : Behind(sent[m][1], queue[k].id)'
    BY <1>1, <1>2 DEF InTurn, Behind
  <2>4. \A m \in DOMAIN sent' : Behind(sent[m][1], worker.item.id)'
    BY <1>1, <1>2, <1>6 DEF InTurn, Behind, i
  <2> QED  BY <1>1, <2>1, <2>2, <2>3, <2>4 DEF InTurn, FifoUnlessFailed
<1>10. Counted'
  <2>1. \A n, m, u : Count(n, m, u)' = Count(n, m, u)  BY <1>1 DEF Count
  <2> QED  BY <1>1, <1>2, <1>6, <2>1 DEF Counted, i
<1> QED  BY <1>2, <1>3, <1>5, <1>7, <1>8, <1>9, <1>10 DEF i

\* An item that is done is nowhere.
LEMMA FinishKeeps ==
    ASSUME QInv, Finish, UNCHANGED last
    PROVE  QueueTypes' /\ OnePlace' /\ InTurn' /\ Counted'
<1> USE DEF QInv
<1>1. UNCHANGED <<queue, delayed, sent, failures, last>> /\ worker' = NoWork  BY DEF Finish
<1>2. ~Busy'  BY <1>1 DEF Busy
<1>3. QueueTypes'  BY <1>1 DEF QueueTypes
<1>4. OnePlace'  BY <1>1, <1>2 DEF OnePlace
<1>5. InTurn'  BY <1>1, <1>2 DEF InTurn, Behind, FifoUnlessFailed
<1>6. \A n, m, u : Count(n, m, u)' = Count(n, m, u)  BY <1>1 DEF Count
<1>7. Counted'  BY <1>1, <1>2, <1>6 DEF Counted
<1> QED  BY <1>3, <1>4, <1>5, <1>7

\* A crash leaves the numbers that were given.
LEMMA CrashKeeps ==
    ASSUME QInv, Crash
    PROVE  QueueTypes' /\ OnePlace' /\ InTurn' /\ Counted'
<1> USE DEF QInv
<1>1. UNCHANGED <<sent, failures, last>> /\ worker' = NoWork /\ queue' = <<>> /\ delayed' = {}
  BY DEF Crash
<1>2. ~Busy' /\ DOMAIN queue' = {} /\ queue' \in Seq(Item)  BY <1>1 DEF Busy
<1>3. QueueTypes'  BY <1>1, <1>2 DEF QueueTypes
<1>4. OnePlace'  BY <1>1, <1>2 DEF OnePlace
<1>5. InTurn'  BY <1>1, <1>2 DEF InTurn, Behind, FifoUnlessFailed
<1>6. \A n, m, u : Count(n, m, u)' = Count(n, m, u)  BY <1>1 DEF Count
<1>7. Counted'  BY <1>1, <1>2, <1>6 DEF Counted
<1> QED  BY <1>3, <1>4, <1>5, <1>7

\* An item that comes back has failed.
LEMMA RequeueKeeps ==
    ASSUME QInv, NEW i, Requeue(i), UNCHANGED last
    PROVE  QueueTypes' /\ OnePlace' /\ InTurn' /\ Counted'
<1> USE DEF QInv
<1>1. /\ UNCHANGED <<sent, failures, last, worker>> /\ queue' = Append(queue, i)
      /\ delayed' = delayed \ {i} /\ i \in delayed
  BY DEF Requeue, hist_vars
<1>2. queue \in Seq(Item) /\ i \in Item /\ Proper(i)  BY <1>1 DEF QueueTypes
<1> DEFINE n == Len(queue) + 1
<1>3. /\ queue' \in Seq(Item) /\ DOMAIN queue' = DOMAIN queue \cup {n} /\ n \notin DOMAIN queue
      /\ queue'[n] = i
      /\ \A j \in DOMAIN queue : j \in Nat /\ j < n /\ queue'[j] = queue[j]
  BY <1>1, <1>2, Appended
<1>4. n \in Nat  BY <1>2
<1> HIDE DEF n
<1>5. Busy' = Busy /\ InWork' = InWork  BY <1>1 DEF Busy, InWork, Step, Proper
<1>6. QueueTypes'
  <2>1. \A j \in DOMAIN queue' : Proper(queue'[j])  BY <1>2, <1>3 DEF QueueTypes
  <2> QED  BY <1>1, <1>3, <1>5, <2>1 DEF QueueTypes
<1>7. OnePlace'
  <2>1. \A j, k \in DOMAIN queue' : queue'[j].id = queue'[k].id => j = k
    BY <1>1, <1>3 DEF OnePlace
  <2>2. \A j \in DOMAIN queue', d \in delayed' : queue'[j].id # d.id
    BY <1>1, <1>3 DEF OnePlace
  <2>3. Busy => \A j \in DOMAIN queue' : queue'[j].id # worker.item.id
    BY <1>1, <1>3 DEF OnePlace
  <2>4. \A j \in DOMAIN queue' : queue'[j].id <= last  BY <1>1, <1>3 DEF OnePlace
  <2> QED  BY <1>1, <1>5, <2>1, <2>2, <2>3, <2>4 DEF OnePlace
<1>8. failures[i.id] > 0  BY <1>1 DEF InTurn
<1>9. InTurn'
  <2>1. \A j, k \in DOMAIN queue' : j < k => Behind(queue[j].id, queue[k].id)'
    <3> SUFFICES ASSUME NEW j \in DOMAIN queue', NEW k \in DOMAIN queue', j < k
                 PROVE  queue'[j].id <= queue'[k].id \/ failures[queue'[k].id] > 0
      BY <1>1 DEF Behind
    <3>1. CASE k = n  BY <1>3, <1>8, <3>1
    <3>2. CASE k # n
      <4>1. j # n  BY <1>3, <1>4, <3>2
      <4> QED  BY <1>3, <3>2, <4>1 DEF InTurn, Behind
    <3> QED  BY <3>1, <3>2
  <2>2. Busy' => \A k \in DOMAIN queue' : Behind(worker.item.id, queue[k].id)'
    BY <1>1, <1>3, <1>5, <1>8 DEF InTurn, Behind
  <2>3. \A m \in DOMAIN sent', k \in DOMAIN queue' : Behind(sent[m][1], queue[k].id)'
    BY <1>1, <1>3, <1>8 DEF InTurn, Behind
  <2>4. \A d \in delayed' : failures'[d.id] > 0  BY <1>1 DEF InTurn
  <2>5. Busy' => \A m \in DOMAIN sent' : Behind(sent[m][1], worker.item.id)'
    BY <1>1, <1>5 DEF InTurn, Behind
  <2> QED  BY <1>1, <2>1, <2>2, <2>3, <2>4, <2>5 DEF InTurn, FifoUnlessFailed
<1>10. Counted'
  <2>1. \A k, m, u : Count(k, m, u)' = Count(k, m, u)  BY <1>1 DEF Count
  <2> QED  BY <1>1, <1>3, <1>5, <2>1 DEF Counted
<1> QED  BY <1>6, <1>7, <1>9, <1>10

\* A message that is sent is the last one, and of the worker's item.
LEMMA SendsParts ==
    ASSUME QInv, InWork, Sends
    PROVE  /\ sent' \in Seq(Ids \X Says \X Users)
           /\ \A m \in DOMAIN sent' :
                 \/ m \in DOMAIN sent /\ sent'[m] = sent[m]
                 \/ m = Len(sent) + 1 /\ sent'[m][1] = worker.item.id
           /\ Len(sent) \in Nat /\ \A m \in DOMAIN sent : m \in Nat /\ m <= Len(sent)
<1> USE DEF QInv
<1>1. sent \in Seq(Ids \X Says \X Users)  BY DEF HistoryTypes
<1>2. Len(sent) \in Nat /\ \A m \in DOMAIN sent : m \in Nat /\ m <= Len(sent)  BY <1>1
<1>3. CASE sent' = sent  BY <1>1, <1>2, <1>3
<1>4. ASSUME NEW u \in Users, Sent(u), Head(worker.todo) \in Says
      PROVE  /\ sent' \in Seq(Ids \X Says \X Users)
             /\ \A m \in DOMAIN sent' :
                   \/ m \in DOMAIN sent /\ sent'[m] = sent[m]
                   \/ m = Len(sent) + 1 /\ sent'[m][1] = worker.item.id
  <2> DEFINE x == <<worker.item.id, Head(worker.todo), u>>
  <2>1. x \in Ids \X Says \X Users /\ x[1] = worker.item.id  BY <1>4 DEF InWork, Item
  <2>2. sent' = Append(sent, x)  BY <1>4 DEF Sent
  <2> HIDE DEF x
  <2> QED  BY <1>1, <2>1, <2>2, Appended
<1> QED  BY <1>2, <1>3, <1>4 DEF Sends

\* The messages stay in order and belong to numbers that were given.
LEMMA SendsInTurn ==
    ASSUME QInv, InWork, Sends, \A i \in Ids : failures'[i] \in Nat /\ failures'[i] >= failures[i],
           UNCHANGED <<queue, last>>
    PROVE  /\ \A m \in DOMAIN sent' : sent'[m][1] <= last'
           /\ FifoUnlessFailed'
           /\ \A m \in DOMAIN sent', k \in DOMAIN queue' : Behind(sent[m][1], queue[k].id)'
           /\ \A m \in DOMAIN sent' :
                 sent'[m][1] <= worker.item.id \/ failures'[worker.item.id] > 0
<1> USE DEF QInv
<1>1. Busy /\ worker.item.id \in Ids /\ worker.item.id \in Nat /\ worker.item.id <= last
  BY InWorkBusy, ItemParts DEF OnePlace, Ids
<1> DEFINE w == worker.item.id
           Old(m) == m \in DOMAIN sent /\ sent'[m] = sent[m]
           New(m) == m = Len(sent) + 1 /\ sent'[m][1] = w
<1>2. /\ sent' \in Seq(Ids \X Says \X Users)
      /\ \A m \in DOMAIN sent' : Old(m) \/ New(m)
      /\ Len(sent) \in Nat /\ \A m \in DOMAIN sent : m \in Nat /\ m <= Len(sent)
  BY SendsParts
<1>3. \A m \in DOMAIN sent : sent[m][1] \in Nat /\ sent[m][1] \in Ids  BY MessageParts DEF Ids
<1>4. \A i \in Ids : failures[i] \in Nat  BY DEF HistoryTypes
<1>5. \A k \in DOMAIN queue : queue[k].id \in Ids  BY ItemParts
<1>6. \A m \in DOMAIN sent' : sent'[m][1] <= last'  BY <1>1, <1>2, <1>3 DEF OnePlace
<1>7. ASSUME NEW m \in DOMAIN sent'  PROVE sent'[m][1] <= w \/ failures'[w] > 0
  <2>1. CASE Old(m)
    <3>1. sent[m][1] <= w \/ failures[w] > 0  BY <1>1, <2>1 DEF InTurn, Behind
    <3>2. failures[w] \in Nat /\ failures'[w] \in Nat /\ failures'[w] >= failures[w]  BY <1>1, <1>4
    <3> QED  BY <2>1, <3>1, <3>2
  <2>2. CASE New(m)  BY <1>1, <2>2
  <2> QED  BY <1>2, <2>1, <2>2
<1>8. ASSUME NEW m \in DOMAIN sent', NEW k \in DOMAIN queue'
      PROVE  sent'[m][1] <= queue[k].id \/ failures'[queue[k].id] > 0
  <2>1. CASE Old(m)  BY <1>4, <1>5, <2>1 DEF InTurn, Behind
  <2>2. CASE New(m)  BY <1>1, <1>4, <1>5, <2>2 DEF InTurn, Behind
  <2> QED  BY <1>2, <2>1, <2>2
<1>9. ASSUME NEW m \in DOMAIN sent', NEW n \in DOMAIN sent', m < n, sent'[m][1] > sent'[n][1]
      PROVE  failures'[sent'[n][1]] > 0
  <2>1. CASE Old(m) /\ Old(n)
    <3>1. failures[sent[n][1]] > 0  BY <1>9, <2>1 DEF InTurn, FifoUnlessFailed
    <3> QED  BY <1>3, <1>4, <2>1, <3>1
  <2>2. CASE Old(m) /\ New(n)
    <3>1. ~(sent[m][1] <= w)  BY <1>1, <1>3, <1>9, <2>2
    <3> QED  BY <1>7, <2>2, <3>1
  <2>3. CASE New(m) /\ Old(n)  BY <1>2, <1>9, <2>3
  <2>4. CASE New(m) /\ New(n)  BY <1>1, <1>9, <2>4
  <2> QED  BY <1>2, <2>1, <2>2, <2>3, <2>4
<1> QED  BY <1>6, <1>7, <1>8, <1>9 DEF FifoUnlessFailed, Behind

\* Counts after a step of the worker: of its item by one more at most, of others the same.
LEMMA SendsCounts ==
    ASSUME QInv, InWork, Sends, NEW i \in Ids, NEW s \in Says, NEW u \in Users
    PROVE  /\ i # worker.item.id => Count(i, s, u)' = Count(i, s, u)
           /\ Count(i, s, u)' <= failures[i] + 1 /\ Count(i, s, u)' \in Nat
           /\ sent' = sent \/ s # Head(worker.todo) => Count(i, s, u)' = Count(i, s, u)
<1> USE DEF QInv
<1>1. Busy /\ worker.item.id \in Ids  BY InWorkBusy, ItemParts
<1>2. Count(i, s, u) \in Nat /\ failures[i] \in Nat  BY CountNat DEF HistoryTypes
<1>3. Count(i, s, u) <= failures[i] + 1  BY DEF Counted
<1>4. CASE sent' = sent
  <2>1. Count(i, s, u)' = Count(i, s, u)  BY <1>4 DEF Count
  <2> QED  BY <1>2, <1>3, <2>1
<1>5. ASSUME NEW r \in Users, Sent(r), Head(worker.todo) \in Says \cap Range(worker.todo), sent' # sent
      PROVE  /\ i # worker.item.id => Count(i, s, u)' = Count(i, s, u)
             /\ Count(i, s, u)' <= failures[i] + 1 /\ Count(i, s, u)' \in Nat
             /\ sent' = sent \/ s # Head(worker.todo) => Count(i, s, u)' = Count(i, s, u)
  <2>1. Count(i, s, u)' = IF <<i, s, u>> = <<worker.item.id, Head(worker.todo), r>>
                          THEN Count(i, s, u) + 1 ELSE Count(i, s, u)
    BY <1>1, <1>5, CountSent
  <2>2. CASE i = worker.item.id /\ s = Head(worker.todo)
    <3>1. Count(i, s, u) <= failures[i]  BY <1>1, <1>5, <2>2 DEF Counted
    <3> QED  BY <1>2, <1>5, <2>1, <2>2, <3>1
  <2>3. CASE ~(i = worker.item.id /\ s = Head(worker.todo))
    <3>1. Count(i, s, u)' = Count(i, s, u)  BY <2>1, <2>3
    <3> QED  BY <1>2, <1>3, <3>1
  <2> QED  BY <2>2, <2>3
<1> QED  BY <1>4, <1>5 DEF Sends

\* Where the worker goes on, the items stay where they are.
LEMMA GoesOnKeeps ==
    ASSUME QInv, GoesOn
    PROVE  QueueTypes' /\ OnePlace' /\ InTurn' /\ Counted'
<1> USE DEF QInv
<1>1. /\ InWork /\ InWork' /\ Sends /\ worker'.item = worker.item
      /\ UNCHANGED <<queue, delayed, last, failures>>
      /\ Range(worker'.todo) \subseteq Range(worker.todo)
      /\ sent' = sent \/ Head(worker.todo) \notin Range(worker'.todo)
  BY DEF GoesOn
<1>2. Busy /\ Busy' /\ worker.item.id \in Ids  BY <1>1, InWorkBusy, ItemParts
<1>3. QueueTypes'  BY <1>1 DEF QueueTypes
<1>4. \A i \in Ids : failures'[i] \in Nat /\ failures'[i] >= failures[i]
  BY <1>1 DEF HistoryTypes
<1>5. /\ \A m \in DOMAIN sent' : sent'[m][1] <= last'
      /\ FifoUnlessFailed'
      /\ \A m \in DOMAIN sent', k \in DOMAIN queue' : Behind(sent[m][1], queue[k].id)'
      /\ \A m \in DOMAIN sent' : sent'[m][1] <= worker.item.id \/ failures'[worker.item.id] > 0
  BY <1>1, <1>4, SendsInTurn
<1>6. OnePlace'  BY <1>1, <1>2, <1>5 DEF OnePlace
<1>7. InTurn'  BY <1>1, <1>2, <1>5 DEF InTurn, Behind
<1>8. Counted'
  <2> SUFFICES ASSUME NEW s \in Says, NEW u \in Users
               PROVE  /\ \A i \in Ids : Count(i, s, u)' <= failures[i] + 1
                      /\ \A j \in DOMAIN queue : Count(queue[j].id, s, u)' <= failures[queue[j].id]
                      /\ \A i \in delayed : Count(i.id, s, u)' <= failures[i.id]
                      /\ s \in Range(worker'.todo) =>
                            Count(worker.item.id, s, u)' <= failures[worker.item.id]
    BY <1>1, <1>2 DEF Counted, Count
  <2>1. \A i \in Ids : Count(i, s, u)' <= failures[i] + 1  BY <1>1, SendsCounts
  <2>2. ASSUME NEW j \in DOMAIN queue  PROVE Count(queue[j].id, s, u)' <= failures[queue[j].id]
    <3>1. queue[j].id \in Ids /\ queue[j].id # worker.item.id  BY <1>2, ItemParts DEF OnePlace
    <3>2. Count(queue[j].id, s, u)' = Count(queue[j].id, s, u)
      <4>1. \A i \in Ids : i # worker.item.id => Count(i, s, u)' = Count(i, s, u)
        BY <1>1, SendsCounts
      <4> QED  BY <1>1, <3>1, <4>1 DEF Count
    <3> QED  BY <3>2 DEF Counted
  <2>3. ASSUME NEW i \in delayed  PROVE Count(i.id, s, u)' <= failures[i.id]
    <3>1. i.id \in Ids /\ i.id # worker.item.id  BY <1>2, ItemParts DEF OnePlace
    <3>2. Count(i.id, s, u)' = Count(i.id, s, u)  BY <1>1, <3>1, SendsCounts
    <3> QED  BY <3>2 DEF Counted
  <2>4. ASSUME s \in Range(worker'.todo)
        PROVE  Count(worker.item.id, s, u)' <= failures[worker.item.id]
    <3>1. sent' = sent \/ s # Head(worker.todo)  BY <1>1, <2>4
    <3>2. \A i \in Ids : Count(i, s, u)' = Count(i, s, u)  BY <1>1, <3>1, SendsCounts
    <3>3. Count(worker.item.id, s, u)' = Count(worker.item.id, s, u)
      BY <1>1, <1>2, <3>2 DEF Count
    <3> QED  BY <1>1, <1>2, <2>4, <3>3 DEF Counted
  <2> QED  BY <2>1, <2>2, <2>3, <2>4
<1> QED  BY <1>3, <1>6, <1>7, <1>8

\* Where the worker gives up, the failure of its item is counted and the item waits.
LEMMA GivesUpKeeps ==
    ASSUME QInv, GivesUp
    PROVE  QueueTypes' /\ OnePlace' /\ InTurn' /\ Counted'
<1> USE DEF QInv
<1> DEFINE w == worker.item.id
<1>1. /\ InWork /\ Sends /\ worker' = NoWork /\ delayed' = delayed \cup {worker.item}
      /\ failures' = [failures EXCEPT ![w] = @ + 1] /\ UNCHANGED <<queue, last>>
  BY DEF GivesUp
<1>2. Busy /\ ~Busy' /\ w \in Ids /\ worker.item \in Item /\ w <= last /\ Proper(worker.item)
  BY <1>1, InWorkBusy, ItemParts DEF OnePlace, Busy, InWork
<1>3. failures \in [Ids -> Nat]  BY DEF HistoryTypes
<1>4. /\ \A i \in Ids : failures'[i] \in Nat /\ failures'[i] >= failures[i]
      /\ failures'[w] = failures[w] + 1 /\ failures[w] \in Nat /\ failures'[w] > 0
  BY <1>1, <1>2, <1>3
<1>5. /\ \A m \in DOMAIN sent' : sent'[m][1] <= last'
      /\ FifoUnlessFailed'
      /\ \A m \in DOMAIN sent', k \in DOMAIN queue' : Behind(sent[m][1], queue[k].id)'
  BY <1>1, <1>4, SendsInTurn
<1>6. QueueTypes'  BY <1>1, <1>2 DEF QueueTypes
<1>7. OnePlace'  BY <1>1, <1>2, <1>5 DEF OnePlace
<1>8. InTurn'
  <2>1. \A i \in delayed' : failures'[i.id] > 0
    <3>1. ASSUME NEW i \in delayed  PROVE failures'[i.id] > 0
      <4>1. i.id \in Ids /\ failures[i.id] > 0  BY ItemParts DEF InTurn
      <4> QED  BY <1>3, <1>4, <4>1
    <3> QED  BY <1>1, <1>4, <3>1
  <2>2. ASSUME NEW j \in DOMAIN queue, NEW k \in DOMAIN queue, j < k
        PROVE  queue[j].id <= queue[k].id \/ failures'[queue[k].id] > 0
    <3>1. queue[k].id \in Ids  BY ItemParts
    <3>2. queue[j].id <= queue[k].id \/ failures[queue[k].id] > 0  BY <2>2 DEF InTurn, Behind
    <3> QED  BY <1>3, <1>4, <3>1, <3>2
  <2> QED  BY <1>1, <1>2, <1>5, <2>1, <2>2 DEF InTurn, Behind
<1>9. Counted'
  <2> SUFFICES ASSUME NEW s \in Says, NEW u \in Users
               PROVE  /\ \A i \in Ids : Count(i, s, u)' <= failures'[i] + 1
                      /\ \A j \in DOMAIN queue : Count(queue[j].id, s, u)' <= failures'[queue[j].id]
                      /\ \A i \in delayed' : Count(i.id, s, u)' <= failures'[i.id]
    BY <1>1, <1>2 DEF Counted, Count
  <2>1. \A i \in Ids : /\ Count(i, s, u)' <= failures[i] + 1
                       /\ i # w => Count(i, s, u)' = Count(i, s, u)
    BY <1>1, SendsCounts
  <2>2. \A i \in Ids : Count(i, s, u) \in Nat /\ failures[i] \in Nat
    BY <1>3, CountNat
  <2>3. \A i \in Ids : i # w => failures'[i] = failures[i]  BY <1>1, <1>3
  <2>5. ASSUME NEW i \in Ids  PROVE Count(i, s, u)' <= failures'[i] + 1
    <3>1. CASE i = w
      <4>1. Count(i, s, u)' <= failures'[i]  BY <1>4, <2>1, <3>1
      <4>2. Count(i, s, u)' \in Int  BY <1>1, <2>5, SendsCounts
      <4> QED  BY <1>4, <4>1, <4>2
    <3>2. CASE i # w
      <4>1. Count(i, s, u)' <= failures[i] + 1 /\ failures'[i] = failures[i]  BY <2>1, <2>3, <3>2
      <4> QED  BY <4>1
    <3> QED  BY <3>1, <3>2
  <2>6. ASSUME NEW i \in Ids, i # w, Count(i, s, u) <= failures[i]
        PROVE  Count(i, s, u)' <= failures'[i]
    <3>1. Count(i, s, u)' = Count(i, s, u) /\ failures'[i] = failures[i]  BY <2>1, <2>3, <2>6
    <3> QED  BY <2>6, <3>1
  <2>7. ASSUME NEW i \in Ids, i = w  PROVE Count(i, s, u)' <= failures'[i]
    BY <1>4, <2>1, <2>7
  <2>8. ASSUME NEW j \in DOMAIN queue  PROVE Count(queue[j].id, s, u)' <= failures'[queue[j].id]
    <3> DEFINE i == queue[j].id
    <3>1. i \in Ids /\ i # w /\ Count(i, s, u) <= failures[i] /\ i' = i
      <4>1. queue' = queue  BY <1>1
      <4> QED  BY <1>2, <4>1, ItemParts DEF OnePlace, Counted
    <3> HIDE DEF i
    <3>2. \A n \in Ids : n = i => Count(n, s, u)' <= failures'[n]  BY <2>6, <3>1
    <3>3. Count(i, s, u)' <= failures'[i]  BY <3>1, <3>2 DEF Count
    <3> QED  BY <1>1, <3>3 DEF Count, i
  <2>9. ASSUME NEW i \in delayed'  PROVE Count(i.id, s, u)' <= failures'[i.id]
    <3>1. CASE i = worker.item
      <4>1. i.id \in Ids /\ i.id = w  BY <1>2, <3>1
      <4> QED  BY <2>7, <4>1
    <3>2. CASE i \in delayed
      <4>1. i.id \in Ids /\ i.id # w /\ Count(i.id, s, u) <= failures[i.id]
        BY <1>2, <3>2, ItemParts DEF OnePlace, Counted
      <4> QED  BY <2>6, <4>1
    <3> QED  BY <1>1, <3>1, <3>2
  <2> QED  BY <2>5, <2>8, <2>9
<1> QED  BY <1>6, <1>7, <1>8, <1>9

----------------------------------------------------------------------------
(* What the calls do to the worker and to the histories.                   *)

Calls == AdminUser \/ Invoke \/ GetWorkflowOwner \/ Send \/ Corefile \/ Alert \/ Stamp

\* The walk over the callbacks is not over ...
Walks == /\ Step("callbacks")
         /\ worker'.todo = worker.todo /\ worker'.user = worker.user

\* ... a callback has got the item, ...
Tells == /\ Walks /\ worker.cb <= LastCallback
         /\ Called(told) /\ worker'.cb = worker.cb + 1

\* ... or the call to it is repeated.
Repeats == Walks /\ worker' = worker /\ told' = told

\* A call to a callback that fails; the next step is the same call, or after the walk.
Misses == /\ Step("callbacks") /\ worker.cb <= LastCallback
          /\ told' = told /\ Called(unsure)

\* After any other call that succeeds the next one follows, except that the program
\* ends where no owner is found and where the hour is not over.
Proceeds == /\ told' = told /\ worker'.cb = 1
            /\ \/ worker'.todo = Tail(worker.todo)
               \/ worker'.todo = <<>> /\ Step("owner") /\ worker'.user = Nobody
               \/ worker'.todo = <<>> /\ Step("alertAdmin")
            /\ worker'.user = worker.user \/ Step("owner")
            /\ Step("alertAdmin") => worker'.todo = <<>> \/ ~hour
            /\ Step("notifyUser") \/ Step("notifyAdmin") => Sent(Recipient)

\* A call ends the work, tells somebody or goes on to the next part.
LEMMA CallEffects ==
    ASSUME InWork, Calls
    PROVE  /\ (worker' = NoWork /\ told' = told) \/ Tells \/ Repeats \/ Proceeds
           /\ unsure' = unsure \/ Misses
           /\ UNCHANGED <<done, lost>>
           /\ Stamp \/ UNCHANGED <<hour, rounds>>
<1> USE DEF call_vars
<1> DEFINE W(t, n, u, e) == [item |-> worker.item, todo |-> t, cb |-> n, user |-> u, err |-> e]
<1>1. \A t, n, u, e : /\ W(t, n, u, e).todo = t /\ W(t, n, u, e).cb = n /\ W(t, n, u, e).user = u
  OBVIOUS
<1>2. ~Step("callbacks") => worker.cb = 1  BY WorkerParts
<1>3. CASE AdminUser
  <2>1. ~Step("callbacks") /\ ~Step("owner") /\ ~Step("alertAdmin") /\ ~Step("notifyUser") /\ ~Step("notifyAdmin")
    BY <1>3 DEF AdminUser, Step
  <2>2. CASE worker' = Advance /\ UNCHANGED <<hour, hist_vars>>
    <3>1. worker' = W(Tail(worker.todo), 1, worker.user, worker.err)
      BY <1>2, <2>1, <2>2, WorkerParts
    <3> HIDE DEF W
    <3> QED  BY <1>1, <2>1, <2>2, <3>1 DEF Proceeds, hist_vars
  <2>3. CASE Fail /\ UNCHANGED <<sent, hour>>  BY <2>3 DEF Fail
  <2> QED  BY <1>3, <2>2, <2>3 DEF AdminUser
<1>4. CASE Invoke
  <2>1. Step("callbacks") /\ ~Step("owner") /\ ~Step("alertAdmin") /\ ~Step("notifyUser") /\ ~Step("notifyAdmin")
    BY <1>4 DEF Invoke, Step
  <2>2. UNCHANGED <<hour, rounds, done, lost>>  BY <1>4 DEF Invoke
  <2>5. unsure' = unsure \/ Misses  BY <1>4, <2>1 DEF Invoke, Misses
  <2>3. CASE worker' = [Advance EXCEPT !.cb = 1] /\ UNCHANGED told
    <3>1. worker' = W(Tail(worker.todo), 1, worker.user, worker.err)
      BY <2>3, WorkerParts
    <3> HIDE DEF W
    <3>2. worker'.todo = Tail(worker.todo) /\ worker'.cb = 1 /\ worker'.user = worker.user
      BY <1>1, <3>1
    <3>3. Proceeds  BY <2>1, <2>3, <3>2 DEF Proceeds
    <3> QED  BY <2>2, <2>5, <3>3
  <2>4. CASE /\ worker' = [worker EXCEPT !.cb = @ + 1] /\ worker.cb <= LastCallback
             /\ Called(told)
    <3>1. worker' = W(worker.todo, worker.cb + 1, worker.user, worker.err)
      BY <2>4, WorkerParts
    <3> HIDE DEF W
    <3> QED  BY <1>1, <2>1, <2>2, <2>4, <2>5, <3>1 DEF Tells, Walks
  <2>6. CASE worker' = worker /\ UNCHANGED told
    BY <2>1, <2>2, <2>5, <2>6 DEF Repeats, Walks
  <2> QED  BY <1>4, <2>3, <2>4, <2>6 DEF Invoke
<1>5. CASE GetWorkflowOwner
  <2>1. ~Step("callbacks") /\ Step("owner") /\ ~Step("alertAdmin") /\ ~Step("notifyUser") /\ ~Step("notifyAdmin")
    BY <1>5 DEF GetWorkflowOwner, Step
  <2>2. UNCHANGED <<hour, call_vars, rounds, done, lost>>  BY <1>5 DEF GetWorkflowOwner, hist_vars
  <2>3. \/ worker' = W(Tail(worker.todo), 1, worker.user, worker.err)
        \/ worker' = W(Tail(worker.todo), 1, NUsers, worker.err)
        \/ worker' = W(<<>>, 1, worker.user, worker.err) /\ worker.user = Nobody
    BY <1>2, <1>5, <2>1, WorkerParts DEF GetWorkflowOwner
  <2> HIDE DEF W
  <2> QED  BY <1>1, <2>1, <2>2, <2>3 DEF Proceeds
<1>6. CASE Send
  <2>1. ~Step("callbacks") /\ ~Step("owner") /\ ~Step("alertAdmin")
    BY <1>6 DEF Send, Step
  <2>2. CASE Sent(Recipient) /\ worker' = Advance /\ UNCHANGED <<call_vars, rounds, done, lost>>
    <3>1. worker' = W(Tail(worker.todo), 1, worker.user, worker.err)
      BY <1>2, <2>1, <2>2, WorkerParts
    <3>2. UNCHANGED hour  BY <1>6 DEF Send
    <3> HIDE DEF W
    <3> QED  BY <1>1, <2>1, <2>2, <3>1, <3>2 DEF Proceeds
  <2>3. CASE Fail  BY <1>6, <2>3 DEF Fail, Send
  <2> QED  BY <1>6, <2>2, <2>3 DEF Send
<1>7. CASE Corefile
  <2>1. ~Step("callbacks") /\ ~Step("owner") /\ ~Step("alertAdmin") /\ ~Step("notifyUser") /\ ~Step("notifyAdmin")
    BY <1>7 DEF Corefile, Step
  <2>2. CASE worker' = Advance /\ UNCHANGED <<call_vars, rounds, done, lost>>
    <3>1. worker' = W(Tail(worker.todo), 1, worker.user, worker.err)
      BY <1>2, <2>1, <2>2, WorkerParts
    <3>2. UNCHANGED hour  BY <1>7 DEF Corefile
    <3> HIDE DEF W
    <3> QED  BY <1>1, <2>1, <2>2, <3>1, <3>2 DEF Proceeds
  <2>3. CASE Fail  BY <1>7, <2>3 DEF Fail, Corefile
  <2> QED  BY <1>7, <2>2, <2>3 DEF Corefile
<1>8. CASE Alert
  <2>1. ~Step("callbacks") /\ ~Step("owner") /\ ~Step("notifyUser") /\ ~Step("notifyAdmin")
    BY <1>8 DEF Alert, Step
  <2>2. UNCHANGED <<hour, call_vars, rounds, done, lost>>  BY <1>8 DEF Alert
  <2>3. CASE Step("alertAdmin") /\ hour
    <3>1. worker' = W(<<>>, 1, worker.user, worker.err)
      BY <1>2, <1>8, <2>1, <2>3, WorkerParts DEF Alert
    <3> HIDE DEF W
    <3> QED  BY <1>1, <2>1, <2>2, <2>3, <3>1 DEF Proceeds
  <2>4. CASE ~(Step("alertAdmin") /\ hour)
    <3>1. PICK e : worker' = W(Tail(worker.todo), 1, worker.user, e)
      <4>1. worker' = Advance \/ worker' = [Advance EXCEPT !.err = TRUE]  BY <1>8, <2>4 DEF Alert
      <4> QED  BY <1>2, <2>1, <4>1, WorkerParts
    <3> HIDE DEF W
    <3>2. worker'.todo = Tail(worker.todo) /\ worker'.cb = 1 /\ worker'.user = worker.user
      BY <1>1, <3>1
    <3>3. Proceeds  BY <2>1, <2>2, <2>4, <3>2 DEF Proceeds
    <3> QED  BY <2>2, <3>3
  <2> QED  BY <2>3, <2>4
<1>9. CASE Stamp
  <2>1. ~Step("callbacks") /\ ~Step("owner") /\ ~Step("alertAdmin") /\ ~Step("notifyUser") /\ ~Step("notifyAdmin")
    BY <1>9 DEF Stamp, Step
  <2>2. UNCHANGED <<call_vars, done, lost>>  BY <1>9 DEF Stamp
  <2>3. CASE worker.err  BY <1>9, <2>2, <2>3 DEF Stamp
  <2>4. CASE ~worker.err
    <3>1. worker' = W(Tail(worker.todo), 1, worker.user, worker.err)
      BY <1>2, <1>9, <2>1, <2>4, WorkerParts DEF Stamp
    <3> HIDE DEF W
    <3> QED  BY <1>1, <1>9, <2>1, <2>2, <3>1 DEF Proceeds
  <2> QED  BY <2>3, <2>4
<1> QED  BY <1>3, <1>4, <1>5, <1>6, <1>7, <1>8, <1>9 DEF Calls

\* A step of the worker on an item, as one of these.
LEMMA CallStarts ==
    ASSUME QueueTypes, Calls
    PROVE  InWork /\ worker.todo # <<>>
<1>1. worker.todo # <<>>
  BY DEF Calls, AdminUser, Invoke, GetWorkflowOwner, Send, Corefile, Alert, Stamp, Step
<1> QED  BY <1>1 DEF QueueTypes, NoWork

\* What was sent stays sent.
LEMMA GotKept ==
    ASSUME HistoryTypes, sent' = sent \/ (InWork /\ Sends)
    PROVE  \A i, u : Got(i, u) => \E n \in DOMAIN sent' : sent'[n][1] = i /\ sent'[n][3] = u
<1>1. CASE sent' = sent  BY <1>1 DEF Got
<1>2. ASSUME InWork, NEW r \in Users, Sent(r), Head(worker.todo) \in Says
      PROVE  \A i, u : Got(i, u) => \E n \in DOMAIN sent' : sent'[n][1] = i /\ sent'[n][3] = u
  <2> DEFINE x == <<worker.item.id, Head(worker.todo), r>>
  <2>1. x \in Ids \X Says \X Users  BY <1>2 DEF InWork, Item
  <2>2. sent' = Append(sent, x) /\ sent \in Seq(Ids \X Says \X Users)
    BY <1>2 DEF Sent, HistoryTypes
  <2> HIDE DEF x
  <2>3. DOMAIN sent \subseteq DOMAIN sent' /\ \A j \in DOMAIN sent : sent'[j] = sent[j]
    BY <2>1, <2>2, Appended
  <2> QED  BY <2>3 DEF Got
<1> QED  BY <1>1, <1>2 DEF Sends

\* What is sent now is among what was sent.
LEMMA GotNow ==
    ASSUME HistoryTypes, InWork, NEW r \in Users, Sent(r), Head(worker.todo) \in Says
    PROVE  \E n \in DOMAIN sent' : sent'[n][1] = worker.item.id /\ sent'[n][3] = r
<1> DEFINE x == <<worker.item.id, Head(worker.todo), r>>
<1>1. x \in Ids \X Says \X Users /\ x[1] = worker.item.id /\ x[3] = r  BY DEF InWork, Item
<1>2. sent' = Append(sent, x) /\ sent \in Seq(Ids \X Says \X Users)  BY DEF Sent, HistoryTypes
<1> HIDE DEF x
<1>3. Len(sent) + 1 \in DOMAIN sent' /\ sent'[Len(sent) + 1] = x  BY <1>1, <1>2, Appended
<1> QED  BY <1>1, <1>3

\* A log of calls with one call more.
LEMMA CallCounted ==
    ASSUME NEW log \in [Ids -> [1 .. LastCallback -> Nat]],
           NEW w \in Ids, NEW n \in 1 .. LastCallback
    PROVE  /\ [log EXCEPT ![w][n] = @ + 1] \in [Ids -> [1 .. LastCallback -> Nat]]
           /\ \A i \in Ids, c \in 1 .. LastCallback :
                 [log EXCEPT ![w][n] = @ + 1][i][c]
                   = IF i = w /\ c = n THEN log[i][c] + 1 ELSE log[i][c]
<1> DEFINE f == [log[w] EXCEPT ![n] = log[w][n] + 1]
<1>1. log[w] \in [1 .. LastCallback -> Nat]  OBVIOUS
<1>2. log[w][n] \in Nat  BY <1>1
<1>3. f \in [1 .. LastCallback -> Nat]  BY <1>1, <1>2
<1>4. \A c \in 1 .. LastCallback : f[c] = IF c = n THEN log[w][c] + 1 ELSE log[w][c]  BY <1>1
<1>5. [log EXCEPT ![w][n] = @ + 1] = [log EXCEPT ![w] = f]  OBVIOUS
<1> HIDE DEF f
<1>6. [log EXCEPT ![w] = f] \in [Ids -> [1 .. LastCallback -> Nat]]  BY <1>3
<1>7. \A i \in Ids : [log EXCEPT ![w] = f][i] = IF i = w THEN f ELSE log[i]  OBVIOUS
<1> QED  BY <1>4, <1>5, <1>6, <1>7

\* The histories keep their types.
LEMMA HistoryKeeps ==
    ASSUME EInv, EventsNext
    PROVE  HistoryTypes'
<1> USE DEF EInv, call_vars
<1>1. /\ sent \in Seq(Ids \X Says \X Users)
      /\ told \in [Ids -> [1 .. LastCallback -> Nat]]
      /\ unsure \in [Ids -> [1 .. LastCallback -> Nat]]
      /\ failures \in [Ids -> Nat]
      /\ done \subseteq Item /\ lost \subseteq Ids
  BY DEF HistoryTypes
<1>2. CASE Source \/ PollFails \/ Run
  <2>1. UNCHANGED hist_vars  BY <1>2, SourceNews
  <2> QED  BY <1>1, <2>1 DEF HistoryTypes, hist_vars
<1>3. CASE Get \/ HourPasses \/ \E i \in delayed : Limiter(i)
  <2>1. UNCHANGED hist_vars  BY <1>3 DEF Get, HourPasses, Limiter, Requeue
  <2> QED  BY <1>1, <2>1 DEF HistoryTypes, hist_vars
<1>4. CASE Finish
  <2>1. UNCHANGED <<sent, call_vars, failures, lost>> /\ Busy
        /\ done' = done \cup {[worker.item EXCEPT !.user = worker.user]}
    BY <1>4 DEF Finish
  <2>2. worker.item \in Item /\ worker.user \in Users \cup {Nobody}
    BY <2>1, ItemParts, WorkerParts
  <2>3. [worker.item EXCEPT !.user = worker.user] \in Item  BY <2>2 DEF Item
  <2> QED  BY <1>1, <2>1, <2>3 DEF HistoryTypes
<1>5. CASE Crash
  <2>1. UNCHANGED <<sent, call_vars, failures, done>> /\ lost' = lost \cup Pending  BY <1>5 DEF Crash
  <2>2. Pending \subseteq Ids  BY ItemParts DEF Pending
  <2> QED  BY <1>1, <2>1, <2>2 DEF HistoryTypes
<1>6. CASE Calls /\ UNCHANGED last
  <2>1. InWork /\ worker.item.id \in Ids /\ Busy
    BY <1>6, CallStarts, InWorkBusy, ItemParts
  <2>2. GoesOn \/ GivesUp  BY <1>6, WorkerGoes DEF Calls
  <2>3. sent' \in Seq(Ids \X Says \X Users)
    BY <2>1, <2>2, SendsParts DEF GoesOn, GivesUp, QInv
  <2>4. failures' \in [Ids -> Nat]
    <3>1. CASE GoesOn  BY <1>1, <3>1 DEF GoesOn
    <3>2. CASE GivesUp
      <4>1. failures' = [failures EXCEPT ![worker.item.id] = failures[worker.item.id] + 1]
        BY <3>2 DEF GivesUp
      <4>2. failures[worker.item.id] + 1 \in Nat  BY <1>1, <2>1
      <4> QED  BY <1>1, <4>1, <4>2
    <3> QED  BY <2>2, <3>1, <3>2
  <2>5. /\ told' \in [Ids -> [1 .. LastCallback -> Nat]]
        /\ unsure' \in [Ids -> [1 .. LastCallback -> Nat]]
    <3>1. (told' = told \/ Tells) /\ (unsure' = unsure \/ Misses)
      BY <1>6, <2>1, CallEffects DEF Proceeds, Repeats
    <3>2. Tells \/ Misses => worker.cb \in 1 .. LastCallback
      BY <2>1, SysEventsAssumption DEF Tells, Misses, InWork
    <3>3. told' \in [Ids -> [1 .. LastCallback -> Nat]]
      <4>1. CASE told' = told  BY <1>1, <4>1
      <4>2. CASE Tells
        <5>1. told' = [told EXCEPT ![worker.item.id][worker.cb] = @ + 1]  BY <4>2 DEF Tells, Called
        <5>2. worker.cb \in 1 .. LastCallback  BY <3>2, <4>2
        <5> QED  BY <1>1, <2>1, <5>1, <5>2, CallCounted
      <4> QED  BY <3>1, <4>1, <4>2
    <3>4. unsure' \in [Ids -> [1 .. LastCallback -> Nat]]
      <4>1. CASE unsure' = unsure  BY <1>1, <4>1
      <4>2. CASE Misses
        <5>1. unsure' = [unsure EXCEPT ![worker.item.id][worker.cb] = @ + 1]  BY <4>2 DEF Misses, Called
        <5>2. worker.cb \in 1 .. LastCallback  BY <3>2, <4>2
        <5> QED  BY <1>1, <2>1, <5>1, <5>2, CallCounted
      <4> QED  BY <3>1, <4>1, <4>2
    <3> QED  BY <3>3, <3>4
  <2>6. UNCHANGED <<done, lost>>  BY <1>6, <2>1, CallEffects
  <2> QED  BY <1>1, <2>3, <2>4, <2>5, <2>6 DEF HistoryTypes
<1> QED  BY <1>2, <1>3, <1>4, <1>5, <1>6 DEF EventsNext, WorkerStep, Calls

\* The sources are left alone or set to something of their kind.
LEMMA SourceKeeps ==
    ASSUME EInv, EventsNext
    PROVE  SourceTypes'
<1> USE DEF EInv
<1>1. CASE Source \/ PollFails \/ Run  BY <1>1, SourceNews
<1>2. CASE WorkerStep \/ HourPasses \/ \E i \in delayed : Limiter(i)
  BY <1>2 DEF WorkerStep, HourPasses, Limiter, src_vars, SourceTypes
<1>3. CASE Crash  BY <1>3 DEF Crash, SourceTypes
<1> QED  BY <1>1, <1>2, <1>3 DEF EventsNext

\* The places of the items, one step.
LEMMA QueueKeeps ==
    ASSUME EInv, EventsNext
    PROVE  QueueTypes' /\ OnePlace' /\ InTurn' /\ Counted'
<1> USE DEF EInv
<1>0. QInv  BY DEF QInv
<1>1. CASE Source \/ PollFails \/ Run
  <2>1. PICK s : News(s)  BY <1>1, SourceNews
  <2>2. UNCHANGED <<delayed, worker, sent, failures>>  BY <1>1, SourceNews DEF hist_vars
  <2> QED  BY <1>0, <2>1, <2>2, NewsKeeps
<1>2. CASE WorkerStep
  <2>1. UNCHANGED last  BY <1>2 DEF WorkerStep
  <2>2. CASE Get  BY <1>0, <2>1, <2>2, GetKeeps
  <2>3. CASE Finish  BY <1>0, <2>1, <2>3, FinishKeeps
  <2>4. CASE Calls  BY <1>0, <2>1, <2>4, WorkerGoes, GoesOnKeeps, GivesUpKeeps DEF Calls
  <2> QED  BY <1>2, <2>2, <2>3, <2>4 DEF WorkerStep, Calls
<1>3. CASE HourPasses
  <2>1. UNCHANGED <<queue, delayed, worker, last, sent, failures>>
    BY <1>3 DEF HourPasses, hist_vars
  <2>2. QueueTypes'  BY <2>1 DEF QueueTypes, InWork, Step, Proper
  <2>3. OnePlace'  BY <2>1 DEF OnePlace, Busy
  <2>4. InTurn'  BY <2>1 DEF InTurn, Behind, FifoUnlessFailed, Busy
  <2>5. \A n, m, u : Count(n, m, u)' = Count(n, m, u)  BY <2>1 DEF Count
  <2>6. Counted'  BY <2>1, <2>5 DEF Counted, Busy
  <2> QED  BY <2>2, <2>3, <2>4, <2>6
<1>4. CASE Crash  BY <1>0, <1>4, CrashKeeps
<1>5. CASE \E i \in delayed : Limiter(i)  BY <1>0, <1>5, RequeueKeeps DEF Limiter
<1> QED  BY <1>1, <1>2, <1>3, <1>4, <1>5 DEF EventsNext

\* The walk over the callbacks.
LEMMA WalkKeeps ==
    ASSUME EInv, EventsNext
    PROVE  Walked'
<1> USE DEF EInv, call_vars
<1>1. ASSUME told' = told, worker' = NoWork \/ worker'.cb = 1  PROVE Walked'
  <2>2. worker'.cb = 1  BY <1>1 DEF NoWork
  <2>3. \A c \in 1 .. LastCallback : ~(c < worker'.cb)  BY <2>2, SysEventsAssumption
  <2> QED  BY <1>1, <2>3 DEF Walked
<1>2. ASSUME UNCHANGED <<told, worker>>  PROVE Walked'
  BY <1>2 DEF Walked, Step
<1>3. CASE Source \/ PollFails \/ Run
  <2>1. UNCHANGED <<told, worker>>  BY <1>3, SourceNews DEF hist_vars
  <2> QED  BY <1>2, <2>1
<1>4. CASE HourPasses \/ \E i \in delayed : Limiter(i)
  <2>1. UNCHANGED <<told, worker>>  BY <1>4 DEF HourPasses, Limiter, Requeue, hist_vars
  <2> QED  BY <1>2, <2>1
<1>5. CASE Crash \/ Finish  BY <1>1, <1>5 DEF Crash, Finish
<1>6. CASE Get /\ UNCHANGED last
  <2>1. worker'.cb = 1  BY <1>6, GetKeeps DEF QInv
  <2>2. told' = told  BY <1>6 DEF Get, hist_vars
  <2> QED  BY <1>1, <2>1, <2>2
<1>7. CASE Calls /\ UNCHANGED last
  <2>1. InWork /\ worker.item.id \in Ids /\ Busy
    BY <1>7, CallStarts, InWorkBusy, ItemParts
  <2>2. CASE worker' = NoWork /\ told' = told  BY <1>1, <2>2
  <2>3. CASE Proceeds  BY <1>1, <2>3 DEF Proceeds
  <2>5. CASE Repeats  BY <1>2, <2>5 DEF Repeats
  <2>4. CASE Tells
    <3> DEFINE w == worker.item.id
               n == worker.cb
               T(i, c) == told[i][c]
               N(i, c) == told'[i][c]
               C == 1 .. LastCallback
    <3>1. n \in C /\ n \in Nat /\ C \subseteq Nat
      BY <2>1, <2>4, SysEventsAssumption DEF Tells, InWork
    <3>2. /\ \A i \in Ids, c \in C : T(i, c) \in Nat
          /\ \A i \in Ids, c \in C : N(i, c) = IF i = w /\ c = n THEN T(i, c) + 1 ELSE T(i, c)
      <4>1. told \in [Ids -> [C -> Nat]]  BY DEF HistoryTypes
      <4>2. told' = [told EXCEPT ![w][n] = @ + 1]  BY <2>4 DEF Tells, Called
      <4>3. \A i \in Ids, c \in C : T(i, c) \in Nat  BY <4>1
      <4> QED  BY <2>1, <3>1, <4>1, <4>2, <4>3, CallCounted
    <3>3. \A i \in Ids, c, d \in C : c < d => T(i, c) >= T(i, d)
      BY DEF Walked
    <3>4. \A c, d \in C : c < n /\ n <= d => T(w, c) > T(w, d)
      BY <2>4 DEF Walked, Tells, Walks
    <3>5. worker'.cb = n + 1 /\ worker'.item = worker.item
      <4>1. worker' # NoWork
        <5>1. worker'.todo # <<>>  BY <2>4 DEF Tells, Walks, Step
        <5> QED  BY <5>1 DEF NoWork
      <4>2. GoesOn \/ GivesUp  BY <1>7, WorkerGoes DEF Calls
      <4> QED  BY <2>4, <4>1, <4>2 DEF Tells, GoesOn, GivesUp
    <3> HIDE DEF T, N, n, C, w
    <3>6. ASSUME NEW i \in Ids, NEW c \in C, NEW d \in C, c < d  PROVE N(i, c) >= N(i, d)
      <4>1. CASE i = w /\ d = n
        <5>1. T(i, c) > T(i, d) /\ c # n  BY <3>1, <3>4, <3>6, <4>1
        <5> QED  BY <3>2, <4>1, <5>1
      <4>2. CASE ~(i = w /\ d = n)
        <5>1. T(i, c) >= T(i, d) /\ N(i, d) = T(i, d)  BY <3>2, <3>3, <3>6, <4>2
        <5> QED  BY <3>2, <5>1
      <4> QED  BY <4>1, <4>2
    <3>7. ASSUME NEW c \in C, NEW d \in C, c < n + 1, n + 1 <= d  PROVE N(w, c) > N(w, d)
      <4>0. w \in Ids  BY <2>1 DEF w
      <4>1. d # n /\ n < d /\ N(w, d) = T(w, d)  BY <3>1, <3>2, <3>7, <4>0
      <4>2. CASE c = n
        <5>1. N(w, c) = T(w, c) + 1 /\ T(w, c) >= T(w, d)  BY <3>2, <3>3, <4>0, <4>1, <4>2
        <5> QED  BY <3>2, <4>0, <4>1, <5>1
      <4>3. CASE c # n
        <5>1. c < n  BY <3>1, <3>7, <4>3
        <5>2. N(w, c) = T(w, c) /\ T(w, c) > T(w, d)  BY <3>1, <3>2, <3>4, <4>0, <4>1, <4>3, <5>1
        <5> QED  BY <4>1, <5>2
      <4> QED  BY <4>2, <4>3
    <3> QED  BY <3>5, <3>6, <3>7 DEF Walked, N, C, n, w
  <2> QED  BY <1>7, <2>1, <2>2, <2>3, <2>4, <2>5, CallEffects
<1> QED  BY <1>3, <1>4, <1>5, <1>6, <1>7 DEF EventsNext, WorkerStep, Calls

\* A callback is called when those before it have been told.
LEMMA InListOrderKeeps ==
    ASSUME EInv, EventsNext
    PROVE  InListOrder'
<1> USE DEF EInv, call_vars
<1>1. ASSUME UNCHANGED <<told, unsure>>  PROVE InListOrder'  BY <1>1 DEF InListOrder
<1>2. CASE Source \/ PollFails \/ Run  BY <1>1, <1>2, SourceNews DEF hist_vars
<1>3. CASE HourPasses \/ Get \/ Finish \/ Crash \/ \E i \in delayed : Limiter(i)
  <2>1. UNCHANGED <<told, unsure>>
    BY <1>3 DEF HourPasses, Get, Finish, Crash, Limiter, Requeue, hist_vars
  <2> QED  BY <1>1, <2>1
<1>4. CASE Calls
  <2> DEFINE C == 1 .. LastCallback
             w == worker.item.id
             n == worker.cb
             T(i, c) == told[i][c]
             N(i, c) == told'[i][c]
             U(i, c) == unsure[i][c]
             V(i, c) == unsure'[i][c]
  <2>1. InWork /\ w \in Ids  BY <1>4, CallStarts, InWorkBusy, ItemParts
  <2>2. (told' = told \/ Tells) /\ (unsure' = unsure \/ Misses)
    BY <1>4, <2>1, CallEffects DEF Proceeds, Repeats
  <2>3. Tells \/ Misses => n \in C
    BY <2>1, SysEventsAssumption DEF Tells, Misses, InWork
  <2>4. told \in [Ids -> [C -> Nat]] /\ unsure \in [Ids -> [C -> Nat]]  BY DEF HistoryTypes
  <2>5. \A i \in Ids, c \in C : T(i, c) \in Nat /\ U(i, c) \in Nat  BY <2>4
  <2>6. \A i \in Ids, c \in C : N(i, c) \in Nat /\ N(i, c) >= T(i, c)
    <3>1. CASE told' = told  BY <2>5, <3>1
    <3>2. CASE Tells
      <4>1. \A i \in Ids, c \in C : N(i, c) = IF i = w /\ c = n THEN T(i, c) + 1 ELSE T(i, c)
        BY <2>1, <2>3, <2>4, <3>2, CallCounted DEF Tells, Called
      <4> HIDE DEF N, T, C
      <4> QED  BY <2>5, <4>1
    <3> QED  BY <2>2, <3>1, <3>2
  <2>7. \A i \in Ids, c, d \in C : c < d => (U(i, d) > 0 => T(i, c) > 0)  BY DEF InListOrder
  <2>8. CASE unsure' = unsure
    <3>1. \A i \in Ids, c \in C : V(i, c) = U(i, c)  BY <2>8
    <3> HIDE DEF N, T, C, U, V
    <3>2. \A i \in Ids, c, d \in C : c < d => (V(i, d) > 0 => N(i, c) > 0)
      BY <2>5, <2>6, <2>7, <3>1
    <3> QED  BY <3>2 DEF InListOrder, N, V, C
  <2>9. CASE Misses
    <3>1. \A i \in Ids, c \in C : V(i, c) = IF i = w /\ c = n THEN U(i, c) + 1 ELSE U(i, c)
      <4>1. unsure' = [unsure EXCEPT ![w][n] = @ + 1]  BY <2>9 DEF Misses, Called
      <4>2. n \in C  BY <2>3, <2>9
      <4> HIDE DEF n, w
      <4> QED  BY <2>1, <2>4, <4>1, <4>2, CallCounted
    <3>2. \A i \in Ids, c \in C : N(i, c) = T(i, c)  BY <2>9 DEF Misses
    <3>3. n \in C /\ n \in Nat /\ C \subseteq Nat  BY <2>3, <2>9, SysEventsAssumption
    <3>4. \A c, d \in C : c < n /\ n <= d => T(w, c) > T(w, d)  BY <2>9 DEF Walked, Misses
    <3> HIDE DEF N, T, C, U, V, w, n
    <3>5. \A i \in Ids, c, d \in C : c < d => (V(i, d) > 0 => N(i, c) > 0)
      <4> SUFFICES ASSUME NEW i \in Ids, NEW c \in C, NEW d \in C, c < d, V(i, d) > 0
                   PROVE  T(i, c) > 0
        BY <3>2
      <4>1. CASE i = w /\ d = n
        <5>1. T(i, c) > T(i, d)  BY <3>3, <3>4, <4>1
        <5> QED  BY <2>5, <5>1
      <4>2. CASE ~(i = w /\ d = n)  BY <2>7, <3>1, <4>2
      <4> QED  BY <4>1, <4>2
    <3> QED  BY <3>5 DEF InListOrder, N, V, C
  <2> QED  BY <2>2, <2>8, <2>9
<1> QED  BY <1>2, <1>3, <1>4 DEF EventsNext, WorkerStep, Calls

\* A program does not begin with an alert.
LEMMA DoBegins ==
    ASSUME NEW i \in Item
    PROVE  /\ Do(i) # <<>> /\ Head(Do(i)) \notin {"alertUser", "stamp"}
           /\ i.kind # "corefile" => Do(i) # <<"corefile">>
<1>1. Notify \o <<"corefile">> = <<"admin", "notifyAdmin", "corefile">>  BY Three DEF Notify
<1>2. i.kind \in Kinds  BY DEF Item
<1>3. \/ Do(i) = <<"notifyUser">> \/ Do(i) = <<"admin", "notifyAdmin">>
      \/ Do(i) = <<"callbacks", "owner", "notifyUser">>
      \/ Do(i) = <<"admin", "notifyAdmin", "corefile">>
      \/ Do(i) = <<"admin", "callbacks", "notifyAdmin">>
      \/ Do(i) = <<"admin", "callbacks", "alertAdmin", "alertUser", "stamp">>
      \/ Do(i) = <<"corefile">> /\ i.kind = "corefile"
  <2>1. CASE i.kind \in {"appAdd", "appDelete", "appSuspend"}  BY <2>1 DEF Do, AppsDo
  <2>2. CASE i.kind \in {"userAdd", "userDelete"}  BY <1>1, <2>2 DEF Do, UsersDo, Notify
  <2>3. CASE i.kind \in {"cluster", "user"}  BY <2>3 DEF Do, MetricsDo
  <2>4. CASE i.kind \in {"recommend", "corefile", "custom"}
    BY <2>4 DEF Do, WorkflowsDo, CustomDo
  <2> QED  BY <1>2, <2>1, <2>2, <2>3, <2>4 DEF Kinds
<1>4. /\ Head(<<"notifyUser">>) = "notifyUser" /\ Head(<<"corefile">>) = "corefile"
      /\ Head(<<"admin", "notifyAdmin">>) = "admin"
      /\ Head(<<"callbacks", "owner", "notifyUser">>) = "callbacks"
      /\ Head(<<"admin", "notifyAdmin", "corefile">>) = "admin"
      /\ Head(<<"admin", "callbacks", "notifyAdmin">>) = "admin"
      /\ Head(<<"admin", "callbacks", "alertAdmin", "alertUser", "stamp">>) = "admin"
  OBVIOUS
<1>5. Do(i) # <<>>  BY <1>3
<1> QED  BY <1>3, <1>4, <1>5

\* The rounds of alerts and the hours.
LEMMA RoundsKeep ==
    ASSUME EInv, EventsNext
    PROVE  Rounds'
<1> USE DEF EInv
<1> DEFINE Late == Step("alertUser") \/ Step("stamp")
<1>0. /\ rounds \in Nat /\ hours \in Nat /\ crashes \in Nat /\ hour \in BOOLEAN
      /\ rounds <= hours + crashes + (IF hour THEN 1 ELSE 0)
      /\ Late => ~hour
  BY DEF Rounds
<1>1. ASSUME UNCHANGED <<hour, rounds, hours, crashes>>, Late' => ~hour  PROVE Rounds'
  BY <1>0, <1>1 DEF Rounds
<1>2. ASSUME worker'.todo = <<>>  PROVE ~Late'  BY <1>2 DEF Step
<1>3. CASE Source \/ PollFails \/ Run
  <2>1. UNCHANGED <<hour, rounds, hours, crashes, worker>>  BY <1>3, SourceNews DEF hist_vars
  <2>2. Late' = Late  BY <2>1 DEF Step
  <2> QED  BY <1>0, <1>1, <2>1, <2>2
<1>4. CASE \E i \in delayed : Limiter(i)
  <2>1. UNCHANGED <<hour, rounds, hours, crashes, worker>>
    BY <1>4 DEF Limiter, Requeue, hist_vars
  <2>2. Late' = Late  BY <2>1 DEF Step
  <2> QED  BY <1>0, <1>1, <2>1, <2>2
<1>5. CASE HourPasses
  <2>1. hour /\ hour' = FALSE /\ hours' = hours + 1 /\ UNCHANGED <<rounds, crashes, worker>>
    BY <1>5 DEF HourPasses, hist_vars
  <2>2. ~hour' /\ hour' \in BOOLEAN  BY <2>1
  <2>3. rounds <= hours + crashes + 1  BY <1>0
  <2>4. rounds' \in Nat /\ hours' \in Nat /\ crashes' \in Nat /\ rounds' <= hours' + crashes' + 0
    BY <1>0, <2>1, <2>3
  <2> QED  BY <2>2, <2>4 DEF Rounds
<1>6. CASE Crash
  <2>1. hour' = FALSE /\ crashes' = crashes + 1 /\ UNCHANGED <<rounds, hours>>
    BY <1>6 DEF Crash
  <2>2. ~hour' /\ hour' \in BOOLEAN  BY <2>1
  <2>3. rounds <= hours + crashes + 1  BY <1>0
  <2>4. rounds' \in Nat /\ hours' \in Nat /\ crashes' \in Nat /\ rounds' <= hours' + crashes' + 0
    BY <1>0, <2>1, <2>3
  <2> QED  BY <2>2, <2>4 DEF Rounds
<1>7. CASE Finish /\ UNCHANGED <<hours, crashes>>
  <2>1. UNCHANGED <<hour, rounds>> /\ worker'.todo = <<>>  BY <1>7 DEF Finish, NoWork
  <2> QED  BY <1>1, <1>2, <1>7, <2>1
<1>8. CASE Get /\ UNCHANGED <<last, hours, crashes>>
  <2>1. UNCHANGED <<hour, rounds>>  BY <1>8 DEF Get, hist_vars
  <2>2. queue # <<>> /\ queue \in Seq(Item)  BY <1>8 DEF Get, QueueTypes
  <2>3. worker'.todo = Do(Head(queue)) /\ Head(queue) \in Item
    BY <1>8, <2>2, GetKeeps, Without DEF QInv
  <2>4. ~Late'  BY <2>3, DoBegins DEF Step
  <2> QED  BY <1>1, <1>8, <2>1, <2>4
<1>9. CASE Calls /\ UNCHANGED <<last, hours, crashes>>
  <2>1. InWork /\ worker.todo # <<>>  BY <1>9, CallStarts
  <2>2. CASE Stamp
    <3>1. Step("stamp") /\ hour' = TRUE /\ rounds' = rounds + 1  BY <2>2 DEF Stamp
    <3>2. ~hour  BY <1>0, <3>1
    <3>3. worker'.todo = <<>>
      <4>1. CASE worker.err  BY <2>2, <4>1 DEF Stamp, NoWork
      <4>2. CASE ~worker.err
        <5>1. worker' = Advance  BY <2>2, <4>2 DEF Stamp
        <5>2. worker'.todo = Tail(worker.todo)  BY <2>1, <5>1, WorkerParts
        <5> QED  BY <2>1, <3>1, <5>2, CallsOf
      <4> QED  BY <4>1, <4>2
    <3>4. ~Late'  BY <1>2, <3>3
    <3> QED  BY <1>0, <1>9, <3>1, <3>2, <3>4 DEF Rounds
  <2>3. CASE ~Stamp
    <3>1. UNCHANGED <<hour, rounds>>  BY <1>9, <2>1, <2>3, CallEffects
    <3>2. CASE worker'.todo = <<>>  BY <1>1, <1>2, <1>9, <3>1, <3>2
    <3>3. CASE worker'.todo # <<>> /\ Walks
      <4>1. ~Late'  BY <3>3 DEF Walks, Step
      <4> QED  BY <1>1, <1>9, <3>1, <4>1
    <3>4. CASE worker'.todo # <<>> /\ Proceeds
      <4>1. worker'.todo = Tail(worker.todo)  BY <3>4 DEF Proceeds
      <4>2. Late' => Step("alertAdmin") \/ Step("alertUser")
        <5>1. Late' => Head(Tail(worker.todo)) \in {"alertUser", "stamp"}  BY <4>1 DEF Step
        <5> QED  BY <2>1, <3>4, <4>1, <5>1, CallsOf
      <4>3. Late' => ~hour  BY <1>0, <3>4, <4>2 DEF Proceeds
      <4> QED  BY <1>1, <1>9, <3>1, <4>3
    <3>5. CASE worker' = NoWork  BY <3>2, <3>5 DEF NoWork
    <3> QED  BY <1>9, <2>1, <3>2, <3>3, <3>4, <3>5, CallEffects DEF Tells, Repeats
  <2> QED  BY <2>2, <2>3
<1> QED  BY <1>3, <1>4, <1>5, <1>6, <1>7, <1>8, <1>9 DEF EventsNext, WorkerStep, Calls

\* Where the owner is asked for, the message to him follows.
LEMMA OwnerFirst ==
    ASSUME InWork, Step("owner")  PROVE Tail(worker.todo) # <<>>
<1>1. worker.todo # <<>>  BY DEF Step
<1>2. worker.item.kind = "recommend"  BY <1>1, CallsOf
<1>3. worker.todo \in {<<"callbacks", "owner", "notifyUser">>, <<"owner", "notifyUser">>,
                       <<"notifyUser">>, <<>>}
  BY <1>2 DEF InWork, Remainder
<1>4. Head(<<"callbacks", "owner", "notifyUser">>) = "callbacks" /\ Head(<<"notifyUser">>) = "notifyUser"
  OBVIOUS
<1>5. Head(worker.todo) = "owner"  BY DEF Step
<1>6. worker.todo = <<"owner", "notifyUser">>  BY <1>1, <1>3, <1>4, <1>5
<1>7. Tail(<<"owner", "notifyUser">>) = <<"notifyUser">>  BY Tails
<1> QED  BY <1>6, <1>7

\* What the worker has behind it has been sent, after one more call too.
LEMMA InformedCall ==
    ASSUME EInv, Calls, UNCHANGED last
    PROVE  Informed'
<1> USE DEF EInv
<1>1. InWork /\ worker.todo # <<>> /\ Busy  BY CallStarts, InWorkBusy
<1>2. GoesOn \/ GivesUp  BY WorkerGoes DEF Calls
<1>3. Sends  BY <1>2 DEF GoesOn, GivesUp
<1> DEFINE Has(i, u) == \E n \in DOMAIN sent' : sent'[n][1] = i /\ sent'[n][3] = u
<1>4. \A i, u : Got(i, u) => Has(i, u)  BY <1>1, <1>3, GotKept
<1>5. DoneMeansTold'
  <2>1. done' = done  BY <1>1, CallEffects
  <2>2. \A i \in done :
           /\ i.kind \in {"appAdd", "appDelete", "custom"} => Got(i.id, i.user)
           /\ i.kind = "recommend" => i.user = Nobody \/ Got(i.id, i.user)
           /\ i.kind \in {"appSuspend", "userAdd", "userDelete", "cluster"} => Got(i.id, Admin)
    BY DEF Informed, DoneMeansTold, Got
  <2>3. \A i \in done :
           /\ i.kind \in {"appAdd", "appDelete", "custom"} => Has(i.id, i.user)
           /\ i.kind = "recommend" => i.user = Nobody \/ Has(i.id, i.user)
           /\ i.kind \in {"appSuspend", "userAdd", "userDelete", "cluster"} => Has(i.id, Admin)
    BY <1>4, <2>2
  <2> QED  BY <2>1, <2>3 DEF DoneMeansTold
<1>6. CASE worker' = NoWork
  <2>1. ~Busy'  BY <1>6 DEF Busy
  <2> QED  BY <1>5, <2>1 DEF Informed
<1>7. CASE worker' # NoWork
  <2> DEFINE k == worker.item.kind
  <2>1. worker'.item = worker.item /\ k \in Kinds
    BY <1>1, <1>2, <1>7 DEF GoesOn, GivesUp, InWork, Item
  <2>2. Walks \/ Proceeds  BY <1>1, <1>7, CallEffects DEF Tells, Repeats
  <2>3. ASSUME Proceeds, Step("notifyUser") \/ Step("notifyAdmin")
        PROVE  Has(worker.item.id, Recipient)
    <3>1. Sent(Recipient) /\ Recipient \in Users  BY <1>1, <2>3, RecipientIsUser DEF Proceeds
    <3>2. Head(worker.todo) \in Says  BY <2>3 DEF Step, Says
    <3> QED  BY <1>1, <3>1, <3>2, GotNow
  <2>4. ASSUME k \in {"appAdd", "appDelete", "custom"}
        PROVE  Has(worker.item.id, worker'.user)
    <3>1. Step("notifyUser")  BY <1>1, <2>4, CallsOf
    <3>2. ~Step("callbacks") /\ ~Step("notifyAdmin") /\ ~Step("alertAdmin") /\ ~Step("owner")
      BY <3>1 DEF Step
    <3>3. Proceeds /\ Recipient = worker.user /\ worker'.user = worker.user
      BY <2>2, <3>2 DEF Walks, Proceeds, Recipient
    <3> QED  BY <2>3, <3>1, <3>3
  <2>5. ASSUME k = "recommend", worker'.todo = <<>>
        PROVE  worker'.user = Nobody \/ Has(worker.item.id, worker'.user)
    <3>1. CASE Step("notifyUser")
      <4>2. ~Step("callbacks") /\ ~Step("notifyAdmin") /\ ~Step("alertAdmin") /\ ~Step("owner")
        BY <3>1 DEF Step
      <4>3. Proceeds /\ Recipient = worker.user /\ worker'.user = worker.user
        BY <2>2, <4>2 DEF Walks, Proceeds, Recipient
      <4> QED  BY <2>3, <3>1, <4>3
    <3>2. CASE Step("owner")
      <4>1. ~Step("callbacks") /\ ~Step("alertAdmin")  BY <3>2 DEF Step
      <4>2. Tail(worker.todo) # <<>>  BY <1>1, <3>2, OwnerFirst
      <4> QED  BY <2>2, <2>5, <4>1, <4>2 DEF Walks, Proceeds
    <3>3. CASE Step("callbacks")
      <4>1. ~Step("owner") /\ ~Step("alertAdmin")  BY <3>3 DEF Step
      <4>2. Tail(worker.todo) # <<>>  BY <1>1, <3>3, CallsOf
      <4> QED  BY <1>1, <2>2, <2>5, <4>1, <4>2 DEF Walks, Proceeds
    <3> QED  BY <1>1, <2>5, <3>1, <3>2, <3>3, CallsOf
  <2>6. ASSUME k \in {"appSuspend", "userAdd", "userDelete", "cluster"},
               worker'.todo \in {<<>>, <<"corefile">>}
        PROVE  Has(worker.item.id, Admin)
    <3>1. ~Step("owner") /\ ~Step("alertAdmin")  BY <1>1, <2>6, CallsOf
    <3>2. CASE Step("notifyAdmin")
      <4>1. ~Step("callbacks")  BY <3>2 DEF Step
      <4>2. Proceeds /\ Recipient = Admin  BY <2>2, <3>2, <4>1 DEF Walks, Recipient
      <4> QED  BY <2>3, <3>2, <4>2
    <3>3. CASE worker.todo = <<"corefile">>
      <4>1. Got(worker.item.id, Admin)  BY <1>1, <2>6, <3>3 DEF Informed
      <4> QED  BY <1>4, <4>1
    <3>4. CASE Walks
      <4>1. Head(worker.todo) = "callbacks" /\ worker.todo \in {<<>>, <<"corefile">>}
        BY <2>6, <3>4 DEF Walks, Step
      <4>2. Head(<<"corefile">>) = "corefile"  OBVIOUS
      <4> QED  BY <1>1, <4>1, <4>2
    <3>5. CASE Proceeds /\ Tail(worker.todo) \notin {<<>>, <<"corefile">>}
      BY <2>6, <3>1, <3>5 DEF Proceeds
    <3> QED  BY <1>1, <2>2, <2>6, <3>2, <3>3, <3>4, <3>5, CallsOf
  <2>7. (Busy /\ worker.item.kind \in {"appAdd", "appDelete", "custom"} /\ worker.todo = <<>> =>
           Got(worker.item.id, worker.user))'
    BY <2>1, <2>4 DEF Got
  <2>8. (Busy /\ worker.item.kind = "recommend" /\ worker.todo = <<>> =>
           worker.user = Nobody \/ Got(worker.item.id, worker.user))'
    BY <2>1, <2>5 DEF Got
  <2>9. ((/\ Busy /\ worker.item.kind \in {"appSuspend", "userAdd", "userDelete", "cluster"}
          /\ worker.todo \in {<<>>, <<"corefile">>}) => Got(worker.item.id, Admin))'
    BY <2>1, <2>6 DEF Got
  <2> QED  BY <1>5, <2>7, <2>8, <2>9 DEF Informed
<1> QED  BY <1>6, <1>7

\* Every step keeps Informed.
LEMMA InformedKeeps ==
    ASSUME EInv, EventsNext
    PROVE  Informed'
<1> USE DEF EInv
<1>1. ASSUME UNCHANGED <<sent, done, worker>>  PROVE Informed'
  BY <1>1 DEF Informed, DoneMeansTold, Got, Busy
<1>2. CASE Source \/ PollFails \/ Run
  <2>1. UNCHANGED <<sent, done, worker>>  BY <1>2, SourceNews DEF hist_vars
  <2> QED  BY <1>1, <2>1
<1>3. CASE HourPasses \/ \E i \in delayed : Limiter(i)
  <2>1. UNCHANGED <<sent, done, worker>>  BY <1>3 DEF HourPasses, Limiter, Requeue, hist_vars
  <2> QED  BY <1>1, <2>1
<1>4. CASE Crash
  <2>1. UNCHANGED <<sent, done>> /\ ~Busy'  BY <1>4 DEF Crash, Busy
  <2> QED  BY <2>1 DEF Informed, DoneMeansTold
<1>5. CASE Finish
  <2> DEFINE d == [worker.item EXCEPT !.user = worker.user]
  <2>1. sent' = sent /\ done' = done \cup {d} /\ Busy /\ ~Busy' /\ worker.todo = <<>>
    BY <1>5 DEF Finish, Busy
  <2>2. worker.item \in Item  BY <2>1, ItemParts
  <2>3. d.id = worker.item.id /\ d.kind = worker.item.kind /\ d.user = worker.user
    BY <2>2 DEF Item
  <2> HIDE DEF d
  <2>4. /\ d.kind \in {"appAdd", "appDelete", "custom"} => Got(d.id, d.user)
        /\ d.kind = "recommend" => d.user = Nobody \/ Got(d.id, d.user)
        /\ d.kind \in {"appSuspend", "userAdd", "userDelete", "cluster"} => Got(d.id, Admin)
    BY <2>1, <2>3 DEF Informed
  <2>5. \A i \in done :
           /\ i.kind \in {"appAdd", "appDelete", "custom"} => Got(i.id, i.user)
           /\ i.kind = "recommend" => i.user = Nobody \/ Got(i.id, i.user)
           /\ i.kind \in {"appSuspend", "userAdd", "userDelete", "cluster"} => Got(i.id, Admin)
    BY DEF Informed, DoneMeansTold, Got
  <2>6. DoneMeansTold'
    <3>1. \A i \in done \cup {d} :
             /\ i.kind \in {"appAdd", "appDelete", "custom"} => Got(i.id, i.user)
             /\ i.kind = "recommend" => i.user = Nobody \/ Got(i.id, i.user)
             /\ i.kind \in {"appSuspend", "userAdd", "userDelete", "cluster"} => Got(i.id, Admin)
      BY <2>4, <2>5
    <3> QED  BY <2>1, <3>1 DEF DoneMeansTold, Got
  <2> QED  BY <2>1, <2>6 DEF Informed
<1>6. CASE Get /\ UNCHANGED last
  <2>1. UNCHANGED <<sent, done>>  BY <1>6 DEF Get, hist_vars
  <2>2. queue # <<>> /\ queue \in Seq(Item)  BY <1>6 DEF Get, QueueTypes
  <2>3. worker'.todo = Do(Head(queue)) /\ worker'.item = Head(queue) /\ Head(queue) \in Item
    BY <1>6, <2>2, GetKeeps, Without DEF QInv
  <2>4. worker'.todo # <<>> /\ (worker'.item.kind # "corefile" => worker'.todo # <<"corefile">>)
    BY <2>3, DoBegins
  <2>5. DoneMeansTold'  BY <2>1 DEF Informed, DoneMeansTold
  <2> QED  BY <2>4, <2>5 DEF Informed
<1>7. CASE Calls /\ UNCHANGED last  BY <1>7, InformedCall
<1> QED  BY <1>2, <1>3, <1>4, <1>5, <1>6, <1>7 DEF EventsNext, WorkerStep, Calls

\* The invariant holds at the start, ...
LEMMA EInvInit == EventsInit => EInv
<1> SUFFICES ASSUME EventsInit PROVE EInv  OBVIOUS
<1> USE DEF EventsInit
<1>1. ~Busy /\ ~Step("callbacks") /\ ~Step("alertUser") /\ ~Step("stamp")  BY DEF Busy, Step, NoWork
<1>2. DOMAIN queue = {} /\ DOMAIN sent = {} /\ queue \in Seq(Item) /\ sent \in Seq(Ids \X Says \X Users)
  OBVIOUS
<1>3. 0 \in 0 .. MaxItems  BY SysEventsAssumption
<1>4. QueueTypes  BY <1>2, <1>3 DEF QueueTypes
<1>5. HistoryTypes  BY <1>2 DEF HistoryTypes
<1>6. SourceTypes  BY DEF SourceTypes
<1>7. OnePlace  BY <1>1, <1>2 DEF OnePlace
<1>8. InTurn  BY <1>1, <1>2 DEF InTurn, FifoUnlessFailed
<1>9. Counted
  <2>1. \A i, s, u : Count(i, s, u) = 0
    <3> TAKE i, s, u
    <3>1. {m \in DOMAIN sent : sent[m] = <<i, s, u>>} = {}  BY <1>2
    <3> QED  BY <3>1, FS_EmptySet DEF Count
  <2>2. \A i \in Ids : failures[i] = 0  OBVIOUS
  <2>3. \A s \in Says, u \in Users, i \in Ids : Count(i, s, u) <= failures[i] + 1  BY <2>1, <2>2
  <2> QED  BY <1>1, <1>2, <2>3 DEF Counted
<1>10. Walked /\ InListOrder  BY <1>1 DEF Walked, InListOrder
<1>11. Rounds
  <2>1. ~hour /\ hour \in BOOLEAN  OBVIOUS
  <2> QED  BY <1>1, <2>1 DEF Rounds
<1>12. Informed  BY <1>1 DEF Informed, DoneMeansTold
<1> QED  BY <1>4, <1>5, <1>6, <1>7, <1>8, <1>9, <1>10, <1>11, <1>12 DEF EInv

\* ... is kept by every step ...
LEMMA EInvStep == EInv /\ [EventsNext]_event_vars => EInv'
<1> SUFFICES ASSUME EInv, [EventsNext]_event_vars PROVE EInv'  OBVIOUS
<1>1. CASE EventsNext
  BY <1>1, QueueKeeps, HistoryKeeps, SourceKeeps, WalkKeeps, InListOrderKeeps,
     RoundsKeep, InformedKeeps DEF EInv
<1>2. CASE UNCHANGED event_vars
  <2> USE DEF EInv, event_vars, src_vars, hist_vars, call_vars
  <2>1. Busy' = Busy /\ \A e : Step(e)' = Step(e)  BY <1>2 DEF Busy, Step
  <2>2. QueueTypes'  BY <1>2 DEF QueueTypes, InWork, Step, Proper
  <2>3. HistoryTypes' /\ SourceTypes'  BY <1>2 DEF HistoryTypes, SourceTypes
  <2>4. OnePlace'  BY <1>2, <2>1 DEF OnePlace
  <2>5. InTurn'  BY <1>2, <2>1 DEF InTurn, Behind, FifoUnlessFailed
  <2>6. \A n, m, u : Count(n, m, u)' = Count(n, m, u)  BY <1>2 DEF Count
  <2>7. Counted'  BY <1>2, <2>1, <2>6 DEF Counted
  <2>8. Walked' /\ InListOrder'  BY <1>2 DEF Walked, InListOrder, Step
  <2>9. Rounds'  BY <1>2 DEF Rounds, Step
  <2>10. Informed'  BY <1>2 DEF Informed, DoneMeansTold, Got, Busy
  <2> QED  BY <2>2, <2>3, <2>4, <2>5, <2>7, <2>8, <2>9, <2>10
<1> QED  BY <1>1, <1>2

\* ... and implies what the run checks.
LEMMA EInvImplies == EInv => EventsSound /\ DoneMeansTold
<1> SUFFICES ASSUME EInv PROVE EventsSound /\ DoneMeansTold  OBVIOUS
<1> USE DEF EInv
<1>1. EventsTypeOK
  <2>3. worker.item \in Item \cup {NoItem} /\ worker.cb \in 1 .. LastCallback + 1
    <3>1. CASE worker = NoWork
      <4>1. worker.item = NoItem /\ worker.cb = 1  BY <3>1 DEF NoWork
      <4> QED  BY <4>1, SysEventsAssumption
    <3>2. CASE InWork  BY <3>2 DEF InWork
    <3> QED  BY <3>1, <3>2 DEF QueueTypes
  <2> QED  BY <2>3 DEF EventsTypeOK, QueueTypes, HistoryTypes, SourceTypes, Rounds
<1>2. FifoUnlessFailed  BY DEF InTurn
<1>3. RepeatNeedsFailure
  <2> SUFFICES ASSUME NEW n \in DOMAIN sent
               PROVE  Cardinality({m \in DOMAIN sent : sent[m] = sent[n]}) <= failures[sent[n][1]] + 1
    BY DEF RepeatNeedsFailure
  <2>1. sent[n] \in Ids \X Says \X Users  BY MessageParts
  <2>2. PICK i \in Ids, s \in Says, u \in Users : sent[n] = <<i, s, u>>  BY <2>1
  <2>3. Count(i, s, u) <= failures[i] + 1  BY DEF Counted
  <2>4. sent[n][1] = i  BY <2>2
  <2> QED  BY <2>2, <2>3, <2>4 DEF Count
<1>4. EarlierCallbacksFirst  BY DEF Walked, InListOrder, EarlierCallbacksFirst
<1>5. AlertsRateLimited  BY DEF AlertsRateLimited, Rounds
<1>6. DoneMeansTold  BY DEF Informed
<1> QED  BY <1>1, <1>2, <1>3, <1>4, <1>5, <1>6 DEF EventsSound

\* Whatever crashes, failed calls and events there are: messages leave in the order of
\* their events unless the event failed, none is repeated without a failure, the
\* callbacks are told in the order of their list, and users' alerts come in at most
\* one round for each hour and start of the process.
THEOREM EventsSoundHolds == EventsSpec => []EventsSound
<1>1. EInv => EventsSound  BY EInvImplies
<1> QED  BY <1>1, EInvInit, EInvStep, PTL DEF EventsSpec

\* An event that left the queue for good has reached its recipient: no failed message
\* is forgotten, however often its item is retried and whatever fails on the way.
THEOREM DoneMeansToldHolds == EventsSpec => []DoneMeansTold
<1>1. EInv => DoneMeansTold  BY EInvImplies
<1> QED  BY <1>1, EInvInit, EInvStep, PTL DEF EventsSpec
=============================================================================
