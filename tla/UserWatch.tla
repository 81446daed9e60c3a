----------------------------- MODULE UserWatch -----------------------------
(***************************************************************************)
(* cmd/sys-event/watchers/users/users.go: the goroutine that watches users *)
(* and callback registrations and calls the registered callbacks itself,   *)
(* one at a time.  A call that cannot be made, is not answered within two  *)
(* seconds or is answered with 400 or more is repeated, up to ten times;   *)
(* the callback may have acted on it all the same.                         *)
(*                                                                         *)
(* Both watches are raw: a broken one ends the inner loop, both are opened *)
(* again, and a watch opened without a resource version first delivers the *)
(* existing objects as added.  What has been handled is remembered by uid  *)
(* and event type (cacheEvent), across new watches but not across a restart*)
(*                                                                         *)
(* Abstractions: a subscriber registers for creation, activation and       *)
(* deletion of users together and keeps its registration; versions are     *)
(* numbered per object; which failed call is the tenth is left open.       *)
(***************************************************************************)
EXTENDS Naturals, Sequences, FiniteSetsExt, SequencesExt

CONSTANTS
    Names,        \* user names
    NCallbacks,   \* subscribers, in the order their registrations are listed
    NoUrl,        \* those registered with an empty callback URL
    MaxUids,      \* bound: users created
    MaxVersion,   \* bound: versions of one user object
    MaxUpsets     \* bound: failed calls, broken watches and restarts together

ASSUME UserWatchAssumption ==
    /\ IsFiniteSet(Names)
    /\ NCallbacks \in Nat /\ NoUrl \subseteq 1 .. NCallbacks /\ MaxUids \in Nat /\ MaxVersion \in Nat \ {0}
    /\ MaxUpsets \in Nat

Callbacks == 1 .. NCallbacks
Uids == 1 .. MaxUids
Wizard == {"none", "started", "completed"}
UserObj == [uid : Uids, version : 1 .. MaxVersion, wizard : Wizard]
NoUser == [uid |-> 0, version |-> 0, wizard |-> "none"]

VARIABLES
    user,        \* user[n]: the object, or NoUser
    nextUid,
    registered,  \* callbacks that are registered
    open,        \* the watches are open
    userEv,      \* events of the user watch not yet read, [type, name, obj]
    cbEv,        \* added events of the callback watch not yet read
    cacheUser,   \* cacheEvent for users: <<uid, type, version>> last handled
    cacheCb,     \* cacheEvent for callbacks
    activing,    \* keys of activingUsers
    job,         \* what the goroutine is doing
    got,         \* got[c]: history: the calls made to callback c
    faults, breaks, restarts

env_vars == <<user, nextUid, registered>>
mem_vars == <<cacheUser, cacheCb, activing>>
bound_vars == <<faults, breaks, restarts>>
vars == <<env_vars, open, userEv, cbEv, mem_vars, job, got, bound_vars>>

Upset == faults + breaks + restarts < MaxUpsets

Event(type, n, o) == [type |-> type, name |-> n, obj |-> o]
NoEvent == Event("", "", NoUser)

\* [do, ev, cb, list, users]: "idle"; "list": has to list the callbacks for ev; "call":
\* calls those of list; "users": calls cb for each of users.
Idle == [do |-> "idle", ev |-> NoEvent, cb |-> 0, list |-> {}, users |-> {}]

Init == /\ user = [n \in Names |-> NoUser] /\ nextUid = 1 /\ registered = {}
        /\ open = FALSE /\ userEv = <<>> /\ cbEv = <<>>
        /\ cacheUser = {} /\ cacheCb = {} /\ activing = {}
        /\ job = Idle
        /\ got = [c \in Callbacks |-> <<>>]
        /\ faults = 0 /\ breaks = 0 /\ restarts = 0

----------------------------------------------------------------------------
(* The cluster.                                                            *)

Watched(e) == userEv' = IF open THEN Append(userEv, e) ELSE userEv

CreateUser(n) == /\ user[n] = NoUser /\ nextUid <= MaxUids
                 /\ LET o == [uid |-> nextUid, version |-> 1, wizard |-> "none"] IN
                    user' = [user EXCEPT ![n] = o] /\ Watched(Event("ADDED", n, o))
                 /\ nextUid' = nextUid + 1
                 /\ UNCHANGED <<registered, cbEv>>
\* The wizard goes on to its next status, or something else in the object changes.
ModifyUser(n) == /\ user[n] # NoUser /\ user[n].version < MaxVersion
                 /\ \E w \in {user[n].wizard} \cup
                        (IF user[n].wizard = "none" THEN {"started"} ELSE {"completed"}) :
                    LET o == [user[n] EXCEPT !.version = @ + 1, !.wizard = w] IN
                    user' = [user EXCEPT ![n] = o] /\ Watched(Event("MODIFIED", n, o))
                 /\ UNCHANGED <<nextUid, registered, cbEv>>
DeleteUser(n) == /\ user[n] # NoUser
                 /\ user' = [user EXCEPT ![n] = NoUser]
                 /\ Watched(Event("DELETED", n, user[n]))
                 /\ UNCHANGED <<nextUid, registered, cbEv>>
Register(c) == /\ c \notin registered
               /\ registered' = registered \cup {c}
               /\ cbEv' = IF open THEN Append(cbEv, c) ELSE cbEv
               /\ UNCHANGED <<user, nextUid, userEv>>

Environment == /\ \/ \E n \in Names : CreateUser(n) \/ ModifyUser(n) \/ DeleteUser(n)
                  \/ \E c \in Callbacks : Register(c)
               /\ UNCHANGED <<open, mem_vars, job, got, bound_vars>>

----------------------------------------------------------------------------
(* watcher.Start                                                           *)

Existing == {n \in Names : user[n] # NoUser}
AsAdded(s) == [k \in DOMAIN s |-> Event("ADDED", s[k], user[s[k]])]

\* The outer loop opens both watches; what exists is delivered first, in some order.
OpenWatches_NoList == /\ ~open /\ job = Idle
                      /\ open' = TRUE
                      /\ \E s \in SetToSeqs(Existing) : userEv' = AsAdded(s)
                      /\ cbEv' = <<>>
                      /\ UNCHANGED <<env_vars, mem_vars, job, got, bound_vars>>
OpenWatches == /\ ~open /\ job = Idle
               /\ open' = TRUE
               /\ \E s \in SetToSeqs(Existing) : userEv' = AsAdded(s)
               /\ cbEv' \in SetToSeqs(registered)
               /\ UNCHANGED <<env_vars, mem_vars, job, got, bound_vars>>
\* One of the result channels is closed: what has not been read is lost.
WatchBreaks == /\ open /\ job = Idle /\ Upset
               /\ open' = FALSE /\ userEv' = <<>> /\ cbEv' = <<>>
               /\ breaks' = breaks + 1
               /\ UNCHANGED <<env_vars, mem_vars, job, got, faults, restarts>>

Key(e) == <<e.obj.uid, e.type, e.obj.version>>
IsDupEvent(e) == Key(e) \in cacheUser
\* eventRecord keeps the last version of each type of event.
EventRecord(e) == cacheUser' = {k \in cacheUser : k[1] # e.obj.uid \/ k[2] # e.type} \cup {Key(e)}

\* The wizard has been seen unfinished and is completed now.
Activates(e) == /\ e.type = "MODIFIED" /\ e.obj.wizard = "completed"
                /\ e.name \in activing
Activing_Kept(e) == IF e.type = "MODIFIED" /\ e.obj.wizard = "started"
                    THEN activing \cup {e.name} ELSE activing
Activing(e) == IF e.type # "MODIFIED" THEN activing
               ELSE IF Activates(e) THEN activing \ {e.name}
               ELSE IF e.obj.wizard = "started" THEN activing \cup {e.name} ELSE activing

\* A user event is read: duplicates are dropped, a callback list is due for added,
\* deleted and activated users.  (Every event but that of an added user older than a
\* minute also becomes an item of the event queue, OtherEvent of SysEvents.)
ReadUserEvent ==
    /\ open /\ job = Idle /\ userEv # <<>>
    /\ LET e == Head(userEv) IN
       IF IsDupEvent(e)
       THEN UNCHANGED <<job, mem_vars>>
       ELSE /\ activing' = Activing(e)
            /\ IF e.type # "MODIFIED" \/ Activates(e)
               THEN job' = [Idle EXCEPT !.do = "list", !.ev = e] /\ UNCHANGED cacheUser
               ELSE EventRecord(e) /\ UNCHANGED job
            /\ UNCHANGED cacheCb
    /\ userEv' = Tail(userEv)
    /\ UNCHANGED <<env_vars, open, cbEv, got, bound_vars>>

\* invokeCallbacks lists the registrations.
ListCallbacks == /\ job.do = "list"
                 /\ job' = [job EXCEPT !.do = "call", !.list = registered]
                 /\ UNCHANGED <<env_vars, open, userEv, cbEv, mem_vars, got, bound_vars>>

\* A call to callback c, ok if it was answered in time and without an error.
Message(e, by, ok) ==
    [what |-> e.type, uid |-> e.obj.uid, version |-> e.obj.version, by |-> by, ok |-> ok]
Tell(c, e, by, ok) == got' = [got EXCEPT ![c] = Append(@, Message(e, by, ok))]
CallFails == Upset /\ faults' = faults + 1

\* invokeUserCreatedCB, invokeUserDeletedCB, invokeUserActivedCB for the next callback.
Calling == job.do = "call" /\ job.list # {}
CallNext(ok) == Min(job.list) \notin NoUrl /\ Tell(Min(job.list), job.ev, "user", ok)
InvokeCallback == /\ Calling /\ CallNext(TRUE)
                  /\ job' = [job EXCEPT !.list = @ \ {Min(@)}]
                  /\ UNCHANGED <<env_vars, open, userEv, cbEv, mem_vars, bound_vars>>
\* retry.OnError makes a call that failed again.
InvokeRetry == /\ Calling /\ CallNext(FALSE) /\ CallFails
               /\ UNCHANGED <<env_vars, open, userEv, cbEv, mem_vars, job, breaks, restarts>>
\* The event is recorded only when no callback has failed.
InvokedAll == /\ job.do = "call" /\ job.list = {}
              /\ EventRecord(job.ev)
              /\ job' = Idle
              /\ UNCHANGED <<env_vars, open, userEv, cbEv, cacheCb, activing, got,
                             bound_vars>>
InvokeFails_Requeued ==
    /\ Calling /\ CallNext(FALSE) /\ CallFails
    /\ job' = Idle /\ userEv' = Append(userEv, job.ev)
    /\ UNCHANGED <<env_vars, open, cbEv, mem_vars, breaks, restarts>>
\* The list cannot be read, or the tenth call of a callback has failed.
InvokeFails == /\ \/ job.do = "list" /\ UNCHANGED got
                  \/ Calling /\ CallNext(FALSE)
               /\ CallFails
               /\ job' = Idle
               /\ UNCHANGED <<env_vars, open, userEv, cbEv, mem_vars, breaks, restarts>>
\* A registration without a URL ends the walk; those after it are not called.
InvokeNoUrl == /\ Calling /\ Min(job.list) \in NoUrl
               /\ job' = Idle
               /\ UNCHANGED <<env_vars, open, userEv, cbEv, mem_vars, got, bound_vars>>

\* A registration is read: its callback is to be told of all users of the moment.
ReadCallbackEvent ==
    /\ open /\ job = Idle /\ cbEv # <<>>
    /\ job' = IF Head(cbEv) \in cacheCb THEN Idle
              ELSE [Idle EXCEPT !.do = "users", !.cb = Head(cbEv),
                       !.users = {Event("ADDED", n, user[n]) : n \in Existing}]
    /\ cbEv' = Tail(cbEv)
    /\ UNCHANGED <<env_vars, open, userEv, mem_vars, got, bound_vars>>
ListUsersFails == /\ open /\ job = Idle /\ cbEv # <<>> /\ Head(cbEv) \notin cacheCb
                  /\ CallFails
                  /\ cbEv' = Tail(cbEv)
                  /\ UNCHANGED <<env_vars, open, userEv, mem_vars, job, got, breaks, restarts>>
\* A call that failed is repeated; after the tenth the error is logged and the next
\* user's turn, as for a registration without a URL.
InitializeCallback ==
    /\ job.do = "users" /\ job.users # {}
    /\ \E e \in job.users :
          LET after == [job EXCEPT !.users = @ \ {e}] IN
          \/ /\ job.cb \notin NoUrl /\ Tell(job.cb, e, "callback", TRUE)
             /\ job' = after /\ UNCHANGED faults
          \/ /\ job.cb \notin NoUrl /\ Tell(job.cb, e, "callback", FALSE) /\ CallFails
             /\ job' \in {job, after}
          \/ /\ job.cb \in NoUrl
             /\ job' = after /\ UNCHANGED <<got, faults>>
    /\ UNCHANGED <<env_vars, open, userEv, cbEv, mem_vars, breaks, restarts>>
\* The registration is recorded whatever came of the calls.
Initialized == /\ job.do = "users" /\ job.users = {}
               /\ cacheCb' = cacheCb \cup {job.cb}
               /\ job' = Idle
               /\ UNCHANGED <<env_vars, open, userEv, cbEv, cacheUser, activing, got,
                              bound_vars>>

Watcher == \/ OpenWatches \/ ReadUserEvent \/ ListCallbacks \/ InvokeCallback \/ InvokedAll
           \/ InvokeNoUrl \/ ReadCallbackEvent \/ InitializeCallback \/ Initialized

\* The process is restarted: what it remembered is gone (NewWatcher).
Restart == /\ Upset /\ restarts' = restarts + 1
           /\ open' = FALSE /\ userEv' = <<>> /\ cbEv' = <<>>
           /\ cacheUser' = {} /\ cacheCb' = {} /\ activing' = {} /\ job' = Idle
           /\ UNCHANGED <<env_vars, got, faults, breaks>>

Next == \/ Environment \/ Watcher \/ WatchBreaks \/ InvokeRetry \/ InvokeFails
        \/ ListUsersFails \/ Restart

Spec == Init /\ [][Next]_vars

\* The goroutine keeps running; select is fair between its two channels.
FairSpec == Spec /\ WF_vars(Watcher) /\ SF_vars(ReadCallbackEvent) /\ SF_vars(ReadUserEvent)

----------------------------------------------------------------------------
(* Properties                                                              *)

\* The variables have their types.
TypeOK ==
    /\ user \in [Names -> UserObj \cup {NoUser}] /\ registered \subseteq Callbacks
    /\ \A i \in DOMAIN userEv : userEv[i].obj \in UserObj /\ userEv[i].name \in Names
    /\ cbEv \in Seq(Callbacks) /\ cacheCb \subseteq Callbacks /\ activing \subseteq Names
    /\ job.do \in {"idle", "list", "call", "users"} /\ job.list \subseteq Callbacks

\* Call n is call m, which had failed, made again.
Again(m, n) == ~m.ok /\ n = [m EXCEPT !.ok = n.ok]

\* After a call that tells it of a user's deletion a callback gets no call about that
\* user any more, except that a call that failed, and that it may have acted on, is
\* repeated: events of one object are handled in order by one goroutine, and lists are
\* taken from the live objects.
NothingAfterDeleted ==
    \A c \in Callbacks : \A i, j \in DOMAIN got[c] :
        /\ i < j /\ got[c][i].what = "DELETED"
        /\ got[c][j].uid = got[c][i].uid
        => Again(got[c][i], got[c][j])

\* A user's activation is announced to a callback at most once, but for repetitions of a
\* call that failed, however often the completed user changes afterwards and however
\* often the watches are opened again.
ActivatedOnce ==
    \A c \in Callbacks : \A i, j \in DOMAIN got[c] :
        /\ i < j /\ got[c][i].what = "MODIFIED" /\ got[c][j].what = "MODIFIED"
        /\ got[c][i].uid = got[c][j].uid
        => Again(got[c][i], got[c][j])

\* As long as no call fails, no registration lacks its URL and the process lives, no
\* event of one version of a user is delivered to a callback twice, although a new watch
\* repeats all users (isDupEvent).
EachVersionOnce ==
    faults = 0 /\ restarts = 0 /\ registered \cap NoUrl = {} =>
        \A c \in Callbacks : \A i, j \in DOMAIN got[c] :
            got[c][i] = got[c][j] /\ got[c][i].by = "user" => i = j

\* What the two caches are for, in one invariant: one announcement of an activation, and
\* one delivery of a version, where no call is repeated.
NoDuplicates == TypeOK /\ ActivatedOnce /\ EachVersionOnce

\* "when a new sys event callback is registered, all users in os will send to it to
\* initialize" (users.go:226): a registered callback hears of every user that stays,
\* whatever the order of registration, creation, broken watches and restarts, unless
\* a call to a callback or to the API server fails, or a registration without a URL,
\* at which every walk ends, is listed before it (or is its own).
EveryCallbackInitialized ==
    \A c \in Callbacks : \A n \in Names : \A u \in Uids :
        (c \in registered /\ user[n].uid = u)
            ~> (\/ \E i \in DOMAIN got[c] : got[c][i].uid = u
                \/ user[n].uid # u \/ faults > 0
                \/ \E d \in registered \cap NoUrl : d <= c)
=============================================================================
