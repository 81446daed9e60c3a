----------------------------- MODULE SysEvents -----------------------------
(***************************************************************************)
(* cmd/sys-event: the event queue, the subscribers that work it off and    *)
(* the informers, the metrics poll and the HTTP request that fill it.  (How*)
(* users are watched is in UserWatch, what a regeneration of the Corefile  *)
(* does in DnsRecords.)                                                    *)
(*                                                                         *)
(* One worker takes items from a rate limited work queue and calls the     *)
(* item's subscriber.  A subscriber is a short program of remote calls; an *)
(* error it returns puts the whole item back.  An item holds a pointer to  *)
(* its object, so two events are never merged: an item has a number.       *)
(*                                                                         *)
(* Abstractions: one application, one namespace, one metric of the cluster *)
(* and one of the users (cpu and memory are handled alike); the clock is   *)
(* the flags fresh/old, minute and hour; the messages of a notification are*)
(* one call, and the calls to callbacks are made and repeated one by one.  *)
(***************************************************************************)
EXTENDS Naturals, Sequences, FiniteSetsExt

CONSTANTS
    NUsers,       \* users, in the order the API server lists them; 1 is the owner
    LastCallback, \* registered callbacks, numbered in the order they are listed
    MaxItems,     \* bound: items put into the queue
    MaxErrors,    \* bound: remote calls that fail
    MaxCrashes,   \* bound: crashes of the process
    MaxHours      \* bound: hours that pass

ASSUME SysEventsAssumption ==
    /\ NUsers \in Nat \ {0} /\ LastCallback \in Nat /\ MaxItems \in Nat
    /\ MaxErrors \in Nat /\ MaxCrashes \in Nat /\ MaxHours \in Nat

Users == 1 .. NUsers
Admin == 1
Nobody == 0
Ids == 1 .. MaxItems

Kinds == {"appAdd", "appDelete", "appSuspend", "recommend", "userAdd", "userDelete",
          "corefile", "custom", "cluster", "user"}
Item == [id : Ids, kind : Kinds, user : Users \cup {Nobody}]

\* The calls of a subscriber that send a message.
Says == {"notifyUser", "notifyAdmin", "alertAdmin", "alertUser"}

VARIABLES
    up,          \* the process runs
    app,         \* the application: "absent", "fresh" (under a minute old) or "old"
    ns,          \* the namespace: "absent", "plain" or "labelled" as a recommendation
    minute,      \* metric names queued less than a minute ago (latestSend of Run)
    hour,        \* users' alerts were sent less than an hour ago (latestSend of Do)
    polling,     \* the metrics poll has not been ended by an error
    queue,       \* the work queue
    delayed,     \* items waiting for their rate limit
    worker,      \* [item, todo, cb, user, err], or NoWork
    last,        \* items put into the queue so far
    errors, crashes, hours,
    sent,        \* history: notifications made, <<item, message, user>>, in order
    told,        \* told[i][c]: history: calls to callback c for item i that succeeded
    unsure,      \* unsure[i][c]: history: those that failed; c may have acted on them
    failures,    \* failures[i]: history: how often item i has failed
    rounds,      \* history: rounds of users' alerts
    done, lost   \* history: items finished, numbers of those lost in a crash

src_vars  == <<app, ns, minute, polling>>
call_vars == <<told, unsure>>
hist_vars == <<sent, call_vars, failures, rounds, done, lost>>
event_vars == <<up, src_vars, hour, queue, delayed, worker, last, errors, crashes, hours,
          hist_vars>>

NoItem == [id |-> 0, kind |-> "custom", user |-> Nobody]
NoWork == [item |-> NoItem, todo |-> <<>>, cb |-> 1, user |-> Nobody, err |-> FALSE]
Busy == worker # NoWork

EventsInit == /\ up = TRUE
              /\ app = "absent" /\ ns = "absent"
              /\ minute = {} /\ hour = FALSE /\ polling = TRUE
              /\ queue = <<>> /\ delayed = {} /\ worker = NoWork
              /\ last = 0 /\ errors = 0 /\ crashes = 0 /\ hours = 0
              /\ sent = <<>> /\ rounds = 0 /\ done = {} /\ lost = {}
              /\ told = [i \in Ids |-> [c \in 1 .. LastCallback |-> 0]]
              /\ unsure = [i \in Ids |-> [c \in 1 .. LastCallback |-> 0]]
              /\ failures = [i \in Ids |-> 0]

----------------------------------------------------------------------------
(* Watchers.Enqueue and what fills the queue.                              *)

\* The items of kinds ks, in this order, are added to queue q for user u.
Added(q, n, ks, u) ==
    q \o [j \in 1 .. Len(ks) |-> [id |-> n + j, kind |-> ks[j], user |-> u]]

Enqueue(ks, u) == /\ last + Len(ks) <= MaxItems
                  /\ queue' = Added(queue, last, ks, u)
                  /\ last' = last + Len(ks)

\* What the informers see while the process is down they never report, except that
\* the first list after a start reports every object as added.
Report(ks, u) == IF up THEN Enqueue(ks, u) ELSE UNCHANGED <<queue, last>>

AppsHandleAdd == /\ app = "absent" /\ app' = "fresh"
                 /\ Report(<<"appAdd">>, NUsers)
                 /\ UNCHANGED <<ns, minute, polling>>
AppsHandleDelete == /\ app # "absent" /\ app' = "absent"
                    /\ Report(<<"appDelete">>, NUsers)
                    /\ UNCHANGED <<ns, minute, polling>>
\* The suspend annotation is set or changed.
AppsHandleUpdate == /\ app # "absent" /\ up
                    /\ Enqueue(<<"appSuspend">>, NUsers)
                    /\ UNCHANGED src_vars
AppAges == /\ app = "fresh" /\ app' = "old"
           /\ UNCHANGED <<ns, minute, polling, queue, last>>

\* Workflow namespaces: there is no AddFunc; a namespace that gets the label later is
\* an installed recommendation, whose owner may have to be looked up.
NamespaceCreated == /\ ns = "absent" /\ ns' \in {"plain", "labelled"}
                    /\ UNCHANGED <<app, minute, polling, queue, last>>
WorkflowsHandleUpdate == /\ ns = "plain" /\ ns' = "labelled"
                         /\ \E o \in {Nobody, NUsers} : Report(<<"recommend">>, o)
                         /\ UNCHANGED <<app, minute, polling>>
WorkflowsHandleDelete == /\ ns # "absent" /\ ns' = "absent"
                         /\ IF ns = "labelled"
                            THEN \E o \in {Nobody, NUsers} : Report(<<"recommend">>, o)
                            ELSE UNCHANGED <<queue, last>>
                         /\ UNCHANGED <<app, minute, polling>>

\* A user event queued by UserWatch, a pod or node event, a request /events/fire.
OtherEvent == /\ up
              /\ \E k \in {"userAdd", "userDelete", "corefile", "custom"} :
                    Enqueue(<<k>>, NUsers)
              /\ UNCHANGED src_vars

----------------------------------------------------------------------------
(* metrics/monitoring.go                                                   *)

MinutePasses == /\ minute # {} /\ minute' = {}
                /\ UNCHANGED <<app, ns, polling, queue, last>>

\* What one poll queues: the metric of the cluster, then, users in list order, the
\* first one above the limit, since the minute is kept by metric and not by user.
\* (high: the users above their limits, and Nobody for the cluster.)
ClusterDue(high) == Nobody \in high /\ "cluster" \notin minute
UserDue(high) == {u \in Users \cap high : "user" \notin minute}

\* One round of Run.  An error of the user list ends wait.PollImmediateInfinite for
\* good, after the cluster's metric has been queued.
Poll == /\ up /\ polling
        /\ \E high \in SUBSET ({Nobody} \cup Users) :
           LET us == UserDue(high)
               cs == IF ClusterDue(high) THEN <<"cluster">> ELSE <<>>
               q == Added(queue, last, cs, Nobody)
               n == last + Len(cs) IN
           /\ cs # <<>> \/ us # {}
           /\ queue' = IF us = {} THEN q ELSE Added(q, n, <<"user">>, Min(us))
           /\ last' = (IF us = {} THEN n ELSE n + 1) /\ last' <= MaxItems
           /\ minute' = minute \cup (IF cs = <<>> THEN {} ELSE {"cluster"})
                              \cup (IF us = {} THEN {} ELSE {"user"})
        /\ UNCHANGED <<app, ns, polling>>
PollFails == /\ up /\ polling /\ errors < MaxErrors /\ last < MaxItems
             /\ polling' = FALSE
             /\ \/ /\ "cluster" \notin minute
                   /\ Enqueue(<<"cluster">>, Nobody)
                   /\ minute' = minute \cup {"cluster"}
                \/ UNCHANGED <<queue, last, minute>>
             /\ errors' = errors + 1
             /\ UNCHANGED <<up, app, ns, hour, delayed, worker, crashes, hours, hist_vars>>

\* Once MaxItems is reached no change of the sources can matter.
Source == /\ last < MaxItems
          /\ \/ AppsHandleAdd \/ AppsHandleDelete \/ AppsHandleUpdate \/ AppAges
             \/ NamespaceCreated \/ WorkflowsHandleUpdate \/ WorkflowsHandleDelete
             \/ OtherEvent \/ MinutePasses \/ Poll
          /\ UNCHANGED <<up, hour, delayed, worker, errors, crashes, hours, hist_vars>>

----------------------------------------------------------------------------
(* The subscribers: what Do calls for an item, in order.                   *)

AppsDo(i) == IF i.kind = "appSuspend" THEN <<"admin", "notifyAdmin">> ELSE <<"notifyUser">>
WorkflowsDo == <<"callbacks", "owner", "notifyUser">>
Notify == <<"admin", "notifyAdmin">>
UsersDo(i) == IF i.kind = "userAdd" THEN Notify ELSE Notify \o <<"corefile">>
MetricsDo(i) == IF i.kind = "cluster"
                THEN <<"admin", "callbacks", "notifyAdmin">>
                ELSE <<"admin", "callbacks", "alertAdmin", "alertUser", "stamp">>
CustomDo == <<"notifyUser">>

Do(i) ==
    CASE i.kind \in {"appAdd", "appDelete", "appSuspend"} -> AppsDo(i)
      [] i.kind = "recommend" -> WorkflowsDo
      [] i.kind \in {"userAdd", "userDelete"} -> UsersDo(i)
      [] i.kind \in {"cluster", "user"} -> MetricsDo(i)
      [] i.kind = "corefile" -> <<"corefile">>
      [] i.kind = "custom" -> CustomDo

Step(e) == worker.todo # <<>> /\ Head(worker.todo) = e
Advance == [worker EXCEPT !.todo = Tail(@)]
Fault == errors < MaxErrors /\ errors' = errors + 1

\* processNextWorkItem: Get, and Forget when Do returned no error.
Get == /\ ~Busy /\ queue # <<>>
       /\ worker' = [NoWork EXCEPT !.item = Head(queue), !.todo = Do(Head(queue)),
                                 !.user = Head(queue).user]
       /\ queue' = Tail(queue)
       /\ UNCHANGED <<hour, delayed, errors, hist_vars>>
Finish == /\ Busy /\ worker.todo = <<>>
          /\ done' = done \cup {[worker.item EXCEPT !.user = worker.user]}
          /\ worker' = NoWork
          /\ UNCHANGED <<hour, queue, delayed, errors, sent, call_vars, failures, rounds, lost>>

\* AddRateLimited puts the item itself back.
Fail_Dropped == /\ worker' = NoWork
                /\ failures' = [failures EXCEPT ![worker.item.id] = @ + 1]
                /\ UNCHANGED <<queue, delayed, call_vars, rounds, done, lost>>
Fail == /\ worker' = NoWork
        /\ delayed' = delayed \cup {worker.item}
        /\ failures' = [failures EXCEPT ![worker.item.id] = @ + 1]
        /\ UNCHANGED <<queue, call_vars, rounds, done, lost>>
Requeue(i) == /\ i \in delayed
              /\ delayed' = delayed \ {i}
              /\ queue' = Append(queue, i)
              /\ UNCHANGED <<hour, worker, errors, hist_vars>>

\* Notification.AdminUser.
AdminUser == /\ Step("admin")
             /\ \/ /\ worker' = Advance
                   /\ UNCHANGED <<errors, hour, queue, delayed, hist_vars>>
                \/ Fault /\ Fail /\ UNCHANGED <<sent, hour>>

\* CallbackInvoker.Invoke for the callbacks that want the event.  A call that cannot be
\* made, times out or is answered with 400 or more is repeated; one that fails ten
\* times ends the walk, as do an empty URL and a list that cannot be read; the
\* subscribers log the error and go on.
Called(log) == log' = [log EXCEPT ![worker.item.id][worker.cb] = @ + 1]
Invoke_Continue ==
    /\ Step("callbacks")
    /\ \/ /\ worker.cb > LastCallback
          /\ worker' = [Advance EXCEPT !.cb = 1]
          /\ UNCHANGED <<errors, call_vars>>
       \/ /\ worker.cb <= LastCallback
          /\ Called(told)
          /\ worker' = [worker EXCEPT !.cb = @ + 1]
          /\ UNCHANGED <<errors, unsure>>
       \/ /\ worker.cb <= LastCallback /\ Fault
          /\ Called(unsure)
          /\ worker' \in {worker, [worker EXCEPT !.cb = @ + 1]}
          /\ UNCHANGED told
    /\ UNCHANGED <<hour, queue, delayed, sent, failures, rounds, done, lost>>
Invoke ==
    /\ Step("callbacks")
    /\ \/ /\ worker.cb > LastCallback
          /\ worker' = [Advance EXCEPT !.cb = 1]
          /\ UNCHANGED <<errors, call_vars>>
       \/ /\ worker.cb <= LastCallback
          /\ Called(told)
          /\ worker' = [worker EXCEPT !.cb = @ + 1]
          /\ UNCHANGED <<errors, unsure>>
       \/ /\ worker.cb <= LastCallback /\ Fault
          /\ Called(unsure)
          /\ worker' \in {worker, [Advance EXCEPT !.cb = 1]}
          /\ UNCHANGED told
       \/ /\ Fault
          /\ worker' = [Advance EXCEPT !.cb = 1]
          /\ UNCHANGED call_vars
    /\ UNCHANGED <<hour, queue, delayed, sent, failures, rounds, done, lost>>

\* getWorkflowOwner, for a namespace without an owner label; no owner, no message.
GetWorkflowOwner ==
    /\ Step("owner")
    /\ \/ worker.user # Nobody /\ worker' = Advance
       \/ worker.user = Nobody /\ worker' = [Advance EXCEPT !.user = NUsers]
       \/ worker.user = Nobody /\ worker' = [worker EXCEPT !.todo = <<>>]
    /\ UNCHANGED <<errors, hour, queue, delayed, hist_vars>>

\* Notification.Send to u.  A call that timed out may have been carried out.
Sent(u) == sent' = Append(sent, <<worker.item.id, Head(worker.todo), u>>)
Recipient == IF Step("notifyAdmin") \/ Step("alertAdmin") THEN Admin ELSE worker.user

Send_Logged ==
    /\ Step("notifyUser") \/ Step("notifyAdmin")
    /\ \/ Sent(Recipient) /\ UNCHANGED errors
       \/ Fault /\ UNCHANGED sent
    /\ worker' = Advance
    /\ UNCHANGED <<hour, queue, delayed, call_vars, failures, rounds, done, lost>>
Send ==
    /\ Step("notifyUser") \/ Step("notifyAdmin")
    /\ \/ /\ Sent(Recipient)
          /\ worker' = Advance
          /\ UNCHANGED <<errors, queue, delayed, call_vars, failures, rounds, done, lost>>
       \/ Fault /\ Fail /\ (Sent(Recipient) \/ UNCHANGED sent)
    /\ UNCHANGED hour

\* RegenerateCorefile.
Corefile == /\ Step("corefile")
            /\ \/ /\ worker' = Advance
                  /\ UNCHANGED <<errors, queue, delayed, call_vars, failures, rounds, done, lost>>
               \/ Fault /\ Fail
            /\ UNCHANGED <<sent, hour>>

\* metrics Subscriber.Do for a user's metric: both messages are tried unless the
\* alerts of this metric are less than an hour old, the hour starts anew whatever
\* came of them, and then the errors are returned.
Alert ==
    /\ Step("alertAdmin") \/ Step("alertUser")
    /\ IF Step("alertAdmin") /\ hour
       THEN worker' = [worker EXCEPT !.todo = <<>>] /\ UNCHANGED <<sent, errors>>
       ELSE \/ Sent(Recipient) /\ worker' = Advance /\ UNCHANGED errors
            \/ /\ Fault /\ worker' = [Advance EXCEPT !.err = TRUE]
               /\ (Sent(Recipient) \/ UNCHANGED sent)
    /\ UNCHANGED <<hour, queue, delayed, call_vars, failures, rounds, done, lost>>
Stamp ==
    /\ Step("stamp")
    /\ hour' = TRUE /\ rounds' = rounds + 1
    /\ IF worker.err
       THEN /\ delayed' = delayed \cup {worker.item} /\ worker' = NoWork
            /\ failures' = [failures EXCEPT ![worker.item.id] = @ + 1]
       ELSE worker' = Advance /\ UNCHANGED <<delayed, failures>>
    /\ UNCHANGED <<errors, queue, sent, call_vars, done, lost>>

HourPasses == /\ hour /\ hours < MaxHours
              /\ hour' = FALSE /\ hours' = hours + 1
              /\ UNCHANGED <<up, src_vars, queue, delayed, worker, last, errors, crashes,
                             hist_vars>>

WorkerStep == /\ \/ Get \/ Finish \/ AdminUser \/ Invoke \/ GetWorkflowOwner \/ Send
                 \/ Corefile \/ Alert \/ Stamp
              /\ UNCHANGED <<up, src_vars, last, crashes, hours>>
Limiter(i) == Requeue(i) /\ UNCHANGED <<up, src_vars, last, crashes, hours>>

\* Everything but the cluster's own state is in memory.
Pending == {queue[j].id : j \in DOMAIN queue} \cup {i.id : i \in delayed}
           \cup (IF Busy THEN {worker.item.id} ELSE {})
Crash == /\ up /\ crashes < MaxCrashes
         /\ up' = FALSE /\ crashes' = crashes + 1
         /\ queue' = <<>> /\ delayed' = {} /\ worker' = NoWork
         /\ minute' = {} /\ hour' = FALSE /\ polling' = TRUE
         /\ lost' = lost \cup Pending
         /\ UNCHANGED <<app, ns, last, errors, hours, sent, call_vars, failures, rounds, done>>

\* AddToWatchers and Run: every existing object is reported as added; only an
\* application under a minute old counts as installed (ValidWatchDuration).
Run == /\ ~up /\ up' = TRUE
       /\ IF app = "fresh" THEN Enqueue(<<"appAdd">>, NUsers)
                           ELSE UNCHANGED <<queue, last>>
       /\ UNCHANGED <<src_vars, hour, delayed, worker, errors, crashes, hours, hist_vars>>

EventsNext == \/ Source \/ PollFails \/ WorkerStep \/ HourPasses \/ Crash \/ Run
              \/ \E i \in delayed : Limiter(i)

EventsSpec == EventsInit /\ [][EventsNext]_event_vars

\* The worker goroutine keeps running and the rate limiter's delays end.
FairEventsSpec == /\ EventsSpec /\ WF_event_vars(WorkerStep)
                  /\ WF_event_vars(\E i \in delayed : Limiter(i))

----------------------------------------------------------------------------
(* Properties                                                              *)

\* The variables have their types and the worker runs an item of the queue.
EventsTypeOK ==
    /\ up \in BOOLEAN /\ hour \in BOOLEAN /\ polling \in BOOLEAN
    /\ app \in {"absent", "fresh", "old"} /\ ns \in {"absent", "plain", "labelled"}
    /\ minute \subseteq {"cluster", "user"}
    /\ queue \in Seq(Item) /\ delayed \subseteq Item
    /\ worker.item \in Item \cup {NoItem} /\ worker.cb \in 1 .. LastCallback + 1
    /\ last \in 0 .. MaxItems
    /\ sent \in Seq(Ids \X Says \X Users) /\ done \subseteq Item /\ lost \subseteq Ids

\* Messages leave in the order in which their events were queued, unless the event
\* whose message comes late had failed: one worker and a FIFO queue, which an item
\* leaves and enters again at the end when its subscriber returned an error.
FifoUnlessFailed ==
    \A m, n \in DOMAIN sent :
        m < n /\ sent[m][1] > sent[n][1] => failures[sent[n][1]] > 0

\* Nobody gets the message of one event twice unless processing the event failed in
\* between: an item of the work queue is processed again only after an error.
RepeatNeedsFailure ==
    \A n \in DOMAIN sent :
        Cardinality({m \in DOMAIN sent : sent[m] = sent[n]}) <= failures[sent[n][1]] + 1

\* Callbacks in the order of the list: by calls that succeeded none is told of an event
\* more often than one listed before it, and it is called at all, if only by a call that
\* failed and that it may have acted on, when all listed before it have been told.
\* Invoke walks the list from the start and repeats a call that failed, and the first
\* callback that keeps failing ends the walk.
EarlierCallbacksFirst ==
    \A i \in Ids : \A c, d \in 1 .. LastCallback :
        c < d => told[i][c] >= told[i][d] /\ (unsure[i][d] > 0 => told[i][c] > 0)

\* At most one round of users' alerts for each hour (and start of the process), also
\* when messages fail and their item is retried.
AlertsRateLimited == rounds <= hours + crashes + 1

\* The order and number of deliveries, in one invariant: first in, first out; no
\* repetition without a failure; callbacks in the order of their list; and rounds of
\* alerts an hour apart.
EventsSound ==
    /\ EventsTypeOK
    /\ FifoUnlessFailed
    /\ RepeatNeedsFailure
    /\ EarlierCallbacksFirst
    /\ AlertsRateLimited

\* An event that left the queue for good has reached its recipient: a subscriber whose
\* message failed returns the error.  (Left out are recommendations without an owner
\* and users' alerts, which are not repeated once an hour has begun.)
DoneMeansTold ==
    LET got(i, u) == \E n \in DOMAIN sent : sent[n][1] = i.id /\ sent[n][3] = u IN
    \A i \in done :
        /\ i.kind \in {"appAdd", "appDelete", "custom"} => got(i, i.user)
        /\ i.kind = "recommend" => i.user = Nobody \/ got(i, i.user)
        /\ i.kind \in {"appSuspend", "userAdd", "userDelete", "cluster"} => got(i, Admin)

\* Every event that was queued is worked off, or lost in a crash.
EveryItemFinishes ==
    \A i \in Ids : (i <= last) ~> (i \in lost \/ \E d \in done : d.id = i)
=============================================================================
