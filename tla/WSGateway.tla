----------------------------- MODULE WSGateway -----------------------------
(***************************************************************************)
(* The websocket gateway: pkg/ws/{server,client,filters}.go and the HTTP   *)
(* handlers that drive it, cmd/websocket/app/handler.go.                   *)
(*                                                                         *)
(* Every connection has a goroutine (onConnection) that reads the socket.  *)
(* The server keeps the connections by user and has three bounded channels,*)
(* each with one consumer: read (client -> app), write (app -> client) and *)
(* close.  A ticker goroutine closes connections that have not sent a ping *)
(* for too long.  The consumers of write and close first take a snapshot   *)
(* of the connections (NewFilter) and act on it later, under the lock.     *)
(*                                                                         *)
(* Abstractions: a connection id (a fresh uuid) is the connection itself   *)
(* and is used once; server.users is the set `reg' of the connections it   *)
(* holds, its keys being their users; time is a flag `idle' that may become*)
(* true as long as no ping resets it; a critical section of the server     *)
(* lock is one step; an app path is configured (without one                *)
(* handleWebSocketMessage returns at once and no app is told anything).    *)
(***************************************************************************)
EXTENDS Integers, Sequences, FiniteSets

CONSTANTS
    Conns,        \* connection ids
    Names,        \* user names
    User,         \* User[c]: the user of connection c (header X-BFL-USER)
    Token,        \* Token[c]: the token of connection c
    Public,       \* connections without an auth cookie (accessPublic)
    Silent,       \* connections whose client may not ping for 45 seconds
    Targets,      \* targets apps use in requests to send and to close
    QueueSize,    \* capacity of each channel
    MaxMsgs,      \* bound: messages one client sends
    MaxFails,     \* bound: POSTs to the app that fail
    MaxPushes,    \* bound: requests of apps to send
    MaxCloses     \* bound: requests of apps to close

ASSUME ConnsAssumption ==
    /\ User \in [Conns -> Names] /\ Public \subseteq Conns /\ Silent \subseteq Conns
    /\ DOMAIN Token = Conns
ASSUME TargetsAssumption ==
    \A t \in Targets :
        /\ t.users \subseteq Names /\ t.conns \subseteq Conns
        /\ t.access \in 0 .. 2
        /\ t = [users |-> t.users, access |-> t.access, tokens |-> t.tokens,
                conns |-> t.conns]
ASSUME BoundAssumption ==
    /\ QueueSize \in Nat \ {0} /\ MaxMsgs \in Nat /\ MaxFails \in Nat
    /\ MaxPushes \in Nat /\ MaxCloses \in Nat

VARIABLES
    peer,        \* peer[c]: the client's end: "no", "up" or "gone"
    sent,        \* sent[c]: messages the client has sent
    pc,          \* pc[c]: where the goroutine of c is
    idle,        \* connections whose last ping is too old (isExpired)
    cancelled,   \* connections whose context has been cancelled
    reg,         \* connections in server.users[_].conns
    readQ, writeQ, closeQ,      \* the channels
    writer,      \* routineWrite: the message at hand and the filter's result
    closer,      \* routineClose: the filter's result
    ticker,      \* checkExpired: the ids it is about to queue
    seen,        \* seen[c]: events of c the app has been told, in order
    flying,      \* flying[e]: POSTs of e that failed and that the app may still act on
    failed,      \* history: events whose POST failed
    fails,       \* POSTs that failed
    inbox,       \* inbox[c]: targets of the messages written to c's socket
    late,        \* late[c]: messages read from c after it was cancelled
    pushes, closes

cl_vars  == <<peer, sent, late>>
reg_vars == <<reg, cancelled>>
chan_vars == <<readQ, writeQ, closeQ>>
post_vars == <<flying, failed, fails>>
app_vars == <<seen, post_vars>>
vars == <<cl_vars, pc, idle, reg_vars, chan_vars, writer, closer, ticker,
          app_vars, inbox, pushes, closes>>

----------------------------------------------------------------------------
\* "add": in addClient; "open": about to queue ACTION_OPEN; "loop": at the select
\* of the read loop; "read": in ReadMessage, which blocks; "pong", "msg": has read
\* a ping or a message; "close": has to queue ACTION_CLOSE; "leave": has to call
\* closeHandler; "end": returned.
PCs == {"none", "add", "open", "loop", "read", "pong", "msg", "close", "leave", "end"}

Events == [conn : Conns, action : {"open", "message", "close"}]

NoTarget == [users |-> {}, access |-> 0, tokens |-> {}, conns |-> {}]
Only(S) == [NoTarget EXCEPT !.conns = S]

\* The targets that occur: those of apps, of pongs, of leaving and of expired
\* connections.
AllTargets == Targets \cup {Only(S) : S \in SUBSET Conns}

None == [busy |-> FALSE, target |-> NoTarget, ids |-> {}]

Init == /\ peer = [c \in Conns |-> "no"]
        /\ sent = [c \in Conns |-> 0]
        /\ pc = [c \in Conns |-> "none"]
        /\ idle = {} /\ cancelled = {}
        /\ reg = {}
        /\ readQ = <<>> /\ writeQ = <<>> /\ closeQ = <<>>
        /\ writer = None /\ closer = None /\ ticker = None
        /\ seen = [c \in Conns |-> <<>>]
        /\ flying = [e \in Events |-> 0] /\ failed = {} /\ fails = 0
        /\ inbox = [c \in Conns |-> {}]
        /\ late = [c \in Conns |-> 0]
        /\ pushes = 0 /\ closes = 0

----------------------------------------------------------------------------
(* filters.go                                                              *)

\* Filter.filter: an empty list clears the result.
FilterBy(S, list, Field) == {c \in S : list # {} /\ Field[c] \in list}

\* FilterByUsersPrivatesOnly, FilterByUsersPublicsOnly.
ByAccess(S, access) ==
    CASE access = 1 -> S \ Public
      [] access = 2 -> S \cap Public
      [] OTHER -> S

\* What closeConns and routineWrite select from the snapshot S: filters whose
\* list is empty are not applied, and the access type goes with the users.
Select_Unrestricted(t, S) ==
    LET s1 == IF t.users # {} THEN FilterBy(S, t.users, User) ELSE S
        s2 == IF t.tokens # {} THEN FilterBy(s1, t.tokens, Token) ELSE s1 IN
    IF t.conns # {} THEN s2 \cap t.conns ELSE s2

Select(t, S) ==
    LET s1 == IF t.users # {} THEN ByAccess(FilterBy(S, t.users, User), t.access)
                              ELSE S
        s2 == IF t.tokens # {} THEN FilterBy(s1, t.tokens, Token) ELSE s1 IN
    IF t.conns # {} THEN s2 \cap t.conns ELSE s2

----------------------------------------------------------------------------
(* The clients (external).                                                 *)

Connect(c) ==
    /\ peer[c] = "no"
    /\ peer' = [peer EXCEPT ![c] = "up"]
    /\ pc' = [pc EXCEPT ![c] = "add"]
    /\ UNCHANGED <<sent, late, idle, reg_vars, chan_vars, writer, closer, ticker,
                   app_vars, inbox, pushes, closes>>

Disconnect(c) ==
    /\ peer[c] = "up"
    /\ peer' = [peer EXCEPT ![c] = "gone"]
    /\ UNCHANGED <<sent, late, pc, idle, reg_vars, chan_vars, writer, closer, ticker,
                   app_vars, inbox, pushes, closes>>

\* 45 seconds have passed since the connection was made or sent its last ping.
Expire(c) ==
    /\ c \in Silent /\ pc[c] # "none"
    /\ idle' = idle \cup {c}
    /\ UNCHANGED <<cl_vars, pc, reg_vars, chan_vars, writer, closer, ticker,
                   app_vars, inbox, pushes, closes>>

----------------------------------------------------------------------------
(* client.go: the goroutine of a connection.                               *)

Goto(c, l) == pc' = [pc EXCEPT ![c] = l]

AddClient(c) ==
    /\ pc[c] = "add"
    /\ reg' = reg \cup {c}
    /\ Goto(c, "open")
    /\ UNCHANGED <<cl_vars, idle, cancelled, chan_vars, writer, closer, ticker,
                   app_vars, inbox, pushes, closes>>

\* server.read: blocks while the channel is full.
QueueRead(c, action) ==
    /\ Len(readQ) < QueueSize
    /\ readQ' = Append(readQ, [conn |-> c, action |-> action])
    /\ UNCHANGED <<cl_vars, idle, reg_vars, writeQ, closeQ, writer, closer, ticker,
                   app_vars, inbox, pushes, closes>>

NoticeConnected(c) == pc[c] = "open" /\ Goto(c, "loop") /\ QueueRead(c, "open")

\* case <-ctx.Done(): close the socket and return, without ACTION_CLOSE.
Cancelled(c) ==
    /\ pc[c] = "loop"
    /\ c \in cancelled
    /\ peer' = [peer EXCEPT ![c] = "gone"]
    /\ Goto(c, "end")
    /\ UNCHANGED <<sent, late, idle, reg_vars, chan_vars, writer, closer, ticker,
                   app_vars, inbox, pushes, closes>>

\* default: go and read; a cancellation from here on is seen after the read.
Default_Always(c) ==
    /\ pc[c] = "loop"
    /\ Goto(c, "read")
    /\ UNCHANGED <<cl_vars, idle, reg_vars, chan_vars, writer, closer, ticker,
                   app_vars, inbox, pushes, closes>>

Default(c) ==
    /\ pc[c] = "loop"
    /\ c \notin cancelled
    /\ Goto(c, "read")
    /\ UNCHANGED <<cl_vars, idle, reg_vars, chan_vars, writer, closer, ticker,
                   app_vars, inbox, pushes, closes>>

\* ReadMessage returns what the client sent, a ping or a message.
ReadMessage(c, kind) ==
    /\ pc[c] = "read"
    /\ peer[c] = "up"
    /\ sent[c] < MaxMsgs
    /\ sent' = [sent EXCEPT ![c] = @ + 1]
    /\ late' = [late EXCEPT ![c] = IF c \in cancelled THEN @ + 1 ELSE @]
    /\ Goto(c, kind)
    /\ UNCHANGED <<peer, idle, reg_vars, chan_vars, writer, closer, ticker,
                   app_vars, inbox, pushes, closes>>

ReadFails(c) ==
    /\ pc[c] = "read"
    /\ peer[c] = "gone"
    /\ Goto(c, "close")
    /\ UNCHANGED <<cl_vars, idle, reg_vars, chan_vars, writer, closer, ticker,
                   app_vars, inbox, pushes, closes>>

\* A ping: queue the pong, then updateExpiration.
Pong(c) ==
    /\ pc[c] = "pong"
    /\ Len(writeQ) < QueueSize
    /\ writeQ' = Append(writeQ, Only({c}))
    /\ idle' = idle \ {c}
    /\ Goto(c, "loop")
    /\ UNCHANGED <<cl_vars, reg_vars, readQ, closeQ, writer, closer, ticker,
                   app_vars, inbox, pushes, closes>>

Message(c) == pc[c] = "msg" /\ Goto(c, "loop") /\ QueueRead(c, "message")

NoticeClosed_Continue(c) == pc[c] = "close" /\ Goto(c, "loop") /\ QueueRead(c, "close")
NoticeClosed_Skip(c) ==
    /\ pc[c] = "close" /\ Goto(c, "leave")
    /\ UNCHANGED <<cl_vars, idle, reg_vars, chan_vars, writer, closer, ticker,
                   app_vars, inbox, pushes, closes>>
NoticeClosed(c) == pc[c] = "close" /\ Goto(c, "leave") /\ QueueRead(c, "close")

\* closeHandler: server.close(connId).
Leave_Unbounded(c) ==
    /\ pc[c] = "leave"
    /\ closeQ' = Append(closeQ, Only({c}))
    /\ Goto(c, "end")
    /\ UNCHANGED <<cl_vars, idle, reg_vars, readQ, writeQ, writer, closer,
                   ticker, app_vars, inbox, pushes, closes>>

Leave(c) ==
    /\ pc[c] = "leave"
    /\ Len(closeQ) < QueueSize
    /\ closeQ' = Append(closeQ, Only({c}))
    /\ Goto(c, "end")
    /\ UNCHANGED <<cl_vars, idle, reg_vars, readQ, writeQ, writer, closer,
                   ticker, app_vars, inbox, pushes, closes>>

----------------------------------------------------------------------------
(* handler.go: requests of apps.                                           *)

\* SendMessage: refused when it has no target at all.
SendMessage(t) ==
    /\ t.conns # {} \/ t.users # {} \/ t.tokens # {}
    /\ pushes < MaxPushes /\ pushes' = pushes + 1
    /\ Len(writeQ) < QueueSize
    /\ writeQ' = Append(writeQ, t)
    /\ UNCHANGED <<cl_vars, pc, idle, reg_vars, readQ, closeQ, writer, closer,
                   ticker, app_vars, inbox, closes>>

CloseConnection(t) ==
    /\ closes < MaxCloses /\ closes' = closes + 1
    /\ Len(closeQ) < QueueSize
    /\ closeQ' = Append(closeQ, t)
    /\ UNCHANGED <<cl_vars, pc, idle, reg_vars, readQ, writeQ, writer, closer,
                   ticker, app_vars, inbox, pushes>>

----------------------------------------------------------------------------
(* server.go: the consumers of the channels and the ticker.                *)

\* The app acts on a POST of the event (external).
Tell(e) == seen' = [seen EXCEPT ![e.conn] = Append(@, e.action)]

\* The POST cannot be made, is not answered within two seconds or is answered with
\* 400 or more: that is logged, and the event is not posted again.  The app may
\* have acted on it, may do so later, or never.
PostFails(e) ==
    /\ fails < MaxFails /\ fails' = fails + 1
    /\ failed' = failed \cup {e}
    /\ flying' = [flying EXCEPT ![e] = @ + 1]
    /\ UNCHANGED seen

\* routineRead: the handler posts the event to the app.
RoutineRead ==
    /\ readQ # <<>>
    /\ (Tell(Head(readQ)) /\ UNCHANGED post_vars) \/ PostFails(Head(readQ))
    /\ readQ' = Tail(readQ)
    /\ UNCHANGED <<cl_vars, pc, idle, reg_vars, writeQ, closeQ, writer, closer,
                   ticker, inbox, pushes, closes>>

\* The app acts on a POST the gateway has given up (external).
ToldLate(e) ==
    /\ flying[e] > 0
    /\ flying' = [flying EXCEPT ![e] = @ - 1]
    /\ Tell(e)
    /\ UNCHANGED <<cl_vars, pc, idle, reg_vars, chan_vars, writer, closer,
                   ticker, failed, fails, inbox, pushes, closes>>

\* routineWrite: take a message and the snapshot.
WriteFilter ==
    /\ ~writer.busy
    /\ writeQ # <<>>
    /\ writer' = [busy |-> TRUE, target |-> Head(writeQ), ids |-> Select(Head(writeQ), reg)]
    /\ writeQ' = Tail(writeQ)
    /\ UNCHANGED <<cl_vars, pc, idle, reg_vars, readQ, closeQ, closer, ticker,
                   app_vars, inbox, pushes, closes>>

\* routineWrite: under RLock, write to what is left of it.
WriteSend ==
    /\ writer.busy
    /\ inbox' = [c \in Conns |-> IF c \in writer.ids \cap reg
                                   THEN inbox[c] \cup {writer.target} ELSE inbox[c]]
    /\ writer' = None
    /\ UNCHANGED <<cl_vars, pc, idle, reg_vars, chan_vars, closer, ticker,
                   app_vars, pushes, closes>>

\* closeConns: take a message and the snapshot.
CloseFilter ==
    /\ ~closer.busy
    /\ closeQ # <<>>
    /\ closer' = [busy |-> TRUE, target |-> Head(closeQ), ids |-> Select(Head(closeQ), reg)]
    /\ closeQ' = Tail(closeQ)
    /\ UNCHANGED <<cl_vars, pc, idle, reg_vars, readQ, writeQ, writer, ticker,
                   app_vars, inbox, pushes, closes>>

\* closeConns: under Lock, remove and cancel what is left of it.
CloseRemove_Signal ==
    /\ closer.busy
    /\ cancelled' = cancelled \cup (closer.ids \cap reg)
    /\ closer' = None
    /\ UNCHANGED <<cl_vars, pc, idle, reg, chan_vars, writer, ticker,
                   app_vars, inbox, pushes, closes>>

CloseRemove ==
    /\ closer.busy
    /\ reg' = reg \ closer.ids
    /\ cancelled' = cancelled \cup (closer.ids \cap reg)
    /\ closer' = None
    /\ UNCHANGED <<cl_vars, pc, idle, chan_vars, writer, ticker,
                   app_vars, inbox, pushes, closes>>

\* checkExpired: the ids of expired connections, queued as soon as there is room.
CheckExpired ==
    /\ ~ticker.busy
    /\ reg \cap idle # {}
    /\ ticker' = [None EXCEPT !.busy = TRUE, !.ids = reg \cap idle]
    /\ UNCHANGED <<cl_vars, pc, idle, reg_vars, chan_vars, writer, closer,
                   app_vars, inbox, pushes, closes>>

QueueExpired ==
    /\ ticker.busy
    /\ Len(closeQ) < QueueSize
    /\ closeQ' = Append(closeQ, Only(ticker.ids))
    /\ ticker' = None
    /\ UNCHANGED <<cl_vars, pc, idle, reg_vars, readQ, writeQ, writer, closer,
                   app_vars, inbox, pushes, closes>>

Goroutine(c) ==
    \/ AddClient(c) \/ NoticeConnected(c) \/ Cancelled(c) \/ Default(c)
    \/ ReadFails(c)
    \/ Pong(c) \/ Message(c) \/ NoticeClosed(c) \/ Leave(c)

Next ==
    \/ \E c \in Conns : \/ Connect(c) \/ Disconnect(c) \/ Expire(c)
                        \/ ReadMessage(c, "pong") \/ ReadMessage(c, "msg")
                        \/ Goroutine(c)
    \/ \E t \in Targets : SendMessage(t) \/ CloseConnection(t)
    \/ \E e \in Events : ToldLate(e)
    \/ RoutineRead \/ WriteFilter \/ WriteSend \/ CloseFilter \/ CloseRemove
    \/ CheckExpired \/ QueueExpired

Spec == Init /\ [][Next]_vars

\* Goroutines that can run do run; the app answers or the call times out after
\* two seconds; the ticker ticks.  Clients and apps need not do anything.  A
\* goroutine that waits for room in a channel competes with the other senders,
\* and Go serves blocked senders in order: strong fairness.
Fairness ==
    /\ \A c \in Conns : SF_vars(Goroutine(c))
    /\ WF_vars(RoutineRead) /\ WF_vars(WriteFilter) /\ WF_vars(WriteSend)
    /\ WF_vars(CloseFilter) /\ WF_vars(CloseRemove)
    /\ WF_vars(CheckExpired) /\ SF_vars(QueueExpired)

FairSpec == Spec /\ Fairness

----------------------------------------------------------------------------
(* Properties.                                                             *)

\* Channels stay within their capacity and everything is of its type.
TypeOK ==
    /\ peer \in [Conns -> {"no", "up", "gone"}]
    /\ sent \in [Conns -> 0 .. MaxMsgs]
    /\ pc \in [Conns -> PCs]
    /\ idle \subseteq Conns /\ cancelled \subseteq Conns
    /\ reg \subseteq Conns
    /\ late \in [Conns -> 0 .. MaxMsgs]
    /\ readQ \in Seq(Events)
    /\ writeQ \in Seq(AllTargets) /\ closeQ \in Seq(AllTargets)
    /\ Len(readQ) <= QueueSize /\ Len(writeQ) <= QueueSize /\ Len(closeQ) <= QueueSize
    /\ writer \in [busy : BOOLEAN, target : AllTargets, ids : SUBSET Conns]
    /\ closer \in [busy : BOOLEAN, target : AllTargets, ids : SUBSET Conns]
    /\ ticker \in [busy : BOOLEAN, target : {NoTarget}, ids : SUBSET Conns]
    /\ seen \in [Conns -> Seq({"open", "message", "close"})]
    /\ flying \in [Events -> 0 .. MaxFails]
    /\ failed \subseteq Events /\ fails \in 0 .. MaxFails
    /\ inbox \in [Conns -> SUBSET AllTargets]
    /\ pushes \in 0 .. MaxPushes /\ closes \in 0 .. MaxCloses

\* The POST of an event of this kind failed.
Failed(c, action) == [conn |-> c, action |-> action] \in failed

\* What the app is told of one connection is: opened first, then messages, then a
\* close and nothing after it, and neither opening nor closing twice; although the
\* events of all connections share one channel, and closing by the server, by the
\* ticker and by the client overlap.  An event whose POST failed is missing or comes
\* late, and disturbs the order of no other.
EventsInOrder ==
    \A c \in Conns :
        /\ \A k, l \in 1 .. Len(seen[c]) :
             seen[c][k] = seen[c][l] /\ seen[c][k] # "message" => k = l
        /\ ~Failed(c, "open") =>
             \A k \in 1 .. Len(seen[c]) : (seen[c][k] = "open") <=> (k = 1)
        /\ ~Failed(c, "open") /\ ~Failed(c, "message") =>
             \A k \in 1 .. Len(seen[c]) : seen[c][k] = "close" => k = Len(seen[c])

\* Whom a message is for, said without filters: the users (of the access type
\* asked for), the tokens and the connection ids that are given all agree.
IsFor(c, t) ==
    /\ t.users # {} => /\ User[c] \in t.users
                       /\ t.access = 1 => c \notin Public
                       /\ t.access = 2 => c \in Public
    /\ t.tokens # {} => Token[c] \in t.tokens
    /\ t.conns # {} => c \in t.conns

\* A message reaches only connections it is for, and never all of them for want
\* of a target, although it is written from a snapshot that may be out of date.
OnlyToTarget == \A c \in Conns : \A t \in inbox[c] : IsFor(c, t) /\ t # NoTarget

\* Closing a connection stops its traffic: of a client that keeps sending, at
\* most the one message the goroutine was already waiting for is still handled
\* after the connection was closed.
AtMostOneLateRead == \A c \in Conns : late[c] <= 1

\* When the client goes away the connection does not stay registered and the app is
\* told so, or the one POST that should tell it failed; with full channels, blocked
\* consumers, and the app or the ticker closing the connection at that moment.
PeerGoneIsHandled ==
    \A c \in Conns : (peer[c] = "gone" /\ pc[c] = "read")
        ~> /\ c \notin reg
           /\ Failed(c, "close") \/ \E k \in 1 .. Len(seen[c]) : seen[c][k] = "close"

\* An expired connection that stays silent is closed.
ExpiredIsRemoved == \A c \in Conns : (c \in idle /\ c \in reg) ~> (c \notin reg \/ c \notin idle)
=============================================================================
