-------------------------- MODULE WSGatewayProofs --------------------------
(***************************************************************************)
(* Theorems about WSGateway, for every set of connections and targets and  *)
(* every capacity of the channels.                                         *)
(***************************************************************************)
EXTENDS WSGateway, TLAPS

----------------------------------------------------------------------------
(* Type correctness.                                                       *)

\* A message read late is a message that was sent, and what the app may still act on
\* is a POST that failed.
LateSent == \A c \in Conns : late[c] <= sent[c]
FlyingFailed == \A e \in Events : flying[e] <= fails

TypeInv == TypeOK /\ LateSent /\ FlyingFailed

USE DEF cl_vars, reg_vars, chan_vars, post_vars, app_vars

\* The targets the gateway makes itself are targets.
LEMMA OnlyType ==
  /\ NoTarget \in AllTargets
  /\ \A S \in SUBSET Conns : Only(S) \in AllTargets /\ Only(S).conns = S
  /\ \A t \in AllTargets : /\ t.users \subseteq Names /\ t.conns \subseteq Conns
                           /\ t.access \in 0 .. 2
<1>1. NoTarget = Only({})
  BY DEF NoTarget, Only
<1>2. \A S \in SUBSET Conns : Only(S) \in AllTargets /\ Only(S).conns = S
  BY DEF Only, AllTargets, NoTarget
<1>3. NoTarget \in AllTargets
  BY <1>1, <1>2
<1>4. ASSUME NEW t \in AllTargets
      PROVE  t.users \subseteq Names /\ t.conns \subseteq Conns /\ t.access \in 0 .. 2
  <2>1. CASE t \in Targets
    BY <2>1, TargetsAssumption
  <2>2. CASE \E S \in SUBSET Conns : t = Only(S)
    BY <2>2 DEF Only, NoTarget
  <2> QED BY <2>1, <2>2 DEF AllTargets
<1> QED BY <1>2, <1>3, <1>4

\* What a filter selects is part of the snapshot.
LEMMA SelectType ==
  ASSUME NEW t, NEW S
  PROVE  Select(t, S) \subseteq S
BY DEF Select, FilterBy, ByAccess

\* The initial state has the types.
LEMMA InitType == Init => TypeInv
BY OnlyType, BoundAssumption DEF Init, TypeInv, TypeOK, LateSent, FlyingFailed, None, PCs

\* Every step keeps the types.
LEMMA NextType == TypeInv /\ [Next]_vars => TypeInv'
<1> SUFFICES ASSUME TypeInv, [Next]_vars PROVE TypeInv'
  OBVIOUS
<1> USE DEF TypeInv, TypeOK, LateSent, FlyingFailed
<1>1. ASSUME NEW c \in Conns, Connect(c) PROVE TypeInv'
  BY <1>1 DEF Connect, PCs
<1>2. ASSUME NEW c \in Conns, Disconnect(c) PROVE TypeInv'
  BY <1>2 DEF Disconnect
<1>3. ASSUME NEW c \in Conns, Expire(c) PROVE TypeInv'
  BY <1>3 DEF Expire
<1>4. ASSUME NEW c \in Conns, NEW kind \in {"pong", "msg"}, ReadMessage(c, kind)
      PROVE  TypeInv'
  <2>1. pc' \in [Conns -> PCs]
    BY <1>4 DEF ReadMessage, Goto, PCs
  <2>2. sent' \in [Conns -> 0 .. MaxMsgs] /\ late' \in [Conns -> 0 .. MaxMsgs]
        /\ \A d \in Conns : late'[d] <= sent'[d]
    BY <1>4, BoundAssumption DEF ReadMessage
  <2> QED BY <1>4, <2>1, <2>2 DEF ReadMessage
<1>5. ASSUME NEW c \in Conns, Goroutine(c) PROVE TypeInv'
  <2>1. CASE AddClient(c)
    BY <2>1 DEF AddClient, Goto, PCs
  <2>2. ASSUME NEW l \in PCs, NEW action \in {"open", "message", "close"},
               Goto(c, l), QueueRead(c, action)
        PROVE  TypeInv'
    <3>1. pc' \in [Conns -> PCs]
      BY <2>2 DEF Goto
    <3>2. readQ' \in Seq(Events) /\ Len(readQ') <= QueueSize
      BY <2>2, BoundAssumption DEF QueueRead, Events
    <3> QED BY <2>2, <3>1, <3>2 DEF QueueRead
  <2>3. CASE NoticeConnected(c) \/ Message(c) \/ NoticeClosed(c)
    BY <2>2, <2>3 DEF NoticeConnected, Message, NoticeClosed, PCs
  <2>4. CASE Cancelled(c)
    BY <2>4 DEF Cancelled, Goto, PCs
  <2>5. CASE Default(c) \/ ReadFails(c)
    <3>1. pc' \in [Conns -> PCs]
      BY <2>5 DEF Default, ReadFails, Goto, PCs
    <3> QED BY <2>5, <3>1 DEF Default, ReadFails
  <2>6. CASE Pong(c)
    <3>1. writeQ' \in Seq(AllTargets) /\ Len(writeQ') <= QueueSize
      BY <2>6, OnlyType, BoundAssumption DEF Pong
    <3>2. pc' \in [Conns -> PCs]
      BY <2>6 DEF Pong, Goto, PCs
    <3> QED BY <2>6, <3>1, <3>2 DEF Pong
  <2>7. CASE Leave(c)
    <3>1. closeQ' \in Seq(AllTargets) /\ Len(closeQ') <= QueueSize
      BY <2>7, OnlyType, BoundAssumption DEF Leave
    <3>2. pc' \in [Conns -> PCs]
      BY <2>7 DEF Leave, Goto, PCs
    <3> QED BY <2>7, <3>1, <3>2 DEF Leave
  <2> QED BY <1>5, <2>1, <2>3, <2>4, <2>5, <2>6, <2>7 DEF Goroutine
<1>6. ASSUME NEW t \in Targets, SendMessage(t) PROVE TypeInv'
  <2>1. writeQ' \in Seq(AllTargets) /\ Len(writeQ') <= QueueSize
    BY <1>6, BoundAssumption DEF SendMessage, AllTargets
  <2>2. pushes' \in 0 .. MaxPushes
    BY <1>6, BoundAssumption DEF SendMessage
  <2> QED BY <1>6, <2>1, <2>2 DEF SendMessage
<1>7. ASSUME NEW t \in Targets, CloseConnection(t) PROVE TypeInv'
  <2>1. closeQ' \in Seq(AllTargets) /\ Len(closeQ') <= QueueSize
    BY <1>7, BoundAssumption DEF CloseConnection, AllTargets
  <2>2. closes' \in 0 .. MaxCloses
    BY <1>7, BoundAssumption DEF CloseConnection
  <2> QED BY <1>7, <2>1, <2>2 DEF CloseConnection
<1>t. ASSUME NEW e \in Events, Tell(e)
      PROVE  seen' \in [Conns -> Seq({"open", "message", "close"})]
  <2>1. e.conn \in Conns /\ e.action \in {"open", "message", "close"}
    BY DEF Events
  <2>2. Append(seen[e.conn], e.action) \in Seq({"open", "message", "close"})
    BY <2>1
  <2> QED BY <1>t, <2>1, <2>2 DEF Tell
<1>8. CASE RoutineRead
  <2>1. readQ \in Seq(Events) /\ readQ # <<>>
    BY <1>8 DEF RoutineRead
  <2>2. Head(readQ) \in Events /\ Tail(readQ) \in Seq(Events)
        /\ Len(Tail(readQ)) <= QueueSize
    BY <2>1, BoundAssumption
  <2>3. readQ' \in Seq(Events) /\ Len(readQ') <= QueueSize
    BY <1>8, <2>2 DEF RoutineRead
  <2>4. CASE Tell(Head(readQ)) /\ UNCHANGED post_vars
    <3>1. seen' \in [Conns -> Seq({"open", "message", "close"})]
      BY <1>t, <2>2, <2>4
    <3> QED BY <1>8, <2>3, <2>4, <3>1 DEF RoutineRead
  <2>5. CASE PostFails(Head(readQ))
    <3>1. /\ fails' \in 0 .. MaxFails /\ failed' \subseteq Events /\ seen' = seen
          /\ flying' = [flying EXCEPT ![Head(readQ)] = @ + 1]
      BY <2>2, <2>5, BoundAssumption DEF PostFails
    <3>2. flying[Head(readQ)] <= fails /\ fails < MaxFails
      BY <2>2, <2>5 DEF PostFails
    <3>3. \A e \in Events : flying'[e] <= fails' /\ flying'[e] \in 0 .. MaxFails
      BY <2>2, <2>5, <3>1, <3>2, BoundAssumption DEF PostFails
    <3>4. flying' \in [Events -> 0 .. MaxFails]
      BY <3>1, <3>3
    <3> QED BY <1>8, <2>3, <3>1, <3>3, <3>4 DEF RoutineRead
  <2> QED BY <1>8, <2>4, <2>5 DEF RoutineRead
<1>l. ASSUME NEW e \in Events, ToldLate(e) PROVE TypeInv'
  <2>1. seen' \in [Conns -> Seq({"open", "message", "close"})]
    BY <1>t, <1>l DEF ToldLate
  <2>2. /\ flying' \in [Events -> 0 .. MaxFails]
        /\ \A d \in Events : flying'[d] <= fails
    BY <1>l, BoundAssumption DEF ToldLate
  <2> QED BY <1>l, <2>1, <2>2 DEF ToldLate
<1>9. CASE WriteFilter
  <2>1. Head(writeQ) \in AllTargets /\ Tail(writeQ) \in Seq(AllTargets)
        /\ Len(Tail(writeQ)) <= QueueSize
    BY <1>9, BoundAssumption DEF WriteFilter
  <2>2. writer' \in [busy : BOOLEAN, target : AllTargets, ids : SUBSET Conns]
    BY <1>9, <2>1, SelectType DEF WriteFilter
  <2> QED BY <1>9, <2>1, <2>2 DEF WriteFilter
<1>10. CASE WriteSend
  <2>1. writer' \in [busy : BOOLEAN, target : AllTargets, ids : SUBSET Conns]
    BY <1>10, OnlyType DEF WriteSend, None
  <2>2. inbox' \in [Conns -> SUBSET AllTargets]
    <3>1. writer.target \in AllTargets
      OBVIOUS
    <3> QED BY <1>10, <3>1 DEF WriteSend
  <2> QED BY <1>10, <2>1, <2>2 DEF WriteSend
<1>11. CASE CloseFilter
  <2>1. Head(closeQ) \in AllTargets /\ Tail(closeQ) \in Seq(AllTargets)
        /\ Len(Tail(closeQ)) <= QueueSize
    BY <1>11, BoundAssumption DEF CloseFilter
  <2>2. closer' \in [busy : BOOLEAN, target : AllTargets, ids : SUBSET Conns]
    BY <1>11, <2>1, SelectType DEF CloseFilter
  <2> QED BY <1>11, <2>1, <2>2 DEF CloseFilter
<1>12. CASE CloseRemove
  BY <1>12, OnlyType DEF CloseRemove, None
<1>13. CASE CheckExpired
  BY <1>13 DEF CheckExpired, None
<1>14. CASE QueueExpired
  <2>1. ticker.ids \in SUBSET Conns
    OBVIOUS
  <2>2. closeQ' \in Seq(AllTargets) /\ Len(closeQ') <= QueueSize
    BY <1>14, <2>1, OnlyType, BoundAssumption DEF QueueExpired
  <2> QED BY <1>14, <2>2 DEF QueueExpired, None
<1>15. CASE UNCHANGED vars
  BY <1>15 DEF vars
<1> HIDE DEF TypeInv, TypeOK, LateSent, FlyingFailed
<1> QED
  BY <1>1, <1>2, <1>3, <1>4, <1>5, <1>6, <1>7, <1>8, <1>9, <1>10, <1>11, <1>12,
     <1>13, <1>14, <1>15, <1>l, Zenon DEF Next

\* Channels stay within their capacity and the state keeps its types, for any
\* number of connections and any capacity (WSGateway!TypeOK).
THEOREM TypeCorrect == Spec => []TypeOK
<1>1. TypeInv => TypeOK
  BY DEF TypeInv
<1> QED BY <1>1, InitType, NextType, PTL DEF Spec
----------------------------------------------------------------------------
(* Closing a connection stops its traffic.                                 *)

\* Once a message has been read late the connection is cancelled for good and its
\* goroutine is past the read: it meets ctx.Done() before it could read again.
LateInv == \A c \in Conns : /\ late[c] \in {0, 1}
                            /\ late[c] = 1 => c \in cancelled /\ pc[c] # "read"

\* Every step keeps LateInv: only ReadMessage counts, and only Default, which
\* refuses cancelled connections, leads back to the read.
LEMMA NextLate == TypeOK /\ LateInv /\ [Next]_vars => LateInv'
<1> SUFFICES ASSUME TypeOK, LateInv, [Next]_vars PROVE LateInv'
  OBVIOUS
<1> USE DEF LateInv
<1>0. pc \in [Conns -> PCs] /\ late \in [Conns -> 0 .. MaxMsgs]
  BY DEF TypeOK
<1>1. ASSUME late' = late, cancelled \subseteq cancelled',
             \A d \in Conns : pc'[d] = "read" => pc[d] = "read" \/ d \notin cancelled
      PROVE  LateInv'
  BY <1>1
<1>2. ASSUME NEW c \in Conns, NEW kind \in {"pong", "msg"}, ReadMessage(c, kind)
      PROVE  LateInv'
  <2>1. late[c] = 0
    BY <1>2 DEF ReadMessage
  <2>2. \A d \in Conns \ {c} : late'[d] = late[d] /\ pc'[d] = pc[d]
    BY <1>0, <1>2 DEF ReadMessage, Goto
  <2>3. late'[c] = (IF c \in cancelled THEN 1 ELSE 0) /\ pc'[c] # "read"
    BY <1>0, <1>2, <2>1 DEF ReadMessage, Goto
  <2>4. cancelled' = cancelled
    BY <1>2 DEF ReadMessage
  <2> QED BY <2>2, <2>3, <2>4
<1>3. ASSUME NEW c \in Conns, Default(c) PROVE LateInv'
  <2>1. \A d \in Conns : pc'[d] = "read" => pc[d] = "read" \/ d \notin cancelled
    BY <1>0, <1>3 DEF Default, Goto
  <2> QED BY <1>1, <1>3, <2>1 DEF Default
<1>4. ASSUME NEW c \in Conns, NEW l \in PCs \ {"read"}, Goto(c, l),
             late' = late, cancelled' = cancelled
      PROVE  LateInv'
  BY <1>0, <1>1, <1>4 DEF Goto
<1>5. ASSUME NEW c \in Conns, Goroutine(c) PROVE LateInv'
  <2>1. CASE AddClient(c) \/ NoticeConnected(c) \/ Cancelled(c) \/ ReadFails(c)
    BY <1>4, <2>1
       DEF AddClient, NoticeConnected, QueueRead, Cancelled, ReadFails, PCs
  <2>2. CASE Pong(c) \/ Message(c) \/ NoticeClosed(c) \/ Leave(c)
    BY <1>4, <2>2 DEF Pong, Message, NoticeClosed, QueueRead, Leave, PCs
  <2> QED BY <1>3, <1>5, <2>1, <2>2 DEF Goroutine
<1>6. ASSUME NEW c \in Conns, Connect(c) \/ Disconnect(c) \/ Expire(c) PROVE LateInv'
  <2>1. \A d \in Conns : pc'[d] = "read" => pc[d] = "read"
    BY <1>0, <1>6 DEF Connect, Disconnect, Expire
  <2> QED BY <1>1, <1>6, <2>1 DEF Connect, Disconnect, Expire
<1>7. ASSUME NEW t \in Targets, SendMessage(t) \/ CloseConnection(t) PROVE LateInv'
  BY <1>1, <1>7 DEF SendMessage, CloseConnection
<1>8. CASE RoutineRead \/ (\E e \in Events : ToldLate(e)) \/ WriteFilter \/ WriteSend \/ CloseFilter
  BY <1>1, <1>8 DEF RoutineRead, ToldLate, WriteFilter, WriteSend, CloseFilter
<1>9. CASE CloseRemove \/ CheckExpired \/ QueueExpired
  BY <1>1, <1>9 DEF CloseRemove, CheckExpired, QueueExpired
<1>10. CASE UNCHANGED vars
  BY <1>1, <1>10 DEF vars
<1> HIDE DEF LateInv
<1> QED BY <1>2, <1>5, <1>6, <1>7, <1>8, <1>9, <1>10, Zenon DEF Next

\* After a connection is closed at most the message its goroutine was already
\* waiting for is handled, whatever the client sends and whoever closes it
\* (WSGateway!AtMostOneLateRead).
THEOREM AtMostOneLateReadHolds == Spec => []AtMostOneLateRead
<1>1. Init => LateInv
  BY DEF Init, LateInv
<1>2. LateInv => AtMostOneLateRead
  BY DEF LateInv, AtMostOneLateRead
<1> QED BY <1>1, <1>2, TypeCorrect, NextLate, PTL DEF Spec

----------------------------------------------------------------------------
(* A message reaches only whom it is for.                                  *)

\* The filters of filters.go, applied one after the other to any snapshot, leave
\* connections the target is for.
LEMMA SelectIsFor ==
  ASSUME NEW t, NEW S, NEW c \in Select(t, S)
  PROVE  IsFor(c, t)
BY DEF Select, FilterBy, ByAccess, IsFor

\* Nothing in the channel is without a target, and routineWrite holds only
\* connections its message is for, even when the registry has changed since.
TargetInv ==
  /\ \A i \in 1 .. Len(writeQ) : writeQ[i] # NoTarget
  /\ \A c \in writer.ids : IsFor(c, writer.target) /\ writer.target # NoTarget
  /\ OnlyToTarget

\* Every step keeps TargetInv.
LEMMA NextTarget == TypeOK /\ TargetInv /\ [Next]_vars => TargetInv'
<1> SUFFICES ASSUME TypeOK, TargetInv, [Next]_vars PROVE TargetInv'
  OBVIOUS
<1> USE DEF TargetInv, OnlyToTarget
<1>0. /\ writeQ \in Seq(AllTargets) /\ inbox \in [Conns -> SUBSET AllTargets]
      /\ writer.ids \subseteq Conns
  BY DEF TypeOK
<1>1. ASSUME writeQ' = writeQ, writer' = writer, inbox' = inbox PROVE TargetInv'
  BY <1>1 DEF IsFor
<1>2. ASSUME NEW t, t # NoTarget, writeQ' = Append(writeQ, t), writer' = writer,
             inbox' = inbox
      PROVE  TargetInv'
  <2>1. \A i \in 1 .. Len(writeQ') : writeQ'[i] # NoTarget
    BY <1>0, <1>2
  <2> QED BY <1>2, <2>1 DEF IsFor
<1>3. ASSUME NEW c \in Conns, Goroutine(c) PROVE TargetInv'
  <2>1. CASE AddClient(c) \/ NoticeConnected(c) \/ Cancelled(c) \/ ReadFails(c) \/ Default(c)
    BY <1>1, <2>1 DEF AddClient, NoticeConnected, QueueRead, Cancelled, ReadFails, Default
  <2>2. CASE Message(c) \/ NoticeClosed(c) \/ Leave(c)
    BY <1>1, <2>2 DEF Message, NoticeClosed, QueueRead, Leave
  <2>3. CASE Pong(c)
    <3>1. Only({c}) # NoTarget
      BY DEF Only, NoTarget
    <3> QED BY <1>2, <2>3, <3>1 DEF Pong
  <2> QED BY <1>3, <2>1, <2>2, <2>3 DEF Goroutine
<1>4. ASSUME NEW t \in Targets, SendMessage(t) PROVE TargetInv'
  <2>1. t # NoTarget
    BY <1>4 DEF SendMessage, NoTarget
  <2> QED BY <1>2, <1>4, <2>1 DEF SendMessage
<1>5. CASE WriteFilter
  <2>1. /\ Head(writeQ) = writeQ[1] /\ 1 \in 1 .. Len(writeQ)
        /\ \A i \in 1 .. Len(Tail(writeQ)) :
             Tail(writeQ)[i] = writeQ[i + 1] /\ i + 1 \in 1 .. Len(writeQ)
    BY <1>0, <1>5 DEF WriteFilter
  <2>2. \A i \in 1 .. Len(writeQ') : writeQ'[i] # NoTarget
    BY <1>5, <2>1 DEF WriteFilter
  <2>3. writer'.target = Head(writeQ) /\ writer'.ids = Select(Head(writeQ), reg)
    BY <1>5 DEF WriteFilter
  <2>4. \A c \in writer'.ids : IsFor(c, writer'.target) /\ writer'.target # NoTarget
    BY <2>1, <2>3, SelectIsFor
  <2> QED BY <1>5, <2>2, <2>4 DEF WriteFilter, IsFor
<1>6. CASE WriteSend
  <2>1. writer'.ids = {} /\ writeQ' = writeQ
    BY <1>6 DEF WriteSend, None
  <2>2. ASSUME NEW c \in Conns, NEW t \in inbox'[c] PROVE IsFor(c, t) /\ t # NoTarget
    <3>1. t \in inbox[c] \/ (c \in writer.ids /\ t = writer.target)
      BY <1>6, <2>2 DEF WriteSend
    <3> QED BY <3>1
  <2> QED BY <2>1, <2>2 DEF IsFor
<1>7. ASSUME NEW c \in Conns, Connect(c) \/ Disconnect(c) \/ Expire(c) PROVE TargetInv'
  BY <1>1, <1>7 DEF Connect, Disconnect, Expire
<1>8. ASSUME NEW c \in Conns, NEW kind \in {"pong", "msg"}, ReadMessage(c, kind)
      PROVE  TargetInv'
  BY <1>1, <1>8 DEF ReadMessage
<1>9. ASSUME NEW t \in Targets, CloseConnection(t) PROVE TargetInv'
  BY <1>1, <1>9 DEF CloseConnection
<1>10. CASE RoutineRead \/ (\E e \in Events : ToldLate(e)) \/ CloseFilter \/ CloseRemove
  BY <1>1, <1>10 DEF RoutineRead, ToldLate, CloseFilter, CloseRemove
<1>11. CASE CheckExpired \/ QueueExpired
  BY <1>1, <1>11 DEF CheckExpired, QueueExpired
<1>12. CASE UNCHANGED vars
  BY <1>1, <1>12 DEF vars
<1> HIDE DEF TargetInv, OnlyToTarget
<1> QED
  BY <1>3, <1>4, <1>5, <1>6, <1>7, <1>8, <1>9, <1>10, <1>11, <1>12, Zenon DEF Next

\* A message is written only to connections it is for, and never without a target,
\* although routineWrite uses a snapshot of the registry (WSGateway!OnlyToTarget).
THEOREM OnlyToTargetHolds == Spec => []OnlyToTarget
<1>1. Init => TargetInv
  BY DEF Init, TargetInv, OnlyToTarget, None
<1>2. TargetInv => OnlyToTarget
  BY DEF TargetInv
<1> QED BY <1>1, <1>2, TypeCorrect, NextTarget, PTL DEF Spec
----------------------------------------------------------------------------
(* The app sees open, messages, close.                                     *)

\* A connection that has not queued ACTION_OPEN yet, and one that has but has not
\* queued ACTION_CLOSE.
Early == {"none", "add", "open"}
Open == {"loop", "read", "pong", "msg", "close"}

\* Something of the connection has been posted; its closing has been posted.
Posted(c) == seen[c] # <<>> \/ \E e \in failed : e.conn = c
Closed(c) == Failed(c, "close") \/ \E k \in 1 .. Len(seen[c]) : seen[c][k] = "close"

\* What waits in the channel continues what has been posted: the first event of a
\* connection is its opening, its closing is the last, and nothing follows it.
QueueInOrder ==
  \A i \in 1 .. Len(readQ) :
    LET c == readQ[i].conn IN
    /\ (readQ[i].action = "open")
         <=> (~Posted(c) /\ \A j \in 1 .. i - 1 : readQ[j].conn # c)
    /\ readQ[i].action = "close" => \A j \in i + 1 .. Len(readQ) : readQ[j].conn # c
    /\ ~Closed(c)

\* Nothing of a connection is known before it is opened, and something is known
\* after; ACTION_CLOSE is queued only by a goroutine that is about to end.
Told ==
  \A c \in Conns :
    /\ peer[c] = "no" => pc[c] = "none"
    /\ pc[c] \in Early => ~Posted(c) /\ \A i \in 1 .. Len(readQ) : readQ[i].conn # c
    /\ pc[c] \notin Early => Posted(c) \/ \E i \in 1 .. Len(readQ) : readQ[i].conn = c
    /\ pc[c] \in Open =>
         /\ ~Closed(c)
         /\ \A i \in 1 .. Len(readQ) : readQ[i].conn = c => readQ[i].action # "close"

\* What the app may still act on failed; of an opening or a closing it is the only
\* POST; and whatever failed, the app knows of an opening that did not.
Flown ==
  \A e \in Events :
    /\ flying[e] > 0 => e \in failed
    /\ e.action # "message" =>
         /\ flying[e] <= 1
         /\ flying[e] > 0 => \A k \in 1 .. Len(seen[e.conn]) : seen[e.conn][k] # e.action
    /\ e \in failed /\ ~Failed(e.conn, "open") => seen[e.conn] # <<>>

OrderInv == EventsInOrder /\ QueueInOrder /\ Told /\ Flown

\* A closing that has been posted is something that has been posted.
LEMMA ClosedIsPosted == ASSUME TypeOK, NEW c \in Conns, Closed(c) PROVE Posted(c)
<1>1. seen[c] \in Seq({"open", "message", "close"})
  BY DEF TypeOK
<1>2. CASE Failed(c, "close")
  BY <1>2 DEF Failed, Posted
<1>3. CASE \E k \in 1 .. Len(seen[c]) : seen[c][k] = "close"
  BY <1>1, <1>3 DEF Posted
<1> QED BY <1>2, <1>3 DEF Closed

\* Queueing an event of a connection at the place of its goroutine keeps the order.
LEMMA QueueKeepsOrder ==
  ASSUME TypeOK, OrderInv, NEW c \in Conns, NEW l \in PCs, NEW a,
         Goto(c, l), QueueRead(c, a),
         \/ pc[c] = "open" /\ l = "loop" /\ a = "open"
         \/ pc[c] = "msg" /\ l = "loop" /\ a = "message"
         \/ pc[c] = "close" /\ l = "leave" /\ a = "close"
  PROVE  OrderInv'
<1>0. /\ readQ \in Seq(Events) /\ seen \in [Conns -> Seq({"open", "message", "close"})]
      /\ pc \in [Conns -> PCs]
  BY DEF TypeOK, Events
<1> DEFINE n == Len(readQ)
           e == [conn |-> c, action |-> a]
<1>1. /\ Len(readQ') = n + 1 /\ readQ'[n + 1] = e /\ n \in Nat
      /\ \A i \in 1 .. n : readQ'[i] = readQ[i]
  BY <1>0 DEF QueueRead
<1>2. seen' = seen /\ failed' = failed /\ peer' = peer /\ pc'[c] = l
      /\ \A d \in Conns \ {c} : pc'[d] = pc[d]
  BY <1>0 DEF QueueRead, Goto
<1>p. \A d : (Posted(d)' <=> Posted(d)) /\ (Closed(d)' <=> Closed(d)) /\
             (Failed(d, "close")' <=> Failed(d, "close"))
  BY <1>2 DEF Posted, Closed, Failed
<1>3. EventsInOrder' /\ Flown'
  BY <1>2 DEF OrderInv, EventsInOrder, Flown, Failed, QueueRead
<1>4. Told'
  <2> SUFFICES ASSUME NEW d \in Conns PROVE Told!(d)'
    BY DEF Told
  <2>1. CASE d # c
    <3>1. pc'[d] = pc[d] /\ peer'[d] = peer[d] /\ seen'[d] = seen[d]
      BY <1>2, <2>1
    <3>2. (\E i \in 1 .. Len(readQ') : readQ'[i].conn = d)
            <=> (\E i \in 1 .. n : readQ[i].conn = d)
      BY <1>1, <2>1
    <3>3. \A i \in 1 .. Len(readQ') : readQ'[i].conn = d =>
             i \in 1 .. n /\ readQ'[i] = readQ[i]
      BY <1>1, <2>1
    <3> QED BY <1>p, <3>1, <3>2, <3>3 DEF OrderInv, Told
  <2>2. CASE d = c
    <3>1. pc'[c] \notin Early /\ readQ'[n + 1].conn = c /\ n + 1 \in 1 .. Len(readQ')
      BY <1>1, <1>2 DEF Early
    <3>2. peer'[c] # "no"
      BY <1>2 DEF OrderInv, Told
    <3>3. ASSUME pc'[c] \in Open
          PROVE  /\ ~Closed(c)'
                 /\ \A i \in 1 .. Len(readQ') :
                      readQ'[i].conn = c => readQ'[i].action # "close"
      <4>1. a # "close"
        BY <1>2, <3>3 DEF Open
      <4>2. ~Closed(c)
        BY ClosedIsPosted DEF OrderInv, Told, Open, Early
      <4>3. \A i \in 1 .. n : readQ[i].conn = c => readQ[i].action # "close"
        BY DEF OrderInv, Told, Open, Early
      <4>4. \A i \in 1 .. Len(readQ') : i = n + 1 \/ i \in 1 .. n
        BY <1>1
      <4> QED BY <1>1, <1>p, <4>1, <4>2, <4>3, <4>4
    <3> QED BY <2>2, <3>1, <3>2, <3>3
  <2> QED BY <2>1, <2>2
<1>5. QueueInOrder'
  <2> SUFFICES ASSUME NEW i \in 1 .. Len(readQ') PROVE QueueInOrder!(i)'
    BY DEF QueueInOrder
  <2>1. CASE i = n + 1
    <3>1. readQ'[i] = e
      BY <1>1, <2>1
    <3>2. (a = "open") <=> (~Posted(c) /\ \A j \in 1 .. n : readQ[j].conn # c)
      BY DEF OrderInv, Told, Early
    <3>3. \A j \in 1 .. i - 1 : j \in 1 .. n /\ readQ'[j] = readQ[j]
      BY <1>1, <2>1
    <3>4. \A j \in 1 .. n : j \in 1 .. i - 1 /\ readQ'[j] = readQ[j]
      BY <1>1, <2>1
    <3>5. (a = "open") <=> (~Posted(c) /\ \A j \in 1 .. i - 1 : readQ'[j].conn # c)
      BY <3>2, <3>3, <3>4
    <3>6. ~Closed(c)
      BY ClosedIsPosted DEF OrderInv, Told, Open, Early
    <3>7. \A j \in i + 1 .. Len(readQ') : FALSE
      BY <1>1, <2>1
    <3> QED BY <1>p, <3>1, <3>5, <3>6, <3>7
  <2>2. CASE i \in 1 .. n
    <3> DEFINE d == readQ[i].conn
    <3>1. readQ'[i] = readQ[i]
      BY <1>1, <2>2
    <3>2. \A j \in 1 .. i - 1 : readQ'[j] = readQ[j]
      BY <1>1, <2>2
    <3>3. ASSUME readQ[i].action = "close", NEW j \in i + 1 .. Len(readQ')
          PROVE  readQ'[j].conn # d
      <4>1. d # c
        BY <2>2, <3>3 DEF OrderInv, Told, Open, Early
      <4>2. CASE j \in i + 1 .. n
        BY <1>1, <2>2, <3>3, <4>2 DEF OrderInv, QueueInOrder
      <4>3. CASE j = n + 1
        BY <1>1, <4>1, <4>3
      <4> QED BY <1>1, <2>2, <4>2, <4>3
    <3>4. QueueInOrder!(i)
      BY <2>2 DEF OrderInv, QueueInOrder
    <3> QED BY <1>p, <3>1, <3>2, <3>3, <3>4
  <2> QED BY <1>1, <2>1, <2>2
<1> QED BY <1>3, <1>4, <1>5 DEF OrderInv

\* Telling the app of an event keeps the order: it is no opening or closing that was
\* told before, an opening is the first unless it failed, and no closing was told
\* before unless something failed.
LEMMA TellKeepsOrder ==
  ASSUME TypeOK, EventsInOrder, NEW e \in Events, Tell(e), failed' = failed,
         e.action # "message" =>
           \A k \in 1 .. Len(seen[e.conn]) : seen[e.conn][k] # e.action,
         ~Failed(e.conn, "open") => ((e.action = "open") <=> (seen[e.conn] = <<>>)),
         ~Failed(e.conn, "open") /\ ~Failed(e.conn, "message") =>
           \A k \in 1 .. Len(seen[e.conn]) : seen[e.conn][k] # "close"
  PROVE  EventsInOrder' /\ seen'[e.conn] # <<>>
<1> DEFINE c == e.conn
           a == e.action
           m == Len(seen[c])
<1>1. c \in Conns /\ a \in {"open", "message", "close"}
  BY DEF Events
<1>2. seen \in [Conns -> Seq({"open", "message", "close"})]
  BY DEF TypeOK
<1>3. seen[c] \in Seq({"open", "message", "close"}) /\ m \in Nat
  BY <1>1, <1>2
<1>4. seen'[c] = Append(seen[c], a) /\ \A d \in Conns \ {c} : seen'[d] = seen[d]
  BY <1>1, <1>2 DEF Tell
<1>5. /\ Len(seen'[c]) = m + 1 /\ seen'[c][m + 1] = a /\ seen'[c] # <<>>
      /\ \A k \in 1 .. m : seen'[c][k] = seen[c][k]
  BY <1>3, <1>4
<1>6. (m = 0) <=> (seen[c] = <<>>)
  BY <1>3
<1>7. \A d, x : Failed(d, x)' <=> Failed(d, x)
  BY DEF Failed
<1>8. \A k \in 1 .. Len(seen'[c]) : k = m + 1 \/ k \in 1 .. m
  BY <1>3, <1>5
<1>9. ASSUME NEW d \in Conns PROVE EventsInOrder!(d)'
  <2>1. CASE d # c
    BY <1>4, <1>7, <2>1 DEF EventsInOrder
  <2>2. CASE d = c
    <3>1. ASSUME NEW k \in 1 .. Len(seen'[c]), NEW l \in 1 .. Len(seen'[c]),
                 seen'[c][k] = seen'[c][l], seen'[c][k] # "message"
          PROVE  k = l
      <4>1. CASE k \in 1 .. m /\ l \in 1 .. m
        BY <1>1, <1>5, <3>1, <4>1 DEF EventsInOrder
      <4>2. CASE k = m + 1 /\ l \in 1 .. m
        BY <1>5, <3>1, <4>2
      <4>3. CASE l = m + 1 /\ k \in 1 .. m
        BY <1>5, <3>1, <4>3
      <4> QED BY <1>8, <4>1, <4>2, <4>3
    <3>2. ASSUME ~Failed(c, "open"), NEW k \in 1 .. Len(seen'[c])
          PROVE  (seen'[c][k] = "open") <=> (k = 1)
      <4>1. CASE k = m + 1
        BY <1>3, <1>5, <1>6, <3>2, <4>1
      <4>2. CASE k \in 1 .. m
        BY <1>1, <1>5, <3>2, <4>2 DEF EventsInOrder
      <4> QED BY <1>8, <4>1, <4>2
    <3>3. ASSUME ~Failed(c, "open"), ~Failed(c, "message"), NEW k \in 1 .. Len(seen'[c]),
                 seen'[c][k] = "close"
          PROVE  k = Len(seen'[c])
      BY <1>5, <1>8, <3>3
    <3> QED BY <1>7, <2>2, <3>1, <3>2, <3>3
  <2> QED BY <2>1, <2>2
<1>10. EventsInOrder'
  BY <1>9 DEF EventsInOrder
<1> QED BY <1>5, <1>10

\* Delivering the first event of the channel keeps the order.
LEMMA ReadKeepsOrder ==
  ASSUME TypeOK, OrderInv, RoutineRead
  PROVE  OrderInv'
<1>0. /\ readQ \in Seq(Events) /\ seen \in [Conns -> Seq({"open", "message", "close"})]
      /\ readQ # <<>>
  BY DEF TypeOK, Events, RoutineRead
<1> DEFINE n == Len(readQ)
<1>1. /\ n \in Nat /\ 1 \in 1 .. n /\ Len(readQ') = n - 1 /\ Head(readQ) = readQ[1]
      /\ \A i \in 1 .. n - 1 : readQ'[i] = readQ[i + 1]
  BY <1>0 DEF RoutineRead
<1>2. PICK c \in Conns, a \in {"open", "message", "close"} :
        readQ[1] = [conn |-> c, action |-> a]
  <2>1. readQ[1] \in Events
    BY <1>0, <1>1
  <2> QED BY <2>1 DEF Events
<1> DEFINE m == Len(seen[c])
<1>e. readQ[1] \in Events /\ readQ[1].conn = c /\ readQ[1].action = a
  BY <1>2 DEF Events
<1>3. peer' = peer /\ pc' = pc /\ ((Tell(readQ[1]) /\ UNCHANGED post_vars) \/ PostFails(readQ[1]))
  BY <1>1 DEF RoutineRead
<1>4. /\ (a = "open") <=> ~Posted(c)
      /\ a = "close" => \A j \in 2 .. n : readQ[j].conn # c
      /\ ~Closed(c)
  BY <1>1, <1>e DEF OrderInv, QueueInOrder
<1>5. seen[c] \in Seq({"open", "message", "close"}) /\ m \in Nat
  BY <1>0, <1>2
<1>6. \A x \in Events : flying[x] \in Nat
  BY BoundAssumption DEF TypeOK
<1>7. /\ \A x \in Events : x \in failed /\ x.conn = c => a # "open"
      /\ readQ[1] \in failed => a = "message"
  BY <1>2, <1>4 DEF Posted, Closed, Failed
<1>8. ~Failed(c, "open") => ((a = "open") <=> (seen[c] = <<>>))
  <2>1. ASSUME ~Failed(c, "open"), NEW x \in failed, x.conn = c PROVE seen[c] # <<>>
    BY <2>1 DEF OrderInv, Flown, TypeOK
  <2> QED BY <1>4, <2>1 DEF Posted
<1>9. /\ EventsInOrder' /\ Flown'
      /\ Posted(c)' /\ (Closed(c)' <=> a = "close")
      /\ \A d \in Conns \ {c} : (Posted(d)' <=> Posted(d)) /\ (Closed(d)' <=> Closed(d))
  <2>1. CASE Tell(readQ[1]) /\ UNCHANGED post_vars
    <3>1. EventsInOrder' /\ seen'[c] # <<>>
      <4>1. a # "message" => \A k \in 1 .. m : seen[c][k] # a
        BY <1>2, <1>4, <1>5 DEF Posted, Closed
      <4>2. \A k \in 1 .. m : seen[c][k] # "close"
        BY <1>4 DEF Closed
      <4> QED BY <1>8, <1>e, <2>1, <4>1, <4>2, TellKeepsOrder DEF OrderInv
    <3>2. seen'[c] = Append(seen[c], a) /\ \A d \in Conns \ {c} : seen'[d] = seen[d]
      BY <1>0, <1>e, <2>1 DEF Tell
    <3>3. /\ Len(seen'[c]) = m + 1 /\ seen'[c][m + 1] = a
          /\ \A k \in 1 .. m : seen'[c][k] = seen[c][k]
      BY <1>5, <3>2
    <3>k. \A k \in 1 .. m + 1 : k = m + 1 \/ k \in 1 .. m
      BY <1>5
    <3>f. m + 1 \in 1 .. m + 1 /\ \A d, x : Failed(d, x)' <=> Failed(d, x)
      BY <1>5, <2>1 DEF Failed
    <3>4. Closed(c)' <=> a = "close"
      BY <1>4, <3>3, <3>k, <3>f DEF Closed
    <3>5. \A d \in Conns \ {c} : (Posted(d)' <=> Posted(d)) /\ (Closed(d)' <=> Closed(d))
      BY <2>1, <3>2, <3>f DEF Posted, Closed
    <3>6. Flown'
      <4> SUFFICES ASSUME NEW x \in Events PROVE Flown!(x)'
        BY DEF Flown
      <4>1. CASE x.conn # c
        <5>1. x.conn \in Conns
          BY DEF Events
        <5> QED BY <2>1, <3>2, <3>f, <4>1, <5>1 DEF OrderInv, Flown
      <4>2. CASE x.conn = c
        <5>1. ASSUME flying[x] > 0, x.action # "message" PROVE x.action # a
          <6>1. x \in failed
            BY <5>1 DEF OrderInv, Flown
          <6>2. x.action = a => x = readQ[1]
            BY <1>2, <4>2 DEF Events
          <6> QED BY <1>7, <5>1, <6>1, <6>2
        <5>2. flying' = flying /\ failed' = failed
          BY <2>1
        <5> QED BY <3>1, <3>3, <3>k, <3>f, <4>2, <5>1, <5>2 DEF OrderInv, Flown
      <4> QED BY <4>1, <4>2
    <3> QED BY <3>1, <3>4, <3>5, <3>6 DEF Posted
  <2>2. CASE PostFails(readQ[1])
    <3>1. /\ seen' = seen /\ failed' = failed \cup {readQ[1]}
          /\ flying' = [flying EXCEPT ![readQ[1]] = @ + 1]
      BY <2>2 DEF PostFails
    <3>2. \A d, x : Failed(d, x)' <=> (Failed(d, x) \/ (d = c /\ x = a))
      BY <1>2, <3>1 DEF Failed
    <3>3. EventsInOrder'
      BY <3>1, <3>2 DEF OrderInv, EventsInOrder
    <3>4. Posted(c)' /\ (Closed(c)' <=> a = "close")
      BY <1>4, <1>e, <3>1, <3>2 DEF Posted, Closed
    <3>5. \A d \in Conns \ {c} : (Posted(d)' <=> Posted(d)) /\ (Closed(d)' <=> Closed(d))
      BY <1>e, <3>1, <3>2 DEF Posted, Closed
    <3>6. Flown'
      <4> SUFFICES ASSUME NEW x \in Events PROVE Flown!(x)'
        BY DEF Flown
      <4>t. flying \in [Events -> 0 .. MaxFails]
        BY DEF TypeOK
      <4>1. CASE x # readQ[1]
        <5>1. flying'[x] = flying[x] /\ (x \in failed' <=> x \in failed)
          BY <1>e, <3>1, <4>1, <4>t
        <5> QED BY <3>1, <3>2, <5>1 DEF OrderInv, Flown
      <4>2. CASE x = readQ[1]
        <5>1. flying'[x] = flying[x] + 1 /\ x \in failed' /\ x.conn = c /\ x.action = a
          BY <1>e, <3>1, <4>2, <4>t
        <5>2. ASSUME a # "message"
              PROVE  flying[x] = 0 /\ \A k \in 1 .. m : seen[c][k] # a
          <6>1. x \notin failed
            BY <1>7, <4>2, <5>2
          <6>2. flying[x] = 0
            BY <1>6, <6>1 DEF OrderInv, Flown
          <6> QED BY <1>2, <1>4, <1>5, <5>2, <6>2 DEF Posted, Closed
        <5>3. ASSUME ~Failed(c, "open")' PROVE seen'[c] # <<>>
          BY <1>8, <3>1, <3>2, <5>3
        <5> QED BY <3>1, <5>1, <5>2, <5>3
      <4> QED BY <4>1, <4>2
    <3> QED BY <3>3, <3>4, <3>5, <3>6
  <2> QED BY <1>3, <2>1, <2>2
<1>10. Told'
  <2> SUFFICES ASSUME NEW d \in Conns PROVE Told!(d)'
    BY DEF Told
  <2>0. \A i \in 1 .. Len(readQ') : i + 1 \in 1 .. n /\ readQ'[i] = readQ[i + 1]
    BY <1>1
  <2>1. CASE d # c
    <3>1. /\ pc'[d] = pc[d] /\ peer'[d] = peer[d]
          /\ (Posted(d)' <=> Posted(d)) /\ (Closed(d)' <=> Closed(d))
      BY <1>3, <1>9, <2>1
    <3>2. ASSUME NEW i \in 1 .. n, readQ[i].conn = d
          PROVE  \E j \in 1 .. Len(readQ') : readQ'[j].conn = d
      <4>1. i # 1 /\ i - 1 \in 1 .. Len(readQ') /\ readQ'[i - 1] = readQ[i]
        BY <1>1, <1>e, <2>1, <3>2
      <4> QED BY <3>2, <4>1
    <3> QED BY <2>0, <3>1, <3>2 DEF OrderInv, Told
  <2>2. CASE d = c
    <3>1. pc[c] \notin Early
      BY <1>1, <1>e DEF OrderInv, Told
    <3>2. peer[c] # "no"
      BY <1>2, <3>1 DEF OrderInv, Told, Early
    <3>3. ASSUME pc[c] \in Open PROVE a # "close"
      BY <1>1, <1>e, <3>3 DEF OrderInv, Told
    <3>5. ASSUME pc[c] \in Open, NEW i \in 1 .. Len(readQ'), readQ'[i].conn = c
          PROVE  readQ'[i].action # "close"
      BY <1>2, <2>0, <3>5 DEF OrderInv, Told
    <3> QED BY <1>3, <1>9, <2>2, <3>1, <3>2, <3>3, <3>5
  <2> QED BY <2>1, <2>2
<1>11. QueueInOrder'
  <2> SUFFICES ASSUME NEW i \in 1 .. Len(readQ') PROVE QueueInOrder!(i)'
    BY DEF QueueInOrder
  <2>1. i + 1 \in 1 .. n /\ readQ'[i] = readQ[i + 1] /\ i \in Nat /\ i >= 1
    BY <1>1
  <2>2. PICK d \in Conns : readQ'[i].conn = d
    <3>1. readQ[i + 1] \in Events
      BY <1>0, <2>1
    <3> QED BY <2>1, <3>1 DEF Events
  <2>3. QueueInOrder!(i + 1)
    BY <2>1 DEF OrderInv, QueueInOrder
  <2>4. \A j \in i + 1 .. Len(readQ') : j + 1 \in i + 2 .. n /\ readQ'[j] = readQ[j + 1]
    BY <1>1, <2>1
  <2>5. readQ'[i].action = "close" => \A j \in i + 1 .. Len(readQ') : readQ'[j].conn # d
    BY <2>1, <2>2, <2>3, <2>4
  <2>6. CASE d # c
    <3>1. (Posted(d)' <=> Posted(d)) /\ (Closed(d)' <=> Closed(d))
      BY <1>9, <2>2, <2>6
    <3>2. (\A j \in 1 .. i : readQ[j].conn # d) <=> (\A j \in 1 .. i - 1 : readQ'[j].conn # d)
      <4>1. \A j \in 1 .. i - 1 : j + 1 \in 1 .. i /\ readQ'[j] = readQ[j + 1]
        BY <1>1, <2>1
      <4>2. \A j \in 1 .. i : j = 1 \/ (j - 1 \in 1 .. i - 1 /\ readQ'[j - 1] = readQ[j])
        BY <1>1, <2>1
      <4>3. readQ[1].conn # d
        BY <1>e, <2>6
      <4>4. ASSUME \A j \in 1 .. i : readQ[j].conn # d, NEW j \in 1 .. i - 1
            PROVE  readQ'[j].conn # d
        BY <4>1, <4>4
      <4>5. ASSUME \A j \in 1 .. i - 1 : readQ'[j].conn # d, NEW j \in 1 .. i
            PROVE  readQ[j].conn # d
        BY <4>2, <4>3, <4>5
      <4> QED BY <4>4, <4>5
    <3>3. (i + 1) - 1 = i
      BY <2>1
    <3> QED BY <2>1, <2>2, <2>3, <2>5, <3>1, <3>2, <3>3
  <2>7. CASE d = c
    <3>1. readQ'[i].action # "open"
      <4>1. 1 \in 1 .. (i + 1) - 1
        BY <2>1
      <4> QED BY <1>e, <2>1, <2>2, <2>3, <2>7, <4>1
    <3>2. a # "close"
      BY <1>1, <1>4, <2>1, <2>2, <2>7
    <3> QED BY <1>9, <2>2, <2>5, <2>7, <3>1, <3>2
  <2> QED BY <2>6, <2>7
<1> QED BY <1>9, <1>10, <1>11 DEF OrderInv

\* An event the app is told late keeps the order: it failed, and nothing else did by
\* that.
LEMMA LateKeepsOrder ==
  ASSUME TypeOK, OrderInv, NEW e \in Events, ToldLate(e)
  PROVE  OrderInv'
<1> DEFINE c == e.conn
           a == e.action
           m == Len(seen[c])
<1>1. /\ flying[e] > 0 /\ flying' = [flying EXCEPT ![e] = @ - 1] /\ Tell(e)
      /\ UNCHANGED <<failed, peer, pc, readQ>>
  BY DEF ToldLate
<1>2. e \in failed /\ e = [conn |-> c, action |-> a] /\ c \in Conns
  BY <1>1 DEF OrderInv, Flown, Events
<1>3. Failed(c, a) /\ \A d, x : Failed(d, x)' <=> Failed(d, x)
  BY <1>1, <1>2 DEF Failed
<1>4. /\ a # "message" => flying[e] <= 1 /\ \A k \in 1 .. m : seen[c][k] # a
      /\ ~Failed(c, "open") => seen[c] # <<>>
  BY <1>1, <1>2 DEF OrderInv, Flown
<1>5. a \in {"open", "message", "close"}
  BY DEF Events
<1>6. EventsInOrder' /\ seen'[c] # <<>>
  <2>1. ~Failed(c, "open") => ((a = "open") <=> (seen[c] = <<>>))
    BY <1>3, <1>4
  <2>2. ~Failed(c, "open") /\ ~Failed(c, "message") => \A k \in 1 .. m : seen[c][k] # "close"
    BY <1>3, <1>4, <1>5
  <2> QED BY <1>1, <1>4, <2>1, <2>2, TellKeepsOrder DEF OrderInv
<1>7. seen[c] \in Seq({"open", "message", "close"}) /\ m \in Nat
  BY <1>2 DEF TypeOK
<1>8. seen'[c] = Append(seen[c], a) /\ \A d \in Conns \ {c} : seen'[d] = seen[d]
  <2>1. seen \in [Conns -> Seq({"open", "message", "close"})]
    BY DEF TypeOK
  <2> QED BY <1>1, <1>2, <2>1 DEF Tell
<1>9. /\ Len(seen'[c]) = m + 1 /\ seen'[c][m + 1] = a
      /\ \A k \in 1 .. m : seen'[c][k] = seen[c][k]
      /\ \A k \in 1 .. m + 1 : k = m + 1 \/ k \in 1 .. m
  BY <1>7, <1>8
<1>10. \A d \in Conns : (Posted(d)' <=> Posted(d)) /\ (Closed(d)' <=> Closed(d))
  <2>1. Posted(c) /\ Posted(c)'
    BY <1>1, <1>2 DEF Posted
  <2>2. Closed(c)' <=> Closed(c)
    <3>1. CASE a = "close"
      BY <1>3, <3>1 DEF Closed
    <3>2. CASE a # "close"
      <4>1. ASSUME NEW k \in 1 .. m, seen[c][k] = "close" PROVE Closed(c)'
        BY <1>7, <1>9, <4>1 DEF Closed
      <4>2. ASSUME NEW k \in 1 .. m + 1, seen'[c][k] = "close" PROVE Closed(c)
        BY <1>9, <3>2, <4>2 DEF Closed
      <4> QED BY <1>3, <1>9, <4>1, <4>2 DEF Closed
    <3> QED BY <3>1, <3>2
  <2>3. ASSUME NEW d \in Conns \ {c}
        PROVE  (Posted(d)' <=> Posted(d)) /\ (Closed(d)' <=> Closed(d))
    BY <1>1, <1>3, <1>8 DEF Posted, Closed
  <2> QED BY <2>1, <2>2, <2>3
<1>11. Told'
  BY <1>1, <1>10 DEF OrderInv, Told
<1>12. QueueInOrder'
  <2>1. \A i \in 1 .. Len(readQ) : readQ[i].conn \in Conns
    <3>1. readQ \in Seq(Events)
      BY DEF TypeOK
    <3>2. \A i \in 1 .. Len(readQ) : readQ[i] \in Events
      BY <3>1
    <3> QED BY <3>2 DEF Events
  <2>2. ASSUME NEW i \in 1 .. Len(readQ), NEW d \in Conns, readQ[i].conn = d
        PROVE  QueueInOrder!(i)'
    <3>1. QueueInOrder!(i) /\ readQ' = readQ
      BY <1>1 DEF OrderInv, QueueInOrder
    <3> QED BY <1>10, <2>2, <3>1
  <2> QED BY <1>1, <2>1, <2>2 DEF QueueInOrder
<1>13. Flown'
  <2> SUFFICES ASSUME NEW x \in Events PROVE Flown!(x)'
    BY DEF Flown
  <2>t. flying \in [Events -> 0 .. MaxFails] /\ \A y \in Events : flying[y] \in Nat
    BY BoundAssumption DEF TypeOK
  <2>c. x.conn \in Conns
    BY DEF Events
  <2>1. CASE x = e
    <3>1. flying'[x] = flying[x] - 1
      BY <1>1, <2>1, <2>t
    <3>2. x.action # "message" => flying'[x] = 0
      BY <1>1, <1>4, <2>1, <2>t, <3>1
    <3> QED BY <1>1, <1>2, <1>6, <2>1, <3>2
  <2>2. CASE x # e /\ x.conn = c
    <3>1. flying'[x] = flying[x] /\ x.action # a
      BY <1>1, <1>2, <2>2, <2>t DEF Events
    <3> QED BY <1>1, <1>3, <1>6, <1>9, <2>2, <3>1 DEF OrderInv, Flown
  <2>3. CASE x.conn # c
    <3>1. flying'[x] = flying[x] /\ seen'[x.conn] = seen[x.conn]
      BY <1>1, <1>8, <2>3, <2>c, <2>t
    <3> QED BY <1>1, <1>3, <2>3, <3>1 DEF OrderInv, Flown
  <2> QED BY <2>1, <2>2, <2>3
<1> QED BY <1>6, <1>11, <1>12, <1>13 DEF OrderInv

\* Every step keeps OrderInv.
LEMMA NextOrder == TypeOK /\ OrderInv /\ [Next]_vars => OrderInv'
<1> SUFFICES ASSUME TypeOK, OrderInv, [Next]_vars PROVE OrderInv'
  OBVIOUS
<1>0. pc \in [Conns -> PCs] /\ peer \in [Conns -> {"no", "up", "gone"}]
  BY DEF TypeOK
<1>1. ASSUME seen' = seen, UNCHANGED post_vars, readQ' = readQ,
             \A d \in Conns : /\ peer'[d] = "no" => peer[d] = "no" /\ pc'[d] = pc[d]
                              /\ pc'[d] \in Early <=> pc[d] \in Early
                              /\ pc'[d] \in Open => pc[d] \in Open
      PROVE  OrderInv'
  <2>1. EventsInOrder' /\ QueueInOrder' /\ Flown'
    BY <1>1 DEF OrderInv, EventsInOrder, QueueInOrder, Flown, Failed, Posted, Closed
  <2>2. Told'
    <3>1. \A d : (Posted(d)' <=> Posted(d)) /\ (Closed(d)' <=> Closed(d))
      BY <1>1 DEF Posted, Closed, Failed
    <3> QED BY <1>1, <3>1 DEF OrderInv, Told
  <2> QED BY <2>1, <2>2 DEF OrderInv
<1>2. ASSUME seen' = seen, UNCHANGED post_vars, readQ' = readQ, peer' = peer, pc' = pc PROVE OrderInv'
  BY <1>1, <1>2
<1>3. ASSUME NEW c \in Conns, NEW l \in PCs, Goto(c, l), seen' = seen, UNCHANGED post_vars, readQ' = readQ,
             \A d \in Conns : peer'[d] = "no" => peer[d] = "no", pc[c] # "none",
             pc[c] \in Early <=> l \in Early, l \in Open => pc[c] \in Open
      PROVE  OrderInv'
  <2>1. peer[c] # "no"
    BY <1>3 DEF OrderInv, Told
  <2>2. pc'[c] = l /\ \A d \in Conns \ {c} : pc'[d] = pc[d]
    BY <1>0, <1>3 DEF Goto
  <2> QED BY <1>1, <1>3, <2>1, <2>2
<1>4. ASSUME NEW c \in Conns, Connect(c) PROVE OrderInv'
  <2>1. pc[c] = "none"
    BY <1>4 DEF Connect, OrderInv, Told
  <2>2. \A d \in Conns : /\ peer'[d] = "no" => peer[d] = "no" /\ pc'[d] = pc[d]
                         /\ pc'[d] \in Early <=> pc[d] \in Early
                         /\ pc'[d] \in Open => pc[d] \in Open
    BY <1>0, <1>4, <2>1 DEF Connect, Early, Open
  <2> QED BY <1>1, <1>4, <2>2 DEF Connect
<1>5. ASSUME NEW c \in Conns, Disconnect(c) PROVE OrderInv'
  <2>1. \A d \in Conns : peer'[d] = "no" => peer[d] = "no"
    BY <1>0, <1>5 DEF Disconnect
  <2> QED BY <1>1, <1>5, <2>1 DEF Disconnect
<1>6. ASSUME NEW c \in Conns, Expire(c) PROVE OrderInv'
  BY <1>2, <1>6 DEF Expire
<1>7. ASSUME NEW c \in Conns, NEW kind \in {"pong", "msg"}, ReadMessage(c, kind)
      PROVE  OrderInv'
  BY <1>3, <1>7 DEF ReadMessage, Early, Open, PCs
<1>8. ASSUME NEW c \in Conns, Goroutine(c) PROVE OrderInv'
  <2>1. CASE NoticeConnected(c)
    BY <2>1, QueueKeepsOrder DEF NoticeConnected, PCs
  <2>2. CASE Message(c)
    BY <2>2, QueueKeepsOrder DEF Message, PCs
  <2>3. CASE NoticeClosed(c)
    BY <2>3, QueueKeepsOrder DEF NoticeClosed, PCs
  <2>4. CASE AddClient(c)
    BY <1>3, <2>4 DEF AddClient, Early, Open, PCs
  <2>5. CASE Cancelled(c)
    <3>1. \A d \in Conns : peer'[d] = "no" => peer[d] = "no"
      BY <1>0, <2>5 DEF Cancelled
    <3> QED BY <1>3, <2>5, <3>1 DEF Cancelled, Early, Open, PCs
  <2>6. CASE Default(c)
    BY <1>3, <2>6 DEF Default, Early, Open, PCs
  <2>7. CASE ReadFails(c)
    BY <1>3, <2>7 DEF ReadFails, Early, Open, PCs
  <2>8. CASE Pong(c)
    BY <1>3, <2>8 DEF Pong, Early, Open, PCs
  <2>9. CASE Leave(c)
    BY <1>3, <2>9 DEF Leave, Early, Open, PCs
  <2> QED BY <1>8, <2>1, <2>2, <2>3, <2>4, <2>5, <2>6, <2>7, <2>8, <2>9 DEF Goroutine
<1>9. ASSUME NEW t \in Targets, SendMessage(t) \/ CloseConnection(t) PROVE OrderInv'
  BY <1>2, <1>9 DEF SendMessage, CloseConnection
<1>10. CASE RoutineRead \/ \E e \in Events : ToldLate(e)
  BY <1>10, ReadKeepsOrder, LateKeepsOrder
<1>11. CASE WriteFilter \/ WriteSend \/ CloseFilter
  BY <1>2, <1>11 DEF WriteFilter, WriteSend, CloseFilter
<1>12. CASE CloseRemove \/ CheckExpired \/ QueueExpired
  BY <1>2, <1>12 DEF CloseRemove, CheckExpired, QueueExpired
<1>13. CASE UNCHANGED vars
  BY <1>2, <1>13 DEF vars
<1> QED
  BY <1>4, <1>5, <1>6, <1>7, <1>8, <1>9, <1>10, <1>11, <1>12, <1>13, Zenon DEF Next

\* The app is told of a connection its opening, its messages and at most one
\* closing, in this order and nothing after, for any number of connections that
\* share the channel; an event whose POST failed is missing or comes late
\* (WSGateway!EventsInOrder).
THEOREM EventsInOrderHolds == Spec => []EventsInOrder
<1>1. Init => OrderInv
  BY DEF Init, OrderInv, EventsInOrder, QueueInOrder, Told, Flown, Posted, Closed, Failed,
         Early, Open
<1>2. OrderInv => EventsInOrder
  BY DEF OrderInv
<1> QED BY <1>1, <1>2, TypeCorrect, NextOrder, PTL DEF Spec
=============================================================================
