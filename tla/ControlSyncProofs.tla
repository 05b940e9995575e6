--------------------------- MODULE ControlSyncProofs ---------------------------
(***************************************************************************)
(* What holds of ControlSync for every number of requests, connections and *)
(* commands, and whatever the flags are.                                   *)
(***************************************************************************)
EXTENDS ControlSync, FiniteSetTheorems, TLAPS

USE DEF Tasks, Links

-----------------------------------------------------------------------------
(* The iterations over rooms keep their types.                             *)

LEMMA RoomSize ==
    ASSUME TypeOK, NEW k \in {"device", "users"}
    PROVE  Cardinality(room[k]) \in Int
<1>1. IsFiniteSet(Sockets \union Watchers)
  BY SocketsFinite, WatchersFinite, FS_Union
<1>2. room[k] \in SUBSET (Sockets \union Watchers)
  BY DEF TypeOK
<1>3. IsFiniteSet(room[k])
  BY <1>1, <1>2, FS_Subset
<1>4. QED
  BY <1>3, FS_CardinalityType

LEMMA OverType ==
    ASSUME TypeOK, NEW k \in {"device", "users"}, NEW hit \in BOOLEAN
    PROVE  Over(k, hit) \in Iter
BY RoomSize DEF Over, Iter

LEMMA OrphanType ==
    ASSUME TypeOK, NEW k, NEW S
    PROVE  Orphan(k, S) \in [Tasks -> Iter]
<1>1. SUFFICES ASSUME NEW t \in Tasks PROVE Orphan(k, S)[t] \in Iter
  BY DEF Orphan
<1>2. iter[t] \in Iter
  BY DEF TypeOK
<1>3. [iter[t] EXCEPT !.size = Orphaned] \in Iter
  BY <1>2 DEF Iter, Orphaned
<1>4. QED
  BY <1>2, <1>3 DEF Orphan

LEMMA IdleIterType == IdleIter \in Iter
BY DEF IdleIter, Iter

LEMMA PhaseRoom == \A p \in Phases : RoomOf[p] \in {"device", "users"}
BY DEF Phases, RoomOf

\* What StartBroadcast leaves behind is well typed.
LEMMA StartType ==
    ASSUME TypeOK, NEW t \in Tasks, NEW phase \in Phases, NEW r \in Row,
           StartBroadcast(t, phase, r)
    PROVE  /\ loop' \in Tasks
           /\ pc' \in [Tasks -> Pcs]
           /\ snap' \in [Tasks -> Row \union {None}]
           /\ iter' \in [Tasks -> Iter]
<1>1. Over(RoomOf[phase], FALSE) \in Iter
  BY OverType, PhaseRoom
<1>2. phase \in Pcs
  BY DEF Phases, Pcs
<1>3. QED
  BY <1>1, <1>2 DEF StartBroadcast, TypeOK

LEMMA DeliverType ==
    ASSUME TypeOK, NEW x, NEW r \in Row, Deliver(x, r)
    PROVE  /\ inbox' \in [Links -> Seq(Row)]
           /\ view' \in [Watchers -> Row \union {None}]
BY DEF Deliver, TypeOK

\* The commit of an ack keeps the row a row.
LEMMA AckedType ==
    ASSUME NEW r \in Row, NEW v \in Nat
    PROVE  Acked(r, v) \in Row
BY DEF Acked, Row

LEMMA BumpType ==
    ASSUME NEW r \in Row, NEW c \in Controls
    PROVE  Bump(r, c) \in Row
BY DEF Bump, Row

\* What the two handlers that take acks on the loop have in common.
LEMMA OnLoop ==
    ASSUME TypeOK, NEW t \in Ackers, NEW a \in acks, AckOverHttp(t, a) \/ AckOverSocket(t, a)
    PROVE  /\ row' = Acked(row, a.ver) /\ row' \in Row
           /\ pc[t] = "ready" /\ Consume(a)
           /\ \E m \in Row : m \in {row', Report(row', a)} /\ StartBroadcast(t, "users", m)
           /\ src' \in [Tasks -> Sockets \union {None}]
           /\ UNCHANGED <<log, cut, paused, scheduled, netVars, devVars>>
<1>1. a.src \in AckSources /\ a.ver \in Nat /\ a.ctl \in Controls
  BY DEF TypeOK, Acks
<1>2. Acked(row, a.ver) \in Row
  BY <1>1, AckedType DEF TypeOK
<1>3. row' = Acked(row, a.ver) /\ pc[t] = "ready" /\ Consume(a)
  BY DEF AckOverHttp, AckOverSocket
<1>4. Report(row', a) \in Row
  BY <1>1, <1>2, <1>3 DEF Report, Row
<1>5. \E m \in {row', Report(row', a)} : StartBroadcast(t, "users", m)
  BY DEF AckOverHttp, AckOverSocket
<1>6. src' \in [Tasks -> Sockets \union {None}]
  BY DEF AckOverHttp, AckOverSocket, TypeOK
<1>7. UNCHANGED <<log, cut, paused, scheduled, netVars, devVars>>
  BY DEF AckOverHttp, AckOverSocket
<1>8. QED
  BY <1>2, <1>3, <1>4, <1>5, <1>6, <1>7

AckPcs == {"ready", "scheduled", "users"}

\* A handler that still has something to send holds a snapshot, and the
\* broadcasts waiting for the loop belong to different handlers.
Carrying ==
    /\ \A t \in Tasks : pc[t] \in Phases \union {"scheduled", "sleep", "publish"} => snap[t] # None
    /\ \A i \in 1..Len(scheduled) : pc[scheduled[i]] = "scheduled"
    /\ \A i, j \in 1..Len(scheduled) : scheduled[i] = scheduled[j] => i = j
    /\ \A t \in Ackers : pc[t] \in AckPcs

-----------------------------------------------------------------------------
(* Type correctness, one lemma per group of actions.                       *)

LEMMA TypeRequest ==
    ASSUME TypeOK, NEW t \in Requests, RequestStep(t)
    PROVE  TypeOK'
<1>1. row \in Row
  BY DEF TypeOK
<1>2. ASSUME NEW c \in Controls, PutControls(t, c) PROVE TypeOK'
  <2>1. row' \in Row
    BY <1>1, <1>2, BumpType DEF PutControls
  <2>2. log' \in Seq(Controls)
    BY <1>2 DEF PutControls, TypeOK
  <2>3. StartBroadcast(t, "device", row')
    BY <1>2 DEF PutControls
  <2>4. /\ loop' \in Tasks
        /\ pc' \in [Tasks -> Pcs]
        /\ snap' \in [Tasks -> Row \union {None}]
        /\ iter' \in [Tasks -> Iter]
    BY <2>1, <2>3, StartType DEF Phases
  <2>5. QED
    BY <1>2, <2>1, <2>2, <2>4 DEF PutControls, netVars, devVars, TypeOK
<1>3. CASE PutReset(t)
  <2>1. StartBroadcast(t, "device", row)
    BY <1>3 DEF PutReset
  <2>2. /\ loop' \in Tasks
        /\ pc' \in [Tasks -> Pcs]
        /\ snap' \in [Tasks -> Row \union {None}]
        /\ iter' \in [Tasks -> Iter]
    BY <1>1, <2>1, StartType DEF Phases
  <2>3. QED
    BY <1>3, <2>2 DEF PutReset, netVars, devVars, TypeOK
<1>4. CASE PutTracking(t)
  <2>1. snap' \in [Tasks -> Row \union {None}]
    BY <1>1, <1>4 DEF PutTracking, TypeOK
  <2>2. pc' \in [Tasks -> Pcs]
    BY <1>4 DEF PutTracking, TypeOK, Pcs
  <2>3. QED
    BY <1>4, <2>1, <2>2 DEF PutTracking, netVars, devVars, TypeOK
<1>5. QED
  BY <1>2, <1>3, <1>4 DEF RequestStep

LEMMA TypeSend ==
    ASSUME TypeOK, NEW t \in Tasks, NEW x \in Sockets \union Watchers, SendTo(t, x),
           snap[t] \in Row
    PROVE  TypeOK'
<1>1. iter' \in [Tasks -> Iter]
  <2>1. iter[t] \in Iter
    BY DEF TypeOK
  <2>2. /\ [iter[t] EXCEPT !.seen = @ \union {x}] \in Iter
        /\ [iter[t] EXCEPT !.seen = @ \union {x}, !.failed = @ \union {x}] \in Iter
    BY <2>1 DEF Iter
  <2>3. QED
    BY <2>2 DEF SendTo, TypeOK
<1>2. loop' \in Tasks \union {NoTask} /\ paused' \in BOOLEAN
  BY DEF SendTo, TypeOK
<1>3. /\ inbox' \in [Links -> Seq(Row)]
      /\ view' \in [Watchers -> Row \union {None}]
  BY DeliverType DEF SendTo, TypeOK
<1>4. QED
  BY <1>1, <1>2, <1>3 DEF SendTo, devVars, TypeOK

LEMMA TypeEnd ==
    ASSUME TypeOK, NEW t \in Tasks, EndBroadcast(t)
    PROVE  TypeOK'
<1> DEFINE k == RoomOf[pc[t]]
           rest == Survivors(t, k)
           hit == iter[t].hit \/ (pc[t] = "device" /\ iter[t].seen # iter[t].failed)
           next == IF pc[t] = "device" THEN Over("users", hit) ELSE IdleIter
<1>0. pc[t] \in Phases
  BY DEF EndBroadcast
<1>1. k \in {"device", "users"}
  BY <1>0, PhaseRoom
<1>2. room' = [room EXCEPT ![k] = rest]
  BY DEF EndBroadcast
<1>3. rest \in SUBSET (Sockets \union Watchers)
  BY <1>1 DEF Survivors, TypeOK
<1>4. room' \in [{"device", "users"} -> SUBSET (Sockets \union Watchers)]
  BY <1>1, <1>2, <1>3 DEF TypeOK
<1>5. next \in Iter
  <2>1. hit \in BOOLEAN
    BY DEF TypeOK, Iter
  <2>2. QED
    BY <2>1, OverType, IdleIterType
<1>6. iter' = [Orphan(k, rest) EXCEPT ![t] = next]
  BY DEF EndBroadcast
<1>7. iter' \in [Tasks -> Iter]
  <2> HIDE DEF k, rest, next
  <2> QED BY <1>5, <1>6, OrphanType
<1>8. After(t) \in Pcs
  BY DEF After, Pcs
<1>9. pc' \in [Tasks -> Pcs]
  BY <1>8 DEF EndBroadcast, TypeOK
<1>10. snap' \in [Tasks -> Row \union {None}]
  BY DEF EndBroadcast, TypeOK
<1>11. src' \in [Tasks -> Sockets \union {None}]
  BY DEF EndBroadcast, TypeOK
<1>12. loop' \in Tasks \union {NoTask}
  BY DEF EndBroadcast
<1> HIDE DEF k, rest, hit, next
<1>13. QED
  BY <1>4, <1>7, <1>9, <1>10, <1>11, <1>12 DEF EndBroadcast, devVars, TypeOK

LEMMA TypeAbort ==
    ASSUME TypeOK, Carrying, NEW t \in Tasks, AbortBroadcast(t)
    PROVE  TypeOK'
<1> DEFINE rest == Leave("device", src[t])
<1>1. rest \in SUBSET (Sockets \union Watchers)
  BY DEF Leave, TypeOK
<1>2. room' \in [{"device", "users"} -> SUBSET (Sockets \union Watchers)]
  BY <1>1 DEF AbortBroadcast, TypeOK
<1>3. iter' \in [Tasks -> Iter]
  <2>1. iter' = [Orphan("device", rest) EXCEPT ![t] = IdleIter]
    BY DEF AbortBroadcast
  <2> HIDE DEF rest
  <2>2. QED
    BY <2>1, OrphanType, IdleIterType
<1>4. pc' \in [Tasks -> Pcs]
  BY DEF AbortBroadcast, TypeOK, Pcs
<1>5. conn' \in [Sockets \union Watchers -> {"new", "open", "gone", "closed"}]
  BY DEF AbortBroadcast, TypeOK
<1>6. inbox' \in [Links -> Seq(Row)]
  BY DEF AbortBroadcast, TypeOK
<1>7. snap' \in [Tasks -> Row \union {None}] /\ src' \in [Tasks -> Sockets \union {None}]
  BY DEF AbortBroadcast, TypeOK
<1>8. acks' \in SUBSET Acks /\ attached' \in SUBSET Links
  BY DEF AbortBroadcast, TypeOK
<1>9. loop' \in Tasks \union {NoTask} /\ cut' \in SUBSET Nat
  <2>1. snap[t] \in Row
    BY DEF AbortBroadcast, Carrying, TypeOK
  <2>2. snap[t].ver \in Nat
    BY <2>1 DEF Row
  <2>3. QED
    BY <2>2 DEF AbortBroadcast, TypeOK
<1>10. QED
  BY <1>2, <1>3, <1>4, <1>5, <1>6, <1>7, <1>8, <1>9 DEF AbortBroadcast, devVars, TypeOK

LEMMA TypeTask ==
    ASSUME TypeOK, Carrying, NEW t \in Tasks, TaskStep(t)
    PROVE  TypeOK'
<1>1. ASSUME NEW x \in Sockets \union Watchers, SendTo(t, x) PROVE TypeOK'
  <2>1. snap[t] \in Row
    BY <1>1 DEF SendTo, Carrying, TypeOK
  <2>2. QED
    BY <1>1, <2>1, TypeSend
<1>2. CASE EndBroadcast(t)
  BY <1>2, TypeEnd
<1>3. CASE AbortBroadcast(t)
  BY <1>3, TypeAbort
<1>4. CASE SendDuplicate(t)
  <2>1. snap[t] \in Row /\ StartBroadcast(t, "again", snap[t])
    BY <1>4 DEF SendDuplicate, Carrying, TypeOK
  <2>2. /\ loop' \in Tasks
        /\ pc' \in [Tasks -> Pcs]
        /\ snap' \in [Tasks -> Row \union {None}]
        /\ iter' \in [Tasks -> Iter]
    BY <2>1, StartType DEF Phases
  <2>3. QED
    BY <1>4, <2>2 DEF SendDuplicate, netVars, devVars, TypeOK
<1>5. ASSUME Publish(t) \/ PublishFails(t)
      PROVE  pc' \in [Tasks -> Pcs] /\ snap' \in [Tasks -> Row \union {None}]
  BY <1>5 DEF Publish, PublishFails, TypeOK, Pcs
<1>6. CASE Publish(t)
  <2>1. snap[t] \in Row
    BY <1>6 DEF Publish, Carrying, TypeOK
  <2>2. /\ inbox' \in [Links -> Seq(Row)]
        /\ view' \in [Watchers -> Row \union {None}]
    BY <1>6, <2>1, DeliverType DEF Publish
  <2>3. QED
    BY <1>5, <1>6, <2>1, <2>2 DEF Publish, devVars, TypeOK
<1>7. CASE PublishFails(t)
  BY <1>5, <1>7 DEF PublishFails, netVars, devVars, TypeOK
<1>8. QED
  BY <1>1, <1>2, <1>3, <1>4, <1>6, <1>7 DEF TaskStep

LEMMA TypeAck ==
    ASSUME TypeOK, NEW t \in Ackers, NEW a \in acks, AckStep(t, a)
    PROVE  TypeOK'
<1>1. a.src \in AckSources /\ a.ver \in Nat
  BY DEF TypeOK, Acks
<1>2. Acked(row, a.ver) \in Row
  BY <1>1, AckedType DEF TypeOK
<1>3. Consume(a) => acks' \in SUBSET Acks
  BY DEF Consume, TypeOK
<1>4. CASE AckOverHttp(t, a) \/ AckOverSocket(t, a)
  <2>1. PICK m \in Row : StartBroadcast(t, "users", m)
    BY <1>4, OnLoop
  <2>2. /\ loop' \in Tasks
        /\ pc' \in [Tasks -> Pcs]
        /\ snap' \in [Tasks -> Row \union {None}]
        /\ iter' \in [Tasks -> Iter]
    BY <2>1, StartType DEF Phases
  <2>3. /\ row' \in Row /\ Consume(a) /\ src' \in [Tasks -> Sockets \union {None}]
        /\ UNCHANGED <<log, cut, paused, scheduled, netVars, devVars>>
    BY <1>4, OnLoop
  <2>4. QED
    BY <1>3, <2>2, <2>3 DEF netVars, devVars, TypeOK
<1>5. CASE AckOnThread(t, a)
  <2>1. row' \in Row
    BY <1>2, <1>5 DEF AckOnThread
  <2>2. snap' \in [Tasks -> Row \union {None}]
    BY <1>5, <2>1 DEF AckOnThread, TypeOK
  <2>3. pc' \in [Tasks -> Pcs]
    BY <1>5 DEF AckOnThread, TypeOK, Pcs
  <2>4. scheduled' \in Seq(Ackers)
    BY <1>5 DEF AckOnThread, TypeOK
  <2>5. QED
    BY <1>3, <1>5, <2>1, <2>2, <2>3, <2>4 DEF AckOnThread, netVars, devVars, TypeOK
<1>6. QED
  BY <1>4, <1>5 DEF AckStep

LEMMA TypeScheduled ==
    ASSUME TypeOK, Carrying, RunScheduled
    PROVE  TypeOK'
<1> DEFINE t == Head(scheduled)
<1>1. scheduled \in Seq(Ackers) /\ scheduled # <<>>
  BY DEF TypeOK, RunScheduled
<1>2. t \in Ackers /\ scheduled[1] = t /\ 1 \in 1..Len(scheduled)
  BY <1>1
<1>3. scheduled' \in Seq(Ackers)
  BY <1>1 DEF RunScheduled
<1>4. snap[t] \in Row
  <2>1. pc[t] = "scheduled"
    BY <1>2 DEF Carrying
  <2>2. QED
    BY <1>2, <2>1 DEF Carrying, TypeOK
<1>5. StartBroadcast(t, "users", snap[t])
  BY DEF RunScheduled
<1>6. /\ loop' \in Tasks
      /\ pc' \in [Tasks -> Pcs]
      /\ snap' \in [Tasks -> Row \union {None}]
      /\ iter' \in [Tasks -> Iter]
  <2> HIDE DEF t
  <2> QED BY <1>2, <1>4, <1>5, StartType DEF Phases
<1>7. QED
  BY <1>3, <1>6 DEF RunScheduled, netVars, devVars, TypeOK

LEMMA TypeNet ==
    ASSUME TypeOK, NetStep
    PROVE  TypeOK'
<1>1. ASSUME NEW s \in Sockets, DeviceConnect(s) PROVE TypeOK'
  <2>1. inbox' \in [Links -> Seq(Row)]
    BY <1>1 DEF DeviceConnect, TypeOK
  <2>2. QED
    BY <1>1, <2>1 DEF DeviceConnect, Await, devVars, TypeOK
<1>a. ASSUME NEW s \in Sockets, AcceptFails(s) \/ ReadWelcome(s) PROVE TypeOK'
  <2>1. CASE AcceptFails(s)
    BY <2>1 DEF AcceptFails, devVars, TypeOK
  <2>2. CASE ReadWelcome(s)
    <3>1. greet' \in [Sockets -> Row \union {None, Accepting}]
      BY <2>2 DEF ReadWelcome, Welcome, TypeOK
    <3>2. loop' = s \/ loop' = NoTask
      BY <2>2 DEF ReadWelcome, Await
    <3>3. QED
      BY <2>2, <3>1, <3>2 DEF ReadWelcome, devVars, TypeOK
  <2>3. QED
    BY <1>a, <2>1, <2>2
<1>b. ASSUME NEW s \in Sockets, SendWelcome(s) PROVE TypeOK'
  <2>1. greet[s] \in Row
    BY <1>b DEF SendWelcome, TypeOK
  <2>2. inbox' \in [Links -> Seq(Row)] /\ view' \in [Watchers -> Row \union {None}]
    BY <1>b, <2>1, DeliverType DEF SendWelcome
  <2>3. QED
    BY <1>b, <2>2 DEF SendWelcome, devVars, TypeOK
<1>2. ASSUME NEW w \in Watchers, UserConnect(w) PROVE TypeOK'
  BY <1>2 DEF UserConnect, serverVars, devVars, TypeOK
<1>3. ASSUME NEW x \in Sockets \union Watchers, PeerGone(x) PROVE TypeOK'
  <2>1. inbox' \in [Links -> Seq(Row)]
    BY <1>3 DEF PeerGone, TypeOK
  <2>2. QED
    BY <1>3, <2>1 DEF PeerGone, serverVars, devVars, TypeOK
<1>4. ASSUME NEW x \in Sockets \union Watchers, ServerNotices(x) PROVE TypeOK'
  <2> DEFINE k == IF x \in Sockets THEN "device" ELSE "users"
             rest == Leave(k, x)
  <2>1. k \in {"device", "users"} /\ rest \in SUBSET (Sockets \union Watchers)
    BY DEF Leave, TypeOK
  <2>2. room' = [room EXCEPT ![k] = rest] /\ iter' = Orphan(k, rest)
    BY <1>4 DEF ServerNotices
  <2>3. room' \in [{"device", "users"} -> SUBSET (Sockets \union Watchers)]
    BY <2>1, <2>2 DEF TypeOK
  <2>4. iter' \in [Tasks -> Iter]
    BY <2>2, OrphanType
  <2> HIDE DEF k, rest
  <2>5. QED
    BY <1>4, <2>3, <2>4 DEF ServerNotices, devVars, TypeOK
<1>5. CASE DeviceSubscribe
  <2>1. inbox' \in [Links -> Seq(Row)]
    BY <1>5 DEF DeviceSubscribe, TypeOK
  <2>2. QED
    BY <1>5, <2>1 DEF DeviceSubscribe, serverVars, devVars, TypeOK
<1>6. CASE DeviceOffline
  BY <1>6 DEF DeviceOffline, serverVars, devVars, TypeOK
<1>7. QED
  BY <1>1, <1>a, <1>b, <1>2, <1>3, <1>4, <1>5, <1>6 DEF NetStep, GreetStep

LEMMA TypeDevice ==
    ASSUME TypeOK, DeviceStep
    PROVE  TypeOK'
<1>1. ASSUME NEW r \in Row, Apply(r) PROVE dev' \in [ctl : Controls, ver : Nat] /\ actuated' \in SUBSET Nat
  BY <1>1 DEF Apply, TypeOK, Row
<1>2. ASSUME NEW l \in Links, DeviceReceive(l) PROVE TypeOK'
  <2>1. inbox[l] \in Seq(Row) /\ inbox[l] # <<>>
    BY <1>2 DEF DeviceReceive, TypeOK
  <2>2. Head(inbox[l]) \in Row /\ Tail(inbox[l]) \in Seq(Row)
    BY <2>1
  <2>3. dev' \in [ctl : Controls, ver : Nat] /\ actuated' \in SUBSET Nat
    BY <1>1, <1>2, <2>2 DEF DeviceReceive
  <2>4. inbox' \in [Links -> Seq(Row)]
    BY <1>2, <2>2 DEF DeviceReceive, TypeOK
  <2>5. QED
    BY <1>2, <2>3, <2>4 DEF DeviceReceive, serverVars, TypeOK
<1>3. CASE DevicePoll \/ PollAnswered \/ PollLost
  <2>1. CASE PollAnswered
    <3>1. dev' \in [ctl : Controls, ver : Nat] /\ actuated' \in SUBSET Nat
      BY <1>1, <2>1 DEF PollAnswered, TypeOK
    <3>2. QED
      BY <2>1, <3>1 DEF PollAnswered, serverVars, netVars, TypeOK
  <2>2. QED
    BY <1>3, <2>1 DEF DevicePoll, PollLost, serverVars, netVars, TypeOK
<1>4. ASSUME NEW s \in AckSources, DeviceAck(s) PROVE TypeOK'
  <2>1. acks' \in SUBSET Acks
    BY <1>4 DEF DeviceAck, TypeOK, Acks
  <2>2. QED
    BY <1>4, <2>1 DEF DeviceAck, serverVars, netVars, devVars, TypeOK
<1>5. QED
  BY <1>2, <1>3, <1>4 DEF DeviceStep

LEMMA TypeLose ==
    ASSUME TypeOK, NEW a \in acks, LoseAck(a)
    PROVE  TypeOK'
BY DEF LoseAck, serverVars, netVars, devVars, TypeOK

LEMMA TypeNext ==
    ASSUME TypeOK, Carrying, [Next]_vars
    PROVE  TypeOK'
<1>1. CASE UNCHANGED vars
  BY <1>1 DEF vars, TypeOK
<1>2. QED
  BY <1>1, TypeRequest, TypeTask, TypeAck, TypeScheduled, TypeNet, TypeDevice, TypeLose DEF Next

LEMMA TypeInit ==
    ASSUME Init
    PROVE  TypeOK
<1>1. PICK c \in Controls : row = [ctl |-> c, ver |-> 0, applied |-> 0] /\ log = <<c>>
  BY DEF Init
<1>2. row \in Row /\ log \in Seq(Controls) /\ dev \in [ctl : Controls, ver : Nat]
  BY <1>1 DEF Init, Row
<1>3. /\ pc \in [Tasks -> Pcs]
      /\ snap \in [Tasks -> Row \union {None}]
      /\ iter \in [Tasks -> Iter]
      /\ src \in [Tasks -> Sockets \union {None}]
      /\ scheduled \in Seq(Ackers)
  BY IdleIterType DEF Init, Pcs
<1>4. /\ room \in [{"device", "users"} -> SUBSET (Sockets \union Watchers)]
      /\ conn \in [Sockets \union Watchers -> {"new", "open", "gone", "closed"}]
      /\ greet \in [Sockets -> Row \union {None, Accepting}]
      /\ inbox \in [Links -> Seq(Row)]
      /\ view \in [Watchers -> Row \union {None}]
  BY DEF Init
<1>5. QED
  BY <1>2, <1>3, <1>4 DEF Init, TypeOK

-----------------------------------------------------------------------------
(* Handlers keep their snapshots until they have sent them.                *)

Busy == Phases \union {"scheduled", "sleep", "publish"}

\* One handler, not a waiting one, moves to p.
LEMMA CarryMove ==
    ASSUME TypeOK, Carrying, NEW t \in Tasks, NEW p,
           pc[t] # "scheduled",
           pc' = [pc EXCEPT ![t] = p],
           scheduled' = scheduled,
           p \in Busy => snap'[t] # None,
           t \in Ackers => p \in AckPcs,
           \A u \in Tasks \ {t} : snap'[u] = snap[u]
    PROVE  Carrying'
<1>1. ASSUME NEW u \in Tasks, pc'[u] \in Busy PROVE snap'[u] # None
  BY <1>1 DEF Carrying, Busy, TypeOK
<1>2. ASSUME NEW i \in 1..Len(scheduled) PROVE pc'[scheduled[i]] = "scheduled"
  BY <1>2 DEF Carrying, TypeOK
<1>3. ASSUME NEW u \in Ackers PROVE pc'[u] \in AckPcs
  BY <1>3 DEF Carrying, TypeOK
<1>4. QED
  BY <1>1, <1>2, <1>3 DEF Carrying, Busy

LEMMA CarrySame ==
    ASSUME Carrying, UNCHANGED <<pc, snap, scheduled>>
    PROVE  Carrying'
BY DEF Carrying

LEMMA CarryStart ==
    ASSUME TypeOK, Carrying, NEW t \in Tasks, NEW phase \in Phases, NEW r \in Row,
           pc[t] # "scheduled", StartBroadcast(t, phase, r), scheduled' = scheduled,
           t \in Ackers => phase = "users"
    PROVE  Carrying'
<1>1. pc' = [pc EXCEPT ![t] = phase] /\ snap' = [snap EXCEPT ![t] = r]
  BY DEF StartBroadcast
<1>2. snap'[t] # None /\ \A u \in Tasks \ {t} : snap'[u] = snap[u]
  BY <1>1, NoneIsNoRow DEF TypeOK
<1>3. QED
  BY <1>1, <1>2, CarryMove DEF AckPcs

LEMMA CarryTask ==
    ASSUME TypeOK, Carrying, NEW t \in Tasks, (t \in Requests /\ RequestStep(t)) \/ TaskStep(t)
    PROVE  Carrying'
<1>0. row \in Row
  BY DEF TypeOK
<1>a. t \in Ackers => pc[t] \in AckPcs /\ t \notin Requests
  BY TasksDistinct DEF Carrying
<1>1. ASSUME t \in Requests, NEW c \in Controls, PutControls(t, c) PROVE Carrying'
  <2>1. row' \in Row
    BY <1>0, <1>1, BumpType DEF PutControls
  <2>2. pc[t] # "scheduled" /\ StartBroadcast(t, "device", row') /\ scheduled' = scheduled
    BY <1>1 DEF PutControls
  <2>3. QED
    BY <1>a, <1>1, <2>1, <2>2, CarryStart DEF Phases
<1>2. CASE t \in Requests /\ PutReset(t)
  BY <1>0, <1>a, <1>2, CarryStart DEF PutReset, Phases
<1>3. CASE t \in Requests /\ PutTracking(t)
  <2>1. snap'[t] # None /\ \A u \in Tasks \ {t} : snap'[u] = snap[u]
    BY <1>0, <1>3, NoneIsNoRow DEF PutTracking, TypeOK
  <2>2. QED
    BY <1>a, <1>3, <2>1, CarryMove DEF PutTracking
<1>4. ASSUME NEW x \in Sockets \union Watchers, SendTo(t, x) PROVE Carrying'
  BY <1>4, CarrySame DEF SendTo
<1>5. CASE EndBroadcast(t)
  <2>1. pc[t] \in Phases /\ pc' = [pc EXCEPT ![t] = After(t)] /\ scheduled' = scheduled
    BY <1>5 DEF EndBroadcast
  <2>2. snap' = [snap EXCEPT ![t] = IF t \in Ackers THEN None ELSE @]
    BY <1>5 DEF EndBroadcast
  <2>3. \A u \in Tasks \ {t} : snap'[u] = snap[u]
    BY <2>2 DEF TypeOK
  <2>4. After(t) \in Busy => snap'[t] # None
    <3>1. snap[t] # None
      BY <2>1 DEF Carrying
    <3>2. CASE t \in Ackers
      BY <1>a, <2>1, <3>2 DEF After, AckPcs, Busy, Phases
    <3>3. CASE t \notin Ackers
      BY <2>2, <3>1, <3>3 DEF TypeOK
    <3>4. QED
      BY <3>2, <3>3
  <2>5. pc[t] # "scheduled"
    BY <2>1 DEF Phases
  <2>6. QED
    <3>1. t \in Ackers => After(t) \in AckPcs
      BY <1>a, <2>1 DEF After, AckPcs, Phases
    <3>2. QED
      BY <2>1, <2>3, <2>4, <2>5, <3>1, CarryMove
<1>6. CASE AbortBroadcast(t)
  <2>1. pc[t] # "scheduled"
    BY <1>6 DEF AbortBroadcast, Phases
  <2>2. \A u \in Tasks \ {t} : snap'[u] = snap[u]
    BY <1>6 DEF AbortBroadcast, TypeOK
  <2>3. QED
    BY <1>a, <1>6, <2>1, <2>2, CarryMove DEF AbortBroadcast, Busy, Phases, AckPcs
<1>7. CASE SendDuplicate(t)
  <2>1. snap[t] \in Row
    BY <1>7 DEF SendDuplicate, Carrying, TypeOK
  <2>2. t \notin Ackers
    BY <1>a, <1>7 DEF SendDuplicate, AckPcs
  <2>3. QED
    BY <1>7, <2>1, <2>2, CarryStart DEF SendDuplicate, Phases
<1>8. CASE Publish(t) \/ PublishFails(t)
  <2>1. /\ pc[t] = "publish" /\ pc' = [pc EXCEPT ![t] = "done"]
        /\ snap' = [snap EXCEPT ![t] = None] /\ scheduled' = scheduled
    BY <1>8 DEF Publish, PublishFails
  <2>2. \A u \in Tasks \ {t} : snap'[u] = snap[u]
    BY <2>1 DEF TypeOK
  <2>3. QED
    BY <1>a, <2>1, <2>2, CarryMove DEF Busy, Phases, AckPcs
<1>9. QED
  BY <1>1, <1>2, <1>3, <1>4, <1>5, <1>6, <1>7, <1>8 DEF RequestStep, TaskStep

LEMMA CarryAck ==
    ASSUME TypeOK, Carrying, NEW t \in Ackers, NEW a \in acks, AckStep(t, a)
    PROVE  Carrying'
<1>1. Acked(row, a.ver) \in Row
  BY AckedType DEF TypeOK, Acks
<1>2. CASE AckOverHttp(t, a) \/ AckOverSocket(t, a)
  <2>1. PICK m \in Row : StartBroadcast(t, "users", m)
    BY <1>2, OnLoop
  <2>2. pc[t] # "scheduled" /\ scheduled' = scheduled
    BY <1>2, OnLoop
  <2>3. QED
    BY <2>1, <2>2, CarryStart DEF Phases
<1>3. CASE AckOnThread(t, a)
  <2>1. /\ pc[t] = "ready"
        /\ pc' = [pc EXCEPT ![t] = "scheduled"]
        /\ scheduled' = Append(scheduled, t)
        /\ scheduled \in Seq(Ackers)
    BY <1>3 DEF AckOnThread, TypeOK
  <2>2. snap' = [snap EXCEPT ![t] = row'] /\ row' \in Row
    BY <1>1, <1>3 DEF AckOnThread
  <2>3. \A u \in Tasks : pc'[u] \in Busy => snap'[u] # None
    BY <2>1, <2>2, NoneIsNoRow DEF Carrying, Busy, TypeOK
  <2>4. ASSUME NEW i \in 1..Len(scheduled)
        PROVE  scheduled'[i] = scheduled[i] /\ scheduled[i] \in Ackers /\ scheduled[i] # t
    BY <2>1 DEF Carrying
  <2>5. Len(scheduled') = Len(scheduled) + 1 /\ scheduled'[Len(scheduled) + 1] = t
    BY <2>1
  <2>6. \A i \in 1..Len(scheduled') : pc'[scheduled'[i]] = "scheduled"
    <3>1. SUFFICES ASSUME NEW i \in 1..Len(scheduled') PROVE pc'[scheduled'[i]] = "scheduled"
      OBVIOUS
    <3>2. CASE i \in 1..Len(scheduled)
      BY <2>1, <2>4, <3>2 DEF Carrying, TypeOK
    <3>3. CASE i = Len(scheduled) + 1
      BY <2>1, <2>5, <3>3 DEF TypeOK
    <3>4. Len(scheduled) \in Nat
      BY <2>1
    <3>5. QED
      BY <2>5, <3>2, <3>3, <3>4
  <2>7. \A i, j \in 1..Len(scheduled') : scheduled'[i] = scheduled'[j] => i = j
    <3>1. Len(scheduled) \in Nat
      BY <2>1
    <3>2. QED
      BY <2>4, <2>5, <3>1 DEF Carrying
  <2>8. \A u \in Ackers : pc'[u] \in AckPcs
    BY <2>1 DEF Carrying, AckPcs, TypeOK
  <2>9. QED
    BY <2>3, <2>6, <2>7, <2>8 DEF Carrying, Busy
<1>4. QED
  BY <1>2, <1>3 DEF AckStep

LEMMA CarryScheduled ==
    ASSUME TypeOK, Carrying, RunScheduled
    PROVE  Carrying'
<1> DEFINE t == Head(scheduled)
<1>1. /\ scheduled \in Seq(Ackers) /\ scheduled # <<>>
      /\ scheduled' = Tail(scheduled)
  BY DEF TypeOK, RunScheduled
<1>2. t = scheduled[1] /\ t \in Ackers /\ 1 \in 1..Len(scheduled) /\ Len(scheduled) \in Nat
  BY <1>1
<1>3. Len(scheduled') = Len(scheduled) - 1
  BY <1>1
<1>4. \A i \in 1..Len(scheduled') : scheduled'[i] = scheduled[i + 1] /\ i + 1 \in 1..Len(scheduled)
  BY <1>1, <1>2
<1>5. pc' = [pc EXCEPT ![t] = "users"] /\ snap' = [snap EXCEPT ![t] = snap[t]]
  BY DEF RunScheduled, StartBroadcast
<1>6. snap' = snap
  BY <1>5 DEF TypeOK
<1> HIDE DEF t
<1>7. snap[t] # None
  BY <1>2 DEF Carrying
<1>8. \A u \in Tasks : pc'[u] \in Busy => snap'[u] # None
  BY <1>5, <1>6, <1>7 DEF Carrying, Busy, TypeOK
<1>9. \A i \in 1..Len(scheduled') : pc'[scheduled'[i]] = "scheduled"
  <2>1. SUFFICES ASSUME NEW i \in 1..Len(scheduled') PROVE pc'[scheduled'[i]] = "scheduled"
    OBVIOUS
  <2>2. scheduled'[i] = scheduled[i + 1] /\ i + 1 \in 1..Len(scheduled) /\ i + 1 # 1
    BY <1>4
  <2>3. scheduled[i + 1] # t /\ scheduled[i + 1] \in Ackers
    BY <1>1, <1>2, <2>2 DEF Carrying
  <2>4. QED
    BY <1>5, <2>2, <2>3 DEF Carrying, TypeOK
<1>10. \A i, j \in 1..Len(scheduled') : scheduled'[i] = scheduled'[j] => i = j
  BY <1>2, <1>3, <1>4 DEF Carrying
<1>11. \A u \in Ackers : pc'[u] \in AckPcs
  BY <1>5 DEF Carrying, AckPcs, TypeOK
<1>12. QED
  BY <1>8, <1>9, <1>10, <1>11 DEF Carrying, Busy

LEMMA CarryNext ==
    ASSUME TypeOK, Carrying, [Next]_vars
    PROVE  Carrying'
<1>1. CASE UNCHANGED vars
  BY <1>1, CarrySame DEF vars
<1>2. CASE NetStep
  <2>1. UNCHANGED <<pc, snap, scheduled>>
    BY <1>2 DEF NetStep, DeviceConnect, GreetStep, AcceptFails, ReadWelcome, SendWelcome,
                UserConnect, PeerGone, ServerNotices, DeviceSubscribe,
                DeviceOffline, serverVars
  <2>2. QED
    BY <2>1, CarrySame
<1>3. CASE DeviceStep \/ \E a \in acks : LoseAck(a)
  <2>1. UNCHANGED <<pc, snap, scheduled>>
    BY <1>3 DEF DeviceStep, DeviceReceive, DevicePoll, PollAnswered, PollLost, DeviceAck, LoseAck, serverVars
  <2>2. QED
    BY <2>1, CarrySame
<1>4. QED
  BY <1>1, <1>2, <1>3, CarryTask, CarryAck, CarryScheduled DEF Next

-----------------------------------------------------------------------------
(* Trackers and apps sit in different rooms.                               *)

Homes == room["users"] \subseteq Watchers

LEMMA HomesNext ==
    ASSUME TypeOK, Homes, [Next]_vars
    PROVE  Homes'
<1>1. ASSUME room'["users"] \subseteq room["users"] PROVE Homes'
  BY <1>1 DEF Homes
<1>2. ASSUME UNCHANGED room PROVE Homes'
  BY <1>1, <1>2
<1>3. CASE UNCHANGED vars
  BY <1>2, <1>3 DEF vars
<1>4. ASSUME NEW t \in Tasks, TaskStep(t) PROVE Homes'
  <2>1. CASE EndBroadcast(t)
    BY <1>1, <2>1 DEF EndBroadcast, Survivors, TypeOK
  <2>2. CASE AbortBroadcast(t)
    BY <1>1, <2>2 DEF AbortBroadcast, TypeOK
  <2>3. CASE ~EndBroadcast(t) /\ ~AbortBroadcast(t)
    BY <1>2, <1>4, <2>3 DEF TaskStep, SendTo, SendDuplicate, Publish, PublishFails, netVars
  <2>4. QED
    BY <2>1, <2>2, <2>3
<1>5. CASE NetStep
  <2>1. ASSUME NEW s \in Sockets, DeviceConnect(s) PROVE Homes'
    BY <1>1, <2>1 DEF DeviceConnect, TypeOK
  <2>2. ASSUME NEW w \in Watchers, UserConnect(w) PROVE Homes'
    BY <2>2 DEF UserConnect, TypeOK, Homes
  <2>3. ASSUME NEW x \in Sockets \union Watchers, ServerNotices(x) PROVE Homes'
    BY <1>1, <2>3 DEF ServerNotices, Leave, TypeOK
  <2>4. ASSUME \/ \E x \in Sockets \union Watchers : PeerGone(x)
               \/ \E s \in Sockets : GreetStep(s)
               \/ DeviceSubscribe \/ DeviceOffline
        PROVE  Homes'
    BY <1>2, <2>4 DEF PeerGone, GreetStep, AcceptFails, ReadWelcome, SendWelcome, DeviceSubscribe, DeviceOffline
  <2>5. QED
    BY <1>5, <2>1, <2>2, <2>3, <2>4 DEF NetStep
<1>6. CASE ~(UNCHANGED vars) /\ ~NetStep /\ ~\E t \in Tasks : TaskStep(t)
  BY <1>2, <1>6 DEF Next, RequestStep, PutControls, PutReset, PutTracking, AckStep, AckOverHttp,
        AckOverSocket, AckOnThread, RunScheduled, DeviceStep, DeviceReceive, DevicePoll,
        PollAnswered, PollLost, DeviceAck, LoseAck, netVars
<1>7. QED
  BY <1>3, <1>4, <1>5, <1>6

-----------------------------------------------------------------------------
(* The row, its history and the tracker.                                   *)

\* The history has one entry per revision, the tracker has acted only on
\* revisions that exist, and every confirmation on its way is of one it acted on.
Grounded ==
    /\ Len(log) = row.ver + 1
    /\ log[row.ver + 1] = row.ctl
    /\ actuated \subseteq 0..row.ver
    /\ row.applied \in actuated
    /\ dev.ver \in actuated /\ dev.ctl = log[dev.ver + 1]
    /\ \A a \in acks : a.ver \in actuated /\ a.ctl = log[a.ver + 1]

\* How one step changes the row and the histories.
Grows ==
    /\ row.ver <= row'.ver
    /\ row.applied <= row'.applied
    /\ row'.ver = row.ver => row'.ctl = row.ctl
    /\ actuated \subseteq actuated'
    /\ log' = log \/ \E c \in Controls : log' = Append(log, c)

\* Sound, Faithful and Reported, said of the state after the step.
SoundNext(r) ==
    /\ r.ver \in 0..row'.ver
    /\ r.applied \in actuated'
    /\ r.applied <= r.ver

FaithfulNext(r) == SoundNext(r) /\ r.ctl = log'[r.ver + 1]
ReportedNext(r) == SoundNext(r) /\ \E v \in actuated' \union {r.ver} : r.ctl = log'[v + 1]

\* Revisions are never renumbered.
LEMMA LogStable ==
    ASSUME TypeOK, Grounded, log' = log \/ \E c \in Controls : log' = Append(log, c),
           NEW v \in 0..row.ver
    PROVE  log'[v + 1] = log[v + 1]
<1>1. v + 1 \in 1..Len(log) /\ log \in Seq(Controls)
  BY DEF Grounded, TypeOK, Row
<1>2. QED
  BY <1>1

LEMMA SoundStable ==
    ASSUME TypeOK, TypeOK', Grows, NEW r \in Row, Sound(r)
    PROVE  SoundNext(r)
<1>1. r.ver \in Nat /\ row.ver \in Nat /\ row'.ver \in Nat
  BY DEF TypeOK, Row
<1>2. QED
  BY <1>1 DEF Sound, SoundNext, Grows

\* A faithful message stays faithful.
LEMMA FaithfulStable ==
    ASSUME TypeOK, TypeOK', Grounded, Grows, NEW r \in Row, Faithful(r)
    PROVE  FaithfulNext(r)
<1>1. r.ver \in 0..row.ver /\ Sound(r)
  BY DEF Faithful, Sound
<1>2. log'[r.ver + 1] = log[r.ver + 1]
  BY <1>1, LogStable DEF Grows
<1>3. QED
  BY <1>1, <1>2, SoundStable DEF Faithful, FaithfulNext

\* A rightly reported message stays so.
LEMMA ReportedStable ==
    ASSUME TypeOK, TypeOK', Grounded, Grows, NEW r \in Row, Reported(r)
    PROVE  ReportedNext(r)
<1>1. Sound(r)
  BY DEF Reported
<1>2. PICK v \in actuated \union {r.ver} : r.ctl = log[v + 1]
  BY DEF Reported
<1>3. v \in 0..row.ver /\ v \in actuated' \union {r.ver}
  BY <1>1 DEF Sound, Grounded, Grows
<1>4. log'[v + 1] = log[v + 1]
  BY <1>3, LogStable DEF Grows
<1>5. QED
  BY <1>1, <1>2, <1>3, <1>4, SoundStable DEF ReportedNext

LEMMA RowFaithful ==
    ASSUME TypeOK, Grounded
    PROVE  Faithful(row)
BY DEF TypeOK, Grounded, Faithful, Sound, Row

LEMMA RowFaithfulNext ==
    ASSUME TypeOK', Grounded'
    PROVE  FaithfulNext(row')
BY DEF TypeOK, Grounded, FaithfulNext, SoundNext, Row

\* Steps that leave row, history and tracker alone and add no ack.
LEMMA GroundedIdle ==
    ASSUME TypeOK, Grounded, UNCHANGED <<row, log, dev, actuated>>, acks' \subseteq acks
    PROVE  Grounded' /\ Grows
BY DEF Grounded, Grows, TypeOK, Row

\* The commit of an ack the tracker sent.
LEMMA GroundedAck ==
    ASSUME TypeOK, Grounded, NEW a \in acks, row' = Acked(row, a.ver),
           UNCHANGED <<log, dev, actuated>>, acks' \subseteq acks
    PROVE  Grounded' /\ Grows
<1>1. row \in Row /\ a.ver \in Nat
  BY DEF TypeOK, Acks
<1>2. row'.ver = row.ver /\ row'.ctl = row.ctl
  BY <1>1 DEF Acked, Row
<1>3. row'.applied \in {row.applied, a.ver} /\ row'.applied >= row.applied
  BY <1>1 DEF Acked, Row
<1>4. QED
  BY <1>1, <1>2, <1>3 DEF Grounded, Grows, Row

\* A new revision.
LEMMA GroundedBump ==
    ASSUME TypeOK, Grounded, NEW c \in Controls, row' = Bump(row, c), log' = Append(log, c),
           UNCHANGED <<dev, actuated, acks>>
    PROVE  Grounded' /\ Grows
<1>1. row \in Row /\ log \in Seq(Controls)
  BY DEF TypeOK
<1>2. row'.ver = row.ver + 1 /\ row'.ctl = c /\ row'.applied = row.applied /\ row.ver \in Nat
  BY <1>1 DEF Bump, Row
<1>3. Len(log') = Len(log) + 1 /\ log'[Len(log) + 1] = c
  BY <1>1
<1>4. Len(log') = row'.ver + 1 /\ log'[row'.ver + 1] = row'.ctl
  BY <1>2, <1>3 DEF Grounded
<1>5. actuated' \subseteq 0..row'.ver
  BY <1>2 DEF Grounded
<1>6. Grows
  BY <1>1, <1>2 DEF Grows, Row
<1>7. \A v \in actuated : log'[v + 1] = log[v + 1]
  BY <1>6, LogStable DEF Grounded, Grows
<1>8. QED
  BY <1>1, <1>2, <1>4, <1>5, <1>6, <1>7 DEF Grounded

\* The tracker acts on a faithful message.
LEMMA GroundedApply ==
    ASSUME TypeOK, Grounded, NEW r \in Row, Faithful(r), Apply(r), UNCHANGED <<row, log, acks>>
    PROVE  Grounded' /\ Grows
<1>1. r.ver \in 0..row.ver /\ actuated' = actuated \union {r.ver}
  BY DEF Faithful, Sound, Apply
<1>a. dev' = [ctl |-> r.ctl, ver |-> r.ver] /\ r.ctl = log[r.ver + 1]
  BY DEF Faithful, Apply
<1>2. actuated' \subseteq 0..row'.ver
  BY <1>1 DEF Grounded
<1>3. Grounded'
  BY <1>1, <1>a, <1>2 DEF Grounded
<1>4. Grows
  BY <1>1 DEF Grows, TypeOK, Row
<1>5. QED
  BY <1>3, <1>4

LEMMA GroundedNext ==
    ASSUME TypeOK, Grounded, NoTornCommand, [Next]_vars
    PROVE  Grounded' /\ Grows
<1>1. CASE UNCHANGED vars
  BY <1>1, GroundedIdle DEF vars
<1>2. ASSUME NEW t \in Requests, RequestStep(t) PROVE Grounded' /\ Grows
  <2>1. ASSUME NEW c \in Controls, PutControls(t, c) PROVE Grounded' /\ Grows
    BY <2>1, GroundedBump DEF PutControls, devVars
  <2>2. CASE PutReset(t) \/ PutTracking(t)
    BY <2>2, GroundedIdle DEF PutReset, PutTracking, devVars
  <2>3. QED
    BY <1>2, <2>1, <2>2 DEF RequestStep
<1>3. ASSUME NEW t \in Tasks, TaskStep(t) PROVE Grounded' /\ Grows
  BY <1>3, GroundedIdle DEF TaskStep, SendTo, EndBroadcast, AbortBroadcast, SendDuplicate, Publish,
                            PublishFails, devVars
<1>4. ASSUME NEW t \in Ackers, NEW a \in acks, AckStep(t, a) PROVE Grounded' /\ Grows
  <2>1. CASE AckOverHttp(t, a) \/ AckOverSocket(t, a)
    <3>1. row' = Acked(row, a.ver) /\ Consume(a) /\ UNCHANGED <<log, dev, actuated>>
      BY <2>1, OnLoop DEF devVars
    <3>2. QED
      BY <3>1, GroundedAck DEF Consume
  <2>2. CASE AckOnThread(t, a)
    BY <2>2, GroundedAck DEF AckOnThread, Consume, devVars
  <2>3. QED
    BY <1>4, <2>1, <2>2 DEF AckStep
<1>5. CASE RunScheduled
  BY <1>5, GroundedIdle DEF RunScheduled, devVars
<1>6. CASE NetStep
  BY <1>6, GroundedIdle DEF NetStep, DeviceConnect, GreetStep, AcceptFails, ReadWelcome, SendWelcome,
                            UserConnect, PeerGone, ServerNotices,
                            DeviceSubscribe, DeviceOffline, devVars
<1>7. CASE DeviceStep
  <2>1. ASSUME NEW l \in Links, DeviceReceive(l) PROVE Grounded' /\ Grows
    <3>1. inbox[l] \in Seq(Row) /\ inbox[l] # <<>> /\ Apply(Head(inbox[l]))
      BY <2>1 DEF DeviceReceive, TypeOK
    <3>2. Head(inbox[l]) = inbox[l][1] /\ 1 \in 1..Len(inbox[l]) /\ Head(inbox[l]) \in Row
      BY <3>1
    <3>3. Faithful(Head(inbox[l]))
      BY <3>2 DEF NoTornCommand
    <3>4. QED
      BY <2>1, <3>1, <3>2, <3>3, GroundedApply DEF DeviceReceive
  <2>2. CASE PollAnswered
    BY <2>2, GroundedApply DEF PollAnswered, NoTornCommand, TypeOK
  <2>a. CASE DevicePoll \/ PollLost
    BY <2>a, GroundedIdle DEF DevicePoll, PollLost
  <2>3. ASSUME NEW s \in AckSources, DeviceAck(s) PROVE Grounded' /\ Grows
    <3>1. \A a \in acks' : a \in acks \/ (a.ver = dev.ver /\ a.ctl = dev.ctl)
      BY <2>3 DEF DeviceAck
    <3>2. QED
      BY <2>3, <3>1 DEF DeviceAck, Grounded, Grows, devVars, TypeOK, Row
  <2>4. QED
    BY <1>7, <2>1, <2>2, <2>a, <2>3 DEF DeviceStep
<1>8. ASSUME NEW a \in acks, LoseAck(a) PROVE Grounded' /\ Grows
  BY <1>8, GroundedIdle DEF LoseAck, devVars
<1>9. QED
  BY <1>1, <1>2, <1>3, <1>4, <1>5, <1>6, <1>7, <1>8 DEF Next

-----------------------------------------------------------------------------
(* No step makes up a message.                                             *)

\* m was on its way to the tracker before the step, or is the row after it.
Command(m) ==
    \/ m \in {row', retained, answer, None}
    \/ \E s \in Sockets : greet[s] # Accepting /\ m = greet[s]
    \/ \E t \in Requests : m = snap[t]
    \/ \E l \in Links : \E i \in 1..Len(inbox[l]) : m = inbox[l][i]

\* m was on its way to an app, or forwards an ack.
Notice(m) ==
    \/ Command(m)
    \/ \E t \in Ackers : m = snap[t]
    \/ \E w \in Watchers : m = view[w]
    \/ \E a \in acks : m = Report(row', a)

SnapsCopied  == (\A t \in Requests : Command(snap'[t])) /\ (\A t \in Ackers : Notice(snap'[t]))
InboxCopied  == \A l \in Links : \A i \in 1..Len(inbox'[l]) : Command(inbox'[l][i])
ViewsCopied  == \A w \in Watchers : Notice(view'[w])
GreetsCopied == \A s \in Sockets : greet'[s] # Accepting => Command(greet'[s])
OnlyCopies   == /\ SnapsCopied /\ InboxCopied /\ ViewsCopied /\ GreetsCopied
                /\ Command(retained') /\ Command(answer')

LEMMA CopiesSame ==
    /\ Command(row') /\ Command(None) /\ Command(retained) /\ Command(answer)
    /\ \A s \in Sockets : greet[s] # Accepting => Command(greet[s])
    /\ \A t \in Requests : Command(snap[t])
    /\ \A t \in Ackers : Notice(snap[t])
    /\ \A w \in Watchers : Notice(view[w])
    /\ \A l \in Links : \A i \in 1..Len(inbox[l]) : Command(inbox[l][i])
    /\ \A m : Command(m) => Notice(m)
BY DEF Command, Notice

\* What a step leaves alone is copied.
LEMMA Unmoved ==
    /\ snap' = snap => SnapsCopied
    /\ inbox' = inbox => InboxCopied
    /\ view' = view => ViewsCopied
    /\ greet' = greet => GreetsCopied
    /\ retained' = retained => Command(retained')
    /\ answer' = answer => Command(answer')
BY CopiesSame DEF SnapsCopied, InboxCopied, ViewsCopied, GreetsCopied

\* One handler's snapshot becomes m.
LEMMA CopiesSnap ==
    ASSUME TypeOK, NEW t \in Tasks, NEW m, snap' = [snap EXCEPT ![t] = m],
           t \in Requests => Command(m), Notice(m)
    PROVE  SnapsCopied
<1>1. \A u \in Tasks : snap'[u] = snap[u] \/ (u = t /\ snap'[u] = m)
  BY DEF TypeOK
<1>2. QED
  BY <1>1, CopiesSame DEF SnapsCopied

LEMMA CopiesDeliver ==
    ASSUME TypeOK, NEW x, NEW r \in Row, Notice(r), x \in Links => Command(r), Deliver(x, r)
    PROVE  InboxCopied /\ ViewsCopied
<1>1. \A w \in Watchers : view'[w] = view[w] \/ view'[w] = r
  BY DEF Deliver, TypeOK
<1>2. ASSUME NEW l \in Links, NEW i \in 1..Len(inbox'[l])
      PROVE  Command(inbox'[l][i])
  <2>1. CASE inbox'[l] = inbox[l]
    BY <2>1, CopiesSame
  <2>2. CASE inbox'[l] # inbox[l]
    <3>1. inbox'[l] = Append(inbox[l], r) /\ inbox[l] \in Seq(Row) /\ x = l
      BY <2>2 DEF Deliver, TypeOK
    <3>2. (i \in 1..Len(inbox[l]) /\ inbox'[l][i] = inbox[l][i]) \/ inbox'[l][i] = r
      BY <3>1
    <3>3. QED
      BY <3>1, <3>2, CopiesSame
  <2>3. QED
    BY <2>1, <2>2
<1>3. QED
  BY <1>1, <1>2, CopiesSame DEF InboxCopied, ViewsCopied

\* A channel that is emptied, or that keeps what it had, holds only copies.
LEMMA CopiesShrink ==
    ASSUME TypeOK, \A l \in Links : inbox'[l] = inbox[l] \/ inbox'[l] = <<>>
    PROVE  InboxCopied
BY CopiesSame DEF InboxCopied

\* A step that starts a broadcast of m and moves no message.
LEMMA CopiesStarted ==
    ASSUME TypeOK, NEW t \in Tasks, NEW phase, NEW m, StartBroadcast(t, phase, m),
           t \in Requests => Command(m), Notice(m), UNCHANGED <<inbox, retained, view, greet, answer>>
    PROVE  OnlyCopies
BY CopiesSnap, Unmoved DEF OnlyCopies, StartBroadcast

LEMMA CopiesRequest ==
    ASSUME TypeOK, NEW t \in Requests, RequestStep(t)
    PROVE  OnlyCopies
<1>1. ASSUME NEW c \in Controls, PutControls(t, c) PROVE OnlyCopies
  BY <1>1, CopiesSame, CopiesStarted DEF PutControls, netVars, devVars
<1>2. CASE PutReset(t)
  <2>1. StartBroadcast(t, "device", row') /\ UNCHANGED <<inbox, retained, view, greet, answer>>
    BY <1>2 DEF PutReset, netVars, devVars
  <2>2. QED
    BY <2>1, CopiesSame, CopiesStarted
<1>3. CASE PutTracking(t)
  <2>1. snap' = [snap EXCEPT ![t] = row'] /\ UNCHANGED <<inbox, retained, view, greet, answer>>
    BY <1>3 DEF PutTracking, netVars, devVars
  <2>2. QED
    BY <2>1, CopiesSame, CopiesSnap, Unmoved DEF OnlyCopies
<1>4. QED
  BY <1>1, <1>2, <1>3 DEF RequestStep

LEMMA CopiesTask ==
    ASSUME TypeOK, Carrying, Homes, NEW t \in Tasks, TaskStep(t)
    PROVE  OnlyCopies
<1>1. pc[t] \in Busy => snap[t] \in Row
  <2>1. pc[t] \in Busy => snap[t] # None
    BY DEF Carrying, Busy
  <2>2. snap[t] \in Row \union {None}
    BY DEF TypeOK
  <2>3. QED
    BY <2>1, <2>2
<1>a. Notice(snap[t]) /\ (t \in Requests => Command(snap[t]))
  BY CopiesSame
<1>b. ASSUME snap' = [snap EXCEPT ![t] = None] \/ snap' = snap
      PROVE  SnapsCopied
  BY <1>b, CopiesSame, CopiesSnap, Unmoved
<1>2. ASSUME NEW x \in Sockets \union Watchers, SendTo(t, x) PROVE OnlyCopies
  <2>1. snap[t] \in Row /\ UNCHANGED <<snap, retained, greet, answer>>
    BY <1>1, <1>2 DEF SendTo, Busy, devVars
  <2>2. Deliver(x, snap[t]) \/ UNCHANGED <<inbox, view>>
    BY <1>2 DEF SendTo
  <2>3. t \in Ackers => x \notin Links
    <3>1. SUFFICES ASSUME t \in Ackers PROVE x \notin Links
      OBVIOUS
    <3>2. pc[t] = "users"
      BY <1>2, <3>1 DEF SendTo, Carrying, AckPcs, Phases
    <3>3. x \in room["users"]
      BY <1>2, <3>2 DEF SendTo, RoomOf, Phases
    <3>4. QED
      BY <3>3, ConnsDistinct, BrokerDistinct DEF Homes
  <2>4. QED
    BY <1>a, <2>1, <2>2, <2>3, CopiesDeliver, Unmoved DEF OnlyCopies
<1>3. CASE EndBroadcast(t)
  <2>1. snap' = [snap EXCEPT ![t] = None] \/ snap' = snap
    BY <1>3 DEF EndBroadcast, TypeOK
  <2>2. UNCHANGED <<inbox, retained, view, greet, answer>>
    BY <1>3 DEF EndBroadcast, devVars
  <2>3. QED
    BY <1>b, <2>1, <2>2, Unmoved DEF OnlyCopies
<1>4. CASE AbortBroadcast(t)
  <2>1. \A l \in Links : inbox'[l] = inbox[l] \/ inbox'[l] = <<>>
    BY <1>4 DEF AbortBroadcast
  <2>2. snap' = [snap EXCEPT ![t] = None] /\ UNCHANGED <<retained, view, greet, answer>>
    BY <1>4 DEF AbortBroadcast, devVars
  <2>3. QED
    BY <1>b, <2>1, <2>2, CopiesShrink, Unmoved DEF OnlyCopies
<1>5. CASE SendDuplicate(t)
  BY <1>5, <1>a, CopiesStarted DEF SendDuplicate, netVars, devVars
<1>6. CASE Publish(t)
  <2>1. /\ snap[t] \in Row /\ retained' = snap[t] /\ Deliver(Broker, snap[t])
        /\ snap' = [snap EXCEPT ![t] = None] /\ UNCHANGED <<greet, answer>>
    BY <1>1, <1>6 DEF Publish, Busy, devVars
  <2>2. t \in Requests
    BY <1>6 DEF Publish, Carrying, AckPcs
  <2>3. QED
    BY <1>a, <1>b, <2>1, <2>2, CopiesDeliver, Unmoved DEF OnlyCopies
<1>7. CASE PublishFails(t)
  BY <1>7, <1>b, Unmoved DEF OnlyCopies, PublishFails, netVars, devVars
<1>8. QED
  BY <1>2, <1>3, <1>4, <1>5, <1>6, <1>7 DEF TaskStep

LEMMA CopiesAck ==
    ASSUME TypeOK, NEW t \in Ackers, NEW a \in acks, AckStep(t, a)
    PROVE  OnlyCopies
<1>0. t \notin Requests
  BY TasksDistinct
<1>1. CASE AckOverHttp(t, a) \/ AckOverSocket(t, a)
  <2>1. PICK m \in {row', Report(row', a)} : StartBroadcast(t, "users", m)
    BY <1>1, OnLoop
  <2>2. Notice(m)
    BY <2>1 DEF Notice, Command
  <2>3. UNCHANGED <<inbox, retained, view, greet, answer>>
    BY <1>1, OnLoop DEF netVars, devVars
  <2>4. QED
    BY <1>0, <2>1, <2>2, <2>3, CopiesStarted
<1>2. CASE AckOnThread(t, a)
  <2>1. snap' = [snap EXCEPT ![t] = row'] /\ UNCHANGED <<inbox, retained, view, greet, answer>>
    BY <1>2 DEF AckOnThread, netVars, devVars
  <2>2. QED
    BY <2>1, CopiesSame, CopiesSnap, Unmoved DEF OnlyCopies
<1>3. QED
  BY <1>1, <1>2 DEF AckStep

LEMMA CopiesNet ==
    ASSUME TypeOK, NetStep
    PROVE  OnlyCopies
<1>0. UNCHANGED <<snap, retained, answer>>
  BY DEF NetStep, DeviceConnect, GreetStep, AcceptFails, ReadWelcome, SendWelcome, UserConnect, PeerGone,
         ServerNotices, DeviceSubscribe, DeviceOffline, serverVars, devVars
<1>1. SUFFICES InboxCopied /\ ViewsCopied /\ GreetsCopied
  BY <1>0, Unmoved DEF OnlyCopies
<1>2. ASSUME NEW s \in Sockets, DeviceConnect(s) \/ AcceptFails(s)
      PROVE  InboxCopied /\ ViewsCopied /\ GreetsCopied
  <2>1. view' = view /\ \A l \in Links : inbox'[l] = inbox[l] \/ inbox'[l] = <<>>
    BY <1>2 DEF DeviceConnect, AcceptFails, TypeOK
  <2>2. \A u \in Sockets : greet'[u] \in {greet[u], Accepting, None}
    BY <1>2 DEF DeviceConnect, AcceptFails, TypeOK
  <2>3. QED
    BY <2>1, <2>2, CopiesSame, CopiesShrink, Unmoved DEF GreetsCopied
<1>a. ASSUME NEW s \in Sockets, ReadWelcome(s) PROVE InboxCopied /\ ViewsCopied /\ GreetsCopied
  <2>1. UNCHANGED <<inbox, view>> /\ \A u \in Sockets : greet'[u] \in {greet[u], row'}
    BY <1>a DEF ReadWelcome, Welcome, TypeOK
  <2>2. QED
    BY <2>1, CopiesSame, Unmoved DEF GreetsCopied
<1>b. ASSUME NEW s \in Sockets, SendWelcome(s) PROVE InboxCopied /\ ViewsCopied /\ GreetsCopied
  <2>1. greet[s] \in Row /\ greet[s] # Accepting /\ Deliver(s, greet[s])
    BY <1>b DEF SendWelcome, TypeOK
  <2>2. \A u \in Sockets : greet'[u] \in {greet[u], None}
    BY <1>b DEF SendWelcome, TypeOK
  <2>3. QED
    BY <2>1, <2>2, CopiesSame, CopiesDeliver DEF GreetsCopied
<1>3. CASE DeviceSubscribe
  <2>1. UNCHANGED <<view, greet>> /\ \A l \in Links : inbox'[l] \in {inbox[l], <<>>, <<retained>>}
    BY <1>3 DEF DeviceSubscribe, TypeOK
  <2>2. QED
    BY <2>1, CopiesSame, Unmoved DEF InboxCopied
<1>4. ASSUME \/ DeviceOffline \/ \E w \in Watchers : UserConnect(w)
             \/ \E x \in Sockets \union Watchers : PeerGone(x) \/ ServerNotices(x)
      PROVE  InboxCopied /\ ViewsCopied /\ GreetsCopied
  <2>1. UNCHANGED <<view, greet>> /\ \A l \in Links : inbox'[l] = inbox[l] \/ inbox'[l] = <<>>
    BY <1>4 DEF DeviceOffline, UserConnect, PeerGone, ServerNotices, TypeOK
  <2>2. QED
    BY <2>1, CopiesShrink, Unmoved
<1>5. QED
  BY <1>2, <1>a, <1>b, <1>3, <1>4 DEF NetStep, GreetStep

\* No step of the system makes up a message.
LEMMA CopiesNext ==
    ASSUME TypeOK, Carrying, Homes, [Next]_vars
    PROVE  OnlyCopies
<1>1. CASE UNCHANGED vars
  BY <1>1, Unmoved DEF vars, OnlyCopies
<1>2. CASE RunScheduled
  <2>1. Head(scheduled) \in Ackers
    BY <1>2 DEF RunScheduled, TypeOK
  <2>2. QED
    BY <1>2, <2>1, TasksDistinct, CopiesSame, CopiesStarted DEF RunScheduled, netVars, devVars
<1>3. CASE DeviceStep
  <2>1. ASSUME NEW l \in Links, DeviceReceive(l) PROVE OnlyCopies
    <3>1. inbox' = [inbox EXCEPT ![l] = Tail(@)] /\ UNCHANGED <<snap, retained, view, greet, answer>>
      BY <2>1 DEF DeviceReceive, serverVars
    <3>2. ASSUME NEW k \in Links, NEW i \in 1..Len(inbox'[k]) PROVE Command(inbox'[k][i])
      <4>1. CASE k = l
        <5>1. inbox'[l] = Tail(inbox[l]) /\ inbox[l] \in Seq(Row) /\ inbox[l] # <<>>
          BY <2>1, <3>1 DEF DeviceReceive, TypeOK
        <5>2. inbox'[l][i] = inbox[l][i + 1] /\ i + 1 \in 1..Len(inbox[l])
          BY <4>1, <5>1
        <5>3. QED
          BY <4>1, <5>2, CopiesSame
      <4>2. CASE k # l
        BY <3>1, <4>2, CopiesSame DEF TypeOK
      <4>3. QED
        BY <4>1, <4>2
    <3>3. QED
      BY <3>1, <3>2, Unmoved DEF OnlyCopies, InboxCopied
  <2>2. CASE DevicePoll \/ PollAnswered \/ PollLost \/ \E s \in AckSources : DeviceAck(s)
    <3>1. UNCHANGED <<snap, inbox, view, greet, retained>> /\ answer' \in {row', answer, None}
      BY <2>2 DEF DevicePoll, PollAnswered, PollLost, DeviceAck, serverVars, netVars, devVars
    <3>2. QED
      BY <3>1, CopiesSame, Unmoved DEF OnlyCopies
  <2>3. QED
    BY <1>3, <2>1, <2>2 DEF DeviceStep
<1>4. ASSUME NEW a \in acks, LoseAck(a) PROVE OnlyCopies
  BY <1>4, Unmoved DEF OnlyCopies, LoseAck, serverVars, netVars, devVars
<1>5. QED
  BY <1>1, <1>2, <1>3, <1>4, CopiesRequest, CopiesTask, CopiesAck, CopiesNet DEF Next

-----------------------------------------------------------------------------
(* The inductive invariant.                                                *)

\* Whatever was on its way to the tracker, or is the row now, is faithful after
\* the step.
LEMMA CommandFaithful ==
    ASSUME TypeOK, TypeOK', Grounded, Grounded', Grows, NoTornCommand,
           NEW m, Command(m), m # None
    PROVE  FaithfulNext(m)
<1>1. CASE m = row'
  BY <1>1, RowFaithfulNext
<1>2. CASE m = retained
  BY <1>2, FaithfulStable DEF NoTornCommand, TypeOK
<1>3. ASSUME NEW t \in Requests, m = snap[t] PROVE FaithfulNext(m)
  BY <1>3, FaithfulStable DEF NoTornCommand, TypeOK
<1>4. ASSUME NEW l \in Links, NEW i \in 1..Len(inbox[l]), m = inbox[l][i] PROVE FaithfulNext(m)
  <2>1. inbox[l][i] \in Row
    BY DEF TypeOK
  <2>2. QED
    BY <1>4, <2>1, FaithfulStable DEF NoTornCommand
<1>a. CASE m = answer
  BY <1>a, FaithfulStable DEF NoTornCommand, TypeOK
<1>b. ASSUME NEW s \in Sockets, m = greet[s], m # Accepting PROVE FaithfulNext(m)
  <2>1. greet[s] \in Row /\ Faithful(greet[s])
    BY <1>b DEF NoTornCommand, TypeOK
  <2>2. QED
    BY <1>b, <2>1, FaithfulStable
<1>5. QED
  BY <1>1, <1>2, <1>3, <1>4, <1>a, <1>b DEF Command

LEMMA NoticeReported ==
    ASSUME TypeOK, TypeOK', Grounded, Grounded', Grows, NoTornCommand,
           NEW m, Notice(m), m # None
    PROVE  ReportedNext(m)
<1>1. CASE Command(m)
  BY <1>1, CommandFaithful DEF FaithfulNext, ReportedNext
<1>2. ASSUME NEW t \in Ackers, m = snap[t] PROVE ReportedNext(m)
  BY <1>2, ReportedStable DEF NoTornCommand, TypeOK
<1>3. ASSUME NEW w \in Watchers, m = view[w] PROVE ReportedNext(m)
  BY <1>3, ReportedStable DEF NoTornCommand, TypeOK
<1>4. ASSUME NEW a \in acks, m = Report(row', a) PROVE ReportedNext(m)
  <2>1. m.ver = row'.ver /\ m.applied = row'.applied /\ m.ctl = a.ctl
    BY <1>4 DEF Report
  <2>2. SoundNext(m)
    BY <2>1, RowFaithfulNext DEF FaithfulNext, SoundNext
  <2>3. a.ver \in 0..row.ver /\ a.ver \in actuated' /\ a.ctl = log[a.ver + 1]
    BY DEF Grounded, Grows
  <2>4. log'[a.ver + 1] = log[a.ver + 1]
    BY <2>3, LogStable DEF Grows
  <2>5. QED
    BY <2>1, <2>2, <2>3, <2>4 DEF ReportedNext
<1>5. QED
  BY <1>1, <1>2, <1>3, <1>4 DEF Notice

LEMMA TornNext ==
    ASSUME TypeOK, TypeOK', Grounded, Grounded', Grows, NoTornCommand, OnlyCopies
    PROVE  NoTornCommand'
<1>1. \A l \in Links : \A i \in 1..Len(inbox'[l]) : inbox'[l][i] # None
  BY NoneIsNoRow DEF TypeOK
<1>2. /\ \A t \in Requests : snap'[t] # None => FaithfulNext(snap'[t])
      /\ \A l \in Links : \A i \in 1..Len(inbox'[l]) : FaithfulNext(inbox'[l][i])
      /\ \A s \in Sockets : greet'[s] \notin {None, Accepting} => FaithfulNext(greet'[s])
      /\ answer' # None => FaithfulNext(answer')
      /\ retained' # None => FaithfulNext(retained')
  BY <1>1, CommandFaithful DEF OnlyCopies, SnapsCopied, InboxCopied, GreetsCopied
<1>3. /\ \A t \in Ackers : snap'[t] # None => ReportedNext(snap'[t])
      /\ \A w \in Watchers : view'[w] # None => ReportedNext(view'[w])
  BY NoticeReported DEF OnlyCopies, SnapsCopied, ViewsCopied
<1>4. QED
  BY <1>2, <1>3 DEF NoTornCommand, Faithful, Reported, Sound, FaithfulNext, ReportedNext, SoundNext

\* The inductive invariant: the types, what handlers carry, who sits in which
\* room, what the histories say of the row, and the faithfulness of every message.
IInv ==
    /\ TypeOK
    /\ Carrying
    /\ Homes
    /\ Grounded
    /\ NoTornCommand

LEMMA InvInit ==
    ASSUME Init
    PROVE  IInv
<1>1. TypeOK
  BY TypeInit
<1>2. Carrying
  BY DEF Init, Carrying, Busy, Phases, AckPcs
<1>3. Grounded
  BY DEF Init, Grounded
<1>4. NoTornCommand
  <2>1. \A l \in Links : Len(inbox[l]) = 0
    BY DEF Init
  <2>2. QED
    BY <2>1 DEF Init, NoTornCommand
<1>5. Homes
  BY DEF Init, Homes
<1>6. QED
  BY <1>1, <1>2, <1>3, <1>4, <1>5 DEF IInv

LEMMA InvNext ==
    ASSUME IInv, [Next]_vars
    PROVE  IInv' /\ Grows
<1>1. TypeOK'
  BY TypeNext DEF IInv
<1>2. Carrying'
  BY CarryNext DEF IInv
<1>3. Grounded' /\ Grows
  BY GroundedNext DEF IInv
<1>4. NoTornCommand'
  BY <1>1, <1>3, CopiesNext, TornNext DEF IInv
<1>5. Homes'
  BY HomesNext DEF IInv
<1>6. QED
  BY <1>1, <1>2, <1>3, <1>4, <1>5 DEF IInv

-----------------------------------------------------------------------------
(* The theorems.                                                           *)

\* The inductive invariant holds in every reachable state.
THEOREM Inductive == Spec => []IInv
<1>1. Init => IInv
  BY InvInit
<1>2. IInv /\ [Next]_vars => IInv'
  BY InvNext
<1>3. QED
  BY <1>1, <1>2, PTL DEF Spec

\* Every variable of the command path keeps its type.
THEOREM TypeCorrect == Spec => []TypeOK
<1>1. IInv => TypeOK
  BY DEF IInv
<1>2. QED
  BY <1>1, Inductive, PTL

\* The stored confirmation is of a revision the tracker acted on.
THEOREM AcksAreTrue == Spec => []AckedWasActuated
<1>1. IInv => AckedWasActuated
  BY DEF IInv, Grounded, AckedWasActuated, TypeOK, Row
<1>2. QED
  BY <1>1, Inductive, PTL

\* No message of the server mixes two revisions or claims too much.
THEOREM MessagesAreFaithful == Spec => []NoTornCommand
<1>1. IInv => NoTornCommand
  BY DEF IInv
<1>2. QED
  BY <1>1, Inductive, PTL

\* No app is shown as applied a revision the tracker never acted on.
THEOREM AppsShowTruth == Spec => []AppShowsOnlyActuated
<1>1. ASSUME IInv, NEW w \in Watchers, view[w] # None, view[w].applied >= view[w].ver
      PROVE  view[w].ver \in actuated
  <2>1. view[w] \in Row /\ Sound(view[w])
    BY <1>1 DEF IInv, TypeOK, NoTornCommand, Reported
  <2>2. view[w].applied = view[w].ver
    BY <1>1, <2>1 DEF Sound, Row
  <2>3. QED
    BY <2>1, <2>2 DEF Sound
<1>2. IInv => AppShowsOnlyActuated
  BY <1>1 DEF AppShowsOnlyActuated
<1>3. QED
  BY <1>2, Inductive, PTL

\* Revisions and confirmations never go back.
THEOREM NeverBack == Spec => RevisionsOnlyGrow
<1>1. ASSUME IInv, [Next]_vars
      PROVE  [ /\ row'.ver >= row.ver
               /\ row'.applied >= row.applied
               /\ row'.ver = row.ver => row'.ctl = row.ctl ]_row
  <2>1. Grows /\ row \in Row /\ row' \in Row
    BY <1>1, InvNext DEF IInv, TypeOK
  <2>2. QED
    BY <2>1 DEF Grows, Row
<1>2. QED
  BY <1>1, Inductive, PTL DEF Spec, RevisionsOnlyGrow
\* A step that leaves row and histories alone is a stutter of the register.
LEMMA RefineIdle ==
    ASSUME UNCHANGED <<row, log, actuated>>
    PROVE  UNCHANGED Register!vars
BY DEF Register!vars

\* A new revision is a command issued.
LEMMA RefineBump ==
    ASSUME TypeOK, NEW c \in Controls, row' = Bump(row, c), log' = Append(log, c),
           UNCHANGED actuated
    PROVE  Register!Next
<1>1. row'.applied = row.applied
  BY DEF Bump, TypeOK, Row
<1>2. Register!Issue(c)
  BY <1>1 DEF Register!Issue
<1>3. QED
  BY <1>2 DEF Register!Next

\* The commit of an ack confirms a revision, or is old news.
LEMMA RefineAck ==
    ASSUME TypeOK, Grounded, NEW a \in acks, row' = Acked(row, a.ver), UNCHANGED <<log, actuated>>
    PROVE  [Register!Next]_(Register!vars)
<1>1. row \in Row /\ a.ver \in Nat /\ a.ver \in actuated
  BY DEF TypeOK, Acks, Grounded
<1>2. CASE a.ver > row.applied
  <2>1. row'.applied = a.ver /\ a.ver >= row.applied
    BY <1>1, <1>2 DEF Acked, Row
  <2>2. Register!Confirm(a.ver)
    BY <2>1 DEF Register!Confirm
  <2>3. QED
    BY <1>1, <2>2 DEF Register!Next
<1>3. CASE ~(a.ver > row.applied)
  <2>1. row'.applied = row.applied
    BY <1>1, <1>3 DEF Acked, Row
  <2>2. QED
    BY <2>1 DEF Register!vars
<1>4. QED
  BY <1>2, <1>3

\* The tracker acting on a faithful message actuates a revision.
LEMMA RefineApply ==
    ASSUME Grounded, NEW r, Faithful(r), Apply(r), UNCHANGED <<row, log>>, TypeOK
    PROVE  Register!Next
<1>1. r.ver \in 0..(Len(log) - 1)
  BY DEF Faithful, Sound, Grounded, TypeOK, Row
<1>2. Register!Actuate(r.ver)
  BY DEF Register!Actuate, Apply
<1>3. QED
  BY <1>1, <1>2 DEF Register!Next, Register!Latest

LEMMA RefineNext ==
    ASSUME IInv, [Next]_vars
    PROVE  [Register!Next]_(Register!vars)
<1>0. TypeOK /\ Grounded /\ NoTornCommand
  BY DEF IInv
<1>1. CASE UNCHANGED vars
  BY <1>1, RefineIdle DEF vars
<1>2. ASSUME NEW t \in Requests, RequestStep(t) PROVE [Register!Next]_(Register!vars)
  <2>1. ASSUME NEW c \in Controls, PutControls(t, c) PROVE Register!Next
    BY <1>0, <2>1, RefineBump DEF PutControls, devVars
  <2>2. CASE PutReset(t) \/ PutTracking(t)
    BY <2>2, RefineIdle DEF PutReset, PutTracking, devVars
  <2>3. QED
    BY <1>2, <2>1, <2>2 DEF RequestStep
<1>3. ASSUME NEW t \in Tasks, TaskStep(t) PROVE UNCHANGED Register!vars
  BY <1>3, RefineIdle DEF TaskStep, SendTo, EndBroadcast, AbortBroadcast, SendDuplicate, Publish,
                          PublishFails, devVars
<1>4. ASSUME NEW t \in Ackers, NEW a \in acks, AckStep(t, a)
      PROVE  [Register!Next]_(Register!vars)
  <2>1. row' = Acked(row, a.ver) /\ UNCHANGED <<log, actuated>>
    <3>1. CASE AckOverHttp(t, a) \/ AckOverSocket(t, a)
      BY <1>0, <3>1, OnLoop DEF devVars
    <3>2. CASE AckOnThread(t, a)
      BY <3>2 DEF AckOnThread, devVars
    <3>3. QED
      BY <1>4, <3>1, <3>2 DEF AckStep
  <2>2. QED
    BY <1>0, <2>1, RefineAck
<1>5. CASE RunScheduled \/ NetStep \/ \E a \in acks : LoseAck(a)
  <2>1. UNCHANGED <<row, log, actuated>>
    BY <1>5 DEF RunScheduled, NetStep, LoseAck, DeviceConnect, GreetStep, AcceptFails, ReadWelcome, SendWelcome,
                            UserConnect, PeerGone, ServerNotices,
                DeviceSubscribe, DeviceOffline, devVars
  <2>2. QED
    BY <2>1, RefineIdle
<1>6. CASE DeviceStep
  <2>1. ASSUME NEW l \in Links, DeviceReceive(l) PROVE Register!Next
    <3>1. inbox[l] \in Seq(Row) /\ inbox[l] # <<>> /\ Apply(Head(inbox[l]))
      BY <1>0, <2>1 DEF DeviceReceive, TypeOK
    <3>2. Head(inbox[l]) = inbox[l][1] /\ 1 \in 1..Len(inbox[l])
      BY <3>1
    <3>3. Faithful(Head(inbox[l]))
      BY <1>0, <3>2 DEF NoTornCommand
    <3>4. QED
      BY <1>0, <2>1, <3>1, <3>3, RefineApply DEF DeviceReceive
  <2>2. CASE PollAnswered
    BY <1>0, <2>2, RefineApply DEF PollAnswered, NoTornCommand
  <2>a. CASE DevicePoll \/ PollLost
    BY <2>a, RefineIdle DEF DevicePoll, PollLost
  <2>3. ASSUME NEW s \in AckSources, DeviceAck(s) PROVE UNCHANGED Register!vars
    BY <2>3, RefineIdle DEF DeviceAck, devVars
  <2>4. QED
    BY <1>6, <2>1, <2>2, <2>a, <2>3 DEF DeviceStep
<1>7. QED
  BY <1>1, <1>2, <1>3, <1>4, <1>5, <1>6 DEF Next

\* The command path implements the abstract command register: its row, history
\* and tracker show an outside observer nothing the register would not do.
THEOREM Refines == Spec => ImplementsRegister
<1>1. Init => Register!Init
  BY DEF Init, Register!Init
<1>2. IInv /\ [Next]_vars => [Register!Next]_(Register!vars)
  BY RefineNext
<1>3. QED
  BY <1>1, <1>2, Inductive, PTL DEF Spec, ImplementsRegister, Register!Spec
=============================================================================
