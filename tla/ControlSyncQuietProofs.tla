------------------------ MODULE ControlSyncQuietProofs ------------------------
(***************************************************************************)
(* Who hears and what a quiet system shows: who is connected stays in its  *)
(* room, no revision passes a connected tracker by, and an app that was    *)
(* told anything since the latest revision shows it.  The first two hold   *)
(* whatever the flags are, the last while no broadcast is interrupted.     *)
(***************************************************************************)
EXTENDS ControlSyncProofs

USE DEF Tasks, Links

-----------------------------------------------------------------------------
(* Connections.                                                            *)

\* What a broadcast took for dead is dead.
FailedAreGone ==
    \A t \in Tasks : \A x \in iter[t].failed : conn[x] \in {"gone", "closed"}

Hearing == LiveConnectionsHear /\ FailedAreGone

LEMMA OrphanFailed ==
    ASSUME TypeOK, NEW k, NEW S, NEW t \in Tasks
    PROVE  /\ Orphan(k, S)[t].failed = iter[t].failed /\ Orphan(k, S)[t].seen = iter[t].seen
           /\ ~(pc[t] \in Phases) => Orphan(k, S)[t] = iter[t]
BY DEF Orphan, TypeOK, Iter

LEMMA OverFailed == \A k, hit : Over(k, hit).failed = {} /\ Over(k, hit).seen = {}
BY DEF Over

LEMMA HearSame ==
    ASSUME Hearing, UNCHANGED <<conn, room>>,
           \A t \in Tasks : iter'[t].failed \subseteq iter[t].failed
    PROVE  Hearing'
BY DEF Hearing, LiveConnectionsHear, FailedAreGone

LEMMA HearStart ==
    ASSUME TypeOK, Hearing, NEW t \in Tasks, NEW p, NEW r, StartBroadcast(t, p, r), UNCHANGED <<conn, room>>
    PROVE  Hearing'
<1>1. \A u \in Tasks : iter'[u].failed \subseteq iter[u].failed
  BY OverFailed DEF StartBroadcast, TypeOK
<1>2. QED BY <1>1, HearSame

LEMMA HearSend ==
    ASSUME TypeOK, Hearing, NEW t \in Tasks, NEW x \in Sockets \union Watchers, SendTo(t, x)
    PROVE  Hearing'
<1>1. UNCHANGED <<conn, room>>
  BY DEF SendTo
<1>2. CASE iter' = [iter EXCEPT ![t].seen = @ \union {x}]
  <2>1. \A u \in Tasks : iter'[u].failed \subseteq iter[u].failed
    BY <1>2 DEF TypeOK, Iter
  <2>2. QED BY <1>1, <2>1, HearSame
<1>3. CASE conn[x] \in {"gone", "closed"} /\ iter' = [iter EXCEPT ![t].seen = @ \union {x}, ![t].failed = @ \union {x}]
  <2>1. \A u \in Tasks : iter'[u].failed \subseteq iter[u].failed \union {x}
    BY <1>3 DEF TypeOK, Iter
  <2>2. QED BY <1>1, <1>3, <2>1 DEF Hearing, LiveConnectionsHear, FailedAreGone
<1>4. QED BY <1>2, <1>3 DEF SendTo

LEMMA HearEnd ==
    ASSUME TypeOK, Hearing, NEW t \in Tasks, EndBroadcast(t)
    PROVE  Hearing'
<1> DEFINE k == RoomOf[pc[t]]
           rest == Survivors(t, k)
<1>1. k \in {"device", "users"}
  BY PhaseRoom DEF EndBroadcast
<1>2. /\ room' = [room EXCEPT ![k] = rest] /\ conn' = conn
      /\ \E hit : iter' = [Orphan(k, rest) EXCEPT
                              ![t] = IF pc[t] = "device" THEN Over("users", hit) ELSE IdleIter]
  BY DEF EndBroadcast
<1>3. Orphan(k, rest) \in [Tasks -> Iter]
  <2> HIDE DEF k, rest
  <2>1. QED BY OrphanType
<1>4. \A u \in Tasks : u # t => iter'[u] = Orphan(k, rest)[u]
  <2> HIDE DEF k, rest
  <2>1. QED BY <1>2, <1>3
<1>5. iter'[t].failed = {}
  <2>1. IdleIter.failed = {}
    BY DEF IdleIter
  <2> HIDE DEF k, rest
  <2>2. QED BY <1>2, <1>3, <2>1, OverFailed
<1>6. \A x \in room[k] \ rest : x \in iter[t].failed
  BY DEF Survivors
<1> HIDE DEF k, rest
<1>7. FailedAreGone'
  BY <1>2, <1>4, <1>5, OrphanFailed DEF Hearing, FailedAreGone
<1>8. LiveConnectionsHear'
  <2>1. \A j \in {"device", "users"} : \A x : x \in room[j] => x \in room'[j] \/ x \in iter[t].failed
    BY <1>1, <1>2, <1>6 DEF TypeOK
  <2>2. QED BY <1>2, <2>1 DEF Hearing, LiveConnectionsHear, FailedAreGone
<1>9. QED BY <1>7, <1>8 DEF Hearing

LEMMA HearAbort ==
    ASSUME TypeOK, Hearing, NEW t \in Tasks, AbortBroadcast(t)
    PROVE  Hearing'
<1> DEFINE rest == Leave("device", src[t])
<1>1. /\ room' = [room EXCEPT !["device"] = rest]
      /\ iter' = [Orphan("device", rest) EXCEPT ![t] = IdleIter]
      /\ conn' = [x \in DOMAIN conn |-> IF x = src[t] THEN "closed" ELSE conn[x]]
  BY DEF AbortBroadcast
<1>2. conn \in [Sockets \union Watchers -> {"new", "open", "gone", "closed"}]
  BY DEF TypeOK
<1>3. \A x \in Sockets \union Watchers : conn'[x] = IF x = src[t] THEN "closed" ELSE conn[x]
  BY <1>1, <1>2
<1>4. \A u \in Tasks : iter'[u].failed \subseteq iter[u].failed
  <2>1. IdleIter.failed = {}
    BY DEF IdleIter
  <2>2. Orphan("device", rest) \in [Tasks -> Iter]
    <3> HIDE DEF rest
    <3>1. QED BY OrphanType
  <2> HIDE DEF rest
  <2>3. QED BY <1>1, <2>1, <2>2, OrphanFailed
<1>5. \A u \in Tasks : iter[u].failed \subseteq Sockets \union Watchers
  BY DEF TypeOK, Iter
<1>6. FailedAreGone'
  BY <1>3, <1>4, <1>5 DEF Hearing, FailedAreGone
<1>7. LiveConnectionsHear'
  BY <1>1, <1>3 DEF Leave, TypeOK, Hearing, LiveConnectionsHear
<1>8. QED BY <1>6, <1>7 DEF Hearing

\* Connections that open, are lost and are cleaned up.
LEMMA HearNet ==
    ASSUME TypeOK, Homes, Hearing, NetStep
    PROVE  Hearing'
<1>1. \A u \in Tasks : iter[u].failed \subseteq Sockets \union Watchers
  BY DEF TypeOK, Iter
<1>2. conn \in [Sockets \union Watchers -> {"new", "open", "gone", "closed"}]
      /\ room \in [{"device", "users"} -> SUBSET (Sockets \union Watchers)]
  BY DEF TypeOK
<1>3. ASSUME NEW x \in Sockets \union Watchers, NEW k \in {"device", "users"},
             conn[x] = "new", conn' = [conn EXCEPT ![x] = "open"],
             room' = [room EXCEPT ![k] = @ \union {x}], UNCHANGED iter
      PROVE  Hearing'
  <2>1. FailedAreGone'
    BY <1>1, <1>2, <1>3 DEF Hearing, FailedAreGone
  <2>2. LiveConnectionsHear'
    BY <1>2, <1>3 DEF Hearing, LiveConnectionsHear
  <2>3. QED BY <2>1, <2>2 DEF Hearing
<1>4. ASSUME NEW s \in Sockets, DeviceConnect(s) PROVE Hearing'
  BY <1>3, <1>4 DEF DeviceConnect
<1>a. ASSUME NEW s \in Sockets, AcceptFails(s) PROVE Hearing'
  <2>1. UNCHANGED <<iter, room>> /\ conn' = [conn EXCEPT ![s] = "closed"]
    BY <1>a DEF AcceptFails
  <2>2. QED BY <1>1, <1>2, <2>1 DEF Hearing, LiveConnectionsHear, FailedAreGone
<1>b. ASSUME NEW s \in Sockets, ReadWelcome(s) \/ SendWelcome(s) PROVE Hearing'
  BY <1>b, HearSame DEF ReadWelcome, SendWelcome
<1>5. ASSUME NEW w \in Watchers, UserConnect(w) PROVE Hearing'
  BY <1>3, <1>5 DEF UserConnect, serverVars
<1>6. ASSUME NEW x \in Sockets \union Watchers, PeerGone(x) PROVE Hearing'
  <2>1. UNCHANGED <<iter, room>> /\ conn' = [conn EXCEPT ![x] = "gone"]
    BY <1>6 DEF PeerGone, serverVars
  <2>2. QED BY <1>1, <1>2, <2>1 DEF Hearing, LiveConnectionsHear, FailedAreGone
<1>7. ASSUME NEW x \in Sockets \union Watchers, ServerNotices(x) PROVE Hearing'
  <2>1. PICK k \in {"device", "users"} :
           /\ room' = [room EXCEPT ![k] = Leave(k, x)]
           /\ iter' = Orphan(k, Leave(k, x))
           /\ conn' = [conn EXCEPT ![x] = "closed"]
    BY <1>7 DEF ServerNotices
  <2>2. \A u \in Tasks : iter'[u].failed = iter[u].failed
    BY <2>1, OrphanFailed
  <2>3. FailedAreGone'
    BY <1>1, <1>2, <2>1, <2>2 DEF Hearing, FailedAreGone
  <2>4. LiveConnectionsHear'
    BY <1>2, <2>1 DEF Leave, Hearing, LiveConnectionsHear
  <2>5. QED BY <2>3, <2>4 DEF Hearing
<1>8. CASE DeviceSubscribe \/ DeviceOffline
  BY <1>8, HearSame DEF DeviceSubscribe, DeviceOffline, serverVars
<1>9. QED BY <1>4, <1>a, <1>b, <1>5, <1>6, <1>7, <1>8 DEF NetStep, GreetStep

LEMMA HearingNext ==
    ASSUME IInv, Hearing, [Next]_vars
    PROVE  Hearing'
<1>0. TypeOK /\ Carrying /\ Homes
  BY DEF IInv
<1>1. CASE UNCHANGED vars
  BY <1>1, HearSame DEF vars
<1>2. ASSUME NEW t \in Requests, RequestStep(t) PROVE Hearing'
  <2>1. CASE PutTracking(t)
    BY <2>1, HearSame DEF PutTracking, netVars
  <2>2. CASE PutReset(t) \/ \E c \in Controls : PutControls(t, c)
    <3>1. UNCHANGED <<conn, room>> /\ \E r : StartBroadcast(t, "device", r)
      BY <2>2 DEF PutReset, PutControls, netVars
    <3>2. QED BY <1>0, <3>1, HearStart
  <2>3. QED BY <1>2, <2>1, <2>2 DEF RequestStep
<1>3. ASSUME NEW t \in Tasks, TaskStep(t) PROVE Hearing'
  <2>1. CASE SendDuplicate(t)
    BY <1>0, <2>1, HearStart DEF SendDuplicate, netVars
  <2>2. CASE Publish(t) \/ PublishFails(t)
    BY <2>2, HearSame DEF Publish, PublishFails, netVars
  <2>3. QED BY <1>0, <1>3, <2>1, <2>2, HearSend, HearEnd, HearAbort DEF TaskStep
<1>4. ASSUME NEW t \in Ackers, NEW a \in acks, AckStep(t, a) PROVE Hearing'
  <2>1. CASE AckOnThread(t, a)
    BY <2>1, HearSame DEF AckOnThread, netVars
  <2>2. CASE AckOverHttp(t, a) \/ AckOverSocket(t, a)
    <3>1. UNCHANGED netVars /\ \E m \in Row : StartBroadcast(t, "users", m)
      BY <1>0, <2>2, OnLoop
    <3>2. QED BY <1>0, <3>1, HearStart DEF netVars
  <2>3. QED BY <1>4, <2>1, <2>2 DEF AckStep
<1>5. CASE RunScheduled
  <2>1. Head(scheduled) \in Ackers
    BY <1>0, <1>5 DEF RunScheduled, TypeOK
  <2>2. QED BY <1>0, <1>5, <2>1, HearStart DEF RunScheduled, netVars
<1>6. CASE DeviceStep \/ \E a \in acks : LoseAck(a)
  BY <1>6, HearSame DEF DeviceStep, DeviceReceive, DevicePoll, PollAnswered, PollLost, DeviceAck, LoseAck, serverVars, netVars
<1>7. QED BY <1>0, <1>1, <1>2, <1>3, <1>4, <1>5, <1>6, HearNet DEF Next

LEMMA HearingAlways == Spec => []Hearing
<1>1. Init => Hearing
  BY DEF Init, Hearing, LiveConnectionsHear, FailedAreGone, IdleIter
<1>2. IInv /\ Hearing /\ [Next]_vars => Hearing'
  BY HearingNext
<1>3. QED BY <1>1, <1>2, Inductive, PTL DEF Spec

\* Whatever blocks, fails, aborts or is cleaned up, a connection whose peer is there stays
\* in its room: disconnect and the end of a broadcast remove only what is dead.
THEOREM LiveConnectionsHearHolds == Spec => []LiveConnectionsHear
<1>1. Hearing => LiveConnectionsHear
  BY DEF Hearing
<1>2. QED BY <1>1, HearingAlways, PTL

-----------------------------------------------------------------------------
(* The loop belongs to one broadcast from its first send to its last.      *)

\* The tracker does not ack over MQTT, whose acks the server commits in another thread
\* and announces later.
Prompt == "mqtt" \notin AckSources

\* A broadcast under way has the loop and its room to itself, and sends the revision
\* of the row, unless it is a duplicate.
Alone(t) ==
    /\ loop = t
    /\ Intact(t)
    /\ iter[t].seen \subseteq room[RoomOf[pc[t]]]
    /\ pc[t] \in {"device", "users"} => snap[t].ver = row.ver
    /\ pc[t] = "device" => snap[t].ctl = row.ctl
    /\ pc[t] \in {"device", "again"} => t \in Requests

Solo ==
    /\ \A t \in Tasks : pc[t] \in Phases => Alone(t)
    /\ scheduled = <<>>

LEMMA NobodySends ==
    ASSUME Solo, LoopFree
    PROVE  \A t \in Tasks : pc[t] \notin Phases
BY TasksDistinct DEF Solo, Alone, LoopFree

LEMMA OnlySender ==
    ASSUME Solo, NEW t \in Tasks, pc[t] \in Phases
    PROVE  Alone(t) /\ \A u \in Tasks : u # t => pc[u] \notin Phases
BY DEF Solo, Alone

\* What can happen then.
LEMMA PromptNext ==
    ASSUME Prompt, TypeOK, Solo, Next
    PROVE  \/ \E t \in Requests : RequestStep(t)
           \/ \E t \in Tasks : \/ \E x \in Sockets \union Watchers : SendTo(t, x)
                               \/ EndBroadcast(t) \/ SendDuplicate(t) \/ Publish(t) \/ PublishFails(t)
           \/ \E t \in Ackers, a \in acks : AckOverHttp(t, a) \/ AckOverSocket(t, a)
           \/ NetStep \/ DeviceStep \/ \E a \in acks : LoseAck(a)
<1>1. \A t \in Tasks : ~AbortBroadcast(t)
  BY DEF Solo, Alone, AbortBroadcast
<1>2. \A a \in acks : a.src # "mqtt"
  BY DEF Prompt, TypeOK, Acks
<1>3. \A t \in Ackers, a \in acks : ~AckOnThread(t, a)
  BY <1>2 DEF AckOnThread
<1>4. ~RunScheduled
  BY DEF Solo, RunScheduled
<1>5. CASE \E t \in Tasks : TaskStep(t)
  BY <1>1, <1>5 DEF TaskStep
<1>6. CASE \E t \in Ackers, a \in acks : AckStep(t, a)
  BY <1>3, <1>6 DEF AckStep
<1>7. QED BY <1>4, <1>5, <1>6 DEF Next

\* A step that leaves the broadcasts alone.
LEMMA SoloSame ==
    ASSUME Solo, UNCHANGED <<pc, scheduled>>, row'.ver = row.ver, row'.ctl = row.ctl,
           \A t \in Tasks : pc[t] \in Phases =>
               loop' = loop /\ iter'[t] = iter[t] /\ snap'[t] = snap[t] /\ room' = room
    PROVE  Solo'
<1>1. ASSUME NEW t \in Tasks, pc[t] \in Phases PROVE Alone(t)'
  BY <1>1 DEF Solo, Alone, Intact
<1>2. QED BY <1>1 DEF Solo

LEMMA SoloStart ==
    ASSUME TypeOK, Solo, LoopFree, NEW t \in Tasks, NEW p \in Phases, NEW r,
           StartBroadcast(t, p, r), UNCHANGED <<room, scheduled>>,
           p \in {"device", "users"} => r.ver = row'.ver,
           p = "device" => r.ctl = row'.ctl,
           p \in {"device", "again"} => t \in Requests
    PROVE  Solo'
<1>1. pc'[t] = p /\ \A u \in Tasks : u # t => pc'[u] = pc[u]
  BY DEF StartBroadcast, TypeOK
<1>2. iter'[t] = Over(RoomOf[p], FALSE) /\ snap'[t] = r /\ loop' = t
  BY DEF StartBroadcast, TypeOK
<1>3. iter'[t].size = Cardinality(room'[RoomOf[p]]) /\ iter'[t].seen = {}
  BY <1>2 DEF Over
<1>4. Alone(t)'
  BY <1>1, <1>2, <1>3 DEF Alone, Intact
<1>5. QED BY <1>1, <1>4, NobodySends DEF Solo

LEMMA SoloSend ==
    ASSUME ~paused', TypeOK, Solo, NEW t \in Tasks, NEW x \in Sockets \union Watchers, SendTo(t, x)
    PROVE  Solo'
<1>1. /\ pc[t] \in Phases /\ x \in room[RoomOf[pc[t]]] /\ loop' = t
      /\ UNCHANGED <<row, pc, snap, room, scheduled>>
  BY DEF SendTo
<1>2. iter'[t].size = iter[t].size /\ iter'[t].seen = iter[t].seen \union {x}
  BY DEF SendTo, TypeOK, Iter
<1>3. Alone(t) /\ \A u \in Tasks : u # t => pc[u] \notin Phases
  BY <1>1, OnlySender
<1>4. Alone(t)'
  BY <1>1, <1>2, <1>3 DEF Alone, Intact
<1>5. scheduled' = <<>>
  BY <1>1 DEF Solo
<1>6. QED BY <1>1, <1>3, <1>4, <1>5 DEF Solo

LEMMA SoloEnd ==
    ASSUME TypeOK, Solo, NEW t \in Tasks, EndBroadcast(t)
    PROVE  Solo'
<1>1. pc[t] \in Phases /\ pc' = [pc EXCEPT ![t] = After(t)] /\ row' = row /\ scheduled' = <<>>
  BY DEF EndBroadcast, Solo
<1>2. Alone(t) /\ \A u \in Tasks : u # t => pc[u] \notin Phases
  BY <1>1, OnlySender
<1>3. \A u \in Tasks : pc'[u] = IF u = t THEN After(t) ELSE pc[u]
  BY <1>1 DEF TypeOK
<1>4. CASE pc[t] # "device"
  <2>1. After(t) \in {"ready", "sleep", "publish"}
    BY <1>4 DEF After
  <2>2. QED BY <1>1, <1>2, <1>3, <2>1 DEF Solo, Phases
<1>5. CASE pc[t] = "device"
  <2>1. After(t) = "users" /\ RoomOf[pc[t]] = "device" /\ RoomOf["users"] = "users"
    BY <1>5 DEF After, RoomOf, Phases
  <2>2. t \in Requests /\ t \notin Ackers
    BY <1>2, <1>5, TasksDistinct DEF Alone
  <2>3. loop' = t /\ snap'[t] = snap[t] /\ room'["users"] = room["users"]
    BY <1>5, <2>1, <2>2 DEF EndBroadcast, TypeOK
  <2>4. \E hit : iter'[t] = Over("users", hit)
    <3> DEFINE rest == Survivors(t, "device")
    <3>1. \E hit : iter' = [Orphan("device", rest) EXCEPT ![t] = Over("users", hit)]
      BY <1>5, <2>1 DEF EndBroadcast
    <3> HIDE DEF rest
    <3>2. QED BY <3>1, OrphanType
  <2>5. iter'[t].size = Cardinality(room'["users"]) /\ iter'[t].seen = {}
    BY <2>3, <2>4 DEF Over
  <2>6. Alone(t)'
    BY <1>1, <1>2, <1>3, <1>5, <2>1, <2>3, <2>5 DEF Alone, Intact
  <2>7. QED BY <1>1, <1>2, <1>3, <2>1, <2>6 DEF Solo, Phases
<1>6. QED BY <1>4, <1>5

LEMMA SoloNext ==
    ASSUME Prompt, ~paused', IInv, Solo, Next
    PROVE  Solo'
<1>0. TypeOK /\ Carrying /\ row \in Row /\ \A p \in {"device", "users", "again"} : p \in Phases
  BY DEF IInv, TypeOK, Phases
<1>1. ASSUME NEW t \in Requests, RequestStep(t) PROVE Solo'
  <2>1. CASE PutTracking(t)
    <3>1. LoopFree /\ UNCHANGED scheduled /\ \A u \in Tasks : pc'[u] = pc[u] \/ pc'[u] = "publish"
      BY <1>0, <2>1 DEF PutTracking, TypeOK
    <3>2. QED BY <3>1, NobodySends DEF Solo, Phases
  <2>2. ASSUME NEW c \in Controls, PutControls(t, c) PROVE Solo'
    <3>1. LoopFree /\ UNCHANGED <<room, scheduled>> /\ StartBroadcast(t, "device", row')
      BY <2>2 DEF PutControls, netVars
    <3>2. QED BY <1>0, <3>1, SoloStart
  <2>3. CASE PutReset(t)
    <3>1. LoopFree /\ UNCHANGED <<row, room, scheduled>> /\ StartBroadcast(t, "device", row)
      BY <2>3 DEF PutReset, netVars
    <3>2. QED BY <1>0, <3>1, SoloStart
  <2>4. QED BY <1>1, <2>1, <2>2, <2>3 DEF RequestStep
<1>2. ASSUME NEW t \in Tasks, Publish(t) \/ PublishFails(t) PROVE Solo'
  <2>1. pc[t] = "publish" /\ UNCHANGED <<row, room, loop, iter, scheduled>>
        /\ \A u \in Tasks : IF u = t THEN pc'[u] = "done" ELSE pc'[u] = pc[u] /\ snap'[u] = snap[u]
    BY <1>0, <1>2 DEF Publish, PublishFails, netVars, TypeOK
  <2>2. ASSUME NEW u \in Tasks, u # t, pc[u] \in Phases PROVE Alone(u)'
    BY <2>1, <2>2 DEF Solo, Alone, Intact
  <2>3. QED BY <2>1, <2>2 DEF Solo, Phases
<1>3. ASSUME NEW t \in Tasks, SendDuplicate(t) PROVE Solo'
  <2>1. LoopFree /\ UNCHANGED <<room, scheduled>> /\ StartBroadcast(t, "again", snap[t]) /\ pc[t] = "sleep"
    BY <1>3 DEF SendDuplicate, netVars
  <2>2. t \in Requests
    BY <1>0, <2>1 DEF Carrying, AckPcs
  <2>3. QED BY <1>0, <2>1, <2>2, SoloStart
<1>4. ASSUME NEW t \in Ackers, NEW a \in acks, AckOverHttp(t, a) \/ AckOverSocket(t, a) PROVE Solo'
  <2>1. LoopFree /\ UNCHANGED <<room, scheduled>>
    BY <1>4 DEF AckOverHttp, AckOverSocket, netVars
  <2>2. PICK m \in Row : m \in {row', Report(row', a)} /\ StartBroadcast(t, "users", m)
    BY <1>0, <1>4, OnLoop
  <2>3. m.ver = row'.ver
    BY <2>2 DEF Report
  <2>4. QED BY <1>0, <2>1, <2>2, <2>3, SoloStart
<1>5. CASE NetStep
  <2>1. CASE \/ (\E s \in Sockets : DeviceConnect(s)) \/ (\E w \in Watchers : UserConnect(w))
             \/ \E x \in Sockets \union Watchers : ServerNotices(x)
    <3>1. LoopFree /\ UNCHANGED <<row, pc, scheduled>>
      BY <2>1 DEF DeviceConnect, UserConnect, ServerNotices, serverVars
    <3>2. QED BY <3>1, NobodySends, SoloSame
  <2>a. ASSUME NEW s \in Sockets, GreetStep(s) PROVE Solo'
    <3>1. loop \in {NoTask, s} /\ UNCHANGED <<row, pc, scheduled>>
      BY <2>a DEF GreetStep, AcceptFails, ReadWelcome, SendWelcome, MayRun
    <3>2. \A t \in Tasks : pc[t] \notin Phases
      BY <3>1, TasksDistinct, SocketsNoTasks DEF Solo, Alone
    <3>3. QED BY <3>1, <3>2, SoloSame
  <2>2. CASE DeviceSubscribe \/ DeviceOffline \/ \E x \in Sockets \union Watchers : PeerGone(x)
    <3>1. UNCHANGED <<row, pc, loop, iter, snap, room, scheduled>>
      BY <2>2 DEF DeviceSubscribe, DeviceOffline, PeerGone, serverVars
    <3>2. QED BY <3>1, SoloSame
  <2>3. QED BY <1>5, <2>1, <2>2, <2>a DEF NetStep
<1>6. CASE DeviceStep \/ \E a \in acks : LoseAck(a)
  <2>1. UNCHANGED <<row, pc, loop, iter, snap, room, scheduled>>
    BY <1>6 DEF DeviceStep, DeviceReceive, DevicePoll, PollAnswered, PollLost, DeviceAck, LoseAck, serverVars, netVars
  <2>2. QED BY <2>1, SoloSame
<1>7. QED BY <1>0, <1>1, <1>2, <1>3, <1>4, <1>5, <1>6, PromptNext, SoloSend, SoloEnd

\* A broadcast that ends was sent to everyone in its room.
LEMMA EndReached ==
    ASSUME TypeOK, Solo, NEW t \in Tasks, EndBroadcast(t)
    PROVE  /\ room[RoomOf[pc[t]]] \subseteq iter[t].seen
           /\ room'["users"] \subseteq room["users"]
           /\ UNCHANGED <<row, conn, inbox, attached, view, dev>>
           /\ \A u \in Tasks : u # t => pc[u] \notin Phases /\ pc'[u] = pc[u]
           /\ pc[t] = "device" => pc'[t] = "users" /\ iter'[t].seen = {}
           /\ pc[t] \in Phases
<1> DEFINE k == RoomOf[pc[t]]
<1>1. pc[t] \in Phases
  BY DEF EndBroadcast
<1>2. Alone(t) /\ \A u \in Tasks : u # t => pc[u] \notin Phases
  BY <1>1, OnlySender
<1>3. k \in {"device", "users"}
  BY <1>1, PhaseRoom
<1>4. room[k] \subseteq iter[t].seen
  <2>1. IsFiniteSet(room[k])
    <3>1. IsFiniteSet(Sockets \union Watchers)
      BY SocketsFinite, WatchersFinite, FS_Union
    <3>2. room[k] \in SUBSET (Sockets \union Watchers)
      BY <1>3 DEF TypeOK
    <3>3. QED BY <3>1, <3>2, FS_Subset
  <2>2. iter[t].seen \in SUBSET room[k]
    BY <1>2 DEF Alone
  <2>3. /\ Cardinality(iter[t].seen) <= Cardinality(room[k])
        /\ Cardinality(room[k]) = Cardinality(iter[t].seen) => room[k] = iter[t].seen
        /\ IsFiniteSet(iter[t].seen)
    <3> HIDE DEF k
    <3>1. QED BY <2>1, <2>2, FS_Subset
  <2>4. Cardinality(iter[t].seen) \in Nat /\ Cardinality(room[k]) \in Nat
    BY <2>1, <2>3, FS_CardinalityType
  <2>5. room[k] \subseteq iter[t].seen \/ Cardinality(iter[t].seen) >= Cardinality(room[k])
    BY DEF EndBroadcast, Intact
  <2> HIDE DEF k
  <2>6. QED BY <2>3, <2>4, <2>5
<1>5. /\ room'["users"] \subseteq room["users"]
      /\ UNCHANGED <<row, conn, inbox, attached, view, dev>>
  BY <1>3 DEF EndBroadcast, Survivors, TypeOK, devVars
<1>6. \A u \in Tasks : pc'[u] = IF u = t THEN After(t) ELSE pc[u]
  BY DEF EndBroadcast, TypeOK
<1>7. pc[t] = "device" => pc'[t] = "users"
  BY <1>6 DEF After
<1>8. ASSUME pc[t] = "device" PROVE iter'[t].seen = {}
  <2> DEFINE rest == Survivors(t, k)
  <2>1. \E hit : iter' = [Orphan(k, rest) EXCEPT ![t] = Over("users", hit)]
    BY <1>8 DEF EndBroadcast
  <2> HIDE DEF rest, k
  <2>2. \E hit : iter'[t] = Over("users", hit)
    BY <2>1, OrphanType
  <2>3. QED BY <2>2, OverFailed
<1>9. QED BY <1>1, <1>2, <1>4, <1>5, <1>6, <1>7, <1>8

-----------------------------------------------------------------------------
(* What reached the apps.                                                  *)

\* Only trackers sit in the tracker's room; a connection that was not made yet is in no
\* room and was told nothing.
Fresh ==
    /\ room["device"] \subseteq Sockets
    /\ \A x \in Sockets \union Watchers : conn[x] = "new" =>
        /\ x \notin room["device"] \union room["users"]
        /\ x \in Watchers => view[x] = None

\* Every app that was told anything shows the revision of the row, or a broadcast still
\* has it to send.
Shown ==
    \A w \in room["users"] : conn[w] = "open" /\ view[w] # None =>
        \/ view[w].ver = row.ver
        \/ \E t \in Tasks : pc[t] = "device" \/ (pc[t] = "users" /\ w \notin iter[t].seen)

LEMMA FreshNext ==
    ASSUME Prompt, TypeOK, Solo, Fresh, Next
    PROVE  Fresh'
<1>1. ASSUME \A x \in Sockets \union Watchers : conn'[x] = "new" => conn[x] = "new",
             \A x \in Sockets \union Watchers :
                 conn'[x] = "new" /\ x \in room'["device"] \union room'["users"]
                     => x \in room["device"] \union room["users"],
             \A w \in Watchers : view'[w] = view[w] \/ w \in room["device"] \union room["users"],
             room'["device"] \subseteq Sockets
      PROVE  Fresh'
  BY <1>1 DEF Fresh
<1>2. ASSUME NEW x \in Sockets \union Watchers, NEW k \in {"device", "users"},
             conn' = [conn EXCEPT ![x] = "open"], room' = [room EXCEPT ![k] = @ \union {x}], UNCHANGED view,
             k = "device" => x \in Sockets
      PROVE  Fresh'
  BY <1>1, <1>2 DEF TypeOK, Fresh
<1>3. ASSUME NEW s \in Sockets, DeviceConnect(s) PROVE Fresh'
  BY <1>2, <1>3 DEF DeviceConnect
<1>a. ASSUME NEW s \in Sockets, GreetStep(s) PROVE Fresh'
  <2>1. room' = room /\ \A x \in Sockets \union Watchers : conn'[x] = "new" => conn[x] = "new"
    BY <1>a DEF GreetStep, AcceptFails, ReadWelcome, SendWelcome, TypeOK
  <2>2. view' = view
    BY <1>a, ConnsDistinct DEF GreetStep, AcceptFails, ReadWelcome, SendWelcome, Deliver
  <2>3. QED BY <1>1, <2>1, <2>2 DEF Fresh
<1>4. ASSUME NEW w \in Watchers, UserConnect(w) PROVE Fresh'
  BY <1>2, <1>4 DEF UserConnect
<1>5. ASSUME NEW x \in Sockets \union Watchers, PeerGone(x) \/ ServerNotices(x) PROVE Fresh'
  BY <1>1, <1>5 DEF PeerGone, ServerNotices, Leave, TypeOK, Fresh
<1>6. ASSUME NEW t \in Tasks, NEW x \in Sockets \union Watchers, SendTo(t, x) PROVE Fresh'
  <2>1. x \in room["device"] \union room["users"] /\ UNCHANGED <<conn, room>>
    BY <1>6, PhaseRoom DEF SendTo
  <2>2. \A w \in Watchers : view'[w] = view[w] \/ w = x
    BY <1>6 DEF SendTo, Deliver, TypeOK
  <2>3. QED BY <1>1, <2>1, <2>2 DEF Fresh
<1>7. ASSUME NEW t \in Tasks, EndBroadcast(t) PROVE Fresh'
  <2>1. UNCHANGED <<conn, view>> /\ \A k \in {"device", "users"} : room'[k] \subseteq room[k]
    BY <1>7, PhaseRoom DEF EndBroadcast, Survivors, TypeOK
  <2>2. QED BY <1>1, <2>1 DEF Fresh
<1>8. CASE \/ \E t \in Requests : RequestStep(t)
           \/ \E t \in Tasks : SendDuplicate(t) \/ PublishFails(t)
           \/ \E t \in Ackers, a \in acks : AckOverHttp(t, a) \/ AckOverSocket(t, a)
           \/ DeviceSubscribe \/ DeviceOffline \/ DeviceStep \/ \E a \in acks : LoseAck(a)
  <2>1. UNCHANGED <<conn, room, view>>
    BY <1>8 DEF RequestStep, PutControls, PutReset, PutTracking, SendDuplicate, PublishFails, AckOverHttp,
                AckOverSocket, DeviceSubscribe, DeviceOffline, DeviceStep, DeviceReceive, DevicePoll, PollAnswered, PollLost, DeviceAck,
                LoseAck, netVars
  <2>2. QED BY <1>1, <2>1 DEF Fresh
<1>9. ASSUME NEW t \in Tasks, Publish(t) PROVE Fresh'
  <2>1. UNCHANGED <<conn, room, view>>
    BY <1>9, BrokerDistinct DEF Publish, Deliver
  <2>2. QED BY <1>1, <2>1 DEF Fresh
<1>10. QED BY <1>3, <1>a, <1>4, <1>5, <1>6, <1>7, <1>8, <1>9, PromptNext DEF NetStep

LEMMA ShownSame ==
    ASSUME Shown, row'.ver = row.ver, UNCHANGED view,
           \A w \in room'["users"] : w \in room["users"] /\ (conn'[w] = "open" => conn[w] = "open"),
           \A t \in Tasks : pc[t] \in {"device", "users"} => pc'[t] = pc[t] /\ iter'[t].seen = iter[t].seen
    PROVE  Shown'
BY DEF Shown

\* A broadcast that begins has everyone still to send to.
LEMMA ShownStart ==
    ASSUME TypeOK, NEW t \in Tasks, NEW p \in {"device", "users"}, NEW r, StartBroadcast(t, p, r)
    PROVE  Shown'
<1>1. pc'[t] = p /\ iter'[t].seen = {}
  BY DEF StartBroadcast, Over, TypeOK
<1>2. QED BY <1>1 DEF Shown

LEMMA ShownSend ==
    ASSUME TypeOK, Homes, Solo, Fresh, Shown, NEW t \in Tasks, NEW x \in Sockets \union Watchers, SendTo(t, x)
    PROVE  Shown'
<1>1. pc[t] \in Phases /\ x \in room[RoomOf[pc[t]]] /\ UNCHANGED <<row, pc, conn, room>>
  BY DEF SendTo
<1>2. Alone(t) /\ \A u \in Tasks : u # t => pc[u] \notin {"device", "users"}
  BY <1>1, OnlySender DEF Phases
<1>3. iter'[t].seen = iter[t].seen \union {x}
  BY DEF SendTo, TypeOK, Iter
<1>4. CASE pc[t] = "device"
  BY <1>1, <1>4 DEF Shown
<1>5. CASE pc[t] = "users"
  <2>1. ASSUME NEW w \in room["users"], conn[w] = "open", view'[w] # None, w # x, w \in Watchers
        PROVE  view'[w].ver = row.ver \/ w \notin iter'[t].seen
    <3>1. view'[w] = view[w]
      BY <2>1 DEF SendTo, Deliver, TypeOK
    <3>2. view[w].ver = row.ver \/ w \notin iter[t].seen
      BY <1>2, <1>5, <2>1, <3>1 DEF Shown
    <3>3. QED BY <1>3, <2>1, <3>1, <3>2
  <2>2. ASSUME x \in Watchers, conn[x] = "open" PROVE view'[x].ver = row.ver
    <3>1. view'[x] = snap[t]
      BY <2>2 DEF SendTo, Deliver, TypeOK
    <3>2. QED BY <1>2, <1>5, <3>1 DEF Alone
  <2>3. \A w \in room["users"] : w \in Watchers
    BY DEF Homes
  <2>4. QED BY <1>1, <1>5, <2>1, <2>2, <2>3 DEF Shown
<1>6. CASE pc[t] = "again"
  <2>1. x \notin Watchers
    BY <1>1, <1>6, ConnsDistinct DEF Fresh, RoomOf, Phases
  <2>2. view' = view
    BY <2>1 DEF SendTo, Deliver
  <2>3. \A u \in Tasks : pc[u] \notin {"device", "users"}
    BY <1>2, <1>6
  <2>4. QED BY <1>1, <2>2, <2>3, ShownSame
<1>7. QED BY <1>1, <1>4, <1>5, <1>6 DEF Phases

LEMMA ShownNext ==
    ASSUME Prompt, IInv, Solo, Fresh, Shown, Next
    PROVE  Shown'
<1>0. TypeOK /\ Homes /\ row \in Row
  BY DEF IInv, TypeOK
<1>1. LoopFree => \A t \in Tasks : pc[t] \notin {"device", "users"}
  BY NobodySends DEF Phases
<1>2. ASSUME NEW t \in Requests, RequestStep(t) PROVE Shown'
  <2>1. CASE PutTracking(t)
    BY <1>1, <2>1, ShownSame DEF PutTracking, netVars
  <2>2. CASE PutReset(t) \/ \E c \in Controls : PutControls(t, c)
    <3>1. \E r : StartBroadcast(t, "device", r)
      BY <2>2 DEF PutReset, PutControls
    <3>2. QED BY <1>0, <3>1, ShownStart
  <2>3. QED BY <1>2, <2>1, <2>2 DEF RequestStep
<1>3. ASSUME NEW t \in Tasks, EndBroadcast(t) PROVE Shown'
  <2>1. CASE pc[t] = "device"
    BY <1>0, <1>3, <2>1, EndReached DEF Shown
  <2>2. CASE pc[t] # "device"
    <3>1. pc[t] = "users" => room["users"] \subseteq iter[t].seen
      BY <1>0, <1>3, EndReached DEF Phases, RoomOf
    <3>2. \A w \in room["users"] : conn[w] = "open" /\ view[w] # None => view[w].ver = row.ver
      BY <1>0, <1>3, <2>2, <3>1, EndReached DEF Shown, Phases
    <3>3. QED BY <1>0, <1>3, <3>2, EndReached DEF Shown
  <2>3. QED BY <2>1, <2>2
<1>4. ASSUME NEW t \in Tasks, Publish(t) \/ PublishFails(t) PROVE Shown'
  <2>1. view' = view /\ UNCHANGED <<row, conn, room, iter>>
    BY <1>4, BrokerDistinct DEF Publish, Deliver, PublishFails, netVars
  <2>2. \A u \in Tasks : pc[u] \in {"device", "users"} => pc'[u] = pc[u]
    BY <1>0, <1>4 DEF Publish, PublishFails, TypeOK
  <2>3. QED BY <2>1, <2>2, ShownSame
<1>5. ASSUME NEW t \in Tasks, SendDuplicate(t) PROVE Shown'
  BY <1>1, <1>5, ShownSame DEF SendDuplicate, netVars
<1>6. ASSUME NEW t \in Ackers, NEW a \in acks, AckOverHttp(t, a) \/ AckOverSocket(t, a) PROVE Shown'
  <2>1. \E m : StartBroadcast(t, "users", m)
    BY <1>0, <1>6, OnLoop
  <2>2. QED BY <1>0, <2>1, ShownStart
<1>7. ASSUME NEW w \in Watchers, UserConnect(w) PROVE Shown'
  <2>1. LoopFree /\ UNCHANGED <<row, view>> /\ view[w] = None
    BY <1>7 DEF UserConnect, Fresh
  <2>2. \A v \in Watchers : v # w /\ v \in room'["users"] => v \in room["users"] /\ conn'[v] = conn[v]
    BY <1>0, <1>7 DEF UserConnect, TypeOK
  <2>3. room'["users"] \subseteq Watchers
    BY <1>0, <1>7 DEF UserConnect, TypeOK, Homes
  <2>4. QED BY <1>1, <2>1, <2>2, <2>3 DEF Shown
<1>8. CASE (\E s \in Sockets : DeviceConnect(s)) \/ \E x \in Sockets \union Watchers : PeerGone(x) \/ ServerNotices(x)
  <2>1. UNCHANGED <<row, view, pc>> /\ (LoopFree \/ UNCHANGED iter)
    BY <1>8 DEF DeviceConnect, PeerGone, ServerNotices, serverVars
  <2>2. \A w \in room'["users"] : w \in room["users"] /\ (conn'[w] = "open" => conn[w] = "open")
    <3>1. \A w \in room["users"] : w \in Watchers /\ w \notin Sockets
      BY <1>0, ConnsDistinct DEF Homes
    <3>2. ASSUME NEW s \in Sockets, DeviceConnect(s)
          PROVE  room'["users"] = room["users"] /\ \A w \in Watchers : w \notin Sockets => conn'[w] = conn[w]
      BY <1>0, <3>2 DEF DeviceConnect, TypeOK
    <3>3. ASSUME NEW x \in Sockets \union Watchers, PeerGone(x) \/ ServerNotices(x)
          PROVE  /\ room'["users"] \subseteq room["users"]
                 /\ \A w \in Watchers : conn'[w] = "open" => conn[w] = "open"
      BY <1>0, <3>3 DEF PeerGone, ServerNotices, Leave, TypeOK
    <3>4. QED BY <1>8, <3>1, <3>2, <3>3
  <2>3. QED BY <1>1, <2>1, <2>2, ShownSame
<1>a. ASSUME NEW s \in Sockets, GreetStep(s) PROVE Shown'
  <2>1. UNCHANGED <<row, pc, iter, room>> /\ \A w \in Watchers : w \notin Sockets => conn'[w] = conn[w]
    BY <1>0, <1>a DEF GreetStep, AcceptFails, ReadWelcome, SendWelcome, TypeOK
  <2>2. view' = view
    BY <1>a, ConnsDistinct DEF GreetStep, AcceptFails, ReadWelcome, SendWelcome, Deliver
  <2>3. \A w \in room["users"] : w \in Watchers /\ w \notin Sockets
    BY <1>0, ConnsDistinct DEF Homes
  <2>4. QED BY <2>1, <2>2, <2>3, ShownSame
<1>9. CASE DeviceSubscribe \/ DeviceOffline \/ DeviceStep \/ \E a \in acks : LoseAck(a)
  <2>1. UNCHANGED <<row, view, pc, iter, room, conn>>
    BY <1>9 DEF DeviceSubscribe, DeviceOffline, DeviceStep, DeviceReceive, DevicePoll, PollAnswered, PollLost, DeviceAck, LoseAck,
                serverVars, netVars
  <2>2. QED BY <2>1, ShownSame
<1>10. QED BY <1>0, <1>2, <1>3, <1>4, <1>5, <1>6, <1>7, <1>8, <1>a, <1>9, PromptNext, ShownSend DEF NetStep

ShownInv == paused \/ (Solo /\ Fresh /\ Shown)

LEMMA PausedStays ==
    ASSUME TypeOK, Next, paused
    PROVE  paused'
<1>1. CASE \E t \in Tasks : TaskStep(t)
  BY <1>1 DEF TaskStep, SendTo, EndBroadcast, AbortBroadcast, SendDuplicate, Publish, PublishFails
<1>2. CASE \E t \in Ackers, a \in acks : AckStep(t, a)
  BY <1>2 DEF AckStep, AckOverHttp, AckOverSocket, AckOnThread
<1>3. CASE NetStep
  BY <1>3 DEF NetStep, DeviceConnect, GreetStep, AcceptFails, ReadWelcome, SendWelcome, UserConnect, PeerGone,
              ServerNotices, DeviceSubscribe, DeviceOffline
<1>4. CASE DeviceStep \/ \E a \in acks : LoseAck(a)
  BY <1>4 DEF DeviceStep, DeviceReceive, DevicePoll, PollAnswered, PollLost, DeviceAck, LoseAck
<1>5. CASE RunScheduled \/ \E t \in Requests : RequestStep(t)
  BY <1>5 DEF RunScheduled, RequestStep, PutControls, PutReset, PutTracking
<1>6. QED BY <1>1, <1>2, <1>3, <1>4, <1>5 DEF Next

LEMMA ShownAlways == ASSUME Prompt PROVE Spec => []ShownInv
<1>1. Init => ShownInv
  BY DEF Init, ShownInv, Solo, Fresh, Shown, Phases
<1>2. ASSUME IInv, ShownInv, Next PROVE ShownInv'
  <2>1. CASE paused'
    BY <2>1 DEF ShownInv
  <2>2. CASE ~paused'
    <3>1. Solo /\ Fresh /\ Shown
      BY <1>2, <2>2, PausedStays DEF ShownInv, IInv
    <3>2. QED BY <1>2, <2>2, <3>1, SoloNext, FreshNext, ShownNext DEF ShownInv, IInv
  <2>3. QED BY <2>1, <2>2
<1>3. ASSUME ShownInv, UNCHANGED vars PROVE ShownInv'
  BY <1>3 DEF vars, ShownInv, Solo, Alone, Intact, Fresh, Shown
<1>4. IInv /\ ShownInv /\ [Next]_vars => ShownInv'
  BY <1>2, <1>3
<1>5. QED BY <1>1, <1>4, Inductive, PTL DEF Spec

\* Until a broadcast is interrupted between two sends, the broadcasts of successive
\* commands and acks cannot overtake one another: in a quiet system an app that was sent
\* anything since the latest revision was made shows that revision, duplicates, MQTT
\* publishes and connecting trackers or not.
THEOREM AppShowsLatestHolds == ASSUME Prompt PROVE Spec => []AppShowsLatest
<1>1. ASSUME Settled PROVE \A t \in Tasks : pc[t] \notin {"device", "users"}
  BY <1>1 DEF Settled
<1>2. ShownInv => AppShowsLatest
  BY <1>1 DEF AppShowsLatest, ShownInv, Shown
<1>3. QED BY <1>2, ShownAlways, PTL

-----------------------------------------------------------------------------
(* What reached the tracker.                                               *)

\* The tracker reads one socket at a time, a live one.
Seats ==
    /\ \A s \in Sockets \cap attached : conn[s] = "open"
    /\ \A s, u \in Sockets \cap attached : s = u

\* A broadcast still has the revision of the row to send to s, and cannot end before it
\* has, but only break off.
Owing(t, s) ==
    /\ pc[t] = "device" /\ snap[t].ver = row.ver
    /\ s \notin iter[t].seen
    /\ \/ iter[t].seen \subseteq room["device"] /\ iter[t].size = Cardinality(room["device"])
       \/ iter[t].size > Cardinality(room["device"])

\* The revision of the row reached the tracker, or is lost with a broken broadcast, or is
\* on its way on socket s.
Coming(s) ==
    \/ row.ver \in actuated \union cut
    \/ \E i \in 1..Len(inbox[s]) : inbox[s][i].ver = row.ver
    \/ greet[s] = Accepting
    \/ greet[s] \notin {None, Accepting} /\ greet[s].ver = row.ver
    \/ \E t \in Requests : Owing(t, s)

LEMMA SeatsNext ==
    ASSUME TypeOK, Seats, Next
    PROVE  Seats'
<1>1. ASSUME attached' \cap Sockets \subseteq attached,
             \A l \in Sockets \cap attached' : conn[l] = "open" => conn'[l] = "open"
      PROVE  Seats'
  BY <1>1 DEF Seats
<1>2. ASSUME NEW s \in Sockets, DeviceConnect(s) PROVE Seats'
  <2>1. attached' \cap Sockets = {s}
    BY <1>2 DEF DeviceConnect
  <2>2. conn'[s] = "open"
    BY <1>2 DEF DeviceConnect, TypeOK
  <2>3. QED BY <2>1, <2>2 DEF Seats
<1>3. ASSUME NEW w \in Watchers, UserConnect(w) PROVE Seats'
  <2>1. attached' = attached /\ \A l \in Sockets : conn[l] = "open" => conn'[l] = "open"
    BY <1>3 DEF UserConnect, TypeOK
  <2>2. QED BY <1>1, <2>1
<1>4. ASSUME NEW x \in Sockets \union Watchers, PeerGone(x) PROVE Seats'
  <2>1. attached' = attached \ {x} /\ \A l \in Sockets : l # x => conn'[l] = conn[l]
    BY <1>4 DEF PeerGone, TypeOK
  <2>2. QED BY <1>1, <2>1
<1>5. ASSUME NEW x \in Sockets \union Watchers, ServerNotices(x) \/ (x \in Sockets /\ AcceptFails(x)) PROVE Seats'
  <2>1. attached' = attached /\ \A l \in Sockets : conn[l] = "open" => conn'[l] = "open"
    BY <1>5 DEF ServerNotices, AcceptFails, TypeOK
  <2>2. QED BY <1>1, <2>1
<1>6. ASSUME NEW s \in Sockets, ReadWelcome(s) \/ SendWelcome(s) PROVE Seats'
  BY <1>1, <1>6 DEF ReadWelcome, SendWelcome
<1>7. CASE DeviceSubscribe \/ DeviceOffline
  <2>1. attached' \cap Sockets \subseteq attached /\ conn' = conn
    BY <1>7, BrokerDistinct DEF DeviceSubscribe, DeviceOffline
  <2>2. QED BY <1>1, <2>1
<1>8. ASSUME NEW t \in Tasks, TaskStep(t) PROVE Seats'
  <2>1. CASE AbortBroadcast(t)
    <3>1. attached' = attached \ {src[t]} /\ \A l \in Sockets : l # src[t] => conn'[l] = conn[l]
      BY <2>1 DEF AbortBroadcast, TypeOK
    <3>2. QED BY <1>1, <3>1
  <2>2. CASE ~AbortBroadcast(t)
    BY <1>1, <1>8, <2>2 DEF TaskStep, SendTo, EndBroadcast, SendDuplicate, Publish, PublishFails, netVars
  <2>3. QED BY <2>1, <2>2
<1>9. CASE \/ \E t \in Requests : RequestStep(t)
           \/ \E t \in Ackers, a \in acks : AckStep(t, a)
           \/ RunScheduled \/ DeviceStep \/ \E a \in acks : LoseAck(a)
  <2>1. UNCHANGED <<conn, attached>>
    BY <1>9 DEF RequestStep, PutControls, PutReset, PutTracking, AckStep, AckOverHttp, AckOverSocket,
                AckOnThread, RunScheduled, DeviceStep, DeviceReceive, DevicePoll, PollAnswered, PollLost,
                DeviceAck, LoseAck, netVars
  <2>2. QED BY <1>1, <2>1
<1>10. QED BY <1>2, <1>3, <1>4, <1>5, <1>6, <1>7, <1>8, <1>9 DEF Next, NetStep, GreetStep

\* A connected tracker's socket is in its room.
LEMMA Seated ==
    ASSUME Homes, Hearing, Seats, NEW s \in Sockets, s \in attached
    PROVE  s \in room["device"] /\ conn[s] = "open"
BY ConnsDistinct DEF Homes, Hearing, LiveConnectionsHear, Seats

LEMMA RoomFinite ==
    ASSUME TypeOK
    PROVE  IsFiniteSet(room["device"])
<1>1. IsFiniteSet(Sockets \union Watchers)
  BY SocketsFinite, WatchersFinite, FS_Union
<1>2. room["device"] \in SUBSET (Sockets \union Watchers)
  BY DEF TypeOK
<1>3. QED BY <1>1, <1>2, FS_Subset

\* While the tracker is connected its room only shrinks: what was owed stays owed.
LEMMA OwingKept ==
    ASSUME TypeOK, TypeOK', NEW t \in Tasks, NEW s, Owing(t, s),
           room'["device"] \subseteq room["device"], row'.ver = row.ver,
           pc'[t] = pc[t], snap'[t] = snap[t],
           iter'[t].seen = iter[t].seen, iter'[t].size = iter[t].size
    PROVE  Owing(t, s)'
<1>1. /\ Cardinality(room'["device"]) <= Cardinality(room["device"])
      /\ Cardinality(room["device"]) = Cardinality(room'["device"]) => room["device"] = room'["device"]
      /\ IsFiniteSet(room'["device"])
  BY RoomFinite, FS_Subset
<1>2. Cardinality(room["device"]) \in Nat /\ Cardinality(room'["device"]) \in Nat
  BY <1>1, RoomFinite, FS_CardinalityType
<1>3. iter[t].size \in Int
  BY DEF TypeOK, Iter
<1>4. QED BY <1>1, <1>2, <1>3 DEF Owing

\* An iteration of a room that is not emptied keeps its set.
LEMMA OrphanOther ==
    ASSUME TypeOK, NEW t \in Tasks, NEW k, NEW S, pc[t] = "device", k = "device" => S # {}
    PROVE  Orphan(k, S)[t] = iter[t]
BY DEF Orphan, RoomOf, Phases

LEMMA ComingSame ==
    ASSUME NEW s, Coming(s), row'.ver = row.ver, actuated \subseteq actuated', cut \subseteq cut',
           greet'[s] = greet[s],
           \A i \in 1..Len(inbox[s]) : \E j \in 1..Len(inbox'[s]) : inbox'[s][j] = inbox[s][i],
           \A t \in Requests : Owing(t, s) => Owing(t, s)'
    PROVE  Coming(s)'
BY DEF Coming

\* A step that touches no broadcast to the tracker and none of its messages.
LEMMA ComingIdle ==
    ASSUME TypeOK, TypeOK', NEW s, Coming(s), row'.ver = row.ver, actuated \subseteq actuated', cut' = cut,
           greet'[s] = greet[s], inbox'[s] = inbox[s], room'["device"] \subseteq room["device"],
           \A t \in Requests : pc[t] = "device" => pc'[t] = pc[t] /\ snap'[t] = snap[t] /\ iter'[t] = iter[t]
    PROVE  Coming(s)'
<1>1. ASSUME NEW t \in Requests, Owing(t, s) PROVE Owing(t, s)'
  BY <1>1, OwingKept DEF Owing
<1>2. QED BY <1>1, ComingSame

LEMMA ComingRequest ==
    ASSUME TypeOK, TypeOK', NEW s, s \in room["device"], Coming(s), NEW t \in Requests, RequestStep(t)
    PROVE  Coming(s)'
<1>1. ASSUME NEW c \in Controls, PutControls(t, c) PROVE Coming(s)'
  <2>1. pc'[t] = "device" /\ snap'[t] = row' /\ iter'[t] = Over(RoomOf["device"], FALSE) /\ room' = room
    BY <1>1 DEF PutControls, StartBroadcast, netVars, TypeOK
  <2>2. RoomOf["device"] = "device"
    BY DEF RoomOf, Phases
  <2>3. iter'[t].seen = {} /\ iter'[t].size = Cardinality(room["device"])
    BY <2>1, <2>2 DEF Over
  <2>4. Owing(t, s)'
    BY <2>1, <2>3 DEF Owing
  <2>5. QED BY <2>4 DEF Coming
<1>2. CASE PutReset(t) \/ PutTracking(t)
  <2>1. pc[t] = "ready" /\ UNCHANGED <<row, actuated, cut, greet, inbox, room>>
    BY <1>2 DEF PutReset, PutTracking, netVars, devVars
  <2>2. \A u \in Requests : u # t => pc'[u] = pc[u] /\ snap'[u] = snap[u] /\ iter'[u] = iter[u]
    BY <1>2 DEF PutReset, PutTracking, StartBroadcast, TypeOK
  <2>3. QED BY <2>1, <2>2, ComingIdle
<1>3. QED BY <1>1, <1>2 DEF RequestStep

\* A message appended to the socket is still to be read.
LEMMA Appended ==
    ASSUME NEW q \in Seq(Row), NEW r \in Row
    PROVE  /\ \A i \in 1..Len(q) : \E j \in 1..Len(Append(q, r)) : Append(q, r)[j] = q[i]
           /\ \E j \in 1..Len(Append(q, r)) : Append(q, r)[j] = r
<1>1. Len(Append(q, r)) = Len(q) + 1 /\ Len(q) \in Nat
  OBVIOUS
<1>2. \A i \in 1..Len(q) : Append(q, r)[i] = q[i] /\ i \in 1..Len(Append(q, r))
  BY <1>1
<1>3. Append(q, r)[Len(q) + 1] = r /\ Len(q) + 1 \in 1..Len(Append(q, r))
  BY <1>1
<1>4. QED BY <1>2, <1>3

LEMMA ComingSend ==
    ASSUME TypeOK, TypeOK', NEW s \in Sockets, s \in attached, conn[s] = "open", s \in room["device"], Coming(s),
           NEW t \in Tasks, NEW x \in Sockets \union Watchers, SendTo(t, x), snap[t] \in Row
    PROVE  Coming(s)'
<1>1. /\ UNCHANGED <<row, actuated, cut, greet, room, pc, snap>> /\ x \in room[RoomOf[pc[t]]]
      /\ inbox[s] \in Seq(Row)
  BY DEF SendTo, devVars, TypeOK
<1>2. inbox'[s] = inbox[s] \/ (x = s /\ inbox'[s] = Append(inbox[s], snap[t]))
  BY DEF SendTo, Deliver, TypeOK
<1>3. \A i \in 1..Len(inbox[s]) : \E j \in 1..Len(inbox'[s]) : inbox'[s][j] = inbox[s][i]
  <2>1. \A i \in 1..Len(inbox[s]) : \E j \in 1..Len(Append(inbox[s], snap[t])) :
            Append(inbox[s], snap[t])[j] = inbox[s][i]
    BY <1>1, Appended
  <2>2. CASE inbox'[s] = inbox[s]
    BY <2>2
  <2>3. CASE inbox'[s] = Append(inbox[s], snap[t])
    BY <2>1, <2>3
  <2>4. QED BY <1>2, <2>2, <2>3
<1>4. \A u \in Tasks : u # t => iter'[u] = iter[u]
  BY DEF SendTo, TypeOK
<1>5. iter'[t].seen = iter[t].seen \union {x} /\ iter'[t].size = iter[t].size
  BY DEF SendTo, TypeOK, Iter
<1>6. ASSUME Owing(t, s), x # s PROVE Owing(t, s)'
  <2>1. x \in room["device"]
    BY <1>1, <1>6 DEF Owing, RoomOf, Phases
  <2>2. QED BY <1>1, <1>5, <1>6, <2>1 DEF Owing
<1>7. CASE x # s \/ ~Owing(t, s)
  <2>1. ASSUME NEW u \in Requests, Owing(u, s), u # t PROVE Owing(u, s)'
    BY <1>1, <1>4, <2>1 DEF Owing
  <2>2. QED BY <1>1, <1>3, <1>6, <1>7, <2>1, ComingSame
<1>8. CASE x = s /\ Owing(t, s)
  <2>1. inbox'[s] = Append(inbox[s], snap[t])
    BY <1>8 DEF SendTo, Deliver, TypeOK
  <2>2. snap[t].ver = row'.ver
    BY <1>1, <1>8 DEF Owing
  <2>3. \E j \in 1..Len(Append(inbox[s], snap[t])) : Append(inbox[s], snap[t])[j] = snap[t]
    BY <1>1, Appended
  <2>4. \E j \in 1..Len(inbox'[s]) : inbox'[s][j].ver = row'.ver
    BY <2>1, <2>2, <2>3
  <2>5. QED BY <2>4 DEF Coming
<1>9. QED BY <1>7, <1>8

\* A broadcast that owes s a revision does not end.
LEMMA OwingGoesOn ==
    ASSUME TypeOK, NEW t \in Tasks, NEW s, s \in room["device"], Owing(t, s)
    PROVE  ~EndBroadcast(t)
<1>1. SUFFICES ASSUME EndBroadcast(t) PROVE FALSE
  OBVIOUS
<1>2. RoomOf[pc[t]] = "device" /\ iter[t].size = Cardinality(room["device"])
  BY <1>1 DEF EndBroadcast, Intact, Owing, RoomOf, Phases
<1>3. Cardinality(room["device"]) \in Nat
  BY RoomFinite, FS_CardinalityType
<1>4. iter[t].seen \subseteq room["device"]
  BY <1>2, <1>3 DEF Owing
<1>5. /\ Cardinality(iter[t].seen) <= Cardinality(room["device"])
      /\ Cardinality(room["device"]) = Cardinality(iter[t].seen) => room["device"] = iter[t].seen
      /\ IsFiniteSet(iter[t].seen)
  BY <1>4, RoomFinite, FS_Subset
<1>6. Cardinality(iter[t].seen) \in Nat
  BY <1>5, FS_CardinalityType
<1>7. room["device"] \subseteq iter[t].seen
  BY <1>1, <1>2, <1>3, <1>5, <1>6 DEF EndBroadcast
<1>8. QED BY <1>7 DEF Owing

LEMMA ComingEnd ==
    ASSUME TypeOK, TypeOK', NEW s, s \in room["device"], s \in room'["device"], Coming(s),
           NEW t \in Tasks, EndBroadcast(t)
    PROVE  Coming(s)'
<1> DEFINE k == RoomOf[pc[t]]
           rest == Survivors(t, k)
<1>1. UNCHANGED <<row, actuated, cut, greet, inbox>> /\ room' = [room EXCEPT ![k] = rest]
      /\ \E n : iter' = [Orphan(k, rest) EXCEPT ![t] = n]
  BY DEF EndBroadcast, devVars
<1>2. k \in {"device", "users"}
  BY PhaseRoom DEF EndBroadcast
<1>3. room'["device"] \subseteq room["device"] /\ (k = "device" => rest # {})
  BY <1>1, <1>2 DEF Survivors, TypeOK
<1>4. \A u \in Tasks : u # t => pc'[u] = pc[u] /\ snap'[u] = snap[u]
  BY DEF EndBroadcast, TypeOK
<1>5. Orphan(k, rest) \in [Tasks -> Iter]
  <2> HIDE DEF k, rest
  <2>1. QED BY OrphanType
<1>6. ASSUME NEW u \in Requests, Owing(u, s) PROVE Owing(u, s)'
  <2>1. u # t
    BY <1>6, OwingGoesOn
  <2>2. pc[u] = "device"
    BY <1>6 DEF Owing
  <2> HIDE DEF k, rest
  <2>3. iter'[u] = Orphan(k, rest)[u]
    BY <1>1, <1>5, <2>1
  <2>4. iter'[u] = iter[u]
    BY <1>3, <2>2, <2>3, OrphanOther
  <2>5. QED BY <1>1, <1>3, <1>4, <1>6, <2>1, <2>4, OwingKept
<1>7. QED BY <1>1, <1>6, ComingSame

LEMMA ComingAbort ==
    ASSUME TypeOK, TypeOK', NEW s \in Sockets, s \in attached', s \in room["device"], s \in room'["device"],
           Coming(s), NEW t \in Tasks, AbortBroadcast(t)
    PROVE  Coming(s)'
<1> DEFINE rest == Leave("device", src[t])
<1>1. UNCHANGED <<row, actuated, greet>> /\ cut \subseteq cut' /\ s # src[t]
      /\ room' = [room EXCEPT !["device"] = rest] /\ iter' = [Orphan("device", rest) EXCEPT ![t] = IdleIter]
  BY DEF AbortBroadcast, devVars
<1>2. inbox'[s] = inbox[s] /\ \A u \in Tasks : u # t => pc'[u] = pc[u] /\ snap'[u] = snap[u]
  BY <1>1 DEF AbortBroadcast, TypeOK
<1>3. room'["device"] \subseteq room["device"] /\ rest # {}
  BY <1>1 DEF Leave, TypeOK
<1>4. Orphan("device", rest) \in [Tasks -> Iter]
  <2> HIDE DEF rest
  <2>1. QED BY OrphanType
<1>5. ASSUME NEW u \in Requests, Owing(u, s), u # t PROVE Owing(u, s)'
  <2>1. pc[u] = "device"
    BY <1>5 DEF Owing
  <2> HIDE DEF rest
  <2>2. iter'[u] = iter[u]
    BY <1>1, <1>3, <1>4, <1>5, <2>1, OrphanOther
  <2>3. QED BY <1>1, <1>2, <1>3, <1>5, <2>2, OwingKept
<1>6. CASE Owing(t, s)
  BY <1>1, <1>6 DEF AbortBroadcast, Owing, Coming
<1>7. CASE ~Owing(t, s)
  BY <1>1, <1>2, <1>5, <1>7, ComingSame
<1>8. QED BY <1>6, <1>7

LEMMA ComingTask ==
    ASSUME TypeOK, TypeOK', Carrying, NEW s \in Sockets, s \in attached, s \in attached', conn[s] = "open",
           s \in room["device"], s \in room'["device"], Coming(s), NEW t \in Tasks, TaskStep(t)
    PROVE  Coming(s)'
<1>1. ASSUME NEW x \in Sockets \union Watchers, SendTo(t, x) PROVE Coming(s)'
  <2>1. snap[t] \in Row
    BY <1>1 DEF SendTo, Carrying, TypeOK
  <2>2. QED BY <1>1, <2>1, ComingSend
<1>2. CASE SendDuplicate(t)
  <2>1. pc[t] = "sleep" /\ UNCHANGED <<row, actuated, cut, greet, inbox, room>>
    BY <1>2 DEF SendDuplicate, netVars, devVars
  <2>2. \A u \in Tasks : u # t => pc'[u] = pc[u] /\ snap'[u] = snap[u] /\ iter'[u] = iter[u]
    BY <1>2 DEF SendDuplicate, StartBroadcast, TypeOK
  <2>3. QED BY <2>1, <2>2, ComingIdle
<1>3. CASE Publish(t) \/ PublishFails(t)
  <2>1. pc[t] = "publish" /\ UNCHANGED <<row, actuated, cut, greet, room, iter>>
    BY <1>3 DEF Publish, PublishFails, netVars, devVars
  <2>2. \A u \in Tasks : u # t => pc'[u] = pc[u] /\ snap'[u] = snap[u]
    BY <1>3 DEF Publish, PublishFails, TypeOK
  <2>3. inbox'[s] = inbox[s]
    BY <1>3, BrokerDistinct DEF Publish, Deliver, PublishFails, netVars, TypeOK
  <2>4. QED BY <2>1, <2>2, <2>3, ComingIdle
<1>4. QED BY <1>1, <1>2, <1>3, ComingEnd, ComingAbort DEF TaskStep

LEMMA ComingAck ==
    ASSUME TypeOK, TypeOK', NEW s, Coming(s),
           RunScheduled \/ \E t \in Ackers, a \in acks : AckStep(t, a)
    PROVE  Coming(s)'
<1>1. ASSUME NEW t \in Ackers, NEW a \in acks, AckStep(t, a) PROVE Coming(s)'
  <2>1. row' = Acked(row, a.ver) /\ UNCHANGED <<actuated, cut, greet, inbox, room>>
    <3>1. CASE AckOverHttp(t, a) \/ AckOverSocket(t, a)
      BY <3>1, OnLoop DEF netVars, devVars
    <3>2. CASE AckOnThread(t, a)
      BY <3>2 DEF AckOnThread, netVars, devVars
    <3>3. QED BY <1>1, <3>1, <3>2 DEF AckStep
  <2>2. row'.ver = row.ver
    BY <2>1 DEF Acked, TypeOK, Row
  <2>3. \A u \in Tasks : u # t => pc'[u] = pc[u] /\ snap'[u] = snap[u] /\ iter'[u] = iter[u]
    <3>1. ASSUME NEW p, NEW m, StartBroadcast(t, p, m)
          PROVE  \A u \in Tasks : u # t => pc'[u] = pc[u] /\ snap'[u] = snap[u] /\ iter'[u] = iter[u]
      BY <3>1 DEF StartBroadcast, TypeOK
    <3>2. CASE AckOverHttp(t, a) \/ AckOverSocket(t, a)
      BY <3>1, <3>2 DEF AckOverHttp, AckOverSocket
    <3>3. CASE AckOnThread(t, a)
      BY <3>3 DEF AckOnThread, TypeOK
    <3>4. QED BY <1>1, <3>2, <3>3 DEF AckStep
  <2>4. QED BY <2>1, <2>2, <2>3, ComingIdle, TasksDistinct
<1>2. CASE RunScheduled
  <2>1. Head(scheduled) \in Ackers /\ UNCHANGED <<row, actuated, cut, greet, inbox, room>>
    BY <1>2 DEF RunScheduled, netVars, devVars, TypeOK
  <2>2. \A u \in Tasks : u # Head(scheduled) => pc'[u] = pc[u] /\ snap'[u] = snap[u] /\ iter'[u] = iter[u]
    BY <1>2 DEF RunScheduled, StartBroadcast, TypeOK
  <2>3. QED BY <2>1, <2>2, ComingIdle, TasksDistinct
<1>3. QED BY <1>1, <1>2

\* The steps of other connections, and of this one but for its welcome.
LEMMA ComingNet ==
    ASSUME TypeOK, TypeOK', NEW s \in Sockets, s \in attached, s \in attached', conn[s] = "open",
           s \in room["device"], s \in room'["device"], Coming(s), NetStep
    PROVE  Coming(s)'
<1>1. ASSUME NEW u \in Sockets, DeviceConnect(u) PROVE FALSE
  BY <1>1 DEF DeviceConnect
<1>2. ASSUME NEW u \in Sockets, GreetStep(u), u # s PROVE Coming(s)'
  <2>1. UNCHANGED <<row, actuated, cut, pc, snap, iter, room>>
    BY <1>2 DEF GreetStep, AcceptFails, ReadWelcome, SendWelcome, devVars
  <2>2. greet'[s] = greet[s] /\ inbox'[s] = inbox[s]
    BY <1>2 DEF GreetStep, AcceptFails, ReadWelcome, SendWelcome, Deliver, TypeOK
  <2>3. QED BY <2>1, <2>2, ComingIdle
<1>3. CASE ReadWelcome(s)
  BY <1>3, NoneIsNoRow DEF ReadWelcome, Welcome, Coming, TypeOK
<1>4. CASE SendWelcome(s)
  <2>1. greet[s] \in Row /\ inbox'[s] = Append(inbox[s], greet[s]) /\ inbox[s] \in Seq(Row)
    BY <1>4 DEF SendWelcome, Deliver, TypeOK
  <2>2. UNCHANGED <<row, actuated, cut, pc, snap, iter, room>>
    BY <1>4 DEF SendWelcome, devVars
  <2>3. CASE greet[s].ver = row.ver
    <3>1. \E j \in 1..Len(Append(inbox[s], greet[s])) : Append(inbox[s], greet[s])[j] = greet[s]
      BY <2>1, Appended
    <3>2. \E j \in 1..Len(inbox'[s]) : inbox'[s][j].ver = row'.ver
      BY <2>1, <2>2, <2>3, <3>1
    <3>3. QED BY <3>2 DEF Coming
  <2>4. CASE greet[s].ver # row.ver
    <3>1. /\ \A i \in 1..Len(inbox[s]) : \E j \in 1..Len(inbox'[s]) : inbox'[s][j] = inbox[s][i]
          /\ \A t \in Requests : Owing(t, s) => Owing(t, s)'
      BY <2>1, <2>2, Appended DEF Owing
    <3>2. greet[s] # Accepting
      BY <1>4 DEF SendWelcome
    <3>3. QED BY <2>2, <2>4, <3>1, <3>2 DEF Coming
  <2>5. QED BY <2>3, <2>4
<1>5. ~AcceptFails(s)
  BY DEF AcceptFails
<1>6. ASSUME \/ \E w \in Watchers : UserConnect(w)
             \/ \E x \in Sockets \union Watchers : PeerGone(x)
             \/ DeviceSubscribe \/ DeviceOffline
      PROVE  Coming(s)'
  <2>1. UNCHANGED <<row, actuated, cut, greet, pc, snap, iter>> /\ room'["device"] = room["device"]
    BY <1>6 DEF UserConnect, PeerGone, DeviceSubscribe, DeviceOffline, serverVars, devVars, TypeOK
  <2>2. inbox'[s] = inbox[s]
    BY <1>6, BrokerDistinct DEF UserConnect, PeerGone, DeviceSubscribe, DeviceOffline, TypeOK
  <2>3. QED BY <2>1, <2>2, ComingIdle
<1>7. ASSUME NEW x \in Sockets \union Watchers, ServerNotices(x) PROVE Coming(s)'
  <2>1. PICK k \in {"device", "users"} :
           room' = [room EXCEPT ![k] = Leave(k, x)] /\ iter' = Orphan(k, Leave(k, x))
    BY <1>7 DEF ServerNotices
  <2>2. UNCHANGED <<row, actuated, cut, greet, inbox, pc, snap>>
    BY <1>7 DEF ServerNotices, devVars
  <2>3. room'["device"] \subseteq room["device"] /\ (k = "device" => Leave(k, x) # {})
    BY <2>1 DEF Leave, TypeOK
  <2>4. \A t \in Tasks : pc[t] = "device" => iter'[t] = iter[t]
    BY <2>1, <2>3, OrphanOther
  <2>5. QED BY <2>2, <2>3, <2>4, ComingIdle
<1>8. QED BY <1>1, <1>2, <1>3, <1>4, <1>5, <1>6, <1>7 DEF NetStep, GreetStep

LEMMA ComingDevice ==
    ASSUME TypeOK, TypeOK', NEW s \in Sockets, Coming(s), DeviceStep \/ \E a \in acks : LoseAck(a)
    PROVE  Coming(s)'
<1>1. CASE DeviceReceive(s)
  <2>1. /\ inbox[s] \in Seq(Row) /\ inbox[s] # <<>> /\ inbox'[s] = Tail(inbox[s])
        /\ actuated' = actuated \union {Head(inbox[s]).ver}
        /\ UNCHANGED <<row, cut, greet, pc, snap, iter, room>>
    BY <1>1 DEF DeviceReceive, Apply, serverVars, TypeOK
  <2>2. \A t \in Requests : Owing(t, s) => Owing(t, s)'
    BY <2>1 DEF Owing
  <2>3. ASSUME NEW i \in 1..Len(inbox[s]), inbox[s][i].ver = row.ver PROVE Coming(s)'
    <3>1. CASE i = 1
      BY <2>1, <2>3, <3>1 DEF Coming
    <3>2. CASE i # 1
      <4>1. i - 1 \in 1..Len(Tail(inbox[s])) /\ Tail(inbox[s])[i - 1] = inbox[s][i]
        BY <2>1, <3>2
      <4>2. QED BY <2>1, <2>3, <4>1 DEF Coming
    <3>3. QED BY <3>1, <3>2
  <2>4. QED BY <2>1, <2>2, <2>3 DEF Coming
<1>2. ASSUME NEW l \in Links, DeviceReceive(l), l # s PROVE Coming(s)'
  <2>1. /\ UNCHANGED <<row, cut, greet, pc, snap, iter, room>> /\ actuated \subseteq actuated'
        /\ inbox'[s] = inbox[s]
    BY <1>2 DEF DeviceReceive, Apply, serverVars, TypeOK
  <2>2. QED BY <2>1, ComingIdle
<1>3. CASE \/ DevicePoll \/ PollAnswered \/ PollLost \/ \E a \in AckSources : DeviceAck(a)
           \/ \E a \in acks : LoseAck(a)
  <2>1. UNCHANGED <<row, cut, greet, inbox, pc, snap, iter, room>> /\ actuated \subseteq actuated'
    BY <1>3 DEF DevicePoll, PollAnswered, Apply, PollLost, DeviceAck, LoseAck, serverVars, netVars, devVars
  <2>2. QED BY <2>1, ComingIdle
<1>4. QED BY <1>1, <1>2, <1>3 DEF DeviceStep

Reaching == Seats /\ \A s \in Sockets \cap attached : Coming(s)

LEMMA ReachingNext ==
    ASSUME IInv, IInv', Hearing, Hearing', Reaching, [Next]_vars
    PROVE  Reaching'
<1>0. TypeOK /\ TypeOK' /\ Carrying /\ Homes /\ Homes'
  BY DEF IInv
<1>1. CASE UNCHANGED vars
  BY <1>1 DEF vars, Reaching, Seats, Coming, Owing
<1>2. CASE Next
  <2>1. Seats /\ Seats'
    BY <1>0, <1>2, SeatsNext DEF Reaching
  <2>2. ASSUME NEW s \in Sockets, s \in attached', s \in attached PROVE Coming(s)'
    <3>1. Coming(s)
      BY <2>2 DEF Reaching
    <3>2. s \in room["device"] /\ conn[s] = "open"
      BY <1>0, <2>1, <2>2, Seated
    <3>3. s \in room'["device"]
      BY <1>0, <2>1, <2>2, ConnsDistinct DEF Homes, Hearing, LiveConnectionsHear, Seats
    <3>4. QED
      BY <1>0, <1>2, <2>2, <3>1, <3>2, <3>3, ComingRequest, ComingTask, ComingAck, ComingNet, ComingDevice
      DEF Next
  <2>3. ASSUME NEW s \in Sockets, s \in attached', s \notin attached PROVE Coming(s)'
    <3>1. CASE DeviceConnect(s)
      BY <1>0, <3>1 DEF DeviceConnect, Coming, TypeOK
    <3>2. CASE ~DeviceConnect(s)
      <4>1. attached' \cap Sockets \subseteq attached
        <5>1. CASE NetStep
          BY <2>3, <3>2, <5>1, BrokerDistinct DEF NetStep, DeviceConnect, GreetStep, AcceptFails, ReadWelcome, SendWelcome,
                       UserConnect, PeerGone, ServerNotices, DeviceSubscribe, DeviceOffline
        <5>2. CASE \E t \in Tasks : TaskStep(t)
          BY <5>2 DEF TaskStep, SendTo, EndBroadcast, AbortBroadcast, SendDuplicate, Publish, PublishFails, netVars
        <5>3. CASE ~NetStep /\ ~\E t \in Tasks : TaskStep(t)
          BY <1>2, <5>3 DEF Next, RequestStep, PutControls, PutReset, PutTracking, AckStep, AckOverHttp,
                AckOverSocket, AckOnThread, RunScheduled, DeviceStep, DeviceReceive, DevicePoll, PollAnswered,
                PollLost, DeviceAck, LoseAck, netVars
        <5>4. QED BY <5>1, <5>2, <5>3
      <4>2. QED BY <2>3, <4>1
    <3>3. QED BY <3>1, <3>2
  <2>4. QED BY <2>1, <2>2, <2>3 DEF Reaching
<1>3. QED BY <1>1, <1>2

\* No revision passes a connected tracker by, whatever blocks, fails, aborts or reconnects,
\* with duplicates, polls and MQTT or without: because the socket joins its room before
\* the welcome is read, the welcome or a broadcast has every revision for it, and only a
\* broadcast that broke off can leave one out.
THEOREM NoRevisionMissedHolds == Spec => []NoRevisionMissed
<1>1. Init => Reaching
  BY DEF Init, Reaching, Seats
<1>2. IInv /\ IInv' /\ Hearing /\ Hearing' /\ Reaching /\ [Next]_vars => Reaching'
  BY ReachingNext
<1>3. Reaching => NoRevisionMissed
  <2>1. SUFFICES ASSUME Reaching, \A t \in Requests : pc[t] # "device",
                        NEW s \in Sockets \cap attached, greet[s] = None, inbox[s] = <<>>
                 PROVE  row.ver \in actuated \union cut
    BY DEF NoRevisionMissed, Connected
  <2>2. Coming(s) /\ Len(inbox[s]) = 0
    BY <2>1 DEF Reaching
  <2>3. QED BY <2>1, <2>2, NoneIsNoRow DEF Coming, Owing
<1>4. QED BY <1>1, <1>2, <1>3, Inductive, HearingAlways, PTL DEF Spec
=============================================================================
