------------------------------ MODULE ControlSync ------------------------------
(***************************************************************************)
(* How a command ("kill switch on") travels from the app to one tracker    *)
(* and how its confirmation travels back.                                  *)
(*                                                                         *)
(* One server process runs one asyncio loop.  The psycopg2 calls block the *)
(* loop, so a handler is atomic between two awaits that really suspend;    *)
(* `loop' names the coroutine that holds it.  Two kinds of threads run     *)
(* beside the loop: the paho thread that receives MQTT acks and commits    *)
(* them itself, and the pool threads that publish to the broker.           *)
(*                                                                         *)
(* What the server sends is a snapshot of the device row taken at a commit *)
(* or at a read, a record of type Row; only the message that forwards a    *)
(* socket's ack to the apps puts the tracker's settings beside the row's   *)
(* revisions.                                                              *)
(***************************************************************************)
EXTENDS Integers, Sequences, FiniteSets

CONSTANTS
    Requests,       \* app requests: PUT controls, POST reset, PUT tracking
    Ackers,         \* concurrent handlers of the tracker's acks
    Sockets,        \* WebSocket connections the tracker makes, one after another
    Watchers,       \* WebSocket connections of app users watching the tracker
    Broker,         \* the MQTT link between the broker and the tracker
    Controls,       \* the settings a command can ask for (control_1..control_4)
    AckSources,     \* how the tracker sends acks: sockets, "http", "mqtt"
    MaxAcks,        \* bound: acks in flight
    MayBlock,       \* a send may suspend (full socket buffer, handshake)
    DuplicateSend,  \* CONTROL_DUPLICATE_SEND_MS > 0
    Polling,        \* the tracker also polls over HTTP
    MqttEnabled,    \* MQTT_ENABLED
    PublishMayFail, \* the broker may be unreachable
    NoTask,         \* nobody holds the loop
    Accepting,      \* a socket's handler is at `await websocket.accept()'
    None            \* no message yet

Tasks == Requests \union Ackers
Links == Sockets \union {Broker}

Row == [ctl : Controls, ver : Nat, applied : Nat]

ASSUME SocketsFinite  == IsFiniteSet(Sockets)
ASSUME WatchersFinite == IsFiniteSet(Watchers)
ASSUME TasksDistinct  == NoTask \notin Tasks \union Sockets /\ Requests \cap Ackers = {}
ASSUME SocketsNoTasks == Tasks \cap Sockets = {}
ASSUME BrokerDistinct == Broker \notin Sockets \union Watchers
ASSUME ConnsDistinct  == Sockets \cap Watchers = {}
ASSUME NoneIsNoRow    == None \notin Row /\ Accepting \notin Row /\ None # Accepting
ASSUME FlagsBoolean   == {MayBlock, DuplicateSend, Polling, MqttEnabled, PublishMayFail} \subseteq BOOLEAN
ASSUME MaxAcksIsNat   == MaxAcks \in Nat

VARIABLES
    row,        \* the device row: settings, control_version, last_applied_control_version
    log,        \* history: log[v + 1] is what revision v was committed with
    cut,        \* history: revisions whose broadcast to the tracker broke off
    paused,     \* history: a broadcast has given the loop up between two sends
    loop,       \* the coroutine holding the event loop, or NoTask
    pc,         \* where each handler is
    snap,       \* the snapshot each handler is sending
    iter,       \* its iteration over a room
    src,        \* for an ack handler, the socket the ack came on
    scheduled,  \* broadcasts the paho thread handed to the loop, in order
    room,       \* ConnectionManager.active_connections of the device's two rooms
    conn,       \* life of each WebSocket connection
    greet,      \* what a tracker's socket waits for: Accepting, a welcome, None
    inbox,      \* messages on their way to the tracker, per link
    attached,   \* the links the tracker is reading
    retained,   \* the retained message on devices/{id}/controls
    view,       \* the last message each watching app was sent
    dev,        \* the revision the tracker runs, and its settings
    answer,     \* the answer to its poll, on its way
    actuated,   \* history: every revision the tracker has acted on
    acks        \* acks in flight

serverVars == <<loop, pc, snap, iter, src, scheduled>>
netVars    == <<room, conn, greet, inbox, attached, retained, view>>
devVars    == <<dev, answer, actuated>>
vars == <<row, log, cut, paused, loop, pc, snap, iter, src, scheduled, room, conn, greet,
          inbox, attached, retained, view, dev, answer, actuated, acks>>

(***************************************************************************)
(* A Python set raises RuntimeError at the next step of an iteration when  *)
(* its size is no longer the size it started with.  A room that empties is *)
(* deleted, and a later one is a new set: an iteration of the old set can  *)
(* only fail, which the size Orphaned stands for.                          *)
(***************************************************************************)
Orphaned == -1

Phases   == {"device", "users", "again"}
RoomOf   == [p \in Phases |-> IF p = "users" THEN "users" ELSE "device"]
Iter     == [size : Int, seen : SUBSET (Sockets \union Watchers),
             failed : SUBSET (Sockets \union Watchers), hit : BOOLEAN]
IdleIter == [size |-> 0, seen |-> {}, failed |-> {}, hit |-> FALSE]

Over(k, hit) == [size |-> Cardinality(room[k]), seen |-> {}, failed |-> {}, hit |-> hit]

\* iter, for the iterations a change of room k to S leaves without their set
Orphan(k, S) ==
    [t \in Tasks |->
        IF pc[t] \in Phases /\ RoomOf[pc[t]] = k /\ room[k] # {} /\ S = {}
        THEN [iter[t] EXCEPT !.size = Orphaned] ELSE iter[t]]

\* ConnectionManager.disconnect: the room without x.
Leave(k, x) == room[k] \ {x}

LoopFree    == loop = NoTask
MayRun(t)   == loop \in {NoTask, t}

Init ==
    /\ \E c \in Controls :
         /\ row = [ctl |-> c, ver |-> 0, applied |-> 0]
         /\ log = <<c>>
    /\ cut = {} /\ paused = FALSE
    /\ loop = NoTask
    /\ pc = [t \in Tasks |-> "ready"]
    /\ snap = [t \in Tasks |-> None]
    /\ iter = [t \in Tasks |-> IdleIter]
    /\ src = [t \in Tasks |-> None]
    /\ scheduled = <<>>
    /\ room = [k \in {"device", "users"} |-> {}]
    /\ conn = [x \in Sockets \union Watchers |-> "new"]
    /\ greet = [s \in Sockets |-> None]
    /\ inbox = [l \in Links |-> <<>>]
    /\ attached = {}
    /\ retained = None
    /\ view = [w \in Watchers |-> None]
    /\ dev = [ctl |-> row.ctl, ver |-> 0]
    /\ answer = None
    /\ actuated = {0}
    /\ acks = {}

-----------------------------------------------------------------------------
(* The requests of the app.                                                *)

\* The handler commits and enters the first broadcast without suspending.
StartBroadcast(t, phase, r) ==
    /\ snap' = [snap EXCEPT ![t] = r]
    /\ pc' = [pc EXCEPT ![t] = phase]
    /\ iter' = [iter EXCEPT ![t] = Over(RoomOf[phase], FALSE)]
    /\ loop' = t

\* Mutant of Bump: the settings are stored and control_version is not bumped.
BumpSettingsOnly(r, c) == [ctl |-> c, ver |-> r.ver, applied |-> r.applied]

\* update_device_controls: any control mutation is a new revision.
Bump(r, c) == [ctl |-> c, ver |-> r.ver + 1, applied |-> r.applied]

\* PUT /devices/{id}/controls that sets something.
PutControls(t, c) ==
    /\ LoopFree /\ pc[t] = "ready"
    /\ row' = Bump(row, c)
    /\ log' = Append(log, c)
    /\ StartBroadcast(t, "device", row')
    /\ UNCHANGED <<cut, paused, src, scheduled, netVars, devVars, acks>>

\* POST /devices/{id}/reset, or a PUT /controls with an empty body: the
\* revision stays, the current row is broadcast all the same.
PutReset(t) ==
    /\ LoopFree /\ pc[t] = "ready"
    /\ StartBroadcast(t, "device", row)
    /\ UNCHANGED <<row, log, cut, paused, src, scheduled, netVars, devVars, acks>>

\* PUT /devices/{id}/tracking: no WebSocket broadcast, only the MQTT publish.
PutTracking(t) ==
    /\ LoopFree /\ pc[t] = "ready"
    /\ snap' = [snap EXCEPT ![t] = row]
    /\ pc' = [pc EXCEPT ![t] = "publish"]
    /\ UNCHANGED <<row, log, cut, paused, loop, iter, src, scheduled, netVars, devVars, acks>>

-----------------------------------------------------------------------------
(* ConnectionManager.broadcast_to_room, one send at a time.                *)

Intact(t) == iter[t].size = Cardinality(room[RoomOf[pc[t]]])

\* The message reaches x, or is lost on a connection whose peer is gone.
Deliver(x, r) ==
    /\ inbox' = IF x \in attached THEN [inbox EXCEPT ![x] = Append(@, r)] ELSE inbox
    /\ view'  = IF x \in Watchers THEN [view EXCEPT ![x] = r] ELSE view

\* await connection.send_json(message)
SendTo(t, x) ==
    /\ pc[t] \in Phases /\ MayRun(t) /\ Intact(t)
    /\ x \in room[RoomOf[pc[t]]] \ iter[t].seen
    /\ \/ /\ Deliver(x, snap[t])
          /\ iter' = [iter EXCEPT ![t].seen = @ \union {x}]
          /\ \/ loop' = t
             \/ MayBlock /\ loop' = NoTask
       \/ /\ conn[x] \in {"gone", "closed"}
          /\ iter' = [iter EXCEPT ![t].seen = @ \union {x}, ![t].failed = @ \union {x}]
          /\ loop' = t
          /\ UNCHANGED <<inbox, view>>
    /\ paused' = (paused \/ loop' = NoTask)
    /\ UNCHANGED <<row, log, cut, pc, snap, src, scheduled, room, conn, greet, attached,
                   retained, devVars, acks>>

\* Mutant of After: the broadcast to the users' room is forgotten.
AfterDeviceOnly(t) == IF t \in Ackers THEN "ready" ELSE "publish"

\* What follows the broadcast of a phase.
After(t) ==
    CASE pc[t] = "device" -> "users"
      [] pc[t] = "users" /\ t \in Ackers -> "ready"
      [] pc[t] = "users" /\ t \in Requests /\ DuplicateSend /\ iter[t].hit -> "sleep"
      [] OTHER -> "publish"

\* Mutant of Survivors: a failed send takes the whole room with it.
SurvivorsOnlyAll(t, k) == IF iter[t].failed = {} THEN room[k] ELSE {}

\* The room after the clean-up that ends a broadcast.
Survivors(t, k) == room[k] \ iter[t].failed

\* The loop over the room ends: failed connections leave the room and the
\* handler goes on to its next await.
EndBroadcast(t) ==
    LET k == RoomOf[pc[t]]
        rest == Survivors(t, k)
        hit == iter[t].hit \/ (pc[t] = "device" /\ iter[t].seen # iter[t].failed) IN
    /\ pc[t] \in Phases /\ MayRun(t) /\ Intact(t)
    /\ room[k] \subseteq iter[t].seen \/ Cardinality(iter[t].seen) >= iter[t].size
    /\ room' = [room EXCEPT ![k] = rest]
    /\ iter' = [Orphan(k, rest) EXCEPT
                    ![t] = IF pc[t] = "device" THEN Over("users", hit) ELSE IdleIter]
    /\ pc' = [pc EXCEPT ![t] = After(t)]
    /\ loop' = IF pc[t] = "device" THEN t ELSE NoTask
    /\ src' = [src EXCEPT ![t] = IF pc[t] = "device" THEN @ ELSE None]
    /\ snap' = [snap EXCEPT ![t] = IF t \in Ackers THEN None ELSE @]
    /\ UNCHANGED <<row, log, cut, paused, scheduled, conn, greet, inbox, attached, retained,
                   view, devVars, acks>>

\* RuntimeError out of the iteration: the rest of the handler is skipped.
\* A WebSocket ack handler ends and takes its socket with it.
AbortBroadcast(t) ==
    /\ pc[t] \in Phases /\ MayRun(t) /\ ~Intact(t)
    /\ pc' = [pc EXCEPT ![t] = IF t \in Requests THEN "aborted" ELSE "ready"]
    /\ loop' = NoTask
    /\ LET rest == Leave("device", src[t]) IN
        /\ room' = [room EXCEPT !["device"] = rest]
        /\ iter' = [Orphan("device", rest) EXCEPT ![t] = IdleIter]
    /\ conn' = [x \in DOMAIN conn |-> IF x = src[t] THEN "closed" ELSE conn[x]]
    /\ attached' = attached \ {src[t]}
    /\ inbox' = [l \in Links |-> IF l = src[t] THEN <<>> ELSE inbox[l]]
    /\ acks' = {a \in acks : a.src # src[t]} \union {a \in acks : a.src \notin Sockets}
    /\ src' = [src EXCEPT ![t] = None]
    /\ snap' = [snap EXCEPT ![t] = None]
    /\ cut' = IF pc[t] = "device" THEN cut \union {snap[t].ver} ELSE cut
    /\ UNCHANGED <<row, log, paused, scheduled, greet, retained, view, devVars>>

\* asyncio.sleep(duplicate_delay_ms) is over: the same message once more.
SendDuplicate(t) ==
    /\ LoopFree /\ pc[t] = "sleep"
    /\ StartBroadcast(t, "again", snap[t])
    /\ UNCHANGED <<row, log, cut, paused, src, scheduled, netVars, devVars, acks>>

\* publish_device_controls in a pool thread: pool threads run in any order.
Publish(t) ==
    /\ pc[t] = "publish" /\ MqttEnabled
    /\ retained' = snap[t]
    /\ Deliver(Broker, snap[t])
    /\ pc' = [pc EXCEPT ![t] = "done"]
    /\ snap' = [snap EXCEPT ![t] = None]
    /\ UNCHANGED <<row, log, cut, paused, loop, iter, src, scheduled, room, conn, greet, attached,
                   devVars, acks>>

\* The publish is switched off, or fails: logged, and never tried again.
PublishFails(t) ==
    /\ pc[t] = "publish" /\ (~MqttEnabled \/ PublishMayFail)
    /\ pc' = [pc EXCEPT ![t] = "done"]
    /\ snap' = [snap EXCEPT ![t] = None]
    /\ UNCHANGED <<row, log, cut, paused, loop, iter, src, scheduled, netVars, devVars, acks>>

-----------------------------------------------------------------------------
(* The acks of the tracker.                                                *)

\* Mutants of Acked: the last ack wins; any ack confirms the current revision;
\* a revision is skipped.
AckedLast(r, v)      == [r EXCEPT !.applied = v]
AckedCurrent(r, v)   == [r EXCEPT !.applied = r.ver]
AckedSkipping(r, v)  == [r EXCEPT !.applied = IF v > @ + 1 THEN v ELSE @]

\* ack_device_controls_applied: GREATEST of the two.
Acked(r, v) == [r EXCEPT !.applied = IF v > @ THEN v ELSE @]

\* An ack may be delivered again: an HTTP retry, a QoS 1 redelivery.
Consume(a) ==
    \/ acks' = acks \ {a}
    \/ a.src \notin Sockets /\ acks' = acks

\* POST /deviceControlAck: commit, then tell the watching apps of the row.
AckOverHttp(t, a) ==
    /\ LoopFree /\ pc[t] = "ready"
    /\ a.src = "http"
    /\ Consume(a)
    /\ row' = Acked(row, a.ver)
    /\ StartBroadcast(t, "users", row')
    /\ UNCHANGED <<log, cut, paused, src, scheduled, netVars, devVars>>

\* Mutant of Report: the message forwards the ack as the confirmation of the row.
ReportCurrent(r, a) == [ctl |-> a.ctl, ver |-> r.ver, applied |-> r.ver]

\* The message of a socket's ack: the tracker's settings, the row's revisions.
Report(r, a) == [ctl |-> a.ctl, ver |-> r.ver, applied |-> r.applied]

\* control_applied on a socket whose handler is waiting for its next message:
\* commit, then forward to the watching apps.
AckOverSocket(t, a) ==
    /\ LoopFree /\ pc[t] = "ready"
    /\ a.src \in Sockets /\ conn[a.src] \in {"open", "gone"} /\ greet[a.src] = None
    /\ \A u \in Tasks : src[u] # a.src
    /\ Consume(a)
    /\ row' = Acked(row, a.ver)
    /\ src' = [src EXCEPT ![t] = a.src]
    /\ StartBroadcast(t, "users", Report(row', a))
    /\ UNCHANGED <<log, cut, paused, scheduled, netVars, devVars>>

\* _handle_control_ack, in the paho thread whatever the loop is doing: commit,
\* then hand the broadcast to the loop.
AckOnThread(t, a) ==
    /\ pc[t] = "ready"
    /\ a.src = "mqtt"
    /\ Consume(a)
    /\ row' = Acked(row, a.ver)
    /\ snap' = [snap EXCEPT ![t] = row']
    /\ pc' = [pc EXCEPT ![t] = "scheduled"]
    /\ scheduled' = Append(scheduled, t)
    /\ UNCHANGED <<log, cut, paused, loop, iter, src, netVars, devVars>>

\* The loop starts the broadcast the paho thread scheduled.
RunScheduled ==
    /\ LoopFree /\ scheduled # <<>>
    /\ scheduled' = Tail(scheduled)
    /\ StartBroadcast(Head(scheduled), "users", snap[Head(scheduled)])
    /\ UNCHANGED <<row, log, cut, paused, src, netVars, devVars, acks>>

-----------------------------------------------------------------------------
(* Connections.                                                            *)

\* The coroutine of x awaits: it may go on at once.
Await(x) == loop' = x \/ (MayBlock /\ loop' = NoTask)

\* websocket_device_stream, its first part: the socket joins the room and is accepted.
\* From then on what is sent to it waits behind the handshake at most.
DeviceConnect(s) ==
    /\ LoopFree /\ conn[s] = "new"
    /\ attached \cap Sockets = {}
    /\ conn' = [conn EXCEPT ![s] = "open"]
    /\ room' = [room EXCEPT !["device"] = @ \union {s}]
    /\ attached' = attached \union {s}
    /\ inbox' = [inbox EXCEPT ![s] = <<>>]
    /\ greet' = [greet EXCEPT ![s] = Accepting]
    /\ Await(s)
    /\ UNCHANGED <<row, log, cut, paused, pc, snap, iter, src, scheduled, retained, view, devVars, acks>>

\* accept raises, the peer being gone: the handler ends and leaves the socket in its room.
AcceptFails(s) ==
    /\ greet[s] = Accepting /\ MayRun(s) /\ conn[s] = "gone"
    /\ conn' = [conn EXCEPT ![s] = "closed"]
    /\ greet' = [greet EXCEPT ![s] = None]
    /\ loop' = NoTask
    /\ acks' = {a \in acks : a.src # s}
    /\ UNCHANGED <<row, log, cut, paused, pc, snap, iter, src, scheduled, room, inbox, attached,
                   retained, view, devVars>>

\* Mutants of Welcome: a connecting tracker is sent nothing; a message with no version.
NoWelcome      == None
NamelessRow    == [ctl |-> row.ctl, ver |-> None, applied |-> row.applied]

\* The welcome: the device row, read again now that the socket has joined.
Welcome == row

\* The welcome is put together; its send may wait, for the handshake if for nothing else.
ReadWelcome(s) ==
    /\ greet[s] = Accepting /\ MayRun(s)
    /\ greet' = [greet EXCEPT ![s] = Welcome]
    /\ Await(s)
    /\ UNCHANGED <<row, log, cut, paused, pc, snap, iter, src, scheduled, room, conn, inbox, attached,
                   retained, view, devVars, acks>>

\* It goes out, or an exception is logged; the handler waits for the tracker's messages.
SendWelcome(s) ==
    /\ greet[s] \notin {None, Accepting} /\ MayRun(s)
    /\ Deliver(s, greet[s])
    /\ greet' = [greet EXCEPT ![s] = None]
    /\ loop' = NoTask
    /\ UNCHANGED <<row, log, cut, paused, pc, snap, iter, src, scheduled, room, conn, attached,
                   retained, devVars, acks>>

\* websocket_user_stream: join the room; there is no welcome.
UserConnect(w) ==
    /\ LoopFree /\ conn[w] = "new"
    /\ conn' = [conn EXCEPT ![w] = "open"]
    /\ room' = [room EXCEPT !["users"] = @ \union {w}]
    /\ UNCHANGED <<row, log, cut, paused, serverVars, greet, inbox, attached, retained, view, devVars, acks>>

\* The peer of a connection goes away; the server does not know yet.
PeerGone(x) ==
    /\ conn[x] = "open"
    /\ conn' = [conn EXCEPT ![x] = "gone"]
    /\ attached' = attached \ {x}
    /\ inbox' = [l \in Links |-> IF l = x THEN <<>> ELSE inbox[l]]
    /\ UNCHANGED <<row, log, cut, paused, serverVars, room, greet, retained, view, devVars, acks>>

\* WebSocketDisconnect, or the idle timeout, in the connection's handler.
ServerNotices(x) ==
    LET k == IF x \in Sockets THEN "device" ELSE "users"
        rest == Leave(k, x) IN
    /\ LoopFree /\ conn[x] = "gone"
    /\ x \in Sockets => greet[x] = None
    /\ \A t \in Tasks : src[t] # x
    /\ conn' = [conn EXCEPT ![x] = "closed"]
    /\ room' = [room EXCEPT ![k] = rest]
    /\ iter' = Orphan(k, rest)
    /\ acks' = {a \in acks : a.src # x}
    /\ UNCHANGED <<row, log, cut, paused, loop, pc, snap, src, scheduled, greet, inbox, attached,
                   retained, view, devVars>>

\* The tracker subscribes and is sent the retained message; it goes offline.
DeviceSubscribe ==
    /\ Broker \notin attached /\ MqttEnabled
    /\ attached' = attached \union {Broker}
    /\ inbox' = [inbox EXCEPT ![Broker] = IF retained = None THEN <<>> ELSE <<retained>>]
    /\ UNCHANGED <<row, log, cut, paused, serverVars, room, conn, greet, retained, view, devVars, acks>>

DeviceOffline ==
    /\ Broker \in attached
    /\ attached' = attached \ {Broker}
    /\ inbox' = [inbox EXCEPT ![Broker] = <<>>]
    /\ UNCHANGED <<row, log, cut, paused, serverVars, room, conn, greet, retained, view, devVars, acks>>

-----------------------------------------------------------------------------
(* The tracker.  Its firmware is not in the repository: it applies every   *)
(* device_control_response it is sent and acks the revision it runs.       *)

Apply(r) ==
    /\ dev' = [ctl |-> r.ctl, ver |-> r.ver]
    /\ actuated' = actuated \union {r.ver}

DeviceReceive(l) ==
    /\ l \in attached /\ inbox[l] # <<>>
    /\ Apply(Head(inbox[l]))
    /\ inbox' = [inbox EXCEPT ![l] = Tail(@)]
    /\ UNCHANGED <<row, log, cut, paused, serverVars, room, conn, greet, attached, retained, view,
                   answer, acks>>

\* GET /getDeviceControls: one database read, answered without suspending.  The
\* tracker has one poll at a time.
DevicePoll ==
    /\ Polling /\ LoopFree /\ answer = None
    /\ answer' = row
    /\ UNCHANGED <<row, log, cut, paused, serverVars, netVars, dev, actuated, acks>>

\* The answer arrives, however late.
PollAnswered ==
    /\ answer # None
    /\ Apply(answer)
    /\ answer' = None
    /\ UNCHANGED <<row, log, cut, paused, serverVars, netVars, acks>>

\* It is lost, or the tracker has stopped waiting for it.
PollLost ==
    /\ answer # None
    /\ answer' = None
    /\ UNCHANGED <<row, log, cut, paused, serverVars, netVars, dev, actuated, acks>>

\* The tracker acks what it runs, on a link it has.
DeviceAck(s) ==
    LET ack == [src |-> s, ctl |-> dev.ctl, ver |-> dev.ver] IN
    /\ s \in Sockets => s \in attached
    /\ s = "mqtt" => Broker \in attached
    /\ ack \notin acks
    /\ Cardinality(acks) < MaxAcks
    /\ acks' = acks \union {ack}
    /\ UNCHANGED <<row, log, cut, paused, serverVars, netVars, devVars>>

\* What was sent on a socket may be lost; HTTP and QoS 1 are only late.
LoseAck(a) ==
    /\ a.src \in Sockets
    /\ acks' = acks \ {a}
    /\ UNCHANGED <<row, log, cut, paused, serverVars, netVars, devVars>>

-----------------------------------------------------------------------------
RequestStep(t) ==
    \/ \E c \in Controls : PutControls(t, c)
    \/ PutReset(t)
    \/ PutTracking(t)

TaskStep(t) ==
    \/ \E x \in Sockets \union Watchers : SendTo(t, x)
    \/ EndBroadcast(t)
    \/ AbortBroadcast(t)
    \/ SendDuplicate(t)
    \/ Publish(t)
    \/ PublishFails(t)

AckStep(t, a) ==
    \/ AckOverHttp(t, a)
    \/ AckOverSocket(t, a)
    \/ AckOnThread(t, a)

\* The connecting handler goes on.
GreetStep(s) == AcceptFails(s) \/ ReadWelcome(s) \/ SendWelcome(s)

NetStep ==
    \/ \E s \in Sockets : DeviceConnect(s) \/ GreetStep(s)
    \/ \E w \in Watchers : UserConnect(w)
    \/ \E x \in Sockets \union Watchers : PeerGone(x) \/ ServerNotices(x)
    \/ DeviceSubscribe
    \/ DeviceOffline

DeviceStep ==
    \/ \E l \in Links : DeviceReceive(l)
    \/ DevicePoll \/ PollAnswered \/ PollLost
    \/ \E s \in AckSources : DeviceAck(s)

Next ==
    \/ \E t \in Requests : RequestStep(t)
    \/ \E t \in Tasks : TaskStep(t)
    \/ \E t \in Ackers, a \in acks : AckStep(t, a)
    \/ RunScheduled
    \/ NetStep
    \/ DeviceStep
    \/ \E a \in acks : LoseAck(a)

Spec == Init /\ [][Next]_vars

(***************************************************************************)
(* Fairness.  The loop never stalls while a handler can move; asyncio      *)
(* resumes callbacks in FIFO order, so one that keeps becoming runnable    *)
(* runs; an HTTP or QoS 1 ack is sent until it is answered; a dead socket  *)
(* is noticed by the 120 s idle timeout at the latest; and the tracker     *)
(* keeps polling and acking while its command is pending, which is what    *)
(* command_recovery_interval_ms asks of it, and some poll is answered.     *)
(***************************************************************************)
Pending == row.ver > row.applied

Handle(a) == \E t \in Ackers : AckStep(t, a) /\ a \notin acks'

Fairness ==
    /\ WF_vars(\E t \in Tasks : TaskStep(t))
    /\ SF_vars(RunScheduled)
    /\ SF_vars(\E a \in acks : Handle(a))
    /\ SF_vars(\E a \in acks : a.ver = row.ver /\ Handle(a))
    /\ SF_vars(\E s \in Sockets : ServerNotices(s))
    /\ WF_vars(\E s \in Sockets : GreetStep(s))
    /\ SF_vars(Pending /\ DevicePoll)
    /\ SF_vars(PollAnswered)
    /\ SF_vars(Pending /\ \E s \in AckSources \ Sockets : DeviceAck(s))

FairSpec == Spec /\ Fairness

-----------------------------------------------------------------------------
(* Types.                                                                  *)

Pcs  == {"ready", "scheduled", "device", "users", "again", "sleep", "publish", "done", "aborted"}
Acks == [src : AckSources, ctl : Controls, ver : Nat]

\* The type invariant: every variable keeps the shape the code gives it.
TypeOK ==
    /\ row \in Row
    /\ log \in Seq(Controls)
    /\ cut \in SUBSET Nat
    /\ paused \in BOOLEAN
    /\ loop \in Tasks \union Sockets \union {NoTask}
    /\ pc \in [Tasks -> Pcs]
    /\ snap \in [Tasks -> Row \union {None}]
    /\ iter \in [Tasks -> Iter]
    /\ src \in [Tasks -> Sockets \union {None}]
    /\ scheduled \in Seq(Ackers)
    /\ room \in [{"device", "users"} -> SUBSET (Sockets \union Watchers)]
    /\ conn \in [Sockets \union Watchers -> {"new", "open", "gone", "closed"}]
    /\ greet \in [Sockets -> Row \union {None, Accepting}]
    /\ inbox \in [Links -> Seq(Row)]
    /\ attached \in SUBSET Links
    /\ retained \in Row \union {None}
    /\ view \in [Watchers -> Row \union {None}]
    /\ dev \in [ctl : Controls, ver : Nat]
    /\ answer \in Row \union {None}
    /\ actuated \in SUBSET Nat
    /\ acks \in SUBSET Acks

-----------------------------------------------------------------------------
(* Safety.                                                                 *)

\* last_applied_control_version names a revision the tracker really acted on,
\* and never one that was not issued: command_pending cannot clear for a
\* command the tracker has not run, whatever is late, lost or sent twice.
AckedWasActuated ==
    /\ row.applied \in actuated
    /\ row.applied <= row.ver

\* A message claims nothing that is not so: its revision exists, and the one it
\* calls confirmed was acted on and is not newer.
Sound(r) ==
    /\ r.ver \in 0..row.ver
    /\ r.applied \in actuated
    /\ r.applied <= r.ver

Faithful(r) == Sound(r) /\ r.ctl = log[r.ver + 1]
Reported(r) == Sound(r) /\ \E v \in actuated \union {r.ver} : r.ctl = log[v + 1]

\* Every command on its way to the tracker pairs a revision with the settings
\* that revision was committed with; every message to an app shows these or the
\* settings of a revision the tracker acted on; and none claims as confirmed a
\* revision that was not: nothing mixes two commands, however late it is.
NoTornCommand ==
    /\ \A t \in Requests : snap[t] # None => Faithful(snap[t])
    /\ \A t \in Ackers : snap[t] # None => Reported(snap[t])
    /\ \A l \in Links : \A i \in 1..Len(inbox[l]) : Faithful(inbox[l][i])
    /\ \A w \in Watchers : view[w] # None => Reported(view[w])
    /\ \A s \in Sockets : greet[s] \notin {None, Accepting} => Faithful(greet[s])
    /\ answer # None => Faithful(answer)
    /\ retained # None => Faithful(retained)

\* An app that shows a revision as applied is right: whatever order broadcasts
\* arrive in, the tracker has acted on that revision.
AppShowsOnlyActuated ==
    \A w \in Watchers :
        view[w] # None /\ view[w].applied >= view[w].ver => view[w].ver \in actuated

\* A connection whose peer is there stays in its room until it is closed: no
\* clean-up after another connection's failure makes it deaf.
LiveConnectionsHear ==
    \A x \in Sockets \union Watchers : conn[x] = "open" => x \in room["device"] \union room["users"]

\* The revision and the confirmation never go back, and the settings change
\* only together with the revision.
RevisionsOnlyGrow ==
    [][ /\ row'.ver >= row.ver
        /\ row'.applied >= row.applied
        /\ row'.ver = row.ver => row'.ctl = row.ctl ]_row

Settled ==
    /\ \A t \in Requests : pc[t] \in {"ready", "done", "aborted"}
    /\ \A t \in Ackers : pc[t] = "ready"

\* The tracker is connected, and has read the welcome and all that came after it.
Connected == \E s \in Sockets \cap attached : greet[s] = None /\ inbox[s] = <<>>

\* No revision passes a connected tracker by, whatever suspends, fails or reconnects:
\* when no broadcast to it is under way and it has read its messages, it has acted on
\* the latest revision, unless the broadcast of that revision broke off.
NoRevisionMissed ==
    (\A t \in Requests : pc[t] # "device") /\ Connected => row.ver \in actuated \union cut

\* What docs/CONTROLS_RELIABILITY.md says of the welcome, "No stale state": when nothing
\* is under way, a connected tracker that has read its messages runs the latest command.
DeviceUpToDate ==
    Settled /\ Connected /\ answer = None => dev = [ctl |-> row.ctl, ver |-> row.ver]

\* When nothing is under way, no app shows a command as pending that the
\* tracker has confirmed.
AppDoesNotStayPend ==
    Settled /\ ~Pending =>
        \A w \in room["users"] : view[w] # None => view[w].applied >= view[w].ver

\* When nothing is under way, and no broadcast ever gave the loop up, an app that was
\* sent anything since the latest revision was made shows that revision: none shows an
\* older one again.
AppShowsLatest ==
    Settled /\ ~paused => \A w \in room["users"] : view[w] # None /\ conn[w] = "open" => view[w].ver = row.ver

\* When nothing is under way, the message a tracker coming back online is sent
\* by the broker carries the latest revision.
RetainedIsLatest ==
    Settled /\ retained # None => retained.ver = row.ver

-----------------------------------------------------------------------------
(* Refinement and liveness.                                                *)

Register == INSTANCE CommandRegister
                WITH commands <- log, confirmed <- row.applied

\* The whole machinery is an implementation of the command register.
ImplementsRegister == Register!Spec

\* Every command is eventually confirmed, or superseded by one that is.
EventuallyConfirmed == []<>~Pending
=============================================================================
