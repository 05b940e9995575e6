----------------------------- MODULE GeofenceIngest -----------------------------
(***************************************************************************)
(* What happens to one GPS fix of one tracker: it is stored, checked       *)
(* against the geofences of every user of the tracker, the crossings are   *)
(* logged, and the watching apps are told.                                 *)
(*                                                                         *)
(* Three entry points share ingest_location.  POST /sendGPSData runs it on *)
(* the event loop, which nothing else then uses; a WebSocket               *)
(* location_update runs it in a pool thread; an MQTT location runs it in   *)
(* the one paho thread.  Each database call is a transaction of its own,   *)
(* so ingests in different threads interleave between any two of them.     *)
(***************************************************************************)
EXTENDS Integers, Sequences, FiniteSets

CONSTANTS
    Handlers,   \* ingests under way at once
    Vias,       \* entry points in use, a subset of {"http", "ws", "mqtt"}
    Users,      \* the users the tracker may be linked to
    Fences,     \* geofences
    Owner,      \* Owner[f]: the user geofence f belongs to
    Fixes,      \* GPS fixes, each with its own timestamp
    Areas,      \* circles a geofence may be given: the fixes inside each
    Edits,      \* what users do meanwhile: "create", "update", "delete", "unlink"
    RoomMayChange, \* a send may suspend, and the room of its broadcast change meanwhile
    MaxSends,   \* bound: ingests started
    NoHandler   \* nobody holds the loop

ASSUME OwnerIsUser   == Owner \in [Fences -> Users]
ASSUME AreasAreSets  == Areas \subseteq SUBSET Fixes
ASSUME ViasKnown     == Vias # {} /\ Vias \subseteq {"http", "ws", "mqtt"}
ASSUME FixesExist    == Fixes # {}
ASSUME HandlersFinite == IsFiniteSet(Handlers)
ASSUME NotAHandler   == NoHandler \notin Handlers
ASSUME FlagIsBoolean == RoomMayChange \in BOOLEAN
ASSUME MaxSendsIsNat == MaxSends \in Nat

VARIABLES
    exists,     \* the device row is there
    linked,     \* its users_devices rows
    fence,      \* geofences rows: "on", "off" (disabled), or "new", "gone" (no row)
    area,       \* the circle of each geofence
    events,     \* geofence_breach_events rows per geofence, oldest first
    stored,     \* fixes written to gps_data
    loop,       \* the handler holding the event loop, or NoHandler
    pc,         \* where each ingest is
    via,        \* how its fix came in
    fix,        \* the fix it ingests
    users,      \* users it has not checked yet
    todo,       \* geofences of the current user still to check: <<geofence, inside?>>
    decided,    \* the crossing it is about to log
    batch,      \* events it logged for the current user
    logged,     \* events it logged for the users before
    pushed,     \* fixes broadcast to the watching apps
    cut,        \* history: fixes whose broadcast broke off
    announced,  \* breaches broadcast
    unsaid,     \* history: breaches given up when a broadcast broke off
    sends       \* ingests started so far

dbVars   == <<exists, linked, fence, area, events, stored>>
taskVars == <<via, fix, users, todo, decided, batch, logged>>
outVars  == <<pushed, cut, announced, unsaid>>
vars == <<dbVars, taskVars, outVars, loop, pc, sends>>

NoCrossing == "none"
Idle       == "ready"
IngestPcs  == {"users", "next", "check", "log"}
Pcs        == IngestPcs \union {Idle, "push", "pushing", "breach"}

Init ==
    /\ exists = TRUE
    /\ linked \in SUBSET Users
    /\ fence \in [Fences -> {"new", "on"}]
    /\ area \in [Fences -> Areas]
    /\ events = [f \in Fences |-> <<>>]
    /\ stored = {} /\ pushed = {} /\ cut = {} /\ announced = {} /\ unsaid = {}
    /\ loop = NoHandler
    /\ pc = [h \in Handlers |-> Idle]
    /\ via = [h \in Handlers |-> CHOOSE v \in Vias : TRUE]
    /\ fix = [h \in Handlers |-> CHOOSE m \in Fixes : TRUE]
    /\ users = [h \in Handlers |-> {}]
    /\ todo = [h \in Handlers |-> {}]
    /\ decided = [h \in Handlers |-> <<>>]
    /\ batch = [h \in Handlers |-> {}]
    /\ logged = [h \in Handlers |-> {}]
    /\ sends = 0

Goto(h, p) == pc' = [pc EXCEPT ![h] = p]

\* Mutant of Release: the handler never gives the loop up.
KeepLoop(h) == loop

\* The loop after handler h suspended or returned.
Release(h) == IF loop = h THEN NoHandler ELSE loop

\* Mutant of HoldsLoop: POST /sendGPSData ingests in a pool thread too.
NobodyHoldsLoop(v) == FALSE

\* send_gps_data calls ingest_location on the loop; a WebSocket hands it to a thread.
HoldsLoop(v) == v = "http"

Exists(f) == fence[f] \in {"on", "off"}

-----------------------------------------------------------------------------
(* ingest_location, one database call at a time.                           *)

\* The thread an entry point ingests on is free: the loop, or the paho thread.
ThreadFree(v) ==
    /\ HoldsLoop(v) => loop = NoHandler
    /\ v = "mqtt" => \A h \in Handlers : via[h] = "mqtt" => pc[h] \notin IngestPcs

\* A fix comes in, perhaps for the second time, and is upserted by timestamp.
\* Without the device row the request is refused or the insert fails: nothing.
Store(h, v, m) ==
    /\ pc[h] = Idle /\ sends < MaxSends
    /\ ThreadFree(v) /\ exists
    /\ stored' = stored \union {m}
    /\ via' = [via EXCEPT ![h] = v]
    /\ fix' = [fix EXCEPT ![h] = m]
    /\ loop' = IF HoldsLoop(v) THEN h ELSE loop
    /\ sends' = sends + 1
    /\ Goto(h, "users")
    /\ UNCHANGED <<exists, linked, fence, area, events, users, todo, decided, batch, logged, outVars>>

\* get_user_ids_for_device
ReadUsers(h) ==
    /\ pc[h] = "users"
    /\ users' = [users EXCEPT ![h] = linked]
    /\ Goto(h, "next")
    /\ UNCHANGED <<dbVars, via, fix, todo, decided, batch, logged, outVars, loop, sends>>

\* The list check_geofence_breaches works on, positions compared with the circles
\* as read: a later edit is not seen.
Listed(u, m) == {<<f, m \in area[f]>> : f \in {g \in Fences : Owner[g] = u /\ fence[g] = "on"}}

\* get_geofences_by_user_id; check_geofence_breaches skips the disabled ones.
ReadFences(h, u) ==
    /\ pc[h] = "next" /\ u \in users[h]
    /\ users' = [users EXCEPT ![h] = @ \ {u}]
    /\ todo' = [todo EXCEPT ![h] = Listed(u, fix[h])]
    /\ Goto(h, "check")
    /\ UNCHANGED <<dbVars, via, fix, decided, batch, logged, outVars, loop, sends>>

\* Mutants of Crossing: the log is not looked at; an exit is never seen.
CrossingForgets(log, inside) == IF inside THEN "ENTERED" ELSE NoCrossing
CrossingNoExit(log, inside)  == IF inside /\ log = <<>> THEN "ENTERED" ELSE NoCrossing

\* The state transition a position makes, seen from the newest event.
Crossing(log, inside) ==
    LET wasInside == log # <<>> /\ log[Len(log)] = "ENTERED" IN
    CASE inside /\ ~wasInside -> "ENTERED"
      [] ~inside /\ wasInside -> "EXITED"
      [] OTHER -> NoCrossing

\* get_last_breach_event and the comparison.
Check(h, f, inside) ==
    LET crossing == Crossing(events[f], inside) IN
    /\ pc[h] = "check" /\ <<f, inside>> \in todo[h]
    /\ todo' = [todo EXCEPT ![h] = @ \ {<<f, inside>>}]
    /\ decided' = [decided EXCEPT ![h] = IF crossing = NoCrossing THEN <<>> ELSE <<f, crossing>>]
    /\ Goto(h, IF crossing = NoCrossing THEN "check" ELSE "log")
    /\ UNCHANGED <<dbVars, via, fix, users, batch, logged, outVars, loop, sends>>

\* Mutant of EventId: the event named is the one before.
LastEventId(f) == <<f, Len(events[f])>>

\* The event the INSERT returns.
EventId(f) == <<f, Len(events[f]) + 1>>

\* log_breach_event, timestamp and INSERT taken as one.
LogBreach(h) ==
    LET f == decided[h][1] IN
    /\ pc[h] = "log" /\ exists /\ Exists(f)
    /\ events' = [events EXCEPT ![f] = Append(@, decided[h][2])]
    /\ batch' = [batch EXCEPT ![h] = @ \union {EventId(f)}]
    /\ decided' = [decided EXCEPT ![h] = <<>>]
    /\ Goto(h, "check")
    /\ UNCHANGED <<exists, linked, fence, area, stored, via, fix, users, todo, logged, outVars, loop, sends>>

\* The geofence or the device is gone: its foreign key refuses the event, the
\* exception leaves ingest_location and with it what was still to be done.
LogFails(h) ==
    /\ pc[h] = "log" /\ ~(exists /\ Exists(decided[h][1]))
    /\ todo' = [todo EXCEPT ![h] = {}]
    /\ users' = [users EXCEPT ![h] = {}]
    /\ batch' = [batch EXCEPT ![h] = {}]
    /\ logged' = [logged EXCEPT ![h] = {}]
    /\ decided' = [decided EXCEPT ![h] = <<>>]
    /\ loop' = Release(h)
    /\ Goto(h, Idle)
    /\ UNCHANGED <<dbVars, via, fix, outVars, sends>>

\* Mutant of Collected: only the last user's events are returned.
CollectedLast(before, E) == E

\* all_breach_events.extend
Collected(before, E) == before \union E

\* The user's fences are done, and nothing was logged.
Collect(h) ==
    /\ pc[h] = "check" /\ todo[h] = {} /\ batch[h] = {}
    /\ Goto(h, "next")
    /\ UNCHANGED <<dbVars, taskVars, outVars, loop, sends>>

\* Something was logged, and the user's alerts are due.
Alerting(h) == pc[h] = "check" /\ todo[h] = {} /\ batch[h] # {}

\* They have gone out by email and SMS, or failed.  What was sent leaves no trace,
\* since its record in notification_audit_log is refused.
Alert(h) ==
    /\ Alerting(h)
    /\ logged' = [logged EXCEPT ![h] = Collected(@, batch[h])]
    /\ batch' = [batch EXCEPT ![h] = {}]
    /\ Goto(h, "next")
    /\ UNCHANGED <<dbVars, via, fix, users, todo, decided, outVars, loop, sends>>

\* ingest_location returns to its caller.
Return(h) ==
    /\ pc[h] = "next" /\ users[h] = {}
    /\ Goto(h, "push")
    /\ UNCHANGED <<dbVars, taskVars, outVars, loop, sends>>

-----------------------------------------------------------------------------
(* The callers, on the loop.                                               *)

\* A send of broadcast_location_update suspends.
PushSuspends(h) ==
    /\ RoomMayChange
    /\ pc[h] = "push" /\ loop \in {h, NoHandler}
    /\ loop' = Release(h)
    /\ Goto(h, "pushing")
    /\ UNCHANGED <<dbVars, taskVars, outVars, sends>>

\* It has gone to the whole of the users' room.
Push(h) ==
    /\ pc[h] \in {"push", "pushing"} /\ loop \in {h, NoHandler}
    /\ pushed' = pushed \union {fix[h]}
    /\ loop' = Release(h)
    /\ Goto(h, "breach")
    /\ UNCHANGED <<dbVars, taskVars, cut, announced, unsaid, sends>>

\* The room changed meanwhile: the broadcast raises, some of the room may not have
\* been told, and the caller ends without announcing the breaches.
PushAborts(h) ==
    /\ pc[h] = "pushing" /\ loop = NoHandler
    /\ cut' = cut \union {fix[h]}
    /\ unsaid' = unsaid \union logged[h]
    /\ logged' = [logged EXCEPT ![h] = {}]
    /\ Goto(h, Idle)
    /\ UNCHANGED <<dbVars, via, fix, users, todo, decided, batch, pushed, announced, loop, sends>>

\* The breaches a caller broadcasts: the MQTT one reads a field the event does
\* not have, and its coroutine ends there.
Announced(v, E) == IF v = "mqtt" THEN {} ELSE E

\* broadcast_geofence_breach, for every event of the fix.
Announce(h) ==
    /\ pc[h] = "breach" /\ loop = NoHandler
    /\ announced' = announced \union Announced(via[h], logged[h])
    /\ logged' = [logged EXCEPT ![h] = {}]
    /\ Goto(h, Idle)
    /\ UNCHANGED <<dbVars, via, fix, users, todo, decided, batch, pushed, cut, unsaid, loop, sends>>

\* The room of the geofence alerts changes under one of these broadcasts: the
\* events before it were announced, it and the others are given up.
AnnounceAborts(h, told) ==
    /\ RoomMayChange
    /\ pc[h] = "breach" /\ loop = NoHandler
    /\ told \subseteq Announced(via[h], logged[h]) /\ told # logged[h]
    /\ announced' = announced \union told
    /\ unsaid' = unsaid \union (logged[h] \ told)
    /\ logged' = [logged EXCEPT ![h] = {}]
    /\ Goto(h, Idle)
    /\ UNCHANGED <<dbVars, via, fix, users, todo, decided, batch, pushed, cut, loop, sends>>

-----------------------------------------------------------------------------
(* What users do meanwhile, in handlers of the loop.                       *)

\* POST /geofences
CreateFence(f, s, a) ==
    /\ loop = NoHandler /\ "create" \in Edits
    /\ fence[f] = "new"
    /\ fence' = [fence EXCEPT ![f] = s]
    /\ area' = [area EXCEPT ![f] = a]
    /\ UNCHANGED <<exists, linked, events, stored, taskVars, outVars, loop, pc, sends>>

\* PUT /geofences/{id}: enabled, position or radius; the logged events stay.
UpdateFence(f, s, a) ==
    /\ loop = NoHandler /\ "update" \in Edits
    /\ Exists(f)
    /\ fence' = [fence EXCEPT ![f] = s]
    /\ area' = [area EXCEPT ![f] = a]
    /\ UNCHANGED <<exists, linked, events, stored, taskVars, outVars, loop, pc, sends>>

\* DELETE /geofences/{id}: its events go with it.
DeleteFence(f) ==
    /\ loop = NoHandler /\ "delete" \in Edits
    /\ Exists(f)
    /\ fence' = [fence EXCEPT ![f] = "gone"]
    /\ events' = [events EXCEPT ![f] = <<>>]
    /\ UNCHANGED <<exists, linked, area, stored, taskVars, outVars, loop, pc, sends>>

\* POST /registerDeviceToUser
LinkUser(u) ==
    /\ loop = NoHandler /\ exists
    /\ linked' = linked \union {u}
    /\ UNCHANGED <<exists, fence, area, events, stored, taskVars, outVars, loop, pc, sends>>

\* POST /registerDevice, for a tracker that was deleted.
RegisterDevice ==
    /\ loop = NoHandler /\ ~exists
    /\ exists' = TRUE
    /\ UNCHANGED <<linked, fence, area, events, stored, taskVars, outVars, loop, pc, sends>>

\* delete_all_devices of u: his geofences and the device row, with everything
\* that hangs on it, for the other users too.
DeleteAllDevices(u) ==
    /\ loop = NoHandler /\ "unlink" \in Edits
    /\ u \in linked
    /\ exists' = FALSE
    /\ linked' = {}
    /\ fence' = [f \in Fences |-> IF Owner[f] = u /\ Exists(f) THEN "gone" ELSE fence[f]]
    /\ events' = [f \in Fences |-> <<>>]
    /\ stored' = {}
    /\ UNCHANGED <<area, taskVars, outVars, loop, pc, sends>>

-----------------------------------------------------------------------------
\* All but the alerts.
Proceed(h) ==
    \/ ReadUsers(h)
    \/ \E u \in Users : ReadFences(h, u)
    \/ \E f \in Fences, inside \in BOOLEAN : Check(h, f, inside)
    \/ LogBreach(h)
    \/ LogFails(h)
    \/ Collect(h)
    \/ Return(h)
    \/ PushSuspends(h)
    \/ Push(h)
    \/ PushAborts(h)
    \/ Announce(h)
    \/ \E told \in SUBSET logged[h] : AnnounceAborts(h, told)

Ingest(h) == Proceed(h) \/ Alert(h)

Edit ==
    \/ \E f \in Fences, s \in {"on", "off"}, a \in Areas : CreateFence(f, s, a) \/ UpdateFence(f, s, a)
    \/ \E f \in Fences : DeleteFence(f)
    \/ \E u \in Users : LinkUser(u) \/ DeleteAllDevices(u)
    \/ RegisterDevice

Next ==
    \/ \E h \in Handlers, v \in Vias, m \in Fixes : Store(h, v, m)
    \/ \E h \in Handlers : Ingest(h)
    \/ Edit

Spec == Init /\ [][Next]_vars

\* A started ingest goes on: a statement of the database is answered, a send ends
\* when the app's socket takes it or its connection ends, and what the loop runs is
\* finite, so each of its turns comes again.  Not so the alerts: the connection to
\* the mail server has no timeout.
FairSpec == Spec /\ \A h \in Handlers : SF_vars(Proceed(h))

-----------------------------------------------------------------------------
Types  == {"ENTERED", "EXITED"}
Ids    == Fences \X (Nat \ {0})

\* The type invariant.
TypeOK ==
    /\ exists \in BOOLEAN
    /\ linked \in SUBSET Users
    /\ fence \in [Fences -> {"new", "on", "off", "gone"}]
    /\ area \in [Fences -> Areas]
    /\ events \in [Fences -> Seq(Types)]
    /\ stored \in SUBSET Fixes
    /\ loop \in Handlers \union {NoHandler}
    /\ pc \in [Handlers -> Pcs]
    /\ via \in [Handlers -> Vias]
    /\ fix \in [Handlers -> Fixes]
    /\ users \in [Handlers -> SUBSET Users]
    /\ todo \in [Handlers -> SUBSET (Fences \X BOOLEAN)]
    /\ decided \in [Handlers -> {<<>>} \union (Fences \X Types)]
    /\ batch \in [Handlers -> SUBSET Ids] /\ logged \in [Handlers -> SUBSET Ids]
    /\ pushed \in SUBSET Fixes /\ cut \in SUBSET Fixes
    /\ announced \in SUBSET Ids /\ unsaid \in SUBSET Ids
    /\ sends \in Nat

\* The log of a geofence is a log of crossings: it starts with ENTERED and every
\* event differs from the one before.
Alternates ==
    \A f \in Fences : \A i \in 1..Len(events[f]) :
        events[f][i] = IF i % 2 = 1 THEN "ENTERED" ELSE "EXITED"

\* Ingests that overlap may log one crossing each, and no more: no more equal
\* events in a row than there are ingests at once.
RunsBounded ==
    \A f \in Fences : \A i \in 1..Len(events[f]) :
        LET n == Cardinality(Handlers) IN
        i + n <= Len(events[f]) => \E j \in i..(i + n) : events[f][j] # events[f][i]

\* An ingest that ends leaves the log in step with the tracker: for every enabled
\* geofence of every user, the newest event says ENTERED just when the fix is in.
InStep ==
    \A h \in Handlers : pc[h] = "push" =>
        \A f \in Fences : fence[f] = "on" /\ Owner[f] \in linked =>
            (fix[h] \in area[f]) =
                (events[f] # <<>> /\ events[f][Len(events[f])] = "ENTERED")

Quiet == \A h \in Handlers : pc[h] = Idle

AllEvents == UNION {{<<f, i>> : i \in 1..Len(events[f])} : f \in Fences}

\* While the server and the database stay up, no breach is forgotten on its way: when
\* no ingest is under way, every logged one was broadcast, or given up with a broadcast
\* of its ingest that broke off.
BreachesAnnounced == Quiet => AllEvents \subseteq announced \union unsaid

\* While the server and the database stay up, no stored fix is forgotten: when no
\* ingest is under way, each was pushed to the apps, or its push broke off.
StoredIsPushed == Quiet => stored \subseteq pushed \union cut

\* The alerts of ingest h, or of the one that holds the loop, are with a mail server
\* that does not answer.
Stuck(h) == \E g \in Handlers : g \in {h, loop} /\ Alerting(g)

\* Every ingest comes to its end, pushed or given up, unless it or the whole loop waits
\* forever for a mail server.
IngestsEnd == \A h \in Handlers : []<>(pc[h] = Idle) \/ <>[]Stuck(h)
=============================================================================
