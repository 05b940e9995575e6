-------------------------- MODULE GeofenceIngestProofs --------------------------
(***************************************************************************)
(* The log of a geofence is right when fixes come one after the other, and *)
(* bounded in its errors when they do not; nothing stored or logged is     *)
(* kept from the apps unless a geofence or the tracker is deleted or a     *)
(* broadcast breaks off.                                                   *)
(***************************************************************************)
EXTENDS GeofenceIngest, FiniteSetTheorems, TLAPS

-----------------------------------------------------------------------------
(* Type correctness.                                                       *)

\* A crossing is decided exactly while it waits to be logged.
Deciding ==
    \A h \in Handlers : IF pc[h] = "log" THEN decided[h] \in Fences \X Types ELSE decided[h] = <<>>

Typed == TypeOK /\ Deciding

LEMMA PcsAre == Pcs = {"users", "next", "check", "log", "ready", "push", "pushing", "breach"}
BY DEF Pcs, IngestPcs, Idle

LEMMA InitTyped == Init => Typed
<1> SUFFICES ASSUME Init
             PROVE  Typed
  OBVIOUS
<1>1. (CHOOSE v \in Vias : TRUE) \in Vias /\ (CHOOSE m \in Fixes : TRUE) \in Fixes
  BY ViasKnown, FixesExist
<1>2. events \in [Fences -> Seq(Types)]
  BY DEF Init
<1>3. TypeOK
  BY <1>1, <1>2, PcsAre DEF Init, TypeOK, Idle
<1>4. QED BY <1>3 DEF Init, Typed, Deciding, Idle

\* Handler h moves to p, which is not "log", and decides nothing.
LEMMA DecidingMoves ==
    ASSUME Typed, NEW h \in Handlers, NEW p \in Pcs \ {"log"}, Goto(h, p),
           UNCHANGED decided, pc[h] # "log"
    PROVE  pc' \in [Handlers -> Pcs] /\ Deciding'
BY DEF Typed, TypeOK, Deciding, Goto

LEMMA TypedStore ==
    ASSUME Typed, NEW h \in Handlers, NEW v \in Vias, NEW m \in Fixes, Store(h, v, m)
    PROVE  Typed'
<1>1. pc' \in [Handlers -> Pcs] /\ Deciding'
  BY DecidingMoves, PcsAre DEF Store, Idle
<1>2. loop' \in Handlers \union {NoHandler} /\ sends' \in Nat /\ stored' \in SUBSET Fixes
  BY DEF Store, Typed, TypeOK
<1>3. via' \in [Handlers -> Vias] /\ fix' \in [Handlers -> Fixes]
  BY DEF Store, Typed, TypeOK
<1>4. TypeOK'
  BY <1>1, <1>2, <1>3 DEF Store, Typed, TypeOK, outVars
<1>5. QED BY <1>1, <1>4 DEF Typed

LEMMA ListedIs == \A u, m : Listed(u, m) \subseteq Fences \X BOOLEAN
<1> SUFFICES ASSUME NEW u, NEW m, NEW e \in Listed(u, m)
             PROVE  e \in Fences \X BOOLEAN
  OBVIOUS
<1>1. PICK f \in Fences : e = <<f, m \in area[f]>>
  BY DEF Listed
<1>2. (m \in area[f]) \in BOOLEAN
  OBVIOUS
<1>3. QED BY <1>1, <1>2

\* The steps of an ingest that decide and log nothing.
LEMMA TypedWalk ==
    ASSUME Typed, NEW h \in Handlers,
           ReadUsers(h) \/ (\E u \in Users : ReadFences(h, u)) \/ Collect(h) \/ Alert(h) \/ Return(h)
    PROVE  Typed'
<1>1. CASE ReadUsers(h)
  <2>1. pc' \in [Handlers -> Pcs] /\ Deciding'
    BY <1>1, DecidingMoves, PcsAre DEF ReadUsers
  <2>2. TypeOK'
    BY <1>1, <2>1 DEF ReadUsers, Typed, TypeOK, dbVars, outVars
  <2>3. QED BY <2>1, <2>2 DEF Typed
<1>2. ASSUME NEW u \in Users, ReadFences(h, u) PROVE Typed'
  <2>1. pc' \in [Handlers -> Pcs] /\ Deciding'
    BY <1>2, DecidingMoves, PcsAre DEF ReadFences
  <2>2. Listed(u, fix[h]) \in SUBSET (Fences \X BOOLEAN)
    BY ListedIs
  <2>3. TypeOK'
    BY <1>2, <2>1, <2>2 DEF ReadFences, Typed, TypeOK, dbVars, outVars
  <2>4. QED BY <2>1, <2>3 DEF Typed
<1>3. CASE Collect(h)
  <2>1. pc' \in [Handlers -> Pcs] /\ Deciding'
    BY <1>3, DecidingMoves, PcsAre DEF Collect, taskVars
  <2>2. TypeOK'
    BY <1>3, <2>1 DEF Collect, Typed, TypeOK, dbVars, taskVars, outVars
  <2>3. QED BY <2>1, <2>2 DEF Typed
<1>a. CASE Alert(h)
  <2>1. pc' \in [Handlers -> Pcs] /\ Deciding'
    BY <1>a, DecidingMoves, PcsAre DEF Alerting, Alert
  <2>2. TypeOK'
    BY <1>a, <2>1 DEF Alert, Collected, Typed, TypeOK, dbVars, outVars
  <2>3. QED BY <2>1, <2>2 DEF Typed
<1>4. CASE Return(h)
  <2>1. pc' \in [Handlers -> Pcs] /\ Deciding'
    BY <1>4, DecidingMoves, PcsAre DEF Return, taskVars
  <2>2. TypeOK'
    BY <1>4, <2>1 DEF Return, Typed, TypeOK, dbVars, taskVars, outVars
  <2>3. QED BY <2>1, <2>2 DEF Typed
<1>5. QED BY <1>1, <1>2, <1>3, <1>a, <1>4

LEMMA CrossingIs == ASSUME NEW log, NEW inside PROVE Crossing(log, inside) \in Types \union {NoCrossing}
BY DEF Crossing, Types, NoCrossing

LEMMA TypedCheck ==
    ASSUME Typed, NEW h \in Handlers, NEW f \in Fences, NEW inside \in BOOLEAN, Check(h, f, inside)
    PROVE  Typed'
<1>1. PICK c : c = Crossing(events[f], inside)
  OBVIOUS
<1>2. c \in Types \union {NoCrossing}
  BY <1>1, CrossingIs
<1>3. /\ pc' = [pc EXCEPT ![h] = IF c = NoCrossing THEN "check" ELSE "log"]
      /\ decided' = [decided EXCEPT ![h] = IF c = NoCrossing THEN <<>> ELSE <<f, c>>]
      /\ todo' = [todo EXCEPT ![h] = @ \ {<<f, inside>>}]
      /\ UNCHANGED <<dbVars, via, fix, users, batch, logged, outVars, loop, sends>>
  BY <1>1 DEF Check, Goto
<1>4. pc' \in [Handlers -> Pcs] /\ Deciding'
  BY <1>2, <1>3, PcsAre DEF Typed, TypeOK, Deciding
<1>5. decided' \in [Handlers -> {<<>>} \union (Fences \X Types)]
  BY <1>2, <1>3 DEF Typed, TypeOK
<1>6. TypeOK'
  BY <1>3, <1>4, <1>5 DEF Typed, TypeOK, dbVars, outVars
<1>7. QED BY <1>4, <1>6 DEF Typed

\* The crossing c of geofence f is appended to its log.
LEMMA LogBreachIs ==
    ASSUME Typed, NEW h \in Handlers, LogBreach(h)
    PROVE  \E f \in Fences, c \in Types :
              /\ decided[h] = <<f, c>> /\ pc[h] = "log" /\ exists /\ Exists(f)
              /\ events' = [events EXCEPT ![f] = Append(events[f], c)]
              /\ batch' = [batch EXCEPT ![h] = batch[h] \union {<<f, Len(events[f]) + 1>>}]
              /\ decided' = [decided EXCEPT ![h] = <<>>]
              /\ pc' = [pc EXCEPT ![h] = "check"]
              /\ UNCHANGED <<exists, linked, fence, area, stored, via, fix, users, todo, logged,
                             outVars, loop, sends>>
<1>1. decided[h] \in Fences \X Types
  BY DEF Typed, Deciding, LogBreach
<1>2. PICK f \in Fences, c \in Types : decided[h] = <<f, c>>
  BY <1>1
<1>3. decided[h][1] = f /\ decided[h][2] = c
  BY <1>2
<1>4. /\ pc[h] = "log" /\ exists /\ Exists(f)
      /\ events' = [events EXCEPT ![f] = Append(events[f], c)]
      /\ batch' = [batch EXCEPT ![h] = batch[h] \union {<<f, Len(events[f]) + 1>>}]
      /\ decided' = [decided EXCEPT ![h] = <<>>]
      /\ pc' = [pc EXCEPT ![h] = "check"]
      /\ UNCHANGED <<exists, linked, fence, area, stored, via, fix, users, todo, logged,
                     outVars, loop, sends>>
  BY <1>3 DEF LogBreach, EventId, Goto
<1>5. QED BY <1>2, <1>4

LEMMA TypedLog ==
    ASSUME Typed, NEW h \in Handlers, LogBreach(h)
    PROVE  Typed'
<1>1. PICK f \in Fences, c \in Types :
              /\ decided[h] = <<f, c>> /\ pc[h] = "log" /\ exists /\ Exists(f)
              /\ events' = [events EXCEPT ![f] = Append(events[f], c)]
              /\ batch' = [batch EXCEPT ![h] = batch[h] \union {<<f, Len(events[f]) + 1>>}]
              /\ decided' = [decided EXCEPT ![h] = <<>>]
              /\ pc' = [pc EXCEPT ![h] = "check"]
              /\ UNCHANGED <<exists, linked, fence, area, stored, via, fix, users, todo, logged,
                             outVars, loop, sends>>
  BY LogBreachIs
<1>2. pc' \in [Handlers -> Pcs] /\ Deciding'
  BY <1>1, PcsAre DEF Typed, TypeOK, Deciding
<1>3. events[f] \in Seq(Types)
  BY DEF Typed, TypeOK
<1>4. Append(events[f], c) \in Seq(Types) /\ <<f, Len(events[f]) + 1>> \in Ids
  BY <1>3 DEF Ids
<1>5. events' \in [Fences -> Seq(Types)] /\ batch' \in [Handlers -> SUBSET Ids]
  BY <1>1, <1>4 DEF Typed, TypeOK
<1>6. decided' \in [Handlers -> {<<>>} \union (Fences \X Types)]
  BY <1>1 DEF Typed, TypeOK
<1>7. TypeOK'
  BY <1>1, <1>2, <1>5, <1>6 DEF Typed, TypeOK, outVars
<1>8. QED BY <1>2, <1>7 DEF Typed

\* The ways an ingest ends early or is announced.
LEMMA TypedEnds ==
    ASSUME Typed, NEW h \in Handlers,
           LogFails(h) \/ PushSuspends(h) \/ Push(h) \/ PushAborts(h) \/ Announce(h)
           \/ \E told \in SUBSET logged[h] : AnnounceAborts(h, told)
    PROVE  Typed'
<1>1. Release(h) \in Handlers \union {NoHandler}
  BY DEF Release, Typed, TypeOK
<1>2. CASE LogFails(h)
  <2>1. pc' \in [Handlers -> Pcs] /\ Deciding'
    BY <1>2, PcsAre DEF LogFails, Typed, TypeOK, Deciding, Goto, Idle
  <2>2. TypeOK'
    BY <1>1, <1>2, <2>1 DEF LogFails, Typed, TypeOK, dbVars, outVars
  <2>3. QED BY <2>1, <2>2 DEF Typed
<1>3. CASE Push(h)
  <2>1. pc' \in [Handlers -> Pcs] /\ Deciding'
    BY <1>3, DecidingMoves, PcsAre DEF Push, taskVars
  <2>2. TypeOK'
    BY <1>1, <1>3, <2>1 DEF Push, Typed, TypeOK, dbVars, taskVars
  <2>3. QED BY <2>1, <2>2 DEF Typed
<1>4. CASE PushSuspends(h)
  <2>1. pc' \in [Handlers -> Pcs] /\ Deciding'
    BY <1>4, DecidingMoves, PcsAre DEF PushSuspends, taskVars
  <2>2. TypeOK'
    BY <1>1, <1>4, <2>1 DEF PushSuspends, Typed, TypeOK, dbVars, taskVars, outVars
  <2>3. QED BY <2>1, <2>2 DEF Typed
<1>5. CASE PushAborts(h)
  <2>1. pc' \in [Handlers -> Pcs] /\ Deciding'
    BY <1>5, DecidingMoves, PcsAre DEF PushAborts, Idle
  <2>2. TypeOK'
    BY <1>5, <2>1 DEF PushAborts, Typed, TypeOK, dbVars
  <2>3. QED BY <2>1, <2>2 DEF Typed
<1>6. CASE Announce(h)
  <2>1. pc' \in [Handlers -> Pcs] /\ Deciding'
    BY <1>6, DecidingMoves, PcsAre DEF Announce, Idle
  <2>2. Announced(via[h], logged[h]) \in SUBSET Ids
    BY DEF Announced, Typed, TypeOK
  <2>3. TypeOK'
    BY <1>6, <2>1, <2>2 DEF Announce, Typed, TypeOK, dbVars
  <2>4. QED BY <2>1, <2>3 DEF Typed
<1>7. ASSUME NEW told \in SUBSET logged[h], AnnounceAborts(h, told) PROVE Typed'
  <2>1. pc' \in [Handlers -> Pcs] /\ Deciding'
    BY <1>7, DecidingMoves, PcsAre DEF AnnounceAborts, Idle
  <2>2. told \in SUBSET Ids
    BY DEF Typed, TypeOK
  <2>3. TypeOK'
    BY <1>7, <2>1, <2>2 DEF AnnounceAborts, Typed, TypeOK, dbVars
  <2>4. QED BY <2>1, <2>3 DEF Typed
<1>8. QED BY <1>2, <1>3, <1>4, <1>5, <1>6, <1>7

\* What users do leaves the ingests alone.
LEMMA EditIs == Edit => UNCHANGED <<taskVars, outVars, loop, pc, sends>> /\ loop = NoHandler
BY DEF Edit, CreateFence, UpdateFence, DeleteFence, LinkUser, DeleteAllDevices, RegisterDevice

LEMMA TypedEdit ==
    ASSUME Typed, Edit
    PROVE  Typed'
<1>1. UNCHANGED <<taskVars, outVars, loop, pc, sends>>
  BY EditIs
<1>2. Deciding'
  BY <1>1 DEF taskVars, Typed, Deciding
<1> DEFINE Rows == /\ exists \in BOOLEAN /\ linked \in SUBSET Users
                   /\ fence \in [Fences -> {"new", "on", "off", "gone"}]
                   /\ area \in [Fences -> Areas]
                   /\ events \in [Fences -> Seq(Types)]
                   /\ stored \in SUBSET Fixes
<1>3. Rows'
  <2>1. ASSUME NEW f \in Fences, NEW s \in {"on", "off"}, NEW a \in Areas,
               CreateFence(f, s, a) \/ UpdateFence(f, s, a)
        PROVE  Rows'
    <3>1. /\ fence' = [fence EXCEPT ![f] = s] /\ area' = [area EXCEPT ![f] = a]
          /\ UNCHANGED <<exists, linked, events, stored>>
      BY <2>1 DEF CreateFence, UpdateFence
    <3>2. QED BY <3>1 DEF Typed, TypeOK
  <2>2. ASSUME NEW f \in Fences, DeleteFence(f) PROVE Rows'
    BY <2>2 DEF DeleteFence, Typed, TypeOK
  <2>3. ASSUME NEW u \in Users, LinkUser(u) PROVE Rows'
    BY <2>3 DEF LinkUser, Typed, TypeOK
  <2>4. ASSUME NEW u \in Users, DeleteAllDevices(u) PROVE Rows'
    <3>1. fence' \in [Fences -> {"new", "on", "off", "gone"}]
      BY <2>4 DEF DeleteAllDevices, Typed, TypeOK
    <3>2. events' \in [Fences -> Seq(Types)]
      BY <2>4 DEF DeleteAllDevices
    <3>3. QED BY <2>4, <3>1, <3>2 DEF DeleteAllDevices, Typed, TypeOK
  <2>5. CASE RegisterDevice
    BY <2>5 DEF RegisterDevice, Typed, TypeOK
  <2> HIDE DEF Rows
  <2>6. QED BY <2>1, <2>2, <2>3, <2>4, <2>5 DEF Edit
<1>4. TypeOK'
  BY <1>1, <1>3 DEF Typed, TypeOK, taskVars, outVars
<1>5. QED BY <1>2, <1>4 DEF Typed

LEMMA TypedNext == Typed /\ [Next]_vars => Typed'
<1> SUFFICES ASSUME Typed, [Next]_vars
             PROVE  Typed'
  OBVIOUS
<1>1. CASE UNCHANGED vars
  BY <1>1 DEF vars, dbVars, taskVars, outVars, Typed, TypeOK, Deciding
<1>2. ASSUME NEW h \in Handlers, Ingest(h) PROVE Typed'
  BY <1>2, TypedWalk, TypedCheck, TypedLog, TypedEnds DEF Ingest, Proceed
<1>3. QED BY <1>1, <1>2, TypedStore, TypedEdit DEF Next

LEMMA TypedAlways == Spec => []Typed
BY InitTyped, TypedNext, PTL DEF Spec

\* Every variable of the ingest keeps its type, for any geofences, users, entry points
\* and number of ingests at once.
THEOREM TypeOKHolds == Spec => []TypeOK
<1>1. Typed => TypeOK
  BY DEF Typed
<1>2. QED BY <1>1, TypedAlways, PTL

-----------------------------------------------------------------------------
(* Overlapping ingests.                                                    *)

\* The newest event of a geofence.
Newest(f) == events[f][Len(events[f])]

\* The ingests about to log e.
Deciders(e) == {h \in Handlers : decided[h] = e}

\* The last k events of a log are equal.
Run(log, k) == \A j \in (Len(log) - k + 1)..Len(log) : log[j] = log[Len(log)]

\* Equal events at the end of a log, and the ingests about to log one more of them,
\* are no more than the ingests there can be.
RunFits(f) ==
    \A k \in 1..Len(events[f]) : Run(events[f], k) =>
        k + Cardinality(Deciders(<<f, Newest(f)>>)) <= Cardinality(Handlers)

\* RunsBounded, for one geofence.
Bounded(log) ==
    \A i \in 1..Len(log) :
        i + Cardinality(Handlers) <= Len(log) => \E j \in i..(i + Cardinality(Handlers)) : log[j] # log[i]

RunsFit == \A f \in Fences : RunFits(f) /\ Bounded(events[f])

LEMMA HandlersCount == Cardinality(Handlers) \in Nat
BY HandlersFinite, FS_CardinalityType

LEMMA DecidersCount ==
    \A e : IsFiniteSet(Deciders(e)) /\ Cardinality(Deciders(e)) \in Nat
           /\ Cardinality(Deciders(e)) <= Cardinality(Handlers)
<1> TAKE e
<1>1. Deciders(e) \subseteq Handlers
  BY DEF Deciders
<1>2. IsFiniteSet(Deciders(e)) /\ Cardinality(Deciders(e)) <= Cardinality(Handlers)
  BY <1>1, HandlersFinite, FS_Subset
<1>3. QED BY <1>2, FS_CardinalityType

\* A step that leaves the log of f alone, or empties it, and decides nothing the log
\* ends with.
LEMMA RunStays ==
    ASSUME Typed, NEW f \in Fences, RunFits(f), Bounded(events[f]),
           events'[f] = events[f] \/ events'[f] = <<>>,
           events[f] # <<>> => \A h \in Handlers : decided'[h] = <<f, Newest(f)>> => decided[h] = <<f, Newest(f)>>
    PROVE  RunFits(f)' /\ Bounded(events[f])'
<1>1. CASE events'[f] = <<>>
  BY <1>1 DEF RunFits, Bounded
<1>2. CASE events'[f] = events[f] /\ events[f] # <<>>
  <2> DEFINE e == <<f, Newest(f)>>
  <2>1. Deciders(e)' \subseteq Deciders(e)
    BY <1>2 DEF Deciders, Newest
  <2>2. e' = e
    BY <1>2 DEF Newest
  <2>3. Cardinality(Deciders(e)') <= Cardinality(Deciders(e)) /\ Cardinality(Deciders(e)') \in Nat
    BY <2>1, DecidersCount, FS_Subset, FS_CardinalityType
  <2>4. ASSUME NEW k \in 1..Len(events[f]), Run(events[f], k)
        PROVE  k + Cardinality(Deciders(e)') <= Cardinality(Handlers)
    <3>1. k + Cardinality(Deciders(e)) <= Cardinality(Handlers)
      BY <2>4 DEF RunFits
    <3>2. k \in Int /\ Cardinality(Deciders(e)) \in Nat /\ Cardinality(Handlers) \in Nat
      BY HandlersCount, DecidersCount
    <3> HIDE DEF e
    <3>3. QED BY <2>3, <3>1, <3>2
  <2>5. RunFits(f)'
    BY <1>2, <2>4 DEF RunFits, Run
  <2>6. Bounded(events[f])'
    BY <1>2 DEF Bounded
  <2>7. QED BY <2>5, <2>6
<1>3. QED BY <1>1, <1>2

\* An ingest logs the crossing it decided.
LEMMA RunGrows ==
    ASSUME Typed, NEW f \in Fences, RunFits(f), Bounded(events[f]),
           NEW h \in Handlers, NEW c \in Types, decided[h] = <<f, c>>,
           events'[f] = Append(events[f], c), decided' = [decided EXCEPT ![h] = <<>>]
    PROVE  RunFits(f)' /\ Bounded(events[f])'
<1> DEFINE N == Cardinality(Handlers)
           n == Len(events[f])
           D == Deciders(<<f, c>>)
<1>1. events[f] \in Seq(Types)
  BY DEF Typed, TypeOK
<1>2. /\ n \in Nat /\ N \in Nat /\ Cardinality(D) \in Nat /\ Cardinality(D) <= N
  BY <1>1, HandlersCount, DecidersCount
<1>3. Len(events'[f]) = n + 1 /\ Newest(f)' = c /\ \A j \in 1..n : events'[f][j] = events[f][j]
  BY <1>1 DEF Newest
<1>4. D' = D \ {h} /\ h \in D
  BY DEF Deciders, Typed, TypeOK
<1>5. Cardinality(D') = Cardinality(D) - 1 /\ Cardinality(D') \in Nat
  BY <1>4, DecidersCount, FS_RemoveElement, FS_CardinalityType
<1> HIDE DEF N, n, D
<1>6. ASSUME NEW k \in 1..(n + 1), Run(events'[f], k)
      PROVE  k + Cardinality(D') <= N
  <2>1. CASE k = 1
    BY <2>1, <1>2, <1>5
  <2>2. CASE k # 1
    <3>1. k - 1 \in 1..n
      BY <2>2, <1>2
    <3>2. \A j \in (n - (k - 1) + 1)..n : events[f][j] = c
      <4> TAKE j \in (n - (k - 1) + 1)..n
      <4>1. j \in ((n + 1) - k + 1)..(n + 1) /\ j \in 1..n
        BY <3>1, <1>2
      <4>2. events'[f][j] = c
        BY <4>1, <1>6, <1>3 DEF Run, Newest
      <4>3. QED BY <4>1, <4>2, <1>3
    <3>3. n \in (n - (k - 1) + 1)..n
      BY <3>1, <1>2
    <3>4. Newest(f) = c /\ Run(events[f], k - 1)
      BY <3>2, <3>3 DEF Newest, Run, n
    <3>5. (k - 1) + Cardinality(D) <= N
      BY <3>1, <3>4 DEF RunFits, D, N, n
    <3>6. QED BY <3>5, <1>2, <1>5
  <2>3. QED BY <2>1, <2>2
<1>7. RunFits(f)'
  <2>1. D' = Deciders(<<f, Newest(f)>>)'
    BY <1>3 DEF D, Deciders
  <2>2. N' = N
    BY DEF N
  <2>3. QED BY <1>6, <2>1, <2>2, <1>3 DEF RunFits, N
<1>8. Bounded(events[f])'
  <2>1. ASSUME NEW i \in 1..(n + 1), i + N <= n + 1
        PROVE  \E j \in i..(i + N) : events'[f][j] # events'[f][i]
    <3>1. CASE i + N <= n
      <4>1. i \in 1..n
        BY <3>1, <1>2
      <4>2. PICK j \in i..(i + N) : events[f][j] # events[f][i]
        BY <3>1, <4>1 DEF Bounded, n, N
      <4>3. j \in 1..n
        BY <4>1, <3>1, <1>2
      <4>4. QED BY <4>1, <4>2, <4>3, <1>3
    <3>2. CASE i + N = n + 1
      <4>1. SUFFICES ASSUME \A j \in i..(i + N) : events'[f][j] = events'[f][i]
                     PROVE  FALSE
        OBVIOUS
      <4>2. i \in Int /\ N + 1 \in 1..(n + 1) /\ i = (n + 1) - (N + 1) + 1
        BY <3>2, <1>2
      <4>3. n + 1 \in i..(i + N)
        BY <3>2, <1>2
      <4>4. Run(events'[f], N + 1)
        BY <3>2, <4>1, <4>2, <4>3, <1>3 DEF Run
      <4>5. (N + 1) + Cardinality(D') <= N
        BY <1>6, <4>2, <4>4
      <4>6. QED BY <4>5, <1>2, <1>5
    <3>3. i + N <= n \/ i + N = n + 1
      BY <2>1, <1>2
    <3>4. QED BY <3>1, <3>2, <3>3
  <2>2. QED BY <2>1, <1>3 DEF Bounded, N
<1>9. QED BY <1>7, <1>8

LEMMA DecidedStays ==
    ASSUME NEW h \in Handlers,
           (\E m \in Fixes, v \in Vias : Store(h, v, m)) \/ ReadUsers(h) \/ (\E u \in Users : ReadFences(h, u))
           \/ Collect(h) \/ Alert(h) \/ Return(h) \/ LogFails(h) \/ PushSuspends(h) \/ Push(h) \/ PushAborts(h)
           \/ Announce(h) \/ \E told \in SUBSET logged[h] : AnnounceAborts(h, told)
    PROVE  events' = events /\ (decided' = decided \/ decided' = [decided EXCEPT ![h] = <<>>])
BY DEF Store, ReadUsers, ReadFences, Collect, Alerting, Alert, Return, LogFails, PushSuspends, Push, PushAborts, Announce, AnnounceAborts, dbVars, taskVars

LEMMA EditShortens ==
    ASSUME Typed, Edit, NEW f \in Fences
    PROVE  decided' = decided /\ (events'[f] = events[f] \/ events'[f] = <<>>)
<1>1. decided' = decided
  BY EditIs DEF taskVars
<1>2. events' = events \/ events' = [g \in Fences |-> <<>>]
      \/ \E g \in Fences : events' = [events EXCEPT ![g] = <<>>]
  BY DEF Edit, CreateFence, UpdateFence, DeleteFence, LinkUser, DeleteAllDevices, RegisterDevice
<1>3. events \in [Fences -> Seq(Types)]
  BY DEF Typed, TypeOK
<1>4. QED BY <1>1, <1>2, <1>3

LEMMA RunsFitStays ==
    ASSUME Typed, RunsFit,
           \A f \in Fences : events'[f] = events[f] \/ events'[f] = <<>>,
           decided' = decided \/ \E h \in Handlers : decided' = [decided EXCEPT ![h] = <<>>]
    PROVE  RunsFit'
<1> SUFFICES ASSUME NEW f \in Fences
             PROVE  RunFits(f)' /\ Bounded(events[f])'
  BY DEF RunsFit
<1>1. decided \in [Handlers -> {<<>>} \union (Fences \X Types)]
  BY DEF Typed, TypeOK
<1>2. \A h \in Handlers : decided'[h] = decided[h] \/ decided'[h] = <<>>
  BY <1>1
<1>3. \A c : <<f, c>> # <<>>
  OBVIOUS
<1>4. QED BY <1>2, <1>3, RunStays DEF RunsFit

\* A comparison never decides what the log ends with.
LEMMA RunsFitCheck ==
    ASSUME Typed, RunsFit, NEW h \in Handlers, NEW g \in Fences, NEW inside \in BOOLEAN, Check(h, g, inside)
    PROVE  RunsFit'
<1> SUFFICES ASSUME NEW f \in Fences
             PROVE  RunFits(f)' /\ Bounded(events[f])'
  BY DEF RunsFit
<1>1. events' = events
  BY DEF Check, dbVars
<1>2. PICK c : c = Crossing(events[g], inside)
  OBVIOUS
<1>3. decided' = [decided EXCEPT ![h] = IF c = NoCrossing THEN <<>> ELSE <<g, c>>]
  BY <1>2 DEF Check
<1>4. events[g] # <<>> /\ c # NoCrossing => c # Newest(g)
  BY <1>2 DEF Crossing, Newest
<1>5. \A k \in Handlers : decided'[k] = decided[k] \/ decided'[k] = <<>>
         \/ (c # NoCrossing /\ decided'[k] = <<g, c>>)
  BY <1>3 DEF Typed, TypeOK
<1>6. ASSUME events[f] # <<>>, NEW k \in Handlers, decided'[k] = <<f, Newest(f)>>
      PROVE  decided[k] = <<f, Newest(f)>>
  BY <1>4, <1>5, <1>6
<1>7. QED BY <1>1, <1>6, RunStays DEF RunsFit

LEMMA RunsFitLog ==
    ASSUME Typed, RunsFit, NEW h \in Handlers, LogBreach(h)
    PROVE  RunsFit'
<1>1. PICK g \in Fences, c \in Types :
         /\ decided[h] = <<g, c>>
         /\ events' = [events EXCEPT ![g] = Append(events[g], c)]
         /\ decided' = [decided EXCEPT ![h] = <<>>]
  BY LogBreachIs
<1>2. events \in [Fences -> Seq(Types)] /\ decided \in [Handlers -> {<<>>} \union (Fences \X Types)]
  BY DEF Typed, TypeOK
<1> SUFFICES ASSUME NEW f \in Fences
             PROVE  RunFits(f)' /\ Bounded(events[f])'
  BY DEF RunsFit
<1>3. CASE f = g
  <2>1. events'[f] = Append(events[f], c)
    BY <1>1, <1>2, <1>3
  <2>2. QED BY <1>1, <1>3, <2>1, RunGrows DEF RunsFit
<1>4. CASE f # g
  <2>1. events'[f] = events[f]
    BY <1>1, <1>2, <1>4
  <2>2. \A k \in Handlers : decided'[k] = decided[k] \/ decided'[k] = <<>>
    BY <1>1, <1>2
  <2>3. \A x : <<f, x>> # <<>>
    OBVIOUS
  <2>4. QED BY <2>1, <2>2, <2>3, RunStays DEF RunsFit
<1>5. QED BY <1>3, <1>4

LEMMA RunsFitNext == Typed /\ RunsFit /\ [Next]_vars => RunsFit'
<1> SUFFICES ASSUME Typed, RunsFit, [Next]_vars
             PROVE  RunsFit'
  OBVIOUS
<1>1. CASE UNCHANGED vars
  BY <1>1, RunsFitStays DEF vars, dbVars, taskVars
<1>2. ASSUME NEW h \in Handlers, NEW v \in Vias, NEW m \in Fixes, Store(h, v, m)
      PROVE  RunsFit'
  BY <1>2, DecidedStays, RunsFitStays
<1>3. ASSUME NEW h \in Handlers, Ingest(h)
      PROVE  RunsFit'
  <2>1. CASE \E f \in Fences, inside \in BOOLEAN : Check(h, f, inside)
    BY <2>1, RunsFitCheck
  <2>2. CASE LogBreach(h)
    BY <2>2, RunsFitLog
  <2>3. CASE ReadUsers(h) \/ (\E u \in Users : ReadFences(h, u)) \/ Collect(h) \/ Alert(h) \/ Return(h)
             \/ LogFails(h) \/ PushSuspends(h) \/ Push(h) \/ PushAborts(h) \/ Announce(h)
             \/ \E told \in SUBSET logged[h] : AnnounceAborts(h, told)
    BY <2>3, DecidedStays, RunsFitStays
  <2>4. QED BY <1>3, <2>1, <2>2, <2>3 DEF Ingest, Proceed
<1>4. CASE Edit
  <2>1. decided' = decided
    BY <1>4, EditIs DEF taskVars
  <2>2. \A f \in Fences : events'[f] = events[f] \/ events'[f] = <<>>
    BY <1>4, EditShortens
  <2>3. QED BY <2>1, <2>2, RunsFitStays
<1>5. QED BY <1>1, <1>2, <1>3, <1>4 DEF Next

\* However many ingests overlap and whatever is edited or deleted meanwhile, one
\* crossing is logged at most once per ingest under way: get_last_breach_event and
\* log_breach_event are two transactions, but each ingest looks before it logs.
THEOREM RunsBoundedHolds == Spec => []RunsBounded
<1>1. Init => RunsFit
  <2> SUFFICES ASSUME Init, NEW f \in Fences
               PROVE  RunFits(f) /\ Bounded(events[f])
    BY DEF RunsFit
  <2>1. events[f] = <<>> /\ Len(events[f]) = 0
    BY DEF Init
  <2>2. QED BY <2>1 DEF RunFits, Bounded
<1>2. RunsFit => RunsBounded
  BY DEF RunsFit, RunsBounded, Bounded
<1>3. Spec => []RunsFit
  BY <1>1, RunsFitNext, TypedAlways, PTL DEF Spec
<1>4. QED BY <1>2, <1>3, PTL

-----------------------------------------------------------------------------
(* Nothing is kept from the apps.                                          *)

Running(h) == pc[h] \in IngestPcs \union {"push"}

\* Ingests can lose what they logged only when a geofence or the tracker goes away
\* under them, which POST /sendGPSData does not let happen.
Undisturbed == Vias = {"http"} \/ Edits \intersect {"delete", "unlink"} = {}

\* The lists of an ingest are empty outside of the steps that use them.
Cleared ==
    \A h \in Handlers :
        /\ pc[h] \notin {"check", "log"} => todo[h] = {} /\ batch[h] = {}
        /\ pc[h] \notin {"next", "check", "log"} => users[h] = {}
        /\ pc[h] \in {Idle, "users"} => logged[h] = {}

\* POST /sendGPSData holds the loop until it has pushed.
HoldsTheLoop == Vias = {"http"} => \A h \in Handlers : Running(h) => loop = h

\* The rows ingest h will refer to are there.
Stands(h) ==
    /\ exists
    /\ \A f \in Fences : \A b \in BOOLEAN : <<f, b>> \in todo[h] => Exists(f)
    /\ \A f \in Fences : \A c \in Types : decided[h] = <<f, c>> => Exists(f)

Standing == \A h \in Handlers : pc[h] \in IngestPcs => Stands(h)

Pushing(h) == Running(h) \/ pc[h] = "pushing"

\* A stored fix was pushed, or its push broke off, or its ingest still has it to push.
Kept == \A m \in stored : m \in pushed \union cut \/ \E h \in Handlers : Pushing(h) /\ fix[h] = m

\* A logged event was announced or given up, or an ingest still holds it.
Held ==
    \A f \in Fences : \A i \in 1..Len(events[f]) :
        <<f, i>> \in announced \union unsaid \/ \E h \in Handlers : <<f, i>> \in batch[h] \union logged[h]

\* The log of f says that the tracker is in.
Inside(f) == events[f] # <<>> /\ Newest(f) = "ENTERED"

\* An ingest compares: the position and the log agree, or it decides a crossing.
LEMMA CheckIs ==
    ASSUME Typed, NEW h \in Handlers, NEW f \in Fences, NEW inside \in BOOLEAN, Check(h, f, inside)
    PROVE  \/ /\ inside <=> Inside(f)
              /\ decided' = [decided EXCEPT ![h] = <<>>] /\ pc' = [pc EXCEPT ![h] = "check"]
           \/ \E c \in Types :
                /\ (inside <=> ~Inside(f)) /\ (inside <=> c = "ENTERED")
                /\ decided' = [decided EXCEPT ![h] = <<f, c>>] /\ pc' = [pc EXCEPT ![h] = "log"]
<1>1. PICK c : c = Crossing(events[f], inside)
  OBVIOUS
<1>2. /\ pc' = [pc EXCEPT ![h] = IF c = NoCrossing THEN "check" ELSE "log"]
      /\ decided' = [decided EXCEPT ![h] = IF c = NoCrossing THEN <<>> ELSE <<f, c>>]
  BY <1>1 DEF Check, Goto
<1>3. CASE inside <=> Inside(f)
  <2>1. c = NoCrossing
    BY <1>1, <1>3 DEF Crossing, Inside, Newest
  <2>2. QED BY <1>2, <1>3, <2>1
<1>4. CASE inside /\ ~Inside(f)
  <2>1. c = "ENTERED" /\ c # NoCrossing
    BY <1>1, <1>4 DEF Crossing, Inside, Newest, NoCrossing
  <2>2. QED BY <1>2, <1>4, <2>1 DEF Types
<1>5. CASE ~inside /\ Inside(f)
  <2>1. c = "EXITED" /\ c # NoCrossing
    BY <1>1, <1>5 DEF Crossing, Inside, Newest, NoCrossing
  <2>2. QED BY <1>2, <1>5, <2>1 DEF Types
<1>6. QED BY <1>3, <1>4, <1>5

\* As CheckIs, without what is compared.
LEMMA CheckMoves ==
    ASSUME Typed, NEW h \in Handlers, NEW f \in Fences, NEW inside \in BOOLEAN, Check(h, f, inside)
    PROVE  /\ pc[h] = "check" /\ <<f, inside>> \in todo[h] /\ todo'[h] = todo[h] \ {<<f, inside>>}
           /\ pc' = [pc EXCEPT ![h] = "check"] \/ pc' = [pc EXCEPT ![h] = "log"]
           /\ decided'[h] = <<>> \/ \E c \in Types : decided'[h] = <<f, c>>
<1>1. pc' = [pc EXCEPT ![h] = "check"] \/ pc' = [pc EXCEPT ![h] = "log"]
  BY CheckIs
<1>2. decided' = [decided EXCEPT ![h] = <<>>] \/ \E c \in Types : decided' = [decided EXCEPT ![h] = <<f, c>>]
  BY CheckIs
<1>3. pc[h] = "check" /\ <<f, inside>> \in todo[h] /\ todo' = [todo EXCEPT ![h] = @ \ {<<f, inside>>}]
  BY DEF Check
<1>4. QED BY <1>1, <1>2, <1>3 DEF Typed, TypeOK

\* One more case of an ingest's lists, for the handler that moves and the others.
LEMMA ClearedMoves ==
    ASSUME Typed, Cleared, NEW h \in Handlers, NEW p \in Pcs, pc' = [pc EXCEPT ![h] = p],
           \A k \in Handlers \ {h} : /\ users'[k] = users[k] /\ todo'[k] = todo[k]
                                     /\ batch'[k] = batch[k] /\ logged'[k] = logged[k],
           p \notin {"check", "log"} => todo'[h] = {} /\ batch'[h] = {},
           p \notin {"next", "check", "log"} => users'[h] = {},
           p \in {Idle, "users"} => logged'[h] = {}
    PROVE  Cleared'
<1>1. \A k \in Handlers : pc'[k] = IF k = h THEN p ELSE pc[k]
  BY DEF Typed, TypeOK
<1>2. QED BY <1>1 DEF Cleared

LEMMA ClearedIngest ==
    ASSUME Typed, Cleared, NEW h \in Handlers, Ingest(h)
    PROVE  Cleared'
<1> USE DEF Goto
<1>1. CASE ReadUsers(h)
  BY <1>1, ClearedMoves, PcsAre DEF ReadUsers, Typed, TypeOK, Cleared, Idle
<1>2. ASSUME NEW u \in Users, ReadFences(h, u) PROVE Cleared'
  BY <1>2, ClearedMoves, PcsAre DEF ReadFences, Typed, TypeOK, Cleared, Idle
<1>3. ASSUME NEW g \in Fences, NEW b \in BOOLEAN, Check(h, g, b) PROVE Cleared'
  <2> HIDE DEF Goto
  <2>1. UNCHANGED <<users, batch, logged>> /\ todo' = [todo EXCEPT ![h] = @ \ {<<g, b>>}]
    BY <1>3 DEF Check
  <2>2. \A k \in Handlers \ {h} : todo'[k] = todo[k]
    BY <2>1 DEF Typed, TypeOK
  <2>3. pc' = [pc EXCEPT ![h] = "check"] \/ pc' = [pc EXCEPT ![h] = "log"]
    BY <1>3, CheckMoves
  <2>4. QED BY <2>1, <2>2, <2>3, ClearedMoves, PcsAre DEF Idle
<1>4. CASE LogBreach(h)
  <2>1. pc' = [pc EXCEPT ![h] = "check"] /\ UNCHANGED <<users, todo, logged>>
        /\ \A k \in Handlers \ {h} : batch'[k] = batch[k]
    BY <1>4 DEF LogBreach, Typed, TypeOK
  <2>2. QED BY <2>1, ClearedMoves, PcsAre DEF Idle
<1>5. CASE LogFails(h)
  BY <1>5, ClearedMoves, PcsAre DEF LogFails, Typed, TypeOK, Idle
<1>6. CASE Collect(h) \/ Alert(h)
  <2>1. UNCHANGED <<users, todo>> /\ todo[h] = {} /\ batch'[h] = {} /\ pc' = [pc EXCEPT ![h] = "next"]
    BY <1>6 DEF Collect, Alerting, Alert, taskVars, Typed, TypeOK
  <2>2. \A k \in Handlers \ {h} : batch'[k] = batch[k] /\ logged'[k] = logged[k]
    BY <1>6 DEF Collect, Alert, taskVars, Typed, TypeOK
  <2>3. QED BY <2>1, <2>2, ClearedMoves, PcsAre DEF Idle
<1>7. CASE Return(h)
  BY <1>7, ClearedMoves, PcsAre DEF Return, taskVars, Typed, TypeOK, Cleared, Idle
<1>8. CASE PushSuspends(h) \/ Push(h)
  BY <1>8, ClearedMoves, PcsAre DEF PushSuspends, Push, taskVars, Typed, TypeOK, Cleared, Idle
<1>9. CASE PushAborts(h)
  BY <1>9, ClearedMoves, PcsAre DEF PushAborts, Typed, TypeOK, Cleared, Idle
<1>10. CASE Announce(h)
  BY <1>10, ClearedMoves, PcsAre DEF Announce, Typed, TypeOK, Cleared, Idle
<1>a. ASSUME NEW told \in SUBSET logged[h], AnnounceAborts(h, told) PROVE Cleared'
  BY <1>a, ClearedMoves, PcsAre DEF AnnounceAborts, Typed, TypeOK, Cleared, Idle
<1>11. QED BY <1>1, <1>2, <1>3, <1>4, <1>5, <1>6, <1>7, <1>8, <1>9, <1>10, <1>a DEF Ingest, Proceed

LEMMA ClearedNext == Typed /\ Cleared /\ [Next]_vars => Cleared'
<1> SUFFICES ASSUME Typed, Cleared, [Next]_vars
             PROVE  Cleared'
  OBVIOUS
<1>1. CASE UNCHANGED vars
  BY <1>1 DEF vars, taskVars, Cleared
<1>2. ASSUME NEW h \in Handlers, NEW v \in Vias, NEW m \in Fixes, Store(h, v, m)
      PROVE  Cleared'
  BY <1>2, ClearedMoves, PcsAre DEF Store, Goto, Cleared, Idle
<1>3. CASE Edit
  BY <1>3, EditIs DEF taskVars, Cleared
<1>4. QED BY <1>1, <1>2, <1>3, ClearedIngest DEF Next

LEMMA ClearedAlways == Spec => []Cleared
<1>1. Init => Cleared
  BY DEF Init, Cleared, Idle
<1>2. QED BY <1>1, ClearedNext, TypedAlways, PTL DEF Spec

\* Another handler starts on the loop, or takes a step of its ingest, only while no
\* request of POST /sendGPSData is on it.
LEMMA HoldsTheLoopNext == Typed /\ HoldsTheLoop /\ [Next]_vars => HoldsTheLoop'
<1> SUFFICES ASSUME Typed, HoldsTheLoop, [Next]_vars, Vias = {"http"}
             PROVE  \A h \in Handlers : Running(h)' => loop' = h
  BY DEF HoldsTheLoop
<1>1. \A h \in Handlers : Running(h) => loop = h
  BY DEF HoldsTheLoop
<1>2. pc \in [Handlers -> Pcs]
  BY DEF Typed, TypeOK
<1> USE DEF Running, IngestPcs, Goto, Idle
<1>3. CASE UNCHANGED vars
  BY <1>1, <1>3 DEF vars
<1>4. ASSUME NEW h \in Handlers, NEW v \in Vias, NEW m \in Fixes, Store(h, v, m)
      PROVE  \A k \in Handlers : Running(k)' => loop' = k
  BY <1>1, <1>2, <1>4, NotAHandler DEF Store, ThreadFree, HoldsLoop
<1>5. ASSUME NEW h \in Handlers, Ingest(h)
      PROVE  \A k \in Handlers : Running(k)' => loop' = k
  <2>1. CASE ReadUsers(h) \/ (\E u \in Users : ReadFences(h, u)) \/ Collect(h) \/ Alert(h) \/ Return(h) \/ LogBreach(h)
             \/ (\E f \in Fences, inside \in BOOLEAN : Check(h, f, inside))
    <3>1. loop' = loop /\ Running(h) /\ \E p \in Pcs : pc' = [pc EXCEPT ![h] = p]
      BY <2>1, PcsAre DEF ReadUsers, ReadFences, Collect, Alerting, Alert, Return, LogBreach, Check
    <3>2. QED BY <1>1, <1>2, <3>1
  <2>2. CASE LogFails(h) \/ PushSuspends(h) \/ (Push(h) /\ pc[h] = "push")
    <3>1. Running(h) /\ pc' \in {[pc EXCEPT ![h] = p] : p \in {Idle, "pushing", "breach"}}
      BY <2>2 DEF LogFails, PushSuspends, Push
    <3>2. \A k \in Handlers : Running(k)' => Running(k) /\ k # h
      BY <1>2, <3>1
    <3>3. QED BY <1>1, <3>1, <3>2
  <2>3. CASE (Push(h) /\ pc[h] = "pushing") \/ PushAborts(h) \/ Announce(h)
             \/ \E told \in SUBSET logged[h] : AnnounceAborts(h, told)
    <3>1. ~Running(h) /\ pc' \in {[pc EXCEPT ![h] = p] : p \in {Idle, "breach"}}
      BY <2>3 DEF Push, PushAborts, Announce, AnnounceAborts
    <3>2. \A k \in Handlers : Running(k)' => Running(k)
      BY <1>2, <3>1
    <3>3. loop' = loop \/ loop = h
      BY <2>3 DEF Push, Release, PushAborts, Announce, AnnounceAborts
    <3>4. QED BY <1>1, <3>1, <3>2, <3>3
  <2>4. CASE Push(h)
    BY <2>2, <2>3, <2>4 DEF Push
  <2>5. QED BY <1>5, <2>1, <2>2, <2>3, <2>4 DEF Ingest, Proceed
<1>6. CASE Edit
  BY <1>1, <1>6, EditIs
<1>7. QED BY <1>3, <1>4, <1>5, <1>6 DEF Next

LEMMA HoldsTheLoopAlways == Spec => []HoldsTheLoop
<1>1. Init => HoldsTheLoop
  BY DEF Init, HoldsTheLoop, Running, IngestPcs, Idle
<1>2. QED BY <1>1, HoldsTheLoopNext, TypedAlways, PTL DEF Spec

\* The rows of the loop's own requests cannot be taken from an ingest on the loop; the
\* rows of the others can when users may delete them.
LEMMA EditKeepsRows ==
    ASSUME Typed, Undisturbed, HoldsTheLoop, Edit, NEW h \in Handlers, Running(h)
    PROVE  (exists => exists') /\ \A f \in Fences : Exists(f) => Exists(f)'
<1>1. CASE Vias = {"http"}
  BY <1>1, EditIs, NotAHandler DEF HoldsTheLoop
<1>2. CASE "delete" \notin Edits /\ "unlink" \notin Edits
  <2>1. exists => exists'
    BY <1>2 DEF Edit, CreateFence, UpdateFence, DeleteFence, LinkUser, DeleteAllDevices, RegisterDevice
  <2>2. fence' = fence \/ \E f \in Fences, s \in {"on", "off"} : fence' = [fence EXCEPT ![f] = s]
    BY <1>2 DEF Edit, CreateFence, UpdateFence, DeleteFence, LinkUser, DeleteAllDevices, RegisterDevice
  <2>3. \A f \in Fences : Exists(f) => Exists(f)'
    BY <2>2 DEF Exists, Typed, TypeOK
  <2>4. QED BY <2>1, <2>3
<1>3. QED BY <1>1, <1>2 DEF Undisturbed

\* The ingests that stand still keep their rows while the rows are there.
LEMMA StandingOthers ==
    ASSUME Standing, NEW k \in Handlers, pc'[k] = pc[k], todo'[k] = todo[k], decided'[k] = decided[k],
           pc[k] \in IngestPcs => (exists => exists') /\ \A f \in Fences : Exists(f) => Exists(f)'
    PROVE  pc'[k] \in IngestPcs => Stands(k)'
BY DEF Standing, Stands

LEMMA NeverFails == ASSUME Typed, Standing, NEW h \in Handlers PROVE ~LogFails(h)
<1> SUFFICES ASSUME LogFails(h)
             PROVE  FALSE
  OBVIOUS
<1>1. pc[h] = "log" /\ ~(exists /\ Exists(decided[h][1]))
  BY DEF LogFails
<1>2. PICK f \in Fences, c \in Types : decided[h] = <<f, c>>
  BY <1>1 DEF Typed, Deciding
<1>3. exists /\ Exists(f)
  BY <1>1, <1>2 DEF Standing, Stands, IngestPcs
<1>4. QED BY <1>1, <1>2, <1>3

LEMMA StandingIngest ==
    ASSUME Typed, Cleared, Standing, NEW h \in Handlers, Ingest(h)
    PROVE  Standing'
<1>1. exists' = exists /\ fence' = fence
  BY DEF Ingest, Proceed, ReadUsers, ReadFences, Check, LogBreach, LogFails, Collect, Alerting, Alert, Return, PushSuspends, Push, PushAborts, Announce, AnnounceAborts, dbVars
<1>2. \A k \in Handlers \ {h} : pc'[k] = pc[k] /\ todo'[k] = todo[k] /\ decided'[k] = decided[k]
  BY DEF Ingest, Proceed, ReadUsers, ReadFences, Check, LogBreach, LogFails, Collect, Alerting, Alert, Return, PushSuspends, Push, PushAborts, Announce, AnnounceAborts,
         taskVars, Goto, Typed, TypeOK
<1>3. \A f \in Fences : Exists(f) => Exists(f)'
  BY <1>1 DEF Exists
<1>4. pc'[h] \in IngestPcs => Stands(h)'
  <2>1. CASE ReadUsers(h) \/ Collect(h) \/ Alert(h)
    <3>1. pc[h] \in IngestPcs /\ todo'[h] = todo[h] /\ decided'[h] = decided[h]
      BY <2>1 DEF ReadUsers, Collect, Alerting, Alert, taskVars, IngestPcs
    <3>2. QED BY <3>1, <1>1, <1>3 DEF Standing, Stands
  <2>2. ASSUME NEW u \in Users, ReadFences(h, u) PROVE Stands(h)'
    <3>1. pc[h] \in IngestPcs /\ todo'[h] = Listed(u, fix[h]) /\ decided'[h] = decided[h]
      BY <2>2 DEF ReadFences, IngestPcs, Typed, TypeOK
    <3>2. \A f \in Fences : \A b \in BOOLEAN : <<f, b>> \in Listed(u, fix[h]) => Exists(f)
      BY DEF Listed, Exists
    <3>3. QED BY <3>1, <3>2, <1>1, <1>3 DEF Standing, Stands
  <2>3. ASSUME NEW g \in Fences, NEW inside \in BOOLEAN, Check(h, g, inside) PROVE Stands(h)'
    <3>1. pc[h] = "check" /\ <<g, inside>> \in todo[h] /\ todo'[h] \subseteq todo[h]
      BY <2>3, CheckMoves
    <3>2. decided'[h] = <<>> \/ \E c \in Types : decided'[h] = <<g, c>>
      BY <2>3, CheckMoves
    <3>3. exists /\ Exists(g) /\ \A f \in Fences : \A b \in BOOLEAN : <<f, b>> \in todo[h] => Exists(f)
      BY <3>1 DEF Standing, Stands, IngestPcs
    <3>4. QED BY <3>1, <3>2, <3>3, <1>1, <1>3 DEF Stands
  <2>4. CASE LogBreach(h)
    <3>1. pc[h] \in IngestPcs /\ todo'[h] = todo[h] /\ decided'[h] = <<>>
      BY <2>4 DEF LogBreach, IngestPcs, Typed, TypeOK
    <3>2. QED BY <3>1, <1>1, <1>3 DEF Standing, Stands
  <2>5. CASE LogFails(h) \/ Return(h) \/ PushSuspends(h) \/ Push(h) \/ PushAborts(h) \/ Announce(h)
             \/ \E told \in SUBSET logged[h] : AnnounceAborts(h, told)
    BY <2>5 DEF LogFails, Return, PushSuspends, Push, PushAborts, Announce, AnnounceAborts, Goto, IngestPcs, Idle, Typed, TypeOK
  <2>6. QED BY <2>1, <2>2, <2>3, <2>4, <2>5 DEF Ingest, Proceed
<1>5. ASSUME NEW k \in Handlers, k # h PROVE pc'[k] \in IngestPcs => Stands(k)'
  BY <1>1, <1>2, <1>3, <1>5, StandingOthers
<1>6. QED BY <1>4, <1>5 DEF Standing

LEMMA StandingNext ==
    ASSUME Undisturbed, Typed, Cleared, HoldsTheLoop, Standing, [Next]_vars
    PROVE  Standing'
<1>1. CASE UNCHANGED vars
  BY <1>1 DEF vars, dbVars, taskVars, Standing, Stands, Exists
<1>2. ASSUME NEW h \in Handlers, NEW v \in Vias, NEW m \in Fixes, Store(h, v, m)
      PROVE  Standing'
  <2>1. todo[h] = {} /\ decided[h] = <<>>
    BY <1>2 DEF Store, Idle, Cleared, Typed, Deciding
  <2>2. UNCHANGED <<exists, fence, todo, decided>> /\ exists
    BY <1>2 DEF Store
  <2>3. \A f \in Fences : Exists(f) => Exists(f)'
    BY <2>2 DEF Exists
  <2>4. Stands(h)'
    BY <2>1, <2>2 DEF Stands
  <2>5. ASSUME NEW k \in Handlers, k # h PROVE pc'[k] \in IngestPcs => Stands(k)'
    <3>1. pc'[k] = pc[k]
      BY <1>2, <2>5 DEF Store, Goto, Typed, TypeOK
    <3>2. QED BY <2>2, <2>3, <3>1, StandingOthers
  <2>6. QED BY <2>4, <2>5 DEF Standing
<1>3. CASE Edit
  <2>1. UNCHANGED <<pc, todo, decided>>
    BY <1>3, EditIs DEF taskVars
  <2>2. ASSUME NEW k \in Handlers PROVE pc'[k] \in IngestPcs => Stands(k)'
    <3>1. pc[k] \in IngestPcs => (exists => exists') /\ \A f \in Fences : Exists(f) => Exists(f)'
      BY <1>3, EditKeepsRows DEF Running
    <3>2. QED BY <2>1, <3>1, StandingOthers
  <2>3. QED BY <2>2 DEF Standing
<1>4. QED BY <1>1, <1>2, <1>3, StandingIngest DEF Next

LEMMA StandingAlways == ASSUME Undisturbed PROVE Spec => []Standing
<1>1. Init => Standing
  BY DEF Init, Standing, IngestPcs, Idle
<1>2. Typed /\ Cleared /\ HoldsTheLoop /\ Standing /\ [Next]_vars => Standing'
  BY StandingNext
<1>3. QED BY <1>1, <1>2, TypedAlways, ClearedAlways, HoldsTheLoopAlways, PTL DEF Spec

LEMMA KeptIngest ==
    ASSUME Typed, Standing, Kept, NEW h \in Handlers, Ingest(h)
    PROVE  Kept'
<1>1. UNCHANGED <<fix, stored>>
  BY DEF Ingest, Proceed, ReadUsers, ReadFences, Check, LogBreach, LogFails, Collect, Alerting, Alert, Return, PushSuspends, Push, PushAborts, Announce, AnnounceAborts,
         dbVars, taskVars
<1>2. \A k \in Handlers \ {h} : pc'[k] = pc[k]
  BY DEF Ingest, Proceed, ReadUsers, ReadFences, Check, LogBreach, LogFails, Collect, Alerting, Alert, Return, PushSuspends, Push, PushAborts, Announce, AnnounceAborts,
         Goto, Typed, TypeOK
<1>3. pushed \subseteq pushed' /\ cut \subseteq cut'
  BY DEF Ingest, Proceed, ReadUsers, ReadFences, Check, LogBreach, LogFails, Collect, Alert, Return, PushSuspends, Push,
         PushAborts, Announce, AnnounceAborts, outVars
<1>4. Pushing(h) => Pushing(h)' \/ fix[h] \in pushed' \union cut'
  <2>1. CASE ReadUsers(h) \/ (\E u \in Users : ReadFences(h, u)) \/ LogBreach(h) \/ Collect(h) \/ Alert(h) \/ Return(h)
             \/ PushSuspends(h)
    BY <2>1 DEF ReadUsers, ReadFences, LogBreach, Collect, Alert, Return, PushSuspends, Goto, Pushing, Running, IngestPcs,
                Typed, TypeOK
  <2>2. ASSUME NEW f \in Fences, NEW inside \in BOOLEAN, Check(h, f, inside) PROVE Pushing(h)'
    <3>1. pc' = [pc EXCEPT ![h] = "check"] \/ pc' = [pc EXCEPT ![h] = "log"]
      BY <2>2, CheckMoves
    <3>2. QED BY <3>1 DEF Pushing, Running, IngestPcs, Typed, TypeOK
  <2>3. CASE Push(h) \/ PushAborts(h)
    BY <2>3 DEF Push, PushAborts
  <2>4. CASE Announce(h) \/ \E told \in SUBSET logged[h] : AnnounceAborts(h, told)
    BY <2>4 DEF Announce, AnnounceAborts, Pushing, Running, IngestPcs
  <2>5. QED BY <2>1, <2>2, <2>3, <2>4, NeverFails DEF Ingest, Proceed
<1>5. \A k \in Handlers : k # h /\ Pushing(k) => Pushing(k)'
  BY <1>2 DEF Pushing, Running
<1>6. QED BY <1>1, <1>3, <1>4, <1>5 DEF Kept

LEMMA KeptNext ==
    ASSUME Typed, Standing, Kept, [Next]_vars
    PROVE  Kept'
<1>1. CASE UNCHANGED vars
  BY <1>1 DEF vars, dbVars, taskVars, outVars, Kept, Pushing, Running
<1>2. ASSUME NEW h \in Handlers, NEW v \in Vias, NEW m \in Fixes, Store(h, v, m)
      PROVE  Kept'
  <2>1. /\ stored' = stored \union {m} /\ pushed' = pushed /\ cut' = cut
        /\ pc' = [pc EXCEPT ![h] = "users"] /\ pc[h] = Idle /\ fix' = [fix EXCEPT ![h] = m]
    BY <1>2 DEF Store, Goto, outVars
  <2>2. Pushing(h)' /\ fix'[h] = m /\ ~Pushing(h)
    BY <2>1 DEF Pushing, Running, IngestPcs, Idle, Typed, TypeOK
  <2>3. \A k \in Handlers : k # h => fix'[k] = fix[k] /\ (Pushing(k) => Pushing(k)')
    BY <2>1 DEF Pushing, Running, Typed, TypeOK
  <2>4. QED BY <2>1, <2>2, <2>3 DEF Kept
<1>3. CASE Edit
  <2>1. stored' \subseteq stored
    BY <1>3 DEF Edit, CreateFence, UpdateFence, DeleteFence, LinkUser, DeleteAllDevices, RegisterDevice
  <2>2. QED BY <1>3, <2>1, EditIs DEF taskVars, outVars, Kept, Pushing, Running
<1>4. QED BY <1>1, <1>2, <1>3, KeptIngest DEF Next

\* While the server and the database stay up, and unless a geofence or the tracker can be
\* deleted under an ingest, a stored fix is in the hands of its ingest until it went to the
\* whole room of the apps, or the broadcast of it broke off: the alerts in between catch
\* what they raise, and no event is refused.
THEOREM StoredIsPushedHolds == ASSUME Undisturbed PROVE Spec => []StoredIsPushed
<1>1. Init => Kept
  BY DEF Init, Kept
<1>2. Typed /\ Standing /\ Kept /\ [Next]_vars => Kept'
  BY KeptNext
<1>3. Spec => []Kept
  BY <1>1, <1>2, TypedAlways, StandingAlways, PTL DEF Spec
<1>4. Kept => StoredIsPushed
  BY DEF Kept, StoredIsPushed, Quiet, Pushing, Running, IngestPcs, Idle
<1>5. QED BY <1>3, <1>4, PTL

LEMMA HeldIngest ==
    ASSUME "mqtt" \notin Vias, Typed, Standing, Held, NEW h \in Handlers, Ingest(h)
    PROVE  Held'
<1>1. CASE LogBreach(h)
  <2>1. PICK g \in Fences, c \in Types :
              /\ events' = [events EXCEPT ![g] = Append(events[g], c)]
              /\ batch' = [batch EXCEPT ![h] = batch[h] \union {<<g, Len(events[g]) + 1>>}]
              /\ UNCHANGED <<logged, outVars>>
    BY <1>1, LogBreachIs
  <2>2. events[g] \in Seq(Types)
    BY DEF Typed, TypeOK
  <2>3. Len(events'[g]) = Len(events[g]) + 1 /\ \A f \in Fences : f # g => events'[f] = events[f]
    BY <2>1, <2>2 DEF Typed, TypeOK
  <2>4. \A k \in Handlers : batch[k] \subseteq batch'[k]
    BY <2>1 DEF Typed, TypeOK
  <2>5. <<g, Len(events[g]) + 1>> \in batch'[h]
    BY <2>1 DEF Typed, TypeOK
  <2>6. ASSUME NEW f \in Fences, NEW i \in 1..Len(events'[f])
        PROVE  <<f, i>> \in announced' \union unsaid' \/ \E k \in Handlers : <<f, i>> \in batch'[k] \union logged'[k]
    <3>1. CASE i \in 1..Len(events[f])
      <4>1. <<f, i>> \in announced \union unsaid \/ \E k \in Handlers : <<f, i>> \in batch[k] \union logged[k]
        BY <3>1 DEF Held
      <4>2. announced' = announced /\ unsaid' = unsaid /\ logged' = logged
        BY <2>1 DEF outVars
      <4>3. QED BY <2>4, <4>1, <4>2
    <3>2. CASE i \notin 1..Len(events[f])
      <4>1. f = g
        BY <2>3, <3>2
      <4>2. i = Len(events[g]) + 1
        BY <2>2, <2>3, <2>6, <3>2, <4>1
      <4>3. QED BY <2>5, <4>1, <4>2
    <3>3. QED BY <3>1, <3>2
  <2>7. QED BY <2>6 DEF Held
<1>2. CASE Alert(h)
  <2>1. UNCHANGED <<events, announced, unsaid>>
        /\ \A k \in Handlers : batch'[k] \union logged'[k] = batch[k] \union logged[k]
    BY <1>2 DEF Alert, Collected, dbVars, outVars, Typed, TypeOK
  <2>2. QED BY <2>1 DEF Held
<1>3. CASE Announce(h)
  <2>1. via[h] # "mqtt"
    BY DEF Typed, TypeOK
  <2>2. announced' = announced \union logged[h] /\ UNCHANGED <<events, batch, unsaid>>
    BY <1>3, <2>1 DEF Announce, Announced, dbVars
  <2>3. \A k \in Handlers : k # h => logged'[k] = logged[k]
    BY <1>3 DEF Announce, Typed, TypeOK
  <2>4. QED BY <2>2, <2>3 DEF Held
<1>a. CASE PushAborts(h) \/ \E told \in SUBSET logged[h] : AnnounceAborts(h, told)
  <2>1. /\ announced \union unsaid \union logged[h] \subseteq announced' \union unsaid'
        /\ UNCHANGED <<events, batch>>
    BY <1>a DEF PushAborts, AnnounceAborts, dbVars
  <2>2. \A k \in Handlers : k # h => logged'[k] = logged[k]
    BY <1>a DEF PushAborts, AnnounceAborts, Typed, TypeOK
  <2>3. QED BY <2>1, <2>2 DEF Held
<1>4. CASE ReadUsers(h) \/ (\E u \in Users : ReadFences(h, u)) \/ Collect(h) \/ Return(h) \/ PushSuspends(h) \/ Push(h)
  <2>1. UNCHANGED <<events, announced, unsaid, batch, logged>>
    BY <1>4 DEF ReadUsers, ReadFences, Collect, Return, PushSuspends, Push, dbVars, taskVars, outVars
  <2>2. QED BY <2>1 DEF Held
<1>5. ASSUME NEW f \in Fences, NEW inside \in BOOLEAN, Check(h, f, inside) PROVE Held'
  <2>1. UNCHANGED <<events, announced, unsaid, batch, logged>>
    BY <1>5 DEF Check, dbVars, outVars
  <2>2. QED BY <2>1 DEF Held
<1>6. ~LogFails(h)
  BY NeverFails
<1>7. QED BY <1>1, <1>2, <1>3, <1>a, <1>4, <1>5, <1>6 DEF Ingest, Proceed

LEMMA HeldNext ==
    ASSUME "mqtt" \notin Vias, Typed, Standing, Held, [Next]_vars
    PROVE  Held'
<1>1. CASE UNCHANGED vars
  BY <1>1 DEF vars, dbVars, taskVars, outVars, Held
<1>2. ASSUME NEW h \in Handlers, NEW v \in Vias, NEW m \in Fixes, Store(h, v, m)
      PROVE  Held'
  <2>1. UNCHANGED <<events, announced, unsaid, batch, logged>>
    BY <1>2 DEF Store, outVars
  <2>2. QED BY <2>1 DEF Held
<1>3. CASE Edit
  <2>1. UNCHANGED <<announced, unsaid, batch, logged>>
    BY <1>3, EditIs DEF taskVars, outVars
  <2>2. \A f \in Fences : events'[f] = events[f] \/ events'[f] = <<>>
    BY <1>3, EditShortens
  <2>3. \A f \in Fences : 1..Len(events'[f]) \subseteq 1..Len(events[f])
    BY <2>2
  <2>4. QED BY <2>1, <2>3 DEF Held
<1>4. QED BY <1>1, <1>2, <1>3, HeldIngest DEF Next

\* While the server and the database stay up, and unless a geofence or the tracker can be
\* deleted under an ingest, every crossing logged over HTTP or a WebSocket is told to the
\* apps, each user's events carried over the next user's turn, or given up with a broadcast
\* of its own ingest that broke off.
THEOREM BreachesAnnouncedHolds ==
    ASSUME Undisturbed, "mqtt" \notin Vias
    PROVE  Spec => []BreachesAnnounced
<1>1. Init => Held
  <2> SUFFICES ASSUME Init, NEW f \in Fences, NEW i \in 1..Len(events[f])
               PROVE  FALSE
    BY DEF Held
  <2>1. Len(events[f]) = 0
    BY DEF Init
  <2>2. QED BY <2>1
<1>2. Typed /\ Standing /\ Held /\ [Next]_vars => Held'
  BY HeldNext
<1>3. Spec => []Held
  BY <1>1, <1>2, TypedAlways, StandingAlways, PTL DEF Spec
<1>4. Held /\ Cleared => BreachesAnnounced
  <2> SUFFICES ASSUME Held, Cleared, Quiet, NEW e \in AllEvents
               PROVE  e \in announced \union unsaid
    BY DEF BreachesAnnounced
  <2>1. \A h \in Handlers : batch[h] = {} /\ logged[h] = {}
    BY DEF Quiet, Cleared, Idle
  <2>2. PICK f \in Fences : \E i \in 1..Len(events[f]) : e = <<f, i>>
    BY DEF AllEvents
  <2>3. QED BY <2>1, <2>2 DEF Held
<1>5. QED BY <1>3, <1>4, ClearedAlways, PTL

-----------------------------------------------------------------------------
(* Fixes that come in one after the other.                                 *)

Walking(h) == pc[h] \in {"next", "check", "log", "push"}

\* What ingest h still compares is the fix against the circle.
Compared(h) ==
    \A f \in Fences : /\ <<f, TRUE>> \in todo[h] => fix[h] \in area[f]
                      /\ <<f, FALSE>> \in todo[h] => fix[h] \notin area[f]

\* What it is about to log is what the log lacks.
Lacking(h) ==
    \A f \in Fences, c \in Types : decided[h] = <<f, c>> =>
        (c = "ENTERED" <=> ~Inside(f)) /\ (c = "ENTERED" <=> fix[h] \in area[f])

\* Geofence f is ahead of ingest h.
Ahead(h, f) ==
    \/ Owner[f] \in users[h]
    \/ <<f, TRUE>> \in todo[h] \/ <<f, FALSE>> \in todo[h]
    \/ \E c \in Types : decided[h] = <<f, c>>

Agrees(h, f) == Inside(f) <=> fix[h] \in area[f]

\* Every geofence is ahead of the ingest or in step with the fix.
Covered(h) ==
    \A f \in Fences : fence[f] = "on" /\ Owner[f] \in linked => Ahead(h, f) \/ Agrees(h, f)

Faithful == \A h \in Handlers : Walking(h) => Compared(h) /\ Lacking(h) /\ Covered(h)

LEMMA Pairs == \A a, b : <<a, b>> # <<>>
OBVIOUS

\* With every fix on the loop, the ingests that stand still are not under way.
LEMMA Alone ==
    ASSUME Vias = {"http"}, Typed, HoldsTheLoop, NEW h \in Handlers, Ingest(h), NEW k \in Handlers, k # h
    PROVE  ~Walking(k)'
<1>1. \A g \in Handlers : Running(g) => loop = g
  BY DEF HoldsTheLoop
<1>2. pc'[k] = pc[k]
  BY DEF Ingest, Proceed, ReadUsers, ReadFences, Check, LogBreach, LogFails, Collect, Alerting, Alert, Return, PushSuspends, Push, PushAborts, Announce, AnnounceAborts,
         Goto, Typed, TypeOK
<1>3. Running(h) \/ loop = NoHandler \/ loop = h
  BY DEF Ingest, Proceed, ReadUsers, ReadFences, Check, LogBreach, LogFails, Collect, Alerting, Alert, Return,
         PushSuspends, Push, PushAborts, Announce, AnnounceAborts, Running, IngestPcs
<1>4. QED BY <1>1, <1>2, <1>3, NotAHandler DEF Running, Walking, IngestPcs

LEMMA FaithfulWalk ==
    ASSUME Typed, Cleared, Faithful, NEW h \in Handlers,
           ReadUsers(h) \/ (\E u \in Users : ReadFences(h, u)) \/ Collect(h) \/ Alert(h) \/ Return(h)
    PROVE  Compared(h)' /\ Lacking(h)' /\ Covered(h)'
<1>1. UNCHANGED <<linked, fence, area, events, fix, decided>>
  BY DEF ReadUsers, ReadFences, Collect, Alert, Return, dbVars, taskVars
<1>2. \A f \in Fences : (Inside(f) <=> Inside(f)') /\ (Agrees(h, f) <=> Agrees(h, f)')
  BY <1>1 DEF Inside, Newest, Agrees
<1>3. decided[h] = <<>>
  BY DEF ReadUsers, ReadFences, Collect, Alerting, Alert, Return, Typed, Deciding
<1>4. Lacking(h)'
  BY <1>1, <1>3, Pairs DEF Lacking
<1>5. CASE ReadUsers(h)
  <2>1. todo'[h] = {} /\ users'[h] = linked
    BY <1>5 DEF ReadUsers, Cleared, Typed, TypeOK
  <2>2. QED BY <1>1, <1>4, <2>1 DEF Compared, Covered, Ahead
<1>6. ASSUME NEW u \in Users, ReadFences(h, u)
      PROVE  Compared(h)' /\ Covered(h)'
  <2>1. todo[h] = {} /\ users'[h] = users[h] \ {u} /\ todo'[h] = Listed(u, fix[h]) /\ Walking(h)
    BY <1>6 DEF ReadFences, Cleared, Typed, TypeOK, Walking
  <2>2. ASSUME NEW f \in Fences
        PROVE  /\ <<f, TRUE>> \in Listed(u, fix[h]) => fix[h] \in area[f]
               /\ <<f, FALSE>> \in Listed(u, fix[h]) => fix[h] \notin area[f]
    BY DEF Listed
  <2>3. ASSUME NEW f \in Fences, Owner[f] = u, fence[f] = "on"
        PROVE  <<f, TRUE>> \in Listed(u, fix[h]) \/ <<f, FALSE>> \in Listed(u, fix[h])
    <3>1. <<f, fix[h] \in area[f]>> \in Listed(u, fix[h])
      BY <2>3 DEF Listed
    <3>2. CASE fix[h] \in area[f]
      BY <3>1, <3>2
    <3>3. CASE fix[h] \notin area[f]
      <4>1. (fix[h] \in area[f]) = FALSE
        BY <3>3
      <4>2. QED BY <3>1, <4>1
    <3>4. QED BY <3>2, <3>3
  <2>4. Compared(h)'
    BY <1>1, <2>1, <2>2 DEF Compared
  <2>5. ASSUME NEW f \in Fences, fence[f] = "on", Owner[f] \in linked
        PROVE  Ahead(h, f)' \/ Agrees(h, f)'
    <3>1. CASE Owner[f] = u
      BY <2>1, <2>3, <2>5, <3>1 DEF Ahead
    <3>2. CASE Owner[f] # u
      <4>1. Owner[f] \in users[h] \/ Agrees(h, f)
        BY <1>3, <2>1, <2>5, Pairs DEF Faithful, Covered, Ahead
      <4>2. QED BY <1>2, <2>1, <3>2, <4>1 DEF Ahead
    <3>3. QED BY <3>1, <3>2
  <2>6. QED BY <1>1, <2>4, <2>5 DEF Covered
<1>7. CASE Collect(h) \/ Alert(h) \/ Return(h)
  <2>1. Walking(h) /\ todo' = todo /\ users' = users
    BY <1>7 DEF Collect, Alerting, Alert, Return, Walking, taskVars
  <2>2. \A f \in Fences : Ahead(h, f) <=> Ahead(h, f)'
    BY <1>1, <2>1 DEF Ahead
  <2>3. QED BY <1>1, <1>2, <1>4, <2>1, <2>2 DEF Faithful, Compared, Covered
<1>8. QED BY <1>4, <1>5, <1>6, <1>7

LEMMA FaithfulCheck ==
    ASSUME Typed, Faithful, NEW h \in Handlers, NEW g \in Fences, NEW b \in BOOLEAN, Check(h, g, b)
    PROVE  Compared(h)' /\ Lacking(h)' /\ Covered(h)'
<1>1. UNCHANGED <<linked, fence, area, events, fix, users>>
  BY DEF Check, dbVars
<1>2. \A f \in Fences : (Inside(f) <=> Inside(f)') /\ (Agrees(h, f) <=> Agrees(h, f)')
  BY <1>1 DEF Inside, Newest, Agrees
<1>3. pc[h] = "check" /\ <<g, b>> \in todo[h] /\ todo'[h] = todo[h] \ {<<g, b>>}
  BY CheckMoves
<1>4. Compared(h) /\ Covered(h) /\ decided[h] = <<>>
  BY <1>3 DEF Faithful, Walking, Typed, Deciding
<1>5. b <=> fix[h] \in area[g]
  <2>1. CASE b = TRUE
    BY <1>3, <1>4, <2>1 DEF Compared
  <2>2. CASE b = FALSE
    BY <1>3, <1>4, <2>2 DEF Compared
  <2>3. QED BY <2>1, <2>2
<1>6. Compared(h)'
  BY <1>1, <1>3, <1>4 DEF Compared
<1>7. ASSUME NEW f \in Fences, f # g, Ahead(h, f)
      PROVE  Ahead(h, f)'
  <2>1. \A x \in BOOLEAN : <<f, x>> # <<g, b>>
    BY <1>7
  <2>2. \A c : decided[h] # <<f, c>>
    BY <1>4, Pairs
  <2>3. QED BY <1>1, <1>3, <1>7, <2>1, <2>2 DEF Ahead
<1>8. /\ Lacking(h)'
      /\ (\E c \in Types : decided'[h] = <<g, c>>) \/ Agrees(h, g)
  <2>1. CASE /\ b <=> Inside(g)
             /\ decided' = [decided EXCEPT ![h] = <<>>]
    <3>1. decided'[h] = <<>>
      BY <2>1 DEF Typed, TypeOK
    <3>2. QED BY <1>5, <2>1, <3>1 DEF Lacking, Agrees
  <2>2. ASSUME NEW c \in Types, b <=> ~Inside(g), b <=> c = "ENTERED",
               decided' = [decided EXCEPT ![h] = <<g, c>>]
        PROVE  Lacking(h)' /\ decided'[h] = <<g, c>>
    <3>1. decided'[h] = <<g, c>>
      BY <2>2 DEF Typed, TypeOK
    <3>2. (c = "ENTERED" <=> ~Inside(g)') /\ (c = "ENTERED" <=> fix'[h] \in area'[g])
      BY <1>1, <1>2, <1>5, <2>2
    <3>3. QED BY <3>1, <3>2 DEF Lacking
  <2>3. \/ /\ b <=> Inside(g)
           /\ decided' = [decided EXCEPT ![h] = <<>>]
        \/ \E c \in Types : /\ (b <=> ~Inside(g)) /\ (b <=> c = "ENTERED")
                            /\ decided' = [decided EXCEPT ![h] = <<g, c>>]
    BY CheckIs
  <2>4. QED BY <2>1, <2>2, <2>3
<1>9. Covered(h)'
  <2>1. ASSUME NEW f \in Fences, fence[f] = "on", Owner[f] \in linked
        PROVE  Ahead(h, f)' \/ Agrees(h, f)'
    <3>1. CASE f = g
      BY <1>2, <1>8, <3>1 DEF Ahead
    <3>2. CASE f # g
      BY <1>2, <1>4, <1>7, <2>1, <3>2 DEF Covered
    <3>3. QED BY <3>1, <3>2
  <2>2. QED BY <1>1, <2>1 DEF Covered
<1>10. QED BY <1>6, <1>8, <1>9

LEMMA FaithfulLog ==
    ASSUME Typed, Faithful, NEW h \in Handlers, LogBreach(h)
    PROVE  Compared(h)' /\ Lacking(h)' /\ Covered(h)'
<1>1. PICK g \in Fences, c \in Types :
         /\ decided[h] = <<g, c>> /\ pc[h] = "log"
         /\ events' = [events EXCEPT ![g] = Append(events[g], c)]
         /\ decided' = [decided EXCEPT ![h] = <<>>]
         /\ UNCHANGED <<linked, fence, area, fix, users, todo>>
  BY LogBreachIs
<1>2. Compared(h) /\ Lacking(h) /\ Covered(h)
  BY <1>1 DEF Faithful, Walking
<1>3. events[g] \in Seq(Types) /\ decided'[h] = <<>>
  BY <1>1 DEF Typed, TypeOK
<1>4. events'[g] = Append(events[g], c) /\ \A f \in Fences : f # g => events'[f] = events[f]
  BY <1>1 DEF Typed, TypeOK
<1>5. events'[g] # <<>> /\ Newest(g)' = c
  BY <1>3, <1>4 DEF Newest
<1>6. Agrees(h, g)'
  BY <1>1, <1>2, <1>5 DEF Lacking, Agrees, Inside
<1>7. \A f \in Fences : f # g => Agrees(h, f)' <=> Agrees(h, f)
  BY <1>1, <1>4 DEF Agrees, Inside, Newest
<1>8. Compared(h)' /\ Lacking(h)'
  <2>1. Compared(h)'
    BY <1>1, <1>2 DEF Compared
  <2>2. QED BY <1>3, <2>1, Pairs DEF Lacking
<1>9. ASSUME NEW f \in Fences, f # g, Ahead(h, f)
      PROVE  Ahead(h, f)'
  <2>1. \A x : decided[h] # <<f, x>>
    BY <1>1, <1>9
  <2>2. QED BY <1>1, <1>9, <2>1 DEF Ahead
<1>10. Covered(h)'
  <2>1. ASSUME NEW f \in Fences, fence[f] = "on", Owner[f] \in linked
        PROVE  Ahead(h, f)' \/ Agrees(h, f)'
    BY <1>2, <1>6, <1>7, <1>9, <2>1 DEF Covered
  <2>2. QED BY <1>1, <2>1 DEF Covered
<1>11. QED BY <1>8, <1>10

LEMMA FaithfulNext ==
    ASSUME Vias = {"http"}, Typed, Cleared, HoldsTheLoop, Faithful, [Next]_vars
    PROVE  Faithful'
<1>1. CASE UNCHANGED vars
  <2>1. UNCHANGED <<linked, fence, area, events, pc, fix, users, todo, decided>>
    BY <1>1 DEF vars, dbVars, taskVars
  <2>2. \A f : Inside(f)' <=> Inside(f)
    BY <2>1 DEF Inside, Newest
  <2>3. \A h \in Handlers : /\ Walking(h)' => Walking(h)
                            /\ Compared(h) => Compared(h)'
                            /\ Lacking(h) => Lacking(h)'
    BY <2>1, <2>2 DEF Walking, Compared, Lacking
  <2>4. \A h \in Handlers : Covered(h) => Covered(h)'
    BY <2>1, <2>2 DEF Covered, Ahead, Agrees
  <2>5. QED BY <2>3, <2>4 DEF Faithful
<1>2. loop = NoHandler => \A h \in Handlers : ~Walking(h)
  BY NotAHandler DEF HoldsTheLoop, Running, Walking, IngestPcs
<1>3. ASSUME NEW h \in Handlers, NEW v \in Vias, NEW m \in Fixes, Store(h, v, m)
      PROVE  Faithful'
  <2>1. loop = NoHandler /\ pc' = [pc EXCEPT ![h] = "users"]
    BY <1>3 DEF Store, ThreadFree, HoldsLoop, Goto
  <2>2. \A k \in Handlers : ~Walking(k)'
    BY <1>2, <2>1 DEF Walking, Typed, TypeOK
  <2>3. QED BY <2>2 DEF Faithful
<1>4. CASE Edit
  <2>1. \A k \in Handlers : ~Walking(k)'
    BY <1>2, <1>4, EditIs DEF Walking
  <2>2. QED BY <2>1 DEF Faithful
<1>5. ASSUME NEW h \in Handlers, Ingest(h)
      PROVE  Faithful'
  <2>1. \A k \in Handlers : k # h => ~Walking(k)'
    BY <1>5, Alone
  <2>2. Walking(h)' => Compared(h)' /\ Lacking(h)' /\ Covered(h)'
    <3>1. CASE LogFails(h) \/ PushSuspends(h) \/ Push(h) \/ PushAborts(h) \/ Announce(h)
               \/ \E told \in SUBSET logged[h] : AnnounceAborts(h, told)
      BY <3>1 DEF LogFails, PushSuspends, Push, PushAborts, Announce, AnnounceAborts, Goto, Walking, Idle, Typed, TypeOK
    <3>2. ASSUME NEW g \in Fences, NEW b \in BOOLEAN, Check(h, g, b)
          PROVE  Compared(h)' /\ Lacking(h)' /\ Covered(h)'
      BY <3>2, FaithfulCheck
    <3>3. CASE ReadUsers(h) \/ (\E u \in Users : ReadFences(h, u)) \/ Collect(h) \/ Alert(h) \/ Return(h)
      BY <3>3, FaithfulWalk
    <3>4. QED BY <1>5, <3>1, <3>2, <3>3, FaithfulLog DEF Ingest, Proceed
  <2>3. QED BY <2>1, <2>2 DEF Faithful
<1>6. QED BY <1>1, <1>3, <1>4, <1>5 DEF Next

LEMMA FaithfulAlways == ASSUME Vias = {"http"} PROVE Spec => []Faithful
<1>1. Init => Faithful
  BY DEF Init, Faithful, Walking, Idle
<1>2. Typed /\ Cleared /\ HoldsTheLoop /\ Faithful /\ [Next]_vars => Faithful'
  BY FaithfulNext
<1>3. QED BY <1>1, <1>2, TypedAlways, ClearedAlways, HoldsTheLoopAlways, PTL DEF Spec

\* While every fix comes over HTTP, an ingest that ends leaves each enabled geofence of
\* each linked user with a log that says whether the fix is inside.
THEOREM InStepHolds == ASSUME Vias = {"http"} PROVE Spec => []InStep
<1>1. Faithful /\ Cleared /\ Typed => InStep
  <2> SUFFICES ASSUME Faithful, Cleared, Typed, NEW h \in Handlers, pc[h] = "push",
                      NEW f \in Fences, fence[f] = "on", Owner[f] \in linked
               PROVE  (fix[h] \in area[f]) = (events[f] # <<>> /\ events[f][Len(events[f])] = "ENTERED")
    BY DEF InStep
  <2>1. Covered(h)
    BY DEF Faithful, Walking
  <2>2. todo[h] = {} /\ users[h] = {} /\ decided[h] = <<>>
    BY DEF Cleared, Typed, Deciding
  <2>3. Agrees(h, f)
    BY <2>1, <2>2, Pairs DEF Covered, Ahead
  <2>4. QED BY <2>3 DEF Agrees, Inside, Newest
<1>2. QED BY <1>1, FaithfulAlways, ClearedAlways, TypedAlways, PTL

\* A log that alternates grows by what it lacks.
LEMMA AlternatesLog ==
    ASSUME Typed, Faithful, Alternates, NEW h \in Handlers, LogBreach(h)
    PROVE  Alternates'
<1>1. PICK g \in Fences, c \in Types :
         /\ decided[h] = <<g, c>> /\ pc[h] = "log"
         /\ events' = [events EXCEPT ![g] = Append(events[g], c)]
  BY LogBreachIs
<1>2. c = "ENTERED" <=> ~Inside(g)
  BY <1>1 DEF Faithful, Walking, Lacking
<1>3. events[g] \in Seq(Types)
  BY DEF Typed, TypeOK
<1> DEFINE n == Len(events[g])
<1>4. n \in Nat /\ (n = 0 <=> events[g] = <<>>)
  BY <1>3
<1>5. events'[g] = Append(events[g], c) /\ \A f \in Fences : f # g => events'[f] = events[f]
  BY <1>1 DEF Typed, TypeOK
<1>6. Len(events'[g]) = n + 1 /\ events'[g][n + 1] = c /\ \A i \in 1..n : events'[g][i] = events[g][i]
  BY <1>3, <1>5
<1>7. n # 0 => events[g][n] = IF n % 2 = 1 THEN "ENTERED" ELSE "EXITED"
  <2>1. n # 0 => n \in 1..Len(events[g])
    BY <1>4
  <2>2. QED BY <2>1 DEF Alternates
<1> HIDE DEF n
<1>8. Inside(g) <=> n # 0 /\ events[g][n] = "ENTERED"
  BY <1>4 DEF Inside, Newest, n
<1>9. c = IF (n + 1) % 2 = 1 THEN "ENTERED" ELSE "EXITED"
  <2>1. (n + 1) % 2 = 1 <=> n % 2 # 1
    BY <1>4
  <2>2. n = 0 => n % 2 # 1
    BY <1>4
  <2>3. Inside(g) <=> n % 2 = 1
    BY <1>7, <1>8, <2>2
  <2>4. QED BY <1>2, <2>1, <2>3 DEF Types
<1>10. ASSUME NEW f \in Fences, NEW i \in 1..Len(events'[f])
       PROVE  events'[f][i] = IF i % 2 = 1 THEN "ENTERED" ELSE "EXITED"
  <2>1. CASE f # g
    BY <1>5, <2>1 DEF Alternates
  <2>2. CASE f = g /\ i = n + 1
    BY <1>6, <1>9, <2>2
  <2>3. CASE f = g /\ i # n + 1
    <3>1. i \in 1..n
      BY <1>4, <1>6, <2>3
    <3>2. QED BY <1>6, <2>3, <3>1 DEF Alternates, n
  <2>4. QED BY <2>1, <2>2, <2>3
<1>11. QED BY <1>10 DEF Alternates

LEMMA AlternatesNext ==
    ASSUME Typed, Faithful, Alternates, [Next]_vars
    PROVE  Alternates'
<1>1. CASE UNCHANGED vars
  BY <1>1 DEF vars, dbVars, Alternates
<1>2. CASE Edit
  <2>1. \A f \in Fences : events'[f] = events[f] \/ events'[f] = <<>>
    BY <1>2, EditShortens
  <2>2. QED BY <2>1 DEF Alternates
<1>3. ASSUME NEW h \in Handlers,
             (\E v \in Vias, m \in Fixes : Store(h, v, m)) \/ Ingest(h), ~LogBreach(h)
      PROVE  Alternates'
  <2>1. events' = events
    BY <1>3 DEF Store, Ingest, Proceed, ReadUsers, ReadFences, Check, LogFails, Collect, Alerting, Alert, Return, PushSuspends, Push, PushAborts, Announce, AnnounceAborts, dbVars
  <2>2. QED BY <2>1 DEF Alternates
<1>4. QED BY <1>1, <1>2, <1>3, AlternatesLog DEF Next

\* While every fix comes over HTTP, the log of each geofence is a log of crossings:
\* ENTERED and EXITED take turns.
THEOREM AlternatesHolds == ASSUME Vias = {"http"} PROVE Spec => []Alternates
<1>1. Init => Alternates
  BY DEF Init, Alternates
<1>2. Typed /\ Faithful /\ Alternates /\ [Next]_vars => Alternates'
  BY AlternatesNext
<1>3. QED BY <1>1, <1>2, TypedAlways, FaithfulAlways, PTL DEF Spec
=============================================================================
