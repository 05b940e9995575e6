# A specification of the GPS tracking server

The repository holds a FastAPI server (`src/api`) between GPS trackers and the
apps of their owners. Trackers send positions and receive commands (a kill
switch, a reset); apps watch positions and send commands. State lives in
PostgreSQL, in two files of the MQTT broker, in a cache on disk and, for who is
connected, in the memory of one process. This
directory specifies the parts of it that are hard to test, checks them with TLC
and proves the main results with TLAPS.

## The system

### How it runs

* One process, one asyncio loop (`src/api/Dockerfile:53`, `--workers 1`).
  `psycopg2` calls block the loop, so an `async` handler is atomic between two
  awaits that really suspend.
* `asyncio.to_thread` pool threads: MQTT publishes, WebSocket location ingest,
  MQTT provisioning, SUPL calls. They run in any order.
* The paho thread: handles incoming MQTT messages one at a time, commits to the
  database itself and hands broadcasts to the loop with
  `run_coroutine_threadsafe`.
* PostgreSQL at READ COMMITTED; nearly every function of `src/api/db` is one
  transaction.

### Inventory

| Component | State | Operations | Meets | Hard | Correct when |
|---|---|---|---|---|---|
| Command path (`db/devices.py`, `realtime_endpoints.py`, `mqtt_client.py`, `mqtt_handler.py`, `device_data_endpoints.py`) | device row: `control_1..4`, `control_version`, `last_applied_control_version`; retained MQTT message | PUT controls, POST reset, PUT tracking, ack over HTTP, WebSocket, MQTT, poll, welcome | rooms, broker, tracker, apps | suspended sends, threads, late and repeated acks, failed publishes | a confirmed revision was acted on; no message mixes two commands; a command is eventually confirmed |
| Rooms (`ConnectionManager`) | sets of live sockets per room | connect, disconnect, broadcast, clean-up | every handler | iteration over a set others change | a live socket stays in its room; no revision passes a connected tracker by |
| Location ingest and geofences (`device_ingest.py`, `geofence_breaches.py`, `geofences.py`, `gps_data.py`) | `gps_data`, `geofences`, `geofence_breach_events` | ingest over HTTP, WebSocket, MQTT; geofence create, update, delete | rooms, users, devices | read-then-insert in three kinds of threads; deletion midway | the log alternates and is in step with the tracker; what is stored is pushed, or its push broke off |
| Breach notifications (`notifications/`) | none that is ever written | one e-mail and one SMS per batch | ingest | failure is swallowed | alerts are recorded |
| Device life cycle (`db/devices.py`, `device_data_endpoints.py`) | `devices`, `users_devices` | register, link, delete all | everything | late acks and retained messages of an earlier life | within a life tokens only grow; nothing counts as done that was not |
| Reset handshake | `reset_token`, `reset_applied_token` | request, ack | command path | repeated and late acks | a reset counted as applied was obeyed; none stays pending while the tracker polls |
| MQTT publisher and subscriber | client, connected flag | connect, publish, receive | broker | replaced client, timeouts | a publish reported done is done |
| MQTT provisioning (`mqtt_provision.py`) | ACL and password files of the broker | set password, upsert ACL block | register | concurrent read, edit, write of one file; a cut write | no tracker's block is lost but by a failed write |
| A-GNSS delivery (`cache_store.py`, `agnss_fetch.py`) | cache file and its metadata; each request | ranged download, cache, SUPL, chunked publish | SUPL, pool, tracker | two-step replace, fallbacks, cut answers | cached data is fresh; all that was fetched is published; nobody refused too early; every request ends |
| SUPL client (`supl_client.py`) | socket and buffer of each call | connect, send, receive per server | A-GNSS, pool | ways out of a loop | one server's data; no socket left open |
| Cell location (`cell_locate_service.py`, `cell_location.py`) | each request | parse, providers in turn, answer | tracker, pool | fallbacks | "unavailable" only after all failed |
| P-GPS, users and login, history reads, debug, start-up | none beyond a row | one call or one statement each | – | – | – |

### How the parts interact

A PUT commits a new revision, then awaits, in this order, a broadcast to the
tracker's room, a broadcast to the users' room, optionally a duplicate to the
tracker's room after a sleep, and a retained MQTT publish in a pool thread. The
tracker hears of a revision from any of these, from the welcome message of a new
WebSocket, from the retained message, or from its poll, and acks over HTTP, its
socket or MQTT. An ack raises `last_applied_control_version` and is broadcast to
the users' room.

A position comes in over HTTP (ingested on the loop), WebSocket (in a pool
thread) or MQTT (in the paho thread). It is stored, every enabled geofence of
every linked user is compared with the newest logged event, crossings are
logged, and then the position and the crossings are broadcast on the loop.

A registration commits the row and then has a pool thread put the tracker's
password and its ACL block into the broker's files; deleting a device touches
neither the files nor the retained message. A request for assistance data goes
to nRF Cloud, then to the cache, then, in a pool thread, to the SUPL servers; the
answer to an MQTT request is published from the same pool. A request for a
position does the same with the providers of cell locations.

## The modules

| Module | What it is |
|---|---|
| `CommandRegister` | abstract: commands are numbered, acted on in any order, confirmed only once acted on, and the confirmation never goes back |
| `ControlSync` | the command path in detail; implements `CommandRegister` |
| `MCControlSync` | its instances for TLC |
| `ControlSyncProofs` | its theorems for any flags, and the refinement |
| `ControlSyncQuietProofs` | its theorems about who hears, and about what trackers have heard and apps show once nothing is under way |
| `GeofenceIngest` | ingest of positions, the breach log, and what users do to geofences meanwhile |
| `MCGeofenceIngest`, `GeofenceIngestProofs` | its instances and its theorems |
| `DeviceLifecycle` | registration with its provisioning, linking, deletion, the next life, and the reset handshake over all of them |
| `MCDeviceLifecycle`, `DeviceLifecycleProofs` | its instances and its theorems |
| `SuplFetch` | one blocking SUPL call |
| `AgnssDelivery` | extends `SuplFetch`: a request for assistance data from asking to delivery, and the cache |
| `CellLocate` | a request for a position |
| `Assistance` | composes `AgnssDelivery` and `CellLocate` in one process with one pool of threads |
| `MCAssistance` | its instance for TLC |
| `SuplFetchProofs`, `AgnssDeliveryProofs`, `CellLocateProofs`, `AssistanceProofs` | theorems, one module per component; the last composes the others |

### ControlSync and the code

`row` is the device row, the four settings taken together as one value `ctl`
(what a PUT that names only some of them leaves is the merged value). `log` is a
history variable: what each revision was committed with. `loop` is the coroutine
that holds the event loop; a handler whose step leaves `loop` to itself goes on
without suspending. `room`, `conn`: `active_connections` and the life of each
socket; `greet` says what the handler of a tracker's new socket has still to do. `iter`
is the Python iteration in `broadcast_to_room` with the size the set had when it began.
`inbox`: messages on their way to the tracker. `retained`: the broker's copy. `view`: the
last message each app was sent. `dev`, `actuated`: the tracker; `answer` is the answer to
its poll while it is on its way. `cut` and `paused` are history: revisions whose broadcast
to the tracker broke off, and whether a broadcast ever gave the loop up between two sends.

* `PutControls`, `PutReset`, `PutTracking`: the three requests of the app.
* `SendTo`, `EndBroadcast`, `AbortBroadcast`: `broadcast_to_room` one send at a
  time; a send may suspend (`MayBlock`), its peer may be gone, and a set that
  changed size ends the iteration with an exception.
* `SendDuplicate`, `Publish`, `PublishFails`: the rest of
  `broadcast_device_control_response`.
* `AckOverHttp`, `AckOverSocket`, `AckOnThread`, `RunScheduled`: the three ways of
  an ack. Only `AckOnThread` runs whatever the loop is doing.
* `DeviceConnect` (join the room, start the accept), `ReadWelcome` (the accept is over,
  the row is read), `SendWelcome`: the three stretches of a tracker's new connection
  between its awaits; with `MayBlock` any other handler runs in between. `AcceptFails`:
  the accept raises, and the socket stays in its room, closed, until a broadcast fails on
  it. `UserConnect`, `PeerGone`, `ServerNotices`, `DeviceSubscribe`, `DeviceOffline`: the
  other connections.
* `DeviceReceive`, `DeviceAck`, `LoseAck`: the tracker. Its firmware is not in the
  repository; it applies what it is sent and acks what it runs. `DevicePoll` is the
  server answering its poll, `PollAnswered` the tracker reading the answer, which may be
  late, `PollLost` the answer lost.

Left out: a PUT that is refused (unknown device, version conflict) changes
nothing and sends nothing; a `control_applied` without a revision changes nothing
and confirms nothing; the reset and tracking columns (a reset broadcasts the row
as it is).

### GeofenceIngest and the code

`Store` to `Return` is `ingest_location`, one database call per action; `PushSuspends`,
`Push`, `PushAborts`, `Announce` and `AnnounceAborts` are its callers. `loop` is held by
an HTTP ingest from its first call until a send of its first broadcast suspends, or that
broadcast is over. A broadcast that suspended may find its room changed and raise; the
caller then ends. `cut` and `unsaid` are history: the fix whose push broke off, and the
events that were given up. WebSocket and MQTT ingests run
beside the loop, MQTT ones one at a time. `events` is the log of each geofence,
oldest first; `todo` is the list of geofences as read, with the position compared
with the circle as read, so a later edit is not seen. `LogFails` is the foreign
key refusing an event whose geofence or tracker was deleted. The distance formula
is abstracted to which positions a circle contains (`Areas`); the time stamp of
an event and its INSERT are taken as one step; events are numbered within the
log of their geofence. `Alert` is the e-mail and the SMS of one user's events, which may
never come to an end (`smtplib.SMTP` without a timeout); what they say is not modelled:
the record of a sent alert is an INSERT into columns the table does not have (`geofence_breaches.py:217` against
`database/migration_004_notification_audit_log.sql`), so it never leaves a trace.

### DeviceLifecycle and the code

`row` holds the two reset columns of `devices`, or `None`; `links` is
`users_devices`; `retained`, `passwd` and `acl` are what the broker keeps. A
*life* is the time between a registration and the deletion: the code has no such
number, the model counts them (`lives`) so that properties can tell an ack or a
message of an earlier life. `obeyed`, `crossed` and `hurt` are history too.

* `Register`: `register_device` up to its `await`. `SetPassword`, `ReadAcl`,
  `OpenAcl`, `WriteAcl`: `provision_mqtt_device` in its thread; `open(path, "w")`
  empties the file before the blocks are written, which is why it is a step.
  `ProvisioningFails` is `mosquitto_passwd` or the file refusing, possibly after
  part of the blocks; the registration answers 200 all the same. `Crash` leaves
  the files as they are.
* `Link`, `DeleteAll`, `RequestReset`, `UpdateTracking`: the users. `Publish` is
  the retained message a broadcast ends with, which may fail.
* `Poll`, `HearRetained`: the tracker hears of a reset, acks and reboots. It needs
  its password and its ACL block to hear the retained message.
* `AckReset`, `LoseAck`: acks over HTTP or MQTT, repeated, late, lost, or refused
  because the row is gone.

### SuplFetch, AgnssDelivery, CellLocate, Assistance and the code

`call[c]` is one run of `SUPLClient.fetch_assistance_data`: the server it is at,
the sockets it has open, the messages in its buffer, and as history where these
came from and which servers had none. Each failure of the code (no address,
refused connection, failed send, silence, END, a broken connection) is an action
that says what is closed, kept and tried next. `job[r]` is one request:
`NrfAnswers`, `NrfContinues`, `NrfStops`, `NrfFails` are the ranged download;
`CacheHit`, `CacheMiss`, `CacheBreaks`, `SuplAnswers`, `SuplFails` what is behind it;
`Unavailable`, `Deliver`, `PublishChunk`, `Published`, `PublishFails` the answer.
`AgnssCache.get` and `set` run on the loop without an `await`, so each is one step
(`Written` lists how far a `set` may come); metadata that makes no sense raises out of
`get` (`CacheBreaks`), and the request ends without SUPL. A blob is when it was written,
which is right after it was fetched, and its size; the clock is taken to run forward.
`locate[c]` is a request for a position.

`Assistance` adds the pool: a SUPL call, and a publish of chunks, has a thread
from the moment it is taken until it ends; the one message of a position has it
for one step. The threads that control publishes and WebSocket ingests take are
left out; they wait for nothing that waits for a thread, but a WebSocket ingest may wait
for a mail server for ever and keep its thread: `RequestsEnd` is about a pool that is
not used up by such ingests. Requests that are
under way at once meet only in the cache and in the pool, so one reusable slot for
assistance data beside one for a position shows them.

## The runs

| Run | Shows |
|---|---|
| `websocket_worst` | `TypeOK`, `NoTornCommand`, `LiveConnectionsHear`, `NoRevisionMissed`, `AppShowsOnlyActuated`, `AppShowsLatest` with two sockets of one tracker in its room, accepts and welcomes that wait, suspended and duplicate sends, aborted broadcasts, dying connections, acks on the socket |
| `mqtt_worst` | `AckedWasActuated`, `NoTornCommand`, `RevisionsOnlyGrow`, `ImplementsRegister` with publishes out of order or failed, acks committed by the paho thread beside others over HTTP, delivered again and overtaking one another, polls answered late |
| `confirmation` | `EventuallyConfirmed`: every command is confirmed, or superseded by one that is |
| `ingest_http` | `TypeOK`, `Alternates`, `InStep`, `BreachesAnnounced`, `StoredIsPushed` when all positions come over HTTP and rooms change under the broadcasts |
| `ingest_threads` | `RunsBounded` and `IngestsEnd` when all three entry points overlap, rooms change, and geofence and tracker are deleted meanwhile |
| `lifecycle` | `TypeOK`, `BlocksKept`, `AppliedWasObeyed`, `TokensOnlyGrow`, `ResetsEnd` over two lives, failing files, crashes, acks lost, repeated and late |
| `assistance` | `TypeOK`, `OneServersData`, `SocketsClosed`, `CachedIsFresh`, `FulfilledIsWhole`, `UnavailableMeansAllFailed`, `AllProvidersFailed`, `RequestsEnd` with one pool thread, failing providers, cut answers, full disks and crashes |
| `older_arrives_last` (violation) | `DeviceUpToDate`: a PUT is broadcast between the read of the welcome and its sending; the older welcome arrives last |
| `retained_stale` (violation) | two publishes in two pool threads run in the wrong order; the retained message is the older one |
| `app_stays_pending` (violation) | the broadcast of a PUT is suspended while its ack is broadcast; the app is sent "pending" last |
| `overlap_repeats` (violation) | two overlapping ingests both log ENTERED |
| `acl_lost` (violation) | two overlapping registrations: the later write of the ACL file drops the block of the other tracker, although nothing failed |

### Bounds

Two app requests are enough for one to overtake the other (`mqtt_worst`,
`confirmation`, `retained_stale`). In `websocket_worst` there is one, which a connecting
tracker, a reconnecting one, an ack and its own duplicate overtake or are overtaken by;
its two sockets are the point: both are in the tracker's room at once, so that one fails,
joins or leaves under the iteration that is to reach the other. One handler of acks runs
beside them; two acks are in flight in `mqtt_worst` (`MaxAcks`), each may be repeated, and
they arrive in either order. Acks come over HTTP in `confirmation`, `app_stays_pending` and
`mqtt_worst`, on the socket in the first two and in `websocket_worst`, over MQTT in
`mqtt_worst` and `retained_stale`. One app, in `websocket_worst` and `app_stays_pending`, is
enough to see every ordering of broadcasts towards one app; `mqtt_worst` does without one,
so that all the rest of it can meet.
Sends suspend (`MayBlock`) in `websocket_worst`, `app_stays_pending` and
`older_arrives_last`; `AppShowsLatest` speaks of the behaviours of `websocket_worst` in
which no broadcast did (`paused`), while accepts and welcomes may have. Duplicates are on
in `websocket_worst`. The tracker polls (`Polling`) in `mqtt_worst`, with answers that come
late, and in `confirmation`; elsewhere it is off, because a late answer alone puts the
tracker back. `confirmation` has no suspended sends, which would make it too large for the
temporal check; it has MQTT off, so that every publish fails. `Controls` has two values
where `NoTornCommand` is checked; elsewhere revisions tell commands apart.

For the ingest, two handlers overlap and `MaxSends` is 3, one more than it takes to have
two overlap; `ingest_http` has two users with a geofence each, so that one position
crosses two of them, and `RoomMayChange` is on there and in `ingest_threads`.

In `lifecycle`, `MaxLives` and `MaxResets` are per device: one tracker has two
lives and two resets, so that acks of one life meet the other and an older ack a
newer reset; the second tracker is there for its block in the ACL file. One
registration at a time there, two in `acl_lost`, without failures, so that only
the overlap can lose a block. In `assistance`, sizes 1 and 3 with chunks of 2 are
a size below a chunk and one that is no multiple of it; `Ttl` 1 and `MaxTime` 3 let
the cache be written, expire and be written again; three SUPL servers give a
first, a middle and a last one; `Enough` 2 messages let a call break with some of
them received; of three providers of positions the middle one has no key; one
thread (`Workers`) is the tightest pool.

`CHECK_DEADLOCK FALSE` is right
everywhere: the requests and sends are bounded, and a system with nothing to do
stops.

### Fairness

In `ControlSync`: the loop runs what can run; what keeps becoming runnable runs,
since asyncio resumes callbacks in order; the tracker repeats its poll and its
HTTP or QoS 1 ack while its command is pending, which
`command_recovery_interval_ms` asks of it, and some poll is answered; dead sockets are
noticed by the idle timeout. Nothing is assumed of publishes, of acks on a socket, or of
the tracker's connection.

In `GeofenceIngest`: an ingest that can take a step again and again takes it (strong), as
a statement of the database is answered, a suspended send ends when the socket takes the
data or dies, and the loop comes round. Not so `Alert`: `smtplib.SMTP(host, port)` has no
time limit (`geofence_breach_notifications.py:47`). `IngestsEnd` therefore excepts an
ingest whose alerts, or those of the HTTP ingest that holds the loop, stay where they are
for ever, and nothing else. No fairness is assumed of users and trackers.

In `DeviceLifecycle` fairness is an assumption about the tracker, whose firmware is not
in the repository: it polls its controls whether or not anything is pending, as
`device-access-issue.md:36` ("HTTP fallback every 90s"),
`docs/DEVICE_AND_PRODUCTION_READINESS.md:18` ("Device polls controls") and the docstring of
the reset endpoint (`app_user_endpoints.py:440`, "Firmware learns via GET getDeviceControls
(reset_token) and ACKs before rebooting") have it (weak); each poll that tells it of a
reset again makes it ack again, and so one of the acks of the newest token gets through
(strong, while the row is there). The server does not ask for this:
`command_recovery_interval_ms` is set for a pending control version only, so a tracker that
relied on it alone would leave a lost reset pending.

In `Assistance`: the loop and the threads go on, since each external call has a time
limit (weak); whoever waits for a thread gets one when one is free again and again, since
the pool serves its queue in order (strong). Nothing is assumed of crashes, of time or of
new requests.

## What is proved

`ControlSyncProofs` proves, for any numbers of requests, ack handlers, sockets and
apps and for any settings of the flags, from the named assumptions of
`ControlSync` alone (finite sets of sockets and apps; names of different kinds
differ):

* `TypeCorrect`: `Spec => []TypeOK`;
* `AcksAreTrue`: `Spec => []AckedWasActuated`;
* `MessagesAreFaithful`: `Spec => []NoTornCommand`;
* `AppsShowTruth`: `Spec => []AppShowsOnlyActuated`;
* `NeverBack`: `Spec => RevisionsOnlyGrow`;
* `Refines`: `Spec => ImplementsRegister`, that is, the command path implements
  `CommandRegister`.

They rest on `Inductive`: `Spec => []IInv`. `NoTornCommand` alone is not
inductive, because a message is built from things it does not speak of. `IInv`
adds: `Carrying`, a handler in the middle of a broadcast or publish has the
snapshot it still has to send; `Homes`, trackers and apps sit in different rooms,
so that what an app is sent never lands in the tracker's inbox; `Grounded`, the
history has one entry per revision and the row is its last, and the tracker and
every ack in flight name a revision that was acted on, with its settings. The
proof has a lemma per action and a few lemmas for what several actions do
(starting a broadcast, delivering a message, emptying a room). The refinement
maps PUTs to `Issue`, receipts and polls to `Actuate`, acks to `Confirm` and
everything else to a step that changes nothing abstract.

`ControlSyncQuietProofs` goes on from `IInv`:

* `LiveConnectionsHearHolds`: `Spec => []LiveConnectionsHear`, whatever the flags. Its
  invariant adds that a connection a broadcast put on its list of failures is dead,
  since the end of the broadcast removes that list from the room.
* `NoRevisionMissedHolds`: `Spec => []NoRevisionMissed`, whatever the flags. The invariant
  says of the latest revision that it was acted on, or is in the inbox of the tracker's
  socket, or in the welcome that socket waits for, or a broadcast still has it to send
  there, or a broadcast of it broke off; a socket that has not read its welcome will read
  the row. It rests on the order of the code: the socket joins the room before the row
  is read.
* `AppShowsLatestHolds`: `Spec => []AppShowsLatest` under `Prompt`: the tracker does not ack
  over MQTT. The property itself speaks of behaviours in which no broadcast gave the loop
  up; connecting handlers may. Duplicates and publishes may be on. Each hypothesis is
  needed: `app_stays_pending` shows what a suspended send does, and a broadcast that an
  MQTT ack scheduled may be sent after a newer command.

For the last of these, `Solo`: while no broadcast suspends, one has the loop to itself
from its first send to its last; so its room does not change, it cannot abort, it carries
the revision of the row, and there is no second one. Hence, when it ends, everyone of the
room was sent that revision (the one place where the sizes of finite sets are counted).

`GeofenceIngestProofs`, for any geofences, users, positions and number of ingests at
once, from the assumptions of `GeofenceIngest` (there is an entry point and a position;
the set of ingests is finite):

* `TypeOKHolds`: `Spec => []TypeOK`, with `Deciding`: a crossing is in hand exactly while
  it waits to be logged.
* `RunsBoundedHolds`: `Spec => []RunsBounded`, over all entry points and all edits. The
  invariant `RunsFit` counts: the equal events at the end of a log, and the ingests that
  are about to log one more of them, are together no more than there can be ingests.
  Logging moves one from the second number to the first, and an ingest joins the
  second only when the log ends with the opposite event.
* `StoredIsPushedHolds`, under `Undisturbed`: every fix comes over HTTP, or nobody
  deletes a geofence or unlinks the tracker. `Standing` says that what an ingest will
  refer to is still there, so the foreign key never refuses; `Kept`, that a stored fix
  was pushed, is in `cut`, or its ingest is still running. Rooms may change. The model has
  no failing database and no crash of the server, either of which loses a push too.
* `BreachesAnnouncedHolds`, under `Undisturbed` and with no fix over MQTT (the broadcasts
  of these always fail). `Held` says that a logged event was announced, given up with a
  broadcast that broke off, or is in the batch or the list of an ingest.
* `InStepHolds` and `AlternatesHolds`, when every fix comes over HTTP. `HoldsTheLoop`: an
  ingest of a POST holds the loop from its first call to its push, so it is alone, and
  users edit nothing meanwhile. `Faithful`: what it still compares is its fix against
  the circle as it is, what it is about to log is what the log lacks, and each geofence
  is either ahead of it or in step. `overlap_repeats` shows why entry points must not mix.

`DeviceLifecycleProofs`, for any devices, users, registrations and bounds, from the
assumptions of `DeviceLifecycle` (there is a device; `None` is no row):

* `TypeOKHolds`: `Spec => []TypeOK`; `TokensOnlyGrowHolds`: `Spec => TokensOnlyGrow`;
* `AppliedWasObeyedHolds`: `Spec => []AppliedWasObeyed`. The invariant is `LifeInv`:
  acks and retained messages are of lives that have begun, an ack of this life names
  a token that was obeyed in it, and only a device with a row has links (so that
  whoever resets it has a row to reset);
* `BlocksKeptHolds`: `OneAtATime => (Spec => []BlocksKept)`. The invariant adds
  `ReadWasWhole`: what a registration read lacks a block only where the file did. A
  second registration breaks it, as `acl_lost` shows, hence the hypothesis.

`SuplFetchProofs`, `AgnssDeliveryProofs` and `CellLocateProofs` prove their
component's invariants under its own specification, and as lemmas about its steps;
`AssistanceProofs` puts them together into `AssistanceCorrect`, all invariants of the run
`assistance` for any number of requests, servers, providers and threads, from which
`TypeOKHolds`, `OneServersDataHolds`, `SocketsClosedHolds` and `UnavailableHolds` follow one by
one:

* `SuplCorrect`: the buffer holds messages exactly when `from` is the one server being
  tried, a socket is open exactly while sending or receiving, and every server before
  the current one has failed;
* `AgnssCorrect`: data is never older than its metadata (which is why `set` replaces
  the data first), a miss at nRF Cloud is on record before the cache is looked at, and
  after `seq` chunks `sent` is `seq * Chunk`, or all of it with the last;
* `CellCorrect`: every provider with a key before the current turn has failed.

Every invariant and every action property of a passing run is stated by a theorem.
Only model-checked is liveness (`EventuallyConfirmed`, `IngestsEnd`, `ResetsEnd`,
`RequestsEnd`): fairness is about `ENABLED`, which the proof system does not reason about.

## Observed, without a run

* What takes a connected tracker back to an older revision, beside the welcome of
  `older_arrives_last`: a duplicate (`CONTROL_DUPLICATE_SEND_MS`,
  `realtime_endpoints.py:502`), which is the snapshot from before the sleep; an answer to
  a poll that arrives after a newer message; two broadcasts whose sends suspended. The
  messages carry the revision, so a tracker could refuse an older one; the repository
  does not say that it does. `DeviceUpToDate` fails in each of these ways when the
  flag in question is set, `NoRevisionMissed` does not.
* An accept that raises leaves its socket in the room (`realtime_endpoints.py:34-35`):
  the handler ends before the `try` that disconnects (`AcceptFails`). The next broadcast
  to the room fails on it and removes it.
* The broadcast an MQTT ack scheduled, and the settings a socket's ack carries
  (`realtime_endpoints.py:284-298`), can be older than the revision shown beside
  them. `NoTornCommand` states what does hold: they are settings of a revision the
  tracker acted on.
* Breaches are broadcast to `geofence_{id}` (`realtime_endpoints.py:456`);
  `docs/REALTIME_MQTT_STYLE.md:21` names the users' room. The only way into the
  geofence room from a user stream, `subscribe_geofence`
  (`realtime_endpoints.py:359-363`), accepts a socket that is accepted already.
* Once a retained update says that a reset is pending, nothing publishes its ack: a
  tracker that subscribes again after it acked is told of that reset again.
* The alerts are sent while an HTTP ingest holds the loop, and the connection to the mail
  server has no timeout: one that does not answer stops the whole server (`Stuck`).
* A room that changes under the broadcast of a position ends it with an exception, and
  the breaches of that position are then broadcast to nobody (`PushAborts`).
* A socket that joins or leaves during a broadcast ends it with an exception
  (`realtime_endpoints.py:60`); the users' room and the MQTT publish of that update
  are skipped, although `docs/CONTROLS_RELIABILITY.md` promises a publish on every
  update. `ControlSync` has it as `AbortBroadcast`.
* A geofence deleted during a WebSocket ingest makes the foreign key refuse the
  event; the position is stored and pushed to nobody (`LogFails`). Over MQTT,
  `mqtt_handler.py:119` reads `breach.breach_type`, which no event has, so crossings
  are never broadcast.
* An ack of an earlier life is applied to the new row and may put
  `reset_applied_token` above `reset_token`; the resets that follow are then never
  pending and never obeyed. `AppliedWasObeyed` and `ResetsEnd` exempt these devices
  (`crossed`) and say nothing of them.
* Metadata of the cache that is damaged stays: `get` raises before `set` can replace it,
  so no request reaches SUPL until somebody removes the file (`cache_store.py:54`).
* The SUPL cache is one blob for all trackers: the `lat` and `lon` of a request are
  sent to the servers but not looked at on a hit.
* A ranged download that stops part way is delivered as it is, and a server that
  ignores `Range` and answers 200 has its whole answer appended
  (`agnss_fetch.py:91-109`). Over MQTT a request for which there is no data is
  answered by nothing; the tracker finds out by its own timeout. Chunks of two
  answers to the same tracker carry no number of the answer they belong to.
* `_connect_client` (`mqtt_client.py:105`) asks `is_connected` before the broker may
  have answered the first connect; a second client with the same id is then made, and
  the broker drops the first.
* The README promises "Marks the event as notified" (`README.md:159`); neither
  `notification_sent` nor the audit log is ever written.

## Not modelled

`PROJECT.json` lists every component. P-GPS is two calls in a row whose failure is
the answer; the SUPL endpoints of `agnss_endpoints.py` are not mounted; the demo mode
of SUPL and the encoding of its messages change no decision of the client; users,
login and the read endpoints are single statements; a version conflict of
`expected_version` changes nothing and answers 404 (the read and the update it guards
run without an `await` between them); alerts leave no state; `subscribe_geofence`
always fails as described above; `notifications/service.py` and
`websocket_manager.py` are not imported; `node_modules`, simulators, dumps and broker
scripts are not part of the server.

## Plan

1. Done: `CommandRegister`, `ControlSync`, `DeviceLifecycle`, `SuplFetch`,
   `AgnssDelivery`, `CellLocate`, `Assistance`, `GeofenceIngest`, with proofs.
2. Done: proofs for `GeofenceIngest`, and for the quiet states of `ControlSync`.
3. `LiveConnectionsHear` says little of the reverse: that a dead connection leaves its
   room at last is liveness, and would be a property of `Rooms`.
4. `Rooms`: all rooms, `subscribe_geofence`, the geofence stream, clean-up.
5. `MqttPublisher`: the replaced client and the publish timeout.
6. WebSocket ingests that wait for a mail server in the pool of `Assistance`.
