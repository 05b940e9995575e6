----------------------------- MODULE AgnssDelivery -----------------------------
(***************************************************************************)
(* fetch_agnss_bytes and its two callers.  A tracker asks for assistance   *)
(* data over HTTP, or over MQTT; nRF Cloud is asked first, range by range; *)
(* then the SUPL cache, two files on disk; then the SUPL servers, through  *)
(* SuplFetch in a pool thread.  The data goes back as the HTTP response,   *)
(* or in numbered chunks that a pool thread publishes.  The files outlive  *)
(* a crash of the server, the requests do not.                             *)
(***************************************************************************)
EXTENDS SuplFetch

CONSTANTS
    Allowed,  \* the providers AGNSS_PROVIDER lets through
    Ttl,      \* AGNSS_CACHE_TTL_SEC; 0 disables the cache
    Chunk,    \* MQTT_AGNSS_CHUNK_BYTES
    Sizes,    \* bound: sizes of assistance data
    MaxTime,  \* bound of the clock
    Nothing   \* no file, no data

ASSUME AllowedKnown == Allowed \subseteq {"nrf", "supl"}
ASSUME TtlIsNat     == Ttl \in Nat
ASSUME ChunkIsPos   == Chunk \in Nat \ {0}
ASSUME SizesArePos  == Sizes \subseteq Nat \ {0}
ASSUME TimeIsNat    == MaxTime \in Nat

VARIABLES
    now,   \* the clock
    data,  \* the file AGNSS_CACHE_PATH: when its contents were fetched, their size
    meta,  \* the timestamp in the file beside it
    job    \* each request

agnssVars == <<now, data, meta, job, call>>

Blob == [at : 0..MaxTime, size : Sizes]

ASSUME NothingIsNoBlob == Nothing \notin Blob /\ Nothing \notin 0..MaxTime

Ended == {"answered", "fulfilled", "unavailable", "lost"}
Job == [pc     : {"idle", "nrf", "range", "lookup", "supl", "deliver", "queued", "publish"}
                     \union Ended,
        via    : {"http", "mqtt"},
        size   : {0} \union Sizes,     \* Content-Range: what nRF Cloud has
        got    : Nat,                  \* what has come of it, or the size of the data
        age    : 0..MaxTime,           \* history: how old the cached data was
        failed : SUBSET (0..Servers),  \* history: who had none; 0 is nRF Cloud
        torn   : BOOLEAN,              \* history: the cache's metadata made no sense
        seq    : Nat,                  \* chunks published
        sent   : Nat]                  \* history: bytes in them

\* Type correctness of the delivery.
AgnssTypeOK ==
    /\ now \in 0..MaxTime
    /\ data \in Blob \union {Nothing}
    /\ meta \in 0..MaxTime \union {Nothing}
    /\ job \in [Callers -> Job]

\* A request for which nothing was done yet.
NewJob(pc, via) == [pc |-> pc, via |-> via, size |-> 0, got |-> 0, age |-> 0,
                    failed |-> {}, torn |-> FALSE, seq |-> 0, sent |-> 0]

\* No request, and how the last one ended.
Over(how) == NewJob(how, "http")

AgnssInit ==
    /\ now = 0 /\ data = Nothing /\ meta = Nothing
    /\ job = [r \in Callers |-> Over("idle")]
    /\ SuplInit

JobBecomes(r, j) == job' = [job EXCEPT ![r] = j]

\* Request r is under way.
Running(r) == job[r].pc \notin {"idle"} \union Ended

\* A step of request r that touches neither the cache nor its SUPL call.
JobStep(r, j) == JobBecomes(r, j) /\ UNCHANGED <<now, data, meta, call>>

\* What follows nRF Cloud: SUPL if it is allowed, otherwise nothing is left.
AfterNrf(j) ==
    [j EXCEPT !.pc = IF "supl" \in Allowed THEN "lookup" ELSE "deliver", !.got = 0, !.size = 0]

\* nRF Cloud is done with: its data is delivered, if there is any.
NrfOver(j) == IF j.got > 0 THEN [j EXCEPT !.pc = "deliver", !.size = 0]
              ELSE AfterNrf([j EXCEPT !.failed = @ \union {0}])

-----------------------------------------------------------------------------
(* The request.                                                            *)

\* GET /agnss with the tracker's token, or devices/{id}/agnss_request, scheduled on
\* the loop by the paho thread.
Request(r, via) ==
    /\ ~Running(r)
    /\ JobStep(r, IF "nrf" \in Allowed THEN NewJob("nrf", via) ELSE AfterNrf(NewJob("nrf", via)))

\* An MQTT request with fields that are not numbers, or before the loop is set, is
\* logged and left at that.
DropRequest(r) ==
    /\ ~Running(r)
    /\ JobStep(r, Over("lost"))

-----------------------------------------------------------------------------
(* nRF Cloud.                                                              *)

\* No key, another status than 200 or 206, an exception in any of the requests: what
\* has come is given up.
NrfFails(r) ==
    /\ job[r].pc \in {"nrf", "range"}
    /\ JobStep(r, NrfOver([job[r] EXCEPT !.got = 0]))

\* Of size bytes, got have come.
Received(r, size, got) ==
    LET j == [job[r] EXCEPT !.size = size, !.got = got] IN
    JobStep(r, IF got < size THEN [j EXCEPT !.pc = "range"] ELSE NrfOver(j))

\* The first request is answered: Content-Range names the size, or the whole has come.
NrfAnswers(r) ==
    /\ job[r].pc = "nrf"
    /\ \E size \in Sizes : \E got \in 0..size : Received(r, size, got)

\* The next range comes, or less of it.
NrfContinues(r) ==
    /\ job[r].pc = "range"
    /\ \E more \in 1..(job[r].size - job[r].got) :
          Received(r, job[r].size, job[r].got + more)

\* The next range comes back empty, or with another status: the loop is left, with
\* what has come.
NrfStops(r) ==
    /\ job[r].pc = "range"
    /\ JobStep(r, NrfOver(job[r]))

-----------------------------------------------------------------------------
(* The cache, and SUPL behind it.                                          *)

\* AgnssCache.get: the metadata is there and not older than the time to live.
Fresh == Ttl > 0 /\ meta # Nothing /\ now - meta <= Ttl

\* The cached data is taken.
CacheHit(r) ==
    /\ job[r].pc = "lookup"
    /\ Fresh /\ data # Nothing
    /\ JobStep(r, [job[r] EXCEPT !.pc = "deliver", !.got = data.size,
                                 !.age = now - data.at])

\* Too old, missing, or a file that cannot be read: the SUPL servers are asked.
CacheMiss(r) ==
    /\ job[r].pc = "lookup"
    /\ JobBecomes(r, [job[r] EXCEPT !.pc = "supl"])
    /\ SuplStart(r)
    /\ UNCHANGED <<now, data, meta>>

\* The metadata is there and is JSON but not an object with a number in it, or not even
\* text: get raises, the caller swallows that, and the request ends without SUPL.
CacheBreaks(r) ==
    /\ job[r].pc = "lookup"
    /\ Ttl > 0 /\ meta # Nothing
    /\ JobStep(r, [job[r] EXCEPT !.pc = "deliver", !.torn = TRUE])

\* Mutant of Written: the metadata goes first.
MetaFirst(new) == {<<data, meta>>, <<data, now>>, <<new, now>>}

\* AgnssCache.set: how far it comes before a file refuses or the process dies.
Written(new) == {<<data, meta>>, <<new, meta>>, <<new, now>>}

WriteCache(size) ==
    IF Ttl > 0
    THEN \E files \in Written([at |-> now, size |-> size]) : data' = files[1] /\ meta' = files[2]
    ELSE UNCHANGED <<data, meta>>

\* The SUPL call is back with data; the cache is written before anything else runs.
SuplAnswers(r) ==
    /\ job[r].pc = "supl" /\ call[r].pc = "data"
    /\ \E size \in Sizes :
          /\ JobBecomes(r, [job[r] EXCEPT !.pc = "deliver", !.got = size])
          /\ WriteCache(size)
    /\ CallBecomes(r, Off)
    /\ UNCHANGED now

\* It is back without.
SuplFails(r) ==
    /\ job[r].pc = "supl" /\ call[r].pc = "nothing"
    /\ JobBecomes(r, [job[r] EXCEPT !.pc = "deliver", !.failed = @ \union call[r].failed])
    /\ CallBecomes(r, Off)
    /\ UNCHANGED <<now, data, meta>>

-----------------------------------------------------------------------------
(* Delivery.                                                               *)

\* 503 over HTTP, a line in the log over MQTT.
Unavailable(r) ==
    /\ job[r].pc = "deliver" /\ job[r].got = 0
    /\ JobStep(r, [Over("unavailable") EXCEPT !.failed = job[r].failed, !.torn = job[r].torn])

\* The HTTP response; or the publish is handed to a pool thread.
Deliver(r) ==
    /\ job[r].pc = "deliver" /\ job[r].got > 0
    /\ JobStep(r, IF job[r].via = "http" THEN Over("answered")
                  ELSE [job[r] EXCEPT !.pc = "queued"])

\* A thread of the pool takes it.
TakePublish(r) ==
    /\ job[r].pc = "queued"
    /\ JobStep(r, [job[r] EXCEPT !.pc = "publish"])

\* Mutant of Total: the last, shorter chunk is not counted.
TotalFloor(size) == size \div Chunk

\* The number of chunks.
Total(size) == (size + Chunk - 1) \div Chunk

\* The length of chunk seq of size bytes.
ChunkLength(size, seq) ==
    LET left == size - seq * Chunk IN IF left < Chunk THEN left ELSE Chunk

\* Chunk number seq goes out.
PublishChunk(r) ==
    LET j == job[r] IN
    /\ j.pc = "publish" /\ j.seq < Total(j.got)
    /\ JobStep(r, [j EXCEPT !.seq = @ + 1, !.sent = @ + ChunkLength(j.got, j.seq)])

\* All are out, and wait_for_publish is over for each.
Published(r) ==
    /\ job[r].pc = "publish" /\ job[r].seq = Total(job[r].got)
    /\ JobStep(r, [Over("fulfilled") EXCEPT !.got = job[r].got, !.sent = job[r].sent])

\* No connection to the broker: the chunks that went out stay out.
PublishFails(r) ==
    /\ job[r].pc = "publish"
    /\ JobStep(r, Over("lost"))

-----------------------------------------------------------------------------
JobMoves(r) == \/ NrfFails(r) \/ NrfAnswers(r) \/ NrfContinues(r) \/ NrfStops(r)
               \/ CacheHit(r) \/ CacheMiss(r) \/ CacheBreaks(r)
               \/ SuplAnswers(r) \/ SuplFails(r)
               \/ Unavailable(r) \/ Deliver(r)
               \/ PublishChunk(r) \/ Published(r) \/ PublishFails(r)

\* Request r gets a thread of the pool.
GetsThread(r) == \/ TakePublish(r)
                 \/ TakeCall(r) /\ UNCHANGED <<now, data, meta, job>>

\* Its SUPL call takes a step in its thread.
SuplMoves(r) == SuplStep(r) /\ UNCHANGED <<now, data, meta, job>>

\* Time passes.
Tick == now < MaxTime /\ now' = now + 1 /\ UNCHANGED <<data, meta, job, call>>

\* The server dies, perhaps while it writes the cache, and starts again.
AgnssCrash ==
    /\ job' = [r \in Callers |-> IF Running(r) THEN Over("lost") ELSE job[r]]
    /\ call' = [r \in Callers |-> Off]
    /\ UNCHANGED now
    /\ \/ UNCHANGED <<data, meta>>
       \/ \E r \in Callers, size \in Sizes :
             job[r].pc = "supl" /\ call[r].pc = "data" /\ WriteCache(size)

AgnssNext ==
    \/ \E r \in Callers : \/ DropRequest(r) \/ JobMoves(r) \/ SuplMoves(r) \/ GetsThread(r)
                          \/ \E via \in {"http", "mqtt"} : Request(r, via)
    \/ Tick
    \/ AgnssCrash

AgnssSpec == AgnssInit /\ [][AgnssNext]_agnssVars

-----------------------------------------------------------------------------
(* Properties.                                                             *)

\* AgnssCache: no tracker is given cached data that was written longer ago than the
\* time to live, whatever a crash or a full disk left of the two files.
CachedIsFresh == \A r \in Callers : job[r].age <= Ttl

\* publish_agnss_chunks: a request counts as fulfilled only if its chunks hold every
\* byte of the data.
FulfilledIsWhole ==
    \A r \in Callers : job[r].pc = "fulfilled" => job[r].sent = job[r].got

\* fetch_agnss_bytes: a request ends without data only after all that AGNSS_PROVIDER
\* allows had none for it: nRF Cloud, and every one of the SUPL servers, which are left
\* out only where reading the cache before them raised.
UnavailableMeansAllFailed ==
    \A r \in Callers :
        job[r].pc = "unavailable" =>
            /\ "nrf" \in Allowed => 0 \in job[r].failed
            /\ "supl" \in Allowed /\ ~job[r].torn => 1..Servers \subseteq job[r].failed
=============================================================================
