-------------------------- MODULE AgnssDeliveryProofs --------------------------
(***************************************************************************)
(* Cached assistance data is never older than its time to live, the chunks *)
(* published hold all of the data, and no request is given up before every *)
(* provider that is allowed failed for it, unless its cache was broken.    *)
(***************************************************************************)
EXTENDS AgnssDelivery, SuplFetchProofs

NrfFailed(failed)  == "nrf" \in Allowed => 0 \in failed
SuplFailed(failed) == "supl" \in Allowed => 1..Servers \subseteq failed

\* The bytes in the first seq chunks of size bytes.
Covered(size, seq) == IF seq * Chunk < size THEN seq * Chunk ELSE size

\* Nothing of the job's data is published yet.
Unsent(j) == j \in Job /\ j.age <= Ttl /\ j.seq = 0 /\ j.sent = 0

\* The inductive invariant of one request: how much of it is published, and who must
\* have failed for it in each step.
JobOK(j) ==
    /\ j \in Job /\ j.age <= Ttl
    /\ j.pc \notin {"publish", "fulfilled"} => j.seq = 0 /\ j.sent = 0
    /\ j.pc = "publish" => j.seq <= Total(j.got) /\ j.sent = Covered(j.got, j.seq)
    /\ j.pc = "fulfilled" => j.sent = j.got
    /\ j.pc \in {"lookup", "supl", "unavailable"} => NrfFailed(j.failed)
    /\ j.pc = "deliver" /\ j.got = 0 => NrfFailed(j.failed) /\ (j.torn \/ SuplFailed(j.failed))
    /\ j.pc = "unavailable" => j.torn \/ SuplFailed(j.failed)

JobsOK == job \in [Callers -> Job] /\ \A r \in Callers : JobOK(job[r])

\* The inductive invariant of the two files: the metadata never claims that the data
\* was fetched later than it was.
CacheOK ==
    /\ now \in 0..MaxTime
    /\ data \in Blob \union {Nothing} /\ meta \in 0..MaxTime \union {Nothing}
    /\ data # Nothing => data.at <= now
    /\ meta # Nothing => data # Nothing /\ meta <= data.at

AgnssInv == CallsOK /\ CacheOK /\ JobsOK

-----------------------------------------------------------------------------
(* The arithmetic of the chunks.                                           *)

\* The chunks cover the data, and the last of them is not empty.
LEMMA TotalCovers ==
    ASSUME NEW size \in Nat
    PROVE  /\ Total(size) \in Nat
           /\ Total(size) * Chunk >= size
           /\ \A seq \in Nat : seq < Total(size) => seq * Chunk < size
<1>. USE ChunkIsPos
<1>1. PICK n \in Nat : n = size + Chunk - 1
  OBVIOUS
<1>2. PICK q \in Nat : q = n \div Chunk
  OBVIOUS
<1>3. q = Total(size)
  BY <1>1, <1>2 DEF Total
<1>4. Chunk * q <= n /\ n < Chunk * q + Chunk
  BY <1>2
<1>5. q * Chunk >= size
  BY <1>1, <1>4
<1>6. ASSUME NEW seq \in Nat, seq < q PROVE seq * Chunk < size
  <2>1. seq + 1 <= q
    BY <1>6
  <2>2. (seq + 1) * Chunk <= q * Chunk
    BY <2>1
  <2>3. (seq + 1) * Chunk = seq * Chunk + Chunk
    OBVIOUS
  <2>4. q * Chunk = Chunk * q
    OBVIOUS
  <2>5. QED BY <1>1, <1>4, <2>2, <2>3, <2>4
<1>7. QED BY <1>3, <1>5, <1>6

\* One more chunk adds its length to what is covered.
LEMMA ChunkCovers ==
    ASSUME NEW size \in Nat, NEW seq \in Nat, seq < Total(size)
    PROVE  /\ Covered(size, seq) + ChunkLength(size, seq) = Covered(size, seq + 1)
           /\ Covered(size, seq + 1) \in Nat
<1>1. PICK k \in Nat : k = seq * Chunk
  BY ChunkIsPos
<1>2. (seq + 1) * Chunk = k + Chunk
  BY <1>1, ChunkIsPos
<1>3. k < size
  BY <1>1, TotalCovers
<1>4. QED BY <1>1, <1>2, <1>3, ChunkIsPos DEF Covered, ChunkLength

-----------------------------------------------------------------------------
(* Steps of one request.                                                   *)

LEMMA JobTypes ==
    ASSUME NEW j \in Job
    PROVE  j.got \in Nat /\ j.seq \in Nat /\ j.sent \in Nat /\ j.size \in {0} \union Sizes
BY DEF Job

\* What a job is left with once it has ended.
LEMMA OverIs ==
    ASSUME NEW how \in Ended
    PROVE  \E j \in Job : j = Over(how) /\ j.pc = how /\ j.age = 0 /\ j.seq = 0 /\ j.sent = 0
<1>1. PICK j : j = Over(how)
  OBVIOUS
<1>2. j \in Job /\ j.pc = how /\ j.age = 0 /\ j.seq = 0 /\ j.sent = 0
  BY <1>1, TimeIsNat DEF Over, NewJob, Job
<1>3. QED BY <1>1, <1>2

LEMMA SizeIsNat == ASSUME NEW n \in {0} \union Sizes PROVE n \in Nat
BY SizesArePos

\* The new state of one request leaves all of them right.
LEMMA JobBecomesOK ==
    ASSUME JobsOK, NEW r \in Callers, NEW j, JobOK(j), JobBecomes(r, j)
    PROVE  JobsOK'
BY DEF JobsOK, JobOK, JobBecomes

LEMMA JobStepOK ==
    ASSUME AgnssInv, NEW r \in Callers, NEW j, JobOK(j), JobStep(r, j)
    PROVE  AgnssInv'
<1>1. JobsOK'
  BY JobBecomesOK DEF AgnssInv, JobStep
<1>2. CallsOK' /\ CacheOK'
  BY DEF AgnssInv, JobStep, CallsOK, CacheOK
<1>3. QED BY <1>1, <1>2 DEF AgnssInv

LEMMA NewJobOK ==
    ASSUME NEW pc \in {"idle", "nrf", "answered", "lost"}, NEW via \in {"http", "mqtt"}
    PROVE  JobOK(NewJob(pc, via)) /\ Unsent(NewJob(pc, via))
<1>1. PICK j : j = NewJob(pc, via)
  OBVIOUS
<1>2. j \in Job /\ j.pc = pc /\ j.age = 0 /\ j.seq = 0 /\ j.sent = 0
  BY <1>1, TimeIsNat DEF NewJob, Job, Ended
<1>3. JobOK(j) /\ Unsent(j)
  BY <1>2, TtlIsNat DEF JobOK, Unsent
<1>4. QED BY <1>1, <1>3

\* Going on after nRF Cloud failed, or without it.
LEMMA AfterNrfOK ==
    ASSUME NEW j, Unsent(j), NrfFailed(j.failed)
    PROVE  JobOK(AfterNrf(j))
<1>1. PICK pc \in {"lookup", "deliver"} : pc = IF "supl" \in Allowed THEN "lookup" ELSE "deliver"
  OBVIOUS
<1>2. PICK t : t = [j EXCEPT !.pc = pc, !.got = 0, !.size = 0]
  OBVIOUS
<1>3. t = AfterNrf(j)
  BY <1>1, <1>2 DEF AfterNrf
<1>4. /\ t \in Job /\ t.pc = pc /\ t.got = 0 /\ t.age = j.age /\ t.seq = j.seq
      /\ t.sent = j.sent /\ t.failed = j.failed
  BY <1>2 DEF Job, Unsent
<1>5. pc = "deliver" => SuplFailed(t.failed)
  BY <1>1 DEF SuplFailed
<1>6. QED BY <1>3, <1>4, <1>5 DEF JobOK, Unsent

LEMMA NrfOverOK ==
    ASSUME NEW j, Unsent(j)
    PROVE  JobOK(NrfOver(j))
<1>1. CASE j.got > 0
  <2>1. PICK t : t = [j EXCEPT !.pc = "deliver", !.size = 0]
    OBVIOUS
  <2>2. /\ t \in Job /\ t.pc = "deliver" /\ t.got = j.got /\ t.age = j.age /\ t.seq = j.seq
        /\ t.sent = j.sent
    BY <2>1 DEF Job, Unsent
  <2>3. t.got # 0
    BY <1>1, <2>2, JobTypes DEF Unsent
  <2>4. JobOK(t)
    BY <2>2, <2>3 DEF JobOK, Unsent
  <2>5. t = NrfOver(j)
    BY <1>1, <2>1 DEF NrfOver
  <2>6. QED BY <2>4, <2>5
<1>2. CASE ~(j.got > 0)
  <2>1. PICK f : f = j.failed \union {0}
    OBVIOUS
  <2>2. f \in SUBSET (0..Servers) /\ 0 \in f
    BY <2>1, ServersIsPos DEF Unsent, Job
  <2>3. PICK t : t = [j EXCEPT !.failed = f]
    OBVIOUS
  <2>4. t \in Job /\ t.failed = f /\ t.age = j.age /\ t.seq = j.seq /\ t.sent = j.sent
    BY <2>2, <2>3 DEF Job, Unsent
  <2>5. JobOK(AfterNrf(t))
    BY <2>2, <2>4, AfterNrfOK DEF Unsent, NrfFailed
  <2>6. NrfOver(j) = AfterNrf(t)
    BY <1>2, <2>1, <2>3 DEF NrfOver
  <2>7. QED BY <2>5, <2>6
<1>3. QED BY <1>1, <1>2

\* A range has come in.
LEMMA ReceivedOK ==
    ASSUME AgnssInv, NEW r \in Callers, job[r].pc \in {"nrf", "range"},
           NEW size \in {0} \union Sizes, NEW got \in Nat, Received(r, size, got)
    PROVE  AgnssInv'
<1>1. PICK j : j = job[r] /\ Unsent(j)
  BY DEF AgnssInv, JobsOK, JobOK, Unsent
<1>2. PICK t : t = [j EXCEPT !.size = size, !.got = got]
  OBVIOUS
<1>3. Unsent(t)
  BY <1>1, <1>2 DEF Unsent, Job
<1>4. PICK u : u = [t EXCEPT !.pc = "range"]
  OBVIOUS
<1>5. u \in Job /\ u.pc = "range" /\ u.age = t.age /\ u.seq = t.seq /\ u.sent = t.sent
  BY <1>3, <1>4 DEF Unsent, Job
<1>6. JobOK(u)
  BY <1>3, <1>5 DEF JobOK, Unsent
<1>7. JobOK(NrfOver(t))
  BY <1>3, NrfOverOK
<1>8. JobStep(r, IF got < size THEN u ELSE NrfOver(t))
  BY <1>1, <1>2, <1>4 DEF Received
<1>9. QED BY <1>6, <1>7, <1>8, JobStepOK

\* A job that is unsent, in a step in which nothing more is asked of it.
LEMMA UnsentOK ==
    ASSUME NEW j, Unsent(j), j.pc \in {"range", "queued", "deliver"}, j.pc = "deliver" => j.got # 0
    PROVE  JobOK(j)
BY DEF JobOK, Unsent

LEMMA NrfStepsOK ==
    ASSUME AgnssInv, NEW r \in Callers,
           NrfFails(r) \/ NrfAnswers(r) \/ NrfContinues(r) \/ NrfStops(r)
    PROVE  AgnssInv'
<1>1. PICK j : j = job[r] /\ JobOK(j)
  BY DEF AgnssInv, JobsOK
<1>2. j.pc \in {"nrf", "range"} => Unsent(j)
  BY <1>1 DEF JobOK, Unsent
<1>3. CASE NrfFails(r)
  <2>1. PICK t : t = [j EXCEPT !.got = 0]
    OBVIOUS
  <2>2. Unsent(j)
    BY <1>1, <1>2, <1>3 DEF NrfFails
  <2>3. Unsent(t)
    BY <2>1, <2>2 DEF Unsent, Job
  <2>4. QED BY <1>1, <1>3, <2>1, <2>3, NrfOverOK, JobStepOK DEF NrfFails
<1>4. CASE NrfAnswers(r)
  <2>1. PICK size \in Sizes : \E got \in 0..size : Received(r, size, got)
    BY <1>4 DEF NrfAnswers
  <2>2. PICK got \in 0..size : Received(r, size, got)
    BY <2>1
  <2>3. got \in Nat
    BY SizesArePos
  <2>4. QED BY <1>4, <2>2, <2>3, ReceivedOK DEF NrfAnswers
<1>5. CASE NrfContinues(r)
  <2>1. PICK more \in 1..(j.size - j.got) : Received(r, j.size, j.got + more)
    BY <1>1, <1>5 DEF NrfContinues
  <2>2. j.size \in {0} \union Sizes /\ j.got \in Nat
    BY <1>1, JobTypes DEF JobOK
  <2>3. j.size \in Nat
    BY <2>2, SizeIsNat
  <2>4. j.got + more \in Nat
    BY <2>2, <2>3
  <2>5. QED BY <1>5, <2>1, <2>2, <2>4, ReceivedOK DEF NrfContinues
<1>6. CASE NrfStops(r)
  BY <1>1, <1>2, <1>6, NrfOverOK, JobStepOK DEF NrfStops
<1>7. QED BY <1>3, <1>4, <1>5, <1>6

LEMMA RequestOK ==
    ASSUME AgnssInv, NEW r \in Callers,
           DropRequest(r) \/ \E via \in {"http", "mqtt"} : Request(r, via)
    PROVE  AgnssInv'
<1>1. CASE DropRequest(r)
  BY <1>1, NewJobOK, JobStepOK DEF DropRequest, Over
<1>2. ASSUME NEW via \in {"http", "mqtt"}, Request(r, via) PROVE AgnssInv'
  <2>1. PICK j : j = NewJob("nrf", via) /\ JobOK(j) /\ Unsent(j)
    BY NewJobOK
  <2>2. CASE "nrf" \in Allowed
    BY <1>2, <2>1, <2>2, JobStepOK DEF Request
  <2>3. CASE "nrf" \notin Allowed
    <3>1. JobOK(AfterNrf(j))
      BY <2>1, <2>3, AfterNrfOK DEF NrfFailed
    <3>2. QED BY <1>2, <2>1, <2>3, <3>1, JobStepOK DEF Request
  <2>4. QED BY <2>2, <2>3
<1>3. QED BY <1>1, <1>2

\* AgnssCache.get: the metadata is no later than the data, so data whose metadata is
\* young enough is young enough.
LEMMA CacheHitOK ==
    ASSUME AgnssInv, NEW r \in Callers, CacheHit(r)
    PROVE  AgnssInv'
<1>1. PICK j : j = job[r] /\ JobOK(j) /\ j.pc = "lookup"
  BY DEF AgnssInv, JobsOK, CacheHit
<1>2. /\ now \in 0..MaxTime /\ data \in Blob /\ meta \in 0..MaxTime /\ meta <= data.at
      /\ data.at <= now /\ now - meta <= Ttl
  BY DEF AgnssInv, CacheOK, CacheHit, Fresh
<1>3. data.at \in 0..MaxTime /\ data.size \in Sizes
  BY <1>2 DEF Blob
<1>4. PICK age : age = now - data.at
  OBVIOUS
<1>5. age \in 0..MaxTime /\ age <= Ttl
  BY <1>2, <1>3, <1>4, TimeIsNat, TtlIsNat
<1>6. data.size \in Nat /\ data.size # 0
  BY <1>3, SizesArePos
<1>7. PICK t : t = [j EXCEPT !.pc = "deliver", !.got = data.size, !.age = age]
  OBVIOUS
<1>8. /\ t \in Job /\ t.pc = "deliver" /\ t.got = data.size /\ t.age = age /\ t.seq = j.seq
      /\ t.sent = j.sent
  BY <1>1, <1>5, <1>6, <1>7 DEF Job, JobOK
<1>9. Unsent(t)
  BY <1>1, <1>5, <1>8 DEF JobOK, Unsent
<1>10. JobOK(t)
  BY <1>6, <1>8, <1>9, UnsentOK
<1>11. QED BY <1>1, <1>4, <1>7, <1>10, JobStepOK DEF CacheHit

\* A cache that cannot be parsed leaves SUPL out, and nRF Cloud has failed before it.
LEMMA CacheBreaksOK ==
    ASSUME AgnssInv, NEW r \in Callers, CacheBreaks(r)
    PROVE  AgnssInv'
<1>1. PICK j : j = job[r] /\ JobOK(j) /\ j \in Job /\ j.pc = "lookup"
  BY DEF AgnssInv, JobsOK, JobOK, CacheBreaks
<1>2. PICK t : t = [j EXCEPT !.pc = "deliver", !.torn = TRUE]
  OBVIOUS
<1>3. /\ t \in Job /\ t.pc = "deliver" /\ t.torn = TRUE /\ t.failed = j.failed
      /\ t.age = j.age /\ t.seq = j.seq /\ t.sent = j.sent
  BY <1>1, <1>2 DEF Job
<1>4. JobOK(t)
  BY <1>1, <1>3 DEF JobOK
<1>5. QED BY <1>1, <1>2, <1>4, JobStepOK DEF CacheBreaks

LEMMA CacheMissOK ==
    ASSUME AgnssInv, NEW r \in Callers, CacheMiss(r)
    PROVE  AgnssInv'
<1>1. PICK j : j = job[r] /\ JobOK(j) /\ j.pc = "lookup"
  BY DEF AgnssInv, JobsOK, CacheMiss
<1>2. PICK t : t = [j EXCEPT !.pc = "supl"]
  OBVIOUS
<1>3. /\ t \in Job /\ t.pc = "supl" /\ t.age = j.age /\ t.seq = j.seq /\ t.sent = j.sent
      /\ t.failed = j.failed
  BY <1>1, <1>2 DEF Job, JobOK
<1>4. JobOK(t)
  BY <1>1, <1>3 DEF JobOK
<1>5. JobsOK'
  BY <1>1, <1>2, <1>4, JobBecomesOK DEF AgnssInv, CacheMiss
<1>6. CallsOK'
  BY StartOK DEF AgnssInv, CacheMiss
<1>7. CacheOK'
  BY DEF AgnssInv, CacheOK, CacheMiss
<1>8. QED BY <1>5, <1>6, <1>7 DEF AgnssInv

\* AgnssCache.set, however far it comes: data that was just fetched, under metadata that
\* is older or just as old.
LEMMA WriteOK ==
    ASSUME CacheOK, NEW size \in Sizes, WriteCache(size), UNCHANGED now
    PROVE  CacheOK'
<1>1. PICK new : new = [at |-> now, size |-> size]
  OBVIOUS
<1>2. new \in Blob /\ new.at = now /\ new # Nothing
  BY <1>1, NothingIsNoBlob DEF CacheOK, Blob
<1>3. \/ data' = data /\ meta' = meta
      \/ data' = new /\ meta' = meta
      \/ data' = new /\ meta' = now
  BY <1>1 DEF WriteCache, Written
<1>4. CASE data' = data /\ meta' = meta
  BY <1>4 DEF CacheOK
<1>5. CASE data' = new /\ meta' = meta
  <2>1. meta # Nothing => meta <= new.at
    <3>1. ASSUME meta # Nothing PROVE meta <= now
      <4>1. meta \in 0..MaxTime /\ data \in Blob /\ meta <= data.at /\ data.at <= now
        BY <3>1 DEF CacheOK
      <4>2. data.at \in 0..MaxTime /\ now \in 0..MaxTime
        BY <4>1 DEF CacheOK, Blob
      <4>3. QED BY <4>1, <4>2, TimeIsNat
    <3>2. QED BY <1>2, <3>1
  <2>2. QED BY <1>2, <1>5, <2>1, TimeIsNat DEF CacheOK
<1>6. CASE data' = new /\ meta' = now
  BY <1>2, <1>6, TimeIsNat DEF CacheOK
<1>7. QED BY <1>3, <1>4, <1>5, <1>6

LEMMA SuplReturnsOK ==
    ASSUME AgnssInv, NEW r \in Callers, SuplAnswers(r) \/ SuplFails(r)
    PROVE  AgnssInv'
<1>1. PICK j : j = job[r] /\ JobOK(j) /\ j.pc = "supl"
  BY DEF AgnssInv, JobsOK, SuplAnswers, SuplFails
<1>2. CallsOK'
  BY OffOK, BecomesOK DEF AgnssInv, SuplAnswers, SuplFails
<1>3. CASE SuplAnswers(r)
  <2>1. PICK size \in Sizes :
          JobBecomes(r, [job[r] EXCEPT !.pc = "deliver", !.got = size]) /\ WriteCache(size)
    BY <1>3 DEF SuplAnswers
  <2>2. CacheOK'
    BY <1>3, <2>1, WriteOK DEF AgnssInv, SuplAnswers
  <2>3. PICK t : t = [j EXCEPT !.pc = "deliver", !.got = size]
    OBVIOUS
  <2>4. size \in Nat /\ size # 0
    BY SizesArePos
  <2>5. /\ t \in Job /\ t.pc = "deliver" /\ t.got = size /\ t.age = j.age /\ t.seq = j.seq
        /\ t.sent = j.sent
    BY <1>1, <2>3, <2>4 DEF Job, JobOK
  <2>6. Unsent(t)
    BY <1>1, <2>5 DEF JobOK, Unsent
  <2>7. JobOK(t)
    BY <2>4, <2>5, <2>6, UnsentOK
  <2>8. JobsOK'
    BY <1>1, <2>1, <2>3, <2>7, JobBecomesOK DEF AgnssInv
  <2>9. QED BY <1>2, <2>2, <2>8 DEF AgnssInv
<1>4. CASE SuplFails(r)
  <2>1. PICK s \in SuplCall : s = call[r] /\ CallOK(s)
    BY DEF AgnssInv, CallsOK
  <2>2. s.failed = 1..Servers
    BY <1>4, <2>1 DEF SuplFails, CallOK
  <2>3. PICK f : f = j.failed \union s.failed
    OBVIOUS
  <2>4. j.failed \in SUBSET (0..Servers)
    BY <1>1 DEF JobOK, Job
  <2>5. f \in SUBSET (0..Servers) /\ 1..Servers \subseteq f /\ j.failed \subseteq f
    BY <2>2, <2>3, <2>4, ServersIsPos
  <2>6. PICK t : t = [j EXCEPT !.pc = "deliver", !.failed = f]
    OBVIOUS
  <2>7. /\ t \in Job /\ t.pc = "deliver" /\ t.failed = f /\ t.age = j.age /\ t.seq = j.seq
        /\ t.sent = j.sent
    BY <1>1, <2>5, <2>6 DEF Job, JobOK
  <2>8. NrfFailed(f) /\ SuplFailed(f)
    BY <1>1, <2>5 DEF JobOK, NrfFailed, SuplFailed
  <2>9. JobOK(t)
    BY <1>1, <2>7, <2>8 DEF JobOK
  <2>10. JobBecomes(r, t)
    BY <1>1, <1>4, <2>1, <2>3, <2>6 DEF SuplFails
  <2>11. JobsOK'
    BY <2>9, <2>10, JobBecomesOK DEF AgnssInv
  <2>12. CacheOK'
    BY <1>4 DEF AgnssInv, CacheOK, SuplFails
  <2>13. QED BY <1>2, <2>11, <2>12 DEF AgnssInv
<1>5. QED BY <1>3, <1>4

\* publish_agnss_chunks: each chunk adds its length, and after the last one the data is
\* covered to its end.
LEMMA DeliveryOK ==
    ASSUME AgnssInv, NEW r \in Callers,
           \/ Unavailable(r) \/ Deliver(r) \/ TakePublish(r)
           \/ PublishChunk(r) \/ Published(r) \/ PublishFails(r)
    PROVE  AgnssInv'
<1>1. PICK j : j = job[r] /\ JobOK(j) /\ j \in Job
  BY DEF AgnssInv, JobsOK, JobOK
<1>2. j.got \in Nat /\ j.seq \in Nat /\ j.sent \in Nat /\ j.failed \in SUBSET (0..Servers)
  BY <1>1 DEF Job
<1>3. CASE Unavailable(r)
  <2>a. PICK o \in Job : /\ o = Over("unavailable") /\ o.pc = "unavailable" /\ o.age = 0
                         /\ o.seq = 0 /\ o.sent = 0
    BY OverIs DEF Ended
  <2>1. PICK t : t = [o EXCEPT !.failed = j.failed, !.torn = j.torn]
    OBVIOUS
  <2>2. /\ t \in Job /\ t.pc = "unavailable" /\ t.failed = j.failed /\ t.torn = j.torn
        /\ t.age = 0 /\ t.seq = 0 /\ t.sent = 0
    BY <1>1, <1>2, <2>a, <2>1 DEF Job
  <2>3. NrfFailed(t.failed) /\ (t.torn \/ SuplFailed(t.failed))
    BY <1>1, <1>3, <2>2 DEF Unavailable, JobOK
  <2>4. JobOK(t)
    BY <2>2, <2>3, TtlIsNat DEF JobOK
  <2>5. QED BY <1>1, <1>3, <2>a, <2>1, <2>4, JobStepOK DEF Unavailable
<1>4. CASE Deliver(r)
  <2>1. PICK t : t = [j EXCEPT !.pc = "queued"]
    OBVIOUS
  <2>2. j.pc = "deliver" /\ JobStep(r, IF j.via = "http" THEN Over("answered") ELSE t)
    BY <1>1, <1>4, <2>1 DEF Deliver
  <2>3. t \in Job /\ t.pc = "queued" /\ t.age = j.age /\ t.seq = j.seq /\ t.sent = j.sent
    BY <1>1, <2>1 DEF Job
  <2>4. JobOK(t)
    BY <1>1, <2>2, <2>3 DEF JobOK
  <2>5. JobOK(Over("answered"))
    BY NewJobOK DEF Over
  <2>6. QED BY <2>2, <2>4, <2>5, JobStepOK
<1>5. CASE TakePublish(r)
  <2>1. PICK t : t = [j EXCEPT !.pc = "publish"]
    OBVIOUS
  <2>2. j.pc = "queued" /\ JobStep(r, t)
    BY <1>1, <1>5, <2>1 DEF TakePublish
  <2>3. /\ t \in Job /\ t.pc = "publish" /\ t.got = j.got /\ t.age = j.age /\ t.seq = j.seq
        /\ t.sent = j.sent
    BY <1>1, <2>1 DEF Job
  <2>4. j.seq = 0 /\ j.sent = 0 /\ j.age <= Ttl
    BY <1>1, <2>2 DEF JobOK
  <2>5. 0 <= Total(j.got) /\ 0 = Covered(j.got, 0)
    BY <1>2, ChunkIsPos, TotalCovers DEF Covered
  <2>6. JobOK(t)
    BY <2>3, <2>4, <2>5 DEF JobOK
  <2>7. QED BY <2>2, <2>6, JobStepOK
<1>6. CASE PublishChunk(r)
  <2>1. PICK sent : sent = j.sent + ChunkLength(j.got, j.seq)
    OBVIOUS
  <2>2. PICK seq \in Nat : seq = j.seq + 1
    BY <1>2
  <2>3. PICK t : t = [j EXCEPT !.seq = seq, !.sent = sent]
    OBVIOUS
  <2>4. j.pc = "publish" /\ j.seq < Total(j.got) /\ JobStep(r, t)
    BY <1>1, <1>6, <2>1, <2>2, <2>3 DEF PublishChunk
  <2>5. j.sent = Covered(j.got, j.seq) /\ j.age <= Ttl
    BY <1>1, <2>4 DEF JobOK
  <2>6. sent = Covered(j.got, seq) /\ sent \in Nat
    BY <1>2, <2>1, <2>2, <2>4, <2>5, ChunkCovers
  <2>7. seq <= Total(j.got)
    BY <1>2, <2>2, <2>4, TotalCovers
  <2>8. /\ t \in Job /\ t.pc = "publish" /\ t.got = j.got /\ t.age = j.age /\ t.seq = seq
        /\ t.sent = sent
    BY <1>1, <2>3, <2>4, <2>6 DEF Job
  <2>9. JobOK(t)
    BY <2>5, <2>6, <2>7, <2>8 DEF JobOK
  <2>10. QED BY <2>4, <2>9, JobStepOK
<1>7. CASE Published(r)
  <2>1. j.pc = "publish" /\ j.seq = Total(j.got) /\ j.sent = Covered(j.got, j.seq)
    BY <1>1, <1>7 DEF Published, JobOK
  <2>2. j.sent = j.got
    <3>1. PICK k \in Nat : k = Total(j.got) * Chunk /\ k >= j.got
      BY <1>2, TotalCovers, ChunkIsPos
    <3>2. QED BY <1>2, <2>1, <3>1 DEF Covered
  <2>a. PICK o \in Job : o = Over("fulfilled") /\ o.pc = "fulfilled" /\ o.age = 0
    BY OverIs DEF Ended
  <2>3. PICK t : t = [o EXCEPT !.got = j.got, !.sent = j.sent]
    OBVIOUS
  <2>4. /\ t \in Job /\ t.pc = "fulfilled" /\ t.got = j.got /\ t.sent = j.sent /\ t.age = 0
    BY <1>2, <2>a, <2>3 DEF Job
  <2>5. JobOK(t)
    BY <2>2, <2>4, TtlIsNat DEF JobOK
  <2>6. QED BY <1>1, <1>7, <2>a, <2>3, <2>5, JobStepOK DEF Published
<1>8. CASE PublishFails(r)
  BY <1>8, NewJobOK, JobStepOK DEF PublishFails, Over
<1>9. QED BY <1>3, <1>4, <1>5, <1>6, <1>7, <1>8

\* Steps of the requests, of their SUPL calls, of the clock, and crashes.
LEMMA JobMovesOK ==
    ASSUME AgnssInv, NEW r \in Callers, JobMoves(r)
    PROVE  AgnssInv'
BY NrfStepsOK, CacheHitOK, CacheBreaksOK, CacheMissOK, SuplReturnsOK, DeliveryOK DEF JobMoves

LEMMA SuplMovesOK ==
    ASSUME AgnssInv, NEW r \in Callers, SuplMoves(r)
    PROVE  AgnssInv'
<1>1. CallsOK'
  BY StepOK DEF AgnssInv, SuplMoves
<1>2. CacheOK' /\ JobsOK'
  BY DEF AgnssInv, SuplMoves, CacheOK, JobsOK
<1>3. QED BY <1>1, <1>2 DEF AgnssInv

LEMMA GetsThreadOK ==
    ASSUME AgnssInv, NEW r \in Callers, GetsThread(r)
    PROVE  AgnssInv'
<1>1. CASE TakePublish(r)
  BY <1>1, DeliveryOK
<1>2. CASE TakeCall(r) /\ UNCHANGED <<now, data, meta, job>>
  <2>1. CallsOK'
    BY <1>2, TakeOK DEF AgnssInv
  <2>2. CacheOK' /\ JobsOK'
    BY <1>2 DEF AgnssInv, CacheOK, JobsOK
  <2>3. QED BY <2>1, <2>2 DEF AgnssInv
<1>3. QED BY <1>1, <1>2 DEF GetsThread

LEMMA TickOK ==
    ASSUME AgnssInv, Tick
    PROVE  AgnssInv'
<1>1. CallsOK' /\ JobsOK'
  BY DEF AgnssInv, Tick, CallsOK, JobsOK
<1>2. CacheOK
  BY DEF AgnssInv
<1>3. now \in 0..MaxTime /\ now < MaxTime /\ now' = now + 1 /\ data' = data /\ meta' = meta
  BY <1>2 DEF CacheOK, Tick
<1>4. now' \in 0..MaxTime
  BY <1>3, TimeIsNat
<1>5. ASSUME data # Nothing PROVE data.at <= now'
  <2>1. data.at \in 0..MaxTime /\ data.at <= now
    BY <1>2, <1>5 DEF CacheOK, Blob
  <2>2. QED BY <1>3, <2>1, TimeIsNat
<1>6. CacheOK'
  BY <1>2, <1>3, <1>4, <1>5 DEF CacheOK
<1>7. QED BY <1>1, <1>6 DEF AgnssInv

LEMMA AgnssCrashOK ==
    ASSUME AgnssInv, AgnssCrash
    PROVE  AgnssInv'
<1>1. CallsOK'
  BY OffOK DEF AgnssCrash, CallsOK, CallOK
<1>2. JobsOK'
  <2>1. JobOK(Over("lost")) /\ \A r \in Callers : JobOK(job[r])
    BY NewJobOK DEF Over, AgnssInv, JobsOK
  <2>2. \A r \in Callers : JobOK(IF Running(r) THEN Over("lost") ELSE job[r])
    BY <2>1
  <2>3. QED BY <2>2 DEF AgnssCrash, JobsOK, JobOK
<1>3. CacheOK'
  <2>1. CASE UNCHANGED <<data, meta>>
    BY <2>1 DEF AgnssCrash, AgnssInv, CacheOK
  <2>2. CASE \E r \in Callers, size \in Sizes : WriteCache(size)
    BY <2>2, WriteOK DEF AgnssCrash, AgnssInv
  <2>3. QED BY <2>1, <2>2 DEF AgnssCrash
<1>4. QED BY <1>1, <1>2, <1>3 DEF AgnssInv

LEMMA AgnssInitOK == AgnssInit => AgnssInv
<1>. SUFFICES ASSUME AgnssInit PROVE AgnssInv
  OBVIOUS
<1>1. CallsOK
  BY OffOK DEF AgnssInit, SuplInit, CallsOK, CallOK
<1>2. JobOK(Over("idle"))
  BY NewJobOK DEF Over
<1>3. JobsOK
  BY <1>2 DEF AgnssInit, JobsOK, JobOK
<1>4. CacheOK
  BY TimeIsNat DEF AgnssInit, CacheOK
<1>5. QED BY <1>1, <1>3, <1>4 DEF AgnssInv

LEMMA AgnssProperties ==
    AgnssInv => /\ SuplTypeOK /\ AgnssTypeOK
                /\ CachedIsFresh /\ FulfilledIsWhole /\ UnavailableMeansAllFailed
                /\ OneServersData /\ SocketsClosed
<1>. SUFFICES ASSUME AgnssInv
              PROVE  /\ SuplTypeOK /\ AgnssTypeOK
                     /\ CachedIsFresh /\ FulfilledIsWhole /\ UnavailableMeansAllFailed
                     /\ OneServersData /\ SocketsClosed
  OBVIOUS
<1>1. SuplTypeOK /\ OneServersData /\ SocketsClosed
  BY CallProperties DEF AgnssInv, SuplTypeOK, CallsOK
<1>2. AgnssTypeOK
  BY DEF AgnssInv, AgnssTypeOK, CacheOK, JobsOK
<1>3. CachedIsFresh /\ FulfilledIsWhole
  BY DEF AgnssInv, JobsOK, JobOK, CachedIsFresh, FulfilledIsWhole
<1>4. UnavailableMeansAllFailed
  BY DEF AgnssInv, JobsOK, JobOK, UnavailableMeansAllFailed, NrfFailed, SuplFailed
<1>5. QED BY <1>1, <1>2, <1>3, <1>4

-----------------------------------------------------------------------------
\* Whatever crashes, full disks and failing providers do: for any time to live, chunk
\* size, number of requests and of SUPL servers, and any providers allowed, cached data
\* is young enough, the chunks of a fulfilled request hold all of its data, a request
\* without data was refused by everyone it was to ask (SUPL is not asked where the cache
\* read raised), and the SUPL calls keep their promises.
THEOREM AgnssCorrect ==
    AgnssSpec => [](/\ AgnssTypeOK /\ CachedIsFresh /\ FulfilledIsWhole
                    /\ UnavailableMeansAllFailed /\ OneServersData /\ SocketsClosed)
<1>1. AgnssInv /\ [AgnssNext]_agnssVars => AgnssInv'
  <2>1. ASSUME AgnssInv, AgnssNext PROVE AgnssInv'
    BY <2>1, RequestOK, JobMovesOK, SuplMovesOK, GetsThreadOK, TickOK, AgnssCrashOK DEF AgnssNext
  <2>2. ASSUME AgnssInv, UNCHANGED agnssVars PROVE AgnssInv'
    BY <2>2 DEF AgnssInv, agnssVars, CallsOK, CacheOK, JobsOK
  <2>3. QED BY <2>1, <2>2
<1>2. QED BY <1>1, AgnssInitOK, AgnssProperties, PTL DEF AgnssSpec
=============================================================================
