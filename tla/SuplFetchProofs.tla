---------------------------- MODULE SuplFetchProofs ----------------------------
(***************************************************************************)
(* What holds of a SUPL call in each of its steps.  The lemmas speak of    *)
(* one call, so that the modules which start calls can cite them.          *)
(***************************************************************************)
EXTENDS SuplFetch, FiniteSetTheorems, TLAPS

\* The inductive invariant of one call: a socket is open only while it is used, the
\* buffer holds what the current server sent, and the servers before it failed.
CallOK(s) ==
    /\ s \in SuplCall
    /\ s.open = IF s.pc \in {"send", "receive"} THEN 1 ELSE 0
    /\ s.from = IF s.got = 0 THEN {} ELSE {s.server}
    /\ s.pc \notin {"receive", "data"} => s.got = 0
    /\ s.pc = "data" => s.got > 0
    /\ s.pc = "nothing" => s.failed = 1..Servers
    /\ s.pc # "nothing" => s.failed = 1..(s.server - 1)

CallsOK == call \in [Callers -> SuplCall] /\ \A c \in Callers : CallOK(call[c])

LEMMA OffOK == CallOK(Off)
BY ServersIsPos, EnoughIsPos DEF CallOK, Off, SuplCall, Returned

LEMMA CallTypes ==
    ASSUME NEW s \in SuplCall
    PROVE  s.server \in 1..Servers /\ s.got \in 0..Enough /\ s.failed \in SUBSET (1..Servers)
BY DEF SuplCall

\* sock.close()
LEMMA ClosedOK ==
    ASSUME NEW s \in SuplCall
    PROVE  \E t \in SuplCall :
              /\ t = Closed(s) /\ t.open = 0 /\ t.pc = s.pc /\ t.server = s.server
              /\ t.got = s.got /\ t.from = s.from /\ t.failed = s.failed
<1>1. PICK t : t = [s EXCEPT !.open = 0]
  OBVIOUS
<1>2. /\ t \in SuplCall /\ t.open = 0 /\ t.pc = s.pc /\ t.server = s.server
      /\ t.got = s.got /\ t.from = s.from /\ t.failed = s.failed
  BY <1>1, ServersIsPos DEF SuplCall
<1>3. QED BY <1>1, <1>2 DEF Closed

\* Advance leaves an attempt without data: what was accumulated is dropped and the next
\* server is tried, unless this was the last.
LEMMA AdvanceOK ==
    ASSUME NEW s \in SuplCall, s.open = 0, s.failed = 1..(s.server - 1)
    PROVE  CallOK(Advance(s))
<1>1. PICK f : f = s.failed \union {s.server}
  OBVIOUS
<1>2. f = 1..s.server
  BY <1>1, CallTypes, ServersIsPos
<1>a. f \in SUBSET (1..Servers) /\ 0 \in 0..Enough
  BY <1>2, CallTypes, ServersIsPos, EnoughIsPos
<1>3. CASE Last(s.server)
  <2>1. PICK u : u = [s EXCEPT !.got = 0, !.from = {}, !.failed = f, !.pc = "nothing"]
    OBVIOUS
  <2>2. u = Advance(s)
    BY <1>1, <1>3, <2>1 DEF Advance, Emptied
  <2>3. /\ u \in SuplCall /\ u.pc = "nothing" /\ u.open = 0 /\ u.got = 0 /\ u.from = {}
        /\ u.failed = f
    BY <1>a, <2>1 DEF SuplCall, Returned
  <2>4. f = 1..Servers
    BY <1>2, <1>3 DEF Last
  <2>5. QED BY <2>2, <2>3, <2>4 DEF CallOK
<1>4. CASE ~Last(s.server)
  <2>1. PICK u : u = [s EXCEPT !.got = 0, !.from = {}, !.failed = f, !.pc = "connect",
                               !.server = s.server + 1]
    OBVIOUS
  <2>2. u = Advance(s)
    BY <1>1, <1>4, <2>1 DEF Advance, Emptied
  <2>3. s.server + 1 \in 1..Servers
    BY <1>4, CallTypes, ServersIsPos DEF Last
  <2>a. f = 1..((s.server + 1) - 1)
    BY <1>2, CallTypes
  <2>4. /\ u \in SuplCall /\ u.pc = "connect" /\ u.open = 0 /\ u.got = 0 /\ u.from = {}
        /\ u.server = s.server + 1 /\ u.failed = f
    BY <1>a, <2>1, <2>3 DEF SuplCall
  <2>5. QED BY <2>2, <2>a, <2>4 DEF CallOK
<1>5. QED BY <1>3, <1>4

\* Finish closes the socket and either returns what one server sent or goes on.
LEMMA FinishOK ==
    ASSUME NEW s \in SuplCall, s.pc = "receive", s.failed = 1..(s.server - 1),
           s.from = IF s.got = 0 THEN {} ELSE {s.server}
    PROVE  CallOK(Finish(s))
<1>1. PICK t \in SuplCall :
        /\ t = Closed(s) /\ t.open = 0 /\ t.server = s.server
        /\ t.got = s.got /\ t.from = s.from /\ t.failed = s.failed
  BY ClosedOK
<1>2. CASE s.got > 0
  <2>1. PICK u : u = [t EXCEPT !.pc = "data"]
    OBVIOUS
  <2>2. /\ u \in SuplCall /\ u.pc = "data" /\ u.open = 0 /\ u.got = s.got
        /\ u.server = s.server /\ u.from = s.from /\ u.failed = s.failed
    BY <1>1, <2>1 DEF SuplCall, Returned
  <2>3. CallOK(u)
    BY <1>2, <2>2 DEF CallOK
  <2>4. u = Finish(s)
    BY <1>1, <1>2, <2>1 DEF Finish
  <2>5. QED BY <2>3, <2>4
<1>3. CASE ~(s.got > 0)
  <2>1. CallOK(Advance(t))
    BY <1>1, AdvanceOK
  <2>2. Finish(s) = Advance(t)
    BY <1>1, <1>3 DEF Finish
  <2>3. QED BY <2>1, <2>2
<1>4. QED BY <1>2, <1>3

\* A call whose new state is right leaves all calls right.
LEMMA BecomesOK ==
    ASSUME CallsOK, NEW c \in Callers, NEW s, CallOK(s), CallBecomes(c, s)
    PROVE  CallsOK'
BY DEF CallsOK, CallOK, CallBecomes

\* A change of the step and the socket alone, while nothing is accumulated.
LEMMA MoveOK ==
    ASSUME NEW s, CallOK(s), s.pc \in {"queued", "connect", "send"},
           NEW t \in SuplCall, t.pc \in {"connect", "send", "receive"},
           t.open = IF t.pc = "connect" THEN 0 ELSE 1, t.got = s.got, t.from = s.from,
           t.server = s.server, t.failed = s.failed
    PROVE  CallOK(t)
<1>1. s.got = 0 /\ s.from = {} /\ s.failed = 1..(s.server - 1)
  BY DEF CallOK
<1>2. QED BY <1>1 DEF CallOK

LEMMA StartOK ==
    ASSUME CallsOK, NEW c \in Callers, SuplStart(c)
    PROVE  CallsOK'
<1>1. PICK t : t = [Off EXCEPT !.pc = "queued"]
  OBVIOUS
<1>2. CallOK(t)
  BY <1>1, ServersIsPos, EnoughIsPos DEF Off, CallOK, SuplCall, Returned
<1>3. QED BY <1>1, <1>2, BecomesOK DEF SuplStart

LEMMA TakeOK ==
    ASSUME CallsOK, NEW c \in Callers, TakeCall(c)
    PROVE  CallsOK'
<1>1. PICK s : s = call[c] /\ CallOK(s) /\ s.pc = "queued" /\ s \in SuplCall /\ s.open = 0
  BY DEF CallsOK, TakeCall, CallOK
<1>2. PICK t : t = [s EXCEPT !.pc = "connect"]
  OBVIOUS
<1>3. /\ t \in SuplCall /\ t.pc = "connect" /\ t.open = 0 /\ t.got = s.got
      /\ t.from = s.from /\ t.server = s.server /\ t.failed = s.failed
  BY <1>1, <1>2 DEF SuplCall
<1>4. CallOK(t)
  BY <1>1, <1>3, MoveOK
<1>5. QED BY <1>1, <1>2, <1>4, BecomesOK DEF TakeCall

\* Every step of a call keeps the invariant of all calls.
LEMMA StepOK ==
    ASSUME CallsOK, NEW c \in Callers, SuplStep(c)
    PROVE  CallsOK'
<1>1. PICK s \in SuplCall : s = call[c] /\ CallOK(s)
  BY DEF CallsOK
<1>2. CASE Connect(c)
  <2>1. s.pc = "connect" /\ s.open = 0
    BY <1>1, <1>2 DEF Connect, CallOK
  <2>2. PICK t : t = [s EXCEPT !.pc = "send", !.open = @ + 1]
    OBVIOUS
  <2>a. 1 \in 0..Servers /\ t = [s EXCEPT !.pc = "send", !.open = 1]
    BY <2>1, <2>2, ServersIsPos DEF SuplCall
  <2>3. /\ t \in SuplCall /\ t.pc = "send" /\ t.open = 1 /\ t.got = s.got
        /\ t.from = s.from /\ t.server = s.server /\ t.failed = s.failed
    BY <2>a DEF SuplCall
  <2>4. CallOK(t)
    BY <1>1, <2>1, <2>3, MoveOK
  <2>5. QED BY <1>1, <1>2, <2>2, <2>4, BecomesOK DEF Connect
<1>3. CASE ConnectFails(c)
  <2>1. s.open = 0 /\ s.failed = 1..(s.server - 1)
    BY <1>1, <1>3 DEF ConnectFails, CallOK
  <2>2. CallOK(Advance(s))
    BY <2>1, AdvanceOK
  <2>3. QED BY <1>1, <1>3, <2>2, BecomesOK DEF ConnectFails
<1>4. CASE SendStart(c)
  <2>1. s.pc = "send" /\ s.open = 1
    BY <1>1, <1>4 DEF SendStart, CallOK
  <2>2. PICK t : t = [s EXCEPT !.pc = "receive"]
    OBVIOUS
  <2>3. /\ t \in SuplCall /\ t.pc = "receive" /\ t.open = 1 /\ t.got = s.got
        /\ t.from = s.from /\ t.server = s.server /\ t.failed = s.failed
    BY <2>1, <2>2, ServersIsPos DEF SuplCall
  <2>4. CallOK(t)
    BY <1>1, <2>1, <2>3, MoveOK
  <2>5. QED BY <1>1, <1>4, <2>2, <2>4, BecomesOK DEF SendStart
<1>5. CASE SendFails(c) \/ ReceiveFails(c)
  <2>1. s.pc \in {"send", "receive"} /\ s.failed = 1..(s.server - 1)
    BY <1>1, <1>5 DEF SendFails, ReceiveFails, CallOK
  <2>2. PICK t \in SuplCall : t = Closed(s) /\ t.open = 0 /\ t.server = s.server /\ t.failed = s.failed
    BY ClosedOK
  <2>3. CallOK(Advance(t))
    BY <2>1, <2>2, AdvanceOK
  <2>4. QED BY <1>1, <1>5, <2>2, <2>3, BecomesOK DEF SendFails, ReceiveFails
<1>6. CASE ReceiveEnds(c)
  <2>1. /\ s.pc = "receive" /\ s.failed = 1..(s.server - 1)
        /\ s.from = IF s.got = 0 THEN {} ELSE {s.server}
    BY <1>1, <1>6 DEF ReceiveEnds, CallOK
  <2>2. CallOK(Finish(s))
    BY <2>1, FinishOK
  <2>3. QED BY <1>1, <1>6, <2>2, BecomesOK DEF ReceiveEnds
<1>7. CASE ReceiveData(c)
  <2>1. PICK t : t = [s EXCEPT !.got = @ + 1, !.from = @ \union {s.server}]
    OBVIOUS
  <2>2. /\ s.pc = "receive" /\ s.got < Enough
        /\ CallBecomes(c, IF t.got = Enough THEN Finish(t) ELSE t)
    BY <1>1, <1>7, <2>1 DEF ReceiveData
  <2>3. s.got + 1 \in 0..Enough /\ s.got + 1 > 0
    BY <2>2, CallTypes, EnoughIsPos
  <2>4. /\ t \in SuplCall /\ t.pc = "receive" /\ t.open = s.open /\ t.got = s.got + 1
        /\ t.server = s.server /\ t.from = s.from \union {s.server} /\ t.failed = s.failed
    BY <2>1, <2>2, <2>3 DEF SuplCall
  <2>5. s.open = 1 /\ s.failed = 1..(s.server - 1) /\ s.from \union {s.server} = {s.server}
    BY <1>1, <2>2 DEF CallOK
  <2>6. t.got # 0 /\ t.got > 0
    BY <2>3, <2>4
  <2>7. CallOK(t)
    BY <2>4, <2>5, <2>6 DEF CallOK
  <2>8. CallOK(Finish(t))
    BY <2>4, <2>5, <2>6, FinishOK
  <2>9. QED BY <2>2, <2>7, <2>8, BecomesOK
<1>8. QED BY <1>2, <1>3, <1>4, <1>5, <1>6, <1>7 DEF SuplStep

\* What the properties of the calls say follows from the invariant.
LEMMA CallProperties == CallsOK => OneServersData /\ SocketsClosed
<1>. SUFFICES ASSUME CallsOK PROVE OneServersData /\ SocketsClosed
  OBVIOUS
<1>1. ASSUME NEW c \in Callers, call[c].pc = "data"
      PROVE  call[c].got > 0 /\ Cardinality(call[c].from) = 1
  <2>1. PICK s \in SuplCall : s = call[c] /\ CallOK(s) /\ s.pc = "data"
    BY <1>1 DEF CallsOK
  <2>2. s.got > 0 /\ s.from = IF s.got = 0 THEN {} ELSE {s.server}
    BY <2>1 DEF CallOK
  <2>3. s.got # 0
    BY <2>2, CallTypes, EnoughIsPos
  <2>4. s.from = {s.server}
    BY <2>2, <2>3
  <2>5. QED BY <2>1, <2>2, <2>4, FS_Singleton
<1>2. SocketsClosed
  BY DEF SocketsClosed, CallsOK, CallOK
<1>3. QED BY <1>1, <1>2 DEF OneServersData

\* On its own, fetch_assistance_data returns what one server sent and leaves no socket
\* open, for any number of servers, calls and messages.
THEOREM SuplCorrect == SuplSpec => [](SuplTypeOK /\ OneServersData /\ SocketsClosed)
<1>1. SuplInit => CallsOK
  BY OffOK DEF SuplInit, CallsOK, CallOK
<1>2. CallsOK /\ [SuplNext]_call => CallsOK'
  <2>1. ASSUME CallsOK, SuplNext PROVE CallsOK'
    BY <2>1, StartOK, TakeOK, StepOK DEF SuplNext
  <2>2. ASSUME CallsOK, UNCHANGED call PROVE CallsOK'
    BY <2>2 DEF CallsOK
  <2>3. QED BY <2>1, <2>2
<1>3. CallsOK => SuplTypeOK /\ OneServersData /\ SocketsClosed
  BY CallProperties DEF SuplTypeOK, CallsOK
<1>4. QED BY <1>1, <1>2, <1>3, PTL DEF SuplSpec
=============================================================================
