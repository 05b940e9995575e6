------------------------------- MODULE SuplFetch -------------------------------
(***************************************************************************)
(* SUPLClient.fetch_assistance_data: a blocking call, each in a pool       *)
(* thread of its own, that tries the public SUPL servers in turn until one *)
(* of them has sent assistance data.                                       *)
(***************************************************************************)
EXTENDS Naturals, FiniteSets

CONSTANTS
    Callers,  \* calls that may be under way
    Servers,  \* how many servers SUPL_SERVERS lists
    Enough    \* how many assistance messages make up more than 100 bytes

ASSUME ServersIsPos == Servers \in Nat \ {0}
ASSUME EnoughIsPos  == Enough \in Nat \ {0}

VARIABLE
    call  \* the state of each call

Returned == {"data", "nothing"}
SuplCall == [pc     : {"off", "queued", "connect", "send", "receive"} \union Returned,
         server : 1..Servers,           \* the server being tried
         open   : 0..Servers,           \* sockets open
         got    : 0..Enough,            \* assistance messages accumulated
         from   : SUBSET (1..Servers),  \* history: the servers they came from
         failed : SUBSET (1..Servers)]  \* history: the servers that sent nothing

Off == [pc |-> "off", server |-> 1, open |-> 0, got |-> 0, from |-> {},
        failed |-> {}]

\* Type correctness: every call is in one of its steps.
SuplTypeOK == call \in [Callers -> SuplCall]

SuplInit == call = [c \in Callers |-> Off]

\* Mutant of Emptied: the buffer outlives the server it was filled from.
KeepBuffer(s) == s

\* assistance_data = bytearray() at the start of every attempt.
Emptied(s) == [s EXCEPT !.got = 0, !.from = {}]

\* Mutant of Closed: the socket is left to the garbage collector.
NotClosed(s) == s

\* sock.close()
Closed(s) == [s EXCEPT !.open = 0]

\* Mutant of Last: the loop ends one server early.
LastButOne(server) == server >= Servers - 1

\* Mutant of Last: the loop goes one server too far.
LastTooLate(server) == server > Servers

\* The loop over SUPL_SERVERS is at its end.
Last(server) == server = Servers

\* The attempt is over without data: the next server, or None.
Advance(s) ==
    LET t == [Emptied(s) EXCEPT !.failed = @ \union {s.server}] IN
    IF Last(s.server) THEN [t EXCEPT !.pc = "nothing"]
    ELSE [t EXCEPT !.pc = "connect", !.server = @ + 1]

CallBecomes(c, s) == call' = [call EXCEPT ![c] = s]

\* get_supl_assistance_data hands the call to a pool thread.
SuplStart(c) ==
    /\ call[c].pc \in {"off"} \union Returned
    /\ CallBecomes(c, [Off EXCEPT !.pc = "queued"])

\* A thread of the pool takes it.
TakeCall(c) ==
    /\ call[c].pc = "queued"
    /\ CallBecomes(c, [call[c] EXCEPT !.pc = "connect"])

\* The name resolves and one of its addresses accepts.
Connect(c) ==
    /\ call[c].pc = "connect"
    /\ CallBecomes(c, [call[c] EXCEPT !.pc = "send", !.open = @ + 1])

\* No address, or none that accepts; each socket tried was closed.
ConnectFails(c) ==
    /\ call[c].pc = "connect"
    /\ CallBecomes(c, Advance(call[c]))

\* SUPL START is sent.
SendStart(c) ==
    /\ call[c].pc = "send"
    /\ CallBecomes(c, [call[c] EXCEPT !.pc = "receive"])

SendFails(c) ==
    /\ call[c].pc = "send"
    /\ CallBecomes(c, Advance(Closed(call[c])))

\* The loop is left: whatever has come is the answer, nothing sends it on.
Finish(s) == IF s.got > 0 THEN [Closed(s) EXCEPT !.pc = "data"] ELSE Advance(Closed(s))

\* A body that is neither RESPONSE nor LOCATION REQUEST (these change nothing) nor END
\* is accumulated, whole or as far as recv returned it.  With enough of them SUPL END
\* is sent and the loop left.
ReceiveData(c) ==
    LET more == [call[c] EXCEPT !.got = @ + 1, !.from = @ \union {call[c].server}] IN
    /\ call[c].pc = "receive" /\ call[c].got < Enough
    /\ CallBecomes(c, IF more.got = Enough THEN Finish(more) ELSE more)

\* END, the end of the stream, a silent server, or the 30 seconds are over.
ReceiveEnds(c) ==
    /\ call[c].pc = "receive"
    /\ CallBecomes(c, Finish(call[c]))

\* The connection breaks, while receiving or while sending END: what was accumulated
\* is lost.
ReceiveFails(c) ==
    /\ call[c].pc = "receive"
    /\ CallBecomes(c, Advance(Closed(call[c])))

SuplStep(c) == \/ Connect(c) \/ ConnectFails(c) \/ SendStart(c) \/ SendFails(c)
           \/ ReceiveData(c) \/ ReceiveEnds(c) \/ ReceiveFails(c)

SuplNext == \E c \in Callers : SuplStart(c) \/ TakeCall(c) \/ SuplStep(c)

SuplSpec == SuplInit /\ [][SuplNext]_call

-----------------------------------------------------------------------------
(* Properties.                                                             *)

\* fetch_assistance_data never returns a mixture: what it returns came over one
\* connection, whatever earlier servers had sent before they failed.
OneServersData ==
    \A c \in Callers : call[c].pc = "data" => call[c].got > 0 /\ Cardinality(call[c].from) = 1

\* No way out of an attempt leaves its socket open.
SocketsClosed ==
    \A c \in Callers : call[c].open = IF call[c].pc \in {"send", "receive"} THEN 1 ELSE 0
=============================================================================
