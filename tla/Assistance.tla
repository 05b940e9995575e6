------------------------------- MODULE Assistance -------------------------------
(***************************************************************************)
(* A-GNSS delivery and cell location in one server process: they share the *)
(* threads of the default executor, which SUPL calls keep for up to half a *)
(* minute per server and publishes need, and they die together.            *)
(***************************************************************************)
EXTENDS AgnssDelivery, CellLocate

CONSTANT Workers  \* threads of the default executor

ASSUME WorkersIsPos == Workers \in Nat \ {0}

vars == <<agnssVars, locate>>

TypeOK == SuplTypeOK /\ AgnssTypeOK /\ CellTypeOK

Init == AgnssInit /\ CellInit

\* A crash loses the requests for a position too.
Crash ==
    /\ AgnssCrash
    /\ locate' = [c \in Locators |-> IF locate[c].pc \in {"parse", "resolve", "publish"}
                                     THEN Unasked("lost", "http") ELSE locate[c]]

\* Mutant of Busy: a request keeps a thread of its own while its SUPL call waits for one.
BusyNested ==
    {r \in Callers : job[r].pc \in {"supl", "publish"}}

\* Who holds a thread: SUPL calls and publishes of chunks.
Busy == {r \in Callers : \/ call[r].pc \in {"connect", "send", "receive"}
                         \/ job[r].pc = "publish"}

ThreadFree == Cardinality(Busy) < Workers

\* A queued SUPL call or publish of request r gets a thread.
GetsFreeThread(r) == ThreadFree /\ GetsThread(r) /\ UNCHANGED locate

\* The place found is published in the moment a thread is free for it.
AnswersPlace(c) == ThreadFree /\ (PublishPlace(c) \/ PublishPlaceFails(c)) /\ UNCHANGED agnssVars

AgnssMoves(r) == (JobMoves(r) \/ SuplMoves(r)) /\ UNCHANGED locate
CellMoves(c)  == CellStep(c) /\ UNCHANGED agnssVars

Asks ==
    \/ \E r \in Callers : \/ DropRequest(r)
                          \/ \E via \in {"http", "mqtt"} : Request(r, via)
       /\ UNCHANGED locate
    \/ \E c \in Locators, via \in {"http", "mqtt"} : AskPlace(c, via) /\ UNCHANGED agnssVars

Next ==
    \/ Asks
    \/ \E r \in Callers : AgnssMoves(r) \/ GetsFreeThread(r)
    \/ \E c \in Locators : CellMoves(c) \/ AnswersPlace(c)
    \/ Tick /\ UNCHANGED locate
    \/ Crash

Spec == Init /\ [][Next]_vars

\* The loop and the threads go on: every external call has a time limit.  The pool
\* serves its queue in order, so whatever waits gets a thread though others come.
FairSpec ==
    /\ Spec
    /\ \A r \in Callers : WF_vars(AgnssMoves(r)) /\ SF_vars(GetsFreeThread(r))
    /\ \A c \in Locators : WF_vars(CellMoves(c)) /\ SF_vars(AnswersPlace(c))

-----------------------------------------------------------------------------
(* Properties.                                                             *)

\* Every request for assistance data ends, over every path through the providers and
\* the pool, and every request for a position does, however long SUPL keeps threads.
RequestsEnd ==
    /\ \A r \in Callers : []<>~Running(r)
    /\ \A c \in Locators : []<>(locate[c].pc \in {"idle", "answered", "lost"})
=============================================================================
