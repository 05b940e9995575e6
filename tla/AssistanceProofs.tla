---------------------------- MODULE AssistanceProofs ----------------------------
(***************************************************************************)
(* The server process as a whole keeps what its parts promise: sharing the *)
(* pool only restrains their steps, and they meet nowhere else.            *)
(***************************************************************************)
EXTENDS Assistance, AgnssDeliveryProofs, CellLocateProofs

\* The invariants of the parts, side by side.
AssistanceInv == AgnssInv /\ LocatesOK

LEMMA AgnssStutters == AgnssInv /\ UNCHANGED agnssVars => AgnssInv'
BY DEF AgnssInv, agnssVars, CallsOK, CacheOK, JobsOK

LEMMA CellStutters == LocatesOK /\ UNCHANGED locate => LocatesOK'
BY DEF LocatesOK

LEMMA CellCrashOK == LocatesOK /\ Crash => LocatesOK'
<1>. SUFFICES ASSUME LocatesOK, Crash PROVE LocatesOK'
  OBVIOUS
<1>1. LocateOK(Unasked("lost", "http"))
  BY UnaskedOK
<1>2. \A c \in Locators :
         LocateOK(IF locate[c].pc \in {"parse", "resolve", "publish"}
                  THEN Unasked("lost", "http") ELSE locate[c])
  BY <1>1 DEF LocatesOK
<1>3. QED BY <1>2 DEF Crash, LocatesOK, LocateOK

LEMMA AssistanceStepOK ==
    ASSUME AssistanceInv, Next
    PROVE  AssistanceInv'
<1>. USE DEF AssistanceInv
<1>1. CASE Asks
  <2>1. CASE \E r \in Callers : DropRequest(r) \/ \E via \in {"http", "mqtt"} : Request(r, via)
    <3>1. AgnssInv'
      BY <2>1, RequestOK
    <3>2. CASE UNCHANGED locate
      BY <3>1, <3>2, CellStutters
    <3>3. CASE ~UNCHANGED locate
      <4>1. PICK c \in Locators, via \in {"http", "mqtt"} : AskPlace(c, via)
        BY <1>1, <3>3 DEF Asks
      <4>2. QED BY <3>1, <4>1, AskOK
    <3>4. QED BY <3>2, <3>3
  <2>2. CASE \E c \in Locators, via \in {"http", "mqtt"} :
                AskPlace(c, via) /\ UNCHANGED agnssVars
    BY <2>2, AskOK, AgnssStutters
  <2>3. QED BY <1>1, <2>1, <2>2 DEF Asks
<1>2. CASE \E r \in Callers : AgnssMoves(r) \/ GetsFreeThread(r)
  <2>1. AgnssInv'
    BY <1>2, JobMovesOK, SuplMovesOK, GetsThreadOK DEF AgnssMoves, GetsFreeThread
  <2>2. LocatesOK'
    BY <1>2, CellStutters DEF AgnssMoves, GetsFreeThread
  <2>3. QED BY <2>1, <2>2
<1>3. CASE \E c \in Locators : CellMoves(c) \/ AnswersPlace(c)
  <2>1. AgnssInv'
    BY <1>3, AgnssStutters DEF CellMoves, AnswersPlace
  <2>2. LocatesOK'
    BY <1>3, CellStepOK, PublishOK DEF CellMoves, AnswersPlace
  <2>3. QED BY <2>1, <2>2
<1>4. CASE Tick /\ UNCHANGED locate
  BY <1>4, TickOK, CellStutters
<1>5. CASE Crash
  BY <1>5, AgnssCrashOK, CellCrashOK DEF Crash
<1>6. QED BY <1>1, <1>2, <1>3, <1>4, <1>5 DEF Next

\* For any number of requests, servers, providers and threads: the types are right, SUPL
\* calls return one server's data and close their sockets, cached data is fresh, a
\* fulfilled request is whole, and nobody is turned away before every provider failed,
\* SUPL excepted where reading the cache raised.
THEOREM AssistanceCorrect ==
    Spec => [](/\ TypeOK /\ OneServersData /\ SocketsClosed /\ CachedIsFresh
               /\ FulfilledIsWhole /\ UnavailableMeansAllFailed /\ AllProvidersFailed)
<1>1. Init => AssistanceInv
  BY AgnssInitOK, UnaskedOK DEF Init, CellInit, AssistanceInv, LocatesOK, LocateOK
<1>2. AssistanceInv /\ [Next]_vars => AssistanceInv'
  BY AssistanceStepOK, AgnssStutters, CellStutters DEF AssistanceInv, vars
<1>3. AssistanceInv => /\ TypeOK /\ OneServersData /\ SocketsClosed /\ CachedIsFresh
                       /\ FulfilledIsWhole /\ UnavailableMeansAllFailed /\ AllProvidersFailed
  BY AgnssProperties, LocateProperties DEF AssistanceInv, TypeOK
<1>4. QED BY <1>1, <1>2, <1>3, PTL DEF Spec

\* Every variable of the process keeps its type: no step of one part, and no crash,
\* leaves a request, a call or the cache in a state the code has no name for.
THEOREM TypeOKHolds == Spec => []TypeOK
BY AssistanceCorrect, PTL

\* What a SUPL call returns came from one server over one connection: nothing a failed
\* server sent before is left in the buffer, however calls share the pool.
THEOREM OneServersDataHolds == Spec => []OneServersData
BY AssistanceCorrect, PTL

\* A SUPL call that is over has closed every socket it opened, by whichever return,
\* exception, continue or break it left an attempt.
THEOREM SocketsClosedHolds == Spec => []SocketsClosed
BY AssistanceCorrect, PTL

\* A request for assistance data is refused only after nRF Cloud, and every SUPL
\* server, has failed it, as far as the configuration allows them and reading the cache
\* did not raise before SUPL's turn.
THEOREM UnavailableHolds == Spec => []UnavailableMeansAllFailed
BY AssistanceCorrect, PTL
=============================================================================
