------------------------------- MODULE CellLocate -------------------------------
(***************************************************************************)
(* A tracker has the server locate it by the cells it hears.  The request  *)
(* comes over HTTP, or over MQTT, where the paho thread schedules it on    *)
(* the loop; the configured providers are asked in turn; the answer goes   *)
(* back as the HTTP response, or is published by a pool thread.            *)
(***************************************************************************)
EXTENDS Naturals, Sequences

CONSTANTS
    Locators,   \* requests that may be under way
    Order,      \* the providers CELL_LOCATION_PROVIDER names, in turn
    Configured  \* those of them with an API key

Providers == {Order[i] : i \in DOMAIN Order}

ASSUME OrderIsSeq      == Order \in Seq(Providers)
ASSUME ConfiguredKnown == Configured \subseteq Providers
ASSUME NamesDiffer     == Providers \cap {"none", "invalid", "unavailable"} = {}

VARIABLE
    locate  \* the state of each request

Answers == Providers \union {"invalid", "unavailable"}
Locate == [pc     : {"idle", "parse", "resolve", "publish", "answered", "lost"},
           via    : {"http", "mqtt"},
           turn   : 1..Len(Order) + 1,          \* the provider asked next
           failed : SUBSET Providers,           \* history: those that were asked in vain
           answer : Answers \union {"none"}]

\* Type correctness: every request is in one of its steps.
CellTypeOK == locate \in [Locators -> Locate]

\* A request in which no provider was asked yet.
Unasked(pc, via) == [pc |-> pc, via |-> via, turn |-> 1, failed |-> {}, answer |-> "none"]

CellInit == locate = [r \in Locators |-> Unasked("idle", "http")]

LocateBecomes(r, l) == locate' = [locate EXCEPT ![r] = l]

\* POST /cell_location, or devices/{id}/cell_locate_request.
AskPlace(r, via) ==
    /\ locate[r].pc = "idle"
    /\ LocateBecomes(r, Unasked("parse", via))

\* How an answer leaves: the HTTP response at once, a publish by way of the pool.
ReplyPlace(l, a) ==
    [l EXCEPT !.pc = IF l.via = "http" THEN "answered" ELSE "publish", !.answer = a, !.turn = 1]

\* parse_cell_infos accepts the cells, or the model of the endpoint does.
ParseCells(r) ==
    /\ locate[r].pc = "parse"
    /\ LocateBecomes(r, [locate[r] EXCEPT !.pc = "resolve"])

\* No cells, or cells that do not parse: 400, or an invalid_request answer.
RejectCells(r) ==
    /\ locate[r].pc = "parse"
    /\ LocateBecomes(r, ReplyPlace(locate[r], "invalid"))

\* The provider whose turn it is has no key, and is passed over.
SkipProvider(r) ==
    /\ locate[r].pc = "resolve" /\ locate[r].turn <= Len(Order)
    /\ Order[locate[r].turn] \notin Configured
    /\ LocateBecomes(r, [locate[r] EXCEPT !.turn = @ + 1])

\* It answers with a position.
Located(r) ==
    /\ locate[r].pc = "resolve" /\ locate[r].turn <= Len(Order)
    /\ Order[locate[r].turn] \in Configured
    /\ LocateBecomes(r, ReplyPlace(locate[r], Order[locate[r].turn]))

\* Mutant of AfterFailure: the first provider that fails ends the search.
GiveUp(turn) == Len(Order) + 1

\* Mutant of AfterFailure: the search starts over with the first provider.
RoundRobin(turn) == IF turn = Len(Order) THEN 1 ELSE turn + 1

\* The loop over the providers goes on.
AfterFailure(turn) == turn + 1

\* It refuses, cannot be reached, or answers with something else than a position.
ProviderFails(r) ==
    /\ locate[r].pc = "resolve" /\ locate[r].turn <= Len(Order)
    /\ Order[locate[r].turn] \in Configured
    /\ LocateBecomes(r, [locate[r] EXCEPT !.turn = AfterFailure(@),
                                    !.failed = @ \union {Order[locate[r].turn]}])

\* CellLocateUnavailable: 503, or an unavailable answer.
PlaceUnavailable(r) ==
    /\ locate[r].pc = "resolve" /\ locate[r].turn > Len(Order)
    /\ LocateBecomes(r, ReplyPlace(locate[r], "unavailable"))

\* The answer is published on devices/{id}/cell_locate_response.
PublishPlace(r) ==
    /\ locate[r].pc = "publish"
    /\ LocateBecomes(r, [locate[r] EXCEPT !.pc = "answered"])

\* No connection to the broker: the publish is logged as failed and not tried again.
PublishPlaceFails(r) ==
    /\ locate[r].pc = "publish"
    /\ LocateBecomes(r, Unasked("lost", "http"))

CellStep(r) == \/ ParseCells(r) \/ RejectCells(r) \/ SkipProvider(r) \/ Located(r) \/ ProviderFails(r)
           \/ PlaceUnavailable(r)

CellNext == \E r \in Locators : \/ CellStep(r) \/ PublishPlace(r) \/ PublishPlaceFails(r)
                                \/ \E via \in {"http", "mqtt"} : AskPlace(r, via)

CellSpec == CellInit /\ [][CellNext]_locate

-----------------------------------------------------------------------------
(* Properties.                                                             *)

\* resolve_cell_location: a tracker is told that no position is to be had only after
\* every provider with a key was asked for this request in vain.
AllProvidersFailed ==
    \A r \in Locators : locate[r].answer = "unavailable" => Configured \subseteq locate[r].failed
=============================================================================
