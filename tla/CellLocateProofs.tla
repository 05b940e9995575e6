---------------------------- MODULE CellLocateProofs ----------------------------
(***************************************************************************)
(* No request for a position is refused before every provider was asked.   *)
(***************************************************************************)
EXTENDS CellLocate, TLAPS

\* The inductive invariant of one request: the configured providers before its turn
\* failed for it, and all of them did if the answer is that there is no position.
LocateOK(l) ==
    /\ l \in Locate
    /\ l.pc \in {"parse", "resolve"} =>
          \A i \in 1..(l.turn - 1) : Order[i] \in Configured => Order[i] \in l.failed
    /\ l.answer = "unavailable" => Configured \subseteq l.failed

LocatesOK == locate \in [Locators -> Locate] /\ \A c \in Locators : LocateOK(locate[c])

LEMMA OrderLength == Len(Order) \in Nat /\ DOMAIN Order = 1..Len(Order)
BY OrderIsSeq

LEMMA UnaskedOK ==
    ASSUME NEW pc \in {"idle", "parse", "lost"}, NEW via \in {"http", "mqtt"}
    PROVE  LocateOK(Unasked(pc, via))
<1>1. PICK t : t = Unasked(pc, via)
  OBVIOUS
<1>2. t \in Locate /\ t.turn = 1 /\ t.answer = "none"
  BY <1>1, OrderLength DEF Locate, Unasked
<1>3. LocateOK(t)
  BY <1>2 DEF LocateOK
<1>4. QED BY <1>1, <1>3

\* The new state of one request leaves all of them right.
LEMMA LocateBecomesOK ==
    ASSUME LocatesOK, NEW c \in Locators, NEW l, LocateOK(l), LocateBecomes(c, l)
    PROVE  LocatesOK'
BY DEF LocatesOK, LocateOK, LocateBecomes

\* A reply keeps what failed; only "unavailable" says something of it.
LEMMA ReplyOK ==
    ASSUME NEW l \in Locate, NEW a \in Answers, a = "unavailable" => Configured \subseteq l.failed
    PROVE  LocateOK(ReplyPlace(l, a))
<1>1. PICK pc \in {"answered", "publish"} : pc = IF l.via = "http" THEN "answered" ELSE "publish"
  OBVIOUS
<1>2. PICK t : t = [l EXCEPT !.pc = pc, !.answer = a, !.turn = 1]
  OBVIOUS
<1>3. t = ReplyPlace(l, a)
  BY <1>1, <1>2 DEF ReplyPlace
<1>4. 1 \in 1..(Len(Order) + 1)
  BY OrderLength
<1>5. /\ t \in Locate /\ t.pc = pc /\ t.answer = a /\ t.failed = l.failed
  BY <1>2, <1>4 DEF Locate
<1>6. QED BY <1>3, <1>5 DEF LocateOK

LEMMA AskOK ==
    ASSUME LocatesOK, NEW c \in Locators, NEW via \in {"http", "mqtt"}, AskPlace(c, via)
    PROVE  LocatesOK'
BY UnaskedOK, LocateBecomesOK DEF AskPlace

LEMMA PublishOK ==
    ASSUME LocatesOK, NEW c \in Locators, PublishPlace(c) \/ PublishPlaceFails(c)
    PROVE  LocatesOK'
<1>1. CASE PublishPlace(c)
  <2>1. PICK l \in Locate : l = locate[c] /\ LocateOK(l)
    BY DEF LocatesOK
  <2>2. PICK t : t = [l EXCEPT !.pc = "answered"]
    OBVIOUS
  <2>3. t \in Locate /\ t.pc = "answered" /\ t.answer = l.answer /\ t.failed = l.failed
    BY <2>2 DEF Locate
  <2>4. LocateOK(t)
    BY <2>1, <2>3 DEF LocateOK
  <2>5. QED BY <1>1, <2>1, <2>2, <2>4, LocateBecomesOK DEF PublishPlace
<1>2. CASE PublishPlaceFails(c)
  BY <1>2, UnaskedOK, LocateBecomesOK DEF PublishPlaceFails
<1>3. QED BY <1>1, <1>2

\* Every other step of a request keeps the invariant.
LEMMA CellStepOK ==
    ASSUME LocatesOK, NEW c \in Locators, CellStep(c)
    PROVE  LocatesOK'
<1>1. PICK l \in Locate : l = locate[c] /\ LocateOK(l)
  BY DEF LocatesOK
<1>2. l.turn \in 1..(Len(Order) + 1) /\ l.failed \in SUBSET Providers
  BY DEF Locate
<1>3. CASE ParseCells(c)
  <2>1. PICK t : t = [l EXCEPT !.pc = "resolve"]
    OBVIOUS
  <2>2. t \in Locate /\ t.pc = "resolve" /\ t.turn = l.turn /\ t.answer = l.answer /\ t.failed = l.failed
    BY <2>1 DEF Locate
  <2>3. LocateOK(t)
    BY <1>1, <1>3, <2>2, Zenon DEF LocateOK, ParseCells
  <2>4. QED BY <1>1, <1>3, <2>1, <2>3, LocateBecomesOK DEF ParseCells
<1>4. CASE RejectCells(c)
  <2>1. "invalid" \in Answers
    BY DEF Answers
  <2>2. LocateOK(ReplyPlace(l, "invalid"))
    BY <2>1, ReplyOK
  <2>3. QED BY <1>1, <1>4, <2>2, LocateBecomesOK DEF RejectCells
<1>5. ASSUME l.pc = "resolve", l.turn <= Len(Order), NEW f \in SUBSET Providers,
             l.failed \subseteq f, Order[l.turn] \in Configured => Order[l.turn] \in f,
             NEW t, t = [l EXCEPT !.turn = l.turn + 1, !.failed = f]
      PROVE  LocateOK(t)
  <2>1. l.turn + 1 \in 1..(Len(Order) + 1)
    BY <1>2, <1>5, OrderLength
  <2>2. t \in Locate /\ t.pc = "resolve" /\ t.turn = l.turn + 1 /\ t.answer = l.answer /\ t.failed = f
    BY <1>5, <2>1 DEF Locate
  <2>3. ASSUME NEW i \in 1..(t.turn - 1), Order[i] \in Configured
        PROVE  Order[i] \in f
    <3>1. i = l.turn \/ i \in 1..(l.turn - 1)
      BY <1>2, <2>2, OrderLength
    <3>2. QED BY <1>1, <1>5, <2>3, <3>1 DEF LocateOK
  <2>4. QED BY <1>1, <1>5, <2>2, <2>3 DEF LocateOK
<1>6. CASE SkipProvider(c)
  <2>1. PICK t : t = [l EXCEPT !.turn = @ + 1]
    OBVIOUS
  <2>2. t = [l EXCEPT !.turn = l.turn + 1, !.failed = l.failed]
    BY <2>1 DEF Locate
  <2>3. l.pc = "resolve" /\ l.turn <= Len(Order) /\ Order[l.turn] \notin Configured
    BY <1>1, <1>6 DEF SkipProvider
  <2>4. LocateOK(t)
    BY <1>2, <1>5, <2>2, <2>3
  <2>5. QED BY <1>1, <1>6, <2>1, <2>4, LocateBecomesOK DEF SkipProvider
<1>7. CASE ProviderFails(c)
  <2>1. PICK f : f = l.failed \union {Order[l.turn]}
    OBVIOUS
  <2>2. PICK t : t = [l EXCEPT !.turn = l.turn + 1, !.failed = f]
    OBVIOUS
  <2>3. l.pc = "resolve" /\ l.turn <= Len(Order) /\ LocateBecomes(c, t)
    BY <1>1, <1>7, <2>1, <2>2 DEF ProviderFails, AfterFailure
  <2>4. Order[l.turn] \in Providers
    BY <1>2, <2>3, OrderLength DEF Providers
  <2>5. f \in SUBSET Providers /\ l.failed \subseteq f /\ Order[l.turn] \in f
    BY <1>2, <2>1, <2>4
  <2>6. LocateOK(t)
    BY <1>5, <2>2, <2>3, <2>5
  <2>7. QED BY <2>3, <2>6, LocateBecomesOK
<1>8. CASE Located(c)
  <2>1. l.turn <= Len(Order) /\ LocateBecomes(c, ReplyPlace(l, Order[l.turn]))
    BY <1>1, <1>8 DEF Located
  <2>2. Order[l.turn] \in Providers
    BY <1>2, <2>1, OrderLength DEF Providers
  <2>3. Order[l.turn] \in Answers /\ Order[l.turn] # "unavailable"
    BY <2>2, NamesDiffer DEF Answers
  <2>4. LocateOK(ReplyPlace(l, Order[l.turn]))
    BY <2>3, ReplyOK
  <2>5. QED BY <2>1, <2>4, LocateBecomesOK
<1>9. CASE PlaceUnavailable(c)
  <2>1. l.pc = "resolve" /\ l.turn > Len(Order) /\ LocateBecomes(c, ReplyPlace(l, "unavailable"))
    BY <1>1, <1>9 DEF PlaceUnavailable
  <2>2. ASSUME NEW p \in Configured PROVE p \in l.failed
    <3>1. PICK i \in 1..Len(Order) : p = Order[i]
      BY ConfiguredKnown, OrderLength DEF Providers
    <3>2. i \in 1..(l.turn - 1)
      BY <1>2, <2>1, OrderLength
    <3>3. QED BY <1>1, <2>1, <2>2, <3>1, <3>2 DEF LocateOK
  <2>3. LocateOK(ReplyPlace(l, "unavailable"))
    BY <2>2, ReplyOK DEF Answers
  <2>4. QED BY <2>1, <2>3, LocateBecomesOK
<1>10. QED BY <1>3, <1>4, <1>6, <1>7, <1>8, <1>9 DEF CellStep

LEMMA LocateProperties == LocatesOK => CellTypeOK /\ AllProvidersFailed
BY DEF LocatesOK, LocateOK, CellTypeOK, AllProvidersFailed

\* A tracker is told that there is no position only after every provider with a key
\* failed for it, for any list of providers and any number of requests.
THEOREM CellCorrect == CellSpec => [](CellTypeOK /\ AllProvidersFailed)
<1>1. CellInit => LocatesOK
  BY UnaskedOK DEF CellInit, LocatesOK, LocateOK
<1>2. LocatesOK /\ [CellNext]_locate => LocatesOK'
  <2>1. ASSUME LocatesOK, CellNext PROVE LocatesOK'
    BY <2>1, AskOK, PublishOK, CellStepOK DEF CellNext
  <2>2. ASSUME LocatesOK, UNCHANGED locate PROVE LocatesOK'
    BY <2>2 DEF LocatesOK
  <2>3. QED BY <2>1, <2>2
<1>3. QED BY <1>1, <1>2, LocateProperties, PTL DEF CellSpec
=============================================================================
