-------------------------- MODULE DeviceLifecycleProofs --------------------------
(***************************************************************************)
(* The reset handshake stays honest over lives, lost and repeated acks;    *)
(* registrations that do not overlap keep every block of the ACL file.     *)
(***************************************************************************)
EXTENDS DeviceLifecycle, TLAPS

LifeTypes ==
    /\ row \in [Devices -> Row \union {None}]
    /\ links \in [Devices -> SUBSET Users]
    /\ retained \in [Devices -> Notice \union {None}]
    /\ acks \in SUBSET Ack
    /\ resets \in [Devices -> {0} \union Tokens]
    /\ lives \in [Devices -> {0} \union Lives]
    /\ obeyed \in [Devices -> {0} \union Tokens]
    /\ crossed \in SUBSET Devices

FileTypes ==
    /\ passwd \in [Devices -> {0} \union Lives]
    /\ acl \in SUBSET Devices
    /\ reg \in [Registrations -> Provisioning]
    /\ hurt \in SUBSET Devices

\* A row's requests were counted, and only a device with a row has links.
RowsOK ==
    /\ \A d \in Devices : Registered(d) => row[d].requested <= resets[d] /\ lives[d] # 0
    /\ \A d \in Devices : links[d] # {} => Registered(d)

\* No retained message and no ack comes from a life that is still to come, and an ack
\* of this life was sent for a reset that was obeyed in it.
NoticesOK == \A d \in Devices : retained[d] # None => retained[d].life <= lives[d]
AcksOK ==
    \A a \in acks : /\ a.life <= lives[a.dev]
                    /\ a.life = lives[a.dev] => a.token <= obeyed[a.dev]

\* The inductive invariant of the handshake.
LifeInv == LifeTypes /\ RowsOK /\ NoticesOK /\ AcksOK /\ AppliedWasObeyed

lifeVars == <<row, links, retained, acks, resets, historyVars>>

-----------------------------------------------------------------------------
(* The bounds, and the values they allow.                                  *)

LEMMA SetsOfNat == Lives \subseteq Nat /\ Tokens \subseteq Nat /\ 0 \notin Lives
BY BoundsAreNat DEF Lives, Tokens

LEMMA NextLife ==
    ASSUME NEW d \in Devices, NEW n \in Nat, n < MaxLives[d]
    PROVE  n + 1 \in Lives
<1>1. n + 1 \in 1..MaxLives[d]
  BY BoundsAreNat
<1>2. QED BY <1>1 DEF Lives

LEMMA NextReset ==
    ASSUME NEW d \in Devices, NEW n \in Nat, n < MaxResets[d]
    PROVE  n + 1 \in Tokens
<1>1. n + 1 \in 1..MaxResets[d]
  BY BoundsAreNat
<1>2. QED BY <1>1 DEF Tokens

LEMMA Types == TypeOK <=> LifeTypes /\ FileTypes
BY DEF TypeOK, LifeTypes, FileTypes

LEMMA LifeIsNat == ASSUME NEW n \in {0} \union Lives PROVE n \in Nat
BY SetsOfNat

LEMMA TokenIsNat == ASSUME NEW n \in {0} \union Tokens PROVE n \in Nat
BY SetsOfNat

\* The counters of a device are numbers.
LEMMA Numbers ==
    ASSUME LifeTypes, NEW d \in Devices
    PROVE  lives[d] \in Nat /\ resets[d] \in Nat /\ obeyed[d] \in Nat
<1>1. lives[d] \in {0} \union Lives /\ resets[d] \in {0} \union Tokens /\ obeyed[d] \in {0} \union Tokens
  BY DEF LifeTypes
<1>2. QED BY <1>1, LifeIsNat, TokenIsNat

LEMMA RowNumbers == ASSUME NEW r \in Row PROVE r.requested \in Nat /\ r.applied \in Nat
<1>1. r.requested \in {0} \union Tokens /\ r.applied \in {0} \union Tokens
  BY DEF Row
<1>2. QED BY <1>1, TokenIsNat

LEMMA NoticeNumbers ==
    ASSUME NEW n \in Notice PROVE n.life \in Nat /\ n.requested \in Nat /\ n.applied \in Nat
<1>1. /\ n.life \in {0} \union Lives /\ n.requested \in {0} \union Tokens
      /\ n.applied \in {0} \union Tokens
  BY DEF Notice
<1>2. QED BY <1>1, TokenIsNat, LifeIsNat

LEMMA AckNumbers == ASSUME NEW a \in Ack PROVE a.dev \in Devices /\ a.life \in Nat /\ a.token \in Nat
<1>1. a.dev \in Devices /\ a.life \in {0} \union Lives /\ a.token \in {0} \union Tokens
  BY DEF Ack
<1>2. QED BY <1>1, TokenIsNat, LifeIsNat

LEMMA RowIsNotNone == None \notin Row
<1>1. SUFFICES ASSUME None \in Row PROVE FALSE
  OBVIOUS
<1>2. None.requested \in Nat /\ None.applied \in Nat
  BY <1>1, RowNumbers
<1>3. None = [requested |-> None.requested, applied |-> None.applied]
  BY <1>1 DEF Row
<1>4. QED BY <1>2, <1>3, NoneIsNothing

LEMMA NoticeIsNotNone == None \notin Notice
<1>1. SUFFICES ASSUME None \in Notice PROVE FALSE
  OBVIOUS
<1>2. None.life \in Nat /\ None.requested \in Nat /\ None.applied \in Nat
  BY <1>1, NoticeNumbers
<1>3. None = [life |-> None.life, requested |-> None.requested, applied |-> None.applied]
  BY <1>1 DEF Notice
<1>4. QED BY <1>2, <1>3, NoneIsNoNotice

-----------------------------------------------------------------------------
(* The handshake: one lemma for each action that moves it.                 *)

LEMMA LifeStutters == LifeInv /\ UNCHANGED lifeVars => LifeInv'
BY DEF LifeInv, lifeVars, historyVars, LifeTypes, RowsOK, Registered, NoticesOK, AcksOK,
       AppliedWasObeyed

\* A new life starts with nothing applied, and what is on its way is of an earlier one.
LEMMA RegisterOK ==
    ASSUME LifeInv, NEW g \in Registrations, NEW d \in Devices, Register(g, d)
    PROVE  LifeInv'
<1>1. lives[d] \in Nat /\ resets[d] \in Nat
  BY Numbers DEF LifeInv
<1>2. PICK r : r = [requested |-> 0, applied |-> 0]
  OBVIOUS
<1>3. r \in Row /\ r.requested = 0 /\ r.applied = 0 /\ r # None
  BY <1>2, RowIsNotNone DEF Row
<1>4. PICK n : n = lives[d] + 1
  OBVIOUS
<1>5. n \in Lives /\ n # 0 /\ lives[d] < n /\ n \in Nat
  BY <1>1, <1>4, NextLife DEF Register
<1>6. /\ row' = [row EXCEPT ![d] = r] /\ lives' = [lives EXCEPT ![d] = n]
      /\ obeyed' = [obeyed EXCEPT ![d] = 0] /\ crossed' = crossed \ {d}
      /\ UNCHANGED <<links, retained, acks, resets>>
  BY <1>2, <1>4 DEF Register
<1>7. LifeTypes'
  BY <1>3, <1>5, <1>6 DEF LifeInv, LifeTypes
<1>8. /\ row'[d] = r /\ lives'[d] = n /\ obeyed'[d] = 0 /\ d \notin crossed'
      /\ \A e \in Devices \ {d} : /\ row'[e] = row[e] /\ lives'[e] = lives[e]
                                 /\ obeyed'[e] = obeyed[e] /\ (e \in crossed' <=> e \in crossed)
  BY <1>6 DEF LifeInv, LifeTypes
<1>9. RowsOK'
  <2>1. \A e \in Devices : Registered(e)' => row'[e].requested <= resets[e] /\ lives'[e] # 0
    BY <1>1, <1>3, <1>5, <1>8 DEF LifeInv, RowsOK, Registered
  <2>2. \A e \in Devices : links[e] # {} => Registered(e)'
    BY <1>3, <1>8 DEF LifeInv, RowsOK, Registered
  <2>3. QED BY <1>6, <2>1, <2>2 DEF RowsOK
<1>10. NoticesOK'
  <2>1. ASSUME NEW e \in Devices, retained[e] # None PROVE retained[e].life <= lives'[e]
    <3>1. retained[e] \in Notice /\ retained[e].life <= lives[e]
      BY <2>1 DEF LifeInv, LifeTypes, NoticesOK
    <3>2. retained[e].life \in Nat /\ lives[e] \in Nat
      BY <3>1, NoticeNumbers, Numbers DEF LifeInv
    <3>3. QED BY <1>1, <1>5, <1>8, <3>1, <3>2
  <2>2. QED BY <1>6, <2>1 DEF NoticesOK
<1>11. AcksOK'
  <2>1. ASSUME NEW a \in acks
        PROVE  a.life <= lives'[a.dev] /\ (a.life = lives'[a.dev] => a.token <= obeyed'[a.dev])
    <3>1. a \in Ack /\ a.life <= lives[a.dev] /\ (a.life = lives[a.dev] => a.token <= obeyed[a.dev])
      BY DEF LifeInv, LifeTypes, AcksOK
    <3>2. a.dev \in Devices /\ a.life \in Nat
      BY <3>1, AckNumbers
    <3>3. CASE a.dev = d
      BY <1>1, <1>5, <1>8, <3>1, <3>2, <3>3
    <3>4. CASE a.dev # d
      BY <1>8, <3>1, <3>2, <3>4
    <3>5. QED BY <3>3, <3>4
  <2>2. QED BY <1>6, <2>1 DEF AcksOK
<1>12. AppliedWasObeyed'
  BY <1>3, <1>8 DEF LifeInv, AppliedWasObeyed, Registered
<1>13. QED BY <1>7, <1>9, <1>10, <1>11, <1>12 DEF LifeInv

LEMMA LinkOK ==
    ASSUME LifeInv, NEW u \in Users, NEW d \in Devices, Link(u, d)
    PROVE  LifeInv'
<1>1. LifeTypes'
  BY DEF LifeInv, LifeTypes, Link, historyVars
<1>2. RowsOK'
  BY DEF LifeInv, LifeTypes, RowsOK, Registered, Link, historyVars
<1>3. NoticesOK' /\ AcksOK' /\ AppliedWasObeyed'
  BY DEF LifeInv, NoticesOK, AcksOK, AppliedWasObeyed, Registered, Link, historyVars
<1>4. QED BY <1>1, <1>2, <1>3 DEF LifeInv

LEMMA DeleteAllOK ==
    ASSUME LifeInv, NEW u \in Users, DeleteAll(u)
    PROVE  LifeInv'
<1>1. LifeTypes'
  BY DEF LifeInv, LifeTypes, DeleteAll, historyVars
<1>2. \A d \in Devices : Registered(d)' => Registered(d) /\ row'[d] = row[d]
  BY DEF Registered, DeleteAll
<1>3. \A d \in Devices : links'[d] # {} => links[d] # {} /\ row'[d] = row[d]
  BY DEF DeleteAll
<1>4. RowsOK'
  BY <1>2, <1>3 DEF LifeInv, RowsOK, Registered, DeleteAll, historyVars
<1>5. NoticesOK' /\ AcksOK'
  BY DEF LifeInv, NoticesOK, AcksOK, DeleteAll, historyVars
<1>6. AppliedWasObeyed'
  BY <1>2 DEF LifeInv, AppliedWasObeyed, DeleteAll, historyVars
<1>7. QED BY <1>1, <1>4, <1>5, <1>6 DEF LifeInv

LEMMA LargerIs ==
    ASSUME NEW a \in Nat, NEW b \in Nat
    PROVE  Larger(a, b) \in {a, b} /\ a <= Larger(a, b) /\ b <= Larger(a, b)
BY DEF Larger

\* What is retained is of the life that is.
LEMMA PublishOK ==
    ASSUME LifeInv, NEW d \in Devices, NEW r \in Row, lives[d] # 0, Publish(d, r), UNCHANGED lives
    PROVE  retained' \in [Devices -> Notice \union {None}] /\ NoticesOK'
<1>1. CASE UNCHANGED retained
  BY <1>1 DEF LifeInv, LifeTypes, NoticesOK
<1>2. CASE ~UNCHANGED retained
  <2>1. PICK n : n = [life |-> lives[d], requested |-> r.requested, applied |-> r.applied]
    OBVIOUS
  <2>2. lives[d] \in Lives /\ lives[d] <= lives[d]
    BY Numbers DEF LifeInv, LifeTypes
  <2>3. n \in Notice /\ n.life = lives[d]
    BY <2>1, <2>2 DEF Row, Notice
  <2>4. retained' = [retained EXCEPT ![d] = n]
    BY <1>2, <2>1 DEF Publish
  <2>5. QED BY <2>2, <2>3, <2>4 DEF LifeInv, LifeTypes, NoticesOK
<1>3. QED BY <1>1, <1>2

LEMMA RequestResetOK ==
    ASSUME LifeInv, NEW u \in Users, NEW d \in Devices, RequestReset(u, d)
    PROVE  LifeInv'
<1>1. row[d] \in Row /\ row[d].requested <= resets[d] /\ lives[d] # 0 /\ Registered(d)
  BY DEF LifeInv, LifeTypes, RowsOK, Registered, RequestReset
<1>2. row[d].requested \in Nat /\ resets[d] \in Nat
  BY <1>1, RowNumbers, Numbers DEF LifeInv
<1>3. MaxResets[d] \in Nat
  BY BoundsAreNat
<1>4. PICK t : t = row[d].requested + 1
  OBVIOUS
<1>5. t \in Tokens /\ resets[d] + 1 \in Tokens /\ t <= resets[d] + 1
  BY <1>1, <1>2, <1>3, <1>4, NextReset DEF RequestReset
<1>6. PICK r : r = [row[d] EXCEPT !.requested = t]
  OBVIOUS
<1>7. r \in Row /\ r.requested = t /\ r.applied = row[d].applied /\ r # None
  BY <1>1, <1>5, <1>6, RowIsNotNone DEF Row
<1>8. /\ row' = [row EXCEPT ![d] = r] /\ resets' = [resets EXCEPT ![d] = resets[d] + 1]
      /\ Publish(d, row'[d]) /\ UNCHANGED <<links, acks, lives, obeyed, crossed>>
  BY <1>4, <1>6 DEF RequestReset, NextToken, historyVars
<1>9. /\ row'[d] = r /\ resets'[d] = resets[d] + 1
      /\ \A e \in Devices \ {d} : row'[e] = row[e] /\ resets'[e] = resets[e]
  BY <1>8 DEF LifeInv, LifeTypes
<1>10. retained' \in [Devices -> Notice \union {None}] /\ NoticesOK'
  BY <1>1, <1>7, <1>8, <1>9, PublishOK
<1>11. LifeTypes'
  BY <1>5, <1>7, <1>8, <1>10 DEF LifeInv, LifeTypes
<1>12. RowsOK'
  <2>1. \A e \in Devices : Registered(e)' => row'[e].requested <= resets'[e] /\ lives[e] # 0
    BY <1>1, <1>5, <1>7, <1>9 DEF LifeInv, RowsOK, Registered
  <2>2. \A e \in Devices : links[e] # {} => Registered(e)'
    BY <1>7, <1>9 DEF LifeInv, RowsOK, Registered
  <2>3. QED BY <1>8, <2>1, <2>2 DEF RowsOK
<1>13. AcksOK'
  BY <1>8 DEF LifeInv, AcksOK
<1>14. AppliedWasObeyed'
  BY <1>1, <1>7, <1>8, <1>9 DEF LifeInv, AppliedWasObeyed, Registered
<1>15. QED BY <1>10, <1>11, <1>12, <1>13, <1>14 DEF LifeInv

LEMMA UpdateTrackingOK ==
    ASSUME LifeInv, NEW u \in Users, NEW d \in Devices, UpdateTracking(u, d)
    PROVE  LifeInv'
<1>1. row[d] \in Row /\ lives[d] # 0
  BY DEF LifeInv, LifeTypes, RowsOK, Registered, UpdateTracking
<1>2. Publish(d, row[d]) /\ UNCHANGED <<row, links, acks, resets, lives, obeyed, crossed>>
  BY DEF UpdateTracking, historyVars
<1>3. retained' \in [Devices -> Notice \union {None}] /\ NoticesOK'
  BY <1>1, <1>2, PublishOK
<1>4. LifeTypes'
  BY <1>2, <1>3 DEF LifeInv, LifeTypes
<1>5. RowsOK' /\ AcksOK' /\ AppliedWasObeyed'
  BY <1>2 DEF LifeInv, RowsOK, Registered, AcksOK, AppliedWasObeyed
<1>6. QED BY <1>3, <1>4, <1>5 DEF LifeInv

\* The tracker obeys what is at most of the life it is in.
LEMMA ObeyOK ==
    ASSUME LifeInv, NEW d \in Devices, NEW life \in Lives, life <= lives[d],
           NEW r, r.requested \in {0} \union Tokens, r.applied \in Nat, Obey(d, life, r),
           UNCHANGED <<row, links, retained, resets, lives, crossed>>
    PROVE  LifeInv'
<1>01. PICK t : t = r.requested
  OBVIOUS
<1>02. t \in {0} \union Tokens /\ t > r.applied
  BY <1>01 DEF Obey
<1>03. t \in Nat
  BY <1>02, TokenIsNat
<1>04. t # 0
  BY <1>02, <1>03
<1>1. t = r.requested /\ t \in Nat /\ t \in Tokens
  BY <1>01, <1>02, <1>03, <1>04
<1>2. PICK a \in Ack : a.dev = d /\ a.life = life /\ a.token = t /\ acks' = acks \union {a}
  BY <1>1 DEF Obey, Ack
<1>3. obeyed[d] \in Nat /\ lives[d] \in Nat
  BY Numbers DEF LifeInv
<1>4. PICK o : o = Larger(obeyed[d], t)
  OBVIOUS
<1>5. o \in {0} \union Tokens /\ o \in Nat /\ obeyed[d] <= o /\ t <= o
  BY <1>1, <1>3, <1>4, LargerIs DEF LifeInv, LifeTypes
<1>6. obeyed' = IF life = lives[d] THEN [obeyed EXCEPT ![d] = o] ELSE obeyed
  BY <1>1, <1>4 DEF Obey
<1>7. /\ obeyed[d] <= obeyed'[d] /\ obeyed'[d] \in Nat
      /\ life = lives[d] => t <= obeyed'[d]
      /\ \A e \in Devices \ {d} : obeyed'[e] = obeyed[e]
  BY <1>3, <1>5, <1>6 DEF LifeInv, LifeTypes
<1>8. LifeTypes'
  BY <1>2, <1>5, <1>6 DEF LifeInv, LifeTypes
<1>9. RowsOK' /\ NoticesOK'
  BY DEF LifeInv, RowsOK, Registered, NoticesOK
<1>10. AcksOK'
  <2>1. ASSUME NEW b \in acks'
        PROVE  b.life <= lives[b.dev] /\ (b.life = lives[b.dev] => b.token <= obeyed'[b.dev])
    <3>1. CASE b = a
      BY <1>2, <1>7, <3>1
    <3>2. CASE b \in acks
      <4>1. b \in Ack /\ b.life <= lives[b.dev] /\ (b.life = lives[b.dev] => b.token <= obeyed[b.dev])
        BY <3>2 DEF LifeInv, LifeTypes, AcksOK
      <4>2. b.dev \in Devices /\ b.token \in Nat
        BY <4>1, AckNumbers
      <4>3. QED BY <1>3, <1>7, <4>1, <4>2
    <3>3. QED BY <1>2, <3>1, <3>2
  <2>2. QED BY <2>1 DEF AcksOK
<1>11. AppliedWasObeyed'
  <2>1. ASSUME NEW e \in Devices, Registered(e), e \notin crossed PROVE row[e].applied <= obeyed'[e]
    <3>1. row[e] \in Row /\ row[e].applied <= obeyed[e]
      BY <2>1 DEF LifeInv, LifeTypes, AppliedWasObeyed, Registered
    <3>2. row[e].applied \in Nat
      BY <3>1, RowNumbers
    <3>3. QED BY <1>3, <1>7, <3>1, <3>2
  <2>2. QED BY <2>1 DEF AppliedWasObeyed, Registered
<1>12. QED BY <1>8, <1>9, <1>10, <1>11 DEF LifeInv

LEMMA PollOK ==
    ASSUME LifeInv, NEW d \in Devices, Poll(d)
    PROVE  LifeInv'
<1>1. row[d] \in Row /\ lives[d] \in Lives
  BY DEF LifeInv, LifeTypes, RowsOK, Registered, Poll
<1>2. row[d].requested \in {0} \union Tokens /\ row[d].applied \in Nat
  BY <1>1, RowNumbers DEF Row
<1>3. lives[d] <= lives[d]
  BY Numbers DEF LifeInv
<1>4. QED BY <1>1, <1>2, <1>3, ObeyOK DEF Poll

LEMMA HearRetainedOK ==
    ASSUME LifeInv, NEW d \in Devices, HearRetained(d)
    PROVE  LifeInv'
<1>1. retained[d] \in Notice /\ retained[d].life <= lives[d]
  BY DEF LifeInv, LifeTypes, NoticesOK, HearRetained
<1>2. /\ retained[d].life \in Lives /\ retained[d].requested \in {0} \union Tokens
      /\ retained[d].applied \in Nat
  BY <1>1, NoticeNumbers DEF Notice
<1>3. QED BY <1>1, <1>2, ObeyOK DEF HearRetained

\* A late ack may cross lives, which is recorded; otherwise it names an obeyed token.
LEMMA AckResetOK ==
    ASSUME LifeInv, NEW a \in Ack, AckReset(a)
    PROVE  LifeInv'
<1>1. PICK d \in Devices : d = a.dev
  BY AckNumbers
<1>2. row[d] \in Row /\ a \in acks /\ Registered(d)
  BY <1>1 DEF LifeInv, LifeTypes, Registered, AckReset
<1>3. row[d].requested \in Nat /\ row[d].applied \in Nat /\ a.token \in Nat
  BY <1>2, RowNumbers, AckNumbers
<1>4. PICK t : t = Larger(row[d].applied, a.token)
  OBVIOUS
<1>5. t \in {row[d].applied, a.token} /\ t \in {0} \union Tokens
  BY <1>2, <1>3, <1>4, LargerIs DEF Row, Ack
<1>6. PICK r : r = [row[d] EXCEPT !.applied = t]
  OBVIOUS
<1>7. r \in Row /\ r.requested = row[d].requested /\ r.applied = t /\ r # None
  BY <1>2, <1>5, <1>6, RowIsNotNone DEF Row
<1>8. /\ row' = [row EXCEPT ![d] = r] /\ acks' \subseteq acks
      /\ crossed' = (IF a.life = lives[d] THEN crossed ELSE crossed \union {d})
      /\ UNCHANGED <<links, retained, resets, lives, obeyed>>
  BY <1>1, <1>4, <1>6 DEF AckReset, Applied
<1>9. row'[d] = r /\ \A e \in Devices \ {d} : row'[e] = row[e]
  BY <1>8 DEF LifeInv, LifeTypes
<1>10. LifeTypes'
  BY <1>7, <1>8 DEF LifeInv, LifeTypes
<1>11. RowsOK'
  BY <1>2, <1>7, <1>8, <1>9 DEF LifeInv, RowsOK, Registered
<1>12. NoticesOK' /\ AcksOK'
  BY <1>8 DEF LifeInv, NoticesOK, AcksOK
<1>13. AppliedWasObeyed'
  <2>1. CASE d \in crossed'
    BY <1>8, <1>9, <2>1 DEF LifeInv, AppliedWasObeyed, Registered
  <2>2. CASE d \notin crossed'
    <3>1. a.life = lives[d] /\ d \notin crossed /\ crossed' = crossed
      BY <1>8, <2>2
    <3>2. row[d].applied <= obeyed[d] /\ a.token <= obeyed[d]
      BY <1>1, <1>2, <3>1 DEF LifeInv, AppliedWasObeyed, AcksOK
    <3>3. t <= obeyed[d]
      BY <1>5, <3>2
    <3>4. QED BY <1>7, <1>8, <1>9, <3>1, <3>3 DEF LifeInv, AppliedWasObeyed, Registered
  <2>3. QED BY <2>1, <2>2
<1>14. QED BY <1>10, <1>11, <1>12, <1>13 DEF LifeInv

LEMMA LoseAckOK ==
    ASSUME LifeInv, NEW a \in Ack, LoseAck(a)
    PROVE  LifeInv'
BY DEF LifeInv, LoseAck, historyVars, LifeTypes, RowsOK, Registered, NoticesOK, AcksOK,
       AppliedWasObeyed

LEMMA InitLife == Init => LifeInv
BY DEF Init, LifeInv, LifeTypes, RowsOK, Registered, NoticesOK, AcksOK, AppliedWasObeyed

LEMMA NextLifeInv == LifeInv /\ [Next]_vars => LifeInv'
<1> SUFFICES ASSUME LifeInv, [Next]_vars
             PROVE  LifeInv'
  OBVIOUS
<1>1. CASE UNCHANGED lifeVars
  BY <1>1 DEF lifeVars, historyVars, LifeInv, LifeTypes, RowsOK, Registered, NoticesOK, AcksOK,
              AppliedWasObeyed
<1>2. ASSUME NEW g \in Registrations, Provision(g) PROVE UNCHANGED lifeVars
  BY <1>2 DEF Provision, SetPassword, ReadAcl, OpenAcl, WriteAcl, ProvisioningFails, lifeVars
<1>3. Crash => UNCHANGED lifeVars
  BY DEF Crash, lifeVars
<1>4. UNCHANGED vars => UNCHANGED lifeVars
  BY DEF vars, lifeVars
<1>5. QED
  BY <1>1, <1>2, <1>3, <1>4, RegisterOK, LinkOK, DeleteAllOK, RequestResetOK, UpdateTrackingOK,
     PollOK, HearRetainedOK, AckResetOK, LoseAckOK DEF Next

LEMMA LifeAlways == Spec => []LifeInv
BY InitLife, NextLifeInv, PTL DEF Spec

\* ack_device_reset, for any users, devices and bounds: a reset counts as applied only if
\* the tracker rebooted for it or for a later one of this life, unless an ack of an earlier
\* life was applied.
THEOREM AppliedWasObeyedHolds == Spec => []AppliedWasObeyed
<1>1. LifeInv => AppliedWasObeyed
  BY DEF LifeInv
<1>2. QED BY <1>1, LifeAlways, PTL

-----------------------------------------------------------------------------
(* Tokens only grow.                                                       *)

RowsGrow ==
    \A d \in Devices :
        Registered(d) /\ Registered(d)' =>
            row'[d].requested >= row[d].requested /\ row'[d].applied >= row[d].applied

\* The columns of a registered device are numbers.
LEMMA RegisteredRow ==
    ASSUME LifeTypes, NEW d \in Devices, Registered(d)
    PROVE  row[d] \in Row /\ row[d].requested \in Nat /\ row[d].applied \in Nat
<1>1. row[d] \in Row
  BY DEF LifeTypes, Registered
<1>2. QED BY <1>1, RowNumbers

LEMMA SameRowsGrow == ASSUME LifeTypes, UNCHANGED row PROVE RowsGrow
BY RegisteredRow DEF RowsGrow

LEMMA RequestGrows ==
    ASSUME LifeTypes, NEW u \in Users, NEW d \in Devices, RequestReset(u, d), RowsOK
    PROVE  RowsGrow
<1>1. Registered(d)
  BY DEF RowsOK, RequestReset
<1>2. row' = [row EXCEPT ![d] = [row[d] EXCEPT !.requested = row[d].requested + 1]]
  BY DEF RequestReset, NextToken
<1>3. ASSUME NEW e \in Devices, Registered(e)
      PROVE  row'[e].requested >= row[e].requested /\ row'[e].applied >= row[e].applied
  <2>1. row[e] \in Row /\ row[e].requested \in Nat /\ row[e].applied \in Nat
    BY <1>3, RegisteredRow
  <2>2. CASE e = d
    <3>1. row'[d] = [row[d] EXCEPT !.requested = row[d].requested + 1]
      BY <1>2 DEF LifeTypes
    <3>2. row'[d].requested = row[d].requested + 1 /\ row'[d].applied = row[d].applied
      BY <2>1, <2>2, <3>1 DEF Row
    <3>3. QED BY <2>1, <2>2, <3>2
  <2>3. CASE e # d
    <3>1. row'[e] = row[e]
      BY <1>2, <2>3 DEF LifeTypes
    <3>2. QED BY <2>1, <3>1
  <2>4. QED BY <2>2, <2>3
<1>4. QED BY <1>3 DEF RowsGrow

LEMMA AckGrows ==
    ASSUME LifeTypes, NEW a \in Ack, AckReset(a)
    PROVE  RowsGrow
<1>1. PICK d \in Devices : d = a.dev
  BY AckNumbers
<1>2. Registered(d)
  BY <1>1 DEF AckReset
<1>3. row[d] \in Row /\ row[d].requested \in Nat /\ row[d].applied \in Nat /\ a.token \in Nat
  BY <1>2, RegisteredRow, AckNumbers
<1>4. PICK t : t = Larger(row[d].applied, a.token)
  OBVIOUS
<1>5. t \in Nat /\ t >= row[d].applied
  BY <1>3, <1>4, LargerIs
<1>6. row' = [row EXCEPT ![d] = [row[d] EXCEPT !.applied = t]]
  BY <1>1, <1>4 DEF AckReset, Applied
<1>7. ASSUME NEW e \in Devices, Registered(e)
      PROVE  row'[e].requested >= row[e].requested /\ row'[e].applied >= row[e].applied
  <2>1. row[e] \in Row /\ row[e].requested \in Nat /\ row[e].applied \in Nat
    BY <1>7, RegisteredRow
  <2>2. CASE e = d
    <3>1. row'[d] = [row[d] EXCEPT !.applied = t]
      BY <1>6 DEF LifeTypes
    <3>2. row'[d].requested = row[d].requested /\ row'[d].applied = t
      BY <2>1, <2>2, <3>1 DEF Row
    <3>3. QED BY <1>5, <2>1, <2>2, <3>2
  <2>3. CASE e # d
    <3>1. row'[e] = row[e]
      BY <1>6, <2>3 DEF LifeTypes
    <3>2. QED BY <2>1, <3>1
  <2>4. QED BY <2>2, <2>3
<1>8. QED BY <1>7 DEF RowsGrow

LEMMA NextGrows == LifeInv /\ [Next]_vars => RowsGrow
<1> SUFFICES ASSUME LifeInv, [Next]_vars
             PROVE  RowsGrow
  OBVIOUS
<1>1. LifeTypes /\ RowsOK
  BY DEF LifeInv
<1>2. CASE UNCHANGED row
  BY <1>1, <1>2, SameRowsGrow
<1>3. ASSUME NEW g \in Registrations, NEW d \in Devices, Register(g, d) PROVE RowsGrow
  BY <1>1, <1>3, RegisteredRow DEF Register, RowsGrow, Registered, LifeTypes
<1>4. ASSUME NEW u \in Users, DeleteAll(u) PROVE RowsGrow
  BY <1>1, <1>4, RegisteredRow DEF DeleteAll, RowsGrow, Registered
<1>5. ASSUME NEW g \in Registrations, Provision(g) PROVE UNCHANGED row
  BY <1>5 DEF Provision, SetPassword, ReadAcl, OpenAcl, WriteAcl, ProvisioningFails
<1>6. ASSUME NEW u \in Users, NEW d \in Devices, Link(u, d) \/ UpdateTracking(u, d)
      PROVE  UNCHANGED row
  BY <1>6 DEF Link, UpdateTracking
<1>7. ASSUME NEW d \in Devices, Poll(d) \/ HearRetained(d) PROVE UNCHANGED row
  BY <1>7 DEF Poll, HearRetained
<1>8. ASSUME NEW a \in Ack, LoseAck(a) PROVE UNCHANGED row
  BY <1>8 DEF LoseAck
<1>9. (Crash \/ UNCHANGED vars) => UNCHANGED row
  BY DEF Crash, vars
<1>10. QED
  BY <1>1, <1>2, <1>3, <1>4, <1>5, <1>6, <1>7, <1>8, <1>9, RequestGrows, AckGrows DEF Next

\* request_device_reset and ack_device_reset: within one life neither token goes back.
THEOREM TokensOnlyGrowHolds == Spec => TokensOnlyGrow
<1>1. LifeInv /\ [Next]_vars => [RowsGrow]_vars
  BY NextGrows
<1>2. Spec => [][RowsGrow]_vars
  BY <1>1, LifeAlways, PTL DEF Spec
<1>3. QED BY <1>2 DEF TokensOnlyGrow, RowsGrow

-----------------------------------------------------------------------------
(* The broker's files.                                                     *)

LEMMA IdleIs ==
    Idle \in Provisioning /\ Idle.pc = "idle"
<1>1. PICK d \in Devices : d = CHOOSE e \in Devices : TRUE
  BY SomeDevice
<1>2. Idle = [pc |-> "idle", dev |-> d, life |-> 0, lines |-> {}]
  BY <1>1 DEF Idle
<1>3. QED BY <1>2 DEF Provisioning

\* A step of provisioning keeps its record in shape.
LEMMA GotoOK ==
    ASSUME FileTypes, NEW g \in Registrations, NEW p \in {"read", "open", "write"}, Goto(g, p)
    PROVE  /\ reg' \in [Registrations -> Provisioning]
           /\ reg'[g].pc = p /\ reg'[g].dev = reg[g].dev /\ reg'[g].lines = reg[g].lines
           /\ \A h \in Registrations \ {g} : reg'[h] = reg[h]
<1>1. PICK r : r = [reg[g] EXCEPT !.pc = p]
  OBVIOUS
<1>2. reg[g] \in Provisioning
  BY DEF FileTypes
<1>3. r \in Provisioning /\ r.pc = p /\ r.dev = reg[g].dev /\ r.lines = reg[g].lines
  BY <1>1, <1>2 DEF Provisioning
<1>4. reg' = [reg EXCEPT ![g] = r]
  BY <1>1 DEF Goto
<1>5. QED BY <1>3, <1>4 DEF FileTypes

LEMMA EndOK ==
    ASSUME FileTypes, NEW g \in Registrations, End(g)
    PROVE  /\ reg' \in [Registrations -> Provisioning]
           /\ reg'[g].pc = "idle"
           /\ \A h \in Registrations \ {g} : reg'[h] = reg[h]
<1>1. PICK r : r = Idle
  OBVIOUS
<1>2. reg' = [reg EXCEPT ![g] = r]
  BY <1>1 DEF End
<1>3. QED BY <1>1, <1>2, IdleIs DEF FileTypes

\* upsert_device_acl keeps every block but the device's own.
LEMMA ReadAclOK ==
    ASSUME FileTypes, NEW g \in Registrations, ReadAcl(g)
    PROVE  /\ reg' \in [Registrations -> Provisioning]
           /\ reg'[g].pc = "open" /\ reg'[g].dev = reg[g].dev
           /\ reg'[g].lines = acl \ {reg[g].dev}
           /\ \A h \in Registrations \ {g} : reg'[h] = reg[h]
<1>1. PICK l : l = acl \ {reg[g].dev}
  OBVIOUS
<1>2. reg[g] \in Provisioning /\ l \in SUBSET Devices
  BY <1>1 DEF FileTypes
<1>3. PICK r : r = [reg[g] EXCEPT !.pc = "open", !.lines = l]
  OBVIOUS
<1>4. r \in Provisioning /\ r.pc = "open" /\ r.dev = reg[g].dev /\ r.lines = l
  BY <1>2, <1>3 DEF Provisioning
<1>5. reg' = [reg EXCEPT ![g] = r]
  BY <1>1, <1>3 DEF ReadAcl, OtherBlocks
<1>6. QED BY <1>1, <1>4, <1>5 DEF FileTypes

LEMMA RegisterFiles ==
    ASSUME FileTypes, LifeInv, NEW g \in Registrations, NEW d \in Devices, Register(g, d)
    PROVE  /\ FileTypes'
           /\ reg'[g].pc = "password"
           /\ \A h \in Registrations \ {g} : reg'[h] = reg[h]
<1>1. lives[d] \in Nat
  BY Numbers DEF LifeInv
<1>2. lives[d] + 1 \in Lives
  BY <1>1, NextLife DEF Register
<1>3. PICK r : r = [pc |-> "password", dev |-> d, life |-> lives[d] + 1, lines |-> {}]
  OBVIOUS
<1>4. r \in Provisioning /\ r.pc = "password"
  BY <1>2, <1>3 DEF Provisioning
<1>5. reg' = [reg EXCEPT ![g] = r] /\ UNCHANGED <<passwd, acl, hurt>>
  BY <1>3 DEF Register
<1>6. QED BY <1>4, <1>5 DEF FileTypes

LEMMA HurtByIs == ASSUME NEW g, reg[g].dev \in Devices PROVE HurtBy(g) \subseteq Devices
BY DEF HurtBy

LEMMA ProvisionFiles ==
    ASSUME FileTypes, NEW g \in Registrations, Provision(g)
    PROVE  FileTypes'
<1>1. reg[g] \in Provisioning
  BY DEF FileTypes
<1>2. reg[g].dev \in Devices /\ reg[g].life \in {0} \union Lives /\ reg[g].lines \subseteq Devices
  BY <1>1 DEF Provisioning
<1>3. CASE SetPassword(g)
  BY <1>2, <1>3, GotoOK DEF SetPassword, FileTypes
<1>4. CASE ReadAcl(g)
  BY <1>4, ReadAclOK DEF ReadAcl, FileTypes
<1>5. CASE OpenAcl(g)
  BY <1>5, GotoOK DEF OpenAcl, FileTypes
<1>6. CASE WriteAcl(g)
  BY <1>2, <1>6, EndOK DEF WriteAcl, FileTypes
<1>7. CASE ProvisioningFails(g)
  <2>1. reg' \in [Registrations -> Provisioning]
    BY <1>7, EndOK DEF ProvisioningFails
  <2>2. hurt' \subseteq Devices
    BY <1>2, <1>7, HurtByIs DEF ProvisioningFails, FileTypes
  <2>3. acl' \subseteq Devices /\ passwd' = passwd
    BY <1>2, <1>7 DEF ProvisioningFails, FileTypes
  <2>4. QED BY <2>1, <2>2, <2>3 DEF FileTypes
<1>8. QED BY <1>3, <1>4, <1>5, <1>6, <1>7 DEF Provision

LEMMA CrashFiles ==
    ASSUME FileTypes, Crash
    PROVE  FileTypes'
<1>1. ASSUME NEW g \in Registrations PROVE HurtBy(g) \subseteq Devices
  <2>1. reg[g] \in Provisioning
    BY DEF FileTypes
  <2>2. reg[g].dev \in Devices
    BY <2>1 DEF Provisioning
  <2>3. QED BY <2>2, HurtByIs
<1>2. PICK all : all = UNION {HurtBy(g) : g \in Registrations}
  OBVIOUS
<1>3. all \subseteq Devices
  BY <1>1, <1>2
<1>4. hurt' = hurt \union all
  BY <1>2 DEF Crash
<1>5. reg' \in [Registrations -> Provisioning]
  BY IdleIs DEF Crash
<1>6. QED BY <1>3, <1>4, <1>5 DEF Crash, FileTypes

\* Only registrations and crashes touch the files.
LEMMA OtherFiles ==
    ASSUME [Next]_vars,
           ~ \E g \in Registrations : Provision(g) \/ \E d \in Devices : Register(g, d),
           ~ Crash
    PROVE  UNCHANGED fileVars
<1>1. ASSUME NEW u \in Users, NEW d \in Devices, Link(u, d) \/ RequestReset(u, d) \/ UpdateTracking(u, d)
      PROVE  UNCHANGED fileVars
  BY <1>1 DEF Link, RequestReset, UpdateTracking, fileVars
<1>2. ASSUME NEW u \in Users, DeleteAll(u) PROVE UNCHANGED fileVars
  BY <1>2 DEF DeleteAll, fileVars
<1>3. ASSUME NEW d \in Devices, Poll(d) \/ HearRetained(d) PROVE UNCHANGED fileVars
  BY <1>3 DEF Poll, HearRetained, fileVars
<1>4. ASSUME NEW a \in Ack, AckReset(a) \/ LoseAck(a) PROVE UNCHANGED fileVars
  BY <1>4 DEF AckReset, LoseAck, fileVars
<1>5. UNCHANGED vars => UNCHANGED fileVars
  BY DEF vars, fileVars
<1>6. QED BY <1>1, <1>2, <1>3, <1>4, <1>5 DEF Next

LEMMA NextFileTypes == FileTypes /\ LifeInv /\ [Next]_vars => FileTypes'
<1> SUFFICES ASSUME FileTypes, LifeInv, [Next]_vars
             PROVE  FileTypes'
  OBVIOUS
<1>1. CASE UNCHANGED fileVars
  BY <1>1 DEF fileVars, FileTypes
<1>2. QED BY <1>1, RegisterFiles, ProvisionFiles, CrashFiles, OtherFiles

LEMMA InitFileTypes == Init => FileTypes
BY IdleIs DEF Init, FileTypes

\* Type correctness, for any devices, users, registrations and bounds.
THEOREM TypeOKHolds == Spec => []TypeOK
<1>1. Init => FileTypes
  BY InitFileTypes
<1>2. FileTypes /\ LifeInv /\ [Next]_vars => FileTypes'
  BY NextFileTypes
<1>3. LifeInv /\ FileTypes => TypeOK
  BY Types DEF LifeInv
<1>4. QED BY <1>1, <1>2, <1>3, LifeAlways, PTL DEF Spec

-----------------------------------------------------------------------------
(* Registrations that do not overlap keep every block.                     *)

\* Requests are handled one after the other, each with its provisioning.
OneAtATime == \A g, h \in Registrations : g = h

\* What was read lacks a block of a device with a password only if the file did.
ReadWasWhole ==
    \A g \in Registrations : reg[g].pc \in {"open", "write"} =>
        \A d \in Devices :
            passwd[d] # 0 /\ d \notin reg[g].lines \union {reg[g].dev} => d \in hurt

BlocksInv == FileTypes /\ BlocksKept /\ ReadWasWhole

LEMMA RegisterKeeps ==
    ASSUME BlocksInv, OneAtATime, LifeInv,
           NEW g \in Registrations, NEW d \in Devices, Register(g, d)
    PROVE  BlocksInv'
<1>1. /\ FileTypes' /\ reg'[g].pc = "password" /\ reg[g].pc = "idle"
      /\ UNCHANGED <<passwd, acl, hurt>>
  BY RegisterFiles DEF BlocksInv, Register
<1>2. BlocksKept'
  BY <1>1 DEF BlocksInv, BlocksKept, OneAtATime
<1>3. ReadWasWhole'
  BY <1>1 DEF ReadWasWhole, OneAtATime
<1>4. QED BY <1>1, <1>2, <1>3 DEF BlocksInv

LEMMA SetPasswordKeeps ==
    ASSUME BlocksInv, OneAtATime, NEW g \in Registrations, SetPassword(g), FileTypes'
    PROVE  BlocksInv'
<1>1. /\ reg'[g].pc = "read" /\ reg[g].pc = "password" /\ reg'[g].dev = reg[g].dev
      /\ UNCHANGED <<acl, hurt>>
      /\ \A d \in Devices \ {reg[g].dev} : passwd'[d] = passwd[d]
  BY GotoOK DEF BlocksInv, SetPassword, FileTypes
<1>2. BlocksKept'
  BY <1>1 DEF BlocksInv, BlocksKept, OneAtATime
<1>3. ReadWasWhole'
  BY <1>1 DEF ReadWasWhole, OneAtATime
<1>4. QED BY <1>2, <1>3 DEF BlocksInv

LEMMA ReadAclKeeps ==
    ASSUME BlocksInv, OneAtATime, NEW g \in Registrations, ReadAcl(g), FileTypes'
    PROVE  BlocksInv'
<1>1. /\ reg'[g].pc = "open" /\ reg[g].pc = "read" /\ reg'[g].dev = reg[g].dev
      /\ reg'[g].lines = acl \ {reg[g].dev}
      /\ UNCHANGED <<passwd, acl, hurt>>
  BY ReadAclOK DEF BlocksInv, ReadAcl
<1>2. BlocksKept'
  BY <1>1 DEF BlocksInv, BlocksKept, OneAtATime
<1>3. ReadWasWhole'
  BY <1>1 DEF BlocksInv, BlocksKept, ReadWasWhole, OneAtATime
<1>4. QED BY <1>2, <1>3 DEF BlocksInv

LEMMA OpenAclKeeps ==
    ASSUME BlocksInv, OneAtATime, NEW g \in Registrations, OpenAcl(g), FileTypes'
    PROVE  BlocksInv'
<1>1. /\ reg'[g].pc = "write" /\ reg[g].pc = "open" /\ reg'[g].dev = reg[g].dev
      /\ reg'[g].lines = reg[g].lines
      /\ UNCHANGED <<passwd, hurt>>
  BY GotoOK DEF BlocksInv, OpenAcl
<1>2. BlocksKept'
  BY <1>1 DEF BlocksKept
<1>3. ReadWasWhole'
  BY <1>1 DEF BlocksInv, ReadWasWhole, OneAtATime
<1>4. QED BY <1>2, <1>3 DEF BlocksInv

LEMMA WriteAclKeeps ==
    ASSUME BlocksInv, OneAtATime, NEW g \in Registrations, WriteAcl(g), FileTypes'
    PROVE  BlocksInv'
<1>1. /\ reg'[g].pc = "idle" /\ reg[g].pc = "write"
      /\ acl' = reg[g].lines \union {reg[g].dev} /\ hurt' = hurt \ {reg[g].dev}
      /\ UNCHANGED passwd
  BY EndOK DEF BlocksInv, WriteAcl
<1>2. BlocksKept'
  BY <1>1 DEF BlocksInv, BlocksKept, ReadWasWhole
<1>3. ReadWasWhole'
  BY <1>1 DEF ReadWasWhole, OneAtATime
<1>4. QED BY <1>2, <1>3 DEF BlocksInv

LEMMA FailureKeeps ==
    ASSUME BlocksInv, OneAtATime, NEW g \in Registrations, ProvisioningFails(g), FileTypes'
    PROVE  BlocksInv'
<1>1. /\ reg'[g].pc = "idle" /\ reg[g].pc \in {"password", "open", "write"}
      /\ reg[g].pc # "write" => acl' = acl
      /\ hurt' = hurt \union HurtBy(g)
      /\ UNCHANGED passwd
  BY EndOK DEF BlocksInv, ProvisioningFails
<1>2. BlocksKept'
  BY <1>1 DEF BlocksInv, BlocksKept, HurtBy, OneAtATime
<1>3. ReadWasWhole'
  BY <1>1 DEF ReadWasWhole, OneAtATime
<1>4. QED BY <1>2, <1>3 DEF BlocksInv

\* A crash records whoever it leaves without a block.
LEMMA CrashKeeps ==
    ASSUME BlocksInv, Crash, FileTypes'
    PROVE  BlocksInv'
<1>1. \A g \in Registrations : reg'[g].pc = "idle"
  BY IdleIs DEF Crash
<1>2. UNCHANGED <<passwd, acl>> /\ hurt \subseteq hurt'
  BY DEF Crash
<1>3. ASSUME NEW g \in Registrations PROVE HurtBy(g) \subseteq hurt'
  BY DEF Crash
<1>4. BlocksKept'
  BY <1>2, <1>3 DEF BlocksInv, BlocksKept, HurtBy
<1>5. ReadWasWhole'
  BY <1>1 DEF ReadWasWhole
<1>6. QED BY <1>4, <1>5 DEF BlocksInv

LEMMA NextBlocksInv == OneAtATime /\ BlocksInv /\ LifeInv /\ [Next]_vars => BlocksInv'
<1> SUFFICES ASSUME OneAtATime, BlocksInv, LifeInv, [Next]_vars
             PROVE  BlocksInv'
  OBVIOUS
<1>1. FileTypes'
  BY NextFileTypes DEF BlocksInv
<1>2. CASE UNCHANGED fileVars
  BY <1>1, <1>2 DEF fileVars, BlocksInv, BlocksKept, ReadWasWhole
<1>3. ASSUME NEW g \in Registrations, Provision(g) PROVE BlocksInv'
  BY <1>1, <1>3, SetPasswordKeeps, ReadAclKeeps, OpenAclKeeps, WriteAclKeeps, FailureKeeps
     DEF Provision
<1>4. QED BY <1>1, <1>2, <1>3, RegisterKeeps, CrashKeeps, OtherFiles

\* upsert_device_acl, when registrations do not overlap: whatever fails or crashes, only a
\* device whose own write was cut, or that a cut write of the file dropped, lacks its block.
THEOREM BlocksKeptHolds == OneAtATime => (Spec => []BlocksKept)
<1> SUFFICES ASSUME OneAtATime
             PROVE  Spec => []BlocksKept
  OBVIOUS
<1>1. Init => BlocksInv
  BY InitFileTypes, IdleIs DEF Init, BlocksInv, BlocksKept, ReadWasWhole
<1>2. BlocksInv /\ LifeInv /\ [Next]_vars => BlocksInv'
  BY NextBlocksInv
<1>3. BlocksInv => BlocksKept
  BY DEF BlocksInv
<1>4. QED BY <1>1, <1>2, <1>3, LifeAlways, PTL DEF Spec
=============================================================================
