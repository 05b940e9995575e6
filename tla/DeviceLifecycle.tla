---------------------------- MODULE DeviceLifecycle ----------------------------
(***************************************************************************)
(* The life of a tracker on the server: it is registered, its MQTT         *)
(* credentials are provisioned, users link it, ask it to reset, and delete *)
(* it, after which it may be registered again under the same id.           *)
(*                                                                         *)
(* A registration commits the row and then awaits a pool thread that edits *)
(* two files of the broker: the password file, and the ACL file, which is  *)
(* read, opened for writing (and so emptied) and written back.  A reset    *)
(* raises reset_token; the tracker hears of it from a poll or from the     *)
(* retained MQTT message, acks the token and reboots; the ack raises       *)
(* reset_applied_token.                                                    *)
(***************************************************************************)
EXTENDS Naturals, FiniteSets

CONSTANTS
    Devices,        \* device ids
    Users,          \* app users
    Registrations,  \* POST /registerDevice requests under way at once
    MayFail,        \* files may refuse a write, and the server may crash
    MaxLives,       \* bound: how often each device is registered
    MaxResets,      \* bound: resets asked of each device
    None            \* no row, no retained message

ASSUME SomeDevice     == Devices # {}
ASSUME NoneIsNothing  == None \notin [requested : Nat, applied : Nat]
ASSUME NoneIsNoNotice == None \notin [life : Nat, requested : Nat, applied : Nat]
ASSUME BoundsAreNat   == MaxLives \in [Devices -> Nat] /\ MaxResets \in [Devices -> Nat]

VARIABLES
    row,      \* devices: the reset columns of each row, or None
    links,    \* users_devices: the users linked to each device
    retained, \* the last controls message the broker keeps for each device
    passwd,   \* the password file: the life whose token each device has, 0 for none
    acl,      \* the ACL file: the devices with a block in it
    reg,      \* the provisioning of each registration under way
    acks,     \* reset acks on their way to the server
    resets,   \* how many resets were asked of each device
    lives,    \* history: how often each device was registered
    obeyed,   \* history: the newest token of this life the tracker rebooted for
    crossed,  \* history: devices that had an ack of an earlier life applied
    hurt      \* history: devices that a failed or cut write left without a block

fileVars    == <<passwd, acl, reg, hurt>>
historyVars == <<lives, obeyed, crossed>>
vars == <<row, links, retained, acks, resets, fileVars, historyVars>>

Lives  == UNION {1..MaxLives[d] : d \in Devices}
Tokens == UNION {1..MaxResets[d] : d \in Devices}
Larger(a, b) == IF a > b THEN a ELSE b

Provisioning == [pc : {"idle", "password", "read", "open", "write"},
                 dev : Devices, life : {0} \union Lives, lines : SUBSET Devices]
Row    == [requested : {0} \union Tokens, applied : {0} \union Tokens]
Notice == [life : Lives, requested : {0} \union Tokens, applied : {0} \union Tokens]
Ack    == [dev : Devices, life : Lives, token : Tokens]

\* Type correctness: every variable holds what the code can put into it.
TypeOK ==
    /\ row \in [Devices -> Row \union {None}]
    /\ links \in [Devices -> SUBSET Users]
    /\ retained \in [Devices -> Notice \union {None}]
    /\ passwd \in [Devices -> {0} \union Lives]
    /\ acl \in SUBSET Devices
    /\ reg \in [Registrations -> Provisioning]
    /\ acks \in SUBSET Ack
    /\ resets \in [Devices -> {0} \union Tokens]
    /\ lives \in [Devices -> {0} \union Lives]
    /\ obeyed \in [Devices -> {0} \union Tokens]
    /\ crossed \in SUBSET Devices
    /\ hurt \in SUBSET Devices

\* No registration; what one holds ends with it.
Idle == [pc |-> "idle", dev |-> CHOOSE d \in Devices : TRUE, life |-> 0, lines |-> {}]

Init ==
    /\ row = [d \in Devices |-> None]
    /\ links = [d \in Devices |-> {}]
    /\ retained = [d \in Devices |-> None]
    /\ passwd = [d \in Devices |-> 0]
    /\ acl = {}
    /\ reg = [g \in Registrations |-> Idle]
    /\ acks = {} /\ resets = [d \in Devices |-> 0]
    /\ lives = [d \in Devices |-> 0]
    /\ obeyed = [d \in Devices |-> 0]
    /\ crossed = {} /\ hurt = {}

Registered(d) == row[d] # None

-----------------------------------------------------------------------------
(* POST /registerDevice, up to its await.                                  *)

\* get_device finds no row and create_device inserts one: no await between them.
Register(g, d) ==
    /\ reg[g].pc = "idle"
    /\ ~Registered(d) /\ lives[d] < MaxLives[d]
    /\ row' = [row EXCEPT ![d] = [requested |-> 0, applied |-> 0]]
    /\ lives' = [lives EXCEPT ![d] = @ + 1]
    /\ obeyed' = [obeyed EXCEPT ![d] = 0]
    /\ crossed' = crossed \ {d}
    /\ reg' = [reg EXCEPT ![g] = [pc |-> "password", dev |-> d, life |-> lives[d] + 1, lines |-> {}]]
    /\ UNCHANGED <<links, retained, passwd, acl, hurt, acks, resets>>

-----------------------------------------------------------------------------
(* provision_mqtt_device, in a pool thread.                                *)

Goto(g, p) == reg' = [reg EXCEPT ![g].pc = p]
End(g)     == reg' = [reg EXCEPT ![g] = Idle]

\* mosquitto_passwd -b puts the device's token into the password file.
SetPassword(g) ==
    /\ reg[g].pc = "password"
    /\ passwd' = [passwd EXCEPT ![reg[g].dev] = reg[g].life]
    /\ Goto(g, "read")
    /\ UNCHANGED <<row, links, retained, acl, hurt, acks, resets, historyVars>>

\* Mutant of OtherBlocks: every block is dropped from what was read.
NoOtherBlocks(d) == {}

\* Every block of the file but the device's own.
OtherBlocks(d) == acl \ {d}

\* upsert_device_acl reads the file and drops the device's old block.
ReadAcl(g) ==
    /\ reg[g].pc = "read"
    /\ reg' = [reg EXCEPT ![g].pc = "open", ![g].lines = OtherBlocks(reg[g].dev)]
    /\ UNCHANGED <<row, links, retained, passwd, acl, hurt, acks, resets, historyVars>>

\* open(acl_path, "w") empties the file.
OpenAcl(g) ==
    /\ reg[g].pc = "open"
    /\ acl' = {}
    /\ Goto(g, "write")
    /\ UNCHANGED <<row, links, retained, passwd, hurt, acks, resets, historyVars>>

\* The blocks read and the device's new one are written.
WriteAcl(g) ==
    /\ reg[g].pc = "write"
    /\ acl' = reg[g].lines \union {reg[g].dev}
    /\ hurt' = hurt \ {reg[g].dev}
    /\ End(g)
    /\ UNCHANGED <<row, links, retained, passwd, acks, resets, historyVars>>

\* Who lost a block, should provisioning g stop here: the device itself once it has
\* a password, and everybody once the file is open.
HurtBy(g) ==
    CASE reg[g].pc \in {"read", "open"} -> {reg[g].dev}
      [] reg[g].pc = "write"            -> Devices
      [] OTHER                          -> {}

\* A file refuses: mosquitto_passwd exits with an error, the ACL file cannot be
\* opened, or the write stops part way.  The registration succeeds all the same.
ProvisioningFails(g) ==
    /\ MayFail
    /\ reg[g].pc \in {"password", "open", "write"}
    /\ IF reg[g].pc = "write"
       THEN acl' \in SUBSET (reg[g].lines \union {reg[g].dev})
       ELSE acl' = acl
    /\ hurt' = hurt \union HurtBy(g)
    /\ End(g)
    /\ UNCHANGED <<row, links, retained, passwd, acks, resets, historyVars>>

\* The server process dies and starts again; the files stay as they are.
Crash ==
    /\ MayFail
    /\ \E g \in Registrations : reg[g].pc # "idle"
    /\ hurt' = hurt \union UNION {HurtBy(g) : g \in Registrations}
    /\ reg' = [g \in Registrations |-> Idle]
    /\ UNCHANGED <<row, links, retained, passwd, acl, acks, resets, historyVars>>

-----------------------------------------------------------------------------
(* What users do.                                                          *)

\* POST /registerDeviceToUser with the right pairing code; a second link is a no-op.
Link(u, d) ==
    /\ Registered(d)
    /\ links' = [links EXCEPT ![d] = @ \union {u}]
    /\ UNCHANGED <<row, retained, acks, resets, fileVars, historyVars>>

\* DELETE /devices/all: every device of the user, whoever else is linked to it.  The
\* broker's files and its retained messages are not touched.
DeleteAll(u) ==
    LET mine == {d \in Devices : u \in links[d]} IN
    /\ mine # {}
    /\ row' = [d \in Devices |-> IF d \in mine THEN None ELSE row[d]]
    /\ links' = [d \in Devices |-> IF d \in mine THEN {} ELSE links[d]]
    /\ UNCHANGED <<retained, acks, resets, fileVars, historyVars>>

\* The controls message of a row, published retained; a publish may fail or stop.
Publish(d, r) ==
    \/ retained' = [retained EXCEPT ![d] =
                      [life |-> lives[d], requested |-> r.requested, applied |-> r.applied]]
    \/ UNCHANGED retained

\* Mutant of NextToken: the endpoint and the statement both add one.
NextTokenTwice(r) == r.requested + 2

\* COALESCE(reset_token, 0) + 1
NextToken(r) == r.requested + 1

\* POST /devices/{id}/reset bumps the token and broadcasts the row.
RequestReset(u, d) ==
    /\ u \in links[d] /\ resets[d] < MaxResets[d]
    /\ resets' = [resets EXCEPT ![d] = @ + 1]
    /\ row' = [row EXCEPT ![d].requested = NextToken(row[d])]
    /\ Publish(d, row'[d])
    /\ UNCHANGED <<links, acks, fileVars, historyVars>>

\* PUT /devices/{id}/tracking: the columns it sets are not kept here, the broadcast
\* of the row is.
UpdateTracking(u, d) ==
    /\ u \in links[d]
    /\ Publish(d, row[d])
    /\ UNCHANGED <<row, links, acks, resets, fileVars, historyVars>>

-----------------------------------------------------------------------------
(* The tracker, and its acks.                                              *)

\* A tracker told of a reset that is not applied acks it and reboots.
Obey(d, life, r) ==
    /\ r.requested > r.applied
    /\ acks' = acks \union {[dev |-> d, life |-> life, token |-> r.requested]}
    /\ obeyed' = IF life = lives[d] THEN [obeyed EXCEPT ![d] = Larger(@, r.requested)] ELSE obeyed

\* It polls its controls.
Poll(d) ==
    /\ Registered(d)
    /\ Obey(d, lives[d], row[d])
    /\ UNCHANGED <<row, links, retained, resets, fileVars, lives, crossed>>

\* It subscribes, with the credentials the broker has for it, and is sent the
\* retained message.
HearRetained(d) ==
    /\ retained[d] # None /\ passwd[d] # 0 /\ d \in acl
    /\ Obey(d, retained[d].life, retained[d])
    /\ UNCHANGED <<row, links, retained, resets, fileVars, lives, crossed>>

\* Mutant of Applied: the token of the ack, whatever was applied before.
AppliedLast(r, token) == token

\* Mutant of Applied: any ack clears whatever is pending.
AppliedAll(r, token) == r.requested

\* Mutant of Applied: only the ack of the next token counts.
AppliedNext(r, token) == IF token = r.applied + 1 THEN token ELSE r.applied

\* GREATEST(COALESCE(reset_applied_token, 0), token)
Applied(r, token) == Larger(r.applied, token)

\* POST /deviceResetAck, or devices/{id}/reset_ack over MQTT, which may deliver it
\* again.  Without the row it is refused and changes nothing.
AckReset(a) ==
    /\ a \in acks /\ Registered(a.dev)
    /\ row' = [row EXCEPT ![a.dev].applied = Applied(row[a.dev], a.token)]
    /\ crossed' = IF a.life = lives[a.dev] THEN crossed ELSE crossed \union {a.dev}
    /\ acks' \in {acks, acks \ {a}}
    /\ UNCHANGED <<links, retained, resets, fileVars, lives, obeyed>>

\* An ack is lost, or comes when the device is gone.
LoseAck(a) ==
    /\ a \in acks
    /\ acks' = acks \ {a}
    /\ UNCHANGED <<row, links, retained, resets, fileVars, historyVars>>

-----------------------------------------------------------------------------
Provision(g) == \/ SetPassword(g) \/ ReadAcl(g) \/ OpenAcl(g) \/ WriteAcl(g)
                \/ ProvisioningFails(g)

Next ==
    \/ \E g \in Registrations : Provision(g) \/ \E d \in Devices : Register(g, d)
    \/ Crash
    \/ \E u \in Users : \/ DeleteAll(u)
                        \/ \E d \in Devices : Link(u, d) \/ RequestReset(u, d) \/ UpdateTracking(u, d)
    \/ \E d \in Devices : Poll(d) \/ HearRetained(d)
    \/ \E a \in Ack : AckReset(a) \/ LoseAck(a)

Spec == Init /\ [][Next]_vars

\* The ack of the token the tracker was last asked to reset for.
AckNewest(d) == \E a \in Ack : a.dev = d /\ row[d].requested = a.token /\ AckReset(a)

\* Assumed of the tracker, not given by the server: it keeps polling its controls, as
\* its documentation has it (device-access-issue.md: "HTTP fallback every 90s"), whether
\* or not a reset is pending; told of one again it acks it again, and so one of the acks
\* of the newest token gets through some time.  The server names no interval for it:
\* command_recovery_interval_ms goes only with a pending control version.
FairSpec ==
    /\ Spec
    /\ \A d \in Devices : WF_vars(Poll(d)) /\ SF_vars(Registered(d) /\ AckNewest(d))

-----------------------------------------------------------------------------
(* Properties.                                                             *)

\* upsert_device_acl: the block of a device that has a password is lost only through
\* a write that failed or was cut short; while a registration is at work it may be
\* missing, its own device's from the password on, everybody's while the file is open.
BlocksKept ==
    \A d \in Devices :
        passwd[d] # 0 /\ d \notin acl =>
            \/ d \in hurt
            \/ \E g \in Registrations :
                  \/ reg[g].pc = "write"
                  \/ reg[g].pc \in {"read", "open"} /\ reg[g].dev = d

\* ack_device_reset: a reset counts as applied only if the tracker rebooted for it or
\* for a later one in this life, unless an ack of an earlier life came late.
AppliedWasObeyed ==
    \A d \in Devices : Registered(d) /\ d \notin crossed => row[d].applied <= obeyed[d]

\* request_device_reset and ack_device_reset: within one life neither token goes back,
\* so a reset that was applied never becomes pending again through an older ack.
TokensOnlyGrow ==
    [][\A d \in Devices :
          Registered(d) /\ Registered(d)' =>
              row'[d].requested >= row[d].requested /\ row'[d].applied >= row[d].applied]_vars

\* The reset handshake: as long as users stop asking and the tracker stays registered
\* and polls, it reboots for the newest reset and that is recorded, whatever acks are
\* lost, repeated or overtaken on the way.  A tracker that had an ack of an earlier life
\* applied is exempt: to the server its resets look applied before it heard of them.
ResetsEnd ==
    \A d \in Devices :
        []<>(Registered(d) => \/ d \in crossed
                              \/ /\ row[d].applied >= row[d].requested
                                 /\ obeyed[d] >= row[d].requested)
=============================================================================
