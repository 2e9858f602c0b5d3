------------------------------- MODULE Devices -------------------------------
(***************************************************************************)
(* The devices table, and the requests that act on a device by themselves: *)
(* the operator's actions (fleet/service.py) and the agent's heartbeat     *)
(* (fleet/registration.py behind get_current_device of                     *)
(* fleet/dependencies.py).  Registration and Enrollment extend this module *)
(* with the two ways of getting a device into the table.                   *)
(*                                                                         *)
(* Every HTTP request runs in a thread with a SQLAlchemy session of its    *)
(* own over PostgreSQL at READ COMMITTED.  A request is modelled as the    *)
(* statements that read (each sees what is committed at that moment) and   *)
(* one final step that flushes and commits: from its first UPDATE to the   *)
(* commit a transaction holds the row locks.  A flush writes the columns   *)
(* whose value differs from the one the session LOADED, and no others.     *)
(***************************************************************************)
EXTENDS Integers, FiniteSets, DeviceIdentity

CONSTANTS
    Orgs,       \* organizations (tenants)
    DeviceIds,  \* primary keys the database may give to devices
    Tokens,     \* registration tokens
    Beats,      \* heartbeat requests that may be in flight together
    NoDevice,   \* no device row matched
    NoToken,    \* registration_token_id is NULL
    MaxMint,    \* bound: number of times a secret is generated
    MaxTime     \* bound: the clock stops there

ASSUME DevicesAssumption ==
    /\ Orgs # {}
    /\ NoDevice \notin DeviceIds
    /\ NoToken \notin Tokens
    /\ MaxMint \in Nat
    /\ MaxTime \in Nat

VARIABLES
    devices,    \* the devices table with its 1:1 MQTT credential rows
    minted,     \* secrets generated so far; the n-th one is the number n
    now,        \* the server's clock
    beat        \* the sessions of heartbeat requests

deviceVars == <<devices, minted, now, beat>>

-----------------------------------------------------------------------------

NULL == 0     \* no credential
Never == 0    \* no expires_at

\* A device row.  cred is the HTTP credential (credential_hash), mqtt the
\* password_hash of its device_mqtt_credentials row; both by issue number.
Row == [state    : {"absent", "live", "deleted"},
        org      : Orgs,
        serial   : Serials \cup {NoSerial},
        macs     : SUBSET Macs,
        enabled  : BOOLEAN,
        cred     : Nat,
        mqtt     : Nat,
        token    : Tokens \cup {NoToken},
        lastSeen : Nat]

Blank == [state |-> "absent", org |-> CHOOSE o \in Orgs : TRUE,
          serial |-> NoSerial, macs |-> {}, enabled |-> FALSE,
          cred |-> NULL, mqtt |-> NULL, token |-> NoToken, lastSeen |-> 0]

Live == {d \in DeviceIds : devices[d].state = "live"}

NoBeat == [pc |-> "idle", device |-> NoDevice, loaded |-> Blank, since |-> 0]

Beat == [pc     : {"idle", "authenticated"},
         device : DeviceIds \cup {NoDevice},
         loaded : Row,
         since  : Nat]

DevicesInit ==
    /\ devices = [d \in DeviceIds |-> Blank]
    /\ minted = 0
    /\ now = 0
    /\ beat = [h \in Beats |-> NoBeat]

-----------------------------------------------------------------------------
(* Writing a row                                                           *)

\* The value of a column after a session that loaded it as "loaded", and set
\* it to "value", is flushed over a row that now holds "current".
Column(current, loaded, value) == IF value = loaded THEN current ELSE value

NextSecret == minted + 1

\* generate_device_token and generate_mqtt_password draw fresh secrets.
Mint == minted < MaxMint /\ minted' = minted + 1

\* _create_new: INSERT of a complete row, then of its MQTT credential.
CreatedRow(org, ident, token, stamp) ==
    [state |-> "live", org |-> org, serial |-> ident.serial,
     macs |-> ident.macs, enabled |-> TRUE, cred |-> NextSecret,
     mqtt |-> NextSecret, token |-> token, lastSeen |-> stamp]

\* _update_existing followed by issue_mqtt_credentials, which rotates.
UpdatedRow(row, loaded, ident, token, stamp) ==
    [state    |-> row.state,
     org      |-> row.org,
     serial   |-> Column(row.serial, loaded.serial, ident.serial),
     macs     |-> Column(row.macs, loaded.macs, ident.macs),
     enabled  |-> Column(row.enabled, loaded.enabled, TRUE),
     cred     |-> NextSecret,
     mqtt     |-> NextSecret,
     token    |-> Column(row.token, loaded.token, token),
     lastSeen |-> Column(row.lastSeen, loaded.lastSeen, stamp)]

-----------------------------------------------------------------------------
(* The operator's actions.  Each reads one row and writes columns of it    *)
(* without looking at their old value.                                     *)

SetEnabled(d, enabled) ==
    /\ d \in Live
    /\ devices' = [devices EXCEPT ![d].enabled = enabled]
    /\ UNCHANGED <<minted, now, beat>>

\* Replaces the HTTP credential only; the MQTT password stays.
RotateCredential(d) ==
    /\ d \in Live
    /\ Mint
    /\ devices' = [devices EXCEPT ![d].cred = NextSecret]
    /\ UNCHANGED <<now, beat>>

RevokeCredential(d) ==
    /\ d \in Live
    /\ devices' = [devices EXCEPT ![d].cred = NULL]
    /\ UNCHANGED <<minted, now, beat>>

\* The MQTT credential row goes with the device (ON DELETE CASCADE).
DeleteDevice(d) ==
    /\ d \in Live
    /\ devices' = [devices EXCEPT ![d] = [Blank EXCEPT !.state = "deleted"]]
    /\ UNCHANGED <<minted, now, beat>>

-----------------------------------------------------------------------------
(* The heartbeat: authentication loads the row, the handler stamps it.     *)

BeatAuth(h, d) ==
    /\ beat[h].pc = "idle"
    /\ d \in Live
    /\ devices[d].cred # NULL
    /\ devices[d].enabled
    /\ beat' = [beat EXCEPT ![h] = [pc |-> "authenticated", device |-> d,
                                    loaded |-> devices[d], since |-> now]]
    /\ UNCHANGED <<devices, minted, now>>

\* Fault: the session saves the whole row it loaded.
BeatRowWhole(row, loaded, stamp) == [loaded EXCEPT !.lastSeen = stamp]

\* What the flush of a heartbeat leaves in the row.
BeatRow(row, loaded, stamp) ==
    [row EXCEPT !.lastSeen = Column(row.lastSeen, loaded.lastSeen, stamp)]

\* The stamp was read between authentication and now.
BeatCommit(h) ==
    /\ beat[h].pc = "authenticated"
    /\ beat[h].device \in Live
    /\ \E stamp \in beat[h].since .. now :
          devices' = [devices EXCEPT ![beat[h].device] =
                          BeatRow(@, beat[h].loaded, stamp)]
    /\ beat' = [beat EXCEPT ![h] = NoBeat]
    /\ UNCHANGED <<minted, now>>

\* The row was deleted meanwhile (the UPDATE matches no row and the flush
\* raises), or the request dies before its commit.
BeatAbort(h) ==
    /\ beat[h].pc = "authenticated"
    /\ beat' = [beat EXCEPT ![h] = NoBeat]
    /\ UNCHANGED <<devices, minted, now>>

Tick ==
    /\ now < MaxTime
    /\ now' = now + 1
    /\ UNCHANGED <<devices, minted, beat>>

DevicesNext ==
    \/ \E d \in DeviceIds :
          \/ \E enabled \in BOOLEAN : SetEnabled(d, enabled)
          \/ RotateCredential(d)
          \/ RevokeCredential(d)
          \/ DeleteDevice(d)
    \/ \E h \in Beats :
          \/ \E d \in DeviceIds : BeatAuth(h, d)
          \/ BeatCommit(h)
          \/ BeatAbort(h)
    \/ Tick

-----------------------------------------------------------------------------

\* Every row has its type, and holds only secrets that were generated and
\* times that have come.
DevicesTypeOK ==
    /\ devices \in [DeviceIds -> Row]
    /\ minted \in 0 .. MaxMint
    /\ now \in 0 .. MaxTime
    /\ beat \in [Beats -> Beat]
    /\ \A d \in DeviceIds :
          /\ devices[d].cred <= minted
          /\ devices[d].mqtt <= minted
          /\ devices[d].lastSeen <= now

\* No two devices answer to the same machine: whatever the machine behind a
\* device reports, it cannot be taken for another one (the docs' "device ID
\* is stable", and one organization per machine).
NoDuplicateIdentity ==
    \A d, e \in Live : d # e => ~Matches(devices[d], devices[e])

\* A credential leaves a row for good: what replaces it is NULL or a secret
\* generated after every other one, so no stale session puts back a
\* credential that was rotated or revoked.
SupersededCredentialStaysDead ==
    [][\A d \in DeviceIds :
          devices'[d].cred # devices[d].cred =>
              devices'[d].cred = NULL \/ devices'[d].cred > minted]_devices

\* Only the operator, or a registration or claim that gives the device a new
\* credential, enables a disabled device again: a request that was already
\* running when it was disabled does not.
DisabledUntilReenabled ==
    [][\A d \in Live :
          ~devices[d].enabled /\ devices'[d].enabled =>
              SetEnabled(d, TRUE) \/ devices'[d].cred > minted]_devices
=============================================================================
