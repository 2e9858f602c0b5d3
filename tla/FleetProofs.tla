----------------------------- MODULE FleetProofs -----------------------------
(***************************************************************************)
(* Theorems about the fleet, for any number of organizations, tokens, keys,*)
(* requests, devices and concurrent sessions: first facts about the        *)
(* devices table, then Registration, then Enrollment, then both together.  *)
(***************************************************************************)
EXTENDS Fleet, TLAPS

(***************************************************************************)
(* The devices table.                                                      *)
(***************************************************************************)

\* Two machines are told apart, or not, whichever is asked about the other.
LEMMA MatchesSymmetric ==
    ASSUME NEW a, NEW b, Matches(a, b)
    PROVE  Matches(b, a)
BY DEF Matches

\* The SQL query loses no device that the identity matches: the hits are
\* exactly the devices that match.
LEMMA HitsAreTheMatches ==
    ASSUME NEW ident, NEW rows, NEW ids
    PROVE  Hits(ident, rows, ids) = {d \in ids : Matches(ident, rows[d])}
BY DEF Hits, Candidates, Matches

\* The row of a device that was never there, or is gone.
LEMMA BlankType == Blank \in Row
<1>1. (CHOOSE o \in Orgs : TRUE) \in Orgs
  BY DevicesAssumption
<1> QED
  BY <1>1 DEF Blank, Row, NULL

\* A registered or claimed device is inserted as a complete row.
LEMMA CreatedRowType ==
    ASSUME minted \in Nat, NEW org \in Orgs, NEW ident \in Identity,
           NEW token \in Tokens \cup {NoToken}, NEW stamp \in Nat
    PROVE  CreatedRow(org, ident, token, stamp) \in Row
<1>1. /\ NextSecret \in Nat
      /\ ident.serial \in Serials \cup {NoSerial}
      /\ ident.macs \in SUBSET Macs
  BY DEF NextSecret, Identity
<1> QED
  BY <1>1 DEF CreatedRow, Row

\* A flush over a row, column by column, leaves a row.
LEMMA UpdatedRowType ==
    ASSUME minted \in Nat, NEW row \in Row, NEW loaded, NEW ident \in Identity,
           NEW token \in Tokens \cup {NoToken}, NEW stamp \in Nat
    PROVE  UpdatedRow(row, loaded, ident, token, stamp) \in Row
<1>1. /\ NextSecret \in Nat
      /\ ident.serial \in Serials \cup {NoSerial}
      /\ ident.macs \in SUBSET Macs
  BY DEF NextSecret, Identity
<1>2. /\ Column(row.serial, loaded.serial, ident.serial)
            \in Serials \cup {NoSerial}
      /\ Column(row.macs, loaded.macs, ident.macs) \in SUBSET Macs
      /\ Column(row.enabled, loaded.enabled, TRUE) \in BOOLEAN
      /\ Column(row.token, loaded.token, token) \in Tokens \cup {NoToken}
      /\ Column(row.lastSeen, loaded.lastSeen, stamp) \in Nat
  BY <1>1 DEF Column, Row
<1> QED
  BY <1>1, <1>2 DEF UpdatedRow, Row

\* The empty table has its type.
LEMMA DevicesInitType == DevicesInit => DevicesTypeOK
<1>1. NoBeat \in Beat
  BY BlankType DEF NoBeat, Beat
<1>2. Blank.cred = 0 /\ Blank.mqtt = 0 /\ Blank.lastSeen = 0
  BY DEF Blank, NULL
<1> QED
  BY <1>1, <1>2, BlankType, DevicesAssumption DEF DevicesInit, DevicesTypeOK

\* The operator's actions, the heartbeats and the clock keep the type.
LEMMA DevicesNextType == DevicesTypeOK /\ DevicesNext => DevicesTypeOK'
<1> SUFFICES ASSUME DevicesTypeOK, DevicesNext
             PROVE  DevicesTypeOK'
  OBVIOUS
<1> USE DevicesAssumption DEF DevicesTypeOK
<1>1. ASSUME NEW d \in DeviceIds, NEW enabled \in BOOLEAN,
             SetEnabled(d, enabled)
      PROVE  DevicesTypeOK'
  BY <1>1 DEF SetEnabled, Row
<1>2. ASSUME NEW d \in DeviceIds, RotateCredential(d)
      PROVE  DevicesTypeOK'
  BY <1>2 DEF RotateCredential, Mint, NextSecret, Row
<1>3. ASSUME NEW d \in DeviceIds, RevokeCredential(d)
      PROVE  DevicesTypeOK'
  BY <1>3 DEF RevokeCredential, NULL, Row
<1>4. ASSUME NEW d \in DeviceIds, DeleteDevice(d)
      PROVE  DevicesTypeOK'
  <2>1. [Blank EXCEPT !.state = "deleted"] \in Row
    BY BlankType DEF Row
  <2> QED
    BY <1>4, <2>1 DEF DeleteDevice, Blank, NULL
<1>5. ASSUME NEW h \in Beats, NEW d \in DeviceIds, BeatAuth(h, d)
      PROVE  DevicesTypeOK'
  BY <1>5 DEF BeatAuth, Beat
<1>6. ASSUME NEW h \in Beats, BeatCommit(h)
      PROVE  DevicesTypeOK'
  <2>1. PICK stamp \in beat[h].since .. now :
            devices' = [devices EXCEPT ![beat[h].device] =
                            BeatRow(@, beat[h].loaded, stamp)]
    BY <1>6 DEF BeatCommit
  <2>2. stamp \in Nat /\ stamp <= now
    BY <2>1 DEF Beat
  <2>3. NoBeat \in Beat
    BY BlankType DEF NoBeat, Beat
  <2>4. /\ beat' \in [Beats -> Beat]
        /\ UNCHANGED <<minted, now>>
    BY <1>6, <2>3 DEF BeatCommit
  <2>5. ASSUME NEW d \in DeviceIds
        PROVE  /\ devices'[d] \in Row
               /\ devices'[d].cred = devices[d].cred
               /\ devices'[d].mqtt = devices[d].mqtt
               /\ devices'[d].lastSeen <= now
    BY <2>1, <2>2 DEF BeatRow, Column, Row
  <2> QED
    BY <2>1, <2>4, <2>5
<1>7. ASSUME NEW h \in Beats, BeatAbort(h)
      PROVE  DevicesTypeOK'
  <2>1. NoBeat \in Beat
    BY BlankType DEF NoBeat, Beat
  <2> QED
    BY <1>7, <2>1 DEF BeatAbort
<1>8. CASE Tick
  BY <1>8 DEF Tick, Row
<1> QED
  BY <1>1, <1>2, <1>3, <1>4, <1>5, <1>6, <1>7, <1>8 DEF DevicesNext

\* None of them creates a device, or writes its tenant, its token or what
\* identifies it.
LEMMA DevicesNextKeeps ==
    ASSUME DevicesTypeOK, DevicesNext, NEW d \in DeviceIds, d \in Live'
    PROVE  /\ d \in Live
           /\ devices'[d].org = devices[d].org
           /\ devices'[d].token = devices[d].token
           /\ devices'[d].serial = devices[d].serial
           /\ devices'[d].macs = devices[d].macs
<1> DEFINE Kept == /\ d \in Live
                   /\ devices'[d].org = devices[d].org
                   /\ devices'[d].token = devices[d].token
                   /\ devices'[d].serial = devices[d].serial
                   /\ devices'[d].macs = devices[d].macs
<1> USE DEF DevicesTypeOK, Row, Live
<1>1. ASSUME NEW e \in DeviceIds, NEW enabled \in BOOLEAN,
             SetEnabled(e, enabled)
      PROVE  Kept
  BY <1>1 DEF SetEnabled
<1>2. ASSUME NEW e \in DeviceIds, RotateCredential(e) \/ RevokeCredential(e)
      PROVE  Kept
  BY <1>2 DEF RotateCredential, RevokeCredential
<1>3. ASSUME NEW e \in DeviceIds, DeleteDevice(e)
      PROVE  Kept
  BY <1>3 DEF DeleteDevice
<1>4. ASSUME NEW h \in Beats, BeatCommit(h)
      PROVE  Kept
  BY <1>4 DEF BeatCommit, BeatRow
<1>5. ASSUME UNCHANGED devices
      PROVE  Kept
  BY <1>5
<1> QED
  BY <1>1, <1>2, <1>3, <1>4, <1>5 DEF DevicesNext, BeatAuth, BeatAbort, Tick

\* A row that was ever used is not used again.
LEMMA DevicesNextKeepsUsed ==
    ASSUME DevicesTypeOK, DevicesNext, NEW d \in DeviceIds,
           devices[d].state # "absent"
    PROVE  devices'[d].state # "absent"
<1> USE DEF DevicesTypeOK, Row, Live
<1>1. ASSUME NEW e \in DeviceIds, NEW enabled \in BOOLEAN,
             SetEnabled(e, enabled)
      PROVE  devices'[d].state # "absent"
  BY <1>1 DEF SetEnabled
<1>2. ASSUME NEW e \in DeviceIds, RotateCredential(e) \/ RevokeCredential(e)
      PROVE  devices'[d].state # "absent"
  BY <1>2 DEF RotateCredential, RevokeCredential
<1>3. ASSUME NEW e \in DeviceIds, DeleteDevice(e)
      PROVE  devices'[d].state # "absent"
  BY <1>3 DEF DeleteDevice, Blank
<1>4. ASSUME NEW h \in Beats, BeatCommit(h)
      PROVE  devices'[d].state # "absent"
  BY <1>4 DEF BeatCommit, BeatRow
<1>5. ASSUME UNCHANGED devices
      PROVE  devices'[d].state # "absent"
  BY <1>5
<1> QED
  BY <1>1, <1>2, <1>3, <1>4, <1>5 DEF DevicesNext, BeatAuth, BeatAbort, Tick

-----------------------------------------------------------------------------
(***************************************************************************)
(* Registration with tokens.                                               *)
(***************************************************************************)

\* What a session read of its token still bounds the token: organization and
\* cap never change, and the counter it read, which was below the cap, was
\* covered by registrations that stay committed.
SessionFollowsToken ==
    \A w \in Workers :
        reg[w].pc # "idle" =>
            /\ reg[w].token \in Tokens
            /\ tokens[reg[w].token].created
            /\ tokens[reg[w].token].org = reg[w].row.org
            /\ tokens[reg[w].token].max = reg[w].row.max
            /\ reg[w].row.uses <= registrations[reg[w].token]
            /\ reg[w].row.max # NoCap => reg[w].row.uses < reg[w].row.max

\* The device a session matched was there, and as long as it exists it is in
\* the tenant of the session's token.
RegMatchedInTenant ==
    \A w \in Workers :
        /\ reg[w].pc = "validated" => reg[w].device = NoDevice
        /\ reg[w].pc = "matched" /\ reg[w].device # NoDevice =>
               devices[reg[w].device].state # "absent"
        /\ reg[w].pc = "matched" /\ reg[w].device \in Live =>
               devices[reg[w].device].org = reg[w].row.org

CountInv ==
    /\ SessionFollowsToken
    /\ UseCountWithinCap
    /\ UseCountNeverOvercounts

RegTenancyInv == RegMatchedInTenant /\ TokenOwnsItsDevices

-----------------------------------------------------------------------------

\* The value of an idle session.
LEMMA NoRegType == NoReg \in RegSession /\ NoTokenRow \in Token
<1>1. (CHOOSE o \in Orgs : TRUE) \in Orgs
  BY DevicesAssumption
<1>2. NoTokenRow \in Token
  BY <1>1 DEF NoTokenRow, Token, NoCap, Never
<1> QED
  BY <1>2, BlankType DEF NoReg, RegSession, NoIdentity, Identity

\* The initial state has its type.
LEMMA RegistrationInitType == RegistrationInit => RegistrationTypeOK
BY DevicesInitType, NoRegType DEF RegistrationInit, RegistrationTypeOK

\* The commit of a registration inserts one row or updates one, and both are
\* rows that hold the new secret.
LEMMA RegCommitWrites ==
    ASSUME RegistrationTypeOK, NEW w \in Workers, RegCommit(w),
           reg[w].token \in Tokens
    PROVE  \E d \in DeviceIds, stamp \in Nat :
              /\ stamp <= now
              /\ \/ /\ reg[w].device = NoDevice
                    /\ devices[d].state = "absent"
                    /\ devices' = [devices EXCEPT ![d] =
                           CreatedRow(reg[w].row.org, reg[w].ident,
                                      reg[w].token, stamp)]
                 \/ /\ d = reg[w].device
                    /\ d \in Live
                    /\ devices' = [devices EXCEPT ![d] =
                           UpdatedRow(devices[d], reg[w].loaded, reg[w].ident,
                                      reg[w].token, stamp)]
              /\ devices'[d] \in Row
              /\ devices'[d].cred = minted + 1
              /\ devices'[d].mqtt = minted + 1
              /\ devices'[d].lastSeen <= now
<1> USE DEF RegistrationTypeOK, DevicesTypeOK
<1>1. PICK stamp \in reg[w].since .. now : RegWrite(w, stamp)
  BY DEF RegCommit
<1>2. /\ reg[w] \in RegSession
      /\ minted \in Nat
      /\ now \in Nat
  BY DevicesAssumption
<1>3. stamp \in Nat /\ stamp <= now
  BY <1>1, <1>2 DEF RegSession
<1>4. /\ reg[w].row.org \in Orgs
      /\ reg[w].ident \in Identity
  BY <1>2 DEF RegSession, Token
<1>5. ASSUME NEW d \in DeviceIds, devices[d].state = "absent",
             devices' = [devices EXCEPT ![d] =
                CreatedRow(reg[w].row.org, reg[w].ident, reg[w].token, stamp)]
      PROVE  /\ devices'[d] \in Row
             /\ devices'[d].cred = minted + 1
             /\ devices'[d].mqtt = minted + 1
             /\ devices'[d].lastSeen <= now
  <2>1. devices'[d] =
            CreatedRow(reg[w].row.org, reg[w].ident, reg[w].token, stamp)
    BY <1>5
  <2>2. devices'[d] \in Row
    BY <2>1, <1>2, <1>3, <1>4, CreatedRowType
  <2> QED
    BY <2>1, <2>2, <1>3 DEF CreatedRow, NextSecret
<1>6. ASSUME NEW d \in DeviceIds, d = reg[w].device, d \in Live,
             devices' = [devices EXCEPT ![d] =
                UpdatedRow(devices[d], reg[w].loaded, reg[w].ident,
                           reg[w].token, stamp)]
      PROVE  /\ devices'[d] \in Row
             /\ devices'[d].cred = minted + 1
             /\ devices'[d].mqtt = minted + 1
             /\ devices'[d].lastSeen <= now
  <2>1. devices'[d] = UpdatedRow(devices[d], reg[w].loaded, reg[w].ident,
                                 reg[w].token, stamp)
    BY <1>6
  <2>2. devices'[d] \in Row
    BY <2>1, <1>2, <1>3, <1>4, UpdatedRowType
  <2> QED
    BY <2>1, <2>2, <1>3 DEF UpdatedRow, NextSecret, Column
<1>7. CASE /\ reg[w].device = NoDevice
           /\ \E d \in DeviceIds :
                 /\ devices[d].state = "absent"
                 /\ devices' = [devices EXCEPT ![d] =
                        CreatedRow(reg[w].row.org, reg[w].ident,
                                   reg[w].token, stamp)]
  BY <1>7, <1>5, <1>3
<1>8. CASE /\ reg[w].device \in Live
           /\ devices' = [devices EXCEPT ![reg[w].device] =
                  UpdatedRow(@, reg[w].loaded, reg[w].ident, reg[w].token,
                             stamp)]
  BY <1>8, <1>6, <1>3 DEF Live
<1> QED
  BY <1>1, <1>7, <1>8 DEF RegWrite

\* Every step keeps the types.
LEMMA RegistrationTypeStep ==
    RegistrationTypeOK /\ SessionFollowsToken
        /\ [RegistrationNext]_registrationVars => RegistrationTypeOK'
<1> SUFFICES ASSUME RegistrationTypeOK, SessionFollowsToken,
                    [RegistrationNext]_registrationVars
             PROVE  RegistrationTypeOK'
  OBVIOUS
<1> USE DEF RegistrationTypeOK
<1>a. UNCHANGED deviceVars => DevicesTypeOK'
  BY DEF DevicesTypeOK, deviceVars
<1>b. ASSUME UNCHANGED tokenVars
      PROVE  /\ tokens' \in [Tokens -> Token]
             /\ reg' \in [Workers -> RegSession]
             /\ registrations' \in [Tokens -> Nat]
  BY <1>b DEF tokenVars
<1>1. ASSUME NEW t \in Tokens, NEW org \in Orgs, NEW max \in Caps,
             NEW expires \in Expiries, CreateToken(t, org, max, expires)
      PROVE  RegistrationTypeOK'
  <2>1. [created |-> TRUE, org |-> org, max |-> max, uses |-> 0,
         revoked |-> FALSE, expires |-> expires] \in Token
    BY RegistrationAssumption DEF Token
  <2> QED
    BY <1>1, <1>a, <2>1 DEF CreateToken
<1>2. ASSUME NEW t \in Tokens, RevokeToken(t)
      PROVE  RegistrationTypeOK'
  BY <1>2, <1>a DEF RevokeToken, Token
<1>3. ASSUME NEW w \in Workers, NEW t \in Tokens, RegValidate(w, t)
      PROVE  RegistrationTypeOK'
  <2>1. [NoReg EXCEPT !.pc = "validated", !.token = t, !.row = tokens[t]]
            \in RegSession
    BY NoRegType DEF RegSession
  <2> QED
    BY <1>3, <1>a, <2>1 DEF RegValidate
<1>4. ASSUME NEW w \in Workers, NEW ident \in Identity, RegMatch(w, ident)
      PROVE  RegistrationTypeOK'
  <2>1. now \in Nat /\ devices \in [DeviceIds -> Row]
    BY DevicesAssumption DEF DevicesTypeOK
  <2>2. Hits(ident, devices, Live) \subseteq DeviceIds
    BY DEF Hits, Candidates, Live
  <2>3. reg[w] \in RegSession
    OBVIOUS
  <2>4. [reg[w] EXCEPT !.pc = "matched", !.ident = ident, !.since = now]
            \in RegSession
    BY <2>1, <2>3 DEF RegSession
  <2>5. ASSUME NEW d \in DeviceIds
        PROVE  [reg[w] EXCEPT !.pc = "matched", !.ident = ident, !.device = d,
                              !.loaded = devices[d], !.since = now]
                   \in RegSession
    BY <2>1, <2>3 DEF RegSession
  <2>6. reg' \in [Workers -> RegSession]
    BY ZenonT(30), <1>4, <2>2, <2>4, <2>5 DEF RegMatch
  <2> QED
    BY <1>4, <1>a, <2>6 DEF RegMatch
<1>5. ASSUME NEW w \in Workers, NEW ident \in Identity, RegConflict(w, ident)
      PROVE  RegistrationTypeOK'
  BY <1>5, <1>a, NoRegType DEF RegConflict
<1>6. ASSUME NEW w \in Workers, RegCommit(w)
      PROVE  RegistrationTypeOK'
  <2>1. /\ reg[w].token \in Tokens
        /\ reg[w].row \in Token
    BY <1>6 DEF RegCommit, SessionFollowsToken, RegSession
  <2>2. tokens' \in [Tokens -> Token]
    BY <1>6, <2>1 DEF RegCommit, RegCount, Token
  <2>3. reg' \in [Workers -> RegSession] /\ registrations' \in [Tokens -> Nat]
    BY <1>6, <2>1, NoRegType DEF RegCommit
  <2>4. DevicesTypeOK'
    <3>1. PICK d \in DeviceIds :
              /\ \E row : devices' = [devices EXCEPT ![d] = row]
              /\ devices'[d] \in Row
              /\ devices'[d].cred = minted + 1
              /\ devices'[d].mqtt = minted + 1
              /\ devices'[d].lastSeen <= now
      BY <1>6, <2>1, RegCommitWrites
    <3>2. /\ minted' = minted + 1
          /\ minted' \in 0 .. MaxMint
          /\ UNCHANGED <<now, beat>>
      BY <1>6, DevicesAssumption DEF RegCommit, Mint, DevicesTypeOK
    <3>3. ASSUME NEW e \in DeviceIds, e # d
          PROVE  devices'[e] = devices[e]
      BY <3>1, <3>3 DEF DevicesTypeOK
    <3>4. ASSUME NEW e \in DeviceIds
          PROVE  /\ devices'[e] \in Row
                 /\ devices'[e].cred <= minted'
                 /\ devices'[e].mqtt <= minted'
                 /\ devices'[e].lastSeen <= now'
      <4>1. CASE e = d
        BY <4>1, <3>1, <3>2
      <4>2. CASE e # d
        BY <4>2, <3>2, <3>3 DEF DevicesTypeOK, Row
      <4> QED
        BY <4>1, <4>2
    <3>5. devices' \in [DeviceIds -> Row]
      <4>1. PICK row : devices' = [devices EXCEPT ![d] = row]
        BY <3>1
      <4>2. devices' = [e \in DeviceIds |-> devices'[e]]
        BY <4>1 DEF DevicesTypeOK
      <4> QED
        BY <3>4, <4>2
    <3> QED
      BY <3>2, <3>4, <3>5 DEF DevicesTypeOK
  <2> QED
    BY <2>2, <2>3, <2>4
<1>7. ASSUME NEW w \in Workers, RegAbort(w)
      PROVE  RegistrationTypeOK'
  BY <1>7, <1>a, NoRegType DEF RegAbort
<1>8. CASE DevicesNext /\ UNCHANGED tokenVars
  BY <1>8, <1>b, DevicesNextType
<1>9. CASE UNCHANGED registrationVars
  BY <1>9, <1>a, <1>b DEF registrationVars, deviceVars, tokenVars
<1> QED
  BY <1>1, <1>2, <1>3, <1>4, <1>5, <1>6, <1>7, <1>8, <1>9
  DEF RegistrationNext, RegistrationStep

-----------------------------------------------------------------------------
(* The counter of a token.  A commit writes the counter its session read,  *)
(* plus one: that is within the cap because the value read was below it,   *)
(* and not ahead of the registrations because the value read was not, and  *)
(* registrations only grow.                                                *)

\* Every step keeps the sessions and the counters in their bounds.
LEMMA CountStep ==
    RegistrationTypeOK /\ CountInv /\ [RegistrationNext]_registrationVars
        => CountInv'
<1> SUFFICES ASSUME RegistrationTypeOK, CountInv,
                    [RegistrationNext]_registrationVars
             PROVE  CountInv'
  OBVIOUS
<1> USE DEF RegistrationTypeOK, CountInv, SessionFollowsToken,
            UseCountWithinCap, UseCountNeverOvercounts
<1>1. ASSUME NEW t \in Tokens, NEW org \in Orgs, NEW max \in Caps,
             NEW expires \in Expiries, CreateToken(t, org, max, expires)
      PROVE  CountInv'
  <2>1. /\ tokens'[t].uses = 0
        /\ tokens'[t].max \in Nat
        /\ \A u \in Tokens : u # t => tokens'[u] = tokens[u]
        /\ ~tokens[t].created
        /\ UNCHANGED <<reg, registrations>>
    BY <1>1, RegistrationAssumption DEF CreateToken
  <2>2. UseCountWithinCap' /\ UseCountNeverOvercounts'
    BY <2>1 DEF Token
  <2>3. SessionFollowsToken'
    BY <2>1
  <2> QED
    BY <2>2, <2>3
<1>2. ASSUME NEW t \in Tokens, RevokeToken(t)
      PROVE  CountInv'
  <2>1. /\ \A u \in Tokens : /\ tokens'[u].created = tokens[u].created
                             /\ tokens'[u].org = tokens[u].org
                             /\ tokens'[u].max = tokens[u].max
                             /\ tokens'[u].uses = tokens[u].uses
        /\ UNCHANGED <<reg, registrations>>
    BY <1>2 DEF RevokeToken, Token
  <2> QED
    BY <2>1
<1>3. ASSUME NEW w \in Workers, NEW t \in Tokens, RegValidate(w, t)
      PROVE  CountInv'
  <2>1. /\ reg'[w].token = t
        /\ reg'[w].row = tokens[t]
        /\ \A v \in Workers : v # w => reg'[v] = reg[v]
        /\ UNCHANGED <<tokens, registrations>>
    BY <1>3 DEF RegValidate, NoReg
  <2>2. /\ tokens[t].created
        /\ tokens[t].max # NoCap => tokens[t].uses < tokens[t].max
    BY <1>3 DEF RegValidate, Usable
  <2> QED
    BY <2>1, <2>2
<1>4. ASSUME NEW w \in Workers, NEW ident \in Identity, RegMatch(w, ident)
      PROVE  CountInv'
  <2>1. /\ reg[w].pc = "validated"
        /\ reg'[w].token = reg[w].token
        /\ reg'[w].row = reg[w].row
        /\ \A v \in Workers : v # w => reg'[v] = reg[v]
        /\ UNCHANGED <<tokens, registrations>>
    BY ZenonT(30), <1>4 DEF RegMatch, RegSession
  <2> QED
    BY <2>1
<1>5. ASSUME NEW w \in Workers,
             \/ RegAbort(w)
             \/ \E ident \in Identity : RegConflict(w, ident)
      PROVE  CountInv'
  <2>1. /\ reg'[w].pc = "idle"
        /\ \A v \in Workers : v # w => reg'[v] = reg[v]
        /\ UNCHANGED <<tokens, registrations>>
    BY <1>5 DEF RegAbort, RegConflict, NoReg
  <2> QED
    BY <2>1
<1>6. ASSUME NEW w \in Workers, RegCommit(w)
      PROVE  CountInv'
  <2> DEFINE t == reg[w].token
  <2>1. /\ t \in Tokens
        /\ reg[w].row \in Token
    BY <1>6 DEF RegCommit, RegSession
  <2>2. /\ tokens'[t] = [tokens[t] EXCEPT !.uses = reg[w].row.uses + 1]
        /\ registrations'[t] = registrations[t] + 1
        /\ \A u \in Tokens : u # t => /\ tokens'[u] = tokens[u]
                                      /\ registrations'[u] = registrations[u]
    BY <1>6, <2>1 DEF RegCommit, RegCount
  <2>3. /\ reg'[w].pc = "idle"
        /\ \A v \in Workers : v # w => reg'[v] = reg[v]
    BY <1>6 DEF RegCommit, NoReg
  <2>4. /\ tokens'[t].created = tokens[t].created
        /\ tokens'[t].org = tokens[t].org
        /\ tokens'[t].max = tokens[t].max
        /\ tokens'[t].uses = reg[w].row.uses + 1
    BY <2>1, <2>2 DEF Token
  <2>5. /\ reg[w].row.uses + 1 <= registrations[t] + 1
        /\ tokens[t].max # NoCap => reg[w].row.uses + 1 <= tokens[t].max
    <3>1. reg[w].row.uses \in Nat /\ reg[w].row.max \in Nat
      BY <2>1 DEF Token
    <3>2. reg[w].pc # "idle"
      BY <1>6 DEF RegCommit
    <3> QED
      BY <2>1, <3>1, <3>2
  <2>6. UseCountWithinCap' /\ UseCountNeverOvercounts'
    <3>1. ASSUME NEW u \in Tokens, u # t
          PROVE  /\ tokens'[u].max # NoCap => tokens'[u].uses <= tokens'[u].max
                 /\ tokens'[u].uses <= registrations'[u]
      BY <2>2, <3>1
    <3>2. /\ tokens'[t].max # NoCap => tokens'[t].uses <= tokens'[t].max
          /\ tokens'[t].uses <= registrations'[t]
      BY <2>2, <2>4, <2>5
    <3> QED
      BY <3>1, <3>2
  <2>7. SessionFollowsToken'
    <3> SUFFICES ASSUME NEW v \in Workers, reg'[v].pc # "idle"
                 PROVE  /\ reg'[v].token \in Tokens
                        /\ tokens'[reg'[v].token].created
                        /\ tokens'[reg'[v].token].org = reg'[v].row.org
                        /\ tokens'[reg'[v].token].max = reg'[v].row.max
                        /\ reg'[v].row.uses <= registrations'[reg'[v].token]
                        /\ reg'[v].row.max # NoCap =>
                               reg'[v].row.uses < reg'[v].row.max
      OBVIOUS
    <3>1. reg'[v] = reg[v] /\ reg[v].pc # "idle"
      BY <2>3
    <3>2. reg[v].row.uses \in Nat
      BY DEF RegSession, Token
    <3>3. registrations[reg[v].token] <= registrations'[reg[v].token]
      BY <2>2, <3>1
    <3>4. /\ tokens'[reg[v].token].created
          /\ tokens'[reg[v].token].org = tokens[reg[v].token].org
          /\ tokens'[reg[v].token].max = tokens[reg[v].token].max
      BY <2>2, <2>4, <3>1
    <3>5. reg[v].row.uses <= registrations'[reg[v].token]
      <4>1. /\ reg[v].row.uses <= registrations[reg[v].token]
            /\ reg[v].token \in Tokens
        BY <3>1
      <4>2. /\ registrations[reg[v].token] \in Nat
            /\ registrations'[reg[v].token] \in Nat
        BY <2>2, <4>1
      <4> QED
        BY <3>2, <3>3, <4>1, <4>2
    <3> QED
      BY <3>1, <3>4, <3>5
  <2> QED
    BY <2>6, <2>7
<1>7. CASE UNCHANGED tokenVars
  BY <1>7 DEF tokenVars
<1> QED
  BY <1>1, <1>2, <1>3, <1>4, <1>5, <1>6, <1>7
  DEF RegistrationNext, RegistrationStep, registrationVars, tokenVars

-----------------------------------------------------------------------------
(* Tenancy.  A session only updates a device it found in the organization  *)
(* of its token, and neither the device nor the token can change tenant    *)
(* before the commit.                                                      *)

\* A step that leaves the sessions alone, keeps every live device's tenant
\* and token, and every created token's tenant, keeps the tenancy.
LEMMA RegTenancyKept ==
    ASSUME RegistrationTypeOK, RegTenancyInv, UNCHANGED reg,
           \A d \in Live' : /\ d \in Live
                            /\ devices'[d].org = devices[d].org
                            /\ devices'[d].token = devices[d].token,
           \A d \in DeviceIds :
              devices[d].state # "absent" => devices'[d].state # "absent",
           \A t \in Tokens : tokens[t].created =>
                            /\ tokens'[t].created
                            /\ tokens'[t].org = tokens[t].org
    PROVE  RegTenancyInv'
<1>1. RegMatchedInTenant'
  <2>1. \A w \in Workers : reg[w].device \in DeviceIds \cup {NoDevice}
    BY DEF RegistrationTypeOK, RegSession
  <2> QED
    BY <2>1 DEF RegTenancyInv, RegMatchedInTenant
<1>2. ASSUME NEW d \in Live', devices'[d].token # NoToken
      PROVE  /\ tokens'[devices'[d].token].created
             /\ tokens'[devices'[d].token].org = devices'[d].org
  <2>1. /\ d \in Live
        /\ d \in DeviceIds
        /\ devices'[d].org = devices[d].org
        /\ devices'[d].token = devices[d].token
    BY DEF Live
  <2>2. devices[d].token \in Tokens
    BY <1>2, <2>1 DEF RegistrationTypeOK, DevicesTypeOK, Row
  <2>3. /\ tokens[devices[d].token].created
        /\ tokens[devices[d].token].org = devices[d].org
    BY <1>2, <2>1 DEF RegTenancyInv, TokenOwnsItsDevices
  <2> QED
    BY <2>1, <2>2, <2>3
<1> QED
  BY <1>1, <1>2 DEF RegTenancyInv, TokenOwnsItsDevices

\* A commit puts its device where the session's token is.
LEMMA RegTenancyCommit ==
    ASSUME RegistrationTypeOK, SessionFollowsToken, RegTenancyInv,
           NEW w \in Workers, RegCommit(w)
    PROVE  RegTenancyInv'
<1>1. /\ reg[w].pc = "matched"
      /\ reg[w].token \in Tokens
      /\ tokens[reg[w].token].created
      /\ tokens[reg[w].token].org = reg[w].row.org
  BY DEF RegCommit, SessionFollowsToken
<1>2. PICK d \in DeviceIds, stamp \in Nat :
          \/ /\ devices[d].state = "absent"
             /\ devices' = [devices EXCEPT ![d] =
                    CreatedRow(reg[w].row.org, reg[w].ident,
                               reg[w].token, stamp)]
          \/ /\ d = reg[w].device
             /\ d \in Live
             /\ devices' = [devices EXCEPT ![d] =
                    UpdatedRow(devices[d], reg[w].loaded, reg[w].ident,
                               reg[w].token, stamp)]
  BY <1>1, RegCommitWrites
<1>3. \A t \in Tokens : /\ tokens'[t].created = tokens[t].created
                        /\ tokens'[t].org = tokens[t].org
  BY <1>1 DEF RegCommit, RegCount, RegistrationTypeOK, Token
<1>4. \A e \in DeviceIds : e # d => devices'[e] = devices[e]
  BY <1>2 DEF RegistrationTypeOK, DevicesTypeOK
<1>5. /\ d \in Live => devices'[d].org = devices[d].org
      /\ devices'[d].state = "live"
  <2>1. CASE /\ devices[d].state = "absent"
             /\ devices' = [devices EXCEPT ![d] =
                    CreatedRow(reg[w].row.org, reg[w].ident,
                               reg[w].token, stamp)]
    BY <2>1 DEF CreatedRow, Live, RegistrationTypeOK, DevicesTypeOK
  <2>2. CASE /\ d \in Live
             /\ devices' = [devices EXCEPT ![d] =
                    UpdatedRow(devices[d], reg[w].loaded, reg[w].ident,
                               reg[w].token, stamp)]
    BY <2>2 DEF UpdatedRow, Live, RegistrationTypeOK, DevicesTypeOK
  <2> QED
    BY <1>2, <2>1, <2>2
<1>6. /\ devices'[d].org = reg[w].row.org
      /\ \/ devices'[d].token = reg[w].token
         \/ d \in Live /\ devices'[d].token = devices[d].token
  <2>1. CASE /\ devices[d].state = "absent"
             /\ devices' = [devices EXCEPT ![d] =
                    CreatedRow(reg[w].row.org, reg[w].ident,
                               reg[w].token, stamp)]
    BY <2>1 DEF CreatedRow, RegistrationTypeOK, DevicesTypeOK
  <2>2. CASE /\ d = reg[w].device
             /\ d \in Live
             /\ devices' = [devices EXCEPT ![d] =
                    UpdatedRow(devices[d], reg[w].loaded, reg[w].ident,
                               reg[w].token, stamp)]
    <3>1. devices[d].org = reg[w].row.org
      BY <1>1, <2>2 DEF RegTenancyInv, RegMatchedInTenant
    <3> QED
      BY <2>2, <3>1
      DEF UpdatedRow, Column, RegistrationTypeOK, DevicesTypeOK
  <2> QED
    BY <1>2, <2>1, <2>2
<1>7. RegMatchedInTenant'
  <2> SUFFICES ASSUME NEW v \in Workers
               PROVE  /\ reg'[v].pc = "validated" => reg'[v].device = NoDevice
                      /\ reg'[v].pc = "matched" /\ reg'[v].device # NoDevice =>
                            devices'[reg'[v].device].state # "absent"
                      /\ reg'[v].pc = "matched" /\ reg'[v].device \in Live' =>
                            devices'[reg'[v].device].org = reg'[v].row.org
    BY DEF RegMatchedInTenant
  <2>1. CASE v = w
    BY <2>1 DEF RegCommit, NoReg, RegistrationTypeOK
  <2>2. CASE v # w
    <3>1. reg'[v] = reg[v]
      BY <2>2 DEF RegCommit, RegistrationTypeOK
    <3>2. ASSUME reg[v].pc = "matched", reg[v].device # NoDevice
          PROVE  /\ reg[v].device \in DeviceIds
                 /\ devices[reg[v].device].state # "absent"
                 /\ devices'[reg[v].device].state # "absent"
      <4>1. /\ reg[v].device \in DeviceIds
            /\ devices[reg[v].device].state # "absent"
        BY <3>2
        DEF RegistrationTypeOK, RegSession, RegTenancyInv, RegMatchedInTenant
      <4> QED
        BY <4>1, <1>4, <1>5
    <3>3. ASSUME reg[v].pc = "matched", reg[v].device \in Live'
          PROVE  devices'[reg[v].device].org = reg[v].row.org
      <4>1. reg[v].device \in DeviceIds /\ reg[v].device # NoDevice
        BY <3>3, DevicesAssumption DEF Live
      <4>2. devices[reg[v].device].state # "absent"
        BY <3>2, <3>3, <4>1
      <4>3. reg[v].device \in Live
        BY <1>2, <1>4, <3>3, <4>1, <4>2 DEF Live
      <4> QED
        BY <1>4, <1>5, <3>3, <4>1, <4>3 DEF RegTenancyInv, RegMatchedInTenant
    <3> QED
      BY <3>1, <3>2, <3>3 DEF RegTenancyInv, RegMatchedInTenant
  <2> QED
    BY <2>1, <2>2
<1>8. ASSUME NEW e \in Live', devices'[e].token # NoToken
      PROVE  /\ tokens'[devices'[e].token].created
             /\ tokens'[devices'[e].token].org = devices'[e].org
  <2>1. e \in DeviceIds
    BY DEF Live
  <2>2. ASSUME e \in Live, devices'[e].token = devices[e].token,
               devices'[e].org = devices[e].org
        PROVE  /\ tokens'[devices'[e].token].created
               /\ tokens'[devices'[e].token].org = devices'[e].org
    <3>1. devices[e].token \in Tokens
      BY <1>8, <2>1, <2>2 DEF RegistrationTypeOK, DevicesTypeOK, Row
    <3> QED
      BY <1>3, <1>8, <2>2, <3>1 DEF RegTenancyInv, TokenOwnsItsDevices
  <2>3. CASE e # d
    BY <1>4, <2>1, <2>2, <2>3 DEF Live
  <2>4. CASE e = d
    BY <1>1, <1>3, <1>5, <1>6, <2>2, <2>4
  <2> QED
    BY <2>3, <2>4
<1> QED
  BY <1>7, <1>8 DEF RegTenancyInv, TokenOwnsItsDevices

\* Every step keeps the tenancy.
LEMMA RegTenancyStep ==
    RegistrationTypeOK /\ SessionFollowsToken /\ RegTenancyInv
        /\ [RegistrationNext]_registrationVars => RegTenancyInv'
<1> SUFFICES ASSUME RegistrationTypeOK, SessionFollowsToken, RegTenancyInv,
                    [RegistrationNext]_registrationVars
             PROVE  RegTenancyInv'
  OBVIOUS
<1>1. ASSUME NEW t \in Tokens, NEW org \in Orgs, NEW max \in Caps,
             NEW expires \in Expiries, CreateToken(t, org, max, expires)
      PROVE  RegTenancyInv'
  <2>1. /\ \A u \in Tokens : tokens[u].created => tokens'[u] = tokens[u]
        /\ UNCHANGED <<devices, reg>>
    BY <1>1 DEF CreateToken, deviceVars, RegistrationTypeOK
  <2> QED
    BY <2>1, RegTenancyKept DEF Live
<1>2. ASSUME NEW t \in Tokens, RevokeToken(t)
      PROVE  RegTenancyInv'
  <2>1. /\ \A u \in Tokens : /\ tokens'[u].created = tokens[u].created
                             /\ tokens'[u].org = tokens[u].org
        /\ UNCHANGED <<devices, reg>>
    BY <1>2 DEF RevokeToken, deviceVars, RegistrationTypeOK, Token
  <2> QED
    BY <2>1, RegTenancyKept DEF Live
<1>3. ASSUME NEW w \in Workers,
             \/ RegAbort(w)
             \/ \E t \in Tokens : RegValidate(w, t)
             \/ \E ident \in Identity : RegConflict(w, ident)
      PROVE  RegTenancyInv'
  <2>a. NoReg.device = NoDevice /\ NoReg.pc = "idle"
    BY DEF NoReg
  <2>1. /\ reg'[w].pc \in {"idle", "validated"}
        /\ reg'[w].device = NoDevice
        /\ \A v \in Workers : v # w => reg'[v] = reg[v]
        /\ UNCHANGED <<devices, tokens>>
    <3>1. CASE RegAbort(w)
      BY <3>1, <2>a DEF RegAbort, deviceVars, RegistrationTypeOK
    <3>2. CASE \E t \in Tokens : RegValidate(w, t)
      BY <3>2 DEF RegValidate, NoReg, deviceVars, RegistrationTypeOK
    <3>3. CASE \E ident \in Identity : RegConflict(w, ident)
      BY <3>3, <2>a DEF RegConflict, deviceVars, RegistrationTypeOK
    <3> QED
      BY <1>3, <3>1, <3>2, <3>3
  <2>2. RegMatchedInTenant'
    BY <2>1 DEF RegTenancyInv, RegMatchedInTenant, Live
  <2>3. TokenOwnsItsDevices'
    BY <2>1 DEF RegTenancyInv, TokenOwnsItsDevices, Live
  <2> QED
    BY <2>2, <2>3 DEF RegTenancyInv
<1>4. ASSUME NEW w \in Workers, NEW ident \in Identity, RegMatch(w, ident)
      PROVE  RegTenancyInv'
  <2>1. /\ \A v \in Workers : v # w => reg'[v] = reg[v]
        /\ reg'[w].pc = "matched"
        /\ reg'[w].row = reg[w].row
        /\ UNCHANGED <<devices, tokens>>
    BY <1>4 DEF RegMatch, deviceVars, RegistrationTypeOK, RegSession
  <2>2. \/ reg'[w].device = reg[w].device
        \/ reg'[w].device \in Hits(ident, devices, Live)
    BY <1>4 DEF RegMatch, RegistrationTypeOK, RegSession
  <2>3. reg[w].device = NoDevice
    BY <1>4 DEF RegMatch, RegTenancyInv, RegMatchedInTenant
  <2>4. ASSUME reg'[w].device \in Hits(ident, devices, Live)
        PROVE  /\ reg'[w].device \in Live
               /\ devices[reg'[w].device].org = reg[w].row.org
    BY <1>4, <2>4
    DEF RegMatch, Acceptable, CrossOrganization, Hits, Candidates
  <2>5. NoDevice \notin Live
    BY DevicesAssumption DEF Live
  <2>6. RegMatchedInTenant'
    BY <2>1, <2>2, <2>3, <2>4, <2>5 DEF RegTenancyInv, RegMatchedInTenant, Live
  <2>7. TokenOwnsItsDevices'
    BY <2>1 DEF RegTenancyInv, TokenOwnsItsDevices, Live
  <2> QED
    BY <2>6, <2>7 DEF RegTenancyInv
<1>5. ASSUME NEW w \in Workers, RegCommit(w)
      PROVE  RegTenancyInv'
  BY <1>5, RegTenancyCommit
<1>6. CASE DevicesNext /\ UNCHANGED tokenVars
  <2>1. DevicesTypeOK
    BY DEF RegistrationTypeOK
  <2>2. UNCHANGED <<reg, tokens>>
    BY <1>6 DEF tokenVars
  <2>3. \A d \in Live' : /\ d \in Live
                         /\ devices'[d].org = devices[d].org
                         /\ devices'[d].token = devices[d].token
    BY <1>6, <2>1, DevicesNextKeeps DEF Live
  <2>4. \A d \in DeviceIds :
            devices[d].state # "absent" => devices'[d].state # "absent"
    BY <1>6, <2>1, DevicesNextKeepsUsed
  <2> QED
    BY <2>2, <2>3, <2>4, RegTenancyKept
<1>7. CASE UNCHANGED registrationVars
  <2>1. UNCHANGED <<devices, tokens, reg>>
    BY <1>7 DEF registrationVars
  <2> QED
    BY <2>1, RegTenancyKept DEF Live
<1> QED
  BY <1>1, <1>2, <1>3, <1>4, <1>5, <1>6, <1>7
  DEF RegistrationNext, RegistrationStep

-----------------------------------------------------------------------------

RegistrationIInv == RegistrationTypeOK /\ CountInv /\ RegTenancyInv

\* The initial state satisfies it.
LEMMA RegistrationInitIInv == RegistrationInit => RegistrationIInv
<1> SUFFICES ASSUME RegistrationInit
             PROVE  RegistrationIInv
  OBVIOUS
<1>1. RegistrationTypeOK
  BY RegistrationInitType
<1>2. CountInv
  BY DEF RegistrationInit, CountInv, SessionFollowsToken, NoReg, NoTokenRow,
         UseCountWithinCap, UseCountNeverOvercounts, NoCap
<1>3. RegTenancyInv
  BY DEF RegistrationInit, DevicesInit, RegTenancyInv, RegMatchedInTenant,
         NoReg, TokenOwnsItsDevices, Live, Blank
<1> QED
  BY <1>1, <1>2, <1>3 DEF RegistrationIInv

\* The inductive invariant holds in every reachable state.
THEOREM RegistrationInvariant == RegistrationSpec => []RegistrationIInv
<1>1. RegistrationInit => RegistrationIInv
  BY RegistrationInitIInv
<1>2. RegistrationIInv /\ [RegistrationNext]_registrationVars
          => RegistrationIInv'
  BY RegistrationTypeStep, CountStep, RegTenancyStep
  DEF RegistrationIInv, CountInv
<1> QED
  BY <1>1, <1>2, PTL DEF RegistrationSpec

\* Every row, session and counter keeps its type, and no row holds a secret
\* that was not generated or a time that has not come.
THEOREM RegistrationTypeCorrect == RegistrationSpec => []RegistrationTypeOK
<1>1. RegistrationIInv => RegistrationTypeOK
  BY DEF RegistrationIInv
<1> QED
  BY <1>1, RegistrationInvariant, PTL

\* use_count stays within max_uses whatever registrations run together.
THEOREM UseCountIsCapped == RegistrationSpec => []UseCountWithinCap
<1>1. RegistrationIInv => UseCountWithinCap
  BY DEF RegistrationIInv, CountInv
<1> QED
  BY <1>1, RegistrationInvariant, PTL

\* use_count may lose registrations, and never invents one.
THEOREM UseCountIsALowerBound == RegistrationSpec => []UseCountNeverOvercounts
<1>1. RegistrationIInv => UseCountNeverOvercounts
  BY DEF RegistrationIInv, CountInv
<1> QED
  BY <1>1, RegistrationInvariant, PTL

\* A device with a registration token is in the organization of the token.
THEOREM TenancyIsKept == RegistrationSpec => []TokenOwnsItsDevices
<1>1. RegistrationIInv => TokenOwnsItsDevices
  BY DEF RegistrationIInv, RegTenancyInv
<1> QED
  BY <1>1, RegistrationInvariant, PTL

-----------------------------------------------------------------------------
(* One device per machine, when registrations run one at a time.  What a   *)
(* session found in the table still holds when it commits, because nobody  *)
(* else writes identities: no device but the one it matched answers to its *)
(* machine, and that one's identity is still the one it loaded.            *)

MatchStillValid ==
    \A w \in Workers :
        reg[w].pc = "matched" =>
            /\ \A d \in Live : d # reg[w].device =>
                  ~Matches(reg[w].ident, devices[d])
            /\ reg[w].device \in Live =>
                  /\ reg[w].loaded.serial = devices[reg[w].device].serial
                  /\ reg[w].loaded.macs = devices[reg[w].device].macs

DuplicateInv == NoDuplicateIdentity /\ MatchStillValid

\* A step that adds no device and changes no identity makes no duplicate.
LEMMA DuplicateKept ==
    ASSUME DuplicateInv,
           \A d \in Live' : /\ d \in Live
                            /\ devices'[d].serial = devices[d].serial
                            /\ devices'[d].macs = devices[d].macs,
           \A w \in Workers : reg'[w].pc = "matched" => reg'[w] = reg[w]
    PROVE  DuplicateInv'
<1>1. NoDuplicateIdentity'
  BY DEF DuplicateInv, NoDuplicateIdentity, Matches
<1>2. MatchStillValid'
  <2> SUFFICES ASSUME NEW w \in Workers, reg'[w].pc = "matched"
               PROVE  /\ \A d \in Live' : d # reg'[w].device =>
                            ~Matches(reg'[w].ident, devices'[d])
                      /\ reg'[w].device \in Live' =>
                            /\ reg'[w].loaded.serial =
                                   devices'[reg'[w].device].serial
                            /\ reg'[w].loaded.macs =
                                   devices'[reg'[w].device].macs
    BY DEF MatchStillValid
  <2>1. reg'[w] = reg[w]
    OBVIOUS
  <2> QED
    BY <2>1 DEF DuplicateInv, MatchStillValid, Matches
<1> QED
  BY <1>1, <1>2 DEF DuplicateInv

\* The only session that runs commits what it matched.
LEMMA DuplicateCommit ==
    ASSUME RegistrationTypeOK, SessionFollowsToken, DuplicateInv,
           NEW w \in Workers, \A v \in Workers : v = w, RegCommit(w)
    PROVE  DuplicateInv'
<1>1. reg[w].pc = "matched" /\ reg[w].token \in Tokens
  BY DEF RegCommit, SessionFollowsToken
<1>2. PICK d \in DeviceIds, stamp \in Nat :
          \/ /\ reg[w].device = NoDevice
             /\ devices[d].state = "absent"
             /\ devices' = [devices EXCEPT ![d] =
                    CreatedRow(reg[w].row.org, reg[w].ident,
                               reg[w].token, stamp)]
          \/ /\ d = reg[w].device
             /\ d \in Live
             /\ devices' = [devices EXCEPT ![d] =
                    UpdatedRow(devices[d], reg[w].loaded, reg[w].ident,
                               reg[w].token, stamp)]
  BY <1>1, RegCommitWrites
<1>3. \A e \in DeviceIds : e # d => devices'[e] = devices[e]
  BY <1>2 DEF RegistrationTypeOK, DevicesTypeOK
<1>4. /\ devices'[d].serial = reg[w].ident.serial
      /\ devices'[d].macs = reg[w].ident.macs
  <2>1. CASE /\ devices[d].state = "absent"
             /\ devices' = [devices EXCEPT ![d] =
                    CreatedRow(reg[w].row.org, reg[w].ident,
                               reg[w].token, stamp)]
    BY <2>1 DEF CreatedRow, RegistrationTypeOK, DevicesTypeOK
  <2>2. CASE /\ d = reg[w].device
             /\ d \in Live
             /\ devices' = [devices EXCEPT ![d] =
                    UpdatedRow(devices[d], reg[w].loaded, reg[w].ident,
                               reg[w].token, stamp)]
    <3>1. /\ reg[w].loaded.serial = devices[d].serial
          /\ reg[w].loaded.macs = devices[d].macs
      BY <1>1, <2>2 DEF DuplicateInv, MatchStillValid
    <3> QED
      BY <2>2, <3>1 DEF UpdatedRow, Column, RegistrationTypeOK, DevicesTypeOK
  <2> QED
    BY <1>2, <2>1, <2>2
<1>5. ASSUME NEW e \in Live', e # d
      PROVE  ~Matches(reg[w].ident, devices'[e])
  <2>1. e \in Live /\ devices'[e] = devices[e]
    BY <1>3, <1>5 DEF Live
  <2>2. e # reg[w].device
    BY <1>2, <1>5, DevicesAssumption DEF Live
  <2> QED
    BY <1>1, <2>1, <2>2 DEF DuplicateInv, MatchStillValid
<1>6. NoDuplicateIdentity'
  <2> SUFFICES ASSUME NEW e \in Live', NEW f \in Live', e # f
               PROVE  ~Matches(devices'[e], devices'[f])
    BY DEF NoDuplicateIdentity
  <2>1. CASE e = d
    BY <1>4, <1>5, <2>1 DEF Matches
  <2>2. CASE f = d
    BY <1>4, <1>5, <2>2 DEF Matches
  <2>3. CASE e # d /\ f # d
    <3>1. /\ e \in Live /\ devices'[e] = devices[e]
          /\ f \in Live /\ devices'[f] = devices[f]
      BY <1>3, <2>3 DEF Live
    <3> QED
      BY <3>1 DEF DuplicateInv, NoDuplicateIdentity
  <2> QED
    BY <2>1, <2>2, <2>3
<1>7. \A v \in Workers : reg'[v].pc = "idle"
  BY DEF RegCommit, NoReg, RegistrationTypeOK
<1> QED
  BY <1>6, <1>7 DEF DuplicateInv, MatchStillValid

\* Every step of a server that handles one registration at a time keeps
\* machines and devices apart.
LEMMA DuplicateStep ==
    ASSUME \A v, w \in Workers : v = w
    PROVE  RegistrationIInv /\ DuplicateInv
               /\ [RegistrationNext]_registrationVars => DuplicateInv'
<1> SUFFICES ASSUME RegistrationIInv, DuplicateInv,
                    [RegistrationNext]_registrationVars
             PROVE  DuplicateInv'
  OBVIOUS
<1>0. /\ RegistrationTypeOK
      /\ SessionFollowsToken
      /\ RegMatchedInTenant
  BY DEF RegistrationIInv, CountInv, RegTenancyInv
<1>1. ASSUME UNCHANGED <<devices, reg>>
      PROVE  DuplicateInv'
  BY <1>1, DuplicateKept DEF Live
<1>2. ASSUME NEW w \in Workers, UNCHANGED devices,
             reg'[w].pc \in {"idle", "validated"},
             \A v \in Workers : v # w => reg'[v] = reg[v]
      PROVE  DuplicateInv'
  BY <1>2, DuplicateKept DEF Live
<1>3. ASSUME NEW w \in Workers, NEW t \in Tokens, RegValidate(w, t)
      PROVE  DuplicateInv'
  BY <1>0, <1>2, <1>3 DEF RegValidate, NoReg, deviceVars, RegistrationTypeOK
<1>4. ASSUME NEW w \in Workers, RegAbort(w) \/
                 \E ident \in Identity : RegConflict(w, ident)
      PROVE  DuplicateInv'
  <2>1. NoReg.pc = "idle"
    BY DEF NoReg
  <2>2. /\ UNCHANGED devices
        /\ reg'[w].pc = "idle"
        /\ \A v \in Workers : v # w => reg'[v] = reg[v]
    BY <1>0, <1>4, <2>1
    DEF RegAbort, RegConflict, deviceVars, RegistrationTypeOK
  <2> QED
    BY <1>2, <2>2
<1>5. ASSUME NEW w \in Workers, NEW ident \in Identity, RegMatch(w, ident)
      PROVE  DuplicateInv'
  <2> DEFINE hits == Hits(ident, devices, Live)
  <2>1. /\ UNCHANGED devices
        /\ reg'[w].pc = "matched"
        /\ reg'[w].ident = ident
        /\ \/ hits = {} /\ reg'[w].device = reg[w].device
           \/ \E d \in hits : /\ reg'[w].device = d
                              /\ reg'[w].loaded = devices[d]
    <3>1. reg \in [Workers -> RegSession]
      BY <1>0 DEF RegistrationTypeOK
    <3>2. CASE /\ hits = {}
               /\ reg' = [reg EXCEPT ![w] =
                     [@ EXCEPT !.pc = "matched", !.ident = ident,
                               !.since = now]]
      BY <1>5, <3>1, <3>2 DEF RegMatch, deviceVars, RegSession
    <3>3. ASSUME NEW d \in hits,
                 reg' = [reg EXCEPT ![w] =
                     [@ EXCEPT !.pc = "matched", !.ident = ident,
                               !.device = d, !.loaded = devices[d],
                               !.since = now]]
          PROVE  /\ UNCHANGED devices
                 /\ reg'[w].pc = "matched"
                 /\ reg'[w].ident = ident
                 /\ reg'[w].device = d
                 /\ reg'[w].loaded = devices[d]
      BY ZenonT(30), <1>5, <3>1, <3>3 DEF RegMatch, deviceVars, RegSession
    <3> QED
      BY <1>5, <3>2, <3>3 DEF RegMatch
  <2>2. reg[w].device = NoDevice /\ NoDevice \notin Live
    BY <1>0, <1>5, DevicesAssumption DEF RegMatch, RegMatchedInTenant, Live
  <2>3. ~Ambiguous(hits)
    BY <1>5 DEF RegMatch, Acceptable
  <2>4. hits = {d \in Live : Matches(ident, devices[d])}
    BY HitsAreTheMatches
  <2>5. ASSUME NEW d \in Live, d # reg'[w].device
        PROVE  ~Matches(ident, devices[d])
    BY <2>1, <2>3, <2>4, <2>5 DEF Ambiguous
  <2>6. ASSUME reg'[w].device \in Live
        PROVE  reg'[w].loaded = devices[reg'[w].device]
    BY <2>1, <2>2, <2>6
  <2>7. MatchStillValid'
    BY <2>1, <2>5, <2>6 DEF MatchStillValid, Live
  <2>8. NoDuplicateIdentity'
    BY <2>1 DEF DuplicateInv, NoDuplicateIdentity, Live
  <2> QED
    BY <2>7, <2>8 DEF DuplicateInv
<1>6. ASSUME NEW w \in Workers, RegCommit(w)
      PROVE  DuplicateInv'
  BY <1>0, <1>6, DuplicateCommit
<1>7. CASE DevicesNext /\ UNCHANGED tokenVars
  <2>1. \A d \in Live' : /\ d \in Live
                         /\ devices'[d].serial = devices[d].serial
                         /\ devices'[d].macs = devices[d].macs
    BY <1>0, <1>7, DevicesNextKeeps DEF Live, RegistrationTypeOK
  <2> QED
    BY <1>7, <2>1, DuplicateKept DEF tokenVars
<1> QED
  BY <1>1, <1>3, <1>4, <1>5, <1>6, <1>7
  DEF RegistrationNext, RegistrationStep, CreateToken, RevokeToken,
      deviceVars, registrationVars

\* With registrations one at a time, no machine ever has two devices, in one
\* organization or in two, whatever operators and heartbeats do meanwhile.
THEOREM SerialRegistrationsMakeNoDuplicates ==
    ASSUME \A v, w \in Workers : v = w
    PROVE  RegistrationSpec => []NoDuplicateIdentity
<1>1. RegistrationInit => DuplicateInv
  BY DEF RegistrationInit, DevicesInit, DuplicateInv, NoDuplicateIdentity,
         MatchStillValid, NoReg, Live, Blank
<1>2. RegistrationIInv /\ DuplicateInv /\ [RegistrationNext]_registrationVars
          => DuplicateInv'
  BY DuplicateStep
<1>3. DuplicateInv => NoDuplicateIdentity
  BY DEF DuplicateInv
<1> QED
  BY <1>1, <1>2, <1>3, RegistrationInvariant, PTL DEF RegistrationSpec

-----------------------------------------------------------------------------
(***************************************************************************)
(* Enrollment on request.                                                  *)
(***************************************************************************)

\* A session in flight works on a request that was submitted, at a time that
\* has come.
SessionsKnowTheirRequest ==
    /\ \A v \in Reviews :
          review[v] # NoRequest => requests[review[v]].status # "absent"
    /\ \A p \in Polls :
          poll[p].pc # "idle" =>
              /\ poll[p].request \in Requests
              /\ requests[poll[p].request].status # "absent"
    /\ \A p \in Polls : poll[p].stamp <= now

\* What is or was approved is in the history; a poll that issues started
\* from an approved request, whatever became of the request since.
ApprovalsAreRecorded ==
    /\ \A r \in Requests : requests[r].status = "approved" => r \in approvals
    /\ \A p \in Polls :
          poll[p].pc \in {"issuing", "matched"} => poll[p].request \in approvals

ApprovalInv ==
    /\ SessionsKnowTheirRequest
    /\ ApprovalsAreRecorded
    /\ IssuedOnlyAfterApproval

\* The device a poll matched was there, and as long as it exists it is in
\* the tenant of the request.
PollMatchedInTenant ==
    \A p \in Polls :
        /\ poll[p].pc = "issuing" => poll[p].device = NoDevice
        /\ poll[p].pc = "matched" /\ poll[p].device # NoDevice =>
               devices[poll[p].device].state # "absent"
        /\ poll[p].pc = "matched" /\ poll[p].device \in Live =>
               devices[poll[p].device].org = requests[poll[p].request].org

PollTenancyInv == PollMatchedInTenant /\ ClaimedDeviceInTenant

-----------------------------------------------------------------------------

\* The rows and sessions everything starts from.
LEMMA EnrollmentBlankTypes ==
    /\ NoKeyRow \in Key
    /\ NoRequestRow \in Request
    /\ NoSubmit \in SubmitSession
    /\ NoPoll \in PollSession
<1>1. (CHOOSE o \in Orgs : TRUE) \in Orgs
  BY DevicesAssumption
<1>2. NoKeyRow \in Key
  BY <1>1 DEF NoKeyRow, Key, Never
<1>3. NoIdentity \in Identity
  BY DEF NoIdentity, Identity
<1> QED
  BY <1>1, <1>2, <1>3, BlankType
  DEF NoRequestRow, Request, NoSubmit, SubmitSession, NoPoll, PollSession,
      Never

\* The initial state has its type.
LEMMA EnrollmentInitType == EnrollmentInit => EnrollmentTypeOK
BY DevicesInitType, EnrollmentBlankTypes
DEF EnrollmentInit, EnrollmentTypeOK

\* What a claim writes: one row of the devices table, created or updated, and
\* the request that points to it.
ClaimWrites(p, d, row) ==
    /\ \/ poll[p].device = NoDevice /\ devices[d].state = "absent"
       \/ poll[p].device = d /\ d \in Live
    /\ devices' = [devices EXCEPT ![d] = row]
    /\ row.state = "live"
    /\ row.org = IF d \in Live THEN devices[d].org
                 ELSE requests[poll[p].request].org
    /\ row.token = IF d \in Live THEN devices[d].token ELSE NoToken
    /\ row.cred = minted + 1
    /\ row.mqtt = minted + 1
    /\ row.lastSeen \in {poll[p].stamp, devices[d].lastSeen}
    /\ requests' = [requests EXCEPT ![poll[p].request] =
                        [@ EXCEPT !.claimed = TRUE, !.device = d]]

\* A claim commits that, with a row of the right type.
LEMMA PollCommitWrites ==
    ASSUME EnrollmentTypeOK, NEW p \in Polls, PollCommit(p),
           poll[p].request \in Requests
    PROVE  \E d \in DeviceIds, row \in Row : ClaimWrites(p, d, row)
<1> DEFINE r == poll[p].request
<1> USE DEF EnrollmentTypeOK, DevicesTypeOK
<1>1. /\ minted \in Nat
      /\ poll[p] \in PollSession
      /\ requests[r] \in Request
  BY DevicesAssumption
<1>2. /\ requests[r].org \in Orgs
      /\ requests[r].ident \in Identity
      /\ poll[p].stamp \in Nat
      /\ poll[p].loaded.token \in Tokens \cup {NoToken}
  BY <1>1 DEF Request, PollSession, Row
<1>3. PICK d \in DeviceIds :
          /\ \/ /\ poll[p].device = NoDevice
                /\ devices[d].state = "absent"
                /\ devices' = [devices EXCEPT ![d] =
                      CreatedRow(requests[r].org, requests[r].ident,
                                 NoToken, poll[p].stamp)]
             \/ /\ d = poll[p].device
                /\ d \in Live
                /\ devices' = [devices EXCEPT ![d] =
                      UpdatedRow(devices[d], poll[p].loaded, requests[r].ident,
                                 poll[p].loaded.token, poll[p].stamp)]
          /\ requests' = [requests EXCEPT ![r] =
                              [@ EXCEPT !.claimed = TRUE, !.device = d]]
  BY DEF PollCommit
<1>4. CASE /\ poll[p].device = NoDevice
           /\ devices[d].state = "absent"
           /\ devices' = [devices EXCEPT ![d] =
                 CreatedRow(requests[r].org, requests[r].ident,
                            NoToken, poll[p].stamp)]
  <2> DEFINE row == CreatedRow(requests[r].org, requests[r].ident, NoToken,
                               poll[p].stamp)
  <2>1. row \in Row
    BY <1>1, <1>2, CreatedRowType
  <2>2. /\ row.state = "live"
        /\ row.org = requests[r].org
        /\ row.token = NoToken
        /\ row.cred = minted + 1
        /\ row.mqtt = minted + 1
        /\ row.lastSeen = poll[p].stamp
    BY DEF CreatedRow, NextSecret
  <2>3. d \notin Live
    BY <1>4 DEF Live
  <2> HIDE DEF row
  <2> QED
    BY <1>3, <1>4, <2>1, <2>2, <2>3 DEF row, ClaimWrites
<1>5. CASE /\ d = poll[p].device
           /\ d \in Live
           /\ devices' = [devices EXCEPT ![d] =
                 UpdatedRow(devices[d], poll[p].loaded, requests[r].ident,
                            poll[p].loaded.token, poll[p].stamp)]
  <2> DEFINE row == UpdatedRow(devices[d], poll[p].loaded, requests[r].ident,
                               poll[p].loaded.token, poll[p].stamp)
  <2>1. row \in Row
    BY <1>1, <1>2, UpdatedRowType
  <2>2. /\ row.state = "live"
        /\ row.org = devices[d].org
        /\ row.token = devices[d].token
        /\ row.cred = minted + 1
        /\ row.mqtt = minted + 1
        /\ row.lastSeen = poll[p].stamp \/ row.lastSeen = devices[d].lastSeen
    BY <1>5 DEF UpdatedRow, NextSecret, Column, Live
  <2> HIDE DEF row
  <2> QED
    BY <1>3, <1>5, <2>1, <2>2 DEF row, ClaimWrites
<1> QED
  BY <1>3, <1>4, <1>5

\* Every step keeps the types.
LEMMA EnrollmentTypeStep ==
    EnrollmentTypeOK /\ SessionsKnowTheirRequest
        /\ [EnrollmentNext]_enrollmentVars => EnrollmentTypeOK'
<1> SUFFICES ASSUME EnrollmentTypeOK, SessionsKnowTheirRequest,
                    [EnrollmentNext]_enrollmentVars
             PROVE  EnrollmentTypeOK'
  OBVIOUS
<1> USE DEF EnrollmentTypeOK
<1>a. UNCHANGED deviceVars => DevicesTypeOK'
  BY DEF DevicesTypeOK, deviceVars
<1>b. now \in Nat /\ devices \in [DeviceIds -> Row]
  BY DevicesAssumption DEF DevicesTypeOK
<1>1. ASSUME NEW k \in Keys, NEW org \in Orgs, NEW expires \in KeyExpiries,
             CreateKey(k, org, expires)
      PROVE  EnrollmentTypeOK'
  <2>1. [created |-> TRUE, org |-> org, revoked |-> FALSE,
         expires |-> expires] \in Key
    BY EnrollmentAssumption DEF Key
  <2> QED
    BY <1>1, <1>a, <2>1 DEF CreateKey
<1>2. ASSUME NEW k \in Keys, RevokeKey(k)
      PROVE  EnrollmentTypeOK'
  BY <1>2, <1>a DEF RevokeKey, Key
<1>3. ASSUME NEW s \in Submits, NEW k \in Keys, SubmitAuth(s, k)
      PROVE  EnrollmentTypeOK'
  BY <1>3, <1>a DEF SubmitAuth, SubmitSession
<1>4. ASSUME NEW s \in Submits, NEW r \in Requests, NEW ident \in Identity,
             SubmitCommit(s, r, ident)
      PROVE  EnrollmentTypeOK'
  <2>1. submit[s].loaded.org \in Orgs
    BY DEF SubmitSession, Key
  <2>2. (IF TTL > 0 THEN now + TTL ELSE Never) \in Nat
    BY <1>b, EnrollmentAssumption DEF Never
  <2>3. [status |-> "pending", org |-> submit[s].loaded.org, ident |-> ident,
         expires |-> IF TTL > 0 THEN now + TTL ELSE Never,
         claimed |-> FALSE, device |-> NoDevice] \in Request
    BY <2>1, <2>2 DEF Request
  <2>4. requests' \in [Requests -> Request]
    BY <1>4, <2>3 DEF SubmitCommit
  <2>5. /\ keys' \in [Keys -> Key]
        /\ submit' \in [Submits -> SubmitSession]
    BY <1>4, EnrollmentBlankTypes DEF SubmitCommit, Touched
  <2> QED
    BY <1>4, <1>a, <2>4, <2>5 DEF SubmitCommit
<1>5. ASSUME NEW s \in Submits, CheckCommit(s)
      PROVE  EnrollmentTypeOK'
  BY <1>5, <1>a, EnrollmentBlankTypes DEF CheckCommit, Touched
<1>6. ASSUME NEW v \in Reviews, NEW r \in Requests, ReviewRead(v, r)
      PROVE  EnrollmentTypeOK'
  BY <1>6, <1>a DEF ReviewRead
<1>7. ASSUME NEW v \in Reviews, Approve(v)
      PROVE  EnrollmentTypeOK'
  <2>1. requests' \in [Requests -> Request]
    BY SMTT(30), <1>7 DEF Approve, Request
  <2> QED
    BY <1>7, <1>a, <2>1 DEF Approve
<1>8. ASSUME NEW v \in Reviews, Reject(v)
      PROVE  EnrollmentTypeOK'
  BY <1>8, <1>a DEF Reject, Request
<1>9. ASSUME NEW p \in Polls, NEW r \in Requests,
             PollExpiring(p, r) \/ PollApproved(p, r)
      PROVE  EnrollmentTypeOK'
  <2>1. /\ [NoPoll EXCEPT !.pc = "expiring", !.request = r] \in PollSession
        /\ [NoPoll EXCEPT !.pc = "issuing", !.request = r, !.stamp = now]
              \in PollSession
    BY <1>b, EnrollmentBlankTypes DEF PollSession
  <2>2. CASE PollExpiring(p, r)
    BY <2>2, <1>a, <2>1 DEF PollExpiring
  <2>3. CASE PollApproved(p, r)
    BY <2>3, <1>a, <2>1 DEF PollApproved
  <2> QED
    BY <1>9, <2>2, <2>3
<1>10. ASSUME NEW p \in Polls, PollExpire(p)
       PROVE  EnrollmentTypeOK'
  BY <1>10, <1>a, EnrollmentBlankTypes DEF PollExpire, Request
<1>11. ASSUME NEW p \in Polls, PollMatch(p)
       PROVE  EnrollmentTypeOK'
  <2>1. PollHits(p) \subseteq DeviceIds
    BY DEF PollHits, Hits, Candidates, Live
  <2>2. [poll[p] EXCEPT !.pc = "matched"] \in PollSession
    BY DEF PollSession
  <2>3. ASSUME NEW d \in DeviceIds
        PROVE  [poll[p] EXCEPT !.pc = "matched", !.device = d,
                               !.loaded = devices[d]] \in PollSession
    BY <1>b DEF PollSession
  <2>4. poll' \in [Polls -> PollSession]
    BY ZenonT(30), <1>11, <2>1, <2>2, <2>3 DEF PollMatch
  <2> QED
    BY <1>11, <1>a, <2>4 DEF PollMatch
<1>12. ASSUME NEW p \in Polls, PollConflict(p)
       PROVE  EnrollmentTypeOK'
  BY <1>12, <1>a, EnrollmentBlankTypes DEF PollConflict
<1>13. ASSUME NEW p \in Polls, PollCommit(p)
       PROVE  EnrollmentTypeOK'
  <2>1. poll[p].request \in Requests /\ poll[p].stamp <= now
    BY <1>13 DEF PollCommit, SessionsKnowTheirRequest
  <2>2. PICK d \in DeviceIds, row \in Row : ClaimWrites(p, d, row)
    BY <1>13, <2>1, PollCommitWrites
  <2> USE DEF ClaimWrites
  <2>3. DevicesTypeOK'
    <3>1. /\ minted' = minted + 1 /\ minted' \in 0 .. MaxMint
          /\ UNCHANGED <<now, beat>>
      BY <1>13, DevicesAssumption DEF PollCommit, Mint, DevicesTypeOK
    <3>2. row.lastSeen <= now
      BY <2>1, <2>2 DEF DevicesTypeOK
    <3>3. ASSUME NEW e \in DeviceIds
          PROVE  /\ devices'[e].cred <= minted + 1
                 /\ devices'[e].mqtt <= minted + 1
                 /\ devices'[e].lastSeen <= now
      BY <2>2, <3>2, DevicesAssumption DEF DevicesTypeOK, Row
    <3> QED
      BY <2>2, <3>1, <3>3 DEF DevicesTypeOK
  <2>4. requests' \in [Requests -> Request]
    <3>1. requests[poll[p].request] \in Request
      BY <2>1
    <3>2. [requests[poll[p].request] EXCEPT !.claimed = TRUE, !.device = d]
              \in Request
      BY <3>1 DEF Request
    <3> QED
      BY <2>1, <2>2, <3>2
  <2>5. /\ claims' \in [Requests -> Nat]
        /\ poll' \in [Polls -> PollSession]
    BY <1>13, <2>1, EnrollmentBlankTypes DEF PollCommit
  <2> QED
    BY <1>13, <2>3, <2>4, <2>5 DEF PollCommit
<1>14. CASE Abort
  <2>1. /\ submit' \in [Submits -> SubmitSession]
        /\ review' \in [Reviews -> Requests \cup {NoRequest}]
        /\ poll' \in [Polls -> PollSession]
    BY <1>14, EnrollmentBlankTypes DEF Abort
  <2> QED
    BY <1>14, <1>a, <2>1 DEF Abort
<1>15. CASE DevicesStep
  <2>1. DevicesTypeOK'
    BY <1>15, DevicesNextType DEF DevicesStep
  <2>2. requests' \in [Requests -> Request]
    BY <1>15 DEF DevicesStep, Detached, Request
  <2> QED
    BY <1>15, <2>1, <2>2 DEF DevicesStep
<1>16. CASE UNCHANGED enrollmentVars
  BY <1>16, <1>a DEF enrollmentVars, deviceVars
<1> QED
  BY <1>1, <1>2, <1>3, <1>4, <1>5, <1>6, <1>7, <1>8, <1>9, <1>10, <1>11,
     <1>12, <1>13, <1>14, <1>15, <1>16 DEF EnrollmentNext, EnrollmentStep

-----------------------------------------------------------------------------
(* Approvals.  A poll issues only what it read as approved, and the        *)
(* history of approvals only grows, so nothing that happens to the request *)
(* in between (a review that writes over another, an expiry) matters.      *)

\* A poll ends, stays where it is, or gets from an approved request to a match.
PollGoesOn(p) ==
    \/ poll'[p] = NoPoll
    \/ /\ poll'[p].request = poll[p].request
       /\ poll'[p].stamp = poll[p].stamp
       /\ \/ poll'[p].pc = poll[p].pc
          \/ poll[p].pc = "issuing" /\ poll'[p].pc = "matched"

\* A match moves its own poll on, and no other.
LEMMA MatchGoesOn ==
    ASSUME EnrollmentTypeOK, NEW p \in Polls, PollMatch(p), NEW q \in Polls
    PROVE  PollGoesOn(q)
<1>1. CASE q # p
  BY <1>1 DEF PollMatch, EnrollmentTypeOK, PollGoesOn
<1>2. CASE q = p
  <2>1. poll[p] \in PollSession /\ poll[p].pc = "issuing"
    BY DEF PollMatch, EnrollmentTypeOK
  <2>2. \/ poll'[p] = [poll[p] EXCEPT !.pc = "matched"]
        \/ \E d \in PollHits(p) :
              poll'[p] = [poll[p] EXCEPT !.pc = "matched", !.device = d,
                                         !.loaded = devices[d]]
    BY DEF PollMatch, EnrollmentTypeOK
  <2> QED
    BY <1>2, <2>1, <2>2 DEF PollSession, PollGoesOn
<1> QED
  BY <1>1, <1>2

\* A step that neither withdraws a request nor starts a session, and
\* approves and issues nothing, keeps the invariant.
LEMMA ApprovalKept ==
    ASSUME EnrollmentTypeOK, ApprovalInv, UNCHANGED <<approvals, claims>>,
           now' \in Nat, now <= now',
           \A r \in Requests :
              /\ requests[r].status # "absent" => requests'[r].status # "absent"
              /\ requests'[r].status = "approved" =>
                     requests[r].status = "approved",
           \A v \in Reviews : review'[v] \in {review[v], NoRequest},
           \A p \in Polls : PollGoesOn(p)
    PROVE  ApprovalInv'
<1> USE DEF ApprovalInv
<1>1. SessionsKnowTheirRequest'
  <2>1. \A v \in Reviews : review'[v] # NoRequest =>
            /\ review'[v] \in Requests
            /\ requests'[review'[v]].status # "absent"
    BY DEF SessionsKnowTheirRequest, EnrollmentTypeOK
  <2>2. \A p \in Polls : poll'[p].pc # "idle" =>
            /\ poll'[p].request \in Requests
            /\ requests'[poll'[p].request].status # "absent"
    BY DEF SessionsKnowTheirRequest, PollGoesOn, NoPoll
  <2>3. \A p \in Polls : poll'[p].stamp <= now'
    <3> SUFFICES ASSUME NEW p \in Polls, poll'[p].stamp = poll[p].stamp
                 PROVE  poll'[p].stamp <= now'
      BY DEF PollGoesOn, NoPoll
    <3>1. poll[p].stamp \in Nat /\ now \in Nat /\ poll[p].stamp <= now
      BY DevicesAssumption
      DEF EnrollmentTypeOK, DevicesTypeOK, PollSession,
          SessionsKnowTheirRequest
    <3> QED
      BY <3>1
  <2> QED
    BY <2>1, <2>2, <2>3 DEF SessionsKnowTheirRequest
<1>2. ApprovalsAreRecorded'
  BY DEF ApprovalsAreRecorded, PollGoesOn, NoPoll
<1>3. IssuedOnlyAfterApproval'
  BY DEF IssuedOnlyAfterApproval
<1> QED
  BY <1>1, <1>2, <1>3

\* Every step keeps the approvals in order.
LEMMA ApprovalStep ==
    EnrollmentTypeOK /\ ApprovalInv /\ [EnrollmentNext]_enrollmentVars
        => ApprovalInv'
<1> SUFFICES ASSUME EnrollmentTypeOK, ApprovalInv,
                    [EnrollmentNext]_enrollmentVars
             PROVE  ApprovalInv'
  OBVIOUS
<1>a. now \in Nat
  BY DevicesAssumption DEF EnrollmentTypeOK, DevicesTypeOK
<1>b. NoPoll.pc = "idle" /\ NoPoll.stamp = 0 /\ 0 <= now
  BY <1>a DEF NoPoll
<1>c. (\A q \in Polls : poll'[q] \in {poll[q], NoPoll})
          => \A q \in Polls : PollGoesOn(q)
  BY DEF PollGoesOn
<1>d. UNCHANGED poll => \A q \in Polls : PollGoesOn(q)
  BY DEF PollGoesOn
<1>1. ASSUME \/ UNCHANGED <<requests, review, poll>>
             \/ UNCHANGED <<requests, review>> /\ \E p \in Polls :
                   \/ poll' = [poll EXCEPT ![p] = NoPoll]
                   \/ PollMatch(p)
             \/ UNCHANGED <<requests, poll>> /\ \E v \in Reviews :
                   review' = [review EXCEPT ![v] = NoRequest],
             UNCHANGED <<now, approvals, claims>>
      PROVE  ApprovalInv'
  <2>1. \A v \in Reviews : review'[v] \in {review[v], NoRequest}
    <3>1. ASSUME NEW v \in Reviews, review' = [review EXCEPT ![v] = NoRequest]
          PROVE  \A u \in Reviews : review'[u] \in {review[u], NoRequest}
      BY <3>1 DEF EnrollmentTypeOK
    <3> QED
      BY <1>1, <3>1
  <2>2. \A q \in Polls : PollGoesOn(q)
    <3>1. ASSUME NEW p \in Polls, poll' = [poll EXCEPT ![p] = NoPoll],
                 NEW q \in Polls
          PROVE  poll'[q] = poll[q] \/ poll'[q] = NoPoll
      BY <3>1 DEF EnrollmentTypeOK
    <3> QED
      BY <1>1, <3>1, MatchGoesOn DEF PollGoesOn
  <2> QED
    BY <1>1, <1>a, <2>1, <2>2, ApprovalKept
<1>2. ASSUME NEW s \in Submits, NEW r \in Requests, NEW ident \in Identity,
             SubmitCommit(s, r, ident)
      PROVE  ApprovalInv'
  <2>1. \A q \in Requests :
              /\ requests[q].status # "absent" => requests'[q].status # "absent"
              /\ requests'[q].status = "approved" =>
                     requests[q].status = "approved"
    BY <1>2 DEF SubmitCommit, EnrollmentTypeOK
  <2>2. UNCHANGED <<now, review, poll, approvals, claims>>
    BY <1>2 DEF SubmitCommit, deviceVars
  <2> QED
    BY <1>a, <1>d, <2>1, <2>2, ApprovalKept
<1>3. ASSUME NEW v \in Reviews, NEW r \in Requests, ReviewRead(v, r)
      PROVE  ApprovalInv'
  BY <1>3
  DEF ReviewRead, deviceVars, ApprovalInv, SessionsKnowTheirRequest,
      ApprovalsAreRecorded, IssuedOnlyAfterApproval, EnrollmentTypeOK
<1>4. ASSUME NEW v \in Reviews, Approve(v)
      PROVE  ApprovalInv'
  <2>1. /\ review[v] \in Requests
        /\ approvals' = approvals \cup {review[v]}
        /\ UNCHANGED <<now, poll, claims>>
        /\ \A u \in Reviews : review'[u] \in {review[u], NoRequest}
        /\ \A r \in Requests :
              /\ requests[r].status # "absent" => requests'[r].status # "absent"
              /\ requests'[r].status = "approved" =>
                     requests[r].status = "approved" \/ r = review[v]
    BY <1>4 DEF Approve, deviceVars, EnrollmentTypeOK, Request
  <2>2. SessionsKnowTheirRequest'
    BY <2>1 DEF ApprovalInv, SessionsKnowTheirRequest, EnrollmentTypeOK
  <2>3. ApprovalsAreRecorded' /\ IssuedOnlyAfterApproval'
    BY <2>1
    DEF ApprovalInv, ApprovalsAreRecorded, IssuedOnlyAfterApproval
  <2> QED
    BY <2>2, <2>3 DEF ApprovalInv
<1>5. ASSUME NEW v \in Reviews, Reject(v)
      PROVE  ApprovalInv'
  <2>1. \A r \in Requests :
              /\ requests[r].status # "absent" => requests'[r].status # "absent"
              /\ requests'[r].status = "approved" =>
                     requests[r].status = "approved"
    BY <1>5 DEF Reject, EnrollmentTypeOK, Request
  <2>2. /\ UNCHANGED <<now, poll, approvals, claims>>
        /\ \A u \in Reviews : review'[u] \in {review[u], NoRequest}
    BY <1>5 DEF Reject, deviceVars, EnrollmentTypeOK
  <2> QED
    BY <1>a, <1>d, <2>1, <2>2, ApprovalKept
<1>6. ASSUME NEW p \in Polls, NEW r \in Requests,
             PollExpiring(p, r) \/ PollApproved(p, r)
      PROVE  ApprovalInv'
  <2>1. /\ UNCHANGED <<now, requests, review, approvals, claims>>
        /\ \A q \in Polls : q # p => poll'[q] = poll[q]
        /\ poll'[p].request = r
        /\ poll'[p].stamp <= now
        /\ requests[r].status \in {"pending", "approved"}
        /\ poll'[p].pc = "expiring" \/ requests[r].status = "approved"
        /\ poll'[p].pc # "matched"
    <3>1. CASE PollExpiring(p, r)
      BY <3>1, <1>b DEF PollExpiring, NoPoll, deviceVars, EnrollmentTypeOK
    <3>2. CASE PollApproved(p, r)
      BY <3>2, <1>a DEF PollApproved, NoPoll, deviceVars, EnrollmentTypeOK
    <3> QED
      BY <1>6, <3>1, <3>2
  <2>2. SessionsKnowTheirRequest'
    BY <2>1 DEF ApprovalInv, SessionsKnowTheirRequest
  <2>3. ApprovalsAreRecorded' /\ IssuedOnlyAfterApproval'
    BY <2>1
    DEF ApprovalInv, ApprovalsAreRecorded, IssuedOnlyAfterApproval
  <2> QED
    BY <2>2, <2>3 DEF ApprovalInv
<1>7. ASSUME NEW p \in Polls, PollExpire(p)
      PROVE  ApprovalInv'
  <2>1. /\ \A r \in Requests :
              /\ requests[r].status # "absent" => requests'[r].status # "absent"
              /\ requests'[r].status = "approved" =>
                     requests[r].status = "approved"
    BY <1>7 DEF PollExpire, EnrollmentTypeOK, Request
  <2>2. /\ UNCHANGED <<now, review, approvals, claims>>
        /\ \A q \in Polls : poll'[q] \in {poll[q], NoPoll}
    BY <1>7 DEF PollExpire, deviceVars, EnrollmentTypeOK
  <2> QED
    BY <1>a, <1>c, <2>1, <2>2, ApprovalKept
<1>8. ASSUME NEW p \in Polls, PollCommit(p)
      PROVE  ApprovalInv'
  <2>1. poll[p].request \in Requests /\ poll[p].request \in approvals
    BY <1>8
    DEF PollCommit, ApprovalInv, SessionsKnowTheirRequest,
        ApprovalsAreRecorded
  <2>2. PICK d \in DeviceIds, row \in Row : ClaimWrites(p, d, row)
    BY <1>8, <2>1, PollCommitWrites
  <2>3. /\ \A r \in Requests : requests'[r].status = requests[r].status
        /\ \A r \in Requests : claims'[r] > 0 =>
               claims[r] > 0 \/ r = poll[p].request
        /\ UNCHANGED <<now, review, approvals>>
        /\ \A q \in Polls : poll'[q] \in {poll[q], NoPoll}
    BY <1>8, <2>2 DEF PollCommit, ClaimWrites, EnrollmentTypeOK, Request
  <2>4. SessionsKnowTheirRequest'
    BY <2>3, <1>b
    DEF ApprovalInv, SessionsKnowTheirRequest, EnrollmentTypeOK
  <2>5. ApprovalsAreRecorded'
    BY <2>3, <1>b DEF ApprovalInv, ApprovalsAreRecorded
  <2>6. IssuedOnlyAfterApproval'
    BY <2>1, <2>3 DEF ApprovalInv, IssuedOnlyAfterApproval
  <2> QED
    BY <2>4, <2>5, <2>6 DEF ApprovalInv
<1>9. CASE DevicesStep
  <2>1. \A r \in Requests : requests'[r].status = requests[r].status
    BY <1>9 DEF DevicesStep, Detached, EnrollmentTypeOK, Request
  <2>2. /\ UNCHANGED <<review, poll, approvals, claims>>
        /\ now' \in Nat /\ now <= now'
    BY <1>9, <1>a
    DEF DevicesStep, DevicesNext, SetEnabled, RotateCredential,
        RevokeCredential, DeleteDevice, BeatAuth, BeatCommit, BeatAbort, Tick
  <2> QED
    BY <1>d, <2>1, <2>2, ApprovalKept
<1>10. CASE Abort
  BY <1>1, <1>10 DEF Abort, deviceVars
<1>11. CASE UNCHANGED enrollmentVars
  BY <1>1, <1>11 DEF enrollmentVars
<1>12. ASSUME NEW k \in Keys,
              \/ \E org \in Orgs, expires \in KeyExpiries :
                    CreateKey(k, org, expires)
              \/ RevokeKey(k)
              \/ \E s \in Submits : SubmitAuth(s, k)
       PROVE  ApprovalInv'
  BY <1>1, <1>12 DEF CreateKey, RevokeKey, SubmitAuth, deviceVars
<1>13. ASSUME NEW s \in Submits, CheckCommit(s)
       PROVE  ApprovalInv'
  BY <1>1, <1>13 DEF CheckCommit, deviceVars
<1>14. ASSUME NEW p \in Polls, PollMatch(p) \/ PollConflict(p)
       PROVE  ApprovalInv'
  <2>1. UNCHANGED <<requests, review, now, approvals, claims>>
    BY <1>14 DEF PollMatch, PollConflict, deviceVars
  <2>2. poll' = [poll EXCEPT ![p] = NoPoll] \/ PollMatch(p)
    BY <1>14 DEF PollConflict
  <2> QED
    BY <1>1, <2>1, <2>2
<1> QED
  BY <1>2, <1>3, <1>4, <1>5, <1>6, <1>7, <1>8, <1>9, <1>10, <1>11, <1>12,
     <1>13, <1>14 DEF EnrollmentNext, EnrollmentStep

-----------------------------------------------------------------------------
(* Tenancy.  The device a poll matched is in the tenant of the request,    *)
(* and neither of them changes tenant before the commit.                   *)

\* A step that creates no device, moves neither devices nor requests between
\* tenants, and lets requests point to live devices only.
LEMMA PollTenancyKept ==
    ASSUME EnrollmentTypeOK, SessionsKnowTheirRequest, PollTenancyInv,
           \A d \in Live' : d \in Live /\ devices'[d].org = devices[d].org,
           \A d \in DeviceIds :
              devices[d].state # "absent" => devices'[d].state # "absent",
           \A r \in Requests :
              /\ requests[r].status # "absent" =>
                     requests'[r].org = requests[r].org
              /\ requests'[r].device # NoDevice =>
                     /\ requests'[r].device = requests[r].device
                     /\ requests'[r].claimed = requests[r].claimed
                     /\ requests'[r].org = requests[r].org
                     /\ requests'[r].device \in Live',
           \A p \in Polls : poll'[p] = poll[p] \/ poll'[p].device = NoDevice
    PROVE  PollTenancyInv'
<1>1. NoDevice \notin Live'
  BY DevicesAssumption DEF Live
<1>2. PollMatchedInTenant'
  <2> SUFFICES ASSUME NEW p \in Polls, poll'[p] = poll[p],
                      poll[p].device # NoDevice
               PROVE  /\ poll[p].pc # "issuing"
                      /\ poll[p].pc = "matched" =>
                             devices'[poll[p].device].state # "absent"
                      /\ poll[p].pc = "matched" /\ poll[p].device \in Live' =>
                             devices'[poll[p].device].org =
                                 requests'[poll[p].request].org
    BY <1>1 DEF PollMatchedInTenant, PollTenancyInv
  <2>1. poll[p].device \in DeviceIds
    BY DEF EnrollmentTypeOK, PollSession
  <2>2. poll[p].pc = "matched" =>
            /\ poll[p].request \in Requests
            /\ requests[poll[p].request].status # "absent"
    BY DEF SessionsKnowTheirRequest
  <2> QED
    BY <2>1, <2>2 DEF PollTenancyInv, PollMatchedInTenant
<1>3. ClaimedDeviceInTenant'
  <2> SUFFICES ASSUME NEW r \in Requests, requests'[r].device # NoDevice
               PROVE  /\ requests'[r].claimed
                      /\ requests'[r].device \in Live'
                      /\ devices'[requests'[r].device].org = requests'[r].org
    BY DEF ClaimedDeviceInTenant
  <2> QED
    BY DEF PollTenancyInv, ClaimedDeviceInTenant
<1> QED
  BY <1>2, <1>3 DEF PollTenancyInv

\* A claim leaves its device in the tenant of the request.
LEMMA PollTenancyClaim ==
    ASSUME EnrollmentTypeOK, SessionsKnowTheirRequest, PollTenancyInv,
           NEW p \in Polls, PollCommit(p)
    PROVE  PollTenancyInv'
<1>1. poll[p].request \in Requests /\ poll[p].pc = "matched"
  BY DEF PollCommit, SessionsKnowTheirRequest
<1>2. PICK d \in DeviceIds, row \in Row : ClaimWrites(p, d, row)
  BY <1>1, PollCommitWrites
<1>3. /\ \A e \in DeviceIds : e # d => devices'[e] = devices[e]
      /\ devices'[d] = row
      /\ row.state = "live"
      /\ d \in Live => row.org = devices[d].org
      /\ d \notin Live => row.org = requests[poll[p].request].org
  BY <1>2 DEF ClaimWrites, EnrollmentTypeOK, DevicesTypeOK
<1>4. /\ \A r \in Requests : requests'[r].org = requests[r].org
      /\ \A r \in Requests : r # poll[p].request =>
            /\ requests'[r].device = requests[r].device
            /\ requests'[r].claimed = requests[r].claimed
      /\ requests'[poll[p].request].device = d
      /\ requests'[poll[p].request].claimed
  BY <1>1, <1>2 DEF ClaimWrites, EnrollmentTypeOK, Request
<1>5. d \in Live => row.org = requests[poll[p].request].org
  BY <1>1, <1>2 DEF ClaimWrites, Live, PollTenancyInv, PollMatchedInTenant
<1>6. ASSUME NEW e \in Live
      PROVE  e \in Live' /\ devices'[e].org = devices[e].org
  BY <1>3 DEF Live
<1>7. ClaimedDeviceInTenant'
  <2> SUFFICES ASSUME NEW r \in Requests, requests'[r].device # NoDevice
               PROVE  /\ requests'[r].claimed
                      /\ requests'[r].device \in Live'
                      /\ devices'[requests'[r].device].org = requests'[r].org
    BY DEF ClaimedDeviceInTenant
  <2>1. CASE r = poll[p].request
    BY <1>3, <1>4, <1>5, <2>1 DEF Live
  <2>2. CASE r # poll[p].request
    BY <1>4, <1>6, <2>2 DEF PollTenancyInv, ClaimedDeviceInTenant
  <2> QED
    BY <2>1, <2>2
<1>8. PollMatchedInTenant'
  <2> SUFFICES ASSUME NEW q \in Polls
               PROVE  /\ poll'[q].pc = "issuing" => poll'[q].device = NoDevice
                      /\ poll'[q].pc = "matched" /\ poll'[q].device # NoDevice
                            => devices'[poll'[q].device].state # "absent"
                      /\ poll'[q].pc = "matched" /\ poll'[q].device \in Live'
                            => devices'[poll'[q].device].org =
                                   requests'[poll'[q].request].org
    BY DEF PollMatchedInTenant
  <2>1. CASE q = p
    BY <2>1 DEF PollCommit, NoPoll, EnrollmentTypeOK
  <2>2. CASE q # p
    <3>1. poll'[q] = poll[q]
      BY <2>2 DEF PollCommit, EnrollmentTypeOK
    <3>2. ASSUME poll[q].pc = "matched", poll[q].device # NoDevice
          PROVE  /\ poll[q].device \in DeviceIds
                 /\ devices[poll[q].device].state # "absent"
                 /\ devices'[poll[q].device].state # "absent"
      <4>1. /\ poll[q].device \in DeviceIds
            /\ devices[poll[q].device].state # "absent"
        BY <3>2
        DEF EnrollmentTypeOK, PollSession, PollTenancyInv, PollMatchedInTenant
      <4> QED
        BY <4>1, <1>3
    <3>3. ASSUME poll[q].pc = "matched", poll[q].device \in Live'
          PROVE  devices'[poll[q].device].org =
                     requests'[poll[q].request].org
      <4>1. poll[q].device \in DeviceIds /\ poll[q].device # NoDevice
        BY <3>3, DevicesAssumption DEF Live
      <4>2. devices[poll[q].device].state # "absent"
        BY <3>2, <3>3, <4>1
      <4>3. poll[q].device \in Live
        BY <1>2, <1>3, <3>3, <4>1, <4>2 DEF Live, ClaimWrites
      <4>4. poll[q].request \in Requests
        BY <3>3 DEF SessionsKnowTheirRequest
      <4> QED
        BY <1>4, <1>6, <3>3, <4>3, <4>4 DEF PollTenancyInv, PollMatchedInTenant
    <3> QED
      BY <3>1, <3>2, <3>3 DEF PollTenancyInv, PollMatchedInTenant
  <2> QED
    BY <2>1, <2>2
<1> QED
  BY <1>7, <1>8 DEF PollTenancyInv

\* Every step keeps the tenancy.
LEMMA PollTenancyStep ==
    EnrollmentTypeOK /\ SessionsKnowTheirRequest /\ PollTenancyInv
        /\ [EnrollmentNext]_enrollmentVars => PollTenancyInv'
<1> SUFFICES ASSUME EnrollmentTypeOK, SessionsKnowTheirRequest, PollTenancyInv,
                    [EnrollmentNext]_enrollmentVars
             PROVE  PollTenancyInv'
  OBVIOUS
<1>1. ASSUME UNCHANGED devices,
             \A r \in Requests :
                /\ requests[r].status # "absent" =>
                       requests'[r].org = requests[r].org
                /\ requests'[r].device # NoDevice =>
                       /\ requests'[r].device = requests[r].device
                       /\ requests'[r].claimed = requests[r].claimed
                       /\ requests'[r].org = requests[r].org,
             \A p \in Polls : poll'[p] = poll[p] \/ poll'[p].device = NoDevice
      PROVE  PollTenancyInv'
  <2>1. Live' = Live
    BY <1>1 DEF Live
  <2>2. \A r \in Requests : requests'[r].device # NoDevice =>
            requests'[r].device \in Live'
    BY <1>1, <2>1 DEF PollTenancyInv, ClaimedDeviceInTenant
  <2> QED
    BY <1>1, <2>1, <2>2, PollTenancyKept
<1>2. ASSUME NEW k \in Keys,
             \/ \E org \in Orgs, expires \in KeyExpiries :
                   CreateKey(k, org, expires)
             \/ RevokeKey(k)
             \/ \E s \in Submits : SubmitAuth(s, k)
      PROVE  PollTenancyInv'
  BY <1>1, <1>2 DEF CreateKey, RevokeKey, SubmitAuth, deviceVars
<1>3. ASSUME NEW s \in Submits, CheckCommit(s)
      PROVE  PollTenancyInv'
  BY <1>1, <1>3 DEF CheckCommit, deviceVars
<1>4. ASSUME NEW s \in Submits, NEW r \in Requests, NEW ident \in Identity,
             SubmitCommit(s, r, ident)
      PROVE  PollTenancyInv'
  <2>1. /\ \A q \in Requests : q # r => requests'[q] = requests[q]
        /\ requests[r].status = "absent"
        /\ requests'[r].device = NoDevice
        /\ UNCHANGED <<devices, poll>>
    BY <1>4 DEF SubmitCommit, deviceVars, EnrollmentTypeOK
  <2> QED
    BY <1>1, <2>1
<1>5. ASSUME NEW v \in Reviews,
             \/ \E r \in Requests : ReviewRead(v, r)
             \/ Approve(v)
             \/ Reject(v)
      PROVE  PollTenancyInv'
  <2>1. /\ \A r \in Requests : /\ requests'[r].org = requests[r].org
                               /\ requests'[r].device = requests[r].device
                               /\ requests'[r].claimed = requests[r].claimed
        /\ UNCHANGED <<devices, poll>>
    <3>1. CASE \E r \in Requests : ReviewRead(v, r)
      BY <3>1 DEF ReviewRead, deviceVars
    <3>2. CASE Approve(v)
      BY <3>2 DEF Approve, deviceVars, EnrollmentTypeOK, Request
    <3>3. CASE Reject(v)
      BY <3>3 DEF Reject, deviceVars, EnrollmentTypeOK, Request
    <3> QED
      BY <1>5, <3>1, <3>2, <3>3
  <2> QED
    BY <1>1, <2>1
<1>6. ASSUME NEW p \in Polls, NEW r \in Requests,
             PollExpiring(p, r) \/ PollApproved(p, r)
      PROVE  PollTenancyInv'
  <2>1. /\ \A q \in Polls : poll'[q] = poll[q] \/ poll'[q].device = NoDevice
        /\ UNCHANGED <<devices, requests>>
    <3>1. CASE PollExpiring(p, r)
      BY <3>1 DEF PollExpiring, NoPoll, deviceVars, EnrollmentTypeOK
    <3>2. CASE PollApproved(p, r)
      BY <3>2 DEF PollApproved, NoPoll, deviceVars, EnrollmentTypeOK
    <3> QED
      BY <1>6, <3>1, <3>2
  <2> QED
    BY <1>1, <2>1
<1>7. ASSUME NEW p \in Polls, PollExpire(p) \/ PollConflict(p)
      PROVE  PollTenancyInv'
  <2>1. /\ \A q \in Polls : poll'[q] = poll[q] \/ poll'[q].device = NoDevice
        /\ UNCHANGED devices
    BY <1>7 DEF PollExpire, PollConflict, NoPoll, deviceVars, EnrollmentTypeOK
  <2>2. \A r \in Requests : /\ requests'[r].org = requests[r].org
                            /\ requests'[r].device = requests[r].device
                            /\ requests'[r].claimed = requests[r].claimed
    BY <1>7 DEF PollExpire, PollConflict, EnrollmentTypeOK, Request
  <2> QED
    BY <1>1, <2>1, <2>2
<1>8. ASSUME NEW p \in Polls, PollMatch(p)
      PROVE  PollTenancyInv'
  <2>1. /\ \A q \in Polls : q # p => poll'[q] = poll[q]
        /\ poll'[p].pc = "matched"
        /\ poll'[p].request = poll[p].request
        /\ poll[p].device = NoDevice
        /\ UNCHANGED <<devices, requests>>
    BY <1>8
    DEF PollMatch, deviceVars, EnrollmentTypeOK, PollSession, PollTenancyInv,
        PollMatchedInTenant
  <2>2. poll'[p].device = NoDevice \/ poll'[p].device \in PollHits(p)
    BY <1>8, <2>1 DEF PollMatch, EnrollmentTypeOK, PollSession
  <2>3. \A d \in PollHits(p) :
            d \in Live /\ devices[d].org = requests[poll[p].request].org
    BY <1>8
    DEF PollMatch, Acceptable, CrossOrganization, PollHits, Hits, Candidates
  <2>4. NoDevice \notin Live
    BY DevicesAssumption DEF Live
  <2>5. PollMatchedInTenant'
    BY <2>1, <2>2, <2>3, <2>4 DEF PollTenancyInv, PollMatchedInTenant, Live
  <2>6. ClaimedDeviceInTenant'
    BY <2>1 DEF PollTenancyInv, ClaimedDeviceInTenant, Live
  <2> QED
    BY <2>5, <2>6 DEF PollTenancyInv
<1>9. ASSUME NEW p \in Polls, PollCommit(p)
      PROVE  PollTenancyInv'
  BY <1>9, PollTenancyClaim
<1>10. CASE Abort
  <2>1. /\ \A q \in Polls : poll'[q] = poll[q] \/ poll'[q].device = NoDevice
        /\ UNCHANGED <<devices, requests>>
    BY <1>10 DEF Abort, NoPoll, deviceVars, EnrollmentTypeOK
  <2> QED
    BY <1>1, <2>1
<1>11. CASE DevicesStep
  <2>1. DevicesTypeOK /\ DevicesNext /\ UNCHANGED poll
    BY <1>11 DEF DevicesStep, EnrollmentTypeOK
  <2>2. \A d \in Live' : d \in Live /\ devices'[d].org = devices[d].org
    BY <2>1, DevicesNextKeeps DEF Live
  <2>3. \A d \in DeviceIds :
            devices[d].state # "absent" => devices'[d].state # "absent"
    BY <2>1, DevicesNextKeepsUsed
  <2>4. \A r \in Requests :
           /\ requests'[r].org = requests[r].org
           /\ requests'[r].claimed = requests[r].claimed
           /\ requests'[r].device # NoDevice =>
                  /\ requests'[r].device = requests[r].device
                  /\ requests'[r].device \in Live'
    BY <1>11 DEF DevicesStep, Detached, EnrollmentTypeOK, Request
  <2> QED
    BY <2>1, <2>2, <2>3, <2>4, PollTenancyKept
<1>12. CASE UNCHANGED enrollmentVars
  BY <1>1, <1>12 DEF enrollmentVars
<1> QED
  BY <1>2, <1>3, <1>4, <1>5, <1>6, <1>7, <1>8, <1>9, <1>10, <1>11, <1>12
  DEF EnrollmentNext, EnrollmentStep

-----------------------------------------------------------------------------

EnrollmentIInv == EnrollmentTypeOK /\ ApprovalInv /\ PollTenancyInv

\* The initial state satisfies it.
LEMMA EnrollmentInitIInv == EnrollmentInit => EnrollmentIInv
<1> SUFFICES ASSUME EnrollmentInit
             PROVE  EnrollmentIInv
  OBVIOUS
<1>1. EnrollmentTypeOK
  BY EnrollmentInitType
<1>2. ApprovalInv
  BY DEF EnrollmentInit, DevicesInit, ApprovalInv, SessionsKnowTheirRequest,
         ApprovalsAreRecorded, IssuedOnlyAfterApproval, NoPoll, NoRequestRow
<1>3. PollTenancyInv
  BY DEF EnrollmentInit, PollTenancyInv, PollMatchedInTenant,
         ClaimedDeviceInTenant, NoPoll, NoRequestRow
<1> QED
  BY <1>1, <1>2, <1>3 DEF EnrollmentIInv

\* The inductive invariant holds in every reachable state.
THEOREM EnrollmentInvariant == EnrollmentSpec => []EnrollmentIInv
<1>1. EnrollmentInit => EnrollmentIInv
  BY EnrollmentInitIInv
<1>2. EnrollmentIInv /\ [EnrollmentNext]_enrollmentVars => EnrollmentIInv'
  BY EnrollmentTypeStep, ApprovalStep, PollTenancyStep
  DEF EnrollmentIInv, ApprovalInv
<1> QED
  BY <1>1, <1>2, PTL DEF EnrollmentSpec

\* Keys, requests, devices and sessions keep their types, and no device holds
\* a secret that was not generated or a time that has not come.
THEOREM EnrollmentTypeCorrect == EnrollmentSpec => []EnrollmentTypeOK
<1>1. EnrollmentIInv => EnrollmentTypeOK
  BY DEF EnrollmentIInv
<1> QED
  BY <1>1, EnrollmentInvariant, PTL

\* No credential is issued for a request that no administrator approved.
THEOREM NothingIssuedUnapproved == EnrollmentSpec => []IssuedOnlyAfterApproval
<1>1. EnrollmentIInv => IssuedOnlyAfterApproval
  BY DEF EnrollmentIInv, ApprovalInv
<1> QED
  BY <1>1, EnrollmentInvariant, PTL

\* The device of a request exists and is in the tenant of the request.
THEOREM ClaimsStayInTenant == EnrollmentSpec => []ClaimedDeviceInTenant
<1>1. EnrollmentIInv => ClaimedDeviceInTenant
  BY DEF EnrollmentIInv, PollTenancyInv
<1> QED
  BY <1>1, EnrollmentInvariant, PTL

-----------------------------------------------------------------------------
(* What the documents promise beyond that holds when requests of a kind do *)
(* not overlap: a credential is issued once if polls do not, and a review  *)
(* is final if reviews do not and requests do not expire.                  *)

\* A request is claimed with its credential, and a poll that is about to
\* issue one works on a request that is not claimed.
OnceInv ==
    /\ \A r \in Requests :
          /\ claims[r] = IF requests[r].claimed THEN 1 ELSE 0
          /\ requests[r].status = "absent" => ~requests[r].claimed
    /\ \A p \in Polls :
          poll[p].pc \in {"issuing", "matched"} =>
              ~requests[poll[p].request].claimed

\* A step without a claim keeps that.
LEMMA OnceKept ==
    ASSUME EnrollmentTypeOK, SessionsKnowTheirRequest, OnceInv,
           UNCHANGED claims,
           \A r \in Requests :
              /\ requests'[r].claimed = requests[r].claimed
              /\ requests'[r].status = "absent" => requests[r].status = "absent",
           \A p \in Polls :
              \/ PollGoesOn(p)
              \/ /\ poll'[p].request \in Requests
                 /\ ~requests[poll'[p].request].claimed
              \/ poll'[p].pc = "expiring"
    PROVE  OnceInv'
<1>1. ASSUME NEW r \in Requests
      PROVE  /\ claims'[r] = IF requests'[r].claimed THEN 1 ELSE 0
             /\ requests'[r].status = "absent" => ~requests'[r].claimed
  BY DEF OnceInv
<1>2. ASSUME NEW p \in Polls, poll'[p].pc \in {"issuing", "matched"}
      PROVE  ~requests'[poll'[p].request].claimed
  <2>1. CASE PollGoesOn(p)
    <3>1. /\ poll'[p].request = poll[p].request
          /\ poll[p].pc \in {"issuing", "matched"}
      BY <1>2, <2>1 DEF PollGoesOn, NoPoll
    <3>2. poll[p].request \in Requests
      BY <3>1 DEF SessionsKnowTheirRequest
    <3> QED
      BY <3>1, <3>2 DEF OnceInv
  <2>2. CASE /\ poll'[p].request \in Requests
             /\ ~requests[poll'[p].request].claimed
    BY <2>2
  <2> QED
    BY <1>2, <2>1, <2>2
<1> QED
  BY <1>1, <1>2 DEF OnceInv

\* Every step keeps it, if there is one poll at a time.
LEMMA OnceStep ==
    ASSUME \A p, q \in Polls : p = q
    PROVE  EnrollmentIInv /\ OnceInv /\ [EnrollmentNext]_enrollmentVars
               => OnceInv'
<1> SUFFICES ASSUME EnrollmentIInv, OnceInv, [EnrollmentNext]_enrollmentVars
             PROVE  OnceInv'
  OBVIOUS
<1>0. EnrollmentTypeOK /\ SessionsKnowTheirRequest
  BY DEF EnrollmentIInv, ApprovalInv
<1>a. (\A p \in Polls : poll'[p] \in {poll[p], NoPoll})
          => \A p \in Polls : PollGoesOn(p)
  BY DEF PollGoesOn
<1>1. ASSUME UNCHANGED <<requests, claims>>,
             \A p \in Polls : poll'[p] \in {poll[p], NoPoll}
      PROVE  OnceInv'
  BY <1>0, <1>1, <1>a, OnceKept
<1>2. ASSUME NEW k \in Keys,
             \/ \E org \in Orgs, expires \in KeyExpiries :
                   CreateKey(k, org, expires)
             \/ RevokeKey(k)
             \/ \E s \in Submits : SubmitAuth(s, k)
      PROVE  OnceInv'
  BY <1>1, <1>2 DEF CreateKey, RevokeKey, SubmitAuth
<1>3. ASSUME NEW s \in Submits, CheckCommit(s)
      PROVE  OnceInv'
  BY <1>1, <1>3 DEF CheckCommit
<1>4. ASSUME NEW s \in Submits, NEW r \in Requests, NEW ident \in Identity,
             SubmitCommit(s, r, ident)
      PROVE  OnceInv'
  <2>1. /\ requests[r].status = "absent"
        /\ requests'[r].status = "pending"
        /\ ~requests'[r].claimed
        /\ \A q \in Requests : q # r => requests'[q] = requests[q]
        /\ UNCHANGED <<claims, poll>>
    BY <1>0, <1>4 DEF SubmitCommit, EnrollmentTypeOK
  <2>2. requests'[r].claimed = requests[r].claimed
    BY <1>0, <1>4, <2>1 DEF SubmitCommit, OnceInv, EnrollmentTypeOK, Request
  <2>3. \A q \in Requests :
              /\ requests'[q].claimed = requests[q].claimed
              /\ requests'[q].status = "absent" => requests[q].status = "absent"
    BY <2>1, <2>2
  <2> QED
    BY <1>0, <1>a, <2>1, <2>3, OnceKept
<1>5. ASSUME NEW v \in Reviews,
             \/ \E r \in Requests : ReviewRead(v, r)
             \/ Approve(v)
             \/ Reject(v)
      PROVE  OnceInv'
  <2>1. /\ \A r \in Requests :
              /\ requests'[r].claimed = requests[r].claimed
              /\ requests'[r].status = "absent" => requests[r].status = "absent"
        /\ UNCHANGED <<claims, poll>>
    <3>1. CASE \E r \in Requests : ReviewRead(v, r)
      BY <3>1 DEF ReviewRead
    <3>2. CASE Approve(v)
      BY <1>0, <3>2 DEF Approve, EnrollmentTypeOK, Request
    <3>3. CASE Reject(v)
      BY <1>0, <3>3 DEF Reject, EnrollmentTypeOK, Request
    <3> QED
      BY <1>5, <3>1, <3>2, <3>3
  <2> QED
    BY <1>0, <1>a, <2>1, OnceKept
<1>6. ASSUME NEW p \in Polls, NEW r \in Requests,
             PollExpiring(p, r) \/ PollApproved(p, r)
      PROVE  OnceInv'
  <2>1. /\ UNCHANGED <<requests, claims>>
        /\ \A q \in Polls : q # p => poll'[q] = poll[q]
        /\ \/ poll'[p].pc = "expiring"
           \/ poll'[p].request = r /\ ~requests[r].claimed
    <3>1. CASE PollExpiring(p, r)
      BY <1>0, <3>1 DEF PollExpiring, NoPoll, EnrollmentTypeOK
    <3>2. CASE PollApproved(p, r)
      BY <1>0, <3>2 DEF PollApproved, NoPoll, EnrollmentTypeOK
    <3> QED
      BY <1>6, <3>1, <3>2
  <2> QED
    BY <1>0, <2>1, OnceKept DEF PollGoesOn
<1>7. ASSUME NEW p \in Polls, PollExpire(p) \/ PollConflict(p)
      PROVE  OnceInv'
  <2>1. /\ \A r \in Requests :
              /\ requests'[r].claimed = requests[r].claimed
              /\ requests'[r].status = "absent" => requests[r].status = "absent"
        /\ UNCHANGED claims
        /\ \A q \in Polls : poll'[q] \in {poll[q], NoPoll}
    <3>1. CASE PollExpire(p)
      BY <1>0, <3>1 DEF PollExpire, EnrollmentTypeOK, Request
    <3>2. CASE PollConflict(p)
      BY <1>0, <3>2 DEF PollConflict, EnrollmentTypeOK
    <3> QED
      BY <1>7, <3>1, <3>2
  <2> QED
    BY <1>0, <1>a, <2>1, OnceKept
<1>8. ASSUME NEW p \in Polls, PollMatch(p)
      PROVE  OnceInv'
  <2>1. UNCHANGED <<requests, claims>>
    BY <1>8 DEF PollMatch
  <2>2. \A q \in Polls : PollGoesOn(q)
    BY <1>0, <1>8, MatchGoesOn
  <2> QED
    BY <1>0, <2>1, <2>2, OnceKept
<1>9. ASSUME NEW p \in Polls, PollCommit(p)
      PROVE  OnceInv'
  <2>1. /\ poll[p].request \in Requests
        /\ ~requests[poll[p].request].claimed
        /\ claims[poll[p].request] = 0
    BY <1>0, <1>9 DEF PollCommit, SessionsKnowTheirRequest, OnceInv
  <2>2. PICK d \in DeviceIds, row \in Row : ClaimWrites(p, d, row)
    BY <1>0, <1>9, <2>1, PollCommitWrites
  <2>3. /\ \A r \in Requests : r # poll[p].request =>
              requests'[r] = requests[r] /\ claims'[r] = claims[r]
        /\ requests'[poll[p].request].claimed
        /\ requests'[poll[p].request].status =
               requests[poll[p].request].status
        /\ claims'[poll[p].request] = 1
    BY <1>0, <1>9, <2>1, <2>2
    DEF PollCommit, ClaimWrites, EnrollmentTypeOK, Request
  <2>4. requests[poll[p].request].status # "absent"
    BY <1>0, <1>9 DEF PollCommit, SessionsKnowTheirRequest
  <2>5. \A q \in Polls : poll'[q].pc = "idle"
    BY <1>0, <1>9 DEF PollCommit, NoPoll, EnrollmentTypeOK
  <2> QED
    BY <2>3, <2>4, <2>5 DEF OnceInv
<1>10. CASE Abort
  <2>1. /\ UNCHANGED <<requests, claims>>
        /\ \A q \in Polls : poll'[q] \in {poll[q], NoPoll}
    BY <1>0, <1>10 DEF Abort, EnrollmentTypeOK
  <2> QED
    BY <1>1, <2>1
<1>11. CASE DevicesStep
  <2>1. /\ \A r \in Requests :
              /\ requests'[r].claimed = requests[r].claimed
              /\ requests'[r].status = requests[r].status
        /\ UNCHANGED <<claims, poll>>
    BY <1>0, <1>11 DEF DevicesStep, Detached, EnrollmentTypeOK, Request
  <2> QED
    BY <1>0, <1>a, <2>1, OnceKept
<1>12. CASE UNCHANGED enrollmentVars
  BY <1>1, <1>12 DEF enrollmentVars
<1> QED
  BY <1>2, <1>3, <1>4, <1>5, <1>6, <1>7, <1>8, <1>9, <1>10, <1>11, <1>12
  DEF EnrollmentNext, EnrollmentStep

\* If polls never overlap, the credential of a request is returned once.
THEOREM SerialPollsIssueOnce ==
    ASSUME \A p, q \in Polls : p = q
    PROVE  EnrollmentSpec => []IssuedOnce
<1>1. EnrollmentInit => OnceInv
  BY DEF EnrollmentInit, OnceInv, NoRequestRow, NoPoll
<1>2. EnrollmentIInv /\ OnceInv /\ [EnrollmentNext]_enrollmentVars => OnceInv'
  BY OnceStep
<1>3. OnceInv => IssuedOnce
  BY DEF OnceInv, IssuedOnce
<1> QED
  BY <1>1, <1>2, <1>3, EnrollmentInvariant, PTL DEF EnrollmentSpec

\* Without expiry and with one reviewer, what a session read of the status of
\* its request still holds.
ReviewInv ==
    /\ \A r \in Requests : requests[r].expires = Never
    /\ \A v \in Reviews :
          review[v] # NoRequest => requests[review[v]].status = "pending"
    /\ \A p \in Polls :
          /\ poll[p].pc # "expiring"
          /\ poll[p].pc \in {"issuing", "matched"} =>
                 requests[poll[p].request].status = "approved"
    /\ IssuedMeansApproved

\* A step that leaves every status alone and claims nothing keeps that.
LEMMA ReviewKept ==
    ASSUME EnrollmentTypeOK, SessionsKnowTheirRequest, ReviewInv,
           \A r \in Requests :
              /\ requests'[r].status = requests[r].status
              /\ requests'[r].expires = requests[r].expires
              /\ requests'[r].claimed = requests[r].claimed,
           \A v \in Reviews : review'[v] \in {review[v], NoRequest},
           \A p \in Polls : PollGoesOn(p)
    PROVE  ReviewInv'
<1>1. \A v \in Reviews :
          review'[v] # NoRequest => requests'[review'[v]].status = "pending"
  BY DEF ReviewInv, EnrollmentTypeOK
<1>2. ASSUME NEW p \in Polls
      PROVE  /\ poll'[p].pc # "expiring"
             /\ poll'[p].pc \in {"issuing", "matched"} =>
                    requests'[poll'[p].request].status = "approved"
  <2>1. CASE poll'[p] = NoPoll
    BY <2>1 DEF NoPoll
  <2>2. CASE poll'[p] # NoPoll
    <3>1. /\ poll'[p].request = poll[p].request
          /\ \/ poll'[p].pc = poll[p].pc
             \/ poll[p].pc = "issuing" /\ poll'[p].pc = "matched"
      BY <2>2 DEF PollGoesOn
    <3>2. poll[p].pc # "idle" => poll[p].request \in Requests
      BY DEF SessionsKnowTheirRequest
    <3> QED
      BY <3>1, <3>2 DEF ReviewInv
  <2> QED
    BY <2>1, <2>2
<1>3. IssuedMeansApproved'
  BY DEF ReviewInv, IssuedMeansApproved
<1> QED
  BY <1>1, <1>2, <1>3 DEF ReviewInv

\* A reviewed status is not changed by the step.
StatusKept ==
    \A r \in Requests :
        requests[r].status \in {"approved", "rejected", "expired"} =>
            requests'[r].status = requests[r].status

\* Every step keeps both, if requests do not expire and reviews do not
\* overlap.
LEMMA ReviewStep ==
    ASSUME TTL = 0, \A v, w \in Reviews : v = w
    PROVE  EnrollmentIInv /\ ReviewInv /\ [EnrollmentNext]_enrollmentVars
               => ReviewInv' /\ StatusKept
<1> SUFFICES ASSUME EnrollmentIInv, ReviewInv,
                    [EnrollmentNext]_enrollmentVars
             PROVE  ReviewInv' /\ StatusKept
  OBVIOUS
<1>0. EnrollmentTypeOK /\ SessionsKnowTheirRequest
  BY DEF EnrollmentIInv, ApprovalInv
<1>a. (\A p \in Polls : poll'[p] \in {poll[p], NoPoll})
          => \A p \in Polls : PollGoesOn(p)
  BY DEF PollGoesOn
<1>1. ASSUME UNCHANGED requests,
             \A v \in Reviews : review'[v] \in {review[v], NoRequest},
             \A p \in Polls : PollGoesOn(p)
      PROVE  ReviewInv' /\ StatusKept
  BY <1>0, <1>1, ReviewKept DEF StatusKept
<1>2. ASSUME NEW k \in Keys,
             \/ \E org \in Orgs, expires \in KeyExpiries :
                   CreateKey(k, org, expires)
             \/ RevokeKey(k)
             \/ \E s \in Submits : SubmitAuth(s, k)
      PROVE  ReviewInv' /\ StatusKept
  BY <1>1, <1>2, <1>a DEF CreateKey, RevokeKey, SubmitAuth
<1>3. ASSUME NEW s \in Submits, CheckCommit(s)
      PROVE  ReviewInv' /\ StatusKept
  BY <1>1, <1>3, <1>a DEF CheckCommit
<1>4. ASSUME NEW s \in Submits, NEW r \in Requests, NEW ident \in Identity,
             SubmitCommit(s, r, ident)
      PROVE  ReviewInv' /\ StatusKept
  <2>1. /\ requests[r].status = "absent"
        /\ requests'[r].expires = Never
        /\ ~requests'[r].claimed
        /\ \A q \in Requests : q # r => requests'[q] = requests[q]
        /\ UNCHANGED <<review, poll>>
    BY <1>0, <1>4 DEF SubmitCommit, EnrollmentTypeOK
  <2>2. /\ \A v \in Reviews : review[v] # r
        /\ \A p \in Polls : poll[p].pc # "idle" => poll[p].request # r
    BY <2>1 , <1>0, EnrollmentAssumption DEF SessionsKnowTheirRequest
  <2>3. ReviewInv'
    BY <1>0, <2>1, <2>2
    DEF ReviewInv, IssuedMeansApproved, EnrollmentTypeOK, PollSession,
        SessionsKnowTheirRequest
  <2> QED
    BY <2>1, <2>3 DEF StatusKept
<1>5. ASSUME NEW v \in Reviews, NEW r \in Requests, ReviewRead(v, r)
      PROVE  ReviewInv' /\ StatusKept
  <2>1. /\ requests[r].status = "pending"
        /\ \A u \in Reviews : review'[u] \in {review[u], r}
        /\ UNCHANGED <<requests, poll>>
    BY <1>0, <1>5 DEF ReviewRead, EnrollmentTypeOK
  <2> QED
    BY <2>1 DEF ReviewInv, IssuedMeansApproved, StatusKept
<1>6. ASSUME NEW v \in Reviews, Approve(v) \/ Reject(v)
      PROVE  ReviewInv' /\ StatusKept
  <2>1. /\ review[v] \in Requests
        /\ requests[review[v]].status = "pending"
        /\ ~requests[review[v]].claimed
    BY <1>0, <1>6
    DEF Approve, Reject, ReviewInv, IssuedMeansApproved, EnrollmentTypeOK
  <2>2. /\ \A r \in Requests : r # review[v] => requests'[r] = requests[r]
        /\ requests'[review[v]].expires = requests[review[v]].expires
        /\ requests'[review[v]].claimed = requests[review[v]].claimed
        /\ UNCHANGED poll
    BY <1>0, <1>6, <2>1 DEF Approve, Reject, EnrollmentTypeOK, Request
  <2>3. \A u \in Reviews : review'[u] = NoRequest
    BY <1>0, <1>6 DEF Approve, Reject, EnrollmentTypeOK
  <2>4. \A p \in Polls : poll[p].pc \in {"issuing", "matched"} =>
            poll[p].request \in Requests /\ poll[p].request # review[v]
    BY <1>0, <2>1 DEF SessionsKnowTheirRequest, ReviewInv
  <2>5. ReviewInv'
    BY <2>1, <2>2, <2>3, <2>4 DEF ReviewInv, IssuedMeansApproved
  <2> QED
    BY <2>1, <2>2, <2>5 DEF StatusKept
<1>7. ASSUME NEW p \in Polls, NEW r \in Requests, PollApproved(p, r)
      PROVE  ReviewInv' /\ StatusKept
  <2>1. /\ UNCHANGED <<requests, review>>
        /\ requests[r].status = "approved"
        /\ \A q \in Polls : q # p => poll'[q] = poll[q]
        /\ poll'[p].pc = "issuing"
        /\ poll'[p].request = r
    BY <1>0, <1>7 DEF PollApproved, NoPoll, EnrollmentTypeOK
  <2> QED
    BY <2>1 DEF ReviewInv, IssuedMeansApproved, StatusKept
<1>8. ASSUME NEW p \in Polls,
             (\E r \in Requests : PollExpiring(p, r)) \/ PollExpire(p)
      PROVE  FALSE
  BY <1>8 DEF PollExpiring, PollExpire, Expired, ReviewInv
<1>9. ASSUME NEW p \in Polls, PollConflict(p)
      PROVE  ReviewInv' /\ StatusKept
  <2>1. /\ UNCHANGED <<requests, review>>
        /\ \A q \in Polls : poll'[q] \in {poll[q], NoPoll}
    BY <1>0, <1>9 DEF PollConflict, EnrollmentTypeOK
  <2> QED
    BY <1>1, <1>a, <2>1
<1>10. ASSUME NEW p \in Polls, PollMatch(p)
       PROVE  ReviewInv' /\ StatusKept
  <2>1. UNCHANGED <<requests, review>>
    BY <1>10 DEF PollMatch
  <2>2. \A q \in Polls : PollGoesOn(q)
    BY <1>0, <1>10, MatchGoesOn
  <2> QED
    BY <1>1, <2>1, <2>2
<1>11. ASSUME NEW p \in Polls, PollCommit(p)
       PROVE  ReviewInv' /\ StatusKept
  <2>1. /\ poll[p].request \in Requests
        /\ requests[poll[p].request].status = "approved"
    BY <1>0, <1>11 DEF PollCommit, SessionsKnowTheirRequest, ReviewInv
  <2>2. PICK d \in DeviceIds, row \in Row : ClaimWrites(p, d, row)
    BY <1>0, <1>11, <2>1, PollCommitWrites
  <2>3. /\ \A r \in Requests : r # poll[p].request => requests'[r] = requests[r]
        /\ requests'[poll[p].request].status = "approved"
        /\ requests'[poll[p].request].expires =
               requests[poll[p].request].expires
        /\ UNCHANGED review
        /\ \A q \in Polls : poll'[q] \in {poll[q], NoPoll}
    BY <1>0, <1>11, <2>1, <2>2
    DEF PollCommit, ClaimWrites, EnrollmentTypeOK, Request
  <2>4. \A v \in Reviews : review[v] # NoRequest =>
            review[v] \in Requests /\ review[v] # poll[p].request
    BY <1>0, <2>1 DEF ReviewInv, EnrollmentTypeOK
  <2>5. \A q \in Polls : poll[q].pc # "idle" => poll[q].request \in Requests
    BY <1>0 DEF SessionsKnowTheirRequest
  <2>6. ReviewInv'
    BY <2>1, <2>3, <2>4, <2>5 DEF ReviewInv, IssuedMeansApproved, NoPoll
  <2> QED
    BY <2>1, <2>3, <2>6 DEF StatusKept
<1>12. CASE Abort
  <2>1. /\ UNCHANGED requests
        /\ \A v \in Reviews : review'[v] \in {review[v], NoRequest}
        /\ \A q \in Polls : poll'[q] \in {poll[q], NoPoll}
    BY <1>0, <1>12 DEF Abort, EnrollmentTypeOK
  <2> QED
    BY <1>1, <1>a, <2>1
<1>13. CASE DevicesStep
  <2>1. /\ \A r \in Requests :
              /\ requests'[r].status = requests[r].status
              /\ requests'[r].expires = requests[r].expires
              /\ requests'[r].claimed = requests[r].claimed
        /\ UNCHANGED <<review, poll>>
    BY <1>0, <1>13 DEF DevicesStep, Detached, EnrollmentTypeOK, Request
  <2> QED
    BY <1>0, <1>a, <2>1, ReviewKept DEF StatusKept
<1>14. CASE UNCHANGED enrollmentVars
  BY <1>1, <1>14, <1>a DEF enrollmentVars
<1> QED
  BY <1>2, <1>3, <1>4, <1>5, <1>6, <1>7, <1>8, <1>9, <1>10, <1>11, <1>12,
     <1>13, <1>14 DEF EnrollmentNext, EnrollmentStep

\* The initial state has both.
LEMMA ReviewInit == EnrollmentInit => ReviewInv
BY DEF EnrollmentInit, ReviewInv, IssuedMeansApproved, NoRequestRow, NoPoll

\* Without expiry and with one reviewer at a time, a request whose credential
\* was issued stays approved, however polls overlap.
THEOREM SerialReviewsKeepIssuedApproved ==
    ASSUME TTL = 0, \A v, w \in Reviews : v = w
    PROVE  EnrollmentSpec => []IssuedMeansApproved
<1>1. EnrollmentIInv /\ ReviewInv /\ [EnrollmentNext]_enrollmentVars
          => ReviewInv'
  BY ReviewStep
<1>2. ReviewInv => IssuedMeansApproved
  BY DEF ReviewInv
<1> QED
  BY <1>1, <1>2, ReviewInit, EnrollmentInvariant, PTL DEF EnrollmentSpec

\* And a review is final.
THEOREM SerialReviewsAreFinal ==
    ASSUME TTL = 0, \A v, w \in Reviews : v = w
    PROVE  EnrollmentSpec => ReviewIsFinal
<1>1. EnrollmentIInv /\ ReviewInv /\ [EnrollmentNext]_enrollmentVars
          => ReviewInv' /\ [StatusKept]_requests
  BY ReviewStep
<1>2. [StatusKept]_requests =>
          [\A r \in Requests :
              requests[r].status \in {"approved", "rejected", "expired"} =>
                  requests'[r].status = requests[r].status]_requests
  BY DEF StatusKept
<1> QED
  BY <1>1, <1>2, ReviewInit, EnrollmentInvariant, PTL
  DEF EnrollmentSpec, ReviewIsFinal

-----------------------------------------------------------------------------
(* use_count, when registrations run one at a time: the counter a session  *)
(* read is still the token's when it commits.                              *)

ExactInv ==
    /\ UseCountExact
    /\ \A t \in Tokens : ~tokens[t].created => tokens[t].uses = 0
    /\ \A w \in Workers :
          reg[w].pc # "idle" => reg[w].row.uses = tokens[reg[w].token].uses

\* A match keeps the token and the row of its session.
LEMMA RegMatchGoesOn ==
    ASSUME RegistrationTypeOK, NEW w \in Workers, NEW ident \in Identity,
           RegMatch(w, ident)
    PROVE  \E r \in RegSession : /\ r.token = reg[w].token
                                /\ r.row = reg[w].row
                                /\ reg' = [reg EXCEPT ![w] = r]
<1>1. now \in Nat /\ devices \in [DeviceIds -> Row] /\ reg[w] \in RegSession
  BY DevicesAssumption DEF RegistrationTypeOK, DevicesTypeOK
<1>2. Hits(ident, devices, Live) \subseteq DeviceIds
  BY DEF Hits, Candidates, Live
<1>3. CASE reg' = [reg EXCEPT ![w] =
              [@ EXCEPT !.pc = "matched", !.ident = ident, !.since = now]]
  <2>1. /\ [reg[w] EXCEPT !.pc = "matched", !.ident = ident, !.since = now]
              \in RegSession
        /\ [reg[w] EXCEPT !.pc = "matched", !.ident = ident,
                         !.since = now].token = reg[w].token
        /\ [reg[w] EXCEPT !.pc = "matched", !.ident = ident,
                         !.since = now].row = reg[w].row
    BY <1>1 DEF RegSession
  <2> QED
    BY <1>3, <2>1
<1>4. ASSUME NEW d \in DeviceIds,
             reg' = [reg EXCEPT ![w] =
                [@ EXCEPT !.pc = "matched", !.ident = ident, !.device = d,
                          !.loaded = devices[d], !.since = now]]
      PROVE  \E r \in RegSession : /\ r.token = reg[w].token
                                  /\ r.row = reg[w].row
                                  /\ reg' = [reg EXCEPT ![w] = r]
  <2> DEFINE r == [reg[w] EXCEPT !.pc = "matched", !.ident = ident,
                                 !.device = d, !.loaded = devices[d],
                                 !.since = now]
  <2>1. r \in RegSession /\ r.token = reg[w].token /\ r.row = reg[w].row
    BY <1>1 DEF RegSession
  <2>2. reg' = [reg EXCEPT ![w] = r]
    BY <1>4
  <2> HIDE DEF r
  <2> QED
    BY <2>1, <2>2
<1> QED
  BY <1>2, <1>3, <1>4 DEF RegMatch

\* The only session in flight counts from what the token says now.
LEMMA ExactStep ==
    ASSUME \A v, w \in Workers : v = w
    PROVE  RegistrationIInv /\ ExactInv /\ [RegistrationNext]_registrationVars
               => ExactInv'
<1> SUFFICES ASSUME RegistrationIInv, ExactInv,
                    [RegistrationNext]_registrationVars
             PROVE  ExactInv'
  OBVIOUS
<1>0. /\ RegistrationTypeOK
      /\ tokens \in [Tokens -> Token]
      /\ reg \in [Workers -> RegSession]
      /\ registrations \in [Tokens -> Nat]
      /\ SessionFollowsToken
  BY DEF RegistrationIInv, RegistrationTypeOK, CountInv
<1>1. ASSUME UNCHANGED registrations,
             \A t \in Tokens : /\ tokens'[t].uses = tokens[t].uses
                               /\ tokens[t].created => tokens'[t].created,
             \A w \in Workers : reg'[w].pc # "idle" =>
                \/ /\ reg[w].pc # "idle"
                   /\ reg'[w].token = reg[w].token
                   /\ reg'[w].row = reg[w].row
                \/ /\ reg'[w].token \in Tokens
                   /\ reg'[w].row = tokens[reg'[w].token]
      PROVE  ExactInv'
  <2>1. UseCountExact'
    BY <1>1 DEF ExactInv, UseCountExact
  <2>2. ASSUME NEW w \in Workers, reg'[w].pc # "idle"
        PROVE  reg'[w].row.uses = tokens'[reg'[w].token].uses
    BY <1>0, <1>1, <2>2 DEF ExactInv, SessionFollowsToken
  <2>3. \A t \in Tokens : ~tokens'[t].created => tokens'[t].uses = 0
    BY <1>1 DEF ExactInv
  <2> QED
    BY <2>1, <2>2, <2>3 DEF ExactInv
<1>2. ASSUME NEW t \in Tokens, NEW org \in Orgs, NEW max \in Caps,
             NEW expires \in Expiries, CreateToken(t, org, max, expires)
      PROVE  ExactInv'
  <2>1. /\ ~tokens[t].created
        /\ tokens'[t].created
        /\ tokens'[t].uses = 0
        /\ \A u \in Tokens : u # t => tokens'[u] = tokens[u]
        /\ UNCHANGED <<reg, registrations>>
    BY <1>0, <1>2 DEF CreateToken
  <2>2. tokens[t].uses = 0
    BY <2>1 DEF ExactInv
  <2>3. \A u \in Tokens : /\ tokens'[u].uses = tokens[u].uses
                          /\ tokens[u].created => tokens'[u].created
    BY <2>1, <2>2
  <2> QED
    BY <1>1, <2>1, <2>3
<1>3. ASSUME NEW t \in Tokens, RevokeToken(t)
      PROVE  ExactInv'
  <2>1. /\ \A u \in Tokens : /\ tokens'[u].uses = tokens[u].uses
                             /\ tokens[u].created => tokens'[u].created
        /\ UNCHANGED <<reg, registrations>>
    BY <1>0, <1>3 DEF RevokeToken, Token
  <2> QED
    BY <1>1, <2>1
<1>4. ASSUME NEW w \in Workers, NEW t \in Tokens, RegValidate(w, t)
      PROVE  ExactInv'
  <2>1. /\ reg'[w].token = t
        /\ reg'[w].row = tokens[t]
        /\ \A v \in Workers : v # w => reg'[v] = reg[v]
        /\ UNCHANGED <<tokens, registrations>>
    BY <1>0, <1>4 DEF RegValidate, NoReg
  <2> QED
    BY <1>1, <2>1
<1>5. ASSUME NEW w \in Workers, NEW ident \in Identity, RegMatch(w, ident)
      PROVE  ExactInv'
  <2>1. /\ reg[w].pc = "validated"
        /\ reg'[w].token = reg[w].token
        /\ reg'[w].row = reg[w].row
        /\ \A v \in Workers : v # w => reg'[v] = reg[v]
        /\ UNCHANGED <<tokens, registrations>>
    <3>1. \E r \in RegSession :
              /\ r.token = reg[w].token
              /\ r.row = reg[w].row
              /\ reg' = [reg EXCEPT ![w] = r]
      BY <1>0, <1>5, RegMatchGoesOn
    <3> QED
      BY <1>0, <1>5, <3>1 DEF RegMatch
  <2> QED
    BY <1>1, <2>1
<1>6. ASSUME NEW w \in Workers,
             \/ RegAbort(w)
             \/ \E ident \in Identity : RegConflict(w, ident)
      PROVE  ExactInv'
  <2>1. /\ reg'[w].pc = "idle"
        /\ \A v \in Workers : v # w => reg'[v] = reg[v]
        /\ UNCHANGED <<tokens, registrations>>
    <3>1. NoReg.pc = "idle"
      BY DEF NoReg
    <3>2. CASE RegAbort(w)
      BY <1>0, <3>1, <3>2 DEF RegAbort
    <3>3. CASE \E ident \in Identity : RegConflict(w, ident)
      BY <1>0, <3>1, <3>3 DEF RegConflict
    <3> QED
      BY <1>6, <3>2, <3>3
  <2> QED
    BY <1>1, <2>1
<1>7. ASSUME NEW w \in Workers, RegCommit(w)
      PROVE  ExactInv'
  <2> DEFINE t == reg[w].token
  <2>1. /\ t \in Tokens
        /\ tokens[t].created
        /\ reg[w].row.uses = tokens[t].uses
        /\ tokens[t].uses = registrations[t]
    BY <1>0, <1>7
    DEF RegCommit, SessionFollowsToken, ExactInv, UseCountExact
  <2>2. /\ tokens'[t].uses = reg[w].row.uses + 1
        /\ tokens'[t].created
        /\ registrations'[t] = registrations[t] + 1
        /\ \A u \in Tokens : u # t => /\ tokens'[u] = tokens[u]
                                      /\ registrations'[u] = registrations[u]
    BY <1>0, <1>7, <2>1 DEF RegCommit, RegCount, Token
  <2>3. \A v \in Workers : reg'[v].pc = "idle"
    BY <1>0, <1>7 DEF RegCommit, NoReg
  <2>4. UseCountExact'
    <3> SUFFICES ASSUME NEW u \in Tokens
                 PROVE  tokens'[u].uses = registrations'[u]
      BY DEF UseCountExact
    <3>1. CASE u = t
      BY <2>1, <2>2, <3>1
    <3>2. CASE u # t
      BY <2>2, <3>2 DEF ExactInv, UseCountExact
    <3> QED
      BY <3>1, <3>2
  <2>5. \A u \in Tokens : ~tokens'[u].created => tokens'[u].uses = 0
    BY <2>2 DEF ExactInv
  <2> QED
    BY <2>3, <2>4, <2>5 DEF ExactInv
<1>8. CASE UNCHANGED tokenVars
  BY <1>1, <1>8 DEF tokenVars
<1> QED
  BY <1>2, <1>3, <1>4, <1>5, <1>6, <1>7, <1>8
  DEF RegistrationNext, RegistrationStep, registrationVars, tokenVars

\* With registrations one at a time, use_count is the number of devices that
\* were registered with the token.
THEOREM SerialRegistrationsAreAllCounted ==
    ASSUME \A v, w \in Workers : v = w
    PROVE  RegistrationSpec => []UseCountExact
<1>1. RegistrationInit => ExactInv
  BY DEF RegistrationInit, ExactInv, UseCountExact, NoTokenRow, NoReg
<1>2. RegistrationIInv /\ ExactInv /\ [RegistrationNext]_registrationVars
          => ExactInv'
  BY ExactStep
<1>3. ExactInv => UseCountExact
  BY DEF ExactInv
<1> QED
  BY <1>1, <1>2, <1>3, RegistrationInvariant, PTL DEF RegistrationSpec

-----------------------------------------------------------------------------
(* What no step takes back.  A credential changes only to nothing or to a  *)
(* secret drawn in the step; a disabled device is enabled only with one,   *)
(* or by the operator; a revoked token or key stays revoked.               *)

\* What a step may do to the credentials and the switch of every device.
RowsMove ==
    /\ \A d \in DeviceIds :
          devices'[d].cred # devices[d].cred =>
              devices'[d].cred = NULL \/ devices'[d].cred > minted
    /\ \A d \in Live :
          ~devices[d].enabled /\ devices'[d].enabled =>
              SetEnabled(d, TRUE) \/ devices'[d].cred > minted

\* Writing one row, with a secret drawn for it, does no more.
LEMMA NewSecretMoves ==
    ASSUME DevicesTypeOK, NEW d \in DeviceIds, NEW row,
           devices' = [devices EXCEPT ![d] = row], row.cred > minted
    PROVE  RowsMove
<1>1. devices'[d] = row /\ \A e \in DeviceIds : e # d => devices'[e] = devices[e]
  BY DEF DevicesTypeOK
<1>2. \A e \in DeviceIds :
          devices'[e] = devices[e] \/ devices'[e].cred > minted
  BY <1>1
<1> QED
  BY <1>2 DEF RowsMove, Live

\* Nor do the operator's actions, the heartbeats and the clock.
LEMMA DevicesNextMoves == DevicesTypeOK /\ DevicesNext => RowsMove
<1> SUFFICES ASSUME DevicesTypeOK, DevicesNext
             PROVE  RowsMove
  OBVIOUS
<1>a. devices \in [DeviceIds -> Row] /\ minted \in Nat
  BY DevicesAssumption DEF DevicesTypeOK
<1>1. ASSUME NEW d \in DeviceIds, NEW enabled \in BOOLEAN,
             SetEnabled(d, enabled)
      PROVE  RowsMove
  <2>1. /\ \A e \in DeviceIds : devices'[e].cred = devices[e].cred
        /\ \A e \in DeviceIds : e # d => devices'[e] = devices[e]
        /\ devices'[d].enabled = enabled
    BY <1>1, <1>a DEF SetEnabled, Row
  <2>2. ~devices[d].enabled /\ devices'[d].enabled => SetEnabled(d, TRUE)
    <3>1. CASE enabled = TRUE
      BY <1>1, <3>1
    <3>2. CASE enabled = FALSE
      BY <2>1, <3>2
    <3> QED
      BY <3>1, <3>2
  <2> QED
    BY <2>1, <2>2 DEF RowsMove, Live
<1>2. ASSUME NEW d \in DeviceIds, RotateCredential(d)
      PROVE  RowsMove
  <2>1. /\ \A e \in DeviceIds : e # d => devices'[e] = devices[e]
        /\ devices'[d].cred = minted + 1
        /\ devices'[d].enabled = devices[d].enabled
    BY <1>2, <1>a DEF RotateCredential, NextSecret, Row
  <2>2. minted + 1 > minted
    BY <1>a
  <2> QED
    BY <2>1, <2>2 DEF RowsMove, Live
<1>3. ASSUME NEW d \in DeviceIds, RevokeCredential(d)
      PROVE  RowsMove
  <2>1. /\ \A e \in DeviceIds : e # d => devices'[e] = devices[e]
        /\ devices'[d].cred = NULL
        /\ devices'[d].enabled = devices[d].enabled
    BY <1>3, <1>a DEF RevokeCredential, Row
  <2> QED
    BY <2>1 DEF RowsMove, Live
<1>4. ASSUME NEW d \in DeviceIds, DeleteDevice(d)
      PROVE  RowsMove
  <2>1. /\ \A e \in DeviceIds : e # d => devices'[e] = devices[e]
        /\ devices'[d].cred = NULL
        /\ devices'[d].enabled = FALSE
    BY <1>4, <1>a DEF DeleteDevice, Blank
  <2> QED
    BY <2>1 DEF RowsMove, Live
<1>5. ASSUME NEW h \in Beats, BeatCommit(h)
      PROVE  RowsMove
  <2>1. \A e \in DeviceIds : /\ devices'[e].cred = devices[e].cred
                             /\ devices'[e].enabled = devices[e].enabled
    BY <1>5, <1>a DEF BeatCommit, BeatRow, Row
  <2> QED
    BY <2>1 DEF RowsMove, Live
<1>6. ASSUME UNCHANGED devices
      PROVE  RowsMove
  BY <1>6 DEF RowsMove
<1> QED
  BY <1>1, <1>2, <1>3, <1>4, <1>5, <1>6
  DEF DevicesNext, BeatAuth, BeatAbort, Tick

\* Nor does a step of the token service.
LEMMA RegistrationMoves ==
    RegistrationTypeOK /\ SessionFollowsToken /\ RegistrationStep => RowsMove
<1> SUFFICES ASSUME RegistrationTypeOK, SessionFollowsToken, RegistrationStep
             PROVE  RowsMove
  OBVIOUS
<1>1. ASSUME NEW w \in Workers, RegCommit(w)
      PROVE  RowsMove
  <2>1. reg[w].token \in Tokens
    BY <1>1 DEF RegCommit, SessionFollowsToken
  <2>2. PICK d \in DeviceIds :
            /\ \E row : devices' = [devices EXCEPT ![d] = row]
            /\ devices'[d].cred = minted + 1
    BY <1>1, <2>1, RegCommitWrites
  <2>3. PICK row : devices' = [devices EXCEPT ![d] = row]
    BY <2>2
  <2>4. DevicesTypeOK /\ minted + 1 > minted
    BY DevicesAssumption DEF RegistrationTypeOK, DevicesTypeOK
  <2>5. row.cred > minted
    BY <2>2, <2>3, <2>4 DEF DevicesTypeOK
  <2> QED
    BY <2>3, <2>4, <2>5, NewSecretMoves
<1>2. ASSUME UNCHANGED deviceVars
      PROVE  RowsMove
  BY <1>2 DEF RowsMove, deviceVars
<1> QED
  BY <1>1, <1>2
  DEF RegistrationStep, CreateToken, RevokeToken, RegValidate, RegMatch,
      RegConflict, RegAbort

\* Nor does a step of the enrollment service.
LEMMA EnrollmentMoves ==
    EnrollmentTypeOK /\ SessionsKnowTheirRequest /\ EnrollmentStep => RowsMove
<1> SUFFICES ASSUME EnrollmentTypeOK, SessionsKnowTheirRequest, EnrollmentStep
             PROVE  RowsMove
  OBVIOUS
<1>1. ASSUME NEW p \in Polls, PollCommit(p)
      PROVE  RowsMove
  <2>1. poll[p].request \in Requests
    BY <1>1 DEF PollCommit, SessionsKnowTheirRequest
  <2>2. PICK d \in DeviceIds, row \in Row : ClaimWrites(p, d, row)
    BY <1>1, <2>1, PollCommitWrites
  <2>3. DevicesTypeOK /\ minted + 1 > minted
    BY DevicesAssumption DEF EnrollmentTypeOK, DevicesTypeOK
  <2>4. devices' = [devices EXCEPT ![d] = row] /\ row.cred > minted
    BY <2>2, <2>3 DEF ClaimWrites
  <2> QED
    BY <2>3, <2>4, NewSecretMoves
<1>2. ASSUME UNCHANGED deviceVars
      PROVE  RowsMove
  BY <1>2 DEF RowsMove, deviceVars
<1> QED
  BY <1>1, <1>2
  DEF EnrollmentStep, CreateKey, RevokeKey, SubmitAuth, SubmitCommit,
      CheckCommit, ReviewRead, Approve, Reject, PollExpiring, PollApproved,
      PollExpire, PollMatch, PollConflict, Abort

\* Only what was created is revoked.
RevokedTokensExist == \A t \in Tokens : tokens[t].revoked => tokens[t].created

RevokedKeysExist == \A k \in Keys : keys[k].revoked => keys[k].created

\* No step of the token service brings a revoked token back.
LEMMA TokensStayRevoked ==
    ASSUME RegistrationTypeOK, RevokedTokensExist, RegistrationStep
    PROVE  /\ RevokedTokensExist'
           /\ \A t \in Tokens : tokens[t].revoked => tokens'[t].revoked
<1>0. tokens \in [Tokens -> Token]
  BY DEF RegistrationTypeOK
<1> DEFINE Kept == /\ RevokedTokensExist'
                   /\ \A t \in Tokens : tokens[t].revoked => tokens'[t].revoked
<1>1. ASSUME NEW t \in Tokens, NEW org \in Orgs, NEW max \in Caps,
             NEW expires \in Expiries, CreateToken(t, org, max, expires)
      PROVE  Kept
  <2>1. /\ ~tokens[t].created
        /\ ~tokens'[t].revoked
        /\ \A u \in Tokens : u # t => tokens'[u] = tokens[u]
    BY <1>0, <1>1 DEF CreateToken
  <2> QED
    BY <2>1 DEF RevokedTokensExist
<1>2. ASSUME NEW t \in Tokens, RevokeToken(t)
      PROVE  Kept
  <2>1. /\ tokens'[t].created
        /\ tokens'[t].revoked
        /\ \A u \in Tokens : u # t => tokens'[u] = tokens[u]
    BY <1>0, <1>2 DEF RevokeToken, Token
  <2> QED
    BY <2>1 DEF RevokedTokensExist
<1>3. ASSUME NEW w \in Workers, RegCommit(w)
      PROVE  Kept
  <2>1. \A u \in Tokens : /\ tokens'[u].created = tokens[u].created
                          /\ tokens'[u].revoked = tokens[u].revoked
    BY <1>0, <1>3 DEF RegCommit, RegCount, Token
  <2> QED
    BY <2>1 DEF RevokedTokensExist
<1>4. ASSUME UNCHANGED tokens
      PROVE  Kept
  BY <1>4 DEF RevokedTokensExist
<1> QED
  BY <1>1, <1>2, <1>3, <1>4
  DEF RegistrationStep, RegValidate, RegMatch, RegConflict, RegAbort

\* No step of the enrollment service brings a revoked key back.
LEMMA KeysStayRevoked ==
    ASSUME EnrollmentTypeOK, RevokedKeysExist, EnrollmentStep
    PROVE  /\ RevokedKeysExist'
           /\ \A k \in Keys : keys[k].revoked => keys'[k].revoked
<1>0. keys \in [Keys -> Key]
  BY DEF EnrollmentTypeOK
<1> DEFINE Kept == /\ RevokedKeysExist'
                   /\ \A k \in Keys : keys[k].revoked => keys'[k].revoked
<1>1. ASSUME NEW k \in Keys, NEW org \in Orgs, NEW expires \in KeyExpiries,
             CreateKey(k, org, expires)
      PROVE  Kept
  <2>1. /\ ~keys[k].created
        /\ ~keys'[k].revoked
        /\ \A j \in Keys : j # k => keys'[j] = keys[j]
    BY <1>0, <1>1 DEF CreateKey
  <2> QED
    BY <2>1 DEF RevokedKeysExist
<1>2. ASSUME NEW k \in Keys, RevokeKey(k)
      PROVE  Kept
  <2>1. /\ keys'[k].created
        /\ keys'[k].revoked
        /\ \A j \in Keys : j # k => keys'[j] = keys[j]
    BY <1>0, <1>2 DEF RevokeKey, Key
  <2> QED
    BY <2>1 DEF RevokedKeysExist
<1>3. ASSUME NEW s \in Submits,
             keys' = [keys EXCEPT ![submit[s].key] =
                         Touched(@, submit[s].loaded)]
      PROVE  Kept
  <2>1. \A j \in Keys : keys'[j] = keys[j]
    BY <1>0, <1>3 DEF Touched
  <2> QED
    BY <2>1 DEF RevokedKeysExist
<1>4. ASSUME UNCHANGED keys
      PROVE  Kept
  BY <1>4 DEF RevokedKeysExist
<1> QED
  BY <1>1, <1>2, <1>3, <1>4
  DEF EnrollmentStep, SubmitAuth, SubmitCommit, CheckCommit, ReviewRead,
      Approve, Reject, PollExpiring, PollApproved, PollExpire, PollMatch,
      PollConflict, PollCommit, Abort

\* Registration: a credential that was replaced or revoked never comes back.
THEOREM RegistrationKeepsCredentialsDead ==
    RegistrationSpec => SupersededCredentialStaysDead
<1>1. RegistrationIInv /\ [RegistrationNext]_registrationVars
          => [RowsMove]_devices
  BY RegistrationMoves, DevicesNextMoves
  DEF RegistrationIInv, CountInv, RegistrationTypeOK, RegistrationNext,
      registrationVars
<1>2. [RowsMove]_devices =>
          [\A d \in DeviceIds :
              devices'[d].cred # devices[d].cred =>
                  devices'[d].cred = NULL \/ devices'[d].cred > minted]_devices
  BY DEF RowsMove
<1> QED
  BY <1>1, <1>2, RegistrationInvariant, PTL
  DEF RegistrationSpec, SupersededCredentialStaysDead

\* And a disabled device stays disabled until the operator, or a registration
\* with a new credential, enables it.
THEOREM RegistrationKeepsDevicesDisabled ==
    RegistrationSpec => DisabledUntilReenabled
<1>1. RegistrationIInv /\ [RegistrationNext]_registrationVars
          => [RowsMove]_devices
  BY RegistrationMoves, DevicesNextMoves
  DEF RegistrationIInv, CountInv, RegistrationTypeOK, RegistrationNext,
      registrationVars
<1>2. [RowsMove]_devices =>
          [\A d \in Live :
              ~devices[d].enabled /\ devices'[d].enabled =>
                  SetEnabled(d, TRUE) \/ devices'[d].cred > minted]_devices
  BY DEF RowsMove
<1> QED
  BY <1>1, <1>2, RegistrationInvariant, PTL
  DEF RegistrationSpec, DisabledUntilReenabled

\* A revoked token stays revoked, whatever sessions that read it before
\* write back.
THEOREM RevokedTokensStayRevoked ==
    RegistrationSpec => TokenRevocationIsPermanent
<1>1. RegistrationInit => RevokedTokensExist
  BY DEF RegistrationInit, NoTokenRow, RevokedTokensExist
<1>2. RegistrationIInv /\ RevokedTokensExist
          /\ [RegistrationNext]_registrationVars
          => /\ RevokedTokensExist'
             /\ [\A t \in Tokens :
                    tokens[t].revoked => tokens'[t].revoked]_tokens
  <2> SUFFICES ASSUME RegistrationIInv, RevokedTokensExist,
                      [RegistrationNext]_registrationVars
               PROVE  /\ RevokedTokensExist'
                      /\ [\A t \in Tokens :
                             tokens[t].revoked => tokens'[t].revoked]_tokens
    OBVIOUS
  <2>1. CASE RegistrationStep
    BY <2>1, TokensStayRevoked DEF RegistrationIInv
  <2>2. CASE UNCHANGED tokens
    BY <2>2 DEF RevokedTokensExist
  <2> QED
    BY <2>1, <2>2 DEF RegistrationNext, registrationVars, tokenVars
<1> QED
  BY <1>1, <1>2, RegistrationInvariant, PTL
  DEF RegistrationSpec, TokenRevocationIsPermanent

\* A revoked API key stays revoked.
THEOREM RevokedKeysStayRevoked == EnrollmentSpec => KeyRevocationIsPermanent
<1>1. EnrollmentInit => RevokedKeysExist
  BY DEF EnrollmentInit, NoKeyRow, RevokedKeysExist
<1>2. EnrollmentIInv /\ RevokedKeysExist /\ [EnrollmentNext]_enrollmentVars
          => /\ RevokedKeysExist'
             /\ [\A k \in Keys : keys[k].revoked => keys'[k].revoked]_keys
  <2> SUFFICES ASSUME EnrollmentIInv, RevokedKeysExist,
                      [EnrollmentNext]_enrollmentVars
               PROVE  /\ RevokedKeysExist'
                      /\ [\A k \in Keys :
                             keys[k].revoked => keys'[k].revoked]_keys
    OBVIOUS
  <2>1. CASE EnrollmentStep
    BY <2>1, KeysStayRevoked DEF EnrollmentIInv
  <2>2. CASE UNCHANGED keys
    BY <2>2 DEF RevokedKeysExist
  <2> QED
    BY <2>1, <2>2 DEF EnrollmentNext, enrollmentVars, DevicesStep
<1> QED
  BY <1>1, <1>2, EnrollmentInvariant, PTL
  DEF EnrollmentSpec, KeyRevocationIsPermanent
-----------------------------------------------------------------------------
(***************************************************************************)
(* Both ways into the fleet together.  Each service keeps its invariant,   *)
(* and leaves what the other's invariant says of the devices table alone:  *)
(* neither moves a row that exists to another tenant, and a claim gives no *)
(* device a token.                                                         *)
(***************************************************************************)

FleetIInv ==
    /\ RegistrationIInv
    /\ EnrollmentIInv
    /\ RevokedTokensExist
    /\ RevokedKeysExist

\* A row that was ever used is neither reused nor moved to another tenant.
RowsStay ==
    /\ \A d \in DeviceIds :
          devices[d].state # "absent" => devices'[d].state # "absent"
    /\ \A d \in Live' :
          devices[d].state # "absent" =>
              d \in Live /\ devices'[d].org = devices[d].org
    /\ Live \subseteq Live'

\* Registrations leave every row where it is.
LEMMA RegistrationRowsStay ==
    ASSUME RegistrationTypeOK, SessionFollowsToken, RegistrationStep
    PROVE  RowsStay /\ UNCHANGED now
<1>1. ASSUME NEW w \in Workers, RegCommit(w)
      PROVE  RowsStay /\ UNCHANGED now
  <2>1. reg[w].token \in Tokens
    BY <1>1 DEF RegCommit, SessionFollowsToken
  <2>2. PICK d \in DeviceIds, stamp \in Nat :
            \/ /\ devices[d].state = "absent"
               /\ devices' = [devices EXCEPT ![d] =
                      CreatedRow(reg[w].row.org, reg[w].ident,
                                 reg[w].token, stamp)]
            \/ /\ d \in Live
               /\ devices' = [devices EXCEPT ![d] =
                      UpdatedRow(devices[d], reg[w].loaded, reg[w].ident,
                                 reg[w].token, stamp)]
    BY <1>1, <2>1, RegCommitWrites
  <2>3. \A e \in DeviceIds : e # d => devices'[e] = devices[e]
    BY <2>2 DEF RegistrationTypeOK, DevicesTypeOK
  <2>4. /\ devices'[d].state = "live"
        /\ devices[d].state # "absent" =>
               d \in Live /\ devices'[d].org = devices[d].org
    <3>1. CASE /\ devices[d].state = "absent"
               /\ devices' = [devices EXCEPT ![d] =
                      CreatedRow(reg[w].row.org, reg[w].ident,
                                 reg[w].token, stamp)]
      BY <3>1 DEF CreatedRow, RegistrationTypeOK, DevicesTypeOK
    <3>2. CASE /\ d \in Live
               /\ devices' = [devices EXCEPT ![d] =
                      UpdatedRow(devices[d], reg[w].loaded, reg[w].ident,
                                 reg[w].token, stamp)]
      BY <3>2 DEF UpdatedRow, Live, RegistrationTypeOK, DevicesTypeOK
    <3> QED
      BY <2>2, <3>1, <3>2
  <2> QED
    BY <1>1, <2>3, <2>4 DEF RowsStay, Live, RegCommit
<1>2. ASSUME UNCHANGED deviceVars
      PROVE  RowsStay /\ UNCHANGED now
  BY <1>2 DEF RowsStay, Live, deviceVars
<1> QED
  BY <1>1, <1>2
  DEF RegistrationStep, CreateToken, RevokeToken, RegValidate, RegMatch,
      RegConflict, RegAbort

\* So do claims, and no device gets a token from one.
LEMMA EnrollmentRowsStay ==
    ASSUME EnrollmentTypeOK, SessionsKnowTheirRequest, EnrollmentStep
    PROVE  /\ RowsStay
           /\ \A d \in Live' :
                 \/ devices'[d].token = NoToken
                 \/ d \in Live /\ devices'[d].token = devices[d].token
<1> DEFINE Stays == /\ RowsStay
                    /\ \A d \in Live' :
                          \/ devices'[d].token = NoToken
                          \/ d \in Live /\ devices'[d].token = devices[d].token
<1>1. ASSUME NEW p \in Polls, PollCommit(p)
      PROVE  Stays
  <2>1. poll[p].request \in Requests
    BY <1>1 DEF PollCommit, SessionsKnowTheirRequest
  <2>2. PICK d \in DeviceIds, row \in Row : ClaimWrites(p, d, row)
    BY <1>1, <2>1, PollCommitWrites
  <2>3. /\ devices'[d] = row
        /\ \A e \in DeviceIds : e # d => devices'[e] = devices[e]
    BY <2>2 DEF ClaimWrites, EnrollmentTypeOK, DevicesTypeOK
  <2>4. /\ row.state = "live"
        /\ devices[d].state = "absent" \/ d \in Live
        /\ d \in Live => /\ row.org = devices[d].org
                         /\ row.token = devices[d].token
        /\ d \notin Live => row.token = NoToken
    BY <2>2 DEF ClaimWrites
  <2>5. RowsStay
    BY <2>3, <2>4 DEF RowsStay, Live
  <2> QED
    BY <2>3, <2>4, <2>5 DEF Live
<1>2. ASSUME UNCHANGED deviceVars
      PROVE  Stays
  BY <1>2 DEF RowsStay, Live, deviceVars
<1> QED
  BY <1>1, <1>2
  DEF EnrollmentStep, CreateKey, RevokeKey, SubmitAuth, SubmitCommit,
      CheckCommit, ReviewRead, Approve, Reject, PollExpiring, PollApproved,
      PollExpire, PollMatch, PollConflict, Abort

\* A registration leaves the enrollment service's invariant alone.
LEMMA EnrollmentUndisturbed ==
    ASSUME EnrollmentIInv, UNCHANGED enrollVars, UNCHANGED now, RowsStay,
           DevicesTypeOK'
    PROVE  EnrollmentIInv'
<1>0. UNCHANGED <<keys, requests, submit, review, poll, approvals, claims>>
  BY DEF enrollVars
<1>1. EnrollmentTypeOK'
  BY <1>0 DEF EnrollmentIInv, EnrollmentTypeOK
<1>2. ApprovalInv'
  BY <1>0
  DEF EnrollmentIInv, ApprovalInv, SessionsKnowTheirRequest,
      ApprovalsAreRecorded, IssuedOnlyAfterApproval
<1>3. PollMatchedInTenant'
  <2>1. \A p \in Polls : poll[p].device \in DeviceIds \cup {NoDevice}
    BY DEF EnrollmentIInv, EnrollmentTypeOK, PollSession
  <2>2. ASSUME NEW p \in Polls, poll[p].pc = "matched",
               poll[p].device # NoDevice
        PROVE  devices'[poll[p].device].state # "absent"
    BY <2>1, <2>2
    DEF RowsStay, EnrollmentIInv, PollTenancyInv, PollMatchedInTenant
  <2>3. ASSUME NEW p \in Polls, poll[p].pc = "matched",
               poll[p].device \in Live'
        PROVE  devices'[poll[p].device].org = requests[poll[p].request].org
    <3>1. poll[p].device # NoDevice
      BY <2>3, DevicesAssumption DEF Live
    <3> QED
      BY <2>3, <3>1
      DEF RowsStay, EnrollmentIInv, PollTenancyInv, PollMatchedInTenant
  <2>4. \A p \in Polls : poll[p].pc = "issuing" => poll[p].device = NoDevice
    BY DEF EnrollmentIInv, PollTenancyInv, PollMatchedInTenant
  <2> QED
    BY <1>0, <2>2, <2>3, <2>4 DEF PollMatchedInTenant
<1>4. ClaimedDeviceInTenant'
  <2> SUFFICES ASSUME NEW r \in Requests, requests[r].device # NoDevice
               PROVE  /\ requests[r].claimed
                      /\ requests[r].device \in Live'
                      /\ devices'[requests[r].device].org = requests[r].org
    BY <1>0 DEF ClaimedDeviceInTenant
  <2>1. /\ requests[r].claimed
        /\ requests[r].device \in Live
        /\ devices[requests[r].device].org = requests[r].org
    BY DEF EnrollmentIInv, PollTenancyInv, ClaimedDeviceInTenant
  <2> QED
    BY <2>1 DEF RowsStay, Live
<1> QED
  BY <1>1, <1>2, <1>3, <1>4 DEF EnrollmentIInv, PollTenancyInv

\* A claim leaves the token service's invariant alone.
LEMMA RegistrationUndisturbed ==
    ASSUME RegistrationIInv, UNCHANGED tokenVars, RowsStay, DevicesTypeOK',
           \A d \in Live' :
              \/ devices'[d].token = NoToken
              \/ d \in Live /\ devices'[d].token = devices[d].token
    PROVE  RegistrationIInv'
<1>0. UNCHANGED <<tokens, reg, registrations>>
  BY DEF tokenVars
<1>1. RegistrationTypeOK'
  BY <1>0 DEF RegistrationIInv, RegistrationTypeOK
<1>2. CountInv'
  BY <1>0
  DEF RegistrationIInv, CountInv, SessionFollowsToken, UseCountWithinCap,
      UseCountNeverOvercounts
<1>3. RegMatchedInTenant'
  <2>1. \A w \in Workers : reg[w].device \in DeviceIds \cup {NoDevice}
    BY DEF RegistrationIInv, RegistrationTypeOK, RegSession
  <2>2. ASSUME NEW w \in Workers, reg[w].pc = "matched",
               reg[w].device # NoDevice
        PROVE  devices'[reg[w].device].state # "absent"
    BY <2>1, <2>2
    DEF RowsStay, RegistrationIInv, RegTenancyInv, RegMatchedInTenant
  <2>3. ASSUME NEW w \in Workers, reg[w].pc = "matched",
               reg[w].device \in Live'
        PROVE  devices'[reg[w].device].org = reg[w].row.org
    <3>1. reg[w].device # NoDevice
      BY <2>3, DevicesAssumption DEF Live
    <3> QED
      BY <2>3, <3>1
      DEF RowsStay, RegistrationIInv, RegTenancyInv, RegMatchedInTenant
  <2>4. \A w \in Workers : reg[w].pc = "validated" => reg[w].device = NoDevice
    BY DEF RegistrationIInv, RegTenancyInv, RegMatchedInTenant
  <2> QED
    BY <1>0, <2>2, <2>3, <2>4 DEF RegMatchedInTenant
<1>4. TokenOwnsItsDevices'
  <2> SUFFICES ASSUME NEW d \in Live', devices'[d].token # NoToken
               PROVE  /\ tokens[devices'[d].token].created
                      /\ tokens[devices'[d].token].org = devices'[d].org
    BY <1>0 DEF TokenOwnsItsDevices
  <2>1. d \in Live /\ devices'[d].token = devices[d].token
    OBVIOUS
  <2>2. devices'[d].org = devices[d].org
    BY <2>1 DEF RowsStay, Live
  <2> QED
    BY <2>1, <2>2 DEF RegistrationIInv, RegTenancyInv, TokenOwnsItsDevices
<1> QED
  BY <1>1, <1>2, <1>3, <1>4 DEF RegistrationIInv, RegTenancyInv

\* Every step of either service, and of the devices, keeps both invariants.
LEMMA FleetStepKeeps == FleetIInv /\ [FleetNext]_fleetVars => FleetIInv'
<1> SUFFICES ASSUME FleetIInv, [FleetNext]_fleetVars
             PROVE  FleetIInv'
  OBVIOUS
<1>0. /\ RegistrationIInv
      /\ RegistrationTypeOK
      /\ SessionFollowsToken
      /\ EnrollmentIInv
      /\ EnrollmentTypeOK
      /\ SessionsKnowTheirRequest
      /\ RevokedTokensExist
      /\ RevokedKeysExist
  BY DEF FleetIInv, RegistrationIInv, EnrollmentIInv, CountInv, ApprovalInv
<1>1. ASSUME [RegistrationNext]_registrationVars
      PROVE  RegistrationIInv' /\ DevicesTypeOK'
  BY <1>0, <1>1, RegistrationTypeStep, CountStep, RegTenancyStep
  DEF RegistrationIInv, RegistrationTypeOK
<1>2. ASSUME [EnrollmentNext]_enrollmentVars
      PROVE  EnrollmentIInv' /\ DevicesTypeOK'
  BY <1>0, <1>2, EnrollmentTypeStep, ApprovalStep, PollTenancyStep
  DEF EnrollmentIInv, EnrollmentTypeOK
<1>3. CASE RegistrationStep /\ UNCHANGED enrollVars
  <2>1. RegistrationIInv' /\ DevicesTypeOK'
    BY <1>1, <1>3 DEF RegistrationNext
  <2>2. EnrollmentIInv'
    BY <1>0, <1>3, <2>1, RegistrationRowsStay, EnrollmentUndisturbed
  <2>3. RevokedTokensExist'
    BY <1>0, <1>3, TokensStayRevoked
  <2>4. RevokedKeysExist'
    BY <1>0, <1>3 DEF RevokedKeysExist, enrollVars
  <2> QED
    BY <2>1, <2>2, <2>3, <2>4 DEF FleetIInv
<1>4. CASE EnrollmentStep /\ UNCHANGED tokenVars
  <2>1. EnrollmentIInv' /\ DevicesTypeOK'
    BY <1>2, <1>4 DEF EnrollmentNext
  <2>2. RegistrationIInv'
    BY <1>0, <1>4, <2>1, EnrollmentRowsStay, RegistrationUndisturbed
  <2>3. RevokedKeysExist'
    BY <1>0, <1>4, KeysStayRevoked
  <2>4. RevokedTokensExist'
    BY <1>0, <1>4 DEF RevokedTokensExist, tokenVars
  <2> QED
    BY <2>1, <2>2, <2>3, <2>4 DEF FleetIInv
<1>5. CASE DevicesStep /\ UNCHANGED tokenVars
  <2>1. RegistrationIInv'
    BY <1>1, <1>5 DEF DevicesStep, RegistrationNext
  <2>2. EnrollmentIInv'
    BY <1>2, <1>5 DEF EnrollmentNext
  <2>3. RevokedTokensExist' /\ RevokedKeysExist'
    BY <1>0, <1>5
    DEF DevicesStep, tokenVars, RevokedTokensExist, RevokedKeysExist
  <2> QED
    BY <2>1, <2>2, <2>3 DEF FleetIInv
<1>6. CASE UNCHANGED fleetVars
  <2>1. UNCHANGED registrationVars /\ UNCHANGED enrollVars
    BY <1>6 DEF fleetVars
  <2>2. UNCHANGED enrollmentVars /\ UNCHANGED tokens /\ UNCHANGED keys
    BY <2>1 DEF registrationVars, enrollVars, enrollmentVars
  <2>3. RevokedTokensExist' /\ RevokedKeysExist'
    BY <1>0, <2>2 DEF RevokedTokensExist, RevokedKeysExist
  <2> QED
    BY <1>1, <1>2, <2>1, <2>2, <2>3 DEF FleetIInv
<1> QED
  BY <1>3, <1>4, <1>5, <1>6 DEF FleetNext

\* The invariant of the whole fleet holds in every reachable state.
THEOREM FleetInvariant == FleetSpec => []FleetIInv
<1>1. RegistrationInit => RegistrationIInv
  BY RegistrationInitIInv
<1>2. EnrollmentInit => EnrollmentIInv
  BY EnrollmentInitIInv
<1>3. FleetInit => FleetIInv
  BY <1>1, <1>2
  DEF FleetInit, FleetIInv, RegistrationInit, EnrollmentInit, NoTokenRow,
      NoKeyRow, RevokedTokensExist, RevokedKeysExist
<1> QED
  BY <1>3, FleetStepKeeps, PTL DEF FleetSpec

\* Every row, session and counter of both services keeps its type.
THEOREM FleetTypes ==
    FleetSpec => [](RegistrationTypeOK /\ EnrollmentTypeOK)
<1>1. FleetIInv => RegistrationTypeOK /\ EnrollmentTypeOK
  BY DEF FleetIInv, RegistrationIInv, EnrollmentIInv
<1> QED
  BY <1>1, FleetInvariant, PTL

\* A device with a registration token is in the organization of the token,
\* claims of it on request included.
THEOREM FleetDevicesFollowTheirToken == FleetSpec => []TokenOwnsItsDevices
<1>1. FleetIInv => TokenOwnsItsDevices
  BY DEF FleetIInv, RegistrationIInv, RegTenancyInv
<1> QED
  BY <1>1, FleetInvariant, PTL

\* The device of a claimed request exists and is in the request's tenant,
\* whatever registrations write to it.
THEOREM FleetClaimsStayInTenant == FleetSpec => []ClaimedDeviceInTenant
<1>1. FleetIInv => ClaimedDeviceInTenant
  BY DEF FleetIInv, EnrollmentIInv, PollTenancyInv
<1> QED
  BY <1>1, FleetInvariant, PTL

\* If polls never overlap, the credential of a request is returned once,
\* however many registrations run beside them.
THEOREM FleetSerialPollsIssueOnce ==
    ASSUME \A p, q \in Polls : p = q
    PROVE  FleetSpec => []IssuedOnce
<1>1. FleetInit => OnceInv
  BY DEF FleetInit, EnrollmentInit, OnceInv, NoRequestRow, NoPoll
<1>2. FleetIInv /\ OnceInv /\ [FleetNext]_fleetVars => OnceInv'
  <2> SUFFICES ASSUME FleetIInv, OnceInv, [FleetNext]_fleetVars
               PROVE  OnceInv'
    OBVIOUS
  <2>1. CASE [EnrollmentNext]_enrollmentVars
    BY <2>1, OnceStep DEF FleetIInv
  <2>2. CASE UNCHANGED enrollVars
    BY <2>2 DEF enrollVars, OnceInv
  <2> QED
    BY <2>1, <2>2 DEF FleetNext, fleetVars, EnrollmentNext
<1>3. OnceInv => IssuedOnce
  BY DEF OnceInv, IssuedOnce
<1> QED
  BY <1>1, <1>2, <1>3, FleetInvariant, PTL DEF FleetSpec

\* If reviews never overlap and requests do not expire, a review is final,
\* however many polls and registrations run beside it.
THEOREM FleetSerialReviewsAreFinal ==
    ASSUME TTL = 0, \A v, w \in Reviews : v = w
    PROVE  FleetSpec => ReviewIsFinal
<1>1. FleetInit => ReviewInv
  BY ReviewInit DEF FleetInit
<1>2. FleetIInv /\ ReviewInv /\ [FleetNext]_fleetVars
          => ReviewInv' /\ [StatusKept]_requests
  <2> SUFFICES ASSUME FleetIInv, ReviewInv, [FleetNext]_fleetVars
               PROVE  ReviewInv' /\ [StatusKept]_requests
    OBVIOUS
  <2>1. CASE [EnrollmentNext]_enrollmentVars
    BY <2>1, ReviewStep DEF FleetIInv
  <2>2. CASE UNCHANGED enrollVars
    BY <2>2 DEF enrollVars, ReviewInv, IssuedMeansApproved
  <2> QED
    BY <2>1, <2>2 DEF FleetNext, fleetVars, EnrollmentNext
<1>3. [StatusKept]_requests =>
          [\A r \in Requests :
              requests[r].status \in {"approved", "rejected", "expired"} =>
                  requests'[r].status = requests[r].status]_requests
  BY DEF StatusKept
<1> QED
  BY <1>1, <1>2, <1>3, FleetInvariant, PTL DEF FleetSpec, ReviewIsFinal

\* In the fleet too, no step of either service, of the operator or of a
\* heartbeat does more to a row than RowsMove allows.
LEMMA FleetMoves == FleetIInv /\ [FleetNext]_fleetVars => [RowsMove]_devices
<1> SUFFICES ASSUME FleetIInv, [FleetNext]_fleetVars
             PROVE  [RowsMove]_devices
  OBVIOUS
<1>1. /\ RegistrationTypeOK /\ SessionFollowsToken
      /\ EnrollmentTypeOK /\ SessionsKnowTheirRequest
      /\ DevicesTypeOK
  BY DEF FleetIInv, RegistrationIInv, EnrollmentIInv, CountInv, ApprovalInv,
         RegistrationTypeOK
<1>2. UNCHANGED fleetVars => UNCHANGED devices
  BY DEF fleetVars, registrationVars
<1> QED
  BY <1>1, <1>2, RegistrationMoves, EnrollmentMoves, DevicesNextMoves
  DEF FleetNext, DevicesStep

\* No registration, claim or heartbeat puts back a credential that was
\* rotated, revoked or replaced, whatever it loaded before.
THEOREM FleetKeepsCredentialsDead ==
    FleetSpec => SupersededCredentialStaysDead
<1>1. [RowsMove]_devices =>
          [\A d \in DeviceIds :
              devices'[d].cred # devices[d].cred =>
                  devices'[d].cred = NULL \/ devices'[d].cred > minted]_devices
  BY DEF RowsMove
<1> QED
  BY <1>1, FleetMoves, FleetInvariant, PTL
  DEF FleetSpec, SupersededCredentialStaysDead

\* A device that was disabled is enabled again by the operator, or with a new
\* credential.
THEOREM FleetKeepsDevicesDisabled == FleetSpec => DisabledUntilReenabled
<1>1. [RowsMove]_devices =>
          [\A d \in Live :
              ~devices[d].enabled /\ devices'[d].enabled =>
                  SetEnabled(d, TRUE) \/ devices'[d].cred > minted]_devices
  BY DEF RowsMove
<1> QED
  BY <1>1, FleetMoves, FleetInvariant, PTL
  DEF FleetSpec, DisabledUntilReenabled
=============================================================================
