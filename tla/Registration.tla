---------------------------- MODULE Registration ----------------------------
(***************************************************************************)
(* Registration of devices with tokens: the operator creates and revokes   *)
(* tokens (fleet/service.py), an agent that holds one calls                *)
(* POST /agent/register (fleet/registration.py).  Requests of several      *)
(* agents run together, one session each: a session reads the token, later *)
(* reads the matching devices, later writes both and commits.              *)
(***************************************************************************)
EXTENDS Devices

CONSTANTS
    Workers,    \* registration requests that may be in flight together
    Caps,       \* values of max_uses the operator picks; 0 is "no cap"
    Expiries    \* values of expires_at the operator picks; 0 is "never"

ASSUME RegistrationAssumption ==
    /\ Caps \subseteq Nat
    /\ Expiries \subseteq Nat

VARIABLES
    tokens,         \* the registration_tokens table
    reg,            \* the sessions of registration requests
    registrations   \* history: registrations committed with each token

tokenVars == <<tokens, reg, registrations>>

registrationVars == <<devices, minted, now, beat, tokens, reg, registrations>>

-----------------------------------------------------------------------------

NoCap == 0

Token == [created : BOOLEAN,
          org     : Orgs,
          max     : Nat,
          uses    : Nat,
          revoked : BOOLEAN,
          expires : Nat]

NoTokenRow == [created |-> FALSE, org |-> CHOOSE o \in Orgs : TRUE,
               max |-> NoCap, uses |-> 0, revoked |-> FALSE, expires |-> Never]

\* A session keeps the token it validated and the row it matched, as loaded.
RegSession == [pc     : {"idle", "validated", "matched"},
               token  : Tokens \cup {NoToken},
               row    : Token,
               ident  : Identity,
               device : DeviceIds \cup {NoDevice},
               loaded : Row,
               since  : Nat]

NoReg == [pc |-> "idle", token |-> NoToken, row |-> NoTokenRow,
          ident |-> NoIdentity, device |-> NoDevice, loaded |-> Blank,
          since |-> 0]

RegistrationInit ==
    /\ DevicesInit
    /\ tokens = [t \in Tokens |-> NoTokenRow]
    /\ reg = [w \in Workers |-> NoReg]
    /\ registrations = [t \in Tokens |-> 0]

-----------------------------------------------------------------------------
(* The operator                                                            *)

CreateToken(t, org, max, expires) ==
    /\ ~tokens[t].created
    /\ expires = Never \/ expires > now
    /\ tokens' = [tokens EXCEPT ![t] =
                     [created |-> TRUE, org |-> org, max |-> max, uses |-> 0,
                      revoked |-> FALSE, expires |-> expires]]
    /\ UNCHANGED <<deviceVars, reg, registrations>>

RevokeToken(t) ==
    /\ tokens[t].created
    /\ ~tokens[t].revoked
    /\ tokens' = [tokens EXCEPT ![t].revoked = TRUE]
    /\ UNCHANGED <<deviceVars, reg, registrations>>

-----------------------------------------------------------------------------
(* POST /agent/register                                                    *)

\* Fault: off by one at the cap.
UsableOneMore(token) ==
    /\ token.created
    /\ ~token.revoked
    /\ token.expires = Never \/ token.expires > now
    /\ token.max = NoCap \/ token.uses <= token.max

\* _validate_token
Usable(token) ==
    /\ token.created
    /\ ~token.revoked
    /\ token.expires = Never \/ token.expires > now
    /\ token.max = NoCap \/ token.uses < token.max

RegValidate(w, t) ==
    /\ reg[w].pc = "idle"
    /\ Usable(tokens[t])
    /\ reg' = [reg EXCEPT ![w] = [NoReg EXCEPT !.pc = "validated", !.token = t,
                                              !.row = tokens[t]]]
    /\ UNCHANGED <<deviceVars, tokens, registrations>>

RegMatch(w, ident) ==
    LET hits == Hits(ident, devices, Live)
    IN  /\ reg[w].pc = "validated"
        /\ Acceptable(hits, devices, reg[w].row.org)
        /\ \/ /\ hits = {}
              /\ reg' = [reg EXCEPT ![w] =
                    [@ EXCEPT !.pc = "matched", !.ident = ident,
                              !.since = now]]
           \/ \E d \in hits :
                 reg' = [reg EXCEPT ![w] =
                    [@ EXCEPT !.pc = "matched", !.ident = ident, !.device = d,
                              !.loaded = devices[d], !.since = now]]
        /\ UNCHANGED <<deviceVars, tokens, registrations>>

\* Fault: the use is counted before the conflict is found, and kept.
RegConflictCounted(w, ident) ==
    /\ reg[w].pc = "validated"
    /\ ~Acceptable(Hits(ident, devices, Live), devices, reg[w].row.org)
    /\ reg' = [reg EXCEPT ![w] = NoReg]
    /\ tokens' = [tokens EXCEPT ![reg[w].token].uses = reg[w].row.uses + 1]
    /\ UNCHANGED <<deviceVars, registrations>>

\* 409: the machine belongs to another tenant, or to several devices.
RegConflict(w, ident) ==
    /\ reg[w].pc = "validated"
    /\ ~Acceptable(Hits(ident, devices, Live), devices, reg[w].row.org)
    /\ reg' = [reg EXCEPT ![w] = NoReg]
    /\ UNCHANGED <<deviceVars, tokens, registrations>>

\* The device that the session writes, and the columns of it.
RegWrite(w, stamp) ==
    LET r == reg[w]
    IN  \/ /\ r.device = NoDevice
           /\ \E d \in DeviceIds :
                 /\ devices[d].state = "absent"
                 /\ devices' = [devices EXCEPT ![d] =
                        CreatedRow(r.row.org, r.ident, r.token, stamp)]
        \/ /\ r.device \in Live
           /\ devices' = [devices EXCEPT ![r.device] =
                  UpdatedRow(@, r.loaded, r.ident, r.token, stamp)]

\* Fault: the session saves the whole token it loaded.
RegCountWhole(w) ==
    tokens' = [tokens EXCEPT ![reg[w].token] =
                  [reg[w].row EXCEPT !.uses = @ + 1]]

\* use_count is written as the loaded value plus one.
RegCount(w) ==
    tokens' = [tokens EXCEPT ![reg[w].token].uses = reg[w].row.uses + 1]

RegCommit(w) ==
    /\ reg[w].pc = "matched"
    /\ \E stamp \in reg[w].since .. now : RegWrite(w, stamp)
    /\ RegCount(w)
    /\ Mint
    /\ registrations' = [registrations EXCEPT ![reg[w].token] = @ + 1]
    /\ reg' = [reg EXCEPT ![w] = NoReg]
    /\ UNCHANGED <<now, beat>>

\* Fault: the use is committed although the registration failed.
RegAbortCounted(w) ==
    /\ reg[w].pc # "idle"
    /\ reg' = [reg EXCEPT ![w] = NoReg]
    /\ tokens' = [tokens EXCEPT ![reg[w].token].uses = reg[w].row.uses + 1]
    /\ UNCHANGED <<deviceVars, registrations>>

\* The matched row was deleted (StaleDataError), or the request dies: the
\* whole transaction rolls back.
RegAbort(w) ==
    /\ reg[w].pc # "idle"
    /\ reg' = [reg EXCEPT ![w] = NoReg]
    /\ UNCHANGED <<deviceVars, tokens, registrations>>

RegistrationStep ==
    \/ \E t \in Tokens :
          \/ \E org \in Orgs, max \in Caps, expires \in Expiries :
                CreateToken(t, org, max, expires)
          \/ RevokeToken(t)
    \/ \E w \in Workers :
          \/ \E t \in Tokens : RegValidate(w, t)
          \/ \E ident \in Identity : RegMatch(w, ident) \/ RegConflict(w, ident)
          \/ RegCommit(w)
          \/ RegAbort(w)

RegistrationNext ==
    \/ RegistrationStep
    \/ DevicesNext /\ UNCHANGED tokenVars

RegistrationSpec == RegistrationInit /\ [][RegistrationNext]_registrationVars

-----------------------------------------------------------------------------

RegistrationTypeOK ==
    /\ DevicesTypeOK
    /\ tokens \in [Tokens -> Token]
    /\ reg \in [Workers -> RegSession]
    /\ registrations \in [Tokens -> Nat]

\* The counter of a capped token never passes the cap, although a session
\* writes a value computed from an old read of it.
UseCountWithinCap ==
    \A t \in Tokens :
        tokens[t].max # NoCap => tokens[t].uses <= tokens[t].max

\* Lost updates make use_count fall behind the registrations that were
\* committed; nothing makes it run ahead of them.
UseCountNeverOvercounts ==
    \A t \in Tokens : tokens[t].uses <= registrations[t]

\* Tenancy: a device that a token registered, created or updated, is in the
\* organization of that token.
TokenOwnsItsDevices ==
    \A d \in Live :
        devices[d].token # NoToken =>
            /\ tokens[devices[d].token].created
            /\ tokens[devices[d].token].org = devices[d].org

\* "Revocation is immediate and irreversible": a registration that read the
\* token before it was revoked, and commits after, does not bring it back.
TokenRevocationIsPermanent ==
    [][\A t \in Tokens : tokens[t].revoked => tokens'[t].revoked]_tokens

\* "use_count increments on each successful registration."
UseCountExact == \A t \in Tokens : tokens[t].uses = registrations[t]
=============================================================================
