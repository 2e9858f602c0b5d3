----------------------------- MODULE Enrollment -----------------------------
(***************************************************************************)
(* Enrollment of devices on request (fleet/enrollment.py): a device that   *)
(* holds an organization's API key submits a request, an administrator     *)
(* approves or rejects it (fleet/service.py), the device polls with its    *)
(* claim secret, and the first poll after the approval issues the device's *)
(* credential.  Every HTTP request is a session: what it reads and what it *)
(* later writes are separate steps.                                        *)
(***************************************************************************)
EXTENDS Devices

CONSTANTS
    Keys,       \* enrollment API keys
    Requests,   \* enrollment requests
    Submits,    \* submissions (POST enroll/request) in flight together
    Reviews,    \* approvals and rejections in flight together
    Polls,      \* polls (POST enroll/poll) in flight together
    KeyExpiries,\* values of a key's expires_at the operator picks; 0: never
    NoKey,      \* no API key
    NoRequest,  \* no enrollment request
    TTL         \* enrollment_request_ttl_seconds; 0: requests never expire

ASSUME EnrollmentAssumption ==
    /\ NoKey \notin Keys
    /\ NoRequest \notin Requests
    /\ KeyExpiries \subseteq Nat
    /\ TTL \in Nat

VARIABLES
    keys,       \* the enrollment_api_keys table
    requests,   \* the device_enrollment_requests table
    submit,     \* the sessions of submissions
    review,     \* the sessions of administrators
    poll,       \* the sessions of polls
    approvals,  \* history: requests an administrator approved
    claims      \* history: credentials issued for each request

enrollVars == <<keys, requests, submit, review, poll, approvals, claims>>

enrollmentVars == <<devices, minted, now, beat, keys, requests, submit,
                    review, poll, approvals, claims>>

-----------------------------------------------------------------------------

Key == [created : BOOLEAN, org : Orgs, revoked : BOOLEAN, expires : Nat]

NoKeyRow == [created |-> FALSE, org |-> CHOOSE o \in Orgs : TRUE,
             revoked |-> FALSE, expires |-> Never]

Request == [status  : {"absent", "pending", "approved", "rejected", "expired"},
            org     : Orgs,
            ident   : Identity,
            expires : Nat,
            claimed : BOOLEAN,
            device  : DeviceIds \cup {NoDevice}]

NoRequestRow == [status |-> "absent", org |-> CHOOSE o \in Orgs : TRUE,
                 ident |-> NoIdentity, expires |-> Never, claimed |-> FALSE,
                 device |-> NoDevice]

SubmitSession == [key : Keys \cup {NoKey}, loaded : Key]

NoSubmit == [key |-> NoKey, loaded |-> NoKeyRow]

PollSession == [pc      : {"idle", "expiring", "issuing", "matched"},
                request : Requests \cup {NoRequest},
                device  : DeviceIds \cup {NoDevice},
                loaded  : Row,
                stamp   : Nat]

NoPoll == [pc |-> "idle", request |-> NoRequest, device |-> NoDevice,
           loaded |-> Blank, stamp |-> 0]

EnrollmentInit ==
    /\ DevicesInit
    /\ keys = [k \in Keys |-> NoKeyRow]
    /\ requests = [r \in Requests |-> NoRequestRow]
    /\ submit = [s \in Submits |-> NoSubmit]
    /\ review = [v \in Reviews |-> NoRequest]
    /\ poll = [p \in Polls |-> NoPoll]
    /\ approvals = {}
    /\ claims = [r \in Requests |-> 0]

\* A key or a request whose expires_at has come.
Expired(row) == row.expires # Never /\ row.expires <= now

-----------------------------------------------------------------------------
(* API keys, and submission                                                *)

CreateKey(k, org, expires) ==
    /\ ~keys[k].created
    /\ expires = Never \/ expires > now
    /\ keys' = [keys EXCEPT ![k] =
                   [created |-> TRUE, org |-> org, revoked |-> FALSE,
                    expires |-> expires]]
    /\ UNCHANGED <<deviceVars, requests, submit, review, poll, approvals,
                   claims>>

RevokeKey(k) ==
    /\ keys[k].created
    /\ ~keys[k].revoked
    /\ keys' = [keys EXCEPT ![k].revoked = TRUE]
    /\ UNCHANGED <<deviceVars, requests, submit, review, poll, approvals,
                   claims>>

\* get_current_api_key, for enroll/request and for enroll/check.
SubmitAuth(s, k) ==
    /\ submit[s] = NoSubmit
    /\ keys[k].created
    /\ ~keys[k].revoked
    /\ ~Expired(keys[k])
    /\ submit' = [submit EXCEPT ![s] = [key |-> k, loaded |-> keys[k]]]
    /\ UNCHANGED <<deviceVars, keys, requests, review, poll, approvals,
                   claims>>

\* Fault: the session saves the whole key it loaded.
TouchedWhole(key, loaded) == loaded

\* The key's row after its last_used_at, which is not modelled, is flushed.
Touched(key, loaded) == key

\* _submit_request: a pending row, in the organization of the key.
SubmitCommit(s, r, ident) ==
    /\ submit[s].key # NoKey
    /\ requests[r].status = "absent"
    /\ requests' = [requests EXCEPT ![r] =
                       [status |-> "pending", org |-> submit[s].loaded.org,
                        ident |-> ident,
                        expires |-> IF TTL > 0 THEN now + TTL ELSE Never,
                        claimed |-> FALSE, device |-> NoDevice]]
    /\ keys' = [keys EXCEPT ![submit[s].key] = Touched(@, submit[s].loaded)]
    /\ submit' = [submit EXCEPT ![s] = NoSubmit]
    /\ UNCHANGED <<deviceVars, review, poll, approvals, claims>>

\* check: the same write to the key, and nothing else.
CheckCommit(s) ==
    /\ submit[s].key # NoKey
    /\ keys' = [keys EXCEPT ![submit[s].key] = Touched(@, submit[s].loaded)]
    /\ submit' = [submit EXCEPT ![s] = NoSubmit]
    /\ UNCHANGED <<deviceVars, requests, review, poll, approvals, claims>>

-----------------------------------------------------------------------------
(* Review                                                                  *)

\* Fault: any request can be reviewed.
ReviewReadAny(v, r) ==
    /\ review[v] = NoRequest
    /\ requests[r].status # "absent"
    /\ review' = [review EXCEPT ![v] = r]
    /\ UNCHANGED <<deviceVars, keys, requests, submit, poll, approvals,
                   claims>>

\* approve_enrollment_request and reject_enrollment_request read the request
\* and go on only if it is pending; its expiry is not looked at.
ReviewRead(v, r) ==
    /\ review[v] = NoRequest
    /\ requests[r].status = "pending"
    /\ review' = [review EXCEPT ![v] = r]
    /\ UNCHANGED <<deviceVars, keys, requests, submit, poll, approvals,
                   claims>>

Approve(v) ==
    /\ review[v] # NoRequest
    /\ requests' = [requests EXCEPT ![review[v]].status = "approved"]
    /\ approvals' = approvals \cup {review[v]}
    /\ review' = [review EXCEPT ![v] = NoRequest]
    /\ UNCHANGED <<deviceVars, keys, submit, poll, claims>>

Reject(v) ==
    /\ review[v] # NoRequest
    /\ requests' = [requests EXCEPT ![review[v]].status = "rejected"]
    /\ review' = [review EXCEPT ![v] = NoRequest]
    /\ UNCHANGED <<deviceVars, keys, submit, poll, approvals, claims>>

-----------------------------------------------------------------------------
(* Poll.  The answers to a pending, rejected or expired request, and to an *)
(* approved one that is claimed, change nothing.                           *)

PollExpiring(p, r) ==
    /\ poll[p].pc = "idle"
    /\ requests[r].status = "pending"
    /\ Expired(requests[r])
    /\ poll' = [poll EXCEPT ![p] = [NoPoll EXCEPT !.pc = "expiring",
                                                  !.request = r]]
    /\ UNCHANGED <<deviceVars, keys, requests, submit, review, approvals,
                   claims>>

PollExpire(p) ==
    /\ poll[p].pc = "expiring"
    /\ requests' = [requests EXCEPT ![poll[p].request].status = "expired"]
    /\ poll' = [poll EXCEPT ![p] = NoPoll]
    /\ UNCHANGED <<deviceVars, keys, submit, review, approvals, claims>>

\* Fault: a request that is not rejected is taken for approved.
PollApprovedUnlessRejected(p, r) ==
    /\ poll[p].pc = "idle"
    /\ requests[r].status \in {"pending", "approved"}
    /\ ~requests[r].claimed
    /\ poll' = [poll EXCEPT ![p] = [NoPoll EXCEPT !.pc = "issuing",
                                                  !.request = r,
                                                  !.stamp = now]]
    /\ UNCHANGED <<deviceVars, keys, requests, submit, review, approvals,
                   claims>>

\* Fault: claimed_at is not looked at.
PollApprovedAgain(p, r) ==
    /\ poll[p].pc = "idle"
    /\ requests[r].status = "approved"
    /\ poll' = [poll EXCEPT ![p] = [NoPoll EXCEPT !.pc = "issuing",
                                                  !.request = r,
                                                  !.stamp = now]]
    /\ UNCHANGED <<deviceVars, keys, requests, submit, review, approvals,
                   claims>>

PollApproved(p, r) ==
    /\ poll[p].pc = "idle"
    /\ requests[r].status = "approved"
    /\ ~requests[r].claimed
    /\ poll' = [poll EXCEPT ![p] = [NoPoll EXCEPT !.pc = "issuing",
                                                  !.request = r,
                                                  !.stamp = now]]
    /\ UNCHANGED <<deviceVars, keys, requests, submit, review, approvals,
                   claims>>

PollHits(p) == Hits(requests[poll[p].request].ident, devices, Live)

PollMatch(p) ==
    /\ poll[p].pc = "issuing"
    /\ Acceptable(PollHits(p), devices, requests[poll[p].request].org)
    /\ \/ /\ PollHits(p) = {}
          /\ poll' = [poll EXCEPT ![p] = [@ EXCEPT !.pc = "matched"]]
       \/ \E d \in PollHits(p) :
             poll' = [poll EXCEPT ![p] = [@ EXCEPT !.pc = "matched",
                                                   !.device = d,
                                                   !.loaded = devices[d]]]
    /\ UNCHANGED <<deviceVars, keys, requests, submit, review, approvals,
                   claims>>

PollConflict(p) ==
    /\ poll[p].pc = "issuing"
    /\ ~Acceptable(PollHits(p), devices, requests[poll[p].request].org)
    /\ poll' = [poll EXCEPT ![p] = NoPoll]
    /\ UNCHANGED <<deviceVars, keys, requests, submit, review, approvals,
                   claims>>

\* The request and the device are written, the credential is handed out.
\* An existing device keeps its registration_token_id.
PollCommit(p) ==
    LET r == poll[p].request
    IN  /\ poll[p].pc = "matched"
        /\ \E d \in DeviceIds :
              /\ \/ /\ poll[p].device = NoDevice
                    /\ devices[d].state = "absent"
                    /\ devices' = [devices EXCEPT ![d] =
                          CreatedRow(requests[r].org, requests[r].ident,
                                     NoToken, poll[p].stamp)]
                 \/ /\ d = poll[p].device
                    /\ d \in Live
                    /\ devices' = [devices EXCEPT ![d] =
                          UpdatedRow(@, poll[p].loaded, requests[r].ident,
                                     poll[p].loaded.token, poll[p].stamp)]
              /\ requests' = [requests EXCEPT ![r] =
                                  [@ EXCEPT !.claimed = TRUE, !.device = d]]
        /\ Mint
        /\ claims' = [claims EXCEPT ![r] = @ + 1]
        /\ poll' = [poll EXCEPT ![p] = NoPoll]
        /\ UNCHANGED <<now, beat, keys, submit, review, approvals>>

-----------------------------------------------------------------------------

\* A request that dies before its commit leaves nothing behind; a poll also
\* dies of a device that was deleted under it.
Abort ==
    /\ \/ /\ \E s \in Submits : /\ submit[s] # NoSubmit
                                /\ submit' = [submit EXCEPT ![s] = NoSubmit]
          /\ UNCHANGED <<review, poll>>
       \/ /\ \E v \in Reviews : /\ review[v] # NoRequest
                                /\ review' = [review EXCEPT ![v] = NoRequest]
          /\ UNCHANGED <<submit, poll>>
       \/ /\ \E p \in Polls : /\ poll[p].pc # "idle"
                              /\ poll' = [poll EXCEPT ![p] = NoPoll]
          /\ UNCHANGED <<submit, review>>
    /\ UNCHANGED <<deviceVars, keys, requests, approvals, claims>>

EnrollmentStep ==
    \/ \E k \in Keys :
          \/ \E org \in Orgs, expires \in KeyExpiries :
                CreateKey(k, org, expires)
          \/ RevokeKey(k)
    \/ \E s \in Submits :
          \/ \E k \in Keys : SubmitAuth(s, k)
          \/ \E r \in Requests, ident \in Identity : SubmitCommit(s, r, ident)
          \/ CheckCommit(s)
    \/ \E v \in Reviews :
          \/ \E r \in Requests : ReviewRead(v, r)
          \/ Approve(v)
          \/ Reject(v)
    \/ \E p \in Polls :
          \/ \E r \in Requests : PollExpiring(p, r) \/ PollApproved(p, r)
          \/ PollExpire(p)
          \/ PollMatch(p)
          \/ PollConflict(p)
          \/ PollCommit(p)
    \/ Abort

\* Fault: device_id is not reset when the device is deleted.
DetachedNot == requests

\* ON DELETE SET NULL of device_id, for a device deleted in this step.
Detached ==
    [r \in Requests |->
        IF requests[r].device \in Live' THEN requests[r]
        ELSE [requests[r] EXCEPT !.device = NoDevice]]

\* A step of the devices table, with its effect on the requests.
DevicesStep ==
    /\ DevicesNext
    /\ requests' = Detached
    /\ UNCHANGED <<keys, submit, review, poll, approvals, claims>>

EnrollmentNext == EnrollmentStep \/ DevicesStep

EnrollmentSpec == EnrollmentInit /\ [][EnrollmentNext]_enrollmentVars

-----------------------------------------------------------------------------

EnrollmentTypeOK ==
    /\ DevicesTypeOK
    /\ keys \in [Keys -> Key]
    /\ requests \in [Requests -> Request]
    /\ submit \in [Submits -> SubmitSession]
    /\ review \in [Reviews -> Requests \cup {NoRequest}]
    /\ poll \in [Polls -> PollSession]
    /\ approvals \subseteq Requests
    /\ claims \in [Requests -> Nat]

\* No credential is issued for a request nobody approved, however reviews,
\* expiry and polls interleave.
IssuedOnlyAfterApproval ==
    \A r \in Requests : claims[r] > 0 => r \in approvals

\* The device a request points to exists, in the request's tenant, and was
\* claimed with it.
ClaimedDeviceInTenant ==
    \A r \in Requests :
        requests[r].device # NoDevice =>
            /\ requests[r].claimed
            /\ requests[r].device \in Live
            /\ devices[requests[r].device].org = requests[r].org

\* A revoked API key stays revoked: a submission or check that read the key
\* before, and writes its last use after, does not bring it back.
KeyRevocationIsPermanent ==
    [][\A k \in Keys : keys[k].revoked => keys'[k].revoked]_keys

\* The credential of a request is "returned exactly once".
IssuedOnce == \A r \in Requests : claims[r] <= 1

\* A reviewed request was pending: "Only pending requests can be approved",
\* "Only pending requests can be rejected", and expiry is for pending ones.
ReviewIsFinal ==
    [][\A r \in Requests :
          requests[r].status \in {"approved", "rejected", "expired"} =>
              requests'[r].status = requests[r].status]_requests

\* A request whose credential was issued is, and stays, an approved one.
IssuedMeansApproved ==
    \A r \in Requests : requests[r].claimed => requests[r].status = "approved"
=============================================================================
