------------------------------ MODULE AgentCli ------------------------------
(***************************************************************************)
(* The device's side of joining the fleet (agent-example): the commands    *)
(* register, request-token, claim, config and run over the files of one    *)
(* configuration directory, and as much of the server as their answers     *)
(* need.  A command waits for each answer, and can be killed at any point; *)
(* a read that times out ends it just as well, since the HTTP client turns *)
(* only the failure to connect and an HTTP status into AgentApiError.      *)
(* The device token and its MQTT files are stored in one step, which is    *)
(* what AtomicSecrets says and SecretsJournal implements.                  *)
(***************************************************************************)
EXTENDS Naturals

CONSTANTS
    Commands,   \* foreground commands that may run at the same time
    Requests,   \* enrollment requests the server can create
    NoRequest,  \* no claim is stored
    MaxCred,    \* bound: credentials the server issues
    MaxDevice,  \* bound: device rows created for this machine
    MaxPolls,   \* poll_cap of a command that waits
    MaxKills    \* bound: commands killed

ASSUME AgentCliAssumption ==
    /\ NoRequest \notin Requests
    /\ MaxCred \in Nat
    /\ MaxDevice \in Nat
    /\ MaxPolls \in Nat \ {0}
    /\ MaxKills \in Nat

VARIABLES
    request,    \* server: the enrollment requests
    device,     \* server: the machine's device row (0: none), rows created
    issued,     \* server: device of each credential issued, in order
    valid,      \* server: the credential it accepts, 0 if none
    token,      \* disk: the credential of the device-token file, 0 if none
    config,     \* disk: the device id in config.json, 0 if none
    claim,      \* disk: the request whose claim secret is stored
    tokenFile,  \* disk: the file with the registration token exists
    proc,       \* the foreground commands
    run,        \* the credential the heartbeat loop uses, 0 if not running
    lost,       \* history: credentials whose answer reached no command
    torn,       \* history: a command was killed between token and config
    kills

server == <<request, device, issued, valid>>
disk == <<token, config, claim, tokenFile>>
history == <<lost, torn, kills>>
vars == <<server, disk, proc, run, history>>

-----------------------------------------------------------------------------

Statuses == {"none", "pending", "approved", "rejected", "expired"}

Request == [status : Statuses, claimed : BOOLEAN]

\* What the HTTP client returns: the status of a poll, a credential, or an
\* AgentApiError ("limited" for 429).
Kinds == (Statuses \ {"none"}) \cup {"credential", "error", "limited"}

Answer == [kind : Kinds, token : 0 .. MaxCred]

Failed == [kind |-> "error", token |-> 0]
Limited == [kind |-> "limited", token |-> 0]

\* op: the command; request: the one it works on; saved: config.json as read.
Command == [pc      : {"idle", "sync", "synced", "submit", "submitted", "poll",
                       "polled", "register", "secrets", "config", "finish",
                       "connect"},
            op      : {"request-token", "claim", "register", "config"},
            request : Requests \cup {NoRequest},
            answer  : Answer,
            polls   : 0 .. MaxPolls - 1,
            saved   : 0 .. MaxDevice]

Idle == [pc |-> "idle", op |-> "claim", request |-> NoRequest,
         answer |-> Failed, polls |-> 0, saved |-> 0]

DeviceOf(n) == IF n = 0 THEN 0 ELSE issued[n]

Issued == {n \in 1 .. MaxCred : issued[n] # 0}

LastIssued == IF Issued = {} THEN 0 ELSE CHOOSE n \in Issued : \A m \in Issued : m <= n

Init ==
    /\ request = [r \in Requests |-> [status |-> "none", claimed |-> FALSE]]
    /\ device = [row |-> 0, rows |-> 0]
    /\ issued = [n \in 1 .. MaxCred |-> 0]
    /\ valid = 0
    /\ token = 0 /\ config = 0 /\ claim = NoRequest /\ tokenFile \in BOOLEAN
    /\ proc = [c \in Commands |-> Idle]
    /\ run = 0
    /\ lost = {} /\ torn = FALSE /\ kills = 0

Goto(c, pc) == proc' = [proc EXCEPT ![c].pc = pc]
Exit(c) == proc' = [proc EXCEPT ![c] = Idle]

\* A command begins with nothing but what it works on.
Start(c, op, pc, r, saved) ==
    proc' = [proc EXCEPT ![c] = [pc |-> pc, op |-> op, request |-> r,
                                 answer |-> Failed, polls |-> 0, saved |-> saved]]

-----------------------------------------------------------------------------
(* The server, and the people in front of it.                              *)

\* A new credential replaces the one the device had.
Issue ==
    /\ LastIssued < MaxCred
    /\ device.row = 0 => device.rows < MaxDevice
    /\ device' = IF device.row # 0 THEN device
                 ELSE [row |-> device.rows + 1, rows |-> device.rows + 1]
    /\ issued' = [issued EXCEPT ![LastIssued + 1] = device'.row]
    /\ valid' = LastIssued + 1

\* EnrollmentService._poll.
Claimable(r) == request[r].status = "approved" /\ ~request[r].claimed

PollAnswer(r) ==
    IF Claimable(r) THEN [kind |-> "credential", token |-> LastIssued + 1]
    ELSE [kind |-> request[r].status, token |-> 0]

ServePoll(r) ==
    IF Claimable(r)
    THEN Issue /\ request' = [request EXCEPT ![r].claimed = TRUE]
    ELSE UNCHANGED server

\* Approval, rejection, and the expiry a poll notices.
Review(r, status) ==
    /\ request[r].status = "pending"
    /\ status \in {"approved", "rejected", "expired"}
    /\ request' = [request EXCEPT ![r].status = status]
    /\ UNCHANGED <<device, issued, valid, disk, proc, run, history>>

RevokeCredential ==
    /\ valid # 0
    /\ valid' = 0
    /\ UNCHANGED <<request, device, issued, disk, proc, run, history>>

DeleteDevice ==
    /\ device.row # 0
    /\ device' = [device EXCEPT !.row = 0]
    /\ valid' = 0
    /\ UNCHANGED <<request, issued, disk, proc, run, history>>

\* The operator puts a new registration token on the device.
ProvideToken ==
    /\ ~tokenFile
    /\ tokenFile' = TRUE
    /\ UNCHANGED <<server, token, config, claim, proc, run, history>>

-----------------------------------------------------------------------------
(* HTTP requests.  The server may have served a request whose answer is an *)
(* error: the response was replaced on the way.                            *)

Received(c, pc, answer, sent) ==
    /\ proc' = [proc EXCEPT ![c].pc = pc, ![c].answer = answer]
    /\ lost' = IF answer # sent /\ sent.token # 0 THEN lost \cup {sent.token}
               ELSE lost
    /\ UNCHANGED <<torn, kills>>

EnrollPoll(c, pc) ==
    LET r == proc[c].request
    IN  \/ /\ ServePoll(r)
           /\ \E answer \in {PollAnswer(r), Failed} :
                  Received(c, pc, answer, PollAnswer(r))
        \/ /\ \E answer \in {Failed, Limited} : Received(c, pc, answer, Failed)
           /\ UNCHANGED server

-----------------------------------------------------------------------------
(* request-token                                                           *)

\* A stored claim is looked at first, unless the command has --new.
BeginRequest(c, new) ==
    /\ proc[c].pc = "idle"
    /\ \/ claim # NoRequest /\ ~new /\ Start(c, "request-token", "sync", claim, 0)
       \/ (claim = NoRequest \/ new) /\ Start(c, "request-token", "submit", claim, 0)
    /\ UNCHANGED <<server, disk, run, history>>

SyncPoll(c) ==
    /\ proc[c].pc = "sync"
    /\ EnrollPoll(c, "synced")
    /\ UNCHANGED <<disk, run>>

\* Fault: a server that cannot be reached ends the claim too.
EndsClaimOrError == {"rejected", "expired", "error"}

EndsClaim == {"rejected", "expired"}

\* Fault: an approved claim is left to the command claim.
SyncStoresNothing == {}

SyncStores == {"credential"}

\* "pending", every error, and "approved" without a credential end the command.
Synced(c) ==
    /\ proc[c].pc = "synced"
    /\ CASE proc[c].answer.kind \in EndsClaim ->
                Goto(c, "submit") /\ claim' = NoRequest
         [] proc[c].answer.kind \in SyncStores ->
                Goto(c, "secrets") /\ UNCHANGED claim
         [] OTHER -> Exit(c) /\ UNCHANGED claim
    /\ UNCHANGED <<server, token, config, tokenFile, run, history>>

Fresh == {r \in Requests : request[r].status = "none"}

\* enroll_request: refused, or the server creates a request; its answer may
\* be lost, which leaves a request nobody can claim.
Submit(c) ==
    /\ proc[c].pc = "submit"
    /\ \/ Exit(c) /\ UNCHANGED request
       \/ /\ Fresh # {}
          /\ LET r == CHOOSE r \in Fresh : TRUE
             IN  /\ request' = [request EXCEPT ![r].status = "pending"]
                 /\ \/ proc' = [proc EXCEPT ![c] = [@ EXCEPT !.pc = "submitted",
                                                            !.request = r]]
                    \/ Exit(c)
    /\ UNCHANGED <<device, issued, valid, disk, run, history>>

\* With --wait 0 the command ends here.
StoreClaim(c) ==
    /\ proc[c].pc = "submitted"
    /\ claim' = proc[c].request
    /\ Goto(c, "poll") \/ Exit(c)
    /\ UNCHANGED <<server, token, config, tokenFile, run, history>>

-----------------------------------------------------------------------------
(* claim, and the waiting of request-token                                 *)

BeginClaim(c) ==
    /\ proc[c].pc = "idle"
    /\ claim # NoRequest
    /\ Start(c, "claim", "poll", claim, 0)
    /\ UNCHANGED <<server, disk, run, history>>

Poll(c) ==
    /\ proc[c].pc = "poll"
    /\ EnrollPoll(c, "polled")
    /\ UNCHANGED <<disk, run>>

\* Fault: a poll that was told to slow down is not counted.
CountedUnlessLimited(c) ==
    IF proc[c].answer.kind = "limited" THEN proc[c].polls ELSE proc[c].polls + 1

Counted(c) == proc[c].polls + 1

\* Fault: one poll too many.
CapPassed(c) == Counted(c) > MaxPolls

CapReached(c) == Counted(c) >= MaxPolls

\* Sleep and poll again, unless the deadline or poll_cap is reached.
Wait(c) ==
    /\ proc[c].pc = "polled"
    /\ proc[c].answer.kind \in {"pending", "limited"}
    /\ \/ Exit(c)
       \/ /\ ~CapReached(c)
          /\ proc' = [proc EXCEPT ![c] = [@ EXCEPT !.pc = "poll", !.answer = Failed,
                                                !.polls = Counted(c)]]
    /\ UNCHANGED <<server, disk, run, history>>

\* Fault: an approved request is taken for one that carries a credential.
StoredAnswersApproved == {"credential", "approved"}

StoredAnswers == {"credential"}

\* _handle_poll_payload.  "approved" without a credential ends the claim as
\* a rejection does.
Polled(c) ==
    /\ proc[c].pc = "polled"
    /\ proc[c].answer.kind \notin {"pending", "limited"}
    /\ CASE proc[c].answer.kind \in StoredAnswers ->
                Goto(c, "secrets") /\ UNCHANGED claim
         [] proc[c].answer.kind = "error" -> Exit(c) /\ UNCHANGED claim
         [] OTHER -> Exit(c) /\ claim' = NoRequest
    /\ UNCHANGED <<server, token, config, tokenFile, run, history>>

-----------------------------------------------------------------------------
(* register                                                                *)

BeginRegister(c) ==
    /\ proc[c].pc = "idle"
    /\ tokenFile
    /\ Start(c, "register", "register", NoRequest, 0)
    /\ UNCHANGED <<server, disk, run, history>>

\* The registration is refused, or issues a credential; AgentApiError ends
\* the command and keeps the token file.
Register(c) ==
    /\ proc[c].pc = "register"
    /\ \/ /\ Exit(c)
          /\ UNCHANGED <<server, history>>
       \/ /\ Issue
          /\ LET answer == [kind |-> "credential", token |-> LastIssued + 1]
             IN  \/ Received(c, "secrets", answer, answer)
                 \/ /\ Exit(c)
                    /\ lost' = lost \cup {answer.token}
                    /\ UNCHANGED <<torn, kills>>
          /\ UNCHANGED request
    /\ UNCHANGED <<disk, run>>

-----------------------------------------------------------------------------
(* Storing a credential: the secrets, then config.json, then what bought   *)
(* it goes.                                                                *)

SaveSecrets(c) ==
    /\ proc[c].pc = "secrets"
    /\ token' = proc[c].answer.token
    /\ Goto(c, "config")
    /\ UNCHANGED <<server, config, claim, tokenFile, run, history>>

\* Fault: config.json keeps the device id it has.
ConfigDeviceFirst(c) ==
    IF config # 0 THEN config ELSE DeviceOf(proc[c].answer.token)

ConfigDevice(c) == DeviceOf(proc[c].answer.token)

SaveConfig(c) ==
    /\ proc[c].pc = "config"
    /\ config' = ConfigDevice(c)
    /\ Goto(c, "finish")
    /\ UNCHANGED <<server, token, claim, tokenFile, run, history>>

\* remove_secret(claim-secret), or remove_file(token_file), which a command
\* given the token itself does not have.
Finish(c) ==
    /\ proc[c].pc = "finish"
    /\ Exit(c)
    /\ IF proc[c].op = "register"
       THEN UNCHANGED claim /\ tokenFile' \in {tokenFile, FALSE}
       ELSE UNCHANGED tokenFile /\ claim' = NoRequest
    /\ UNCHANGED <<server, token, config, run, history>>

-----------------------------------------------------------------------------
(* config, and the end of a command that does not end by itself            *)

\* persist_connection reads config.json, changes the connection and writes
\* all of it back.
BeginConfig(c) ==
    /\ proc[c].pc = "idle"
    /\ Start(c, "config", "connect", NoRequest, config)
    /\ UNCHANGED <<server, disk, run, history>>

SaveConnection(c) ==
    /\ proc[c].pc = "connect"
    /\ config' = proc[c].saved
    /\ Exit(c)
    /\ UNCHANGED <<server, token, claim, tokenFile, run, history>>

\* Killed, or ended by an exception that is not an AgentApiError.
Kill(c) ==
    /\ proc[c].pc # "idle"
    /\ kills < MaxKills
    /\ kills' = kills + 1
    /\ torn' = (torn \/ proc[c].pc = "config")
    /\ lost' = IF proc[c].pc \in {"synced", "polled", "secrets"}
                  /\ proc[c].answer.token # 0
               THEN lost \cup {proc[c].answer.token} ELSE lost
    /\ Exit(c)
    /\ UNCHANGED <<server, disk, run>>

-----------------------------------------------------------------------------
(* run: the heartbeat loop, a process of its own                           *)

RunStart ==
    /\ run = 0
    /\ config # 0 /\ token # 0
    /\ run' = token
    /\ UNCHANGED <<server, disk, proc, history>>

\* 401.  Any other answer, and a failure to connect, is retried.
Fatal == run # valid

\* A heartbeat the server answered.
RunBeat ==
    /\ run # 0
    /\ run' = IF Fatal THEN 0 ELSE run
    /\ UNCHANGED <<server, disk, proc, history>>

\* Ctrl-C, or an exception that is not an AgentApiError.
RunStop ==
    /\ run # 0
    /\ run' = 0
    /\ UNCHANGED <<server, disk, proc, history>>

-----------------------------------------------------------------------------

\* What a command does by itself once it was started.
Step(c) ==
    \/ SyncPoll(c) \/ Synced(c) \/ Submit(c) \/ StoreClaim(c)
    \/ Poll(c) \/ Wait(c) \/ Polled(c) \/ Register(c)
    \/ SaveSecrets(c) \/ SaveConfig(c) \/ Finish(c) \/ SaveConnection(c)

Begin(c) ==
    \/ \E new \in BOOLEAN : BeginRequest(c, new)
    \/ BeginClaim(c) \/ BeginRegister(c) \/ BeginConfig(c)

Operator ==
    \/ \E r \in Requests, status \in Statuses : Review(r, status)
    \/ RevokeCredential \/ DeleteDevice \/ ProvideToken

Next ==
    \/ \E c \in Commands : Begin(c) \/ Step(c) \/ Kill(c)
    \/ Operator
    \/ RunStart \/ RunBeat \/ RunStop

\* Every request of a command has a timeout and every sleep an end.
Fairness == \A c \in Commands : WF_vars(Step(c))

Spec == Init /\ [][Next]_vars /\ Fairness

-----------------------------------------------------------------------------

\* The files, the server's rows and the commands keep their types.
TypeOK ==
    /\ request \in [Requests -> Request]
    /\ device \in [row : 0 .. MaxDevice, rows : 0 .. MaxDevice]
    /\ issued \in [1 .. MaxCred -> 0 .. MaxDevice]
    /\ valid \in 0 .. MaxCred
    /\ token \in 0 .. MaxCred
    /\ config \in 0 .. MaxDevice
    /\ claim \in Requests \cup {NoRequest}
    /\ tokenFile \in BOOLEAN
    /\ proc \in [Commands -> Command]
    /\ run \in 0 .. MaxCred
    /\ lost \subseteq 1 .. MaxCred
    /\ torn \in BOOLEAN
    /\ kills \in 0 .. MaxKills

Quiet == \A c \in Commands : proc[c].pc = "idle"

\* When no command runs, the device holds the newest credential the server
\* issued it, unless the answer that carried that one was lost
\* (_persist_claimed_device, registration.py).
NewestCredentialStored ==
    Quiet /\ LastIssued \notin lost => token = LastIssued

\* The device id of config.json is that of the credential beside it, unless a
\* command died between the two writes: MQTT topics are built from the one,
\* the login from the other.
IdentityMatchesCredential ==
    Quiet /\ ~torn => config = DeviceOf(token)

\* A stored claim that can still bring a credential is given up only for a
\* new request the user asked for (cli.py, request-token --new).
ClaimGivenUpOnlyWhenOver ==
    [][claim # NoRequest /\ claim' # claim
         => \/ request[claim].status \in {"rejected", "expired"}
            \/ request[claim].claimed
            \/ \E c \in Commands : proc[c].pc = "submitted"]_vars

Secrets == INSTANCE AtomicSecrets
              WITH saved <- [f \in {"token", "ca", "mqtt"} |-> token],
                   FileSets <- {{"token", "ca", "mqtt"}},
                   MaxGen <- MaxCred

\* Whatever commands do and wherever they are killed, the stored secrets
\* change as AtomicSecrets allows: whole, and never back to an older one.
SecretsAdvance == Secrets!Spec

\* A command ends, however long nobody reviews its request and however often
\* the server tells it to slow down.
CommandEnds == \A c \in Commands : proc[c].pc # "idle" ~> proc[c].pc = "idle"

=============================================================================
