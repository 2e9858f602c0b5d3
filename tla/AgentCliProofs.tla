--------------------------- MODULE AgentCliProofs ---------------------------
(***************************************************************************)
(* Proofs about AgentCli: the types for any number of commands that run    *)
(* together, and, for commands that run one at a time, that the device     *)
(* holds its newest credential and the identity that goes with it, that a  *)
(* claim is given up when it is over, and that the stored secrets change   *)
(* as AtomicSecrets allows.                                                *)
(***************************************************************************)
EXTENDS AgentCli, TLAPS

\* The server issues credentials in order.
IssuedInOrder == \E k \in 0 .. MaxCred : Issued = 1 .. k

\* A request that is polled, or whose claim is stored, was created.
RequestsExist ==
    /\ claim # NoRequest => request[claim].status # "none"
    /\ \A c \in Commands :
           proc[c].pc \in {"sync", "poll", "polled", "submitted"} =>
               /\ proc[c].request # NoRequest
               /\ request[proc[c].request].status # "none"

\* What was given out was issued, and an answer that carries a credential says
\* so.
NothingInvented ==
    /\ token <= LastIssued
    /\ \A c \in Commands :
           /\ proc[c].answer.token <= LastIssued
           /\ proc[c].pc \in {"synced", "polled"} =>
                  (proc[c].answer.token # 0 <=> proc[c].answer.kind = "credential")

AgentInv == TypeOK /\ IssuedInOrder /\ RequestsExist /\ NothingInvented

\* A command that has received a credential and not stored it.
Carries(c) ==
    proc[c].pc \in {"synced", "polled", "secrets"} /\ proc[c].answer.token # 0

NewestHeld ==
    /\ LastIssued \in lost \/ token = LastIssued \/ \E c \in Commands : Carries(c)
    /\ \A c \in Commands :
           /\ Carries(c) => proc[c].answer.token = LastIssued /\ token < LastIssued
           /\ proc[c].pc = "secrets" => Carries(c)

\* config.json follows the token, but between the two writes.
IdentityFollows ==
    ~torn =>
        /\ (\A c \in Commands : proc[c].pc # "config") => config = DeviceOf(token)
        /\ \A c \in Commands :
               /\ proc[c].pc = "config" => token = proc[c].answer.token
               /\ proc[c].pc = "connect" => proc[c].saved = config

\* What a command knows of the request it works on.
Known(c) ==
    LET r == proc[c].request
    IN  /\ proc[c].pc \in {"sync", "synced", "poll", "polled"} =>
               r # NoRequest /\ r = claim
        /\ proc[c].pc \in {"synced", "polled"} =>
               /\ proc[c].answer.kind \in {"rejected", "expired"}
                      => request[r].status = proc[c].answer.kind
               /\ proc[c].answer.kind \in {"approved", "credential"}
                      => request[r].claimed
        /\ proc[c].pc \in {"secrets", "config", "finish"} /\ proc[c].op # "register" =>
               r # NoRequest /\ r = claim /\ request[r].claimed
        /\ proc[c].pc = "register" => proc[c].op = "register"

ClaimIsKnown == \A c \in Commands : Known(c)

SoloInv == NewestHeld /\ IdentityFollows /\ ClaimIsKnown
-----------------------------------------------------------------------------
(* The credentials issued                                                  *)

\* The greatest of the numbers up to k is k.
LEMMA GreatestOf ==
    ASSUME NEW k \in Nat, NEW S, S = 1 .. k
    PROVE  (IF S = {} THEN 0 ELSE CHOOSE n \in S : \A m \in S : m <= n) = k
<1>1. CASE k = 0
    BY <1>1
<1>2. CASE k # 0
    <2>1. k \in S /\ \A m \in S : m <= k
        BY <1>2
    <2>2. \A n \in S : (\A m \in S : m <= n) => n = k
        BY <2>1
    <2> QED
        BY <2>1, <2>2
<1> QED
    BY <1>1, <1>2

\* The credentials issued are those up to the last one.
LEMMA LastIssuedBounds ==
    ASSUME IssuedInOrder
    PROVE  LastIssued \in 0 .. MaxCred /\ Issued = 1 .. LastIssued
<1>1. PICK k \in 0 .. MaxCred : Issued = 1 .. k
    BY DEF IssuedInOrder
<1>2. k \in Nat
    BY AgentCliAssumption
<1>3. LastIssued = k
    BY <1>1, <1>2, GreatestOf DEF LastIssued
<1> QED
    BY <1>1, <1>3

\* Who issues nothing leaves the last credential what it is.
LEMMA LastIssuedKept ==
    ASSUME IssuedInOrder, issued' = issued
    PROVE  IssuedInOrder' /\ LastIssued' = LastIssued
BY DEF IssuedInOrder, Issued, LastIssued

\* Issuing adds one credential, of the machine's device, and leaves the others
\* as they were.
LEMMA IssueAddsOne ==
    ASSUME TypeOK, IssuedInOrder, Issue
    PROVE  /\ IssuedInOrder'
           /\ LastIssued' = LastIssued + 1 /\ LastIssued' \in 1 .. MaxCred
           /\ \A n \in 1 .. LastIssued : issued'[n] = issued[n]
           /\ device' \in [row : 0 .. MaxDevice, rows : 0 .. MaxDevice]
           /\ issued' \in [1 .. MaxCred -> 0 .. MaxDevice]
           /\ valid' \in 0 .. MaxCred
<1>1. LastIssued \in 0 .. MaxCred /\ Issued = 1 .. LastIssued /\ LastIssued < MaxCred
    BY LastIssuedBounds DEF Issue
<1>2. /\ device' \in [row : 0 .. MaxDevice, rows : 0 .. MaxDevice]
      /\ device'.row \in 1 .. MaxDevice
    <2>1. /\ device.row \in 0 .. MaxDevice /\ device.rows \in 0 .. MaxDevice
          /\ device \in [row : 0 .. MaxDevice, rows : 0 .. MaxDevice]
        BY DEF TypeOK
    <2>2. CASE device.row # 0
        BY <2>1, <2>2, AgentCliAssumption DEF Issue
    <2>3. CASE device.row = 0
        <3>1. device.rows + 1 \in 1 .. MaxDevice
            BY <2>1, <2>3, AgentCliAssumption DEF Issue
        <3>2. device' = [row |-> device.rows + 1, rows |-> device.rows + 1]
            BY <2>3 DEF Issue
        <3> QED
            BY <3>1, <3>2
    <2> QED
        BY <2>2, <2>3
<1>3. /\ issued' = [issued EXCEPT ![LastIssued + 1] = device'.row]
      /\ LastIssued + 1 \in 1 .. MaxCred
      /\ issued \in [1 .. MaxCred -> 0 .. MaxDevice]
    BY <1>1, AgentCliAssumption DEF Issue, TypeOK
<1>4. /\ issued' \in [1 .. MaxCred -> 0 .. MaxDevice]
      /\ \A n \in 1 .. MaxCred : issued'[n] = IF n = LastIssued + 1 THEN device'.row
                                              ELSE issued[n]
    BY <1>2, <1>3
<1>5. Issued' = 1 .. LastIssued + 1
    <2>1. Issued' = {n \in 1 .. MaxCred : issued'[n] # 0}
        BY DEF Issued
    <2>2. Issued = {n \in 1 .. MaxCred : issued[n] # 0}
        BY DEF Issued
    <2>3. ASSUME NEW n \in 1 .. MaxCred
          PROVE  issued'[n] # 0 <=> n <= LastIssued + 1
        BY <1>1, <1>2, <1>4, <2>2
    <2> QED
        BY <1>1, <1>3, <2>1, <2>3, AgentCliAssumption
<1>6. LastIssued' = LastIssued + 1
    <2> DEFINE k == LastIssued + 1
    <2>1. k \in Nat /\ Issued' = 1 .. k
        BY <1>1, <1>5, AgentCliAssumption
    <2> HIDE DEF k
    <2>2. LastIssued' = k
        BY <2>1, GreatestOf DEF LastIssued
    <2> QED
        BY <2>2 DEF k
<1>7. IssuedInOrder'
    BY <1>3, <1>5, AgentCliAssumption DEF IssuedInOrder
<1>8. valid' \in 0 .. MaxCred
    BY <1>3 DEF Issue
<1> QED
    BY <1>1, <1>2, <1>3, <1>4, <1>6, <1>7, <1>8, AgentCliAssumption
-----------------------------------------------------------------------------
(* How a command moves                                                     *)

Points == {"idle", "sync", "synced", "submit", "submitted", "poll", "polled",
           "register", "secrets", "config", "finish", "connect"}

OthersStay(c) == \A d \in Commands : d # c => proc'[d] = proc[d]

\* What a command is before it begins has the type of a command.
LEMMA IdleIsACommand == Idle \in Command
BY AgentCliAssumption DEF Idle, Command, Failed, Answer, Kinds, Statuses

\* Goto moves one command and no other.
LEMMA GotoMoves ==
    ASSUME NEW c \in Commands, NEW pc \in Points,
           proc \in [Commands -> Command], Goto(c, pc)
    PROVE  /\ proc' \in [Commands -> Command]
           /\ proc'[c] = [proc[c] EXCEPT !.pc = pc]
           /\ OthersStay(c)
<1> DEFINE moved == [proc[c] EXCEPT !.pc = pc]
<1>1. moved \in Command
    <2>1. proc[c] \in Command
        OBVIOUS
    <2> QED
        BY <2>1 DEF Command, Points
<1>2. proc' = [proc EXCEPT ![c] = moved]
    BY DEF Goto
<1> HIDE DEF moved
<1>3. proc' \in [Commands -> Command] /\ proc'[c] = moved /\ OthersStay(c)
    BY <1>1, <1>2 DEF OthersStay
<1> QED
    BY <1>3 DEF moved

\* Exit ends one command and no other.
LEMMA ExitMoves ==
    ASSUME NEW c \in Commands, proc \in [Commands -> Command], Exit(c)
    PROVE  /\ proc' \in [Commands -> Command]
           /\ proc'[c] = Idle
           /\ OthersStay(c)
BY IdleIsACommand DEF Exit, OthersStay

\* An answer of the server, or its failure, goes to the command that asked.
LEMMA ReceivedMoves ==
    ASSUME NEW c \in Commands, NEW pc \in Points, NEW answer \in Answer,
           NEW sent \in Answer,
           proc \in [Commands -> Command], lost \subseteq 1 .. MaxCred,
           Received(c, pc, answer, sent)
    PROVE  /\ proc' \in [Commands -> Command]
           /\ proc'[c].pc = pc /\ proc'[c].answer = answer
           /\ proc'[c].op = proc[c].op /\ proc'[c].request = proc[c].request
           /\ proc'[c].saved = proc[c].saved
           /\ OthersStay(c)
           /\ UNCHANGED <<torn, kills>>
           /\ lost' \subseteq 1 .. MaxCred
           /\ lost \subseteq lost'
           /\ answer # sent /\ sent.token # 0 => sent.token \in lost'
<1> DEFINE at == [proc[c] EXCEPT !.pc = pc]
           moved == [at EXCEPT !.answer = answer]
<1>1. at \in Command /\ at.pc = pc /\ at.op = proc[c].op
      /\ at.request = proc[c].request /\ at.saved = proc[c].saved
    <2>1. proc[c] \in Command
        OBVIOUS
    <2> QED
        BY <2>1 DEF Command, Points
<1>2. /\ moved \in Command /\ moved.pc = pc /\ moved.answer = answer
      /\ moved.op = proc[c].op /\ moved.request = proc[c].request
      /\ moved.saved = proc[c].saved
    <2> HIDE DEF at
    <2> QED
        BY <1>1 DEF Command
<1>3. proc' = [proc EXCEPT ![c] = moved]
    BY DEF Received
<1> HIDE DEF moved, at
<1>4. proc' \in [Commands -> Command] /\ proc'[c] = moved /\ OthersStay(c)
    BY <1>2, <1>3 DEF OthersStay
<1>5. sent.token \in 0 .. MaxCred
    BY DEF Answer
<1>6. /\ lost' \subseteq 1 .. MaxCred
      /\ lost \subseteq lost'
      /\ answer # sent /\ sent.token # 0 => sent.token \in lost'
    BY <1>5, AgentCliAssumption DEF Received
<1> QED
    BY <1>2, <1>4, <1>6 DEF Received
-----------------------------------------------------------------------------
(* What a poll brings, to the server and to the command                    *)

\* The server knows what it knew, and the answer is true: a credential is the
\* one that was just issued, an end is the end of the request.
PollOutcome(c, pc) ==
    /\ proc' \in [Commands -> Command]
    /\ proc'[c].pc = pc
    /\ proc'[c].op = proc[c].op
    /\ proc'[c].request = proc[c].request
    /\ proc'[c].saved = proc[c].saved
    /\ OthersStay(c)
    /\ UNCHANGED <<torn, kills>>
    /\ lost' \subseteq 1 .. MaxCred /\ lost \subseteq lost'
    /\ request' \in [Requests -> Request]
    /\ \A q \in Requests : /\ request'[q].status = request[q].status
                           /\ request[q].claimed => request'[q].claimed
    /\ device' \in [row : 0 .. MaxDevice, rows : 0 .. MaxDevice]
    /\ issued' \in [1 .. MaxCred -> 0 .. MaxDevice]
    /\ valid' \in 0 .. MaxCred
    /\ IssuedInOrder'
    /\ \A n \in 1 .. LastIssued : issued'[n] = issued[n]
    /\ \/ LastIssued' = LastIssued /\ proc'[c].answer.token = 0
       \/ /\ LastIssued' = LastIssued + 1
          /\ \/ proc'[c].answer.token = LastIssued'
             \/ proc'[c].answer.token = 0 /\ LastIssued' \in lost'
    /\ proc'[c].answer.token # 0 <=> proc'[c].answer.kind = "credential"
    /\ proc'[c].answer.kind \in {"rejected", "expired"} =>
           request'[proc[c].request].status = proc'[c].answer.kind
    /\ proc'[c].answer.kind \in {"approved", "credential"} =>
           request'[proc[c].request].claimed

\* The two answers that carry no credential.
LEMMA FailuresAreAnswers ==
    /\ Failed \in Answer /\ Failed.token = 0 /\ Failed.kind = "error"
    /\ Limited \in Answer /\ Limited.token = 0 /\ Limited.kind = "limited"
BY AgentCliAssumption DEF Failed, Limited, Answer, Kinds, Statuses

\* A poll brings an answer that says what the server did, or a failure.
LEMMA PollBrings ==
    ASSUME AgentInv, NEW c \in Commands, NEW pc \in {"synced", "polled"},
           proc[c].pc \in {"sync", "poll"}, EnrollPoll(c, pc)
    PROVE  PollOutcome(c, pc)
<1> USE DEF AgentInv
<1> DEFINE r == proc[c].request
<1>1. /\ proc \in [Commands -> Command] /\ lost \subseteq 1 .. MaxCred
      /\ request \in [Requests -> Request]
      /\ device \in [row : 0 .. MaxDevice, rows : 0 .. MaxDevice]
      /\ issued \in [1 .. MaxCred -> 0 .. MaxDevice]
      /\ valid \in 0 .. MaxCred
      /\ pc \in Points
    BY DEF TypeOK, Points
<1>2. r \in Requests /\ request[r] \in Request /\ request[r].status # "none"
    <2>1. proc[c] \in Command
        BY <1>1
    <2> QED
        BY <1>1, <2>1 DEF RequestsExist, Command
<1>3. LastIssued \in 0 .. MaxCred
    BY LastIssuedBounds
<1>4. ASSUME Claimable(r), Issue, request' = [request EXCEPT ![r].claimed = TRUE],
             NEW answer \in {PollAnswer(r), Failed},
             Received(c, pc, answer, PollAnswer(r))
      PROVE  PollOutcome(c, pc)
    <2> DEFINE sent == [kind |-> "credential", token |-> LastIssued + 1]
    <2>1. /\ IssuedInOrder'
          /\ LastIssued' = LastIssued + 1 /\ LastIssued' \in 1 .. MaxCred
          /\ \A n \in 1 .. LastIssued : issued'[n] = issued[n]
          /\ device' \in [row : 0 .. MaxDevice, rows : 0 .. MaxDevice]
          /\ issued' \in [1 .. MaxCred -> 0 .. MaxDevice]
          /\ valid' \in 0 .. MaxCred
        BY <1>4, IssueAddsOne
    <2>2. PollAnswer(r) = sent /\ sent \in Answer
          /\ sent.kind = "credential" /\ sent.token = LastIssued + 1
        BY <1>3, <1>4, <2>1 DEF PollAnswer, Answer, Kinds
    <2> HIDE DEF sent
    <2>3. answer \in Answer /\ Received(c, pc, answer, sent)
        BY <1>4, <2>2, FailuresAreAnswers
    <2>4. /\ proc' \in [Commands -> Command]
          /\ proc'[c].pc = pc /\ proc'[c].answer = answer
          /\ proc'[c].op = proc[c].op /\ proc'[c].request = proc[c].request
          /\ proc'[c].saved = proc[c].saved
          /\ OthersStay(c)
          /\ UNCHANGED <<torn, kills>>
          /\ lost' \subseteq 1 .. MaxCred
          /\ lost \subseteq lost'
          /\ answer # sent /\ sent.token # 0 => sent.token \in lost'
        BY <1>1, <2>2, <2>3, ReceivedMoves
    <2>5. /\ request' \in [Requests -> Request]
          /\ \A q \in Requests : /\ request'[q].status = request[q].status
                                 /\ request[q].claimed => request'[q].claimed
          /\ request'[r].claimed
        BY <1>1, <1>2, <1>4 DEF Request
    <2>6. \/ answer.token = LastIssued' /\ answer.kind = "credential"
          \/ answer.token = 0 /\ LastIssued' \in lost' /\ answer.kind = "error"
        BY <1>3, <1>4, <2>1, <2>2, <2>4, FailuresAreAnswers
    <2> QED
        BY <1>3, <2>1, <2>4, <2>5, <2>6 DEF PollOutcome
<1>5. ASSUME UNCHANGED server, NEW answer \in Answer, NEW sent \in Answer,
             sent.token = 0, answer.token = 0, answer.kind # "credential",
             answer.kind \in {"approved", "rejected", "expired"} =>
                 answer.kind = request[r].status /\ ~Claimable(r),
             Received(c, pc, answer, sent)
      PROVE  PollOutcome(c, pc)
    <2>1. UNCHANGED <<request, device, issued, valid>>
        BY <1>5 DEF server
    <2>2. IssuedInOrder' /\ LastIssued' = LastIssued
        BY <2>1, LastIssuedKept
    <2>3. /\ proc' \in [Commands -> Command]
          /\ proc'[c].pc = pc /\ proc'[c].answer = answer
          /\ proc'[c].op = proc[c].op /\ proc'[c].request = proc[c].request
          /\ proc'[c].saved = proc[c].saved
          /\ OthersStay(c)
          /\ UNCHANGED <<torn, kills>>
          /\ lost' \subseteq 1 .. MaxCred
          /\ lost \subseteq lost'
        BY <1>1, <1>5, ReceivedMoves
    <2>4. answer.kind = "approved" => request[r].claimed
        BY <1>2, <1>5 DEF Claimable, Request
    <2> QED
        BY <1>1, <1>5, <2>1, <2>2, <2>3, <2>4 DEF PollOutcome
<1>6. CASE /\ ServePoll(r)
           /\ \E answer \in {PollAnswer(r), Failed} :
                  Received(c, pc, answer, PollAnswer(r))
    <2>1. PICK answer \in {PollAnswer(r), Failed} :
                  Received(c, pc, answer, PollAnswer(r))
        BY <1>6
    <2>2. CASE Claimable(r)
        BY <1>4, <1>6, <2>1, <2>2 DEF ServePoll
    <2>3. CASE ~Claimable(r)
        <3> DEFINE sent == [kind |-> request[r].status, token |-> 0]
        <3>1. /\ PollAnswer(r) = sent /\ sent \in Answer
              /\ sent.kind = request[r].status /\ sent.token = 0
              /\ sent.kind # "credential"
            BY <1>2, <2>3, AgentCliAssumption
               DEF PollAnswer, Answer, Kinds, Request, Statuses
        <3> HIDE DEF sent
        <3> QED
            BY <1>5, <1>6, <2>1, <2>3, <3>1, FailuresAreAnswers DEF ServePoll
    <2> QED
        BY <2>2, <2>3
<1>7. CASE /\ \E answer \in {Failed, Limited} : Received(c, pc, answer, Failed)
           /\ UNCHANGED server
    BY <1>5, <1>7, FailuresAreAnswers
<1> QED
    BY <1>6, <1>7 DEF EnrollPoll
-----------------------------------------------------------------------------
(* The types, and what holds of the server and its clients, for any number *)
(* of commands                                                             *)

\* Start begins one command and no other.
LEMMA BeginMoves ==
    ASSUME NEW c \in Commands, NEW pc \in Points,
           NEW op \in {"request-token", "claim", "register", "config"},
           NEW r \in Requests \cup {NoRequest}, NEW s \in 0 .. MaxDevice,
           proc \in [Commands -> Command],
           Start(c, op, pc, r, s)
    PROVE  /\ proc' \in [Commands -> Command]
           /\ proc'[c].pc = pc /\ proc'[c].op = op /\ proc'[c].request = r
           /\ proc'[c].answer = Failed /\ proc'[c].saved = s
           /\ OthersStay(c)
<1> DEFINE moved == [pc |-> pc, op |-> op, request |-> r,
                     answer |-> Failed, polls |-> 0, saved |-> s]
<1>1. moved \in Command
    <2>1. Failed \in Answer /\ 0 \in 0 .. MaxPolls - 1
        BY FailuresAreAnswers, AgentCliAssumption
    <2> QED
        BY <2>1 DEF Command, Points
<1>2. /\ moved.pc = pc /\ moved.op = op /\ moved.request = r
      /\ moved.answer = Failed /\ moved.saved = s
    OBVIOUS
<1>3. proc' = [proc EXCEPT ![c] = moved]
    BY DEF Start
<1> HIDE DEF moved
<1>4. proc' \in [Commands -> Command] /\ proc'[c] = moved /\ OthersStay(c)
    BY <1>1, <1>3 DEF OthersStay
<1> QED
    BY <1>2, <1>4 DEF moved

\* What AgentInv asks of one command.
Sound(c) ==
    /\ proc[c].pc \in {"sync", "poll", "polled", "submitted"} =>
           /\ proc[c].request # NoRequest
           /\ request[proc[c].request].status # "none"
    /\ proc[c].answer.token <= LastIssued
    /\ proc[c].pc \in {"synced", "polled"} =>
           (proc[c].answer.token # 0 <=> proc[c].answer.kind = "credential")

\* A step of one command that issues nothing keeps AgentInv when what it
\* leaves behind is sound.
LEMMA StepKeeps ==
    ASSUME AgentInv, NEW c \in Commands,
           UNCHANGED <<device, issued, valid>>,
           request' \in [Requests -> Request],
           \A q \in Requests : request[q].status # "none" => request'[q].status # "none",
           proc' \in [Commands -> Command], OthersStay(c), Sound(c)',
           token' \in 0 .. MaxCred, token' <= LastIssued,
           config' \in 0 .. MaxDevice, tokenFile' \in BOOLEAN,
           claim' \in Requests \cup {NoRequest},
           claim' # NoRequest => request'[claim'].status # "none",
           run' \in 0 .. MaxCred,
           lost' \subseteq 1 .. MaxCred, torn' \in BOOLEAN, kills' \in 0 .. MaxKills
    PROVE  AgentInv'
<1>1. IssuedInOrder' /\ LastIssued' = LastIssued
    BY LastIssuedKept DEF AgentInv
<1>2. TypeOK'
    BY DEF AgentInv, TypeOK
<1>3. RequestsExist'
    <2>1. ASSUME NEW d \in Commands, proc'[d].pc \in {"sync", "poll", "polled", "submitted"}
          PROVE  /\ proc'[d].request # NoRequest
                 /\ request'[proc'[d].request].status # "none"
        <3>1. CASE d = c
            BY <2>1, <3>1 DEF Sound
        <3>2. CASE d # c
            <4>1. proc'[d] = proc[d] /\ proc[d] \in Command
                BY <3>2 DEF OthersStay, AgentInv, TypeOK
            <4> QED
                BY <2>1, <4>1 DEF AgentInv, RequestsExist, Command
        <3> QED
            BY <3>1, <3>2
    <2> QED
        BY <2>1 DEF RequestsExist
<1>4. NothingInvented'
    BY <1>1 DEF Sound, OthersStay, AgentInv, NothingInvented
<1> QED
    BY <1>1, <1>2, <1>3, <1>4 DEF AgentInv

\* The facts about a command and the disk that the steps below start from.
LEMMA AgentFacts ==
    ASSUME AgentInv, NEW c \in Commands
    PROVE  /\ proc \in [Commands -> Command] /\ proc[c] \in Command
           /\ proc[c].request \in Requests \cup {NoRequest}
           /\ proc[c].answer.token \in 0 .. MaxCred
           /\ proc[c].saved \in 0 .. MaxDevice
           /\ request \in [Requests -> Request]
           /\ claim \in Requests \cup {NoRequest}
           /\ claim # NoRequest => request[claim].status # "none"
           /\ token \in 0 .. MaxCred /\ token <= LastIssued
           /\ config \in 0 .. MaxDevice /\ tokenFile \in BOOLEAN /\ run \in 0 .. MaxCred
           /\ lost \subseteq 1 .. MaxCred /\ torn \in BOOLEAN /\ kills \in 0 .. MaxKills
           /\ LastIssued \in 0 .. MaxCred
           /\ Sound(c)
<1>1. TypeOK /\ RequestsExist /\ NothingInvented /\ IssuedInOrder
    BY DEF AgentInv
<1>2. proc \in [Commands -> Command] /\ proc[c] \in Command
    BY <1>1 DEF TypeOK
<1>3. /\ proc[c].request \in Requests \cup {NoRequest}
      /\ proc[c].answer.token \in 0 .. MaxCred
      /\ proc[c].saved \in 0 .. MaxDevice
    BY <1>2 DEF Command, Answer
<1>4. Sound(c)
    BY <1>1 DEF RequestsExist, NothingInvented, Sound
<1> QED
    BY <1>1, <1>2, <1>3, <1>4, LastIssuedBounds DEF TypeOK, RequestsExist, NothingInvented

\* The device of a credential is one of the server's, or none.
LEMMA DeviceOfIsADevice ==
    ASSUME AgentInv, NEW n \in 0 .. MaxCred
    PROVE  DeviceOf(n) \in 0 .. MaxDevice
<1>1. issued \in [1 .. MaxCred -> 0 .. MaxDevice] /\ 0 \in 0 .. MaxDevice
    BY AgentCliAssumption DEF AgentInv, TypeOK
<1>2. n # 0 => n \in 1 .. MaxCred
    BY AgentCliAssumption
<1> QED
    BY <1>1, <1>2 DEF DeviceOf

\* A command that begins keeps the invariant.
LEMMA BeginStep ==
    ASSUME AgentInv, NEW c \in Commands, Begin(c)
    PROVE  AgentInv'
<1> USE DEF server, disk, history
<1>1. /\ claim \in Requests \cup {NoRequest} /\ config \in 0 .. MaxDevice
      /\ proc \in [Commands -> Command]
      /\ 0 \in 0 .. MaxDevice /\ Failed.token = 0 /\ LastIssued \in 0 .. MaxCred
    BY AgentFacts, FailuresAreAnswers, AgentCliAssumption
<1>2. ASSUME NEW pc \in Points \ {"submitted", "synced", "polled"},
             NEW op \in {"request-token", "claim", "register", "config"},
             NEW r \in Requests \cup {NoRequest}, NEW s \in 0 .. MaxDevice,
             pc \in {"sync", "poll"} => r = claim /\ claim # NoRequest,
             Start(c, op, pc, r, s), UNCHANGED <<server, disk, run, history>>
      PROVE  AgentInv'
    <2>1. /\ proc' \in [Commands -> Command] /\ OthersStay(c)
          /\ proc'[c].pc = pc /\ proc'[c].request = r /\ proc'[c].answer = Failed
        BY <1>1, <1>2, BeginMoves
    <2>2. claim # NoRequest => request[claim].status # "none"
        BY AgentFacts
    <2>3. LastIssued' = LastIssued
        BY <1>2, LastIssuedKept DEF AgentInv
    <2>4. Sound(c)'
        BY <1>1, <1>2, <2>1, <2>2, <2>3 DEF Sound
    <2> QED
        BY <1>2, <2>1, <2>4, AgentFacts, StepKeeps
<1>3. CASE \E new \in BOOLEAN : BeginRequest(c, new)
    <2>1. /\ UNCHANGED <<server, disk, run, history>>
          /\ \/ Start(c, "request-token", "sync", claim, 0) /\ claim # NoRequest
             \/ Start(c, "request-token", "submit", claim, 0)
        BY <1>3 DEF BeginRequest
    <2> QED
        BY <1>1, <1>2, <2>1 DEF Points
<1>4. CASE BeginClaim(c)
    BY <1>1, <1>2, <1>4 DEF BeginClaim, Points
<1>5. CASE BeginRegister(c)
    BY <1>1, <1>2, <1>5 DEF BeginRegister, Points
<1>6. CASE BeginConfig(c)
    BY <1>1, <1>2, <1>6 DEF BeginConfig, Points
<1> QED
    BY <1>3, <1>4, <1>5, <1>6 DEF Begin

\* A poll, of a command that waits or of one that looks at a stored claim.
LEMMA PollStep ==
    ASSUME AgentInv, NEW c \in Commands, NEW pc \in {"synced", "polled"},
           proc[c].pc \in {"sync", "poll"},
           PollOutcome(c, pc), UNCHANGED <<disk, run>>
    PROVE  AgentInv'
<1>1. /\ \A q \in Requests : request'[q].status = request[q].status
      /\ proc' \in [Commands -> Command] /\ OthersStay(c)
      /\ proc'[c].pc = pc
      /\ proc'[c].answer.token # 0 <=> proc'[c].answer.kind = "credential"
      /\ LastIssued' \in {LastIssued, LastIssued + 1}
      /\ proc'[c].answer.token \in {0, LastIssued'}
    BY DEF PollOutcome
<1>2. UNCHANGED <<token, config, claim, tokenFile, run>>
    BY DEF disk
<1>3. LastIssued \in 0 .. MaxCred /\ LastIssued \in Nat /\ LastIssued' \in Nat
    BY <1>1, LastIssuedBounds, AgentCliAssumption DEF AgentInv
<1>4. TypeOK'
    BY <1>2 DEF AgentInv, TypeOK, PollOutcome
<1>5. IssuedInOrder'
    BY DEF PollOutcome
<1>6. RequestsExist'
    <2>1. claim' # NoRequest => request'[claim'].status # "none"
        BY <1>1, <1>2 DEF AgentInv, TypeOK, RequestsExist
    <2>2. ASSUME NEW d \in Commands, proc'[d].pc \in {"sync", "poll", "polled", "submitted"}
          PROVE  /\ proc'[d].request # NoRequest
                 /\ request'[proc'[d].request].status # "none"
        <3>1. proc[d] \in Command
            BY DEF AgentInv, TypeOK
        <3>2. /\ proc[d].request # NoRequest
              /\ request[proc[d].request].status # "none"
              /\ proc'[d].request = proc[d].request
            BY <1>1, <2>2 DEF OthersStay, PollOutcome, AgentInv, RequestsExist
        <3> QED
            BY <1>1, <2>2, <3>1, <3>2 DEF Command
    <2> QED
        BY <2>1, <2>2 DEF RequestsExist
<1>7. NothingInvented'
    <2>1. token' <= LastIssued'
        BY <1>1, <1>2, <1>3, AgentCliAssumption DEF AgentInv, TypeOK, NothingInvented
    <2>2. ASSUME NEW d \in Commands
          PROVE  /\ proc'[d].answer.token <= LastIssued'
                 /\ proc'[d].pc \in {"synced", "polled"} =>
                        (proc'[d].answer.token # 0 <=> proc'[d].answer.kind = "credential")
        <3>1. CASE d = c
            BY <1>1, <1>3, <3>1
        <3>2. CASE d # c
            <4>1. proc'[d] = proc[d] /\ proc[d].answer.token \in 0 .. MaxCred
                BY <1>1, <3>2, AgentFacts DEF OthersStay
            <4>2. /\ proc[d].answer.token <= LastIssued
                  /\ proc[d].pc \in {"synced", "polled"} =>
                         (proc[d].answer.token # 0 <=> proc[d].answer.kind = "credential")
                BY DEF AgentInv, NothingInvented
            <4> QED
                BY <1>1, <1>3, <4>1, <4>2, AgentCliAssumption
        <3> QED
            BY <3>1, <3>2
    <2> QED
        BY <2>1, <2>2 DEF NothingInvented
<1> QED
    BY <1>4, <1>5, <1>6, <1>7 DEF AgentInv

\* The requests are there to be read: a command's next step changes the
\* server only where it submits, registers or polls.
LEMMA ClientStep ==
    ASSUME AgentInv, NEW c \in Commands,
           \/ Synced(c) \/ StoreClaim(c) \/ Wait(c) \/ Polled(c)
           \/ SaveSecrets(c) \/ SaveConfig(c) \/ Finish(c) \/ SaveConnection(c)
           \/ Kill(c)
    PROVE  AgentInv'
<1> USE DEF server, disk, history
<1>1. /\ proc \in [Commands -> Command] /\ proc[c] \in Command
      /\ proc[c].request \in Requests \cup {NoRequest}
      /\ proc[c].answer.token \in 0 .. MaxCred
      /\ proc[c].saved \in 0 .. MaxDevice
      /\ request \in [Requests -> Request]
      /\ claim \in Requests \cup {NoRequest}
      /\ claim # NoRequest => request[claim].status # "none"
      /\ token \in 0 .. MaxCred /\ token <= LastIssued
      /\ config \in 0 .. MaxDevice /\ tokenFile \in BOOLEAN /\ run \in 0 .. MaxCred
      /\ lost \subseteq 1 .. MaxCred /\ torn \in BOOLEAN /\ kills \in 0 .. MaxKills
      /\ LastIssued \in 0 .. MaxCred
      /\ Sound(c)
    BY AgentFacts
<1>2. /\ Idle.pc = "idle" /\ Idle.answer.token = 0 /\ Idle.request = NoRequest
    BY FailuresAreAnswers DEF Idle
<1>3. UNCHANGED server /\ LastIssued' = LastIssued
    <2>1. UNCHANGED server
        BY DEF Synced, StoreClaim, Wait, Polled, SaveSecrets, SaveConfig, Finish,
               SaveConnection, Kill
    <2> QED
        BY <2>1, LastIssuedKept DEF AgentInv
<1>4. ASSUME Exit(c)
      PROVE  /\ proc' \in [Commands -> Command] /\ OthersStay(c) /\ Sound(c)'
    <2>1. /\ proc' \in [Commands -> Command] /\ OthersStay(c) /\ proc'[c] = Idle
        BY <1>1, <1>4, ExitMoves
    <2> QED
        BY <1>1, <1>2, <1>3, <2>1 DEF Sound
<1>5. ASSUME NEW pc \in Points \ {"synced", "polled"}, Goto(c, pc),
             pc \in {"sync", "poll", "polled", "submitted"} => proc[c].pc = "submitted"
      PROVE  /\ proc' \in [Commands -> Command] /\ OthersStay(c) /\ Sound(c)'
    <2>1. /\ proc' \in [Commands -> Command] /\ OthersStay(c)
          /\ proc'[c] = [proc[c] EXCEPT !.pc = pc]
        BY <1>1, <1>5, GotoMoves
    <2>2. /\ proc'[c].pc = pc /\ proc'[c].request = proc[c].request
          /\ proc'[c].answer = proc[c].answer
        BY <1>1, <2>1 DEF Command
    <2> QED
        BY <1>1, <1>3, <1>5, <2>1, <2>2 DEF Sound
<1>6. ASSUME proc' \in [Commands -> Command], OthersStay(c), Sound(c)',
             token' \in {token, proc[c].answer.token},
             config' \in 0 .. MaxDevice, tokenFile' \in BOOLEAN,
             claim' \in {claim, NoRequest, proc[c].request},
             claim' = proc[c].request => proc[c].pc = "submitted" \/ claim' \in {claim, NoRequest},
             run' = run, lost' \subseteq 1 .. MaxCred, torn' \in BOOLEAN,
             kills' \in 0 .. MaxKills
      PROVE  AgentInv'
    <2>1. /\ token' \in 0 .. MaxCred /\ token' <= LastIssued
          /\ claim' \in Requests \cup {NoRequest}
          /\ claim' # NoRequest => request'[claim'].status # "none"
        BY <1>1, <1>3, <1>6 DEF Sound
    <2> QED
        BY <1>1, <1>3, <1>6, <2>1, StepKeeps
<1>7. CASE Synced(c)
    <2>1. /\ UNCHANGED <<server, token, config, tokenFile, run, history>>
          /\ \/ Goto(c, "submit") /\ claim' = NoRequest
             \/ Goto(c, "secrets") /\ UNCHANGED claim
             \/ Exit(c) /\ UNCHANGED claim
        BY <1>7 DEF Synced, EndsClaim, SyncStores
    <2>2. proc' \in [Commands -> Command] /\ OthersStay(c) /\ Sound(c)'
        BY <1>4, <1>5, <2>1 DEF Points
    <2> QED
        BY <1>1, <1>6, <2>1, <2>2
<1>8. CASE StoreClaim(c)
    <2>1. proc' \in [Commands -> Command] /\ OthersStay(c) /\ Sound(c)'
        BY <1>4, <1>5, <1>8 DEF StoreClaim, Points
    <2> QED
        BY <1>1, <1>6, <1>8, <2>1 DEF StoreClaim
<1>9. CASE Wait(c)
    <2>1. /\ UNCHANGED <<server, disk, run, history>>
          /\ proc' \in [Commands -> Command] /\ OthersStay(c) /\ Sound(c)'
        <3>1. CASE Exit(c)
            BY <1>4, <1>9, <3>1 DEF Wait
        <3>2. CASE ~Exit(c)
            <4> DEFINE at == [proc[c] EXCEPT !.pc = "poll"]
                       asked == [at EXCEPT !.answer = Failed]
                       moved == [asked EXCEPT !.polls = Counted(c)]
            <4>1. /\ proc' = [proc EXCEPT ![c] = moved] /\ ~CapReached(c)
                  /\ proc[c].pc = "polled"
                BY <1>9, <3>2 DEF Wait
            <4>2. Counted(c) \in 0 .. MaxPolls - 1
                <5>1. proc[c].polls \in 0 .. MaxPolls - 1
                    BY <1>1 DEF Command
                <5> QED
                    BY <4>1, <5>1, AgentCliAssumption DEF CapReached, Counted
            <4>3. at \in Command /\ at.pc = "poll" /\ at.request = proc[c].request
                BY <1>1 DEF Command
            <4>4. /\ asked \in Command /\ asked.pc = "poll"
                  /\ asked.request = proc[c].request /\ asked.answer = Failed
                <5> HIDE DEF at
                <5> QED
                    BY <4>3, FailuresAreAnswers DEF Command
            <4>5. /\ moved \in Command /\ moved.pc = "poll"
                  /\ moved.request = proc[c].request /\ moved.answer = Failed
                <5> HIDE DEF asked
                <5> QED
                    BY <4>2, <4>4 DEF Command
            <4> HIDE DEF moved
            <4>6. proc' \in [Commands -> Command] /\ OthersStay(c) /\ proc'[c] = moved
                BY <1>1, <4>1, <4>5 DEF OthersStay
            <4>7. proc[c].request # NoRequest /\ request[proc[c].request].status # "none"
                BY <1>1, <4>1 DEF Sound
            <4> QED
                BY <1>1, <1>2, <1>3, <1>9, <4>5, <4>6, <4>7, FailuresAreAnswers DEF Sound, Wait
        <3> QED
            BY <3>1, <3>2
    <2> QED
        BY <1>1, <1>6, <2>1
<1>10. CASE Polled(c)
    <2>1. /\ UNCHANGED <<server, token, config, tokenFile, run, history>>
          /\ \/ Goto(c, "secrets") /\ UNCHANGED claim
             \/ Exit(c) /\ claim' \in {claim, NoRequest}
        BY <1>10 DEF Polled, StoredAnswers
    <2>2. proc' \in [Commands -> Command] /\ OthersStay(c) /\ Sound(c)'
        BY <1>4, <1>5, <2>1 DEF Points
    <2> QED
        BY <1>1, <1>6, <2>1, <2>2
<1>11. CASE SaveSecrets(c)
    <2>1. proc' \in [Commands -> Command] /\ OthersStay(c) /\ Sound(c)'
        BY <1>5, <1>11 DEF SaveSecrets, Points
    <2> QED
        BY <1>1, <1>6, <1>11, <2>1 DEF SaveSecrets
<1>12. CASE SaveConfig(c)
    <2>1. proc' \in [Commands -> Command] /\ OthersStay(c) /\ Sound(c)'
        BY <1>5, <1>12 DEF SaveConfig, Points
    <2>2. ConfigDevice(c) \in 0 .. MaxDevice
        BY <1>1, DeviceOfIsADevice DEF ConfigDevice
    <2> QED
        BY <1>1, <1>6, <1>12, <2>1, <2>2 DEF SaveConfig
<1>13. CASE Finish(c)
    <2>1. proc' \in [Commands -> Command] /\ OthersStay(c) /\ Sound(c)'
        BY <1>4, <1>13 DEF Finish
    <2>2. /\ UNCHANGED <<server, token, config, run, history>>
          /\ claim' \in {claim, NoRequest} /\ tokenFile' \in BOOLEAN
        BY <1>1, <1>13 DEF Finish
    <2> QED
        BY <1>1, <1>6, <2>1, <2>2
<1>14. CASE SaveConnection(c)
    <2>1. proc' \in [Commands -> Command] /\ OthersStay(c) /\ Sound(c)'
        BY <1>4, <1>14 DEF SaveConnection
    <2> QED
        BY <1>1, <1>6, <1>14, <2>1 DEF SaveConnection
<1>15. CASE Kill(c)
    <2>1. proc' \in [Commands -> Command] /\ OthersStay(c) /\ Sound(c)'
        BY <1>4, <1>15 DEF Kill
    <2>2. torn' \in BOOLEAN
        BY <1>15 DEF Kill
    <2>3. UNCHANGED <<server, disk, run>> /\ kills' \in 0 .. MaxKills
        BY <1>1, <1>15, AgentCliAssumption DEF Kill
    <2>4. lost' \subseteq 1 .. MaxCred
        <3> DEFINE held == proc[c].answer.token
        <3>1. held \in 0 .. MaxCred /\ lost \subseteq 1 .. MaxCred
            BY <1>1
        <3>2. CASE held = 0
            BY <1>15, <3>1, <3>2 DEF Kill
        <3>3. CASE held # 0
            <4>1. held \in 1 .. MaxCred
                BY <3>1, <3>3, AgentCliAssumption
            <4>2. lost' \in {lost, lost \cup {held}}
                BY <1>15 DEF Kill
            <4> HIDE DEF held
            <4> QED
                BY <3>1, <4>1, <4>2
        <3> QED
            BY <3>2, <3>3
    <2> QED
        BY <1>1, <1>6, <2>1, <2>2, <2>3, <2>4
<1> QED
    BY <1>7, <1>8, <1>9, <1>10, <1>11, <1>12, <1>13, <1>14, <1>15

\* A request that is submitted keeps it.
LEMMA SubmitStep ==
    ASSUME AgentInv, NEW c \in Commands, Submit(c)
    PROVE  AgentInv'
<1> USE DEF disk, history
<1>1. /\ proc \in [Commands -> Command] /\ proc[c] \in Command
      /\ request \in [Requests -> Request]
      /\ LastIssued \in 0 .. MaxCred
    BY AgentFacts
<1>2. UNCHANGED <<device, issued, valid, disk, run, history>>
    BY DEF Submit
<1>3. LastIssued' = LastIssued
    BY <1>2, LastIssuedKept DEF AgentInv
<1>4. /\ request' \in [Requests -> Request]
      /\ \A q \in Requests : request[q].status # "none" => request'[q].status # "none"
      /\ proc' \in [Commands -> Command] /\ OthersStay(c) /\ Sound(c)'
    <2>1. /\ Idle.pc = "idle" /\ Idle.answer.token = 0
        BY FailuresAreAnswers DEF Idle
    <2>2. ASSUME Exit(c)
          PROVE  proc' \in [Commands -> Command] /\ OthersStay(c) /\ Sound(c)'
        <3>1. /\ proc' \in [Commands -> Command] /\ OthersStay(c) /\ proc'[c] = Idle
            BY <1>1, <2>2, ExitMoves
        <3> QED
            BY <1>1, <1>3, <2>1, <3>1 DEF Sound
    <2>3. CASE Exit(c) /\ UNCHANGED request
        BY <1>1, <2>2, <2>3
    <2>4. CASE ~(Exit(c) /\ UNCHANGED request)
        <3> DEFINE r == CHOOSE r \in Fresh : TRUE
                   at == [proc[c] EXCEPT !.pc = "submitted"]
                   moved == [at EXCEPT !.request = r]
        <3>1. /\ Fresh # {}
              /\ request' = [request EXCEPT ![r].status = "pending"]
              /\ proc' = [proc EXCEPT ![c] = moved] \/ Exit(c)
            BY <2>4 DEF Submit
        <3>2. r \in Requests
            BY <3>1 DEF Fresh
        <3> HIDE DEF r
        <3>3. /\ request' \in [Requests -> Request]
              /\ \A q \in Requests : request'[q].status =
                                         IF q = r THEN "pending" ELSE request[q].status
            BY <1>1, <3>1, <3>2 DEF Request, Statuses
        <3>4. ASSUME proc' = [proc EXCEPT ![c] = moved]
              PROVE  proc' \in [Commands -> Command] /\ OthersStay(c) /\ Sound(c)'
            <4>1. at \in Command /\ at.pc = "submitted" /\ at.answer = proc[c].answer
                BY <1>1 DEF Command
            <4>2. /\ moved \in Command /\ moved.pc = "submitted" /\ moved.request = r
                  /\ moved.answer = proc[c].answer
                <5> HIDE DEF at
                <5> QED
                    BY <3>2, <4>1 DEF Command
            <4> HIDE DEF moved
            <4>3. proc' \in [Commands -> Command] /\ OthersStay(c) /\ proc'[c] = moved
                BY <1>1, <3>4, <4>2 DEF OthersStay
            <4>4. proc[c].answer.token <= LastIssued
                BY AgentFacts DEF Sound
            <4> QED
                BY <1>3, <3>2, <3>3, <4>2, <4>3, <4>4, AgentCliAssumption DEF Sound
        <3> QED
            BY <2>2, <3>1, <3>3, <3>4
    <2> QED
        BY <2>3, <2>4
<1> QED
    BY <1>1, <1>2, <1>3, <1>4, AgentFacts, StepKeeps

\* A registration keeps it.
LEMMA RegisterStep ==
    ASSUME AgentInv, NEW c \in Commands, Register(c)
    PROVE  AgentInv'
<1> USE DEF server, disk, history
<1>1. /\ proc \in [Commands -> Command] /\ proc[c] \in Command
      /\ request \in [Requests -> Request]
      /\ LastIssued \in 0 .. MaxCred /\ lost \subseteq 1 .. MaxCred
    BY AgentFacts
<1>2. /\ Idle.pc = "idle" /\ Idle.answer.token = 0
    BY FailuresAreAnswers DEF Idle
<1>3. CASE Exit(c) /\ UNCHANGED <<server, history>>
    <2>1. /\ proc' \in [Commands -> Command] /\ OthersStay(c) /\ proc'[c] = Idle
        BY <1>1, <1>3, ExitMoves
    <2>2. Sound(c)'
        <3>1. LastIssued' = LastIssued
            BY <1>3, LastIssuedKept DEF AgentInv
        <3> QED
            BY <1>1, <1>2, <2>1, <3>1 DEF Sound
    <2> QED
        BY <1>3, <2>1, <2>2, AgentFacts, StepKeeps DEF Register
<1>4. CASE ~(Exit(c) /\ UNCHANGED <<server, history>>)
    <2> DEFINE answer == [kind |-> "credential", token |-> LastIssued + 1]
    <2>1. /\ Issue /\ UNCHANGED <<request, disk, run>>
          /\ \/ Received(c, "secrets", answer, answer)
             \/ /\ Exit(c)
                /\ lost' = lost \cup {answer.token}
                /\ UNCHANGED <<torn, kills>>
        BY <1>4 DEF Register
    <2>2. /\ IssuedInOrder'
          /\ LastIssued' = LastIssued + 1 /\ LastIssued' \in 1 .. MaxCred
          /\ device' \in [row : 0 .. MaxDevice, rows : 0 .. MaxDevice]
          /\ issued' \in [1 .. MaxCred -> 0 .. MaxDevice]
          /\ valid' \in 0 .. MaxCred
        BY <2>1, IssueAddsOne DEF AgentInv
    <2>3. answer \in Answer /\ answer.token = LastIssued'
        BY <2>2, AgentCliAssumption DEF Answer, Kinds
    <2> HIDE DEF answer
    <2>4. /\ proc' \in [Commands -> Command] /\ OthersStay(c)
          /\ proc'[c].pc \in {"secrets", "idle"}
          /\ proc'[c].answer.token \in {0, LastIssued'}
          /\ lost' \subseteq 1 .. MaxCred /\ UNCHANGED <<torn, kills>>
        <3>1. CASE Received(c, "secrets", answer, answer)
            <4>1. "secrets" \in Points
                BY DEF Points
            <4> QED
                BY <1>1, <2>3, <3>1, <4>1, ReceivedMoves
        <3>2. CASE /\ Exit(c)
                   /\ lost' = lost \cup {answer.token}
                   /\ UNCHANGED <<torn, kills>>
            BY <1>1, <1>2, <2>2, <2>3, <3>2, ExitMoves
        <3> QED
            BY <2>1, <3>1, <3>2
    <2>5. TypeOK'
        BY <2>1, <2>2, <2>4 DEF AgentInv, TypeOK
    <2>6. RequestsExist'
        BY <2>1, <2>4 DEF AgentInv, RequestsExist, OthersStay
    <2>7. NothingInvented'
        <3>1. LastIssued \in Nat /\ LastIssued' = LastIssued + 1
            BY <1>1, <2>2, AgentCliAssumption
        <3>2. token' <= LastIssued'
            BY <2>1, <3>1, AgentFacts, AgentCliAssumption
        <3>3. ASSUME NEW d \in Commands
              PROVE  /\ proc'[d].answer.token <= LastIssued'
                     /\ proc'[d].pc \in {"synced", "polled"} =>
                            (proc'[d].answer.token # 0
                                 <=> proc'[d].answer.kind = "credential")
            <4>1. CASE d = c
                BY <2>4, <3>1, <4>1
            <4>2. CASE d # c
                <5>1. /\ proc'[d] = proc[d] /\ proc[d].answer.token \in 0 .. MaxCred
                      /\ Sound(d)
                    BY <2>4, <4>2, AgentFacts DEF OthersStay
                <5> QED
                    BY <3>1, <5>1, AgentCliAssumption DEF Sound
            <4> QED
                BY <4>1, <4>2
        <3> QED
            BY <3>2, <3>3 DEF NothingInvented
    <2> QED
        BY <2>2, <2>5, <2>6, <2>7 DEF AgentInv
<1> QED
    BY <1>3, <1>4

\* It holds at the start.
LEMMA AgentInit ==
    ASSUME Init
    PROVE  AgentInv
<1>1. /\ \A n \in 1 .. MaxCred : issued[n] = 0
      /\ issued \in [1 .. MaxCred -> 0 .. MaxDevice]
    BY AgentCliAssumption DEF Init
<1>2. IssuedInOrder /\ LastIssued = 0
    <2>1. Issued = {}
        BY <1>1 DEF Issued
    <2>2. 1 .. 0 = {} /\ 0 \in 0 .. MaxCred
        BY AgentCliAssumption
    <2> QED
        BY <2>1, <2>2 DEF IssuedInOrder, LastIssued
<1>3. /\ proc \in [Commands -> Command]
      /\ \A c \in Commands : proc[c] = Idle
    BY IdleIsACommand DEF Init
<1>4. Idle.pc = "idle" /\ Idle.answer.token = 0
    BY FailuresAreAnswers DEF Idle
<1>5. TypeOK
    <2>1. request \in [Requests -> Request]
        BY DEF Init, Request, Statuses
    <2>2. device \in [row : 0 .. MaxDevice, rows : 0 .. MaxDevice]
        BY AgentCliAssumption DEF Init
    <2>3. /\ valid \in 0 .. MaxCred /\ token \in 0 .. MaxCred /\ config \in 0 .. MaxDevice
          /\ claim = NoRequest /\ tokenFile \in BOOLEAN /\ run \in 0 .. MaxCred
          /\ lost = {} /\ kills \in 0 .. MaxKills
        BY AgentCliAssumption DEF Init
    <2>4. torn \in BOOLEAN
        BY DEF Init
    <2> QED
        BY <1>1, <1>3, <2>1, <2>2, <2>3, <2>4 DEF TypeOK
<1>6. RequestsExist
    BY <1>3, <1>4 DEF RequestsExist, Init
<1>7. NothingInvented
    BY <1>2, <1>3, <1>4 DEF NothingInvented, Init
<1> QED
    BY <1>2, <1>5, <1>6, <1>7 DEF AgentInv

\* Every step keeps it, of however many commands.
LEMMA AgentStep ==
    ASSUME AgentInv, [Next]_vars
    PROVE  AgentInv'
<1> USE DEF vars, server, disk, history
<1>1. CASE UNCHANGED vars
    <2>1. IssuedInOrder' /\ LastIssued' = LastIssued
        BY <1>1, LastIssuedKept DEF AgentInv
    <2> QED
        BY <1>1, <2>1 DEF AgentInv, TypeOK, RequestsExist, NothingInvented
<1>2. ASSUME NEW c \in Commands, Begin(c) \/ Step(c) \/ Kill(c)
      PROVE  AgentInv'
    <2>1. CASE SyncPoll(c)
        BY <2>1, PollBrings, PollStep DEF SyncPoll
    <2>2. CASE Poll(c)
        BY <2>2, PollBrings, PollStep DEF Poll
    <2> QED
        BY <1>2, <2>1, <2>2, BeginStep, SubmitStep, RegisterStep, ClientStep DEF Step
<1>3. CASE Operator \/ RunStart \/ RunBeat \/ RunStop
    <2>1. UNCHANGED <<issued, token, proc, history>>
        BY <1>3 DEF Operator, Review, RevokeCredential, DeleteDevice, ProvideToken,
                    RunStart, RunBeat, RunStop
    <2>2. IssuedInOrder' /\ LastIssued' = LastIssued
        BY <2>1, LastIssuedKept DEF AgentInv
    <2>3. TypeOK /\ RequestsExist /\ NothingInvented
        BY DEF AgentInv
    <2>4. /\ UNCHANGED claim
          /\ request' \in [Requests -> Request]
          /\ \A q \in Requests : request[q].status # "none" => request'[q].status # "none"
        <3>1. CASE \E r \in Requests, status \in Statuses : Review(r, status)
            BY <2>3, <3>1 DEF Review, TypeOK, Request, Statuses
        <3>2. CASE ~\E r \in Requests, status \in Statuses : Review(r, status)
            BY <1>3, <2>3, <3>2 DEF Operator, RevokeCredential, DeleteDevice, ProvideToken,
                        RunStart, RunBeat, RunStop, TypeOK
        <3> QED
            BY <3>1, <3>2
    <2>5. device' \in [row : 0 .. MaxDevice, rows : 0 .. MaxDevice]
        <3>1. device' \in {device, [device EXCEPT !.row = 0]}
            BY <1>3 DEF Operator, Review, RevokeCredential, DeleteDevice, ProvideToken,
                    RunStart, RunBeat, RunStop
        <3> QED
            BY <2>3, <3>1, AgentCliAssumption DEF TypeOK
    <2>6. /\ valid' \in 0 .. MaxCred /\ config' \in 0 .. MaxDevice
          /\ tokenFile' \in BOOLEAN /\ run' \in 0 .. MaxCred
        <3>1. /\ valid' \in {0, valid} /\ config' = config
              /\ tokenFile' \in {TRUE, tokenFile} /\ run' \in {0, run, token}
            BY <1>3
               DEF Operator, Review, RevokeCredential, DeleteDevice, ProvideToken,
                   RunStart, RunBeat, RunStop
        <3>2. /\ valid \in 0 .. MaxCred /\ config \in 0 .. MaxDevice
              /\ tokenFile \in BOOLEAN /\ run \in 0 .. MaxCred /\ token \in 0 .. MaxCred
              /\ 0 \in 0 .. MaxCred
            BY <2>3, AgentCliAssumption DEF TypeOK
        <3>3. tokenFile' \in BOOLEAN
            BY <3>1, <3>2
        <3> QED
            BY <3>1, <3>2, <3>3
    <2>7. TypeOK'
        BY <2>1, <2>3, <2>4, <2>5, <2>6 DEF TypeOK
    <2>8. RequestsExist'
        <3>1. \A d \in Commands : proc[d].request \in Requests \cup {NoRequest}
            BY AgentFacts
        <3> QED
            BY <2>1, <2>3, <2>4, <3>1 DEF RequestsExist, TypeOK
    <2>9. NothingInvented'
        BY <2>1, <2>2, <2>3 DEF NothingInvented
    <2> QED
        BY <2>2, <2>7, <2>8, <2>9 DEF AgentInv
<1> QED
    BY <1>1, <1>2, <1>3 DEF Next

\* It holds in every reachable state.
LEMMA AgentInvariant == Spec => []AgentInv
BY AgentInit, AgentStep, PTL DEF Spec

\* The files, the server's rows and the commands keep their types, however
\* many commands run at the same time.
THEOREM AgentTypes == Spec => []TypeOK
<1>1. AgentInv => TypeOK
    BY DEF AgentInv
<1> QED
    BY <1>1, AgentInvariant, PTL
-----------------------------------------------------------------------------
(* Commands that run one at a time                                         *)

\* SoloInv, of the command there is.
Solo(c) ==
    /\ LastIssued \in lost \/ token = LastIssued \/ Carries(c)
    /\ Carries(c) => proc[c].answer.token = LastIssued /\ token < LastIssued
    /\ proc[c].pc = "secrets" => Carries(c)
    /\ ~torn => /\ proc[c].pc # "config" => config = DeviceOf(token)
                /\ proc[c].pc = "config" => token = proc[c].answer.token
                /\ proc[c].pc = "connect" => proc[c].saved = config
    /\ Known(c)

\* With one command, what is said of all is said of that one.
LEMMA SoloMeans ==
    ASSUME NEW c \in Commands, \A d \in Commands : d = c
    PROVE  (SoloInv <=> Solo(c)) /\ (SoloInv' <=> Solo(c)')
BY DEF SoloInv, Solo, NewestHeld, IdentityFollows, ClaimIsKnown

\* The device of a credential that was issued stays the same.
LEMMA DeviceOfStays ==
    ASSUME AgentInv, \A n \in 1 .. LastIssued : issued'[n] = issued[n],
           UNCHANGED token
    PROVE  DeviceOf(token)' = DeviceOf(token)
<1>1. token \in 0 .. LastIssued
    BY AgentCliAssumption DEF AgentInv, TypeOK, NothingInvented
<1>2. LastIssued \in Nat
    BY LastIssuedBounds, AgentCliAssumption DEF AgentInv
<1> QED
    BY <1>1, <1>2 DEF DeviceOf

\* A command that begins keeps what one command alone may rely on.
LEMMA SoloBegin ==
    ASSUME AgentInv, NEW c \in Commands, Solo(c), Begin(c)
    PROVE  Solo(c)'
<1> USE DEF server, disk, history
<1>1. /\ claim \in Requests \cup {NoRequest} /\ config \in 0 .. MaxDevice
      /\ proc \in [Commands -> Command]
      /\ 0 \in 0 .. MaxDevice /\ Failed.token = 0
    BY AgentFacts, FailuresAreAnswers, AgentCliAssumption
<1>2. ASSUME NEW pc \in Points \ {"submitted", "synced", "polled", "secrets", "config", "finish"},
             NEW op \in {"request-token", "claim", "register", "config"},
             NEW r \in Requests \cup {NoRequest}, NEW s \in 0 .. MaxDevice,
             pc \in {"sync", "poll"} => r = claim /\ claim # NoRequest,
             pc = "connect" => s = config, pc = "register" => op = "register",
             proc[c].pc = "idle",
             Start(c, op, pc, r, s), UNCHANGED <<server, disk, run, history>>
      PROVE  Solo(c)'
    <2>1. /\ proc'[c].pc = pc /\ proc'[c].request = r /\ proc'[c].answer = Failed
          /\ proc'[c].op = op /\ proc'[c].saved = s
        BY <1>1, <1>2, BeginMoves
    <2>2. LastIssued' = LastIssued /\ DeviceOf(token)' = DeviceOf(token)
        BY <1>2, LastIssuedKept DEF AgentInv, DeviceOf
    <2>3. ~Carries(c) /\ ~Carries(c)'
        BY <1>1, <1>2, <2>1 DEF Carries
    <2>4. Known(c)'
        BY <1>2, <2>1 DEF Known
    <2> QED
        BY <1>1, <1>2, <2>1, <2>2, <2>3, <2>4 DEF Solo
<1>3. CASE \E new \in BOOLEAN : BeginRequest(c, new)
    <2>1. /\ UNCHANGED <<server, disk, run, history>> /\ proc[c].pc = "idle"
          /\ \/ Start(c, "request-token", "sync", claim, 0) /\ claim # NoRequest
             \/ Start(c, "request-token", "submit", claim, 0)
        BY <1>3 DEF BeginRequest
    <2> QED
        BY <1>1, <1>2, <2>1 DEF Points
<1>4. CASE BeginClaim(c)
    BY <1>1, <1>2, <1>4 DEF BeginClaim, Points
<1>5. CASE BeginRegister(c)
    BY <1>1, <1>2, <1>5 DEF BeginRegister, Points
<1>6. CASE BeginConfig(c)
    BY <1>1, <1>2, <1>6 DEF BeginConfig, Points
<1> QED
    BY <1>3, <1>4, <1>5, <1>6 DEF Begin

\* A poll of the only command keeps it.
LEMMA SoloPoll ==
    ASSUME AgentInv, NEW c \in Commands, NEW pc \in {"synced", "polled"}, Solo(c),
           proc[c].pc \in {"sync", "poll"}, PollOutcome(c, pc), UNCHANGED <<disk, run>>
    PROVE  Solo(c)'
<1>1. UNCHANGED <<token, config, claim, torn>>
    BY DEF disk, PollOutcome
<1>2. DeviceOf(token)' = DeviceOf(token)
    BY <1>1, DeviceOfStays DEF PollOutcome
<1>3. /\ proc'[c].pc = pc /\ proc'[c].request = proc[c].request
      /\ lost \subseteq lost'
      /\ \/ LastIssued' = LastIssued /\ proc'[c].answer.token = 0
         \/ /\ LastIssued' = LastIssued + 1
            /\ \/ proc'[c].answer.token = LastIssued'
               \/ proc'[c].answer.token = 0 /\ LastIssued' \in lost'
    BY DEF PollOutcome
<1>4. /\ LastIssued \in Nat /\ token \in Nat /\ token <= LastIssued /\ ~Carries(c)
    BY AgentFacts, AgentCliAssumption DEF Carries
<1>5. Known(c)'
    BY <1>1, <1>3 DEF Solo, Known, PollOutcome
<1>6. /\ LastIssued' \in lost' \/ token' = LastIssued' \/ Carries(c)'
      /\ Carries(c)' => proc'[c].answer.token = LastIssued' /\ token' < LastIssued'
    BY <1>1, <1>3, <1>4 DEF Solo, Carries
<1> QED
    BY <1>1, <1>2, <1>3, <1>5, <1>6 DEF Solo

\* A submission of the only command keeps it.
LEMMA SoloSubmit ==
    ASSUME AgentInv, NEW c \in Commands, Solo(c), Submit(c)
    PROVE  Solo(c)'
<1> USE DEF disk, history
<1>1. /\ UNCHANGED <<token, config, claim, torn, lost, issued>>
      /\ proc[c].pc = "submit" /\ proc \in [Commands -> Command] /\ proc[c] \in Command
    BY AgentFacts DEF Submit
<1>2. LastIssued' = LastIssued /\ DeviceOf(token)' = DeviceOf(token)
    BY <1>1, LastIssuedKept DEF AgentInv, DeviceOf
<1>3. proc'[c].pc \in {"idle", "submitted"}
    <2>1. CASE Exit(c)
        BY <1>1, <2>1, ExitMoves DEF Idle
    <2>2. CASE ~Exit(c)
        <3> DEFINE r == CHOOSE r \in Fresh : TRUE
                   at == [proc[c] EXCEPT !.pc = "submitted"]
                   moved == [at EXCEPT !.request = r]
        <3>1. proc' = [proc EXCEPT ![c] = moved]
            BY <2>2 DEF Submit
        <3>2. at.pc = "submitted"
            BY <1>1 DEF Command
        <3>3. moved.pc = "submitted"
            <4> HIDE DEF at, r
            <4> QED
                BY <3>2
        <3> HIDE DEF moved
        <3> QED
            BY <1>1, <3>1, <3>3
    <2> QED
        BY <2>1, <2>2
<1>4. ~Carries(c) /\ ~Carries(c)'
    BY <1>1, <1>3 DEF Carries
<1>5. Known(c)'
    BY <1>3 DEF Known
<1> QED
    BY <1>1, <1>2, <1>3, <1>4, <1>5 DEF Solo

\* A registration of the only command keeps it.
LEMMA SoloRegister ==
    ASSUME AgentInv, NEW c \in Commands, Solo(c), Register(c)
    PROVE  Solo(c)'
<1> USE DEF server, disk, history
<1>1. /\ UNCHANGED <<token, config, claim, request>>
      /\ proc[c].pc = "register" /\ proc[c].op = "register"
      /\ proc \in [Commands -> Command] /\ lost \subseteq 1 .. MaxCred
      /\ LastIssued \in Nat /\ token \in Nat /\ token <= LastIssued
    BY AgentFacts, AgentCliAssumption DEF Register, Solo, Known
<1>2. ~Carries(c)
    BY <1>1 DEF Carries
<1>3. Idle.pc = "idle"
    BY DEF Idle
<1>4. CASE Exit(c) /\ UNCHANGED <<server, history>>
    <2>1. LastIssued' = LastIssued /\ DeviceOf(token)' = DeviceOf(token)
        BY <1>1, <1>4, LastIssuedKept DEF AgentInv, DeviceOf
    <2>2. proc'[c].pc = "idle"
        BY <1>1, <1>3, <1>4, ExitMoves
    <2>3. ~Carries(c)' /\ Known(c)'
        BY <2>2 DEF Carries, Known
    <2> QED
        BY <1>1, <1>2, <1>4, <2>1, <2>2, <2>3 DEF Solo
<1>5. CASE ~(Exit(c) /\ UNCHANGED <<server, history>>)
    <2> DEFINE answer == [kind |-> "credential", token |-> LastIssued + 1]
    <2>1. /\ Issue
          /\ \/ Received(c, "secrets", answer, answer)
             \/ /\ Exit(c)
                /\ lost' = lost \cup {answer.token}
                /\ UNCHANGED <<torn, kills>>
        BY <1>5 DEF Register
    <2>2. /\ LastIssued' = LastIssued + 1 /\ LastIssued' \in 1 .. MaxCred
          /\ \A n \in 1 .. LastIssued : issued'[n] = issued[n]
        BY <2>1, IssueAddsOne DEF AgentInv
    <2>3. answer \in Answer /\ answer.token = LastIssued'
        BY <2>2, AgentCliAssumption DEF Answer, Kinds
    <2>4. DeviceOf(token)' = DeviceOf(token)
        BY <1>1, <2>2, DeviceOfStays
    <2> HIDE DEF answer
    <2>5. CASE Received(c, "secrets", answer, answer)
        <3>1. /\ proc'[c].pc = "secrets" /\ proc'[c].answer = answer
              /\ proc'[c].op = proc[c].op /\ UNCHANGED torn
            <4>1. "secrets" \in Points
                BY DEF Points
            <4> QED
                BY <1>1, <2>3, <2>5, <4>1, ReceivedMoves
        <3>2. Known(c)'
            BY <1>1, <3>1 DEF Known
        <3>3. /\ Carries(c)' /\ proc'[c].answer.token = LastIssued' /\ token' < LastIssued'
            BY <1>1, <2>2, <2>3, <3>1 DEF Carries
        <3> QED
            BY <1>1, <2>4, <3>1, <3>2, <3>3 DEF Solo
    <2>6. CASE /\ Exit(c)
               /\ lost' = lost \cup {answer.token}
               /\ UNCHANGED <<torn, kills>>
        <3>1. proc'[c].pc = "idle"
            BY <1>1, <1>3, <2>6, ExitMoves
        <3>2. LastIssued' \in lost'
            BY <2>3, <2>6
        <3>3. ~Carries(c)' /\ Known(c)'
            BY <3>1 DEF Carries, Known
        <3> QED
            BY <1>1, <2>4, <2>6, <3>1, <3>2, <3>3 DEF Solo
    <2> QED
        BY <2>1, <2>5, <2>6
<1> QED
    BY <1>4, <1>5

\* What the only command does on the device keeps it.
LEMMA SoloClient ==
    ASSUME AgentInv, NEW c \in Commands, Solo(c),
           \/ Synced(c) \/ StoreClaim(c) \/ Wait(c) \/ Polled(c)
           \/ SaveSecrets(c) \/ SaveConfig(c) \/ Finish(c) \/ SaveConnection(c)
           \/ Kill(c)
    PROVE  Solo(c)'
<1> USE DEF server, disk, history
<1>1. /\ proc \in [Commands -> Command] /\ proc[c] \in Command
      /\ Sound(c) /\ proc[c].answer.token \in 0 .. MaxCred
      /\ LastIssued \in Nat /\ token \in Nat
    BY AgentFacts, AgentCliAssumption
<1>2. UNCHANGED <<request, issued>>
    BY DEF Synced, StoreClaim, Wait, Polled, SaveSecrets, SaveConfig, Finish,
           SaveConnection, Kill
<1>3. LastIssued' = LastIssued /\ \A n : (DeviceOf(n) = IF n = 0 THEN 0 ELSE issued'[n])
    BY <1>2, LastIssuedKept DEF AgentInv, DeviceOf
<1>4. ASSUME Exit(c)
      PROVE  proc'[c].pc = "idle" /\ ~Carries(c)' /\ Known(c)'
    <2>1. proc'[c].pc = "idle"
        BY <1>1, <1>4, ExitMoves DEF Idle
    <2> QED
        BY <2>1 DEF Carries, Known
<1>5. ASSUME NEW pc \in Points, Goto(c, pc)
      PROVE  /\ proc'[c].pc = pc /\ proc'[c].op = proc[c].op
             /\ proc'[c].request = proc[c].request /\ proc'[c].answer = proc[c].answer
             /\ proc'[c].saved = proc[c].saved
    <2>1. proc'[c] = [proc[c] EXCEPT !.pc = pc]
        BY <1>1, <1>5, GotoMoves
    <2> QED
        BY <1>1, <2>1 DEF Command
<1>6. UNCHANGED token => DeviceOf(token)' = DeviceOf(token)
    BY <1>2 DEF DeviceOf
<1>7. CASE Synced(c)
    <2>1. UNCHANGED <<token, config, lost, torn>> /\ proc[c].pc = "synced"
        BY <1>7 DEF Synced
    <2>2. CASE proc[c].answer.kind \in EndsClaim
        <3>1. Goto(c, "submit") /\ "submit" \in Points
            BY <1>7, <2>2 DEF Synced, Points, EndsClaim, SyncStores
        <3>2. proc'[c].pc = "submit"
            BY <1>5, <3>1
        <3>3. ~Carries(c) /\ ~Carries(c)' /\ Known(c)'
            BY <1>1, <2>1, <2>2, <3>2 DEF Carries, Known, Sound, EndsClaim
        <3> QED
            BY <1>3, <1>6, <2>1, <3>2, <3>3 DEF Solo
    <2>3. CASE proc[c].answer.kind \in SyncStores
        <3>1. Goto(c, "secrets") /\ "secrets" \in Points /\ UNCHANGED claim
            BY <1>7, <2>3 DEF Synced, Points, SyncStores, EndsClaim
        <3>2. /\ proc'[c].pc = "secrets" /\ proc'[c].answer = proc[c].answer
              /\ proc'[c].request = proc[c].request
            BY <1>5, <3>1
        <3>3. Carries(c) /\ Carries(c)'
            BY <1>1, <2>1, <2>3, <3>2 DEF Carries, Sound, SyncStores
        <3>4. Known(c)'
            BY <1>2, <2>1, <2>3, <3>1, <3>2 DEF Solo, Known, SyncStores
        <3> QED
            BY <1>3, <1>6, <2>1, <3>2, <3>3, <3>4 DEF Solo
    <2>4. CASE proc[c].answer.kind \notin EndsClaim \cup SyncStores
        <3>1. Exit(c)
            BY <1>7, <2>4 DEF Synced
        <3>2. ~Carries(c)
            BY <1>1, <2>1, <2>4 DEF Carries, Sound, SyncStores
        <3> QED
            BY <1>3, <1>4, <1>6, <2>1, <3>1, <3>2 DEF Solo
    <2> QED
        BY <2>2, <2>3, <2>4
<1>8. CASE StoreClaim(c)
    <2>1. /\ UNCHANGED <<token, config, lost, torn>> /\ proc[c].pc = "submitted"
          /\ claim' = proc[c].request /\ ~Carries(c) /\ proc[c].request # NoRequest
        BY <1>1, <1>8 DEF StoreClaim, Carries, Sound
    <2>2. CASE Goto(c, "poll")
        <3>1. proc'[c].pc = "poll" /\ proc'[c].request = proc[c].request
            BY <1>5, <2>2 DEF Points
        <3>2. Known(c)' /\ ~Carries(c)'
            BY <2>1, <3>1 DEF Known, Carries
        <3> QED
            BY <1>3, <1>6, <2>1, <3>1, <3>2 DEF Solo
    <2>3. CASE Exit(c)
        BY <1>3, <1>4, <1>6, <2>1, <2>3 DEF Solo
    <2> QED
        BY <1>8, <2>2, <2>3 DEF StoreClaim
<1>9. CASE Wait(c)
    <2>1. /\ UNCHANGED <<token, config, claim, lost, torn>> /\ proc[c].pc = "polled"
          /\ ~Carries(c)
        BY <1>1, <1>9 DEF Wait, Carries, Sound
    <2>2. CASE Exit(c)
        BY <1>3, <1>4, <1>6, <2>1, <2>2 DEF Solo
    <2>3. CASE ~Exit(c)
        <3> DEFINE at == [proc[c] EXCEPT !.pc = "poll"]
                   asked == [at EXCEPT !.answer = Failed]
                   moved == [asked EXCEPT !.polls = Counted(c)]
        <3>1. proc' = [proc EXCEPT ![c] = moved]
            BY <1>9, <2>3 DEF Wait
        <3>2. at.pc = "poll" /\ at.request = proc[c].request
            BY <1>1 DEF Command
        <3>3. moved.pc = "poll" /\ moved.request = proc[c].request
            <4> HIDE DEF at
            <4> QED
                BY <3>2
        <3> HIDE DEF moved
        <3>4. proc'[c].pc = "poll" /\ proc'[c].request = proc[c].request
            BY <1>1, <3>1, <3>3
        <3>5. Known(c)' /\ ~Carries(c)'
            BY <2>1, <3>4 DEF Solo, Known, Carries
        <3> QED
            BY <1>3, <1>6, <2>1, <3>4, <3>5 DEF Solo
    <2> QED
        BY <2>2, <2>3
<1>10. CASE Polled(c)
    <2>1. UNCHANGED <<token, config, lost, torn>> /\ proc[c].pc = "polled"
        BY <1>10 DEF Polled
    <2>2. CASE proc[c].answer.kind \in StoredAnswers
        <3>1. Goto(c, "secrets") /\ "secrets" \in Points /\ UNCHANGED claim
            BY <1>10, <2>2 DEF Polled, Points, StoredAnswers
        <3>2. /\ proc'[c].pc = "secrets" /\ proc'[c].answer = proc[c].answer
              /\ proc'[c].request = proc[c].request
            BY <1>5, <3>1
        <3>3. Carries(c) /\ Carries(c)'
            BY <1>1, <2>1, <2>2, <3>2 DEF Carries, Sound, StoredAnswers
        <3>4. Known(c)'
            BY <1>2, <2>1, <2>2, <3>1, <3>2 DEF Solo, Known, StoredAnswers
        <3> QED
            BY <1>3, <1>6, <2>1, <3>2, <3>3, <3>4 DEF Solo
    <2>3. CASE proc[c].answer.kind \notin StoredAnswers
        <3>1. Exit(c)
            BY <1>10, <2>3 DEF Polled
        <3>2. ~Carries(c)
            BY <1>1, <2>1, <2>3 DEF Carries, Sound, StoredAnswers
        <3> QED
            BY <1>3, <1>4, <1>6, <2>1, <3>1, <3>2 DEF Solo
    <2> QED
        BY <2>2, <2>3
<1>11. CASE SaveSecrets(c)
    <2>1. /\ UNCHANGED <<config, claim, lost, torn>> /\ proc[c].pc = "secrets"
          /\ token' = proc[c].answer.token /\ Goto(c, "config") /\ "config" \in Points
        BY <1>11 DEF SaveSecrets, Points
    <2>2. /\ proc'[c].pc = "config" /\ proc'[c].answer = proc[c].answer
          /\ proc'[c].request = proc[c].request /\ proc'[c].op = proc[c].op
        BY <1>5, <2>1
    <2>3. token' = LastIssued'
        BY <1>3, <2>1 DEF Solo
    <2>4. ~Carries(c)' /\ Known(c)'
        BY <1>2, <2>1, <2>2 DEF Carries, Solo, Known
    <2> QED
        BY <2>1, <2>2, <2>3, <2>4 DEF Solo
<1>12. CASE SaveConfig(c)
    <2>1. /\ UNCHANGED <<token, claim, lost, torn>> /\ proc[c].pc = "config"
          /\ config' = DeviceOf(proc[c].answer.token)
          /\ Goto(c, "finish") /\ "finish" \in Points /\ ~Carries(c)
        BY <1>12 DEF SaveConfig, ConfigDevice, Points, Carries
    <2>2. /\ proc'[c].pc = "finish" /\ proc'[c].answer = proc[c].answer
          /\ proc'[c].request = proc[c].request /\ proc'[c].op = proc[c].op
        BY <1>5, <2>1
    <2>3. ~Carries(c)' /\ Known(c)'
        BY <1>2, <2>1, <2>2 DEF Carries, Solo, Known
    <2>4. ~torn => config' = DeviceOf(token)
        BY <2>1 DEF Solo
    <2> QED
        BY <1>3, <1>6, <2>1, <2>2, <2>3, <2>4 DEF Solo
<1>13. CASE Finish(c)
    <2>1. /\ UNCHANGED <<token, config, lost, torn>> /\ proc[c].pc = "finish"
          /\ Exit(c) /\ ~Carries(c)
        BY <1>13 DEF Finish, Carries
    <2> QED
        BY <1>3, <1>4, <1>6, <2>1 DEF Solo
<1>14. CASE SaveConnection(c)
    <2>1. /\ UNCHANGED <<token, lost, torn>> /\ proc[c].pc = "connect"
          /\ config' = proc[c].saved /\ Exit(c) /\ ~Carries(c)
        BY <1>14 DEF SaveConnection, Carries
    <2>2. ~torn => config' = config
        BY <2>1 DEF Solo
    <2> QED
        BY <1>3, <1>4, <1>6, <2>1, <2>2 DEF Solo
<1>15. CASE Kill(c)
    <2>1. /\ UNCHANGED <<token, config>> /\ Exit(c)
          /\ lost' = IF Carries(c) THEN lost \cup {proc[c].answer.token} ELSE lost
          /\ ~torn' => ~torn /\ proc[c].pc # "config"
        BY <1>15 DEF Kill, Carries
    <2>2. LastIssued' \in lost' \/ token' = LastIssued'
        BY <1>3, <2>1 DEF Solo
    <2>3. ~torn' => config' = DeviceOf(token)
        BY <2>1 DEF Solo
    <2> QED
        BY <1>4, <1>6, <2>1, <2>2, <2>3 DEF Solo
<1> QED
    BY <1>7, <1>8, <1>9, <1>10, <1>11, <1>12, <1>13, <1>14, <1>15

\* Neither reviewers nor operators nor the heartbeat loop undo it, nor do
\* they write the secrets or the stored claim.
LEMMA SoloOperator ==
    ASSUME AgentInv, SoloInv,
           Operator \/ RunStart \/ RunBeat \/ RunStop \/ UNCHANGED vars
    PROVE  SoloInv' /\ UNCHANGED <<token, claim>>
<1> USE DEF vars, server, disk, history
<1>1. /\ UNCHANGED <<issued, token, config, claim, proc, history>>
      /\ \A q \in Requests : /\ request[q].status \in {"rejected", "expired"} =>
                                    request'[q].status = request[q].status
                             /\ request[q].claimed => request'[q].claimed
    <2>1. CASE \E r \in Requests, status \in Statuses : Review(r, status)
        BY <2>1 DEF Review, AgentInv, TypeOK, Request
    <2>2. CASE ~\E r \in Requests, status \in Statuses : Review(r, status)
        BY <2>2 DEF Operator, RevokeCredential, DeleteDevice, ProvideToken,
                    RunStart, RunBeat, RunStop
    <2> QED
        BY <2>1, <2>2
<1>2. LastIssued' = LastIssued /\ DeviceOf(token)' = DeviceOf(token)
    BY <1>1, LastIssuedKept DEF AgentInv, DeviceOf
<1>3. NewestHeld'
    BY <1>1, <1>2 DEF SoloInv, NewestHeld, Carries
<1>4. IdentityFollows'
    BY <1>1, <1>2 DEF SoloInv, IdentityFollows
<1>5. ASSUME NEW c \in Commands
      PROVE  Known(c)'
    <2>1. Known(c) /\ proc[c].request \in Requests \cup {NoRequest} /\ proc' = proc
        BY <1>1, AgentFacts DEF SoloInv, ClaimIsKnown
    <2> QED
        BY <1>1, <2>1 DEF Known
<1> QED
    BY <1>1, <1>3, <1>4, <1>5 DEF SoloInv, ClaimIsKnown

\* It holds at the start.
LEMMA SoloInit ==
    ASSUME Init
    PROVE  SoloInv
<1>1. LastIssued = 0
    <2>1. Issued = {}
        <3>1. \A n \in 1 .. MaxCred : issued[n] = 0
            BY DEF Init
        <3> QED
            BY <3>1 DEF Issued
    <2> QED
        BY <2>1 DEF LastIssued
<1>2. /\ \A c \in Commands : proc[c].pc = "idle"
      /\ token = 0 /\ config = 0
    BY DEF Init, Idle
<1> QED
    BY <1>1, <1>2 DEF SoloInv, NewestHeld, IdentityFollows, ClaimIsKnown, Known, Carries,
                      DeviceOf

\* With one command every step keeps it.
LEMMA SoloStep ==
    ASSUME \A c, d \in Commands : c = d, AgentInv, SoloInv, [Next]_vars
    PROVE  SoloInv'
<1>1. ASSUME NEW c \in Commands, Begin(c) \/ Step(c) \/ Kill(c)
      PROVE  SoloInv'
    <2>1. Solo(c) /\ (Solo(c)' => SoloInv')
        BY SoloMeans
    <2>2. CASE SyncPoll(c)
        BY <2>1, <2>2, PollBrings, SoloPoll DEF SyncPoll
    <2>3. CASE Poll(c)
        BY <2>1, <2>3, PollBrings, SoloPoll DEF Poll
    <2> QED
        BY <1>1, <2>1, <2>2, <2>3, SoloBegin, SoloSubmit, SoloRegister, SoloClient DEF Step
<1> QED
    BY <1>1, SoloOperator DEF Next

\* With one command both invariants hold in every reachable state.
LEMMA SoloInvariant ==
    ASSUME \A c, d \in Commands : c = d
    PROVE  Spec => [](AgentInv /\ SoloInv)
<1>1. Init => AgentInv /\ SoloInv
    BY AgentInit, SoloInit
<1>2. AgentInv /\ SoloInv /\ [Next]_vars => (AgentInv /\ SoloInv)'
    BY AgentStep, SoloStep
<1> QED
    BY <1>1, <1>2, PTL DEF Spec

\* While commands run one at a time, the device that no command runs on holds
\* the newest credential the server issued it, unless the answer that carried
\* it was lost.
THEOREM DeviceHoldsItsNewestCredential ==
    ASSUME \A c, d \in Commands : c = d
    PROVE  Spec => []NewestCredentialStored
<1>1. SoloInv => NewestCredentialStored
    BY DEF SoloInv, NewestHeld, Carries, NewestCredentialStored, Quiet
<1> QED
    BY <1>1, SoloInvariant, PTL

\* While commands run one at a time, config.json names the device of the
\* credential beside it, unless a command died between the two writes.
THEOREM IdentityFollowsCredential ==
    ASSUME \A c, d \in Commands : c = d
    PROVE  Spec => []IdentityMatchesCredential
<1>1. SoloInv => IdentityMatchesCredential
    BY DEF SoloInv, IdentityFollows, IdentityMatchesCredential, Quiet
<1> QED
    BY <1>1, SoloInvariant, PTL

\* While commands run one at a time, a stored claim is given up for a new
\* request, or once it is rejected, expired or claimed.
THEOREM ClaimsAreNotGivenUpEarly ==
    ASSUME \A c, d \in Commands : c = d
    PROVE  Spec => ClaimGivenUpOnlyWhenOver
<1>1. ASSUME AgentInv, SoloInv, [Next]_vars, claim # NoRequest, claim' # claim
      PROVE  \/ request[claim].status \in {"rejected", "expired"}
             \/ request[claim].claimed
             \/ \E c \in Commands : proc[c].pc = "submitted"
    <2>1. PICK c \in Commands : Begin(c) \/ Step(c) \/ Kill(c)
        BY <1>1, SoloOperator DEF Next
    <2>2. Known(c) /\ proc[c] \in Command
        BY <1>1, AgentFacts DEF SoloInv, ClaimIsKnown
    <2>3. Synced(c) \/ StoreClaim(c) \/ Polled(c) \/ Finish(c)
        BY <1>1, <2>1 DEF Begin, Step, BeginRequest, BeginClaim, BeginRegister, BeginConfig,
                          SyncPoll, Submit, Poll, Wait, Register, SaveSecrets, SaveConfig,
                          SaveConnection, Kill, disk
    <2>4. CASE Synced(c)
        BY <1>1, <2>2, <2>4 DEF Synced, Known, EndsClaim, SyncStores
    <2>5. CASE StoreClaim(c)
        BY <2>5 DEF StoreClaim
    <2>6. CASE Polled(c)
        <3>1. proc[c].answer.kind \in Kinds
            BY <2>2 DEF Command, Answer
        <3> QED
            BY <1>1, <2>2, <2>6, <3>1 DEF Polled, Known, StoredAnswers, Kinds, Statuses
    <2>7. CASE Finish(c)
        BY <1>1, <2>2, <2>7 DEF Finish, Known
    <2> QED
        BY <2>3, <2>4, <2>5, <2>6, <2>7
<1> QED
    BY <1>1, SoloInvariant, PTL DEF Spec, ClaimGivenUpOnlyWhenOver

\* While commands run one at a time, the device's secrets advance as
\* AtomicSecrets says: each enrollment replaces all three files in one step,
\* and a credential never gives way to an older one.
THEOREM SecretsAdvanceAtomically ==
    ASSUME \A c, d \in Commands : c = d
    PROVE  Spec => SecretsAdvance
<1>1. Init => Secrets!Init
    BY DEF Init, Secrets!Init, Secrets!File
<1>2. ASSUME AgentInv, SoloInv, [Next]_vars
      PROVE  Secrets!Next \/ UNCHANGED [f \in {"token", "ca", "mqtt"} |-> token]
    <2>1. CASE UNCHANGED token
        BY <2>1
    <2>2. CASE token' # token
        <3>1. PICK c \in Commands : Begin(c) \/ Step(c) \/ Kill(c)
            BY <1>2, <2>2, SoloOperator DEF Next
        <3>2. SaveSecrets(c)
            BY <1>2, <2>2, <3>1 DEF Begin, Step, BeginRequest, BeginClaim, BeginRegister, BeginConfig,
                       SyncPoll, Synced, Submit, StoreClaim, Poll, Wait, Polled, Register,
                       SaveConfig, Finish, SaveConnection, Kill, disk
        <3>3. token' = LastIssued /\ token < LastIssued /\ LastIssued \in 1 .. MaxCred
            BY <1>2, <3>2, AgentFacts, AgentCliAssumption
               DEF SaveSecrets, SoloInv, NewestHeld
        <3>4. Secrets!Save(LastIssued, {"token", "ca", "mqtt"})
            BY <3>3 DEF Secrets!Save, Secrets!File
        <3> QED
            BY <3>3, <3>4 DEF Secrets!Next
    <2> QED
        BY <2>1, <2>2
<1> QED
    BY <1>1, <1>2, SoloInvariant, PTL DEF Spec, SecretsAdvance, Secrets!Spec
=============================================================================
