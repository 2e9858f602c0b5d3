----------------------------- MODULE PingCommand -----------------------------
(***************************************************************************)
(* Pinging a device over MQTT (mqtt/service.py).  The HTTP request creates *)
(* a command row, publishes the command and polls the row until it is      *)
(* terminal or the deadline passes; the device's answer reaches the row    *)
(* through the platform's MQTT client, whose network thread                *)
(* (mqtt/broker.py) handles one message at a time with a session of its    *)
(* own.  The broker and the device are the environment: with QoS 1 a       *)
(* message may come more than once, and a message may be lost when the     *)
(* other side is away.                                                     *)
(***************************************************************************)

CONSTANTS
    Commands,   \* commands, one ping request each
    NoCommand   \* the network thread handles no result

ASSUME PingAssumption == NoCommand \notin Commands

VARIABLES
    status,     \* status column of the command's row
    result,     \* result column of the command's row
    request,    \* where the HTTP request of the command is
    answer,     \* the status the HTTP request returned
    queued,     \* commands the broker holds for the device
    results,    \* the device's answers on their way to the platform
    callback,   \* the session of the network thread
    ponged      \* history: commands the device answered, and not "failed"

vars == <<status, result, request, answer, queued, results, callback, ponged>>

-----------------------------------------------------------------------------

Verdicts == {"completed", "failed"}

\* What a device may report: a verdict, or a status that is neither.
Reports == Verdicts \cup {"other"}

Statuses == {"none", "pending", "sent", "deleted"} \cup Verdicts

RequestPCs == {"start", "created", "publishing", "refused", "failing",
               "waiting", "timingOut", "returned", "gone"}

\* The result the network thread handles, with the status it read.
Callback == [command : Commands \cup {NoCommand}, verdict : Verdicts,
             loaded : Statuses]

NoCallback == [command |-> NoCommand, verdict |-> "failed", loaded |-> "none"]

Init ==
    /\ status = [c \in Commands |-> "none"]
    /\ result = [c \in Commands |-> "none"]
    /\ request = [c \in Commands |-> "start"]
    /\ answer = [c \in Commands |-> "none"]
    /\ queued = {}
    /\ results = {}
    /\ callback = NoCallback
    /\ ponged = {}

Exists(c) == status[c] \notin {"none", "deleted"}

-----------------------------------------------------------------------------
(* send_ping                                                               *)

Create(c) ==
    /\ request[c] = "start"
    /\ status' = [status EXCEPT ![c] = "pending"]
    /\ request' = [request EXCEPT ![c] = "created"]
    /\ UNCHANGED <<result, answer, queued, results, callback, ponged>>

MarkSent(c) ==
    /\ request[c] = "created"
    /\ Exists(c)
    /\ status' = [status EXCEPT ![c] = "sent"]
    /\ request' = [request EXCEPT ![c] = "publishing"]
    /\ UNCHANGED <<result, answer, queued, results, callback, ponged>>

Publish(c) ==
    /\ request[c] = "publishing"
    /\ queued' = queued \cup {c}
    /\ request' = [request EXCEPT ![c] = "waiting"]
    /\ UNCHANGED <<status, result, answer, results, callback, ponged>>

\* publish() raises: the client is not ready, or no PUBACK came in time, in
\* which case the broker may hold the message all the same.
PublishFails(c) ==
    /\ request[c] = "publishing"
    /\ queued' \in {queued, queued \cup {c}}
    /\ request' = [request EXCEPT ![c] = "refused"]
    /\ UNCHANGED <<status, result, answer, results, callback, ponged>>

\* The request answers and touches the row no more.
Return(c, value) ==
    /\ request' = [request EXCEPT ![c] = "returned"]
    /\ answer' = [answer EXCEPT ![c] = value]

\* Fault: the refused publication is reported and the row left as it is.
RefreshRefusedOnly(c) ==
    /\ request[c] = "refused"
    /\ Exists(c)
    /\ Return(c, "failed")
    /\ UNCHANGED <<status, result, queued, results, callback, ponged>>

\* The refresh after a refused publication: a terminal row is left alone,
\* but the answer is "failed" either way.
RefreshRefused(c) ==
    /\ request[c] = "refused"
    /\ Exists(c)
    /\ IF status[c] \in Verdicts
       THEN Return(c, "failed")
       ELSE /\ request' = [request EXCEPT ![c] = "failing"]
            /\ UNCHANGED answer
    /\ UNCHANGED <<status, result, queued, results, callback, ponged>>

\* A poll, or the refresh after the loop, that finds a terminal row.
SeeVerdict(c) ==
    /\ request[c] = "waiting"
    /\ status[c] \in Verdicts
    /\ Return(c, status[c])
    /\ UNCHANGED <<status, result, queued, results, callback, ponged>>

\* Fault: without an answer the request keeps polling.
DeadlineNever(c) == request[c] = "waiting" /\ UNCHANGED vars

\* The refresh after the loop finds no verdict.
Deadline(c) ==
    /\ request[c] = "waiting"
    /\ Exists(c)
    /\ status[c] \notin Verdicts
    /\ request' = [request EXCEPT ![c] = "timingOut"]
    /\ UNCHANGED <<status, result, answer, queued, results, callback, ponged>>

\* The write that follows: over whatever the row holds by then.
WriteFailed(c) ==
    /\ request[c] \in {"failing", "timingOut"}
    /\ Exists(c)
    /\ status' = [status EXCEPT ![c] = "failed"]
    /\ Return(c, "failed")
    /\ UNCHANGED <<result, queued, results, callback, ponged>>

\* The row was deleted under the request: the refresh or the UPDATE raises.
RowGone(c) ==
    /\ request[c] \in {"created", "refused", "failing", "waiting", "timingOut"}
    /\ ~Exists(c)
    /\ request' = [request EXCEPT ![c] = "gone"]
    /\ UNCHANGED <<status, result, answer, queued, results, callback, ponged>>

\* The process dies under the request; nothing takes the command up again.
Crash(c) ==
    /\ request[c] \notin {"start", "returned", "gone"}
    /\ request' = [request EXCEPT ![c] = "gone"]
    /\ UNCHANGED <<status, result, answer, queued, results, callback, ponged>>

-----------------------------------------------------------------------------
(* The device, and the broker between it and the platform                  *)

\* Deleting the device deletes its commands (ON DELETE CASCADE).
DeleteDevice(c) ==
    /\ Exists(c)
    /\ status' = [status EXCEPT ![c] = "deleted"]
    /\ UNCHANGED <<result, request, answer, queued, results, callback, ponged>>

\* The device answers; the command may be delivered to it again.
Pong(c, report) ==
    /\ c \in queued
    /\ queued' \in {queued, queued \ {c}}
    /\ results' = results \cup {<<c, report>>}
    /\ ponged' = IF report # "failed" THEN ponged \cup {c} ELSE ponged
    /\ UNCHANGED <<status, result, request, answer, callback>>

Lose ==
    /\ \/ \E c \in queued : queued' = queued \ {c} /\ UNCHANGED results
       \/ \E m \in results : results' = results \ {m} /\ UNCHANGED queued
    /\ UNCHANGED <<status, result, request, answer, callback, ponged>>

-----------------------------------------------------------------------------
(* apply_command_result, in the network thread                             *)

\* Fault: every report counts as a pong.
VerdictAlwaysCompleted(report) == "completed"

\* A report without a known status counts as a pong.
Verdict(report) == IF report \in Verdicts THEN report ELSE "completed"

\* Fault: a row that is completed already is handled like any other.
ResultReadAlways(c, report) ==
    /\ callback = NoCallback
    /\ <<c, report>> \in results
    /\ results' \in {results, results \ {<<c, report>>}}
    /\ callback' = IF Exists(c)
                   THEN [command |-> c, verdict |-> Verdict(report),
                         loaded |-> status[c]]
                   ELSE NoCallback
    /\ UNCHANGED <<status, result, request, answer, queued, ponged>>

\* Nothing is done for an unknown or a completed command.
ResultRead(c, report) ==
    /\ callback = NoCallback
    /\ <<c, report>> \in results
    /\ results' \in {results, results \ {<<c, report>>}}
    /\ callback' = IF Exists(c) /\ status[c] # "completed"
                   THEN [command |-> c, verdict |-> Verdict(report),
                         loaded |-> status[c]]
                   ELSE NoCallback
    /\ UNCHANGED <<status, result, request, answer, queued, ponged>>

\* The session writes status only if it differs from what it read.
ResultCommit ==
    /\ callback # NoCallback
    /\ Exists(callback.command)
    /\ status' = [status EXCEPT ![callback.command] =
                     IF callback.verdict = callback.loaded THEN @
                     ELSE callback.verdict]
    /\ result' = [result EXCEPT ![callback.command] = callback.verdict]
    /\ callback' = NoCallback
    /\ UNCHANGED <<request, answer, queued, results, ponged>>

\* The row is gone, or anything else raises: rollback.
ResultAbort ==
    /\ callback # NoCallback
    /\ callback' = NoCallback
    /\ UNCHANGED <<status, result, request, answer, queued, results, ponged>>

-----------------------------------------------------------------------------

RequestStep(c) ==
    \/ MarkSent(c)
    \/ Publish(c)
    \/ PublishFails(c)
    \/ RefreshRefused(c)
    \/ SeeVerdict(c)
    \/ Deadline(c)
    \/ WriteFailed(c)
    \/ RowGone(c)

Next ==
    \/ \E c \in Commands :
          \/ Create(c)
          \/ RequestStep(c)
          \/ Crash(c)
          \/ DeleteDevice(c)
          \/ \E report \in Reports : Pong(c, report) \/ ResultRead(c, report)
    \/ Lose
    \/ ResultCommit
    \/ ResultAbort

\* A request that began is run by its thread, whose waits are all bounded in
\* time.  Nothing is assumed of the broker, the device or the callback.
Fairness == \A c \in Commands : WF_vars(RequestStep(c))

Spec == Init /\ [][Next]_vars /\ Fairness

-----------------------------------------------------------------------------

TypeOK ==
    /\ status \in [Commands -> Statuses]
    /\ result \in [Commands -> {"none"} \cup Verdicts]
    /\ request \in [Commands -> RequestPCs]
    /\ answer \in [Commands -> {"none"} \cup Verdicts]
    /\ queued \subseteq Commands
    /\ results \subseteq Commands \X Reports
    /\ callback \in Callback
    /\ ponged \subseteq Commands

\* "completed" is not made up: neither the row nor the HTTP answer says it of
\* a command the device did not complete, whatever was lost or timed out.
CompletedMeansPonged ==
    \A c \in Commands :
        status[c] = "completed" \/ answer[c] = "completed" => c \in ponged

\* Once the operator was told "completed", the row says so until it is
\* deleted: no duplicate and no late answer takes it back.
ReportedCompletionStays ==
    \A c \in Commands :
        answer[c] = "completed" => status[c] \in {"completed", "deleted"}

\* When the operator has an answer the row is settled: no command is left
\* "sent" by a request that returned.
ReturnedMeansSettled ==
    \A c \in Commands :
        request[c] = "returned" => status[c] \in Verdicts \cup {"deleted"}

\* A ping comes back: it waits for a broker and a device that may never
\* answer, but not forever.
PingComesBack ==
    \A c \in Commands :
        request[c] = "created" ~> request[c] \in {"returned", "gone"}
=============================================================================
