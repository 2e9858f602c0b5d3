------------------------- MODULE PingCommandProofs -------------------------
(***************************************************************************)
(* Theorems about PingCommand, for any number of commands whose answers    *)
(* are lost, late or repeated.                                             *)
(***************************************************************************)
EXTENDS PingCommand, TLAPS

\* What travels is true: a report other than "failed", on its way or in the
\* callback's hands, was given by the device.
ReportsAreGenuine ==
    /\ \A m \in results : m[2] # "failed" => m[1] \in ponged
    /\ callback.command # NoCommand /\ callback.verdict = "completed" =>
           callback.command \in ponged

\* The network thread handles one result at a time, and nobody else completes
\* a row, so the row it read as not completed is still not completed.
CallbackRowNotCompleted ==
    \/ callback = NoCallback
    \/ /\ callback.command \in Commands
       /\ status[callback.command] # "completed"

\* Only a request that returned has an answer.
AnswersAreFinal ==
    \A c \in Commands : answer[c] # "none" => request[c] = "returned"

PingInv ==
    /\ TypeOK
    /\ ReportsAreGenuine
    /\ CallbackRowNotCompleted
    /\ AnswersAreFinal
    /\ CompletedMeansPonged
    /\ ReportedCompletionStays
    /\ ReturnedMeansSettled

-----------------------------------------------------------------------------

\* The steps of the HTTP request, the device and the broker leave the callback
\* alone: such a step keeps the invariant if it adds only genuine results, and
\* if for each command it moves row and request along together.
LEMMA RowsKept ==
    ASSUME PingInv, TypeOK', UNCHANGED callback,
           \A m \in results' : m[2] # "failed" => m[1] \in ponged',
           ponged \subseteq ponged',
           \A c \in Commands :
              /\ status'[c] = "completed" => status[c] = "completed"
              /\ answer'[c] # "none" => request'[c] = "returned"
              /\ answer'[c] = "completed" =>
                     /\ answer[c] = "completed" \/ status[c] = "completed"
                     /\ status'[c] \in {status[c], "deleted"}
              /\ request'[c] = "returned" =>
                     status'[c] \in Verdicts \cup {"deleted"}
    PROVE  PingInv'
<1> USE DEF PingInv
<1>1. ReportsAreGenuine'
  BY DEF ReportsAreGenuine
<1>2. CallbackRowNotCompleted'
  BY DEF CallbackRowNotCompleted
<1>3. AnswersAreFinal'
  BY DEF AnswersAreFinal
<1>4. CompletedMeansPonged'
  BY DEF CompletedMeansPonged
<1>5. ReportedCompletionStays'
  BY DEF ReportedCompletionStays
<1>6. ReturnedMeansSettled'
  BY DEF ReturnedMeansSettled
<1> QED
  BY <1>1, <1>2, <1>3, <1>4, <1>5, <1>6

\* A step of the HTTP request.
LEMMA RequestKeeps ==
    ASSUME PingInv, NEW c \in Commands, Create(c) \/ RequestStep(c) \/ Crash(c)
    PROVE  PingInv'
<1>1. /\ UNCHANGED <<results, callback, ponged>>
      /\ \A m \in results : m[2] # "failed" => m[1] \in ponged
  BY DEF PingInv, ReportsAreGenuine, Create, RequestStep, MarkSent, Publish,
         PublishFails, RefreshRefused, SeeVerdict, Deadline, WriteFailed, RowGone,
         Crash, Return
<1> DEFINE Along(d) ==
        /\ status'[d] = "completed" => status[d] = "completed"
        /\ answer'[d] # "none" => request'[d] = "returned"
        /\ answer'[d] = "completed" =>
               /\ answer[d] = "completed" \/ status[d] = "completed"
               /\ status'[d] \in {status[d], "deleted"}
        /\ request'[d] = "returned" =>
               status'[d] \in Verdicts \cup {"deleted"}
<1> USE DEF PingInv, TypeOK, AnswersAreFinal, ReturnedMeansSettled, Statuses,
            Verdicts, RequestPCs, Exists, Return
<1>2. CASE Create(c)
  <2>1. TypeOK' /\ \A d \in Commands : Along(d)
    BY <1>2 DEF Create
  <2> QED
    BY ONLY PingInv, <1>1, <2>1, RowsKept
<1>3. CASE MarkSent(c)
  <2>1. TypeOK' /\ \A d \in Commands : Along(d)
    BY <1>3 DEF MarkSent
  <2> QED
    BY ONLY PingInv, <1>1, <2>1, RowsKept
<1>4. CASE Publish(c)
  <2>1. TypeOK' /\ \A d \in Commands : Along(d)
    BY <1>4 DEF Publish
  <2> QED
    BY ONLY PingInv, <1>1, <2>1, RowsKept
<1>5. CASE PublishFails(c)
  <2>1. TypeOK' /\ \A d \in Commands : Along(d)
    BY <1>5 DEF PublishFails
  <2> QED
    BY ONLY PingInv, <1>1, <2>1, RowsKept
<1>6. CASE RefreshRefused(c)
  <2>1. TypeOK' /\ \A d \in Commands : Along(d)
    BY <1>6 DEF RefreshRefused
  <2> QED
    BY ONLY PingInv, <1>1, <2>1, RowsKept
<1>7. CASE SeeVerdict(c)
  <2>1. TypeOK' /\ \A d \in Commands : Along(d)
    BY <1>7 DEF SeeVerdict
  <2> QED
    BY ONLY PingInv, <1>1, <2>1, RowsKept
<1>8. CASE Deadline(c)
  <2>1. TypeOK' /\ \A d \in Commands : Along(d)
    BY <1>8 DEF Deadline
  <2> QED
    BY ONLY PingInv, <1>1, <2>1, RowsKept
<1>9. CASE WriteFailed(c)
  <2>1. TypeOK' /\ \A d \in Commands : Along(d)
    BY <1>9 DEF WriteFailed
  <2> QED
    BY ONLY PingInv, <1>1, <2>1, RowsKept
<1>10. CASE RowGone(c)
  <2>1. TypeOK' /\ \A d \in Commands : Along(d)
    BY <1>10 DEF RowGone
  <2> QED
    BY ONLY PingInv, <1>1, <2>1, RowsKept
<1>11. CASE Crash(c)
  <2>1. TypeOK' /\ \A d \in Commands : Along(d)
    BY <1>11 DEF Crash
  <2> QED
    BY ONLY PingInv, <1>1, <2>1, RowsKept
<1> QED
  BY <1>2, <1>3, <1>4, <1>5, <1>6, <1>7, <1>8, <1>9, <1>10, <1>11 DEF RequestStep

\* A deletion, an answer of the device, or a loss.
LEMMA EnvironmentKeeps ==
    ASSUME PingInv,
           \/ \E c \in Commands :
                 DeleteDevice(c) \/ \E report \in Reports : Pong(c, report)
           \/ Lose
    PROVE  PingInv'
<1>1. CASE \E c \in Commands : DeleteDevice(c)
  <2>1. PICK c \in Commands : DeleteDevice(c)
    BY <1>1
  <2>2. TypeOK'
    BY <2>1 DEF DeleteDevice, PingInv, TypeOK, Statuses
  <2> QED
    BY <2>1, <2>2, RowsKept
       DEF DeleteDevice, PingInv, TypeOK, ReportsAreGenuine, AnswersAreFinal,
           ReturnedMeansSettled
<1>2. CASE \E c \in Commands, report \in Reports : Pong(c, report)
  <2>1. PICK c \in Commands, report \in Reports : Pong(c, report)
    BY <1>2
  <2>2. TypeOK'
    BY <2>1 DEF Pong, PingInv, TypeOK
  <2>3. \A m \in results' : m[2] # "failed" => m[1] \in ponged'
    BY <2>1 DEF Pong, PingInv, ReportsAreGenuine
  <2> QED
    BY <2>1, <2>2, <2>3, RowsKept
       DEF Pong, PingInv, AnswersAreFinal, ReturnedMeansSettled
<1>3. CASE Lose
  <2>1. TypeOK'
    BY <1>3 DEF Lose, PingInv, TypeOK
  <2>2. \A m \in results' : m[2] # "failed" => m[1] \in ponged'
    BY <1>3 DEF Lose, PingInv, ReportsAreGenuine
  <2> QED
    BY <1>3, <2>1, <2>2, RowsKept
       DEF Lose, PingInv, AnswersAreFinal, ReturnedMeansSettled
<1> QED
  BY <1>1, <1>2, <1>3

\* The network thread takes up a result: what it holds is genuine and the row
\* it read is not completed.
LEMMA ResultReadKeeps ==
    ASSUME PingInv, NEW c \in Commands, NEW report \in Reports,
           ResultRead(c, report)
    PROVE  PingInv'
<1>1. callback' = NoCallback
      \/ /\ Exists(c) /\ status[c] # "completed"
         /\ callback' = [command |-> c, verdict |-> Verdict(report),
                         loaded |-> status[c]]
  BY DEF ResultRead
<1>2. /\ results' \subseteq results
      /\ <<c, report>> \in results
      /\ UNCHANGED <<status, result, request, answer, queued, ponged>>
  BY DEF ResultRead
<1>3. Verdict(report) \in Verdicts
      /\ (Verdict(report) = "completed" => report # "failed")
  BY DEF Verdict, Verdicts
<1>4. callback' \in Callback
  <2>1. NoCallback \in Callback
    BY DEF NoCallback, Callback, Verdicts, Statuses
  <2>2. status[c] \in Statuses
    BY DEF PingInv, TypeOK
  <2> QED
    BY <1>1, <1>3, <2>1, <2>2 DEF Callback
<1>5. TypeOK'
  BY <1>2, <1>4 DEF PingInv, TypeOK
<1>6. ReportsAreGenuine'
  <2>1. report # "failed" => c \in ponged
    BY <1>2 DEF PingInv, ReportsAreGenuine
  <2> QED
    BY <1>1, <1>2, <1>3, <2>1 DEF PingInv, ReportsAreGenuine, NoCallback
<1>7. CallbackRowNotCompleted'
  BY <1>1, <1>2 DEF CallbackRowNotCompleted, NoCallback
<1> QED
  BY <1>2, <1>5, <1>6, <1>7
     DEF PingInv, AnswersAreFinal, CompletedMeansPonged,
         ReportedCompletionStays, ReturnedMeansSettled

\* It commits: the row becomes what was reported, or stays as it is if the
\* thread read it so; in both cases it is settled unless the request still
\* works on it, and it was not completed before.
LEMMA ResultCommitKeeps ==
    ASSUME PingInv, ResultCommit
    PROVE  PingInv'
<1> DEFINE c == callback.command
<1>1. /\ c \in Commands
      /\ callback.verdict \in Verdicts
      /\ callback \in Callback
      /\ status[c] \in Statuses
      /\ Exists(c)
  BY DEF PingInv, TypeOK, CallbackRowNotCompleted, Callback, ResultCommit
<1>2. /\ status[c] # "completed"
      /\ callback.verdict = "completed" => c \in ponged
  BY <1>1, PingAssumption
     DEF PingInv, CallbackRowNotCompleted, ReportsAreGenuine, ResultCommit
<1>3. /\ UNCHANGED <<request, answer, queued, results, ponged>>
      /\ callback' = NoCallback
      /\ \A d \in Commands : d # c => status'[d] = status[d]
      /\ status'[c] \in {status[c], callback.verdict}
  BY <1>1 DEF ResultCommit, PingInv, TypeOK
<1>4. TypeOK'
  <2>1. NoCallback \in Callback
    BY DEF NoCallback, Callback, Verdicts, Statuses
  <2> QED
    BY <1>1, <1>3, <2>1 DEF ResultCommit, PingInv, TypeOK, Statuses, Verdicts
<1>5. ReportsAreGenuine' /\ CallbackRowNotCompleted' /\ AnswersAreFinal'
  BY <1>3
     DEF PingInv, ReportsAreGenuine, CallbackRowNotCompleted, AnswersAreFinal,
         NoCallback
<1>6. CompletedMeansPonged'
  BY <1>2, <1>3 DEF PingInv, CompletedMeansPonged
<1>7. ReportedCompletionStays'
  BY <1>1, <1>2, <1>3 DEF PingInv, ReportedCompletionStays, Exists
<1>8. ReturnedMeansSettled'
  BY <1>1, <1>3 DEF PingInv, ReturnedMeansSettled
<1> QED
  BY <1>4, <1>5, <1>6, <1>7, <1>8 DEF PingInv

\* A callback whose transaction fails keeps the invariant.
LEMMA ResultAbortKeeps ==
    ASSUME PingInv, ResultAbort
    PROVE  PingInv'
<1>1. NoCallback \in Callback
  BY DEF NoCallback, Callback, Verdicts, Statuses
<1> QED
  BY <1>1
     DEF ResultAbort, PingInv, TypeOK, ReportsAreGenuine,
         CallbackRowNotCompleted, AnswersAreFinal, CompletedMeansPonged,
         ReportedCompletionStays, ReturnedMeansSettled, NoCallback

-----------------------------------------------------------------------------

\* The invariant the theorems rest on, for any number of commands.
THEOREM PingInvariant == Spec => []PingInv
<1>1. Init => PingInv
  BY DEF Init, PingInv, TypeOK, ReportsAreGenuine, CallbackRowNotCompleted,
         AnswersAreFinal, CompletedMeansPonged, ReportedCompletionStays,
         ReturnedMeansSettled, NoCallback, Callback, Statuses, Verdicts,
         RequestPCs
<1>2. PingInv /\ [Next]_vars => PingInv'
  <2> SUFFICES ASSUME PingInv, [Next]_vars
               PROVE  PingInv'
    OBVIOUS
  <2>1. CASE \E c \in Commands : Create(c) \/ RequestStep(c) \/ Crash(c)
    BY <2>1, RequestKeeps
  <2>2. CASE \/ \E c \in Commands :
                  DeleteDevice(c) \/ \E report \in Reports : Pong(c, report)
             \/ Lose
    BY <2>2, EnvironmentKeeps
  <2>3. CASE \E c \in Commands, report \in Reports : ResultRead(c, report)
    BY <2>3, ResultReadKeeps
  <2>4. CASE ResultCommit
    BY <2>4, ResultCommitKeeps
  <2>5. CASE ResultAbort
    BY <2>5, ResultAbortKeeps
  <2>6. CASE UNCHANGED vars
    BY <2>6
       DEF vars, PingInv, TypeOK, ReportsAreGenuine, CallbackRowNotCompleted,
           AnswersAreFinal, CompletedMeansPonged, ReportedCompletionStays,
           ReturnedMeansSettled
  <2> QED
    BY <2>1, <2>2, <2>3, <2>4, <2>5, <2>6 DEF Next
<1> QED
  BY <1>1, <1>2, PTL DEF Spec

\* The row, the request and the messages keep their types.
THEOREM PingTypeCorrect == Spec => []TypeOK
<1>1. PingInv => TypeOK
  BY DEF PingInv
<1> QED
  BY <1>1, PingInvariant, PTL

\* Neither the row nor the HTTP answer says "completed" of a command its
\* device did not complete (apply_command_result, send_ping), however many
\* commands, duplicates, losses and timeouts there are.
THEOREM CompletionIsTrue == Spec => []CompletedMeansPonged
<1>1. PingInv => CompletedMeansPonged
  BY DEF PingInv
<1> QED
  BY <1>1, PingInvariant, PTL

\* No duplicate and no late answer takes back what the operator was told
\* (the early return of apply_command_result on a completed row).
THEOREM CompletionStays == Spec => []ReportedCompletionStays
<1>1. PingInv => ReportedCompletionStays
  BY DEF PingInv
<1> QED
  BY <1>1, PingInvariant, PTL

\* A request that returned leaves a settled row: send_ping writes "failed"
\* itself if nobody else settled it.
THEOREM AnsweredIsSettled == Spec => []ReturnedMeansSettled
<1>1. PingInv => ReturnedMeansSettled
  BY DEF PingInv
<1> QED
  BY <1>1, PingInvariant, PTL
=============================================================================
