--------------------------- MODULE PresenceProofs ---------------------------
(***************************************************************************)
(* Proofs about Presence: its type invariant, that a run with a replaced   *)
(* password never takes the session from one with a newer one, and that    *)
(* the row says what is so once everything in flight has arrived.          *)
(***************************************************************************)
EXTENDS Presence, SequenceTheorems, TLAPS

\* Nobody holds a password that was not issued.
HeldInv == \A c \in Clients : held[c] <= password

\* What a run can have on the wire: its greeting, and the farewell of stop; and
\* what a probe can, which tests with one message.
Hello == <<"online">>
Farewell == <<"offline", "disconnect">>
Bye == <<"disconnect">>
Visit == <<"online", "offline", "disconnect">>
Note(m) == <<m, "disconnect">>
Notes == {Note(m) : m \in Messages}

\* What its session has announced when the broker has read that much of it.
OnWire(c) ==
    /\ wire[c] \in {<<>>, Hello, Visit, Farewell, Bye}
    /\ Owner # c => wire[c] = <<>>
    /\ Owner = c /\ link[c] = "up" => wire[c] \in {<<>>, Hello}
    /\ Owner = c /\ wire[c] = <<>> => retained = "online"
    /\ Owner = c /\ wire[c] = Bye => retained = "offline"

SessionInv ==
    /\ \A c \in Runs : OnWire(c)
    /\ \A c \in Probes : wire[c] \in {<<>>, Bye} \cup Notes
    /\ Owner = NoClient => retained # "online"

NoStatus(s) == \A n \in 1 .. Len(s) : s[n] \notin Statuses

\* The last status of a sequence.
LastStatus(s, status) ==
    /\ status \in Statuses
    /\ \E n \in 1 .. Len(s) :
           /\ s[n] = status
           /\ \A m \in 1 .. Len(s) : m > n => s[m] \notin Statuses

\* What the platform has been sent ends with the retained status, unless others
\* than the runs published one since; when it has handled all, the row holds that.
QueueInv ==
    /\ platform = "down" => queue = <<>>
    /\ platform = "up" /\ ~foreign =>
           \/ LastStatus(queue, retained)
           \/ NoStatus(queue) /\ (failed \/ row = retained)
    /\ retained = "none" /\ ~foreign => row = "none"

PresenceInv == TypeOK /\ HeldInv /\ SessionInv /\ QueueInv

-----------------------------------------------------------------------------
(* Statuses on their way to the platform                                   *)

\* A status that is queued is the last one.
LEMMA AppendedStatus ==
    ASSUME NEW s \in Seq(Messages), NEW status \in Statuses
    PROVE  LastStatus(Append(s, status), status)
<1>1. Len(Append(s, status)) = Len(s) + 1 /\ Append(s, status)[Len(s) + 1] = status
    BY DEF Messages
<1>2. Len(s) \in Nat
    OBVIOUS
<1> QED
    BY <1>1, <1>2 DEF LastStatus

\* A message of another kind changes no status.
LEMMA AppendedText ==
    ASSUME NEW s \in Seq(Messages)
    PROVE  /\ \A status : LastStatus(s, status) => LastStatus(Append(s, "text"), status)
           /\ NoStatus(s) => NoStatus(Append(s, "text"))
<1>1. /\ Len(Append(s, "text")) = Len(s) + 1
      /\ Append(s, "text")[Len(s) + 1] = "text"
      /\ \A n \in 1 .. Len(s) : Append(s, "text")[n] = s[n]
    BY DEF Messages
<1>2. Len(s) \in Nat /\ "text" \notin Statuses
    BY DEF Statuses
<1>3. \A n \in 1 .. Len(s) + 1 : n \in 1 .. Len(s) \/ n = Len(s) + 1
    BY <1>2
<1>4. \A n \in 1 .. Len(s) : n \in 1 .. Len(s) + 1
    BY <1>2
<1>5. ASSUME NEW status, LastStatus(s, status)
      PROVE  LastStatus(Append(s, "text"), status)
    <2>1. PICK n \in 1 .. Len(s) : /\ s[n] = status
                                   /\ \A m \in 1 .. Len(s) : m > n => s[m] \notin Statuses
        BY <1>5 DEF LastStatus
    <2>2. \A m \in 1 .. Len(s) + 1 : m > n => Append(s, "text")[m] \notin Statuses
        BY <1>1, <1>2, <1>3, <2>1
    <2>3. n \in 1 .. Len(s) + 1 /\ Append(s, "text")[n] = status
        BY <1>1, <1>4, <2>1
    <2> QED
        BY <1>1, <1>5, <2>2, <2>3 DEF LastStatus
<1>6. NoStatus(s) => NoStatus(Append(s, "text"))
    BY <1>1, <1>2, <1>3 DEF NoStatus
<1> QED
    BY <1>5, <1>6

\* The last status stays, or was the message just handled.
LEMMA HandledStatus ==
    ASSUME NEW s \in Seq(Messages), s # <<>>
    PROVE  /\ \A status : LastStatus(s, status) =>
                  \/ LastStatus(Tail(s), status)
                  \/ NoStatus(Tail(s)) /\ Head(s) = status
           /\ NoStatus(s) => NoStatus(Tail(s)) /\ Head(s) \notin Statuses
<1>1. /\ Len(s) \in Nat /\ Len(s) >= 1
      /\ Len(Tail(s)) = Len(s) - 1
      /\ \A n \in 1 .. Len(s) - 1 : Tail(s)[n] = s[n + 1]
      /\ Head(s) = s[1]
    OBVIOUS
<1>2. ASSUME NEW status, LastStatus(s, status)
      PROVE  \/ LastStatus(Tail(s), status)
             \/ NoStatus(Tail(s)) /\ Head(s) = status
    <2>1. PICK n \in 1 .. Len(s) : /\ s[n] = status
                                   /\ \A m \in 1 .. Len(s) : m > n => s[m] \notin Statuses
        BY <1>2 DEF LastStatus
    <2>2. CASE n = 1
        <3>1. \A m \in 1 .. Len(s) - 1 : Tail(s)[m] \notin Statuses
            BY <1>1, <2>1, <2>2
        <3> QED
            BY <1>1, <2>1, <2>2, <3>1 DEF NoStatus
    <2>3. CASE n > 1
        <3>1. n - 1 \in 1 .. Len(s) - 1 /\ Tail(s)[n - 1] = status
            BY <1>1, <2>1, <2>3
        <3>2. \A m \in 1 .. Len(s) - 1 : m > n - 1 => Tail(s)[m] \notin Statuses
            BY <1>1, <2>1, <2>3
        <3> QED
            BY <1>1, <1>2, <3>1, <3>2 DEF LastStatus
    <2> QED
        BY <1>1, <2>2, <2>3
<1>3. NoStatus(s) => NoStatus(Tail(s)) /\ Head(s) \notin Statuses
    BY <1>1 DEF NoStatus
<1> QED
    BY <1>2, <1>3

\* What is handed on fits the queue.
LEMMA SentFits ==
    ASSUME TypeOK, HasRoom, NEW message \in Messages, NEW byRun \in BOOLEAN,
           Send(message, byRun)
    PROVE  /\ queue' \in Seq(Messages) /\ Len(queue') <= MaxQueue
           /\ foreign' \in BOOLEAN
<1>1. /\ queue \in Seq(Messages) /\ Len(queue) \in Nat
      /\ Len(queue) < MaxQueue /\ MaxQueue \in Nat
      /\ foreign \in BOOLEAN
    BY PresenceAssumption DEF TypeOK, HasRoom
<1>2. queue' \in Seq(Messages) /\ Len(queue') <= MaxQueue
    <2>1. queue' = queue \/ queue' = Append(queue, message)
        BY DEF Send
    <2>2. Append(queue, message) \in Seq(Messages) /\ Len(Append(queue, message)) = Len(queue) + 1
        BY <1>1
    <2> QED
        BY <1>1, <2>1, <2>2
<1>3. foreign' \in BOOLEAN
    BY <1>1 DEF Send
<1> QED
    BY <1>2, <1>3

\* What the broker hands on of a run keeps the platform's end in line with it.
LEMMA PublishedInLine ==
    ASSUME TypeOK, QueueInv, HasRoom, NEW status \in Statuses,
           Publish(status), UNCHANGED <<platform, row, failed>>
    PROVE  /\ queue' \in Seq(Messages) /\ Len(queue') <= MaxQueue
           /\ foreign' \in BOOLEAN
           /\ retained' \in Statuses \cup {"none"}
           /\ retained' = status
           /\ QueueInv'
<1>1. /\ queue \in Seq(Messages)
      /\ platform \in {"up", "down"}
      /\ status \in Messages /\ status # "none"
    BY DEF TypeOK, Messages, Statuses
<1>2. retained' = status /\ Send(status, TRUE)
    BY DEF Publish, Retain
<1>3. queue' \in Seq(Messages) /\ Len(queue') <= MaxQueue /\ foreign' \in BOOLEAN
    BY <1>1, <1>2, SentFits
<1>4. CASE platform = "down"
    <2>1. queue' = queue /\ queue = <<>>
        BY <1>2, <1>4 DEF Send, QueueInv
    <2> QED
        BY <1>1, <1>2, <1>3, <1>4, <2>1 DEF QueueInv
<1>5. CASE platform = "up"
    <2>1. queue' = Append(queue, status)
        BY <1>2, <1>5 DEF Send
    <2>2. LastStatus(queue, retained)'
        BY <1>1, <1>2, <2>1, AppendedStatus
    <2> QED
        BY <1>1, <1>2, <1>3, <1>5, <2>2 DEF QueueInv
<1> QED
    BY <1>1, <1>4, <1>5

\* So does what it hands on of anybody else, a status included.
LEMMA TestedInLine ==
    ASSUME TypeOK, QueueInv, HasRoom, NEW message \in Messages,
           PublishTest(message), UNCHANGED <<platform, row, failed>>
    PROVE  /\ queue' \in Seq(Messages) /\ Len(queue') <= MaxQueue
           /\ foreign' \in BOOLEAN
           /\ UNCHANGED retained
           /\ QueueInv'
<1>1. /\ queue \in Seq(Messages)
      /\ platform \in {"up", "down"} /\ foreign \in BOOLEAN
    BY DEF TypeOK
<1>2. UNCHANGED retained /\ Send(message, FALSE)
    BY DEF PublishTest
<1>3. queue' \in Seq(Messages) /\ Len(queue') <= MaxQueue /\ foreign' \in BOOLEAN
    BY <1>2, SentFits
<1>4. CASE platform = "down"
    <2>1. queue' = queue /\ foreign' = foreign
        BY <1>2, <1>4 DEF Send
    <2> QED
        BY <1>2, <1>3, <1>4, <2>1 DEF QueueInv
<1>5. CASE platform = "up" /\ message \in Statuses
    <2>1. foreign' /\ platform' = "up"
        BY <1>2, <1>5 DEF Send
    <2> QED
        BY <1>2, <1>3, <2>1 DEF QueueInv
<1>6. CASE platform = "up" /\ message \notin Statuses
    <2>1. queue' = Append(queue, "text") /\ foreign' = foreign
        BY <1>2, <1>6 DEF Send, Messages
    <2>2. /\ LastStatus(queue, retained) => LastStatus(queue', retained)
          /\ NoStatus(queue) => NoStatus(queue')
        BY <1>1, <2>1, AppendedText
    <2> QED
        BY <1>2, <1>3, <1>6, <2>1, <2>2 DEF QueueInv
<1> QED
    BY <1>1, <1>4, <1>5, <1>6

-----------------------------------------------------------------------------
(* What a step leaves as it was                                            *)

\* Who neither sends nor connects keeps what is said of the sessions.
LEMMA SessionStays ==
    ASSUME SessionInv, UNCHANGED <<session, wire, retained>>,
           \A c \in Runs : link'[c] = "up" => link[c] = "up"
    PROVE  SessionInv'
    BY DEF SessionInv, OnWire, Owner

\* Who sends nothing to the platform keeps what is said of the queue.
LEMMA QueueStays ==
    ASSUME QueueInv, UNCHANGED <<platform, queue, row, failed, foreign, retained>>
    PROVE  QueueInv'
    BY DEF QueueInv

\* Who reads no password keeps what is said of the held ones.
LEMMA HeldStays ==
    ASSUME HeldInv, TypeOK, UNCHANGED <<held, password>>
    PROVE  HeldInv'
    BY DEF HeldInv

\* A run's client id is no other client's.
LEMMA RunsShareAnId ==
    ASSUME TypeOK
    PROVE  /\ \A c \in Clients : IdOf(c) = "run" <=> c \in Runs
           /\ \A c \in Clients : IdOf(c) \in Ids
           /\ Owner \in Runs \cup {NoClient}
           /\ NoClient \notin Clients
           /\ \A c \in Probes : c \notin Runs /\ IdOf(c) = c
<1>1. /\ \A c \in Clients : (c \in Runs \/ c \in Probes)
      /\ \A c \in Probes : c \notin Runs /\ c # "run"
      /\ NoClient \notin Clients
    BY PresenceAssumption DEF Clients
<1>2. \A c \in Clients : /\ IdOf(c) = "run" <=> c \in Runs
                         /\ IdOf(c) \in Ids
                         /\ c \in Probes => IdOf(c) = c
    BY <1>1 DEF IdOf, Ids
<1>3. Owner \in Clients \cup {NoClient} /\ (Owner # NoClient => IdOf(Owner) = "run")
    BY DEF Owner, TypeOK, Ids
<1> QED
    BY <1>1, <1>2, <1>3 DEF Clients

\* The invariant holds at the start.
LEMMA InitPresence == Init => PresenceInv
<1> SUFFICES ASSUME Init PROVE PresenceInv
    OBVIOUS
<1>1. <<>> \in Seq(Packets) /\ <<>> \in Seq(Messages) /\ Len(<<>>) = 0
    OBVIOUS
<1>2. TypeOK
    <2>1. held \in [Clients -> 0 .. MaxPassword] /\ link \in [Clients -> {"new", "trying", "up", "over"}]
        BY PresenceAssumption DEF Init
    <2>2. session \in [Ids -> Clients \cup {NoClient}]
        BY DEF Init
    <2>3. wire \in [Clients -> Seq(Packets)] /\ queue \in Seq(Messages)
        BY <1>1 DEF Init
    <2>4. password \in 1 .. MaxPassword /\ stored \in 1 .. password
        BY PresenceAssumption DEF Init
    <2>5. faults \in 0 .. MaxFaults /\ Len(queue) <= MaxQueue
        BY <1>1, PresenceAssumption DEF Init
    <2>6. \A i \in Ids : session[i] = NoClient
        BY DEF Init
    <2> QED
        BY <2>1, <2>2, <2>3, <2>4, <2>5, <2>6 DEF TypeOK, Init
<1>3. HeldInv
    BY DEF Init, HeldInv
<1>4. SessionInv
    <2>1. /\ Owner = NoClient /\ retained = "none"
          /\ \A c \in Clients : wire[c] = <<>>
        BY DEF Init, Owner, Ids
    <2>2. NoClient \notin Runs
        BY PresenceAssumption
    <2> QED
        BY <2>1, <2>2 DEF SessionInv, OnWire, Clients
<1>5. QueueInv
    BY DEF Init, QueueInv
<1> QED
    BY <1>2, <1>3, <1>4, <1>5 DEF PresenceInv

-----------------------------------------------------------------------------
(* The clients' own steps, and those of operators and registration         *)

Links == {"new", "trying", "up", "over"}

\* A client that goes on trying, or gives up, keeps it.
LEMMA LinkSteps ==
    ASSUME PresenceInv, NEW c \in Clients, NEW next \in Links \ {"up"},
           link' = [link EXCEPT ![c] = next],
           UNCHANGED <<session, wire, retained, platformVars, deviceVars>>,
           held' = held \/ held' = [held EXCEPT ![c] = stored],
           faults' \in 0 .. MaxFaults
    PROVE  PresenceInv'
<1> USE DEF PresenceInv, platformVars, deviceVars
<1>1. link' \in [Clients -> Links] /\ \A d \in Clients : link'[d] = "up" => link[d] = "up"
    BY DEF TypeOK, Links
<1>2. stored \in 0 .. MaxPassword /\ stored <= password
    BY PresenceAssumption DEF TypeOK
<1>3. held' \in [Clients -> 0 .. MaxPassword] /\ HeldInv'
    BY <1>2, PresenceAssumption DEF TypeOK, HeldInv
<1>4. TypeOK'
    BY <1>1, <1>3 DEF TypeOK, Links
<1>5. SessionInv'
    BY <1>1, SessionStays DEF Clients
<1>6. QueueInv'
    BY QueueStays
<1> QED
    BY <1>3, <1>4, <1>5, <1>6

\* A connection that is cut stays within the bound of faults.
LEMMA CutCounts == TypeOK /\ Cut => faults' \in 0 .. MaxFaults
    BY PresenceAssumption DEF TypeOK, Cut

\* Steps of a client that send nothing keep the invariant.
LEMMA ClientSteps ==
    ASSUME PresenceInv, NEW c \in Clients,
           Start(c) \/ Drop(c) \/ Notice(c) \/ Kill(c) \/ GiveUp(c)
    PROVE  PresenceInv'
<1>0. TypeOK /\ faults \in 0 .. MaxFaults
    BY DEF PresenceInv, TypeOK
<1>1. CASE Start(c)
    BY <1>0, <1>1, LinkSteps DEF Start, Links
<1>2. CASE Drop(c)
    <2>1. faults' \in 0 .. MaxFaults
        BY <1>0, <1>2, CutCounts DEF Drop
    <2> DEFINE next == IF c \in Runs THEN "trying" ELSE "over"
    <2>2. next \in Links \ {"up"}
        BY DEF Links
    <2>3. /\ link' = [link EXCEPT ![c] = next]
          /\ UNCHANGED <<held, session, wire, retained, platformVars, deviceVars>>
        BY <1>2 DEF Drop
    <2> HIDE DEF next
    <2> QED
        BY <2>1, <2>2, <2>3, LinkSteps
<1>3. CASE Notice(c)
    BY <1>0, <1>3, LinkSteps DEF Notice, Links
<1>4. CASE Kill(c)
    BY <1>0, <1>4, LinkSteps DEF Kill, Links
<1>5. CASE GiveUp(c)
    BY <1>0, <1>5, LinkSteps DEF GiveUp, Links
<1> QED
    BY <1>1, <1>2, <1>3, <1>4, <1>5

\* So do the operator and the agent's files.
LEMMA DeviceSteps ==
    ASSUME PresenceInv, SetEnabled \/ Issue \/ Store
    PROVE  PresenceInv'
<1> USE DEF PresenceInv, platformVars
<1>1. UNCHANGED <<link, held, session, wire, retained, platform, queue, row,
                  failed, foreign, faults>>
    BY DEF SetEnabled, Issue, Store
<1>2. SessionInv' /\ QueueInv'
    BY <1>1, SessionStays, QueueStays
<1>3. /\ enabled' \in BOOLEAN
      /\ password' \in 1 .. MaxPassword /\ password <= password'
      /\ stored' \in 1 .. password'
    <2>1. /\ enabled \in BOOLEAN /\ MaxPassword \in Nat
          /\ password \in 1 .. MaxPassword /\ stored \in 1 .. password
        BY PresenceAssumption DEF TypeOK
    <2>2. CASE SetEnabled
        BY <2>1, <2>2 DEF SetEnabled
    <2>3. CASE Issue
        BY <2>1, <2>3 DEF Issue
    <2>4. CASE Store
        BY <2>1, <2>4 DEF Store
    <2> QED
        BY <2>2, <2>3, <2>4
<1>4. TypeOK'
    BY <1>1, <1>3 DEF TypeOK
<1>5. HeldInv'
    BY <1>1, <1>3, PresenceAssumption DEF HeldInv, TypeOK
<1> QED
    BY <1>2, <1>4, <1>5

-----------------------------------------------------------------------------
(* The platform's end                                                      *)

\* So does the callback, whether its transaction succeeds or not.
LEMMA RowSteps ==
    ASSUME PresenceInv, Apply \/ ApplyFails
    PROVE  PresenceInv'
<1> USE DEF PresenceInv, deviceVars
<1>1. /\ queue \in Seq(Messages) /\ queue # <<>> /\ Len(queue) \in Nat
      /\ Len(queue) <= MaxQueue /\ MaxQueue \in Nat
      /\ queue' = Tail(queue)
      /\ UNCHANGED <<link, held, session, wire, retained, platform, foreign,
                     enabled, password, stored, faults>>
    BY PresenceAssumption DEF TypeOK, Apply, ApplyFails
<1>2. /\ queue' \in Seq(Messages) /\ Len(queue') <= MaxQueue
      /\ Head(queue) \in Messages
    BY <1>1
<1>3. /\ LastStatus(queue, retained) =>
             \/ LastStatus(queue', retained)
             \/ NoStatus(queue') /\ Head(queue) = retained
      /\ NoStatus(queue) => NoStatus(queue') /\ Head(queue) \notin Statuses
    BY <1>1, HandledStatus
<1>4. LastStatus(queue, retained) => retained \in Statuses
    BY DEF LastStatus
<1>5. "up" # "down" /\ "none" \notin Statuses /\ platform \in {"up", "down"}
    BY DEF TypeOK, Statuses
<1>6. platform = "up"
    BY <1>1, <1>5 DEF QueueInv
<1>7. /\ row \in Statuses \cup {"none"} /\ failed \in BOOLEAN
      /\ retained = "none" /\ ~foreign => row = "none" /\ Head(queue) \notin Statuses
    BY <1>3, <1>4, <1>5, <1>6 DEF TypeOK, QueueInv
<1>8. /\ row' \in Statuses \cup {"none"} /\ failed' \in BOOLEAN
      /\ QueueInv'
    <2>1. CASE Apply
        <3>1. /\ Head(queue) \in Statuses => row' = Head(queue) /\ ~failed'
              /\ Head(queue) \notin Statuses => row' = row /\ (failed' <=> failed)
            BY <1>7, <2>1 DEF Apply, StatusOf
        <3>2. ASSUME ~foreign
              PROVE  \/ LastStatus(queue', retained)
                     \/ NoStatus(queue') /\ (failed' \/ row' = retained)
            <4>1. CASE LastStatus(queue, retained)
                BY <1>3, <1>4, <3>1, <4>1
            <4>2. CASE NoStatus(queue) /\ (failed \/ row = retained)
                <5>1. NoStatus(queue') /\ Head(queue) \notin Statuses
                    BY <1>3, <4>2
                <5>2. failed' \/ row' = retained
                    BY <3>1, <4>2, <5>1, Zenon
                <5> QED
                    BY <5>1, <5>2
            <4> QED
                BY <1>6, <3>2, <4>1, <4>2 DEF QueueInv
        <3>3. /\ platform' = "up" /\ platform' # "down"
              /\ retained' = retained /\ foreign' = foreign
              /\ retained' = "none" /\ ~foreign' => row' = "none"
            BY <1>1, <1>5, <1>6, <1>7, <3>1
        <3>4. failed' \in BOOLEAN /\ row' \in Statuses \cup {"none"}
            BY <1>2, <1>7, <2>1, <3>1 DEF Messages, StatusOf, Apply
        <3> QED
            BY <3>2, <3>3, <3>4 DEF QueueInv
    <2>2. CASE ApplyFails
        <3>1. /\ row' = row
              /\ Head(queue) \in Statuses => failed'
              /\ Head(queue) \notin Statuses => (failed' <=> failed)
              /\ failed' \in BOOLEAN
            BY <1>7, <2>2 DEF ApplyFails
        <3>2. ASSUME ~foreign
              PROVE  \/ LastStatus(queue', retained)
                     \/ NoStatus(queue') /\ (failed' \/ row' = retained)
            <4>1. CASE LastStatus(queue, retained)
                BY <1>3, <1>4, <3>1, <4>1
            <4>2. CASE NoStatus(queue) /\ (failed \/ row = retained)
                <5>1. NoStatus(queue') /\ Head(queue) \notin Statuses
                    BY <1>3, <4>2
                <5>2. failed' \/ row' = retained
                    BY <3>1, <4>2, <5>1, Zenon
                <5> QED
                    BY <5>1, <5>2
            <4> QED
                BY <1>6, <3>2, <4>1, <4>2 DEF QueueInv
        <3>3. /\ platform' = "up" /\ platform' # "down"
              /\ retained' = retained /\ foreign' = foreign
              /\ retained' = "none" /\ ~foreign' => row' = "none"
            BY <1>1, <1>5, <1>6, <1>7, <3>1
        <3>4. failed' \in BOOLEAN /\ row' \in Statuses \cup {"none"}
            BY <1>2, <1>7, <2>2, <3>1 DEF Messages, StatusOf, Apply
        <3> QED
            BY <3>2, <3>3, <3>4 DEF QueueInv
    <2> QED
        BY <2>1, <2>2
<1>9. TypeOK'
    BY <1>1, <1>2, <1>8 DEF TypeOK, Messages
<1> QED
    BY <1>1, <1>8, <1>9, SessionStays, HeldStays

\* So does the platform that comes or goes: it is given what is retained.
LEMMA PlatformSteps ==
    ASSUME PresenceInv, PlatformUp \/ PlatformDown
    PROVE  PresenceInv'
<1> USE DEF PresenceInv, deviceVars
<1>1. UNCHANGED <<link, held, session, wire, retained, row, failed, enabled,
                  password, stored>>
    BY DEF PlatformUp, PlatformDown
<1>2. retained \in Statuses \cup {"none"} /\ "none" \notin Statuses
      /\ MaxQueue \in Nat /\ MaxQueue >= 1 /\ foreign \in BOOLEAN
    BY PresenceAssumption DEF TypeOK, Statuses
<1>3. CASE PlatformUp
    <2>1. platform' = "up" /\ UNCHANGED faults
        BY <1>3 DEF PlatformUp
    <2>2. CASE retained = "none"
        <3>1. queue' = <<>> /\ foreign' = foreign
            <4>1. queue' = <<>>
                BY <1>3, <2>2 DEF PlatformUp
            <4>2. foreign' = (foreign /\ retained = "none")
                BY <1>3 DEF PlatformUp
            <4>3. foreign' = foreign
                BY <1>2, <2>2, <4>2
            <4> QED
                BY <4>1, <4>3
        <3>2. NoStatus(queue') /\ (~foreign => row' = retained)
            BY <1>1, <2>2, <3>1 DEF NoStatus, QueueInv
        <3>3. QueueInv'
            BY <1>1, <2>1, <2>2, <3>1, <3>2 DEF QueueInv
        <3>4. queue' \in Seq(Messages) /\ Len(queue') <= MaxQueue
            BY <1>2, <3>1
        <3>5. TypeOK'
            BY <1>1, <1>2, <2>1, <3>1, <3>4 DEF TypeOK
        <3> QED
            BY <1>1, <3>3, <3>5, SessionStays, HeldStays
    <2>3. CASE retained # "none"
        <3>1. queue' = <<retained>> /\ retained \in Statuses
            BY <1>2, <1>3, <2>3 DEF PlatformUp
        <3>2. Len(queue') = 1 /\ queue'[1] = retained
            BY <3>1
        <3>3. LastStatus(queue', retained)
            BY <3>1, <3>2 DEF LastStatus
        <3>4. QueueInv'
            BY <1>1, <2>1, <2>3, <3>3 DEF QueueInv
        <3>5. queue' \in Seq(Messages) /\ Len(queue') <= MaxQueue
            BY <1>2, <3>1, <3>2 DEF Messages
        <3>6. foreign' \in BOOLEAN
            BY <1>3 DEF PlatformUp
        <3>7. TypeOK'
            BY <1>1, <2>1, <3>5, <3>6 DEF TypeOK
        <3> QED
            BY <1>1, <3>4, <3>7, SessionStays, HeldStays
    <2> QED
        BY <2>2, <2>3
<1>4. CASE PlatformDown
    <2>1. /\ platform' = "down" /\ queue' = <<>> /\ faults' \in 0 .. MaxFaults
          /\ foreign' = foreign
        BY <1>4, CutCounts DEF PlatformDown
    <2>2. queue' \in Seq(Messages) /\ Len(queue') <= MaxQueue
        BY <1>2, <2>1
    <2>3. TypeOK'
        BY <1>1, <2>1, <2>2 DEF TypeOK
    <2>4. QueueInv'
        BY <1>1, <2>1 DEF QueueInv
    <2> QED
        BY <1>1, <2>3, <2>4, SessionStays, HeldStays
<1> QED
    BY <1>3, <1>4

\* So does the console, whatever it publishes.
LEMMA ConsoleSteps ==
    ASSUME PresenceInv, Console
    PROVE  PresenceInv'
<1> USE DEF PresenceInv, deviceVars
<1>1. /\ HasRoom /\ Cut
      /\ UNCHANGED <<link, held, session, wire, platform, row, failed, enabled,
                     password, stored>>
    BY DEF Console
<1>2. PICK m \in Messages : PublishTest(m)
    BY DEF Console
<1>3. /\ queue' \in Seq(Messages) /\ Len(queue') <= MaxQueue
      /\ foreign' \in BOOLEAN
      /\ UNCHANGED retained
      /\ QueueInv'
    BY <1>1, <1>2, TestedInLine
<1>4. TypeOK'
    BY <1>1, <1>3, CutCounts DEF TypeOK
<1> QED
    BY <1>1, <1>3, <1>4, SessionStays, HeldStays

-----------------------------------------------------------------------------
(* Short sequences                                                         *)

\* One message and another.
LEMMA JoinedPair ==
    ASSUME NEW S, NEW a \in S, NEW b \in S
    PROVE  <<a>> \o <<b>> = <<a, b>>
<1>0. <<a>> \in Seq(S) /\ <<b>> \in Seq(S) /\ <<a, b>> \in Seq(S)
    OBVIOUS
<1> DEFINE s == <<a>> \o <<b>>
           t == <<a, b>>
<1>1. /\ s \in Seq(S) /\ Len(s) = 2
      /\ s[1] = a /\ s[2] = b
    BY <1>0, ConcatProperties
<1>2. t \in Seq(S) /\ Len(t) = 2 /\ t[1] = a /\ t[2] = b
    BY <1>0
<1> HIDE DEF s, t
<1>3. \A i \in 1 .. Len(s) : s[i] = t[i]
    <2>1. \A i \in 1 .. Len(s) : i = 1 \/ i = 2
        BY <1>1
    <2> QED
        BY <1>1, <1>2, <2>1
<1>4. s = t
    BY <1>1, <1>2, <1>3, SeqEqual
<1> QED
    BY <1>4 DEF s, t

\* One message and two others.
LEMMA JoinedTriple ==
    ASSUME NEW S, NEW a \in S, NEW b \in S, NEW c \in S
    PROVE  <<a>> \o <<b, c>> = <<a, b, c>>
<1>0. <<a>> \in Seq(S) /\ <<b, c>> \in Seq(S) /\ <<a, b, c>> \in Seq(S)
    OBVIOUS
<1> DEFINE s == <<a>> \o <<b, c>>
           t == <<a, b, c>>
<1>1. /\ s \in Seq(S) /\ Len(s) = 3
      /\ s[1] = a /\ s[2] = b /\ s[3] = c
    BY <1>0, ConcatProperties
<1>2. t \in Seq(S) /\ Len(t) = 3 /\ t[1] = a /\ t[2] = b /\ t[3] = c
    BY <1>0
<1> HIDE DEF s, t
<1>3. \A i \in 1 .. Len(s) : s[i] = t[i]
    <2>1. \A i \in 1 .. Len(s) : i = 1 \/ i = 2 \/ i = 3
        BY <1>1
    <2> QED
        BY <1>1, <1>2, <2>1
<1>4. s = t
    BY <1>1, <1>2, <1>3, SeqEqual
<1> QED
    BY <1>4 DEF s, t

\* One message, read.
LEMMA TailOfOne ==
    ASSUME NEW S, NEW a \in S
    PROVE  Tail(<<a>>) = <<>> /\ Head(<<a>>) = a
<1>0. <<a>> \in Seq(S)
    OBVIOUS
<1>1. Tail(<<a>>) \in Seq(S) /\ Len(Tail(<<a>>)) = 0
    BY <1>0, HeadTailProperties
<1> QED
    BY <1>1, EmptySeq

\* The first of two, read.
LEMMA TailOfTwo ==
    ASSUME NEW S, NEW a \in S, NEW b \in S
    PROVE  Tail(<<a, b>>) = <<b>> /\ Head(<<a, b>>) = a
<1>0. <<b>> \in Seq(S) /\ <<a, b>> \in Seq(S)
    OBVIOUS
<1>1. /\ Tail(<<a, b>>) \in Seq(S) /\ Len(Tail(<<a, b>>)) = 1
      /\ Tail(<<a, b>>)[1] = b
    BY <1>0, HeadTailProperties
<1>2. Len(<<b>>) = 1 /\ <<b>>[1] = b
    OBVIOUS
<1>3. \A i \in 1 .. Len(Tail(<<a, b>>)) : Tail(<<a, b>>)[i] = <<b>>[i]
    <2>1. \A i \in 1 .. Len(Tail(<<a, b>>)) : i = 1
        BY <1>1
    <2> QED
        BY <1>1, <1>2, <2>1
<1> QED
    BY <1>0, <1>1, <1>2, <1>3, SeqEqual

\* The first of three, read.
LEMMA TailOfThree ==
    ASSUME NEW S, NEW a \in S, NEW b \in S, NEW c \in S
    PROVE  Tail(<<a, b, c>>) = <<b, c>> /\ Head(<<a, b, c>>) = a
<1>0. <<b, c>> \in Seq(S) /\ <<a, b, c>> \in Seq(S)
    OBVIOUS
<1> DEFINE s == Tail(<<a, b, c>>)
           t == <<b, c>>
<1>1. s \in Seq(S) /\ Len(s) = 2 /\ s[1] = b /\ s[2] = c
    BY <1>0, HeadTailProperties
<1>2. t \in Seq(S) /\ Len(t) = 2 /\ t[1] = b /\ t[2] = c
    BY <1>0
<1> HIDE DEF s, t
<1>3. \A i \in 1 .. Len(s) : s[i] = t[i]
    <2>1. \A i \in 1 .. Len(s) : i = 1 \/ i = 2
        BY <1>1
    <2> QED
        BY <1>1, <1>2, <2>1
<1>4. s = t
    BY <1>1, <1>2, <1>3, SeqEqual
<1> QED
    BY <1>4 DEF s, t

\* The packets of this model.
LEMMA Packed ==
    /\ Farewell # <<>> /\ Visit # <<>> /\ Hello # <<>> /\ Bye # <<>>
    /\ Farewell # Bye /\ Visit # Bye /\ Hello # Bye
    /\ Farewell # Hello /\ Visit # Hello /\ Bye # Hello
    /\ Hello \in Seq(Packets) /\ Farewell \in Seq(Packets) /\ Bye \in Seq(Packets)
    /\ Visit \in Seq(Packets) /\ <<>> \in Seq(Packets)
    /\ \A m \in Messages : Note(m) \in Seq(Packets) /\ Len(Note(m)) = 2
    /\ Len(Hello) = 1 /\ Len(Farewell) = 2 /\ Len(Bye) = 1 /\ Len(Visit) = 3
    /\ Len(<<>>) = 0
<1>1. /\ Hello \in Seq(Packets) /\ Farewell \in Seq(Packets) /\ Bye \in Seq(Packets)
      /\ Visit \in Seq(Packets) /\ <<>> \in Seq(Packets)
    BY DEF Hello, Farewell, Bye, Visit, Packets, Messages, Statuses
<1>2. /\ Len(Hello) = 1 /\ Len(Farewell) = 2 /\ Len(Bye) = 1 /\ Len(Visit) = 3
      /\ Len(<<>>) = 0
    BY DEF Hello, Farewell, Bye, Visit
<1>7. \A m \in Messages : Note(m) \in Seq(Packets) /\ Len(Note(m)) = 2
    BY DEF Note, Packets
<1>3. Hello[1] = "online" /\ Bye[1] = "disconnect"
    BY DEF Hello, Bye
<1>4. Hello # Bye
    BY <1>3
<1>5. /\ Farewell # <<>> /\ Visit # <<>> /\ Hello # <<>> /\ Bye # <<>>
    BY <1>2
<1>6. /\ Farewell # Bye /\ Visit # Bye /\ Farewell # Hello /\ Visit # Hello
    BY <1>2
<1> QED
    BY <1>1, <1>2, <1>4, <1>5, <1>6, <1>7

\* What is on the wire when a run or a probe has said goodbye.
LEMMA Sent ==
    /\ <<>> \o <<"offline", "disconnect">> = Farewell
    /\ Hello \o <<"offline", "disconnect">> = Visit
    /\ <<>> \o <<"disconnect">> = Bye
    /\ \A m \in Messages : <<m>> \o <<"disconnect">> = Note(m)
<1>1. /\ "online" \in Packets /\ "offline" \in Packets
      /\ "disconnect" \in Packets
    BY DEF Packets, Messages, Statuses
<1>2. \A a, b, c \in Packets : <<a>> \o <<b, c>> = <<a, b, c>>
    BY JoinedTriple
<1>3. \A a, b \in Packets : <<a>> \o <<b>> = <<a, b>>
    BY JoinedPair
<1>4. Hello \o <<"offline", "disconnect">> = Visit
    BY <1>1, <1>2, Zenon DEF Hello, Visit
<1>5. \A m \in Messages : <<m>> \o <<"disconnect">> = Note(m)
    <2>1. \A m \in Messages : m \in Packets
        BY DEF Packets
    <2> QED
        BY <1>1, <1>3, <2>1, Zenon DEF Note
<1>6. <<>> \o Farewell = Farewell /\ <<>> \o Bye = Bye
    BY Packed, ConcatEmptySeq
<1> QED
    BY <1>4, <1>5, <1>6 DEF Farewell, Bye

\* What is left of it when its first message was read.
LEMMA Unpacked ==
    /\ Head(Hello) = "online" /\ Tail(Hello) = <<>>
    /\ Head(Visit) = "online" /\ Tail(Visit) = Farewell
    /\ Head(Farewell) = "offline" /\ Tail(Farewell) = Bye
    /\ Head(Bye) = "disconnect"
    /\ \A m \in Messages : Head(Note(m)) = m /\ Tail(Note(m)) = Bye
<1>1. /\ "online" \in Packets /\ "offline" \in Packets
      /\ "disconnect" \in Packets
    BY DEF Packets, Messages, Statuses
<1>2. \A a \in Packets : Tail(<<a>>) = <<>> /\ Head(<<a>>) = a
    BY TailOfOne
<1>3. \A a, b \in Packets : Tail(<<a, b>>) = <<b>> /\ Head(<<a, b>>) = a
    BY TailOfTwo
<1>4. \A a, b, c \in Packets :
          Tail(<<a, b, c>>) = <<b, c>> /\ Head(<<a, b, c>>) = a
    BY TailOfThree
<1>5. Head(Hello) = "online" /\ Tail(Hello) = <<>>
    BY <1>1, <1>2, Zenon DEF Hello
<1>6. Head(Bye) = "disconnect"
    BY <1>1, <1>2, Zenon DEF Bye
<1>7. Head(Farewell) = "offline" /\ Tail(Farewell) = Bye
    BY <1>1, <1>3, Zenon DEF Farewell, Bye
<1>8. \A m \in Messages : Head(Note(m)) = m /\ Tail(Note(m)) = Bye
    <2>1. "disconnect" \in Packets /\ \A m \in Messages : m \in Packets
        BY <1>1 DEF Packets
    <2> QED
        BY <2>1, <1>3, Zenon DEF Note, Bye
<1>9. Head(Visit) = "online" /\ Tail(Visit) = Farewell
    <2>1. "online" \in Packets /\ "offline" \in Packets /\ "disconnect" \in Packets
        BY <1>1
    <2>2. \A b, c \in Packets : /\ Tail(<<"online", b, c>>) = <<b, c>>
                                /\ Head(<<"online", b, c>>) = "online"
        BY <2>1, <1>4
    <2> QED
        BY <2>1, <2>2, Zenon DEF Visit, Farewell
<1> QED
    BY <1>5, <1>6, <1>7, <1>8, <1>9

-----------------------------------------------------------------------------
(* Sessions                                                                *)

\* The session of one client id changes and no other.
LEMMA SessionMoves ==
    ASSUME TypeOK, NEW c \in Clients, NEW x \in {c, NoClient},
           session' = [session EXCEPT ![IdOf(c)] = x]
    PROVE  /\ session' \in [Ids -> Clients \cup {NoClient}]
           /\ \A i \in Ids : session'[i] # NoClient => IdOf(session'[i]) = i
           /\ c \in Runs => Owner' = x
           /\ c \in Probes => Owner' = Owner
<1>1. IdOf(c) \in Ids /\ "run" \in Ids
    BY RunsShareAnId DEF Ids
<1>2. session' \in [Ids -> Clients \cup {NoClient}]
    BY <1>1 DEF TypeOK
<1>3. \A i \in Ids : session'[i] = IF i = IdOf(c) THEN x ELSE session[i]
    BY <1>1 DEF TypeOK
<1>4. \A i \in Ids : session'[i] # NoClient => IdOf(session'[i]) = i
    BY <1>3 DEF TypeOK
<1>5. IdOf(c) = "run" <=> c \in Runs
    BY RunsShareAnId
<1>6. c \in Probes => c \notin Runs
    BY RunsShareAnId
<1> QED
    BY <1>1, <1>2, <1>3, <1>4, <1>5, <1>6 DEF Owner

\* A session that ends keeps the invariant: the will is published with it.
LEMMA EndSteps ==
    ASSUME PresenceInv, NEW c \in Clients, EndSession(c), faults' \in 0 .. MaxFaults
    PROVE  PresenceInv'
<1> USE DEF PresenceInv, deviceVars
<1>1. /\ session[IdOf(c)] = c /\ HasRoom
      /\ session' = [session EXCEPT ![IdOf(c)] = NoClient]
      /\ wire' = [wire EXCEPT ![c] = <<>>]
      /\ c \in Runs => Publish("offline")
      /\ c \notin Runs => UNCHANGED <<retained, queue, foreign>>
      /\ UNCHANGED <<link, held, platform, row, failed, enabled, password, stored>>
    BY DEF EndSession, Will
<1>2. /\ session' \in [Ids -> Clients \cup {NoClient}]
      /\ \A i \in Ids : session'[i] # NoClient => IdOf(session'[i]) = i
      /\ c \in Runs => Owner' = NoClient
      /\ c \in Probes => Owner' = Owner
    BY <1>1, SessionMoves
<1>3. <<>> \in Seq(Packets)
    OBVIOUS
<1>4. /\ wire' \in [Clients -> Seq(Packets)]
      /\ wire'[c] = <<>>
      /\ \A d \in Clients : d # c => wire'[d] = wire[d]
    BY <1>1, <1>3 DEF TypeOK
<1>5. HeldInv'
    BY <1>1, HeldStays
<1>6. CASE c \in Runs
    <2>1. "offline" \in Statuses /\ "offline" # "online"
        BY DEF Statuses
    <2>2. /\ queue' \in Seq(Messages) /\ Len(queue') <= MaxQueue
          /\ foreign' \in BOOLEAN
          /\ retained' \in Statuses \cup {"none"}
          /\ retained' = "offline"
          /\ QueueInv'
        BY <1>1, <1>6, <2>1, PublishedInLine
    <2>3. TypeOK'
        BY <1>1, <1>2, <1>4, <2>2 DEF TypeOK
    <2>4. Owner = c
        BY <1>1, <1>6, RunsShareAnId DEF Owner
    <2>5. \A d \in Runs : wire'[d] = <<>>
        BY <1>4, <2>4 DEF SessionInv, OnWire, Clients
    <2>6. NoClient \notin Runs /\ \A d \in Probes : d # c
        BY <1>6, RunsShareAnId DEF Clients
    <2>7. SessionInv'
        BY <1>2, <1>4, <1>6, <2>1, <2>2, <2>5, <2>6 DEF SessionInv, OnWire, Clients
    <2> QED
        BY <1>5, <2>2, <2>3, <2>7
<1>7. CASE c \in Probes
    <2>1. c \notin Runs
        BY <1>7, RunsShareAnId
    <2>2. QueueInv'
        BY <1>1, <2>1, QueueStays
    <2>3. TypeOK'
        BY <1>1, <1>2, <1>4, <2>1 DEF TypeOK
    <2>4. SessionInv'
        BY <1>1, <1>2, <1>4, <1>7, <2>1 DEF SessionInv, OnWire, Clients
    <2> QED
        BY <1>5, <2>2, <2>3, <2>4
<1> QED
    BY <1>6, <1>7 DEF Clients

\* A run that stops keeps it.
LEMMA StopSteps ==
    ASSUME PresenceInv, NEW c \in Clients, Stop(c)
    PROVE  PresenceInv'
<1> USE DEF PresenceInv, deviceVars, platformVars
<1>1. /\ c \in Runs
      /\ link' = [link EXCEPT ![c] = "over"]
      /\ UNCHANGED <<held, session, retained, platform, queue, row, failed,
                     foreign, enabled, password, stored, faults>>
    BY DEF Stop
<1>2. /\ link' \in [Clients -> Links]
      /\ link'[c] # "up"
      /\ \A d \in Clients : d # c => link'[d] = link[d]
    BY <1>1 DEF TypeOK, Links
<1>3. HeldInv' /\ QueueInv' /\ UNCHANGED Owner
    BY <1>1, HeldStays, QueueStays DEF Owner
<1>4. CASE link[c] = "up" /\ Owner = c
    <2>1. wire' = [wire EXCEPT ![c] = wire[c] \o <<"offline", "disconnect">>]
        BY <1>4 DEF Stop
    <2>2. wire[c] \in {<<>>, Hello}
        BY <1>1, <1>4 DEF SessionInv, OnWire
    <2>3. wire[c] \o <<"offline", "disconnect">> \in {Farewell, Visit}
        BY <2>2, Sent
    <2>6. /\ wire' \in [Clients -> Seq(Packets)]
          /\ wire'[c] \in {Farewell, Visit}
          /\ \A d \in Clients : d # c => wire'[d] = wire[d]
        BY <2>1, <2>3, Packed DEF TypeOK
    <2>7. TypeOK'
        BY <1>1, <1>2, <2>6 DEF TypeOK, Links
    <2>8. OnWire(c)'
        <3>2. wire'[c] # <<>> /\ wire'[c] # Bye
            BY <2>6, Packed
        <3> QED
            BY <1>2, <1>3, <1>4, <2>6, <3>2 DEF OnWire
    <2>9. \A d \in Probes : d # c
        BY <1>1, RunsShareAnId
    <2>10. \A d \in Runs : d # c => OnWire(d)'
        BY <1>1, <1>2, <1>3, <2>6 DEF SessionInv, OnWire, Clients
    <2>11. SessionInv'
        BY <1>1, <1>3, <2>6, <2>8, <2>9, <2>10 DEF SessionInv, Clients
    <2> QED
        BY <1>3, <2>7, <2>11
<1>5. CASE ~(link[c] = "up" /\ Owner = c)
    <2>1. UNCHANGED wire
        BY <1>5 DEF Stop
    <2>2. TypeOK'
        BY <1>1, <1>2, <2>1 DEF TypeOK, Links
    <2>3. SessionInv'
        BY <1>1, <1>2, <2>1, SessionStays DEF Clients
    <2> QED
        BY <1>3, <2>2, <2>3
<1> QED
    BY <1>4, <1>5

\* So does a client that leaves.
LEMMA LeaveSteps ==
    ASSUME PresenceInv, NEW c \in Clients, Leave(c)
    PROVE  PresenceInv'
<1> USE DEF PresenceInv, deviceVars, platformVars
<1>1. /\ c \in Probes
      /\ link' = [link EXCEPT ![c] = "over"]
      /\ UNCHANGED <<held, session, retained, platform, queue, row, failed,
                     foreign, enabled, password, stored, faults>>
    BY DEF Leave
<1>2. PICK sent \in {<<>>} \cup {<<m>> : m \in Messages} :
          wire' = [wire EXCEPT ![c] = sent \o <<"disconnect">>]
    BY DEF Leave
<1>3. \A note \in Notes : note \in Seq(Packets)
    BY Packed DEF Notes
<1>4. sent \o <<"disconnect">> \in {Bye} \cup Notes
    BY Sent DEF Notes
<1>5. /\ wire' \in [Clients -> Seq(Packets)]
      /\ wire'[c] \in {Bye} \cup Notes
      /\ \A d \in Clients : d # c => wire'[d] = wire[d]
    BY <1>2, <1>3, <1>4, Packed DEF TypeOK
<1>6. /\ link' \in [Clients -> Links]
      /\ \A d \in Clients : d # c => link'[d] = link[d]
    BY <1>1 DEF TypeOK, Links
<1>7. TypeOK'
    BY <1>1, <1>5, <1>6 DEF TypeOK, Links
<1>8. UNCHANGED Owner /\ \A d \in Runs : d # c
    BY <1>1, RunsShareAnId DEF Owner
<1>9. SessionInv'
    BY <1>1, <1>5, <1>6, <1>8 DEF SessionInv, OnWire, Clients
<1> QED
    BY <1>1, <1>7, <1>9, HeldStays, QueueStays

-----------------------------------------------------------------------------
(* What the broker reads                                                   *)

\* The broker reads the next packet of a run.
LEMMA RunReads ==
    ASSUME PresenceInv, NEW c \in Runs, Receive(c)
    PROVE  PresenceInv'
<1> USE DEF PresenceInv, deviceVars
<1>1. /\ c \in Clients /\ IdOf(c) = "run" /\ Owner = c /\ wire[c] # <<>> /\ HasRoom
      /\ UNCHANGED <<link, held, platform, row, failed, enabled, password,
                     stored, faults>>
      /\ \A d \in Probes : d # c
    BY RunsShareAnId DEF Receive, Clients, Owner
<1>2. HeldInv'
    BY <1>1, HeldStays
<1>3. wire[c] \in {Hello, Visit, Farewell, Bye}
    BY <1>1 DEF SessionInv, OnWire
<1>4. CASE wire[c] = Bye
    <2>1. Head(wire[c]) = "disconnect"
        BY <1>4, Unpacked
    <2>2. /\ session' = [session EXCEPT ![IdOf(c)] = NoClient]
          /\ wire' = [wire EXCEPT ![c] = <<>>]
          /\ UNCHANGED <<retained, queue, foreign>>
        BY <2>1 DEF Receive
    <2>3. /\ wire' \in [Clients -> Seq(Packets)]
          /\ wire'[c] = <<>>
          /\ \A d \in Clients : d # c => wire'[d] = wire[d]
        BY <1>1, <2>2, Packed DEF TypeOK
    <2>4. /\ session' \in [Ids -> Clients \cup {NoClient}]
          /\ \A i \in Ids : session'[i] # NoClient => IdOf(session'[i]) = i
          /\ Owner' = NoClient
        BY <1>1, <2>2, SessionMoves
    <2>5. QueueInv'
        BY <1>1, <2>2, QueueStays
    <2>6. TypeOK'
        BY <1>1, <2>2, <2>3, <2>4 DEF TypeOK
    <2>7. retained' = "offline"
        BY <1>1, <1>4, <2>2 DEF SessionInv, OnWire
    <2>8. \A d \in Runs : wire'[d] = <<>> /\ d # NoClient
        BY <1>1, <2>3, RunsShareAnId DEF SessionInv, OnWire, Clients
    <2>9. SessionInv'
        BY <1>1, <2>3, <2>4, <2>7, <2>8 DEF SessionInv, OnWire, Clients
    <2> QED
        BY <1>2, <2>5, <2>6, <2>9
<1>5. CASE wire[c] # Bye
    <2>1. \/ /\ wire[c] = Hello /\ Head(wire[c]) = "online"
             /\ Tail(wire[c]) = <<>>
          \/ /\ wire[c] = Visit /\ Head(wire[c]) = "online"
             /\ Tail(wire[c]) = Farewell
          \/ /\ wire[c] = Farewell /\ Head(wire[c]) = "offline"
             /\ Tail(wire[c]) = Bye
        BY <1>3, <1>5, Unpacked
    <2> DEFINE status == Head(wire[c])
    <2>2. status \in {"online", "offline"}
        BY <2>1
    <2>3. /\ Publish(status)
          /\ wire' = [wire EXCEPT ![c] = Tail(wire[c])]
          /\ UNCHANGED session
        BY <2>2 DEF Receive
    <2>4. status \in Statuses
        BY <2>2 DEF Statuses
    <2>5. Tail(wire[c]) \in {<<>>, Farewell, Bye}
        BY <2>1
    <2>6. /\ wire' \in [Clients -> Seq(Packets)]
          /\ wire'[c] = Tail(wire[c])
          /\ \A d \in Clients : d # c => wire'[d] = wire[d]
        BY <1>1, <2>3, <2>5, Packed DEF TypeOK
    <2> HIDE DEF status
    <2>7. /\ queue' \in Seq(Messages) /\ Len(queue') <= MaxQueue
          /\ foreign' \in BOOLEAN
          /\ retained' \in Statuses \cup {"none"}
          /\ retained' = status
          /\ QueueInv'
        BY <1>1, <2>3, <2>4, PublishedInLine
    <2>8. TypeOK'
        BY <1>1, <2>3, <2>6, <2>7 DEF TypeOK
    <2>9. UNCHANGED Owner /\ Owner # NoClient
        BY <1>1, <2>3, RunsShareAnId DEF Owner
    <2>10. link[c] = "up" => wire[c] = Hello
        BY <1>1, <1>3, <1>5 DEF SessionInv, OnWire
    <2>11. OnWire(c)'
        <3>1. CASE wire[c] = Hello
            BY <1>1, <2>1, <2>6, <2>7, <2>9, <3>1, Packed DEF OnWire, status
        <3>2. CASE wire[c] = Visit
            <4>1. wire'[c] = Farewell
                BY <2>6, <3>2, Unpacked
            <4> QED
                BY <1>1, <2>9, <2>10, <3>2, <4>1, Packed DEF OnWire
        <3>3. CASE wire[c] = Farewell
            <4>1. wire'[c] = Bye /\ retained' = "offline"
                BY <2>6, <2>7, <3>3, Unpacked DEF status
            <4> QED
                BY <1>1, <2>9, <2>10, <3>3, <4>1, Packed DEF OnWire
        <3> QED
            BY <2>1, <3>1, <3>2, <3>3
    <2>12. \A d \in Runs : d # c => OnWire(d)'
        BY <1>1, <2>6, <2>9 DEF SessionInv, OnWire, Clients
    <2>13. SessionInv'
        BY <1>1, <2>6, <2>9, <2>11, <2>12 DEF SessionInv, Clients
    <2> QED
        BY <1>2, <2>7, <2>8, <2>13
<1> QED
    BY <1>4, <1>5

\* The broker reads what a probe sent.
LEMMA ProbeReads ==
    ASSUME PresenceInv, NEW c \in Probes, Receive(c)
    PROVE  PresenceInv'
<1> USE DEF PresenceInv, deviceVars
<1>1. /\ c \in Clients /\ c \notin Runs /\ wire[c] # <<>> /\ HasRoom
      /\ UNCHANGED <<link, held, platform, row, failed, enabled, password,
                     stored, faults>>
    BY RunsShareAnId DEF Receive, Clients
<1>2. wire[c] = Bye \/ \E m \in Messages : wire[c] = Note(m)
    BY <1>1 DEF SessionInv, Notes
<1>3. /\ session' \in [Ids -> Clients \cup {NoClient}]
      /\ \A i \in Ids : session'[i] # NoClient => IdOf(session'[i]) = i
      /\ UNCHANGED Owner
    <2>1. UNCHANGED session \/ session' = [session EXCEPT ![IdOf(c)] = NoClient]
        BY DEF Receive
    <2>2. CASE UNCHANGED session
        BY <2>2 DEF TypeOK, Owner
    <2>3. CASE session' = [session EXCEPT ![IdOf(c)] = NoClient]
        BY <1>1, <2>3, SessionMoves
    <2> QED
        BY <2>1, <2>2, <2>3
<1>4. /\ wire'[c] \in {<<>>, Bye}
      /\ wire' \in [Clients -> Seq(Packets)]
      /\ \A d \in Clients : d # c => wire'[d] = wire[d]
    <2>1. wire' = [wire EXCEPT ![c] = <<>>] \/ wire' = [wire EXCEPT ![c] = Tail(wire[c])]
        BY DEF Receive
    <2>2. CASE \E m \in Messages : wire[c] = Note(m)
        <3>1. Tail(wire[c]) = Bye
            BY <2>2, Unpacked
        <3> QED
            BY <1>1, <2>1, <3>1, Packed DEF TypeOK
    <2>3. CASE wire[c] = Bye
        <3>1. wire' = [wire EXCEPT ![c] = <<>>]
            BY <2>3, Unpacked DEF Receive
        <3> QED
            BY <1>1, <3>1, Packed DEF TypeOK
    <2> QED
        BY <1>2, <2>2, <2>3
<1>5. /\ queue' \in Seq(Messages) /\ Len(queue') <= MaxQueue
      /\ foreign' \in BOOLEAN
      /\ UNCHANGED retained
      /\ QueueInv'
    <2>1. CASE \E m \in Messages : wire[c] = Note(m)
        <3>1. Head(wire[c]) \in Messages
            BY <2>1, Unpacked
        <3>2. Head(wire[c]) # "disconnect"
            BY <3>1 DEF Messages, Statuses
        <3>3. PublishTest(Head(wire[c]))
            BY <1>1, <3>2 DEF Receive
        <3> QED
            BY <1>1, <3>1, <3>3, TestedInLine
    <2>2. CASE wire[c] = Bye
        <3>1. UNCHANGED <<retained, queue, foreign>>
            BY <2>2, Unpacked DEF Receive
        <3> QED
            BY <1>1, <3>1, QueueStays DEF TypeOK
    <2> QED
        BY <1>2, <2>1, <2>2
<1>6. TypeOK'
    BY <1>1, <1>3, <1>4, <1>5 DEF TypeOK
<1>7. SessionInv'
    <2>1. \A d \in Runs : OnWire(d) /\ wire'[d] = wire[d] /\ link'[d] = link[d]
        BY <1>1, <1>4 DEF SessionInv, Clients
    <2>2. \A d \in Runs : OnWire(d)'
        BY <1>3, <1>5, <2>1 DEF OnWire
    <2>3. \A d \in Probes : wire'[d] \in {<<>>, Bye} \cup Notes
        BY <1>4 DEF SessionInv, Clients
    <2> QED
        BY <1>3, <1>5, <2>2, <2>3 DEF SessionInv
<1> QED
    BY <1>1, <1>5, <1>6, <1>7, HeldStays

\* The broker accepts a connection.
LEMMA AcceptSteps ==
    ASSUME PresenceInv, NEW c \in Clients, Accept(c)
    PROVE  PresenceInv'
<1> USE DEF PresenceInv, deviceVars
<1> DEFINE old == session[IdOf(c)]
<1>1. /\ HasRoom
      /\ session' = [session EXCEPT ![IdOf(c)] = c]
      /\ link' = [link EXCEPT ![c] = "up"]
      /\ wire' = [w \in Clients |-> IF w = c THEN Greeting(c)
                                    ELSE IF w = old THEN <<>> ELSE wire[w]]
      /\ old \in Runs => Publish("offline")
      /\ old \notin Runs => UNCHANGED <<retained, queue, foreign>>
      /\ UNCHANGED <<held, platform, row, failed, enabled, password, stored, faults>>
    BY DEF Accept, Will
<1>2. /\ session' \in [Ids -> Clients \cup {NoClient}]
      /\ \A i \in Ids : session'[i] # NoClient => IdOf(session'[i]) = i
      /\ c \in Runs => Owner' = c
      /\ c \in Probes => Owner' = Owner
    BY <1>1, SessionMoves
<1>3. /\ c \in Runs => Greeting(c) = Hello
      /\ c \notin Runs => Greeting(c) = <<>>
    BY DEF Greeting, Hello
<1>4. /\ wire' \in [Clients -> Seq(Packets)]
      /\ wire'[c] = Greeting(c)
      /\ \A d \in Clients : d # c => wire'[d] = IF d = old THEN <<>> ELSE wire[d]
    BY <1>1, <1>3, Packed DEF TypeOK
<1>5. /\ link' \in [Clients -> Links] /\ link'[c] = "up"
      /\ \A d \in Clients : d # c => link'[d] = link[d]
    BY <1>1 DEF TypeOK, Links
<1>6. /\ queue' \in Seq(Messages) /\ Len(queue') <= MaxQueue
      /\ foreign' \in BOOLEAN
      /\ retained' \in Statuses \cup {"none"}
      /\ old \notin Runs => UNCHANGED retained
      /\ QueueInv'
    <2>1. CASE old \in Runs
        <3>1. "offline" \in Statuses
            BY DEF Statuses
        <3> QED
            BY <1>1, <2>1, <3>1, PublishedInLine
    <2>2. CASE old \notin Runs
        BY <1>1, <2>2, QueueStays DEF TypeOK
    <2> QED
        BY <2>1, <2>2
<1>7. TypeOK'
    BY <1>1, <1>2, <1>4, <1>5, <1>6 DEF TypeOK, Links
<1>8. CASE c \in Runs
    <2>1. old = Owner /\ \A d \in Probes : d # c /\ d # old
        <3>1. old = Owner /\ Owner \in Runs \cup {NoClient}
            BY <1>8, RunsShareAnId DEF Owner
        <3>2. \A d \in Probes : d \notin Runs /\ d # NoClient
            BY RunsShareAnId DEF Clients
        <3> QED
            BY <1>8, <3>1, <3>2
    <2>2. OnWire(c)'
        BY <1>2, <1>3, <1>4, <1>5, <1>8, Packed DEF OnWire
    <2>3. \A d \in Runs : d # c => wire'[d] = <<>>
        BY <1>4, <2>1 DEF SessionInv, OnWire, Clients
    <2>4. \A d \in Runs : d # c => OnWire(d)'
        BY <1>2, <1>8, <2>3 DEF OnWire
    <2>5. Owner' # NoClient
        BY <1>2, <1>8, RunsShareAnId
    <2>6. SessionInv'
        BY <1>4, <2>1, <2>2, <2>4, <2>5 DEF SessionInv, Clients
    <2> QED
        BY <1>1, <1>6, <1>7, <2>6, HeldStays
<1>9. CASE c \in Probes
    <2>1. c \notin Runs /\ \A d \in Runs : IdOf(d) # IdOf(c)
        BY <1>9, RunsShareAnId DEF Clients
    <2>2. old \notin Runs
        <3>1. IdOf(c) \in Ids /\ (old # NoClient => IdOf(old) = IdOf(c))
            BY RunsShareAnId DEF TypeOK
        <3> QED
            BY <2>1, <3>1, RunsShareAnId DEF Clients
    <2>3. \A d \in Runs : wire'[d] = wire[d] /\ link'[d] = link[d]
        BY <1>4, <1>5, <2>1, <2>2 DEF Clients
    <2>4. UNCHANGED <<Owner, retained>>
        BY <1>2, <1>6, <1>9, <2>2
    <2>5. \A d \in Probes : wire'[d] = <<>> \/ wire'[d] = wire[d]
        BY <1>3, <1>4, <2>1 DEF Clients
    <2> HIDE DEF old
    <2>6. SessionInv'
        BY <2>3, <2>4, <2>5 DEF SessionInv, OnWire
    <2> QED
        BY <1>1, <1>6, <1>7, <2>6, HeldStays
<1> QED
    BY <1>8, <1>9 DEF Clients

-----------------------------------------------------------------------------
(* The invariant, and what follows from it                                 *)

\* Every step keeps the invariant.
LEMMA PresenceStep ==
    ASSUME PresenceInv, Next
    PROVE  PresenceInv'
<1>0. faults \in 0 .. MaxFaults /\ TypeOK
    BY DEF PresenceInv, TypeOK
<1>1. ASSUME NEW c \in Clients,
             Start(c) \/ Drop(c) \/ Notice(c) \/ Kill(c) \/ GiveUp(c)
      PROVE  PresenceInv'
    BY <1>1, ClientSteps
<1>2. ASSUME NEW c \in Clients, Accept(c)
      PROVE  PresenceInv'
    BY <1>2, AcceptSteps
<1>3. ASSUME NEW c \in Clients, Receive(c)
      PROVE  PresenceInv'
    BY <1>3, RunReads, ProbeReads DEF Clients
<1>4. ASSUME NEW c \in Clients, Expire(c) \/ Sever(c)
      PROVE  PresenceInv'
    BY <1>0, <1>4, EndSteps, CutCounts DEF Expire, Sever
<1>5. ASSUME NEW c \in Clients, Stop(c) \/ Leave(c)
      PROVE  PresenceInv'
    BY <1>5, StopSteps, LeaveSteps
<1>6. CASE PlatformUp \/ PlatformDown \/ Apply \/ ApplyFails \/ Console
    BY <1>6, PlatformSteps, RowSteps, ConsoleSteps
<1>7. CASE SetEnabled \/ Issue \/ Store
    BY <1>7, DeviceSteps
<1> QED
    BY <1>1, <1>2, <1>3, <1>4, <1>5, <1>6, <1>7 DEF Next

\* And one that changes nothing.
LEMMA PresenceStays == PresenceInv /\ UNCHANGED vars => PresenceInv'
<1> SUFFICES ASSUME PresenceInv, UNCHANGED vars PROVE PresenceInv'
    OBVIOUS
<1>1. UNCHANGED <<link, held, session, wire, retained, platform, queue, row,
                  failed, foreign, enabled, password, stored, faults>>
    BY DEF vars, platformVars, deviceVars
<1>2. TypeOK'
    BY <1>1 DEF PresenceInv, TypeOK
<1> QED
    BY <1>1, <1>2, SessionStays, QueueStays, HeldStays DEF PresenceInv

\* It holds in every reachable state.
LEMMA PresenceHolds == Spec => []PresenceInv
<1>1. PresenceInv /\ [Next]_vars => PresenceInv'
    BY PresenceStep, PresenceStays
<1> QED
    BY <1>1, InitPresence, PTL DEF Spec

\* The types of sessions, packets and rows, the bound of the queue included.
THEOREM PresenceTypes == Spec => []TypeOK
<1>1. PresenceInv => TypeOK
    BY DEF PresenceInv
<1> QED
    BY <1>1, PresenceHolds, PTL

\* Once everything in flight has arrived, the row says of the device what is so,
\* however sessions ended and were taken over (_on_connect, the will, stop),
\* unless the newest status is one that a test published.
THEOREM RowIsTrue == Spec => []StatusIsTrue
<1>1. ASSUME PresenceInv PROVE StatusIsTrue
    <2> SUFFICES ASSUME platform = "up", queue = <<>>, ~failed, ~foreign
                 PROVE  /\ Owner = NoClient => row # "online"
                        /\ Owner # NoClient /\ wire[Owner] = <<>> => row = "online"
        BY DEF StatusIsTrue
    <2>1. ~LastStatus(queue, retained)
        BY DEF LastStatus
    <2>2. row = retained
        BY <1>1, <2>1 DEF PresenceInv, QueueInv
    <2>3. Owner \in Runs \cup {NoClient}
        BY <1>1, RunsShareAnId DEF PresenceInv
    <2> QED
        BY <1>1, <2>2, <2>3 DEF PresenceInv, SessionInv, OnWire
<1> QED
    BY <1>1, PresenceHolds, PTL

\* A run with a replaced password takes no session from one with a newer one:
\* whoever takes a session over holds the password in force (authenticate).
THEOREM NewestTakesOver == Spec => SupersededStaysOut
<1> DEFINE InOrder == {Owner, Owner'} \subseteq Runs => held[Owner] <= held[Owner']
<1>1. ASSUME PresenceInv, [Next]_vars
      PROVE  [InOrder]_vars
    <2> SUFFICES ASSUME Owner \in Runs, Owner' \in Runs, Owner' # Owner
                 PROVE  held[Owner] <= held[Owner']
        BY <1>1, RunsShareAnId DEF PresenceInv, HeldInv, TypeOK, Clients
    <2>1. TypeOK /\ Owner # NoClient /\ Owner' # NoClient
        BY <1>1, RunsShareAnId DEF PresenceInv, Clients
    <2>2. PICK c \in Clients : Accept(c)
        <3>1. session' # session
            BY DEF Owner
        <3>2. ASSUME NEW c \in Clients, session' = [session EXCEPT ![IdOf(c)] = NoClient]
              PROVE  FALSE
            BY <2>1, <3>2, SessionMoves DEF Clients
        <3>3. ASSUME NEW c \in Clients, Receive(c)
              PROVE  FALSE
            BY <3>1, <3>2, <3>3 DEF Receive
        <3>4. ASSUME NEW c \in Clients, EndSession(c)
              PROVE  FALSE
            BY <3>2, <3>4 DEF EndSession
        <3> QED
            BY <1>1, <3>1, <3>3, <3>4
               DEF vars, Next, Expire, Sever, Start, Drop, Notice, Stop, Kill,
                   GiveUp, Leave, PlatformUp, PlatformDown, Apply, ApplyFails,
                   Console, SetEnabled, Issue, Store
    <2>3. held[c] = password /\ session' = [session EXCEPT ![IdOf(c)] = c]
        BY <2>2 DEF Accept, Authenticate
    <2>4. Owner' = c
        BY <2>1, <2>3, SessionMoves DEF Clients
    <2> QED
        BY <1>1, <2>3, <2>4 DEF PresenceInv, HeldInv, Clients
<1> HIDE DEF InOrder
<1>2. Spec => [][InOrder]_vars
    BY <1>1, PresenceHolds, PTL DEF Spec
<1> QED
    BY <1>2 DEF SupersededStaysOut, InOrder
=============================================================================
