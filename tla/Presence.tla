------------------------------ MODULE Presence ------------------------------
(***************************************************************************)
(* The MQTT status of one device: the sessions of the agent                *)
(* (agent-example/edge_agent/mqtt.py), the broker with its retained status *)
(* and last wills, the authentication callback of the platform, and the    *)
(* platform's client, which writes what it receives to the device's row.   *)
(*                                                                         *)
(* The broker is external: it has at most one session per client id, hands *)
(* on what it receives in order, keeps the last retained status, publishes *)
(* the will of a session that ends without DISCONNECT or is taken over.    *)
(***************************************************************************)
EXTENDS Naturals, Sequences

CONSTANTS
    Runs,        \* processes of meteorcli run, each started once
    Probes,      \* processes of mqtt-test and mqtt-listen, each started once
    NoClient,
    MaxPassword, \* bound: passwords issued to the device
    MaxQueue,    \* bound: statuses on their way to the platform
    MaxFaults    \* bound: connections cut, the platform's included, and tests
                 \* from the console

ASSUME PresenceAssumption ==
    /\ NoClient \notin Runs \cup Probes
    /\ Runs \cap Probes = {}
    /\ "run" \notin Probes
    /\ MaxPassword \in Nat \ {0}
    /\ MaxQueue \in Nat \ {0}
    /\ MaxFaults \in Nat

Clients == Runs \cup Probes

VARIABLES
    link,      \* what each process takes its connection for
    held,      \* the password each process read from mqtt.json
    session,   \* the broker: whose connection each client id has
    wire,      \* what each process sent and the broker has not handled
    retained,  \* the broker: the retained status
    platform,  \* whether the platform's client is connected
    queue,     \* statuses the broker sent it that it has not handled
    row,       \* mqtt_status of the device
    failed,    \* history: the transaction of the last status failed
    foreign,   \* history: the last status sent to the platform was published
               \* by mqtt-test, mosquitto_pub or the console
    enabled,   \* is_enabled of the device
    password,  \* the password in force, by its number
    stored,    \* the password in mqtt.json
    faults     \* connections cut and tests from the console so far

deviceVars == <<enabled, password, stored>>
platformVars == <<platform, queue, row, failed, foreign>>

vars == <<link, held, session, wire, retained, platformVars, deviceVars, faults>>

-----------------------------------------------------------------------------

Statuses == {"online", "offline"}

\* What may be published on the status topic: one of them, or anything else.
Messages == Statuses \cup {"text"}

\* Client ids: every run of the device uses the same, a probe one of its own.
Ids == {"run"} \cup Probes

IdOf(c) == IF c \in Runs THEN "run" ELSE c

Init ==
    /\ link = [c \in Clients |-> "new"]
    /\ held = [c \in Clients |-> 0]
    /\ session = [i \in Ids |-> NoClient]
    /\ wire = [c \in Clients |-> <<>>]
    /\ retained = "none"
    /\ platform = "down"
    /\ queue = <<>>
    /\ row = "none"
    /\ failed = FALSE
    /\ foreign = FALSE
    /\ enabled = TRUE
    /\ password = 1
    /\ stored = 1
    /\ faults = 0

Cut == faults < MaxFaults /\ faults' = faults + 1

Owner == session["run"]

HasRoom == Len(queue) < MaxQueue

-----------------------------------------------------------------------------
(* The broker                                                              *)

\* Fault: a status is published without the retain flag.
RetainNot(status) == retained

Retain(status) == status

\* A message reaches the platform if it is connected.
Send(message, byRun) ==
    /\ queue' = IF platform = "up" THEN Append(queue, message) ELSE queue
    /\ foreign' = IF platform = "up" /\ message \in Statuses THEN ~byRun ELSE foreign

\* A status of a run's session is retained.
Publish(status) == retained' = Retain(status) /\ Send(status, TRUE)

\* What others publish is not.
PublishTest(message) == UNCHANGED retained /\ Send(message, FALSE)

\* Fault: no will is set before the connection is made.
WillUnset == UNCHANGED <<retained, queue, foreign>>

\* The will of a run's session.
Will == Publish("offline")

\* Fault: the hash of the password is not compared.
AuthenticateAny(c) == enabled

\* authenticate: the credential row holds one password at a time.
Authenticate(c) == enabled /\ held[c] = password

\* Fault: the status is announced by start, before there is a connection.
GreetingLost(c) == <<>>

\* on_connect: a run subscribes to its commands and announces itself.
Greeting(c) == IF c \in Runs THEN <<"online">> ELSE <<>>

\* CONNECT is accepted; the connection the client id had is closed.
Accept(c) ==
    LET i == IdOf(c)
        old == session[i]
    IN  /\ link[c] = "trying"
        /\ Authenticate(c)
        /\ HasRoom
        /\ session' = [session EXCEPT ![i] = c]
        /\ link' = [link EXCEPT ![c] = "up"]
        /\ wire' = [w \in Clients |-> IF w = c THEN Greeting(c)
                                      ELSE IF w = old THEN <<>> ELSE wire[w]]
        /\ IF old \in Runs THEN Will ELSE UNCHANGED <<retained, queue, foreign>>
        /\ UNCHANGED <<held, platform, row, failed, deviceVars, faults>>

\* The broker handles the next packet: the status of a run, the event a probe
\* publishes on the status topic, or DISCONNECT, which discards the will.
Receive(c) ==
    /\ session[IdOf(c)] = c
    /\ wire[c] # <<>>
    /\ HasRoom
    /\ CASE Head(wire[c]) = "disconnect" ->
                /\ session' = [session EXCEPT ![IdOf(c)] = NoClient]
                /\ wire' = [wire EXCEPT ![c] = <<>>]
                /\ UNCHANGED <<retained, queue, foreign>>
         [] OTHER ->
                /\ IF c \in Runs THEN Publish(Head(wire[c]))
                   ELSE PublishTest(Head(wire[c]))
                /\ wire' = [wire EXCEPT ![c] = Tail(@)]
                /\ UNCHANGED session
    /\ UNCHANGED <<link, held, platform, row, failed, deviceVars, faults>>

EndSession(c) ==
    /\ session[IdOf(c)] = c
    /\ HasRoom
    /\ session' = [session EXCEPT ![IdOf(c)] = NoClient]
    /\ wire' = [wire EXCEPT ![c] = <<>>]
    /\ IF c \in Runs THEN Will ELSE UNCHANGED <<retained, queue, foreign>>
    /\ UNCHANGED <<link, held, platform, row, failed, deviceVars>>

\* The broker notices that the other end is gone (keep-alive of 60 s).
Expire(c) == link[c] # "up" /\ EndSession(c) /\ UNCHANGED faults

\* The broker's end of the connection breaks first.
Sever(c) == link[c] = "up" /\ EndSession(c) /\ Cut

-----------------------------------------------------------------------------
(* DeviceMqttSession of a run                                              *)

\* start: the broker is probed first, and a run that cannot reach it goes on
\* without MQTT for good; otherwise the loop connects, with backoff, forever.
Start(c) ==
    /\ link[c] = "new"
    /\ \E next \in {"trying", "over"} : link' = [link EXCEPT ![c] = next]
    /\ held' = [held EXCEPT ![c] = stored]
    /\ UNCHANGED <<session, wire, retained, platformVars, deviceVars, faults>>

\* The client's end of the connection breaks first: what it sent may still
\* arrive.
Drop(c) ==
    /\ link[c] = "up"
    /\ session[IdOf(c)] = c
    /\ link' = [link EXCEPT ![c] = IF c \in Runs THEN "trying" ELSE "over"]
    /\ Cut
    /\ UNCHANGED <<held, session, wire, retained, platformVars, deviceVars>>

\* The client notices that the broker closed its connection.
Notice(c) ==
    /\ link[c] = "up"
    /\ session[IdOf(c)] # c
    /\ link' = [link EXCEPT ![c] = IF c \in Runs THEN "trying" ELSE "over"]
    /\ UNCHANGED <<held, session, wire, retained, platformVars, deviceVars, faults>>

\* stop: offline, which is lost if there is no connection, then DISCONNECT.
Stop(c) ==
    /\ c \in Runs
    /\ link[c] \in {"trying", "up"}
    /\ link' = [link EXCEPT ![c] = "over"]
    /\ wire' = IF link[c] = "up" /\ Owner = c
               THEN [wire EXCEPT ![c] = @ \o <<"offline", "disconnect">>]
               ELSE wire
    /\ UNCHANGED <<held, session, retained, platformVars, deviceVars, faults>>

Kill(c) ==
    /\ link[c] \in {"trying", "up"}
    /\ link' = [link EXCEPT ![c] = "over"]
    /\ UNCHANGED <<held, session, wire, retained, platformVars, deviceVars, faults>>

-----------------------------------------------------------------------------
(* mqtt-test and mqtt-listen: one attempt to connect, at most one message  *)

\* Refused, or given up before an answer.
GiveUp(c) ==
    /\ c \in Probes
    /\ link[c] = "trying"
    /\ link' = [link EXCEPT ![c] = "over"]
    /\ UNCHANGED <<held, session, wire, retained, platformVars, deviceVars, faults>>

\* An event on a topic of the device, the status topic included: mqtt-test
\* publishes what it is given, as does mosquitto_pub with the same password.
Leave(c) ==
    /\ c \in Probes
    /\ link[c] = "up"
    /\ session[IdOf(c)] = c
    /\ link' = [link EXCEPT ![c] = "over"]
    /\ \E sent \in {<<>>} \cup {<<m>> : m \in Messages} :
           wire' = [wire EXCEPT ![c] = sent \o <<"disconnect">>]
    /\ UNCHANGED <<held, session, retained, platformVars, deviceVars, faults>>

-----------------------------------------------------------------------------
(* The platform's client, and the device's row                             *)

\* A clean session: only the retained status is sent on subscription.
PlatformUp ==
    /\ platform = "down"
    /\ platform' = "up"
    /\ queue' = IF retained = "none" THEN <<>> ELSE <<retained>>
    /\ foreign' = (foreign /\ retained = "none")
    /\ UNCHANGED <<link, held, session, wire, retained, row, failed, deviceVars, faults>>

PlatformDown ==
    /\ platform = "up"
    /\ platform' = "down"
    /\ queue' = <<>>
    /\ Cut
    /\ UNCHANGED <<link, held, session, wire, retained, row, failed, foreign, deviceVars>>

\* apply_status_message: anything but the two statuses is passed over.
StatusOf(message) == IF message \in Statuses THEN message ELSE row

\* _on_message.  The message is acknowledged whether or not its transaction
\* succeeds, and not seen again.
Apply ==
    /\ queue # <<>>
    /\ queue' = Tail(queue)
    /\ row' = StatusOf(Head(queue))
    /\ failed' = (failed /\ Head(queue) \notin Statuses)
    /\ UNCHANGED <<link, held, session, wire, retained, platform, foreign, deviceVars, faults>>

ApplyFails ==
    /\ queue # <<>>
    /\ queue' = Tail(queue)
    /\ failed' = (failed \/ Head(queue) \in Statuses)
    /\ UNCHANGED <<link, held, session, wire, retained, platform, row, foreign, deviceVars, faults>>

\* publish_mqtt_test_event of the console, on the status topic of the device.
Console ==
    /\ platform = "up"
    /\ HasRoom
    /\ Cut
    /\ \E m \in Messages : PublishTest(m)
    /\ UNCHANGED <<link, held, session, wire, platform, row, failed, deviceVars>>

\* set_device_enabled: open sessions stay.
SetEnabled ==
    /\ enabled' = ~enabled
    /\ UNCHANGED <<link, held, session, wire, retained, platformVars, password, stored, faults>>

\* issue_mqtt_credentials: registration replaces the password, sessions stay.
Issue ==
    /\ password < MaxPassword
    /\ password' = password + 1
    /\ UNCHANGED <<link, held, session, wire, retained, platformVars, enabled, stored, faults>>

\* The agent that registered writes mqtt.json.
Store ==
    /\ stored # password
    /\ stored' = password
    /\ UNCHANGED <<link, held, session, wire, retained, platformVars, enabled, password, faults>>

-----------------------------------------------------------------------------

Next ==
    \/ \E c \in Clients :
           \/ Accept(c) \/ Receive(c) \/ Expire(c) \/ Sever(c)
           \/ Start(c) \/ Drop(c) \/ Notice(c) \/ Stop(c) \/ Kill(c)
           \/ GiveUp(c) \/ Leave(c)
    \/ PlatformUp \/ PlatformDown \/ Apply \/ ApplyFails \/ Console
    \/ SetEnabled \/ Issue \/ Store

\* The broker works off what a run sent and notices a broken connection, the
\* platform reconnects and handles its messages.  Receive is strong: a run
\* that is taken over waits a second before it connects again
\* (reconnect_delay_set), time enough for the broker to read what the other
\* sent.  Nothing is assumed of the runs, of probes, operators or transactions.
Fairness ==
    /\ \A c \in Runs : SF_vars(Receive(c)) /\ WF_vars(Expire(c))
    /\ WF_vars(PlatformUp)
    /\ WF_vars(Apply \/ ApplyFails)

Spec == Init /\ [][Next]_vars /\ Fairness

-----------------------------------------------------------------------------

Packets == Messages \cup {"disconnect"}

TypeOK ==
    /\ link \in [Clients -> {"new", "trying", "up", "over"}]
    /\ held \in [Clients -> 0 .. MaxPassword]
    /\ session \in [Ids -> Clients \cup {NoClient}]
    /\ \A i \in Ids : session[i] # NoClient => IdOf(session[i]) = i
    /\ wire \in [Clients -> Seq(Packets)]
    /\ retained \in Statuses \cup {"none"}
    /\ platform \in {"up", "down"}
    /\ queue \in Seq(Messages)
    /\ Len(queue) <= MaxQueue
    /\ row \in Statuses \cup {"none"}
    /\ failed \in BOOLEAN /\ foreign \in BOOLEAN /\ enabled \in BOOLEAN
    /\ password \in 1 .. MaxPassword
    /\ stored \in 1 .. password
    /\ faults \in 0 .. MaxFaults

\* Once everything in flight has arrived, the row says of the device what is
\* so: it is online exactly when a run has a session.  Messages are lost with
\* connections of agents and of the platform in between.  (_on_connect, the
\* will, stop, and the retained flag of each.)  What others published on the
\* status topic is excused until a session sends the next status or the
\* platform connects again: apply_status_message writes it to the row, so that
\* `mqtt-test status '{"status": "offline"}'` shows a live device offline.
StatusIsTrue ==
    platform = "up" /\ queue = <<>> /\ ~failed /\ ~foreign =>
        IF Owner = NoClient THEN row # "online"
        ELSE link[Owner] = "up" /\ wire[Owner] = <<>> => row = "online"

\* A run that holds a replaced password never takes the session from one that
\* holds a newer one, though both use the same client id (authenticate and
\* issue_mqtt_credentials).
SupersededStaysOut ==
    [][{Owner, Owner'} \subseteq Runs => held[Owner] <= held[Owner']]_vars

\* A device that keeps its session is shown online again and again, unless the
\* database fails or the newest status is none of a session's (_on_connect
\* announces the device once per connection, and nothing does so later).
OnlineIsNoticed ==
    []<>(Owner # NoClient => row = "online" \/ failed \/ foreign)

\* When the last run of a device is gone for good, however it ended, the device
\* does not stay online, with the same exceptions (the will, keep-alive, stop).
OfflineIsNoticed ==
    []<>((\A c \in Runs : link[c] # "up") => row # "online" \/ failed \/ foreign)
=============================================================================
