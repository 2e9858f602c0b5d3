---------------------------- MODULE PlatformMqtt ----------------------------
(***************************************************************************)
(* The platform's MQTT client (modules/mqtt/broker.py): its connection,    *)
(* the topics watched for the event streams of the console, and the _ready *)
(* flag that publish waits for.  paho's loop thread runs the callbacks;    *)
(* watch_topic and unwatch_topic run in the threads of the requests.       *)
(*                                                                         *)
(* External: paho sends what it is given while it has a socket, and drops  *)
(* it with the socket; the broker starts each session without subscriptions*)
(* and handles packets in order.                                           *)
(***************************************************************************)
EXTENDS StreamTopics, Integers, FiniteSets

Seqs == INSTANCE SequencesExt

CONSTANTS
    Base,       \* _SUBSCRIBE_TOPICS
    MaxBreaks   \* bound: connections lost or refused

ASSUME PlatformMqttAssumption ==
    /\ IsFiniteSet(Streams)
    /\ IsFiniteSet(Base) /\ Base # {}
    /\ MaxBreaks \in Nat

VARIABLES
    conn,       \* the connection, as below
    ready,      \* _ready
    pending,    \* _pending_subs
    counts,     \* _watch_counts
    extra,      \* the topics on_connect found watched
    wire,       \* packets on their way to the broker
    subs,       \* the broker's subscriptions of this session
    stream,     \* the requests, and the filter each watches
    breaks,     \* connections lost so far
    overtaken,  \* history: a subscription was under way when the connection changed
    refused,    \* history: topics the broker last refused on this connection
    crossed     \* history: a watch began before the unsubscription of its topic

loopVars == <<conn, ready, pending, extra, wire, subs, breaks, overtaken, refused>>
watchVars == <<counts, stream, crossed>>
mqttVars == <<loopVars, watchVars>>

-----------------------------------------------------------------------------

Topics == Base \cup Filters

\* down: no socket; open: CONNECT sent; acked: CONNACK read, on_connect not
\* run; reset: on_connect has counted what it will subscribe to; up; lost: the
\* socket is gone and on_disconnect has not run.
Connection == {"down", "open", "acked", "reset", "up", "lost"}

HasSocket == conn \notin {"down", "lost"}

\* client.is_connected()
IsConnected == conn \in {"acked", "reset", "up", "lost"}

\* counted, checked, subscribing, account, set: watch_topic; leaving:
\* unwatch_topic.
Request == [pc     : {"new", "counted", "checked", "subscribing", "account",
                      "set", "watched", "open", "closed", "leaving", "over"},
            filter : Filters]

Watching == {s \in Streams : stream[s].pc \in {"counted", "checked", "subscribing",
                                               "account", "set"}}

Subscribe(t) == [kind |-> "subscribe", topic |-> t]

Unsubscribe(t) == [kind |-> "unsubscribe", topic |-> t]

MqttInit ==
    /\ conn = "down"
    /\ ready = FALSE
    /\ pending = 0
    /\ counts = [t \in Topics |-> 0]
    /\ extra = {}
    /\ wire = <<>>
    /\ subs = {}
    /\ stream \in [Streams -> {[pc |-> "new", filter |-> f] : f \in Filters}]
    /\ breaks = 0
    /\ overtaken = FALSE
    /\ refused = {}
    /\ crossed = FALSE

Goto(s, pc) == stream' = [stream EXCEPT ![s].pc = pc]

-----------------------------------------------------------------------------
(* The loop thread                                                         *)

Connect ==
    /\ conn = "down"
    /\ conn' = "open"
    /\ UNCHANGED <<ready, pending, extra, wire, subs, breaks, overtaken, refused, watchVars>>

Connack ==
    /\ conn = "open"
    /\ conn' = "acked"
    /\ UNCHANGED <<ready, pending, extra, wire, subs, breaks, overtaken, refused, watchVars>>

\* CONNACK with a failure: on_connect clears _ready, the socket is closed.
Refused ==
    /\ conn = "open"
    /\ breaks < MaxBreaks
    /\ breaks' = breaks + 1
    /\ conn' = "down"
    /\ ready' = FALSE
    /\ wire' = <<>>
    /\ UNCHANGED <<pending, extra, subs, overtaken, refused, watchVars>>

\* Fault: what on_connect is to subscribe to is added to what is pending.
ExpectedMore(n) == pending + n

\* on_connect, under the lock.
Expected(n) == n

\* Fault: on_connect only subscribes to its own topics.
WatchedNone == {}

Watched == {t \in Topics : counts[t] > 0}

OnConnect ==
    /\ conn = "acked"
    /\ conn' = "reset"
    /\ ready' = FALSE
    /\ extra' = Watched \ Base
    /\ pending' = Expected(Cardinality(Base) + Cardinality(extra'))
    /\ overtaken' = (overtaken \/ Watching # {} \/ wire # <<>>)
    /\ UNCHANGED <<wire, subs, breaks, refused, watchVars>>

\* on_connect, after it released the lock.
SubscribeAll ==
    /\ conn = "reset"
    /\ conn' = "up"
    /\ wire' = wire \o Seqs!SetToSeq({Subscribe(t) : t \in Base \cup extra})
    /\ extra' = {}
    /\ UNCHANGED <<ready, pending, subs, breaks, overtaken, refused, watchVars>>

Predecessor(n) == IF n = 0 THEN 0 ELSE n - 1

\* _on_subscribe, for a SUBSCRIBE that the broker has just handled.  A failure
\* is logged, and counted like a success.  Nothing on the loop thread comes
\* between the count and _ready.
OnSubscribe ==
    /\ conn = "up"
    /\ wire # <<>> /\ Head(wire).kind = "subscribe"
    /\ wire' = Tail(wire)
    /\ LET t == Head(wire).topic
       IN  \/ subs' = subs \cup {t} /\ refused' = refused \ {t}
           \/ refused' = refused \cup {t} /\ UNCHANGED subs
    /\ pending' = Predecessor(pending)
    /\ ready' = (ready \/ pending' = 0)
    /\ UNCHANGED <<conn, extra, breaks, overtaken, watchVars>>

Lose ==
    /\ conn \in {"open", "acked", "up"}
    /\ breaks < MaxBreaks
    /\ breaks' = breaks + 1
    /\ conn' = IF conn = "open" THEN "down" ELSE "lost"
    /\ wire' = <<>>
    /\ subs' = {}
    /\ refused' = {}
    /\ overtaken' = (overtaken \/ Watching # {})
    /\ UNCHANGED <<ready, pending, extra, watchVars>>

\* Fault: _ready outlives the connection.
ReadyKept == ready

ReadyCleared == FALSE

OnDisconnect ==
    /\ conn = "lost"
    /\ conn' = "down"
    /\ ready' = ReadyCleared
    /\ overtaken' = (overtaken \/ Watching # {})
    /\ UNCHANGED <<pending, extra, wire, subs, breaks, refused, watchVars>>

OnUnsubscribe ==
    /\ conn = "up"
    /\ wire # <<>> /\ Head(wire).kind = "unsubscribe"
    /\ wire' = Tail(wire)
    /\ subs' = subs \ {Head(wire).topic}
    /\ refused' = refused \ {Head(wire).topic}
    /\ UNCHANGED <<conn, ready, pending, extra, breaks, overtaken, watchVars>>

-----------------------------------------------------------------------------
(* watch_topic                                                             *)

Count(s) ==
    LET t == stream[s].filter
    IN  /\ stream[s].pc = "new"
        /\ counts' = [counts EXCEPT ![t] = @ + 1]
        /\ IF counts[t] = 0 /\ t \notin Base THEN Goto(s, "counted")
           ELSE Goto(s, "watched")
        /\ crossed' = (crossed \/ \E o \in Streams : /\ stream[o].pc = "leaving"
                                                    /\ stream[o].filter = t)
        /\ UNCHANGED loopVars

CheckConnected(s) ==
    /\ stream[s].pc = "counted"
    /\ Goto(s, IF IsConnected THEN "checked" ELSE "subscribing")
    /\ UNCHANGED <<loopVars, counts, crossed>>

\* One that was connected also counts the SUBACK to come.
Expect(s) ==
    /\ stream[s].pc = "checked"
    /\ pending' = pending + 1
    /\ Goto(s, "account")
    /\ UNCHANGED <<conn, ready, extra, wire, subs, breaks, overtaken, refused, counts, crossed>>

SendSubscribe(s) ==
    /\ stream[s].pc \in {"subscribing", "account"}
    /\ HasSocket
    /\ wire' = Append(wire, Subscribe(stream[s].filter))
    /\ Goto(s, "watched")
    /\ UNCHANGED <<conn, ready, pending, extra, subs, breaks, overtaken, refused, counts, crossed>>

\* Without a socket the subscription fails, and what was counted is taken
\* back: _account_subscribe, which sets _ready after it released the lock.
SubscribeFails(s) ==
    /\ stream[s].pc \in {"subscribing", "account"}
    /\ ~HasSocket
    /\ IF stream[s].pc = "account"
       THEN /\ pending' = Predecessor(pending)
            /\ Goto(s, IF pending' = 0 THEN "set" ELSE "watched")
       ELSE UNCHANGED pending /\ Goto(s, "watched")
    /\ UNCHANGED <<conn, ready, extra, wire, subs, breaks, overtaken, refused, counts, crossed>>

SetReady(s) ==
    /\ stream[s].pc = "set"
    /\ ready' = TRUE
    /\ Goto(s, "watched")
    /\ UNCHANGED <<conn, pending, extra, wire, subs, breaks, overtaken, refused, counts, crossed>>

-----------------------------------------------------------------------------
(* unwatch_topic                                                           *)

\* Fault: the first to leave unsubscribes.
NobodyLeftEver(t) == TRUE

NobodyLeft(t) == counts[t] = 1

Uncount(s) ==
    LET t == stream[s].filter
    IN  /\ stream[s].pc = "closed"
        /\ counts' = [counts EXCEPT ![t] = @ - 1]
        /\ Goto(s, IF NobodyLeft(t) /\ t \notin Base THEN "leaving" ELSE "over")
        /\ UNCHANGED <<loopVars, crossed>>

SendUnsubscribe(s) ==
    /\ stream[s].pc = "leaving"
    /\ wire' = IF HasSocket THEN Append(wire, Unsubscribe(stream[s].filter)) ELSE wire
    /\ Goto(s, "over")
    /\ UNCHANGED <<conn, ready, pending, extra, subs, breaks, overtaken, refused, counts, crossed>>

-----------------------------------------------------------------------------

LoopStep ==
    \/ Connect \/ Connack \/ Refused \/ OnConnect \/ SubscribeAll \/ OnSubscribe
    \/ OnUnsubscribe \/ Lose \/ OnDisconnect

WatchStep(s) ==
    \/ Count(s) \/ CheckConnected(s) \/ Expect(s)
    \/ SendSubscribe(s) \/ SubscribeFails(s) \/ SetReady(s)
    \/ Uncount(s) \/ SendUnsubscribe(s)

MqttStep == LoopStep \/ \E s \in Streams : WatchStep(s)

-----------------------------------------------------------------------------

MqttTypeOK ==
    /\ conn \in Connection
    /\ ready \in BOOLEAN
    /\ pending \in 0 .. Cardinality(Base) + 2 * Cardinality(Streams)
    /\ counts \in [Topics -> 0 .. Cardinality(Streams)]
    /\ extra \subseteq Filters
    /\ wire \in Seq([kind : {"subscribe", "unsubscribe"}, topic : Topics])
    /\ subs \subseteq Topics /\ refused \subseteq Topics
    /\ stream \in [Streams -> Request]
    /\ breaks \in 0 .. MaxBreaks
    /\ overtaken \in BOOLEAN /\ crossed \in BOOLEAN

\* Topics the broker has answered for on this connection.
Answered == subs \cup refused

\* publish does not go ahead before the broker has answered for every topic on
\* which the platform hears devices ("MQTT client is not subscribed."): _ready
\* means that no subscription of this connection is still on its way.  It does
\* not mean that the broker granted them, for a refusal is only logged.
ReadyMeansAnswered ==
    ~overtaken /\ ready => conn \in {"up", "lost"} /\ (conn = "up" => Base \subseteq Answered)

\* A topic with a watcher is subscribed to once everything has settled, also
\* after the connection was lost and made again, unless the broker refused it
\* on this connection: nothing asks again before the next one.
WatchedAreSubscribed ==
    ~crossed /\ conn = "up" /\ wire = <<>> /\ Watching = {}
        => Base \cup {stream[s].filter : s \in {r \in Streams : stream[r].pc = "open"}}
               \subseteq subs \cup refused
=============================================================================
