------------------------------ MODULE EventHub ------------------------------
(***************************************************************************)
(* The fan-out of MQTT messages to the event streams of the console        *)
(* (modules/mqtt/hub.py, topics.py).  publish and subscribe each take the  *)
(* lock once and then put events into queues without it: publish on the    *)
(* thread of the MQTT client, subscribe in that of the request.            *)
(***************************************************************************)
EXTENDS StreamTopics, FiniteSets

CONSTANTS
    Orgs,
    NoOrg,
    Names,      \* topics that messages are published on
    OrgOf,      \* the organization of a topic's device, if there is one
    MaxRecent,  \* _MAX_RECENT
    MaxQueue,   \* _MAX_QUEUE
    MaxEvents   \* bound: events published

ASSUME EventHubAssumption ==
    /\ Orgs # {}
    /\ NoOrg \notin Orgs
    /\ OrgOf \in [Names -> Orgs \cup {NoOrg}]
    /\ MaxRecent \in Nat \ {0} /\ MaxQueue \in Nat \ {0} /\ MaxEvents \in Nat

VARIABLES
    log,        \* history: every event published, an event being its place
    recent,     \* _recent
    listener,   \* what each stream subscribed to, and whether it is in _subs
    replay,     \* events each subscribe has still to put into its queue
    fan,        \* the event being put into queues, the streams it is for and
                \* those that have it
    queue,      \* the queue of each stream
    taken,      \* history: what each stream has sent to its client
    dropped,    \* history: what did not fit into each queue
    since       \* history: how much was published when each stream subscribed

hubVars == <<log, recent, listener, replay, fan, queue, taken, dropped, since>>

-----------------------------------------------------------------------------

Events == 1 .. MaxEvents

Idle == [on |-> FALSE, org |-> CHOOSE o \in Orgs : TRUE, filter |-> <<>>]

NoFan == [event |-> 0, to |-> {}, given |-> {}]

HubInit ==
    /\ log = <<>>
    /\ recent = [t \in Names |-> <<>>]
    /\ listener = [s \in Streams |-> Idle]
    /\ replay = [s \in Streams |-> {}]
    /\ fan = NoFan
    /\ queue = [s \in Streams |-> <<>>]
    /\ taken = [s \in Streams |-> <<>>]
    /\ dropped = [s \in Streams |-> {}]
    /\ since = [s \in Streams |-> 0]

Hears(s, t) == Matches(listener[s].filter, t) /\ listener[s].org = OrgOf[t]

Listeners(t) == {s \in Streams : listener[s].on /\ Hears(s, t)}

\* Fault: the recent events are not bounded.
RememberAll(events, e) == Append(events, e)

\* deque(maxlen=...)
Remember(events, e) ==
    LET all == Append(events, e)
    IN  IF Len(all) > MaxRecent THEN Tail(all) ELSE all

-----------------------------------------------------------------------------
(* publish                                                                 *)

Publish(t) ==
    /\ fan = NoFan
    /\ Len(log) < MaxEvents
    /\ log' = Append(log, t)
    /\ recent' = [recent EXCEPT ![t] = Remember(@, Len(log'))]
    /\ fan' = [event |-> Len(log'), to |-> Listeners(t), given |-> {}]
    /\ UNCHANGED <<listener, replay, queue, taken, dropped, since>>

\* Fault: the listeners are looked up as the event is given out.
AddresseesNow == {s \in Streams : fan # NoFan /\ listener[s].on /\ Hears(s, log[fan.event])} \ fan.given

Addressees == fan.to \ fan.given

Room(s) == Len(queue[s]) < MaxQueue

\* Fault: put for put_nowait.
OfferWaits(s, e) ==
    Room(s) /\ queue' = [queue EXCEPT ![s] = Append(@, e)] /\ UNCHANGED dropped

\* _offer: what does not fit is dropped.
Offer(s, e) ==
    \/ Room(s) /\ queue' = [queue EXCEPT ![s] = Append(@, e)] /\ UNCHANGED dropped
    \/ ~Room(s) /\ dropped' = [dropped EXCEPT ![s] = @ \cup {e}] /\ UNCHANGED queue

Deliver(s) ==
    /\ fan # NoFan
    /\ s \in Addressees
    /\ Offer(s, fan.event)
    /\ fan' = [fan EXCEPT !.given = @ \cup {s}]
    /\ UNCHANGED <<log, recent, listener, replay, taken, since>>

Published ==
    /\ fan # NoFan
    /\ Addressees = {}
    /\ fan' = NoFan
    /\ UNCHANGED <<log, recent, listener, replay, queue, taken, dropped, since>>

-----------------------------------------------------------------------------
(* subscribe, the stream's loop, unsubscribe                               *)

\* Fault: the recent events of the topic that is named like the filter.
RecalledExact(filter, org) ==
    UNION {{recent[t][n] : n \in DOMAIN recent[t]} :
               t \in {u \in Names : filter = u /\ OrgOf[u] = org}}

\* The recent events a stream is to be given, under the lock.
Recalled(filter, org) ==
    UNION {{recent[t][n] : n \in DOMAIN recent[t]} :
               t \in {u \in Names : Matches(filter, u) /\ OrgOf[u] = org}}

\* They come topic after topic, the topics as they were first published.
FirstOn(e) == CHOOSE n \in Events : log[n] = log[e] /\ \A m \in 1 .. n - 1 : log[m] # log[e]

Before(d, e) ==
    \/ FirstOn(d) < FirstOn(e)
    \/ FirstOn(d) = FirstOn(e) /\ d < e

HubSubscribe(s, filter, org) ==
    /\ ~listener[s].on
    /\ listener' = [listener EXCEPT ![s] = [on |-> TRUE, org |-> org, filter |-> filter]]
    /\ replay' = [replay EXCEPT ![s] = Recalled(filter, org)]
    /\ since' = [since EXCEPT ![s] = Len(log)]
    /\ UNCHANGED <<log, recent, fan, queue, taken, dropped>>

Replay(s) ==
    /\ \E e \in replay[s] :
           /\ \A d \in replay[s] \ {e} : Before(e, d)
           /\ Offer(s, e)
           /\ replay' = [replay EXCEPT ![s] = @ \ {e}]
    /\ UNCHANGED <<log, recent, listener, fan, taken, since>>

Take(s) ==
    /\ replay[s] = {}
    /\ queue[s] # <<>>
    /\ taken' = [taken EXCEPT ![s] = Append(@, Head(queue[s]))]
    /\ queue' = [queue EXCEPT ![s] = Tail(@)]
    /\ UNCHANGED <<log, recent, listener, replay, fan, dropped, since>>

HubUnsubscribe(s) ==
    /\ listener[s].on
    /\ replay[s] = {}
    /\ listener' = [listener EXCEPT ![s] = Idle]
    /\ queue' = [queue EXCEPT ![s] = <<>>]
    /\ taken' = [taken EXCEPT ![s] = <<>>]
    /\ dropped' = [dropped EXCEPT ![s] = {}]
    /\ since' = [since EXCEPT ![s] = 0]
    /\ UNCHANGED <<log, recent, replay, fan>>

HubStep ==
    \/ Published
    \/ \E s \in Streams : Deliver(s) \/ Replay(s) \/ Take(s)

-----------------------------------------------------------------------------

HubTypeOK ==
    /\ log \in Seq(Names) /\ Len(log) <= MaxEvents
    /\ recent \in [Names -> Seq(Events)] /\ \A t \in Names : Len(recent[t]) <= MaxRecent
    /\ listener \in [Streams -> [on : BOOLEAN, org : Orgs, filter : Filters \cup {<<>>}]]
    /\ replay \in [Streams -> SUBSET Events]
    /\ fan \in [event : Events \cup {0}, to : SUBSET Streams, given : SUBSET Streams]
    /\ queue \in [Streams -> Seq(Events)] /\ \A s \in Streams : Len(queue[s]) <= MaxQueue
    /\ taken \in [Streams -> Seq(Events)]
    /\ dropped \in [Streams -> SUBSET Events]
    /\ since \in [Streams -> 0 .. MaxEvents]

Given(s) == taken[s] \o queue[s]

GivenEvents(s) == {Given(s)[n] : n \in DOMAIN Given(s)}

ToCome(s) == replay[s] \cup (IF fan # NoFan /\ s \in Addressees THEN {fan.event} ELSE {})

\* An event that comes in while a stream subscribes is either among the recent
\* events it is given or delivered to it, never both.
NothingTwice ==
    \A s \in Streams :
        /\ \A m, n \in DOMAIN Given(s) : Given(s)[m] = Given(s)[n] => m = n
        /\ GivenEvents(s) \cap ToCome(s) = {}
        /\ s \in Addressees => fan.event \notin replay[s]

\* The places in the log of the MaxRecent last events of topic t by place n.
LastOn(t, n) ==
    {e \in 1 .. n : /\ log[e] = t
                    /\ Cardinality({d \in e + 1 .. n : log[d] = t}) < MaxRecent}

\* A stream gets every event of its organization that its filter matches, from
\* the recent ones of when it subscribed on, but those its full queue had no
\* room for.
NothingLost ==
    \A s \in Streams : listener[s].on =>
        \A e \in DOMAIN log :
            /\ Hears(s, log[e])
            /\ e > since[s] \/ e \in LastOn(log[e], since[s])
            => e \in GivenEvents(s) \cup ToCome(s) \cup dropped[s]

=============================================================================
