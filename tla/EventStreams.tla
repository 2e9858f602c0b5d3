---------------------------- MODULE EventStreams ----------------------------
(***************************************************************************)
(* The event streams of the console (fleet/router.py, stream_mqtt_events): *)
(* a request watches its topic with the platform's MQTT client, subscribes *)
(* to the hub, and undoes both in the other order when its client leaves.  *)
(* What the MQTT client receives it publishes to the hub, on the thread    *)
(* that runs its callbacks.                                                *)
(***************************************************************************)
EXTENDS PlatformMqtt, EventHub

CONSTANT MemberOf   \* the organizations the user of each stream is a member of

ASSUME MembersAssumption == MemberOf \in [Streams -> SUBSET Orgs]

streamVars == <<mqttVars, hubVars>>

EventStreamsInit == MqttInit /\ HubInit

\* _on_message: a message on a topic that a subscription covers.  One that
\* several cover may come as often; each is an event of its own.
Receive(t) ==
    /\ conn = "up"
    /\ \E f \in subs : Matches(f, t)
    /\ Publish(t)
    /\ UNCHANGED mqttVars

\* require_mqtt_listener lets members in, whatever their role and the filter.
Listen(s, org) ==
    /\ stream[s].pc = "watched"
    /\ org \in MemberOf[s]
    /\ HubSubscribe(s, stream[s].filter, org)
    /\ Goto(s, "open")
    /\ UNCHANGED <<loopVars, counts, crossed>>

\* The generator is closed.  One whose client left before it started is never
\* closed, and the stream stays open with nobody taking.
Close(s) ==
    /\ stream[s].pc = "open"
    /\ HubUnsubscribe(s)
    /\ Goto(s, "closed")
    /\ UNCHANGED <<loopVars, counts, crossed>>

\* The callbacks wait until a message is handed to every queue.
EventStreamsNext ==
    \/ LoopStep /\ fan = NoFan /\ UNCHANGED hubVars
    \/ \E s \in Streams : WatchStep(s) /\ UNCHANGED hubVars
    \/ HubStep /\ UNCHANGED mqttVars
    \/ \E t \in Names : Receive(t)
    \/ \E s \in Streams : Close(s) \/ \E o \in Orgs : Listen(s, o)

\* paho's thread and the broker work off what they have, and a request that
\* has begun to watch goes on.  Nothing is assumed of the clients of the
\* streams, of devices, nor that a connection lasts.
Fairness ==
    /\ WF_streamVars(/\ fan = NoFan /\ UNCHANGED hubVars
                     /\ \/ Connect \/ Connack \/ OnConnect \/ SubscribeAll
                        \/ OnSubscribe \/ OnUnsubscribe \/ OnDisconnect)
    /\ WF_streamVars(/\ \E s \in Streams : stream[s].pc # "new" /\ WatchStep(s)
                     /\ UNCHANGED hubVars)
    /\ WF_streamVars(/\ Published \/ \E s \in Streams : Deliver(s)
                     /\ UNCHANGED mqttVars)

EventStreamsSpec == EventStreamsInit /\ [][EventStreamsNext]_streamVars /\ Fairness

-----------------------------------------------------------------------------

\* The client, the hub and the streams keep their types.
StreamsTypeOK == MqttTypeOK /\ HubTypeOK

\* However often the connection is lost, and whoever watches meanwhile, the
\* platform can publish again once it stays (_ready and _pending_subs): a
\* SUBACK that was counted and is lost holds nobody up.
PublishingResumes == []<>ready

\* A stream whose client does not keep up never holds up the thread that
\* receives messages ("drop it if the subscriber is not keeping up").
SlowStreamDelaysNobody == []<>(fan = NoFan)
=============================================================================
