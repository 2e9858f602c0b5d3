----------------------------- MODULE TopicRules -----------------------------
(***************************************************************************)
(* Who decides on a topic: the agent before it sends (normalize_device_-   *)
(* topic of edge_agent/mqtt.py), the authorization the broker asks the     *)
(* platform for (modules/mqtt/acl.py), and the subscriptions of the        *)
(* platform with what it makes of a topic (broker.py).  Pure rules, to be  *)
(* checked over all topics of bounded length.                              *)
(***************************************************************************)
EXTENDS StreamTopics

CONSTANTS
    Devices,    \* device ids in the form the platform writes them
    Levels,     \* what a level of a topic may be
    Spelling,   \* the other levels that uuid.UUID reads as the id of a device
    MaxLevels   \* bound: levels of a topic

ASSUME TopicRulesAssumption ==
    /\ Devices \subseteq Levels /\ Levels \subseteq STRING
    /\ Spelling \in [Devices -> SUBSET Levels]
    /\ \A d \in Devices : {"+", "#"} \cap ({d} \cup Spelling[d]) = {}
    /\ \A d, e \in Devices :
           d # e => ({d} \cup Spelling[d]) \cap ({e} \cup Spelling[e]) = {}
    /\ Reserved \subseteq STRING /\ {"+", "#"} \cap Reserved = {}
    /\ MaxLevels \in Nat \ {0}

Inputs == UNION {[1 .. n -> Levels] : n \in 0 .. MaxLevels}

Suffix(topic) == SubSeq(topic, 3, Len(topic))

\* parse_device_topic: the device that the second level names.
DevicesOf(topic) ==
    IF Len(topic) < 3 \/ topic[1] # "devices" THEN {}
    ELSE {d \in Devices : topic[2] \in {d} \cup Spelling[d]}

\* can_access_topic, which authorize asks for the device of the user name.
CanAccess(d, action, topic) ==
    /\ d \in DevicesOf(topic)
    /\ Suffix(topic) # <<"">> /\ ~Wild(Suffix(topic))
    /\ action = "publish" => Suffix(topic) # <<"commands">>

\* _SUBSCRIBE_TOPICS.
SubscribeTopics ==
    {<<"devices", "+", "status">>, <<"devices", "+", "commands", "result">>,
     <<"devices", "+", "events">>}

\* The topics of DeviceMqttSession.
OwnTopic(d, suffix) == <<"devices", d>> \o suffix

SessionSuffixes == {<<"status">>, <<"commands", "result">>, <<"events">>}

\* normalize_device_topic: the topic it makes of nothing, of one level, or of a
\* whole topic of the device; none if it raises.
Normalize(d, raw) ==
    {t \in {OwnTopic(d, <<"events">>), OwnTopic(d, raw), raw} :
        \/ raw \in {<<>>, <<"">>} /\ t = OwnTopic(d, <<"events">>)
        \/ /\ Len(raw) = 1 /\ raw # <<"">> /\ ~Wild(raw)
           /\ t = OwnTopic(d, raw)
        \/ /\ Len(raw) >= 3 /\ raw[1] = "devices" /\ raw[2] = d
           /\ Suffix(raw) # <<"">> /\ ~Wild(raw)
           /\ t = raw}

-----------------------------------------------------------------------------

\* What MQTT says of a filter: "+" stands for one level, and "#" for the
\* levels that are left, of which there may be none; but neither stands for a
\* first level that begins with "$".
Covers(filter, topic) ==
    /\ topic[1] \in Reserved => filter[1] \notin {"+", "#"}
    /\ \E rest \in {SubSeq(topic, n, Len(topic)) : n \in 1 .. Len(topic) + 1} :
           LET levels == IF filter[Len(filter)] = "#"
                         THEN SubSeq(filter, 1, Len(filter) - 1) \o rest
                         ELSE filter
           IN  /\ Len(levels) = Len(topic)
               /\ \A n \in DOMAIN topic : levels[n] \in {"+", topic[n]}

Short == {t \in Inputs : Len(t) < MaxLevels}

\* Topics on which messages come: some filter that validate_mqtt_topic lets
\* through covers them.
Delivered ==
    {t \in Short : /\ t # <<>> /\ ~Wild(t)
                   /\ \E g \in Short : ValidTopic(g, TRUE) /\ Covers(g, t)}

\* The console shows a message that the broker delivers exactly if its filter
\* covers the topic, as the broker understands the filter (mqtt_topic_matches
\* and validate_mqtt_topic).  Of other topics they differ: mqtt_topic_matches
\* takes "#" to cover "$SYS/uptime", which the broker never sends for it.
MatchesAsMqttSays ==
    \A f \in {g \in Short : ValidTopic(g, TRUE)}, t \in Delivered :
        Matches(f, t) <=> Covers(f, t)

\* "A stolen credential impersonates that device only": whatever a device may
\* subscribe to covers topics of that device alone, and what it may publish on
\* the platform takes for its own, however its id is spelled.
AclConfinesDevices ==
    \A d \in Devices, f \in Inputs :
        /\ CanAccess(d, "publish", f) => DevicesOf(f) = {d} /\ f # OwnTopic(d, <<"commands">>)
        /\ CanAccess(d, "subscribe", f) =>
               \A t \in {u \in Inputs : ~Wild(u)} : Matches(f, t) => DevicesOf(t) = {d}

\* What the agent agrees to send or listen to, the platform allows: a command
\* is not left to wait for a message the broker refused.  The one exception is
\* a publication on the topic of the commands, which only the platform makes.
AgentTopicsAllowed ==
    \A d \in Devices, raw \in Inputs : \A t \in Normalize(d, raw) :
        /\ CanAccess(d, "subscribe", t)
        /\ CanAccess(d, "publish", t) \/ t = OwnTopic(d, <<"commands">>)

\* What a device's session publishes it is allowed to, the platform's
\* subscriptions cover, and the platform knows whose it is; and the session may
\* subscribe to its commands.
DevicesAreHeard ==
    \A d \in Devices :
        /\ CanAccess(d, "subscribe", OwnTopic(d, <<"commands">>))
        /\ \A suffix \in SessionSuffixes :
               /\ CanAccess(d, "publish", OwnTopic(d, suffix))
               /\ \E f \in SubscribeTopics : Matches(f, OwnTopic(d, suffix))
               /\ DevicesOf(OwnTopic(d, suffix)) = {d}
=============================================================================
