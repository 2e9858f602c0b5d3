---------------------------- MODULE StreamTopics ----------------------------
(***************************************************************************)
(* The event streams of the console and the topic filters they may ask for *)
(* (modules/mqtt/topics.py): what the MQTT client and the hub have in      *)
(* common.  A filter or topic is the sequence of its levels.               *)
(***************************************************************************)
EXTENDS Naturals, Sequences

CONSTANTS
    Streams,    \* requests for an event stream
    Filters,    \* topic filters that pass validate_mqtt_topic
    Reserved    \* levels that begin with "$"

Wild(topic) == \E n \in DOMAIN topic : topic[n] \in {"+", "#"}

\* validate_mqtt_topic: no empty level, nothing after "#", no "$" in front.  A
\* length of more than 256 and NUL are left out.
ValidTopic(topic, wildcards) ==
    /\ topic # <<>>
    /\ topic[1] \notin Reserved
    /\ Wild(topic) => wildcards
    /\ \A n \in DOMAIN topic : topic[n] # "" /\ (topic[n] = "#" => n = Len(topic))

ASSUME FiltersAssumption == \A f \in Filters : ValidTopic(f, TRUE)

\* mqtt_topic_matches: levels are compared up to the first "#", which must end
\* the filter and stands for any rest.
Matches(filter, topic) ==
    LET hashes == {n \in DOMAIN filter : filter[n] = "#"}
        Same(n) == n \in DOMAIN topic /\ filter[n] \in {"+", topic[n]}
    IN  \/ filter = topic
        \/ /\ hashes = {}
           /\ Len(filter) = Len(topic)
           /\ \A n \in DOMAIN filter : Same(n)
        \/ /\ hashes = {Len(filter)}
           /\ \A n \in 1 .. Len(filter) - 1 : Same(n)
=============================================================================
