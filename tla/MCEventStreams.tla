--------------------------- MODULE MCEventStreams ---------------------------
(***************************************************************************)
(* Model checking instances of EventStreams, with a device of one of two   *)
(* organizations, and of TopicRules.                                       *)
(***************************************************************************)
EXTENDS EventStreams, TopicRules

Events1 == <<"devices", "d1", "events">>

\* One of the topics the platform subscribes to.
BaseTopics == {<<"devices", "+", "events">>}

StreamFilters == {<<"#">>}

TopicNames == {Events1}

Owners == [t \in TopicNames |-> "o1"]

\* One user is a member of both organizations.
Memberships == [s \in Streams |-> IF s = "s1" THEN {"o1"} ELSE {"o1", "o2"}]

TopicLevels ==
    {"devices", "d1", "D1", "d2", "commands", "result", "status", "events",
     "+", "#", "", "$SYS"}

Spelled == [d \in {"d1", "d2"} |-> IF d = "d1" THEN {"D1"} ELSE {}]

-----------------------------------------------------------------------------
(* The rules on topics, for the levels above.                              *)

ASSUME MatchesChecked == MatchesAsMqttSays

ASSUME AclChecked == AclConfinesDevices

ASSUME AgentChecked == AgentTopicsAllowed

ASSUME SessionsChecked == DevicesAreHeard
=============================================================================
