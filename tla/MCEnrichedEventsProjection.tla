--------------------- MODULE MCEnrichedEventsProjection ---------------------
(***************************************************************************)
(* Small instances of EnrichedEventsProjection for TLC.                    *)
(***************************************************************************)
EXTENDS EnrichedEventsProjection

CONSTANTS c1, c2, alice, bob, d1, d2, d3

MCMessage(name, id, cluster_id, doc_id) ==
    [name |-> name, id |-> id, cluster_id |-> cluster_id, user_name |-> alice,
     onprem |-> FALSE, doc_id |-> doc_id]

Event(c, doc_id) == MCMessage("Event", NoValue, c, doc_id)
Cluster(c) == MCMessage("ClusterState", c, NoValue, d1)
Host(h, c) == MCMessage("HostState", h, c, d1)
InfraEnv(i, c) == MCMessage("InfraEnv", i, c, d1)
OnPremCluster(c) == [Cluster(c) EXCEPT !.onprem = TRUE]
ExcludedCluster(c) == [Cluster(c) EXCEPT !.user_name = bob]
NotJSON == MCMessage("notjson", NoValue, NoValue, d1)
Unknown == MCMessage("other", NoValue, NoValue, d1)

(* Every kind of message, malformed ones included. *)
AllMessages ==
    {Event(c1, d1), Event(c2, d1), Event(NoValue, d1), Cluster(c1), Cluster(NoValue), Host(c2, c1),
     Event(c1, d2), Host(c1, c1), Host(c1, c2), InfraEnv(c1, c1), ExcludedCluster(c1), NotJSON,
     Unknown}

(* States of this and of another cluster, malformed messages and events,   *)
(* two of which have the same document, before a message that the consumer *)
(* cannot pass; one behind it; and a topic that is read to its end.        *)
MixedTopics ==
    {<<Event(c1, d1), Event(c1, d2), Unknown>>,
     <<Event(c1, d1), Event(c2, d1), Unknown>>,
     <<Event(c1, d1), Unknown, Cluster(c1)>>,
     <<Cluster(NoValue), Event(c1, d1), Unknown>>,
     <<ExcludedCluster(c1), Event(c1, d1), Unknown>>,
     <<Host(c1, c2), Event(c1, d1), Unknown>>,
     <<InfraEnv(c1, c1), Event(c1, d1), Unknown>>,
     <<NotJSON, Event(NoValue, d1), Unknown>>,
     <<NotJSON, Cluster(NoValue), ExcludedCluster(c1)>>}

(* Snapshots that change between the events of a cluster, and an event     *)
(* that is skipped and never acknowledged.                                 *)
ReplayMessages ==
    {Event(c1, d1), Event(c1, d2), Event(c2, d2), Cluster(c1), Cluster(c2), OnPremCluster(c1),
     ExcludedCluster(c1), Host(c2, c1), InfraEnv(c2, c1)}
ReplayTopics ==
    {<<Event(c1, d1), OnPremCluster(c1), Event(c1, d2), OnPremCluster(c1)>>,
     <<OnPremCluster(c1), Event(c1, d1), OnPremCluster(c1), Event(c1, d2)>>,
     <<Host(c2, c1), Event(c1, d1), Host(c2, c1), Event(c1, d2)>>,
     <<InfraEnv(c2, c1), InfraEnv(c2, c1), Event(c1, d1)>>,
     <<ExcludedCluster(c1), Event(c1, d1), Event(c2, d2), ExcludedCluster(c1)>>,
     <<Cluster(c1), Cluster(c2), Cluster(c1)>>}

(* A stream of events alone. *)
EventMessages == {Event(c1, d1), Event(c2, d2)}
EventTopics == {<<Event(c1, d1), Event(c2, d2)>>}

(* What a running installation produces, and messages that are             *)
(* acknowledged twice.                                                     *)
LiveMessages == {Event(c1, d1), Event(c1, d2), Cluster(c1), Cluster(NoValue), NotJSON}
LiveTopics ==
    {<<Event(c1, d1)>>,
     <<Event(c1, d1), Cluster(NoValue), Event(c1, d2)>>,
     <<Cluster(c1), Cluster(NoValue), Event(c1, d1)>>}

(* An event, then a state that is acknowledged before the event is indexed. *)
LossTopics == {<<Event(c1, d1), Cluster(c1)>>}
=============================================================================
