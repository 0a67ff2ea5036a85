------------------------------- MODULE Events -------------------------------
(***************************************************************************)
(* The messages of the event stream, abstracted to what the consumer looks *)
(* at: types.Event (internal/types/event.go) as json.Unmarshal leaves it,  *)
(* or the fact that the value is not JSON.                                 *)
(***************************************************************************)
EXTENDS Naturals

CONSTANTS IDs,        \* cluster, host and infra-env UUIDs
          UserNames,  \* values of a cluster's user_name
          DocIDs,     \* classes of equal message + event_time: one SHA1 UUID each
          NoValue     \* a payload key that is absent or not a string

(* The names ProcessEvent recognises. *)
StateNames == {"ClusterState", "HostState", "InfraEnv"}
EventNames == StateNames \cup {"Event"}

(* "notjson" stands for a value json.Unmarshal rejects, "other" for a JSON *)
(* message with any other name (the JSON value null, with its empty name,  *)
(* included).                                                              *)
Message ==
    [name : EventNames \cup {"notjson", "other"},
     id : IDs \cup {NoValue},
     cluster_id : IDs \cup {NoValue},
     user_name : UserNames \cup {NoValue},
     onprem : BOOLEAN,
     doc_id : DocIDs]

(* GetValueFromPayload yields a MalformedEventError for a key without a    *)
(* string value; these are the keys the four handlers ask for.             *)
WellFormed(m) ==
    \/ m.name = "Event" /\ m.cluster_id # NoValue
    \/ m.name = "ClusterState" /\ m.id # NoValue
    \/ m.name \in {"HostState", "InfraEnv"} /\ m.id # NoValue /\ m.cluster_id # NoValue

IsState(m) == m.name \in StateNames /\ WellFormed(m)
IsEvent(m) == m.name = "Event" /\ WellFormed(m)
=============================================================================
