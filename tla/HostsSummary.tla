---------------------------- MODULE HostsSummary ----------------------------
(***************************************************************************)
(* internal/projection/process/hosts_summary.go: counts over the hosts of  *)
(* an enriched event.  The share val / float64(total) of a label is kept   *)
(* as its count beside the total: shares of one total compare as counts    *)
(* do, and a share is below 1.0 exactly when its count is below the total. *)
(***************************************************************************)
EXTENDS JsonTree, FiniteSets

CONSTANT Dotted   \* text with dots -> the same with underscores

Stats == {"type", "cpu_architecture", "openshift_version"}

(* The hosts of an event are the positions of its list that hold a map. *)
HostItems(event) ==
    LET hosts == Get(event, <<"cluster", "hosts">>)
    IN  IF hosts.kind = "list" THEN hosts.items ELSE <<>>

getHostsFromEvent(event) == {i \in DOMAIN HostItems(event) : HostItems(event)[i].kind = "object"}

getInfraEnvFromHost(event, i) == Field(HostItems(event)[i], "infra_env")

WithInfraEnv(event) ==
    {i \in getHostsFromEvent(event) : getInfraEnvFromHost(event, i).kind = "object"}

Label(text) == IF text \in DOMAIN Dotted THEN Dotted[text] ELSE text

(* updateInfraEnvStats: how many hosts have which label for stat k. *)
updateInfraEnvStats(event, k) ==
    LET Value(i) == Field(getInfraEnvFromHost(event, i), k)
        counted == {i \in WithInfraEnv(event) : Value(i).kind = "string"}
    IN  [label \in {Label(Value(i).text) : i \in counted} |->
            Cardinality({i \in counted : Label(Value(i).text) = label})]

(* The labels getHighestKeyValue may return: which of several equal ones   *)
(* depends on the iteration of the map.                                    *)
HighestKeys(stats) ==
    LET highest == {k \in DOMAIN stats : \A j \in DOMAIN stats : stats[k] >= stats[j]}
    IN  IF highest = {} THEN {""} ELSE highest

(* normalizeInfraEnvStats.  Without a label the highest share is 0.0.      *)
SummaryOf(event, total) ==
    LET stats == [k \in Stats |-> updateInfraEnvStats(event, k)]
        arch == stats["cpu_architecture"]
    IN  {[host_count |-> Cardinality(getHostsFromEvent(event)),
          total |-> total,
          infra_env |-> stats,
          iso_type |-> k,
          heterogeneous_arch |-> \A l \in DOMAIN arch : arch[l] < total] :
            k \in HighestKeys(stats["type"])}

(* (Mutant: the shares are of all hosts, with or without an infra-env.) *)
SummaryOfAllHosts(event) == SummaryOf(event, Cardinality(getHostsFromEvent(event)))
AddHostsSummary(event) == SummaryOf(event, Cardinality(WithInfraEnv(event)))
=============================================================================
