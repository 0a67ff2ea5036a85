------------------------- MODULE SnapshotRepository -------------------------
(***************************************************************************)
(* internal/repository/redis: the snapshots of clusters, hosts and         *)
(* infra-envs kept in Redis hashes, one TTL per hash.  A snapshot is       *)
(* represented by the offset of the message whose payload was stored,      *)
(* 0 for a field that is not there.                                        *)
(***************************************************************************)
EXTENDS Events

VARIABLES redis,  \* hash key -> field -> offset of the stored payload
          ttl     \* hash key -> TRUE iff the key carries an expiration

snapshotVars == <<redis, ttl>>

(* The keys of the hashes.  (Mutant: one hash for the hosts of all clusters.) *)
getClustersHKey == <<"clusters", NoValue>>
getHostsHKeyShared(clusterID) == <<"hosts_", CHOOSE c \in IDs : TRUE>>
getHostsHKey(clusterID) == <<"hosts_", clusterID>>
getInfraEnvsHKey(clusterID) == <<"infraenvs_", clusterID>>

HKeys == {getClustersHKey} \cup {getHostsHKey(c) : c \in IDs}
                           \cup {getInfraEnvsHKey(c) : c \in IDs}

EmptyHash == [f \in IDs |-> 0]

SnapshotTypeOK ==
    /\ redis \in [HKeys -> [IDs -> Nat]]
    /\ ttl \in [HKeys -> BOOLEAN]

SnapshotInit ==
    /\ redis = [k \in HKeys |-> EmptyHash]
    /\ ttl = [k \in HKeys |-> FALSE]

(* SetCluster, SetHost and SetInfraEnv: the hash a state message goes to;  *)
(* the field is the payload's id.                                          *)
HKey(m) ==
    IF m.name = "ClusterState" THEN getClustersHKey
    ELSE IF m.name = "HostState" THEN getHostsHKey(m.cluster_id)
    ELSE getInfraEnvsHKey(m.cluster_id)

(* hset, first command: HSET replaces the field and leaves the TTL alone. *)
(* (Mutant: HSETNX, which keeps a field that exists.)                      *)
HSetNX(m, o) ==
    /\ redis' = [redis EXCEPT ![HKey(m)][m.id] = IF @ = 0 THEN o ELSE @]
    /\ UNCHANGED ttl

HSet(m, o) ==
    /\ redis' = [redis EXCEPT ![HKey(m)][m.id] = o]
    /\ UNCHANGED ttl

(* hset, second command: EXPIRE, which does nothing to a key that is gone. *)
(* (Mutant: an expiration that does not take effect, a TTL of zero units.) *)
ExpireOmitted(m) == UNCHANGED <<redis, ttl>>

Expire(m) ==
    /\ ttl' = [ttl EXCEPT ![HKey(m)] = redis[HKey(m)] # EmptyHash]
    /\ UNCHANGED redis

(* Redis drops the whole hash when its TTL elapses (external). *)
KeyExpires(k) ==
    /\ ttl[k]
    /\ redis' = [redis EXCEPT ![k] = EmptyHash]
    /\ ttl' = [ttl EXCEPT ![k] = FALSE]

(* The reads.  A failed command counts as an empty answer: GetCluster      *)
(* swallows the error, ProcessClusterEvent logs the others and goes on.    *)
GetCluster(c, fails) == IF fails THEN 0 ELSE redis[getClustersHKey][c]
GetHosts(c, fails) == IF fails THEN EmptyHash ELSE redis[getHostsHKey(c)]
GetInfraEnvs(c, fails) == IF fails THEN EmptyHash ELSE redis[getInfraEnvsHKey(c)]
=============================================================================
