----------------------- MODULE MCOnPremEventsHydrator -----------------------
(***************************************************************************)
(* Small instances of OnPremEventsHydrator for TLC.                        *)
(***************************************************************************)
EXTENDS OnPremEventsHydrator, TLC

CONSTANTS a, b, one, big,  \* locations of archives
          f, g, h, k       \* file names

R(name, file, id) == [name |-> name, file |-> file, id |-> id]

(* a: a host and two events, the second of which has no cluster ID.        *)
(* b: an event, listed before the cluster.                                 *)
(* one: a single event.  big: more events than the event channel takes.    *)
MCArchive ==
    (a :> <<R("Event", 1, "string"), R("Event", 1, "none"), R("HostState", 2, "string")>>
     @@ b :> <<R("ClusterState", 1, "string"), R("Event", 2, "string")>>
     @@ one :> <<R("Event", 1, "string")>>
     @@ big :> <<R("Event", 1, "string"), R("Event", 1, "string"), R("InfraEnv", 2, "string")>>)

DistinctNames == a :> f @@ b :> g @@ big :> h @@ one :> k
SharedName == a :> f @@ b :> f @@ big :> h @@ one :> k

At(url) == [service |-> "assisted-installer", url |-> url]
OtherService == [service |-> "other", url |-> NoURL]
Undecodable == At(NoURL)

MCMessages == {At(a), At(b), At(one), At(big), OtherService, Undecodable}

(* Two archives beside a message of another service, an undecodable one    *)
(* and an archive that blocks its goroutine.  An archive appears once.     *)
MixedTopics ==
    {<<At(a), OtherService, At(b)>>, <<Undecodable, At(big), At(b)>>, <<At(big), At(b), At(a)>>}

PairTopics == {<<At(a), At(b)>>, <<At(a), At(big)>>}

(* Two archives, and messages that the consumer acknowledges itself. *)
ArchiveTopics == {<<At(one), At(b)>>, <<OtherService, At(b)>>, <<OtherService, OtherService>>}

(* An undecodable message, then an archive that rebalances make the       *)
(* process read again while it still works on it; and an archive that was  *)
(* announced twice, which two goroutines download into the same file.      *)
FaultTopics == {<<Undecodable>>, <<At(one), At(one)>>}
FaultMessages == {At(b), At(one), Undecodable}
=============================================================================
