--------------------------- MODULE EventExtractor ---------------------------
(***************************************************************************)
(* internal/onprem/event_extractor.go: which resources of an archive       *)
(* become events, and in which order.  An archive is a sequence of         *)
(* resources, each with the JSON file it is in; within a file they are in  *)
(* the file's order, and the files of one kind in the order of their paths.*)
(***************************************************************************)
EXTENDS Naturals, Sequences, FiniteSets

(* A resource of the file number file, which holds resources of kind name. *)
(* id: the key with the cluster's ID is there and is a string.             *)
Resource ==
    [name : {"HostState", "ClusterState", "InfraEnv", "Event"}, file : Nat, id : {"string", "none"}]

(* The kinds, numbered in the order extractEvents goes through them.       *)
(* (Mutant: the events first.)                                             *)
eventTypesMatchesEventsFirst == [Event |-> 1, HostState |-> 2, ClusterState |-> 3, InfraEnv |-> 4]
eventTypesMatches == [HostState |-> 1, ClusterState |-> 2, InfraEnv |-> 3, Event |-> 4]

(* A resource without an ID ends the extraction of its file. *)
Extracted(archive, i) ==
    \A j \in 1 .. i : archive[j].file = archive[i].file => archive[j].id = "string"

(* The positions of the resources that become events, given the files that *)
(* were unpacked and decoded.                                              *)
Kept(archive, files) ==
    {i \in DOMAIN archive : archive[i].file \in files /\ Extracted(archive, i)}

(* extractEventsForEventType is called for one kind after the other, and   *)
(* goes through the archive in its order.                                  *)
Kind(archive, i) == eventTypesMatches[archive[i].name]

Precedes(archive, j, i) ==
    \/ Kind(archive, j) < Kind(archive, i)
    \/ Kind(archive, j) = Kind(archive, i) /\ j < i

(* The positions in the order their events are sent. *)
extractEvents(archive, files) ==
    LET kept == Kept(archive, files)
        Rank(i) == Cardinality({j \in kept : Precedes(archive, j, i)})
    IN  [n \in 1 .. Cardinality(kept) |-> CHOOSE i \in kept : Rank(i) = n - 1]

Files(archive) == {archive[i].file : i \in DOMAIN archive}
=============================================================================
