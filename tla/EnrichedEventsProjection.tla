---------------------- MODULE EnrichedEventsProjection ----------------------
(***************************************************************************)
(* The consumer process (cmd/consumer/main.go): the Consume loop of        *)
(* pkg/stream/reader.go running EnrichedEventsProjection.ProcessMessage on *)
(* every message, composed with the Kafka reader, the Redis snapshots and  *)
(* the OpenSearch bulk indexer, and with the ways the process ends: an     *)
(* error or a panic, a signal, a crash.  A process that ends is replaced.  *)
(*                                                                         *)
(* Goroutines: the consumer (pc), listenForCommit and kafka-go's commit    *)
(* loop (in KafkaReader), the indexer's workers (in                        *)
(* EnrichedEventRepository) and gracefulShutdown.                          *)
(***************************************************************************)
EXTENDS EnrichedEventRepository, SnapshotRepository

CONSTANT ExcludedUserNames  \* EXCLUDED_USER_NAMES

(* What Faults may contain: "crash" the process dies, "signal" SIGTERM,    *)
(* "rebalance" the consumer group rebalances, "redisWrite" and "redisRead" *)
(* a Redis command fails, "keyExpiry" a TTL elapses, "bulkItem" OpenSearch *)
(* rejects an item, "bulkRequest" a bulk request fails.                    *)
FaultNames ==
    {"crash", "signal", "rebalance", "redisWrite", "redisRead", "keyExpiry",
     "bulkItem", "bulkRequest"}

ASSUME ProjectionAssumption ==
    /\ Faults \subseteq FaultNames
    /\ ExcludedUserNames \subseteq UserNames

VARIABLES
    pc,        \* where the consumer goroutine is
    cur,       \* offset of the message it is processing
    acks,      \* acknowledgements ProcessMessage has still to send for it
    err,       \* what ProcessMessage is going to return
    enriched   \* the enriched event Store is about to add

consumerVars == <<pc, cur, acks, err, enriched>>
vars == <<readerVars, snapshotVars, bulkVars, consumerVars>>

msg == topic[cur]

ConsumerTypeOK ==
    /\ pc \in {"select", "fetch", "process", "expire", "store", "ack", "exit"}
    /\ cur \in 0 .. Len(topic)
    /\ pc \in {"process", "expire", "store", "ack"} => cur # 0
    /\ pc = "expire" => IsState(msg)
    /\ acks \in 0 .. 2
    /\ pc = "ack" => acks # 0
    /\ err \in {"nil", "error"}
    /\ enriched \in EnrichedEvent \cup {NoValue}
    /\ pc = "store" => enriched \in EnrichedEvent

(* The state of the process and of the three services has its type. *)
TypeOK ==
    /\ ReaderTypeOK
    /\ SnapshotTypeOK
    /\ RepositoryTypeOK
    /\ ConsumerTypeOK

Init ==
    /\ ReaderInit
    /\ SnapshotInit
    /\ RepositoryInit
    /\ pc = "select"
    /\ cur = 0
    /\ acks = 0
    /\ err = "nil"
    /\ enriched = NoValue

-----------------------------------------------------------------------------
(* The consumer goes back to the loop ("select") or leaves Consume, which  *)
(* ends the process ("exit"); the message goes out of scope.               *)
Return(next) ==
    /\ pc' = next
    /\ cur' = 0
    /\ acks' = 0
    /\ err' = "nil"
    /\ enriched' = NoValue

(* Consume: select on the quit channel, then FetchMessage. *)
StopConsuming ==
    /\ pc = "select"
    /\ reader # "running"
    /\ Return("exit")
    /\ UNCHANGED <<readerVars, snapshotVars, bulkVars>>

NotQuit ==
    /\ pc = "select"
    /\ reader = "running"
    /\ Return("fetch")
    /\ UNCHANGED <<readerVars, snapshotVars, bulkVars>>

Fetch ==
    /\ pc = "fetch"
    /\ FetchMessage
    /\ cur' = position'
    /\ pc' = "process"
    /\ UNCHANGED <<snapshotVars, bulkVars, acks, err, enriched>>

(* FetchMessage returns io.EOF from a closed reader, Consume returns it    *)
(* and main ends the process with log.Fatal.                               *)
FetchEOF ==
    /\ pc = "fetch"
    /\ reader = "closed"
    /\ Return("exit")
    /\ UNCHANGED <<readerVars, snapshotVars, bulkVars>>

-----------------------------------------------------------------------------
(* ProcessMessage and ProcessEvent.  Owe(n, e): send n acknowledgements,   *)
(* then return e.                                                          *)
Owe(n, e) ==
    /\ pc' = "ack"
    /\ acks' = n
    /\ err' = e
    /\ UNCHANGED <<cur, enriched>>

(* A message that is not JSON, or lacks an ID its handler needs, is        *)
(* acknowledged and dropped; ProcessEvent acknowledges every state message *)
(* before it looks at the error, so a malformed one twice.                 *)
Discard ==
    /\ pc = "process"
    /\ msg.name # "other"
    /\ ~WellFormed(msg)
    /\ Owe(IF msg.name \in StateNames THEN 2 ELSE 1, "nil")
    /\ UNCHANGED <<readerVars, snapshotVars, bulkVars>>

(* An unknown name is an error before any acknowledgement.  (Mutant: it is *)
(* acknowledged first, like a malformed one.)                              *)
UnknownNameAcked ==
    /\ pc = "process"
    /\ msg.name = "other"
    /\ Owe(1, "error")
    /\ UNCHANGED <<readerVars, snapshotVars, bulkVars>>

UnknownName ==
    /\ pc = "process"
    /\ msg.name = "other"
    /\ Return("exit")
    /\ UNCHANGED <<readerVars, snapshotVars, bulkVars>>

(* ProcessClusterState, ProcessHostState, ProcessInfraEnvState: hset is    *)
(* two commands, and the message is acknowledged whatever their outcome.   *)
ProcessState ==
    /\ pc = "process"
    /\ IsState(msg)
    /\ HSet(msg, cur)
    /\ pc' = "expire"
    /\ UNCHANGED <<readerVars, bulkVars, cur, acks, err, enriched>>

ProcessStateExpire ==
    /\ pc = "expire"
    /\ Expire(msg)
    /\ Owe(1, "nil")
    /\ UNCHANGED <<readerVars, bulkVars>>

(* Redis may have executed the command that failed. *)
ProcessStateFails ==
    /\ "redisWrite" \in Faults
    /\ \/ pc = "process" /\ IsState(msg) /\ (HSet(msg, cur) \/ UNCHANGED snapshotVars)
       \/ pc = "expire" /\ (Expire(msg) \/ UNCHANGED snapshotVars)
    /\ Owe(1, "error")
    /\ UNCHANGED <<readerVars, bulkVars>>

(* The reads of an event that fail. *)
FailedReads ==
    IF "redisRead" \in Faults THEN SUBSET {"cluster", "hosts", "infra_envs"} ELSE {{}}

(* (Mutant: the users that are not listed are skipped.) *)
skipEventNotListed(cluster) == cluster # 0 /\ topic[cluster].user_name \notin ExcludedUserNames
skipEvent(cluster) == cluster # 0 /\ topic[cluster].user_name \in ExcludedUserNames

(* ProcessClusterEvent for an excluded user: no acknowledgement at all. *)
SkipEvent ==
    /\ pc = "process"
    /\ IsEvent(msg)
    /\ \E fails \in FailedReads : skipEvent(GetCluster(msg.cluster_id, "cluster" \in fails))
    /\ Return("select")
    /\ UNCHANGED <<readerVars, snapshotVars, bulkVars>>

GetEnrichedEvent(o, c, fails) ==
    [offset |-> o,
     cluster |-> GetCluster(c, "cluster" \in fails),
     hosts |-> GetHosts(c, "hosts" \in fails),
     infra_envs |-> GetInfraEnvs(c, "infra_envs" \in fails)]

(* ProcessClusterEvent: the three reads and the enrichment ... *)
EnrichEvent ==
    /\ pc = "process"
    /\ IsEvent(msg)
    /\ \E fails \in FailedReads :
          /\ ~skipEvent(GetCluster(msg.cluster_id, "cluster" \in fails))
          /\ enriched' = GetEnrichedEvent(cur, msg.cluster_id, fails)
    /\ pc' = "store"
    /\ UNCHANGED <<readerVars, snapshotVars, bulkVars, cur, acks, err>>

(* ... then Store, after which ProcessMessage returns without waiting for  *)
(* the document to be indexed.                                             *)
(* (Mutant: it acknowledges the event as soon as it is added.)             *)
StoreEventAcked ==
    /\ pc = "store"
    /\ Store(enriched)
    /\ Ack(cur)
    /\ Return("select")
    /\ UNCHANGED <<topic, committed, position, stash, reader, snapshotVars>>

StoreEvent ==
    /\ pc = "store"
    /\ Store(enriched)
    /\ Return("select")
    /\ UNCHANGED <<readerVars, snapshotVars>>

(* Sending on the closed queue panics. *)
StorePanics ==
    /\ pc = "store"
    /\ bulk # "open"
    /\ Return("exit")
    /\ UNCHANGED <<readerVars, snapshotVars, bulkVars>>

(* ackMsg, and the return from ProcessMessage after the last one. *)
ackMsg ==
    /\ pc = "ack"
    /\ Ack(cur)
    /\ \/ acks > 1 /\ acks' = acks - 1 /\ UNCHANGED <<pc, cur, err, enriched>>
       \/ acks = 1 /\ Return(IF err = "error" THEN "exit" ELSE "select")
    /\ UNCHANGED <<topic, committed, position, stash, reader, snapshotVars, bulkVars>>

Consumer ==
    \/ StopConsuming
    \/ NotQuit
    \/ Fetch
    \/ FetchEOF
    \/ Discard
    \/ UnknownName
    \/ ProcessState
    \/ ProcessStateExpire
    \/ SkipEvent
    \/ EnrichEvent
    \/ StoreEvent
    \/ StorePanics
    \/ ackMsg

-----------------------------------------------------------------------------
(* The other goroutines. *)
Committer == (ListenForCommit \/ CommitTick) /\ UNCHANGED <<snapshotVars, bulkVars, consumerVars>>

Receive(w) == Take(w) /\ UNCHANGED <<readerVars, snapshotVars, consumerVars>>

SendBulk(w) ==
    /\ Flush(w) \/ FlushFails(w)
    /\ UNCHANGED <<readerVars, snapshotVars, consumerVars>>

Callback(w) ==
    /\ OnSuccess(w) \/ OnFailure(w)
    /\ UNCHANGED <<topic, committed, position, stash, reader, snapshotVars, consumerVars>>

(* gracefulShutdown: reader.Close, then projection.Close; it does not wait *)
(* for Consume to return.  A second signal is only looked at after both    *)
(* returned, and closes the closed quit channel: a panic.                  *)
Signal ==
    /\ "signal" \in Faults
    /\ CloseQuitChannel
    /\ UNCHANGED <<snapshotVars, bulkVars, consumerVars>>

CloseReader == CloseKafkaReader /\ UNCHANGED <<snapshotVars, bulkVars, consumerVars>>

CloseProjection ==
    /\ reader = "closed"
    /\ Close \/ CloseReturns
    /\ UNCHANGED <<readerVars, snapshotVars, consumerVars>>

SecondSignal ==
    /\ "signal" \in Faults
    /\ bulk = "closed"
    /\ Return("exit")
    /\ UNCHANGED <<readerVars, snapshotVars, bulkVars>>

(* main returned, log.Fatal or a panic: everything in memory is lost and   *)
(* the deployment starts the process again.                                *)
Restart ==
    /\ ReaderRestart
    /\ RepositoryRestart
    /\ Return("select")
    /\ UNCHANGED snapshotVars

Exit == pc = "exit" /\ Restart

Crash == "crash" \in Faults /\ Restart

(* The environment: producers, the group coordinator and Redis. *)
Producer == Produce /\ UNCHANGED <<snapshotVars, bulkVars, consumerVars>>

NewGeneration == Rebalance /\ UNCHANGED <<snapshotVars, bulkVars, consumerVars>>

Expiry ==
    /\ "keyExpiry" \in Faults
    /\ \E k \in HKeys : KeyExpires(k)
    /\ UNCHANGED <<readerVars, bulkVars, consumerVars>>

Next ==
    \/ Consumer
    \/ ProcessStateFails
    \/ Committer
    \/ \E w \in Workers : Receive(w) \/ SendBulk(w) \/ Callback(w)
    \/ Signal
    \/ CloseReader
    \/ CloseProjection
    \/ SecondSignal
    \/ Exit
    \/ Crash
    \/ Producer
    \/ NewGeneration
    \/ Expiry

(* Goroutines keep running, timers fire and an ended process is replaced;  *)
(* nothing is assumed of signals, faults and producers.                    *)
Fairness ==
    /\ WF_vars(Consumer)
    /\ WF_vars(ListenForCommit /\ UNCHANGED <<snapshotVars, bulkVars, consumerVars>>)
    /\ WF_vars(CommitTick /\ UNCHANGED <<snapshotVars, bulkVars, consumerVars>>)
    /\ \A w \in Workers : WF_vars(SendBulk(w)) /\ WF_vars(Callback(w))
    /\ WF_vars(\E w \in Workers : Receive(w))
    /\ WF_vars(CloseReader)
    /\ WF_vars(CloseProjection)
    /\ WF_vars(Exit)

Spec == Init /\ [][Next]_vars /\ Fairness

-----------------------------------------------------------------------------
(* The offsets on their way from an acknowledgement to the broker. *)
Acknowledged ==
    {ackChannel[i] : i \in DOMAIN ackChannel} \cup ({stash, committed} \ {0})

(* The group's offset never passes a message whose name ProcessEvent does  *)
(* not know, and no acknowledgement is on its way past it: every restart   *)
(* meets that message again, whatever else fails.                          *)
NeverPastUnknown ==
    \A o \in Offsets : topic[o].name = "other" => \A a \in Acknowledged : a < o

(* The acknowledgement of an event is sent by OnSuccess alone, so whenever *)
(* one is on its way to the broker, or is the committed offset, OpenSearch *)
(* has a document with the event's ID - through failed items and requests, *)
(* crashes and rebalances.                                                 *)
AckedEventStored ==
    \A o \in Acknowledged : IsEvent(topic[o]) =>
        \E d \in index : DocumentID(d) = topic[o].doc_id

(* The snapshot of kind name and field f in an enriched event. *)
SnapshotIn(d, name, f) ==
    IF name = "ClusterState" THEN d.cluster
    ELSE IF name = "HostState" THEN d.hosts[f]
    ELSE d.infra_envs[f]

(* The cluster a state message is about. *)
ClusterOf(m) == IF m.name = "ClusterState" THEN m.id ELSE m.cluster_id

(* Whatever an indexed event was enriched with is a snapshot of its own    *)
(* cluster, host and infra-env: the hashes of two clusters never mix.      *)
DocumentsFromOwnCluster ==
    \A d \in index, name \in StateNames, f \in IDs :
        LET v == SnapshotIn(d, name, f)
            c == topic[d.offset].cluster_id
        IN  v # 0 =>
              /\ v \in Offsets
              /\ topic[v].name = name
              /\ ClusterOf(topic[v]) = c
              /\ topic[v].id = (IF name = "ClusterState" THEN c ELSE f)

(* d carries, of every state message of its cluster before offset          *)
(* d.offset, that snapshot or a later one of the same object.              *)
FreshDocument(d) ==
    \A j \in 1 .. d.offset - 1 :
        LET m == topic[j]
        IN  IsState(m) /\ ClusterOf(m) = topic[d.offset].cluster_id
              => SnapshotIn(d, m.name, m.id) >= j

(* An indexed event was enriched with the latest snapshots that precede it *)
(* in the topic, or with later ones: no crash, replay or failed bulk       *)
(* request makes it carry a snapshot older than what the topic holds       *)
(* before the event.                                                       *)
EnrichmentFresh == \A d \in index : FreshDocument(d)

(* An event is stored once, also when it is replayed with newer snapshots, *)
(* provided a state of its cluster precedes it and all states of the       *)
(* cluster agree on "onprem": the copies go to the same index.             *)
OneIndexPerEvent ==
    \A d, e \in index :
        LET States(S) == {j \in S : topic[j].name = "ClusterState"
                                      /\ topic[j].id = topic[d.offset].cluster_id}
        IN  /\ d.offset = e.offset
            /\ States(1 .. d.offset - 1) # {}
            /\ \A i, j \in States(Offsets) : topic[i].onprem = topic[j].onprem
            => d = e

(* An event of an excluded user is never indexed, provided a state of its  *)
(* cluster precedes it and all states of the cluster name such users.  It  *)
(* is not acknowledged either, so a restart may read it again, with        *)
(* whatever a crash and the replay left in Redis: it is skipped each time. *)
ExcludedNeverIndexed ==
    \A d \in index :
        LET States(S) == {j \in S : topic[j].name = "ClusterState"
                                      /\ topic[j].id = topic[d.offset].cluster_id}
        IN  States(1 .. d.offset - 1) # {} =>
              \E j \in States(Offsets) : topic[j].user_name \notin ExcludedUserNames

(* A hash without a TTL is about to get one: its Expire is the consumer's  *)
(* next command, or the state message that wrote it is still uncommitted   *)
(* and will be replayed.                                                   *)
EveryHashExpires ==
    \A k \in HKeys : redis[k] # EmptyHash /\ ~ttl[k] =>
        \E o \in committed + 1 .. Len(topic) : IsState(topic[o]) /\ HKey(topic[o]) = k

(* No event is lost: the broker's offset only passes events that are in    *)
(* OpenSearch (or whose cluster belongs to an excluded user).              *)
Excluded(c) == \E o \in Offsets : topic[o].name = "ClusterState" /\ topic[o].id = c
                                    /\ topic[o].user_name \in ExcludedUserNames

CommittedEventsStored ==
    \A o \in 1 .. committed : IsEvent(topic[o]) =>
        \/ Excluded(topic[o].cluster_id)
        \/ \E d \in index : DocumentID(d) = topic[o].doc_id

(* A topic that carries events alone is delivered at least once: an event  *)
(* counts as delivered when OpenSearch has a document with its ID, and the *)
(* mark is the group's offset.  In particular no replay, restart or second *)
(* copy of an event removes a document, and commits never overtake the     *)
(* bulk requests, though they pass through a channel and a stash.          *)
Delivery ==
    INSTANCE AtLeastOnceDelivery WITH
        Items <- DocIDs,
        log <- [o \in Offsets |-> topic[o].doc_id],
        delivered <- {DocumentID(d) : d \in index},
        mark <- committed

DeliversAtLeastOnce == Delivery!Spec

(* The events the process holds: being processed, queued or buffered. *)
InProcess ==
    {cur} \cup {queue[i].offset : i \in DOMAIN queue}
          \cup UNION {{buffer[w][i].offset : i \in DOMAIN buffer[w]} : w \in Workers}

(* The same, allowing for an event that the running process has yet to     *)
(* index: an event the broker will not deliver again is either stored or   *)
(* still on its way.                                                       *)
NoEventLost ==
    \A o \in 1 .. committed : IsEvent(topic[o]) =>
        \/ Excluded(topic[o].cluster_id)
        \/ \E d \in index : DocumentID(d) = topic[o].doc_id
        \/ o \in InProcess

(* While a signal is being handled, the consumer never adds an event to    *)
(* the indexer that is being closed.                                       *)
NoAddAfterClose == pc = "store" => bulk = "open"

(* Every event that reaches the topic reaches OpenSearch, as long as no    *)
(* signal ends the process.                                                *)
EventuallyStored ==
    [](reader = "running") =>
        \A o \in 1 .. MaxOffset :
            (o \in Offsets /\ IsEvent(topic[o]) /\ ~Excluded(topic[o].cluster_id))
                ~> (o \in Offsets /\ \E d \in index : DocumentID(d) = topic[o].doc_id)

(* Once a signal was received the process ends, however full the ack       *)
(* channel, the queue and the buffers are (and a new one takes over).      *)
ShutdownTerminates == reader # "running" ~> reader = "running"
=============================================================================
