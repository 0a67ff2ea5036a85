---------------------- MODULE EnrichedEventRepository ----------------------
(***************************************************************************)
(* internal/repository/opensearch/enriched_event_repository.go and what it *)
(* uses of opensearch-go's bulk indexer: a bounded queue of items, workers *)
(* that collect them in buffers and flush a buffer in one request, and the *)
(* per-item callbacks, of which OnSuccess acknowledges the message.        *)
(*                                                                         *)
(* An enriched event is the offset of its Kafka message and the offsets of *)
(* the snapshots it was enriched with (0 for a snapshot that was absent).  *)
(***************************************************************************)
EXTENDS Events, KafkaReader

CONSTANTS NumWorkers,  \* OPENSEARCH_BULK_WORKERS, also the capacity of the queue
          FlushItems   \* OPENSEARCH_BULK_FLUSH_BYTES, counted in items

ASSUME MessagesAssumption ==
    /\ Messages \subseteq Message
    /\ NoValue \notin IDs
    /\ NoValue \notin UserNames

ASSUME RepositoryAssumption ==
    /\ NumWorkers \in Nat \ {0}
    /\ FlushItems \in Nat \ {0}

VARIABLES
    queue,      \* items added and not yet received by a worker
    buffer,     \* worker -> items waiting for its next flush
    callbacks,  \* worker -> items of its last response whose callback is still to come
    bulk,       \* "open", "closing" (queue closed), "closed" (Close returned)
    index       \* the documents in OpenSearch

bulkVars == <<queue, buffer, callbacks, bulk, index>>

Workers == 1 .. NumWorkers

EnrichedEvent ==
    [offset : Offsets, cluster : Nat, hosts : [IDs -> Nat], infra_envs : [IDs -> Nat]]

RepositoryTypeOK ==
    /\ queue \in Seq(EnrichedEvent)
    /\ buffer \in [Workers -> Seq(EnrichedEvent)]
    /\ callbacks \in [Workers -> Seq(0 .. Len(topic))]
    /\ bulk \in {"open", "closing", "closed"}
    /\ index \subseteq EnrichedEvent

RepositoryInit ==
    /\ queue = <<>>
    /\ buffer = [w \in Workers |-> <<>>]
    /\ callbacks = [w \in Workers |-> <<>>]
    /\ bulk = "open"
    /\ index = {}

-----------------------------------------------------------------------------
(* The document's ID hashes the event's message and time. *)
DocumentID(d) == topic[d.offset].doc_id

(* Of the index name, the part that the event's time does not fix: whether *)
(* the snapshot of the cluster has the key "onprem".  (Mutant: the name    *)
(* depends on the snapshot itself.)                                        *)
getIndexNameFromSnapshot(d) == d.cluster
getIndexName(d) == d.cluster # 0 /\ topic[d.cluster].onprem

SameDocument(d, e) ==
    /\ DocumentID(d) = DocumentID(e)
    /\ getIndexName(d) = getIndexName(e)

(* Store: bulk.Add, which blocks while the queue is full. *)
Store(d) ==
    /\ bulk = "open"
    /\ Len(queue) < NumWorkers
    /\ queue' = Append(queue, d)
    /\ UNCHANGED <<buffer, callbacks, bulk, index>>

(* A worker receives an item (external).  While a flush is still calling   *)
(* back it holds the worker's lock, so one received item waits for it.     *)
Take(w) ==
    /\ queue # <<>>
    /\ Len(buffer[w]) < FlushItems
    /\ callbacks[w] = <<>> \/ buffer[w] = <<>>
    /\ buffer' = [buffer EXCEPT ![w] = Append(@, Head(queue))]
    /\ queue' = Tail(queue)
    /\ UNCHANGED <<callbacks, bulk, index>>

(* The bulk request's "index" actions in the positions applied, in order:  *)
(* each one replaces the document with its ID in its index (external).     *)
Indexed(items, applied) ==
    LET Last(i) == \A j \in applied : j > i => ~SameDocument(items[i], items[j])
    IN  {d \in index : \A i \in applied : ~SameDocument(d, items[i])}
            \cup {items[i] : i \in {j \in applied : Last(j)}}

(* The items of the response in order: the offset of an item that was      *)
(* indexed, 0 for one that failed.                                         *)
Response(items, applied) ==
    [i \in DOMAIN items |-> IF i \in applied THEN items[i].offset ELSE 0]

(* Either the interval elapsed, the buffer is full or the indexer is being *)
(* closed (external).  The buffer is emptied whatever came of the request: *)
(* nothing is retried.  (Mutant: no flush interval and no final flush.)    *)
FlushWhenFull(w) ==
    /\ Len(buffer[w]) = FlushItems
    /\ callbacks[w] = <<>>
    /\ buffer' = [buffer EXCEPT ![w] = <<>>]
    /\ index' = Indexed(buffer[w], DOMAIN buffer[w])
    /\ callbacks' = [callbacks EXCEPT ![w] = Response(buffer[w], DOMAIN buffer[w])]
    /\ UNCHANGED <<queue, bulk>>

Flush(w) ==
    /\ buffer[w] # <<>>
    /\ callbacks[w] = <<>>
    /\ buffer' = [buffer EXCEPT ![w] = <<>>]
    /\ \E applied \in SUBSET DOMAIN buffer[w] :
          /\ "bulkItem" \notin Faults => applied = DOMAIN buffer[w]
          /\ index' = Indexed(buffer[w], applied)
          /\ callbacks' = [callbacks EXCEPT ![w] = Response(buffer[w], applied)]
    /\ UNCHANGED <<queue, bulk>>

(* The request failed, or its response could not be read: no callback is   *)
(* called, whatever part of it OpenSearch executed (external).             *)
FlushFails(w) ==
    /\ "bulkRequest" \in Faults
    /\ buffer[w] # <<>>
    /\ callbacks[w] = <<>>
    /\ buffer' = [buffer EXCEPT ![w] = <<>>]
    /\ \E applied \in SUBSET DOMAIN buffer[w] : index' = Indexed(buffer[w], applied)
    /\ UNCHANGED <<queue, callbacks, bulk>>

(* The callback of the next item: OnSuccess sends the message into the ack *)
(* channel, OnFailure only logs.                                           *)
OnSuccess(w) ==
    /\ callbacks[w] # <<>>
    /\ Head(callbacks[w]) # 0
    /\ Ack(Head(callbacks[w]))
    /\ callbacks' = [callbacks EXCEPT ![w] = Tail(@)]
    /\ UNCHANGED <<queue, buffer, bulk, index>>

OnFailure(w) ==
    /\ callbacks[w] # <<>>
    /\ Head(callbacks[w]) = 0
    /\ callbacks' = [callbacks EXCEPT ![w] = Tail(@)]
    /\ UNCHANGED <<ackChannel, queue, buffer, bulk, index>>

(* Close: the queue is closed, and the call returns when the workers have  *)
(* drained it and every buffer is flushed.                                 *)
Close ==
    /\ bulk = "open"
    /\ bulk' = "closing"
    /\ UNCHANGED <<queue, buffer, callbacks, index>>

CloseReturns ==
    /\ bulk = "closing"
    /\ queue = <<>>
    /\ \A w \in Workers : buffer[w] = <<>> /\ callbacks[w] = <<>>
    /\ bulk' = "closed"
    /\ UNCHANGED <<queue, buffer, callbacks, index>>

(* A new process has a new, empty indexer; OpenSearch keeps its documents. *)
RepositoryRestart ==
    /\ queue' = <<>>
    /\ buffer' = [w \in Workers |-> <<>>]
    /\ callbacks' = [w \in Workers |-> <<>>]
    /\ bulk' = "open"
    /\ UNCHANGED index
=============================================================================
