--------------------------- MODULE Delivery_proofs ---------------------------
(***************************************************************************)
(* Proof that a topic of events alone is delivered at least once by one    *)
(* worker, for every length of the queue, buffer and ack channel, through  *)
(* crashes, signals and rebalances: the consumer implements                *)
(* AtLeastOnceDelivery.                                                    *)
(***************************************************************************)
EXTENDS StoredDocuments_proofs

USE DEF Offsets, Workers

(* The premises.  Each is needed: a state message is acknowledged ahead of *)
(* the events before it, a second worker may finish first, and a rejected  *)
(* item is not retried though later ones are acknowledged.                 *)
EventsInOrder ==
    /\ \A m \in Messages : IsEvent(m)
    /\ NumWorkers = 1
    /\ Faults \cap {"bulkItem", "bulkRequest"} = {}

Stored(y) == \E d \in index : DocumentID(d) = topic[y].doc_id

(* The offsets up to which OpenSearch has every event. *)
StoredPrefixes == {a \in 0 .. Len(topic) : \A y \in 1 .. a : Stored(y)}

(* The event y is in the first n items of the buffer, or of the queue. *)
Buffered(y, n) == \E i \in 1 .. n : buffer[1][i].offset = y
Queued(y, n) == \E i \in 1 .. n : queue[i].offset = y
Held(y) == Buffered(y, Len(buffer[1])) \/ Queued(y, Len(queue))

(* Every event before one in the indexer is stored or ahead of it. *)
BufferOrder ==
    \A i \in 1 .. Len(buffer[1]) : \A y \in 1 .. buffer[1][i].offset :
        Stored(y) \/ Buffered(y, i)

QueueOrder ==
    \A i \in 1 .. Len(queue) : \A y \in 1 .. queue[i].offset :
        Stored(y) \/ Buffered(y, Len(buffer[1])) \/ Queued(y, i)

(* And so for the events the consumer has read. *)
ConsumerOrder ==
    /\ pc \in {"select", "fetch", "process", "store", "exit"}
    /\ pc = "store" => enriched.offset = cur
    /\ pc \in {"process", "store"} => \A y \in 1 .. cur : Stored(y) \/ Held(y) \/ y = cur
    /\ pc # "exit" =>
          \A y \in 1 .. position : Stored(y) \/ Held(y) \/ (pc \in {"process", "store"} /\ y = cur)

(* The inductive invariant. *)
OrderInv ==
    /\ PipelineIn(StoredPrefixes, EnrichedEvent)
    /\ BufferOrder
    /\ QueueOrder
    /\ ConsumerOrder

-----------------------------------------------------------------------------
LEMMA OrderTypes ==
    ASSUME TypeOK, EventsInOrder
    PROVE  /\ Workers = {1}
           /\ buffer[1] \in Seq(EnrichedEvent) /\ queue \in Seq(EnrichedEvent)
           /\ \A i \in 1 .. Len(buffer[1]) : buffer[1][i] \in EnrichedEvent
                                               /\ buffer[1][i].offset \in Offsets
           /\ \A i \in 1 .. Len(queue) : queue[i] \in EnrichedEvent /\ queue[i].offset \in Offsets
           /\ Len(topic) \in Nat /\ position \in 0 .. Len(topic) /\ cur \in 0 .. Len(topic)
  <1>1. Workers = {1} /\ Len(topic) \in Nat
    BY DEF EventsInOrder, TypeOK, ReaderTypeOK
  <1>2. buffer[1] \in Seq(EnrichedEvent) /\ queue \in Seq(EnrichedEvent)
    BY <1>1 DEF TypeOK, RepositoryTypeOK
  <1>3. \A i \in 1 .. Len(buffer[1]) : buffer[1][i] \in EnrichedEvent
    BY <1>2
  <1>4. \A i \in 1 .. Len(queue) : queue[i] \in EnrichedEvent
    BY <1>2
  <1> QED
    BY <1>1, <1>2, <1>3, <1>4 DEF EnrichedEvent, TypeOK, ReaderTypeOK, ConsumerTypeOK

(* What is stored stays stored. *)
LEMMA StoredStable ==
    ASSUME TypeOK, [Next]_vars, NEW y \in Offsets, Stored(y)
    PROVE  Stored(y)'
  <1>1. topic'[y] = topic[y]
    BY TopicGrows
  <1>2. PICK d \in index : topic[d.offset].doc_id = topic[y].doc_id
    BY DEF Stored, DocumentID
  <1> QED
    BY <1>1, <1>2, StoredStays DEF Stored, DocumentID

LEMMA StoredPrefixesGrow ==
    ASSUME TypeOK, [Next]_vars
    PROVE  StoredPrefixes \subseteq StoredPrefixes'
  <1> SUFFICES ASSUME NEW a \in StoredPrefixes PROVE a \in StoredPrefixes'
    OBVIOUS
  <1>1. Len(topic) \in Nat /\ a \in 0 .. Len(topic)
    BY DEF StoredPrefixes, TypeOK, ReaderTypeOK
  <1>2. a \in 0 .. Len(topic')
    BY <1>1, TopicGrows
  <1>3. ASSUME NEW y \in 1 .. a PROVE Stored(y)'
    <2>1. y \in Offsets /\ Stored(y)
      BY <1>1 DEF StoredPrefixes
    <2> QED
      BY <2>1, StoredStable
  <1> QED
    BY <1>2, <1>3 DEF StoredPrefixes

(* A bulk request stores the whole buffer, and with it every event before. *)
LEMMA FlushStores ==
    ASSUME TypeOK, EventsInOrder, BufferOrder, SendBulk(1)
    PROVE  /\ UNCHANGED <<topic, position, queue, consumerVars>>
           /\ \A y : Buffered(y, Len(buffer[1])) => Stored(y)'
           /\ \A i \in 1 .. Len(buffer[1]) : buffer[1][i].offset \in StoredPrefixes'
           /\ buffer'[1] = <<>>
           /\ callbacks' = [callbacks EXCEPT ![1] =
                                [i \in 1 .. Len(buffer[1]) |-> buffer[1][i].offset]]
  <1> USE DEF readerVars
  <1>0. /\ Workers = {1} /\ buffer[1] \in Seq(EnrichedEvent) /\ Len(topic) \in Nat
        /\ \A i \in 1 .. Len(buffer[1]) : buffer[1][i].offset \in Offsets
        /\ DOMAIN buffer[1] = 1 .. Len(buffer[1])
    BY OrderTypes
  <1>1. /\ UNCHANGED <<topic, position, queue, consumerVars>>
        /\ index' = Indexed(buffer[1], DOMAIN buffer[1])
        /\ callbacks' = [callbacks EXCEPT ![1] = Response(buffer[1], DOMAIN buffer[1])]
        /\ buffer' = [buffer EXCEPT ![1] = <<>>]
    BY DEF SendBulk, Flush, FlushFails, EventsInOrder
  <1>2. [Next]_vars
    BY <1>0 DEF Next
  <1>3. ASSUME NEW y, Buffered(y, Len(buffer[1])) PROVE Stored(y)'
    <2>1. PICK i \in DOMAIN buffer[1] : buffer[1][i].offset = y
      BY <1>0, <1>3 DEF Buffered
    <2>2. PICK j \in DOMAIN buffer[1] : /\ DocumentID(buffer[1][j]) = DocumentID(buffer[1][i])
                                        /\ buffer[1][j] \in Indexed(buffer[1], DOMAIN buffer[1])
      BY <1>0, LastCopy
    <2>3. buffer[1][j] \in index' /\ topic[buffer[1][j].offset].doc_id = topic[y].doc_id
      BY <1>1, <2>1, <2>2 DEF DocumentID
    <2> QED
      BY <1>1, <2>3 DEF Stored, DocumentID
  <1>4. ASSUME NEW i \in 1 .. Len(buffer[1]), NEW y \in 1 .. buffer[1][i].offset PROVE Stored(y)'
    <2>1. y \in Offsets /\ 1 .. i \subseteq 1 .. Len(buffer[1])
      BY <1>0
    <2>2. CASE Stored(y)
      BY <1>2, <2>1, <2>2, StoredStable
    <2>3. CASE Buffered(y, i)
      <3>1. Buffered(y, Len(buffer[1]))
        BY <2>1, <2>3 DEF Buffered
      <3> QED
        BY <1>3, <3>1
    <2> QED
      BY <2>2, <2>3 DEF BufferOrder
  <1>5. \A i \in 1 .. Len(buffer[1]) : buffer[1][i].offset \in StoredPrefixes'
    BY <1>0, <1>1, <1>4 DEF StoredPrefixes
  <1>6. buffer'[1] = <<>>
    BY <1>0, <1>1 DEF TypeOK, RepositoryTypeOK
  <1>7. Response(buffer[1], DOMAIN buffer[1]) = [i \in 1 .. Len(buffer[1]) |-> buffer[1][i].offset]
    BY <1>0 DEF Response
  <1> QED
    BY <1>1, <1>3, <1>5, <1>6, <1>7
-----------------------------------------------------------------------------
LEMMA PipelineStored ==
    ASSUME TypeOK, EventsInOrder, OrderInv, [Next]_vars
    PROVE  PipelineIn(StoredPrefixes, EnrichedEvent)'
  <1>0. PipelineIn(StoredPrefixes, EnrichedEvent) /\ ConsumerOrder /\ BufferOrder
    BY DEF OrderInv
  <1>1. PICK A, D : A = StoredPrefixes /\ D = EnrichedEvent
    OBVIOUS
  <1>2. A \subseteq StoredPrefixes' /\ D \subseteq EnrichedEvent'
    BY <1>1, StoredPrefixesGrow, EnrichedEventGrows
  <1>3. Seq(A) \subseteq Seq(StoredPrefixes') /\ Seq(D) \subseteq Seq(EnrichedEvent')
    BY <1>2, SeqMonotone
  <1>4. Workers = {1}
    BY OrderTypes
  <1>5. CASE ~SendBulk(1)
    <2>1. 0 \in A /\ pc # "ack" /\ (pc = "store" => enriched \in D)
      BY <1>0, <1>1 DEF StoredPrefixes, TypeOK, ReaderTypeOK, ConsumerTypeOK, ConsumerOrder
    <2>2. PipelineIn(A, D)'
      BY <1>0, <1>1, <1>4, <1>5, <2>1, PipelineStep
    <2> QED
      BY <1>2, <1>3, <2>2 DEF PipelineIn
  <1>6. CASE SendBulk(1)
    <2>1. /\ UNCHANGED <<committed, stash, ackChannel, queue>>
          /\ buffer' = [buffer EXCEPT ![1] = <<>>]
      BY <1>6 DEF SendBulk, Flush, FlushFails, readerVars
    <2>2. /\ Len(buffer[1]) \in Nat
          /\ \A i \in 1 .. Len(buffer[1]) : buffer[1][i].offset \in StoredPrefixes'
          /\ callbacks' = [callbacks EXCEPT ![1] =
                               [i \in 1 .. Len(buffer[1]) |-> buffer[1][i].offset]]
      BY <1>0, <1>6, FlushStores, OrderTypes
    <2>3. [i \in 1 .. Len(buffer[1]) |-> buffer[1][i].offset] \in Seq(StoredPrefixes')
      BY <2>2
    <2>4. callbacks' \in [Workers -> Seq(StoredPrefixes')]
      BY <1>0, <1>1, <1>3, <2>2, <2>3 DEF PipelineIn
    <2>5. buffer' \in [Workers -> Seq(EnrichedEvent')]
      <3>1. buffer \in [Workers -> Seq(D)] /\ <<>> \in Seq(D)
        BY <1>0, <1>1 DEF PipelineIn
      <3>2. buffer' \in [Workers -> Seq(D)]
        BY <2>1, <3>1
      <3> QED
        BY <1>3, <3>2
    <2>6. /\ committed' \in StoredPrefixes' /\ stash' \in StoredPrefixes'
          /\ ackChannel' \in Seq(StoredPrefixes') /\ queue' \in Seq(EnrichedEvent')
      BY <1>0, <1>1, <1>2, <1>3, <2>1 DEF PipelineIn
    <2> QED
      BY <2>4, <2>5, <2>6 DEF PipelineIn
  <1> QED
    BY <1>5, <1>6

(* What changes the indexer's queue and buffers. *)
LEMMA IndexerSteps ==
    ASSUME [Next]_vars, ~(Exit \/ Crash)
    PROVE  \/ UNCHANGED <<queue, buffer>>
           \/ StoreEvent
           \/ \E w \in Workers : Receive(w) \/ SendBulk(w)
  <1> USE DEF bulkVars
  <1>1. CASE Consumer \/ ProcessStateFails
    BY <1>1 DEF Consumer, StopConsuming, NotQuit, Fetch, FetchEOF, Discard, UnknownName,
                ProcessState, ProcessStateExpire, ProcessStateFails, SkipEvent, EnrichEvent,
                StorePanics, ackMsg
  <1>2. CASE \E w \in Workers : Callback(w)
    BY <1>2 DEF Callback, OnSuccess, OnFailure
  <1>3. CASE Committer \/ Signal \/ CloseReader \/ CloseProjection \/ SecondSignal
               \/ Producer \/ NewGeneration \/ Expiry \/ UNCHANGED vars
    BY <1>3 DEF Committer, Signal, CloseReader, CloseProjection, Close, CloseReturns, SecondSignal,
                Producer, NewGeneration, Expiry, vars
  <1> QED
    BY <1>1, <1>2, <1>3 DEF Next

(* Items stay in order on their way through the indexer, and none gets     *)
(* lost.                                                                   *)
IndexerKeepsOrder ==
    /\ BufferOrder'
    /\ QueueOrder'
    /\ \A y \in Offsets : Stored(y) \/ Held(y) => Stored(y)' \/ Held(y)'

LEMMA UnchangedOrder ==
    ASSUME TypeOK, EventsInOrder, OrderInv, [Next]_vars, UNCHANGED <<queue, buffer>>
    PROVE  IndexerKeepsOrder
  <1>1. \A y \in Offsets : Stored(y) => Stored(y)'
    BY StoredStable
  <1>2. /\ \A i \in 1 .. Len(buffer[1]) : \A y \in 1 .. buffer[1][i].offset : y \in Offsets
        /\ \A i \in 1 .. Len(queue) : \A y \in 1 .. queue[i].offset : y \in Offsets
    BY OrderTypes
  <1>3. \A y, n : (Buffered(y, n) => Buffered(y, n)') /\ (Queued(y, n) => Queued(y, n)')
    BY DEF Buffered, Queued
  <1>4. BufferOrder /\ QueueOrder
    BY DEF OrderInv
  <1>5. BufferOrder'
    BY <1>1, <1>2, <1>3, <1>4 DEF BufferOrder
  <1>6. QueueOrder'
    <2> SUFFICES ASSUME NEW i \in 1 .. Len(queue), NEW y \in 1 .. queue[i].offset
                 PROVE  Stored(y)' \/ Buffered(y, Len(buffer[1]))' \/ Queued(y, i)'
      BY DEF QueueOrder
    <2> QED
      BY <1>1, <1>2, <1>3, <1>4 DEF QueueOrder, Buffered
  <1>7. \A y \in Offsets : Held(y) => Held(y)'
    BY DEF Held, Buffered, Queued
  <1> QED
    BY <1>1, <1>5, <1>6, <1>7 DEF IndexerKeepsOrder

LEMMA SendBulkOrder ==
    ASSUME TypeOK, EventsInOrder, OrderInv, SendBulk(1)
    PROVE  IndexerKeepsOrder
  <1>0. BufferOrder /\ QueueOrder /\ Workers = {1}
    BY OrderTypes DEF OrderInv
  <1>1. [Next]_vars
    BY <1>0 DEF Next
  <1>2. \A y \in Offsets : Stored(y) => Stored(y)'
    BY <1>1, StoredStable
  <1>3. /\ UNCHANGED queue /\ buffer'[1] = <<>>
        /\ \A y : Buffered(y, Len(buffer[1])) => Stored(y)'
    BY <1>0, FlushStores
  <1>4. BufferOrder'
    BY <1>3 DEF BufferOrder
  <1>5. \A y, n : Queued(y, n) => Queued(y, n)'
    BY <1>3 DEF Queued
  <1>6. QueueOrder'
    <2> SUFFICES ASSUME NEW i \in 1 .. Len(queue), NEW y \in 1 .. queue[i].offset
                 PROVE  Stored(y)' \/ Queued(y, i)'
      BY <1>3 DEF QueueOrder
    <2>1. y \in Offsets
      BY OrderTypes
    <2> QED
      BY <1>0, <1>2, <1>3, <1>5, <2>1 DEF QueueOrder
  <1>7. ASSUME NEW y \in Offsets, Held(y) PROVE Stored(y)' \/ Held(y)'
    BY <1>3, <1>7 DEF Held, Queued
  <1> QED
    BY <1>2, <1>4, <1>6, <1>7 DEF IndexerKeepsOrder

LEMMA ReceiveOrder ==
    ASSUME TypeOK, EventsInOrder, OrderInv, Receive(1)
    PROVE  IndexerKeepsOrder
  <1>0. /\ BufferOrder /\ QueueOrder /\ Workers = {1}
        /\ buffer[1] \in Seq(EnrichedEvent) /\ queue \in Seq(EnrichedEvent)
    BY OrderTypes DEF OrderInv
  <1>1. [Next]_vars
    BY <1>0 DEF Next
  <1>2. \A y \in Offsets : Stored(y) => Stored(y)'
    BY <1>1, StoredStable
  <1>3. PICK n, q : n = Len(buffer[1]) /\ q = Len(queue)
    OBVIOUS
  <1>4. /\ queue # <<>> /\ queue' = Tail(queue)
        /\ buffer'[1] = Append(buffer[1], Head(queue))
    <2>1. buffer \in [Workers -> Seq(EnrichedEvent)]
      BY DEF TypeOK, RepositoryTypeOK
    <2> QED
      BY <1>0, <2>1 DEF Receive, Take
  <1>5. /\ n \in Nat /\ q \in Nat /\ q > 0
        /\ Len(buffer'[1]) = n + 1 /\ Len(queue') = q - 1
        /\ \A i \in 1 .. n : buffer'[1][i] = buffer[1][i]
        /\ buffer'[1][n + 1] = queue[1]
        /\ \A i \in 1 .. q - 1 : queue'[i] = queue[i + 1]
    BY <1>0, <1>3, <1>4
  <1>a. ASSUME NEW y, NEW i \in 1 .. n, NEW j \in 1 .. n + 1, i <= j, Buffered(y, i)
        PROVE  Buffered(y, j)'
    <2>1. PICK k \in 1 .. i : buffer[1][k].offset = y
      BY <1>a DEF Buffered
    <2>2. k \in 1 .. n /\ k \in 1 .. j
      BY <1>5, <1>a
    <2>3. buffer'[1][k].offset = y
      BY <1>5, <2>1, <2>2
    <2> QED
      BY <2>2, <2>3 DEF Buffered
  <1>6. \A y : \A i \in 1 .. n : Buffered(y, i) => Buffered(y, i)'
    <2>1. \A i \in 1 .. n : i \in 1 .. n + 1 /\ i <= i
      BY <1>5
    <2> QED
      BY <1>a, <2>1
  <1>7. \A y : Buffered(y, n) => Buffered(y, n + 1)'
    <2> SUFFICES ASSUME NEW y, Buffered(y, n) PROVE Buffered(y, n + 1)'
      OBVIOUS
    <2>1. n \in 1 .. n /\ n + 1 \in 1 .. n + 1 /\ n <= n + 1
      <3>1. PICK k \in 1 .. n : TRUE
        BY DEF Buffered
      <3> QED
        BY <1>5, <3>1
    <2> QED
      BY <1>a, <2>1
  <1>8. \A y : queue[1].offset = y => Buffered(y, n + 1)'
    <2>1. n + 1 \in 1 .. n + 1
      BY <1>5
    <2> QED
      BY <1>5, <2>1 DEF Buffered
  <1>9. ASSUME NEW y, NEW i \in 0 .. q - 1, Queued(y, i + 1) PROVE Buffered(y, n + 1)' \/ Queued(y, i)'
    <2>1. PICK j \in 1 .. i + 1 : queue[j].offset = y
      BY <1>9 DEF Queued
    <2>2. CASE j = 1
      BY <1>8, <2>1, <2>2
    <2>3. CASE j # 1
      <3>1. j - 1 \in 1 .. i /\ j - 1 \in 1 .. q - 1 /\ (j - 1) + 1 = j
        BY <1>5, <2>3
      <3>2. queue'[j - 1].offset = y
        BY <1>5, <2>1, <3>1
      <3> QED
        BY <3>1, <3>2 DEF Queued
    <2> QED
      BY <2>2, <2>3
  <1>10. BufferOrder'
    <2> SUFFICES ASSUME NEW i \in 1 .. n + 1, NEW y \in 1 .. buffer'[1][i].offset
                 PROVE  Stored(y)' \/ Buffered(y, i)'
      BY <1>5 DEF BufferOrder
    <2>1. CASE i \in 1 .. n
      <3>1. y \in 1 .. buffer[1][i].offset /\ y \in Offsets
        BY <1>3, <1>5, <2>1, OrderTypes
      <3> QED
        BY <1>0, <1>3, <1>2, <1>6, <2>1, <3>1 DEF BufferOrder
    <2>2. CASE i = n + 1
      <3>1. y \in 1 .. queue[1].offset /\ 1 \in 1 .. q
        BY <1>5, <2>2
      <3>2. y \in Offsets
        BY <1>3, <3>1, OrderTypes
      <3>3. Stored(y) \/ Buffered(y, n) \/ Queued(y, 1)
        BY <1>0, <1>3, <3>1 DEF QueueOrder
      <3>4. Queued(y, 1) => queue[1].offset = y
        BY DEF Queued
      <3> QED
        BY <1>2, <1>7, <1>8, <2>2, <3>2, <3>3, <3>4
    <2> QED
      BY <1>5, <2>1, <2>2
  <1>11. QueueOrder'
    <2> SUFFICES ASSUME NEW i \in 1 .. q - 1, NEW y \in 1 .. queue'[i].offset
                 PROVE  Stored(y)' \/ Buffered(y, n + 1)' \/ Queued(y, i)'
      <3>1. \A y : Buffered(y, n + 1)' => Buffered(y, Len(buffer[1]))'
        BY <1>5 DEF Buffered
      <3> QED
        BY <1>5, <3>1 DEF QueueOrder
    <2>1. i + 1 \in 1 .. q /\ i \in 0 .. q - 1 /\ y \in 1 .. queue[i + 1].offset
      BY <1>5
    <2>2. y \in Offsets
      BY <1>3, <2>1, OrderTypes
    <2>3. Stored(y) \/ Buffered(y, n) \/ Queued(y, i + 1)
      BY <1>0, <1>3, <2>1 DEF QueueOrder
    <2> QED
      BY <1>2, <1>7, <1>9, <2>1, <2>2, <2>3
  <1>12. ASSUME NEW y \in Offsets, Held(y) PROVE Held(y)'
    <2>1. Buffered(y, n) \/ Queued(y, (q - 1) + 1)
      BY <1>3, <1>5, <1>12 DEF Held
    <2>2. Buffered(y, n + 1)' \/ Queued(y, q - 1)'
      BY <1>5, <1>7, <1>9, <2>1
    <2> QED
      BY <1>5, <2>2 DEF Held, Buffered, Queued
  <1> QED
    BY <1>2, <1>10, <1>11, <1>12 DEF IndexerKeepsOrder

LEMMA StoreEventOrder ==
    ASSUME TypeOK, EventsInOrder, OrderInv, StoreEvent
    PROVE  IndexerKeepsOrder /\ \A y : y = cur => Held(y)'
  <1>0. /\ BufferOrder /\ QueueOrder /\ ConsumerOrder /\ queue \in Seq(EnrichedEvent)
        /\ cur \in 0 .. Len(topic) /\ Len(topic) \in Nat
    BY OrderTypes DEF OrderInv
  <1>1. [Next]_vars
    BY DEF Next, Consumer
  <1>2. \A y \in Offsets : Stored(y) => Stored(y)'
    BY <1>1, StoredStable
  <1>3. PICK q : q = Len(queue)
    OBVIOUS
  <1>4. /\ UNCHANGED buffer /\ queue' = Append(queue, enriched) /\ enriched \in EnrichedEvent
        /\ enriched.offset = cur /\ pc = "store"
    BY <1>0 DEF StoreEvent, Store, TypeOK, ConsumerTypeOK, ConsumerOrder
  <1>5. /\ q \in Nat /\ Len(queue') = q + 1 /\ queue'[q + 1].offset = cur
        /\ \A i \in 1 .. q : queue'[i] = queue[i]
    BY <1>0, <1>3, <1>4
  <1>6. \A y, i : Buffered(y, i) => Buffered(y, i)'
    BY <1>4 DEF Buffered
  <1>7. \A y : \A i \in 1 .. q : Queued(y, i) => Queued(y, i)'
    BY <1>5 DEF Queued
  <1>8. \A y : Queued(y, q) \/ y = cur => Queued(y, q + 1)'
    BY <1>5 DEF Queued
  <1>9. BufferOrder'
    <2>1. \A i \in 1 .. Len(buffer[1]) : \A y \in 1 .. buffer[1][i].offset : y \in Offsets
      BY OrderTypes
    <2> QED
      BY <1>0, <1>2, <1>4, <1>6, <2>1 DEF BufferOrder
  <1>10. \A y : Buffered(y, Len(buffer[1])) => Buffered(y, Len(buffer[1]))'
    BY <1>4 DEF Buffered
  <1>11. QueueOrder'
    <2> SUFFICES ASSUME NEW i \in 1 .. q + 1, NEW y \in 1 .. queue'[i].offset
                 PROVE  Stored(y)' \/ Buffered(y, Len(buffer[1]))' \/ Queued(y, i)'
      BY <1>5 DEF QueueOrder
    <2>1. CASE i \in 1 .. q
      <3>1. y \in 1 .. queue[i].offset /\ y \in Offsets
        BY <1>3, <1>5, <2>1, OrderTypes
      <3> QED
        BY <1>0, <1>2, <1>3, <1>7, <1>10, <2>1, <3>1 DEF QueueOrder
    <2>2. CASE i = q + 1
      <3>1. y \in 1 .. cur /\ y \in Offsets
        BY <1>0, <1>5, <2>2
      <3>2. Stored(y) \/ Held(y) \/ y = cur
        BY <1>0, <1>4, <3>1 DEF ConsumerOrder
      <3> QED
        BY <1>2, <1>3, <1>8, <1>10, <2>2, <3>1, <3>2 DEF Held
    <2> QED
      BY <1>5, <2>1, <2>2
  <1>12. ASSUME NEW y, Held(y) \/ y = cur PROVE Held(y)'
    <2>1. Buffered(y, Len(buffer[1]))' \/ Queued(y, q + 1)'
      BY <1>3, <1>8, <1>10, <1>12 DEF Held
    <2>2. Queued(y, q + 1)' => Queued(y, Len(queue))'
      BY <1>5 DEF Queued
    <2> QED
      BY <2>1, <2>2 DEF Held
  <1> QED
    BY <1>2, <1>9, <1>11, <1>12 DEF IndexerKeepsOrder

LEMMA NextKeepsOrder ==
    ASSUME TypeOK, EventsInOrder, OrderInv, [Next]_vars, ~(Exit \/ Crash)
    PROVE  IndexerKeepsOrder
  <1>1. Workers = {1}
    BY OrderTypes
  <1> QED
    BY <1>1, IndexerSteps, UnchangedOrder, SendBulkOrder, ReceiveOrder, StoreEventOrder

(* Every message of the topic is an event, and no snapshot exists, so no   *)
(* event is skipped.                                                       *)
LEMMA EventsOnly ==
    ASSUME TypeOK, EventsInOrder, OwnInv
    PROVE  /\ \A o \in Offsets : IsEvent(topic[o])
           /\ ~SkipEvent
  <1>1. \A o \in Offsets : IsEvent(topic[o]) /\ topic[o].name # "ClusterState"
    BY DEF TypeOK, ReaderTypeOK, EventsInOrder, IsEvent
  <1>2. ASSUME SkipEvent PROVE FALSE
    <2>1. PICK fails : skipEvent(GetCluster(msg.cluster_id, "cluster" \in fails))
      BY <1>2 DEF SkipEvent
    <2>2. redis[getClustersHKey][msg.cluster_id] # 0
      BY <2>1 DEF skipEvent, GetCluster
    <2>3. msg.cluster_id \in IDs
      BY <1>2, MsgType DEF SkipEvent, IsEvent, WellFormed, Message
    <2>4. OwnSnapshot("ClusterState", msg.cluster_id, msg.cluster_id,
                      redis[getClustersHKey][msg.cluster_id])
      BY <2>3 DEF OwnInv, SnapshotsOwn
    <2> QED
      BY <1>1, <2>2, <2>4 DEF OwnSnapshot
  <1> QED
    BY <1>1, <1>2

(* What the consumer does when it meets only events. *)
LEMMA EventConsumer ==
    ASSUME TypeOK, EventsInOrder, OwnInv, ConsumerOrder, [Next]_vars, ~(Exit \/ Crash)
    PROVE  \/ UNCHANGED <<pc, cur, position, enriched>>
           \/ pc' = "exit"
           \/ pc = "select" /\ pc' = "fetch" /\ UNCHANGED position
           \/ pc = "fetch" /\ pc' = "process" /\ position' = position + 1 /\ cur' = position'
           \/ EnrichEvent
           \/ StoreEvent
           \/ NewGeneration
  <1> USE DEF readerVars
  <1>0. pc \in {"select", "fetch", "process", "store", "exit"}
    BY DEF ConsumerOrder
  <1>1. CASE Fetch
    BY <1>1 DEF Fetch, FetchMessage
  <1>2. CASE StopConsuming \/ NotQuit \/ FetchEOF \/ UnknownName \/ StorePanics \/ SecondSignal
    BY <1>2 DEF StopConsuming, NotQuit, FetchEOF, UnknownName, StorePanics, SecondSignal, Return
  <1>3. CASE Discard \/ ProcessState \/ ProcessStateFails
    <2>1. pc = "process" /\ ~IsEvent(msg)
      BY <1>0, <1>3 DEF Discard, ProcessState, ProcessStateFails, IsState, IsEvent, StateNames
    <2> QED
      BY <2>1, EventsOnly, MsgType DEF msg
  <1>4. CASE ProcessStateExpire \/ ackMsg
    BY <1>0, <1>4 DEF ProcessStateExpire, ackMsg
  <1>5. CASE SkipEvent
    BY <1>5, EventsOnly
  <1>6. CASE \E w \in Workers : Receive(w) \/ SendBulk(w) \/ Callback(w)
    BY <1>6 DEF Receive, SendBulk, Callback, consumerVars
  <1>7. CASE Committer \/ Signal \/ CloseReader \/ CloseProjection \/ Producer \/ Expiry
               \/ UNCHANGED vars
    BY <1>7 DEF Committer, ListenForCommit, CommitTick, Signal, CloseQuitChannel, CloseReader,
                CloseKafkaReader, CloseProjection, Producer, Produce, Expiry, vars, consumerVars
  <1> QED
    BY <1>1, <1>2, <1>3, <1>4, <1>5, <1>6, <1>7 DEF Next, Consumer

LEMMA NextConsumerOrder ==
    ASSUME TypeOK, EventsInOrder, OwnInv, OrderInv, [Next]_vars
    PROVE  ConsumerOrder'
  <1>0. /\ ConsumerOrder /\ PipelineIn(StoredPrefixes, EnrichedEvent)
        /\ Len(topic) \in Nat /\ position \in 0 .. Len(topic) /\ cur \in 0 .. Len(topic)
    BY OrderTypes DEF OrderInv
  <1>1. \A y \in Offsets : Stored(y) => Stored(y)'
    BY StoredStable
  <1>2. CASE Exit \/ Crash
    <2>1. pc' = "select" /\ position' = committed /\ committed \in StoredPrefixes
      BY <1>0, <1>2 DEF Exit, Crash, Restart, Return, ReaderRestart, PipelineIn
    <2>2. \A y \in 1 .. committed : y \in Offsets /\ Stored(y)
      BY <1>0, <2>1 DEF StoredPrefixes
    <2> QED
      BY <1>1, <2>1, <2>2 DEF ConsumerOrder
  <1>3. CASE ~(Exit \/ Crash)
    <2> DEFINE Safe(y) == Stored(y) \/ Held(y)
    <2>1. \A y \in Offsets : Safe(y) => Safe(y)'
      BY <1>3, NextKeepsOrder DEF IndexerKeepsOrder
    <2>2. \A y \in 1 .. position : y \in Offsets
      BY <1>0
    <2>3. \A y \in 1 .. cur : y \in Offsets
      BY <1>0
    <2>4. /\ pc \in {"process", "store"} => \A y \in 1 .. cur : Safe(y) \/ y = cur
          /\ pc # "exit" =>
                \A y \in 1 .. position : Safe(y) \/ (pc \in {"process", "store"} /\ y = cur)
      BY <1>0 DEF ConsumerOrder
    <2> SUFFICES /\ pc' \in {"select", "fetch", "process", "store", "exit"}
                 /\ pc' = "store" => enriched'.offset = cur'
                 /\ pc' \in {"process", "store"} => \A y \in 1 .. cur' : Safe(y)' \/ y = cur'
                 /\ pc' # "exit" => \A y \in 1 .. position' :
                                       Safe(y)' \/ (pc' \in {"process", "store"} /\ y = cur')
      BY DEF ConsumerOrder
    <2> HIDE DEF Safe
    <2>5. CASE UNCHANGED <<pc, cur, position, enriched>>
      BY <1>0, <2>1, <2>2, <2>3, <2>4, <2>5 DEF ConsumerOrder
    <2>6. CASE pc' = "exit"
      BY <2>6
    <2>7. CASE pc = "select" /\ pc' = "fetch" /\ UNCHANGED position
      BY <2>1, <2>2, <2>4, <2>7
    <2>8. CASE pc = "fetch" /\ pc' = "process" /\ position' = position + 1 /\ cur' = position'
      <3>1. \A y \in 1 .. position' : y \in 1 .. position \/ y = cur'
        BY <1>0, <2>8
      <3> QED
        BY <2>1, <2>2, <2>4, <2>8, <3>1
    <2>9. CASE EnrichEvent
      <3>1. UNCHANGED <<cur, position>> /\ pc = "process" /\ pc' = "store" /\ enriched'.offset = cur
        BY <2>9 DEF EnrichEvent, GetEnrichedEvent, readerVars
      <3> QED
        BY <2>1, <2>2, <2>3, <2>4, <3>1
    <2>10. CASE StoreEvent
      <3>1. UNCHANGED position /\ pc = "store" /\ pc' = "select"
        BY <2>10 DEF StoreEvent, Return, readerVars
      <3>2. \A y : y = cur => Safe(y)'
        BY <2>10, StoreEventOrder DEF Safe
      <3> QED
        BY <2>1, <2>2, <2>4, <3>1, <3>2
    <2>11. CASE NewGeneration
      <3>1. UNCHANGED <<pc, cur, enriched>> /\ position' \in {committed, stash}
        BY <2>11 DEF NewGeneration, Rebalance, FinalCommit, consumerVars
      <3>2. position' \in StoredPrefixes
        BY <1>0, <3>1 DEF PipelineIn
      <3>3. \A y \in 1 .. position' : y \in Offsets /\ Stored(y)
        BY <1>0, <3>2 DEF StoredPrefixes
      <3>4. \A y \in 1 .. position' : Safe(y)'
        BY <1>1, <3>3 DEF Safe
      <3> QED
        BY <1>0, <2>1, <2>3, <2>4, <3>1, <3>4 DEF ConsumerOrder
    <2> QED
      BY <1>0, <1>3, <2>5, <2>6, <2>7, <2>8, <2>9, <2>10, <2>11, EventConsumer
  <1> QED
    BY <1>2, <1>3

LEMMA OrderInvariant ==
    ASSUME EventsInOrder
    PROVE  Spec => []OrderInv
  <1>1. Init => OrderInv
    <2> SUFFICES ASSUME Init PROVE OrderInv
      OBVIOUS
    <2>1. TypeOK /\ Workers = {1}
      BY InitTypeOK, OrderTypes
    <2>2. 0 \in StoredPrefixes
      BY <2>1 DEF StoredPrefixes, TypeOK, ReaderTypeOK
    <2>3. PipelineIn(StoredPrefixes, EnrichedEvent)
      BY <2>2 DEF Init, ReaderInit, RepositoryInit, PipelineIn
    <2>4. buffer[1] = <<>> /\ queue = <<>> /\ pc = "select" /\ position = 0
      BY <2>1 DEF Init, ReaderInit, RepositoryInit
    <2> QED
      BY <2>3, <2>4 DEF OrderInv, BufferOrder, QueueOrder, ConsumerOrder
  <1>2. TypeOK /\ OwnInv /\ OrderInv /\ [Next]_vars => OrderInv'
    <2> SUFFICES ASSUME TypeOK, OwnInv, OrderInv, [Next]_vars PROVE OrderInv'
      OBVIOUS
    <2>1. PipelineIn(StoredPrefixes, EnrichedEvent)' /\ ConsumerOrder'
      BY PipelineStored, NextConsumerOrder
    <2>2. CASE Exit \/ Crash
      <3>1. queue' = <<>> /\ buffer' = [w \in Workers |-> <<>>] /\ Workers = {1}
        BY <2>2, OrderTypes DEF Exit, Crash, Restart, RepositoryRestart
      <3>2. buffer'[1] = <<>>
        BY <3>1
      <3> QED
        BY <2>1, <3>1, <3>2 DEF OrderInv, BufferOrder, QueueOrder
    <2>3. CASE ~(Exit \/ Crash)
      BY <2>1, <2>3, NextKeepsOrder DEF OrderInv, IndexerKeepsOrder
    <2> QED
      BY <2>2, <2>3
  <1> QED
    BY <1>1, <1>2, TypeCorrect, OwnInvariant, PTL DEF Spec

(* With events alone, one worker and an OpenSearch that takes every item,  *)
(* the group's offset never passes an event that is not stored, whatever   *)
(* crashes, signals and rebalances interrupt.                              *)
THEOREM CommitsFollowStores ==
    ASSUME EventsInOrder
    PROVE  Spec => []CommittedEventsStored
  <1>1. TypeOK /\ OrderInv => CommittedEventsStored
    BY DEF OrderInv, PipelineIn, StoredPrefixes, Stored, CommittedEventsStored
  <1> QED
    BY <1>1, TypeCorrect, OrderInvariant, PTL

-----------------------------------------------------------------------------
(* The refinement.  Producer implements Publish, a bulk request Deliver,   *)
(* and whatever changes the committed offset Commit.                       *)
LEMMA InitDelivers == Init => Delivery!Init
  <1> SUFFICES ASSUME Init PROVE Delivery!Init
    OBVIOUS
  <1>1. topic \in Seq(Messages) /\ Messages \subseteq Message /\ index = {} /\ committed = 0
    BY ReaderAssumption, MessagesAssumption DEF Init, ReaderInit, RepositoryInit
  <1>2. [o \in 1 .. Len(topic) |-> topic[o].doc_id] \in Seq(DocIDs)
    BY <1>1 DEF Message
  <1> QED
    BY <1>1, <1>2 DEF Delivery!Init

LEMMA PublishStep ==
    ASSUME TypeOK, Producer
    PROVE  Delivery!Publish
  <1>1. PICK m \in Messages : topic' = Append(topic, m)
    BY DEF Producer, Produce
  <1>2. topic \in Seq(Messages) /\ m.doc_id \in DocIDs
    BY MessagesAssumption DEF TypeOK, ReaderTypeOK, Message
  <1>3. UNCHANGED <<index, committed>>
    BY DEF Producer, Produce, bulkVars
  <1>4. [o \in 1 .. Len(topic') |-> topic'[o].doc_id]
            = Append([o \in 1 .. Len(topic) |-> topic[o].doc_id], m.doc_id)
    BY <1>1, <1>2
  <1>5. \A d \in index : topic'[d.offset] = topic[d.offset]
    BY <1>1, <1>2 DEF TypeOK, RepositoryTypeOK, EnrichedEvent
  <1>6. {topic'[d.offset].doc_id : d \in index'} = {topic[d.offset].doc_id : d \in index}
    BY <1>3, <1>5
  <1> QED
    BY <1>2, <1>3, <1>4, <1>6 DEF Delivery!Publish, DocumentID

LEMMA DeliverStep ==
    ASSUME TypeOK, NEW w \in Workers, SendBulk(w)
    PROVE  Delivery!Deliver
  <1>1. PICK applied \in SUBSET DOMAIN buffer[w] : index' = Indexed(buffer[w], applied)
    BY DEF SendBulk, Flush, FlushFails
  <1>2. UNCHANGED <<topic, committed>>
    BY DEF SendBulk, readerVars
  <1>3. \A i \in applied : buffer[w][i].offset \in Offsets
    <2>1. buffer[w] \in Seq(EnrichedEvent)
      BY DEF TypeOK, RepositoryTypeOK
    <2>2. \A i \in applied : buffer[w][i] \in EnrichedEvent
      BY <2>1
    <2> QED
      BY <2>2 DEF EnrichedEvent
  <1> DEFINE S == {topic[buffer[w][i].offset].doc_id : i \in applied}
             Delivered == {topic[d.offset].doc_id : d \in index}
             log == [o \in 1 .. Len(topic) |-> topic[o].doc_id]
  <1>4. S \in SUBSET {log[i] : i \in DOMAIN log}
    BY <1>3
  <1>5. {topic[d.offset].doc_id : d \in index'} = Delivered \cup S
    <2>1. \A d \in index' : d \in index \/ \E i \in applied : d = buffer[w][i]
      BY <1>1 DEF Indexed
    <2>2. \A d \in index : \E e \in index' : topic[e.offset].doc_id = topic[d.offset].doc_id
      <3>1. [Next]_vars
        BY DEF Next
      <3> QED
        BY <1>2, <3>1, StoredStays
    <2>3. \A i \in applied : \E e \in index' :
              topic[e.offset].doc_id = topic[buffer[w][i].offset].doc_id
      <3> SUFFICES ASSUME NEW i \in applied
                   PROVE  \E e \in index' :
                              topic[e.offset].doc_id = topic[buffer[w][i].offset].doc_id
        OBVIOUS
      <3>1. PICK j \in applied : /\ DocumentID(buffer[w][j]) = DocumentID(buffer[w][i])
                                 /\ buffer[w][j] \in Indexed(buffer[w], applied)
        BY LastCopy
      <3> QED
        BY <1>1, <3>1 DEF DocumentID
    <2> QED
      BY <2>1, <2>2, <2>3
  <1>6. UNCHANGED log
    BY <1>2
  <1>7. {DocumentID(d) : d \in index}' = {DocumentID(d) : d \in index} \cup S
    BY <1>2, <1>5 DEF DocumentID
  <1> HIDE DEF S
  <1> QED
    BY <1>2, <1>4, <1>6, <1>7 DEF Delivery!Deliver

(* Offsets are committed from the stash. *)
LEMMA CommitWriter ==
    ASSUME [Next]_vars
    PROVE  committed' \in {committed, stash}
  <1> USE DEF readerVars
  <1>1. CASE Consumer \/ ProcessStateFails
    BY <1>1 DEF Consumer, StopConsuming, NotQuit, Fetch, FetchMessage, FetchEOF, Discard,
                UnknownName, ProcessState, ProcessStateExpire, ProcessStateFails, SkipEvent,
                EnrichEvent, StoreEvent, StorePanics, ackMsg
  <1>2. CASE \E w \in Workers : Receive(w) \/ SendBulk(w) \/ Callback(w)
    BY <1>2 DEF Receive, SendBulk, Callback
  <1>3. CASE Committer \/ Signal \/ CloseReader \/ CloseProjection \/ SecondSignal
               \/ NewGeneration \/ Expiry \/ Producer \/ UNCHANGED vars
    BY <1>3 DEF Committer, ListenForCommit, CommitTick, Signal, CloseQuitChannel, CloseReader,
                CloseKafkaReader, FinalCommit, CloseProjection, SecondSignal, NewGeneration,
                Rebalance, Expiry, Producer, Produce, vars
  <1>4. CASE Exit \/ Crash
    BY <1>4 DEF Exit, Crash, Restart, ReaderRestart
  <1> QED
    BY <1>1, <1>2, <1>3, <1>4 DEF Next

LEMMA CommitStep ==
    ASSUME TypeOK, OrderInv, [Next]_vars, UNCHANGED <<topic, index>>
    PROVE  Delivery!Commit
  <1>1. committed' \in StoredPrefixes
    BY CommitWriter DEF OrderInv, PipelineIn
  <1>2. PICK a : a = committed'
    OBVIOUS
  <1>3. a \in 0 .. Len(topic) /\ \A y \in 1 .. a : \E d \in index : DocumentID(d) = topic[y].doc_id
    BY <1>1, <1>2 DEF StoredPrefixes, Stored
  <1> DEFINE log == [o \in 1 .. Len(topic) |-> topic[o].doc_id]
             delivered == {DocumentID(d) : d \in index}
  <1>4. Len(topic) \in Nat /\ DOMAIN log = 1 .. Len(topic) /\ Len(log) = Len(topic)
    BY DEF TypeOK, ReaderTypeOK
  <1>5. \A y \in 1 .. a : log[y] \in delivered
    BY <1>3, <1>4
  <1>6. UNCHANGED <<log, delivered>>
    BY DEF DocumentID
  <1> QED
    BY <1>2, <1>3, <1>4, <1>5, <1>6 DEF Delivery!Commit, Delivery!DeliveredUpTo

(* Under the same premises the consumer implements AtLeastOnceDelivery:    *)
(* replays, restarts and copies of an event never take a document back,    *)
(* and commits, passing through a channel and a stash, never overtake the  *)
(* bulk requests.                                                          *)
THEOREM ImplementsDelivery ==
    ASSUME EventsInOrder
    PROVE  Spec => DeliversAtLeastOnce
  <1>1. Init => Delivery!Init
    BY InitDelivers
  <1>2. TypeOK /\ OrderInv /\ [Next]_vars => [Delivery!Next]_(Delivery!deliveryVars)
    <2> SUFFICES ASSUME TypeOK, OrderInv, [Next]_vars PROVE Delivery!Next
      OBVIOUS
    <2>1. CASE Producer
      BY <2>1, PublishStep DEF Delivery!Next
    <2>2. CASE \E w \in Workers : SendBulk(w)
      BY <2>2, DeliverStep DEF Delivery!Next
    <2>3. CASE UNCHANGED <<topic, index>>
      BY <2>3, CommitStep DEF Delivery!Next
    <2> QED
      BY <2>1, <2>2, <2>3, TopicGrows, IndexWriter
  <1> QED
    BY <1>1, <1>2, TypeCorrect, OrderInvariant, PTL DEF Spec, DeliversAtLeastOnce, Delivery!Spec
=============================================================================
