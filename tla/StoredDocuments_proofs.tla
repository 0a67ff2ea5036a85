----------------------- MODULE StoredDocuments_proofs -----------------------
(***************************************************************************)
(* Proofs about the documents in OpenSearch, for every stream of messages  *)
(* and every fault: an acknowledged event has a document, and no document  *)
(* carries a snapshot of another cluster.                                  *)
(***************************************************************************)
EXTENDS EnrichedEventsProjection_proofs, WellFoundedInduction

USE DEF Offsets, Workers

(* Induction over the naturals in the form the provers can use. *)
LEMMA LeastElement ==
    ASSUME NEW T \in SUBSET Nat, T # {}
    PROVE  \E x \in T : \A y \in T : x <= y
  <1>1. IsWellFoundedOn(OpToRel(<, Nat), Nat)
    BY NatLessThanWellFounded
  <1>2. PICK x \in T : \A y \in T : ~(<<y, x>> \in OpToRel(<, Nat))
    BY <1>1, WFMin
  <1>3. \A y \in T : ~(y < x)
    BY <1>2 DEF OpToRel
  <1> QED
    BY <1>3

LEMMA GreatestElement ==
    ASSUME NEW n \in Nat, NEW S \in SUBSET (1 .. n), S # {}
    PROVE  \E x \in S : \A y \in S : y <= x
  <1> DEFINE T == {n - y : y \in S}
  <1>1. T \in SUBSET Nat /\ T # {}
    <2>1. \A y \in S : y \in Nat /\ y <= n
      OBVIOUS
    <2>2. \A y \in S : n - y \in Nat
      BY <2>1
    <2> QED
      BY <2>2
  <1>2. PICK t \in T : \A u \in T : t <= u
    BY <1>1, LeastElement
  <1>3. PICK x \in S : t = n - x
    OBVIOUS
  <1> QED
    BY <1>2, <1>3

-----------------------------------------------------------------------------
(* The last of the applied items with the document of item i. *)
LEMMA LastCopy ==
    ASSUME TypeOK, NEW w \in Workers, NEW applied \in SUBSET DOMAIN buffer[w], NEW i \in applied
    PROVE  \E j \in applied :
              /\ DocumentID(buffer[w][j]) = DocumentID(buffer[w][i])
              /\ buffer[w][j] \in Indexed(buffer[w], applied)
  <1> DEFINE items == buffer[w]
             S == {j \in applied : SameDocument(items[i], items[j])}
  <1>1. Len(items) \in Nat /\ DOMAIN items = 1 .. Len(items)
    BY DEF TypeOK, RepositoryTypeOK
  <1>2. S \in SUBSET (1 .. Len(items)) /\ i \in S
    BY <1>1 DEF SameDocument
  <1>3. PICK j \in S : \A k \in S : k <= j
    BY <1>1, <1>2, GreatestElement
  <1>4. \A k \in applied : k > j => ~SameDocument(items[j], items[k])
    <2> SUFFICES ASSUME NEW k \in applied, k > j, SameDocument(items[j], items[k])
                 PROVE  FALSE
      OBVIOUS
    <2>1. k \in S
      BY DEF SameDocument
    <2> QED
      BY <1>1, <1>3, <2>1
  <1>5. items[j] \in Indexed(items, applied)
    BY <1>4 DEF Indexed
  <1> QED
    BY <1>5 DEF SameDocument

(* A document is only ever replaced by one with the same ID. *)
LEMMA StoredStays ==
    ASSUME TypeOK, [Next]_vars, NEW d \in index
    PROVE  \E e \in index' : topic'[e.offset].doc_id = topic[d.offset].doc_id
                               /\ e.offset \in Offsets
  <1>1. d.offset \in Offsets
    BY DEF TypeOK, RepositoryTypeOK, EnrichedEvent
  <1>2. \A o \in Offsets : topic'[o] = topic[o]
    BY TopicGrows
  <1>3. CASE UNCHANGED index
    BY <1>1, <1>2, <1>3
  <1>4. ASSUME NEW w \in Workers, SendBulk(w)
        PROVE  \E e \in index' : topic'[e.offset].doc_id = topic[d.offset].doc_id
                                   /\ e.offset \in Offsets
    <2>1. PICK applied \in SUBSET DOMAIN buffer[w] : index' = Indexed(buffer[w], applied)
      BY <1>4 DEF SendBulk, Flush, FlushFails
    <2>2. CASE \A i \in applied : ~SameDocument(d, buffer[w][i])
      <3>1. d \in index'
        BY <2>1, <2>2 DEF Indexed
      <3> QED
        BY <1>1, <1>2, <3>1
    <2>3. ASSUME NEW i \in applied, SameDocument(d, buffer[w][i])
          PROVE  \E e \in index' : topic'[e.offset].doc_id = topic[d.offset].doc_id
                                     /\ e.offset \in Offsets
      <3>1. PICK j \in applied : /\ DocumentID(buffer[w][j]) = DocumentID(buffer[w][i])
                                 /\ buffer[w][j] \in index'
        BY <2>1, LastCopy
      <3>2. buffer[w][j].offset \in Offsets
        <4>1. buffer[w] \in Seq(EnrichedEvent) /\ j \in DOMAIN buffer[w]
          BY DEF TypeOK, RepositoryTypeOK
        <4>2. buffer[w][j] \in EnrichedEvent
          BY <4>1
        <4> QED
          BY <4>2 DEF EnrichedEvent
      <3> QED
        BY <1>2, <2>3, <3>1, <3>2 DEF SameDocument, DocumentID
    <2> QED
      BY <2>2, <2>3
  <1> QED
    BY <1>3, <1>4, IndexWriter

-----------------------------------------------------------------------------
(* The offsets that may be acknowledged: those of events OpenSearch has,   *)
(* and those of other messages.                                            *)
Acknowledgeable ==
    {o \in 0 .. Len(topic) :
        o # 0 /\ IsEvent(topic[o]) => \E d \in index : DocumentID(d) = topic[o].doc_id}

(* The inductive invariant: only such offsets are on their way to the      *)
(* broker, and the consumer acknowledges no event itself.                  *)
AckedInv ==
    /\ PipelineIn(Acknowledgeable, EnrichedEvent)
    /\ pc \in {"expire", "ack"} => ~IsEvent(msg)

LEMMA AcknowledgeableGrows ==
    ASSUME TypeOK, [Next]_vars
    PROVE  Acknowledgeable \subseteq Acknowledgeable'
  <1> SUFFICES ASSUME NEW o \in Acknowledgeable PROVE o \in Acknowledgeable'
    OBVIOUS
  <1>1. Len(topic) \in Nat /\ o \in 0 .. Len(topic)
    BY DEF Acknowledgeable, TypeOK, ReaderTypeOK
  <1>2. o \in 0 .. Len(topic') /\ (o # 0 => topic'[o] = topic[o])
    BY <1>1, TopicGrows
  <1>3. ASSUME o # 0, IsEvent(topic[o])
        PROVE  \E e \in index' : topic'[e.offset].doc_id = topic[o].doc_id
    <2>1. PICK d \in index : topic[d.offset].doc_id = topic[o].doc_id
      BY <1>3 DEF Acknowledgeable, DocumentID
    <2> QED
      BY <2>1, StoredStays
  <1> QED
    BY <1>2, <1>3 DEF Acknowledgeable, DocumentID

(* What a bulk request reports as indexed is in OpenSearch. *)
LEMMA ResponseStored ==
    ASSUME TypeOK, NEW w \in Workers, NEW applied \in SUBSET DOMAIN buffer[w],
           index' = Indexed(buffer[w], applied), UNCHANGED topic
    PROVE  Response(buffer[w], applied) \in Seq(Acknowledgeable')
  <1>1. buffer[w] \in Seq(EnrichedEvent) /\ Len(topic) \in Nat
    BY DEF TypeOK, ReaderTypeOK, RepositoryTypeOK
  <1>2. 0 \in Acknowledgeable'
    BY <1>1 DEF Acknowledgeable
  <1>3. ASSUME NEW i \in applied PROVE buffer[w][i].offset \in Acknowledgeable'
    <2>1. buffer[w][i] \in EnrichedEvent
      BY <1>1
    <2>2. buffer[w][i].offset \in Offsets
      BY <2>1 DEF EnrichedEvent
    <2>3. \E d \in index' : topic[d.offset].doc_id = topic[buffer[w][i].offset].doc_id
      BY LastCopy DEF DocumentID
    <2> QED
      BY <1>1, <2>2, <2>3 DEF Acknowledgeable, DocumentID
  <1>4. /\ DOMAIN buffer[w] = 1 .. Len(buffer[w]) /\ Len(buffer[w]) \in Nat
        /\ \A i \in DOMAIN buffer[w] : (IF i \in applied THEN buffer[w][i].offset ELSE 0)
                                           \in Acknowledgeable'
    BY <1>1, <1>2, <1>3
  <1> QED
    BY <1>4 DEF Response

LEMMA PipelineAcked ==
    ASSUME TypeOK, AckedInv, [Next]_vars
    PROVE  PipelineIn(Acknowledgeable, EnrichedEvent)'
  <1>0. PipelineIn(Acknowledgeable, EnrichedEvent)
    BY DEF AckedInv
  <1>1. PICK A, D : A = Acknowledgeable /\ D = EnrichedEvent
    OBVIOUS
  <1>2. A \subseteq Acknowledgeable' /\ D \subseteq EnrichedEvent'
    BY <1>1, AcknowledgeableGrows, EnrichedEventGrows
  <1>3. Seq(A) \subseteq Seq(Acknowledgeable') /\ Seq(D) \subseteq Seq(EnrichedEvent')
    BY <1>2, SeqMonotone
  <1>4. CASE ~\E w \in Workers : SendBulk(w)
    <2>1. 0 \in A
      BY <1>1 DEF Acknowledgeable, TypeOK, ReaderTypeOK
    <2>2. pc = "ack" => cur \in A
      BY <1>1, MsgType DEF AckedInv, Acknowledgeable, msg, TypeOK, ReaderTypeOK
    <2>3. pc = "store" => enriched \in D
      BY <1>1 DEF TypeOK, ConsumerTypeOK
    <2>4. PipelineIn(A, D)'
      BY <1>0, <1>1, <1>4, <2>1, <2>2, <2>3, PipelineStep
    <2> QED
      BY <1>2, <1>3, <2>4 DEF PipelineIn
  <1>5. ASSUME NEW w \in Workers, SendBulk(w)
        PROVE  PipelineIn(Acknowledgeable, EnrichedEvent)'
    <2>1. /\ UNCHANGED <<topic, committed, stash, ackChannel, queue>>
          /\ buffer' = [buffer EXCEPT ![w] = <<>>]
      BY <1>5 DEF SendBulk, Flush, FlushFails, readerVars
    <2>2. callbacks' \in [Workers -> Seq(Acknowledgeable')]
      <3>1. CASE Flush(w)
        <4>1. PICK applied \in SUBSET DOMAIN buffer[w] :
                  /\ index' = Indexed(buffer[w], applied)
                  /\ callbacks' = [callbacks EXCEPT ![w] = Response(buffer[w], applied)]
          BY <3>1 DEF Flush
        <4>2. Response(buffer[w], applied) \in Seq(Acknowledgeable')
          BY <2>1, <4>1, ResponseStored
        <4> QED
          BY <1>0, <1>1, <1>3, <4>1, <4>2 DEF PipelineIn
      <3>2. CASE FlushFails(w)
        BY <1>0, <1>1, <1>3, <3>2 DEF FlushFails, PipelineIn
      <3> QED
        BY <1>5, <3>1, <3>2 DEF SendBulk
    <2> QED
      BY <1>0, <1>1, <1>2, <1>3, <2>1, <2>2 DEF PipelineIn
  <1> QED
    BY <1>4, <1>5

(* A message that the consumer itself acknowledges is not an event. *)
LEMMA ConsumerAcksNoEvent ==
    ASSUME TypeOK, AckedInv, [Next]_vars
    PROVE  (pc \in {"expire", "ack"} => ~IsEvent(msg))'
  <1> USE DEF readerVars
  <1>0. pc \in {"expire", "ack"} => ~IsEvent(msg) /\ msg \in Message
    BY MsgType DEF AckedInv
  <1>1. CASE StopConsuming \/ NotQuit \/ Fetch \/ FetchEOF \/ UnknownName \/ SkipEvent
               \/ EnrichEvent \/ StoreEvent \/ StorePanics \/ SecondSignal \/ Exit \/ Crash
    BY <1>1 DEF StopConsuming, NotQuit, Fetch, FetchEOF, UnknownName, SkipEvent, EnrichEvent,
                StoreEvent, StorePanics, SecondSignal, Exit, Crash, Restart, Return
  <1>2. CASE Discard \/ ProcessState \/ ProcessStateExpire \/ ProcessStateFails
    <2>1. UNCHANGED <<topic, cur>>
      BY <1>2 DEF Discard, ProcessState, ProcessStateExpire, ProcessStateFails, Owe
    <2>2. ~IsEvent(msg)
      BY <1>0, <1>2 DEF Discard, ProcessState, ProcessStateExpire, ProcessStateFails, IsState,
                        IsEvent, StateNames
    <2> QED
      BY <2>1, <2>2 DEF msg
  <1>3. CASE ackMsg
    BY <1>0, <1>3 DEF ackMsg, Return, msg
  <1>4. CASE \/ Committer \/ Signal \/ CloseReader \/ CloseProjection \/ Producer \/ NewGeneration
             \/ Expiry \/ (\E w \in Workers : Receive(w) \/ SendBulk(w) \/ Callback(w))
             \/ UNCHANGED vars
    <2>1. UNCHANGED consumerVars
      BY <1>4 DEF Committer, Signal, CloseReader, CloseProjection, Producer, NewGeneration, Expiry,
                  Receive, SendBulk, Callback, vars
    <2>2. pc \in {"expire", "ack"} => msg' = msg
      BY <2>1, MsgType, TopicGrows DEF consumerVars, msg
    <2> QED
      BY <1>0, <2>1, <2>2 DEF consumerVars
  <1> QED
    BY <1>1, <1>2, <1>3, <1>4 DEF Next, Consumer

(* Whatever fails, an event whose acknowledgement is on its way to the     *)
(* broker, or is the committed offset, is in OpenSearch: OnSuccess is the  *)
(* only one to acknowledge events, and documents are never removed.        *)
THEOREM AcknowledgedMeansStored == Spec => []AckedEventStored
  <1>1. Init => AckedInv
    <2> SUFFICES ASSUME Init PROVE AckedInv
      OBVIOUS
    <2>1. 0 \in Acknowledgeable
      BY InitTypeOK DEF TypeOK, ReaderTypeOK, Acknowledgeable
    <2> QED
      BY <2>1 DEF Init, ReaderInit, RepositoryInit, AckedInv, PipelineIn
  <1>2. TypeOK /\ AckedInv /\ [Next]_vars => AckedInv'
    BY PipelineAcked, ConsumerAcksNoEvent DEF AckedInv
  <1>3. TypeOK /\ AckedInv => AckedEventStored
    <2> SUFFICES ASSUME TypeOK, AckedInv, NEW o \in Acknowledged PROVE o \in Acknowledgeable /\ o # 0
      BY DEF AckedEventStored, Acknowledgeable
    <2> QED
      BY DEF AckedInv, PipelineIn, Acknowledged, TypeOK, ReaderTypeOK
  <1> QED
    BY <1>1, <1>2, <1>3, TypeCorrect, PTL DEF Spec

-----------------------------------------------------------------------------
(* v is no snapshot, or that of the object f of kind name in cluster c. *)
OwnSnapshot(name, c, f, v) ==
    v # 0 =>
        /\ v \in Offsets
        /\ topic[v].name = name
        /\ ClusterOf(topic[v]) = c
        /\ topic[v].id = (IF name = "ClusterState" THEN c ELSE f)

SnapshotsOwn ==
    \A c, f \in IDs :
        /\ OwnSnapshot("ClusterState", c, f, redis[getClustersHKey][c])
        /\ OwnSnapshot("HostState", c, f, redis[getHostsHKey(c)][f])
        /\ OwnSnapshot("InfraEnv", c, f, redis[getInfraEnvsHKey(c)][f])

OwnDocument(d) ==
    /\ IsEvent(topic[d.offset])
    /\ \A name \in StateNames, f \in IDs :
          OwnSnapshot(name, topic[d.offset].cluster_id, f, SnapshotIn(d, name, f))

OwnDocuments == {d \in EnrichedEvent : OwnDocument(d)}

(* The inductive invariant: so it is in Redis, with the event the consumer *)
(* is about to store, in the indexer and in OpenSearch.                    *)
OwnInv ==
    /\ SnapshotsOwn
    /\ PipelineIn(0 .. Len(topic), OwnDocuments)
    /\ pc = "store" => enriched \in OwnDocuments
    /\ index \subseteq OwnDocuments

LEMMA OwnSnapshotStable ==
    ASSUME TypeOK, [Next]_vars, NEW name, NEW c, NEW f, NEW v, OwnSnapshot(name, c, f, v)
    PROVE  OwnSnapshot(name, c, f, v)'
  <1>1. \A o \in Offsets : o \in Offsets' /\ topic'[o] = topic[o]
    BY TopicGrows DEF TypeOK, ReaderTypeOK
  <1> QED
    BY <1>1 DEF OwnSnapshot

LEMMA OwnDocumentsGrow ==
    ASSUME TypeOK, [Next]_vars
    PROVE  OwnDocuments \subseteq OwnDocuments'
  <1> SUFFICES ASSUME NEW d \in OwnDocuments PROVE d \in OwnDocuments'
    OBVIOUS
  <1>1. d \in EnrichedEvent /\ OwnDocument(d)
    BY DEF OwnDocuments
  <1>2. topic'[d.offset] = topic[d.offset]
    BY <1>1, TopicGrows DEF EnrichedEvent
  <1>3. PICK c : c = topic[d.offset].cluster_id
    OBVIOUS
  <1>4. ASSUME NEW name \in StateNames, NEW f \in IDs
        PROVE  OwnSnapshot(name, c, f, SnapshotIn(d, name, f))'
    <2>1. PICK v : v = SnapshotIn(d, name, f)
      OBVIOUS
    <2>2. OwnSnapshot(name, c, f, v)
      BY <1>1, <1>3, <2>1 DEF OwnDocument
    <2>3. OwnSnapshot(name, c, f, v)'
      BY <2>2, OwnSnapshotStable
    <2> QED
      BY <2>1, <2>3
  <1>5. OwnDocument(d)'
    <2>1. IsEvent(topic[d.offset])'
      BY <1>1, <1>2 DEF OwnDocument, IsEvent, WellFormed
    <2> QED
      BY <1>2, <1>3, <1>4, <2>1 DEF OwnDocument
  <1> QED
    BY <1>1, <1>5, EnrichedEventGrows DEF OwnDocuments

(* How the snapshots change. *)
LEMMA RedisSteps ==
    ASSUME [Next]_vars
    PROVE  \/ UNCHANGED redis
           \/ pc = "process" /\ IsState(msg) /\ HSet(msg, cur)
           \/ \E k \in HKeys : KeyExpires(k)
  <1> USE DEF readerVars, snapshotVars
  <1>1. CASE Consumer
    BY <1>1 DEF Consumer, StopConsuming, NotQuit, Fetch, FetchEOF, Discard, UnknownName, ProcessState,
                ProcessStateExpire, Expire, SkipEvent, EnrichEvent, StoreEvent, StorePanics, ackMsg
  <1>2. CASE ProcessStateFails
    BY <1>2 DEF ProcessStateFails, Expire
  <1>3. CASE Expiry
    BY <1>3 DEF Expiry
  <1>4. CASE \E w \in Workers : Receive(w) \/ SendBulk(w) \/ Callback(w)
    BY <1>4 DEF Receive, SendBulk, Callback
  <1>5. CASE Committer \/ Signal \/ CloseReader \/ CloseProjection \/ SecondSignal
               \/ Producer \/ NewGeneration \/ Exit \/ Crash \/ UNCHANGED vars
    BY <1>5 DEF Committer, Signal, CloseReader, CloseProjection, SecondSignal,
                Producer, NewGeneration, Exit, Crash, Restart, vars
  <1> QED
    BY <1>1, <1>2, <1>3, <1>4, <1>5 DEF Next

(* The hashes of two clusters, or of two kinds, are different ones. *)
LEMMA SnapshotsStayOwn ==
    ASSUME TypeOK, OwnInv, [Next]_vars
    PROVE  SnapshotsOwn'
  <1>0. SnapshotsOwn /\ redis \in [HKeys -> [IDs -> Nat]]
    BY DEF OwnInv, TypeOK, SnapshotTypeOK
  <1>1. \A c \in IDs : /\ getClustersHKey \in HKeys
                       /\ getHostsHKey(c) \in HKeys
                       /\ getInfraEnvsHKey(c) \in HKeys
    BY DEF HKeys
  <1> SUFFICES ASSUME NEW c \in IDs, NEW f \in IDs
               PROVE  /\ OwnSnapshot("ClusterState", c, f, redis'[getClustersHKey][c])
                      /\ OwnSnapshot("HostState", c, f, redis'[getHostsHKey(c)][f])
                      /\ OwnSnapshot("InfraEnv", c, f, redis'[getInfraEnvsHKey(c)][f])
    <2> SUFFICES ASSUME NEW c \in IDs, NEW f \in IDs
                 PROVE  /\ OwnSnapshot("ClusterState", c, f, redis[getClustersHKey][c])'
                        /\ OwnSnapshot("HostState", c, f, redis[getHostsHKey(c)][f])'
                        /\ OwnSnapshot("InfraEnv", c, f, redis[getInfraEnvsHKey(c)][f])'
      BY DEF SnapshotsOwn
    <2>1. PICK v1, v2, v3 : /\ v1 = redis'[getClustersHKey][c]
                            /\ v2 = redis'[getHostsHKey(c)][f]
                            /\ v3 = redis'[getInfraEnvsHKey(c)][f]
      OBVIOUS
    <2>2. /\ OwnSnapshot("ClusterState", c, f, v1)
          /\ OwnSnapshot("HostState", c, f, v2)
          /\ OwnSnapshot("InfraEnv", c, f, v3)
      BY <2>1
    <2>3. /\ OwnSnapshot("ClusterState", c, f, v1)'
          /\ OwnSnapshot("HostState", c, f, v2)'
          /\ OwnSnapshot("InfraEnv", c, f, v3)'
      BY <2>2, OwnSnapshotStable
    <2> QED
      BY <2>1, <2>3 DEF getClustersHKey, getHostsHKey, getInfraEnvsHKey
  <1>2. CASE UNCHANGED redis
    BY <1>0, <1>2 DEF SnapshotsOwn
  <1>3. CASE pc = "process" /\ IsState(msg) /\ HSet(msg, cur)
    <2>1. cur \in Offsets /\ msg \in Message /\ HKey(msg) \in HKeys /\ msg.id \in IDs
      BY <1>3, MsgType, HKeyType
    <2>2. redis' = [redis EXCEPT ![HKey(msg)][msg.id] = cur]
      BY <1>3 DEF HSet
    <2>3. msg.name \in StateNames /\ msg = topic[cur]
      BY <1>3 DEF IsState, msg
    <2>4. /\ OwnSnapshot("ClusterState", c, f, redis[getClustersHKey][c])
          /\ OwnSnapshot("HostState", c, f, redis[getHostsHKey(c)][f])
          /\ OwnSnapshot("InfraEnv", c, f, redis[getInfraEnvsHKey(c)][f])
      BY <1>0 DEF SnapshotsOwn
    <2>5. \A k \in HKeys, g \in IDs :
              redis'[k][g] = IF k = HKey(msg) /\ g = msg.id THEN cur ELSE redis[k][g]
      BY <1>0, <2>1, <2>2
    <2>6. OwnSnapshot("ClusterState", c, f, redis'[getClustersHKey][c])
      <3>1. CASE getClustersHKey = HKey(msg) /\ c = msg.id
        <4>1. msg.name = "ClusterState"
          BY <2>3, <3>1 DEF StateNames, HKey, getClustersHKey, getHostsHKey, getInfraEnvsHKey
        <4> QED
          BY <1>1, <2>1, <2>3, <2>5, <3>1, <4>1 DEF OwnSnapshot, ClusterOf
      <3>2. CASE ~(getClustersHKey = HKey(msg) /\ c = msg.id)
        BY <1>1, <2>4, <2>5, <3>2
      <3> QED
        BY <3>1, <3>2
    <2>7. OwnSnapshot("HostState", c, f, redis'[getHostsHKey(c)][f])
      <3>1. CASE getHostsHKey(c) = HKey(msg) /\ f = msg.id
        <4>1. msg.name = "HostState" /\ msg.cluster_id = c
          BY <2>3, <3>1 DEF StateNames, HKey, getClustersHKey, getHostsHKey, getInfraEnvsHKey
        <4> QED
          BY <1>1, <2>1, <2>3, <2>5, <3>1, <4>1 DEF OwnSnapshot, ClusterOf
      <3>2. CASE ~(getHostsHKey(c) = HKey(msg) /\ f = msg.id)
        BY <1>1, <2>4, <2>5, <3>2
      <3> QED
        BY <3>1, <3>2
    <2>8. OwnSnapshot("InfraEnv", c, f, redis'[getInfraEnvsHKey(c)][f])
      <3>1. CASE getInfraEnvsHKey(c) = HKey(msg) /\ f = msg.id
        <4>1. msg.name = "InfraEnv" /\ msg.cluster_id = c
          BY <2>3, <3>1 DEF StateNames, HKey, getClustersHKey, getHostsHKey, getInfraEnvsHKey
        <4> QED
          BY <1>1, <2>1, <2>3, <2>5, <3>1, <4>1 DEF OwnSnapshot, ClusterOf
      <3>2. CASE ~(getInfraEnvsHKey(c) = HKey(msg) /\ f = msg.id)
        BY <1>1, <2>4, <2>5, <3>2
      <3> QED
        BY <3>1, <3>2
    <2> QED
      BY <2>6, <2>7, <2>8
  <1>4. ASSUME NEW k \in HKeys, KeyExpires(k)
        PROVE  /\ OwnSnapshot("ClusterState", c, f, redis'[getClustersHKey][c])
               /\ OwnSnapshot("HostState", c, f, redis'[getHostsHKey(c)][f])
               /\ OwnSnapshot("InfraEnv", c, f, redis'[getInfraEnvsHKey(c)][f])
    <2>1. \A h \in HKeys, g \in IDs : redis'[h][g] = 0 \/ redis'[h][g] = redis[h][g]
      BY <1>0, <1>4 DEF KeyExpires, EmptyHash
    <2>2. \A name : OwnSnapshot(name, c, f, 0)
      BY DEF OwnSnapshot
    <2>3. /\ OwnSnapshot("ClusterState", c, f, redis[getClustersHKey][c])
          /\ OwnSnapshot("HostState", c, f, redis[getHostsHKey(c)][f])
          /\ OwnSnapshot("InfraEnv", c, f, redis[getInfraEnvsHKey(c)][f])
      BY <1>0 DEF SnapshotsOwn
    <2> QED
      BY <1>1, <2>1, <2>2, <2>3
  <1> QED
    BY <1>2, <1>3, <1>4, RedisSteps

(* A failed read leaves a snapshot out. *)
LEMMA EnrichOwn ==
    ASSUME TypeOK, SnapshotsOwn, NEW o \in Offsets, IsEvent(topic[o]),
           topic[o].cluster_id \in IDs, NEW fails
    PROVE  OwnDocument(GetEnrichedEvent(o, topic[o].cluster_id, fails))
  <1> DEFINE c == topic[o].cluster_id
             d == GetEnrichedEvent(o, c, fails)
  <1>1. /\ d.offset = o
        /\ d.cluster = GetCluster(c, "cluster" \in fails)
        /\ d.hosts = GetHosts(c, "hosts" \in fails)
        /\ d.infra_envs = GetInfraEnvs(c, "infra_envs" \in fails)
    BY DEF GetEnrichedEvent
  <1> SUFFICES ASSUME NEW name \in StateNames, NEW f \in IDs
               PROVE  OwnSnapshot(name, c, f, SnapshotIn(d, name, f))
    BY <1>1 DEF OwnDocument
  <1>2. OwnSnapshot(name, c, f, 0)
    BY DEF OwnSnapshot
  <1>3. CASE name = "ClusterState"
    <2>1. SnapshotIn(d, name, f) \in {0, redis[getClustersHKey][c]}
      BY <1>1, <1>3 DEF SnapshotIn, GetCluster
    <2> QED
      BY <1>2, <1>3, <2>1 DEF SnapshotsOwn
  <1>4. CASE name = "HostState"
    <2>1. SnapshotIn(d, name, f) \in {0, redis[getHostsHKey(c)][f]}
      BY <1>1, <1>4 DEF SnapshotIn, GetHosts, EmptyHash
    <2> QED
      BY <1>2, <1>4, <2>1 DEF SnapshotsOwn
  <1>5. CASE name = "InfraEnv"
    <2>1. SnapshotIn(d, name, f) \in {0, redis[getInfraEnvsHKey(c)][f]}
      BY <1>1, <1>5 DEF SnapshotIn, GetInfraEnvs, EmptyHash
    <2> QED
      BY <1>2, <1>5, <2>1 DEF SnapshotsOwn
  <1> QED
    BY <1>3, <1>4, <1>5 DEF StateNames

(* Only EnrichEvent makes a new enriched event. *)
LEMMA EnrichedSteps ==
    ASSUME [Next]_vars
    PROVE  pc' = "store" => EnrichEvent \/ UNCHANGED <<pc, enriched>>
  <1>1. CASE Consumer \/ ProcessStateFails
    BY <1>1 DEF Consumer, StopConsuming, NotQuit, Fetch, FetchEOF, Discard, UnknownName, ProcessState,
                ProcessStateExpire, ProcessStateFails, SkipEvent, StoreEvent, StorePanics, ackMsg,
                Return, Owe
  <1>2. CASE \/ Committer \/ Signal \/ CloseReader \/ CloseProjection \/ Producer \/ NewGeneration
             \/ Expiry \/ (\E w \in Workers : Receive(w) \/ SendBulk(w) \/ Callback(w))
             \/ UNCHANGED vars
    BY <1>2 DEF Committer, Signal, CloseReader, CloseProjection, Producer, NewGeneration, Expiry,
                Receive, SendBulk, Callback, vars, consumerVars
  <1>3. CASE SecondSignal \/ Exit \/ Crash
    BY <1>3 DEF SecondSignal, Exit, Crash, Restart, Return
  <1> QED
    BY <1>1, <1>2, <1>3 DEF Next

LEMMA NextOwnInv ==
    ASSUME TypeOK, TypeOK', OwnInv, [Next]_vars
    PROVE  OwnInv'
  <1>1. SnapshotsOwn'
    BY SnapshotsStayOwn
  <1>2. OwnDocuments \subseteq OwnDocuments'
    BY OwnDocumentsGrow
  <1>3. PipelineIn(0 .. Len(topic), OwnDocuments)'
    <2>1. PICK A, D : A = 0 .. Len(topic) /\ D = OwnDocuments
      OBVIOUS
    <2>2. 0 \in A /\ (\A d \in D : d.offset \in A)
      BY <2>1 DEF OwnDocuments, EnrichedEvent, TypeOK, ReaderTypeOK
    <2>3. (pc = "ack" => cur \in A) /\ (pc = "store" => enriched \in D)
      BY <2>1 DEF OwnInv, TypeOK, ConsumerTypeOK
    <2>4. PipelineIn(A, D)'
      BY <2>1, <2>2, <2>3, PipelineStep DEF OwnInv
    <2>5. A \subseteq 0 .. Len(topic') /\ D \subseteq OwnDocuments'
      BY <1>2, <2>1, TopicGrows DEF TypeOK, ReaderTypeOK
    <2>6. Seq(A) \subseteq Seq(0 .. Len(topic')) /\ Seq(D) \subseteq Seq(OwnDocuments')
      BY <2>5, SeqMonotone
    <2> QED
      BY <2>4, <2>5, <2>6 DEF PipelineIn
  <1>4. pc' = "store" => enriched' \in OwnDocuments'
    <2>1. CASE EnrichEvent
      <3>1. /\ cur \in Offsets /\ IsEvent(topic[cur]) /\ topic[cur].cluster_id \in IDs
            /\ UNCHANGED topic
        BY <2>1, MsgType DEF EnrichEvent, IsEvent, WellFormed, Message, msg, readerVars
      <3>2. PICK fails : enriched' = GetEnrichedEvent(cur, topic[cur].cluster_id, fails)
        BY <2>1 DEF EnrichEvent, msg
      <3>3. OwnDocument(enriched')
        BY <3>1, <3>2, EnrichOwn DEF OwnInv
      <3>4. enriched' \in EnrichedEvent
        BY <3>1, <3>2, GetEnrichedEventType
      <3> QED
        BY <1>2, <3>3, <3>4 DEF OwnDocuments
    <2>2. CASE UNCHANGED <<pc, enriched>>
      BY <1>2, <2>2 DEF OwnInv
    <2> QED
      BY <2>1, <2>2, EnrichedSteps
  <1>5. index' \subseteq OwnDocuments'
    <2>1. ASSUME NEW w \in Workers, SendBulk(w) PROVE index' \subseteq OwnDocuments
      <3>1. PICK applied \in SUBSET DOMAIN buffer[w] : index' = Indexed(buffer[w], applied)
        BY <2>1 DEF SendBulk, Flush, FlushFails
      <3>2. \A i \in applied : buffer[w][i] \in OwnDocuments
        BY DEF OwnInv, PipelineIn
      <3> QED
        BY <3>1, <3>2 DEF Indexed, OwnInv
    <2> QED
      BY <1>2, <2>1, IndexWriter DEF OwnInv
  <1> QED
    BY <1>1, <1>3, <1>4, <1>5 DEF OwnInv

LEMMA OwnInvariant == Spec => []OwnInv
  <1>1. Init => OwnInv
    <2> SUFFICES ASSUME Init PROVE OwnInv
      OBVIOUS
    <2>1. SnapshotsOwn
      BY DEF Init, SnapshotInit, SnapshotsOwn, OwnSnapshot, EmptyHash, HKeys
    <2>2. 0 \in 0 .. Len(topic)
      BY InitTypeOK DEF TypeOK, ReaderTypeOK
    <2> QED
      BY <2>1, <2>2 DEF Init, ReaderInit, RepositoryInit, OwnInv, PipelineIn
  <1>2. TypeOK /\ TypeOK' /\ OwnInv /\ [Next]_vars => OwnInv'
    BY NextOwnInv
  <1> QED
    BY <1>1, <1>2, TypeCorrect, PTL DEF Spec

(* Whatever fails, expires or is replayed, a stored event was enriched     *)
(* with snapshots of its own cluster, hosts and infra-envs only.           *)
THEOREM OwnSnapshotsOnly == Spec => []DocumentsFromOwnCluster
  <1>1. OwnInv => DocumentsFromOwnCluster
    <2> SUFFICES ASSUME OwnInv, NEW d \in index, NEW name \in StateNames, NEW f \in IDs
                 PROVE  OwnSnapshot(name, topic[d.offset].cluster_id, f, SnapshotIn(d, name, f))
      BY DEF DocumentsFromOwnCluster, OwnSnapshot
    <2> QED
      BY DEF OwnInv, OwnDocuments, OwnDocument
  <1> QED
    BY <1>1, OwnInvariant, PTL
=============================================================================
