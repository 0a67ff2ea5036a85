-------------------------- MODULE Snapshots_proofs --------------------------
(***************************************************************************)
(* Proofs about the snapshots in Redis, for every stream of messages,      *)
(* number of workers and buffer size, through crashes, signals, rejected   *)
(* items and failed bulk requests: the enrichment of indexed events is     *)
(* never stale, events of excluded users are skipped at every replay, and  *)
(* no hash stays without an expiration.                                    *)
(***************************************************************************)
EXTENDS StoredDocuments_proofs

USE DEF Offsets, Workers

(* The enrichment of indexed events is never stale.                        *)
(*                                                                         *)
(* The faults under which it is claimed: Redis commands succeed, no        *)
(* snapshot expires and the group does not rebalance.                      *)
NoStaleFaults == Faults \cap {"rebalance", "redisWrite", "redisRead", "keyExpiry"} = {}

(* Redis holds, of every state message up to offset a, that snapshot or a  *)
(* later one of the same object.                                           *)
FreshUpTo(a) ==
    \A j \in Offsets : j <= a /\ IsState(topic[j]) => redis[HKey(topic[j])][topic[j].id] >= j

(* The offsets a new process may safely start from, and the enriched       *)
(* events that may be indexed and acknowledged.                            *)
Settled == {a \in 0 .. position : FreshUpTo(a)}
FreshDocuments == {d \in EnrichedEvent : d.offset \in Settled /\ FreshDocument(d)}

ConsumerFresh ==
    /\ pc \in {"process", "expire", "store", "ack"} => cur = position
    /\ pc = "process" => FreshUpTo(position - 1)
    /\ pc \in {"select", "fetch", "expire", "store", "ack"} => FreshUpTo(position)
    /\ pc = "store" => enriched \in FreshDocuments

(* The inductive invariant.  A restart rewinds the reader to the committed *)
(* offset, and replaying older states rewinds the snapshots: that is sound *)
(* because nothing is acknowledged before the states up to it are stored.  *)
FreshInv == PipelineIn(Settled, FreshDocuments) /\ ConsumerFresh /\ EnrichmentFresh

-----------------------------------------------------------------------------
(* Only ProcessState writes to Redis. *)
LEMMA RedisWriter ==
    ASSUME NoStaleFaults, [Next]_vars
    PROVE  UNCHANGED redis \/ ProcessState
  <1> USE DEF snapshotVars
  <1>1. CASE Consumer
    BY <1>1 DEF Consumer, StopConsuming, NotQuit, Fetch, FetchEOF, Discard, UnknownName,
                ProcessStateExpire, Expire, SkipEvent, EnrichEvent, StoreEvent, StorePanics, ackMsg
  <1>2. CASE ProcessStateFails \/ Expiry
    BY <1>2 DEF ProcessStateFails, Expiry, NoStaleFaults
  <1>3. CASE \E w \in Workers : Receive(w) \/ SendBulk(w) \/ Callback(w)
    BY <1>3 DEF Receive, SendBulk, Callback
  <1>4. CASE Committer \/ Signal \/ CloseReader \/ CloseProjection \/ SecondSignal
               \/ Producer \/ NewGeneration \/ UNCHANGED vars
    BY <1>4 DEF Committer, Signal, CloseReader, CloseProjection, SecondSignal,
                Producer, NewGeneration, vars
  <1>5. CASE Exit \/ Crash
    BY <1>5 DEF Exit, Crash, Restart
  <1> QED
    BY <1>1, <1>2, <1>3, <1>4, <1>5 DEF Next

(* HSet replaces a snapshot by that of the last message read. *)
LEMMA HSetFresh ==
    ASSUME TypeOK, ProcessState, NEW a \in Nat, a <= cur,
           \A j \in Offsets : j <= a /\ j # cur /\ IsState(topic[j])
                => redis[HKey(topic[j])][topic[j].id] >= j
    PROVE  FreshUpTo(a)'
  <1>1. UNCHANGED topic /\ cur \in Offsets /\ msg \in Message /\ IsState(msg)
    BY MsgType DEF ProcessState, readerVars
  <1>2. redis' = [redis EXCEPT ![HKey(msg)][msg.id] = cur]
    BY DEF ProcessState, HSet
  <1>3. redis \in [HKeys -> [IDs -> Nat]]
    BY DEF TypeOK, SnapshotTypeOK
  <1>4. HKey(msg) \in HKeys /\ msg.id \in IDs
    BY <1>1, HKeyType
  <1> SUFFICES ASSUME NEW j \in Offsets, j <= a, IsState(topic[j])
               PROVE  redis'[HKey(topic[j])][topic[j].id] >= j
    BY <1>1 DEF FreshUpTo, HKey, getClustersHKey, getHostsHKey, getInfraEnvsHKey
  <1>5. HKey(topic[j]) \in HKeys /\ topic[j].id \in IDs
    BY TopicMessage, HKeyType DEF TypeOK
  <1>6. CASE HKey(topic[j]) = HKey(msg) /\ topic[j].id = msg.id
    <2>1. redis'[HKey(msg)][msg.id] = cur
      BY <1>2, <1>3, <1>4
    <2> QED
      BY <1>1, <1>6, <2>1
  <1>7. CASE ~(HKey(topic[j]) = HKey(msg) /\ topic[j].id = msg.id)
    <2>1. redis'[HKey(topic[j])][topic[j].id] = redis[HKey(topic[j])][topic[j].id]
      BY <1>2, <1>3, <1>4, <1>5, <1>7
    <2>2. j # cur
      BY <1>7 DEF msg
    <2> QED
      BY <2>1, <2>2
  <1> QED
    BY <1>6, <1>7

(* What is settled stays settled. *)
LEMMA FreshStable ==
    ASSUME TypeOK, NoStaleFaults, ConsumerFresh, [Next]_vars, NEW a \in 0 .. position, FreshUpTo(a)
    PROVE  FreshUpTo(a)'
  <1>0. position \in 0 .. Len(topic) /\ Len(topic) \in Nat
    BY DEF TypeOK, ReaderTypeOK
  <1>1. CASE ProcessState
    <2>1. a \in Nat /\ a <= cur
      BY <1>0, <1>1 DEF ProcessState, ConsumerFresh
    <2> QED
      BY <1>1, <2>1, HSetFresh DEF FreshUpTo
  <1>2. CASE UNCHANGED redis
    <2>1. \A j \in Offsets' : j <= a => j \in Offsets /\ topic'[j] = topic[j]
      BY <1>0, TopicGrows
    <2> QED
      BY <1>2, <2>1 DEF FreshUpTo
  <1> QED
    BY <1>1, <1>2, RedisWriter

LEMMA FreshDocumentStable ==
    ASSUME TypeOK, [Next]_vars, NEW d \in EnrichedEvent, FreshDocument(d)
    PROVE  FreshDocument(d)'
  <1>1. d.offset \in Offsets /\ Len(topic) \in Nat
    BY DEF EnrichedEvent, TypeOK, ReaderTypeOK
  <1>2. \A j \in 1 .. d.offset : topic'[j] = topic[j]
    BY <1>1, TopicGrows
  <1> QED
    BY <1>1, <1>2 DEF FreshDocument

(* An event enriched from snapshots that are fresh up to its predecessor.  *)
LEMMA EnrichFresh ==
    ASSUME TypeOK, NEW o \in Offsets, FreshUpTo(o - 1), IsEvent(topic[o])
    PROVE  FreshDocument(GetEnrichedEvent(o, topic[o].cluster_id, {}))
  <1> DEFINE c == topic[o].cluster_id
             d == GetEnrichedEvent(o, c, {})
  <1>1. /\ d.offset = o
        /\ d.cluster = redis[getClustersHKey][c]
        /\ d.hosts = redis[getHostsHKey(c)]
        /\ d.infra_envs = redis[getInfraEnvsHKey(c)]
    BY DEF GetEnrichedEvent, GetCluster, GetHosts, GetInfraEnvs
  <1> SUFFICES ASSUME NEW j \in 1 .. o - 1, IsState(topic[j]), ClusterOf(topic[j]) = c
               PROVE  SnapshotIn(d, topic[j].name, topic[j].id) >= j
    BY <1>1 DEF FreshDocument
  <1>2. redis[HKey(topic[j])][topic[j].id] >= j
    BY DEF FreshUpTo, TypeOK, ReaderTypeOK
  <1>3. topic[j].name \in StateNames
    BY DEF IsState
  <1>4. SnapshotIn(d, topic[j].name, topic[j].id) = redis[HKey(topic[j])][topic[j].id]
    BY <1>1, <1>3 DEF SnapshotIn, HKey, ClusterOf, StateNames
  <1> QED
    BY <1>2, <1>4

-----------------------------------------------------------------------------
LEMMA SettledGrows ==
    ASSUME TypeOK, NoStaleFaults, ConsumerFresh, [Next]_vars, ~(Exit \/ Crash)
    PROVE  Settled \subseteq Settled' /\ FreshDocuments \subseteq FreshDocuments'
  <1>0. position \in Nat
    BY DEF TypeOK, ReaderTypeOK
  <1>1. Settled \subseteq Settled'
    <2> SUFFICES ASSUME NEW a \in Settled PROVE a \in Settled'
      OBVIOUS
    <2>1. a \in 0 .. position /\ FreshUpTo(a)
      BY DEF Settled
    <2>2. FreshUpTo(a)'
      BY <2>1, FreshStable
    <2>3. a \in 0 .. position'
      BY <1>0, <2>1, PositionGrows DEF NoStaleFaults
    <2> QED
      BY <2>2, <2>3 DEF Settled
  <1>2. FreshDocuments \subseteq FreshDocuments'
    <2> SUFFICES ASSUME NEW d \in FreshDocuments PROVE d \in FreshDocuments'
      OBVIOUS
    <2>1. d \in EnrichedEvent /\ d.offset \in Settled /\ FreshDocument(d)
      BY DEF FreshDocuments
    <2> QED
      BY <1>1, <2>1, EnrichedEventGrows, FreshDocumentStable DEF FreshDocuments
  <1> QED
    BY <1>1, <1>2

LEMMA ZeroSettled == ASSUME TypeOK PROVE 0 \in Settled
  BY DEF TypeOK, ReaderTypeOK, Settled, FreshUpTo

-----------------------------------------------------------------------------
(* What travels to the broker is settled. *)
LEMMA PipelineFresh ==
    ASSUME TypeOK, TypeOK', NoStaleFaults, FreshInv, [Next]_vars
    PROVE  PipelineIn(Settled, FreshDocuments)'
  <1>0. PipelineIn(Settled, FreshDocuments) /\ ConsumerFresh
    BY DEF FreshInv
  <1>1. CASE Exit \/ Crash
    <2>1. /\ UNCHANGED committed /\ stash' = 0 /\ ackChannel' = <<>> /\ queue' = <<>>
          /\ buffer' = [w \in Workers |-> <<>>] /\ callbacks' = [w \in Workers |-> <<>>]
          /\ position' = committed
      BY <1>1 DEF Exit, Crash, Restart, ReaderRestart, RepositoryRestart
    <2>2. committed \in 0 .. position /\ FreshUpTo(committed)
      BY <1>0 DEF PipelineIn, Settled
    <2>3. FreshUpTo(committed)'
      <3>1. PICK a : a = committed
        OBVIOUS
      <3>2. FreshUpTo(a)'
        BY <1>0, <2>2, <3>1, FreshStable
      <3> QED
        BY <2>1, <3>1, <3>2 DEF FreshUpTo
    <2>4. committed' \in Settled'
      BY <2>1, <2>2, <2>3 DEF Settled, TypeOK, ReaderTypeOK
    <2>5. 0 \in Settled'
      BY DEF TypeOK, ReaderTypeOK, Settled, FreshUpTo
    <2> QED
      BY <2>1, <2>4, <2>5 DEF PipelineIn
  <1>2. CASE ~(Exit \/ Crash)
    <2>1. PICK A, D : A = Settled /\ D = FreshDocuments
      OBVIOUS
    <2>2. 0 \in A /\ (\A d \in D : d.offset \in A)
      BY <2>1, ZeroSettled DEF FreshDocuments
    <2>3. pc = "ack" => cur \in A
      BY <1>0, <2>1 DEF ConsumerFresh, Settled, TypeOK, ReaderTypeOK
    <2>4. pc = "store" => enriched \in D
      BY <1>0, <2>1 DEF ConsumerFresh
    <2>5. PipelineIn(A, D)'
      BY <1>0, <2>1, <2>2, <2>3, <2>4, PipelineStep
    <2>6. A \subseteq Settled' /\ D \subseteq FreshDocuments'
      BY <1>0, <1>2, <2>1, SettledGrows
    <2>7. Seq(A) \subseteq Seq(Settled') /\ Seq(D) \subseteq Seq(FreshDocuments')
      BY <2>6, SeqMonotone
    <2> QED
      BY <2>5, <2>6, <2>7 DEF PipelineIn
  <1> QED
    BY <1>1, <1>2

(* The consumer passes an offset only after the state at it is in Redis. *)
LEMMA PassStateless ==
    ASSUME TypeOK, UNCHANGED <<topic, position, redis>>, position > 0,
           FreshUpTo(position - 1), ~IsState(topic[position])
    PROVE  FreshUpTo(position)'
  <1>1. \A j \in Offsets : j <= position /\ j # position => j <= position - 1
    BY DEF TypeOK, ReaderTypeOK
  <1> QED
    BY <1>1 DEF FreshUpTo

LEMMA ConsumerStepFresh ==
    ASSUME TypeOK, TypeOK', NoStaleFaults, FreshInv, Consumer
    PROVE  ConsumerFresh'
  <1> USE DEF readerVars, snapshotVars
  <1>0. ConsumerFresh /\ position \in Nat
    BY DEF FreshInv, TypeOK, ReaderTypeOK
  <1>1. CASE StopConsuming \/ NotQuit \/ FetchEOF \/ StorePanics \/ StoreEvent
    <2>1. /\ UNCHANGED <<topic, position, redis>>
          /\ pc' = "exit" \/ (pc' \in {"select", "fetch"} /\ pc \in {"select", "store"})
      BY <1>1 DEF StopConsuming, NotQuit, FetchEOF, StorePanics, StoreEvent, Return
    <2> QED
      BY <1>0, <2>1 DEF ConsumerFresh, FreshUpTo
  <1>2. CASE Fetch
    <2>1. /\ UNCHANGED <<topic, redis>> /\ position' = position + 1
          /\ cur' = position' /\ pc' = "process" /\ pc = "fetch"
      BY <1>2 DEF Fetch, FetchMessage
    <2>2. FreshUpTo(position)
      BY <1>0, <2>1 DEF ConsumerFresh
    <2>3. FreshUpTo(position - 1)'
      BY <1>0, <2>1, <2>2 DEF FreshUpTo
    <2> QED
      BY <2>1, <2>3 DEF ConsumerFresh
  <1>3. CASE Discard \/ UnknownName \/ SkipEvent
    <2>1. /\ UNCHANGED <<topic, position, redis>> /\ pc = "process" /\ ~IsState(msg)
          /\ \/ pc' = "ack" /\ cur' = cur
             \/ pc' \in {"select", "exit"}
      BY <1>3 DEF Discard, UnknownName, SkipEvent, Owe, Return, IsState, IsEvent, StateNames
    <2>2. cur = position /\ FreshUpTo(position - 1) /\ position > 0
      BY <1>0, <2>1, MsgType DEF ConsumerFresh
    <2>3. FreshUpTo(position)'
      BY <2>1, <2>2, PassStateless DEF msg
    <2> QED
      BY <2>1, <2>2, <2>3 DEF ConsumerFresh
  <1>4. CASE ProcessState
    <2>1. /\ UNCHANGED <<topic, position, cur>> /\ pc = "process" /\ pc' = "expire"
      BY <1>4 DEF ProcessState
    <2>2. cur = position /\ FreshUpTo(position - 1)
      BY <1>0, <2>1 DEF ConsumerFresh
    <2>3. \A j \in Offsets : j <= position /\ j # cur => j <= position - 1
      BY <1>0, <2>2
    <2>4. PICK a : a = position
      OBVIOUS
    <2>5. FreshUpTo(a)'
      <3>1. a \in Nat /\ a <= cur
        BY <1>0, <2>2, <2>4
      <3>2. \A j \in Offsets : j <= a /\ j # cur /\ IsState(topic[j])
                => redis[HKey(topic[j])][topic[j].id] >= j
        BY <2>2, <2>3, <2>4 DEF FreshUpTo
      <3> QED
        BY <1>4, <3>1, <3>2, HSetFresh
    <2>6. FreshUpTo(position)'
      BY <2>1, <2>4, <2>5 DEF FreshUpTo
    <2> QED
      BY <2>1, <2>2, <2>6 DEF ConsumerFresh
  <1>5. CASE ProcessStateExpire \/ ackMsg
    <2>1. /\ UNCHANGED <<topic, position, redis>> /\ pc \in {"expire", "ack"}
          /\ \/ pc' = "ack" /\ cur' = cur
             \/ pc' \in {"select", "exit"}
      BY <1>5 DEF ProcessStateExpire, Expire, Owe, ackMsg, Return
    <2> QED
      BY <1>0, <2>1 DEF ConsumerFresh, FreshUpTo
  <1>6. CASE EnrichEvent
    <2>1. /\ UNCHANGED <<topic, position, redis, cur>> /\ pc = "process" /\ pc' = "store"
          /\ IsEvent(msg)
      BY <1>6 DEF EnrichEvent
    <2>2. /\ cur = position /\ FreshUpTo(position - 1) /\ position > 0 /\ cur \in Offsets
          /\ ~IsState(msg)
      BY <1>0, <2>1, MsgType DEF ConsumerFresh, IsEvent, IsState, StateNames
    <2>3. FreshUpTo(position)'
      BY <2>1, <2>2, PassStateless DEF msg
    <2>4. enriched' = GetEnrichedEvent(cur, msg.cluster_id, {})
      BY <1>6 DEF EnrichEvent, FailedReads, NoStaleFaults
    <2>5. FreshDocument(enriched')
      <3>1. PICK d : d = enriched'
        OBVIOUS
      <3>2. FreshDocument(d)
        BY <2>1, <2>2, <2>4, <3>1, EnrichFresh DEF msg
      <3> QED
        BY <3>1, <3>2 DEF FreshDocument
    <2>6. FreshDocument(enriched)'
      BY <2>1, <2>5 DEF FreshDocument
    <2>7. enriched' \in EnrichedEvent' /\ enriched'.offset = position'
      <3>1. enriched' \in EnrichedEvent'
        BY <2>1 DEF TypeOK, ConsumerTypeOK
      <3> QED
        BY <2>1, <2>2, <2>4, <3>1 DEF GetEnrichedEvent
    <2>8. enriched' \in FreshDocuments'
      BY <1>0, <2>1, <2>3, <2>6, <2>7 DEF FreshDocuments, Settled
    <2> QED
      BY <2>1, <2>2, <2>3, <2>8 DEF ConsumerFresh
  <1> QED
    BY <1>1, <1>2, <1>3, <1>4, <1>5, <1>6 DEF Consumer

LEMMA ConsumerStaysFresh ==
    ASSUME TypeOK, TypeOK', NoStaleFaults, FreshInv, [Next]_vars
    PROVE  ConsumerFresh'
  <1> USE DEF readerVars, snapshotVars
  <1>0. ConsumerFresh
    BY DEF FreshInv
  <1>1. CASE Consumer
    BY <1>1, ConsumerStepFresh
  <1>2. CASE ProcessStateFails \/ Expiry \/ NewGeneration
    BY <1>2 DEF ProcessStateFails, Expiry, NewGeneration, Rebalance, NoStaleFaults
  <1>3. CASE /\ ~(Exit \/ Crash)
             /\ \/ Committer \/ Signal \/ CloseReader \/ CloseProjection \/ Producer
                \/ (\E w \in Workers : Receive(w) \/ SendBulk(w) \/ Callback(w)) \/ UNCHANGED vars
    <2>1. UNCHANGED <<position, redis, consumerVars>>
      BY <1>3 DEF Committer, ListenForCommit, CommitTick, Signal, CloseQuitChannel, CloseReader,
                  CloseKafkaReader, CloseProjection, Producer, Produce, Receive, SendBulk,
                  Callback, vars
    <2>2. position \in 0 .. Len(topic) /\ Len(topic) \in Nat
      BY DEF TypeOK, ReaderTypeOK
    <2>3. \A j \in Offsets' : j <= position => j \in Offsets /\ topic'[j] = topic[j]
      BY <2>2, TopicGrows
    <2>4. FreshUpTo(position - 1) => FreshUpTo(position - 1)'
      <3>1. \A j \in Offsets' : j <= position - 1 => j <= position
        BY <2>2
      <3> QED
        BY <2>1, <2>3, <3>1 DEF FreshUpTo
    <2>5. FreshUpTo(position) => FreshUpTo(position)'
      BY <2>1, <2>2, <2>3 DEF FreshUpTo
    <2>6. enriched \in FreshDocuments => enriched' \in FreshDocuments'
      BY <1>0, <1>3, <2>1, SettledGrows DEF consumerVars
    <2> QED
      BY <1>0, <2>1, <2>4, <2>5, <2>6 DEF ConsumerFresh, consumerVars
  <1>4. CASE SecondSignal
    BY <1>4 DEF SecondSignal, Return, ConsumerFresh
  <1>5. CASE Exit \/ Crash
    <2>1. /\ UNCHANGED <<topic, redis, committed>> /\ position' = committed /\ pc' = "select"
      BY <1>5 DEF Exit, Crash, Restart, ReaderRestart, Return
    <2>2. FreshUpTo(committed)
      BY DEF FreshInv, PipelineIn, Settled
    <2> QED
      BY <2>1, <2>2 DEF ConsumerFresh, FreshUpTo
  <1> QED
    BY <1>1, <1>2, <1>3, <1>4, <1>5 DEF Next

(* A bulk request only adds documents from the buffer. *)
LEMMA IndexStaysFresh ==
    ASSUME TypeOK, NoStaleFaults, FreshInv, [Next]_vars
    PROVE  EnrichmentFresh'
  <1> USE DEF bulkVars
  <1>1. \A d \in index : d \in EnrichedEvent /\ FreshDocument(d)
    BY DEF FreshInv, EnrichmentFresh, TypeOK, RepositoryTypeOK
  <1>2. ASSUME NEW w \in Workers, SendBulk(w)
        PROVE  \A d \in index' : d \in EnrichedEvent /\ FreshDocument(d)
    <2>1. PICK applied \in SUBSET DOMAIN buffer[w] : index' = Indexed(buffer[w], applied)
      BY <1>2 DEF SendBulk, Flush, FlushFails
    <2>2. \A i \in applied : buffer[w][i] \in FreshDocuments
      BY DEF FreshInv, PipelineIn
    <2>3. \A i \in applied : buffer[w][i] \in EnrichedEvent /\ FreshDocument(buffer[w][i])
      BY <2>2 DEF FreshDocuments
    <2>4. \A d \in index' : d \in index \/ \E i \in applied : d = buffer[w][i]
      BY <2>1 DEF Indexed
    <2> QED
      BY <1>1, <2>3, <2>4
  <1>3. \A d \in index' : d \in EnrichedEvent /\ FreshDocument(d)
    BY <1>1, <1>2, IndexWriter
  <1> QED
    BY <1>3, FreshDocumentStable DEF EnrichmentFresh

LEMMA InitFreshInv == Init => FreshInv
  <1> SUFFICES ASSUME Init PROVE FreshInv
    OBVIOUS
  <1>1. TypeOK
    BY InitTypeOK
  <1>2. FreshUpTo(0) /\ 0 \in Settled
    BY <1>1, ZeroSettled DEF Settled
  <1>3. PipelineIn(Settled, FreshDocuments)
    BY <1>2 DEF Init, ReaderInit, RepositoryInit, PipelineIn
  <1> QED
    BY <1>2, <1>3 DEF FreshInv, Init, ReaderInit, RepositoryInit, ConsumerFresh, EnrichmentFresh

(* Without rebalances and Redis failures an indexed event never carries a  *)
(* snapshot older than the states before it in the topic, however often    *)
(* the process crashes, is shut down and replays what was not committed.   *)
THEOREM EnrichmentNeverStale ==
    ASSUME NoStaleFaults
    PROVE  Spec => []EnrichmentFresh
  <1>1. Init => FreshInv
    BY InitFreshInv
  <1>2. TypeOK /\ TypeOK' /\ FreshInv /\ [Next]_vars => FreshInv'
    BY PipelineFresh, ConsumerStaysFresh, IndexStaysFresh DEF FreshInv
  <1>3. FreshInv => EnrichmentFresh
    BY DEF FreshInv
  <1> QED
    BY <1>1, <1>2, <1>3, TypeCorrect, PTL DEF Spec

-----------------------------------------------------------------------------
(* A bulk request leaves one document per ID and index. *)
Unique == \A d, e \in index : SameDocument(d, e) => d = e

LEMMA IndexedUnique ==
    ASSUME TypeOK, Unique, NEW w \in Workers, NEW applied \in SUBSET DOMAIN buffer[w],
           NEW d \in Indexed(buffer[w], applied), NEW e \in Indexed(buffer[w], applied),
           SameDocument(d, e)
    PROVE  d = e
  <1> DEFINE items == buffer[w]
             Old(x) == x \in index /\ \A i \in applied : ~SameDocument(x, items[i])
             New(x, i) == x = items[i] /\ \A j \in applied : j > i => ~SameDocument(items[i], items[j])
  <1>1. \A x \in {d, e} : Old(x) \/ \E i \in applied : New(x, i)
    BY DEF Indexed
  <1>2. SameDocument(e, d)
    BY DEF SameDocument
  <1>3. CASE Old(d) /\ Old(e)
    BY <1>3 DEF Unique
  <1>4. CASE Old(d) /\ \E i \in applied : New(e, i)
    BY <1>4
  <1>5. CASE Old(e) /\ \E i \in applied : New(d, i)
    BY <1>2, <1>5
  <1>6. ASSUME NEW i \in applied, NEW j \in applied, New(d, i), New(e, j)
        PROVE  d = e
    <2>1. i \in Nat /\ j \in Nat
      BY DEF TypeOK, RepositoryTypeOK
    <2>2. ~(j > i) /\ ~(i > j)
      BY <1>2, <1>6
    <2> QED
      BY <1>6, <2>1, <2>2
  <1> QED
    BY <1>1, <1>3, <1>4, <1>5, <1>6

(* The snapshot of the cluster in a document is a message of the topic. *)
LEMMA OwnCluster ==
    ASSUME TypeOK, NEW d \in OwnDocuments
    PROVE  /\ topic[d.offset].cluster_id \in IDs
           /\ OwnSnapshot("ClusterState", topic[d.offset].cluster_id,
                          topic[d.offset].cluster_id, d.cluster)
  <1>1. d \in EnrichedEvent /\ OwnDocument(d)
    BY DEF OwnDocuments
  <1>2. topic[d.offset].cluster_id \in IDs
    BY <1>1, TopicMessage DEF TypeOK, OwnDocument, IsEvent, WellFormed, Message, EnrichedEvent
  <1>3. SnapshotIn(d, "ClusterState", topic[d.offset].cluster_id) = d.cluster
    BY DEF SnapshotIn
  <1> QED
    BY <1>1, <1>2, <1>3 DEF OwnDocument, StateNames

LEMMA UniqueInvariant == Spec => []Unique
  <1>1. Init => Unique
    BY DEF Init, RepositoryInit, Unique
  <1>2. ASSUME TypeOK, OwnInv, Unique, [Next]_vars PROVE Unique'
    <2>1. CASE UNCHANGED index
      <3>1. \A d \in index : /\ topic'[d.offset] = topic[d.offset]
                             /\ d.cluster # 0 => topic'[d.cluster] = topic[d.cluster]
        <4> SUFFICES ASSUME NEW d \in index
                     PROVE  d.offset \in Offsets /\ (d.cluster # 0 => d.cluster \in Offsets)
          BY <1>2, TopicGrows
        <4>1. d \in OwnDocuments
          BY <1>2 DEF OwnInv
        <4> QED
          BY <1>2, <4>1, OwnCluster DEF OwnDocuments, EnrichedEvent, OwnSnapshot
      <3> QED
        BY <1>2, <2>1, <3>1 DEF Unique, SameDocument, DocumentID, getIndexName
    <2>2. ASSUME NEW w \in Workers, SendBulk(w) PROVE Unique'
      <3>1. PICK applied \in SUBSET DOMAIN buffer[w] : index' = Indexed(buffer[w], applied)
        BY <2>2 DEF SendBulk, Flush, FlushFails
      <3>2. UNCHANGED topic
        BY <2>2 DEF SendBulk, readerVars
      <3>3. \A d, e \in index' : SameDocument(d, e) => d = e
        BY <1>2, <3>1, IndexedUnique
      <3> QED
        BY <3>2, <3>3 DEF Unique, SameDocument, DocumentID, getIndexName
    <2> QED
      BY <1>2, <2>1, <2>2, IndexWriter
  <1> QED
    BY <1>1, <1>2, TypeCorrect, OwnInvariant, PTL DEF Spec

(* An event that follows a state of its cluster is never in two indices,   *)
(* however often it is replayed: a fresh copy was enriched with some state *)
(* of the cluster, and they agree on where it goes.                        *)
THEOREM ReplaysGoToOneIndex ==
    ASSUME NoStaleFaults
    PROVE  Spec => []OneIndexPerEvent
  <1>1. TypeOK /\ OwnInv /\ Unique /\ EnrichmentFresh => OneIndexPerEvent
    <2> SUFFICES ASSUME TypeOK, OwnInv, Unique, EnrichmentFresh,
                        NEW d \in index, NEW e \in index, d.offset = e.offset,
                        NEW j \in 1 .. d.offset - 1, topic[j].name = "ClusterState",
                        topic[j].id = topic[d.offset].cluster_id,
                        \A h, i \in Offsets :
                            /\ topic[h].name = "ClusterState" /\ topic[i].name = "ClusterState"
                            /\ topic[h].id = topic[d.offset].cluster_id
                            /\ topic[i].id = topic[d.offset].cluster_id
                            => topic[h].onprem = topic[i].onprem
                 PROVE  d = e
      BY DEF OneIndexPerEvent
    <2> DEFINE c == topic[d.offset].cluster_id
    <2>1. ASSUME NEW x \in {d, e}
          PROVE  x.cluster \in Offsets /\ topic[x.cluster].name = "ClusterState"
                   /\ topic[x.cluster].id = c
      <3>1. x \in EnrichedEvent /\ OwnDocument(x) /\ FreshDocument(x) /\ x.offset = d.offset
        BY <2>1 DEF OwnInv, OwnDocuments, EnrichmentFresh
      <3>2. c \in IDs
        BY <3>1, TopicMessage DEF TypeOK, OwnDocument, IsEvent, WellFormed, Message, EnrichedEvent
      <3>3. IsState(topic[j]) /\ ClusterOf(topic[j]) = c
        BY <3>2, MessagesAssumption DEF IsState, WellFormed, StateNames, ClusterOf
      <3>4. SnapshotIn(x, "ClusterState", c) = x.cluster
        BY DEF SnapshotIn
      <3>5. x.cluster >= j
        BY <3>1, <3>3, <3>4 DEF FreshDocument
      <3>6. x.cluster # 0
        BY <3>1, <3>5 DEF EnrichedEvent
      <3>7. OwnSnapshot("ClusterState", c, c, x.cluster)
        BY <3>1, <3>2, <3>4 DEF OwnDocument, StateNames
      <3> QED
        BY <3>6, <3>7 DEF OwnSnapshot
    <2>2. topic[d.cluster].onprem = topic[e.cluster].onprem
      BY <2>1
    <2>3. d.cluster # 0 /\ e.cluster # 0
      BY <2>1 DEF TypeOK, ReaderTypeOK
    <2>4. SameDocument(d, e)
      BY <2>2, <2>3 DEF SameDocument, DocumentID, getIndexName
    <2> QED
      BY <2>4 DEF Unique
  <1> QED
    BY <1>1, TypeCorrect, OwnInvariant, UniqueInvariant, EnrichmentNeverStale, PTL

-----------------------------------------------------------------------------
(* The documents whose cluster snapshot does not name an excluded user. *)
KeptDocuments == {d \in OwnDocuments : ~skipEvent(d.cluster)}

(* The inductive invariant: ProcessClusterEvent stores no other ones. *)
KeptInv ==
    /\ PipelineIn(0 .. Len(topic), KeptDocuments)
    /\ pc = "store" => enriched \in KeptDocuments
    /\ index \subseteq KeptDocuments

LEMMA KeptDocumentsGrow ==
    ASSUME TypeOK, [Next]_vars
    PROVE  KeptDocuments \subseteq KeptDocuments'
  <1> SUFFICES ASSUME NEW d \in KeptDocuments PROVE d \in KeptDocuments'
    OBVIOUS
  <1>1. d \in OwnDocuments /\ ~skipEvent(d.cluster)
    BY DEF KeptDocuments
  <1>2. d.cluster # 0 => topic'[d.cluster] = topic[d.cluster]
    BY <1>1, OwnCluster, TopicGrows DEF OwnSnapshot
  <1>3. ~skipEvent(d.cluster)'
    BY <1>1, <1>2 DEF skipEvent
  <1> QED
    BY <1>1, <1>3, OwnDocumentsGrow DEF KeptDocuments

LEMMA NextKeptInv ==
    ASSUME TypeOK, TypeOK', OwnInv, OwnInv', KeptInv, [Next]_vars
    PROVE  KeptInv'
  <1>1. KeptDocuments \subseteq KeptDocuments'
    BY KeptDocumentsGrow
  <1>2. PipelineIn(0 .. Len(topic), KeptDocuments)'
    <2>1. PICK A, D : A = 0 .. Len(topic) /\ D = KeptDocuments
      OBVIOUS
    <2>2. 0 \in A /\ (\A d \in D : d.offset \in A)
      BY <2>1 DEF KeptDocuments, OwnDocuments, EnrichedEvent, TypeOK, ReaderTypeOK
    <2>3. (pc = "ack" => cur \in A) /\ (pc = "store" => enriched \in D)
      BY <2>1 DEF KeptInv, TypeOK, ConsumerTypeOK
    <2>4. PipelineIn(A, D)'
      BY <2>1, <2>2, <2>3, PipelineStep DEF KeptInv
    <2>5. A \subseteq 0 .. Len(topic') /\ D \subseteq KeptDocuments'
      BY <1>1, <2>1, TopicGrows DEF TypeOK, ReaderTypeOK
    <2>6. Seq(A) \subseteq Seq(0 .. Len(topic')) /\ Seq(D) \subseteq Seq(KeptDocuments')
      BY <2>5, SeqMonotone
    <2> QED
      BY <2>4, <2>5, <2>6 DEF PipelineIn
  <1>3. pc' = "store" => enriched' \in KeptDocuments'
    <2>1. CASE EnrichEvent
      <3>1. PICK fails : /\ ~skipEvent(GetCluster(msg.cluster_id, "cluster" \in fails))
                         /\ enriched' = GetEnrichedEvent(cur, msg.cluster_id, fails)
        BY <2>1 DEF EnrichEvent
      <3>2. ~skipEvent(enriched'.cluster) /\ UNCHANGED topic /\ pc' = "store"
        BY <2>1, <3>1 DEF EnrichEvent, GetEnrichedEvent, readerVars
      <3>3. enriched' \in OwnDocuments'
        BY <3>2 DEF OwnInv
      <3> QED
        BY <3>2, <3>3 DEF KeptDocuments, skipEvent
    <2>2. CASE UNCHANGED <<pc, enriched>>
      BY <1>1, <2>2 DEF KeptInv
    <2> QED
      BY <2>1, <2>2, EnrichedSteps
  <1>4. index' \subseteq KeptDocuments'
    <2>1. ASSUME NEW w \in Workers, SendBulk(w) PROVE index' \subseteq KeptDocuments
      <3>1. PICK applied \in SUBSET DOMAIN buffer[w] : index' = Indexed(buffer[w], applied)
        BY <2>1 DEF SendBulk, Flush, FlushFails
      <3>2. \A i \in applied : buffer[w][i] \in KeptDocuments
        BY DEF KeptInv, PipelineIn
      <3> QED
        BY <3>1, <3>2 DEF Indexed, KeptInv
    <2> QED
      BY <1>1, <2>1, IndexWriter DEF KeptInv
  <1> QED
    BY <1>2, <1>3, <1>4 DEF KeptInv

(* An event that follows a state of its cluster is indexed only if some    *)
(* state of the cluster names a user who is not excluded, however often    *)
(* the unacknowledged event is read again: ProcessClusterEvent never meets *)
(* it without a snapshot of the cluster.                                   *)
THEOREM ExcludedStaySkipped ==
    ASSUME NoStaleFaults
    PROVE  Spec => []ExcludedNeverIndexed
  <1>1. Init => KeptInv
    <2> SUFFICES ASSUME Init PROVE KeptInv
      OBVIOUS
    <2>1. 0 \in 0 .. Len(topic)
      BY InitTypeOK DEF TypeOK, ReaderTypeOK
    <2> QED
      BY <2>1 DEF Init, ReaderInit, RepositoryInit, KeptInv, PipelineIn
  <1>2. TypeOK /\ TypeOK' /\ OwnInv /\ OwnInv' /\ KeptInv /\ [Next]_vars => KeptInv'
    BY NextKeptInv
  <1>3. TypeOK /\ KeptInv /\ EnrichmentFresh => ExcludedNeverIndexed
    <2> SUFFICES ASSUME TypeOK, KeptInv, EnrichmentFresh, NEW d \in index,
                        NEW j \in 1 .. d.offset - 1, topic[j].name = "ClusterState",
                        topic[j].id = topic[d.offset].cluster_id
                 PROVE  /\ d.cluster \in Offsets /\ topic[d.cluster].name = "ClusterState"
                        /\ topic[d.cluster].id = topic[d.offset].cluster_id
                        /\ topic[d.cluster].user_name \notin ExcludedUserNames
      BY DEF ExcludedNeverIndexed
    <2> DEFINE c == topic[d.offset].cluster_id
    <2>1. d \in OwnDocuments /\ ~skipEvent(d.cluster) /\ FreshDocument(d)
      BY DEF KeptInv, KeptDocuments, EnrichmentFresh
    <2>2. c \in IDs /\ OwnSnapshot("ClusterState", c, c, d.cluster)
      BY <2>1, OwnCluster
    <2>3. IsState(topic[j]) /\ ClusterOf(topic[j]) = c
      BY <2>2, MessagesAssumption DEF IsState, WellFormed, StateNames, ClusterOf
    <2>4. SnapshotIn(d, "ClusterState", c) = d.cluster
      BY DEF SnapshotIn
    <2>5. d.cluster >= j
      BY <2>1, <2>3, <2>4 DEF FreshDocument
    <2>6. d.cluster # 0
      BY <2>1, <2>5 DEF OwnDocuments, EnrichedEvent
    <2> QED
      BY <2>1, <2>2, <2>6 DEF OwnSnapshot, skipEvent
  <1> QED
    BY <1>1, <1>2, <1>3, TypeCorrect, OwnInvariant, EnrichmentNeverStale, PTL DEF Spec

-----------------------------------------------------------------------------
(* A Redis hash never stays without an expiration, though hset is two      *)
(* commands and the process may end between them: the message that wrote   *)
(* the hash is not acknowledged yet, so the next process meets it again    *)
(* and runs both.                                                          *)
(*                                                                         *)
(* The faults under which it is claimed: the message of a failed command   *)
(* is acknowledged without its Expire, and after a rebalance an            *)
(* acknowledgement of the same message may still be on its way.            *)
NoExpiryFaults == Faults \cap {"rebalance", "redisWrite"} = {}

(* The last message whose processing may have led to an acknowledgement.   *)
LastHandled == IF pc \in {"process", "expire"} THEN position - 1 ELSE position

(* The consumer works on the last message it read, and nothing beyond      *)
(* LastHandled is in the indexer or on its way to the broker.              *)
ReadInv ==
    /\ pc \in {"process", "expire", "store", "ack"} => cur = position
    /\ PipelineIn(0 .. LastHandled, DocumentsBelow(LastHandled + 1))
    /\ pc = "store" => enriched \in DocumentsBelow(position + 1)

(* The message at offset o is still to be processed to its end: nothing in *)
(* the pipeline reaches it, and if it was read, the consumer is at one of  *)
(* its two commands or the process is ending.                              *)
Pending(o) ==
    /\ PipelineIn(0 .. o - 1, DocumentsBelow(o))
    /\ position <= o
    /\ position = o => pc \in {"process", "expire", "exit"}

(* The inductive invariant. *)
PendingInv ==
    \A k \in HKeys : redis[k] # EmptyHash /\ ~ttl[k] =>
        \E o \in Offsets : IsState(topic[o]) /\ HKey(topic[o]) = k /\ Pending(o)

-----------------------------------------------------------------------------
LEMMA HandledType ==
    ASSUME TypeOK, ReadInv
    PROVE  position \in Nat /\ LastHandled \in Nat /\ LastHandled <= position
  BY MsgType DEF TypeOK, ReaderTypeOK, ReadInv, LastHandled

LEMMA BelowMonotone ==
    ASSUME NEW a \in Nat, NEW b \in Nat, a <= b
    PROVE  /\ 0 .. a \subseteq 0 .. b
           /\ Seq(0 .. a) \subseteq Seq(0 .. b)
           /\ DocumentsBelow(a + 1) \subseteq DocumentsBelow(b + 1)
           /\ Seq(DocumentsBelow(a + 1)) \subseteq Seq(DocumentsBelow(b + 1))
  <1>1. 0 .. a \subseteq 0 .. b /\ 0 .. (a + 1) - 1 \subseteq 0 .. (b + 1) - 1
    OBVIOUS
  <1>2. DocumentsBelow(a + 1) \subseteq DocumentsBelow(b + 1)
    BY <1>1 DEF DocumentsBelow
  <1> QED
    BY <1>1, <1>2, SeqMonotone

(* What a step does to the consumer, unless it restarts the process. *)
LEMMA ConsumerMoves ==
    ASSUME NoExpiryFaults, [Next]_vars, ~(Exit \/ Crash)
    PROVE  \/ UNCHANGED <<pc, cur, position, enriched>>
           \/ pc = "fetch" /\ pc' = "process" /\ position' = position + 1 /\ cur' = position'
           \/ ProcessState \/ ProcessStateExpire \/ EnrichEvent
           \/ UNCHANGED position /\ pc' = "exit"
           \/ /\ UNCHANGED position
              /\ pc \in {"select", "store", "ack"} \/ (pc = "process" /\ ~IsState(msg))
              /\ pc' \in {"select", "fetch"} \/ (pc' = "ack" /\ pc # "select" /\ cur' = cur)
  <1> USE DEF readerVars
  <1>1. CASE Fetch
    BY <1>1 DEF Fetch, FetchMessage
  <1>2. CASE StopConsuming \/ NotQuit \/ FetchEOF \/ UnknownName \/ StoreEvent \/ StorePanics
    BY <1>2 DEF StopConsuming, NotQuit, FetchEOF, UnknownName, StoreEvent, StorePanics, Return
  <1>3. CASE Discard \/ SkipEvent
    BY <1>3 DEF Discard, SkipEvent, Owe, Return, IsState, IsEvent, StateNames
  <1>4. CASE ackMsg
    BY <1>4 DEF ackMsg, Return
  <1>5. CASE ProcessStateFails \/ NewGeneration
    BY <1>5 DEF ProcessStateFails, NewGeneration, Rebalance, NoExpiryFaults
  <1>6. CASE \E w \in Workers : Receive(w) \/ SendBulk(w) \/ Callback(w)
    BY <1>6 DEF Receive, SendBulk, Callback, consumerVars
  <1>7. CASE Committer \/ Signal \/ CloseReader \/ CloseProjection \/ Producer \/ Expiry
               \/ UNCHANGED vars
    BY <1>7 DEF Committer, ListenForCommit, CommitTick, Signal, CloseQuitChannel, CloseReader,
                CloseKafkaReader, CloseProjection, Producer, Produce, Expiry, vars, consumerVars
  <1>8. CASE SecondSignal
    BY <1>8 DEF SecondSignal, Return
  <1> QED
    BY <1>1, <1>2, <1>3, <1>4, <1>5, <1>6, <1>7, <1>8 DEF Next, Consumer

LEMMA NextReadInv ==
    ASSUME TypeOK, TypeOK', NoExpiryFaults, ReadInv, [Next]_vars
    PROVE  ReadInv'
  <1>0. position \in Nat /\ LastHandled \in Nat /\ LastHandled <= position
    BY HandledType
  <1>1. CASE Exit \/ Crash
    <2>1. /\ UNCHANGED committed /\ stash' = 0 /\ ackChannel' = <<>> /\ queue' = <<>>
          /\ buffer' = [w \in Workers |-> <<>>] /\ callbacks' = [w \in Workers |-> <<>>]
          /\ position' = committed /\ pc' = "select"
      BY <1>1 DEF Exit, Crash, Restart, ReaderRestart, RepositoryRestart, Return
    <2>2. committed \in Nat
      BY DEF TypeOK, ReaderTypeOK
    <2>3. LastHandled' = committed /\ committed \in 0 .. committed /\ 0 \in 0 .. committed
      BY <2>1, <2>2 DEF LastHandled
    <2>4. PipelineIn(0 .. LastHandled, DocumentsBelow(LastHandled + 1))'
      BY <2>1, <2>3 DEF PipelineIn
    <2> QED
      BY <2>1, <2>4 DEF ReadInv
  <1>2. CASE ~(Exit \/ Crash)
    <2>1. pc' \in {"process", "expire", "store", "ack"} => cur' = position'
      BY <1>2, ConsumerMoves
      DEF ReadInv, ProcessState, ProcessStateExpire, EnrichEvent, Owe, readerVars
    <2>2. LastHandled' \in Nat /\ LastHandled <= LastHandled'
      <3>1. \/ position' = position /\ (pc' \in {"process", "expire"} => pc \in {"process", "expire"})
            \/ pc = "fetch" /\ pc' = "process" /\ position' = position + 1
        BY <1>2, ConsumerMoves DEF ProcessState, ProcessStateExpire, EnrichEvent, Owe, readerVars
      <3> QED
        BY <1>0, <3>1 DEF LastHandled
    <2>3. PICK a : a = LastHandled
      OBVIOUS
    <2>4. PipelineIn(0 .. a, DocumentsBelow(a + 1))'
      <3>1. PICK A, D : A = 0 .. a /\ D = DocumentsBelow(a + 1)
        OBVIOUS
      <3>2. 0 \in A /\ PipelineIn(A, D) /\ \A d \in D : d.offset \in A
        BY <1>0, <2>3, <3>1 DEF ReadInv, DocumentsBelow
      <3>3. pc = "ack" => cur \in A
        BY <1>0, <2>3, <3>1 DEF ReadInv, LastHandled
      <3>4. pc = "store" => enriched \in D
        BY <2>3, <3>1 DEF ReadInv, LastHandled
      <3>5. PipelineIn(A, D)'
        BY <3>2, <3>3, <3>4, PipelineStep
      <3> QED
        BY <3>1, <3>5 DEF PipelineIn, DocumentsBelow
    <2>5. PipelineIn(0 .. LastHandled, DocumentsBelow(LastHandled + 1))'
      <3>1. PICK b : b = LastHandled'
        OBVIOUS
      <3>2. /\ 0 .. a \subseteq 0 .. b /\ Seq(0 .. a) \subseteq Seq(0 .. b)
            /\ Seq(DocumentsBelow(a + 1)) \subseteq Seq(DocumentsBelow(b + 1))
        BY <1>0, <2>2, <2>3, <3>1, BelowMonotone
      <3>3. PipelineIn(0 .. b, DocumentsBelow(b + 1))'
        BY <2>4, <3>2 DEF PipelineIn, DocumentsBelow
      <3> QED
        BY <3>1, <3>3
    <2>6. pc' = "store" => enriched' \in DocumentsBelow(position' + 1)
      <3>1. CASE EnrichEvent
        <4>1. PICK fails : enriched' = GetEnrichedEvent(cur, msg.cluster_id, fails)
          BY <3>1 DEF EnrichEvent
        <4>2. cur \in Offsets /\ msg.cluster_id \in IDs
          BY <3>1, MsgType DEF EnrichEvent, IsEvent, WellFormed, Message
        <4>3. enriched' \in EnrichedEvent /\ enriched'.offset = cur
          BY <4>1, <4>2, GetEnrichedEventType DEF GetEnrichedEvent
        <4>4. cur = position /\ position' = position
          BY <3>1 DEF EnrichEvent, ReadInv, readerVars
        <4> QED
          BY <1>0, <4>3, <4>4 DEF EnrichedEvent, DocumentsBelow
      <3>2. CASE ~EnrichEvent /\ pc' = "store"
        <4>1. UNCHANGED <<pc, cur, position, enriched>>
          BY <1>2, <3>2, ConsumerMoves DEF ProcessState, ProcessStateExpire, Owe
        <4> QED
          BY <3>2, <4>1 DEF ReadInv
      <3> QED
        BY <3>1, <3>2
    <2> QED
      BY <2>1, <2>5, <2>6 DEF ReadInv, DocumentsBelow
  <1> QED
    BY <1>1, <1>2

-----------------------------------------------------------------------------
(* A state message stays pending until its Expire. *)
LEMMA PendingStays ==
    ASSUME TypeOK, NoExpiryFaults, ReadInv, [Next]_vars,
           NEW o \in Offsets, IsState(topic[o]), Pending(o),
           ~(ProcessStateExpire /\ cur = o)
    PROVE  Pending(o)'
  <1>0. o \in Nat /\ 0 < o /\ position \in Nat /\ position <= o
    BY HandledType DEF TypeOK, ReaderTypeOK, Pending
  <1>1. PipelineIn(0 .. o - 1, DocumentsBelow(o))'
    <2>1. PICK A, D : A = 0 .. o - 1 /\ D = DocumentsBelow(o)
      OBVIOUS
    <2>2. 0 \in A /\ PipelineIn(A, D) /\ \A d \in D : d.offset \in A
      BY <1>0, <2>1 DEF Pending, DocumentsBelow
    <2>3. pc \in {"ack", "store"} => position < o /\ cur = position
      BY <1>0 DEF Pending, ReadInv
    <2>4. pc = "ack" => cur \in A
      BY <1>0, <2>1, <2>3
    <2>5. pc = "store" => enriched \in D
      <3>1. 0 .. (position + 1) - 1 \subseteq 0 .. o - 1 \/ ~(position < o)
        BY <1>0
      <3> QED
        BY <2>1, <2>3, <3>1 DEF ReadInv, DocumentsBelow
    <2>6. PipelineIn(A, D)'
      BY <2>2, <2>4, <2>5, PipelineStep
    <2> QED
      BY <2>1, <2>6 DEF PipelineIn, DocumentsBelow
  <1>2. CASE Exit \/ Crash
    <2>1. position' = committed /\ committed \in 0 .. o - 1
      BY <1>2 DEF Exit, Crash, Restart, ReaderRestart, Pending, PipelineIn
    <2> QED
      BY <1>0, <1>1, <2>1 DEF Pending
  <1>3. CASE ~(Exit \/ Crash)
    <2>1. position = o => pc \in {"process", "expire", "exit"}
      BY DEF Pending
    <2>2. position = o /\ pc \in {"process", "expire"} => cur = o /\ IsState(msg)
      BY DEF ReadInv, msg
    <2>3. ProcessStateExpire => position # o
      BY <2>2 DEF ProcessStateExpire
    <2>4. EnrichEvent => position # o
      BY <2>2 DEF EnrichEvent, IsEvent, IsState, StateNames
    <2>5. CASE position = o
      <3>1. position' = o /\ pc' \in {"process", "expire", "exit"}
        BY <1>3, <2>1, <2>2, <2>3, <2>4, <2>5, ConsumerMoves DEF ProcessState, readerVars
      <3> QED
        BY <1>0, <1>1, <3>1 DEF Pending
    <2>6. CASE position # o
      <3>1. position' = position \/ (position' = position + 1 /\ pc' = "process")
        BY <1>3, ConsumerMoves
        DEF ProcessState, ProcessStateExpire, EnrichEvent, Owe, readerVars
      <3> QED
        BY <1>0, <1>1, <2>6, <3>1 DEF Pending
    <2> QED
      BY <2>5, <2>6
  <1> QED
    BY <1>2, <1>3

(* Redis changes by the two commands of hset and when a hash expires. *)
LEMMA SnapshotSteps ==
    ASSUME NoExpiryFaults, [Next]_vars
    PROVE  UNCHANGED <<redis, ttl>> \/ ProcessState \/ ProcessStateExpire \/ Expiry
  <1> USE DEF snapshotVars
  <1>1. CASE Consumer
    BY <1>1 DEF Consumer, StopConsuming, NotQuit, Fetch, FetchEOF, Discard, UnknownName,
                SkipEvent, EnrichEvent, StoreEvent, StorePanics, ackMsg
  <1>2. CASE ProcessStateFails
    BY <1>2 DEF ProcessStateFails, NoExpiryFaults
  <1>3. CASE \E w \in Workers : Receive(w) \/ SendBulk(w) \/ Callback(w)
    BY <1>3 DEF Receive, SendBulk, Callback
  <1>4. CASE Committer \/ Signal \/ CloseReader \/ CloseProjection \/ SecondSignal
               \/ Producer \/ NewGeneration \/ UNCHANGED vars
    BY <1>4 DEF Committer, Signal, CloseReader, CloseProjection, SecondSignal,
                Producer, NewGeneration, vars
  <1>5. CASE Exit \/ Crash
    BY <1>5 DEF Exit, Crash, Restart
  <1> QED
    BY <1>1, <1>2, <1>3, <1>4, <1>5 DEF Next

LEMMA NextPendingInv ==
    ASSUME TypeOK, NoExpiryFaults, ReadInv, PendingInv, [Next]_vars
    PROVE  PendingInv'
  <1> SUFFICES ASSUME NEW k \in HKeys, redis'[k] # EmptyHash, ~ttl'[k]
               PROVE  \E o \in Offsets' : IsState(topic'[o]) /\ HKey(topic'[o]) = k /\ Pending(o)'
    BY DEF PendingInv, IsState, WellFormed, HKey, getClustersHKey, getHostsHKey,
           getInfraEnvsHKey, HKeys, EmptyHash
  <1>0. redis \in [HKeys -> [IDs -> Nat]] /\ ttl \in [HKeys -> BOOLEAN]
    BY DEF TypeOK, SnapshotTypeOK
  <1>1. \A o \in Offsets : o \in Offsets' /\ topic'[o] = topic[o]
    BY TopicGrows DEF TypeOK, ReaderTypeOK
  <1>2. CASE redis[k] # EmptyHash /\ ~ttl[k]
    <2>1. PICK o \in Offsets : IsState(topic[o]) /\ HKey(topic[o]) = k /\ Pending(o)
      BY <1>2 DEF PendingInv
    <2>2. ASSUME ProcessStateExpire, cur = o PROVE FALSE
      <3>1. ttl' = [ttl EXCEPT ![k] = redis[k] # EmptyHash]
        BY <2>1, <2>2 DEF ProcessStateExpire, Expire, msg
      <3>2. ttl'[k] = (redis[k] # EmptyHash)
        BY <1>0, <3>1
      <3> QED
        BY <1>2, <3>2
    <2>3. Pending(o)'
      BY <2>1, <2>2, PendingStays
    <2> QED
      BY <1>1, <2>1, <2>3
  <1>3. CASE ~(redis[k] # EmptyHash /\ ~ttl[k])
    <2>1. ProcessState
      <3>1. CASE UNCHANGED <<redis, ttl>>
        BY <1>3, <3>1
      <3>2. CASE ProcessStateExpire
        <4>1. UNCHANGED redis /\ ttl' = [ttl EXCEPT ![HKey(msg)] = redis[HKey(msg)] # EmptyHash]
          BY <3>2 DEF ProcessStateExpire, Expire
        <4> QED
          BY <1>0, <1>3, <4>1
      <3>3. CASE Expiry
        <4>1. PICK h \in HKeys : /\ redis' = [redis EXCEPT ![h] = EmptyHash]
                                 /\ ttl' = [ttl EXCEPT ![h] = FALSE]
          BY <3>3 DEF Expiry, KeyExpires
        <4> QED
          BY <1>0, <1>3, <4>1
      <3> QED
        BY <3>1, <3>2, <3>3, SnapshotSteps
    <2>2. /\ UNCHANGED <<topic, position, ttl, cur>> /\ pc = "process" /\ pc' = "expire"
          /\ redis' = [redis EXCEPT ![HKey(msg)][msg.id] = cur]
          /\ IsState(msg)
      BY <2>1 DEF ProcessState, HSet, readerVars
    <2>3. HKey(msg) = k
      BY <1>0, <1>3, <2>2
    <2>4. cur \in Offsets /\ cur = position /\ cur \in Nat
      BY <2>2, MsgType DEF ReadInv, TypeOK, ReaderTypeOK
    <2>5. Pending(cur)
      <3>1. LastHandled = cur - 1 /\ LastHandled + 1 = cur
        BY <2>2, <2>4 DEF LastHandled
      <3> QED
        BY <2>2, <2>4, <3>1 DEF ReadInv, Pending
    <2>6. PICK o : o = cur
      OBVIOUS
    <2>7. Pending(o)'
      <3>1. ~ProcessStateExpire
        BY <2>2 DEF ProcessStateExpire
      <3> QED
        BY <2>2, <2>4, <2>5, <2>6, <3>1, PendingStays DEF msg
    <2> QED
      BY <1>1, <2>2, <2>3, <2>4, <2>6, <2>7 DEF msg
  <1> QED
    BY <1>2, <1>3

(* As long as Redis executes its commands and the group does not           *)
(* rebalance, every hash without a TTL gets one: the state message that    *)
(* wrote it lies beyond the committed offset.                              *)
THEOREM HashesExpire ==
    ASSUME NoExpiryFaults
    PROVE  Spec => []EveryHashExpires
  <1>1. Init => ReadInv /\ PendingInv
    BY DEF Init, ReaderInit, SnapshotInit, RepositoryInit, ReadInv, PendingInv, PipelineIn,
           LastHandled
  <1>2. TypeOK /\ TypeOK' /\ ReadInv /\ PendingInv /\ [Next]_vars => ReadInv' /\ PendingInv'
    BY NextReadInv, NextPendingInv
  <1>3. TypeOK /\ PendingInv => EveryHashExpires
    <2> SUFFICES ASSUME TypeOK, PendingInv, NEW k \in HKeys, redis[k] # EmptyHash, ~ttl[k]
                 PROVE  \E o \in committed + 1 .. Len(topic) :
                            IsState(topic[o]) /\ HKey(topic[o]) = k
      BY DEF EveryHashExpires
    <2>1. PICK o \in Offsets : IsState(topic[o]) /\ HKey(topic[o]) = k /\ Pending(o)
      BY DEF PendingInv
    <2>2. committed \in 0 .. o - 1
      BY <2>1 DEF Pending, PipelineIn
    <2>3. o \in committed + 1 .. Len(topic)
      BY <2>2 DEF TypeOK, ReaderTypeOK
    <2> QED
      BY <2>1, <2>3
  <1> QED
    BY <1>1, <1>2, <1>3, TypeCorrect, PTL DEF Spec
=============================================================================
