------------------ MODULE EnrichedEventsProjection_proofs ------------------
(***************************************************************************)
(* Proofs about the consumer process, for every set of messages and        *)
(* faults, every topic, number of workers and buffer size.                 *)
(***************************************************************************)
EXTENDS EnrichedEventsProjection, TLAPS

USE DEF Offsets, Workers

-----------------------------------------------------------------------------
(* The messages of the topic. *)
LEMMA TopicMessage ==
    ASSUME ReaderTypeOK, NEW o \in Offsets
    PROVE  topic[o] \in Message
  BY MessagesAssumption DEF ReaderTypeOK

LEMMA HKeyType ==
    ASSUME NEW m \in Message, IsState(m)
    PROVE  HKey(m) \in HKeys /\ m.id \in IDs
  <1>1. m.id \in IDs /\ (m.name # "ClusterState" => m.cluster_id \in IDs)
    BY MessagesAssumption DEF Message, IsState, WellFormed, StateNames
  <1>2. m.name \in StateNames
    BY DEF IsState
  <1> QED
    BY <1>1, <1>2 DEF StateNames, HKey, HKeys

LEMMA HSetType ==
    ASSUME SnapshotTypeOK, NEW m \in Message, IsState(m), NEW o \in Nat, HSet(m, o)
    PROVE  SnapshotTypeOK'
  <1>1. HKey(m) \in HKeys /\ m.id \in IDs
    BY HKeyType
  <1> QED
    BY <1>1 DEF SnapshotTypeOK, HSet, HKeys

LEMMA ExpireType ==
    ASSUME SnapshotTypeOK, NEW m \in Message, IsState(m), Expire(m)
    PROVE  SnapshotTypeOK'
  <1>1. HKey(m) \in HKeys
    BY HKeyType
  <1> QED
    BY <1>1 DEF SnapshotTypeOK, Expire, HKeys

LEMMA GetEnrichedEventType ==
    ASSUME TypeOK, NEW o \in Offsets, NEW c \in IDs, NEW fails
    PROVE  GetEnrichedEvent(o, c, fails) \in EnrichedEvent
  <1>1. getClustersHKey \in HKeys /\ getHostsHKey(c) \in HKeys /\ getInfraEnvsHKey(c) \in HKeys
    BY DEF HKeys
  <1>2. redis \in [HKeys -> [IDs -> Nat]]
    BY DEF TypeOK, SnapshotTypeOK
  <1>3. EmptyHash \in [IDs -> Nat]
    BY DEF EmptyHash
  <1>4. GetCluster(c, "cluster" \in fails) \in Nat
    BY <1>1, <1>2 DEF GetCluster
  <1>5. GetHosts(c, "hosts" \in fails) \in [IDs -> Nat]
    BY <1>1, <1>2, <1>3 DEF GetHosts
  <1>6. GetInfraEnvs(c, "infra_envs" \in fails) \in [IDs -> Nat]
    BY <1>1, <1>2, <1>3 DEF GetInfraEnvs
  <1> QED
    BY <1>4, <1>5, <1>6 DEF GetEnrichedEvent, EnrichedEvent

-----------------------------------------------------------------------------
(* Type correctness: the offsets that travel from the reader through the   *)
(* indexer to the broker stay within the topic.                            *)
LEMMA InitTypeOK == Init => TypeOK
  <1> SUFFICES ASSUME Init PROVE TypeOK
    OBVIOUS
  <1>1. ReaderTypeOK
    BY ReaderAssumption DEF Init, ReaderInit, ReaderTypeOK
  <1>2. SnapshotTypeOK
    BY DEF Init, SnapshotInit, SnapshotTypeOK, EmptyHash
  <1>3. RepositoryTypeOK
    BY DEF Init, RepositoryInit, RepositoryTypeOK
  <1>4. ConsumerTypeOK
    BY <1>1 DEF Init, ConsumerTypeOK, ReaderTypeOK
  <1> QED
    BY <1>1, <1>2, <1>3, <1>4 DEF TypeOK

(* The type of an enriched event only depends on the length of the topic. *)
LEMMA RepositoryFrame ==
    ASSUME RepositoryTypeOK, UNCHANGED <<topic, bulkVars>>
    PROVE  RepositoryTypeOK'
  BY DEF RepositoryTypeOK, EnrichedEvent, bulkVars

LEMMA ReturnType ==
    ASSUME TypeOK, UNCHANGED topic, NEW next \in {"select", "fetch", "exit"}, Return(next)
    PROVE  ConsumerTypeOK'
  BY DEF TypeOK, ReaderTypeOK, ConsumerTypeOK, Return

LEMMA OweType ==
    ASSUME TypeOK, UNCHANGED topic, cur # 0, NEW n \in 1 .. 2, NEW e \in {"nil", "error"}, Owe(n, e)
    PROVE  ConsumerTypeOK'
  BY DEF TypeOK, ConsumerTypeOK, Owe, EnrichedEvent

LEMMA AckType ==
    ASSUME ReaderTypeOK, NEW o \in Offsets, Ack(o),
           UNCHANGED <<topic, committed, position, stash, reader>>
    PROVE  ReaderTypeOK'
  BY DEF ReaderTypeOK, Ack

(* The message being processed. *)
LEMMA MsgType ==
    ASSUME TypeOK, pc \in {"process", "expire", "store", "ack"}
    PROVE  cur \in Offsets /\ cur \in Nat /\ msg \in Message
  <1>1. cur \in Offsets
    BY DEF TypeOK, ReaderTypeOK, ConsumerTypeOK
  <1> QED
    BY <1>1, TopicMessage DEF TypeOK, ReaderTypeOK, msg

LEMMA ConsumerStepType ==
    ASSUME TypeOK, Consumer \/ ProcessStateFails
    PROVE  TypeOK'
  <1> USE DEF readerVars, snapshotVars
  <1> SUFFICES /\ ReaderTypeOK' /\ SnapshotTypeOK'
               /\ RepositoryTypeOK' /\ ConsumerTypeOK'
    BY DEF TypeOK
  <1>0. ReaderTypeOK /\ SnapshotTypeOK /\ RepositoryTypeOK /\ ConsumerTypeOK
    BY DEF TypeOK
  <1>1. CASE StopConsuming \/ NotQuit \/ FetchEOF \/ UnknownName \/ SkipEvent \/ StorePanics
    <2>1. UNCHANGED <<readerVars, snapshotVars, bulkVars>>
      BY <1>1 DEF StopConsuming, NotQuit, FetchEOF, UnknownName, SkipEvent, StorePanics
    <2>2. ConsumerTypeOK'
      BY <1>1, <2>1, ReturnType
      DEF StopConsuming, NotQuit, FetchEOF, UnknownName, SkipEvent, StorePanics
    <2> QED
      BY <1>0, <2>1, <2>2, RepositoryFrame DEF ReaderTypeOK, SnapshotTypeOK
  <1>2. CASE Fetch
    <2>1. ReaderTypeOK' /\ cur' \in Offsets /\ UNCHANGED topic
      BY <1>0, <1>2 DEF Fetch, FetchMessage, ReaderTypeOK
    <2>2. ConsumerTypeOK'
      BY <1>0, <1>2, <2>1 DEF Fetch, ConsumerTypeOK, EnrichedEvent
    <2> QED
      BY <1>0, <1>2, <2>1, <2>2, RepositoryFrame DEF Fetch, SnapshotTypeOK
  <1>3. CASE Discard
    <2>1. cur # 0
      BY <1>0, <1>3 DEF Discard, ConsumerTypeOK
    <2>2. ConsumerTypeOK'
      BY <1>3, <2>1, OweType DEF Discard
    <2> QED
      BY <1>0, <1>3, <2>2, RepositoryFrame DEF Discard, ReaderTypeOK, SnapshotTypeOK
  <1>4. CASE ProcessState
    <2>1. cur \in Nat /\ msg \in Message
      BY <1>4, MsgType DEF ProcessState
    <2>2. SnapshotTypeOK'
      BY <1>0, <1>4, <2>1, HSetType DEF ProcessState
    <2>3. ConsumerTypeOK'
      BY <1>0, <1>4 DEF ProcessState, ConsumerTypeOK, EnrichedEvent, msg
    <2> QED
      BY <1>0, <1>4, <2>2, <2>3, RepositoryFrame DEF ProcessState, ReaderTypeOK
  <1>5. CASE ProcessStateExpire
    <2>1. cur # 0 /\ msg \in Message /\ IsState(msg)
      BY <1>0, <1>5, MsgType DEF ProcessStateExpire, ConsumerTypeOK
    <2>2. SnapshotTypeOK'
      BY <1>0, <1>5, <2>1, ExpireType DEF ProcessStateExpire
    <2>3. ConsumerTypeOK'
      BY <1>5, <2>1, OweType DEF ProcessStateExpire
    <2> QED
      BY <1>0, <1>5, <2>2, <2>3, RepositoryFrame DEF ProcessStateExpire, ReaderTypeOK
  <1>6. CASE ProcessStateFails
    <2>1. cur # 0 /\ cur \in Nat /\ msg \in Message /\ IsState(msg)
      BY <1>0, <1>6, MsgType DEF ProcessStateFails, ConsumerTypeOK
    <2>2. SnapshotTypeOK'
      <3>1. CASE HSet(msg, cur)
        BY <1>0, <2>1, <3>1, HSetType
      <3>2. CASE Expire(msg)
        BY <1>0, <2>1, <3>2, ExpireType
      <3>3. CASE UNCHANGED snapshotVars
        BY <1>0, <3>3 DEF SnapshotTypeOK
      <3> QED
        BY <1>6, <3>1, <3>2, <3>3 DEF ProcessStateFails
    <2>3. ConsumerTypeOK'
      BY <1>6, <2>1, OweType DEF ProcessStateFails
    <2> QED
      BY <1>0, <1>6, <2>2, <2>3, RepositoryFrame DEF ProcessStateFails, ReaderTypeOK
  <1>7. CASE EnrichEvent
    <2>1. cur \in Offsets /\ msg \in Message
      BY <1>7, MsgType DEF EnrichEvent
    <2>2. msg.cluster_id \in IDs
      BY <1>7, <2>1 DEF EnrichEvent, IsEvent, WellFormed, Message
    <2>3. enriched' \in EnrichedEvent
      BY <1>7, <2>1, <2>2, GetEnrichedEventType DEF EnrichEvent
    <2>4. ConsumerTypeOK'
      BY <1>0, <1>7, <2>3 DEF EnrichEvent, ConsumerTypeOK, EnrichedEvent
    <2> QED
      BY <1>0, <1>7, <2>4, RepositoryFrame DEF EnrichEvent, ReaderTypeOK, SnapshotTypeOK
  <1>8. CASE StoreEvent
    <2>1. enriched \in EnrichedEvent
      BY <1>0, <1>8 DEF StoreEvent, ConsumerTypeOK
    <2>2. RepositoryTypeOK'
      <3>1. EnrichedEvent' = EnrichedEvent /\ UNCHANGED <<topic, buffer, callbacks, bulk, index>>
        BY <1>8 DEF StoreEvent, Store, EnrichedEvent
      <3>2. queue' \in Seq(EnrichedEvent)
        BY <1>0, <1>8, <2>1 DEF StoreEvent, Store, RepositoryTypeOK
      <3> QED
        BY <1>0, <3>1, <3>2 DEF RepositoryTypeOK
    <2>3. ConsumerTypeOK'
      BY <1>8, ReturnType DEF StoreEvent
    <2> QED
      BY <1>0, <1>8, <2>2, <2>3 DEF StoreEvent, ReaderTypeOK, SnapshotTypeOK
  <1>9. CASE ackMsg
    <2>1. cur \in Offsets
      BY <1>9, MsgType DEF ackMsg
    <2>2. ReaderTypeOK'
      BY <1>0, <1>9, <2>1, AckType DEF ackMsg
    <2>3. ConsumerTypeOK'
      <3>1. CASE acks = 1
        BY <1>9, <3>1, ReturnType DEF ackMsg
      <3>2. CASE acks > 1 /\ acks' = acks - 1 /\ UNCHANGED <<pc, cur, err, enriched>>
        BY <1>0, <1>9, <3>2 DEF ackMsg, ConsumerTypeOK, EnrichedEvent, msg
      <3> QED
        BY <1>9, <3>1, <3>2 DEF ackMsg
    <2> QED
      BY <1>0, <1>9, <2>2, <2>3, RepositoryFrame DEF ackMsg, SnapshotTypeOK
  <1> QED
    BY <1>1, <1>2, <1>3, <1>4, <1>5, <1>6, <1>7, <1>8, <1>9 DEF Consumer

(* What the other goroutines and the environment leave alone. *)
LEMMA ConsumerFrame ==
    ASSUME ConsumerTypeOK, UNCHANGED <<topic, consumerVars>>
    PROVE  ConsumerTypeOK'
  BY DEF ConsumerTypeOK, consumerVars, EnrichedEvent, msg

LEMMA IndexedType ==
    ASSUME RepositoryTypeOK, NEW w \in Workers, NEW applied \in SUBSET DOMAIN buffer[w]
    PROVE  Indexed(buffer[w], applied) \subseteq EnrichedEvent
  <1>1. \A i \in applied : buffer[w][i] \in EnrichedEvent
    BY DEF RepositoryTypeOK
  <1> QED
    BY <1>1 DEF RepositoryTypeOK, Indexed

LEMMA ResponseType ==
    ASSUME RepositoryTypeOK, NEW w \in Workers, NEW applied \in SUBSET DOMAIN buffer[w],
           Len(topic) \in Nat
    PROVE  Response(buffer[w], applied) \in Seq(0 .. Len(topic))
  <1>1. buffer[w] \in Seq(EnrichedEvent)
    BY DEF RepositoryTypeOK
  <1>2. ASSUME NEW i \in DOMAIN buffer[w] PROVE buffer[w][i].offset \in 0 .. Len(topic)
    <2>1. buffer[w][i] \in EnrichedEvent
      BY <1>1
    <2>2. buffer[w][i].offset \in Offsets
      BY <2>1 DEF EnrichedEvent
    <2> QED
      BY <2>2
  <1>3. DOMAIN buffer[w] = 1 .. Len(buffer[w]) /\ Len(buffer[w]) \in Nat
    BY <1>1
  <1> QED
    BY <1>2, <1>3 DEF Response

LEMMA CommitterType ==
    ASSUME ReaderTypeOK, ListenForCommit \/ CommitTick
    PROVE  ReaderTypeOK'
  <1>1. CASE ListenForCommit
    <2>1. Head(ackChannel) \in Offsets /\ Tail(ackChannel) \in Seq(Offsets)
      BY <1>1 DEF ListenForCommit, ReaderTypeOK
    <2>2. stash' \in 0 .. Len(topic)
      BY <1>1, <2>1 DEF ListenForCommit, ReaderTypeOK, Merge
    <2> QED
      BY <1>1, <2>1, <2>2 DEF ListenForCommit, ReaderTypeOK
  <1>2. CASE CommitTick
    BY <1>2 DEF CommitTick, ReaderTypeOK
  <1> QED
    BY <1>1, <1>2

LEMMA WorkerStepType ==
    ASSUME RepositoryTypeOK, ReaderTypeOK, UNCHANGED topic, NEW w \in Workers,
           \/ Take(w) \/ Flush(w) \/ FlushFails(w)
           \/ callbacks[w] # <<>>
              /\ callbacks' = [callbacks EXCEPT ![w] = Tail(@)]
              /\ UNCHANGED <<queue, buffer, bulk, index>>
    PROVE  RepositoryTypeOK'
  <1>0. EnrichedEvent' = EnrichedEvent
    BY DEF EnrichedEvent
  <1>1. CASE Take(w)
    <2>1. Head(queue) \in EnrichedEvent /\ Tail(queue) \in Seq(EnrichedEvent)
      BY <1>1 DEF Take, RepositoryTypeOK
    <2>2. Append(buffer[w], Head(queue)) \in Seq(EnrichedEvent)
      BY <2>1 DEF RepositoryTypeOK
    <2> QED
      BY <1>0, <1>1, <2>1, <2>2 DEF Take, RepositoryTypeOK
  <1>2. CASE Flush(w)
    <2>1. PICK applied \in SUBSET DOMAIN buffer[w] :
              /\ index' = Indexed(buffer[w], applied)
              /\ callbacks' = [callbacks EXCEPT ![w] = Response(buffer[w], applied)]
      BY <1>2 DEF Flush
    <2>2. index' \subseteq EnrichedEvent
      BY <2>1, IndexedType
    <2>3. Response(buffer[w], applied) \in Seq(0 .. Len(topic))
      <3>1. Len(topic) \in Nat
        BY DEF ReaderTypeOK
      <3> QED
        BY <3>1, ResponseType
    <2> QED
      BY <1>0, <1>2, <2>1, <2>2, <2>3 DEF Flush, RepositoryTypeOK
  <1>3. CASE FlushFails(w)
    <2>1. index' \subseteq EnrichedEvent
      BY <1>3, IndexedType DEF FlushFails
    <2> QED
      BY <1>0, <1>3, <2>1 DEF FlushFails, RepositoryTypeOK
  <1>4. CASE callbacks[w] # <<>> /\ callbacks' = [callbacks EXCEPT ![w] = Tail(@)]
               /\ UNCHANGED <<queue, buffer, bulk, index>>
    <2>1. Tail(callbacks[w]) \in Seq(0 .. Len(topic))
      BY <1>4 DEF RepositoryTypeOK
    <2> QED
      BY <1>0, <1>4, <2>1 DEF RepositoryTypeOK
  <1> QED
    BY <1>1, <1>2, <1>3, <1>4

LEMMA SeqMonotone ==
    ASSUME NEW S, NEW T, S \subseteq T
    PROVE  Seq(S) \subseteq Seq(T)
  OBVIOUS

(* A longer topic keeps every type. *)
LEMMA ProduceType ==
    ASSUME TypeOK, Producer
    PROVE  TypeOK'
  <1>0. ReaderTypeOK /\ SnapshotTypeOK /\ RepositoryTypeOK /\ ConsumerTypeOK
    BY DEF TypeOK
  <1>1. PICK m \in Messages : topic' = Append(topic, m)
    BY DEF Producer, Produce
  <1>2. /\ topic' \in Seq(Messages)
        /\ Len(topic) \in Nat
        /\ Len(topic') = Len(topic) + 1
        /\ \A o \in Offsets : topic'[o] = topic[o]
    BY <1>0, <1>1 DEF ReaderTypeOK
  <1>3. 0 .. Len(topic) \subseteq 0 .. Len(topic') /\ Offsets \subseteq Offsets'
    BY <1>2
  <1>4. EnrichedEvent \subseteq EnrichedEvent'
    BY <1>3 DEF EnrichedEvent
  <1>5. ReaderTypeOK'
    BY <1>0, <1>2, <1>3 DEF ReaderTypeOK, Producer, Produce
  <1>6. SnapshotTypeOK'
    BY <1>0 DEF SnapshotTypeOK, Producer, snapshotVars
  <1>7. RepositoryTypeOK'
    <2> USE DEF RepositoryTypeOK, Producer, bulkVars
    <2>1. queue' \in Seq(EnrichedEvent')
      BY <1>0, <1>4
    <2>2. buffer' \in [Workers -> Seq(EnrichedEvent')]
      BY <1>0, <1>4
    <2>3. callbacks' \in [Workers -> Seq(0 .. Len(topic'))]
      <3>1. Seq(0 .. Len(topic)) \subseteq Seq(0 .. Len(topic'))
        BY <1>3, SeqMonotone
      <3> QED
        BY <1>0, <3>1
    <2> QED
      BY <1>0, <1>4, <2>1, <2>2, <2>3
  <1>8. ConsumerTypeOK'
    <2>1. pc = "expire" => msg' = msg
      BY <1>0, <1>2 DEF ConsumerTypeOK, Producer, consumerVars, msg
    <2> QED
      BY <1>0, <1>3, <1>4, <2>1 DEF ConsumerTypeOK, Producer, consumerVars
  <1> QED
    BY <1>5, <1>6, <1>7, <1>8 DEF TypeOK

LEMMA RestartType ==
    ASSUME TypeOK, Restart
    PROVE  TypeOK'
  <1>0. ReaderTypeOK /\ SnapshotTypeOK /\ RepositoryTypeOK /\ UNCHANGED topic
    BY DEF TypeOK, Restart, ReaderRestart
  <1>1. ReaderTypeOK'
    BY <1>0 DEF ReaderTypeOK, Restart, ReaderRestart
  <1>2. SnapshotTypeOK'
    BY <1>0 DEF SnapshotTypeOK, Restart, snapshotVars
  <1>3. RepositoryTypeOK'
    BY <1>0 DEF RepositoryTypeOK, Restart, RepositoryRestart, EnrichedEvent
  <1>4. ConsumerTypeOK'
    BY <1>0, ReturnType DEF Restart
  <1> QED
    BY <1>1, <1>2, <1>3, <1>4 DEF TypeOK

LEMMA NextTypeOK ==
    ASSUME TypeOK, [Next]_vars
    PROVE  TypeOK'
  <1> USE DEF snapshotVars
  <1>0. ReaderTypeOK /\ SnapshotTypeOK /\ RepositoryTypeOK /\ ConsumerTypeOK
    BY DEF TypeOK
  <1>1. CASE Consumer \/ ProcessStateFails
    BY <1>1, ConsumerStepType
  <1>2. CASE Committer
    <2>1. ReaderTypeOK' /\ UNCHANGED <<topic, snapshotVars, bulkVars, consumerVars>>
      BY <1>0, <1>2, CommitterType DEF Committer, ListenForCommit, CommitTick
    <2> QED
      BY <1>0, <2>1, RepositoryFrame, ConsumerFrame DEF TypeOK, SnapshotTypeOK
  <1>3. ASSUME NEW w \in Workers, Receive(w) \/ SendBulk(w)
        PROVE  TypeOK'
    <2>1. UNCHANGED <<readerVars, snapshotVars, consumerVars>>
      BY <1>3 DEF Receive, SendBulk
    <2>2. RepositoryTypeOK'
      BY <1>0, <1>3, <2>1, WorkerStepType DEF Receive, SendBulk, readerVars
    <2> QED
      BY <1>0, <2>1, <2>2, ConsumerFrame DEF TypeOK, SnapshotTypeOK, ReaderTypeOK, readerVars
  <1>4. ASSUME NEW w \in Workers, Callback(w)
        PROVE  TypeOK'
    <2>1. /\ UNCHANGED <<topic, committed, position, stash, reader, snapshotVars, consumerVars>>
          /\ callbacks[w] # <<>>
          /\ callbacks' = [callbacks EXCEPT ![w] = Tail(@)]
          /\ UNCHANGED <<queue, buffer, bulk, index>>
      BY <1>4 DEF Callback, OnSuccess, OnFailure
    <2>2. RepositoryTypeOK'
      BY <1>0, <2>1, WorkerStepType
    <2>3. ReaderTypeOK'
      <3>1. Head(callbacks[w]) \in 0 .. Len(topic)
        BY <1>0, <2>1 DEF RepositoryTypeOK
      <3>2. CASE OnSuccess(w)
        <4>1. Head(callbacks[w]) \in Offsets /\ Ack(Head(callbacks[w]))
          BY <1>0, <3>1, <3>2 DEF OnSuccess, ReaderTypeOK
        <4> QED
          BY <1>0, <2>1, <4>1, AckType
      <3>3. CASE OnFailure(w)
        BY <1>0, <2>1, <3>3 DEF OnFailure, ReaderTypeOK
      <3> QED
        BY <1>4, <3>2, <3>3 DEF Callback
    <2> QED
      BY <1>0, <2>1, <2>2, <2>3, ConsumerFrame DEF TypeOK, SnapshotTypeOK
  <1>5. CASE Signal \/ CloseReader \/ NewGeneration
    <2>1. /\ UNCHANGED <<topic, snapshotVars, bulkVars, consumerVars>>
          /\ CloseQuitChannel \/ CloseKafkaReader \/ Rebalance
      BY <1>5 DEF Signal, CloseReader, NewGeneration,
                  CloseQuitChannel, CloseKafkaReader, Rebalance
    <2>2. ReaderTypeOK'
      BY <1>0, <2>1 DEF ReaderTypeOK, CloseQuitChannel, CloseKafkaReader, Rebalance, FinalCommit
    <2> QED
      BY <1>0, <2>1, <2>2, RepositoryFrame, ConsumerFrame DEF TypeOK, SnapshotTypeOK
  <1>6. CASE CloseProjection
    <2>1. RepositoryTypeOK'
      BY <1>0, <1>6 DEF CloseProjection, Close, CloseReturns, RepositoryTypeOK,
                        EnrichedEvent, readerVars
    <2> QED
      BY <1>0, <1>6, <2>1, ConsumerFrame
      DEF CloseProjection, TypeOK, SnapshotTypeOK, ReaderTypeOK, readerVars
  <1>7. CASE SecondSignal
    <2>1. ConsumerTypeOK'
      BY <1>7, ReturnType DEF SecondSignal, readerVars
    <2> QED
      BY <1>0, <1>7, <2>1, RepositoryFrame
      DEF SecondSignal, TypeOK, SnapshotTypeOK, ReaderTypeOK, readerVars
  <1>8. CASE Exit \/ Crash
    BY <1>8, RestartType DEF Exit, Crash
  <1>9. CASE Producer
    BY <1>9, ProduceType
  <1>10. CASE Expiry
    <2>1. SnapshotTypeOK'
      BY <1>0, <1>10 DEF Expiry, KeyExpires, SnapshotTypeOK, EmptyHash
    <2> QED
      BY <1>0, <1>10, <2>1, RepositoryFrame, ConsumerFrame
      DEF Expiry, TypeOK, ReaderTypeOK, readerVars
  <1>11. CASE UNCHANGED vars
    BY <1>0, <1>11, RepositoryFrame, ConsumerFrame
    DEF vars, TypeOK, ReaderTypeOK, SnapshotTypeOK, readerVars
  <1> QED
    BY <1>1, <1>2, <1>3, <1>4, <1>5, <1>6, <1>7, <1>8, <1>9, <1>10, <1>11 DEF Next

(* The offsets that FetchMessage hands out, and that travel through Store, *)
(* OnSuccess and listenForCommit to the broker, stay within the topic, and *)
(* the rest of the state keeps its type, whatever fails.                   *)
THEOREM TypeCorrect == Spec => []TypeOK
  <1>1. Init => TypeOK
    BY InitTypeOK
  <1>2. TypeOK /\ [Next]_vars => TypeOK'
    BY NextTypeOK
  <1> QED
    BY <1>1, <1>2, PTL DEF Spec

-----------------------------------------------------------------------------
(* The pipeline from the indexer's queue to the broker: whatever holds of  *)
(* the offsets (A) and the enriched events (D) in it keeps holding while   *)
(* the consumer only puts members of A and D into it.                      *)
PipelineIn(A, D) ==
    /\ committed \in A
    /\ stash \in A
    /\ ackChannel \in Seq(A)
    /\ queue \in Seq(D)
    /\ buffer \in [Workers -> Seq(D)]
    /\ callbacks \in [Workers -> Seq(A)]

LEMMA PipelineFrame ==
    ASSUME NEW A, NEW D, PipelineIn(A, D),
           UNCHANGED <<committed, stash, ackChannel, queue, buffer, callbacks>>
    PROVE  PipelineIn(A, D)'
  BY DEF PipelineIn

LEMMA PipelineCommit ==
    ASSUME NEW A, NEW D, 0 \in A, PipelineIn(A, D),
           \/ ListenForCommit \/ CommitTick \/ CloseQuitChannel \/ CloseKafkaReader \/ Rebalance,
           UNCHANGED bulkVars
    PROVE  PipelineIn(A, D)'
  <1> USE DEF PipelineIn, bulkVars
  <1>1. CASE ListenForCommit
    <2>1. Head(ackChannel) \in A /\ Tail(ackChannel) \in Seq(A)
      BY <1>1 DEF ListenForCommit
    <2>2. stash' \in A
      BY <1>1, <2>1 DEF ListenForCommit, Merge
    <2> QED
      BY <1>1, <2>1, <2>2 DEF ListenForCommit
  <1>2. CASE CommitTick
    BY <1>2 DEF CommitTick
  <1>3. CASE CloseQuitChannel
    BY <1>3 DEF CloseQuitChannel
  <1>4. CASE CloseKafkaReader \/ Rebalance
    BY <1>4 DEF CloseKafkaReader, Rebalance, FinalCommit
  <1> QED
    BY <1>1, <1>2, <1>3, <1>4

LEMMA PipelineWorker ==
    ASSUME NEW A, NEW D, 0 \in A, PipelineIn(A, D),
           NEW w \in Workers, Receive(w) \/ SendBulk(w) \/ Callback(w),
           SendBulk(w) => \A d \in D : d.offset \in A
    PROVE  PipelineIn(A, D)'
  <1> USE DEF PipelineIn
  <1>1. CASE Receive(w)
    <2>1. Head(queue) \in D /\ Tail(queue) \in Seq(D)
      BY <1>1 DEF Receive, Take
    <2>2. Append(buffer[w], Head(queue)) \in Seq(D)
      BY <2>1
    <2> QED
      BY <1>1, <2>1, <2>2 DEF Receive, Take, readerVars
  <1>2. CASE SendBulk(w)
    <2>1. /\ UNCHANGED <<committed, stash, ackChannel, queue>>
          /\ buffer' = [buffer EXCEPT ![w] = <<>>]
      BY <1>2 DEF SendBulk, Flush, FlushFails, readerVars
    <2>2. callbacks' \in [Workers -> Seq(A)]
      <3>1. CASE Flush(w)
        <4>1. PICK applied \in SUBSET DOMAIN buffer[w] :
                  callbacks' = [callbacks EXCEPT ![w] = Response(buffer[w], applied)]
          BY <3>1 DEF Flush
        <4>2. buffer[w] \in Seq(D)
          OBVIOUS
        <4>3. /\ DOMAIN buffer[w] = 1 .. Len(buffer[w])
              /\ Len(buffer[w]) \in Nat
              /\ \A i \in DOMAIN buffer[w] : buffer[w][i].offset \in A
          BY <1>2, <4>2
        <4>4. Response(buffer[w], applied) \in Seq(A)
          BY <4>3 DEF Response
        <4> QED
          BY <4>1, <4>4
      <3>2. CASE FlushFails(w)
        BY <3>2 DEF FlushFails
      <3> QED
        BY <1>2, <3>1, <3>2 DEF SendBulk
    <2> QED
      BY <2>1, <2>2
  <1>3. CASE Callback(w)
    <2>1. /\ UNCHANGED <<committed, stash, queue, buffer>>
          /\ callbacks[w] # <<>>
          /\ callbacks' = [callbacks EXCEPT ![w] = Tail(@)]
          /\ ackChannel' = Append(ackChannel, Head(callbacks[w])) \/ UNCHANGED ackChannel
      BY <1>3 DEF Callback, OnSuccess, OnFailure, Ack
    <2>2. Head(callbacks[w]) \in A /\ Tail(callbacks[w]) \in Seq(A)
      BY <2>1
    <2>3. ackChannel' \in Seq(A)
      <3>1. \A o \in A : Append(ackChannel, o) \in Seq(A)
        OBVIOUS
      <3> QED
        BY <2>1, <2>2, <3>1
    <2>4. callbacks' \in [Workers -> Seq(A)]
      BY <2>1, <2>2
    <2> QED
      BY <2>1, <2>3, <2>4
  <1> QED
    BY <1>1, <1>2, <1>3

LEMMA PipelineConsumer ==
    ASSUME NEW A, NEW D, PipelineIn(A, D),
           pc = "ack" => cur \in A,
           pc = "store" => enriched \in D,
           Consumer \/ ProcessStateFails
    PROVE  PipelineIn(A, D)'
  <1> USE DEF readerVars, bulkVars
  <1>1. CASE StoreEvent
    BY <1>1 DEF StoreEvent, Store, PipelineIn
  <1>2. CASE ackMsg
    BY <1>2 DEF ackMsg, Ack, PipelineIn
  <1>3. CASE ~StoreEvent /\ ~ackMsg
    <2>1. UNCHANGED <<committed, stash, ackChannel, queue, buffer, callbacks>>
      BY <1>3 DEF Consumer, StopConsuming, NotQuit, Fetch, FetchMessage, FetchEOF, Discard,
                  UnknownName, ProcessState, ProcessStateExpire, ProcessStateFails, SkipEvent,
                  EnrichEvent, StorePanics
    <2> QED
      BY <2>1, PipelineFrame
  <1> QED
    BY <1>1, <1>2, <1>3

LEMMA PipelineStep ==
    ASSUME NEW A, NEW D, 0 \in A, PipelineIn(A, D),
           (\E w \in Workers : SendBulk(w)) => \A d \in D : d.offset \in A,
           pc = "ack" => cur \in A,
           pc = "store" => enriched \in D,
           [Next]_vars
    PROVE  PipelineIn(A, D)'
  <1> USE DEF readerVars, bulkVars
  <1>1. CASE Consumer \/ ProcessStateFails
    BY <1>1, PipelineConsumer
  <1>2. CASE Committer \/ Signal \/ CloseReader \/ NewGeneration
    BY <1>2, PipelineCommit DEF Committer, Signal, CloseReader, NewGeneration
  <1>3. CASE \E w \in Workers : Receive(w) \/ SendBulk(w) \/ Callback(w)
    BY <1>3, PipelineWorker
  <1>4. CASE CloseProjection \/ SecondSignal \/ Producer \/ Expiry \/ UNCHANGED vars
    BY <1>4, PipelineFrame
    DEF CloseProjection, Close, CloseReturns, SecondSignal, Producer, Produce, Expiry, vars
  <1>5. CASE Exit \/ Crash
    <2>1. /\ UNCHANGED committed /\ stash' = 0 /\ ackChannel' = <<>> /\ queue' = <<>>
          /\ buffer' = [w \in Workers |-> <<>>] /\ callbacks' = [w \in Workers |-> <<>>]
      BY <1>5 DEF Exit, Crash, Restart, ReaderRestart, RepositoryRestart
    <2> QED
      BY <2>1 DEF PipelineIn
  <1> QED
    BY <1>1, <1>2, <1>3, <1>4, <1>5 DEF Next

(* The topic only grows: what a step does to its messages. *)
LEMMA TopicGrows ==
    ASSUME TypeOK, [Next]_vars
    PROVE  \/ UNCHANGED topic
           \/ /\ Producer
              /\ Len(topic') = Len(topic) + 1
              /\ \A o \in Offsets : topic'[o] = topic[o]
  <1> USE DEF readerVars
  <1>1. CASE Producer
    <2>1. topic \in Seq(Messages) /\ \E m \in Messages : topic' = Append(topic, m)
      BY <1>1 DEF Producer, Produce, TypeOK, ReaderTypeOK
    <2> QED
      BY <1>1, <2>1
  <1>2. CASE Consumer \/ ProcessStateFails
    BY <1>2 DEF Consumer, StopConsuming, NotQuit, Fetch, FetchMessage, FetchEOF, Discard,
                UnknownName, ProcessState, ProcessStateExpire, ProcessStateFails, SkipEvent,
                EnrichEvent, StoreEvent, StorePanics, ackMsg
  <1>3. CASE \E w \in Workers : Receive(w) \/ SendBulk(w) \/ Callback(w)
    BY <1>3 DEF Receive, SendBulk, Callback
  <1>4. CASE Committer \/ Signal \/ CloseReader \/ CloseProjection \/ SecondSignal
               \/ NewGeneration \/ Expiry \/ UNCHANGED vars
    BY <1>4 DEF Committer, ListenForCommit, CommitTick, Signal, CloseQuitChannel, CloseReader,
                CloseKafkaReader, CloseProjection, SecondSignal, NewGeneration, Rebalance,
                Expiry, vars
  <1>5. CASE Exit \/ Crash
    BY <1>5 DEF Exit, Crash, Restart, ReaderRestart
  <1> QED
    BY <1>1, <1>2, <1>3, <1>4, <1>5 DEF Next

LEMMA EnrichedEventGrows ==
    ASSUME TypeOK, [Next]_vars
    PROVE  EnrichedEvent \subseteq EnrichedEvent'
  <1>1. Offsets \subseteq Offsets'
    BY TopicGrows DEF TypeOK, ReaderTypeOK
  <1> QED
    BY <1>1 DEF EnrichedEvent

(* Only a bulk request writes to OpenSearch. *)
LEMMA IndexWriter ==
    ASSUME [Next]_vars
    PROVE  UNCHANGED index \/ \E w \in Workers : SendBulk(w)
  <1> USE DEF bulkVars
  <1>1. CASE Consumer \/ ProcessStateFails
    BY <1>1 DEF Consumer, StopConsuming, NotQuit, Fetch, FetchEOF, Discard, UnknownName,
                ProcessState, ProcessStateExpire, ProcessStateFails, SkipEvent, EnrichEvent,
                StoreEvent, Store, StorePanics, ackMsg
  <1>2. CASE \E w \in Workers : Receive(w) \/ Callback(w)
    BY <1>2 DEF Receive, Take, Callback, OnSuccess, OnFailure
  <1>3. CASE Committer \/ Signal \/ CloseReader \/ CloseProjection \/ SecondSignal
               \/ Producer \/ NewGeneration \/ Expiry \/ Exit \/ Crash \/ UNCHANGED vars
    BY <1>3 DEF Committer, Signal, CloseReader, CloseProjection, Close, CloseReturns, SecondSignal,
                Producer, NewGeneration, Expiry, Exit, Crash, Restart, RepositoryRestart, vars
  <1> QED
    BY <1>1, <1>2, <1>3 DEF Next

(* Without a rebalance only a restart rewinds the reader. *)
LEMMA PositionGrows ==
    ASSUME TypeOK, "rebalance" \notin Faults, [Next]_vars, ~(Exit \/ Crash)
    PROVE  position' \in Nat /\ position <= position'
  <1> USE DEF readerVars
  <1>0. position \in Nat
    BY DEF TypeOK, ReaderTypeOK
  <1>1. CASE Fetch
    BY <1>0, <1>1 DEF Fetch, FetchMessage
  <1>2. CASE Consumer /\ ~Fetch
    BY <1>0, <1>2 DEF Consumer, StopConsuming, NotQuit, FetchEOF, Discard, UnknownName, ProcessState,
                      ProcessStateExpire, SkipEvent, EnrichEvent, StoreEvent, StorePanics, ackMsg
  <1>3. CASE ProcessStateFails \/ Expiry \/ NewGeneration
    BY <1>0, <1>3 DEF ProcessStateFails, Expiry, NewGeneration, Rebalance
  <1>4. CASE \E w \in Workers : Receive(w) \/ SendBulk(w) \/ Callback(w)
    BY <1>0, <1>4 DEF Receive, SendBulk, Callback
  <1>5. CASE Committer \/ Signal \/ CloseReader \/ CloseProjection \/ SecondSignal
               \/ Producer \/ UNCHANGED vars
    BY <1>0, <1>5 DEF Committer, ListenForCommit, CommitTick, Signal, CloseQuitChannel, CloseReader,
                CloseKafkaReader, CloseProjection, SecondSignal, Producer, Produce, vars
  <1> QED
    BY <1>1, <1>2, <1>3, <1>4, <1>5 DEF Next

-----------------------------------------------------------------------------
(* The unknown message at offset u is a barrier: nothing in the pipeline   *)
(* reaches u, and the reader gets to u only to find the process ending.  A *)
(* rebalance may move the position while the consumer is still on its      *)
(* message, hence the separate bounds on cur.                              *)
DocumentsBelow(u) ==
    [offset : 0 .. u - 1, cluster : Nat, hosts : [IDs -> Nat], infra_envs : [IDs -> Nat]]

ConsumerBarrier(u) ==
    /\ position <= u
    /\ position = u => (pc = "process" /\ cur = u) \/ pc = "exit"
    /\ cur <= u
    /\ pc \in {"expire", "store", "ack"} => cur < u
    /\ pc = "store" => enriched \in DocumentsBelow(u)

Barrier(u) == PipelineIn(0 .. u - 1, DocumentsBelow(u)) /\ ConsumerBarrier(u)

UnknownInv == \A u \in Offsets : topic[u].name = "other" => Barrier(u)

(* The consumer reaches the barrier, but only UnknownName leaves it. *)
LEMMA ConsumerBelow ==
    ASSUME TypeOK, NEW u \in Offsets, topic[u].name = "other", ConsumerBarrier(u),
           Consumer \/ ProcessStateFails
    PROVE  ConsumerBarrier(u)'
  <1> USE DEF readerVars
  <1>0. u \in Nat /\ 0 < u /\ cur \in Nat /\ position \in Nat
    BY DEF TypeOK, ConsumerTypeOK, ReaderTypeOK
  <1>1. ~IsState(topic[u]) /\ ~IsEvent(topic[u])
    BY DEF IsState, IsEvent, StateNames
  <1>2. CASE StopConsuming \/ NotQuit \/ FetchEOF \/ UnknownName \/ SkipEvent \/ StorePanics
               \/ StoreEvent
    <2>1. /\ UNCHANGED position /\ cur' = 0
          /\ pc' \in {"select", "fetch", "exit"}
          /\ pc' # "exit" => pc \in {"select", "store"} \/ (pc = "process" /\ IsEvent(msg))
      BY <1>2 DEF StopConsuming, NotQuit, FetchEOF, UnknownName, SkipEvent, StorePanics,
                  StoreEvent, Return
    <2> QED
      BY <1>0, <1>1, <2>1 DEF ConsumerBarrier, msg
  <1>3. CASE Fetch
    BY <1>0, <1>3 DEF Fetch, FetchMessage, ConsumerBarrier
  <1>4. CASE Discard \/ ProcessState \/ ProcessStateExpire \/ ProcessStateFails
    <2>1. /\ UNCHANGED <<position, cur>>
          /\ pc' \in {"expire", "ack"}
          /\ pc = "expire" \/ (pc = "process" /\ msg.name # "other")
      BY <1>4 DEF Discard, ProcessState, ProcessStateExpire, ProcessStateFails,
                  Owe, IsState, StateNames
    <2>2. cur < u
      BY <1>0, <2>1 DEF ConsumerBarrier, msg
    <2> QED
      BY <1>0, <2>1, <2>2 DEF ConsumerBarrier
  <1>5. CASE EnrichEvent
    <2>1. cur < u
      BY <1>0, <1>1, <1>5 DEF EnrichEvent, ConsumerBarrier, msg
    <2>2. PICK fails : enriched' = GetEnrichedEvent(cur, msg.cluster_id, fails)
      BY <1>5 DEF EnrichEvent
    <2>3. cur \in Offsets /\ msg.cluster_id \in IDs
      BY <1>5, MsgType DEF EnrichEvent, IsEvent, WellFormed, Message
    <2>4. enriched' \in EnrichedEvent /\ enriched'.offset = cur
      BY <2>2, <2>3, GetEnrichedEventType DEF GetEnrichedEvent
    <2>5. enriched' \in DocumentsBelow(u)
      BY <1>0, <2>1, <2>4 DEF EnrichedEvent, DocumentsBelow
    <2> QED
      BY <1>0, <1>5, <2>1, <2>5 DEF EnrichEvent, ConsumerBarrier
  <1>6. CASE ackMsg
    <2>1. /\ UNCHANGED position /\ pc = "ack"
          /\ \/ UNCHANGED <<pc, cur>>
             \/ cur' = 0 /\ pc' \in {"select", "exit"}
      BY <1>6 DEF ackMsg, Return
    <2> QED
      BY <1>0, <2>1 DEF ConsumerBarrier
  <1> QED
    BY <1>2, <1>3, <1>4, <1>5, <1>6 DEF Consumer

LEMMA NextBelow ==
    ASSUME TypeOK, NEW u \in Offsets, topic[u].name = "other", Barrier(u), [Next]_vars
    PROVE  Barrier(u)'
  <1> USE DEF readerVars
  <1>0. /\ u \in Nat /\ 0 < u /\ cur \in Nat /\ committed \in Nat /\ stash \in Nat
        /\ position \in Nat /\ PipelineIn(0 .. u - 1, DocumentsBelow(u)) /\ ConsumerBarrier(u)
    BY DEF TypeOK, ReaderTypeOK, ConsumerTypeOK, Barrier
  <1>1. committed < u /\ stash < u
    BY <1>0 DEF PipelineIn
  <1>2. PipelineIn(0 .. u - 1, DocumentsBelow(u))'
    <2>1. PICK A, D : A = 0 .. u - 1 /\ D = DocumentsBelow(u)
      OBVIOUS
    <2>2. 0 \in A /\ (\A d \in D : d.offset \in A)
      BY <1>0, <2>1 DEF DocumentsBelow
    <2>3. (pc = "ack" => cur \in A) /\ (pc = "store" => enriched \in D)
      BY <1>0, <2>1 DEF ConsumerBarrier
    <2>4. PipelineIn(A, D)'
      BY <1>0, <2>1, <2>2, <2>3, PipelineStep
    <2> QED
      BY <2>1, <2>4 DEF DocumentsBelow
  <1>3. ConsumerBarrier(u)'
    <2>1. CASE Consumer \/ ProcessStateFails
      BY <1>0, <2>1, ConsumerBelow
    <2>2. CASE \/ Committer \/ Signal \/ CloseReader \/ CloseProjection \/ Producer \/ Expiry
               \/ (\E w \in Workers : Receive(w) \/ SendBulk(w) \/ Callback(w)) \/ UNCHANGED vars
      <3>1. UNCHANGED <<position, consumerVars>>
        BY <2>2 DEF Committer, ListenForCommit, CommitTick, Signal, CloseQuitChannel, CloseReader,
                    CloseKafkaReader, CloseProjection, Producer, Produce, Expiry, Receive,
                    SendBulk, Callback, vars
      <3> QED
        BY <1>0, <3>1 DEF ConsumerBarrier, consumerVars
    <2>3. CASE NewGeneration
      <3>1. UNCHANGED consumerVars /\ position' = committed' /\ committed' \in {committed, stash}
        BY <2>3 DEF NewGeneration, Rebalance, FinalCommit
      <3> QED
        BY <1>0, <1>1, <3>1 DEF ConsumerBarrier, consumerVars
    <2>4. CASE SecondSignal
      BY <1>0, <2>4 DEF SecondSignal, Return, ConsumerBarrier
    <2>5. CASE Exit \/ Crash
      BY <1>0, <1>1, <2>5 DEF Exit, Crash, Restart, ReaderRestart, Return, ConsumerBarrier
    <2> QED
      BY <2>1, <2>2, <2>3, <2>4, <2>5 DEF Next
  <1> QED
    BY <1>2, <1>3 DEF Barrier

(* Every offset lies below one that is not in the topic yet. *)
LEMMA NewBarrier ==
    ASSUME TypeOK, NEW u \in Nat, Len(topic) < u
    PROVE  Barrier(u)
  <1>0. ReaderTypeOK /\ RepositoryTypeOK /\ ConsumerTypeOK /\ Len(topic) \in Nat
    BY DEF TypeOK, ReaderTypeOK
  <1>1. Offsets \subseteq 0 .. u - 1 /\ 0 .. Len(topic) \subseteq 0 .. u - 1
    BY <1>0
  <1>2. EnrichedEvent \subseteq DocumentsBelow(u)
    BY <1>1 DEF EnrichedEvent, DocumentsBelow
  <1>3. /\ Seq(Offsets) \subseteq Seq(0 .. u - 1)
        /\ Seq(0 .. Len(topic)) \subseteq Seq(0 .. u - 1)
        /\ Seq(EnrichedEvent) \subseteq Seq(DocumentsBelow(u))
    BY <1>1, <1>2, SeqMonotone
  <1>4. PipelineIn(0 .. u - 1, DocumentsBelow(u))
    BY <1>0, <1>1, <1>3 DEF ReaderTypeOK, RepositoryTypeOK, PipelineIn
  <1>5. ConsumerBarrier(u)
    BY <1>0, <1>2 DEF ReaderTypeOK, ConsumerTypeOK, ConsumerBarrier
  <1> QED
    BY <1>4, <1>5 DEF Barrier

LEMMA InitUnknownInv == Init => UnknownInv
  <1> SUFFICES ASSUME Init, NEW u \in Offsets PROVE Barrier(u)
    BY DEF UnknownInv
  <1>1. u \in Nat /\ 0 < u
    BY InitTypeOK DEF TypeOK, ReaderTypeOK
  <1> QED
    BY <1>1 DEF Init, ReaderInit, RepositoryInit, Barrier, PipelineIn, ConsumerBarrier

LEMMA NextUnknownInv ==
    ASSUME TypeOK, UnknownInv, [Next]_vars
    PROVE  UnknownInv'
  <1> SUFFICES ASSUME NEW u \in Offsets', topic'[u].name = "other"
               PROVE  Barrier(u)'
    BY DEF UnknownInv
  <1>1. CASE u \in Offsets
    <2>1. topic'[u] = topic[u]
      BY <1>1, TopicGrows
    <2> QED
      BY <1>1, <2>1, NextBelow DEF UnknownInv
  <1>2. CASE u \notin Offsets
    <2>1. Producer /\ u \in Nat /\ Len(topic) < u
      BY <1>2, TopicGrows DEF TypeOK, ReaderTypeOK
    <2>2. Barrier(u)
      BY <2>1, NewBarrier
    <2> QED
      BY <2>1, <2>2 DEF Producer, Produce, Barrier, PipelineIn, ConsumerBarrier, bulkVars, consumerVars
  <1> QED
    BY <1>1, <1>2

(* An unknown event name stops the consumer group for good: whatever       *)
(* fails, crashes or rebalances, the committed offset stays before it.     *)
THEOREM UnknownNameBlocks == Spec => []NeverPastUnknown
  <1>1. Init => UnknownInv
    BY InitUnknownInv
  <1>2. TypeOK /\ UnknownInv /\ [Next]_vars => UnknownInv'
    BY NextUnknownInv
  <1>3. TypeOK /\ UnknownInv => NeverPastUnknown
    <2> SUFFICES ASSUME TypeOK, UnknownInv, NEW u \in Offsets, topic[u].name = "other",
                        NEW a \in Acknowledged
                 PROVE  a < u
      BY DEF NeverPastUnknown
    <2>1. u \in Nat /\ PipelineIn(0 .. u - 1, DocumentsBelow(u))
      BY DEF UnknownInv, Barrier, TypeOK, ReaderTypeOK
    <2>2. a \in 0 .. u - 1
      BY <2>1 DEF PipelineIn, Acknowledged
    <2> QED
      BY <2>1, <2>2
  <1> QED
    BY <1>1, <1>2, <1>3, TypeCorrect, PTL DEF Spec
=============================================================================
