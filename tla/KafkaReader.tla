---------------------------- MODULE KafkaReader ----------------------------
(***************************************************************************)
(* pkg/stream/reader.go together with what it uses of kafka-go: one topic  *)
(* partition, the consumer group's committed offset, the reader's position *)
(* and the path of an acknowledgement from the ack channel through         *)
(* listenForCommit and the offset stash to the broker.                     *)
(*                                                                         *)
(* Offsets count from 1, so the offset kafka-go commits for the message at *)
(* offset o (msg.Offset + 1, the next one to deliver) is here o itself and *)
(* committed = 0 means that the group has no committed offset.             *)
(***************************************************************************)
EXTENDS Naturals, Sequences

CONSTANTS Messages,             \* the messages producers may write to the topic
          AckChannelBufferSize, \* capacity of the ack channel (1000 in main.go)
          InitialTopics,        \* what the topic may hold when the group first joins
          MaxOffset,            \* bound: messages ever produced
          Faults                \* the faults the environment may inject

ASSUME ReaderAssumption ==
    /\ AckChannelBufferSize \in Nat \ {0}
    /\ InitialTopics \subseteq Seq(Messages)
    /\ MaxOffset \in Nat

VARIABLES
    topic,       \* the partition: a sequence of messages
    committed,   \* the group's offset at the broker
    position,    \* the last offset FetchMessage delivered
    ackChannel,  \* offsets acknowledged and not yet handed to CommitMessages
    stash,       \* kafka-go's offsetStash: the offset the next commit sends, 0 if none
    reader       \* "running", "quit" (quitChannel closed), "closed" (kafkaReader.Close returned)

readerVars == <<topic, committed, position, ackChannel, stash, reader>>

Offsets == 1 .. Len(topic)

ReaderTypeOK ==
    /\ topic \in Seq(Messages)
    /\ committed \in 0 .. Len(topic)
    /\ position \in 0 .. Len(topic)
    /\ ackChannel \in Seq(Offsets)
    /\ stash \in 0 .. Len(topic)
    /\ reader \in {"running", "quit", "closed"}

ReaderInit ==
    /\ topic \in InitialTopics
    /\ committed = 0
    /\ position = 0
    /\ ackChannel = <<>>
    /\ stash = 0
    /\ reader = "running"

-----------------------------------------------------------------------------
(* The broker appends whatever a producer sends (external). *)
Produce ==
    /\ Len(topic) < MaxOffset
    /\ \E m \in Messages : topic' = Append(topic, m)
    /\ UNCHANGED <<committed, position, ackChannel, stash, reader>>

(* offsetStash.merge keeps the highest offset of the partition. *)
Merge(offsets, o) == IF o > offsets THEN o ELSE offsets

(* FetchMessage hands out the next message of the partition.  It may still *)
(* do so after Close: messages already prefetched into the reader's msgs   *)
(* channel are received before the channel reports that it is closed.      *)
(* (Mutants: it reads past the end; it commits like kafka-go's ReadMessage.) *)
FetchMessagePastEnd ==
    /\ position <= Len(topic)
    /\ position' = position + 1
    /\ UNCHANGED <<topic, committed, ackChannel, stash, reader>>

ReadMessage ==
    /\ position < Len(topic)
    /\ position' = position + 1
    /\ stash' = Merge(stash, position + 1)
    /\ UNCHANGED <<topic, committed, ackChannel, reader>>

FetchMessage ==
    /\ position < Len(topic)
    /\ position' = position + 1
    /\ UNCHANGED <<topic, committed, ackChannel, stash, reader>>

(* A blocking send of one acknowledgement into the ack channel. *)
Ack(o) ==
    /\ Len(ackChannel) < AckChannelBufferSize
    /\ ackChannel' = Append(ackChannel, o)

(* listenForCommit never stops receiving.  CommitMessages puts the offset  *)
(* into the stash, or, once the reader is being closed, returns            *)
(* io.ErrClosedPipe (or queues a request nobody serves) and it is dropped. *)
(* (Mutant: it stops receiving when the quit channel is closed.)           *)
ListenForCommitUntilQuit ==
    /\ ackChannel # <<>>
    /\ reader = "running"
    /\ ackChannel' = Tail(ackChannel)
    /\ stash' = Merge(stash, Head(ackChannel))
    /\ UNCHANGED <<topic, committed, position, reader>>

ListenForCommit ==
    /\ ackChannel # <<>>
    /\ ackChannel' = Tail(ackChannel)
    /\ \/ reader # "closed" /\ stash' = Merge(stash, Head(ackChannel))
       \/ reader # "running" /\ UNCHANGED stash
    /\ UNCHANGED <<topic, committed, position, reader>>

(* The commit interval elapsed: the stash is sent to the broker and reset. *)
(* The broker takes it as it is, even when it is below the offset          *)
(* committed before.  A failed commit keeps the stash: a stuttering step.  *)
CommitTick ==
    /\ reader # "closed"
    /\ stash # 0
    /\ committed' = stash
    /\ stash' = 0
    /\ UNCHANGED <<topic, position, ackChannel, reader>>

(* The final commit of a generation may be refused; the stash is gone      *)
(* either way.                                                             *)
FinalCommit ==
    /\ stash' = 0
    /\ \/ UNCHANGED committed
       \/ stash # 0 /\ committed' = stash

(* A consumer group generation ends and the next one begins: the reader    *)
(* restarts at the committed offset and drops what it had prefetched.  The *)
(* process keeps its ack channel, its bulk buffers and the message it is   *)
(* working on.                                                             *)
Rebalance ==
    /\ "rebalance" \in Faults
    /\ reader # "closed"
    /\ FinalCommit
    /\ position' = committed'
    /\ UNCHANGED <<topic, ackChannel, reader>>

(* KafkaReader.Close: close(quitChannel), then kafkaReader.Close(). *)
CloseQuitChannel ==
    /\ reader = "running"
    /\ reader' = "quit"
    /\ UNCHANGED <<topic, committed, position, ackChannel, stash>>

CloseKafkaReader ==
    /\ reader = "quit"
    /\ reader' = "closed"
    /\ FinalCommit
    /\ UNCHANGED <<topic, position, ackChannel>>

(* The process is gone and a new one joined the group: it starts at the    *)
(* committed offset, or at the first message (StartOffset's default).      *)
ReaderRestart ==
    /\ ackChannel' = <<>>
    /\ stash' = 0
    /\ position' = committed
    /\ reader' = "running"
    /\ UNCHANGED <<topic, committed>>
=============================================================================
