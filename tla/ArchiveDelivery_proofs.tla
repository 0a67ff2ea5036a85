------------------------ MODULE ArchiveDelivery_proofs ------------------------
(***************************************************************************)
(* Proofs that the on-prem process works on an archive in one place at a   *)
(* time, loses none silently, acknowledges it after its events were        *)
(* written, and writes the states before the events.                       *)
(***************************************************************************)
EXTENDS OnPremEventsHydrator_proofs

USE DEF Offsets, Goroutines

(* The place number i of kind k holds the message at offset o. *)
HeldAt(k, i, o) ==
    \/ k = "cur" /\ i = 0 /\ cur = o
    \/ k = "download" /\ i \in 1 .. Len(downloadChannel) /\ downloadChannel[i] = o
    \/ k = "untar" /\ i \in 1 .. Len(untarChannel) /\ untarChannel[i] = o
    \/ k = "job" /\ i \in Goroutines /\ jobs[i].offset = o
    \/ k = "ack" /\ i \in 1 .. Len(ackChannel) /\ ackChannel[i] = o
    \/ k = "stash" /\ i = 0 /\ stash = o
    \/ k = "committed" /\ i = 0 /\ committed = o

(* Whatever is held was delivered, and is held in one place. *)
HeldInv ==
    \A o \in Nat \ {0} : \A k, i : HeldAt(k, i, o) =>
        /\ o <= position
        /\ \A l, j : HeldAt(l, j, o) => k = l /\ i = j

LEMMA HoldersOnce == ASSUME TypeOK, HeldInv PROVE HeldOnce
  <1> SUFFICES ASSUME NEW o \in Offsets, NEW x \in Holders(o), NEW y \in Holders(o) PROVE x = y
    BY DEF HeldOnce
  <1>0. o \in Nat \ {0}
    BY TypeParts DEF ReaderTypeOK
  <1>1. /\ DOMAIN downloadChannel = 1 .. Len(downloadChannel)
        /\ DOMAIN untarChannel = 1 .. Len(untarChannel)
        /\ DOMAIN ackChannel = 1 .. Len(ackChannel)
    BY DEF TypeOK, ReaderTypeOK
  <1>2. ASSUME NEW z \in Holders(o) PROVE \E k, i : z = <<k, i>> /\ HeldAt(k, i, o)
    BY <1>1, <1>2 DEF Holders, HeldAt
  <1> QED
    BY <1>0, <1>2 DEF HeldInv

-----------------------------------------------------------------------------
(* The ways in which a step may change what is held: drop some of it, move *)
(* it from one place to another that is free or overwritten, or receive    *)
(* the head of channel q into such a place.                                *)
Dropped == \A o \in Nat \ {0} : \A k, i : HeldAt(k, i, o)' => HeldAt(k, i, o)

Moved(k0, i0, k1, i1) ==
    \A o \in Nat \ {0} : \A k, i : HeldAt(k, i, o)' =>
        \/ HeldAt(k, i, o) /\ ~(k = k0 /\ i = i0) /\ ~(k = k1 /\ i = i1)
        \/ k = k1 /\ i = i1 /\ HeldAt(k0, i0, o)

Received(q, k1, i1) ==
    \A o \in Nat \ {0} : \A k, i : HeldAt(k, i, o)' =>
        \/ k # q /\ HeldAt(k, i, o) /\ ~(k = k1 /\ i = i1)
        \/ k = q /\ i \in Nat \ {0} /\ HeldAt(q, i + 1, o)
        \/ k = k1 /\ i = i1 /\ HeldAt(q, 1, o)

Relocates ==
    \/ Dropped
    \/ \E k0, i0, k1, i1 : Moved(k0, i0, k1, i1)
    \/ \E q, k1, i1 : k1 # q /\ Received(q, k1, i1)

LEMMA Keep == ASSUME HeldInv, position' = position, Dropped PROVE HeldInv'
  BY DEF HeldInv, Dropped

LEMMA Move ==
    ASSUME HeldInv, position' = position, NEW k0, NEW i0, NEW k1, NEW i1, Moved(k0, i0, k1, i1)
    PROVE  HeldInv'
  BY DEF HeldInv, Moved

LEMMA Shift ==
    ASSUME HeldInv, position' = position, NEW q, NEW k1, NEW i1, k1 # q, Received(q, k1, i1)
    PROVE  HeldInv'
  <1> SUFFICES ASSUME NEW o \in Nat \ {0}, NEW k, NEW i, HeldAt(k, i, o)', NEW l, NEW j, HeldAt(l, j, o)'
               PROVE  o <= position' /\ k = l /\ i = j
    BY DEF HeldInv
  <1>1. \/ k # q /\ HeldAt(k, i, o) /\ ~(k = k1 /\ i = i1)
        \/ k = q /\ i \in Nat \ {0} /\ HeldAt(q, i + 1, o)
        \/ k = k1 /\ i = i1 /\ HeldAt(q, 1, o)
    BY DEF Received
  <1>2. \/ l # q /\ HeldAt(l, j, o) /\ ~(l = k1 /\ j = i1)
        \/ l = q /\ j \in Nat \ {0} /\ HeldAt(q, j + 1, o)
        \/ l = k1 /\ j = i1 /\ HeldAt(q, 1, o)
    BY DEF Received
  <1>3. \A a, b, c, d : HeldAt(a, b, o) /\ HeldAt(c, d, o) => o <= position /\ a = c /\ b = d
    BY DEF HeldInv
  <1> HIDE DEF HeldInv
  <1>4. CASE k = q
    BY <1>1, <1>2, <1>3, <1>4
  <1>5. CASE k # q
    BY <1>1, <1>2, <1>3, <1>5
  <1> QED
    BY <1>4, <1>5

LEMMA RelocateHeld == ASSUME HeldInv, position' = position, Relocates PROVE HeldInv'
  BY Keep, Move, Shift DEF Relocates

(* Nothing is held that was not held before. *)
LEMMA RelocateSource ==
    ASSUME Relocates, NEW o \in Nat \ {0}, NEW k, NEW i, HeldAt(k, i, o)'
    PROVE  \E l, j : HeldAt(l, j, o)
  BY DEF Relocates, Dropped, Moved, Received

-----------------------------------------------------------------------------
LEMMA ConsumerHeld ==
    ASSUME TypeOK, Consumer, ~Fetch
    PROVE  Relocates /\ UNCHANGED <<topic, position>>
  <1> USE DEF Return, readerVars, channelVars
  <1>0. /\ downloadChannel \in Seq(Archives) /\ ackChannel \in Seq(Offsets)
        /\ cur \in Nat /\ position \in Nat /\ Len(topic) \in Nat
    BY TypeParts DEF ChannelTypeOK, ReaderTypeOK, ConsumerTypeOK
  <1>1. CASE StopConsuming \/ NotQuit \/ FetchEOF \/ DropUndecodable
    <2>1. UNCHANGED <<readerVars, channelVars, jobs>> /\ cur' = 0
      BY <1>1 DEF StopConsuming, NotQuit, FetchEOF, DropUndecodable
    <2> QED
      BY <2>1 DEF HeldAt, Dropped, Relocates
  <1>3. CASE AckOther
    <2>1. /\ UNCHANGED <<topic, position, committed, stash, channelVars, jobs>> /\ cur' = 0
          /\ ackChannel' = Append(ackChannel, cur)
      BY <1>3 DEF AckOther, Ack
    <2>2. PICK n : n = Len(ackChannel) + 1
      OBVIOUS
    <2>3. /\ Len(ackChannel') = n /\ n \in Nat /\ ackChannel'[n] = cur
          /\ \A i \in 1 .. n : i # n => i \in 1 .. Len(ackChannel) /\ ackChannel'[i] = ackChannel[i]
          /\ n \notin 1 .. Len(ackChannel)
      BY <1>0, <2>1, <2>2
    <2>4. ASSUME NEW o \in Nat \ {0}, NEW k, NEW i, HeldAt(k, i, o)'
          PROVE  \/ HeldAt(k, i, o) /\ ~(k = "cur" /\ i = 0) /\ ~(k = "ack" /\ i = n)
                 \/ k = "ack" /\ i = n /\ HeldAt("cur", 0, o)
      BY <2>1, <2>3, <2>4 DEF HeldAt
    <2>5. Moved("cur", 0, "ack", n)
      BY <2>4 DEF Moved
    <2> QED
      BY <2>1, <2>5 DEF Relocates
  <1>4. CASE enqueueDownload
    <2>1. /\ UNCHANGED <<topic, position, committed, ackChannel, stash, untarChannel, jobs>> /\ cur' = 0
          /\ downloadChannel' = Append(downloadChannel, cur) /\ IsArchive(cur) /\ pc = "process"
      BY <1>4 DEF enqueueDownload
    <2>2. PICK n : n = Len(downloadChannel) + 1
      OBVIOUS
    <2>a. cur \in Archives
      <3>1. cur \in 0 .. Len(topic) /\ cur # 0
        BY <2>1, TypeParts DEF ConsumerTypeOK
      <3> QED
        BY <1>0, <2>1, <3>1 DEF Archives
    <2>3. /\ Len(downloadChannel') = n /\ n \in Nat /\ downloadChannel'[n] = cur
          /\ \A i \in 1 .. n : i # n => i \in 1 .. Len(downloadChannel) /\ downloadChannel'[i] = downloadChannel[i]
          /\ n \notin 1 .. Len(downloadChannel)
      BY <1>0, <2>1, <2>2, <2>a
    <2>4. ASSUME NEW o \in Nat \ {0}, NEW k, NEW i, HeldAt(k, i, o)'
          PROVE  \/ HeldAt(k, i, o) /\ ~(k = "cur" /\ i = 0) /\ ~(k = "download" /\ i = n)
                 \/ k = "download" /\ i = n /\ HeldAt("cur", 0, o)
      BY <2>1, <2>3, <2>4 DEF HeldAt
    <2>5. Moved("cur", 0, "download", n)
      BY <2>4 DEF Moved
    <2> QED
      BY <2>1, <2>5 DEF Relocates
  <1> QED
    BY <1>1, <1>3, <1>4 DEF Consumer

LEMMA FetchHeld ==
    ASSUME TypeOK, HeldInv, Fetch
    PROVE  HeldInv'
  <1> USE DEF channelVars
  <1>0. position \in Nat
    BY TypeParts DEF ReaderTypeOK
  <1>1. /\ UNCHANGED <<topic, committed, ackChannel, stash, channelVars, jobs>>
        /\ position' = position + 1 /\ cur' = position + 1
    BY DEF Fetch, FetchMessage
  <1>2. ASSUME NEW o \in Nat \ {0}, NEW k, NEW i, HeldAt(k, i, o)'
        PROVE  \/ HeldAt(k, i, o) /\ o <= position
               \/ k = "cur" /\ i = 0 /\ o = position + 1
    <2>1. HeldAt(k, i, o) \/ (k = "cur" /\ i = 0 /\ o = position + 1)
      BY <1>1, <1>2 DEF HeldAt
    <2> QED
      BY <2>1 DEF HeldInv
  <1> QED
    <2> SUFFICES ASSUME NEW o \in Nat \ {0}, NEW k, NEW i, HeldAt(k, i, o)', NEW l, NEW j, HeldAt(l, j, o)'
                 PROVE  o <= position' /\ k = l /\ i = j
      BY DEF HeldInv
    <2>1. (HeldAt(k, i, o) /\ o <= position) \/ (k = "cur" /\ i = 0 /\ o = position + 1)
      BY <1>2
    <2>2. (HeldAt(l, j, o) /\ o <= position) \/ (l = "cur" /\ j = 0 /\ o = position + 1)
      BY <1>2
    <2>3. CASE o = position + 1
      BY <1>0, <1>1, <2>1, <2>2, <2>3
    <2>4. CASE o # position + 1
      BY <1>0, <1>1, <2>1, <2>2, <2>4 DEF HeldInv
    <2> QED
      BY <2>3, <2>4

LEMMA ListenHeld ==
    ASSUME TypeOK, ListenDownload \/ ListenUntar \/ ListenDone
    PROVE  Relocates /\ UNCHANGED <<topic, position>>
  <1> USE DEF readerVars, consumerVars
  <1>0. /\ downloadChannel \in Seq(Archives) /\ untarChannel \in Seq(Archives)
        /\ DOMAIN jobs = Goroutines
    BY TypeParts DEF ChannelTypeOK, JobTypeOK
  <1>a. \A at, o : Job(at, o).offset = o
    BY DEF Job
  <1>1. CASE ListenDownload
    <2>1. /\ UNCHANGED <<topic, position, committed, ackChannel, stash, cur, untarChannel>>
          /\ downloadChannel # <<>> /\ downloadChannel' = Tail(downloadChannel)
          /\ Spawn("get", Head(downloadChannel))
      BY <1>1 DEF ListenDownload
    <2>2. PICK g \in Goroutines : jobs' = [jobs EXCEPT ![g] = Job("get", Head(downloadChannel))]
      BY <2>1 DEF Spawn
    <2>3. /\ Len(downloadChannel') = Len(downloadChannel) - 1 /\ Len(downloadChannel) \in Nat \ {0}
          /\ \A i \in 1 .. Len(downloadChannel') : downloadChannel'[i] = downloadChannel[i + 1]
          /\ Head(downloadChannel) = downloadChannel[1]
      BY <1>0, <2>1
    <2>4. /\ jobs'[g].offset = downloadChannel[1]
          /\ \A h \in Goroutines : h # g => jobs'[h] = jobs[h]
      BY <1>0, <1>a, <2>2, <2>3
    <2>5. ASSUME NEW o \in Nat \ {0}, NEW k, NEW i, HeldAt(k, i, o)'
          PROVE  \/ k # "download" /\ HeldAt(k, i, o) /\ ~(k = "job" /\ i = g)
                 \/ k = "download" /\ i \in Nat \ {0} /\ HeldAt("download", i + 1, o)
                 \/ k = "job" /\ i = g /\ HeldAt("download", 1, o)
      BY <2>1, <2>3, <2>4, <2>5 DEF HeldAt
    <2>6. Received("download", "job", g)
      BY <2>5 DEF Received
    <2> QED
      BY <2>1, <2>6 DEF Relocates
  <1>2. CASE ListenUntar
    <2>1. /\ UNCHANGED <<topic, position, committed, ackChannel, stash, cur, downloadChannel>>
          /\ untarChannel # <<>> /\ untarChannel' = Tail(untarChannel)
          /\ Spawn("extract", Head(untarChannel))
      BY <1>2 DEF ListenUntar
    <2>2. PICK g \in Goroutines : jobs' = [jobs EXCEPT ![g] = Job("extract", Head(untarChannel))]
      BY <2>1 DEF Spawn
    <2>3. /\ Len(untarChannel') = Len(untarChannel) - 1 /\ Len(untarChannel) \in Nat \ {0}
          /\ \A i \in 1 .. Len(untarChannel') : untarChannel'[i] = untarChannel[i + 1]
          /\ Head(untarChannel) = untarChannel[1]
      BY <1>0, <2>1
    <2>4. /\ jobs'[g].offset = untarChannel[1]
          /\ \A h \in Goroutines : h # g => jobs'[h] = jobs[h]
      BY <1>0, <1>a, <2>2, <2>3
    <2>5. ASSUME NEW o \in Nat \ {0}, NEW k, NEW i, HeldAt(k, i, o)'
          PROVE  \/ k # "untar" /\ HeldAt(k, i, o) /\ ~(k = "job" /\ i = g)
                 \/ k = "untar" /\ i \in Nat \ {0} /\ HeldAt("untar", i + 1, o)
                 \/ k = "job" /\ i = g /\ HeldAt("untar", 1, o)
      BY <2>1, <2>3, <2>4, <2>5 DEF HeldAt
    <2>6. Received("untar", "job", g)
      BY <2>5 DEF Received
    <2> QED
      BY <2>1, <2>6 DEF Relocates
  <1>3. CASE ListenDone
    BY <1>3 DEF ListenDone, HeldAt, Dropped, Relocates
  <1> QED
    BY <1>1, <1>2, <1>3

(* The steps in which a goroutine goes on with its message. *)
LEMMA OffsetsKept ==
    ASSUME TypeOK, NEW g \in Goroutines,
           CreateFile(g) \/ CopyBody(g) \/ ExtractEvents(g) \/ notifyEvent(g)
    PROVE  /\ \A h \in Goroutines : jobs'[h].offset = jobs[h].offset
           /\ UNCHANGED <<readerVars, consumerVars, channelVars>>
  <1>0. DOMAIN jobs = Goroutines /\ jobs \in [Goroutines -> JobState]
    BY TypeParts DEF JobTypeOK
  <1>a. \A at, o : Job(at, o).offset = o
    BY DEF Job
  <1>b. UNCHANGED <<readerVars, consumerVars, channelVars>>
    BY DEF CreateFile, CopyBody, ExtractEvents, notifyEvent
  <1>1. CASE CreateFile(g)
    <2>1. ASSUME NEW h \in Goroutines PROVE jobs'[h].offset = jobs[h].offset
      <3>1. jobs[h] \in JobState /\ jobs[g] \in JobState
        BY <1>0
      <3>2. \E r \in BOOLEAN : \/ jobs'[h] = [jobs[h] EXCEPT !.pc = "copy", !.raced = r]
                               \/ jobs'[h] = [jobs[h] EXCEPT !.raced = TRUE]
                               \/ jobs'[h] = jobs[h]
        <4>1. (\E k \in Goroutines : SameFile(g, k)) \in BOOLEAN
          OBVIOUS
        <4> QED
          BY <1>1, <4>1 DEF CreateFile
      <3> QED
        BY <3>1, <3>2 DEF JobState
    <2> QED
      BY <1>b, <2>1
  <1>2. CASE CopyBody(g)
    BY <1>0, <1>2, <1>a, <1>b DEF CopyBody
  <1>3. CASE ExtractEvents(g)
    <2>1. PICK e : \/ jobs' = [jobs EXCEPT ![g] = [Job("notify", jobs[g].offset) EXCEPT !.events = e]]
                   \/ jobs' = [jobs EXCEPT ![g] = Job("blocked", jobs[g].offset)]
      BY <1>3 DEF ExtractEvents
    <2>2. [Job("notify", jobs[g].offset) EXCEPT !.events = e].offset = jobs[g].offset
      BY DEF Job
    <2>a. PICK r : jobs' = [jobs EXCEPT ![g] = r] /\ r.offset = jobs[g].offset
      BY <1>a, <2>1, <2>2
    <2>3. \A h \in Goroutines : jobs'[h].offset = jobs[h].offset
      BY <1>0, <2>a
    <2> QED
      BY <1>b, <2>3
  <1>4. CASE notifyEvent(g)
    <2>1. jobs' = [jobs EXCEPT ![g] = [jobs[g] EXCEPT !.events = Tail(jobs[g].events)]]
      BY <1>4 DEF notifyEvent
    <2>a. jobs[g] \in JobState
      BY <1>0
    <2>2. [jobs[g] EXCEPT !.events = Tail(jobs[g].events)].offset = jobs[g].offset
      BY <2>a DEF JobState
    <2>3. \A h \in Goroutines : jobs'[h].offset = jobs[h].offset
      BY <1>0, <2>1, <2>2
    <2> QED
      BY <1>b, <2>3
  <1> QED
    BY <1>1, <1>2, <1>3, <1>4

LEMMA GoroutineHeld ==
    ASSUME TypeOK, NEW g \in Goroutines, Goroutine(g) \/ DownloadFails(g) \/ ExtractFails(g)
    PROVE  Relocates /\ UNCHANGED <<topic, position>>
  <1> USE DEF readerVars, consumerVars, channelVars
  <1>0. /\ untarChannel \in Seq(Archives) /\ ackChannel \in Seq(Offsets)
        /\ DOMAIN jobs = Goroutines /\ jobs \in [Goroutines -> JobState]
    BY TypeParts DEF ChannelTypeOK, JobTypeOK, ReaderTypeOK
  <1>1. jobs[g].pc # "idle"
    BY DEF Goroutine, CreateFile, CopyBody, SendFilename, ExtractEvents, notifyEvent, AckArchive,
           DownloadFails, ExtractFails
  <1>2. jobs[g].offset \in Archives /\ jobs[g].offset \in Offsets
    BY <1>1, JobArchive DEF Archives
  <1>a. /\ \A at, o : Job(at, o).offset = o
        /\ Idle.offset = 0
    BY DEF Job, Idle
  <1>3. ASSUME UNCHANGED <<topic, position, committed, ackChannel, stash, cur, downloadChannel,
                           untarChannel>>,
               \A h \in Goroutines : jobs'[h].offset \in {jobs[h].offset, 0}
        PROVE  Relocates /\ UNCHANGED <<topic, position>>
    BY <1>3 DEF HeldAt, Dropped, Relocates
  <1>4. CASE CreateFile(g) \/ CopyBody(g) \/ ExtractEvents(g) \/ notifyEvent(g)
    BY <1>3, <1>4, OffsetsKept
  <1>6. CASE DownloadFails(g) \/ ExtractFails(g)
    BY <1>0, <1>3, <1>6, <1>a DEF DownloadFails, ExtractFails
  <1>9. CASE SendFilename(g)
    <2>1. /\ UNCHANGED <<topic, position, committed, ackChannel, stash, cur, downloadChannel>>
          /\ untarChannel' = Append(untarChannel, jobs[g].offset) /\ jobs' = [jobs EXCEPT ![g] = Idle]
      BY <1>9 DEF SendFilename
    <2>2. PICK n : n = Len(untarChannel) + 1
      OBVIOUS
    <2>3. /\ Len(untarChannel') = n /\ n \in Nat /\ untarChannel'[n] = jobs[g].offset
          /\ \A i \in 1 .. n : i # n => i \in 1 .. Len(untarChannel) /\ untarChannel'[i] = untarChannel[i]
      BY <1>0, <1>2, <2>1, <2>2
    <2>4. jobs'[g].offset = 0 /\ \A h \in Goroutines : h # g => jobs'[h].offset = jobs[h].offset
      BY <1>0, <1>a, <2>1
    <2>5. Moved("job", g, "untar", n)
      BY <2>1, <2>3, <2>4 DEF HeldAt, Moved
    <2> QED
      BY <2>1, <2>5 DEF Relocates
  <1>10. CASE AckArchive(g)
    <2>1. /\ UNCHANGED <<topic, position, committed, stash, cur, downloadChannel, untarChannel>>
          /\ ackChannel' = Append(ackChannel, jobs[g].offset) /\ jobs' = [jobs EXCEPT ![g] = Idle]
      BY <1>10 DEF AckArchive, Ack
    <2>2. PICK n : n = Len(ackChannel) + 1
      OBVIOUS
    <2>3. /\ Len(ackChannel') = n /\ n \in Nat /\ ackChannel'[n] = jobs[g].offset
          /\ \A i \in 1 .. n : i # n => i \in 1 .. Len(ackChannel) /\ ackChannel'[i] = ackChannel[i]
      BY <1>0, <1>2, <2>1, <2>2
    <2>4. jobs'[g].offset = 0 /\ \A h \in Goroutines : h # g => jobs'[h].offset = jobs[h].offset
      BY <1>0, <1>a, <2>1
    <2>5. Moved("job", g, "ack", n)
      BY <2>1, <2>3, <2>4 DEF HeldAt, Moved
    <2> QED
      BY <2>1, <2>5 DEF Relocates
  <1> QED
    BY <1>4, <1>6, <1>9, <1>10 DEF Goroutine

LEMMA CommitHeld ==
    ASSUME TypeOK, Committer \/ CloseReader \/ NewGeneration
    PROVE  /\ Relocates /\ UNCHANGED topic
           /\ NewGeneration \/ UNCHANGED position
           /\ NewGeneration => position' = committed' /\ committed' \in {committed, stash}
  <1> USE DEF readerVars, consumerVars, channelVars
  <1>0. /\ ackChannel \in Seq(Offsets) /\ stash \in Nat /\ committed \in Nat
    BY TypeParts DEF ReaderTypeOK
  <1>1. UNCHANGED <<topic, cur, downloadChannel, untarChannel, jobs>>
    BY DEF Committer, CloseReader, NewGeneration, ListenForCommit, CommitTick, CloseKafkaReader,
           Rebalance
  <1>a. /\ NewGeneration \/ UNCHANGED position
        /\ NewGeneration => position' = committed' /\ committed' \in {committed, stash}
    BY DEF Committer, CloseReader, NewGeneration, ListenForCommit, CommitTick, CloseKafkaReader,
           Rebalance, FinalCommit
  <1>2. CASE CommitTick \/ CloseKafkaReader \/ Rebalance
    <2>1. UNCHANGED ackChannel /\ stash' = 0 /\ committed' \in {committed, stash}
      BY <1>2 DEF CommitTick, CloseKafkaReader, Rebalance, FinalCommit
    <2>2. CASE committed' = committed
      BY <1>1, <1>a, <2>1, <2>2 DEF HeldAt, Dropped, Relocates
    <2>3. CASE committed' = stash
      <3>1. Moved("stash", 0, "committed", 0)
        BY <1>1, <2>1, <2>3 DEF HeldAt, Moved
      <3> QED
        BY <1>1, <1>a, <3>1 DEF Relocates
    <2> QED
      BY <2>1, <2>2, <2>3
  <1>3. CASE ListenForCommit
    <2>1. /\ UNCHANGED committed /\ ackChannel # <<>> /\ ackChannel' = Tail(ackChannel)
          /\ stash' \in {stash, Head(ackChannel)}
      BY <1>3 DEF ListenForCommit, Merge
    <2>2. /\ Len(ackChannel') = Len(ackChannel) - 1 /\ Len(ackChannel) \in Nat \ {0}
          /\ \A i \in 1 .. Len(ackChannel') : ackChannel'[i] = ackChannel[i + 1]
          /\ Head(ackChannel) = ackChannel[1]
      BY <1>0, <2>1
    <2>3. CASE stash' = stash
      <3>1. Received("ack", "none", 0)
        BY <1>1, <2>1, <2>2, <2>3 DEF HeldAt, Received
      <3> QED
        BY <1>1, <1>a, <3>1 DEF Relocates
    <2>4. CASE stash' = Head(ackChannel)
      <3>1. Received("ack", "stash", 0)
        BY <1>1, <2>1, <2>2, <2>4 DEF HeldAt, Received
      <3> QED
        BY <1>1, <1>a, <3>1 DEF Relocates
    <2> QED
      BY <2>1, <2>3, <2>4
  <1> QED
    BY <1>2, <1>3 DEF Committer, CloseReader, NewGeneration

(* After a restart nothing but the committed offset is held, and the       *)
(* process goes on behind it.                                              *)
LEMMA RestartHeld ==
    ASSUME TypeOK, HeldInv, Exit \/ Crash
    PROVE  HeldInv'
  <1>1. Restart
    BY DEF Exit, Crash
  <1>2. /\ committed' = committed /\ position' = committed /\ committed \in Nat
        /\ cur' = 0 /\ stash' = 0 /\ ackChannel' = <<>> /\ downloadChannel' = <<>>
        /\ untarChannel' = <<>> /\ \A g \in Goroutines : jobs'[g].offset = 0
    BY <1>1, TypeParts DEF Restart, ReaderRestart, Return, NoJobs, Idle, Job, ReaderTypeOK
  <1>3. \A o \in Nat \ {0} : \A k, i : HeldAt(k, i, o)' => k = "committed" /\ i = 0 /\ o = committed
    BY <1>2 DEF HeldAt
  <1> QED
    BY <1>2, <1>3 DEF HeldInv

LEMMA HeldNext == "rebalance" \notin Faults /\ TypeOK /\ HeldInv /\ [Next]_vars => HeldInv'
  <1> SUFFICES ASSUME "rebalance" \notin Faults, TypeOK, HeldInv, [Next]_vars PROVE HeldInv'
    OBVIOUS
  <1>1. CASE \/ Producer \/ Signal \/ CloseHydrator \/ CloseDownloader \/ SecondSignal
             \/ UNCHANGED vars
    <2>1. /\ UNCHANGED <<position, committed, ackChannel, stash, downloadChannel, untarChannel, jobs>>
          /\ cur' \in {0, cur}
      BY <1>1 DEF Producer, Signal, CloseHydrator, CloseDownloader, SecondSignal, vars, Produce,
                  CloseQuitChannel, Return, readerVars, consumerVars, channelVars
    <2> QED
      BY <2>1, Keep DEF HeldAt, Dropped
  <1>2. ~NewGeneration
    BY DEF NewGeneration, Rebalance
  <1>3. CASE Fetch \/ Exit \/ Crash
    BY <1>3, FetchHeld, RestartHeld
  <1>4. CASE \/ Consumer /\ ~Fetch
             \/ ListenDownload \/ ListenUntar \/ ListenDone
             \/ \E g \in Goroutines : Goroutine(g) \/ DownloadFails(g) \/ ExtractFails(g)
             \/ Committer \/ CloseReader
    <2>1. Relocates /\ position' = position
      BY <1>2, <1>4, ConsumerHeld, ListenHeld, GoroutineHeld, CommitHeld
    <2> QED
      BY <2>1, RelocateHeld
  <1> QED
    BY <1>1, <1>2, <1>3, <1>4 DEF Next

(* Without a rebalance no message is worked on, queued or acknowledged in  *)
(* two places at once: neither the restarts of a crashed process, which    *)
(* reads from a committed offset that may have gone backwards, nor the     *)
(* shutdown, nor a failing step make two goroutines write one archive.     *)
THEOREM WorkedOnOnce ==
    ASSUME "rebalance" \notin Faults
    PROVE  Spec => []HeldOnce
  <1>1. Init => HeldInv
    BY DEF Init, ReaderInit, NoJobs, Idle, Job, HeldInv, HeldAt
  <1>2. TypeOK /\ HeldInv /\ [Next]_vars => HeldInv'
    BY HeldNext
  <1>3. TypeOK /\ HeldInv => HeldOnce
    BY HoldersOnce
  <1> QED
    BY <1>1, <1>2, <1>3, HydratorTypes, PTL DEF Spec

-----------------------------------------------------------------------------
(* No silent loss.  Locations have file names of their own, ... *)
DistinctFileNames == \A u, v \in URLs : FileName[u] = FileName[v] => u = v

(* ... and nobody ends the process. *)
NobodyEndsIt == "crash" \notin Faults /\ "signal" \notin Faults

Running == reader = "running" /\ downloader = "open" /\ pc # "exit" /\ listener = "listening"

(* A file holds what was downloaded from its location. *)
OwnFiles == \A u \in URLs : directory[FileName[u]] \in {u, "absent", "partial"}

Written(o) == AllEvents(URL(o)) \subseteq destination

(* The process works on the message at offset o. *)
Working(o) ==
    \/ cur = o
    \/ \E i \in 1 .. Len(downloadChannel) : downloadChannel[i] = o
    \/ \E i \in 1 .. Len(untarChannel) : untarChannel[i] = o
    \/ \E g \in Goroutines : jobs[g].offset = o

Accounted(o) == IsArchive(o) => Written(o) \/ o \in logged \/ Working(o)

(* A rebalance takes the reader back, and a later one may take it forward  *)
(* to an offset that was acknowledged in between: everything up to any     *)
(* offset that is held was delivered once, and is accounted for.           *)
Reached(p) == p = position \/ \E k, i : HeldAt(k, i, p)

LossInv == \A p \in Nat \ {0} : Reached(p) => \A o \in 1 .. p : Accounted(o)

(* What goroutine j still has to write, and what it has written, is all of *)
(* its archive.                                                            *)
Covered(j) ==
    \A e \in AllEvents(URL(j.offset)) :
        e \in destination \/ \E n \in 1 .. Len(j.events) : j.events[n] = e

NotifyInv ==
    \A g \in Goroutines : jobs[g].pc = "notify" => jobs[g].offset \in logged \/ Covered(jobs[g])

RunInv == Running /\ OwnFiles

LEMMA RunInit == Init => RunInv
  BY DownloaderAssumption
  DEF Init, ReaderInit, DownloaderInit, EmptyDirectory, RunInv, Running, OwnFiles

LEMMA RunningNext ==
    ASSUME NobodyEndsIt, TypeOK, Running, [Next]_vars
    PROVE  Running'
  <1> USE DEF Running, NobodyEndsIt
  <1>1. CASE Consumer
    BY <1>1 DEF Consumer, StopConsuming, NotQuit, Fetch, FetchMessage, FetchEOF, AckOther,
                DropUndecodable, enqueueDownload, Return, readerVars, downloaderVars, channelVars
  <1>2. CASE ListenDownload \/ ListenUntar \/ ListenDone
    BY <1>2 DEF ListenDownload, ListenUntar, ListenDone, readerVars, downloaderVars, consumerVars
  <1>3. ASSUME NEW g \in Goroutines, Goroutine(g) \/ DownloadFails(g) \/ ExtractFails(g)
        PROVE  Running'
    BY <1>3 DEF Goroutine, CreateFile, Create, CopyBody, Copy, SendFilename, ExtractEvents,
                notifyEvent, AckArchive, DownloadFails, ExtractFails, readerVars, downloaderVars,
                consumerVars, channelVars
  <1>4. CASE Committer \/ Producer \/ NewGeneration
    BY <1>4 DEF Committer, ListenForCommit, CommitTick, Producer, Produce, NewGeneration, Rebalance,
                downloaderVars, consumerVars, channelVars
  <1>5. ~Signal /\ ~CloseReader /\ ~CloseHydrator /\ ~CloseDownloader /\ ~SecondSignal /\ ~Exit /\ ~Crash
    BY DEF Signal, CloseReader, CloseKafkaReader, CloseHydrator, CloseDownloader, SecondSignal,
           Exit, Crash
  <1>6. CASE UNCHANGED vars
    BY <1>6 DEF vars, readerVars, downloaderVars, consumerVars, channelVars
  <1> QED
    BY <1>1, <1>2, <1>3, <1>4, <1>5, <1>6 DEF Next

LEMMA OwnFilesNext ==
    ASSUME DistinctFileNames, TypeOK, OwnFiles, [Next]_vars
    PROVE  OwnFiles'
  <1>0. /\ directory \in [FileNames -> URLs \cup {"absent", "partial"}]
        /\ FileName \in [URLs -> FileNames]
    BY TypeParts, DownloaderAssumption DEF DownloaderTypeOK
  <1>1. ASSUME NEW v \in URLs, NEW c \in {v, "absent", "partial"},
               directory' = [directory EXCEPT ![FileName[v]] = c]
        PROVE  OwnFiles'
    <2> SUFFICES ASSUME NEW u \in URLs PROVE directory'[FileName[u]] \in {u, "absent", "partial"}
      BY DEF OwnFiles
    <2>1. CASE u = v
      BY <1>0, <1>1, <2>1
    <2>2. CASE u # v
      BY <1>0, <1>1, <2>2 DEF OwnFiles, DistinctFileNames
    <2> QED
      BY <2>1, <2>2
  <1>2. ASSUME NEW g \in Goroutines, CreateFile(g) \/ CopyBody(g) PROVE OwnFiles'
    <2>1. URL(jobs[g].offset) \in URLs
      BY <1>2, JobArchive DEF CreateFile, CopyBody
    <2>2. PICK v \in URLs : v = URL(jobs[g].offset)
      BY <2>1
    <2>3. \E c \in {v, "absent", "partial"} : directory' = [directory EXCEPT ![FileName[v]] = c]
      BY <1>2, <2>2 DEF CreateFile, CopyBody, Create, Copy
    <2> QED
      BY <1>1, <2>3
  <1>3. CASE UNCHANGED directory
    BY <1>3 DEF OwnFiles
  <1>4. CASE directory' = EmptyDirectory
    BY <1>0, <1>4 DEF OwnFiles, EmptyDirectory
  <1>5. \/ \E g \in Goroutines : CreateFile(g) \/ CopyBody(g)
        \/ UNCHANGED directory
        \/ directory' = EmptyDirectory
    <2> USE DEF downloaderVars
    <2>1. CASE Consumer
      BY <2>1 DEF Consumer, StopConsuming, NotQuit, Fetch, FetchEOF, AckOther, DropUndecodable,
                  enqueueDownload
    <2>2. CASE \/ ListenDownload \/ ListenUntar \/ ListenDone \/ Committer \/ Signal \/ CloseReader
               \/ CloseHydrator \/ SecondSignal \/ Producer \/ NewGeneration
      BY <2>2 DEF ListenDownload, ListenUntar, ListenDone, Committer, Signal, CloseReader,
                  CloseHydrator, SecondSignal, Producer, NewGeneration
    <2>3. ASSUME NEW g \in Goroutines, Goroutine(g) \/ DownloadFails(g) \/ ExtractFails(g)
          PROVE  CreateFile(g) \/ CopyBody(g) \/ UNCHANGED directory
      BY <2>3 DEF Goroutine, SendFilename, ExtractEvents, notifyEvent, AckArchive, DownloadFails,
                  ExtractFails
    <2>4. CASE CloseDownloader \/ Exit \/ Crash
      BY <2>4 DEF CloseDownloader, RemoveAll, Exit, Crash, Restart, DownloaderRestart
    <2>5. CASE UNCHANGED vars
      BY <2>5 DEF vars
    <2> QED
      BY <2>1, <2>2, <2>3, <2>4, <2>5 DEF Next
  <1> QED
    BY <1>2, <1>3, <1>4, <1>5

(* A file that is unpacked belongs to the message it is unpacked for. *)
LEMMA UntarredOwn ==
    ASSUME DistinctFileNames, TypeOK, OwnFiles, NEW o \in Archives, URL(o) \in URLs,
           NEW dir \in Untarred(o)
    PROVE  dir.url = URL(o)
  <1>1. directory[File(o)] \in {URL(o), "absent", "partial"}
    BY DEF OwnFiles, File
  <1>2. "absent" \notin URLs /\ "partial" \notin URLs
    BY DownloaderAssumption
  <1>3. \A u \in URLs : FileName[u] = File(o) => u = URL(o)
    BY DEF DistinctFileNames, File
  <1> QED
    BY <1>1, <1>2, <1>3 DEF Untarred

(* An extracted resource of an unpacked file is among the events. *)
LEMMA EnvelopeCovers ==
    ASSUME NEW u \in URLs, NEW files, NEW i \in DOMAIN Archive[u],
           Extracted(Archive[u], i), Archive[u][i].file \in files
    PROVE  LET events == Envelope(u, extractEvents(Archive[u], files))
           IN  \E n \in 1 .. Len(events) : events[n] = <<u, i>>
  <1>1. PICK s : s = extractEvents(Archive[u], files)
    OBVIOUS
  <1>2. Archive[u] \in Seq(Resource) /\ i \in Kept(Archive[u], files)
    BY HydratorAssumption DEF Kept
  <1>3. PICK n \in 1 .. Len(s) : s[n] = i
    <2>1. \E n \in 1 .. Len(extractEvents(Archive[u], files)) : extractEvents(Archive[u], files)[n] = i
      BY <1>2, KeptListed
    <2> QED
      BY <1>1, <2>1
  <1>4. PICK events : events = Envelope(u, s)
    OBVIOUS
  <1>5. Len(events) = Len(s) /\ \A m \in 1 .. Len(s) : events[m] = <<u, s[m]>>
    BY <1>1, <1>4, EnvelopeType
  <1> QED
    BY <1>1, <1>3, <1>4, <1>5

-----------------------------------------------------------------------------
LEMMA CoveredFrame ==
    ASSUME TypeOK, \A o \in Offsets : URL(o)' = URL(o), destination \subseteq destination',
           NEW g \in Goroutines, jobs'[g] = jobs[g], jobs[g].pc = "notify", Covered(jobs[g])
    PROVE  Covered(jobs[g])'
  <1>1. PICK j : j = jobs[g]
    OBVIOUS
  <1>2. j.offset \in Offsets
    BY <1>1, JobArchive DEF Archives
  <1>3. AllEvents(URL(j.offset))' = AllEvents(URL(j.offset))
    BY <1>2 DEF AllEvents
  <1>4. Covered(j)'
    BY <1>1, <1>3 DEF Covered
  <1> QED
    BY <1>1, <1>4 DEF Covered

LEMMA NotifyFrame ==
    ASSUME TypeOK, NotifyInv, \A o \in Offsets : URL(o)' = URL(o),
           destination \subseteq destination', logged \subseteq logged',
           NEW g \in Goroutines, jobs'[g] = jobs[g], jobs[g].pc = "notify"
    PROVE  jobs'[g].offset \in logged' \/ Covered(jobs[g])'
  BY CoveredFrame DEF NotifyInv

(* The goroutine that has extracted its events holds those of one of the   *)
(* possible contents of the temporary directory.                           *)
UnpackedEvents(dir) == Envelope(dir.url, extractEvents(Archive[dir.url], dir.files))

LEMMA ExtractStep ==
    ASSUME TypeOK, NEW g \in Goroutines, ExtractEvents(g), NEW o, o = jobs[g].offset
    PROVE  /\ o \in Archives /\ URL(o) \in URLs /\ UNCHANGED <<topic, destination>>
           /\ \E dir \in Untarred(o) :
                 /\ jobs'[g].pc = "notify" => jobs'[g].offset = o /\ jobs'[g].events = UnpackedEvents(dir)
                 /\ \/ Incomplete(dir) /\ o \in logged'
                    \/ ~Incomplete(dir) \/ downloader = "closed"
  <1>0. /\ o \in Archives /\ URL(o) \in URLs /\ DOMAIN jobs = Goroutines
    BY JobArchive, TypeParts DEF ExtractEvents, JobTypeOK
  <1>1. UNCHANGED <<topic, destination>>
    BY DEF ExtractEvents, readerVars
  <1>2. PICK dir \in Untarred(o) :
           /\ jobs' = [jobs EXCEPT ![g] = IF Len(UnpackedEvents(dir)) <= EventChannelBufferSize
                                          THEN [Job("notify", o) EXCEPT !.events = UnpackedEvents(dir)]
                                          ELSE Job("blocked", o)]
           /\ \/ Incomplete(dir) /\ Log(o)
              \/ (~Incomplete(dir) \/ downloader = "closed") /\ UNCHANGED logged
    BY DEF ExtractEvents, UnpackedEvents
  <1>3. PICK s, r : s = UnpackedEvents(dir) /\ r = Job("notify", o)
    OBVIOUS
  <1>4. r.offset = o /\ Job("blocked", o).pc = "blocked"
    BY <1>3 DEF Job
  <1>5. [r EXCEPT !.events = s].offset = o /\ [r EXCEPT !.events = s].events = s
    BY <1>3, <1>4 DEF Job
  <1>6. jobs'[g].pc = "notify" => jobs'[g].offset = o /\ jobs'[g].events = s
    BY <1>0, <1>2, <1>3, <1>4, <1>5
  <1> QED
    BY <1>0, <1>1, <1>2, <1>3, <1>6 DEF Log

(* The extraction puts every event of the archive into the event channel,  *)
(* or logs what is missing.                                                *)
LEMMA ExtractCovers ==
    ASSUME DistinctFileNames, TypeOK, Running, OwnFiles, NEW g \in Goroutines, ExtractEvents(g),
           jobs'[g].pc = "notify"
    PROVE  jobs'[g].offset \in logged' \/ Covered(jobs[g])'
  <1>1. PICK o, u : o = jobs[g].offset /\ u = URL(o)
    OBVIOUS
  <1>2. o \in Archives /\ u \in URLs /\ UNCHANGED <<topic, destination>>
    BY <1>1, ExtractStep
  <1>3. PICK dir \in Untarred(o) :
           /\ jobs'[g].offset = o /\ jobs'[g].events = UnpackedEvents(dir)
           /\ \/ Incomplete(dir) /\ o \in logged'
              \/ ~Incomplete(dir) \/ downloader = "closed"
    BY <1>1, ExtractStep
  <1>4. dir.url = u
    BY <1>1, <1>2, UntarredOwn
  <1>5. CASE Incomplete(dir)
    BY <1>3, <1>5 DEF Running
  <1>6. CASE ~Incomplete(dir)
    <2>1. PICK s : s = UnpackedEvents(dir)
      OBVIOUS
    <2>2. ASSUME NEW e \in AllEvents(u) PROVE \E n \in 1 .. Len(s) : s[n] = e
      <3>1. PICK i \in DOMAIN Archive[u] : Extracted(Archive[u], i) /\ e = <<u, i>>
        BY DEF AllEvents
      <3>2. Archive[u][i].file \in dir.files
        BY <1>4, <1>6 DEF Incomplete
      <3>3. PICK F : F = dir.files
        OBVIOUS
      <3>4. s = Envelope(u, extractEvents(Archive[u], F)) /\ u \in URLs
        BY <1>2, <1>4, <2>1, <3>3 DEF UnpackedEvents
      <3>5. LET events == Envelope(u, extractEvents(Archive[u], F))
            IN  \E n \in 1 .. Len(events) : events[n] = <<u, i>>
        BY <3>1, <3>2, <3>3, <3>4, EnvelopeCovers
      <3> QED
        BY <3>1, <3>4, <3>5
    <2>3. URL(jobs[g].offset)' = u
      BY <1>1, <1>2, <1>3 DEF URL
    <2>4. Covered(jobs[g])'
      BY <1>3, <2>1, <2>2, <2>3 DEF Covered, AllEvents
    <2> QED
      BY <2>4
  <1> QED
    BY <1>5, <1>6

LEMMA NotifyStep ==
    ASSUME TypeOK, NEW g \in Goroutines, notifyEvent(g), NEW q, q = jobs[g].events, NEW o, o = jobs[g].offset
    PROVE  /\ o \in Archives /\ q # <<>> /\ q \in Seq(Envelopes) /\ UNCHANGED topic
           /\ Write(Head(q), o) /\ jobs[g].pc = "notify"
           /\ jobs'[g].offset = o /\ jobs'[g].events = Tail(q)
  <1>0. /\ jobs[g].offset \in Archives /\ DOMAIN jobs = Goroutines /\ jobs[g] \in JobState
    BY JobArchive, TypeParts DEF notifyEvent, JobTypeOK
  <1>a. q \in Seq(Envelopes)
    BY <1>0 DEF JobState
  <1>b. /\ q # <<>> /\ jobs[g].pc = "notify" /\ Write(Head(q), o) /\ UNCHANGED topic
        /\ jobs' = [jobs EXCEPT ![g].events = Tail(@)]
    BY DEF notifyEvent, readerVars
  <1>1. /\ q # <<>> /\ q \in Seq(Envelopes) /\ jobs[g].pc = "notify"
        /\ Write(Head(q), o) /\ UNCHANGED topic
        /\ jobs'[g] = [jobs[g] EXCEPT !.events = Tail(q)]
    BY <1>0, <1>a, <1>b
  <1>2. jobs'[g].offset = o /\ jobs'[g].events = Tail(q)
    BY <1>0, <1>1 DEF JobState
  <1> QED
    BY <1>0, <1>1, <1>2

(* A written event moves from the channel to the topic; ... *)
LEMMA WriteCovers ==
    ASSUME TypeOK, NEW g \in Goroutines, notifyEvent(g), Covered(jobs[g]),
           destination' = destination \cup {Head(jobs[g].events)}
    PROVE  Covered(jobs[g])'
  <1>1. PICK q, o : q = jobs[g].events /\ o = jobs[g].offset
    OBVIOUS
  <1>2. /\ q # <<>> /\ q \in Seq(Envelopes) /\ UNCHANGED topic
        /\ jobs'[g].offset = o /\ jobs'[g].events = Tail(q)
    BY <1>1, NotifyStep
  <1>3. URL(jobs[g].offset)' = URL(o)
    BY <1>2 DEF URL
  <1>4. ASSUME NEW e \in AllEvents(URL(o))
        PROVE  e \in destination' \/ \E n \in 1 .. Len(Tail(q)) : Tail(q)[n] = e
    <2>1. CASE e \in destination
      BY <2>1
    <2>2. ASSUME NEW n \in 1 .. Len(q), q[n] = e
          PROVE  e \in destination' \/ \E m \in 1 .. Len(Tail(q)) : Tail(q)[m] = e
      <3>1. CASE n = 1
        BY <1>1, <1>2, <2>2, <3>1
      <3>2. CASE n # 1
        <4>1. n - 1 \in 1 .. Len(Tail(q)) /\ Tail(q)[n - 1] = e
          BY <1>2, <2>2, <3>2
        <4> QED
          BY <4>1
      <3> QED
        BY <3>1, <3>2
    <2> QED
      BY <1>1, <2>1, <2>2 DEF Covered
  <1> QED
    BY <1>2, <1>3, <1>4 DEF Covered, AllEvents

(* ... a refused one is logged. *)
LEMMA NotifyCovers ==
    ASSUME TypeOK, NotifyInv, NEW g \in Goroutines, notifyEvent(g)
    PROVE  jobs'[g].offset \in logged' \/ Covered(jobs[g])'
  <1>1. PICK q, o : q = jobs[g].events /\ o = jobs[g].offset
    OBVIOUS
  <1>2. /\ Write(Head(q), o) /\ jobs[g].pc = "notify" /\ jobs'[g].offset = o
    BY <1>1, NotifyStep
  <1>3. CASE o \in logged \/ Log(o)
    BY <1>2, <1>3 DEF Write, Log
  <1>4. CASE Covered(jobs[g]) /\ destination' = destination \cup {Head(q)}
    BY <1>1, <1>4, WriteCovers
  <1> QED
    BY <1>1, <1>2, <1>3, <1>4 DEF NotifyInv, Write

(* What the steps do to the output, and to the goroutines that notify. *)
LEMMA OutputGrows ==
    ASSUME TypeOK, [Next]_vars
    PROVE  /\ destination \subseteq destination' /\ logged \subseteq logged'
           /\ \A o \in Offsets : URL(o)' = URL(o) /\ (IsArchive(o)' <=> IsArchive(o))
  <1>1. destination \subseteq destination' /\ logged \subseteq logged'
    <2> USE DEF outputVars
    <2>1. CASE Consumer
      BY <2>1 DEF Consumer, StopConsuming, NotQuit, Fetch, FetchEOF, AckOther, DropUndecodable,
                  enqueueDownload, Log
    <2>2. CASE \/ ListenDownload \/ ListenUntar \/ ListenDone \/ Committer \/ Signal \/ CloseReader
               \/ CloseHydrator \/ CloseDownloader \/ SecondSignal \/ Producer \/ NewGeneration
               \/ Exit \/ Crash
      BY <2>2 DEF ListenDownload, ListenUntar, ListenDone, Committer, Signal, CloseReader,
                  CloseHydrator, CloseDownloader, SecondSignal, Producer, NewGeneration, Exit,
                  Crash, Restart
    <2>3. ASSUME NEW g \in Goroutines, Goroutine(g) \/ DownloadFails(g) \/ ExtractFails(g)
          PROVE  destination \subseteq destination' /\ logged \subseteq logged'
      BY <2>3 DEF Goroutine, CreateFile, CopyBody, SendFilename, ExtractEvents, notifyEvent, Write,
                  AckArchive, DownloadFails, ExtractFails, Log
    <2>4. CASE UNCHANGED vars
      BY <2>4 DEF vars
    <2> QED
      BY <2>1, <2>2, <2>3, <2>4 DEF Next
  <1>2. CASE Producer
    BY <1>1, <1>2, TypeParts, TopicGrows DEF Producer
  <1>3. CASE ~Producer
    <2>1. UNCHANGED topic
      <3> USE DEF readerVars
      <3>1. CASE Consumer
        BY <3>1 DEF Consumer, StopConsuming, NotQuit, Fetch, FetchMessage, FetchEOF, AckOther,
                    DropUndecodable, enqueueDownload
      <3>2. CASE ListenDownload \/ ListenUntar \/ ListenDone \/ CloseHydrator \/ CloseDownloader \/ SecondSignal
        BY <3>2 DEF ListenDownload, ListenUntar, ListenDone, CloseHydrator, CloseDownloader, SecondSignal
      <3>3. CASE Committer \/ Signal \/ CloseReader \/ NewGeneration \/ Exit \/ Crash
        BY <3>3, TypeParts, ReaderStep DEF Committer, Signal, CloseReader, NewGeneration, Exit,
                                           Crash, Restart
      <3>4. ASSUME NEW g \in Goroutines, Goroutine(g) \/ DownloadFails(g) \/ ExtractFails(g)
            PROVE  UNCHANGED topic
        BY <3>4 DEF Goroutine, CreateFile, CopyBody, SendFilename, ExtractEvents, notifyEvent,
                    AckArchive, DownloadFails, ExtractFails
      <3>5. CASE UNCHANGED vars
        BY <3>5 DEF vars
      <3> QED
        BY <1>3, <3>1, <3>2, <3>3, <3>4, <3>5 DEF Next
    <2> QED
      BY <1>1, <2>1, TopicFrame
  <1> QED
    BY <1>2, <1>3

LEMMA NotifiersKept ==
    ASSUME TypeOK, [Next]_vars, NEW g \in Goroutines, jobs'[g].pc = "notify",
           ~ExtractEvents(g), ~notifyEvent(g)
    PROVE  jobs'[g] = jobs[g] /\ jobs[g].pc = "notify"
  <1>0. jobs \in [Goroutines -> JobState]
    BY TypeParts DEF JobTypeOK
  <1>a. Idle.pc = "idle" /\ \A at, o : Job(at, o).pc = at
    BY DEF Idle, Job
  <1>1. CASE Consumer
    BY <1>1 DEF Consumer, StopConsuming, NotQuit, Fetch, FetchEOF, AckOther, DropUndecodable,
                enqueueDownload
  <1>2. CASE ListenDownload \/ ListenUntar
    <2>1. ASSUME NEW at \in {"get", "extract"}, NEW o, Spawn(at, o)
          PROVE  jobs'[g] = jobs[g] /\ jobs[g].pc = "notify"
      <3>1. PICK h : jobs' = [jobs EXCEPT ![h] = Job(at, o)]
        BY <2>1 DEF Spawn
      <3> QED
        BY <1>0, <1>a, <3>1
    <2> QED
      BY <1>2, <2>1 DEF ListenDownload, ListenUntar
  <1>3. CASE \/ ListenDone \/ Committer \/ Signal \/ CloseReader \/ CloseHydrator
             \/ CloseDownloader \/ SecondSignal \/ Producer \/ NewGeneration \/ UNCHANGED vars
    BY <1>3 DEF ListenDone, Committer, Signal, CloseReader, CloseHydrator, CloseDownloader,
                SecondSignal, Producer, NewGeneration, vars
  <1>4. CASE Exit \/ Crash
    BY <1>4, <1>a DEF Exit, Crash, Restart, NoJobs
  <1>5. ASSUME NEW h \in Goroutines, Goroutine(h) \/ DownloadFails(h) \/ ExtractFails(h)
        PROVE  jobs'[g] = jobs[g] /\ jobs[g].pc = "notify"
    <2>1. CASE CreateFile(h)
      <3>0. jobs[g] \in JobState
        BY <1>0
      <3>1. PICK r \in BOOLEAN : \/ g = h /\ jobs'[g] = [jobs[h] EXCEPT !.pc = "copy", !.raced = r]
                                 \/ jobs[g].pc = "copy" /\ jobs'[g] = [jobs[g] EXCEPT !.raced = TRUE]
                                 \/ jobs'[g] = jobs[g]
        <4>1. (\E k \in Goroutines : SameFile(h, k)) \in BOOLEAN
          OBVIOUS
        <4> QED
          BY <2>1, <4>1 DEF CreateFile, SameFile
      <3>2. /\ [jobs[g] EXCEPT !.pc = "copy", !.raced = r].pc = "copy"
            /\ [jobs[g] EXCEPT !.raced = TRUE].pc = jobs[g].pc
        BY <3>0 DEF JobState
      <3> QED
        BY <3>1, <3>2
    <2>2. CASE CopyBody(h) \/ SendFilename(h) \/ AckArchive(h) \/ DownloadFails(h) \/ ExtractFails(h)
      <3>1. PICK at, o : at # "notify" /\ jobs' = [jobs EXCEPT ![h] = Job(at, o)]
        BY <2>2 DEF CopyBody, SendFilename, AckArchive, DownloadFails, ExtractFails, Idle
      <3> QED
        BY <1>0, <1>a, <3>1
    <2>3. CASE ExtractEvents(h) \/ notifyEvent(h)
      <3>1. PICK j : jobs' = [jobs EXCEPT ![h] = j]
        BY <2>3 DEF ExtractEvents, notifyEvent
      <3>2. g # h
        BY <2>3
      <3> QED
        BY <1>0, <3>1, <3>2
    <2> QED
      BY <1>5, <2>1, <2>2, <2>3 DEF Goroutine
  <1> QED
    BY <1>1, <1>2, <1>3, <1>4, <1>5 DEF Next

LEMMA NotifyNext ==
    ASSUME DistinctFileNames, TypeOK, Running, OwnFiles, NotifyInv, [Next]_vars
    PROVE  NotifyInv'
  <1> SUFFICES ASSUME NEW g \in Goroutines, jobs'[g].pc = "notify"
               PROVE  jobs'[g].offset \in logged' \/ Covered(jobs[g])'
    BY DEF NotifyInv
  <1>1. CASE ExtractEvents(g)
    BY <1>1, ExtractCovers
  <1>2. CASE notifyEvent(g)
    BY <1>2, NotifyCovers
  <1>3. CASE ~ExtractEvents(g) /\ ~notifyEvent(g)
    BY <1>3, NotifiersKept, OutputGrows, NotifyFrame
  <1> QED
    BY <1>1, <1>2, <1>3

-----------------------------------------------------------------------------
LEMMA ReachedType ==
    ASSUME TypeOK, NEW p \in Nat \ {0}, Reached(p)
    PROVE  p \in Offsets
  <1>0. /\ Len(topic) \in Nat /\ position \in 0 .. Len(topic) /\ committed \in 0 .. Len(topic)
        /\ stash \in 0 .. Len(topic) /\ ackChannel \in Seq(Offsets) /\ cur \in 0 .. Len(topic)
        /\ downloadChannel \in Seq(Offsets) /\ untarChannel \in Seq(Offsets)
        /\ jobs \in [Goroutines -> JobState]
    <2>1. Archives \subseteq Offsets
      BY DEF Archives
    <2>2. downloadChannel \in Seq(Offsets) /\ untarChannel \in Seq(Offsets)
      BY <2>1, TypeParts, SeqMonotone DEF ChannelTypeOK
    <2> QED
      BY <2>2, TypeParts DEF ReaderTypeOK, ConsumerTypeOK, JobTypeOK
  <1>1. \A g \in Goroutines : jobs[g].offset \in 0 .. Len(topic)
    BY <1>0 DEF JobState
  <1>a. /\ \A i \in 1 .. Len(downloadChannel) : downloadChannel[i] \in Offsets
        /\ \A i \in 1 .. Len(untarChannel) : untarChannel[i] \in Offsets
        /\ \A i \in 1 .. Len(ackChannel) : ackChannel[i] \in Offsets
    <2> HIDE DEF Offsets
    <2>1. \A q \in Seq(Offsets) : \A i \in 1 .. Len(q) : q[i] \in Offsets
      OBVIOUS
    <2> QED
      BY <1>0, <2>1
  <1>2. ASSUME NEW k, NEW i, HeldAt(k, i, p) PROVE p \in 0 .. Len(topic)
    <2>1. \/ p \in {cur, stash, committed}
          \/ \E g \in Goroutines : jobs[g].offset = p
          \/ p \in Offsets
      BY <1>2, <1>a DEF HeldAt
    <2> QED
      BY <1>0, <1>1, <2>1
  <1> QED
    BY <1>0, <1>2 DEF Reached

(* A message the process works on is worked on after the step, or all of   *)
(* it is written, or a loss was logged.                                    *)
LEMMA WorkingNext ==
    ASSUME NobodyEndsIt, TypeOK, Running, NotifyInv, [Next]_vars, NEW o \in Archives, Working(o)
    PROVE  Written(o)' \/ o \in logged' \/ Working(o)'
  <1> USE DEF readerVars, consumerVars, channelVars
  <1>0. /\ o # 0 /\ IsArchive(o) /\ downloadChannel \in Seq(Archives) /\ untarChannel \in Seq(Archives)
        /\ jobs \in [Goroutines -> JobState] /\ ConsumerTypeOK
    BY TypeParts DEF ReaderTypeOK, ChannelTypeOK, JobTypeOK, Archives
  <1>a. /\ \A at, p : Job(at, p).offset = p
        /\ Idle.offset = 0
    BY DEF Job, Idle
  <1>1. CASE Consumer
    <2>1. UNCHANGED <<untarChannel, jobs>>
      BY <1>1 DEF Consumer, StopConsuming, NotQuit, Fetch, FetchEOF, AckOther, DropUndecodable,
                  enqueueDownload
    <2>2. CASE StopConsuming \/ NotQuit \/ Fetch \/ FetchEOF
      <3>1. cur = 0 /\ UNCHANGED downloadChannel
        BY <1>0, <2>2 DEF StopConsuming, NotQuit, Fetch, FetchEOF, ConsumerTypeOK
      <3> QED
        BY <1>0, <2>1, <3>1 DEF Working
    <2>3. CASE AckOther \/ DropUndecodable
      <3>1. cur # o /\ UNCHANGED downloadChannel
        BY <1>0, <2>3 DEF AckOther, DropUndecodable, IsArchive
      <3> QED
        BY <2>1, <3>1 DEF Working
    <2>4. CASE enqueueDownload
      <3>1. downloadChannel' = Append(downloadChannel, cur) /\ IsArchive(cur) /\ pc = "process"
        BY <2>4 DEF enqueueDownload
      <3>2. cur \in Archives
        <4>1. cur \in 0 .. Len(topic) /\ cur # 0
          BY <1>0, <3>1 DEF ConsumerTypeOK
        <4> QED
          BY <3>1, <4>1 DEF Archives
      <3>3. /\ \A i \in 1 .. Len(downloadChannel) :
                  i \in 1 .. Len(downloadChannel') /\ downloadChannel'[i] = downloadChannel[i]
            /\ Len(downloadChannel') \in 1 .. Len(downloadChannel')
            /\ downloadChannel'[Len(downloadChannel')] = cur
        BY <1>0, <3>1, <3>2
      <3> QED
        BY <2>1, <3>3 DEF Working
    <2> QED
      BY <1>1, <2>2, <2>3, <2>4 DEF Consumer
  <1>2. CASE ListenDownload
    <2>1. PICK g \in Goroutines : /\ jobs[g] = Idle
                                  /\ jobs' = [jobs EXCEPT ![g] = Job("get", Head(downloadChannel))]
      BY <1>2 DEF ListenDownload, Spawn
    <2>2. /\ jobs'[g].offset = Head(downloadChannel) /\ jobs[g].offset = 0
          /\ \A h \in Goroutines : h # g => jobs'[h] = jobs[h]
      BY <1>0, <1>a, <2>1
    <2>3. /\ downloadChannel # <<>> /\ downloadChannel' = Tail(downloadChannel)
          /\ UNCHANGED <<cur, untarChannel>>
      BY <1>2 DEF ListenDownload
    <2>4. /\ Head(downloadChannel) = downloadChannel[1]
          /\ \A i \in 1 .. Len(downloadChannel) : i # 1 =>
                i - 1 \in 1 .. Len(downloadChannel') /\ downloadChannel'[i - 1] = downloadChannel[i]
      BY <1>0, <2>3
    <2>5. ASSUME NEW i \in 1 .. Len(downloadChannel), downloadChannel[i] = o PROVE Working(o)'
      <3>1. CASE i = 1
        BY <2>2, <2>4, <2>5, <3>1 DEF Working
      <3>2. CASE i # 1
        BY <2>4, <2>5, <3>2 DEF Working
      <3> QED
        BY <3>1, <3>2
    <2>6. ASSUME NEW h \in Goroutines, jobs[h].offset = o PROVE Working(o)'
      <3>1. jobs'[h] = jobs[h]
        BY <1>0, <2>2, <2>6
      <3> QED
        BY <2>6, <3>1 DEF Working
    <2>7. cur = o \/ (\E i \in 1 .. Len(untarChannel) : untarChannel[i] = o) => Working(o)'
      BY <2>3 DEF Working
    <2> QED
      BY <2>5, <2>6, <2>7 DEF Working
  <1>3. CASE ListenUntar
    <2>1. PICK g \in Goroutines : /\ jobs[g] = Idle
                                  /\ jobs' = [jobs EXCEPT ![g] = Job("extract", Head(untarChannel))]
      BY <1>3 DEF ListenUntar, Spawn
    <2>2. /\ jobs'[g].offset = Head(untarChannel) /\ jobs[g].offset = 0
          /\ \A h \in Goroutines : h # g => jobs'[h] = jobs[h]
      BY <1>0, <1>a, <2>1
    <2>3. /\ untarChannel # <<>> /\ untarChannel' = Tail(untarChannel)
          /\ UNCHANGED <<cur, downloadChannel>>
      BY <1>3 DEF ListenUntar
    <2>4. /\ Head(untarChannel) = untarChannel[1]
          /\ \A i \in 1 .. Len(untarChannel) : i # 1 =>
                i - 1 \in 1 .. Len(untarChannel') /\ untarChannel'[i - 1] = untarChannel[i]
      BY <1>0, <2>3
    <2>5. ASSUME NEW i \in 1 .. Len(untarChannel), untarChannel[i] = o PROVE Working(o)'
      <3>1. CASE i = 1
        BY <2>2, <2>4, <2>5, <3>1 DEF Working
      <3>2. CASE i # 1
        BY <2>4, <2>5, <3>2 DEF Working
      <3> QED
        BY <3>1, <3>2
    <2>6. ASSUME NEW h \in Goroutines, jobs[h].offset = o PROVE Working(o)'
      <3>1. jobs'[h] = jobs[h]
        BY <1>0, <2>2, <2>6
      <3> QED
        BY <2>6, <3>1 DEF Working
    <2>7. cur = o \/ (\E i \in 1 .. Len(downloadChannel) : downloadChannel[i] = o) => Working(o)'
      BY <2>3 DEF Working
    <2> QED
      BY <2>5, <2>6, <2>7 DEF Working
  <1>4. ASSUME NEW g \in Goroutines, Goroutine(g) \/ DownloadFails(g) \/ ExtractFails(g)
        PROVE  Written(o)' \/ o \in logged' \/ Working(o)'
    <2>1. CASE CreateFile(g) \/ CopyBody(g) \/ ExtractEvents(g) \/ notifyEvent(g)
      BY <2>1, OffsetsKept DEF Working
    <2>2. CASE DownloadFails(g) \/ ExtractFails(g)
      <3>1. /\ UNCHANGED <<cur, downloadChannel, untarChannel>> /\ jobs[g].offset \in logged'
            /\ jobs' = [jobs EXCEPT ![g] = Idle]
        BY <2>2 DEF DownloadFails, ExtractFails, Log
      <3>2. \A h \in Goroutines : h # g => jobs'[h] = jobs[h]
        BY <1>0, <3>1
      <3> QED
        BY <3>1, <3>2 DEF Working
    <2>3. CASE SendFilename(g)
      <3>1. /\ UNCHANGED <<cur, downloadChannel>> /\ jobs[g].offset \in Archives
            /\ untarChannel' = Append(untarChannel, jobs[g].offset) /\ jobs' = [jobs EXCEPT ![g] = Idle]
        BY <2>3, JobArchive DEF SendFilename
      <3>2. \A h \in Goroutines : h # g => jobs'[h] = jobs[h]
        BY <1>0, <3>1
      <3>3. /\ \A i \in 1 .. Len(untarChannel) :
                  i \in 1 .. Len(untarChannel') /\ untarChannel'[i] = untarChannel[i]
            /\ Len(untarChannel') \in 1 .. Len(untarChannel')
            /\ untarChannel'[Len(untarChannel')] = jobs[g].offset
        BY <1>0, <3>1
      <3> QED
        BY <3>1, <3>2, <3>3 DEF Working
    <2>4. CASE AckArchive(g)
      <3>1. /\ UNCHANGED <<topic, cur, downloadChannel, untarChannel, destination, logged>>
            /\ jobs' = [jobs EXCEPT ![g] = Idle]
            /\ jobs[g].pc = "notify" /\ jobs[g].events = <<>>
        BY <2>4 DEF AckArchive, outputVars
      <3>2. \A h \in Goroutines : h # g => jobs'[h] = jobs[h]
        BY <1>0, <3>1
      <3>3. CASE jobs[g].offset = o
        <4>1. o \in logged \/ Covered(jobs[g])
          BY <3>1, <3>3 DEF NotifyInv
        <4>2. Covered(jobs[g]) => Written(o)
          BY <3>1, <3>3 DEF Covered, Written
        <4>3. Written(o) => Written(o)'
          BY <3>1 DEF Written, AllEvents, URL
        <4> QED
          BY <3>1, <4>1, <4>2, <4>3
      <3>4. CASE jobs[g].offset # o
        BY <3>1, <3>2, <3>4 DEF Working
      <3> QED
        BY <3>3, <3>4
    <2> QED
      BY <1>4, <2>1, <2>2, <2>3, <2>4 DEF Goroutine
  <1>5. CASE ListenDone \/ Committer \/ Producer \/ NewGeneration \/ UNCHANGED vars
    BY <1>5 DEF ListenDone, Committer, Producer, NewGeneration, vars, Working
  <1>6. ~Signal /\ ~CloseReader /\ ~CloseHydrator /\ ~CloseDownloader /\ ~SecondSignal /\ ~Exit /\ ~Crash
    BY DEF Running, NobodyEndsIt, Signal, CloseReader, CloseKafkaReader, CloseHydrator,
           CloseDownloader, SecondSignal, Exit, Crash
  <1> QED
    BY <1>1, <1>2, <1>3, <1>4, <1>5, <1>6 DEF Next

LEMMA AccountedNext ==
    ASSUME NobodyEndsIt, TypeOK, Running, NotifyInv, [Next]_vars, NEW o \in Offsets, Accounted(o)
    PROVE  Accounted(o)'
  <1>1. /\ destination \subseteq destination' /\ logged \subseteq logged'
        /\ URL(o)' = URL(o) /\ (IsArchive(o)' <=> IsArchive(o))
    BY OutputGrows
  <1>2. Written(o) => Written(o)'
    BY <1>1 DEF Written, AllEvents
  <1>3. IsArchive(o) /\ Working(o) => Written(o)' \/ o \in logged' \/ Working(o)'
    BY WorkingNext DEF Archives
  <1> QED
    BY <1>1, <1>2, <1>3 DEF Accounted

LEMMA LossNext ==
    ASSUME NobodyEndsIt, TypeOK, Running, NotifyInv, LossInv, [Next]_vars
    PROVE  LossInv'
  <1>0. Len(topic) \in Nat /\ position \in 0 .. Len(topic) /\ committed \in Nat /\ stash \in Nat
    BY TypeParts DEF ReaderTypeOK
  <1>1. ASSUME NEW p \in Nat \ {0}, Reached(p) PROVE \A o \in 1 .. p : Accounted(o)'
    <2>1. p \in Offsets
      BY <1>1, ReachedType
    <2> SUFFICES ASSUME NEW o \in 1 .. p PROVE Accounted(o)'
      OBVIOUS
    <2>2. o \in Offsets
      BY <1>0, <2>1
    <2> QED
      BY <1>1, <2>2, AccountedNext DEF LossInv
  <1>2. CASE Fetch
    <2>1. /\ position' = position + 1 /\ cur' = position + 1
          /\ UNCHANGED <<committed, ackChannel, stash, channelVars, jobs>>
      BY <1>2 DEF Fetch, FetchMessage
    <2>2. ASSUME NEW p \in Nat \ {0}, Reached(p)' PROVE Reached(p) \/ p = position + 1
      BY <2>1, <2>2 DEF Reached, HeldAt, channelVars
    <2>3. \A o \in 1 .. position + 1 : Accounted(o)'
      <3> SUFFICES ASSUME NEW o \in 1 .. position + 1 PROVE Accounted(o)'
        OBVIOUS
      <3>1. CASE o = position + 1
        BY <2>1, <3>1 DEF Accounted, Working
      <3>2. CASE o # position + 1
        <4>1. position \in Nat \ {0} /\ o \in 1 .. position /\ Reached(position)
          BY <1>0, <3>2 DEF Reached
        <4> QED
          BY <1>1, <4>1
      <3> QED
        BY <3>1, <3>2
    <2> QED
      BY <1>1, <2>2, <2>3 DEF LossInv
  <1>3. ASSUME Relocates, position' = position \/ Reached(position') PROVE LossInv'
    <2>1. ASSUME NEW p \in Nat \ {0}, Reached(p)' PROVE Reached(p)
      <3>1. CASE p = position'
        BY <1>3, <3>1 DEF Reached
      <3>2. ASSUME NEW k, NEW i, HeldAt(k, i, p)' PROVE Reached(p)
        BY <1>3, <3>2, RelocateSource DEF Reached
      <3> QED
        BY <2>1, <3>1, <3>2 DEF Reached
    <2> QED
      BY <1>1, <2>1 DEF LossInv
  <1>4. CASE Committer \/ CloseReader \/ NewGeneration
    <2>1. Relocates /\ (position' = position \/ position' \in {committed, stash})
      BY <1>4, CommitHeld
    <2>2. Reached(committed) /\ Reached(stash)
      BY DEF Reached, HeldAt
    <2> QED
      BY <1>3, <2>1, <2>2
  <1>5. CASE \/ Consumer /\ ~Fetch
             \/ ListenDownload \/ ListenUntar \/ ListenDone
             \/ \E g \in Goroutines : Goroutine(g) \/ DownloadFails(g) \/ ExtractFails(g)
    BY <1>3, <1>5, ConsumerHeld, ListenHeld, GoroutineHeld
  <1>6. CASE Producer \/ UNCHANGED vars
    <2>1. UNCHANGED <<position, committed, ackChannel, stash, downloadChannel, untarChannel, jobs, cur>>
      BY <1>6 DEF Producer, vars, Produce, readerVars, consumerVars, channelVars
    <2>2. Relocates
      BY <2>1 DEF Relocates, Dropped, HeldAt
    <2> QED
      BY <1>3, <2>1, <2>2
  <1>7. ~Signal /\ ~CloseHydrator /\ ~CloseDownloader /\ ~SecondSignal /\ ~Exit /\ ~Crash
    BY DEF Running, NobodyEndsIt, Signal, CloseHydrator, CloseDownloader, SecondSignal, Exit, Crash
  <1> QED
    BY <1>2, <1>4, <1>5, <1>6, <1>7 DEF Next

LEMMA LossHeld == ASSUME TypeOK, LossInv PROVE NoSilentLoss
  <1> SUFFICES ASSUME NEW o \in 1 .. position, IsArchive(o)
               PROVE  \/ AllEvents(URL(o)) \subseteq destination
                      \/ o \in logged
                      \/ \E at \in Holders(o) : at[1] \in {"cur", "download", "untar", "job"}
    BY DEF NoSilentLoss
  <1>1. /\ position \in Nat
        /\ DOMAIN downloadChannel = 1 .. Len(downloadChannel)
        /\ DOMAIN untarChannel = 1 .. Len(untarChannel)
    BY TypeParts DEF ReaderTypeOK, ChannelTypeOK
  <1>2. Accounted(o)
    BY <1>1 DEF LossInv, Reached
  <1>3. ASSUME Working(o)
        PROVE  \E at \in Holders(o) : at[1] \in {"cur", "download", "untar", "job"}
    <2>1. CASE cur = o
      <3>1. <<"cur", 0>> \in Holders(o)
        BY <2>1 DEF Holders
      <3> QED
        BY <3>1
    <2>2. ASSUME NEW i \in 1 .. Len(downloadChannel), downloadChannel[i] = o
          PROVE  <<"download", i>> \in Holders(o)
      BY <1>1, <2>2 DEF Holders
    <2>3. ASSUME NEW i \in 1 .. Len(untarChannel), untarChannel[i] = o
          PROVE  <<"untar", i>> \in Holders(o)
      BY <1>1, <2>3 DEF Holders
    <2>4. ASSUME NEW g \in Goroutines, jobs[g].offset = o
          PROVE  <<"job", g>> \in Holders(o)
      BY <2>4 DEF Holders
    <2> QED
      BY <1>3, <2>1, <2>2, <2>3, <2>4 DEF Working
  <1> QED
    BY <1>2, <1>3 DEF Accounted, Written

(* While the process runs, no failure loses an archive silently: whatever  *)
(* downloads, disk writes and messages fail, and however often rebalances  *)
(* make the process read an archive it is still working on, each archive   *)
(* it fetched is written completely, in work, or logged.                   *)
THEOREM LossesAreLogged ==
    ASSUME NobodyEndsIt, DistinctFileNames
    PROVE  Spec => []NoSilentLoss
  <1> DEFINE Inv == Running /\ OwnFiles /\ NotifyInv /\ LossInv
  <1>1. Init => Inv
    <2> SUFFICES ASSUME Init PROVE Inv
      OBVIOUS
    <2>1. Running /\ OwnFiles
      BY RunInit DEF RunInv
    <2>2. NotifyInv
      BY DEF Init, NoJobs, Idle, Job, NotifyInv
    <2>3. \A p \in Nat \ {0} : ~Reached(p)
      BY DEF Init, ReaderInit, NoJobs, Idle, Job, Reached, HeldAt
    <2> QED
      BY <2>1, <2>2, <2>3 DEF LossInv
  <1>2. TypeOK /\ Inv /\ [Next]_vars => Inv'
    BY RunningNext, OwnFilesNext, NotifyNext, LossNext
  <1>3. TypeOK /\ Inv => NoSilentLoss
    BY LossHeld
  <1> QED
    BY <1>1, <1>2, <1>3, HydratorTypes, PTL DEF Spec

-----------------------------------------------------------------------------
(* Acknowledged means written.  Only requests fail, processes end, ... *)
CleanFaults == Faults \subseteq {"crash", "signal", "download"}

(* ... and no location is announced twice, so that no two goroutines write *)
(* to one file.                                                            *)
AnnouncedOnce ==
    \A o, p \in Offsets : IsArchive(o) /\ IsArchive(p) /\ URL(o) = URL(p) => o = p

(* Listen stops and the download directory is removed after the reader was *)
(* closed; what is acknowledged from then on is not committed.             *)
ShutInv == reader # "closed" => listener = "listening" /\ downloader = "open"

Downloaded(o) == directory[File(o)] = URL(o)

FilesInv ==
    /\ \A i \in 1 .. Len(untarChannel) : Downloaded(untarChannel[i])
    /\ \A g \in Goroutines :
          /\ jobs[g].pc \in {"enqueue", "extract"} => Downloaded(jobs[g].offset)
          /\ jobs[g].pc = "copy" => jobs[g].raced = FALSE /\ directory[File(jobs[g].offset)] # "absent"

EventsInv == \A g \in Goroutines : jobs[g].pc = "notify" => Covered(jobs[g])

AckInv == \A i \in 1 .. Len(ackChannel) : IsArchive(ackChannel[i]) => Written(ackChannel[i])

CommitInv ==
    /\ stash # 0 /\ IsArchive(stash) => Written(stash)
    /\ committed # 0 /\ IsArchive(committed) => Written(committed)

OpenInv == reader # "closed" => FilesInv /\ EventsInv /\ AckInv

(* Two places that hold archives with one file name are one place. *)
LEMMA FileApart ==
    ASSUME TypeOK, HeldInv, DistinctFileNames, AnnouncedOnce, NEW o \in Archives, NEW p \in Archives,
           NEW k, NEW i, NEW l, NEW j, HeldAt(k, i, o), HeldAt(l, j, p), File(o) = File(p)
    PROVE  k = l /\ i = j
  <1>1. /\ o \in Nat \ {0} /\ o \in Offsets /\ p \in Offsets /\ IsArchive(o) /\ IsArchive(p)
        /\ topic[o] \in HydratorMessage /\ topic[p] \in HydratorMessage
    BY TypeParts, HydratorAssumption DEF Archives, ReaderTypeOK
  <1>2. URL(o) \in URLs /\ URL(p) \in URLs
    BY <1>1 DEF IsArchive, URL, HydratorMessage
  <1>3. URL(o) = URL(p)
    BY <1>2 DEF DistinctFileNames, File
  <1>4. o = p
    BY <1>1, <1>3 DEF AnnouncedOnce
  <1> QED
    BY <1>1, <1>4 DEF HeldInv

LEMMA ShutNext == ASSUME TypeOK, ShutInv, [Next]_vars PROVE ShutInv'
  <1> USE DEF ShutInv
  <1>1. CASE Consumer
    BY <1>1 DEF Consumer, StopConsuming, NotQuit, Fetch, FetchMessage, FetchEOF, AckOther,
                DropUndecodable, enqueueDownload, readerVars, downloaderVars, channelVars
  <1>2. CASE ListenDownload \/ ListenUntar \/ ListenDone \/ CloseHydrator \/ SecondSignal
    BY <1>2 DEF ListenDownload, ListenUntar, ListenDone, CloseHydrator, SecondSignal, readerVars,
                downloaderVars, channelVars
  <1>3. ASSUME NEW g \in Goroutines, Goroutine(g) \/ DownloadFails(g) \/ ExtractFails(g)
        PROVE  ShutInv'
    BY <1>3 DEF Goroutine, CreateFile, Create, CopyBody, Copy, SendFilename, ExtractEvents,
                notifyEvent, AckArchive, DownloadFails, ExtractFails, readerVars, downloaderVars,
                channelVars
  <1>4. CASE Committer \/ Producer \/ NewGeneration \/ Signal \/ CloseReader
    BY <1>4 DEF Committer, ListenForCommit, CommitTick, Producer, Produce, NewGeneration, Rebalance,
                Signal, CloseQuitChannel, CloseReader, CloseKafkaReader, downloaderVars, channelVars
  <1>5. CASE CloseDownloader
    BY <1>5 DEF CloseDownloader, readerVars, channelVars
  <1>6. CASE Exit \/ Crash
    BY <1>6 DEF Exit, Crash, Restart, DownloaderRestart
  <1>7. CASE UNCHANGED vars
    BY <1>7 DEF vars, readerVars, downloaderVars, channelVars
  <1> QED
    BY <1>1, <1>2, <1>3, <1>4, <1>5, <1>6, <1>7 DEF Next

(* How a step may change the files, for what is behind them. *)
LEMMA FilesFrame ==
    ASSUME TypeOK, FilesInv, \A o \in Offsets : URL(o)' = URL(o),
           UNCHANGED directory,
           \A i \in 1 .. Len(untarChannel') :
              \/ \E m \in 1 .. Len(untarChannel) : untarChannel'[i] = untarChannel[m]
              \/ \E h \in Goroutines : jobs[h].pc = "enqueue" /\ untarChannel'[i] = jobs[h].offset,
           \A g \in Goroutines : jobs'[g].pc \in {"copy", "enqueue", "extract"} =>
              \/ jobs'[g] = jobs[g]
              \/ /\ jobs'[g].pc = "extract"
                 /\ \E m \in 1 .. Len(untarChannel) : jobs'[g].offset = untarChannel[m]
    PROVE  FilesInv'
  <1>1. ASSUME NEW o \in Offsets PROVE File(o)' = File(o) /\ (Downloaded(o)' <=> Downloaded(o))
    BY DEF File, Downloaded
  <1>2. ASSUME NEW m \in 1 .. Len(untarChannel) PROVE untarChannel[m] \in Offsets
    BY TypeParts DEF ChannelTypeOK, Archives
  <1>3. ASSUME NEW g \in Goroutines, jobs[g].pc # "idle" PROVE jobs[g].offset \in Offsets
    BY <1>3, JobArchive DEF Archives
  <1>4. ASSUME NEW i \in 1 .. Len(untarChannel') PROVE Downloaded(untarChannel[i])'
    <2>1. PICK p : p = untarChannel'[i]
      OBVIOUS
    <2>2. p \in Offsets /\ Downloaded(p)
      BY <1>2, <1>3, <2>1 DEF FilesInv
    <2>3. Downloaded(p)'
      BY <1>1, <2>2
    <2> QED
      BY <2>1, <2>3 DEF Downloaded, File, URL
  <1>5. ASSUME NEW g \in Goroutines, jobs'[g].pc \in {"enqueue", "extract"}
        PROVE  Downloaded(jobs[g].offset)'
    <2>1. PICK p : p = jobs'[g].offset
      OBVIOUS
    <2>2. p \in Offsets /\ Downloaded(p)
      BY <1>2, <1>3, <1>5, <2>1 DEF FilesInv
    <2>3. Downloaded(p)'
      BY <1>1, <2>2
    <2> QED
      BY <2>1, <2>3 DEF Downloaded, File, URL
  <1>6. ASSUME NEW g \in Goroutines, jobs'[g].pc = "copy"
        PROVE  jobs'[g].raced = FALSE /\ directory'[File(jobs[g].offset)'] # "absent"
    <2>1. PICK p : p = jobs'[g].offset
      OBVIOUS
    <2>2. p \in Offsets /\ jobs'[g].raced = FALSE /\ directory[File(p)] # "absent"
      BY <1>3, <1>6, <2>1 DEF FilesInv
    <2>3. File(p)' = File(p)
      BY <1>1, <2>2
    <2> QED
      BY <2>1, <2>2, <2>3 DEF File, URL
  <1> QED
    BY <1>4, <1>5, <1>6 DEF FilesInv

(* No other goroutine, and no name in the untar channel, shares the file   *)
(* that goroutine g creates or fills.                                      *)
LEMMA FilesWrite ==
    ASSUME CleanFaults, DistinctFileNames, AnnouncedOnce, TypeOK, HeldInv, FilesInv,
           NEW g \in Goroutines, CreateFile(g) \/ CopyBody(g)
    PROVE  FilesInv'
  <1>0. /\ jobs \in [Goroutines -> JobState] /\ DOMAIN jobs = Goroutines
        /\ untarChannel \in Seq(Archives) /\ directory \in [FileNames -> URLs \cup {"absent", "partial"}]
    BY TypeParts DEF JobTypeOK, ChannelTypeOK, DownloaderTypeOK
  <1>1. PICK o, f : o = jobs[g].offset /\ f = File(o)
    OBVIOUS
  <1>2. o \in Archives /\ URL(o) \in URLs /\ f \in FileNames /\ f = FileName[URL(o)] /\ HeldAt("job", g, o)
    BY <1>1, JobArchive, DownloaderAssumption DEF CreateFile, CopyBody, File, HeldAt
  <1>3. ASSUME NEW h \in Goroutines, h # g, jobs[h].pc # "idle" PROVE File(jobs[h].offset) # f
    <2>1. jobs[h].offset \in Archives /\ HeldAt("job", h, jobs[h].offset)
      BY <1>3, JobArchive DEF HeldAt
    <2> QED
      BY <1>1, <1>2, <1>3, <2>1, FileApart
  <1>4. ASSUME NEW i \in 1 .. Len(untarChannel) PROVE File(untarChannel[i]) # f
    <2>1. untarChannel[i] \in Archives /\ HeldAt("untar", i, untarChannel[i])
      BY <1>0 DEF HeldAt
    <2> QED
      BY <1>1, <1>2, <2>1, FileApart
  <1>5. ASSUME NEW h \in Goroutines PROVE ~SameFile(g, h)
    BY <1>1, <1>3 DEF SameFile
  <1>6. UNCHANGED <<topic, untarChannel>>
    BY DEF CreateFile, CopyBody, readerVars, channelVars
  <1>7. \A p : URL(p)' = URL(p) /\ File(p)' = File(p)
    BY <1>6, TopicFrame
  <1>8. /\ \A h \in Goroutines : h # g => jobs'[h] = jobs[h]
        /\ jobs'[g].offset = o
    <2>1. CASE CreateFile(g)
      BY <1>1, <1>5, <2>1, OffsetsKept DEF CreateFile
    <2>2. CASE CopyBody(g)
      BY <1>0, <1>1, <2>2, OffsetsKept DEF CopyBody
    <2> QED
      BY <2>1, <2>2
  <1>9. PICK c : /\ directory' = [directory EXCEPT ![f] = c]
                 /\ \/ jobs'[g].pc = "copy" /\ jobs'[g].raced = FALSE /\ c = "partial"
                    \/ jobs'[g].pc = "enqueue" /\ c = URL(o)
    <2>1. CASE CreateFile(g)
      <3>0. (\E k \in Goroutines : SameFile(g, k)) = FALSE
        BY <1>5
      <3>1. jobs'[g] = [jobs[g] EXCEPT !.pc = "copy", !.raced = FALSE]
        BY <2>1, <3>0 DEF CreateFile
      <3>2. jobs[g] \in JobState
        BY <1>0
      <3>3. jobs'[g].pc = "copy" /\ jobs'[g].raced = FALSE
        BY <3>1, <3>2 DEF JobState
      <3> QED
        BY <1>1, <1>2, <2>1, <3>3 DEF CreateFile, Create
    <2>2. CASE CopyBody(g)
      <3>1. "badResponse" \notin Faults
        BY DEF CleanFaults
      <3>2. jobs[g].raced = FALSE /\ directory[f] # "absent"
        BY <1>1, <2>2 DEF FilesInv, CopyBody
      <3>3. directory' = [directory EXCEPT ![f] = URL(o)]
        BY <1>0, <1>1, <1>2, <2>2, <3>1, <3>2 DEF CopyBody, Copy
      <3>4. jobs'[g] = Job("enqueue", o)
        BY <1>0, <1>1, <2>2 DEF CopyBody
      <3>5. jobs'[g].pc = "enqueue"
        BY <3>4 DEF Job
      <3> QED
        BY <3>3, <3>5
    <2> QED
      BY <2>1, <2>2
  <1>10. ASSUME NEW n, n # f PROVE directory'[n] = directory[n]
    <2>1. CASE n \in FileNames
      BY <1>0, <1>9, <1>10, <2>1
    <2>2. CASE n \notin FileNames
      BY <1>0, <1>9, <1>10, <2>2
    <2> QED
      BY <2>1, <2>2
  <1>11. directory'[f] = c
    BY <1>0, <1>2, <1>9
  <1>12. ASSUME NEW i \in 1 .. Len(untarChannel') PROVE Downloaded(untarChannel[i])'
    <2>1. PICK p : p = untarChannel[i] /\ p = untarChannel'[i]
      BY <1>6
    <2>2. Downloaded(p) /\ File(p) # f
      BY <1>4, <1>6, <2>1 DEF FilesInv
    <2>3. Downloaded(p)'
      BY <1>7, <1>10, <2>2 DEF Downloaded
    <2> QED
      BY <2>1, <2>3 DEF Downloaded, File, URL
  <1>13. ASSUME NEW h \in Goroutines, h # g
         PROVE  /\ jobs'[h].pc \in {"enqueue", "extract"} => Downloaded(jobs[h].offset)'
                /\ jobs'[h].pc = "copy" =>
                      jobs'[h].raced = FALSE /\ directory'[File(jobs[h].offset)'] # "absent"
    <2>1. PICK j, p : j = jobs[h] /\ j = jobs'[h] /\ p = j.offset
      BY <1>8, <1>13
    <2>2. j.pc # "idle" => File(p) # f
      BY <1>3, <1>13, <2>1
    <2>3. j.pc \in {"enqueue", "extract"} => Downloaded(p)'
      BY <1>7, <1>10, <2>1, <2>2 DEF Downloaded, FilesInv
    <2>4. j.pc = "copy" => j.raced = FALSE /\ directory'[File(p)'] # "absent"
      BY <1>7, <1>10, <2>1, <2>2 DEF FilesInv
    <2> QED
      BY <2>1, <2>3, <2>4 DEF Downloaded, File, URL
  <1>14. /\ jobs'[g].pc \in {"enqueue", "extract"} => Downloaded(jobs[g].offset)'
         /\ jobs'[g].pc = "copy" =>
               jobs'[g].raced = FALSE /\ directory'[File(jobs[g].offset)'] # "absent"
    <2>1. c = URL(o) => Downloaded(o)'
      BY <1>1, <1>7, <1>11 DEF Downloaded
    <2>2. c = "partial" => directory'[File(o)'] # "absent"
      BY <1>1, <1>7, <1>11
    <2> QED
      BY <1>8, <1>9, <2>1, <2>2 DEF Downloaded, File, URL
  <1> QED
    BY <1>12, <1>13, <1>14 DEF FilesInv

LEMMA ReaderOpen ==
    ASSUME TypeOK, [Next]_vars, reader' # "closed"
    PROVE  reader # "closed" \/ Restart
  <1> USE DEF readerVars
  <1>1. CASE Consumer
    BY <1>1 DEF Consumer, StopConsuming, NotQuit, Fetch, FetchMessage, FetchEOF, AckOther,
                DropUndecodable, enqueueDownload
  <1>2. CASE \/ ListenDownload \/ ListenUntar \/ ListenDone \/ CloseHydrator \/ CloseDownloader
             \/ SecondSignal
    BY <1>2 DEF ListenDownload, ListenUntar, ListenDone, CloseHydrator, CloseDownloader, SecondSignal
  <1>3. ASSUME NEW g \in Goroutines, Goroutine(g) \/ DownloadFails(g) \/ ExtractFails(g)
        PROVE  reader # "closed"
    BY <1>3 DEF Goroutine, CreateFile, CopyBody, SendFilename, ExtractEvents, notifyEvent,
                AckArchive, DownloadFails, ExtractFails
  <1>4. CASE Committer \/ Producer \/ NewGeneration \/ Signal \/ CloseReader
    BY <1>4 DEF Committer, ListenForCommit, CommitTick, Producer, Produce, NewGeneration, Rebalance,
                Signal, CloseQuitChannel, CloseReader, CloseKafkaReader
  <1>5. CASE UNCHANGED vars
    BY <1>5 DEF vars
  <1> QED
    BY <1>1, <1>2, <1>3, <1>4, <1>5 DEF Next, Exit, Crash

LEMMA FilesNext ==
    ASSUME CleanFaults, DistinctFileNames, AnnouncedOnce, TypeOK, HeldInv, ShutInv, FilesInv,
           reader # "closed", [Next]_vars
    PROVE  FilesInv'
  <1> USE DEF channelVars, downloaderVars
  <1>0. /\ jobs \in [Goroutines -> JobState] /\ untarChannel \in Seq(Archives)
        /\ \A o \in Offsets : URL(o)' = URL(o)
    BY TypeParts, OutputGrows DEF JobTypeOK, ChannelTypeOK
  <1>a. Idle.pc = "idle" /\ \A at, o : Job(at, o).pc = at /\ Job(at, o).offset = o
    BY DEF Idle, Job
  <1>1. CASE Consumer
    <2>1. UNCHANGED <<directory, untarChannel, jobs>>
      BY <1>1 DEF Consumer, StopConsuming, NotQuit, Fetch, FetchEOF, AckOther, DropUndecodable,
                  enqueueDownload
    <2> QED
      BY <1>0, <2>1, FilesFrame
  <1>2. CASE \/ ListenDone \/ Committer \/ Signal \/ CloseReader \/ CloseHydrator \/ SecondSignal
             \/ Producer \/ NewGeneration \/ UNCHANGED vars
    <2>1. UNCHANGED <<directory, untarChannel, jobs>>
      BY <1>2 DEF ListenDone, Committer, Signal, CloseReader, CloseHydrator, SecondSignal, Producer,
                  NewGeneration, vars
    <2> QED
      BY <1>0, <2>1, FilesFrame
  <1>3. CASE ListenDownload
    <2>1. PICK g \in Goroutines : jobs' = [jobs EXCEPT ![g] = Job("get", Head(downloadChannel))]
      BY <1>3 DEF ListenDownload, Spawn
    <2>2. jobs'[g].pc = "get" /\ \A h \in Goroutines : h # g => jobs'[h] = jobs[h]
      BY <1>0, <1>a, <2>1
    <2>3. UNCHANGED <<directory, untarChannel>>
      BY <1>3 DEF ListenDownload
    <2> QED
      BY <1>0, <2>2, <2>3, FilesFrame
  <1>4. CASE ListenUntar
    <2>1. PICK g \in Goroutines : jobs' = [jobs EXCEPT ![g] = Job("extract", Head(untarChannel))]
      BY <1>4 DEF ListenUntar, Spawn
    <2>2. /\ UNCHANGED directory /\ untarChannel # <<>> /\ untarChannel' = Tail(untarChannel)
      BY <1>4 DEF ListenUntar
    <2>3. /\ Head(untarChannel) = untarChannel[1] /\ 1 \in 1 .. Len(untarChannel)
          /\ \A i \in 1 .. Len(untarChannel') :
                i + 1 \in 1 .. Len(untarChannel) /\ untarChannel'[i] = untarChannel[i + 1]
      BY <1>0, <2>2
    <2>4. /\ jobs'[g].pc = "extract" /\ jobs'[g].offset = untarChannel[1]
          /\ \A h \in Goroutines : h # g => jobs'[h] = jobs[h]
      BY <1>0, <1>a, <2>1, <2>3
    <2>5. \A i \in 1 .. Len(untarChannel') : \E m \in 1 .. Len(untarChannel) : untarChannel'[i] = untarChannel[m]
      BY <2>3
    <2>6. \A h \in Goroutines : \/ jobs'[h] = jobs[h]
                                \/ /\ jobs'[h].pc = "extract"
                                   /\ \E m \in 1 .. Len(untarChannel) : jobs'[h].offset = untarChannel[m]
      BY <2>3, <2>4
    <2> QED
      BY <1>0, <2>2, <2>5, <2>6, FilesFrame
  <1>5. ASSUME NEW g \in Goroutines, Goroutine(g) \/ DownloadFails(g) \/ ExtractFails(g)
        PROVE  FilesInv'
    <2>1. CASE CreateFile(g) \/ CopyBody(g)
      BY <2>1, FilesWrite
    <2>2. CASE SendFilename(g)
      <3>1. /\ UNCHANGED directory /\ jobs[g].pc = "enqueue" /\ jobs[g].offset \in Archives
            /\ untarChannel' = Append(untarChannel, jobs[g].offset) /\ jobs' = [jobs EXCEPT ![g] = Idle]
        BY <2>2, JobArchive DEF SendFilename
      <3>2. jobs'[g].pc = "idle" /\ \A h \in Goroutines : h # g => jobs'[h] = jobs[h]
        BY <1>0, <1>a, <3>1
      <3>3. \A i \in 1 .. Len(untarChannel') :
               \/ i \in 1 .. Len(untarChannel) /\ untarChannel'[i] = untarChannel[i]
               \/ untarChannel'[i] = jobs[g].offset
        BY <1>0, <3>1
      <3>4. \A i \in 1 .. Len(untarChannel') :
               \/ \E m \in 1 .. Len(untarChannel) : untarChannel'[i] = untarChannel[m]
               \/ \E h \in Goroutines : jobs[h].pc = "enqueue" /\ untarChannel'[i] = jobs[h].offset
        BY <3>1, <3>3
      <3> QED
        BY <1>0, <3>1, <3>2, <3>4, FilesFrame
    <2>3. CASE \/ ExtractEvents(g) \/ notifyEvent(g) \/ AckArchive(g)
               \/ DownloadFails(g) \/ ExtractFails(g)
      <3>1. UNCHANGED <<directory, untarChannel>>
        BY <2>3 DEF ExtractEvents, notifyEvent, AckArchive, DownloadFails, ExtractFails
      <3>2. PICK j : jobs' = [jobs EXCEPT ![g] = j] /\ j.pc \in {"idle", "notify", "blocked"}
        <4>1. CASE AckArchive(g) \/ DownloadFails(g) \/ ExtractFails(g)
          BY <1>a, <4>1 DEF AckArchive, DownloadFails, ExtractFails
        <4>2. CASE ExtractEvents(g)
          <5>1. PICK e : \/ jobs' = [jobs EXCEPT ![g] = [Job("notify", jobs[g].offset) EXCEPT !.events = e]]
                         \/ jobs' = [jobs EXCEPT ![g] = Job("blocked", jobs[g].offset)]
            BY <4>2 DEF ExtractEvents
          <5>2. [Job("notify", jobs[g].offset) EXCEPT !.events = e].pc = "notify"
            BY DEF Job
          <5>3. PICK r, b : /\ r = [Job("notify", jobs[g].offset) EXCEPT !.events = e]
                            /\ b = Job("blocked", jobs[g].offset)
            OBVIOUS
          <5>4. r.pc = "notify" /\ b.pc = "blocked"
            BY <1>a, <5>2, <5>3
          <5>5. jobs' = [jobs EXCEPT ![g] = r] \/ jobs' = [jobs EXCEPT ![g] = b]
            BY <5>1, <5>3
          <5> QED
            BY <5>4, <5>5
        <4>3. CASE notifyEvent(g)
          <5>1. /\ jobs' = [jobs EXCEPT ![g] = [jobs[g] EXCEPT !.events = Tail(jobs[g].events)]]
                /\ jobs[g].pc = "notify"
            BY <4>3 DEF notifyEvent
          <5>2. jobs[g] \in JobState
            BY <1>0
          <5>3. [jobs[g] EXCEPT !.events = Tail(jobs[g].events)].pc = "notify"
            BY <5>1, <5>2 DEF JobState
          <5> QED
            BY <5>1, <5>3
        <4> QED
          BY <2>3, <4>1, <4>2, <4>3
      <3>3. /\ jobs'[g].pc \in {"idle", "notify", "blocked"}
            /\ \A h \in Goroutines : h # g => jobs'[h] = jobs[h]
        BY <1>0, <3>2
      <3> QED
        BY <1>0, <3>1, <3>3, FilesFrame
    <2> QED
      BY <1>5, <2>1, <2>2, <2>3 DEF Goroutine
  <1>6. ~CloseDownloader
    BY DEF CloseDownloader, ShutInv
  <1>7. CASE Exit \/ Crash
    <2>1. /\ untarChannel' = <<>> /\ \A g \in Goroutines : jobs'[g].pc = "idle"
      BY <1>7, <1>a DEF Exit, Crash, Restart, NoJobs
    <2> QED
      BY <2>1 DEF FilesInv
  <1> QED
    BY <1>1, <1>2, <1>3, <1>4, <1>5, <1>6, <1>7 DEF Next

-----------------------------------------------------------------------------
(* Whole archives are extracted while the reader is open. *)
LEMMA UntarredWhole ==
    ASSUME CleanFaults, TypeOK, ShutInv, reader # "closed", NEW o \in Archives, URL(o) \in URLs,
           Downloaded(o), NEW dir \in Untarred(o)
    PROVE  dir.url = URL(o) /\ dir.files = Files(Archive[URL(o)])
  <1>1. "disk" \notin Faults /\ downloader = "open"
    BY DEF CleanFaults, ShutInv
  <1>2. Untarred(o) = {[url |-> URL(o), files |-> Files(Archive[URL(o)])]}
    BY <1>1 DEF Untarred, Downloaded
  <1> QED
    BY <1>2

LEMMA ExtractWhole ==
    ASSUME CleanFaults, TypeOK, ShutInv, FilesInv, reader # "closed", NEW g \in Goroutines,
           ExtractEvents(g), jobs'[g].pc = "notify", NEW o, o = jobs[g].offset
    PROVE  /\ o \in Archives /\ URL(o) \in URLs /\ UNCHANGED <<topic, destination>>
           /\ jobs'[g].offset = o
           /\ jobs'[g].events = Envelope(URL(o), extractEvents(Archive[URL(o)], Files(Archive[URL(o)])))
  <1>1. o \in Archives /\ URL(o) \in URLs /\ UNCHANGED <<topic, destination>>
    BY ExtractStep
  <1>2. PICK dir \in Untarred(o) : jobs'[g].offset = o /\ jobs'[g].events = UnpackedEvents(dir)
    BY ExtractStep
  <1>3. Downloaded(o)
    BY DEF FilesInv, ExtractEvents
  <1>4. dir.url = URL(o) /\ dir.files = Files(Archive[URL(o)])
    BY <1>1, <1>3, UntarredWhole
  <1> QED
    BY <1>1, <1>2, <1>4 DEF UnpackedEvents

LEMMA ExtractAll ==
    ASSUME CleanFaults, TypeOK, ShutInv, FilesInv, reader # "closed", NEW g \in Goroutines,
           ExtractEvents(g), jobs'[g].pc = "notify"
    PROVE  Covered(jobs[g])'
  <1>1. PICK o, u : o = jobs[g].offset /\ u = URL(o)
    OBVIOUS
  <1>2. PICK s : s = Envelope(u, extractEvents(Archive[u], Files(Archive[u])))
    OBVIOUS
  <1>3. /\ u \in URLs /\ UNCHANGED <<topic, destination>>
        /\ jobs'[g].offset = o /\ jobs'[g].events = s
    BY <1>1, <1>2, ExtractWhole
  <1>4. ASSUME NEW e \in AllEvents(u) PROVE \E n \in 1 .. Len(s) : s[n] = e
    <2>1. PICK i \in DOMAIN Archive[u] : Extracted(Archive[u], i) /\ e = <<u, i>>
      BY DEF AllEvents
    <2>2. Archive[u][i].file \in Files(Archive[u])
      BY DEF Files
    <2>3. LET events == Envelope(u, extractEvents(Archive[u], Files(Archive[u])))
          IN  \E n \in 1 .. Len(events) : events[n] = <<u, i>>
      BY <1>3, <2>1, <2>2, EnvelopeCovers
    <2> QED
      BY <1>2, <2>1, <2>3
  <1>5. URL(jobs[g].offset)' = u
    BY <1>1, <1>3 DEF URL
  <1> QED
    BY <1>3, <1>4, <1>5 DEF Covered, AllEvents

LEMMA EventsNext ==
    ASSUME CleanFaults, TypeOK, ShutInv, FilesInv, EventsInv, reader # "closed", [Next]_vars
    PROVE  EventsInv'
  <1> SUFFICES ASSUME NEW g \in Goroutines, jobs'[g].pc = "notify" PROVE Covered(jobs[g])'
    BY DEF EventsInv
  <1>1. CASE ExtractEvents(g)
    BY <1>1, ExtractAll
  <1>2. CASE notifyEvent(g)
    <2>1. Write(Head(jobs[g].events), jobs[g].offset) /\ jobs[g].pc = "notify"
      BY <1>2 DEF notifyEvent
    <2>2. destination' = destination \cup {Head(jobs[g].events)}
      BY <2>1 DEF Write, CleanFaults
    <2> QED
      BY <1>2, <2>1, <2>2, WriteCovers DEF EventsInv
  <1>3. CASE ~ExtractEvents(g) /\ ~notifyEvent(g)
    <2>1. jobs'[g] = jobs[g] /\ jobs[g].pc = "notify"
      BY <1>3, NotifiersKept
    <2>2. Covered(jobs[g])
      BY <2>1 DEF EventsInv
    <2> QED
      BY <2>1, <2>2, OutputGrows, CoveredFrame
  <1> QED
    BY <1>1, <1>2, <1>3

(* What is written stays written. *)
LEMMA WrittenStays ==
    ASSUME TypeOK, [Next]_vars, NEW o \in Offsets, IsArchive(o) => Written(o)
    PROVE  (IsArchive(o) => Written(o))'
  BY OutputGrows DEF Written, AllEvents

LEMMA AckNext ==
    ASSUME TypeOK, EventsInv, AckInv, [Next]_vars
    PROVE  AckInv'
  <1>0. /\ ackChannel \in Seq(Offsets) /\ ConsumerTypeOK
    BY TypeParts DEF ReaderTypeOK
  <1>1. ASSUME \A i \in 1 .. Len(ackChannel') : \E o \in Offsets :
                  o = ackChannel'[i] /\ (IsArchive(o) => Written(o))
        PROVE  AckInv'
    <2> SUFFICES ASSUME NEW i \in 1 .. Len(ackChannel')
                 PROVE  (IsArchive(ackChannel[i]) => Written(ackChannel[i]))'
      BY DEF AckInv
    <2>1. PICK o \in Offsets : o = ackChannel'[i] /\ (IsArchive(o) => Written(o))
      BY <1>1
    <2>2. (IsArchive(o) => Written(o))'
      BY <2>1, WrittenStays
    <2> QED
      BY <2>1, <2>2 DEF IsArchive, Written, URL
  <1>2. \A i \in 1 .. Len(ackChannel) : /\ ackChannel[i] \in Offsets
                                        /\ IsArchive(ackChannel[i]) => Written(ackChannel[i])
    BY <1>0 DEF AckInv
  <1>3. CASE UNCHANGED ackChannel \/ ackChannel' = <<>>
    BY <1>1, <1>2, <1>3
  <1>4. ASSUME NEW o \in Offsets, IsArchive(o) => Written(o), ackChannel' = Append(ackChannel, o)
        PROVE  AckInv'
    <2>1. \A i \in 1 .. Len(ackChannel') : \/ i \in 1 .. Len(ackChannel) /\ ackChannel'[i] = ackChannel[i]
                                           \/ ackChannel'[i] = o
      BY <1>0, <1>4
    <2> QED
      BY <1>1, <1>2, <1>4, <2>1
  <1>5. CASE AckOther
    <2>1. cur \in Offsets /\ ~IsArchive(cur)
      BY <1>0, <1>5, TypeParts DEF AckOther, ConsumerTypeOK, IsArchive, ReaderTypeOK
    <2> QED
      BY <1>4, <1>5, <2>1 DEF AckOther, Ack
  <1>6. ASSUME NEW g \in Goroutines, AckArchive(g) PROVE AckInv'
    <2>1. jobs[g].pc = "notify" /\ jobs[g].events = <<>> /\ Ack(jobs[g].offset)
      BY <1>6 DEF AckArchive
    <2>2. jobs[g].offset \in Offsets
      BY <2>1, JobArchive DEF Archives
    <2>3. Written(jobs[g].offset)
      BY <2>1 DEF EventsInv, Covered, Written
    <2> QED
      BY <1>4, <2>1, <2>2, <2>3 DEF Ack
  <1>7. CASE ListenForCommit
    <2>1. ackChannel # <<>> /\ ackChannel' = Tail(ackChannel)
      BY <1>7 DEF ListenForCommit
    <2>2. \A i \in 1 .. Len(ackChannel') : i + 1 \in 1 .. Len(ackChannel) /\ ackChannel'[i] = ackChannel[i + 1]
      BY <1>0, <2>1
    <2> QED
      BY <1>1, <1>2, <2>2
  <1>8. \/ AckOther \/ (\E g \in Goroutines : AckArchive(g)) \/ ListenForCommit
        \/ UNCHANGED ackChannel \/ ackChannel' = <<>>
    <2> USE DEF readerVars
    <2>1. CASE Consumer
      BY <2>1 DEF Consumer, StopConsuming, NotQuit, Fetch, FetchMessage, FetchEOF, DropUndecodable,
                  enqueueDownload
    <2>2. CASE \/ ListenDownload \/ ListenUntar \/ ListenDone \/ CloseHydrator \/ CloseDownloader
               \/ SecondSignal
      BY <2>2 DEF ListenDownload, ListenUntar, ListenDone, CloseHydrator, CloseDownloader, SecondSignal
    <2>3. ASSUME NEW g \in Goroutines, Goroutine(g) \/ DownloadFails(g) \/ ExtractFails(g)
          PROVE  AckArchive(g) \/ UNCHANGED ackChannel
      BY <2>3 DEF Goroutine, CreateFile, CopyBody, SendFilename, ExtractEvents, notifyEvent,
                  DownloadFails, ExtractFails
    <2>4. CASE Committer \/ Producer \/ NewGeneration \/ Signal \/ CloseReader
      BY <2>4 DEF Committer, CommitTick, Producer, Produce, NewGeneration, Rebalance,
                  Signal, CloseQuitChannel, CloseReader, CloseKafkaReader
    <2>5. CASE Exit \/ Crash
      BY <2>5 DEF Exit, Crash, Restart, ReaderRestart
    <2>6. CASE UNCHANGED vars
      BY <2>6 DEF vars
    <2> QED
      BY <2>1, <2>2, <2>3, <2>4, <2>5, <2>6 DEF Next
  <1> QED
    BY <1>3, <1>5, <1>6, <1>7, <1>8

LEMMA CommitNext ==
    ASSUME TypeOK, OpenInv, CommitInv, [Next]_vars
    PROVE  CommitInv'
  <1>0. /\ ackChannel \in Seq(Offsets) /\ stash \in 0 .. Len(topic) /\ committed \in 0 .. Len(topic)
        /\ Len(topic) \in Nat
    BY TypeParts DEF ReaderTypeOK
  <1> DEFINE Good(o) == o = 0 \/ (o \in Offsets /\ (IsArchive(o) => Written(o)))
  <1>1. Good(stash) /\ Good(committed)
    BY <1>0 DEF CommitInv
  <1>2. \/ /\ stash' \in {0, stash} /\ committed' \in {committed, stash}
        \/ /\ reader # "closed" /\ ackChannel # <<>>
           /\ stash' \in {stash, Head(ackChannel)} /\ UNCHANGED committed
    <2> USE DEF readerVars
    <2>1. CASE Consumer
      BY <2>1 DEF Consumer, StopConsuming, NotQuit, Fetch, FetchMessage, FetchEOF, AckOther,
                  DropUndecodable, enqueueDownload
    <2>2. CASE \/ ListenDownload \/ ListenUntar \/ ListenDone \/ CloseHydrator \/ CloseDownloader
               \/ SecondSignal
      BY <2>2 DEF ListenDownload, ListenUntar, ListenDone, CloseHydrator, CloseDownloader, SecondSignal
    <2>3. ASSUME NEW g \in Goroutines, Goroutine(g) \/ DownloadFails(g) \/ ExtractFails(g)
          PROVE  UNCHANGED <<stash, committed>>
      BY <2>3 DEF Goroutine, CreateFile, CopyBody, SendFilename, ExtractEvents, notifyEvent,
                  AckArchive, DownloadFails, ExtractFails
    <2>4. CASE Producer \/ NewGeneration \/ Signal \/ CloseReader \/ CommitTick
      BY <2>4 DEF CommitTick, Producer, Produce, NewGeneration, Rebalance, FinalCommit,
                  Signal, CloseQuitChannel, CloseReader, CloseKafkaReader
    <2>5. CASE ListenForCommit
      BY <2>5 DEF ListenForCommit, Merge
    <2>6. CASE Exit \/ Crash
      BY <2>6 DEF Exit, Crash, Restart, ReaderRestart
    <2>7. CASE UNCHANGED vars
      BY <2>7 DEF vars
    <2> QED
      BY <2>1, <2>2, <2>3, <2>4, <2>5, <2>6, <2>7 DEF Next, Committer
  <1>3. reader # "closed" /\ ackChannel # <<>> => Good(Head(ackChannel))
    <2> SUFFICES ASSUME reader # "closed", ackChannel # <<>> PROVE Good(Head(ackChannel))
      OBVIOUS
    <2>1. Head(ackChannel) = ackChannel[1] /\ 1 \in 1 .. Len(ackChannel) /\ ackChannel[1] \in Offsets
      BY <1>0
    <2> QED
      BY <2>1 DEF OpenInv, AckInv
  <1>4. Good(stash') /\ Good(committed')
    <2> HIDE DEF Good
    <2>1. Good(0)
      BY DEF Good
    <2> QED
      BY <1>1, <1>2, <1>3, <2>1
  <1>5. PICK a, b : a = stash' /\ b = committed'
    OBVIOUS
  <1>6. ASSUME NEW o, Good(o), o # 0 PROVE (IsArchive(o) => Written(o))'
    BY <1>6, WrittenStays
  <1>7. /\ a # 0 => (IsArchive(a) => Written(a))'
        /\ b # 0 => (IsArchive(b) => Written(b))'
    BY <1>4, <1>5, <1>6
  <1> QED
    BY <1>5, <1>7 DEF CommitInv, IsArchive, Written, URL

LEMMA OpenNext ==
    ASSUME CleanFaults, DistinctFileNames, AnnouncedOnce, TypeOK, HeldInv, ShutInv, OpenInv, [Next]_vars
    PROVE  OpenInv'
  <1> SUFFICES ASSUME reader' # "closed" PROVE FilesInv' /\ EventsInv' /\ AckInv'
    BY DEF OpenInv
  <1>1. CASE reader # "closed"
    BY <1>1, FilesNext, EventsNext, AckNext DEF OpenInv
  <1>2. CASE Restart
    <2>1. /\ untarChannel' = <<>> /\ ackChannel' = <<>> /\ \A g \in Goroutines : jobs'[g].pc = "idle"
      BY <1>2 DEF Restart, ReaderRestart, NoJobs, Idle, Job
    <2> QED
      BY <2>1 DEF FilesInv, EventsInv, AckInv
  <1> QED
    BY <1>1, <1>2, ReaderOpen

(* Where only requests fail and every location is announced once, an       *)
(* archive is acknowledged to Kafka after all of its events are in the     *)
(* destination topic - for every point at which a process may be stopped   *)
(* or shut down, since what it extracts from the directory it is removing  *)
(* is acknowledged to a reader that commits no more.                       *)
THEOREM CommittedMeansWritten ==
    ASSUME CleanFaults, DistinctFileNames
    PROVE  Spec /\ []AnnouncedOnce => []CommittedArchiveWritten
  <1> DEFINE Inv == HeldInv /\ ShutInv /\ OpenInv /\ CommitInv
  <1>1. Init => Inv
    <2> SUFFICES ASSUME Init PROVE Inv
      OBVIOUS
    <2>1. HeldInv
      BY DEF Init, ReaderInit, NoJobs, Idle, Job, HeldInv, HeldAt
    <2>2. ShutInv /\ CommitInv
      BY DEF Init, ReaderInit, DownloaderInit, ShutInv, CommitInv
    <2>3. untarChannel = <<>> /\ ackChannel = <<>> /\ \A g \in Goroutines : jobs[g].pc = "idle"
      BY DEF Init, ReaderInit, NoJobs, Idle, Job
    <2>4. OpenInv
      BY <2>3 DEF OpenInv, FilesInv, EventsInv, AckInv
    <2> QED
      BY <2>1, <2>2, <2>4
  <1>2. TypeOK /\ AnnouncedOnce /\ Inv /\ [Next]_vars => Inv'
    <2>1. "rebalance" \notin Faults
      BY DEF CleanFaults
    <2> QED
      BY <2>1, HeldNext, ShutNext, OpenNext, CommitNext
  <1>3. Inv => CommittedArchiveWritten
    BY DEF CommitInv, CommittedArchiveWritten, Written
  <1> QED
    BY <1>1, <1>2, <1>3, HydratorTypes, PTL DEF Spec

-----------------------------------------------------------------------------
(* States before events.  Nobody shuts the process down. *)
OrderedFaults == Faults \subseteq {"crash", "download"}

IsEvent(e) == Archive[e[1]][e[2]].name = "Event"

(* Before an event that goroutine j is going to write, the states of its   *)
(* archive are written or come first in the event channel.                 *)
Ordered(j) ==
    \A n \in 1 .. Len(j.events) :
        /\ j.events[n][1] = URL(j.offset)
        /\ IsEvent(j.events[n]) => \A x \in AllEvents(URL(j.offset)) : ~IsEvent(x) =>
              x \in destination \/ \E m \in 1 .. n - 1 : j.events[m] = x

OrderInv == \A g \in Goroutines : jobs[g].pc = "notify" => Ordered(jobs[g])

LEMMA ReaderRuns == ASSUME OrderedFaults, TypeOK, reader = "running", [Next]_vars PROVE reader' = "running"
  <1> USE DEF readerVars
  <1>1. CASE Consumer
    BY <1>1 DEF Consumer, StopConsuming, NotQuit, Fetch, FetchMessage, FetchEOF, AckOther,
                DropUndecodable, enqueueDownload
  <1>2. CASE \/ ListenDownload \/ ListenUntar \/ ListenDone \/ CloseHydrator \/ CloseDownloader
             \/ SecondSignal
    BY <1>2 DEF ListenDownload, ListenUntar, ListenDone, CloseHydrator, CloseDownloader, SecondSignal
  <1>3. ASSUME NEW g \in Goroutines, Goroutine(g) \/ DownloadFails(g) \/ ExtractFails(g)
        PROVE  reader' = "running"
    BY <1>3 DEF Goroutine, CreateFile, CopyBody, SendFilename, ExtractEvents, notifyEvent,
                AckArchive, DownloadFails, ExtractFails
  <1>4. CASE Committer \/ Producer \/ NewGeneration \/ Exit \/ Crash \/ UNCHANGED vars
    BY <1>4 DEF Committer, ListenForCommit, CommitTick, Producer, Produce, NewGeneration, Rebalance,
                Exit, Crash, Restart, ReaderRestart, vars
  <1>5. ~Signal /\ ~CloseReader
    BY DEF Signal, CloseReader, CloseKafkaReader, OrderedFaults
  <1> QED
    BY <1>1, <1>2, <1>3, <1>4, <1>5 DEF Next

LEMMA OrderedFrame ==
    ASSUME TypeOK, \A o \in Offsets : URL(o)' = URL(o), destination \subseteq destination',
           NEW g \in Goroutines, jobs'[g] = jobs[g], jobs[g].pc = "notify", Ordered(jobs[g])
    PROVE  Ordered(jobs[g])'
  <1>1. PICK j : j = jobs[g]
    OBVIOUS
  <1>2. j.offset \in Offsets
    BY <1>1, JobArchive DEF Archives
  <1>3. /\ URL(j.offset)' = URL(j.offset) /\ AllEvents(URL(j.offset))' = AllEvents(URL(j.offset))
        /\ \A e : IsEvent(e)' <=> IsEvent(e)
    BY <1>2 DEF AllEvents, IsEvent
  <1>4. Ordered(j)
    BY <1>1
  <1>5. Ordered(j)'
    BY <1>3, <1>4 DEF Ordered
  <1> QED
    BY <1>1, <1>5 DEF Ordered

(* extractEvents goes through the states first. *)
LEMMA ExtractOrdered ==
    ASSUME CleanFaults, TypeOK, ShutInv, FilesInv, reader # "closed", NEW g \in Goroutines,
           ExtractEvents(g), jobs'[g].pc = "notify"
    PROVE  Ordered(jobs[g])'
  <1>1. PICK o, u : o = jobs[g].offset /\ u = URL(o)
    OBVIOUS
  <1>2. PICK A : A = Archive[u]
    OBVIOUS
  <1>3. PICK q : q = extractEvents(A, Files(A))
    OBVIOUS
  <1>4. PICK s : s = Envelope(u, q)
    OBVIOUS
  <1>5. /\ u \in URLs /\ UNCHANGED <<topic, destination>>
        /\ jobs'[g].offset = o /\ jobs'[g].events = s
    BY <1>1, <1>2, <1>3, <1>4, ExtractWhole
  <1>6. /\ Len(q) \in Nat /\ Len(s) = Len(q) /\ \A n \in 1 .. Len(q) : s[n] = <<u, q[n]>>
    <2>1. PICK F : F = Files(A)
      OBVIOUS
    <2>2. q = extractEvents(Archive[u], F) /\ u \in URLs
      BY <1>2, <1>3, <1>5, <2>1
    <2>3. /\ q \in Seq(DOMAIN Archive[u]) /\ Len(Envelope(u, q)) = Len(q)
          /\ \A n \in 1 .. Len(q) : Envelope(u, q)[n] = <<u, q[n]>>
      BY <2>2, EnvelopeType
    <2> QED
      BY <1>4, <2>3
  <1>7. /\ \A i \in Kept(A, Files(A)) : \E n \in 1 .. Len(q) : q[n] = i
        /\ \A m, n \in 1 .. Len(q) : m < n /\ A[q[m]].name = "Event" => A[q[n]].name = "Event"
    <2>1. A \in Seq(Resource)
      BY <1>2, <1>5, HydratorAssumption
    <2>2. PICK F : F = Files(A)
      OBVIOUS
    <2>3. /\ \A i \in Kept(A, F) : \E n \in 1 .. Len(extractEvents(A, F)) : extractEvents(A, F)[n] = i
          /\ \A m, n \in 1 .. Len(extractEvents(A, F)) :
                m < n /\ A[extractEvents(A, F)[m]].name = "Event"
                => A[extractEvents(A, F)[n]].name = "Event"
      BY <2>1, KeptListed, EventsListedLast
    <2>4. q = extractEvents(A, F)
      BY <1>3, <2>2
    <2> QED
      BY <2>2, <2>3, <2>4
  <1>8. ASSUME NEW n \in 1 .. Len(s), A[q[n]].name = "Event", NEW i \in DOMAIN A, Extracted(A, i),
               A[i].name # "Event"
        PROVE  \E m \in 1 .. n - 1 : s[m] = <<u, i>>
    <2>1. i \in Kept(A, Files(A))
      BY <1>8 DEF Kept, Files
    <2>2. PICK m \in 1 .. Len(q) : q[m] = i
      BY <1>7, <2>1
    <2>3. n \in 1 .. Len(q) /\ ~(n < m) /\ n # m
      BY <1>6, <1>7, <1>8, <2>2
    <2>4. m \in 1 .. n - 1
      BY <1>6, <2>3
    <2> QED
      BY <1>6, <2>2, <2>4
  <1>9. ASSUME NEW n \in 1 .. Len(s)
        PROVE  /\ s[n][1] = u
               /\ IsEvent(s[n]) => \A x \in AllEvents(u) : ~IsEvent(x) => \E m \in 1 .. n - 1 : s[m] = x
    <2>1. s[n] = <<u, q[n]>>
      BY <1>6
    <2>2. s[n][1] = u /\ (IsEvent(s[n]) <=> A[q[n]].name = "Event")
      BY <1>2, <2>1 DEF IsEvent
    <2>3. ASSUME NEW x \in AllEvents(u), ~IsEvent(x), A[q[n]].name = "Event"
          PROVE  \E m \in 1 .. n - 1 : s[m] = x
      <3>1. PICK i \in DOMAIN A : Extracted(A, i) /\ x = <<u, i>>
        BY <1>2 DEF AllEvents
      <3>2. A[i].name # "Event"
        BY <1>2, <2>3, <3>1 DEF IsEvent
      <3> QED
        BY <1>8, <2>3, <3>1, <3>2
    <2> QED
      BY <2>2, <2>3
  <1>10. URL(jobs[g].offset)' = u
    BY <1>1, <1>5 DEF URL
  <1>11. AllEvents(u)' = AllEvents(u) /\ \A e : IsEvent(e)' <=> IsEvent(e)
    BY DEF AllEvents, IsEvent
  <1>12. /\ AllEvents(URL(jobs[g].offset))' = AllEvents(u)
         /\ \A n \in 1 .. Len(s) :
               /\ s[n][1] = u
               /\ IsEvent(s[n]) => \A x \in AllEvents(u) : ~IsEvent(x) => \E m \in 1 .. n - 1 : s[m] = x
    BY <1>9, <1>10 DEF AllEvents
  <1> QED
    BY <1>5, <1>10, <1>11, <1>12 DEF Ordered

LEMMA WriteOrdered ==
    ASSUME TypeOK, NEW g \in Goroutines, notifyEvent(g), Ordered(jobs[g]),
           destination' = destination \cup {Head(jobs[g].events)}
    PROVE  Ordered(jobs[g])'
  <1>1. PICK q, o, u : q = jobs[g].events /\ o = jobs[g].offset /\ u = URL(o)
    OBVIOUS
  <1>2. /\ q # <<>> /\ q \in Seq(Envelopes) /\ UNCHANGED topic
        /\ jobs'[g].offset = o /\ jobs'[g].events = Tail(q)
    BY <1>1, NotifyStep
  <1>3. URL(jobs[g].offset)' = u
    BY <1>1, <1>2 DEF URL
  <1>4. /\ Head(q) = q[1] /\ Len(q) \in Nat /\ Len(Tail(q)) = Len(q) - 1
        /\ \A n \in 1 .. Len(Tail(q)) : n + 1 \in 1 .. Len(q) /\ Tail(q)[n] = q[n + 1]
    BY <1>2
  <1>5. PICK t : t = Tail(q)
    OBVIOUS
  <1>6. ASSUME NEW n \in 1 .. Len(t)
        PROVE  /\ t[n][1] = u
               /\ IsEvent(t[n]) => \A x \in AllEvents(u) : ~IsEvent(x) =>
                     x \in destination' \/ \E m \in 1 .. n - 1 : t[m] = x
    <2>1. n \in Nat /\ n + 1 \in 1 .. Len(q) /\ t[n] = q[n + 1] /\ Len(t) = Len(q) - 1
      BY <1>4, <1>5
    <2>2. q[n + 1][1] = u
      BY <1>1, <2>1 DEF Ordered
    <2>3. ASSUME NEW x \in AllEvents(u), ~IsEvent(x), IsEvent(q[n + 1])
          PROVE  x \in destination' \/ \E m \in 1 .. n - 1 : t[m] = x
      <3>1. x \in destination \/ \E m \in 1 .. (n + 1) - 1 : q[m] = x
        BY <1>1, <2>1, <2>3 DEF Ordered
      <3>2. ASSUME NEW m \in 1 .. (n + 1) - 1, q[m] = x
            PROVE  x \in destination' \/ \E k \in 1 .. n - 1 : t[k] = x
        <4>1. CASE m = 1
          BY <1>1, <1>4, <3>2, <4>1
        <4>2. CASE m # 1
          <5>1. m - 1 \in 1 .. n - 1 /\ m - 1 \in 1 .. Len(t) /\ (m - 1) + 1 = m
            BY <1>4, <2>1, <4>2
          <5>2. t[m - 1] = x
            BY <1>4, <1>5, <3>2, <5>1
          <5> QED
            BY <5>1, <5>2
        <4> QED
          BY <4>1, <4>2
      <3> QED
        BY <3>1, <3>2
    <2> QED
      BY <2>1, <2>2, <2>3
  <1>7. AllEvents(u)' = AllEvents(u) /\ \A e : IsEvent(e)' <=> IsEvent(e)
    BY DEF AllEvents, IsEvent
  <1>8. /\ AllEvents(URL(jobs[g].offset))' = AllEvents(u) /\ jobs'[g].events = t
        /\ \A n \in 1 .. Len(t) :
              /\ t[n][1] = u
              /\ IsEvent(t[n]) => \A x \in AllEvents(u) : ~IsEvent(x) =>
                    x \in destination' \/ \E m \in 1 .. n - 1 : t[m] = x
    BY <1>2, <1>3, <1>5, <1>6 DEF AllEvents
  <1> QED
    BY <1>3, <1>7, <1>8 DEF Ordered

LEMMA OrderNext ==
    ASSUME CleanFaults, TypeOK, ShutInv, FilesInv, OrderInv, reader # "closed", [Next]_vars
    PROVE  OrderInv'
  <1> SUFFICES ASSUME NEW g \in Goroutines, jobs'[g].pc = "notify" PROVE Ordered(jobs[g])'
    BY DEF OrderInv
  <1>1. CASE ExtractEvents(g)
    BY <1>1, ExtractOrdered
  <1>2. CASE notifyEvent(g)
    <2>1. Write(Head(jobs[g].events), jobs[g].offset) /\ jobs[g].pc = "notify"
      BY <1>2 DEF notifyEvent
    <2>2. destination' = destination \cup {Head(jobs[g].events)}
      BY <2>1 DEF Write, CleanFaults
    <2> QED
      BY <1>2, <2>1, <2>2, WriteOrdered DEF OrderInv
  <1>3. CASE ~ExtractEvents(g) /\ ~notifyEvent(g)
    <2>1. jobs'[g] = jobs[g] /\ jobs[g].pc = "notify"
      BY <1>3, NotifiersKept
    <2>2. Ordered(jobs[g])
      BY <2>1 DEF OrderInv
    <2> QED
      BY <2>1, <2>2, OutputGrows, OrderedFrame
  <1> QED
    BY <1>1, <1>2, <1>3

LEMMA StatesFirstNext ==
    ASSUME CleanFaults, TypeOK, OrderInv, StatesBeforeEvents, [Next]_vars
    PROVE  StatesBeforeEvents'
  <1>1. ASSUME NEW g \in Goroutines, notifyEvent(g) PROVE StatesBeforeEvents'
    <2>1. PICK q, o, u : q = jobs[g].events /\ o = jobs[g].offset /\ u = URL(o)
      OBVIOUS
    <2>2. /\ q # <<>> /\ q \in Seq(Envelopes) /\ Write(Head(q), o) /\ jobs[g].pc = "notify"
      BY <1>1, <2>1, NotifyStep
    <2>3. destination' = destination \cup {Head(q)} /\ Head(q) = q[1] /\ 1 \in 1 .. Len(q)
      BY <2>2 DEF Write, CleanFaults
    <2>4. Ordered(jobs[g])
      BY <2>2 DEF OrderInv
    <2>5. q[1][1] = u /\ (IsEvent(q[1]) => \A x \in AllEvents(u) : ~IsEvent(x) => x \in destination)
      BY <2>1, <2>3, <2>4 DEF Ordered
    <2> QED
      BY <2>3, <2>5 DEF StatesBeforeEvents, IsEvent, AllEvents
  <1>2. CASE UNCHANGED destination
    BY <1>2 DEF StatesBeforeEvents, AllEvents
  <1>3. (\E g \in Goroutines : notifyEvent(g)) \/ UNCHANGED destination
    <2> USE DEF outputVars
    <2>1. CASE Consumer
      BY <2>1 DEF Consumer, StopConsuming, NotQuit, Fetch, FetchEOF, AckOther, DropUndecodable,
                  enqueueDownload
    <2>2. CASE \/ ListenDownload \/ ListenUntar \/ ListenDone \/ Committer \/ Signal \/ CloseReader
               \/ CloseHydrator \/ CloseDownloader \/ SecondSignal \/ Producer \/ NewGeneration
               \/ Exit \/ Crash
      BY <2>2 DEF ListenDownload, ListenUntar, ListenDone, Committer, Signal, CloseReader,
                  CloseHydrator, CloseDownloader, SecondSignal, Producer, NewGeneration, Exit,
                  Crash, Restart
    <2>3. ASSUME NEW g \in Goroutines, Goroutine(g) \/ DownloadFails(g) \/ ExtractFails(g)
          PROVE  notifyEvent(g) \/ UNCHANGED destination
      BY <2>3 DEF Goroutine, CreateFile, CopyBody, SendFilename, ExtractEvents, AckArchive,
                  DownloadFails, ExtractFails
    <2>4. CASE UNCHANGED vars
      BY <2>4 DEF vars
    <2> QED
      BY <2>1, <2>2, <2>3, <2>4 DEF Next
  <1> QED
    BY <1>1, <1>2, <1>3

(* The states of an archive are in the destination topic before its events *)
(* are, for every archive, however many goroutines write at the same time  *)
(* and wherever a crash interrupts them - as long as no shutdown removes   *)
(* the files while they are unpacked, and each location is announced once. *)
THEOREM StatesComeFirst ==
    ASSUME OrderedFaults, DistinctFileNames
    PROVE  Spec /\ []AnnouncedOnce => []StatesBeforeEvents
  <1> DEFINE Inv == /\ HeldInv /\ ShutInv /\ reader = "running" /\ FilesInv /\ OrderInv
                    /\ StatesBeforeEvents
  <1>1. Init => Inv
    <2> SUFFICES ASSUME Init PROVE Inv
      OBVIOUS
    <2>1. HeldInv
      BY DEF Init, ReaderInit, NoJobs, Idle, Job, HeldInv, HeldAt
    <2>2. ShutInv /\ reader = "running" /\ StatesBeforeEvents
      BY DEF Init, ReaderInit, DownloaderInit, ShutInv, StatesBeforeEvents
    <2>3. untarChannel = <<>> /\ \A g \in Goroutines : jobs[g].pc = "idle"
      BY DEF Init, NoJobs, Idle, Job
    <2>4. FilesInv /\ OrderInv
      BY <2>3 DEF FilesInv, OrderInv
    <2> QED
      BY <2>1, <2>2, <2>4
  <1>2. TypeOK /\ AnnouncedOnce /\ Inv /\ [Next]_vars => Inv'
    <2>1. "rebalance" \notin Faults /\ CleanFaults
      BY DEF OrderedFaults, CleanFaults
    <2> QED
      BY <2>1, HeldNext, ShutNext, ReaderRuns, FilesNext, OrderNext, StatesFirstNext
  <1> QED
    BY <1>1, <1>2, HydratorTypes, PTL DEF Spec
=============================================================================
