--------------------- MODULE OnPremEventsHydrator_proofs ---------------------
(***************************************************************************)
(* Proofs about the on-prem process, for every set of archives, every      *)
(* topic, number of goroutines and capacity of the channels.               *)
(***************************************************************************)
EXTENDS OnPremEventsHydrator, EventExtractor_proofs

USE DEF Offsets, Goroutines

(* The parts of TypeOK. *)
Archives == {o \in Offsets : IsArchive(o)}

ConsumerTypeOK ==
    /\ pc \in {"select", "fetch", "process", "exit"}
    /\ cur \in 0 .. Len(topic)
    /\ pc = "process" <=> cur # 0

ChannelTypeOK ==
    /\ downloadChannel \in Seq(Archives)
    /\ Len(downloadChannel) <= DownloadChannelBufferSize
    /\ untarChannel \in Seq(Archives)
    /\ Len(untarChannel) <= UntarChannelBufferSize
    /\ listener \in {"listening", "done", "stopped"}

JobOK(j) ==
    /\ j \in JobState
    /\ j.pc = "idle" => j = Idle
    /\ j.pc # "idle" => j.offset # 0 /\ IsArchive(j.offset)
    /\ Len(j.events) <= EventChannelBufferSize

JobTypeOK == jobs \in [Goroutines -> {j \in JobState : JobOK(j)}]

OutputTypeOK == destination \subseteq Envelopes /\ logged \subseteq Offsets

LEMMA TypeParts ==
    TypeOK <=> /\ ReaderTypeOK /\ DownloaderTypeOK /\ ConsumerTypeOK /\ ChannelTypeOK
               /\ JobTypeOK /\ OutputTypeOK
  <1>1. jobs \in [Goroutines -> JobState] =>
           (JobTypeOK <=> \A g \in Goroutines :
              /\ jobs[g].pc = "idle" => jobs[g] = Idle
              /\ jobs[g].pc # "idle" => jobs[g].offset # 0 /\ IsArchive(jobs[g].offset)
              /\ Len(jobs[g].events) <= EventChannelBufferSize)
    BY DEF JobTypeOK, JobOK
  <1>2. JobTypeOK => jobs \in [Goroutines -> JobState]
    BY DEF JobTypeOK
  <1> QED
    BY <1>1, <1>2 DEF TypeOK, ConsumerTypeOK, ChannelTypeOK, OutputTypeOK, Archives

LEMMA TypePartsNext ==
    ASSUME ReaderTypeOK', DownloaderTypeOK', ConsumerTypeOK', ChannelTypeOK', JobTypeOK',
           OutputTypeOK'
    PROVE  TypeOK'
  BY TypeParts, PTL

-----------------------------------------------------------------------------
LEMMA IdleOK == ASSUME ReaderTypeOK PROVE JobOK(Idle)
  BY HydratorAssumption DEF JobOK, Idle, Job, JobState, ReaderTypeOK

LEMMA NewJobOK ==
    ASSUME ReaderTypeOK, NEW o \in Archives,
           NEW at \in {"get", "copy", "enqueue", "extract", "notify", "blocked"}
    PROVE  /\ JobOK(Job(at, o))
           /\ Job(at, o) = [pc |-> at, offset |-> o, raced |-> FALSE, events |-> <<>>]
  <1> DEFINE j == [pc |-> at, offset |-> o, raced |-> FALSE, events |-> <<>>]
  <1>1. Job(at, o) = j
    BY DEF Job
  <1>2. o \in 0 .. Len(topic) /\ o # 0 /\ IsArchive(o)
    BY DEF Archives, ReaderTypeOK
  <1>3. j \in JobState
    BY <1>2 DEF JobState
  <1>4. j.pc = at /\ j.offset = o /\ Len(j.events) = 0
    OBVIOUS
  <1>5. JobOK(j)
    BY <1>2, <1>3, <1>4, HydratorAssumption DEF JobOK
  <1> QED
    BY <1>1, <1>5

(* A job is idle or works on an archive. *)
LEMMA JobArchive ==
    ASSUME TypeOK, NEW g \in Goroutines, jobs[g].pc # "idle"
    PROVE  /\ jobs[g] \in JobState /\ JobOK(jobs[g]) /\ jobs[g].offset \in Archives
           /\ URL(jobs[g].offset) \in URLs
  <1>1. jobs[g] \in JobState /\ JobOK(jobs[g])
    BY TypeParts DEF JobTypeOK
  <1>2. jobs[g].offset \in Archives
    BY <1>1 DEF JobOK, JobState, Archives, TypeOK, ReaderTypeOK
  <1>3. topic[jobs[g].offset] \in HydratorMessage
    BY <1>2, HydratorAssumption DEF Archives, TypeOK, ReaderTypeOK
  <1> QED
    BY <1>1, <1>2, <1>3 DEF Archives, IsArchive, URL, HydratorMessage

LEMMA ReaderStep ==
    ASSUME ReaderTypeOK,
           \/ FetchMessage \/ ListenForCommit \/ CommitTick \/ Rebalance \/ CloseQuitChannel
           \/ CloseKafkaReader \/ ReaderRestart
    PROVE  ReaderTypeOK' /\ UNCHANGED topic
  <1> USE DEF ReaderTypeOK
  <1>1. CASE FetchMessage
    BY <1>1 DEF FetchMessage
  <1>2. CASE ListenForCommit
    <2>1. Head(ackChannel) \in Offsets /\ Tail(ackChannel) \in Seq(Offsets)
      BY <1>2 DEF ListenForCommit
    <2> QED
      BY <1>2, <2>1 DEF ListenForCommit, Merge
  <1>3. CASE CommitTick
    BY <1>3 DEF CommitTick
  <1>4. CASE CloseQuitChannel
    BY <1>4 DEF CloseQuitChannel
  <1>5. CASE ReaderRestart
    BY <1>5 DEF ReaderRestart
  <1>6. CASE Rebalance
    BY <1>6 DEF Rebalance, FinalCommit
  <1>7. CASE CloseKafkaReader
    BY <1>7 DEF CloseKafkaReader, FinalCommit
  <1> QED
    BY <1>1, <1>2, <1>3, <1>4, <1>5, <1>6, <1>7

LEMMA AckStep ==
    ASSUME ReaderTypeOK, NEW o \in Offsets, Ack(o),
           UNCHANGED <<topic, committed, position, stash, reader>>
    PROVE  ReaderTypeOK'
  BY DEF ReaderTypeOK, Ack

(* What depends on the topic alone. *)
LEMMA TopicFrame ==
    ASSUME UNCHANGED topic
    PROVE  /\ Archives' = Archives /\ JobState' = JobState
           /\ \A j : JobOK(j)' <=> JobOK(j)
           /\ \A o : (IsArchive(o)' <=> IsArchive(o)) /\ URL(o)' = URL(o) /\ File(o)' = File(o)
  <1>1. \A o : (IsArchive(o)' <=> IsArchive(o)) /\ URL(o)' = URL(o) /\ File(o)' = File(o)
    BY DEF IsArchive, URL, File
  <1>2. JobState' = JobState
    BY DEF JobState
  <1> QED
    BY <1>1, <1>2 DEF Archives, JobOK

LEMMA Frames ==
    ASSUME UNCHANGED topic
    PROVE  /\ ReaderTypeOK /\ UNCHANGED readerVars => ReaderTypeOK'
           /\ DownloaderTypeOK /\ UNCHANGED downloaderVars => DownloaderTypeOK'
           /\ ConsumerTypeOK /\ UNCHANGED consumerVars => ConsumerTypeOK'
           /\ ChannelTypeOK /\ UNCHANGED channelVars => ChannelTypeOK'
           /\ JobTypeOK /\ UNCHANGED jobs => JobTypeOK'
           /\ OutputTypeOK /\ UNCHANGED outputVars => OutputTypeOK'
  <1>1. ReaderTypeOK /\ UNCHANGED readerVars => ReaderTypeOK'
    BY DEF ReaderTypeOK, readerVars
  <1>2. DownloaderTypeOK /\ UNCHANGED downloaderVars => DownloaderTypeOK'
    BY DEF DownloaderTypeOK, downloaderVars
  <1>3. ConsumerTypeOK /\ UNCHANGED consumerVars => ConsumerTypeOK'
    BY DEF ConsumerTypeOK, consumerVars
  <1>4. ChannelTypeOK /\ UNCHANGED channelVars => ChannelTypeOK'
    BY TopicFrame DEF ChannelTypeOK, channelVars
  <1>5. JobTypeOK /\ UNCHANGED jobs => JobTypeOK'
    BY TopicFrame DEF JobTypeOK
  <1>6. OutputTypeOK /\ UNCHANGED outputVars => OutputTypeOK'
    BY DEF OutputTypeOK, outputVars
  <1> QED
    BY <1>1, <1>2, <1>3, <1>4, <1>5, <1>6

LEMMA InitTypeOK == Init => TypeOK
  <1> SUFFICES ASSUME Init PROVE TypeOK
    OBVIOUS
  <1>1. ReaderTypeOK
    BY ReaderAssumption DEF Init, ReaderInit, ReaderTypeOK
  <1>2. DownloaderTypeOK
    BY DEF Init, DownloaderInit, DownloaderTypeOK, EmptyDirectory
  <1>3. JobTypeOK
    BY <1>1, IdleOK DEF Init, NoJobs, JobTypeOK, JobOK
  <1> QED
    BY <1>1, <1>2, <1>3, TypeParts, HydratorAssumption
    DEF Init, ConsumerTypeOK, ChannelTypeOK, OutputTypeOK, ReaderTypeOK

-----------------------------------------------------------------------------
LEMMA ConsumerStepType ==
    ASSUME TypeOK, Consumer
    PROVE  TypeOK'
  <1> USE DEF Return, readerVars
  <1>0. /\ ReaderTypeOK /\ DownloaderTypeOK /\ ConsumerTypeOK /\ ChannelTypeOK /\ JobTypeOK
        /\ OutputTypeOK /\ Len(topic) \in Nat
    BY TypeParts DEF ReaderTypeOK
  <1>1. CASE StopConsuming \/ NotQuit \/ FetchEOF
    <2>1. /\ UNCHANGED <<topic, readerVars, downloaderVars, channelVars, jobs, outputVars>>
          /\ pc' \in {"fetch", "exit"} /\ cur' = 0
      BY <1>1 DEF StopConsuming, NotQuit, FetchEOF
    <2>2. ConsumerTypeOK'
      BY <1>0, <2>1 DEF ConsumerTypeOK
    <2> QED
      BY <1>0, <2>1, <2>2, Frames, TypePartsNext
  <1>2. CASE Fetch
    <2>1. /\ UNCHANGED <<downloaderVars, channelVars, jobs, outputVars>> /\ FetchMessage
          /\ pc' = "process" /\ cur' = position'
      BY <1>2 DEF Fetch
    <2>2. ReaderTypeOK' /\ UNCHANGED topic
      BY <1>0, <2>1, ReaderStep
    <2>3. ConsumerTypeOK'
      BY <1>0, <2>1, <2>2 DEF ConsumerTypeOK, ReaderTypeOK, FetchMessage
    <2> QED
      BY <1>0, <2>1, <2>2, <2>3, Frames, TypePartsNext
  <1>3. CASE AckOther
    <2>1. /\ UNCHANGED <<topic, committed, position, stash, reader, downloaderVars, channelVars, jobs,
                         outputVars>>
          /\ pc = "process" /\ Ack(cur) /\ pc' = "select" /\ cur' = 0
      BY <1>3 DEF AckOther
    <2>2. cur \in Offsets
      BY <1>0, <2>1 DEF ConsumerTypeOK
    <2>3. ReaderTypeOK'
      BY <1>0, <2>1, <2>2, AckStep
    <2>4. ConsumerTypeOK'
      BY <1>0, <2>1 DEF ConsumerTypeOK
    <2> QED
      BY <1>0, <2>1, <2>3, <2>4, Frames, TypePartsNext
  <1>4. CASE DropUndecodable
    <2>1. /\ UNCHANGED <<topic, readerVars, downloaderVars, channelVars, jobs, destination>>
          /\ pc = "process" /\ logged' = logged \cup {cur} /\ pc' = "select" /\ cur' = 0
      BY <1>4 DEF DropUndecodable, Log
    <2>2. ConsumerTypeOK' /\ OutputTypeOK'
      BY <1>0, <2>1 DEF ConsumerTypeOK, OutputTypeOK
    <2> QED
      BY <1>0, <2>1, <2>2, Frames, TypePartsNext
  <1>5. CASE enqueueDownload
    <2>1. /\ UNCHANGED <<topic, readerVars, downloaderVars, untarChannel, listener, jobs, outputVars>>
          /\ pc = "process" /\ pc' = "select" /\ cur' = 0 /\ IsArchive(cur)
          /\ Len(downloadChannel) < DownloadChannelBufferSize
          /\ downloadChannel' = Append(downloadChannel, cur)
      BY <1>5 DEF enqueueDownload
    <2>2. cur \in Archives
      BY <1>0, <2>1 DEF ConsumerTypeOK, Archives
    <2>3. downloadChannel' \in Seq(Archives) /\ Len(downloadChannel') <= DownloadChannelBufferSize
      BY <1>0, <2>1, <2>2, HydratorAssumption DEF ChannelTypeOK
    <2>4. ConsumerTypeOK' /\ ChannelTypeOK'
      BY <1>0, <2>1, <2>3, TopicFrame DEF ConsumerTypeOK, ChannelTypeOK
    <2> QED
      BY <1>0, <2>1, <2>4, Frames, TypePartsNext
  <1> QED
    BY <1>1, <1>2, <1>3, <1>4, <1>5 DEF Consumer

LEMMA ListenStepType ==
    ASSUME TypeOK, ListenDownload \/ ListenUntar \/ ListenDone
    PROVE  TypeOK'
  <1> USE DEF readerVars
  <1>0. /\ ReaderTypeOK /\ DownloaderTypeOK /\ ConsumerTypeOK /\ ChannelTypeOK /\ JobTypeOK
        /\ OutputTypeOK
    BY TypeParts
  <1>1. ASSUME NEW at \in {"get", "extract"}, NEW o \in Archives, Spawn(at, o), UNCHANGED topic
        PROVE  JobTypeOK'
    <2>1. PICK g \in Goroutines : jobs' = [jobs EXCEPT ![g] = Job(at, o)]
      BY <1>1 DEF Spawn
    <2>2. JobOK(Job(at, o)) /\ Job(at, o) \in JobState
      BY <1>0, <1>1, NewJobOK DEF JobOK
    <2> QED
      BY <1>0, <1>1, <2>1, <2>2, TopicFrame DEF JobTypeOK
  <1>2. CASE ListenDownload
    <2>1. /\ UNCHANGED <<topic, readerVars, downloaderVars, consumerVars, untarChannel, listener,
                         outputVars>>
          /\ downloadChannel # <<>> /\ downloadChannel' = Tail(downloadChannel)
          /\ Spawn("get", Head(downloadChannel))
      BY <1>2 DEF ListenDownload
    <2>2. /\ Head(downloadChannel) \in Archives /\ downloadChannel' \in Seq(Archives)
          /\ Len(downloadChannel') <= DownloadChannelBufferSize
      BY <1>0, <2>1, HydratorAssumption DEF ChannelTypeOK
    <2>3. JobTypeOK'
      BY <1>1, <2>1, <2>2
    <2>4. ChannelTypeOK'
      BY <1>0, <2>1, <2>2, TopicFrame DEF ChannelTypeOK
    <2> QED
      BY <1>0, <2>1, <2>3, <2>4, Frames, TypePartsNext
  <1>3. CASE ListenUntar
    <2>1. /\ UNCHANGED <<topic, readerVars, downloaderVars, consumerVars, downloadChannel, listener,
                         outputVars>>
          /\ untarChannel # <<>> /\ untarChannel' = Tail(untarChannel)
          /\ Spawn("extract", Head(untarChannel))
      BY <1>3 DEF ListenUntar
    <2>2. /\ Head(untarChannel) \in Archives /\ untarChannel' \in Seq(Archives)
          /\ Len(untarChannel') <= UntarChannelBufferSize
      BY <1>0, <2>1, HydratorAssumption DEF ChannelTypeOK
    <2>3. JobTypeOK'
      BY <1>1, <2>1, <2>2
    <2>4. ChannelTypeOK'
      BY <1>0, <2>1, <2>2, TopicFrame DEF ChannelTypeOK
    <2> QED
      BY <1>0, <2>1, <2>3, <2>4, Frames, TypePartsNext
  <1>4. CASE ListenDone
    <2>1. /\ UNCHANGED <<topic, readerVars, downloaderVars, consumerVars, downloadChannel,
                         untarChannel, jobs, outputVars>>
          /\ listener' = "stopped"
      BY <1>4 DEF ListenDone
    <2>2. ChannelTypeOK'
      BY <1>0, <2>1, TopicFrame DEF ChannelTypeOK
    <2> QED
      BY <1>0, <2>1, <2>2, Frames, TypePartsNext
  <1> QED
    BY <1>2, <1>3, <1>4

-----------------------------------------------------------------------------
(* What the extraction of a file yields. *)
LEMMA UntarredType ==
    ASSUME TypeOK, NEW o \in Archives, NEW dir \in Untarred(o)
    PROVE  dir.url \in URLs
  BY DEF Untarred

LEMMA EnvelopeType ==
    ASSUME NEW u \in URLs, NEW files
    PROVE  LET s == extractEvents(Archive[u], files)
               events == Envelope(u, s)
           IN  /\ s \in Seq(DOMAIN Archive[u])
               /\ events \in Seq(Envelopes)
               /\ Len(events) = Len(s)
               /\ \A n \in 1 .. Len(s) : events[n] = <<u, s[n]>>
  <1> DEFINE s == extractEvents(Archive[u], files)
             events == Envelope(u, s)
  <1>1. Archive[u] \in Seq(Resource)
    BY HydratorAssumption
  <1>2. s \in Seq(Kept(Archive[u], files))
    BY <1>1, EventsExtracted
  <1>3. Kept(Archive[u], files) \subseteq DOMAIN Archive[u]
    BY DEF Kept
  <1>4. s \in Seq(DOMAIN Archive[u])
    <2>1. Len(s) \in Nat /\ s \in [1 .. Len(s) -> Kept(Archive[u], files)]
      BY <1>2
    <2>2. s \in [1 .. Len(s) -> DOMAIN Archive[u]]
      BY <1>3, <2>1
    <2> HIDE DEF s
    <2> QED
      BY <2>1, <2>2
  <1> HIDE DEF s
  <1>5. /\ Len(s) \in Nat /\ DOMAIN s = 1 .. Len(s)
        /\ \A n \in 1 .. Len(s) : s[n] \in DOMAIN Archive[u]
    BY <1>4
  <1>6. \A n \in 1 .. Len(s) : <<u, s[n]>> \in Envelopes
    BY <1>5 DEF Envelopes
  <1>7. events = [n \in 1 .. Len(s) |-> <<u, s[n]>>]
    BY <1>5 DEF Envelope
  <1> HIDE DEF events
  <1>8. events \in Seq(Envelopes) /\ Len(events) = Len(s)
    BY <1>5, <1>6, <1>7
  <1> QED
    BY <1>4, <1>7, <1>8 DEF s, events

LEMMA DownloadStepType ==
    ASSUME TypeOK, NEW g \in Goroutines,
           CreateFile(g) \/ CopyBody(g) \/ SendFilename(g) \/ DownloadFails(g) \/ ExtractFails(g)
    PROVE  TypeOK'
  <1> USE DEF readerVars
  <1>0. /\ ReaderTypeOK /\ DownloaderTypeOK /\ ConsumerTypeOK /\ ChannelTypeOK /\ JobTypeOK
        /\ OutputTypeOK /\ Len(topic) \in Nat
    BY TypeParts DEF ReaderTypeOK
  <1>1. jobs[g].pc # "idle"
    BY DEF CreateFile, CopyBody, SendFilename, DownloadFails, ExtractFails
  <1>2. /\ jobs[g] \in JobState /\ JobOK(jobs[g]) /\ jobs[g].offset \in Archives
        /\ URL(jobs[g].offset) \in URLs
    BY <1>1, JobArchive
  <1>3. jobs[g].offset \in Offsets
    BY <1>2 DEF Archives
  <1>4. FileName[URL(jobs[g].offset)] \in FileNames
    BY <1>2, DownloaderAssumption
  <1>5. CASE CreateFile(g)
    <2>1. /\ UNCHANGED <<topic, readerVars, consumerVars, channelVars, outputVars>>
          /\ Create(URL(jobs[g].offset)) /\ jobs[g].pc = "get"
      BY <1>5 DEF CreateFile
    <2>2. DownloaderTypeOK'
      BY <1>0, <1>4, <2>1 DEF Create, DownloaderTypeOK
    <2>3. \A r \in BOOLEAN : JobOK([jobs[g] EXCEPT !.pc = "copy", !.raced = r])
      <3> SUFFICES ASSUME NEW r \in BOOLEAN
                   PROVE  JobOK([jobs[g] EXCEPT !.pc = "copy", !.raced = r])
        OBVIOUS
      <3> DEFINE j == [jobs[g] EXCEPT !.pc = "copy", !.raced = r]
      <3>1. j \in JobState /\ j.pc = "copy" /\ j.offset = jobs[g].offset /\ j.events = jobs[g].events
        BY <1>2 DEF JobState
      <3> HIDE DEF j
      <3>2. JobOK(j)
        BY <1>2, <2>1, <3>1 DEF JobOK
      <3> QED
        BY <3>2 DEF j
    <2>4. ASSUME NEW h \in Goroutines PROVE jobs'[h] \in JobState /\ JobOK(jobs'[h])
      <3>0. jobs[h] \in JobState /\ JobOK(jobs[h])
        BY <1>0 DEF JobTypeOK
      <3>1. CASE h = g
        <4>1. PICK r \in BOOLEAN : jobs'[h] = [jobs[g] EXCEPT !.pc = "copy", !.raced = r]
          <5>1. (\E k \in Goroutines : SameFile(g, k)) \in BOOLEAN
            OBVIOUS
          <5> QED
            BY <1>5, <3>1, <5>1 DEF CreateFile
        <4> QED
          BY <2>3, <4>1 DEF JobOK
      <3>2. CASE h # g /\ SameFile(g, h)
        <4>1. jobs'[h] = [jobs[h] EXCEPT !.raced = TRUE] /\ jobs[h].pc = "copy"
          BY <1>5, <3>2 DEF CreateFile, SameFile
        <4>2. /\ jobs'[h] \in JobState /\ jobs'[h].pc = "copy"
              /\ jobs'[h].offset = jobs[h].offset /\ jobs'[h].events = jobs[h].events
          BY <3>0, <4>1 DEF JobState
        <4> QED
          BY <3>0, <4>1, <4>2 DEF JobOK
      <3>3. CASE h # g /\ ~SameFile(g, h)
        <4>1. jobs'[h] = jobs[h]
          BY <1>5, <3>3 DEF CreateFile
        <4> QED
          BY <3>0, <4>1
      <3> QED
        BY <3>1, <3>2, <3>3
    <2>5. jobs' = [h \in Goroutines |-> jobs'[h]]
      BY <1>5 DEF CreateFile
    <2>6. JobTypeOK'
      <3>1. jobs' \in [Goroutines -> {j \in JobState : JobOK(j)}]
        BY <2>4, <2>5
      <3> QED
        BY <2>1, <3>1, TopicFrame DEF JobTypeOK
    <2> QED
      BY <1>0, <2>1, <2>2, <2>6, Frames, TypePartsNext
  <1>6. ASSUME NEW j, jobs' = [jobs EXCEPT ![g] = j], JobOK(j), UNCHANGED topic
        PROVE  JobTypeOK'
    BY <1>0, <1>6, TopicFrame DEF JobTypeOK, JobOK
  <1>7. CASE CopyBody(g)
    <2>1. /\ UNCHANGED <<topic, readerVars, consumerVars, channelVars, outputVars>>
          /\ \E intact : Copy(URL(jobs[g].offset), intact)
          /\ jobs' = [jobs EXCEPT ![g] = Job("enqueue", jobs[g].offset)]
      BY <1>7 DEF CopyBody
    <2>2. DownloaderTypeOK'
      BY <1>0, <1>2, <1>4, <2>1 DEF Copy, DownloaderTypeOK
    <2>3. JobTypeOK'
      BY <1>0, <1>2, <1>6, <2>1, NewJobOK
    <2> QED
      BY <1>0, <2>1, <2>2, <2>3, Frames, TypePartsNext
  <1>8. CASE SendFilename(g)
    <2>1. /\ UNCHANGED <<topic, readerVars, downloaderVars, consumerVars, downloadChannel, listener,
                         outputVars>>
          /\ Len(untarChannel) < UntarChannelBufferSize
          /\ untarChannel' = Append(untarChannel, jobs[g].offset)
          /\ jobs' = [jobs EXCEPT ![g] = Idle]
      BY <1>8 DEF SendFilename
    <2>2. untarChannel' \in Seq(Archives) /\ Len(untarChannel') <= UntarChannelBufferSize
      BY <1>0, <1>2, <2>1, HydratorAssumption DEF ChannelTypeOK
    <2>3. ChannelTypeOK'
      BY <1>0, <2>1, <2>2, TopicFrame DEF ChannelTypeOK
    <2>4. JobTypeOK'
      BY <1>0, <1>6, <2>1, IdleOK
    <2> QED
      BY <1>0, <2>1, <2>3, <2>4, Frames, TypePartsNext
  <1>9. CASE DownloadFails(g) \/ ExtractFails(g)
    <2>1. /\ UNCHANGED <<topic, readerVars, downloaderVars, consumerVars, channelVars, destination>>
          /\ logged' = logged \cup {jobs[g].offset}
          /\ jobs' = [jobs EXCEPT ![g] = Idle]
      BY <1>9 DEF DownloadFails, ExtractFails, Log
    <2>2. JobTypeOK' /\ OutputTypeOK'
      BY <1>0, <1>3, <1>6, <2>1, IdleOK DEF OutputTypeOK
    <2> QED
      BY <1>0, <2>1, <2>2, Frames, TypePartsNext
  <1> QED
    BY <1>5, <1>7, <1>8, <1>9

LEMMA ExtractStepType ==
    ASSUME TypeOK, NEW g \in Goroutines, ExtractEvents(g) \/ notifyEvent(g) \/ AckArchive(g)
    PROVE  TypeOK'
  <1> USE DEF readerVars
  <1>0. /\ ReaderTypeOK /\ DownloaderTypeOK /\ ConsumerTypeOK /\ ChannelTypeOK /\ JobTypeOK
        /\ OutputTypeOK /\ Len(topic) \in Nat
    BY TypeParts DEF ReaderTypeOK
  <1>1. jobs[g].pc # "idle"
    BY DEF ExtractEvents, notifyEvent, AckArchive
  <1>2. /\ jobs[g] \in JobState /\ JobOK(jobs[g]) /\ jobs[g].offset \in Archives
        /\ jobs[g].offset \in Offsets
    BY <1>1, JobArchive DEF Archives
  <1>3. ASSUME NEW j, jobs' = [jobs EXCEPT ![g] = j], JobOK(j), UNCHANGED topic
        PROVE  JobTypeOK'
    BY <1>0, <1>3, TopicFrame DEF JobTypeOK, JobOK
  <1>4. CASE ExtractEvents(g)
    <2> DEFINE Events(dir) == Envelope(dir.url, extractEvents(Archive[dir.url], dir.files))
    <2>1. PICK dir \in Untarred(jobs[g].offset) :
             jobs' = [jobs EXCEPT ![g] = IF Len(Events(dir)) <= EventChannelBufferSize
                                         THEN [Job("notify", jobs[g].offset) EXCEPT !.events = Events(dir)]
                                         ELSE Job("blocked", jobs[g].offset)]
      BY <1>4 DEF ExtractEvents
    <2>2. PICK s : s = Events(dir)
      OBVIOUS
    <2>3. s \in Seq(Envelopes)
      BY <1>2, <2>2, UntarredType, EnvelopeType
    <2>4. /\ UNCHANGED <<topic, readerVars, downloaderVars, consumerVars, channelVars, destination>>
          /\ logged' \subseteq logged \cup {jobs[g].offset}
      BY <1>4 DEF ExtractEvents, Log
    <2>5. CASE Len(s) <= EventChannelBufferSize
      <3> DEFINE j == [Job("notify", jobs[g].offset) EXCEPT !.events = s]
      <3>a. PICK r : r = Job("notify", jobs[g].offset)
        OBVIOUS
      <3>b. JobOK(r) /\ r = [pc |-> "notify", offset |-> jobs[g].offset, raced |-> FALSE, events |-> <<>>]
        BY <1>0, <1>2, <3>a, NewJobOK
      <3>c. r \in JobState /\ r.pc = "notify" /\ r.offset = jobs[g].offset
        BY <3>b DEF JobOK
      <3>d. j = [r EXCEPT !.events = s]
        BY <3>a
      <3>1. /\ j \in JobState /\ j.pc = "notify" /\ j.offset = jobs[g].offset /\ j.events = s
        BY <2>3, <3>c, <3>d DEF JobState
      <3>2. jobs' = [jobs EXCEPT ![g] = j]
        BY <2>1, <2>2, <2>5
      <3> HIDE DEF j
      <3>3. JobOK(j)
        BY <1>2, <2>5, <3>1 DEF JobOK, Archives
      <3>4. JobTypeOK'
        BY <1>3, <2>4, <3>2, <3>3
      <3> QED
        BY <1>0, <1>2, <2>4, <3>4, Frames, TypePartsNext DEF OutputTypeOK
    <2>6. CASE ~(Len(s) <= EventChannelBufferSize)
      <3>1. JobTypeOK'
        BY <1>0, <1>2, <1>3, <2>1, <2>2, <2>4, <2>6, NewJobOK
      <3> QED
        BY <1>0, <1>2, <2>4, <3>1, Frames, TypePartsNext DEF OutputTypeOK
    <2> QED
      BY <2>5, <2>6
  <1>5. CASE notifyEvent(g)
    <2>1. /\ UNCHANGED <<topic, readerVars, downloaderVars, consumerVars, channelVars>>
          /\ jobs[g].pc = "notify" /\ jobs[g].events # <<>>
          /\ Write(Head(jobs[g].events), jobs[g].offset)
          /\ jobs' = [jobs EXCEPT ![g].events = Tail(@)]
      BY <1>5 DEF notifyEvent
    <2>2. jobs[g].events \in Seq(Envelopes)
      BY <1>2 DEF JobState
    <2>3. /\ Head(jobs[g].events) \in Envelopes /\ Tail(jobs[g].events) \in Seq(Envelopes)
          /\ Len(Tail(jobs[g].events)) <= Len(jobs[g].events)
          /\ Len(Tail(jobs[g].events)) \in Nat /\ Len(jobs[g].events) \in Nat
      BY <2>1, <2>2
    <2>4. OutputTypeOK'
      BY <1>0, <1>2, <2>1, <2>3 DEF Write, Log, OutputTypeOK
    <2> DEFINE j == [jobs[g] EXCEPT !.events = Tail(jobs[g].events)]
    <2>5. j \in JobState /\ j.pc = "notify" /\ j.offset = jobs[g].offset /\ j.events = Tail(jobs[g].events)
      BY <1>2, <2>1, <2>3 DEF JobState
    <2>6. jobs' = [jobs EXCEPT ![g] = j]
      BY <2>1
    <2> HIDE DEF j
    <2>7. JobOK(j)
      BY <1>2, <2>1, <2>3, <2>5, HydratorAssumption DEF JobOK
    <2>8. JobTypeOK'
      BY <1>3, <2>1, <2>6, <2>7
    <2> QED
      BY <1>0, <2>1, <2>4, <2>8, Frames, TypePartsNext
  <1>6. CASE AckArchive(g)
    <2>1. /\ UNCHANGED <<topic, committed, position, stash, reader, downloaderVars, consumerVars,
                         channelVars, outputVars>>
          /\ Ack(jobs[g].offset) /\ jobs' = [jobs EXCEPT ![g] = Idle]
      BY <1>6 DEF AckArchive
    <2>2. ReaderTypeOK'
      BY <1>0, <1>2, <2>1, AckStep
    <2>3. JobTypeOK'
      BY <1>0, <1>3, <2>1, IdleOK
    <2> QED
      BY <1>0, <2>1, <2>2, <2>3, Frames, TypePartsNext
  <1> QED
    BY <1>4, <1>5, <1>6

-----------------------------------------------------------------------------
LEMMA SeqMonotone ==
    ASSUME NEW S, NEW T, S \subseteq T, NEW q \in Seq(S)
    PROVE  q \in Seq(T)
  <1>1. Len(q) \in Nat /\ q \in [1 .. Len(q) -> S]
    OBVIOUS
  <1>2. q \in [1 .. Len(q) -> T]
    BY <1>1
  <1> QED
    BY <1>1, <1>2

(* A longer topic keeps what was an archive an archive. *)
LEMMA TopicGrows ==
    ASSUME ReaderTypeOK, Produce
    PROVE  /\ Len(topic') = Len(topic) + 1 /\ Len(topic) \in Nat
           /\ \A o \in Offsets : /\ o \in Offsets' /\ topic'[o] = topic[o]
                                 /\ IsArchive(o)' <=> IsArchive(o)
                                 /\ URL(o)' = URL(o)
           /\ ReaderTypeOK'
           /\ Archives \subseteq Archives' /\ JobState \subseteq JobState'
  <1>1. PICK m \in Messages : topic' = Append(topic, m)
    BY DEF Produce
  <1>2. /\ Len(topic') = Len(topic) + 1 /\ Len(topic) \in Nat
        /\ \A o \in Offsets : o \in Offsets' /\ topic'[o] = topic[o]
        /\ topic' \in Seq(Messages)
    BY <1>1 DEF ReaderTypeOK
  <1>3. ReaderTypeOK'
    <2>1. ackChannel' \in Seq(Offsets')
      BY <1>2, SeqMonotone DEF ReaderTypeOK, Produce
    <2> QED
      BY <1>2, <2>1 DEF ReaderTypeOK, Produce
  <1>4. \A o \in Offsets : (IsArchive(o)' <=> IsArchive(o)) /\ URL(o)' = URL(o)
    BY <1>2 DEF IsArchive, URL
  <1>5. Archives \subseteq Archives'
    BY <1>2, <1>4 DEF Archives
  <1>6. JobState \subseteq JobState'
    <2>1. 0 .. Len(topic) \subseteq 0 .. Len(topic')
      BY <1>2
    <2> QED
      BY <2>1 DEF JobState
  <1> QED
    BY <1>2, <1>3, <1>4, <1>5, <1>6

LEMMA ProducerStepType ==
    ASSUME TypeOK, Producer
    PROVE  TypeOK'
  <1>0. /\ ReaderTypeOK /\ DownloaderTypeOK /\ ConsumerTypeOK /\ ChannelTypeOK /\ JobTypeOK
        /\ OutputTypeOK
    BY TypeParts
  <1>1. Produce /\ UNCHANGED <<downloaderVars, consumerVars, channelVars, jobs, outputVars>>
    BY DEF Producer
  <1>2. /\ Len(topic') = Len(topic) + 1 /\ Len(topic) \in Nat /\ ReaderTypeOK'
        /\ Archives \subseteq Archives' /\ JobState \subseteq JobState'
    BY <1>0, <1>1, TopicGrows
  <1>3. DownloaderTypeOK' /\ ConsumerTypeOK' /\ OutputTypeOK'
    BY <1>0, <1>1, <1>2
    DEF DownloaderTypeOK, ConsumerTypeOK, OutputTypeOK, downloaderVars, consumerVars, outputVars
  <1>4. ChannelTypeOK'
    <2>1. downloadChannel \in Seq(Archives') /\ untarChannel \in Seq(Archives')
      BY <1>0, <1>2, SeqMonotone DEF ChannelTypeOK
    <2> QED
      BY <1>0, <1>1, <2>1 DEF ChannelTypeOK, channelVars
  <1>5. JobTypeOK'
    <2>1. ASSUME NEW j \in JobState, JobOK(j) PROVE j \in JobState' /\ JobOK(j)'
      <3>1. j.pc # "idle" => j.offset \in Archives
        BY <1>2, <2>1 DEF JobOK, JobState, Archives
      <3>2. j.pc # "idle" => j.offset # 0 /\ IsArchive(j.offset)'
        BY <1>2, <2>1, <3>1 DEF JobOK, Archives
      <3> QED
        BY <1>2, <2>1, <3>2 DEF JobOK
    <2>2. {j \in JobState : JobOK(j)} \subseteq {j \in JobState' : JobOK(j)'}
      BY <2>1
    <2> QED
      BY <1>0, <1>1, <2>2 DEF JobTypeOK
  <1> QED
    BY <1>2, <1>3, <1>4, <1>5, TypePartsNext

(* The committer, the shutdown, a new process and a rebalance. *)
LEMMA ReaderStepType ==
    ASSUME TypeOK,
           \/ Committer \/ Signal \/ CloseReader \/ CloseHydrator \/ CloseDownloader
           \/ SecondSignal \/ Exit \/ Crash \/ NewGeneration \/ UNCHANGED vars
    PROVE  TypeOK'
  <1>0. /\ ReaderTypeOK /\ DownloaderTypeOK /\ ConsumerTypeOK /\ ChannelTypeOK /\ JobTypeOK
        /\ OutputTypeOK
    BY TypeParts
  <1>1. CASE Committer \/ Signal \/ CloseReader \/ NewGeneration
    <2>1. /\ ListenForCommit \/ CommitTick \/ CloseQuitChannel \/ CloseKafkaReader \/ Rebalance
          /\ UNCHANGED <<downloaderVars, consumerVars, channelVars, jobs, outputVars>>
      BY <1>1 DEF Committer, Signal, CloseReader, NewGeneration
    <2>2. ReaderTypeOK' /\ UNCHANGED topic
      BY <1>0, <2>1, ReaderStep
    <2> QED
      BY <1>0, <2>1, <2>2, Frames, TypePartsNext
  <1>2. CASE CloseHydrator
    <2>1. /\ UNCHANGED <<topic, readerVars, downloaderVars, consumerVars, downloadChannel,
                         untarChannel, jobs, outputVars>>
          /\ listener' = "done"
      BY <1>2 DEF CloseHydrator, readerVars
    <2>2. ChannelTypeOK'
      BY <1>0, <2>1, TopicFrame DEF ChannelTypeOK
    <2> QED
      BY <1>0, <2>1, <2>2, Frames, TypePartsNext
  <1>3. CASE CloseDownloader
    <2>1. RemoveAll /\ UNCHANGED <<topic, readerVars, consumerVars, channelVars, jobs, outputVars>>
      BY <1>3 DEF CloseDownloader, readerVars
    <2>2. DownloaderTypeOK'
      BY <2>1 DEF RemoveAll, DownloaderTypeOK, EmptyDirectory
    <2> QED
      BY <1>0, <2>1, <2>2, Frames, TypePartsNext
  <1>4. CASE SecondSignal
    <2>1. /\ pc' = "exit" /\ cur' = 0
          /\ UNCHANGED <<topic, readerVars, downloaderVars, channelVars, jobs, outputVars>>
      BY <1>4 DEF SecondSignal, Return, readerVars
    <2>2. ConsumerTypeOK'
      BY <1>0, <2>1 DEF ConsumerTypeOK, ReaderTypeOK
    <2> QED
      BY <1>0, <2>1, <2>2, Frames, TypePartsNext
  <1>5. CASE Exit \/ Crash
    <2>1. /\ ReaderRestart /\ DownloaderRestart /\ UNCHANGED outputVars
          /\ downloadChannel' = <<>> /\ untarChannel' = <<>> /\ listener' = "listening"
          /\ jobs' = NoJobs /\ pc' = "select" /\ cur' = 0
      BY <1>5 DEF Exit, Crash, Restart, Return
    <2>2. ReaderTypeOK' /\ UNCHANGED topic
      BY <1>0, <2>1, ReaderStep
    <2>3. DownloaderTypeOK'
      BY <1>0, <2>1 DEF DownloaderRestart, DownloaderTypeOK, EmptyDirectory
    <2>4. ConsumerTypeOK' /\ ChannelTypeOK'
      BY <2>1, <2>2, HydratorAssumption DEF ConsumerTypeOK, ChannelTypeOK, ReaderTypeOK
    <2>5. JobTypeOK'
      <3>1. jobs' \in [Goroutines -> {j \in JobState : JobOK(j)}]
        BY <1>0, <2>1, IdleOK DEF NoJobs, JobOK
      <3> QED
        BY <2>2, <3>1, TopicFrame DEF JobTypeOK
    <2> QED
      BY <1>0, <2>1, <2>2, <2>3, <2>4, <2>5, Frames, TypePartsNext
  <1>6. CASE UNCHANGED vars
    <2>1. UNCHANGED <<topic, readerVars, downloaderVars, consumerVars, channelVars, jobs, outputVars>>
      BY <1>6 DEF vars, readerVars
    <2> QED
      BY <1>0, <2>1, Frames, TypePartsNext
  <1> QED
    BY <1>1, <1>2, <1>3, <1>4, <1>5, <1>6

LEMMA NextTypeOK == TypeOK /\ [Next]_vars => TypeOK'
  BY ConsumerStepType, ListenStepType, DownloadStepType, ExtractStepType, ProducerStepType,
     ReaderStepType
  DEF Next, Goroutine

(* The state of the on-prem process has its type, whatever messages the    *)
(* topic holds and whatever faults occur: its channels and event channels  *)
(* never hold more than they have room for, a file name always belongs to  *)
(* a decodable archive message, and a goroutine that ended leaves nothing. *)
THEOREM HydratorTypes == Spec => []TypeOK
  <1>1. Init => TypeOK
    BY InitTypeOK
  <1>2. TypeOK /\ [Next]_vars => TypeOK'
    BY NextTypeOK
  <1> QED
    BY <1>1, <1>2, PTL DEF Spec
=============================================================================
