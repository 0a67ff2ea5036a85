------------------------ MODULE OnPremEventsHydrator ------------------------
(***************************************************************************)
(* The on-prem process (cmd/onprem/main.go): the Consume loop of           *)
(* pkg/stream/reader.go running OnPremEventsHydrator.ProcessMessage, the   *)
(* goroutine in Listen, one goroutine per download and one per extraction, *)
(* and gracefulShutdown.                                                   *)
(*                                                                         *)
(* DownloadUrlMessage and FilenameMessage are represented by the offset of *)
(* their message, which determines the URL and with it the file name.  An  *)
(* envelope <<url, i>> is the event made of resource i of url's archive.   *)
(***************************************************************************)
EXTENDS KafkaReader, EventExtractor, FileDownloader

CONSTANTS Archive,   \* URL -> the archive at that location
          NoURL,     \* "url" of a message that cannot be decoded
          DownloadChannelBufferSize, UntarChannelBufferSize, EventChannelBufferSize,
          MaxGoroutines   \* bound: goroutines downloading or extracting at a time

(* What Faults may contain: "crash" the process dies, "signal" SIGTERM,    *)
(* "rebalance" the consumer group rebalances, "download" a request or the  *)
(* transfer of its body fails, "badResponse" the server answers with an    *)
(* error page (the status is not looked at), "disk" a file or a directory  *)
(* cannot be written, "write" the destination topic refuses a message.     *)
HydratorFaults == {"crash", "signal", "rebalance", "download", "badResponse", "disk", "write"}

HydratorMessage == [service : {"assisted-installer", "other"}, url : URLs \cup {NoURL}]

ASSUME HydratorAssumption ==
    /\ Messages \subseteq HydratorMessage
    /\ Archive \in [URLs -> Seq(Resource)]
    /\ NoURL \notin URLs
    /\ DownloadChannelBufferSize \in Nat \ {0}
    /\ UntarChannelBufferSize \in Nat \ {0}
    /\ EventChannelBufferSize \in Nat
    /\ MaxGoroutines \in Nat \ {0}
    /\ Faults \subseteq HydratorFaults

VARIABLES
    pc,              \* where the consumer goroutine is
    cur,             \* offset of the message it is processing
    downloadChannel, \* offsets of archives to download
    untarChannel,    \* offsets of archives to extract
    listener,        \* Listen: "listening", "done" (h.done is filled), "stopped"
    jobs,            \* the goroutines of downloadURL and extractEvents
    destination,     \* the envelopes in the destination topic
    logged           \* offsets of the messages of which a loss was logged

consumerVars == <<pc, cur>>
channelVars == <<downloadChannel, untarChannel, listener>>
outputVars == <<destination, logged>>
vars == <<readerVars, downloaderVars, consumerVars, channelVars, jobs, outputVars>>

Goroutines == 1 .. MaxGoroutines

(* A goroutine works on the message at offset.  raced: another download    *)
(* used the same file at the same time.  events: what is left in the event *)
(* channel.                                                                *)
Job(at, o) == [pc |-> at, offset |-> o, raced |-> FALSE, events |-> <<>>]

Idle == Job("idle", 0)

URL(o) == topic[o].url
File(o) == FileName[URL(o)]

(* The error or warning that something of the message at offset o is lost. *)
(* What else the code logs is left out.                                    *)
Log(o) == logged' = logged \cup {o}

(* shouldProcess and json.Unmarshal. *)
IsArchive(o) == topic[o].service = "assisted-installer" /\ URL(o) # NoURL

Envelopes == {<<u, i>> : u \in URLs, i \in UNION {DOMAIN Archive[v] : v \in URLs}}

JobState ==
    [pc : {"idle", "get", "copy", "enqueue", "extract", "notify", "blocked"},
     offset : 0 .. Len(topic), raced : BOOLEAN, events : Seq(Envelopes)]

(* The state of the process, its directory and the topics has its type;    *)
(* whatever is queued or worked on is a message that names an archive.     *)
TypeOK ==
    /\ ReaderTypeOK
    /\ DownloaderTypeOK
    /\ pc \in {"select", "fetch", "process", "exit"}
    /\ cur \in 0 .. Len(topic)
    /\ pc = "process" <=> cur # 0
    /\ downloadChannel \in Seq({o \in Offsets : IsArchive(o)})
    /\ Len(downloadChannel) <= DownloadChannelBufferSize
    /\ untarChannel \in Seq({o \in Offsets : IsArchive(o)})
    /\ Len(untarChannel) <= UntarChannelBufferSize
    /\ listener \in {"listening", "done", "stopped"}
    /\ jobs \in [Goroutines -> JobState]
    /\ \A g \in Goroutines :
          /\ jobs[g].pc = "idle" => jobs[g] = Idle
          /\ jobs[g].pc # "idle" => jobs[g].offset # 0 /\ IsArchive(jobs[g].offset)
          /\ Len(jobs[g].events) <= EventChannelBufferSize
    /\ destination \subseteq Envelopes
    /\ logged \subseteq Offsets

NoJobs == [g \in Goroutines |-> Idle]

Init ==
    /\ ReaderInit
    /\ DownloaderInit
    /\ pc = "select"
    /\ cur = 0
    /\ downloadChannel = <<>>
    /\ untarChannel = <<>>
    /\ listener = "listening"
    /\ jobs = NoJobs
    /\ destination = {}
    /\ logged = {}

-----------------------------------------------------------------------------
(* Consume: select on the quit channel, then FetchMessage. *)
Return(next) == pc' = next /\ cur' = 0

StopConsuming ==
    /\ pc = "select"
    /\ reader # "running"
    /\ Return("exit")
    /\ UNCHANGED <<readerVars, downloaderVars, channelVars, jobs, outputVars>>

NotQuit ==
    /\ pc = "select"
    /\ reader = "running"
    /\ Return("fetch")
    /\ UNCHANGED <<readerVars, downloaderVars, channelVars, jobs, outputVars>>

Fetch ==
    /\ pc = "fetch"
    /\ FetchMessage
    /\ pc' = "process"
    /\ cur' = position'
    /\ UNCHANGED <<downloaderVars, channelVars, jobs, outputVars>>

FetchEOF ==
    /\ pc = "fetch"
    /\ reader = "closed"
    /\ Return("exit")
    /\ UNCHANGED <<readerVars, downloaderVars, channelVars, jobs, outputVars>>

(* ProcessMessage acknowledges the messages of other services ... *)
AckOther ==
    /\ pc = "process"
    /\ topic[cur].service = "other"
    /\ Ack(cur)
    /\ Return("select")
    /\ UNCHANGED <<topic, committed, position, stash, reader, downloaderVars, channelVars, jobs,
                   outputVars>>

(* ... drops what it cannot decode without an acknowledgement ... *)
DropUndecodable ==
    /\ pc = "process"
    /\ topic[cur].service = "assisted-installer"
    /\ URL(cur) = NoURL
    /\ Log(cur)
    /\ Return("select")
    /\ UNCHANGED <<readerVars, downloaderVars, channelVars, jobs, destination>>

(* ... and sends the others to Listen.  (Mutants: the decoding error is    *)
(* ignored; the message is acknowledged as soon as it is enqueued.)        *)
enqueueUndecoded ==
    /\ pc = "process"
    /\ topic[cur].service = "assisted-installer"
    /\ Len(downloadChannel) < DownloadChannelBufferSize
    /\ downloadChannel' = Append(downloadChannel, cur)
    /\ Return("select")
    /\ UNCHANGED <<readerVars, downloaderVars, untarChannel, listener, jobs, outputVars>>

enqueueAndAck ==
    /\ pc = "process"
    /\ IsArchive(cur)
    /\ Len(downloadChannel) < DownloadChannelBufferSize
    /\ downloadChannel' = Append(downloadChannel, cur)
    /\ Ack(cur)
    /\ Return("select")
    /\ UNCHANGED <<topic, committed, position, stash, reader, downloaderVars, untarChannel,
                   listener, jobs, outputVars>>

enqueueDownload ==
    /\ pc = "process"
    /\ IsArchive(cur)
    /\ Len(downloadChannel) < DownloadChannelBufferSize
    /\ downloadChannel' = Append(downloadChannel, cur)
    /\ Return("select")
    /\ UNCHANGED <<readerVars, downloaderVars, untarChannel, listener, jobs, outputVars>>

Consumer ==
    \/ StopConsuming
    \/ NotQuit
    \/ Fetch
    \/ FetchEOF
    \/ AckOther
    \/ DropUndecodable
    \/ enqueueDownload

-----------------------------------------------------------------------------
(* Listen starts a goroutine for every archive it receives.  Goroutines    *)
(* are interchangeable: the first idle one takes it.                       *)
Spawn(at, o) ==
    \E g \in Goroutines :
        /\ jobs[g] = Idle
        /\ \A h \in 1 .. g - 1 : jobs[h] # Idle
        /\ jobs' = [jobs EXCEPT ![g] = Job(at, o)]

ListenDownload ==
    /\ listener # "stopped"
    /\ downloadChannel # <<>>
    /\ downloadChannel' = Tail(downloadChannel)
    /\ Spawn("get", Head(downloadChannel))
    /\ UNCHANGED <<readerVars, downloaderVars, consumerVars, untarChannel, listener, outputVars>>

(* (Mutant: extractEvents is called without "go".) *)
ListenUntarInline ==
    /\ listener # "stopped"
    /\ untarChannel # <<>>
    /\ \A g \in Goroutines : jobs[g].pc \notin {"extract", "notify", "blocked"}
    /\ untarChannel' = Tail(untarChannel)
    /\ Spawn("extract", Head(untarChannel))
    /\ UNCHANGED <<readerVars, downloaderVars, consumerVars, downloadChannel, listener, outputVars>>

ListenUntar ==
    /\ listener # "stopped"
    /\ untarChannel # <<>>
    /\ untarChannel' = Tail(untarChannel)
    /\ Spawn("extract", Head(untarChannel))
    /\ UNCHANGED <<readerVars, downloaderVars, consumerVars, downloadChannel, listener, outputVars>>

ListenDone ==
    /\ listener = "done"
    /\ listener' = "stopped"
    /\ UNCHANGED <<readerVars, downloaderVars, consumerVars, downloadChannel, untarChannel, jobs,
                   outputVars>>

-----------------------------------------------------------------------------
(* DownloadFile, called by downloadURL in goroutine g: the request, ... *)
SameFile(g, h) ==
    /\ h # g
    /\ jobs[h].pc = "copy"
    /\ File(jobs[h].offset) = File(jobs[g].offset)

CreateFile(g) ==
    /\ jobs[g].pc = "get"
    /\ Create(URL(jobs[g].offset))
    /\ jobs' = [h \in Goroutines |->
                   IF h = g
                   THEN [jobs[g] EXCEPT !.pc = "copy", !.raced = \E k \in Goroutines : SameFile(g, k)]
                   ELSE IF SameFile(g, h) THEN [jobs[h] EXCEPT !.raced = TRUE] ELSE jobs[h]]
    /\ UNCHANGED <<readerVars, consumerVars, channelVars, outputVars>>

(* ... the copy of its body, ... *)
CopyBody(g) ==
    /\ jobs[g].pc = "copy"
    /\ \E intact \in {TRUE} \cup (IF "badResponse" \in Faults THEN {FALSE} ELSE {}) :
          Copy(URL(jobs[g].offset), intact /\ ~jobs[g].raced)
    /\ jobs' = [jobs EXCEPT ![g] = Job("enqueue", jobs[g].offset)]
    /\ UNCHANGED <<readerVars, consumerVars, channelVars, outputVars>>

(* ... or an error, after which downloadURL gives the message up.  The     *)
(* directory may be gone when the process is shutting down.  (Mutant: an   *)
(* error of the copy is not looked at.)                                    *)
DownloadFailsUnseen(g) ==
    /\ \/ jobs[g].pc \in {"get", "copy"} /\ "download" \in Faults
       \/ jobs[g].pc \in {"get", "copy"} /\ "disk" \in Faults
       \/ jobs[g].pc = "get" /\ downloader = "closed"
    /\ IF jobs[g].pc = "get" THEN Log(jobs[g].offset) ELSE UNCHANGED logged
    /\ jobs' = [jobs EXCEPT ![g] = Idle]
    /\ UNCHANGED <<readerVars, downloaderVars, consumerVars, channelVars, destination>>

DownloadFails(g) ==
    /\ \/ jobs[g].pc \in {"get", "copy"} /\ "download" \in Faults
       \/ jobs[g].pc \in {"get", "copy"} /\ "disk" \in Faults
       \/ jobs[g].pc = "get" /\ downloader = "closed"
    /\ Log(jobs[g].offset)
    /\ jobs' = [jobs EXCEPT ![g] = Idle]
    /\ UNCHANGED <<readerVars, downloaderVars, consumerVars, channelVars, destination>>

(* The blocking send into the untar channel, the end of downloadURL. *)
SendFilename(g) ==
    /\ jobs[g].pc = "enqueue"
    /\ Len(untarChannel) < UntarChannelBufferSize
    /\ untarChannel' = Append(untarChannel, jobs[g].offset)
    /\ jobs' = [jobs EXCEPT ![g] = Idle]
    /\ UNCHANGED <<readerVars, downloaderVars, consumerVars, downloadChannel, listener, outputVars>>

-----------------------------------------------------------------------------
(* What untarFile may leave in the temporary directory for the file of the *)
(* message at offset o: the URL whose archive it is and the files that     *)
(* were written completely.  That is an unspecified part if the file is    *)
(* not a complete copy, if the disk is full, or if Close is removing the   *)
(* temporary directory as well (it and the download directory are both in  *)
(* /tmp).                                                                  *)
Untarred(o) ==
    LET content == directory[File(o)]
        reliable == content \in URLs /\ "disk" \notin Faults /\ downloader = "open"
        sources == IF content \in URLs THEN {content} ELSE {u \in URLs : FileName[u] = File(o)}
    IN  IF reliable THEN {[url |-> content, files |-> Files(Archive[content])]}
        ELSE UNION {{[url |-> u, files |-> F] : F \in SUBSET Files(Archive[u])} : u \in sources}

Envelope(u, positions) == [k \in DOMAIN positions |-> <<u, positions[k]>>]

(* Some resource of the archive does not become an event. *)
Incomplete(dir) ==
    \E i \in DOMAIN Archive[dir.url] :
        Archive[dir.url][i].file \notin dir.files \/ ~Extracted(Archive[dir.url], i)

(* ExtractEvents fills the event channel before it returns it, so that a   *)
(* goroutine with more events than the channel holds is stuck for ever.    *)
(* Every error of untarFile and of the extraction is logged; a file that   *)
(* Close removes after it was written is not missed.                       *)
ExtractEvents(g) ==
    /\ jobs[g].pc = "extract"
    /\ \E dir \in Untarred(jobs[g].offset) :
          /\ LET events == Envelope(dir.url, extractEvents(Archive[dir.url], dir.files))
             IN  jobs' = [jobs EXCEPT ![g] =
                             IF Len(events) <= EventChannelBufferSize
                             THEN [Job("notify", jobs[g].offset) EXCEPT !.events = events]
                             ELSE Job("blocked", jobs[g].offset)]
          /\ \/ Incomplete(dir) /\ Log(jobs[g].offset)
             \/ (~Incomplete(dir) \/ downloader = "closed") /\ UNCHANGED logged
    /\ UNCHANGED <<readerVars, downloaderVars, consumerVars, channelVars, destination>>

(* MkdirTemp fails: no acknowledgement. *)
ExtractFails(g) ==
    /\ jobs[g].pc = "extract"
    /\ "disk" \in Faults \/ downloader = "closed"
    /\ Log(jobs[g].offset)
    /\ jobs' = [jobs EXCEPT ![g] = Idle]
    /\ UNCHANGED <<readerVars, downloaderVars, consumerVars, channelVars, destination>>

(* The writer is synchronous; an error, after which the message may still  *)
(* have been written, is logged.                                           *)
Write(envelope, o) ==
    \/ destination' = destination \cup {envelope} /\ UNCHANGED logged
    \/ /\ "write" \in Faults
       /\ Log(o)
       /\ destination' \in {destination, destination \cup {envelope}}

notifyEvent(g) ==
    /\ jobs[g].pc = "notify"
    /\ jobs[g].events # <<>>
    /\ Write(Head(jobs[g].events), jobs[g].offset)
    /\ jobs' = [jobs EXCEPT ![g].events = Tail(@)]
    /\ UNCHANGED <<readerVars, downloaderVars, consumerVars, channelVars>>

(* The event channel is drained: acknowledge the message. *)
AckArchive(g) ==
    /\ jobs[g].pc = "notify"
    /\ jobs[g].events = <<>>
    /\ Ack(jobs[g].offset)
    /\ jobs' = [jobs EXCEPT ![g] = Idle]
    /\ UNCHANGED <<topic, committed, position, stash, reader, downloaderVars, consumerVars,
                   channelVars, outputVars>>

Goroutine(g) ==
    \/ CreateFile(g)
    \/ CopyBody(g)
    \/ SendFilename(g)
    \/ ExtractEvents(g)
    \/ notifyEvent(g)
    \/ AckArchive(g)

-----------------------------------------------------------------------------
Committer ==
    /\ ListenForCommit \/ CommitTick
    /\ UNCHANGED <<downloaderVars, consumerVars, channelVars, jobs, outputVars>>

(* gracefulShutdown: reader.Close, then onprem.Close, which fills h.done   *)
(* and removes the download directory.  A second signal closes the closed  *)
(* quit channel: a panic.                                                  *)
Signal ==
    /\ "signal" \in Faults
    /\ CloseQuitChannel
    /\ UNCHANGED <<downloaderVars, consumerVars, channelVars, jobs, outputVars>>

CloseReader ==
    /\ CloseKafkaReader
    /\ UNCHANGED <<downloaderVars, consumerVars, channelVars, jobs, outputVars>>

CloseHydrator ==
    /\ reader = "closed"
    /\ listener = "listening"
    /\ listener' = "done"
    /\ UNCHANGED <<readerVars, downloaderVars, consumerVars, downloadChannel, untarChannel, jobs,
                   outputVars>>

(* (Mutant: the hydrator is closed before the reader.) *)
CloseDownloaderFirst ==
    /\ reader = "quit"
    /\ downloader = "open"
    /\ RemoveAll
    /\ UNCHANGED <<readerVars, consumerVars, channelVars, jobs, outputVars>>

CloseDownloader ==
    /\ listener # "listening"
    /\ downloader = "open"
    /\ RemoveAll
    /\ UNCHANGED <<readerVars, consumerVars, channelVars, jobs, outputVars>>

SecondSignal ==
    /\ "signal" \in Faults
    /\ downloader = "closed"
    /\ Return("exit")
    /\ UNCHANGED <<readerVars, downloaderVars, channelVars, jobs, outputVars>>

(* A new process with empty channels and no goroutines. *)
Restart ==
    /\ ReaderRestart
    /\ DownloaderRestart
    /\ downloadChannel' = <<>>
    /\ untarChannel' = <<>>
    /\ listener' = "listening"
    /\ jobs' = NoJobs
    /\ Return("select")
    /\ UNCHANGED outputVars

Exit == pc = "exit" /\ Restart

Crash == "crash" \in Faults /\ Restart

Producer ==
    /\ Produce
    /\ UNCHANGED <<downloaderVars, consumerVars, channelVars, jobs, outputVars>>

NewGeneration ==
    /\ Rebalance
    /\ UNCHANGED <<downloaderVars, consumerVars, channelVars, jobs, outputVars>>

Next ==
    \/ Consumer
    \/ ListenDownload
    \/ ListenUntar
    \/ ListenDone
    \/ \E g \in Goroutines : Goroutine(g) \/ DownloadFails(g) \/ ExtractFails(g)
    \/ Committer
    \/ Signal
    \/ CloseReader
    \/ CloseHydrator
    \/ CloseDownloader
    \/ SecondSignal
    \/ Exit
    \/ Crash
    \/ Producer
    \/ NewGeneration

(* Goroutines keep running, and select chooses among ready channels at     *)
(* random, so that none is passed over for ever; an ended process is       *)
(* replaced.  Nothing is assumed of signals, faults and producers.         *)
Fairness ==
    /\ WF_vars(Consumer)
    /\ WF_vars(ListenDownload) /\ WF_vars(ListenUntar) /\ WF_vars(ListenDone)
    /\ \A g \in Goroutines : WF_vars(Goroutine(g))
    /\ WF_vars(Committer)
    /\ WF_vars(CloseReader) /\ WF_vars(CloseHydrator) /\ WF_vars(CloseDownloader)
    /\ WF_vars(Exit)

Spec == Init /\ [][Next]_vars /\ Fairness

-----------------------------------------------------------------------------
Acknowledged ==
    {ackChannel[i] : i \in DOMAIN ackChannel} \cup ({stash, committed} \ {0})

(* The envelopes a complete archive yields. *)
AllEvents(u) ==
    {<<u, i>> : i \in {j \in DOMAIN Archive[u] : Extracted(Archive[u], j)}}

(* Everywhere the message at offset o is held: by the consumer, the two    *)
(* channels, the goroutines, or on its way to the broker.                  *)
Holders(o) ==
    (IF cur = o THEN {<<"cur", 0>>} ELSE {})
      \cup {<<"download", i>> : i \in {j \in DOMAIN downloadChannel : downloadChannel[j] = o}}
      \cup {<<"untar", i>> : i \in {j \in DOMAIN untarChannel : untarChannel[j] = o}}
      \cup {<<"job", g>> : g \in {h \in Goroutines : jobs[h].offset = o}}
      \cup {<<"ack", i>> : i \in {j \in DOMAIN ackChannel : ackChannel[j] = o}}
      \cup (IF stash = o THEN {<<"stash", 0>>} ELSE {})
      \cup (IF committed = o THEN {<<"committed", 0>>} ELSE {})

(* Without a rebalance a message is worked on, queued or acknowledged in   *)
(* one place at a time: no archive is written by two goroutines at once or *)
(* after it was committed, however processes end.                          *)
HeldOnce ==
    \A o \in Offsets : \A a, b \in Holders(o) : a = b

(* An archive is acknowledged once every event it yields is in the         *)
(* destination topic: not when its goroutine died in the middle, nor when  *)
(* the shutdown removed the files while they were being extracted.         *)
CommittedArchiveWritten ==
    \A o \in {stash, committed} \ {0} : IsArchive(o) => AllEvents(URL(o)) \subseteq destination

(* No failure is silent while the process runs: of every archive that was  *)
(* fetched, all events are in the destination topic, or a goroutine or a   *)
(* channel still has it, or the loss was logged - through error pages      *)
(* (DownloadFile ignores the status), failing downloads, a full disk,      *)
(* refused writes, and rebalances that make two goroutines share its file. *)
NoSilentLoss ==
    \A o \in 1 .. position : IsArchive(o) =>
        \/ AllEvents(URL(o)) \subseteq destination
        \/ o \in logged
        \/ \E at \in Holders(o) : at[1] \in {"cur", "download", "untar", "job"}

(* The events of an archive reach the destination after the states of the  *)
(* cluster, hosts and infra-envs they are going to be enriched with, also  *)
(* when other archives are written at the same time.                       *)
StatesBeforeEvents ==
    \A e \in destination : Archive[e[1]][e[2]].name = "Event" =>
        \A s \in AllEvents(e[1]) : Archive[s[1]][s[2]].name # "Event" => s \in destination

(* The file that ExtractEvents is given for a message is not a copy of     *)
(* what was downloaded from another location.                              *)
DownloadedFromURL ==
    \A g \in Goroutines : jobs[g].pc = "extract" =>
        directory[File(jobs[g].offset)] \notin URLs \ {URL(jobs[g].offset)}

(* Every archive whose events fit into the event channel is written, also  *)
(* beside archives that block their goroutine for ever.                    *)
ArchivesEventuallyWritten ==
    \A o \in 1 .. MaxOffset :
        (o \in Offsets /\ IsArchive(o) /\ Cardinality(AllEvents(URL(o))) <= EventChannelBufferSize)
        ~> (o \in Offsets /\ IsArchive(o) /\ AllEvents(URL(o)) \subseteq destination)

(* Nobody receives from the full download channel the consumer sends to. *)
ConsumerStuck ==
    /\ listener = "stopped"
    /\ pc = "process"
    /\ Len(downloadChannel) = DownloadChannelBufferSize

(* Once a signal was received the process ends (and a new one takes over), *)
(* whatever its goroutines wait for - unless the download channel was full *)
(* when Listen returned and the consumer is sending to it.                 *)
ShutdownTerminates == reader # "running" ~> (reader = "running" \/ ConsumerStuck)
=============================================================================
