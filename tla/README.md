# A TLA+ model of assisted-events-streams

The repository holds two Kafka consumers. The *consumer* (`cmd/consumer`) reads
events and states of clusters, hosts and infra-envs from a topic, keeps the
latest states in Redis, enriches every event with them and indexes the result in
OpenSearch. The *on-prem* process (`cmd/onprem`) reads the locations of archives,
downloads and extracts them and writes their events to the first one's topic.
This directory models both: their goroutines, the services they talk to, and the
ways they fail, end and start again.

## Inventory

| part | state | operations | interacts with |
|---|---|---|---|
| `cmd/consumer/main.go` | signal channel, ack channel (1000) | `main`, `gracefulShutdown` | starts and closes the reader and the projection |
| `pkg/stream/reader.go` | quit channel; in kafka-go: position, offset stash, group generation | `Consume`, `listenForCommit`, `Close` | calls `ProcessMessage`; receives from the ack channel; commits every 10 s |
| `internal/projection` | none of its own | `ProcessMessage`, one handler per event name, `skipEvent`, `ackMsg` | Redis, enricher, indexer, ack channel |
| `internal/repository/redis` | hashes `clusters`, `hosts_<id>`, `infraenvs_<id>`, one TTL each | `SetCluster/Host/InfraEnv` (HSET, then EXPIRE), `GetCluster/Hosts/InfraEnvs` | Redis |
| `internal/repository/opensearch` | in the bulk indexer: queue, one buffer per worker | `Store`, `OnSuccess`, `OnFailure`, `Close`, `getIndexName` | OpenSearch; `OnSuccess` sends into the ack channel from a worker's goroutine |
| `internal/projection/process` | the lists of fields to edit | `GetEnrichedEvent`: base event, `unpackJson`, `mapToListJson(DropKey)`, `anonymizeJson`, delete, `AddHostsSummary` | called by the projection; edits JSON with `jsonedit` |
| `pkg/jsonedit` | none | `Transform`, `Delete`, `Rename` along paths | gjson, sjson |
| `cmd/onprem/main.go`, `internal/onprem/hydrate.go` | download and untar channels (1000), done channel, ack channel | `main`, `gracefulShutdown`, `ProcessMessage`, `Listen`, `downloadURL`, `extractEvents`, `Close` | one goroutine per download and one per extraction; reader; writer |
| `internal/onprem/event_extractor.go` | temporary directory, event channel (1000) | `ExtractEvents`, `untarFile`, `extractEventsForEventType` | filled by the extractor before the hydrator reads it |
| `internal/onprem/downloader.go` | download directory | `DownloadFile`, `Close` | shared by all goroutines |
| `pkg/stream/writer.go` | - | `Write` (synchronous) | destination topic |
| `pkg/stream/notification.go`, projection config repository | - | used by neither process | - |

What is hard in the consumer, and what would make it correct:

* *Acknowledgements out of order.* States are acknowledged when they are read,
  events when a worker's callback says that they were indexed, and a Kafka commit
  is a high-water mark. An acknowledgement must imply that the document exists
  (`AckedEventStored`), and a committed event must not be lost (`NoEventLost`,
  `CommittedEventsStored`).
* *Restarts and rebalances* rewind the reader to the committed offset while Redis
  and OpenSearch keep what later messages did to them: enrichment must not go
  stale (`EnrichmentFresh`), copies must not multiply (`OneIndexPerEvent`), an
  excluded user's event must be skipped each time it is read again (`ExcludedNeverIndexed`),
  and an unknown message must stop every restart (`NeverPastUnknown`).
* *Two commands per snapshot* and *reads that may fail*: no immortal hash
  (`EveryHashExpires`), no snapshot of another cluster (`DocumentsFromOwnCluster`).
* *Edits of JSON along paths*, in the random order of Go maps, each step working on what a
  failed one left: the document must be what the field lists declare
  (`EnrichedAsDeclared`, `SummaryOfHosts`), and user names must be hashed (`UserIDIsHash`).
* *Bounded channels and shutdown*: three blocking sends meet in one ack channel,
  and a signal closes everything while a message is being processed
  (`ShutdownTerminates`, `NoAddAfterClose`, `EventuallyStored`).

In the on-prem process:

* *One goroutine per archive*, acknowledging in the order they finish, and a
  shutdown that removes the files they work on: an acknowledged archive must have
  been written (`CommittedArchiveWritten`) and no message may be in two hands (`HeldOnce`).
* *One directory for all downloads*: an archive must not be read under another
  one's name (`DownloadedFromURL`).
* *The event channel is filled before it is read*: an archive with more events than
  its capacity blocks its goroutine for ever; the others must go on
  (`ArchivesEventuallyWritten`).
* *Errors that are only logged*: an error page, a full disk or a refused write must leave
  at least a trace in the log (`NoSilentLoss`).
* *Order*: events are enriched with the states before them, so an archive's states
  must be written first (`StatesBeforeEvents`), and the versions it attaches must be where
  the consumer looks for them (`VersionsFound`).
* *Shutdown* while goroutines and channels are in any state (`ShutdownTerminates`).

`PROJECT.json` lists every component and every hazard with its line.

## Modules

* **`Events`** - messages, abstracted to what the code asks of them: the name
  `ProcessEvent` switches on, the IDs `GetValueFromPayload` needs, the cluster's
  `user_name` and `onprem` key, and the class of message and time that fixes the
  document's ID. `notjson` is a value `json.Unmarshal` rejects.
* **`KafkaReader`** - one partition. `position` is what `FetchMessage` last
  delivered, `ackChannel` the Go channel, `stash` kafka-go's offset stash, `committed`
  the group's offset. Offsets count from 1, so that the offset kafka-go commits
  (`msg.Offset + 1`) is the offset of the message itself and 0 is "none".
  A commit replaces the broker's offset even by a lower one. `Rebalance` ends a
  generation: final commit, position back to the committed offset, but the ack
  channel stays.
* **`SnapshotRepository`** - the Redis hashes; a snapshot is represented by the
  offset of the message it was taken from, which is what freshness is about.
  `HSet` and `Expire` are separate steps.
* **`EnrichedEventRepository`** - the bulk indexer: `Store` adds to the bounded
  queue, workers `Take` items into a buffer, `Flush` applies any subset of the
  buffer when items may fail, and the callbacks of a response run one by one,
  `OnSuccess` blocking on the ack channel. `FlushFails` loses the whole request,
  whatever OpenSearch executed of it.
* **`EnrichedEventsProjection`** - the process: the consumer goroutine as a program
  counter (`select`, `fetch`, `process`, `expire`, `store`, `ack`, `exit`) composed
  with the three modules above, signals, crashes, the restart and the environment;
  all properties of the consumer.
* **`AtLeastOnceDelivery`** - what the consumer promises, without processes and buffers: a
  log, the set of delivered items, and a mark that never passes an undelivered one.
  `EnrichedEventsProjection` implements it on a stream of events: `log` is the document
  IDs of the topic, `delivered` those in OpenSearch, `mark` the group's offset.
* **`JsonTree`** - JSON documents as trees of tagged values. A string is a text, and the
  constant `Parsed` says which texts are encodings of JSON values, because the code decodes
  every string it meets on a path. A list made from a Go map is a `Listing` by key, since
  its order is random. gjson and sjson are operators along one or two keys, which is all the
  code's paths have on either side of a `[*]`, so that no operator is recursive.
* **`Transformations`** - the functions the enricher gives to `Transform` (`unpack`, `dropKey`,
  `mapToList`, `hash`), which are called by their names.
* **`JsonEdit`** - `Transform`, `Delete` and `Rename`. A path is what
  `strings.Split(path, "[*]")` makes of it, one or two sequences of keys; each operator is one
  iteration of the loop over the paths.
* **`HostsSummary`** - `AddHostsSummary` as the set of summaries it may compute (a tie is
  broken by the order of a map). Shares are kept as counts beside their total.
* **`EventEnricher`** - `GetEnrichedEvent`: `stage` is the function that
  `getTransformedEvent` is in and `pending` the paths that function has yet to visit, in the
  order of its list or, for the two that iterate the map of the anonymization, in any
  order. One action is one iteration of a function's loop; `StepReturns` goes on to the next
  function. The properties compare the outcome with a definition by fields instead of by
  paths.
* **`EventExtractor`** - operators: which resources of an archive become events and
  in which order: a resource comes after those of earlier kinds and after those before it
  in the archive, and its place in the event channel is the number of kept resources that
  precede it. A resource without a cluster ID ends its file; `Event` is the last kind.
  Payloads and versions are left out.
* **`FileDownloader`** - the download directory: a file is a complete copy of a URL's
  archive, `partial` (being written, overwritten, or an error page) or `absent`.
* **`OnPremEventsHydrator`** - the on-prem process, composed of `KafkaReader` and the two
  modules above: the consumer goroutine, `Listen`, and `jobs`, the goroutines that
  `Listen` starts (`get`, `copy`, `enqueue` for a download; `extract`, `notify` and, for an
  archive that does not fit, `blocked` for an extraction). `destination` is the set of
  events written, `logged` the messages of which a loss was logged. Two downloads that use a file at the same time leave something
  unspecified in it, and extracting a `partial` file yields any part of an archive.
* **`MCEnrichedEventsProjection`**, **`MCOnPremEventsHydrator`** (with `MCOnPrem*.cfg`),
  **`MCEventEnricher`** (with `MCEnricher.cfg` and `MCUserNames.cfg`) - small instances.
* **`EnrichedEventsProjection_proofs`** (types, the pipeline to the broker, unknown names),
  **`StoredDocuments_proofs`** (acknowledged means stored; own snapshots),
  **`Snapshots_proofs`** (fresh snapshots, one index, TTLs),
  **`Delivery_proofs`** (committed means stored; the refinement),
  **`EventExtractor_proofs`** (the order of extraction), **`OnPremEventsHydrator_proofs`**
  (types), **`ArchiveDelivery_proofs`** (the invariants of the on-prem process),
  **`EventEnricher_proofs`** (the enriched document, its summary and its versions) - theorems.

A definition whose comment says *Mutant* shows a plausible bug; the mutants are
used only to see that a property notices it.

Two sources of interleaving deserve a word. The message a goroutine is working on
(`cur`, `enriched`) is kept across a rebalance, as in the code. And every way to
end the process - `Consume` returning, an error reaching `log.Fatal`, a panic, a
crash - leads to the same `Restart`, which loses the ack channel, the stash, the
queue and the buffers.

## Runs

All runs check `Spec`. `Faults` selects which faults the environment may inject.

| run | instance | shows |
|---|---|---|
| `faults` | 9 topics of 3, with every kind of message, two clusters and two events that share a document; most end with an unknown name, one has a message behind it; every fault | `TypeOK`, `NeverPastUnknown`, `AckedEventStored`, `DocumentsFromOwnCluster` |
| `replay` | topics of up to 4 with changing snapshots and an excluded user, 2 workers; crash, signal, bulk failures | `EnrichmentFresh`, `OneIndexPerEvent`, `ExcludedNeverIndexed`, `EveryHashExpires` |
| `events_only` | 2 events and a third produced while the consumer runs; crash, signal, rebalance | `CommittedEventsStored` and the refinement `DeliversAtLeastOnce`: the commit protocol is sound when all messages are acknowledged in order |
| `delivery` | topics of up to 3 messages, some acknowledged twice, 2 workers; signal | `EventuallyStored` (while no signal arrives), `ShutdownTerminates` |
| `loss` (violated) | one event, one state, signal | `NoEventLost`: see below |
| `add_after_close` (violated) | the same | `NoAddAfterClose`: see below |
| `onprem_faults` | an undecodable message, then one that is produced: an archive or another such message; or one archive announced twice; 2 goroutines; rebalance (so that an archive is read again while it is in work), failing downloads, error pages, disk and write failures | `TypeOK`, `NoSilentLoss` |
| `onprem_archives` | 2 messages, 2 goroutines; crash, signal, failing downloads | `CommittedArchiveWritten`, `HeldOnce`, `ShutdownTerminates` |
| `onprem_delivery` | 3 messages, one archive larger than the event channel, no faults | `ArchivesEventuallyWritten`, `StatesBeforeEvents` (deadlock is not checked: the process may wait for messages) |
| `onprem_shared_name` (violated) | 2 archives with one file name, no faults | `DownloadedFromURL`: see below |
| `enricher` | 4 clusters, 6 lists of hosts, 5 of infra-envs; the forms of metadata and props | `EnrichedAsDeclared`, `SummaryOfHosts`, `VersionsFound` |
| `user_names` (violated) | clusters of two users, one called `42` | `UserIDIsHash`: see below |

*Bounds.* `MaxOffset` (2 to 4 messages), `AckChannelBufferSize = 1`, `NumWorkers` (1
or 2, which is also the queue's capacity) and `FlushItems` (1 or 2 items instead of
bytes). Small capacities make every blocking send block; two buffered items let an
event wait while the next message is acknowledged; a replay needs a state, an event
and a second state or event. The number of restarts, rebalances and failures is not
bounded. Topics are fixed sets of sequences in the runs with faults because the
interesting ones are known (a state before, between and after events, malformed and
unknown messages, two clusters); `delivery` and `events_only` also append to them.

In the on-prem runs all channels have capacity 1, except the event channel (2, for
archives of 2 and 3 events), and `MaxGoroutines` bounds what the code leaves unbounded:
2 goroutines are enough for every pair of archives to race, and in `onprem_delivery`
3 are as many as there are messages, so that the bound never delays one. `onprem_faults`
has no crash: what a killed process held is no failure that it could have logged.

The enricher keeps nothing between calls, so its instance is the set `Inputs`: clusters with
decoded, encoded, empty, null and wrongly typed fields; hosts with a common, a different, an
unknown and no infra-env; infra-envs that agree, differ and lack an architecture. All 24
orders of each map iteration are explored. `MCEventEnricher` asks that all of them be `PlainInput`s,
the premise of two theorems below.

*Fairness.* Weak fairness of each goroutine (Go schedules runnable goroutines), of
the flush and commit timers, and of the deployment replacing an ended process; each
case of `Listen`'s `select` is weakly fair because Go chooses among ready cases at
random. None for signals, producers, faults.

### What the violated runs show

* **`NoEventLost`**. An event waits in the indexer's buffer; the state message after it
  is acknowledged and committed at once; a signal makes `Consume` return and `main`
  with it, before `projection.Close` has flushed. The offset is past the event and no
  restart reads it again. A crash instead of a signal has the same effect. In
  contrast `events_only` shows that nothing is lost when only events are in the topic.
* **`NoAddAfterClose`**. `gracefulShutdown` does not wait for `Consume`, so a message in
  progress is added to the closed indexer, which panics, contrary to what the
  indexer's documentation asks of its callers.

* **`DownloadedFromURL`**. Two URLs with the same last segment share a file. The first is
  downloaded and queued for extraction; the second download replaces the file; the
  first message is then answered with the second archive and acknowledged.
* **`UserIDIsHash`**. `Transform` decodes the string it finds before it calls `hash`, which
  leaves what is no string alone: a user name that is the text of a number (or `true`, or an
  object) is copied into `user_id` as it is. `EnrichedAsDeclared` uses names that are no JSON.

Known and not stated as a property of the on-prem process: a message delivered twice
(by a producer's retry or a rebalance) truncates the file that is being extracted, and
the part extracted so far is acknowledged, so `onprem_archives` uses distinct archives and
no rebalance; a higher offset commits past a slower archive, which a crash loses; error
pages and refused writes are acknowledged, with no more than a line in the log; a full download channel when `Listen` returns
keeps the process from ending (`ConsumerStuck`, the exception in `ShutdownTerminates`).

Known and not stated as a property of the consumer: after a rebalance an acknowledgement of the old
generation may be committed in the new one; followed by a crash this skips the replay
of a state and the enrichment of later events is stale. The `replay` run and its
theorems therefore assume no rebalance. A state that Redis refuses is acknowledged all the same, and
later events carry the older snapshot: the theorems assume no failing Redis command either.

Known and not stated as a property of the enricher: without any known architecture (no hosts,
or none with an infra-env) a cluster is reported as heterogeneous; a null `user_name`
becomes an empty `user_id`; an empty map becomes null instead of an empty list.

## Theorems

Proved with TLAPS for every set of messages, every topic, archive, number of workers and
goroutines, capacity and (unless said) every set of faults. The assumptions are the
`ASSUME`s of the modules: messages are `Message`s, capacities are positive, `NoValue` is no
ID, every location has a file name and an archive, the arguments of the enricher are JSON values
of the types its signature gives them. A premise beyond these is a definition
named in the theorem, and the run that checks the same property satisfies it.

### The consumer

| theorem | property | premise |
|---|---|---|
| `TypeCorrect` | `TypeOK` | none |
| `UnknownNameBlocks` | `NeverPastUnknown` | none |
| `AcknowledgedMeansStored` | `AckedEventStored` | none |
| `OwnSnapshotsOnly` | `DocumentsFromOwnCluster` | none |
| `EnrichmentNeverStale` | `EnrichmentFresh` | `NoStaleFaults`: no rebalance, failing Redis command or expiring key |
| `ReplaysGoToOneIndex` | `OneIndexPerEvent` | `NoStaleFaults` |
| `ExcludedStaySkipped` | `ExcludedNeverIndexed` | `NoStaleFaults` |
| `HashesExpire` | `EveryHashExpires` | `NoExpiryFaults`: no rebalance, no failing Redis write |
| `CommitsFollowStores` | `CommittedEventsStored` | `EventsInOrder`: events only, one worker, no bulk failure |
| `ImplementsDelivery` | `DeliversAtLeastOnce` | `EventsInOrder` |

None of the properties is inductive: each says where offsets and documents are, and it
holds because of where they came from. `PipelineIn(A, D)` is the common form of the
strengthenings: the committed offset, the stash, the ack channel and the callbacks hold
members of `A`, the buffers and the queue members of `D`. `PipelineStep` proves once that
every step keeps it if the consumer goroutine only puts members of `A` and `D` into the
pipeline. The invariants differ in the two sets:

* `UnknownInv`: for an unknown message at `u`, the offsets below `u`; and the reader stands
  at `u` only while the process is about to end (`Barrier`).
* `AckedInv`: the offsets that are `Acknowledgeable`, of events OpenSearch has or of other
  messages. The set may only grow: a bulk request replaces documents with an ID but leaves
  one with it, also when a process that restarted sends an old one again.
* `OwnInv`: documents whose snapshots are of the event's cluster, and so are the
  snapshots in Redis and in the consumer's hands.
* `FreshInv`: offsets that are *settled* - Redis holds, of every state up to there, that
  snapshot or a later one - and documents that are fresh. Hence a restart begins at a settled
  offset, and replaying an old state over a newer snapshot is sound because the reader's
  position goes back as well. For `ReplaysGoToOneIndex`, `Unique` adds that OpenSearch has one
  document per ID and index; two fresh copies agree on the index.
* `KeptInv`: of the documents of `OwnInv`, those whose cluster snapshot names no excluded user.
  Such a document may lack the snapshot; `ExcludedStaySkipped` adds that it is fresh, so that it
  has one if a state of the cluster precedes the event.
* `PendingInv`: for a hash without TTL there is a state message `o` that nothing in the
  pipeline has reached, and the consumer is before it, at one of its two commands, or ending.
  `ReadInv` supports it: nothing beyond the last message handled is in the pipeline, which a
  rebalance would break.
* `OrderInv`: offsets up to which everything is stored (`StoredPrefixes`); every
  event before one in the buffer or queue is stored or ahead of it, and every event the
  reader has passed is stored, held by the indexer or in the consumer's hands.

`ImplementsDelivery` maps each step to one of the abstract specification or to a stutter:
`Producer` to `Publish`, a bulk request to `Deliver`, and whatever changes the committed offset
(the timer, the final commit of a generation or of a closing reader) to `Commit`, which is
where `OrderInv` is needed.

### The on-prem process

| theorem | property | premise |
|---|---|---|
| `HydratorTypes` | `TypeOK` | none |
| `EventsExtracted` | what `extractEvents` returns, for every archive and set of unpacked files | none |
| `WorkedOnOnce` | `HeldOnce` | no rebalance |
| `LossesAreLogged` | `NoSilentLoss` | `NobodyEndsIt` (no crash or signal), `DistinctFileNames` |
| `CommittedMeansWritten` | `CommittedArchiveWritten` | `CleanFaults` (crash, signal and failing requests only), `DistinctFileNames`, `AnnouncedOnce` |
| `StatesComeFirst` | `StatesBeforeEvents` | `OrderedFaults` (crash and failing requests only), `DistinctFileNames`, `AnnouncedOnce` |

The premises are not for convenience: `onprem_shared_name` shows what shared file names do, an
archive announced twice is truncated while it is extracted, a disk or write error is
acknowledged like a success, and a shutdown removes the directory an archive is
being unpacked into.

* `EventsExtracted` is about counting: the number of kept resources that precede one (`Rank`)
  is different for each of them and takes every value below their number. The induction
  this needs is done with the least element of a set of numbers. Hence every kept resource is
  listed once and every state before every event.
* `HeldInv` says that every held offset is at most the reader's position and in one place: in the
  consumer's hands, at an index of a channel, or with a goroutine. Every step drops offsets
  (`Dropped`), moves one to another place (`Moved`) or receives from the head of a channel,
  which shifts the others (`Received`); a fetch adds the one offset that no place can hold.
* `LossInv` extends `NoSilentLoss` from the position to every offset that is `Reached`: a
  rebalance takes the position back to the committed offset and an acknowledgement of the old
  generation may take it forward again, so what lies below any held offset must be accounted
  for, too. `NotifyInv` says of a goroutine that writes that its archive's events are written,
  in its channel, or logged; `OwnFiles` that a file holds nothing of another location.
* `CommittedMeansWritten` rests on `HeldInv` (two places with one file are one place), on
  `FilesInv`, `EventsInv` and `AckInv` along the way of an archive, which hold until
  the reader is closed, and on `ShutInv`: the directory is removed only after that, and a closed
  reader commits no more.
* `OrderInv` says of a goroutine that writes that the states of its archive are written or
  before the next event in its channel; that they are in this order is `EventsExtracted`.

### The enricher

| theorem | property | premise |
|---|---|---|
| `DocumentFollowsEdits` | the inductive invariant `EnricherInv` | `PlainInputs` |
| `DocumentEnriched` | `EnrichedAsDeclared` | `PlainInputs` |
| `HostsSummarized` | `SummaryOfHosts` | `PlainInputs` |
| `VersionsKept` | `VersionsFound` | none |

for every set of inputs, with any number of hosts and infra-envs and any fields in them, and
every order of the map iterations. `PlainInputs` says four things. Neither a user name nor its
hash is the text of a JSON value: `user_names` shows what happens to a name that is, and a hash
that is would be decoded by `Rename`. No map is encoded twice, or the second transformation
would decode it once more. The infra-envs have ids that are distinct strings, as the Redis
hash they come from is keyed by id. A host snapshot has no `infra_env` of its own.

The properties speak of the end of a call only, so what they need is an account of the
document in between, when some of 27 edits have been made, eight of them in an order that is
not fixed.

* An *edit* is a function with a path. `Made` is the set of edits made so far: all of the
  functions before the present one, and of the present one those that are not `pending`.
* `DocumentAt(E, in, d)` says field by field what the document `d` is when the edits `E` have
  been made to the input `in`: of the cluster, of every host and the infra-env embedded in it,
  and of every listed infra-env. It does not depend on the order in which `E` was made, and
  `DocumentInv` is `DocumentAt(Made, input, json)`. `LoopInv` says where the functions stand:
  `pending` holds paths of the present one, each once. `SummaryInv` adds that the summary is
  one of those `AddHostsSummary` computes.
* One edit takes `DocumentAt(E)` to `DocumentAt(E` with that edit`)` (`EditReaches`, from
  `HostEdited` for the paths with a `[*]` and `DocumentEdited` for the whole). This is where
  the edits are shown not to disturb each other: the two hashes of a host's and its
  infra-env's user rewrite the same list.
* When all edits are made, the field is the one that `ExpectedObject` names. Objects are
  compared field by field, so nothing is lost and nothing added.
* For the summary: the hosts of the document and their labels are those of the input, because no
  edit touches a field that is counted; the labels are finitely many, so one has the highest
  count (the least element of a well-founded order); and the labels of the hosts with a
  known architecture are one exactly when a single label has all of them.
* `VersionsKept` needs none of this: no edit is made to the versions (`BaseInv`), whatever
  the rest of the input looks like.

### Only model-checked

* Liveness: `EventuallyStored`, `ShutdownTerminates` (of both processes),
  `ArchivesEventuallyWritten`. Fairness is out of the prover's reach.
* The four violated runs, which are counterexamples.

## Not modelled

* Several partitions or replicas (the deployment runs one), and a bulk request that
  OpenSearch executes after the process that sent it is gone.
* Of a payload, the fields no edit touches; the versions file of an archive; MD5 (a constant
  function whose values are no JSON texts, although a hash of digits alone would be).
* The panic of `Rename` when a parent is no list: the two parents it is used with always are.
* `pkg/stream/notification.go` and the projection config repository: neither process calls
  them, so there is no caller whose use of them a model could follow. `Close` of the Kafka
  writer for the same reason.
* SASL, TLS, client construction, logging other than of losses, generated mocks, manifests.

## Plan

Done: the consumer process, the on-prem process, the enricher with `jsonedit` and the hosts
summary, the refinement; theorems for every safety invariant of the passing runs and for the
refinement. What could still be added:

1. Weaker premises where the properties allow it: `CommittedMeansWritten` with several
   messages for one location as long as they are not in work at the same time, `HashesExpire`
   with rebalances while the ack channel is empty.
2. Action properties from the same invariants: which steps may move the committed offset back,
   and that no step but a bulk request changes what OpenSearch has.
