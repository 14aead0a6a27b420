# A verification project for anantha

anantha lets a Carrier thermostat talk to a local server instead of the
vendor's cloud.  It answers the thermostat's DNS queries, runs the MQTT broker
the thermostat connects to, keeps every message on disk, holds the current
settings in memory, and shows them on a dashboard, in Prometheus and in Home
Assistant.  This directory holds TLA+ models of the parts where goroutines,
files and restarts meet, the TLC runs that check them on small instances, and
the theorems that TLAPS proves about them for all instances.

## The system

| part | code (`src/`) | state | operations | talks to |
|---|---|---|---|---|
| Value store | `cmd/anantha/cmd/types.go` | `values`, `sourceFileUsage`, `globalLastUpdated`, one lock, `deletionQueue`, three lists of subscriber channels | `StartLoading`, `Update`, `EndLoading`, `RemoveFileReferences`, `Subscribe`, `RegexSubscribe`, `GlobalSubscribe`, `Get`, `Snapshot` | deletion worker through the queue; watchers through channels |
| Deletion worker | `types.go:363` | the file in hand | take a name, `os.Remove`, forget the statistics | proto directory, store |
| Ingestion | `serve.go:91` `OnPacketRead` | proto directory | write the payload to a file, decode it, apply its settings | one goroutine per MQTT client; store |
| Replay | `serve.go:584` `runServe` | the list of names still to read | read, decode and apply every saved file, newest name first | store, before any client can connect |
| Watchers | `types.go:237-333`, `metrics.go`, `serve.go:771` (`/events`) | last values seen, what was shown | register, read the map, follow the channel | store |
| Hook | `serve.go:91-177`, `1273-1299` | `liveClients`, shared without a lock | PUBLISH marks a client live, CONNECT clears all, a poll each minute | broker |
| AWS proxy | `serve.go:115-166`, `560-582` | `subscribedTopics`, the session of the cloud's broker | subscribe what the thermostat subscribes to, forward both ways | paho client, broker |
| Home Assistant bridge | `hamqtt.go` | none of its own | five command handlers, nine publishers | store, thermostat |
| Firmware preparation | `update.go` | firmware directory | fetch manifest, find model, download, patch, save | thermostat's HTTP requests |
| Intel HEX and memory buffer | `intelhex/`, `membuf/` | records, segments, replacement cursor | parse, locate, read back patched, encode | `edit-firmware`, `update.go` |
| cagen | `cmd/cagen` | the blob in the making; the certificates and pairs found | place, stuff slice by slice, fix up, verify; look for pairs | its result is built into the memory buffer's `Update` |
| Schedule pages | `serve.go:230-394`, `templates.go` | none | split a day into blocks, add those that cross midnight | store |
| Weather | `serve.go:1154`, `cmd/pkg/weather` | coordinate cache | answer a request of the thermostat | open-meteo |
| Other tools, DNS, provisioning | `cmd/*`, `serve.go:467-554`, `1079-1136` | none that lasts | | |

What is hard in it, and where the properties are aimed:

* **The collector.**  A file may be removed once no current value came from
  it.  The counts are kept by `Update`, protected by `loadingInProgress`
  between `StartLoading` and `EndLoading`, and changed by any number of
  clients, by the replay and by the worker, which removes the file *before* it
  takes the lock to forget it.
* **Restarts.**  The directory is the only thing that survives.  What was
  collected must never be needed again, whenever the process dies.
* **The queue.**  `Update` sends to it with the lock held.
* **Subscriptions.**  Registration and first read are two critical sections
  (or, for the dashboard, many), channels are bounded and drop.
* **Checksums.**  The replaced certificate must leave the checksum of every
  record of the firmware as it was.  cagen moves whitespace about to arrange
  it for one alignment at a time, and the buffer hands the result out as the
  records are read back.
* **Faults.**  A write that fails is logged and the settings are applied all
  the same; the next start sees what is on the disk.
* **Delays.**  A command for the thermostat is made of its last report, which
  says nothing of the command before; a poll goes out because of clients that
  may be gone.
* **Connections.**  Three clients of brokers lose their connection and get it
  back.  What was subscribed, or published in between, is lost with it.
* **Files that others read.**  The manifest and the firmware are replaced while
  the thermostat downloads them; cagen's result is rewritten after each find.

`PROJECT.json` lists the hazards line by line.

## Modules

**`LoadedValues`** models the store, the worker, ingestion and replay
together, because every property of one is about the others.  A process is a
client's goroutine (`Handlers`) or the goroutine of `runServe` (`Main`).  A
step is the code between two points where another goroutine can run: a whole
critical section, or one system call.

| code | actions |
|---|---|
| `OnPacketRead`, PUBLISH | `OpenProto` (create the file), `WriteProto` (its contents), then as below |
| `addAllConfigSettings` | `StartLoading`; per setting `UpdateStale`, `UpdateStore`, or `UpdateBlock` and `UpdateResume` when the queue is full; `EndLoading`, and `Enqueue` for its send, which is made without the lock |
| `deletionWorker` | `WorkerReceive`, `WorkerRemove` (`os.Remove`), `RemoveFileReferences` |
| `runServe` | `LoadNext` per file (read and decode), then as `addAllConfigSettings`; `LoadDone` |
| subscriptions | `Subscribe` (also `RegexSubscribe`), `GlobalSubscribe`, `Receive`, `GlobalReceive` |
| death and start of the process | `Restart` |

The lock is not a variable: critical sections are single steps, and the one
section that waits while it holds the lock is the `"blocked"` state, which
disables every step that needs the lock (`LockFree`).

Data is abstracted to what the properties tell apart.  A payload is its time,
the settings it carries in order, whether it decodes and whether its topic is
replayed.  A value is the file and the time it came from.  A file name is a
number whose order is that of the time in the name.  A new name may come
anywhere in that order: the clock may step back, and for a device name with a
`-` in it `extractTS` parses nothing and the order is that of the directory.

**`DurableMap`** is what the store promises: a map from settings to times that
outlives the process.  `ImplementsDurableMap` maps the directory to what is
durable, the map's times to the view, and `phase = "serving"` to being up.

**`Watchers`** extends the store with the goroutines that follow it: the three
`On...` registrations and the `/events` stream, each with the window between
its steps.

**`MemBuffer`** is the memory that a firmware image is loaded into, as
operators without state of their own: `WriteAt`, `Update`, and `ReadAt`, which
returns the data and the segments with their replacements moved on.
**`Firmware`** extends it with the program around it (`mutateFirmware`,
`edit-firmware`): one action per type of record for `ReadRecord`, `Patch` for
`Update`, and `EncodeData`, `EncodeOther` for the encoder.  It then says what
the file is, byte by byte and without a buffer (`ByteAt`, `Certificates`,
`PatchedByteAt`), and compares.  A read that goes over the ends of segments is
a recursive function (`Reads`), so that it can be proved about.

**`Stuffing`** is the inside of cagen's loop over `firstSliceLen`.  `Place` is
the start of the loop's body; `Verify...` is one round of the loop of
`verifyFixedBlobs`, a slice, with its inner search for whitespace as a choice
of the first balance in the order of the code; `Fixup...` is
`fixupStuffBytes`; `Check` is `firstNonMatchingSlice`.  Making a key and a
certificate is a choice of one.  Slices are sums of bytes modulo `W`, as in
the code modulo 256, and the whole is a sum modulo `W * W`.  **`StuffedImage`**
puts the result into `MemBuffer` and reads it back record by record
(`RecordsKeepChecksum`).

**`CagenSearch`** is the rest of cagen: workers that make certificates, add
what fits to the shared `Result` (`AddCert` takes the lock, truncates the file
and writes it, `FinishWrite`), and look for an earlier certificate that
completes theirs (`Pair`, then one `SavePair` per length).  Whether a
certificate fits a length is `Stuffing`'s question and a constant (`Fits`)
here.  The process is killed anywhere and started again (`Start`).

**`FirmwareUpdate`** is `FetchAndPrepareUpdate` step by step, `atomicWriteFile`
as `CreateTemp`, `FillTemp`, `RenameTemp`, the two HTTP handlers of the
thermostat, a manufacturer that publishes other manifests, every error return
and the death of the process.  A file is whole or partial; what patching does
is `Firmware`'s subject.

**`HACommands`** is the bridge's command handlers (setpoints, fan, preset)
between Home Assistant and an external thermostat that obeys, changes by itself
and reports late, one setting at a time.  A handler is one `Get` per step.
**`HAPublish`** is the other direction: the watchers of the state topics, with
the conversions they apply, and the connection to Home Assistant's broker.

**`Polling`** is `liveClients` and the poll loop.  The map has no lock: a
goroutine that has read the variable writes into the map it found even if a
CONNECT has replaced it (`PublishNData`, `Insert`), and two accesses at once
may end the process (`MapFault`).

**`Proxy`** is the forwarding to AWS IoT: the loop over a SUBSCRIBE with
`subscribedTopics`, the session of the cloud's broker, the callbacks, and the
loss of the connection.  The handler does not look at the token of `Subscribe`, so
a SUBSCRIBE is on its way (`pending`) when the handler is done, and the cloud
grants it, refuses it, or never gets it.

**`Schedule`** is `RenderSchedule` from the slots of the store to the blocks of
the page, loop by loop: a slot (`ReadPeriod`), a comparison of the quadratic
sort (`Sort`), the blocks of a day (`ComputeDay`), and a day of the second loop
(`AddCrossoverBlock`) are a step each.  **`Weather`** is the
callback that answers a weather request: validation, cache, two services that
may fail, and six days.  A request is a setting, saved and answered again at the
next start, and may come at any time, because the broker serves
(`serve.go:1075`) before `OnChange1` subscribes (`SubscribeWeather`), reads
(`ReadWeather`) and calls back for the first time, all in `runServe`; what comes
after the subscription waits in the watcher's channel.  A forecast has four lists
beside that of its days, of any lengths, and one that is too short ends the
process (`Panics`).

**`MCLoadedValues`**, **`MCWatchers`** and **`MCFirmware`** give the constants
their values for TLC.  **`MCCagen`**, **`MCServe`** and **`MCHook`** do so for
several modules at once, which in the program share no state.  A variable
`part` says which of them a behaviour is about; the others stay in an initial
state, so that the states add up and do not multiply, and in `MCHook` each part
has the fairness of its own module.

**`LoadedValuesProofs`** and **`DurableMapProofs`** (the store),
**`WatchersProofs`**, **`HookProofs`** (`Polling` and `Proxy`),
**`ServeProofs`** (`HACommands` and `Weather`), **`ScheduleProofs`**,
**`FirmwareProofs`** (`Firmware` with `MemBuffer`, and `FirmwareUpdate`) and
**`CagenProofs`** (`StuffedImage` with `Stuffing` and `MemBuffer`, and
`CagenSearch`) hold the proofs.

Operators named `Slip...` are a definition with a plausible mistake in it (a
dropped guard, a forgotten decrement).  No specification uses them; put in the
place of the definition that follows them, they break the property their
comment names, which is how we know that the property is able to fail.

## Runs

| run | instance | what it shows |
|---|---|---|
| `store` | 2 clients, 2 settings, 4 names, 3 payloads, queue of 1, restarts | counts are exact, no live file is collected, a file is queued once, the replay never misses a file it listed, the map is as recent as the disk after every restart, and the whole implements `DurableMap` |
| `faults` | 3 names, failing writes and removals, torn files, a payload that decodes in part, a topic that is not replayed | the map is as recent as the disk after every restart also then; what was never written cannot be durable, so there is no refinement |
| `live` | 3 names, fairness | garbage is removed, handlers finish |
| `watch` | a watcher of each kind: an `OnChangeN` of two topics with an `OnChangeRegex`, or a dashboard, or an `OnAnyChange`; one client | a watcher that registers in the middle of an update catches up and is never ahead of the map; a page shows every change made after it subscribed; channels never go back in time |
| `cagen` | `Stuffing`: bytes of 4 bits, slices of 8, blobs of 18 bytes, every alignment; `CagenSearch`: 2 workers, 3 lengths, 5 certificates | the certificate survives, every CR has its LF, all slices balance before they are verified, an accepted blob is read back by `MemBuffer` without a checksum error; no pair is missed, an announced pair is on the disk |
| `serve` | `Firmware`: records of up to 3 bytes of 3 bits, certificates of 4 bytes, holes, base addresses, damaged files; `FirmwareUpdate`: 2 models, 3 manifests; `HACommands`: 2 requests; `Schedule`: 3 days of 4 minutes; `Weather`: 3 postal codes, a channel of 2 | what is written is the input with each certificate replaced, and a replacement that fits is not refused; nobody reads a part of a file or an unpatched firmware, and what is reported as prepared can be downloaded; what was asked for is in force when all is quiet, if requests are orderly, and the setpoint asked for last gets into the manual activity in any case; the page shows what is in force, all week; an answer has six days of the right place, and the latest request is taken whenever it comes |
| `hook` | `Polling`: 3 connections of 2 clients; `HAPublish`: 2 topics of 3 settings, 2 losses; `Proxy`: 3 topics with 2 names, 2 messages, 2 losses, refusals; fairness | a poll is sent only if someone has spoken since the last CONNECT it knew of, and is sent again and again while someone speaks; Home Assistant is heard and informed again after losses; the cloud's messages arrive in order, on topics that were asked for |
| `queue` | 4 names, queue of 1 | **violated**: the store deadlocks |
| `gap` | one dashboard | **violated**: the dashboard shows a stale value |
| `zero` | images at address 0 | **violated**: the image is scrambled |
| `panic` | as `cagen` | **violated**: cagen panics |
| `proxy` | as `hook` | **violated**: the proxy is deaf after one loss |

**Bounds.**  Two clients are enough for every interleaving of two packets, and
the replay is a third process.  Two settings make partial payloads possible (a
file may lose one of its two references) and a payload names one setting
twice.  Two payload times and free choice of names put payload time and name
order in agreement and at odds.  Four names allow a live file, one in the
worker's hands, one queued and one being written; names are used again once
nothing mentions them, so runs of any length are covered.  The queue has one
place so that it fills.  Channels have one or two places for the same reason.
The state spaces are complete: nothing is cut off by a depth limit.

A certificate of four bytes in records of one to three lies across up to four
records, starts and ends anywhere in them, and may be followed at once by
another; the replacements fit the records of some cuts and not of others.  In
`cagen` a slice is half as long as a byte has values, as in the program (128
and 256), which is what makes spreading an excess over a slice harmless; blobs
have two or three slices, so a certificate is moved through slices already
balanced, and some certificates leave no room.

The certificates of `CagenSearch` cover the three lengths in pairs in two ways,
overlap, and one fits nowhere; two workers are enough for two certificates to
come by at once.  In `FirmwareUpdate` one manifest has a model without
firmware, one is no XML, two share a firmware, and one firmware cannot be
patched.  In `HACommands` two requests make every pair of one after another or
of two at once, and one change of the thermostat's own falls anywhere between
them.  A day of four minutes has room for three periods, their end, and 23:59;
slots come in any order, disabled or not, with two that start together, and
days without any.  The clock of `Weather` runs to 2 with entries that last 1, so
that an entry is there, used and out of date; a channel of 2 queues two requests
behind the first callback and drops the third; forecasts have one day, two, seven
or none, and lists longer and shorter than that.
In `HAPublish` five changes are enough for every topic to change twice; the
repetition of an old value has no bound.  Two losses of a connection show one
loss after another's recovery, and two messages their order.

**Fairness** (`Fairness`).  Every goroutine that can run does so in the end,
and one that waits for the mutex or for room in a channel is not overtaken for
ever: Go's mutex goes over to handing itself to the waiter in front, and
blocked senders of a channel are served in order.  Hence strong fairness of
the processes and weak fairness of the worker and the subscribers.  No message
has to arrive.  `PollingFairness` adds what the thermostat does for as long as
it is connected, which is to report its status every few seconds, and
`PublishFairness` that it repeats what it has reported; both `PublishFairness`
and `ProxyFairness` have the client library connect again
(`SetAutoReconnect(true)`), and `ProxyFairness` has the cloud answer each
SUBSCRIBE, one way or the other, and the thermostat subscribe again, which needs
strong fairness because a handler holds the lock meanwhile.  The safety
properties use no fairness.

**What the violated runs show.**

1. `queue`: `Update` sends to `deletionQueue` with the lock held
   (`types.go:161`).  With the queue full and the worker about to take the
   lock in `RemoveFileReferences`, both wait for ever, and with them every
   client, watcher and page.  The comment at `types.go:378` says the buffer is
   there to avoid blocking.  The run `live` has one name less: Updates do wait
   there, the worker always gets round to the queue, and the handlers finish.
   In the code it takes 101 files of garbage at once.
2. `gap`: `/events` reads the topics and then subscribes (`serve.go:946-953`).
3. `zero`: `outputOffset == 0` means "not set" (`parser.go:91`), but is also
   what it should be for a first record at address 0.  The second record is
   then taken for the first.  `ImagePatched` is checked for all other images.
4. `panic`: the search for whitespace starts with two bytes (one is never
   enough for the inner loop to run), and the test for the room that is left
   comes after the test for a match (`main.go:711-715`).
5. `proxy`: the session is a clean one, so a lost connection takes the
   subscriptions along; `subscribedTopics` still has them, so that no later
   SUBSCRIBE renews them, and there is no `OnConnectHandler`
   (`serve.go:133-142`).  `CloudHeard` excludes a topic that the cloud refused.
   `TODO.md:6`, which promises the proxy, adds that its author does not recommend
   to rely on it.

Assumptions of two properties.  `AskedForHolds` is about requests that are made
when the one before has been reported, or follow each other in a manual hold
that the store knows of; none of them has an unreadable payload, no command is
lost, and the thermostat changes nothing by itself meanwhile (`orderly`).  This
leaves out what the comment at `hamqtt.go:275` warns of: two setpoints sent at
once by Home Assistant when no hold is on do overwrite each other, because the
second handler still reads the setpoint from before the first, and so do those
whose handlers read while a report comes in.  What holds of any requests, unless
a command is lost, is `SetpointArrives`: the setpoint asked for last gets into
the manual activity.  `ShownInForce` is
about days on which no two periods start together: of two that do, the page
shows the first as lasting up to midnight.

Two comments we read with care.  `types.go:257` calls a channel of 100 places
large enough not to drop: the watchers' properties are about channels that
have not dropped, and say nothing of one that has.  cagen's README describes
`firstSliceLen` as the offset of the certificate in its record; in
`membuf.go:248` and in cagen it is the number of bytes up to the next record,
and so it is in the models.

## Proofs

For all sets of settings, files, payloads and clients, every capacity of the
queue and the channels, with or without crashes and disk faults:

* `TypeCorrect`: `Spec => []TypeOK`.
* `CountsExact`: `Spec => []RefCountExact`.
* `LiveFilesKept`: `Spec => []LiveFileKept`.
* `FilesQueuedOnce`: `Spec => []QueuedOnce`.
* `ReplayFindsItsFiles`: `Spec => []ListedFilesStay`.
* `NotifiedInOrder`: `Spec => []NotificationsInOrder`.
* `ServesTheLatest`: `Spec => []Recovered`.

and, when the disk does not fail and every payload decodes and is replayed
(`CleanRun`):

* `StoreIsDurable`: `Spec => ImplementsDurableMap`.

The assumptions are the named `ASSUME`s of `LoadedValues`: file names are
numbers other than `NoFile`, sets of files and settings are finite, capacities
are positive.

`TypeOK` needs `ControlOK` (what the registers of a process hold at each point
of its code) and `BlockedOK` (at most one process waits with the lock, at a
setting that has a value); the three are `TypeInv`.

`RefCountExact` is not inductive by itself: a count of one must mean that the
value at hand is the last, which fails if a file could be applied twice, or
forgotten while a value still came from it.  `RefInv` adds what rules this
out: a file on its way to `os.Remove` has no reference and gets none
(`DoomedUnused`), because a file is protected from `StartLoading` to
`EndLoading` (`ActiveLoading`) and is new until then (`OpeningFresh`,
`ToLoadFresh`, `CurDistinct`); and the file that a waiting `Update` has let go
is not used otherwise (`BlockedUnused`).  `LiveFileKept` follows.

`QueuedOnce` and `ListedFilesStay` follow from `RefInv` step by step: what is
sent to the queue was in use until that step, and what is in use or still to
be read is not on its way to `os.Remove`.

`NotificationsInOrder` holds because a value only ever makes way for one that
is at least as recent (`OrderInv`).  The step to look at is the `Update` that
waits for room in the queue: it goes on with the setting it has looked at
before, which is still not stale (`BlockedNotStale`), as it holds the lock.

`Recovered` compares the map with the disk.  `RecInv` says of every file that
has been applied, in whole or up to the setting a process is at, that the map
is as recent (`AppliedCovered`, `SettingsCovered`), that what is applied is a
part of what the file says (`PartOfMessage`), and that no client is served
before the replay is done (`HandlersWait`).  A torn file counts for what can be
read of it.  No assumption about faults is needed: a write that fails leaves
less on the disk, never a newer value.

The refinement needs more (`DurInv`): a value is what its file says
(`ValueCarried`).  The step that matters is `WorkerRemove`: the file it removes
is covered, so each setting it carries has a value that is at least as recent,
that value's file is another one, and that file stays.

For all watchers, whatever topics they ask for and whoever registers at once,
as long as the process lives (`WatchersProofs`):

* `WatchersKeepStore`: `WSpec => Spec`.  The watchers are users of the store;
  all of the above holds of the whole.
* `CallbacksCatchUp`, `RegexCallbacksCatchUp`, `DashboardsFollow`,
  `LastChangeCatchesUp`, `WatchersNeverAhead`: `WSpec =>` `[]CallbackCaughtUp`,
  `[]RegexCaughtUp`, `[]DashboardFollows`, `[]AnyChangeCaughtUp`, `[]NeverAhead`;
  and `WatchersTypeCorrect`.

`WatchInv` says of each watcher whose channel has not dropped anything: the last
news of a setting in the channel is its value (`LastIsCurrent`), and of what is
not in the channel the watcher knows the value (`Told`, `Knows`).  What a watcher
reads from the map while news of it waits in the channel is as new as the last of
them, so the older news, which come after it, cannot leave it behind.  The order
of the news is `NotificationsInOrder`.  `WatchersAssumption` says that a watcher
is of one kind.

For all firmware files, however they are cut into records and whatever holes they
have, all certificates that are searched for and all replacements
(`FirmwareProofs`):

* `FirmwareImagePatched`, `FirmwareFittingIsPatched`: `Spec => []ImagePatched`,
  `[]FittingIsPatched`.
* `FirmwareTypeCorrect`: `Spec => []TypeOK`.

`PatchInv` has a part for each stage.  While records are read, the first
`parsed` of them fill the segments: each segment is a stretch of memory without a
hole, with a hole behind it, and says what the file says (`SegmentsOK`).  The
addresses of a well-formed file ascend, so a record is appended to the last
segment, or there is a hole in front of it and it becomes a new one
(`WrittenIs`).  Memory without a hole is then in one segment (`OneStretch`): the
first occurrence in a segment is the first of the stretch, its end is where the
file has it, and the first record behind it ends its first slice (`UpdatedIs`),
which ties what `Update` finds in the buffer to what `Certificates`,
`CertificateEnd` and `Replacement` say of the file.  A record lies in one
segment, so a read of it takes one piece (`ReadIs`).  While records are written,
the invariant is about the frontier, the end of the last record of data that is
written: `nextByte` is as much of the replacement as lies before it
(`UpdateOK`).  No byte of memory lies between the frontier and the next record
of data (`FrontierIs`), so the read of that goes on where the replacement
stopped (`HandedMeet`), or does not meet it at all (`HandedMiss`), and the record
that comes out is the file's with the bytes of `PatchedBody` (`RecordRead`).  Its
checksum byte is the old one because the sums of the two bodies agree modulo `W`
(`ChecksumStays`).  An image may hold any number of certificates, each in a
stretch of its own.  Assumed: `InputsAssumption` (the types of a record),
`ByteAssumption`, `SearchAssumption` (something is searched for) and
`FoundCertsAssumption` (a replacement is not empty).  What the theorems say
nothing of is in `WellFormed` and `StartsAtZero`; the run `zero` is about the
second.  `FirmwareTypeCorrect` is about every file, its records in any order and
overlapping: `SetSlice` keeps the segments in the order of their offsets, by which
`ReadAt` searches them (`WriteAtStored`), and no replacement is handed out past
its end, however many pieces a read takes (`Fitting`, `ReadStored`).

For all manifests, models and firmwares, wherever a step fails and the process
dies (`FirmwareProofs`):

* `FilesAreWhole`, `OnlyPatchedFirmware`, `PreparedIsServable`: `UpdateSpec =>`
  `[]WholeFiles`, `[]PatchedOnly`, `[]PreparedServable`.
* `NoTempLeft`, `UpdateTypeCorrect`: `[]TempRemoved`, `[]UpdateTypeOK`.

`UpdateInv` follows what a call has in hand: a manifest to be saved under its
name, or the patched form of the firmware that the manifest *in the directory*
names for the model (`CallOK`); the temporary file is complete before the rename
(`TempComplete`), so the directory has nothing else (`DirectoryOK`), nor has who
reads it (`FetchedOK`).  Assumed: `UpdateAssumption`, that no firmware is called
`manifest.xml`.

For all certificates, originals, alignments and lengths of a slice
(`CagenProofs`):

* `CertificateIsKept`, `CarriageReturnsArePaired`, `SlicesAreBalanced`:
  `Spec => []CertificateKept`, `[]CarriageReturnsPaired`, `[]SlicesBalanced`;
  and `StuffingTypeCorrect`.
* `AcceptedIsReadBack`: `Spec => []RecordsKeepChecksum`.

`StuffingAssumption` has the length of a slice divide the values of a byte (128
and 256; only then does `FixupSpread`, which adds the same to every byte of a
slice, leave its sum as it was), an original that is longer than a slice and
certificates that are no shorter than one; a PEM certificate with its two armour
lines and its key alone is several times as long.  A slice has more than four
bytes, so that the two that `Place` spoils can be in one.  `PEMAssumption` says
that `pem.Encode` writes no `'\r'` and that a `'-'` one up or down is none.

The cursor of `verifyFixedBlobs` goes from boundary to boundary (`CursorOnGrid`).
Slices in front of the certificate are as they were but for the two bytes that
`Place` spoils, one up and one down (`FrontsBalanced`).  Of what is behind the
cursor one thing stays true whatever is moved: from each boundary to the end of
the blob, the sum is the original's (`TailsBalanced`).  A shift overwrites the
slice at the cursor so that it becomes balanced, and pushes what it displaces to
the left of it, never behind it.  The slice that the certificate begins in is
then all that `fixupStuffBytes` has to balance: the bytes in front of the
certificate add up to what is missing (`Delta`), and an excess of whole slices'
worth goes to the slice before.  `BalanceInv` is the four together with
`SlicesBalanced`.  For `CertInv` a shift is a cut: what is in front of the gap is
moved unchanged, what is behind it stays, and the gap is whitespace that begins
and ends with `'\n'`, so that a pair is never torn, and `Stripped` of the whole is
that of its parts.

`AcceptedIsReadBack` ties the two programs together, cagen that makes a
certificate and membuf that puts it in the firmware.  Behind as many bytes as make
its first slice `firstSliceLen` long, every record holds one slice of the
certificate (`RecordCut`).  A read is therefore one piece (`PieceIs`, `ReadAtIs`):
it hands out that slice of the replacement, whose sum `firstNonMatchingSlice` has
compared (`AcceptedBalanced`), so that `Patched` finds the checksum unchanged
(`RecordPatched`, by `RecordSums`), and leaves the cursor where the next record
begins (`RecordRead`).  `MemorySum` says that the sums of the two are the same.

Sums, `Stripped`, `Reads` and `ReadRecords` are recursive functions. tlapm cannot
instantiate the library's induction theorems, whose parameter is an operator, but
it can use those about sets: a set of numbers with no least element is empty
(`WFMin`), hence `LeastNumber` and `AllNumbers`, and with them that the equation
of each recursive function has a solution (`TotalsExist`, `KeptExists`), and what
is proved of it.

For all numbers of workers, lengths and certificates (`CagenProofs`):

* `AnnouncedPairSaved`, `PairsAreFound`, `ProgressIsSaved`: `SearchSpec =>`
  `[]PairSaved`, `[]NoPairMissed`, `[]ProgressSaved`; and `SearchTypeCorrect`.

`NoPairMissed` is about moments at which the lock is free.  In between a pair
may stand in `fslCerts`, but then its worker is saving it and keeps the lock to
the end (`LockOK`, `PairFree`).  `PairSaved` needs what has been saved so far
(`SavingOK`): all of it from the two certificates, and on the disk once
anything is.

For all numbers of connections, clients and topics (`HookProofs`):

* `PollsAreJustified`, `PollingTypeCorrect`: `PollingSpec => []PollJustified`,
  `[]PollingTypeOK`.
* `CloudIsForwarded`: `ProxySpec => []ForwardedAsWished`.

A late goroutine writes into the map that it found (`InsertingSpoke`); what is in
the current map was therefore put there after the last CONNECT (`LiveSpoke`).
Each callback, granted or on its way, and each message belongs to a topic that was
asked for (`SessionWished`, `MessagesWished`), and the numbers of the messages rise
from those forwarded to those on their way (`Rising`).  That a topic that was asked
for is subscribed is no theorem: nobody looks at the token of `Subscribe`, so that
the cloud may refuse the topic, and a loss of the connection takes it away.

For all setpoints, activities and fan modes, and any number of requests, reports
and changes of the thermostat's own (`ServeProofs`):

* `AskedIsInForce`: `CommandsSpec => []AskedForHolds`, which is about `orderly`
  requests, see above.
* `LatestSetpointArrives`: `CommandsSpec => []SetpointArrives`, about all of them.
* `NoZeroUnlessBlind`, `CommandsTypeCorrect`: `CommandsSpec =>`
  `[]ZeroOnlyBlind`, `[]CommandsTypeOK`.

`AskedInv` tells the three ways apart in which the thermostat can be on the way
to what is wanted: nothing is on its way, and it is there (`NoneAsked`); one
request is, at some point of its handler, and the store agrees with the
thermostat, so that what the handler reads is right (`OneAsked`); or all know of
a manual hold, any number of requests may be anywhere on their way, and for each
field the last of those that set it sets it to what is wanted (`ManualAsked`,
`LastSets`).  `Quiet` and `Burst` say how one leads to another.
For `SetpointArrives`, `ArrivesInv` follows the setpoint asked for last from its
request (`RequestIsLast`) through the handler to the last command that sets the
field (`CommandIsLast`) and into the activity (`HasArrived`).
`CommandsAssumption` has setpoints be positive and the markers `Keep` and
`Unknown` be no values.

For all postal codes, places and forecasts (`ServeProofs`):

* `AnswersHaveSixDays`, `LatestIsTaken`, `WeatherTypeCorrect`: `WeatherSpec =>`
  `[]SixDays`, `[]LatestTaken`, `[]WeatherTypeOK`.

What the callback holds and what the cache holds is of the place of the code
(`RightPlace`, `CacheRight`).  From the subscription on, the request in the store
is the last one in the channel, or the one taken last when that is empty, unless
it was dropped (`LatestKept`).  `WeatherAssumption` has a forecast be a number of
days and four lists of any lengths, with probabilities of at most 100.

For any program of the week, however many slots a day has and in which order,
and all lengths of the week and the day (`ScheduleProofs`):

* `PageShowsInForce`: `ScheduleSpec => []ShownInForce`.
* `WeekIsCovered`: `ScheduleSpec => []DayCovered`; and `ScheduleTypeCorrect`.

`ScheduleInv` follows the loops.  The sort only swaps two of the periods that
were read, each slot once; those in front of its outer index are in their place,
and none up to the inner one is earlier than the one at the outer
(`PeriodsSorted`).  So the blocks of a day are its periods in order, each up to
the next one (`DayOK`).  What the second loop looks at, the end that the last
block shows, is 23:59 exactly when the day has a period (`LastBlockIs`): the one
block that does not come from the day itself ends at a first period, or at 06:30
if the day has none, and is no last block in the one case and ends too early in
the other.  Each day thus begins with the latest period of the day before
(`FromYesterday`) or at 00:00 with one of its own (`NothingMissing`).  That this
is the period in force is arithmetic round the week (`AgoIs`).
`ScheduleAssumption` has the week be two days at least, so that the day before is
another one, and 06:30 lie inside the day and before 23:59.

Only model-checked:

* Liveness (`GarbageCollected`, `HandlersFinish`, `LiveIsPolled`,
  `CommandsHeard`, `HAFollows`), which is out of the prover's reach.
* `ServeTypeOK` of `MCServe`, which is the types of five modules side by side.
  Each of the five is proved: `FirmwareTypeCorrect`, `UpdateTypeCorrect`,
  `CommandsTypeCorrect`, `ScheduleTypeCorrect` and `WeatherTypeCorrect`.

`WTypeOK`, `TempRemoved`, `ProgressSaved` and the `TypeOK` of `Stuffing` are in no
run; `WatchersTypeCorrect`, `NoTempLeft`, `ProgressIsSaved` and
`StuffingTypeCorrect` prove them.

## Not modelled

* Values themselves, units and the rendering of pages and sensors.
* The Prometheus gauges: each callback assigns one, and runs alone.  (An operation
  status that is empty is set to 1 and never back to 0, `metrics.go:160`.)
* DNS and provisioning, which answer from what they read for each request; the
  command line tools, which are sequential and run once; generated code.
* Of the bridge, `mode/set`, which forwards one word of a table, and the
  discovery message.
* Of the proxy, the file that a callback writes, which the start filters out by
  its name, and what is forwarded to the cloud, which changes nothing.
* Of the schedule, times of "24:00" and later, which parse and are no time.
* The cagen result file that was torn by a kill: `Start` then ends in the phase
  `panicked`, and no property is about it.
* A weather service that never answers (there is no timeout): the model's
  services answer or fail.

## Plan

1. *(done)* `LoadedValues`, `DurableMap`, `Watchers`, and the proofs about the
   store.
2. *(done)* `MemBuffer`, `Firmware`, `Stuffing`, `StuffedImage`.
3. *(done)* `Polling`, `HACommands`, `HAPublish`, `FirmwareUpdate`,
   `CagenSearch`, `Proxy`, `Schedule`, `Weather`.
4. *(done)* Proofs about `FirmwareUpdate`, `CagenSearch` and `Polling`;
   `NotificationsInOrder`; `Recovered` on a faulty disk; `Watchers`, `Proxy`,
   `HACommands` and `Weather`; `Schedule`, its loops as steps of their own;
   `Stuffing`; `Firmware`; `StuffedImage`.
5. Properties for the hazards that have none: equal times on replay, a file
   that does not decode, what a slow page may miss.
