---------------------------- MODULE LoadedValues ----------------------------
(***************************************************************************)
(* The value store of anantha (cmd/anantha/cmd/types.go) with the code     *)
(* that feeds it (serve.go): every PUBLISH of the thermostat is saved as a *)
(* proto file and its settings are applied to an in-memory map that counts *)
(* the live references to each file.  A file nobody refers to any more is  *)
(* queued, and a worker removes it from the disk.  At startup the files on *)
(* disk are replayed, the newest name first.                               *)
(*                                                                         *)
(* Each handler and the startup code is a process; a step is the stretch   *)
(* of code between two points where another goroutine can interleave.      *)
(*                                                                         *)
(* An operator whose name starts with Slip is the definition after it with *)
(* a plausible mistake in it.  No specification uses it: put in the place  *)
(* of that definition, it breaks the property its comment names.           *)
(***************************************************************************)
EXTENDS Integers, Sequences, FiniteSets

CONSTANTS
    Keys,         \* names of settings
    Files,        \* names of proto files; their order is that of extractTS
    Times,        \* payload timestamps, time.UnixMilli(TimestampMillis)
    Messages,     \* payloads a client may publish
    Handlers,     \* client connections, one goroutine each
    Main,         \* the goroutine of runServe, which replays the directory
    QueueCap,     \* capacity of deletionQueue (100 in the code)
    ValueChans,   \* channels made by Subscribe and RegexSubscribe
    ChanKeys,     \* the keys each of them is subscribed to
    GlobalChans,  \* channels made by GlobalSubscribe
    ChanCap,      \* capacity of a subscriber's channel (100 in the code)
    DiskFaults,   \* may os.WriteFile and os.Remove fail?
    Crashes       \* may the process be killed and restarted?

Procs == Handlers \cup {Main}

NoFile == 0
ZeroTime == -1                       \* Go's zero time.Time, before any other

\* What a file or a payload decodes to.  "ok" is whether proto.Unmarshal
\* succeeds ("keys" are then the settings it had decoded before it failed),
\* "loadable" whether the name built from the topic passes the filter of the
\* startup code (prefix spBv1.0, neither NCMD nor DCMD).
Content == [ts : Times, keys : Seq(Keys), ok : BOOLEAN, loadable : BOOLEAN]

NoContent == [ts |-> 0, keys |-> <<>>, ok |-> TRUE, loadable |-> FALSE]

ASSUME FilesAssumption == Files \subseteq Nat \ {NoFile} /\ IsFiniteSet(Files)
ASSUME KeysAssumption == IsFiniteSet(Keys)
ASSUME TimesAssumption == Times \subseteq Nat /\ 0 \in Times
ASSUME MessagesAssumption == Messages \subseteq Content
ASSUME ProcsAssumption == Main \notin Handlers
ASSUME QueueAssumption == QueueCap \in Nat \ {0}
ASSUME ChanAssumption ==
    /\ ChanCap \in Nat \ {0}
    /\ ChanKeys \in [ValueChans -> SUBSET Keys]
ASSUME FaultAssumption == DiskFaults \in BOOLEAN /\ Crashes \in BOOLEAN

VARIABLES
    values,             \* the map, per key the file and time of its value
    globalLastUpdated,
    tracked,            \* the keys of sourceFileUsage
    loadingInProgress,  \* the files whose loadingInProgress is set
    liveReferences,     \* per file its liveReferences (0 when untracked)
    deletionQueue,
    subscribed,         \* the channels registered with the store
    chan, globalChan,   \* their contents
    disk, content,      \* the proto directory
    phase,              \* of runServe: loading, serving or exited
    toLoad,             \* the files the startup code has yet to replay
    pc, cur, msg, idx,  \* per process: control, file, payload and setting
    wpc, wfile          \* of deletionWorker

storeVars == <<values, globalLastUpdated, tracked, loadingInProgress,
               liveReferences>>
chanVars == <<subscribed, chan, globalChan>>
diskVars == <<disk, content>>
mainVars == <<phase, toLoad>>
procVars == <<pc, cur, msg, idx>>
workerVars == <<wpc, wfile>>
vars == <<storeVars, deletionQueue, chanVars, diskVars, mainVars, procVars,
          workerVars>>

TimestampedValue == [sourceFile : Files \cup {NoFile},
                     lastUpdated : Times \cup {ZeroTime}]

\* What a lookup of an absent key yields.
NoValue == [sourceFile |-> NoFile, lastUpdated |-> ZeroTime]

Present(k) == values[k].sourceFile # NoFile

-----------------------------------------------------------------------------
\* The names the startup code replays.
Listed(d, c) == {f \in d : c[f].loadable}

\* NewLoadedValues, and a runServe that has yet to replay the directory.
Init ==
    /\ disk = {}
    /\ content = [f \in Files |-> NoContent]
    /\ values = [k \in Keys |-> NoValue]
    /\ globalLastUpdated = ZeroTime
    /\ tracked = {}
    /\ loadingInProgress = {}
    /\ liveReferences = [f \in Files |-> 0]
    /\ deletionQueue = <<>>
    /\ subscribed = {}
    /\ chan = [c \in ValueChans |-> <<>>]
    /\ globalChan = [c \in GlobalChans |-> <<>>]
    /\ wpc = "receive"
    /\ wfile = NoFile
    /\ phase = "loading"
    /\ toLoad = Listed(disk, content)
    /\ pc = [p \in Procs |-> "idle"]
    /\ cur = [p \in Procs |-> NoFile]
    /\ msg = [p \in Procs |-> NoContent]
    /\ idx = [p \in Procs |-> 0]

-----------------------------------------------------------------------------
(* Saving a payload: the first half of OnPacketRead. *)

Running == phase # "exited"

\* No other goroutine can be inside the store.  The lock is held from one
\* step to another only by an Update that waits for room in deletionQueue.
LockFree == \A p \in Procs : pc[p] # "blocked"

\* Names hold the time in nanoseconds, so a name is never in use already.
Fresh(f) ==
    /\ f \notin disk \cup tracked
    /\ \A p \in Procs : cur[p] # f
    /\ wfile # f
    /\ \A i \in DOMAIN deletionQueue : deletionQueue[i] # f

\* What os.WriteFile leaves behind between creating the file and writing it.
Created(m) ==
    [ts |-> 0, keys |-> <<>>, ok |-> TRUE, loadable |-> m.loadable]

\* What a write that fails half way leaves behind: the first n settings (the
\* timestamp is encoded before them), cut between two settings or within one.
Torn(m, n, clean) ==
    [ts |-> m.ts, keys |-> SubSeq(m.keys, 1, n), ok |-> clean,
     loadable |-> m.loadable]

OpenProto(p, m, f) ==
    /\ phase = "serving"
    /\ p \in Handlers /\ pc[p] = "idle"
    /\ Fresh(f)
    /\ cur' = [cur EXCEPT ![p] = f]
    /\ msg' = [msg EXCEPT ![p] = m]
    /\ \/ /\ disk' = disk \cup {f}
          /\ content' = [content EXCEPT ![f] = Created(m)]
          /\ pc' = [pc EXCEPT ![p] = "write"]
       \/ /\ DiskFaults                  \* logged, and the handler goes on
          /\ UNCHANGED diskVars
          /\ pc' = [pc EXCEPT ![p] = "start"]
    /\ UNCHANGED <<storeVars, deletionQueue, chanVars, mainVars, idx,
                   workerVars>>

WriteProto(p) ==
    /\ Running /\ pc[p] = "write"
    /\ \/ content' = [content EXCEPT ![cur[p]] = msg[p]]
       \/ /\ DiskFaults
          /\ \E n \in 0 .. Len(msg[p].keys), clean \in BOOLEAN :
                content' = [content EXCEPT ![cur[p]] = Torn(msg[p], n, clean)]
    /\ pc' = [pc EXCEPT ![p] = "start"]
    /\ UNCHANGED <<storeVars, deletionQueue, chanVars, disk, mainVars, cur,
                   msg, idx, workerVars>>

-----------------------------------------------------------------------------
(* The startup code: replay the directory, the newest name first. *)

\* ListedFilesStay: the file that is read stays on the list.
SlipLoadNext ==
    /\ phase = "loading" /\ pc[Main] = "idle"
    /\ \E f \in toLoad :
          /\ pc' = [pc EXCEPT ![Main] = "start"]
          /\ cur' = [cur EXCEPT ![Main] = f]
          /\ msg' = [msg EXCEPT ![Main] = content[f]]
    /\ UNCHANGED <<storeVars, deletionQueue, chanVars, diskVars, mainVars, idx,
                   workerVars>>

LoadNext ==
    /\ phase = "loading" /\ pc[Main] = "idle"
    /\ \E f \in toLoad :
          /\ \A g \in toLoad : g <= f
          /\ IF f \in disk /\ content[f].ok
             THEN /\ toLoad' = toLoad \ {f}
                  /\ pc' = [pc EXCEPT ![Main] = "start"]
                  /\ cur' = [cur EXCEPT ![Main] = f]
                  /\ msg' = [msg EXCEPT ![Main] = content[f]]
                  /\ UNCHANGED phase
             ELSE /\ phase' = "exited"   \* runServe returns
                  /\ UNCHANGED <<toLoad, pc, cur, msg>>
    /\ UNCHANGED <<storeVars, deletionQueue, chanVars, diskVars, idx,
                   workerVars>>

LoadDone ==
    /\ phase = "loading" /\ pc[Main] = "idle"
    /\ toLoad = {}
    /\ phase' = "serving"
    /\ UNCHANGED <<storeVars, deletionQueue, chanVars, diskVars, toLoad,
                   procVars, workerVars>>

-----------------------------------------------------------------------------
(* addAllConfigSettings: StartLoading, one Update per setting, EndLoading. *)

\* QueuedOnce: the file is tracked, and not protected.
SlipStartLoading(p) ==
    /\ Running /\ pc[p] = "start" /\ LockFree
    /\ tracked' = tracked \cup {cur[p]}
    /\ pc' = [pc EXCEPT ![p] = "update"]
    /\ idx' = [idx EXCEPT ![p] = 1]
    /\ UNCHANGED <<values, globalLastUpdated, loadingInProgress,
                   liveReferences, deletionQueue, chanVars, diskVars,
                   mainVars, cur, msg, workerVars>>

StartLoading(p) ==
    /\ Running /\ pc[p] = "start" /\ LockFree
    /\ tracked' = tracked \cup {cur[p]}
    /\ loadingInProgress' = loadingInProgress \cup {cur[p]}
    /\ pc' = [pc EXCEPT ![p] = "update"]
    /\ idx' = [idx EXCEPT ![p] = 1]
    /\ UNCHANGED <<values, globalLastUpdated, liveReferences, deletionQueue,
                   chanVars, diskVars, mainVars, cur, msg, workerVars>>

\* The setting that process p is at.
Setting(p) == msg[p].keys[idx[p]]

\* A send of the form "select { case ch <- v: default: }".
Offer(q, v) == IF Len(q) < ChanCap THEN Append(q, v) ELSE q

\* Update's first block: the time of the last change anywhere.
Touch(ts) ==
    IF ts > globalLastUpdated
    THEN /\ globalLastUpdated' = ts
         /\ globalChan' = [c \in GlobalChans |->
                IF c \in subscribed THEN Offer(globalChan[c], ts)
                                    ELSE globalChan[c]]
    ELSE UNCHANGED <<globalLastUpdated, globalChan>>

\* Its last block: tell the channels subscribed to the key.
Notify(k, tv) ==
    chan' = [c \in ValueChans |->
                IF c \in subscribed /\ k \in ChanKeys[c]
                THEN Offer(chan[c], <<k, tv>>) ELSE chan[c]]

\* Recovered, NotificationsInOrder, NeverAhead: the last writer wins.
SlipStale(k, ts) == FALSE

\* The value at hand is older than the one stored.
Stale(k, ts) == Present(k) /\ values[k].lastUpdated > ts

\* LiveFileKept, ImplementsDurableMap: a file that is being loaded counts.
SlipOrphans(k) ==
    /\ Present(k)
    /\ liveReferences[values[k].sourceFile] = 1

\* The value of k is the last one of a file that nobody is loading.
Orphans(k) ==
    /\ Present(k)
    /\ liveReferences[values[k].sourceFile] = 1
    /\ values[k].sourceFile \notin loadingInProgress

\* RefCountExact: the file that is replaced keeps its reference.
SlipReleased(k) == liveReferences

\* The reference counts once the value of k is let go.
Released(k) ==
    IF Present(k)
    THEN [liveReferences EXCEPT ![values[k].sourceFile] = @ - 1]
    ELSE liveReferences

\* Update's assignments, given the reference counts as they stand.
Store(p, refs) ==
    LET tv == [sourceFile |-> cur[p], lastUpdated |-> msg[p].ts]
    IN  /\ values' = [values EXCEPT ![Setting(p)] = tv]
        /\ liveReferences' = [refs EXCEPT ![cur[p]] = @ + 1]
        /\ Notify(Setting(p), tv)

AtSetting(p) ==
    Running /\ pc[p] = "update" /\ LockFree /\ idx[p] <= Len(msg[p].keys)

\* Recovered: a stale setting ends the whole message.
SlipUpdateStale(p) ==
    /\ AtSetting(p)
    /\ Stale(Setting(p), msg[p].ts)
    /\ Touch(msg[p].ts)
    /\ idx' = [idx EXCEPT ![p] = Len(msg[p].keys) + 1]
    /\ UNCHANGED <<values, tracked, loadingInProgress, liveReferences,
                   deletionQueue, subscribed, chan, diskVars, mainVars, pc,
                   cur, msg, workerVars>>

UpdateStale(p) ==
    /\ AtSetting(p)
    /\ Stale(Setting(p), msg[p].ts)
    /\ Touch(msg[p].ts)
    /\ idx' = [idx EXCEPT ![p] = @ + 1]
    /\ UNCHANGED <<values, tracked, loadingInProgress, liveReferences,
                   deletionQueue, subscribed, chan, diskVars, mainVars, pc,
                   cur, msg, workerVars>>

UpdateStore(p) ==
    /\ AtSetting(p)
    /\ ~Stale(Setting(p), msg[p].ts)
    /\ Touch(msg[p].ts)
    /\ \/ ~Orphans(Setting(p)) /\ UNCHANGED deletionQueue
       \/ /\ Orphans(Setting(p)) /\ Len(deletionQueue) < QueueCap
          /\ deletionQueue' = Append(deletionQueue,
                                     values[Setting(p)].sourceFile)
    /\ Store(p, Released(Setting(p)))
    /\ idx' = [idx EXCEPT ![p] = @ + 1]
    /\ UNCHANGED <<tracked, loadingInProgress, subscribed, diskVars, mainVars,
                   pc, cur, msg, workerVars>>

\* deletionQueue is full: Update waits for the worker, with the lock held.
UpdateBlock(p) ==
    /\ AtSetting(p)
    /\ ~Stale(Setting(p), msg[p].ts)
    /\ Orphans(Setting(p)) /\ Len(deletionQueue) = QueueCap
    /\ Touch(msg[p].ts)
    /\ liveReferences' = Released(Setting(p))
    /\ pc' = [pc EXCEPT ![p] = "blocked"]
    /\ UNCHANGED <<values, tracked, loadingInProgress, deletionQueue,
                   subscribed, chan, diskVars, mainVars, cur, msg, idx,
                   workerVars>>

UpdateResume(p) ==
    /\ Running /\ pc[p] = "blocked"
    /\ Len(deletionQueue) < QueueCap
    /\ deletionQueue' = Append(deletionQueue, values[Setting(p)].sourceFile)
    /\ Store(p, liveReferences)
    /\ pc' = [pc EXCEPT ![p] = "update"]
    /\ idx' = [idx EXCEPT ![p] = @ + 1]
    /\ UNCHANGED <<globalLastUpdated, tracked, loadingInProgress, subscribed,
                   globalChan, diskVars, mainVars, cur, msg, workerVars>>

\* The registers of a process that is done with its message.
Finish(p) ==
    /\ pc' = [pc EXCEPT ![p] = "idle"]
    /\ cur' = [cur EXCEPT ![p] = NoFile]
    /\ msg' = [msg EXCEPT ![p] = NoContent]
    /\ idx' = [idx EXCEPT ![p] = 0]

\* GarbageCollected: a file that brought nothing new is left alone.
SlipEndLoading(p) ==
    /\ Running /\ pc[p] = "update" /\ LockFree
    /\ idx[p] > Len(msg[p].keys)
    /\ loadingInProgress' = loadingInProgress \ {cur[p]}
    /\ Finish(p)
    /\ UNCHANGED <<values, globalLastUpdated, tracked, liveReferences,
                   deletionQueue, chanVars, diskVars, mainVars, workerVars>>

EndLoading(p) ==
    /\ Running /\ pc[p] = "update" /\ LockFree
    /\ idx[p] > Len(msg[p].keys)
    /\ loadingInProgress' = loadingInProgress \ {cur[p]}
    /\ IF liveReferences[cur[p]] = 0
       THEN pc' = [pc EXCEPT ![p] = "enqueue"] /\ UNCHANGED <<cur, msg, idx>>
       ELSE Finish(p)
    /\ UNCHANGED <<values, globalLastUpdated, tracked, liveReferences,
                   deletionQueue, chanVars, diskVars, mainVars, workerVars>>

\* TypeOK: a send to a queue without a bound.
SlipEnqueue(p) ==
    /\ Running /\ pc[p] = "enqueue"
    /\ deletionQueue' = Append(deletionQueue, cur[p])
    /\ Finish(p)
    /\ UNCHANGED <<storeVars, chanVars, diskVars, mainVars, workerVars>>

\* EndLoading's send, made after the lock is released.
Enqueue(p) ==
    /\ Running /\ pc[p] = "enqueue"
    /\ Len(deletionQueue) < QueueCap
    /\ deletionQueue' = Append(deletionQueue, cur[p])
    /\ Finish(p)
    /\ UNCHANGED <<storeVars, chanVars, diskVars, mainVars, workerVars>>

-----------------------------------------------------------------------------
(* deletionWorker *)

\* HandlersFinish: the worker takes the lock before it looks at the queue.
SlipWorkerReceive ==
    /\ Running /\ wpc = "receive" /\ deletionQueue # <<>> /\ LockFree
    /\ wfile' = Head(deletionQueue)
    /\ deletionQueue' = Tail(deletionQueue)
    /\ wpc' = "remove"
    /\ UNCHANGED <<storeVars, chanVars, diskVars, mainVars, procVars>>

WorkerReceive ==
    /\ Running /\ wpc = "receive" /\ deletionQueue # <<>>
    /\ wfile' = Head(deletionQueue)
    /\ deletionQueue' = Tail(deletionQueue)
    /\ wpc' = "remove"
    /\ UNCHANGED <<storeVars, chanVars, diskVars, mainVars, procVars>>

WorkerRemove ==
    /\ Running /\ wpc = "remove"
    /\ IF wfile \in disk
       THEN \/ /\ disk' = disk \ {wfile}
               /\ content' = [content EXCEPT ![wfile] = NoContent]
               /\ wpc' = "forget" /\ UNCHANGED wfile
            \/ /\ DiskFaults /\ UNCHANGED diskVars
               /\ wpc' = "receive" /\ wfile' = NoFile
       ELSE /\ UNCHANGED diskVars                   \* os.IsNotExist
            /\ wpc' = "receive" /\ wfile' = NoFile
    /\ UNCHANGED <<storeVars, deletionQueue, chanVars, mainVars, procVars>>

RemoveFileReferences ==
    /\ Running /\ wpc = "forget" /\ LockFree
    /\ tracked' = tracked \ {wfile}
    /\ loadingInProgress' = loadingInProgress \ {wfile}
    /\ liveReferences' = [liveReferences EXCEPT ![wfile] = 0]
    /\ wpc' = "receive" /\ wfile' = NoFile
    /\ UNCHANGED <<values, globalLastUpdated, deletionQueue, chanVars,
                   diskVars, mainVars, procVars>>

-----------------------------------------------------------------------------
(* Subscriptions.  A subscriber's goroutine takes from its channel. *)

\* Subscribe and RegexSubscribe, which differ in how they match a key.
Subscribe(c) ==
    /\ phase = "serving" /\ LockFree
    /\ c \in ValueChans \ subscribed
    /\ subscribed' = subscribed \cup {c}
    /\ UNCHANGED <<storeVars, deletionQueue, chan, globalChan, diskVars,
                   mainVars, procVars, workerVars>>

GlobalSubscribe(c) ==
    /\ phase = "serving" /\ LockFree
    /\ c \in GlobalChans \ subscribed
    /\ subscribed' = subscribed \cup {c}
    /\ UNCHANGED <<storeVars, deletionQueue, chan, globalChan, diskVars,
                   mainVars, procVars, workerVars>>

Receive(c) ==
    /\ Running /\ chan[c] # <<>>
    /\ chan' = [chan EXCEPT ![c] = Tail(@)]
    /\ UNCHANGED <<storeVars, deletionQueue, subscribed, globalChan, diskVars,
                   mainVars, procVars, workerVars>>

GlobalReceive(c) ==
    /\ Running /\ globalChan[c] # <<>>
    /\ globalChan' = [globalChan EXCEPT ![c] = Tail(@)]
    /\ UNCHANGED <<storeVars, deletionQueue, subscribed, chan, diskVars,
                   mainVars, procVars, workerVars>>

-----------------------------------------------------------------------------
\* The process dies at any point, or has exited, and is started again: only
\* the directory survives.
Restart ==
    /\ Crashes
    /\ UNCHANGED diskVars
    /\ values' = [k \in Keys |-> NoValue]
    /\ globalLastUpdated' = ZeroTime
    /\ tracked' = {}
    /\ loadingInProgress' = {}
    /\ liveReferences' = [f \in Files |-> 0]
    /\ deletionQueue' = <<>>
    /\ subscribed' = {}
    /\ chan' = [c \in ValueChans |-> <<>>]
    /\ globalChan' = [c \in GlobalChans |-> <<>>]
    /\ wpc' = "receive"
    /\ wfile' = NoFile
    /\ phase' = "loading"
    /\ toLoad' = Listed(disk, content)
    /\ pc' = [p \in Procs |-> "idle"]
    /\ cur' = [p \in Procs |-> NoFile]
    /\ msg' = [p \in Procs |-> NoContent]
    /\ idx' = [p \in Procs |-> 0]

Step(p) ==
    \/ WriteProto(p)
    \/ StartLoading(p)
    \/ UpdateStale(p) \/ UpdateStore(p) \/ UpdateBlock(p) \/ UpdateResume(p)
    \/ EndLoading(p)
    \/ Enqueue(p)

Load == LoadNext \/ LoadDone

Worker == WorkerReceive \/ WorkerRemove \/ RemoveFileReferences

Next ==
    \/ \E p \in Procs, m \in Messages, f \in Files : OpenProto(p, m, f)
    \/ \E p \in Procs : Step(p)
    \/ Load
    \/ Worker
    \/ \E c \in ValueChans : Subscribe(c) \/ Receive(c)
    \/ \E c \in GlobalChans : GlobalSubscribe(c) \/ GlobalReceive(c)
    \/ Restart

Spec == Init /\ [][Next]_vars

\* Goroutines run: each process, the startup code, the worker and each
\* subscriber makes progress when it can.  A process that waits for the lock
\* or for room in deletionQueue is not overtaken for ever, because Go's
\* mutexes and channels serve their waiters in order; hence strong fairness.
\* No message has to arrive and nobody has to subscribe.
Fairness ==
    /\ \A p \in Procs : SF_vars(Step(p))
    /\ WF_vars(Load)
    /\ WF_vars(Worker)
    /\ \A c \in ValueChans : WF_vars(Receive(c))
    /\ \A c \in GlobalChans : WF_vars(GlobalReceive(c))

FairSpec == Spec /\ Fairness

-----------------------------------------------------------------------------
(* Properties *)

\* Every variable has the type its Go counterpart has.
TypeOK ==
    /\ values \in [Keys -> TimestampedValue]
    /\ globalLastUpdated \in Times \cup {ZeroTime}
    /\ tracked \subseteq Files
    /\ loadingInProgress \subseteq tracked
    /\ liveReferences \in [Files -> Int]
    /\ deletionQueue \in Seq(Files) /\ Len(deletionQueue) <= QueueCap
    /\ subscribed \subseteq ValueChans \cup GlobalChans
    /\ chan \in [ValueChans -> Seq(Keys \X TimestampedValue)]
    /\ globalChan \in [GlobalChans -> Seq(Times)]
    /\ disk \subseteq Files
    /\ content \in [Files -> Content]
    /\ phase \in {"loading", "serving", "exited"}
    /\ toLoad \subseteq Files
    /\ pc \in [Procs -> {"idle", "write", "start", "update", "blocked",
                         "enqueue"}]
    /\ cur \in [Procs -> Files \cup {NoFile}]
    /\ msg \in [Procs -> Content]
    /\ idx \in [Procs -> Nat]
    /\ wpc \in {"receive", "remove", "forget"}
    /\ wfile \in Files \cup {NoFile}

\* Update has already let go of the value of k and waits to replace it.
BeingReplaced(k) == \E p \in Procs : pc[p] = "blocked" /\ Setting(p) = k

\* The keys whose value keeps f alive.
Referrers(f) == {k \in Keys : values[k].sourceFile = f /\ ~BeingReplaced(k)}

\* The files on their way to os.Remove.
Doomed ==
    {deletionQueue[i] : i \in DOMAIN deletionQueue}
      \cup ({wfile} \ {NoFile})
      \cup {cur[p] : p \in {q \in Procs : pc[q] = "enqueue"}}

\* sourceFileUsage counts, for every file, exactly the values that came from
\* it, through any interleaving of the handlers, the replay and the worker.
RefCountExact ==
    \A f \in Files : liveReferences[f] = Cardinality(Referrers(f))

\* A file that holds a current value is never queued, taken or removed by the
\* deletion worker, and its statistics are never dropped (Update would then
\* dereference nil).
LiveFileKept ==
    \A k \in Keys : Present(k) =>
        /\ values[k].sourceFile \in tracked \ Doomed
        /\ ~DiskFaults => values[k].sourceFile \in disk

\* A file is on its way to os.Remove at most once, whether Update or
\* EndLoading found it unreferenced.
QueuedOnce ==
    /\ \A i, j \in DOMAIN deletionQueue :
          deletionQueue[i] = deletionQueue[j] => i = j
    /\ \A i \in DOMAIN deletionQueue : deletionQueue[i] # wfile
    /\ \A p \in Procs : pc[p] = "enqueue" =>
          /\ cur[p] # wfile
          /\ \A i \in DOMAIN deletionQueue : deletionQueue[i] # cur[p]

\* Nobody is going to apply f any more.
Settled(f) == \A p \in Procs : cur[p] = f => pc[p] = "enqueue"

\* While serving, also after a restart, the map is at least as recent as
\* every replayable file on disk: the files that the worker removed before
\* the replay reached them, or that were written out of order, are not missed.
Recovered ==
    phase = "serving" =>
        \A f \in disk : content[f].loadable /\ Settled(f) =>
            \A i \in DOMAIN content[f].keys :
                values[content[f].keys[i]].lastUpdated >= content[f].ts

\* The files the replay has listed and not yet read stay on disk while the
\* worker, which already runs, removes the ones the replay found superseded:
\* runServe never gives up on a file that has gone.
ListedFilesStay == phase = "loading" => toLoad \subseteq disk

\* A file that is not referenced any more is removed in the end.
GarbageCollected ==
    \A f \in Files :
        (f \in disk /\ Settled(f) /\ Referrers(f) = {}) ~> f \notin disk

\* A handler gets to the end of the packet it is at: the buffer of
\* deletionQueue keeps an Update from waiting for ever with the lock held,
\* against a worker that waits for the lock ("Buffered channel to avoid
\* blocking").
HandlersFinish == \A p \in Procs : pc[p] # "idle" ~> pc[p] = "idle"

\* The values that wait in a subscriber's channel bring a setting forward in
\* time, up to the value the map holds, in whatever order the messages of the
\* handlers are applied; and the times that wait in a channel of
\* GlobalSubscribe rise up to the latest of all.
NotificationsInOrder ==
    /\ \A c \in ValueChans : \A i, j \in DOMAIN chan[c] :
          chan[c][i][1] = chan[c][j][1] /\ i <= j =>
              /\ chan[c][i][2].lastUpdated <= chan[c][j][2].lastUpdated
              /\ chan[c][j][2].lastUpdated
                    <= values[chan[c][j][1]].lastUpdated
    /\ \A c \in GlobalChans : \A i, j \in DOMAIN globalChan[c] :
          /\ i < j => globalChan[c][i] < globalChan[c][j]
          /\ globalChan[c][i] <= globalLastUpdated

-----------------------------------------------------------------------------
(* The store implements DurableMap: a setting is known to the storage at   *)
(* the times of the files that carry it, and to the process at the time of *)
(* its value.                                                              *)

Carries(f, k) == \E i \in DOMAIN content[f].keys : content[f].keys[i] = k

DM == INSTANCE DurableMap WITH
    durable <- {kt \in Keys \X Times :
                  \E f \in disk : Carries(f, kt[1]) /\ kt[2] <= content[f].ts},
    view <- {kt \in Keys \X Times : kt[2] <= values[kt[1]].lastUpdated},
    up <- phase = "serving"

\* Nothing that was saved is ever lost: removing files, in whatever order the
\* handlers and the worker interleave, and restarting at any point leave what
\* the directory knows as it is, and the replay brings the map up to it.  Only
\* a full write of a payload that decodes, to a topic that is replayed, counts
\* (DiskFaults is FALSE and every message is ok and loadable).
ImplementsDurableMap == DM!Spec

-----------------------------------------------------------------------------
(* The inductive invariant behind TypeOK, RefCountExact and LiveFileKept.  *)

Busy(p) == pc[p] \in {"write", "start", "update", "blocked", "enqueue"}
Opening(p) == pc[p] \in {"write", "start"}
Active(p) == pc[p] \in {"update", "blocked"}

\* Where a process is tells what its registers hold.
ControlOK ==
    /\ \A p \in Procs : Busy(p) => cur[p] \in Files
    /\ \A p \in Procs : Active(p) => idx[p] # 0
    /\ wpc # "receive" => wfile \in Files

\* One process at most waits with the lock held, at a setting of its message
\* that has a value to replace.
BlockedOK ==
    \A p \in Procs : pc[p] = "blocked" =>
        /\ idx[p] \in DOMAIN msg[p].keys
        /\ Present(Setting(p))
        /\ \A q \in Procs : pc[q] = "blocked" => q = p

TypeInv == TypeOK /\ ControlOK /\ BlockedOK

Refers(f) == \E k \in Keys : values[k].sourceFile = f

\* Update never finds sourceFileUsage without the file of a value.
FilesTracked == \A k \in Keys : Present(k) => values[k].sourceFile \in tracked

\* A file on its way to os.Remove has no use left and gets none.
DoomedUnused == \A f \in Doomed : f \notin loadingInProgress /\ ~Refers(f)

\* A file is protected from StartLoading to EndLoading...
ActiveLoading == \A p \in Procs : Active(p) => cur[p] \in loadingInProgress

\* ... and is new until then.
OpeningFresh ==
    \A p \in Procs : Opening(p) => cur[p] \notin Doomed /\ ~Refers(cur[p])

CurDistinct ==
    \A p, q \in Procs : Busy(p) /\ Busy(q) /\ cur[p] = cur[q] => p = q

\* The replay reaches every file before anybody uses it.
ToLoadFresh ==
    /\ \A f \in toLoad :
          /\ f \notin tracked \cup Doomed
          /\ \A p \in Procs : Busy(p) => cur[p] # f
    /\ phase = "serving" => toLoad = {}

\* The file that a waiting Update is about to queue is not used otherwise.
BlockedUnused ==
    \A p \in Procs : pc[p] = "blocked" =>
        /\ liveReferences[values[Setting(p)].sourceFile] = 0
        /\ values[Setting(p)].sourceFile \notin loadingInProgress

\* What a value or a process in addAllConfigSettings uses is on the disk.
UsedOnDisk ==
    ~DiskFaults =>
        /\ \A k \in Keys : Present(k) => values[k].sourceFile \in disk
        /\ \A p \in Procs : Opening(p) \/ Active(p) => cur[p] \in disk

RefInv ==
    /\ RefCountExact
    /\ FilesTracked
    /\ DoomedUnused
    /\ ActiveLoading
    /\ OpeningFresh
    /\ CurDistinct
    /\ ToLoadFresh
    /\ BlockedUnused
    /\ UsedOnDisk

-----------------------------------------------------------------------------
(* The invariant behind NotificationsInOrder: values only become newer.    *)

AbsentIsNoValue == \A k \in Keys : ~Present(k) => values[k] = NoValue

\* A waiting Update is about to store a value that is not older.
BlockedNotStale ==
    \A p \in Procs : pc[p] = "blocked" =>
        values[Setting(p)].lastUpdated <= msg[p].ts

OrderInv == AbsentIsNoValue /\ BlockedNotStale /\ NotificationsInOrder

-----------------------------------------------------------------------------
(* The invariant behind Recovered, whatever the disk and the payloads.     *)

\* The map is as recent as f.
Covered(f) ==
    \A i \in DOMAIN content[f].keys :
        values[content[f].keys[i]].lastUpdated >= content[f].ts

\* Somebody has yet to apply f, or is at it.
Held(f) == \E p \in Procs : (Opening(p) \/ Active(p)) /\ cur[p] = f

\* What has been replayed or applied is in the map.
AppliedCovered ==
    \A f \in disk \ toLoad : content[f].loadable /\ ~Held(f) => Covered(f)

\* What a process has applied so far is in the map.
SettingsCovered ==
    \A p \in Procs : Active(p) =>
        \A i \in DOMAIN msg[p].keys :
            i < idx[p] => values[msg[p].keys[i]].lastUpdated >= msg[p].ts

\* A file holds no more than what is applied, if it could be created at all.
PartOfMessage ==
    \A p \in Procs : (pc[p] = "start" \/ Active(p)) /\ cur[p] \in disk =>
        /\ content[cur[p]].ts = msg[p].ts
        /\ \A i \in DOMAIN content[cur[p]].keys :
              /\ i \in DOMAIN msg[p].keys
              /\ content[cur[p]].keys[i] = msg[p].keys[i]

\* Handlers do nothing before the replay is over.
HandlersWait ==
    /\ phase # "serving" => \A p \in Procs \ {Main} : pc[p] = "idle"
    /\ pc[Main] # "write"

RecInv == AppliedCovered /\ SettingsCovered /\ PartOfMessage /\ HandlersWait

-----------------------------------------------------------------------------
(* The invariant behind ImplementsDurableMap.  It speaks of a disk without *)
(* faults and of payloads that decode and are replayed.                    *)

CleanRun == ~DiskFaults /\ \A m \in Messages : m.ok /\ m.loadable

\* Everything on the disk is replayed at the next start.
DiskReplayable == \A f \in disk : content[f].ok /\ content[f].loadable

\* A value is what its file says.
ValueCarried ==
    \A k \in Keys :
        IF Present(k)
        THEN /\ Carries(values[k].sourceFile, k)
             /\ content[values[k].sourceFile].ts = values[k].lastUpdated
        ELSE values[k].lastUpdated = ZeroTime

\* A process applies what its file holds, or is about to hold.
FileOfMessage ==
    \A p \in Procs :
        /\ pc[p] = "write" => /\ content[cur[p]].keys = <<>>
                              /\ msg[p] \in Messages
        /\ pc[p] = "start" \/ Active(p) => content[cur[p]] = msg[p]

DurInv == DiskReplayable /\ ValueCarried /\ FileOfMessage

=============================================================================
