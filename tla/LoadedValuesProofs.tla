-------------------------- MODULE LoadedValuesProofs --------------------------
(***************************************************************************)
(* LoadedValues, for every set of settings, files, payloads and handlers   *)
(* and for every capacity: its types, the order of what its subscribers    *)
(* are told, and, with and without disk faults and restarts, that its      *)
(* reference counts are exact, that no file in use is ever removed, and    *)
(* that a file is queued for removal once.                                 *)
(***************************************************************************)
EXTENDS LoadedValues, FiniteSetTheorems, TLAPS

\* The message and the file a process starts with are well typed, and every
\* variable keeps its type.
LEMMA TypeInit == Init => TypeOK
  <1> USE FilesAssumption, TimesAssumption, QueueAssumption, ProcsAssumption
  <1>1. NoContent \in Content
    BY DEF NoContent, Content
  <1> QED
    BY <1>1 DEF Init, TypeOK, Listed, NoFile, ZeroTime, NoValue,
                TimestampedValue, NoContent

\* What os.WriteFile may leave on the disk has the type of a payload.
LEMMA CreatedType ==
  ASSUME NEW m \in Content
  PROVE  Created(m) \in Content
  <1>1. <<>> \in Seq(Keys)
    OBVIOUS
  <1> QED
    BY <1>1, TimesAssumption DEF Content, Created

LEMMA TornType ==
  ASSUME NEW m \in Content, NEW n \in 0 .. Len(m.keys), NEW clean \in BOOLEAN
  PROVE  Torn(m, n, clean) \in Content
  <1>1. SubSeq(m.keys, 1, n) \in Seq(Keys)
    BY DEF Content
  <1> QED
    BY <1>1 DEF Content, Torn

\* A setting a process is at is a key, and its time is a time.
LEMMA SettingType ==
  ASSUME TypeOK, NEW p \in Procs, idx[p] \in DOMAIN msg[p].keys
  PROVE  Setting(p) \in Keys /\ msg[p].ts \in Times
  BY DEF TypeOK, Setting, Content

\* An offer to a channel keeps the type of what it holds.
LEMMA OfferType ==
  ASSUME NEW S, NEW q \in Seq(S), NEW v \in S
  PROVE  Offer(q, v) \in Seq(S)
  BY DEF Offer

LEMMA TouchType ==
  ASSUME TypeOK, NEW ts \in Times, Touch(ts)
  PROVE  /\ globalLastUpdated' \in Times \cup {ZeroTime}
         /\ globalChan' \in [GlobalChans -> Seq(Times)]
  <1>1. ASSUME NEW c \in GlobalChans
        PROVE  /\ globalChan[c] \in Seq(Times)
               /\ Offer(globalChan[c], ts) \in Seq(Times)
    BY OfferType DEF TypeOK
  <1>2. CASE ts > globalLastUpdated
    BY <1>1, <1>2, Zenon DEF TypeOK, Touch
  <1>3. CASE ~(ts > globalLastUpdated)
    BY <1>3 DEF TypeOK, Touch
  <1> QED
    BY <1>2, <1>3

LEMMA NotifyType ==
  ASSUME TypeOK, NEW k \in Keys, NEW tv \in TimestampedValue, Notify(k, tv)
  PROVE  chan' \in [ValueChans -> Seq(Keys \X TimestampedValue)]
  <1>1. ASSUME NEW c \in ValueChans
        PROVE  /\ chan[c] \in Seq(Keys \X TimestampedValue)
               /\ Offer(chan[c], <<k, tv>>) \in Seq(Keys \X TimestampedValue)
    BY OfferType DEF TypeOK
  <1> QED
    BY <1>1, Zenon DEF Notify

\* Storing a value keeps the types of what Update assigns.
LEMMA StoreType ==
  ASSUME TypeOK, NEW p \in Procs, cur[p] \in Files,
         idx[p] \in DOMAIN msg[p].keys,
         NEW refs \in [Files -> Int], Store(p, refs)
  PROVE  /\ values' \in [Keys -> TimestampedValue]
         /\ liveReferences' \in [Files -> Int]
         /\ chan' \in [ValueChans -> Seq(Keys \X TimestampedValue)]
  <1>1. Setting(p) \in Keys /\ msg[p].ts \in Times
    BY SettingType
  <1> DEFINE tv == [sourceFile |-> cur[p], lastUpdated |-> msg[p].ts]
  <1>2. tv \in TimestampedValue
    BY <1>1 DEF TimestampedValue
  <1>3. /\ values' = [values EXCEPT ![Setting(p)] = tv]
        /\ liveReferences' = [refs EXCEPT ![cur[p]] = @ + 1]
        /\ Notify(Setting(p), tv)
    BY DEF Store
  <1>4. values' \in [Keys -> TimestampedValue]
    BY <1>2, <1>3 DEF TypeOK
  <1>5. liveReferences' \in [Files -> Int]
    BY <1>3
  <1>6. chan' \in [ValueChans -> Seq(Keys \X TimestampedValue)]
    BY <1>1, <1>2, <1>3, NotifyType
  <1> QED
    BY <1>4, <1>5, <1>6

LEMMA ReleasedType ==
  ASSUME TypeOK, NEW k \in Keys
  PROVE  Released(k) \in [Files -> Int]
  BY DEF TypeOK, Released, Present, TimestampedValue

-----------------------------------------------------------------------------
(* Types.  They are not inductive alone: where a process is tells what its  *)
(* registers hold.                                                          *)

\* A step of another process leaves the one that waits as it is.
LEMMA BlockedFrame ==
  ASSUME BlockedOK, values' = values,
         \A q \in Procs : pc'[q] = "blocked" =>
             pc[q] = "blocked" /\ idx'[q] = idx[q] /\ msg'[q] = msg[q]
  PROVE  BlockedOK'
  BY DEF BlockedOK, Present, Setting

\* Nobody waits with the lock held while the lock is free.
LEMMA BlockedNone ==
  ASSUME \A q \in Procs : pc'[q] # "blocked"
  PROVE  BlockedOK'
  BY DEF BlockedOK

LEMMA TypeOpenProto ==
  ASSUME TypeInv, NEW p \in Procs, NEW m \in Messages, NEW f \in Files,
         OpenProto(p, m, f)
  PROVE  TypeInv'
  <1>1. m \in Content /\ Created(m) \in Content
    BY MessagesAssumption, CreatedType
  <1>2. TypeOK'
    <2>1. cur' \in [Procs -> Files \cup {NoFile}] /\ msg' \in [Procs -> Content]
      BY <1>1 DEF TypeInv, TypeOK, OpenProto
    <2>2. /\ pc' \in [Procs -> {"idle", "write", "start", "update", "blocked",
                                "enqueue"}]
          /\ disk' \subseteq Files
          /\ content' \in [Files -> Content]
      <3>1. CASE /\ disk' = disk \cup {f}
                 /\ content' = [content EXCEPT ![f] = Created(m)]
                 /\ pc' = [pc EXCEPT ![p] = "write"]
        BY <1>1, <3>1 DEF TypeInv, TypeOK
      <3>2. CASE UNCHANGED diskVars /\ pc' = [pc EXCEPT ![p] = "start"]
        BY <3>2 DEF TypeInv, TypeOK, diskVars
      <3> QED
        BY <3>1, <3>2 DEF OpenProto
    <2>3. UNCHANGED <<storeVars, deletionQueue, chanVars, mainVars, idx,
                      workerVars>>
      BY DEF OpenProto
    <2> QED
      BY <2>1, <2>2, <2>3 DEF TypeInv, TypeOK, storeVars, chanVars, mainVars,
                              workerVars
  <1>3. ControlOK'
    BY DEF TypeInv, TypeOK, ControlOK, Busy, Active, OpenProto, workerVars
  <1>4. BlockedOK'
    BY BlockedFrame DEF TypeInv, TypeOK, OpenProto, storeVars
  <1> QED
    BY <1>2, <1>3, <1>4 DEF TypeInv

LEMMA TypeWriteProto ==
  ASSUME TypeInv, NEW p \in Procs, WriteProto(p)
  PROVE  TypeInv'
  <1>1. msg[p] \in Content
    BY DEF TypeInv, TypeOK
  <1>2. cur[p] \in Files
    BY DEF TypeInv, ControlOK, Busy, Active, WriteProto
  <1>3. content' \in [Files -> Content]
    <2>1. ASSUME NEW n \in 0 .. Len(msg[p].keys), NEW clean \in BOOLEAN
          PROVE  Torn(msg[p], n, clean) \in Content
      BY <1>1, <2>1, TornType
    <2>2. PICK c \in Content : content' = [content EXCEPT ![cur[p]] = c]
      <3>1. CASE content' = [content EXCEPT ![cur[p]] = msg[p]]
        BY <1>1, <3>1
      <3>2. CASE \E n \in 0 .. Len(msg[p].keys), clean \in BOOLEAN :
                    content' = [content EXCEPT
                                   ![cur[p]] = Torn(msg[p], n, clean)]
        BY <2>1, <3>2
      <3> QED
        BY <3>1, <3>2 DEF WriteProto
    <2> QED
      BY <1>2, <2>2 DEF TypeInv, TypeOK
  <1>5. TypeOK'
    BY <1>2, <1>3 DEF TypeInv, TypeOK, WriteProto, storeVars, chanVars,
                      mainVars, workerVars
  <1>4. ControlOK'
    BY <1>2 DEF TypeInv, TypeOK, ControlOK, Busy, Active, WriteProto, workerVars
  <1>6. BlockedOK'
    BY BlockedFrame DEF TypeInv, TypeOK, WriteProto, storeVars
  <1> QED
    BY <1>4, <1>5, <1>6 DEF TypeInv

LEMMA TypeLoad ==
  ASSUME TypeInv, Load
  PROVE  TypeInv'
  <1>1. CASE LoadNext
    <2>1. PICK f \in toLoad :
            IF f \in disk /\ content[f].ok
            THEN /\ toLoad' = toLoad \ {f}
                 /\ pc' = [pc EXCEPT ![Main] = "start"]
                 /\ cur' = [cur EXCEPT ![Main] = f]
                 /\ msg' = [msg EXCEPT ![Main] = content[f]]
                 /\ UNCHANGED phase
            ELSE /\ phase' = "exited"
                 /\ UNCHANGED <<toLoad, pc, cur, msg>>
      BY <1>1 DEF LoadNext
    <2>2. /\ UNCHANGED <<storeVars, deletionQueue, chanVars, diskVars, idx,
                         workerVars>>
          /\ pc[Main] = "idle"
      BY <1>1 DEF LoadNext
    <2>3. f \in Files /\ content[f] \in Content /\ Main \in Procs
      BY DEF TypeInv, TypeOK, Procs
    <2>4. TypeOK'
      BY <2>1, <2>2, <2>3 DEF TypeInv, TypeOK, storeVars, chanVars,
                              diskVars, workerVars
    <2>5. ControlOK'
      BY <2>1, <2>2, <2>3 DEF TypeInv, TypeOK, ControlOK, Busy, Active, workerVars
    <2>6. BlockedOK'
      BY <2>1, <2>2, <2>3, BlockedFrame DEF TypeInv, TypeOK, storeVars
    <2> QED
      BY <2>4, <2>5, <2>6 DEF TypeInv
  <1>2. CASE LoadDone
    <2>1. TypeOK'
      BY <1>2 DEF TypeInv, TypeOK, LoadDone, storeVars, chanVars, diskVars,
                  procVars, workerVars
    <2>2. ControlOK'
      BY <1>2 DEF TypeInv, ControlOK, Busy, Active, LoadDone, procVars, workerVars
    <2>3. BlockedOK'
      BY <1>2, BlockedFrame DEF TypeInv, LoadDone, storeVars, procVars
    <2> QED
      BY <2>1, <2>2, <2>3 DEF TypeInv
  <1> QED
    BY <1>1, <1>2 DEF Load

LEMMA TypeStartLoading ==
  ASSUME TypeInv, NEW p \in Procs, StartLoading(p)
  PROVE  TypeInv'
  <1>1. cur[p] \in Files
    BY DEF TypeInv, ControlOK, Busy, Active, StartLoading
  <1>2. TypeOK'
    BY <1>1 DEF TypeInv, TypeOK, StartLoading, chanVars, diskVars, mainVars,
                workerVars
  <1>3. ControlOK'
    BY <1>1 DEF TypeInv, TypeOK, ControlOK, Busy, Active, StartLoading, workerVars
  <1>4. BlockedOK'
    BY BlockedFrame DEF TypeInv, TypeOK, StartLoading
  <1> QED
    BY <1>2, <1>3, <1>4 DEF TypeInv

LEMMA TypeUpdate ==
  ASSUME TypeInv, NEW p \in Procs,
         UpdateStale(p) \/ UpdateStore(p) \/ UpdateBlock(p) \/ UpdateResume(p)
  PROVE  TypeInv'
  <1>1. /\ cur[p] \in Files
        /\ idx[p] \in DOMAIN msg[p].keys
    BY DEF TypeInv, TypeOK, Content, ControlOK, BlockedOK, Busy, Active, UpdateStale,
           UpdateStore, UpdateBlock, UpdateResume, AtSetting
  <1>2. Setting(p) \in Keys /\ msg[p].ts \in Times
    BY <1>1, SettingType DEF TypeInv
  <1>3. /\ Released(Setting(p)) \in [Files -> Int]
        /\ liveReferences \in [Files -> Int]
    BY <1>2, ReleasedType DEF TypeInv, TypeOK
  <1>4. Orphans(Setting(p)) => values[Setting(p)].sourceFile \in Files
    BY <1>2 DEF TypeInv, TypeOK, Orphans, Present, TimestampedValue
  <1>5. CASE UpdateStale(p)
    <2>1. /\ globalLastUpdated' \in Times \cup {ZeroTime}
          /\ globalChan' \in [GlobalChans -> Seq(Times)]
      BY <1>2, <1>5, TouchType DEF UpdateStale, TypeInv
    <2>2. TypeOK'
      BY <2>1, <1>5 DEF TypeInv, TypeOK, UpdateStale, diskVars, mainVars,
                        workerVars
    <2>3. ControlOK'
      BY <1>5 DEF TypeInv, TypeOK, ControlOK, Busy, Active, UpdateStale, AtSetting,
                  workerVars
    <2>4. BlockedOK'
      BY <1>5, BlockedFrame DEF TypeInv, TypeOK, UpdateStale, AtSetting
    <2> QED
      BY <2>2, <2>3, <2>4 DEF TypeInv
  <1>6. CASE UpdateStore(p)
    <2>1. /\ globalLastUpdated' \in Times \cup {ZeroTime}
          /\ globalChan' \in [GlobalChans -> Seq(Times)]
      BY <1>2, <1>6, TouchType DEF UpdateStore, TypeInv
    <2>2. /\ values' \in [Keys -> TimestampedValue]
          /\ liveReferences' \in [Files -> Int]
          /\ chan' \in [ValueChans -> Seq(Keys \X TimestampedValue)]
      BY <1>1, <1>3, <1>6, StoreType DEF UpdateStore, TypeInv
    <2>3. deletionQueue' \in Seq(Files) /\ Len(deletionQueue') <= QueueCap
      <3>1. CASE UNCHANGED deletionQueue
        BY <3>1 DEF TypeInv, TypeOK
      <3>2. CASE /\ Orphans(Setting(p))
                 /\ Len(deletionQueue) < QueueCap
                 /\ deletionQueue' = Append(deletionQueue,
                                            values[Setting(p)].sourceFile)
        <4>1. values[Setting(p)].sourceFile \in Files
          BY <1>4, <3>2
        <4> QED
          BY <3>2, <4>1, QueueAssumption DEF TypeInv, TypeOK
      <3> QED
        BY <1>6, <3>1, <3>2 DEF UpdateStore
    <2>4. TypeOK'
      BY <2>1, <2>2, <2>3, <1>6 DEF TypeInv, TypeOK, UpdateStore, diskVars,
                                    mainVars, workerVars
    <2>5. ControlOK'
      BY <1>6 DEF TypeInv, TypeOK, ControlOK, Busy, Active, UpdateStore, AtSetting,
                  workerVars
    <2>6. BlockedOK'
      BY <1>6, BlockedNone DEF UpdateStore, AtSetting, LockFree
    <2> QED
      BY <2>4, <2>5, <2>6 DEF TypeInv
  <1>7. CASE UpdateBlock(p)
    <2>1. /\ globalLastUpdated' \in Times \cup {ZeroTime}
          /\ globalChan' \in [GlobalChans -> Seq(Times)]
      BY <1>2, <1>7, TouchType DEF UpdateBlock, TypeInv
    <2>2. TypeOK'
      BY <2>1, <1>3, <1>7 DEF TypeInv, TypeOK, UpdateBlock, diskVars,
                              mainVars, workerVars
    <2>3. ControlOK'
      <3>1. idx[p] # 0
        <4>1. msg[p].keys \in Seq(Keys)
          BY DEF TypeInv, TypeOK, Content
        <4>2. DOMAIN msg[p].keys = 1 .. Len(msg[p].keys)
          BY <4>1
        <4> QED
          BY <1>1, <4>2
      <3>2. /\ UNCHANGED <<cur, idx, workerVars>>
            /\ pc' = [pc EXCEPT ![p] = "blocked"]
        BY <1>7 DEF UpdateBlock
      <3>3. \A q \in Procs \ {p} : pc'[q] = pc[q]
        <4>1. DOMAIN pc = Procs
          BY Zenon DEF TypeInv, TypeOK
        <4> QED
          BY <3>2, <4>1, Zenon
      <3> QED
        BY <1>1, <3>1, <3>2, <3>3 DEF TypeInv, ControlOK, Busy, Active, workerVars
    <2>4. BlockedOK'
      BY <1>1, <1>7 DEF TypeInv, TypeOK, BlockedOK, Present, Setting,
                        UpdateBlock, AtSetting, LockFree, Orphans
    <2> QED
      BY <2>2, <2>3, <2>4 DEF TypeInv
  <1>8. CASE UpdateResume(p)
    <2>1. values[Setting(p)].sourceFile \in Files
      BY <1>2, <1>8 DEF UpdateResume, TypeInv, TypeOK, BlockedOK, Present,
                        TimestampedValue
    <2>2. /\ values' \in [Keys -> TimestampedValue]
          /\ liveReferences' \in [Files -> Int]
          /\ chan' \in [ValueChans -> Seq(Keys \X TimestampedValue)]
      BY <1>1, <1>3, <1>8, StoreType DEF UpdateResume, TypeInv
    <2>3. deletionQueue' \in Seq(Files) /\ Len(deletionQueue') <= QueueCap
      BY <2>1, <1>8, QueueAssumption DEF UpdateResume, TypeInv, TypeOK
    <2>4. TypeOK'
      BY <2>2, <2>3, <1>8 DEF TypeInv, TypeOK, UpdateResume, diskVars,
                              mainVars, workerVars
    <2>5. ControlOK'
      BY <1>8 DEF TypeInv, TypeOK, ControlOK, Busy, Active, UpdateResume, workerVars
    <2>6. BlockedOK'
      BY <1>8, BlockedNone DEF TypeInv, TypeOK, BlockedOK, UpdateResume
    <2> QED
      BY <2>4, <2>5, <2>6 DEF TypeInv
  <1> QED
    BY <1>5, <1>6, <1>7, <1>8

LEMMA TypeEnd ==
  ASSUME TypeInv, NEW p \in Procs, EndLoading(p) \/ Enqueue(p)
  PROVE  TypeInv'
  <1>1. cur[p] \in Files
    BY DEF TypeInv, ControlOK, Busy, Active, EndLoading, Enqueue
  <1>2. NoContent \in Content
    BY TimesAssumption DEF NoContent, Content
  <1>3. CASE EndLoading(p)
    <2>1. TypeOK'
      <3>1. /\ pc' \in [Procs -> {"idle", "write", "start", "update",
                                  "blocked", "enqueue"}]
            /\ cur' \in [Procs -> Files \cup {NoFile}]
            /\ msg' \in [Procs -> Content]
            /\ idx' \in [Procs -> Nat]
        <4>1. CASE liveReferences[cur[p]] = 0
          BY <1>3, <4>1 DEF TypeInv, TypeOK, EndLoading
        <4>2. CASE Finish(p)
          BY <1>2, <4>2 DEF TypeInv, TypeOK, Finish
        <4> QED
          BY <1>3, <4>1, <4>2 DEF EndLoading
      <3>2. UNCHANGED <<values, globalLastUpdated, tracked, liveReferences,
                        deletionQueue, chanVars, diskVars, mainVars,
                        workerVars>>
        BY <1>3 DEF EndLoading
      <3>3. loadingInProgress' \subseteq tracked'
        BY <1>3 DEF TypeInv, TypeOK, EndLoading
      <3> QED
        BY <3>1, <3>2, <3>3 DEF TypeInv, TypeOK, chanVars, diskVars,
                                mainVars, workerVars
    <2>2. ControlOK'
      <3>1. CASE liveReferences[cur[p]] = 0
        BY <1>1, <1>3, <3>1 DEF TypeInv, TypeOK, ControlOK, Busy, Active,
                                EndLoading, workerVars
      <3>2. CASE liveReferences[cur[p]] # 0
        <4>1. Finish(p) /\ UNCHANGED workerVars
          BY <1>3, <3>2 DEF EndLoading
        <4>2. ~Busy(p)' /\ ~Active(p)'
          BY <4>1 DEF TypeInv, TypeOK, Finish, Busy, Active
        <4>3. \A q \in Procs \ {p} :
                 pc'[q] = pc[q] /\ cur'[q] = cur[q] /\ idx'[q] = idx[q]
          BY <4>1 DEF TypeInv, TypeOK, Finish
        <4> QED
          BY <4>1, <4>2, <4>3 DEF TypeInv, ControlOK, Busy, Active, workerVars
      <3> QED
        BY <3>1, <3>2
    <2>3. BlockedOK'
      BY <1>3, BlockedFrame DEF TypeInv, TypeOK, EndLoading, Finish
    <2> QED
      BY <2>1, <2>2, <2>3 DEF TypeInv
  <1>4. CASE Enqueue(p)
    <2>1. deletionQueue' \in Seq(Files) /\ Len(deletionQueue') <= QueueCap
      BY <1>1, <1>4, QueueAssumption DEF Enqueue, TypeInv, TypeOK
    <2>2. TypeOK'
      BY <1>2, <1>4, <2>1 DEF TypeInv, TypeOK, Enqueue, Finish, storeVars,
                              chanVars, diskVars, mainVars, workerVars
    <2>3. ControlOK'
      BY <1>4 DEF TypeInv, TypeOK, ControlOK, Busy, Active, Enqueue, Finish,
                  workerVars
    <2>4. BlockedOK'
      BY <1>4, BlockedFrame DEF TypeInv, TypeOK, Enqueue, Finish, storeVars
    <2> QED
      BY <2>2, <2>3, <2>4 DEF TypeInv
  <1> QED
    BY <1>3, <1>4

LEMMA TypeWorker ==
  ASSUME TypeInv, Worker
  PROVE  TypeInv'
  <1>1. CASE WorkerReceive
    <2>1. /\ wfile' \in Files
          /\ deletionQueue' \in Seq(Files)
          /\ Len(deletionQueue') <= QueueCap
      BY <1>1, QueueAssumption DEF WorkerReceive, TypeInv, TypeOK
    <2>2. TypeOK'
      BY <1>1, <2>1 DEF TypeInv, TypeOK, WorkerReceive, storeVars, chanVars,
                        diskVars, mainVars, procVars
    <2>3. ControlOK'
      BY <1>1, <2>1 DEF TypeInv, ControlOK, Busy, Active, WorkerReceive, procVars
    <2> QED
      BY <1>1, <2>2, <2>3, BlockedFrame
         DEF TypeInv, WorkerReceive, storeVars, procVars
  <1>2. CASE WorkerRemove
    <2>1. NoContent \in Content
      BY TimesAssumption DEF NoContent, Content
    <2>2. TypeOK'
      <3>1. /\ disk' \subseteq Files
            /\ content' \in [Files -> Content]
        BY <1>2, <2>1 DEF TypeInv, TypeOK, WorkerRemove, diskVars
      <3>2. /\ wpc' \in {"receive", "remove", "forget"}
            /\ wfile' \in Files \cup {NoFile}
        BY <1>2 DEF TypeInv, TypeOK, WorkerRemove
      <3>3. UNCHANGED <<storeVars, deletionQueue, chanVars, mainVars,
                        procVars>>
        BY <1>2 DEF WorkerRemove
      <3> QED
        BY <3>1, <3>2, <3>3 DEF TypeInv, TypeOK, storeVars, chanVars,
                                mainVars, procVars
    <2>3. ControlOK'
      BY <1>2 DEF TypeInv, ControlOK, Busy, Active, WorkerRemove, procVars
    <2> QED
      BY <1>2, <2>2, <2>3, BlockedFrame
         DEF TypeInv, WorkerRemove, storeVars, procVars
  <1>3. CASE RemoveFileReferences
    <2>1. TypeOK'
      <3>1. /\ tracked' \subseteq Files
            /\ loadingInProgress' \subseteq tracked'
            /\ liveReferences' \in [Files -> Int]
        <4>1. /\ tracked' = tracked \ {wfile}
              /\ loadingInProgress' = loadingInProgress \ {wfile}
              /\ liveReferences' = [liveReferences EXCEPT ![wfile] = 0]
          BY <1>3 DEF RemoveFileReferences
        <4>2. tracked' \subseteq Files /\ loadingInProgress' \subseteq tracked'
          BY <4>1 DEF TypeInv, TypeOK
        <4>3. liveReferences \in [Files -> Int]
          BY DEF TypeInv, TypeOK
        <4>4. liveReferences' \in [Files -> Int]
          <5>1. 0 \in Int
            OBVIOUS
          <5> QED
            BY <4>1, <4>3, <5>1, Zenon
        <4> QED
          BY <4>2, <4>4
      <3>2. wpc' = "receive" /\ wfile' = NoFile
        BY <1>3 DEF RemoveFileReferences
      <3>3. UNCHANGED <<values, globalLastUpdated, deletionQueue, chanVars,
                        diskVars, mainVars, procVars>>
        BY <1>3 DEF RemoveFileReferences
      <3> QED
        BY <3>1, <3>2, <3>3 DEF TypeInv, TypeOK, chanVars, diskVars,
                                mainVars, procVars
    <2>2. ControlOK'
      BY <1>3 DEF TypeInv, ControlOK, Busy, Active, RemoveFileReferences, procVars
    <2> QED
      BY <1>3, <2>1, <2>2, BlockedFrame
         DEF TypeInv, RemoveFileReferences, procVars
  <1> QED
    BY <1>1, <1>2, <1>3 DEF Worker

Subscriber ==
    \/ \E c \in ValueChans : Subscribe(c) \/ Receive(c)
    \/ \E c \in GlobalChans : GlobalSubscribe(c) \/ GlobalReceive(c)

\* Subscribers touch nothing but the channels.
LEMMA SubscriberFrame ==
  ASSUME Subscriber
  PROVE  UNCHANGED <<storeVars, deletionQueue, diskVars, mainVars, procVars,
                     workerVars>>
  BY DEF Subscriber, Subscribe, GlobalSubscribe, Receive, GlobalReceive

LEMMA TypeSubscriber ==
  ASSUME TypeInv, Subscriber
  PROVE  TypeInv'
  <1> DEFINE Typed ==
        /\ subscribed' \subseteq ValueChans \cup GlobalChans
        /\ chan' \in [ValueChans -> Seq(Keys \X TimestampedValue)]
        /\ globalChan' \in [GlobalChans -> Seq(Times)]
  <1>1. Typed
    <2>1. CASE \E c \in ValueChans \cup GlobalChans :
                  Subscribe(c) \/ GlobalSubscribe(c)
      <3>1. /\ subscribed' \subseteq ValueChans \cup GlobalChans
            /\ UNCHANGED <<chan, globalChan>>
        BY <2>1 DEF TypeInv, TypeOK, Subscribe, GlobalSubscribe
      <3> QED
        BY <3>1 DEF TypeInv, TypeOK
    <2>2. ASSUME NEW c \in ValueChans, Receive(c)
          PROVE  Typed
      <3>1. Tail(chan[c]) \in Seq(Keys \X TimestampedValue)
        BY <2>2 DEF TypeInv, TypeOK, Receive
      <3> QED
        BY <2>2, <3>1 DEF TypeInv, TypeOK, Receive
    <2>3. ASSUME NEW c \in GlobalChans, GlobalReceive(c)
          PROVE  Typed
      <3>1. Tail(globalChan[c]) \in Seq(Times)
        BY <2>3 DEF TypeInv, TypeOK, GlobalReceive
      <3> QED
        BY <2>3, <3>1 DEF TypeInv, TypeOK, GlobalReceive
    <2> QED
      BY <2>1, <2>2, <2>3 DEF Subscriber
  <1>2. TypeOK'
    BY <1>1, SubscriberFrame DEF TypeInv, TypeOK, storeVars, diskVars,
                                 mainVars, procVars, workerVars
  <1>3. ControlOK'
    BY SubscriberFrame DEF TypeInv, ControlOK, Busy, Active, procVars, workerVars
  <1>4. BlockedOK'
    BY SubscriberFrame, BlockedFrame DEF TypeInv, storeVars, procVars
  <1> QED
    BY <1>2, <1>3, <1>4 DEF TypeInv

LEMMA TypeRestart ==
  ASSUME TypeInv, Restart
  PROVE  TypeInv'
  <1>1. NoContent \in Content /\ NoValue \in TimestampedValue
    BY TimesAssumption DEF NoContent, Content, NoValue, TimestampedValue
  <1>2. toLoad' \subseteq Files
    BY DEF TypeInv, TypeOK, Restart, Listed
  <1>3. TypeOK'
    BY <1>1, <1>2, QueueAssumption DEF TypeInv, TypeOK, Restart, diskVars
  <1>4. ControlOK'
    BY DEF ControlOK, Busy, Active, Restart
  <1>5. BlockedOK'
    BY BlockedNone DEF Restart
  <1> QED
    BY <1>3, <1>4, <1>5 DEF TypeInv

LEMMA TypeStep ==
  ASSUME TypeInv, [Next]_vars
  PROVE  TypeInv'
  <1>1. ASSUME NEW p \in Procs, NEW m \in Messages, NEW f \in Files,
               OpenProto(p, m, f)
        PROVE  TypeInv'
    BY <1>1, TypeOpenProto
  <1>2. ASSUME NEW p \in Procs, Step(p)
        PROVE  TypeInv'
    BY <1>2, TypeWriteProto, TypeStartLoading, TypeUpdate, TypeEnd DEF Step
  <1>3. CASE Load
    BY <1>3, TypeLoad
  <1>4. CASE Worker
    BY <1>4, TypeWorker
  <1>5. CASE Subscriber
    BY <1>5, TypeSubscriber
  <1>6. CASE Restart
    BY <1>6, TypeRestart
  <1>7. CASE UNCHANGED vars
    BY <1>7 DEF vars, storeVars, chanVars, diskVars, mainVars, procVars,
                workerVars, TypeInv, TypeOK, ControlOK, BlockedOK, Busy, Active,
                Present, Setting
  <1> QED
    BY <1>1, <1>2, <1>3, <1>4, <1>5, <1>6, <1>7 DEF Next, Subscriber

LEMMA TypeInvInit == Init => TypeInv
  <1> SUFFICES ASSUME Init PROVE TypeInv
    OBVIOUS
  <1>1. TypeOK
    BY TypeInit
  <1>2. ControlOK
    BY DEF Init, ControlOK, Busy, Active
  <1>3. BlockedOK
    BY DEF Init, BlockedOK
  <1> QED
    BY <1>1, <1>2, <1>3 DEF TypeInv

LEMMA TypeInvariant == Spec => []TypeInv
  <1>1. Init => TypeInv
    BY TypeInvInit
  <1>2. TypeInv /\ [Next]_vars => TypeInv'
    BY TypeStep
  <1> QED
    BY <1>1, <1>2, PTL DEF Spec

\* Every variable of the store, the directory, the channels and the processes
\* has the type of its Go counterpart in every reachable state.
THEOREM TypeCorrect == Spec => []TypeOK
  <1>1. TypeInv => TypeOK
    BY DEF TypeInv
  <1> QED
    BY <1>1, TypeInvariant, PTL

-----------------------------------------------------------------------------
(* What subscribers are told.  A step of the store either leaves the values *)
(* as they are, or renews one and offers it to the channels.               *)

\* Everything but subscriptions and restarts.
StoreOnly ==
    \/ \E p \in Procs, m \in Messages, f \in Files : OpenProto(p, m, f)
    \/ \E p \in Procs : Step(p)
    \/ Load
    \/ Worker

\* A value that is not older takes the place of k's, and is announced.
Renew(k, tv) ==
    /\ tv \in TimestampedValue /\ tv.sourceFile # NoFile
    /\ values[k].lastUpdated <= tv.lastUpdated
    /\ values' = [values EXCEPT ![k] = tv]
    /\ Notify(k, tv)

ValuesKept == UNCHANGED <<values, chan>>
TimeKept == UNCHANGED <<globalLastUpdated, globalChan>>

\* Times are numbers.
LEMMA ValueTime == \A tv \in TimestampedValue : tv.lastUpdated \in Int
  <1>1. Times \cup {ZeroTime} \subseteq Int
    BY TimesAssumption DEF ZeroTime
  <1> QED
    BY <1>1 DEF TimestampedValue

LEMMA TimeTypes ==
  ASSUME TypeOK
  PROVE  /\ \A k \in Keys : values[k].lastUpdated \in Int
         /\ \A c \in ValueChans : \A i \in DOMAIN chan[c] :
               /\ chan[c][i] \in Keys \X TimestampedValue
               /\ chan[c][i][1] \in Keys
               /\ chan[c][i][2] \in TimestampedValue
               /\ chan[c][i][2].lastUpdated \in Int
         /\ \A c \in GlobalChans : \A i \in DOMAIN globalChan[c] :
               globalChan[c][i] \in Times /\ globalChan[c][i] \in Int
         /\ globalLastUpdated \in Int
  <1>1. Times \cup {ZeroTime} \subseteq Int
    BY TimesAssumption DEF ZeroTime
  <1>2. \A tv \in TimestampedValue : tv.lastUpdated \in Int
    BY ValueTime
  <1>3. ASSUME NEW c \in ValueChans, NEW i \in DOMAIN chan[c]
        PROVE  chan[c][i] \in Keys \X TimestampedValue
    <2>1. chan[c] \in Seq(Keys \X TimestampedValue)
      BY DEF TypeOK
    <2> QED
      BY <2>1
  <1>4. ASSUME NEW c \in GlobalChans, NEW i \in DOMAIN globalChan[c]
        PROVE  globalChan[c][i] \in Times
    <2>1. globalChan[c] \in Seq(Times)
      BY DEF TypeOK
    <2> QED
      BY <2>1
  <1> QED
    BY <1>1, <1>2, <1>3, <1>4 DEF TypeOK

\* An Update that stores, at once or after it has waited, does not take the
\* setting back in time.
LEMMA StoreRenews ==
  ASSUME TypeInv, AbsentIsNoValue, BlockedNotStale, NEW p \in Procs,
         UpdateStore(p) \/ UpdateResume(p)
  PROVE  Setting(p) \in Keys /\ \E tv \in TimestampedValue : Renew(Setting(p), tv)
  <1> DEFINE tv == [sourceFile |-> cur[p], lastUpdated |-> msg[p].ts]
  <1>1. /\ cur[p] \in Files
        /\ idx[p] \in DOMAIN msg[p].keys
    BY DEF TypeInv, TypeOK, Content, ControlOK, BlockedOK, Busy, Active,
           UpdateStore, UpdateResume, AtSetting
  <1>2. Setting(p) \in Keys /\ msg[p].ts \in Times
    BY <1>1, SettingType DEF TypeInv
  <1>3. tv \in TimestampedValue /\ tv.sourceFile # NoFile
    BY <1>1, <1>2, FilesAssumption DEF TimestampedValue
  <1>4. values[Setting(p)].lastUpdated <= msg[p].ts
    <2>1. values[Setting(p)].lastUpdated \in Int /\ msg[p].ts \in Nat
      BY <1>2, TimeTypes, TimesAssumption DEF TypeInv
    <2>2. CASE UpdateStore(p) /\ Present(Setting(p))
      BY <2>1, <2>2 DEF UpdateStore, Stale
    <2>3. CASE UpdateStore(p) /\ ~Present(Setting(p))
      BY <1>2, <2>1, <2>3 DEF AbsentIsNoValue, NoValue, ZeroTime
    <2>4. CASE UpdateResume(p)
      BY <2>4 DEF UpdateResume, BlockedNotStale
    <2> QED
      BY <2>2, <2>3, <2>4
  <1>5. values' = [values EXCEPT ![Setting(p)] = tv] /\ Notify(Setting(p), tv)
    BY DEF UpdateStore, UpdateResume, Store
  <1>6. Renew(Setting(p), tv)
    BY <1>3, <1>4, <1>5 DEF Renew
  <1> QED
    BY <1>2, <1>3, <1>6

\* What a step of the store does to the channels and to what they tell of.
LEMMA StoreEffect ==
  ASSUME TypeInv, AbsentIsNoValue, BlockedNotStale, StoreOnly
  PROVE  /\ subscribed' = subscribed
         /\ \/ ValuesKept
            \/ \E k \in Keys, tv \in TimestampedValue : Renew(k, tv)
         /\ \/ TimeKept
            \/ \E ts \in Times : Touch(ts)
  <1>1. CASE \E p \in Procs : UpdateStore(p) \/ UpdateResume(p)
    <2>1. PICK p \in Procs : UpdateStore(p) \/ UpdateResume(p)
      BY <1>1
    <2>2. \E k \in Keys, tv \in TimestampedValue : Renew(k, tv)
      BY <2>1, StoreRenews
    <2>3. UpdateStore(p) => Touch(msg[p].ts) /\ subscribed' = subscribed
      BY DEF UpdateStore
    <2>4. UpdateResume(p) => TimeKept /\ subscribed' = subscribed
      BY DEF UpdateResume, TimeKept
    <2>5. msg[p].ts \in Times
      BY DEF TypeInv, TypeOK, Content
    <2> QED
      BY <2>1, <2>2, <2>3, <2>4, <2>5
  <1>2. CASE \E p \in Procs : UpdateStale(p) \/ UpdateBlock(p)
    <2>1. PICK p \in Procs : UpdateStale(p) \/ UpdateBlock(p)
      BY <1>2
    <2>2. Touch(msg[p].ts) /\ subscribed' = subscribed /\ ValuesKept
      BY <2>1 DEF UpdateStale, UpdateBlock, ValuesKept
    <2>3. msg[p].ts \in Times
      BY DEF TypeInv, TypeOK, Content
    <2> QED
      BY <2>2, <2>3
  <1>3. CASE \E p \in Procs :
               WriteProto(p) \/ StartLoading(p) \/ EndLoading(p) \/ Enqueue(p)
    BY <1>3 DEF WriteProto, StartLoading, EndLoading, Enqueue, storeVars,
                chanVars, ValuesKept, TimeKept
  <1>4. CASE \E p \in Procs, m \in Messages, f \in Files : OpenProto(p, m, f)
    BY <1>4 DEF OpenProto, storeVars, chanVars, ValuesKept, TimeKept
  <1>5. CASE Load
    BY <1>5 DEF Load, LoadNext, LoadDone, storeVars, chanVars, ValuesKept,
                TimeKept
  <1>6. CASE Worker
    BY <1>6 DEF Worker, WorkerReceive, WorkerRemove, RemoveFileReferences,
                storeVars, chanVars, ValuesKept, TimeKept
  <1> QED
    BY <1>1, <1>2, <1>3, <1>4, <1>5, <1>6 DEF StoreOnly, Step

-----------------------------------------------------------------------------
(* The order of what a channel has. *)

\* The two halves of NotificationsInOrder.
ValuesInOrder ==
    \A c \in ValueChans : \A i, j \in DOMAIN chan[c] :
        chan[c][i][1] = chan[c][j][1] /\ i <= j =>
            /\ chan[c][i][2].lastUpdated <= chan[c][j][2].lastUpdated
            /\ chan[c][j][2].lastUpdated <= values[chan[c][j][1]].lastUpdated

TimesInOrder ==
    \A c \in GlobalChans : \A i, j \in DOMAIN globalChan[c] :
        /\ i < j => globalChan[c][i] < globalChan[c][j]
        /\ globalChan[c][i] <= globalLastUpdated

LEMMA OrderHalves == NotificationsInOrder <=> ValuesInOrder /\ TimesInOrder
  BY DEF NotificationsInOrder, ValuesInOrder, TimesInOrder

\* An offer is taken, or there is no room.
LEMMA NotifyEffect ==
  ASSUME TypeOK, NEW k, NEW tv, Notify(k, tv), NEW c \in ValueChans
  PROVE  \/ /\ chan'[c] = chan[c]
            /\ c \notin subscribed \/ k \notin ChanKeys[c]
                 \/ ~(Len(chan[c]) < ChanCap)
         \/ /\ chan'[c] = Append(chan[c], <<k, tv>>)
            /\ c \in subscribed /\ k \in ChanKeys[c] /\ Len(chan[c]) < ChanCap
  BY DEF Notify, Offer

LEMMA TouchEffect ==
  ASSUME TypeOK, NEW ts \in Times, Touch(ts)
  PROVE  \/ TimeKept
         \/ /\ ts > globalLastUpdated /\ globalLastUpdated' = ts
            /\ \A c \in GlobalChans :
                 \/ /\ globalChan'[c] = globalChan[c]
                    /\ c \notin subscribed \/ ~(Len(globalChan[c]) < ChanCap)
                 \/ /\ globalChan'[c] = Append(globalChan[c], ts)
                    /\ c \in subscribed /\ Len(globalChan[c]) < ChanCap
  BY DEF Touch, Offer, TimeKept

\* Nothing goes back in time.
LEMMA StoreStepGrows ==
  ASSUME TypeInv, AbsentIsNoValue, BlockedNotStale, StoreOnly
  PROVE  /\ \A k \in Keys : /\ values[k].lastUpdated \in Int
                            /\ values'[k].lastUpdated \in Int
                            /\ values[k].lastUpdated <= values'[k].lastUpdated
         /\ globalLastUpdated \in Int /\ globalLastUpdated' \in Int
         /\ globalLastUpdated <= globalLastUpdated'
  <1>1. /\ \A k \in Keys : values[k].lastUpdated \in Int
        /\ globalLastUpdated \in Int
    BY TimeTypes DEF TypeInv
  <1>2. ASSUME NEW k \in Keys, NEW tv \in TimestampedValue, Renew(k, tv),
               NEW l \in Keys
        PROVE  /\ values'[l].lastUpdated \in Int
               /\ values[l].lastUpdated <= values'[l].lastUpdated
    BY <1>1, <1>2, ValueTime DEF Renew, TypeInv, TypeOK
  <1>3. \A k \in Keys : /\ values'[k].lastUpdated \in Int
                        /\ values[k].lastUpdated <= values'[k].lastUpdated
    BY <1>1, <1>2, StoreEffect DEF ValuesKept
  <1>4. ASSUME NEW ts \in Times, Touch(ts)
        PROVE  /\ globalLastUpdated' \in Int
               /\ globalLastUpdated <= globalLastUpdated'
    BY <1>1, <1>4, TouchEffect, TimesAssumption DEF TypeInv, TimeKept
  <1>5. /\ globalLastUpdated' \in Int
        /\ globalLastUpdated <= globalLastUpdated'
    BY <1>1, <1>4, StoreEffect DEF TimeKept
  <1> QED
    BY <1>1, <1>3, <1>5

LEMMA OrderRenew ==
  ASSUME TypeOK, ValuesInOrder, NEW k \in Keys, NEW tv, Renew(k, tv)
  PROVE  ValuesInOrder'
  <1> SUFFICES ASSUME NEW c \in ValueChans,
                      NEW i \in DOMAIN chan'[c], NEW j \in DOMAIN chan'[c]
               PROVE  chan'[c][i][1] = chan'[c][j][1] /\ i <= j =>
                        /\ chan'[c][i][2].lastUpdated
                              <= chan'[c][j][2].lastUpdated
                        /\ chan'[c][j][2].lastUpdated
                              <= values'[chan'[c][j][1]].lastUpdated
    BY Zenon DEF ValuesInOrder
  <1> HAVE chan'[c][i][1] = chan'[c][j][1] /\ i <= j
  <1>1. /\ tv \in TimestampedValue /\ tv.lastUpdated \in Int
        /\ values[k].lastUpdated <= tv.lastUpdated
    BY ValueTime DEF Renew
  <1>2. /\ values'[k] = tv
        /\ \A l \in Keys : l # k => values'[l] = values[l]
        /\ \A l \in Keys : /\ values[l].lastUpdated \in Int
                           /\ values'[l].lastUpdated \in Int
                           /\ values[l].lastUpdated <= values'[l].lastUpdated
    BY <1>1, TimeTypes DEF Renew, TypeOK
  <1>3. CASE chan'[c] = chan[c]
    <2>1. /\ chan[c][i][1] = chan[c][j][1]
          /\ chan[c][j][1] \in Keys
          /\ chan[c][j][2].lastUpdated \in Int
      BY <1>3, TimeTypes
    <2>2. /\ chan[c][i][2].lastUpdated <= chan[c][j][2].lastUpdated
          /\ chan[c][j][2].lastUpdated <= values[chan[c][j][1]].lastUpdated
      BY <1>3, <2>1 DEF ValuesInOrder
    <2> QED
      BY <1>2, <1>3, <2>1, <2>2
  <1>4. CASE chan'[c] = Append(chan[c], <<k, tv>>)
    <2>1. chan[c] \in Seq(Keys \X TimestampedValue)
      BY DEF TypeOK
    <2>2. /\ DOMAIN chan'[c] = 1 .. Len(chan[c]) + 1
          /\ DOMAIN chan[c] = 1 .. Len(chan[c])
          /\ Len(chan[c]) \in Nat
          /\ \A n \in 1 .. Len(chan[c]) : chan'[c][n] = chan[c][n]
          /\ chan'[c][Len(chan[c]) + 1] = <<k, tv>>
      BY <1>4, <2>1
    <2>3. CASE j \in DOMAIN chan[c]
      <3>1. i \in DOMAIN chan[c]
        BY <2>2, <2>3
      <3>2. /\ chan[c][i][1] = chan[c][j][1]
            /\ chan[c][j][1] \in Keys
            /\ chan[c][j][2].lastUpdated \in Int
        BY <2>2, <2>3, <3>1, TimeTypes
      <3>3. /\ chan[c][i][2].lastUpdated <= chan[c][j][2].lastUpdated
            /\ chan[c][j][2].lastUpdated <= values[chan[c][j][1]].lastUpdated
        BY <2>3, <3>1, <3>2 DEF ValuesInOrder
      <3>4. chan'[c][i] = chan[c][i] /\ chan'[c][j] = chan[c][j]
        BY <2>2, <2>3, <3>1
      <3>5. values[chan[c][j][1]].lastUpdated
              <= values'[chan[c][j][1]].lastUpdated
        BY <1>2, <3>2
      <3>6. chan[c][j][2].lastUpdated <= values'[chan[c][j][1]].lastUpdated
        BY <1>2, <3>2, <3>3, <3>5
      <3> QED
        BY <3>3, <3>4, <3>6
    <2>4. CASE j = Len(chan[c]) + 1 /\ i \in DOMAIN chan[c]
      <3>1. chan[c][i][1] = k /\ chan[c][i][2].lastUpdated \in Int
        BY <2>2, <2>4, TimeTypes
      <3>2. chan[c][i][2].lastUpdated <= values[k].lastUpdated
        <4>1. i <= i
          BY <2>2, <2>4
        <4> QED
          BY <2>4, <3>1, <4>1 DEF ValuesInOrder
      <3>3. chan[c][i][2].lastUpdated <= tv.lastUpdated
        BY <1>1, <1>2, <3>1, <3>2
      <3>4. chan'[c][i] = chan[c][i] /\ chan'[c][j] = <<k, tv>>
        BY <2>2, <2>4
      <3>5. chan'[c][j][1] = k /\ chan'[c][j][2] = tv
        BY <3>4
      <3>6. tv.lastUpdated <= values'[k].lastUpdated
        BY <1>1, <1>2
      <3> QED
        BY <3>3, <3>4, <3>5, <3>6
    <2>5. CASE i = Len(chan[c]) + 1 /\ j = Len(chan[c]) + 1
      BY <1>1, <1>2, <2>2, <2>5
    <2> QED
      BY <2>2, <2>3, <2>4, <2>5
  <1> QED
    BY <1>3, <1>4, NotifyEffect DEF Renew

LEMMA OrderTouch ==
  ASSUME TypeOK, TimesInOrder, NEW ts \in Times, Touch(ts)
  PROVE  TimesInOrder'
  <1>1. CASE TimeKept
    BY <1>1 DEF TimeKept, TimesInOrder
  <1>2. CASE /\ ts > globalLastUpdated /\ globalLastUpdated' = ts
             /\ \A c \in GlobalChans :
                  \/ globalChan'[c] = globalChan[c]
                  \/ globalChan'[c] = Append(globalChan[c], ts)
    <2> SUFFICES ASSUME NEW c \in GlobalChans,
                        NEW i \in DOMAIN globalChan'[c],
                        NEW j \in DOMAIN globalChan'[c]
                 PROVE  /\ i < j => globalChan'[c][i] < globalChan'[c][j]
                        /\ globalChan'[c][i] <= globalLastUpdated'
      BY Zenon DEF TimesInOrder
    <2>1. /\ \A n \in DOMAIN globalChan[c] :
               globalChan[c][n] \in Int /\ globalChan[c][n] < ts
          /\ ts \in Int /\ globalLastUpdated \in Int
      BY <1>2, TimeTypes, TimesAssumption DEF TimesInOrder
    <2>2. \A m, n \in DOMAIN globalChan[c] :
             m < n => globalChan[c][m] < globalChan[c][n]
      BY DEF TimesInOrder
    <2>3. globalChan[c] \in Seq(Times)
      BY DEF TypeOK
    <2>4. CASE globalChan'[c] = globalChan[c]
      BY <1>2, <2>1, <2>2, <2>4
    <2>5. CASE globalChan'[c] = Append(globalChan[c], ts)
      <3>1. \A n \in DOMAIN globalChan'[c] :
               \/ n \in DOMAIN globalChan[c] /\ globalChan'[c][n] = globalChan[c][n]
               \/ n = Len(globalChan[c]) + 1 /\ globalChan'[c][n] = ts
        BY <2>3, <2>5
      <3>2. DOMAIN globalChan[c] = 1 .. Len(globalChan[c])
        BY <2>3
      <3> QED
        BY <1>2, <2>1, <2>2, <2>3, <3>1, <3>2
    <2> QED
      BY <1>2, <2>4, <2>5
  <1> QED
    BY <1>1, <1>2, TouchEffect

\* The places of a queue move up when its head is taken.
LEMMA TailEntries ==
  ASSUME NEW S, NEW q \in Seq(S), q # <<>>, NEW i \in DOMAIN Tail(q)
  PROVE  /\ i \in Nat \ {0}
         /\ i + 1 \in DOMAIN q /\ i + 1 # 1
         /\ Tail(q)[i] = q[i + 1]
  OBVIOUS

\* A channel of which the first value is taken stays in order.
LEMMA OrderTail ==
  ASSUME TypeOK, ValuesInOrder, NEW c \in ValueChans, Receive(c)
  PROVE  ValuesInOrder'
  <1>1. /\ chan[c] \in Seq(Keys \X TimestampedValue) /\ chan[c] # <<>>
        /\ chan' = [chan EXCEPT ![c] = Tail(chan[c])]
        /\ values' = values
    BY DEF TypeOK, Receive, storeVars
  <1> SUFFICES ASSUME NEW d \in ValueChans,
                      NEW i \in DOMAIN chan'[d], NEW j \in DOMAIN chan'[d]
               PROVE  chan'[d][i][1] = chan'[d][j][1] /\ i <= j =>
                        /\ chan'[d][i][2].lastUpdated
                              <= chan'[d][j][2].lastUpdated
                        /\ chan'[d][j][2].lastUpdated
                              <= values'[chan'[d][j][1]].lastUpdated
    BY Zenon DEF ValuesInOrder
  <1>2. PICK m \in DOMAIN chan[d], n \in DOMAIN chan[d] :
           /\ chan'[d][i] = chan[d][m] /\ chan'[d][j] = chan[d][n]
           /\ i <= j => m <= n
    <2>1. CASE d = c
      <3>1. chan'[c] = Tail(chan[c])
        BY <1>1 DEF TypeOK
      <3>2. /\ i \in Nat /\ j \in Nat
            /\ i + 1 \in DOMAIN chan[c] /\ j + 1 \in DOMAIN chan[c]
            /\ chan'[c][i] = chan[c][i + 1] /\ chan'[c][j] = chan[c][j + 1]
        BY <1>1, <2>1, <3>1, TailEntries
      <3> QED
        BY <2>1, <3>2
    <2>2. CASE d # c
      <3>1. chan'[d] = chan[d]
        BY <1>1, <2>2 DEF TypeOK
      <3> QED
        BY <3>1
    <2> QED
      BY <2>1, <2>2
  <1> QED
    BY <1>1, <1>2 DEF ValuesInOrder

LEMMA OrderGlobalTail ==
  ASSUME TypeOK, TimesInOrder, NEW c \in GlobalChans, GlobalReceive(c)
  PROVE  TimesInOrder'
  <1>1. /\ globalChan[c] \in Seq(Times) /\ globalChan[c] # <<>>
        /\ globalChan' = [globalChan EXCEPT ![c] = Tail(globalChan[c])]
        /\ globalLastUpdated' = globalLastUpdated
    BY DEF TypeOK, GlobalReceive, storeVars
  <1> SUFFICES ASSUME NEW d \in GlobalChans,
                      NEW i \in DOMAIN globalChan'[d],
                      NEW j \in DOMAIN globalChan'[d]
               PROVE  /\ i < j => globalChan'[d][i] < globalChan'[d][j]
                      /\ globalChan'[d][i] <= globalLastUpdated'
    BY Zenon DEF TimesInOrder
  <1>2. CASE d = c
    <2>1. globalChan'[c] = Tail(globalChan[c])
      BY <1>1 DEF TypeOK
    <2>2. /\ i \in Nat /\ j \in Nat
          /\ i + 1 \in DOMAIN globalChan[c] /\ j + 1 \in DOMAIN globalChan[c]
          /\ globalChan'[c][i] = globalChan[c][i + 1]
          /\ globalChan'[c][j] = globalChan[c][j + 1]
      BY <1>1, <1>2, <2>1, TailEntries
    <2> QED
      BY <1>1, <1>2, <2>2 DEF TimesInOrder
  <1>3. CASE d # c
    BY <1>1, <1>3 DEF TypeOK, TimesInOrder
  <1> QED
    BY <1>2, <1>3

-----------------------------------------------------------------------------
(* A step of any kind. *)

LEMMA AbsentStep ==
  ASSUME TypeInv, OrderInv, StoreOnly
  PROVE  AbsentIsNoValue'
  <1>1. CASE ValuesKept
    BY <1>1 DEF OrderInv, AbsentIsNoValue, Present, ValuesKept
  <1>2. ASSUME NEW k \in Keys, NEW tv \in TimestampedValue, Renew(k, tv)
        PROVE  AbsentIsNoValue'
    BY <1>2 DEF OrderInv, AbsentIsNoValue, Present, Renew, TypeInv, TypeOK
  <1> QED
    BY <1>1, <1>2, StoreEffect DEF OrderInv

\* While a process waits with the lock held the values stay as they are.
LEMMA BlockedNotStaleStep ==
  ASSUME TypeInv, OrderInv, StoreOnly
  PROVE  BlockedNotStale'
  <1>1. CASE \E p \in Procs : UpdateStore(p) \/ UpdateResume(p)
    <2>1. PICK p \in Procs : UpdateStore(p) \/ UpdateResume(p)
      BY <1>1
    <2>2. \A q \in Procs : pc'[q] # "blocked"
      BY <2>1 DEF UpdateStore, UpdateResume, AtSetting, LockFree, TypeInv,
                  TypeOK, BlockedOK
    <2> QED
      BY <2>2 DEF BlockedNotStale
  <1>2. CASE \E p \in Procs : UpdateBlock(p)
    <2>1. PICK p \in Procs : UpdateBlock(p)
      BY <1>2
    <2>2. /\ UNCHANGED <<values, msg, idx>>
          /\ \A q \in Procs : pc'[q] = "blocked" => q = p
          /\ idx[p] \in DOMAIN msg[p].keys
      BY <2>1 DEF UpdateBlock, AtSetting, LockFree, TypeInv, TypeOK, ControlOK,
                  Active, Content
    <2>3. /\ Setting(p) \in Keys /\ msg[p].ts \in Int
          /\ values[Setting(p)].lastUpdated \in Int
      <3>1. Setting(p) \in Keys /\ msg[p].ts \in Times
        BY <2>2, SettingType DEF TypeInv
      <3>2. Times \subseteq Int
        BY TimesAssumption
      <3> QED
        BY <3>1, <3>2, TimeTypes DEF TypeInv
    <2>4. values[Setting(p)].lastUpdated <= msg[p].ts
      BY <2>1, <2>3 DEF UpdateBlock, Stale, Orphans
    <2> QED
      BY <2>2, <2>4 DEF BlockedNotStale, Setting
  <1>3. CASE ~\E p \in Procs :
                 UpdateStore(p) \/ UpdateResume(p) \/ UpdateBlock(p)
    <2>1. /\ values' = values
          /\ \A q \in Procs : pc'[q] = "blocked" =>
                 pc[q] = "blocked" /\ idx'[q] = idx[q] /\ msg'[q] = msg[q]
      BY <1>3 DEF StoreOnly, Step, OpenProto, WriteProto, StartLoading,
           UpdateStale, AtSetting, EndLoading, Enqueue, Finish, Load, LoadNext,
           LoadDone, Worker, WorkerReceive, WorkerRemove, RemoveFileReferences,
           storeVars, procVars, TypeInv, TypeOK
    <2> QED
      BY <2>1 DEF OrderInv, BlockedNotStale, Setting
  <1> QED
    BY <1>1, <1>2, <1>3

LEMMA OrderStep ==
  ASSUME TypeInv, OrderInv, [Next]_vars
  PROVE  OrderInv'
  <1>1. ValuesInOrder /\ TimesInOrder /\ TypeOK
    BY OrderHalves DEF OrderInv, TypeInv
  <1>2. CASE StoreOnly
    <2>1. ValuesInOrder'
      BY <1>1, <1>2, StoreEffect, OrderRenew
         DEF OrderInv, ValuesKept, ValuesInOrder
    <2>2. TimesInOrder'
      BY <1>1, <1>2, StoreEffect, OrderTouch DEF OrderInv, TimeKept, TimesInOrder
    <2>3. NotificationsInOrder'
      BY <2>1, <2>2 DEF NotificationsInOrder, ValuesInOrder, TimesInOrder
    <2> QED
      BY <1>2, <2>3, AbsentStep, BlockedNotStaleStep DEF OrderInv
  <1>3. CASE Subscriber
    <2>1. AbsentIsNoValue' /\ BlockedNotStale'
      BY <1>3, SubscriberFrame DEF OrderInv, AbsentIsNoValue, BlockedNotStale,
                                   Present, Setting, storeVars, procVars
    <2>2. ValuesInOrder'
      <3>1. CASE chan' = chan
        BY <1>1, <1>3, <3>1, SubscriberFrame DEF ValuesInOrder, storeVars
      <3>2. chan' = chan \/ \E c \in ValueChans : Receive(c)
        BY <1>3 DEF Subscriber, Subscribe, GlobalSubscribe, GlobalReceive
      <3> QED
        BY <1>1, <3>1, <3>2, OrderTail
    <2>3. TimesInOrder'
      <3>1. CASE globalChan' = globalChan
        BY <1>1, <1>3, <3>1, SubscriberFrame DEF TimesInOrder, storeVars
      <3>2. globalChan' = globalChan \/ \E c \in GlobalChans : GlobalReceive(c)
        BY <1>3 DEF Subscriber, Subscribe, GlobalSubscribe, Receive
      <3> QED
        BY <1>1, <3>1, <3>2, OrderGlobalTail
    <2> QED
      BY <2>1, <2>2, <2>3 DEF OrderInv, NotificationsInOrder, ValuesInOrder,
                              TimesInOrder
  <1>4. CASE Restart
    BY <1>4 DEF Restart, OrderInv, AbsentIsNoValue, BlockedNotStale,
                NotificationsInOrder
  <1>5. CASE UNCHANGED vars
    BY <1>5 DEF vars, storeVars, chanVars, procVars, OrderInv, Present, Setting,
                AbsentIsNoValue, BlockedNotStale, NotificationsInOrder
  <1> QED
    BY <1>2, <1>3, <1>4, <1>5 DEF Next, StoreOnly, Subscriber

LEMMA OrderInvariant == Spec => [](TypeInv /\ OrderInv)
  <1>1. Init => OrderInv
    BY DEF Init, OrderInv, AbsentIsNoValue, BlockedNotStale,
           NotificationsInOrder
  <1>2. TypeInv /\ OrderInv /\ [Next]_vars => OrderInv'
    BY OrderStep
  <1> QED
    BY <1>1, <1>2, TypeInvariant, PTL DEF Spec

\* What waits in a subscriber's channel brings a setting forward in time, and
\* never beyond the map, whatever the order in which handlers apply messages.
THEOREM NotifiedInOrder == Spec => []NotificationsInOrder
  <1>1. OrderInv => NotificationsInOrder
    BY DEF OrderInv
  <1> QED
    BY <1>1, OrderInvariant, PTL

-----------------------------------------------------------------------------
(* Reference counts, and the files on the way to os.Remove. *)

\* Being on the way to os.Remove, spelled out.
IsDoomed(f) ==
    \/ \E i \in DOMAIN deletionQueue : deletionQueue[i] = f
    \/ f = wfile /\ f # NoFile
    \/ \E p \in Procs : pc[p] = "enqueue" /\ cur[p] = f

LEMMA DoomedIff ==
  /\ \A f : f \in Doomed <=> IsDoomed(f)
  /\ \A f : f \in Doomed' <=> IsDoomed(f)'
  BY DEF Doomed, IsDoomed

\* What sends and receives do to the files in the queue.
LEMMA AppendMembers ==
  ASSUME NEW q \in Seq(Files), NEW g \in Files, NEW f
  PROVE  (\E i \in DOMAIN Append(q, g) : Append(q, g)[i] = f)
            <=> (f = g \/ \E i \in DOMAIN q : q[i] = f)
  <1>1. CASE f = g
    <2>1. Len(q) + 1 \in DOMAIN Append(q, g) /\ Append(q, g)[Len(q) + 1] = g
      OBVIOUS
    <2> QED
      BY <1>1, <2>1
  <1>2. CASE f # g
    <2>1. \A i \in DOMAIN q : i \in DOMAIN Append(q, g) /\ Append(q, g)[i] = q[i]
      OBVIOUS
    <2>2. \A i \in DOMAIN Append(q, g) :
             i \in DOMAIN q \/ (i = Len(q) + 1 /\ Append(q, g)[i] = g)
      OBVIOUS
    <2> QED
      BY <1>2, <2>1, <2>2
  <1> QED
    BY <1>1, <1>2

LEMMA TailMembers ==
  ASSUME NEW q \in Seq(Files), q # <<>>
  PROVE  \A i \in DOMAIN Tail(q) :
            /\ i + 1 \in DOMAIN q
            /\ Tail(q)[i] = q[i + 1]
  OBVIOUS

\* The sets of keys that are counted are finite.
LEMMA ReferrersFinite ==
  ASSUME NEW f
  PROVE  IsFiniteSet(Referrers(f)) /\ IsFiniteSet(Referrers(f)')
  BY KeysAssumption, FS_Subset DEF Referrers

LEMMA CountEmpty ==
  ASSUME RefCountExact, NEW f \in Files, liveReferences[f] = 0
  PROVE  Referrers(f) = {}
  BY ReferrersFinite, FS_EmptySet DEF RefCountExact

\* A file whose count is one is referred to by one key.
LEMMA CountOne ==
  ASSUME RefCountExact, NEW f \in Files, liveReferences[f] = 1,
         NEW k \in Referrers(f)
  PROVE  Referrers(f) = {k}
  <1>1. Cardinality(Referrers(f) \ {k}) = Cardinality(Referrers(f)) - 1
    BY ReferrersFinite, FS_RemoveElement
  <1>2. IsFiniteSet(Referrers(f) \ {k}) /\ Cardinality(Referrers(f)) = 1
    BY ReferrersFinite, FS_RemoveElement DEF RefCountExact
  <1>3. Referrers(f) \ {k} = {}
    BY <1>1, <1>2, FS_EmptySet
  <1> QED
    BY <1>3

-----------------------------------------------------------------------------
(* Steps that leave the values and the counts alone. *)

\* The process that waits in Update, if any, is the same before and after.
SameBlocked ==
    \A q \in Procs :
        /\ pc'[q] = "blocked" <=> pc[q] = "blocked"
        /\ pc[q] = "blocked" => idx'[q] = idx[q] /\ msg'[q] = msg[q]

LEMMA CountFrame ==
  ASSUME RefCountExact, SameBlocked,
         values' = values, liveReferences' = liveReferences
  PROVE  RefCountExact'
  <1>1. \A k : BeingReplaced(k)' <=> BeingReplaced(k)
    BY DEF SameBlocked, BeingReplaced, Setting
  <1>2. \A f : Referrers(f)' = Referrers(f)
    BY <1>1 DEF Referrers
  <1> QED
    BY <1>2 DEF RefCountExact

LEMMA StoreFrame ==
  ASSUME RefInv, SameBlocked,
         UNCHANGED <<values, liveReferences>>,
         tracked \subseteq tracked',
         \/ loadingInProgress' \subseteq loadingInProgress
         \/ \A q \in Procs : pc[q] # "blocked"
  PROVE  RefCountExact' /\ FilesTracked' /\ BlockedUnused'
  <1>1. RefCountExact'
    BY CountFrame DEF RefInv
  <1>2. FilesTracked'
    BY DEF RefInv, FilesTracked, Present
  <1>3. BlockedUnused'
    BY DEF RefInv, BlockedUnused, SameBlocked, Setting
  <1> QED
    BY <1>1, <1>2, <1>3

LEMMA RefOpenProto ==
  ASSUME TypeInv, TypeInv', RefInv, NEW p \in Procs, NEW m \in Messages,
         NEW f \in Files, OpenProto(p, m, f)
  PROVE  RefInv'
  <1>1. /\ cur' = [cur EXCEPT ![p] = f]
        /\ pc[p] = "idle"
        /\ \/ pc' = [pc EXCEPT ![p] = "write"]
           \/ pc' = [pc EXCEPT ![p] = "start"]
        /\ pc \in [Procs -> {"idle", "write", "start", "update", "blocked",
                             "enqueue"}]
        /\ cur \in [Procs -> Files \cup {NoFile}]
        /\ UNCHANGED <<storeVars, deletionQueue, mainVars, workerVars>>
        /\ Fresh(f) /\ phase = "serving"
    BY DEF OpenProto, TypeInv, TypeOK
  <1>2. \A g : g \in Doomed' => g \in Doomed
    BY <1>1, DoomedIff DEF IsDoomed, workerVars
  <1>3. f \notin Doomed /\ ~Refers(f)
    <2>1. f \notin Doomed
      BY <1>1, DoomedIff DEF IsDoomed, Fresh
    <2>2. ~Refers(f)
      BY <1>1, FilesAssumption
         DEF Refers, Fresh, RefInv, FilesTracked, Present
    <2> QED
      BY <2>1, <2>2
  <1>4. RefCountExact' /\ FilesTracked' /\ BlockedUnused'
    <2>1. SameBlocked
      BY <1>1 DEF OpenProto, SameBlocked, TypeInv, TypeOK
    <2> QED
      BY <1>1, <2>1, StoreFrame DEF storeVars
  <1>5. DoomedUnused'
    BY <1>1, <1>2 DEF RefInv, DoomedUnused, Refers, storeVars
  <1>6. ActiveLoading'
    BY <1>1 DEF RefInv, ActiveLoading, Active, storeVars
  <1>7. OpeningFresh'
    BY <1>1, <1>2, <1>3 DEF RefInv, OpeningFresh, Opening, Refers, storeVars
  <1>8. CurDistinct'
    BY <1>1 DEF RefInv, CurDistinct, Busy, Fresh
  <1>9. ToLoadFresh'
    BY <1>1, <1>2 DEF RefInv, ToLoadFresh, Busy, storeVars, mainVars
  <1>10. UsedOnDisk'
    BY <1>1 DEF OpenProto, RefInv, UsedOnDisk, Present, Opening, Active,
                storeVars, diskVars, TypeInv, TypeOK
  <1> QED
    BY <1>4, <1>5, <1>6, <1>7, <1>8, <1>9, <1>10 DEF RefInv

LEMMA RefWriteProto ==
  ASSUME TypeInv, TypeInv', RefInv, NEW p \in Procs, WriteProto(p)
  PROVE  RefInv'
  <1>1. /\ pc' = [pc EXCEPT ![p] = "start"] /\ pc[p] = "write"
        /\ pc \in [Procs -> {"idle", "write", "start", "update", "blocked",
                             "enqueue"}]
        /\ UNCHANGED <<storeVars, deletionQueue, disk, mainVars, cur, msg,
                       idx, workerVars>>
    BY DEF WriteProto, TypeInv, TypeOK
  <1>2. \A g : g \in Doomed' => g \in Doomed
    BY <1>1, DoomedIff DEF IsDoomed, workerVars
  <1>3. RefCountExact' /\ FilesTracked' /\ BlockedUnused'
    <2>1. SameBlocked
      BY <1>1 DEF SameBlocked
    <2> QED
      BY <1>1, <2>1, StoreFrame DEF storeVars
  <1>4. DoomedUnused'
    BY <1>1, <1>2 DEF RefInv, DoomedUnused, Refers, storeVars
  <1>5. ActiveLoading'
    BY <1>1 DEF RefInv, ActiveLoading, Active, storeVars
  <1>6. OpeningFresh'
    BY <1>1, <1>2 DEF RefInv, OpeningFresh, Opening, Refers, storeVars
  <1>7. CurDistinct'
    BY <1>1 DEF RefInv, CurDistinct, Busy
  <1>8. ToLoadFresh'
    BY <1>1, <1>2 DEF RefInv, ToLoadFresh, Busy, storeVars, mainVars
  <1>9. UsedOnDisk'
    BY <1>1 DEF RefInv, UsedOnDisk, Present, Opening, Active, storeVars
  <1> QED
    BY <1>3, <1>4, <1>5, <1>6, <1>7, <1>8, <1>9 DEF RefInv

LEMMA RefLoadNext ==
  ASSUME TypeInv, TypeInv', RefInv, LoadNext
  PROVE  RefInv'
  <1>1. /\ Main \in Procs
        /\ pc[Main] = "idle" /\ phase = "loading"
        /\ pc \in [Procs -> {"idle", "write", "start", "update", "blocked",
                             "enqueue"}]
        /\ cur \in [Procs -> Files \cup {NoFile}]
        /\ msg \in [Procs -> Content]
        /\ UNCHANGED <<storeVars, deletionQueue, disk, idx, workerVars>>
    BY DEF LoadNext, TypeInv, TypeOK, Procs, diskVars
  <1>2. CASE phase' = "exited" /\ UNCHANGED <<toLoad, pc, cur, msg>>
    <2>1. \A g : g \in Doomed' => g \in Doomed
      BY <1>1, <1>2, DoomedIff DEF IsDoomed, workerVars
    <2>2. RefCountExact' /\ FilesTracked' /\ BlockedUnused'
      BY <1>1, <1>2, StoreFrame DEF storeVars, SameBlocked
    <2>3. DoomedUnused' /\ ActiveLoading' /\ OpeningFresh' /\ CurDistinct'
      BY <1>1, <1>2, <2>1
         DEF RefInv, DoomedUnused, ActiveLoading, OpeningFresh, CurDistinct,
             Opening, Active, Busy, Refers, storeVars
    <2>4. ToLoadFresh' /\ UsedOnDisk'
      BY <1>1, <1>2, <2>1
         DEF RefInv, ToLoadFresh, UsedOnDisk, Present, Opening, Active, Busy,
             storeVars
    <2> QED
      BY <2>2, <2>3, <2>4 DEF RefInv
  <1>3. ASSUME NEW f \in toLoad, f \in disk,
               toLoad' = toLoad \ {f},
               pc' = [pc EXCEPT ![Main] = "start"],
               cur' = [cur EXCEPT ![Main] = f],
               msg' = [msg EXCEPT ![Main] = content[f]],
               UNCHANGED phase
        PROVE  RefInv'
    <2>1. \A g : g \in Doomed' => g \in Doomed
      BY <1>1, <1>3, DoomedIff DEF IsDoomed, workerVars
    <2>2. /\ f \notin Doomed /\ ~Refers(f)
          /\ \A p \in Procs : Busy(p) => cur[p] # f
          /\ f \in Files
      BY FilesAssumption DEF RefInv, ToLoadFresh, FilesTracked, Present,
                             Refers, TypeInv, TypeOK
    <2>3. RefCountExact' /\ FilesTracked' /\ BlockedUnused'
      <3>1. SameBlocked
        BY <1>1, <1>3 DEF SameBlocked
      <3> QED
        BY <1>1, <3>1, StoreFrame DEF storeVars
    <2>4. DoomedUnused'
      BY <1>1, <2>1 DEF RefInv, DoomedUnused, Refers, storeVars
    <2>5. ActiveLoading'
      BY <1>1, <1>3 DEF RefInv, ActiveLoading, Active, storeVars
    <2>6. OpeningFresh'
      BY <1>1, <1>3, <2>1, <2>2 DEF RefInv, OpeningFresh, Opening, Refers,
                                    storeVars
    <2>7. CurDistinct'
      BY <1>1, <1>3, <2>2 DEF RefInv, CurDistinct, Busy
    <2>8. ToLoadFresh'
      BY <1>1, <1>3, <2>1 DEF RefInv, ToLoadFresh, Busy, storeVars
    <2>9. UsedOnDisk'
      BY <1>1, <1>3 DEF RefInv, UsedOnDisk, Present, Opening, Active,
                        storeVars
    <2> QED
      BY <2>3, <2>4, <2>5, <2>6, <2>7, <2>8, <2>9 DEF RefInv
  <1> QED
    BY <1>2, <1>3 DEF LoadNext

LEMMA RefLoadDone ==
  ASSUME TypeInv, TypeInv', RefInv, LoadDone
  PROVE  RefInv'
  <1>1. UNCHANGED <<storeVars, deletionQueue, diskVars, toLoad, procVars,
                    workerVars>>
    BY DEF LoadDone
  <1>2. Doomed' = Doomed
    BY <1>1 DEF Doomed, procVars, workerVars
  <1>3. RefCountExact' /\ FilesTracked' /\ BlockedUnused'
    BY <1>1, StoreFrame DEF storeVars, SameBlocked, procVars
  <1>4. ToLoadFresh'
    BY <1>1, <1>2 DEF LoadDone, RefInv, ToLoadFresh, Busy, storeVars,
                      procVars
  <1>5. DoomedUnused' /\ ActiveLoading' /\ OpeningFresh' /\ CurDistinct'
        /\ UsedOnDisk'
    BY <1>1, <1>2
       DEF RefInv, DoomedUnused, ActiveLoading, OpeningFresh, CurDistinct,
           UsedOnDisk, Present, Opening, Active, Busy, Refers, storeVars,
           diskVars, procVars
  <1> QED
    BY <1>3, <1>4, <1>5 DEF RefInv

LEMMA RefStartLoading ==
  ASSUME TypeInv, TypeInv', RefInv, NEW p \in Procs, StartLoading(p)
  PROVE  RefInv'
  <1>1. /\ pc' = [pc EXCEPT ![p] = "update"] /\ pc[p] = "start"
        /\ pc \in [Procs -> {"idle", "write", "start", "update", "blocked",
                             "enqueue"}]
        /\ tracked' = tracked \cup {cur[p]}
        /\ loadingInProgress' = loadingInProgress \cup {cur[p]}
        /\ \A q \in Procs : pc[q] # "blocked"
        /\ UNCHANGED <<values, liveReferences, deletionQueue, disk, mainVars,
                       cur, msg, workerVars>>
    BY DEF StartLoading, LockFree, diskVars, TypeInv, TypeOK
  <1>2. \A g : g \in Doomed' => g \in Doomed
    BY <1>1, DoomedIff DEF IsDoomed, workerVars
  <1>3. cur[p] \notin Doomed /\ ~Refers(cur[p])
    BY <1>1 DEF RefInv, OpeningFresh, Opening
  <1>4. RefCountExact' /\ FilesTracked' /\ BlockedUnused'
    <2>1. SameBlocked
      BY <1>1 DEF SameBlocked
    <2> QED
      BY <1>1, <2>1, StoreFrame
  <1>5. DoomedUnused'
    BY <1>1, <1>2, <1>3 DEF RefInv, DoomedUnused, Refers
  <1>6. ActiveLoading'
    BY <1>1 DEF RefInv, ActiveLoading, Active
  <1>7. OpeningFresh'
    BY <1>1, <1>2 DEF RefInv, OpeningFresh, Opening, Refers
  <1>8. CurDistinct'
    BY <1>1 DEF RefInv, CurDistinct, Busy
  <1>9. ToLoadFresh'
    <2>1. \A f \in toLoad : f # cur[p]
      BY <1>1 DEF RefInv, ToLoadFresh, Busy
    <2> QED
      BY <1>1, <1>2, <2>1 DEF RefInv, ToLoadFresh, Busy, mainVars
  <1>10. UsedOnDisk'
    BY <1>1 DEF RefInv, UsedOnDisk, Present, Opening, Active
  <1> QED
    BY <1>4, <1>5, <1>6, <1>7, <1>8, <1>9, <1>10 DEF RefInv

LEMMA RefUpdateStale ==
  ASSUME TypeInv, TypeInv', RefInv, NEW p \in Procs, UpdateStale(p)
  PROVE  RefInv'
  <1>1. /\ \A q \in Procs : pc[q] # "blocked"
        /\ UNCHANGED <<values, tracked, loadingInProgress, liveReferences,
                       deletionQueue, disk, mainVars, pc, cur, workerVars>>
    BY DEF UpdateStale, AtSetting, LockFree, diskVars
  <1>2. Doomed' = Doomed
    BY <1>1 DEF Doomed, workerVars
  <1>3. RefCountExact' /\ FilesTracked' /\ BlockedUnused'
    BY <1>1, StoreFrame DEF SameBlocked
  <1>4. DoomedUnused' /\ ActiveLoading' /\ OpeningFresh' /\ CurDistinct'
        /\ ToLoadFresh' /\ UsedOnDisk'
    BY <1>1, <1>2
       DEF RefInv, DoomedUnused, ActiveLoading, OpeningFresh, CurDistinct,
           ToLoadFresh, UsedOnDisk, Present, Opening, Active, Busy, Refers,
           mainVars
  <1> QED
    BY <1>3, <1>4 DEF RefInv

-----------------------------------------------------------------------------
(* Update lets go of the value of a key, and stores another.  Between the   *)
(* two it may wait, as the only process that does.                          *)

\* Taking key k from those that count for a file, and adding it.
LEMMA CountLess ==
  ASSUME RefCountExact, NEW f \in Files, NEW k \in Referrers(f)
  PROVE  Cardinality(Referrers(f) \ {k}) = liveReferences[f] - 1
  BY ReferrersFinite, FS_RemoveElement DEF RefCountExact

LEMMA CountMore ==
  ASSUME RefCountExact, NEW f \in Files, NEW k \in Keys, k \notin Referrers(f)
  PROVE  Cardinality(Referrers(f) \cup {k}) = liveReferences[f] + 1
  BY ReferrersFinite, FS_AddElement DEF RefCountExact

\* Moving key k from file g (or from none) to file f keeps the counts exact.
LEMMA CountMove ==
  ASSUME TypeInv, RefCountExact, NEW f \in Files, NEW k \in Keys,
         NEW tv, tv.sourceFile = f,
         \A q \in Procs : pc[q] # "blocked" /\ pc'[q] # "blocked",
         values' = [values EXCEPT ![k] = tv],
         liveReferences' = [Released(k) EXCEPT ![f] = @ + 1]
  PROVE  RefCountExact'
  <1> DEFINE g == values[k].sourceFile
  <1>1. \A h : Referrers(h) = {j \in Keys : values[j].sourceFile = h}
    BY DEF Referrers, BeingReplaced
  <1>2. \A h : Referrers(h)' = {j \in Keys : values'[j].sourceFile = h}
    BY DEF Referrers, BeingReplaced
  <1>3. /\ values \in [Keys -> TimestampedValue]
        /\ liveReferences \in [Files -> Int]
        /\ g \in Files \cup {NoFile}
    BY DEF TypeInv, TypeOK, TimestampedValue
  <1>4. \A j \in Keys : values'[j].sourceFile =
                          IF j = k THEN f ELSE values[j].sourceFile
    BY <1>3
  <1>5. ASSUME NEW h \in Files
        PROVE  liveReferences'[h] = Cardinality(Referrers(h)')
    <2>1. CASE g = f
      <3>1. Present(k)
        BY <2>1, FilesAssumption DEF Present
      <3>2. liveReferences'[h] = liveReferences[h]
        BY <1>3, <2>1, <3>1 DEF Released
      <3>3. Referrers(h)' = Referrers(h)
        BY <1>1, <1>2, <1>4, <2>1
      <3> QED
        BY <3>2, <3>3 DEF RefCountExact
    <2>2. CASE g # f /\ h = f
      <3>1. liveReferences'[h] = liveReferences[h] + 1
        BY <1>3, <2>2 DEF Released
      <3>2. Referrers(h)' = Referrers(h) \cup {k} /\ k \notin Referrers(h)
        BY <1>1, <1>2, <1>4, <2>2
      <3> QED
        BY <3>1, <3>2, CountMore
    <2>3. CASE g # f /\ h = g
      <3>1. Present(k)
        BY <2>3, FilesAssumption DEF Present
      <3>2. liveReferences'[h] = liveReferences[h] - 1
        BY <1>3, <2>3, <3>1 DEF Released
      <3>3. Referrers(h)' = Referrers(h) \ {k} /\ k \in Referrers(h)
        BY <1>1, <1>2, <1>4, <2>3
      <3> QED
        BY <3>2, <3>3, CountLess
    <2>4. CASE h # f /\ h # g
      <3>1. liveReferences'[h] = liveReferences[h]
        BY <1>3, <2>4 DEF Released
      <3>2. Referrers(h)' = Referrers(h)
        BY <1>1, <1>2, <1>4, <2>4
      <3> QED
        BY <3>1, <3>2 DEF RefCountExact
    <2> QED
      BY <2>1, <2>2, <2>3, <2>4
  <1> QED
    BY <1>5 DEF RefCountExact

\* The registers of a process in Update, and what Store assigns.
LEMMA UpdateFacts ==
  ASSUME TypeInv, NEW p \in Procs, AtSetting(p) \/ pc[p] = "blocked"
  PROVE  /\ cur[p] \in Files /\ Active(p)
         /\ Setting(p) \in Keys
         /\ \A refs : Store(p, refs) =>
              \E tv : /\ tv.sourceFile = cur[p]
                      /\ values' = [values EXCEPT ![Setting(p)] = tv]
                      /\ liveReferences' = [refs EXCEPT ![cur[p]] = @ + 1]
  <1>1. cur[p] \in Files /\ idx[p] \in DOMAIN msg[p].keys
    BY DEF TypeInv, TypeOK, ControlOK, BlockedOK, Busy, Active, AtSetting,
           Content
  <1>2. Setting(p) \in Keys
    BY <1>1, SettingType DEF TypeInv
  <1> QED
    BY <1>1, <1>2 DEF Store, Active, AtSetting

LEMMA RefUpdateStore ==
  ASSUME TypeInv, TypeInv', RefInv, NEW p \in Procs, UpdateStore(p)
  PROVE  RefInv'
  <1> DEFINE k == Setting(p)
             f == cur[p]
             g == values[k].sourceFile
  <1>1. /\ \A q \in Procs : pc[q] # "blocked"
        /\ Store(p, Released(k))
        /\ AtSetting(p)
        /\ UNCHANGED <<tracked, loadingInProgress, disk, mainVars, pc, cur,
                       workerVars>>
    BY DEF UpdateStore, AtSetting, LockFree, diskVars
  <1>2. /\ f \in Files /\ Active(p) /\ k \in Keys
    BY <1>1, UpdateFacts
  <1>3. PICK tv : /\ tv.sourceFile = f
                  /\ values' = [values EXCEPT ![k] = tv]
                  /\ liveReferences' = [Released(k) EXCEPT ![f] = @ + 1]
    BY <1>1, UpdateFacts
  <1>4. /\ f \in loadingInProgress /\ f \in tracked /\ f \notin Doomed
        /\ values \in [Keys -> TimestampedValue]
    BY <1>2 DEF RefInv, ActiveLoading, DoomedUnused, TypeInv, TypeOK
  <1>5. \A j \in Keys : values'[j].sourceFile =
                          IF j = k THEN f ELSE values[j].sourceFile
    BY <1>3, <1>4
  <1>6. RefCountExact'
    BY <1>1, <1>2, <1>3, CountMove DEF RefInv
  <1>7. FilesTracked' /\ BlockedUnused'
    BY <1>1, <1>4, <1>5 DEF RefInv, FilesTracked, BlockedUnused, Present
  <1>8. ActiveLoading' /\ CurDistinct'
    BY <1>1 DEF RefInv, ActiveLoading, CurDistinct, Active, Busy
  <1>9. ASSUME NEW h, h \in Doomed'
        PROVE  \/ h \in Doomed
               \/ /\ h = g /\ h \notin loadingInProgress /\ h \in tracked
                  /\ \A j \in Keys : values'[j].sourceFile # h
    <2>1. CASE UNCHANGED deletionQueue
      BY <1>1, <1>9, <2>1, DoomedIff DEF IsDoomed, workerVars
    <2>2. CASE Orphans(k) /\ deletionQueue' = Append(deletionQueue, g)
      <3>1. g \in Files /\ deletionQueue \in Seq(Files) /\ g # f
        BY <1>2, <1>4, <2>2 DEF Orphans, Present, TypeInv, TypeOK,
                                TimestampedValue
      <3>2. h = g \/ h \in Doomed
        BY <1>1, <1>9, <2>2, <3>1, DoomedIff, AppendMembers
           DEF IsDoomed, workerVars
      <3>3. Referrers(g) = {k}
        <4>1. k \in Referrers(g)
          BY <1>1, <1>2 DEF Referrers, BeingReplaced
        <4> QED
          BY <2>2, <3>1, <4>1, CountOne DEF Orphans, RefInv
      <3>4. \A j \in Keys : values'[j].sourceFile # g
        <4> SUFFICES ASSUME NEW j \in Keys, values'[j].sourceFile = g
                     PROVE  FALSE
          OBVIOUS
        <4>1. j # k /\ values[j].sourceFile = g
          BY <1>2, <1>5, <3>1
        <4>2. j \in Referrers(g)
          BY <1>1, <4>1 DEF Referrers, BeingReplaced
        <4> QED
          BY <3>3, <4>1, <4>2
      <3>5. g \notin loadingInProgress /\ g \in tracked
        BY <1>2, <2>2 DEF Orphans, RefInv, FilesTracked
      <3> QED
        BY <3>2, <3>4, <3>5
    <2> QED
      BY <1>1, <2>1, <2>2 DEF UpdateStore
  <1>10. DoomedUnused'
    BY <1>1, <1>4, <1>5, <1>9 DEF RefInv, DoomedUnused, Refers
  <1>11. OpeningFresh'
    <2> SUFFICES ASSUME NEW q \in Procs, Opening(q)'
                 PROVE  cur[q] \notin Doomed' /\ ~Refers(cur[q])'
      BY <1>1 DEF OpeningFresh
    <2>1. /\ Opening(q) /\ cur[q] \notin Doomed /\ ~Refers(cur[q])
      BY <1>1 DEF RefInv, OpeningFresh, Opening
    <2>2. cur[q] # f
      BY <1>2, <2>1 DEF RefInv, CurDistinct, Busy, Opening, Active
    <2>3. cur[q] # g
      BY <1>2, <2>1 DEF Refers
    <2>4. cur[q] \notin Doomed'
      BY <1>9, <2>1, <2>3
    <2>5. \A j \in Keys : values'[j].sourceFile # cur[q]
      BY <1>5, <2>1, <2>2 DEF Refers
    <2>6. cur'[q] = cur[q]
      BY <1>1
    <2> QED
      BY <2>4, <2>5, <2>6 DEF Refers
  <1>12. ToLoadFresh'
    BY <1>1, <1>9 DEF RefInv, ToLoadFresh, Busy, mainVars
  <1>13. UsedOnDisk'
    BY <1>1, <1>2, <1>5 DEF RefInv, UsedOnDisk, Present, Opening, Active
  <1> QED
    BY <1>6, <1>7, <1>8, <1>10, <1>11, <1>12, <1>13 DEF RefInv

LEMMA RefUpdateBlock ==
  ASSUME TypeInv, TypeInv', RefInv, NEW p \in Procs, UpdateBlock(p)
  PROVE  RefInv'
  <1> DEFINE k == Setting(p)
             g == values[k].sourceFile
  <1>1. /\ \A q \in Procs : pc[q] # "blocked"
        /\ pc' = [pc EXCEPT ![p] = "blocked"] /\ pc[p] = "update"
        /\ pc \in [Procs -> {"idle", "write", "start", "update", "blocked",
                             "enqueue"}]
        /\ liveReferences' = Released(k)
        /\ Orphans(k)
        /\ UNCHANGED <<values, tracked, loadingInProgress, deletionQueue,
                       disk, mainVars, cur, msg, idx, workerVars>>
    BY DEF UpdateBlock, AtSetting, LockFree, diskVars, TypeInv, TypeOK
  <1>2. k \in Keys
    BY UpdateFacts DEF UpdateBlock
  <1>3. /\ g \in Files /\ liveReferences \in [Files -> Int]
        /\ liveReferences' = [liveReferences EXCEPT ![g] = @ - 1]
        /\ liveReferences[g] = 1 /\ g \notin loadingInProgress
    BY <1>1, <1>2 DEF TypeInv, TypeOK, TimestampedValue, Orphans, Present,
                      Released
  <1>4. RefCountExact'
    <2>1. /\ \A j : ~BeingReplaced(j)
          /\ \A j : BeingReplaced(j)' <=> j = k
      BY <1>1 DEF BeingReplaced, Setting
    <2>2. \A h : Referrers(h)' = Referrers(h) \ {k}
      BY <1>1, <2>1 DEF Referrers
    <2>3. k \in Referrers(g) /\ \A h : h # g => k \notin Referrers(h)
      BY <1>2, <2>1 DEF Referrers
    <2>4. ASSUME NEW h \in Files
          PROVE  liveReferences'[h] = Cardinality(Referrers(h)')
      <3>1. CASE h = g
        BY <1>3, <2>2, <2>3, <3>1, CountLess DEF RefInv
      <3>2. CASE h # g
        <4>1. Referrers(h)' = Referrers(h)
          BY <2>2, <2>3, <3>2
        <4> QED
          BY <1>3, <3>2, <4>1 DEF RefInv, RefCountExact
      <3> QED
        BY <3>1, <3>2
    <2> QED
      BY <2>4 DEF RefCountExact
  <1>5. Doomed' = Doomed
    <2>1. \A h : h \in Doomed' <=> h \in Doomed
      BY <1>1, DoomedIff, SMTT(30) DEF IsDoomed, workerVars
    <2> QED
      BY <2>1
  <1>6. BlockedUnused'
    BY <1>1, <1>3 DEF BlockedUnused, Setting
  <1>7. FilesTracked' /\ DoomedUnused' /\ ActiveLoading' /\ OpeningFresh'
    BY <1>1, <1>5 DEF RefInv, FilesTracked, DoomedUnused, ActiveLoading,
                      OpeningFresh, Present, Opening, Active, Refers
  <1>8. CurDistinct' /\ ToLoadFresh' /\ UsedOnDisk'
    BY <1>1, <1>5 DEF RefInv, CurDistinct, ToLoadFresh, UsedOnDisk, Present,
                      Opening, Active, Busy, mainVars
  <1> QED
    BY <1>4, <1>6, <1>7, <1>8 DEF RefInv

LEMMA RefUpdateResume ==
  ASSUME TypeInv, TypeInv', RefInv, NEW p \in Procs, UpdateResume(p)
  PROVE  RefInv'
  <1> DEFINE k == Setting(p)
             f == cur[p]
             g == values[k].sourceFile
  <1>1. /\ pc' = [pc EXCEPT ![p] = "update"] /\ pc[p] = "blocked"
        /\ pc \in [Procs -> {"idle", "write", "start", "update", "blocked",
                             "enqueue"}]
        /\ Store(p, liveReferences)
        /\ deletionQueue' = Append(deletionQueue, g)
        /\ UNCHANGED <<tracked, loadingInProgress, disk, mainVars, cur,
                       workerVars>>
    BY DEF UpdateResume, diskVars, TypeInv, TypeOK
  <1>2. /\ f \in Files /\ Active(p) /\ k \in Keys
    BY <1>1, UpdateFacts
  <1>3. PICK tv : /\ tv.sourceFile = f
                  /\ values' = [values EXCEPT ![k] = tv]
                  /\ liveReferences' = [liveReferences EXCEPT ![f] = @ + 1]
    BY <1>1, UpdateFacts
  <1>4. /\ f \in loadingInProgress /\ f \in tracked /\ f \notin Doomed
        /\ values \in [Keys -> TimestampedValue]
        /\ liveReferences \in [Files -> Int]
        /\ deletionQueue \in Seq(Files)
    BY <1>2 DEF RefInv, ActiveLoading, DoomedUnused, TypeInv, TypeOK
  <1>5. \A j \in Keys : values'[j].sourceFile =
                          IF j = k THEN f ELSE values[j].sourceFile
    BY <1>3, <1>4
  <1>6. /\ g \in Files /\ g \in tracked /\ g \notin loadingInProgress
        /\ g # f /\ liveReferences[g] = 0
    BY <1>1, <1>2, <1>4 DEF TypeInv, TypeOK, BlockedOK, TimestampedValue,
                            Present, RefInv, BlockedUnused, FilesTracked
  <1>7. /\ \A j : BeingReplaced(j) <=> j = k
        /\ \A q \in Procs : pc'[q] # "blocked"
    BY <1>1 DEF TypeInv, BlockedOK, BeingReplaced
  <1>8. /\ \A h : Referrers(h) = {j \in Keys : values[j].sourceFile = h /\ j # k}
        /\ \A h : Referrers(h)' = {j \in Keys : values'[j].sourceFile = h}
    BY <1>7 DEF Referrers, BeingReplaced
  <1>9. RefCountExact'
    <2>1. ASSUME NEW h \in Files
          PROVE  liveReferences'[h] = Cardinality(Referrers(h)')
      <3>1. CASE h = f
        <4>1. Referrers(h)' = Referrers(h) \cup {k} /\ k \notin Referrers(h)
          BY <1>2, <1>5, <1>8, <3>1
        <4> QED
          BY <1>2, <1>3, <1>4, <3>1, <4>1, CountMore DEF RefInv
      <3>2. CASE h # f
        <4>1. Referrers(h)' = Referrers(h)
          BY <1>5, <1>8, <3>2
        <4> QED
          BY <1>3, <1>4, <3>2, <4>1 DEF RefInv, RefCountExact
      <3> QED
        BY <3>1, <3>2
    <2> QED
      BY <2>1 DEF RefCountExact
  <1>10. FilesTracked' /\ BlockedUnused'
    BY <1>1, <1>4, <1>5, <1>7 DEF RefInv, FilesTracked, BlockedUnused, Present
  <1>11. ActiveLoading' /\ CurDistinct'
    BY <1>1 DEF RefInv, ActiveLoading, CurDistinct, Active, Busy
  <1>12. \A j \in Keys : values'[j].sourceFile # g
    <2>1. Referrers(g) = {}
      BY <1>6, CountEmpty DEF RefInv
    <2> QED
      BY <1>5, <1>6, <1>8, <2>1
  <1>13. \A h : h \in Doomed' => h = g \/ h \in Doomed
    <2> SUFFICES ASSUME NEW h, IsDoomed(h)'
                 PROVE  h = g \/ IsDoomed(h)
      BY DoomedIff
    <2>1. CASE \E i \in DOMAIN deletionQueue' : deletionQueue'[i] = h
      BY <1>1, <1>4, <1>6, <2>1, AppendMembers DEF IsDoomed
    <2>2. CASE h = wfile' /\ h # NoFile
      BY <1>1, <2>2 DEF IsDoomed, workerVars
    <2>3. CASE \E q \in Procs : pc'[q] = "enqueue" /\ cur'[q] = h
      BY <1>1, <2>3 DEF IsDoomed
    <2> QED
      BY <2>1, <2>2, <2>3 DEF IsDoomed
  <1>14. DoomedUnused'
    BY <1>1, <1>4, <1>5, <1>6, <1>12, <1>13 DEF RefInv, DoomedUnused, Refers
  <1>15. OpeningFresh'
    <2> SUFFICES ASSUME NEW q \in Procs, Opening(q)'
                 PROVE  cur[q]' \notin Doomed' /\ ~Refers(cur[q])'
      BY DEF OpeningFresh
    <2>1. /\ Opening(q) /\ cur[q] \notin Doomed /\ ~Refers(cur[q])
          /\ cur'[q] = cur[q]
      BY <1>1 DEF RefInv, OpeningFresh, Opening
    <2>2. cur[q] # f
      BY <1>2, <2>1 DEF RefInv, CurDistinct, Busy, Opening, Active
    <2>3. cur[q] # g
      BY <1>2, <2>1 DEF Refers
    <2>4. \A j \in Keys : values'[j].sourceFile # cur[q]
      BY <1>5, <2>1, <2>2 DEF Refers
    <2> QED
      BY <1>13, <2>1, <2>3, <2>4 DEF Refers
  <1>16. ToLoadFresh'
    BY <1>1, <1>6, <1>13 DEF RefInv, ToLoadFresh, Busy, mainVars
  <1>17. UsedOnDisk'
    BY <1>1, <1>2, <1>5 DEF RefInv, UsedOnDisk, Present, Opening, Active
  <1> QED
    BY <1>9, <1>10, <1>11, <1>14, <1>15, <1>16, <1>17 DEF RefInv

LEMMA RefEndLoading ==
  ASSUME TypeInv, TypeInv', RefInv, NEW p \in Procs, EndLoading(p)
  PROVE  RefInv'
  <1>1. /\ pc[p] = "update"
        /\ \A q \in Procs : pc[q] # "blocked"
        /\ pc \in [Procs -> {"idle", "write", "start", "update", "blocked",
                             "enqueue"}]
        /\ cur \in [Procs -> Files \cup {NoFile}]
        /\ cur[p] \in Files
        /\ loadingInProgress' = loadingInProgress \ {cur[p]}
        /\ UNCHANGED <<values, tracked, liveReferences, deletionQueue, disk,
                       mainVars, workerVars>>
    BY DEF EndLoading, LockFree, diskVars, TypeInv, TypeOK, ControlOK, Busy
  <1>2. \/ /\ liveReferences[cur[p]] = 0
           /\ pc' = [pc EXCEPT ![p] = "enqueue"] /\ cur' = cur
        \/ pc' = [pc EXCEPT ![p] = "idle"] /\ cur' = [cur EXCEPT ![p] = NoFile]
    BY DEF EndLoading, Finish
  <1>3. \A q \in Procs : q # p => pc'[q] = pc[q] /\ cur'[q] = cur[q]
    BY <1>1, <1>2
  <1>4. /\ pc'[p] \in {"idle", "enqueue"}
        /\ pc'[p] = "enqueue" => cur'[p] = cur[p] /\ liveReferences[cur[p]] = 0
    BY <1>1, <1>2
  <1>5. RefCountExact' /\ FilesTracked' /\ BlockedUnused'
    <2>1. SameBlocked
      BY <1>1, <1>3, <1>4 DEF SameBlocked
    <2> QED
      BY <1>1, <2>1, StoreFrame
  <1>6. \A h : h \in Doomed' =>
           h \in Doomed \/ (h = cur[p] /\ \A j \in Keys : values[j].sourceFile # h)
    <2> SUFFICES ASSUME NEW h, h \in Doomed', h \notin Doomed
                 PROVE  h = cur[p] /\ \A j \in Keys : values[j].sourceFile # h
      OBVIOUS
    <2>1. h = cur[p] /\ pc'[p] = "enqueue"
      BY <1>1, <1>3, <1>4, DoomedIff DEF IsDoomed, workerVars
    <2>2. Referrers(cur[p]) = {}
      BY <1>1, <1>4, <2>1, CountEmpty DEF RefInv
    <2> QED
      BY <1>1, <2>1, <2>2 DEF Referrers, BeingReplaced
  <1>7. DoomedUnused'
    BY <1>1, <1>6 DEF RefInv, DoomedUnused, Refers
  <1>8. \A q \in Procs : q # p /\ Busy(q) => cur[q] # cur[p]
    BY <1>1 DEF RefInv, CurDistinct, Busy
  <1>9. ActiveLoading'
    BY <1>1, <1>3, <1>4, <1>8 DEF RefInv, ActiveLoading, Active, Busy
  <1>10. OpeningFresh'
    BY <1>1, <1>3, <1>4, <1>6, <1>8 DEF RefInv, OpeningFresh, Opening, Refers,
                                        Busy
  <1>11. CurDistinct'
    BY <1>1, <1>3, <1>4, <1>8 DEF RefInv, CurDistinct, Busy
  <1>12. ToLoadFresh'
    <2>1. \A h \in toLoad : h # cur[p]
      BY <1>1 DEF RefInv, ToLoadFresh, Busy
    <2> QED
      BY <1>1, <1>3, <1>4, <1>6, <2>1 DEF RefInv, ToLoadFresh, Busy, mainVars
  <1>13. UsedOnDisk'
    BY <1>1, <1>3, <1>4 DEF RefInv, UsedOnDisk, Present, Opening, Active
  <1> QED
    BY <1>5, <1>7, <1>9, <1>10, <1>11, <1>12, <1>13 DEF RefInv

-----------------------------------------------------------------------------
(* The worker: a file in its hands is not used any more. *)

LEMMA RefEnqueue ==
  ASSUME TypeInv, TypeInv', RefInv, NEW p \in Procs, Enqueue(p)
  PROVE  RefInv'
  <1>1. /\ pc[p] = "enqueue" /\ cur[p] \in Files
        /\ deletionQueue \in Seq(Files)
        /\ deletionQueue' = Append(deletionQueue, cur[p])
        /\ pc' = [pc EXCEPT ![p] = "idle"]
        /\ cur' = [cur EXCEPT ![p] = NoFile]
        /\ pc \in [Procs -> {"idle", "write", "start", "update", "blocked",
                             "enqueue"}]
        /\ cur \in [Procs -> Files \cup {NoFile}]
        /\ UNCHANGED <<storeVars, disk, mainVars, workerVars>>
    BY DEF Enqueue, Finish, diskVars, TypeInv, TypeOK, ControlOK, Busy
  <1>2. \A q \in Procs : q # p => pc'[q] = pc[q] /\ cur'[q] = cur[q]
    BY <1>1
  <1>3. pc'[p] = "idle"
    BY <1>1
  <1>4. \A h : h \in Doomed' => h \in Doomed
    <2> SUFFICES ASSUME NEW h, IsDoomed(h)'
                 PROVE  IsDoomed(h)
      BY DoomedIff
    <2>1. CASE \E i \in DOMAIN deletionQueue' : deletionQueue'[i] = h
      BY <1>1, <2>1, AppendMembers DEF IsDoomed
    <2>2. CASE h = wfile' /\ h # NoFile
      BY <1>1, <2>2 DEF IsDoomed, workerVars
    <2>3. CASE \E q \in Procs : pc'[q] = "enqueue" /\ cur'[q] = h
      BY <1>2, <1>3, <2>3 DEF IsDoomed
    <2> QED
      BY <2>1, <2>2, <2>3 DEF IsDoomed
  <1>5. RefCountExact' /\ FilesTracked' /\ BlockedUnused'
    <2>1. SameBlocked
      BY <1>1, <1>2, <1>3 DEF SameBlocked, Enqueue, Finish, TypeInv, TypeOK
    <2> QED
      BY <1>1, <2>1, StoreFrame DEF storeVars
  <1>6. DoomedUnused'
    BY <1>1, <1>4 DEF RefInv, DoomedUnused, Refers, storeVars
  <1>7. ActiveLoading' /\ OpeningFresh' /\ CurDistinct'
    BY <1>1, <1>2, <1>3, <1>4
       DEF RefInv, ActiveLoading, OpeningFresh, CurDistinct, Opening, Active,
           Busy, Refers, storeVars
  <1>8. ToLoadFresh' /\ UsedOnDisk'
    BY <1>1, <1>2, <1>3, <1>4
       DEF RefInv, ToLoadFresh, UsedOnDisk, Present, Opening, Active, Busy,
           storeVars, mainVars
  <1> QED
    BY <1>5, <1>6, <1>7, <1>8 DEF RefInv

LEMMA RefWorkerReceive ==
  ASSUME TypeInv, TypeInv', RefInv, WorkerReceive
  PROVE  RefInv'
  <1>1. /\ deletionQueue \in Seq(Files) /\ deletionQueue # <<>>
        /\ deletionQueue' = Tail(deletionQueue)
        /\ wfile' = deletionQueue[1] /\ 1 \in DOMAIN deletionQueue
        /\ UNCHANGED <<storeVars, disk, mainVars, procVars>>
    BY DEF WorkerReceive, diskVars, TypeInv, TypeOK
  <1>2. \A h : h \in Doomed' => h \in Doomed
    <2> SUFFICES ASSUME NEW h, IsDoomed(h)'
                 PROVE  IsDoomed(h)
      BY DoomedIff
    <2>1. CASE \E i \in DOMAIN deletionQueue' : deletionQueue'[i] = h
      BY <1>1, <2>1, TailMembers DEF IsDoomed
    <2>2. CASE h = wfile' /\ h # NoFile
      BY <1>1, <2>2 DEF IsDoomed
    <2>3. CASE \E q \in Procs : pc'[q] = "enqueue" /\ cur'[q] = h
      BY <1>1, <2>3 DEF IsDoomed, procVars
    <2> QED
      BY <2>1, <2>2, <2>3 DEF IsDoomed
  <1>3. RefCountExact' /\ FilesTracked' /\ BlockedUnused'
    BY <1>1, StoreFrame DEF SameBlocked, storeVars, procVars
  <1>4. DoomedUnused' /\ ActiveLoading' /\ OpeningFresh' /\ CurDistinct'
    BY <1>1, <1>2
       DEF RefInv, DoomedUnused, ActiveLoading, OpeningFresh, CurDistinct,
           Opening, Active, Busy, Refers, storeVars, procVars
  <1>5. ToLoadFresh' /\ UsedOnDisk'
    BY <1>1, <1>2
       DEF RefInv, ToLoadFresh, UsedOnDisk, Present, Opening, Active, Busy,
           storeVars, mainVars, procVars
  <1> QED
    BY <1>3, <1>4, <1>5 DEF RefInv

LEMMA RefWorkerRemove ==
  ASSUME TypeInv, TypeInv', RefInv, WorkerRemove
  PROVE  RefInv'
  <1>1. /\ disk \ {wfile} \subseteq disk'
        /\ wfile' \in {wfile, NoFile}
        /\ wfile \in Files /\ wfile # NoFile
        /\ UNCHANGED <<storeVars, deletionQueue, mainVars, procVars>>
    BY FilesAssumption
       DEF WorkerRemove, diskVars, TypeInv, ControlOK
  <1>2. \A h : h \in Doomed' => h \in Doomed
    BY <1>1, DoomedIff DEF IsDoomed, procVars
  <1>3. wfile \in Doomed
    BY <1>1, DoomedIff DEF IsDoomed
  <1>4. RefCountExact' /\ FilesTracked' /\ BlockedUnused'
    BY <1>1, StoreFrame DEF SameBlocked, storeVars, procVars
  <1>5. DoomedUnused' /\ ActiveLoading' /\ OpeningFresh' /\ CurDistinct'
    BY <1>1, <1>2
       DEF RefInv, DoomedUnused, ActiveLoading, OpeningFresh, CurDistinct,
           Opening, Active, Busy, Refers, storeVars, procVars
  <1>6. ToLoadFresh'
    BY <1>1, <1>2 DEF RefInv, ToLoadFresh, Busy, storeVars, mainVars, procVars
  <1>7. UsedOnDisk'
    <2>1. \A k \in Keys : values[k].sourceFile # wfile
      BY <1>3 DEF RefInv, DoomedUnused, Refers
    <2>2. \A p \in Procs : Opening(p) \/ Active(p) => cur[p] # wfile
      BY <1>3 DEF RefInv, DoomedUnused, OpeningFresh, ActiveLoading
    <2> QED
      BY <1>1, <2>1, <2>2 DEF RefInv, UsedOnDisk, Present, Opening, Active,
                              storeVars, procVars
  <1> QED
    BY <1>4, <1>5, <1>6, <1>7 DEF RefInv

LEMMA RefRemoveFileReferences ==
  ASSUME TypeInv, TypeInv', RefInv, RemoveFileReferences
  PROVE  RefInv'
  <1>1. /\ wfile \in Files /\ wfile # NoFile
        /\ tracked' = tracked \ {wfile}
        /\ loadingInProgress' = loadingInProgress \ {wfile}
        /\ liveReferences' = [liveReferences EXCEPT ![wfile] = 0]
        /\ liveReferences \in [Files -> Int]
        /\ wfile' = NoFile
        /\ \A q \in Procs : pc[q] # "blocked"
        /\ UNCHANGED <<values, deletionQueue, disk, mainVars, procVars>>
    BY FilesAssumption
       DEF RemoveFileReferences, LockFree, diskVars, TypeInv, TypeOK, ControlOK
  <1>2. \A h : h \in Doomed' => h \in Doomed
    BY <1>1, DoomedIff DEF IsDoomed, procVars
  <1>3. /\ wfile \in Doomed /\ wfile \notin loadingInProgress
        /\ \A k \in Keys : values[k].sourceFile # wfile
    BY <1>1, DoomedIff DEF IsDoomed, RefInv, DoomedUnused, Refers
  <1>4. RefCountExact'
    <2>1. \A h : Referrers(h)' = Referrers(h)
      BY <1>1 DEF Referrers, BeingReplaced, Setting, procVars
    <2>2. Referrers(wfile) = {}
      BY <1>3 DEF Referrers
    <2>3. liveReferences' = liveReferences
      <3>1. liveReferences[wfile] = 0
        BY <1>1, <2>2, FS_EmptySet DEF RefInv, RefCountExact
      <3> QED
        BY <1>1, <3>1
    <2> QED
      BY <2>1, <2>3 DEF RefInv, RefCountExact
  <1>5. FilesTracked' /\ BlockedUnused'
    BY <1>1, <1>3 DEF RefInv, FilesTracked, BlockedUnused, Present, procVars
  <1>6. DoomedUnused' /\ ActiveLoading' /\ OpeningFresh' /\ CurDistinct'
    BY <1>1, <1>2, <1>3
       DEF RefInv, DoomedUnused, ActiveLoading, OpeningFresh, CurDistinct,
           Opening, Active, Busy, Refers, procVars
  <1>7. ToLoadFresh' /\ UsedOnDisk'
    BY <1>1, <1>2
       DEF RefInv, ToLoadFresh, UsedOnDisk, Present, Opening, Active, Busy,
           mainVars, procVars
  <1> QED
    BY <1>4, <1>5, <1>6, <1>7 DEF RefInv

-----------------------------------------------------------------------------

\* The initial memory: nothing is known, tracked or queued.
EmptyMemory ==
    /\ values = [k \in Keys |-> NoValue]
    /\ tracked = {}
    /\ loadingInProgress = {}
    /\ liveReferences = [f \in Files |-> 0]
    /\ deletionQueue = <<>>
    /\ wfile = NoFile
    /\ pc = [p \in Procs |-> "idle"]
    /\ phase = "loading"

LEMMA RefEmpty == EmptyMemory => RefInv
  <1> SUFFICES ASSUME EmptyMemory PROVE RefInv
    OBVIOUS
  <1>1. \A k \in Keys : values[k].sourceFile = NoFile
    BY DEF EmptyMemory, NoValue
  <1>2. \A f \in Files : f # NoFile
    BY FilesAssumption
  <1>3. Doomed = {}
    BY DEF EmptyMemory, Doomed
  <1>4. RefCountExact
    <2>1. \A f \in Files : Referrers(f) = {}
      BY <1>1, <1>2 DEF Referrers
    <2> QED
      BY <2>1, FS_EmptySet DEF RefCountExact, EmptyMemory
  <1>5. FilesTracked /\ DoomedUnused /\ ActiveLoading /\ OpeningFresh
    BY <1>1, <1>3 DEF FilesTracked, DoomedUnused, ActiveLoading, OpeningFresh,
                      Present, Opening, Active, EmptyMemory
  <1>6. CurDistinct /\ ToLoadFresh /\ BlockedUnused /\ UsedOnDisk
    BY <1>1, <1>3 DEF CurDistinct, ToLoadFresh, BlockedUnused, UsedOnDisk,
                      Present, Opening, Active, Busy, EmptyMemory
  <1> QED
    BY <1>4, <1>5, <1>6 DEF RefInv

LEMMA RefRestart ==
  ASSUME Restart
  PROVE  RefInv'
  <1>1. EmptyMemory'
    BY DEF Restart, EmptyMemory
  <1>2. (EmptyMemory => RefInv)'
    BY RefEmpty, PTL
  <1> QED
    BY <1>1, <1>2

\* A step that changes only the channels, or nothing.
LEMMA RefFrame ==
  ASSUME RefInv,
         UNCHANGED <<storeVars, deletionQueue, diskVars, mainVars, procVars,
                     workerVars>>
  PROVE  RefInv'
  <1>1. Doomed' = Doomed
    BY DEF Doomed, procVars, workerVars
  <1>2. RefCountExact' /\ FilesTracked' /\ BlockedUnused'
    BY StoreFrame DEF SameBlocked, storeVars, procVars
  <1>3. DoomedUnused' /\ ActiveLoading' /\ OpeningFresh' /\ CurDistinct'
        /\ ToLoadFresh' /\ UsedOnDisk'
    BY <1>1
       DEF RefInv, DoomedUnused, ActiveLoading, OpeningFresh, CurDistinct,
           ToLoadFresh, UsedOnDisk, Present, Opening, Active, Busy, Refers,
           storeVars, diskVars, mainVars, procVars
  <1> QED
    BY <1>2, <1>3 DEF RefInv

LEMMA RefStep ==
  ASSUME TypeInv, TypeInv', RefInv, [Next]_vars
  PROVE  RefInv'
  <1>1. ASSUME NEW p \in Procs, NEW m \in Messages, NEW f \in Files,
               OpenProto(p, m, f)
        PROVE  RefInv'
    BY <1>1, RefOpenProto
  <1>2. ASSUME NEW p \in Procs, Step(p)
        PROVE  RefInv'
    BY <1>2, RefWriteProto, RefStartLoading, RefUpdateStale, RefUpdateStore,
       RefUpdateBlock, RefUpdateResume, RefEndLoading, RefEnqueue DEF Step
  <1>3. CASE Load
    BY <1>3, RefLoadNext, RefLoadDone DEF Load
  <1>4. CASE Worker
    BY <1>4, RefWorkerReceive, RefWorkerRemove, RefRemoveFileReferences
       DEF Worker
  <1>5. CASE Subscriber
    BY <1>5, SubscriberFrame, RefFrame
  <1>6. CASE Restart
    BY <1>6, RefRestart
  <1>7. CASE UNCHANGED vars
    BY <1>7, RefFrame DEF vars
  <1> QED
    BY <1>1, <1>2, <1>3, <1>4, <1>5, <1>6, <1>7 DEF Next, Subscriber

LEMMA RefInvariant == Spec => [](TypeInv /\ RefInv)
  <1>1. Init => TypeInv /\ RefInv
    <2>1. Init => EmptyMemory
      BY DEF Init, EmptyMemory
    <2> QED
      BY <2>1, TypeInvInit, RefEmpty
  <1>2. TypeInv /\ RefInv /\ [Next]_vars => TypeInv' /\ RefInv'
    BY TypeStep, RefStep
  <1> QED
    BY <1>1, <1>2, PTL DEF Spec

\* In every reachable state the count of a file is the number of values that
\* came from it, less the one that a waiting Update has let go.
THEOREM CountsExact == Spec => []RefCountExact
  <1>1. RefInv => RefCountExact
    BY DEF RefInv
  <1> QED
    BY <1>1, RefInvariant, PTL

\* No file that holds a current value is ever queued for removal or loses its
\* statistics, and without disk faults it is on the disk.
THEOREM LiveFilesKept == Spec => []LiveFileKept
  <1>1. TypeInv /\ RefInv => LiveFileKept
    BY DEF RefInv, FilesTracked, DoomedUnused, UsedOnDisk, Refers, LiveFileKept
  <1> QED
    BY <1>1, RefInvariant, PTL

-----------------------------------------------------------------------------
(* The files on their way to os.Remove: none is there twice, and none that *)
(* the replay has yet to read is among them.                               *)

\* The process that is about to queue its file, if any, stays there with it.
EnqueuersSame ==
    \A p \in Procs : pc'[p] = "enqueue" => pc[p] = "enqueue" /\ cur'[p] = cur[p]

LEMMA QueueFrame ==
  ASSUME QueuedOnce, EnqueuersSame, UNCHANGED <<deletionQueue, wfile>>
  PROVE  QueuedOnce'
  BY DEF QueuedOnce, EnqueuersSame

\* A new file at the end of the queue.
LEMMA QueueAppend ==
  ASSUME TypeInv, QueuedOnce, NEW g \in Files,
         deletionQueue' = Append(deletionQueue, g),
         \A i \in DOMAIN deletionQueue : deletionQueue[i] # g,
         wfile # g, wfile' = wfile,
         EnqueuersSame,
         \A p \in Procs : pc'[p] = "enqueue" => cur[p] # g
  PROVE  QueuedOnce'
  <1>1. deletionQueue \in Seq(Files)
    BY DEF TypeInv, TypeOK
  <1>2. \A i \in DOMAIN deletionQueue' :
           \/ i \in DOMAIN deletionQueue /\ deletionQueue'[i] = deletionQueue[i]
           \/ i = Len(deletionQueue) + 1 /\ deletionQueue'[i] = g
    BY <1>1
  <1>3. \A i, j \in DOMAIN deletionQueue' :
           deletionQueue'[i] = deletionQueue'[j] => i = j
    BY <1>1, <1>2 DEF QueuedOnce
  <1>4. \A i \in DOMAIN deletionQueue' : deletionQueue'[i] # wfile'
    BY <1>2 DEF QueuedOnce
  <1>5. \A p \in Procs : pc'[p] = "enqueue" =>
           /\ cur'[p] # wfile'
           /\ \A i \in DOMAIN deletionQueue' : deletionQueue'[i] # cur'[p]
    BY <1>2 DEF QueuedOnce, EnqueuersSame
  <1> QED
    BY <1>3, <1>4, <1>5 DEF QueuedOnce

\* A file in use is not on its way to os.Remove.
LEMMA UsedNotDoomed ==
  ASSUME TypeInv, RefInv, NEW f \in Files, f \in loadingInProgress \/ Refers(f)
  PROVE  /\ \A i \in DOMAIN deletionQueue : deletionQueue[i] # f
         /\ wfile # f
         /\ \A p \in Procs : pc[p] = "enqueue" => cur[p] # f
  <1>1. f \notin Doomed /\ f # NoFile
    BY FilesAssumption DEF RefInv, DoomedUnused
  <1> QED
    BY <1>1, DoomedIff DEF IsDoomed

-----------------------------------------------------------------------------
(* The steps that send to the queue, or take from it. *)

LEMMA QueueUpdateStore ==
  ASSUME TypeInv, RefInv, QueuedOnce, NEW p \in Procs, UpdateStore(p)
  PROVE  QueuedOnce'
  <1> DEFINE k == Setting(p)
             g == values[k].sourceFile
  <1>1. EnqueuersSame /\ wfile' = wfile
    BY DEF UpdateStore, EnqueuersSame, workerVars
  <1>2. CASE UNCHANGED deletionQueue
    BY <1>1, <1>2, QueueFrame
  <1>3. CASE Orphans(k) /\ deletionQueue' = Append(deletionQueue, g)
    <2>1. k \in Keys
      <3>1. /\ idx[p] \in Nat /\ idx[p] # 0 /\ idx[p] <= Len(msg[p].keys)
            /\ msg[p].keys \in Seq(Keys)
        BY DEF UpdateStore, AtSetting, TypeInv, TypeOK, ControlOK, Active,
               Content
      <3>2. idx[p] \in DOMAIN msg[p].keys
        BY <3>1
      <3> QED
        BY <3>2, SettingType DEF TypeInv
    <2>2. g \in Files /\ Refers(g)
      BY <1>3, <2>1 DEF Orphans, Present, Refers, TypeInv, TypeOK,
                        TimestampedValue
    <2>3. \A q \in Procs : pc'[q] = "enqueue" => pc[q] = "enqueue"
      BY <1>1 DEF EnqueuersSame
    <2> QED
      BY <1>1, <1>3, <2>2, <2>3, UsedNotDoomed, QueueAppend
  <1> QED
    BY <1>2, <1>3 DEF UpdateStore

LEMMA QueueUpdateResume ==
  ASSUME TypeInv, RefInv, QueuedOnce, NEW p \in Procs, UpdateResume(p)
  PROVE  QueuedOnce'
  <1> DEFINE k == Setting(p)
             g == values[k].sourceFile
  <1>1. /\ pc[p] = "blocked" /\ pc' = [pc EXCEPT ![p] = "update"]
        /\ deletionQueue' = Append(deletionQueue, g)
        /\ UNCHANGED <<cur, wfile>>
    BY DEF UpdateResume, workerVars
  <1>2. EnqueuersSame
    BY <1>1 DEF EnqueuersSame, TypeInv, TypeOK
  <1>3. k \in Keys /\ Present(k)
    BY <1>1, SettingType DEF TypeInv, BlockedOK
  <1>4. g \in Files /\ Refers(g)
    BY <1>3 DEF Present, Refers, TypeInv, TypeOK, TimestampedValue
  <1>5. \A q \in Procs : pc'[q] = "enqueue" => pc[q] = "enqueue"
    BY <1>2 DEF EnqueuersSame
  <1> QED
    BY <1>1, <1>2, <1>4, <1>5, UsedNotDoomed, QueueAppend

\* The file of a message that left nothing behind was protected until now.
LEMMA QueueEndLoading ==
  ASSUME TypeInv, RefInv, QueuedOnce, NEW p \in Procs, EndLoading(p)
  PROVE  QueuedOnce'
  <1>1. /\ pc[p] = "update"
        /\ UNCHANGED <<deletionQueue, wfile>>
        /\ \A q \in Procs : q # p => pc'[q] = pc[q] /\ cur'[q] = cur[q]
        /\ pc'[p] = "enqueue" => cur'[p] = cur[p]
    BY DEF EndLoading, Finish, workerVars, TypeInv, TypeOK
  <1>2. cur[p] \in Files /\ cur[p] \in loadingInProgress
    BY <1>1 DEF TypeInv, ControlOK, Busy, RefInv, ActiveLoading, Active
  <1>3. /\ \A i \in DOMAIN deletionQueue : deletionQueue[i] # cur[p]
        /\ wfile # cur[p]
    BY <1>2, UsedNotDoomed
  <1>4. ASSUME NEW q \in Procs, pc'[q] = "enqueue"
        PROVE  /\ cur'[q] # wfile'
               /\ \A i \in DOMAIN deletionQueue' : deletionQueue'[i] # cur'[q]
    BY <1>1, <1>3, <1>4 DEF QueuedOnce
  <1> QED
    BY <1>1, <1>4 DEF QueuedOnce

LEMMA QueueEnqueue ==
  ASSUME TypeInv, RefInv, QueuedOnce, NEW p \in Procs, Enqueue(p)
  PROVE  QueuedOnce'
  <1>1. /\ pc[p] = "enqueue"
        /\ deletionQueue' = Append(deletionQueue, cur[p])
        /\ wfile' = wfile
        /\ \A q \in Procs : q # p => pc'[q] = pc[q] /\ cur'[q] = cur[q]
        /\ pc'[p] = "idle"
    BY DEF Enqueue, Finish, workerVars, TypeInv, TypeOK
  <1>2. EnqueuersSame
    BY <1>1 DEF EnqueuersSame
  <1>3. cur[p] \in Files
    BY <1>1 DEF TypeInv, ControlOK, Busy
  <1>4. /\ \A i \in DOMAIN deletionQueue : deletionQueue[i] # cur[p]
        /\ wfile # cur[p]
    BY <1>1 DEF QueuedOnce
  <1>5. \A q \in Procs : pc'[q] = "enqueue" => cur[q] # cur[p]
    BY <1>1 DEF RefInv, CurDistinct, Busy
  <1> QED
    BY <1>1, <1>2, <1>3, <1>4, <1>5, QueueAppend

LEMMA QueueWorkerReceive ==
  ASSUME TypeInv, RefInv, QueuedOnce, WorkerReceive
  PROVE  QueuedOnce'
  <1>1. /\ deletionQueue \in Seq(Files) /\ deletionQueue # <<>>
        /\ wfile' = deletionQueue[1]
        /\ deletionQueue' = Tail(deletionQueue)
        /\ UNCHANGED <<pc, cur>>
    BY DEF WorkerReceive, TypeInv, TypeOK, procVars
  <1>2. 1 \in DOMAIN deletionQueue
    BY <1>1
  <1>3. \A i \in DOMAIN deletionQueue' :
           i \in Nat \ {0} /\ i + 1 \in DOMAIN deletionQueue
             /\ deletionQueue'[i] = deletionQueue[i + 1]
    BY <1>1
  <1>4. \A i, j \in DOMAIN deletionQueue' :
           deletionQueue'[i] = deletionQueue'[j] => i = j
    BY <1>3 DEF QueuedOnce
  <1>5. \A i \in DOMAIN deletionQueue' : deletionQueue'[i] # wfile'
    BY <1>1, <1>2, <1>3 DEF QueuedOnce
  <1>6. \A p \in Procs : pc'[p] = "enqueue" =>
           /\ cur'[p] # wfile'
           /\ \A i \in DOMAIN deletionQueue' : deletionQueue'[i] # cur'[p]
    BY <1>1, <1>2, <1>3 DEF QueuedOnce
  <1> QED
    BY <1>4, <1>5, <1>6 DEF QueuedOnce

\* The worker forgets the file it held: no file in the queue is NoFile.
LEMMA QueueWorkerDone ==
  ASSUME TypeInv, QueuedOnce, WorkerRemove \/ RemoveFileReferences
  PROVE  QueuedOnce'
  <1>1. /\ UNCHANGED <<deletionQueue, pc, cur>>
        /\ wfile' = wfile \/ wfile' = NoFile
    BY DEF WorkerRemove, RemoveFileReferences, procVars
  <1>2. \A i \in DOMAIN deletionQueue : deletionQueue[i] # NoFile
    <2>1. deletionQueue \in Seq(Files)
      BY DEF TypeInv, TypeOK
    <2>2. \A i \in DOMAIN deletionQueue : deletionQueue[i] \in Files
      BY <2>1
    <2> QED
      BY <2>2, FilesAssumption
  <1>3. \A p \in Procs : pc[p] = "enqueue" => cur[p] # NoFile
    BY FilesAssumption DEF TypeInv, ControlOK, Busy
  <1> QED
    BY <1>1, <1>2, <1>3 DEF QueuedOnce

LEMMA QueueStep ==
  ASSUME TypeInv, RefInv, QueuedOnce, [Next]_vars
  PROVE  QueuedOnce'
  <1>1. ASSUME NEW p \in Procs, NEW m \in Messages, NEW f \in Files,
               OpenProto(p, m, f)
        PROVE  QueuedOnce'
    <2>1. EnqueuersSame /\ UNCHANGED <<deletionQueue, wfile>>
      BY <1>1 DEF OpenProto, EnqueuersSame, workerVars, TypeInv, TypeOK
    <2> QED
      BY <2>1, QueueFrame
  <1>2. ASSUME NEW p \in Procs, Step(p)
        PROVE  QueuedOnce'
    <2>1. CASE WriteProto(p) \/ StartLoading(p) \/ UpdateStale(p)
                 \/ UpdateBlock(p)
      <3>1. EnqueuersSame /\ UNCHANGED <<deletionQueue, wfile>>
        BY <2>1 DEF WriteProto, StartLoading, UpdateStale, UpdateBlock,
                    EnqueuersSame, workerVars, TypeInv, TypeOK
      <3> QED
        BY <3>1, QueueFrame
    <2> QED
      BY <1>2, <2>1, QueueUpdateStore, QueueUpdateResume, QueueEndLoading,
         QueueEnqueue DEF Step
  <1>3. CASE Load
    <2>1. EnqueuersSame /\ UNCHANGED <<deletionQueue, wfile>>
      BY <1>3 DEF Load, LoadNext, LoadDone, EnqueuersSame, procVars,
                  workerVars, TypeInv, TypeOK
    <2> QED
      BY <2>1, QueueFrame
  <1>4. CASE Worker
    BY <1>4, QueueWorkerReceive, QueueWorkerDone DEF Worker
  <1>5. CASE Subscriber \/ UNCHANGED vars
    <2>1. EnqueuersSame /\ UNCHANGED <<deletionQueue, wfile>>
      BY <1>5, SubscriberFrame DEF vars, procVars, workerVars, EnqueuersSame
    <2> QED
      BY <2>1, QueueFrame
  <1>6. CASE Restart
    BY <1>6 DEF Restart, QueuedOnce
  <1> QED
    BY <1>1, <1>2, <1>3, <1>4, <1>5, <1>6 DEF Next, Subscriber

\* Update and EndLoading never both queue a file, nor does either queue one
\* that the worker still has in its hands.
THEOREM FilesQueuedOnce == Spec => []QueuedOnce
  <1>1. Init => QueuedOnce
    BY DEF Init, QueuedOnce
  <1>2. TypeInv /\ RefInv /\ QueuedOnce /\ [Next]_vars => QueuedOnce'
    BY QueueStep
  <1> QED
    BY <1>1, <1>2, RefInvariant, PTL DEF Spec

-----------------------------------------------------------------------------
(* The replay *)

LEMMA ListedStep ==
  ASSUME TypeInv, RefInv, ListedFilesStay, [Next]_vars
  PROVE  ListedFilesStay'
  <1> SUFFICES ASSUME phase' = "loading" PROVE toLoad' \subseteq disk'
    BY DEF ListedFilesStay
  <1>1. CASE Restart
    BY <1>1 DEF Restart, Listed, diskVars
  <1>2. CASE ~Restart
    <2>1. phase = "loading" /\ toLoad' \subseteq toLoad
      BY <1>2 DEF Next, OpenProto, Step, WriteProto, StartLoading, UpdateStale,
             UpdateStore, UpdateBlock, UpdateResume, EndLoading, Enqueue, Load,
             LoadNext, LoadDone, Worker, WorkerReceive, WorkerRemove,
             RemoveFileReferences, Subscribe, Receive, GlobalSubscribe,
             GlobalReceive, mainVars, vars
    <2>2. CASE WorkerRemove
      <3>1. wfile \in Doomed
        BY <2>2, FilesAssumption DEF WorkerRemove, Doomed, TypeInv, ControlOK
      <3>2. wfile \notin toLoad
        BY <3>1 DEF RefInv, ToLoadFresh
      <3>3. disk \ {wfile} \subseteq disk'
        BY <2>2 DEF WorkerRemove, diskVars
      <3> QED
        BY <2>1, <3>2, <3>3 DEF ListedFilesStay
    <2>3. CASE ~WorkerRemove
      <3>1. disk \subseteq disk'
        BY <1>2, <2>3 DEF Next, OpenProto, Step, WriteProto, StartLoading,
             UpdateStale, UpdateStore, UpdateBlock, UpdateResume, EndLoading,
             Enqueue, Load, LoadNext, LoadDone, Worker, WorkerReceive,
             RemoveFileReferences, Subscribe, Receive, GlobalSubscribe,
             GlobalReceive, diskVars, vars
      <3> QED
        BY <2>1, <3>1 DEF ListedFilesStay
    <2> QED
      BY <2>2, <2>3
  <1> QED
    BY <1>1, <1>2

\* The worker, which runs during the replay already, never takes a file away
\* from under it.
THEOREM ReplayFindsItsFiles == Spec => []ListedFilesStay
  <1>1. Init => ListedFilesStay
    BY DEF Init, ListedFilesStay, Listed
  <1>2. TypeInv /\ RefInv /\ ListedFilesStay /\ [Next]_vars => ListedFilesStay'
    BY ListedStep
  <1> QED
    BY <1>1, <1>2, RefInvariant, PTL DEF Spec
===============================================================================
