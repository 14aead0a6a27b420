--------------------------- MODULE DurableMapProofs ---------------------------
(***************************************************************************)
(* Restarts lose nothing, for every set of settings, files, payloads and   *)
(* handlers: the map that is served is as recent as every file that the    *)
(* replay can read, whatever faults the disk has, and LoadedValues         *)
(* implements DurableMap, when the disk does not fail and every payload    *)
(* decodes and is replayed.                                                *)
(***************************************************************************)
EXTENDS LoadedValuesProofs

\* The times that are compared are integers.
LEMMA TimesCompare ==
  ASSUME TypeOK
  PROVE  /\ \A t \in Times : t \in Int /\ t >= 0
         /\ \A f \in Files : content[f].ts \in Times
         /\ \A p \in Procs : msg[p].ts \in Times
         /\ \A k \in Keys : values[k].lastUpdated \in Int
  <1>1. \A t \in Times : t \in Int /\ t >= 0
    BY TimesAssumption
  <1>2. \A f \in Files : content[f].ts \in Times
    BY DEF TypeOK, Content
  <1>3. \A p \in Procs : msg[p].ts \in Times
    BY DEF TypeOK, Content
  <1>4. \A k \in Keys : values[k].lastUpdated \in Times \cup {ZeroTime}
    BY DEF TypeOK, TimestampedValue
  <1> QED
    BY <1>1, <1>2, <1>3, <1>4 DEF ZeroTime

-----------------------------------------------------------------------------
(* The map catches up with the disk. *)

RecContext == TypeInv /\ RefInv /\ OrderInv /\ RecInv

\* Values become newer or stay.
Grown == \A k \in Keys : values[k].lastUpdated <= values'[k].lastUpdated

LEMMA CoveredKept ==
  ASSUME TypeInv, TypeInv', Grown, NEW f \in Files, Covered(f),
         content'[f] = content[f]
  PROVE  Covered(f)'
  <1>1. content[f].keys \in Seq(Keys) /\ content[f].ts \in Int
    BY TimesCompare DEF TypeInv, TypeOK, Content
  <1>2. \A i \in DOMAIN content[f].keys : content[f].keys[i] \in Keys
    BY <1>1
  <1>3. \A k \in Keys : values[k].lastUpdated \in Int
    BY TimesCompare DEF TypeInv
  <1>4. (\A k \in Keys : values[k].lastUpdated \in Int)'
    BY TimesCompare, PTL DEF TypeInv
  <1> QED
    BY <1>1, <1>2, <1>3, <1>4 DEF Covered, Grown

\* So does what is covered of a message.
LEMMA SettingKept ==
  ASSUME TypeInv, TypeInv', Grown, NEW q \in Procs,
         NEW i \in DOMAIN msg[q].keys,
         values[msg[q].keys[i]].lastUpdated >= msg[q].ts
  PROVE  values'[msg[q].keys[i]].lastUpdated >= msg[q].ts
  <1>1. msg[q].keys \in Seq(Keys) /\ msg[q].ts \in Int
    BY TimesCompare DEF TypeInv, TypeOK, Content
  <1>2. msg[q].keys[i] \in Keys
    BY <1>1
  <1>3. \A k \in Keys : values[k].lastUpdated \in Int
    BY TimesCompare DEF TypeInv
  <1>4. (\A k \in Keys : values[k].lastUpdated \in Int)'
    BY TimesCompare, PTL DEF TypeInv
  <1> QED
    BY <1>1, <1>2, <1>3, <1>4 DEF Grown

\* Times grow in every step but a restart.
LEMMA TimesGrow ==
  ASSUME TypeInv, OrderInv, StoreOnly \/ UNCHANGED values
  PROVE  Grown
  <1>1. CASE StoreOnly
    BY <1>1, StoreStepGrows DEF OrderInv, Grown
  <1>2. CASE UNCHANGED values
    BY <1>2, TimesCompare DEF Grown, TypeInv
  <1> QED
    BY <1>1, <1>2

\* A step that changes neither the disk nor the progress of anybody who
\* applies a file.
LEMMA RecFrame ==
  ASSUME RecContext, TypeInv', Grown,
         UNCHANGED <<disk, content, toLoad, pc, cur, msg, idx>>,
         phase' # "serving" => phase # "serving"
  PROVE  RecInv'
  <1>1. AppliedCovered'
    <2> SUFFICES ASSUME NEW f \in disk' \ toLoad', content'[f].loadable,
                        ~Held(f)'
                 PROVE  Covered(f)'
      BY DEF AppliedCovered
    <2>1. f \in Files /\ ~Held(f)
      BY DEF RecContext, TypeInv, TypeOK, Held, Opening, Active
    <2>2. Covered(f)
      BY <2>1 DEF RecContext, RecInv, AppliedCovered
    <2> QED
      BY <2>1, <2>2, CoveredKept DEF RecContext
  <1>2. SettingsCovered'
    <2> SUFFICES ASSUME NEW q \in Procs, Active(q),
                        NEW i \in DOMAIN msg[q].keys, i < idx[q]
                 PROVE  values'[msg[q].keys[i]].lastUpdated >= msg[q].ts
      BY DEF SettingsCovered, Active
    <2>1. values[msg[q].keys[i]].lastUpdated >= msg[q].ts
      BY DEF RecContext, RecInv, SettingsCovered
    <2> QED
      BY <2>1, SettingKept DEF RecContext
  <1>3. PartOfMessage' /\ HandlersWait'
    BY DEF RecContext, RecInv, PartOfMessage, HandlersWait, Active
  <1> QED
    BY <1>1, <1>2, <1>3 DEF RecInv

\* A file is created, or is not, for a payload that is yet to be applied.
LEMMA RecOpenProto ==
  ASSUME RecContext, TypeInv', NEW p \in Procs, NEW m \in Messages,
         NEW f \in Files, OpenProto(p, m, f)
  PROVE  RecInv'
  <1>1. /\ pc[p] = "idle" /\ p \in Handlers /\ phase = "serving"
        /\ cur' = [cur EXCEPT ![p] = f] /\ msg' = [msg EXCEPT ![p] = m]
        /\ f \notin disk
        /\ \/ /\ disk' = disk \cup {f}
              /\ content' = [content EXCEPT ![f] = Created(m)]
              /\ pc' = [pc EXCEPT ![p] = "write"]
           \/ /\ UNCHANGED <<disk, content>>
              /\ pc' = [pc EXCEPT ![p] = "start"]
        /\ UNCHANGED <<values, phase, toLoad, idx>>
        /\ \A q \in Procs : cur[q] # f
    BY DEF OpenProto, Fresh, diskVars, mainVars, storeVars
  <1>2. /\ \A q \in Procs : q # p =>
              pc'[q] = pc[q] /\ cur'[q] = cur[q] /\ msg'[q] = msg[q]
        /\ pc'[p] \in {"write", "start"} /\ cur'[p] = f
        /\ \A g \in Files : g # f => content'[g] = content[g]
        /\ f \in disk' => pc'[p] = "write"
        /\ \A g \in disk' : g \in Files /\ (g # f => g \in disk)
    BY <1>1 DEF RecContext, TypeInv, TypeOK
  <1>3. Grown
    BY <1>1, TimesGrow DEF RecContext
  <1>4. AppliedCovered'
    <2> SUFFICES ASSUME NEW g \in disk' \ toLoad', content'[g].loadable,
                        ~Held(g)'
                 PROVE  Covered(g)'
      BY DEF AppliedCovered
    <2>1. g # f
      BY <1>2 DEF Held, Opening
    <2>2. g \in disk \ toLoad /\ content'[g] = content[g] /\ g \in Files
      BY <1>1, <1>2, <2>1
    <2>3. ~Held(g)
      BY <1>1, <1>2 DEF Held, Opening, Active
    <2>4. Covered(g)
      BY <2>2, <2>3 DEF RecContext, RecInv, AppliedCovered
    <2> QED
      BY <1>3, <2>2, <2>4, CoveredKept DEF RecContext
  <1>5. SettingsCovered'
    BY <1>1, <1>2 DEF RecContext, RecInv, SettingsCovered, Active
  <1>6. PartOfMessage'
    <2> SUFFICES ASSUME NEW q \in Procs, (pc[q] = "start" \/ Active(q))',
                        cur'[q] \in disk'
                 PROVE  /\ content'[cur'[q]].ts = msg'[q].ts
                        /\ \A i \in DOMAIN content'[cur'[q]].keys :
                              /\ i \in DOMAIN msg'[q].keys
                              /\ content'[cur'[q]].keys[i] = msg'[q].keys[i]
      BY DEF PartOfMessage
    <2>1. q # p
      BY <1>2 DEF Active
    <2>2. /\ cur'[q] = cur[q] /\ cur[q] \in disk /\ msg'[q] = msg[q]
          /\ content'[cur[q]] = content[cur[q]]
      BY <1>1, <1>2, <2>1
    <2>3. pc[q] = "start" \/ Active(q)
      BY <1>2, <2>1 DEF Active
    <2> QED
      BY <2>2, <2>3 DEF RecContext, RecInv, PartOfMessage
  <1>7. HandlersWait'
    <2>1. Main \in Procs /\ p # Main
      BY <1>1, ProcsAssumption DEF Procs
    <2> QED
      BY <1>1, <1>2, <2>1 DEF RecContext, RecInv, HandlersWait
  <1> QED
    BY <1>4, <1>5, <1>6, <1>7 DEF RecInv

\* All or the first part of the payload is written.
LEMMA RecWriteProto ==
  ASSUME RecContext, TypeInv', NEW p \in Procs, WriteProto(p)
  PROVE  RecInv'
  <1> DEFINE f == cur[p]
  <1>1. /\ pc[p] = "write" /\ pc' = [pc EXCEPT ![p] = "start"]
        /\ UNCHANGED <<values, disk, phase, toLoad, cur, msg, idx>>
    BY DEF WriteProto, mainVars, storeVars
  <1>2. f \in Files /\ msg[p] \in Content /\ content \in [Files -> Content]
    BY <1>1 DEF RecContext, TypeInv, TypeOK, ControlOK, Busy
  <1>3. PICK c : /\ content' = [content EXCEPT ![f] = c]
                 /\ \/ c = msg[p]
                    \/ \E n \in 0 .. Len(msg[p].keys), clean \in BOOLEAN :
                          c = Torn(msg[p], n, clean)
    BY DEF WriteProto
  <1>4. /\ c.ts = msg[p].ts
        /\ \A i \in DOMAIN c.keys :
              i \in DOMAIN msg[p].keys /\ c.keys[i] = msg[p].keys[i]
    <2>1. CASE c = msg[p]
      BY <2>1
    <2>2. ASSUME NEW n \in 0 .. Len(msg[p].keys), NEW clean \in BOOLEAN,
                 c = Torn(msg[p], n, clean)
          PROVE  /\ c.ts = msg[p].ts
                 /\ \A i \in DOMAIN c.keys :
                       i \in DOMAIN msg[p].keys /\ c.keys[i] = msg[p].keys[i]
      <3>1. c.ts = msg[p].ts /\ c.keys = SubSeq(msg[p].keys, 1, n)
        BY <2>2 DEF Torn
      <3>2. msg[p].keys \in Seq(Keys)
        BY <1>2 DEF Content
      <3> QED
        BY <3>1, <3>2
    <2> QED
      BY <1>3, <2>1, <2>2
  <1>5. /\ \A q \in Procs : q # p => pc'[q] = pc[q]
        /\ pc'[p] = "start" /\ content'[f] = c
        /\ \A g \in Files : g # f => content'[g] = content[g]
    BY <1>1, <1>2, <1>3 DEF RecContext, TypeInv, TypeOK
  <1>6. Grown
    BY <1>1, TimesGrow DEF RecContext
  <1>7. AppliedCovered'
    <2> SUFFICES ASSUME NEW g \in disk' \ toLoad', content'[g].loadable,
                        ~Held(g)'
                 PROVE  Covered(g)'
      BY DEF AppliedCovered
    <2>1. g # f
      BY <1>1, <1>5 DEF Held, Opening
    <2>2. g \in disk \ toLoad /\ content'[g] = content[g] /\ g \in Files
      BY <1>1, <1>5, <2>1 DEF RecContext, TypeInv, TypeOK
    <2>3. ~Held(g)
      BY <1>1, <1>5, <2>1 DEF Held, Opening, Active
    <2>4. Covered(g)
      BY <2>2, <2>3 DEF RecContext, RecInv, AppliedCovered
    <2> QED
      BY <1>6, <2>2, <2>4, CoveredKept DEF RecContext
  <1>8. SettingsCovered' /\ HandlersWait'
    BY <1>1, <1>5 DEF RecContext, RecInv, SettingsCovered, HandlersWait, Active
  <1>9. PartOfMessage'
    <2> SUFFICES ASSUME NEW q \in Procs, (pc[q] = "start" \/ Active(q))',
                        cur[q] \in disk
                 PROVE  /\ content'[cur[q]].ts = msg[q].ts
                        /\ \A i \in DOMAIN content'[cur[q]].keys :
                              /\ i \in DOMAIN msg[q].keys
                              /\ content'[cur[q]].keys[i] = msg[q].keys[i]
      BY <1>1 DEF PartOfMessage
    <2>1. CASE q = p
      BY <1>4, <1>5, <2>1
    <2>2. CASE q # p
      <3>1. pc[q] = "start" \/ Active(q)
        BY <1>5, <2>2 DEF Active
      <3>2. cur[q] # f /\ cur[q] \in Files
        BY <1>1, <2>2, <3>1 DEF RecContext, RefInv, CurDistinct, Busy, Active,
                                TypeInv, TypeOK
      <3> QED
        BY <1>5, <3>1, <3>2 DEF RecContext, RecInv, PartOfMessage
    <2> QED
      BY <2>1, <2>2
  <1> QED
    BY <1>7, <1>8, <1>9 DEF RecInv

\* The file that the replay takes from its list is applied next.
LEMMA RecLoad ==
  ASSUME RecContext, TypeInv', Load
  PROVE  RecInv'
  <1>1. /\ Main \in Procs
        /\ pc[Main] = "idle" /\ phase = "loading"
        /\ \A q \in Procs \ {Main} : pc[q] = "idle"
        /\ UNCHANGED <<values, disk, content, idx>>
    BY DEF Load, LoadNext, LoadDone, RecContext, RecInv, HandlersWait, Procs,
           diskVars, storeVars, procVars
  <1>2. Grown
    BY <1>1, TimesGrow DEF RecContext
  <1>3. CASE UNCHANGED <<toLoad, pc, cur, msg>>
    BY <1>1, <1>2, <1>3, RecFrame
  <1>4. ASSUME NEW f \in toLoad, f \in disk,
               toLoad' = toLoad \ {f},
               pc' = [pc EXCEPT ![Main] = "start"],
               cur' = [cur EXCEPT ![Main] = f],
               msg' = [msg EXCEPT ![Main] = content[f]],
               UNCHANGED phase
        PROVE  RecInv'
    <2>1. /\ \A q \in Procs : q # Main => pc'[q] = "idle"
          /\ pc'[Main] = "start" /\ cur'[Main] = f
          /\ msg'[Main] = content[f]
      BY <1>1, <1>4 DEF RecContext, TypeInv, TypeOK
    <2>2. AppliedCovered'
      <3> SUFFICES ASSUME NEW g \in disk' \ toLoad', content'[g].loadable,
                          ~Held(g)'
                   PROVE  Covered(g)'
        BY DEF AppliedCovered
      <3>1. g # f
        BY <1>1, <2>1 DEF Held, Opening
      <3>2. g \in disk \ toLoad /\ g \in Files
        BY <1>1, <1>4, <3>1 DEF RecContext, TypeInv, TypeOK
      <3>3. Covered(g)
        BY <1>1, <3>2 DEF RecContext, RecInv, AppliedCovered, Held, Opening,
                          Active
      <3> QED
        BY <1>1, <1>2, <3>2, <3>3, CoveredKept DEF RecContext
    <2>3. SettingsCovered' /\ PartOfMessage' /\ HandlersWait'
      BY <1>1, <2>1 DEF SettingsCovered, PartOfMessage, HandlersWait, Active
    <2> QED
      BY <2>2, <2>3 DEF RecInv
  <1> QED
    BY <1>1, <1>3, <1>4 DEF Load, LoadNext, LoadDone, procVars

\* A message is applied setting by setting; after each the value is as recent
\* as the message.
LEMMA RecAdvance ==
  ASSUME RecContext, TypeInv', NEW p \in Procs,
         \/ StartLoading(p)
         \/ UpdateStale(p) \/ UpdateStore(p) \/ UpdateBlock(p) \/ UpdateResume(p)
  PROVE  RecInv'
  <1>1. UNCHANGED <<disk, content, phase, toLoad, cur, msg>>
    BY DEF StartLoading, UpdateStale, UpdateStore, UpdateBlock, UpdateResume,
           diskVars, mainVars
  <1>2. /\ \A q \in Procs : q # p => pc'[q] = pc[q] /\ idx'[q] = idx[q]
        /\ pc[p] \in {"start", "update", "blocked"}
        /\ pc'[p] \in {"update", "blocked"}
    BY DEF StartLoading, UpdateStale, UpdateStore, UpdateBlock, UpdateResume,
           AtSetting, RecContext, TypeInv, TypeOK
  <1>3. Grown
    <2>1. StoreOnly
      BY DEF StoreOnly, Step
    <2> QED
      BY <2>1, TimesGrow DEF RecContext
  <1>4. \/ pc[p] = "start" /\ idx'[p] = 1
        \/ Active(p) /\ idx'[p] = idx[p]
        \/ /\ Active(p) /\ idx'[p] = idx[p] + 1
           /\ values'[Setting(p)].lastUpdated >= msg[p].ts
    <2>1. /\ idx \in [Procs -> Nat] /\ values \in [Keys -> TimestampedValue]
          /\ msg[p].keys \in Seq(Keys) /\ msg[p].ts \in Int
          /\ \A k \in Keys : values[k].lastUpdated \in Int
      BY TimesCompare DEF RecContext, TypeInv, TypeOK, Content
    <2>2. CASE StartLoading(p)
      BY <2>1, <2>2 DEF StartLoading
    <2>3. CASE UpdateBlock(p)
      BY <2>3 DEF UpdateBlock, AtSetting, Active
    <2>4. Active(p) => idx[p] # 0
      BY DEF RecContext, TypeInv, ControlOK
    <2>5. CASE UpdateStale(p)
      <3>1. Setting(p) \in Keys
        BY <2>1, <2>4, <2>5 DEF UpdateStale, AtSetting, Active, Setting
      <3> QED
        BY <2>1, <2>5, <3>1 DEF UpdateStale, AtSetting, Active, Stale
    <2>6. CASE UpdateStore(p) \/ UpdateResume(p)
      <3>1. idx[p] \in DOMAIN msg[p].keys
        BY <2>1, <2>4, <2>6 DEF UpdateStore, UpdateResume, AtSetting, Active,
                                RecContext, TypeInv, BlockedOK
      <3>2. Setting(p) \in Keys
        BY <2>1, <3>1 DEF Setting
      <3>3. values'[Setting(p)].lastUpdated = msg[p].ts
        BY <2>1, <2>6, <3>2 DEF UpdateStore, UpdateResume, Store
      <3> QED
        BY <2>1, <2>6, <3>3 DEF UpdateStore, UpdateResume, AtSetting, Active
    <2> QED
      BY <2>2, <2>3, <2>5, <2>6
  <1>5. \A q \in Procs : (Opening(q) \/ Active(q))' <=> Opening(q) \/ Active(q)
    BY <1>2 DEF Opening, Active
  <1>6. AppliedCovered'
    <2> SUFFICES ASSUME NEW f \in disk \ toLoad, content[f].loadable, ~Held(f)'
                 PROVE  Covered(f)'
      BY <1>1 DEF AppliedCovered
    <2>1. f \in Files /\ Covered(f)
      BY <1>1, <1>5 DEF Held, RecContext, RecInv, AppliedCovered, TypeInv,
                        TypeOK
    <2> QED
      BY <1>1, <1>3, <2>1, CoveredKept DEF RecContext
  <1>7. SettingsCovered'
    <2> SUFFICES ASSUME NEW q \in Procs, Active(q)',
                        NEW i \in DOMAIN msg[q].keys, i < idx'[q]
                 PROVE  values'[msg[q].keys[i]].lastUpdated >= msg[q].ts
      BY <1>1 DEF SettingsCovered
    <2>0. msg[q].keys \in Seq(Keys) /\ idx[q] \in Nat
      BY DEF RecContext, TypeInv, TypeOK, Content
    <2>1. i \in Nat \ {0} /\ idx[q] \in Nat
      BY <2>0
    <2>2. CASE Active(q) /\ i < idx[q]
      <3>1. values[msg[q].keys[i]].lastUpdated >= msg[q].ts
        BY <2>2 DEF RecContext, RecInv, SettingsCovered
      <3> QED
        BY <1>3, <3>1, SettingKept DEF RecContext
    <2>3. CASE ~(Active(q) /\ i < idx[q])
      <3>1. q = p
        BY <1>2, <2>3 DEF Active
      <3>2. i = idx[p] /\ values'[Setting(p)].lastUpdated >= msg[p].ts
        BY <1>4, <2>1, <2>3, <3>1
      <3> QED
        BY <3>1, <3>2 DEF Setting
    <2> QED
      BY <2>2, <2>3
  <1>8. PartOfMessage'
    BY <1>1, <1>2 DEF RecContext, RecInv, PartOfMessage, Active
  <1>9. HandlersWait'
    <2>1. Main \in Procs
      BY DEF Procs
    <2> QED
      BY <1>1, <1>2, <2>1 DEF RecContext, RecInv, HandlersWait
  <1> QED
    BY <1>6, <1>7, <1>8, <1>9 DEF RecInv

\* At the end the map is as recent as the file.
LEMMA RecFinish ==
  ASSUME RecContext, TypeInv', NEW p \in Procs, EndLoading(p) \/ Enqueue(p)
  PROVE  RecInv'
  <1>1. /\ \/ pc' = [pc EXCEPT ![p] = "enqueue"] /\ UNCHANGED <<cur, msg, idx>>
           \/ Finish(p)
        /\ pc[p] \in {"update", "enqueue"}
        /\ pc[p] = "update" => idx[p] > Len(msg[p].keys)
        /\ UNCHANGED <<values, disk, content, phase, toLoad>>
    BY DEF EndLoading, Enqueue, storeVars, diskVars, mainVars
  <1>2. /\ \A q \in Procs : q # p => /\ pc'[q] = pc[q] /\ cur'[q] = cur[q]
                                     /\ msg'[q] = msg[q] /\ idx'[q] = idx[q]
        /\ pc'[p] \in {"idle", "enqueue"}
    BY <1>1 DEF RecContext, TypeInv, TypeOK, Finish
  <1>3. AppliedCovered'
    <2> SUFFICES ASSUME NEW f \in disk \ toLoad, content[f].loadable, ~Held(f)'
                 PROVE  Covered(f)
      BY <1>1 DEF AppliedCovered, Covered
    <2>1. CASE ~Held(f)
      BY <2>1 DEF RecContext, RecInv, AppliedCovered
    <2>2. CASE Held(f)
      <3>1. cur[p] = f /\ Active(p) /\ pc[p] = "update"
        BY <1>1, <1>2, <2>2 DEF Held, Opening, Active
      <3>2. /\ msg[p].keys \in Seq(Keys) /\ idx[p] \in Nat
            /\ \A i \in DOMAIN msg[p].keys :
                  values[msg[p].keys[i]].lastUpdated >= msg[p].ts
        BY <1>1, <3>1 DEF RecContext, RecInv, SettingsCovered, TypeInv, TypeOK,
                          Content
      <3>3. /\ content[f].ts = msg[p].ts
            /\ \A i \in DOMAIN content[f].keys :
                  /\ i \in DOMAIN msg[p].keys
                  /\ content[f].keys[i] = msg[p].keys[i]
        BY <3>1 DEF RecContext, RecInv, PartOfMessage
      <3> QED
        BY <3>2, <3>3 DEF Covered
    <2> QED
      BY <2>1, <2>2
  <1>4. SettingsCovered' /\ PartOfMessage'
    BY <1>1, <1>2 DEF RecContext, RecInv, SettingsCovered, PartOfMessage, Active
  <1>5. HandlersWait'
    <2>1. Main \in Procs
      BY DEF Procs
    <2> QED
      BY <1>1, <1>2, <2>1 DEF RecContext, RecInv, HandlersWait
  <1> QED
    BY <1>3, <1>4, <1>5 DEF RecInv

\* The worker takes nothing that anybody has yet to apply.
LEMMA RecWorkerRemove ==
  ASSUME RecContext, TypeInv', WorkerRemove
  PROVE  RecInv'
  <1>1. /\ wpc = "remove"
        /\ UNCHANGED <<values, phase, toLoad, pc, cur, msg, idx>>
        /\ \/ disk' = disk \ {wfile}
              /\ content' = [content EXCEPT ![wfile] = NoContent]
           \/ UNCHANGED <<disk, content>>
    BY DEF WorkerRemove, storeVars, diskVars, mainVars, procVars
  <1>2. Grown
    BY <1>1, TimesGrow DEF RecContext
  <1>3. CASE UNCHANGED <<disk, content>>
    BY <1>1, <1>2, <1>3, RecFrame
  <1>4. CASE disk' = disk \ {wfile}
             /\ content' = [content EXCEPT ![wfile] = NoContent]
    <2>1. \A f \in disk' : /\ f \in disk /\ f \in Files
                           /\ content'[f] = content[f]
      BY <1>4 DEF RecContext, TypeInv, TypeOK
    <2>2. AppliedCovered'
      <3> SUFFICES ASSUME NEW f \in disk' \ toLoad', content'[f].loadable,
                          ~Held(f)'
                   PROVE  Covered(f)'
        BY DEF AppliedCovered
      <3>1. ~Held(f) /\ f \in disk \ toLoad
        BY <1>1, <2>1 DEF Held, Opening, Active
      <3>2. Covered(f)
        BY <2>1, <3>1 DEF RecContext, RecInv, AppliedCovered
      <3> QED
        BY <1>2, <2>1, <3>2, CoveredKept DEF RecContext
    <2>3. SettingsCovered' /\ PartOfMessage' /\ HandlersWait'
      BY <1>1, <2>1
         DEF RecContext, RecInv, SettingsCovered, PartOfMessage, HandlersWait,
             Active
    <2> QED
      BY <2>2, <2>3 DEF RecInv
  <1> QED
    BY <1>1, <1>3, <1>4

\* Nothing of what is about to be replayed is applied yet.
LEMMA RecEmpty ==
  EmptyMemory /\ toLoad = Listed(disk, content) => RecInv
  BY DEF EmptyMemory, Listed, RecInv, AppliedCovered, SettingsCovered,
         PartOfMessage, HandlersWait, Active, Procs

LEMMA RecRestart ==
  ASSUME Restart
  PROVE  RecInv'
  <1>1. EmptyMemory' /\ toLoad' = Listed(disk, content)
        /\ UNCHANGED <<disk, content>>
    BY DEF Restart, EmptyMemory, diskVars
  <1>2. (EmptyMemory /\ toLoad = Listed(disk, content) => RecInv)'
    BY RecEmpty, PTL
  <1> QED
    BY <1>1, <1>2 DEF Listed

LEMMA RecStep ==
  ASSUME RecContext, TypeInv', [Next]_vars
  PROVE  RecInv'
  <1>1. CASE \E p \in Procs, m \in Messages, f \in Files : OpenProto(p, m, f)
    BY <1>1, RecOpenProto
  <1>2. ASSUME NEW p \in Procs, Step(p)
        PROVE  RecInv'
    BY <1>2, RecWriteProto, RecAdvance, RecFinish DEF Step
  <1>3. CASE Load
    BY <1>3, RecLoad
  <1>4. CASE WorkerRemove
    BY <1>4, RecWorkerRemove
  <1>5. CASE WorkerReceive \/ RemoveFileReferences \/ Subscriber
             \/ UNCHANGED vars
    <2>1. UNCHANGED <<values, disk, content, phase, toLoad, pc, cur, msg, idx>>
      BY <1>5, SubscriberFrame
         DEF WorkerReceive, RemoveFileReferences, vars, storeVars, diskVars,
             mainVars, procVars
    <2>2. Grown
      BY <2>1, TimesGrow DEF RecContext
    <2> QED
      BY <2>1, <2>2, RecFrame
  <1>6. CASE Restart
    BY <1>6, RecRestart
  <1> QED
    BY <1>1, <1>2, <1>3, <1>4, <1>5, <1>6 DEF Next, Worker, Subscriber

LEMMA RecInvariant == Spec => []RecContext
  <1>1. Init => RecInv
    BY RecEmpty DEF Init, EmptyMemory
  <1>2. RecContext /\ TypeInv' /\ [Next]_vars => RecInv'
    BY RecStep
  <1> QED
    BY <1>1, <1>2, RefInvariant, OrderInvariant, PTL DEF Spec, RecContext

\* The map that is served, also after a restart, is as recent as every file on
\* the disk that the replay can read and that nobody is applying: whatever was
\* torn by a failed write, could not be removed or was removed, and in
\* whatever order the handlers and the worker went about it.
THEOREM ServesTheLatest == Spec => []Recovered
  <1>1. RecContext => Recovered
    <2> SUFFICES ASSUME RecContext, phase = "serving", NEW f \in disk,
                        content[f].loadable, Settled(f)
                 PROVE  Covered(f)
      BY DEF Recovered, Covered
    <2>1. f \notin toLoad
      BY DEF RecContext, RefInv, ToLoadFresh
    <2>2. ~Held(f)
      BY DEF Settled, Held, Opening, Active
    <2> QED
      BY <2>1, <2>2 DEF RecContext, RecInv, AppliedCovered
  <1> QED
    BY <1>1, RecInvariant, PTL

-----------------------------------------------------------------------------
(* The store implements the durable map. *)

Inv == RecContext /\ DurInv /\ CleanRun

\* The map has caught up with every file that nobody has yet to apply.
LEMMA DiskCovered ==
  ASSUME Inv, NEW f \in disk \ toLoad, ~Held(f)
  PROVE  Covered(f)
  BY DEF Inv, RecContext, RecInv, AppliedCovered, DurInv, DiskReplayable

Known == {kt \in Keys \X Times :
            \E f \in disk : Carries(f, kt[1]) /\ kt[2] <= content[f].ts}
Seen == {kt \in Keys \X Times : kt[2] <= values[kt[1]].lastUpdated}

\* A step that the abstract map does not see.
LEMMA Stutter ==
  ASSUME Known' = Known, Seen' = Seen,
         (phase = "serving")' <=> (phase = "serving")
  PROVE  UNCHANGED DM!vars
  BY DEF DM!vars, Known, Seen

-----------------------------------------------------------------------------
(* Saving a payload *)

LEMMA DurOpenProto ==
  ASSUME Inv, TypeInv', NEW p \in Procs, NEW m \in Messages,
         NEW f \in Files, OpenProto(p, m, f)
  PROVE  DurInv' /\ UNCHANGED DM!vars
  <1>1. /\ pc' = [pc EXCEPT ![p] = "write"] /\ pc[p] = "idle"
        /\ cur' = [cur EXCEPT ![p] = f]
        /\ msg' = [msg EXCEPT ![p] = m]
        /\ disk' = disk \cup {f}
        /\ content' = [content EXCEPT ![f] = Created(m)]
        /\ p \in Handlers /\ phase = "serving"
        /\ f \notin disk /\ f \notin tracked
        /\ UNCHANGED <<values, mainVars, idx>>
    BY DEF OpenProto, Fresh, Inv, CleanRun, storeVars
  <1>2. /\ pc \in [Procs -> {"idle", "write", "start", "update", "blocked",
                             "enqueue"}]
        /\ cur \in [Procs -> Files \cup {NoFile}]
        /\ msg \in [Procs -> Content]
        /\ content \in [Files -> Content]
        /\ disk \subseteq Files
    BY DEF Inv, RecContext, TypeInv, TypeOK
  <1>3. /\ \A q \in Procs : q # p =>
              pc'[q] = pc[q] /\ cur'[q] = cur[q] /\ msg'[q] = msg[q]
        /\ pc'[p] = "write" /\ cur'[p] = f /\ msg'[p] = m
        /\ \A g \in Files : g # f => content'[g] = content[g]
        /\ content'[f] = Created(m)
        /\ Created(m).keys = <<>> /\ Created(m).ok /\ Created(m).loadable
    BY <1>1, <1>2 DEF Created, Inv, CleanRun
  <1>4. \A k \in Keys : Present(k) => values[k].sourceFile \in Files \ {f}
    BY <1>1 DEF Inv, RecContext, RefInv, FilesTracked, Present, TypeInv, TypeOK,
                TimestampedValue
  <1>5. \A q \in Procs : q # p /\ Busy(q) => cur[q] \in Files \ {f}
    BY <1>1 DEF OpenProto, Fresh, Inv, RecContext, TypeInv, ControlOK
  <1>6. DiskReplayable'
    BY <1>1, <1>2, <1>3 DEF Inv, DurInv, DiskReplayable
  <1>7. ValueCarried'
    BY <1>1, <1>3, <1>4 DEF Inv, DurInv, ValueCarried, Carries, Present
  <1>10. FileOfMessage'
    BY <1>1, <1>3, <1>5 DEF Inv, DurInv, FileOfMessage, Active, Busy
  <1>12. Known' = Known
    <2>1. \A g \in disk' : \A k : Carries(g, k)' =>
             g \in disk /\ Carries(g, k) /\ content'[g] = content[g]
      BY <1>1, <1>2, <1>3 DEF Carries
    <2>2. \A g \in disk : \A k : Carries(g, k) =>
             g \in disk' /\ Carries(g, k)' /\ content'[g] = content[g]
      BY <1>1, <1>2, <1>3 DEF Carries
    <2> QED
      BY <2>1, <2>2 DEF Known
  <1>13. UNCHANGED DM!vars
    BY <1>1, <1>12, Stutter DEF Seen, mainVars
  <1> QED
    BY <1>6, <1>7, <1>10, <1>13 DEF DurInv

\* The one step that the abstract map sees as Record.
LEMMA DurWriteProto ==
  ASSUME Inv, TypeInv', NEW p \in Procs, WriteProto(p)
  PROVE  DurInv' /\ DM!Next
  <1> DEFINE f == cur[p]
             m == msg[p]
  <1>1. /\ pc[p] = "write" /\ pc' = [pc EXCEPT ![p] = "start"]
        /\ content' = [content EXCEPT ![f] = m]
        /\ UNCHANGED <<values, disk, mainVars, cur, msg, idx>>
    BY DEF WriteProto, Inv, CleanRun, storeVars
  <1>2. /\ pc \in [Procs -> {"idle", "write", "start", "update", "blocked",
                             "enqueue"}]
        /\ content \in [Files -> Content]
        /\ disk \subseteq Files
        /\ f \in Files /\ f \in disk
    BY <1>1
       DEF Inv, RecContext, TypeInv, TypeOK, ControlOK, Busy, RefInv,
           UsedOnDisk, CleanRun, Opening
  <1>3. /\ content[f].keys = <<>> /\ m \in Messages
        /\ m.ok /\ m.loadable
        /\ m \in Content
    BY <1>1, MessagesAssumption DEF Inv, DurInv, FileOfMessage, CleanRun
  <1>4. /\ \A q \in Procs : q # p => pc'[q] = pc[q]
        /\ pc'[p] = "start"
        /\ \A g \in Files : g # f => content'[g] = content[g]
        /\ content'[f] = m
    BY <1>1, <1>2
  <1>5. \A k \in Keys : values[k].sourceFile # f
    BY <1>1 DEF Inv, RecContext, RefInv, OpeningFresh, Opening, Refers
  <1>6. \A q \in Procs : q # p /\ Busy(q) => cur[q] \in Files \ {f}
    BY <1>1 DEF Inv, RecContext, RefInv, CurDistinct, TypeInv, ControlOK, Busy
  <1>7. DiskReplayable'
    BY <1>1, <1>2, <1>3, <1>4 DEF Inv, DurInv, DiskReplayable
  <1>8. ValueCarried'
    <2>1. \A k \in Keys : Present(k) => values[k].sourceFile \in Files
      BY DEF Inv, RecContext, TypeInv, TypeOK, TimestampedValue, Present
    <2> QED
      BY <1>1, <1>4, <1>5, <2>1 DEF Inv, DurInv, ValueCarried, Carries, Present
  <1>11. FileOfMessage'
    BY <1>1, <1>4, <1>6 DEF Inv, DurInv, FileOfMessage, Active, Busy
  <1>13. DM!Next
    <2> DEFINE K == {m.keys[i] : i \in DOMAIN m.keys}
    <2>1. K \in SUBSET Keys /\ m.ts \in Times
      BY <1>3 DEF Content
    <2>2. Known' = Known \cup {kt \in K \X Times : kt[2] <= m.ts}
      <3>1. \A g \in disk : \A k : g # f => (Carries(g, k)' <=> Carries(g, k))
        BY <1>2, <1>4 DEF Carries
      <3>2. \A k : Carries(f, k)' <=> k \in K
        BY <1>1, <1>4 DEF Carries
      <3>3. \A k : ~Carries(f, k)
        BY <1>3 DEF Carries
      <3>4. ASSUME NEW kt \in Keys \X Times
            PROVE  kt \in Known' <=> kt \in Known \/ (kt[1] \in K /\ kt[2] <= m.ts)
        <4>1. ASSUME kt \in Known'
              PROVE  kt \in Known \/ (kt[1] \in K /\ kt[2] <= m.ts)
          <5>1. PICK g \in disk : Carries(g, kt[1])' /\ kt[2] <= content'[g].ts
            BY <1>1, <4>1 DEF Known
          <5>2. CASE g = f
            BY <1>1, <1>4, <3>2, <5>1, <5>2 DEF Carries
          <5>3. CASE g # f
            <6>1. Carries(g, kt[1]) /\ kt[2] <= content[g].ts
              BY <1>2, <1>4, <3>1, <5>1, <5>3
            <6> QED
              BY <6>1 DEF Known
          <5> QED
            BY <5>2, <5>3
        <4>2. ASSUME kt \in Known
              PROVE  kt \in Known'
          <5>1. PICK g \in disk : Carries(g, kt[1]) /\ kt[2] <= content[g].ts
            BY <4>2 DEF Known
          <5>2. g # f
            BY <3>3, <5>1
          <5>3. Carries(g, kt[1])' /\ kt[2] <= content'[g].ts
            BY <1>2, <1>4, <3>1, <5>1, <5>2
          <5> QED
            BY <1>1, <5>3 DEF Known
        <4>3. ASSUME kt[1] \in K, kt[2] <= m.ts
              PROVE  kt \in Known'
          <5>1. Carries(f, kt[1])' /\ kt[2] <= content'[f].ts
            BY <1>4, <3>2, <4>3
          <5> QED
            BY <1>1, <1>2, <5>1 DEF Known
        <4> QED
          BY <4>1, <4>2, <4>3
      <3>5. Known' \subseteq Keys \X Times /\ Known \subseteq Keys \X Times
        BY DEF Known
      <3> QED
        BY <2>1, <3>4, <3>5
    <2>3. phase = "serving" /\ UNCHANGED <<Seen, phase>>
      <3>1. p # Main
        BY <1>1 DEF Inv, RecContext, RecInv, HandlersWait
      <3> QED
        BY <1>1, <3>1 DEF Inv, RecContext, RecInv, HandlersWait, Seen, mainVars
    <2>4. DM!Record(K, m.ts)
      BY <2>2, <2>3 DEF DM!Record, DM!Upto, Known, Seen
    <2>5. \E L \in SUBSET Keys, t \in Times : DM!Record(L, t)
      BY <2>1, <2>4 DEF DM!Record, DM!Upto
    <2> QED
      BY <2>5, ZenonT(30) DEF DM!Next
  <1> QED
    BY <1>7, <1>8, <1>11, <1>13 DEF DurInv

-----------------------------------------------------------------------------
(* The replay *)

LEMMA DurLoadNext ==
  ASSUME Inv, TypeInv', LoadNext
  PROVE  DurInv' /\ UNCHANGED DM!vars
  <1>1. /\ Main \in Procs
        /\ pc[Main] = "idle" /\ phase = "loading"
        /\ pc \in [Procs -> {"idle", "write", "start", "update", "blocked",
                             "enqueue"}]
        /\ cur \in [Procs -> Files \cup {NoFile}]
        /\ msg \in [Procs -> Content]
        /\ \A q \in Procs \ {Main} : pc[q] = "idle"
        /\ UNCHANGED <<values, disk, content, idx>>
    BY DEF LoadNext, Inv, RecContext, RecInv, HandlersWait, TypeInv, TypeOK,
           Procs,
           diskVars, storeVars
  <1>2. CASE phase' = "exited" /\ UNCHANGED <<toLoad, pc, cur, msg>>
    <2>1. DurInv'
      BY <1>1, <1>2
         DEF Inv, DurInv, DiskReplayable, ValueCarried, FileOfMessage,
             Carries, Present, Active
    <2>2. UNCHANGED DM!vars
      BY <1>1, <1>2, Stutter DEF Known, Seen, Carries
    <2> QED
      BY <2>1, <2>2
  <1>3. ASSUME NEW f \in toLoad, f \in disk,
               toLoad' = toLoad \ {f},
               pc' = [pc EXCEPT ![Main] = "start"],
               cur' = [cur EXCEPT ![Main] = f],
               msg' = [msg EXCEPT ![Main] = content[f]],
               UNCHANGED phase
        PROVE  DurInv' /\ UNCHANGED DM!vars
    <2>1. /\ \A q \in Procs : q # Main => pc'[q] = "idle"
          /\ pc'[Main] = "start" /\ cur'[Main] = f
          /\ msg'[Main] = content[f]
      BY <1>1, <1>3
    <2>2. DiskReplayable' /\ ValueCarried'
      BY <1>1 DEF Inv, DurInv, DiskReplayable, ValueCarried, Carries, Present
    <2>4. FileOfMessage'
      BY <1>1, <2>1 DEF FileOfMessage, Active
    <2>6. UNCHANGED DM!vars
      BY <1>1, <1>3, Stutter DEF Known, Seen, Carries
    <2> QED
      BY <2>2, <2>4, <2>6 DEF DurInv
  <1> QED
    BY <1>2, <1>3 DEF LoadNext

\* The end of the replay: the map has caught up with the disk.
LEMMA DurLoadDone ==
  ASSUME Inv, TypeInv', LoadDone
  PROVE  DurInv' /\ DM!Next
  <1>1. /\ phase = "loading" /\ phase' = "serving"
        /\ toLoad = {}
        /\ \A q \in Procs : pc[q] = "idle"
        /\ UNCHANGED <<storeVars, deletionQueue, diskVars, toLoad, procVars>>
    BY DEF LoadDone, Inv, RecContext, RecInv, HandlersWait
  <1>2. DurInv'
    BY <1>1
       DEF Inv, DurInv, DiskReplayable, ValueCarried, FileOfMessage, Carries,
           Present, Active, storeVars, diskVars, procVars
  <1>3. Seen = Known
    <2>1. ASSUME NEW kt \in Keys \X Times, kt \in Seen
          PROVE  kt \in Known
      <3> DEFINE k == kt[1]
                 f == values[k].sourceFile
      <3>0. k \in Keys /\ kt[2] \in Times
        OBVIOUS
      <3>1. kt[2] \in Int /\ kt[2] >= 0 /\ kt[2] <= values[k].lastUpdated
        <4>1. kt[2] \in Int /\ kt[2] >= 0
          BY <3>0, TimesCompare DEF Inv, RecContext, TypeInv
        <4>2. kt[2] <= values[k].lastUpdated
          BY <2>1 DEF Seen
        <4> QED
          BY <4>1, <4>2
      <3>2. Present(k)
        BY <3>0, <3>1 DEF Inv, DurInv, ValueCarried, ZeroTime
      <3>3. f \in disk /\ Carries(f, k) /\ content[f].ts = values[k].lastUpdated
        BY <3>1, <3>2
           DEF Inv, RecContext, DurInv, ValueCarried, RefInv, UsedOnDisk,
               CleanRun
      <3> QED
        BY <3>1, <3>3 DEF Known
    <2>2. ASSUME NEW kt \in Keys \X Times, kt \in Known
          PROVE  kt \in Seen
      <3>1. PICK f \in disk : Carries(f, kt[1]) /\ kt[2] <= content[f].ts
        BY <2>2 DEF Known
      <3>2. Covered(f)
        BY <1>1, DiskCovered DEF Held, Opening, Active
      <3>3. values[kt[1]].lastUpdated >= content[f].ts
        BY <3>1, <3>2 DEF Covered, Carries
      <3>4. /\ values[kt[1]].lastUpdated \in Int
            /\ content[f].ts \in Int /\ kt[2] \in Int
        BY TimesCompare DEF Inv, RecContext, TypeInv, TypeOK
      <3> QED
        BY <3>1, <3>3, <3>4 DEF Seen
    <2>3. Seen \subseteq Keys \X Times /\ Known \subseteq Keys \X Times
      BY DEF Seen, Known
    <2> QED
      BY <2>1, <2>2, <2>3
  <1>4. UNCHANGED <<Known, Seen>>
    BY <1>1 DEF Known, Seen, Carries, storeVars, diskVars
  <1>5. DM!Serve
    BY <1>1, <1>3, <1>4 DEF DM!Serve, Known, Seen
  <1> QED
    BY <1>2, <1>5 DEF DM!Next

-----------------------------------------------------------------------------
(* addAllConfigSettings *)

\* A step that changes neither the map, the disk nor the progress of anybody
\* who applies a file.
LEMMA DurFrame ==
  ASSUME DurInv, UNCHANGED <<values, disk, content, phase, toLoad, pc, cur,
                             msg, idx>>
  PROVE  DurInv' /\ UNCHANGED DM!vars
  <1>1. DurInv'
    BY DEF DurInv, DiskReplayable, ValueCarried, FileOfMessage, Carries,
           Present, Active
  <1>2. UNCHANGED DM!vars
    BY Stutter DEF Known, Seen, Carries
  <1> QED
    BY <1>1, <1>2

LEMMA DurProgress ==
  ASSUME Inv, NEW p \in Procs,
         StartLoading(p) \/ UpdateStale(p) \/ UpdateBlock(p)
  PROVE  DurInv' /\ UNCHANGED DM!vars
  <1>1. /\ pc[p] \in {"start", "update"}
        /\ pc' \in {[pc EXCEPT ![p] = "update"], [pc EXCEPT ![p] = "blocked"], pc}
        /\ UNCHANGED <<values, disk, content, phase, toLoad, cur, msg>>
    BY DEF StartLoading, UpdateStale, UpdateBlock, AtSetting, diskVars, mainVars
  <1>2. \A q \in Procs : /\ pc'[q] = "write" => pc[q] = "write"
                         /\ (pc[q] = "start" \/ Active(q))'
                               => pc[q] = "start" \/ Active(q)
    BY <1>1 DEF Inv, RecContext, TypeInv, TypeOK, Active
  <1>3. DiskReplayable' /\ ValueCarried'
    BY <1>1 DEF Inv, DurInv, DiskReplayable, ValueCarried, Carries, Present
  <1>4. FileOfMessage'
    BY <1>1, <1>2 DEF Inv, DurInv, FileOfMessage, Active
  <1>5. UNCHANGED DM!vars
    BY <1>1, Stutter DEF Known, Seen, Carries
  <1> QED
    BY <1>3, <1>4, <1>5 DEF DurInv

\* An assignment to the map, which the abstract map sees as Apply.
LEMMA DurStore ==
  ASSUME Inv, TypeInv', NEW p \in Procs,
         Active(p),
         idx[p] \in DOMAIN msg[p].keys,
         values[Setting(p)].lastUpdated <= msg[p].ts,
         values' = [values EXCEPT ![Setting(p)] =
                      [sourceFile |-> cur[p], lastUpdated |-> msg[p].ts]],
         \A q \in Procs : pc[q] = "blocked" => q = p,
         pc' = [pc EXCEPT ![p] = "update"],
         idx' = [idx EXCEPT ![p] = @ + 1],
         UNCHANGED <<disk, content, phase, toLoad, cur, msg>>
  PROVE  DurInv' /\ DM!Next
  <1> DEFINE k == Setting(p)
             ts == msg[p].ts
  <1>1. /\ pc \in [Procs -> {"idle", "write", "start", "update", "blocked",
                             "enqueue"}]
        /\ idx \in [Procs -> Nat]
        /\ values \in [Keys -> TimestampedValue]
        /\ cur[p] \in Files
        /\ \A q \in Procs : msg[q].keys \in Seq(Keys)
        /\ ts \in Times
    BY DEF Inv, RecContext, TypeInv, TypeOK, Content, ControlOK, Active, Busy
  <1>2. k \in Keys
    BY <1>1 DEF Setting
  <1>3. /\ \A q \in Procs : q # p => pc'[q] = pc[q] /\ idx'[q] = idx[q]
        /\ pc'[p] = "update" /\ idx'[p] = idx[p] + 1
    BY <1>1
  <1>4. /\ \A j \in Keys : j # k => values'[j] = values[j]
        /\ values'[k].sourceFile = cur[p]
        /\ values'[k].lastUpdated = ts
    BY <1>1, <1>2
  <1>5. \A j \in Keys : /\ values[j].lastUpdated \in Int
                        /\ values'[j].lastUpdated \in Int
                        /\ values'[j].lastUpdated >= values[j].lastUpdated
    BY <1>1, <1>4, TimesCompare DEF Inv, RecContext, TypeInv
  <1>6. content[cur[p]] = msg[p] /\ cur[p] \in disk
    BY DEF Inv, RecContext, DurInv, FileOfMessage, RefInv, UsedOnDisk, CleanRun
  <1>7. \A q \in Procs : (Opening(q) \/ Active(q))' <=> Opening(q) \/ Active(q)
    BY <1>3 DEF Opening, Active
  <1>8. DiskReplayable'
    BY DEF Inv, DurInv, DiskReplayable
  <1>9. ValueCarried'
    <2>1. \A g, j : Carries(g, j)' <=> Carries(g, j)
      BY DEF Carries
    <2>2. Carries(cur[p], k)
      BY <1>6 DEF Carries, Setting
    <2> QED
      BY <1>1, <1>2, <1>4, <1>6, <2>1, <2>2, FilesAssumption
         DEF Inv, DurInv, ValueCarried, Present
  <1>12. FileOfMessage'
    BY <1>3 DEF Inv, DurInv, FileOfMessage, Active
  <1>13. DM!Apply(k, ts)
    <2>1. Known' = Known
      BY DEF Known, Carries
    <2>2. DM!Upto({k}, ts) \subseteq Known
      BY <1>2, <1>6 DEF DM!Upto, Known, Carries, Setting
    <2>3. ASSUME NEW kt \in Keys \X Times
          PROVE  kt \in Seen' <=> kt \in Seen \/ kt \in DM!Upto({k}, ts)
      <3>0. kt[1] \in Keys /\ kt[2] \in Times
        OBVIOUS
      <3>1. kt[1] \in Keys /\ kt[2] \in Int /\ ts \in Int
        BY <1>1, <3>0, TimesCompare DEF Inv, RecContext, TypeInv
      <3>2. CASE kt[1] = k
        BY <1>4, <1>5, <3>1, <3>2 DEF Seen, DM!Upto
      <3>3. CASE kt[1] # k
        BY <1>4, <3>1, <3>3 DEF Seen, DM!Upto
      <3> QED
        BY <3>2, <3>3
    <2>4. Seen' = Seen \cup DM!Upto({k}, ts)
      <3>1. /\ Seen' \subseteq Keys \X Times /\ Seen \subseteq Keys \X Times
            /\ DM!Upto({k}, ts) \subseteq Keys \X Times
        BY <1>2 DEF Seen, DM!Upto
      <3> QED
        BY <2>3, <3>1
    <2> QED
      BY <2>1, <2>2, <2>4 DEF DM!Apply, DM!Upto, Known, Seen
  <1>14. \E j \in Keys, t \in Times : DM!Apply(j, t)
    BY <1>1, <1>2, <1>13 DEF DM!Apply, DM!Upto
  <1> QED
    BY <1>8, <1>9, <1>12, <1>14, ZenonT(30) DEF DurInv, DM!Next

LEMMA DurUpdateStore ==
  ASSUME Inv, TypeInv', NEW p \in Procs, UpdateStore(p)
  PROVE  DurInv' /\ DM!Next
  <1>1. /\ values' = [values EXCEPT ![Setting(p)] =
                        [sourceFile |-> cur[p], lastUpdated |-> msg[p].ts]]
        /\ pc[p] = "update" /\ idx[p] <= Len(msg[p].keys)
        /\ \A q \in Procs : pc[q] # "blocked"
        /\ ~Stale(Setting(p), msg[p].ts)
        /\ idx' = [idx EXCEPT ![p] = @ + 1]
        /\ UNCHANGED <<disk, content, phase, toLoad, pc, cur, msg>>
    BY DEF UpdateStore, Store, AtSetting, LockFree, diskVars, mainVars
  <1>2. /\ pc \in [Procs -> {"idle", "write", "start", "update", "blocked",
                             "enqueue"}]
        /\ idx[p] \in Nat /\ idx[p] # 0
        /\ msg[p].keys \in Seq(Keys)
        /\ msg[p].ts \in Int /\ msg[p].ts >= 0
    BY <1>1, TimesCompare
       DEF Inv, RecContext, TypeInv, TypeOK, Content, ControlOK, Active
  <1>3. pc' = [pc EXCEPT ![p] = "update"]
    BY <1>1, <1>2
  <1>4. idx[p] \in DOMAIN msg[p].keys
    BY <1>1, <1>2
  <1>5. Setting(p) \in Keys
    BY <1>2, <1>4 DEF Setting
  <1>6. values[Setting(p)].lastUpdated <= msg[p].ts
    <2>1. CASE Present(Setting(p))
      BY <1>1, <1>2, <1>5, <2>1, TimesCompare
         DEF Stale, Inv, RecContext, TypeInv
    <2>2. CASE ~Present(Setting(p))
      BY <1>2, <1>5, <2>2 DEF Inv, DurInv, ValueCarried, ZeroTime
    <2> QED
      BY <2>1, <2>2
  <1> QED
    BY <1>1, <1>3, <1>4, <1>6, DurStore DEF Active

LEMMA DurUpdateResume ==
  ASSUME Inv, TypeInv', NEW p \in Procs, UpdateResume(p)
  PROVE  DurInv' /\ DM!Next
  <1>1. /\ values' = [values EXCEPT ![Setting(p)] =
                        [sourceFile |-> cur[p], lastUpdated |-> msg[p].ts]]
        /\ pc[p] = "blocked" /\ pc' = [pc EXCEPT ![p] = "update"]
        /\ idx' = [idx EXCEPT ![p] = @ + 1]
        /\ UNCHANGED <<disk, content, phase, toLoad, cur, msg>>
    BY DEF UpdateResume, Store, diskVars, mainVars
  <1>2. /\ idx[p] \in DOMAIN msg[p].keys
        /\ \A q \in Procs : pc[q] = "blocked" => q = p
    BY <1>1 DEF Inv, RecContext, TypeInv, BlockedOK
  <1>3. values[Setting(p)].lastUpdated <= msg[p].ts
    BY <1>1 DEF Inv, RecContext, OrderInv, BlockedNotStale
  <1> QED
    BY <1>1, <1>2, <1>3, DurStore DEF Active

LEMMA DurFinish ==
  ASSUME Inv, NEW p \in Procs, EndLoading(p) \/ Enqueue(p)
  PROVE  DurInv' /\ UNCHANGED DM!vars
  <1>1. /\ \/ pc' = [pc EXCEPT ![p] = "enqueue"] /\ UNCHANGED <<cur, msg>>
           \/ Finish(p)
        /\ UNCHANGED <<values, disk, content, phase, toLoad>>
    BY DEF EndLoading, Enqueue, storeVars, diskVars, mainVars
  <1>2. /\ \A q \in Procs : q # p =>
              pc'[q] = pc[q] /\ cur'[q] = cur[q] /\ msg'[q] = msg[q]
        /\ pc'[p] \in {"idle", "enqueue"}
    BY <1>1 DEF Inv, RecContext, TypeInv, TypeOK, Finish
  <1>3. DiskReplayable' /\ ValueCarried'
    BY <1>1 DEF Inv, DurInv, DiskReplayable, ValueCarried, Carries, Present
  <1>4. FileOfMessage'
    BY <1>1, <1>2 DEF Inv, DurInv, FileOfMessage, Active
  <1>5. UNCHANGED DM!vars
    BY <1>1, Stutter DEF Known, Seen, Carries
  <1> QED
    BY <1>3, <1>4, <1>5 DEF DurInv

-----------------------------------------------------------------------------
(* The worker and the rest *)

\* Removing a file nobody refers to loses nothing: each setting it carries has
\* a value that is at least as recent, whose file stays.
LEMMA DurWorkerRemove ==
  ASSUME Inv, TypeInv', WorkerRemove
  PROVE  DurInv' /\ UNCHANGED DM!vars
  <1>1. /\ wpc = "remove"
        /\ UNCHANGED <<storeVars, mainVars, procVars>>
        /\ \/ /\ wfile \in disk /\ disk' = disk \ {wfile}
              /\ content' = [content EXCEPT ![wfile] = NoContent]
           \/ UNCHANGED <<disk, content>>
    BY DEF WorkerRemove, diskVars
  <1>2. CASE UNCHANGED <<disk, content>>
    BY <1>1, <1>2, DurFrame DEF Inv, storeVars, mainVars, procVars
  <1>3. CASE wfile \in disk /\ disk' = disk \ {wfile}
             /\ content' = [content EXCEPT ![wfile] = NoContent]
    <2>1. /\ content \in [Files -> Content] /\ disk \subseteq Files
          /\ wfile \in Files
          /\ values \in [Keys -> TimestampedValue]
      BY <1>1 DEF Inv, RecContext, TypeInv, TypeOK, ControlOK
    <2>2. \A g \in Files : g # wfile => content'[g] = content[g]
      BY <1>3, <2>1
    <2>3. wfile \in Doomed
      BY <2>1, FilesAssumption DEF Doomed
    <2>4. /\ \A k \in Keys : values[k].sourceFile # wfile
          /\ wfile \notin toLoad
          /\ \A q \in Procs : Opening(q) \/ Active(q) => cur[q] # wfile
      BY <2>3 DEF Inv, RecContext, RefInv, DoomedUnused, Refers, ToLoadFresh,
                  OpeningFresh, ActiveLoading
    <2>5. Covered(wfile)
      BY <1>3, <2>4, DiskCovered DEF Held
    <2>6. \A k \in Keys : Present(k) => values[k].sourceFile \in disk'
      BY <1>3, <2>4 DEF Inv, RecContext, RefInv, UsedOnDisk, CleanRun
    <2>7. DiskReplayable'
      BY <1>3, <2>1, <2>2 DEF Inv, DurInv, DiskReplayable
    <2>8. ValueCarried'
      <3>1. \A k \in Keys : Present(k) =>
               content'[values[k].sourceFile] = content[values[k].sourceFile]
        BY <2>1, <2>2, <2>4 DEF Present, TimestampedValue
      <3> QED
        BY <1>1, <3>1 DEF Inv, DurInv, ValueCarried, Carries, Present, storeVars
    <2>10. FileOfMessage'
      <3>1. \A q \in Procs : Opening(q) \/ Active(q) =>
               content'[cur[q]] = content[cur[q]]
        BY <2>2, <2>4
           DEF Opening, Active, Busy, Inv, RecContext, TypeInv, ControlOK
      <3> QED
        BY <1>1, <3>1 DEF Inv, DurInv, FileOfMessage, Opening, Active, procVars
    <2>12. Known' = Known
      <3>1. ASSUME NEW kt \in Keys \X Times, kt \in Known'
            PROVE  kt \in Known
        <4>1. PICK g \in disk' : Carries(g, kt[1])' /\ kt[2] <= content'[g].ts
          BY <3>1 DEF Known
        <4>2. g \in disk /\ content'[g] = content[g]
          BY <1>3, <2>1, <2>2
        <4> QED
          BY <4>1, <4>2 DEF Known, Carries
      <3>2. ASSUME NEW kt \in Keys \X Times, kt \in Known
            PROVE  kt \in Known'
        <4>1. PICK g \in disk : Carries(g, kt[1]) /\ kt[2] <= content[g].ts
          BY <3>2 DEF Known
        <4>2. CASE g # wfile
          <5>1. g \in disk' /\ content'[g] = content[g]
            BY <1>3, <2>1, <2>2, <4>2
          <5> QED
            BY <4>1, <5>1 DEF Known, Carries
        <4>3. CASE g = wfile
          <5> DEFINE k == kt[1]
                     h == values[k].sourceFile
          <5>1. k \in Keys /\ kt[2] \in Times
            OBVIOUS
          <5>2. values[k].lastUpdated >= content[g].ts
            BY <2>5, <4>1, <4>3 DEF Covered, Carries
          <5>3. /\ kt[2] \in Int /\ kt[2] >= 0 /\ content[g].ts \in Int
                /\ values[k].lastUpdated \in Int
            BY <2>1, <5>1, TimesCompare DEF Inv, RecContext, TypeInv
          <5>4. kt[2] <= values[k].lastUpdated
            BY <4>1, <5>2, <5>3
          <5>5. Present(k)
            BY <5>1, <5>3, <5>4 DEF Inv, DurInv, ValueCarried, ZeroTime
          <5>6. /\ Carries(h, k) /\ content[h].ts = values[k].lastUpdated
                /\ h \in disk'
            BY <2>6, <5>1, <5>5 DEF Inv, DurInv, ValueCarried
          <5>7. h \in Files /\ h # wfile
            BY <1>3, <2>1, <5>6
          <5>8. content'[h] = content[h]
            BY <2>2, <5>7
          <5>9. /\ \E i \in DOMAIN content'[h].keys : content'[h].keys[i] = k
                /\ kt[2] <= content'[h].ts
            BY <5>4, <5>6, <5>8 DEF Carries
          <5>10. \E f \in disk' : Carries(f, k)' /\ kt[2] <= content'[f].ts
            BY <5>6, <5>9 DEF Carries
          <5> QED
            BY <5>10 DEF Known
        <4> QED
          BY <4>2, <4>3
      <3>3. Known \subseteq Keys \X Times /\ Known' \subseteq Keys \X Times
        BY DEF Known
      <3> QED
        BY <3>1, <3>2, <3>3
    <2>13. UNCHANGED DM!vars
      BY <1>1, <2>12, Stutter DEF Seen, storeVars, mainVars
    <2> QED
      BY <2>7, <2>8, <2>10, <2>13 DEF DurInv
  <1> QED
    BY <1>1, <1>2, <1>3

\* An empty map has seen nothing.
LEMMA DurEmpty ==
  EmptyMemory /\ TypeOK /\ DiskReplayable => DurInv /\ Seen = {}
  <1> SUFFICES ASSUME EmptyMemory, TypeOK, DiskReplayable
               PROVE  DurInv /\ Seen = {}
    OBVIOUS
  <1>1. /\ \A q \in Procs : pc[q] = "idle"
        /\ \A k \in Keys : values[k] = NoValue
    BY DEF EmptyMemory
  <1>2. ValueCarried /\ FileOfMessage
    BY <1>1 DEF ValueCarried, FileOfMessage, NoValue, Present, Active
  <1>3. Seen = {}
    <2>1. \A t \in Times : t \in Int /\ t >= 0
      BY TimesCompare
    <2>2. \A kt \in Keys \X Times : ~(kt[2] <= values[kt[1]].lastUpdated)
      BY <1>1, <2>1 DEF NoValue, ZeroTime
    <2> QED
      BY <2>2 DEF Seen
  <1> QED
    BY <1>2, <1>3 DEF DurInv

LEMMA DurRestart ==
  ASSUME Inv, TypeInv', Restart
  PROVE  DurInv' /\ DM!Next
  <1>1. /\ EmptyMemory' /\ phase' = "loading"
        /\ UNCHANGED <<disk, content>>
    BY DEF Restart, EmptyMemory, diskVars
  <1>2. TypeOK' /\ DiskReplayable'
    BY <1>1 DEF Inv, RecContext, TypeInv, DurInv, DiskReplayable
  <1>3. (EmptyMemory /\ TypeOK /\ DiskReplayable => DurInv /\ Seen = {})'
    BY DurEmpty, PTL
  <1>4. DurInv' /\ Seen' = {}
    BY <1>1, <1>2, <1>3
  <1>5. Known' = Known
    BY <1>1 DEF Known, Carries
  <1>6. DM!Restart
    BY <1>1, <1>4, <1>5 DEF DM!Restart, Known, Seen
  <1> QED
    BY <1>4, <1>6 DEF DM!Next

LEMMA DurInit ==
  ASSUME Init, TypeOK
  PROVE  DurInv /\ DM!Init
  <1>1. EmptyMemory /\ phase = "loading" /\ disk = {}
    BY DEF Init, EmptyMemory
  <1>2. DurInv /\ Seen = {}
    BY <1>1, DurEmpty DEF DiskReplayable
  <1>3. Known = {}
    BY <1>1 DEF Known
  <1> QED
    BY <1>1, <1>2, <1>3 DEF DM!Init, Known, Seen

LEMMA DurStep ==
  ASSUME Inv, TypeInv', [Next]_vars
  PROVE  DurInv' /\ [DM!Next]_(DM!vars)
  <1> DEFINE Goal == DurInv' /\ [DM!Next]_(DM!vars)
  <1>1. ASSUME NEW p \in Procs, NEW m \in Messages, NEW f \in Files,
               OpenProto(p, m, f)
        PROVE  Goal
    BY <1>1, DurOpenProto
  <1>2. ASSUME NEW p \in Procs, Step(p)
        PROVE  Goal
    BY <1>2, DurWriteProto, DurProgress, DurUpdateStore, DurUpdateResume,
       DurFinish DEF Step
  <1>3. CASE Load
    BY <1>3, DurLoadNext, DurLoadDone DEF Load
  <1>4. CASE WorkerRemove
    BY <1>4, DurWorkerRemove
  <1>5. CASE WorkerReceive \/ RemoveFileReferences \/ Subscriber
             \/ UNCHANGED vars
    <2>1. UNCHANGED <<values, disk, content, phase, toLoad, pc, cur, msg, idx>>
      BY <1>5, SubscriberFrame
         DEF WorkerReceive, RemoveFileReferences, vars, storeVars, diskVars,
             mainVars, procVars
    <2> QED
      BY <2>1, DurFrame DEF Inv
  <1>6. CASE Restart
    BY <1>6, DurRestart
  <1> QED
    BY <1>1, <1>2, <1>3, <1>4, <1>5, <1>6 DEF Next, Worker, Subscriber

LEMMA DurInvariant ==
  ASSUME CleanRun
  PROVE  Spec => [](RecContext /\ DurInv)
  <1>1. Init => DurInv
    BY DurInit, TypeInit
  <1>2. RecContext /\ DurInv /\ TypeInv' /\ [Next]_vars => DurInv'
    BY DurStep DEF Inv
  <1>3. RecContext => TypeInv
    BY DEF RecContext
  <1> QED
    BY <1>1, <1>2, <1>3, RecInvariant, PTL DEF Spec

\* With a disk that does not fail and payloads that decode and are replayed,
\* no file that the collector removes, in any interleaving and across any
\* restart, takes a setting with it: the directory and the map together are
\* the durable map.
THEOREM StoreIsDurable ==
  ASSUME CleanRun
  PROVE  Spec => ImplementsDurableMap
  <1>1. Init => DM!Init
    BY DurInit, TypeInit
  <1>2. RecContext /\ DurInv /\ TypeInv' /\ [Next]_vars
          => [DM!Next]_(DM!vars)
    BY DurStep DEF Inv
  <1>3. RecContext => TypeInv
    BY DEF RecContext
  <1> QED
    BY <1>1, <1>2, <1>3, DurInvariant, PTL
       DEF Spec, ImplementsDurableMap, DM!Spec

=============================================================================
