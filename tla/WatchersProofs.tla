---------------------------- MODULE WatchersProofs ----------------------------
(***************************************************************************)
(* What the watchers make of what they are told: each of them catches up   *)
(* with the store and none is ever ahead of it, for every set of settings, *)
(* files, payloads, handlers and watchers, and for every capacity, as long *)
(* as the process lives.                                                   *)
(***************************************************************************)
EXTENDS Watchers, LoadedValuesProofs

AllChans == ValueChans \cup GlobalChans

\* A step of a watcher is a step of a subscriber, or leaves the store alone.
LEMMA FollowIsSubscriber ==
  ASSUME NEW c \in AllChans, Follow(c)
  PROVE  Subscriber \/ UNCHANGED vars
  <1>1. c \in OnChangeN \cup OnChangeRegex \cup Events => c \in ValueChans
    BY WatchersAssumption
  <1>2. CASE c \in OnChangeN /\ (\/ OnChangeNSubscribe(c) \/ OnChangeNRead(c)
                                 \/ OnChangeNReceive(c))
    BY <1>1, <1>2 DEF OnChangeNSubscribe, OnChangeNRead, OnChangeNReceive,
                      Subscriber
  <1>3. CASE c \in OnChangeRegex /\
                (\/ OnChangeRegexSubscribe(c) \/ OnChangeRegexRead(c)
                 \/ OnChangeRegexReceive(c))
    BY <1>1, <1>3 DEF OnChangeRegexSubscribe, OnChangeRegexRead,
                      OnChangeRegexReceive, Subscriber
  <1>4. CASE c \in GlobalChans /\
                (\/ OnAnyChangeSubscribe(c) \/ OnAnyChangeRead(c)
                 \/ OnAnyChangeReceive(c))
    BY <1>4 DEF OnAnyChangeSubscribe, OnAnyChangeRead, OnAnyChangeReceive,
                Subscriber
  <1>5. CASE c \in Events /\ (\/ \E k \in Keys : EventsGet(c, k)
                              \/ EventsSubscribe(c) \/ EventsReceive(c)
                              \/ EventsClose(c))
    BY <1>1, <1>5 DEF EventsGet, EventsSubscribe, EventsReceive, EventsClose,
                      Subscriber
  <1> QED
    BY <1>2, <1>3, <1>4, <1>5 DEF Follow

LEMMA WatchersStepStore == [WNext]_wvars => [Next]_vars
  <1> SUFFICES ASSUME [WNext]_wvars PROVE [Next]_vars
    OBVIOUS
  <1>1. CASE StoreStep
    BY <1>1 DEF StoreStep, Next
  <1>2. ASSUME NEW c \in AllChans, Follow(c)
        PROVE  [Next]_vars
    BY <1>2, FollowIsSubscriber DEF Next, Subscriber
  <1>3. CASE UNCHANGED wvars
    BY <1>3 DEF wvars
  <1> QED
    BY <1>1, <1>2, <1>3 DEF WNext, AllChans

\* The watchers use the store as it is meant to be used: a behaviour of the
\* whole is a behaviour of the store, and has all of the store's properties.
THEOREM WatchersKeepStore == WSpec => Spec
  <1>1. WInit => Init
    BY DEF WInit
  <1> QED
    BY <1>1, WatchersStepStore, PTL DEF WSpec, Spec

\* Nothing is dropped, and no baseline taken, by a step that changes no value.
LEMMA HistoryKept ==
  ASSUME RecordDrops, UNCHANGED <<values, globalLastUpdated>>
  PROVE  dropped' = dropped
  BY DEF RecordDrops

LEMMA BaselineKept ==
  ASSUME WTypeOK, RecordBaseline,
         \A c \in Events : watch[c] = "new" => watch'[c] # "running"
  PROVE  baseline' = baseline
  BY DEF RecordBaseline, WTypeOK

-----------------------------------------------------------------------------
(* Steps of the store *)

\* No channel is ever over its capacity.
LEMMA StoreStepTypes ==
  ASSUME TypeInv, TypeInv', OrderInv, WTypeOK, StoreOnly,
         UNCHANGED watcherVars, RecordDrops, RecordBaseline
  PROVE  WTypeOK'
  <1>1. ASSUME NEW c \in ValueChans
        PROVE  Len(chan'[c]) <= ChanCap
    <2>1. chan[c] \in Seq(Keys \X TimestampedValue) /\ Len(chan[c]) <= ChanCap
      BY DEF WTypeOK, TypeOK
    <2>2. ASSUME NEW k \in Keys, NEW tv \in TimestampedValue, Renew(k, tv)
          PROVE  Len(chan'[c]) <= ChanCap
      <3>1. Notify(k, tv) /\ TypeOK
        BY <2>2 DEF Renew, TypeInv
      <3>2. CASE chan'[c] = chan[c]
        BY <2>1, <3>2
      <3>3. CASE chan'[c] = Append(chan[c], <<k, tv>>) /\ Len(chan[c]) < ChanCap
        BY <2>1, <3>3, ChanAssumption
      <3> QED
        BY <3>1, <3>2, <3>3, NotifyEffect
    <2> QED
      BY <2>1, <2>2, StoreEffect DEF OrderInv, ValuesKept
  <1>2. ASSUME NEW c \in GlobalChans
        PROVE  Len(globalChan'[c]) <= ChanCap
    <2>1. globalChan[c] \in Seq(Times) /\ Len(globalChan[c]) <= ChanCap
      BY DEF WTypeOK, TypeOK
    <2>2. ASSUME NEW ts \in Times, Touch(ts)
          PROVE  Len(globalChan'[c]) <= ChanCap
      <3>1. TypeOK
        BY DEF TypeInv
      <3>2. CASE globalChan'[c] = globalChan[c]
        BY <2>1, <3>2
      <3>3. CASE globalChan'[c] = Append(globalChan[c], ts)
                   /\ Len(globalChan[c]) < ChanCap
        BY <2>1, <3>3, ChanAssumption
      <3> QED
        BY <2>2, <3>1, <3>2, <3>3, TouchEffect DEF TimeKept
    <2> QED
      BY <2>1, <2>2, StoreEffect DEF OrderInv, TimeKept
  <1>3. dropped' \subseteq ValueChans \cup GlobalChans
    BY DEF RecordDrops, WTypeOK
  <1>4. baseline' = baseline
    BY BaselineKept DEF watcherVars
  <1> QED
    BY <1>1, <1>2, <1>3, <1>4 DEF WTypeOK, watcherVars, TypeInv

\* The entries of a queue that one is added to.
LEMMA AppendEntries ==
  ASSUME NEW S, NEW q \in Seq(S), NEW v
  PROVE  /\ \A i \in DOMAIN q :
               i \in DOMAIN Append(q, v) /\ Append(q, v)[i] = q[i]
         /\ Len(q) + 1 \in DOMAIN Append(q, v)
         /\ Append(q, v)[Len(q) + 1] = v
         /\ \A i \in DOMAIN Append(q, v) :
               i \in DOMAIN q \/ i = Len(q) + 1
         /\ \A i \in DOMAIN q : i < Len(q) + 1
         /\ Len(Append(q, v)) = Len(q) + 1 /\ Append(q, v) # <<>>
  OBVIOUS

\* What is offered to a channel is what it asked for.
LEMMA RenewTopics ==
  ASSUME TypeInv, NEW k \in Keys, NEW tv \in TimestampedValue, Renew(k, tv),
         NEW c \in ValueChans,
         c \notin subscribed => chan[c] = <<>>,
         \A i \in DOMAIN chan[c] : chan[c][i][1] \in ChanKeys[c]
  PROVE  /\ c \notin subscribed => chan'[c] = <<>>
         /\ \A i \in DOMAIN chan'[c] : chan'[c][i][1] \in ChanKeys[c]
  <1>1. chan[c] \in Seq(Keys \X TimestampedValue)
    BY DEF TypeInv, TypeOK
  <1>2. CASE chan'[c] = chan[c]
    BY <1>2
  <1>3. CASE /\ chan'[c] = Append(chan[c], <<k, tv>>)
             /\ c \in subscribed /\ k \in ChanKeys[c]
    BY <1>1, <1>3, AppendEntries
  <1> QED
    BY <1>2, <1>3, NotifyEffect DEF Renew, TypeInv

\* A channel that does not drop the news of a value has it as its last.
LEMMA RenewKeeps ==
  ASSUME TypeInv, WTypeOK,
         NEW k \in Keys, NEW tv \in TimestampedValue, Renew(k, tv),
         RecordDrops, NEW c \in ValueChans \ dropped', ValueInv(c),
         UNCHANGED <<watch, recent, shown, baseline>>
  PROVE  /\ LastIsCurrent(c)'
         /\ watch[c] = "running" =>
               \A l \in ChanKeys[c] : Told(c, l)' \/ Knows(c, l)'
  <1>0. /\ LastIsCurrent(c)
        /\ watch[c] = "running" =>
              c \in subscribed
                /\ \A l \in ChanKeys[c] : Told(c, l) \/ Knows(c, l)
    BY DEF ValueInv, Registered, RecordDrops
  <1>1. chan[c] \in Seq(Keys \X TimestampedValue)
    BY DEF TypeInv, TypeOK
  <1>2. /\ values'[k] = tv
        /\ \A l \in Keys : l # k => values'[l] = values[l]
    BY DEF Renew, TypeInv, TypeOK
  <1>3. \A i \in DOMAIN chan[c] : chan[c][i][1] \in ChanKeys[c] \cap Keys
    BY TimeTypes DEF ValueInv, TypeInv
  <1>4. CASE /\ chan'[c] = chan[c]
             /\ c \notin subscribed \/ k \notin ChanKeys[c]
                  \/ ~(Len(chan[c]) < ChanCap)
    <2>1. c \notin subscribed \/ \A l \in ChanKeys[c] : values'[l] = values[l]
      <3>1. CASE c \in subscribed /\ ~(Len(chan[c]) < ChanCap)
        <4>1. Len(chan[c]) = ChanCap
          BY <1>1, <3>1, ChanAssumption DEF WTypeOK
        <4> QED
          BY <3>1, <4>1 DEF RecordDrops
      <3>2. CASE k \notin ChanKeys[c]
        BY <1>2, <3>2, ChanAssumption
      <3> QED
        BY <1>4, <3>1, <3>2
    <2>2. c \notin subscribed => DOMAIN chan[c] = {}
      BY DEF ValueInv
    <2>3. LastIsCurrent(c)'
      BY <1>0, <1>3, <1>4, <2>1, <2>2 DEF LastIsCurrent
    <2>4. ASSUME watch[c] = "running", NEW l \in ChanKeys[c]
          PROVE  Told(c, l)' \/ Knows(c, l)'
      BY <1>0, <1>4, <2>1, <2>4 DEF Told, Knows
    <2> QED
      BY <2>3, <2>4
  <1>5. CASE chan'[c] = Append(chan[c], <<k, tv>>)
    <2> DEFINE n == Len(chan[c]) + 1
    <2>1. /\ \A i \in DOMAIN chan[c] :
                 i \in DOMAIN chan'[c] /\ chan'[c][i] = chan[c][i] /\ i < n
          /\ n \in DOMAIN chan'[c] /\ chan'[c][n] = <<k, tv>>
          /\ \A i \in DOMAIN chan'[c] : i \in DOMAIN chan[c] \/ i = n
      BY <1>1, <1>5, AppendEntries
    <2> HIDE DEF n
    <2>2. ASSUME NEW i \in DOMAIN chan'[c],
                 \A j \in DOMAIN chan'[c] :
                     i < j => chan'[c][j][1] # chan'[c][i][1]
          PROVE  chan'[c][i][2] = values'[chan'[c][i][1]]
      <3>1. CASE i = n
        BY <1>2, <2>1, <3>1
      <3>2. CASE i # n
        <4>1. i \in DOMAIN chan[c] /\ chan'[c][i] = chan[c][i]
          BY <2>1, <3>2
        <4>2. chan[c][i][1] # k
          BY <2>1, <2>2, <4>1
        <4>3. \A j \in DOMAIN chan[c] : i < j => chan[c][j][1] # chan[c][i][1]
          BY <2>1, <2>2, <4>1
        <4>4. chan[c][i][2] = values[chan[c][i][1]]
          BY <1>0, <4>1, <4>3 DEF LastIsCurrent
        <4> QED
          BY <1>2, <1>3, <4>1, <4>2, <4>4
      <3> QED
        BY <3>1, <3>2
    <2>3. ASSUME NEW l \in ChanKeys[c], Told(c, l) \/ Knows(c, l)
          PROVE  Told(c, l)' \/ Knows(c, l)'
      <3>1. CASE l = k
        BY <2>1, <3>1 DEF Told
      <3>2. CASE Told(c, l)
        BY <2>1, <3>2 DEF Told
      <3>3. CASE l # k /\ Knows(c, l)
        <4>1. values'[l] = values[l]
          BY <1>2, <3>3, ChanAssumption
        <4> QED
          BY <3>3, <4>1 DEF Knows
      <3> QED
        BY <2>3, <3>1, <3>2, <3>3
    <2> QED
      BY <1>0, <2>2, <2>3 DEF LastIsCurrent
  <1> QED
    BY <1>4, <1>5, NotifyEffect DEF Renew, TypeInv

LEMMA TouchKeeps ==
  ASSUME TypeInv, WTypeOK, NEW ts \in Times, Touch(ts), RecordDrops,
         NEW c \in GlobalChans \ dropped', TimeInv(c),
         UNCHANGED <<watch, shownTime>>
  PROVE  LatestIsCurrent(c)' /\ KnowsTime(c)'
  <1>0. LatestIsCurrent(c) /\ KnowsTime(c)
    BY DEF TimeInv, RecordDrops
  <1>1. CASE TimeKept
    BY <1>0, <1>1 DEF TimeKept, LatestIsCurrent, KnowsTime
  <1>2. CASE globalChan'[c] = Append(globalChan[c], ts) /\ globalLastUpdated' = ts
    <2>1. globalChan[c] \in Seq(Times)
      BY DEF TypeInv, TypeOK
    <2>2. /\ globalChan'[c] # <<>>
          /\ globalChan'[c][Len(globalChan'[c])] = ts
      BY <1>2, <2>1
    <2> QED
      BY <1>2, <2>2 DEF LatestIsCurrent, KnowsTime
  <1>3. CASE /\ ts > globalLastUpdated /\ globalLastUpdated' = ts
             /\ globalChan'[c] = globalChan[c]
             /\ c \notin subscribed \/ ~(Len(globalChan[c]) < ChanCap)
    <2>1. globalLastUpdated' # globalLastUpdated
      BY <1>3, TimeTypes, TimesAssumption DEF TypeInv
    <2>2. Len(globalChan[c]) <= ChanCap /\ Len(globalChan[c]) \in Nat
      BY DEF WTypeOK, TypeOK
    <2>3. c \notin subscribed
      BY <1>3, <2>1, <2>2, ChanAssumption DEF RecordDrops
    <2>4. globalChan[c] = <<>> /\ watch[c] # "running"
      BY <2>3 DEF TimeInv, Registered
    <2> QED
      BY <1>3, <2>4 DEF LatestIsCurrent, KnowsTime
  <1> QED
    BY <1>1, <1>2, <1>3, TouchEffect DEF TypeInv

LEMMA WatcherTimes ==
  ASSUME WTypeOK
  PROVE  /\ \A c \in ValueChans, k \in Keys :
               /\ recent[c][k] \in TimestampedValue
               /\ recent[c][k].lastUpdated \in Int
               /\ shown[c][k] \in TimestampedValue
               /\ shown[c][k].lastUpdated \in Int
         /\ \A c \in GlobalChans : shownTime[c] \in Int
  <1>1. \A c \in ValueChans, k \in Keys :
           recent[c][k] \in TimestampedValue /\ shown[c][k] \in TimestampedValue
    BY DEF WTypeOK
  <1>2. Times \cup {ZeroTime} \subseteq Int
    BY TimesAssumption DEF ZeroTime
  <1>3. \A c \in GlobalChans : shownTime[c] \in Int
    BY <1>2 DEF WTypeOK
  <1> QED
    BY <1>1, <1>3, ValueTime

LEMMA WatchStoreStep ==
  ASSUME TypeInv, TypeInv', OrderInv, WatchInv, StoreStep, RecordDrops,
         RecordBaseline
  PROVE  WatchInv'
  <1>1. StoreOnly /\ UNCHANGED watcherVars
    BY DEF StoreStep, StoreOnly
  <1>2. /\ UNCHANGED <<watch, recent, shown, shownTime>>
        /\ subscribed' = subscribed
        /\ baseline' = baseline /\ dropped \subseteq dropped'
    BY <1>1, BaselineKept, StoreEffect
       DEF watcherVars, RecordDrops, OrderInv, WatchInv
  <1>3. WTypeOK'
    BY <1>1, StoreStepTypes DEF WatchInv
  <1>4. ASSUME NEW c \in ValueChans
        PROVE  ValueInv(c)'
    <2>1. ValueInv(c) /\ WTypeOK
      BY DEF WatchInv
    <2>2. \A k \in Keys :
             /\ recent[c][k].lastUpdated <= values'[k].lastUpdated
             /\ shown[c][k].lastUpdated <= values'[k].lastUpdated
      BY <1>1, <2>1, StoreStepGrows, WatcherTimes DEF OrderInv, ValueInv
    <2>3. CASE ValuesKept
      BY <1>2, <2>1, <2>2, <2>3
         DEF ValuesKept, ValueInv, Registered, LastIsCurrent, Told, Knows
    <2>4. ASSUME NEW k \in Keys, NEW tv \in TimestampedValue, Renew(k, tv)
          PROVE  ValueInv(c)'
      <3>1. /\ c \notin subscribed => chan'[c] = <<>>
            /\ \A i \in DOMAIN chan'[c] : chan'[c][i][1] \in ChanKeys[c]
        BY <2>1, <2>4, RenewTopics DEF ValueInv
      <3>2. c \notin dropped' =>
               /\ LastIsCurrent(c)'
               /\ watch[c] = "running" =>
                     \A l \in ChanKeys[c] : Told(c, l)' \/ Knows(c, l)'
        BY <1>2, <2>1, <2>4, RenewKeeps
      <3> QED
        BY <1>2, <2>1, <2>2, <3>1, <3>2 DEF ValueInv, Registered
    <2> QED
      BY <1>1, <2>3, <2>4, StoreEffect DEF OrderInv
  <1>5. ASSUME NEW c \in GlobalChans
        PROVE  TimeInv(c)'
    <2>1. TimeInv(c) /\ WTypeOK
      BY DEF WatchInv
    <2>2. shownTime[c] <= globalLastUpdated'
      BY <1>1, <2>1, StoreStepGrows, WatcherTimes DEF OrderInv, TimeInv
    <2>3. CASE TimeKept
      BY <1>2, <2>1, <2>2, <2>3
         DEF TimeKept, TimeInv, Registered, LatestIsCurrent, KnowsTime
    <2>4. ASSUME NEW ts \in Times, Touch(ts)
          PROVE  TimeInv(c)'
      <3>1. c \notin dropped' => LatestIsCurrent(c)' /\ KnowsTime(c)'
        BY <1>2, <2>1, <2>4, TouchKeeps
      <3>2. c \notin subscribed => globalChan'[c] = <<>>
        BY <2>1, <2>4, TouchEffect DEF TypeInv, TimeInv, TimeKept
      <3> QED
        BY <1>2, <2>1, <2>2, <3>1, <3>2 DEF TimeInv, Registered
    <2> QED
      BY <1>1, <2>3, <2>4, StoreEffect DEF OrderInv
  <1> QED
    BY <1>3, <1>4, <1>5 DEF WatchInv

-----------------------------------------------------------------------------
(* Steps of the watchers: each concerns one channel. *)

Others(c) ==
    /\ \A d \in AllChans \ {c} :
          watch'[d] = watch[d] /\ (d \in subscribed' <=> d \in subscribed)
    /\ \A d \in ValueChans \ {c} :
          chan'[d] = chan[d] /\ recent'[d] = recent[d] /\ shown'[d] = shown[d]
    /\ \A d \in GlobalChans \ {c} :
          globalChan'[d] = globalChan[d] /\ shownTime'[d] = shownTime[d]
    /\ \A d \in Events \ {c} : baseline'[d] = baseline[d]

LEMMA FollowFrame ==
  ASSUME WatchInv, WTypeOK', NEW c \in AllChans, Others(c),
         UNCHANGED <<values, globalLastUpdated, dropped>>,
         c \in ValueChans => ValueInv(c)', c \in GlobalChans => TimeInv(c)'
  PROVE  WatchInv'
  <1>1. ASSUME NEW d \in ValueChans, d # c
        PROVE  ValueInv(d)'
    BY <1>1 DEF WatchInv, Others, AllChans, ValueInv, Registered, LastIsCurrent,
                Told, Knows
  <1>2. ASSUME NEW d \in GlobalChans, d # c
        PROVE  TimeInv(d)'
    BY <1>2 DEF WatchInv, Others, AllChans, TimeInv, Registered,
                LatestIsCurrent, KnowsTime
  <1> QED
    BY <1>1, <1>2 DEF WatchInv

\* What is left when the first entry of a queue is taken.
LEMMA TailRest ==
  ASSUME NEW S, NEW q \in Seq(S), q # <<>>
  PROVE  /\ 1 \in DOMAIN q /\ Head(q) = q[1]
         /\ \A i \in DOMAIN Tail(q) :
               i \in Nat /\ i + 1 \in DOMAIN q /\ Tail(q)[i] = q[i + 1]
         /\ \A i \in DOMAIN q :
               /\ i \in Nat
               /\ i = 1 \/ (i - 1 \in DOMAIN Tail(q) /\ Tail(q)[i - 1] = q[i])
         /\ Len(Tail(q)) = Len(q) - 1 /\ Len(q) \in Nat \ {0}
         /\ Tail(q) = <<>> => Len(q) = 1
         /\ Tail(q) # <<>> => Tail(q)[Len(Tail(q))] = q[Len(q)]
  <1>1. Tail(q) \in Seq(S) /\ Len(Tail(q)) = Len(q) - 1
    OBVIOUS
  <1>2. Tail(q) = <<>> => Len(Tail(q)) = 0
    <2>1. Len(<<>>) = 0
      OBVIOUS
    <2> QED
      BY <2>1, Zenon
  <1>3. Len(q) \in Nat \ {0}
    OBVIOUS
  <1>4. /\ \A i \in DOMAIN Tail(q) :
              i \in Nat /\ i + 1 \in DOMAIN q /\ Tail(q)[i] = q[i + 1]
        /\ Tail(q) # <<>> => Tail(q)[Len(Tail(q))] = q[Len(q)]
    OBVIOUS
  <1>5. \A i \in DOMAIN q :
              /\ i \in Nat
              /\ i = 1 \/ (i - 1 \in DOMAIN Tail(q) /\ Tail(q)[i - 1] = q[i])
    OBVIOUS
  <1> QED
    BY <1>1, <1>2, <1>3, <1>4, <1>5

\* The first news in a channel of values: it is as recent as the map at most,
\* and is the value itself when it is the last news of its setting.
LEMMA ReceiveFacts ==
  ASSUME TypeInv, OrderInv, WatchInv, NEW c \in ValueChans, Receive(c)
  PROVE  LET k == Head(chan[c])[1]
             v == Head(chan[c])[2]
         IN  /\ k \in ChanKeys[c] /\ k \in Keys
             /\ v \in TimestampedValue
             /\ v.lastUpdated <= values[k].lastUpdated
             /\ \A i \in DOMAIN chan'[c] : chan'[c][i][1] \in ChanKeys[c]
             /\ Len(chan'[c]) <= ChanCap
             /\ \A d \in ValueChans \ {c} : chan'[d] = chan[d]
             /\ UNCHANGED <<values, globalLastUpdated, subscribed, globalChan>>
             /\ c \in subscribed
             /\ c \notin dropped =>
                  /\ LastIsCurrent(c)'
                  /\ \A l \in ChanKeys[c] :
                        Told(c, l) => Told(c, l)' \/ (l = k /\ v = values[k])
  <1>1. /\ chan[c] \in Seq(Keys \X TimestampedValue) /\ chan[c] # <<>>
        /\ chan' = [chan EXCEPT ![c] = Tail(chan[c])]
        /\ chan'[c] = Tail(chan[c])
        /\ \A d \in ValueChans \ {c} : chan'[d] = chan[d]
        /\ UNCHANGED <<values, globalLastUpdated, subscribed, globalChan>>
    BY DEF TypeInv, TypeOK, Receive, storeVars
  <1>2. ValueInv(c) /\ WTypeOK
    BY DEF WatchInv
  <1>3. 1 \in DOMAIN chan[c] /\ Head(chan[c]) = chan[c][1]
    BY <1>1
  <1>4. /\ chan[c][1][1] \in ChanKeys[c] /\ chan[c][1][1] \in Keys
        /\ chan[c][1][2] \in TimestampedValue
    BY <1>2, <1>3, TimeTypes DEF ValueInv, TypeInv
  <1>5. chan[c][1][2].lastUpdated <= values[chan[c][1][1]].lastUpdated
    BY <1>3 DEF OrderInv, NotificationsInOrder
  <1>6. /\ \A i \in DOMAIN chan'[c] :
               /\ i \in Nat /\ i + 1 \in DOMAIN chan[c]
               /\ chan'[c][i] = chan[c][i + 1]
        /\ \A i \in DOMAIN chan[c] :
               i = 1 \/ (i - 1 \in DOMAIN chan'[c] /\ chan'[c][i - 1] = chan[c][i])
        /\ \A i \in DOMAIN chan[c] : i \in Nat
        /\ Len(chan'[c]) = Len(chan[c]) - 1 /\ Len(chan[c]) \in Nat \ {0}
    <2> DEFINE q == chan[c]
    <2>1. q \in Seq(Keys \X TimestampedValue) /\ q # <<>> /\ chan'[c] = Tail(q)
      BY <1>1
    <2> HIDE DEF q
    <2>2. /\ \A i \in DOMAIN chan'[c] :
                  i \in Nat /\ i + 1 \in DOMAIN q /\ chan'[c][i] = q[i + 1]
          /\ \A i \in DOMAIN q :
                  /\ i \in Nat
                  /\ i = 1 \/ (i - 1 \in DOMAIN chan'[c] /\ chan'[c][i - 1] = q[i])
          /\ Len(chan'[c]) = Len(q) - 1 /\ Len(q) \in Nat \ {0}
      BY <2>1, TailRest
    <2> QED
      BY <2>2 DEF q
  <1>7. \A i \in DOMAIN chan'[c] : chan'[c][i][1] \in ChanKeys[c]
    BY <1>2, <1>6 DEF ValueInv
  <1>8. Len(chan'[c]) <= ChanCap
    BY <1>2, <1>6, ChanAssumption DEF WTypeOK
  <1>9. c \in subscribed
    BY <1>1, <1>2 DEF ValueInv
  <1>10. ASSUME c \notin dropped
         PROVE  LastIsCurrent(c)'
    <2>1. LastIsCurrent(c)
      BY <1>2, <1>10 DEF ValueInv
    <2> SUFFICES ASSUME NEW i \in DOMAIN chan'[c],
                        \A j \in DOMAIN chan'[c] :
                            i < j => chan'[c][j][1] # chan'[c][i][1]
                 PROVE  chan'[c][i][2] = values'[chan'[c][i][1]]
      BY DEF LastIsCurrent
    <2>2. ASSUME NEW j \in DOMAIN chan[c], i + 1 < j
          PROVE  chan[c][j][1] # chan[c][i + 1][1]
      <3>1. i \in Nat /\ j \in Nat
        BY <1>6
      <3>2. j # 1 /\ i < j - 1
        BY <2>2, <3>1
      <3>3. j - 1 \in DOMAIN chan'[c] /\ chan'[c][j - 1] = chan[c][j]
        BY <1>6, <3>2
      <3> QED
        BY <1>6, <3>2, <3>3
    <2>3. chan[c][i + 1][2] = values[chan[c][i + 1][1]]
      BY <1>6, <2>1, <2>2 DEF LastIsCurrent
    <2> QED
      BY <1>1, <1>6, <2>3
  <1>11. ASSUME c \notin dropped, NEW l \in ChanKeys[c], Told(c, l),
                ~Told(c, l)'
         PROVE  l = chan[c][1][1] /\ chan[c][1][2] = values[chan[c][1][1]]
    <2>1. LastIsCurrent(c)
      BY <1>2, <1>11 DEF ValueInv
    <2>2. \A i \in DOMAIN chan'[c] : chan'[c][i][1] # l
      BY <1>11 DEF Told
    <2>3. \A i \in DOMAIN chan[c] : i # 1 => chan[c][i][1] # l
      BY <1>6, <2>2
    <2>4. chan[c][1][1] = l
      BY <1>11, <2>3 DEF Told
    <2>5. \A j \in DOMAIN chan[c] : 1 < j => chan[c][j][1] # chan[c][1][1]
      BY <1>6, <2>3, <2>4
    <2> QED
      BY <1>3, <2>1, <2>4, <2>5 DEF LastIsCurrent
  <1> QED
    BY <1>1, <1>3, <1>4, <1>5, <1>7, <1>8, <1>9, <1>10, <1>11

LEMMA GlobalReceiveFacts ==
  ASSUME TypeInv, OrderInv, WatchInv, NEW c \in GlobalChans, GlobalReceive(c)
  PROVE  /\ Head(globalChan[c]) \in Times
         /\ Head(globalChan[c]) <= globalLastUpdated
         /\ Len(globalChan'[c]) <= ChanCap
         /\ \A d \in GlobalChans \ {c} : globalChan'[d] = globalChan[d]
         /\ UNCHANGED <<values, globalLastUpdated, subscribed, chan>>
         /\ c \in subscribed
         /\ c \notin dropped =>
              /\ LatestIsCurrent(c)'
              /\ globalChan'[c] = <<>> =>
                    Head(globalChan[c]) = globalLastUpdated
  <1>1. /\ globalChan[c] \in Seq(Times) /\ globalChan[c] # <<>>
        /\ globalChan' = [globalChan EXCEPT ![c] = Tail(globalChan[c])]
        /\ globalChan'[c] = Tail(globalChan[c])
        /\ \A d \in GlobalChans \ {c} : globalChan'[d] = globalChan[d]
        /\ UNCHANGED <<values, globalLastUpdated, subscribed, chan>>
    BY DEF TypeInv, TypeOK, GlobalReceive, storeVars
  <1>2. TimeInv(c) /\ WTypeOK
    BY DEF WatchInv
  <1>3. 1 \in DOMAIN globalChan[c] /\ Head(globalChan[c]) = globalChan[c][1]
    BY <1>1
  <1>4. Head(globalChan[c]) \in Times /\ Head(globalChan[c]) <= globalLastUpdated
    BY <1>1, <1>3 DEF OrderInv, NotificationsInOrder
  <1>5. Len(globalChan'[c]) <= ChanCap
    <2>1. Len(globalChan'[c]) <= Len(globalChan[c])
      BY <1>1
    <2>2. Len(globalChan[c]) <= ChanCap
      BY <1>2 DEF WTypeOK
    <2> QED
      BY <1>1, <2>1, <2>2, ChanAssumption
  <1>6. c \in subscribed
    BY <1>1, <1>2 DEF TimeInv
  <1>7. ASSUME c \notin dropped
        PROVE  /\ LatestIsCurrent(c)'
               /\ globalChan'[c] = <<>> => Head(globalChan[c]) = globalLastUpdated
    <2>1. globalChan[c][Len(globalChan[c])] = globalLastUpdated
      BY <1>1, <1>2, <1>7 DEF TimeInv, LatestIsCurrent
    <2>2. /\ globalChan'[c] # <<>> =>
                globalChan'[c][Len(globalChan'[c])]
                   = globalChan[c][Len(globalChan[c])]
          /\ globalChan'[c] = <<>> => Len(globalChan[c]) = 1
      BY <1>1, TailRest
    <2> QED
      BY <1>1, <1>3, <2>1, <2>2 DEF LatestIsCurrent
  <1> QED
    BY <1>1, <1>4, <1>5, <1>6, <1>7

\* What the steps of the watchers have in common.
FollowContext ==
    TypeInv /\ TypeInv' /\ OrderInv /\ WatchInv /\ RecordDrops /\ RecordBaseline

Subscribing(c) ==
    \/ c \in OnChangeN /\ OnChangeNSubscribe(c)
    \/ c \in OnChangeRegex /\ OnChangeRegexSubscribe(c)
    \/ c \in GlobalChans /\ OnAnyChangeSubscribe(c)

LEMMA WatchSubscribing ==
  ASSUME FollowContext, NEW c \in AllChans, Subscribing(c)
  PROVE  WatchInv'
  <1>1. /\ watch[c] = "new" /\ watch' = [watch EXCEPT ![c] = "subscribed"]
        /\ subscribed' = subscribed \cup {c}
        /\ UNCHANGED <<values, globalLastUpdated, chan, globalChan, got, recent,
                       shown, shownTime>>
    BY DEF Subscribing, OnChangeNSubscribe, OnChangeRegexSubscribe,
           OnAnyChangeSubscribe, Subscribe, GlobalSubscribe, Goto, storeVars
  <1>2. WTypeOK
    BY DEF FollowContext, WatchInv
  <1>3. /\ watch'[c] = "subscribed"
        /\ \A d \in AllChans \ {c} : watch'[d] = watch[d]
    BY <1>1, <1>2 DEF WTypeOK, AllChans
  <1>4. c \notin Events
    BY WatchersAssumption DEF Subscribing
  <1>5. dropped' = dropped /\ baseline' = baseline
    BY <1>1, <1>2, <1>3, <1>4, HistoryKept, BaselineKept, WatchersAssumption
       DEF FollowContext, AllChans
  <1>6. WTypeOK'
    BY <1>1, <1>2, <1>5 DEF FollowContext, TypeInv, WTypeOK
  <1>7. Others(c)
    BY <1>1, <1>3, <1>5 DEF Others
  <1>8. c \in ValueChans => ValueInv(c)'
    BY <1>1, <1>3, <1>4, <1>5
       DEF FollowContext, WatchInv, ValueInv, Registered, LastIsCurrent, Told
  <1>9. c \in GlobalChans => TimeInv(c)'
    BY <1>1, <1>3, <1>5
       DEF FollowContext, WatchInv, TimeInv, Registered, LatestIsCurrent, KnowsTime
  <1> QED
    BY <1>1, <1>5, <1>6, <1>7, <1>8, <1>9, FollowFrame DEF FollowContext

LEMMA WatchOnChangeNRead ==
  ASSUME FollowContext, NEW c \in OnChangeN, OnChangeNRead(c)
  PROVE  WatchInv'
  <1> DEFINE read == [k \in Keys |-> IF k \in ChanKeys[c] THEN values[k]
                                                         ELSE recent[c][k]]
  <1>0. c \in ValueChans /\ c \notin Events /\ c \in AllChans
           /\ c \notin OnChangeRegex /\ c \notin GlobalChans
    BY WatchersAssumption DEF AllChans
  <1>1. /\ watch[c] = "subscribed" /\ watch' = [watch EXCEPT ![c] = "running"]
        /\ UNCHANGED <<values, globalLastUpdated, subscribed, chan, globalChan,
                       got, shownTime>>
    BY DEF OnChangeNRead, Goto, vars, storeVars, chanVars
  <1>2. WTypeOK /\ ValueInv(c) /\ TypeOK
    BY <1>0 DEF FollowContext, WatchInv, TypeInv
  <1>3. /\ watch'[c] = "running"
        /\ \A d \in AllChans \ {c} : watch'[d] = watch[d]
    BY <1>0, <1>1, <1>2 DEF WTypeOK, AllChans
  <1>4. dropped' = dropped /\ baseline' = baseline
    BY <1>0, <1>1, <1>2, <1>3, HistoryKept, BaselineKept, WatchersAssumption
       DEF FollowContext, AllChans
  <1>5. read \in [Keys -> TimestampedValue]
    BY <1>0, <1>2 DEF WTypeOK, TypeOK
  <1>6. recent' = [recent EXCEPT ![c] = read]
    BY DEF OnChangeNRead
  <1>7. recent'[c] = read /\ \A d \in ValueChans \ {c} : recent'[d] = recent[d]
    BY <1>0, <1>2, <1>6 DEF WTypeOK
  <1>8. \/ shown' = shown /\ ~(\A k \in ChanKeys[c] : read[k] # NoValue)
        \/ shown' = [shown EXCEPT ![c] = read]
    BY <1>7 DEF OnChangeNRead, MaybeCallback
  <1>9. /\ \/ shown'[c] = read
           \/ /\ shown'[c] = shown[c]
              /\ ~(\A k \in ChanKeys[c] : read[k] # NoValue)
        /\ \A d \in ValueChans \ {c} : shown'[d] = shown[d]
    <2>1. CASE shown' = shown /\ ~(\A k \in ChanKeys[c] : read[k] # NoValue)
      BY <2>1, Zenon
    <2>2. CASE shown' = [shown EXCEPT ![c] = read]
      <3> HIDE DEF read
      <3> QED
        BY <1>0, <1>2, <2>2 DEF WTypeOK
    <2> QED
      BY <1>8, <2>1, <2>2, Zenon
  <1>10. WTypeOK'
    <2>1. recent' \in [ValueChans -> [Keys -> TimestampedValue]]
      BY <1>0, <1>2, <1>5, <1>6 DEF WTypeOK
    <2>2. shown' \in [ValueChans -> [Keys -> TimestampedValue]]
      BY <1>0, <1>2, <1>5, <1>8 DEF WTypeOK
    <2> QED
      BY <1>1, <1>2, <1>4, <2>1, <2>2 DEF FollowContext, TypeInv, WTypeOK
  <1>11. Others(c)
    BY <1>0, <1>1, <1>3, <1>4, <1>7, <1>9 DEF Others
  <1>12. /\ \A k \in ChanKeys[c] : k \in Keys /\ read[k] = values[k]
         /\ \A k \in Keys : /\ read[k].lastUpdated <= values[k].lastUpdated
                            /\ shown[c][k].lastUpdated <= values[k].lastUpdated
    <2>1. ChanKeys[c] \subseteq Keys
      BY <1>0, ChanAssumption
    <2>2. \A k \in Keys : values[k].lastUpdated \in Int
      BY <1>2, TimeTypes
    <2> QED
      BY <1>2, <2>1, <2>2 DEF ValueInv
  <1> HIDE DEF read
  <1>13. ValueInv(c)'
    <2>1. Registered(c)' /\ (c \notin subscribed => chan[c] = <<>>)
            /\ \A i \in DOMAIN chan[c] : chan[c][i][1] \in ChanKeys[c]
      BY <1>1, <1>2, <1>3 DEF ValueInv, Registered
    <2>2. \A k \in ChanKeys[c] : Knows(c, k)'
      BY <1>1, <1>7, <1>12 DEF Knows
    <2>3. c \notin dropped => LastIsCurrent(c)'
      BY <1>1, <1>2 DEF ValueInv, LastIsCurrent
    <2> QED
      BY <1>0, <1>1, <1>3, <1>4, <1>7, <1>9, <1>12, <2>1, <2>2, <2>3
         DEF ValueInv
  <1> QED
    BY <1>0, <1>1, <1>4, <1>10, <1>11, <1>13, FollowFrame DEF FollowContext

LEMMA WatchOnChangeNReceive ==
  ASSUME FollowContext, NEW c \in OnChangeN, OnChangeNReceive(c)
  PROVE  WatchInv'
  <1> DEFINE k0 == Head(chan[c])[1]
             v0 == Head(chan[c])[2]
             next == [recent[c] EXCEPT ![k0] = v0]
  <1>0. c \in ValueChans /\ c \notin Events /\ c \in AllChans
           /\ c \notin OnChangeRegex /\ c \notin GlobalChans
    BY WatchersAssumption DEF AllChans
  <1>1. /\ watch[c] = "running" /\ Receive(c)
        /\ UNCHANGED <<watch, got, shownTime>>
    BY DEF OnChangeNReceive
  <1>2. WTypeOK /\ ValueInv(c) /\ TypeOK
    BY <1>0 DEF FollowContext, WatchInv, TypeInv
  <1>3. /\ k0 \in ChanKeys[c] /\ k0 \in Keys
        /\ v0 \in TimestampedValue
        /\ v0.lastUpdated <= values[k0].lastUpdated
        /\ \A i \in DOMAIN chan'[c] : chan'[c][i][1] \in ChanKeys[c]
        /\ Len(chan'[c]) <= ChanCap
        /\ \A d \in ValueChans \ {c} : chan'[d] = chan[d]
        /\ UNCHANGED <<values, globalLastUpdated, subscribed, globalChan>>
        /\ c \in subscribed
        /\ c \notin dropped =>
              /\ LastIsCurrent(c)'
              /\ \A l \in ChanKeys[c] :
                    Told(c, l) => Told(c, l)' \/ (l = k0 /\ v0 = values[k0])
    BY <1>0, <1>1, ReceiveFacts DEF FollowContext
  <1>4. dropped' = dropped /\ baseline' = baseline
    BY <1>1, <1>2, <1>3, HistoryKept, BaselineKept DEF FollowContext
  <1>5. next \in [Keys -> TimestampedValue]
    BY <1>0, <1>2, <1>3 DEF WTypeOK
  <1>6. recent' = [recent EXCEPT ![c] = next]
    BY DEF OnChangeNReceive
  <1>7. recent'[c] = next /\ \A d \in ValueChans \ {c} : recent'[d] = recent[d]
    BY <1>0, <1>2, <1>6 DEF WTypeOK
  <1>8. \/ shown' = shown /\ ~(\A k \in ChanKeys[c] : next[k] # NoValue)
        \/ shown' = [shown EXCEPT ![c] = next]
    BY <1>7 DEF OnChangeNReceive, MaybeCallback
  <1>9. /\ \/ shown'[c] = next
           \/ /\ shown'[c] = shown[c]
              /\ ~(\A k \in ChanKeys[c] : next[k] # NoValue)
        /\ \A d \in ValueChans \ {c} : shown'[d] = shown[d]
    <2>1. CASE shown' = shown /\ ~(\A k \in ChanKeys[c] : next[k] # NoValue)
      BY <2>1, Zenon
    <2>2. CASE shown' = [shown EXCEPT ![c] = next]
      <3> HIDE DEF next
      <3> QED
        BY <1>0, <1>2, <2>2 DEF WTypeOK
    <2> QED
      BY <1>8, <2>1, <2>2, Zenon
  <1>10. WTypeOK'
    <2>1. recent' \in [ValueChans -> [Keys -> TimestampedValue]]
      BY <1>0, <1>2, <1>5, <1>6 DEF WTypeOK
    <2>2. shown' \in [ValueChans -> [Keys -> TimestampedValue]]
      BY <1>0, <1>2, <1>5, <1>8 DEF WTypeOK
    <2> QED
      BY <1>1, <1>2, <1>3, <1>4, <2>1, <2>2 DEF FollowContext, TypeInv, WTypeOK
  <1>11. Others(c)
    BY <1>0, <1>1, <1>3, <1>4, <1>7, <1>9 DEF Others
  <1>12. /\ next[k0] = v0
         /\ \A k \in Keys : k # k0 => next[k] = recent[c][k]
         /\ \A k \in Keys : /\ next[k].lastUpdated <= values[k].lastUpdated
                            /\ shown[c][k].lastUpdated <= values[k].lastUpdated
    BY <1>0, <1>2, <1>3 DEF WTypeOK, ValueInv
  <1> HIDE DEF next, k0, v0
  <1>13. ValueInv(c)'
    <2>1. ASSUME NEW l \in ChanKeys[c], c \notin dropped
          PROVE  Told(c, l)' \/ Knows(c, l)'
      <3>1. l \in Keys /\ (Told(c, l) \/ recent[c][l] = values[l])
        BY <1>0, <1>1, <1>2, <2>1, ChanAssumption DEF ValueInv, Knows
      <3>2. CASE Told(c, l)
        BY <1>3, <1>7, <1>12, <2>1, <3>2 DEF Knows
      <3>3. CASE l # k0 /\ recent[c][l] = values[l]
        BY <1>3, <1>7, <1>12, <3>1, <3>3 DEF Knows
      <3>4. CASE l = k0
        <4>1. Told(c, l)
          <5>1. chan[c] \in Seq(Keys \X TimestampedValue) /\ chan[c] # <<>>
            BY <1>0, <1>1, <1>2 DEF TypeOK, Receive
          <5>2. 1 \in DOMAIN chan[c] /\ chan[c][1] = Head(chan[c])
            BY <5>1
          <5> QED
            BY <3>4, <5>2 DEF Told, k0
        <4> QED
          BY <3>2, <4>1
      <3> QED
        BY <3>1, <3>2, <3>3, <3>4
    <2>2. Registered(c)'
      BY <1>1, <1>2, <1>3 DEF ValueInv, Registered
    <2>3. c \notin dropped' => /\ LastIsCurrent(c)'
                               /\ \A l \in ChanKeys[c] : Told(c, l)' \/ Knows(c, l)'
      BY <1>3, <1>4, <2>1
    <2>4. (\A k \in ChanKeys[c] : recent'[c][k] # NoValue) => shown'[c] = recent'[c]
      BY <1>7, <1>9
    <2>5. \A k \in Keys :
             /\ recent'[c][k].lastUpdated <= values'[k].lastUpdated
             /\ shown'[c][k].lastUpdated <= values'[k].lastUpdated
      BY <1>3, <1>7, <1>9, <1>12
    <2> QED
      BY <1>0, <1>1, <1>3, <2>2, <2>3, <2>4, <2>5 DEF ValueInv
  <1> QED
    BY <1>0, <1>1, <1>3, <1>4, <1>10, <1>11, <1>13, FollowFrame DEF FollowContext

LEMMA WatchOnChangeRegexRead ==
  ASSUME FollowContext, NEW c \in OnChangeRegex, OnChangeRegexRead(c)
  PROVE  WatchInv'
  <1> DEFINE read == [k \in Keys |-> IF k \in ChanKeys[c] /\ Present(k)
                                     THEN values[k] ELSE shown[c][k]]
  <1>0. c \in ValueChans /\ c \notin Events /\ c \in AllChans
           /\ c \notin OnChangeN /\ c \notin GlobalChans
    BY WatchersAssumption DEF AllChans
  <1>1. /\ watch[c] = "subscribed" /\ watch' = [watch EXCEPT ![c] = "running"]
        /\ UNCHANGED <<values, globalLastUpdated, subscribed, chan, globalChan,
                       got, recent, shownTime>>
        /\ shown' = [shown EXCEPT ![c] = read]
    BY DEF OnChangeRegexRead, Goto, vars, storeVars, chanVars
  <1>2. WTypeOK /\ ValueInv(c) /\ TypeOK /\ AbsentIsNoValue
    BY <1>0 DEF FollowContext, WatchInv, TypeInv, OrderInv
  <1>3. /\ watch'[c] = "running"
        /\ \A d \in AllChans \ {c} : watch'[d] = watch[d]
    BY <1>0, <1>1, <1>2 DEF WTypeOK, AllChans
  <1>4. dropped' = dropped /\ baseline' = baseline
    BY <1>0, <1>1, <1>2, <1>3, HistoryKept, BaselineKept, WatchersAssumption
       DEF FollowContext, AllChans
  <1>5. read \in [Keys -> TimestampedValue]
    BY <1>0, <1>2 DEF WTypeOK, TypeOK
  <1>6. \A k \in Keys : values[k].lastUpdated \in Int
    BY <1>2, TimeTypes
  <1>7. /\ \A k \in ChanKeys[c] : k \in Keys /\ read[k] = values[k]
        /\ \A k \in Keys : /\ read[k].lastUpdated <= values[k].lastUpdated
                           /\ recent[c][k].lastUpdated <= values[k].lastUpdated
    <2>1. ChanKeys[c] \subseteq Keys
      BY <1>0, ChanAssumption
    <2>2. \A k \in Keys : shown[c][k] = NoValue
      BY <1>0, <1>1, <1>2 DEF ValueInv
    <2> QED
      BY <1>2, <1>6, <2>1, <2>2 DEF ValueInv, AbsentIsNoValue
  <1> HIDE DEF read
  <1>8. shown'[c] = read /\ \A d \in ValueChans \ {c} : shown'[d] = shown[d]
    BY <1>0, <1>1, <1>2 DEF WTypeOK
  <1>9. WTypeOK'
    <2>1. shown' \in [ValueChans -> [Keys -> TimestampedValue]]
      BY <1>0, <1>1, <1>2, <1>5 DEF WTypeOK
    <2> QED
      BY <1>1, <1>2, <1>4, <2>1 DEF FollowContext, TypeInv, WTypeOK
  <1>10. Others(c)
    BY <1>0, <1>1, <1>3, <1>4, <1>8 DEF Others
  <1>11. ValueInv(c)'
    <2>1. Registered(c)' /\ (c \notin subscribed => chan[c] = <<>>)
            /\ \A i \in DOMAIN chan[c] : chan[c][i][1] \in ChanKeys[c]
      BY <1>1, <1>2, <1>3 DEF ValueInv, Registered
    <2>2. \A k \in ChanKeys[c] : Knows(c, k)'
      BY <1>1, <1>7, <1>8 DEF Knows
    <2>3. c \notin dropped => LastIsCurrent(c)'
      BY <1>1, <1>2 DEF ValueInv, LastIsCurrent
    <2> QED
      BY <1>0, <1>1, <1>3, <1>4, <1>7, <1>8, <2>1, <2>2, <2>3 DEF ValueInv
  <1> QED
    BY <1>0, <1>1, <1>4, <1>9, <1>10, <1>11, FollowFrame DEF FollowContext

\* OnChangeRegex and /events pass on what they receive in the same way.
LEMMA WatchReceiveShown ==
  ASSUME FollowContext, NEW c \in OnChangeRegex \cup Events,
         watch[c] = "running", Receive(c), UNCHANGED <<watch, got, shownTime>>,
         shown' = [shown EXCEPT ![c][Head(chan[c])[1]] = Head(chan[c])[2]],
         \/ c \in OnChangeRegex /\ recent' = recent
         \/ recent' = [recent EXCEPT ![c][Head(chan[c])[1]] = Head(chan[c])[2]]
  PROVE  WatchInv'
  <1> DEFINE k0 == Head(chan[c])[1]
             v0 == Head(chan[c])[2]
             next == [shown[c] EXCEPT ![k0] = v0]
             known == [recent[c] EXCEPT ![k0] = v0]
  <1>0. c \in ValueChans /\ c \in AllChans /\ c \notin OnChangeN
          /\ c \notin GlobalChans
    BY WatchersAssumption DEF AllChans
  <1>2. WTypeOK /\ ValueInv(c) /\ TypeOK
    BY <1>0 DEF FollowContext, WatchInv, TypeInv
  <1>3. /\ k0 \in ChanKeys[c] /\ k0 \in Keys
        /\ v0 \in TimestampedValue
        /\ v0.lastUpdated <= values[k0].lastUpdated
        /\ \A i \in DOMAIN chan'[c] : chan'[c][i][1] \in ChanKeys[c]
        /\ Len(chan'[c]) <= ChanCap
        /\ \A d \in ValueChans \ {c} : chan'[d] = chan[d]
        /\ UNCHANGED <<values, globalLastUpdated, subscribed, globalChan>>
        /\ c \in subscribed
        /\ c \notin dropped =>
              /\ LastIsCurrent(c)'
              /\ \A l \in ChanKeys[c] :
                    Told(c, l) => Told(c, l)' \/ (l = k0 /\ v0 = values[k0])
    BY <1>0, ReceiveFacts DEF FollowContext
  <1>4. dropped' = dropped /\ baseline' = baseline
    BY <1>2, <1>3, HistoryKept, BaselineKept DEF FollowContext
  <1>5. /\ next \in [Keys -> TimestampedValue]
        /\ known \in [Keys -> TimestampedValue]
    BY <1>0, <1>2, <1>3 DEF WTypeOK
  <1>6. /\ shown' = [shown EXCEPT ![c] = next]
        /\ recent' = recent \/ recent' = [recent EXCEPT ![c] = known]
    OBVIOUS
  <1>7. /\ next[k0] = v0
        /\ \A k \in Keys : k # k0 => next[k] = shown[c][k]
        /\ \A k \in Keys : /\ next[k].lastUpdated <= values[k].lastUpdated
                           /\ known[k].lastUpdated <= values[k].lastUpdated
                           /\ recent[c][k].lastUpdated <= values[k].lastUpdated
    BY <1>0, <1>2, <1>3 DEF WTypeOK, ValueInv
  <1>8. Told(c, k0)
    <2>1. chan[c] \in Seq(Keys \X TimestampedValue) /\ chan[c] # <<>>
      BY <1>0, <1>2 DEF TypeOK, Receive
    <2>2. 1 \in DOMAIN chan[c] /\ chan[c][1] = Head(chan[c])
      BY <2>1
    <2> QED
      BY <2>2 DEF Told
  <1> HIDE DEF next, known, k0, v0
  <1>9. /\ shown'[c] = next
        /\ \A d \in ValueChans \ {c} : shown'[d] = shown[d]
        /\ recent'[c] = recent[c] \/ recent'[c] = known
        /\ \A d \in ValueChans \ {c} : recent'[d] = recent[d]
    BY <1>0, <1>2, <1>6 DEF WTypeOK
  <1>10. WTypeOK'
    <2>1. /\ shown' \in [ValueChans -> [Keys -> TimestampedValue]]
          /\ recent' \in [ValueChans -> [Keys -> TimestampedValue]]
      <3>1. /\ shown \in [ValueChans -> [Keys -> TimestampedValue]]
            /\ recent \in [ValueChans -> [Keys -> TimestampedValue]]
        BY <1>2 DEF WTypeOK
      <3>2. shown' \in [ValueChans -> [Keys -> TimestampedValue]]
        BY <1>5, <1>6, <3>1
      <3>3. recent' \in [ValueChans -> [Keys -> TimestampedValue]]
        BY <1>5, <1>6, <3>1
      <3> QED
        BY <3>2, <3>3
    <2>2. \A d \in ValueChans : Len(chan'[d]) <= ChanCap
      BY <1>2, <1>3 DEF WTypeOK
    <2> QED
      BY <1>2, <1>3, <1>4, <2>1, <2>2 DEF FollowContext, TypeInv, WTypeOK
  <1>11. Others(c)
    BY <1>0, <1>3, <1>4, <1>9 DEF Others
  <1>12. ValueInv(c)'
    <2>1. ASSUME NEW l \in ChanKeys[c], c \notin dropped
          PROVE  Told(c, l)' \/ Knows(c, l)'
      <3>1. /\ l \in Keys /\ c \in OnChangeRegex \cup Events
            /\ \/ Told(c, l)
               \/ shown[c][l] = values[l]
               \/ c \in Events /\ values[l] = baseline[c][l]
        BY <1>0, <1>2, <2>1, ChanAssumption DEF ValueInv, Knows
      <3>2. CASE Told(c, l)
        BY <1>3, <1>7, <1>9, <2>1, <3>1, <3>2 DEF Knows
      <3>3. CASE l # k0 /\ ~Told(c, l)
        BY <1>3, <1>4, <1>7, <1>9, <3>1, <3>3 DEF Knows
      <3> QED
        BY <1>8, <3>2, <3>3
    <2>2. Registered(c)'
      BY <1>2, <1>3 DEF ValueInv, Registered
    <2>3. c \notin dropped' => /\ LastIsCurrent(c)'
                               /\ \A l \in ChanKeys[c] : Told(c, l)' \/ Knows(c, l)'
      BY <1>3, <1>4, <2>1
    <2>4. \A k \in Keys :
             /\ recent'[c][k].lastUpdated <= values'[k].lastUpdated
             /\ shown'[c][k].lastUpdated <= values'[k].lastUpdated
      BY <1>3, <1>7, <1>9
    <2> QED
      BY <1>0, <1>3, <2>2, <2>3, <2>4 DEF ValueInv
  <1> QED
    BY <1>0, <1>3, <1>4, <1>10, <1>11, <1>12, FollowFrame DEF FollowContext

LEMMA WatchOnAnyChangeRead ==
  ASSUME FollowContext, NEW c \in GlobalChans, OnAnyChangeRead(c)
  PROVE  WatchInv'
  <1>0. c \notin ValueChans /\ c \notin Events /\ c \in AllChans
    BY WatchersAssumption DEF AllChans
  <1>1. /\ watch[c] = "subscribed" /\ watch' = [watch EXCEPT ![c] = "running"]
        /\ UNCHANGED <<values, globalLastUpdated, subscribed, chan, globalChan,
                       got, recent, shown>>
        /\ shownTime' = IF globalLastUpdated # ZeroTime
                        THEN [shownTime EXCEPT ![c] = globalLastUpdated]
                        ELSE shownTime
    BY DEF OnAnyChangeRead, Goto, vars, storeVars, chanVars
  <1>2. WTypeOK /\ TimeInv(c) /\ TypeOK
    BY <1>0 DEF FollowContext, WatchInv, TypeInv
  <1>3. /\ watch'[c] = "running"
        /\ \A d \in AllChans \ {c} : watch'[d] = watch[d]
    BY <1>0, <1>1, <1>2 DEF WTypeOK, AllChans
  <1>4. dropped' = dropped /\ baseline' = baseline
    BY <1>0, <1>1, <1>2, <1>3, HistoryKept, BaselineKept, WatchersAssumption
       DEF FollowContext, AllChans
  <1>5. /\ shownTime'[c] = globalLastUpdated
        /\ \A d \in GlobalChans \ {c} : shownTime'[d] = shownTime[d]
        /\ shownTime' \in [GlobalChans -> Times \cup {ZeroTime}]
    BY <1>1, <1>2 DEF WTypeOK, TypeOK, TimeInv
  <1>6. WTypeOK'
    BY <1>1, <1>2, <1>4, <1>5 DEF FollowContext, TypeInv, WTypeOK
  <1>7. Others(c)
    BY <1>0, <1>1, <1>3, <1>4, <1>5 DEF Others
  <1>8. TimeInv(c)'
    BY <1>1, <1>2, <1>3, <1>4, <1>5, TimeTypes
       DEF TimeInv, Registered, LatestIsCurrent, KnowsTime
  <1> QED
    BY <1>0, <1>1, <1>4, <1>6, <1>7, <1>8, FollowFrame DEF FollowContext

LEMMA WatchOnAnyChangeReceive ==
  ASSUME FollowContext, NEW c \in GlobalChans, OnAnyChangeReceive(c)
  PROVE  WatchInv'
  <1>0. c \notin ValueChans /\ c \notin Events /\ c \in AllChans
    BY WatchersAssumption DEF AllChans
  <1>1. /\ watch[c] = "running" /\ GlobalReceive(c)
        /\ UNCHANGED <<watch, got, recent, shown>>
        /\ shownTime' = [shownTime EXCEPT ![c] = Head(globalChan[c])]
    BY DEF OnAnyChangeReceive
  <1>2. WTypeOK /\ TimeInv(c) /\ TypeOK
    BY <1>0 DEF FollowContext, WatchInv, TypeInv
  <1>3. /\ Head(globalChan[c]) \in Times
        /\ Head(globalChan[c]) <= globalLastUpdated
        /\ Len(globalChan'[c]) <= ChanCap
        /\ \A d \in GlobalChans \ {c} : globalChan'[d] = globalChan[d]
        /\ UNCHANGED <<values, globalLastUpdated, subscribed, chan>>
        /\ c \in subscribed
        /\ c \notin dropped =>
              /\ LatestIsCurrent(c)'
              /\ globalChan'[c] = <<>> => Head(globalChan[c]) = globalLastUpdated
    BY <1>1, GlobalReceiveFacts DEF FollowContext
  <1>4. dropped' = dropped /\ baseline' = baseline
    BY <1>1, <1>2, <1>3, HistoryKept, BaselineKept DEF FollowContext
  <1>5. /\ shownTime'[c] = Head(globalChan[c])
        /\ \A d \in GlobalChans \ {c} : shownTime'[d] = shownTime[d]
        /\ shownTime' \in [GlobalChans -> Times \cup {ZeroTime}]
    BY <1>1, <1>2, <1>3 DEF WTypeOK
  <1>6. WTypeOK'
    <2>1. \A d \in GlobalChans : Len(globalChan'[d]) <= ChanCap
      BY <1>2, <1>3 DEF WTypeOK
    <2> QED
      BY <1>1, <1>2, <1>3, <1>4, <1>5, <2>1 DEF FollowContext, TypeInv, WTypeOK
  <1>7. Others(c)
    BY <1>0, <1>1, <1>3, <1>4, <1>5 DEF Others
  <1>8. TimeInv(c)'
    BY <1>1, <1>2, <1>3, <1>4, <1>5 DEF TimeInv, Registered, KnowsTime
  <1> QED
    BY <1>0, <1>1, <1>3, <1>4, <1>6, <1>7, <1>8, FollowFrame DEF FollowContext

LEMMA WatchEventsGet ==
  ASSUME FollowContext, NEW c \in Events, NEW k \in Keys, EventsGet(c, k)
  PROVE  WatchInv'
  <1>0. c \in ValueChans /\ c \in AllChans /\ c \notin GlobalChans
          /\ c \notin OnChangeN /\ c \notin OnChangeRegex
    BY WatchersAssumption DEF AllChans
  <1>1. /\ watch[c] = "new" /\ watch' = watch
        /\ UNCHANGED <<values, globalLastUpdated, subscribed, chan, globalChan,
                       shownTime>>
        /\ got' = [got EXCEPT ![c] = @ \cup {k}]
        /\ \/ UNCHANGED <<recent, shown>>
           \/ /\ recent' = [recent EXCEPT ![c][k] = values[k]]
              /\ shown' = [shown EXCEPT ![c][k] = values[k]]
    BY DEF EventsGet, ProcessUpdate, vars, storeVars, chanVars
  <1>2. WTypeOK /\ ValueInv(c) /\ TypeOK
    BY <1>0 DEF FollowContext, WatchInv, TypeInv
  <1>3. dropped' = dropped /\ baseline' = baseline
    BY <1>1, <1>2, HistoryKept, BaselineKept DEF FollowContext
  <1>4. /\ values[k] \in TimestampedValue /\ values[k].lastUpdated \in Int
        /\ \A l \in Keys : /\ recent[c][l].lastUpdated <= values[l].lastUpdated
                           /\ shown[c][l].lastUpdated <= values[l].lastUpdated
    BY <1>2, TimeTypes DEF TypeOK, ValueInv
  <1>5. /\ \A d \in ValueChans \ {c} :
              recent'[d] = recent[d] /\ shown'[d] = shown[d]
        /\ recent' \in [ValueChans -> [Keys -> TimestampedValue]]
        /\ shown' \in [ValueChans -> [Keys -> TimestampedValue]]
        /\ \A l \in Keys :
              /\ recent'[c][l] = recent[c][l] \/ recent'[c][l] = values[l]
              /\ shown'[c][l] = shown[c][l] \/ shown'[c][l] = values[l]
    <2>1. /\ recent \in [ValueChans -> [Keys -> TimestampedValue]]
          /\ shown \in [ValueChans -> [Keys -> TimestampedValue]]
      BY <1>2 DEF WTypeOK
    <2>2. CASE UNCHANGED <<recent, shown>>
      BY <2>1, <2>2
    <2>3. CASE /\ recent' = [recent EXCEPT ![c][k] = values[k]]
               /\ shown' = [shown EXCEPT ![c][k] = values[k]]
      BY <1>0, <1>4, <2>1, <2>3
    <2> QED
      BY <1>1, <2>2, <2>3
  <1>6. WTypeOK'
    <2>1. got' \in [Events -> SUBSET Keys]
      BY <1>1, <1>2 DEF WTypeOK
    <2> QED
      BY <1>1, <1>2, <1>3, <1>5, <2>1 DEF FollowContext, TypeInv, WTypeOK
  <1>7. Others(c)
    BY <1>0, <1>1, <1>3, <1>5 DEF Others
  <1>8. \A l \in Keys : /\ recent'[c][l].lastUpdated <= values[l].lastUpdated
                        /\ shown'[c][l].lastUpdated <= values[l].lastUpdated
    <2>1. \A l \in Keys : values[l].lastUpdated \in Int
      BY <1>2, TimeTypes
    <2> QED
      BY <1>4, <1>5, <2>1
  <1>9. ValueInv(c)'
    BY <1>0, <1>1, <1>2, <1>3, <1>8 DEF ValueInv, Registered, LastIsCurrent
  <1> QED
    BY <1>0, <1>1, <1>3, <1>6, <1>7, <1>9, FollowFrame DEF FollowContext

LEMMA WatchEventsSubscribe ==
  ASSUME FollowContext, NEW c \in Events, EventsSubscribe(c)
  PROVE  WatchInv'
  <1>0. c \in ValueChans /\ c \in AllChans /\ c \notin GlobalChans
          /\ c \notin OnChangeN /\ c \notin OnChangeRegex
    BY WatchersAssumption DEF AllChans
  <1>1. /\ watch[c] = "new" /\ watch' = [watch EXCEPT ![c] = "running"]
        /\ subscribed' = subscribed \cup {c}
        /\ UNCHANGED <<values, globalLastUpdated, chan, globalChan, got, recent,
                       shown, shownTime>>
    BY DEF EventsSubscribe, Subscribe, Goto, storeVars
  <1>2. WTypeOK /\ ValueInv(c) /\ TypeOK
    BY <1>0 DEF FollowContext, WatchInv, TypeInv
  <1>3. /\ watch'[c] = "running"
        /\ \A d \in AllChans \ {c} : watch'[d] = watch[d]
    BY <1>0, <1>1, <1>2 DEF WTypeOK, AllChans
  <1>4. dropped' = dropped
    BY <1>1, HistoryKept DEF FollowContext
  <1>5. /\ baseline'[c] = values
        /\ \A d \in Events \ {c} : baseline'[d] = baseline[d]
        /\ baseline' \in [Events -> [Keys -> TimestampedValue]]
    <2>1. \A d \in Events : d \in AllChans
      BY WatchersAssumption DEF AllChans
    <2>2. baseline' = [d \in Events |->
              IF watch[d] = "new" /\ watch'[d] = "running" THEN values
                                                          ELSE baseline[d]]
      BY DEF FollowContext, RecordBaseline
    <2>3. \A d \in Events : baseline[d] \in [Keys -> TimestampedValue]
      BY <1>2 DEF WTypeOK
    <2>4. values \in [Keys -> TimestampedValue]
      BY <1>2 DEF TypeOK
    <2>5. /\ baseline'[c] = values
          /\ \A d \in Events \ {c} : baseline'[d] = baseline[d]
      BY <1>1, <1>3, <2>1, <2>2
    <2> QED
      BY <2>2, <2>3, <2>4, <2>5
  <1>6. WTypeOK'
    BY <1>1, <1>2, <1>4, <1>5 DEF FollowContext, TypeInv, WTypeOK
  <1>7. Others(c)
    BY <1>0, <1>1, <1>3, <1>5 DEF Others
  <1>8. chan[c] = <<>> /\ c \in subscribed'
    BY <1>1, <1>2 DEF ValueInv, Registered
  <1>9. /\ LastIsCurrent(c)'
        /\ \A k \in ChanKeys[c] : Knows(c, k)'
    BY <1>1, <1>5, <1>8 DEF LastIsCurrent, Knows
  <1>10. ValueInv(c)'
    BY <1>0, <1>1, <1>2, <1>3, <1>4, <1>8, <1>9 DEF ValueInv, Registered
  <1> QED
    BY <1>0, <1>1, <1>4, <1>6, <1>7, <1>10, FollowFrame DEF FollowContext

LEMMA WatchEventsClose ==
  ASSUME FollowContext, NEW c \in Events, EventsClose(c)
  PROVE  WatchInv'
  <1>0. c \in ValueChans /\ c \in AllChans /\ c \notin GlobalChans
          /\ c \notin OnChangeN /\ c \notin OnChangeRegex
    BY WatchersAssumption DEF AllChans
  <1>1. /\ watch' = [watch EXCEPT ![c] = "gone"]
        /\ UNCHANGED <<values, globalLastUpdated, subscribed, chan, globalChan,
                       got, recent, shown, shownTime>>
    BY DEF EventsClose, Goto, vars, storeVars, chanVars
  <1>2. WTypeOK /\ ValueInv(c)
    BY <1>0 DEF FollowContext, WatchInv
  <1>3. /\ watch'[c] = "gone"
        /\ \A d \in AllChans \ {c} : watch'[d] = watch[d]
    BY <1>0, <1>1, <1>2 DEF WTypeOK, AllChans
  <1>4. dropped' = dropped /\ baseline' = baseline
    BY <1>0, <1>1, <1>2, <1>3, HistoryKept, BaselineKept, WatchersAssumption
       DEF FollowContext, AllChans
  <1>5. WTypeOK'
    BY <1>1, <1>2, <1>4 DEF FollowContext, TypeInv, WTypeOK
  <1>6. Others(c)
    BY <1>1, <1>3, <1>4 DEF Others
  <1>7. ValueInv(c)'
    BY <1>0, <1>1, <1>2, <1>3, <1>4 DEF ValueInv, Registered, LastIsCurrent
  <1> QED
    BY <1>0, <1>1, <1>4, <1>5, <1>6, <1>7, FollowFrame DEF FollowContext

LEMMA WatchFollow ==
  ASSUME FollowContext, NEW c \in AllChans, Follow(c)
  PROVE  WatchInv'
  <1>1. CASE Subscribing(c)
    BY <1>1, WatchSubscribing
  <1>2. CASE c \in OnChangeN /\ (OnChangeNRead(c) \/ OnChangeNReceive(c))
    BY <1>2, WatchOnChangeNRead, WatchOnChangeNReceive
  <1>3. CASE c \in OnChangeRegex /\ OnChangeRegexRead(c)
    BY <1>3, WatchOnChangeRegexRead
  <1>4. CASE c \in OnChangeRegex /\ OnChangeRegexReceive(c)
    BY <1>4, WatchReceiveShown DEF OnChangeRegexReceive
  <1>5. CASE c \in GlobalChans /\ (OnAnyChangeRead(c) \/ OnAnyChangeReceive(c))
    BY <1>5, WatchOnAnyChangeRead, WatchOnAnyChangeReceive
  <1>6. CASE c \in Events /\ EventsReceive(c)
    BY <1>6, WatchReceiveShown DEF EventsReceive, ProcessUpdate
  <1>7. CASE c \in Events /\ (\/ \E k \in Keys : EventsGet(c, k)
                              \/ EventsSubscribe(c) \/ EventsClose(c))
    BY <1>7, WatchEventsGet, WatchEventsSubscribe, WatchEventsClose
  <1> QED
    BY <1>1, <1>2, <1>3, <1>4, <1>5, <1>6, <1>7 DEF Follow, Subscribing

-----------------------------------------------------------------------------
(* The invariant, and what it says of the watchers *)

LEMMA WatchInit == WInit => WatchInv
  <1> SUFFICES ASSUME WInit PROVE WatchInv
    OBVIOUS
  <1>1. TypeOK
    BY TypeInit DEF WInit
  <1>2. /\ subscribed = {} /\ values = [k \in Keys |-> NoValue]
        /\ chan = [c \in ValueChans |-> <<>>]
        /\ globalChan = [c \in GlobalChans |-> <<>>]
        /\ globalLastUpdated = ZeroTime
    BY DEF WInit, Init
  <1>3. /\ watch \in [AllChans -> {"new", "gone"}]
        /\ got = [c \in Events |-> {}]
        /\ recent = [c \in ValueChans |-> [k \in Keys |-> NoValue]]
        /\ shown = [c \in ValueChans |-> [k \in Keys |-> NoValue]]
        /\ shownTime = [c \in GlobalChans |-> ZeroTime]
        /\ dropped = {}
        /\ baseline = [c \in Events |-> [k \in Keys |-> NoValue]]
    BY DEF WInit, AllChans
  <1>4. NoValue \in TimestampedValue /\ NoValue.lastUpdated \in Int
    BY ValueTime DEF NoValue, TimestampedValue
  <1>5. WTypeOK
    <2>1. /\ \A c \in ValueChans : Len(chan[c]) <= ChanCap
          /\ \A c \in GlobalChans : Len(globalChan[c]) <= ChanCap
      BY <1>2, ChanAssumption
    <2>2. watch \in [ValueChans \cup GlobalChans ->
                        {"new", "subscribed", "running", "gone"}]
      BY <1>3 DEF AllChans
    <2> QED
      BY <1>1, <1>3, <1>4, <2>1, <2>2 DEF WTypeOK
  <1>6. ASSUME NEW c \in ValueChans
        PROVE  ValueInv(c)
    <2>1. watch[c] \in {"new", "gone"} /\ chan[c] = <<>>
      BY <1>2, <1>3 DEF AllChans
    <2>2. \A k \in Keys : recent[c][k] = NoValue /\ shown[c][k] = NoValue
                            /\ values[k] = NoValue
      BY <1>2, <1>3
    <2>3. shown[c] = recent[c]
      BY <1>3
    <2> QED
      BY <1>2, <1>4, <2>1, <2>2, <2>3 DEF ValueInv, Registered, LastIsCurrent
  <1>7. ASSUME NEW c \in GlobalChans
        PROVE  TimeInv(c)
    <2>1. watch[c] \in {"new", "gone"} /\ globalChan[c] = <<>>
            /\ shownTime[c] = ZeroTime
      BY <1>2, <1>3 DEF AllChans
    <2> QED
      BY <1>2, <2>1 DEF TimeInv, Registered, LatestIsCurrent, KnowsTime, ZeroTime
  <1> QED
    BY <1>5, <1>6, <1>7 DEF WatchInv

LEMMA WatchStep ==
  ASSUME TypeInv, TypeInv', OrderInv, WatchInv, [WNext]_wvars
  PROVE  WatchInv'
  <1>1. CASE WNext /\ StoreStep
    BY <1>1, WatchStoreStep DEF WNext
  <1>2. ASSUME WNext, NEW c \in AllChans, Follow(c)
        PROVE  WatchInv'
    BY <1>2, WatchFollow DEF WNext, FollowContext
  <1>3. CASE UNCHANGED wvars
    BY <1>3 DEF wvars, vars, watcherVars, storeVars, chanVars, diskVars, mainVars,
                procVars, workerVars, WatchInv, WTypeOK, TypeOK, ValueInv, TimeInv,
                Registered, LastIsCurrent, Told, Knows, LatestIsCurrent, KnowsTime
  <1> QED
    BY <1>1, <1>2, <1>3 DEF WNext, AllChans

LEMMA WatchInvariant == WSpec => []WatchInv
  <1>1. WInit => WatchInv
    BY WatchInit
  <1>2. TypeInv /\ OrderInv /\ TypeInv' /\ WatchInv /\ [WNext]_wvars => WatchInv'
    BY WatchStep
  <1>3. WSpec => [](TypeInv /\ OrderInv)
    BY WatchersKeepStore, OrderInvariant, PTL
  <1> QED
    BY <1>1, <1>2, <1>3, PTL DEF WSpec

\* Control and contents of every watcher, and no channel over its capacity.
THEOREM WatchersTypeCorrect == WSpec => []WTypeOK
  <1>1. WatchInv => WTypeOK
    BY DEF WatchInv
  <1> QED
    BY <1>1, WatchInvariant, PTL

\* Every callback of OnChangeN that has emptied its channel has been told
\* exactly the current values of its topics, once they all exist: no update is
\* lost between Subscribe, the read of the map and the loop.
THEOREM CallbacksCatchUp == WSpec => []CallbackCaughtUp
  <1>1. ASSUME WatchInv
        PROVE  CallbackCaughtUp
    <2> SUFFICES ASSUME NEW c \in OnChangeN, \A k \in ChanKeys[c] : Present(k),
                        watch[c] = "running", chan[c] = <<>>, c \notin dropped,
                        NEW k \in ChanKeys[c]
                 PROVE  shown[c][k] = values[k]
      BY DEF CallbackCaughtUp, UpToDate
    <2>1. c \in ValueChans /\ c \notin OnChangeRegex /\ c \notin Events
      BY WatchersAssumption
    <2>2. \A l \in ChanKeys[c] : recent[c][l] = values[l]
      BY <1>1, <2>1 DEF WatchInv, ValueInv, Told, Knows
    <2>3. \A l \in ChanKeys[c] : recent[c][l] # NoValue
      BY <2>2 DEF Present, NoValue
    <2> QED
      BY <1>1, <2>1, <2>2, <2>3 DEF WatchInv, ValueInv
  <1> QED
    BY <1>1, WatchInvariant, PTL

\* So has every callback of OnChangeRegex.
THEOREM RegexCallbacksCatchUp == WSpec => []RegexCaughtUp
  <1>1. ASSUME WatchInv
        PROVE  RegexCaughtUp
    <2> SUFFICES ASSUME NEW c \in OnChangeRegex,
                        watch[c] = "running", chan[c] = <<>>, c \notin dropped,
                        NEW k \in ChanKeys[c]
                 PROVE  shown[c][k] = values[k]
      BY DEF RegexCaughtUp, UpToDate
    <2>1. c \in ValueChans /\ c \notin OnChangeN /\ c \notin Events
      BY WatchersAssumption
    <2> QED
      BY <1>1, <2>1 DEF WatchInv, ValueInv, Told, Knows
  <1> QED
    BY <1>1, WatchInvariant, PTL

\* Every open dashboard that has emptied its channel shows each setting that
\* changed since it subscribed.
THEOREM DashboardsFollow == WSpec => []DashboardFollows
  <1>1. ASSUME WatchInv
        PROVE  DashboardFollows
    <2> SUFFICES ASSUME NEW c \in Events,
                        watch[c] = "running", chan[c] = <<>>, c \notin dropped,
                        NEW k \in ChanKeys[c], values[k] # baseline[c][k]
                 PROVE  shown[c][k] = values[k]
      BY DEF DashboardFollows
    <2>1. c \in ValueChans /\ c \notin OnChangeN /\ c \notin OnChangeRegex
      BY WatchersAssumption
    <2> QED
      BY <1>1, <2>1 DEF WatchInv, ValueInv, Told, Knows
  <1> QED
    BY <1>1, WatchInvariant, PTL

\* Every callback of OnAnyChange that has emptied its channel has been told
\* the time of the latest update.
THEOREM LastChangeCatchesUp == WSpec => []AnyChangeCaughtUp
  <1>1. WatchInv => AnyChangeCaughtUp
    BY DEF WatchInv, AnyChangeCaughtUp, TimeInv, KnowsTime
  <1> QED
    BY <1>1, WatchInvariant, PTL

\* Whatever a full channel dropped, no watcher is ever ahead of the store.
THEOREM WatchersNeverAhead == WSpec => []NeverAhead
  <1>1. WatchInv => NeverAhead
    BY DEF WatchInv, NeverAhead, ValueInv, TimeInv
  <1> QED
    BY <1>1, WatchInvariant, PTL

=============================================================================
