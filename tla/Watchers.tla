------------------------------ MODULE Watchers ------------------------------
(***************************************************************************)
(* The goroutines that follow the store: OnChangeN (the Prometheus gauges, *)
(* Home Assistant, weather and firmware requests), OnChangeRegex (usage    *)
(* gauges), OnAnyChange (time of the last message) and the /events stream  *)
(* of the dashboard.  Each has a channel of LoadedValues and remembers     *)
(* what its callback has been told last.  An operator named Slip... is, as *)
(* in LoadedValues, the definition after it with a mistake in it.          *)
(***************************************************************************)
EXTENDS LoadedValues

CONSTANTS
    OnChangeN,      \* channels of OnChangeN, whose topics are ChanKeys
    OnChangeRegex,  \* channels of OnChangeRegex
    Events,         \* channels of open dashboards
    Together        \* which of the channels are used side by side

ASSUME WatchersAssumption ==
    /\ OnChangeN \cup OnChangeRegex \cup Events = ValueChans
    /\ OnChangeN \cap OnChangeRegex = {}
    /\ (OnChangeN \cup OnChangeRegex) \cap Events = {}
    /\ ValueChans \cap GlobalChans = {}   \* they are of different types
    /\ Together \subseteq SUBSET (ValueChans \cup GlobalChans)
    /\ ~Crashes

VARIABLES
    watch,      \* control of each watcher
    got,        \* the topics that /events has read with Get
    recent,     \* recentValues of OnChangeN, currentValues of /events
    shown,      \* per key the value last passed to the callback or the page
    shownTime,  \* the time last passed to OnAnyChange's callback
    dropped,    \* history: the channels that were full when a value came
    baseline    \* history: the map at the time /events subscribed

watcherVars == <<watch, got, recent, shown, shownTime>>
wvars == <<vars, watcherVars, dropped, baseline>>

WInit ==
    /\ Init
    /\ \E used \in Together :
          watch = [c \in ValueChans \cup GlobalChans |->
                      IF c \in used THEN "new" ELSE "gone"]
    /\ got = [c \in Events |-> {}]
    /\ recent = [c \in ValueChans |-> [k \in Keys |-> NoValue]]
    /\ shown = [c \in ValueChans |-> [k \in Keys |-> NoValue]]
    /\ shownTime = [c \in GlobalChans |-> ZeroTime]
    /\ dropped = {}
    /\ baseline = [c \in Events |-> [k \in Keys |-> NoValue]]

Goto(c, s) == watch' = [watch EXCEPT ![c] = s]

\* maybeCallback: the callback runs once every topic has a value.
MaybeCallback(c) ==
    shown' = IF \A k \in ChanKeys[c] : recent'[c][k] # NoValue
             THEN [shown EXCEPT ![c] = recent'[c]] ELSE shown

-----------------------------------------------------------------------------
(* OnChangeN: subscribe, read the map, then follow the channel. *)

OnChangeNSubscribe(c) ==
    /\ watch[c] = "new" /\ Subscribe(c)
    /\ Goto(c, "subscribed")
    /\ UNCHANGED <<got, recent, shown, shownTime>>

\* CallbackCaughtUp: only what the channel brings is followed.
SlipOnChangeNRead(c) ==
    /\ watch[c] = "subscribed" /\ LockFree
    /\ Goto(c, "running")
    /\ UNCHANGED <<vars, got, recent, shown, shownTime>>

OnChangeNRead(c) ==
    /\ watch[c] = "subscribed" /\ LockFree
    /\ recent' = [recent EXCEPT ![c] =
                    [k \in Keys |-> IF k \in ChanKeys[c] THEN values[k]
                                                         ELSE @[k]]]
    /\ MaybeCallback(c)
    /\ Goto(c, "running")
    /\ UNCHANGED <<vars, got, shownTime>>

OnChangeNReceive(c) ==
    /\ watch[c] = "running" /\ Receive(c)
    /\ recent' = [recent EXCEPT ![c][Head(chan[c])[1]] = Head(chan[c])[2]]
    /\ MaybeCallback(c)
    /\ UNCHANGED <<watch, got, shownTime>>

-----------------------------------------------------------------------------
(* OnChangeRegex: the same, but the callback takes one value at a time, and *)
(* the first calls are made with the lock held.                             *)

OnChangeRegexSubscribe(c) ==
    /\ watch[c] = "new" /\ Subscribe(c)
    /\ Goto(c, "subscribed")
    /\ UNCHANGED <<got, recent, shown, shownTime>>

\* RegexCaughtUp: likewise.
SlipOnChangeRegexRead(c) ==
    /\ watch[c] = "subscribed" /\ LockFree
    /\ Goto(c, "running")
    /\ UNCHANGED <<vars, got, recent, shown, shownTime>>

OnChangeRegexRead(c) ==
    /\ watch[c] = "subscribed" /\ LockFree
    /\ shown' = [shown EXCEPT ![c] =
                    [k \in Keys |-> IF k \in ChanKeys[c] /\ Present(k)
                                    THEN values[k] ELSE @[k]]]
    /\ Goto(c, "running")
    /\ UNCHANGED <<vars, got, recent, shownTime>>

OnChangeRegexReceive(c) ==
    /\ watch[c] = "running" /\ Receive(c)
    /\ shown' = [shown EXCEPT ![c][Head(chan[c])[1]] = Head(chan[c])[2]]
    /\ UNCHANGED <<watch, got, recent, shownTime>>

-----------------------------------------------------------------------------
(* OnAnyChange *)

OnAnyChangeSubscribe(c) ==
    /\ watch[c] = "new" /\ GlobalSubscribe(c)
    /\ Goto(c, "subscribed")
    /\ UNCHANGED <<got, recent, shown, shownTime>>

\* AnyChangeCaughtUp: likewise.
SlipOnAnyChangeRead(c) ==
    /\ watch[c] = "subscribed" /\ LockFree
    /\ Goto(c, "running")
    /\ UNCHANGED <<vars, got, recent, shown, shownTime>>

OnAnyChangeRead(c) ==
    /\ watch[c] = "subscribed" /\ LockFree
    /\ shownTime' = IF globalLastUpdated # ZeroTime
                    THEN [shownTime EXCEPT ![c] = globalLastUpdated]
                    ELSE shownTime
    /\ Goto(c, "running")
    /\ UNCHANGED <<vars, got, recent, shown>>

OnAnyChangeReceive(c) ==
    /\ watch[c] = "running" /\ GlobalReceive(c)
    /\ shownTime' = [shownTime EXCEPT ![c] = Head(globalChan[c])]
    /\ UNCHANGED <<watch, got, recent, shown>>

-----------------------------------------------------------------------------
(* /events: read the topics one by one, subscribe, then follow the channel. *)
(* Nobody unsubscribes: the channel of a page that is gone stays with the   *)
(* store.                                                                   *)

\* DashboardFollows: what has a value already is not rendered again.
SlipProcessUpdate(c, k, tv) ==
    /\ recent' = [recent EXCEPT ![c][k] = tv]
    /\ shown' = IF recent[c][k] = NoValue
                THEN [shown EXCEPT ![c][k] = tv] ELSE shown

ProcessUpdate(c, k, tv) ==
    /\ recent' = [recent EXCEPT ![c][k] = tv]
    /\ shown' = [shown EXCEPT ![c][k] = tv]

EventsGet(c, k) ==
    /\ watch[c] = "new" /\ phase = "serving" /\ LockFree
    /\ k \in ChanKeys[c] \ got[c]
    /\ got' = [got EXCEPT ![c] = @ \cup {k}]
    /\ IF Present(k) THEN ProcessUpdate(c, k, values[k])
                     ELSE UNCHANGED <<recent, shown>>
    /\ UNCHANGED <<vars, watch, shownTime>>

EventsSubscribe(c) ==
    /\ watch[c] = "new" /\ got[c] = ChanKeys[c] /\ Subscribe(c)
    /\ Goto(c, "running")
    /\ UNCHANGED <<got, recent, shown, shownTime>>

EventsReceive(c) ==
    /\ watch[c] = "running" /\ Receive(c)
    /\ ProcessUpdate(c, Head(chan[c])[1], Head(chan[c])[2])
    /\ UNCHANGED <<watch, got, shownTime>>

EventsClose(c) ==
    /\ watch[c] = "running"
    /\ Goto(c, "gone")
    /\ UNCHANGED <<vars, got, recent, shown, shownTime>>

-----------------------------------------------------------------------------
Follow(c) ==
    \/ /\ c \in OnChangeN
       /\ OnChangeNSubscribe(c) \/ OnChangeNRead(c) \/ OnChangeNReceive(c)
    \/ /\ c \in OnChangeRegex
       /\ \/ OnChangeRegexSubscribe(c) \/ OnChangeRegexRead(c)
          \/ OnChangeRegexReceive(c)
    \/ /\ c \in GlobalChans
       /\ \/ OnAnyChangeSubscribe(c) \/ OnAnyChangeRead(c)
          \/ OnAnyChangeReceive(c)
    \/ /\ c \in Events
       /\ \/ \E k \in Keys : EventsGet(c, k)
          \/ EventsSubscribe(c) \/ EventsReceive(c) \/ EventsClose(c)

StoreStep ==
    /\ \/ \E p \in Procs, m \in Messages, f \in Files : OpenProto(p, m, f)
       \/ \E p \in Procs : Step(p)
       \/ Load
       \/ Worker
    /\ UNCHANGED watcherVars

\* A select that takes its default branch leaves the value out.
RecordDrops ==
    dropped' = dropped
      \cup {c \in ValueChans \cap subscribed :
               /\ Len(chan[c]) = ChanCap
               /\ \E k \in ChanKeys[c] : values'[k] # values[k]}
      \cup {c \in GlobalChans \cap subscribed :
               /\ Len(globalChan[c]) = ChanCap
               /\ globalLastUpdated' # globalLastUpdated}

RecordBaseline ==
    baseline' = [c \in Events |->
        IF watch[c] = "new" /\ watch'[c] = "running" THEN values
                                                    ELSE baseline[c]]

WNext ==
    /\ StoreStep \/ \E c \in ValueChans \cup GlobalChans : Follow(c)
    /\ RecordDrops
    /\ RecordBaseline

WSpec == WInit /\ [][WNext]_wvars

-----------------------------------------------------------------------------
(* Properties *)

\* Control and contents of the watchers; no channel is ever over its capacity.
WTypeOK ==
    /\ TypeOK
    /\ \A c \in ValueChans : Len(chan[c]) <= ChanCap
    /\ \A c \in GlobalChans : Len(globalChan[c]) <= ChanCap
    /\ watch \in [ValueChans \cup GlobalChans ->
                     {"new", "subscribed", "running", "gone"}]
    /\ got \in [Events -> SUBSET Keys]
    /\ recent \in [ValueChans -> [Keys -> TimestampedValue]]
    /\ shown \in [ValueChans -> [Keys -> TimestampedValue]]
    /\ shownTime \in [GlobalChans -> Times \cup {ZeroTime}]
    /\ dropped \subseteq ValueChans \cup GlobalChans
    /\ baseline \in [Events -> [Keys -> TimestampedValue]]

\* A watcher that has emptied its channel shows the map.
UpToDate(c) ==
    watch[c] = "running" /\ chan[c] = <<>> /\ c \notin dropped =>
        \A k \in ChanKeys[c] : shown[c][k] = values[k]

\* A callback of OnChangeN that has emptied its channel has been told exactly
\* the current values, once they all exist: an update that lands between
\* Subscribe and the read of the map, or between the read and the loop, is
\* not lost, although it may be told twice or out of order on the way.
CallbackCaughtUp ==
    \A c \in OnChangeN :
        (\A k \in ChanKeys[c] : Present(k)) => UpToDate(c)

\* So has a callback of OnChangeRegex.
RegexCaughtUp == \A c \in OnChangeRegex : UpToDate(c)

\* The gauge of the last message shows the latest time of any update.
AnyChangeCaughtUp ==
    \A c \in GlobalChans :
        watch[c] = "running" /\ globalChan[c] = <<>> /\ c \notin dropped =>
            shownTime[c] = globalLastUpdated

\* An open dashboard that has emptied its channel shows every setting that
\* changed since it subscribed, whatever it read before.
DashboardFollows ==
    \A c \in Events :
        watch[c] = "running" /\ chan[c] = <<>> /\ c \notin dropped =>
            \A k \in ChanKeys[c] :
                values[k] # baseline[c][k] => shown[c][k] = values[k]

\* Whatever was dropped, delayed or told twice, no watcher shows a setting at
\* a later time than the map does.
NeverAhead ==
    /\ \A c \in ValueChans, k \in Keys :
          shown[c][k].lastUpdated <= values[k].lastUpdated
    /\ \A c \in GlobalChans : shownTime[c] <= globalLastUpdated

\* An open dashboard that has received all it will receive shows the current
\* state of the thermostat ("Continuously poll state of thermostat and
\* present them in a basic readonly dashboard").
DashboardCaughtUp == \A c \in Events : UpToDate(c)

-----------------------------------------------------------------------------
(* The invariant behind the properties.                                    *)

\* A channel is registered before its watcher runs.
Registered(c) ==
    /\ watch[c] \in {"subscribed", "running"} => c \in subscribed
    /\ watch[c] = "new" => c \notin subscribed

\* The last news of a setting in the channel is its value.
LastIsCurrent(c) ==
    \A i \in DOMAIN chan[c] :
        (\A j \in DOMAIN chan[c] : i < j => chan[c][j][1] # chan[c][i][1])
            => chan[c][i][2] = values[chan[c][i][1]]

\* The channel has news of k, or its watcher knows the value.
Told(c, k) == \E i \in DOMAIN chan[c] : chan[c][i][1] = k

Knows(c, k) ==
    \/ c \in OnChangeN /\ recent[c][k] = values[k]
    \/ c \in OnChangeRegex /\ shown[c][k] = values[k]
    \/ c \in Events /\ (\/ shown[c][k] = values[k]
                        \/ values[k] = baseline[c][k])

\* A channel is empty until it is registered and has what it asked for.  A
\* watcher that has not read the map has nothing; one that runs knows what it
\* has not been told of, unless its channel has dropped something.  A callback
\* of OnChangeN has been told all that is known, once it is complete, and what
\* is known and shown is in the past.
ValueInv(c) ==
    /\ Registered(c)
    /\ c \notin subscribed => chan[c] = <<>>
    /\ \A i \in DOMAIN chan[c] : chan[c][i][1] \in ChanKeys[c]
    /\ c \notin Events /\ watch[c] \in {"new", "subscribed"} =>
           \A k \in Keys : recent[c][k] = NoValue /\ shown[c][k] = NoValue
    /\ c \notin dropped =>
           /\ LastIsCurrent(c)
           /\ watch[c] = "running" =>
                 \A k \in ChanKeys[c] : Told(c, k) \/ Knows(c, k)
    /\ c \in OnChangeN /\ (\A k \in ChanKeys[c] : recent[c][k] # NoValue) =>
           shown[c] = recent[c]
    /\ \A k \in Keys :
          /\ recent[c][k].lastUpdated <= values[k].lastUpdated
          /\ shown[c][k].lastUpdated <= values[k].lastUpdated

\* Likewise for the time of the last change.
LatestIsCurrent(c) ==
    globalChan[c] # <<>> => globalChan[c][Len(globalChan[c])] = globalLastUpdated

KnowsTime(c) ==
    watch[c] = "running" /\ globalChan[c] = <<>> =>
        shownTime[c] = globalLastUpdated

TimeInv(c) ==
    /\ Registered(c)
    /\ c \notin subscribed => globalChan[c] = <<>>
    /\ watch[c] \in {"new", "subscribed"} => shownTime[c] = ZeroTime
    /\ c \notin dropped => LatestIsCurrent(c) /\ KnowsTime(c)
    /\ shownTime[c] <= globalLastUpdated

WatchInv ==
    /\ WTypeOK
    /\ \A c \in ValueChans : ValueInv(c)
    /\ \A c \in GlobalChans : TimeInv(c)
=============================================================================
