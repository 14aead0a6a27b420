------------------------------ MODULE HAPublish ------------------------------
(***************************************************************************)
(* What Home Assistant sees of the thermostat, and the bridge's connection *)
(* to its broker (hamqtt.go, Run, publish and subscribe).  A watcher per   *)
(* topic publishes what the store has, retained; a connection that is lost *)
(* loses what is published meanwhile and, the session being a clean one,   *)
(* the subscriptions of the command handlers, which OnConnectHandler makes *)
(* anew one after the other.                                               *)
(*                                                                         *)
(* A watcher is due when its channel has a value; it publishes the current *)
(* one, the last that the channel brings.  Operators whose name starts     *)
(* with Slip are the ones after them with a plausible mistake.             *)
(***************************************************************************)
EXTENDS Naturals, FiniteSets

CONSTANTS
    States,      \* the state topics that are watched
    ValuesOf,    \* per key of the store the values that are reported
    NoState,     \* nothing reported, nothing published
    MaxChanges,  \* bound: reports with a new value
    MaxLosses    \* bound: losses of the connection

VARIABLES
    reported,    \* the store
    due,         \* the topics with a value in the watcher's channel
    connected,   \* to Home Assistant's broker
    installed,   \* how many handlers installSubscriptions has subscribed
    retained,    \* per state topic what the broker has
    changes, losses

publishVars ==
    <<reported, due, connected, installed, retained, changes, losses>>

Keys == DOMAIN ValuesOf

\* The keys of OnChange1 and OnChange2, per topic.
Sources(t) ==
    CASE t = "action/current" -> {"opmode", "opstat"}
      [] t = "mode/current" -> {"system/mode"}
      [] t = "zone/1/fanmode/current" -> {"1/fan"}
      [] t = "zone/1/temp_high/current" -> {"1/clsp"}
      [] t = "zone/1/temp_low/current" -> {"1/htsp"}
      [] t = "zone/1/preset_mode/current" -> {"1/currentActivity"}
      [] t = "zone/1/humidity/current" -> {"1/rh"}
      [] t = "zone/1/temperature/current" -> {"1/rt"}

ASSUME PublishAssumption == \A t \in States : Sources(t) \subseteq Keys

\* mode/set, fanmode/set, preset_mode/set, temp_high/set, temp_low/set
Handlers == 5

\* What is in none of the tables is the empty string.
CarrierModeToHAMode(m) ==
    IF m \in {"auto", "off", "cool", "heat"} THEN m
    ELSE IF m = "fanonly" THEN "fan_only" ELSE ""

CarrierFanModeToHA(f) ==
    CASE f = "off" -> "auto" [] f = "med" -> "medium"
      [] f \in {"low", "high"} -> f [] OTHER -> ""

ComputeCurrentAction(opmode, opstat) ==
    IF opmode = "cooling" /\ opstat = "dehumidify" THEN "drying"
    ELSE IF opmode \in {"heating", "cooling"} THEN opmode ELSE "off"

\* The payload of a state topic.
Render(t) ==
    CASE t = "action/current" ->
              ComputeCurrentAction(reported["opmode"], reported["opstat"])
      [] t = "mode/current" -> CarrierModeToHAMode(reported["system/mode"])
      [] t = "zone/1/fanmode/current" -> CarrierFanModeToHA(reported["1/fan"])
      [] OTHER -> reported[CHOOSE k \in Sources(t) : TRUE]

PublishInit ==
    /\ reported = [k \in Keys |-> NoState]
    /\ due = {} /\ connected = TRUE /\ installed = 0
    /\ retained = [t \in States |-> NoState]
    /\ changes = 0 /\ losses = 0

Complete(t) == \A k \in Sources(t) : reported'[k] # NoState

\* HAFollows: what is reported again is no news.
SlipNews(k) ==
    due' = due \cup {t \in States : /\ k \in Sources(t) /\ Complete(t)
                                    /\ reported'[k] # reported[k]}

\* maybeCallback of the watchers that listen to a key.
Notify(k) == due' = due \cup {t \in States : k \in Sources(t) /\ Complete(t)}

\* The thermostat reports a setting, the same value or another.
ReportSetting(k, v) ==
    /\ v # reported[k] => changes < MaxChanges
    /\ changes' = IF v # reported[k] THEN changes + 1 ELSE changes
    /\ reported' = [reported EXCEPT ![k] = v]
    /\ Notify(k)
    /\ UNCHANGED <<connected, installed, retained, losses>>

\* It repeats what it has reported; an Update notifies all the same.
Repeat(k) == reported[k] # NoState /\ ReportSetting(k, reported[k])

\* publish, at QoS 0: without a connection the message is dropped.
PublishState(t) ==
    /\ t \in due /\ due' = due \ {t}
    /\ \/ connected /\ retained' = [retained EXCEPT ![t] = Render(t)]
       \/ ~connected /\ UNCHANGED retained
    /\ UNCHANGED <<reported, connected, installed, changes, losses>>

LoseConnection ==
    /\ connected /\ losses < MaxLosses
    /\ connected' = FALSE /\ installed' = 0 /\ losses' = losses + 1
    /\ UNCHANGED <<reported, due, retained, changes>>

\* SetAutoReconnect
Reconnect ==
    /\ ~connected /\ connected' = TRUE
    /\ UNCHANGED <<reported, due, installed, retained, changes,
                   losses>>

\* CommandsHeard: the handlers are installed after the first Connect only.
SlipInstalling == connected /\ losses = 0

\* OnConnectHandler runs on every connection.
Installing == connected

\* subscribe, for the next of the five handlers.
InstallSubscription ==
    /\ Installing /\ installed < Handlers
    /\ installed' = installed + 1
    /\ UNCHANGED <<reported, due, connected, retained, changes,
                   losses>>

PublishNext ==
    \/ \E k \in Keys : Repeat(k) \/ \E v \in ValuesOf[k] : ReportSetting(k, v)
    \/ \E t \in States : PublishState(t)
    \/ LoseConnection \/ Reconnect \/ InstallSubscription

\* The watchers and the handler of new connections run, and the thermostat
\* repeats its status.
PublishFairness ==
    /\ \A k \in Keys : WF_publishVars(Repeat(k))
    /\ \A t \in States : WF_publishVars(PublishState(t))
    /\ WF_publishVars(InstallSubscription)
    /\ WF_publishVars(Reconnect)

PublishSpec == PublishInit /\ [][PublishNext]_publishVars
                 /\ PublishFairness

-----------------------------------------------------------------------------
(* Properties *)

\* After any number of lost connections the handlers are subscribed again,
\* so that commands are heard (SetOnConnectHandler).
CommandsHeard == <>[](installed = Handlers)

\* What was lost is made good by the thermostat's next report: in the end
\* Home Assistant sees what is reported.
HAFollows ==
    \A t \in States :
        <>[](\/ retained[t] = Render(t)
             \/ \E k \in Sources(t) : reported[k] = NoState)
=============================================================================
