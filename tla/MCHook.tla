-------------------------------- MODULE MCHook --------------------------------
(***************************************************************************)
(* The parts of serve that must make progress: the loop that polls the     *)
(* thermostat, what Home Assistant sees, and the proxy, which takes the    *)
(* place of the loop.  They share nothing; each run of the model exercises *)
(* one of them, chosen at the start, and leaves the others at rest.        *)
(***************************************************************************)
EXTENDS Polling, HAPublish, Proxy, TLC

CONSTANTS k1, k2, k3, a, b,       \* polling
          t1, t2, t3, i1, i2      \* proxy

VARIABLE part

hookVars == <<part, pollingVars, publishVars, proxyVars>>

MCClientID == k1 :> a @@ k2 :> a @@ k3 :> b

\* One topic of two settings, with a table of its own, and one of one.
MCStates == {"action/current", "zone/1/fanmode/current"}
MCValuesOf ==
    "opmode" :> {"cooling", "heating"} @@ "opstat" :> {"dehumidify", "on"}
      @@ "1/fan" :> {"off", "med"}

\* The bridge at rest: all subscribed, and nothing reported yet.
PublishAtRest ==
    /\ reported = [k \in Keys |-> NoState]
    /\ due = {} /\ connected = TRUE /\ installed = Handlers
    /\ retained = [t \in States |-> NoState]
    /\ changes = 0 /\ losses = 0

\* One client uses the thing's real name, which is t1's in the cloud.
MCIOTTopic == t1 :> i1 @@ t2 :> i1 @@ t3 :> i2

MCInit ==
    /\ PollingInit /\ ProxyInit
    /\ \/ part \in {"polling", "proxy"} /\ PublishAtRest
       \/ part = "publish" /\ PublishInit

MCNext ==
    /\ UNCHANGED part
    /\ \/ /\ part = "polling" /\ PollingNext
          /\ UNCHANGED <<publishVars, proxyVars>>
       \/ /\ part = "publish" /\ PublishNext
          /\ UNCHANGED <<pollingVars, proxyVars>>
       \/ /\ part = "proxy" /\ ProxyNext
          /\ UNCHANGED <<pollingVars, publishVars>>

MCSpec ==
    /\ MCInit /\ [][MCNext]_hookVars
    /\ part = "polling" => PollingFairness
    /\ part = "publish" => PublishFairness
    /\ part = "proxy" => ProxyFairness
=============================================================================
