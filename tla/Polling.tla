------------------------------- MODULE Polling -------------------------------
(***************************************************************************)
(* The hook's liveClients and the loop that polls the thermostat once a    *)
(* minute (serve.go, without the AWS IoT proxy).  Each connection has a    *)
(* goroutine that reads its packets: CONNECT replaces the map by an empty  *)
(* one, the first PUBLISH on the thing's topic puts the client into it,    *)
(* and the loop looks up the clients that the broker lists.  Nothing       *)
(* guards the map.  A goroutine that has read the variable goes on with    *)
(* the map it found when another replaces it, and two accesses of one map, *)
(* one of them a write, may end the process (the runtime's fatal error).   *)
(* Operators whose name starts with Slip are the ones after them with a    *)
(* plausible mistake.                                                      *)
(***************************************************************************)
EXTENDS Naturals, FiniteSets

CONSTANTS
    Connections,  \* every connection that is ever made
    ClientID,     \* per connection the identifier it gives
    NoConnection

ASSUME PollingAssumption == NoConnection \notin Connections

VARIABLES
    conn,         \* per connection how far it is
    clients,      \* server.Clients: per identifier the connection
    liveClients,  \* what the current map holds
    generation,   \* how many maps there have been, one per CONNECT
    inserting,    \* per connection the map it is about to write, 0 if none
    poll,         \* the loop: where it is, clients to look up, hasLiveClient
    up,           \* the process has not died
    spoke         \* history: per connection the generation of its last PUBLISH

pollingVars ==
    <<conn, clients, liveClients, generation, inserting, poll, up, spoke>>

IDs == {ClientID[k] : k \in Connections}

Waiting == [at |-> "waiting", ids |-> {}, live |-> FALSE, since |-> 0]

PollingInit ==
    /\ conn = [k \in Connections |-> "new"]
    /\ clients = [i \in IDs |-> NoConnection]
    /\ liveClients = {} /\ generation = 1
    /\ inserting = [k \in Connections |-> 0]
    /\ poll = Waiting /\ up = TRUE
    /\ spoke = [k \in Connections |-> 0]

-----------------------------------------------------------------------------
(* The goroutine of a connection *)

\* PollJustified: the map is kept.
SlipForgetClients == UNCHANGED liveClients

ForgetClients == liveClients' = {}

\* OnPacketRead, CONNECT: before the broker has accepted the client.
Connect(k) ==
    /\ up /\ conn[k] = "new"
    /\ conn' = [conn EXCEPT ![k] = "connecting"]
    /\ ForgetClients
    /\ generation' = generation + 1
    /\ UNCHANGED <<clients, inserting, poll, up, spoke>>

\* The broker lists it; an older connection of the identifier is stopped.
Accept(k) ==
    /\ up /\ conn[k] = "connecting"
    /\ clients' = [clients EXCEPT ![ClientID[k]] = k]
    /\ conn' = [j \in Connections |->
                  IF j = k THEN "accepted"
                  ELSE IF j = clients[ClientID[k]] THEN "closed" ELSE conn[j]]
    /\ UNCHANGED <<liveClients, generation, inserting, poll, up, spoke>>

\* OnPacketRead, PUBLISH on a topic that ends in the thing's name: the
\* variable is read ...
PublishNData(k) ==
    /\ up /\ conn[k] = "accepted" /\ inserting[k] = 0
    /\ inserting' = [inserting EXCEPT ![k] = generation]
    /\ spoke' = [spoke EXCEPT ![k] = generation]
    /\ UNCHANGED <<conn, clients, liveClients, generation, poll, up>>

\* ... and the map that it held is written.
Insert(k) ==
    /\ up /\ inserting[k] # 0
    /\ liveClients' = IF inserting[k] = generation
                      THEN liveClients \cup {ClientID[k]} ELSE liveClients
    /\ inserting' = [inserting EXCEPT ![k] = 0]
    /\ UNCHANGED <<conn, clients, generation, poll, up, spoke>>

\* The connection ends; the broker drops the client or keeps its session.
Close(k) ==
    /\ up /\ conn[k] = "accepted"
    /\ conn' = [conn EXCEPT ![k] = "closed"]
    /\ clients' \in {clients,
                     [clients EXCEPT ![ClientID[k]] = NoConnection]}
    /\ UNCHANGED <<liveClients, generation, inserting, poll, up, spoke>>

-----------------------------------------------------------------------------
(* The loop *)

\* time.Tick, and server.Clients.GetAll, a copy.
Tick ==
    /\ up /\ poll.at = "waiting"
    /\ poll' = [at |-> "looking", live |-> FALSE, since |-> generation,
                ids |-> {i \in IDs : clients[i] # NoConnection}]
    /\ UNCHANGED <<conn, clients, liveClients, generation, inserting, up,
                   spoke>>

\* LiveIsPolled: the last client decides.
SlipSeen(i) == i \in liveClients

Seen(i) == poll.live \/ i \in liveClients

Lookup(i) ==
    /\ up /\ poll.at = "looking" /\ i \in poll.ids
    /\ poll' = [poll EXCEPT !.ids = @ \ {i}, !.live = Seen(i)]
    /\ UNCHANGED <<conn, clients, liveClients, generation, inserting, up,
                   spoke>>

\* publishProto with event_update_mode_active, or nothing.
EndPoll ==
    /\ up
    /\ \/ /\ poll.at = "looking" /\ poll.ids = {}
          /\ poll' = IF poll.live THEN [poll EXCEPT !.at = "sending"]
                                  ELSE Waiting
       \/ poll.at = "sending" /\ poll' = Waiting
    /\ UNCHANGED <<conn, clients, liveClients, generation, inserting, up,
                   spoke>>

\* Two goroutines in the same map, one of them writing it.
MapFault ==
    /\ up
    /\ \E k \in Connections :
          /\ inserting[k] # 0
          /\ \/ \E j \in Connections \ {k} : inserting[j] = inserting[k]
             \/ inserting[k] = generation /\ poll.at = "looking"
    /\ up' = FALSE
    /\ UNCHANGED <<conn, clients, liveClients, generation, inserting, poll,
                   spoke>>

PollingNext ==
    \/ \E k \in Connections :
          Connect(k) \/ Accept(k) \/ PublishNData(k) \/ Insert(k) \/ Close(k)
    \/ Tick \/ (\E i \in IDs : Lookup(i)) \/ EndPoll
    \/ MapFault

\* Goroutines run, the ticker ticks, and a connected thermostat publishes
\* its status again and again.
PollingFairness ==
    /\ WF_pollingVars(Tick)
    /\ WF_pollingVars(EndPoll)
    /\ WF_pollingVars(\E i \in IDs : Lookup(i))
    /\ \A k \in Connections :
          /\ WF_pollingVars(Accept(k))
          /\ WF_pollingVars(PublishNData(k))
          /\ WF_pollingVars(Insert(k))

PollingSpec == PollingInit /\ [][PollingNext]_pollingVars
                 /\ PollingFairness

-----------------------------------------------------------------------------
(* Properties *)

\* The type of every variable.
PollingTypeOK ==
    /\ conn \in [Connections -> {"new", "connecting", "accepted", "closed"}]
    /\ clients \in [IDs -> Connections \cup {NoConnection}]
    /\ liveClients \subseteq IDs /\ generation \in Nat \ {0}
    /\ inserting \in [Connections -> 0 .. generation]
    /\ poll.at \in {"waiting", "looking", "sending"} /\ poll.ids \subseteq IDs
    /\ poll.live \in BOOLEAN /\ poll.since \in 0 .. generation
    /\ up \in BOOLEAN /\ spoke \in [Connections -> 0 .. generation]

\* A poll is sent only if some client has published on the thing's topic
\* after every CONNECT that had been read when the minute struck, however
\* the goroutines run into each other (serve.go:168-170).  A CONNECT in the
\* middle of the loop's round does not stop it.
PollJustified ==
    poll.at = "sending" => \E k \in Connections : spoke[k] >= poll.since

\* A thermostat that stays connected and publishes is polled again and
\* again: a PUBLISH that fell into a map already replaced is made good by a
\* later one, and other clients' CONNECTs end some time (serve.go:1273).
LiveIsPolled ==
    \A k \in Connections :
        <>[](up /\ conn[k] = "accepted") => []<>(poll.at = "sending")
=============================================================================
