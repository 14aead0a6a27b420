------------------------------ MODULE HookProofs ------------------------------
(***************************************************************************)
(* The hook, for any connections and topics: a poll has a reason, although *)
(* the map of live clients is replaced under the hands of those who use    *)
(* it, and the proxy forwards what was asked for, in order.                *)
(*                                                                         *)
(* What is in the current map was put there by a connection that has       *)
(* published since the last CONNECT (LiveSpoke), because a goroutine that  *)
(* is late writes into the map that it found (InsertingSpoke).  What is in *)
(* the session of the cloud, or on its way to it, has the callback of a    *)
(* topic that the thermostat has subscribed to (SessionWished).            *)
(***************************************************************************)
EXTENDS Polling, Proxy, TLAPS

InsertingSpoke ==
    \A k \in Connections : inserting[k] # 0 => spoke[k] = inserting[k]

LiveSpoke ==
    liveClients # {} => \E k \in Connections : spoke[k] = generation

PollSpoke ==
    /\ poll.live => \E k \in Connections : spoke[k] >= poll.since
    /\ poll.at = "sending" => poll.live

\* poll as a record; PollingTypeOK says only what its fields are.
PollShape ==
    poll \in [at : {"waiting", "looking", "sending"}, ids : SUBSET IDs,
              live : BOOLEAN, since : Nat]

PollingInv ==
    /\ PollingTypeOK /\ PollShape
    /\ InsertingSpoke /\ LiveSpoke /\ PollSpoke

-----------------------------------------------------------------------------
LEMMA PollingInvInit == PollingInit => PollingInv
  BY PollingAssumption
     DEF PollingInit, PollingInv, PollingTypeOK, InsertingSpoke, LiveSpoke,
         PollSpoke, PollShape, Waiting, IDs

\* A CONNECT begins a new map, which nobody has written.
LEMMA ConnectInv ==
  ASSUME PollingInv, NEW k \in Connections, Connect(k)
  PROVE  PollingInv'
  BY DEF PollingInv, PollingTypeOK, InsertingSpoke, LiveSpoke, PollSpoke,
         PollShape, IDs, Connect, ForgetClients

LEMMA AcceptInv ==
  ASSUME PollingInv, NEW k \in Connections, Accept(k)
  PROVE  PollingInv'
  BY DEF PollingInv, PollingTypeOK, InsertingSpoke, LiveSpoke, PollSpoke,
         PollShape, IDs, Accept

\* Who publishes speaks now; what others have said stays.
LEMMA PublishNDataInv ==
  ASSUME PollingInv, NEW k \in Connections, PublishNData(k)
  PROVE  PollingInv'
  <1>1. /\ inserting' = [inserting EXCEPT ![k] = generation]
        /\ spoke' = [spoke EXCEPT ![k] = generation]
        /\ UNCHANGED <<conn, clients, liveClients, generation, poll, up>>
    BY DEF PublishNData
  <1>2. PollingTypeOK' /\ PollShape'
    BY <1>1 DEF PollingInv, PollingTypeOK, PollShape, IDs
  <1>3. \A j \in Connections : spoke'[j] >= spoke[j] /\ spoke'[k] = generation
    BY <1>1 DEF PollingInv, PollingTypeOK
  <1>4. InsertingSpoke' /\ LiveSpoke'
    BY <1>1, <1>3 DEF PollingInv, PollingTypeOK, InsertingSpoke, LiveSpoke
  <1>5. PollSpoke'
    BY <1>1, <1>3 DEF PollingInv, PollingTypeOK, PollShape, PollSpoke
  <1> QED
    BY <1>2, <1>4, <1>5 DEF PollingInv

LEMMA InsertInv ==
  ASSUME PollingInv, NEW k \in Connections, Insert(k)
  PROVE  PollingInv'
  BY DEF PollingInv, PollingTypeOK, InsertingSpoke, LiveSpoke, PollSpoke,
         PollShape, IDs, Insert

LEMMA CloseInv ==
  ASSUME PollingInv, NEW k \in Connections, Close(k)
  PROVE  PollingInv'
  BY DEF PollingInv, PollingTypeOK, InsertingSpoke, LiveSpoke, PollSpoke,
         PollShape, IDs, Close

LEMMA TickInv ==
  ASSUME PollingInv, Tick
  PROVE  PollingInv'
  BY DEF PollingInv, PollingTypeOK, InsertingSpoke, LiveSpoke, PollSpoke,
         PollShape, IDs, Tick

\* A client that is found live spoke since the last CONNECT of all, and so
\* since the one that the loop began with.
LEMMA LookupInv ==
  ASSUME PollingInv, NEW i \in IDs, Lookup(i)
  PROVE  PollingInv'
  <1>1. /\ poll' = [poll EXCEPT !.ids = @ \ {i}, !.live = Seen(i)]
        /\ poll.at = "looking"
        /\ UNCHANGED <<conn, clients, liveClients, generation, inserting, up,
                       spoke>>
    BY DEF Lookup
  <1>2. /\ poll'.at = "looking" /\ poll'.live = Seen(i)
        /\ poll'.since = poll.since /\ Seen(i) \in BOOLEAN
        /\ poll'.ids \subseteq IDs
    BY <1>1 DEF PollingInv, PollShape, Seen
  <1>3. PollingTypeOK' /\ PollShape'
    BY <1>1, <1>2 DEF PollingInv, PollingTypeOK, PollShape, IDs
  <1>4. Seen(i) => \E k \in Connections : spoke[k] >= poll.since
    BY DEF Seen, PollingInv, PollingTypeOK, LiveSpoke, PollSpoke
  <1>5. PollSpoke'
    BY <1>1, <1>2, <1>4 DEF PollSpoke
  <1>6. InsertingSpoke' /\ LiveSpoke'
    BY <1>1 DEF PollingInv, InsertingSpoke, LiveSpoke
  <1> QED
    BY <1>3, <1>5, <1>6 DEF PollingInv

LEMMA EndPollInv ==
  ASSUME PollingInv, EndPoll
  PROVE  PollingInv'
  <1>1. UNCHANGED <<conn, clients, liveClients, generation, inserting, up,
                    spoke>>
    BY DEF EndPoll
  <1>2. \/ poll' = Waiting
        \/ poll.live /\ poll' = [poll EXCEPT !.at = "sending"]
    BY DEF EndPoll
  <1>3. CASE poll' = Waiting
    BY <1>1, <1>3
       DEF PollingInv, PollingTypeOK, InsertingSpoke, LiveSpoke, PollSpoke,
           PollShape, IDs, Waiting
  <1>4. CASE poll.live /\ poll' = [poll EXCEPT !.at = "sending"]
    BY <1>1, <1>4
       DEF PollingInv, PollingTypeOK, InsertingSpoke, LiveSpoke, PollSpoke,
           PollShape, IDs
  <1> QED
    BY <1>2, <1>3, <1>4

LEMMA MapFaultInv ==
  ASSUME PollingInv, MapFault
  PROVE  PollingInv'
  BY DEF PollingInv, PollingTypeOK, InsertingSpoke, LiveSpoke, PollSpoke,
         PollShape, IDs, MapFault

LEMMA PollingInvNext ==
  ASSUME PollingInv, [PollingNext]_pollingVars
  PROVE  PollingInv'
  <1>1. CASE UNCHANGED pollingVars
    BY <1>1
       DEF PollingInv, PollingTypeOK, InsertingSpoke, LiveSpoke, PollSpoke,
           PollShape, IDs, pollingVars
  <1>2. CASE PollingNext
    BY <1>2, ConnectInv, AcceptInv, PublishNDataInv, InsertInv, CloseInv,
       TickInv, LookupInv, EndPollInv, MapFaultInv
       DEF PollingNext
  <1> QED
    BY <1>1, <1>2

LEMMA PollingInvAlways == PollingSpec => []PollingInv
  BY PollingInvInit, PollingInvNext, PTL DEF PollingSpec

\* Every variable has its type (liveClients and the loop of runServe).
THEOREM PollingTypeCorrect == PollingSpec => []PollingTypeOK
  <1>1. PollingInv => PollingTypeOK
    BY DEF PollingInv
  <1> QED
    BY <1>1, PollingInvAlways, PTL

\* A poll is sent only if a client has published since every CONNECT that had
\* been read when the minute struck.
THEOREM PollsAreJustified == PollingSpec => []PollJustified
  <1>1. PollingInv => PollJustified
    BY DEF PollingInv, PollSpoke, PollJustified
  <1> QED
    BY <1>1, PollingInvAlways, PTL

-----------------------------------------------------------------------------
(* The proxy *)

CloudMessage == [number : Nat, topic : Topics, on : IOTTopics]

ProxyTypeOK ==
    /\ online \in BOOLEAN
    /\ DOMAIN session \subseteq IOTTopics /\ DOMAIN pending \subseteq IOTTopics
    /\ wished \subseteq Topics /\ subscribing \subseteq wished
    /\ inbox \in Seq(CloudMessage) /\ forwarded \in Seq(CloudMessage)
    /\ outages \in Nat /\ sent \in Nat

\* A message or a callback of the cloud's topic i is for a topic t.
Wanted(t, i) == t \in wished /\ IOTTopic[t] = i

SessionWished ==
    /\ \A i \in DOMAIN session : Wanted(session[i], i)
    /\ \A i \in DOMAIN pending : Wanted(pending[i], i)

MessagesWished ==
    /\ \A n \in DOMAIN inbox : Wanted(inbox[n].topic, inbox[n].on)
    /\ \A n \in DOMAIN forwarded : Wanted(forwarded[n].topic, forwarded[n].on)

\* Message numbers rise along forwarded, then inbox, up to the last one sent.
Rising ==
    /\ \A n \in DOMAIN inbox : inbox[n].number <= sent
    /\ \A n, m \in DOMAIN inbox : n < m => inbox[n].number < inbox[m].number
    /\ \A n \in DOMAIN forwarded, m \in DOMAIN inbox :
          forwarded[n].number < inbox[m].number
    /\ \A n \in DOMAIN forwarded : forwarded[n].number <= sent
    /\ \A n, m \in DOMAIN forwarded :
          n < m => forwarded[n].number < forwarded[m].number

ProxyInv ==
    ProxyTypeOK /\ SessionWished /\ MessagesWished /\ Rising

LEMMA ProxyInvInit == ProxyInit => ProxyInv
  BY DEF ProxyInit, ProxyInv, ProxyTypeOK, SessionWished,
         MessagesWished, Rising, Wanted, Nothing

LEMMA ReadSubscribeInv ==
  ASSUME ProxyInv, ReadSubscribe
  PROVE  ProxyInv'
  <1>1. /\ subscribing = {} /\ subscribing' \subseteq Topics
        /\ wished' = wished \cup subscribing'
        /\ UNCHANGED <<online, session, pending, subscribedTopics, inbox,
                       forwarded, refused, outages, sent>>
    BY DEF ReadSubscribe
  <1>2. ProxyTypeOK' /\ Rising'
    BY <1>1 DEF ProxyInv, ProxyTypeOK, Rising
  <1>3. SessionWished' /\ MessagesWished'
    BY <1>1 DEF ProxyInv, SessionWished, MessagesWished, Wanted
  <1> QED
    BY <1>2, <1>3 DEF ProxyInv

LEMMA SkipTopicInv ==
  ASSUME ProxyInv, NEW t \in Topics, SkipTopic(t)
  PROVE  ProxyInv'
  BY DEF ProxyInv, ProxyTypeOK, SessionWished, MessagesWished,
         Rising, Wanted, SkipTopic 

\* A step that leaves the messages alone.
LEMMA MessagesFrame ==
  ASSUME MessagesWished, Rising,
         UNCHANGED <<inbox, forwarded, wished, sent>>
  PROVE  MessagesWished' /\ Rising'
  BY DEF MessagesWished, Rising, Wanted

LEMMA SubscribeTopicInv ==
  ASSUME ProxyInv, NEW t \in Topics, SubscribeTopic(t)
  PROVE  ProxyInv'
  <1> DEFINE i == IOTTopic[t]
  <1>1. /\ t \in subscribing /\ subscribing' = subscribing \ {t}
        /\ i \notin subscribedTopics
        /\ subscribedTopics' = subscribedTopics \cup {i}
        /\ UNCHANGED <<online, session, inbox, forwarded, wished, refused,
                       outages, sent>>
        /\ i \in IOTTopics /\ t \in wished
    BY DEF SubscribeTopic, IOTTopics, ProxyInv, ProxyTypeOK
  <1>2. MessagesWished' /\ Rising'
    BY <1>1, MessagesFrame DEF ProxyInv
  <1>3. CASE pending' = With(pending, i, t)
    <2>1. /\ DOMAIN pending' = DOMAIN pending \cup {i}
          /\ \A j \in DOMAIN pending' :
                pending'[j] = IF j = i THEN t ELSE pending[j]
      BY <1>3 DEF With
    <2>2. ProxyTypeOK'
      BY <1>1, <2>1 DEF ProxyInv, ProxyTypeOK
    <2>3. SessionWished'
      BY <1>1, <2>1 DEF ProxyInv, SessionWished, Wanted
    <2> QED
      BY <1>2, <2>2, <2>3 DEF ProxyInv
  <1>4. CASE pending' = pending
    BY <1>1, <1>2, <1>4 DEF ProxyInv, ProxyTypeOK, SessionWished, Wanted
  <1> QED
    BY <1>3, <1>4 DEF SubscribeTopic, CallbackTopic

\* The cloud's answer takes a topic from the way into the session, or not.
LEMMA AnsweredInv ==
  ASSUME ProxyInv, NEW i \in IOTTopics,
         GrantSubscription(i) \/ RefuseSubscription(i)
  PROVE  ProxyInv'
  <1>1. /\ i \in DOMAIN pending
        /\ pending' = [j \in DOMAIN pending \ {i} |-> pending[j]]
        /\ UNCHANGED <<online, subscribedTopics, subscribing, inbox, forwarded,
                       wished, outages, sent>>
    BY DEF GrantSubscription, RefuseSubscription, Answered
  <1>2. MessagesWished' /\ Rising'
    BY <1>1, MessagesFrame DEF ProxyInv
  <1>3. /\ DOMAIN pending' = DOMAIN pending \ {i}
        /\ \A j \in DOMAIN pending' : pending'[j] = pending[j]
    BY <1>1
  <1>4. CASE session' = With(session, i, pending[i]) /\ refused' = refused
    <2>1. /\ DOMAIN session' = DOMAIN session \cup {i}
          /\ \A j \in DOMAIN session' :
                session'[j] = IF j = i THEN pending[i] ELSE session[j]
      BY <1>4 DEF With
    <2>2. ProxyTypeOK'
      BY <1>1, <1>3, <2>1 DEF ProxyInv, ProxyTypeOK
    <2>3. SessionWished'
      BY <1>1, <1>3, <2>1 DEF ProxyInv, SessionWished, Wanted
    <2> QED
      BY <1>2, <2>2, <2>3 DEF ProxyInv
  <1>5. CASE session' = session /\ refused' = refused \cup {i}
    BY <1>1, <1>2, <1>3, <1>5 DEF ProxyInv, ProxyTypeOK, SessionWished, Wanted
  <1> QED
    BY <1>4, <1>5 DEF GrantSubscription, RefuseSubscription

LEMMA CloudPublishInv ==
  ASSUME ProxyInv, NEW i \in IOTTopics, CloudPublish(i)
  PROVE  ProxyInv'
  <1> DEFINE new == [number |-> sent + 1, topic |-> session[i], on |-> i]
             last == Len(inbox) + 1
  <1>1. /\ i \in DOMAIN session /\ sent' = sent + 1
        /\ inbox' = Append(inbox, new)
        /\ UNCHANGED <<online, session, pending, subscribedTopics, subscribing,
                       forwarded, wished, refused, outages>>
    BY DEF CloudPublish
  <1>2. /\ ProxyTypeOK /\ Wanted(session[i], i)
        /\ inbox \in Seq(CloudMessage) /\ sent \in Nat
    BY <1>1 DEF ProxyInv, ProxyTypeOK, SessionWished
  <1>3. new \in CloudMessage
    BY <1>2 DEF CloudMessage, Wanted, ProxyTypeOK
  <1>4. /\ new.number = sent + 1 /\ new.topic = session[i] /\ new.on = i
    OBVIOUS
  <1> HIDE DEF new
  <1>5. /\ inbox' \in Seq(CloudMessage)
        /\ \A n \in DOMAIN inbox : n \in Nat /\ n < last /\ inbox'[n] = inbox[n]
        /\ inbox'[last] = new
        /\ \A n \in DOMAIN inbox' : n \in DOMAIN inbox \/ n = last
        /\ last \in Nat
    BY <1>1, <1>2, <1>3
  <1> HIDE DEF last
  <1>6. ProxyTypeOK' /\ SessionWished'
    BY <1>1, <1>2, <1>5
       DEF ProxyInv, ProxyTypeOK, SessionWished, Wanted
  <1>7. MessagesWished'
    BY <1>1, <1>2, <1>4, <1>5 DEF ProxyInv, MessagesWished, Wanted
  <1>8. Rising'
    <2>1. /\ \A n \in DOMAIN inbox : inbox[n].number \in Nat
          /\ \A n \in DOMAIN forwarded : forwarded[n].number \in Nat
      <3>1. /\ \A n \in DOMAIN inbox : inbox[n] \in CloudMessage
            /\ \A n \in DOMAIN forwarded : forwarded[n] \in CloudMessage
        BY <1>2 DEF ProxyTypeOK
      <3> QED
        BY <3>1 DEF CloudMessage
    <2>2. \A n \in DOMAIN inbox' : inbox'[n].number <= sent'
      BY <1>1, <1>2, <1>4, <1>5, <2>1 DEF ProxyInv, Rising
    <2>3. \A n, m \in DOMAIN inbox' :
             n < m => inbox'[n].number < inbox'[m].number
      BY <1>2, <1>4, <1>5, <2>1 DEF ProxyInv, Rising
    <2>4. /\ \A n \in DOMAIN forwarded', m \in DOMAIN inbox' :
                forwarded'[n].number < inbox'[m].number
          /\ \A n \in DOMAIN forwarded' : forwarded'[n].number <= sent'
      BY <1>1, <1>2, <1>4, <1>5, <2>1 DEF ProxyInv, Rising
    <2>5. \A n, m \in DOMAIN forwarded' :
             n < m => forwarded'[n].number < forwarded'[m].number
      BY <1>1 DEF ProxyInv, Rising
    <2> QED
      BY <2>2, <2>3, <2>4, <2>5 DEF Rising
  <1> QED
    BY <1>6, <1>7, <1>8 DEF ProxyInv

LEMMA ForwardMessageInv ==
  ASSUME ProxyInv, ForwardMessage
  PROVE  ProxyInv'
  <1> DEFINE last == Len(forwarded) + 1
  <1>1. /\ inbox # <<>> /\ inbox' = Tail(inbox)
        /\ forwarded' = Append(forwarded, Head(inbox))
        /\ UNCHANGED <<online, session, pending, subscribedTopics, subscribing,
                       wished, refused, outages, sent>>
    BY DEF ForwardMessage
  <1>2. inbox \in Seq(CloudMessage) /\ forwarded \in Seq(CloudMessage)
    BY DEF ProxyInv, ProxyTypeOK
  <1>3. /\ 1 \in DOMAIN inbox /\ inbox[1] = Head(inbox)
        /\ inbox[1] \in CloudMessage
        /\ inbox' \in Seq(CloudMessage)
        /\ \A n \in DOMAIN inbox' :
              /\ n \in Nat /\ 1 < n + 1
              /\ n + 1 \in DOMAIN inbox /\ inbox'[n] = inbox[n + 1]
    BY <1>1, <1>2
  <1>4. /\ forwarded' \in Seq(CloudMessage)
        /\ \A n \in DOMAIN forwarded :
              n \in Nat /\ n < last /\ forwarded'[n] = forwarded[n]
        /\ forwarded'[last] = inbox[1]
        /\ \A n \in DOMAIN forwarded' : n \in DOMAIN forwarded \/ n = last
        /\ last \in Nat
    BY <1>1, <1>2, <1>3
  <1> HIDE DEF last
  <1>5. ProxyTypeOK' /\ SessionWished'
    BY <1>1, <1>3, <1>4
       DEF ProxyInv, ProxyTypeOK, SessionWished, Wanted
  <1>6. MessagesWished'
    BY <1>1, <1>3, <1>4 DEF ProxyInv, MessagesWished, Wanted
  <1>7. Rising'
    <2>1. \A n \in DOMAIN inbox' : /\ inbox'[n].number <= sent'
                                   /\ inbox[1].number < inbox'[n].number
      BY <1>1, <1>3 DEF ProxyInv, Rising
    <2>2. \A n, m \in DOMAIN inbox' :
             n < m => inbox'[n].number < inbox'[m].number
      BY <1>3 DEF ProxyInv, Rising
    <2>3. \A n \in DOMAIN forwarded', m \in DOMAIN inbox' :
             forwarded'[n].number < inbox'[m].number
      BY <1>3, <1>4, <2>1 DEF ProxyInv, Rising
    <2>4. \A n \in DOMAIN forwarded' : forwarded'[n].number <= sent'
      BY <1>1, <1>3, <1>4 DEF ProxyInv, Rising
    <2>5. \A n, m \in DOMAIN forwarded' :
             n < m => forwarded'[n].number < forwarded'[m].number
      BY <1>3, <1>4 DEF ProxyInv, Rising
    <2> QED
      BY <2>1, <2>2, <2>3, <2>4, <2>5 DEF Rising
  <1> QED
    BY <1>5, <1>6, <1>7 DEF ProxyInv

LEMMA LoseCloudInv ==
  ASSUME ProxyInv, LoseCloud
  PROVE  ProxyInv'
  <1>1. /\ online' = FALSE /\ session' = Nothing /\ pending' = Nothing
        /\ outages' = outages + 1
        /\ UNCHANGED <<subscribedTopics, subscribing, inbox, forwarded, wished,
                       refused, sent>>
    BY DEF LoseCloud
  <1>2. DOMAIN session' = {} /\ DOMAIN pending' = {}
    BY <1>1 DEF Nothing
  <1>3. ProxyTypeOK'
    <2>1. online' \in BOOLEAN
      BY <1>1, Zenon
    <2> QED
      BY <1>1, <1>2, <2>1 DEF ProxyInv, ProxyTypeOK, IOTTopics, CloudMessage
  <1>4. SessionWished'
    BY <1>1, <1>2 DEF ProxyInv, SessionWished
  <1> QED
    BY <1>1, <1>3, <1>4, MessagesFrame DEF ProxyInv

LEMMA ReconnectCloudInv ==
  ASSUME ProxyInv, ReconnectCloud
  PROVE  ProxyInv'
  <1>1. online' \in BOOLEAN
    BY Zenon DEF ReconnectCloud
  <1>2. ProxyTypeOK'
    BY <1>1 DEF ReconnectCloud, ProxyInv, ProxyTypeOK, IOTTopics, CloudMessage
  <1>3. SessionWished'
    BY DEF ReconnectCloud, ProxyInv, SessionWished, Wanted
  <1> QED
    BY <1>2, <1>3, MessagesFrame DEF ReconnectCloud, ProxyInv

LEMMA ProxyInvNext == ProxyInv /\ [ProxyNext]_proxyVars => ProxyInv'
  <1> SUFFICES ASSUME ProxyInv, [ProxyNext]_proxyVars
               PROVE  ProxyInv'
    OBVIOUS
  <1>1. CASE UNCHANGED proxyVars
    BY <1>1 DEF proxyVars, ProxyInv, ProxyTypeOK, SessionWished,
                MessagesWished, Rising, Wanted
  <1>2. CASE ProxyNext
    BY <1>2, ReadSubscribeInv, SkipTopicInv, SubscribeTopicInv,
       AnsweredInv, CloudPublishInv, ForwardMessageInv, LoseCloudInv,
       ReconnectCloudInv DEF ProxyNext, Subscribing, Answering
  <1> QED
    BY <1>1, <1>2

LEMMA ProxyInvAlways == ProxySpec => []ProxyInv
  BY ProxyInvInit, ProxyInvNext, PTL DEF ProxySpec

\* Over any number of losses the thermostat gets the cloud's messages in order
\* and once, each on a topic that it has asked for.
THEOREM CloudIsForwarded == ProxySpec => []ForwardedAsWished
  <1>1. ProxyInv => ForwardedAsWished
    <2> SUFFICES ASSUME ProxyInv PROVE ForwardedAsWished
      OBVIOUS
    <2>1. DOMAIN forwarded = 1 .. Len(forwarded)
      BY DEF ProxyInv, ProxyTypeOK
    <2> QED
      BY <2>1 DEF ProxyInv, Rising, MessagesWished, Wanted, ForwardedAsWished
  <1> QED
    BY <1>1, ProxyInvAlways, PTL

=============================================================================
