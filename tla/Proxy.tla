--------------------------------- MODULE Proxy ---------------------------------
(***************************************************************************)
(* The proxy to the manufacturer's cloud, AWS IoT (serve.go, with --proxy):*)
(* what the thermostat subscribes to is subscribed there too, under the    *)
(* cloud's name of the topic, once; what comes is published to the         *)
(* thermostat under its own name, one message after the other.  The        *)
(* SUBSCRIBE is on its way when the handler is done: nobody waits for its  *)
(* token or looks at it, and the cloud may refuse it.  The client library  *)
(* connects again by itself when the connection is lost; the session is a  *)
(* clean one, so that the subscriptions are gone, with those on their way, *)
(* and a Subscribe without a connection fails.                             *)
(*                                                                         *)
(* What the thermostat publishes is forwarded, or dropped without a        *)
(* connection, and changes nothing here.  Operators whose name starts with *)
(* Slip are the ones after them with a plausible mistake.                  *)
(***************************************************************************)
EXTENDS Naturals, Sequences

CONSTANTS
    Topics,       \* what the thermostat may subscribe to
    IOTTopic,     \* per topic the cloud's name of it
    MaxMessages,  \* bound: messages of the cloud
    MaxOutages    \* bound: losses of the connection

VARIABLES
    online,            \* the connection to the cloud
    session,           \* per cloud topic the topic of its callback
    pending,           \* the same of the SUBSCRIBEs on their way
    subscribedTopics,  \* what has been subscribed, as the proxy believes
    subscribing,       \* the rest of the SUBSCRIBE whose handler has the lock
    inbox,             \* messages of the cloud, not forwarded yet
    forwarded,         \* what has been published to the thermostat
    wished,            \* history: what the thermostat has subscribed to
    refused,           \* history: the cloud topics that the cloud refused
    outages, sent

proxyVars == <<online, session, pending, subscribedTopics, subscribing, inbox,
               forwarded, wished, refused, outages, sent>>

IOTTopics == {IOTTopic[t] : t \in Topics}

Nothing == [i \in {} |-> {}]

With(f, i, t) == [j \in DOMAIN f \cup {i} |-> IF j = i THEN t ELSE f[j]]

ProxyInit ==
    /\ online = TRUE /\ session = Nothing /\ pending = Nothing
    /\ subscribedTopics = {} /\ subscribing = {}
    /\ inbox = <<>> /\ forwarded = <<>>
    /\ wished = {} /\ refused = {}
    /\ outages = 0 /\ sent = 0

-----------------------------------------------------------------------------
(* OnPacketRead, SUBSCRIBE *)

\* A client subscribes; its handler takes subscribedTopicsLock.
ReadSubscribe ==
    /\ subscribing = {}
    /\ subscribing' \in (SUBSET Topics) \ {{}}
    /\ wished' = wished \cup subscribing'
    /\ UNCHANGED <<online, session, pending, subscribedTopics, inbox, forwarded,
                   refused, outages, sent>>

\* It is skipped.
SkipTopic(t) ==
    /\ t \in subscribing /\ IOTTopic[t] \in subscribedTopics
    /\ subscribing' = subscribing \ {t}
    /\ UNCHANGED <<online, session, pending, subscribedTopics, inbox, forwarded,
                   wished, refused, outages, sent>>

\* ForwardedAsWished: the callback publishes under the cloud's name.
SlipCallbackTopic(t) == IOTTopic[t]

CallbackTopic(t) == t

\* It is remembered, and asked for if there is a connection.
SubscribeTopic(t) ==
    /\ t \in subscribing /\ IOTTopic[t] \notin subscribedTopics
    /\ subscribedTopics' = subscribedTopics \cup {IOTTopic[t]}
    /\ pending' = IF online THEN With(pending, IOTTopic[t], CallbackTopic(t))
                  ELSE pending
    /\ subscribing' = subscribing \ {t}
    /\ UNCHANGED <<online, session, inbox, forwarded, wished, refused, outages,
                   sent>>

-----------------------------------------------------------------------------
(* The cloud *)

Answered(i) ==
    /\ i \in DOMAIN pending
    /\ pending' = [j \in DOMAIN pending \ {i} |-> pending[j]]
    /\ UNCHANGED <<online, subscribedTopics, subscribing, inbox, forwarded,
                   wished, outages, sent>>

\* The SUBACK of a topic that the account may see.
GrantSubscription(i) ==
    /\ Answered(i)
    /\ session' = With(session, i, pending[i]) /\ UNCHANGED refused

\* The SUBACK of another one, in the token.
RefuseSubscription(i) ==
    /\ Answered(i)
    /\ refused' = refused \cup {i} /\ UNCHANGED session

\* A message on a topic that the session has.
CloudPublish(i) ==
    /\ online /\ i \in DOMAIN session /\ sent < MaxMessages
    /\ sent' = sent + 1
    /\ inbox' = Append(inbox, [number |-> sent', topic |-> session[i], on |-> i])
    /\ UNCHANGED <<online, session, pending, subscribedTopics, subscribing,
                   forwarded, wished, refused, outages>>

\* The callback, called for one message at a time: server.Publish.
ForwardMessage ==
    /\ inbox # <<>>
    /\ forwarded' = Append(forwarded, Head(inbox))
    /\ inbox' = Tail(inbox)
    /\ UNCHANGED <<online, session, pending, subscribedTopics, subscribing,
                   wished, refused, outages, sent>>

LoseCloud ==
    /\ online /\ outages < MaxOutages
    /\ online' = FALSE /\ session' = Nothing /\ pending' = Nothing
    /\ outages' = outages + 1
    /\ UNCHANGED <<subscribedTopics, subscribing, inbox, forwarded, wished,
                   refused, sent>>

\* The library's automatic reconnection; there is no OnConnectHandler.
ReconnectCloud ==
    /\ ~online /\ online' = TRUE
    /\ UNCHANGED <<session, pending, subscribedTopics, subscribing, inbox,
                   forwarded, wished, refused, outages, sent>>

Subscribing == \E t \in Topics : SkipTopic(t) \/ SubscribeTopic(t)
Answering ==
    \E i \in IOTTopics : GrantSubscription(i) \/ RefuseSubscription(i)

ProxyNext ==
    \/ ReadSubscribe \/ Subscribing \/ Answering
    \/ (\E i \in IOTTopics : CloudPublish(i)) \/ ForwardMessage
    \/ LoseCloud \/ ReconnectCloud

\* Handlers and callbacks run, the cloud answers, the library connects again,
\* and the thermostat subscribes again and again, as it does when it connects.
ProxyFairness ==
    /\ SF_proxyVars(ReadSubscribe) /\ WF_proxyVars(Subscribing)
    /\ WF_proxyVars(Answering)
    /\ WF_proxyVars(ForwardMessage) /\ WF_proxyVars(ReconnectCloud)

ProxySpec == ProxyInit /\ [][ProxyNext]_proxyVars /\ ProxyFairness

-----------------------------------------------------------------------------
(* Properties *)

\* The thermostat gets the cloud's messages in their order and once, on a
\* topic that it has subscribed to and that the message was published on,
\* over losses of the connection (the callback, serve.go:142-164).
ForwardedAsWished ==
    /\ \A i, k \in 1 .. Len(forwarded) :
          i < k => forwarded[i].number < forwarded[k].number
    /\ \A i \in 1 .. Len(forwarded) :
          /\ forwarded[i].topic \in wished
          /\ IOTTopic[forwarded[i].topic] = forwarded[i].on

\* In the end the cloud's messages on every topic that the thermostat has
\* subscribed to and that the cloud has not refused reach the proxy, as long as
\* the connection is only lost a number of times (TODO.md:6, "Proxy requests to
\* AWS IOT for anyone who still wants to use the Carrier App", which its author
\* does not recommend to rely on).
CloudHeard ==
    <>[](\A t \in wished : IOTTopic[t] \in DOMAIN session \cup refused)
=============================================================================
