----------------------------- MODULE Transport ------------------------------
(***************************************************************************)
(* How the MQTT clients come to be and end: the builders, the objects they *)
(* build, and the sessions at the broker, which knows a client by its id   *)
(* alone and publishes the will of one whose connection ends without a     *)
(* DISCONNECT.  What a connected client does is in Subscriber and          *)
(* Publisher.                                                              *)
(***************************************************************************)
EXTENDS Naturals, FiniteSets

CONSTANTS
    Client,      \* the objects that can exist at a time
    NoClient,    \* no object
    Setting,     \* what an option can be set to
    Unset,       \* "" as a host, 0 as a port, a map without handlers
    Settable     \* bound: the options that are set

\* What the constants have to satisfy: nobody asks for a default by its name.
ConstantsOK ==
    /\ {"paho_cpp_async_subscribe", "mpd-publisher"} \cap (Setting \cup {Unset}) = {}
    /\ Unset \notin Setting

VARIABLES
    builder,     \* the builder at work, its options and, as history, the id it was given
    client,      \* the objects
    asked,       \* history: the id that the builder of each was given, if it was
    session,     \* the clients with a connection, as the broker sees it
    believes,    \* the clients that is_connected() holds of
    wills,       \* the clients whose will the broker has published
    lost         \* history: the clients whose last connection either side has lost

connVars == <<session, believes, wills, lost>>
vars == <<builder, client, asked, connVars>>

-----------------------------------------------------------------------------
(* The builders.                                                            *)

SubscriberOptions ==
    {"host", "port", "clientId", "topic", "qos", "retryAttempts", "topicHandlerMap"}

PublisherOptions == {"host", "port", "clientId", "qos", "retain", "timeout"}

\* A subscriber has no host and no port unless they are set.
SubscriberDefaults ==
    [host |-> Unset, port |-> Unset, clientId |-> "paho_cpp_async_subscribe", topic |-> "#",
     qos |-> 0, retryAttempts |-> 5, topicHandlerMap |-> Unset]

\* Mutant: the builder takes over the subscriber's default.
CopiedDefaults ==
    [host |-> "localhost", port |-> 1883, clientId |-> "paho_cpp_async_subscribe",
     qos |-> 1, retain |-> FALSE, timeout |-> 5]

\* The constructor leaves host_ and client_id_ to their initializers and
\* overrides that of qos_.
PublisherDefaults ==
    [host |-> "localhost", port |-> 1883, clientId |-> "mpd-publisher", qos |-> 1,
     retain |-> FALSE, timeout |-> 5]

NewBuilder ==
    /\ builder' \in {[kind |-> "subscriber", options |-> SubscriberDefaults, given |-> {}],
                     [kind |-> "publisher", options |-> PublisherDefaults, given |-> {}]}
    /\ UNCHANGED <<client, asked, connVars>>

Set(option, value) ==
    /\ builder' = [builder EXCEPT !.options[option] = value,
                                  !.given = IF option = "clientId" THEN {value} ELSE @]
    /\ UNCHANGED <<client, asked, connVars>>

SetSubscriber(option, value) ==
    builder.kind = "subscriber" /\ option \in SubscriberOptions /\ Set(option, value)

SetPublisher(option, value) ==
    builder.kind = "publisher" /\ option \in PublisherOptions /\ Set(option, value)

\* The callback gets copies of the options and of the map of handlers.
Callback(options) ==
    [topic |-> options.topic, clientId |-> options.clientId, qos |-> options.qos,
     retryAttempts |-> options.retryAttempts, handlers |-> options.topicHandlerMap]

NewSubscriber(options) ==
    [kind |-> "subscriber", host |-> options.host, port |-> options.port,
     clientId |-> options.clientId, handlers |-> options.topicHandlerMap,
     callback |-> Callback(options)]

\* The will goes with the connection options.
NewPublisher(options) ==
    [kind |-> "publisher", host |-> options.host, port |-> options.port,
     clientId |-> options.clientId, qos |-> options.qos, retain |-> options.retain,
     timeout |-> options.timeout]

Built(c, object) ==
    /\ client' = [client EXCEPT ![c] = object]
    /\ asked' = [asked EXCEPT ![c] = builder.given]
    /\ wills' = wills \ {c}
    /\ UNCHANGED <<builder, session, believes, lost>>

\* build() throws without a host and, of a subscriber, without a port.
BuildSubscriber(c) ==
    /\ builder.kind = "subscriber" /\ client[c] = NoClient
    /\ builder.options.host # Unset /\ builder.options.port # Unset
    /\ Built(c, NewSubscriber(builder.options))

BuildPublisher(c) ==
    /\ builder.kind = "publisher" /\ client[c] = NoClient
    /\ builder.options.host # Unset
    /\ Built(c, NewPublisher(builder.options))

-----------------------------------------------------------------------------
(* The clients.                                                             *)

Is(c, kind) == client[c] # NoClient /\ client[c].kind = kind

\* Only the member of the subscriber is replaced, which nothing reads.
setTopicHandlerMap(c, map) ==
    /\ Is(c, "subscriber")
    /\ client' = [client EXCEPT ![c].handlers = map]
    /\ UNCHANGED <<builder, asked, connVars>>

\* To a client without an id the broker gives one that is nobody else's.
Namesakes(c) ==
    {d \in Client \ {c} : /\ client[d] # NoClient
                          /\ client[d].clientId = client[c].clientId
                          /\ client[d].clientId # Unset
                          /\ client[d].host = client[c].host
                          /\ client[d].port = client[c].port}

\* The publishers among the clients cs that the broker loses: their will.
WillsOf(cs) == {c \in cs \cap session : client[c].kind = "publisher"}

\* connect() at first, in CallbackImpl::reconnect and in publish(): the broker
\* closes an older connection of the same id, the client's own one as well if
\* only the client had given it up.
Connect(c) ==
    /\ client[c] # NoClient /\ c \notin believes
    /\ session' = (session \ Namesakes(c)) \cup {c}
    /\ believes' = believes \cup {c}
    /\ wills' = wills \cup WillsOf(Namesakes(c) \cup {c})
    /\ lost' = (lost \cup (Namesakes(c) \cap session)) \ {c}
    /\ UNCHANGED <<builder, client, asked>>

\* The broker closes the connection, or gives it up.
Breaks(c) ==
    /\ c \in session
    /\ session' = session \ {c}
    /\ wills' = wills \cup WillsOf({c})
    /\ lost' = lost \cup {c}
    /\ UNCHANGED <<builder, client, asked, believes>>

\* The library learns of it, or gives the connection up before the broker does:
\* a subscriber's connection_lost, and is_connected() of both kinds.
NoticesLoss(c) ==
    /\ c \in believes
    /\ believes' = believes \ {c}
    /\ lost' = lost \cup {c}
    /\ UNCHANGED <<builder, client, asked, session, wills>>

Gone(c) ==
    /\ client' = [client EXCEPT ![c] = NoClient]
    /\ asked' = [asked EXCEPT ![c] = {}]
    /\ session' = session \ {c} /\ believes' = believes \ {c} /\ lost' = lost \ {c}
    /\ UNCHANGED builder

\* Mutant: the publisher is destroyed with its connection open.
DropPublisher(c) ==
    /\ Is(c, "publisher")
    /\ Gone(c)
    /\ wills' = wills \cup WillsOf({c})

\* ~AsyncPublish disconnects, if is_connected(); that it fails on a connection
\* that is lost meanwhile is caught.
DestroyPublisher(c) ==
    /\ Is(c, "publisher")
    /\ Gone(c)
    /\ wills' = wills \cup WillsOf({c} \ believes)

\* The destructor of a subscriber leaves it to the library to close its socket.
DestroySubscriber(c) ==
    /\ Is(c, "subscriber")
    /\ Gone(c)
    /\ UNCHANGED wills

-----------------------------------------------------------------------------
Init ==
    /\ builder = [kind |-> "subscriber", options |-> SubscriberDefaults, given |-> {}]
    /\ client = [c \in Client |-> NoClient] /\ asked = [c \in Client |-> {}]
    /\ session = {} /\ believes = {} /\ wills = {} /\ lost = {}

SetOption(option, value) == SetSubscriber(option, value) \/ SetPublisher(option, value)
Build(c) == BuildSubscriber(c) \/ BuildPublisher(c)
Destroy(c) == DestroyPublisher(c) \/ DestroySubscriber(c)

Next ==
    \/ NewBuilder
    \/ \E option \in Settable, value \in Setting \cup {Unset} : SetOption(option, value)
    \/ \E c \in Client : \/ Build(c) \/ Connect(c) \/ Breaks(c) \/ NoticesLoss(c) \/ Destroy(c)
                         \/ \E map \in Setting : setTopicHandlerMap(c, map)

Spec == Init /\ [][Next]_vars

-----------------------------------------------------------------------------
(* Properties.                                                              *)

\* A client loses its session only to one whose builder was given the same id,
\* or, if neither was given any, to one of its own kind: a subscriber and a
\* publisher that leave the id to their builders live beside each other.
StrangersCoexist ==
    [][\A c \in session \ session', d \in session' \ session :
          /\ asked[c] = asked[d]
          /\ asked[c] = {} => client[c].kind = client[d].kind]_vars

\* The broker publishes a publisher's will only when a connection of it was lost,
\* on whichever side, or taken over: never because the program ended it.
WillOnlyWhenLost == [][wills' \ wills \subseteq lost \cup lost']_vars

=============================================================================
