------------------------------- MODULE Gateway -------------------------------
(***************************************************************************)
(* The process: main() builds the components one after the other and then  *)
(* runs the event loop, while the callback thread of the subscriber        *)
(* (module Subscriber, whose steps these are) already dispatches messages. *)
(* What Registration, KeepAlive and Publisher do inside a handler or an    *)
(* event is one step here; which exceptions end the process is the point.  *)
(***************************************************************************)
EXTENDS Naturals, Sequences

CONSTANTS
    Retries,     \* N_RETRY_ATTEMPTS of the subscriber
    MaxMessages  \* bound: messages that arrive

ASSUME ConstantsAssumption == Retries \in Nat /\ MaxMessages \in Nat

Topic == {"node/sensor_data", "node/request", "node/reply", "node/other"}

\* What the handlers tell apart: text that is not JSON, JSON without a
\* messageType that is a string, and messages with and without their fields.
Body == {"notJson", "noType", "otherType", "register", "registerNoMac",
         "keepAliveReply", "keepAliveReplyNoFields", "keepAliveReplyIllTyped"}

Message == [topic : Topic, body : Body]
NoMessage == [topic |-> "node/other", body |-> "otherType"]

VARIABLES
    broker, alive, client, nretry, topic, failed,   \* of Subscriber
    db,          \* the database answers
    others,      \* what other programs have done to the table: "deleted" a row of
                 \* the cache, or hold "locks" on rows
    mpc,         \* what main() does next: initSystem's steps, then "loop"
    logger,      \* the application logger is registered
    cache,       \* mNodes is loaded
    handlers,    \* the topics in the subscriber's copy of the handler map
    wired,       \* the signals that are connected
    ppc,         \* what the callback thread does
    cur,         \* the message that it handles
    arrived,     \* messages that have arrived
    events,      \* calls posted to the main thread
    emitted, published,   \* history: replies emitted, and taken up by publish()
    ended        \* "no", or how the process has ended

subVars == <<broker, alive, client, nretry, topic, failed>>
mainVars == <<mpc, logger, cache, handlers, wired>>
pahoVars == <<ppc, cur, arrived>>
dbVars == <<db, others>>
vars == <<subVars, dbVars, mainVars, pahoVars, events, emitted, published, ended>>

Sub == INSTANCE Subscriber

Running == ended = "no"
Terminates == ended' = "terminated"

-----------------------------------------------------------------------------
(* The surroundings.                                                        *)

DatabaseChanges ==
    /\ db' = ~db
    /\ UNCHANGED <<subVars, others, mainVars, pahoVars, events, emitted, published, ended>>

OthersWrite ==
    /\ db /\ cache
    /\ others' \in {others \cup {"deleted"}, others \cup {"locks"}, others \ {"locks"}}
    /\ UNCHANGED <<subVars, db, mainVars, pahoVars, events, emitted, published, ended>>

BrokerChanges ==
    /\ Sub!BrokerGoes \/ Sub!BrokerReturns
    /\ UNCHANGED <<dbVars, mainVars, pahoVars, events, emitted, published, ended>>

\* on_failure and reconnect() call exit(1); what subscribe() throws in connected()
\* is caught nowhere.
ExitOf(place) == IF place = "connected" THEN "terminated" ELSE "exit(1)"

\* The library makes the subscriber's calls from the thread that it delivers
\* messages from.
SubscriberStep ==
    /\ ppc = "idle"
    /\ \/ Sub!AttemptSucceeds \/ Sub!AttemptFails \/ Sub!Reconnect
       \/ Sub!Subscribe \/ Sub!SubscribeAnswered \/ Sub!ConnectionLost
    /\ ended' = IF client' = "exited" THEN ExitOf(client) ELSE ended
    /\ UNCHANGED <<dbVars, mainVars, pahoVars, events, emitted, published>>

-----------------------------------------------------------------------------
(* main() and initSystem, on the main thread.                               *)

Unstarted == UNCHANGED <<dbVars, pahoVars, events, emitted, published>>

\* Mutant: the logger is made and not registered.
InitLoggerOnly ==
    /\ mpc = "initLogger"
    /\ mpc' = "createDatabase"
    /\ UNCHANGED <<logger, cache, handlers, wired, ended, subVars>> /\ Unstarted

\* Opening the log file may throw.
InitLogger ==
    /\ mpc = "initLogger"
    /\ \/ logger' = TRUE /\ mpc' = "createDatabase" /\ UNCHANGED ended
       \/ Terminates /\ UNCHANGED <<logger, mpc>>
    /\ UNCHANGED <<cache, handlers, wired, subVars>> /\ Unstarted

\* Makes the database object, which connects when it is first used; what it
\* throws is caught.
CreateDatabase ==
    /\ mpc = "createDatabase"
    /\ \/ mpc' = "services" /\ UNCHANGED ended
       \/ ended' = "exit(0)" /\ UNCHANGED mpc
    /\ UNCHANGED <<logger, cache, handlers, wired, subVars>> /\ Unstarted

\* The services; KeepAliveService loads the cache, and nothing catches what
\* the first use of the database throws.
MakeServices ==
    /\ mpc = "services"
    /\ \/ db /\ cache' = TRUE /\ mpc' = "controller" /\ UNCHANGED ended
       \/ ~db /\ Terminates /\ UNCHANGED <<cache, mpc>>
    /\ UNCHANGED <<logger, handlers, wired, subVars>> /\ Unstarted

MakeController ==
    /\ mpc = "controller"
    /\ wired' = wired \cup {"hasKeepAliveMessage", "hasNewNodeRegister"}
    /\ mpc' = "transport"
    /\ UNCHANGED <<logger, cache, handlers, ended, subVars>> /\ Unstarted

\* Both builders have their host and port; the subscriber gets a copy of the
\* handler map.
BuildTransport ==
    /\ mpc = "transport"
    /\ handlers' = Topic \ {"node/other"}
    /\ mpc' = "signals"
    /\ UNCHANGED <<logger, cache, wired, ended, subVars>> /\ Unstarted

\* Mutant: the subscriber connects before the signals.
SubscribesFirst ==
    /\ mpc = "signals"
    /\ Sub!Connect
    /\ mpc' = "subscribe"
    /\ UNCHANGED <<logger, cache, handlers, wired, ended, dbVars, events, emitted, published,
                   cur, arrived>>
    /\ ppc' = "idle"

\* Mutant: the replies' signal is not connected.
ConnectOneSignal ==
    /\ mpc = "signals"
    /\ wired' = wired \cup {"hasRequestMessage"}
    /\ mpc' = "subscribe"
    /\ UNCHANGED <<logger, cache, handlers, ended, subVars>> /\ Unstarted

ConnectSignals ==
    /\ mpc = "signals"
    /\ wired' = wired \cup {"hasReplyMessage", "hasRequestMessage"}
    /\ mpc' = "subscribe"
    /\ UNCHANGED <<logger, cache, handlers, ended, subVars>> /\ Unstarted

\* mSub->connect(): from here on the callback thread runs.
ConnectSubscriber ==
    /\ mpc = "subscribe"
    /\ Sub!Connect
    /\ ppc' = IF client' = "off" THEN "none" ELSE "idle"
    /\ mpc' = "publisher"
    /\ UNCHANGED <<logger, cache, handlers, wired, ended, dbVars, cur, arrived, events, emitted,
                   published>>

\* mPub->connect() waits, and swallows its exception.
ConnectPublisher ==
    /\ mpc = "publisher"
    /\ mpc' = "loop"
    /\ UNCHANGED <<logger, cache, handlers, wired, ended, subVars>> /\ Unstarted

StartUp ==
    \/ InitLogger \/ CreateDatabase \/ MakeServices \/ MakeController \/ BuildTransport
    \/ ConnectSignals \/ ConnectSubscriber \/ ConnectPublisher

-----------------------------------------------------------------------------
(* The event loop.                                                          *)

\* A posted call of getAllNode, or of publish(): an exception of the database
\* leaves the event loop and main().  What was deleted leaves the cache.
TakeEvent ==
    /\ mpc = "loop" /\ events # <<>>
    /\ events' = Tail(events)
    /\ published' = IF Head(events) = "publish" THEN published + 1 ELSE published
    /\ others' = IF Head(events) = "getAllNode" /\ db THEN others \ {"deleted"} ELSE others
    /\ IF Head(events) = "getAllNode" /\ ~db THEN Terminates ELSE UNCHANGED ended
    /\ UNCHANGED <<subVars, db, mainVars, pahoVars, emitted>>

\* update() throws when the database does not answer or the node has no row.
UpdateThrows == ~db \/ "deleted" \in others

\* A check that times a node out writes one row.
CheckWrites ==
    /\ mpc = "loop" /\ UpdateThrows
    /\ Terminates
    /\ UNCHANGED <<subVars, dbVars, mainVars, pahoVars, events, emitted, published>>

\* A sync writes every row: it may also wait in a circle with another program's
\* transaction, and be the one that the database ends.
SyncWrites ==
    /\ mpc = "loop" /\ (UpdateThrows \/ "locks" \in others)
    /\ Terminates
    /\ UNCHANGED <<subVars, dbVars, mainVars, pahoVars, events, emitted, published>>

-----------------------------------------------------------------------------
(* The callback thread.                                                     *)

Handling == UNCHANGED <<subVars, dbVars, mainVars, published>>

\* message_arrived looks the topic up in the map.
MessageArrives(m) ==
    /\ ppc = "idle" /\ client = "up" /\ topic = "granted" /\ alive /\ broker
    /\ arrived < MaxMessages
    /\ arrived' = arrived + 1
    /\ cur' = m
    /\ ppc' = IF m.topic \in handlers THEN "handle" ELSE "idle"
    /\ UNCHANGED <<events, emitted, ended>> /\ Handling

\* The handler returns without any effect: of sensor data always, of the others
\* for what is no message of theirs; a parse error is caught and logged.
HandleNothing ==
    /\ ppc = "handle"
    /\ \/ cur.topic = "node/sensor_data"
       \/ cur.topic = "node/request" /\ cur.body \notin {"noType", "register", "registerNoMac"}
       \/ cur.topic = "node/reply" /\ cur.body \notin {"keepAliveReply", "keepAliveReplyIllTyped"}
    /\ ppc' = "idle"
    /\ UNCHANGED <<cur, arrived, events, emitted, ended>> /\ Handling

IllTyped(m) ==
    \/ m.topic = "node/request" /\ m.body = "noType"
    \/ m.topic = "node/reply" /\ m.body = "keepAliveReplyIllTyped"

\* Mutant: a parse error is not caught either.
HandleIllTypedOrUnparsed ==
    /\ ppc = "handle" /\ (IllTyped(cur) \/ cur.body = "notJson")
    /\ Terminates
    /\ UNCHANGED <<ppc, cur, arrived, events, emitted>> /\ Handling

\* A conversion of the JSON value throws type_error, which nothing catches.
HandleIllTyped ==
    /\ ppc = "handle" /\ IllTyped(cur)
    /\ Terminates
    /\ UNCHANGED <<ppc, cur, arrived, events, emitted>> /\ Handling

\* processRegisterMessage: it catches everything, and answers an error then.
\* It may have saved a new node, and posted the reload.
HandleRegister ==
    /\ ppc = "handle" /\ cur.topic = "node/request"
    /\ cur.body \in {"register", "registerNoMac"}
    /\ \/ UNCHANGED events
       \/ /\ cur.body = "register" /\ db
          /\ events' = IF "hasNewNodeRegister" \in wired
                       THEN Append(events, "getAllNode") ELSE events
    /\ ppc' = "emit"
    /\ UNCHANGED <<cur, arrived, emitted, ended>> /\ Handling

EmitReply ==
    /\ ppc = "emit"
    /\ emitted' = emitted + 1
    /\ events' = IF "hasReplyMessage" \in wired THEN Append(events, "publish") ELSE events
    /\ ppc' = "idle"
    /\ UNCHANGED <<cur, arrived, ended>> /\ Handling

\* handleReplyKeepAlive: an update of the row that fails is not caught.
HandleKeepAliveReply ==
    /\ ppc = "handle" /\ cur.topic = "node/reply" /\ cur.body = "keepAliveReply"
    /\ ppc' = "idle"
    /\ \/ UNCHANGED ended
       \/ UpdateThrows /\ Terminates
    /\ UNCHANGED <<cur, arrived, events, emitted>> /\ Handling

CallbackStep ==
    \/ HandleNothing \/ HandleIllTyped \/ HandleRegister \/ EmitReply
    \/ HandleKeepAliveReply

-----------------------------------------------------------------------------
Init ==
    /\ Sub!Init
    /\ db \in BOOLEAN /\ others = {}
    /\ mpc = "initLogger"
    /\ logger = FALSE /\ cache = FALSE /\ handlers = {} /\ wired = {}
    /\ ppc = "none" /\ cur = NoMessage /\ arrived = 0
    /\ events = <<>>
    /\ emitted = 0 /\ published = 0
    /\ ended = "no"

Next ==
    /\ Running
    /\ \/ DatabaseChanges \/ OthersWrite \/ BrokerChanges \/ SubscriberStep
       \/ StartUp \/ TakeEvent \/ CheckWrites \/ SyncWrites
       \/ \E m \in Message : MessageArrives(m)
       \/ CallbackStep

\* Both threads go on; connect() of the publisher returns after its timeout; the
\* library makes a due call of the subscriber between two messages.
Fairness ==
    /\ WF_vars(Running /\ StartUp)
    /\ SF_vars(Running /\ SubscriberStep)
    /\ WF_vars(Running /\ TakeEvent)
    /\ WF_vars(Running /\ CallbackStep)

Spec == Init /\ [][Next]_vars
FairSpec == Spec /\ Fairness

-----------------------------------------------------------------------------
(* Properties.                                                              *)

\* Every variable has its type; no message is handled on a thread that does
\* not run yet.
TypeOK ==
    /\ Sub!TypeOK
    /\ db \in BOOLEAN /\ logger \in BOOLEAN /\ cache \in BOOLEAN
    /\ others \subseteq {"deleted", "locks"}
    /\ mpc \in {"initLogger", "createDatabase", "services", "controller", "transport",
                "signals", "subscribe", "publisher", "loop"}
    /\ handlers \subseteq Topic
    /\ wired \subseteq {"hasKeepAliveMessage", "hasNewNodeRegister", "hasReplyMessage",
                        "hasRequestMessage"}
    /\ ppc \in {"none", "idle", "handle", "emit"} /\ cur \in Message
    /\ arrived \in 0..MaxMessages /\ emitted \in Nat /\ published \in Nat
    /\ events \in Seq({"getAllNode", "publish"})
    /\ ended \in {"no", "exit(0)", "exit(1)", "terminated"}
    /\ ppc # "none" => mpc \in {"publisher", "loop"}

\* When the callback thread can run, everything that it uses is there, although
\* main() is still connecting the publisher: the logger (a null pointer before),
\* the cache, the handlers and the signals.
ReadyForMessages ==
    client # "new" =>
        /\ logger /\ cache
        /\ handlers = Topic \ {"node/other"}
        /\ {"hasKeepAliveMessage", "hasNewNodeRegister", "hasReplyMessage"} \subseteq wired

\* An exception ends the process only for one of these: the log file cannot be
\* opened; a message has a field of the wrong type; the database does not answer;
\* another program has deleted a row that the cache still has, or holds locks; the
\* connection is lost again before connected() has subscribed.  Malformed text,
\* unknown topics, registrations that fail, a broker that is not there at the
\* start or goes at any other moment, and replies that cannot be published do not
\* end it so.
Cause ==
    \/ mpc = "initLogger"
    \/ ppc = "handle" /\ IllTyped(cur)
    \/ ~db
    \/ "deleted" \in others /\ (mpc = "loop" \/ ppc = "handle")
    \/ "locks" \in others /\ mpc = "loop"
    \/ client = "connected" /\ Sub!Broken

EndsForCause == [][ended' = "terminated" => Cause]_vars

\* Every reply is published in the end, also one that is emitted before the
\* event loop runs, unless the process ends.
RepliesPublished ==
    \A n \in 1..MaxMessages : emitted >= n ~> (published >= n \/ ~Running)

\* Once the broker stays reachable the gateway is subscribed again, also when
\* the outage begins while a handler runs on the thread that has to reconnect.
SubscriptionResumes ==
    <>[]broker => <>[]( \/ topic \in {"granted", "refused"}
                        \/ client \in {"exited", "off"}
                        \/ ~Running )

=============================================================================
