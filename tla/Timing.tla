------------------------------- MODULE Timing -------------------------------
(***************************************************************************)
(* The seconds of the keep-alive: the main thread runs the send timer, the *)
(* check timer, the posted reloads and the publications, those of the      *)
(* posted replies to registrations included, and a publication without a   *)
(* broker blocks it until connect() gives up.  One node is looked at; it   *)
(* answers every request within Latency.  An outage closes the connections.*)
(***************************************************************************)
EXTENDS Integers

CONSTANTS
    SendInterval, CheckInterval, Timeout,   \* of KeepAliveService
    ConnectTimeout,                         \* of AsyncPublish
    BuilderTimeout,                         \* what its builder starts with
    Nodes,       \* the most nodes in the cache: publications per send timer
    MaxOutages,  \* bound: outages
    MaxReplies,  \* bound: replies that a silent node has to wait for
    Stamps,      \* bound: the ages of the stamps that a reload may read
    Latency,     \* a node's answer takes at most this long
    Resubscribe, \* after an outage the subscriber is back within this time
    Settle,      \* after an outage the living nodes are kept from here on
    Found        \* a silent node is timed out before this age

ASSUME ConstantsAssumption ==
    \A n \in {SendInterval, CheckInterval, Timeout, ConnectTimeout, BuilderTimeout, Nodes,
              Latency, Resubscribe, Settle, Found} : n \in Nat \ {0}

ASSUME BoundsAssumption ==
    MaxOutages \in Nat /\ MaxReplies \in Nat /\ Stamps \subseteq 0..Timeout + 1

None == -1

VARIABLES
    broker,      \* the broker can be reached
    outages,     \* outages so far
    upFor,       \* how long it has been, Settle for long enough
    subscribed,  \* the subscriber is back
    connected,   \* the publisher's client is connected
    sendIn, checkIn,   \* until the timers are due; negative when they are late
    queue,       \* replies posted to the main thread
    slot,        \* publications left to what the main thread is at
    asking,      \* which is the slot of the send timer, not a posted reply
    busy,        \* how long connect() goes on at most, 0 when it is not called
    alive,       \* the node is
    active,      \* status = 1 in the cache
    age,         \* since the stamp in the cache, or more than Timeout
    reply,       \* the node's answer arrives within this time, or None
    stamping,    \* the callback thread is about to stamp the node
    held,        \* history: how long it is active without a newer stamp
    asked,       \* history: the replies that were posted meanwhile or before
    putBack      \* history: a reload has come after the last stamp

linkVars == <<broker, outages, subscribed, connected>>
threadVars == <<queue, slot, asking, busy>>
nodeVars == <<alive, active, reply, stamping, asked, putBack>>
clockVars == <<upFor, sendIn, checkIn, age, held>>
vars == <<linkVars, threadVars, nodeVars, clockVars>>

-----------------------------------------------------------------------------
(* The surroundings.                                                        *)

BrokerGoes ==
    /\ broker /\ outages < MaxOutages
    /\ broker' = FALSE /\ outages' = outages + 1
    /\ upFor' = 0 /\ subscribed' = FALSE /\ connected' = FALSE /\ reply' = None
    /\ UNCHANGED <<threadVars, alive, active, stamping, asked, putBack, sendIn, checkIn, age,
                   held>>

BrokerReturns ==
    /\ ~broker
    /\ broker' = TRUE
    /\ UNCHANGED <<outages, subscribed, connected, threadVars, nodeVars, clockVars>>

Subscribed ==
    /\ broker /\ ~subscribed
    /\ subscribed' = TRUE
    /\ UNCHANGED <<broker, outages, connected, threadVars, nodeVars, clockVars>>

NodeDies ==
    /\ alive
    /\ alive' = FALSE /\ reply' = None
    /\ UNCHANGED <<linkVars, threadVars, active, stamping, asked, putBack, clockVars>>

-----------------------------------------------------------------------------
(* The callback thread.                                                     *)

\* A registration is answered by a posted reply.  (That of a new node posts a
\* reload as well, see Reload.)
Registers ==
    /\ subscribed /\ ~stamping /\ asked < MaxReplies
    /\ queue' = queue + 1 /\ asked' = asked + 1
    /\ UNCHANGED <<linkVars, slot, asking, busy, alive, active, reply, stamping, putBack,
                   clockVars>>

\* Mutant: only an inactive node is stamped.
ReplyWakes ==
    /\ reply # None /\ ~stamping
    /\ reply' = None
    /\ active' = (active \/ subscribed) /\ stamping' = (subscribed /\ ~active)
    /\ UNCHANGED <<linkVars, threadVars, alive, asked, putBack, clockVars>>

\* The answer wakes an inactive node; it is lost when the subscriber is away.
ReplyArrives ==
    /\ reply # None /\ ~stamping
    /\ reply' = None
    /\ active' = (active \/ subscribed) /\ stamping' = subscribed
    /\ UNCHANGED <<linkVars, threadVars, alive, asked, putBack, clockVars>>

\* The stamp comes after the status: a check may come between.
ReplyStamped ==
    /\ stamping
    /\ stamping' = FALSE
    /\ age' = 0 /\ held' = 0 /\ asked' = queue /\ putBack' = FALSE
    /\ UNCHANGED <<linkVars, threadVars, alive, active, reply, upFor, sendIn, checkIn>>

-----------------------------------------------------------------------------
(* The main thread: publish() as far as it takes time.                      *)

Free == slot = 0 /\ busy = 0

\* Mutant: the timeout of the builder is not replaced.
BuilderDefault == BuilderTimeout + 1

\* The seconds of ConnectTimeout can pass while busy counts down to 1.
ConnectLasts == ConnectTimeout + 1

Connects ==
    /\ slot > 0 /\ busy = 0 /\ ~connected
    /\ busy' = ConnectLasts
    /\ UNCHANGED <<linkVars, queue, slot, asking, nodeVars, clockVars>>

\* The message is handed over and lost without a connection.  The last of the
\* send timer's is the node's.
Hand(online) ==
    /\ slot' = slot - 1 /\ busy' = 0
    /\ reply' = IF online /\ asking /\ slot = 1 /\ alive /\ reply = None
                THEN Latency ELSE reply
    /\ UNCHANGED <<broker, outages, subscribed, queue, asking, alive, active, stamping, asked,
                   putBack, clockVars>>

\* connect() succeeds or fails within its timeout; when the broker was back
\* before it began, it succeeds.
ConnectEnds ==
    /\ busy > 0
    /\ connected' \in IF upFor < ConnectLasts THEN {FALSE, broker} ELSE {broker}
    /\ Hand(connected')

Publishes ==
    /\ slot > 0 /\ busy = 0 /\ connected
    /\ UNCHANGED connected
    /\ Hand(TRUE)

\* A posted reply is published; Qt may take it before or after a due timer.
TakeReply ==
    /\ Free /\ queue > 0
    /\ queue' = queue - 1
    /\ slot' = 1 /\ asking' = FALSE
    /\ asked' = IF active THEN asked ELSE queue'
    /\ UNCHANGED <<linkVars, busy, alive, active, reply, stamping, putBack, clockVars>>

\* getAllNode, posted by any registration of a new node: the row may have any
\* status and any stamp (module KeepAlive); a stamp on its way to the old cache
\* is lost.
Reload ==
    /\ Free
    /\ active' \in BOOLEAN /\ age' \in Stamps
    /\ stamping' = FALSE /\ putBack' = TRUE
    /\ IF active /\ active' /\ age' >= age
       THEN UNCHANGED <<held, asked>>
       ELSE held' = 0 /\ asked' = queue
    /\ UNCHANGED <<linkVars, queue, slot, asking, busy, alive, reply, upFor, sendIn, checkIn>>

\* A late timer keeps its phase, unless it is late by more than its interval.
Rearmed(timeout, interval) ==
    IF timeout + interval < 0 THEN interval ELSE timeout + interval

\* Of two timers that are due Qt takes the one that was due first.
SendTimer ==
    /\ Free /\ sendIn <= 0 /\ (checkIn <= 0 => sendIn <= checkIn)
    /\ sendIn' = Rearmed(sendIn, SendInterval)
    /\ slot' \in 1..Nodes /\ asking' = TRUE
    /\ UNCHANGED <<linkVars, queue, busy, nodeVars, upFor, checkIn, age, held>>

CheckDue == Free /\ checkIn <= 0 /\ (sendIn <= 0 => checkIn <= sendIn)

CheckTimesOut ==
    /\ CheckDue /\ active /\ age > Timeout
    /\ checkIn' = Rearmed(checkIn, CheckInterval)
    /\ active' = FALSE /\ age' = 0
    /\ held' = 0 /\ asked' = queue
    /\ UNCHANGED <<linkVars, threadVars, alive, reply, stamping, putBack, upFor, sendIn>>

CheckLeaves ==
    /\ CheckDue /\ ~(active /\ age > Timeout)
    /\ checkIn' = Rearmed(checkIn, CheckInterval)
    /\ UNCHANGED <<linkVars, threadVars, nodeVars, upFor, sendIn, age, held>>

-----------------------------------------------------------------------------
\* A second passes when nothing is due any more: apart from the waiting for a
\* connection the work of the threads takes no time to speak of.
Quiet ==
    /\ Free => sendIn > 0 /\ checkIn > 0 /\ queue = 0
    /\ slot > 0 => busy > 1
    /\ reply # 0 /\ ~stamping
    /\ broker /\ ~subscribed => upFor < Resubscribe

Second ==
    /\ Quiet
    /\ upFor' = IF broker /\ upFor < Settle THEN upFor + 1 ELSE upFor
    /\ sendIn' = sendIn - 1 /\ checkIn' = checkIn - 1
    /\ busy' = IF busy > 0 THEN busy - 1 ELSE 0
    /\ age' = IF age <= Timeout THEN age + 1 ELSE age
    /\ held' = IF active THEN held + 1 ELSE held
    /\ reply' = IF reply = None THEN None ELSE reply - 1
    /\ UNCHANGED <<linkVars, queue, slot, asking, alive, active, stamping, asked,
                   putBack>>

Init ==
    /\ broker = TRUE /\ outages = 0 /\ upFor = Settle /\ subscribed = TRUE /\ connected = TRUE
    /\ sendIn = SendInterval /\ checkIn = CheckInterval
    /\ queue = 0 /\ slot = 0 /\ asking = TRUE /\ busy = 0
    /\ alive = TRUE /\ active = TRUE /\ age = 0 /\ reply = None /\ stamping = FALSE
    /\ held = 0 /\ asked = 0 /\ putBack = FALSE

Next ==
    \/ BrokerGoes \/ BrokerReturns \/ Subscribed \/ NodeDies
    \/ Registers \/ ReplyArrives \/ ReplyStamped
    \/ Connects \/ ConnectEnds \/ Publishes \/ TakeReply \/ Reload
    \/ SendTimer \/ CheckTimesOut \/ CheckLeaves
    \/ Second

Spec == Init /\ [][Next]_vars

-----------------------------------------------------------------------------
(* Properties.                                                              *)

\* A node that answers is timed out only within the first Settle seconds after
\* an outage, or when a reload may have put an older stamp back since it was last
\* stamped: after Settle seconds a request has gone out and its answer has been
\* heard, whatever publications still waited for the broker when it came back.
LivingKept == [][CheckTimesOut /\ alive => upFor < Settle \/ putBack]_vars

\* A node that does not answer is timed out less than Found seconds after its
\* stamp (or after a reload made it active), also when the publications of the
\* send timer block the checks; each reply to a registration that was posted
\* by then may take another ConnectTimeout.
SilentFoundInTime == active => held < Found + asked * ConnectTimeout

=============================================================================
