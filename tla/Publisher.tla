------------------------------ MODULE Publisher ------------------------------
(***************************************************************************)
(* AsyncPublish: the main thread publishes the requests of the send timer  *)
(* and the replies that the callback thread has posted.  publish() looks   *)
(* whether the client is connected, connects if not, and hands the message *)
(* over; whatever fails is logged and the message is dropped.  Messages    *)
(* go out with QoS 0 over clean sessions.                                  *)
(***************************************************************************)
EXTENDS Naturals, Sequences

CONSTANTS
    Nodes,       \* the nodes in the cache: requests per send timer
    MaxReply,    \* bound: replies emitted in a behaviour
    MaxWire      \* bound: messages on their way when the send timer fires

ASSUME ConstantsAssumption ==
    /\ Nodes \in Nat \ {0}
    /\ MaxReply \in Nat
    /\ MaxWire \in Nat

Request == 0                       \* a message that is no reply
Reply == 1..MaxReply               \* replies, by the order of their emission
Message == {Request} \cup Reply

VARIABLES
    broker,      \* the broker accepts a connection within the timeout
    session,     \* the connection: "none", "open", or "dead" and not yet noticed
    slot,        \* requests that the send timer's slot has still to publish
    events,      \* replies posted to the main thread
    pc,          \* where publish() is (see TypeOK)
    msg,         \* its message
    wire,        \* messages handed over and on their way
    sent,        \* history: replies emitted
    got          \* history: the last reply that reached the broker

mainVars == <<slot, events, pc, msg>>
vars == <<broker, session, mainVars, wire, sent, got>>

IsConnected == session \in {"open", "dead"}

-----------------------------------------------------------------------------
(* The broker, and the way to it.                                           *)

\* A connection may outlive a short outage.
BrokerGoes ==
    /\ broker
    /\ broker' = FALSE
    /\ session' \in IF session = "open" THEN {"open", "dead"} ELSE {session}
    /\ UNCHANGED <<mainVars, wire, sent, got>>

BrokerReturns ==
    /\ ~broker
    /\ broker' = TRUE
    /\ UNCHANGED <<session, mainVars, wire, sent, got>>

ConnectionBreaks ==
    /\ session = "open" /\ ~broker
    /\ session' = "dead"
    /\ UNCHANGED <<broker, mainVars, wire, sent, got>>

\* Mutant: the session is not a clean one, and keeps what was on its way.
ConnectionLostKept ==
    /\ session = "dead"
    /\ session' = "none"
    /\ UNCHANGED <<broker, mainVars, wire, sent, got>>

\* The library notices: what was on its way is gone with the session.
ConnectionLost ==
    /\ session = "dead"
    /\ session' = "none"
    /\ wire' = <<>>
    /\ UNCHANGED <<broker, mainVars, sent, got>>

Deliver ==
    /\ session = "open" /\ broker
    /\ wire # <<>>
    /\ wire' = Tail(wire)
    /\ got' = IF Head(wire) = Request THEN got ELSE Head(wire)
    /\ UNCHANGED <<broker, session, mainVars, sent>>

-----------------------------------------------------------------------------
(* The callback thread emits a reply: the connection to publish() is queued. *)
EmitReply ==
    /\ sent < MaxReply
    /\ sent' = sent + 1
    /\ events' = Append(events, sent')
    /\ UNCHANGED <<broker, session, slot, pc, msg, wire, got>>

-----------------------------------------------------------------------------
(* The main thread.                                                         *)

\* initSystem connects once before the event loop runs.
ConnectAtStart ==
    /\ pc = "start"
    /\ session' = IF broker THEN "open" ELSE session
    /\ pc' = "idle"
    /\ UNCHANGED <<broker, slot, events, msg, wire, sent, got>>

SendTimer ==
    /\ pc = "idle" /\ slot = 0 /\ Len(wire) <= MaxWire
    /\ slot' = Nodes
    /\ UNCHANGED <<broker, session, events, pc, msg, wire, sent, got>>

PublishRequest ==
    /\ pc = "idle" /\ slot > 0
    /\ slot' = slot - 1
    /\ pc' = "check" /\ msg' = Request
    /\ UNCHANGED <<broker, session, events, wire, sent, got>>

PublishReply ==
    /\ pc = "idle" /\ slot = 0
    /\ events # <<>>
    /\ events' = Tail(events)
    /\ pc' = "check" /\ msg' = Head(events)
    /\ UNCHANGED <<broker, session, slot, wire, sent, got>>

\* Mutant: a client that is not connected stays so.
CheckOnly ==
    /\ pc = "check"
    /\ pc' = "hand"
    /\ UNCHANGED <<broker, session, slot, events, msg, wire, sent, got>>

Check ==
    /\ pc = "check"
    /\ pc' = IF IsConnected THEN "hand" ELSE "connect"
    /\ UNCHANGED <<broker, session, slot, events, msg, wire, sent, got>>

\* Mutant: publish() returns after it has connected.
ConnectSucceedsOnly ==
    /\ pc = "connect" /\ broker
    /\ session' = "open"
    /\ pc' = "idle" /\ msg' = Request
    /\ UNCHANGED <<broker, slot, events, wire, sent, got>>

\* connect() waits for the outcome, and swallows the exception.
ConnectSucceeds ==
    /\ pc = "connect" /\ broker
    /\ session' = "open"
    /\ pc' = "hand"
    /\ UNCHANGED <<broker, slot, events, msg, wire, sent, got>>

ConnectFails ==
    /\ pc = "connect" /\ ~broker
    /\ pc' = "hand"
    /\ UNCHANGED <<broker, session, slot, events, msg, wire, sent, got>>

\* Mutant: the message that could not be handed over is posted again.
HandOrRequeue ==
    /\ pc = "hand"
    /\ wire' = IF IsConnected THEN Append(wire, msg) ELSE wire
    /\ events' = IF ~IsConnected /\ msg # Request THEN Append(events, msg) ELSE events
    /\ pc' = "idle" /\ msg' = Request
    /\ UNCHANGED <<broker, session, slot, sent, got>>

\* publish() of the library throws when the connection has gone since the check.
Hand ==
    /\ pc = "hand"
    /\ wire' = IF IsConnected THEN Append(wire, msg) ELSE wire
    /\ pc' = "idle" /\ msg' = Request
    /\ UNCHANGED <<broker, session, slot, events, sent, got>>

-----------------------------------------------------------------------------
Init ==
    /\ broker \in BOOLEAN
    /\ session = "none"
    /\ slot = 0 /\ events = <<>>
    /\ pc = "start" /\ msg = Request
    /\ wire = <<>>
    /\ sent = 0 /\ got = 0

Publishes == Check \/ ConnectSucceeds \/ ConnectFails \/ Hand

Next ==
    \/ BrokerGoes \/ BrokerReturns \/ ConnectionBreaks \/ ConnectionLost \/ Deliver
    \/ EmitReply
    \/ ConnectAtStart \/ SendTimer \/ PublishRequest \/ PublishReply
    \/ Publishes

\* connect() and publish() return; the event loop gives the timer and the posted
\* events their turns; the library notices a dead connection (its keep-alive)
\* and what is on its way arrives.
Fairness ==
    /\ WF_vars(ConnectAtStart) /\ WF_vars(Publishes) /\ WF_vars(PublishRequest)
    /\ SF_vars(SendTimer) /\ SF_vars(PublishReply)
    /\ WF_vars(ConnectionLost) /\ WF_vars(Deliver)

Spec == Init /\ [][Next]_vars
FairSpec == Spec /\ Fairness

-----------------------------------------------------------------------------
(* Properties.                                                              *)

\* Every variable has its type; nothing is on its way without a connection.
TypeOK ==
    /\ broker \in BOOLEAN
    /\ session \in {"none", "open", "dead"}
    /\ slot \in 0..Nodes
    /\ events \in Seq(Reply) /\ wire \in Seq(Message)
    /\ pc \in {"start", "idle", "check", "connect", "hand"} /\ msg \in Message
    /\ sent \in 0..MaxReply /\ got \in 0..MaxReply
    /\ session = "none" => wire = <<>>

\* However connections break between the check and the handing over, the
\* replies reach the broker in the order of their emission, each at most once:
\* a reply that fails is dropped and never tried again.
Fifo == INSTANCE LossyFifo
ImplementsFifo == Fifo!Spec

\* Once the broker stays reachable, the publisher connects again by itself and
\* the requests of the send timer arrive again and again.
RequestsResume ==
    <>[]broker => []<><<Deliver /\ Head(wire) = Request>>_vars

\* With the broker reachable from now on, every reply emitted from now on
\* arrives, unless the connection is a dead one that was not noticed in time.
RepliesArrive ==
    \A n \in Reply :
        []([](broker /\ session # "dead") /\ sent < n
             => [](sent >= n => <>(got >= n)))

=============================================================================
