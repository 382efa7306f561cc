----------------------------- MODULE Subscriber -----------------------------
(***************************************************************************)
(* The subscribing MQTT client: AsyncSubscribe and its CallbackImpl.  The  *)
(* client library calls on_failure, connected and connection_lost; they    *)
(* connect again after a pause, subscribe, count the failed attempts and   *)
(* end the process after too many.                                         *)
(***************************************************************************)
EXTENDS Naturals

CONSTANT Retries     \* N_RETRY_ATTEMPTS

ASSUME RetriesAssumption == Retries \in Nat

VARIABLES
    broker,      \* the broker can be reached
    alive,       \* the session's connection still exists
    client,      \* what the client is doing (see TypeOK); "exited" when its calls
                 \* have ended the process, by exit(1) or by an exception
    nretry,      \* nretry_
    topic,       \* the subscription of this session
    failed       \* history: attempts that failed since the last that did not

vars == <<broker, alive, client, nretry, topic, failed>>

-----------------------------------------------------------------------------
(* The broker, and the way to it.                                           *)

\* A connection may outlive a short outage, or be gone when the broker is back
\* and the client has not noticed.
BrokerGoes ==
    /\ broker
    /\ broker' = FALSE
    /\ alive' \in {alive, FALSE}
    /\ UNCHANGED <<client, nretry, topic, failed>>

BrokerReturns ==
    /\ ~broker
    /\ broker' = TRUE
    /\ UNCHANGED <<alive, client, nretry, topic, failed>>

-----------------------------------------------------------------------------
(* The client.                                                              *)

Broken == ~alive \/ ~broker

\* AsyncSubscribe::connect, called once by initSystem: an exception is logged
\* and nothing tries again.
Connect ==
    /\ client = "new"
    /\ client' \in {"connecting", "off"}
    /\ UNCHANGED <<broker, alive, nretry, topic, failed>>

\* Mutant: one attempt too many.
AttemptFailsLater ==
    /\ client = "connecting"
    /\ nretry' = nretry + 1
    /\ failed' = failed + 1
    /\ client' = IF nretry > Retries THEN "exited" ELSE "pausing"
    /\ UNCHANGED <<broker, alive, topic>>

\* on_failure of the connect token.
AttemptFails ==
    /\ client = "connecting"
    /\ nretry' = nretry + 1
    /\ failed' = failed + 1
    /\ client' = IF nretry' > Retries THEN "exited" ELSE "pausing"
    /\ UNCHANGED <<broker, alive, topic>>

\* reconnect after its pause: an exception of connect() ends the process.
Reconnect ==
    /\ client = "pausing"
    /\ client' \in {"connecting", "exited"}
    /\ UNCHANGED <<broker, alive, nretry, topic, failed>>

AttemptSucceeds ==
    /\ client = "connecting" /\ broker
    /\ client' = "connected"
    /\ alive' = TRUE
    /\ failed' = 0
    /\ UNCHANGED <<broker, nretry, topic>>

\* Mutant: a new session is not subscribed again.
SubscribeSkipped ==
    /\ client = "connected"
    /\ client' = "up"
    /\ UNCHANGED <<broker, alive, nretry, topic, failed>>

\* connected(): subscribe() throws if the connection has gone again, and
\* nothing catches it.
Subscribe ==
    /\ client = "connected"
    /\ \/ client' = "up" /\ topic' = "asked"
       \/ Broken /\ client' = "exited" /\ UNCHANGED topic
    /\ UNCHANGED <<broker, alive, nretry, failed>>

\* The broker answers the subscription; its refusal is only logged.
SubscribeAnswered ==
    /\ client = "up" /\ topic = "asked" /\ alive /\ broker
    /\ topic' \in {"granted", "refused"}
    /\ UNCHANGED <<broker, alive, client, nretry, failed>>

\* Mutant: the failures of earlier outages still count.
ConnectionLostAgain ==
    /\ client = "up" /\ Broken
    /\ client' = "pausing"
    /\ topic' = "none"
    /\ UNCHANGED <<broker, alive, nretry, failed>>

\* connection_lost: the session was a clean one, its subscription is gone.
ConnectionLost ==
    /\ client = "up" /\ Broken
    /\ client' = "pausing"
    /\ nretry' = 0
    /\ topic' = "none"
    /\ UNCHANGED <<broker, alive, failed>>

-----------------------------------------------------------------------------
Init ==
    /\ broker \in BOOLEAN
    /\ alive = FALSE
    /\ client = "new"
    /\ nretry = 0
    /\ topic = "none"
    /\ failed = 0

ClientStep ==
    \/ Connect \/ AttemptSucceeds \/ AttemptFails \/ Reconnect
    \/ Subscribe \/ SubscribeAnswered \/ ConnectionLost

Next == BrokerGoes \/ BrokerReturns \/ ClientStep

\* The library makes every call that is due.
Fairness == WF_vars(ClientStep)

Spec == Init /\ [][Next]_vars
FairSpec == Spec /\ Fairness

-----------------------------------------------------------------------------
(* Properties.                                                              *)

\* Every variable has its type; the counter stays within the retries as long
\* as the process runs.
TypeOK ==
    /\ broker \in BOOLEAN /\ alive \in BOOLEAN
    /\ client \in {"new", "off", "connecting", "pausing", "connected", "up", "exited"}
    /\ nretry \in 0..Retries + 1 /\ failed \in 0..Retries + 1
    /\ (nretry > Retries \/ failed > Retries) => client = "exited"
    /\ topic \in {"none", "asked", "granted", "refused"}
    /\ topic # "none" => client = "up"

GivesUp == client = "connecting" /\ client' = "exited"

GivesUpOnlyAfterRetries == GivesUp => failed' = Retries + 1

\* on_failure ends the process only when the first attempt and all its retries
\* have failed in a row: failures from before an earlier success do not count,
\* although a success does not reset nretry_ (connection_lost does).
OutageRidden == [][GivesUpOnlyAfterRetries]_vars

\* Once the broker stays reachable the gateway is subscribed again, or the
\* process has exited, or nothing will subscribe any more: connect() threw at
\* the start, or the broker refused the subscription.
ServiceResumes ==
    <>[]broker => <>[](topic \in {"granted", "refused"} \/ client \in {"exited", "off"})

=============================================================================
