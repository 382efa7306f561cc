--------------------------- MODULE SubscriberProofs ---------------------------
(* Theorems about Subscriber, for any number of retries.                    *)
EXTENDS Subscriber, TLAPS

\* While the client tries to connect, nretry_ counts the failures in a row:
\* every series of attempts starts from the constructor or from
\* connection_lost, with a count of 0 and no failure since the last success.
CountInv ==
    /\ client \in {"new", "connecting", "pausing"} => nretry = failed
    /\ client \in {"connected", "up"} => failed = 0

Inv == TypeOK /\ CountInv

LEMMA InitInv == Init => Inv
<1> SUFFICES ASSUME Init PROVE Inv
  OBVIOUS
<1>1. broker \in BOOLEAN /\ alive \in BOOLEAN
  BY DEF Init
<1>2. nretry \in 0..Retries + 1 /\ failed \in 0..Retries + 1
  BY RetriesAssumption DEF Init, RetriesAssumption
<1> QED
  BY <1>1, <1>2, RetriesAssumption DEF Init, Inv, TypeOK, CountInv, RetriesAssumption

LEMMA NextInv == Inv /\ [Next]_vars => Inv'
<1> SUFFICES ASSUME Inv, [Next]_vars PROVE Inv'
  OBVIOUS
<1> USE RetriesAssumption DEF Inv, TypeOK, CountInv, RetriesAssumption
<1>1. CASE BrokerGoes \/ BrokerReturns
  BY <1>1 DEF BrokerGoes, BrokerReturns
<1>2. CASE Connect
  BY <1>2 DEF Connect
<1>3. CASE AttemptFails
  BY <1>3 DEF AttemptFails
<1>4. CASE Reconnect
  BY <1>4 DEF Reconnect
<1>5. CASE AttemptSucceeds
  BY <1>5 DEF AttemptSucceeds
<1>6. CASE Subscribe
  BY <1>6 DEF Subscribe
<1>7. CASE SubscribeAnswered
  BY <1>7 DEF SubscribeAnswered
<1>8. CASE ConnectionLost
  BY <1>8 DEF ConnectionLost
<1>9. CASE UNCHANGED vars
  BY <1>9 DEF vars
<1> QED
  BY <1>1, <1>2, <1>3, <1>4, <1>5, <1>6, <1>7, <1>8, <1>9 DEF Next, ClientStep

\* Every variable keeps its type, and the counters exceed the retries only when
\* the process has exited.
THEOREM TypeCorrect == Spec => []TypeOK
<1>1. Inv => TypeOK
  BY DEF Inv
<1> QED
  BY InitInv, NextInv, <1>1, PTL DEF Spec

\* The process is ended for failed attempts only after all the retries of one
\* outage, whatever happened in the outages before.
THEOREM OutagesAreRidden == Spec => OutageRidden
<1>1. Inv /\ [Next]_vars => [GivesUpOnlyAfterRetries]_vars
  <2> SUFFICES ASSUME Inv, [Next]_vars, GivesUp PROVE failed' = Retries + 1
    BY DEF GivesUpOnlyAfterRetries
  <2>1. AttemptFails /\ nretry' > Retries
    BY DEF GivesUp, Next, ClientStep, BrokerGoes, BrokerReturns, Connect, AttemptFails,
           Reconnect, AttemptSucceeds, Subscribe, SubscribeAnswered, ConnectionLost, vars
  <2>2. nretry = failed /\ nretry \in 0..Retries
    BY <2>1, RetriesAssumption DEF Inv, TypeOK, CountInv, AttemptFails, RetriesAssumption
  <2> QED
    BY <2>1, <2>2, RetriesAssumption DEF AttemptFails, RetriesAssumption
<1> QED
  BY InitInv, NextInv, <1>1, PTL DEF Spec, OutageRidden

=============================================================================
