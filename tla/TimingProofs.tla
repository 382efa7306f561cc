---------------------------- MODULE TimingProofs -----------------------------
(***************************************************************************)
(* Theorems about Timing, for any intervals, timeouts and number of nodes: *)
(* how long a check can still wait, and with it how late a silent node is  *)
(* found; and by when a living node is heard again after an outage.        *)
(***************************************************************************)
EXTENDS Timing, TLAPS

\* The bounds that the two theorems are about.  A silent node waits for the
\* timeout, for the next check, and for two slots of the send timer that
\* connect in vain (the posted replies are counted apart, see the property); a
\* living one for a connect() that was begun in the outage,
\* for the send timer, for the next connect(), and for its answer.
FoundBound == Timeout + CheckInterval + 2 * (Nodes * ConnectTimeout)
SettleBound(n) == n > SendInterval + Latency + 2 * ConnectTimeout
                     /\ n > SendInterval + Latency + Resubscribe

-----------------------------------------------------------------------------
(* The shape of the states.                                                 *)

Flags ==
    /\ broker \in BOOLEAN /\ subscribed \in BOOLEAN /\ connected \in BOOLEAN
    /\ asking \in BOOLEAN /\ alive \in BOOLEAN /\ active \in BOOLEAN
    /\ stamping \in BOOLEAN /\ putBack \in BOOLEAN

Times ==
    /\ upFor \in 0..Settle /\ age \in 0..Timeout + 1 /\ held \in Nat
    /\ queue \in Nat /\ asked \in Nat
    /\ sendIn \in Int /\ sendIn <= SendInterval
    /\ checkIn \in Int /\ checkIn <= CheckInterval
    /\ slot \in 0..Nodes /\ busy \in 0..ConnectLasts
    /\ reply \in {None} \cup 0..Latency

\* connect() is called for a publication without a connection, and the
\* connections are those to a broker that can be reached.
Links ==
    /\ busy > 0 => slot > 0 /\ ~connected
    /\ connected => broker
    /\ reply # None => connected
    /\ ~broker => upFor = 0 /\ ~subscribed
    /\ broker /\ ~subscribed => upFor <= Resubscribe
    /\ ~asking => slot <= 1
    /\ stamping /\ broker => (connected /\ subscribed) \/ upFor = 0

\* An active node's stamp is as old as it is held; the replies in the queue are
\* among those that were posted since.
Holds ==
    /\ active => held <= age \/ age > Timeout
    /\ ~active => held = 0 /\ asked = queue
    /\ queue <= asked

Shape == Flags /\ Times /\ Links /\ Holds

-----------------------------------------------------------------------------
(* How long a check that is due still waits.                                *)

\* How long n publications can wait for a connection.
Wait(n) == n * ConnectTimeout

\* How long the publications of the slot still can.
Left == IF busy > 0 THEN Wait(slot - 1) + busy - 1 ELSE Wait(slot)

\* A slot that the send timer begins before the check is run.
Ahead == IF sendIn <= checkIn THEN Wait(Nodes) ELSE 0

\* And the replies that are posted.
Delay == Left + Ahead + Wait(queue)

\* The stamp of an active node was fresh enough at the last check, and since the
\* next one is due, what it still waits for has been counted.
FoundInv ==
    /\ active /\ checkIn >= 0 => held + checkIn <= Timeout + CheckInterval
    /\ active /\ checkIn < 0 => held + Delay <= FoundBound + Wait(asked)

-----------------------------------------------------------------------------
(* When a node is heard.                                                    *)

\* How long the send timer is not due.
Timer == IF sendIn > 0 THEN sendIn ELSE 0

\* How long it is at most, with the broker there, until the node is sent a
\* request that reaches it.
Requested ==
    IF connected THEN IF slot > 0 /\ asking THEN 0 ELSE Timer
    ELSE IF upFor < ConnectLasts THEN 2 * ConnectTimeout + SendInterval - upFor
    ELSE IF busy > 0 THEN IF ~asking /\ Timer > busy - 1 THEN Timer ELSE busy - 1
    ELSE IF slot > 0 /\ asking THEN ConnectTimeout ELSE Timer + ConnectTimeout

\* How long until its next answer is heard.  What it answers before the subscriber
\* is back is lost, and another send timer has to come.
Answered ==
    IF subscribed THEN IF reply # None THEN reply ELSE Requested + Latency
    ELSE Latency + IF Requested > Resubscribe - upFor + SendInterval
                   THEN Requested ELSE Resubscribe - upFor + SendInterval

\* How long until it is stamped.
Heard == IF stamping THEN 0 ELSE Answered

\* A living node is heard before the outage is Settle seconds past or before
\* its stamp is too old, unless a reload has changed the stamp.
KeptInv ==
    alive /\ broker => \/ upFor + Heard < Settle
                       \/ age + Heard <= Timeout
                       \/ putBack

-----------------------------------------------------------------------------
(* The proofs.                                                              *)

\* The constants are positive numbers.
LEMMA ConstantTypes ==
    /\ SendInterval \in Nat /\ SendInterval >= 1
    /\ CheckInterval \in Nat /\ CheckInterval >= 1
    /\ Timeout \in Nat /\ Timeout >= 1
    /\ ConnectTimeout \in Nat /\ ConnectTimeout >= 1
    /\ Nodes \in Nat /\ Nodes >= 1
    /\ Latency \in Nat /\ Latency >= 1
    /\ Resubscribe \in Nat /\ Resubscribe >= 1
    /\ Settle \in Nat /\ Settle >= 1
    /\ Found \in Nat /\ Found >= 1
BY ConstantsAssumption

LEMMA StampTypes == Stamps \subseteq 0..Timeout + 1
BY BoundsAssumption

LEMMA InitShape == Init => Shape
<1> SUFFICES ASSUME Init PROVE Shape
  OBVIOUS
<1>1. Flags
  BY DEF Init, Flags
<1>2. Times
  BY ConstantTypes DEF Init, Times, ConnectLasts, None
<1>3. Links /\ Holds
  BY ConstantTypes DEF Init, Links, Holds, None
<1> QED
  BY <1>1, <1>2, <1>3 DEF Shape

LEMMA NextFlags == Shape /\ [Next]_vars => Flags'
BY DEF Shape, Flags, Links, Next, vars, linkVars, threadVars, nodeVars, clockVars, Hand,
       BrokerGoes, BrokerReturns, Subscribed, NodeDies, Registers, ReplyArrives,
       ReplyStamped, Connects, ConnectEnds, Publishes, TakeReply, Reload, SendTimer,
       CheckTimesOut, CheckLeaves, Second

LEMMA NextTimes == Shape /\ [Next]_vars => Times'
<1> SUFFICES ASSUME Shape, [Next]_vars PROVE Times'
  OBVIOUS
<1> USE ConstantTypes, StampTypes DEF Shape, Flags, Times, Links, Holds, ConnectLasts, None,
        linkVars, threadVars, nodeVars, clockVars
<1>1. CASE BrokerGoes
  BY <1>1 DEF BrokerGoes
<1>2. CASE BrokerReturns
  BY <1>2 DEF BrokerReturns
<1>3. CASE Subscribed
  BY <1>3 DEF Subscribed
<1>4. CASE NodeDies
  BY <1>4 DEF NodeDies
<1>5. CASE Registers
  BY <1>5 DEF Registers
<1>6. CASE ReplyArrives
  BY <1>6 DEF ReplyArrives
<1>7. CASE ReplyStamped
  BY <1>7 DEF ReplyStamped
<1>8. CASE Connects
  BY <1>8 DEF Connects
<1>9. CASE ConnectEnds
  BY <1>9 DEF ConnectEnds, Hand
<1>10. CASE Publishes
  BY <1>10 DEF Publishes, Hand
<1>11. CASE TakeReply
  BY <1>11 DEF TakeReply, Free
<1>12. CASE Reload
  BY <1>12 DEF Reload, Free
<1>13. CASE SendTimer
  BY <1>13 DEF SendTimer, Free, Rearmed
<1>14. CASE CheckTimesOut
  BY <1>14 DEF CheckTimesOut, CheckDue, Free, Rearmed
<1>15. CASE CheckLeaves
  BY <1>15 DEF CheckLeaves, CheckDue, Free, Rearmed
<1>16. CASE Second
  BY <1>16 DEF Second, Quiet, Free
<1>17. CASE UNCHANGED vars
  BY <1>17 DEF vars
<1> QED
  BY <1>1, <1>2, <1>3, <1>4, <1>5, <1>6, <1>7, <1>8, <1>9, <1>10, <1>11, <1>12, <1>13, <1>14, <1>15, <1>16, <1>17
     DEF Next

LEMMA NextLinks == Shape /\ [Next]_vars => Links'
<1> SUFFICES ASSUME Shape, [Next]_vars PROVE Links'
  OBVIOUS
<1> USE ConstantTypes DEF Shape, Flags, Times, Links, Holds, ConnectLasts, None,
        linkVars, threadVars, nodeVars, clockVars
<1>1. CASE BrokerGoes
  BY <1>1 DEF BrokerGoes
<1>2. CASE BrokerReturns
  BY <1>2 DEF BrokerReturns
<1>3. CASE Subscribed
  BY <1>3 DEF Subscribed
<1>4. CASE NodeDies
  BY <1>4 DEF NodeDies
<1>5. CASE Registers
  BY <1>5 DEF Registers
<1>6. CASE ReplyArrives
  BY <1>6 DEF ReplyArrives
<1>7. CASE ReplyStamped
  BY <1>7 DEF ReplyStamped
<1>8. CASE Connects
  BY <1>8 DEF Connects
<1>9. CASE ConnectEnds
  <2>1. UNCHANGED <<broker, subscribed, upFor, asking>> /\ busy' = 0
    BY <1>9 DEF ConnectEnds, Hand
  <2>2. (connected' => broker) /\ (reply' # None => connected')
    BY <1>9 DEF ConnectEnds, Hand
  <2>3. ~asking' => slot' <= 1
    BY <1>9 DEF ConnectEnds, Hand
  <2>4. stamping' = stamping /\ (connected => connected')
    BY <1>9 DEF ConnectEnds, Hand
  <2> QED
    BY <2>1, <2>2, <2>3, <2>4
<1>10. CASE Publishes
  BY <1>10 DEF Publishes, Hand
<1>11. CASE TakeReply
  BY <1>11 DEF TakeReply, Free
<1>12. CASE Reload
  BY <1>12 DEF Reload, Free
<1>13. CASE SendTimer
  BY <1>13 DEF SendTimer, Free, Rearmed
<1>14. CASE CheckTimesOut
  BY <1>14 DEF CheckTimesOut, CheckDue, Free, Rearmed
<1>15. CASE CheckLeaves
  BY <1>15 DEF CheckLeaves, CheckDue, Free, Rearmed
<1>16. CASE Second
  BY <1>16 DEF Second, Quiet, Free
<1>17. CASE UNCHANGED vars
  BY <1>17 DEF vars
<1> QED
  BY <1>1, <1>2, <1>3, <1>4, <1>5, <1>6, <1>7, <1>8, <1>9, <1>10, <1>11, <1>12, <1>13, <1>14, <1>15, <1>16, <1>17
     DEF Next

LEMMA NextHolds == Shape /\ [Next]_vars => Holds'
<1> SUFFICES ASSUME Shape, [Next]_vars PROVE Holds'
  OBVIOUS
<1> USE ConstantTypes, StampTypes DEF Shape, Flags, Times, Links, Holds, ConnectLasts, None,
        linkVars, threadVars, nodeVars, clockVars
<1>1. CASE BrokerGoes
  BY <1>1 DEF BrokerGoes
<1>2. CASE BrokerReturns
  BY <1>2 DEF BrokerReturns
<1>3. CASE Subscribed
  BY <1>3 DEF Subscribed
<1>4. CASE NodeDies
  BY <1>4 DEF NodeDies
<1>5. CASE Registers
  BY <1>5 DEF Registers
<1>6. CASE ReplyArrives
  BY <1>6 DEF ReplyArrives
<1>7. CASE ReplyStamped
  BY <1>7 DEF ReplyStamped
<1>8. CASE Connects
  BY <1>8 DEF Connects
<1>9. CASE ConnectEnds
  BY <1>9 DEF ConnectEnds, Hand
<1>10. CASE Publishes
  BY <1>10 DEF Publishes, Hand
<1>11. CASE TakeReply
  BY <1>11 DEF TakeReply, Free
<1>12. CASE Reload
  BY <1>12 DEF Reload, Free
<1>13. CASE SendTimer
  BY <1>13 DEF SendTimer, Free, Rearmed
<1>14. CASE CheckTimesOut
  BY <1>14 DEF CheckTimesOut, CheckDue, Free, Rearmed
<1>15. CASE CheckLeaves
  BY <1>15 DEF CheckLeaves, CheckDue, Free, Rearmed
<1>16. CASE Second
  BY <1>16 DEF Second, Quiet, Free
<1>17. CASE UNCHANGED vars
  BY <1>17 DEF vars
<1> QED
  BY <1>1, <1>2, <1>3, <1>4, <1>5, <1>6, <1>7, <1>8, <1>9, <1>10, <1>11, <1>12, <1>13, <1>14, <1>15, <1>16, <1>17
     DEF Next

LEMMA ShapeHolds == Spec => []Shape
<1>1. Shape /\ [Next]_vars => Shape'
  BY NextFlags, NextTimes, NextLinks, NextHolds DEF Shape
<1> QED
  BY InitShape, <1>1, PTL DEF Spec

-----------------------------------------------------------------------------
(* Silent nodes.                                                            *)

\* What is needed of the multiplication.
LEMMA Waits ==
    /\ Wait(0) = 0 /\ Wait(1) = ConnectTimeout
    /\ \A n \in Nat : Wait(n) \in Nat /\ Wait(n + 1) = Wait(n) + ConnectTimeout
    /\ \A n \in 0..Nodes : Wait(n) \in Nat /\ Wait(n) <= Wait(Nodes)
    /\ \A m, n \in Nat : m <= n => Wait(m) <= Wait(n)
BY ConstantTypes DEF Wait

LEMMA WaitBefore ==
    ASSUME NEW n \in Nat, n > 0
    PROVE  /\ Wait(n) \in Nat /\ Wait(n - 1) \in Nat
           /\ Wait(n - 1) = Wait(n) - ConnectTimeout
<1>1. n - 1 \in Nat /\ (n - 1) + 1 = n
  OBVIOUS
<1>2. Wait(n - 1) \in Nat /\ Wait((n - 1) + 1) = Wait(n - 1) + ConnectTimeout
  BY <1>1, Waits
<1>3. Wait((n - 1) + 1) = Wait(n)
  BY <1>1
<1>4. Wait(n) \in Nat
  BY Waits
<1> QED
  BY <1>2, <1>3, <1>4, ConstantTypes

LEMMA LeftTypes ==
    ASSUME Shape
    PROVE  /\ Left \in Nat /\ Left <= Wait(Nodes)
           /\ Ahead \in {0, Wait(Nodes)} /\ Wait(Nodes) \in Nat
           /\ Wait(queue) \in Nat /\ Wait(asked) \in Nat /\ Wait(queue) <= Wait(asked)
           /\ slot = 0 => Left = 0 /\ busy = 0
<1>1. /\ slot \in 0..Nodes /\ busy \in 0..ConnectLasts /\ (busy > 0 => slot > 0)
      /\ queue \in Nat /\ asked \in Nat /\ queue <= asked
  BY ConstantTypes DEF Shape, Times, Links, Holds
<1>2. Left \in Nat /\ Left <= Wait(Nodes)
  <2>1. CASE busy > 0
    <3>1. slot \in 1..Nodes /\ busy \in 1..ConnectTimeout + 1
      BY <1>1, <2>1, ConstantTypes DEF ConnectLasts
    <3>2. slot \in Nat /\ slot > 0 /\ slot \in 0..Nodes
      BY <3>1, ConstantTypes
    <3>3. /\ Wait(slot - 1) \in Nat /\ Wait(slot) \in Nat
          /\ Wait(slot - 1) = Wait(slot) - ConnectTimeout
      BY <3>2, WaitBefore
    <3>4. Wait(slot) <= Wait(Nodes) /\ Wait(Nodes) \in Nat
      BY <3>2, Waits, ConstantTypes
    <3>5. Left = Wait(slot - 1) + busy - 1
      BY <2>1 DEF Left
    <3> QED
      BY <3>1, <3>3, <3>4, <3>5, ConstantTypes
  <2>2. CASE busy = 0
    BY <1>1, <2>2, Waits DEF Left
  <2> QED
    BY <1>1, <2>1, <2>2 DEF ConnectLasts
<1>3. Ahead \in {0, Wait(Nodes)} /\ Wait(Nodes) \in Nat
  BY Waits, ConstantTypes DEF Ahead
<1>4. slot = 0 => Left = 0 /\ busy = 0
  BY <1>1, Waits DEF Left, ConnectLasts
<1>5. Wait(queue) \in Nat /\ Wait(asked) \in Nat /\ Wait(queue) <= Wait(asked)
  BY <1>1, Waits
<1> QED
  BY <1>2, <1>3, <1>4, <1>5

\* The delay is that of two slots and of the replies in the queue at most.
DelayBounded ==
    /\ Left \in Nat /\ Left <= Wait(Nodes)
    /\ Ahead \in {0, Wait(Nodes)}
    /\ Delay \in Nat /\ Delay <= 2 * Wait(Nodes) + Wait(queue)
    /\ Wait(queue) \in Nat /\ Wait(asked) \in Nat /\ Wait(queue) <= Wait(asked)

LEMMA DelayTypes == Shape => DelayBounded
BY LeftTypes DEF DelayBounded, Delay

\* The same of the state after a step; the lengths of the slots do not change.
LEMMA Primed ==
    /\ Left' = IF busy' > 0 THEN Wait(slot' - 1) + busy' - 1 ELSE Wait(slot')
    /\ Ahead' = IF sendIn' <= checkIn' THEN Wait(Nodes) ELSE 0
    /\ Wait(Nodes)' = Wait(Nodes) /\ Wait(queue)' = Wait(queue') /\ Wait(asked)' = Wait(asked')
    /\ FoundBound' = FoundBound
BY DEF Left, Ahead, Wait, FoundBound

LEMMA DelayAfter ==
    ASSUME Shape'
    PROVE  /\ Left' \in Nat /\ Left' <= Wait(Nodes)
           /\ Ahead' \in {0, Wait(Nodes)}
           /\ Delay' \in Nat /\ Delay' <= 2 * Wait(Nodes) + Wait(queue')
           /\ Wait(queue') \in Nat /\ Wait(asked') \in Nat /\ Wait(queue') <= Wait(asked')
<1>1. DelayBounded'
  BY DelayTypes, PTL
<1> QED
  BY <1>1, Primed DEF DelayBounded

LEMMA BoundTypes == FoundBound \in Nat
                    /\ FoundBound = Timeout + CheckInterval + 2 * Wait(Nodes)
                    /\ Wait(Nodes) \in Nat
BY ConstantTypes, Waits DEF FoundBound, Wait

\* A delay whose parts are known.
LEMMA DelayIs ==
    ASSUME NEW l \in Int, NEW a \in Int, NEW q \in Int,
           Left' = l, Ahead' = a, Wait(queue') = q
    PROVE  Delay' = l + a + q
BY Primed DEF Delay

\* The invariant of a state whose numbers are known, in two forms: before the
\* check is due, and afterwards.
LEMMA Early ==
    ASSUME NEW h \in Int, NEW c \in Int, held' = h, checkIn' = c, c >= 0,
           h + c <= Timeout + CheckInterval
    PROVE  FoundInv'
BY DEF FoundInv

LEMMA Late ==
    ASSUME NEW h \in Int, NEW d \in Int, NEW w \in Int,
           held' = h, Delay' = d, Wait(asked') = w, checkIn' \in Int, checkIn' < 0,
           h + d <= FoundBound + w
    PROVE  FoundInv'
BY Primed DEF FoundInv

\* A node that is stamped, or made active, begins anew.
LEMMA Anew ==
    ASSUME Shape', held' = 0, asked' = queue'
    PROVE  FoundInv'
<1>1. checkIn' \in Int /\ checkIn' <= CheckInterval
  BY DEF Shape, Times
<1>2. CASE checkIn' >= 0
  BY <1>1, <1>2, Early, ConstantTypes
<1>3. CASE checkIn' < 0
  <2>1. 0 + Delay' <= FoundBound + Wait(asked')
    BY DelayAfter, BoundTypes, ConstantTypes
  <2> QED
    BY <1>1, <1>3, <2>1, Late, DelayAfter
<1> QED
  BY <1>1, <1>2, <1>3

\* So does one that is not active.
LEMMA Inactive == Shape' /\ ~active' => FoundInv'
BY DEF FoundInv

\* A step in which no time passes and the check is not delayed more than by the
\* replies that are posted.
LEMMA NoLater ==
    ASSUME Shape, Shape', FoundInv, active, UNCHANGED <<held, checkIn>>,
           NEW n \in Int, Wait(asked') = Wait(asked) + n,
           checkIn < 0 => Delay' <= Delay + n
    PROVE  FoundInv'
<1>1. held \in Nat /\ checkIn \in Int
  BY DEF Shape, Times
<1>2. CASE checkIn >= 0
  BY <1>1, <1>2, Early DEF FoundInv
<1>3. CASE checkIn < 0
  <2>1. held + Delay' <= FoundBound + Wait(asked')
    BY <1>1, <1>3, DelayTypes, DelayAfter, BoundTypes DEF FoundInv, DelayBounded
  <2> QED
    BY <1>1, <1>3, <2>1, Late, DelayAfter
<1> QED
  BY <1>1, <1>2, <1>3

LEMMA Sums ==
    ASSUME NEW h \in Int, NEW c \in Int, h <= Timeout, c <= CheckInterval
    PROVE  h + c <= Timeout + CheckInterval
BY ConstantTypes

LEMMA InitFound == Init => FoundInv
BY ConstantTypes DEF Init, FoundInv

LEMMA FoundAfterWork ==
    ASSUME Shape, Shape', FoundInv, active, Connects \/ ConnectEnds \/ Publishes
    PROVE  FoundInv'
<1>1. UNCHANGED <<held, sendIn, checkIn, queue, asked>>
  BY DEF Connects, ConnectEnds, Publishes, Hand, clockVars, nodeVars
<1>2. slot \in 1..Nodes /\ busy \in Nat
  <2>1. slot \in 0..Nodes /\ busy \in Nat /\ (busy > 0 => slot > 0)
    BY ConstantTypes DEF Shape, Links, Times, ConnectLasts
  <2>2. slot > 0
    BY <2>1 DEF Connects, ConnectEnds, Publishes
  <2> QED
    BY <2>1, <2>2, ConstantTypes
<1>3. \/ slot' = slot /\ busy = 0 /\ busy' = ConnectLasts
      \/ slot' = slot - 1 /\ busy' = 0
  BY DEF Connects, ConnectEnds, Publishes, Hand
<1>4. /\ Wait(slot) \in Nat /\ Wait(slot - 1) \in Nat
      /\ Wait(slot - 1) = Wait(slot) - ConnectTimeout
  BY <1>2, WaitBefore, ConstantTypes
<1>5. Left' <= Left
  BY <1>2, <1>3, <1>4, Primed, ConstantTypes DEF Left, ConnectLasts
<1>6. Ahead' = Ahead /\ Wait(queue') = Wait(queue) /\ Wait(asked') = Wait(asked)
  BY <1>1, Primed DEF Ahead
<1>7. Delay' = Left' + Ahead + Wait(queue)
  BY <1>6, DelayIs, DelayAfter, LeftTypes
<1>8. Delay' <= Delay + 0
  BY <1>5, <1>7, DelayAfter, LeftTypes DEF Delay
<1>9. Wait(asked') = Wait(asked) + 0
  BY <1>6, LeftTypes
<1> QED
  BY <1>1, <1>8, <1>9, NoLater

LEMMA FoundAfterRegisters ==
    ASSUME Shape, Shape', FoundInv, active, Registers
    PROVE  FoundInv'
<1>1. /\ UNCHANGED <<held, sendIn, checkIn, slot, busy>>
      /\ queue' = queue + 1 /\ asked' = asked + 1
  BY DEF Registers, clockVars
<1>2. Left' = Left /\ Ahead' = Ahead
  BY <1>1, Primed DEF Left, Ahead
<1>3. /\ Wait(queue') = Wait(queue) + ConnectTimeout
      /\ Wait(asked') = Wait(asked) + ConnectTimeout
  BY <1>1, Waits DEF Shape, Times
<1>4. Delay' = Left + Ahead + (Wait(queue) + ConnectTimeout)
  BY <1>2, <1>3, DelayIs, LeftTypes, ConstantTypes
<1>5. Delay' <= Delay + ConnectTimeout
  BY <1>4, LeftTypes, ConstantTypes DEF Delay
<1> QED
  BY <1>1, <1>3, <1>5, NoLater, ConstantTypes

LEMMA FoundAfterTakeReply ==
    ASSUME Shape, Shape', FoundInv, active, TakeReply
    PROVE  FoundInv'
<1>1. /\ UNCHANGED <<held, sendIn, checkIn, asked>> /\ slot = 0
      /\ queue' = queue - 1 /\ queue > 0 /\ slot' = 1 /\ busy' = 0
  BY DEF TakeReply, Free, clockVars
<1>2. Left = 0 /\ Left' = ConnectTimeout /\ Ahead' = Ahead
  BY <1>1, Primed, Waits, LeftTypes DEF Ahead
<1>3. Wait(queue') = Wait(queue) - ConnectTimeout /\ Wait(asked') = Wait(asked) + 0
  BY <1>1, WaitBefore, LeftTypes DEF Shape, Times
<1>4. Delay' = ConnectTimeout + Ahead + (Wait(queue) - ConnectTimeout)
  BY <1>2, <1>3, DelayIs, LeftTypes, ConstantTypes
<1>5. Delay' <= Delay + 0
  BY <1>2, <1>4, LeftTypes, ConstantTypes DEF Delay
<1> QED
  BY <1>1, <1>3, <1>5, NoLater

LEMMA FoundAfterSendTimer ==
    ASSUME Shape, Shape', FoundInv, active, SendTimer
    PROVE  FoundInv'
<1>1. UNCHANGED <<held, checkIn, queue, asked>> /\ slot = 0 /\ sendIn \in Int /\ checkIn \in Int
  BY DEF SendTimer, Free, nodeVars, Shape, Times
<1>2. Wait(queue') = Wait(queue) /\ Wait(asked') = Wait(asked) + 0
  BY <1>1, LeftTypes
<1>3. ASSUME checkIn < 0 PROVE Delay' <= Delay + 0
  <2>1. sendIn <= checkIn /\ sendIn' \in Int /\ sendIn' >= 0
    BY <1>1, <1>3, ConstantTypes DEF SendTimer, Rearmed
  <2>2. Left = 0 /\ Ahead = Wait(Nodes) /\ Ahead' = 0
    BY <1>1, <1>3, <2>1, LeftTypes, Primed DEF Ahead
  <2>3. Delay' = Left' + 0 + Wait(queue)
    BY <1>2, <2>2, DelayIs, DelayAfter, LeftTypes
  <2> QED
    BY <2>2, <2>3, DelayAfter, LeftTypes DEF Delay
<1> QED
  BY <1>1, <1>2, <1>3, NoLater

LEMMA FoundAfterSecond ==
    ASSUME Shape, Shape', FoundInv, active, Second
    PROVE  FoundInv'
<1>1. /\ held' = held + 1 /\ checkIn' = checkIn - 1 /\ sendIn' = sendIn - 1
      /\ UNCHANGED <<queue, asked, slot>>
      /\ held \in Nat /\ checkIn \in Int /\ sendIn \in Int
      /\ slot \in 0..Nodes /\ busy \in Nat
  BY ConstantTypes DEF Second, Shape, Times, ConnectLasts
<1>2. CASE checkIn > 0
  <2>1. (held + 1) + (checkIn - 1) <= Timeout + CheckInterval
    BY <1>1, <1>2 DEF FoundInv
  <2> QED
    BY <1>1, <1>2, <2>1, Early
<1>3. CASE checkIn <= 0
  <2>1. slot > 0 /\ busy > 1 /\ busy' = busy - 1
    BY <1>1, <1>3 DEF Second, Quiet, Free, Shape, Links
  <2>2. Left' = Left - 1 /\ Ahead' = Ahead /\ Wait(queue') = Wait(queue)
    <3>1. Wait(slot - 1) \in Nat
      BY <1>1, <2>1, WaitBefore, ConstantTypes
    <3> QED
      BY <1>1, <2>1, <3>1, Primed DEF Left, Ahead
  <2>3. Delay' = (Left - 1) + Ahead + Wait(queue)
    BY <2>2, DelayIs, LeftTypes
  <2>4. Delay' = Delay - 1
    BY <2>3, LeftTypes DEF Delay
  <2>5. held + Delay <= FoundBound + Wait(asked)
    BY <1>1, <1>3, DelayTypes, BoundTypes, ConstantTypes DEF FoundInv, DelayBounded
  <2>6. (held + 1) + Delay' <= FoundBound + Wait(asked')
    BY <1>1, <2>4, <2>5, DelayTypes, BoundTypes DEF DelayBounded
  <2> QED
    BY <1>1, <1>3, <2>6, Late, DelayAfter
<1> QED
  BY <1>1, <1>2, <1>3

LEMMA NextFound == Shape /\ Shape' /\ FoundInv /\ [Next]_vars => FoundInv'
<1> SUFFICES ASSUME Shape, Shape', FoundInv, [Next]_vars, active' PROVE FoundInv'
  BY Inactive
<1>1. CASE \/ BrokerGoes \/ BrokerReturns \/ Subscribed \/ NodeDies \/ UNCHANGED vars
  <2>1. UNCHANGED <<active, held, sendIn, checkIn, queue, asked, slot, busy>>
    BY <1>1 DEF BrokerGoes, BrokerReturns, Subscribed, NodeDies, vars, threadVars, nodeVars,
                clockVars
  <2>2. Delay' = Delay /\ Wait(asked') = Wait(asked) + 0
    BY <2>1, LeftTypes DEF Delay, Left, Ahead, Wait
  <2> QED
    BY <2>1, <2>2, NoLater, DelayTypes DEF DelayBounded
<1>2. CASE ReplyArrives
  <2>1. UNCHANGED <<held, sendIn, checkIn, queue, asked, slot, busy>>
    BY <1>2 DEF ReplyArrives, threadVars, clockVars
  <2>2. Delay' = Delay /\ Wait(asked') = Wait(asked) + 0
    BY <2>1, LeftTypes DEF Delay, Left, Ahead, Wait
  <2>3. CASE active
    BY <2>1, <2>2, <2>3, NoLater, DelayTypes DEF DelayBounded
  <2>4. CASE ~active
    BY <2>1, <2>4, Anew DEF Shape, Holds
  <2> QED
    BY <2>3, <2>4
<1>3. CASE ReplyStamped
  BY <1>3, Anew DEF ReplyStamped, threadVars
<1>4. CASE Reload
  <2>1. CASE UNCHANGED <<held, asked>> /\ active
    <3>1. UNCHANGED <<sendIn, checkIn, queue, slot, busy>>
      BY <1>4 DEF Reload
    <3>2. Delay' = Delay /\ Wait(asked') = Wait(asked) + 0
      BY <2>1, <3>1, LeftTypes DEF Delay, Left, Ahead, Wait
    <3> QED
      BY <2>1, <3>1, <3>2, NoLater, DelayTypes DEF DelayBounded
  <2>2. CASE held' = 0 /\ asked' = queue
    BY <1>4, <2>2, Anew DEF Reload
  <2> QED
    BY <1>4, <2>1, <2>2 DEF Reload
<1>5. CASE Connects \/ ConnectEnds \/ Publishes
  <2>1. active
    BY <1>5 DEF Connects, ConnectEnds, Publishes, Hand, nodeVars
  <2> QED
    BY <1>5, <2>1, FoundAfterWork
<1>6. CASE Registers
  BY <1>6, FoundAfterRegisters DEF Registers
<1>7. CASE TakeReply
  BY <1>7, FoundAfterTakeReply DEF TakeReply
<1>8. CASE SendTimer
  BY <1>8, FoundAfterSendTimer DEF SendTimer, nodeVars
<1>9. CASE CheckTimesOut
  BY <1>9 DEF CheckTimesOut
<1>10. CASE CheckLeaves
  <2>1. held' = held /\ held \in Nat /\ held <= Timeout
    BY <1>10, ConstantTypes DEF CheckLeaves, nodeVars, Shape, Times, Holds
  <2>2. checkIn' \in Int /\ checkIn' >= 0 /\ checkIn' <= CheckInterval
    BY <1>10, ConstantTypes DEF CheckLeaves, CheckDue, Rearmed, Shape, Times
  <2>3. held + checkIn' <= Timeout + CheckInterval
    BY <2>1, <2>2, Sums
  <2> QED
    BY <2>1, <2>2, <2>3, Early
<1>11. CASE Second
  BY <1>11, FoundAfterSecond DEF Second
<1> QED
  BY <1>1, <1>2, <1>3, <1>4, <1>5, <1>6, <1>7, <1>8, <1>9, <1>10, <1>11 DEF Next

\* A node that does not answer is timed out within the timeout, the interval of
\* the check, the time of two slots whose publications all wait in vain, and
\* that of the replies that were posted meanwhile.
THEOREM SilentIsFoundInTime ==
    ASSUME Found > FoundBound
    PROVE  Spec => []SilentFoundInTime
<1>1. Shape /\ FoundInv => SilentFoundInTime
  <2> SUFFICES ASSUME Shape, FoundInv, active PROVE held < Found + Wait(asked)
    BY DEF SilentFoundInTime, Wait
  <2>1. /\ held \in Nat /\ checkIn \in Int
        /\ Wait(Nodes) \in Nat /\ Wait(asked) \in Nat
        /\ Delay \in Nat
    BY DelayTypes, BoundTypes DEF Shape, Times, DelayBounded
  <2> QED
    BY <2>1, BoundTypes, ConstantTypes DEF FoundInv
<1> QED
  BY ShapeHolds, InitFound, NextFound, <1>1, PTL DEF Spec

-----------------------------------------------------------------------------
(* Living nodes.                                                            *)

\* The numbers of a state, without the ranges.
LEMMA Numbers ==
    ASSUME Shape
    PROVE  /\ upFor \in Nat /\ upFor <= Settle /\ age \in Nat
           /\ sendIn \in Int /\ sendIn <= SendInterval
           /\ slot \in Nat /\ busy \in Nat /\ busy <= ConnectTimeout + 1
           /\ reply # None => reply \in Nat /\ reply <= Latency
BY ConstantTypes DEF Shape, Times, ConnectLasts

LEMMA HeardTypes ==
    ASSUME Shape
    PROVE  /\ Timer \in Nat /\ Timer <= SendInterval
           /\ Requested \in Nat /\ Answered \in Nat /\ Heard \in Nat
<1>1. Timer \in Nat /\ Timer <= SendInterval
  BY Numbers, ConstantTypes DEF Timer
<1>2. Requested \in Nat
  BY <1>1, Numbers, ConstantTypes DEF Requested, ConnectLasts
<1>3. Answered \in Nat
  <2>1. ~subscribed => Resubscribe - upFor + SendInterval \in Int
    BY Numbers, ConstantTypes
  <2> QED
    BY <1>2, <2>1, Numbers, ConstantTypes DEF Answered
<1> QED
  BY <1>1, <1>2, <1>3 DEF Heard

\* Waiting for the publication of a reply is no shorter than for the send timer.
LEMMA RequestedOfReply == Shape /\ ~asking => Timer <= Requested
BY HeardTypes, Numbers, ConstantTypes DEF Requested, ConnectLasts

\* A step that takes no time and after which the node is heard no later keeps
\* the invariant, and so does a second that brings it a second nearer.
LEMMA KeptStep ==
    ASSUME Shape, KeptInv, alive, broker, ~putBack,
           NEW h \in Nat, NEW u \in Nat, NEW a \in Nat,
           \/ h <= Heard /\ u <= upFor /\ a <= age
           \/ h <= Heard - 1 /\ u <= upFor + 1 /\ a <= age + 1
    PROVE  u + h < Settle \/ a + h <= Timeout
<1>1. upFor + Heard < Settle \/ age + Heard <= Timeout
  BY DEF KeptInv
<1> QED
  BY <1>1, Numbers, HeardTypes, ConstantTypes

\* What a publication leads to: the node was to be heard no earlier than that,
\* since its request was no earlier.
LEMMA HeardAfterHand ==
    ASSUME Shape, Shape', alive, broker, slot > 0, Hand(connected'), connected'
    PROVE  Answered' <= Answered
<1>a. /\ slot' = slot - 1 /\ busy' = 0
      /\ UNCHANGED <<broker, subscribed, asking, alive, upFor, sendIn>>
  BY DEF Hand, clockVars
<1>b. Timer' = Timer /\ Requested' = IF slot > 1 /\ asking THEN 0 ELSE Timer
  BY <1>a, Numbers DEF Timer, Requested
<1>1. CASE subscribed /\ reply # None
  <2>1. reply' = reply
    BY <1>1 DEF Hand
  <2> QED
    BY <1>1, <1>a, <2>1, Numbers DEF Answered
<1>2. CASE subscribed /\ reply = None
  <2>1. Answered = Requested + Latency
    BY <1>2 DEF Answered
  <2>2. CASE asking /\ slot = 1
    <3>1. reply' = Latency /\ Latency # None
      BY <1>2, <2>2, ConstantTypes DEF Hand, None
    <3>2. Answered' = Latency
      BY <1>2, <1>a, <3>1 DEF Answered
    <3> QED
      BY <2>1, <3>2, HeardTypes, ConstantTypes
  <2>3. CASE asking /\ slot > 1
    <3>1. reply' = None /\ Requested' = 0
      BY <1>2, <1>b, <2>3, Numbers DEF Hand
    <3>2. Answered' = Latency
      BY <1>2, <1>a, <3>1, ConstantTypes DEF Answered
    <3> QED
      BY <2>1, <3>2, HeardTypes, ConstantTypes
  <2>4. CASE ~asking
    <3>1. reply' = None /\ Requested' = Timer
      BY <1>2, <1>b, <2>4 DEF Hand
    <3>2. Answered' = Timer + Latency
      BY <1>2, <1>a, <3>1 DEF Answered
    <3> QED
      BY <2>1, <2>4, <3>2, RequestedOfReply, HeardTypes, ConstantTypes
  <2> QED
    BY <2>2, <2>3, <2>4, Numbers
<1>3. CASE ~subscribed
  <2>1. upFor <= Resubscribe
    BY <1>3 DEF Shape, Links
  <2>2. Timer <= Resubscribe - upFor + SendInterval
    BY <2>1, Numbers, HeardTypes, ConstantTypes
  <2>3. Requested' <= Resubscribe - upFor + SendInterval
    BY <1>b, <2>1, <2>2, Numbers, HeardTypes, ConstantTypes
  <2>4. Answered' = Latency + (Resubscribe - upFor + SendInterval)
    BY <1>3, <1>a, <1>b, <2>3, Numbers, HeardTypes, ConstantTypes DEF Answered
  <2>5. Answered >= Latency + (Resubscribe - upFor + SendInterval)
    BY <1>3, <2>1, Numbers, HeardTypes, ConstantTypes DEF Answered
  <2> QED
    BY <2>4, <2>5
<1> QED
  BY <1>1, <1>2, <1>3

\* Nothing but the thread's work has changed, and the request is no later.
LEMMA HeardAfterRequested ==
    ASSUME Shape, UNCHANGED <<subscribed, reply, upFor>>,
           NEW q \in Int, Requested' = q, q <= Requested
    PROVE  Answered' <= Answered
<1>1. Answered' = IF subscribed THEN IF reply # None THEN reply ELSE q + Latency
               ELSE Latency + IF q > Resubscribe - upFor + SendInterval
                              THEN q ELSE Resubscribe - upFor + SendInterval
  BY DEF Answered
<1> QED
  BY <1>1, HeardTypes, Numbers, ConstantTypes DEF Answered

LEMMA HeardAfterConnects == Shape /\ Shape' /\ broker /\ Connects => Answered' <= Answered
<1> SUFFICES ASSUME Shape, Shape', broker, Connects PROVE Answered' <= Answered
  OBVIOUS
<1>1. /\ UNCHANGED <<connected, subscribed, reply, upFor, sendIn, slot, asking>>
      /\ slot > 0 /\ busy = 0 /\ busy' = ConnectTimeout + 1 /\ ~connected
  BY DEF Connects, ConnectLasts, linkVars, nodeVars, clockVars
<1>2. Timer' = Timer
  BY <1>1 DEF Timer
<1> DEFINE q == IF upFor < ConnectLasts THEN 2 * ConnectTimeout + SendInterval - upFor
                ELSE IF ~asking /\ Timer > ConnectTimeout THEN Timer ELSE ConnectTimeout
<1>3. Requested' = q
  BY <1>1, <1>2, ConstantTypes DEF Requested
<1>4. q \in Int /\ q <= Requested
  BY <1>1, HeardTypes, Numbers, ConstantTypes DEF Requested
<1> HIDE DEF q
<1> QED
  BY <1>1, <1>3, <1>4, HeardAfterRequested

LEMMA HeardAfterConnectEnds ==
    Shape /\ Shape' /\ alive /\ broker /\ ConnectEnds => Answered' <= Answered
<1> SUFFICES ASSUME Shape, Shape', alive, broker, ConnectEnds PROVE Answered' <= Answered
  OBVIOUS
<1>1. slot > 0 /\ ~connected /\ Hand(connected')
  BY Numbers DEF ConnectEnds, Shape, Links
<1>2. CASE connected'
  BY <1>1, <1>2, HeardAfterHand
<1>3. CASE ~connected'
  <2>1. upFor < ConnectLasts
    BY <1>3 DEF ConnectEnds
  <2>2. UNCHANGED <<subscribed, reply, upFor>>
    BY <1>1, <1>3 DEF Hand, clockVars
  <2>3. Requested' = Requested
    BY <1>1, <1>3, <2>1, <2>2 DEF Requested
  <2> QED
    BY <2>2, <2>3, HeardAfterRequested, HeardTypes
<1> QED
  BY <1>2, <1>3

LEMMA HeardAfterSendTimer == Shape /\ Shape' /\ SendTimer => Answered' <= Answered
<1> SUFFICES ASSUME Shape, Shape', SendTimer PROVE Answered' <= Answered
  OBVIOUS
<1>1. slot = 0 /\ busy = 0 /\ Timer = 0
  BY Numbers DEF SendTimer, Free, Timer
<1>2. /\ slot' > 0 /\ busy' = 0 /\ asking'
      /\ UNCHANGED <<connected, subscribed, reply, upFor>>
  BY <1>1 DEF SendTimer, linkVars, nodeVars
<1>3. Requested' = Requested
  BY <1>1, <1>2, Numbers, ConstantTypes DEF Requested
<1> QED
  BY <1>2, <1>3, HeardAfterRequested, HeardTypes

LEMMA HeardAfterTakeReply == Shape /\ Shape' /\ TakeReply => Answered' <= Answered
<1> SUFFICES ASSUME Shape, Shape', TakeReply PROVE Answered' <= Answered
  OBVIOUS
<1>1. /\ slot = 0 /\ busy = 0 /\ slot' = 1 /\ busy' = 0 /\ ~asking'
      /\ UNCHANGED <<connected, subscribed, reply, upFor, sendIn>>
  BY DEF TakeReply, Free, linkVars, nodeVars, clockVars
<1>2. Timer' = Timer
  BY <1>1 DEF Timer
<1>3. Requested' = Requested
  BY <1>1, <1>2 DEF Requested
<1> QED
  BY <1>1, <1>3, HeardAfterRequested, HeardTypes

\* A request that is a second nearer is heard a second earlier.
LEMMA HeardEarlier ==
    ASSUME Shape, NEW r \in Int, r <= Requested - 1
    PROVE  /\ Answered = Requested + Latency => r + Latency <= Answered - 1
           /\ ~subscribed => Latency + (IF r > Resubscribe - (upFor + 1) + SendInterval
                                       THEN r ELSE Resubscribe - (upFor + 1) + SendInterval)
                                <= Answered - 1
BY HeardTypes, Numbers, ConstantTypes DEF Answered

LEMMA HeardAfterSecond ==
    Shape /\ Shape' /\ alive /\ broker /\ SettleBound(Settle) /\ Second
        => Answered' <= Answered - 1
<1> SUFFICES ASSUME Shape, Shape', alive, broker, SettleBound(Settle), Second
             PROVE  Answered' <= Answered - 1
  OBVIOUS
<1>a. /\ UNCHANGED <<subscribed, connected, slot, asking>>
      /\ sendIn' = sendIn - 1 /\ reply # 0
      /\ slot > 0 => busy > 1 /\ ~connected /\ busy' = busy - 1
      /\ slot = 0 => busy = 0 /\ busy' = 0 /\ sendIn > 0
  BY Numbers DEF Second, Quiet, Free, Shape, Links, linkVars
<1>t. Timer' = IF Timer > 0 THEN Timer - 1 ELSE 0
  BY <1>a, Numbers DEF Timer
<1>b. /\ upFor < Settle => upFor' = upFor + 1
      /\ upFor < ConnectLasts \/ (~subscribed) => upFor < Settle
  BY Numbers, ConstantTypes DEF Second, SettleBound, ConnectLasts, Shape, Links
<1>c. Requested' \in Int
  BY <1>a, Numbers, ConstantTypes DEF Requested, Timer, Second
<1>1. Requested' <= Requested - 1
  <2>1. CASE connected
    BY <2>1, <1>a, Numbers DEF Requested, Timer
  <2>2. CASE ~connected /\ upFor < ConnectLasts
    <3>1. upFor' = upFor + 1
      BY <2>2, <1>b
    <3>2. CASE upFor + 1 < ConnectLasts
      <4>1. Requested = 2 * ConnectTimeout + SendInterval - upFor
        BY <2>2 DEF Requested
      <4>2. Requested' = 2 * ConnectTimeout + SendInterval - (upFor + 1)
        BY <1>a, <2>2, <3>1, <3>2 DEF Requested
      <4> QED
        BY <4>1, <4>2, Numbers, ConstantTypes
    <3>3. CASE upFor = ConnectTimeout
      <4>1. Requested = ConnectTimeout + SendInterval
        BY <2>2, <3>3, Numbers, ConstantTypes DEF Requested, ConnectLasts
      <4>2. CASE slot > 0
        <5>1. Requested' = IF ~asking /\ Timer' > busy - 2 THEN Timer' ELSE busy - 2
          BY <1>a, <2>2, <3>1, <3>3, <4>2, Numbers, ConstantTypes DEF Requested, ConnectLasts
        <5> QED
          BY <1>t, <4>1, <5>1, HeardTypes, Numbers, ConstantTypes
      <4>3. CASE slot = 0
        <5>1. Requested' = sendIn - 1 + ConnectTimeout
          BY <1>a, <2>2, <3>1, <3>3, <4>3, Numbers, ConstantTypes
             DEF Requested, Timer, ConnectLasts
        <5> QED
          BY <4>1, <5>1, Numbers, ConstantTypes
      <4> QED
        BY <4>2, <4>3, Numbers
    <3> QED
      BY <2>2, <3>2, <3>3, Numbers, ConstantTypes DEF ConnectLasts
  <2>3. CASE ~connected /\ ~(upFor < ConnectLasts)
    <3>1. ~(upFor' < ConnectLasts)
      BY <2>3, Numbers, ConstantTypes DEF Second, ConnectLasts
    <3>2. CASE slot > 0
      <4>1. /\ Requested = IF ~asking /\ Timer > busy - 1 THEN Timer ELSE busy - 1
            /\ Requested' = IF ~asking /\ Timer' > busy - 2 THEN Timer' ELSE busy - 2
        BY <1>a, <2>3, <3>1, <3>2, Numbers DEF Requested
      <4> QED
        BY <1>a, <1>t, <3>2, <4>1, HeardTypes, Numbers
    <3>3. CASE slot = 0
      <4>1. Requested = sendIn + ConnectTimeout /\ Requested' = sendIn - 1 + ConnectTimeout
        BY <1>a, <2>3, <3>1, <3>3, Numbers, ConstantTypes DEF Requested, Timer
      <4> QED
        BY <4>1, Numbers, ConstantTypes
    <3> QED
      BY <3>2, <3>3, Numbers
  <2> QED
    BY <2>1, <2>2, <2>3
<1>2. CASE subscribed /\ reply # None
  <2>1. reply' = reply - 1 /\ reply' # None
    BY <1>2, <1>a, Numbers DEF Second, None
  <2> QED
    BY <1>2, <1>a, <2>1, Numbers DEF Answered
<1>3. CASE subscribed /\ reply = None
  <2>1. reply' = None
    BY <1>3 DEF Second
  <2>2. Answered' = Requested' + Latency /\ Answered = Requested + Latency
    BY <1>3, <1>a, <2>1 DEF Answered
  <2>3. Requested' + Latency <= Answered - 1
    BY <1>1, <1>c, <2>2, HeardEarlier
  <2> QED
    BY <2>2, <2>3, Zenon
<1>4. CASE ~subscribed
  <2>1. upFor' = upFor + 1
    BY <1>4, <1>b
  <2> QED
    BY <1>1, <1>4, <1>a, <1>c, <2>1, HeardEarlier DEF Answered
<1> QED
  BY <1>2, <1>3, <1>4

\* The same after a step.
HeardIsNat == Heard \in Nat

LEMMA HeardIsNatAfter == Shape' => Heard' \in Nat
<1>1. Shape => HeardIsNat
  BY HeardTypes DEF HeardIsNat
<1>2. Shape' => HeardIsNat'
  BY <1>1, PTL
<1> QED
  BY <1>2 DEF HeardIsNat

LEMMA InitKept ==
    ASSUME SettleBound(Settle), Timeout >= SendInterval + Latency, Init
    PROVE  KeptInv
<1>1. Heard = SendInterval + Latency
  BY ConstantTypes DEF Init, Heard, Answered, Requested, Timer
<1> QED
  BY <1>1, ConstantTypes DEF Init, KeptInv

\* A stamp is fresh for the next one, or the outage is.
LEMMA KeptAfterStamp ==
    ASSUME SettleBound(Settle), Timeout >= SendInterval + Latency,
           Shape, alive, broker, ReplyStamped
    PROVE  KeptInv'
<1>1. /\ UNCHANGED <<broker, subscribed, connected, slot, asking, busy, alive, reply, upFor,
                     sendIn>>
      /\ ~stamping' /\ age' = 0 /\ stamping
  BY DEF ReplyStamped, linkVars, threadVars
<1>2. Heard' = Answered
  BY <1>1 DEF Heard, Answered, Requested, Timer
<1>3. CASE connected /\ subscribed
  <2>1. Requested <= SendInterval
    BY <1>3, HeardTypes, ConstantTypes DEF Requested
  <2>2. 0 + Answered <= Timeout
    BY <1>3, <2>1, HeardTypes, Numbers, ConstantTypes DEF Answered
  <2> QED
    BY <1>1, <1>2, <2>2 DEF KeptInv
<1>4. CASE ~(connected /\ subscribed)
  <2>1. upFor = 0
    BY <1>1, <1>4 DEF Shape, Links
  <2>2. Requested <= 2 * ConnectTimeout + SendInterval
    BY <2>1, HeardTypes, ConstantTypes DEF Requested, ConnectLasts
  <2>3. 0 + Answered < Settle
    BY <2>1, <2>2, HeardTypes, Numbers, ConstantTypes DEF Answered, SettleBound
  <2> QED
    BY <1>1, <1>2, <2>1, <2>3 DEF KeptInv
<1> QED
  BY <1>3, <1>4

\* The steps that the send timer, the publications and the replies take.
LEMMA AnsweredAfterWork ==
    ASSUME Shape, Shape', alive, broker,
           Connects \/ ConnectEnds \/ Publishes \/ TakeReply \/ SendTimer
    PROVE  Answered' <= Answered
<1>1. CASE Connects
  BY <1>1, HeardAfterConnects
<1>2. CASE ConnectEnds
  BY <1>2, HeardAfterConnectEnds
<1>3. CASE Publishes
  <2>1. slot > 0 /\ connected' /\ Hand(connected')
    BY <1>3 DEF Publishes, Hand
  <2> QED
    BY <2>1, HeardAfterHand
<1>4. CASE TakeReply
  BY <1>4, HeardAfterTakeReply
<1>5. CASE SendTimer
  BY <1>5, HeardAfterSendTimer
<1> QED
  BY <1>1, <1>2, <1>3, <1>4, <1>5

LEMMA NextKept ==
    ASSUME SettleBound(Settle), Timeout >= SendInterval + Latency
    PROVE  Shape /\ Shape' /\ KeptInv /\ [Next]_vars => KeptInv'
<1> SUFFICES ASSUME Shape, Shape', KeptInv, [Next]_vars, alive', broker', ~putBack'
             PROVE  KeptInv'
  BY DEF KeptInv
<1>a. /\ upFor' \in Nat /\ age' \in Nat
  BY ConstantTypes DEF Shape, Times
<1>h. Heard' \in Nat
  BY HeardIsNatAfter
\* Steps that take no time.
<1>b. ASSUME alive, broker, ~putBack, Heard' <= Heard, upFor' <= upFor, age' <= age
      PROVE  KeptInv'
  <2>1. upFor' + Heard' < Settle \/ age' + Heard' <= Timeout
    BY <1>a, <1>h, <1>b, KeptStep
  <2> QED
    BY <2>1 DEF KeptInv
<1>1. CASE BrokerReturns
  <2>1. upFor = 0 /\ ~subscribed /\ ~connected
    BY <1>1 DEF BrokerReturns, Shape, Links
  <2>2. Requested' = 2 * ConnectTimeout + SendInterval
    BY <1>1, <2>1, ConstantTypes DEF BrokerReturns, Requested, ConnectLasts, clockVars
  <2>3. Answered' < Settle /\ upFor' = 0
    BY <1>1, <2>1, <2>2, ConstantTypes DEF BrokerReturns, Answered, SettleBound, clockVars
  <2>4. 0 + Heard' < Settle
    BY <1>h, <2>3, ConstantTypes DEF Heard
  <2> QED
    BY <2>3, <2>4 DEF KeptInv
<1>2. CASE Subscribed
  <2>1. UNCHANGED <<broker, alive, stamping, putBack, reply, upFor, age, Requested>>
    BY <1>2 DEF Subscribed, nodeVars, threadVars, clockVars, Requested, Timer
  <2>2. Answered' = IF reply # None THEN reply ELSE Requested + Latency
    BY <1>2, <2>1 DEF Subscribed, Answered
  <2>3. Answered >= Requested + Latency /\ Answered >= Latency
    BY <1>2, Numbers, HeardTypes, ConstantTypes DEF Subscribed, Answered
  <2>4. Answered' <= Answered
    BY <2>2, <2>3, Numbers, HeardTypes, ConstantTypes
  <2>5. Heard' <= Heard
    BY <2>1, <2>4 DEF Heard
  <2> QED
    BY <1>a, <1>b, <2>1, <2>5, Numbers
<1>3. CASE ReplyArrives
  <2>1. UNCHANGED <<broker, subscribed, alive, putBack, upFor, age, Requested>> /\ reply' = None
    BY <1>3 DEF ReplyArrives, linkVars, threadVars, clockVars, Requested, Timer
  <2>2. Heard' <= Heard
    <3>1. CASE subscribed
      <4>1. Heard' = 0
        BY <1>3, <3>1 DEF ReplyArrives, Heard
      <4> QED
        BY <4>1, HeardTypes
    <3>2. CASE ~subscribed
      <4>1. ~stamping /\ ~stamping' /\ Answered' = Answered
        BY <1>3, <2>1, <3>2 DEF ReplyArrives, Answered
      <4> QED
        BY <4>1, HeardTypes DEF Heard
    <3> QED
      BY <3>1, <3>2
  <2> QED
    BY <1>a, <1>b, <2>1, <2>2, Numbers
<1>4. CASE ReplyStamped
  <2>1. alive /\ broker
    BY <1>4 DEF ReplyStamped, linkVars
  <2> QED
    BY <1>4, <2>1, KeptAfterStamp
<1>5. CASE Connects \/ ConnectEnds \/ Publishes \/ TakeReply \/ SendTimer
  <2>1. UNCHANGED <<broker, alive, stamping, putBack, upFor, age>>
    BY <1>5 DEF Connects, ConnectEnds, Publishes, Hand, TakeReply, SendTimer, linkVars,
                nodeVars, clockVars
  <2>2. Answered' <= Answered
    BY <1>5, <2>1, AnsweredAfterWork
  <2>3. Heard' <= Heard
    BY <2>1, <2>2 DEF Heard
  <2> QED
    BY <1>a, <1>b, <2>1, <2>3, Numbers
<1>6. CASE Second
  <2>1. alive /\ broker /\ ~putBack /\ upFor' <= upFor + 1 /\ age' <= age + 1
    BY <1>6, Numbers DEF Second, linkVars
  <2>2. ~stamping /\ ~stamping'
    BY <1>6 DEF Second, Quiet
  <2>3. Answered' <= Answered - 1
    BY <1>6, <2>1, HeardAfterSecond
  <2>4. Heard' <= Heard - 1
    BY <2>2, <2>3 DEF Heard
  <2>5. upFor' + Heard' < Settle \/ age' + Heard' <= Timeout
    BY <1>a, <1>h, <2>1, <2>4, KeptStep
  <2> QED
    BY <2>5 DEF KeptInv
<1>7. CASE Registers \/ CheckTimesOut \/ CheckLeaves \/ UNCHANGED vars
  <2>1. /\ UNCHANGED <<broker, subscribed, connected, slot, asking, busy, alive, reply, stamping,
                       putBack, upFor, sendIn>>
        /\ age' = age \/ age' = 0
    BY <1>7 DEF Registers, CheckTimesOut, CheckLeaves, vars, linkVars, threadVars, nodeVars,
                clockVars
  <2>2. Heard' = Heard
    BY <2>1 DEF Heard, Answered, Requested, Timer
  <2> QED
    BY <1>a, <1>b, <2>1, <2>2, HeardTypes, Numbers
<1>8. CASE BrokerGoes \/ NodeDies \/ Reload
  BY <1>8 DEF BrokerGoes, NodeDies, Reload
<1> QED
  BY <1>1, <1>2, <1>3, <1>4, <1>5, <1>6, <1>7, <1>8 DEF Next

\* A living node is not timed out once the broker has been back for Settle
\* seconds and no reload has come since its last stamp, when that is longer than
\* what is left of a connect() begun in the outage, the next one, the send timer's
\* interval and the answer, and than the subscriber's return, that interval and
\* the answer.
THEOREM LivingAreKept ==
    ASSUME SettleBound(Settle), Timeout >= SendInterval + Latency
    PROVE  Spec => LivingKept
<1>1. Init => KeptInv
  BY InitKept
<1>2. Shape /\ Shape' /\ KeptInv /\ [Next]_vars => KeptInv'
  BY NextKept
<1>3. Shape /\ KeptInv /\ [Next]_vars
        => [CheckTimesOut /\ alive => upFor < Settle \/ putBack]_vars
  <2> SUFFICES ASSUME Shape, KeptInv, CheckTimesOut, alive, ~putBack PROVE upFor < Settle
    OBVIOUS
  <2>1. CASE broker
    <3>1. upFor + Heard < Settle \/ age + Heard <= Timeout
      BY <2>1 DEF KeptInv
    <3>2. age > Timeout
      BY DEF CheckTimesOut
    <3> QED
      BY <3>1, <3>2, HeardTypes, Numbers, ConstantTypes
  <2>2. CASE ~broker
    BY <2>2, ConstantTypes DEF Shape, Links
  <2> QED
    BY <2>1, <2>2
<1> QED
  BY ShapeHolds, <1>1, <1>2, <1>3, PTL DEF Spec, LivingKept

=============================================================================
