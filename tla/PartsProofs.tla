----------------------------- MODULE PartsProofs -----------------------------
(***************************************************************************)
(* Theorems about the modules that MCParts puts together, for any values   *)
(* of their constants, one section for each: DateTime (how far a stamp is  *)
(* off, and what that means for the check), NodeId (the widths of an id),  *)
(* LocalTime (a stamp of several times), Logger (one Logger and one spdlog *)
(* logger), Transport (sessions and wills) and HttpEndpoint (what a server *)
(* reads from a request).                                                  *)
(***************************************************************************)
EXTENDS MCParts, SequenceTheorems, TLAPS

-----------------------------------------------------------------------------
(* DateTime.                                                                *)

\* What the theorems need of division by a positive number.
LEMMA Division ==
    ASSUME NEW t \in Int
    PROVE  /\ Seconds(t) \in Int
           /\ Seconds(t) * Ticks <= t
           /\ t < Seconds(t) * Ticks + Ticks
BY ConstantsAssumption DEF Seconds

\* A multiple of the resolution is one of whole seconds.
LEMMA WholeSeconds ==
    ASSUME NEW s \in Int
    PROVE  s * Ticks \in Int /\ (s * Ticks) % Ticks = 0
BY ConstantsAssumption

\* The two times that mktime chooses from.
LEMMA RoundTrip ==
    ASSUME NEW s \in Int, shift \in Int, NEW r \in MkTime(LocalTime(s))
    PROVE  /\ r \in Int
           /\ r = s \/ (Repeated(s) /\ r \in {s - shift, s + shift})
BY ConstantsAssumption DEF MkTime, LocalTime, Offset, Repeated

-----------------------------------------------------------------------------
StampInv == TypeOK /\ StampsExactOutsideFold

LEMMA NewStamp ==
    ASSUME wall \in Nat, shift \in Int, NEW p \in Now
    PROVE  /\ p \in Int /\ p % Ticks = 0
           /\ LET s == Seconds(wall)
              IN  \/ p = s * Ticks
                  \/ Repeated(s) /\ p \in {(s - shift) * Ticks, (s + shift) * Ticks}
<1>1. PICK r \in MkTime(LocalTime(Seconds(wall))) : p = r * Ticks
  BY DEF Now
<1>2. Seconds(wall) \in Int
  BY Division
<1>3. r \in Int /\ (r = Seconds(wall)
        \/ (Repeated(Seconds(wall)) /\ r \in {Seconds(wall) - shift, Seconds(wall) + shift}))
  BY <1>2, RoundTrip
<1> QED
  BY <1>1, <1>3, WholeSeconds

LEMMA DatabaseKeepsStamps ==
    ASSUME NEW t \in Int
    PROVE  Value(Image(t)) = t
<1>1. Epoch2000 * Ticks \in Int
  BY ConstantsAssumption
<1> QED
  BY <1>1 DEF Value, Image

LEMMA InitStampInv == Init => StampInv
<1> SUFFICES ASSUME Init PROVE StampInv
  OBVIOUS
<1>1. shift \in Int /\ wall = 0 /\ wall \in Nat
  BY ConstantsAssumption DEF Init
<1>2. stamp \in Now /\ taken = wall
  BY DEF Init
<1> QED
  BY <1>1, <1>2, NewStamp, ConstantsAssumption DEF Init, StampInv, TypeOK, StampsExactOutsideFold

LEMMA NextStampInv == StampInv /\ [Next]_vars => StampInv'
<1> SUFFICES ASSUME StampInv, [Next]_vars PROVE StampInv'
  OBVIOUS
<1>1. shift \in Int /\ wall \in Nat /\ shift' = shift
  BY ConstantsAssumption
     DEF StampInv, TypeOK, Next, Tick, Reply, ThroughDatabase, CheckTimesOut, vars
<1>2. CASE Tick
  BY <1>2, ConstantsAssumption
     DEF Tick, StampInv, TypeOK, StampsExactOutsideFold, Seconds, Repeated
<1>3. CASE Reply \/ CheckTimesOut
  <2>1. stamp' \in Now /\ taken' = wall /\ wall' = wall /\ active' \in BOOLEAN
    BY <1>3 DEF Reply, CheckTimesOut
  <2>2. TypeOK'
    BY <1>1, <2>1, NewStamp DEF StampInv, TypeOK
  <2>3. StampsExactOutsideFold'
    BY <1>1, <2>1, NewStamp DEF StampsExactOutsideFold, Repeated, Seconds
  <2> QED
    BY <2>2, <2>3 DEF StampInv
<1>4. CASE ThroughDatabase
  <2>1. stamp' = stamp
    BY <1>4, DatabaseKeepsStamps DEF ThroughDatabase, StampInv, TypeOK
  <2> QED
    BY <1>4, <2>1
       DEF ThroughDatabase, StampInv, TypeOK, StampsExactOutsideFold, Seconds, Repeated
<1>5. CASE UNCHANGED vars
  BY <1>5 DEF vars, StampInv, TypeOK, StampsExactOutsideFold, Seconds, Repeated
<1> QED
  BY <1>2, <1>3, <1>4, <1>5 DEF Next

LEMMA StampInvHolds == Spec => []StampInv
<1> QED
  BY InitStampInv, NextStampInv, PTL DEF Spec

\* Every variable keeps its type, and stamps are of whole seconds.
THEOREM TypeCorrect == Spec => []TypeOK
<1>1. StampInv => TypeOK
  BY DEF StampInv
<1> QED
  BY <1>1, StampInvHolds, PTL

\* A stamp is exact outside the repeated local times, and off by the shift at
\* most inside, whatever way it took through the database.
THEOREM StampsAreExact == Spec => []StampsExactOutsideFold
<1>1. StampInv => StampsExactOutsideFold
  BY DEF StampInv
<1> QED
  BY <1>1, StampInvHolds, PTL

\* Multiplication by the resolution keeps and reflects the order.
LEMMA Order ==
    ASSUME NEW j \in Int, NEW k \in Int
    PROVE  /\ j * Ticks \in Int /\ k * Ticks \in Int
           /\ j <= k => j * Ticks <= k * Ticks
           /\ j * Ticks < k * Ticks => j < k
           /\ (j + k) * Ticks = j * Ticks + k * Ticks
BY ConstantsAssumption

\* Outside the repeated times the check takes no node for silent early.
THEOREM NobodyEarly == Spec => []NoneTimedOutEarly
<1>1. StampInv => NoneTimedOutEarly
  <2> SUFFICES ASSUME StampInv, Silent, ~Repeated(Seconds(taken))
               PROVE  wall - taken > Timeout * Ticks
    BY DEF NoneTimedOutEarly
  <2>1. wall \in Int /\ taken \in Int /\ stamp \in Int
    BY DEF StampInv, TypeOK
  <2> DEFINE s == Seconds(taken)
             age == Seconds(wall - stamp)
  <2>2. stamp = s * Ticks
    BY DEF StampInv, StampsExactOutsideFold
  <2>3. s \in Int /\ taken < s * Ticks + Ticks
    BY <2>1, Division
  <2>4. age \in Int /\ age * Ticks <= wall - stamp
    BY <2>1, Division
  <2>5. Timeout \in Int /\ Timeout + 1 <= age
    BY <2>4, ConstantsAssumption DEF Silent
  <2>6. (Timeout + 1) * Ticks <= age * Ticks
    BY <2>4, <2>5, Order
  <2>7. (Timeout + 1) * Ticks = Timeout * Ticks + Ticks
    BY <2>5, ConstantsAssumption
  <2> HIDE DEF s, age
  <2>8. Timeout * Ticks \in Int /\ age * Ticks \in Int /\ s * Ticks \in Int /\ Ticks \in Int
    BY <2>3, <2>4, <2>5, Order, ConstantsAssumption
  <2> QED
    BY <2>1, <2>2, <2>3, <2>4, <2>6, <2>7, <2>8
<1> QED
  BY <1>1, StampInvHolds, PTL

\* A silent node is found by the first check a second after the timeout, or
\* after the timeout and the shift.
THEOREM SilentIsFound == Spec => []SilentFound
<1>1. StampInv => SilentFound
  <2> DEFINE s == Seconds(taken)
             late == IF Repeated(s) THEN shift ELSE 0
             age == Seconds(wall - stamp)
  <2> SUFFICES ASSUME StampInv, wall - taken >= (Timeout + 1 + late) * Ticks
               PROVE  Silent
    BY DEF SilentFound
  <2>1. wall \in Int /\ taken \in Int /\ stamp \in Int /\ shift \in Int /\ Timeout \in Int
        /\ Ticks \in Int /\ Change \in Int
    BY ConstantsAssumption DEF StampInv, TypeOK
  <2>2. s \in Int /\ s * Ticks <= taken
    BY <2>1, Division
  <2>3. late \in Int
    BY <2>1
  <2>4. stamp <= (s + late) * Ticks
    <3>1. CASE stamp = s * Ticks
      <4>1. 0 <= late
        BY <2>1, <2>2 DEF Repeated
      <4>2. s + late \in Int /\ s <= s + late
        BY <4>1, <2>2, <2>3
      <4> HIDE DEF s, late
      <4>3. s * Ticks <= (s + late) * Ticks
        BY <4>2, <2>2, Order
      <4> QED
        BY <3>1, <4>3
    <3>2. CASE Repeated(s) /\ stamp \in {(s - shift) * Ticks, (s + shift) * Ticks}
      <4>1. late = shift /\ s - shift <= s + shift
        BY <3>2, <2>1, <2>2 DEF Repeated
      <4> QED
        BY <3>2, <4>1, <2>1, <2>2, Order
    <3> QED
      BY <3>1, <3>2 DEF StampInv, StampsExactOutsideFold
  <2>5. age \in Int /\ wall - stamp < age * Ticks + Ticks
    BY <2>1, Division
  <2>6. (s + late) * Ticks = s * Ticks + late * Ticks
    BY <2>2, <2>3, Order
  <2>7. (Timeout + 1 + late) * Ticks = (Timeout + 1) * Ticks + late * Ticks
    BY <2>1, <2>3, Order
  <2>8. (age + 1) * Ticks = age * Ticks + Ticks
    BY <2>1, <2>5, Order
  <2>9. age * Ticks \in Int /\ s * Ticks \in Int /\ late * Ticks \in Int
        /\ (Timeout + 1) * Ticks \in Int /\ (age + 1) * Ticks \in Int
    BY <2>1, <2>2, <2>3, <2>5, Order
  <2> HIDE DEF s, late, age
  <2>10. (Timeout + 1) * Ticks < (age + 1) * Ticks
    BY <2>1, <2>2, <2>4, <2>5, <2>6, <2>7, <2>8, <2>9
  <2>11. Timeout + 1 < age + 1
    BY <2>1, <2>5, <2>10, Order
  <2> QED
    BY <2>1, <2>5, <2>11 DEF Silent, age
<1> QED
  BY <1>1, StampInvHolds, PTL

-----------------------------------------------------------------------------
(* NodeId: the conversions.                                                 *)

LEMMA IdConstants ==
    /\ Half \in Nat /\ Half > 0 /\ Wide \in Nat /\ Wide > 2 * Half
    /\ MaxId \in Nat /\ MaxId < Wide - Half
BY PartsAssumption DEF Ids!ConstantsOK

\* What the theorems need of the remainder.
LEMMA Remainder ==
    ASSUME NEW n \in Nat, n > 0, NEW a \in Int
    PROVE  /\ a % n \in 0..n-1
           /\ a \in 0..n-1 => a % n = a
           /\ a < 0 /\ a >= -n => a % n = a + n
OBVIOUS

\* A cast keeps what fits, and always gives an int.
LEMMA ToIntFits ==
    ASSUME NEW a \in Int
    PROVE  /\ Ids!ToInt(a) \in -Half .. Half - 1
           /\ a \in -Half .. Half - 1 => Ids!ToInt(a) = a
<1>1. 2 * Half \in Nat /\ 2 * Half > 0 /\ a + Half \in Int
  BY IdConstants
<1>2. (a + Half) % (2 * Half) \in 0..2 * Half - 1
  BY <1>1, Remainder
<1>3. a \in -Half .. Half - 1 => (a + Half) % (2 * Half) = a + Half
  <2>1. a \in -Half .. Half - 1 => a + Half \in 0..2 * Half - 1
    BY IdConstants
  <2> QED
    BY <1>1, <2>1, Remainder
<1> QED
  BY <1>2, <1>3, IdConstants DEF Ids!ToInt

\* An id that a node was sent as an int comes back as itself if it fits one: one
\* that does not comes back as less, or as a number that no id reaches.
LEMMA ThereAndBack ==
    ASSUME NEW a \in 1..MaxId
    PROVE  /\ Ids!ToWide(Ids!ToInt(a)) = a <=> a < Half
           /\ Ids!ToWide(Ids!ToInt(a)) \in Int
           /\ Ids!ToWide(Ids!ToInt(a)) <= a \/ Ids!ToWide(Ids!ToInt(a)) > MaxId
<1> DEFINE i == Ids!ToInt(a)
<1>1. i \in -Half .. Half - 1 /\ (a < Half => i = a)
  BY ToIntFits, IdConstants
<1>2. i >= 0 => Ids!ToWide(i) = i
  <2>1. i >= 0 => i \in 0..Wide - 1
    BY <1>1, IdConstants
  <2> QED
    BY <1>1, <2>1, Remainder, IdConstants DEF Ids!ToWide
<1>3. i < 0 => Ids!ToWide(i) = i + Wide
  <2>1. i < 0 => i >= -Wide
    BY <1>1, IdConstants
  <2> QED
    BY <1>1, <2>1, Remainder, IdConstants DEF Ids!ToWide
<1> HIDE DEF i
<1>4. CASE a < Half
  BY <1>1, <1>2, <1>4, IdConstants DEF i
<1>5. CASE a >= Half
  <2>1. i >= 0 => Ids!ToWide(i) < a
    BY <1>1, <1>2, <1>5, IdConstants
  <2>2. i < 0 => Ids!ToWide(i) > MaxId
    BY <1>1, <1>3, IdConstants
  <2>3. Ids!ToWide(i) \in Int
    BY <1>1, <1>2, <1>3, IdConstants
  <2>4. Ids!ToWide(i) < a \/ Ids!ToWide(i) > MaxId
    BY <1>1, <2>1, <2>2
  <2> QED
    BY <1>5, <2>3, <2>4, IdConstants DEF i
<1> QED
  BY <1>4, <1>5, IdConstants

-----------------------------------------------------------------------------
(* NodeId: the nodes.                                                       *)

\* All ids are ids of the sequence, and what a node has got last is one of them,
\* in full or as an int.
IdInv ==
    /\ row \in [Mac -> 0..MaxId] /\ cache \in [Mac -> 0..MaxId]
    /\ posted \in [Mac -> 0..MaxId] /\ about \in [Mac -> 0..MaxId]
    /\ nextId \in 1 .. MaxId + 1 /\ sent \in [Mac -> Int]
    /\ \A m \in Mac : about[m] # 0 => sent[m] \in {about[m], Ids!ToInt(about[m])}

LEMMA InitIdInv == Ids!Init => IdInv
BY IdConstants DEF Ids!Init, IdInv

LEMMA NextIdInv == IdInv /\ [Ids!Next]_(Ids!vars) => IdInv'
<1> SUFFICES ASSUME IdInv, [Ids!Next]_(Ids!vars) PROVE IdInv'
  OBVIOUS
<1> USE IdConstants
<1>1. CASE Ids!SequenceAdvances \/ Ids!RefetchFails \/ Ids!getAllNode
  BY <1>1 DEF Ids!SequenceAdvances, Ids!RefetchFails, Ids!getAllNode, IdInv
<1>2. CASE Ids!Restart
  BY <1>2 DEF Ids!Restart, IdInv
<1>3. ASSUME NEW m \in Mac, Ids!RowGoes(m) PROVE IdInv'
  BY <1>3 DEF Ids!RowGoes, IdInv
<1>4. ASSUME NEW m \in Mac, Ids!AnswerKnown(m) \/ Ids!Refetch(m) PROVE IdInv'
  BY <1>4 DEF Ids!AnswerKnown, Ids!Refetch, IdInv
<1>5. ASSUME NEW m \in Mac, Ids!Save(m) PROVE IdInv'
  BY <1>5 DEF Ids!Save, IdInv
<1>6. ASSUME NEW m \in Mac, Ids!RegisterReply(m) PROVE IdInv'
  <2>1. Ids!ToInt(posted[m]) \in Int
    <3>1. posted[m] \in Int
      BY DEF IdInv
    <3> QED
      BY <3>1, ToIntFits
  <2>2. posted' \in [Mac -> 0..MaxId]
    BY <1>6 DEF Ids!RegisterReply, IdInv
  <2>3. CASE UNCHANGED <<sent, about>>
    BY <1>6, <2>2, <2>3 DEF Ids!RegisterReply, IdInv
  <2>4. CASE /\ sent' = [sent EXCEPT ![m] = Ids!ToInt(posted[m])]
             /\ about' = [about EXCEPT ![m] = posted[m]]
    BY <1>6, <2>1, <2>2, <2>4 DEF Ids!RegisterReply, IdInv
  <2> QED
    BY <1>6, <2>3, <2>4 DEF Ids!RegisterReply
<1>7. ASSUME NEW m \in Mac, Ids!KeepAliveRequest(m) PROVE IdInv'
  BY <1>7 DEF Ids!KeepAliveRequest, IdInv
<1>8. CASE UNCHANGED Ids!vars
  BY <1>8 DEF Ids!vars, IdInv
<1> QED
  BY <1>1, <1>2, <1>3, <1>4, <1>5, <1>6, <1>7, <1>8 DEF Ids!Next

LEMMA IdInvHolds == Ids!Spec => []IdInv
BY InitIdInv, NextIdInv, PTL DEF Ids!Spec

\* What a node answers with is the int of the id that it has got, be it that it
\* got the id in full or cast already.
LEMMA AnswersWithInt ==
    ASSUME IdInv, NEW m \in Mac, about[m] # 0
    PROVE  Ids!ToInt(sent[m]) = Ids!ToInt(about[m])
<1>1. about[m] \in Int
  BY IdConstants DEF IdInv
<1>2. Ids!ToInt(about[m]) \in Int /\ Ids!ToInt(Ids!ToInt(about[m])) = Ids!ToInt(about[m])
  BY <1>1, ToIntFits, IdConstants
<1> QED
  BY <1>2 DEF IdInv

\* Whatever ids the sequence has come to, whichever calls failed and however the
\* reloads fall: a node that has got the id of its entry is found by the reply
\* to the register reply and to the request alike, exactly when the id fits an
\* int.
THEOREM FoundExactlyWhileIdsFit == Ids!Spec => []FoundWhileIdsFit
<1>1. IdInv => FoundWhileIdsFit
  <2> SUFFICES ASSUME IdInv, NEW m \in Mac, cache[m] # 0, about[m] = cache[m]
               PROVE  Ids!Matches(m, Ids!ToInt(sent[m])) <=> cache[m] < Half
    BY DEF FoundWhileIdsFit, Ids!FoundWhileIdsFit
  <2>1. cache[m] \in 1..MaxId
    BY IdConstants DEF IdInv
  <2>2. Ids!ToInt(sent[m]) = Ids!ToInt(cache[m])
    BY AnswersWithInt
  <2> QED
    BY <2>1, <2>2, ThereAndBack DEF Ids!Matches
<1> QED
  BY IdInvHolds, <1>1, PTL

\* Nor does the id of an earlier registration ever find the entry of a later
\* one: what the casts make of it is less, or more than the sequence reaches.
THEOREM EarlierIdsFindNothing == Ids!Spec => []EarlierIdsNotFound
<1>1. IdInv => EarlierIdsNotFound
  <2> SUFFICES ASSUME IdInv, NEW m \in Mac, about[m] # 0, about[m] < cache[m]
               PROVE  ~Ids!Matches(m, Ids!ToInt(sent[m]))
    BY DEF EarlierIdsNotFound, Ids!EarlierIdsNotFound
  <2>1. about[m] \in 1..MaxId /\ cache[m] \in 0..MaxId
    BY IdConstants DEF IdInv
  <2>2. Ids!ToInt(sent[m]) = Ids!ToInt(about[m])
    BY AnswersWithInt
  <2>3. cache[m] # Ids!ToWide(Ids!ToInt(about[m]))
    BY <2>1, ThereAndBack, IdConstants
  <2> QED
    BY <2>2, <2>3 DEF Ids!Matches
<1> QED
  BY IdInvHolds, <1>1, PTL

-----------------------------------------------------------------------------
(* LocalTime.                                                               *)

\* Division by a positive number: quotient and remainder, that nothing else is
\* them, and that a larger number has no smaller quotient.
LEMMA DividedBy ==
    ASSUME NEW d \in Nat \ {0}, NEW s \in Nat
    PROVE  s \div d \in Nat /\ s % d \in 0 .. d - 1 /\ s % d = s - d * (s \div d)
<1>1. s \div d \in Nat /\ s % d \in 0 .. d - 1
  OBVIOUS
<1>2. s % d = s - d * (s \div d)
  OBVIOUS
<1> QED
  BY <1>1, <1>2

LEMMA QuotientIs ==
    ASSUME NEW d \in Nat \ {0}, NEW s \in Nat, NEW q \in Nat, NEW r \in 0 .. d - 1,
           s = d * q + r
    PROVE  s \div d = q /\ s % d = r
OBVIOUS

LEMMA HigherQuotient ==
    ASSUME NEW d \in Nat \ {0}, NEW s \in Nat, NEW u \in Nat, s <= u
    PROVE  s \div d <= u \div d
OBVIOUS

\* An hour is so many minutes.
LEMMA HourOfMinutes ==
    /\ Minute \in Nat \ {0}
    /\ \E k \in Nat \ {0} : Hour = k * Minute
    /\ Hour \in Nat \ {0}
<1>1. Minute \in Nat \ {0} /\ \E k \in 1 .. Hour : Hour = k * Minute
  BY PartsAssumption DEF Local!ConstantsOK
<1>2. PICK k \in 1 .. Hour : Hour = k * Minute
  BY <1>1
<1>3. k \in Nat \ {0} /\ k * Minute \in Nat \ {0}
  BY <1>1, <1>2
<1> QED
  BY <1>1, <1>2, <1>3

\* The fields of a time in a minute that is m minutes after the hour h.
LEMMA FieldsAre ==
    ASSUME NEW k \in Nat \ {0}, Hour = k * Minute, NEW s \in Nat
    PROVE  LET M == s \div Minute
           IN  /\ s \div Hour = M \div k
               /\ (s % Hour) \div Minute = M % k
               /\ s = (M \div k) * Hour + (M % k) * Minute + (s % Minute)
               /\ M \in Nat /\ M \div k \in Nat /\ M % k \in 0 .. k - 1
               /\ s % Minute \in 0 .. Minute - 1
<1> DEFINE M == s \div Minute
           r == s % Minute
           h == M \div k
           m == M % k
<1>1. Minute \in Nat \ {0} /\ Hour \in Nat \ {0}
  BY HourOfMinutes
<1>2. M \in Nat /\ r \in 0 .. Minute - 1 /\ r = s - Minute * M
  BY <1>1, DividedBy
<1>3. h \in Nat /\ m \in 0 .. k - 1 /\ m = M - k * h
  BY <1>2, DividedBy
<1> HIDE DEF M, r, h, m
<1>4. m * Minute + r \in 0 .. Hour - 1
  <2>1. m * Minute \in Nat /\ m * Minute <= (k - 1) * Minute
    BY <1>1, <1>3
  <2>2. (k - 1) * Minute = Hour - Minute
    BY <1>1
  <2> QED
    BY <1>1, <1>2, <2>1, <2>2
<1>5. s = Hour * h + (m * Minute + r)
  <2>1. Minute * M = Minute * (k * h + m)
    BY <1>2, <1>3
  <2>2. Minute * (k * h + m) = Hour * h + m * Minute
    BY <1>1, <1>3
  <2> QED
    BY <1>1, <1>2, <1>3, <1>4, <2>1, <2>2
<1>6. s \div Hour = h /\ s % Hour = m * Minute + r
  BY <1>1, <1>3, <1>4, <1>5, QuotientIs
<1>7. (m * Minute + r) \div Minute = m
  BY <1>1, <1>2, <1>3, <1>4, QuotientIs
<1>8. s = h * Hour + m * Minute + r
  BY <1>1, <1>2, <1>3, <1>5
<1>9. (s % Hour) \div Minute = m
  BY <1>6, <1>7
<1> QED
  <2>1. /\ s \div Hour = h /\ (s % Hour) \div Minute = m /\ s = h * Hour + m * Minute + r
        /\ M \in Nat /\ h \in Nat /\ m \in 0 .. k - 1 /\ r \in 0 .. Minute - 1
    BY <1>2, <1>3, <1>6, <1>8, <1>9
  <2> QED
    BY <2>1, Zenon DEF M, r, h, m

\* The time that a stamp has which takes every field from a time of its own: it
\* is the last of them, where all are in one minute, and in their hour, where
\* all are in one.
LEMMA Mixed ==
    ASSUME NEW lo \in Nat, NEW hi \in Nat,
           NEW s \in lo .. hi, NEW u \in lo .. hi, NEW v \in lo .. hi
    PROVE  LET c == (s \div Hour) * Hour + ((u % Hour) \div Minute) * Minute + (v % Minute)
           IN  /\ lo \div Minute = hi \div Minute => c = v
               /\ lo \div Hour = hi \div Hour => c \div Hour = lo \div Hour
<1> DEFINE c == (s \div Hour) * Hour + ((u % Hour) \div Minute) * Minute + (v % Minute)
<1>1. Minute \in Nat \ {0} /\ Hour \in Nat \ {0}
  BY HourOfMinutes
<1>2. PICK k \in Nat \ {0} : Hour = k * Minute
  BY HourOfMinutes
<1>3. s \in Nat /\ u \in Nat /\ v \in Nat
  OBVIOUS
<1>4. ASSUME lo \div Minute = hi \div Minute PROVE c = v
  <2>1. ASSUME NEW w \in lo .. hi PROVE w \div Minute = lo \div Minute
    <3>1. lo \div Minute <= w \div Minute /\ w \div Minute <= hi \div Minute
      BY <1>1, HigherQuotient
    <3>2. w \div Minute \in Nat /\ lo \div Minute \in Nat
      BY <1>1, DividedBy
    <3> QED
      BY <1>4, <3>1, <3>2
  <2> DEFINE M == lo \div Minute
  <2>2. s \div Minute = M /\ u \div Minute = M /\ v \div Minute = M
    BY <2>1
  <2> HIDE DEF M
  <2>3. s \div Hour = M \div k
    BY <1>2, <1>3, <2>2, FieldsAre
  <2>4. (u % Hour) \div Minute = M % k
    BY <1>2, <1>3, <2>2, FieldsAre
  <2>5. v = (M \div k) * Hour + (M % k) * Minute + (v % Minute)
    BY <1>2, <1>3, <2>2, FieldsAre
  <2> QED
    BY <2>3, <2>4, <2>5, Zenon
<1>5. ASSUME lo \div Hour = hi \div Hour PROVE c \div Hour = lo \div Hour
  <2>1. s \div Hour = lo \div Hour
    <3>1. lo \div Hour <= s \div Hour /\ s \div Hour <= hi \div Hour
      BY <1>1, HigherQuotient
    <3>2. s \div Hour \in Nat /\ lo \div Hour \in Nat
      BY <1>1, DividedBy
    <3> QED
      BY <1>5, <3>1, <3>2
  <2> DEFINE h == s \div Hour
             m == (u % Hour) \div Minute
             r == v % Minute
  <2>2. h \in Nat
    BY <1>1, DividedBy
  <2>3. m \in 0 .. k - 1
    BY <1>2, <1>3, FieldsAre
  <2>4. r \in 0 .. Minute - 1
    BY <1>1, DividedBy
  <2> HIDE DEF h, m, r
  <2>5. m * Minute + r \in 0 .. Hour - 1
    <3>1. m * Minute \in Nat /\ m * Minute <= (k - 1) * Minute
      BY <1>1, <2>3
    <3>2. (k - 1) * Minute = Hour - Minute
      BY <1>1, <1>2
    <3> QED
      BY <1>1, <2>4, <3>1, <3>2
  <2>6. h * Hour + m * Minute + r = Hour * h + (m * Minute + r)
    BY <1>1, <2>2, <2>3, <2>4
  <2>7. h * Hour + m * Minute + r \in Nat
    BY <1>1, <2>2, <2>5, <2>6
  <2>8. (h * Hour + m * Minute + r) \div Hour = h
    BY <1>1, <2>2, <2>5, <2>6, <2>7, QuotientIs
  <2> QED
    BY <2>1, <2>8, Zenon DEF h, m, r
<1> QED
  BY <1>4, <1>5

\* What is in the buffer, and what a thread has read of it, are fields of times
\* between the earliest and the latest since the thread filled it.
Within(t, f, value) == \E s \in from[t] .. to[t] : value = Local!FieldsOf(s)[f]

LocalInv ==
    /\ clock \in Nat /\ sample \in [Thread -> Nat]
    /\ from \in [Thread -> Nat] /\ to \in [Thread -> Nat]
    /\ tpc \in [Thread -> {"idle", "sampled", "filled"}]
    /\ unread \in [Thread -> SUBSET Local!Field]
    /\ fields = [t \in Thread |-> [f \in Local!Field |-> fields[t][f]]]
    /\ \A t \in Thread : tpc[t] = "filled" =>
          /\ \A f \in Local!Field : Within(t, f, buffer[f])
          /\ \A f \in Local!Field \ unread[t] : Within(t, f, fields[t][f])

LEMMA InitLocalInv == Local!Init => LocalInv
<1> SUFFICES ASSUME Local!Init PROVE LocalInv
  OBVIOUS
<1>1. fields = [t \in Thread |-> [f \in Local!Field |-> fields[t][f]]]
  BY DEF Local!Init, Local!Unread
<1> QED
  BY <1>1 DEF Local!Init, LocalInv

\* Whatever the other thread puts into the buffer widens the range.
LEMMA FillWidens ==
    ASSUME LocalInv, NEW t \in Thread, Local!Fill(t), NEW u \in Thread
    PROVE  /\ from'[u] \in Nat /\ to'[u] \in Nat
           /\ sample[t] \in from'[u] .. to'[u]
           /\ u # t => from[u] .. to[u] \subseteq from'[u] .. to'[u]
<1>1. from[u] \in Nat /\ to[u] \in Nat /\ sample[t] \in Nat
  BY DEF LocalInv
<1>2. /\ from'[u] = IF u = t THEN sample[t] ELSE Local!Earlier(from[u], sample[t])
      /\ to'[u] = IF u = t THEN sample[t] ELSE Local!Later(to[u], sample[t])
  BY DEF Local!Fill
<1> QED
  BY <1>1, <1>2 DEF Local!Earlier, Local!Later

LEMMA NextLocalInv == LocalInv /\ [Local!Next]_(Local!vars) => LocalInv'
<1> SUFFICES ASSUME LocalInv, [Local!Next]_(Local!vars) PROVE LocalInv'
  OBVIOUS
<1>1. CASE Local!Tick
  BY <1>1 DEF Local!Tick, LocalInv, Within
<1>2. ASSUME NEW t \in Thread, Local!Sample(t) PROVE LocalInv'
  BY <1>2 DEF Local!Sample, LocalInv, Within
<1>3. ASSUME NEW t \in Thread, Local!Fill(t) PROVE LocalInv'
  <2>1. /\ clock' \in Nat /\ sample' \in [Thread -> Nat]
        /\ tpc' \in [Thread -> {"idle", "sampled", "filled"}]
        /\ unread' \in [Thread -> SUBSET Local!Field]
        /\ fields' = [u \in Thread |-> [f \in Local!Field |-> fields'[u][f]]]
    BY <1>3 DEF Local!Fill, LocalInv
  <2>2. from' \in [Thread -> Nat] /\ to' \in [Thread -> Nat]
    <3>1. from' = [u \in Thread |-> from'[u]] /\ to' = [u \in Thread |-> to'[u]]
      BY <1>3 DEF Local!Fill
    <3> QED
      BY <1>3, <3>1, FillWidens
  <2>3. ASSUME NEW u \in Thread, NEW f \in Local!Field
        PROVE  \E s \in from'[u] .. to'[u] : buffer'[f] = Local!FieldsOf(s)[f]
    <3>1. buffer' = Local!FieldsOf(sample[t])
      BY <1>3 DEF Local!Fill
    <3> QED
      BY <1>3, <3>1, FillWidens
  <2>4. ASSUME NEW u \in Thread, tpc'[u] = "filled", NEW f \in Local!Field \ unread'[u]
        PROVE  \E s \in from'[u] .. to'[u] : fields'[u][f] = Local!FieldsOf(s)[f]
    <3>1. u # t /\ tpc[u] = "filled" /\ f \notin unread[u] /\ fields' = fields
      BY <1>3, <2>4 DEF Local!Fill, LocalInv
    <3>2. Within(u, f, fields[u][f])
      BY <3>1 DEF LocalInv
    <3>3. from[u] .. to[u] \subseteq from'[u] .. to'[u]
      BY <1>3, <3>1, FillWidens
    <3> QED
      BY <3>1, <3>2, <3>3 DEF Within
  <2> QED
    BY <2>1, <2>2, <2>3, <2>4 DEF LocalInv, Within
<1>4. ASSUME NEW t \in Thread, NEW g \in Local!Field, Local!Read(t, g) PROVE LocalInv'
  <2>1. /\ clock' \in Nat /\ sample' \in [Thread -> Nat]
        /\ from' \in [Thread -> Nat] /\ to' \in [Thread -> Nat]
        /\ tpc' \in [Thread -> {"idle", "sampled", "filled"}]
        /\ unread' \in [Thread -> SUBSET Local!Field]
    BY <1>4 DEF Local!Read, LocalInv
  <2>2. fields' = [u \in Thread |-> [f \in Local!Field |-> fields'[u][f]]]
    BY <1>4 DEF Local!Read, LocalInv
  <2>3. ASSUME NEW u \in Thread, tpc'[u] = "filled", NEW f \in Local!Field \ unread'[u]
        PROVE  Within(u, f, fields'[u][f])
    <3>1. CASE u = t /\ f = g
      BY <1>4, <2>3, <3>1 DEF Local!Read, LocalInv
    <3>2. CASE ~(u = t /\ f = g)
      BY <1>4, <2>3, <3>2 DEF Local!Read, LocalInv
    <3> QED
      BY <3>1, <3>2
  <2>4. \A u \in Thread : tpc'[u] = "filled" =>
           /\ \A f \in Local!Field : Within(u, f, buffer'[f])
           /\ \A f \in Local!Field \ unread'[u] : Within(u, f, fields'[u][f])
    BY <1>4, <2>3 DEF Local!Read, LocalInv
  <2>5. from' = from /\ to' = to
    BY <1>4 DEF Local!Read
  <2> QED
    BY <2>1, <2>2, <2>4, <2>5 DEF LocalInv, Within
<1>5. ASSUME NEW t \in Thread, Local!Construct(t) PROVE LocalInv'
  <2>1. /\ clock' \in Nat /\ sample' \in [Thread -> Nat]
        /\ from' \in [Thread -> Nat] /\ to' \in [Thread -> Nat]
        /\ tpc' \in [Thread -> {"idle", "sampled", "filled"}]
        /\ unread' \in [Thread -> SUBSET Local!Field]
    BY <1>5 DEF Local!Construct, LocalInv
  <2>2. fields' = [u \in Thread |-> [f \in Local!Field |-> fields'[u][f]]]
    BY <1>5 DEF Local!Construct, Local!Unread, LocalInv
  <2>3. ASSUME NEW u \in Thread, tpc'[u] = "filled"
        PROVE  /\ u # t /\ tpc[u] = "filled" /\ buffer' = buffer
               /\ from'[u] = from[u] /\ to'[u] = to[u]
               /\ unread'[u] = unread[u] /\ fields'[u] = fields[u]
    BY <1>5, <2>3 DEF Local!Construct, LocalInv
  <2> QED
    BY <2>1, <2>2, <2>3 DEF LocalInv, Within
<1>6. CASE UNCHANGED Local!vars
  BY <1>6 DEF Local!vars, LocalInv, Within
<1> QED
  BY <1>1, <1>2, <1>3, <1>4, <1>5, <1>6 DEF Local!Next

\* However the calls of now() on the threads interleave, and in whatever order
\* each reads the fields: a stamp lies between two times that were in the
\* buffer meanwhile when these are in one minute, and in their hour when they
\* are in one.
THEOREM MixedStampsBounded == Local!Spec => MixBounded
<1> DEFINE Bounded(t) ==
      LET c == Local!Constructed(t)
          lo == from[t]
          hi == to[t]
      IN  /\ lo \div Minute = hi \div Minute => lo <= c /\ c <= hi
          /\ lo \div Hour = hi \div Hour => c \div Hour = lo \div Hour
<1>1. LocalInv => [\A t \in Thread : Local!Construct(t) => Bounded(t)]_(Local!vars)
  <2> SUFFICES ASSUME LocalInv, NEW t \in Thread, Local!Construct(t) PROVE Bounded(t)
    OBVIOUS
  <2>1. from[t] \in Nat /\ to[t] \in Nat
    BY DEF LocalInv
  <2>2. \A f \in Local!Field : Within(t, f, fields[t][f])
    BY DEF LocalInv, Local!Construct
  <2>3. PICK s \in from[t] .. to[t] : fields[t].larger = Local!FieldsOf(s).larger
    BY <2>2 DEF Within, Local!Field
  <2>4. PICK u \in from[t] .. to[t] : fields[t].minute = Local!FieldsOf(u).minute
    BY <2>2 DEF Within, Local!Field
  <2>5. PICK v \in from[t] .. to[t] : fields[t].second = Local!FieldsOf(v).second
    BY <2>2 DEF Within, Local!Field
  <2>6. Local!Constructed(t) =
          (s \div Hour) * Hour + ((u % Hour) \div Minute) * Minute + (v % Minute)
    BY <2>3, <2>4, <2>5 DEF Local!Constructed, Local!Compose, Local!FieldsOf
  <2> QED
    BY <2>1, <2>6, Mixed
<1> QED
  BY InitLocalInv, NextLocalInv, <1>1, PTL DEF Local!Spec, MixBounded, Local!MixBounded

-----------------------------------------------------------------------------
(* Logger.                                                                  *)

Inits == {"logDir", "stampDir", "sinks", "assign", "register"}
LogPlaces == {"idle", "lock", "test", "new", "unlock", "has"} \cup Inits

\* Who tests and makes the instance holds the mutex; what has been made is the
\* instance, it is made when it is not there, and it is what everybody returns.
InstanceInv ==
    /\ lpc \in [Thread -> LogPlaces] /\ mine \in [Thread -> Nat]
    /\ made = mInstance /\ made \in {0, 1}
    /\ \A t \in Thread :
          /\ lpc[t] \in {"test", "new", "unlock"} => mutex = t
          /\ lpc[t] = "new" => mInstance = 0
          /\ lpc[t] = "unlock" => mInstance = 1
          /\ lpc[t] \notin {"idle", "lock", "test", "new", "unlock"} => mine[t] = 1

\* The loggers are numbered by the calls; a thread inside initLogger has its
\* own, and a logger that is kept is registered, or its call is about to be.
LoggerInv ==
    /\ calls \in Nat /\ mAppLogger \in 0..calls /\ registry \in 0..calls
    /\ logger \in [Thread -> 0..calls]
    /\ \A t \in Thread : lpc[t] \in Inits => logger[t] # 0
    /\ registry # 0 => mAppLogger # 0
    /\ \A t \in Thread : lpc[t] = "register" => mAppLogger # 0
    /\ mAppLogger # 0 => registry # 0 \/ \E t \in Thread : lpc[t] = "register"

LEMMA InitLogInv == Log!Init => InstanceInv /\ LoggerInv
BY DEF Log!Init, InstanceInv, LoggerInv, LogPlaces, Inits

LEMMA NextInstanceInv == InstanceInv /\ [Log!Next]_(Log!vars) => InstanceInv'
<1> SUFFICES ASSUME InstanceInv, [Log!Next]_(Log!vars) PROVE InstanceInv'
  OBVIOUS
<1>a. NoThread \notin Thread
  BY PartsAssumption DEF Log!ConstantsOK
<1> USE DEF InstanceInv, LogPlaces, Inits, Log!Goes, Log!instVars, Log!initVars
<1>1. CASE Log!DiskChanges
  BY <1>1 DEF Log!DiskChanges
<1>2. ASSUME NEW t \in Thread, Log!Call(t) PROVE InstanceInv'
  BY <1>2 DEF Log!Call
<1>3. ASSUME NEW t \in Thread, Log!Lock(t) PROVE InstanceInv'
  BY <1>3, <1>a DEF Log!Lock
<1>4. ASSUME NEW t \in Thread, Log!TestInstance(t) PROVE InstanceInv'
  BY <1>4 DEF Log!TestInstance
<1>5. ASSUME NEW t \in Thread, Log!NewInstance(t) PROVE InstanceInv'
  BY <1>5 DEF Log!NewInstance
<1>6. ASSUME NEW t \in Thread, Log!Return(t) PROVE InstanceInv'
  BY <1>6, <1>a DEF Log!Return
<1>7. ASSUME NEW t \in Thread, Log!InitLogger(t) \/ Log!initLogger(t) \/ Log!Leave(t)
      PROVE  InstanceInv'
  BY <1>7
     DEF Log!InitLogger, Log!initLogger, Log!MakeLogDir, Log!MakeStampDir, Log!MakeDir,
         Log!MakeSinks, Log!SinksThrow, Log!Assign, Log!Register, Log!Leave
<1>8. CASE UNCHANGED Log!vars
  BY <1>8 DEF Log!vars
<1> QED
  BY <1>1, <1>2, <1>3, <1>4, <1>5, <1>6, <1>7, <1>8 DEF Log!Next, Log!getInstance

LEMMA NextLoggerInv == InstanceInv /\ LoggerInv /\ [Log!Next]_(Log!vars) => LoggerInv'
<1> SUFFICES ASSUME InstanceInv, LoggerInv, [Log!Next]_(Log!vars) PROVE LoggerInv'
  OBVIOUS
<1>a. lpc \in [Thread -> LogPlaces]
  BY DEF InstanceInv
<1> USE <1>a DEF LoggerInv, LogPlaces, Inits, Log!Goes, Log!instVars, Log!initVars
<1>1. CASE Log!DiskChanges
  BY <1>1 DEF Log!DiskChanges
<1>2. ASSUME NEW t \in Thread, Log!Call(t) \/ Log!getInstance(t) \/ Log!Leave(t)
      PROVE  LoggerInv'
  BY <1>2 DEF Log!Call, Log!getInstance, Log!Lock, Log!TestInstance, Log!NewInstance,
              Log!Return, Log!Leave
<1>3. ASSUME NEW t \in Thread, Log!InitLogger(t) PROVE LoggerInv'
  BY <1>3 DEF Log!InitLogger
<1>4. ASSUME NEW t \in Thread, Log!MakeLogDir(t) \/ Log!MakeStampDir(t) \/ Log!MakeSinks(t)
      PROVE  LoggerInv'
  BY <1>4 DEF Log!MakeLogDir, Log!MakeStampDir, Log!MakeDir, Log!MakeSinks
<1>5. ASSUME NEW t \in Thread, Log!SinksThrow(t) PROVE LoggerInv'
  BY <1>5 DEF Log!SinksThrow
<1>6. ASSUME NEW t \in Thread, Log!Assign(t) PROVE LoggerInv'
  BY <1>6 DEF Log!Assign
<1>7. ASSUME NEW t \in Thread, Log!Register(t) PROVE LoggerInv'
  BY <1>7 DEF Log!Register
<1>8. CASE UNCHANGED Log!vars
  BY <1>8 DEF Log!vars
<1> QED
  BY <1>1, <1>2, <1>3, <1>4, <1>5, <1>6, <1>7, <1>8 DEF Log!Next, Log!initLogger

\* There is one Logger, whatever number of threads ask for it at once.
THEOREM OneInstanceOnly == Log!Spec => []OneInstance
<1>1. InstanceInv => OneInstance
  BY DEF InstanceInv, OneInstance, Log!OneInstance
<1> QED
  BY InitLogInv, NextInstanceInv, <1>1, PTL DEF Log!Spec

\* Between the calls of initLogger the logger that is kept is the one that is
\* registered, unless initLogger has been called more than once.
THEOREM SameLoggerKept == Log!Spec => []SameLogger
<1>1. InstanceInv /\ LoggerInv => SameLogger
  <2> SUFFICES ASSUME InstanceInv, LoggerInv, \A t \in Thread : logger[t] = 0,
                      mAppLogger # registry
               PROVE  registry # 0 /\ calls > 1
    BY DEF SameLogger, Log!SameLogger
  <2>1. registry # 0
    BY DEF LoggerInv, Inits
  <2> QED
    BY <2>1 DEF LoggerInv
<1> QED
  BY InitLogInv, NextInstanceInv, NextLoggerInv, <1>1, PTL DEF Log!Spec

-----------------------------------------------------------------------------
(* Transport.                                                               *)

LEMMA TransportConstants ==
    /\ {"paho_cpp_async_subscribe", "mpd-publisher"} \cap (Setting \cup {Unset}) = {}
    /\ Unset \notin Setting
BY PartsAssumption DEF Mqtt!ConstantsOK

\* The id that goes with a builder that was given this one, or none.
Fits(kind, id, given) ==
    \/ given = {id} /\ id \in Setting \cup {Unset}
    \/ given = {} /\ kind = "subscriber" /\ id = "paho_cpp_async_subscribe"
    \/ given = {} /\ kind = "publisher" /\ id = "mpd-publisher"

\* The builder has the id that it was given, or its default.
BuilderInv ==
    /\ DOMAIN builder = {"kind", "options", "given"}
    /\ builder.kind \in {"subscriber", "publisher"}
    /\ "clientId" \in DOMAIN builder.options
    /\ Fits(builder.kind, builder.options["clientId"], builder.given)

\* The library has the id that the builder had. (Whether a field is replaced of
\* NoClient is not asked where the broker has a session of it.)
Has(c, object, given) ==
    /\ {"kind", "clientId"} \subseteq DOMAIN object
    /\ Fits(object.kind, object.clientId, given)

ClientInv ==
    /\ client = [c \in Client |-> client[c]] /\ asked = [c \in Client |-> asked[c]]
    /\ \A c \in Client : client[c] # NoClient \/ c \in session => Has(c, client[c], asked[c])

\* A client that does not take a session of its own for one has lost it.
SessionInv ==
    /\ session \subseteq Client
    /\ session \ believes \subseteq lost

MqttInv == BuilderInv /\ ClientInv /\ SessionInv

LEMMA InitMqttInv == Mqtt!Init => MqttInv
<1> SUFFICES ASSUME Mqtt!Init PROVE MqttInv
  OBVIOUS
<1>1. BuilderInv
  BY DEF Mqtt!Init, Mqtt!SubscriberDefaults, BuilderInv, Fits
<1>2. ClientInv /\ SessionInv
  BY DEF Mqtt!Init, ClientInv, SessionInv
<1> QED
  BY <1>1, <1>2 DEF MqttInv

\* One client is replaced by an object with the id of its builder, or goes.
LEMMA Replaced ==
    ASSUME ClientInv, NEW c \in Client, NEW object, NEW given,
           client' = [client EXCEPT ![c] = object], asked' = [asked EXCEPT ![c] = given],
           session' \subseteq session,
           object # NoClient \/ c \in session' => Has(c, object, given)
    PROVE  ClientInv'
<1>1. /\ client'[c] = object /\ \A d \in Client \ {c} : client'[d] = client[d]
      /\ asked'[c] = given /\ \A d \in Client \ {c} : asked'[d] = asked[d]
  BY DEF ClientInv
<1>2. client' = [d \in Client |-> client'[d]] /\ asked' = [d \in Client |-> asked'[d]]
  BY DEF ClientInv
<1>3. ASSUME NEW d \in Client, client'[d] # NoClient \/ d \in session'
      PROVE  Has(d, client'[d], asked'[d])
  <2>1. CASE d = c
    BY <1>1, <1>3, <2>1 DEF Has
  <2>2. CASE d # c
    BY <1>1, <1>3, <2>2 DEF ClientInv, Has
  <2> QED
    BY <2>1, <2>2
<1>4. \A d \in Client : (client[d] # NoClient \/ d \in session => Has(d, client[d], asked[d]))'
  BY <1>3 DEF Has
<1> QED
  BY <1>2, <1>4 DEF ClientInv

LEMMA NextBuilderInv == BuilderInv /\ [Mqtt!Next]_(Mqtt!vars) => BuilderInv'
<1> SUFFICES ASSUME BuilderInv, [Mqtt!Next]_(Mqtt!vars) PROVE BuilderInv'
  OBVIOUS
<1>1. CASE Mqtt!NewBuilder
  BY <1>1 DEF Mqtt!NewBuilder, Mqtt!SubscriberDefaults, Mqtt!PublisherDefaults, BuilderInv, Fits
<1>2. ASSUME NEW option \in Settable, NEW value \in Setting \cup {Unset},
             Mqtt!SetOption(option, value)
      PROVE  BuilderInv'
  <2> DEFINE options == [builder.options EXCEPT ![option] = value]
             given == IF option = "clientId" THEN {value} ELSE builder.given
  <2>1. builder' = [[builder EXCEPT !.options = options] EXCEPT !.given = given]
    BY <1>2 DEF Mqtt!SetOption, Mqtt!SetSubscriber, Mqtt!SetPublisher, Mqtt!Set, BuilderInv
  <2>2. /\ "clientId" \in DOMAIN options
        /\ options["clientId"] = IF option = "clientId" THEN value ELSE builder.options["clientId"]
    BY DEF BuilderInv
  <2>3. Fits(builder.kind, options["clientId"], given)
    BY <2>2 DEF BuilderInv, Fits
  <2> HIDE DEF options, given
  <2>4. /\ DOMAIN builder' = {"kind", "options", "given"} /\ builder'.kind = builder.kind
        /\ builder'.options = options /\ builder'.given = given
    BY <2>1 DEF BuilderInv
  <2> QED
    BY <2>2, <2>3, <2>4 DEF BuilderInv, Fits
<1>3. CASE UNCHANGED builder
  BY <1>3 DEF BuilderInv, Fits
<1> QED
  BY <1>1, <1>2, <1>3
     DEF Mqtt!Next, Mqtt!vars, Mqtt!Build, Mqtt!BuildSubscriber, Mqtt!BuildPublisher,
         Mqtt!Built, Mqtt!setTopicHandlerMap, Mqtt!Connect, Mqtt!Breaks, Mqtt!NoticesLoss,
         Mqtt!Destroy, Mqtt!DestroyPublisher, Mqtt!DestroySubscriber, Mqtt!Gone

LEMMA NextClientInv == MqttInv /\ [Mqtt!Next]_(Mqtt!vars) => ClientInv'
<1> SUFFICES ASSUME BuilderInv, ClientInv, SessionInv, [Mqtt!Next]_(Mqtt!vars) PROVE ClientInv'
  BY DEF MqttInv
<1>1. ASSUME NEW c \in Client, Mqtt!BuildSubscriber(c) PROVE ClientInv'
  <2> DEFINE object == Mqtt!NewSubscriber(builder.options)
  <2>1. /\ {"kind", "clientId"} \subseteq DOMAIN object /\ object.kind = "subscriber"
        /\ object.clientId = builder.options["clientId"]
    BY DEF Mqtt!NewSubscriber
  <2>2. Has(c, object, builder.given)
    BY <1>1, <2>1 DEF Has, Mqtt!BuildSubscriber, BuilderInv
  <2> HIDE DEF object
  <2>3. /\ client' = [client EXCEPT ![c] = object] /\ asked' = [asked EXCEPT ![c] = builder.given]
        /\ session' = session
    BY <1>1 DEF Mqtt!BuildSubscriber, Mqtt!Built, object
  <2> QED
    BY <2>2, <2>3, Replaced
<1>2. ASSUME NEW c \in Client, Mqtt!BuildPublisher(c) PROVE ClientInv'
  <2> DEFINE object == Mqtt!NewPublisher(builder.options)
  <2>1. /\ {"kind", "clientId"} \subseteq DOMAIN object /\ object.kind = "publisher"
        /\ object.clientId = builder.options["clientId"]
    BY DEF Mqtt!NewPublisher
  <2>2. Has(c, object, builder.given)
    BY <1>2, <2>1 DEF Has, Mqtt!BuildPublisher, BuilderInv
  <2> HIDE DEF object
  <2>3. /\ client' = [client EXCEPT ![c] = object] /\ asked' = [asked EXCEPT ![c] = builder.given]
        /\ session' = session
    BY <1>2 DEF Mqtt!BuildPublisher, Mqtt!Built, object
  <2> QED
    BY <2>2, <2>3, Replaced
<1>3. ASSUME NEW c \in Client, NEW map \in Setting, Mqtt!setTopicHandlerMap(c, map)
      PROVE  ClientInv'
  <2> DEFINE object == [client[c] EXCEPT !.handlers = map]
  <2>1. Has(c, client[c], asked[c])
    BY <1>3 DEF Mqtt!setTopicHandlerMap, Mqtt!Is, ClientInv
  <2>2. /\ {"kind", "clientId"} \subseteq DOMAIN object
        /\ object.kind = client[c].kind /\ object.clientId = client[c].clientId
    BY <2>1 DEF Has
  <2>3. Has(c, object, asked[c])
    BY <2>1, <2>2 DEF Has
  <2> HIDE DEF object
  <2>4. client' = [client EXCEPT ![c] = object]
    BY <1>3 DEF Mqtt!setTopicHandlerMap, object
  <2>5. asked' = [asked EXCEPT ![c] = asked[c]] /\ session' = session
    BY <1>3 DEF Mqtt!setTopicHandlerMap, Mqtt!connVars, ClientInv
  <2> QED
    BY <2>3, <2>4, <2>5, Replaced
<1>4. ASSUME NEW c \in Client, Mqtt!Destroy(c) PROVE ClientInv'
  <2>1. /\ client' = [client EXCEPT ![c] = NoClient] /\ asked' = [asked EXCEPT ![c] = {}]
        /\ session' = session \ {c}
    BY <1>4 DEF Mqtt!Destroy, Mqtt!DestroyPublisher, Mqtt!DestroySubscriber, Mqtt!Gone
  <2> QED
    BY <2>1, Replaced
<1>5. ASSUME NEW c \in Client, Mqtt!Connect(c) PROVE ClientInv'
  BY <1>5 DEF Mqtt!Connect, ClientInv, Has
<1>6. CASE UNCHANGED <<client, asked>> /\ session' \subseteq session
  BY <1>6 DEF ClientInv, Has
<1> QED
  BY <1>1, <1>2, <1>3, <1>4, <1>5, <1>6
     DEF Mqtt!Next, Mqtt!vars, Mqtt!connVars, Mqtt!Build, Mqtt!NewBuilder, Mqtt!SetOption,
         Mqtt!SetSubscriber, Mqtt!SetPublisher, Mqtt!Set, Mqtt!Breaks, Mqtt!NoticesLoss

LEMMA NextSessionInv == SessionInv /\ [Mqtt!Next]_(Mqtt!vars) => SessionInv'
<1> SUFFICES ASSUME SessionInv, [Mqtt!Next]_(Mqtt!vars) PROVE SessionInv'
  OBVIOUS
<1>1. ASSUME NEW c \in Client, Mqtt!Build(c) PROVE SessionInv'
  BY <1>1 DEF Mqtt!Build, Mqtt!BuildSubscriber, Mqtt!BuildPublisher, Mqtt!Built, SessionInv
<1>2. ASSUME NEW c \in Client, Mqtt!Connect(c) PROVE SessionInv'
  BY <1>2 DEF Mqtt!Connect, SessionInv
<1>3. ASSUME NEW c \in Client, Mqtt!Breaks(c) \/ Mqtt!NoticesLoss(c) PROVE SessionInv'
  BY <1>3 DEF Mqtt!Breaks, Mqtt!NoticesLoss, SessionInv
<1>4. ASSUME NEW c \in Client, Mqtt!Destroy(c) PROVE SessionInv'
  BY <1>4 DEF Mqtt!Destroy, Mqtt!DestroyPublisher, Mqtt!DestroySubscriber, Mqtt!Gone, SessionInv
<1>5. CASE UNCHANGED Mqtt!connVars
  BY <1>5 DEF Mqtt!connVars, SessionInv
<1> QED
  BY <1>1, <1>2, <1>3, <1>4, <1>5
     DEF Mqtt!Next, Mqtt!vars, Mqtt!NewBuilder, Mqtt!SetOption, Mqtt!SetSubscriber,
         Mqtt!SetPublisher, Mqtt!Set, Mqtt!setTopicHandlerMap

LEMMA MqttInvHolds == Mqtt!Spec => []MqttInv
<1>1. MqttInv /\ [Mqtt!Next]_(Mqtt!vars) => MqttInv'
  BY NextBuilderInv, NextClientInv, NextSessionInv DEF MqttInv
<1> QED
  BY InitMqttInv, <1>1, PTL DEF Mqtt!Spec

\* Whatever the builders were given: a client takes the session of another one
\* only where both were given the same id, or none and are of one kind.
THEOREM StrangersDoCoexist == Mqtt!Spec => StrangersCoexist
<1>1. MqttInv /\ [Mqtt!Next]_(Mqtt!vars) =>
         [\A c \in session \ session', d \in session' \ session :
             /\ asked[c] = asked[d]
             /\ asked[c] = {} => client[c].kind = client[d].kind]_(Mqtt!vars)
  <2> SUFFICES ASSUME ClientInv, SessionInv, [Mqtt!Next]_(Mqtt!vars),
                      NEW c \in session \ session', NEW d \in session' \ session
               PROVE  /\ asked[c] = asked[d]
                      /\ asked[c] = {} => client[c].kind = client[d].kind
    BY DEF MqttInv
  <2>1. PICK e \in Client : Mqtt!Connect(e)
    BY DEF Mqtt!Next, Mqtt!vars, Mqtt!connVars, Mqtt!NewBuilder, Mqtt!SetOption,
           Mqtt!SetSubscriber, Mqtt!SetPublisher, Mqtt!Set, Mqtt!Build, Mqtt!BuildSubscriber,
           Mqtt!BuildPublisher, Mqtt!Built, Mqtt!Breaks, Mqtt!NoticesLoss, Mqtt!Destroy,
           Mqtt!DestroyPublisher, Mqtt!DestroySubscriber, Mqtt!Gone, Mqtt!setTopicHandlerMap
  <2>2. d = e /\ c \in Mqtt!Namesakes(d)
    BY <2>1 DEF Mqtt!Connect
  <2>3. c \in Client /\ d \in Client /\ client[c] # NoClient /\ client[d] # NoClient
    BY <2>1, <2>2 DEF Mqtt!Namesakes, Mqtt!Connect
  <2>4. client[c].clientId = client[d].clientId /\ client[c].clientId # Unset
    BY <2>2 DEF Mqtt!Namesakes
  <2>5. /\ Fits(client[c].kind, client[c].clientId, asked[c])
        /\ Fits(client[d].kind, client[d].clientId, asked[d])
    BY <2>3 DEF ClientInv, Has
  <2> QED
    BY <2>4, <2>5, TransportConstants DEF Fits
<1> QED
  BY MqttInvHolds, <1>1, PTL DEF Mqtt!Spec, StrangersCoexist, Mqtt!StrangersCoexist

\* A publisher's will is always that of a lost connection: the destructor
\* disconnects first wherever the broker may have a session that was not lost.
THEOREM WillsOnlyOfTheLost == Mqtt!Spec => WillOnlyWhenLost
<1>1. MqttInv /\ [Mqtt!Next]_(Mqtt!vars) => [wills' \ wills \subseteq lost \cup lost']_(Mqtt!vars)
  <2> SUFFICES ASSUME SessionInv, [Mqtt!Next]_(Mqtt!vars)
               PROVE  wills' \ wills \subseteq lost \cup lost'
    BY DEF MqttInv
  <2>1. ASSUME NEW c \in Client, Mqtt!Connect(c) PROVE wills' \ wills \subseteq lost \cup lost'
    BY <2>1 DEF Mqtt!Connect, Mqtt!WillsOf, SessionInv
  <2>2. ASSUME NEW c \in Client, Mqtt!Breaks(c) PROVE wills' \ wills \subseteq lost \cup lost'
    BY <2>2 DEF Mqtt!Breaks, Mqtt!WillsOf
  <2>3. ASSUME NEW c \in Client, Mqtt!Destroy(c) PROVE wills' \ wills \subseteq lost \cup lost'
    BY <2>3 DEF Mqtt!Destroy, Mqtt!DestroyPublisher, Mqtt!DestroySubscriber, Mqtt!WillsOf,
                SessionInv
  <2>4. CASE wills' \subseteq wills
    BY <2>4
  <2> QED
    BY <2>1, <2>2, <2>3, <2>4
       DEF Mqtt!Next, Mqtt!vars, Mqtt!connVars, Mqtt!NewBuilder, Mqtt!SetOption,
           Mqtt!SetSubscriber, Mqtt!SetPublisher, Mqtt!Set, Mqtt!Build, Mqtt!BuildSubscriber,
           Mqtt!BuildPublisher, Mqtt!Built, Mqtt!NoticesLoss, Mqtt!setTopicHandlerMap
<1> QED
  BY MqttInvHolds, <1>1, PTL DEF Mqtt!Spec, WillOnlyWhenLost, Mqtt!WillOnlyWhenLost

-----------------------------------------------------------------------------
(* HttpEndpoint.                                                            *)

LEMMA HttpConstants ==
    /\ Path \in Seq(Http!Piece)
    /\ Texts \subseteq Seq(Http!Piece)
    /\ Http!ToSet(Names) \subseteq Http!Piece
    /\ "?" \in Http!Piece /\ "&" \in Http!Piece /\ "=" \in Http!Piece
    /\ \A name \in Http!ToSet(Names) : name \notin Http!Separators
    /\ \A i \in 1 .. Len(Path) : Path[i] \notin Http!Separators
<1>1. Http!ConstantsOK
  BY PartsAssumption
<1>2. \A i \in 1 .. Len(Path) : Path[i] \in Http!ToSet(Path)
  BY <1>1, LenProperties DEF Http!ConstantsOK, Http!ToSet
<1> QED
  BY <1>1, <1>2 DEF Http!ConstantsOK, Http!Piece, Http!Separators

\* The pieces of an endpoint to which a pair has been appended.
Laid(t, e, g, a, b, v) ==
    /\ Len(t) = Len(e) + Len(g) + 2 + Len(v)
    /\ \A i \in 1 .. Len(e) : t[i] = e[i]
    /\ \A i \in 1 .. Len(g) : t[Len(e) + i] = g[i]
    /\ t[Len(e) + Len(g) + 1] = a /\ t[Len(e) + Len(g) + 2] = b
    /\ \A i \in 1 .. Len(v) : t[Len(e) + Len(g) + 2 + i] = v[i]

LEMMA Joined ==
    ASSUME NEW S, NEW e \in Seq(S), NEW g \in Seq(S), NEW a \in S, NEW b \in S, NEW v \in Seq(S)
    PROVE  LET t == e \o g \o <<a, b>> \o v IN t \in Seq(S) /\ Laid(t, e, g, a, b, v)
<1> DEFINE eg == e \o g
           t == e \o g \o <<a, b>> \o v
<1>0. Len(e) \in Nat /\ Len(g) \in Nat /\ Len(v) \in Nat
  BY LenProperties
<1>1. /\ eg \in Seq(S) /\ Len(eg) = Len(e) + Len(g)
      /\ \A i \in 1 .. Len(e) + Len(g) : eg[i] = IF i <= Len(e) THEN e[i] ELSE g[i - Len(e)]
  BY ConcatProperties
<1>2. <<a, b>> \in Seq(S) /\ Len(<<a, b>>) = 2 /\ <<a, b>>[1] = a /\ <<a, b>>[2] = b
  OBVIOUS
<1> DEFINE ab == <<a, b>>
<1> HIDE DEF eg, ab
<1>3. /\ eg \o ab \in Seq(S) /\ Len(eg \o ab) = Len(eg) + 2
      /\ \A i \in 1 .. Len(eg) + 2 :
            (eg \o ab)[i] = IF i <= Len(eg) THEN eg[i] ELSE ab[i - Len(eg)]
  BY <1>1, <1>2, ConcatProperties DEF ab
<1> DEFINE egab == eg \o ab
<1>7. /\ egab \in Seq(S) /\ Len(egab) = Len(e) + Len(g) + 2
      /\ \A i \in 1 .. Len(e) + Len(g) + 2 :
            egab[i] = IF i <= Len(e) + Len(g) THEN eg[i] ELSE ab[i - (Len(e) + Len(g))]
  BY <1>1, <1>3
<1> HIDE DEF egab
<1>8. egab \in Seq(S)
  BY <1>7
<1>4. /\ egab \o v \in Seq(S) /\ Len(egab \o v) = Len(egab) + Len(v)
      /\ \A i \in 1 .. Len(egab) + Len(v) :
            (egab \o v)[i] = IF i <= Len(egab) THEN egab[i] ELSE v[i - Len(egab)]
  BY <1>8, ConcatProperties
<1>5. t = egab \o v
  BY DEF egab, eg, ab, t
<1>6. /\ Len(egab) = Len(e) + Len(g) + 2
      /\ \A i \in 1 .. Len(e) : egab[i] = e[i]
      /\ \A i \in 1 .. Len(g) : egab[Len(e) + i] = g[i]
      /\ egab[Len(e) + Len(g) + 1] = a /\ egab[Len(e) + Len(g) + 2] = b
  <2>1. \A i \in 1 .. Len(e) : egab[i] = e[i]
    BY <1>0, <1>1, <1>7
  <2>2. \A i \in 1 .. Len(g) : egab[Len(e) + i] = g[i]
    BY <1>0, <1>1, <1>7
  <2>3. ab[1] = a /\ ab[2] = b
    BY DEF ab
  <2>4. egab[Len(e) + Len(g) + 1] = a /\ egab[Len(e) + Len(g) + 2] = b
    <3> DEFINE n == Len(e) + Len(g)
    <3>1. n \in Nat /\ n + 1 \in 1 .. n + 2 /\ n + 2 \in 1 .. n + 2
      BY <1>0
    <3>2. \A i \in 1 .. n + 2 : egab[i] = IF i <= n THEN eg[i] ELSE ab[i - n]
      BY <1>7
    <3> HIDE DEF n
    <3>3. egab[n + 1] = ab[1]
      <4>1. ~(n + 1 <= n) /\ (n + 1) - n = 1
        BY <3>1
      <4> QED
        BY <3>1, <3>2, <4>1
    <3>4. egab[n + 2] = ab[2]
      <4>1. ~(n + 2 <= n) /\ (n + 2) - n = 2
        BY <3>1
      <4> QED
        BY <3>1, <3>2, <4>1
    <3> QED
      BY <2>3, <3>3, <3>4 DEF n
  <2> QED
    BY <1>7, <2>1, <2>2, <2>4
<1> HIDE DEF t
<1>9. t \in Seq(S) /\ Laid(t, e, g, a, b, v)
  BY <1>0, <1>4, <1>5, <1>6 DEF Laid
<1> QED
  BY <1>9 DEF t

\* A key stands after i, its value before j.
Span(t, i, j) ==
    /\ i \in 1 .. Len(t) - 2 /\ j \in i + 3 .. Len(t) + 1
    /\ t[i] \in Http!Separators /\ t[i + 2] = "="
    /\ j = Len(t) + 1 \/ t[j] = "&"
    /\ \A k \in i + 3 .. j - 1 : t[k] # "&"

Spanned(t, pair) ==
    \E i, j \in Nat : Span(t, i, j) /\ pair = <<t[i + 1], SubSeq(t, i + 3, j - 1)>>

LEMMA QueryBySpan ==
    ASSUME NEW t \in Seq(Http!Piece), NEW pair
    PROVE  pair \in Http!Query(t) <=> Spanned(t, pair)
<1>0. Len(t) \in Nat
  BY LenProperties
<1>1. ASSUME pair \in Http!Query(t)
      PROVE  \E i, j \in Nat : Span(t, i, j) /\ pair = <<t[i + 1], SubSeq(t, i + 3, j - 1)>>
  <2>1. PICK span \in Http!Spans(t) :
          pair = <<t[span[1] + 1], SubSeq(t, span[1] + 3, span[2] - 1)>>
    BY <1>1 DEF Http!Query
  <2>2. Span(t, span[1], span[2])
    BY <1>0, <2>1 DEF Http!Spans, Span
  <2>3. span[1] \in Nat /\ span[2] \in Nat
    BY <1>0, <2>2 DEF Span
  <2> QED
    BY <2>1, <2>2, <2>3
<1>2. ASSUME NEW i \in Nat, NEW j \in Nat, Span(t, i, j),
             pair = <<t[i + 1], SubSeq(t, i + 3, j - 1)>>
      PROVE  pair \in Http!Query(t)
  <2>1. <<i, j>> \in Http!Spans(t)
    BY <1>0, <1>2 DEF Http!Spans, Span
  <2> DEFINE span == <<i, j>>
  <2>2. span[1] = i /\ span[2] = j
    OBVIOUS
  <2> HIDE DEF span
  <2>3. pair = <<t[span[1] + 1], SubSeq(t, span[1] + 3, span[2] - 1)>>
    BY <1>2, <2>2
  <2> QED
    BY <2>1, <2>3 DEF Http!Query, span
<1> QED
  BY <1>1, <1>2 DEF Spanned

LEMMA SamePieces ==
    ASSUME NEW S, NEW v \in Seq(S), NEW t \in Seq(S), NEW n \in Nat, n + Len(v) <= Len(t),
           \A i \in 1 .. Len(v) : t[n + i] = v[i]
    PROVE  SubSeq(t, n + 1, n + Len(v)) = v
<1> DEFINE m == Len(v)
           u == SubSeq(t, n + 1, n + m)
<1>1. m \in Nat /\ Len(t) \in Nat
  BY LenProperties
<1>2. \A i \in n + 1 .. n + m : t[i] \in S
  BY <1>1, ElementOfSeq
<1>3. n + 1 \in Int /\ n + m \in Int /\ (n + m) - (n + 1) + 1 = m
  BY <1>1
<1> HIDE DEF m
<1>4. /\ u \in Seq(S) /\ Len(u) = IF n + 1 <= n + m THEN (n + m) - (n + 1) + 1 ELSE 0
      /\ \A i \in 1 .. (n + m) - (n + 1) + 1 : u[i] = t[(n + 1) + i - 1]
  BY <1>2, <1>3, SubSeqProperties
<1>5. Len(u) = m
  BY <1>1, <1>3, <1>4
<1>6. ASSUME NEW i \in 1 .. m PROVE u[i] = v[i]
  <2>1. (n + 1) + i - 1 = n + i
    BY <1>1
  <2>2. u[i] = t[n + i]
    BY <1>3, <1>4, <2>1
  <2> QED
    BY <2>2 DEF m
<1> HIDE DEF u
<1> QED
  BY <1>4, <1>5, <1>6, SeqEqual DEF m, u

LEMMA SubSeqOfBoth ==
    ASSUME NEW S, NEW e \in Seq(S), NEW t \in Seq(S), Len(e) <= Len(t),
           \A k \in 1 .. Len(e) : t[k] = e[k],
           NEW i \in Nat \ {0}, NEW j \in Nat, j <= Len(e)
    PROVE  SubSeq(t, i, j) = SubSeq(e, i, j)
<1>0. Len(e) \in Nat /\ Len(t) \in Nat
  BY LenProperties
<1> DEFINE u == SubSeq(e, i, j)
           w == SubSeq(t, i, j)
<1>1. \A k \in i .. j : e[k] \in S /\ t[k] \in S /\ t[k] = e[k]
  BY <1>0, ElementOfSeq
<1>2. /\ u \in Seq(S) /\ Len(u) = (IF i <= j THEN j - i + 1 ELSE 0)
      /\ \A k \in 1 .. j - i + 1 : u[k] = e[i + k - 1]
  BY <1>1, SubSeqProperties
<1>3. /\ w \in Seq(S) /\ Len(w) = (IF i <= j THEN j - i + 1 ELSE 0)
      /\ \A k \in 1 .. j - i + 1 : w[k] = t[i + k - 1]
  BY <1>1, SubSeqProperties
<1> HIDE DEF u, w
<1>4. ASSUME NEW k \in 1 .. Len(w) PROVE w[k] = u[k]
  <2>1. k \in 1 .. j - i + 1 /\ i + k - 1 \in i .. j
    BY <1>3
  <2> QED
    BY <1>1, <1>2, <1>3, <2>1
<1>5. w = u
  BY <1>2, <1>3, <1>4, SeqEqual
<1> QED
  BY <1>5 DEF u, w

\* Without a separator before its last piece, a target holds no pair.
LEMMA NoPair ==
    ASSUME NEW e \in Seq(Http!Piece), \A i \in 1 .. Len(e) - 1 : e[i] \notin Http!Separators
    PROVE  Http!Query(e) = {}
<1>0. Len(e) \in Nat
  BY LenProperties
<1>1. \A i, j \in Nat : ~Span(e, i, j)
  BY <1>0 DEF Span
<1>2. \A pair : pair \notin Http!Query(e)
  BY <1>1, QueryBySpan DEF Spanned
<1> QED
  BY <1>2

\* A pair behind the question mark, which has place n, is the only one.
First(t, n, m, name, v) ==
    /\ t \in Seq(Http!Piece) /\ n \in Nat \ {0} /\ m \in Nat /\ name \notin Http!Separators
    /\ v \in Seq(Http!Piece) /\ Len(v) = m /\ \A i \in 1 .. m : v[i] \notin Http!Separators
    /\ Len(t) = n + 2 + m
    /\ \A i \in 1 .. n - 1 : t[i] \notin Http!Separators
    /\ t[n] = "?" /\ t[n + 1] = name /\ t[n + 2] = "="
    /\ \A i \in 1 .. m : t[n + 2 + i] = v[i]

LEMMA FirstPair ==
    ASSUME NEW t, NEW n, NEW m, NEW name, NEW v, First(t, n, m, name, v)
    PROVE  Http!Query(t) = {<<name, v>>}
<1> USE DEF First
<1>5. \A k \in n + 3 .. n + 2 + m : t[k] \notin Http!Separators
  <2> SUFFICES ASSUME NEW k \in n + 3 .. n + 2 + m PROVE t[k] \notin Http!Separators
    OBVIOUS
  <2>1. k - n - 2 \in 1 .. m /\ n + 2 + (k - n - 2) = k
    OBVIOUS
  <2> QED
    BY <2>1
<1>6. Span(t, n, n + 3 + m)
  BY <1>5 DEF Span, Http!Separators
<1>7. ASSUME NEW i \in Nat, NEW j \in Nat, Span(t, i, j) PROVE i = n /\ j = n + 3 + m
  <2>1. t[i] \in Http!Separators /\ i \in 1 .. n + m
    BY <1>7 DEF Span
  <2>2. i = n
    <3>1. ~(i < n)
      BY <2>1
    <3>2. i # n + 1 /\ i # n + 2
      BY <2>1 DEF Http!Separators
    <3>3. ~(i >= n + 3)
      BY <1>5, <2>1
    <3> QED
      BY <2>1, <3>1, <3>2, <3>3
  <2>3. j \in n + 3 .. n + 3 + m /\ (j = n + 3 + m \/ t[j] = "&")
    BY <1>7, <2>2 DEF Span
  <2> QED
    BY <1>5, <2>2, <2>3 DEF Http!Separators
<1>8. SubSeq(t, n + 3, n + 3 + m - 1) = v
  <2>1. n + 2 \in Nat /\ n + 2 + 1 = n + 3 /\ n + 2 + m = n + 3 + m - 1
    OBVIOUS
  <2>2. SubSeq(t, n + 2 + 1, n + 2 + m) = v
    BY <2>1, SamePieces
  <2> QED
    BY <2>1, <2>2
<1>9. ASSUME NEW pair PROVE pair \in Http!Query(t) <=> pair = <<name, v>>
  <2>1. pair \in Http!Query(t) <=> Spanned(t, pair)
    BY QueryBySpan
  <2>2. <<t[n + 1], SubSeq(t, n + 3, n + 3 + m - 1)>> = <<name, v>>
    BY <1>8
  <2>3. ASSUME pair = <<name, v>> PROVE pair \in Http!Query(t)
    <3>1. n \in Nat /\ n + 3 + m \in Nat
      OBVIOUS
    <3> QED
      BY <1>6, <2>1, <2>2, <2>3, <3>1 DEF Spanned
  <2>4. ASSUME pair \in Http!Query(t) PROVE pair = <<name, v>>
    <3>1. PICK i, j \in Nat : Span(t, i, j) /\ pair = <<t[i + 1], SubSeq(t, i + 3, j - 1)>>
      BY <2>1, <2>4 DEF Spanned
    <3>2. i = n /\ j = n + 3 + m
      BY <1>7, <3>1
    <3> QED
      BY <2>2, <3>1, <3>2
  <2> QED
    BY <2>3, <2>4
<1> QED
  BY <1>9

\* An "&" and a pair behind the n pieces of a target that does not end in a
\* separator: the pairs that were there stay as they are, and it joins them.
Further(e, t, n, m, name, v) ==
    /\ e \in Seq(Http!Piece) /\ t \in Seq(Http!Piece) /\ n \in Nat \ {0} /\ m \in Nat
    /\ name \notin Http!Separators
    /\ v \in Seq(Http!Piece) /\ Len(v) = m /\ \A i \in 1 .. m : v[i] \notin Http!Separators
    /\ Len(e) = n /\ e[n] \notin Http!Separators
    /\ Len(t) = n + 3 + m
    /\ \A i \in 1 .. n : t[i] = e[i]
    /\ t[n + 1] = "&" /\ t[n + 2] = name /\ t[n + 3] = "="
    /\ \A i \in 1 .. m : t[n + 3 + i] = v[i]

LEMMA NextPair ==
    ASSUME NEW e, NEW t, NEW n, NEW m, NEW name, NEW v, Further(e, t, n, m, name, v)
    PROVE  Http!Query(t) = Http!Query(e) \cup {<<name, v>>}
<1> USE DEF Further
<1>1. \A k \in n + 4 .. n + 3 + m : t[k] \notin Http!Separators
  <2> SUFFICES ASSUME NEW k \in n + 4 .. n + 3 + m PROVE t[k] \notin Http!Separators
    OBVIOUS
  <2>1. k - n - 3 \in 1 .. m /\ n + 3 + (k - n - 3) = k
    OBVIOUS
  <2> QED
    BY <2>1
<1>2. Span(t, n + 1, n + 4 + m)
  BY <1>1 DEF Span, Http!Separators
<1>3. ASSUME NEW i \in Nat, NEW j \in Nat, Span(e, i, j) PROVE Span(t, i, j)
  <2>1. i \in 1 .. n - 2 /\ j \in i + 3 .. n + 1 /\ i + 2 \in 1 .. n
    BY <1>3 DEF Span
  <2>2. t[i] \in Http!Separators /\ t[i + 2] = "="
    BY <1>3, <2>1 DEF Span
  <2>3. t[j] = "&"
    <3>1. CASE j = n + 1
      BY <3>1
    <3>2. CASE j # n + 1
      <4>1. e[j] = "&" /\ j \in 1 .. n
        BY <1>3, <2>1, <3>2 DEF Span
      <4> QED
        BY <4>1
    <3> QED
      BY <3>1, <3>2
  <2>4. ASSUME NEW k \in i + 3 .. j - 1 PROVE t[k] # "&"
    <3>1. k \in 1 .. n
      BY <2>1
    <3> QED
      BY <1>3, <3>1 DEF Span
  <2> QED
    BY <2>1, <2>2, <2>3, <2>4 DEF Span
<1>4. ASSUME NEW i \in Nat, NEW j \in Nat, Span(t, i, j), i < n PROVE Span(e, i, j)
  <2>1. t[i] \in Http!Separators /\ t[i + 2] = "=" /\ i \in 1 .. n - 1
    BY <1>4 DEF Span
  <2>2. i # n - 1
    <3>1. i = n - 1 => i + 2 = n + 1
      OBVIOUS
    <3> QED
      BY <2>1, <3>1
  <2>3. i \in 1 .. n - 2 /\ i + 2 \in 1 .. n
    BY <2>1, <2>2
  <2>4. e[i] \in Http!Separators /\ e[i + 2] = "="
    BY <2>1, <2>3
  <2>5. j >= i + 3 /\ j <= n + 1
    <3>1. n + 1 \in i + 3 .. j - 1 => t[n + 1] # "&"
      BY <1>4 DEF Span
    <3>2. j >= i + 3
      BY <1>4 DEF Span
    <3> QED
      BY <2>3, <3>1, <3>2
  <2>6. j = n + 1 \/ e[j] = "&"
    <3>1. t[j] = "&"
      BY <1>4, <2>5 DEF Span
    <3>2. j # n + 1 => j \in 1 .. n
      BY <2>5
    <3> QED
      BY <3>1, <3>2
  <2>7. ASSUME NEW k \in i + 3 .. j - 1 PROVE e[k] # "&"
    <3>1. k \in 1 .. n
      BY <2>5
    <3> QED
      BY <1>4, <3>1 DEF Span
  <2> QED
    BY <2>3, <2>4, <2>5, <2>6, <2>7 DEF Span
<1>5. ASSUME NEW i \in Nat, NEW j \in Nat, Span(t, i, j), i >= n
      PROVE  i = n + 1 /\ j = n + 4 + m
  <2>1. t[i] \in Http!Separators /\ i <= n + 1 + m
    BY <1>5 DEF Span
  <2>2. i = n + 1
    <3>1. i # n
      BY <2>1
    <3>2. i # n + 2 /\ i # n + 3
      BY <2>1 DEF Http!Separators
    <3>3. ~(i >= n + 4)
      BY <1>1, <2>1
    <3> QED
      BY <1>5, <3>1, <3>2, <3>3
  <2>3. j \in n + 4 .. n + 4 + m /\ (j = n + 4 + m \/ t[j] = "&")
    BY <1>5, <2>2 DEF Span
  <2> QED
    BY <1>1, <2>2, <2>3 DEF Http!Separators
<1>6. <<t[n + 1 + 1], SubSeq(t, n + 1 + 3, n + 4 + m - 1)>> = <<name, v>>
  <2>1. n + 3 \in Nat /\ n + 3 + 1 = n + 1 + 3 /\ n + 3 + m = n + 4 + m - 1
    OBVIOUS
  <2>2. SubSeq(t, n + 3 + 1, n + 3 + m) = v
    BY <2>1, SamePieces
  <2>3. n + 1 + 1 = n + 2
    OBVIOUS
  <2> QED
    BY <2>1, <2>2, <2>3
<1>7. ASSUME NEW i \in Nat, NEW j \in Nat, Span(e, i, j)
      PROVE  <<t[i + 1], SubSeq(t, i + 3, j - 1)>> = <<e[i + 1], SubSeq(e, i + 3, j - 1)>>
  <2>1. i + 1 \in 1 .. n /\ i + 3 \in Nat \ {0} /\ j - 1 \in Nat /\ j - 1 <= n
    BY <1>7 DEF Span
  <2>2. SubSeq(t, i + 3, j - 1) = SubSeq(e, i + 3, j - 1)
    BY <2>1, SubSeqOfBoth
  <2> QED
    BY <2>1, <2>2
<1>8. ASSUME NEW pair
      PROVE  pair \in Http!Query(t) <=> pair \in Http!Query(e) \/ pair = <<name, v>>
  <2>1. /\ pair \in Http!Query(t) <=> Spanned(t, pair)
        /\ pair \in Http!Query(e) <=> Spanned(e, pair)
    BY QueryBySpan
  <2>2. ASSUME pair = <<name, v>> PROVE Spanned(t, pair)
    <3>1. n + 1 \in Nat /\ n + 4 + m \in Nat
      OBVIOUS
    <3> QED
      BY <1>2, <1>6, <2>2, <3>1 DEF Spanned
  <2>3. ASSUME Spanned(e, pair) PROVE Spanned(t, pair)
    <3>1. PICK i, j \in Nat : Span(e, i, j) /\ pair = <<e[i + 1], SubSeq(e, i + 3, j - 1)>>
      BY <2>3 DEF Spanned
    <3>2. Span(t, i, j) /\ pair = <<t[i + 1], SubSeq(t, i + 3, j - 1)>>
      BY <1>3, <1>7, <3>1
    <3> QED
      BY <3>2 DEF Spanned
  <2>4. ASSUME Spanned(t, pair) PROVE Spanned(e, pair) \/ pair = <<name, v>>
    <3>1. PICK i, j \in Nat : Span(t, i, j) /\ pair = <<t[i + 1], SubSeq(t, i + 3, j - 1)>>
      BY <2>4 DEF Spanned
    <3>2. CASE i < n
      <4>1. Span(e, i, j)
        BY <1>4, <3>1, <3>2
      <4> QED
        BY <1>7, <3>1, <4>1 DEF Spanned
    <3>3. CASE i >= n
      <4>1. i = n + 1 /\ j = n + 4 + m
        BY <1>5, <3>1, <3>3
      <4> QED
        BY <1>6, <3>1, <4>1
    <3> QED
      BY <3>2, <3>3
  <2> QED
    BY <2>1, <2>2, <2>3, <2>4
<1> QED
  BY <1>8

\* What the loop has put together: a server would read from it the pairs of the
\* keys that are done, and can tell the next one from what is there.
ReadsSoFar ==
    /\ Http!Query(endpoint) = {<<name, param[name]>> : name \in DOMAIN param \ rest}
    /\ \/ /\ Len(endpoint) = Len(Path) + 1 /\ endpoint[Len(Path) + 1] = "?"
          /\ \A i \in 1 .. Len(Path) : endpoint[i] \notin Http!Separators
          /\ rest = DOMAIN param
       \/ /\ Len(endpoint) > Len(Path) + 1
          /\ endpoint[Len(endpoint)] \notin Http!Separators

HttpInv ==
    /\ hpc \in {"idle", "loop", "sent"}
    /\ endpoint \in Seq(Http!Piece) /\ param \in Http!RequestParam
    /\ hpc = "sent" /\ DOMAIN param = {} => endpoint = Path
    /\ hpc = "loop" \/ (hpc = "sent" /\ DOMAIN param # {}) =>
          /\ DOMAIN param # {} /\ rest \subseteq DOMAIN param
          /\ hpc = "sent" => rest = {}
          /\ Len(endpoint) > Len(Path)
          /\ Http!Plain(param) => ReadsSoFar

LEMMA ParamsAre ==
    ASSUME NEW p \in Http!RequestParam, NEW name \in DOMAIN p
    PROVE  /\ name \in Http!Piece /\ name \notin Http!Separators
           /\ p[name] \in Seq(Http!Piece)
           /\ Http!Plain(p) => \A i \in 1 .. Len(p[name]) : p[name][i] \notin Http!Separators
<1>1. name \in Http!ToSet(Names) /\ p[name] \in Texts
  BY DEF Http!RequestParam
<1>2. p[name] \in Seq(Http!Piece)
  BY <1>1, HttpConstants
<1>3. DOMAIN p[name] = 1 .. Len(p[name])
  BY <1>2, LenProperties
<1>4. ASSUME Http!Plain(p), NEW i \in 1 .. Len(p[name]) PROVE p[name][i] \notin Http!Separators
  <2>1. p[name][i] \in Http!ToSet(p[name])
    BY <1>3 DEF Http!ToSet
  <2> QED
    BY <1>4, <2>1 DEF Http!Plain
<1> QED
  BY <1>1, <1>2, <1>4, HttpConstants

LEMMA InitHttpInv == Http!Init => HttpInv
<1>1. Http!NoParam \in Http!RequestParam
  BY DEF Http!NoParam, Http!RequestParam
<1> QED
  BY <1>1 DEF Http!Init, HttpInv

\* One turn of the loop.
LEMMA PairReads ==
    ASSUME HttpInv, hpc = "loop", Http!Plain(param), NEW name \in rest
    PROVE  LET t == Http!WithPair(name)
           IN  /\ Http!Query(t) = Http!Query(endpoint) \cup {<<name, param[name]>>}
               /\ t[Len(t)] \notin Http!Separators
<1> DEFINE t == Http!WithPair(name)
           v == param[name]
           n == Len(endpoint)
           m == Len(v)
           g == IF Http!First THEN <<>> ELSE <<"&">>
<1>1. /\ name \in Http!Piece /\ name \notin Http!Separators /\ v \in Seq(Http!Piece)
      /\ \A i \in 1 .. m : v[i] \notin Http!Separators
  BY ParamsAre DEF HttpInv
<1>2. endpoint \in Seq(Http!Piece) /\ n \in Nat \ {0} /\ m \in Nat /\ Len(Path) \in Nat
  BY <1>1, HttpConstants, LenProperties DEF HttpInv
<1>3. g \in Seq(Http!Piece) /\ Len(g) = (IF Http!First THEN 0 ELSE 1)
      /\ (~Http!First => g[1] = "&")
  BY HttpConstants
<1>4. t = endpoint \o g \o <<name, "=">> \o v
  BY DEF Http!WithPair
<1>5. "=" \in Http!Piece /\ "=" \notin Http!Separators
  BY HttpConstants DEF Http!Separators
<1> HIDE DEF t, v, g
<1>6. /\ t \in Seq(Http!Piece) /\ Len(t) = n + Len(g) + 2 + m
      /\ \A i \in 1 .. n : t[i] = endpoint[i]
      /\ \A i \in 1 .. Len(g) : t[n + i] = g[i]
      /\ t[n + Len(g) + 1] = name /\ t[n + Len(g) + 2] = "="
      /\ \A i \in 1 .. m : t[n + Len(g) + 2 + i] = v[i]
  <2>1. t \in Seq(Http!Piece) /\ Laid(t, endpoint, g, name, "=", v)
    BY <1>1, <1>2, <1>3, <1>4, <1>5, Joined
  <2> QED
    BY <2>1 DEF Laid
<1>7. t[Len(t)] \notin Http!Separators
  <2> DEFINE k == n + Len(g) + 2
  <2>1. k \in Nat /\ Len(t) = k + m /\ t[k] = "=" /\ \A i \in 1 .. m : t[k + i] = v[i]
    BY <1>2, <1>3, <1>6
  <2> HIDE DEF k
  <2>2. CASE m = 0
    BY <1>5, <2>1, <2>2
  <2>3. CASE m # 0
    BY <1>1, <1>2, <2>1, <2>3
  <2> QED
    BY <2>2, <2>3
<1>8. CASE Http!First
  <2>1. /\ n = Len(Path) + 1 /\ endpoint[n] = "?"
        /\ \A i \in 1 .. n - 1 : endpoint[i] \notin Http!Separators
    BY <1>2, <1>8 DEF HttpInv, ReadsSoFar, Http!First
  <2>2. Http!Query(endpoint) = {}
    BY <1>2, <2>1, NoPair
  <2>3. /\ Len(t) = n + 2 + m
        /\ \A i \in 1 .. n - 1 : t[i] \notin Http!Separators
        /\ t[n] = "?" /\ t[n + 1] = name /\ t[n + 2] = "="
        /\ \A i \in 1 .. m : t[n + 2 + i] = v[i]
    BY <1>2, <1>3, <1>6, <1>8, <2>1
  <2>4. t \in Seq(Http!Piece)
    BY <1>6
  <2> HIDE DEF n, m
  <2>5. Http!Query(t) = {<<name, v>>}
    <3>1. First(t, n, m, name, v)
      BY <1>1, <1>2, <2>3, <2>4 DEF First, m
    <3> QED
      BY <3>1, FirstPair
  <2> QED
    BY <1>7, <2>2, <2>5 DEF t, v
<1>9. CASE ~Http!First
  <2>1. endpoint[n] \notin Http!Separators
    BY <1>9 DEF HttpInv, ReadsSoFar, Http!First
  <2>2. Len(g) = 1 /\ g[1] = "&"
    BY <1>3, <1>9
  <2>3. /\ Len(t) = n + 3 + m
        /\ \A i \in 1 .. n : t[i] = endpoint[i]
        /\ t[n + 1] = "&" /\ t[n + 2] = name /\ t[n + 3] = "="
        /\ \A i \in 1 .. m : t[n + 3 + i] = v[i]
    BY <1>2, <1>6, <2>2
  <2>4. t \in Seq(Http!Piece)
    BY <1>6
  <2> HIDE DEF n, m
  <2>5. Http!Query(t) = Http!Query(endpoint) \cup {<<name, v>>}
    <3>1. Further(endpoint, t, n, m, name, v)
      BY <1>1, <1>2, <2>1, <2>3, <2>4 DEF Further, n, m
    <3> QED
      BY <3>1, NextPair
  <2> QED
    BY <1>7, <2>5 DEF t, v
<1> QED
  BY <1>8, <1>9

LEMMA ReadsTheSame ==
    ASSUME ReadsSoFar, UNCHANGED <<endpoint, param, rest>>
    PROVE  ReadsSoFar'
<1>1. Http!Query(endpoint)' = Http!Query(endpoint)
  BY DEF Http!Query, Http!Spans
<1>2. {<<name, param[name]>> : name \in DOMAIN param \ rest}' =
         {<<name, param[name]>> : name \in DOMAIN param \ rest}
  OBVIOUS
<1> QED
  BY <1>1, <1>2 DEF ReadsSoFar

LEMMA NextHttpInv == HttpInv /\ [Http!Next]_(Http!vars) => HttpInv'
<1> SUFFICES ASSUME HttpInv, [Http!Next]_(Http!vars) PROVE HttpInv'
  OBVIOUS
<1>1. CASE Http!requestHttpGET \/ Http!requestHttpPOST \/ Http!Returns
  <2>1. Http!NoParam \in Http!RequestParam /\ DOMAIN Http!NoParam = {}
    BY DEF Http!NoParam, Http!RequestParam
  <2>2. param' = Http!NoParam /\ hpc' \in {"idle", "sent"}
        /\ endpoint' \in {Path, <<>>} /\ (hpc' = "sent" => endpoint' = Path)
    BY <1>1 DEF Http!requestHttpGET, Http!requestHttpPOST, Http!Returns
  <2>3. endpoint' \in Seq(Http!Piece)
    <3>1. Path \in Seq(Http!Piece) /\ <<>> \in Seq(Http!Piece)
      BY HttpConstants, EmptySeq
    <3> QED
      BY <2>2, <3>1
  <2> QED
    BY <2>1, <2>2, <2>3 DEF HttpInv
<1>2. ASSUME NEW p \in Http!RequestParam, Http!requestHttpGETWithParam(p) PROVE HttpInv'
  <2>1. CASE DOMAIN p = {}
    BY <1>2, <2>1, HttpConstants DEF Http!requestHttpGETWithParam, HttpInv
  <2>2. CASE DOMAIN p # {}
    <3>1. /\ hpc' = "loop" /\ param' = p /\ rest' = DOMAIN p
          /\ endpoint' = Append(Path, "?")
      BY <1>2, <2>2 DEF Http!requestHttpGETWithParam
    <3> DEFINE e == Append(Path, "?")
    <3>2. /\ e \in Seq(Http!Piece) /\ Len(e) = Len(Path) + 1 /\ e[Len(Path) + 1] = "?"
          /\ \A i \in 1 .. Len(Path) : e[i] = Path[i]
      BY HttpConstants, AppendProperties
    <3> HIDE DEF e
    <3>3. \A i \in 1 .. Len(Path) : e[i] \notin Http!Separators
      BY <3>2, HttpConstants
    <3>4. Len(Path) \in Nat
      BY HttpConstants, LenProperties
    <3>5. Http!Query(e) = {}
      <4>1. \A i \in 1 .. Len(e) - 1 : e[i] \notin Http!Separators
        BY <3>2, <3>3, <3>4
      <4> QED
        BY <3>2, <4>1, NoPair
    <3>6. endpoint' = e
      BY <3>1 DEF e
    <3>7. ReadsSoFar'
      <4>1. Http!Query(endpoint)' = {}
        BY <3>5, <3>6 DEF Http!Query, Http!Spans
      <4>2. {<<name, param[name]>> : name \in DOMAIN param \ rest}' = {}
        BY <3>1
      <4> QED
        BY <3>1, <3>2, <3>3, <3>6, <4>1, <4>2 DEF ReadsSoFar
    <3>8. Len(endpoint') > Len(Path)
      BY <3>2, <3>4, <3>6
    <3> QED
      BY <1>2, <2>2, <3>1, <3>2, <3>6, <3>7, <3>8 DEF HttpInv
  <2> QED
    BY <2>1, <2>2
<1>3. ASSUME hpc = "loop", NEW name \in rest, endpoint' = Http!WithPair(name),
             rest' = rest \ {name}, UNCHANGED <<hpc, method, param>>
      PROVE  HttpInv'
  <2>1. name \in DOMAIN param /\ param \in Http!RequestParam
    BY <1>3 DEF HttpInv
  <2>2. Len(Path) \in Nat /\ Len(endpoint) \in Nat /\ Len(endpoint) > Len(Path)
    BY <1>3, HttpConstants, LenProperties DEF HttpInv
  <2>3. endpoint' \in Seq(Http!Piece) /\ Len(endpoint') > Len(Path) + 1
    <3> DEFINE g == IF Http!First THEN <<>> ELSE <<"&">>
               v == param[name]
    <3>1. g \in Seq(Http!Piece) /\ endpoint \in Seq(Http!Piece) /\ v \in Seq(Http!Piece)
          /\ name \in Http!Piece /\ "=" \in Http!Piece
      BY <2>1, HttpConstants, ParamsAre DEF HttpInv
    <3>2. endpoint' = endpoint \o g \o <<name, "=">> \o v
      BY <1>3 DEF Http!WithPair
    <3>3. Len(g) \in Nat /\ Len(v) \in Nat
      BY <3>1, LenProperties
    <3> HIDE DEF g, v
    <3>4. endpoint' \in Seq(Http!Piece) /\ Laid(endpoint', endpoint, g, name, "=", v)
      BY <3>1, <3>2, Joined
    <3> QED
      BY <2>2, <3>3, <3>4 DEF Laid
  <2>4. ASSUME Http!Plain(param)' PROVE ReadsSoFar'
    <3> DEFINE t == Http!WithPair(name)
    <3>1. Http!Plain(param)
      BY <1>3, <2>4 DEF Http!Plain
    <3>2. /\ Http!Query(t) = Http!Query(endpoint) \cup {<<name, param[name]>>}
          /\ t[Len(t)] \notin Http!Separators
      BY <1>3, <3>1, PairReads
    <3>3. Http!Query(endpoint) = {<<k, param[k]>> : k \in DOMAIN param \ rest}
      BY <1>3, <3>1 DEF HttpInv, ReadsSoFar
    <3> HIDE DEF t
    <3>4. Http!Query(t) = {<<k, param[k]>> : k \in DOMAIN param \ (rest \ {name})}
      BY <1>3, <2>1, <3>2, <3>3
    <3>5. endpoint' = t
      BY <1>3 DEF t
    <3>6. Http!Query(endpoint)' = Http!Query(t)
      BY <3>5 DEF Http!Query, Http!Spans
    <3>7. {<<k, param[k]>> : k \in DOMAIN param \ rest}' =
             {<<k, param[k]>> : k \in DOMAIN param \ (rest \ {name})}
      BY <1>3
    <3> QED
      BY <2>3, <3>2, <3>4, <3>5, <3>6, <3>7 DEF ReadsSoFar
  <2> QED
    BY <1>3, <2>1, <2>2, <2>3, <2>4 DEF HttpInv
<1>4. CASE Http!Sends
  BY <1>4, ReadsTheSame DEF Http!Sends, HttpInv, Http!Plain
<1>5. CASE UNCHANGED Http!vars
  BY <1>5, ReadsTheSame DEF Http!vars, HttpInv, Http!Plain
<1> QED
  BY <1>1, <1>2, <1>3, <1>4, <1>5 DEF Http!Next, Http!getEndpointWithRequestParam

\* Whatever the endpoint, the keys and the values are: where no value has a
\* separator in it, a server reads from the request the parameters it was given.
THEOREM ServersReadParams == Http!Spec => []ServerReadsParams
<1>1. HttpInv => ServerReadsParams
  <2> SUFFICES ASSUME HttpInv, hpc = "sent", Http!Plain(param)
               PROVE  /\ Http!Query(endpoint) = {<<name, param[name]>> : name \in DOMAIN param}
                      /\ DOMAIN param = {} <=> endpoint = Path
    BY DEF ServerReadsParams, Http!ServerReadsParams
  <2>0. Path \in Seq(Http!Piece) /\ Len(Path) \in Nat
    BY HttpConstants, LenProperties
  <2>1. CASE DOMAIN param = {}
    <3>1. endpoint = Path
      BY <2>1 DEF HttpInv
    <3>2. \A i \in 1 .. Len(Path) - 1 : Path[i] \notin Http!Separators
      BY <2>0, HttpConstants
    <3>3. Http!Query(Path) = {}
      BY <2>0, <3>2, NoPair
    <3> QED
      BY <2>1, <3>1, <3>3
  <2>2. CASE DOMAIN param # {}
    <3>1. rest = {} /\ ReadsSoFar /\ Len(endpoint) > Len(Path)
      BY <2>2 DEF HttpInv
    <3>2. Http!Query(endpoint) = {<<name, param[name]>> : name \in DOMAIN param}
      BY <3>1 DEF ReadsSoFar
    <3>3. endpoint # Path
      BY <2>0, <3>1
    <3> QED
      BY <2>2, <3>2, <3>3
  <2> QED
    BY <2>1, <2>2
<1> QED
  BY InitHttpInv, NextHttpInv, <1>1, PTL DEF Http!Spec

=============================================================================
