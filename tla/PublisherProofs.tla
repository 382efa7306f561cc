--------------------------- MODULE PublisherProofs ---------------------------
(***************************************************************************)
(* Theorems about Publisher, for any number of nodes and replies: the      *)
(* types, and the refinement of LossyFifo.                                 *)
(***************************************************************************)
EXTENDS Publisher, SequenceTheorems, TLAPS

\* The replies that are pending grow from the wire over the message of
\* publish() to the posted ones, and all of them are later than the last that
\* arrived.
OrderInv ==
    /\ got <= sent
    /\ \A i \in 1..Len(wire) :
          /\ wire[i] # Request => got < wire[i] /\ wire[i] <= sent
          /\ \A j \in 1..Len(wire) :
                i < j /\ wire[i] # Request /\ wire[j] # Request => wire[i] < wire[j]
    /\ msg # Request => /\ got < msg /\ msg <= sent
                        /\ \A i \in 1..Len(wire) : wire[i] < msg
    /\ \A k \in 1..Len(events) :
          /\ got < events[k] /\ events[k] <= sent /\ msg < events[k]
          /\ \A i \in 1..Len(wire) : wire[i] < events[k]
          /\ \A l \in 1..Len(events) : k < l => events[k] < events[l]

IInv == TypeOK /\ OrderInv

-----------------------------------------------------------------------------
LEMMA Numbers ==
    /\ Request \in Message /\ Reply \subseteq Message /\ Reply \subseteq Nat \ {Request}
    /\ Message \subseteq Nat
BY ConstantsAssumption DEF Request, Reply, Message

\* The elements of a sequence without its first, and with one more.
LEMMA TailElements ==
    ASSUME NEW S, NEW s \in Seq(S), s # <<>>
    PROVE  /\ Head(s) \in S /\ Tail(s) \in Seq(S)
           /\ Len(s) \in Nat \ {0} /\ Len(Tail(s)) = Len(s) - 1 /\ Head(s) = s[1]
           /\ \A i \in 1..Len(Tail(s)) : i + 1 \in 1..Len(s) /\ Tail(s)[i] = s[i + 1]
OBVIOUS

LEMMA AppendElements ==
    ASSUME NEW S, NEW s \in Seq(S), NEW e \in S
    PROVE  /\ Append(s, e) \in Seq(S) /\ Len(Append(s, e)) = Len(s) + 1 /\ Len(s) \in Nat
           /\ \A i \in 1..Len(s) : Append(s, e)[i] = s[i] /\ s[i] \in S
           /\ Append(s, e)[Len(s) + 1] = e
OBVIOUS

LEMMA InitInv == Init => IInv
BY ConstantsAssumption DEF Init, IInv, TypeOK, OrderInv, Request, Message, Reply

LEMMA NextInv == IInv /\ [Next]_vars => IInv'
<1> SUFFICES ASSUME IInv, [Next]_vars PROVE IInv'  OBVIOUS
<1> USE DEF IInv
<1>t. msg \in Message /\ wire \in Seq(Message) /\ events \in Seq(Reply)
  BY DEF TypeOK
<1>0. /\ sent \in Nat /\ got \in Nat /\ msg \in Nat /\ Request = 0
      /\ Len(wire) \in Nat /\ \A i \in 1..Len(wire) : wire[i] \in Nat
      /\ Len(events) \in Nat /\ \A i \in 1..Len(events) : events[i] \in Nat \ {0}
  <2>1. \A i \in 1..Len(wire) : wire[i] \in Message  BY <1>t
  <2>2. \A i \in 1..Len(events) : events[i] \in Reply  BY <1>t
  <2>3. Request = 0  BY DEF Request
  <2>4. \A m \in Message : m \in Nat  BY Numbers
  <2>5. \A m \in Reply : m \in Nat \ {0}  BY Numbers, <2>3
  <2>6. sent \in Nat /\ got \in Nat  BY ConstantsAssumption DEF TypeOK
  <2>7. Len(wire) \in Nat /\ Len(events) \in Nat  BY <1>t
  <2> QED  BY <1>t, <2>1, <2>2, <2>3, <2>4, <2>5, <2>6, <2>7
<1>1. ASSUME UNCHANGED <<events, msg, wire, sent, got>>
      PROVE  OrderInv'
  BY <1>1 DEF OrderInv
<1>2. CASE BrokerGoes \/ BrokerReturns \/ ConnectionBreaks
  BY <1>1, <1>2 DEF BrokerGoes, BrokerReturns, ConnectionBreaks, mainVars, TypeOK
<1>3. CASE ConnectionLost
  <2>1. OrderInv'  BY <1>3 DEF ConnectionLost, mainVars, OrderInv
  <2> QED  BY <1>3, <2>1 DEF ConnectionLost, mainVars, TypeOK
<1>4. CASE Deliver
  <2>1. /\ wire # <<>> /\ wire' = Tail(wire) /\ UNCHANGED <<events, msg, sent>>
        /\ got' = IF Head(wire) = Request THEN got ELSE Head(wire)
        /\ session = "open" /\ UNCHANGED <<broker, session, slot, pc>>
    BY <1>4 DEF Deliver, mainVars
  <2>2. /\ Head(wire) \in Message /\ Tail(wire) \in Seq(Message)
        /\ Len(wire) \in Nat \ {0} /\ Len(wire') = Len(wire) - 1 /\ Head(wire) = wire[1]
        /\ \A i \in 1..Len(wire') : i + 1 \in 1..Len(wire) /\ wire'[i] = wire[i + 1]
    BY <1>t, <2>1, TailElements
  <2>3. got <= got' /\ got' <= sent
        /\ (got' = got \/ (got' = wire[1] /\ wire[1] # Request))
    BY <1>0, <2>1, <2>2 DEF OrderInv
  <2>4. got' \in 0..MaxReply
    BY <2>1, <2>2, ConstantsAssumption DEF TypeOK, Message, Request, Reply
  <2>5. TypeOK'  BY <2>1, <2>2, <2>4 DEF TypeOK
  <2>6. ASSUME NEW i \in 1..Len(wire')
        PROVE  /\ i + 1 \in 1..Len(wire) /\ wire'[i] = wire[i + 1] /\ wire'[i] \in Nat
               /\ wire'[i] # Request => got' < wire'[i] /\ wire'[i] <= sent
    <3>1. i \in Nat /\ 1 < i + 1 /\ 1 \in 1..Len(wire) /\ i + 1 \in 1..Len(wire)
          /\ wire'[i] = wire[i + 1] /\ wire'[i] \in Nat
      BY <1>0, <2>2
    <3>2. ASSUME wire[i + 1] # Request
          PROVE  /\ got < wire[i + 1] /\ wire[i + 1] <= sent
                 /\ wire[1] # Request => wire[1] < wire[i + 1]
      BY <3>1, <3>2 DEF OrderInv
    <3> QED  BY <2>3, <3>1, <3>2
  <2>7. \A i, j \in 1..Len(wire') :
           i < j /\ wire'[i] # Request /\ wire'[j] # Request => wire'[i] < wire'[j]
    <3> SUFFICES ASSUME NEW i \in 1..Len(wire'), NEW j \in 1..Len(wire'), i < j,
                        wire'[i] # Request, wire'[j] # Request
                 PROVE  wire'[i] < wire'[j]
      OBVIOUS
    <3>1. i + 1 < j + 1  BY <1>0, <2>2
    <3> QED  BY <2>6, <3>1 DEF OrderInv
  <2>8. msg # Request => /\ got' < msg /\ msg <= sent
                         /\ \A i \in 1..Len(wire') : wire'[i] < msg
    <3>1. 1 \in 1..Len(wire)  BY <2>2
    <3> QED  BY <2>3, <2>6, <3>1 DEF OrderInv
  <2>9. ASSUME NEW k \in 1..Len(events)
        PROVE  /\ got' < events[k] /\ events[k] <= sent /\ msg < events[k]
               /\ \A i \in 1..Len(wire') : wire'[i] < events[k]
               /\ \A l \in 1..Len(events) : k < l => events[k] < events[l]
    <3>1. 1 \in 1..Len(wire)  BY <2>2
    <3> QED  BY <2>3, <2>6, <3>1 DEF OrderInv
  <2> QED  BY <2>1, <2>3, <2>5, <2>6, <2>7, <2>8, <2>9 DEF OrderInv
<1>5. CASE EmitReply
  <2>1. /\ sent' = sent + 1 /\ events' = Append(events, sent') /\ sent' \in Reply
        /\ UNCHANGED <<broker, session, slot, pc, msg, wire, got>>
    BY <1>5, ConstantsAssumption DEF EmitReply, TypeOK, Reply
  <2>2. /\ events' \in Seq(Reply) /\ Len(events') = Len(events) + 1 /\ Len(events) \in Nat
        /\ \A i \in 1..Len(events) : events'[i] = events[i]
        /\ events'[Len(events) + 1] = sent'
    BY <1>t, <2>1, AppendElements
  <2>3. sent' \in 0..MaxReply  BY <2>1, ConstantsAssumption DEF Reply
  <2>4. TypeOK'  BY <2>1, <2>2, <2>3 DEF TypeOK
  <2>5. ASSUME NEW k \in 1..Len(events')
        PROVE  /\ got < events'[k] /\ events'[k] <= sent' /\ msg < events'[k]
               /\ \A i \in 1..Len(wire) : wire[i] < events'[k]
               /\ \A l \in 1..Len(events') : k < l => events'[k] < events'[l]
    <3>0. sent < sent + 1 /\ \A l \in Nat : l <= sent => l < sent + 1  BY <1>0
    <3>1. CASE k = Len(events) + 1
      <4>1. msg <= sent /\ \A i \in 1..Len(wire) : wire[i] <= sent
        BY <1>0 DEF OrderInv
      <4>2. events'[k] = sent + 1  BY <2>1, <2>2, <3>1
      <4>3. ~\E l \in 1..Len(events') : k < l  BY <2>2, <3>1
      <4> QED  BY <1>0, <2>1, <3>0, <4>1, <4>2, <4>3 DEF OrderInv
    <3>2. CASE k \in 1..Len(events)
      <4>1. events'[k] = events[k]  BY <2>2, <3>2
      <4>2. got < events[k] /\ events[k] <= sent /\ msg < events[k]
            /\ \A i \in 1..Len(wire) : wire[i] < events[k]
        BY <3>2 DEF OrderInv
      <4>3. ASSUME NEW l \in 1..Len(events'), k < l
            PROVE  events'[k] < events'[l]
        <5>1. CASE l = Len(events) + 1
          BY <1>0, <2>1, <2>2, <3>0, <3>2, <4>1, <4>2, <5>1
        <5>2. CASE l \in 1..Len(events)
          BY <2>2, <3>2, <4>1, <4>3, <5>2 DEF OrderInv
        <5> QED  BY <2>2, <5>1, <5>2
      <4>4. events[k] <= sent'  BY <1>0, <2>1, <3>0, <3>2, <4>2
      <4> QED  BY <4>1, <4>2, <4>3, <4>4
    <3> QED  BY <2>2, <3>1, <3>2
  <2> QED  BY <1>0, <2>1, <2>4, <2>5 DEF OrderInv
<1>6. CASE ConnectAtStart
  BY <1>1, <1>6 DEF ConnectAtStart, TypeOK
<1>7. CASE SendTimer
  BY <1>1, <1>7, ConstantsAssumption DEF SendTimer, TypeOK
<1>8. CASE PublishRequest
  <2>1. TypeOK'  BY <1>8, Numbers, ConstantsAssumption DEF PublishRequest, TypeOK
  <2>2. OrderInv'  BY <1>0, <1>8 DEF PublishRequest, OrderInv, Request
  <2> QED  BY <2>1, <2>2
<1>9. CASE PublishReply
  <2>1. /\ events # <<>> /\ events' = Tail(events) /\ msg' = Head(events) /\ pc' = "check"
        /\ UNCHANGED <<broker, session, slot, wire, sent, got>>
    BY <1>9 DEF PublishReply
  <2>2. /\ Head(events) \in Reply /\ Tail(events) \in Seq(Reply)
        /\ Len(events) \in Nat \ {0} /\ Len(events') = Len(events) - 1
        /\ Head(events) = events[1]
        /\ \A i \in 1..Len(events') : i + 1 \in 1..Len(events) /\ events'[i] = events[i + 1]
    BY <1>t, <2>1, TailElements
  <2>3. TypeOK'  BY <2>1, <2>2, Numbers DEF TypeOK
  <2>4. /\ got < msg' /\ msg' <= sent /\ \A i \in 1..Len(wire) : wire[i] < msg'
    BY <2>1, <2>2 DEF OrderInv
  <2>5. \A k \in 1..Len(events') :
          /\ got < events'[k] /\ events'[k] <= sent /\ msg' < events'[k]
          /\ \A i \in 1..Len(wire) : wire[i] < events'[k]
          /\ \A l \in 1..Len(events') : k < l => events'[k] < events'[l]
    BY <1>0, <2>1, <2>2 DEF OrderInv
  <2> QED  BY <2>1, <2>3, <2>4, <2>5 DEF OrderInv
<1>10. CASE Check \/ ConnectSucceeds \/ ConnectFails
  BY <1>1, <1>10 DEF Check, ConnectSucceeds, ConnectFails, TypeOK
<1>11. CASE Hand
  <2>1. /\ wire' = (IF IsConnected THEN Append(wire, msg) ELSE wire)
        /\ pc' = "idle" /\ msg' = Request
        /\ UNCHANGED <<broker, session, slot, events, sent, got>>
    BY <1>11 DEF Hand
  <2>2. CASE ~IsConnected
    <3>1. TypeOK'  BY <2>1, <2>2, Numbers DEF TypeOK, IsConnected
    <3>2. \A k \in 1..Len(events) : 0 < events[k]  BY <1>0
    <3> QED  BY <1>0, <2>1, <2>2, <3>1, <3>2 DEF OrderInv
  <2>3. CASE IsConnected
    <3>1. /\ wire' \in Seq(Message) /\ Len(wire') = Len(wire) + 1 /\ Len(wire) \in Nat
          /\ \A i \in 1..Len(wire) : wire'[i] = wire[i]
          /\ wire'[Len(wire) + 1] = msg
      BY <1>t, <2>1, <2>3, AppendElements
    <3>2. TypeOK'  BY <2>1, <2>3, <3>1, Numbers DEF TypeOK, IsConnected
    <3>3. ASSUME NEW i \in 1..Len(wire')
          PROVE  /\ wire'[i] # Request => got < wire'[i] /\ wire'[i] <= sent
                 /\ \A j \in 1..Len(wire') : i < j /\ wire'[i] # Request /\ wire'[j] # Request
                        => wire'[i] < wire'[j]
      <4>1. CASE i = Len(wire) + 1  BY <1>0, <3>1, <4>1 DEF OrderInv
      <4>2. CASE i \in 1..Len(wire)
        <5>1. wire'[i] = wire[i]  BY <3>1, <4>2
        <5>2. wire[i] # Request => got < wire[i] /\ wire[i] <= sent
          BY <4>2 DEF OrderInv
        <5>3. ASSUME NEW j \in 1..Len(wire'), i < j, wire[i] # Request, wire'[j] # Request
              PROVE  wire[i] < wire'[j]
          <6>1. CASE j = Len(wire) + 1  BY <3>1, <4>2, <5>3, <6>1 DEF OrderInv
          <6>2. CASE j \in 1..Len(wire)  BY <3>1, <4>2, <5>3, <6>2 DEF OrderInv
          <6> QED  BY <3>1, <6>1, <6>2
        <5> QED  BY <5>1, <5>2, <5>3
      <4> QED  BY <3>1, <4>1, <4>2
    <3>4. \A k \in 1..Len(events) : \A i \in 1..Len(wire') : wire'[i] < events[k]
      BY <1>0, <3>1 DEF OrderInv
    <3>5. \A k \in 1..Len(events) : Request < events[k]
      BY <1>0 DEF Request
    <3> QED  BY <2>1, <3>2, <3>3, <3>4, <3>5 DEF OrderInv
  <2> QED  BY <2>2, <2>3
<1>12. CASE UNCHANGED vars
  BY <1>1, <1>12 DEF vars, mainVars, TypeOK
<1> QED
  BY <1>2, <1>3, <1>4, <1>5, <1>6, <1>7, <1>8, <1>9, <1>10, <1>11, <1>12
     DEF Next, Publishes

LEMMA Invariance == Spec => []IInv
<1> QED  BY InitInv, NextInv, PTL DEF Spec

\* Every variable keeps its type, and no message is on its way over a session
\* that is known to be gone.
THEOREM TypeCorrect == Spec => []TypeOK
<1>1. IInv => TypeOK  BY DEF IInv
<1> QED  BY <1>1, Invariance, PTL

\* The replies reach the broker in the order of their emission and at most
\* once, for any number of them and any outages.
THEOREM RefinesFifo == Spec => ImplementsFifo
<1>1. Init => Fifo!Init  BY DEF Init, Fifo!Init
<1>2. IInv /\ [Next]_vars => [Fifo!Next]_(Fifo!vars)
  <2> SUFFICES ASSUME IInv, [Next]_vars
               PROVE  [Fifo!Next]_(Fifo!vars)
    OBVIOUS
  <2>1. CASE EmitReply
    BY <2>1 DEF EmitReply, Fifo!Next, Fifo!Emit
  <2>2. CASE Deliver
    <3>1. CASE Head(wire) = Request  BY <2>2, <3>1 DEF Deliver, Fifo!vars
    <3>2. CASE Head(wire) # Request
      <4>1. wire # <<>> /\ wire \in Seq(Message) /\ sent \in Nat /\ got \in Nat
        BY <2>2, ConstantsAssumption DEF Deliver, IInv, TypeOK
      <4>2. Head(wire) = wire[1] /\ 1 \in 1..Len(wire) /\ Head(wire) \in Message
        BY <4>1, TailElements
      <4>3. got < Head(wire) /\ Head(wire) <= sent
        BY <3>2, <4>2 DEF IInv, OrderInv
      <4>4. got' = Head(wire) /\ sent' = sent  BY <2>2, <3>2 DEF Deliver
      <4>5. \A m \in Message : m \in Nat  BY Numbers
      <4>6. got' \in got + 1 .. sent  BY <4>1, <4>2, <4>3, <4>4, <4>5
      <4> QED  BY <4>4, <4>6 DEF Fifo!Next, Fifo!Arrive
    <3> QED  BY <3>1, <3>2
  <2>3. CASE UNCHANGED <<sent, got>>  BY <2>3 DEF Fifo!vars
  <2> QED
    BY <2>1, <2>2, <2>3
       DEF Next, Publishes, BrokerGoes, BrokerReturns, ConnectionBreaks, ConnectionLost,
           ConnectAtStart, SendTimer, PublishRequest, PublishReply, Check,
           ConnectSucceeds, ConnectFails, Hand, vars
<1> QED  BY <1>1, <1>2, Invariance, PTL DEF Spec, ImplementsFifo, Fifo!Spec

=============================================================================
