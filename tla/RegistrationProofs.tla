-------------------------- MODULE RegistrationProofs --------------------------
(***************************************************************************)
(* Theorems about Registration: types, the order of reload and reply, and  *)
(* the refinement of NodeRegistry, for any nodes and bounds.               *)
(***************************************************************************)
EXTENDS Registration, SequenceTheorems, TLAPS

-----------------------------------------------------------------------------
(* The event queue.                                                         *)

\* What Append and Tail leave at each place of a sequence.
LEMMA Places ==
    ASSUME NEW S, NEW s \in Seq(S), NEW e \in S
    PROVE  /\ Append(s, e) \in Seq(S)
           /\ Len(Append(s, e)) = Len(s) + 1
           /\ \A i \in 1..Len(s) : Append(s, e)[i] = s[i]
           /\ Append(s, e)[Len(s) + 1] = e
           /\ s # <<>> => /\ Tail(s) \in Seq(S)
                          /\ Head(s) = s[1] /\ Head(s) \in S
                          /\ Len(Tail(s)) = Len(s) - 1
                          /\ \A i \in 1..Len(Tail(s)) : Tail(s)[i] = s[i + 1]
  OBVIOUS

-----------------------------------------------------------------------------
(* Type correctness.                                                        *)

\* The events are as declared, and their kinds can be told apart.
LEMMA EventTypes ==
    /\ Reload \in Event /\ Error \in Event
    /\ \A m \in Mac : \A i \in Nat \ {0} : Reply(m, i) \in Event
    /\ \A e \in Event : e.call = "publish" => e.mac \in Mac /\ e.id \in Nat \ {0}
BY DEF Event, Reload, Error, Reply

\* Type correctness is inductive when the row that was saved is known to be
\* there: the id refetched is then not 0.
TypeInv ==
    /\ TypeOK
    /\ pc = "refetch" => table[mac] # 0
    /\ pc = "signal" => nodeId # 0

LEMMA InitTypeInv == Init => TypeInv
<1> SUFFICES ASSUME Init PROVE TypeInv
  OBVIOUS
<1>1. table \in [Mac -> Nat] /\ nextId \in Nat \ {0} /\ told \in [Mac -> SUBSET Nat]
  BY DEF Init
<1>2. up \in BOOLEAN /\ loading \in BOOLEAN
  BY DEF Init
<1>3. crashes \in 0..MaxCrashes /\ faults \in 0..MaxFaults /\ events \in Seq(Event)
  BY ConstantsAssumption DEF Init, ConstantsAssumption
<1> QED
  BY <1>1, <1>2, <1>3 DEF Init, TypeInv, TypeOK

LEMMA NextTypeInv == TypeInv /\ [Next]_vars => TypeInv'
<1> SUFFICES ASSUME TypeInv, [Next]_vars PROVE TypeInv'
  OBVIOUS
<1> USE ConstantsAssumption, EventTypes
    DEF TypeInv, TypeOK, ConstantsAssumption, Rows, callVars, mainVars, Fault, Due
<1>1. ASSUME NEW m \in Mac, RegisterArrives(m) PROVE TypeInv'
  BY <1>1 DEF RegisterArrives
<1>2. CASE BadRegisterArrives
  BY <1>2 DEF BadRegisterArrives
<1>3. CASE FindKnown
  BY <1>3 DEF FindKnown
<1>4. CASE FindUnknown
  BY <1>4 DEF FindUnknown
<1>5. CASE FindFails
  BY <1>5 DEF FindFails
<1>6. CASE Save
  BY <1>6 DEF Save
<1>7. CASE SaveFails
  BY <1>7 DEF SaveFails
<1>8. CASE Refetch
  BY <1>8 DEF Refetch
<1>9. CASE RefetchFails
  BY <1>9 DEF RefetchFails
<1>10. CASE EmitNewNode
  BY <1>10, Places DEF EmitNewNode
<1>11. CASE EmitReply
  BY <1>11, Places DEF EmitReply
<1>12. CASE EmitError
  BY <1>12, Places DEF EmitError
<1>13. CASE ReloadQuery
  BY <1>13, Places DEF ReloadQuery
<1>14. CASE ReloadAssign
  BY <1>14 DEF ReloadAssign
<1>15. CASE PublishReply
  BY <1>15, Places DEF PublishReply
<1>16. CASE PublishError
  BY <1>16, Places DEF PublishError
<1>17. CASE ReplyDropped
  BY <1>17, Places DEF ReplyDropped
<1>18. CASE Crash
  <2>1. up' \in BOOLEAN /\ loading' \in BOOLEAN
    BY <1>18 DEF Crash
  <2>2. crashes' \in 0..MaxCrashes /\ events' \in Seq(Event)
    BY <1>18 DEF Crash
  <2> QED
    BY <1>18, <2>1, <2>2 DEF Crash
<1>19. CASE Restart
  BY <1>19 DEF Restart
<1>20. CASE UNCHANGED vars
  BY <1>20 DEF vars
<1> QED
  BY <1>1, <1>2, <1>3, <1>4, <1>5, <1>6, <1>7, <1>8, <1>9, <1>10, <1>11, <1>12,
     <1>13, <1>14, <1>15, <1>16, <1>17, <1>18, <1>19, <1>20
     DEF Next, CallStep, MainStep

\* Every variable has its type, whatever fails; no reply names no id.
THEOREM TypeCorrect == Spec => []TypeOK
<1>1. TypeInv => TypeOK
  BY DEF TypeInv
<1> QED
  BY InitTypeInv, NextTypeInv, <1>1, PTL DEF Spec

-----------------------------------------------------------------------------
(* The ids.                                                                 *)

\* An id is used once, only the registration that found no row saves one, and
\* every reply on its way names the id of its address's row.
IdInv ==
    /\ \A m \in Mac : table[m] < nextId
    /\ \A m, k \in Rows : table[m] = table[k] => m = k
    /\ pc = "save" => table[mac] = 0
    /\ pc \in {"signal", "answer"} => nodeId = table[mac]
    /\ \A i \in 1..Len(events) :
          events[i].call = "publish" => events[i].id = table[events[i].mac]

LEMMA InitIdInv == Init => IdInv
BY DEF Init, IdInv, Rows

\* A new row takes an id no row has, and leaves the other rows alone.
LEMMA NewRowIds ==
    ASSUME TypeInv, IdInv, pc = "save",
           table' = [table EXCEPT ![mac] = nextId], nextId' = nextId + 1, UNCHANGED events
    PROVE  /\ \A m \in Mac : table'[m] < nextId'
           /\ \A m, k \in Rows' : table'[m] = table'[k] => m = k
           /\ \A i \in 1..Len(events') :
                 events'[i].call = "publish" => events'[i].id = table'[events'[i].mac]
<1> USE DEF TypeInv, TypeOK
<1>1. /\ mac \in Mac /\ table[mac] = 0 /\ table'[mac] = nextId
      /\ \A m \in Mac : m # mac => table'[m] = table[m]
  BY DEF IdInv
<1>2. \A m \in Mac : table'[m] < nextId'
  BY <1>1 DEF IdInv
<1>3. \A m, k \in Rows' : table'[m] = table'[k] => m = k
  BY <1>1 DEF IdInv, Rows
<1>4. ASSUME NEW i \in 1..Len(events), events[i].call = "publish"
      PROVE  events[i].id = table'[events[i].mac]
  <2>1. events[i] \in Event
    OBVIOUS
  <2>2. events[i].mac \in Mac /\ events[i].id # 0
    BY <1>4, <2>1, EventTypes
  <2> QED
    BY <1>1, <1>4, <2>2 DEF IdInv
<1> QED
  BY <1>2, <1>3, <1>4

LEMMA NextIdInv == TypeInv /\ IdInv /\ [Next]_vars => IdInv'
<1> SUFFICES ASSUME TypeInv, IdInv, [Next]_vars PROVE IdInv'
  OBVIOUS
<1>a. events \in Seq(Event) /\ table \in [Mac -> Nat] /\ nextId \in Nat
  BY DEF TypeInv, TypeOK
<1>b. ASSUME NEW e \in Event, events' = Append(events, e), UNCHANGED <<table, nextId>>,
             e.call = "publish" => e.id = table[e.mac], pc' \notin {"save", "signal"},
             pc' = "answer" => nodeId' = table[mac']
      PROVE  IdInv'
  BY <1>a, <1>b, Places DEF IdInv, Rows
<1>c. ASSUME events # <<>>, events' = Tail(events), UNCHANGED <<table, nextId, pc, mac, nodeId>>
      PROVE  IdInv'
  BY <1>a, <1>c, Places DEF IdInv, Rows
<1> USE DEF callVars, mainVars, Fault, Due
<1>1. ASSUME NEW m \in Mac, RegisterArrives(m) PROVE IdInv'
  BY <1>1 DEF RegisterArrives, IdInv, Rows
<1>2. CASE BadRegisterArrives \/ FindKnown \/ FindUnknown \/ FindFails
  BY <1>2 DEF BadRegisterArrives, FindKnown, FindUnknown, FindFails, IdInv, Rows
<1>3. CASE Save
  BY <1>3, NewRowIds DEF Save, IdInv
<1>4. CASE SaveFails
  <2>1. CASE UNCHANGED table
    BY <1>4, <1>a, <2>1 DEF SaveFails, IdInv, Rows
  <2>2. CASE table' = [table EXCEPT ![mac] = nextId] /\ nextId' = nextId + 1
    BY <1>4, <2>2, NewRowIds DEF SaveFails, IdInv
  <2> QED
    BY <1>4, <2>1, <2>2 DEF SaveFails
<1>5. CASE Refetch \/ RefetchFails
  BY <1>5 DEF Refetch, RefetchFails, IdInv, Rows
<1>6. CASE EmitNewNode
  BY <1>6, <1>b, EventTypes DEF EmitNewNode, IdInv, Reload
<1>7. CASE EmitReply
  <2>1. /\ Reply(mac, nodeId) \in Event
        /\ Reply(mac, nodeId).id = nodeId /\ Reply(mac, nodeId).mac = mac
    BY <1>7, EventTypes DEF EmitReply, Reply, TypeInv, TypeOK
  <2> QED
    BY <1>7, <1>b, <2>1 DEF EmitReply, IdInv
<1>8. CASE EmitError
  BY <1>8, <1>b, EventTypes DEF EmitError, Error
<1>9. CASE ReloadQuery \/ PublishReply \/ PublishError \/ ReplyDropped
  BY <1>9, <1>c DEF ReloadQuery, PublishReply, PublishError, ReplyDropped
<1>10. CASE ReloadAssign \/ Restart
  BY <1>10 DEF ReloadAssign, Restart, IdInv, Rows
<1>11. CASE Crash
  BY <1>11 DEF Crash, IdInv, Rows
<1>12. CASE UNCHANGED vars
  BY <1>12 DEF vars, IdInv, Rows
<1> QED
  BY <1>1, <1>2, <1>3, <1>4, <1>5, <1>6, <1>7, <1>8, <1>9, <1>10, <1>11, <1>12
     DEF Next, CallStep, MainStep

-----------------------------------------------------------------------------
(* Reload before reply.                                                     *)

\* The service watches the address, or is about to, or a registration of it
\* failed after its row was saved.
Covered(m) == m \in mNodes \cup fetched \cup orphans

\* A reload is posted at one of the first n places of the queue.
Posted(n) == \E i \in 1..n : events[i].call = "getAllNode"

\* A row is covered, or a reload will cover it, except while the registration
\* that saved it has not posted that reload; and before the reply to an
\* address that is not covered yet there is a reload in the queue.
WatchInv ==
    /\ mNodes \subseteq Rows /\ fetched \subseteq Rows
    /\ loading => mNodes \subseteq fetched
    /\ ~loading => fetched = {}
    /\ ~up => pc = "idle" /\ ~loading /\ events = <<>>
    /\ up => \A m \in Rows :
                Covered(m) \/ Posted(Len(events)) \/ (mac = m /\ pc \in {"refetch", "signal"})
    /\ \A i \in 1..Len(events) : events[i].call = "publish" =>
          events[i].mac \in Rows /\ (Covered(events[i].mac) \/ Posted(i - 1))

LEMMA InitWatchInv == Init => WatchInv
BY DEF Init, WatchInv, Rows

\* A step that adds an event and leaves the rest of the queue keeps what is
\* posted; one that takes a publication off keeps it one place further on.
LEMMA PostedAppend ==
    ASSUME TypeInv, NEW e \in Event, events' = Append(events, e)
    PROVE  /\ Len(events') = Len(events) + 1
           /\ events'[Len(events')] = e
           /\ \A i \in 1..Len(events) : events'[i] = events[i]
           /\ \A n \in 0..Len(events) : Posted(n) => Posted(n)'
           /\ Posted(Len(events)) => Posted(Len(events))'
           /\ e.call = "getAllNode" => Posted(Len(events))'
<1>1. events \in Seq(Event)
  BY DEF TypeInv, TypeOK
<1>2. /\ Len(events') = Len(events) + 1
      /\ events'[Len(events')] = e
      /\ \A i \in 1..Len(events) : events'[i] = events[i]
  BY <1>1, Places
<1>3. \A n \in 0..Len(events) : Posted(n) => Posted(n)'
  BY <1>1, <1>2 DEF Posted
<1>4. Posted(Len(events)) => Posted(Len(events))'
  BY <1>1, <1>2 DEF Posted
<1>5. e.call = "getAllNode" => Posted(Len(events))'
  BY <1>1, <1>2 DEF Posted
<1> QED
  BY <1>2, <1>3, <1>4, <1>5

LEMMA PostedTail ==
    ASSUME TypeInv, events # <<>>, events' = Tail(events), events[1].call # "getAllNode"
    PROVE  /\ Len(events') = Len(events) - 1
           /\ \A i \in 1..Len(events') : events'[i] = events[i + 1]
           /\ \A n \in 1..Len(events) : Posted(n) => Posted(n - 1)'
           /\ Posted(Len(events)) => Posted(Len(events))'
<1>1. events \in Seq(Event) /\ Len(events) \in Nat /\ Len(events) >= 1
  BY DEF TypeInv, TypeOK
<1>2. /\ Len(events') = Len(events) - 1
      /\ \A i \in 1..Len(events') : events'[i] = events[i + 1]
  BY <1>1, Places
<1>3. ASSUME NEW n \in 1..Len(events), Posted(n) PROVE Posted(n - 1)'
  <2>1. PICK i \in 1..n : events[i].call = "getAllNode"
    BY <1>3 DEF Posted
  <2>2. i - 1 \in 1..(n - 1) /\ events'[i - 1] = events[i]
    BY <1>1, <1>2, <1>3, <2>1
  <2> QED
    BY <2>1, <2>2 DEF Posted
<1>4. Posted(Len(events)) => Posted(Len(events))'
  BY <1>1, <1>2, <1>3
<1> QED
  BY <1>2, <1>3, <1>4

LEMMA NextWatchInv == TypeInv /\ IdInv /\ WatchInv /\ [Next]_vars => WatchInv'
<1> SUFFICES ASSUME TypeInv, IdInv, WatchInv, [Next]_vars PROVE WatchInv'
  OBVIOUS
<1>a. /\ events \in Seq(Event) /\ Len(events) \in Nat
      /\ table \in [Mac -> Nat] /\ nextId \in Nat \ {0}
      /\ \A i \in 1..Len(events) : events[i].call = "publish" => events[i].mac \in Mac
  <2>1. events \in Seq(Event) /\ table \in [Mac -> Nat] /\ nextId \in Nat \ {0}
    BY DEF TypeInv, TypeOK
  <2>2. \A i \in 1..Len(events) : events[i] \in Event
    BY <2>1
  <2> QED
    BY <2>1, <2>2, EventTypes
<1> USE DEF callVars, mainVars, Fault, Due
\* Steps of the callback thread that neither save a row nor post an event.
<1>b. ASSUME UNCHANGED <<table, up, events, mNodes, fetched, loading>>,
             orphans \subseteq orphans', pc # "idle" \/ up,
             pc \in {"refetch", "signal"} =>
                (mac' = mac /\ pc' \in {"refetch", "signal"}) \/ mac \in orphans'
      PROVE  WatchInv'
  BY <1>a, <1>b DEF WatchInv, Covered, Posted, Rows
\* Steps of the callback thread that post an event.
<1>c. ASSUME NEW e \in Event, events' = Append(events, e), pc # "idle",
             UNCHANGED <<table, up, mNodes, fetched, loading, orphans>>,
             pc = "signal" => e.call = "getAllNode", pc # "refetch",
             e.call = "publish" => e.mac \in Rows /\ (Covered(e.mac) \/ Posted(Len(events)))
      PROVE  WatchInv'
  <2>1. up /\ Rows' = Rows /\ \A m : Covered(m)' = Covered(m)
    BY <1>c DEF WatchInv, Covered, Rows
  <2>2. Posted(Len(events)) => Posted(Len(events))'
    BY <1>c, PostedAppend
  <2>3. e.call = "getAllNode" => Posted(Len(events))'
    BY <1>c, PostedAppend
  <2>4. \A m \in Rows : Covered(m) \/ Posted(Len(events))'
    BY <1>c, <2>1, <2>2, <2>3 DEF WatchInv
  <2>5. ASSUME NEW i \in 1..Len(events'), events'[i].call = "publish"
        PROVE  events'[i].mac \in Rows /\ (Covered(events'[i].mac) \/ Posted(i - 1)')
    <3>1. CASE i \in 1..Len(events)
      BY <1>a, <1>c, <2>5, <3>1, PostedAppend DEF WatchInv
    <3>2. CASE i = Len(events')
      BY <1>a, <1>c, <2>5, <3>2, PostedAppend
    <3> QED
      BY <1>a, <1>c, <3>1, <3>2, PostedAppend
  <2> QED
    BY <1>c, <2>1, <2>4, <2>5 DEF WatchInv
\* Steps of the main thread that take a publication off the queue.
<1>d. ASSUME events # <<>>, events' = Tail(events), events[1].call # "getAllNode",
             UNCHANGED <<table, up, mNodes, fetched, loading, orphans, pc, mac>>
      PROVE  WatchInv'
  <2>1. up /\ Rows' = Rows /\ \A m : Covered(m)' = Covered(m)
    BY <1>d DEF WatchInv, Covered, Rows
  <2>2. Posted(Len(events)) => Posted(Len(events))'
    BY <1>d, PostedTail
  <2>3. ASSUME NEW i \in 1..Len(events'), events'[i].call = "publish"
        PROVE  events'[i].mac \in Rows /\ (Covered(events'[i].mac) \/ Posted(i - 1)')
    <3>1. i + 1 \in 1..Len(events) /\ events'[i] = events[i + 1] /\ i \in 1..Len(events)
      BY <1>a, <1>d, PostedTail
    <3>2. events[i + 1].mac \in Rows /\ (Covered(events[i + 1].mac) \/ Posted(i))
      BY <2>3, <3>1 DEF WatchInv
    <3> QED
      BY <1>d, <3>1, <3>2, PostedTail
  <2> QED
    BY <1>d, <2>1, <2>2, <2>3 DEF WatchInv
<1>1. ASSUME NEW m \in Mac, RegisterArrives(m) PROVE WatchInv'
  BY <1>1, <1>b DEF RegisterArrives
<1>2. CASE BadRegisterArrives \/ FindKnown \/ FindUnknown \/ FindFails
  BY <1>2, <1>b DEF BadRegisterArrives, FindKnown, FindUnknown, FindFails
<1>3. CASE Save
  <2>1. /\ mac \in Mac /\ pc' = "refetch" /\ mac' = mac /\ up'
        /\ Rows' = Rows \cup {mac}
        /\ UNCHANGED <<up, events, mNodes, fetched, loading, orphans>>
    BY <1>3, <1>a DEF Save, Rows, TypeInv, TypeOK, WatchInv
  <2> QED
    BY <1>3, <2>1 DEF Save, WatchInv, Covered, Posted
<1>4. CASE SaveFails
  <2>1. /\ mac \in Mac /\ pc' = "fail" /\ up'
        /\ UNCHANGED <<up, events, mNodes, fetched, loading>>
        /\ \/ UNCHANGED <<table, orphans>> /\ Rows' = Rows
           \/ Rows' = Rows \cup {mac} /\ orphans' = orphans \cup {mac}
    BY <1>4, <1>a DEF SaveFails, Rows, TypeInv, TypeOK, WatchInv
  <2> QED
    BY <1>4, <2>1 DEF SaveFails, WatchInv, Covered, Posted
<1>5. CASE Refetch \/ RefetchFails
  BY <1>5, <1>b DEF Refetch, RefetchFails
<1>6. CASE EmitNewNode
  BY <1>6, <1>c, EventTypes DEF EmitNewNode, Reload
<1>7. CASE EmitReply
  <2>1. mac \in Rows /\ nodeId \in Nat \ {0}
    BY <1>7, <1>a DEF EmitReply, TypeInv, TypeOK, IdInv, Rows
  <2>2. Covered(mac) \/ Posted(Len(events))
    BY <1>7, <2>1 DEF EmitReply, WatchInv
  <2>3. Reply(mac, nodeId) \in Event /\ Reply(mac, nodeId).mac = mac
    BY <2>1, EventTypes DEF Reply, Rows
  <2> QED
    BY <1>7, <1>c, <2>1, <2>2, <2>3 DEF EmitReply
<1>8. CASE EmitError
  BY <1>8, <1>c, EventTypes DEF EmitError, Error
<1>9. CASE ReloadQuery
  <2>1. /\ Rows' = Rows /\ fetched' = Rows /\ loading' /\ up'
        /\ mNodes' = mNodes /\ \A m \in Rows : Covered(m)'
    BY <1>9 DEF ReloadQuery, Rows, Covered
  <2>2. \A i \in 1..Len(events') : events'[i] = events[i + 1] /\ i + 1 \in 1..Len(events)
    BY <1>9, <1>a, Places DEF ReloadQuery
  <2> QED
    BY <2>1, <2>2 DEF WatchInv
<1>10. CASE ReloadAssign
  <2>1. /\ mNodes' = fetched /\ fetched' = {} /\ ~loading' /\ Rows' = Rows
        /\ UNCHANGED <<up, pc, mac, events>> /\ loading /\ up
    BY <1>10 DEF ReloadAssign, Rows, WatchInv
  <2>2. \A m : Covered(m) => Covered(m)'
    BY <1>10, <2>1 DEF ReloadAssign, Covered, WatchInv
  <2>3. \A n : Posted(n)' = Posted(n)
    BY <2>1 DEF Posted
  <2> QED
    BY <2>1, <2>2, <2>3 DEF WatchInv
<1>11. CASE PublishReply \/ PublishError \/ ReplyDropped
  BY <1>11, <1>a, <1>d, Places DEF PublishReply, PublishError, ReplyDropped
<1>12. CASE Crash
  BY <1>12 DEF Crash, WatchInv
<1>13. CASE Restart
  <2>1. /\ mNodes' = Rows /\ Rows' = Rows /\ fetched' = {} /\ ~loading'
        /\ events' = <<>> /\ up'
    BY <1>13 DEF Restart, WatchInv, Rows
  <2> QED
    BY <2>1 DEF WatchInv, Covered
<1>14. CASE UNCHANGED vars
  BY <1>14 DEF vars, WatchInv, Covered, Posted, Rows
<1> QED
  BY <1>1, <1>2, <1>3, <1>4, <1>5, <1>6, <1>7, <1>8, <1>9, <1>10, <1>11, <1>12,
     <1>13, <1>14
     DEF Next, CallStep, MainStep

\* Every reply that is published names a node that the service watches, or one
\* whose earlier registration failed after the save.
THEOREM RepliesAreWatched == Spec => ToldIsWatched
<1>1. TypeInv /\ WatchInv /\ [Next]_vars => [PublishesWatched]_vars
  <2> SUFFICES ASSUME TypeInv, WatchInv, [Next]_vars, NEW m \in Mac, Publishes(m)
               PROVE  m \in mNodes \cup orphans
    BY DEF PublishesWatched
  <2>1. /\ events \in Seq(Event) /\ events # <<>> /\ events' = Tail(events) /\ up'
        /\ Head(events).call = "publish" /\ Head(events).mac = m
    BY DEF Publishes, TypeInv, TypeOK
  <2>2. 1 \in 1..Len(events) /\ events[1].call = "publish" /\ events[1].mac = m
        /\ Len(events') = Len(events) - 1
    BY <2>1, Places
  <2>3. Covered(m)
    BY <2>2 DEF WatchInv, Posted
  <2>4. ~loading
    <3>1. Len(events') # Len(events) /\ Len(events') # Len(events) + 1
      <4>1. Len(events) \in Nat
        BY <2>1
      <4> QED
        BY <2>2, <4>1
    <3>2. \A e \in Event : events' # Append(events, e)
      BY <2>1, <3>1, Places
    <3>3. CASE PublishReply \/ PublishError \/ ReplyDropped \/ ReloadQuery
      BY <3>3 DEF PublishReply, PublishError, ReplyDropped, ReloadQuery, Due
    <3>4. CASE EmitNewNode \/ EmitReply \/ EmitError
      BY <3>2, <3>4, EventTypes DEF EmitNewNode, EmitReply, EmitError, TypeInv, TypeOK
    <3>5. CASE Crash \/ Restart
      BY <2>1, <3>5 DEF Crash, Restart, WatchInv
    <3>6. CASE UNCHANGED events
      BY <3>1, <3>6
    <3> QED
      BY <3>3, <3>4, <3>5, <3>6
         DEF Next, CallStep, MainStep, RegisterArrives, BadRegisterArrives, FindKnown,
             FindUnknown, FindFails, Save, SaveFails, Refetch, RefetchFails,
             ReloadAssign, vars
  <2> QED
    BY <2>3, <2>4 DEF Covered, WatchInv
<1> QED
  BY InitTypeInv, NextTypeInv, InitIdInv, NextIdInv, InitWatchInv, NextWatchInv, <1>1, PTL
     DEF Spec, ToldIsWatched

-----------------------------------------------------------------------------
(* Refinement.                                                              *)

\* The rows and what has been published are an execution of NodeRegistry: a
\* save assigns a fresh id, a publication tells a node its own, and everything
\* else stutters.
THEOREM RefinesRegistry == Spec => ImplementsRegistry
<1>1. Init => Registry!Init
  BY DEF Init, Registry!Init, Registry!Registered
<1>2. TypeInv /\ IdInv /\ [Next]_vars => [Registry!Next]_(Registry!vars)
  <2> SUFFICES ASSUME TypeInv, IdInv, [Next]_vars
               PROVE  [Registry!Next]_(Registry!vars)
    OBVIOUS
  <2>a. /\ table \in [Mac -> Nat] /\ nextId \in Nat \ {0}
        /\ told \in [Mac -> SUBSET Nat] /\ events \in Seq(Event)
    BY DEF TypeInv, TypeOK
  <2>b. ASSUME mac \in Mac, pc = "save", table' = [table EXCEPT ![mac] = nextId],
               UNCHANGED told
        PROVE  Registry!Assign(mac)
    <3>1. table[mac] = 0 /\ \A m \in Mac : nextId # table[m]
      BY <2>a, <2>b DEF IdInv
    <3>2. table'[mac] = nextId /\ table' = [table EXCEPT ![mac] = table'[mac]]
      BY <2>a, <2>b
    <3> QED
      BY <2>a, <2>b, <3>1, <3>2 DEF Registry!Assign
  <2>1. CASE Save
    BY <2>1, <2>b DEF Save, Registry!Next, TypeInv, TypeOK
  <2>2. CASE SaveFails
    BY <2>2, <2>b DEF SaveFails, Registry!Next, Registry!vars, TypeInv, TypeOK
  <2>3. CASE PublishReply
    <3>1. /\ 1 \in 1..Len(events) /\ events[1] = Head(events) /\ Head(events) \in Event
          /\ Head(events).call = "publish"
      BY <2>3, <2>a, Places DEF PublishReply, Due
    <3>2. /\ Head(events).mac \in Mac /\ Head(events).id # 0
          /\ Head(events).id = table[Head(events).mac]
      BY <3>1, EventTypes DEF IdInv
    <3>3. Registry!Tell(Head(events).mac)
      BY <2>3, <3>2 DEF PublishReply, Registry!Tell
    <3> QED
      BY <3>2, <3>3 DEF Registry!Next
  <2>4. CASE UNCHANGED <<table, told>>
    BY <2>4 DEF Registry!vars
  <2> QED
    BY <2>1, <2>2, <2>3, <2>4
       DEF Next, CallStep, MainStep, RegisterArrives, BadRegisterArrives, FindKnown,
           FindUnknown, FindFails, Refetch, RefetchFails, EmitNewNode, EmitReply,
           EmitError, ReloadQuery, ReloadAssign, PublishError, ReplyDropped, Crash,
           Restart, vars
<1> QED
  BY InitTypeInv, NextTypeInv, InitIdInv, NextIdInv, <1>1, <1>2, PTL
     DEF Spec, ImplementsRegistry, Registry!Spec

\* What the registry promises, with the reason for it: ids are not shared, and
\* what an address has been told is the id it has now.
RegistryInv ==
    /\ table \in [Mac -> Nat] /\ told \in [Mac -> SUBSET Nat]
    /\ \A m, k \in Registry!Registered : table[m] = table[k] => m = k
    /\ \A m \in Mac : \A i \in told[m] : i = table[m] /\ i # 0

\* In every execution of the registry an id identifies one node, and a node
\* knows one id.
THEOREM IdsAlwaysIdentify == Registry!Spec => []Registry!IdsIdentify
<1>1. Registry!Init => RegistryInv
  BY DEF Registry!Init, RegistryInv
<1>2. RegistryInv /\ [Registry!Next]_(Registry!vars) => RegistryInv'
  <2> SUFFICES ASSUME RegistryInv, [Registry!Next]_(Registry!vars) PROVE RegistryInv'
    OBVIOUS
  <2>1. ASSUME NEW m \in Mac, Registry!Assign(m) PROVE RegistryInv'
    <3>1. table' \in [Mac -> Nat] /\ \A k \in Mac : k # m => table'[k] = table[k]
      BY <2>1 DEF Registry!Assign, RegistryInv
    <3>2. table'[m] # 0 /\ \A k \in Mac : table'[m] # table[k]
      BY <2>1 DEF Registry!Assign
    <3>3. \A k, l \in Registry!Registered' : table'[k] = table'[l] => k = l
      BY <3>1, <3>2 DEF RegistryInv, Registry!Registered
    <3>4. told' = told /\ told[m] = {}
      BY <2>1 DEF Registry!Assign, RegistryInv
    <3> QED
      BY <3>1, <3>3, <3>4 DEF RegistryInv
  <2>2. ASSUME NEW m \in Mac, Registry!Tell(m) PROVE RegistryInv'
    BY <2>2 DEF Registry!Tell, RegistryInv, Registry!Registered
  <2>3. CASE UNCHANGED Registry!vars
    BY <2>3 DEF Registry!vars, RegistryInv, Registry!Registered
  <2> QED
    BY <2>1, <2>2, <2>3 DEF Registry!Next
<1>3. RegistryInv => Registry!IdsIdentify
  <2> SUFFICES ASSUME RegistryInv PROVE Registry!IdsIdentify
    OBVIOUS
  <2>1. ASSUME NEW m \in Mac, NEW k \in Mac, NEW i \in told[m] \cap told[k] PROVE m = k
    BY DEF RegistryInv, Registry!Registered
  <2>2. ASSUME NEW m \in Mac, NEW i \in told[m], NEW j \in told[m] PROVE i = j
    BY DEF RegistryInv
  <2> QED
    BY <2>1, <2>2 DEF Registry!IdsIdentify
<1> QED
  BY <1>1, <1>2, <1>3, PTL DEF Registry!Spec

\* No two nodes are ever told the same id, and no node two ids.
THEOREM ToldIdsIdentify == Spec => []Registry!IdsIdentify
BY RefinesRegistry, IdsAlwaysIdentify, PTL DEF ImplementsRegistry

=============================================================================
