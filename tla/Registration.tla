---------------------------- MODULE Registration ----------------------------
(***************************************************************************)
(* Registration of a node.  The callback thread of the MQTT client takes a *)
(* register message from topic node/request and runs                       *)
(* RegisterService::processRegisterMessage over the database; the signals  *)
(* it emits are queued events of the main thread, which reloads the cache  *)
(* of the KeepAliveService for the one and publishes a reply for the other *)
(* (the receivers live on the main thread, so Qt posts the calls).         *)
(***************************************************************************)
EXTENDS Naturals, Sequences

CONSTANTS
    Mac,         \* the nodes' MAC addresses
    NoMac,       \* no address
    MaxEvents,   \* bound on the events posted and not yet run
    MaxFaults,   \* bound on the statements and the publications that fail
    MaxCrashes   \* bound on the times the process dies

ASSUME ConstantsAssumption ==
    /\ NoMac \notin Mac
    /\ MaxEvents \in Nat /\ MaxFaults \in Nat /\ MaxCrashes \in Nat

VARIABLES
    table,       \* the rows: the id of every address, 0 as long as it has none
    nextId,      \* the sequence that the database takes ids from
    up,          \* the gateway process runs
    crashes,     \* how often it has died (bounded by MaxCrashes)
    faults,      \* how many calls have failed (bounded by MaxFaults)
    pc,          \* where processRegisterMessage is
    mac,         \* its local mac
    nodeId,      \* its local nodeId
    events,      \* the event queue of the main thread
    loading,     \* the main thread is inside getAllNode
    fetched,     \* the addresses that findAll() returned there
    mNodes,      \* the addresses in the cache of the KeepAliveService
    told,        \* history: the ids published to each address
    orphans      \* history: rows saved by a registration that then failed

callVars == <<pc, mac, nodeId>>
mainVars == <<loading, fetched, mNodes>>
vars == <<table, nextId, up, crashes, faults, callVars, events, mainVars, told, orphans>>

-----------------------------------------------------------------------------
Rows == {m \in Mac : table[m] # 0}

\* The events: getAllNode, and publish with a reply or with the error text.
Reload == [call |-> "getAllNode", mac |-> NoMac, id |-> 0]
Error == [call |-> "publishError", mac |-> NoMac, id |-> 0]
Reply(m, i) == [call |-> "publish", mac |-> m, id |-> i]

Fault == faults < MaxFaults /\ faults' = faults + 1

-----------------------------------------------------------------------------
(* The callback thread.                                                     *)

\* A register message for m: new, repeated, delayed or sent twice alike.
RegisterArrives(m) ==
    /\ up /\ pc = "idle"
    /\ Len(events) + 2 <= MaxEvents
    /\ pc' = "find" /\ mac' = m /\ nodeId' = 0
    /\ UNCHANGED <<table, nextId, up, crashes, faults, events, mainVars, told, orphans>>

\* One without a usable macAddress: the exception is caught.
BadRegisterArrives ==
    /\ up /\ pc = "idle"
    /\ Len(events) + 2 <= MaxEvents
    /\ pc' = "fail"
    /\ UNCHANGED <<table, nextId, up, crashes, faults, mac, nodeId, events, mainVars,
                   told, orphans>>

\* Mutant: an address that has an id is refused.
FindKnownRefused ==
    /\ pc = "find" /\ table[mac] # 0
    /\ pc' = "fail"
    /\ UNCHANGED <<table, nextId, up, crashes, faults, mac, nodeId, events, mainVars,
                   told, orphans>>

FindKnown ==
    /\ pc = "find" /\ table[mac] # 0
    /\ nodeId' = table[mac]
    /\ pc' = "answer"
    /\ UNCHANGED <<table, nextId, up, crashes, faults, mac, events, mainVars, told, orphans>>

\* Mutant: the row found is ignored, and the node is given another id.
FindIgnored ==
    /\ pc = "find"
    /\ pc' = "save"
    /\ UNCHANGED <<table, nextId, up, crashes, faults, mac, nodeId, events, mainVars,
                   told, orphans>>

FindUnknown ==
    /\ pc = "find" /\ table[mac] = 0
    /\ pc' = "save"
    /\ UNCHANGED <<table, nextId, up, crashes, faults, mac, nodeId, events, mainVars,
                   told, orphans>>

FindFails ==
    /\ pc = "find"
    /\ Fault
    /\ pc' = "fail"
    /\ UNCHANGED <<table, nextId, up, crashes, mac, nodeId, events, mainVars, told, orphans>>

Save ==
    /\ pc = "save"
    /\ table' = [table EXCEPT ![mac] = nextId]
    /\ nextId' = nextId + 1
    /\ pc' = "refetch"
    /\ UNCHANGED <<up, crashes, faults, mac, nodeId, events, mainVars, told, orphans>>

\* A sequence does not take an id back; and a commit may be lost only on its
\* way back, so that the row is there.
SaveFails ==
    /\ pc = "save"
    /\ Fault
    /\ \/ nextId' \in {nextId, nextId + 1} /\ UNCHANGED <<table, orphans>>
       \/ /\ table' = [table EXCEPT ![mac] = nextId]
          /\ nextId' = nextId + 1
          /\ orphans' = orphans \cup {mac}
    /\ pc' = "fail"
    /\ UNCHANGED <<up, crashes, mac, nodeId, events, mainVars, told>>

Refetch ==
    /\ pc = "refetch"
    /\ nodeId' = table[mac]
    /\ pc' = "signal"
    /\ UNCHANGED <<table, nextId, up, crashes, faults, mac, events, mainVars, told, orphans>>

\* Mutant: the failed refetch is answered with the id that nodeId starts from.
RefetchFailureAnswered ==
    /\ pc = "refetch"
    /\ Fault
    /\ orphans' = orphans \cup {mac}
    /\ pc' = "answer"
    /\ UNCHANGED <<table, nextId, up, crashes, mac, nodeId, events, mainVars, told>>

RefetchFails ==
    /\ pc = "refetch"
    /\ Fault
    /\ orphans' = orphans \cup {mac}
    /\ pc' = "fail"
    /\ UNCHANGED <<table, nextId, up, crashes, mac, nodeId, events, mainVars, told>>

\* Mutant: nobody is told of the new node.
EmitNothing ==
    /\ pc = "signal"
    /\ pc' = "answer"
    /\ UNCHANGED <<table, nextId, up, crashes, faults, mac, nodeId, events, mainVars,
                   told, orphans>>

\* emit hasNewNodeRegister(), before the reply that the handler emits.
EmitNewNode ==
    /\ pc = "signal"
    /\ events' = Append(events, Reload)
    /\ pc' = "answer"
    /\ UNCHANGED <<table, nextId, up, crashes, faults, mac, nodeId, mainVars, told, orphans>>

EmitReply ==
    /\ pc = "answer"
    /\ events' = Append(events, Reply(mac, nodeId))
    /\ pc' = "idle" /\ mac' = NoMac /\ nodeId' = 0
    /\ UNCHANGED <<table, nextId, up, crashes, faults, mainVars, told, orphans>>

EmitError ==
    /\ pc = "fail"
    /\ events' = Append(events, Error)
    /\ pc' = "idle" /\ mac' = NoMac /\ nodeId' = 0
    /\ UNCHANGED <<table, nextId, up, crashes, faults, mainVars, told, orphans>>

-----------------------------------------------------------------------------
(* The main thread: one event after the other.                              *)

Due(call) == up /\ ~loading /\ events # <<>> /\ Head(events).call = call

ReloadQuery ==
    /\ Due("getAllNode")
    /\ events' = Tail(events)
    /\ loading' = TRUE
    /\ fetched' = Rows
    /\ UNCHANGED <<table, nextId, up, crashes, faults, callVars, mNodes, told, orphans>>

ReloadAssign ==
    /\ loading
    /\ mNodes' = fetched
    /\ loading' = FALSE
    /\ fetched' = {}
    /\ orphans' = orphans \ fetched
    /\ UNCHANGED <<table, nextId, up, crashes, faults, callVars, events, told>>

PublishReply ==
    /\ Due("publish")
    /\ events' = Tail(events)
    /\ told' = [told EXCEPT ![Head(events).mac] = @ \cup {Head(events).id}]
    /\ UNCHANGED <<table, nextId, up, crashes, faults, callVars, mainVars, orphans>>

PublishError ==
    /\ Due("publishError")
    /\ events' = Tail(events)
    /\ UNCHANGED <<table, nextId, up, crashes, faults, callVars, mainVars, told, orphans>>

\* No connection, or the broker drops a QoS 0 message.
ReplyDropped ==
    /\ Due("publish")
    /\ Fault
    /\ events' = Tail(events)
    /\ UNCHANGED <<table, nextId, up, crashes, callVars, mainVars, told, orphans>>

-----------------------------------------------------------------------------
(* The process dies (findAll() throws inside getAllNode, a message has no   *)
(* messageType, it is killed) and is started again.                         *)

Crash ==
    /\ up /\ crashes < MaxCrashes
    /\ up' = FALSE
    /\ crashes' = crashes + 1
    /\ pc' = "idle" /\ mac' = NoMac /\ nodeId' = 0
    /\ events' = <<>>
    /\ loading' = FALSE /\ fetched' = {} /\ mNodes' = {}
    /\ UNCHANGED <<table, nextId, faults, told, orphans>>

Restart ==
    /\ ~up
    /\ up' = TRUE
    /\ mNodes' = Rows
    /\ orphans' = {}
    /\ UNCHANGED <<table, nextId, crashes, faults, callVars, events, loading, fetched, told>>

-----------------------------------------------------------------------------
Init ==
    /\ table = [m \in Mac |-> 0] /\ nextId = 1
    /\ up = TRUE /\ crashes = 0 /\ faults = 0
    /\ pc = "idle" /\ mac = NoMac /\ nodeId = 0
    /\ events = <<>>
    /\ loading = FALSE /\ fetched = {} /\ mNodes = {}
    /\ told = [m \in Mac |-> {}]
    /\ orphans = {}

CallStep ==
    \/ FindKnown \/ FindUnknown \/ FindFails \/ Save \/ SaveFails
    \/ Refetch \/ RefetchFails \/ EmitNewNode \/ EmitReply \/ EmitError

MainStep ==
    ReloadQuery \/ ReloadAssign \/ PublishReply \/ PublishError \/ ReplyDropped

Next ==
    \/ \E m \in Mac : RegisterArrives(m)
    \/ BadRegisterArrives
    \/ CallStep \/ MainStep
    \/ Crash \/ Restart

\* Both threads keep running, and the operator starts a gateway that died.
Fairness == WF_vars(CallStep) /\ WF_vars(MainStep) /\ WF_vars(Restart)

Spec == Init /\ [][Next]_vars
FairSpec == Spec /\ Fairness

-----------------------------------------------------------------------------
(* Properties.                                                              *)

Event == [call : {"getAllNode", "publishError"}, mac : {NoMac}, id : {0}]
             \cup [call : {"publish"}, mac : Mac, id : Nat \ {0}]

\* Every variable has its type; while a registration is handled its locals
\* are set, and a reply that waits to be published names an address and an id.
TypeOK ==
    /\ table \in [Mac -> Nat] /\ nextId \in Nat \ {0}
    /\ up \in BOOLEAN /\ crashes \in 0..MaxCrashes /\ faults \in 0..MaxFaults
    /\ pc \in {"idle", "find", "save", "refetch", "signal", "answer", "fail"}
    /\ mac \in Mac \cup {NoMac} /\ nodeId \in Nat
    /\ pc \notin {"idle", "fail"} => mac \in Mac
    /\ pc = "answer" => nodeId # 0
    /\ events \in Seq(Event)
    /\ loading \in BOOLEAN
    /\ fetched \subseteq Mac /\ mNodes \subseteq Mac
    /\ told \in [Mac -> SUBSET Nat]
    /\ orphans \subseteq Rows

Publishes(m) ==
    /\ events # <<>> /\ Head(events).call = "publish" /\ Head(events).mac = m
    /\ events' = Tail(events) /\ up'

PublishesWatched ==
    \A m \in Mac : Publishes(m) => m \in mNodes \cup orphans

\* When a node is told its id the KeepAliveService already watches it, so the
\* node's first keepAlive reply finds its entry: the reload was posted before
\* the reply.  The exception is a row saved by a registration that failed: its
\* node is answered on its next attempt, from the database, with no reload.
ToldIsWatched == [][PublishesWatched]_vars

\* The ids that nodes are told are those of the abstract registry, across
\* failed statements, lost replies, repeated messages and restarts.
Registry == INSTANCE NodeRegistry WITH ids <- table
ImplementsRegistry == Registry!Spec

\* A node that registers again and again is told its id in the end, once
\* statements and publications stop failing and the process stops dying.
RetryingNodeIsTold ==
    \A m \in Mac : []<><<RegisterArrives(m)>>_vars => <>(told[m] # {})

=============================================================================
