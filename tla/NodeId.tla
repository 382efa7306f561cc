------------------------------- MODULE NodeId -------------------------------
(***************************************************************************)
(* The widths of a node's id: the column and Node::id_ are unsigned long   *)
(* long, the register reply and handleReplyKeepAlive take an int, and the  *)
(* keep-alive request carries the id in full.  An int is one of -Half to   *)
(* Half - 1, an id less than Wide.  A node answers with the last id that   *)
(* it has got, also when that row is gone, or not in the cache yet.        *)
(***************************************************************************)
EXTENDS Integers

CONSTANTS
    Mac,       \* the nodes' addresses
    Half,      \* 2^31: the ints are -Half .. Half - 1
    Wide,      \* 2^64: the ids are 0 .. Wide - 1
    MaxId      \* bound on the ids the sequence gives

\* What the constants have to satisfy.
ConstantsOK ==
    /\ Half \in Nat \ {0} /\ Wide \in Nat /\ Wide > 2 * Half
    /\ MaxId \in Nat /\ MaxId < Wide - Half

VARIABLES
    row,       \* the id of each address in the table, 0 when it has none
    nextId,    \* the sequence of the table
    cache,     \* the id of each address in mNodes, 0 when it is not there
    saved,     \* the address whose row the callback thread has just saved
    reload,    \* getAllNode is posted
    posted,    \* the id in the reply to each address that is posted, 0 when none is
    sent,      \* what each node has got last
    about      \* history: the id that this was made from, 0 when there is none

vars == <<row, nextId, cache, saved, reload, posted, sent, about>>

-----------------------------------------------------------------------------
(* The conversions.                                                         *)

ToWide(n) == n % Wide

\* Mutant: the id goes through a narrower type.
ToShort(id) == ((id + Half \div 2) % Half) - (Half \div 2)

\* static_cast<int>, and the int that j["nodeId"] is read as.
ToInt(id) == ((id + Half) % (2 * Half)) - Half

\* Mutant: the id is compared as an int.
MatchesAsInt(m, nodeId) == cache[m] # 0 /\ ToInt(cache[m]) = nodeId

\* node.id() == nodeId of the entry with m's address: the int is converted to
\* unsigned long long.
Matches(m, nodeId) == cache[m] # 0 /\ cache[m] = ToWide(nodeId)

-----------------------------------------------------------------------------
(* The table.                                                               *)

\* The row is deleted by somebody else; the cache keeps its entry until it is
\* loaded again, and the sequence goes on.
RowGoes(m) ==
    /\ row' = [row EXCEPT ![m] = 0]
    /\ UNCHANGED <<nextId, cache, saved, reload, posted, sent, about>>

\* Other rows use up the sequence.
SequenceAdvances ==
    /\ nextId < MaxId
    /\ nextId' = nextId + 1
    /\ UNCHANGED <<row, cache, saved, reload, posted, sent, about>>

-----------------------------------------------------------------------------
(* processRegisterMessage, on the callback thread.  (That any of its calls    *)
(* may throw at once, and what becomes of the node then, is in Registration.)  *)

\* Bound: one reply to a node is posted at a time.
Asks(m) == saved = {} /\ posted[m] = 0

AnswerKnown(m) ==
    /\ Asks(m) /\ row[m] # 0
    /\ posted' = [posted EXCEPT ![m] = row[m]]
    /\ UNCHANGED <<row, nextId, cache, saved, reload, sent, about>>

Save(m) ==
    /\ Asks(m) /\ row[m] = 0 /\ nextId <= MaxId
    /\ row' = [row EXCEPT ![m] = nextId] /\ nextId' = nextId + 1
    /\ saved' = {m}
    /\ UNCHANGED <<cache, reload, posted, sent, about>>

\* The reload is posted, and after it the reply.
Refetch(m) ==
    /\ m \in saved /\ row[m] # 0
    /\ saved' = {} /\ reload' = TRUE
    /\ posted' = [posted EXCEPT ![m] = row[m]]
    /\ UNCHANGED <<row, nextId, cache, sent, about>>

\* The row stays without a reload.
RefetchFails ==
    /\ saved # {}
    /\ saved' = {}
    /\ UNCHANGED <<row, nextId, cache, reload, posted, sent, about>>

-----------------------------------------------------------------------------
(* The main thread.                                                         *)

getAllNode ==
    /\ reload
    /\ reload' = FALSE
    /\ cache' = row
    /\ UNCHANGED <<row, nextId, saved, posted, sent, about>>

\* The posted reply reaches the node, or is lost.
RegisterReply(m) ==
    /\ posted[m] # 0
    /\ posted' = [posted EXCEPT ![m] = 0]
    /\ \/ sent' = [sent EXCEPT ![m] = ToInt(posted[m])]
          /\ about' = [about EXCEPT ![m] = posted[m]]
       \/ UNCHANGED <<sent, about>>
    /\ UNCHANGED <<row, nextId, cache, saved, reload>>

KeepAliveRequest(m) ==
    /\ cache[m] # 0
    /\ sent' = [sent EXCEPT ![m] = cache[m]] /\ about' = [about EXCEPT ![m] = cache[m]]
    /\ UNCHANGED <<row, nextId, cache, saved, reload, posted>>

\* The process ends, and is started again.
Restart ==
    /\ cache' = row /\ saved' = {} /\ reload' = FALSE
    /\ posted' = [m \in Mac |-> 0]
    /\ UNCHANGED <<row, nextId, sent, about>>

Init ==
    /\ row = [m \in Mac |-> 0] /\ cache = row /\ posted = row /\ sent = row /\ about = row
    /\ nextId = 1 /\ saved = {} /\ reload = FALSE

Next ==
    \/ SequenceAdvances \/ RefetchFails \/ getAllNode \/ Restart
    \/ \E m \in Mac : \/ RowGoes(m) \/ AnswerKnown(m) \/ Save(m) \/ Refetch(m)
                      \/ RegisterReply(m) \/ KeepAliveRequest(m)

Spec == Init /\ [][Next]_vars

-----------------------------------------------------------------------------
(* Properties.                                                              *)

\* A node that last got the id of its entry in the cache, in a request or in the
\* register reply, is found by its answer exactly when that id fits an int.
FoundWhileIdsFit ==
    \A m \in Mac : cache[m] # 0 /\ about[m] = cache[m]
                      => (Matches(m, ToInt(sent[m])) <=> cache[m] < Half)

\* A node that answers with the id of an earlier registration, whose row was
\* deleted, is not taken for the entry that the cache has now, however far
\* the sequence has come and whatever the casts make of both ids.
EarlierIdsNotFound ==
    \A m \in Mac : about[m] # 0 /\ about[m] < cache[m] => ~Matches(m, ToInt(sent[m]))

=============================================================================
