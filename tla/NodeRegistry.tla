---------------------------- MODULE NodeRegistry ----------------------------
(***************************************************************************)
(* What the gateway promises its nodes: a MAC address is given one id,     *)
(* once and for all, no two addresses share an id, and a node is told no   *)
(* other id than its own.                                                  *)
(***************************************************************************)
EXTENDS Naturals

CONSTANT Mac        \* the nodes' MAC addresses

VARIABLES
    ids,            \* the id of every address, 0 as long as it has none
    told            \* the ids that have been published to each address

vars == <<ids, told>>

Registered == {m \in Mac : ids[m] # 0}

Init ==
    /\ ids \in [Mac -> Nat]
    /\ \A m, k \in Registered : ids[m] = ids[k] => m = k
    /\ told = [m \in Mac |-> {}]

Assign(m) ==
    /\ ids[m] = 0
    /\ ids' = [ids EXCEPT ![m] = ids'[m]]
    /\ ids'[m] \in Nat \ ({0} \cup {ids[k] : k \in Mac})
    /\ UNCHANGED told

Tell(m) ==
    /\ ids[m] # 0
    /\ told' = [told EXCEPT ![m] = @ \cup {ids[m]}]
    /\ UNCHANGED ids

Next == \E m \in Mac : Assign(m) \/ Tell(m)

Spec == Init /\ [][Next]_vars

-----------------------------------------------------------------------------
\* No id has been told to two nodes, and no node has been told two ids.
IdsIdentify ==
    /\ \A m, k \in Mac : told[m] \cap told[k] # {} => m = k
    /\ \A m \in Mac : \A i, j \in told[m] : i = j

=============================================================================
