------------------------------ MODULE NodeStore ------------------------------
(***************************************************************************)
(* What the table of nodes promises the threads that call NodeDAO: a call  *)
(* that changes rows takes effect as a whole, at one instant between its   *)
(* begin and its end, or it has no effect.  An id is given to one address, *)
(* once and for all.  A caller writes back copies of rows that it read.    *)
(* The copies may change while the call that writes them is open: each is  *)
(* written as it was at one moment of the call, not all at the same.       *)
(***************************************************************************)
EXTENDS Naturals

CONSTANTS
    Thread,      \* the callers
    Mac, NoMac,  \* the addresses, and none
    MaxId        \* the largest id

Id == 1..MaxId
NoRow == [mac |-> NoMac, status |-> 0]
NoRows == [i \in Id |-> NoRow]
NoCall == [op |-> "none", mac |-> NoMac, ids |-> {}, rows |-> NoRows]

VARIABLES
    table,       \* the row of every id, NoRow where there is none
    given,       \* the address that an id was ever given to, NoMac if to none
    want,        \* what the call of every thread asks for
    copies       \* the copies of rows that every thread has read

vars == <<table, given, want, copies>>

Init ==
    /\ table = NoRows
    /\ given = [i \in Id |-> NoMac]
    /\ want = [t \in Thread |-> NoCall]
    /\ copies = [t \in Thread |-> NoRows]

-----------------------------------------------------------------------------
(* The copies.                                                              *)

\* Rows that are there, all read at once.
Find(t) ==
    /\ want[t] = NoCall
    /\ \E S \in SUBSET Id :
          copies' = [copies EXCEPT ![t] = [i \in Id |-> IF i \in S THEN table[i] ELSE NoRow]]
    /\ UNCHANGED <<table, given, want>>

\* Only the status changes, by whomsoever and at any time.
Change(t, i) ==
    /\ copies[t][i] # NoRow
    /\ \E s \in {copies'[t][i].status} : copies' = [copies EXCEPT ![t][i].status = s]
    /\ UNCHANGED <<table, given, want>>

-----------------------------------------------------------------------------
(* The calls.                                                               *)

Begin(t) ==
    /\ want[t] = NoCall
    /\ want' = [want EXCEPT ![t] = want'[t]]
    /\ want'[t] # NoCall
    /\ want'[t].op = "update" =>
           \E u \in Thread, i \in Id :
               /\ want'[t].ids = {i}
               /\ want'[t].rows = [NoRows EXCEPT ![i] = copies[u][i]]
    /\ want'[t].op = "updateAll" =>
           /\ want'[t].ids = {i \in Id : copies[t][i] # NoRow}
           /\ want'[t].rows = NoRows
    /\ UNCHANGED <<table, given, copies>>

\* The call takes a row as the caller's copy of it is now, once.
TakeCopy(t, i) ==
    /\ want[t].op = "updateAll" /\ i \in want[t].ids
    /\ want[t].rows[i] = NoRow
    /\ want' = [want EXCEPT ![t].rows[i] = copies[t][i]]
    /\ UNCHANGED <<table, given, copies>>

Ends(t) == want' = [want EXCEPT ![t] = NoCall]

NoEffect(t) ==
    /\ want[t] # NoCall
    /\ Ends(t)
    /\ UNCHANGED <<table, given, copies>>

\* The id is new and the address is not in the table.
Insert(t) ==
    /\ want[t].op = "save"
    /\ \A i \in Id : table[i].mac # want[t].mac
    /\ \E i \in want[t].ids :
          /\ given[i] = NoMac
          /\ table' = [table EXCEPT ![i] = [mac |-> want[t].mac, status |-> 1]]
          /\ given' = [given EXCEPT ![i] = want[t].mac]
    /\ Ends(t)
    /\ UNCHANGED copies

\* All the rows are there and their copies taken, and all of them are written.
Rewrite(t) ==
    /\ want[t].op \in {"update", "updateAll"}
    /\ \A i \in want[t].ids : table[i] # NoRow /\ want[t].rows[i] # NoRow
    /\ table' = [i \in Id |-> IF i \in want[t].ids THEN want[t].rows[i] ELSE table[i]]
    /\ Ends(t)
    /\ UNCHANGED <<given, copies>>

Erase(t) ==
    /\ want[t].op \in {"delete", "deleteAll"}
    /\ want[t].op = "delete" => \A i \in want[t].ids : table[i] # NoRow
    /\ table' = [i \in Id |-> IF i \in want[t].ids THEN NoRow ELSE table[i]]
    /\ Ends(t)
    /\ UNCHANGED <<given, copies>>

Next ==
    \E t \in Thread :
        \/ Begin(t) \/ NoEffect(t) \/ Insert(t) \/ Rewrite(t) \/ Erase(t)
        \/ Find(t)
        \/ \E i \in Id : Change(t, i) \/ TakeCopy(t, i)

Spec == Init /\ [][Next]_vars

=============================================================================
