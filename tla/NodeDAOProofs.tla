---------------------------- MODULE NodeDAOProofs ----------------------------
(***************************************************************************)
(* Theorems about NodeDAO, for any threads, addresses and number of ids:   *)
(* the types, what identifies a row, the gateway's freedom from deadlock,  *)
(* and the refinement of NodeStore.                                        *)
(***************************************************************************)
EXTENDS NodeDAO, TLAPS

(* The inductive invariant.                                                 *)

\* What a transaction has written and what it has still to write are the rows
\* of its call; only erase_query passes rows over, which are gone for good.
ProgressInv ==
    \A t \in Thread :
        /\ todo[t] \cap locked[t] = {}
        /\ todo[t] \cup locked[t] \subseteq call[t].ids
        /\ call[t].op = "none" => call[t].ids = {} /\ Idle(t)
        /\ call[t].op # "deleteAll" => todo[t] \cup locked[t] = call[t].ids
        /\ call[t].op = "deleteAll" =>
               \A i \in call[t].ids : i \in todo[t] \cup locked[t] \/ i \notin Stored

\* A written row is there and is written by no other transaction.
LockInv ==
    \A t \in Thread :
        /\ call[t].op # "save" => locked[t] \subseteq Stored
        /\ \A u \in Thread \ {t} : locked[t] \cap locked[u] = {}

\* An insertion has an id of its own that no row ever had, and once it is made
\* no row and no other insertion has its address.
SaveInv ==
    \A t \in Thread : call[t].op = "save" =>
        /\ call[t].mac \in Mac
        /\ \E i \in Id : call[t].ids = {i}
        /\ \A i \in call[t].ids : i < nextId /\ given[i] = NoMac
        /\ \A u \in Thread \ {t} : call[u].op = "save" => call[t].ids \cap call[u].ids = {}
        /\ locked[t] # {} =>
              /\ \A k \in Id : table[k].mac # call[t].mac
              /\ \A u \in Thread \ {t} :
                    call[u].op = "save" /\ locked[u] # {} => call[u].mac # call[t].mac

\* A row and every copy of it have the address that the id was given to.
GivenInv ==
    /\ \A i \in Id : i >= nextId => given[i] = NoMac
    /\ \A i \in Stored : table[i].mac = given[i]
    /\ \A t \in Thread : \A i \in Id :
          /\ held[t][i] # NoRow => held[t][i].mac = given[i]
          /\ call[t].rows[i] # NoRow => call[t].rows[i].mac = given[i]
    /\ \A t \in Thread :
          /\ call[t].op = "update" => \A i \in call[t].ids : call[t].rows[i] # NoRow
          /\ call[t].op = "updateAll" =>
                /\ t # Paho
                /\ \A i \in call[t].ids : held[t][i] # NoRow
                /\ \A i \in locked[t] : call[t].rows[i] # NoRow
          /\ call[t].op = "deleteAll" => \A i \in call[t].ids : given[i] # NoMac

\* No two rows have the same address.
UniqueInv == \A i, k \in Stored : table[i].mac = table[k].mac => i = k

\* The callback thread writes one row per transaction.
GatewayInv ==
    /\ call[Main].op \in {"none", "update", "updateAll"}
    /\ \A i, k \in call[Paho].ids : i = k

IInv ==
    /\ TypeOK
    /\ ProgressInv
    /\ LockInv
    /\ SaveInv
    /\ GivenInv
    /\ UniqueInv
    /\ GatewayInv
-----------------------------------------------------------------------------
(* What the steps of a call do, in terms of their fields.                   *)

LEMMA InitInv == Init => IInv
<1> SUFFICES ASSUME Init PROVE IInv  OBVIOUS
<1> USE DEF Init
<1>1. TypeOK  BY ConstantsAssumption DEF TypeOK, NoRows, NoCall, NoRow, Id, Idle
<1>2. ProgressInv /\ LockInv /\ SaveInv
  BY DEF ProgressInv, LockInv, SaveInv, NoCall, Stored, Idle
<1>3. GivenInv  BY DEF GivenInv, NoCall, NoRows, NoRow, Stored
<1>4. UniqueInv  BY DEF UniqueInv, NoRows, Stored
<1>5. GatewayInv  BY DEF GatewayInv, NoCall, Thread
<1> QED  BY <1>1, <1>2, <1>3, <1>4, <1>5 DEF IInv

\* A step that changes no more than the copies of the callers.
LEMMA ReadInv ==
    ASSUME IInv, UNCHANGED <<table, nextId, given, callVars>>,
           held' \in [Thread -> [Id -> Row \cup {NoRow}]],
           \A t \in Thread : \A i \in Id :
               held'[t][i] # NoRow => held'[t][i].mac = given[i],
           \A t \in Thread : ~Idle(t) =>
               \A i \in Id : held[t][i] # NoRow => held'[t][i] # NoRow
    PROVE  IInv'
<1> USE DEF IInv, callVars
<1>1. TypeOK'  BY DEF TypeOK, Idle
<1>2. ProgressInv' /\ LockInv' /\ SaveInv' /\ UniqueInv' /\ GatewayInv'
  BY DEF ProgressInv, LockInv, SaveInv, UniqueInv, GatewayInv, Stored, Idle
<1>3. GivenInv'
  <2>1. \A t \in Thread : call[t].op = "updateAll" => ~Idle(t)  BY DEF Idle, NoCall
  <2>2. \A t \in Thread : call[t].ids \subseteq Id  BY DEF TypeOK
  <2> QED  BY <2>1, <2>2 DEF GivenInv, Stored
<1> QED  BY <1>1, <1>2, <1>3

\* The transaction of t is over, and its rows are as they were.
LEMMA EndInv ==
    ASSUME IInv, NEW t \in Thread, Ends(t), UNCHANGED <<table, nextId, given, held>>
    PROVE  IInv'
<1> USE DEF IInv
<1>1. /\ call'[t] = NoCall /\ todo'[t] = {} /\ locked'[t] = {}
      /\ \A u \in Thread \ {t} :
            call'[u] = call[u] /\ todo'[u] = todo[u] /\ locked'[u] = locked[u]
  BY DEF TypeOK, Ends
<1>2. NoCall.op = "none" /\ NoCall.ids = {} /\ \A i \in Id : NoCall.rows[i] = NoRow
  BY DEF NoCall, NoRows
<1>3. TypeOK'  BY <1>1 DEF TypeOK, Ends, Idle, NoCall, NoRows
<1>4. ProgressInv'  BY <1>1, <1>2 DEF ProgressInv, Stored, Idle
<1>5. LockInv'  BY <1>1, <1>2 DEF LockInv, Stored
<1>6. SaveInv'  BY <1>1, <1>2 DEF SaveInv
<1>7. GivenInv'  BY <1>1, <1>2 DEF GivenInv, Stored
<1>8. UniqueInv'  BY DEF UniqueInv, Stored
<1>9. GatewayInv'  BY <1>1, <1>2, ConstantsAssumption DEF GatewayInv, Thread
<1> QED  BY <1>3, <1>4, <1>5, <1>6, <1>7, <1>8, <1>9

\* A call begins that rewrites or deletes rows.
LEMMA BeginInv ==
    ASSUME IInv, NEW t \in Thread, NEW op \in {"update", "updateAll", "delete", "deleteAll"},
           NEW ids \in SUBSET Id, NEW rows \in [Id -> Row \cup {NoRow}],
           Begins(t, op, NoMac, ids, rows),
           UNCHANGED <<table, nextId, given, held>>,
           \A i \in Id : rows[i] # NoRow => rows[i].mac = given[i],
           op = "update" => \A i \in ids : rows[i] # NoRow,
           op = "updateAll" => t # Paho /\ ids = Held(t),
           op = "deleteAll" => ids = Stored,
           t = Main => op \in {"update", "updateAll"},
           t = Paho => \A i, k \in ids : i = k
    PROVE  IInv'
<1> USE DEF IInv
<1>1. /\ call'[t].op = op /\ call'[t].ids = ids /\ call'[t].rows = rows
      /\ todo'[t] = ids /\ locked' = locked /\ locked[t] = {}
      /\ \A u \in Thread \ {t} : call'[u] = call[u] /\ todo'[u] = todo[u]
  BY DEF TypeOK, Begins, Idle
<1>2. TypeOK'
  <2>1. [op |-> op, mac |-> NoMac, ids |-> ids, rows |-> rows] \in
            [op : {"none", "save", "update", "updateAll", "delete", "deleteAll"},
             mac : Mac \cup {NoMac}, ids : SUBSET Id, rows : [Id -> Row \cup {NoRow}]]
    BY DEF TypeOK
  <2>2. call' \in [Thread -> [op : {"none", "save", "update", "updateAll", "delete", "deleteAll"},
                              mac : Mac \cup {NoMac}, ids : SUBSET Id,
                              rows : [Id -> Row \cup {NoRow}]]]
    BY <2>1 DEF TypeOK, Begins
  <2>3. \A u \in Thread : Idle(u)' => todo'[u] = {} /\ locked'[u] = {}
    <3>1. NoCall.op = "none"  BY DEF NoCall
    <3>2. call'[t] # NoCall  BY <1>1, <3>1
    <3>3. \A u \in Thread \ {t} : call[u] = NoCall => todo[u] = {} /\ locked[u] = {}
      BY DEF TypeOK, Idle
    <3> QED  BY <1>1, <3>2, <3>3 DEF Idle
  <2> QED  BY <1>1, <2>2, <2>3 DEF TypeOK, Begins
<1>3. ProgressInv'  BY <1>1 DEF ProgressInv, Stored, Idle
<1>4. LockInv'  BY <1>1 DEF LockInv, Stored
<1>5. SaveInv'  BY <1>1 DEF SaveInv
<1>6. GivenInv'
  <2>1. op = "deleteAll" => \A i \in ids : given[i] # NoMac
    BY ConstantsAssumption DEF GivenInv, Stored, TypeOK, Row
  <2>2. op = "updateAll" => t # Paho /\ \A i \in ids : held[t][i] # NoRow
    BY DEF Held, Keeper
  <2> QED  BY <1>1, <2>1, <2>2 DEF GivenInv, Stored
<1>7. UniqueInv'  BY DEF UniqueInv, Stored
<1>8. GatewayInv'  BY <1>1, ConstantsAssumption DEF GatewayInv, Thread
<1> QED  BY <1>2, <1>3, <1>4, <1>5, <1>6, <1>7, <1>8

\* An insertion begins with a fresh id.
LEMMA SaveBeginInv ==
    ASSUME IInv, NEW t \in Thread, NEW m \in Mac, save(t, m)
    PROVE  IInv'
<1> USE DEF IInv
<1>1. /\ call'[t].op = "save" /\ call'[t].ids = {nextId} /\ call'[t].rows = NoRows
      /\ call'[t].mac = m
      /\ todo'[t] = {nextId} /\ locked' = locked /\ locked[t] = {}
      /\ \A u \in Thread \ {t} : call'[u] = call[u] /\ todo'[u] = todo[u]
      /\ nextId \in Id /\ nextId' = nextId + 1 /\ t # Main
      /\ UNCHANGED <<table, given, held>>
  BY ConstantsAssumption DEF TypeOK, Begins, Idle, save, Id
<1>2. TypeOK'
  <2>1. [op |-> "save", mac |-> m, ids |-> {nextId}, rows |-> NoRows] \in
            [op : {"none", "save", "update", "updateAll", "delete", "deleteAll"},
             mac : Mac \cup {NoMac}, ids : SUBSET Id, rows : [Id -> Row \cup {NoRow}]]
    BY <1>1 DEF TypeOK, NoRows
  <2>2. call' \in [Thread -> [op : {"none", "save", "update", "updateAll", "delete", "deleteAll"},
                              mac : Mac \cup {NoMac}, ids : SUBSET Id,
                              rows : [Id -> Row \cup {NoRow}]]]
    BY <2>1 DEF TypeOK, Begins, save
  <2>3. \A u \in Thread : Idle(u)' => todo'[u] = {} /\ locked'[u] = {}
    <3>1. NoCall.op = "none"  BY DEF NoCall
    <3>2. call'[t] # NoCall  BY <1>1, <3>1
    <3>3. \A u \in Thread \ {t} : call[u] = NoCall => todo[u] = {} /\ locked[u] = {}
      BY DEF TypeOK, Idle
    <3> QED  BY <1>1, <3>2, <3>3 DEF Idle
  <2>4. todo' \in [Thread -> SUBSET Id]  BY <1>1 DEF TypeOK, Begins, save
  <2>5. nextId' \in 1..MaxId + 1  BY <1>1, ConstantsAssumption DEF TypeOK, Id
  <2> QED  BY <1>1, <2>2, <2>3, <2>4, <2>5 DEF TypeOK
<1>3. ProgressInv'  BY <1>1 DEF ProgressInv, Stored, Idle
<1>4. LockInv'  BY <1>1 DEF LockInv, Stored
<1>5. SaveInv'
  <2>1. \A i \in Id : i < nextId => i < nextId + 1 /\ i # nextId
    BY ConstantsAssumption DEF TypeOK, Id
  <2>2. given[nextId] = NoMac /\ nextId < nextId + 1
    BY <1>1, ConstantsAssumption DEF GivenInv, TypeOK, Id
  <2>3. \A u \in Thread \ {t} : call[u].op = "save" => nextId \notin call[u].ids
    BY <2>1, <1>1 DEF SaveInv, TypeOK
  <2>4. \A u \in Thread : call[u].ids \subseteq Id  BY DEF TypeOK
  <2> QED  BY <1>1, <2>1, <2>2, <2>3, <2>4 DEF SaveInv
<1>6. GivenInv'
  <2>1. \A i \in Id : i >= nextId + 1 => i >= nextId
    BY ConstantsAssumption DEF TypeOK, Id
  <2>2. \A i \in Id : NoRows[i] = NoRow  BY DEF NoRows
  <2> QED  BY <1>1, <2>1, <2>2 DEF GivenInv, Stored
<1>7. UniqueInv'  BY <1>1 DEF UniqueInv, Stored
<1>8. GatewayInv'  BY <1>1, ConstantsAssumption DEF GatewayInv, Thread
<1> QED  BY <1>2, <1>3, <1>4, <1>5, <1>6, <1>7, <1>8

-----------------------------------------------------------------------------
(* The statements and the commit.                                           *)

LEMMA InsertInv ==
    ASSUME IInv, NEW t \in Thread, NEW i \in Id, InsertRow(t, i)
    PROVE  IInv'
<1> USE DEF IInv
<1>1. UNCHANGED <<table, nextId, given, held>>  BY DEF InsertRow
<1>2. CASE Ends(t)  BY <1>1, <1>2, EndInv
<1>3. CASE ~Ends(t)
  <2>1. /\ call[t].op = "save" /\ i \in todo[t] /\ ~MacInDoubt(t, call[t].mac)
        /\ \A k \in Stored : table[k].mac # call[t].mac
        /\ todo'[t] = {} /\ locked'[t] = {i} /\ UNCHANGED call
        /\ todo' = [todo EXCEPT ![t] = {}] /\ locked' = [locked EXCEPT ![t] = {i}]
        /\ \A u \in Thread \ {t} : todo'[u] = todo[u] /\ locked'[u] = locked[u]
    BY <1>3 DEF InsertRow, TypeOK
  <2>2. call[t].mac \in Mac /\ todo[t] = {i} /\ call[t].ids = {i} /\ locked[t] = {}
    BY <2>1 DEF SaveInv, ProgressInv
  <2>3. \A k \in Id : table[k].mac # call[t].mac
    BY <2>1, <2>2, ConstantsAssumption DEF Stored, NoRow
  <2>4. \A u \in Thread \ {t} :
           call[u].op = "save" /\ locked[u] # {} => call[u].mac # call[t].mac
    BY <2>1 DEF MacInDoubt, TypeOK
  <2>5. \A u \in Thread \ {t} : i \notin locked[u]
    <3> SUFFICES ASSUME NEW u \in Thread \ {t}, i \in locked[u] PROVE FALSE  OBVIOUS
    <3>1. CASE call[u].op = "save"
      BY <3>1, <2>1, <2>2 DEF SaveInv, ProgressInv
    <3>2. CASE call[u].op # "save"
      <4>1. i \in Stored  BY <3>2 DEF LockInv
      <4>2. table[i].mac = given[i] /\ given[i] = NoMac
        BY <4>1, <2>1, <2>2 DEF GivenInv, SaveInv
      <4> QED  BY <4>1, <4>2, ConstantsAssumption DEF Stored, TypeOK, Row
    <3> QED  BY <3>1, <3>2
  <2>6. TypeOK'
    <3>1. ~Idle(t)  BY <2>1 DEF Idle, NoCall
    <3> QED  BY <1>1, <2>1, <3>1 DEF TypeOK, Idle
  <2>7. ProgressInv'  BY <1>1, <2>1, <2>2 DEF ProgressInv, Stored, Idle
  <2>8. LockInv'  BY <1>1, <2>1, <2>2, <2>5 DEF LockInv, Stored
  <2>9. SaveInv'  BY <1>1, <2>1, <2>2, <2>3, <2>4 DEF SaveInv
  <2>10. GivenInv'  BY <1>1, <2>1 DEF GivenInv, Stored
  <2>11. UniqueInv' /\ GatewayInv'  BY <1>1, <2>1 DEF UniqueInv, GatewayInv, Stored
  <2> QED  BY <2>6, <2>7, <2>8, <2>9, <2>10, <2>11
<1> QED  BY <1>2, <1>3

LEMMA WriteInv ==
    ASSUME IInv, NEW t \in Thread, NEW i \in Id, WriteRow(t, i)
    PROVE  IInv'
<1> USE DEF IInv
<1>1. UNCHANGED <<table, nextId, given, held>>  BY DEF WriteRow
<1>2. CASE Ends(t)  BY <1>1, <1>2, EndInv
<1>3. CASE ~Ends(t)
  <2>1. /\ call[t].op \notin {"none", "save"} /\ i \in todo[t]
        /\ AtRow(t, i) /\ ~Taken(t, i)
        /\ i \in Stored \/ call[t].op = "deleteAll"
        /\ todo'[t] = todo[t] \ {i} /\ UNCHANGED call
        /\ locked'[t] = IF i \in Stored THEN locked[t] \cup {i} ELSE locked[t]
        /\ \A u \in Thread \ {t} : todo'[u] = todo[u] /\ locked'[u] = locked[u]
        /\ todo' = [todo EXCEPT ![t] = @ \ {i}]
        /\ locked' = IF i \in Stored THEN [locked EXCEPT ![t] = @ \cup {i}] ELSE locked
    BY <1>3 DEF WriteRow, TypeOK
  <2>2. TypeOK'
    <3>1. ~Idle(t)  BY <2>1 DEF Idle, NoCall
    <3> QED  BY <1>1, <2>1, <3>1 DEF TypeOK, Idle
  <2>3. ProgressInv'  BY <1>1, <2>1 DEF ProgressInv, Stored, Idle
  <2>4. LockInv'  BY <1>1, <2>1 DEF LockInv, Stored, Taken
  <2>5. SaveInv'  BY <1>1, <2>1 DEF SaveInv
  <2>6. GivenInv'  BY <1>1, <2>1 DEF GivenInv, Stored, AtRow
  <2>7. UniqueInv' /\ GatewayInv'  BY <1>1, <2>1 DEF UniqueInv, GatewayInv, Stored
  <2> QED  BY <2>2, <2>3, <2>4, <2>5, <2>6, <2>7
<1> QED  BY <1>2, <1>3

\* updateAll takes a copy, which the thread holds.
LEMMA TakeInv ==
    ASSUME IInv, NEW t \in Thread, NEW i \in Id, Take(t, i)
    PROVE  IInv'
<1> USE DEF IInv
<1>1. /\ UNCHANGED <<todo, locked, table, nextId, given, held>>
      /\ call[t].op = "updateAll" /\ t # Paho /\ Keeper(t) = t
      /\ i \in call[t].ids /\ held[t][i] # NoRow
  BY DEF Take, GivenInv, Keeper, ProgressInv
<1>2. /\ call'[t].op = call[t].op /\ call'[t].ids = call[t].ids /\ call'[t].mac = call[t].mac
      /\ call'[t].rows = [call[t].rows EXCEPT ![i] = held[t][i]]
      /\ \A u \in Thread \ {t} : call'[u] = call[u]
  BY <1>1 DEF Take, TypeOK
<1>3. held[t][i] \in Row \cup {NoRow} /\ call[t].rows \in [Id -> Row \cup {NoRow}]
  BY DEF TypeOK
<1>4. /\ call'[t].rows[i] = held[t][i]
      /\ \A k \in Id \ {i} : call'[t].rows[k] = call[t].rows[k]
  BY <1>2, <1>3
<1>5. TypeOK'
  <2>1. call' = [call EXCEPT ![t] = [call[t] EXCEPT !.rows = [call[t].rows EXCEPT ![i] = held[t][i]]]]
    BY <1>1 DEF Take, TypeOK
  <2> DEFINE Calling == [op : {"none", "save", "update", "updateAll", "delete", "deleteAll"},
                         mac : Mac \cup {NoMac}, ids : SUBSET Id,
                         rows : [Id -> Row \cup {NoRow}]]
  <2>2. [call[t].rows EXCEPT ![i] = held[t][i]] \in [Id -> Row \cup {NoRow}]  BY <1>3
  <2>5. call \in [Thread -> Calling]  BY DEF TypeOK
  <2>6. \A rows \in [Id -> Row \cup {NoRow}] : [call[t] EXCEPT !.rows = rows] \in Calling
    BY <2>5
  <2>3. call' \in [Thread -> [op : {"none", "save", "update", "updateAll", "delete", "deleteAll"},
                              mac : Mac \cup {NoMac}, ids : SUBSET Id,
                              rows : [Id -> Row \cup {NoRow}]]]
    <3>1. [call[t] EXCEPT !.rows = [call[t].rows EXCEPT ![i] = held[t][i]]] \in Calling
      BY <2>2, <2>6
    <3> QED  BY <2>1, <2>5, <3>1
  <2>4. call'[t] # NoCall  BY <1>1, <1>2 DEF NoCall
  <2> QED  BY <1>1, <1>2, <2>3, <2>4 DEF TypeOK, Idle
<1>6. ProgressInv'
  <2>1. call'[t].op # "none"  BY <1>1, <1>2
  <2> QED  BY <1>1, <1>2, <2>1 DEF ProgressInv, Stored, Idle
<1>7. LockInv'  BY <1>1, <1>2 DEF LockInv, Stored
<1>8. SaveInv'  BY <1>1, <1>2 DEF SaveInv
<1>9. GivenInv'
  <2>1. \A k \in Id : call'[t].rows[k] # NoRow => call'[t].rows[k].mac = given[k]
    BY <1>4 DEF GivenInv
  <2>2. \A k \in locked[t] : call'[t].rows[k] # NoRow
    <3>1. locked[t] \subseteq Id  BY DEF TypeOK
    <3> QED  BY <1>1, <1>4, <3>1 DEF GivenInv
  <2>3. \A u \in Thread : \A k \in Id :
           /\ held'[u][k] # NoRow => held'[u][k].mac = given'[k]
           /\ call'[u].rows[k] # NoRow => call'[u].rows[k].mac = given'[k]
    <3>1. \A k \in Id : held[t][k] # NoRow => held[t][k].mac = given[k]  BY DEF GivenInv
    <3>2. \A u \in Thread \ {t} : \A k \in Id :
             /\ held[u][k] # NoRow => held[u][k].mac = given[k]
             /\ call[u].rows[k] # NoRow => call[u].rows[k].mac = given[k]
      BY DEF GivenInv
    <3>3. /\ held' = held /\ given' = given
          /\ \A u \in Thread \ {t} : call'[u].rows = call[u].rows
      BY <1>1, <1>2
    <3> QED  BY <2>1, <3>1, <3>2, <3>3
  <2>4. \A u \in Thread :
           /\ call'[u].op = "update" => \A k \in call'[u].ids : call'[u].rows[k] # NoRow
           /\ call'[u].op = "updateAll" =>
                 /\ u # Paho
                 /\ \A k \in call'[u].ids : held'[u][k] # NoRow
                 /\ \A k \in locked'[u] : call'[u].rows[k] # NoRow
           /\ call'[u].op = "deleteAll" => \A k \in call'[u].ids : given'[k] # NoMac
    <3>1. \A u \in Thread \ {t} :
             /\ call[u].op = "update" => \A k \in call[u].ids : call[u].rows[k] # NoRow
             /\ call[u].op = "updateAll" =>
                   /\ u # Paho
                   /\ \A k \in call[u].ids : held[u][k] # NoRow
                   /\ \A k \in locked[u] : call[u].rows[k] # NoRow
             /\ call[u].op = "deleteAll" => \A k \in call[u].ids : given[k] # NoMac
      BY DEF GivenInv
    <3>2. \A k \in call[t].ids : held[t][k] # NoRow  BY <1>1 DEF GivenInv
    <3>3. /\ held' = held /\ given' = given /\ locked' = locked
          /\ \A u \in Thread \ {t} : call'[u] = call[u]
          /\ call'[t].op = "updateAll" /\ call'[t].ids = call[t].ids /\ t # Paho
      BY <1>1, <1>2
    <3> QED  BY <2>2, <3>1, <3>2, <3>3
  <2> QED  BY <1>1, <2>3, <2>4 DEF GivenInv, Stored
<1>10. UniqueInv'  BY <1>1 DEF UniqueInv, Stored
<1>11. GatewayInv'  BY <1>1, <1>2, ConstantsAssumption DEF GatewayInv, Thread
<1> QED  BY <1>5, <1>6, <1>7, <1>8, <1>9, <1>10, <1>11

\* A commit that inserts: its id had no row, its address is in no other row.
LEMMA CommitSave ==
    ASSUME IInv, NEW t \in Thread, Commit(t), call[t].op = "save"
    PROVE  \E i \in Id :
             /\ call[t].ids = {i} /\ locked[t] = {i} /\ call[t].mac \in Mac
             /\ i < nextId /\ given[i] = NoMac /\ i \notin Stored
             /\ \A k \in Id : table[k].mac # call[t].mac
             /\ table' = [table EXCEPT ![i] = [mac |-> call[t].mac, status |-> 1]]
             /\ given' = [given EXCEPT ![i] = call[t].mac]
             /\ Ends(t) /\ UNCHANGED <<nextId, held>>
<1> USE DEF IInv
<1>1. todo[t] = {} /\ Ends(t) /\ UNCHANGED <<nextId, held>>  BY DEF Commit
<1>2. PICK i \in Id : call[t].ids = {i}  BY DEF SaveInv
<1>3. locked[t] = {i}  BY <1>1, <1>2 DEF ProgressInv
<1>4. call[t].mac \in Mac /\ i < nextId /\ given[i] = NoMac
      /\ \A k \in Id : table[k].mac # call[t].mac
  BY <1>2, <1>3 DEF SaveInv
<1>5. i \notin Stored
  BY <1>4, ConstantsAssumption DEF GivenInv, Stored, TypeOK, Row
<1>6. table' = [table EXCEPT ![i] = [mac |-> call[t].mac, status |-> 1]]
  BY <1>3 DEF Commit, Image, TypeOK
<1>7. given' = [given EXCEPT ![i] = call[t].mac]
  BY <1>3 DEF Commit, TypeOK
<1> QED  BY <1>1, <1>2, <1>3, <1>4, <1>5, <1>6, <1>7

\* A commit that rewrites or deletes: of the rows that are there only the
\* written ones change, all of them were there, and no address moves.
LEMMA CommitWrite ==
    ASSUME IInv, NEW t \in Thread, Commit(t), call[t].op # "save"
    PROVE  /\ locked[t] \subseteq Stored /\ locked[t] \subseteq call[t].ids
           /\ table' = [i \in Id |-> IF i \in locked[t] THEN Image(t, i) ELSE table[i]]
           /\ table' \in [Id -> Row \cup {NoRow}]
           /\ given' = given /\ Ends(t) /\ UNCHANGED <<nextId, held>>
           /\ \A i \in Id : table'[i] # NoRow => i \in Stored /\ table'[i].mac = table[i].mac
           /\ \A i \in Id \ locked[t] : table'[i] = table[i]
<1> USE DEF IInv
<1>1. locked[t] \subseteq Stored  BY DEF LockInv
<1>2. table' = [i \in Id |-> IF i \in locked[t] THEN Image(t, i) ELSE table[i]]
      /\ Ends(t) /\ UNCHANGED <<nextId, held>>
  BY DEF Commit
<1>3. given' = given  BY DEF Commit, TypeOK
<1>4. \A i \in locked[t] : Image(t, i) \in {NoRow, call[t].rows[i]}
  BY DEF Image
<1>5. \A i \in Id : call[t].rows[i] \in Row \cup {NoRow}  BY DEF TypeOK
<1>6. locked[t] \subseteq Id /\ locked[t] \subseteq call[t].ids  BY DEF TypeOK, ProgressInv
<1>7. table' \in [Id -> Row \cup {NoRow}]  BY <1>2, <1>4, <1>5, <1>6 DEF TypeOK
<1>8. ASSUME NEW i \in Id, table'[i] # NoRow
      PROVE  i \in Stored /\ table'[i].mac = table[i].mac
  <2>1. CASE i \in locked[t]
    <3>1. table'[i] = call[t].rows[i]  BY <1>2, <1>4, <1>8, <2>1
    <3> QED  BY <3>1, <1>8, <1>1, <2>1 DEF GivenInv
  <2>2. CASE i \notin locked[t]  BY <1>2, <1>8, <2>2 DEF Stored
  <2> QED  BY <2>1, <2>2
<1> QED  BY <1>1, <1>2, <1>3, <1>6, <1>7, <1>8

LEMMA CommitInv ==
    ASSUME IInv, NEW t \in Thread, Commit(t)
    PROVE  IInv'
<1> USE DEF IInv
<1>0. Ends(t) /\ UNCHANGED <<nextId, held>>  BY DEF Commit
<1>1. /\ call'[t] = NoCall /\ todo'[t] = {} /\ locked'[t] = {}
      /\ \A u \in Thread \ {t} :
            call'[u] = call[u] /\ todo'[u] = todo[u] /\ locked'[u] = locked[u]
  BY <1>0 DEF TypeOK, Ends
<1>2. NoCall.op = "none" /\ NoCall.ids = {} /\ \A i \in Id : NoCall.rows[i] = NoRow
  BY DEF NoCall, NoRows
<1>3. GatewayInv'  BY <1>1, <1>2, ConstantsAssumption DEF GatewayInv, Thread
<1>4. /\ call' \in [Thread -> [op : {"none", "save", "update", "updateAll", "delete", "deleteAll"},
                               mac : Mac \cup {NoMac}, ids : SUBSET Id,
                               rows : [Id -> Row \cup {NoRow}]]]
      /\ todo' \in [Thread -> SUBSET Id] /\ locked' \in [Thread -> SUBSET Id]
      /\ \A u \in Thread : Idle(u)' => todo'[u] = {} /\ locked'[u] = {}
  BY <1>0, <1>1 DEF TypeOK, Ends, Idle, NoCall, NoRows
<1>5. CASE call[t].op = "save"
  <2>1. PICK i \in Id :
             /\ call[t].ids = {i} /\ locked[t] = {i} /\ call[t].mac \in Mac
             /\ i < nextId /\ given[i] = NoMac /\ i \notin Stored
             /\ \A k \in Id : table[k].mac # call[t].mac
             /\ table' = [table EXCEPT ![i] = [mac |-> call[t].mac, status |-> 1]]
             /\ given' = [given EXCEPT ![i] = call[t].mac]
    BY <1>5, CommitSave
  <2>2. [mac |-> call[t].mac, status |-> 1] \in Row  BY <2>1, ConstantsAssumption DEF Row
  <2>3. /\ table'[i].mac = call[t].mac /\ table'[i] # NoRow /\ given'[i] = call[t].mac
        /\ \A k \in Id \ {i} : table'[k] = table[k] /\ given'[k] = given[k]
    BY <2>1, ConstantsAssumption DEF TypeOK, NoRow
  <2>4. Stored' = Stored \cup {i}  BY <2>3 DEF Stored
  <2>5. TypeOK'  BY <1>0, <1>4, <2>1, <2>2 DEF TypeOK
  <2>6. \A u \in Thread \ {t} : i \in call[u].ids => call[u].op = "delete"
    <3> SUFFICES ASSUME NEW u \in Thread \ {t}, i \in call[u].ids, call[u].op # "delete"
                 PROVE  FALSE
      OBVIOUS
    <3>1. call[u].op # "save"  BY <1>5, <2>1 DEF SaveInv
    <3>2. call[u].op # "deleteAll"  BY <2>1 DEF GivenInv
    <3>3. call[u].op \notin {"update", "updateAll"}
      BY <2>1, ConstantsAssumption DEF GivenInv, TypeOK, Row
    <3>4. call[u].op # "none"  BY DEF ProgressInv
    <3> QED  BY <3>1, <3>2, <3>3, <3>4 DEF TypeOK
  <2>7. ProgressInv'  BY <1>1, <1>2, <2>4, <2>6 DEF ProgressInv, Idle
  <2>8. LockInv'  BY <1>1, <1>2, <2>4 DEF LockInv
  <2>9. SaveInv'
    <3>1. \A u \in Thread \ {t} : call[u].op = "save" => i \notin call[u].ids
      BY <2>6
    <3>2. \A u \in Thread \ {t} :
             call[u].op = "save" /\ locked[u] # {} => call[u].mac # call[t].mac
      BY <1>5, <2>1 DEF SaveInv
    <3>3. \A u \in Thread : call[u].ids \subseteq Id  BY DEF TypeOK
    <3>4. ASSUME NEW u \in Thread \ {t}, call[u].op = "save"
          PROVE  /\ call[u].mac \in Mac
                 /\ \E k \in Id : call[u].ids = {k}
                 /\ \A k \in call[u].ids : k < nextId /\ given'[k] = NoMac
                 /\ locked[u] # {} => \A k \in Id : table'[k].mac # call[u].mac
      BY <2>3, <3>1, <3>2, <3>3, <3>4 DEF SaveInv
    <3>5. ASSUME NEW u \in Thread \ {t}, call[u].op = "save", NEW w \in Thread \ {t, u},
                 call[w].op = "save"
          PROVE  /\ call[u].ids \cap call[w].ids = {}
                 /\ locked[u] # {} /\ locked[w] # {} => call[w].mac # call[u].mac
      BY <3>5 DEF SaveInv
    <3> QED  BY <1>0, <1>1, <1>2, <3>4, <3>5 DEF SaveInv
  <2>10. GivenInv'
    <3>1. \A k \in Id : k >= nextId => given'[k] = NoMac
      <4>1. ~(i >= nextId)  BY <2>1, ConstantsAssumption DEF TypeOK, Id
      <4> QED  BY <4>1, <2>3 DEF GivenInv
    <3>2. \A k \in Stored' : table'[k].mac = given'[k]
      <4>1. Stored \subseteq Id  BY DEF Stored
      <4> QED  BY <2>1, <2>3, <2>4, <4>1 DEF GivenInv
    <3>3. ASSUME NEW u \in Thread
          PROVE  /\ held[u][i] = NoRow
                 /\ call[u].rows[i] = NoRow
      BY <2>1, ConstantsAssumption DEF GivenInv, TypeOK, Row
    <3>4. \A u \in Thread : \A k \in Id :
             /\ held'[u][k] # NoRow => held'[u][k].mac = given'[k]
             /\ call'[u].rows[k] # NoRow => call'[u].rows[k].mac = given'[k]
      BY <1>0, <1>1, <1>2, <2>3, <3>3 DEF GivenInv
    <3>5. \A u \in Thread :
             /\ call'[u].op = "update" => \A k \in call'[u].ids : call'[u].rows[k] # NoRow
             /\ call'[u].op = "updateAll" =>
                   /\ u # Paho
                   /\ \A k \in call'[u].ids : held'[u][k] # NoRow
                   /\ \A k \in locked'[u] : call'[u].rows[k] # NoRow
             /\ call'[u].op = "deleteAll" => \A k \in call'[u].ids : given'[k] # NoMac
      <4>1. \A u \in Thread : call[u].ids \subseteq Id  BY DEF TypeOK
      <4> QED  BY <1>0, <1>1, <1>2, <2>1, <2>3, <4>1, ConstantsAssumption DEF GivenInv
    <3> QED  BY <1>0, <3>1, <3>2, <3>4, <3>5 DEF GivenInv
  <2>11. UniqueInv'  BY <2>1, <2>3, <2>4 DEF UniqueInv, Stored
  <2> QED  BY <1>3, <2>5, <2>7, <2>8, <2>9, <2>10, <2>11
<1>6. CASE call[t].op # "save"
  <2>1. /\ locked[t] \subseteq Stored
        /\ table' \in [Id -> Row \cup {NoRow}] /\ given' = given
        /\ \A i \in Id : table'[i] # NoRow => i \in Stored /\ table'[i].mac = table[i].mac
        /\ \A i \in Id \ locked[t] : table'[i] = table[i]
    BY <1>6, CommitWrite
  <2>2. Stored' \subseteq Stored /\ \A i \in Stored' : table'[i].mac = table[i].mac
    BY <2>1 DEF Stored
  <2>3. \A u \in Thread \ {t} : call[u].op # "save" => locked[u] \subseteq Stored'
    <3> SUFFICES ASSUME NEW u \in Thread \ {t}, call[u].op # "save", NEW i \in locked[u]
                 PROVE  i \in Stored'
      OBVIOUS
    <3>1. i \in Stored /\ i \notin locked[t]  BY DEF LockInv
    <3> QED  BY <3>1, <2>1 DEF Stored
  <2>4. TypeOK'  BY <1>0, <1>4, <2>1 DEF TypeOK
  <2>5. ProgressInv'  BY <1>1, <1>2, <2>2 DEF ProgressInv, Idle
  <2>6. LockInv'  BY <1>1, <1>2, <2>3 DEF LockInv
  <2>7. SaveInv'
    <3>1. \A u \in Thread \ {t} : call[u].op = "save" /\ locked[u] # {} =>
             \A k \in Id : table'[k].mac # call[u].mac
      <4> SUFFICES ASSUME NEW u \in Thread \ {t}, call[u].op = "save", locked[u] # {},
                          NEW k \in Id, table'[k].mac = call[u].mac
                   PROVE  FALSE
        OBVIOUS
      <4>1. call[u].mac \in Mac /\ table[k].mac # call[u].mac  BY DEF SaveInv
      <4>2. table'[k] # NoRow  BY <4>1, ConstantsAssumption DEF NoRow
      <4> QED  BY <4>1, <4>2, <2>1
    <3> QED  BY <1>0, <1>1, <1>2, <2>1, <3>1 DEF SaveInv
  <2>8. GivenInv'  BY <1>0, <1>1, <1>2, <2>1, <2>2 DEF GivenInv
  <2>9. UniqueInv'  BY <2>2 DEF UniqueInv
  <2> QED  BY <1>3, <2>4, <2>5, <2>6, <2>7, <2>8, <2>9
<1> QED  BY <1>5, <1>6

-----------------------------------------------------------------------------
(* The invariant, and what it says.                                         *)

LEMMA CallsInv ==
    ASSUME IInv, NEW t \in Thread, Calls(t)
    PROVE  IInv'
<1> USE DEF IInv
<1>1. ASSUME NEW S \in SUBSET Id, Reads(t, S)
      PROVE  IInv'
  <2>1. UNCHANGED <<table, nextId, given, callVars>>  BY <1>1 DEF Reads
  <2>2. /\ held'[t] = [i \in Id |-> IF i \in S THEN table[i] ELSE NoRow]
        /\ \A u \in Thread \ {t} : held'[u] = held[u]
        /\ held' \in [Thread -> [Id -> Row \cup {NoRow}]]
    BY <1>1 DEF Reads, TypeOK
  <2>3. \A u \in Thread : \A i \in Id : held'[u][i] # NoRow => held'[u][i].mac = given[i]
    BY <2>2 DEF GivenInv, Stored
  <2>4. Idle(t)  BY <1>1 DEF Reads
  <2> QED  BY <2>1, <2>2, <2>3, <2>4, ReadInv
<1>2. Stored \in SUBSET Id /\ \A S \in SUBSET Id : S \cap Stored \in SUBSET Id
  BY DEF Stored
<1>3. ASSUME NEW i \in Id, findById(t, i)
      PROVE  IInv'
  BY <1>1, <1>3 DEF findById
<1>4. ASSUME NEW i \in Id, update(t, i)
      PROVE  IInv'
  <2> DEFINE rows == [NoRows EXCEPT ![i] = held[Keeper(t)][i]]
  <2>1. Keeper(t) \in Thread  BY DEF Keeper, Thread
  <2>2. held[Keeper(t)][i] \in Row /\ held[Keeper(t)][i] # NoRow
    BY <1>4, <2>1 DEF update, Held, TypeOK
  <2>3. rows \in [Id -> Row \cup {NoRow}] /\ rows[i] = held[Keeper(t)][i]
        /\ \A k \in Id \ {i} : rows[k] = NoRow
    BY <2>2 DEF NoRows
  <2>4. \A k \in Id : rows[k] # NoRow => rows[k].mac = given[k]
    BY <2>1, <2>2, <2>3 DEF GivenInv
  <2>5. Begins(t, "update", NoMac, {i}, rows) /\ UNCHANGED <<table, nextId, given, held>>
    BY <1>4 DEF update
  <2> HIDE DEF rows
  <2> QED  BY <2>2, <2>3, <2>4, <2>5, BeginInv
<1>0. NoRows \in [Id -> Row \cup {NoRow}] /\ \A i \in Id : NoRows[i] = NoRow
  BY DEF NoRows
<1>5. ASSUME NEW i \in Id, deleteNodeById(t, i)
      PROVE  IInv'
  BY <1>0, <1>5, BeginInv, ConstantsAssumption DEF deleteNodeById
<1>6. ASSUME NEW m \in Mac, findByMacAddress(t, m)
      PROVE  IInv'
  BY <1>1, <1>6 DEF findByMacAddress, Stored
<1>7. ASSUME NEW m \in Mac, save(t, m)
      PROVE  IInv'
  BY <1>7, SaveBeginInv
<1>8. CASE findAll(t)  BY <1>1, <1>2, <1>8 DEF findAll
<1>9. CASE updateAll(t)
  BY <1>0, <1>9, BeginInv DEF updateAll, Held
<1>10. CASE deleteAll(t)
  BY <1>0, <1>2, <1>10, BeginInv, ConstantsAssumption DEF deleteAll
<1>11. ASSUME NEW s \in Status, findByStatus(t, s)
       PROVE  IInv'
  BY <1>1, <1>11 DEF findByStatus, Stored
<1>12. ASSUME NEW s \in Status, NEW i \in Id, SetStatus(t, i, s)
       PROVE  IInv'
  <2>1. UNCHANGED <<table, nextId, given, callVars>>  BY <1>12 DEF SetStatus
  <2> DEFINE w == Keeper(t)
  <2>0. w \in Thread  BY DEF Keeper, Thread
  <2>2. held[w][i] \in Row /\ held[w][i] # NoRow  BY <1>12, <2>0 DEF SetStatus, Held, TypeOK
  <2>3. /\ held'[w][i] = [held[w][i] EXCEPT !.status = s]
        /\ \A k \in Id \ {i} : held'[w][k] = held[w][k]
        /\ \A u \in Thread \ {w} : held'[u] = held[u]
    BY <1>12, <2>0 DEF SetStatus, TypeOK
  <2>4. held'[w][i] \in Row /\ held'[w][i].mac = held[w][i].mac
    BY <2>2, <2>3 DEF Row
  <2>5. held' \in [Thread -> [Id -> Row \cup {NoRow}]]
    <3>1. \A r \in Row : [held[w] EXCEPT ![i] = r] \in [Id -> Row \cup {NoRow}]
      BY <2>0 DEF TypeOK
    <3>2. [held[w][i] EXCEPT !.status = s] \in Row  BY <2>3, <2>4
    <3>3. held' = [held EXCEPT ![w] = [held[w] EXCEPT ![i] = [held[w][i] EXCEPT !.status = s]]]
      BY <1>12, <2>0 DEF SetStatus, TypeOK
    <3> QED  BY <3>1, <3>2, <3>3 DEF TypeOK
  <2>6. held'[w][i] # NoRow  BY <2>4, ConstantsAssumption DEF Row, NoRow
  <2> HIDE DEF w
  <2>7. ASSUME NEW u \in Thread, NEW k \in Id
        PROVE  /\ held'[u][k] # NoRow => held'[u][k].mac = given[k]
               /\ held[u][k] # NoRow => held'[u][k] # NoRow
    <3>1. CASE u = w /\ k = i  BY <3>1, <2>2, <2>4, <2>6 DEF GivenInv
    <3>2. CASE ~(u = w /\ k = i)
      <4>1. held'[u][k] = held[u][k]  BY <3>2, <2>3
      <4> QED  BY <4>1 DEF GivenInv
    <3> QED  BY <3>1, <3>2
  <2> QED  BY <2>1, <2>5, <2>7, ReadInv
<1> QED
  BY <1>3, <1>4, <1>5, <1>6, <1>7, <1>8, <1>9, <1>10, <1>11, <1>12 DEF Calls

LEMMA NextInv == IInv /\ [Next]_vars => IInv'
<1> SUFFICES ASSUME IInv, [Next]_vars PROVE IInv'  OBVIOUS
<1>1. ASSUME NEW t \in Thread, Works(t)
      PROVE  IInv'
  <2>1. CASE \E i \in Id : InsertRow(t, i) \/ Take(t, i) \/ WriteRow(t, i)
    BY <2>1, InsertInv, TakeInv, WriteInv
  <2>2. CASE Commit(t)  BY <2>2, CommitInv
  <2>3. CASE DeadlockVictim(t)  BY <2>3, EndInv DEF DeadlockVictim
  <2> QED  BY <1>1, <2>1, <2>2, <2>3 DEF Works
<1>2. ASSUME NEW t \in Thread, Fails(t)
      PROVE  IInv'
  BY <1>2, EndInv DEF Fails
<1>4. CASE UNCHANGED vars
  <2>1. UNCHANGED <<table, nextId, given, held, callVars>>  BY <1>4 DEF vars
  <2>2. \A t \in Thread : \A i \in Id : held'[t][i] # NoRow => held'[t][i].mac = given[i]
    BY <2>1 DEF IInv, GivenInv
  <2> QED  BY <2>1, <2>2, ReadInv DEF IInv, TypeOK
<1> QED  BY <1>1, <1>2, <1>4, CallsInv DEF Next

LEMMA Invariance == Spec => []IInv
<1> QED  BY InitInv, NextInv, PTL DEF Spec

\* Every variable keeps its type, and a call that has ended holds no row.
THEOREM TypeCorrect == Spec => []TypeOK
<1>1. IInv => TypeOK  BY DEF IInv
<1> QED  BY <1>1, Invariance, PTL

\* However save, update, updateAll and the deletions of the threads interleave,
\* no address is in two rows and the row of an id keeps its address.
THEOREM RowsAlwaysIdentify == Spec => []RowsIdentify
<1>1. IInv => RowsIdentify
  BY DEF IInv, UniqueInv, GivenInv, RowsIdentify
<1> QED  BY <1>1, Invariance, PTL

\* updateAll on the main thread and the callback thread's transactions of one
\* row never wait for each other.
THEOREM NeverDeadlocks == Spec => []GatewayNeverDeadlocks
<1>1. IInv => GatewayNeverDeadlocks
  <2> SUFFICES ASSUME IInv, Waits(Main, Paho), Waits(Paho, Main)
               PROVE  FALSE
    BY DEF GatewayNeverDeadlocks
  <2>1. Main \in Thread /\ Paho \in Thread  BY DEF Thread
  <2>2. call[Main].op # "save"  BY DEF IInv, GatewayInv
  <2>3. todo[Main] \cap locked[Paho] # {}  BY <2>2 DEF Waits
  <2>4. todo[Paho] # {}  BY DEF Waits
  <2>5. todo[Paho] \cup locked[Paho] \subseteq call[Paho].ids
        /\ todo[Paho] \cap locked[Paho] = {}
    BY <2>1 DEF IInv, ProgressInv
  <2> QED  BY <2>3, <2>4, <2>5 DEF IInv, GatewayInv
<1> QED  BY <1>1, Invariance, PTL

-----------------------------------------------------------------------------
(* The refinement of NodeStore.                                             *)

LEMMA SameStore ==
    NoCall = Store!NoCall /\ NoRows = Store!NoRows /\ NoRow = Store!NoRow /\ Id = Store!Id
BY DEF NoCall, NoRows, NoRow, Id, Store!NoCall, Store!NoRows, Store!NoRow, Store!Id

\* A call that begins asks for what NodeStore allows.
LEMMA StoreBegin ==
    ASSUME IInv, NEW t \in Thread
    PROVE  /\ updateAll(t) \/ deleteAll(t) => Store!Next
           /\ \A i \in Id : update(t, i) \/ deleteNodeById(t, i) => Store!Next
           /\ \A m \in Mac : save(t, m) => Store!Next
<1> USE SameStore
<1>1. ASSUME NEW op \in {"save", "update", "updateAll", "delete", "deleteAll"},
             NEW m, NEW ids, NEW rows, Begins(t, op, m, ids, rows), UNCHANGED <<table, given, held>>,
             op = "update" => \E u \in Thread, i \in Id :
                 ids = {i} /\ rows = [NoRows EXCEPT ![i] = held[u][i]],
             op = "updateAll" => ids = {i \in Id : held[t][i] # NoRow} /\ rows = NoRows
      PROVE  Store!Next
  <2>1. /\ call[t] = NoCall /\ call' = [call EXCEPT ![t] = call'[t]]
        /\ call'[t].op = op /\ call'[t].ids = ids /\ call'[t].rows = rows
    BY <1>1 DEF Begins, Idle, IInv, TypeOK
  <2>2. call'[t] # NoCall  BY <2>1 DEF NoCall
  <2>3. op = "update" => \E u \in Thread, i \in Id :
           /\ call'[t].ids = {i}
           /\ call'[t].rows = [NoRows EXCEPT ![i] = held[u][i]]
    BY <1>1, <2>1
  <2>4. op = "updateAll" =>
           call'[t].ids = {i \in Id : held[t][i] # NoRow} /\ call'[t].rows = NoRows
    BY <1>1, <2>1
  <2>5. Store!Begin(t)  BY <1>1, <2>1, <2>2, <2>3, <2>4 DEF Store!Begin
  <2> QED  BY <2>5 DEF Store!Next
<1>2. Keeper(t) \in Thread /\ (t # Paho => Keeper(t) = t)  BY DEF Keeper, Thread
<1>3. updateAll(t) => Store!Next  BY <1>1, <1>2 DEF updateAll, Held
<1>4. deleteAll(t) => Store!Next  BY <1>1 DEF deleteAll
<1>5. \A i \in Id : update(t, i) => Store!Next  BY <1>1, <1>2 DEF update
<1>6. \A i \in Id : deleteNodeById(t, i) => Store!Next  BY <1>1 DEF deleteNodeById
<1>7. \A m \in Mac : save(t, m) => Store!Next  BY <1>1 DEF save
<1> QED  BY <1>3, <1>4, <1>5, <1>6, <1>7

\* A change of a copy is one of its status.
LEMMA StoreChange ==
    ASSUME IInv, NEW t \in Thread, NEW i \in Id, NEW s \in Status, SetStatus(t, i, s)
    PROVE  Store!Next
<1> DEFINE w == Keeper(t)
<1>1. w \in Thread  BY DEF Keeper, Thread
<1>2. held[w][i] # NoRow /\ held[w][i] \in Row
  BY <1>1 DEF SetStatus, Held, IInv, TypeOK
<1>3. held' = [held EXCEPT ![w][i].status = s] /\ UNCHANGED <<table, given, call>>
  BY DEF SetStatus, callVars
<1>4. held'[w][i].status = s
  <2>1. held'[w][i] = [held[w][i] EXCEPT !.status = s]  BY <1>1, <1>3 DEF IInv, TypeOK
  <2> QED  BY <1>2, <2>1 DEF Row
<1> HIDE DEF w
<1>5. Store!Change(w, i)  BY <1>2, <1>3, <1>4, SameStore DEF Store!Change
<1> QED  BY <1>1, <1>5, SameStore DEF Store!Next

LEMMA StoreTake ==
    ASSUME IInv, NEW t \in Thread, NEW i \in Id, Take(t, i)
    PROVE  Store!Next
<1>1. Keeper(t) = t /\ i \in call[t].ids
  BY DEF Take, Keeper, IInv, GivenInv, ProgressInv
<1>2. Store!TakeCopy(t, i)  BY <1>1, SameStore DEF Take, Store!TakeCopy
<1> QED  BY <1>2, SameStore DEF Store!Next

LEMMA StoreCommit ==
    ASSUME IInv, NEW t \in Thread, Commit(t)
    PROVE  Store!Next
<1> USE DEF IInv
<1>0. UNCHANGED held  BY DEF Commit
<1>1. todo[t] = {} /\ ~Idle(t) /\ Ends(t)  BY DEF Commit
<1>2. Store!Ends(t)  BY <1>1 DEF Ends, Store!Ends, NoCall, NoRows, Store!NoCall, Store!NoRows,
                                 Id, Store!Id, NoRow, Store!NoRow
<1>3. Id = Store!Id /\ NoRow = Store!NoRow  BY DEF Id, Store!Id, NoRow, Store!NoRow
<1>4. CASE call[t].op = "save"
  <2>1. PICK i \in Id :
             /\ call[t].ids = {i} /\ given[i] = NoMac
             /\ \A k \in Id : table[k].mac # call[t].mac
             /\ table' = [table EXCEPT ![i] = [mac |-> call[t].mac, status |-> 1]]
             /\ given' = [given EXCEPT ![i] = call[t].mac]
    BY <1>4, CommitSave
  <2>2. Store!Insert(t)  BY <1>0, <1>2, <1>3, <1>4, <2>1 DEF Store!Insert
  <2> QED  BY <2>2 DEF Store!Next
<1>5. CASE call[t].op # "save"
  <2>1. /\ locked[t] \subseteq Stored /\ locked[t] \subseteq call[t].ids /\ given' = given
        /\ table' = [i \in Id |-> IF i \in locked[t] THEN Image(t, i) ELSE table[i]]
    BY <1>5, CommitWrite
  <2>2. CASE call[t].op \in {"update", "updateAll"}
    <3>1. locked[t] = call[t].ids  BY <1>1, <2>2 DEF ProgressInv
    <3>2. \A i \in call[t].ids : call[t].rows[i] # NoRow  BY <2>2, <3>1 DEF GivenInv
    <3>3. Store!Rewrite(t)
      BY <1>0, <1>2, <1>3, <2>1, <2>2, <3>1, <3>2 DEF Store!Rewrite, Image, Stored
    <3> QED  BY <3>3 DEF Store!Next
  <2>3. CASE call[t].op = "delete"
    <3>1. locked[t] = call[t].ids  BY <1>1, <2>3 DEF ProgressInv
    <3>2. Store!Erase(t)
      BY <1>0, <1>2, <1>3, <2>1, <2>3, <3>1 DEF Store!Erase, Image, Stored
    <3> QED  BY <3>2 DEF Store!Next
  <2>4. CASE call[t].op = "deleteAll"
    <3>1. \A i \in call[t].ids : i \in locked[t] \/ table[i] = NoRow
      <4>1. call[t].ids \subseteq Id  BY DEF TypeOK
      <4> QED  BY <1>1, <2>4, <4>1 DEF ProgressInv, Stored, Idle
    <3>2. table' = [i \in Id |-> IF i \in call[t].ids THEN NoRow ELSE table[i]]
      BY <2>1, <2>4, <3>1 DEF Image
    <3>3. Store!Erase(t)  BY <1>0, <1>2, <1>3, <2>1, <2>4, <3>2 DEF Store!Erase
    <3> QED  BY <3>3 DEF Store!Next
  <2>5. call[t].op # "none"
    <3> SUFFICES ASSUME call[t].op = "none" PROVE FALSE  OBVIOUS
    <3> QED  BY <1>1 DEF ProgressInv, Idle
  <2> QED  BY <1>5, <2>2, <2>3, <2>4, <2>5 DEF TypeOK
<1> QED  BY <1>4, <1>5

\* Every call takes effect as a whole or not at all, whatever the transactions
\* of the other threads do meanwhile.
THEOREM RefinesStore == Spec => ImplementsStore
<1>1. Init => Store!Init  BY SameStore DEF Init, Store!Init
<1>2. IInv /\ [Next]_vars => [Store!Next]_(Store!vars)
  <2> SUFFICES ASSUME IInv, [Next]_vars
               PROVE  [Store!Next]_(Store!vars)
    OBVIOUS
  <2>0. NoCall = Store!NoCall /\ NoRows = Store!NoRows /\ NoRow = Store!NoRow /\ Id = Store!Id
    BY SameStore
  <2>1. ASSUME UNCHANGED <<table, given, call, held>>
        PROVE  [Store!Next]_(Store!vars)
    BY <2>1 DEF Store!vars
  <2>2. ASSUME NEW t \in Thread, Ends(t), ~Idle(t), UNCHANGED <<table, given, held>>
        PROVE  Store!Next
    BY <2>0, <2>2 DEF Ends, Idle, Store!NoEffect, Store!Ends, Store!Next
  <2>3. ASSUME NEW t \in Thread, NEW S \in SUBSET Id, Reads(t, S)
        PROVE  Store!Next
    BY <2>0, <2>3 DEF Reads, Idle, callVars, Store!Find, Store!Next
  <2>4. ASSUME NEW t \in Thread, Calls(t)
        PROVE  [Store!Next]_(Store!vars)
    BY <2>0, <2>3, <2>4, StoreBegin, StoreChange
       DEF Calls, findById, findAll, findByStatus, findByMacAddress, Stored
  <2>5. ASSUME NEW t \in Thread, Works(t)
        PROVE  [Store!Next]_(Store!vars)
    <3>1. ASSUME NEW i \in Id, InsertRow(t, i) \/ WriteRow(t, i)
          PROVE  [Store!Next]_(Store!vars)
      <4>1. ~Idle(t)  BY <3>1 DEF InsertRow, WriteRow, Idle, NoCall
      <4> QED  BY <2>1, <2>2, <3>1, <4>1 DEF InsertRow, WriteRow
    <3>2. CASE Commit(t)  BY <3>2, StoreCommit
    <3>3. CASE DeadlockVictim(t)
      <4>1. ~Idle(t)
        BY <3>3 DEF DeadlockVictim, Waits, IInv, TypeOK
      <4> QED  BY <2>2, <3>3, <4>1 DEF DeadlockVictim
    <3>4. ASSUME NEW i \in Id, Take(t, i)
          PROVE  Store!Next
      BY <3>4, StoreTake
    <3> QED  BY <2>5, <3>1, <3>2, <3>3, <3>4 DEF Works
  <2>6. ASSUME NEW t \in Thread, Fails(t)
        PROVE  Store!Next
    BY <2>2, <2>6 DEF Fails
  <2>8. CASE UNCHANGED vars  BY <2>1, <2>8 DEF vars, callVars
  <2> QED  BY <2>4, <2>5, <2>6, <2>8 DEF Next
<1> QED  BY <1>1, <1>2, Invariance, PTL DEF Spec, ImplementsStore, Store!Spec

=============================================================================
