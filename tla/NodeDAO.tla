------------------------------- MODULE NodeDAO -------------------------------
(***************************************************************************)
(* NodeDAOImpl over PostgreSQL: the transactions of several threads.  Each *)
(* operation is one transaction; a writing one takes the rows it writes    *)
(* one by one, waits where another open transaction has written the row,   *)
(* and keeps its rows until it commits or an exception rolls it back.      *)
(* Reads see committed rows only (READ COMMITTED).  A caller changes Node  *)
(* copies that it got from an earlier read and writes these back; those of *)
(* the main thread (mNodes) the callback thread changes too, also while    *)
(* updateAll(mNodes) is at work, which takes each copy at its own UPDATE.  *)
(***************************************************************************)
EXTENDS Naturals

CONSTANTS
    Main,        \* the Qt main thread (KeepAliveService)
    Paho,        \* the callback thread (RegisterService, KeepAliveService)
    Tools,       \* other callers, which use the whole interface
    Mac, NoMac,  \* the addresses, and none
    Status,      \* the values of the status column, 1 for ACTIVE among them
    MaxId        \* bound: the largest id that the sequence gives out

Thread == {Main, Paho} \cup Tools

ASSUME ConstantsAssumption ==
    /\ NoMac \notin Mac
    /\ 1 \in Status
    /\ MaxId \in Nat
    /\ Main # Paho /\ Main \notin Tools /\ Paho \notin Tools

VARIABLES
    table,       \* the committed row of every id, NoRow where there is none
    nextId,      \* the sequence that the table takes ids from
    given,       \* history: the address of the row that an id was given to
    held,        \* the Node copies that every thread keeps, by id; mNodes is Main's
    call,        \* the call of every thread: what is to be written
    todo,        \* the rows that it has still to write
    locked       \* the rows that it has written and not yet committed

callVars == <<call, todo, locked>>
vars == <<table, nextId, given, held, callVars>>

-----------------------------------------------------------------------------
Id == 1..MaxId
Row == [mac : Mac, status : Status]
NoRow == [mac |-> NoMac, status |-> 0]
NoRows == [i \in Id |-> NoRow]
NoCall == [op |-> "none", mac |-> NoMac, ids |-> {}, rows |-> NoRows]

Stored == {i \in Id : table[i] # NoRow}

\* The callback thread works on mNodes, and keeps nothing of its own reads.
Keeper(t) == IF t = Paho THEN Main ELSE t
Held(t) == {i \in Id : held[Keeper(t)][i] # NoRow}

Idle(t) == call[t] = NoCall
Begins(t, op, mac, ids, rows) ==
    /\ Idle(t)
    /\ call' = [call EXCEPT ![t] = [op |-> op, mac |-> mac, ids |-> ids, rows |-> rows]]
    /\ todo' = [todo EXCEPT ![t] = ids]
    /\ UNCHANGED locked

\* The call returns or throws: its transaction is over.
Ends(t) ==
    /\ call' = [call EXCEPT ![t] = NoCall]
    /\ todo' = [todo EXCEPT ![t] = {}]
    /\ locked' = [locked EXCEPT ![t] = {}]

Taken(t, i) == \E u \in Thread \ {t} : i \in locked[u]

-----------------------------------------------------------------------------
(* The reads: one statement each.                                           *)

Reads(t, S) ==
    /\ Idle(t)
    /\ held' = [held EXCEPT ![t] = [i \in Id |-> IF i \in S THEN table[i] ELSE NoRow]]
    /\ UNCHANGED <<table, nextId, given, callVars>>

findById(t, i) == t \in Tools /\ Reads(t, {i})
findAll(t) == t # Paho /\ Reads(t, Stored)
findByStatus(t, s) == t \in Tools /\ Reads(t, {i \in Stored : table[i].status = s})
\* RegisterService keeps no more than the id of what it finds.
findByMacAddress(t, m) == t \in Tools /\ Reads(t, {i \in Stored : table[i].mac = m})

\* set_status of a copy; handleReplyKeepAlive stores into mNodes, whatever the
\* main thread is doing with it.
SetStatus(t, i, s) ==
    /\ Idle(t) /\ i \in Held(t)
    /\ held' = [held EXCEPT ![Keeper(t)][i].status = s]
    /\ UNCHANGED <<table, nextId, given, callVars>>

-----------------------------------------------------------------------------
(* The writes.                                                              *)

\* persist(): the statement takes its id from the sequence first.
save(t, m) ==
    /\ t # Main
    /\ nextId <= MaxId
    /\ Begins(t, "save", m, {nextId}, NoRows)
    /\ nextId' = nextId + 1
    /\ UNCHANGED <<table, given, held>>

\* The caller makes a copy of its own for the call.
update(t, i) ==
    /\ i \in Held(t)
    /\ Begins(t, "update", NoMac, {i}, [NoRows EXCEPT ![i] = held[Keeper(t)][i]])
    /\ UNCHANGED <<table, nextId, given, held>>

\* Mutant: the callback thread writes back the whole cache as well.
updateAllByBoth(t) ==
    /\ Begins(t, "updateAll", NoMac, Held(t), NoRows)
    /\ UNCHANGED <<table, nextId, given, held>>

\* The vector comes by reference: no copy is taken yet.
updateAll(t) ==
    /\ t # Paho
    /\ Begins(t, "updateAll", NoMac, Held(t), NoRows)
    /\ UNCHANGED <<table, nextId, given, held>>

deleteNodeById(t, i) ==
    /\ t \in Tools
    /\ Begins(t, "delete", NoMac, {i}, NoRows)
    /\ UNCHANGED <<table, nextId, given, held>>

\* erase_query: one statement over the rows that it finds committed.
deleteAll(t) ==
    /\ t \in Tools
    /\ Begins(t, "deleteAll", NoMac, Stored, NoRows)
    /\ UNCHANGED <<table, nextId, given, held>>

-----------------------------------------------------------------------------
(* The statements of an open transaction.                                   *)

\* The address may be in a row that an open transaction inserts or deletes:
\* the insertion waits for its end.
MacInDoubt(t, m) ==
    \E u \in Thread \ {t} : \E i \in locked[u] :
        table[i].mac = m \/ (call[u].op = "save" /\ call[u].mac = m)

\* Mutant: the address is not declared unique.
InsertRowFreely(t, i) ==
    /\ call[t].op = "save" /\ i \in todo[t]
    /\ todo' = [todo EXCEPT ![t] = {}]
    /\ locked' = [locked EXCEPT ![t] = {i}]
    /\ UNCHANGED <<call, table, nextId, given, held>>

InsertRow(t, i) ==
    /\ call[t].op = "save" /\ i \in todo[t]
    /\ ~MacInDoubt(t, call[t].mac)
    /\ IF \E k \in Stored : table[k].mac = call[t].mac
       THEN Ends(t)                                  \* the unique constraint: it throws
       ELSE /\ todo' = [todo EXCEPT ![t] = {}]
            /\ locked' = [locked EXCEPT ![t] = {i}]
            /\ UNCHANGED call
    /\ UNCHANGED <<table, nextId, given, held>>

\* updateAll takes the copy of a row when it comes to it; what an update that
\* waits for another transaction's row writes was taken before it waited.
Take(t, i) ==
    /\ call[t].op = "updateAll" /\ i \in todo[t] /\ call[t].rows[i] = NoRow
    /\ \A k \in todo[t] : call[t].rows[k] = NoRow
    /\ call' = [call EXCEPT ![t].rows[i] = held[Keeper(t)][i]]
    /\ UNCHANGED <<todo, locked, table, nextId, given, held>>

\* The row i is what t has come to.
AtRow(t, i) == call[t].op = "updateAll" => call[t].rows[i] # NoRow

\* Mutant: a row that is not there is passed over.
WriteRowOrSkip(t, i) ==
    /\ call[t].op \notin {"none", "save"} /\ i \in todo[t]
    /\ AtRow(t, i) /\ ~Taken(t, i)
    /\ todo' = [todo EXCEPT ![t] = @ \ {i}]
    /\ locked' = IF i \in Stored THEN [locked EXCEPT ![t] = @ \cup {i}] ELSE locked
    /\ UNCHANGED <<call, table, nextId, given, held>>

\* UPDATE or DELETE of a row; update() and erase() of one that is not there
\* throw object_not_persistent, erase_query() passes it over.
WriteRow(t, i) ==
    /\ call[t].op \notin {"none", "save"} /\ i \in todo[t]
    /\ AtRow(t, i) /\ ~Taken(t, i)
    /\ IF i \in Stored \/ call[t].op = "deleteAll"
       THEN /\ todo' = [todo EXCEPT ![t] = @ \ {i}]
            /\ locked' = IF i \in Stored THEN [locked EXCEPT ![t] = @ \cup {i}] ELSE locked
            /\ UNCHANGED call
       ELSE Ends(t)
    /\ UNCHANGED <<table, nextId, given, held>>

\* What the transaction of t makes of a row that it has written.
Image(t, i) ==
    CASE call[t].op = "save" -> [mac |-> call[t].mac, status |-> 1]
      [] call[t].op \in {"update", "updateAll"} -> call[t].rows[i]
      [] OTHER -> NoRow

Commit(t) ==
    /\ ~Idle(t) /\ todo[t] = {}
    /\ table' = [i \in Id |-> IF i \in locked[t] THEN Image(t, i) ELSE table[i]]
    /\ given' = [i \in Id |-> IF i \in locked[t] /\ call[t].op = "save"
                              THEN call[t].mac ELSE given[i]]
    /\ Ends(t)
    /\ UNCHANGED <<nextId, held>>

\* Mutant: the exception leaves the transaction open.
FailsOpen(t) ==
    /\ ~Idle(t)
    /\ call' = [call EXCEPT ![t] = NoCall]
    /\ todo' = [todo EXCEPT ![t] = {}]
    /\ UNCHANGED <<locked, table, nextId, given, held>>

\* The connection or a statement fails: the transaction's destructor rolls back.
Fails(t) ==
    /\ ~Idle(t)
    /\ Ends(t)
    /\ UNCHANGED <<table, nextId, given, held>>

-----------------------------------------------------------------------------
(* Waiting for each other.                                                  *)

Waits(t, u) ==
    /\ t # u
    /\ \/ \E i \in todo[t] \cap locked[u] : AtRow(t, i)
       \/ call[t].op = "save" /\ todo[t] # {} /\
          \E i \in locked[u] : table[i].mac = call[t].mac
                               \/ (call[u].op = "save" /\ call[u].mac = call[t].mac)

\* PostgreSQL finds two that wait for each other, and one of them throws.
DeadlockVictim(t) ==
    /\ \E u \in Thread : Waits(t, u) /\ Waits(u, t)
    /\ Ends(t)
    /\ UNCHANGED <<table, nextId, given, held>>

-----------------------------------------------------------------------------
Init ==
    /\ table = NoRows
    /\ nextId = 1
    /\ given = [i \in Id |-> NoMac]
    /\ held = [t \in Thread |-> NoRows]
    /\ call = [t \in Thread |-> NoCall]
    /\ todo = [t \in Thread |-> {}]
    /\ locked = [t \in Thread |-> {}]

Calls(t) ==
    \/ \E i \in Id : findById(t, i) \/ update(t, i) \/ deleteNodeById(t, i)
    \/ \E m \in Mac : findByMacAddress(t, m) \/ save(t, m)
    \/ findAll(t) \/ updateAll(t) \/ deleteAll(t)
    \/ \E s \in Status : \/ findByStatus(t, s)
                        \/ \E i \in Id : SetStatus(t, i, s)

Works(t) ==
    \/ \E i \in Id : InsertRow(t, i) \/ Take(t, i) \/ WriteRow(t, i)
    \/ Commit(t)
    \/ DeadlockVictim(t)

Next == \E t \in Thread : Calls(t) \/ Works(t) \/ Fails(t)

\* The database gets on with every open transaction.
Fairness == \A t \in Thread : SF_vars(Works(t))

Spec == Init /\ [][Next]_vars
FairSpec == Spec /\ Fairness

-----------------------------------------------------------------------------
(* Properties.                                                              *)

\* Every variable has its type; a call without a transaction holds no row.
TypeOK ==
    /\ table \in [Id -> Row \cup {NoRow}]
    /\ nextId \in 1..MaxId + 1
    /\ given \in [Id -> Mac \cup {NoMac}]
    /\ held \in [Thread -> [Id -> Row \cup {NoRow}]]
    /\ call \in [Thread -> [op : {"none", "save", "update", "updateAll", "delete", "deleteAll"},
                            mac : Mac \cup {NoMac}, ids : SUBSET Id,
                            rows : [Id -> Row \cup {NoRow}]]]
    /\ todo \in [Thread -> SUBSET Id] /\ locked \in [Thread -> SUBSET Id]
    /\ \A t \in Thread : Idle(t) => todo[t] = {} /\ locked[t] = {}

\* No address is in two rows, however the insertions of two threads interleave
\* with each other and with deletions, and the row of an id keeps the address
\* that the id was given to: no copy written back late puts a row in another's
\* place.
RowsIdentify ==
    /\ \A i, k \in Stored : table[i].mac = table[k].mac => i = k
    /\ \A i \in Stored : table[i].mac = given[i]

\* The two threads of the gateway never wait for each other: updateAll holds
\* the rows it has written while it waits, and the only other writer, update()
\* or save() on the callback thread, has nothing to wait for once it has
\* written its one row.
GatewayNeverDeadlocks == ~(Waits(Main, Paho) /\ Waits(Paho, Main))

\* Every call takes effect as a whole or not at all: updateAll() writes all the
\* nodes or, when one of them has no row any more, none.  What it writes of a
\* node is what the cache held at some moment of the call, for each node at its
\* own: the callback thread changes entries meanwhile.
Store == INSTANCE NodeStore WITH want <- call, copies <- held
ImplementsStore == Store!Spec

\* Every call returns or throws, deadlocks of other callers included.
CallsEnd == \A t \in Thread : []<>Idle(t)

=============================================================================
