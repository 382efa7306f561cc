------------------------------ MODULE KeepAlive ------------------------------
(***************************************************************************)
(* The KeepAliveService: the cache mNodes of the table of nodes, the three *)
(* timers and the posted reload that the Qt main thread runs over it, and  *)
(* the keepAlive replies that the MQTT client's callback thread handles    *)
(* over the same vector.  The code takes no lock: a step below is one      *)
(* access of one thread to the cache or to the database, and the steps of  *)
(* the two threads interleave.                                             *)
(*                                                                         *)
(* Time is the age, in whole seconds, of every time stamp the code keeps   *)
(* (datetime::now() drops the fraction of a second), so that the passing   *)
(* of a second makes every age one larger and the state stays finite.      *)
(***************************************************************************)
EXTENDS Integers, FiniteSets

CONSTANTS
    Node,        \* nodes whose rows are observed: an (id, MAC address) pair each
    NoNode,      \* no node at all
    Timeout,     \* mTimeout, in seconds
    MaxPass,     \* bound: a pass of checkExistingNodeActive spans so many seconds
    MaxReloads,  \* bound on the getAllNode calls posted and not yet run
    MaxCrashes   \* bound on the times the process dies

ASSUME ConstantsAssumption ==
    /\ NoNode \notin Node
    /\ Timeout \in Nat
    /\ MaxPass \in Nat
    /\ MaxReloads \in Nat \ {0}
    /\ MaxCrashes \in Nat

VARIABLES
    table,       \* the rows of the database: what update() and findAll() see
    up,          \* the gateway process runs
    crashes,     \* how often it has died (bounded by MaxCrashes)
    mNodes,      \* the cache: a row for every node the service knows
    reloads,     \* getAllNode calls posted to the main thread
    link,        \* the node at the other end: dead, quiet, or a reply in flight
    mpc,         \* where the main thread is
    todo,        \* the nodes its loop has still to visit
    cur,         \* the node its loop body works on
    passAge,     \* how long ago checkExistingNodeActive read the clock
    mCopy,       \* the Node copy that it passes to update()
    fetched,     \* the rows findAll() returned, not yet assigned to mNodes
    txn,         \* the rows updateAll() has written and not yet committed
    ppc,         \* where the callback thread is
    pNode,       \* the node whose reply it handles
    pCopy,       \* the Node copy that it passes to update()
    onOld,       \* its reference points into a vector that was replaced
    old,         \* what that freed element holds
    heard,       \* history: age of the last reply received from a node
    stale,       \* history: the cached row was read back since its last reply
    clash,       \* history: both threads worked on the node's row at once
    orphans      \* history: rows saved by a registration that then failed

mainVars == <<mpc, todo, cur, passAge, mCopy, fetched, txn>>
pahoVars == <<ppc, pNode, pCopy, onOld, old>>
vars == <<table, up, crashes, mNodes, reloads, link, mainVars, pahoVars,
          heard, stale, clash, orphans>>

-----------------------------------------------------------------------------
(* Data.  An age above Timeout + MaxPass decides every comparison of the    *)
(* code in the same way, so ages saturate there.                            *)

Cap == Timeout + MaxPass + 1
Age == 0..Cap
Entry == [status : {0, 1}, age : Age]
Rows == UNION {[S -> Entry] : S \in SUBSET Node}
NoRows == [n \in {} |-> [status |-> 0, age |-> 0]]
Blank == [status |-> 0, age |-> 0]

InCheck == mpc \in {"judge", "mark", "stamp", "copy", "write"}

\* The main thread is about to write, or to replace, the row of n.
MainOn(n) ==
    \/ mpc \in {"mark", "stamp", "copy", "write"} /\ cur = n
    \/ mpc = "sync" /\ n \in DOMAIN txn
    \/ mpc = "assign"

\* The callback thread handles a reply from n.
PahoOn(n) == ppc # "idle" /\ pNode = n

\* The element of the vector that the loop of handleReplyKeepAlive refers to.
PahoEntry == IF onOld THEN old ELSE mNodes[pNode]

\* The vector, and the freed element, once that loop has stored e there.
CacheWith(e) == IF onOld THEN mNodes ELSE [mNodes EXCEPT ![pNode] = e]
OldWith(e) == IF onOld THEN e ELSE old

Older(a) == IF a < Cap THEN a + 1 ELSE a
OlderEntry(e) == [e EXCEPT !.age = Older(@)]
OlderRows(f) == [n \in DOMAIN f |-> OlderEntry(f[n])]

-----------------------------------------------------------------------------
(* The surroundings: time, the nodes, the other devices that register.      *)

Tick ==
    /\ InCheck => passAge < MaxPass
    /\ passAge' = IF InCheck THEN passAge + 1 ELSE passAge
    /\ table' = OlderRows(table)
    /\ mNodes' = OlderRows(mNodes)
    /\ fetched' = OlderRows(fetched)
    /\ txn' = OlderRows(txn)
    /\ mCopy' = OlderEntry(mCopy)
    /\ pCopy' = OlderEntry(pCopy)
    /\ old' = OlderEntry(old)
    /\ heard' = [n \in Node |-> Older(heard[n])]
    /\ UNCHANGED <<up, crashes, reloads, link, mpc, todo, cur, ppc, pNode,
                   onOld, stale, clash, orphans>>

\* A node stops for a while or for good, or comes back.
NodeDies(n) ==
    /\ link[n] # "dead"
    /\ link' = [link EXCEPT ![n] = "dead"]
    /\ UNCHANGED <<table, up, crashes, mNodes, reloads, mainVars, pahoVars,
                   heard, stale, clash, orphans>>

NodeRevives(n) ==
    /\ link[n] = "dead"
    /\ link' = [link EXCEPT ![n] = "quiet"]
    /\ UNCHANGED <<table, up, crashes, mNodes, reloads, mainVars, pahoVars,
                   heard, stale, clash, orphans>>

\* QoS 0: a request or its reply can be lost.
ReplyLost(n) ==
    /\ link[n] = "replying"
    /\ link' = [link EXCEPT ![n] = "quiet"]
    /\ UNCHANGED <<table, up, crashes, mNodes, reloads, mainVars, pahoVars,
                   heard, stale, clash, orphans>>

NewRow(n) == [k \in DOMAIN table \cup {n} |->
                 IF k = n THEN [status |-> 1, age |-> 0] ELSE table[k]]

\* Mutant: the new node goes into the cache and is not saved.
RegisterUnsaved(n) ==
    /\ up /\ ppc = "idle" /\ link[n] # "dead"
    /\ n \notin DOMAIN mNodes
    /\ mNodes' = [k \in DOMAIN mNodes \cup {n} |->
                     IF k = n THEN [status |-> 1, age |-> 0] ELSE mNodes[k]]
    /\ UNCHANGED <<table, up, crashes, reloads, link, mainVars, pahoVars,
                   heard, stale, clash, orphans>>

\* Mutant: the new node is saved and no reload is posted.
RegisterUnannounced(n) ==
    /\ up /\ ppc = "idle" /\ link[n] # "dead"
    /\ n \notin DOMAIN table
    /\ table' = NewRow(n)
    /\ heard' = [heard EXCEPT ![n] = 0]
    /\ UNCHANGED <<up, crashes, mNodes, reloads, link, mainVars, pahoVars,
                   stale, clash, orphans>>

\* processRegisterMessage on the callback thread for a new node: the row is
\* saved ACTIVE and the reload is posted to the main thread.
RegisterNode(n) ==
    /\ up /\ ppc = "idle" /\ link[n] # "dead"
    /\ n \notin DOMAIN table
    /\ reloads < MaxReloads
    /\ table' = NewRow(n)
    /\ reloads' = reloads + 1
    /\ heard' = [heard EXCEPT ![n] = 0]
    /\ UNCHANGED <<up, crashes, mNodes, link, mainVars, pahoVars, stale, clash, orphans>>

\* The refetch that follows the save throws, and processRegisterMessage catches
\* it: the row is there and no reload is posted.
RegisterFails(n) ==
    /\ up /\ ppc = "idle" /\ link[n] # "dead"
    /\ n \notin DOMAIN table
    /\ table' = NewRow(n)
    /\ orphans' = orphans \cup {n}
    /\ UNCHANGED <<up, crashes, mNodes, reloads, link, mainVars, pahoVars,
                   heard, stale, clash>>

\* A node outside Node registers: all that is seen of it is the reload.
OtherRegisters ==
    /\ up /\ ppc = "idle"
    /\ reloads < MaxReloads
    /\ reloads' = reloads + 1
    /\ UNCHANGED <<table, up, crashes, mNodes, link, mainVars, pahoVars,
                   heard, stale, clash, orphans>>

-----------------------------------------------------------------------------
(* The main thread.                                                         *)

\* mTimerSendKeepAlive: ask every cached node; the nodes that live answer.
SendKeepAlive ==
    /\ up /\ mpc = "idle"
    /\ link' = [n \in Node |-> IF n \in DOMAIN mNodes /\ link[n] = "quiet"
                               THEN "replying" ELSE link[n]]
    /\ UNCHANGED <<table, up, crashes, mNodes, reloads, mainVars, pahoVars,
                   heard, stale, clash, orphans>>

\* getAllNode: findAll() returns the committed rows ...
ReloadQuery ==
    /\ up /\ mpc = "idle" /\ reloads > 0
    /\ reloads' = reloads - 1
    /\ fetched' = table
    /\ mpc' = "assign"
    /\ clash' = [n \in Node |-> PahoOn(n)]
    /\ UNCHANGED <<table, up, crashes, mNodes, link, todo, cur, passAge, mCopy,
                   txn, pahoVars, heard, stale, orphans>>

\* ... and the assignment frees the vector that a loop of the callback thread
\* may stand in: from there on it works on the freed element.
ReloadAssign ==
    /\ mpc = "assign"
    /\ mNodes' = fetched
    /\ fetched' = NoRows
    /\ mpc' = "idle"
    /\ stale' = [n \in Node |-> TRUE]
    /\ IF ppc \in {"found", "touch", "stamp", "copy"} /\ ~onOld
       THEN onOld' = TRUE /\ old' = mNodes[pNode]
       ELSE UNCHANGED <<onOld, old>>
    /\ orphans' = orphans \ DOMAIN fetched
    /\ UNCHANGED <<table, up, crashes, reloads, link, todo, cur, passAge, mCopy,
                   txn, ppc, pNode, pCopy, heard, clash>>

\* mTimerCheckNodeAlive: both clock reads come before the loop.
CheckBegin ==
    /\ up /\ mpc = "idle"
    /\ todo' = DOMAIN mNodes
    /\ passAge' = 0
    /\ mpc' = "judge"
    /\ UNCHANGED <<table, up, crashes, mNodes, reloads, link, cur, mCopy,
                   fetched, txn, pahoVars, heard, stale, clash, orphans>>

TimedOut(n) ==
    /\ mNodes[n].status = 1
    /\ mNodes[n].age - passAge > Timeout

JudgeTimedOut(n) ==
    /\ mpc = "judge" /\ n \in todo
    /\ TimedOut(n)
    /\ cur' = n
    /\ mpc' = "mark"
    /\ clash' = [clash EXCEPT ![n] = @ \/ PahoOn(n)]
    /\ UNCHANGED <<table, up, crashes, mNodes, reloads, link, todo, passAge,
                   mCopy, fetched, txn, pahoVars, heard, stale, orphans>>

JudgeFine(n) ==
    /\ mpc = "judge" /\ n \in todo
    /\ ~TimedOut(n)
    /\ todo' = todo \ {n}
    /\ UNCHANGED <<table, up, crashes, mNodes, reloads, link, mpc, cur, passAge,
                   mCopy, fetched, txn, pahoVars, heard, stale, clash, orphans>>

MarkInactive ==
    /\ mpc = "mark"
    /\ mNodes' = [mNodes EXCEPT ![cur].status = 0]
    /\ mpc' = "stamp"
    /\ UNCHANGED <<table, up, crashes, reloads, link, todo, cur, passAge, mCopy,
                   fetched, txn, pahoVars, heard, stale, clash, orphans>>

StampInactive ==
    /\ mpc = "stamp"
    /\ mNodes' = [mNodes EXCEPT ![cur].age = passAge]
    /\ mpc' = "copy"
    /\ UNCHANGED <<table, up, crashes, reloads, link, todo, cur, passAge, mCopy,
                   fetched, txn, pahoVars, heard, stale, clash, orphans>>

CopyInactive ==
    /\ mpc = "copy"
    /\ mCopy' = mNodes[cur]
    /\ mpc' = "write"
    /\ UNCHANGED <<table, up, crashes, mNodes, reloads, link, todo, cur, passAge,
                   fetched, txn, pahoVars, heard, stale, clash, orphans>>

WriteInactive ==
    /\ mpc = "write"
    /\ table' = [table EXCEPT ![cur] = mCopy]
    /\ mCopy' = Blank
    /\ todo' = todo \ {cur}
    /\ cur' = NoNode
    /\ mpc' = "judge"
    /\ UNCHANGED <<up, crashes, mNodes, reloads, link, passAge, fetched, txn,
                   pahoVars, heard, stale, clash, orphans>>

CheckEnd ==
    /\ mpc = "judge" /\ todo = {}
    /\ mpc' = "idle"
    /\ passAge' = 0
    /\ UNCHANGED <<table, up, crashes, mNodes, reloads, link, todo, cur, mCopy,
                   fetched, txn, pahoVars, heard, stale, clash, orphans>>

\* mTimerSyncToDb: updateAll writes every cached row in one transaction.
SyncBegin ==
    /\ up /\ mpc = "idle"
    /\ todo' = DOMAIN mNodes
    /\ mpc' = "sync"
    /\ UNCHANGED <<table, up, crashes, mNodes, reloads, link, cur, passAge,
                   mCopy, fetched, txn, pahoVars, heard, stale, clash, orphans>>

SyncRow(n) ==
    /\ mpc = "sync" /\ n \in todo
    /\ txn' = [k \in DOMAIN txn \cup {n} |->
                    IF k = n THEN mNodes[n] ELSE txn[k]]
    /\ todo' = todo \ {n}
    /\ clash' = [clash EXCEPT ![n] = PahoOn(n)]
    /\ UNCHANGED <<table, up, crashes, mNodes, reloads, link, mpc, cur, passAge,
                   mCopy, fetched, pahoVars, heard, stale, orphans>>

\* Mutant: the transaction ends without a commit.
SyncUncommitted ==
    /\ mpc = "sync" /\ todo = {}
    /\ txn' = NoRows
    /\ mpc' = "idle"
    /\ UNCHANGED <<table, up, crashes, mNodes, reloads, link, todo, cur, passAge,
                   mCopy, fetched, pahoVars, heard, stale, clash, orphans>>

SyncCommit ==
    /\ mpc = "sync" /\ todo = {}
    /\ table' = [n \in DOMAIN table |->
                    IF n \in DOMAIN txn THEN txn[n] ELSE table[n]]
    /\ txn' = NoRows
    /\ mpc' = "idle"
    /\ UNCHANGED <<up, crashes, mNodes, reloads, link, todo, cur, passAge, mCopy,
                   fetched, pahoVars, heard, stale, clash, orphans>>

-----------------------------------------------------------------------------
(* The callback thread: handleReplyKeepAlive, called from message_arrived.  *)

\* The loop finds the entry whose id and MAC address are those of the reply.
ReplyArrives(n) ==
    /\ up /\ ppc = "idle" /\ link[n] = "replying"
    /\ link' = [link EXCEPT ![n] = "quiet"]
    /\ heard' = [heard EXCEPT ![n] = 0]
    /\ IF n \in DOMAIN mNodes
       THEN /\ ppc' = "found" /\ pNode' = n
            /\ clash' = [clash EXCEPT ![n] = @ \/ MainOn(n)]
       ELSE UNCHANGED <<ppc, pNode, clash>>
    /\ UNCHANGED <<table, up, crashes, mNodes, reloads, mainVars, pCopy, onOld,
                   old, stale, orphans>>

FoundActive ==
    /\ ppc = "found" /\ PahoEntry.status = 1
    /\ ppc' = "touch"
    /\ UNCHANGED <<table, up, crashes, mNodes, reloads, link, mainVars, pNode,
                   pCopy, onOld, old, heard, stale, clash, orphans>>

\* set_status(1) comes first ...
FoundInactive ==
    /\ ppc = "found" /\ PahoEntry.status # 1
    /\ LET e == [PahoEntry EXCEPT !.status = 1]
       IN  mNodes' = CacheWith(e) /\ old' = OldWith(e)
    /\ ppc' = "stamp"
    /\ UNCHANGED <<table, up, crashes, reloads, link, mainVars, pNode, pCopy,
                   onOld, heard, stale, clash, orphans>>

\* ... and set_updated_time(now) after it, in both branches.
Stamped == [PahoEntry EXCEPT !.age = 0]

\* Mutant: the reply of a node that is ACTIVE already is not recorded.
TouchSkipped ==
    /\ ppc = "touch"
    /\ stale' = [stale EXCEPT ![pNode] = @ /\ onOld]
    /\ ppc' = "idle" /\ pNode' = NoNode /\ onOld' = FALSE /\ old' = Blank
    /\ UNCHANGED <<table, up, crashes, mNodes, reloads, link, mainVars, pCopy,
                   heard, clash, orphans>>

Touch ==
    /\ ppc = "touch"
    /\ mNodes' = CacheWith(Stamped)
    /\ stale' = [stale EXCEPT ![pNode] = @ /\ onOld]
    /\ ppc' = "idle" /\ pNode' = NoNode /\ onOld' = FALSE /\ old' = Blank
    /\ UNCHANGED <<table, up, crashes, reloads, link, mainVars, pCopy, heard,
                   clash, orphans>>

StampActive ==
    /\ ppc = "stamp"
    /\ mNodes' = CacheWith(Stamped) /\ old' = OldWith(Stamped)
    /\ stale' = [stale EXCEPT ![pNode] = @ /\ onOld]
    /\ ppc' = "copy"
    /\ UNCHANGED <<table, up, crashes, reloads, link, mainVars, pNode, pCopy,
                   onOld, heard, clash, orphans>>

CopyActive ==
    /\ ppc = "copy"
    /\ pCopy' = PahoEntry
    /\ ppc' = "write" /\ onOld' = FALSE /\ old' = Blank
    /\ UNCHANGED <<table, up, crashes, mNodes, reloads, link, mainVars, pNode,
                   heard, stale, clash, orphans>>

\* Mutant: the ACTIVE status is kept in the cache only.
WriteActiveSkipped ==
    /\ ppc = "write"
    /\ ppc' = "idle" /\ pNode' = NoNode /\ pCopy' = Blank
    /\ UNCHANGED <<table, up, crashes, mNodes, reloads, link, mainVars, onOld, old,
                   heard, stale, clash, orphans>>

\* update() waits for the lock of a row that an open updateAll has written.
WriteActive ==
    /\ ppc = "write"
    /\ pNode \notin DOMAIN txn
    /\ table' = [table EXCEPT ![pNode] = pCopy]
    /\ ppc' = "idle" /\ pNode' = NoNode /\ pCopy' = Blank
    /\ UNCHANGED <<up, crashes, mNodes, reloads, link, mainVars, onOld, old,
                   heard, stale, clash, orphans>>

-----------------------------------------------------------------------------
(* The process dies: an odb exception leaves a handler (nothing catches it), *)
(* the freed vector faults, or it is killed.  Memory and the open            *)
(* transaction are lost.  Started again it caches what the table holds.      *)

Crash ==
    /\ up /\ crashes < MaxCrashes
    /\ up' = FALSE
    /\ crashes' = crashes + 1
    /\ mNodes' = NoRows /\ fetched' = NoRows /\ txn' = NoRows
    /\ reloads' = 0
    /\ mpc' = "idle" /\ todo' = {} /\ cur' = NoNode /\ passAge' = 0
    /\ mCopy' = Blank /\ pCopy' = Blank /\ old' = Blank
    /\ ppc' = "idle" /\ pNode' = NoNode /\ onOld' = FALSE
    /\ UNCHANGED <<table, link, heard, stale, clash, orphans>>

Restart ==
    /\ ~up
    /\ up' = TRUE
    /\ mNodes' = table
    /\ stale' = [n \in Node |-> TRUE]
    /\ clash' = [n \in Node |-> FALSE]
    /\ orphans' = {}
    /\ UNCHANGED <<table, crashes, reloads, link, mainVars, pahoVars, heard>>

-----------------------------------------------------------------------------
(* The constructor has loaded the rows of an earlier run.                   *)
Init ==
    /\ table \in Rows
    /\ up = TRUE /\ crashes = 0
    /\ mNodes = table
    /\ reloads = 0
    /\ link \in [Node -> {"dead", "quiet"}]
    /\ mpc = "idle" /\ todo = {} /\ cur = NoNode /\ passAge = 0
    /\ mCopy = Blank /\ fetched = NoRows /\ txn = NoRows
    /\ ppc = "idle" /\ pNode = NoNode /\ pCopy = Blank
    /\ onOld = FALSE /\ old = Blank
    /\ heard = [n \in Node |-> Cap]
    /\ stale = [n \in Node |-> TRUE]
    /\ clash = [n \in Node |-> FALSE]
    /\ orphans = {}

MainStep ==
    \/ ReloadAssign
    \/ \E n \in Node : JudgeTimedOut(n) \/ JudgeFine(n) \/ SyncRow(n)
    \/ MarkInactive \/ StampInactive \/ CopyInactive \/ WriteInactive
    \/ CheckEnd \/ SyncCommit

PahoStep ==
    FoundActive \/ FoundInactive \/ Touch \/ StampActive \/ CopyActive \/ WriteActive

Next ==
    \/ Tick
    \/ \E n \in Node : NodeDies(n) \/ NodeRevives(n) \/ ReplyLost(n)
    \/ \E n \in Node : RegisterNode(n) \/ RegisterFails(n) \/ ReplyArrives(n)
    \/ OtherRegisters
    \/ SendKeepAlive \/ ReloadQuery \/ CheckBegin \/ SyncBegin
    \/ MainStep
    \/ PahoStep
    \/ Crash \/ Restart

\* Both threads keep running; a timer that is due again and again, and an
\* event that stays posted, gets its turn in the event loop; time passes; the
\* operator starts a gateway that died.
Fairness ==
    /\ WF_vars(MainStep)
    /\ WF_vars(PahoStep)
    /\ SF_vars(CheckBegin) /\ SF_vars(SyncBegin) /\ SF_vars(ReloadQuery)
    /\ SF_vars(Tick)
    /\ WF_vars(Restart)

Spec == Init /\ [][Next]_vars
FairSpec == Spec /\ Fairness

-----------------------------------------------------------------------------
(* Properties.                                                              *)

RowsOK ==
    /\ DOMAIN table \subseteq Node /\ table \in [DOMAIN table -> Entry]
    /\ DOMAIN mNodes \subseteq DOMAIN table /\ mNodes \in [DOMAIN mNodes -> Entry]
    /\ DOMAIN fetched \subseteq DOMAIN table /\ fetched \in [DOMAIN fetched -> Entry]
    /\ DOMAIN txn \subseteq DOMAIN mNodes /\ txn \in [DOMAIN txn -> Entry]

MainOK ==
    /\ mpc \in {"idle", "assign", "judge", "mark", "stamp", "copy", "write", "sync"}
    /\ todo \subseteq DOMAIN mNodes
    /\ cur \in IF mpc \in {"mark", "stamp", "copy", "write"}
               THEN DOMAIN mNodes ELSE {NoNode}
    /\ passAge \in 0..MaxPass
    /\ mCopy \in Entry

PahoOK ==
    /\ ppc \in {"idle", "found", "touch", "stamp", "copy", "write"}
    /\ pNode \in IF ppc = "idle" THEN {NoNode} ELSE DOMAIN table
    /\ onOld \in BOOLEAN
    /\ pCopy \in Entry /\ old \in Entry

OthersOK ==
    /\ up \in BOOLEAN /\ crashes \in 0..MaxCrashes /\ reloads \in 0..MaxReloads
    /\ link \in [Node -> {"dead", "quiet", "replying"}]
    /\ heard \in [Node -> Age]
    /\ stale \in [Node -> BOOLEAN] /\ clash \in [Node -> BOOLEAN]
    /\ orphans \subseteq DOMAIN table

\* Every variable has its type; the service never holds, and never writes, a
\* node that has no row (update() of such a node throws and ends the process).
TypeOK == RowsOK /\ MainOK /\ PahoOK /\ OthersOK

TimesOut(n) == mpc = "judge" /\ mpc' = "mark" /\ cur' = n

TimesOutExplained ==
    \A n \in Node : TimesOut(n) =>
        \/ heard[n] + MaxPass - passAge > Timeout
        \/ stale[n]
        \/ PahoOn(n)

\* checkExistingNodeActive times a node out only if nothing came from it for
\* Timeout seconds (a pass may count the MaxPass seconds of an earlier pass
\* twice).  The exceptions are two: its row was read back from the database
\* since its last reply, or a reply from it is being handled at this moment.
TimeoutExplained == [][TimesOutExplained]_vars

\* What the log line "timed out" says: the node (no reply from it is being
\* handled) has been silent for longer than Timeout.
TimedOutMeansSilent ==
    [][\A n \in Node : TimesOut(n) =>
            heard[n] - passAge > Timeout \/ PahoOn(n)]_vars

\* Away from the row, cache and database agree on the status of a node,
\* unless the threads have worked on that row at the same time since it was
\* last synchronised (by updateAll, by getAllNode or by a restart).
AgreeUnlessClash ==
    \A n \in DOMAIN mNodes :
        ~MainOn(n) /\ ~PahoOn(n) /\ ~clash[n] =>
            mNodes[n].status = table[n].status

\* What the log line "status updated to ACTIVE in DB" says when the callback
\* thread's update() has returned.
LoggedActiveIsActive ==
    [][(ppc = "write" /\ ppc' = "idle" /\ up') => table'[pNode].status = 1]_vars

\* A node that stops for good ends up, and stays, INACTIVE in the database,
\* whatever the threads did to its row before; but for a node whose row was
\* saved by a registration that failed afterwards.
DeadNodeDetected ==
    \A n \in Node :
        <>[](link[n] = "dead")
            => <>[](n \in DOMAIN table => table[n].status = 0 \/ n \in orphans)

\* A node that was given a row is, in the end, one the service watches, even
\* if the process dies in between; but for the same exception.
NewNodeWatched ==
    \A n \in Node : (n \in DOMAIN table) ~> (n \in DOMAIN mNodes \cup orphans)

=============================================================================
