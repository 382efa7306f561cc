--------------------------- MODULE KeepAliveProofs ---------------------------
(***************************************************************************)
(* Theorems about KeepAlive, for any nodes, timeout and bounds.  The two   *)
(* properties follow from inductive invariants that say, of every point    *)
(* the two threads can stand at, what the rows they hold have in common.   *)
(***************************************************************************)
EXTENDS KeepAlive, TLAPS

-----------------------------------------------------------------------------
(* Type correctness.                                                        *)

\* TypeOK is inductive with what it leaves open: no loop is running between
\* the handlers of the main thread, only an updateAll has an open transaction,
\* and the loop of the callback thread stands on an element of the cache.
TypeInv ==
    /\ TypeOK
    /\ mpc \in {"idle", "assign"} => todo = {}
    /\ mpc # "sync" => DOMAIN txn = {}
    /\ ppc \in {"found", "touch", "stamp", "copy"} /\ ~onOld => pNode \in DOMAIN mNodes

LEMMA CapNat == Cap \in Nat /\ MaxPass < Cap /\ Timeout < Cap
BY ConstantsAssumption DEF ConstantsAssumption, Cap

\* A second older, and blank, rows are rows.
LEMMA OlderTypes ==
    /\ \A a \in Age : Older(a) \in Age
    /\ \A e \in Entry : OlderEntry(e) \in Entry
    /\ \A f : f \in [DOMAIN f -> Entry] =>
                 OlderRows(f) \in [DOMAIN f -> Entry] /\ DOMAIN OlderRows(f) = DOMAIN f
    /\ Blank \in Entry
    /\ NoRows \in [{} -> Entry] /\ DOMAIN NoRows = {}
<1>1. \A a \in Age : Older(a) \in Age
  BY CapNat DEF Older, Age
<1>2. \A e \in Entry : OlderEntry(e) \in Entry
  BY <1>1 DEF OlderEntry, Entry
<1>3. ASSUME NEW f, f \in [DOMAIN f -> Entry]
      PROVE  OlderRows(f) \in [DOMAIN f -> Entry] /\ DOMAIN OlderRows(f) = DOMAIN f
  BY <1>2, <1>3 DEF OlderRows
<1>4. Blank \in Entry
  BY CapNat DEF Blank, Entry, Age
<1>5. NoRows \in [{} -> Entry] /\ DOMAIN NoRows = {}
  BY DEF NoRows
<1> QED
  BY <1>1, <1>2, <1>3, <1>4, <1>5

LEMMA InitTypeInv == Init => TypeInv
<1> SUFFICES ASSUME Init PROVE TypeInv
  OBVIOUS
<1>1. RowsOK
  <2>1. PICK S \in SUBSET Node : table \in [S -> Entry]
    BY DEF Init, Rows
  <2> QED
    BY <2>1, OlderTypes DEF Init, RowsOK
<1>2. MainOK
  BY OlderTypes, ConstantsAssumption DEF Init, MainOK, ConstantsAssumption
<1>3. PahoOK
  BY OlderTypes DEF Init, PahoOK
<1>4. OthersOK
  <2>1. Cap \in Age
    BY CapNat DEF Age
  <2> QED
    BY <2>1, ConstantsAssumption DEF Init, OthersOK, ConstantsAssumption
<1> QED
  BY <1>1, <1>2, <1>3, <1>4, OlderTypes DEF TypeInv, TypeOK, Init

\* What the steps do to a row keeps it a row.
LEMMA EntryTypes ==
    /\ \A e \in Entry : e.status \in {0, 1} /\ e.age \in Age
    /\ \A e \in Entry : \A s \in {0, 1} : [e EXCEPT !.status = s] \in Entry
    /\ \A e \in Entry : \A a \in Age : [e EXCEPT !.age = a] \in Entry
    /\ \A e \in Entry : [e EXCEPT !.age = 0] \in Entry
    /\ [status |-> 1, age |-> 0] \in Entry
BY CapNat DEF Entry, Age

\* The element that the loop of the callback thread refers to is a row.
LEMMA PahoEntryType ==
    TypeInv /\ ppc \in {"found", "touch", "stamp", "copy"} => PahoEntry \in Entry
BY DEF TypeInv, TypeOK, RowsOK, PahoOK, PahoEntry

LEMMA NextTypeInv == TypeInv /\ [Next]_vars => TypeInv'
<1> SUFFICES ASSUME TypeInv, [Next]_vars PROVE TypeInv'
  OBVIOUS
<1> USE OlderTypes, EntryTypes, CapNat, ConstantsAssumption
    DEF TypeInv, TypeOK, RowsOK, MainOK, PahoOK, OthersOK, ConstantsAssumption,
        mainVars, pahoVars
<1>1. CASE Tick
  BY <1>1 DEF Tick, InCheck
<1>2. ASSUME NEW n \in Node, NodeDies(n) PROVE TypeInv'
  BY <1>2 DEF NodeDies
<1>3. ASSUME NEW n \in Node, NodeRevives(n) PROVE TypeInv'
  BY <1>3 DEF NodeRevives
<1>4. ASSUME NEW n \in Node, ReplyLost(n) PROVE TypeInv'
  BY <1>4 DEF ReplyLost
<1>5. ASSUME NEW n \in Node, RegisterNode(n) PROVE TypeInv'
  <2>1. [status |-> 1, age |-> 0] \in Entry
    BY EntryTypes
  <2>2. table' \in [DOMAIN table \cup {n} -> Entry] /\ DOMAIN table' = DOMAIN table \cup {n}
    BY <1>5, <2>1 DEF RegisterNode, NewRow
  <2>3. RowsOK' /\ MainOK'
    BY <1>5, <2>2 DEF RegisterNode
  <2>4. PahoOK'
    BY <1>5, <2>2 DEF RegisterNode
  <2>5. OthersOK'
    BY <1>5, <2>2, CapNat DEF RegisterNode, Age
  <2> QED
    BY <1>5, <2>3, <2>4, <2>5 DEF RegisterNode
<1>6. ASSUME NEW n \in Node, RegisterFails(n) PROVE TypeInv'
  <2>1. [status |-> 1, age |-> 0] \in Entry
    BY EntryTypes
  <2>2. table' \in [DOMAIN table \cup {n} -> Entry] /\ DOMAIN table' = DOMAIN table \cup {n}
    BY <1>6, <2>1 DEF RegisterFails, NewRow
  <2>3. RowsOK' /\ MainOK'
    BY <1>6, <2>2 DEF RegisterFails
  <2>4. PahoOK'
    BY <1>6, <2>2 DEF RegisterFails
  <2>5. OthersOK'
    BY <1>6, <2>2, CapNat DEF RegisterFails, Age
  <2> QED
    BY <1>6, <2>3, <2>4, <2>5 DEF RegisterFails
<1>7. CASE OtherRegisters
  BY <1>7 DEF OtherRegisters
<1>8. CASE SendKeepAlive
  BY <1>8 DEF SendKeepAlive
<1>9. CASE ReloadQuery
  <2>1. RowsOK' /\ MainOK' /\ PahoOK'
    BY <1>9 DEF ReloadQuery
  <2>2. OthersOK'
    BY <1>9 DEF ReloadQuery, PahoOn
  <2> QED
    BY <1>9, <2>1, <2>2 DEF ReloadQuery
<1>10. CASE ReloadAssign
  <2>1. RowsOK'
    BY <1>10 DEF ReloadAssign
  <2>2. MainOK'
    BY <1>10 DEF ReloadAssign
  <2>3. PahoOK'
    <3>1. CASE ppc \in {"found", "touch", "stamp", "copy"} /\ ~onOld
      BY <1>10, <3>1 DEF ReloadAssign
    <3>2. CASE ~(ppc \in {"found", "touch", "stamp", "copy"} /\ ~onOld)
      BY <1>10, <3>2 DEF ReloadAssign
    <3> QED
      BY <3>1, <3>2
  <2>4. OthersOK'
    BY <1>10 DEF ReloadAssign
  <2> QED
    BY <1>10, <2>1, <2>2, <2>3, <2>4 DEF ReloadAssign
<1>11. CASE CheckBegin
  BY <1>11 DEF CheckBegin
<1>12. ASSUME NEW n \in Node, JudgeTimedOut(n) PROVE TypeInv'
  BY <1>12 DEF JudgeTimedOut, PahoOn
<1>13. ASSUME NEW n \in Node, JudgeFine(n) PROVE TypeInv'
  BY <1>13 DEF JudgeFine
<1>14. CASE MarkInactive
  BY <1>14 DEF MarkInactive
<1>15. CASE StampInactive
  <2>1. cur \in DOMAIN mNodes /\ passAge \in Age
    BY <1>15, CapNat DEF StampInactive, Age
  <2>2. mNodes' = [mNodes EXCEPT ![cur] = [mNodes[cur] EXCEPT !.age = passAge]]
    BY <1>15 DEF StampInactive
  <2>3. [mNodes[cur] EXCEPT !.age = passAge] \in Entry
    BY <2>1
  <2> QED
    BY <1>15, <2>1, <2>2, <2>3 DEF StampInactive
<1>16. CASE CopyInactive
  BY <1>16 DEF CopyInactive
<1>17. CASE WriteInactive
  BY <1>17 DEF WriteInactive
<1>18. CASE CheckEnd
  BY <1>18 DEF CheckEnd
<1>19. CASE SyncBegin
  BY <1>19 DEF SyncBegin
<1>20. ASSUME NEW n \in Node, SyncRow(n) PROVE TypeInv'
  <2>1. txn' \in [DOMAIN txn \cup {n} -> Entry] /\ DOMAIN txn' = DOMAIN txn \cup {n}
    BY <1>20 DEF SyncRow
  <2>2. RowsOK'
    BY <1>20, <2>1 DEF SyncRow
  <2>3. MainOK' /\ PahoOK'
    BY <1>20 DEF SyncRow
  <2>4. OthersOK'
    BY <1>20 DEF SyncRow, PahoOn
  <2> QED
    BY <1>20, <2>2, <2>3, <2>4 DEF SyncRow
<1>21. CASE SyncCommit
  BY <1>21 DEF SyncCommit
<1>22. ASSUME NEW n \in Node, ReplyArrives(n) PROVE TypeInv'
  <2>1. OthersOK'
    BY <1>22, CapNat DEF ReplyArrives, Age, MainOn
  <2>2. RowsOK' /\ MainOK'
    BY <1>22 DEF ReplyArrives
  <2>3. CASE n \in DOMAIN mNodes
    BY <1>22, <2>1, <2>2, <2>3 DEF ReplyArrives
  <2>4. CASE n \notin DOMAIN mNodes
    BY <1>22, <2>1, <2>2, <2>4 DEF ReplyArrives
  <2> QED
    BY <2>3, <2>4
<1>23. CASE FoundActive
  BY <1>23 DEF FoundActive, PahoEntry
<1>24. CASE FoundInactive
  <2>1. PahoEntry \in Entry
    BY <1>24, PahoEntryType DEF FoundInactive
  <2>2. mNodes' \in [DOMAIN mNodes -> Entry] /\ DOMAIN mNodes' = DOMAIN mNodes
    BY <1>24, <2>1 DEF FoundInactive, CacheWith
  <2>3. old' \in Entry
    BY <1>24, <2>1 DEF FoundInactive, OldWith
  <2>4. RowsOK'
    BY <1>24, <2>2 DEF FoundInactive
  <2>5. MainOK'
    BY <1>24, <2>2 DEF FoundInactive
  <2>6. PahoOK'
    BY <1>24, <2>3 DEF FoundInactive
  <2>7. OthersOK'
    BY <1>24 DEF FoundInactive
  <2> QED
    BY <1>24, <2>2, <2>4, <2>5, <2>6, <2>7 DEF FoundInactive
<1>25. CASE Touch
  <2>1. PahoEntry \in Entry
    BY <1>25, PahoEntryType DEF Touch
  <2>2. mNodes' \in [DOMAIN mNodes -> Entry] /\ DOMAIN mNodes' = DOMAIN mNodes
    BY <1>25, <2>1 DEF Touch, CacheWith, Stamped
  <2>3. old' \in Entry
    BY <1>25, <2>1 DEF Touch, OldWith, Stamped
  <2>4. RowsOK'
    BY <1>25, <2>2 DEF Touch
  <2>5. MainOK'
    BY <1>25, <2>2 DEF Touch
  <2>6. PahoOK'
    BY <1>25, <2>3 DEF Touch
  <2>7. OthersOK'
    BY <1>25 DEF Touch
  <2> QED
    BY <1>25, <2>2, <2>4, <2>5, <2>6, <2>7 DEF Touch
<1>26. CASE StampActive
  <2>1. PahoEntry \in Entry
    BY <1>26, PahoEntryType DEF StampActive
  <2>2. mNodes' \in [DOMAIN mNodes -> Entry] /\ DOMAIN mNodes' = DOMAIN mNodes
    BY <1>26, <2>1 DEF StampActive, CacheWith, Stamped
  <2>3. old' \in Entry
    BY <1>26, <2>1 DEF StampActive, OldWith, Stamped
  <2>4. RowsOK'
    BY <1>26, <2>2 DEF StampActive
  <2>5. MainOK'
    BY <1>26, <2>2 DEF StampActive
  <2>6. PahoOK'
    BY <1>26, <2>3 DEF StampActive
  <2>7. OthersOK'
    BY <1>26 DEF StampActive
  <2> QED
    BY <1>26, <2>2, <2>4, <2>5, <2>6, <2>7 DEF StampActive
<1>27. CASE CopyActive
  BY <1>27 DEF CopyActive, PahoEntry
<1>28. CASE WriteActive
  BY <1>28 DEF WriteActive
<1>29. CASE Crash
  <2>1. RowsOK'
    <3>1. mNodes' = NoRows /\ fetched' = NoRows /\ txn' = NoRows /\ table' = table
      BY <1>29 DEF Crash
    <3>2. DOMAIN NoRows = {} /\ NoRows \in [DOMAIN NoRows -> Entry]
      BY DEF NoRows
    <3> QED
      BY <3>1, <3>2
  <2>2. MainOK'
    BY <1>29 DEF Crash
  <2>3. PahoOK'
    BY <1>29 DEF Crash
  <2>4. OthersOK'
    <3>1. crashes' \in 0..MaxCrashes
      BY <1>29 DEF Crash
    <3>2. reloads' = 0 /\ 0 \in 0..MaxReloads
      BY <1>29 DEF Crash
    <3>3. up' \in BOOLEAN
      BY <1>29 DEF Crash
    <3>4. UNCHANGED <<table, link, heard, stale, clash, orphans>>
      BY <1>29 DEF Crash
    <3> QED
      BY <3>1, <3>2, <3>3, <3>4
  <2>5. DOMAIN txn' = {}
    BY <1>29 DEF Crash
  <2> QED
    BY <1>29, <2>1, <2>2, <2>3, <2>4, <2>5 DEF Crash
<1>30. CASE Restart
  BY <1>30 DEF Restart
<1>31. CASE UNCHANGED vars
  BY <1>31 DEF vars
<1> QED
  BY <1>1, <1>2, <1>3, <1>4, <1>5, <1>6, <1>7, <1>8, <1>9, <1>10, <1>11,
     <1>12, <1>13, <1>14, <1>15, <1>16, <1>17, <1>18, <1>19, <1>20, <1>21,
     <1>22, <1>23, <1>24, <1>25, <1>26, <1>27, <1>28, <1>29, <1>30, <1>31
     DEF Next, MainStep, PahoStep

\* Every variable has its type throughout, and neither thread ever works on a
\* node that has no row: every update() finds its row.
THEOREM TypeCorrect == Spec => []TypeOK
<1>1. TypeInv => TypeOK
  BY DEF TypeInv
<1> QED
  BY InitTypeInv, NextTypeInv, <1>1, PTL DEF Spec

-----------------------------------------------------------------------------
(* Freshness: what explains a timeout.                                      *)

\* A cached time stamp is no older than the node's last reply, but for the
\* seconds of one pass (StampInactive writes the time the pass began), unless
\* the row was read back from the database or the reply is not yet recorded.
\* While the callback thread stands on a freed element its node's row is one
\* that was read back.
FreshInv ==
    /\ onOld => ppc \in {"found", "touch", "stamp", "copy"} /\ stale[pNode]
    /\ \A n \in DOMAIN mNodes :
          \/ stale[n]
          \/ pNode = n /\ ppc \in {"found", "touch", "stamp"}
          \/ mNodes[n].age <= heard[n] + MaxPass

LEMMA InitFreshInv == Init => FreshInv
<1> SUFFICES ASSUME Init PROVE FreshInv
  OBVIOUS
<1>1. DOMAIN mNodes \subseteq Node
  BY InitTypeInv DEF TypeInv, TypeOK, RowsOK
<1> QED
  BY <1>1 DEF Init, FreshInv

\* A second more on both sides keeps the bound, saturated or not.
LEMMA OlderBound ==
    \A a, h \in Age : a <= h + MaxPass => Older(a) <= Older(h) + MaxPass
BY CapNat, ConstantsAssumption DEF Older, Age, ConstantsAssumption

LEMMA NextFreshInv == TypeInv /\ FreshInv /\ [Next]_vars => FreshInv'
<1> SUFFICES ASSUME TypeInv, FreshInv, [Next]_vars PROVE FreshInv'
  OBVIOUS
<1>a. /\ mNodes \in [DOMAIN mNodes -> Entry] /\ DOMAIN mNodes \subseteq Node
      /\ heard \in [Node -> Age] /\ stale \in [Node -> BOOLEAN]
      /\ passAge \in 0..MaxPass /\ old \in Entry
      /\ ppc # "idle" => pNode \in Node
      /\ MaxPass \in Nat /\ Age \subseteq Nat /\ \A e \in Entry : e.age \in Age
  BY EntryTypes, CapNat, ConstantsAssumption
     DEF TypeInv, TypeOK, RowsOK, MainOK, PahoOK, OthersOK, ConstantsAssumption, Age
<1>b. ASSUME UNCHANGED <<mNodes, heard, stale, ppc, pNode, onOld>> PROVE FreshInv'
  BY <1>b DEF FreshInv
<1>1. CASE Tick
  <2>1. ASSUME NEW n \in DOMAIN mNodes
        PROVE  /\ mNodes'[n].age = Older(mNodes[n].age)
               /\ heard'[n] = Older(heard[n])
    BY <1>1, <1>a DEF Tick, OlderRows, OlderEntry, Entry
  <2>2. DOMAIN mNodes' = DOMAIN mNodes
    BY <1>1 DEF Tick, OlderRows
  <2>3. ASSUME NEW n \in DOMAIN mNodes, mNodes[n].age <= heard[n] + MaxPass
        PROVE  mNodes'[n].age <= heard'[n] + MaxPass
    <3>1. mNodes[n].age \in Age /\ heard[n] \in Age
      BY <1>a
    <3> QED
      BY <2>1, <2>3, <3>1, OlderBound
  <2>4. UNCHANGED <<stale, ppc, pNode, onOld>>
    BY <1>1 DEF Tick
  <2> QED
    BY <2>2, <2>3, <2>4 DEF FreshInv
<1>2. ASSUME NEW k \in Node, RegisterNode(k) PROVE FreshInv'
  <2>1. k \notin DOMAIN mNodes
    BY <1>2 DEF RegisterNode, TypeInv, TypeOK, RowsOK
  <2> QED
    BY <1>2, <1>a, <2>1 DEF RegisterNode, FreshInv, pahoVars
<1>3. CASE ReloadAssign
  <2>1. stale' = [n \in Node |-> TRUE] /\ UNCHANGED <<ppc, pNode>>
    BY <1>3 DEF ReloadAssign
  <2>2. DOMAIN mNodes' \subseteq Node
    BY <1>3 DEF ReloadAssign, TypeInv, TypeOK, RowsOK
  <2>3. onOld' => ppc \in {"found", "touch", "stamp", "copy"}
    BY <1>3 DEF ReloadAssign, FreshInv
  <2> QED
    BY <1>a, <2>1, <2>2, <2>3 DEF FreshInv
<1>4. CASE MarkInactive
  <2>1. /\ DOMAIN mNodes' = DOMAIN mNodes
        /\ \A n \in DOMAIN mNodes : mNodes'[n].age = mNodes[n].age
        /\ UNCHANGED <<heard, stale, ppc, pNode, onOld>>
    BY <1>4, <1>a DEF MarkInactive, Entry, pahoVars
  <2> QED
    BY <2>1 DEF FreshInv
<1>5. CASE StampInactive
  <2>1. /\ DOMAIN mNodes' = DOMAIN mNodes
        /\ \A n \in DOMAIN mNodes : mNodes'[n].age = IF n = cur THEN passAge ELSE mNodes[n].age
        /\ UNCHANGED <<heard, stale, ppc, pNode, onOld>>
    BY <1>5, <1>a DEF StampInactive, Entry, pahoVars
  <2>2. \A n \in DOMAIN mNodes : passAge <= heard[n] + MaxPass
    BY <1>a
  <2> QED
    BY <2>1, <2>2 DEF FreshInv
<1>6. ASSUME NEW k \in Node, ReplyArrives(k) PROVE FreshInv'
  <2>1. ~onOld /\ ppc = "idle" /\ UNCHANGED <<mNodes, stale, onOld>>
    BY <1>6 DEF ReplyArrives, FreshInv
  <2>2. \A n \in DOMAIN mNodes : n # k => heard'[n] = heard[n]
    BY <1>6, <1>a DEF ReplyArrives
  <2>3. k \in DOMAIN mNodes => pNode' = k /\ ppc' = "found"
    BY <1>6 DEF ReplyArrives
  <2> QED
    BY <2>1, <2>2, <2>3 DEF FreshInv
<1>7. CASE FoundActive
  BY <1>7 DEF FoundActive, FreshInv
<1>8. CASE FoundInactive
  <2>1. /\ DOMAIN mNodes' = DOMAIN mNodes
        /\ \A n \in DOMAIN mNodes : n = pNode \/ mNodes'[n] = mNodes[n]
        /\ ppc = "found" /\ ppc' = "stamp"
        /\ UNCHANGED <<heard, stale, pNode, onOld>>
    BY <1>8, <1>a DEF FoundInactive, CacheWith
  <2> QED
    BY <2>1 DEF FreshInv
<1>9. CASE Touch
  <2>1. CASE onOld
    <3>1. UNCHANGED <<mNodes, heard>> /\ ~onOld' /\ stale[pNode] /\ stale' = stale
      BY <1>9, <1>a, <2>1 DEF Touch, FreshInv, CacheWith
    <3> QED
      BY <1>9, <3>1 DEF Touch, FreshInv
  <2>2. CASE ~onOld
    <3>1. pNode \in DOMAIN mNodes /\ mNodes[pNode] \in Entry
      BY <1>9, <1>a, <2>2 DEF Touch, TypeInv
    <3>2. /\ DOMAIN mNodes' = DOMAIN mNodes
          /\ mNodes'[pNode].age = 0
          /\ \A n \in DOMAIN mNodes : n = pNode \/ mNodes'[n] = mNodes[n]
          /\ UNCHANGED heard /\ ~onOld'
          /\ \A n \in DOMAIN mNodes : n = pNode \/ stale'[n] = stale[n]
      BY <1>9, <1>a, <2>2, <3>1 DEF Touch, CacheWith, Stamped, PahoEntry, Entry
    <3>3. 0 <= heard[pNode] + MaxPass
      BY <1>a, <3>1
    <3> QED
      BY <3>2, <3>3 DEF FreshInv
  <2> QED
    BY <2>1, <2>2
<1>10. CASE StampActive
  <2>1. CASE onOld
    <3>1. UNCHANGED <<mNodes, heard, pNode, onOld>> /\ stale[pNode] /\ stale' = stale
      BY <1>10, <1>a, <2>1 DEF StampActive, FreshInv, CacheWith
    <3> QED
      BY <1>10, <3>1 DEF StampActive, FreshInv
  <2>2. CASE ~onOld
    <3>1. pNode \in DOMAIN mNodes /\ mNodes[pNode] \in Entry
      BY <1>10, <1>a, <2>2 DEF StampActive, TypeInv
    <3>2. /\ DOMAIN mNodes' = DOMAIN mNodes
          /\ mNodes'[pNode].age = 0
          /\ \A n \in DOMAIN mNodes : n = pNode \/ mNodes'[n] = mNodes[n]
          /\ UNCHANGED heard /\ ~onOld'
          /\ \A n \in DOMAIN mNodes : n = pNode \/ stale'[n] = stale[n]
      BY <1>10, <1>a, <2>2, <3>1 DEF StampActive, CacheWith, Stamped, PahoEntry, Entry
    <3>3. 0 <= heard[pNode] + MaxPass
      BY <1>a, <3>1
    <3> QED
      BY <3>2, <3>3 DEF FreshInv
  <2> QED
    BY <2>1, <2>2
<1>11. CASE CopyActive
  BY <1>11 DEF CopyActive, FreshInv
<1>12. CASE WriteActive
  BY <1>12 DEF WriteActive, FreshInv
<1>13. CASE Crash
  BY <1>13 DEF Crash, FreshInv, NoRows
<1>14. CASE Restart
  <2>1. stale' = [n \in Node |-> TRUE] /\ DOMAIN mNodes' \subseteq Node
    BY <1>14 DEF Restart, TypeInv, TypeOK, RowsOK
  <2>2. UNCHANGED <<ppc, pNode, onOld>>
    BY <1>14 DEF Restart, pahoVars
  <2> QED
    BY <1>a, <2>1, <2>2 DEF FreshInv
<1>15. ASSUME NEW n \in Node,
              \/ NodeDies(n) \/ NodeRevives(n) \/ ReplyLost(n) \/ RegisterFails(n)
              \/ JudgeTimedOut(n) \/ JudgeFine(n) \/ SyncRow(n)
       PROVE  FreshInv'
  BY <1>15, <1>b
     DEF NodeDies, NodeRevives, ReplyLost, RegisterFails, JudgeTimedOut,
         JudgeFine, SyncRow, pahoVars
<1>16. CASE OtherRegisters \/ SendKeepAlive \/ ReloadQuery \/ CheckBegin \/ SyncBegin
            \/ CopyInactive \/ WriteInactive \/ CheckEnd \/ SyncCommit
  BY <1>16, <1>b
     DEF OtherRegisters, SendKeepAlive, ReloadQuery, CheckBegin, SyncBegin,
         CopyInactive, WriteInactive, CheckEnd, SyncCommit, pahoVars
<1>17. CASE UNCHANGED vars
  BY <1>17, <1>b DEF vars, pahoVars
<1> QED
  BY <1>1, <1>2, <1>3, <1>4, <1>5, <1>6, <1>7, <1>8, <1>9, <1>10, <1>11, <1>12,
     <1>13, <1>14, <1>15, <1>16, <1>17
     DEF Next, MainStep, PahoStep

\* A node is timed out only when it has been silent, or its row was read back
\* from the database, or a reply from it is being handled.
THEOREM TimeoutsExplained == Spec => TimeoutExplained
<1>1. TypeInv /\ FreshInv /\ [Next]_vars =>
         [TimesOutExplained]_vars
  <2> SUFFICES ASSUME TypeInv, FreshInv, [Next]_vars, NEW n \in Node, TimesOut(n)
               PROVE  heard[n] + MaxPass - passAge > Timeout \/ stale[n] \/ PahoOn(n)
    BY DEF TimesOutExplained
  <2>a. Next
    BY DEF vars, mainVars, TimesOut
  <2>1. JudgeTimedOut(n)
    BY <2>a DEF TimesOut, Next, MainStep, PahoStep, Tick, NodeDies, NodeRevives, ReplyLost,
           RegisterNode, RegisterFails, OtherRegisters, SendKeepAlive, ReloadQuery,
           ReloadAssign, CheckBegin, JudgeTimedOut, JudgeFine, MarkInactive,
           StampInactive, CopyInactive, WriteInactive, CheckEnd, SyncBegin, SyncRow,
           SyncCommit, ReplyArrives, FoundActive, FoundInactive, Touch, StampActive,
           CopyActive, WriteActive, Crash, Restart, mainVars
  <2>2. n \in DOMAIN mNodes /\ mNodes[n].age - passAge > Timeout
    BY <2>1 DEF JudgeTimedOut, TimedOut, TypeInv, TypeOK, MainOK
  <2>3. /\ mNodes[n].age \in Nat /\ heard[n] \in Nat /\ passAge \in Nat
        /\ MaxPass \in Nat /\ Timeout \in Nat
    BY <2>2, EntryTypes, ConstantsAssumption, CapNat
       DEF TypeInv, TypeOK, RowsOK, MainOK, OthersOK, Age, ConstantsAssumption
  <2>4. stale[n] \/ (pNode = n /\ ppc # "idle") \/ mNodes[n].age <= heard[n] + MaxPass
    BY <2>2 DEF FreshInv
  <2> QED
    BY <2>2, <2>3, <2>4 DEF PahoOn
<1> QED
  BY InitTypeInv, NextTypeInv, InitFreshInv, NextFreshInv, <1>1, PTL
     DEF Spec, TimeoutExplained

-----------------------------------------------------------------------------
(* Agreement of cache and database.                                         *)

\* What each thread holds of a row that no clash has been recorded for.  The
\* main thread: the rows it has fetched are those of the table, a node it
\* marks is INACTIVE in the cache and in its copy, and the rows of its open
\* transaction are the cached ones.
MainAgrees ==
    /\ \A n \in DOMAIN fetched : mpc = "assign" /\ ~clash[n] =>
          fetched[n].status = table[n].status
    /\ mpc \in {"stamp", "copy", "write"} /\ ~clash[cur] => mNodes[cur].status = 0
    /\ mpc = "write" /\ ~clash[cur] => mCopy.status = 0
    /\ \A n \in DOMAIN txn : ~clash[n] => txn[n].status = mNodes[n].status

\* The callback thread: until it has changed the status the row agrees, and
\* from then on both the cache and its copy say ACTIVE.
PahoAgrees ==
    ppc # "idle" /\ ~clash[pNode] =>
       /\ ~onOld
       /\ pNode \in DOMAIN mNodes
       /\ ppc \in {"found", "touch"} => mNodes[pNode].status = table[pNode].status
       /\ ppc \in {"stamp", "copy", "write"} => mNodes[pNode].status = 1
       /\ ppc = "write" => pCopy.status = 1

AgreeInv ==
    /\ ~up => mpc = "idle" /\ ppc = "idle"
    /\ \A n \in Node : MainOn(n) /\ PahoOn(n) => clash[n]
    /\ MainAgrees
    /\ PahoAgrees
    /\ AgreeUnlessClash

LEMMA InitAgreeInv == Init => AgreeInv
<1> SUFFICES ASSUME Init PROVE AgreeInv
  OBVIOUS
<1>1. DOMAIN NoRows = {}
  BY DEF NoRows
<1> QED
  BY <1>1 DEF Init, AgreeInv, MainAgrees, PahoAgrees, AgreeUnlessClash, MainOn, PahoOn

LEMMA NextAgreeInv == TypeInv /\ FreshInv /\ AgreeInv /\ [Next]_vars => AgreeInv'
<1> SUFFICES ASSUME TypeInv, FreshInv, AgreeInv, [Next]_vars PROVE AgreeInv'
  OBVIOUS
<1>a. /\ table \in [DOMAIN table -> Entry] /\ DOMAIN table \subseteq Node
      /\ mNodes \in [DOMAIN mNodes -> Entry] /\ DOMAIN mNodes \subseteq DOMAIN table
      /\ fetched \in [DOMAIN fetched -> Entry] /\ DOMAIN fetched \subseteq DOMAIN table
      /\ txn \in [DOMAIN txn -> Entry] /\ DOMAIN txn \subseteq DOMAIN mNodes
      /\ old \in Entry /\ mCopy \in Entry /\ pCopy \in Entry
      /\ clash \in [Node -> BOOLEAN]
      /\ todo \subseteq DOMAIN mNodes
      /\ cur \in IF mpc \in {"mark", "stamp", "copy", "write"} THEN DOMAIN mNodes ELSE {NoNode}
      /\ pNode \in IF ppc = "idle" THEN {NoNode} ELSE DOMAIN table
  BY DEF TypeInv, TypeOK, RowsOK, MainOK, PahoOK, OthersOK
<1>b. ASSUME UNCHANGED <<table, up, mNodes, mpc, cur, mCopy, fetched, txn, ppc, pNode,
                         pCopy, onOld, clash>>
      PROVE  AgreeInv'
  BY <1>b DEF AgreeInv, MainAgrees, PahoAgrees, AgreeUnlessClash, MainOn, PahoOn
<1> USE <1>a DEF AgreeInv, MainAgrees, PahoAgrees, AgreeUnlessClash, MainOn, PahoOn, Entry,
           mainVars, pahoVars
<1>1. CASE Tick
  BY <1>1 DEF Tick, OlderRows, OlderEntry
<1>2. ASSUME NEW k \in Node, RegisterNode(k) PROVE AgreeInv'
  BY <1>2 DEF RegisterNode, NewRow
<1>3. ASSUME NEW k \in Node, RegisterFails(k) PROVE AgreeInv'
  BY <1>3 DEF RegisterFails, NewRow
<1>4. CASE ReloadQuery
  BY <1>4 DEF ReloadQuery, TypeInv
<1>5. CASE ReloadAssign
  BY <1>5 DEF ReloadAssign, TypeInv
<1>6. CASE CheckBegin
  BY <1>6 DEF CheckBegin, TypeInv
<1>7. ASSUME NEW k \in Node, JudgeTimedOut(k) PROVE AgreeInv'
  BY <1>7 DEF JudgeTimedOut
<1>8. ASSUME NEW k \in Node, JudgeFine(k) PROVE AgreeInv'
  BY <1>8 DEF JudgeFine
<1>9. CASE MarkInactive
  BY <1>9 DEF MarkInactive, TypeInv
<1>10. CASE StampInactive
  BY <1>10 DEF StampInactive
<1>11. CASE CopyInactive
  BY <1>11 DEF CopyInactive
<1>12. CASE WriteInactive
  BY <1>12 DEF WriteInactive
<1>13. CASE CheckEnd
  BY <1>13 DEF CheckEnd
<1>14. CASE SyncBegin
  BY <1>14 DEF SyncBegin, TypeInv
<1>15. ASSUME NEW k \in Node, SyncRow(k) PROVE AgreeInv'
  BY <1>15 DEF SyncRow, TypeInv
<1>16. CASE SyncCommit
  BY <1>16 DEF SyncCommit, NoRows
<1>17. ASSUME NEW k \in Node, ReplyArrives(k) PROVE AgreeInv'
  <2>1. (~up => mpc = "idle" /\ ppc = "idle")'
    BY <1>17 DEF ReplyArrives, FreshInv
  <2>2. (\A n \in Node : MainOn(n) /\ PahoOn(n) => clash[n])'
    BY <1>17 DEF ReplyArrives, FreshInv
  <2>3. MainAgrees'
    <3>1. \A n \in Node : clash[n] => clash'[n]
      BY <1>17 DEF ReplyArrives
    <3>2. UNCHANGED <<table, mNodes, mpc, cur, mCopy, fetched, txn>>
      BY <1>17 DEF ReplyArrives, mainVars
    <3>3. DOMAIN mNodes \subseteq Node /\ DOMAIN fetched \subseteq Node /\ DOMAIN txn \subseteq Node
      OBVIOUS
    <3> QED
      BY <3>1, <3>2, <3>3
  <2>4. PahoAgrees'
    BY <1>17 DEF ReplyArrives, FreshInv
  <2>5. AgreeUnlessClash'
    BY <1>17 DEF ReplyArrives, FreshInv
  <2> QED
    BY <2>1, <2>2, <2>3, <2>4, <2>5
<1>18. CASE FoundActive
  BY <1>18 DEF FoundActive, PahoEntry
<1>19. CASE FoundInactive
  BY <1>19 DEF FoundInactive, CacheWith, PahoEntry, TypeInv
<1>20. CASE Touch
  BY <1>20 DEF Touch, CacheWith, PahoEntry, Stamped
<1>21. CASE StampActive
  BY <1>21 DEF StampActive, CacheWith, PahoEntry, Stamped
<1>22. CASE CopyActive
  BY <1>22 DEF CopyActive, PahoEntry
<1>23. CASE WriteActive
  BY <1>23 DEF WriteActive
<1>24. CASE Crash
  BY <1>24 DEF Crash, NoRows
<1>25. CASE Restart
  BY <1>25 DEF Restart, TypeInv, FreshInv
<1>26. ASSUME NEW k \in Node, NodeDies(k) \/ NodeRevives(k) \/ ReplyLost(k)
       PROVE  AgreeInv'
  BY <1>26, <1>b DEF NodeDies, NodeRevives, ReplyLost
<1>27. CASE OtherRegisters \/ SendKeepAlive \/ UNCHANGED vars
  BY <1>27, <1>b DEF OtherRegisters, SendKeepAlive, vars
<1> QED
  BY <1>1, <1>2, <1>3, <1>4, <1>5, <1>6, <1>7, <1>8, <1>9, <1>10, <1>11, <1>12,
     <1>13, <1>14, <1>15, <1>16, <1>17, <1>18, <1>19, <1>20, <1>21, <1>22,
     <1>23, <1>24, <1>25, <1>26, <1>27
     DEF Next, MainStep, PahoStep

\* Away from the row, cache and database agree on a node's status unless both
\* threads have worked on it at once since it was last synchronised.
THEOREM CacheAgrees == Spec => []AgreeUnlessClash
<1>1. AgreeInv => AgreeUnlessClash
  BY DEF AgreeInv
<1> QED
  BY InitTypeInv, NextTypeInv, InitFreshInv, NextFreshInv, InitAgreeInv, NextAgreeInv,
     <1>1, PTL DEF Spec

=============================================================================
