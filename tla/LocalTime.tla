------------------------------ MODULE LocalTime ------------------------------
(***************************************************************************)
(* datetime::now() on two threads.  localtime returns a pointer to the one *)
(* buffer of the library; now() reads its fields one by one, in an order   *)
(* that C++ leaves open, while the other thread's call fills it again.     *)
(* The fields are second, minute and all that is larger; a time point and  *)
(* its local time are the same here (module DateTime has the difference).  *)
(***************************************************************************)
EXTENDS Naturals

CONSTANTS
    Thread,      \* the threads that call now()
    Minute,      \* seconds per minute
    Hour,        \* seconds per hour
    MaxWall      \* bound: the clock stops there

\* What the constants have to satisfy.
ConstantsOK ==
    /\ Minute \in Nat \ {0} /\ MaxWall \in Nat
    /\ Hour \in {n * Minute : n \in 1..Hour}

Field == {"second", "minute", "larger"}

FieldsOf(s) ==
    [second |-> s % Minute, minute |-> (s % Hour) \div Minute, larger |-> s \div Hour]
Compose(f) == f.larger * Hour + f.minute * Minute + f.second

Unread == [f \in Field |-> 0]

VARIABLES
    wall,        \* the clock, in seconds
    buffer,      \* the fields in the library's buffer
    pc,          \* of every thread: "idle", "sampled", "filled"
    sample,      \* the seconds that it has taken from the clock
    unread,      \* the fields that it has still to read
    fields,      \* what it has read
    from, to     \* history: the earliest and the latest time that was in the
                 \* buffer since it has filled it

vars == <<wall, buffer, pc, sample, unread, fields, from, to>>

-----------------------------------------------------------------------------
Tick ==
    /\ wall < MaxWall
    /\ wall' = wall + 1
    /\ UNCHANGED <<buffer, pc, sample, unread, fields, from, to>>

Sample(t) ==
    /\ pc[t] = "idle"
    /\ sample' = [sample EXCEPT ![t] = wall]
    /\ pc' = [pc EXCEPT ![t] = "sampled"]
    /\ UNCHANGED <<wall, buffer, unread, fields, from, to>>

Earlier(s, u) == IF s < u THEN s ELSE u
Later(s, u) == IF s > u THEN s ELSE u

\* localtime: the library's lock makes it one step.
Fill(t) ==
    /\ pc[t] = "sampled"
    /\ buffer' = FieldsOf(sample[t])
    /\ pc' = [pc EXCEPT ![t] = "filled"]
    /\ unread' = [unread EXCEPT ![t] = Field]
    /\ from' = [u \in Thread |-> IF u = t THEN sample[t] ELSE Earlier(from[u], sample[t])]
    /\ to' = [u \in Thread |-> IF u = t THEN sample[t] ELSE Later(to[u], sample[t])]
    /\ UNCHANGED <<wall, sample, fields>>

Read(t, f) ==
    /\ pc[t] = "filled" /\ f \in unread[t]
    /\ fields' = [fields EXCEPT ![t][f] = buffer[f]]
    /\ unread' = [unread EXCEPT ![t] = @ \ {f}]
    /\ UNCHANGED <<wall, buffer, pc, sample, from, to>>

\* Mutant: the minutes are not passed on.
ComposeWithoutMinutes(t) == Compose([fields[t] EXCEPT !.minute = 0])

\* What the constructor makes of the fields.
Constructed(t) == Compose(fields[t])

Construct(t) ==
    /\ pc[t] = "filled" /\ unread[t] = {}
    /\ pc' = [pc EXCEPT ![t] = "idle"]
    /\ sample' = [sample EXCEPT ![t] = 0]
    /\ fields' = [fields EXCEPT ![t] = Unread]
    /\ from' = [from EXCEPT ![t] = 0]
    /\ to' = [to EXCEPT ![t] = 0]
    /\ UNCHANGED <<wall, buffer, unread>>

Init ==
    /\ wall = 0
    /\ buffer = Unread
    /\ pc = [t \in Thread |-> "idle"]
    /\ sample = [t \in Thread |-> 0]
    /\ unread = [t \in Thread |-> {}]
    /\ fields = [t \in Thread |-> Unread]
    /\ from = [t \in Thread |-> 0]
    /\ to = [t \in Thread |-> 0]

Next ==
    \/ Tick
    \/ \E t \in Thread :
          \/ Sample(t) \/ Fill(t) \/ Construct(t)
          \/ \E f \in Field : Read(t, f)

Spec == Init /\ [][Next]_vars

-----------------------------------------------------------------------------
(* Properties.                                                              *)

\* How wrong a stamp can be that mixes two times: not at all when nobody else
\* filled the buffer; between the times that were in the buffer when they are
\* in one minute; and in the right hour when they are in one hour.  Only two
\* calls on the two sides of a full minute give a time that nobody saw.
MixBounded ==
    [][\A t \in Thread : Construct(t) =>
          LET c == Constructed(t)
              lo == from[t]
              hi == to[t]
          IN  /\ lo \div Minute = hi \div Minute => lo <= c /\ c <= hi
              /\ lo \div Hour = hi \div Hour => c \div Hour = lo \div Hour]_vars

=============================================================================
