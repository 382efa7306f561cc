------------------------------ MODULE DateTime ------------------------------
(***************************************************************************)
(* The time stamps of a node: datetime::now() takes the seconds of the     *)
(* clock to local time fields and back, the database keeps microseconds    *)
(* since 2000, and the check compares a stamp with the clock.  A change of *)
(* the clocks repeats local times, or skips some, and mktime is told to    *)
(* find out by itself which of two equal local times is meant.             *)
(***************************************************************************)
EXTENDS Integers

CONSTANTS
    Ticks,       \* ticks of the clock per second
    Timeout,     \* mTimeout
    Change,      \* the second of the change of the clocks
    Shifts,      \* by how much they may be put back (negative: put forward)
    Epoch2000,   \* 2000-01-01 00:00:00 as a time_t
    MaxWall      \* bound: the clock stops there

ASSUME ConstantsAssumption ==
    /\ Ticks \in Nat \ {0} /\ Timeout \in Nat
    /\ Change \in Int /\ Shifts \subseteq Int /\ Epoch2000 \in Int
    /\ MaxWall \in Nat

VARIABLES
    shift,       \* by how much the clocks are put back at Change
    wall,        \* the system clock
    active,      \* status = 1
    stamp,       \* updated_time_ in the cache, a time point of that clock
    taken        \* history: the clock when the stamp was taken

vars == <<shift, wall, active, stamp, taken>>

-----------------------------------------------------------------------------
(* Local time.                                                              *)

\* The seconds since the epoch of a time point, cut off.
Seconds(t) == t \div Ticks

Offset(s) == IF s < Change THEN shift ELSE 0
LocalTime(s) == s + Offset(s)

\* The times that have these local fields.  One that comes twice may become
\* either; one that is skipped does not come out of localtime.
MkTime(l) == {s \in {l, l - shift} : LocalTime(s) = l}

\* The local times that come twice are those of the times before the change
\* and after it that are nearer than the shift.
Repeated(s) == Change - shift <= s /\ s < Change + shift

\* Mutant: the clock itself.
NowExactly == {wall}

\* datetime::now(): whole seconds again.
Now == {s * Ticks : s \in MkTime(LocalTime(Seconds(wall)))}

-----------------------------------------------------------------------------
(* The column: time since 2000 in a 64-bit integer.                         *)

Image(t) == t - Epoch2000 * Ticks

\* Mutant: the other epoch.
ValueSince1970(i) == i

Value(i) == Epoch2000 * Ticks + i

-----------------------------------------------------------------------------
Tick ==
    /\ wall < MaxWall
    /\ wall' = wall + 1
    /\ UNCHANGED <<shift, active, stamp, taken>>

\* handleReplyKeepAlive sets status and stamp of its node.
Reply ==
    /\ active' = TRUE
    /\ stamp' \in Now
    /\ taken' = wall
    /\ UNCHANGED <<shift, wall>>

\* The node's row is written and read back: sync and reload, or a restart.
ThroughDatabase ==
    /\ stamp' = Value(Image(stamp))
    /\ UNCHANGED <<shift, wall, active, taken>>

\* Mutant: a second that has begun counts.
SilentBegun == Seconds(wall - stamp) >= Timeout

\* Mutant: compares with the local time.
SilentLocally == LocalTime(Seconds(wall)) - Seconds(stamp) > Timeout

\* duration_cast of the difference to seconds, compared with the timeout.
Silent == Seconds(wall - stamp) > Timeout

CheckTimesOut ==
    /\ active /\ Silent
    /\ active' = FALSE
    /\ stamp' \in Now
    /\ taken' = wall
    /\ UNCHANGED <<shift, wall>>

Init ==
    /\ shift \in Shifts
    /\ wall = 0
    /\ active = TRUE
    /\ stamp \in Now
    /\ taken = 0

Next == Tick \/ Reply \/ ThroughDatabase \/ CheckTimesOut

Spec == Init /\ [][Next]_vars

-----------------------------------------------------------------------------
(* Properties.                                                              *)

\* Every variable has its type; a stamp is of whole seconds.
TypeOK ==
    /\ shift \in Shifts /\ wall \in 0..MaxWall /\ taken \in 0..wall
    /\ active \in BOOLEAN
    /\ stamp \in Int /\ stamp % Ticks = 0

\* A stamp is the second in which it was taken, also after a way through the
\* database; only in local times that are repeated it may be off, and then by
\* exactly the shift, into the past or into the future.
StampsExactOutsideFold ==
    LET s == Seconds(taken)
    IN  \/ stamp = s * Ticks
        \/ Repeated(s) /\ stamp \in {(s - shift) * Ticks, (s + shift) * Ticks}

\* The check finds a node silent too early only with a stamp of the repeated
\* time: the parts of seconds that the stamp and the difference lose do not
\* take the node's last second away.
NoneTimedOutEarly ==
    Silent => wall - taken > Timeout * Ticks \/ Repeated(Seconds(taken))

\* A check that comes a second after the timeout finds a silent node; a stamp
\* of the repeated time delays that by the shift, and not by more.
SilentFound ==
    LET late == IF Repeated(Seconds(taken)) THEN shift ELSE 0
    IN  wall - taken >= (Timeout + 1 + late) * Ticks => Silent

=============================================================================
