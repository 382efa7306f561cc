------------------------------ MODULE LossyFifo ------------------------------
(***************************************************************************)
(* What the publisher promises about the replies: they are numbered in the *)
(* order in which they are emitted, any of them may be lost, none arrives  *)
(* twice and none after a later one.                                       *)
(***************************************************************************)
EXTENDS Naturals

VARIABLES
    sent,        \* the number of the reply that was emitted last
    got          \* the number of the reply that arrived last

vars == <<sent, got>>

Init == sent = 0 /\ got = 0

Emit ==
    /\ sent' = sent + 1
    /\ UNCHANGED got

Arrive ==
    /\ got' \in got + 1 .. sent
    /\ UNCHANGED sent

Next == Emit \/ Arrive

Spec == Init /\ [][Next]_vars

=============================================================================
