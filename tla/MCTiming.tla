------------------------------ MODULE MCTiming ------------------------------
(***************************************************************************)
(* The timeouts of the code in seconds, and two nodes in the cache, so     *)
(* that a slot of the send timer may wait twice for a connection.          *)
(***************************************************************************)
EXTENDS Timing

=============================================================================
