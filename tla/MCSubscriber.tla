---------------------------- MODULE MCSubscriber ----------------------------
(* Model-checking instance of Subscriber.                                   *)
EXTENDS Subscriber

=============================================================================
