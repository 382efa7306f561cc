----------------------------- MODULE MCKeepAlive -----------------------------
(* Model-checking instances of KeepAlive: one node in full detail.          *)
EXTENDS KeepAlive

=============================================================================
