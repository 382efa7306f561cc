--------------------------- MODULE MCRegistration ---------------------------
(* Model-checking instance of Registration; liveness forbids a symmetry.    *)
EXTENDS Registration

=============================================================================
