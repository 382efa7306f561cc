------------------------------ MODULE MCNodeDAO ------------------------------
(* Model-checking instances of NodeDAO.                                     *)
EXTENDS NodeDAO, TLC

\* The addresses are interchangeable (used where no liveness is checked).
Symmetry == Permutations(Mac)

=============================================================================
