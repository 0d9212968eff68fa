---------------------------- MODULE MCValidation ----------------------------
(* The instance of Validation for TLC. *)
EXTENDS Validation, TLC

CONSTANTS t1, t2, c1, c2

\* Clients and trees are interchangeable.
MCSymmetry == Permutations(Clients) \union Permutations(Trees)
=============================================================================
