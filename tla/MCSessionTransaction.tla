------------------------ MODULE MCSessionTransaction ------------------------
(* Statements and savepoint names are interchangeable.                     *)
EXTENDS SessionRefinement, TLC

MCSymmetry == Permutations(Stmt) \cup Permutations(Name)
=============================================================================
