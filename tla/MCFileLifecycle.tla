--------------------------- MODULE MCFileLifecycle ---------------------------
(* Openers of one path, interchangeable for TLC.                           *)
EXTENDS FileLifecycle, TLC

MCSymmetry == Permutations(Proc)
=============================================================================
