-------------------------- MODULE MCNamedLockTable --------------------------
(* A small instance of NamedLockTable.                                     *)
EXTENDS NamedLockTable
=============================================================================
