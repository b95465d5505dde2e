-------------------------- MODULE MCAutoIncrement --------------------------
(* Constants for AutoIncrement: when Stepping, the connection c1 uses an   *)
(* increment and an offset of two, the others MySQL's default of one.      *)
EXTENDS AutoIncrement, TLC

CONSTANTS c1, c2, Stepping

MCIncrement == [c \in Conn |-> IF Stepping /\ c = c1 THEN 2 ELSE 1]
MCOffset == [c \in Conn |-> IF Stepping /\ c = c1 THEN 2 ELSE 1]
=============================================================================
