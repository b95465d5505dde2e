------------------------ MODULE MCPreparedStatements ------------------------
(* Two prepared statements of one connection, and direct commands.         *)
EXTENDS PreparedStatements, TLC

Symmetry == Permutations(Stmt)
=============================================================================
