---------------------------- MODULE MCNamedLocks ----------------------------
(* Small instances of NamedLocks.                                          *)
EXTENDS NamedLocks

(* -1 waits for ever, 0 does not wait, 2 seconds are past the cap of       *)
(* MaxTimeoutMs.                                                           *)
MCTimeout == {-1, 0, 2}

(* An id that a handle was given.                                          *)
MCPseudoIds == {1}
=============================================================================
