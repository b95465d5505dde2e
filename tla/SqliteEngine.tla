---------------------------- MODULE SqliteEngine ----------------------------
(***************************************************************************)
(* What one SQLite connection does with the transaction-control commands   *)
(* MyLite sends it.  SQLite is bundled, not part of libmylite: this is how *)
(* the runtime relies on it.  An engine is a record; a command yields the  *)
(* set of its possible outcomes [ok, e, d]: whether it reported success,   *)
(* the engine afterwards and the file afterwards.                          *)
(***************************************************************************)
EXTENDS Integers, Sequences

(* sqlite3_get_autocommit # 0: no transaction, the view is the file.       *)
ClosedEngine(d) == [open |-> FALSE, bySavepoint |-> FALSE, view |-> d, stack |-> <<>>]

Outcome(ok, e, d) == [ok |-> ok, e |-> e, d |-> d]

Fails(e, d) == {Outcome(FALSE, e, d)}

(* BEGIN [IMMEDIATE]: refused inside a transaction, or SQLITE_BUSY.        *)
BeginOutcomes(e, d) ==
    Fails(e, d) \cup
    (IF e.open THEN {} ELSE {Outcome(TRUE, [e EXCEPT !.open = TRUE], d)})

(* COMMIT: done; SQLITE_BUSY, which keeps the transaction; or an error     *)
(* after which SQLite has rolled everything back.                          *)
CommitOutcomes(e, d) ==
    Fails(e, d) \cup
    (IF e.open THEN {Outcome(TRUE, ClosedEngine(e.view), e.view),
                     Outcome(FALSE, ClosedEngine(d), d)}
     ELSE {})

(* ROLLBACK: done, or not executed (no transaction, no memory to run it).  *)
RollbackOutcomes(e, d) ==
    Fails(e, d) \cup
    (IF e.open THEN {Outcome(TRUE, ClosedEngine(d), d)} ELSE {})

(* SAVEPOINT id: outside a transaction it opens one of its own.            *)
SavepointOutcomes(e, d, id) ==
    Fails(e, d) \cup
    {Outcome(TRUE,
             [e EXCEPT !.open = TRUE,
                       !.bySavepoint = IF e.open THEN e.bySavepoint ELSE TRUE,
                       !.stack = Append(e.stack, [id |-> id, saved |-> e.view])],
             d)}

Marks(e, id) == {i \in 1 .. Len(e.stack) : e.stack[i].id = id}

(* The innermost savepoint of that name.                                   *)
MarkAt(e, id) == CHOOSE i \in Marks(e, id) : \A j \in Marks(e, id) : j <= i

(* ROLLBACK TO id: the savepoint itself stays.                             *)
RollbackToOutcomes(e, d, id) ==
    Fails(e, d) \cup
    (IF Marks(e, id) = {} THEN {}
     ELSE {Outcome(TRUE,
                   [e EXCEPT !.view = e.stack[MarkAt(e, id)].saved,
                             !.stack = SubSeq(e.stack, 1, MarkAt(e, id))],
                   d)})

(* RELEASE id: forgets it and the inner ones; releasing the savepoint that *)
(* opened the transaction commits.                                         *)
ReleaseOutcomes(e, d, id) ==
    Fails(e, d) \cup
    (IF Marks(e, id) = {} THEN {}
     ELSE IF e.bySavepoint /\ MarkAt(e, id) = 1 THEN CommitOutcomes(e, d)
     ELSE {Outcome(TRUE, [e EXCEPT !.stack = SubSeq(e.stack, 1, MarkAt(e, id) - 1)], d)})
=============================================================================
