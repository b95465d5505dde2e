---------------------------- MODULE AutoIncrement ----------------------------
(***************************************************************************)
(* The AUTO_INCREMENT counter of one persistent table, shared by several   *)
(* connections.                                                            *)
(*                                                                         *)
(* The counter (auto_increment_next) is a catalog column, so it rolls back *)
(* with the rows.  A session therefore keeps a high-water mark of what the *)
(* successful statements of its user transaction consumed.  COMMIT raises  *)
(* the counter to the mark inside the transaction; ROLLBACK and close end  *)
(* the transaction first and then raise the counter in a transaction of    *)
(* their own.                                                              *)
(*                                                                         *)
(* Generated values follow the session's increment and offset and stop at  *)
(* the column's largest value.  A session's insert_id takes the counter's  *)
(* place for the INSERT that follows; TRUNCATE and ALTER TABLE reset the   *)
(* counter on purpose.                                                     *)
(***************************************************************************)
EXTENDS Integers, FiniteSetsExt

CONSTANTS Conn,            \* connections to one file
          MaxValue,        \* the column's largest value
          Increment,       \* auto_increment_increment of each connection
          Offset,          \* auto_increment_offset of each connection
          InsertIds,       \* the values sessions assign to insert_id
          AlterValues,     \* the values ALTER TABLE AUTO_INCREMENT asks for
          MaxRare          \* bound: savepoints, deaths, statements but INSERT

ASSUME AutoIncrementAssumption ==
    /\ MaxValue \in Nat \ {0}
    /\ Increment \in [Conn -> Nat \ {0}]
    /\ Offset \in [Conn -> Nat \ {0}]
    /\ \A c \in Conn : Offset[c] <= Increment[c]
    /\ InsertIds \subseteq 1..MaxValue
    /\ AlterValues \subseteq Nat \ {0}
    /\ MaxRare \in Nat

VARIABLES file,      \* the committed counter and rows
          lock,      \* the connection holding SQLite's write lock
          work,      \* the lock holder's uncommitted counter and rows
          mark,      \* the state a user savepoint would restore
          pc,        \* what each connection is doing
          high,      \* the session's high-water mark, zero when it has none
          insertId,  \* the session variable insert_id, zero when unset
          pending,   \* generated values of a session not yet secured in the file
          given,     \* history: the values generated for each connection
          reused,    \* history: the connections given a value they had had
          bypassed,  \* history: a statement stored a row without the counter
          rare       \* savepoints, deaths and statements but INSERT so far

session == <<mark, pc, high, insertId>>
history == <<given, reused, bypassed>>
vars == <<file, lock, work, session, pending, history, rare>>

Value == 1..MaxValue

NoConn == "none"

ASSUME NoHolderAssumption == NoConn \notin Conn

NoMark == [next |-> 0, rows |-> {}]

Init ==
    /\ file = [next |-> 1, rows |-> {}]
    /\ lock = NoConn
    /\ work = file
    /\ mark = [c \in Conn |-> NoMark]
    /\ pc = [c \in Conn |-> "idle"]
    /\ high = [c \in Conn |-> 0]
    /\ insertId = [c \in Conn |-> 0]
    /\ pending = [c \in Conn |-> {}]
    /\ given = [c \in Conn |-> {}]
    /\ reused = {}
    /\ bypassed = FALSE
    /\ rare = 0

Larger(a, b) == IF a > b THEN a ELSE b

(* The first value from lower on that the session's increment and offset   *)
(* allow; it may lie beyond the column's range.                            *)
GeneratedValue(c, lower) ==
    IF lower <= Offset[c]
    THEN Offset[c]
    ELSE Offset[c] +
         ((lower - Offset[c] + Increment[c] - 1) \div Increment[c]) * Increment[c]

NextAfterGenerated(c, v) ==
    IF MaxValue - v < Increment[c] THEN MaxValue ELSE v + Increment[c]

NextAfterExplicitNotBeyond(current, v) == Larger(current, v)

NextAfterExplicit(current, v) ==
    IF v < current THEN current ELSE IF v = MaxValue THEN v ELSE v + 1

(* The counter read under the write lock, raised to the session's mark. *)
LockedNextIgnoresMark(c, w) == w.next

LockedNext(c, w) == Larger(w.next, high[c])

View(c) == IF lock = c THEN work ELSE file

(* A nonzero insert_id is what an INSERT starts from; the counter and the  *)
(* mark are not read.                                                      *)
InsertNext(c) == IF insertId[c] # 0 THEN insertId[c] ELSE LockedNext(c, View(c))

CanWrite(c) == pc[c] = "transaction" \/ (pc[c] = "idle" /\ lock = NoConn)

(* The rows change and the counter moves when the statement moved it. *)
Written(w, rows, before, after) ==
    [next |-> IF after # before THEN after ELSE w.next, rows |-> rows]

(* Once the counter is set back to next, values from there on may be       *)
(* generated again, except those a session's own mark still covers.        *)
StillGiven(next) ==
    [d \in Conn |-> {v \in given[d] : v < next \/ v \in pending[d]}]

(* The statement started from something other than counter and mark, or,   *)
(* outside a user transaction, from a mark a failed reconciliation left,   *)
(* which it did not pass.                                                  *)
Bypasses(c, before, after) ==
    \/ before # LockedNext(c, View(c))
    \/ pc[c] = "idle" /\ before > View(c).next /\ after = before

(* The statement runs inside the user transaction, or as a transaction of  *)
(* its own; only the former leaves a high-water mark.                      *)
Store(c, rows, before, after) ==
    /\ IF pc[c] = "transaction"
       THEN /\ work' = Written(work, rows, before, after)
            /\ high' = IF after # before
                       THEN [high EXCEPT ![c] = Larger(@, after)] ELSE high
            /\ UNCHANGED file
       ELSE /\ file' = Written(file, rows, before, after)
            /\ work' = file'
            /\ UNCHANGED high
    /\ bypassed' = (bypassed \/ Bypasses(c, before, after))
    /\ UNCHANGED <<lock, mark, pc>>

(* What stays given when an INSERT leaves the counter at after. *)
GivenAfter(c, before, after) ==
    IF after # before /\ after < View(c).next THEN StillGiven(after) ELSE given

(* An INSERT generates a value for its row and leaves rows.  What the      *)
(* session asked for with insert_id, and the column's last value, which is *)
(* generated again and again, do not count as given.                       *)
Generates(c, v, rows) ==
    LET before == InsertNext(c)
        after == NextAfterGenerated(c, v)
        kept == GivenAfter(c, before, after)
    IN  /\ CanWrite(c) /\ v = GeneratedValue(c, before)
        /\ Store(c, rows, before, after)
        /\ IF insertId[c] # 0 \/ v = MaxValue
           THEN given' = kept /\ UNCHANGED <<pending, reused>>
           ELSE /\ given' = [kept EXCEPT ![c] = @ \cup {v}]
                /\ reused' = IF v \in given[c] THEN reused \cup {c} ELSE reused
                /\ pending' = IF pc[c] = "transaction"
                              THEN [pending EXCEPT ![c] = @ \cup {v}] ELSE pending

(* INSERT or REPLACE of a row without a value.  A value that is there      *)
(* already fails an INSERT; REPLACE puts the new row in its place.         *)
InsertGenerated(c) ==
    /\ \E v \in Value : Generates(c, v, View(c).rows \cup {v})
    /\ insertId' = [insertId EXCEPT ![c] = 0]

Renumbered(rows, w, v) == (rows \ {w}) \cup {v}

(* ON DUPLICATE KEY UPDATE keeps the row that is there, or gives it the    *)
(* value the new row would have had: id = VALUES(id), the one assignment   *)
(* to the AUTO_INCREMENT column that is admitted.                          *)
DuplicateRows(rows, v) ==
    {rows} \cup {Renumbered(rows, w, v) : w \in {u \in rows : v \notin rows}}

(* ON DUPLICATE KEY UPDATE whose row collides with another unique key: the *)
(* generated value is consumed, insert_id kept.                            *)
DuplicateGenerated(c) ==
    /\ View(c).rows # {}
    /\ \E v \in Value : \E rows \in DuplicateRows(View(c).rows, v) : Generates(c, v, rows)
    /\ UNCHANGED insertId

(* INSERT or REPLACE of the value v.  An INSERT IGNORE that collides with  *)
(* another unique key moves the counter all the same (stored = FALSE).     *)
InsertExplicit(c, v, stored) ==
    LET before == InsertNext(c)
        after == NextAfterExplicit(before, v)
        rows == View(c).rows
    IN  /\ CanWrite(c)
        /\ stored \/ rows # {}
        /\ Store(c, IF stored THEN rows \cup {v} ELSE rows, before, after)
        /\ given' = GivenAfter(c, before, after)
        /\ UNCHANGED <<insertId, pending, reused>>

(* After an UPDATE the counter goes to the next value the session would    *)
(* generate, which may lie beyond the column's range.                      *)
NextAfterUpdate(c, current, v) ==
    IF v < current THEN current
    ELSE IF v = MaxValue THEN v ELSE GeneratedValue(c, v + 1)

(* UPDATE of the row w to the literal v; insert_id plays no part. *)
Update(c, w, v) ==
    LET before == LockedNext(c, View(c))
    IN  /\ CanWrite(c)
        /\ w \in View(c).rows /\ v \notin View(c).rows
        /\ Store(c, Renumbered(View(c).rows, w, v), before, NextAfterUpdate(c, before, v))
        /\ UNCHANGED <<insertId, pending, given, reused>>

(* The row w gets the number v past the counter, which is neither read nor *)
(* moved.                                                                  *)
StorePast(c, w, v) ==
    /\ CanWrite(c)
    /\ w \in View(c).rows /\ v \notin View(c).rows
    /\ work' = [View(c) EXCEPT !.rows = Renumbered(@, w, v)]
    /\ file' = IF pc[c] = "transaction" THEN file ELSE work'
    /\ bypassed' = (bypassed \/ View(c).next <= v)
    /\ UNCHANGED <<lock, session, pending, given, reused>>

(* UPDATE from another column, the one computed value that UPDATE's        *)
(* planner admits for the AUTO_INCREMENT column.                           *)
UpdateCopied(c, w, v) == StorePast(c, w, v)

(* INSERT of the value v whose row collides with w on another unique key,  *)
(* ON DUPLICATE KEY UPDATE id = VALUES(id): only generated values move the *)
(* counter after a duplicate.                                              *)
DuplicateExplicit(c, w, v) == StorePast(c, w, v)

Delete(c, w) ==
    /\ CanWrite(c)
    /\ w \in View(c).rows
    /\ work' = [View(c) EXCEPT !.rows = @ \ {w}]
    /\ file' = IF pc[c] = "transaction" THEN file ELSE work'
    /\ UNCHANGED <<lock, session, pending, history>>

SetInsertId(c, v) ==
    /\ pc[c] \in {"idle", "transaction", "stuck"}
    /\ insertId' = [insertId EXCEPT ![c] = v]
    /\ UNCHANGED <<file, lock, work, mark, pc, high, pending, history>>

(* TRUNCATE and ALTER TABLE AUTO_INCREMENT = n.  In a user transaction the *)
(* implicit commit comes first, a Commit step that frees the write lock.   *)
ResetTo(c, next, rows) ==
    /\ pc[c] = "idle" /\ lock = NoConn
    /\ file' = [next |-> next, rows |-> rows]
    /\ work' = file'
    /\ given' = StillGiven(next)
    /\ bypassed' = FALSE
    /\ UNCHANGED <<lock, session, pending, reused>>

Truncate(c) == ResetTo(c, 1, {})

RowNext(rows) == IF rows = {} THEN 1 ELSE NextAfterExplicit(1, Max(rows))

AlterNext(c, n) == ResetTo(c, Larger(n, RowNext(file.rows)), file.rows)

StartTransaction(c) ==
    /\ pc[c] = "idle" /\ lock = NoConn
    /\ lock' = c
    /\ work' = file
    /\ pc' = [pc EXCEPT ![c] = "transaction"]
    /\ UNCHANGED <<file, mark, high, insertId, pending, history>>

Savepoint(c) ==
    /\ pc[c] = "transaction"
    /\ mark' = [mark EXCEPT ![c] = work]
    /\ UNCHANGED <<file, lock, work, pc, high, insertId, pending, history>>

RollbackTo(c) ==
    /\ pc[c] = "transaction" /\ mark[c] # NoMark
    /\ work' = mark[c]
    /\ UNCHANGED <<file, lock, session, pending, history>>

(* Raising the counter to the session's mark. *)
Reconciled(c, w) == [w EXCEPT !.next = Larger(@, high[c])]

Secured(c) ==
    /\ high' = [high EXCEPT ![c] = 0]
    /\ pending' = [pending EXCEPT ![c] = {}]

Commit(c) ==
    /\ pc[c] = "transaction"
    /\ file' = Reconciled(c, work)
    /\ work' = file'
    /\ lock' = NoConn
    /\ mark' = [mark EXCEPT ![c] = NoMark]
    /\ pc' = [pc EXCEPT ![c] = "idle"]
    /\ Secured(c)
    /\ UNCHANGED <<insertId, history>>

(* ROLLBACK and close (how \in {"rollback", "close"}) wait for the         *)
(* reconciliation of a mark; without one there is nothing to do, not even  *)
(* a transaction to open.  A closed connection is one that does nothing    *)
(* until it is opened again, with a fresh session.                         *)
Leave(c, how, marked) ==
    /\ pc' = [pc EXCEPT ![c] = IF marked THEN how ELSE "idle"]
    /\ insertId' = IF how = "close" /\ ~marked
                   THEN [insertId EXCEPT ![c] = 0] ELSE insertId

(* With a transaction open SQLite's transaction ends first. *)
Rollback(c, how) ==
    /\ pc[c] = "transaction"
    /\ lock' = NoConn
    /\ work' = file
    /\ mark' = [mark EXCEPT ![c] = NoMark]
    /\ Leave(c, how, high[c] # 0)
    /\ UNCHANGED <<file, high, pending, history>>

Close(c) ==
    /\ pc[c] = "idle"
    /\ Leave(c, "close", high[c] # 0)
    /\ UNCHANGED <<file, lock, work, mark, high, pending, history>>

ReconcileForgets(c) ==
    /\ pc[c] \in {"rollback", "close"} /\ lock = NoConn
    /\ UNCHANGED <<file, work>>
    /\ Secured(c)
    /\ Leave(c, pc[c], FALSE)
    /\ UNCHANGED <<lock, mark, history>>

Reconcile(c) ==
    /\ pc[c] \in {"rollback", "close"} /\ lock = NoConn
    /\ file' = Reconciled(c, file)
    /\ work' = file'
    /\ Secured(c)
    /\ Leave(c, pc[c], FALSE)
    /\ UNCHANGED <<lock, mark, history>>

(* BEGIN IMMEDIATE finds the file locked past the busy timeout, or a later *)
(* step fails and is rolled back: ROLLBACK, or mylite_close_checked,       *)
(* reports an error; the mark stays.                                       *)
ReconcileFails(c) ==
    /\ pc[c] \in {"rollback", "close"}
    /\ pc' = [pc EXCEPT ![c] = "idle"]
    /\ UNCHANGED <<file, lock, work, mark, high, insertId, pending, history>>

(* The rollback of a failed reconciliation fails as well, and nobody looks *)
(* at its result: SQLite stays in a transaction the session does not know  *)
(* of, with the counter raised or not.  Every BEGIN of the session fails.  *)
ReconcileStuck(c) ==
    /\ pc[c] \in {"rollback", "close"} /\ lock = NoConn
    /\ lock' = c
    /\ work' \in {file, Reconciled(c, file)}
    /\ pc' = [pc EXCEPT ![c] = "stuck"]
    /\ UNCHANGED <<file, mark, high, insertId, pending, history>>

(* A read that fails inside SQLite may take the transaction with it. *)
ReadEnds(c) ==
    /\ pc[c] = "stuck"
    /\ lock' = NoConn
    /\ work' = file
    /\ pc' = [pc EXCEPT ![c] = "idle"]
    /\ UNCHANGED <<file, mark, high, insertId, pending, history>>

(* The session is gone: what it had not secured may be generated again, so *)
(* it no longer counts as given.                                           *)
Ends(c) ==
    /\ lock' = IF lock = c THEN NoConn ELSE lock
    /\ work' = IF lock = c THEN file ELSE work
    /\ mark' = [mark EXCEPT ![c] = NoMark]
    /\ pc' = [pc EXCEPT ![c] = "idle"]
    /\ high' = [high EXCEPT ![c] = 0]
    /\ insertId' = [insertId EXCEPT ![c] = 0]
    /\ given' = [given EXCEPT ![c] = @ \ pending[c]]
    /\ pending' = [pending EXCEPT ![c] = {}]
    /\ UNCHANGED <<file, reused, bypassed>>

(* The reconciliation of a close joins the transaction that is still open, *)
(* which SQLite rolls back when the connection goes: the close succeeds    *)
(* and the mark is lost.                                                   *)
CloseStuck(c) == pc[c] = "stuck" /\ Ends(c)

(* The process dies, or mylite_close destroys the handle after a failed    *)
(* mylite_close_checked.                                                   *)
Die(c) == Ends(c)

Common(c) ==
    \/ InsertGenerated(c)
    \/ \E v \in Value : InsertExplicit(c, v, TRUE)
    \/ StartTransaction(c) \/ RollbackTo(c) \/ Commit(c)
    \/ \E how \in {"rollback", "close"} : Rollback(c, how)
    \/ Close(c) \/ Reconcile(c) \/ ReconcileFails(c)
    \/ ReadEnds(c) \/ CloseStuck(c)

Rare(c) ==
    \/ Savepoint(c) \/ Die(c) \/ ReconcileStuck(c)
    \/ DuplicateGenerated(c)
    \/ \E v \in Value : InsertExplicit(c, v, FALSE)
    \/ \E w, v \in Value : Update(c, w, v) \/ UpdateCopied(c, w, v) \/ DuplicateExplicit(c, w, v)
    \/ \E w \in Value : Delete(c, w)
    \/ \E v \in InsertIds : SetInsertId(c, v)
    \/ Truncate(c)
    \/ \E n \in AlterValues : AlterNext(c, n)

Next ==
    \E c \in Conn :
        \/ Common(c) /\ UNCHANGED rare
        \/ rare < MaxRare /\ Rare(c) /\ rare' = rare + 1

Spec == Init /\ [][Next]_vars

-----------------------------------------------------------------------------

(* The committed counter is above every committed row (or at the end of    *)
(* the column's range), so the next value generated by any connection is   *)
(* not the key of an existing row: the counter and the rows move together  *)
(* through statements, savepoints, rollbacks and deaths.  Excepted is what *)
(* went past the counter since the last TRUNCATE or ALTER TABLE, which     *)
(* restore it: an INSERT that started from insert_id, a number at or above *)
(* the counter from another column or from ON DUPLICATE KEY UPDATE of an   *)
(* explicit row, a value below a mark that a failed reconciliation left.   *)
CounterAboveRows ==
    ~bypassed => \A v \in file.rows : v < file.next \/ file.next = MaxValue

(* A generated value stays out of reach until the counter is set back by   *)
(* TRUNCATE, ALTER TABLE or insert_id: the committed counter passed it, or *)
(* the session that consumed it still holds a mark above it.  COMMIT,      *)
(* ROLLBACK and close never drop a mark they did not secure, unless the    *)
(* close ends a transaction that a failed reconciliation left open.        *)
ConsumedCovered ==
    \A c \in Conn : \A v \in given[c] :
        v < file.next \/ (v \in pending[c] /\ v < high[c])

(* Short of process death, of closing a stuck connection and of setting    *)
(* the counter back, a connection is never given a value below the         *)
(* column's end a second time, whatever it rolls back, updates, deletes or *)
(* closes and whatever other connections write meanwhile.                  *)
OwnValuesFresh == reused = {}
=============================================================================
