------------------------- MODULE SessionTransaction -------------------------
(***************************************************************************)
(* The transaction state of one MyLite connection: user transactions,      *)
(* autocommit, the savepoint registry, statement transactions, implicit    *)
(* commits and the poison flag (transaction_state_uncertain), over an      *)
(* SQLite connection whose commands may fail.                              *)
(*                                                                         *)
(* A writing statement s puts two rows, <<s, 1>> and <<s, 2>>, into the    *)
(* file; that it may fail between them is what statement atomicity is      *)
(* about.                                                                  *)
(*                                                                         *)
(* A temporary table is known twice: to the session's own catalog, which   *)
(* no ROLLBACK touches, and to SQLite, where it is part of the transaction *)
(* (<<s, 3>> for the one that statement s created).                        *)
(***************************************************************************)
EXTENDS SqliteEngine

CONSTANTS
    Stmt,           \* writing statements, each run at most once
    Name,           \* savepoint names
    MaxSavepoints   \* bound on the savepoints set over a connection's life

ASSUME SessionTransactionAssumption == MaxSavepoints \in Nat

VARIABLES
    durable,    \* what is committed: rows in the file, temporary tables beside it
    engine,     \* the SQLite connection (sqlite3 *)
    active,     \* session.user_transaction_active
    autocommit, \* session.autocommit_enabled
    saves,      \* session.savepoints: MySQL name and SQLite name
    nextId,     \* session.next_savepoint_id
    poisoned,   \* database.transaction_state_uncertain
    run,        \* the statement being executed
    temps,      \* session.temporary_catalog: tables by the statement that made them
    done,       \* statements that were started, ever
    lost,       \* history: a command of this handle failed and took the user
                \* transaction with it, which nothing records
    unrepaired, \* history: a repair after ROLLBACK, or a DROP of several temporary
                \* tables in a user transaction, failed half-way
    stuck       \* history: the reconciliation after a ROLLBACK could not end the
                \* transaction it had opened, of which nothing tells the session

repairVars == <<temps, unrepaired, stuck>>
vars == <<durable, engine, active, autocommit, saves, nextId, poisoned, run, done, lost, repairVars>>

(* kind: "none", "read", "dml", "ddl", or a temporary CREATE or DROP before *)
(* and after its execution ("create", "created", "drop", "dropped");       *)
(* outer: it opened the SQLite transaction itself (a DIRECT statement      *)
(* transaction or the writer-stable planning transaction).                 *)
Idle == [kind |-> "none", outer |-> FALSE, failed |-> FALSE, stmt |-> "-"]
Running(kind, outer, s) == [kind |-> kind, outer |-> outer, failed |-> FALSE, stmt |-> s]

(* The SQLite name _mylite_statement, which no user savepoint has.         *)
StatementMark == 0

Init ==
    /\ durable = {} /\ engine = ClosedEngine({})
    /\ active = FALSE /\ autocommit = TRUE
    /\ saves = <<>> /\ nextId = 1
    /\ poisoned = FALSE /\ run = Idle /\ done = {} /\ lost = FALSE
    /\ temps = {} /\ unrepaired = FALSE /\ stuck = FALSE

(* reject_command_with_active_cursor, reject_poisoned_connection.          *)
Accepts == run = Idle /\ ~poisoned

Becomes(o) == engine' = o.e /\ durable' = o.d

(* A failed command that may have ended the user transaction: the code     *)
(* returns the error and leaves the session state as it is.                *)
FailsWith(o) ==
    /\ Becomes(o)
    /\ lost' = (lost \/ (active /\ engine.open /\ ~o.e.open))
    /\ UNCHANGED <<active, saves>>

(* No command sent: an outcome that changes nothing.                       *)
Skip(e, d) == {Outcome(TRUE, e, d)}

(* The COMMIT of an active user transaction, the same in                   *)
(* commit_active_user_transaction, execute_commit_statement_with_chain and *)
(* execute_start_transaction_statement_with_characteristics.               *)
CommitUser == IF active THEN CommitOutcomes(engine, durable)
                        ELSE Skip(engine, durable)

----------------------------------------------------------------------------
(* START TRANSACTION.                                                      *)
StartTransaction ==
    /\ Accepts
    /\ \E c \in CommitUser :
          IF ~c.ok
          THEN FailsWith(c)
          ELSE \E b \in BeginOutcomes(c.e, c.d) :
                  /\ Becomes(b)
                  /\ active' = b.ok
                  /\ saves' = IF active THEN <<>> ELSE saves
                  /\ UNCHANGED lost
    /\ UNCHANGED <<autocommit, nextId, poisoned, run, done, repairVars>>

(* COMMIT [AND CHAIN].                                                     *)
Commit(chain) ==
    /\ Accepts
    /\ \E c \in CommitUser :
          IF ~c.ok
          THEN FailsWith(c)
          ELSE /\ saves' = IF active THEN <<>> ELSE saves
               /\ UNCHANGED lost
               /\ \E b \in IF chain THEN BeginOutcomes(c.e, c.d) ELSE Skip(c.e, c.d) :
                     Becomes(b) /\ active' = (chain /\ b.ok)
    /\ UNCHANGED <<autocommit, nextId, poisoned, run, done, repairVars>>

Physical(S) == S \X {3}

(* A statement that leaves SQLite with v: inside a transaction it is not   *)
(* committed yet.                                                          *)
Leaves(ok, e, d, v) == Outcome(ok, [e EXCEPT !.view = v], IF e.open THEN d ELSE v)

(* reconcile_temporary_physical_tables_after_user_rollback: first the      *)
(* physical tables without descriptor are dropped one by one, then the     *)
(* missing ones are created again, empty.  Any of these statements, or of  *)
(* the queries between them, may fail, and cost the transaction if there   *)
(* is one.                                                                 *)
RepairOutcomes(e, d) ==
    LET orphans == {x \in e.view : x[2] = 3 /\ x[1] \notin temps}
        missing == Physical(temps) \ e.view
        kept    == e.view \ orphans
    IN  {Leaves(TRUE, e, d, kept \cup missing)}
        \cup {Leaves(FALSE, e, d, e.view \ X) : X \in SUBSET orphans}
        \cup {Leaves(FALSE, e, d, kept \cup X) : X \in SUBSET missing}
        \cup (IF e.open THEN Fails(ClosedEngine(d), d) ELSE {})

(* The ROLLBACK after a failure, whose own result is ignored.              *)
Undone(c) == {[x EXCEPT !.ok = FALSE] : x \in RollbackOutcomes(c.e, c.d)}

(* reconcile_persistent_auto_increment_high_waters outside a transaction:  *)
(* nothing to do, or a transaction of its own, which changes a counter and *)
(* no rows; its UPDATE may fail as its COMMIT may.                         *)
ReconcileOutcomes(e, d) ==
    Skip(e, d) \cup
    UNION {IF b.ok
           THEN UNION {IF c.ok THEN {c} ELSE Undone(c) : c \in CommitOutcomes(b.e, b.d)}
           ELSE {b} : b \in BeginOutcomes(e, d)}

(* ROLLBACK [AND CHAIN]: the temporary tables are repaired, then the       *)
(* AUTO_INCREMENT counters reconciled; unless both succeed there is no new *)
(* transaction.                                                            *)
Rollback(chain) ==
    /\ Accepts
    /\ \E c \in IF active THEN RollbackOutcomes(engine, durable) ELSE Skip(engine, durable) :
          IF ~c.ok
          THEN FailsWith(c) /\ UNCHANGED <<unrepaired, stuck>>
          ELSE /\ saves' = IF active THEN <<>> ELSE saves
               /\ UNCHANGED lost
               /\ \E r \in IF active THEN RepairOutcomes(c.e, c.d) ELSE {c} :
                  \E h \in IF active /\ r.ok THEN ReconcileOutcomes(r.e, r.d) ELSE {r} :
                  \E b \in IF chain /\ h.ok THEN BeginOutcomes(h.e, h.d) ELSE {h} :
                     /\ Becomes(b) /\ active' = (chain /\ h.ok /\ b.ok)
                     /\ unrepaired' = IF active THEN ~r.ok ELSE unrepaired
                     /\ stuck' = (stuck \/ (active /\ h.e.open))
    /\ UNCHANGED <<autocommit, nextId, poisoned, run, done, temps>>

(* SET autocommit: turning it on commits.                                  *)
SetAutocommit(value) ==
    /\ Accepts
    /\ \E c \in IF value /\ ~autocommit THEN CommitUser ELSE Skip(engine, durable) :
          IF ~c.ok
          THEN FailsWith(c) /\ UNCHANGED autocommit
          ELSE /\ Becomes(c) /\ autocommit' = value
               /\ IF value /\ ~autocommit /\ active
                  THEN active' = FALSE /\ saves' = <<>>
                  ELSE UNCHANGED <<active, saves>>
               /\ UNCHANGED lost
    /\ UNCHANGED <<nextId, poisoned, run, done, repairVars>>

----------------------------------------------------------------------------
(* begin_autocommit_disabled_transaction: the transaction that the first   *)
(* statement opens when autocommit is off.                                 *)
OpenIfNeeded ==
    IF active \/ autocommit THEN Skip(engine, durable) ELSE BeginOutcomes(engine, durable)

(* find_user_savepoint: names are unique.                                  *)
Found(n) == {i \in 1 .. Len(saves) : saves[i].name = n}

(* remove_user_savepoint_at: the later entries move down one place.        *)
RemovedAt(i) == [j \in 1 .. Len(saves) - 1 |-> saves[IF j < i THEN j ELSE j + 1]]

Others(n) == IF Found(n) = {} THEN saves ELSE RemovedAt(CHOOSE i \in Found(n) : TRUE)

(* Mutant of Savepoint: the earlier savepoint of that name stays listed.   *)
SavepointKeepsOld(n) ==
    /\ Accepts /\ nextId <= MaxSavepoints /\ active
    /\ \E v \in SavepointOutcomes(engine, durable, nextId) :
          /\ Becomes(v)
          /\ nextId' = IF v.ok THEN nextId + 1 ELSE nextId
          /\ saves' = IF v.ok THEN Append(saves, [name |-> n, id |-> nextId]) ELSE saves
    /\ UNCHANGED <<active, autocommit, poisoned, run, done, lost, repairVars>>

(* SAVEPOINT n: nothing at all in autocommit mode outside a transaction.   *)
(* The SQLite savepoint of a replaced name stays on SQLite's stack.        *)
Savepoint(n) ==
    /\ Accepts /\ nextId <= MaxSavepoints
    /\ ~(autocommit /\ ~active)
    /\ \E o \in OpenIfNeeded :
          IF ~o.ok
          THEN Becomes(o) /\ UNCHANGED <<active, saves, nextId>>
          ELSE /\ active' = TRUE
               /\ \E v \in SavepointOutcomes(o.e, o.d, nextId) :
                     /\ Becomes(v)
                     /\ nextId' = IF v.ok THEN nextId + 1 ELSE nextId
                     /\ saves' = IF v.ok
                                 THEN Append(Others(n), [name |-> n, id |-> nextId])
                                 ELSE saves
    /\ UNCHANGED <<autocommit, poisoned, run, done, lost, repairVars>>

(* Mutant of RollbackTo: the later names stay in the registry.             *)
RollbackToKeepsLater(n) ==
    /\ Accepts /\ active
    /\ \E i \in Found(n) : \E r \in RollbackToOutcomes(engine, durable, saves[i].id) :
          Becomes(r) /\ saves' = saves
    /\ UNCHANGED <<active, autocommit, nextId, poisoned, run, done, lost, repairVars>>

(* Mutant of RollbackTo: only a full ROLLBACK repairs.                     *)
RollbackToWithoutRepair(n) ==
    /\ Accepts /\ active
    /\ \E i \in Found(n) : \E r \in RollbackToOutcomes(engine, durable, saves[i].id) :
          Becomes(r) /\ saves' = IF r.ok THEN SubSeq(saves, 1, i) ELSE saves
    /\ UNCHANGED <<active, autocommit, nextId, poisoned, run, done, lost, repairVars>>

(* ROLLBACK TO n, with the repair inside the transaction; an unknown name  *)
(* is an error that changes nothing.                                       *)
RollbackTo(n) ==
    /\ Accepts /\ active
    /\ \E i \in Found(n) : \E c \in RollbackToOutcomes(engine, durable, saves[i].id) :
          /\ saves' = IF c.ok THEN SubSeq(saves, 1, i) ELSE saves
          /\ \E r \in IF c.ok THEN RepairOutcomes(c.e, c.d) ELSE {c} :
                /\ Becomes(r)
                /\ lost' = (lost \/ (c.e.open /\ ~r.e.open))
                /\ unrepaired' = IF c.ok THEN ~r.ok ELSE unrepaired
    /\ UNCHANGED <<active, autocommit, nextId, poisoned, run, done, temps, stuck>>

(* RELEASE SAVEPOINT n.                                                    *)
Release(n) ==
    /\ Accepts /\ active
    /\ \E i \in Found(n) : \E r \in ReleaseOutcomes(engine, durable, saves[i].id) :
          Becomes(r) /\ saves' = IF r.ok THEN SubSeq(saves, 1, i - 1) ELSE saves
    /\ UNCHANGED <<active, autocommit, nextId, poisoned, run, done, lost, repairVars>>

----------------------------------------------------------------------------
(* A row-writing statement.  Inside a transaction it runs in a savepoint   *)
(* of its own (begin_statement_transaction); outside, with autocommit on,  *)
(* that savepoint is inside the writer-stable planning transaction.        *)
BeginDml(s) ==
    /\ Accepts /\ s \notin done
    /\ \E o \in IF active THEN Skip(engine, durable) ELSE BeginOutcomes(engine, durable) :
       \E v \in IF o.ok THEN SavepointOutcomes(o.e, o.d, StatementMark) ELSE {o} :
          LET outer == autocommit /\ ~active
          IN  IF v.ok
              THEN /\ Becomes(v) /\ run' = Running("dml", outer, s)
                   /\ active' = (active \/ ~outer)
                   /\ UNCHANGED poisoned
              ELSE IF ~o.ok \/ ~outer
              THEN /\ Becomes(v)
                   /\ active' = (active \/ (o.ok /\ ~outer))
                   /\ UNCHANGED <<run, poisoned>>
              ELSE /\ Becomes(v) /\ UNCHANGED <<active, poisoned>>
                   /\ run' = [Running("dml", TRUE, s) EXCEPT !.failed = TRUE]
    /\ done' = done \cup {s}
    /\ UNCHANGED <<autocommit, saves, nextId, lost, repairVars>>

(* A statement with an implicit commit (DDL): the user transaction is      *)
(* committed, then the statement runs in the planning transaction.         *)
BeginDdl(s) ==
    /\ Accepts /\ s \notin done
    /\ \E c \in CommitUser :
          IF ~c.ok
          THEN FailsWith(c) /\ UNCHANGED run
          ELSE /\ active' = FALSE /\ UNCHANGED lost
               /\ saves' = IF active THEN <<>> ELSE saves
               /\ \E b \in BeginOutcomes(c.e, c.d) :
                     Becomes(b) /\ run' = IF b.ok THEN Running("ddl", TRUE, s) ELSE run
    /\ done' = done \cup {s}
    /\ UNCHANGED <<autocommit, nextId, poisoned, repairVars>>

Rows(s) == {<<s, 1>>, <<s, 2>>}

Writing == run.kind \in {"dml", "ddl"} /\ ~run.failed /\ engine.open

(* One row after the other; SQLite refuses one (a constraint, an           *)
(* interrupt), or fails so that it rolls the whole transaction back.       *)
WriteRow ==
    /\ Writing /\ ~(Rows(run.stmt) \subseteq engine.view)
    /\ \/ /\ engine' = [engine EXCEPT !.view = @ \cup
                            {IF <<run.stmt, 1>> \in @ THEN <<run.stmt, 2>> ELSE <<run.stmt, 1>>}]
          /\ UNCHANGED run
       \/ engine' = engine /\ run' = [run EXCEPT !.failed = TRUE]
       \/ engine' = ClosedEngine(durable) /\ run' = [run EXCEPT !.failed = TRUE]
    /\ UNCHANGED <<durable, active, autocommit, saves, nextId, poisoned, done, lost, repairVars>>

----------------------------------------------------------------------------
(* CREATE TEMPORARY TABLE s, and DROP [TEMPORARY] TABLE of temporary       *)
(* tables: no implicit commit, and inside a user transaction no savepoint. *)
BeginTemporary(kind, s) ==
    /\ Accepts
    /\ \E o \in IF active THEN Skip(engine, durable) ELSE BeginOutcomes(engine, durable) :
          LET outer == autocommit /\ ~active
          IN  /\ Becomes(o)
              /\ active' = (active \/ (o.ok /\ ~outer))
              /\ run' = IF o.ok THEN Running(kind, outer, s) ELSE run
    /\ UNCHANGED <<autocommit, saves, nextId, poisoned, lost, repairVars>>

BeginCreateTemporary(s) == s \notin done /\ BeginTemporary("create", s) /\ done' = done \cup {s}

BeginDropTemporary == temps # {} /\ BeginTemporary("drop", "-") /\ UNCHANGED done

(* create_temporary_table_from_plan: physical table and indexes, then the  *)
(* descriptor.  A failure after CREATE TABLE, or of the DROP that answers  *)
(* a failed append, leaves a table nobody knows.                           *)
CreateTemporary ==
    /\ run.kind = "create" /\ ~run.failed
    /\ \/ /\ Becomes(Leaves(TRUE, engine, durable, engine.view \cup Physical({run.stmt})))
          /\ temps' = temps \cup {run.stmt}
          /\ run' = [run EXCEPT !.kind = "created"]
       \/ /\ \E S \in SUBSET {run.stmt} :
                Becomes(Leaves(FALSE, engine, durable, engine.view \cup Physical(S)))
          /\ run' = [run EXCEPT !.failed = TRUE]
          /\ UNCHANGED temps
    /\ UNCHANGED <<active, autocommit, saves, nextId, poisoned, done, lost, unrepaired, stuck>>

(* execute_drop_table_from_plan: all physical tables one after the other,  *)
(* then all descriptors.  Dropping a table that is not there fails.        *)
DropTemporary ==
    /\ run.kind = "drop" /\ ~run.failed
    /\ \E T \in (SUBSET temps) \ {{}} :
          \/ /\ Physical(T) \subseteq engine.view
             /\ Becomes(Leaves(TRUE, engine, durable, engine.view \ Physical(T)))
             /\ temps' = temps \ T
             /\ run' = [run EXCEPT !.kind = "dropped"]
             /\ UNCHANGED unrepaired
          \/ /\ \E P \in (SUBSET T) \ {T} :
                   /\ Physical(P) \subseteq engine.view
                   /\ Becomes(Leaves(FALSE, engine, durable, engine.view \ Physical(P)))
                   /\ unrepaired' = (unrepaired \/ (P # {} /\ ~run.outer))
             /\ run' = [run EXCEPT !.failed = TRUE]
             /\ UNCHANGED temps
    /\ UNCHANGED <<active, autocommit, saves, nextId, poisoned, done, lost, stuck>>

(* The physical statement fails and takes the transaction with it; a       *)
(* statement that did not open the transaction has no clean-up to notice.  *)
TemporaryBreaks ==
    /\ run.kind \in {"create", "drop"} /\ ~run.failed
    /\ engine.open /\ engine' = ClosedEngine(durable)
    /\ run' = [run EXCEPT !.failed = TRUE]
    /\ lost' = (lost \/ ~run.outer)
    /\ UNCHANGED <<durable, active, autocommit, saves, nextId, poisoned, done, repairVars>>

(* DROP TABLE validates the catalog in its planning transaction, after the *)
(* descriptors are gone.                                                   *)
ValidationFails ==
    /\ run.kind = "dropped" /\ run.outer /\ ~run.failed
    /\ run' = [run EXCEPT !.failed = TRUE]
    /\ UNCHANGED <<durable, engine, active, autocommit, saves, nextId, poisoned, done, lost, repairVars>>

----------------------------------------------------------------------------
(* mark_transaction_state_uncertain after the emergency ROLLBACK of a      *)
(* failed completion or cleanup; active is cleared when SQLite is back in  *)
(* autocommit, savepoints are not.                                         *)
Poison(o) ==
    \E x \in IF o.e.open THEN RollbackOutcomes(o.e, o.d) ELSE Skip(o.e, o.d) :
        /\ Becomes(x)
        /\ poisoned' = TRUE
        /\ active' = (active /\ x.e.open)

(* The statement has done what it does inside its transaction.             *)
Executed ==
    \/ Writing /\ Rows(run.stmt) \subseteq engine.view
    \/ run.kind \in {"created", "dropped"} /\ ~run.failed

(* commit_statement_transaction, inner savepoint then outer transaction.   *)
FinishStatement ==
    /\ Executed
    /\ \E r \in IF run.kind = "dml"
                THEN ReleaseOutcomes(engine, durable, StatementMark)
                ELSE Skip(engine, durable) :
       \E c \in IF r.ok /\ run.outer THEN CommitOutcomes(r.e, r.d) ELSE {r} :
          IF c.ok THEN Becomes(c) /\ UNCHANGED <<active, poisoned>> ELSE Poison(c)
    /\ run' = Idle
    /\ UNCHANGED <<autocommit, saves, nextId, done, lost, repairVars>>

(* rollback_statement_transaction: ROLLBACK TO and RELEASE, then ROLLBACK  *)
(* of the outer transaction.  There is no inner one when SAVEPOINT failed. *)
UndoInner ==
    IF Marks(engine, StatementMark) = {} /\ engine.open
    THEN Skip(engine, durable)
    ELSE UNION {IF b.ok THEN ReleaseOutcomes(b.e, b.d, StatementMark) ELSE {b} :
                    b \in RollbackToOutcomes(engine, durable, StatementMark)}

(* Mutant of FailStatement: the savepoint is released, not rolled back to. *)
FailStatementReleasesOnly ==
    /\ run.failed
    /\ \E u \in IF run.kind = "dml"
                THEN ReleaseOutcomes(engine, durable, StatementMark)
                ELSE Skip(engine, durable) :
       \E c \in IF u.ok /\ run.outer THEN RollbackOutcomes(u.e, u.d) ELSE {u} :
          IF c.ok THEN Becomes(c) /\ UNCHANGED <<active, poisoned>> ELSE Poison(c)
    /\ run' = Idle
    /\ UNCHANGED <<autocommit, saves, nextId, done, lost, repairVars>>

(* Mutant of FailStatement: a failed clean-up does not poison the handle.  *)
FailStatementNoPoison ==
    /\ run.failed
    /\ \E u \in IF run.kind = "dml" THEN UndoInner ELSE Skip(engine, durable) :
       \E c \in IF u.ok /\ run.outer THEN RollbackOutcomes(u.e, u.d) ELSE {u} :
          Becomes(c) /\ UNCHANGED <<active, poisoned>>
    /\ run' = Idle
    /\ UNCHANGED <<autocommit, saves, nextId, done, lost, repairVars>>

FailStatement ==
    /\ run.failed
    /\ \E u \in IF run.kind = "dml" THEN UndoInner ELSE Skip(engine, durable) :
       \E c \in IF u.ok /\ run.outer THEN RollbackOutcomes(u.e, u.d) ELSE {u} :
          IF c.ok THEN Becomes(c) /\ UNCHANGED <<active, poisoned>> ELSE Poison(c)
    /\ run' = Idle
    /\ UNCHANGED <<autocommit, saves, nextId, done, lost, repairVars>>

----------------------------------------------------------------------------
(* A query or cursor: begin_read_statement_transaction, which joins        *)
(* whatever transaction SQLite has.                                        *)
BeginRead ==
    /\ Accepts
    /\ \E o \in IF active \/ engine.open THEN Skip(engine, durable)
                ELSE BeginOutcomes(engine, durable) :
          /\ Becomes(o)
          /\ active' = (active \/ (o.ok /\ ~autocommit /\ ~engine.open))
          /\ run' = IF o.ok
                    THEN Running("read", autocommit /\ ~active /\ ~engine.open, "-")
                    ELSE run
    /\ UNCHANGED <<autocommit, saves, nextId, poisoned, done, lost, repairVars>>

(* finish_cursor_statement commits what the read opened.                   *)
FinishRead ==
    /\ run.kind = "read"
    /\ \E c \in IF run.outer THEN CommitOutcomes(engine, durable)
                ELSE Skip(engine, durable) :
          IF c.ok THEN Becomes(c) /\ UNCHANGED <<active, poisoned>> ELSE Poison(c)
    /\ run' = Idle
    /\ UNCHANGED <<autocommit, saves, nextId, done, lost, repairVars>>

(* finish_failed_cursor_statement: the failed step may have cost the       *)
(* transaction; only a transaction of its own is rolled back.              *)
FailRead ==
    /\ run.kind = "read"
    /\ \E f \in {engine, ClosedEngine(durable)} :
          IF run.outer
          THEN /\ \E c \in RollbackOutcomes(f, durable) :
                     IF c.ok THEN Becomes(c) /\ UNCHANGED <<active, poisoned>> ELSE Poison(c)
               /\ UNCHANGED <<saves, lost, stuck>>
          ELSE /\ FailsWith(Outcome(FALSE, f, durable)) /\ UNCHANGED poisoned
               /\ stuck' = (stuck /\ f.open)
    /\ run' = Idle
    /\ UNCHANGED <<autocommit, nextId, done, temps, unrepaired>>

----------------------------------------------------------------------------
(* mylite_close and a new open, or death at any point and a new open: what *)
(* was not committed is rolled back by SQLite, temporary tables end.       *)
Reopen ==
    /\ durable' = durable \ Physical(Stmt)
    /\ engine' = ClosedEngine(durable')
    /\ active' = FALSE /\ autocommit' = TRUE
    /\ saves' = <<>> /\ nextId' = 1
    /\ poisoned' = FALSE /\ run' = Idle /\ lost' = FALSE
    /\ temps' = {} /\ unrepaired' = FALSE /\ stuck' = FALSE
    /\ UNCHANGED done

Next ==
    \/ StartTransaction
    \/ \E chain \in BOOLEAN : Commit(chain) \/ Rollback(chain)
    \/ \E value \in BOOLEAN : SetAutocommit(value)
    \/ \E n \in Name : Savepoint(n) \/ RollbackTo(n) \/ Release(n)
    \/ \E s \in Stmt : BeginDml(s) \/ BeginDdl(s)
    \/ \E s \in Stmt : BeginCreateTemporary(s)
    \/ BeginDropTemporary
    \/ CreateTemporary \/ DropTemporary \/ TemporaryBreaks \/ ValidationFails
    \/ WriteRow \/ FinishStatement \/ FailStatement
    \/ BeginRead \/ FinishRead \/ FailRead
    \/ Reopen

Spec == Init /\ [][Next]_vars

----------------------------------------------------------------------------
Row == Stmt \X {1, 2}
Stored == Row \cup Physical(Stmt)

(* Types, and the registry's link to SQLite: while the handle is usable,   *)
(* the registry names savepoints that are on SQLite's stack, each name     *)
(* once and in the order they were set (create_or_replace_user_savepoint   *)
(* and rollback_to_user_savepoint keep two lists in step).                 *)
TypeOK ==
    /\ durable \subseteq Stored
    /\ engine.open \in BOOLEAN /\ engine.bySavepoint \in BOOLEAN /\ engine.view \subseteq Stored
    /\ \A i \in 1 .. Len(engine.stack) :
          /\ engine.stack[i].id \in {StatementMark} \cup 1 .. MaxSavepoints
          /\ engine.stack[i].saved \subseteq Stored
    /\ active \in BOOLEAN /\ autocommit \in BOOLEAN /\ poisoned \in BOOLEAN /\ lost \in BOOLEAN
    /\ nextId \in 1 .. MaxSavepoints + 1
    /\ run.kind \in {"none", "read", "dml", "ddl", "create", "created", "drop", "dropped"}
    /\ run.outer \in BOOLEAN /\ run.failed \in BOOLEAN /\ run.stmt \in Stmt \cup {"-"}
    /\ done \subseteq Stmt /\ temps \subseteq done
    /\ unrepaired \in BOOLEAN /\ stuck \in BOOLEAN
    /\ \A i, j \in 1 .. Len(saves) : i < j => saves[i].id < saves[j].id /\ saves[i].name # saves[j].name
    /\ ~poisoned /\ ~lost /\ engine.open => \A i \in 1 .. Len(saves) : Marks(engine, saves[i].id) # {}

(* The file never holds half a statement, whatever fails, at whichever     *)
(* point the process dies, in whichever mode the statement ran.            *)
StatementsWhole == \A s \in Stmt : <<s, 1>> \in durable <=> <<s, 2>> \in durable

(* Between statements of a handle that is not poisoned, the session        *)
(* believes in a user transaction exactly when SQLite has one, unless a    *)
(* command with no clean-up of its own (COMMIT, a read, a temporary CREATE *)
(* or DROP, a repair) failed and ended the user transaction (lost).  The   *)
(* transaction that a ROLLBACK's reconciliation could not end (stuck) is   *)
(* one the session knows nothing of; it holds the file's rows and no       *)
(* others, since no statement can write until it is gone.                  *)
SessionMatchesEngine ==
    /\ run = Idle /\ ~poisoned /\ ~lost => (active <=> engine.open /\ ~stuck)
    /\ stuck => ~active /\ engine.open /\ engine.view = durable

(* A temporary table that the session knows is there to be used: ROLLBACK, *)
(* ROLLBACK TO and failed statements take it from SQLite, and the repair   *)
(* or the failed statement's own clean-up must have put it back, in        *)
(* whichever order CREATE, DROP and savepoints came.                       *)
TempsBacked ==
    run = Idle /\ ~poisoned /\ ~lost /\ ~unrepaired => Physical(temps) \subseteq engine.view

=============================================================================
