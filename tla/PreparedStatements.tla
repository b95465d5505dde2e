------------------------- MODULE PreparedStatements -------------------------
(***************************************************************************)
(* The prepared statements and cursors of one connection                   *)
(* (mylite_execution.c): mylite_prepare, _step, _reset and _finalize, the  *)
(* direct commands of mylite_execute and the close of the connection,      *)
(* called in any order, while other connections write to the file.         *)
(* A SELECT is streamed from an open SQLite statement or materialized      *)
(* first; everything else runs to its end inside the first step.           *)
(* A state of the data is the set of the writes it contains.  Autocommit   *)
(* is on; what a failed COMMIT of the user does is SessionTransaction's.   *)
(***************************************************************************)
EXTENDS Integers, FiniteSets

CONSTANTS
    Stmt,       \* the mylite_stmt objects the caller may hold
    Kind,       \* the kinds of statements the caller prepares
    MaxWrites   \* bound on writes, of all connections together

ASSUME WritesAssumption == MaxWrites \in Nat

(* No statement: a NULL active_cursor, a direct command.                   *)
Nobody == "nobody"

(* Who may own SQLite's transaction, apart from a statement: nobody, the   *)
(* user, or nobody any longer (its statement is gone).                     *)
NoOwner == {"none", "user", "adrift"}

ASSUME StmtAssumption == Stmt \cap (NoOwner \cup {Nobody}) = {}

Command == {"begin", "commit", "rollback", "write"}

(* How a SELECT is executed: streamed; materialized already by prepare     *)
(* (no parameters, a query with no streaming plan); materialized by the    *)
(* first step; or materialized there with its completion published.        *)
Query == {"stream", "eager", "lazy", "buffered"}

ASSUME KindAssumption == Kind \subseteq Query \cup Command

VARIABLES
    st,         \* the statements
    open,       \* the connection exists
    current,    \* the statement that has session.statement_id for its own
    active,     \* active_cursor
    tx,         \* SQLite's transaction: "none", "user", the statement that owns it
    poisoned,   \* transaction_state_uncertain
    calling,    \* the statement whose step has not returned yet
    shown,      \* the completion the session reports: whose, and whether a success
    store, work,    \* committed data, and data in the user's transaction
    writes,     \* number of writes so far
    acked,      \* ghost: writes reported as permanent
    outdated,   \* ghost: statements numbered before one whose completion is shown
    overlapped, \* ghost: streams during which another statement was executed
    unended     \* ghost: streams whose end failed

connection == <<open, current, active, tx, poisoned, calling, shown>>
data == <<store, work, writes, acked>>
ghosts == <<outdated, overlapped, unended>>
vars == <<st, connection, data, ghosts>>

Free == [state |-> "free", kind |-> "none", started |-> FALSE, done |-> FALSE,
         kept |-> FALSE, early |-> FALSE, reading |-> FALSE, published |-> FALSE,
         left |-> FALSE, rows |-> {}, asof |-> {}, seen |-> {}]

Init ==
    /\ st = [s \in Stmt |-> Free]
    /\ open = TRUE /\ current = Nobody /\ active = Nobody
    /\ tx = "none" /\ poisoned = FALSE /\ calling = Nobody
    /\ shown = [by |-> Nobody, ok |-> TRUE]
    /\ store = {} /\ work = {} /\ writes = 0 /\ acked = {}
    /\ outdated = {} /\ overlapped = {} /\ unended = {}

(* What this connection reads.                                             *)
View == IF tx = "user" THEN work ELSE store

Reading == {s \in Stmt : st[s].reading}

(* commit_ and rollback_statement_transaction of the transaction s owns,   *)
(* if it does: a command that fails leaves the connection uncertain, with  *)
(* the transaction gone or still there.                                    *)
Ended(s) ==
    IF tx # s THEN {[tx |-> tx, poisoned |-> poisoned, ok |-> TRUE]}
    ELSE {[tx |-> "none", poisoned |-> poisoned, ok |-> TRUE],
          [tx |-> "none", poisoned |-> TRUE, ok |-> FALSE],
          [tx |-> s, poisoned |-> TRUE, ok |-> FALSE]}

Cleared(s) == IF active = s THEN Nobody ELSE active

(* mylite_statement_completion_publish, for a statement that is current.   *)
Publish(s) ==
    /\ shown' = [by |-> s, ok |-> TRUE]
    /\ outdated' = Stmt \ {s}

PublishFailure(s) ==
    /\ shown' = [by |-> s, ok |-> FALSE]
    /\ outdated' = outdated \ {s}

PublishNothing == UNCHANGED <<shown, outdated>>

(* The session's next statement_id goes to s.                              *)
Number(s) == current' = s

(* The caller may call: the connection is open and no call is under way.   *)
MayCall == open /\ calling = Nobody

(* reject_command_with_active_cursor and reject_poisoned_connection.       *)
MayCommand == MayCall /\ active = Nobody /\ ~poisoned

-----------------------------------------------------------------------------
(* Prepare                                                                 *)

(* A query that must be materialized is executed here, and its rows kept   *)
(* for the first step.                                                     *)
Prepare(s, k) ==
    /\ MayCommand
    /\ st[s].state = "free"
    /\ st' = [st EXCEPT ![s] = [Free EXCEPT !.state = "live", !.kind = k,
                                            !.kept = k = "eager", !.early = k = "eager",
                                            !.left = k = "eager",
                                            !.rows = IF k = "eager" THEN View ELSE {}]]
    /\ Number(s)
    /\ overlapped' = overlapped \ {s} /\ unended' = unended \ {s}
    /\ outdated' = outdated \ {s}
    /\ UNCHANGED <<open, active, tx, poisoned, calling, shown, data>>

(* The statement is destroyed; ending the transaction of prepare may fail. *)
PrepareFails ==
    /\ MayCommand
    /\ Number(Nobody)
    /\ PublishFailure(Nobody)
    /\ \/ UNCHANGED <<tx, poisoned>>
       \/ tx = "none" /\ poisoned' = TRUE /\ tx' \in {"none", "adrift"}
    /\ UNCHANGED <<st, open, active, calling, data, overlapped, unended>>

-----------------------------------------------------------------------------
(* Commands, direct or prepared                                            *)

Outcome(ok, t, w, d, n, a, p) ==
    [ok |-> ok, tx |-> t, work |-> w, store |-> d, writes |-> n, acked |-> a, poisoned |-> p]

Failed == Outcome(FALSE, tx, work, store, writes, acked, poisoned)

CommitUser == [Failed EXCEPT !.ok = TRUE, !.tx = "none", !.work = {}, !.store = work,
                             !.acked = acked \cup work]

(* START TRANSACTION commits the user's transaction, then begins; BEGIN is *)
(* refused within the transaction of a cursor.                             *)
RunBegin ==
    CASE tx = "user" -> {Failed, [CommitUser EXCEPT !.ok = FALSE],
                         [CommitUser EXCEPT !.tx = "user", !.work = work]}
      [] tx = "none" -> {Failed, [Failed EXCEPT !.ok = TRUE, !.tx = "user", !.work = store]}
      [] OTHER -> {Failed}

RunCommit ==
    IF tx = "user" THEN {Failed, CommitUser} ELSE {[Failed EXCEPT !.ok = TRUE]}

RunRollback ==
    IF tx = "user" THEN {Failed, [Failed EXCEPT !.ok = TRUE, !.tx = "none", !.work = {}]}
    ELSE {[Failed EXCEPT !.ok = TRUE]}

Written == IF writes < MaxWrites THEN {writes + 1} ELSE {}

(* Mutant of RunWrite: within any transaction a write takes a savepoint.   *)
RunWriteNested ==
    {Failed} \cup
    (IF tx = "user" THEN {[Failed EXCEPT !.ok = TRUE, !.work = work \cup {n}, !.writes = n] : n \in Written}
     ELSE IF tx # "none" THEN {[Failed EXCEPT !.ok = TRUE, !.writes = n, !.acked = acked \cup {n}] : n \in Written}
     ELSE {[Failed EXCEPT !.ok = TRUE, !.store = store \cup {n}, !.writes = n,
                          !.acked = acked \cup {n}] : n \in Written})

(* A write goes under a savepoint of the user's transaction, or between    *)
(* BEGIN IMMEDIATE and COMMIT of its own, which a cursor's transaction     *)
(* refuses; a COMMIT that fails leaves the connection uncertain.           *)
RunWrite ==
    {Failed} \cup
    (CASE tx = "user" ->
              {[Failed EXCEPT !.ok = TRUE, !.work = work \cup {n}, !.writes = n] : n \in Written}
       [] tx = "none" ->
              {[Failed EXCEPT !.poisoned = TRUE]} \cup
              {[Failed EXCEPT !.ok = TRUE, !.store = store \cup {n}, !.writes = n,
                              !.acked = acked \cup {n}] : n \in Written}
       [] OTHER -> {})

Run(c) ==
    CASE c = "begin" -> RunBegin
      [] c = "commit" -> RunCommit
      [] c = "rollback" -> RunRollback
      [] c = "write" -> RunWrite

(* The command c runs to its end and publishes its completion as s's.      *)
Executes(c, s, o) ==
    /\ tx' = o.tx /\ poisoned' = o.poisoned
    /\ work' = o.work /\ store' = o.store /\ writes' = o.writes /\ acked' = o.acked
    /\ IF o.ok THEN Publish(s) ELSE PublishFailure(s)

(* Mutant of Execute: the guard against an active cursor is forgotten.     *)
ExecuteUnguarded(c) ==
    /\ MayCall /\ ~poisoned
    /\ Number(Nobody)
    /\ \E o \in Run(c) : Executes(c, Nobody, o)
    /\ UNCHANGED <<st, open, active, calling, overlapped, unended>>

(* mylite_execute of one command.                                          *)
Execute(c) ==
    /\ MayCommand
    /\ Number(Nobody)
    /\ \E o \in Run(c) : Executes(c, Nobody, o)
    /\ UNCHANGED <<st, open, active, calling, overlapped, unended>>

-----------------------------------------------------------------------------
(* Step: start_cursor_execution, then the first row                        *)

MayStep(s) == MayCall /\ ~poisoned /\ st[s].state = "live"

MayStart(s) == MayStep(s) /\ ~st[s].started /\ ~st[s].kept

(* Step has no guard against another cursor that streams: a stream started *)
(* then takes the place of the active cursor, and runs within the other's  *)
(* transaction; a command may change what the other reads, unless that has *)
(* a transaction of its own.                                               *)
OverlapStream(s) ==
    IF Reading = {} /\ tx \notin Stmt THEN overlapped \ {s}
    ELSE overlapped \cup Reading \cup {s}

OverlapCommand == IF tx \in Stmt THEN overlapped ELSE overlapped \cup Reading

(* begin_read_statement_transaction: within a transaction there is none of *)
(* its own.  The cursor becomes the active one, whichever was before.      *)
StartStream(s) ==
    /\ MayStart(s) /\ st[s].kind = "stream"
    /\ st' = [st EXCEPT ![s].started = TRUE, ![s].reading = TRUE, ![s].asof = View]
    /\ Number(s)
    /\ tx' = IF tx = "none" THEN s ELSE tx
    /\ active' = s
    /\ calling' = s
    /\ outdated' = outdated \ {s} /\ overlapped' = OverlapStream(s)
    /\ UNCHANGED <<open, poisoned, shown, data, unended>>

(* prepare_cursor_materialized_select_statement within start: all rows are *)
(* read and the read transaction is committed before any is returned.      *)
StartRows(s) ==
    /\ MayStart(s) /\ st[s].kind \in {"eager", "lazy", "buffered"}
    /\ \E some \in BOOLEAN :
          st' = [st EXCEPT ![s].started = TRUE, ![s].kept = TRUE, ![s].left = some,
                           ![s].rows = View, ![s].asof = View,
                           ![s].published = st[s].kind = "buffered"]
    /\ Number(s)
    /\ calling' = s
    /\ IF st[s].kind = "buffered" THEN Publish(s)
       ELSE outdated' = outdated \ {s} /\ UNCHANGED shown
    /\ overlapped' = overlapped \ {s}
    /\ UNCHANGED <<open, active, tx, poisoned, data, unended>>

(* The start of a query fails; ending its read transaction may, too.       *)
StartFails(s) ==
    /\ MayStart(s) /\ st[s].kind \in Query
    /\ st' = [st EXCEPT ![s].started = TRUE, ![s].done = TRUE]
    /\ Number(s)
    /\ PublishFailure(s)
    /\ overlapped' = overlapped \ {s}
    /\ \/ UNCHANGED <<tx, poisoned>>
       \/ tx = "none" /\ poisoned' = TRUE /\ tx' \in {"none", s}
    /\ UNCHANGED <<open, active, calling, data, unended>>

(* execute_prepared_materialized_statement of a command.                   *)
StartCommand(s) ==
    /\ MayStart(s) /\ st[s].kind \in Command
    /\ st' = [st EXCEPT ![s].started = TRUE, ![s].done = TRUE]
    /\ Number(s)
    /\ \E o \in Run(st[s].kind) : Executes(st[s].kind, s, o)
    /\ overlapped' = OverlapCommand
    /\ UNCHANGED <<open, active, calling, unended>>

(* The rows prepare kept are taken over: no new number, no transaction.    *)
TakeEarly(s) ==
    /\ MayStep(s) /\ st[s].kept /\ ~st[s].started
    /\ st' = [st EXCEPT ![s].started = TRUE, ![s].asof = View]
    /\ calling' = s
    /\ UNCHANGED <<open, current, active, tx, poisoned, shown, data, ghosts>>

(* A step of s is under way, or begins, with the execution started.        *)
Fetching(s) ==
    /\ calling = s \/ (MayStep(s) /\ st[s].started)
    /\ ~st[s].done

FetchKept(s) ==
    /\ Fetching(s) /\ st[s].kept /\ st[s].left
    /\ st' = [st EXCEPT ![s].left = FALSE, ![s].seen = @ \cup {st[s].rows}]
    /\ calling' = Nobody
    /\ UNCHANGED <<open, current, active, tx, poisoned, shown, data, ghosts>>

FetchStream(s) ==
    /\ Fetching(s) /\ st[s].reading
    /\ st' = [st EXCEPT ![s].seen = @ \cup {View}]
    /\ calling' = Nobody
    /\ UNCHANGED <<open, current, active, tx, poisoned, shown, data, ghosts>>

(* finish_failed_cursor_statement.                                         *)
FetchFails(s) ==
    /\ Fetching(s) /\ st[s].reading
    /\ st' = [st EXCEPT ![s].reading = FALSE, ![s].done = TRUE]
    /\ \E e \in Ended(s) : tx' = e.tx /\ poisoned' = e.poisoned
    /\ active' = Cleared(s)
    /\ PublishFailure(s)
    /\ calling' = Nobody
    /\ UNCHANGED <<open, current, data, overlapped, unended>>

(* Mutant of Finish: the completion is published whatever ran meanwhile.   *)
FinishAnyway(s) ==
    \E e \in Ended(s) :
        /\ tx' = e.tx /\ poisoned' = e.poisoned
        /\ IF e.ok THEN Publish(s) /\ active' = Cleared(s)
           ELSE PublishNothing /\ UNCHANGED active

(* finish_cursor_statement: commits first and, when that fails, does no    *)
(* more; publishes only what is the session's current statement; without   *)
(* memory for that, leaves the cursor active.                              *)
Finish(s) ==
    \E e \in Ended(s) :
        /\ tx' = e.tx /\ poisoned' = e.poisoned
        /\ \/ /\ ~e.ok
              /\ PublishNothing /\ UNCHANGED active
           \/ /\ e.ok
              /\ IF current = s THEN Publish(s) ELSE PublishNothing
              /\ active' = Cleared(s)
           \/ /\ e.ok
              /\ PublishFailure(s) /\ UNCHANGED active

EndKept(s) ==
    /\ Fetching(s) /\ st[s].kept /\ ~st[s].left
    /\ st' = [st EXCEPT ![s].done = TRUE]
    /\ IF st[s].published THEN UNCHANGED <<tx, poisoned, active, shown, outdated>>
       ELSE Finish(s)
    /\ calling' = Nobody
    /\ UNCHANGED <<open, current, data, overlapped, unended>>

(* SQLITE_DONE: the SQLite statement is finished before rows are counted.  *)
Exhaust(s) ==
    /\ Fetching(s) /\ st[s].reading
    /\ st' = [st EXCEPT ![s].reading = FALSE, ![s].done = TRUE]
    /\ calling' = s
    /\ UNCHANGED <<open, current, active, tx, poisoned, shown, data, ghosts>>

(* Mutant of Complete: the transaction is committed before rows are counted. *)
CompleteThenCount(s) ==
    /\ calling = s /\ st[s].done
    /\ IF tx = s THEN Finish(s) /\ UNCHANGED <<st, calling, unended>>
       ELSE /\ st' = [st EXCEPT ![s].seen = @ \cup {View}]
            /\ calling' = Nobody
            /\ UNCHANGED <<tx, poisoned, active, shown, outdated, unended>>
    /\ UNCHANGED <<open, current, data, overlapped>>

(* set_cursor_found_row_count reads the data once more; when it fails the  *)
(* cursor stays active and keeps its transaction.                          *)
Complete(s) ==
    /\ calling = s /\ st[s].done
    /\ \/ /\ st' = [st EXCEPT ![s].seen = @ \cup {View}]
          /\ Finish(s)
          /\ unended' = IF active' = s THEN unended \cup {s} ELSE unended
       \/ /\ unended' = unended \cup {s}
          /\ UNCHANGED <<st, tx, poisoned, active, shown, outdated>>
    /\ calling' = Nobody
    /\ UNCHANGED <<open, current, data, overlapped>>

-----------------------------------------------------------------------------
(* Reset, finalize, close                                                  *)

(* Mutant of Reset: the read transaction is left open.                     *)
ResetKeepsTransaction(s) ==
    /\ MayStep(s) /\ active \in {Nobody, s} /\ st[s].started
    /\ st' = [st EXCEPT ![s] = [Free EXCEPT !.state = "live", !.kind = st[s].kind]]
    /\ active' = Cleared(s)
    /\ overlapped' = overlapped \ {s} /\ unended' = unended \ {s}
    /\ UNCHANGED <<open, current, tx, poisoned, calling, shown, data, outdated>>

(* Before the first step a reset changes nothing: rows kept by prepare     *)
(* stay.  After it, everything of the execution is given up.               *)
Reset(s) ==
    /\ MayStep(s) /\ active \in {Nobody, s} /\ st[s].started
    /\ st' = [st EXCEPT ![s] = [Free EXCEPT !.state = "live", !.kind = st[s].kind]]
    /\ \E e \in Ended(s) : tx' = e.tx /\ poisoned' = e.poisoned
    /\ active' = Cleared(s)
    /\ overlapped' = overlapped \ {s} /\ unended' = unended \ {s}
    /\ UNCHANGED <<open, current, calling, shown, data, outdated>>

Forget(s) ==
    /\ st' = [st EXCEPT ![s] = Free]
    /\ current' = IF current = s THEN Nobody ELSE current
    /\ overlapped' = overlapped \ {s} /\ unended' = unended \ {s}

(* Mutant of Finalize: the active cursor is cleared, whose ever it is.     *)
FinalizeClears(s) ==
    /\ MayCall /\ st[s].state = "live"
    /\ \E e \in Ended(s) : tx' = e.tx /\ poisoned' = e.poisoned
    /\ PublishNothing
    /\ active' = Nobody
    /\ Forget(s)
    /\ UNCHANGED <<open, calling, data>>

(* An execution that is not done counts as completed with the rows it gave *)
(* and commits; destroy_cursor_statement releases whatever is left.        *)
Finalize(s) ==
    /\ MayCall /\ st[s].state = "live"
    /\ \E e \in Ended(s) :
          /\ tx' = IF e.tx = s THEN "adrift" ELSE e.tx
          /\ poisoned' = e.poisoned
          /\ IF st[s].started /\ ~st[s].done /\ ~st[s].published /\ e.ok
             THEN \/ IF current = s THEN Publish(s) ELSE PublishNothing
                  \/ PublishFailure(s)
             ELSE PublishNothing
    /\ active' = Cleared(s)
    /\ Forget(s)
    /\ UNCHANGED <<open, calling, data>>

FinalizeDetached(s) ==
    /\ calling = Nobody /\ st[s].state = "detached"
    /\ Forget(s)
    /\ UNCHANGED <<open, active, tx, poisoned, calling, shown, data, outdated>>

(* prepare_connection_close detaches every statement, rolls back what they *)
(* own and then the user's transaction; mylite_close destroys the handle   *)
(* even when that failed, mylite_close_checked then leaves it to be closed *)
(* again.                                                                  *)
Detached(s) ==
    IF st[s].state = "free" THEN Free ELSE [Free EXCEPT !.state = "detached"]

Close ==
    /\ MayCall
    /\ st' = [s \in Stmt |-> Detached(s)]
    /\ active' = Nobody /\ current' = Nobody
    /\ overlapped' = {} /\ unended' = {}
    /\ \/ /\ open' = FALSE /\ tx' = "none" /\ work' = {}
          /\ UNCHANGED poisoned
       \/ /\ \/ tx = "user" /\ UNCHANGED <<tx, poisoned>>
             \/ tx \in Stmt /\ poisoned' = TRUE /\ tx' \in {"none", "adrift"}
          /\ UNCHANGED <<open, work>>
    /\ UNCHANGED <<calling, shown, store, writes, acked, outdated>>

(* Another connection commits a write: in rollback-journal mode only while *)
(* this one holds no lock on the file.                                     *)
OtherWrite ==
    /\ tx = "none" /\ Reading = {}
    /\ writes < MaxWrites
    /\ writes' = writes + 1 /\ store' = store \cup {writes + 1}
    /\ UNCHANGED <<st, connection, work, acked, ghosts>>

-----------------------------------------------------------------------------
Step(s) ==
    \/ StartStream(s) \/ StartRows(s) \/ StartFails(s) \/ StartCommand(s)
    \/ TakeEarly(s) \/ FetchKept(s) \/ FetchStream(s) \/ FetchFails(s)
    \/ EndKept(s) \/ Exhaust(s) \/ Complete(s)

Next ==
    \/ \E s \in Stmt : \/ \E k \in Kind : Prepare(s, k)
                      \/ Step(s) \/ Reset(s) \/ Finalize(s) \/ FinalizeDetached(s)
    \/ PrepareFails
    \/ \E c \in Command : Execute(c)
    \/ Close
    \/ OtherWrite

Spec == Init /\ [][Next]_vars

-----------------------------------------------------------------------------
(* A cursor that still streams is the active cursor, so that direct        *)
(* commands and prepares are refused; no reset, finalize or failure of     *)
(* another statement takes the guard away.  The exception: since step does *)
(* not look for one, a second stream takes its place and its end clears it. *)
StreamIsGuarded ==
    \A s \in Reading : s \notin overlapped => active = s

(* All rows of one execution, and the count of rows found that is read     *)
(* after the last, are of the data as it was at the first step, whatever   *)
(* the caller and other connections do: for a cursor with a transaction of *)
(* its own even if other statements are stepped meanwhile.  The exception: *)
(* rows that prepare kept are older than the first step.                   *)
RowsOfOneState ==
    \A s \in Stmt :
        (s \notin overlapped \/ tx = s) /\ ~st[s].early => st[s].seen \subseteq {st[s].asof}

(* A write reported as done outside a transaction of the user, and all of  *)
(* a transaction whose COMMIT was reported, is in the file at once: no     *)
(* write slips into the transaction of a cursor that may be rolled back.   *)
AckedIsCommitted == acked \subseteq store

(* Nothing outlives an execution: SQLite's transaction and the place of    *)
(* the active cursor belong to a statement that streams, unless its end    *)
(* failed (until it is reset or finalized) or the connection is uncertain. *)
NothingLeftHeld ==
    ~poisoned /\ calling = Nobody =>
        /\ tx \in Reading \cup unended \cup {"none", "user"}
        /\ active \in Reading \cup unended \cup {Nobody}

(* The end of a statement never replaces the completion (ROW_COUNT,        *)
(* FOUND_ROWS, warnings) of one the session numbered after it: what was    *)
(* outdated is shown only when it is given a new number.                   *)
CompletionsInOrder ==
    [][shown' # shown /\ shown'.ok /\ shown'.by \in outdated =>
           current # shown'.by /\ current' = shown'.by]_vars
=============================================================================
