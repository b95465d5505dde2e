-------------------------- MODULE SessionRefinement -------------------------
(***************************************************************************)
(* How the state of a connection is seen by its client: the mapping from   *)
(* SessionTransaction to the transactions of TransactionSpec.              *)
(***************************************************************************)
EXTENDS SessionTransaction

(* A statement that has lost its transaction will poison the handle.       *)
HandleBar ==
    IF poisoned \/ (run.kind \in {"dml", "ddl"} /\ ~engine.open) THEN "poisoned"
    ELSE IF lost THEN "lost"
    ELSE "usable"

WorkBar == Row \cap
    IF HandleBar # "usable" THEN durable
    ELSE IF Marks(engine, StatementMark) # {}
    THEN engine.stack[MarkAt(engine, StatementMark)].saved
    ELSE IF run.kind = "ddl" THEN durable
    ELSE engine.view

MarksBar ==
    IF HandleBar = "usable"
    THEN [i \in 1 .. Len(saves) |->
              [name |-> saves[i].name,
               saved |-> Row \cap engine.stack[MarkAt(engine, saves[i].id)].saved]]
    ELSE <<>>

Tx == INSTANCE TransactionSpec
          WITH durable <- durable \cap Row, open <- active /\ HandleBar = "usable",
               work <- WorkBar, marks <- MarksBar, handle <- HandleBar

(* The connection implements MySQL transactions over whole statements:     *)
(* every step is one of TransactionSpec's or invisible.                    *)
ImplementsTransactions == Tx!Spec
=============================================================================
