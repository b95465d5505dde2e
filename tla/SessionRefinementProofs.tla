---------------------- MODULE SessionRefinementProofs -----------------------
(***************************************************************************)
(* A connection implements MySQL transactions over whole statements, for   *)
(* any statements, savepoint names and number of savepoints.               *)
(*                                                                         *)
(* SessionTransactionProofs has the inductive invariant and                *)
(* SessionCommandProofs the commands between statements. Here are the      *)
(* steps of running statements, their ends, and the theorems.              *)
(***************************************************************************)
EXTENDS SessionCommandProofs

(* Leaves are for Zenon unless they name another prover. *)
USE Zenon

-----------------------------------------------------------------------------
(* Steps of a running statement: invisible, unless the transaction goes.   *)

LEMMA SeenByStack ==
    ASSUME NEW e, NEW f, e.stack = f.stack, NEW s
    PROVE  Seen(e, s) = Seen(f, s)
<1>1. \A id : MarkAt(e, id) = MarkAt(f, id)
  BY DEF MarkAt, Marks
<1> QED  BY <1>1 DEF Seen

(* A step that shows the client nothing. *)
LEMMA RunningQuiet ==
    ASSUME Before, ~poisoned, ~poisoned', ~Gone, ~Gone', RInv', lost' = lost, active' = active, saves' = saves,
           SameRows(durable', durable), RowsIn(durable, durable'), engine'.stack = engine.stack,
           run'.kind = "dml" <=> run.kind = "dml", run'.kind = "ddl" <=> run.kind = "ddl",
           run.kind # "ddl" /\ ~OwnTop => SameRows(engine'.view, engine.view)
    PROVE  Simulated
<1>1. IInv /\ Valid /\ Valid' /\ BarsOK /\ BarsOK'
  BY DEF Before
<1>2. HandleBar = (IF lost THEN "lost" ELSE "usable") /\ HandleBar' = IF lost' THEN "lost" ELSE "usable"
  BY <1>1 DEF BarsOK
<1>3. Grows
  BY <1>2 DEF Grows
<1>4. ASSUME HandleBar = "usable" PROVE Step
  <2>1. HandleBar' = "usable"
    BY <1>2, <1>4
  <2>2. MarksBar' = MarksBar
    <3>1. MarksBar = Seen(engine, saves) /\ MarksBar' = Seen(engine, saves)'
      BY <1>1, <1>4, <2>1 DEF BarsOK
    <3>2. Seen(engine, saves)' = Seen(engine', saves')
      BY DEF Seen, Row
    <3> QED  BY <3>1, <3>2, SeenByStack
  <2>3. OwnTop' <=> OwnTop
    <3>1. OnTop(engine)' <=> OnTop(engine)
      BY DEF OnTop
    <3> QED  BY <3>1 DEF OwnTop
  <2>4. CASE OwnTop
    <3>1. WorkBar = Row \cap Top(engine) /\ WorkBar' = (Row \cap Top(engine))'
      BY <1>1, <1>4, <2>1, <2>3, <2>4 DEF BarsOK
    <3>2. (Row \cap Top(engine))' = Row \cap Top(engine)
      BY DEF Top, Row
    <3> QED  BY <1>4, <2>1, <2>2, <3>1, <3>2, Stutters
  <2>5. CASE run.kind = "ddl"
    <3>1. WorkBar = Row \cap durable /\ WorkBar' = (Row \cap durable)'
      BY <1>1, <1>4, <2>1, <2>5 DEF BarsOK
    <3>2. (Row \cap durable)' = Row \cap durable
      BY DEF SameRows, Row
    <3> QED  BY <1>4, <2>1, <2>2, <3>1, <3>2, Stutters
  <2>6. CASE run.kind # "ddl" /\ ~OwnTop
    <3>1. WorkBar = Row \cap engine.view /\ WorkBar' = (Row \cap engine.view)'
      BY <1>1, <1>4, <2>1, <2>3, <2>6 DEF BarsOK
    <3>2. (Row \cap engine.view)' = Row \cap engine.view
      BY <2>6 DEF SameRows, Row
    <3> QED  BY <1>4, <2>1, <2>2, <3>1, <3>2, Stutters
  <2> QED  BY <2>4, <2>5, <2>6
<1> QED  BY <1>3, <1>4 DEF Simulated

LEMMA BusyRun ==
    ASSUME Before, run.kind # "none"
    PROVE  /\ ~poisoned /\ run \in Runs /\ Working /\ Sound(engine, durable, nextId)
           /\ durable \in SUBSET Stored /\ Whole(durable) /\ engine \in Engine
           /\ RowsKept(engine, durable) /\ Based
           /\ ~lost => Linked
BY BusyFacts DEF Before, RInv, Working, Sound

(* The rows of a statement that fails with its transaction. *)
LEMMA ClosedBased ==
    ASSUME Before, run.kind # "none", engine' = ClosedEngine(durable), durable' = durable,
           run'.kind \in {"dml", "ddl", "create", "drop", "none"}
    PROVE  RInv' /\ ~engine'.open /\ engine'.view = durable
<1>1. /\ Settled(engine', durable, nextId) /\ ~engine'.open /\ engine'.view = durable /\ engine'.stack = <<>>
  BY BusyRun, ClosedSettled
<1>2. RowsKept(engine', durable')
  BY <1>1, ClosedKept DEF Settled
<1>3. ~OnTop(engine)'
  BY <1>1, SMT DEF OnTop
<1>4. Based'
  BY <1>1, <1>3 DEF Based, SameRows, Within
<1> QED  BY <1>1, <1>2, <1>4 DEF RInv, RowsKept, RowsIn

(* A row written by an unfinished statement is not seen.                   *)
LEMMA WriteRowSimulated == ASSUME Before, WriteRow PROVE Simulated
<1> DEFINE row == IF <<run.stmt, 1>> \in engine.view THEN <<run.stmt, 2>> ELSE <<run.stmt, 1>>
<1>1. /\ run.kind \in {"dml", "ddl"} /\ ~run.failed /\ engine.open
      /\ durable' = durable /\ active' = active /\ saves' = saves
      /\ poisoned' = poisoned /\ lost' = lost
  BY DEF WriteRow, Writing
<1>2. \/ engine' = [engine EXCEPT !.view = @ \cup {row}] /\ run' = run
      \/ engine' = engine /\ run' = [run EXCEPT !.failed = TRUE]
      \/ engine' = ClosedEngine(durable) /\ run' = [run EXCEPT !.failed = TRUE]
  BY DEF WriteRow
<1>3. /\ ~poisoned /\ run \in Runs /\ Working /\ engine \in Engine
      /\ RowsKept(engine, durable) /\ Based /\ ~Gone
  BY <1>1, BusyRun DEF Gone
<1>4. run.kind = "dml" => OnTop(engine)
  BY <1>1, <1>3 DEF Working
<1>5. run.kind # "ddl" => OwnTop
  BY <1>1, <1>4 DEF OwnTop
<1>6. [run EXCEPT !.failed = TRUE] \in Runs /\ [run EXCEPT !.failed = TRUE].kind = run.kind
      /\ [run EXCEPT !.failed = TRUE].outer = run.outer /\ [run EXCEPT !.failed = TRUE].stmt = run.stmt
  BY <1>3, FailedFields
<1>7. run'.kind = run.kind /\ run'.outer = run.outer /\ run'.stmt = run.stmt
  BY <1>2, <1>6
<1>8. SameRows(durable', durable) /\ RowsIn(durable, durable') /\ ~poisoned'
  BY <1>1, <1>3, RowSets
<1>9. CASE engine' = [engine EXCEPT !.view = @ \cup {row}]
  <2>1. row \in Rows(run.stmt)
    BY DEF Rows
  <2> HIDE DEF row
  <2>2. engine'.view = engine.view \cup {row} /\ engine'.stack = engine.stack /\ engine'.open
    BY <1>1, <1>3, <1>9 DEF Engine
  <2>3. RowsKept(engine', durable')
    BY <1>1, <1>3, <2>2 DEF RowsKept, RowsIn
  <2>4. Within(engine.view, durable, run.stmt) => Within(engine'.view, durable, run.stmt)
    BY <2>1, <2>2 DEF Within
  <2>5. Within(engine.view, Top(engine), run.stmt) => Within(engine'.view, Top(engine), run.stmt)
    BY <2>1, <2>2 DEF Within
  <2>6. Top(engine)' = Top(engine) /\ OnTop(engine)' = OnTop(engine)
    BY <2>2 DEF Top, OnTop
  <2>7. Based'
    <3>1. CASE run.kind = "ddl"
      BY <1>1, <1>3, <1>7, <2>4, <3>1 DEF Based, Within
    <3>2. CASE run.kind = "dml"
      <4>1. Within(engine'.view, Top(engine), run.stmt) /\ (run.outer => SameRows(Top(engine), durable))
        BY <1>3, <1>4, <2>5, <3>2 DEF Based
      <4>2. OnTop(engine)'
        BY <1>4, <2>6, <3>2
      <4> QED  BY <1>1, <1>7, <2>6, <3>2, <4>1, <4>2 DEF Based, Within, SameRows
    <3> QED  BY <1>1, <3>1, <3>2
  <2>8. RInv' /\ ~Gone'
    BY <2>2, <2>3, <2>7 DEF RInv, RowsKept, RowsIn, Gone
  <2> QED  BY <1>1, <1>3, <1>5, <1>7, <1>8, <2>2, <2>8, RunningQuiet
<1>10. CASE engine' = engine
  <2>1. RowsKept(engine', durable')
    BY <1>1, <1>3, <1>10
  <2>2. Based'
    BY <1>1, <1>3, <1>7, <1>10 DEF Based, Within, SameRows, Top, OnTop
  <2>3. RInv' /\ ~Gone'
    BY <1>1, <1>10, <2>1, <2>2 DEF RInv, RowsKept, RowsIn, Gone
  <2> QED  BY <1>1, <1>3, <1>5, <1>7, <1>8, <1>10, <2>3, RunningQuiet
<1>11. CASE engine' = ClosedEngine(durable)
  <2>1. RInv' /\ ~engine'.open
    BY <1>1, <1>7, <1>11, ClosedBased
  <2>2. HandleBar' = "poisoned"
    BY <1>1, <1>7, <2>1 DEF Before, BarsOK, Gone
  <2>3. Grows
    BY <1>1, <1>8 DEF Grows
  <2>4. HandleBar = "usable" => Step
    BY <1>8, <2>2, Loses DEF Before
  <2> QED  BY <2>1, <2>3, <2>4 DEF Simulated
<1> QED  BY <1>2, <1>9, <1>10, <1>11

LEMMA TemporaryBreaksSimulated == ASSUME Before, TemporaryBreaks PROVE Simulated
<1>1. /\ run.kind \in {"create", "drop"} /\ engine' = ClosedEngine(durable)
      /\ run' = [run EXCEPT !.failed = TRUE] /\ lost' = (lost \/ ~run.outer)
      /\ durable' = durable /\ active' = active /\ saves' = saves /\ poisoned' = poisoned
  BY DEF TemporaryBreaks
<1>2. ~poisoned /\ run \in Runs /\ Based /\ (~lost => Linked) /\ IInv /\ Valid /\ Valid' /\ BarsOK /\ BarsOK'
  BY <1>1, BusyRun DEF Before
<1>3. run'.kind = run.kind
  BY <1>1, <1>2, FailedFields
<1>4. RInv' /\ engine'.view = durable
  BY <1>1, <1>3, ClosedBased
<1>5. /\ HandleBar = IF lost THEN "lost" ELSE "usable"
      /\ HandleBar' = IF lost' THEN "lost" ELSE "usable"
  BY <1>1, <1>2, <1>3 DEF BarsOK, Gone
<1>6. SameRows(durable', durable) /\ RowsIn(durable, durable')
  BY <1>1, RowSets
<1>7. Grows
  BY <1>1, <1>5, <1>6 DEF Grows
<1>8. ASSUME HandleBar = "usable" PROVE Step
  <2>1. ~lost
    BY <1>5, <1>8
  <2>2. CASE ~run.outer
    BY <1>1, <1>2, <1>5, <1>6, <1>8, <2>2, Loses
  <2>3. CASE run.outer
    <3>1. HandleBar' = "usable" /\ saves = <<>>
      BY <1>1, <1>2, <1>5, <2>1, <2>3 DEF Linked
    <3>2. SameRows(engine.view, durable)
      BY <1>1, <1>2, <2>3 DEF Based
    <3>3. /\ MarksBar = Seen(engine, saves) /\ MarksBar' = Seen(engine, saves)'
          /\ WorkBar = Row \cap engine.view /\ WorkBar' = (Row \cap engine.view)'
      BY <1>1, <1>2, <1>3, <1>8, <3>1 DEF BarsOK, OwnTop
    <3>4. Seen(engine, saves)' = Seen(engine', saves') /\ (Row \cap engine.view)' = Row \cap engine'.view
      BY DEF Seen, Row
    <3>5. MarksBar' = MarksBar
      BY <1>1, <3>1, <3>3, <3>4, SeenEmpty
    <3>6. WorkBar' = WorkBar
      BY <1>4, <3>2, <3>3, <3>4, RowSets
    <3> QED  BY <1>1, <1>6, <1>8, <3>1, <3>5, <3>6, Stutters
  <2> QED  BY <2>2, <2>3
<1> QED  BY <1>4, <1>7, <1>8 DEF Simulated

LEMMA ValidationFailsSimulated == ASSUME Before, ValidationFails PROVE Simulated
<1>1. /\ run.kind = "dropped" /\ engine' = engine
      /\ run' = [run EXCEPT !.failed = TRUE]
      /\ durable' = durable /\ active' = active /\ saves' = saves
      /\ poisoned' = poisoned /\ lost' = lost
  BY DEF ValidationFails
<1>2. ~poisoned /\ run \in Runs /\ Based /\ RowsKept(engine, durable)
  BY <1>1, BusyRun
<1>3. run'.kind = run.kind /\ run'.outer = run.outer
  BY <1>1, <1>2, FailedFields
<1>4. RInv'
  <2>1. RowsKept(engine', durable')
    BY <1>1, <1>2
  <2>2. Based'
    BY <1>1, <1>2, <1>3 DEF Based, SameRows
  <2> QED  BY <2>1, <2>2 DEF RInv, RowsKept, RowsIn
<1>5. ~Gone /\ ~Gone'
  BY <1>1, <1>3 DEF Gone
<1>6. SameRows(durable', durable) /\ RowsIn(durable, durable') /\ SameRows(engine'.view, engine.view)
  BY <1>1, RowSets
<1> QED  BY <1>1, <1>2, <1>3, <1>4, <1>5, <1>6, RunningQuiet

(* A temporary CREATE or DROP that leaves v behind. *)
LEMMA TemporarySimulated ==
    ASSUME Before, run.kind \in {"create", "drop"}, NEW v, SameRows(v, engine.view), NEW ok,
           Becomes(Leaves(ok, engine, durable, v)), run'.outer = run.outer,
           run'.kind \in {"create", "created", "drop", "dropped"},
           UNCHANGED <<active, saves, poisoned, lost>>
    PROVE  Simulated
<1>1. engine' = [engine EXCEPT !.view = v] /\ durable' = IF engine.open THEN durable ELSE v
  BY DEF Becomes, Leaves, Outcome
<1>2. /\ ~poisoned /\ Sound(engine, durable, nextId) /\ engine \in Engine
      /\ RowsKept(engine, durable) /\ Based
  BY BusyRun
<1>3. engine'.view = v /\ engine'.stack = engine.stack
  BY <1>1, <1>2 DEF Engine
<1>4. SameRows(durable', durable)
  <2>1. ~engine.open => engine.view = durable
    BY <1>2 DEF Sound
  <2> QED  BY <1>1, <2>1, RowSets
<1>5. RowsKept(engine', durable')
  BY <1>2, <1>3, <1>4 DEF RowsKept, RowsIn, SameRows
<1>6. Based'
  <2>1. run.outer => SameRows(engine.view, durable)
    BY <1>2 DEF Based
  <2>2. run'.outer => SameRows(engine'.view, durable')
    BY <1>3, <1>4, <2>1 DEF SameRows
  <2> QED  BY <2>2 DEF Based, SameRows
<1>7. RInv'
  BY <1>5, <1>6 DEF RInv, RowsKept, RowsIn
<1>8. ~Gone /\ ~Gone' /\ ~poisoned'
  BY <1>2 DEF Gone
<1>9. RowsIn(durable, durable') /\ SameRows(engine'.view, engine.view)
  BY <1>3, <1>4, RowSets
<1> QED  BY <1>2, <1>3, <1>4, <1>7, <1>8, <1>9, RunningQuiet

(* Temporary tables are no rows.                                           *)
LEMMA PhysicalNoRow ==
    ASSUME NEW S, NEW T
    PROVE  SameRows(S \cup Physical(T), S) /\ SameRows(S \ Physical(T), S)
<1>1. \A x \in Row : x \notin Physical(T)
  BY SMT DEF Row, Physical
<1> QED  BY <1>1 DEF SameRows

LEMMA CreateTemporarySimulated == ASSUME Before, CreateTemporary PROVE Simulated
<1>1. run.kind = "create" /\ UNCHANGED <<active, saves, poisoned, lost>>
  BY DEF CreateTemporary
<1>2. run \in Runs
  BY <1>1, BusyRun
<1>3. CASE /\ Becomes(Leaves(TRUE, engine, durable, engine.view \cup Physical({run.stmt})))
           /\ run' = [run EXCEPT !.kind = "created"]
  <2>1. run'.outer = run.outer /\ run'.kind = "created"
    BY <1>2, <1>3 DEF Runs
  <2> QED  BY <1>1, <1>3, <2>1, PhysicalNoRow, TemporarySimulated
<1>4. ASSUME NEW S \in SUBSET {run.stmt},
             Becomes(Leaves(FALSE, engine, durable, engine.view \cup Physical(S))),
             run' = [run EXCEPT !.failed = TRUE]
      PROVE  Simulated
  <2>1. run'.outer = run.outer /\ run'.kind = run.kind
    BY <1>2, <1>4, FailedFields
  <2> QED  BY <1>1, <1>4, <2>1, PhysicalNoRow, TemporarySimulated
<1> QED  BY <1>3, <1>4 DEF CreateTemporary

LEMMA DropTemporarySimulated == ASSUME Before, DropTemporary PROVE Simulated
<1>1. run.kind = "drop" /\ UNCHANGED <<active, saves, poisoned, lost>>
  BY DEF DropTemporary
<1>2. run \in Runs
  BY <1>1, BusyRun
<1>3. ASSUME NEW T, Becomes(Leaves(TRUE, engine, durable, engine.view \ Physical(T))),
             run' = [run EXCEPT !.kind = "dropped"]
      PROVE  Simulated
  <2>1. run'.outer = run.outer /\ run'.kind = "dropped"
    BY <1>2, <1>3 DEF Runs
  <2> QED  BY <1>1, <1>3, <2>1, PhysicalNoRow, TemporarySimulated
<1>4. ASSUME NEW P, Becomes(Leaves(FALSE, engine, durable, engine.view \ Physical(P))),
             run' = [run EXCEPT !.failed = TRUE]
      PROVE  Simulated
  <2>1. run'.outer = run.outer /\ run'.kind = run.kind
    BY <1>2, <1>4, FailedFields
  <2> QED  BY <1>1, <1>4, <2>1, PhysicalNoRow, TemporarySimulated
<1> QED  BY <1>3, <1>4 DEF DropTemporary

-----------------------------------------------------------------------------
(* Statements end, as the client sees it.                                  *)

(* A statement that succeeded: its rows are in the work, all of them.      *)
LEMMA States ==
    ASSUME HandleBar = "usable", HandleBar' = "usable", MarksBar' = MarksBar, active' = active,
           NEW s \in Stmt, WorkBar' = WorkBar \cup Rows(s), active \in BOOLEAN,
           active => SameRows(durable', durable),
           ~active => WorkBar' = Row \cap durable'
    PROVE  Step
<1>1. active => (durable \cap Row)' = durable \cap Row
  BY RowSets DEF Row
<1>2. ~active => (durable \cap Row)' = WorkBar'
  BY DEF Row
<1>3. (active /\ HandleBar = "usable")' = (active /\ HandleBar = "usable")
  BY SMT
<1>4. WorkBar' = WorkBar \cup {<<s, 1>>, <<s, 2>>}
  BY DEF Rows
<1>5. Tx!Statement
  BY <1>1, <1>2, <1>3, <1>4 DEF Tx!Statement, Tx!Usable
<1> QED  BY <1>5 DEF Step, Tx!SpecNext

(* A failed completion poisons the handle; the file keeps what it had. *)
LEMMA PoisonKeeps ==
    ASSUME Before, NEW c, Sound(c.e, c.d, nextId), RowsKept(c.e, c.d), c.d = durable, Poison(c),
           run' = Idle, lost' = lost
    PROVE  RInv' /\ Grows /\ HandleBar' = "poisoned" /\ Step
<1>1. PICK x \in IF c.e.open THEN RollbackOutcomes(c.e, c.d) ELSE Skip(c.e, c.d) :
         engine' = x.e /\ durable' = x.d /\ poisoned' = TRUE
  BY DEF Poison, Becomes
<1>2. RowsKept(x.e, x.d) /\ x.d = durable
  <2>1. CASE c.e.open
    <3>1. c.d \in SUBSET Stored /\ Whole(c.d)
      BY DEF Sound
    <3> QED  BY <1>1, <2>1, <3>1, RollbackKeeps
  <2>2. CASE ~c.e.open
    <3>1. x = Outcome(TRUE, c.e, c.d)
      BY <1>1, <2>2 DEF Skip
    <3>2. x.e = c.e /\ x.d = c.d
      BY <3>1 DEF Outcome
    <3> QED  BY <3>2
  <2> QED  BY <2>1, <2>2
<1>3. run'.kind = "none" /\ run'.outer = FALSE
  BY IdleRun
<1>4. RowsKept(engine', durable') /\ Based'
  BY <1>1, <1>2, <1>3 DEF Based
<1>5. RInv'
  BY <1>4 DEF RInv, RowsKept, RowsIn
<1>6. SameRows(durable', durable) /\ RowsIn(durable, durable')
  BY <1>1, <1>2, RowSets
<1>7. Grows
  BY <1>6 DEF Grows
<1>8. HandleBar' = "poisoned"
  BY <1>1 DEF Before, BarsOK
<1>9. Step
  <2>1. CASE HandleBar = "poisoned"
    <3>1. /\ WorkBar = Row \cap durable /\ MarksBar = <<>>
          /\ WorkBar' = (Row \cap durable)' /\ MarksBar' = <<>>
      BY <1>8, <2>1 DEF Before, BarsOK
    <3>2. WorkBar' = WorkBar
      BY <1>1, <1>2, <3>1 DEF Row
    <3> QED  BY <1>6, <1>8, <2>1, <3>1, <3>2, Stutters
  <2>2. CASE HandleBar # "poisoned"
    <3>1. HandleBar \in {"usable", "lost"}
      BY <2>2 DEF Before, BarsOK
    <3> QED  BY <1>6, <1>8, <2>2, <3>1, Loses DEF Before
  <2> QED  BY <2>1, <2>2
<1> QED  BY <1>5, <1>7, <1>8, <1>9

(* A statement that ends well. *)
LEMMA EndKeeps ==
    ASSUME Before, run.kind # "none", run' = Idle, NEW c, Becomes(c),
           UNCHANGED <<active, poisoned, saves, lost>>, RowsKept(c.e, c.d), RowsIn(durable, c.d)
    PROVE  /\ RInv' /\ Grows
           /\ HandleBar = "usable" =>
                 /\ ~lost /\ HandleBar' = "usable" /\ MarksBar = Seen(engine, saves)
                 /\ MarksBar' = Seen(c.e, saves) /\ WorkBar' = Row \cap c.e.view
<1>1. engine' = c.e /\ durable' = c.d /\ ~poisoned'
  BY BusyRun DEF Becomes
<1>2. RInv' /\ Grows
  BY <1>1, IdleKeep
<1>3. ASSUME HandleBar = "usable"
      PROVE  /\ ~lost /\ HandleBar' = "usable" /\ MarksBar = Seen(engine, saves)
             /\ MarksBar' = Seen(c.e, saves) /\ WorkBar' = Row \cap c.e.view
  <2>1. ~lost /\ MarksBar = Seen(engine, saves)
    <3>1. MarksBar = Seen(engine, saves) /\ (~poisoned /\ ~Gone)
      BY <1>3 DEF Before, BarsOK
    <3> QED  BY <1>3, <3>1 DEF Before, BarsOK
  <2>2. HandleBar' = "usable" /\ MarksBar' = Seen(engine, saves)' /\ WorkBar' = (Row \cap engine.view)'
    BY <1>1, <2>1, IdleBarsNext DEF Before, IdleOK
  <2>3. Seen(engine, saves)' = Seen(engine', saves') /\ (Row \cap engine.view)' = Row \cap engine'.view
    BY DEF Seen, Row
  <2> QED  BY <1>1, <2>1, <2>2, <2>3
<1> QED  BY <1>2, <1>3

(* A statement that ends without rows of its own. *)
LEMMA EndQuiet ==
    ASSUME Before, run.kind # "none", run' = Idle, NEW c, Becomes(c),
           UNCHANGED <<active, poisoned, saves, lost>>, RowsKept(c.e, c.d), RowsIn(durable, c.d),
           HandleBar = "usable" => /\ SameRows(c.d, durable) /\ WorkBar = Row \cap c.e.view
                                   /\ Seen(c.e, saves) = Seen(engine, saves)
    PROVE  Simulated
<1>1. /\ RInv' /\ Grows
      /\ HandleBar = "usable" =>
            /\ ~lost /\ HandleBar' = "usable" /\ MarksBar = Seen(engine, saves)
            /\ MarksBar' = Seen(c.e, saves) /\ WorkBar' = Row \cap c.e.view
  BY EndKeeps
<1>2. ASSUME HandleBar = "usable" PROVE Step
  <2>1. SameRows(durable', durable)
    BY <1>2 DEF Becomes
  <2> QED  BY <1>1, <1>2, <2>1, Stutters
<1> QED  BY <1>1, <1>2 DEF Simulated

LEMMA FinishReadSimulated == ASSUME Before, FinishRead PROVE Simulated
<1>1. PICK c \in IF run.outer THEN CommitOutcomes(engine, durable) ELSE Skip(engine, durable) :
         IF c.ok THEN Becomes(c) /\ UNCHANGED <<active, poisoned>> ELSE Poison(c)
  BY DEF FinishRead
<1>2. run.kind = "read" /\ run' = Idle /\ saves' = saves /\ lost' = lost
  BY DEF FinishRead
<1>3. /\ Working /\ Sound(engine, durable, nextId) /\ RowsKept(engine, durable) /\ Based
      /\ ~lost => Linked
  BY <1>2, BusyRun
<1>4. Whole(engine.view)
  BY <1>2, <1>3 DEF Working, Whole
<1>5. HandleBar = "usable" => ~lost /\ WorkBar = Row \cap engine.view
  <2>1. ~Gone /\ ~OwnTop /\ run.kind # "ddl" /\ ~poisoned
    BY <1>2, BusyRun DEF Gone, OwnTop
  <2> QED  BY <2>1 DEF Before, BarsOK
<1>6. CASE run.outer
  <2>1. c \in CommitOutcomes(engine, durable)
    BY <1>1, <1>6
  <2>2. /\ RowsKept(c.e, c.d) /\ RowsIn(durable, c.d)
        /\ c.ok => c.d = engine.view
        /\ ~c.ok => c.d = durable
    BY <1>3, <1>4, <2>1, CommitKeeps
  <2>3. Sound(c.e, c.d, nextId) /\ (c.ok => c.e.view = engine.view)
    BY <1>3, <1>4, <2>1, CommitShape, SMT
  <2>4. CASE ~c.ok
    BY <1>1, <1>2, <2>2, <2>3, <2>4, PoisonKeeps DEF Simulated
  <2>5. CASE c.ok
    <3>1. SameRows(c.d, durable)
      BY <1>2, <1>3, <1>6, <2>2, <2>5 DEF Based
    <3>2. HandleBar = "usable" => Seen(c.e, saves) = Seen(engine, saves)
      <4>1. HandleBar = "usable" => saves = <<>>
        BY <1>2, <1>3, <1>5, <1>6 DEF Linked
      <4> QED  BY <4>1, SeenEmpty
    <3> QED  BY <1>1, <1>2, <1>5, <2>2, <2>3, <2>5, <3>1, <3>2, EndQuiet
  <2> QED  BY <2>4, <2>5
<1>7. CASE ~run.outer
  <2>1. c = Outcome(TRUE, engine, durable)
    BY <1>1, <1>7 DEF Skip
  <2>2. c.ok /\ c.e = engine /\ c.d = durable
    BY <2>1 DEF Outcome
  <2>3. RowsKept(c.e, c.d) /\ RowsIn(durable, c.d) /\ SameRows(c.d, durable)
    BY <1>3, <2>2, RowSets
  <2> QED  BY <1>1, <1>2, <1>5, <2>2, <2>3, EndQuiet
<1> QED  BY <1>6, <1>7

LEMMA FailReadSimulated == ASSUME Before, FailRead PROVE Simulated
<1>1. PICK f \in {engine, ClosedEngine(durable)} :
         IF run.outer
         THEN /\ \E c \in RollbackOutcomes(f, durable) :
                    IF c.ok THEN Becomes(c) /\ UNCHANGED <<active, poisoned>> ELSE Poison(c)
              /\ UNCHANGED <<saves, lost, stuck>>
         ELSE FailsWith(Outcome(FALSE, f, durable)) /\ UNCHANGED poisoned
  BY DEF FailRead
<1>2. run.kind = "read" /\ run' = Idle
  BY DEF FailRead
<1>3. /\ Sound(engine, durable, nextId) /\ RowsKept(engine, durable) /\ Based
      /\ durable \in SUBSET Stored /\ Whole(durable) /\ ~poisoned
      /\ ~lost => Linked
  BY <1>2, BusyRun
<1>4. HandleBar = "usable" => ~lost /\ WorkBar = Row \cap engine.view
  <2>1. ~Gone /\ ~OwnTop /\ run.kind # "ddl" /\ ~poisoned
    BY <1>2, BusyRun DEF Gone, OwnTop
  <2> QED  BY <2>1 DEF Before, BarsOK
<1>5. Sound(f, durable, nextId) /\ RowsKept(f, durable) /\ (f = engine \/ ~f.open)
  <2>1. CASE f = engine
    BY <1>3, <2>1
  <2>2. CASE f = ClosedEngine(durable)
    <3>1. Settled(f, durable, nextId) /\ ~f.open
      BY <1>3, <2>2, ClosedSettled
    <3> QED  BY <3>1, ClosedKept DEF Settled
  <2> QED  BY <1>1, <2>1, <2>2
<1>6. CASE run.outer
  <2>1. PICK c \in RollbackOutcomes(f, durable) :
           IF c.ok THEN Becomes(c) /\ UNCHANGED <<active, poisoned>> ELSE Poison(c)
    BY <1>1, <1>6
  <2>2. saves' = saves /\ lost' = lost
    BY <1>1, <1>6
  <2>3. /\ c.d = durable
        /\ ~c.ok => c.e = f
        /\ c.ok => Settled(c.e, durable, nextId) /\ ~c.e.open
    BY <1>3, <2>1, RollbackShape, SMT
  <2>4. Sound(c.e, c.d, nextId) /\ RowsKept(c.e, c.d) /\ (c.ok => c.e.view = durable)
    <3>1. Sound(c.e, c.d, nextId)
      BY <1>5, <2>3 DEF Settled
    <3> QED  BY <1>5, <2>3, <3>1, ClosedKept
  <2>5. CASE ~c.ok
    BY <1>2, <2>1, <2>2, <2>3, <2>4, <2>5, PoisonKeeps DEF Simulated
  <2>6. CASE c.ok
    <3>1. SameRows(engine.view, durable)
      BY <1>2, <1>3, <1>6 DEF Based
    <3>2. HandleBar = "usable" => Seen(c.e, saves) = Seen(engine, saves) /\ WorkBar = Row \cap c.e.view
      <4>1. HandleBar = "usable" => saves = <<>>
        BY <1>2, <1>3, <1>4, <1>6 DEF Linked
      <4> QED  BY <1>4, <2>4, <2>6, <3>1, <4>1, SeenEmpty, RowSets
    <3>3. RowsIn(durable, c.d) /\ SameRows(c.d, durable)
      BY <2>3, RowSets
    <3> QED  BY <1>2, <2>1, <2>2, <2>4, <2>6, <3>2, <3>3, EndQuiet
  <2> QED  BY <2>5, <2>6
<1>7. CASE ~run.outer
  <2>0. ~run.failed /\ lost \in BOOLEAN
    BY <1>2, BusyFacts DEF Before
  <2>1. /\ engine' = f /\ durable' = durable /\ active' = active /\ saves' = saves
        /\ lost' = (lost \/ (active /\ engine.open /\ ~f.open)) /\ poisoned' = poisoned
    BY <1>1, <1>7 DEF FailsWith, Becomes, Outcome
  <2>2. RowsKept(engine', durable') /\ RowsIn(durable, durable') /\ SameRows(durable', durable)
    BY <1>5, <2>1, RowSets
  <2>3. CASE lost' = lost
    <3> DEFINE c == Outcome(TRUE, f, durable)
    <3>1. c.e = f /\ c.d = durable
      BY DEF Outcome
    <3> HIDE DEF c
    <3>2. Becomes(c) /\ RowsKept(c.e, c.d) /\ RowsIn(durable, c.d) /\ SameRows(c.d, durable)
      BY <2>1, <2>2, <3>1 DEF Becomes
    <3>3. HandleBar = "usable" => f = engine
      <4> SUFFICES ASSUME HandleBar = "usable" PROVE f = engine
        OBVIOUS
      <4>1. ~lost /\ Linked
        BY <1>3, <1>4
      <4>2. engine.open /\ active
        BY <1>2, <1>7, <2>0, <4>1 DEF Linked
      <4>3. ~lost'
        BY <2>3, <4>1
      <4> QED  BY <1>5, <2>1, <4>2, <4>3
    <3> QED  BY <1>2, <1>4, <2>1, <2>3, <3>1, <3>2, <3>3, EndQuiet
  <2>4. CASE lost' # lost
    <3>1. lost' /\ ~lost
      BY <2>0, <2>1, <2>4
    <3>2. RInv' /\ Grows
      BY <1>2, <1>3, <2>1, <2>2, <3>1, IdleKeep
    <3>3. HandleBar' = "lost"
      BY <1>2, <1>3, <2>1, <3>1, IdleBarsNext DEF Before, IdleOK
    <3>4. HandleBar = "usable" => Step
      BY <2>2, <3>3, Loses DEF Before
    <3> QED  BY <3>2, <3>4 DEF Simulated
  <2> QED  BY <2>3, <2>4
<1> QED  BY <1>6, <1>7

(* The savepoints of e other than a statement's own are at the same places *)
(* of f.                                                                   *)
InPlace(f, e) ==
    \A i \in 1 .. Len(e.stack) :
        e.stack[i].id # 0 => i \in 1 .. Len(f.stack) /\ f.stack[i] = e.stack[i]

LEMMA InPlaceChain ==
    ASSUME NEW e, NEW f, NEW g, InPlace(f, e), InPlace(g, f)
    PROVE  InPlace(g, e)
BY DEF InPlace

(* Taking the statement's own savepoint off the stack is not seen.         *)
LEMMA SeenInPlace ==
    ASSUME IInv, NEW e, NEW d, NEW n, Sound(e, d, n), NEW f, NEW g, NEW m, Sound(f, g, m),
           InPlace(f, e), Listed(e, saves)
    PROVE  Seen(f, saves) = Seen(e, saves)
<1>1. Common(f, e, saves)
  <2> SUFFICES ASSUME NEW i \in 1 .. Len(saves)
               PROVE  \E k \in 1 .. Len(f.stack) :
                         /\ k \in 1 .. Len(e.stack) /\ f.stack[k] = e.stack[k]
                         /\ f.stack[k].id = saves[i].id
    BY DEF Common
  <2>1. saves[i].id # 0
    BY EntryFields, SMT
  <2>2. PICK k \in 1 .. Len(e.stack) : e.stack[k].id = saves[i].id
    BY DEF Listed
  <2>3. k \in 1 .. Len(f.stack) /\ f.stack[k] = e.stack[k]
    BY <2>1, <2>2 DEF InPlace
  <2> QED  BY <2>2, <2>3
<1> QED  BY <1>1, SeenSame

(* RELEASE of a statement's own savepoint. *)
LEMMA OwnReleaseKeeps ==
    ASSUME NEW e, NEW d, NEW n, Sound(e, d, n), Whole(e.view), RowsKept(e, d),
           NEW o \in ReleaseOutcomes(e, d, StatementMark)
    PROVE  /\ RowsKept(o.e, o.d) /\ RowsIn(d, o.d)
           /\ ~o.ok => o.d = d
           /\ o.ok /\ ~e.bySavepoint => o.d = d /\ InPlace(o.e, e)
<1>1. CASE ~o.ok /\ o.e = e /\ o.d = d
  BY <1>1, RowSets
<1>2. CASE e.bySavepoint /\ o \in CommitOutcomes(e, d)
  BY <1>2, CommitKeeps
<1>3. CASE o.ok /\ o.d = d /\ Released(o.e, e, d, n, StatementMark)
  <2>1. PICK k \in 1 .. Len(e.stack) : e.stack[k].id = StatementMark /\ Below(o.e, e, k)
    BY <1>3 DEF Released
  <2>2. \A i \in 1 .. Len(e.stack) : e.stack[i].id # 0 => i < k
    BY <2>1, OwnMark
  <2>3. InPlace(o.e, e)
    BY <2>1, <2>2 DEF InPlace, Below
  <2>4. RowsKept(o.e, d)
    BY <1>3, ReleaseKeeps
  <2> QED  BY <1>3, <2>3, <2>4, RowSets
<1> QED  BY <1>1, <1>2, <1>3, ReleaseShape, SMT

(* What a statement that has written all its rows shows. *)
Adds(S, T, s) == Row \cap S = (Row \cap T) \cup Rows(s)

(* A statement that wrote all its rows added them.                         *)
LEMMA Written ==
    ASSUME NEW S, NEW T, NEW s \in Stmt, Within(S, T, s), Rows(s) \subseteq S
    PROVE  Adds(S, T, s)
<1>1. Rows(s) \subseteq Row
  BY SMT DEF Rows, Row
<1> QED  BY <1>1 DEF Within, Adds

LEMMA FinishStatementSimulated == ASSUME Before, FinishStatement PROVE Simulated
<1>1. PICK r \in IF run.kind = "dml" THEN ReleaseOutcomes(engine, durable, StatementMark)
                 ELSE Skip(engine, durable) :
         \E c \in IF r.ok /\ run.outer THEN CommitOutcomes(r.e, r.d) ELSE {r} :
            IF c.ok THEN Becomes(c) /\ UNCHANGED <<active, poisoned>> ELSE Poison(c)
  BY DEF FinishStatement
<1>2. PICK c \in IF r.ok /\ run.outer THEN CommitOutcomes(r.e, r.d) ELSE {r} :
         IF c.ok THEN Becomes(c) /\ UNCHANGED <<active, poisoned>> ELSE Poison(c)
  BY <1>1
<1>3. Executed /\ run' = Idle /\ saves' = saves /\ lost' = lost
  BY DEF FinishStatement
<1>4. /\ run.kind \in {"dml", "ddl", "created", "dropped"} /\ ~run.failed
      /\ run.kind \in {"dml", "ddl"} => engine.open /\ Rows(run.stmt) \subseteq engine.view
  BY <1>3 DEF Executed, Writing
<1>5. /\ Working /\ Sound(engine, durable, nextId) /\ RowsKept(engine, durable) /\ Based
      /\ ~lost => Linked
  BY <1>4, BusyRun
<1>6. Whole(engine.view)
  <2>1. ASSUME NEW s \in Stmt PROVE Pair(engine.view, s)
    <3>1. CASE s # run.stmt \/ run.kind \notin {"dml", "ddl"}
      BY <1>5, <3>1 DEF Working
    <3>2. CASE s = run.stmt /\ run.kind \in {"dml", "ddl"}
      BY <1>4, <3>2 DEF Rows, Pair
    <3> QED  BY <3>1, <3>2
  <2> QED  BY <2>1 DEF Whole
<1>7. ~lost => /\ engine.open /\ ~engine.bySavepoint /\ (run.outer <=> ~active)
               /\ Listed(engine, saves) /\ (~active => saves = <<>>)
  BY <1>4, <1>5 DEF Linked
<1>8. /\ Sound(r.e, r.d, nextId) /\ RowsKept(r.e, r.d) /\ RowsIn(durable, r.d)
      /\ ~r.ok => r.d = durable
      /\ r.ok => /\ r.e.view = engine.view /\ Settled(r.e, r.d, nextId)
                 /\ run.outer => r.d = durable
                 /\ ~lost => r.d = durable /\ Seen(r.e, saves) = Seen(engine, saves)
  <2>1. CASE run.kind = "dml"
    <3>1. r \in ReleaseOutcomes(engine, durable, StatementMark)
      BY <1>1, <2>1
    <3>2. /\ Sound(r.e, r.d, nextId)
          /\ r.ok => Settled(r.e, r.d, nextId) /\ r.e.view = engine.view
      BY <1>5, <1>6, <3>1, OwnRelease, SMT
    <3>3. /\ RowsKept(r.e, r.d) /\ RowsIn(durable, r.d)
          /\ ~r.ok => r.d = durable
          /\ r.ok /\ ~engine.bySavepoint => r.d = durable /\ InPlace(r.e, engine)
      BY <1>5, <1>6, <3>1, OwnReleaseKeeps
    <3>4. r.ok /\ ~lost => Seen(r.e, saves) = Seen(engine, saves)
      BY <1>5, <1>7, <3>2, <3>3, SeenInPlace DEF Before
    <3>5. run.outer => ~engine.bySavepoint
      BY <1>5 DEF Working
    <3> QED  BY <1>7, <3>2, <3>3, <3>4, <3>5
  <2>2. CASE run.kind # "dml"
    <3>1. r = Outcome(TRUE, engine, durable)
      BY <1>1, <2>2 DEF Skip
    <3>2. r.ok /\ r.e = engine /\ r.d = durable
      BY <3>1 DEF Outcome
    <3>3. Settled(engine, durable, nextId)
      BY <1>5, <1>6, <2>2 DEF Working, Settled
    <3> QED  BY <1>5, <3>2, <3>3, RowSets
  <2> QED  BY <2>1, <2>2
<1>9. /\ Sound(c.e, c.d, nextId) /\ RowsKept(c.e, c.d) /\ RowsIn(durable, c.d)
      /\ ~c.ok => c.d = durable
      /\ c.ok => /\ c.e.view = engine.view
                 /\ run.outer => c.d = engine.view
                 /\ ~run.outer /\ ~lost => c.d = durable
                 /\ ~lost => Seen(c.e, saves) = Seen(engine, saves)
  <2>1. CASE r.ok /\ run.outer
    <3>1. c \in CommitOutcomes(r.e, r.d)
      BY <1>2, <2>1
    <3>2. Sound(r.e, r.d, nextId) /\ Whole(r.e.view) /\ r.e.view = engine.view /\ r.d = durable
      BY <1>8, <2>1 DEF Settled
    <3>3. Sound(c.e, c.d, nextId) /\ (c.ok => c.e.view = r.e.view)
      BY <3>1, <3>2, CommitShape, SMT
    <3>4. /\ RowsKept(c.e, c.d) /\ RowsIn(durable, c.d)
          /\ c.ok => c.d = engine.view
          /\ ~c.ok => c.d = durable
      <4>1. /\ RowsKept(c.e, c.d) /\ RowsIn(r.d, c.d)
            /\ c.ok => c.d = r.e.view
            /\ ~c.ok => c.d = r.d
        <5>1. Sound(r.e, r.d, nextId) /\ Whole(r.e.view) /\ RowsKept(r.e, r.d)
          BY <1>8, <3>2
        <5> QED  BY <3>1, <5>1, CommitKeeps, SMT
      <4> QED  BY <3>2, <4>1
    <3>5. ~lost => Seen(c.e, saves) = Seen(engine, saves)
      BY <1>7, <2>1, SeenEmpty
    <3> QED  BY <2>1, <3>2, <3>3, <3>4, <3>5
  <2>2. CASE ~(r.ok /\ run.outer)
    <3>1. c = r
      BY <1>2, <2>2
    <3> QED  BY <1>8, <2>2, <3>1
  <2> QED  BY <2>1, <2>2
<1>10. CASE ~c.ok
  BY <1>2, <1>3, <1>9, <1>10, PoisonKeeps DEF Simulated
<1>11. CASE c.ok
  <2>1. Becomes(c) /\ UNCHANGED <<active, poisoned, saves, lost>>
    BY <1>2, <1>3, <1>11
  <2>2. ~Gone /\ (run.kind = "dml" => OwnTop) /\ (run.kind # "dml" => ~OwnTop)
    BY <1>4, <1>5 DEF Gone, OwnTop, Working
  <2>3. CASE run.kind \in {"created", "dropped"}
    <3>1. HandleBar = "usable" => ~lost /\ WorkBar = Row \cap c.e.view
      <4>1. HandleBar = "usable" => ~lost
        BY <1>4, <2>2, BusyRun DEF Before, BarsOK
      <4>2. HandleBar = "usable" => WorkBar = Row \cap engine.view
        BY <2>2, <2>3 DEF Before, BarsOK
      <4> QED  BY <1>9, <1>11, <4>1, <4>2
    <3>2. HandleBar = "usable" => SameRows(c.d, durable)
      <4>1. run.outer => SameRows(engine.view, durable)
        BY <1>5, <2>3 DEF Based
      <4>2. ~run.outer /\ HandleBar = "usable" => c.d = durable
        BY <1>9, <1>11, <3>1
      <4> QED  BY <1>9, <1>11, <4>1, <4>2, RowSets
    <3> QED  BY <1>3, <1>4, <1>9, <1>11, <2>1, <3>1, <3>2, EndQuiet
  <2>4. CASE run.kind \in {"dml", "ddl"}
    <3>1. /\ RInv' /\ Grows
          /\ HandleBar = "usable" =>
                /\ ~lost /\ HandleBar' = "usable" /\ MarksBar = Seen(engine, saves)
                /\ MarksBar' = Seen(c.e, saves) /\ WorkBar' = Row \cap c.e.view
      BY <1>3, <1>4, <1>9, <2>1, EndKeeps
    <3>2. ASSUME HandleBar = "usable" PROVE Step
      <4>1. /\ ~lost /\ HandleBar' = "usable" /\ MarksBar' = MarksBar
            /\ WorkBar' = Row \cap engine.view
        BY <1>9, <1>11, <3>1, <3>2
      <4>2. run.stmt \in Stmt /\ active \in BOOLEAN
        BY <2>4, BusyFacts DEF Before
      <4>3. WorkBar' = WorkBar \cup Rows(run.stmt)
        <5>1. CASE run.kind = "dml"
          <6>1. WorkBar = Row \cap Top(engine)
            BY <2>2, <3>2, <5>1 DEF Before, BarsOK
          <6>2. Within(engine.view, Top(engine), run.stmt) /\ Rows(run.stmt) \subseteq engine.view
            BY <1>4, <2>4, <1>5, <2>2, <5>1 DEF Based, OwnTop
          <6>3. Adds(engine.view, Top(engine), run.stmt)
            BY <4>2, <6>2, Written
          <6> QED  BY <4>1, <6>1, <6>3 DEF Adds
        <5>2. CASE run.kind = "ddl"
          <6>1. WorkBar = Row \cap durable
            BY <3>2, <5>2 DEF Before, BarsOK
          <6>2. Within(engine.view, durable, run.stmt) /\ Rows(run.stmt) \subseteq engine.view
            BY <1>4, <2>4, <1>5, <5>2 DEF Based
          <6>3. Adds(engine.view, durable, run.stmt)
            BY <4>2, <6>2, Written
          <6> QED  BY <4>1, <6>1, <6>3 DEF Adds
        <5> QED  BY <2>4, <5>1, <5>2
      <4>4. durable' = c.d /\ active' = active
        BY <2>1 DEF Becomes
      <4>5. active => SameRows(durable', durable)
        BY <1>7, <1>9, <1>11, <4>1, <4>4, RowSets
      <4>6. ~active => WorkBar' = Row \cap durable'
        BY <1>7, <1>9, <1>11, <4>1, <4>4
      <4> QED  BY <3>2, <4>1, <4>2, <4>3, <4>4, <4>5, <4>6, States
    <3> QED  BY <3>1, <3>2 DEF Simulated
  <2> QED  BY <1>4, <2>3, <2>4
<1> QED  BY <1>10, <1>11

(* ROLLBACK TO and RELEASE of a failed statement's own savepoint. *)
LEMMA UndoKeeps ==
    ASSUME Before, run.kind = "dml", run.failed, NEW u \in UndoInner
    PROVE  /\ RowsKept(u.e, u.d) /\ RowsIn(durable, u.d)
           /\ ~u.ok => u.d = durable
           /\ u.ok => engine.open
           /\ u.ok /\ ~lost => /\ u.d = durable /\ Seen(u.e, saves) = Seen(engine, saves)
                               /\ u.e.view = IF OwnTop THEN Top(engine) ELSE engine.view
<1>1. /\ Working /\ Sound(engine, durable, nextId) /\ RowsKept(engine, durable) /\ IInv
      /\ ~lost => Linked
  BY BusyRun DEF Before
<1>2. CASE Marks(engine, StatementMark) = {} /\ engine.open
  <2>1. u = Outcome(TRUE, engine, durable)
    BY <1>2 DEF UndoInner, Skip
  <2>2. u.e = engine /\ u.d = durable
    BY <2>1 DEF Outcome
  <2>3. ~OwnTop
    <3>1. Len(engine.stack) \in Nat
      BY <1>1, EngineFields DEF Sound
    <3> QED  BY <1>2, <3>1, SMT DEF OwnTop, OnTop, Marks, StatementMark
  <2> QED  BY <1>1, <1>2, <2>2, <2>3, RowSets
<1>3. CASE ~(Marks(engine, StatementMark) = {} /\ engine.open)
  <2>1. PICK b \in RollbackToOutcomes(engine, durable, StatementMark) :
           u \in IF b.ok THEN ReleaseOutcomes(b.e, b.d, StatementMark) ELSE {b}
    BY <1>3 DEF UndoInner
  <2>2. /\ b.d = durable
        /\ ~b.ok => b.e = engine
        /\ b.ok => Returned(b.e, engine, durable, nextId, StatementMark)
    BY <1>1, RollbackToShape
  <2>3. CASE ~b.ok
    <3>1. u = b
      BY <2>1, <2>3
    <3>2. u.e = engine /\ u.d = durable /\ ~u.ok
      BY <2>2, <2>3, <3>1
    <3> QED  BY <1>1, <3>2, RowSets
  <2>4. CASE b.ok
    <3>1. /\ engine.open /\ b.e.bySavepoint = engine.bySavepoint /\ Sound(b.e, durable, nextId)
          /\ Returned(b.e, engine, durable, nextId, StatementMark)
      BY <2>2, <2>4 DEF Returned
    <3>2. PICK k \in 1 .. Len(engine.stack) : engine.stack[k].id = StatementMark /\ At(b.e, engine, k)
      BY <3>1 DEF Returned
    <3>3. k = Len(engine.stack)
      BY <1>1, <3>2, OwnMark
    <3>4. OwnTop /\ b.e.view = Top(engine) /\ InPlace(b.e, engine)
      <4>1. Len(engine.stack) \in Nat
        BY <1>1, EngineFields DEF Sound
      <4>2. OwnTop
        BY <3>2, <3>3, <4>1, SMT DEF OwnTop, OnTop, StatementMark
      <4>3. b.e.view = Top(engine) /\ InPlace(b.e, engine)
        BY <3>2, <3>3 DEF Top, InPlace, At
      <4> QED  BY <4>2, <4>3
    <3>5. Whole(b.e.view) /\ RowsKept(b.e, durable)
      <4>1. Whole(b.e.view)
        BY <1>1, <3>2 DEF Sound, At
      <4> QED  BY <1>1, <3>1, <4>1, ReturnKeeps
    <3>6. u \in ReleaseOutcomes(b.e, durable, StatementMark)
      BY <2>1, <2>2, <2>4
    <3>7. /\ Sound(u.e, u.d, nextId)
          /\ u.ok => u.e.view = b.e.view
      BY <3>1, <3>5, <3>6, OwnRelease, SMT
    <3>8. /\ RowsKept(u.e, u.d) /\ RowsIn(durable, u.d)
          /\ ~u.ok => u.d = durable
          /\ u.ok /\ ~b.e.bySavepoint => u.d = durable /\ InPlace(u.e, b.e)
      BY <3>1, <3>5, <3>6, OwnReleaseKeeps
    <3>9. ASSUME u.ok, ~lost
          PROVE  u.d = durable /\ Seen(u.e, saves) = Seen(engine, saves)
      <4>1. ~b.e.bySavepoint /\ Listed(engine, saves)
        BY <1>1, <3>1, <3>9 DEF Linked
      <4>2. u.d = durable /\ InPlace(u.e, engine)
        <5>1. u.d = durable /\ InPlace(u.e, b.e)
          BY <3>8, <3>9, <4>1
        <5> QED  BY <3>4, <5>1, InPlaceChain
      <4> QED  BY <1>1, <3>7, <4>1, <4>2, SeenInPlace
    <3> QED  BY <3>1, <3>4, <3>7, <3>8, <3>9
  <2> QED  BY <2>3, <2>4
<1> QED  BY <1>2, <1>3

(* While a statement in a transaction of its own runs, the client sees the *)
(* file.                                                                   *)
LEMMA OuterSees ==
    ASSUME Before, run.kind # "none", run.outer, HandleBar = "usable"
    PROVE  WorkBar = Row \cap durable
<1>1. Based
  BY DEF Before, RInv
<1>2. CASE OwnTop
  <2>1. WorkBar = Row \cap Top(engine)
    BY <1>2 DEF Before, BarsOK
  <2>2. SameRows(Top(engine), durable)
    BY <1>1, <1>2 DEF Based, OwnTop
  <2> QED  BY <2>1, <2>2, RowSets
<1>3. CASE run.kind = "ddl"
  BY <1>3 DEF Before, BarsOK
<1>4. CASE run.kind # "ddl" /\ ~OwnTop
  <2>1. WorkBar = Row \cap engine.view
    BY <1>4 DEF Before, BarsOK
  <2>2. SameRows(engine.view, durable)
    BY <1>1, <1>4 DEF Based, OwnTop
  <2> QED  BY <2>1, <2>2, RowSets
<1> QED  BY <1>2, <1>3, <1>4

(* A failed statement is undone, or takes the transaction with it.         *)
LEMMA FailStatementSimulated ==
    ASSUME Before, FailStatement PROVE Simulated /\ (HandleBar = "poisoned" => Step)
<1>1. PICK u \in IF run.kind = "dml" THEN UndoInner ELSE Skip(engine, durable) :
         \E c \in IF u.ok /\ run.outer THEN RollbackOutcomes(u.e, u.d) ELSE {u} :
            IF c.ok THEN Becomes(c) /\ UNCHANGED <<active, poisoned>> ELSE Poison(c)
  BY DEF FailStatement
<1>2. PICK c \in IF u.ok /\ run.outer THEN RollbackOutcomes(u.e, u.d) ELSE {u} :
         IF c.ok THEN Becomes(c) /\ UNCHANGED <<active, poisoned>> ELSE Poison(c)
  BY <1>1
<1>3. run.failed /\ run' = Idle /\ saves' = saves /\ lost' = lost
  BY DEF FailStatement
<1>4. run.kind \in {"dml", "ddl", "create", "drop", "dropped"}
  <2>1. run \in Runs /\ (run.kind = "none" => run = Idle) /\ (run.kind \in {"read", "created"} => ~run.failed)
    BY DEF Before, IInv, Types, RunOK
  <2> QED  BY <1>3, <2>1, IdleRun DEF Runs
<1>5. /\ Sound(engine, durable, nextId) /\ RowsKept(engine, durable) /\ ~poisoned
      /\ durable \in SUBSET Stored /\ Whole(durable) /\ IInv
      /\ ~lost => Linked
  BY <1>4, BusyRun DEF Before
<1>6. /\ Sound(u.e, u.d, nextId) /\ RowsKept(u.e, u.d) /\ RowsIn(durable, u.d)
      /\ ~u.ok => u.d = durable
      /\ u.ok /\ run.outer => u.d = durable
      /\ u.ok /\ run.kind = "dml" => engine.open
      /\ run.kind # "dml" => u.e = engine
      /\ u.ok /\ ~lost => /\ u.d = durable /\ Seen(u.e, saves) = Seen(engine, saves)
                          /\ u.e.view = IF OwnTop THEN Top(engine) ELSE engine.view
  <2>1. CASE run.kind = "dml"
    <3>1. u \in UndoInner
      BY <1>1, <2>1
    <3>2. Sound(u.e, u.d, nextId) /\ (u.ok /\ run.outer => u.d = durable)
      BY <1>3, <1>5, <2>1, <3>1, UndoInnerShape
    <3> QED  BY <1>3, <2>1, <3>1, <3>2, UndoKeeps
  <2>2. CASE run.kind # "dml"
    <3>1. u = Outcome(TRUE, engine, durable)
      BY <1>1, <2>2 DEF Skip
    <3>2. u.ok /\ u.e = engine /\ u.d = durable
      BY <3>1 DEF Outcome
    <3>3. ~OwnTop
      BY <2>2 DEF OwnTop
    <3> QED  BY <1>5, <2>2, <3>2, <3>3, RowSets
  <2> QED  BY <2>1, <2>2
<1>7. /\ Sound(c.e, c.d, nextId) /\ RowsKept(c.e, c.d) /\ RowsIn(durable, c.d)
      /\ ~c.ok => c.d = durable
      /\ c.ok => u.ok
      /\ c.ok /\ run.outer => c.d = durable /\ c.e.view = durable /\ u.e.open
      /\ ~(u.ok /\ run.outer) => c = u
  <2>1. CASE u.ok /\ run.outer
    <3>1. c \in RollbackOutcomes(u.e, durable)
      BY <1>2, <1>6, <2>1
    <3>2. /\ c.d = durable
          /\ ~c.ok => c.e = u.e
          /\ c.ok => u.e.open /\ Settled(c.e, durable, nextId) /\ ~c.e.open
      BY <1>5, <3>1, RollbackShape, SMT
    <3>3. Sound(c.e, c.d, nextId)
      BY <1>6, <2>1, <3>2 DEF Settled
    <3>4. c.ok => RowsKept(c.e, c.d) /\ c.e.view = durable
      <4> SUFFICES ASSUME c.ok PROVE RowsKept(c.e, c.d) /\ c.e.view = durable
        OBVIOUS
      <4>1. ~c.e.open /\ c.d = durable
        BY <3>2
      <4> QED  BY <3>3, <4>1, ClosedKept
    <3>5. RowsKept(c.e, c.d) /\ RowsIn(durable, c.d)
      BY <1>6, <2>1, <3>2, <3>4, RowSets
    <3> QED  BY <2>1, <3>2, <3>3, <3>4, <3>5
  <2>2. CASE ~(u.ok /\ run.outer)
    <3>1. c = u
      BY <1>2, <2>2
    <3> QED  BY <1>6, <2>2, <3>1
  <2> QED  BY <2>1, <2>2
<1>8. CASE ~c.ok
  BY <1>2, <1>3, <1>7, <1>8, PoisonKeeps DEF Simulated
<1>9. CASE c.ok
  <2>1. Becomes(c) /\ UNCHANGED <<active, poisoned, saves, lost>>
    BY <1>2, <1>3, <1>9
  <2>2. HandleBar # "poisoned"
    <3>1. ~Gone
      <4>1. CASE run.kind = "dml"
        BY <1>6, <1>7, <1>9, <4>1 DEF Gone
      <4>2. CASE run.kind = "ddl"
        <5>1. run.outer
          BY <1>5, <4>2, BusyFacts
        <5> QED  BY <1>6, <1>7, <1>9, <4>2, <5>1 DEF Gone
      <4> QED  BY <4>1, <4>2 DEF Gone
    <3> QED  BY <1>5, <3>1 DEF Before, BarsOK
  <2>3. ASSUME HandleBar = "usable"
        PROVE  /\ SameRows(c.d, durable) /\ WorkBar = Row \cap c.e.view
               /\ Seen(c.e, saves) = Seen(engine, saves)
    <3>1. ~lost
      <4>1. poisoned \/ Gone => HandleBar = "poisoned"
        BY <1>5 DEF Before, BarsOK
      <4> QED  BY <1>5, <2>3, <4>1 DEF Before, BarsOK
    <3>2. CASE run.outer
      <4>1. saves = <<>>
        BY <1>4, <1>5, <3>1, <3>2 DEF Linked
      <4>2. WorkBar = Row \cap durable
        BY <1>4, <2>3, <3>2, OuterSees
      <4>3. c.d = durable /\ c.e.view = durable
        BY <1>7, <1>9, <3>2
      <4> QED  BY <4>1, <4>2, <4>3, SeenEmpty, RowSets
    <3>3. CASE ~run.outer
      <4>1. c = u /\ u.ok
        BY <1>7, <1>9, <3>3
      <4>2. /\ c.d = durable /\ Seen(c.e, saves) = Seen(engine, saves)
            /\ c.e.view = IF OwnTop THEN Top(engine) ELSE engine.view
        BY <1>6, <3>1, <4>1
      <4>3. run.kind # "ddl"
        BY <1>4, <1>5, <3>3, BusyFacts
      <4>4. WorkBar = Row \cap c.e.view
        BY <1>5, <2>3, <4>2, <4>3 DEF Before, BarsOK
      <4> QED  BY <4>2, <4>4, RowSets
    <3> QED  BY <3>2, <3>3
  <2>4. Simulated
    BY <1>3, <1>4, <1>7, <2>1, <2>3, EndQuiet
  <2> QED  BY <2>2, <2>4
<1> QED  BY <1>8, <1>9

-----------------------------------------------------------------------------
(* The whole connection.                                                   *)

LEMMA BarsNext == BarsOK'
BY Bars, PTL

(* A step of the abstract session that keeps the committed rows. *)
Follows == RInv' /\ Step /\ RowsIn(durable, durable')

(* A new open sees the file.                                               *)
LEMMA ReopenSimulated == ASSUME Valid', BarsOK', Reopen PROVE Follows
<1>1. /\ durable' = durable \ Physical(Stmt) /\ engine' = ClosedEngine(durable') /\ active' = FALSE
      /\ saves' = <<>> /\ poisoned' = FALSE /\ run' = Idle /\ lost' = FALSE
  BY DEF Reopen
<1>2. SameRows(durable', durable)
  BY <1>1, PhysicalNoRow
<1>3. durable' \in SUBSET Stored /\ Whole(durable)'
  BY DEF Valid
<1>4. Settled(engine', durable', nextId') /\ ~engine'.open /\ engine'.view = durable'
  <2>1. Whole(durable')
    BY <1>3 DEF Whole, Pair
  <2> QED  BY <1>1, <1>3, <2>1, ClosedSettled
<1>5. RowsKept(engine', durable')
  BY <1>4, ClosedKept DEF Settled
<1>6. RInv'
  <2>1. run'.kind = "none" /\ run'.outer = FALSE
    BY <1>1, IdleRun
  <2>2. Based'
    BY <2>1 DEF Based
  <2> QED  BY <1>5, <2>2 DEF RInv, RowsKept, RowsIn
<1>7. HandleBar' = "usable" /\ MarksBar' = Seen(engine, saves)' /\ WorkBar' = (Row \cap engine.view)'
  BY <1>1, IdleBarsNext DEF IdleOK
<1>8. Seen(engine, saves)' = Seen(engine', saves') /\ (Row \cap engine.view)' = Row \cap engine'.view
  BY DEF Seen, Row
<1>9. MarksBar' = <<>>
  BY <1>1, <1>7, <1>8, SeenEmpty
<1>10. (durable \cap Row)' = durable \cap Row /\ WorkBar' = durable \cap Row
  BY <1>2, <1>4, <1>7, <1>8, RowSets DEF Row
<1>11. Tx!Reopen
  BY <1>1, <1>7, <1>9, <1>10 DEF Tx!Reopen
<1> QED  BY <1>2, <1>6, <1>11, RowSets DEF Follows, Step, Tx!SpecNext

LEMMA StutterSimulated == ASSUME Before, UNCHANGED vars PROVE Follows
<1>1. /\ durable' = durable /\ engine' = engine /\ active' = active
      /\ saves' = saves /\ poisoned' = poisoned /\ run' = run /\ lost' = lost
  BY DEF vars
<1>2. RInv'
  BY <1>1 DEF Before, RInv, RowsKept, RowsIn, Based, Within, SameRows, Top, OnTop
<1>3. HandleBar' = HandleBar
  BY <1>1 DEF HandleBar
<1>4. WorkBar' = WorkBar /\ MarksBar' = MarksBar
  <2>1. WorkBar' = WorkBar
    BY <1>1, <1>3 DEF WorkBar, Row
  <2>2. MarksBar' = MarksBar
    BY <1>1, <1>3 DEF MarksBar, Row
  <2> QED  BY <2>1, <2>2
<1>5. SameRows(durable', durable) /\ RowsIn(durable, durable')
  BY <1>1, RowSets
<1> QED  BY <1>1, <1>2, <1>3, <1>4, <1>5, Stutters DEF Follows

(* A handle that is not poisoned: whatever it does is allowed. *)
LEMMA AliveSteps ==
    ASSUME Before, Simulated, Accepts \/ (run.kind # "none" /\ ~Gone)
    PROVE  Follows
<1>1. ~poisoned /\ ~Gone
  <2>1. CASE Accepts
    BY <2>1, IdleRun DEF Accepts, Gone
  <2>2. CASE run.kind # "none" /\ ~Gone
    BY <2>2, BusyRun
  <2> QED  BY <2>1, <2>2
<1>2. HandleBar = IF lost THEN "lost" ELSE "usable"
  BY <1>1 DEF Before, BarsOK
<1>3. CASE lost
  <2>1. lost' /\ RowsIn(durable, durable') /\ (HandleBar' = "poisoned" => SameRows(durable', durable))
    BY <1>3 DEF Simulated, Grows
  <2>2. HandleBar' \in {"lost", "poisoned"}
    BY <2>1 DEF Before, BarsOK
  <2>3. HandleBar = "lost" /\ IInv /\ Valid /\ Valid' /\ BarsOK /\ BarsOK'
    BY <1>2, <1>3 DEF Before
  <2>4. CASE HandleBar' = "lost"
    <3>1. Step
      BY <2>1, <2>3, <2>4, Strays
    <3> QED  BY <2>1, <3>1 DEF Simulated, Follows
  <2>5. CASE HandleBar' = "poisoned"
    <3>1. Step
      BY <2>1, <2>3, <2>5, Loses
    <3> QED  BY <2>1, <3>1 DEF Simulated, Follows
  <2> QED  BY <2>2, <2>4, <2>5
<1>4. CASE ~lost
  BY <1>2, <1>4 DEF Simulated, Grows, Follows
<1> QED  BY <1>3, <1>4

(* The mapping's premises hold after every step. *)
LEMMA ValidNow == SessionInv => Valid
BY FreeValid, AdriftValid DEF SessionInv

LEMMA ValidNext == SessionInv' => Valid'
BY ValidNow, PTL

(* Every step keeps RInv and is a step of TransactionSpec or invisible.    *)
LEMMA FreeSimulated == ASSUME IInv, stuck = FALSE, RInv, [Next]_vars PROVE Follows
<1>0. Before
  <2>1. SessionInv'
    BY FreeSafe
  <2> QED  BY <2>1, FreeValid, ValidNext, Bars, BarsNext DEF Before
<1>1. CASE StartTransaction
  BY <1>0, <1>1, StartTransactionSimulated, AliveSteps DEF StartTransaction
<1>2. ASSUME NEW chain \in BOOLEAN, Commit(chain) PROVE Follows
  BY <1>0, <1>2, CommitSimulated, AliveSteps DEF Commit
<1>3. ASSUME NEW chain \in BOOLEAN, Rollback(chain) PROVE Follows
  BY <1>0, <1>3, RollbackSimulated, AliveSteps DEF Rollback
<1>4. ASSUME NEW value \in BOOLEAN, SetAutocommit(value) PROVE Follows
  BY <1>0, <1>4, SetAutocommitSimulated, AliveSteps DEF SetAutocommit
<1>5. ASSUME NEW n \in Name, Savepoint(n) PROVE Follows
  BY <1>0, <1>5, SavepointSimulated, AliveSteps DEF Savepoint
<1>6. ASSUME NEW n \in Name, RollbackTo(n) PROVE Follows
  BY <1>0, <1>6, RollbackToSimulated, AliveSteps DEF RollbackTo
<1>7. ASSUME NEW n \in Name, Release(n) PROVE Follows
  BY <1>0, <1>7, ReleaseSimulated, AliveSteps DEF Release
<1>8. ASSUME NEW s \in Stmt, BeginDml(s) PROVE Follows
  BY <1>0, <1>8, BeginDmlSimulated, AliveSteps DEF BeginDml
<1>9. ASSUME NEW s \in Stmt, BeginDdl(s) PROVE Follows
  BY <1>0, <1>9, BeginDdlSimulated, AliveSteps DEF BeginDdl
<1>10. ASSUME NEW kind \in {"create", "drop"}, NEW s \in Stmt \cup {"-"}, BeginTemporary(kind, s)
       PROVE  Follows
  BY <1>0, <1>10, BeginTemporarySimulated, AliveSteps DEF BeginTemporary
<1>11. ASSUME NEW s \in Stmt, BeginCreateTemporary(s) PROVE Follows
  BY <1>10, <1>11 DEF BeginCreateTemporary
<1>12. CASE BeginDropTemporary
  BY <1>10, <1>12 DEF BeginDropTemporary
<1>13. CASE BeginRead
  BY <1>0, <1>13, BeginReadSimulated, AliveSteps DEF BeginRead
<1>14. CASE CreateTemporary
  BY <1>0, <1>14, CreateTemporarySimulated, AliveSteps DEF CreateTemporary, Gone
<1>15. CASE DropTemporary
  BY <1>0, <1>15, DropTemporarySimulated, AliveSteps DEF DropTemporary, Gone
<1>16. CASE TemporaryBreaks
  BY <1>0, <1>16, TemporaryBreaksSimulated, AliveSteps DEF TemporaryBreaks, Gone
<1>17. CASE ValidationFails
  BY <1>0, <1>17, ValidationFailsSimulated, AliveSteps DEF ValidationFails, Gone
<1>18. CASE WriteRow
  BY <1>0, <1>18, WriteRowSimulated, AliveSteps DEF WriteRow, Writing, Gone
<1>19. CASE FinishStatement
  BY <1>0, <1>19, FinishStatementSimulated, AliveSteps DEF FinishStatement, Executed, Writing, Gone
<1>20. CASE FailStatement
  <2>1. Simulated /\ (HandleBar = "poisoned" => Step) /\ run.failed
    BY <1>0, <1>20, FailStatementSimulated DEF FailStatement
  <2>2. CASE HandleBar = "poisoned"
    BY <2>1, <2>2 DEF Simulated, Grows, Follows
  <2>3. CASE HandleBar # "poisoned"
    <3>1. ~Gone
      BY <1>0, <2>3 DEF Before, BarsOK
    <3>2. run.kind # "none"
      BY <2>1, IdleRun DEF IInv, RunOK
    <3> QED  BY <1>0, <2>1, <3>1, <3>2, AliveSteps
  <2> QED  BY <2>2, <2>3
<1>21. CASE FinishRead
  BY <1>0, <1>21, FinishReadSimulated, AliveSteps DEF FinishRead, Gone
<1>22. CASE FailRead
  BY <1>0, <1>22, FailReadSimulated, AliveSteps DEF FailRead, Gone
<1>23. CASE Reopen
  BY <1>0, <1>23, ReopenSimulated DEF Before
<1>24. CASE UNCHANGED vars
  BY <1>0, <1>24, StutterSimulated
<1> QED
  BY <1>1, <1>2, <1>3, <1>4, <1>5, <1>6, <1>7, <1>8, <1>9, <1>11, <1>12, <1>13, <1>14,
     <1>15, <1>16, <1>17, <1>18, <1>19, <1>20, <1>21, <1>22, <1>23, <1>24 DEF Next

(* A stuck connection shows the committed rows and changes none. *)
LEMMA AdriftSimulated == ASSUME Adrift, stuck = TRUE, RInv, [Next]_vars PROVE Follows
<1>1. Valid /\ Valid' /\ BarsOK /\ BarsOK'
  BY AdriftValid, AdriftSafe, ValidNext, Bars, BarsNext
<1>2. CASE Reopen
  BY <1>1, <1>2, ReopenSimulated
<1>3. CASE Drifts
  <2>1. /\ engine.view = durable /\ engine.stack = <<>> /\ run.kind \in {"none", "read"}
        /\ ~poisoned /\ active = FALSE /\ saves = <<>>
    BY AdriftFacts DEF Adrift
  <2>2. /\ durable' = durable /\ active' = FALSE /\ saves' = <<>> /\ ~poisoned' /\ lost' = lost
        /\ engine' = engine \/ engine' = ClosedEngine(durable)
    BY <1>3, <2>1 DEF Drifts
  <2>3. engine'.view = durable /\ engine'.stack = <<>>
    <3>1. CASE engine' = engine
      BY <2>1, <3>1
    <3>2. CASE engine' = ClosedEngine(durable)
      BY <3>2 DEF ClosedEngine
    <3> QED  BY <2>2, <3>1, <3>2
  <2>4. run'.kind \in {"none", "read"} /\ run'.outer = FALSE
    <3>1. CASE run' = Idle
      BY <3>1, IdleRun
    <3>2. CASE run' = Running("read", FALSE, "-")
      BY <3>2 DEF Running
    <3> QED  BY <1>3, <3>1, <3>2 DEF Drifts
  <2>5. RInv'
    <3>1. RowsKept(engine', durable')
      <4>1. \A i : i \notin 1 .. Len(engine'.stack)
        BY <2>3, SMT
      <4> QED  BY <2>2, <2>3, <4>1 DEF RowsKept, RowsIn
    <3>2. Based'
      BY <2>4 DEF Based
    <3> QED  BY <3>1, <3>2 DEF RInv, RowsKept, RowsIn
  <2>6. /\ HandleBar = IF lost THEN "lost" ELSE "usable"
        /\ HandleBar' = IF lost' THEN "lost" ELSE "usable"
    BY <1>1, <2>1, <2>2, <2>4 DEF BarsOK, Gone
  <2>7. MarksBar = <<>> /\ WorkBar = Row \cap durable
    <3>1. HandleBar = "usable" => MarksBar = Seen(engine, saves) /\ WorkBar = Row \cap engine.view
      BY <1>1, <2>1 DEF BarsOK, OwnTop
    <3>2. HandleBar # "usable" => MarksBar = <<>> /\ WorkBar = Row \cap durable
      BY <1>1 DEF BarsOK
    <3> QED  BY <2>1, <3>1, <3>2, SeenEmpty
  <2>8. MarksBar' = <<>> /\ WorkBar' = (Row \cap durable)'
    <3>1. HandleBar' = "usable" =>
             MarksBar' = Seen(engine, saves)' /\ WorkBar' = (Row \cap engine.view)'
      BY <1>1, <2>4 DEF BarsOK, OwnTop
    <3>2. HandleBar' # "usable" => MarksBar' = <<>> /\ WorkBar' = (Row \cap durable)'
      BY <1>1 DEF BarsOK
    <3>3. Seen(engine, saves)' = Seen(engine', saves') /\ (Row \cap engine.view)' = (Row \cap durable)'
      BY <2>2, <2>3 DEF Seen, Row
    <3> QED  BY <2>2, <3>1, <3>2, <3>3, SeenEmpty
  <2>9. (Row \cap durable)' = Row \cap durable
    BY <2>2 DEF Row
  <2>10. SameRows(durable', durable) /\ RowsIn(durable, durable')
    BY <2>2, RowSets
  <2>11. Step
    BY <2>1, <2>2, <2>6, <2>7, <2>8, <2>9, <2>10, Stutters
  <2> QED  BY <2>5, <2>10, <2>11 DEF Follows
<1> QED  BY <1>2, <1>3, AdriftNext

LEMMA StepSimulated == ASSUME SessionInv, RInv, [Next]_vars PROVE Follows
BY FreeSimulated, AdriftSimulated DEF SessionInv

LEMMA InitSimulated == ASSUME Init PROVE RInv /\ Tx!SpecInit
<1>1. /\ durable = {} /\ engine = ClosedEngine({}) /\ active = FALSE /\ saves = <<>>
      /\ poisoned = FALSE /\ run = Idle /\ lost = FALSE
  BY DEF Init
<1>2. IInv /\ BarsOK
  BY InitSafe, Bars
<1>3. durable \in SUBSET Stored /\ Whole(durable)
  BY <1>2 DEF IInv, Types
<1>4. Settled(engine, durable, nextId) /\ ~engine.open /\ engine.view = durable
  BY <1>1, <1>3, ClosedSettled
<1>5. RInv
  <2>1. run.kind = "none" /\ run.outer = FALSE
    BY <1>1, IdleRun
  <2>2. Based
    BY <2>1 DEF Based
  <2> QED  BY <1>4, <2>2, ClosedKept DEF RInv, Settled
<1>6. HandleBar = "usable" /\ MarksBar = Seen(engine, saves) /\ WorkBar = Row \cap engine.view
  BY <1>1, <1>2, FreeValid, IdleBars DEF IdleOK
<1>7. MarksBar = <<>> /\ WorkBar = {} /\ durable \cap Row = {} /\ (active /\ HandleBar = "usable") = FALSE
  BY <1>1, <1>4, <1>6, SeenEmpty
<1>8. Tx!SpecInit
  BY <1>6, <1>7 DEF Tx!SpecInit
<1> QED  BY <1>5, <1>8

(* What RInv says of the rows that SQLite could return to or commit holds  *)
(* in every reachable state.                                               *)
THEOREM RowsInvariant == Spec => []RInv
<1>1. SessionInv /\ RInv /\ [Next]_vars => RInv'
  BY StepSimulated DEF Follows
<1>2. Init => RInv
  BY InitSimulated
<1> QED  BY <1>1, <1>2, InductiveInvariant, PTL DEF Spec

(* The connection implements MySQL transactions over whole statements:     *)
(* whatever its commands, statements, cursors, failing SQLite commands,    *)
(* poisoning and process death do, the client sees a step of               *)
(* TransactionSpec or nothing.                                             *)
THEOREM SessionImplementsTransactions == Spec => ImplementsTransactions
<1>1. Init => Tx!SpecInit
  BY InitSimulated
<1>2. SessionInv /\ RInv /\ [Next]_vars => [Tx!SpecNext]_(Tx!specVars)
  BY StepSimulated DEF Follows, Step
<1> QED  BY <1>1, <1>2, InductiveInvariant, RowsInvariant, PTL
            DEF Spec, ImplementsTransactions, Tx!Spec

(* What a COMMIT, implied or not, has put in the file stays there: no      *)
(* ROLLBACK, ROLLBACK TO, RELEASE, failed statement, emergency ROLLBACK or *)
(* new open takes a committed row away.                                    *)
THEOREM CommittedRowsStay == Spec => [][RowsIn(durable, durable')]_vars
<1>1. SessionInv /\ RInv /\ [Next]_vars => [RowsIn(durable, durable')]_vars
  BY StepSimulated DEF Follows
<1> QED  BY <1>1, InductiveInvariant, RowsInvariant, PTL DEF Spec
=============================================================================
