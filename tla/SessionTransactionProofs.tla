---------------------- MODULE SessionTransactionProofs ----------------------
(***************************************************************************)
(* Statements stay whole, the session agrees with SQLite on whether there  *)
(* is a user transaction, and temporary tables stay usable, for any        *)
(* statements, savepoint names and number of savepoints.                   *)
(*                                                                         *)
(* First the inductive invariant of a connection and what each SQLite      *)
(* command does to it, then the commands between statements (START         *)
(* TRANSACTION, COMMIT, ROLLBACK, SET autocommit, savepoints), then the    *)
(* steps of statements.                                                    *)
(***************************************************************************)
EXTENDS SessionTransaction, TLAPS

(* Leaves are for Zenon unless they name another prover. *)
USE Zenon

Mark == [id : Nat, saved : SUBSET Stored]

Engine == [open : BOOLEAN, bySavepoint : BOOLEAN, view : SUBSET Stored, stack : Seq(Mark)]

Runs == [kind : {"none", "read", "dml", "ddl", "create", "created", "drop", "dropped"},
         outer : BOOLEAN, failed : BOOLEAN, stmt : Stmt \cup {"-"}]

Entry == [name : Name, id : Nat]

Types ==
    /\ durable \in SUBSET Stored /\ engine \in Engine
    /\ active \in BOOLEAN /\ autocommit \in BOOLEAN /\ poisoned \in BOOLEAN
    /\ lost \in BOOLEAN /\ unrepaired \in BOOLEAN
    /\ saves \in Seq(Entry)
    /\ nextId \in 1 .. MaxSavepoints + 1
    /\ run \in Runs /\ done \subseteq Stmt /\ temps \subseteq done
    /\ \A i \in 1 .. Len(engine.stack) : engine.stack[i].id < nextId

(* The registry lists each name once, in the order the savepoints were set. *)
Registry ==
    /\ \A i \in 1 .. Len(saves) : 0 < saves[i].id /\ saves[i].id < nextId
    /\ \A i, j \in 1 .. Len(saves) :
          i < j => saves[i].id < saves[j].id /\ saves[i].name # saves[j].name

RunOK ==
    /\ run.kind = "none" => run = Idle
    /\ run.kind \in {"dml", "ddl", "create", "created"} => run.stmt \in done
    /\ run.kind = "ddl" => run.outer
    /\ run.kind \in {"read", "created"} => ~run.failed
    /\ poisoned => run = Idle

Pair(S, s) == <<s, 1>> \in S <=> <<s, 2>> \in S
Whole(S) == \A s \in Stmt : Pair(S, s)

(* What SQLite keeps of a connection, with n the next savepoint number:    *)
(* without a transaction it has the file's state and no savepoints; the    *)
(* savepoints are in the order they were set, the statement's own last.    *)
Sound(e, d, n) ==
    /\ e \in Engine /\ d \in SUBSET Stored /\ Whole(d)
    /\ ~e.open => e.view = d /\ e.stack = <<>> /\ ~e.bySavepoint
    /\ \A i \in 1 .. Len(e.stack) : e.stack[i].id < n /\ Whole(e.stack[i].saved)
    /\ \A i, j \in 1 .. Len(e.stack) :
          i < j => 0 < e.stack[i].id /\ (e.stack[i].id < e.stack[j].id \/ e.stack[j].id = 0)

NoStatementMark(e) == \A i \in 1 .. Len(e.stack) : e.stack[i].id # 0

(* SQLite's state between two statements. *)
Settled(e, d, n) == Sound(e, d, n) /\ Whole(e.view) /\ NoStatementMark(e)

OnTop(e) == Len(e.stack) > 0 /\ e.stack[Len(e.stack)].id = 0

(* Every savepoint the session lists is on SQLite's stack. *)
Listed(e, s) == \A i \in 1 .. Len(s) : \E k \in 1 .. Len(e.stack) : e.stack[k].id = s[i].id

(* What a running statement has done to SQLite's state. *)
Working ==
    /\ Sound(engine, durable, nextId)
    /\ run.outer => ~engine.bySavepoint
    /\ \A s \in Stmt : s # run.stmt \/ run.kind \notin {"dml", "ddl"} => Pair(engine.view, s)
    /\ run.kind = "dml" /\ engine.open => (run.failed /\ run.outer) \/ OnTop(engine)
    /\ run.kind # "dml" => NoStatementMark(engine)

(* The session and SQLite agree on the transaction and its savepoints. *)
Linked ==
    /\ ~engine.bySavepoint
    /\ run.kind = "none" => (active <=> engine.open)
    /\ run.kind # "none" =>
          /\ run.outer <=> ~active
          /\ engine.open \/ (run.failed /\ (run.kind \in {"dml", "ddl"} \/ run.outer))
    /\ ~active => saves = <<>>
    /\ engine.open => Listed(engine, saves)

(* Where the temporary tables that the session knows are found: in what    *)
(* SQLite shows, and in whatever a failing statement goes back to.         *)
Backed ==
    /\ run.kind = "none" => Physical(temps) \subseteq engine.view
    /\ run.outer /\ run.kind # "created" => Physical(temps) \subseteq durable
    /\ engine.open /\ ~(run.kind = "drop" /\ run.failed /\ run.outer) =>
          Physical(temps) \subseteq engine.view
    /\ run.kind = "dml" /\ engine.open /\ OnTop(engine) =>
          Physical(temps) \subseteq engine.stack[Len(engine.stack)].saved

(* The invariant of a connection without a stuck reconciliation. *)
IInv ==
    /\ Types /\ Registry /\ RunOK /\ Whole(durable)
    /\ ~poisoned => Working
    /\ ~poisoned /\ ~lost => Linked
    /\ ~poisoned /\ ~lost /\ ~unrepaired => Backed

(* What is left of a connection whose SQLite transaction nobody ends: the  *)
(* transaction is empty, and only reads run beside it.                     *)
Adrift ==
    /\ durable \in SUBSET Stored /\ Whole(durable)
    /\ engine = [ClosedEngine(durable) EXCEPT !.open = TRUE]
    /\ active = FALSE /\ poisoned = FALSE /\ saves = <<>>
    /\ run \in {Idle, Running("read", FALSE, "-")}
    /\ autocommit \in BOOLEAN /\ lost \in BOOLEAN /\ unrepaired \in BOOLEAN
    /\ nextId \in 1 .. MaxSavepoints + 1 /\ done \subseteq Stmt /\ temps \subseteq done
    /\ ~lost /\ ~unrepaired => Physical(temps) \subseteq durable

(* The inductive invariant. *)
SessionInv == stuck \in BOOLEAN /\ (stuck => Adrift) /\ (~stuck => IInv)

-----------------------------------------------------------------------------
(* SQLite's commands, one by one.                                          *)

LEMMA EngineFields ==
    ASSUME NEW e \in Engine
    PROVE  /\ e.open \in BOOLEAN /\ e.bySavepoint \in BOOLEAN /\ e.view \in SUBSET Stored
           /\ e.stack \in Seq(Mark) /\ Len(e.stack) \in Nat
           /\ \A i \in 1 .. Len(e.stack) :
                 e.stack[i].id \in Nat /\ e.stack[i].saved \in SUBSET Stored
<1>1. /\ e.open \in BOOLEAN /\ e.bySavepoint \in BOOLEAN /\ e.view \in SUBSET Stored
      /\ e.stack \in Seq(Mark)
  BY DEF Engine
<1>2. Len(e.stack) \in Nat /\ \A i \in 1 .. Len(e.stack) : e.stack[i] \in Mark
  BY <1>1, SMT
<1>3. \A i \in 1 .. Len(e.stack) : e.stack[i].id \in Nat /\ e.stack[i].saved \in SUBSET Stored
  BY <1>2 DEF Mark
<1> QED  BY <1>1, <1>2, <1>3

LEMMA ClosedSettled ==
    ASSUME NEW d \in SUBSET Stored, Whole(d), NEW n
    PROVE  LET e == ClosedEngine(d)
           IN  /\ Settled(e, d, n) /\ e \in Engine
               /\ ~e.open /\ ~e.bySavepoint /\ e.view = d /\ e.stack = <<>>
<1> DEFINE e == ClosedEngine(d)
<1>1. /\ e \in Engine /\ ~e.open /\ ~e.bySavepoint /\ e.view = d /\ e.stack = <<>>
  BY SMT DEF ClosedEngine, Engine
<1> HIDE DEF e
<1>2. Settled(e, d, n)
  BY <1>1, SMT DEF Settled, Sound, NoStatementMark
<1> QED  BY <1>1, <1>2 DEF e

(* A savepoint number is on the stack at most once. *)
LEMMA TheMark ==
    ASSUME NEW e, NEW d, NEW n, Sound(e, d, n), NEW k \in 1 .. Len(e.stack)
    PROVE  Marks(e, e.stack[k].id) = {k} /\ MarkAt(e, e.stack[k].id) = k
<1>1. e.stack \in Seq(Mark) /\ \A i \in 1 .. Len(e.stack) : e.stack[i].id \in Nat
  BY EngineFields DEF Sound
<1>2. ASSUME NEW i \in 1 .. Len(e.stack), e.stack[i].id = e.stack[k].id PROVE i = k
  <2>1. i \in Int /\ k \in Int
    BY <1>1, SMT
  <2>2. /\ i < k => 0 < e.stack[i].id /\ (e.stack[i].id < e.stack[k].id \/ e.stack[k].id = 0)
        /\ k < i => 0 < e.stack[k].id /\ (e.stack[k].id < e.stack[i].id \/ e.stack[i].id = 0)
    BY DEF Sound
  <2>3. e.stack[i].id \in Nat
    BY <1>1
  <2> QED  BY <1>2, <2>1, <2>2, <2>3, SMT
<1>3. Marks(e, e.stack[k].id) = {k}
  BY <1>2 DEF Marks
<1>4. MarkAt(e, e.stack[k].id) = k
  <2>1. k \in Marks(e, e.stack[k].id) /\ \A j \in Marks(e, e.stack[k].id) : j <= k
    BY <1>1, <1>3, SMT
  <2> QED  BY <1>3, <2>1 DEF MarkAt
<1> QED  BY <1>3, <1>4

LEMMA NoMarks ==
    ASSUME NEW e, NEW id, Marks(e, id) # {}
    PROVE  \E k \in 1 .. Len(e.stack) : e.stack[k].id = id
BY DEF Marks

LEMMA BeginShape ==
    ASSUME NEW e, NEW d, NEW n, Settled(e, d, n), NEW o \in BeginOutcomes(e, d)
    PROVE  /\ Settled(o.e, o.d, n) /\ o.d = d /\ o.e.view = e.view /\ o.ok \in BOOLEAN
           /\ ~o.ok => o.e = e
           /\ o.ok => ~e.open /\ o.e.open /\ ~o.e.bySavepoint /\ o.e.stack = <<>>
<1>1. CASE o = Outcome(FALSE, e, d)
  BY <1>1 DEF Outcome
<1>2. CASE ~e.open /\ o = Outcome(TRUE, [e EXCEPT !.open = TRUE], d)
  <2>1. e \in Engine /\ e.stack = <<>> /\ ~e.bySavepoint
    BY <1>2 DEF Settled, Sound
  <2>2. o.ok = TRUE /\ o.d = d /\ o.e = [e EXCEPT !.open = TRUE]
    BY <1>2 DEF Outcome
  <2>3. /\ o.e \in Engine /\ o.e.open /\ ~o.e.bySavepoint /\ o.e.view = e.view
        /\ o.e.stack = <<>>
    BY <2>1, <2>2 DEF Engine
  <2>4. Settled(o.e, o.d, n)
    BY <2>1, <2>2, <2>3, SMT DEF Settled, Sound, NoStatementMark
  <2> QED  BY <1>2, <2>2, <2>3, <2>4
<1> QED  BY <1>1, <1>2 DEF BeginOutcomes, Fails

LEMMA CommitShape ==
    ASSUME NEW e, NEW d, NEW n, Sound(e, d, n), Whole(e.view), NEW o \in CommitOutcomes(e, d)
    PROVE  /\ Sound(o.e, o.d, n) /\ Whole(o.e.view)
           /\ ~o.ok => \/ o.e = e /\ o.d = d
                       \/ e.open /\ o.d = d /\ ~o.e.open /\ Settled(o.e, o.d, n)
           /\ o.ok => /\ e.open /\ o.d = e.view /\ ~o.e.open /\ o.e.view = e.view
                      /\ Settled(o.e, o.d, n)
<1>1. CASE o = Outcome(FALSE, e, d)
  BY <1>1 DEF Outcome
<1>2. d \in SUBSET Stored /\ Whole(d) /\ e.view \in SUBSET Stored /\ Whole(e.view)
  BY DEF Sound, Engine
<1>3. CASE e.open /\ o = Outcome(FALSE, ClosedEngine(d), d)
  <2>1. ~o.ok /\ o.d = d /\ o.e = ClosedEngine(d)
    BY <1>3 DEF Outcome
  <2>2. Settled(o.e, o.d, n) /\ ~o.e.open
    BY <1>2, <2>1, ClosedSettled
  <2> QED  BY <1>3, <2>1, <2>2 DEF Settled
<1>4. CASE e.open /\ o = Outcome(TRUE, ClosedEngine(e.view), e.view)
  <2>1. o.ok /\ o.d = e.view /\ o.e = ClosedEngine(e.view)
    BY <1>4 DEF Outcome
  <2>2. Settled(o.e, o.d, n) /\ ~o.e.open /\ o.e.view = e.view
    BY <1>2, <2>1, ClosedSettled
  <2> QED  BY <1>4, <2>1, <2>2 DEF Settled
<1> QED  BY <1>1, <1>3, <1>4 DEF CommitOutcomes, Fails

LEMMA RollbackShape ==
    ASSUME NEW e, NEW d \in SUBSET Stored, Whole(d), NEW n, NEW o \in RollbackOutcomes(e, d)
    PROVE  /\ o.d = d
           /\ ~o.ok => o.e = e
           /\ o.ok => e.open /\ o.e = ClosedEngine(d) /\ Settled(o.e, d, n) /\ ~o.e.open
<1>1. CASE o = Outcome(FALSE, e, d)
  BY <1>1 DEF Outcome
<1>2. CASE e.open /\ o = Outcome(TRUE, ClosedEngine(d), d)
  <2>1. o.ok /\ o.d = d /\ o.e = ClosedEngine(d)
    BY <1>2 DEF Outcome
  <2> QED  BY <1>2, <2>1, ClosedSettled
<1> QED  BY <1>1, <1>2 DEF RollbackOutcomes, Fails

(* f has one savepoint more than e, of what e sees. *)
Pushed(f, e, id) ==
    /\ Len(f.stack) = Len(e.stack) + 1
    /\ \A i \in 1 .. Len(e.stack) : f.stack[i] = e.stack[i]
    /\ f.stack[Len(e.stack) + 1].id = id
    /\ f.stack[Len(e.stack) + 1].saved = e.view

LEMMA SavepointShape ==
    ASSUME NEW e, NEW d, NEW n \in Nat, Settled(e, d, n), NEW id \in Nat, id = n \/ id = 0, n > 0,
           NEW o \in SavepointOutcomes(e, d, id)
    PROVE  /\ o.d = d
           /\ ~o.ok => o.e = e
           /\ o.ok => /\ o.e.open /\ o.e.view = e.view
                      /\ e.open /\ ~e.bySavepoint => ~o.e.bySavepoint
                      /\ Pushed(o.e, e, id)
                      /\ Sound(o.e, d, n + 1)
                      /\ id = 0 => Sound(o.e, d, n)
                      /\ id # 0 => Settled(o.e, d, n + 1)
<1>1. CASE o = Outcome(FALSE, e, d)
  BY <1>1 DEF Outcome
<1> DEFINE m == [id |-> id, saved |-> e.view]
           by == IF e.open THEN e.bySavepoint ELSE TRUE
           f == [e EXCEPT !.open = TRUE, !.bySavepoint = by, !.stack = Append(e.stack, m)]
<1>2. CASE o = Outcome(TRUE, f, d)
  <2>1. /\ e \in Engine /\ e.stack \in Seq(Mark) /\ Len(e.stack) \in Nat
        /\ e.view \in SUBSET Stored /\ by \in BOOLEAN
        /\ \A i \in 1 .. Len(e.stack) : e.stack[i].id \in Nat
    BY EngineFields DEF Settled, Sound
  <2>2. m \in Mark /\ m.id = id /\ m.saved = e.view
    BY <2>1 DEF Mark
  <2> HIDE DEF m
  <2> DEFINE st == Append(e.stack, m)
  <2>3. /\ st \in Seq(Mark) /\ Len(st) = Len(e.stack) + 1 /\ st[Len(e.stack) + 1] = m
        /\ \A i \in 1 .. Len(e.stack) : st[i] = e.stack[i]
    BY <2>1, <2>2, SMT
  <2>4. o.ok /\ o.d = d /\ o.e = [e EXCEPT !.open = TRUE, !.bySavepoint = by, !.stack = st]
    BY <1>2 DEF Outcome
  <2> HIDE DEF st, by
  <2>5. /\ o.e \in Engine /\ o.e.open /\ o.e.view = e.view /\ o.e.bySavepoint = by
        /\ o.e.stack = st
    BY <2>1, <2>3, <2>4 DEF Engine
  <2>6. /\ \A i \in 1 .. Len(e.stack) :
              e.stack[i].id \in Nat /\ e.stack[i].id < n /\ Whole(e.stack[i].saved) /\ e.stack[i].id # 0
        /\ \A i, j \in 1 .. Len(e.stack) : i < j => e.stack[i].id < e.stack[j].id
    BY <2>1 DEF Settled, Sound, NoStatementMark
  <2>7. \A i \in 1 .. Len(st) : st[i].id < n + 1 /\ Whole(st[i].saved) /\ (id = 0 => st[i].id < n)
    <3> SUFFICES ASSUME NEW i \in 1 .. Len(st)
                 PROVE  st[i].id < n + 1 /\ Whole(st[i].saved) /\ (id = 0 => st[i].id < n)
      OBVIOUS
    <3>1. CASE i \in 1 .. Len(e.stack)
      <4>1. /\ st[i] = e.stack[i] /\ e.stack[i].id \in Nat /\ e.stack[i].id < n
            /\ Whole(e.stack[i].saved)
        BY <2>3, <2>6, <3>1
      <4> QED  BY <4>1, SMT
    <3>2. CASE i = Len(e.stack) + 1
      BY <2>2, <2>3, <3>2, SMT DEF Settled
    <3> QED  BY <2>1, <2>3, <3>1, <3>2, SMT
  <2>8. \A i, j \in 1 .. Len(st) : i < j => 0 < st[i].id /\ (st[i].id < st[j].id \/ st[j].id = 0)
    <3> SUFFICES ASSUME NEW i \in 1 .. Len(st), NEW j \in 1 .. Len(st), i < j
                 PROVE  0 < st[i].id /\ (st[i].id < st[j].id \/ st[j].id = 0)
      OBVIOUS
    <3>1. i \in 1 .. Len(e.stack) /\ st[i] = e.stack[i]
      BY <2>1, <2>3, SMT
    <3>2. CASE j \in 1 .. Len(e.stack)
      <4>1. /\ st[j] = e.stack[j] /\ e.stack[i].id \in Nat /\ e.stack[i].id # 0
            /\ e.stack[i].id < e.stack[j].id
        BY <2>3, <2>6, <3>1, <3>2
      <4> QED  BY <3>1, <4>1, SMT
    <3>3. CASE j = Len(e.stack) + 1
      BY <2>2, <2>3, <2>6, <3>1, <3>3, SMT
    <3> QED  BY <2>1, <2>3, <3>2, <3>3, SMT
  <2>9. d \in SUBSET Stored /\ Whole(d) /\ Whole(e.view)
    BY DEF Settled, Sound
  <2>10. Sound(o.e, d, n + 1) /\ (id = 0 => Sound(o.e, d, n))
    BY <2>5, <2>7, <2>8, <2>9 DEF Sound
  <2>11. id # 0 => Settled(o.e, d, n + 1)
    <3> SUFFICES ASSUME id # 0 PROVE NoStatementMark(o.e)
      BY <2>5, <2>9, <2>10 DEF Settled
    <3>1. \A i \in 1 .. Len(st) : st[i].id # 0
      BY <2>1, <2>2, <2>3, <2>6, SMT
    <3> QED  BY <2>5, <3>1 DEF NoStatementMark
  <2>12. Pushed(o.e, e, id)
    BY <2>2, <2>3, <2>5 DEF Pushed
  <2> QED  BY <2>4, <2>5, <2>10, <2>11, <2>12 DEF by
<1> QED  BY <1>1, <1>2 DEF SavepointOutcomes, Fails

(* Cutting the stack back, as ROLLBACK TO and RELEASE do. *)
LEMMA CutSound ==
    ASSUME NEW e, NEW d, NEW n, Sound(e, d, n), e.open, NEW k \in 0 .. Len(e.stack),
           NEW f \in Engine, f.open, f.stack = SubSeq(e.stack, 1, k)
    PROVE  /\ Sound(f, d, n) /\ Len(f.stack) = k
           /\ \A i \in 1 .. k : i \in 1 .. Len(e.stack) /\ f.stack[i] = e.stack[i]
           /\ NoStatementMark(e) => NoStatementMark(f)
<1>1. e.stack \in Seq(Mark) /\ Len(e.stack) \in Nat
  BY SMT DEF Sound, Engine
<1>2. Len(f.stack) = k /\ \A i \in 1 .. k : i \in 1 .. Len(e.stack) /\ f.stack[i] = e.stack[i]
  BY <1>1, SMT
<1>3. Sound(f, d, n)
  BY <1>2, SMT DEF Sound
<1>4. NoStatementMark(e) => NoStatementMark(f)
  BY <1>2 DEF NoStatementMark
<1> QED  BY <1>2, <1>3, <1>4

(* f is e back at the savepoint of its place k. *)
At(f, e, k) ==
    /\ f.view = e.stack[k].saved /\ Len(f.stack) = k
    /\ \A i \in 1 .. k : i \in 1 .. Len(e.stack) /\ f.stack[i] = e.stack[i]

(* f is e after ROLLBACK TO the savepoint id. *)
Returned(f, e, d, n, id) ==
    /\ e.open /\ f.open /\ f.bySavepoint = e.bySavepoint /\ Sound(f, d, n)
    /\ NoStatementMark(e) => NoStatementMark(f)
    /\ \E k \in 1 .. Len(e.stack) : e.stack[k].id = id /\ At(f, e, k)

LEMMA RollbackToShape ==
    ASSUME NEW e, NEW d, NEW n, Sound(e, d, n), NEW id, NEW o \in RollbackToOutcomes(e, d, id)
    PROVE  /\ o.d = d
           /\ ~o.ok => o.e = e
           /\ o.ok => Returned(o.e, e, d, n, id)
<1>1. CASE o = Outcome(FALSE, e, d)
  BY <1>1 DEF Outcome
<1> DEFINE m == MarkAt(e, id)
           v == e.stack[m].saved
           st == SubSeq(e.stack, 1, m)
<1>2. CASE Marks(e, id) # {} /\ o = Outcome(TRUE, [e EXCEPT !.view = v, !.stack = st], d)
  <2>1. PICK k \in 1 .. Len(e.stack) : e.stack[k].id = id
    BY <1>2, NoMarks
  <2>2. m = k
    BY <2>1, TheMark
  <2>3. o.ok /\ o.d = d /\ o.e = [e EXCEPT !.view = v, !.stack = st]
    BY <1>2 DEF Outcome
  <2>4. e \in Engine /\ e.open
    <3>1. e \in Engine /\ (~e.open => e.stack = <<>>)
      BY DEF Sound
    <3>2. e.stack # <<>>
      BY <2>1, SMT
    <3> QED  BY <3>1, <3>2, EngineFields
  <2>5. v \in SUBSET Stored /\ st \in Seq(Mark) /\ k \in 0 .. Len(e.stack)
    BY <2>1, <2>2, <2>4, EngineFields, SMT
  <2>6. v = e.stack[k].saved /\ st = SubSeq(e.stack, 1, k)
    BY <2>2
  <2> HIDE DEF v, st, m
  <2>7. /\ o.e \in Engine /\ o.e.open /\ o.e.bySavepoint = e.bySavepoint
        /\ o.e.view = v /\ o.e.stack = st
    BY <2>3, <2>4, <2>5 DEF Engine
  <2>8. /\ Sound(o.e, d, n) /\ Len(o.e.stack) = k
        /\ \A i \in 1 .. k : i \in 1 .. Len(e.stack) /\ o.e.stack[i] = e.stack[i]
        /\ NoStatementMark(e) => NoStatementMark(o.e)
    BY <2>4, <2>5, <2>6, <2>7, CutSound, SMT
  <2>9. At(o.e, e, k)
    BY <2>6, <2>7, <2>8 DEF At
  <2>10. Returned(o.e, e, d, n, id)
    BY <2>1, <2>4, <2>7, <2>8, <2>9 DEF Returned
  <2> QED  BY <2>3, <2>10
<1> QED  BY <1>1, <1>2 DEF RollbackToOutcomes, Fails

(* What lies below the savepoint at place k of e is all of f's stack. *)
Below(f, e, k) ==
    /\ \A i \in 1 .. Len(f.stack) : i \in 1 .. Len(e.stack) /\ i < k /\ f.stack[i] = e.stack[i]
    /\ \A i \in 1 .. Len(e.stack) : i < k => i \in 1 .. Len(f.stack) /\ f.stack[i] = e.stack[i]

(* f is e after RELEASE of the savepoint id. *)
Released(f, e, d, n, id) ==
    /\ e.open /\ f.open /\ f.bySavepoint = e.bySavepoint /\ f.view = e.view /\ Sound(f, d, n)
    /\ NoStatementMark(e) => NoStatementMark(f)
    /\ \E k \in 1 .. Len(e.stack) : e.stack[k].id = id /\ Below(f, e, k)

LEMMA ReleaseShape ==
    ASSUME NEW e, NEW d, NEW n, Sound(e, d, n), NEW id, NEW o \in ReleaseOutcomes(e, d, id)
    PROVE  \/ ~o.ok /\ o.e = e /\ o.d = d
           \/ e.bySavepoint /\ o \in CommitOutcomes(e, d)
           \/ o.ok /\ o.d = d /\ Released(o.e, e, d, n, id)
<1>1. CASE o = Outcome(FALSE, e, d)
  BY <1>1 DEF Outcome
<1> DEFINE m == MarkAt(e, id)
           st == SubSeq(e.stack, 1, m - 1)
<1>2. CASE Marks(e, id) # {} /\ o = Outcome(TRUE, [e EXCEPT !.stack = st], d)
  <2>1. PICK k \in 1 .. Len(e.stack) : e.stack[k].id = id
    BY <1>2, NoMarks
  <2>2. m = k
    BY <2>1, TheMark
  <2>3. o.ok /\ o.d = d /\ o.e = [e EXCEPT !.stack = st]
    BY <1>2 DEF Outcome
  <2>4. e \in Engine /\ e.open
    <3>1. e \in Engine /\ (~e.open => e.stack = <<>>)
      BY DEF Sound
    <3>2. e.stack # <<>>
      BY <2>1, SMT
    <3> QED  BY <3>1, <3>2, EngineFields
  <2>5. st \in Seq(Mark) /\ k - 1 \in 0 .. Len(e.stack) /\ st = SubSeq(e.stack, 1, k - 1)
    BY <2>1, <2>2, <2>4, EngineFields, SMT
  <2> HIDE DEF st, m
  <2>7. /\ o.e \in Engine /\ o.e.open /\ o.e.bySavepoint = e.bySavepoint
        /\ o.e.view = e.view /\ o.e.stack = st
    BY <2>3, <2>4, <2>5 DEF Engine
  <2> DEFINE j == k - 1
  <2>8. j \in 0 .. Len(e.stack) /\ o.e.stack = SubSeq(e.stack, 1, j)
    BY <2>5, <2>7
  <2> HIDE DEF j
  <2>9. /\ Sound(o.e, d, n) /\ Len(o.e.stack) = j
        /\ \A i \in 1 .. j : i \in 1 .. Len(e.stack) /\ o.e.stack[i] = e.stack[i]
        /\ NoStatementMark(e) => NoStatementMark(o.e)
    BY <2>4, <2>7, <2>8, CutSound
  <2>10. Below(o.e, e, k)
    <3>1. \A i \in 1 .. j : i < k
      BY <2>1, <2>5, SMT DEF j
    <3>2. \A i \in 1 .. Len(e.stack) : i < k => i \in 1 .. j
      BY <2>1, <2>5, SMT DEF j
    <3> QED  BY <2>9, <3>1, <3>2 DEF Below
  <2>11. Released(o.e, e, d, n, id)
    BY <2>1, <2>4, <2>7, <2>9, <2>10 DEF Released
  <2> QED  BY <2>3, <2>11
<1> QED  BY <1>1, <1>2 DEF ReleaseOutcomes, Fails

LEMMA LeavesShape ==
    ASSUME NEW e, NEW d, NEW n, Settled(e, d, n), NEW v \in SUBSET Stored, Whole(v),
           NEW o, o.e = [e EXCEPT !.view = v], o.d = IF e.open THEN d ELSE v
    PROVE  /\ Settled(o.e, o.d, n) /\ o.e.view = v /\ o.e.open = e.open
           /\ o.e.bySavepoint = e.bySavepoint /\ o.e.stack = e.stack
<1>2. e \in Engine
  BY DEF Settled, Sound
<1>3. /\ o.e \in Engine /\ o.e.view = v /\ o.e.open = e.open
      /\ o.e.bySavepoint = e.bySavepoint /\ o.e.stack = e.stack
  BY <1>2 DEF Engine
<1>4. Settled(o.e, o.d, n)
  BY <1>3 DEF Settled, Sound, NoStatementMark
<1> QED  BY <1>3, <1>4

LEMMA PhysicalApart ==
    ASSUME NEW V, NEW W, \A s \in Stmt : /\ <<s, 1>> \in V <=> <<s, 1>> \in W
                                         /\ <<s, 2>> \in V <=> <<s, 2>> \in W
    PROVE  Whole(V) => Whole(W)
BY DEF Whole, Pair

LEMMA RepairShape ==
    ASSUME NEW e, NEW d, NEW n, Settled(e, d, n), temps \subseteq Stmt,
           NEW o \in RepairOutcomes(e, d)
    PROVE  /\ Settled(o.e, o.d, n)
           /\ \/ /\ o.e.open = e.open /\ o.e.bySavepoint = e.bySavepoint /\ o.e.stack = e.stack
                 /\ o.ok => Physical(temps) \subseteq o.e.view
              \/ ~o.ok /\ e.open /\ ~o.e.open
<1> DEFINE orphans == {x \in e.view : x[2] = 3 /\ x[1] \notin temps}
           missing == Physical(temps) \ e.view
           kept == e.view \ orphans
<1>1. /\ e.view \in SUBSET Stored /\ Whole(e.view) /\ d \in SUBSET Stored /\ Whole(d)
      /\ Physical(temps) \in SUBSET Stored
  BY EngineFields DEF Settled, Sound, Stored, Physical
<1>2. ASSUME NEW s \in Stmt, NEW i \in {1, 2}
      PROVE  <<s, i>> \notin orphans /\ <<s, i>> \notin missing
  BY SMT DEF Physical
<1>3. orphans \subseteq e.view /\ missing \subseteq Stored /\ missing \cap e.view = {}
  BY <1>1
<1>4. Physical(temps) \subseteq kept \cup missing
  <2> SUFFICES ASSUME NEW x \in Physical(temps) PROVE x \notin orphans
    OBVIOUS
  <2> QED  BY DEF Physical
<1> HIDE DEF orphans, missing
<1>5. CASE o = Leaves(TRUE, e, d, kept \cup missing)
  <2>1. kept \cup missing \in SUBSET Stored /\ Whole(kept \cup missing)
    BY <1>1, <1>2, <1>3, PhysicalApart
  <2>2. o.ok /\ o.e = [e EXCEPT !.view = kept \cup missing] /\ o.d = IF e.open THEN d ELSE kept \cup missing
    BY <1>5 DEF Leaves, Outcome
  <2> DEFINE v == kept \cup missing
  <2> HIDE DEF v
  <2>3. v \in SUBSET Stored /\ Whole(v) /\ o.e = [e EXCEPT !.view = v] /\ o.d = IF e.open THEN d ELSE v
    BY <2>1, <2>2 DEF v
  <2>4. /\ Settled(o.e, o.d, n) /\ o.e.view = v /\ o.e.open = e.open
        /\ o.e.bySavepoint = e.bySavepoint /\ o.e.stack = e.stack
    BY <2>3, LeavesShape, SMT
  <2>5. Physical(temps) \subseteq v
    BY <1>4 DEF v
  <2> QED  BY <2>2, <2>4, <2>5
<1>6. ASSUME NEW X \in SUBSET orphans, o = Leaves(FALSE, e, d, e.view \ X)
      PROVE  /\ Settled(o.e, o.d, n) /\ ~o.ok /\ o.e.open = e.open
             /\ o.e.bySavepoint = e.bySavepoint /\ o.e.stack = e.stack
  <2>1. e.view \ X \in SUBSET Stored /\ Whole(e.view \ X)
    BY <1>1, <1>2, <1>3, PhysicalApart, SMT
  <2>2. ~o.ok /\ o.e = [e EXCEPT !.view = e.view \ X] /\ o.d = IF e.open THEN d ELSE e.view \ X
    BY <1>6 DEF Leaves, Outcome
  <2> DEFINE v == e.view \ X
  <2> HIDE DEF v
  <2>3. v \in SUBSET Stored /\ Whole(v) /\ o.e = [e EXCEPT !.view = v] /\ o.d = IF e.open THEN d ELSE v
    BY <2>1, <2>2 DEF v
  <2> QED  BY <2>2, <2>3, LeavesShape, SMT
<1>7. ASSUME NEW X \in SUBSET missing, o = Leaves(FALSE, e, d, kept \cup X)
      PROVE  /\ Settled(o.e, o.d, n) /\ ~o.ok /\ o.e.open = e.open
             /\ o.e.bySavepoint = e.bySavepoint /\ o.e.stack = e.stack
  <2>1. kept \cup X \in SUBSET Stored /\ Whole(kept \cup X)
    BY <1>1, <1>2, <1>3, PhysicalApart, SMT
  <2>2. ~o.ok /\ o.e = [e EXCEPT !.view = kept \cup X] /\ o.d = IF e.open THEN d ELSE kept \cup X
    BY <1>7 DEF Leaves, Outcome
  <2> DEFINE v == kept \cup X
  <2> HIDE DEF v
  <2>3. v \in SUBSET Stored /\ Whole(v) /\ o.e = [e EXCEPT !.view = v] /\ o.d = IF e.open THEN d ELSE v
    BY <2>1, <2>2 DEF v
  <2> QED  BY <2>2, <2>3, LeavesShape, SMT
<1>8. CASE e.open /\ o = Outcome(FALSE, ClosedEngine(d), d)
  <2>1. ~o.ok /\ o.d = d /\ o.e = ClosedEngine(d)
    BY <1>8 DEF Outcome
  <2> QED  BY <1>1, <1>8, <2>1, ClosedSettled
<1>9. \/ o = Leaves(TRUE, e, d, kept \cup missing)
      \/ \E X \in SUBSET orphans : o = Leaves(FALSE, e, d, e.view \ X)
      \/ \E X \in SUBSET missing : o = Leaves(FALSE, e, d, kept \cup X)
      \/ e.open /\ o = Outcome(FALSE, ClosedEngine(d), d)
  BY DEF RepairOutcomes, Fails, orphans, missing
<1> QED  BY <1>5, <1>6, <1>7, <1>8, <1>9

-----------------------------------------------------------------------------
(* Commands between statements.                                            *)

(* What the session believes of SQLite when no statement runs. *)
Agree(e, a, s) ==
    /\ ~e.bySavepoint /\ (a <=> e.open)
    /\ ~a => s = <<>>
    /\ e.open => Listed(e, s)

(* With no statement running, nothing is half done. *)
LEMMA IdleFacts ==
    ASSUME IInv, Accepts
    PROVE  /\ run = Idle /\ ~poisoned /\ Settled(engine, durable, nextId)
           /\ durable \in SUBSET Stored /\ Whole(durable)
           /\ nextId \in Nat /\ nextId > 0
           /\ ~lost => Agree(engine, active, saves)
           /\ ~lost /\ ~unrepaired => Physical(temps) \subseteq engine.view
           /\ temps \subseteq Stmt
<1>1. run = Idle /\ ~poisoned
  BY DEF Accepts
<1>2. run.kind = "none" /\ run.outer = FALSE /\ run.stmt = "-"
  BY <1>1 DEF Idle
<1>3. Working /\ (~lost => Linked) /\ (~lost /\ ~unrepaired => Backed)
  BY <1>1 DEF IInv
<1>4. Settled(engine, durable, nextId)
  BY <1>2, <1>3 DEF Working, Settled, Whole
<1>5. ~lost => Agree(engine, active, saves)
  BY <1>2, <1>3 DEF Linked, Agree
<1>6. ~lost /\ ~unrepaired => Physical(temps) \subseteq engine.view
  BY <1>2, <1>3 DEF Backed
<1>7. /\ durable \in SUBSET Stored /\ Whole(durable) /\ nextId \in Nat /\ nextId > 0
      /\ temps \subseteq Stmt
  BY SessionTransactionAssumption, SMT DEF IInv, Types
<1> QED  BY <1>1, <1>4, <1>5, <1>6, <1>7

LEMMA IdleRun == /\ Idle \in Runs /\ Idle.kind = "none" /\ Idle.outer = FALSE
                 /\ Idle.failed = FALSE /\ Idle.stmt = "-"
BY DEF Idle, Runs

(* A step that ends with no statement running keeps the invariant when it  *)
(* leaves SQLite settled, the session in agreement with it, and the        *)
(* temporary tables where they belong.                                     *)
LEMMA IdleStep ==
    ASSUME run' = Idle, poisoned' = FALSE,
           Settled(engine', durable', nextId'),
           active' \in BOOLEAN, autocommit' \in BOOLEAN, lost' \in BOOLEAN, unrepaired' \in BOOLEAN,
           saves' \in Seq(Entry), nextId' \in 1 .. MaxSavepoints + 1,
           done' \subseteq Stmt, temps' \subseteq done', Registry',
           ~lost' => Agree(engine', active', saves'),
           ~lost' /\ ~unrepaired' => (Physical(temps) \subseteq engine.view)'
    PROVE  IInv'
<1>1. /\ run'.kind = "none" /\ run'.outer = FALSE /\ run'.failed = FALSE /\ run'.stmt = "-"
      /\ run' \in Runs
  BY IdleRun
<1>2. /\ engine' \in Engine /\ durable' \in SUBSET Stored /\ Whole(durable')
      /\ \A i \in 1 .. Len(engine'.stack) : engine'.stack[i].id < nextId'
  BY DEF Settled, Sound
<1>3. Types'
  BY <1>1, <1>2 DEF Types
<1>4. RunOK'
  BY <1>1 DEF RunOK
<1>5. Working'
  BY <1>1 DEF Working, Settled, Whole
<1>6. ~lost' => Linked'
  BY <1>1 DEF Linked, Agree
<1>7. ~lost' /\ ~unrepaired' => Backed'
  BY <1>1 DEF Backed
<1>8. Whole(durable)'
  BY <1>2 DEF Whole, Pair
<1> QED  BY <1>3, <1>4, <1>5, <1>6, <1>7, <1>8 DEF IInv

(* A poisoned connection owes only its file and its registry. *)
LEMMA PoisonStep ==
    ASSUME IInv, run' = Idle, poisoned' = TRUE,
           engine' \in Engine, durable' \in SUBSET Stored, Whole(durable'),
           \A i \in 1 .. Len(engine'.stack) : engine'.stack[i].id < nextId',
           active' \in BOOLEAN,
           UNCHANGED <<autocommit, saves, nextId, done, lost, repairVars>>
    PROVE  IInv'
<1>1. /\ run'.kind = "none" /\ run'.outer = FALSE /\ run'.failed = FALSE /\ run'.stmt = "-"
      /\ run' \in Runs
  BY IdleRun
<1>2. Types'
  BY <1>1 DEF IInv, Types, repairVars
<1>3. RunOK'
  BY <1>1 DEF RunOK
<1>4. Registry'
  BY DEF IInv, Registry
<1>5. Whole(durable)'
  BY DEF Whole, Pair
<1> QED  BY <1>2, <1>3, <1>4, <1>5 DEF IInv

LEMMA EmptyRegistry ==
    ASSUME NEW n, NEW s, s = <<>>
    PROVE  /\ s \in Seq(Entry)
           /\ \A i \in 1 .. Len(s) : 0 < s[i].id /\ s[i].id < n
           /\ \A i, j \in 1 .. Len(s) : i < j => s[i].id < s[j].id /\ s[i].name # s[j].name
           /\ \A e : Listed(e, s)
BY SMT DEF Listed

(* The types of what a command between statements leaves alone or clears. *)
LEMMA ClearedTypes ==
    ASSUME IInv, saves' = saves \/ saves' = <<>>, nextId' = nextId
    PROVE  Registry' /\ saves' \in Seq(Entry) /\ nextId' \in 1 .. MaxSavepoints + 1
<1>1. CASE saves' = saves
  BY <1>1 DEF IInv, Types, Registry
<1>2. CASE saves' = <<>>
  BY <1>2, EmptyRegistry, SMT DEF IInv, Types, Registry
<1> QED  BY <1>1, <1>2

LEMMA NoneListed ==
    ASSUME NEW e, NEW a, NEW s, s = <<>>, ~e.bySavepoint, a <=> e.open
    PROVE  Agree(e, a, s)
BY EmptyRegistry DEF Agree

LEMMA ClosedBare ==
    ASSUME NEW e, NEW d, NEW n, Settled(e, d, n), ~e.open
    PROVE  ~e.bySavepoint /\ ~e.open
BY DEF Settled, Sound, Engine

(* A COMMIT that reports an error leaves everything as it was, or has      *)
(* ended the transaction.                                                  *)
LEMMA CommitUserShape ==
    ASSUME IInv, Accepts, NEW c \in CommitUser
    PROVE  /\ Settled(c.e, c.d, nextId)
           /\ ~c.ok => (c.e = engine /\ c.d = durable) \/ (engine.open /\ ~c.e.open)
           /\ c.ok => /\ c.e.view = engine.view
                      /\ ~active => c.e = engine /\ c.d = durable
                      /\ ~lost => ~c.e.open
<1>1. Settled(engine, durable, nextId) /\ (~lost => (active <=> engine.open))
  BY IdleFacts DEF Agree
<1>2. CASE active
  <2>1. c \in CommitOutcomes(engine, durable)
    BY <1>2 DEF CommitUser
  <2>2. Sound(engine, durable, nextId) /\ Whole(engine.view) /\ NoStatementMark(engine)
    BY <1>1 DEF Settled
  <2> QED  BY <1>1, <1>2, <2>1, <2>2, CommitShape, SMT
<1>3. CASE ~active
  <2>1. c = Outcome(TRUE, engine, durable)
    BY <1>3 DEF CommitUser, Skip
  <2>2. c.ok /\ c.e = engine /\ c.d = durable
    BY <2>1 DEF Outcome
  <2> QED  BY <1>1, <1>3, <2>2
<1> QED  BY <1>2, <1>3

(* A failed command either changed nothing or is recorded as the loss of   *)
(* the user transaction.                                                   *)
LEMMA FailsWithSafe ==
    ASSUME IInv, Accepts, NEW o, FailsWith(o), Settled(o.e, o.d, nextId),
           (o.e = engine /\ o.d = durable) \/ (engine.open /\ ~o.e.open),
           UNCHANGED <<nextId, poisoned, run, repairVars>>, autocommit' \in BOOLEAN,
           done' \subseteq Stmt, done \subseteq done'
    PROVE  IInv'
<1>1. /\ engine' = o.e /\ durable' = o.d /\ active' = active /\ saves' = saves
      /\ lost' = (lost \/ (active /\ engine.open /\ ~o.e.open))
      /\ nextId' = nextId /\ poisoned' = poisoned /\ run' = run
      /\ temps' = temps /\ unrepaired' = unrepaired
  BY DEF FailsWith, Becomes, repairVars
<1>2. /\ run = Idle /\ ~poisoned
      /\ ~lost => Agree(engine, active, saves)
      /\ ~lost /\ ~unrepaired => Physical(temps) \subseteq engine.view
  BY IdleFacts
<1>3. /\ active \in BOOLEAN /\ autocommit \in BOOLEAN /\ poisoned \in BOOLEAN
      /\ lost \in BOOLEAN /\ unrepaired \in BOOLEAN /\ temps \subseteq done
  BY DEF IInv, Types
<1>4. ~lost' => ~lost /\ engine' = engine
  BY <1>1, <1>2 DEF Agree
<1>5. lost' \in BOOLEAN /\ poisoned' = FALSE /\ run' = Idle /\ temps' \subseteq done'
  BY <1>1, <1>2, <1>3
<1>6. Registry' /\ saves' \in Seq(Entry) /\ nextId' \in 1 .. MaxSavepoints + 1
  BY <1>1, ClearedTypes
<1>7. ~lost' => Agree(engine', active', saves')
  BY <1>1, <1>2, <1>4
<1>8. ~lost' /\ ~unrepaired' => (Physical(temps) \subseteq engine.view)'
  BY <1>1, <1>2, <1>4 DEF Physical
<1> QED  BY <1>1, <1>3, <1>5, <1>6, <1>7, <1>8, IdleStep

(* A command that ends the user transaction, or finds none, and perhaps    *)
(* opens the next one.                                                     *)
LEMMA RestartStep ==
    ASSUME IInv, Accepts, Settled(engine', durable', nextId),
           UNCHANGED <<nextId, poisoned, run, temps, lost>>,
           done' \subseteq Stmt, done \subseteq done',
           active' \in BOOLEAN, autocommit' \in BOOLEAN, unrepaired' \in BOOLEAN,
           saves' = IF active THEN <<>> ELSE saves,
           ~lost => ~engine'.bySavepoint /\ (active' <=> engine'.open),
           ~lost /\ ~unrepaired' => Physical(temps) \subseteq engine'.view
    PROVE  IInv'
<1>1. run = Idle /\ ~poisoned /\ (~lost => Agree(engine, active, saves))
  BY IdleFacts
<1>2. /\ lost \in BOOLEAN /\ poisoned \in BOOLEAN /\ temps \subseteq done
  BY DEF IInv, Types
<1>3. lost' \in BOOLEAN /\ poisoned' = FALSE /\ run' = Idle /\ temps' \subseteq done'
  BY <1>1, <1>2
<1>4. Registry' /\ saves' \in Seq(Entry) /\ nextId' \in 1 .. MaxSavepoints + 1
  BY ClearedTypes
<1>5. ~lost' => Agree(engine', active', saves')
  <2> SUFFICES ASSUME ~lost PROVE Agree(engine', active', saves')
    OBVIOUS
  <2>1. saves' = <<>>
    BY <1>1 DEF Agree
  <2> QED  BY <2>1, NoneListed
<1>6. ~lost' /\ ~unrepaired' => (Physical(temps) \subseteq engine.view)'
  BY DEF Physical
<1> QED  BY <1>3, <1>4, <1>5, <1>6, IdleStep

LEMMA StartTransactionSafe == ASSUME IInv, StartTransaction PROVE IInv'
<1>1. PICK c \in CommitUser :
          IF ~c.ok
          THEN FailsWith(c)
          ELSE \E b \in BeginOutcomes(c.e, c.d) :
                  /\ Becomes(b)
                  /\ active' = b.ok
                  /\ saves' = IF active THEN <<>> ELSE saves
                  /\ UNCHANGED lost
  BY DEF StartTransaction
<1>2. /\ Accepts /\ UNCHANGED <<autocommit, nextId, poisoned, run, done, repairVars>>
      /\ temps' = temps /\ unrepaired' = unrepaired
      /\ done' \subseteq Stmt /\ done \subseteq done'
      /\ autocommit' \in BOOLEAN /\ unrepaired' \in BOOLEAN
  BY DEF StartTransaction, IInv, Types, repairVars
<1>3. CASE ~c.ok
  BY <1>1, <1>2, <1>3, CommitUserShape, FailsWithSafe
<1>4. CASE c.ok
  <2>1. PICK b \in BeginOutcomes(c.e, c.d) :
          /\ engine' = b.e /\ durable' = b.d /\ active' = b.ok
          /\ saves' = IF active THEN <<>> ELSE saves
          /\ UNCHANGED lost
    BY <1>1, <1>4 DEF Becomes
  <2>2. Settled(c.e, c.d, nextId) /\ c.e.view = engine.view /\ (~lost => ~c.e.open)
    BY <1>2, <1>4, CommitUserShape
  <2>3. /\ Settled(b.e, b.d, nextId) /\ b.e.view = engine.view /\ b.ok \in BOOLEAN
        /\ ~b.ok => b.e = c.e
        /\ b.ok => ~c.e.open /\ b.e.open /\ ~b.e.bySavepoint
    BY <2>2, BeginShape, SMT
  <2>4. ~lost => ~engine'.bySavepoint /\ (active' <=> engine'.open)
    BY <2>1, <2>2, <2>3, ClosedBare
  <2>5. ~lost /\ ~unrepaired' => Physical(temps) \subseteq engine'.view
    BY <1>2, <2>1, <2>3, IdleFacts
  <2> QED  BY <1>2, <2>1, <2>3, <2>4, <2>5, RestartStep
<1> QED  BY <1>3, <1>4

LEMMA CommitSafe == ASSUME IInv, NEW chain \in BOOLEAN, Commit(chain) PROVE IInv'
<1>1. PICK c \in CommitUser :
          IF ~c.ok
          THEN FailsWith(c)
          ELSE /\ saves' = IF active THEN <<>> ELSE saves
               /\ UNCHANGED lost
               /\ \E b \in IF chain THEN BeginOutcomes(c.e, c.d) ELSE Skip(c.e, c.d) :
                     Becomes(b) /\ active' = (chain /\ b.ok)
  BY DEF Commit
<1>2. /\ Accepts /\ UNCHANGED <<autocommit, nextId, poisoned, run, done, repairVars>>
      /\ temps' = temps /\ unrepaired' = unrepaired
      /\ done' \subseteq Stmt /\ done \subseteq done'
      /\ autocommit' \in BOOLEAN /\ unrepaired' \in BOOLEAN
  BY DEF Commit, IInv, Types, repairVars
<1>3. CASE ~c.ok
  BY <1>1, <1>2, <1>3, CommitUserShape, FailsWithSafe
<1>4. CASE c.ok
  <2>1. PICK b \in IF chain THEN BeginOutcomes(c.e, c.d) ELSE Skip(c.e, c.d) :
          engine' = b.e /\ durable' = b.d /\ active' = (chain /\ b.ok)
    BY <1>1, <1>4 DEF Becomes
  <2>2. saves' = (IF active THEN <<>> ELSE saves) /\ UNCHANGED lost
    BY <1>1, <1>4
  <2>3. Settled(c.e, c.d, nextId) /\ c.e.view = engine.view /\ (~lost => ~c.e.open)
    BY <1>2, <1>4, CommitUserShape
  <2>4. /\ Settled(b.e, b.d, nextId) /\ b.e.view = engine.view
        /\ ~(chain /\ b.ok) => b.e = c.e
        /\ chain /\ b.ok => b.e.open /\ ~b.e.bySavepoint
    <3>1. CASE chain
      BY <2>3, <3>1, BeginShape, SMT
    <3>2. CASE ~chain
      <4>1. b = Outcome(TRUE, c.e, c.d)
        BY <2>1, <3>2 DEF Skip
      <4>2. b.e = c.e /\ b.d = c.d
        BY <4>1 DEF Outcome
      <4> QED  BY <2>3, <3>2, <4>2
    <3> QED  BY <3>1, <3>2
  <2>5. active' \in BOOLEAN /\ (~lost => ~engine'.bySavepoint /\ (active' <=> engine'.open))
    BY <2>1, <2>3, <2>4, ClosedBare
  <2>6. ~lost /\ ~unrepaired' => Physical(temps) \subseteq engine'.view
    BY <1>2, <2>1, <2>4, IdleFacts
  <2> QED  BY <1>2, <2>1, <2>2, <2>4, <2>5, <2>6, RestartStep
<1> QED  BY <1>3, <1>4

(* The reconciliation leaves SQLite as it was, or in an empty transaction. *)
LEMMA ReconcileShape ==
    ASSUME NEW e, NEW d, NEW n, Settled(e, d, n), ~e.open, NEW h \in ReconcileOutcomes(e, d)
    PROVE  /\ h.d = d /\ e = ClosedEngine(d)
           /\ h.e = e \/ (~h.ok /\ h.e = [e EXCEPT !.open = TRUE])
<1> DEFINE f == [e EXCEPT !.open = TRUE]
<1>1. /\ e \in Engine /\ d \in SUBSET Stored /\ Whole(d)
      /\ e.view = d /\ e.stack = <<>> /\ e.bySavepoint = FALSE /\ e.open = FALSE
  BY DEF Settled, Sound, Engine
<1>2. e = ClosedEngine(d)
  BY <1>1, SMT DEF ClosedEngine, Engine
<1>3. f.open /\ f.view = d
  BY <1>1 DEF Engine
<1> HIDE DEF f
<1>4. h = Outcome(TRUE, e, d) \/ h = Outcome(FALSE, e, d) => h.d = d /\ h.e = e
  BY SMT DEF Outcome
<1>5. ASSUME NEW b \in BeginOutcomes(e, d),
             h \in IF b.ok
                   THEN UNION {IF c.ok THEN {c} ELSE Undone(c) : c \in CommitOutcomes(b.e, b.d)}
                   ELSE {b}
      PROVE  h.d = d /\ (h.e = e \/ (~h.ok /\ h.e = f))
  <2>1. CASE b = Outcome(FALSE, e, d)
    <3>1. ~b.ok
      BY <2>1 DEF Outcome
    <3>2. h = Outcome(FALSE, e, d)
      BY <1>5, <2>1, <3>1
    <3> QED  BY <1>4, <3>2
  <2>2. CASE b = Outcome(TRUE, f, d)
    <3>1. b.ok /\ b.e = f /\ b.d = d
      BY <2>2 DEF Outcome
    <3>2. PICK c \in CommitOutcomes(f, d) : h \in IF c.ok THEN {c} ELSE Undone(c)
      BY <1>5, <3>1
    <3>3. \/ c = Outcome(FALSE, f, d) \/ c = Outcome(TRUE, ClosedEngine(d), d)
          \/ c = Outcome(FALSE, ClosedEngine(d), d)
      BY <1>3, <3>2 DEF CommitOutcomes, Fails
    <3>4. c.d = d /\ (c.e = e \/ (~c.ok /\ c.e = f))
      BY <1>2, <3>3, SMT DEF Outcome
    <3>5. CASE c.ok
      BY <3>2, <3>4, <3>5
    <3>6. CASE ~c.ok
      <4>1. PICK x \in RollbackOutcomes(c.e, c.d) : h = [x EXCEPT !.ok = FALSE]
        BY <3>2, <3>6 DEF Undone
      <4>2. x = Outcome(FALSE, c.e, d) \/ x = Outcome(TRUE, ClosedEngine(d), d)
        BY <3>4, <4>1 DEF RollbackOutcomes, Fails
      <4>3. h.d = d /\ ~h.ok /\ (h.e = c.e \/ h.e = ClosedEngine(d))
        BY <4>1, <4>2, SMT DEF Outcome
      <4> QED  BY <1>2, <3>4, <4>3
    <3> QED  BY <3>5, <3>6
  <2>3. b = Outcome(FALSE, e, d) \/ b = Outcome(TRUE, f, d)
    BY DEF BeginOutcomes, Fails, f
  <2> QED  BY <2>1, <2>2, <2>3
<1>6. \/ h = Outcome(TRUE, e, d)
      \/ \E b \in BeginOutcomes(e, d) :
            h \in IF b.ok
                  THEN UNION {IF c.ok THEN {c} ELSE Undone(c) : c \in CommitOutcomes(b.e, b.d)}
                  ELSE {b}
  BY DEF ReconcileOutcomes, Skip
<1> QED  BY <1>2, <1>4, <1>5, <1>6 DEF f

(* After a ROLLBACK SQLite has no transaction but the one that AND CHAIN   *)
(* opened, or else it is stuck in that of the reconciliation.              *)
LEMMA RollbackSafe ==
    ASSUME IInv, stuck = FALSE, NEW chain \in BOOLEAN, Rollback(chain)
    PROVE  stuck' \in BOOLEAN /\ (stuck' => Adrift') /\ (~stuck' => IInv')
<1>1. PICK c \in IF active THEN RollbackOutcomes(engine, durable) ELSE Skip(engine, durable) :
          IF ~c.ok
          THEN FailsWith(c) /\ UNCHANGED <<unrepaired, stuck>>
          ELSE /\ saves' = IF active THEN <<>> ELSE saves
               /\ UNCHANGED lost
               /\ \E r \in IF active THEN RepairOutcomes(c.e, c.d) ELSE {c} :
                  \E h \in IF active /\ r.ok THEN ReconcileOutcomes(r.e, r.d) ELSE {r} :
                  \E b \in IF chain /\ h.ok THEN BeginOutcomes(h.e, h.d) ELSE {h} :
                     /\ Becomes(b) /\ active' = (chain /\ h.ok /\ b.ok)
                     /\ unrepaired' = IF active THEN ~r.ok ELSE unrepaired
                     /\ stuck' = (stuck \/ (active /\ h.e.open))
  BY DEF Rollback
<1>2. /\ Accepts /\ UNCHANGED <<autocommit, nextId, poisoned, run, done, temps>>
      /\ done' \subseteq Stmt /\ done \subseteq done'
      /\ autocommit' \in BOOLEAN /\ unrepaired \in BOOLEAN /\ lost \in BOOLEAN
      /\ poisoned \in BOOLEAN /\ nextId \in 1 .. MaxSavepoints + 1 /\ temps \subseteq done
  BY DEF Rollback, IInv, Types
<1>3. /\ Settled(engine, durable, nextId) /\ durable \in SUBSET Stored /\ Whole(durable)
      /\ temps \subseteq Stmt /\ run = Idle /\ ~poisoned
      /\ ~lost => (active <=> engine.open)
      /\ ~lost /\ ~unrepaired => Physical(temps) \subseteq engine.view
  BY <1>2, IdleFacts DEF Agree
<1>4. ~active => c.ok /\ c.e = engine /\ c.d = durable
  BY <1>1, SMT DEF Skip, Outcome
<1>5. CASE ~c.ok
  <2>1. c.e = engine /\ c.d = durable
    <3>1. CASE active
      <4>1. c \in RollbackOutcomes(engine, durable)
        BY <1>1, <3>1
      <4> QED  BY <1>3, <1>5, <4>1, RollbackShape, ZenonT(30)
    <3> QED  BY <1>4, <3>1
  <2>2. FailsWith(c) /\ UNCHANGED repairVars /\ stuck' = stuck
    BY <1>1, <1>2, <1>5 DEF repairVars
  <2>3. UNCHANGED <<nextId, poisoned, run, repairVars>> /\ Settled(c.e, c.d, nextId)
    BY <1>2, <1>3, <2>1, <2>2
  <2>4. IInv'
    BY <1>2, <2>1, <2>2, <2>3, FailsWithSafe
  <2> QED  BY <2>2, <2>4
<1>6. CASE c.ok
  <2>1. PICK r \in IF active THEN RepairOutcomes(c.e, c.d) ELSE {c} :
           \E h \in IF active /\ r.ok THEN ReconcileOutcomes(r.e, r.d) ELSE {r} :
           \E b \in IF chain /\ h.ok THEN BeginOutcomes(h.e, h.d) ELSE {h} :
              /\ Becomes(b) /\ active' = (chain /\ h.ok /\ b.ok)
              /\ unrepaired' = IF active THEN ~r.ok ELSE unrepaired
              /\ stuck' = (stuck \/ (active /\ h.e.open))
    BY <1>1, <1>6
  <2>2. PICK h \in IF active /\ r.ok THEN ReconcileOutcomes(r.e, r.d) ELSE {r} :
           \E b \in IF chain /\ h.ok THEN BeginOutcomes(h.e, h.d) ELSE {h} :
              /\ Becomes(b) /\ active' = (chain /\ h.ok /\ b.ok)
              /\ unrepaired' = IF active THEN ~r.ok ELSE unrepaired
              /\ stuck' = (stuck \/ (active /\ h.e.open))
    BY <2>1
  <2>3. PICK b \in IF chain /\ h.ok THEN BeginOutcomes(h.e, h.d) ELSE {h} :
              /\ engine' = b.e /\ durable' = b.d /\ active' = (chain /\ h.ok /\ b.ok)
              /\ unrepaired' = IF active THEN ~r.ok ELSE unrepaired
              /\ stuck' = (active /\ h.e.open)
    BY <2>2 DEF Becomes
  <2>4. saves' = (IF active THEN <<>> ELSE saves) /\ lost' = lost
    BY <1>1, <1>6
  <2>5. /\ Settled(r.e, r.d, nextId) /\ (active \/ ~lost => ~r.e.open)
        /\ ~lost /\ ~unrepaired' => Physical(temps) \subseteq r.e.view
    <3>1. CASE active
      <4>0. c \in RollbackOutcomes(engine, durable)
        BY <1>1, <3>1
      <4>1. c.d = durable /\ Settled(c.e, durable, nextId) /\ ~c.e.open
        BY <1>3, <1>6, <4>0, RollbackShape, SMT
      <4>2. /\ Settled(r.e, r.d, nextId) /\ ~r.e.open
            /\ r.ok => Physical(temps) \subseteq r.e.view
        BY <1>3, <3>1, <4>1, RepairShape, SMT
      <4> QED  BY <2>3, <3>1, <4>2
    <3>2. CASE ~active
      <4>1. r.e = engine /\ r.d = durable /\ unrepaired' = unrepaired
        BY <1>4, <2>3, <3>2
      <4> QED  BY <1>3, <3>2, <4>1
    <3> QED  BY <3>1, <3>2
  <2>6. /\ h.d = r.d
        /\ \/ h.e = r.e
           \/ active /\ ~h.ok /\ h.e = [ClosedEngine(r.d) EXCEPT !.open = TRUE]
        /\ active => r.e = ClosedEngine(r.d) \/ h.e = r.e
    <3>1. CASE active /\ r.ok
      <4>1. h \in ReconcileOutcomes(r.e, r.d) /\ ~r.e.open
        BY <2>2, <2>5, <3>1
      <4>2. /\ h.d = r.d /\ r.e = ClosedEngine(r.d)
            /\ h.e = r.e \/ (~h.ok /\ h.e = [r.e EXCEPT !.open = TRUE])
        BY <2>5, <4>1, ReconcileShape, SMT
      <4> QED  BY <3>1, <4>2
    <3>2. CASE ~(active /\ r.ok)
      BY <2>2, <3>2
    <3> QED  BY <3>1, <3>2
  <2>7. CASE stuck'
    <3>1. active /\ h.e.open /\ ~h.ok /\ h.e = [ClosedEngine(r.d) EXCEPT !.open = TRUE]
      BY <2>3, <2>5, <2>6, <2>7
    <3>2. b = h
      BY <2>3, <3>1
    <3>3. /\ engine' = [ClosedEngine(durable') EXCEPT !.open = TRUE] /\ durable' = r.d
          /\ active' = FALSE /\ saves' = <<>> /\ lost' = lost /\ stuck' \in BOOLEAN
      BY <2>3, <2>4, <2>6, <3>1, <3>2
    <3>4. /\ r.d \in SUBSET Stored /\ Whole(r.d) /\ r.e.view = r.d
      BY <2>5, <3>1 DEF Settled, Sound
    <3>5. ~lost' /\ ~unrepaired' => (Physical(temps) \subseteq durable)'
      BY <1>2, <2>5, <3>3, <3>4 DEF Physical
    <3>6. unrepaired' \in BOOLEAN /\ run' = Idle /\ poisoned' = FALSE /\ lost' \in BOOLEAN
      BY <1>2, <1>3, <2>3, <2>4, <3>1
    <3>7. Whole(durable)' /\ (durable \in SUBSET Stored)' /\ (temps \subseteq done)'
      BY <1>2, <3>3, <3>4 DEF Whole, Pair, Stored
    <3>8. Adrift'
      BY <1>2, <3>3, <3>5, <3>6, <3>7 DEF Adrift
    <3> QED  BY <2>7, <3>3, <3>8
  <2>8. CASE ~stuck'
    <3>1. h.e = r.e
      <4>1. \A x : [ClosedEngine(x) EXCEPT !.open = TRUE].open
        BY DEF ClosedEngine
      <4> QED  BY <2>3, <2>6, <2>8, <4>1
    <3>2. /\ Settled(b.e, b.d, nextId) /\ b.e.view = r.e.view
          /\ ~(chain /\ h.ok /\ b.ok) => b.e = r.e
          /\ chain /\ h.ok /\ b.ok => b.e.open /\ ~b.e.bySavepoint
      <4>1. CASE chain /\ h.ok
        <5>1. b \in BeginOutcomes(r.e, r.d)
          BY <2>3, <2>6, <3>1, <4>1
        <5> QED  BY <2>5, <4>1, <5>1, BeginShape, SMT
      <4>2. CASE ~(chain /\ h.ok)
        BY <2>3, <2>5, <2>6, <3>1, <4>2
      <4> QED  BY <4>1, <4>2
    <3>3. active' \in BOOLEAN /\ (~lost => ~engine'.bySavepoint /\ (active' <=> engine'.open))
      BY <2>3, <2>5, <3>2, ClosedBare
    <3>4. /\ unrepaired' \in BOOLEAN
          /\ ~lost /\ ~unrepaired' => Physical(temps) \subseteq engine'.view
      BY <1>2, <2>3, <2>5, <3>2
    <3>5. IInv'
      BY <1>2, <2>3, <2>4, <3>2, <3>3, <3>4, RestartStep
    <3>6. stuck' \in BOOLEAN
      BY <2>3, <2>8
    <3> QED  BY <2>8, <3>5, <3>6
  <2>9. stuck' \in BOOLEAN
    <3>1. h.e.open \in BOOLEAN
      <4>1. r.e.open \in BOOLEAN
        BY <2>5, EngineFields DEF Settled, Sound
      <4>2. \A x : [ClosedEngine(x) EXCEPT !.open = TRUE].open \in BOOLEAN
        BY DEF ClosedEngine
      <4> QED  BY <2>6, <4>1, <4>2
    <3> QED  BY <2>3, <3>1
  <2> QED  BY <2>7, <2>8, <2>9
<1> QED  BY <1>5, <1>6

LEMMA SetAutocommitSafe == ASSUME IInv, NEW value \in BOOLEAN, SetAutocommit(value) PROVE IInv'
<1>1. PICK c \in IF value /\ ~autocommit THEN CommitUser ELSE Skip(engine, durable) :
          IF ~c.ok
          THEN FailsWith(c) /\ UNCHANGED autocommit
          ELSE /\ Becomes(c) /\ autocommit' = value
               /\ IF value /\ ~autocommit /\ active
                  THEN active' = FALSE /\ saves' = <<>>
                  ELSE UNCHANGED <<active, saves>>
               /\ UNCHANGED lost
  BY DEF SetAutocommit
<1>2. /\ Accepts /\ UNCHANGED <<nextId, poisoned, run, done, repairVars>>
      /\ temps' = temps /\ unrepaired' = unrepaired /\ unrepaired' \in BOOLEAN
      /\ done' \subseteq Stmt /\ done \subseteq done'
      /\ autocommit \in BOOLEAN /\ active \in BOOLEAN /\ lost \in BOOLEAN
  BY DEF SetAutocommit, IInv, Types, repairVars
<1>3. CASE ~(value /\ ~autocommit)
  <2>1. c.ok /\ c.e = engine /\ c.d = durable
    BY <1>1, <1>3, SMT DEF Skip, Outcome
  <2>2. /\ Becomes(c) /\ UNCHANGED <<active, saves>> /\ autocommit' \in BOOLEAN
        /\ lost' = lost
    BY <1>1, <1>3, <2>1
  <2>3. FailsWith(c)
    BY <1>2, <2>1, <2>2 DEF FailsWith
  <2> QED  BY <1>2, <2>1, <2>2, <2>3, IdleFacts, FailsWithSafe
<1>4. CASE value /\ ~autocommit
  <2>1. c \in CommitUser
    BY <1>1, <1>4
  <2>2. CASE ~c.ok
    <3>1. FailsWith(c) /\ autocommit' \in BOOLEAN
      BY <1>1, <1>2, <2>2
    <3> QED  BY <1>2, <2>1, <2>2, <3>1, CommitUserShape, FailsWithSafe
  <2>3. CASE c.ok
    <3>1. /\ engine' = c.e /\ durable' = c.d /\ autocommit' \in BOOLEAN /\ UNCHANGED lost
          /\ active' = FALSE /\ saves' = IF active THEN <<>> ELSE saves
      BY <1>1, <1>2, <1>4, <2>3 DEF Becomes
    <3>2. Settled(c.e, c.d, nextId) /\ c.e.view = engine.view /\ (~lost => ~c.e.open)
      BY <1>2, <2>1, <2>3, CommitUserShape
    <3>3. active' \in BOOLEAN /\ (~lost => ~engine'.bySavepoint /\ (active' <=> engine'.open))
      BY <3>1, <3>2, ClosedBare
    <3>4. ~lost /\ ~unrepaired' => Physical(temps) \subseteq engine'.view
      BY <1>2, <3>1, <3>2, IdleFacts
    <3> QED  BY <1>2, <3>1, <3>2, <3>3, <3>4, RestartStep
  <2> QED  BY <2>2, <2>3
<1> QED  BY <1>3, <1>4

LEMMA EntryFields ==
    ASSUME IInv
    PROVE  /\ saves \in Seq(Entry) /\ Len(saves) \in Nat
           /\ \A i \in 1 .. Len(saves) : /\ saves[i] \in Entry
                                         /\ saves[i].id \in Nat /\ 0 < saves[i].id
                                         /\ saves[i].id < nextId
<1>1. saves \in Seq(Entry)
  BY DEF IInv, Types
<1>2. Len(saves) \in Nat /\ \A i \in 1 .. Len(saves) : saves[i] \in Entry
  BY <1>1, SMT
<1>3. \A i \in 1 .. Len(saves) : saves[i].id \in Nat
  BY <1>2 DEF Entry
<1> QED  BY <1>1, <1>2, <1>3 DEF IInv, Registry

(* Removing one entry keeps the order of the others. *)
LEMMA OthersShape ==
    ASSUME IInv, NEW n \in Name, NEW s, s = Others(n)
    PROVE  /\ s \in Seq(Entry) /\ Len(s) \in Nat
           /\ \A i \in 1 .. Len(s) :
                 s[i].name # n /\ \E k \in 1 .. Len(saves) : s[i] = saves[k]
           /\ \A i, j \in 1 .. Len(s) : i < j => s[i].id < s[j].id /\ s[i].name # s[j].name
<1>1. /\ saves \in Seq(Entry) /\ Len(saves) \in Nat
      /\ \A i \in 1 .. Len(saves) : saves[i] \in Entry
      /\ \A i, j \in 1 .. Len(saves) :
            i < j => saves[i].id < saves[j].id /\ saves[i].name # saves[j].name
  BY EntryFields DEF IInv, Registry
<1>2. CASE Found(n) = {}
  <2>1. s = saves
    BY <1>2 DEF Others
  <2>2. \A i \in 1 .. Len(saves) : saves[i].name # n
    BY <1>2 DEF Found
  <2> QED  BY <1>1, <2>1, <2>2
<1>3. CASE Found(n) # {}
  <2> DEFINE m == CHOOSE i \in Found(n) : TRUE
             L == Len(saves) - 1
  <2>1. m \in 1 .. Len(saves) /\ saves[m].name = n
    BY <1>3 DEF Found
  <2>2. s = RemovedAt(m)
    BY <1>3 DEF Others
  <2> HIDE DEF m
  <2>3. L \in Nat
    BY <1>1, <2>1, SMT
  <2>4. s = [j \in 1 .. L |-> saves[IF j < m THEN j ELSE j + 1]]
    BY <2>2 DEF RemovedAt
  <2>5. \A j \in 1 .. L : s[j] = saves[IF j < m THEN j ELSE j + 1]
    BY <2>4
  <2>6. \A j \in 1 .. L : /\ j < m => j \in 1 .. Len(saves) /\ s[j] = saves[j]
                          /\ ~(j < m) => j + 1 \in 1 .. Len(saves) /\ s[j] = saves[j + 1]
    BY <1>1, <2>1, <2>3, <2>5, SMT
  <2>7. \A j \in 1 .. L : s[j] \in Entry
    BY <1>1, <2>6, SMT
  <2>8. s \in Seq(Entry) /\ Len(s) = L
    BY <2>3, <2>4, <2>7, SMT
  <2>9. ASSUME NEW i \in 1 .. L
        PROVE  s[i].name # n /\ \E k \in 1 .. Len(saves) : s[i] = saves[k]
    <3>1. CASE i < m
      BY <1>1, <2>1, <2>6, <3>1, SMT
    <3>2. CASE ~(i < m)
      <4>1. m < i + 1
        BY <2>1, <2>3, <3>2, SMT
      <4> QED  BY <1>1, <2>1, <2>6, <3>2, <4>1, SMT
    <3> QED  BY <3>1, <3>2
  <2>10. \A i, j \in 1 .. L : i < j => s[i].id < s[j].id /\ s[i].name # s[j].name
    <3> SUFFICES ASSUME NEW i \in 1 .. L, NEW j \in 1 .. L, i < j
                 PROVE  s[i].id < s[j].id /\ s[i].name # s[j].name
      OBVIOUS
    <3>1. i \in Nat /\ j \in Nat /\ m \in Nat
      BY <2>1, <2>3, SMT
    <3>2. CASE j < m
      <4>1. i < m
        BY <3>1, <3>2, SMT
      <4>2. /\ i \in 1 .. Len(saves) /\ s[i] = saves[i]
            /\ j \in 1 .. Len(saves) /\ s[j] = saves[j]
        BY <2>6, <3>2, <4>1
      <4>3. saves[i].id < saves[j].id /\ saves[i].name # saves[j].name
        BY <1>1, <4>2
      <4> QED  BY <4>2, <4>3
    <3>3. CASE i < m /\ ~(j < m)
      <4>1. i < j + 1
        BY <3>1, SMT
      <4> QED  BY <1>1, <2>6, <3>3, <4>1, SMT
    <3>4. CASE ~(i < m)
      <4>1. i + 1 < j + 1 /\ ~(j < m)
        BY <3>1, <3>4, SMT
      <4> QED  BY <1>1, <2>6, <3>4, <4>1, SMT
    <3> QED  BY <3>1, <3>2, <3>3, <3>4
  <2> QED  BY <2>3, <2>8, <2>9, <2>10
<1> QED  BY <1>2, <1>3

LEMMA SavepointSafe == ASSUME IInv, NEW n \in Name, Savepoint(n) PROVE IInv'
<1>1. PICK o \in OpenIfNeeded :
          IF ~o.ok
          THEN Becomes(o) /\ UNCHANGED <<active, saves, nextId>>
          ELSE /\ active' = TRUE
               /\ \E v \in SavepointOutcomes(o.e, o.d, nextId) :
                     /\ Becomes(v)
                     /\ nextId' = IF v.ok THEN nextId + 1 ELSE nextId
                     /\ saves' = IF v.ok
                                 THEN Append(Others(n), [name |-> n, id |-> nextId])
                                 ELSE saves
  BY DEF Savepoint
<1>2. /\ Accepts /\ nextId <= MaxSavepoints /\ ~(autocommit /\ ~active)
      /\ UNCHANGED <<autocommit, poisoned, run, done, lost, repairVars>>
      /\ autocommit' = autocommit /\ run' = run /\ poisoned' = poisoned
      /\ done' = done /\ lost' = lost /\ temps' = temps /\ unrepaired' = unrepaired
  BY DEF Savepoint, repairVars
<1>3. /\ active \in BOOLEAN /\ autocommit \in BOOLEAN /\ lost \in BOOLEAN /\ unrepaired \in BOOLEAN
      /\ poisoned \in BOOLEAN /\ done \subseteq Stmt /\ temps \subseteq done
      /\ saves \in Seq(Entry) /\ nextId \in 1 .. MaxSavepoints + 1
      /\ MaxSavepoints \in Nat
  BY SessionTransactionAssumption DEF IInv, Types
<1>4. /\ run = Idle /\ ~poisoned /\ Settled(engine, durable, nextId)
      /\ ~lost => Agree(engine, active, saves)
      /\ ~lost /\ ~unrepaired => Physical(temps) \subseteq engine.view
  BY <1>2, IdleFacts
<1>5. /\ Settled(o.e, o.d, nextId) /\ o.e.view = engine.view
      /\ ~o.ok => o.e = engine /\ o.d = durable
      /\ o.ok /\ ~lost => Agree(o.e, TRUE, saves)
  <2>1. CASE active
    <3>1. o = Outcome(TRUE, engine, durable)
      BY <2>1 DEF OpenIfNeeded, Skip
    <3>2. o.ok /\ o.e = engine /\ o.d = durable
      BY <3>1 DEF Outcome
    <3> QED  BY <1>4, <2>1, <3>2 DEF Agree
  <2>2. CASE ~active
    <3>1. o \in BeginOutcomes(engine, durable)
      BY <1>2, <1>3, <2>2 DEF OpenIfNeeded
    <3>2. /\ Settled(o.e, o.d, nextId) /\ o.d = durable /\ o.e.view = engine.view
          /\ ~o.ok => o.e = engine
          /\ o.ok => o.e.open /\ ~o.e.bySavepoint
      BY <1>4, <3>1, BeginShape, SMT
    <3>3. ~lost => saves = <<>>
      BY <1>4, <2>2 DEF Agree
    <3> QED  BY <3>2, <3>3, NoneListed
  <2> QED  BY <2>1, <2>2
<1>6. CASE ~o.ok
  <2>1. Becomes(o) /\ UNCHANGED <<active, saves, nextId>>
    BY <1>1, <1>6
  <2>2. FailsWith(o)
    BY <1>2, <1>3, <1>5, <1>6, <2>1 DEF FailsWith
  <2> QED  BY <1>2, <1>3, <1>5, <1>6, <2>1, <2>2, FailsWithSafe
<1>7. CASE o.ok
  <2>1. PICK v \in SavepointOutcomes(o.e, o.d, nextId) :
          /\ engine' = v.e /\ durable' = v.d
          /\ nextId' = IF v.ok THEN nextId + 1 ELSE nextId
          /\ saves' = IF v.ok
                      THEN Append(Others(n), [name |-> n, id |-> nextId])
                      ELSE saves
    BY <1>1, <1>7 DEF Becomes
  <2>2. active' = TRUE
    BY <1>1, <1>7
  <2>3. nextId \in Nat /\ nextId > 0 /\ nextId + 1 \in 1 .. MaxSavepoints + 1
    BY <1>2, <1>3, SMT
  <2>4. /\ v.d = o.d
        /\ ~v.ok => v.e = o.e
        /\ v.ok => /\ v.e.open /\ v.e.view = o.e.view
                   /\ o.e.open /\ ~o.e.bySavepoint => ~v.e.bySavepoint
                   /\ Pushed(v.e, o.e, nextId)
                   /\ Settled(v.e, o.d, nextId + 1)
    BY <1>5, <2>3, SavepointShape, SMT
  <2>5. /\ run' = Idle /\ poisoned' = FALSE /\ active' \in BOOLEAN /\ autocommit' \in BOOLEAN
        /\ lost' \in BOOLEAN /\ unrepaired' \in BOOLEAN /\ done' \subseteq Stmt /\ temps' \subseteq done'
    BY <1>2, <1>3, <1>4, <2>2
  <2>6. CASE ~v.ok
    <3>1. engine' = o.e /\ durable' = o.d /\ nextId' = nextId /\ saves' = saves
      BY <2>1, <2>4, <2>6
    <3>2. Registry' /\ saves' \in Seq(Entry) /\ nextId' \in 1 .. MaxSavepoints + 1
      BY <3>1, ClearedTypes
    <3>3. ~lost' => Agree(engine', active', saves')
      BY <1>2, <1>5, <1>7, <2>2, <3>1, SMT DEF Agree
    <3>4. ~lost' /\ ~unrepaired' => (Physical(temps) \subseteq engine.view)'
      BY <1>2, <1>4, <1>5, <3>1, SMT DEF Physical
    <3>5. Settled(engine', durable', nextId')
      BY <1>5, <3>1
    <3> QED  BY <2>5, <3>2, <3>3, <3>4, <3>5, IdleStep
  <2>7. CASE v.ok
    <3> DEFINE s == Others(n)
               x == [name |-> n, id |-> nextId]
    <3>1. /\ s \in Seq(Entry) /\ Len(s) \in Nat
          /\ \A i \in 1 .. Len(s) :
                s[i].name # n /\ \E k \in 1 .. Len(saves) : s[i] = saves[k]
          /\ \A i, j \in 1 .. Len(s) : i < j => s[i].id < s[j].id /\ s[i].name # s[j].name
      BY OthersShape
    <3>2. x \in Entry /\ x.name = n /\ x.id = nextId
      BY <2>3 DEF Entry
    <3>3. engine' = v.e /\ durable' = o.d /\ nextId' = nextId + 1 /\ saves' = Append(s, x)
      BY <2>1, <2>4, <2>7
    <3> HIDE DEF s, x
    <3>4. /\ saves' \in Seq(Entry) /\ Len(saves') = Len(s) + 1
          /\ \A i \in 1 .. Len(s) : saves'[i] = s[i]
          /\ saves'[Len(s) + 1] = x
      BY <3>1, <3>2, <3>3, SMT
    <3>5. \A i \in 1 .. Len(s) : s[i].id \in Nat /\ 0 < s[i].id /\ s[i].id < nextId
      <4>1. \A k \in 1 .. Len(saves) : saves[k].id \in Nat /\ 0 < saves[k].id /\ saves[k].id < nextId
        BY EntryFields
      <4> QED  BY <3>1, <4>1
    <3>6. \A i \in 1 .. Len(saves') : 0 < saves'[i].id /\ saves'[i].id < nextId'
      BY <2>3, <3>1, <3>2, <3>3, <3>4, <3>5, SMT
    <3>7. \A i, j \in 1 .. Len(saves') :
             i < j => saves'[i].id < saves'[j].id /\ saves'[i].name # saves'[j].name
      <4> SUFFICES ASSUME NEW i \in 1 .. Len(saves'), NEW j \in 1 .. Len(saves'), i < j
                   PROVE  saves'[i].id < saves'[j].id /\ saves'[i].name # saves'[j].name
        OBVIOUS
      <4>1. i \in 1 .. Len(s) /\ saves'[i] = s[i]
        BY <3>1, <3>4, SMT
      <4>2. CASE j \in 1 .. Len(s)
        BY <3>1, <3>4, <4>1, <4>2
      <4>3. CASE j = Len(s) + 1
        <5>1. saves'[j].id = nextId /\ saves'[j].name = n
          BY <3>2, <3>4, <4>3
        <5>2. s[i].id \in Nat /\ s[i].id < nextId /\ s[i].name # n
          BY <3>1, <3>5, <4>1
        <5> QED  BY <4>1, <5>1, <5>2
      <4>4. j \in 1 .. Len(s) \/ j = Len(s) + 1
        BY <3>1, <3>4, SMT
      <4> QED  BY <4>2, <4>3, <4>4
    <3>8. Registry'
      BY <3>6, <3>7 DEF Registry
    <3>9. ~lost' => Agree(engine', active', saves')
      <4> SUFFICES ASSUME ~lost PROVE Agree(engine', active', saves')
        BY <1>2, SMT
      <4>1. o.e.open /\ ~o.e.bySavepoint /\ Listed(o.e, saves) /\ Len(o.e.stack) \in Nat
        <5>1. o.e \in Engine
          BY <1>5 DEF Settled, Sound
        <5> QED  BY <1>5, <1>7, <5>1, EngineFields DEF Agree
      <4>2. \A i \in 1 .. Len(saves') : \E k \in 1 .. Len(v.e.stack) : v.e.stack[k].id = saves'[i].id
        <5> SUFFICES ASSUME NEW i \in 1 .. Len(saves')
                     PROVE  \E k \in 1 .. Len(v.e.stack) : v.e.stack[k].id = saves'[i].id
          OBVIOUS
        <5>1. CASE i \in 1 .. Len(s)
          <6>1. PICK k \in 1 .. Len(saves) : saves'[i] = saves[k]
            <7>1. PICK k \in 1 .. Len(saves) : s[i] = saves[k]
              BY <3>1, <5>1
            <7>2. saves'[i] = s[i]
              BY <3>4, <5>1
            <7> QED  BY <7>1, <7>2
          <6>2. PICK l \in 1 .. Len(o.e.stack) : o.e.stack[l].id = saves[k].id
            BY <4>1 DEF Listed
          <6>3. l \in 1 .. Len(v.e.stack) /\ v.e.stack[l] = o.e.stack[l]
            <7>1. Pushed(v.e, o.e, nextId)
              BY <2>4, <2>7
            <7>2. Len(v.e.stack) = Len(o.e.stack) + 1 /\ v.e.stack[l] = o.e.stack[l]
              BY <7>1 DEF Pushed
            <7> QED  BY <4>1, <7>2, SMT
          <6> QED  BY <6>1, <6>2, <6>3
        <5>2. CASE i = Len(s) + 1
          <6>1. /\ Len(o.e.stack) + 1 \in 1 .. Len(v.e.stack)
                /\ v.e.stack[Len(o.e.stack) + 1].id = nextId
            <7>1. Pushed(v.e, o.e, nextId)
              BY <2>4, <2>7
            <7> QED  BY <4>1, <7>1, SMT DEF Pushed
          <6> QED  BY <3>2, <3>4, <5>2, <6>1
        <5> QED  BY <3>1, <3>4, <5>1, <5>2, SMT
      <4> QED  BY <2>2, <2>4, <2>7, <3>3, <4>1, <4>2 DEF Agree, Listed
    <3>10. ~lost' /\ ~unrepaired' => (Physical(temps) \subseteq engine.view)'
      BY <1>2, <1>4, <1>5, <2>4, <2>7, <3>3, SMT DEF Physical
    <3>11. Settled(engine', durable', nextId') /\ nextId' \in 1 .. MaxSavepoints + 1
      BY <2>3, <2>4, <2>7, <3>3
    <3> QED  BY <2>5, <3>4, <3>8, <3>9, <3>10, <3>11, IdleStep
  <2> QED  BY <2>6, <2>7
<1> QED  BY <1>6, <1>7

LEMMA CutRegistry ==
    ASSUME IInv, NEW m \in 0 .. Len(saves), saves' = SubSeq(saves, 1, m), nextId' = nextId
    PROVE  /\ Registry' /\ saves' \in Seq(Entry) /\ Len(saves') = m
           /\ \A j \in 1 .. m : j \in 1 .. Len(saves) /\ saves'[j] = saves[j]
<1>1. saves \in Seq(Entry) /\ Len(saves) \in Nat
  BY EntryFields
<1>2. /\ saves' \in Seq(Entry) /\ Len(saves') = m
      /\ \A j \in 1 .. m : j \in 1 .. Len(saves) /\ saves'[j] = saves[j]
  BY <1>1, SMT
<1>3. Registry'
  BY <1>2, SMT DEF IInv, Registry
<1> QED  BY <1>2, <1>3

(* The savepoint id is found at or below the place k of e; below it. *)
UpTo(e, k, id) == \E l \in 1 .. k : e.stack[l].id = id
Under(e, k, id) == \E l \in 1 .. Len(e.stack) : l < k /\ e.stack[l].id = id

(* The savepoints listed before one lie below it on SQLite's stack. *)
LEMMA CutListed ==
    ASSUME IInv, NEW e, NEW d, NEW n, Settled(e, d, n), Listed(e, saves),
           NEW i \in 1 .. Len(saves), NEW k \in 1 .. Len(e.stack), e.stack[k].id = saves[i].id,
           NEW j \in 1 .. Len(saves)
    PROVE  /\ j <= i => UpTo(e, k, saves[j].id)
           /\ j < i => Under(e, k, saves[j].id)
<1>1. PICK l \in 1 .. Len(e.stack) : e.stack[l].id = saves[j].id
  BY DEF Listed
<1>2. /\ Len(e.stack) \in Nat /\ e.stack[l].id \in Nat /\ e.stack[k].id \in Nat
      /\ e.stack[l].id # 0 /\ e.stack[k].id # 0
      /\ k < l => e.stack[k].id < e.stack[l].id \/ e.stack[l].id = 0
  <2>1. e \in Engine
    BY DEF Settled, Sound
  <2> QED  BY <2>1, EngineFields DEF Settled, Sound, NoStatementMark
<1>3. i \in Nat /\ j \in Nat /\ Len(saves) \in Nat
  BY EntryFields, SMT
<1>4. CASE j < i
  <2>1. e.stack[l].id < e.stack[k].id
    BY <1>1, <1>4 DEF IInv, Registry
  <2>2. ~(k < l) /\ k # l
    BY <1>2, <2>1, SMT
  <2>3. l < k /\ l \in 1 .. k
    BY <1>2, <2>2, SMT
  <2> QED  BY <1>1, <2>3 DEF UpTo, Under
<1>5. CASE j = i
  BY <1>2, <1>3, <1>5, SMT DEF UpTo
<1> QED  BY <1>3, <1>4, <1>5, SMT

LEMMA RollbackToSafe == ASSUME IInv, NEW n \in Name, RollbackTo(n) PROVE IInv'
<1>1. PICK i \in Found(n) : \E c \in RollbackToOutcomes(engine, durable, saves[i].id) :
          /\ saves' = IF c.ok THEN SubSeq(saves, 1, i) ELSE saves
          /\ \E r \in IF c.ok THEN RepairOutcomes(c.e, c.d) ELSE {c} :
                /\ Becomes(r)
                /\ lost' = (lost \/ (c.e.open /\ ~r.e.open))
                /\ unrepaired' = IF c.ok THEN ~r.ok ELSE unrepaired
  BY DEF RollbackTo
<1>2. PICK c \in RollbackToOutcomes(engine, durable, saves[i].id) :
          /\ saves' = IF c.ok THEN SubSeq(saves, 1, i) ELSE saves
          /\ \E r \in IF c.ok THEN RepairOutcomes(c.e, c.d) ELSE {c} :
                /\ Becomes(r)
                /\ lost' = (lost \/ (c.e.open /\ ~r.e.open))
                /\ unrepaired' = IF c.ok THEN ~r.ok ELSE unrepaired
  BY <1>1
<1>3. PICK r \in IF c.ok THEN RepairOutcomes(c.e, c.d) ELSE {c} :
                /\ engine' = r.e /\ durable' = r.d
                /\ lost' = (lost \/ (c.e.open /\ ~r.e.open))
                /\ unrepaired' = IF c.ok THEN ~r.ok ELSE unrepaired
  BY <1>2 DEF Becomes
<1>4. /\ Accepts /\ active /\ active' = active /\ autocommit' = autocommit /\ nextId' = nextId
      /\ poisoned' = poisoned /\ run' = run /\ done' = done /\ temps' = temps /\ stuck' = stuck
  BY DEF RollbackTo
<1>5. /\ active \in BOOLEAN /\ autocommit \in BOOLEAN /\ lost \in BOOLEAN /\ unrepaired \in BOOLEAN
      /\ poisoned \in BOOLEAN /\ done \subseteq Stmt /\ temps \subseteq done
      /\ nextId \in 1 .. MaxSavepoints + 1
  BY DEF IInv, Types
<1>6. /\ run = Idle /\ ~poisoned /\ Settled(engine, durable, nextId)
      /\ ~lost => Agree(engine, active, saves)
      /\ ~lost /\ ~unrepaired => Physical(temps) \subseteq engine.view
      /\ temps \subseteq Stmt
  BY <1>4, IdleFacts
<1>7. i \in 1 .. Len(saves) /\ Sound(engine, durable, nextId) /\ NoStatementMark(engine)
  BY <1>6 DEF Found, Settled
<1>8. CASE ~c.ok
  <2>1. c.e = engine /\ c.d = durable
    BY <1>7, <1>8, RollbackToShape, SMT
  <2>2. /\ engine' = engine /\ durable' = durable /\ lost' = lost
        /\ saves' = saves /\ unrepaired' = unrepaired
    BY <1>2, <1>3, <1>5, <1>8, <2>1
  <2>3. FailsWith(c)
    BY <1>4, <1>5, <2>1, <2>2 DEF FailsWith, Becomes
  <2>4. UNCHANGED <<nextId, poisoned, run, repairVars>> /\ autocommit' \in BOOLEAN
    BY <1>4, <1>5, <2>2 DEF repairVars
  <2> QED  BY <1>4, <1>5, <1>6, <2>1, <2>3, <2>4, FailsWithSafe
<1>9. CASE c.ok
  <2>1. /\ c.d = durable /\ engine.open /\ c.e.open /\ c.e.bySavepoint = engine.bySavepoint
        /\ Sound(c.e, durable, nextId) /\ NoStatementMark(c.e)
        /\ \E k \in 1 .. Len(engine.stack) : engine.stack[k].id = saves[i].id /\ At(c.e, engine, k)
    <3>1. c.d = durable /\ Returned(c.e, engine, durable, nextId, saves[i].id)
      BY <1>7, <1>9, RollbackToShape, SMT
    <3> QED  BY <1>7, <3>1 DEF Returned
  <2>2. PICK k \in 1 .. Len(engine.stack) : engine.stack[k].id = saves[i].id /\ At(c.e, engine, k)
    BY <2>1
  <2>3. Settled(c.e, c.d, nextId)
    BY <1>7, <2>1, <2>2 DEF Settled, Sound, At
  <2>4. /\ Settled(r.e, r.d, nextId)
        /\ \/ /\ r.e.open = c.e.open /\ r.e.bySavepoint = c.e.bySavepoint /\ r.e.stack = c.e.stack
              /\ r.ok => Physical(temps) \subseteq r.e.view
           \/ ~r.ok /\ c.e.open /\ ~r.e.open
    BY <1>3, <1>6, <1>9, <2>3, RepairShape
  <2>5. i \in 0 .. Len(saves) /\ saves' = SubSeq(saves, 1, i)
    BY <1>2, <1>7, <1>9, SMT
  <2>6. /\ Registry' /\ saves' \in Seq(Entry) /\ Len(saves') = i
        /\ \A j \in 1 .. i : j \in 1 .. Len(saves) /\ saves'[j] = saves[j]
    BY <1>4, <2>5, CutRegistry
  <2>7. ~lost' => Agree(engine', active', saves')
    <3> SUFFICES ASSUME ~lost' PROVE Agree(engine', active', saves')
      OBVIOUS
    <3>1. ~lost /\ r.e.open /\ r.e.bySavepoint = c.e.bySavepoint /\ r.e.stack = c.e.stack
      BY <1>3, <2>1, <2>4
    <3>2. ~engine.bySavepoint /\ Listed(engine, saves)
      BY <1>6, <2>1, <3>1 DEF Agree
    <3>3. ASSUME NEW j \in 1 .. i PROVE \E l \in 1 .. k : c.e.stack[l].id = saves[j].id
      <4>1. j \in 1 .. Len(saves) /\ j <= i
        BY <2>6, SMT
      <4>2. UpTo(engine, k, saves[j].id)
        BY <1>6, <1>7, <2>2, <3>2, <4>1, CutListed
      <4> QED  BY <2>2, <4>2 DEF At, UpTo
    <3>4. Listed(r.e, saves')
      BY <2>2, <2>6, <3>1, <3>3, SMT DEF Listed, At
    <3> QED  BY <1>3, <1>4, <2>1, <3>1, <3>2, <3>4 DEF Agree
  <2>8. ~lost' /\ ~unrepaired' => (Physical(temps) \subseteq engine.view)'
    <3> SUFFICES ASSUME ~lost', ~unrepaired' PROVE (Physical(temps) \subseteq engine.view)'
      OBVIOUS
    <3>1. r.ok /\ Physical(temps) \subseteq r.e.view
      BY <1>3, <1>9, <2>4
    <3> QED  BY <1>3, <1>4, <3>1 DEF Physical
  <2>9. lost' \in BOOLEAN /\ unrepaired' \in BOOLEAN /\ poisoned' = FALSE /\ run' = Idle
    BY <1>3, <1>4, <1>5, <1>6
  <2>10. Settled(engine', durable', nextId') /\ nextId' \in 1 .. MaxSavepoints + 1
    BY <1>3, <1>4, <1>5, <2>4
  <2> QED  BY <1>4, <1>5, <2>6, <2>7, <2>8, <2>9, <2>10, IdleStep
<1> QED  BY <1>8, <1>9

LEMMA ReleaseSafe == ASSUME IInv, NEW n \in Name, Release(n) PROVE IInv'
<1>1. PICK i \in Found(n), r \in UNION {ReleaseOutcomes(engine, durable, saves[j].id) : j \in Found(n)} :
          /\ r \in ReleaseOutcomes(engine, durable, saves[i].id)
          /\ engine' = r.e /\ durable' = r.d
          /\ saves' = IF r.ok THEN SubSeq(saves, 1, i - 1) ELSE saves
  BY DEF Release, Becomes
<1>2. /\ Accepts /\ active /\ active' = active /\ autocommit' = autocommit /\ nextId' = nextId
      /\ poisoned' = poisoned /\ run' = run /\ done' = done /\ temps' = temps
      /\ lost' = lost /\ unrepaired' = unrepaired
  BY DEF Release, repairVars
<1>3. /\ active \in BOOLEAN /\ autocommit \in BOOLEAN /\ lost \in BOOLEAN /\ unrepaired \in BOOLEAN
      /\ poisoned \in BOOLEAN /\ done \subseteq Stmt /\ temps \subseteq done
      /\ nextId \in 1 .. MaxSavepoints + 1
  BY DEF IInv, Types
<1>4. /\ run = Idle /\ ~poisoned /\ Settled(engine, durable, nextId)
      /\ ~lost => Agree(engine, active, saves)
      /\ ~lost /\ ~unrepaired => Physical(temps) \subseteq engine.view
  BY <1>2, IdleFacts
<1>5. i \in 1 .. Len(saves) /\ Sound(engine, durable, nextId) /\ NoStatementMark(engine)
  BY <1>4 DEF Found, Settled
<1> DEFINE k0 == i - 1
<1>6. k0 \in 0 .. Len(saves) /\ (r.ok => saves' = SubSeq(saves, 1, k0)) /\ (~r.ok => saves' = saves)
  BY <1>1, <1>5, EntryFields, SMT
<1> HIDE DEF k0
<1>7. Registry' /\ saves' \in Seq(Entry)
  BY <1>2, <1>6, CutRegistry, ClearedTypes
<1>8. \/ ~r.ok /\ r.e = engine /\ r.d = durable
      \/ engine.bySavepoint /\ r \in CommitOutcomes(engine, durable)
      \/ r.ok /\ r.d = durable /\ Released(r.e, engine, durable, nextId, saves[i].id)
  BY <1>1, <1>5, ReleaseShape, SMT
<1>9. /\ poisoned' = FALSE /\ run' = Idle /\ active' \in BOOLEAN /\ autocommit' \in BOOLEAN
      /\ lost' \in BOOLEAN /\ unrepaired' \in BOOLEAN /\ done' \subseteq Stmt /\ temps' \subseteq done'
      /\ nextId' \in 1 .. MaxSavepoints + 1
  BY <1>2, <1>3, <1>4
<1>10. /\ Settled(r.e, r.d, nextId)
       /\ ~lost => r.e.view = engine.view /\ Agree(r.e, active, saves')
  <2>1. CASE ~r.ok /\ r.e = engine /\ r.d = durable
    BY <1>4, <1>6, <2>1
  <2>2. CASE engine.bySavepoint /\ r \in CommitOutcomes(engine, durable)
    <3>1. lost /\ Whole(engine.view)
      BY <1>4, <2>2 DEF Agree, Settled
    <3>2. (r.e = engine /\ r.d = durable) \/ Settled(r.e, r.d, nextId)
      BY <1>5, <2>2, <3>1, CommitShape, SMT
    <3> QED  BY <1>4, <3>1, <3>2
  <2>3. CASE r.ok /\ r.d = durable /\ Released(r.e, engine, durable, nextId, saves[i].id)
    <3>0. /\ engine.open /\ r.e.open /\ r.e.bySavepoint = engine.bySavepoint
          /\ r.e.view = engine.view /\ Sound(r.e, durable, nextId) /\ NoStatementMark(r.e)
      BY <1>5, <2>3 DEF Released
    <3>1. PICK k \in 1 .. Len(engine.stack) : engine.stack[k].id = saves[i].id /\ Below(r.e, engine, k)
      BY <2>3 DEF Released
    <3>2. Settled(r.e, r.d, nextId)
      BY <1>4, <2>3, <3>0 DEF Settled
    <3>3. ASSUME ~lost PROVE Agree(r.e, active, saves')
      <4>1. ~engine.bySavepoint /\ Listed(engine, saves)
        BY <1>4, <3>0, <3>3 DEF Agree
      <4>2. /\ Len(saves') = k0
            /\ \A j \in 1 .. k0 : j \in 1 .. Len(saves) /\ saves'[j] = saves[j]
        BY <1>2, <1>6, <2>3, CutRegistry
      <4>3. ASSUME NEW j \in 1 .. k0 PROVE \E l \in 1 .. Len(r.e.stack) : r.e.stack[l].id = saves[j].id
        <5>1. j \in 1 .. Len(saves)
          BY <4>2
        <5>2. j < i
          BY <1>5, SMT DEF k0
        <5>3. Under(engine, k, saves[j].id)
          BY <1>4, <1>5, <3>1, <4>1, <5>1, <5>2, CutListed
        <5> QED  BY <3>1, <5>3 DEF Below, Under
      <4>4. Listed(r.e, saves')
        BY <4>2, <4>3 DEF Listed
      <4> QED  BY <1>2, <3>0, <4>1, <4>4 DEF Agree
    <3> QED  BY <3>0, <3>2, <3>3
  <2> QED  BY <1>8, <2>1, <2>2, <2>3
<1>11. ~lost' => Agree(engine', active', saves')
  BY <1>1, <1>2, <1>10
<1>12. ~lost' /\ ~unrepaired' => (Physical(temps) \subseteq engine.view)'
  BY <1>1, <1>2, <1>4, <1>10 DEF Physical
<1>13. Settled(engine', durable', nextId')
  BY <1>1, <1>2, <1>10
<1> QED  BY <1>7, <1>9, <1>11, <1>12, <1>13, IdleStep

-----------------------------------------------------------------------------
(* Statements begin.                                                       *)

LEMMA RunningFields ==
    ASSUME NEW kind \in {"read", "dml", "ddl", "create", "drop"}, NEW outer \in BOOLEAN,
           NEW s \in Stmt \cup {"-"}, NEW r, r = Running(kind, outer, s)
    PROVE  r \in Runs /\ r.kind = kind /\ r.outer = outer /\ ~r.failed /\ r.stmt = s
BY DEF Running, Runs

LEMMA FailedFields ==
    ASSUME NEW q \in Runs, NEW r, r = [q EXCEPT !.failed = TRUE]
    PROVE  r \in Runs /\ r.kind = q.kind /\ r.outer = q.outer /\ r.failed /\ r.stmt = q.stmt
BY DEF Runs

(* A step after which a statement is running. *)
LEMMA RunStep ==
    ASSUME IInv, run' \in Runs, run'.kind # "none", poisoned' = FALSE,
           saves' = saves \/ saves' = <<>>, nextId' = nextId,
           active' \in BOOLEAN, autocommit' \in BOOLEAN, lost' \in BOOLEAN, unrepaired' \in BOOLEAN,
           done' \subseteq Stmt, temps' \subseteq done',
           run'.kind \in {"dml", "ddl", "create", "created"} => run'.stmt \in done',
           run'.kind = "ddl" => run'.outer,
           run'.kind \in {"read", "created"} => ~run'.failed,
           Working', ~lost' => Linked', ~lost' /\ ~unrepaired' => Backed'
    PROVE  IInv'
<1>1. /\ engine' \in Engine /\ durable' \in SUBSET Stored /\ Whole(durable')
      /\ \A i \in 1 .. Len(engine'.stack) : engine'.stack[i].id < nextId'
  BY DEF Working, Sound
<1>2. Registry' /\ saves' \in Seq(Entry) /\ nextId' \in 1 .. MaxSavepoints + 1
  BY ClearedTypes
<1>3. Types'
  BY <1>1, <1>2 DEF Types
<1>4. RunOK'
  BY DEF RunOK
<1>5. Whole(durable)'
  BY <1>1 DEF Whole, Pair
<1> QED  BY <1>2, <1>3, <1>4, <1>5 DEF IInv

(* The transaction a statement runs in: the user's, or one it begins. *)
LEMMA OpenShape ==
    ASSUME IInv, Accepts, NEW o,
           \/ o = Outcome(TRUE, engine, durable) /\ (active \/ engine.open)
           \/ o \in BeginOutcomes(engine, durable) /\ ~active
    PROVE  /\ Settled(o.e, o.d, nextId) /\ o.d = durable /\ o.e.view = engine.view
           /\ ~o.ok => o.e = engine
           /\ o.ok /\ ~active /\ ~engine.open => o.e.open /\ ~o.e.bySavepoint /\ durable = engine.view
           /\ o.ok /\ ~lost => o.e.open /\ ~o.e.bySavepoint /\ Listed(o.e, saves)
           /\ ~lost /\ ~active => saves = <<>> /\ ~engine.open
           /\ o.ok /\ o \in BeginOutcomes(engine, durable) => ~engine.open
           /\ ~lost /\ ~unrepaired => Physical(temps) \subseteq engine.view
<1>1. /\ Settled(engine, durable, nextId)
      /\ ~lost => Agree(engine, active, saves)
      /\ ~lost /\ ~unrepaired => Physical(temps) \subseteq engine.view
  BY IdleFacts
<1>2. ~lost /\ ~active => saves = <<>> /\ ~engine.open
  BY <1>1 DEF Agree
<1>3. o \in BeginOutcomes(engine, durable) =>
         /\ Settled(o.e, o.d, nextId) /\ o.d = durable /\ o.e.view = engine.view
         /\ ~o.ok => o.e = engine
         /\ o.ok => ~engine.open /\ o.e.open /\ ~o.e.bySavepoint
  BY <1>1, BeginShape, SMT
<1>4. CASE o = Outcome(TRUE, engine, durable) /\ (active \/ engine.open)
  <2>1. o.ok /\ o.e = engine /\ o.d = durable
    BY <1>4 DEF Outcome
  <2>2. ~lost => engine.open /\ ~engine.bySavepoint /\ Listed(engine, saves)
    BY <1>1, <1>4 DEF Agree
  <2> QED  BY <1>1, <1>2, <1>3, <1>4, <2>1, <2>2
<1>5. CASE o \in BeginOutcomes(engine, durable) /\ ~active
  <2>1. ~engine.open => durable = engine.view
    BY <1>1 DEF Settled, Sound
  <2>2. ~lost => Listed(o.e, saves)
    BY <1>2, <1>5, EmptyRegistry
  <2> QED  BY <1>1, <1>2, <1>3, <1>5, <2>1, <2>2
<1> QED  BY <1>4, <1>5

(* A statement that could not begin changed nothing. *)
LEMMA RefusedSafe ==
    ASSUME IInv, Accepts, NEW o, o.e = engine, o.d = durable, Becomes(o), active' = active,
           done' \subseteq Stmt, done \subseteq done',
           UNCHANGED <<autocommit, saves, nextId, poisoned, run, lost, repairVars>>
    PROVE  IInv'
<1>1. autocommit' \in BOOLEAN /\ lost \in BOOLEAN
  BY DEF IInv, Types
<1>2. FailsWith(o)
  BY <1>1 DEF FailsWith
<1> QED  BY <1>1, <1>2, IdleFacts, FailsWithSafe

LEMMA BeginTemporarySafe ==
    ASSUME IInv, NEW kind \in {"create", "drop"}, NEW s \in Stmt \cup {"-"}, BeginTemporary(kind, s),
           done' \subseteq Stmt, done \subseteq done', kind = "create" => s \in done'
    PROVE  IInv'
<1> DEFINE outer == autocommit /\ ~active
<1>1. PICK o \in IF active THEN Skip(engine, durable) ELSE BeginOutcomes(engine, durable) :
         /\ Becomes(o)
         /\ active' = (active \/ (o.ok /\ ~outer))
         /\ run' = IF o.ok THEN Running(kind, outer, s) ELSE run
  BY DEF BeginTemporary
<1>2. /\ Accepts /\ UNCHANGED <<autocommit, saves, nextId, poisoned, lost, repairVars>>
      /\ autocommit' = autocommit /\ saves' = saves /\ nextId' = nextId /\ poisoned' = poisoned
      /\ lost' = lost /\ temps' = temps /\ unrepaired' = unrepaired
      /\ engine' = o.e /\ durable' = o.d
  BY <1>1 DEF BeginTemporary, repairVars, Becomes
<1>3. /\ active \in BOOLEAN /\ autocommit \in BOOLEAN /\ lost \in BOOLEAN /\ unrepaired \in BOOLEAN
      /\ poisoned \in BOOLEAN /\ temps \subseteq done' /\ run = Idle /\ ~poisoned
  BY <1>2, IdleFacts DEF IInv, Types
<1>4. \/ o = Outcome(TRUE, engine, durable) /\ (active \/ engine.open)
      \/ o \in BeginOutcomes(engine, durable) /\ ~active
  BY <1>1 DEF Skip
<1>5. /\ Settled(o.e, o.d, nextId) /\ o.d = durable /\ o.e.view = engine.view
      /\ ~o.ok => o.e = engine
      /\ o.ok /\ ~active => o.e.open /\ ~o.e.bySavepoint /\ durable = engine.view
      /\ o.ok /\ ~lost => o.e.open /\ ~o.e.bySavepoint /\ Listed(o.e, saves)
      /\ ~lost /\ ~active => saves = <<>> /\ ~engine.open
      /\ ~lost /\ ~unrepaired => Physical(temps) \subseteq engine.view
  BY <1>1, <1>2, <1>4, OpenShape
<1>6. CASE ~o.ok
  <2>1. active' = active /\ run' = run
    BY <1>1, <1>3, <1>6
  <2> QED  BY <1>1, <1>2, <1>5, <1>6, <2>1, RefusedSafe
<1>7. CASE o.ok
  <2>1. outer \in BOOLEAN /\ (outer => ~active)
    OBVIOUS
  <2>2. run' = Running(kind, outer, s) /\ active' = (active \/ ~outer) /\ active' \in BOOLEAN
    BY <1>1, <1>7
  <2>3. (outer <=> ~active') /\ (~active' => ~active)
    BY <2>1, <2>2
  <2> HIDE DEF outer
  <2>4. run' \in Runs /\ run'.kind = kind /\ run'.outer = outer /\ ~run'.failed /\ run'.stmt = s
    BY <2>1, <2>2, RunningFields, SMT
  <2>5. Working'
    <3>1. Sound(engine', durable', nextId') /\ NoStatementMark(engine') /\ Whole(engine'.view)
      BY <1>2, <1>5 DEF Settled
    <3>2. run'.outer => ~engine'.bySavepoint
      BY <1>2, <1>5, <1>7, <2>1, <2>4
    <3> QED  BY <2>4, <3>1, <3>2 DEF Working, Whole
  <2>6. ~lost' => Linked'
    BY <1>2, <1>5, <1>7, <2>3, <2>4, SMT DEF Linked
  <2>7. ~lost' /\ ~unrepaired' => Backed'
    BY <1>2, <1>5, <1>7, <2>1, <2>4, SMT DEF Backed, Physical
  <2>8. poisoned' = FALSE /\ temps' \subseteq done'
    BY <1>2, <1>3
  <2> QED  BY <1>2, <1>3, <2>2, <2>4, <2>5, <2>6, <2>7, <2>8, RunStep
<1> QED  BY <1>6, <1>7

LEMMA BeginReadSafe == ASSUME IInv, BeginRead PROVE IInv'
<1> DEFINE outer == autocommit /\ ~active /\ ~engine.open
<1>1. PICK o \in IF active \/ engine.open THEN Skip(engine, durable)
                 ELSE BeginOutcomes(engine, durable) :
         /\ Becomes(o)
         /\ active' = (active \/ (o.ok /\ ~autocommit /\ ~engine.open))
         /\ run' = IF o.ok THEN Running("read", outer, "-") ELSE run
  BY DEF BeginRead
<1>2. /\ Accepts /\ UNCHANGED <<autocommit, saves, nextId, poisoned, done, lost, repairVars>>
      /\ autocommit' = autocommit /\ saves' = saves /\ nextId' = nextId /\ poisoned' = poisoned
      /\ lost' = lost /\ temps' = temps /\ unrepaired' = unrepaired /\ done' = done
      /\ engine' = o.e /\ durable' = o.d
  BY <1>1 DEF BeginRead, repairVars, Becomes
<1>3. /\ active \in BOOLEAN /\ autocommit \in BOOLEAN /\ lost \in BOOLEAN /\ unrepaired \in BOOLEAN
      /\ poisoned \in BOOLEAN /\ temps \subseteq done /\ done \subseteq Stmt /\ run = Idle /\ ~poisoned
  BY <1>2, IdleFacts DEF IInv, Types
<1>4. \/ o = Outcome(TRUE, engine, durable) /\ (active \/ engine.open)
      \/ o \in BeginOutcomes(engine, durable) /\ ~active
  BY <1>1 DEF Skip
<1>5. /\ Settled(o.e, o.d, nextId) /\ o.d = durable /\ o.e.view = engine.view
      /\ ~o.ok => o.e = engine
      /\ o.ok /\ ~active /\ ~engine.open => o.e.open /\ ~o.e.bySavepoint /\ durable = engine.view
      /\ o.ok /\ ~lost => o.e.open /\ ~o.e.bySavepoint /\ Listed(o.e, saves)
      /\ ~lost /\ ~active => saves = <<>> /\ ~engine.open
      /\ ~lost /\ ~unrepaired => Physical(temps) \subseteq engine.view
  BY <1>2, <1>4, OpenShape
<1>6. CASE ~o.ok
  <2>1. active' = active /\ run' = run /\ done' \subseteq Stmt /\ done \subseteq done'
    BY <1>1, <1>2, <1>3, <1>6
  <2> QED  BY <1>1, <1>2, <1>5, <1>6, <2>1, RefusedSafe
<1>7. CASE o.ok
  <2>1. outer \in BOOLEAN /\ (outer => ~active /\ ~engine.open)
    OBVIOUS
  <2>2. /\ run' = Running("read", outer, "-") /\ active' \in BOOLEAN
        /\ active' = (active \/ (~autocommit /\ ~engine.open))
    BY <1>1, <1>7
  <2>3. (~lost => (outer <=> ~active')) /\ (~active' => ~active)
    BY <1>5, <2>1, <2>2
  <2> HIDE DEF outer
  <2>4. run' \in Runs /\ run'.kind = "read" /\ run'.outer = outer /\ ~run'.failed /\ run'.stmt = "-"
    BY <2>1, <2>2, RunningFields, SMT
  <2>5. Working'
    <3>1. Sound(engine', durable', nextId') /\ NoStatementMark(engine') /\ Whole(engine'.view)
      BY <1>2, <1>5 DEF Settled
    <3>2. run'.outer => ~engine'.bySavepoint
      BY <1>2, <1>5, <1>7, <2>1, <2>4
    <3> QED  BY <2>4, <3>1, <3>2 DEF Working, Whole
  <2>6. ~lost' => Linked'
    BY <1>2, <1>5, <1>7, <2>3, <2>4, SMT DEF Linked
  <2>7. ~lost' /\ ~unrepaired' => Backed'
    BY <1>2, <1>5, <1>7, <2>1, <2>4, SMT DEF Backed, Physical
  <2>8. poisoned' = FALSE /\ temps' \subseteq done' /\ done' \subseteq Stmt
    BY <1>2, <1>3
  <2> QED  BY <1>2, <1>3, <2>2, <2>4, <2>5, <2>6, <2>7, <2>8, RunStep
<1> QED  BY <1>6, <1>7

LEMMA BeginDmlSafe == ASSUME IInv, NEW s \in Stmt, BeginDml(s) PROVE IInv'
<1> DEFINE outer == autocommit /\ ~active
<1>1. PICK o \in IF active THEN Skip(engine, durable) ELSE BeginOutcomes(engine, durable) :
         \E v \in IF o.ok THEN SavepointOutcomes(o.e, o.d, StatementMark) ELSE {o} :
            IF v.ok
            THEN /\ Becomes(v) /\ run' = Running("dml", outer, s)
                 /\ active' = (active \/ ~outer)
                 /\ UNCHANGED poisoned
            ELSE IF ~o.ok \/ ~outer
            THEN /\ Becomes(v)
                 /\ active' = (active \/ (o.ok /\ ~outer))
                 /\ UNCHANGED <<run, poisoned>>
            ELSE /\ Becomes(v) /\ UNCHANGED <<active, poisoned>>
                 /\ run' = [Running("dml", TRUE, s) EXCEPT !.failed = TRUE]
  BY DEF BeginDml
<1>2. PICK v \in IF o.ok THEN SavepointOutcomes(o.e, o.d, StatementMark) ELSE {o} :
         /\ engine' = v.e /\ durable' = v.d /\ Becomes(v) /\ poisoned' = poisoned
         /\ v.ok => run' = Running("dml", outer, s) /\ active' = (active \/ ~outer)
         /\ ~v.ok /\ (~o.ok \/ ~outer) => active' = (active \/ (o.ok /\ ~outer)) /\ run' = run
         /\ ~v.ok /\ o.ok /\ outer =>
               active' = active /\ run' = [Running("dml", TRUE, s) EXCEPT !.failed = TRUE]
  BY <1>1 DEF Becomes
<1>3. /\ Accepts /\ UNCHANGED <<autocommit, saves, nextId, lost, repairVars>> /\ done' = done \cup {s}
      /\ autocommit' = autocommit /\ saves' = saves /\ nextId' = nextId
      /\ lost' = lost /\ temps' = temps /\ unrepaired' = unrepaired
  BY DEF BeginDml, repairVars
<1>4. /\ active \in BOOLEAN /\ autocommit \in BOOLEAN /\ lost \in BOOLEAN /\ unrepaired \in BOOLEAN
      /\ poisoned \in BOOLEAN /\ done' \subseteq Stmt /\ done \subseteq done' /\ temps \subseteq done'
      /\ run = Idle /\ ~poisoned /\ nextId \in Nat /\ nextId > 0
  BY <1>3, IdleFacts DEF IInv, Types
<1>5. \/ o = Outcome(TRUE, engine, durable) /\ (active \/ engine.open)
      \/ o \in BeginOutcomes(engine, durable) /\ ~active
  BY <1>1 DEF Skip
<1>6. /\ Settled(o.e, o.d, nextId) /\ o.d = durable /\ o.e.view = engine.view
      /\ ~o.ok => o.e = engine
      /\ o.ok /\ ~active => o.e.open /\ ~o.e.bySavepoint /\ durable = engine.view
      /\ o.ok /\ ~lost => o.e.open /\ ~o.e.bySavepoint /\ Listed(o.e, saves)
      /\ ~lost /\ ~active => saves = <<>> /\ ~engine.open
      /\ ~lost /\ ~unrepaired => Physical(temps) \subseteq engine.view
  BY <1>1, <1>3, <1>5, OpenShape
<1>7. o.ok =>
         /\ v.d = o.d
         /\ ~v.ok => v.e = o.e
         /\ v.ok => /\ v.e.open /\ v.e.view = o.e.view
                    /\ o.e.open /\ ~o.e.bySavepoint => ~v.e.bySavepoint
                    /\ Pushed(v.e, o.e, StatementMark)
                    /\ Sound(v.e, o.d, nextId)
  <2>1. StatementMark \in Nat /\ StatementMark = 0
    BY DEF StatementMark
  <2>2. o.ok => v \in SavepointOutcomes(o.e, o.d, StatementMark)
    BY <1>2
  <2> QED  BY <1>4, <1>6, <2>1, <2>2, SavepointShape, SMT
<1>8. /\ outer \in BOOLEAN /\ (outer => ~active)
      /\ (outer <=> ~(active \/ ~outer)) /\ (~(active \/ ~outer) => ~active)
  BY <1>4
<1> HIDE DEF outer
<1>9. CASE ~o.ok
  <2>1. v = o /\ ~v.ok
    BY <1>2, <1>9
  <2>2. active' = active /\ run' = run
    BY <1>2, <1>4, <1>9, <2>1
  <2> QED  BY <1>2, <1>3, <1>4, <1>6, <1>9, <2>1, <2>2, RefusedSafe
<1>10. CASE o.ok /\ ~v.ok /\ ~outer
  <2>1. active' = TRUE /\ run' = Idle /\ poisoned' = FALSE
    BY <1>2, <1>4, <1>10
  <2>2. engine' = o.e /\ durable' = o.d
    BY <1>2, <1>7, <1>10
  <2>3. ~lost' => Agree(engine', active', saves')
    BY <1>3, <1>6, <1>10, <2>1, <2>2, SMT DEF Agree
  <2>4. ~lost' /\ ~unrepaired' => (Physical(temps) \subseteq engine.view)'
    BY <1>3, <1>6, <2>2, SMT DEF Physical
  <2>5. Registry' /\ saves' \in Seq(Entry) /\ nextId' \in 1 .. MaxSavepoints + 1
    BY <1>3, ClearedTypes
  <2>6. Settled(engine', durable', nextId')
    BY <1>3, <1>6, <2>2
  <2> QED  BY <1>3, <1>4, <2>1, <2>3, <2>4, <2>5, <2>6, IdleStep
<1>11. CASE o.ok /\ ~v.ok /\ outer
  <2> DEFINE q == Running("dml", TRUE, s)
  <2>1. q \in Runs /\ q.kind = "dml" /\ q.outer = TRUE /\ q.stmt = s
    BY DEF Running, Runs
  <2>2. run' = [q EXCEPT !.failed = TRUE] /\ active' = active
    BY <1>2, <1>11
  <2> HIDE DEF q
  <2>3. run' \in Runs /\ run'.kind = "dml" /\ run'.outer /\ run'.failed /\ run'.stmt = s
    BY <2>1, <2>2, FailedFields
  <2>4. engine' = o.e /\ durable' = o.d /\ ~active
    BY <1>2, <1>7, <1>8, <1>11
  <2>5. Working'
    <3>1. Sound(engine', durable', nextId') /\ Whole(engine'.view)
      BY <1>3, <1>6, <2>4 DEF Settled
    <3>2. ~engine'.bySavepoint
      BY <1>6, <1>11, <2>4
    <3> QED  BY <2>3, <3>1, <3>2 DEF Working, Whole
  <2>6. ~lost' => Linked'
    BY <1>3, <1>6, <1>11, <2>2, <2>3, <2>4, SMT DEF Linked
  <2>7. ~lost' /\ ~unrepaired' => Backed'
    <3> SUFFICES ASSUME ~lost', ~unrepaired' PROVE Backed'
      OBVIOUS
    <3>1. (Physical(temps) \subseteq durable)' /\ (Physical(temps) \subseteq engine.view)'
      BY <1>3, <1>6, <1>11, <2>4, SMT DEF Physical
    <3>2. ~OnTop(engine)'
      BY <1>6, <2>4, SMT DEF OnTop, Settled, NoStatementMark, Sound, Engine
    <3> QED  BY <2>3, <3>1, <3>2 DEF Backed
  <2>8. poisoned' = FALSE /\ temps' \subseteq done' /\ s \in done'
    BY <1>2, <1>3, <1>4
  <2> QED  BY <1>3, <1>4, <2>2, <2>3, <2>5, <2>6, <2>7, <2>8, RunStep
<1>12. CASE o.ok /\ v.ok
  <2>1. run' = Running("dml", outer, s) /\ active' = (active \/ ~outer)
    BY <1>2, <1>12
  <2>2. (outer <=> ~active') /\ (~active' => ~active) /\ active' \in BOOLEAN
    BY <1>8, <2>1
  <2>3. run' \in Runs /\ run'.kind = "dml" /\ run'.outer = outer /\ ~run'.failed /\ run'.stmt = s
    BY <1>8, <2>1, RunningFields, SMT
  <2> DEFINE L == Len(o.e.stack) + 1
  <2>4. Len(o.e.stack) \in Nat
    <3>1. o.e \in Engine
      BY <1>6 DEF Settled, Sound
    <3> QED  BY <3>1, EngineFields
  <2>5. /\ engine' = v.e /\ durable' = durable /\ Len(engine'.stack) = L
        /\ engine'.stack[L].id = 0 /\ engine'.stack[L].saved = engine.view
        /\ engine'.view = engine.view /\ engine'.open
    BY <1>2, <1>6, <1>7, <1>12 DEF Pushed, StatementMark
  <2>6. OnTop(engine)'
    BY <2>4, <2>5, SMT DEF OnTop
  <2>7. Working'
    <3>1. Sound(engine', durable', nextId') /\ Whole(engine'.view)
      BY <1>2, <1>3, <1>6, <1>7, <1>12 DEF Settled
    <3>2. run'.outer => ~engine'.bySavepoint
      BY <1>2, <1>6, <1>7, <1>8, <1>12, <2>3
    <3> QED  BY <2>3, <2>6, <3>1, <3>2 DEF Working, Whole
  <2>8. ~lost' => Linked'
    <3> SUFFICES ASSUME ~lost PROVE Linked'
      BY <1>3, SMT
    <3>1. ~engine'.bySavepoint /\ engine'.open
      BY <1>2, <1>6, <1>7, <1>12
    <3>2. ASSUME NEW i \in 1 .. Len(saves)
          PROVE  \E k \in 1 .. Len(v.e.stack) : v.e.stack[k].id = saves[i].id
      <4>1. PICK k \in 1 .. Len(o.e.stack) : o.e.stack[k].id = saves[i].id
        BY <1>6, <1>12 DEF Listed
      <4>2. k \in 1 .. Len(v.e.stack) /\ v.e.stack[k] = o.e.stack[k]
        BY <1>7, <1>12, <2>4, SMT DEF Pushed
      <4> QED  BY <4>1, <4>2
    <3>3. Listed(engine', saves')
      BY <1>2, <1>3, <3>2 DEF Listed
    <3> QED  BY <1>3, <1>6, <2>2, <2>3, <3>1, <3>3 DEF Linked
  <2>9. ~lost' /\ ~unrepaired' => Backed'
    <3> SUFFICES ASSUME ~lost', ~unrepaired' PROVE Backed'
      OBVIOUS
    <3>1. (Physical(temps) \subseteq engine.view)' /\ (Physical(temps))' \subseteq engine.view
      BY <1>3, <1>6, <2>5, SMT DEF Physical
    <3>2. outer => (Physical(temps) \subseteq durable)'
      BY <1>3, <1>6, <1>8, <1>12, <2>5, SMT DEF Physical
    <3>3. (Physical(temps) \subseteq engine.stack[Len(engine.stack)].saved)'
      BY <2>5, <3>1
    <3> QED  BY <2>3, <3>1, <3>2, <3>3 DEF Backed
  <2>10. poisoned' = FALSE /\ temps' \subseteq done' /\ s \in done'
    BY <1>2, <1>3, <1>4
  <2> QED  BY <1>3, <1>4, <2>2, <2>3, <2>7, <2>8, <2>9, <2>10, RunStep
<1> QED  BY <1>9, <1>10, <1>11, <1>12

LEMMA BeginDdlSafe == ASSUME IInv, NEW s \in Stmt, BeginDdl(s) PROVE IInv'
<1>1. PICK c \in CommitUser :
          IF ~c.ok
          THEN FailsWith(c) /\ UNCHANGED run
          ELSE /\ active' = FALSE /\ UNCHANGED lost
               /\ saves' = IF active THEN <<>> ELSE saves
               /\ \E b \in BeginOutcomes(c.e, c.d) :
                     Becomes(b) /\ run' = IF b.ok THEN Running("ddl", TRUE, s) ELSE run
  BY DEF BeginDdl
<1>2. /\ Accepts /\ UNCHANGED <<autocommit, nextId, poisoned, repairVars>>
      /\ autocommit' = autocommit /\ nextId' = nextId /\ poisoned' = poisoned
      /\ temps' = temps /\ unrepaired' = unrepaired /\ done' = done \cup {s}
  BY DEF BeginDdl, repairVars
<1>3. /\ active \in BOOLEAN /\ autocommit' \in BOOLEAN /\ lost \in BOOLEAN /\ unrepaired' \in BOOLEAN
      /\ poisoned' = FALSE /\ done' \subseteq Stmt /\ done \subseteq done' /\ temps' \subseteq done'
      /\ run = Idle /\ s \in done'
  BY <1>2, IdleFacts DEF IInv, Types
<1>4. CASE ~c.ok
  <2>1. FailsWith(c) /\ UNCHANGED <<nextId, poisoned, run, repairVars>>
    BY <1>1, <1>2, <1>4
  <2> QED  BY <1>2, <1>3, <1>4, <2>1, CommitUserShape, FailsWithSafe
<1>5. CASE c.ok
  <2>1. PICK b \in BeginOutcomes(c.e, c.d) :
          engine' = b.e /\ durable' = b.d /\ run' = IF b.ok THEN Running("ddl", TRUE, s) ELSE run
    BY <1>1, <1>5 DEF Becomes
  <2>2. active' = FALSE /\ lost' = lost /\ saves' = IF active THEN <<>> ELSE saves
    BY <1>1, <1>5
  <2>3. Settled(c.e, c.d, nextId) /\ c.e.view = engine.view /\ (~lost => ~c.e.open)
    BY <1>2, <1>5, CommitUserShape
  <2>4. /\ Settled(b.e, b.d, nextId) /\ b.e.view = engine.view /\ b.d = c.d
        /\ ~b.ok => b.e = c.e
        /\ b.ok => ~c.e.open /\ b.e.open /\ ~b.e.bySavepoint
    BY <2>3, BeginShape, SMT
  <2>5. ~lost /\ ~unrepaired => Physical(temps) \subseteq engine.view
    BY <1>2, IdleFacts
  <2>6. CASE ~b.ok
    <3>1. ~lost => ~engine'.bySavepoint /\ (active' <=> engine'.open)
      BY <2>1, <2>2, <2>3, <2>4, <2>6, ClosedBare
    <3>2. ~lost /\ ~unrepaired' => Physical(temps) \subseteq engine'.view
      BY <1>2, <2>1, <2>4, <2>5
    <3>3. /\ UNCHANGED <<nextId, poisoned, run, temps, lost>> /\ active' \in BOOLEAN
          /\ Settled(engine', durable', nextId)
      BY <1>2, <2>1, <2>2, <2>4, <2>6
    <3> QED  BY <1>2, <1>3, <2>2, <3>1, <3>2, <3>3, RestartStep
  <2>7. CASE b.ok
    <3>1. run' = Running("ddl", TRUE, s)
      BY <2>1, <2>7
    <3>2. run' \in Runs /\ run'.kind = "ddl" /\ run'.outer /\ ~run'.failed /\ run'.stmt = s
      BY <3>1 DEF Running, Runs
    <3>3. Working'
      <4>1. Sound(engine', durable', nextId') /\ Whole(engine'.view) /\ NoStatementMark(engine')
        BY <1>2, <2>1, <2>4 DEF Settled
      <4> QED  BY <2>1, <2>4, <2>7, <3>2, <4>1 DEF Working, Whole
    <3>4. ~lost' => Linked'
      <4> SUFFICES ASSUME ~lost PROVE Linked'
        BY <2>2
      <4>1. saves' = <<>>
        BY <1>2, <2>2, IdleFacts DEF Agree
      <4>2. Listed(engine', saves')
        BY <4>1, EmptyRegistry
      <4> QED  BY <2>1, <2>2, <2>4, <2>7, <3>2, <4>1, <4>2 DEF Linked
    <3>5. ~lost' /\ ~unrepaired' => Backed'
      <4> SUFFICES ASSUME ~lost', ~unrepaired' PROVE Backed'
        OBVIOUS
      <4>1. durable' = engine.view /\ engine'.view = engine.view
        BY <2>1, <2>3, <2>4, <2>7 DEF Settled, Sound
      <4>2. (Physical(temps) \subseteq engine.view)' /\ (Physical(temps) \subseteq durable)'
        BY <1>2, <2>2, <2>5, <4>1 DEF Physical
      <4> QED  BY <3>2, <4>2 DEF Backed
    <3>6. (saves' = saves \/ saves' = <<>>) /\ active' \in BOOLEAN /\ lost' \in BOOLEAN
      BY <1>3, <2>2
    <3> QED  BY <1>2, <1>3, <3>2, <3>3, <3>4, <3>5, <3>6, RunStep
  <2> QED  BY <2>6, <2>7
<1> QED  BY <1>4, <1>5

-----------------------------------------------------------------------------
(* Statements run.                                                         *)

(* While a statement runs the connection is not poisoned. *)
LEMMA BusyFacts ==
    ASSUME IInv, run.kind # "none"
    PROVE  /\ ~poisoned /\ poisoned \in BOOLEAN /\ Working /\ run \in Runs
           /\ ~lost => Linked
           /\ ~lost /\ ~unrepaired => Backed
           /\ active \in BOOLEAN /\ autocommit \in BOOLEAN /\ lost \in BOOLEAN
           /\ unrepaired \in BOOLEAN /\ done \subseteq Stmt /\ temps \subseteq done
           /\ run.kind \in {"dml", "ddl", "create", "created"} => run.stmt \in done
           /\ run.kind = "ddl" => run.outer
           /\ run.kind \in {"read", "created"} => ~run.failed
           /\ durable \in SUBSET Stored /\ Whole(durable)
<1>1. poisoned \in BOOLEAN /\ run \in Runs
  BY DEF IInv, Types
<1>2. ~poisoned
  BY <1>1, IdleRun DEF IInv, RunOK
<1> QED  BY <1>1, <1>2 DEF IInv, Types, RunOK

(* The statement fails and the transaction is gone. *)
LEMMA ClosedRun ==
    ASSUME IInv, run.kind \in {"dml", "ddl", "create", "drop"}, ~run.failed,
           engine' = ClosedEngine(durable), run' = [run EXCEPT !.failed = TRUE],
           lost' = lost \/ lost' = (lost \/ ~run.outer),
           ~lost' => ~lost /\ (run.kind \in {"dml", "ddl"} \/ run.outer),
           UNCHANGED <<durable, active, autocommit, saves, nextId, poisoned, done, repairVars>>
    PROVE  IInv'
<1>1. /\ ~poisoned /\ run \in Runs /\ (~lost => Linked) /\ (~lost /\ ~unrepaired => Backed)
      /\ active \in BOOLEAN /\ autocommit \in BOOLEAN /\ lost \in BOOLEAN /\ poisoned \in BOOLEAN
      /\ unrepaired \in BOOLEAN /\ done \subseteq Stmt /\ temps \subseteq done
      /\ run.kind \in {"dml", "ddl", "create", "created"} => run.stmt \in done
      /\ run.kind = "ddl" => run.outer
      /\ durable \in SUBSET Stored /\ Whole(durable)
  BY BusyFacts
<1>2. /\ run' \in Runs /\ run'.kind = run.kind /\ run'.outer = run.outer /\ run'.failed
      /\ run'.stmt = run.stmt
  BY <1>1, FailedFields
<1>3. /\ durable' = durable /\ active' = active /\ autocommit' = autocommit /\ saves' = saves
      /\ nextId' = nextId /\ poisoned' = poisoned /\ done' = done /\ temps' = temps
      /\ unrepaired' = unrepaired
  BY DEF repairVars
<1>4. /\ Settled(engine', durable, nextId) /\ ~engine'.open /\ ~engine'.bySavepoint
  BY <1>1, ClosedSettled
<1>5. Working'
  <2>1. Sound(engine', durable', nextId') /\ Whole(engine'.view) /\ NoStatementMark(engine')
    BY <1>3, <1>4 DEF Settled
  <2> QED  BY <1>2, <1>4, <2>1 DEF Working, Whole
<1>6. ~lost' => Linked'
  BY <1>1, <1>2, <1>3, <1>4, SMT DEF Linked
<1>7. ~lost' /\ ~unrepaired' => Backed'
  BY <1>1, <1>2, <1>3, <1>4 DEF Backed, Physical
<1>8. lost' \in BOOLEAN /\ poisoned' = FALSE
  BY <1>1, <1>3
<1> QED  BY <1>1, <1>2, <1>3, <1>5, <1>6, <1>7, <1>8, RunStep

LEMMA WriteRowSafe == ASSUME IInv, WriteRow PROVE IInv'
<1> DEFINE row == IF <<run.stmt, 1>> \in engine.view THEN <<run.stmt, 2>> ELSE <<run.stmt, 1>>
<1>1. /\ run.kind \in {"dml", "ddl"} /\ ~run.failed /\ engine.open
      /\ UNCHANGED <<durable, active, autocommit, saves, nextId, poisoned, done, lost, repairVars>>
      /\ durable' = durable /\ active' = active /\ autocommit' = autocommit /\ saves' = saves
      /\ nextId' = nextId /\ poisoned' = poisoned /\ done' = done /\ lost' = lost /\ temps' = temps
      /\ unrepaired' = unrepaired
  BY DEF WriteRow, Writing, repairVars
<1>2. \/ engine' = [engine EXCEPT !.view = @ \cup {row}] /\ run' = run
      \/ engine' = engine /\ run' = [run EXCEPT !.failed = TRUE]
      \/ engine' = ClosedEngine(durable) /\ run' = [run EXCEPT !.failed = TRUE]
  BY DEF WriteRow
<1>3. /\ ~poisoned /\ run \in Runs /\ (~lost => Linked) /\ (~lost /\ ~unrepaired => Backed)
      /\ active \in BOOLEAN /\ autocommit \in BOOLEAN /\ lost \in BOOLEAN /\ poisoned \in BOOLEAN
      /\ unrepaired \in BOOLEAN /\ done \subseteq Stmt /\ temps \subseteq done
      /\ run.stmt \in done /\ (run.kind = "ddl" => run.outer) /\ Working
  BY <1>1, BusyFacts
<1>4. poisoned' = FALSE
  BY <1>1, <1>3
<1>5. engine \in Engine /\ engine.view \in SUBSET Stored
  BY <1>3, EngineFields DEF Working, Sound
<1>6. CASE engine' = [engine EXCEPT !.view = @ \cup {row}] /\ run' = run
  <2>1. row \in Stored /\ \A s \in Stmt, i \in 1 .. 2 : s # run.stmt => row # <<s, i>>
    BY <1>3 DEF Stored, Row
  <2>2. row \notin Physical(temps)
    BY SMT DEF Physical
  <2> HIDE DEF row
  <2>3. /\ engine' \in Engine /\ engine'.view = engine.view \cup {row} /\ engine'.open = engine.open
        /\ engine'.bySavepoint = engine.bySavepoint /\ engine'.stack = engine.stack
    BY <1>5, <1>6, <2>1 DEF Engine
  <2>4. Working'
    <3>1. Sound(engine', durable', nextId')
      BY <1>1, <1>3, <2>3 DEF Working, Sound
    <3>2. ASSUME NEW s \in Stmt, s # run.stmt PROVE Pair(engine'.view, s)
      BY <1>3, <2>1, <2>3, <3>2, SMT DEF Working, Pair
    <3>3. OnTop(engine)' <=> OnTop(engine)
      BY <2>3 DEF OnTop
    <3>4. NoStatementMark(engine') <=> NoStatementMark(engine)
      BY <2>3 DEF NoStatementMark
    <3> QED  BY <1>1, <1>3, <1>6, <2>3, <3>1, <3>2, <3>3, <3>4 DEF Working
  <2>5. ~lost' => Linked'
    BY <1>1, <1>3, <1>6, <2>3, SMT DEF Linked, Listed
  <2>6. ~lost' /\ ~unrepaired' => Backed'
    BY <1>1, <1>3, <1>6, <2>3, SMT DEF Backed, Physical, OnTop
  <2> QED  BY <1>1, <1>3, <1>4, <1>6, <2>4, <2>5, <2>6, RunStep
<1>7. CASE engine' = engine /\ run' = [run EXCEPT !.failed = TRUE]
  <2>1. /\ run' \in Runs /\ run'.kind = run.kind /\ run'.outer = run.outer /\ run'.failed
        /\ run'.stmt = run.stmt
    BY <1>3, <1>7, FailedFields
  <2>2. Working'
    BY <1>1, <1>3, <1>7, <2>1 DEF Working, OnTop
  <2>3. ~lost' => Linked'
    BY <1>1, <1>3, <1>7, <2>1, SMT DEF Linked
  <2>4. ~lost' /\ ~unrepaired' => Backed'
    BY <1>1, <1>3, <1>7, <2>1, SMT DEF Backed, Physical, OnTop
  <2> QED  BY <1>1, <1>3, <1>4, <2>1, <2>2, <2>3, <2>4, RunStep
<1>8. CASE engine' = ClosedEngine(durable) /\ run' = [run EXCEPT !.failed = TRUE]
  BY <1>1, <1>8, ClosedRun, SMT
<1> QED  BY <1>2, <1>6, <1>7, <1>8

LEMMA TemporaryBreaksSafe == ASSUME IInv, TemporaryBreaks PROVE IInv'
<1>1. /\ run.kind \in {"dml", "ddl", "create", "drop"} /\ ~run.failed
      /\ engine' = ClosedEngine(durable) /\ run' = [run EXCEPT !.failed = TRUE]
      /\ lost' = (lost \/ ~run.outer)
      /\ UNCHANGED <<durable, active, autocommit, saves, nextId, poisoned, done, repairVars>>
  BY DEF TemporaryBreaks
<1>2. ~lost' => ~lost /\ (run.kind \in {"dml", "ddl"} \/ run.outer)
  BY <1>1
<1> QED  BY <1>1, <1>2, ClosedRun

LEMMA ValidationFailsSafe == ASSUME IInv, ValidationFails PROVE IInv'
<1>1. /\ run.kind = "dropped" /\ run.outer /\ ~run.failed /\ engine' = engine
      /\ run' = [run EXCEPT !.failed = TRUE]
      /\ durable' = durable /\ active' = active /\ autocommit' = autocommit /\ saves' = saves
      /\ nextId' = nextId /\ poisoned' = poisoned /\ done' = done /\ lost' = lost /\ temps' = temps
      /\ unrepaired' = unrepaired
  BY DEF ValidationFails, repairVars
<1>2. /\ ~poisoned /\ run \in Runs /\ (~lost => Linked) /\ (~lost /\ ~unrepaired => Backed)
      /\ active \in BOOLEAN /\ autocommit \in BOOLEAN /\ lost \in BOOLEAN /\ poisoned \in BOOLEAN
      /\ unrepaired \in BOOLEAN /\ done \subseteq Stmt /\ temps \subseteq done /\ Working
  BY <1>1, BusyFacts
<1>3. /\ run' \in Runs /\ run'.kind = run.kind /\ run'.outer = run.outer /\ run'.failed
      /\ run'.stmt = run.stmt
  BY <1>1, <1>2, FailedFields
<1>4. Working'
  BY <1>1, <1>2, <1>3 DEF Working
<1>5. ~lost' => Linked'
  BY <1>1, <1>2, <1>3 DEF Linked
<1>6. ~lost' /\ ~unrepaired' => Backed'
  BY <1>1, <1>2, <1>3 DEF Backed, Physical
<1>7. poisoned' = FALSE
  BY <1>1, <1>2
<1> QED  BY <1>1, <1>2, <1>3, <1>4, <1>5, <1>6, <1>7, RunStep

(* A temporary CREATE or DROP that leaves v behind and is now as q says. *)
LEMMA TemporaryStep ==
    ASSUME IInv, run.kind \in {"create", "drop"}, ~run.failed,
           NEW v \in SUBSET Stored, Whole(v), NEW ok \in BOOLEAN,
           Becomes(Leaves(ok, engine, durable, v)),
           run' \in Runs, run'.outer = run.outer, run'.stmt = run.stmt,
           run'.kind \in {"create", "created", "drop", "dropped"},
           run'.kind \in {"create", "created"} => run.kind = "create",
           run'.kind = "created" => ~run'.failed,
           temps' \subseteq done, unrepaired' \in BOOLEAN,
           UNCHANGED <<active, autocommit, saves, nextId, poisoned, done, lost>>,
           ~lost /\ ~unrepaired' /\ engine.open /\ (run.outer => Physical(temps) \subseteq durable) =>
              /\ run.outer /\ run'.kind # "created" => (Physical(temps))' \subseteq durable
              /\ ~(run'.kind = "drop" /\ run'.failed /\ run.outer) => (Physical(temps))' \subseteq v,
           ~unrepaired' => ~unrepaired
    PROVE  IInv'
<1>1. /\ ~poisoned /\ run \in Runs /\ (~lost => Linked) /\ (~lost /\ ~unrepaired => Backed)
      /\ active \in BOOLEAN /\ autocommit \in BOOLEAN /\ lost \in BOOLEAN /\ poisoned \in BOOLEAN
      /\ done \subseteq Stmt /\ Working /\ (run.kind = "create" => run.stmt \in done)
  BY BusyFacts
<1>2. Settled(engine, durable, nextId)
  BY <1>1 DEF Working, Settled, Whole
<1>3. engine' = [engine EXCEPT !.view = v] /\ durable' = IF engine.open THEN durable ELSE v
  BY DEF Becomes, Leaves, Outcome
<1> DEFINE o == [e |-> engine', d |-> durable']
<1>4. o.e = engine' /\ o.d = durable'
  OBVIOUS
<1> HIDE DEF o
<1>5. /\ Settled(engine', durable', nextId) /\ engine'.view = v /\ engine'.open = engine.open
      /\ engine'.bySavepoint = engine.bySavepoint /\ engine'.stack = engine.stack
  BY <1>2, <1>3, <1>4, LeavesShape, SMT
<1>6. Working'
  <2>1. Sound(engine', durable', nextId') /\ Whole(engine'.view) /\ NoStatementMark(engine')
    BY <1>5 DEF Settled
  <2> QED  BY <1>1, <1>5, <2>1 DEF Working, Whole
<1>7. ~lost => engine.open
  BY <1>1 DEF Linked
<1>8. ~lost' => Linked'
  BY <1>1, <1>5, <1>7, SMT DEF Linked, Listed
<1>9. ~lost' /\ ~unrepaired' => Backed'
  <2> SUFFICES ASSUME ~lost, ~unrepaired' PROVE Backed'
    OBVIOUS
  <2>1. engine.open /\ durable' = durable
    BY <1>3, <1>7
  <2>2. run.outer => Physical(temps) \subseteq durable
    BY <1>1 DEF Backed
  <2>3. /\ run.outer /\ run'.kind # "created" => (Physical(temps))' \subseteq durable
        /\ ~(run'.kind = "drop" /\ run'.failed /\ run.outer) => (Physical(temps))' \subseteq v
    BY <2>1, <2>2
  <2> QED  BY <1>5, <2>1, <2>3 DEF Backed
<1>10. poisoned' = FALSE /\ temps' \subseteq done' /\ lost' \in BOOLEAN
  BY <1>1
<1> QED  BY <1>1, <1>6, <1>8, <1>9, <1>10, RunStep

LEMMA PhysicalParts ==
    ASSUME NEW S, NEW T
    PROVE  /\ Physical(S \cup T) = Physical(S) \cup Physical(T)
           /\ Physical(S \ T) = Physical(S) \ Physical(T)
           /\ \A x : <<x, 1>> \notin Physical(S) /\ <<x, 2>> \notin Physical(S)
           /\ S = {} => Physical(S) = {}
BY SMT DEF Physical

LEMMA CreateTemporarySafe == ASSUME IInv, CreateTemporary PROVE IInv'
<1>1. /\ run.kind = "create" /\ ~run.failed
      /\ UNCHANGED <<active, autocommit, saves, nextId, poisoned, done, lost>>
      /\ unrepaired' = unrepaired
  BY DEF CreateTemporary
<1>2. /\ run \in Runs /\ run.stmt \in done /\ done \subseteq Stmt /\ temps \subseteq done
      /\ unrepaired \in BOOLEAN /\ Working /\ (~lost /\ ~unrepaired => Backed)
  BY <1>1, BusyFacts
<1>3. Whole(engine.view) /\ engine.view \in SUBSET Stored
  BY <1>1, <1>2, EngineFields DEF Working, Whole, Sound
<1>4. ASSUME NEW S \in SUBSET {run.stmt}
      PROVE  Whole(engine.view \cup Physical(S)) /\ engine.view \cup Physical(S) \in SUBSET Stored
  <2>1. \A x : <<x, 1>> \notin Physical(S) /\ <<x, 2>> \notin Physical(S)
    BY PhysicalParts
  <2>2. Whole(engine.view \cup Physical(S))
    BY <1>3, <2>1, PhysicalApart
  <2>3. Physical(S) \subseteq Stored
    BY <1>2 DEF Physical, Stored
  <2> QED  BY <1>3, <2>2, <2>3
<1>5. ~lost /\ ~unrepaired /\ engine.open => Physical(temps) \subseteq engine.view
  BY <1>1, <1>2 DEF Backed
<1>6. CASE /\ Becomes(Leaves(TRUE, engine, durable, engine.view \cup Physical({run.stmt})))
           /\ temps' = temps \cup {run.stmt}
           /\ run' = [run EXCEPT !.kind = "created"]
  <2> DEFINE v == engine.view \cup Physical({run.stmt})
             t == TRUE
  <2>1. v \in SUBSET Stored /\ Whole(v) /\ (Physical(temps))' = Physical(temps) \cup Physical({run.stmt})
    <3>1. (Physical(temps))' = Physical(temps \cup {run.stmt})
      BY <1>6 DEF Physical
    <3> QED  BY <1>4, <3>1, PhysicalParts
  <2>2. /\ run' \in Runs /\ run'.kind = "created" /\ run'.outer = run.outer /\ ~run'.failed
        /\ run'.stmt = run.stmt
    BY <1>1, <1>2, <1>6 DEF Runs
  <2>3. temps' \subseteq done /\ unrepaired' \in BOOLEAN /\ unrepaired' = unrepaired
    BY <1>1, <1>2, <1>6
  <2>4. ~lost /\ ~unrepaired' /\ engine.open => (Physical(temps))' \subseteq v
    BY <1>5, <2>1, <2>3
  <2>5. Becomes(Leaves(t, engine, durable, v)) /\ t \in BOOLEAN
    BY <1>6
  <2> HIDE DEF v, t
  <2>6. ~unrepaired' => ~unrepaired
    BY <1>1, SMT
  <2>7. ~lost /\ ~unrepaired' /\ engine.open /\ (run.outer => Physical(temps) \subseteq durable) =>
           /\ run.outer /\ run'.kind # "created" => (Physical(temps))' \subseteq durable
           /\ ~(run'.kind = "drop" /\ run'.failed /\ run.outer) => (Physical(temps))' \subseteq v
    BY <2>2, <2>4
  <2> QED  BY <1>1, <2>1, <2>2, <2>3, <2>5, <2>6, <2>7, TemporaryStep
<1>7. CASE /\ \E S \in SUBSET {run.stmt} :
                 Becomes(Leaves(FALSE, engine, durable, engine.view \cup Physical(S)))
           /\ run' = [run EXCEPT !.failed = TRUE]
           /\ UNCHANGED temps
  <2>1. PICK S \in SUBSET {run.stmt} :
                 Becomes(Leaves(FALSE, engine, durable, engine.view \cup Physical(S)))
    BY <1>7
  <2> DEFINE v == engine.view \cup Physical(S)
             f == FALSE
  <2>2. /\ v \in SUBSET Stored /\ Whole(v) /\ engine.view \subseteq v
        /\ Becomes(Leaves(f, engine, durable, v)) /\ f \in BOOLEAN
    BY <1>4, <2>1
  <2>3. /\ run' \in Runs /\ run'.kind = run.kind /\ run'.outer = run.outer /\ run'.failed
        /\ run'.stmt = run.stmt
    BY <1>2, <1>7, FailedFields
  <2>4. /\ temps' \subseteq done /\ unrepaired' \in BOOLEAN /\ unrepaired' = unrepaired
        /\ (Physical(temps))' = Physical(temps)
    BY <1>1, <1>2, <1>7 DEF Physical
  <2>5. ~lost /\ ~unrepaired' /\ engine.open => (Physical(temps))' \subseteq v
    BY <1>5, <2>2, <2>4
  <2> HIDE DEF v, f
  <2>6. ~unrepaired' => ~unrepaired
    BY <1>1, SMT
  <2>7. ~lost /\ ~unrepaired' /\ engine.open /\ (run.outer => Physical(temps) \subseteq durable) =>
           /\ run.outer /\ run'.kind # "created" => (Physical(temps))' \subseteq durable
           /\ ~(run'.kind = "drop" /\ run'.failed /\ run.outer) => (Physical(temps))' \subseteq v
    BY <2>4, <2>5
  <2> QED  BY <1>1, <2>2, <2>3, <2>4, <2>6, <2>7, TemporaryStep
<1> QED  BY <1>6, <1>7 DEF CreateTemporary

LEMMA DropTemporarySafe == ASSUME IInv, DropTemporary PROVE IInv'
<1>1. PICK T \in (SUBSET temps) \ {{}} :
          \/ /\ Physical(T) \subseteq engine.view
             /\ Becomes(Leaves(TRUE, engine, durable, engine.view \ Physical(T)))
             /\ temps' = temps \ T
             /\ run' = [run EXCEPT !.kind = "dropped"]
             /\ UNCHANGED unrepaired
          \/ /\ \E P \in (SUBSET T) \ {T} :
                   /\ Physical(P) \subseteq engine.view
                   /\ Becomes(Leaves(FALSE, engine, durable, engine.view \ Physical(P)))
                   /\ unrepaired' = (unrepaired \/ (P # {} /\ ~run.outer))
             /\ run' = [run EXCEPT !.failed = TRUE]
             /\ UNCHANGED temps
  BY DEF DropTemporary
<1>2. /\ run.kind = "drop" /\ ~run.failed
      /\ UNCHANGED <<active, autocommit, saves, nextId, poisoned, done, lost>>
  BY DEF DropTemporary
<1>3. /\ run \in Runs /\ done \subseteq Stmt /\ temps \subseteq done
      /\ unrepaired \in BOOLEAN /\ Working /\ (~lost /\ ~unrepaired => Backed)
  BY <1>2, BusyFacts
<1>4. Whole(engine.view) /\ engine.view \in SUBSET Stored
  BY <1>2, <1>3, EngineFields DEF Working, Whole, Sound
<1>5. ASSUME NEW S
      PROVE  Whole(engine.view \ Physical(S)) /\ engine.view \ Physical(S) \in SUBSET Stored
  <2>1. \A x : <<x, 1>> \notin Physical(S) /\ <<x, 2>> \notin Physical(S)
    BY PhysicalParts
  <2>2. Whole(engine.view \ Physical(S))
    BY <1>4, <2>1, PhysicalApart
  <2> QED  BY <1>4, <2>2
<1>6. ~lost /\ ~unrepaired /\ engine.open => Physical(temps) \subseteq engine.view
  BY <1>2, <1>3 DEF Backed
<1>7. CASE /\ Becomes(Leaves(TRUE, engine, durable, engine.view \ Physical(T)))
           /\ temps' = temps \ T
           /\ run' = [run EXCEPT !.kind = "dropped"]
           /\ UNCHANGED unrepaired
  <2> DEFINE v == engine.view \ Physical(T)
             t == TRUE
  <2>1. v \in SUBSET Stored /\ Whole(v) /\ (Physical(temps))' = Physical(temps) \ Physical(T)
    <3>1. (Physical(temps))' = Physical(temps \ T)
      BY <1>7 DEF Physical
    <3> QED  BY <1>5, <3>1, PhysicalParts
  <2>2. /\ run' \in Runs /\ run'.kind = "dropped" /\ run'.outer = run.outer /\ ~run'.failed
        /\ run'.stmt = run.stmt
    BY <1>2, <1>3, <1>7 DEF Runs
  <2>3. temps' \subseteq done /\ unrepaired' \in BOOLEAN /\ unrepaired' = unrepaired
    BY <1>3, <1>7
  <2>4. /\ ~lost /\ ~unrepaired' /\ engine.open => (Physical(temps))' \subseteq v
        /\ Physical(temps) \subseteq durable => (Physical(temps))' \subseteq durable
    BY <1>6, <2>1, <2>3
  <2>5. Becomes(Leaves(t, engine, durable, v)) /\ t \in BOOLEAN
    BY <1>7
  <2> HIDE DEF v, t
  <2> QED  BY <1>2, <2>1, <2>2, <2>3, <2>4, <2>5, TemporaryStep
<1>8. CASE /\ \E P \in (SUBSET T) \ {T} :
                 /\ Physical(P) \subseteq engine.view
                 /\ Becomes(Leaves(FALSE, engine, durable, engine.view \ Physical(P)))
                 /\ unrepaired' = (unrepaired \/ (P # {} /\ ~run.outer))
           /\ run' = [run EXCEPT !.failed = TRUE]
           /\ UNCHANGED temps
  <2>1. PICK P \in (SUBSET T) \ {T} :
                 /\ Becomes(Leaves(FALSE, engine, durable, engine.view \ Physical(P)))
                 /\ unrepaired' = (unrepaired \/ (P # {} /\ ~run.outer))
    BY <1>8
  <2> DEFINE v == engine.view \ Physical(P)
             f == FALSE
  <2>2. /\ v \in SUBSET Stored /\ Whole(v)
        /\ Becomes(Leaves(f, engine, durable, v)) /\ f \in BOOLEAN
    BY <1>5, <2>1
  <2>3. /\ run' \in Runs /\ run'.kind = "drop" /\ run'.outer = run.outer /\ run'.failed
        /\ run'.stmt = run.stmt
    BY <1>2, <1>3, <1>8, FailedFields
  <2>4. /\ temps' \subseteq done /\ unrepaired' \in BOOLEAN /\ (~unrepaired' => ~unrepaired)
        /\ (Physical(temps))' = Physical(temps)
    BY <1>3, <1>8, <2>1 DEF Physical
  <2>5. ~lost /\ ~unrepaired' /\ engine.open /\ ~run.outer => (Physical(temps))' \subseteq v
    <3> SUFFICES ASSUME ~lost, ~unrepaired', engine.open, ~run.outer
                 PROVE  (Physical(temps))' \subseteq v
      OBVIOUS
    <3>1. P = {}
      BY <2>1
    <3>2. Physical(P) = {}
      BY <3>1, PhysicalParts
    <3> QED  BY <1>6, <2>4, <3>2
  <2> HIDE DEF v, f
  <2> QED  BY <1>2, <2>2, <2>3, <2>4, <2>5, TemporaryStep
<1> QED  BY <1>1, <1>7, <1>8

-----------------------------------------------------------------------------
(* Statements end.                                                         *)

(* What a poisoned connection is left with. *)
LEMMA PoisonSafe ==
    ASSUME IInv, NEW c, Sound(c.e, c.d, nextId), Poison(c), run' = Idle,
           UNCHANGED <<autocommit, saves, nextId, done, lost, repairVars>>
    PROVE  IInv'
<1>1. PICK x \in IF c.e.open THEN RollbackOutcomes(c.e, c.d) ELSE Skip(c.e, c.d) :
         /\ engine' = x.e /\ durable' = x.d /\ poisoned' = TRUE
         /\ active' = (active /\ x.e.open)
  BY DEF Poison, Becomes
<1>2. c.d \in SUBSET Stored /\ Whole(c.d)
  BY DEF Sound
<1>3. Sound(x.e, x.d, nextId)
  <2>1. CASE c.e.open
    BY <1>1, <1>2, <2>1, RollbackShape, SMT DEF Settled
  <2>2. CASE ~c.e.open
    <3>1. x = Outcome(TRUE, c.e, c.d)
      BY <1>1, <2>2 DEF Skip
    <3>2. x.e = c.e /\ x.d = c.d
      BY <3>1 DEF Outcome
    <3> QED  BY <3>2
  <2> QED  BY <2>1, <2>2
<1>4. /\ engine' \in Engine /\ durable' \in SUBSET Stored /\ Whole(durable')
      /\ \A i \in 1 .. Len(engine'.stack) : engine'.stack[i].id < nextId'
  BY <1>1, <1>3 DEF Sound
<1>5. active' \in BOOLEAN
  BY <1>1
<1> QED  BY <1>1, <1>4, <1>5, PoisonStep

(* A statement that ends, well or in poison. *)
LEMMA CompleteSafe ==
    ASSUME IInv, run.kind # "none", run' = Idle, NEW c, Sound(c.e, c.d, nextId),
           IF c.ok THEN Becomes(c) /\ UNCHANGED <<active, poisoned>> ELSE Poison(c),
           UNCHANGED <<autocommit, saves, nextId, done, lost, repairVars>>,
           c.ok => Settled(c.e, c.d, nextId),
           c.ok /\ ~lost => Agree(c.e, active, saves),
           c.ok /\ ~lost /\ ~unrepaired => Physical(temps) \subseteq c.e.view
    PROVE  IInv'
<1>1. CASE ~c.ok
  BY <1>1, PoisonSafe
<1>2. CASE c.ok
  <2>1. /\ engine' = c.e /\ durable' = c.d /\ active' = active /\ poisoned' = poisoned
        /\ autocommit' = autocommit /\ saves' = saves /\ nextId' = nextId /\ done' = done
        /\ lost' = lost /\ temps' = temps /\ unrepaired' = unrepaired
    BY <1>2 DEF Becomes, repairVars
  <2>2. /\ ~poisoned /\ poisoned \in BOOLEAN
        /\ active \in BOOLEAN /\ autocommit \in BOOLEAN /\ lost \in BOOLEAN
        /\ unrepaired \in BOOLEAN /\ done \subseteq Stmt /\ temps \subseteq done
    BY BusyFacts
  <2>3. Registry' /\ saves' \in Seq(Entry) /\ nextId' \in 1 .. MaxSavepoints + 1
    BY <2>1, ClearedTypes
  <2>4. /\ poisoned' = FALSE /\ active' \in BOOLEAN /\ autocommit' \in BOOLEAN
        /\ lost' \in BOOLEAN /\ unrepaired' \in BOOLEAN /\ done' \subseteq Stmt /\ temps' \subseteq done'
    BY <2>1, <2>2
  <2>5. Settled(engine', durable', nextId')
    BY <1>2, <2>1
  <2>6. ~lost' => Agree(engine', active', saves')
    BY <1>2, <2>1, SMT
  <2>7. ~lost' /\ ~unrepaired' => (Physical(temps) \subseteq engine.view)'
    BY <1>2, <2>1, SMT DEF Physical
  <2> QED  BY <2>3, <2>4, <2>5, <2>6, <2>7, IdleStep
<1> QED  BY <1>1, <1>2

(* The transaction a statement opened itself ends with it. *)
LEMMA OuterEnds ==
    ASSUME IInv, run.kind # "none", run.outer, ~lost, NEW e, ~e.open, ~e.bySavepoint
    PROVE  Agree(e, active, saves)
<1>1. ~active /\ saves = <<>>
  BY BusyFacts DEF Linked
<1> QED  BY <1>1, NoneListed

LEMMA FinishReadSafe == ASSUME IInv, FinishRead PROVE IInv'
<1>1. PICK c \in IF run.outer THEN CommitOutcomes(engine, durable) ELSE Skip(engine, durable) :
         IF c.ok THEN Becomes(c) /\ UNCHANGED <<active, poisoned>> ELSE Poison(c)
  BY DEF FinishRead
<1>2. /\ run.kind = "read" /\ run' = Idle
      /\ UNCHANGED <<autocommit, saves, nextId, done, lost, repairVars>>
  BY DEF FinishRead
<1>3. Working /\ (~lost => Linked) /\ (~lost /\ ~unrepaired => Backed) /\ ~run.failed
  BY <1>2, BusyFacts
<1>4. Settled(engine, durable, nextId)
  BY <1>2, <1>3 DEF Working, Settled, Whole
<1>5. ~lost => engine.open /\ (run.outer <=> ~active)
  BY <1>2, <1>3 DEF Linked
<1>6. ~lost /\ ~unrepaired => Physical(temps) \subseteq engine.view
  BY <1>2, <1>3, <1>5 DEF Backed
<1>7. CASE run.outer
  <2>1. Sound(engine, durable, nextId) /\ Whole(engine.view)
    BY <1>4 DEF Settled
  <2>2. /\ Sound(c.e, c.d, nextId)
        /\ c.ok => ~c.e.open /\ c.e.view = engine.view /\ Settled(c.e, c.d, nextId)
    BY <1>1, <1>7, <2>1, CommitShape, SMT
  <2>3. c.ok /\ ~lost => Agree(c.e, active, saves)
    BY <1>2, <1>7, <2>2, ClosedBare, OuterEnds
  <2> QED  BY <1>1, <1>2, <1>6, <2>2, <2>3, CompleteSafe
<1>8. CASE ~run.outer
  <2>1. c = Outcome(TRUE, engine, durable)
    BY <1>1, <1>8 DEF Skip
  <2>2. c.ok /\ c.e = engine /\ c.d = durable
    BY <2>1 DEF Outcome
  <2>3. ~lost => Agree(engine, active, saves)
    BY <1>3, <1>5, <1>8 DEF Linked, Agree
  <2> QED  BY <1>1, <1>2, <1>4, <1>6, <2>2, <2>3, CompleteSafe DEF Settled
<1> QED  BY <1>7, <1>8

LEMMA FailReadSafe == ASSUME IInv, FailRead PROVE IInv'
<1>1. PICK f \in {engine, ClosedEngine(durable)} :
         IF run.outer
         THEN /\ \E c \in RollbackOutcomes(f, durable) :
                    IF c.ok THEN Becomes(c) /\ UNCHANGED <<active, poisoned>> ELSE Poison(c)
              /\ UNCHANGED <<saves, lost, stuck>>
         ELSE FailsWith(Outcome(FALSE, f, durable)) /\ UNCHANGED poisoned
  BY DEF FailRead
<1>2. /\ run.kind = "read" /\ run' = Idle /\ UNCHANGED <<autocommit, nextId, done, temps, unrepaired>>
      /\ temps' = temps /\ unrepaired' = unrepaired
  BY DEF FailRead
<1>3. /\ Working /\ (~lost => Linked) /\ (~lost /\ ~unrepaired => Backed) /\ ~run.failed
      /\ ~poisoned /\ poisoned \in BOOLEAN /\ active \in BOOLEAN /\ autocommit \in BOOLEAN
      /\ lost \in BOOLEAN /\ unrepaired \in BOOLEAN /\ done \subseteq Stmt /\ temps \subseteq done
      /\ durable \in SUBSET Stored /\ Whole(durable)
  BY <1>2, BusyFacts
<1>4. Settled(engine, durable, nextId)
  BY <1>2, <1>3 DEF Working, Settled, Whole
<1>5. ~lost => engine.open /\ (run.outer <=> ~active)
  BY <1>2, <1>3 DEF Linked
<1>6. Settled(f, durable, nextId) /\ (f = engine \/ ~f.open)
  BY <1>3, <1>4, ClosedSettled
<1>7. CASE run.outer
  <2>1. PICK c \in RollbackOutcomes(f, durable) :
           IF c.ok THEN Becomes(c) /\ UNCHANGED <<active, poisoned>> ELSE Poison(c)
    BY <1>1, <1>7
  <2>2. UNCHANGED <<autocommit, saves, nextId, done, lost, repairVars>>
    BY <1>1, <1>2, <1>7 DEF repairVars
  <2>3. /\ c.d = durable
        /\ ~c.ok => c.e = f
        /\ c.ok => c.e = ClosedEngine(durable) /\ Settled(c.e, durable, nextId) /\ ~c.e.open
    BY <1>3, <2>1, RollbackShape, SMT
  <2>4. Sound(c.e, c.d, nextId)
    BY <1>6, <2>3 DEF Settled
  <2>5. c.ok /\ ~lost => Agree(c.e, active, saves)
    BY <1>2, <1>7, <2>3, ClosedBare, OuterEnds
  <2>6. c.ok /\ ~lost /\ ~unrepaired => Physical(temps) \subseteq c.e.view
    <3> SUFFICES ASSUME c.ok, ~lost, ~unrepaired PROVE Physical(temps) \subseteq c.e.view
      OBVIOUS
    <3>1. Physical(temps) \subseteq durable
      BY <1>2, <1>3, <1>7 DEF Backed
    <3>2. c.e.view = durable
      BY <2>3 DEF Settled, Sound
    <3> QED  BY <3>1, <3>2
  <2> QED  BY <1>2, <2>1, <2>2, <2>3, <2>4, <2>5, <2>6, CompleteSafe
<1>8. CASE ~run.outer
  <2>1. /\ engine' = f /\ durable' = durable /\ active' = active /\ saves' = saves
        /\ lost' = (lost \/ (active /\ engine.open /\ ~f.open)) /\ poisoned' = poisoned
    BY <1>1, <1>8 DEF FailsWith, Becomes, Outcome
  <2>2. ~lost' => ~lost /\ f = engine
    BY <1>5, <1>6, <1>8, <2>1
  <2>3. ~lost' => Agree(engine', active', saves')
    BY <1>3, <1>5, <1>8, <2>1, <2>2 DEF Linked, Agree
  <2>4. ~lost' /\ ~unrepaired' => (Physical(temps) \subseteq engine.view)'
    <3> SUFFICES ASSUME ~lost', ~unrepaired' PROVE (Physical(temps) \subseteq engine.view)'
      OBVIOUS
    <3>1. ~lost /\ ~unrepaired /\ f = engine
      BY <1>2, <2>2, SMT
    <3>2. Backed /\ engine.open /\ run.kind # "drop"
      BY <1>2, <1>3, <1>5, <3>1
    <3>3. Physical(temps) \subseteq engine.view
      BY <3>2 DEF Backed
    <3> QED  BY <1>2, <2>1, <3>1, <3>3 DEF Physical
  <2>5. Registry' /\ saves' \in Seq(Entry) /\ nextId' \in 1 .. MaxSavepoints + 1
    BY <1>2, <2>1, ClearedTypes
  <2>6. /\ poisoned' = FALSE /\ active' \in BOOLEAN /\ autocommit' \in BOOLEAN
        /\ lost' \in BOOLEAN /\ unrepaired' \in BOOLEAN /\ done' \subseteq Stmt /\ temps' \subseteq done'
    BY <1>2, <1>3, <2>1
  <2>7. Settled(engine', durable', nextId')
    BY <1>2, <1>6, <2>1
  <2> QED  BY <1>2, <2>3, <2>4, <2>5, <2>6, <2>7, IdleStep
<1> QED  BY <1>7, <1>8

(* The savepoints of e other than a statement's own are still in f. *)
Keeps(f, e) ==
    \A i \in 1 .. Len(e.stack) :
        e.stack[i].id # 0 => \E k \in 1 .. Len(f.stack) : f.stack[k].id = e.stack[i].id

LEMMA KeptListed ==
    ASSUME IInv, NEW e, NEW f, Keeps(f, e), Listed(e, saves)
    PROVE  Listed(f, saves)
<1> SUFFICES ASSUME NEW i \in 1 .. Len(saves)
             PROVE  \E k \in 1 .. Len(f.stack) : f.stack[k].id = saves[i].id
  BY DEF Listed
<1>1. saves[i].id # 0
  BY EntryFields, SMT
<1>2. PICK l \in 1 .. Len(e.stack) : e.stack[l].id = saves[i].id
  BY DEF Listed
<1> QED  BY <1>1, <1>2 DEF Keeps

(* A statement's own savepoint is the last one. *)
LEMMA OwnMark ==
    ASSUME NEW e, NEW d, NEW n, Sound(e, d, n), NEW k \in 1 .. Len(e.stack),
           e.stack[k].id = StatementMark
    PROVE  /\ k = Len(e.stack)
           /\ \A i \in 1 .. Len(e.stack) : i < k => e.stack[i].id # 0
           /\ \A i \in 1 .. Len(e.stack) : e.stack[i].id # 0 => i < k
<1>1. Len(e.stack) \in Nat /\ \A i \in 1 .. Len(e.stack) : e.stack[i].id \in Nat
  BY EngineFields DEF Sound
<1>2. \A i, j \in 1 .. Len(e.stack) : i < j => 0 < e.stack[i].id
  BY DEF Sound
<1>3. e.stack[k].id = 0
  BY DEF StatementMark
<1>4. k = Len(e.stack)
  BY <1>1, <1>2, <1>3, SMT
<1>5. \A i \in 1 .. Len(e.stack) : i < k => e.stack[i].id # 0
  BY <1>1, <1>2, SMT
<1>6. \A i \in 1 .. Len(e.stack) : e.stack[i].id # 0 => i < k
  BY <1>1, <1>3, <1>4, SMT
<1> QED  BY <1>4, <1>5, <1>6

LEMMA OwnRelease ==
    ASSUME NEW e, NEW d, NEW n, Sound(e, d, n), Whole(e.view),
           NEW o \in ReleaseOutcomes(e, d, StatementMark)
    PROVE  /\ Sound(o.e, o.d, n)
           /\ o.ok => /\ Settled(o.e, o.d, n) /\ o.e.view = e.view
                      /\ ~e.bySavepoint => o.d = d /\ o.e.open /\ ~o.e.bySavepoint /\ Keeps(o.e, e)
<1>1. CASE ~o.ok /\ o.e = e /\ o.d = d
  BY <1>1
<1>2. CASE e.bySavepoint /\ o \in CommitOutcomes(e, d)
  BY <1>2, CommitShape, SMT
<1>3. CASE o.ok /\ o.d = d /\ Released(o.e, e, d, n, StatementMark)
  <2>0. o.e.open /\ o.e.bySavepoint = e.bySavepoint /\ o.e.view = e.view /\ Sound(o.e, d, n)
    BY <1>3 DEF Released
  <2>1. PICK k \in 1 .. Len(e.stack) : e.stack[k].id = StatementMark /\ Below(o.e, e, k)
    BY <1>3 DEF Released
  <2>2. /\ \A i \in 1 .. Len(e.stack) : i < k => e.stack[i].id # 0
        /\ \A i \in 1 .. Len(e.stack) : e.stack[i].id # 0 => i < k
    BY <2>1, OwnMark
  <2>3. NoStatementMark(o.e)
    BY <2>1, <2>2 DEF NoStatementMark, Below
  <2>4. Keeps(o.e, e)
    BY <2>1, <2>2 DEF Keeps, Below
  <2> QED  BY <1>3, <2>0, <2>3, <2>4 DEF Settled
<1> QED  BY <1>1, <1>2, <1>3, ReleaseShape, SMT

LEMMA FinishStatementSafe == ASSUME IInv, FinishStatement PROVE IInv'
<1>1. PICK r \in IF run.kind = "dml" THEN ReleaseOutcomes(engine, durable, StatementMark)
                 ELSE Skip(engine, durable) :
         \E c \in IF r.ok /\ run.outer THEN CommitOutcomes(r.e, r.d) ELSE {r} :
            IF c.ok THEN Becomes(c) /\ UNCHANGED <<active, poisoned>> ELSE Poison(c)
  BY DEF FinishStatement
<1>2. PICK c \in IF r.ok /\ run.outer THEN CommitOutcomes(r.e, r.d) ELSE {r} :
         IF c.ok THEN Becomes(c) /\ UNCHANGED <<active, poisoned>> ELSE Poison(c)
  BY <1>1
<1>3. /\ Executed /\ run' = Idle /\ UNCHANGED <<autocommit, saves, nextId, done, lost, repairVars>>
  BY DEF FinishStatement
<1>4. /\ run.kind \in {"dml", "ddl", "created", "dropped"} /\ ~run.failed
      /\ run.kind \in {"dml", "ddl"} => engine.open /\ Rows(run.stmt) \subseteq engine.view
  BY <1>3 DEF Executed, Writing
<1>5. Working /\ (~lost => Linked) /\ (~lost /\ ~unrepaired => Backed)
  BY <1>4, BusyFacts
<1>6. Sound(engine, durable, nextId) /\ Whole(engine.view)
  <2>1. ASSUME NEW s \in Stmt PROVE Pair(engine.view, s)
    <3>1. CASE s # run.stmt \/ run.kind \notin {"dml", "ddl"}
      BY <1>5, <3>1 DEF Working
    <3>2. CASE s = run.stmt /\ run.kind \in {"dml", "ddl"}
      BY <1>4, <3>2 DEF Rows, Pair
    <3> QED  BY <3>1, <3>2
  <2> QED  BY <1>5, <2>1 DEF Working, Whole
<1>7. ~lost => /\ engine.open /\ ~engine.bySavepoint /\ (run.outer <=> ~active)
               /\ Listed(engine, saves) /\ (~active => saves = <<>>)
  BY <1>4, <1>5 DEF Linked
<1>8. ~lost /\ ~unrepaired => Physical(temps) \subseteq engine.view
  BY <1>4, <1>5, <1>7 DEF Backed
<1>9. /\ Sound(r.e, r.d, nextId)
      /\ r.ok => /\ Settled(r.e, r.d, nextId) /\ r.e.view = engine.view
                 /\ ~lost => r.e.open /\ ~r.e.bySavepoint /\ Listed(r.e, saves)
  <2>1. CASE run.kind = "dml"
    <3>1. /\ Sound(r.e, r.d, nextId)
          /\ r.ok => /\ Settled(r.e, r.d, nextId) /\ r.e.view = engine.view
                     /\ ~engine.bySavepoint => r.e.open /\ ~r.e.bySavepoint /\ Keeps(r.e, engine)
      BY <1>1, <1>6, <2>1, OwnRelease, SMT
    <3> QED  BY <1>7, <3>1, KeptListed
  <2>2. CASE run.kind # "dml"
    <3>1. r = Outcome(TRUE, engine, durable)
      BY <1>1, <2>2 DEF Skip
    <3>2. r.ok /\ r.e = engine /\ r.d = durable
      BY <3>1 DEF Outcome
    <3>3. Settled(engine, durable, nextId)
      BY <1>5, <1>6, <2>2 DEF Working, Settled
    <3> QED  BY <1>6, <1>7, <3>2, <3>3
  <2> QED  BY <2>1, <2>2
<1>10. /\ Sound(c.e, c.d, nextId)
       /\ c.ok => /\ Settled(c.e, c.d, nextId) /\ c.e.view = engine.view
                  /\ ~lost => Agree(c.e, active, saves)
  <2>1. CASE r.ok /\ run.outer
    <3>1. Sound(r.e, r.d, nextId) /\ Whole(r.e.view) /\ r.e.view = engine.view
      BY <1>9, <2>1 DEF Settled
    <3>2. /\ Sound(c.e, c.d, nextId)
          /\ c.ok => ~c.e.open /\ c.e.view = r.e.view /\ Settled(c.e, c.d, nextId)
      BY <1>2, <2>1, <3>1, CommitShape, SMT
    <3>3. c.ok /\ ~lost => Agree(c.e, active, saves)
      BY <1>4, <2>1, <3>2, ClosedBare, OuterEnds
    <3> QED  BY <3>1, <3>2, <3>3
  <2>2. CASE ~(r.ok /\ run.outer)
    <3>1. c = r
      BY <1>2, <2>2
    <3>2. c.ok /\ ~lost => Agree(c.e, active, saves)
      BY <1>7, <1>9, <2>2, <3>1 DEF Agree
    <3> QED  BY <1>9, <3>1, <3>2
  <2> QED  BY <2>1, <2>2
<1> QED  BY <1>2, <1>3, <1>4, <1>8, <1>10, CompleteSafe

LEMMA UndoInnerShape ==
    ASSUME IInv, run.kind = "dml", run.failed, NEW u \in UndoInner
    PROVE  /\ Sound(u.e, u.d, nextId)
           /\ u.ok /\ run.outer => u.d = durable
           /\ u.ok /\ ~run.outer =>
                 /\ Settled(u.e, u.d, nextId)
                 /\ ~lost => u.e.open /\ ~u.e.bySavepoint /\ Listed(u.e, saves)
                 /\ ~lost /\ ~unrepaired => Physical(temps) \subseteq u.e.view
<1>1. Working /\ (~lost => Linked) /\ (~lost /\ ~unrepaired => Backed)
  BY BusyFacts
<1>2. /\ Sound(engine, durable, nextId) /\ (run.outer => ~engine.bySavepoint)
      /\ engine.open => (run.failed /\ run.outer) \/ OnTop(engine)
  BY <1>1 DEF Working
<1>3. CASE Marks(engine, StatementMark) = {} /\ engine.open
  <2>1. u = Outcome(TRUE, engine, durable)
    BY <1>3 DEF UndoInner, Skip
  <2>2. u.e = engine /\ u.d = durable
    BY <2>1 DEF Outcome
  <2>3. ~OnTop(engine)
    <3>1. Len(engine.stack) \in Nat
      BY <1>2, EngineFields DEF Sound
    <3> QED  BY <1>3, <3>1, SMT DEF OnTop, Marks, StatementMark
  <2> QED  BY <1>2, <1>3, <2>2, <2>3
<1>4. CASE ~(Marks(engine, StatementMark) = {} /\ engine.open)
  <2>1. PICK b \in RollbackToOutcomes(engine, durable, StatementMark) :
           u \in IF b.ok THEN ReleaseOutcomes(b.e, b.d, StatementMark) ELSE {b}
    BY <1>4 DEF UndoInner
  <2>2. /\ b.d = durable
        /\ ~b.ok => b.e = engine
        /\ b.ok => Returned(b.e, engine, durable, nextId, StatementMark)
    BY <1>2, RollbackToShape
  <2>3. CASE ~b.ok
    <3>1. u = b
      BY <2>1, <2>3
    <3> QED  BY <1>2, <2>2, <2>3, <3>1
  <2>4. CASE b.ok
    <3>0. /\ engine.open /\ b.e.open /\ b.e.bySavepoint = engine.bySavepoint
          /\ Sound(b.e, durable, nextId)
      BY <2>2, <2>4 DEF Returned
    <3>1. PICK k \in 1 .. Len(engine.stack) : engine.stack[k].id = StatementMark /\ At(b.e, engine, k)
      BY <2>2, <2>4 DEF Returned
    <3>2. k = Len(engine.stack) /\ Len(engine.stack) \in Nat
      <4>1. k = Len(engine.stack)
        BY <1>2, <3>1, OwnMark
      <4>2. Len(engine.stack) \in Nat
        BY <1>2, EngineFields DEF Sound
      <4> QED  BY <4>1, <4>2
    <3>3. Sound(b.e, durable, nextId) /\ Whole(b.e.view) /\ b.e.bySavepoint = engine.bySavepoint
      BY <1>2, <3>0, <3>1 DEF Sound, At
    <3>4. Keeps(b.e, engine) /\ OnTop(engine) /\ engine.open
      <4>1. Keeps(b.e, engine)
        BY <3>1, <3>2 DEF Keeps, At
      <4>2. OnTop(engine)
        BY <3>1, <3>2, SMT DEF OnTop, StatementMark
      <4> QED  BY <3>0, <4>1, <4>2
    <3>5. u \in ReleaseOutcomes(b.e, durable, StatementMark)
      BY <2>1, <2>2, <2>4
    <3>6. /\ Sound(u.e, u.d, nextId)
          /\ u.ok => /\ Settled(u.e, u.d, nextId) /\ u.e.view = b.e.view
                     /\ ~b.e.bySavepoint =>
                           u.d = durable /\ u.e.open /\ ~u.e.bySavepoint /\ Keeps(u.e, b.e)
      BY <3>3, <3>5, OwnRelease
    <3>7. u.ok /\ run.outer => u.d = durable
      BY <1>2, <3>3, <3>6
    <3>8. u.ok /\ ~lost => u.e.open /\ ~u.e.bySavepoint /\ Listed(u.e, saves)
      <4> SUFFICES ASSUME u.ok, ~lost PROVE u.e.open /\ ~u.e.bySavepoint /\ Listed(u.e, saves)
        OBVIOUS
      <4>1. ~b.e.bySavepoint /\ Listed(engine, saves)
        BY <1>1, <3>3, <3>4 DEF Linked
      <4>2. Listed(b.e, saves)
        BY <3>4, <4>1, KeptListed
      <4> QED  BY <3>6, <4>1, <4>2, KeptListed
    <3>9. u.ok /\ ~lost /\ ~unrepaired => Physical(temps) \subseteq u.e.view
      BY <1>1, <3>1, <3>2, <3>4, <3>6 DEF Backed, At
    <3> QED  BY <3>6, <3>7, <3>8, <3>9
  <2> QED  BY <2>3, <2>4
<1> QED  BY <1>3, <1>4

LEMMA FailStatementSafe == ASSUME IInv, FailStatement PROVE IInv'
<1>1. PICK u \in IF run.kind = "dml" THEN UndoInner ELSE Skip(engine, durable) :
         \E c \in IF u.ok /\ run.outer THEN RollbackOutcomes(u.e, u.d) ELSE {u} :
            IF c.ok THEN Becomes(c) /\ UNCHANGED <<active, poisoned>> ELSE Poison(c)
  BY DEF FailStatement
<1>2. PICK c \in IF u.ok /\ run.outer THEN RollbackOutcomes(u.e, u.d) ELSE {u} :
         IF c.ok THEN Becomes(c) /\ UNCHANGED <<active, poisoned>> ELSE Poison(c)
  BY <1>1
<1>3. run.failed /\ run' = Idle /\ UNCHANGED <<autocommit, saves, nextId, done, lost, repairVars>>
  BY DEF FailStatement
<1>4. run.kind \in {"dml", "ddl", "create", "drop", "dropped"}
  <2>1. run \in Runs /\ (run.kind = "none" => run = Idle) /\ (run.kind \in {"read", "created"} => ~run.failed)
    BY DEF IInv, Types, RunOK
  <2> QED  BY <1>3, <2>1, IdleRun DEF Runs
<1>5. /\ Working /\ (~lost => Linked) /\ (~lost /\ ~unrepaired => Backed)
      /\ durable \in SUBSET Stored /\ Whole(durable) /\ (run.kind = "ddl" => run.outer)
  BY <1>4, BusyFacts
<1>6. /\ Sound(u.e, u.d, nextId)
      /\ u.ok /\ run.outer => u.d = durable
      /\ u.ok /\ ~run.outer =>
            /\ Settled(u.e, u.d, nextId)
            /\ ~lost => u.e.open /\ ~u.e.bySavepoint /\ Listed(u.e, saves)
            /\ ~lost /\ ~unrepaired => Physical(temps) \subseteq u.e.view
  <2>1. CASE run.kind = "dml"
    BY <1>1, <1>3, <2>1, UndoInnerShape
  <2>2. CASE run.kind # "dml"
    <3>1. u = Outcome(TRUE, engine, durable)
      BY <1>1, <2>2 DEF Skip
    <3>2. u.ok /\ u.e = engine /\ u.d = durable
      BY <3>1 DEF Outcome
    <3>3. Sound(engine, durable, nextId) /\ (~run.outer => Settled(engine, durable, nextId))
      BY <1>4, <1>5, <2>2 DEF Working, Settled, Whole
    <3>4. ~run.outer /\ ~lost => engine.open /\ ~engine.bySavepoint /\ Listed(engine, saves)
      BY <1>4, <1>5, <2>2 DEF Linked
    <3>5. ~run.outer /\ ~lost /\ ~unrepaired => Physical(temps) \subseteq engine.view
      BY <1>5, <3>4 DEF Backed
    <3> QED  BY <3>2, <3>3, <3>4, <3>5
  <2> QED  BY <2>1, <2>2
<1>7. CASE u.ok /\ run.outer
  <2>1. /\ c.d = durable
        /\ ~c.ok => c.e = u.e
        /\ c.ok => Settled(c.e, durable, nextId) /\ ~c.e.open
    <3>1. c \in RollbackOutcomes(u.e, durable)
      BY <1>2, <1>6, <1>7
    <3> QED  BY <1>5, <3>1, RollbackShape, SMT
  <2>2. Sound(c.e, c.d, nextId)
    BY <1>6, <1>7, <2>1 DEF Settled
  <2>3. c.ok /\ ~lost => Agree(c.e, active, saves)
    BY <1>4, <1>7, <2>1, ClosedBare, OuterEnds
  <2>4. c.ok /\ ~lost /\ ~unrepaired => Physical(temps) \subseteq c.e.view
    <3> SUFFICES ASSUME c.ok, ~lost, ~unrepaired PROVE Physical(temps) \subseteq c.e.view
      OBVIOUS
    <3>1. Physical(temps) \subseteq durable
      BY <1>4, <1>5, <1>7 DEF Backed
    <3>2. c.e.view = durable
      BY <2>1 DEF Settled, Sound
    <3> QED  BY <3>1, <3>2
  <2> QED  BY <1>2, <1>3, <1>4, <2>1, <2>2, <2>3, <2>4, CompleteSafe
<1>8. CASE ~(u.ok /\ run.outer)
  <2>1. c = u
    BY <1>2, <1>8
  <2>2. c.ok /\ ~lost => Agree(c.e, active, saves)
    <3> SUFFICES ASSUME u.ok, ~lost PROVE Agree(u.e, active, saves)
      BY <2>1
    <3>1. active
      BY <1>4, <1>5, <1>8 DEF Linked
    <3> QED  BY <1>6, <1>8, <3>1 DEF Agree
  <2> QED  BY <1>2, <1>3, <1>4, <1>6, <1>8, <2>1, <2>2, CompleteSafe
<1> QED  BY <1>7, <1>8

LEMMA BeginCreateTemporarySafe ==
    ASSUME IInv, NEW s \in Stmt, BeginCreateTemporary(s) PROVE IInv'
<1>1. /\ BeginTemporary("create", s) /\ done' = done \cup {s} /\ done \subseteq Stmt
      /\ s \in Stmt \cup {"-"}
  BY DEF BeginCreateTemporary, IInv, Types
<1>2. "create" \in {"create", "drop"}
  OBVIOUS
<1>3. done' \subseteq Stmt /\ done \subseteq done' /\ s \in done'
  BY <1>1
<1> QED  BY <1>1, <1>2, <1>3, BeginTemporarySafe

LEMMA BeginDropTemporarySafe == ASSUME IInv, BeginDropTemporary PROVE IInv'
<1> DEFINE kind == "drop"
           s == "-"
<1>1. /\ BeginTemporary(kind, s) /\ done' = done /\ done \subseteq Stmt
      /\ s \in Stmt \cup {"-"} /\ kind \in {"create", "drop"} /\ kind # "create"
  BY DEF BeginDropTemporary, IInv, Types
<1> HIDE DEF kind, s
<1> QED  BY <1>1, BeginTemporarySafe

LEMMA NoTables == Physical({}) = {}
BY DEF Physical

LEMMA ReopenSafe ==
    ASSUME done \subseteq Stmt, durable \in SUBSET Stored, Whole(durable), Reopen
    PROVE  IInv'
<1> DEFINE d == durable \ Physical(Stmt)
           first == 1
<1>1. /\ durable' = d /\ engine' = ClosedEngine(d) /\ active' = FALSE /\ autocommit' = TRUE
      /\ saves' = <<>> /\ nextId' = first /\ poisoned' = FALSE /\ run' = Idle /\ lost' = FALSE
      /\ temps' = {} /\ unrepaired' = FALSE /\ done' = done
  BY DEF Reopen
<1>3. d \in SUBSET Stored
  OBVIOUS
<1>4. Whole(d)
  <2>1. \A s \in Stmt : <<s, 1>> \notin Physical(Stmt) /\ <<s, 2>> \notin Physical(Stmt)
    BY SMT DEF Physical
  <2> QED  BY <2>1 DEF Whole, Pair
<1>5. first \in 1 .. MaxSavepoints + 1
  BY SessionTransactionAssumption, SMT
<1> HIDE DEF d, first
<1>6. /\ Settled(engine', durable', nextId') /\ ~engine'.open /\ ~engine'.bySavepoint
  BY <1>1, <1>3, <1>4, ClosedSettled
<1>7. Registry' /\ saves' \in Seq(Entry)
  BY <1>1, EmptyRegistry, SMT DEF Registry
<1>8. Agree(engine', active', saves')
  BY <1>1, <1>6, NoneListed
<1>9. (Physical(temps) \subseteq engine.view)'
  BY <1>1, NoTables
<1> QED  BY <1>1, <1>5, <1>6, <1>7, <1>8, <1>9, IdleStep

LEMMA InitSafe == ASSUME Init PROVE IInv
<1> DEFINE none == {}
<1>1. /\ durable = none /\ engine = ClosedEngine(none) /\ active = FALSE /\ autocommit = TRUE
      /\ saves = <<>> /\ nextId = 1 /\ poisoned = FALSE /\ run = Idle /\ done = none
      /\ lost = FALSE /\ temps = {} /\ unrepaired = FALSE
  BY DEF Init
<1>2. none \in SUBSET Stored /\ Whole(none) /\ none \subseteq Stmt /\ {} \subseteq none
  BY DEF Whole, Pair
<1> HIDE DEF none
<1>3. /\ Settled(engine, durable, nextId) /\ engine \in Engine /\ ~engine.open
      /\ ~engine.bySavepoint /\ engine.stack = <<>>
  BY <1>1, <1>2, ClosedSettled
<1>4. /\ run.kind = "none" /\ ~run.outer /\ ~run.failed /\ run \in Runs
  BY <1>1, IdleRun
<1>5. Registry /\ saves \in Seq(Entry) /\ Listed(engine, saves)
  BY <1>1, EmptyRegistry, SMT DEF Registry
<1>6. nextId \in 1 .. MaxSavepoints + 1
  BY <1>1, SessionTransactionAssumption, SMT
<1>7. Types
  <2>1. /\ active \in BOOLEAN /\ autocommit \in BOOLEAN /\ poisoned \in BOOLEAN
        /\ lost \in BOOLEAN /\ unrepaired \in BOOLEAN
    BY <1>1
  <2>2. \A i \in 1 .. Len(engine.stack) : engine.stack[i].id < nextId
    BY <1>3 DEF Settled, Sound
  <2> QED  BY <1>1, <1>2, <1>3, <1>4, <1>5, <1>6, <2>1, <2>2 DEF Types
<1>8. RunOK
  BY <1>1, <1>4 DEF RunOK
<1>9. Working
  BY <1>3, <1>4 DEF Working, Settled, Whole
<1>10. Linked
  BY <1>1, <1>3, <1>4, <1>5 DEF Linked
<1>11. Backed
  BY <1>1, <1>3, <1>4, NoTables DEF Backed
<1> QED  BY <1>1, <1>2, <1>5, <1>7, <1>8, <1>9, <1>10, <1>11 DEF IInv

LEMMA StutterSafe == ASSUME IInv, UNCHANGED vars PROVE IInv'
<1>1. /\ durable' = durable /\ engine' = engine /\ active' = active /\ autocommit' = autocommit
      /\ saves' = saves /\ nextId' = nextId /\ poisoned' = poisoned /\ run' = run
      /\ done' = done /\ lost' = lost /\ temps' = temps /\ unrepaired' = unrepaired
  BY DEF vars, repairVars
<1>2. Types' /\ Registry' /\ RunOK' /\ Whole(durable)'
  BY <1>1, ZenonT(30) DEF IInv, Types, Registry, RunOK
<1>3. ~poisoned' => Working'
  BY <1>1 DEF IInv, Working
<1>4. ~poisoned' /\ ~lost' => Linked'
  BY <1>1 DEF IInv, Linked
<1>5. ~poisoned' /\ ~lost' /\ ~unrepaired' => Backed'
  BY <1>1 DEF IInv, Backed
<1> QED  BY <1>2, <1>3, <1>4, <1>5 DEF IInv

(* Only a ROLLBACK gets stuck. *)
LEMMA StaysFree ==
    ASSUME stuck = FALSE, Next, \A chain \in BOOLEAN : ~Rollback(chain)
    PROVE  stuck' = FALSE
<1>1. CASE StartTransaction
  BY <1>1 DEF StartTransaction, repairVars
<1>2. ASSUME NEW chain \in BOOLEAN, Commit(chain) PROVE stuck' = FALSE
  BY <1>2 DEF Commit, repairVars
<1>3. ASSUME NEW value \in BOOLEAN, SetAutocommit(value) PROVE stuck' = FALSE
  BY <1>3 DEF SetAutocommit, repairVars
<1>4. ASSUME NEW n \in Name, Savepoint(n) \/ RollbackTo(n) \/ Release(n) PROVE stuck' = FALSE
  BY <1>4 DEF Savepoint, RollbackTo, Release, repairVars
<1>5. ASSUME NEW s \in Stmt, BeginDml(s) \/ BeginDdl(s) \/ BeginCreateTemporary(s) PROVE stuck' = FALSE
  BY <1>5 DEF BeginDml, BeginDdl, BeginCreateTemporary, BeginTemporary, repairVars
<1>6. CASE BeginDropTemporary \/ CreateTemporary \/ DropTemporary
  BY <1>6 DEF BeginDropTemporary, BeginTemporary, CreateTemporary, DropTemporary, repairVars
<1>7. CASE TemporaryBreaks \/ ValidationFails \/ WriteRow
  BY <1>7 DEF TemporaryBreaks, ValidationFails, WriteRow, repairVars
<1>8. CASE FinishStatement \/ FailStatement
  BY <1>8 DEF FinishStatement, FailStatement, repairVars
<1>9. CASE BeginRead \/ FinishRead
  BY <1>9 DEF BeginRead, FinishRead, repairVars
<1>10. CASE FailRead \/ Reopen
  BY <1>10 DEF FailRead, Reopen
<1> QED
  BY <1>1, <1>2, <1>3, <1>4, <1>5, <1>6, <1>7, <1>8, <1>9, <1>10 DEF Next

(* BEGIN inside a transaction. *)
LEMMA BeginRefused ==
    ASSUME NEW e, e.open, NEW d, NEW o \in BeginOutcomes(e, d)
    PROVE  o.ok = FALSE /\ o.e = e /\ o.d = d
<1>1. o = Outcome(FALSE, e, d)
  BY DEF BeginOutcomes, Fails
<1> QED  BY <1>1 DEF Outcome

LEMMA Skipped ==
    ASSUME NEW e, NEW d, NEW o \in Skip(e, d)
    PROVE  o.ok = TRUE /\ o.e = e /\ o.d = d
<1>1. o = Outcome(TRUE, e, d)
  BY DEF Skip
<1> QED  BY <1>1 DEF Outcome

(* What a step of a connection with a stuck reconciliation may change:     *)
(* queries run, and one that fails may end the transaction.                *)
Drifts ==
    /\ durable' = durable /\ active' = FALSE /\ saves' = saves /\ nextId' = nextId
    /\ poisoned' = poisoned /\ temps' = temps /\ unrepaired' = unrepaired /\ lost' = lost
    /\ autocommit' \in BOOLEAN /\ done \subseteq done' /\ done' \subseteq Stmt
    /\ run' \in {Idle, Running("read", FALSE, "-")}
    /\ \/ engine' = engine /\ stuck' = TRUE
       \/ engine' = ClosedEngine(durable) /\ stuck' = FALSE /\ run' = Idle

LEMMA AdriftFacts ==
    ASSUME Adrift
    PROVE  /\ engine.open /\ ~engine.bySavepoint /\ engine.view = durable /\ engine.stack = <<>>
           /\ run.kind \in {"none", "read"} /\ run.outer = FALSE /\ run.failed = FALSE
           /\ run.stmt = "-" /\ autocommit \in BOOLEAN /\ lost \in BOOLEAN
           /\ CommitUser = Skip(engine, durable)
<1>1. /\ engine.open /\ ~engine.bySavepoint /\ engine.view = durable /\ engine.stack = <<>>
  BY DEF Adrift, ClosedEngine
<1>2. CASE run = Idle
  BY <1>1, <1>2, IdleRun DEF Adrift, CommitUser
<1>3. CASE run = Running("read", FALSE, "-")
  <2>1. run.kind = "read" /\ run.outer = FALSE /\ run.failed = FALSE /\ run.stmt = "-"
    BY <1>3 DEF Running
  <2> QED  BY <1>1, <2>1 DEF Adrift, CommitUser
<1> QED  BY <1>2, <1>3 DEF Adrift

LEMMA AdriftCommands ==
    ASSUME Adrift, stuck = TRUE,
           \/ StartTransaction
           \/ \E chain \in BOOLEAN : Commit(chain) \/ Rollback(chain)
           \/ \E value \in BOOLEAN : SetAutocommit(value)
           \/ \E n \in Name : Savepoint(n)
    PROVE  Drifts
<1>1. /\ engine.open /\ active = FALSE /\ autocommit \in BOOLEAN /\ done \subseteq Stmt
      /\ CommitUser = Skip(engine, durable) /\ run \in {Idle, Running("read", FALSE, "-")}
  BY AdriftFacts DEF Adrift
<1>2. \A o \in BeginOutcomes(engine, durable) : o.ok = FALSE /\ o.e = engine /\ o.d = durable
  BY <1>1, BeginRefused
<1>3. \A o \in Skip(engine, durable) : o.ok = TRUE /\ o.e = engine /\ o.d = durable
  BY Skipped
<1>4. CASE StartTransaction
  <2>1. PICK c \in Skip(engine, durable) :
            IF ~c.ok THEN FailsWith(c)
            ELSE \E b \in BeginOutcomes(c.e, c.d) :
                    /\ Becomes(b) /\ active' = b.ok
                    /\ saves' = IF active THEN <<>> ELSE saves
                    /\ UNCHANGED lost
    BY <1>1, <1>4 DEF StartTransaction
  <2>2. PICK b \in BeginOutcomes(engine, durable) :
            Becomes(b) /\ active' = b.ok /\ saves' = saves /\ lost' = lost
    BY <1>1, <1>3, <2>1
  <2>3. engine' = engine /\ durable' = durable /\ active' = FALSE
    BY <1>2, <2>2 DEF Becomes
  <2> QED  BY <1>1, <1>4, <2>2, <2>3 DEF StartTransaction, Drifts, repairVars
<1>5. ASSUME NEW chain \in BOOLEAN, Commit(chain) PROVE Drifts
  <2>1. PICK c \in Skip(engine, durable) :
            IF ~c.ok THEN FailsWith(c)
            ELSE /\ saves' = IF active THEN <<>> ELSE saves
                 /\ UNCHANGED lost
                 /\ \E b \in IF chain THEN BeginOutcomes(c.e, c.d) ELSE Skip(c.e, c.d) :
                       Becomes(b) /\ active' = (chain /\ b.ok)
    BY <1>1, <1>5 DEF Commit
  <2>2. PICK b \in IF chain THEN BeginOutcomes(engine, durable) ELSE Skip(engine, durable) :
            Becomes(b) /\ active' = (chain /\ b.ok) /\ saves' = saves /\ lost' = lost
    <3>1. c.ok = TRUE /\ c.e = engine /\ c.d = durable
      BY <1>3
    <3> QED  BY <1>1, <2>1, <3>1
  <2>3. engine' = engine /\ durable' = durable /\ active' = FALSE
    <3>1. CASE chain
      BY <1>2, <2>2, <3>1 DEF Becomes
    <3>2. CASE ~chain
      BY <1>3, <2>2, <3>2 DEF Becomes
    <3> QED  BY <3>1, <3>2
  <2> QED  BY <1>1, <1>5, <2>2, <2>3 DEF Commit, Drifts, repairVars
<1>6. ASSUME NEW chain \in BOOLEAN, Rollback(chain) PROVE Drifts
  <2>1. PICK c \in Skip(engine, durable) :
            IF ~c.ok THEN FailsWith(c) /\ UNCHANGED <<unrepaired, stuck>>
            ELSE /\ saves' = saves /\ lost' = lost
                 /\ \E b \in IF chain /\ c.ok THEN BeginOutcomes(c.e, c.d) ELSE {c} :
                       /\ Becomes(b) /\ active' = (chain /\ c.ok /\ b.ok)
                       /\ unrepaired' = unrepaired /\ stuck' = TRUE
    BY <1>1, <1>6 DEF Rollback
  <2>2. c.ok = TRUE /\ c.e = engine /\ c.d = durable
    BY <1>3
  <2>3. PICK b \in IF chain /\ c.ok THEN BeginOutcomes(engine, durable) ELSE {c} :
            /\ Becomes(b) /\ active' = (chain /\ c.ok /\ b.ok)
            /\ unrepaired' = unrepaired /\ stuck' = TRUE /\ saves' = saves /\ lost' = lost
    BY <2>1, <2>2
  <2>4. engine' = engine /\ durable' = durable /\ active' = FALSE
    <3>1. CASE chain
      BY <1>2, <2>2, <2>3, <3>1 DEF Becomes
    <3>2. CASE ~chain
      BY <2>2, <2>3, <3>2 DEF Becomes
    <3> QED  BY <3>1, <3>2
  <2> QED  BY <1>1, <1>6, <2>3, <2>4 DEF Rollback, Drifts
<1>7. ASSUME NEW value \in BOOLEAN, SetAutocommit(value) PROVE Drifts
  <2>1. PICK c \in Skip(engine, durable) :
            IF ~c.ok THEN FailsWith(c) /\ UNCHANGED autocommit
            ELSE /\ Becomes(c) /\ autocommit' = value
                 /\ active' = active /\ saves' = saves /\ lost' = lost
    BY <1>1, <1>7 DEF SetAutocommit
  <2>2. /\ engine' = engine /\ durable' = durable /\ autocommit' \in BOOLEAN
        /\ active' = active /\ saves' = saves /\ lost' = lost
    BY <1>3, <2>1 DEF Becomes
  <2> QED  BY <1>1, <1>7, <2>2 DEF SetAutocommit, Drifts, repairVars
<1>8. ASSUME NEW n \in Name, Savepoint(n) PROVE Drifts
  <2>1. autocommit = FALSE /\ OpenIfNeeded = BeginOutcomes(engine, durable)
    BY <1>1, <1>8 DEF Savepoint, OpenIfNeeded
  <2>2. \A o \in OpenIfNeeded : o.ok = FALSE /\ o.e = engine /\ o.d = durable
    BY <1>2, <2>1
  <2>3. engine' = engine /\ durable' = durable /\ active' = active /\ saves' = saves /\ nextId' = nextId
    BY <1>8, <2>2 DEF Savepoint, Becomes
  <2> QED  BY <1>1, <1>8, <2>3 DEF Savepoint, Drifts, repairVars
<1> QED  BY <1>4, <1>5, <1>6, <1>7, <1>8

LEMMA AdriftStatements ==
    ASSUME Adrift, stuck = TRUE,
           \/ \E s \in Stmt : BeginDml(s) \/ BeginDdl(s) \/ BeginCreateTemporary(s)
           \/ BeginDropTemporary
           \/ BeginRead \/ FinishRead \/ FailRead
    PROVE  Drifts
<1>1. /\ engine.open /\ active = FALSE /\ autocommit \in BOOLEAN /\ done \subseteq Stmt
      /\ CommitUser = Skip(engine, durable) /\ run \in {Idle, Running("read", FALSE, "-")}
      /\ run.outer = FALSE /\ lost \in BOOLEAN
  BY AdriftFacts DEF Adrift
<1>2. \A o \in BeginOutcomes(engine, durable) : o.ok = FALSE /\ o.e = engine /\ o.d = durable
  BY <1>1, BeginRefused
<1>3. \A o \in Skip(engine, durable) : o.ok = TRUE /\ o.e = engine /\ o.d = durable
  BY Skipped
<1>4. ASSUME NEW s \in Stmt, BeginDml(s) PROVE Drifts
  <2>1. engine' = engine /\ durable' = durable /\ active' = FALSE /\ run' = run /\ poisoned' = poisoned
    <3>1. PICK o \in BeginOutcomes(engine, durable) :
             \E v \in IF o.ok THEN SavepointOutcomes(o.e, o.d, StatementMark) ELSE {o} :
                LET outer == autocommit /\ ~active
                IN  IF v.ok
                    THEN /\ Becomes(v) /\ run' = Running("dml", outer, s)
                         /\ active' = (active \/ ~outer)
                         /\ UNCHANGED poisoned
                    ELSE IF ~o.ok \/ ~outer
                    THEN /\ Becomes(v)
                         /\ active' = (active \/ (o.ok /\ ~outer))
                         /\ UNCHANGED <<run, poisoned>>
                    ELSE /\ Becomes(v) /\ UNCHANGED <<active, poisoned>>
                         /\ run' = [Running("dml", TRUE, s) EXCEPT !.failed = TRUE]
      BY <1>1, <1>4 DEF BeginDml
    <3>2. o.ok = FALSE /\ o.e = engine /\ o.d = durable
      BY <1>2
    <3>3. Becomes(o) /\ active' = (active \/ (o.ok /\ ~(autocommit /\ ~active))) /\ UNCHANGED <<run, poisoned>>
      BY <3>1, <3>2
    <3> QED  BY <1>1, <3>2, <3>3 DEF Becomes
  <2> QED  BY <1>1, <1>4, <2>1 DEF BeginDml, Drifts, repairVars
<1>5. ASSUME NEW s \in Stmt, BeginDdl(s) PROVE Drifts
  <2>1. PICK c \in Skip(engine, durable) :
            IF ~c.ok THEN FailsWith(c) /\ UNCHANGED run
            ELSE /\ active' = FALSE /\ lost' = lost /\ saves' = saves
                 /\ \E b \in BeginOutcomes(c.e, c.d) :
                       Becomes(b) /\ run' = IF b.ok THEN Running("ddl", TRUE, s) ELSE run
    BY <1>1, <1>5 DEF BeginDdl
  <2>2. PICK b \in BeginOutcomes(engine, durable) :
            /\ Becomes(b) /\ run' = IF b.ok THEN Running("ddl", TRUE, s) ELSE run
            /\ active' = FALSE /\ lost' = lost /\ saves' = saves
    BY <1>3, <2>1
  <2>3. engine' = engine /\ durable' = durable /\ run' = run
    BY <1>2, <2>2 DEF Becomes
  <2> QED  BY <1>1, <1>5, <2>2, <2>3 DEF BeginDdl, Drifts, repairVars
<1>6. ASSUME NEW kind, NEW s, BeginTemporary(kind, s), done \subseteq done', done' \subseteq Stmt
      PROVE  Drifts
  <2>1. PICK o \in BeginOutcomes(engine, durable) :
            /\ Becomes(o)
            /\ active' = (active \/ (o.ok /\ ~(autocommit /\ ~active)))
            /\ run' = IF o.ok THEN Running(kind, autocommit /\ ~active, s) ELSE run
    BY <1>1, <1>6 DEF BeginTemporary
  <2>2. engine' = engine /\ durable' = durable /\ active' = FALSE /\ run' = run
    BY <1>1, <1>2, <2>1 DEF Becomes
  <2> QED  BY <1>1, <1>6, <2>2 DEF BeginTemporary, Drifts, repairVars
<1>7. ASSUME NEW s \in Stmt, BeginCreateTemporary(s) PROVE Drifts
  BY <1>1, <1>6, <1>7 DEF BeginCreateTemporary
<1>8. CASE BeginDropTemporary
  BY <1>1, <1>6, <1>8 DEF BeginDropTemporary
<1>9. CASE BeginRead
  <2>1. PICK o \in Skip(engine, durable) :
            /\ Becomes(o)
            /\ active' = (active \/ (o.ok /\ ~autocommit /\ ~engine.open))
            /\ run' = IF o.ok
                      THEN Running("read", autocommit /\ ~active /\ ~engine.open, "-")
                      ELSE run
    BY <1>1, <1>9 DEF BeginRead
  <2>2. (autocommit /\ ~active /\ ~engine.open) = FALSE
    BY <1>1
  <2>3. /\ engine' = engine /\ durable' = durable /\ active' = FALSE
        /\ run' = Running("read", FALSE, "-")
    BY <1>1, <1>3, <2>1, <2>2 DEF Becomes
  <2> QED  BY <1>1, <1>9, <2>3 DEF BeginRead, Drifts, repairVars
<1>10. CASE FinishRead
  <2>1. PICK c \in Skip(engine, durable) :
            IF c.ok THEN Becomes(c) /\ UNCHANGED <<active, poisoned>> ELSE Poison(c)
    BY <1>1, <1>10 DEF FinishRead
  <2>2. engine' = engine /\ durable' = durable /\ active' = active /\ poisoned' = poisoned
    BY <1>3, <2>1 DEF Becomes
  <2> QED  BY <1>1, <1>10, <2>2 DEF FinishRead, Drifts, repairVars
<1>11. CASE FailRead
  <2>1. PICK f \in {engine, ClosedEngine(durable)} :
            /\ FailsWith(Outcome(FALSE, f, durable)) /\ UNCHANGED poisoned
            /\ stuck' = (stuck /\ f.open)
    BY <1>1, <1>11 DEF FailRead
  <2>2. /\ engine' = f /\ durable' = durable /\ active' = active /\ saves' = saves
        /\ lost' = (lost \/ (active /\ engine.open /\ ~f.open))
    BY <2>1 DEF FailsWith, Becomes, Outcome
  <2>3. lost' = lost
    BY <1>1, <2>2
  <2>4. \/ engine' = engine /\ stuck' = TRUE
        \/ engine' = ClosedEngine(durable) /\ stuck' = FALSE
    <3>1. ClosedEngine(durable).open = FALSE
      BY DEF ClosedEngine
    <3>2. engine.open = TRUE
      BY DEF Adrift, ClosedEngine
    <3> QED  BY <2>1, <2>2, <3>1, <3>2
  <2>5. /\ run' = Idle /\ autocommit' = autocommit /\ nextId' = nextId /\ done' = done
        /\ temps' = temps /\ unrepaired' = unrepaired
    BY <1>11 DEF FailRead
  <2> QED  BY <1>1, <2>1, <2>2, <2>3, <2>4, <2>5 DEF Drifts
<1> QED  BY <1>4, <1>5, <1>7, <1>8, <1>9, <1>10, <1>11

LEMMA AdriftNext == ASSUME Adrift, stuck = TRUE, [Next]_vars PROVE Drifts \/ Reopen
<1>1. /\ active = FALSE /\ autocommit \in BOOLEAN /\ done \subseteq Stmt
      /\ run \in {Idle, Running("read", FALSE, "-")}
      /\ run.kind \in {"none", "read"} /\ ~run.outer /\ ~run.failed
  BY AdriftFacts DEF Adrift
<1>2. ASSUME NEW n \in Name PROVE ~RollbackTo(n) /\ ~Release(n)
  BY <1>1 DEF RollbackTo, Release
<1>3. ~CreateTemporary /\ ~DropTemporary /\ ~TemporaryBreaks /\ ~ValidationFails
  BY <1>1 DEF CreateTemporary, DropTemporary, TemporaryBreaks, ValidationFails
<1>4. ~WriteRow /\ ~FinishStatement /\ ~FailStatement
  BY <1>1 DEF WriteRow, Writing, FinishStatement, Executed, FailStatement
<1>5. CASE UNCHANGED vars
  <2>1. /\ durable' = durable /\ engine' = engine /\ active' = active /\ autocommit' = autocommit
        /\ saves' = saves /\ nextId' = nextId /\ poisoned' = poisoned /\ run' = run
        /\ done' = done /\ lost' = lost /\ temps' = temps /\ unrepaired' = unrepaired /\ stuck' = stuck
    BY <1>5 DEF vars, repairVars
  <2> QED  BY <1>1, <2>1 DEF Drifts
<1>6. CASE Next
  BY <1>2, <1>3, <1>4, <1>6, AdriftCommands, AdriftStatements DEF Next
<1> QED  BY <1>5, <1>6

LEMMA AdriftSafe == ASSUME Adrift, stuck = TRUE, [Next]_vars PROVE SessionInv'
<1>1. CASE Reopen
  <2>1. IInv'
    BY <1>1, ReopenSafe DEF Adrift
  <2>2. stuck' = FALSE
    BY <1>1 DEF Reopen
  <2> QED  BY <2>1, <2>2 DEF SessionInv
<1>2. CASE Drifts /\ stuck' = TRUE
  <2>1. stuck' = TRUE /\ engine' = engine
    BY <1>2 DEF Drifts
  <2>2. Adrift'
    BY <1>2, <2>1 DEF Drifts, Adrift, Physical
  <2> QED  BY <2>1, <2>2 DEF SessionInv
<1>3. CASE Drifts /\ stuck' = FALSE
  <2>1. /\ engine' = ClosedEngine(durable') /\ run' = Idle /\ durable' = durable
        /\ active' = FALSE /\ saves' = <<>> /\ poisoned' = FALSE /\ nextId' = nextId
    BY <1>3 DEF Drifts, Adrift
  <2>2. /\ Settled(engine', durable', nextId') /\ ~engine'.open /\ ~engine'.bySavepoint
        /\ engine'.view = durable'
    BY <2>1, ClosedSettled DEF Adrift
  <2>3. Registry' /\ saves' \in Seq(Entry)
    BY <2>1, EmptyRegistry, SMT DEF Registry
  <2>4. Agree(engine', active', saves')
    BY <2>1, <2>2, NoneListed
  <2>5. ~lost' /\ ~unrepaired' => (Physical(temps) \subseteq engine.view)'
    BY <1>3, <2>1, <2>2 DEF Drifts, Adrift, Physical
  <2>6. /\ active' \in BOOLEAN /\ autocommit' \in BOOLEAN /\ lost' \in BOOLEAN
        /\ unrepaired' \in BOOLEAN /\ nextId' \in 1 .. MaxSavepoints + 1
        /\ done' \subseteq Stmt /\ temps' \subseteq done'
    BY <1>3, <2>1 DEF Drifts, Adrift
  <2>7. IInv'
    BY <2>1, <2>2, <2>3, <2>4, <2>5, <2>6, IdleStep
  <2> QED  BY <1>3, <2>7 DEF SessionInv
<1> QED  BY <1>1, <1>2, <1>3, AdriftNext DEF Drifts

LEMMA FreeSafe == ASSUME IInv, stuck = FALSE, [Next]_vars PROVE SessionInv'
<1>1. ASSUME StartTransaction PROVE IInv'
  BY <1>1, StartTransactionSafe
<1>2. ASSUME NEW chain \in BOOLEAN, Commit(chain) PROVE IInv'
  BY <1>2, CommitSafe
<1>3. ASSUME NEW chain \in BOOLEAN, Rollback(chain) PROVE SessionInv'
  BY <1>3, RollbackSafe DEF SessionInv
<1>4. ASSUME NEW value \in BOOLEAN, SetAutocommit(value) PROVE IInv'
  BY <1>4, SetAutocommitSafe
<1>5. ASSUME NEW n \in Name, Savepoint(n) PROVE IInv'
  BY <1>5, SavepointSafe
<1>6. ASSUME NEW n \in Name, RollbackTo(n) PROVE IInv'
  BY <1>6, RollbackToSafe
<1>7. ASSUME NEW n \in Name, Release(n) PROVE IInv'
  BY <1>7, ReleaseSafe
<1>8. ASSUME NEW s \in Stmt, BeginDml(s) PROVE IInv'
  BY <1>8, BeginDmlSafe
<1>9. ASSUME NEW s \in Stmt, BeginDdl(s) PROVE IInv'
  BY <1>9, BeginDdlSafe
<1>10. ASSUME NEW s \in Stmt, BeginCreateTemporary(s) PROVE IInv'
  BY <1>10, BeginCreateTemporarySafe
<1>11. ASSUME BeginDropTemporary PROVE IInv'
  BY <1>11, BeginDropTemporarySafe
<1>12. ASSUME CreateTemporary PROVE IInv'
  BY <1>12, CreateTemporarySafe
<1>13. ASSUME DropTemporary PROVE IInv'
  BY <1>13, DropTemporarySafe
<1>14. ASSUME TemporaryBreaks PROVE IInv'
  BY <1>14, TemporaryBreaksSafe
<1>15. ASSUME ValidationFails PROVE IInv'
  BY <1>15, ValidationFailsSafe
<1>16. ASSUME WriteRow PROVE IInv'
  BY <1>16, WriteRowSafe
<1>17. ASSUME FinishStatement PROVE IInv'
  BY <1>17, FinishStatementSafe
<1>18. ASSUME FailStatement PROVE IInv'
  BY <1>18, FailStatementSafe
<1>19. ASSUME BeginRead PROVE IInv'
  BY <1>19, BeginReadSafe
<1>20. ASSUME FinishRead PROVE IInv'
  BY <1>20, FinishReadSafe
<1>21. ASSUME FailRead PROVE IInv'
  BY <1>21, FailReadSafe
<1>22. ASSUME Reopen PROVE IInv'
  BY <1>22, ReopenSafe DEF IInv, Types
<1>23. ASSUME UNCHANGED vars PROVE IInv'
  BY <1>23, StutterSafe
<1>24. CASE \A chain \in BOOLEAN : ~Rollback(chain)
  <2>1. IInv'
    BY <1>1, <1>2, <1>4, <1>5, <1>6, <1>7, <1>8, <1>9, <1>10, <1>11, <1>12, <1>13,
       <1>14, <1>15, <1>16, <1>17, <1>18, <1>19, <1>20, <1>21, <1>22, <1>23, <1>24 DEF Next
  <2>2. stuck' = FALSE
    BY <1>24, StaysFree DEF vars, repairVars
  <2> QED  BY <2>1, <2>2 DEF SessionInv
<1> QED  BY <1>3, <1>24

LEMMA StepSafe == ASSUME SessionInv, [Next]_vars PROVE SessionInv'
BY FreeSafe, AdriftSafe DEF SessionInv

-----------------------------------------------------------------------------
(* The inductive invariant holds in every reachable state.                 *)
THEOREM InductiveInvariant == Spec => []SessionInv
<1>1. Init => SessionInv
  BY InitSafe DEF Init, SessionInv
<1> QED  BY <1>1, StepSafe, PTL DEF Spec

(* Types, and the registry of user savepoints in step with SQLite's stack  *)
(* (create_or_replace_user_savepoint, rollback_to_user_savepoint): names   *)
(* once, in order, each on the stack of a usable handle.                   *)
THEOREM TypeCorrect == Spec => []TypeOK
<1>1. IInv /\ stuck \in BOOLEAN => TypeOK
  <2> SUFFICES ASSUME IInv, stuck \in BOOLEAN PROVE TypeOK
    OBVIOUS
  <2>1. Types /\ Registry /\ (~poisoned /\ ~lost => Linked)
    BY DEF IInv
  <2>2. /\ durable \subseteq Stored /\ nextId \in 1 .. MaxSavepoints + 1
        /\ active \in BOOLEAN /\ autocommit \in BOOLEAN /\ poisoned \in BOOLEAN /\ lost \in BOOLEAN
        /\ done \subseteq Stmt /\ temps \subseteq done /\ unrepaired \in BOOLEAN
        /\ engine \in Engine /\ run \in Runs
        /\ \A i \in 1 .. Len(engine.stack) : engine.stack[i].id < nextId
    BY <2>1 DEF Types
  <2>3. /\ engine.open \in BOOLEAN /\ engine.bySavepoint \in BOOLEAN /\ engine.view \in SUBSET Stored
        /\ \A i \in 1 .. Len(engine.stack) :
              engine.stack[i].id \in Nat /\ engine.stack[i].saved \in SUBSET Stored
    BY <2>2, EngineFields
  <2>4. /\ run.kind \in {"none", "read", "dml", "ddl", "create", "created", "drop", "dropped"}
        /\ run.outer \in BOOLEAN /\ run.failed \in BOOLEAN /\ run.stmt \in Stmt \cup {"-"}
    BY <2>2 DEF Runs
  <2>5. \A i \in 1 .. Len(engine.stack) :
           /\ engine.stack[i].id \in {StatementMark} \cup 1 .. MaxSavepoints
           /\ engine.stack[i].saved \subseteq Stored
    BY <2>2, <2>3, SessionTransactionAssumption, SMT DEF StatementMark
  <2>6. \A i, j \in 1 .. Len(saves) : i < j => saves[i].id < saves[j].id /\ saves[i].name # saves[j].name
    BY <2>1 DEF Registry
  <2>7. ~poisoned /\ ~lost /\ engine.open => \A i \in 1 .. Len(saves) : Marks(engine, saves[i].id) # {}
    <3> SUFFICES ASSUME ~poisoned, ~lost, engine.open, NEW i \in 1 .. Len(saves)
                 PROVE  Marks(engine, saves[i].id) # {}
      OBVIOUS
    <3>1. PICK k \in 1 .. Len(engine.stack) : engine.stack[k].id = saves[i].id
      BY <2>1 DEF Linked, Listed
    <3> QED  BY <3>1 DEF Marks
  <2> QED  BY <2>2, <2>3, <2>4, <2>5, <2>6, <2>7 DEF TypeOK
<1>2. Adrift /\ stuck \in BOOLEAN => TypeOK
  <2> SUFFICES ASSUME Adrift, stuck \in BOOLEAN PROVE TypeOK
    OBVIOUS
  <2>1. /\ engine.open \in BOOLEAN /\ engine.bySavepoint \in BOOLEAN
        /\ engine.view = durable /\ engine.stack = <<>>
    BY DEF Adrift, ClosedEngine
  <2>2. /\ run.kind \in {"none", "read"} /\ run.outer \in BOOLEAN /\ run.failed \in BOOLEAN
        /\ run.stmt = "-"
    BY AdriftFacts
  <2>3. /\ \A i \in 1 .. Len(engine.stack) :
              /\ engine.stack[i].id \in {StatementMark} \cup 1 .. MaxSavepoints
              /\ engine.stack[i].saved \subseteq Stored
        /\ \A i, j \in 1 .. Len(saves) : i < j => saves[i].id < saves[j].id /\ saves[i].name # saves[j].name
        /\ \A i \in 1 .. Len(saves) : Marks(engine, saves[i].id) # {}
    BY <2>1, SMT DEF Adrift
  <2> QED  BY <2>1, <2>2, <2>3 DEF Adrift, TypeOK
<1>3. SessionInv => TypeOK
  BY <1>1, <1>2 DEF SessionInv
<1> QED  BY <1>3, InductiveInvariant, PTL

(* The file never holds half a statement, whichever command of the         *)
(* statement transaction fails or poisons the handle.                      *)
THEOREM StatementsStayWhole == Spec => []StatementsWhole
<1>1. SessionInv => StatementsWhole
  BY DEF SessionInv, Adrift, IInv, Whole, Pair, StatementsWhole
<1> QED  BY <1>1, InductiveInvariant, PTL

(* Between statements session.user_transaction_active tells whether SQLite *)
(* has a transaction open, short of the one that a ROLLBACK's              *)
(* reconciliation could not end; and that one stays empty, since           *)
(* begin_statement_transaction and the others send a BEGIN it refuses.     *)
THEOREM SessionAgrees == Spec => []SessionMatchesEngine
<1>1. ASSUME IInv, stuck = FALSE PROVE SessionMatchesEngine
  <2> SUFFICES ASSUME run = Idle, ~poisoned, ~lost PROVE active <=> engine.open
    BY <1>1 DEF SessionMatchesEngine
  <2>1. run.kind = "none"
    BY IdleRun
  <2> QED  BY <1>1, <2>1 DEF IInv, Linked
<1>2. ASSUME Adrift, stuck = TRUE PROVE SessionMatchesEngine
  <2>1. active = FALSE /\ engine.open /\ engine.view = durable
    BY <1>2, AdriftFacts DEF Adrift
  <2> QED  BY <1>2, <2>1 DEF SessionMatchesEngine
<1>3. SessionInv => SessionMatchesEngine
  BY <1>1, <1>2 DEF SessionInv
<1> QED  BY <1>3, InductiveInvariant, PTL

(* A temporary table the session knows is in SQLite after ROLLBACK,        *)
(* ROLLBACK TO and failed statements (the repair puts it back).            *)
THEOREM TemporaryTablesBacked == Spec => []TempsBacked
<1>1. SessionInv => TempsBacked
  <2> SUFFICES ASSUME SessionInv, run = Idle, ~poisoned, ~lost, ~unrepaired
               PROVE  Physical(temps) \subseteq engine.view
    BY DEF TempsBacked
  <2>1. CASE ~stuck
    <3>1. run.kind = "none"
      BY IdleRun
    <3> QED  BY <2>1, <3>1 DEF SessionInv, IInv, Backed
  <2>2. CASE stuck
    BY <2>2, AdriftFacts DEF SessionInv, Adrift
  <2> QED  BY <2>1, <2>2
<1> QED  BY <1>1, InductiveInvariant, PTL
=============================================================================
