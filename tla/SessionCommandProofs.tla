------------------------ MODULE SessionCommandProofs ------------------------
(***************************************************************************)
(* The first part of the refinement: what is committed stays, how the      *)
(* mapping of SessionRefinement shows the registry of savepoints and       *)
(* SQLite's stack, and that the client sees each command between           *)
(* statements, and each statement that begins, as a step of                *)
(* TransactionSpec or not at all.                                          *)
(***************************************************************************)
EXTENDS SessionTransactionProofs, SessionRefinement

(* Leaves are for Zenon unless they name another prover. *)
USE Zenon

-----------------------------------------------------------------------------
(* The refinement: what is committed, and what a statement began with.     *)

(* Rows, leaving out the temporary tables. *)
RowsIn(S, T) == \A x \in Row : x \in S => x \in T
SameRows(S, T) == \A x \in Row : x \in S <=> x \in T

(* S is T with rows of the statement s. *)
Within(S, T, s) == \A x \in Row : (x \in T => x \in S) /\ (x \in S => x \in T \/ x \in Rows(s))

(* Whatever SQLite goes back to or commits has the committed rows. *)
RowsKept(e, d) ==
    /\ RowsIn(d, e.view)
    /\ \A i \in 1 .. Len(e.stack) : RowsIn(d, e.stack[i].saved)

Top(e) == e.stack[Len(e.stack)].saved

(* What a running statement began with. *)
Based ==
    /\ run.outer /\ run.kind # "ddl" /\ ~(run.kind = "dml" /\ OnTop(engine)) =>
          SameRows(engine.view, durable)
    /\ run.kind = "ddl" => Within(engine.view, durable, run.stmt)
    /\ run.kind = "dml" /\ OnTop(engine) =>
          /\ Within(engine.view, Top(engine), run.stmt)
          /\ run.outer => SameRows(Top(engine), durable)

RInv == RowsKept(engine, durable) /\ Based

(* Equal rows are equal sets, without the temporary tables.                *)
LEMMA RowSets ==
    ASSUME NEW S, NEW T
    PROVE  /\ SameRows(S, T) => RowsIn(S, T) /\ RowsIn(T, S) /\ SameRows(T, S)
           /\ S = T => SameRows(S, T) /\ RowsIn(S, T)
           /\ SameRows(S, T) => Row \cap S = Row \cap T /\ S \cap Row = T \cap Row
BY DEF SameRows, RowsIn

LEMMA RowMeet ==
    ASSUME NEW S, NEW T, SameRows(S, T)
    PROVE  Row \cap S = Row \cap T
BY DEF SameRows

LEMMA RowChain ==
    ASSUME NEW S, NEW T, NEW U
    PROVE  /\ RowsIn(S, T) /\ RowsIn(T, U) => RowsIn(S, U)
           /\ SameRows(S, T) /\ SameRows(T, U) => SameRows(S, U)
BY DEF SameRows, RowsIn

(* Without a transaction there is nothing but the file.                    *)
LEMMA ClosedKept ==
    ASSUME NEW e, NEW d, NEW n, Sound(e, d, n), ~e.open
    PROVE  RowsKept(e, d) /\ e.view = d /\ e.stack = <<>>
<1>1. e.view = d /\ e.stack = <<>>
  BY DEF Sound
<1>2. \A i : i \notin 1 .. Len(e.stack)
  BY <1>1, SMT
<1> QED  BY <1>1, <1>2 DEF RowsKept, RowsIn

(* What each SQLite command does to the rows, in all its outcomes.         *)
LEMMA BeginKeeps ==
    ASSUME NEW e, NEW d, NEW n, Settled(e, d, n), RowsKept(e, d), NEW o \in BeginOutcomes(e, d)
    PROVE  RowsKept(o.e, o.d)
<1>1. /\ o.d = d /\ o.e.view = e.view /\ o.ok \in BOOLEAN
      /\ ~o.ok => o.e = e
      /\ o.ok => o.e.stack = <<>>
  BY BeginShape, SMT
<1>2. o.e.stack = <<>> => \A i : i \notin 1 .. Len(o.e.stack)
  BY SMT
<1> QED  BY <1>1, <1>2 DEF RowsKept

(* COMMIT makes the file what the connection sees, or leaves it.           *)
LEMMA CommitKeeps ==
    ASSUME NEW e, NEW d, NEW n, Sound(e, d, n), Whole(e.view), RowsKept(e, d),
           NEW o \in CommitOutcomes(e, d)
    PROVE  /\ RowsKept(o.e, o.d) /\ RowsIn(d, o.d)
           /\ o.ok => o.d = e.view
           /\ ~o.ok => o.d = d
<1>1. /\ Sound(o.e, o.d, n)
      /\ ~o.ok => \/ o.e = e /\ o.d = d
                  \/ o.d = d /\ ~o.e.open
      /\ o.ok => o.d = e.view /\ ~o.e.open
  BY CommitShape, SMT
<1>2. ~o.e.open => RowsKept(o.e, o.d)
  BY <1>1, ClosedKept
<1> QED  BY <1>1, <1>2 DEF RowsKept, RowsIn

LEMMA RollbackKeeps ==
    ASSUME NEW e, NEW d \in SUBSET Stored, Whole(d), RowsKept(e, d), NEW o \in RollbackOutcomes(e, d)
    PROVE  RowsKept(o.e, o.d) /\ o.d = d
<1>1. /\ o.d = d
      /\ ~o.ok => o.e = e
      /\ o.ok => ~o.e.open /\ Settled(o.e, d, 0)
  BY RollbackShape, ZenonT(40)
<1> QED  BY <1>1, ClosedKept DEF Settled

LEMMA SavepointKeeps ==
    ASSUME NEW e, NEW f, NEW d, NEW id, Len(e.stack) \in Nat, RowsKept(e, d),
           Pushed(f, e, id), f.view = e.view
    PROVE  RowsKept(f, d)
<1>1. ASSUME NEW i \in 1 .. Len(f.stack) PROVE RowsIn(d, f.stack[i].saved)
  <2>1. CASE i \in 1 .. Len(e.stack)
    BY <2>1 DEF RowsKept, Pushed
  <2>2. CASE i = Len(e.stack) + 1
    BY <2>2 DEF RowsKept, Pushed
  <2>3. Len(f.stack) = Len(e.stack) + 1
    BY DEF Pushed
  <2> QED  BY <2>1, <2>2, <2>3, SMT
<1> QED  BY <1>1 DEF RowsKept

LEMMA ReturnKeeps ==
    ASSUME NEW e, NEW f, NEW d, NEW n, NEW id, RowsKept(e, d), Returned(f, e, d, n, id)
    PROVE  RowsKept(f, d)
BY DEF RowsKept, Returned, At

LEMMA ReleaseKeeps ==
    ASSUME NEW e, NEW f, NEW d, NEW n, NEW id, RowsKept(e, d), Released(f, e, d, n, id)
    PROVE  RowsKept(f, d)
BY DEF RowsKept, Released, Below

(* A repair touches no rows. *)
LEMMA RepairKeeps ==
    ASSUME NEW e, NEW d, NEW n, Settled(e, d, n), RowsKept(e, d), NEW o \in RepairOutcomes(e, d),
           temps \subseteq Stmt
    PROVE  /\ RowsKept(o.e, o.d) /\ SameRows(o.d, d)
           /\ \/ /\ SameRows(o.e.view, e.view)
                 /\ o.e.open = e.open /\ o.e.bySavepoint = e.bySavepoint /\ o.e.stack = e.stack
              \/ ~o.ok /\ e.open /\ ~o.e.open
<1>1. ASSUME NEW v, SameRows(v, e.view), NEW ok, o = Leaves(ok, e, d, v)
      PROVE  /\ RowsKept(o.e, o.d) /\ SameRows(o.d, d) /\ SameRows(o.e.view, e.view)
             /\ o.e.open = e.open /\ o.e.bySavepoint = e.bySavepoint /\ o.e.stack = e.stack
  <2>1. o.e = [e EXCEPT !.view = v] /\ o.d = (IF e.open THEN d ELSE v)
    BY <1>1 DEF Leaves, Outcome
  <2>2. e \in Engine /\ (~e.open => e.view = d)
    BY DEF Settled, Sound
  <2>3. /\ o.e.view = v /\ o.e.open = e.open /\ o.e.bySavepoint = e.bySavepoint
        /\ o.e.stack = e.stack
    BY <2>1, <2>2 DEF Engine
  <2>4. SameRows(o.d, d)
    BY <1>1, <2>1, <2>2, RowSets
  <2>5. RowsKept(o.e, o.d)
    BY <1>1, <2>3, <2>4 DEF RowsKept, RowsIn, SameRows
  <2> QED  BY <1>1, <2>3, <2>4, <2>5
<1> DEFINE orphans == {x \in e.view : x[2] = 3 /\ x[1] \notin temps}
           missing == Physical(temps) \ e.view
           kept    == e.view \ orphans
<1>2. \A x \in Row : x \notin orphans /\ x \notin missing
  <2> SUFFICES ASSUME NEW x \in Row PROVE x \notin orphans /\ x \notin missing
    OBVIOUS
  <2>1. x[2] \in {1, 2}
    BY SMT DEF Row
  <2>2. \A y \in Physical(temps) : y[2] = 3
    BY SMT DEF Physical
  <2>3. x[2] # 3
    BY <2>1, SMT
  <2> QED  BY <2>2, <2>3
<1> HIDE DEF orphans, missing
<1>3. CASE o = Leaves(TRUE, e, d, kept \cup missing)
  <2>1. SameRows(kept \cup missing, e.view)
    BY <1>2 DEF SameRows
  <2> QED  BY <1>1, <1>3, <2>1
<1>4. ASSUME NEW X \in SUBSET orphans, o = Leaves(FALSE, e, d, e.view \ X) PROVE SameRows(e.view \ X, e.view)
  BY <1>2 DEF SameRows
<1>5. ASSUME NEW X \in SUBSET missing, o = Leaves(FALSE, e, d, kept \cup X) PROVE SameRows(kept \cup X, e.view)
  BY <1>2, <1>5 DEF SameRows
<1>6. CASE e.open /\ o \in Fails(ClosedEngine(d), d)
  <2>1. ~o.ok /\ o.e = ClosedEngine(d) /\ o.d = d
    BY <1>6, SMT DEF Fails, Outcome
  <2>2. Settled(o.e, o.d, n) /\ ~o.e.open
    <3>1. d \in SUBSET Stored /\ Whole(d)
      BY DEF Settled, Sound
    <3> QED  BY <2>1, <3>1, ClosedSettled
  <2> QED  BY <1>6, <2>1, <2>2, ClosedKept, RowSets DEF Settled
<1>7. \/ o = Leaves(TRUE, e, d, kept \cup missing)
      \/ \E X \in SUBSET orphans : o = Leaves(FALSE, e, d, e.view \ X)
      \/ \E X \in SUBSET missing : o = Leaves(FALSE, e, d, kept \cup X)
      \/ e.open /\ o \in Fails(ClosedEngine(d), d)
  BY DEF RepairOutcomes, orphans, missing
<1> HIDE DEF kept
<1> QED  BY <1>1, <1>3, <1>4, <1>5, <1>6, <1>7

-----------------------------------------------------------------------------
(* What the client sees.                                                   *)

(* The savepoints that the registry s names in the engine e. *)
Seen(e, s) ==
    [i \in 1 .. Len(s) |->
        [name |-> s[i].name, saved |-> Row \cap e.stack[MarkAt(e, s[i].id)].saved]]

OwnTop == run.kind = "dml" /\ OnTop(engine)

Gone == run.kind \in {"dml", "ddl"} /\ ~engine.open

(* What the mapping relies on, in a stuck connection too. *)
Valid ==
    /\ durable \in SUBSET Stored /\ Whole(durable) /\ active \in BOOLEAN
    /\ ~poisoned => Sound(engine, durable, nextId) /\ (run.kind # "dml" => NoStatementMark(engine))

LEMMA FreeValid == ASSUME IInv PROVE Valid
BY DEF IInv, Types, Working, Valid

LEMMA AdriftValid == ASSUME Adrift PROVE Valid
<1> DEFINE c == ClosedEngine(durable)
<1>1. /\ durable \in SUBSET Stored /\ Whole(durable) /\ active \in BOOLEAN
      /\ engine = [c EXCEPT !.open = TRUE]
  BY DEF Adrift
<1>2. c \in Engine /\ c.stack = <<>>
  BY <1>1, ClosedSettled
<1> HIDE DEF c
<1>3. engine \in Engine /\ engine.open /\ engine.stack = <<>>
  BY <1>1, <1>2 DEF Engine
<1>4. \A i : i \notin 1 .. Len(engine.stack)
  BY <1>3, SMT
<1> QED  BY <1>1, <1>3, <1>4 DEF Valid, Sound, NoStatementMark

BarsOK ==
    Valid =>
    /\ HandleBar \in {"usable", "lost", "poisoned"}
    /\ poisoned \/ Gone => HandleBar = "poisoned"
    /\ ~poisoned /\ ~Gone => HandleBar = IF lost THEN "lost" ELSE "usable"
    /\ HandleBar # "usable" => WorkBar = Row \cap durable /\ MarksBar = <<>>
    /\ HandleBar = "usable" =>
          /\ MarksBar = Seen(engine, saves)
          /\ OwnTop => WorkBar = Row \cap Top(engine)
          /\ run.kind = "ddl" => WorkBar = Row \cap durable
          /\ run.kind # "ddl" /\ ~OwnTop => WorkBar = Row \cap engine.view

(* What the mapping shows of a state, by its kind.                         *)
LEMMA Bars == BarsOK
<1> SUFFICES ASSUME Valid
             PROVE  /\ HandleBar \in {"usable", "lost", "poisoned"}
                    /\ poisoned \/ Gone => HandleBar = "poisoned"
                    /\ ~poisoned /\ ~Gone => HandleBar = IF lost THEN "lost" ELSE "usable"
                    /\ HandleBar # "usable" => WorkBar = Row \cap durable /\ MarksBar = <<>>
                    /\ HandleBar = "usable" =>
                          /\ MarksBar = Seen(engine, saves)
                          /\ OwnTop => WorkBar = Row \cap Top(engine)
                          /\ run.kind = "ddl" => WorkBar = Row \cap durable
                          /\ run.kind # "ddl" /\ ~OwnTop => WorkBar = Row \cap engine.view
  BY DEF BarsOK
<1>1. /\ HandleBar \in {"usable", "lost", "poisoned"}
      /\ poisoned \/ Gone => HandleBar = "poisoned"
      /\ ~poisoned /\ ~Gone => HandleBar = IF lost THEN "lost" ELSE "usable"
  BY DEF HandleBar, Gone
<1>2. HandleBar # "usable" => WorkBar = Row \cap durable /\ MarksBar = <<>>
  BY DEF WorkBar, MarksBar
<1>3. HandleBar = "usable" => MarksBar = Seen(engine, saves)
  BY DEF MarksBar, Seen
<1>4. HandleBar = "usable" => ~poisoned /\ ~Gone
  BY <1>1
<1>5. /\ ~poisoned => Sound(engine, durable, nextId) /\ (run.kind # "dml" => NoStatementMark(engine))
  BY DEF Valid
<1>6. Sound(engine, durable, nextId) => Len(engine.stack) \in Nat
  BY EngineFields DEF Sound
<1>7. ASSUME ~poisoned, OwnTop
      PROVE  Marks(engine, StatementMark) # {} /\ MarkAt(engine, StatementMark) = Len(engine.stack)
  <2>1. Len(engine.stack) \in 1 .. Len(engine.stack) /\ engine.stack[Len(engine.stack)].id = StatementMark
    BY <1>5, <1>6, <1>7, SMT DEF OwnTop, OnTop, StatementMark
  <2> QED  BY <1>5, <1>7, <2>1, TheMark DEF Marks
<1>8. ASSUME ~poisoned, ~OwnTop PROVE Marks(engine, StatementMark) = {}
  <2> SUFFICES ASSUME NEW k \in 1 .. Len(engine.stack), engine.stack[k].id = StatementMark
               PROVE  FALSE
    BY DEF Marks
  <2>1. run.kind = "dml"
    BY <1>5, <1>8 DEF NoStatementMark, StatementMark
  <2>2. k = Len(engine.stack)
    BY <1>5, <1>8, OwnMark
  <2> QED  BY <1>5, <1>6, <1>8, <2>1, <2>2, SMT DEF OwnTop, OnTop, StatementMark
<1>9. ASSUME HandleBar = "usable"
      PROVE  /\ OwnTop => WorkBar = Row \cap Top(engine)
             /\ run.kind = "ddl" => WorkBar = Row \cap durable
             /\ run.kind # "ddl" /\ ~OwnTop => WorkBar = Row \cap engine.view
  <2>1. OwnTop => WorkBar = Row \cap Top(engine)
    BY <1>4, <1>7, <1>9 DEF WorkBar, Top
  <2>2. run.kind = "ddl" => ~OwnTop
    BY DEF OwnTop
  <2> QED  BY <1>4, <1>8, <1>9, <2>1, <2>2 DEF WorkBar
<1> QED  BY <1>1, <1>2, <1>3, <1>9

LEMMA SeenEmpty ==
    ASSUME NEW e, NEW s, s = <<>>
    PROVE  Seen(e, s) = <<>>
BY SMT DEF Seen

(* What the registry s names is at the same places in e and f. *)
Common(e, f, s) ==
    \A i \in 1 .. Len(s) : \E k \in 1 .. Len(e.stack) :
        k \in 1 .. Len(f.stack) /\ e.stack[k] = f.stack[k] /\ e.stack[k].id = s[i].id

(* Savepoints that both stacks have at the same place are seen the same.   *)
LEMMA SeenSame ==
    ASSUME NEW e, NEW d, NEW n, Sound(e, d, n), NEW f, NEW g, NEW m, Sound(f, g, m), NEW s,
           Common(e, f, s)
    PROVE  Seen(e, s) = Seen(f, s)
<1>1. ASSUME NEW i \in 1 .. Len(s)
      PROVE  e.stack[MarkAt(e, s[i].id)].saved = f.stack[MarkAt(f, s[i].id)].saved
  <2>1. PICK k \in 1 .. Len(e.stack) :
           k \in 1 .. Len(f.stack) /\ e.stack[k] = f.stack[k] /\ e.stack[k].id = s[i].id
    BY <1>1 DEF Common
  <2>2. MarkAt(e, e.stack[k].id) = k
    BY TheMark
  <2>3. MarkAt(f, f.stack[k].id) = k
    BY <2>1, TheMark
  <2> QED  BY <2>1, <2>2, <2>3
<1> QED  BY <1>1 DEF Seen

LEMMA SeenAt ==
    ASSUME NEW e, NEW d, NEW n, Sound(e, d, n), NEW s, NEW i \in 1 .. Len(s),
           NEW k \in 1 .. Len(e.stack), e.stack[k].id = s[i].id
    PROVE  Seen(e, s)[i].saved = Row \cap e.stack[k].saved
<1>1. MarkAt(e, e.stack[k].id) = k
  BY TheMark
<1> QED  BY <1>1 DEF Seen

LEMMA SeenNames ==
    ASSUME NEW e, NEW s, Len(s) \in Nat
    PROVE  /\ Len(Seen(e, s)) = Len(s) /\ DOMAIN Seen(e, s) = 1 .. Len(s)
           /\ \A i \in 1 .. Len(s) :
                 Seen(e, s)[i] = [name |-> s[i].name, saved |-> Row \cap e.stack[MarkAt(e, s[i].id)].saved]
           /\ \A i \in 1 .. Len(s) : Seen(e, s)[i].name = s[i].name
BY SMT DEF Seen

(* t is s up to place m. *)
IsCut(t, s, m) == Len(t) = m /\ \A j \in 1 .. m : j \in 1 .. Len(s) /\ t[j] = s[j]

SeenUpTo(e, t, s, m) == Seen(e, t) = SubSeq(Seen(e, s), 1, m)

(* Cutting the registry cuts what is seen. *)
LEMMA SeenCut ==
    ASSUME NEW e, NEW s, NEW t, Len(s) \in Nat, NEW m \in Nat, m <= Len(s), IsCut(t, s, m)
    PROVE  SeenUpTo(e, t, s, m)
<1>1. SubSeq(Seen(e, s), 1, m) = [j \in 1 .. m |-> Seen(e, s)[j]]
  BY SeenNames, SMT
<1>2. \A j \in 1 .. m : Seen(e, s)[j] =
         [name |-> t[j].name, saved |-> Row \cap e.stack[MarkAt(e, t[j].id)].saved]
  <2>1. \A i \in 1 .. Len(s) : Seen(e, s)[i] =
           [name |-> s[i].name, saved |-> Row \cap e.stack[MarkAt(e, s[i].id)].saved]
    BY SeenNames, SMT
  <2> QED  BY <2>1 DEF IsCut
<1>3. Seen(e, t) = SubSeq(Seen(e, s), 1, m)
  BY <1>1, <1>2, ZenonT(40) DEF Seen, IsCut
<1> QED  BY <1>3 DEF SeenUpTo

(* Listed savepoints are seen the same in engines with the same stack. *)
LEMMA SeenStack ==
    ASSUME NEW e, NEW d, NEW n, Sound(e, d, n), NEW f, NEW g, NEW m, Sound(f, g, m), NEW s,
           e.stack = f.stack, Listed(e, s)
    PROVE  Seen(e, s) = Seen(f, s)
BY SeenSame DEF Listed, Common

-----------------------------------------------------------------------------
(* The steps of the abstract session.                                      *)

Step == [Tx!SpecNext]_(Tx!specVars)

(* The steps of TransactionSpec, in terms of what the mapping shows.       *)
LEMMA Stutters ==
    ASSUME HandleBar' = HandleBar, MarksBar' = MarksBar, WorkBar' = WorkBar,
           SameRows(durable', durable), active' = active \/ HandleBar # "usable"
    PROVE  Step
<1>1. (durable \cap Row)' = durable \cap Row
  BY RowSets DEF Row
<1>2. (active /\ HandleBar = "usable")' = (active /\ HandleBar = "usable")
  BY SMT
<1>3. UNCHANGED Tx!specVars
  BY <1>1, <1>2 DEF Tx!specVars
<1> QED  BY <1>3 DEF Step

LEMMA Starts ==
    ASSUME HandleBar = "usable", HandleBar' = "usable", active' = TRUE, MarksBar' = <<>>,
           WorkBar' = WorkBar, WorkBar = Row \cap durable'
    PROVE  Step
<1>1. (durable \cap Row)' = WorkBar
  BY DEF Row
<1>2. Tx!Start
  BY <1>1 DEF Tx!Start, Tx!Usable, Tx!Outside
<1> QED  BY <1>2 DEF Step, Tx!SpecNext

LEMMA Commits ==
    ASSUME HandleBar = "usable", HandleBar' = "usable", active, active' = FALSE, MarksBar' = <<>>,
           WorkBar' = WorkBar, WorkBar = Row \cap durable'
    PROVE  Step
<1>1. (durable \cap Row)' = WorkBar
  BY DEF Row
<1>2. Tx!Commit
  BY <1>1 DEF Tx!Commit, Tx!Usable, Tx!Outside
<1> QED  BY <1>2 DEF Step, Tx!SpecNext

LEMMA RollsBack ==
    ASSUME HandleBar = "usable", HandleBar' = "usable", active, active' \in BOOLEAN, MarksBar' = <<>>,
           SameRows(durable', durable), WorkBar' = Row \cap durable
    PROVE  Step
<1>1. (durable \cap Row)' = durable \cap Row /\ WorkBar' = durable \cap Row
  BY RowSets DEF Row
<1>2. Tx!Rollback
  BY <1>1 DEF Tx!Rollback, Tx!Usable
<1> QED  BY <1>2 DEF Step, Tx!SpecNext

LEMMA Loses ==
    ASSUME BarsOK, BarsOK', Valid, Valid', HandleBar \in {"usable", "lost"},
           HandleBar' \in {"poisoned", "lost"}, HandleBar' # HandleBar,
           SameRows(durable', durable)
    PROVE  Step
<1>1. (durable \cap Row)' = durable \cap Row
  BY RowSets DEF Row
<1>2. WorkBar' = (Row \cap durable)' /\ MarksBar' = <<>>
  BY DEF BarsOK
<1>3. WorkBar' = durable \cap Row
  BY <1>1, <1>2
<1>4. Tx!Lose
  BY <1>1, <1>2, <1>3 DEF Tx!Lose, Tx!Usable
<1> QED  BY <1>4 DEF Step, Tx!SpecNext

(* A handle that lost its transaction goes on with whole statements. *)
LEMMA Strays ==
    ASSUME BarsOK, BarsOK', Valid, Valid', HandleBar = "lost", HandleBar' = "lost",
           RowsIn(durable, durable')
    PROVE  Step
<1> DEFINE S == {s \in Stmt : <<s, 1>> \in durable'}
<1>1. Whole(durable')
  BY DEF Valid, Whole, Pair
<1>2. (durable \cap Row)' = (durable \cap Row) \cup (S \X {1, 2})
  <2>1. ASSUME NEW s \in Stmt, NEW k \in {1, 2}
        PROVE  <<s, k>> \in durable' <=> s \in S
    BY <1>1 DEF Whole, Pair
  <2>2. \A x \in Row : x \in durable' <=> x \in S \X {1, 2}
    BY <2>1, SMT DEF Row
  <2>3. S \X {1, 2} \subseteq Row
    BY SMT DEF Row
  <2> HIDE DEF S
  <2> QED  BY <2>2, <2>3 DEF RowsIn, Row
<1>3. WorkBar = Row \cap durable /\ MarksBar = <<>> /\ WorkBar' = (Row \cap durable)' /\ MarksBar' = <<>>
  BY DEF BarsOK
<1>4. WorkBar' = (durable \cap Row)'
  BY <1>3
<1>5. S \in SUBSET Stmt
  OBVIOUS
<1> HIDE DEF S
<1>6. Tx!Stray
  BY <1>2, <1>3, <1>4, <1>5 DEF Tx!Stray
<1> QED  BY <1>6 DEF Step, Tx!SpecNext

-----------------------------------------------------------------------------
(* Every step, as the client sees it: commands between statements.         *)

(* Committed rows stay, a lost transaction stays lost, and a handle is     *)
(* not poisoned by a step that changes the file.                           *)
Grows ==
    /\ RowsIn(durable, durable')
    /\ lost => lost'
    /\ HandleBar' = "poisoned" => SameRows(durable', durable)

Before == IInv /\ Valid /\ Valid' /\ RInv /\ BarsOK /\ BarsOK'

Simulated == RInv' /\ Grows /\ (HandleBar = "usable" => Step)

(* The client's view between statements. *)
IdleOK ==
    BarsOK /\ Valid /\ run = Idle /\ ~poisoned =>
    /\ HandleBar = IF lost THEN "lost" ELSE "usable"
    /\ ~lost => MarksBar = Seen(engine, saves) /\ WorkBar = Row \cap engine.view

(* Between statements the client sees what SQLite has.                     *)
LEMMA IdleBars == IdleOK
<1>1. run = Idle => run.kind = "none"
  BY IdleRun
<1> QED  BY <1>1 DEF IdleOK, BarsOK, Gone, OwnTop

LEMMA IdleBarsNext == IdleOK'
BY IdleBars, PTL

LEMMA IdleKeep ==
    ASSUME Before, run' = Idle, ~poisoned', lost => lost',
           RowsKept(engine', durable'), RowsIn(durable, durable')
    PROVE  RInv' /\ Grows
<1>1. run'.kind = "none" /\ run'.outer = FALSE
  BY IdleRun
<1>2. Based'
  BY <1>1 DEF Based
<1>3. HandleBar' # "poisoned"
  BY IdleBarsNext DEF Before, IdleOK
<1> QED  BY <1>2, <1>3 DEF RInv, RowsKept, RowsIn, Grows

Between == Before /\ run = Idle /\ ~poisoned /\ run' = Idle /\ ~poisoned'

LEMMA BetweenBars ==
    ASSUME Between
    PROVE  /\ HandleBar = "usable" => ~lost
           /\ ~lost => /\ HandleBar = "usable" /\ MarksBar = Seen(engine, saves)
                       /\ WorkBar = Row \cap engine.view
           /\ lost' => HandleBar' = "lost"
           /\ ~lost' => /\ HandleBar' = "usable" /\ MarksBar' = Seen(engine', saves')
                        /\ WorkBar' = Row \cap engine'.view
<1>1. /\ HandleBar = IF lost THEN "lost" ELSE "usable"
      /\ ~lost => MarksBar = Seen(engine, saves) /\ WorkBar = Row \cap engine.view
  BY IdleBars DEF Between, Before, IdleOK
<1>2. /\ HandleBar' = IF lost' THEN "lost" ELSE "usable"
      /\ ~lost' => MarksBar' = Seen(engine, saves)' /\ WorkBar' = (Row \cap engine.view)'
  BY IdleBarsNext DEF Between, Before, IdleOK
<1>3. Seen(engine, saves)' = Seen(engine', saves') /\ (Row \cap engine.view)' = Row \cap engine'.view
  BY DEF Seen, Row
<1> QED  BY <1>1, <1>2, <1>3

(* A command that changes nothing the client can see.                      *)
LEMMA IdleQuiet ==
    ASSUME Between, ~lost, ~lost', Seen(engine', saves') = Seen(engine, saves),
           SameRows(engine'.view, engine.view), SameRows(durable', durable), active' = active
    PROVE  Step
BY BetweenBars, RowSets, Stutters

(* A command that loses the transaction.                                   *)
LEMMA IdleLost ==
    ASSUME Between, ~lost, lost', SameRows(durable', durable)
    PROVE  Step
BY BetweenBars, Loses DEF Between, Before

(* The user transaction ends with what it did, and perhaps the next one    *)
(* begins.                                                                 *)
LEMMA IdleRestart ==
    ASSUME Between, ~lost, ~lost', active \in BOOLEAN, active' \in BOOLEAN, saves' = <<>>,
           SameRows(engine'.view, engine.view), SameRows(durable', engine.view),
           ~active => saves = <<>> /\ SameRows(durable', durable)
    PROVE  Step
<1>1. /\ HandleBar = "usable" /\ MarksBar = Seen(engine, saves) /\ WorkBar = Row \cap engine.view
      /\ HandleBar' = "usable" /\ MarksBar' = Seen(engine', saves') /\ WorkBar' = Row \cap engine'.view
  BY BetweenBars
<1>2. MarksBar' = <<>> /\ WorkBar' = WorkBar /\ WorkBar = Row \cap durable'
  BY <1>1, SeenEmpty, RowSets
<1>3. CASE active' = TRUE
  BY <1>1, <1>2, <1>3, Starts
<1>4. CASE active /\ active' = FALSE
  BY <1>1, <1>2, <1>4, Commits
<1>5. CASE active = FALSE /\ active' = FALSE
  BY <1>1, <1>2, <1>5, SeenEmpty, Stutters
<1> QED  BY <1>3, <1>4, <1>5

(* commit_user_transaction: all outcomes.                                  *)
LEMMA CommitUserKeeps ==
    ASSUME Before, Accepts, NEW c \in CommitUser
    PROVE  /\ Settled(c.e, c.d, nextId) /\ RowsKept(c.e, c.d) /\ RowsIn(durable, c.d)
           /\ ~c.ok => c.d = durable /\ (c.e = engine \/ (engine.open /\ ~c.e.open))
           /\ c.ok => /\ c.e.view = engine.view
                      /\ ~active => c.e = engine /\ c.d = durable
                      /\ ~lost => ~c.e.open /\ c.d = engine.view
<1>1. /\ Settled(c.e, c.d, nextId)
      /\ ~c.ok => (c.e = engine /\ c.d = durable) \/ (engine.open /\ ~c.e.open)
      /\ c.ok => /\ c.e.view = engine.view
                 /\ ~active => c.e = engine /\ c.d = durable
                 /\ ~lost => ~c.e.open
  BY CommitUserShape DEF Before
<1>2. Settled(engine, durable, nextId) /\ RowsKept(engine, durable)
  BY IdleFacts DEF Before, RInv
<1>3. /\ RowsKept(c.e, c.d) /\ RowsIn(durable, c.d)
      /\ ~c.ok => c.d = durable
  <2>1. CASE active
    <3>1. c \in CommitOutcomes(engine, durable)
      BY <2>1 DEF CommitUser
    <3> QED  BY <1>2, <3>1, CommitKeeps DEF Settled
  <2>2. CASE ~active
    <3>1. c = Outcome(TRUE, engine, durable)
      BY <2>2 DEF CommitUser, Skip
    <3>2. c.ok /\ c.e = engine /\ c.d = durable
      BY <3>1 DEF Outcome
    <3> QED  BY <1>2, <3>2, RowSets
  <2> QED  BY <2>1, <2>2
<1>4. c.ok /\ ~lost => c.d = engine.view
  <2>1. Sound(c.e, c.d, nextId)
    BY <1>1 DEF Settled
  <2> QED  BY <1>1, <2>1, ClosedKept
<1> QED  BY <1>1, <1>3, <1>4

(* A command that fails, perhaps with the transaction. *)
LEMMA FailsWithSimulated ==
    ASSUME Between, NEW o, FailsWith(o), o.d = durable, RowsKept(o.e, o.d),
           o.e = engine \/ (engine.open /\ ~o.e.open)
    PROVE  Simulated
<1>1. /\ engine' = o.e /\ durable' = o.d /\ active' = active /\ saves' = saves
      /\ lost' = (lost \/ (active /\ engine.open /\ ~o.e.open))
  BY DEF FailsWith, Becomes
<1>2. SameRows(durable', durable) /\ RowsIn(durable, durable') /\ RowsKept(engine', durable')
  BY <1>1, RowSets
<1>3. RInv' /\ Grows
  BY <1>1, <1>2, IdleKeep DEF Between
<1>4. ASSUME ~lost PROVE Step
  <2>1. CASE lost'
    BY <1>2, <1>4, <2>1, IdleLost
  <2>2. CASE ~lost'
    <3>0. IInv /\ Accepts
      BY DEF Between, Before, Accepts
    <3>1. active <=> engine.open
      BY <1>4, <3>0, IdleFacts DEF Agree
    <3>2. engine' = engine
      BY <1>1, <2>2, <3>1
    <3> QED  BY <1>1, <1>2, <1>4, <2>2, <3>2, RowSets, IdleQuiet
  <2> QED  BY <2>1, <2>2
<1> QED  BY <1>3, <1>4, BetweenBars DEF Simulated

(* COMMIT, if there is a transaction, and then what may be a BEGIN. *)
LEMMA RestartSimulated ==
    ASSUME Between, NEW c \in CommitUser, c.ok, NEW b, Becomes(b),
           b \in BeginOutcomes(c.e, c.d) \/ (b.e = c.e /\ b.d = c.d),
           saves' = IF active THEN <<>> ELSE saves, lost' = lost
    PROVE  Simulated
<1>0. IInv /\ Accepts
  BY DEF Between, Before, Accepts
<1>1. /\ Settled(c.e, c.d, nextId) /\ RowsKept(c.e, c.d) /\ RowsIn(durable, c.d)
      /\ c.e.view = engine.view
      /\ ~active => c.e = engine /\ c.d = durable
      /\ ~lost => ~c.e.open /\ c.d = engine.view
  BY <1>0, CommitUserKeeps DEF Between
<1>2. b.d = c.d /\ b.e.view = c.e.view /\ RowsKept(b.e, b.d)
  <2>1. CASE b \in BeginOutcomes(c.e, c.d)
    <3>1. b.d = c.d /\ b.e.view = c.e.view
      BY <1>1, <2>1, BeginShape, SMT
    <3> QED  BY <1>1, <2>1, <3>1, BeginKeeps
  <2>2. CASE b.e = c.e /\ b.d = c.d
    BY <1>1, <2>2
  <2> QED  BY <2>1, <2>2
<1>3. engine' = b.e /\ durable' = b.d
  BY DEF Becomes
<1>4. RInv' /\ Grows
  BY <1>1, <1>2, <1>3, IdleKeep DEF Between
<1>5. ASSUME ~lost PROVE Step
  <2>1. active \in BOOLEAN /\ active' \in BOOLEAN
    BY DEF Between, Before, Valid
  <2>2. ~active => saves = <<>>
    BY <1>0, <1>5, IdleFacts DEF Agree
  <2>3. /\ engine'.view = engine.view /\ durable' = engine.view
        /\ ~active => durable' = durable
    BY <1>1, <1>2, <1>3, <1>5
  <2>4. /\ SameRows(engine'.view, engine.view) /\ SameRows(durable', engine.view)
        /\ ~active => SameRows(durable', durable)
    BY <2>3, RowSets
  <2> QED  BY <1>5, <2>1, <2>2, <2>4, IdleRestart
<1> QED  BY <1>4, <1>5, BetweenBars DEF Simulated

LEMMA BetweenSteps ==
    ASSUME Before, Accepts, UNCHANGED <<poisoned, run>>
    PROVE  Between
BY DEF Accepts, Between

LEMMA StartTransactionSimulated == ASSUME Before, StartTransaction PROVE Simulated
<1>1. Accepts /\ UNCHANGED <<poisoned, run>>
  BY DEF StartTransaction
<1>2. Between
  BY <1>1, BetweenSteps
<1>3. PICK c \in CommitUser :
         \/ ~c.ok /\ FailsWith(c)
         \/ c.ok /\ \E b \in BeginOutcomes(c.e, c.d) :
               Becomes(b) /\ saves' = (IF active THEN <<>> ELSE saves) /\ lost' = lost
  BY DEF StartTransaction
<1>4. CASE ~c.ok /\ FailsWith(c)
  BY <1>1, <1>2, <1>4, CommitUserKeeps, FailsWithSimulated
<1>5. CASE c.ok
  BY <1>2, <1>3, <1>5, RestartSimulated
<1> QED  BY <1>3, <1>4, <1>5

LEMMA CommitSimulated == ASSUME Before, NEW chain \in BOOLEAN, Commit(chain) PROVE Simulated
<1>1. Accepts /\ UNCHANGED <<poisoned, run>>
  BY DEF Commit
<1>2. Between
  BY <1>1, BetweenSteps
<1>3. PICK c \in CommitUser :
         \/ ~c.ok /\ FailsWith(c)
         \/ /\ c.ok /\ saves' = (IF active THEN <<>> ELSE saves) /\ lost' = lost
            /\ \E b \in IF chain THEN BeginOutcomes(c.e, c.d) ELSE Skip(c.e, c.d) : Becomes(b)
  BY DEF Commit
<1>4. CASE ~c.ok /\ FailsWith(c)
  BY <1>1, <1>2, <1>4, CommitUserKeeps, FailsWithSimulated
<1>5. CASE c.ok
  <2>1. PICK b \in IF chain THEN BeginOutcomes(c.e, c.d) ELSE Skip(c.e, c.d) : Becomes(b)
    BY <1>3, <1>5
  <2>2. b \in BeginOutcomes(c.e, c.d) \/ (b.e = c.e /\ b.d = c.d)
    <3>1. b \in Skip(c.e, c.d) => b.e = c.e /\ b.d = c.d
      BY SMT DEF Skip, Outcome
    <3> QED  BY <2>1, <3>1
  <2> QED  BY <1>2, <1>3, <1>5, <2>1, <2>2, RestartSimulated
<1> QED  BY <1>3, <1>4, <1>5

LEMMA SetAutocommitSimulated == ASSUME Before, NEW value \in BOOLEAN, SetAutocommit(value) PROVE Simulated
<1>1. Accepts /\ UNCHANGED <<poisoned, run>>
  BY DEF SetAutocommit
<1>2. Between
  BY <1>1, BetweenSteps
<1>3. PICK c \in IF value /\ ~autocommit THEN CommitUser ELSE Skip(engine, durable) :
         \/ ~c.ok /\ FailsWith(c)
         \/ /\ c.ok /\ Becomes(c) /\ lost' = lost
            /\ value /\ ~autocommit /\ active => saves' = <<>>
            /\ ~(value /\ ~autocommit /\ active) => active' = active /\ saves' = saves
  BY DEF SetAutocommit
<1>4. CASE value /\ ~autocommit
  <2>1. c \in CommitUser
    BY <1>3, <1>4
  <2>2. CASE ~c.ok /\ FailsWith(c)
    BY <1>1, <1>2, <2>1, <2>2, CommitUserKeeps, FailsWithSimulated
  <2>3. CASE c.ok
    <3>1. saves' = IF active THEN <<>> ELSE saves
      BY <1>3, <1>4, <2>3
    <3> QED  BY <1>2, <1>3, <2>1, <2>3, <3>1, RestartSimulated
  <2> QED  BY <1>3, <2>2, <2>3
<1>5. CASE ~(value /\ ~autocommit)
  <2>1. c.ok /\ c.e = engine /\ c.d = durable
    BY <1>3, <1>5, SMT DEF Skip, Outcome
  <2>2. /\ engine' = engine /\ durable' = durable /\ active' = active /\ saves' = saves
        /\ lost' = lost
    BY <1>3, <1>5, <2>1 DEF Becomes
  <2>3. /\ SameRows(engine'.view, engine.view) /\ SameRows(durable', durable)
        /\ RowsIn(durable, durable')
    BY <2>2, RowSets
  <2>4. RowsKept(engine', durable')
    BY <1>2, <2>2 DEF Between, Before, RInv
  <2>5. RInv' /\ Grows
    BY <1>2, <2>2, <2>3, <2>4, IdleKeep DEF Between
  <2>6. ~lost => Step
    BY <1>2, <2>2, <2>3, IdleQuiet
  <2> QED  BY <1>2, <2>5, <2>6, BetweenBars DEF Simulated
<1> QED  BY <1>4, <1>5

LEMMA RollbackSimulated == ASSUME Before, NEW chain \in BOOLEAN, Rollback(chain) PROVE Simulated
<1>1. Accepts /\ UNCHANGED <<poisoned, run>>
  BY DEF Rollback
<1>2. Between
  BY <1>1, BetweenSteps
<1>3. /\ Settled(engine, durable, nextId) /\ durable \in SUBSET Stored /\ Whole(durable)
      /\ ~lost => Agree(engine, active, saves)
      /\ temps \subseteq Stmt /\ RowsKept(engine, durable)
  BY <1>1, IdleFacts DEF Before, RInv
<1>4. PICK c \in IF active THEN RollbackOutcomes(engine, durable) ELSE Skip(engine, durable) :
         \/ ~c.ok /\ FailsWith(c)
         \/ /\ c.ok /\ saves' = (IF active THEN <<>> ELSE saves) /\ lost' = lost
            /\ \E r \in IF active THEN RepairOutcomes(c.e, c.d) ELSE {c} :
               \E h \in IF active /\ r.ok THEN ReconcileOutcomes(r.e, r.d) ELSE {r} :
               \E b \in IF chain /\ h.ok THEN BeginOutcomes(h.e, h.d) ELSE {h} :
                  Becomes(b) /\ active' = (chain /\ h.ok /\ b.ok)
  BY DEF Rollback
<1>5. /\ RowsKept(c.e, c.d) /\ c.d = durable
      /\ ~c.ok => c.e = engine
      /\ ~active => c.ok /\ c.e = engine
      /\ c.ok => Settled(c.e, c.d, nextId)
      /\ c.ok /\ active => ~c.e.open
  <2>1. CASE active
    <3>1. c \in RollbackOutcomes(engine, durable)
      BY <1>4, <2>1
    <3>2. /\ c.d = durable
          /\ ~c.ok => c.e = engine
          /\ c.ok => Settled(c.e, c.d, nextId) /\ ~c.e.open
      BY <1>3, <3>1, RollbackShape, SMT
    <3> QED  BY <1>3, <2>1, <3>1, <3>2, RollbackKeeps
  <2>2. CASE ~active
    <3>1. c.ok /\ c.e = engine /\ c.d = durable
      BY <1>4, <2>2, SMT DEF Skip, Outcome
    <3> QED  BY <1>3, <2>2, <3>1
  <2> QED  BY <2>1, <2>2
<1>6. CASE ~c.ok /\ FailsWith(c)
  BY <1>2, <1>5, <1>6, FailsWithSimulated
<1>7. CASE c.ok
  <2>1. PICK r \in IF active THEN RepairOutcomes(c.e, c.d) ELSE {c} :
           \E h \in IF active /\ r.ok THEN ReconcileOutcomes(r.e, r.d) ELSE {r} :
           \E b \in IF chain /\ h.ok THEN BeginOutcomes(h.e, h.d) ELSE {h} :
              Becomes(b) /\ active' = (chain /\ h.ok /\ b.ok)
    BY <1>4, <1>7
  <2>2. PICK h \in IF active /\ r.ok THEN ReconcileOutcomes(r.e, r.d) ELSE {r} :
           \E b \in IF chain /\ h.ok THEN BeginOutcomes(h.e, h.d) ELSE {h} :
              Becomes(b) /\ active' = (chain /\ h.ok /\ b.ok)
    BY <2>1
  <2>3. PICK b \in IF chain /\ h.ok THEN BeginOutcomes(h.e, h.d) ELSE {h} :
           Becomes(b) /\ active' = (chain /\ h.ok /\ b.ok)
    BY <2>2
  <2>4. /\ Settled(r.e, r.d, nextId) /\ RowsKept(r.e, r.d) /\ SameRows(r.d, durable)
        /\ active => ~r.e.open
        /\ ~active => r.e = engine /\ r.d = durable
    <3>1. CASE active
      <4>1. r \in RepairOutcomes(c.e, c.d)
        BY <2>1, <3>1
      <4>2. Settled(r.e, r.d, nextId)
        BY <1>3, <1>5, <1>7, <4>1, RepairShape
      <4>3. /\ RowsKept(r.e, r.d) /\ SameRows(r.d, durable)
            /\ r.e.open = c.e.open \/ c.e.open
        BY <1>3, <1>5, <1>7, <4>1, RepairKeeps
      <4> QED  BY <1>5, <1>7, <3>1, <4>2, <4>3
    <3>2. CASE ~active
      BY <1>5, <1>7, <2>1, <3>2, RowSets
    <3> QED  BY <3>1, <3>2
  <2>5. /\ h.d = r.d /\ h.e.view = r.e.view /\ RowsKept(h.e, h.d)
        /\ h.ok \/ ~active => h.e = r.e
    <3>1. CASE active /\ r.ok
      <4>1. h \in ReconcileOutcomes(r.e, r.d) /\ ~r.e.open /\ r.e \in Engine
        BY <2>2, <2>4, <3>1 DEF Settled, Sound
      <4>2. h.d = r.d /\ (h.e = r.e \/ (~h.ok /\ h.e = [r.e EXCEPT !.open = TRUE]))
        BY <2>4, <4>1, ReconcileShape, SMT
      <4>3. h.e.view = r.e.view /\ h.e.stack = r.e.stack
        BY <4>1, <4>2 DEF Engine
      <4> QED  BY <2>4, <3>1, <4>2, <4>3 DEF RowsKept
    <3>2. CASE ~(active /\ r.ok)
      BY <2>2, <2>4, <3>2
    <3> QED  BY <3>1, <3>2
  <2>6. b.d = r.d /\ b.e.view = r.e.view /\ RowsKept(b.e, b.d)
    <3>1. CASE chain /\ h.ok
      <4>1. b \in BeginOutcomes(r.e, r.d)
        BY <2>3, <2>5, <3>1
      <4>2. b.d = r.d /\ b.e.view = r.e.view
        BY <2>4, <4>1, BeginShape, SMT
      <4> QED  BY <2>4, <4>1, <4>2, BeginKeeps
    <3>2. CASE ~(chain /\ h.ok)
      BY <2>3, <2>5, <3>2
    <3> QED  BY <3>1, <3>2
  <2>7. engine' = b.e /\ durable' = b.d
    BY <2>3 DEF Becomes
  <2>8. saves' = (IF active THEN <<>> ELSE saves) /\ lost' = lost
    BY <1>4, <1>7
  <2>9. RInv' /\ Grows
    <3>1. RowsIn(durable, durable') /\ RowsKept(engine', durable')
      BY <2>4, <2>6, <2>7, RowSets
    <3> QED  BY <1>2, <2>8, <3>1, IdleKeep DEF Between
  <2>10. ASSUME ~lost PROVE Step
    <3>1. CASE active
      <4>1. r.e.view = r.d
        BY <2>4, <3>1, ClosedKept DEF Settled
      <4>2. SameRows(engine'.view, durable) /\ SameRows(durable', durable)
        BY <2>4, <2>6, <2>7, <4>1
      <4>3. /\ HandleBar = "usable" /\ HandleBar' = "usable" /\ MarksBar' = Seen(engine', saves')
            /\ WorkBar' = Row \cap engine'.view /\ saves' = <<>>
        BY <1>2, <2>8, <2>10, <3>1, BetweenBars
      <4>4. MarksBar' = <<>> /\ WorkBar' = Row \cap durable /\ active' \in BOOLEAN
        BY <2>3, <4>2, <4>3, SeenEmpty, RowSets
      <4> QED  BY <3>1, <4>2, <4>3, <4>4, RollsBack
    <3>2. CASE ~active
      <4>1. c \in CommitUser
        BY <1>4, <3>2 DEF CommitUser
      <4>2. b \in BeginOutcomes(c.e, c.d) \/ (b.e = c.e /\ b.d = c.d)
        BY <1>5, <2>3, <2>4, <2>5, <3>2
      <4> QED
        BY <1>2, <1>7, <2>8, <2>3, <2>10, <4>1, <4>2, RestartSimulated, BetweenBars DEF Simulated
    <3> QED  BY <3>1, <3>2
  <2> QED  BY <1>2, <2>9, <2>10, BetweenBars DEF Simulated
<1> QED  BY <1>4, <1>6, <1>7

LEMMA ReleaseSimulated == ASSUME Before, NEW n \in Name, Release(n) PROVE Simulated
<1>1. Accepts /\ active /\ UNCHANGED <<active, lost, poisoned, run>>
  BY DEF Release
<1>2. Between
  BY <1>1, BetweenSteps
<1>3. /\ Settled(engine, durable, nextId) /\ RowsKept(engine, durable)
      /\ ~lost => Agree(engine, active, saves)
  BY <1>1, IdleFacts DEF Before, RInv
<1>4. PICK i \in Found(n) : \E r \in ReleaseOutcomes(engine, durable, saves[i].id) :
         Becomes(r) /\ saves' = IF r.ok THEN SubSeq(saves, 1, i - 1) ELSE saves
  BY DEF Release
<1>5. PICK r \in ReleaseOutcomes(engine, durable, saves[i].id) :
         Becomes(r) /\ saves' = IF r.ok THEN SubSeq(saves, 1, i - 1) ELSE saves
  BY <1>4
<1>6. engine' = r.e /\ durable' = r.d
  BY <1>5 DEF Becomes
<1>7. Sound(engine, durable, nextId) /\ Whole(engine.view)
  BY <1>3 DEF Settled
<1>8. CASE ~r.ok /\ r.e = engine /\ r.d = durable
  <2>1. saves' = saves /\ SameRows(engine'.view, engine.view) /\ SameRows(durable', durable)
        /\ RowsIn(durable, durable') /\ RowsKept(engine', durable') /\ engine' = engine
    BY <1>3, <1>5, <1>6, <1>8, RowSets
  <2>2. RInv' /\ Grows
    BY <1>1, <1>2, <2>1, IdleKeep DEF Between
  <2>3. ~lost => Step
    BY <1>1, <1>2, <2>1, IdleQuiet
  <2> QED  BY <1>2, <2>2, <2>3, BetweenBars DEF Simulated
<1>9. CASE engine.bySavepoint /\ r \in CommitOutcomes(engine, durable)
  <2>1. RowsKept(r.e, r.d) /\ RowsIn(durable, r.d)
    BY <1>3, <1>7, <1>9, CommitKeeps
  <2>2. RInv' /\ Grows
    BY <1>1, <1>2, <1>6, <2>1, IdleKeep DEF Between
  <2>3. lost
    BY <1>3, <1>9 DEF Agree
  <2> QED  BY <1>2, <2>2, <2>3, BetweenBars DEF Simulated
<1>10. CASE r.ok /\ r.d = durable /\ Released(r.e, engine, durable, nextId, saves[i].id)
  <2>1. RowsKept(r.e, r.d) /\ RowsIn(durable, r.d)
    BY <1>3, <1>10, ReleaseKeeps, RowSets
  <2>2. RInv' /\ Grows
    BY <1>1, <1>2, <1>6, <2>1, IdleKeep DEF Between
  <2>3. ASSUME ~lost PROVE Step
    <3>1. /\ HandleBar = "usable" /\ MarksBar = Seen(engine, saves) /\ WorkBar = Row \cap engine.view
          /\ HandleBar' = "usable" /\ MarksBar' = Seen(engine', saves') /\ WorkBar' = Row \cap engine'.view
      BY <1>1, <1>2, <2>3, BetweenBars
    <3>2. WorkBar' = WorkBar /\ (durable \cap Row)' = durable \cap Row
      BY <1>6, <1>10, <3>1 DEF Released, Row
    <3>3. PICK k \in 1 .. Len(engine.stack) :
             engine.stack[k].id = saves[i].id /\ Below(r.e, engine, k) /\ Sound(r.e, durable, nextId)
      BY <1>10 DEF Released
    <3>4. saves \in Seq(Entry) /\ Len(saves) \in Nat /\ i \in 1 .. Len(saves) /\ saves[i].name = n
      BY EntryFields, <1>4 DEF Found, Before
    <3>5. /\ saves' = SubSeq(saves, 1, i - 1) /\ i - 1 \in 0 .. Len(saves) /\ i - 1 \in Nat
          /\ nextId' = nextId
      BY <1>5, <1>10, <3>4, SMT DEF Release
    <3>6. /\ Len(saves') = i - 1
          /\ \A j \in 1 .. (i - 1) : j \in 1 .. Len(saves) /\ saves'[j] = saves[j]
      BY <3>5, CutRegistry DEF Before
    <3>7. Seen(engine', saves') = Seen(engine, saves')
      <4>1. ASSUME NEW j \in 1 .. Len(saves')
            PROVE  \E l \in 1 .. Len(r.e.stack) :
                      l \in 1 .. Len(engine.stack) /\ r.e.stack[l] = engine.stack[l]
                      /\ r.e.stack[l].id = saves'[j].id
        <5>1. j \in 1 .. Len(saves) /\ saves'[j] = saves[j] /\ j < i
          BY <3>4, <3>6, SMT
        <5>2. Listed(engine, saves)
          BY <1>1, <1>3, <2>3 DEF Agree
        <5>3. Under(engine, k, saves[j].id)
          BY <1>3, <3>3, <3>4, <5>1, <5>2, CutListed DEF Before
        <5> QED  BY <3>3, <5>1, <5>3 DEF Under, Below
      <4>2. Seen(r.e, saves') = Seen(engine, saves')
        <5>1. Common(r.e, engine, saves')
          BY <4>1 DEF Common
        <5> QED  BY <1>7, <3>3, <5>1, SeenSame
      <4> QED  BY <1>6, <4>2
    <3>8. Seen(engine, saves') = SubSeq(Seen(engine, saves), 1, i - 1)
      <4> DEFINE m == i - 1
      <4>1. m \in Nat /\ m <= Len(saves) /\ IsCut(saves', saves, m)
        BY <3>4, <3>5, <3>6, SMT DEF IsCut
      <4> HIDE DEF m
      <4>2. SeenUpTo(engine, saves', saves, m)
        BY <3>4, <4>1, SeenCut
      <4> QED  BY <4>2 DEF m, SeenUpTo
    <3>9. i \in Tx!At(n)
      <4>1. Len(Seen(engine, saves)) = Len(saves) /\ Seen(engine, saves)[i].name = saves[i].name
        BY <3>4, SeenNames, SMT
      <4> QED  BY <3>1, <3>4, <4>1 DEF Tx!At
    <3>10. Tx!Forget(n)
      <4>1. (active /\ HandleBar = "usable")' = (active /\ HandleBar = "usable")
        BY <1>1, <3>1, SMT
      <4>2. MarksBar' = SubSeq(MarksBar, 1, i - 1)
        BY <3>1, <3>7, <3>8
      <4> QED  BY <1>1, <3>1, <3>2, <3>9, <4>1, <4>2 DEF Tx!Forget, Tx!Usable
    <3> QED  BY <3>10 DEF Step, Tx!SpecNext
  <2> QED  BY <1>2, <2>2, <2>3, BetweenBars DEF Simulated
<1>11. \/ ~r.ok /\ r.e = engine /\ r.d = durable
       \/ engine.bySavepoint /\ r \in CommitOutcomes(engine, durable)
       \/ r.ok /\ r.d = durable /\ Released(r.e, engine, durable, nextId, saves[i].id)
  BY <1>5, <1>7, ReleaseShape, SMT
<1> QED  BY <1>8, <1>9, <1>10, <1>11

LEMMA RollbackToSimulated == ASSUME Before, NEW n \in Name, RollbackTo(n) PROVE Simulated
<1>1. Accepts /\ active /\ UNCHANGED <<active, nextId, poisoned, run>>
  BY DEF RollbackTo
<1>2. Between
  BY <1>1, BetweenSteps
<1>3. /\ Settled(engine, durable, nextId) /\ RowsKept(engine, durable) /\ temps \subseteq Stmt
      /\ ~lost => Agree(engine, active, saves)
  BY <1>1, IdleFacts DEF Before, RInv
<1>4. PICK i \in Found(n) : \E c \in RollbackToOutcomes(engine, durable, saves[i].id) :
         /\ saves' = IF c.ok THEN SubSeq(saves, 1, i) ELSE saves
         /\ \E r \in IF c.ok THEN RepairOutcomes(c.e, c.d) ELSE {c} :
               Becomes(r) /\ lost' = (lost \/ (c.e.open /\ ~r.e.open))
  BY DEF RollbackTo
<1>5. PICK c \in RollbackToOutcomes(engine, durable, saves[i].id) :
         /\ saves' = IF c.ok THEN SubSeq(saves, 1, i) ELSE saves
         /\ \E r \in IF c.ok THEN RepairOutcomes(c.e, c.d) ELSE {c} :
               Becomes(r) /\ lost' = (lost \/ (c.e.open /\ ~r.e.open))
  BY <1>4
<1>6. PICK r \in IF c.ok THEN RepairOutcomes(c.e, c.d) ELSE {c} :
         Becomes(r) /\ lost' = (lost \/ (c.e.open /\ ~r.e.open))
  BY <1>5
<1>7. engine' = r.e /\ durable' = r.d
  BY <1>6 DEF Becomes
<1>8. Sound(engine, durable, nextId) /\ NoStatementMark(engine)
  BY <1>3 DEF Settled
<1>9. /\ c.d = durable
      /\ ~c.ok => c.e = engine
      /\ c.ok => Returned(c.e, engine, durable, nextId, saves[i].id)
  BY <1>8, RollbackToShape, ZenonT(40)
<1>10. CASE ~c.ok
  <2>1. r = c /\ saves' = saves
    BY <1>5, <1>6, <1>10
  <2>2. engine' = engine /\ durable' = durable /\ saves' = saves /\ (lost => lost') /\ (~lost => ~lost')
    BY <1>6, <1>7, <1>9, <1>10, <2>1
  <2>3. /\ SameRows(engine'.view, engine.view) /\ SameRows(durable', durable)
        /\ RowsIn(durable, durable') /\ RowsKept(engine', durable')
    BY <1>3, <2>2, RowSets
  <2>4. RInv' /\ Grows
    BY <1>2, <2>2, <2>3, IdleKeep DEF Between
  <2>5. ~lost => Step
    BY <1>1, <1>2, <2>2, <2>3, IdleQuiet
  <2> QED  BY <1>2, <2>4, <2>5, BetweenBars DEF Simulated
<1>11. CASE c.ok
  <2>1. PICK k \in 1 .. Len(engine.stack) : engine.stack[k].id = saves[i].id /\ At(c.e, engine, k)
    BY <1>9, <1>11 DEF Returned
  <2>2. Settled(c.e, durable, nextId) /\ RowsKept(c.e, durable) /\ c.e.open
    <3>1. Sound(c.e, durable, nextId) /\ NoStatementMark(c.e) /\ c.e.open
      BY <1>8, <1>9, <1>11 DEF Returned
    <3>2. Whole(c.e.view)
      BY <1>8, <2>1 DEF At, Sound
    <3> QED  BY <1>3, <1>9, <1>11, <3>1, <3>2, ReturnKeeps DEF Settled
  <2>3. /\ RowsKept(r.e, r.d) /\ SameRows(r.d, durable)
        /\ \/ /\ SameRows(r.e.view, c.e.view) /\ r.e.open = c.e.open /\ r.e.stack = c.e.stack
           \/ ~r.e.open
    <3>1. r \in RepairOutcomes(c.e, durable)
      BY <1>6, <1>9, <1>11
    <3> QED  BY <1>3, <2>2, <3>1, RepairKeeps
  <2>4. Settled(r.e, r.d, nextId)
    <3>1. r \in RepairOutcomes(c.e, durable)
      BY <1>6, <1>9, <1>11
    <3> QED  BY <1>3, <2>2, <3>1, RepairShape
  <2>5. RInv' /\ Grows
    <3>1. RowsIn(durable, durable') /\ RowsKept(engine', durable') /\ (lost => lost')
      BY <1>6, <1>7, <2>3, RowSets
    <3> QED  BY <1>2, <3>1, IdleKeep DEF Between
  <2>6. ASSUME ~lost PROVE Step
    <3>1. CASE ~r.e.open
      <4>1. lost' /\ SameRows(durable', durable)
        BY <1>6, <1>7, <2>2, <2>3, <3>1
      <4> QED  BY <1>2, <2>6, <4>1, IdleLost
    <3>2. CASE r.e.open
      <4>0. SameRows(r.e.view, c.e.view) /\ r.e.stack = c.e.stack /\ ~lost'
        BY <1>6, <2>3, <2>6, <3>2
      <4>1. /\ HandleBar = "usable" /\ MarksBar = Seen(engine, saves) /\ WorkBar = Row \cap engine.view
            /\ HandleBar' = "usable" /\ MarksBar' = Seen(engine', saves')
            /\ WorkBar' = Row \cap engine'.view
        BY <1>2, <2>6, <4>0, BetweenBars
      <4>2. saves \in Seq(Entry) /\ Len(saves) \in Nat /\ i \in 1 .. Len(saves) /\ saves[i].name = n
        BY EntryFields, <1>4 DEF Found, Before
      <4>3. MarksBar[i].saved = Row \cap engine.stack[k].saved
        <5>1. Seen(engine, saves)[i].saved = Row \cap engine.stack[k].saved
          BY <1>8, <2>1, <4>2, SeenAt, SMT
        <5> QED  BY <4>1, <5>1
      <4>4. WorkBar' = Row \cap engine.stack[k].saved
        <5>1. c.e.view = engine.stack[k].saved
          BY <2>1 DEF At
        <5>2. Row \cap r.e.view = Row \cap c.e.view
          BY <4>0, RowMeet, SMT
        <5> QED  BY <1>7, <4>1, <5>1, <5>2
      <4>5. WorkBar' = MarksBar[i].saved
        BY <4>3, <4>4
      <4>6. saves' = SubSeq(saves, 1, i) /\ i \in 0 .. Len(saves)
        BY <1>5, <1>11, <4>2, SMT
      <4>7. /\ Len(saves') = i
            /\ \A j \in 1 .. i : j \in 1 .. Len(saves) /\ saves'[j] = saves[j]
        BY <1>1, <4>6, CutRegistry DEF Before
      <4>8. Common(r.e, engine, saves')
        <5> SUFFICES ASSUME NEW j \in 1 .. Len(saves')
                     PROVE  \E l \in 1 .. Len(r.e.stack) :
                               /\ l \in 1 .. Len(engine.stack) /\ r.e.stack[l] = engine.stack[l]
                               /\ r.e.stack[l].id = saves'[j].id
          BY DEF Common
        <5>1. j \in 1 .. Len(saves) /\ saves'[j] = saves[j] /\ j <= i
          BY <4>2, <4>7, SMT
        <5>2. Listed(engine, saves)
          BY <1>1, <1>3, <2>6 DEF Agree
        <5>3. UpTo(engine, k, saves[j].id)
          BY <1>3, <2>1, <4>2, <5>1, <5>2, CutListed DEF Before
        <5> QED  BY <2>1, <4>0, <5>1, <5>3 DEF UpTo, At
      <4>9. Seen(r.e, saves') = Seen(engine, saves')
        BY <1>8, <2>4, <4>8, SeenSame, ZenonT(40) DEF Settled
      <4>10. SeenUpTo(engine, saves', saves, i)
        <5>1. i \in Nat /\ i <= Len(saves) /\ IsCut(saves', saves, i)
          BY <4>2, <4>7, SMT DEF IsCut
        <5> QED  BY <4>2, <5>1, SeenCut
      <4>11. MarksBar' = SubSeq(MarksBar, 1, i)
        BY <1>7, <4>1, <4>9, <4>10 DEF SeenUpTo
      <4>12. i \in Tx!At(n)
        <5>1. Len(Seen(engine, saves)) = Len(saves) /\ Seen(engine, saves)[i].name = saves[i].name
          BY <4>2, SeenNames, SMT
        <5> QED  BY <4>1, <4>2, <5>1 DEF Tx!At
      <4>13. (active /\ HandleBar = "usable")' = (active /\ HandleBar = "usable")
        BY <1>1, <4>1, SMT
      <4>14. (durable \cap Row)' = durable \cap Row
        BY <1>7, <2>3, RowSets DEF Row
      <4>15. Tx!BackTo(n)
        BY <1>1, <4>1, <4>5, <4>11, <4>12, <4>13, <4>14 DEF Tx!BackTo, Tx!Usable
      <4> QED  BY <4>15 DEF Step, Tx!SpecNext
    <3> QED  BY <3>1, <3>2
  <2> QED  BY <1>2, <2>5, <2>6, BetweenBars DEF Simulated
<1> QED  BY <1>10, <1>11

LEMMA SeenType ==
    ASSUME NEW e, NEW s \in Seq(Entry)
    PROVE  Seen(e, s) \in Seq([name : Name, saved : SUBSET Row]) /\ Len(Seen(e, s)) = Len(s)
<1>0. \A i \in 1 .. Len(s) : s[i] \in Entry
  BY SMT
<1>1. \A i \in 1 .. Len(s) : s[i].name \in Name
  BY <1>0 DEF Entry
<1>2. \A i \in 1 .. Len(s) :
         [name |-> s[i].name, saved |-> Row \cap e.stack[MarkAt(e, s[i].id)].saved]
            \in [name : Name, saved : SUBSET Row]
  BY <1>1
<1> DEFINE x(i) == [name |-> s[i].name, saved |-> Row \cap e.stack[MarkAt(e, s[i].id)].saved]
<1>3. \A i \in 1 .. Len(s) : x(i) \in [name : Name, saved : SUBSET Row]
  BY <1>2
<1>4. Seen(e, s) = [i \in 1 .. Len(s) |-> x(i)]
  BY DEF Seen
<1>5. Len(s) \in Nat
  BY SMT
<1> HIDE DEF x
<1> QED  BY <1>3, <1>4, <1>5, SMT

(* q without its place i. *)
Dropped(q, i) == SubSeq(q, 1, i - 1) \o SubSeq(q, i + 1, Len(q))

(* What is seen when the place i of the registry is taken out. *)
LEMMA SeenRemoved ==
    ASSUME NEW e, NEW s \in Seq(Entry), NEW i \in 1 .. Len(s), NEW t,
           t = [j \in 1 .. Len(s) - 1 |-> s[IF j < i THEN j ELSE j + 1]]
    PROVE  Seen(e, t) = Dropped(Seen(e, s), i)
<1> DEFINE q == Seen(e, s)
           E == [name : Name, saved : SUBSET Row]
           u == SubSeq(q, 1, i - 1)
           w == SubSeq(q, i + 1, Len(q))
<1>0. Len(s) \in Nat
  BY SMT
<1>1. q \in Seq(E) /\ Len(q) = Len(s) /\ Len(s) \in Nat
  BY <1>0, SeenType
<1>2. Len(t) = Len(s) - 1 /\ \A j \in 1 .. Len(s) - 1 : t[j] = s[IF j < i THEN j ELSE j + 1]
  BY <1>1, SMT
<1>3. \A j \in 1 .. Len(s) : q[j] = [name |-> s[j].name, saved |-> Row \cap e.stack[MarkAt(e, s[j].id)].saved]
  BY <1>1, SeenNames, SMT
<1> HIDE DEF q, E
<1>4. u \in Seq(E) /\ Len(u) = i - 1 /\ \A j \in 1 .. i - 1 : u[j] = q[j]
  BY <1>1, SMT
<1>5. w \in Seq(E) /\ Len(w) = Len(s) - i /\ \A j \in 1 .. Len(s) - i : w[j] = q[j + i]
  BY <1>1, SMT
<1> HIDE DEF u, w
<1>6. /\ u \o w \in Seq(E) /\ Len(u \o w) = Len(s) - 1
      /\ \A j \in 1 .. Len(s) - 1 : (u \o w)[j] = q[IF j < i THEN j ELSE j + 1]
  <2>1. u \o w \in Seq(E) /\ Len(u \o w) = Len(s) - 1
    BY <1>1, <1>4, <1>5, SMT
  <2>2. ASSUME NEW j \in 1 .. Len(s) - 1, j < i PROVE (u \o w)[j] = q[j]
    BY <1>1, <1>4, <1>5, <2>2, SMT
  <2>3. ASSUME NEW j \in 1 .. Len(s) - 1, ~(j < i) PROVE (u \o w)[j] = q[j + 1]
    <3>1. (u \o w)[j] = w[j - (i - 1)] /\ j - (i - 1) \in 1 .. Len(s) - i
      BY <1>1, <1>4, <1>5, <2>3, SMT
    <3>2. w[j - (i - 1)] = q[j - (i - 1) + i] /\ j - (i - 1) + i = j + 1
      BY <1>1, <1>5, <3>1, SMT
    <3> QED  BY <3>1, <3>2
  <2> QED  BY <2>1, <2>2, <2>3
<1>7. Seen(e, t) = [j \in 1 .. Len(s) - 1 |-> q[IF j < i THEN j ELSE j + 1]]
  <2>1. ASSUME NEW j \in 1 .. Len(s) - 1
        PROVE  q[IF j < i THEN j ELSE j + 1] =
                  [name |-> t[j].name, saved |-> Row \cap e.stack[MarkAt(e, t[j].id)].saved]
    <3>1. (IF j < i THEN j ELSE j + 1) \in 1 .. Len(s)
      BY <1>1, SMT
    <3> QED  BY <1>2, <1>3, <3>1
  <2> QED  BY <1>2, <2>1 DEF Seen
<1>8. u \o w = [j \in 1 .. Len(s) - 1 |-> q[IF j < i THEN j ELSE j + 1]]
  <2> DEFINE z == u \o w
  <2>1. z \in Seq(E) /\ Len(z) = Len(s) - 1
    BY <1>6
  <2> HIDE DEF z
  <2>2. z = [j \in 1 .. Len(s) - 1 |-> z[j]]
    BY <2>1, SMT
  <2> QED  BY <1>6, <2>2 DEF z
<1> QED  BY <1>7, <1>8 DEF q, u, w, Dropped

SeenOne(e, x) == [name |-> x.name, saved |-> Row \cap e.stack[MarkAt(e, x.id)].saved]

LEMMA SeenAppend ==
    ASSUME NEW e, NEW s \in Seq(Entry), NEW x \in Entry
    PROVE  Seen(e, Append(s, x)) = Append(Seen(e, s), SeenOne(e, x))
<1> DEFINE q == Seen(e, s)
           E == [name : Name, saved : SUBSET Row]
           y == SeenOne(e, x)
           t == Append(s, x)
           L == Len(s) + 1
<1>0. Len(s) \in Nat
  BY SMT
<1>1. q \in Seq(E) /\ Len(q) = Len(s) /\ Len(s) \in Nat
  BY <1>0, SeenType
<1>2. y \in E
  BY DEF Entry, SeenOne
<1>3. \A j \in 1 .. Len(s) : q[j] = [name |-> s[j].name, saved |-> Row \cap e.stack[MarkAt(e, s[j].id)].saved]
  BY <1>1, SeenNames, SMT
<1>4. Len(t) = L /\ t[L] = x /\ \A j \in 1 .. Len(s) : t[j] = s[j]
  BY <1>1, SMT
<1> HIDE DEF q, E, t
<1>5. ASSUME NEW j \in 1 .. L
      PROVE  Append(q, y)[j] = [name |-> t[j].name, saved |-> Row \cap e.stack[MarkAt(e, t[j].id)].saved]
  <2>1. CASE j \in 1 .. Len(s)
    <3>1. Append(q, y)[j] = q[j]
      BY <1>1, <1>2, <2>1, SMT
    <3> QED  BY <1>3, <1>4, <2>1, <3>1
  <2>2. CASE j = L
    <3>1. Append(q, y)[j] = y
      BY <1>1, <1>2, <2>2, SMT
    <3> QED  BY <1>4, <2>2, <3>1 DEF SeenOne
  <2> QED  BY <1>1, <2>1, <2>2, SMT
<1>6. Append(q, y) = [j \in 1 .. L |-> Append(q, y)[j]]
  <2> DEFINE z == Append(q, y)
  <2>1. z \in Seq(E) /\ Len(z) = L
    BY <1>1, <1>2, SMT
  <2> HIDE DEF z, L
  <2>2. z = [j \in 1 .. L |-> z[j]]
    BY <2>1, SMT
  <2> QED  BY <2>2 DEF z
<1> HIDE DEF L
<1>7. Seen(e, t) = [j \in 1 .. L |-> Append(q, y)[j]]
  BY <1>4, <1>5 DEF Seen
<1> QED  BY <1>6, <1>7 DEF q, t

LEMMA SavepointSimulated == ASSUME Before, NEW n \in Name, Savepoint(n) PROVE Simulated
<1>1. Accepts /\ UNCHANGED <<lost, poisoned, run>>
  BY DEF Savepoint
<1>2. Between
  BY <1>1, BetweenSteps
<1>3. /\ Settled(engine, durable, nextId) /\ RowsKept(engine, durable)
      /\ nextId \in Nat /\ nextId > 0
      /\ ~lost => Agree(engine, active, saves)
  BY <1>1, IdleFacts DEF Before, RInv
<1>4. PICK o \in OpenIfNeeded :
         IF ~o.ok THEN Becomes(o) /\ UNCHANGED <<active, saves, nextId>>
         ELSE /\ active' = TRUE
              /\ \E v \in SavepointOutcomes(o.e, o.d, nextId) :
                    /\ Becomes(v)
                    /\ saves' = IF v.ok THEN Append(Others(n), [name |-> n, id |-> nextId]) ELSE saves
  BY DEF Savepoint
<1>5. /\ Settled(o.e, o.d, nextId) /\ RowsKept(o.e, o.d) /\ o.d = durable /\ o.e.view = engine.view
      /\ ~o.ok => o.e = engine
      /\ active => o.e = engine
      /\ o.e = engine \/ (~active /\ ~engine.open)
  <2>1. CASE o = Outcome(TRUE, engine, durable)
    <3>1. o.e = engine /\ o.d = durable /\ o.ok
      BY <2>1 DEF Outcome
    <3> QED  BY <1>3, <3>1
  <2>2. CASE o \in BeginOutcomes(engine, durable) /\ ~active
    <3>1. /\ Settled(o.e, o.d, nextId) /\ o.d = durable /\ o.e.view = engine.view
          /\ ~o.ok => o.e = engine
          /\ o.ok => ~engine.open
      BY <1>3, <2>2, BeginShape, SMT
    <3> QED  BY <1>3, <2>2, <3>1, BeginKeeps
  <2> QED  BY <2>1, <2>2 DEF OpenIfNeeded, Skip
<1>6. CASE ~o.ok
  <2>1. /\ engine' = engine /\ durable' = durable /\ active' = active /\ saves' = saves
    BY <1>4, <1>5, <1>6 DEF Becomes
  <2>2. /\ SameRows(engine'.view, engine.view) /\ SameRows(durable', durable)
        /\ RowsIn(durable, durable') /\ RowsKept(engine', durable')
    BY <1>3, <2>1, RowSets
  <2>3. RInv' /\ Grows
    BY <1>1, <1>2, <2>2, IdleKeep DEF Between
  <2>4. ~lost => Step
    BY <1>1, <1>2, <2>1, <2>2, IdleQuiet
  <2> QED  BY <1>2, <2>3, <2>4, BetweenBars DEF Simulated
<1>7. CASE o.ok
  <2>1. active' = TRUE
    BY <1>4, <1>7
  <2>2. PICK v \in SavepointOutcomes(o.e, o.d, nextId) :
           /\ Becomes(v)
           /\ saves' = IF v.ok THEN Append(Others(n), [name |-> n, id |-> nextId]) ELSE saves
    BY <1>4, <1>7
  <2>3. engine' = v.e /\ durable' = v.d
    BY <2>2 DEF Becomes
  <2>4. /\ v.d = durable
        /\ ~v.ok => v.e = o.e
        /\ v.ok => v.e.view = o.e.view /\ Pushed(v.e, o.e, nextId) /\ Sound(v.e, durable, nextId + 1)
    BY <1>3, <1>5, <2>2, SavepointShape, SMT
  <2>5. RowsKept(v.e, v.d)
    <3>1. Len(o.e.stack) \in Nat
      BY <1>5, EngineFields DEF Settled, Sound
    <3> QED  BY <1>5, <2>4, <3>1, SavepointKeeps
  <2>6. SameRows(durable', durable) /\ RowsIn(durable, durable') /\ RowsKept(engine', durable')
    BY <2>3, <2>4, <2>5, RowSets
  <2>7. RInv' /\ Grows
    BY <1>1, <1>2, <2>6, IdleKeep DEF Between
  <2>8. ASSUME ~lost PROVE Step
    <3>0. /\ ~active => ~engine.open /\ saves = <<>>
          /\ active => Listed(engine, saves)
          /\ active \in BOOLEAN
      <4>1. active \in BOOLEAN
        BY DEF Before, IInv, Types
      <4> QED  BY <1>3, <2>8, <4>1 DEF Agree
    <3>1. SameRows(engine'.view, engine.view)
      BY <1>5, <2>3, <2>4, RowSets
    <3>2. CASE ~v.ok /\ active
      <4>1. engine' = engine /\ saves' = saves /\ active' = active
        BY <1>5, <2>1, <2>2, <2>3, <2>4, <3>0, <3>2
      <4> QED  BY <1>1, <1>2, <2>6, <2>8, <3>1, <4>1, IdleQuiet
    <3>3. CASE ~v.ok /\ ~active
      <4>1. saves' = <<>> /\ active' \in BOOLEAN
        BY <2>1, <2>2, <3>0, <3>3
      <4>2. durable' = engine.view
        <5>1. engine.view = durable
          BY <1>3, <3>0, <3>3, ClosedKept DEF Settled
        <5> QED  BY <2>3, <2>4, <5>1
      <4>3. SameRows(durable', engine.view)
        BY <4>2, RowSets
      <4> QED  BY <1>1, <1>2, <2>6, <2>8, <3>0, <3>1, <4>1, <4>3, IdleRestart
    <3>4. CASE v.ok
      <4> DEFINE x == [name |-> n, id |-> nextId]
                 s == Others(n)
                 new == [name |-> n, saved |-> WorkBar]
      <4>1. /\ HandleBar = "usable" /\ MarksBar = Seen(engine, saves) /\ WorkBar = Row \cap engine.view
            /\ HandleBar' = "usable" /\ MarksBar' = Seen(engine', saves')
            /\ WorkBar' = Row \cap engine'.view
        BY <1>1, <1>2, <2>8, BetweenBars
      <4>2. saves' = Append(s, x) /\ x \in Entry /\ x.name = n /\ x.id = nextId
        BY <1>3, <2>2, <3>4 DEF Entry
      <4>3. /\ s \in Seq(Entry)
            /\ \A i \in 1 .. Len(s) : \E k \in 1 .. Len(saves) : s[i] = saves[k]
        <5>1. IInv
          BY DEF Before
        <5> QED  BY <5>1, OthersShape, SMT
      <4>4. /\ Len(o.e.stack) + 1 \in 1 .. Len(v.e.stack)
            /\ v.e.stack[Len(o.e.stack) + 1].id = nextId
            /\ v.e.stack[Len(o.e.stack) + 1].saved = engine.view
            /\ \A k \in 1 .. Len(o.e.stack) : k \in 1 .. Len(v.e.stack) /\ v.e.stack[k] = o.e.stack[k]
        <5>1. Len(o.e.stack) \in Nat
          BY <1>5, EngineFields DEF Settled, Sound
        <5> QED  BY <1>5, <2>4, <3>4, <5>1, SMT DEF Pushed
      <4>5. MarkAt(v.e, nextId) = Len(o.e.stack) + 1
        BY <2>4, <3>4, <4>4, TheMark
      <4>6. [name |-> x.name, saved |-> Row \cap v.e.stack[MarkAt(v.e, x.id)].saved] = new
        BY <4>1, <4>2, <4>4, <4>5
      <4> HIDE DEF s, x
      <4>7. MarksBar' = Append(Seen(v.e, s), new)
        <5>1. new = SeenOne(v.e, x)
          BY <4>6 DEF SeenOne
        <5> HIDE DEF new
        <5>2. Seen(v.e, Append(s, x)) = Append(Seen(v.e, s), SeenOne(v.e, x))
          BY <4>2, <4>3, SeenAppend
        <5> QED  BY <2>3, <4>1, <4>2, <5>1, <5>2
      <4>8. Seen(v.e, s) = Seen(engine, s)
        <5>1. CASE active
          <6>1. Common(engine, v.e, s)
            <7> SUFFICES ASSUME NEW i \in 1 .. Len(s)
                         PROVE  \E k \in 1 .. Len(engine.stack) :
                                   /\ k \in 1 .. Len(v.e.stack) /\ engine.stack[k] = v.e.stack[k]
                                   /\ engine.stack[k].id = s[i].id
              BY DEF Common
            <7>1. PICK j \in 1 .. Len(saves) : s[i] = saves[j]
              BY <4>3
            <7>2. PICK k \in 1 .. Len(engine.stack) : engine.stack[k].id = saves[j].id
              BY <3>0, <5>1 DEF Listed
            <7> QED  BY <1>5, <4>4, <5>1, <7>1, <7>2
          <6>2. Sound(engine, durable, nextId) /\ Sound(v.e, durable, nextId + 1)
            BY <1>3, <2>4, <3>4 DEF Settled
          <6> QED  BY <6>1, <6>2, SeenSame
        <5>2. CASE ~active
          <6>1. s = <<>>
            <7>1. saves = <<>>
              BY <3>0, <5>2
            <7> QED  BY <7>1, SMT DEF s, Others, Found
          <6> QED  BY <6>1, SeenEmpty
        <5> QED  BY <5>1, <5>2
      <4>9. (durable \cap Row)' = durable \cap Row /\ WorkBar' = WorkBar
        BY <1>5, <2>3, <2>4, <3>4, <4>1 DEF Row
      <4>10. saves \in Seq(Entry) /\ Len(saves) \in Nat
        BY EntryFields DEF Before
      <4>11. Tx!At(n) = Found(n)
        <5>1. Len(MarksBar) = Len(saves) /\ \A i \in 1 .. Len(saves) : MarksBar[i].name = saves[i].name
          BY <4>1, <4>10, SeenNames, SMT
        <5> QED  BY <5>1 DEF Tx!At, Found
      <4>12. \/ Tx!At(n) = {} /\ MarksBar' = Append(MarksBar, new)
             \/ \E i \in Tx!At(n) :
                   MarksBar' = Append(SubSeq(MarksBar, 1, i - 1) \o SubSeq(MarksBar, i + 1, Len(MarksBar)), new)
        <5>1. CASE Found(n) = {}
          BY <4>1, <4>7, <4>8, <4>11, <5>1 DEF s, Others
        <5>2. CASE Found(n) # {}
          <6> DEFINE i == CHOOSE i \in Found(n) : TRUE
          <6>1. i \in Found(n) /\ s = RemovedAt(i)
            BY <5>2 DEF s, Others
          <6> HIDE DEF i
          <6>2. i \in 1 .. Len(saves)
            BY <6>1 DEF Found
          <6>3. s = [j \in 1 .. Len(saves) - 1 |-> saves[IF j < i THEN j ELSE j + 1]]
            BY <6>1 DEF RemovedAt
          <6>4. Seen(engine, s) = Dropped(Seen(engine, saves), i)
            BY <4>10, <6>2, <6>3, SeenRemoved, ZenonT(40)
          <6> QED  BY <4>1, <4>7, <4>8, <4>11, <6>1, <6>4 DEF Dropped
        <5> QED  BY <5>1, <5>2
      <4>13. Tx!Mark(n)
        BY <2>1, <4>1, <4>9, <4>12 DEF Tx!Mark, Tx!Usable
      <4> QED  BY <4>13 DEF Step, Tx!SpecNext
    <3> QED  BY <3>2, <3>3, <3>4
  <2> QED  BY <1>2, <2>7, <2>8, BetweenBars DEF Simulated
<1> QED  BY <1>6, <1>7

-----------------------------------------------------------------------------
(* Statements begin.                                                       *)

(* A step that opens a transaction for a statement, or finds one, shows    *)
(* the client at most that a transaction started.                          *)
LEMMA BegunSimulated ==
    ASSUME Before, Accepts, HandleBar' # "poisoned", lost' = lost, durable' = durable, saves' = saves,
           RowsKept(engine', durable'), Based', active' \in BOOLEAN, active => active',
           ~lost => WorkBar' = Row \cap engine.view,
           ~lost /\ active => Seen(engine', saves') = Seen(engine, saves)
    PROVE  Simulated
<1>1. run = Idle /\ ~poisoned /\ IInv /\ Valid /\ Valid' /\ BarsOK /\ BarsOK'
  BY DEF Accepts, Before
<1>2. RInv'
  BY DEF RInv, RowsKept, RowsIn
<1>3. Grows
  BY RowSets DEF Grows
<1>4. HandleBar = IF lost THEN "lost" ELSE "usable"
  BY <1>1, IdleBars DEF IdleOK
<1>5. ASSUME ~lost PROVE Step
  <2>1. HandleBar = "usable" /\ MarksBar = Seen(engine, saves) /\ WorkBar = Row \cap engine.view
    BY <1>1, <1>5, IdleBars DEF IdleOK
  <2>2. HandleBar' = "usable"
    BY <1>1, <1>5 DEF BarsOK
  <2>3. MarksBar' = Seen(engine', saves')
    <3>1. Seen(engine, saves)' = Seen(engine', saves')
      BY DEF Seen, Row
    <3> QED  BY <1>1, <2>2, <3>1 DEF BarsOK
  <2>4. /\ active \in BOOLEAN
        /\ ~active => saves = <<>> /\ engine.view = durable
    <3>1. Agree(engine, active, saves) /\ Settled(engine, durable, nextId) /\ active \in BOOLEAN
      BY <1>1, <1>5, IdleFacts DEF IInv, Types
    <3> QED  BY <3>1, ClosedKept DEF Agree, Settled
  <2>5. WorkBar' = WorkBar /\ SameRows(durable', durable)
    BY <1>5, <2>1, RowSets
  <2>6. ~active => MarksBar = <<>> /\ MarksBar' = <<>>
    BY <2>1, <2>3, <2>4, SeenEmpty
  <2>7. CASE active
    BY <1>5, <2>1, <2>2, <2>3, <2>4, <2>5, <2>7, Stutters
  <2>8. CASE ~active /\ active' = FALSE
    BY <2>1, <2>2, <2>4, <2>5, <2>6, <2>8, Stutters
  <2>9. CASE ~active /\ active' = TRUE
    <3>1. WorkBar = Row \cap durable'
      BY <2>1, <2>4, <2>9
    <3> QED  BY <2>1, <2>2, <2>5, <2>6, <2>9, <3>1, Starts
  <2> QED  BY <2>4, <2>7, <2>8, <2>9
<1> QED  BY <1>2, <1>3, <1>4, <1>5 DEF Simulated

(* What BEGIN, or finding a transaction, leaves for the statement. *)
LEMMA OpenKeeps ==
    ASSUME Before, Accepts, NEW o,
           \/ o = Outcome(TRUE, engine, durable) /\ (active \/ engine.open)
           \/ o \in BeginOutcomes(engine, durable) /\ ~active
    PROVE  /\ Settled(o.e, o.d, nextId) /\ RowsKept(o.e, o.d) /\ o.d = durable
           /\ o.e.view = engine.view
           /\ ~o.ok => o.e = engine
           /\ active => o.e = engine
           /\ o.ok /\ ~active /\ ~engine.open => o.e.open /\ o.e.stack = <<>> /\ durable = engine.view
           /\ o.ok /\ o \in BeginOutcomes(engine, durable) => ~engine.open
<1>1. IInv /\ Settled(engine, durable, nextId) /\ RowsKept(engine, durable)
  BY IdleFacts DEF Before, RInv
<1>2. CASE o = Outcome(TRUE, engine, durable) /\ (active \/ engine.open)
  <2>1. o.e = engine /\ o.d = durable /\ o.ok
    BY <1>2 DEF Outcome
  <2>2. /\ o.ok /\ ~active /\ ~engine.open => FALSE
        /\ o \in BeginOutcomes(engine, durable) => ~engine.open
    <3>1. o \in BeginOutcomes(engine, durable) => ~engine.open
      BY <1>1, <2>1, BeginShape, SMT
    <3> QED  BY <1>2, <3>1
  <2> QED  BY <1>1, <2>1, <2>2
<1>3. CASE o \in BeginOutcomes(engine, durable) /\ ~active
  <2>1. /\ Settled(o.e, o.d, nextId) /\ o.d = durable /\ o.e.view = engine.view
        /\ ~o.ok => o.e = engine
        /\ o.ok => ~engine.open /\ o.e.open /\ o.e.stack = <<>>
    BY <1>1, <1>3, BeginShape, SMT
  <2>2. RowsKept(o.e, o.d)
    BY <1>1, <1>3, BeginKeeps
  <2>3. ~engine.open => durable = engine.view
    BY <1>1, ClosedKept DEF Settled
  <2> QED  BY <1>3, <2>1, <2>2, <2>3
<1> QED  BY <1>2, <1>3

(* A statement without a savepoint of its own. *)
LEMMA OpenSimulated ==
    ASSUME Before, Accepts, NEW o,
           \/ o = Outcome(TRUE, engine, durable) /\ (active \/ engine.open)
           \/ o \in BeginOutcomes(engine, durable) /\ ~active,
           Becomes(o), lost' = lost, saves' = saves, poisoned' = poisoned,
           active' \in BOOLEAN, active => active',
           \/ run' = run
           \/ /\ run'.kind \in {"read", "create", "drop"} /\ o.ok
              /\ run'.outer => ~active /\ ~engine.open
    PROVE  Simulated
<1>1. /\ RowsKept(o.e, o.d) /\ o.d = durable /\ o.e.view = engine.view
      /\ active => o.e = engine
      /\ o.ok /\ ~active /\ ~engine.open => durable = engine.view
  BY OpenKeeps
<1>2. engine' = o.e /\ durable' = durable
  BY <1>1 DEF Becomes
<1>3. run = Idle /\ ~poisoned /\ ~poisoned' /\ Valid' /\ BarsOK'
  BY DEF Accepts, Before
<1>4. /\ run'.kind \in {"none", "read", "create", "drop"}
      /\ run'.outer => SameRows(engine'.view, durable')
  <2>1. CASE run' = run
    BY <1>3, <2>1, IdleRun
  <2>2. CASE run' # run
    BY <1>1, <1>2, <2>2, RowSets
  <2> QED  BY <2>1, <2>2
<1>5. Based'
  BY <1>4 DEF Based, SameRows
<1>6. HandleBar' = IF lost' THEN "lost" ELSE "usable"
  BY <1>3, <1>4 DEF BarsOK, Gone
<1>7. ~lost => WorkBar' = Row \cap engine.view
  <2>1. ~lost' => WorkBar' = (Row \cap engine.view)'
    BY <1>3, <1>4, <1>6 DEF BarsOK, OwnTop
  <2> QED  BY <1>1, <1>2, <2>1 DEF Row
<1>8. RowsKept(engine', durable') /\ (active => Seen(engine', saves') = Seen(engine, saves))
  BY <1>1, <1>2
<1> QED  BY <1>2, <1>5, <1>6, <1>7, <1>8, BegunSimulated

LEMMA BeginTemporarySimulated ==
    ASSUME Before, NEW kind \in {"create", "drop"}, NEW s \in Stmt \cup {"-"}, BeginTemporary(kind, s)
    PROVE  Simulated
<1>1. PICK o \in IF active THEN Skip(engine, durable) ELSE BeginOutcomes(engine, durable) :
         /\ Becomes(o)
         /\ active' = (active \/ (o.ok /\ ~(autocommit /\ ~active)))
         /\ run' = IF o.ok THEN Running(kind, autocommit /\ ~active, s) ELSE run
  BY DEF BeginTemporary
<1>2. /\ Accepts /\ lost' = lost /\ saves' = saves /\ poisoned' = poisoned
  BY DEF BeginTemporary
<1>3. \/ o = Outcome(TRUE, engine, durable) /\ (active \/ engine.open)
      \/ o \in BeginOutcomes(engine, durable) /\ ~active
  BY <1>1 DEF Skip
<1>4. active' \in BOOLEAN /\ (active => active')
  BY <1>1
<1>5. \/ run' = run
      \/ /\ run'.kind \in {"read", "create", "drop"} /\ o.ok
         /\ run'.outer => ~active /\ ~engine.open
  <2>1. CASE ~o.ok
    BY <1>1, <2>1
  <2>2. CASE o.ok
    <3>1. run'.kind = kind /\ run'.outer = (autocommit /\ ~active)
      BY <1>1, <2>2 DEF Running
    <3>2. ~active => ~engine.open
      BY <1>1, <1>2, <1>3, <2>2, OpenKeeps
    <3> QED  BY <2>2, <3>1, <3>2
  <2> QED  BY <2>1, <2>2
<1> QED  BY <1>1, <1>2, <1>3, <1>4, <1>5, OpenSimulated

LEMMA BeginReadSimulated == ASSUME Before, BeginRead PROVE Simulated
<1>1. PICK o \in IF active \/ engine.open THEN Skip(engine, durable)
                 ELSE BeginOutcomes(engine, durable) :
         /\ Becomes(o)
         /\ active' = (active \/ (o.ok /\ ~autocommit /\ ~engine.open))
         /\ run' = IF o.ok THEN Running("read", autocommit /\ ~active /\ ~engine.open, "-") ELSE run
  BY DEF BeginRead
<1>2. /\ Accepts /\ lost' = lost /\ saves' = saves /\ poisoned' = poisoned
  BY DEF BeginRead
<1>3. \/ o = Outcome(TRUE, engine, durable) /\ (active \/ engine.open)
      \/ o \in BeginOutcomes(engine, durable) /\ ~active
  BY <1>1 DEF Skip
<1>4. active' \in BOOLEAN /\ (active => active')
  BY <1>1
<1>5. \/ run' = run
      \/ /\ run'.kind \in {"read", "create", "drop"} /\ o.ok
         /\ run'.outer => ~active /\ ~engine.open
  <2>1. CASE ~o.ok
    BY <1>1, <2>1
  <2>2. CASE o.ok
    <3>1. run'.kind = "read" /\ run'.outer = (autocommit /\ ~active /\ ~engine.open)
      BY <1>1, <2>2 DEF Running
    <3> QED  BY <2>2, <3>1
  <2> QED  BY <2>1, <2>2
<1> QED  BY <1>1, <1>2, <1>3, <1>4, <1>5, OpenSimulated

LEMMA BeginDmlSimulated == ASSUME Before, NEW s \in Stmt, BeginDml(s) PROVE Simulated
<1> DEFINE outer == autocommit /\ ~active
<1>1. PICK o \in IF active THEN Skip(engine, durable) ELSE BeginOutcomes(engine, durable) :
         \E v \in IF o.ok THEN SavepointOutcomes(o.e, o.d, StatementMark) ELSE {o} :
            IF v.ok
            THEN /\ Becomes(v) /\ run' = Running("dml", outer, s)
                 /\ active' = (active \/ ~outer)
                 /\ UNCHANGED poisoned
            ELSE IF ~o.ok \/ ~outer
            THEN /\ Becomes(v)
                 /\ active' = (active \/ (o.ok /\ ~outer))
                 /\ UNCHANGED <<run, poisoned>>
            ELSE /\ Becomes(v) /\ UNCHANGED <<active, poisoned>>
                 /\ run' = [Running("dml", TRUE, s) EXCEPT !.failed = TRUE]
  BY DEF BeginDml
<1>2. PICK v \in IF o.ok THEN SavepointOutcomes(o.e, o.d, StatementMark) ELSE {o} :
         /\ engine' = v.e /\ durable' = v.d /\ poisoned' = poisoned
         /\ v.ok => run' = Running("dml", outer, s) /\ active' = (active \/ ~outer)
         /\ ~v.ok /\ (~o.ok \/ ~outer) => active' = (active \/ (o.ok /\ ~outer)) /\ run' = run
         /\ ~v.ok /\ o.ok /\ outer =>
               active' = active /\ run' = [Running("dml", TRUE, s) EXCEPT !.failed = TRUE]
  BY <1>1 DEF Becomes
<1>3. Accepts /\ saves' = saves /\ lost' = lost
  BY DEF BeginDml
<1>4. /\ active \in BOOLEAN /\ lost \in BOOLEAN /\ nextId \in Nat /\ nextId > 0 /\ run = Idle /\ ~poisoned
      /\ IInv /\ Valid' /\ BarsOK' /\ saves \in Seq(Entry)
  <2>1. Types /\ nextId \in 1 .. MaxSavepoints + 1
    BY DEF Before, IInv, Types
  <2>2. nextId \in Nat /\ nextId > 0
    BY <2>1, SMT
  <2> QED  BY <1>3, <2>1, <2>2 DEF Accepts, Before, Types
<1>5. \/ o = Outcome(TRUE, engine, durable) /\ (active \/ engine.open)
      \/ o \in BeginOutcomes(engine, durable) /\ ~active
  BY <1>1 DEF Skip
<1>6. /\ Settled(o.e, o.d, nextId) /\ RowsKept(o.e, o.d) /\ o.d = durable
      /\ o.e.view = engine.view
      /\ active => o.e = engine
      /\ o.ok /\ ~active => o.e.open /\ durable = engine.view
  <2>1. o.ok /\ ~active => ~engine.open
    BY <1>1, <1>3, <1>5, OpenKeeps
  <2> QED  BY <1>3, <1>5, <2>1, OpenKeeps
<1>7. o.ok =>
         /\ v.d = o.d
         /\ ~v.ok => v.e = o.e
         /\ v.ok => /\ v.e.open /\ v.e.view = o.e.view
                    /\ Pushed(v.e, o.e, StatementMark)
                    /\ Sound(v.e, o.d, nextId)
  <2>1. StatementMark \in Nat /\ StatementMark = 0
    BY DEF StatementMark
  <2>2. o.ok => v \in SavepointOutcomes(o.e, o.d, StatementMark)
    BY <1>2
  <2> QED  BY <1>4, <1>6, <2>1, <2>2, SavepointShape, SMT
<1>8. /\ outer \in BOOLEAN /\ (outer => ~active)
  BY <1>4
<1> HIDE DEF outer
<1>9. CASE ~v.ok /\ (~o.ok \/ ~outer)
  <2>1. v.e = o.e /\ v.d = o.d
    BY <1>2, <1>7, <1>9
  <2>2. Becomes(o)
    BY <1>2, <2>1 DEF Becomes
  <2>3. active' = (active \/ (o.ok /\ ~outer)) /\ run' = run
    BY <1>2, <1>9
  <2>4. active' \in BOOLEAN /\ (active => active')
    BY <2>3
  <2> QED  BY <1>2, <1>3, <1>5, <2>2, <2>3, <2>4, OpenSimulated
<1>10. CASE o.ok /\ ~v.ok /\ outer
  <2> DEFINE q == Running("dml", TRUE, s)
  <2>1. q \in Runs /\ q.kind = "dml" /\ q.outer = TRUE /\ q.stmt = s
    BY DEF Running, Runs
  <2>2. run' = [q EXCEPT !.failed = TRUE] /\ active' = active
    BY <1>2, <1>10
  <2> HIDE DEF q
  <2>3. run' \in Runs /\ run'.kind = "dml" /\ run'.outer /\ run'.failed /\ run'.stmt = s
    BY <2>1, <2>2, FailedFields
  <2>4. engine' = o.e /\ durable' = durable /\ engine'.open /\ durable = engine.view /\ ~active
    BY <1>2, <1>6, <1>7, <1>8, <1>10
  <2>5. ~OnTop(engine)'
    BY <1>6, <2>4, SMT DEF OnTop, Settled, NoStatementMark, Sound, Engine
  <2>6. SameRows(engine'.view, durable')
    BY <1>6, <2>4, RowSets
  <2>7. Based'
    BY <2>3, <2>5, <2>6 DEF Based, SameRows
  <2>8. HandleBar' = IF lost' THEN "lost" ELSE "usable"
    BY <1>2, <1>4, <2>3, <2>4 DEF BarsOK, Gone
  <2>9. ~lost => WorkBar' = Row \cap engine.view
    <3>1. ~lost' => WorkBar' = (Row \cap engine.view)'
      BY <1>4, <2>3, <2>5, <2>8 DEF BarsOK, OwnTop
    <3> QED  BY <1>3, <1>6, <2>4, <3>1 DEF Row
  <2>10. RowsKept(engine', durable') /\ active' \in BOOLEAN /\ (active => active')
    BY <1>4, <1>6, <2>2, <2>4
  <2> QED  BY <1>3, <2>4, <2>7, <2>8, <2>9, <2>10, BegunSimulated
<1>11. CASE o.ok /\ v.ok
  <2>1. run' = Running("dml", outer, s) /\ active' = (active \/ ~outer)
    BY <1>2, <1>11
  <2>2. active' \in BOOLEAN /\ (active => active')
    BY <2>1
  <2>3. run' \in Runs /\ run'.kind = "dml" /\ run'.outer = outer /\ ~run'.failed /\ run'.stmt = s
    BY <1>8, <2>1, RunningFields, SMT
  <2> DEFINE L == Len(o.e.stack) + 1
  <2>4. Len(o.e.stack) \in Nat
    <3>1. o.e \in Engine
      BY <1>6 DEF Settled, Sound
    <3> QED  BY <3>1, EngineFields
  <2>5. /\ engine' = v.e /\ durable' = durable /\ Len(engine'.stack) = L
        /\ engine'.stack[L].id = 0 /\ engine'.stack[L].saved = engine.view
        /\ engine'.view = engine.view /\ engine'.open
    BY <1>2, <1>6, <1>7, <1>11 DEF Pushed, StatementMark
  <2>6. OnTop(engine)'
    BY <2>4, <2>5, SMT DEF OnTop
  <2>7. Top(engine)' = engine.view
    BY <2>5 DEF Top
  <2>8. Based'
    <3>1. (Within(engine.view, Top(engine), run.stmt))'
      BY <2>5, <2>7 DEF Within
    <3>2. run'.outer => durable' = engine.view
      BY <1>6, <1>8, <1>11, <2>3, <2>5
    <3>3. (run.outer => SameRows(Top(engine), durable))'
      BY <2>7, <3>2 DEF SameRows
    <3> QED  BY <2>3, <2>6, <3>1, <3>3 DEF Based
  <2>9. HandleBar' = IF lost' THEN "lost" ELSE "usable"
    BY <1>2, <1>4, <2>3, <2>5 DEF BarsOK, Gone
  <2>10. ~lost => WorkBar' = Row \cap engine.view
    <3>1. ~lost' => WorkBar' = (Row \cap Top(engine))'
      BY <1>4, <2>3, <2>6, <2>9 DEF BarsOK, OwnTop
    <3> QED  BY <1>3, <2>7, <3>1 DEF Row
  <2>11. RowsKept(engine', durable')
    BY <1>6, <1>7, <1>11, <2>4, <2>5, SavepointKeeps
  <2>12. ASSUME ~lost, active PROVE Seen(engine', saves') = Seen(engine, saves)
    <3>1. Agree(engine, active, saves)
      BY <1>3, <1>4, <2>12, IdleFacts
    <3>2. Listed(engine, saves) /\ o.e = engine
      BY <1>6, <2>12, <3>1 DEF Agree
    <3>3. 1 .. Len(o.e.stack) \subseteq 1 .. Len(v.e.stack)
      BY <1>7, <1>11, <2>4, SMT DEF Pushed
    <3>4. Common(v.e, engine, saves)
      <4> SUFFICES ASSUME NEW i \in 1 .. Len(saves)
                   PROVE  \E k \in 1 .. Len(v.e.stack) :
                             /\ k \in 1 .. Len(engine.stack) /\ v.e.stack[k] = engine.stack[k]
                             /\ v.e.stack[k].id = saves[i].id
        BY DEF Common
      <4>1. PICK k \in 1 .. Len(engine.stack) : engine.stack[k].id = saves[i].id
        BY <3>2 DEF Listed
      <4>2. k \in 1 .. Len(v.e.stack)
        BY <3>2, <3>3, <4>1
      <4>3. v.e.stack[k] = engine.stack[k]
        BY <1>7, <1>11, <3>2 DEF Pushed
      <4> QED  BY <4>1, <4>2, <4>3
    <3>5. Sound(v.e, durable, nextId) /\ Sound(engine, durable, nextId)
      BY <1>6, <1>7, <1>11, <3>2 DEF Settled
    <3> QED  BY <1>3, <2>5, <3>4, <3>5, SeenSame
  <2> QED  BY <1>3, <2>2, <2>5, <2>8, <2>9, <2>10, <2>11, <2>12, BegunSimulated
<1> QED  BY <1>9, <1>10, <1>11

LEMMA BeginDdlSimulated == ASSUME Before, NEW s \in Stmt, BeginDdl(s) PROVE Simulated
<1>1. PICK c \in CommitUser :
          IF ~c.ok
          THEN FailsWith(c) /\ UNCHANGED run
          ELSE /\ active' = FALSE /\ UNCHANGED lost
               /\ saves' = IF active THEN <<>> ELSE saves
               /\ \E b \in BeginOutcomes(c.e, c.d) :
                     Becomes(b) /\ run' = IF b.ok THEN Running("ddl", TRUE, s) ELSE run
  BY DEF BeginDdl
<1>2. Accepts /\ poisoned' = poisoned /\ run = Idle /\ ~poisoned
      /\ IInv /\ Valid /\ Valid' /\ BarsOK /\ BarsOK'
  BY DEF BeginDdl, Accepts, Before
<1>3. /\ Settled(c.e, c.d, nextId) /\ RowsKept(c.e, c.d) /\ RowsIn(durable, c.d)
      /\ ~c.ok => c.d = durable /\ (c.e = engine \/ (engine.open /\ ~c.e.open))
      /\ c.ok => /\ c.e.view = engine.view
                 /\ ~active => c.e = engine /\ c.d = durable
                 /\ ~lost => ~c.e.open /\ c.d = engine.view
  BY <1>2, CommitUserKeeps
<1>4. CASE ~c.ok
  <2>1. FailsWith(c) /\ run' = run
    BY <1>1, <1>4
  <2>2. Between
    BY <1>2, <2>1, BetweenSteps
  <2> QED  BY <1>3, <1>4, <2>1, <2>2, FailsWithSimulated
<1>5. CASE c.ok
  <2>1. PICK b \in BeginOutcomes(c.e, c.d) :
           Becomes(b) /\ run' = IF b.ok THEN Running("ddl", TRUE, s) ELSE run
    BY <1>1, <1>5
  <2>2. active' = FALSE /\ lost' = lost /\ saves' = IF active THEN <<>> ELSE saves
    BY <1>1, <1>5
  <2>3. CASE ~b.ok
    <3>1. run' = run
      BY <2>1, <2>3
    <3>2. Between
      BY <1>2, <3>1, BetweenSteps
    <3> QED  BY <1>5, <2>1, <2>2, <3>2, RestartSimulated
  <2>4. CASE b.ok
    <3>1. /\ b.d = c.d /\ b.e.view = c.e.view /\ b.e.open /\ ~c.e.open
      BY <1>3, <2>4, BeginShape, SMT
    <3>2. c.e.view = c.d /\ RowsKept(b.e, b.d)
      BY <1>3, <3>1, ClosedKept, BeginKeeps DEF Settled
    <3>3. /\ engine' = b.e /\ durable' = b.d /\ engine'.open /\ engine'.view = durable'
          /\ durable' = engine.view
      BY <1>3, <1>5, <2>1, <3>1, <3>2 DEF Becomes
    <3>4. run' = Running("ddl", TRUE, s)
      BY <2>1, <2>4
    <3>5. run'.kind = "ddl"
      BY <3>4 DEF Running
    <3>6. Based'
      BY <3>3, <3>5 DEF Based, Within
    <3>7. RInv'
      BY <3>2, <3>3, <3>6 DEF RInv, RowsKept, RowsIn
    <3>8. HandleBar' = IF lost' THEN "lost" ELSE "usable"
      BY <1>2, <3>3, <3>5 DEF BarsOK, Gone
    <3>9. Grows
      BY <1>3, <2>2, <3>1, <3>3, <3>8 DEF Grows
    <3>10. HandleBar = IF lost THEN "lost" ELSE "usable"
      BY <1>2, IdleBars DEF IdleOK
    <3>11. ASSUME ~lost PROVE Step
      <4>1. HandleBar = "usable" /\ MarksBar = Seen(engine, saves) /\ WorkBar = Row \cap engine.view
        BY <1>2, <3>11, IdleBars DEF IdleOK
      <4>2. active \in BOOLEAN /\ (~active => saves = <<>>)
        BY <1>2, <3>11, IdleFacts DEF Agree, IInv, Types
      <4>3. saves' = <<>>
        BY <2>2, <4>2
      <4>4. HandleBar' = "usable" /\ MarksBar' = <<>> /\ WorkBar' = Row \cap durable'
        <5>1. HandleBar' = "usable"
          BY <2>2, <3>8, <3>11
        <5>2. MarksBar' = Seen(engine, saves)' /\ WorkBar' = (Row \cap durable)'
          BY <1>2, <3>5, <5>1 DEF BarsOK
        <5>3. Seen(engine, saves)' = Seen(engine', saves') /\ (Row \cap durable)' = Row \cap durable'
          BY DEF Seen, Row
        <5> QED  BY <4>3, <5>1, <5>2, <5>3, SeenEmpty
      <4>5. WorkBar' = WorkBar /\ WorkBar = Row \cap durable'
        BY <3>3, <4>1, <4>4
      <4>6. CASE active
        BY <2>2, <4>1, <4>4, <4>5, <4>6, Commits
      <4>7. CASE ~active
        <5>1. MarksBar = <<>> /\ active' = active
          BY <2>2, <4>1, <4>2, <4>7, SeenEmpty
        <5>2. SameRows(durable', durable)
          BY <1>3, <1>5, <3>1, <3>3, <4>7, RowSets
        <5> QED  BY <4>1, <4>4, <4>5, <5>1, <5>2, Stutters
      <4> QED  BY <4>6, <4>7
    <3> QED  BY <3>7, <3>9, <3>10, <3>11 DEF Simulated
  <2> QED  BY <2>3, <2>4
<1> QED  BY <1>4, <1>5
=============================================================================
