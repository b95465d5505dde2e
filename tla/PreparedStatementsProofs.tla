----------------------- MODULE PreparedStatementsProofs -----------------------
(***************************************************************************)
(* What PreparedStatements promises, proved for any number of statements   *)
(* of any kinds and any number of writes.  The inductive invariant says    *)
(* of every statement where it is in its life (InOrder), why its rows are  *)
(* those of one state (Fresh: while it streams the connection still reads  *)
(* that state, from within a transaction) and what it may hold (Holds).    *)
(***************************************************************************)
EXTENDS PreparedStatements, TLAPS

Statement ==
    [state : {"free", "live", "detached"}, kind : {"none"} \cup Query \cup Command,
     started : BOOLEAN, done : BOOLEAN, kept : BOOLEAN, early : BOOLEAN,
     reading : BOOLEAN, published : BOOLEAN, left : BOOLEAN,
     rows : SUBSET Nat, asof : SUBSET Nat, seen : SUBSET SUBSET Nat]

DataTypes ==
    /\ store \in SUBSET Nat /\ work \in SUBSET Nat /\ acked \in SUBSET Nat
    /\ writes \in Nat

TypeOK ==
    /\ st \in [Stmt -> Statement]
    /\ DataTypes
    /\ open \in BOOLEAN /\ poisoned \in BOOLEAN
    /\ tx \in Stmt \cup NoOwner
    /\ current \in Stmt \cup {Nobody} /\ active \in Stmt \cup {Nobody}
    /\ calling \in Stmt \cup {Nobody}
    /\ outdated \subseteq Stmt

(* A stream that is being read, or whose end is being worked out.          *)
Streaming(s) == st[s].reading \/ (calling = s /\ st[s].done)

InOrder(s) ==
    /\ st[s].reading => /\ st[s].state = "live" /\ st[s].started
                        /\ ~st[s].kept /\ ~st[s].done
    /\ ~st[s].started => st[s].seen = {} /\ ~st[s].done
    /\ st[s].kept /\ ~st[s].started => st[s].early
    /\ st[s].kept /\ st[s].started /\ ~st[s].early => st[s].rows = st[s].asof
    /\ s \in unended => st[s].state = "live" /\ st[s].started /\ st[s].done
    /\ calling = s => st[s].state = "live" /\ st[s].started

Guarded(s) == st[s].reading /\ s \notin overlapped => active = s

Fresh(s) ==
    Streaming(s) /\ (s \notin overlapped \/ tx = s)
        => st[s].asof = View /\ tx \in {s, "user", "adrift"}

OneState(s) ==
    (s \notin overlapped \/ tx = s) /\ ~st[s].early => st[s].seen \subseteq {st[s].asof}

Holds(s) ==
    ~poisoned /\ (tx = s \/ active = s) => Streaming(s) \/ s \in unended

Sound(s) == InOrder(s) /\ Guarded(s) /\ Fresh(s) /\ OneState(s) /\ Holds(s)

Data ==
    /\ acked \subseteq store
    /\ tx = "user" => store \subseteq work
    /\ tx = "adrift" => poisoned

IInv ==
    /\ TypeOK
    /\ \A s \in Stmt : Sound(s)
    /\ Data
    /\ current \notin outdated

-----------------------------------------------------------------------------
(* What the commands do                                                    *)

(* What a command leaves behind, whatever its outcome: in the transaction  *)
(* of a cursor it changes nothing; otherwise nobody's or the user's        *)
(* transaction is there, and what was acknowledged is committed.           *)
Proper(o) ==
    /\ o.store \in SUBSET Nat /\ o.work \in SUBSET Nat /\ o.acked \in SUBSET Nat
    /\ o.writes \in Nat /\ o.poisoned \in BOOLEAN
    /\ tx \notin {"none", "user"} =>
           o.tx = tx /\ o.store = store /\ o.work = work /\ o.acked = acked
    /\ tx \in {"none", "user"} => o.tx \in {"none", "user"}
    /\ o.acked \subseteq o.store
    /\ o.tx = "user" => o.store \subseteq o.work

(* A command that fails before it did anything is Proper.                  *)
LEMMA FailedProper ==
    ASSUME TypeOK, Data
    PROVE  Proper(Failed)
BY Zenon DEF TypeOK, DataTypes, Data, Proper, Failed, Outcome

(* COMMIT of the user's transaction makes all of it permanent.             *)
LEMMA CommitUserProper ==
    ASSUME TypeOK, Data, tx = "user"
    PROVE  /\ Proper(CommitUser)
           /\ Proper([CommitUser EXCEPT !.ok = FALSE])
           /\ Proper([CommitUser EXCEPT !.tx = "user", !.work = work])
BY Zenon DEF TypeOK, DataTypes, Data, Proper, CommitUser, Failed, Outcome

(* START TRANSACTION, also one that commits first.                         *)
LEMMA BeginProper ==
    ASSUME TypeOK, Data, NEW o \in RunBegin
    PROVE  Proper(o)
<1>1. CASE tx = "user"
  BY <1>1, FailedProper, CommitUserProper, Zenon DEF RunBegin
<1>2. CASE tx = "none"
  <2>1. Proper([Failed EXCEPT !.ok = TRUE, !.tx = "user", !.work = store])
    BY <1>2, Zenon DEF TypeOK, DataTypes, Data, Proper, Failed, Outcome
  <2> QED  BY <1>2, <2>1, FailedProper, Zenon DEF RunBegin
<1>3. CASE tx \notin {"none", "user"}
  BY <1>3, FailedProper, Zenon DEF RunBegin
<1> QED  BY <1>1, <1>2, <1>3, Zenon

(* COMMIT and ROLLBACK.                                                    *)
LEMMA EndProper ==
    ASSUME TypeOK, Data, NEW o \in RunCommit \cup RunRollback
    PROVE  Proper(o)
<1>1. Proper([Failed EXCEPT !.ok = TRUE])
  BY Zenon DEF TypeOK, DataTypes, Data, Proper, Failed, Outcome
<1>2. CASE tx = "user"
  <2>1. Proper([Failed EXCEPT !.ok = TRUE, !.tx = "none", !.work = {}])
    BY <1>2, Zenon DEF TypeOK, DataTypes, Data, Proper, Failed, Outcome
  <2> QED  BY <1>2, <2>1, FailedProper, CommitUserProper, Zenon DEF RunCommit, RunRollback
<1>3. CASE tx # "user"
  BY <1>1, <1>3, Zenon DEF RunCommit, RunRollback
<1> QED  BY <1>2, <1>3, Zenon

(* A write, within the user's transaction, on its own, or refused.         *)
LEMMA WriteProper ==
    ASSUME TypeOK, Data, NEW o \in RunWrite
    PROVE  Proper(o)
<1>1. ASSUME NEW n \in Written  PROVE n \in Nat
  BY <1>1 DEF Written, TypeOK, DataTypes
<1>2. CASE tx = "user"
  <2>1. ASSUME NEW n \in Written
        PROVE  Proper([Failed EXCEPT !.ok = TRUE, !.work = work \cup {n}, !.writes = n])
    BY <1>1, <1>2, <2>1, Zenon DEF TypeOK, DataTypes, Data, Proper, Failed, Outcome
  <2> QED  BY <1>2, <2>1, FailedProper, Zenon DEF RunWrite
<1>3. CASE tx = "none"
  <2>1. Proper([Failed EXCEPT !.poisoned = TRUE])
    BY <1>3, Zenon DEF TypeOK, DataTypes, Data, Proper, Failed, Outcome
  <2>2. ASSUME NEW n \in Written
        PROVE  Proper([Failed EXCEPT !.ok = TRUE, !.store = store \cup {n}, !.writes = n,
                                     !.acked = acked \cup {n}])
    BY <1>1, <1>3, <2>2, Zenon DEF TypeOK, DataTypes, Data, Proper, Failed, Outcome
  <2> QED  BY <1>3, <2>1, <2>2, FailedProper, Zenon DEF RunWrite
<1>4. CASE tx \notin {"none", "user"}
  BY <1>4, FailedProper, Zenon DEF RunWrite
<1> QED  BY <1>2, <1>3, <1>4, Zenon

LEMMA RunProper ==
    ASSUME TypeOK, Data, NEW c \in Command, NEW o \in Run(c)
    PROVE  Proper(o)
BY BeginProper, EndProper, WriteProper, Zenon DEF Command, Run

-----------------------------------------------------------------------------
(* Steps of one statement                                                  *)

(* Only s moves: other statements keep what they are, the transaction and  *)
(* the place of the active cursor are taken or given up by s alone, or the *)
(* cursors that stream are marked as overlapped; a transaction set adrift  *)
(* or kept by a failure leaves the connection uncertain.                   *)
Moves(s) ==
    /\ \A u \in Stmt \ {s} :
           /\ st'[u] = st[u]
           /\ u \in overlapped => u \in overlapped'
           /\ u \in unended' <=> u \in unended
    /\ calling \in {Nobody, s} /\ calling' \in {Nobody, s}
    /\ store' = store /\ work' = work /\ acked' = acked
    /\ tx' = tx \/ (tx \in {"none", s} /\ tx' \in {"none", "adrift", s})
    /\ tx' = "adrift" => poisoned'
    /\ poisoned => poisoned'
    /\ active' = active \/ (active = s /\ active' = Nobody)
                        \/ (Reading \subseteq overlapped' /\ active' = s)

(* What holds of the other statements and of the data holds after the step. *)
LEMMA OthersSound ==
    ASSUME IInv, NEW s \in Stmt, Moves(s)
    PROVE  Data' /\ \A u \in Stmt \ {s} : Sound(u)'
<1>1. Data'
  BY StmtAssumption, Zenon DEF IInv, Data, Moves, NoOwner
<1>2. ASSUME NEW u \in Stmt \ {s}  PROVE Sound(u)'
  <2>1. Sound(u) /\ u # s /\ u \notin NoOwner \cup {Nobody} /\ s \notin NoOwner \cup {Nobody}
    BY <1>2, StmtAssumption, Zenon DEF IInv
  <2>2. st'[u] = st[u] /\ calling # u /\ calling' # u
    BY <1>2, <2>1, Zenon DEF Moves
  <2>3. /\ u \in overlapped => u \in overlapped'
        /\ u \in unended' <=> u \in unended
    BY <1>2, Zenon DEF Moves
  <2>4. /\ tx = u <=> tx' = u
        /\ tx \in {u, "user"} => tx' = tx
        /\ tx' = "user" => tx = "user"
        /\ tx = "adrift" => tx' = tx
    BY <2>1, Zenon DEF Moves, NoOwner
  <2>5. View' = View \/ (tx \notin {u, "user", "adrift"})
    BY <2>1, <2>4, Zenon DEF Moves, View, NoOwner
  <2>6. InOrder(u)'
    BY <2>1, <2>2, <2>3, Zenon DEF Sound, InOrder
  <2>7. Guarded(u)'
    <3>1. u \in overlapped' \/ ~st[u].reading \/ (active = u /\ active' = active)
      BY <2>1, <2>3, Zenon DEF Sound, Guarded, Moves, Reading
    <3> QED  BY <3>1, <2>2, Zenon DEF Guarded
  <2>8. Fresh(u)' /\ OneState(u)'
    <3>1. Streaming(u)' <=> Streaming(u)
      BY <2>2, Zenon DEF Streaming
    <3>2. (u \notin overlapped' \/ tx' = u) => (u \notin overlapped \/ tx = u)
      BY <2>3, <2>4, Zenon
    <3>3. Fresh(u)'
      BY <2>1, <2>2, <2>4, <2>5, <3>1, <3>2, Zenon DEF Sound, Fresh
    <3>4. OneState(u)'
      BY <2>1, <2>2, <3>2, Zenon DEF Sound, OneState
    <3> QED  BY <3>3, <3>4, Zenon
  <2>9. Holds(u)'
    <3>1. Streaming(u)' <=> Streaming(u)
      BY <2>2, Zenon DEF Streaming
    <3>2. active' = u => active = u
      BY <2>1, Zenon DEF Moves
    <3> QED  BY <2>1, <2>3, <2>4, <3>1, <3>2, Zenon DEF Sound, Holds, Moves
  <2> QED  BY <2>6, <2>7, <2>8, <2>9, Zenon DEF Sound
<1> QED  BY <1>1, <1>2, Zenon

LEMMA MoveSafe ==
    ASSUME IInv, NEW s \in Stmt, Moves(s), TypeOK', Sound(s)', (current \notin outdated)'
    PROVE  IInv'
BY OthersSound, Zenon DEF IInv

(* Commit or rollback of the transaction s may own: afterwards it is gone, *)
(* or the connection is uncertain.                                         *)
Ends(s) ==
    /\ tx' = tx \/ (tx = s /\ tx' \in {"none", s})
    /\ poisoned' \in BOOLEAN
    /\ poisoned => poisoned'
    /\ tx' = s => poisoned'

LEMMA EndedEnds ==
    ASSUME TypeOK, NEW s \in Stmt, NEW e \in Ended(s), tx' = e.tx, poisoned' = e.poisoned
    PROVE  Ends(s) /\ (~e.ok => poisoned')
<1>1. CASE tx # s
  <2>1. e = [tx |-> tx, poisoned |-> poisoned, ok |-> TRUE]
    BY <1>1, Zenon DEF Ended
  <2>2. tx' = tx /\ poisoned' = poisoned /\ e.ok
    BY <2>1, Zenon
  <2> QED  BY <1>1, <2>2, Zenon DEF Ends, TypeOK
<1>2. CASE tx = s
  <2>1. CASE e = [tx |-> "none", poisoned |-> poisoned, ok |-> TRUE]
    <3>1. tx' = "none" /\ poisoned' = poisoned /\ e.ok
      BY <2>1, Zenon
    <3> QED  BY <1>2, <3>1, StmtAssumption, Zenon DEF Ends, TypeOK, NoOwner
  <2>2. CASE e \in {[tx |-> "none", poisoned |-> TRUE, ok |-> FALSE],
                    [tx |-> s, poisoned |-> TRUE, ok |-> FALSE]}
    <3>1. tx' \in {"none", s} /\ poisoned' = TRUE /\ ~e.ok
      BY <2>2
    <3> QED  BY <1>2, <3>1, Zenon DEF Ends
  <2> QED  BY <1>2, <2>1, <2>2, Zenon DEF Ended
<1> QED  BY <1>1, <1>2, Zenon

(* What the invariant says of a statement that may be started, and of the  *)
(* names of statements.                                                    *)
LEMMA Startable ==
    ASSUME IInv, NEW s \in Stmt, MayStart(s)
    PROVE  /\ ~st[s].reading /\ ~st[s].done /\ st[s].seen = {} /\ s \notin unended
           /\ ~poisoned /\ tx # s /\ active # s /\ tx # "adrift"
           /\ calling = Nobody /\ st[s].state = "live" /\ ~st[s].started /\ ~st[s].kept
BY StmtAssumption, Zenon DEF IInv, Data, Sound, InOrder, Holds, Streaming, MayStart, MayStep, MayCall, NoOwner

LEMMA PrepareSafe ==
    ASSUME IInv, NEW s \in Stmt, NEW k \in Kind, Prepare(s, k)
    PROVE  IInv'
<1> DEFINE new == [Free EXCEPT !.state = "live", !.kind = k, !.kept = k = "eager",
                               !.early = k = "eager", !.left = k = "eager",
                               !.rows = IF k = "eager" THEN View ELSE {}]
<1>1. /\ st' = [st EXCEPT ![s] = new]
      /\ current' = s /\ outdated' = outdated \ {s}
      /\ overlapped' = overlapped \ {s} /\ unended' = unended \ {s}
      /\ active = Nobody /\ ~poisoned /\ calling = Nobody
      /\ UNCHANGED <<open, active, tx, poisoned, calling, store, work, writes, acked>>
  BY Zenon DEF Prepare, MayCommand, MayCall, Number, data
<1>2. /\ new \in Statement
      /\ new.seen = {} /\ new.asof = {} /\ ~new.reading /\ ~new.started /\ ~new.done
      /\ new.kept => new.early
  BY KindAssumption DEF IInv, TypeOK, DataTypes, Statement, Free, View, Query, Command
<1>3. st[s].state = "free"
  BY Zenon DEF Prepare
<1> HIDE DEF new
<1>4. TypeOK'
  BY <1>1, <1>2, Zenon DEF IInv, TypeOK, DataTypes
<1>5. Moves(s)
  BY <1>1, Zenon DEF IInv, TypeOK, Moves, Data
<1>6. Sound(s)'
  <2>1. st'[s] = new
    BY <1>1, Zenon DEF IInv, TypeOK
  <2> QED  BY <1>1, <1>2, <1>3, <2>1, StmtAssumption, Zenon
            DEF IInv, Sound, InOrder, Guarded, Fresh, OneState, Holds, Streaming, NoOwner
<1> QED  BY <1>1, <1>4, <1>5, <1>6, MoveSafe, Zenon

(* The statement s is another record, the others stay.                     *)
Turns(s) == st' \in [Stmt -> Statement] /\ \A u \in Stmt \ {s} : st'[u] = st[u]

LEMMA TurnsInto ==
    ASSUME TypeOK, NEW s \in Stmt, NEW r \in Statement, st' = [st EXCEPT ![s] = r]
    PROVE  Turns(s) /\ st'[s] = r
BY Zenon DEF TypeOK, Turns

(* The fields of a statement may be assigned one by one.                   *)
LEMMA Assigned ==
    ASSUME NEW r \in Statement, NEW b \in BOOLEAN, NEW V \in SUBSET Nat,
           NEW W \in SUBSET SUBSET Nat
    PROVE  /\ [r EXCEPT !.started = b] \in Statement
           /\ [r EXCEPT !.done = b] \in Statement
           /\ [r EXCEPT !.kept = b] \in Statement
           /\ [r EXCEPT !.reading = b] \in Statement
           /\ [r EXCEPT !.published = b] \in Statement
           /\ [r EXCEPT !.left = b] \in Statement
           /\ [r EXCEPT !.rows = V] \in Statement
           /\ [r EXCEPT !.asof = V] \in Statement
           /\ [r EXCEPT !.seen = W] \in Statement
BY Zenon DEF Statement

LEMMA ViewType ==
    ASSUME TypeOK
    PROVE  View \in SUBSET Nat
BY Zenon DEF TypeOK, DataTypes, View

LEMMA StartStreamSafe ==
    ASSUME IInv, NEW s \in Stmt, StartStream(s)
    PROVE  IInv'
<1>1. /\ current' = s /\ active' = s /\ calling' = s
      /\ tx' = IF tx = "none" THEN s ELSE tx
      /\ outdated' = outdated \ {s} /\ overlapped' = OverlapStream(s)
      /\ UNCHANGED <<open, poisoned, store, work, writes, acked, unended>>
  BY Zenon DEF StartStream, Number, data
<1>2. /\ Turns(s)
      /\ st'[s].reading /\ st'[s].started /\ st'[s].asof = View
      /\ st'[s].state = st[s].state /\ st'[s].kept = st[s].kept
      /\ st'[s].done = st[s].done /\ st'[s].seen = st[s].seen
  <2> DEFINE new == [st[s] EXCEPT !.started = TRUE, !.reading = TRUE, !.asof = View]
  <2>1. st' = [st EXCEPT ![s] = new]
    BY Zenon DEF StartStream
  <2>2. TypeOK /\ st[s] \in Statement
    BY Zenon DEF IInv, TypeOK
  <2>3. new \in Statement
    BY <2>2, ViewType, Assigned, Zenon
  <2>4. /\ new.reading /\ new.started /\ new.asof = View
        /\ new.state = st[s].state /\ new.kept = st[s].kept
        /\ new.done = st[s].done /\ new.seen = st[s].seen
    BY <2>2, Zenon DEF Statement
  <2> HIDE DEF new
  <2>5. Turns(s) /\ st'[s] = new
    BY <2>1, <2>2, <2>3, TurnsInto, Zenon
  <2> QED  BY <2>4, <2>5, Zenon
<1>3. MayStart(s)
  BY Zenon DEF StartStream
<1>4. /\ ~st[s].done /\ st[s].seen = {} /\ s \notin unended
      /\ ~poisoned /\ tx # s /\ calling = Nobody /\ st[s].state = "live" /\ ~st[s].kept
  BY <1>3, Startable, Zenon
<1>5. TypeOK'
  BY <1>1, <1>2, Zenon DEF IInv, TypeOK, DataTypes, Turns
<1>6. Moves(s)
  <2>1. Reading \subseteq overlapped' /\ overlapped \ {s} \subseteq overlapped'
    BY <1>1, Zenon DEF OverlapStream
  <2> QED  BY <1>1, <1>2, <1>4, <2>1, StmtAssumption, Zenon DEF Moves, Turns, IInv, Data, NoOwner
<1>7. Sound(s)'
  <2>1. tx \in Stmt => s \in overlapped'
    BY <1>1, Zenon DEF OverlapStream
  <2>2. /\ View' = View
        /\ s \notin overlapped' \/ tx' = s => tx' \in {s, "user", "adrift"}
    BY <1>1, <1>4, <2>1, StmtAssumption, Zenon DEF View, NoOwner, IInv, TypeOK
  <2> QED  BY <1>1, <1>2, <1>4, <2>2, Zenon
            DEF Sound, InOrder, Guarded, Fresh, OneState, Holds, Streaming
<1> QED  BY <1>1, <1>5, <1>6, <1>7, MoveSafe, Zenon

LEMMA StartRowsSafe ==
    ASSUME IInv, NEW s \in Stmt, StartRows(s)
    PROVE  IInv'
<1>1. /\ current' = s /\ calling' = s /\ overlapped' = overlapped \ {s}
      /\ UNCHANGED <<open, active, tx, poisoned, store, work, writes, acked, unended>>
  BY Zenon DEF StartRows, Number, data
<1>2. outdated' \subseteq Stmt \ {s}
  BY Zenon DEF StartRows, Publish, IInv, TypeOK
<1>3. /\ Turns(s)
      /\ st'[s].started /\ st'[s].kept /\ st'[s].rows = View /\ st'[s].asof = View
      /\ st'[s].state = st[s].state /\ st'[s].reading = st[s].reading
      /\ st'[s].done = st[s].done /\ st'[s].seen = st[s].seen
  <2>1. PICK some \in BOOLEAN :
            st' = [st EXCEPT ![s].started = TRUE, ![s].kept = TRUE, ![s].left = some,
                             ![s].rows = View, ![s].asof = View,
                             ![s].published = st[s].kind = "buffered"]
    BY Zenon DEF StartRows
  <2> DEFINE new == [st[s] EXCEPT !.started = TRUE, !.kept = TRUE, !.left = some,
                                  !.rows = View, !.asof = View,
                                  !.published = st[s].kind = "buffered"]
  <2>2. st' = [st EXCEPT ![s] = new]
    BY <2>1, Zenon
  <2>3. TypeOK /\ st[s] \in Statement
    BY Zenon DEF IInv, TypeOK
  <2>4. new \in Statement
    BY <2>3, ViewType, Assigned, ZenonT(30)
  <2>5. /\ new.started /\ new.kept /\ new.rows = View /\ new.asof = View
        /\ new.state = st[s].state /\ new.reading = st[s].reading
        /\ new.done = st[s].done /\ new.seen = st[s].seen
    BY <2>3, Zenon DEF Statement
  <2> HIDE DEF new
  <2>6. Turns(s) /\ st'[s] = new
    BY <2>2, <2>3, <2>4, TurnsInto, Zenon
  <2> QED  BY <2>5, <2>6, Zenon
<1>4. MayStart(s)
  BY Zenon DEF StartRows
<1>5. /\ ~st[s].reading /\ ~st[s].done /\ st[s].seen = {} /\ s \notin unended
      /\ ~poisoned /\ tx # s /\ active # s /\ tx # "adrift"
      /\ calling = Nobody /\ st[s].state = "live"
  BY <1>4, Startable, Zenon
<1>6. TypeOK'
  BY <1>1, <1>2, <1>3, Zenon DEF IInv, TypeOK, DataTypes, Turns
<1>7. Moves(s)
  BY <1>1, <1>3, <1>5, Zenon DEF Moves, Turns
<1>8. Sound(s)'
  BY <1>1, <1>3, <1>5, Zenon DEF Sound, InOrder, Guarded, Fresh, OneState, Holds, Streaming
<1> QED  BY <1>1, <1>2, <1>6, <1>7, <1>8, MoveSafe, Zenon

LEMMA StartFailsSafe ==
    ASSUME IInv, NEW s \in Stmt, StartFails(s)
    PROVE  IInv'
<1>1. /\ current' = s /\ overlapped' = overlapped \ {s} /\ outdated' = outdated \ {s}
      /\ UNCHANGED <<open, active, calling, store, work, writes, acked, unended>>
  BY Zenon DEF StartFails, Number, PublishFailure, data
<1>2. \/ tx' = tx /\ poisoned' = poisoned
      \/ tx = "none" /\ poisoned' = TRUE /\ tx' \in {"none", s}
  BY Zenon DEF StartFails
<1>3. /\ Turns(s)
      /\ st'[s].started /\ st'[s].done /\ st'[s].kept = st[s].kept
      /\ st'[s].state = st[s].state /\ st'[s].reading = st[s].reading
      /\ st'[s].seen = st[s].seen
  <2> DEFINE new == [st[s] EXCEPT !.started = TRUE, !.done = TRUE]
  <2>1. st' = [st EXCEPT ![s] = new]
    BY Zenon DEF StartFails
  <2>2. TypeOK /\ st[s] \in Statement
    BY Zenon DEF IInv, TypeOK
  <2>3. new \in Statement
    BY <2>2, Assigned, Zenon
  <2>4. /\ new.started /\ new.done /\ new.kept = st[s].kept
        /\ new.state = st[s].state /\ new.reading = st[s].reading
        /\ new.seen = st[s].seen
    BY <2>2, Zenon DEF Statement
  <2> HIDE DEF new
  <2>5. Turns(s) /\ st'[s] = new
    BY <2>1, <2>2, <2>3, TurnsInto, Zenon
  <2> QED  BY <2>4, <2>5, Zenon
<1>4. MayStart(s)
  BY Zenon DEF StartFails
<1>5. /\ ~st[s].reading /\ st[s].seen = {} /\ s \notin unended /\ ~st[s].kept
      /\ ~poisoned /\ tx # s /\ active # s /\ tx # "adrift"
      /\ calling = Nobody /\ st[s].state = "live"
  BY <1>4, Startable, Zenon
<1>6. s \notin NoOwner /\ s # Nobody
  BY StmtAssumption, Zenon
<1>7. TypeOK'
  BY <1>1, <1>2, <1>3, Zenon DEF IInv, TypeOK, DataTypes, Turns, NoOwner
<1>8. Moves(s)
  BY <1>1, <1>2, <1>3, <1>5, <1>6, Zenon DEF Moves, Turns, NoOwner
<1>9. Sound(s)'
  BY <1>1, <1>2, <1>3, <1>5, <1>6, Zenon DEF Sound, InOrder, Guarded, Fresh, OneState, Holds, Streaming
<1> QED  BY <1>1, <1>7, <1>8, <1>9, MoveSafe, Zenon

(* The names of statements are no other names.                             *)
LEMMA Named ==
    ASSUME NEW s \in Stmt
    PROVE  s \notin {"none", "user", "adrift"} /\ s # Nobody
BY StmtAssumption, Zenon DEF NoOwner

(* What the invariant says of a statement within its execution.            *)
LEMMA Executing ==
    ASSUME IInv, NEW s \in Stmt, Fetching(s)
    PROVE  /\ st[s].started /\ ~st[s].done /\ st[s].state = "live" /\ s \notin unended
           /\ calling \in {Nobody, s}
BY Zenon DEF IInv, Sound, InOrder, Fetching, MayStep, MayCall

LEMMA TakeEarlySafe ==
    ASSUME IInv, NEW s \in Stmt, TakeEarly(s)
    PROVE  IInv'
<1>1. /\ calling' = s /\ calling = Nobody
      /\ UNCHANGED <<open, current, active, tx, poisoned, store, work, writes, acked,
                     outdated, overlapped, unended>>
  BY Zenon DEF TakeEarly, MayStep, MayCall, data, ghosts
<1>2. /\ Turns(s)
      /\ st'[s].started /\ st'[s].kept = st[s].kept /\ st'[s].early = st[s].early
      /\ st'[s].state = st[s].state /\ st'[s].reading = st[s].reading
      /\ st'[s].done = st[s].done /\ st'[s].seen = st[s].seen
  <2> DEFINE new == [st[s] EXCEPT !.started = TRUE, !.asof = View]
  <2>1. st' = [st EXCEPT ![s] = new]
    BY Zenon DEF TakeEarly
  <2>2. TypeOK /\ st[s] \in Statement
    BY Zenon DEF IInv, TypeOK
  <2>3. new \in Statement
    BY <2>2, ViewType, Assigned, Zenon
  <2>4. /\ new.started /\ new.kept = st[s].kept /\ new.early = st[s].early
        /\ new.state = st[s].state /\ new.reading = st[s].reading
        /\ new.done = st[s].done /\ new.seen = st[s].seen
    BY <2>2, Zenon DEF Statement
  <2> HIDE DEF new
  <2>5. Turns(s) /\ st'[s] = new
    BY <2>1, <2>2, <2>3, TurnsInto, Zenon
  <2> QED  BY <2>4, <2>5, Zenon
<1>3. /\ st[s].kept /\ ~st[s].started /\ st[s].state = "live" /\ Sound(s)
      /\ current \notin outdated
  BY Zenon DEF TakeEarly, MayStep, IInv
<1>4. /\ st[s].early /\ ~st[s].reading /\ ~st[s].done /\ s \notin unended
      /\ st[s].seen = {}
  BY <1>3, Zenon DEF Sound, InOrder
<1>5. TypeOK'
  BY <1>1, <1>2, Zenon DEF IInv, TypeOK, DataTypes, Turns
<1>6. Moves(s)
  BY <1>1, <1>2, Zenon DEF IInv, Data, Moves, Turns
<1>7. Sound(s)'
  BY <1>1, <1>2, <1>3, <1>4, Named, Zenon
     DEF Sound, InOrder, Guarded, Fresh, OneState, Holds, Streaming
<1> QED  BY <1>1, <1>3, <1>5, <1>6, <1>7, MoveSafe, Zenon

LEMMA FetchKeptSafe ==
    ASSUME IInv, NEW s \in Stmt, FetchKept(s)
    PROVE  IInv'
<1>1. /\ calling' = Nobody
      /\ UNCHANGED <<open, current, active, tx, poisoned, store, work, writes, acked,
                     outdated, overlapped, unended>>
  BY Zenon DEF FetchKept, data, ghosts
<1>2. /\ Turns(s)
      /\ st'[s].seen = st[s].seen \cup {st[s].rows}
      /\ st'[s].started = st[s].started /\ st'[s].kept = st[s].kept
      /\ st'[s].early = st[s].early /\ st'[s].state = st[s].state
      /\ st'[s].reading = st[s].reading /\ st'[s].done = st[s].done
      /\ st'[s].rows = st[s].rows /\ st'[s].asof = st[s].asof
  <2> DEFINE new == [st[s] EXCEPT !.left = FALSE, !.seen = st[s].seen \cup {st[s].rows}]
  <2>1. st' = [st EXCEPT ![s] = new]
    BY Zenon DEF FetchKept
  <2>2. TypeOK /\ st[s] \in Statement
    BY Zenon DEF IInv, TypeOK
  <2>3. st[s].seen \cup {st[s].rows} \in SUBSET SUBSET Nat
    BY <2>2, Zenon DEF Statement
  <2>4. new \in Statement
    BY <2>2, <2>3, Assigned, ZenonT(30)
  <2>5. /\ new.seen = st[s].seen \cup {st[s].rows}
        /\ new.started = st[s].started /\ new.kept = st[s].kept
        /\ new.early = st[s].early /\ new.state = st[s].state
        /\ new.reading = st[s].reading /\ new.done = st[s].done
        /\ new.rows = st[s].rows /\ new.asof = st[s].asof
    BY <2>2, Zenon DEF Statement
  <2> HIDE DEF new
  <2>6. Turns(s) /\ st'[s] = new
    BY <2>1, <2>2, <2>4, TurnsInto, Zenon
  <2> QED  BY <2>5, <2>6, Zenon
<1>3. Fetching(s) /\ st[s].kept /\ Sound(s) /\ current \notin outdated
  BY Zenon DEF FetchKept, IInv
<1>4. st[s].started /\ ~st[s].done /\ s \notin unended /\ calling \in {Nobody, s}
  BY <1>3, Executing, Zenon
<1>5. ~st[s].reading
  BY <1>3, Zenon DEF Sound, InOrder
<1>6. TypeOK'
  BY <1>1, <1>2, Zenon DEF IInv, TypeOK, DataTypes, Turns
<1>7. Moves(s)
  BY <1>1, <1>2, <1>4, Zenon DEF IInv, Data, Moves, Turns
<1>8. Sound(s)'
  BY <1>1, <1>2, <1>3, <1>4, <1>5, Named, Zenon
     DEF Sound, InOrder, Guarded, Fresh, OneState, Holds, Streaming
<1> QED  BY <1>1, <1>3, <1>6, <1>7, <1>8, MoveSafe, Zenon

LEMMA FetchStreamSafe ==
    ASSUME IInv, NEW s \in Stmt, FetchStream(s)
    PROVE  IInv'
<1>1. /\ calling' = Nobody
      /\ UNCHANGED <<open, current, active, tx, poisoned, store, work, writes, acked,
                     outdated, overlapped, unended>>
  BY Zenon DEF FetchStream, data, ghosts
<1>2. /\ Turns(s)
      /\ st'[s].seen = st[s].seen \cup {View}
      /\ st'[s].started = st[s].started /\ st'[s].kept = st[s].kept
      /\ st'[s].early = st[s].early /\ st'[s].state = st[s].state
      /\ st'[s].reading = st[s].reading /\ st'[s].done = st[s].done
      /\ st'[s].asof = st[s].asof
  <2> DEFINE new == [st[s] EXCEPT !.seen = st[s].seen \cup {View}]
  <2>1. st' = [st EXCEPT ![s] = new]
    BY Zenon DEF FetchStream
  <2>2. TypeOK /\ st[s] \in Statement
    BY Zenon DEF IInv, TypeOK
  <2>3. st[s].seen \cup {View} \in SUBSET SUBSET Nat
    BY <2>2, ViewType, Zenon DEF Statement
  <2>4. new \in Statement
    BY <2>2, <2>3, Assigned, Zenon
  <2>5. /\ new.seen = st[s].seen \cup {View}
        /\ new.started = st[s].started /\ new.kept = st[s].kept
        /\ new.early = st[s].early /\ new.state = st[s].state
        /\ new.reading = st[s].reading /\ new.done = st[s].done
        /\ new.asof = st[s].asof
    BY <2>2, Zenon DEF Statement
  <2> HIDE DEF new
  <2>6. Turns(s) /\ st'[s] = new
    BY <2>1, <2>2, <2>4, TurnsInto, Zenon
  <2> QED  BY <2>5, <2>6, Zenon
<1>3. Fetching(s) /\ st[s].reading /\ Sound(s) /\ current \notin outdated
  BY Zenon DEF FetchStream, IInv
<1>4. st[s].started /\ ~st[s].done /\ s \notin unended /\ calling \in {Nobody, s}
  BY <1>3, Executing, Zenon
<1>5. View' = View
  BY <1>1, Zenon DEF View
<1>6. TypeOK'
  BY <1>1, <1>2, Zenon DEF IInv, TypeOK, DataTypes, Turns
<1>7. Moves(s)
  BY <1>1, <1>2, <1>4, Zenon DEF IInv, Data, Moves, Turns
<1>8. Sound(s)'
  BY <1>1, <1>2, <1>3, <1>4, <1>5, Named, Zenon
     DEF Sound, InOrder, Guarded, Fresh, OneState, Holds, Streaming
<1> QED  BY <1>1, <1>3, <1>6, <1>7, <1>8, MoveSafe, Zenon

(* The stream of s is over: SQLite's statement is finished.                *)
LEMMA StreamOver ==
    ASSUME IInv, NEW s \in Stmt,
           st' = [st EXCEPT ![s].reading = FALSE, ![s].done = TRUE]
    PROVE  /\ Turns(s)
           /\ ~st'[s].reading /\ st'[s].done
           /\ st'[s].started = st[s].started /\ st'[s].kept = st[s].kept
           /\ st'[s].early = st[s].early /\ st'[s].state = st[s].state
           /\ st'[s].asof = st[s].asof /\ st'[s].seen = st[s].seen
<1> DEFINE new == [st[s] EXCEPT !.reading = FALSE, !.done = TRUE]
<1>1. st' = [st EXCEPT ![s] = new]
  BY Zenon
<1>2. TypeOK /\ st[s] \in Statement
  BY Zenon DEF IInv, TypeOK
<1>3. new \in Statement
  BY <1>2, Assigned, Zenon
<1>4. /\ ~new.reading /\ new.done
      /\ new.started = st[s].started /\ new.kept = st[s].kept
      /\ new.early = st[s].early /\ new.state = st[s].state
      /\ new.asof = st[s].asof /\ new.seen = st[s].seen
  BY <1>2, Zenon DEF Statement
<1> HIDE DEF new
<1>5. Turns(s) /\ st'[s] = new
  BY <1>1, <1>2, <1>3, TurnsInto, Zenon
<1> QED  BY <1>4, <1>5, Zenon

LEMMA FetchFailsSafe ==
    ASSUME IInv, NEW s \in Stmt, FetchFails(s)
    PROVE  IInv'
<1>1. /\ calling' = Nobody /\ active' = Cleared(s) /\ outdated' = outdated \ {s}
      /\ UNCHANGED <<open, current, store, work, writes, acked, overlapped, unended>>
  BY Zenon DEF FetchFails, PublishFailure, data
<1>2. st' = [st EXCEPT ![s].reading = FALSE, ![s].done = TRUE]
  BY Zenon DEF FetchFails
<1>3. /\ Turns(s)
      /\ ~st'[s].reading /\ st'[s].done
      /\ st'[s].started = st[s].started /\ st'[s].kept = st[s].kept
      /\ st'[s].early = st[s].early /\ st'[s].state = st[s].state
      /\ st'[s].asof = st[s].asof /\ st'[s].seen = st[s].seen
  BY <1>2, StreamOver, Zenon
<1>4. Ends(s)
  <2>1. PICK e \in Ended(s) : tx' = e.tx /\ poisoned' = e.poisoned
    BY Zenon DEF FetchFails
  <2> QED  BY <2>1, EndedEnds, Zenon DEF IInv
<1>5. Fetching(s) /\ st[s].reading /\ Sound(s) /\ current \notin outdated
  BY Zenon DEF FetchFails, IInv
<1>6. st[s].started /\ s \notin unended /\ calling \in {Nobody, s}
  BY <1>5, Executing, Zenon
<1>7. ~st[s].kept
  BY <1>5, Zenon DEF Sound, InOrder
<1>8. TypeOK'
  BY <1>1, <1>3, <1>4, Zenon DEF IInv, TypeOK, DataTypes, Turns, Ends, Cleared, NoOwner
<1>9. Moves(s)
  BY <1>1, <1>3, <1>4, <1>6, Named, Zenon DEF IInv, Data, Moves, Turns, Ends, Cleared
<1>10. Sound(s)'
  BY <1>1, <1>3, <1>4, <1>5, <1>6, <1>7, Named, Zenon
     DEF Sound, InOrder, Guarded, Fresh, OneState, Holds, Streaming, Ends, Cleared
<1> QED  BY <1>1, <1>5, <1>8, <1>9, <1>10, MoveSafe, Zenon

LEMMA ExhaustSafe ==
    ASSUME IInv, NEW s \in Stmt, Exhaust(s)
    PROVE  IInv'
<1>1. /\ calling' = s
      /\ UNCHANGED <<open, current, active, tx, poisoned, store, work, writes, acked,
                     outdated, overlapped, unended>>
  BY Zenon DEF Exhaust, data, ghosts
<1>2. st' = [st EXCEPT ![s].reading = FALSE, ![s].done = TRUE]
  BY Zenon DEF Exhaust
<1>3. /\ Turns(s)
      /\ ~st'[s].reading /\ st'[s].done
      /\ st'[s].started = st[s].started /\ st'[s].kept = st[s].kept
      /\ st'[s].early = st[s].early /\ st'[s].state = st[s].state
      /\ st'[s].asof = st[s].asof /\ st'[s].seen = st[s].seen
  BY <1>2, StreamOver, Zenon
<1>4. Fetching(s) /\ st[s].reading /\ Sound(s) /\ current \notin outdated
  BY Zenon DEF Exhaust, IInv
<1>5. /\ st[s].started /\ st[s].state = "live"
      /\ s \notin unended /\ calling \in {Nobody, s}
  BY <1>4, Executing, Zenon
<1>6. ~st[s].kept /\ View' = View
  BY <1>1, <1>4, Zenon DEF Sound, InOrder, View
<1>7. TypeOK'
  BY <1>1, <1>3, Zenon DEF IInv, TypeOK, DataTypes, Turns
<1>8. Moves(s)
  BY <1>1, <1>3, <1>5, Zenon DEF IInv, Data, Moves, Turns
<1>9. Sound(s)'
  BY <1>1, <1>3, <1>4, <1>5, <1>6, Zenon
     DEF Sound, InOrder, Guarded, Fresh, OneState, Holds, Streaming
<1> QED  BY <1>1, <1>4, <1>7, <1>8, <1>9, MoveSafe, Zenon

(* finish_cursor_statement: the end of the transaction, the place of the   *)
(* active cursor given up or not, and a completion that is not out of order. *)
Finishes(s) ==
    /\ Ends(s)
    /\ active' = active \/ (active = s /\ active' = Nobody)
    /\ outdated' \subseteq Stmt
    /\ current \notin outdated => current \notin outdated'

LEMMA FinishFinishes ==
    ASSUME IInv, NEW s \in Stmt, Finish(s)
    PROVE  Finishes(s)
<1>1. PICK e \in Ended(s) :
        /\ tx' = e.tx /\ poisoned' = e.poisoned
        /\ \/ PublishNothing /\ UNCHANGED active
           \/ /\ IF current = s THEN Publish(s) ELSE PublishNothing
              /\ active' = Cleared(s)
           \/ PublishFailure(s) /\ UNCHANGED active
  BY Zenon DEF Finish
<1>2. Ends(s)
  BY <1>1, EndedEnds, Zenon DEF IInv
<1> QED  BY <1>1, <1>2, Zenon
          DEF Finishes, PublishNothing, Publish, PublishFailure, Cleared, IInv, TypeOK

LEMMA EndKeptSafe ==
    ASSUME IInv, NEW s \in Stmt, EndKept(s)
    PROVE  IInv'
<1>1. /\ calling' = Nobody
      /\ UNCHANGED <<open, current, store, work, writes, acked, overlapped, unended>>
  BY Zenon DEF EndKept, data
<1>2. /\ Turns(s)
      /\ st'[s].done
      /\ st'[s].started = st[s].started /\ st'[s].kept = st[s].kept
      /\ st'[s].early = st[s].early /\ st'[s].state = st[s].state
      /\ st'[s].reading = st[s].reading /\ st'[s].rows = st[s].rows
      /\ st'[s].asof = st[s].asof /\ st'[s].seen = st[s].seen
  <2> DEFINE new == [st[s] EXCEPT !.done = TRUE]
  <2>1. st' = [st EXCEPT ![s] = new]
    BY Zenon DEF EndKept
  <2>2. TypeOK /\ st[s] \in Statement
    BY Zenon DEF IInv, TypeOK
  <2>3. new \in Statement
    BY <2>2, Assigned, Zenon
  <2>4. /\ new.done
        /\ new.started = st[s].started /\ new.kept = st[s].kept
        /\ new.early = st[s].early /\ new.state = st[s].state
        /\ new.reading = st[s].reading /\ new.rows = st[s].rows
        /\ new.asof = st[s].asof /\ new.seen = st[s].seen
    BY <2>2, Zenon DEF Statement
  <2> HIDE DEF new
  <2>5. Turns(s) /\ st'[s] = new
    BY <2>1, <2>2, <2>3, TurnsInto, Zenon
  <2> QED  BY <2>4, <2>5, Zenon
<1>3. Fetching(s) /\ st[s].kept /\ Sound(s) /\ current \notin outdated
  BY Zenon DEF EndKept, IInv
<1>4. st[s].started /\ ~st[s].done /\ s \notin unended /\ calling \in {Nobody, s}
  BY <1>3, Executing, Zenon
<1>5. ~st[s].reading /\ (~poisoned => tx # s /\ active # s)
  BY <1>3, <1>4, Zenon DEF Sound, InOrder, Holds, Streaming
<1>6. Finishes(s)
  <2>1. CASE UNCHANGED <<tx, poisoned, active, shown, outdated>>
    BY <2>1, <1>5, Zenon DEF Finishes, Ends, IInv, TypeOK
  <2>2. CASE Finish(s)
    BY <2>2, FinishFinishes, Zenon
  <2> QED  BY <2>1, <2>2, Zenon DEF EndKept
<1>7. TypeOK'
  BY <1>1, <1>2, <1>6, Zenon DEF IInv, TypeOK, DataTypes, Turns, Finishes, Ends, NoOwner
<1>8. Moves(s)
  BY <1>1, <1>2, <1>4, <1>6, Named, Zenon DEF IInv, Data, Moves, Turns, Finishes, Ends
<1>9. Sound(s)'
  BY <1>1, <1>2, <1>3, <1>4, <1>5, <1>6, Named, Zenon
     DEF Sound, InOrder, Guarded, Fresh, OneState, Holds, Streaming, Finishes, Ends
<1>10. (current \notin outdated)'
  BY <1>1, <1>3, <1>6, Zenon DEF Finishes
<1> QED  BY <1>7, <1>8, <1>9, <1>10, MoveSafe, Zenon

LEMMA CompleteSafe ==
    ASSUME IInv, NEW s \in Stmt, Complete(s)
    PROVE  IInv'
<1>1. /\ calling = s /\ calling' = Nobody /\ st[s].done
      /\ UNCHANGED <<open, current, store, work, writes, acked, overlapped>>
      /\ Sound(s) /\ current \notin outdated
  BY Zenon DEF Complete, data, IInv
<1>2. /\ Turns(s)
      /\ st'[s].started = st[s].started /\ st'[s].kept = st[s].kept
      /\ st'[s].early = st[s].early /\ st'[s].state = st[s].state
      /\ st'[s].reading = st[s].reading /\ st'[s].done = st[s].done
      /\ st'[s].rows = st[s].rows /\ st'[s].asof = st[s].asof
      /\ st'[s].seen \in {st[s].seen, st[s].seen \cup {View}}
  <2> DEFINE new == [st[s] EXCEPT !.seen = st[s].seen \cup {View}]
  <2>1. TypeOK /\ st[s] \in Statement
    BY Zenon DEF IInv, TypeOK
  <2>2. CASE st' = [st EXCEPT ![s].seen = @ \cup {View}]
    <3>1. st' = [st EXCEPT ![s] = new]
      BY <2>2, Zenon
    <3>2. st[s].seen \cup {View} \in SUBSET SUBSET Nat
      BY <2>1, ViewType, Zenon DEF Statement
    <3>3. new \in Statement
      BY <2>1, <3>2, Assigned, Zenon
    <3>4. /\ new.started = st[s].started /\ new.kept = st[s].kept
          /\ new.early = st[s].early /\ new.state = st[s].state
          /\ new.reading = st[s].reading /\ new.done = st[s].done
          /\ new.rows = st[s].rows /\ new.asof = st[s].asof
          /\ new.seen = st[s].seen \cup {View}
      BY <2>1, Zenon DEF Statement
    <3> HIDE DEF new
    <3>5. Turns(s) /\ st'[s] = new
      BY <2>1, <3>1, <3>3, TurnsInto, Zenon
    <3> QED  BY <3>4, <3>5, Zenon
  <2>3. CASE st' = st
    BY <2>1, <2>3, Zenon DEF Turns, TypeOK
  <2> QED  BY <2>2, <2>3, Zenon DEF Complete
<1>3. /\ \/ Finishes(s)
         \/ UNCHANGED <<tx, poisoned, active, outdated>>
      /\ unended' \in {unended, unended \cup {s}}
      /\ ~poisoned' => s \in unended' \/ (tx' # s /\ active' # s)
  <2>1. CASE Finish(s) /\ unended' = IF active' = s THEN unended \cup {s} ELSE unended
    <3>1. Finishes(s)
      BY <2>1, FinishFinishes, Zenon
    <3> QED  BY <2>1, <3>1, Zenon DEF Finishes, Ends
  <2>2. CASE unended' = unended \cup {s} /\ UNCHANGED <<tx, poisoned, active, outdated>>
    BY <2>2, Zenon
  <2> QED  BY <2>1, <2>2, Zenon DEF Complete
<1>4. /\ tx' = tx \/ (tx = s /\ tx' \in {"none", s})
      /\ poisoned' \in BOOLEAN
      /\ poisoned => poisoned'
      /\ active' = active \/ (active = s /\ active' = Nobody)
      /\ outdated' \subseteq Stmt
      /\ current \notin outdated'
  BY <1>1, <1>3 DEF Finishes, Ends, IInv, TypeOK
<1>5. st[s].state = "live" /\ st[s].started /\ ~st[s].reading
  BY <1>1, Zenon DEF Sound, InOrder
<1>6. TypeOK'
  BY <1>1, <1>2, <1>4, Zenon DEF IInv, TypeOK, DataTypes, Turns, NoOwner
<1>7. Moves(s)
  BY <1>1, <1>2, <1>3, <1>4, Named, Zenon DEF IInv, Data, Moves, Turns
<1>8. Sound(s)'
  <2>1. InOrder(s)' /\ Guarded(s)' /\ Fresh(s)' /\ Holds(s)'
    BY <1>1, <1>2, <1>3, <1>5, Named, Zenon
       DEF Sound, InOrder, Guarded, Fresh, Holds, Streaming
  <2>2. OneState(s)'
    BY <1>1, <1>2, <1>4, Zenon DEF Sound, Fresh, Streaming, OneState
  <2> QED  BY <2>1, <2>2, Zenon DEF Sound
<1> QED  BY <1>1, <1>4, <1>6, <1>7, <1>8, MoveSafe, Zenon

(* A statement that holds nothing and has given no row is Sound.           *)
LEMMA BlankSound ==
    ASSUME NEW s \in Stmt, calling' # s, s \notin unended',
           ~st'[s].reading, ~st'[s].started, ~st'[s].done, ~st'[s].kept, st'[s].seen = {},
           ~poisoned' => tx' # s /\ active' # s
    PROVE  Sound(s)'
BY Zenon DEF Sound, InOrder, Guarded, Fresh, OneState, Holds, Streaming

LEMMA ResetSafe ==
    ASSUME IInv, NEW s \in Stmt, Reset(s)
    PROVE  IInv'
<1>1. /\ calling = Nobody /\ active' = Cleared(s)
      /\ overlapped' = overlapped \ {s} /\ unended' = unended \ {s}
      /\ UNCHANGED <<open, current, calling, store, work, writes, acked, outdated>>
      /\ current \notin outdated
  BY Zenon DEF Reset, MayStep, MayCall, data, IInv
<1>2. /\ Turns(s)
      /\ ~st'[s].reading /\ ~st'[s].started /\ ~st'[s].done /\ ~st'[s].kept
      /\ st'[s].seen = {}
  <2> DEFINE new == [Free EXCEPT !.state = "live", !.kind = st[s].kind]
  <2>1. st' = [st EXCEPT ![s] = new]
    BY Zenon DEF Reset
  <2>2. TypeOK /\ st[s] \in Statement
    BY Zenon DEF IInv, TypeOK
  <2>3. /\ new \in Statement
        /\ ~new.reading /\ ~new.started /\ ~new.done /\ ~new.kept
        /\ new.seen = {}
    BY <2>2, Zenon DEF Statement, Free
  <2> HIDE DEF new
  <2>4. Turns(s) /\ st'[s] = new
    BY <2>1, <2>2, <2>3, TurnsInto, Zenon
  <2> QED  BY <2>3, <2>4, Zenon
<1>3. Ends(s)
  <2>1. PICK e \in Ended(s) : tx' = e.tx /\ poisoned' = e.poisoned
    BY Zenon DEF Reset
  <2> QED  BY <2>1, EndedEnds, Zenon DEF IInv
<1>4. TypeOK'
  BY <1>1, <1>2, <1>3, Zenon DEF IInv, TypeOK, DataTypes, Turns, Ends, Cleared, NoOwner
<1>5. Moves(s)
  BY <1>1, <1>2, <1>3, Named, Zenon DEF IInv, Data, Moves, Turns, Ends, Cleared
<1>6. Sound(s)'
  <2>1. calling' # s /\ s \notin unended' /\ active' # s /\ (~poisoned' => tx' # s)
    BY <1>1, <1>3, Named, Zenon DEF Ends, Cleared
  <2> QED  BY <1>2, <2>1, BlankSound, Zenon
<1> QED  BY <1>1, <1>4, <1>5, <1>6, MoveSafe, Zenon

LEMMA FreeBlank ==
    /\ Free \in Statement
    /\ ~Free.reading /\ ~Free.started /\ ~Free.done /\ ~Free.kept /\ Free.seen = {}
BY Zenon DEF Free, Statement

LEMMA FinalizeSafe ==
    ASSUME IInv, NEW s \in Stmt, Finalize(s)
    PROVE  IInv'
<1>1. /\ calling = Nobody /\ active' = Cleared(s)
      /\ overlapped' = overlapped \ {s} /\ unended' = unended \ {s}
      /\ st' = [st EXCEPT ![s] = Free]
      /\ current' = IF current = s THEN Nobody ELSE current
      /\ UNCHANGED <<open, calling, store, work, writes, acked>>
      /\ TypeOK /\ current \notin outdated
  BY Zenon DEF Finalize, MayCall, Forget, data, IInv
<1>2. Turns(s) /\ st'[s] = Free
  BY <1>1, FreeBlank, TurnsInto, Zenon
<1>3. PICK e \in Ended(s) :
          /\ tx' = IF e.tx = s THEN "adrift" ELSE e.tx
          /\ poisoned' = e.poisoned
          /\ \/ IF current = s THEN Publish(s) ELSE PublishNothing
             \/ PublishFailure(s)
             \/ PublishNothing
  BY Zenon DEF Finalize
<1>4. /\ outdated' \subseteq Stmt
      /\ current' \notin outdated'
  BY <1>1, <1>3, Named, Zenon DEF Publish, PublishNothing, PublishFailure, TypeOK
<1>5. /\ tx' = tx \/ (tx = s /\ tx' \in {"none", "adrift"})
      /\ poisoned' \in BOOLEAN
      /\ poisoned => poisoned'
      /\ tx' # s
      /\ tx' = "adrift" => poisoned'
  <2>1. CASE tx # s
    <3>1. e = [tx |-> tx, poisoned |-> poisoned, ok |-> TRUE]
      BY <2>1, Zenon DEF Ended
    <3>2. tx' = tx /\ poisoned' = poisoned
      BY <1>3, <2>1, <3>1, Zenon
    <3> QED  BY <1>1, <2>1, <3>2, Zenon DEF IInv, Data, TypeOK
  <2>2. CASE tx = s
    <3>1. CASE e = [tx |-> "none", poisoned |-> poisoned, ok |-> TRUE]
      <4>1. tx' = "none" /\ poisoned' = poisoned
        BY <1>3, <3>1, Named, Zenon
      <4> QED  BY <1>1, <2>2, <4>1, Named, Zenon DEF TypeOK
    <3>2. CASE e \in {[tx |-> "none", poisoned |-> TRUE, ok |-> FALSE],
                      [tx |-> s, poisoned |-> TRUE, ok |-> FALSE]}
      <4>1. tx' \in {"none", "adrift"} /\ poisoned' = TRUE
        BY <1>3, <3>2
      <4> QED  BY <2>2, <4>1, Named, Zenon
    <3> QED  BY <2>2, <3>1, <3>2, Zenon DEF Ended
  <2> QED  BY <2>1, <2>2, Zenon
<1>6. TypeOK'
  BY <1>1, <1>2, <1>4, <1>5, Zenon DEF TypeOK, DataTypes, Turns, Cleared, NoOwner
<1>7. Moves(s)
  BY <1>1, <1>2, <1>5, Named, Zenon DEF Moves, Turns, Cleared
<1>8. Sound(s)'
  <2>1. calling' # s /\ s \notin unended' /\ active' # s
    BY <1>1, Named, Zenon DEF Cleared
  <2> QED  BY <1>2, <1>5, <2>1, FreeBlank, BlankSound, Zenon
<1> QED  BY <1>4, <1>6, <1>7, <1>8, MoveSafe, Zenon

LEMMA FinalizeDetachedSafe ==
    ASSUME IInv, NEW s \in Stmt, FinalizeDetached(s)
    PROVE  IInv'
<1>1. /\ calling = Nobody /\ st[s].state = "detached"
      /\ overlapped' = overlapped \ {s} /\ unended' = unended \ {s}
      /\ st' = [st EXCEPT ![s] = Free]
      /\ current' = IF current = s THEN Nobody ELSE current
      /\ UNCHANGED <<open, active, tx, poisoned, calling, store, work, writes, acked, outdated>>
      /\ TypeOK /\ Sound(s) /\ current \notin outdated
  BY Zenon DEF FinalizeDetached, Forget, data, IInv
<1>2. Turns(s) /\ st'[s] = Free
  BY <1>1, FreeBlank, TurnsInto, Zenon
<1>3. current' \notin outdated'
  BY <1>1, Named, Zenon DEF TypeOK
<1>4. TypeOK'
  BY <1>1, <1>2, Zenon DEF TypeOK, DataTypes, Turns
<1>5. Moves(s)
  BY <1>1, <1>2, Zenon DEF IInv, Data, Moves, Turns
<1>6. Sound(s)'
  <2>1. calling' # s /\ s \notin unended' /\ (~poisoned' => tx' # s /\ active' # s)
    BY <1>1, Named, Zenon DEF Sound, InOrder, Holds, Streaming
  <2> QED  BY <1>2, <2>1, FreeBlank, BlankSound, Zenon
<1> QED  BY <1>3, <1>4, <1>5, <1>6, MoveSafe, Zenon

-----------------------------------------------------------------------------
(* Steps of the connection and of others                                   *)

(* What a command leaves, as the next state.                               *)
Effect ==
    /\ DataTypes' /\ poisoned' \in BOOLEAN
    /\ tx \notin {"none", "user"} => UNCHANGED <<tx, store, work, acked>>
    /\ tx \in {"none", "user"} => tx' \in {"none", "user"}
    /\ acked' \subseteq store'
    /\ tx' = "user" => store' \subseteq work'
    /\ outdated' \subseteq Stmt

LEMMA ExecutesEffect ==
    ASSUME IInv, NEW c \in Command, NEW s \in Stmt \cup {Nobody}, NEW o \in Run(c),
           Executes(c, s, o)
    PROVE  Effect /\ s \notin outdated'
<1>1. Proper(o)
  BY RunProper, Zenon DEF IInv
<1>2. outdated' \subseteq Stmt \ {s}
  BY Named, Zenon DEF Executes, Publish, PublishFailure, IInv, TypeOK
<1> QED  BY <1>1, <1>2, Zenon DEF Executes, Effect, Proper, DataTypes

(* A statement that does not move, in a step that ends no transaction of a *)
(* cursor and changes what is read only if no cursor relies on it, stays   *)
(* Sound.                                                                  *)
LEMMA StillSound ==
    ASSUME NEW u \in Stmt, Sound(u), st'[u] = st[u], calling # u, calling' = calling,
           active' = active, unended' = unended, u \in overlapped => u \in overlapped',
           poisoned => poisoned', tx = u <=> tx' = u,
           \/ View' = View /\ tx' = tx
           \/ tx # u /\ (st[u].reading => u \in overlapped')
    PROVE  Sound(u)'
BY Zenon DEF Sound, InOrder, Guarded, Fresh, OneState, Holds, Streaming

LEMMA ExecuteSafe ==
    ASSUME IInv, NEW c \in Command, Execute(c)
    PROVE  IInv'
<1>1. /\ calling = Nobody /\ active = Nobody /\ ~poisoned /\ current' = Nobody
      /\ UNCHANGED <<st, open, active, calling, overlapped, unended>>
      /\ TypeOK
  BY Zenon DEF Execute, MayCommand, MayCall, Number, IInv
<1>2. Effect
  <2>1. PICK o \in Run(c) : Executes(c, Nobody, o)
    BY Zenon DEF Execute
  <2> QED  BY <2>1, ExecutesEffect, Zenon
<1>3. TypeOK'
  BY <1>1, <1>2, Zenon DEF TypeOK, Effect, NoOwner
<1>4. ASSUME NEW u \in Stmt  PROVE Sound(u)'
  <2>1. Sound(u)
    BY Zenon DEF IInv
  <2>2. \/ View' = View /\ tx' = tx
        \/ tx # u /\ tx' # u /\ (st[u].reading => u \in overlapped')
    <3>1. CASE tx \in {"none", "user"}
      BY <1>1, <1>2, <2>1, <3>1, Named, Zenon DEF Effect, Sound, Guarded
    <3>2. CASE tx \notin {"none", "user"}
      BY <1>2, <3>2, Zenon DEF Effect, View
    <3> QED  BY <3>1, <3>2, Zenon
  <2> QED  BY <1>1, <2>1, <2>2, Named, StillSound, Zenon
<1>5. Data'
  BY <1>1, <1>2, Zenon DEF Data, Effect, IInv
<1>6. (current \notin outdated)'
  BY <1>1, <1>2, Named, Zenon DEF Effect
<1> QED  BY <1>3, <1>4, <1>5, <1>6, Zenon DEF IInv

LEMMA StartCommandSafe ==
    ASSUME IInv, NEW s \in Stmt, StartCommand(s)
    PROVE  IInv'
<1>1. /\ MayStart(s) /\ st[s].kind \in Command
      /\ current' = s /\ overlapped' = OverlapCommand
      /\ UNCHANGED <<open, active, calling, unended>>
      /\ TypeOK
  BY Zenon DEF StartCommand, Number, IInv
<1>2. /\ ~st[s].reading /\ st[s].seen = {} /\ s \notin unended /\ ~st[s].kept
      /\ ~poisoned /\ tx # s /\ active # s /\ tx # "adrift"
      /\ calling = Nobody /\ st[s].state = "live"
  BY <1>1, Startable, Zenon
<1>3. /\ Turns(s)
      /\ st'[s].started /\ st'[s].kept = st[s].kept
      /\ st'[s].reading = st[s].reading /\ st'[s].seen = st[s].seen
  <2> DEFINE new == [st[s] EXCEPT !.started = TRUE, !.done = TRUE]
  <2>1. st' = [st EXCEPT ![s] = new]
    BY Zenon DEF StartCommand
  <2>2. st[s] \in Statement
    BY <1>1, Zenon DEF TypeOK
  <2>3. new \in Statement
    BY <2>2, Assigned, Zenon
  <2>4. /\ new.started /\ new.kept = st[s].kept
        /\ new.reading = st[s].reading /\ new.seen = st[s].seen
    BY <2>2, Zenon DEF Statement
  <2> HIDE DEF new
  <2>5. Turns(s) /\ st'[s] = new
    BY <1>1, <2>1, <2>2, <2>3, TurnsInto, Zenon
  <2> QED  BY <2>4, <2>5, Zenon
<1>4. Effect /\ s \notin outdated'
  <2>1. PICK o \in Run(st[s].kind) : Executes(st[s].kind, s, o)
    BY Zenon DEF StartCommand
  <2> QED  BY <1>1, <2>1, ExecutesEffect, Zenon
<1>5. TypeOK'
  BY <1>1, <1>3, <1>4, Zenon DEF TypeOK, Effect, NoOwner, Turns
<1>6. Sound(s)'
  <2>1. tx' # s
    BY <1>2, <1>4, Named, Zenon DEF Effect
  <2> QED  BY <1>1, <1>2, <1>3, <2>1, Named, Zenon
            DEF Sound, InOrder, Guarded, Fresh, OneState, Holds, Streaming
<1>7. ASSUME NEW u \in Stmt \ {s}  PROVE Sound(u)'
  <2>1. Sound(u) /\ st'[u] = st[u]
    BY <1>3, Zenon DEF IInv, Turns
  <2>2. u \in overlapped => u \in overlapped'
    BY <1>1, Zenon DEF OverlapCommand
  <2>3. \/ View' = View /\ tx' = tx
        \/ tx # u /\ tx' # u /\ (st[u].reading => u \in overlapped')
    <3>1. CASE tx \in {"none", "user"}
      BY <1>1, <1>4, <3>1, Named, Zenon DEF Effect, OverlapCommand, Reading
    <3>2. CASE tx \notin {"none", "user"}
      BY <1>4, <3>2, Zenon DEF Effect, View
    <3> QED  BY <3>1, <3>2, Zenon
  <2> QED  BY <1>1, <1>2, <2>1, <2>2, <2>3, Named, StillSound, Zenon
<1>8. Data'
  BY <1>2, <1>4, Zenon DEF Data, Effect, IInv
<1> QED  BY <1>1, <1>4, <1>5, <1>6, <1>7, <1>8, Zenon DEF IInv

LEMMA PrepareFailsSafe ==
    ASSUME IInv, PrepareFails
    PROVE  IInv'
<1>1. /\ calling = Nobody /\ current' = Nobody /\ outdated' = outdated \ {Nobody}
      /\ UNCHANGED <<st, open, active, calling, store, work, writes, acked, overlapped, unended>>
      /\ TypeOK
  BY Zenon DEF PrepareFails, MayCommand, MayCall, Number, PublishFailure, data, IInv
<1>2. \/ tx' = tx /\ poisoned' = poisoned
      \/ tx = "none" /\ poisoned' = TRUE /\ tx' \in {"none", "adrift"}
  BY Zenon DEF PrepareFails
<1>3. TypeOK'
  BY <1>1, <1>2, Zenon DEF TypeOK, DataTypes, NoOwner
<1>4. ASSUME NEW u \in Stmt  PROVE Sound(u)'
  <2>1. Sound(u) /\ (tx = u <=> tx' = u) /\ View' = View
    BY <1>1, <1>2, Named, Zenon DEF IInv, View
  <2>2. tx' = tx \/ (st[u].reading => u \in overlapped)
    BY <1>2, <2>1, Named, Zenon DEF Sound, Fresh, Streaming
  <2> QED  BY <1>1, <1>2, <2>1, <2>2, Named, StillSound
<1>5. Data' /\ (current \notin outdated)'
  BY <1>1, <1>2, Zenon DEF Data, IInv
<1> QED  BY <1>3, <1>4, <1>5, Zenon DEF IInv

LEMMA CloseSafe ==
    ASSUME IInv, Close
    PROVE  IInv'
<1>1. /\ calling = Nobody
      /\ st' = [s \in Stmt |-> Detached(s)]
      /\ active' = Nobody /\ current' = Nobody
      /\ overlapped' = {} /\ unended' = {}
      /\ UNCHANGED <<calling, store, writes, acked, outdated>>
      /\ TypeOK
  BY Zenon DEF Close, MayCall, IInv
<1>2. \/ open' = FALSE /\ tx' = "none" /\ work' = {} /\ poisoned' = poisoned
      \/ tx = "user" /\ UNCHANGED <<tx, poisoned, open, work>>
      \/ poisoned' = TRUE /\ tx' \in {"none", "adrift"} /\ UNCHANGED <<open, work>>
  BY Zenon DEF Close
<1>3. ASSUME NEW s \in Stmt
      PROVE  /\ Detached(s) \in Statement
             /\ ~Detached(s).reading /\ ~Detached(s).started /\ ~Detached(s).done
             /\ ~Detached(s).kept /\ Detached(s).seen = {}
  BY Zenon DEF Detached, Free, Statement
<1>4. TypeOK'
  BY <1>1, <1>2, <1>3, Zenon DEF TypeOK, DataTypes, NoOwner
<1>5. ASSUME NEW s \in Stmt  PROVE Sound(s)'
  <2>1. st'[s] = Detached(s)
    BY <1>1, Zenon
  <2>2. calling' # s /\ s \notin unended' /\ active' # s /\ tx' # s
    BY <1>1, <1>2, Named, Zenon
  <2> QED  BY <1>3, <2>1, <2>2, BlankSound, Zenon
<1>6. Data' /\ (current \notin outdated)'
  BY <1>1, <1>2, StmtAssumption, Zenon DEF Data, IInv, TypeOK
<1> QED  BY <1>4, <1>5, <1>6, Zenon DEF IInv

LEMMA OtherWriteSafe ==
    ASSUME IInv, OtherWrite
    PROVE  IInv'
<1>1. /\ tx = "none" /\ Reading = {}
      /\ writes' = writes + 1 /\ store' = store \cup {writes + 1}
      /\ UNCHANGED <<st, open, current, active, tx, poisoned, calling, work, acked,
                     outdated, overlapped, unended>>
  BY Zenon DEF OtherWrite, connection, ghosts
<1>2. TypeOK'
  BY <1>1 DEF IInv, TypeOK, DataTypes
<1>3. ASSUME NEW u \in Stmt  PROVE Sound(u)'
  <2>1. Sound(u) /\ tx # u
    BY <1>1, Named, Zenon DEF IInv
  <2>2. Streaming(u) => u \in overlapped
    BY <1>1, <2>1, Named, Zenon DEF Sound, Fresh
  <2>3. st'[u] = st[u] /\ (Streaming(u)' <=> Streaming(u)) /\ tx' # u
    BY <1>1, <2>1, Zenon DEF Streaming
  <2> QED  BY <1>1, <2>1, <2>2, <2>3, Zenon DEF Sound, InOrder, Guarded, Fresh, OneState, Holds
<1>4. Data' /\ (current \notin outdated)'
  BY <1>1, Zenon DEF Data, IInv
<1> QED  BY <1>2, <1>3, <1>4, Zenon DEF IInv

-----------------------------------------------------------------------------
(* The invariant, and what follows                                         *)

LEMMA InitSafe ==
    ASSUME Init
    PROVE  IInv
<1>1. ASSUME NEW s \in Stmt  PROVE st[s] = Free
  BY Zenon DEF Init
<1>2. TypeOK
  BY FreeBlank, Zenon DEF Init, TypeOK, DataTypes, NoOwner
<1>3. ASSUME NEW s \in Stmt  PROVE Sound(s)
  BY <1>1, FreeBlank, Named, Zenon
     DEF Init, Sound, InOrder, Guarded, Fresh, OneState, Holds, Streaming
<1> QED  BY <1>2, <1>3, Zenon DEF Init, IInv, Data

LEMMA StutterSafe ==
    ASSUME IInv, UNCHANGED vars
    PROVE  IInv'
<1>1. UNCHANGED <<st, open, current, active, tx, poisoned, calling, store, work, writes,
                  acked, outdated, overlapped, unended>>
  BY Zenon DEF vars, connection, data, ghosts
<1>2. ASSUME NEW u \in Stmt  PROVE Sound(u)'
  BY <1>1, Zenon DEF IInv, Sound, InOrder, Guarded, Fresh, OneState, Holds, Streaming, View
<1> QED  BY <1>1, <1>2, Zenon DEF IInv, TypeOK, DataTypes, Data

LEMMA StepSafe ==
    ASSUME IInv, Next
    PROVE  IInv'
<1>1. ASSUME NEW s \in Stmt, Step(s)  PROVE IInv'
  BY <1>1, StartStreamSafe, StartRowsSafe, StartFailsSafe, StartCommandSafe, TakeEarlySafe,
     FetchKeptSafe, FetchStreamSafe, FetchFailsSafe, EndKeptSafe, ExhaustSafe, CompleteSafe, Zenon
     DEF Step
<1>2. ASSUME NEW s \in Stmt,
             (\E k \in Kind : Prepare(s, k)) \/ Reset(s) \/ Finalize(s) \/ FinalizeDetached(s)
      PROVE  IInv'
  BY <1>2, PrepareSafe, ResetSafe, FinalizeSafe, FinalizeDetachedSafe, Zenon
<1>3. CASE PrepareFails \/ (\E c \in Command : Execute(c)) \/ Close \/ OtherWrite
  BY <1>3, PrepareFailsSafe, ExecuteSafe, CloseSafe, OtherWriteSafe, Zenon
<1> QED  BY <1>1, <1>2, <1>3, Zenon DEF Next

(* The prepared statements of mylite_execution.c are always where their    *)
(* calls put them: what streams still reads the state it began with, and   *)
(* what is held is held by a statement that will give it back.             *)
THEOREM InductiveInvariant == Spec => []IInv
<1>1. IInv /\ [Next]_vars => IInv'
  BY StepSafe, StutterSafe, Zenon
<1> QED  BY <1>1, InitSafe, PTL DEF Spec

(* No direct command or prepare runs beneath a cursor that still streams,  *)
(* unless a second cursor took its place.                                  *)
THEOREM StreamsStayGuarded == Spec => []StreamIsGuarded
<1>1. IInv => StreamIsGuarded
  BY Zenon DEF IInv, Sound, Guarded, StreamIsGuarded, Reading
<1> QED  BY <1>1, InductiveInvariant, PTL

(* The rows of one execution are those of one state of the data.           *)
THEOREM RowsAreOfOneState == Spec => []RowsOfOneState
<1>1. IInv => RowsOfOneState
  BY Zenon DEF IInv, Sound, OneState, RowsOfOneState
<1> QED  BY <1>1, InductiveInvariant, PTL

(* What the commands acknowledged is in the file.                          *)
THEOREM AcknowledgedStays == Spec => []AckedIsCommitted
<1>1. IInv => AckedIsCommitted
  BY Zenon DEF IInv, Data, AckedIsCommitted
<1> QED  BY <1>1, InductiveInvariant, PTL

(* Between calls SQLite's transaction and the place of the active cursor   *)
(* belong to a stream, unless an end failed.                               *)
THEOREM NothingStaysHeld == Spec => []NothingLeftHeld
<1>1. ASSUME IInv  PROVE NothingLeftHeld
  <2>1. ASSUME NEW s \in Stmt, ~poisoned, calling = Nobody, tx = s \/ active = s
        PROVE  s \in Reading \cup unended
    BY <1>1, <2>1, Named, Zenon DEF IInv, Sound, Holds, Streaming, Reading
  <2> QED  BY <1>1, <2>1, Zenon DEF IInv, TypeOK, Data, NoOwner, NothingLeftHeld
<1> QED  BY <1>1, InductiveInvariant, PTL

-----------------------------------------------------------------------------
(* The order of completions                                                *)

(* A step shows a success only of the current statement, or of the one it  *)
(* makes current.                                                          *)
Announces == shown' = shown \/ ~shown'.ok \/ shown'.by \in {current, current'}

LEMMA PublishAnnounces ==
    ASSUME NEW s, \/ Publish(s) /\ (current = s \/ current' = s)
                  \/ PublishFailure(s)
                  \/ UNCHANGED shown
    PROVE  Announces
BY DEF Publish, PublishFailure, Announces

LEMMA StepAnnounces ==
    ASSUME NEW s \in Stmt, Step(s)
    PROVE  Announces
<1>1. CASE StartStream(s) \/ TakeEarly(s) \/ FetchKept(s) \/ FetchStream(s) \/ Exhaust(s)
  <2>1. UNCHANGED shown
    BY <1>1, Zenon DEF StartStream, TakeEarly, FetchKept, FetchStream, Exhaust
  <2> QED  BY <2>1, Zenon DEF Announces
<1>2. CASE StartRows(s)
  BY <1>2, PublishAnnounces, Zenon DEF StartRows, Number
<1>3. CASE StartFails(s) \/ FetchFails(s)
  BY <1>3, PublishAnnounces, Zenon DEF StartFails, FetchFails
<1>4. CASE StartCommand(s)
  BY <1>4, PublishAnnounces, Zenon DEF StartCommand, Executes, Number
<1>5. ASSUME Finish(s)  PROVE Announces
  BY <1>5, PublishAnnounces, Zenon DEF Finish, PublishNothing
<1>6. CASE EndKept(s) \/ Complete(s)
  <2>1. Finish(s) \/ UNCHANGED shown
    BY <1>6, Zenon DEF EndKept, Complete
  <2> QED  BY <2>1, <1>5, Zenon DEF Announces
<1> QED  BY <1>1, <1>2, <1>3, <1>4, <1>6, Zenon DEF Step

LEMMA NextAnnounces ==
    ASSUME [Next]_vars
    PROVE  Announces
<1>1. ASSUME NEW s \in Stmt, Finalize(s)  PROVE Announces
  BY <1>1, PublishAnnounces, Zenon DEF Finalize, PublishNothing
<1>2. ASSUME NEW c \in Command, Execute(c)  PROVE Announces
  BY <1>2, PublishAnnounces, Zenon DEF Execute, Executes, Number
<1>3. CASE PrepareFails
  BY <1>3, PublishAnnounces, Zenon DEF PrepareFails
<1>4. ASSUME \/ \E s \in Stmt : \/ \E k \in Kind : Prepare(s, k)
                                \/ Reset(s) \/ FinalizeDetached(s)
             \/ Close \/ OtherWrite \/ UNCHANGED vars
      PROVE  Announces
  <2>1. UNCHANGED shown
    BY <1>4, Zenon DEF Prepare, Reset, FinalizeDetached, Close, OtherWrite, vars, connection
  <2> QED  BY <2>1, Zenon DEF Announces
<1> QED  BY <1>1, <1>2, <1>3, <1>4, StepAnnounces, Zenon DEF Next

(* ROW_COUNT, FOUND_ROWS and the warnings of the session are never those   *)
(* of a statement numbered before the one they were last of.               *)
THEOREM CompletionsStayInOrder == Spec => CompletionsInOrder
<1>1. ASSUME IInv, [Next]_vars
      PROVE  shown' # shown /\ shown'.ok /\ shown'.by \in outdated =>
                 current # shown'.by /\ current' = shown'.by
  <2>1. current \notin outdated
    BY <1>1, Zenon DEF IInv
  <2> QED  BY <1>1, <2>1, NextAnnounces, Zenon DEF Announces
<1> QED  BY <1>1, InductiveInvariant, PTL DEF Spec, CompletionsInOrder
=============================================================================
