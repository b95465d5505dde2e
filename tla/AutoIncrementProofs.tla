------------------------- MODULE AutoIncrementProofs -------------------------
(***************************************************************************)
(* The AUTO_INCREMENT counter is safe for any connections, increments and  *)
(* offsets, any column range, and any number of statements, savepoints,    *)
(* deaths and failing reconciliations.                                     *)
(***************************************************************************)
EXTENDS AutoIncrement, WellFoundedInduction, TLAPS

Table == [next : Nat, rows : SUBSET Value]

Phase == {"idle", "transaction", "rollback", "close", "stuck"}

(* The sessions for which SQLite has a transaction open. *)
Locking == {"transaction", "stuck"}

TypeOK ==
    /\ file \in Table /\ work \in Table
    /\ lock \in Conn \cup {NoConn}
    /\ mark \in [Conn -> Table]
    /\ pc \in [Conn -> Phase]
    /\ high \in [Conn -> Nat]
    /\ insertId \in [Conn -> Nat]
    /\ pending \in [Conn -> SUBSET Value]
    /\ given \in [Conn -> SUBSET Value]
    /\ bypassed \in BOOLEAN

(* The write lock belongs to the session in a transaction or stuck in one, *)
(* which alone has uncommitted changes; savepoints are a transaction's.    *)
OneWriter ==
    /\ lock = NoConn => work = file
    /\ \A c \in Conn : pc[c] \in Locking <=> lock = c
    /\ \A c \in Conn : pc[c] # "transaction" => mark[c] = NoMark

(* The counter n is past the rows, or at the end of the column's range.    *)
Above(n, rows) == \A v \in rows : v < n \/ n >= MaxValue

(* Not only the committed counter: what a COMMIT, and a COMMIT after       *)
(* ROLLBACK TO SAVEPOINT, would make of it is past the rows too.           *)
RowsBelow ==
    ~bypassed =>
        /\ Above(file.next, file.rows)
        /\ \A c \in Conn :
              /\ lock = c => Above(LockedNext(c, work), work.rows)
              /\ Above(LockedNext(c, mark[c]), mark[c].rows)

(* Once c commits w, the counter has passed what the marks do not cover.   *)
Covers(c, w) ==
    \A d \in Conn : \A v \in given[d] : v \in pending[d] \/ v < LockedNext(c, w)

GivenCovered ==
    /\ \A d \in Conn : \A v \in pending[d] : v < high[d]
    /\ \A d \in Conn : \A v \in given[d] : v \in pending[d] \/ v < file.next
    /\ \A c \in Conn :
          /\ lock = c => Covers(c, work)
          /\ mark[c] # NoMark => Covers(c, mark[c])

(* The inductive invariant. *)
IInv ==
    /\ TypeOK
    /\ OneWriter
    /\ RowsBelow
    /\ GivenCovered
    /\ OwnValuesFresh

-----------------------------------------------------------------------------

USE NoHolderAssumption

LEMMA NoMarkEmpty == NoMark.rows = {}
BY Zenon DEF NoMark

LEMMA LargerBound ==
    ASSUME NEW a \in Nat, NEW b \in Nat
    PROVE  Larger(a, b) \in Nat /\ Larger(a, b) >= a /\ Larger(a, b) >= b
BY DEF Larger

(* A counter that grows stays past the rows. *)
LEMMA AboveGrows ==
    ASSUME NEW n \in Nat, NEW m \in Nat, m >= n, NEW rows \in SUBSET Value, Above(n, rows)
    PROVE  Above(m, rows)
<1>1. MaxValue \in Nat
  BY AutoIncrementAssumption, Zenon
<1>2. ASSUME NEW v \in rows  PROVE v < m \/ m >= MaxValue
  <2>1. v \in Nat /\ (v < n \/ n >= MaxValue)
    BY DEF Above, Value
  <2> QED  BY <1>1, <2>1
<1> QED  BY <1>2, Zenon DEF Above

(* Rounding a number up to a multiple of the increment. *)
LEMMA RoundedUp ==
    ASSUME NEW x \in Nat, NEW k \in Nat \ {0}
    PROVE  /\ ((x + k - 1) \div k) * k \in Nat
           /\ ((x + k - 1) \div k) * k >= x
<1> DEFINE q == (x + k - 1) \div k
<1>1. q \in Nat /\ k * q <= x + k - 1 /\ x + k - 1 < k * q + k
  OBVIOUS
<1>2. k * q \in Nat /\ k * q = q * k
  BY <1>1
<1> QED  BY <1>1, <1>2

(* generated_auto_increment_value_for_lower_bound never returns a value    *)
(* below the bound.                                                        *)
LEMMA GeneratedFromLowerOn ==
    ASSUME NEW c \in Conn, NEW lower \in Nat
    PROVE  GeneratedValue(c, lower) \in Nat \ {0} /\ GeneratedValue(c, lower) >= lower
<1>1. Offset[c] \in Nat \ {0} /\ Increment[c] \in Nat \ {0}
  BY AutoIncrementAssumption, Zenon
<1>2. CASE lower <= Offset[c]
  BY <1>1, <1>2, Zenon DEF GeneratedValue
<1>3. CASE lower > Offset[c]
  <2> DEFINE x == lower - Offset[c]
             r == ((x + Increment[c] - 1) \div Increment[c]) * Increment[c]
  <2>1. x \in Nat
    BY <1>1, <1>3
  <2>2. r \in Nat /\ r >= x
    BY <1>1, <2>1, RoundedUp, Zenon
  <2>3. GeneratedValue(c, lower) = Offset[c] + r
    BY <1>1, <1>3 DEF GeneratedValue
  <2> HIDE DEF r
  <2> QED  BY <1>1, <2>2, <2>3
<1> QED  BY <1>1, <1>2, <1>3

(* After a generated value the counter is past it, unless it is the last.  *)
LEMMA AfterGenerated ==
    ASSUME NEW c \in Conn, NEW v \in Value
    PROVE  LET after == NextAfterGenerated(c, v)
           IN  after \in Nat /\ after >= v /\ (v < after \/ after = MaxValue)
<1>1. Increment[c] \in Nat \ {0}
  BY AutoIncrementAssumption, Zenon
<1> QED  BY <1>1, AutoIncrementAssumption DEF NextAfterGenerated, Value

(* An explicit value and an UPDATE never take the counter back.            *)
LEMMA AfterExplicit ==
    ASSUME NEW current \in Nat, NEW v \in Value
    PROVE  LET after == NextAfterExplicit(current, v)
           IN  /\ after \in Nat /\ after >= current
               /\ v < after \/ after >= MaxValue
BY DEF NextAfterExplicit, Value

LEMMA AfterUpdate ==
    ASSUME NEW c \in Conn, NEW current \in Nat, NEW v \in Value
    PROVE  LET after == NextAfterUpdate(c, current, v)
           IN  /\ after \in Nat /\ after >= current
               /\ v < after \/ after >= MaxValue
<1>1. GeneratedValue(c, v + 1) \in Nat /\ GeneratedValue(c, v + 1) >= v + 1
  BY GeneratedFromLowerOn DEF Value
<1> QED  BY <1>1 DEF NextAfterUpdate, Value

(* A nonempty set of values has a largest one. *)
LEMMA MaxIsLargest ==
    ASSUME NEW rows \in SUBSET Value, rows # {}
    PROVE  Max(rows) \in rows /\ \A v \in rows : v <= Max(rows)
<1> DEFINE R == {p \in Nat \X Nat : p[1] < p[2]}
           T == {MaxValue - v : v \in rows}
<1>1. IsWellFoundedOn(R, Nat)
  BY NatLessThanWellFounded, Zenon DEF OpToRel
<1>2. T \subseteq Nat /\ T # {}
  <2>1. \A v \in rows : MaxValue - v \in Nat
    BY AutoIncrementAssumption DEF Value
  <2> QED  BY <2>1, Zenon
<1>3. PICK x \in T : \A y \in T : ~ (<<y, x>> \in R)
  BY <1>1, <1>2, WFMin, Zenon
<1>4. PICK m \in rows : x = MaxValue - m
  BY Zenon
<1>5. \A v \in rows : v <= m
  <2> SUFFICES ASSUME NEW v \in rows PROVE v <= m
    BY Zenon
  <2>1. MaxValue - v \in T /\ MaxValue - v \in Nat /\ x \in Nat
    BY <1>2, Zenon
  <2>2. ~ (MaxValue - v < x)
    BY <1>3, <2>1, Zenon
  <2> QED  BY <1>4, <2>1, <2>2, AutoIncrementAssumption DEF Value
<1> QED  BY <1>5, Zenon DEF Max, Value

-----------------------------------------------------------------------------

(* The table is empty and nobody is connected. *)
LEMMA InitSafe == Init => IInv
<1> SUFFICES ASSUME Init PROVE IInv
  BY Zenon
<1> USE DEF Init
<1>1. TypeOK
  BY Zenon DEF TypeOK, Table, NoMark, Phase
<1>2. OneWriter
  BY Zenon DEF OneWriter, Locking
<1>3. RowsBelow
  BY Zenon DEF RowsBelow, Above, NoMark
<1>4. GivenCovered
  BY Zenon DEF GivenCovered, Covers
<1> QED  BY <1>1, <1>2, <1>3, <1>4, Zenon DEF IInv, OwnValuesFresh

(* A connection that may write sees a table; in a transaction its own.     *)
LEMMA ViewOfWriter ==
    ASSUME TypeOK, OneWriter, NEW c \in Conn, CanWrite(c)
    PROVE  /\ View(c) \in Table
           /\ pc[c] = "transaction" => View(c) = work /\ lock = c
           /\ pc[c] # "transaction" => View(c) = file /\ lock = NoConn /\ pc[c] = "idle"
BY Zenon DEF TypeOK, OneWriter, CanWrite, View, Locking

(* Storing rows that the new counter, or the old one, is past.             *)
LEMMA StoreRows ==
    ASSUME IInv, NEW c \in Conn, CanWrite(c), NEW rows \in SUBSET Value,
           NEW before \in Nat, NEW after \in Nat, after >= before,
           \A v \in rows : v \in View(c).rows \/ v < after \/ after >= MaxValue,
           Store(c, rows, before, after)
    PROVE  /\ file' \in Table /\ work' \in Table /\ high' \in [Conn -> Nat]
           /\ bypassed' \in BOOLEAN
           /\ OneWriter'
           /\ RowsBelow'
<1> USE DEF IInv
<1>1. /\ View(c) \in Table
      /\ pc[c] = "transaction" => View(c) = work /\ lock = c
      /\ pc[c] # "transaction" => View(c) = file /\ lock = NoConn /\ pc[c] = "idle"
  BY ViewOfWriter, Zenon
<1>2. Written(View(c), rows, before, after) \in Table
  BY <1>1, Zenon DEF Written, Table
<1>3. high[c] \in Nat /\ (pc[c] = "transaction" => high'[c] \in Nat /\ high'[c] >= high[c])
  BY <1>1 DEF TypeOK, Store, Larger
<1>4. file' \in Table /\ work' \in Table /\ high' \in [Conn -> Nat] /\ bypassed' \in BOOLEAN
  BY <1>1, <1>2, <1>3, Zenon DEF TypeOK, Store, Larger
<1>5. OneWriter'
  BY <1>1, Zenon DEF OneWriter, Store
<1>6. ASSUME ~bypassed'
      PROVE  /\ ~bypassed
             /\ before = LockedNext(c, View(c))
             /\ pc[c] = "transaction" \/ before <= View(c).next \/ after # before
  <2>1. ~bypassed /\ ~Bypasses(c, before, after)
    BY <1>6, Zenon DEF Store
  <2> QED  BY <1>1, <2>1, <1>3 DEF Bypasses, Table
<1>7. ASSUME pc[c] = "transaction", ~bypassed' PROVE RowsBelow'
  <2>1. work' = Written(work, rows, before, after) /\ file' = file /\ UNCHANGED <<lock, mark, pc>>
    BY <1>7, Zenon DEF Store
  <2>2. high'[c] = IF after # before THEN Larger(high[c], after) ELSE high[c]
    BY <1>7, Zenon DEF Store, TypeOK
  <2>3. \A d \in Conn \ {c} : high'[d] = high[d]
    BY <1>7, Zenon DEF Store, TypeOK
  <2>4. Above(LockedNext(c, work), work.rows) /\ Above(LockedNext(c, mark[c]), mark[c].rows)
    BY <1>1, <1>6, <1>7, Zenon DEF RowsBelow
  <2>5. LockedNext(c, work)' >= LockedNext(c, work) /\ LockedNext(c, work)' >= after
    BY <1>1, <1>3, <1>6, <1>7, <2>1, <2>2 DEF LockedNext, Larger, Written, TypeOK, Table
  <2>6. Above(LockedNext(c, work), work.rows)'
    <3>1. work'.rows = rows
      BY <2>1, Zenon DEF Written
    <3>2. after \in Nat /\ LockedNext(c, work)' \in Nat /\ LockedNext(c, work) \in Nat
      BY <1>1, <1>3, <1>4, <1>7, Zenon DEF LockedNext, Larger, Table, TypeOK
    <3>3. ASSUME NEW v \in rows
          PROVE  v < LockedNext(c, work)' \/ LockedNext(c, work)' >= MaxValue
      <4>1. v \in work.rows \/ v < after \/ after >= MaxValue
        BY <1>1, <1>7, Zenon
      <4>2. v \in work.rows => v < LockedNext(c, work) \/ LockedNext(c, work) >= MaxValue
        BY <2>4, Zenon DEF Above
      <4>3. v \in Nat
        BY DEF Value
      <4> HIDE DEF IInv
      <4> QED  BY <2>5, <3>2, <4>1, <4>2, <4>3, AutoIncrementAssumption
    <3> QED  BY <3>1, <3>3, Zenon DEF Above
  <2>7. Above(LockedNext(c, mark[c]), mark[c].rows)'
    <3>1. mark[c] \in Table /\ mark' = mark
      BY <2>1, Zenon DEF TypeOK
    <3> HIDE DEF IInv
    <3> QED  BY <1>3, <1>7, <2>4, <3>1, AutoIncrementAssumption DEF Above, Value, LockedNext, Larger, Table
  <2>8. \A d \in Conn \ {c} : lock # d /\ mark'[d] = mark[d] /\ Above(LockedNext(d, mark[d]), mark[d].rows)'
    BY <1>1, <1>6, <1>7, <2>1, <2>3, Zenon DEF RowsBelow, LockedNext
  <2> QED  BY <1>6, <2>1, <2>6, <2>7, <2>8, Zenon DEF RowsBelow
<1>8. ASSUME pc[c] # "transaction", ~bypassed' PROVE RowsBelow'
  <2>1. file' = Written(file, rows, before, after) /\ UNCHANGED <<lock, mark, pc, high>>
    BY <1>1, <1>8, Zenon DEF Store
  <2>2. Above(file.next, file.rows)
    BY <1>6, <1>8, Zenon DEF RowsBelow
  <2>3. file'.next >= file.next /\ file'.next >= after
    BY <1>1, <1>3, <1>6, <1>8, <2>1 DEF LockedNext, Larger, Written, TypeOK, Table
  <2>4. Above(file.next, file.rows)'
    <3>1. file'.rows = rows
      BY <2>1, Zenon DEF Written
    <3>2. after \in Nat /\ file'.next \in Nat /\ file.next \in Nat
      BY <1>4, Zenon DEF Table, TypeOK
    <3>3. ASSUME NEW v \in rows
          PROVE  v < file'.next \/ file'.next >= MaxValue
      <4>1. v \in file.rows \/ v < after \/ after >= MaxValue
        BY <1>1, <1>8, Zenon
      <4>2. v \in file.rows => v < file.next \/ file.next >= MaxValue
        BY <2>2, Zenon DEF Above
      <4>3. v \in Nat
        BY DEF Value
      <4> HIDE DEF IInv
      <4> QED  BY <2>3, <3>2, <4>1, <4>2, <4>3, AutoIncrementAssumption
    <3> QED  BY <3>1, <3>3, Zenon DEF Above
  <2> QED  BY <1>1, <1>6, <1>8, <2>1, <2>4, Zenon DEF RowsBelow, LockedNext
<1>9. RowsBelow'
  <2>1. ~bypassed' => RowsBelow'
    BY <1>7, <1>8, Zenon
  <2> QED  BY <2>1, Zenon DEF RowsBelow
<1> QED  BY <1>4, <1>5, <1>9, Zenon

(* Whatever a statement leaves as given is covered by a mark, or was       *)
(* covered by the counter and still is, or is new and below the counter.   *)
LEMMA StoreCovers ==
    ASSUME IInv, NEW c \in Conn, CanWrite(c), NEW rows \in SUBSET Value,
           NEW before \in Nat, NEW after \in Nat, after >= before,
           Store(c, rows, before, after),
           \A d \in Conn : \A v \in pending'[d] :
               v \in pending[d] \/ (pc[c] = "transaction" /\ d = c /\ v < after /\ after # before),
           \A d \in Conn : pending[d] \subseteq pending'[d],
           pending' \in [Conn -> SUBSET Value],
           \A d \in Conn : \A v \in given'[d] :
               \/ v \in pending'[d]
               \/ v \in given[d] /\ (v < after \/ after = before \/ after >= View(c).next)
               \/ pc[c] # "transaction" /\ v < after /\ after # before,
           given' \in [Conn -> SUBSET Value]
    PROVE  GivenCovered'
<1>1. /\ View(c) \in Table
      /\ pc[c] = "transaction" => View(c) = work /\ lock = c
      /\ pc[c] # "transaction" => View(c) = file /\ lock = NoConn /\ pc[c] = "idle"
  BY ViewOfWriter, Zenon DEF IInv
<1>2. file' \in Table /\ work' \in Table /\ high' \in [Conn -> Nat]
  <2>1. Written(View(c), rows, before, after) \in Table
    BY <1>1, Zenon DEF Written, Table
  <2> QED  BY <1>1, <2>1 DEF IInv, TypeOK, Store, Larger
<1>3. file.next \in Nat /\ work.next \in Nat /\ high \in [Conn -> Nat]
  BY Zenon DEF IInv, TypeOK, Table
<1>4. \A d \in Conn : \A v \in pending'[d] : v < high'[d]
  <2> SUFFICES ASSUME NEW d \in Conn, NEW v \in pending'[d] PROVE v < high'[d]
    BY Zenon
  <2>1. v \in Nat
    BY DEF Value
  <2>2. high'[d] >= high[d]
    BY <1>3 DEF Store, Larger
  <2>3. CASE v \in pending[d]
    BY <1>2, <1>3, <2>1, <2>2, <2>3 DEF IInv, GivenCovered
  <2>4. CASE pc[c] = "transaction" /\ d = c /\ v < after /\ after # before
    BY <1>3, <2>1, <2>4 DEF Store, Larger
  <2> QED  BY <2>3, <2>4, Zenon
<1>5. CASE pc[c] = "transaction"
  <2>1. work' = Written(work, rows, before, after) /\ file' = file /\ UNCHANGED <<lock, mark, pc>>
    BY <1>5, Zenon DEF Store
  <2>2. high'[c] = (IF after # before THEN Larger(high[c], after) ELSE high[c]) /\ high'[c] >= high[c]
    BY <1>3, <1>5 DEF Store, Larger
  <2>3. \A d \in Conn : \A v \in given'[d] :
            v \in pending'[d] \/ (v \in given[d] /\ (v < after \/ after = before \/ after >= work.next))
    BY <1>1, <1>5, Zenon
  <2>4. \A d \in Conn : \A v \in given'[d] : v \in pending'[d] \/ v < file'.next
    BY <2>1, <2>3, Zenon DEF IInv, GivenCovered
  <2>5. Covers(c, work)'
    <3> SUFFICES ASSUME NEW d \in Conn, NEW v \in given'[d], v \notin pending'[d]
                 PROVE  v < LockedNext(c, work)'
      BY Zenon DEF Covers
    <3>1. v \in Nat
      BY DEF Value
    <3>2. v \in given[d] /\ v \notin pending[d] /\ (v < after \/ after = before \/ after >= work.next)
      BY <2>3, Zenon
    <3>3. v < LockedNext(c, work)
      BY <1>1, <1>5, <3>2, Zenon DEF IInv, GivenCovered, Covers
    <3>4. work'.next = IF after # before THEN after ELSE work.next
      BY <2>1, Zenon DEF Written
    <3>5. v < work.next \/ v < high[c]
      BY <3>3, Zenon DEF LockedNext, Larger
    <3>6. v < work'.next \/ v < high'[c]
      <4>1. CASE v < high[c]
        BY <1>2, <1>3, <2>2, <3>1, <4>1
      <4>2. CASE v < work.next
        BY <1>3, <3>1, <3>2, <3>4, <4>2
      <4> QED  BY <3>5, <4>1, <4>2, Zenon
    <3>7. work'.next \in Nat /\ high'[c] \in Nat
      BY <1>2, Zenon DEF Table
    <3>8. /\ LockedNext(c, work)' \in Nat
          /\ LockedNext(c, work)' >= work'.next /\ LockedNext(c, work)' >= high'[c]
      BY <3>7, LargerBound, Zenon DEF LockedNext
    <3> QED  BY <3>1, <3>6, <3>7, <3>8
  <2>6. mark[c] # NoMark => Covers(c, mark[c])'
    <3> SUFFICES ASSUME mark[c] # NoMark, NEW d \in Conn, NEW v \in given'[d], v \notin pending'[d]
                 PROVE  v < LockedNext(c, mark[c])'
      BY Zenon DEF Covers
    <3>1. v \in Nat /\ mark[c].next \in Nat /\ mark'[c] = mark[c]
      BY <2>1 DEF IInv, TypeOK, Table, Value
    <3>2. v \in given[d] /\ v \notin pending[d]
      BY <2>3, Zenon
    <3>3. v < LockedNext(c, mark[c])
      BY <3>2, Zenon DEF IInv, GivenCovered, Covers
    <3> QED  BY <1>2, <1>3, <2>2, <3>1, <3>3 DEF LockedNext, Larger
  <2>7. \A d \in Conn \ {c} : lock' # d /\ mark'[d] = NoMark
    BY <1>1, <1>5, <2>1, Zenon DEF IInv, OneWriter
  <2> QED  BY <1>4, <2>1, <2>4, <2>5, <2>6, <2>7, Zenon DEF GivenCovered
<1>6. CASE pc[c] # "transaction"
  <2>1. file' = Written(file, rows, before, after) /\ UNCHANGED <<lock, mark, pc, high>>
    BY <1>1, <1>6, Zenon DEF Store
  <2>2. \A d \in Conn : \A v \in given'[d] : v \in pending'[d] \/ v < file'.next
    <3> SUFFICES ASSUME NEW d \in Conn, NEW v \in given'[d], v \notin pending'[d]
                 PROVE  v < file'.next
      BY Zenon
    <3>1. v \in Nat
      BY DEF Value
    <3>2. \/ v \in given[d] /\ (v < after \/ after = before \/ after >= file.next)
          \/ v < after /\ after # before
      BY <1>1, <1>6, Zenon
    <3>3. v \in given[d] => v < file.next
      BY Zenon DEF IInv, GivenCovered
    <3>4. file'.next = IF after # before THEN after ELSE file.next
      BY <2>1, Zenon DEF Written
    <3>5. CASE after # before
      <4>1. v < after \/ (v < file.next /\ after >= file.next)
        BY <3>2, <3>3, <3>5, Zenon
      <4> QED  BY <1>3, <3>1, <3>4, <3>5, <4>1
    <3>6. CASE after = before
      BY <3>2, <3>3, <3>4, <3>6, Zenon
    <3> QED  BY <3>5, <3>6, Zenon
  <2>3. \A d \in Conn : lock' # d /\ mark'[d] = NoMark
    BY <1>1, <1>6, <2>1, Zenon DEF IInv, OneWriter, Locking
  <2> QED  BY <1>4, <2>2, <2>3, Zenon DEF GivenCovered
<1> QED  BY <1>5, <1>6, Zenon

-----------------------------------------------------------------------------

(* One lemma per action. *)

LEMMA StartsFromNumber ==
    ASSUME IInv, NEW c \in Conn, CanWrite(c)
    PROVE  /\ LockedNext(c, View(c)) \in Nat /\ InsertNext(c) \in Nat
           /\ View(c) \in Table
<1>1. View(c) \in Table
  BY ViewOfWriter, Zenon DEF IInv
<1> QED  BY <1>1, Zenon DEF IInv, TypeOK, LockedNext, InsertNext, Larger, Table

LEMMA KeptGiven ==
    ASSUME IInv, NEW c \in Conn, CanWrite(c), NEW before \in Nat, NEW after \in Nat
    PROVE  /\ GivenAfter(c, before, after) \in [Conn -> SUBSET Value]
           /\ \A d \in Conn : \A v \in GivenAfter(c, before, after)[d] :
                 /\ v \in given[d]
                 /\ v \in pending[d] \/ v < after \/ after = before \/ after >= View(c).next
<1>1. View(c).next \in Nat
  BY StartsFromNumber, Zenon DEF Table
<1>2. StillGiven(after) \in [Conn -> SUBSET Value] /\ given \in [Conn -> SUBSET Value]
  BY Zenon DEF IInv, TypeOK, StillGiven
<1>3. CASE after # before /\ after < View(c).next
  BY <1>2, <1>3, Zenon DEF GivenAfter, StillGiven
<1>4. CASE ~(after # before /\ after < View(c).next)
  BY <1>1, <1>2, <1>4 DEF GivenAfter
<1> QED  BY <1>3, <1>4, Zenon

(* What an action that stores rows leaves alone. *)
LEMMA StoreTypes ==
    ASSUME IInv, NEW c \in Conn, NEW rows, NEW before, NEW after,
           Store(c, rows, before, after),
           file' \in Table /\ work' \in Table /\ high' \in [Conn -> Nat],
           bypassed' \in BOOLEAN,
           insertId' \in [Conn -> Nat],
           pending' \in [Conn -> SUBSET Value],
           given' \in [Conn -> SUBSET Value]
    PROVE  TypeOK'
BY Zenon DEF IInv, TypeOK, Store

(* An INSERT that generates v, whatever else it does to the rows. *)
LEMMA GeneratesSafe ==
    ASSUME IInv, NEW c \in Conn, NEW v \in Value, NEW rows \in SUBSET Value,
           \A w \in rows : w \in View(c).rows \/ w = v,
           Generates(c, v, rows), insertId' \in [Conn -> Nat]
    PROVE  IInv'
<1> DEFINE before == InsertNext(c)
           after == NextAfterGenerated(c, v)
           kept == GivenAfter(c, before, after)
<1>1. /\ CanWrite(c) /\ v = GeneratedValue(c, before)
      /\ Store(c, rows, before, after)
  BY Zenon DEF Generates
<1>2. \/ (insertId[c] # 0 \/ v = MaxValue) /\ given' = kept /\ UNCHANGED <<pending, reused>>
      \/ /\ insertId[c] = 0 /\ v # MaxValue
         /\ given' = [kept EXCEPT ![c] = @ \cup {v}]
         /\ reused' = IF v \in given[c] THEN reused \cup {c} ELSE reused
         /\ pending' = IF pc[c] = "transaction"
                       THEN [pending EXCEPT ![c] = @ \cup {v}] ELSE pending
  BY Zenon DEF Generates
<1>3. before \in Nat /\ LockedNext(c, View(c)) \in Nat /\ View(c) \in Table
  BY <1>1, StartsFromNumber, Zenon
<1>4. v \in Value /\ v >= before
  <2> HIDE DEF before
  <2> QED  BY <1>1, <1>3, GeneratedFromLowerOn, Zenon
<1>5. after \in Nat /\ after >= v /\ (v < after \/ after = MaxValue)
  BY AfterGenerated, Zenon
<1>6. v \in Nat /\ after >= before
  <2> HIDE DEF before, after
  <2> QED  BY <1>3, <1>4, <1>5 DEF Value
<1>7. MaxValue \in Nat
  BY AutoIncrementAssumption, Zenon
<1>8. \A w \in rows : w \in View(c).rows \/ w < after \/ after >= MaxValue
  <2> HIDE DEF after
  <2> QED  BY <1>5, <1>7
<1>9. v # MaxValue => v < after /\ after # before
  <2> HIDE DEF before, after
  <2> QED  BY <1>3, <1>4, <1>5, <1>6 DEF Value
<1>10. /\ kept \in [Conn -> SUBSET Value]
       /\ \A d \in Conn : \A w \in kept[d] :
             w \in given[d] /\ (w \in pending[d] \/ w < after \/ after = before \/ after >= View(c).next)
  <2> HIDE DEF before, after
  <2> QED  BY <1>1, <1>3, <1>5, KeptGiven, Zenon
<1>11. View(c).next \in Nat /\ high[c] \in Nat
  BY <1>3, Zenon DEF Table, IInv, TypeOK
<1> HIDE DEF before, after, kept
<1>12. /\ file' \in Table /\ work' \in Table /\ high' \in [Conn -> Nat]
       /\ bypassed' \in BOOLEAN
       /\ OneWriter'
       /\ RowsBelow'
  BY <1>1, <1>3, <1>5, <1>6, <1>8, StoreRows, Zenon
<1>13. /\ pending' \in [Conn -> SUBSET Value] /\ given' \in [Conn -> SUBSET Value]
  <2>1. pending \in [Conn -> SUBSET Value]
    BY Zenon DEF IInv, TypeOK
  <2>2. pending' \in [Conn -> SUBSET Value]
    BY <1>2, <1>4, <2>1
  <2>3. given' \in [Conn -> SUBSET Value]
    <3>1. kept \in [Conn -> SUBSET Value] /\ kept[c] \cup {v} \in SUBSET Value
      BY <1>4, <1>10, Zenon
    <3>2. given' = kept \/ given' = [kept EXCEPT ![c] = kept[c] \cup {v}]
      BY <1>2, Zenon
    <3> QED  BY <3>1, <3>2, Zenon
  <2> QED  BY <2>2, <2>3, Zenon
<1>14. TypeOK'
  BY <1>1, <1>12, <1>13, StoreTypes, Zenon
<1>15. /\ \A d \in Conn : pending[d] \subseteq pending'[d]
       /\ \A d \in Conn : \A w \in pending'[d] :
             w \in pending[d] \/ (pc[c] = "transaction" /\ d = c /\ w < after /\ after # before)
  BY <1>2, <1>9 DEF IInv, TypeOK
<1>16. \A d \in Conn : \A w \in given'[d] :
           \/ w \in pending'[d]
           \/ w \in given[d] /\ (w < after \/ after = before \/ after >= View(c).next)
           \/ pc[c] # "transaction" /\ w < after /\ after # before
  <2> SUFFICES ASSUME NEW d \in Conn, NEW w \in given'[d], w \notin pending'[d]
               PROVE  \/ w \in given[d] /\ (w < after \/ after = before \/ after >= View(c).next)
                      \/ pc[c] # "transaction" /\ w < after /\ after # before
    BY Zenon
  <2>1. w \notin pending[d]
    BY <1>15, Zenon
  <2>2. CASE w \in kept[d]
    BY <1>10, <2>1, <2>2, Zenon
  <2>3. CASE w \notin kept[d]
    <3>1. d = c /\ w = v /\ v # MaxValue /\ pc[c] # "transaction"
      BY <1>2, <1>10, <2>3 DEF IInv, TypeOK
    <3> QED  BY <1>9, <3>1, Zenon
  <2> QED  BY <2>2, <2>3, Zenon
<1>17. GivenCovered'
  BY <1>1, <1>3, <1>5, <1>6, <1>13, <1>15, <1>16, StoreCovers, Zenon
<1>18. insertId[c] = 0 /\ v # MaxValue => v \notin given[c]
  <2> SUFFICES ASSUME insertId[c] = 0, v \in given[c] PROVE FALSE
    BY Zenon
  <2>1. before = Larger(View(c).next, high[c])
    BY Zenon DEF before, InsertNext, LockedNext
  <2>2. v \in pending[c] => v < high[c]
    BY Zenon DEF IInv, GivenCovered
  <2>3. v \in pending[c] \/ v < View(c).next \/ v < high[c]
    <3>1. CASE lock = c
      BY <1>11, <1>6, <3>1, Zenon DEF IInv, GivenCovered, Covers, LockedNext, Larger, View
    <3>2. CASE lock # c
      BY <3>2, Zenon DEF IInv, GivenCovered, View
    <3> QED  BY <3>1, <3>2, Zenon
  <2>4. before >= View(c).next /\ before >= high[c] /\ v >= before
    BY <1>4, <1>11, <2>1, LargerBound, Zenon
  <2>5. before \in Nat /\ (v < View(c).next \/ v < high[c])
    BY <1>3, <2>2, <2>3, Zenon
  <2> QED  BY <1>6, <1>11, <2>4, <2>5
<1>19. OwnValuesFresh'
  BY <1>2, <1>18, Zenon DEF IInv, OwnValuesFresh
<1> QED  BY <1>12, <1>14, <1>17, <1>19, Zenon DEF IInv

LEMMA InsertGeneratedSafe ==
    ASSUME IInv, NEW c \in Conn, InsertGenerated(c)
    PROVE  IInv'
<1>1. PICK v \in Value : Generates(c, v, View(c).rows \cup {v})
  BY Zenon DEF InsertGenerated
<1> DEFINE rows == View(c).rows \cup {v}
<1>2. CanWrite(c)
  BY <1>1, Zenon DEF Generates
<1>3. rows \in SUBSET Value /\ \A w \in rows : w \in View(c).rows \/ w = v
  BY <1>2, StartsFromNumber, Zenon DEF Table
<1>4. insertId' \in [Conn -> Nat]
  BY Zenon DEF InsertGenerated, IInv, TypeOK
<1> HIDE DEF rows
<1> QED  BY <1>1, <1>3, <1>4, GeneratesSafe, Zenon DEF rows

LEMMA DuplicateGeneratedSafe ==
    ASSUME IInv, NEW c \in Conn, DuplicateGenerated(c)
    PROVE  IInv'
<1>1. PICK v \in Value : \E rows \in DuplicateRows(View(c).rows, v) : Generates(c, v, rows)
  BY Zenon DEF DuplicateGenerated
<1>2. PICK rows \in DuplicateRows(View(c).rows, v) : Generates(c, v, rows)
  BY <1>1, Zenon
<1>3. CanWrite(c)
  BY <1>2, Zenon DEF Generates
<1>4. rows \in SUBSET Value /\ \A w \in rows : w \in View(c).rows \/ w = v
  BY <1>3, StartsFromNumber, Zenon DEF Table, DuplicateRows, Renumbered
<1>5. insertId' \in [Conn -> Nat]
  BY Zenon DEF DuplicateGenerated, IInv, TypeOK
<1> QED  BY <1>2, <1>4, <1>5, GeneratesSafe, Zenon

(* A statement that stores rows and gives nobody a value. *)
LEMMA StoreWithoutGiving ==
    ASSUME IInv, NEW c \in Conn, CanWrite(c), NEW rows \in SUBSET Value,
           NEW before \in Nat, NEW after \in Nat, after >= before,
           \A v \in rows : v \in View(c).rows \/ v < after \/ after >= MaxValue,
           Store(c, rows, before, after),
           given' = GivenAfter(c, before, after),
           UNCHANGED <<insertId, pending, reused>>
    PROVE  IInv'
<1>1. /\ file' \in Table /\ work' \in Table /\ high' \in [Conn -> Nat]
      /\ bypassed' \in BOOLEAN
      /\ OneWriter'
      /\ RowsBelow'
  BY StoreRows, Zenon
<1>2. /\ given' \in [Conn -> SUBSET Value]
      /\ \A d \in Conn : \A v \in given'[d] :
            v \in given[d] /\ (v \in pending[d] \/ v < after \/ after = before \/ after >= View(c).next)
  BY KeptGiven, Zenon
<1>3. pending' \in [Conn -> SUBSET Value] /\ insertId' \in [Conn -> Nat] /\ pending' = pending
  BY Zenon DEF IInv, TypeOK
<1>4. TypeOK'
  BY <1>1, <1>2, <1>3, StoreTypes, Zenon
<1>5. GivenCovered'
  BY <1>2, <1>3, StoreCovers, Zenon
<1> QED  BY <1>1, <1>4, <1>5, Zenon DEF IInv, OwnValuesFresh

LEMMA InsertExplicitSafe ==
    ASSUME IInv, NEW c \in Conn, NEW v \in Value, NEW stored \in BOOLEAN,
           InsertExplicit(c, v, stored)
    PROVE  IInv'
<1> DEFINE before == InsertNext(c)
           after == NextAfterExplicit(before, v)
           rows == IF stored THEN View(c).rows \cup {v} ELSE View(c).rows
<1>1. /\ CanWrite(c)
      /\ Store(c, rows, before, after)
      /\ given' = GivenAfter(c, before, after)
      /\ UNCHANGED <<insertId, pending, reused>>
  BY Zenon DEF InsertExplicit
<1>2. before \in Nat /\ View(c).rows \in SUBSET Value
  BY <1>1, StartsFromNumber, Zenon DEF Table
<1>3. after \in Nat /\ after >= before /\ (v < after \/ after >= MaxValue)
  <2> HIDE DEF before
  <2> QED  BY <1>2, AfterExplicit, Zenon
<1>4. rows \in SUBSET Value /\ \A w \in rows : w \in View(c).rows \/ w = v
  BY <1>2, Zenon
<1> HIDE DEF before, after, rows
<1>5. \A w \in rows : w \in View(c).rows \/ w < after \/ after >= MaxValue
  BY <1>3, <1>4, Zenon
<1> QED  BY <1>1, <1>2, <1>3, <1>4, <1>5, StoreWithoutGiving, Zenon

(* UPDATE starts from counter and mark, so it cannot set the counter back. *)
LEMMA UpdateSafe ==
    ASSUME IInv, NEW c \in Conn, NEW w \in Value, NEW v \in Value, Update(c, w, v)
    PROVE  IInv'
<1> DEFINE before == LockedNext(c, View(c))
           after == NextAfterUpdate(c, before, v)
           rows == Renumbered(View(c).rows, w, v)
<1>1. /\ CanWrite(c)
      /\ Store(c, rows, before, after)
      /\ UNCHANGED <<insertId, pending, given, reused>>
  BY Zenon DEF Update
<1>2. before \in Nat /\ View(c).rows \in SUBSET Value /\ View(c).next \in Nat /\ high[c] \in Nat
  BY <1>1, StartsFromNumber, Zenon DEF Table, IInv, TypeOK
<1>3. after \in Nat /\ after >= before /\ (v < after \/ after >= MaxValue)
  <2> HIDE DEF before
  <2> QED  BY <1>2, AfterUpdate, Zenon
<1>4. rows \in SUBSET Value /\ \A u \in rows : u \in View(c).rows \/ u = v
  BY <1>2, Zenon DEF Renumbered
<1>5. before >= View(c).next
  BY <1>2 DEF LockedNext, Larger
<1> HIDE DEF before, after, rows
<1>6. given' = GivenAfter(c, before, after)
  BY <1>1, <1>2, <1>3, <1>5 DEF GivenAfter
<1>7. \A u \in rows : u \in View(c).rows \/ u < after \/ after >= MaxValue
  BY <1>3, <1>4, Zenon
<1> QED  BY <1>1, <1>2, <1>3, <1>4, <1>6, <1>7, StoreWithoutGiving, Zenon

(* A statement that changes rows and leaves the counter alone. *)
LEMMA RowsChanged ==
    ASSUME IInv, NEW c \in Conn, CanWrite(c), NEW rows \in SUBSET Value,
           work' = [View(c) EXCEPT !.rows = rows],
           file' = IF pc[c] = "transaction" THEN file ELSE work',
           bypassed' \in BOOLEAN,
           ~bypassed' => ~bypassed /\ \A u \in rows : u \in View(c).rows \/ u < View(c).next,
           UNCHANGED <<lock, session, pending, given, reused>>
    PROVE  IInv'
<1>1. /\ View(c) \in Table
      /\ pc[c] = "transaction" => View(c) = work /\ lock = c
      /\ pc[c] # "transaction" => View(c) = file /\ lock = NoConn /\ pc[c] = "idle"
  BY ViewOfWriter, Zenon DEF IInv
<1>2. work' \in Table /\ work'.next = View(c).next /\ work'.rows = rows
  BY <1>1, Zenon DEF Table
<1>3. TypeOK'
  BY <1>1, <1>2, Zenon DEF IInv, TypeOK, session
<1>4. OneWriter'
  BY <1>1, Zenon DEF IInv, OneWriter, session
<1>5. ASSUME ~bypassed' PROVE RowsBelow'
  <2>1. ~bypassed /\ \A u \in rows : u \in View(c).rows \/ u < View(c).next
    BY <1>5, Zenon
  <2>2. RowsBelow /\ UNCHANGED <<lock, mark, pc, high>>
    BY Zenon DEF IInv, session
  <2>3. CASE pc[c] = "transaction"
    <3> DEFINE bound == LockedNext(c, work)
    <3>1. work.next \in Nat /\ high[c] \in Nat
      BY Zenon DEF IInv, TypeOK, Table
    <3>2. bound \in Nat /\ bound >= work.next
      BY <3>1, LargerBound, Zenon DEF LockedNext
    <3>3. \A u \in rows : u \in Nat /\ (u \in work.rows \/ u < work.next)
      BY <1>1, <2>1, <2>3 DEF Value
    <3>4. \A u \in rows : u \in work.rows \/ u < bound
      <4> HIDE DEF bound
      <4> QED  BY <3>1, <3>2, <3>3
    <3>5. Above(bound, work.rows)
      BY <1>1, <2>1, <2>2, <2>3, Zenon DEF RowsBelow
    <3>6. Above(bound, rows)
      <4> HIDE DEF bound
      <4> QED  BY <3>4, <3>5, Zenon DEF Above
    <3>7. bound = LockedNext(c, work)' /\ work'.rows = rows
      BY <1>1, <1>2, <2>2, <2>3, Zenon DEF LockedNext
    <3>8. Above(LockedNext(c, work), work.rows)'
      BY <3>6, <3>7, Zenon
    <3> QED  BY <1>1, <2>1, <2>2, <2>3, <3>8, Zenon DEF RowsBelow, LockedNext
  <2>4. CASE pc[c] # "transaction"
    <3>1. Above(file.next, file.rows)'
      BY <1>1, <1>2, <2>1, <2>2, <2>4, Zenon DEF RowsBelow, Above
    <3> QED  BY <1>1, <2>1, <2>2, <2>4, <3>1, Zenon DEF RowsBelow, LockedNext
  <2> QED  BY <2>3, <2>4, Zenon
<1>6. RowsBelow'
  BY <1>5, Zenon DEF RowsBelow
<1>7. GivenCovered'
  <2>1. file'.next = file.next /\ UNCHANGED <<lock, mark, high, pending, given>>
    BY <1>1, <1>2, Zenon DEF session
  <2>2. lock = c => work'.next = work.next
    BY <1>1, <1>2, Zenon
  <2>3. \A d \in Conn : lock = d => d = c
    BY <1>1, Zenon
  <2> QED  BY <2>1, <2>2, <2>3, Zenon DEF IInv, GivenCovered, Covers, LockedNext
<1> QED  BY <1>3, <1>4, <1>6, <1>7, Zenon DEF IInv, OwnValuesFresh

(* A number stored past the counter counts as such from the counter on. *)
LEMMA StorePastSafe ==
    ASSUME IInv, NEW c \in Conn, NEW w \in Value, NEW v \in Value, StorePast(c, w, v)
    PROVE  IInv'
<1> DEFINE rows == Renumbered(View(c).rows, w, v)
<1>1. CanWrite(c)
  BY Zenon DEF StorePast
<1>2. View(c).next \in Nat /\ View(c).rows \in SUBSET Value
  BY <1>1, StartsFromNumber, Zenon DEF Table
<1>3. rows \in SUBSET Value /\ \A u \in rows : u \in View(c).rows \/ u = v
  BY <1>2, Zenon DEF Renumbered
<1>4. /\ work' = [View(c) EXCEPT !.rows = rows]
      /\ file' = IF pc[c] = "transaction" THEN file ELSE work'
      /\ bypassed' = (bypassed \/ View(c).next <= v)
      /\ UNCHANGED <<lock, session, pending, given, reused>>
  BY Zenon DEF StorePast
<1>5. bypassed' \in BOOLEAN
  BY <1>4, Zenon
<1>6. ~(View(c).next <= v) => v < View(c).next
  BY <1>2 DEF Value
<1>7. ~bypassed' => ~bypassed /\ \A u \in rows : u \in View(c).rows \/ u < View(c).next
  BY <1>3, <1>4, <1>6, Zenon
<1> HIDE DEF rows
<1> QED  BY <1>1, <1>3, <1>4, <1>5, <1>7, RowsChanged, Zenon

LEMMA DeleteSafe ==
    ASSUME IInv, NEW c \in Conn, NEW w \in Value, Delete(c, w)
    PROVE  IInv'
<1> DEFINE rows == View(c).rows \ {w}
<1>1. CanWrite(c)
  BY Zenon DEF Delete
<1>2. rows \in SUBSET Value /\ rows \subseteq View(c).rows
  BY <1>1, StartsFromNumber, Zenon DEF Table
<1>3. /\ work' = [View(c) EXCEPT !.rows = rows]
      /\ file' = IF pc[c] = "transaction" THEN file ELSE work'
      /\ bypassed' = bypassed
      /\ UNCHANGED <<lock, session, pending, given, reused>>
  BY Zenon DEF Delete, history
<1>4. bypassed' \in BOOLEAN
  BY <1>3, Zenon DEF IInv, TypeOK
<1>5. ~bypassed' => ~bypassed /\ \A u \in rows : u \in View(c).rows \/ u < View(c).next
  BY <1>2, <1>3, Zenon
<1> HIDE DEF rows
<1> QED  BY <1>1, <1>2, <1>3, <1>4, <1>5, RowsChanged, Zenon

(* What does not touch table, lock, marks or history. *)
LEMMA SetInsertIdSafe ==
    ASSUME IInv, NEW c \in Conn, NEW v \in InsertIds, SetInsertId(c, v)
    PROVE  IInv'
<1>1. insertId' \in [Conn -> Nat]
  BY AutoIncrementAssumption DEF SetInsertId, IInv, TypeOK
<1>2. UNCHANGED <<file, lock, work, mark, pc, high, pending, given, reused, bypassed>>
  BY Zenon DEF SetInsertId, history
<1>3. TypeOK' /\ OneWriter'
  BY <1>1, <1>2, Zenon DEF IInv, TypeOK, OneWriter
<1>4. RowsBelow' /\ GivenCovered' /\ OwnValuesFresh'
  BY <1>2, Zenon DEF IInv, RowsBelow, GivenCovered, OwnValuesFresh, Covers, LockedNext
<1> QED  BY <1>3, <1>4, Zenon DEF IInv

(* Resetting the counter to a value past the rows restores the order of    *)
(* counter and rows and forgets the given values it no longer covers.      *)
LEMMA ResetSafe ==
    ASSUME IInv, NEW c \in Conn, NEW next \in Nat, NEW rows \in SUBSET Value,
           Above(next, rows), ResetTo(c, next, rows)
    PROVE  IInv'
<1>1. file' = [next |-> next, rows |-> rows] /\ file' \in Table /\ work' = file' /\ lock = NoConn
  BY Zenon DEF ResetTo, Table
<1>2. given' = StillGiven(next) /\ given' \in [Conn -> SUBSET Value]
  BY Zenon DEF ResetTo, StillGiven, IInv, TypeOK
<1>3. UNCHANGED <<lock, mark, pc, high, insertId, pending, reused>> /\ bypassed' = FALSE
  BY Zenon DEF ResetTo, session
<1>4. TypeOK' /\ OneWriter'
  BY <1>1, <1>2, <1>3, Zenon DEF IInv, TypeOK, OneWriter
<1>5. \A d \in Conn : lock' # d /\ mark'[d] = NoMark
  BY <1>1, <1>3, Zenon DEF IInv, OneWriter, Locking
<1>6. RowsBelow'
  <2>1. Above(file.next, file.rows)'
    BY <1>1, Zenon
  <2>2. \A d \in Conn : mark'[d].rows = {}
    BY <1>5, NoMarkEmpty, Zenon
  <2> QED  BY <1>5, <2>1, <2>2, Zenon DEF RowsBelow, Above
<1>7. GivenCovered'
  <2>1. \A d \in Conn : \A v \in given'[d] : v \in pending'[d] \/ v < file'.next
    BY <1>1, <1>2, <1>3, Zenon DEF StillGiven
  <2>2. \A d \in Conn : \A v \in pending'[d] : v < high'[d]
    BY <1>3, Zenon DEF IInv, GivenCovered
  <2> QED  BY <1>5, <2>1, <2>2, Zenon DEF GivenCovered
<1> QED  BY <1>3, <1>4, <1>6, <1>7, Zenon DEF IInv, OwnValuesFresh

LEMMA TruncateSafe ==
    ASSUME IInv, NEW c \in Conn, Truncate(c)
    PROVE  IInv'
BY ResetSafe DEF Truncate, Above

(* ALTER TABLE goes at least past the largest row. *)
LEMMA AlterNextSafe ==
    ASSUME IInv, NEW c \in Conn, NEW n \in AlterValues, AlterNext(c, n)
    PROVE  IInv'
<1> DEFINE rows == file.rows
           next == Larger(n, RowNext(rows))
<1>1. rows \in SUBSET Value
  BY Zenon DEF IInv, TypeOK, Table
<1>2. RowNext(rows) \in Nat /\ Above(RowNext(rows), rows)
  <2>1. CASE rows = {}
    BY <2>1, Zenon DEF RowNext, Above
  <2>2. CASE rows # {}
    <3>1. Max(rows) \in rows /\ \A v \in rows : v <= Max(rows)
      BY <1>1, <2>2, MaxIsLargest, Zenon
    <3>2. RowNext(rows) = NextAfterExplicit(1, Max(rows))
      BY <2>2, Zenon DEF RowNext
    <3>3. \A v \in rows : v \in Value /\ v <= Max(rows)
      BY <1>1, <3>1, Zenon
    <3>4. RowNext(rows) \in Nat /\ (Max(rows) < RowNext(rows) \/ RowNext(rows) >= MaxValue)
      BY <3>1, <3>2, <3>3, AfterExplicit, Zenon
    <3> HIDE DEF rows
    <3> QED  BY <3>1, <3>3, <3>4 DEF Above, Value
  <2> QED  BY <2>1, <2>2, Zenon
<1>3. n \in Nat
  BY AutoIncrementAssumption, Zenon
<1>4. next \in Nat /\ Above(next, rows)
  BY <1>1, <1>2, <1>3, AutoIncrementAssumption DEF Larger, Above, Value
<1>5. ResetTo(c, next, rows)
  BY Zenon DEF AlterNext
<1> HIDE DEF next, rows
<1> QED  BY <1>1, <1>4, <1>5, ResetSafe, Zenon

(* SQLite opens a transaction for the session, the counter raised to the   *)
(* session's mark or not.                                                  *)
LEMMA LocksSafe ==
    ASSUME IInv, NEW c \in Conn, NEW p \in Locking, lock = NoConn, mark[c] = NoMark,
           lock' = c, work' \in {file, Reconciled(c, file)}, pc' = [pc EXCEPT ![c] = p],
           UNCHANGED <<file, mark, high, insertId, pending, given, reused, bypassed>>
    PROVE  IInv'
<1>1. /\ file \in Table /\ file.next \in Nat /\ file.rows \in SUBSET Value
      /\ high[c] \in Nat /\ given \in [Conn -> SUBSET Value]
  BY Zenon DEF IInv, TypeOK, Table
<1>2. LockedNext(c, file) \in Nat /\ LockedNext(c, file) >= file.next
  BY <1>1, LargerBound, Zenon DEF LockedNext
<1>3. Reconciled(c, file).next = LockedNext(c, file) /\ Reconciled(c, file).rows = file.rows
  BY <1>1, Zenon DEF Table, Reconciled, LockedNext
<1>4. work' \in Table
  BY <1>1, <1>2, Zenon DEF Table, Reconciled, LockedNext
<1>5. LockedNext(c, work)' = LockedNext(c, file) /\ work'.rows = file.rows
  <2>1. Larger(Larger(file.next, high[c]), high[c]) = Larger(file.next, high[c])
    BY <1>1 DEF Larger
  <2>2. work'.next = file.next \/ work'.next = Larger(file.next, high[c])
    BY <1>3, Zenon DEF LockedNext
  <2> QED  BY <1>3, <2>1, <2>2, Zenon DEF LockedNext
<1>6. TypeOK'
  BY <1>4, Zenon DEF IInv, TypeOK, Locking, Phase
<1>7. OneWriter'
  BY Zenon DEF IInv, TypeOK, OneWriter
<1>8. RowsBelow'
  <2>1. Above(file.next, file.rows) => Above(LockedNext(c, file), file.rows)
    BY <1>1, LargerBound, AboveGrows, Zenon DEF LockedNext
  <2>2. ~bypassed => Above(LockedNext(c, work), work.rows)'
    BY <1>5, <2>1, Zenon DEF IInv, RowsBelow
  <2> QED  BY <2>2, Zenon DEF IInv, RowsBelow, LockedNext
<1>9. GivenCovered'
  <2>1. ASSUME NEW d \in Conn, NEW v \in given[d], v \notin pending[d]
        PROVE  v < LockedNext(c, file)
    <3>1. v \in Nat /\ v < file.next
      BY <1>1, <2>1 DEF IInv, GivenCovered, Value
    <3> HIDE DEF LockedNext
    <3> QED  BY <1>1, <1>2, <3>1
  <2>2. Covers(c, work)'
    BY <1>5, <2>1, Zenon DEF Covers
  <2> QED  BY <2>2, Zenon DEF IInv, GivenCovered, Covers, LockedNext
<1> QED  BY <1>6, <1>7, <1>8, <1>9, Zenon DEF IInv, OwnValuesFresh

LEMMA StartTransactionSafe ==
    ASSUME IInv, NEW c \in Conn, StartTransaction(c)
    PROVE  IInv'
<1>1. /\ lock = NoConn /\ lock' = c /\ work' \in {file, Reconciled(c, file)}
      /\ pc' = [pc EXCEPT ![c] = "transaction"]
      /\ UNCHANGED <<file, mark, high, insertId, pending, given, reused, bypassed>>
  BY Zenon DEF StartTransaction, history
<1>2. mark[c] = NoMark /\ "transaction" \in Locking
  BY Zenon DEF StartTransaction, IInv, OneWriter, Locking
<1> QED  BY <1>1, <1>2, LocksSafe, Zenon

LEMMA ReconcileStuckSafe ==
    ASSUME IInv, NEW c \in Conn, ReconcileStuck(c)
    PROVE  IInv'
<1>1. /\ lock = NoConn /\ lock' = c /\ work' \in {file, Reconciled(c, file)}
      /\ pc' = [pc EXCEPT ![c] = "stuck"]
      /\ UNCHANGED <<file, mark, high, insertId, pending, given, reused, bypassed>>
  BY Zenon DEF ReconcileStuck, history
<1>2. mark[c] = NoMark /\ "stuck" \in Locking
  BY Zenon DEF ReconcileStuck, IInv, OneWriter, Locking
<1> QED  BY <1>1, <1>2, LocksSafe, Zenon

LEMMA SavepointSafe ==
    ASSUME IInv, NEW c \in Conn, Savepoint(c)
    PROVE  IInv'
<1>1. /\ pc[c] = "transaction" /\ mark' = [mark EXCEPT ![c] = work]
      /\ UNCHANGED <<file, lock, work, pc, high, insertId, pending, given, reused, bypassed>>
  BY Zenon DEF Savepoint, history
<1>2. lock = c
  BY <1>1, Zenon DEF IInv, OneWriter, Locking
<1>3. TypeOK' /\ OneWriter'
  BY <1>1, Zenon DEF IInv, TypeOK, OneWriter
<1>4. mark'[c] = work /\ \A d \in Conn \ {c} : mark'[d] = mark[d]
  BY <1>1, Zenon DEF IInv, TypeOK
<1>5. RowsBelow'
  BY <1>1, <1>2, <1>4, Zenon DEF IInv, RowsBelow, LockedNext
<1>6. GivenCovered'
  BY <1>1, <1>2, <1>4, Zenon DEF IInv, GivenCovered, Covers, LockedNext
<1> QED  BY <1>1, <1>3, <1>5, <1>6, Zenon DEF IInv, OwnValuesFresh

LEMMA RollbackToSafe ==
    ASSUME IInv, NEW c \in Conn, RollbackTo(c)
    PROVE  IInv'
<1>1. /\ pc[c] = "transaction" /\ mark[c] # NoMark /\ work' = mark[c]
      /\ UNCHANGED <<file, lock, mark, pc, high, insertId, pending, given, reused, bypassed>>
  BY Zenon DEF RollbackTo, history, session
<1>2. lock = c
  BY <1>1, Zenon DEF IInv, OneWriter, Locking
<1>3. TypeOK' /\ OneWriter'
  BY <1>1, <1>2, Zenon DEF IInv, TypeOK, OneWriter
<1>4. RowsBelow'
  BY <1>1, <1>2, Zenon DEF IInv, RowsBelow, LockedNext
<1>5. GivenCovered'
  BY <1>1, <1>2, Zenon DEF IInv, GivenCovered, Covers, LockedNext
<1> QED  BY <1>1, <1>3, <1>4, <1>5, Zenon DEF IInv, OwnValuesFresh

(* The counter raised to the mark of c covers what the mark of c covered.  *)
LEMMA CommitSafe ==
    ASSUME IInv, NEW c \in Conn, Commit(c)
    PROVE  IInv'
<1>1. /\ pc[c] = "transaction" /\ file' = Reconciled(c, work) /\ work' = file' /\ lock' = NoConn
      /\ mark' = [mark EXCEPT ![c] = NoMark] /\ pc' = [pc EXCEPT ![c] = "idle"]
      /\ high' = [high EXCEPT ![c] = 0] /\ pending' = [pending EXCEPT ![c] = {}]
      /\ UNCHANGED <<insertId, given, reused, bypassed>>
  BY Zenon DEF Commit, history, Secured
<1>2. lock = c
  BY <1>1, Zenon DEF IInv, OneWriter, Locking
<1>3. file' \in Table /\ file'.next = LockedNext(c, work) /\ file'.rows = work.rows
  BY <1>1, Zenon DEF IInv, TypeOK, Table, Reconciled, LockedNext, Larger
<1>4. TypeOK'
  <2>1. NoMark \in Table
    BY Zenon DEF Table, NoMark
  <2> QED  BY <1>1, <1>3, <2>1, Zenon DEF IInv, TypeOK, Phase
<1>5. \A d \in Conn : pc'[d] \notin Locking /\ lock' # d /\ mark'[d] = NoMark
  BY <1>1, <1>2, Zenon DEF IInv, TypeOK, OneWriter, Locking
<1>6. OneWriter'
  BY <1>1, <1>5, Zenon DEF OneWriter
<1>7. RowsBelow'
  <2>1. ~bypassed => Above(file.next, file.rows)'
    BY <1>2, <1>3, Zenon DEF IInv, RowsBelow
  <2>2. \A d \in Conn : mark'[d].rows = {}
    BY <1>5, NoMarkEmpty, Zenon
  <2> QED  BY <1>1, <1>5, <2>1, <2>2, Zenon DEF RowsBelow, Above
<1>8. GivenCovered'
  <2>1. high[c] \in Nat /\ LockedNext(c, work) \in Nat /\ LockedNext(c, work) >= high[c]
    BY DEF IInv, TypeOK, Table, LockedNext, Larger
  <2>2. \A d \in Conn : \A v \in pending'[d] : v < high'[d]
    BY <1>1, Zenon DEF IInv, TypeOK, GivenCovered
  <2>3. \A d \in Conn : \A v \in given'[d] : v \in pending'[d] \/ v < file'.next
    <3> SUFFICES ASSUME NEW d \in Conn, NEW v \in given[d], v \notin pending'[d]
                 PROVE  v < LockedNext(c, work)
      BY <1>1, <1>3, Zenon
    <3>1. CASE v \notin pending[d]
      BY <1>2, <3>1, Zenon DEF IInv, GivenCovered, Covers
    <3>2. CASE v \in pending[d]
      <4>1. d = c /\ v < high[c]
        BY <1>1, <3>2, Zenon DEF IInv, TypeOK, GivenCovered
      <4>2. v \in Nat
        <5>1. given[d] \subseteq Value
          BY Zenon DEF IInv, TypeOK
        <5> QED  BY <5>1 DEF Value
      <4> QED  BY <2>1, <4>1, <4>2
    <3> QED  BY <3>1, <3>2, Zenon
  <2> QED  BY <1>5, <2>2, <2>3, Zenon DEF GivenCovered
<1> QED  BY <1>1, <1>4, <1>6, <1>7, <1>8, Zenon DEF IInv, OwnValuesFresh

(* The transaction of c ends without a commit. *)
LEMMA ReleasesSafe ==
    ASSUME IInv, NEW c \in Conn, lock = c, lock' = NoConn, work' = file,
           mark' = [mark EXCEPT ![c] = NoMark],
           pc' \in [Conn -> Phase], pc'[c] \notin Locking,
           \A d \in Conn \ {c} : pc'[d] = pc[d],
           insertId' \in [Conn -> Nat],
           UNCHANGED <<file, high, pending, given, reused, bypassed>>
    PROVE  IInv'
<1>1. TypeOK'
  <2>1. NoMark \in Table
    BY Zenon DEF Table, NoMark
  <2>2. mark' \in [Conn -> Table]
    BY <2>1, Zenon DEF IInv, TypeOK
  <2> QED  BY <2>2, Zenon DEF IInv, TypeOK
<1>2. \A d \in Conn : pc'[d] \notin Locking /\ lock' # d /\ mark'[d] = NoMark
  BY Zenon DEF IInv, TypeOK, OneWriter, Locking
<1>3. OneWriter'
  BY <1>2, Zenon DEF OneWriter
<1>4. RowsBelow'
  <2>1. ~bypassed => Above(file.next, file.rows)'
    BY Zenon DEF IInv, RowsBelow
  <2>2. \A d \in Conn : mark'[d].rows = {}
    BY <1>2, NoMarkEmpty, Zenon
  <2> QED  BY <1>2, <2>1, <2>2, Zenon DEF RowsBelow, Above
<1>5. GivenCovered'
  BY <1>2, Zenon DEF IInv, GivenCovered
<1> QED  BY <1>1, <1>3, <1>4, <1>5, Zenon DEF IInv, OwnValuesFresh

LEMMA RollbackSafe ==
    ASSUME IInv, NEW c \in Conn, NEW how \in {"rollback", "close"}, Rollback(c, how)
    PROVE  IInv'
<1>1. /\ lock = c /\ lock' = NoConn /\ work' = file
      /\ mark' = [mark EXCEPT ![c] = NoMark]
      /\ UNCHANGED <<file, high, pending, given, reused, bypassed>>
  BY Zenon DEF Rollback, history, IInv, OneWriter, Locking
<1>2. /\ pc' \in [Conn -> Phase] /\ pc'[c] \notin Locking
      /\ \A d \in Conn \ {c} : pc'[d] = pc[d]
  BY Zenon DEF Rollback, IInv, TypeOK, Leave, Phase, Locking
<1>3. insertId' \in [Conn -> Nat]
  BY Zenon DEF Rollback, IInv, TypeOK, Leave
<1> QED  BY <1>1, <1>2, <1>3, ReleasesSafe, Zenon

LEMMA ReadEndsSafe ==
    ASSUME IInv, NEW c \in Conn, ReadEnds(c)
    PROVE  IInv'
<1>1. /\ lock = c /\ lock' = NoConn /\ work' = file /\ mark[c] = NoMark
      /\ UNCHANGED <<file, mark, high, insertId, pending, given, reused, bypassed>>
  BY Zenon DEF ReadEnds, history, IInv, OneWriter, Locking
<1>2. mark' = [mark EXCEPT ![c] = NoMark] /\ insertId' \in [Conn -> Nat]
  BY <1>1, Zenon DEF IInv, TypeOK
<1>3. /\ pc' \in [Conn -> Phase] /\ pc'[c] \notin Locking
      /\ \A d \in Conn \ {c} : pc'[d] = pc[d]
  BY Zenon DEF ReadEnds, IInv, TypeOK, Phase, Locking
<1> QED  BY <1>1, <1>2, <1>3, ReleasesSafe, Zenon

LEMMA CloseSafe ==
    ASSUME IInv, NEW c \in Conn, Close(c)
    PROVE  IInv'
<1>1. /\ pc[c] = "idle"
      /\ UNCHANGED <<file, lock, work, mark, high, pending, given, reused, bypassed>>
  BY Zenon DEF Close, history
<1>2. /\ pc' \in [Conn -> Phase] /\ pc'[c] \notin Locking
      /\ \A d \in Conn \ {c} : pc'[d] = pc[d]
  BY Zenon DEF Close, IInv, TypeOK, Leave, Phase, Locking
<1>3. insertId' \in [Conn -> Nat]
  BY Zenon DEF Close, IInv, TypeOK, Leave
<1>4. TypeOK'
  BY <1>1, <1>2, <1>3, Zenon DEF IInv, TypeOK
<1>5. OneWriter'
  BY <1>1, <1>2, Zenon DEF IInv, OneWriter, Locking
<1>6. RowsBelow' /\ GivenCovered' /\ OwnValuesFresh'
  BY <1>1, Zenon DEF IInv, RowsBelow, GivenCovered, OwnValuesFresh, Covers, LockedNext
<1> QED  BY <1>4, <1>5, <1>6, Zenon DEF IInv

(* Reconciling raises the committed counter, never lowers it. *)
LEMMA ReconcileSafe ==
    ASSUME IInv, NEW c \in Conn, Reconcile(c)
    PROVE  IInv'
<1>1. /\ pc[c] \in {"rollback", "close"} /\ lock = NoConn
      /\ file' = Reconciled(c, file) /\ work' = file'
      /\ high' = [high EXCEPT ![c] = 0] /\ pending' = [pending EXCEPT ![c] = {}]
      /\ UNCHANGED <<lock, mark, given, reused, bypassed>>
  BY Zenon DEF Reconcile, history, Secured
<1>2. pc' = [pc EXCEPT ![c] = "idle"] /\ insertId' \in [Conn -> Nat]
  BY Zenon DEF Reconcile, IInv, TypeOK, Leave
<1>3. /\ file' \in Table /\ file'.next = LockedNext(c, file) /\ file'.rows = file.rows
      /\ file.next \in Nat /\ high[c] \in Nat
  BY <1>1, Zenon DEF IInv, TypeOK, Table, Reconciled, LockedNext, Larger
<1>4. file'.next >= file.next /\ file'.next >= high[c]
  BY <1>3 DEF LockedNext, Larger
<1>5. TypeOK'
  BY <1>1, <1>2, <1>3, Zenon DEF IInv, TypeOK, Phase
<1>6. \A d \in Conn : pc'[d] \notin Locking /\ lock' # d /\ mark'[d] = NoMark
  BY <1>1, <1>2, Zenon DEF IInv, TypeOK, OneWriter, Locking
<1>7. OneWriter'
  BY <1>1, <1>6, Zenon DEF OneWriter
<1>8. RowsBelow'
  <2>1. ~bypassed => Above(file.next, file.rows)'
    <3>1. file.rows \in SUBSET Value
      BY Zenon DEF IInv, TypeOK, Table
    <3>2. Above(file.next, file.rows) => Above(LockedNext(c, file), file.rows)
      BY <1>3, <3>1, LargerBound, AboveGrows, Zenon DEF LockedNext
    <3> QED  BY <1>3, <3>2, Zenon DEF IInv, RowsBelow
  <2>2. \A d \in Conn : mark'[d].rows = {}
    BY <1>6, NoMarkEmpty, Zenon
  <2> QED  BY <1>1, <1>6, <2>1, <2>2, Zenon DEF RowsBelow, Above
<1>9. GivenCovered'
  <2>1. \A d \in Conn : \A v \in pending'[d] : v < high'[d]
    BY <1>1, Zenon DEF IInv, TypeOK, GivenCovered
  <2>2. \A d \in Conn : \A v \in given'[d] : v \in pending'[d] \/ v < file'.next
    <3> SUFFICES ASSUME NEW d \in Conn, NEW v \in given[d], v \notin pending'[d]
                 PROVE  v < file'.next
      BY <1>1, Zenon
    <3>1. v \in Nat
      BY DEF IInv, TypeOK, Value
    <3>2. v < file.next \/ v < high[c]
      BY <1>1, Zenon DEF IInv, TypeOK, GivenCovered
    <3>3. file'.next \in Nat
      BY <1>3, Zenon DEF Table
    <3>4. \/ v < file.next /\ file.next <= file'.next
          \/ v < high[c] /\ high[c] <= file'.next
      BY <1>4, <3>2, Zenon
    <3>5. file.next \in Nat /\ high[c] \in Nat
      BY <1>3, Zenon
    <3> QED  BY <3>1, <3>3, <3>4, <3>5
  <2> QED  BY <1>6, <2>1, <2>2, Zenon DEF GivenCovered
<1> QED  BY <1>1, <1>5, <1>7, <1>8, <1>9, Zenon DEF IInv, OwnValuesFresh

LEMMA ReconcileFailsSafe ==
    ASSUME IInv, NEW c \in Conn, ReconcileFails(c)
    PROVE  IInv'
<1>1. /\ pc[c] \in {"rollback", "close"} /\ pc' = [pc EXCEPT ![c] = "idle"]
      /\ UNCHANGED <<file, lock, work, mark, high, insertId, pending, given, reused, bypassed>>
  BY Zenon DEF ReconcileFails, history
<1>2. TypeOK' /\ OneWriter'
  BY <1>1, Zenon DEF IInv, TypeOK, OneWriter, Phase, Locking
<1>3. RowsBelow' /\ GivenCovered' /\ OwnValuesFresh'
  BY <1>1, Zenon DEF IInv, RowsBelow, GivenCovered, OwnValuesFresh, Covers, LockedNext
<1> QED  BY <1>2, <1>3, Zenon DEF IInv

(* A session that ends takes its mark along, and what only the mark        *)
(* covered is no longer counted as given.                                  *)
LEMMA EndsSafe ==
    ASSUME IInv, NEW c \in Conn, Ends(c)
    PROVE  IInv'
<1>1. /\ lock' = (IF lock = c THEN NoConn ELSE lock)
      /\ work' = (IF lock = c THEN file ELSE work)
      /\ mark' = [mark EXCEPT ![c] = NoMark] /\ pc' = [pc EXCEPT ![c] = "idle"]
      /\ high' = [high EXCEPT ![c] = 0] /\ insertId' = [insertId EXCEPT ![c] = 0]
      /\ given' = [given EXCEPT ![c] = @ \ pending[c]]
      /\ pending' = [pending EXCEPT ![c] = {}]
      /\ UNCHANGED <<file, reused, bypassed>>
  BY Zenon DEF Ends
<1>2. TypeOK'
  <2>1. NoMark \in Table
    BY Zenon DEF Table, NoMark
  <2>2. given' \in [Conn -> SUBSET Value] /\ pending' \in [Conn -> SUBSET Value]
    BY <1>1, Zenon DEF IInv, TypeOK
  <2> QED  BY <1>1, <2>1, <2>2, Zenon DEF IInv, TypeOK, Phase
<1>3. OneWriter'
  BY <1>1, Zenon DEF IInv, TypeOK, OneWriter, Locking
<1>4. /\ high'[c] = 0 /\ mark'[c] = NoMark /\ lock' # c
      /\ \A d \in Conn \ {c} : high'[d] = high[d] /\ mark'[d] = mark[d]
                               /\ (lock' = d => lock = d /\ work' = work)
  BY <1>1, Zenon DEF IInv, TypeOK
<1>5. RowsBelow'
  <2>1. ~bypassed => Above(LockedNext(c, mark[c]), mark[c].rows)'
    <3>1. mark'[c].rows = {}
      BY <1>4, NoMarkEmpty, Zenon
    <3> QED  BY <3>1, Zenon DEF Above
  <2>2. ~bypassed => \A d \in Conn \ {c} :
            /\ lock' = d => Above(LockedNext(d, work), work.rows)'
            /\ Above(LockedNext(d, mark[d]), mark[d].rows)'
    BY <1>4, Zenon DEF IInv, RowsBelow, LockedNext
  <2>3. ~bypassed => Above(file.next, file.rows)'
    BY <1>1, Zenon DEF IInv, RowsBelow
  <2> QED  BY <1>1, <1>4, <2>1, <2>2, <2>3, Zenon DEF RowsBelow
<1>6. GivenCovered'
  <2>1. \A d \in Conn : pending'[d] = IF d = c THEN {} ELSE pending[d]
    BY <1>1, Zenon DEF IInv, TypeOK
  <2>2. \A d \in Conn : \A v \in given'[d] : v \in given[d] /\ (v \in pending[d] => v \in pending'[d])
    BY <1>1, <2>1, Zenon DEF IInv, TypeOK
  <2>3. \A d \in Conn : \A v \in pending'[d] : v < high'[d]
    BY <1>4, <2>1, Zenon DEF IInv, GivenCovered
  <2>4. \A d \in Conn : \A v \in given'[d] : v \in pending'[d] \/ v < file'.next
    BY <1>1, <2>2, Zenon DEF IInv, GivenCovered
  <2>5. \A d \in Conn : lock' = d => Covers(d, work)'
    BY <1>4, <2>2, Zenon DEF IInv, GivenCovered, Covers, LockedNext
  <2>6. \A d \in Conn : mark'[d] # NoMark => Covers(d, mark[d])'
    BY <1>4, <2>2, Zenon DEF IInv, GivenCovered, Covers, LockedNext
  <2> QED  BY <2>3, <2>4, <2>5, <2>6, Zenon DEF GivenCovered
<1> QED  BY <1>1, <1>2, <1>3, <1>5, <1>6, Zenon DEF IInv, OwnValuesFresh

-----------------------------------------------------------------------------

LEMMA StepSafe == IInv /\ [Next]_vars => IInv'
<1> SUFFICES ASSUME IInv, [Next]_vars PROVE IInv'
  BY Zenon
<1>1. CASE UNCHANGED vars
  <2>1. UNCHANGED <<file, lock, work, mark, pc, high, insertId, pending, given, reused, bypassed>>
    BY <1>1, Zenon DEF vars, session, history
  <2>2. TypeOK' /\ OneWriter'
    BY <2>1, Zenon DEF IInv, TypeOK, OneWriter
  <2>3. RowsBelow' /\ GivenCovered' /\ OwnValuesFresh'
    BY <2>1, Zenon DEF IInv, RowsBelow, GivenCovered, OwnValuesFresh, Covers, LockedNext
  <2> QED  BY <2>2, <2>3, Zenon DEF IInv
<1>2. ASSUME NEW c \in Conn, Common(c) PROVE IInv'
  BY <1>2, InsertGeneratedSafe, InsertExplicitSafe, StartTransactionSafe, RollbackToSafe,
     CommitSafe, RollbackSafe, CloseSafe, ReconcileSafe, ReconcileFailsSafe, ReadEndsSafe,
     EndsSafe, Zenon DEF Common, CloseStuck
<1>3. ASSUME NEW c \in Conn, Rare(c) PROVE IInv'
  <2>1. CASE Savepoint(c) \/ ReconcileStuck(c) \/ Die(c) \/ DuplicateGenerated(c) \/ Truncate(c)
    BY <2>1, SavepointSafe, ReconcileStuckSafe, EndsSafe, DuplicateGeneratedSafe, TruncateSafe,
       Zenon DEF Die
  <2>2. CASE \E v \in Value : InsertExplicit(c, v, FALSE)
    BY <2>2, InsertExplicitSafe, Zenon
  <2>3. CASE \E w, v \in Value :
                Update(c, w, v) \/ UpdateCopied(c, w, v) \/ DuplicateExplicit(c, w, v)
    BY <2>3, UpdateSafe, StorePastSafe, Zenon DEF UpdateCopied, DuplicateExplicit
  <2>4. CASE \E w \in Value : Delete(c, w)
    BY <2>4, DeleteSafe, Zenon
  <2>5. CASE \E v \in InsertIds : SetInsertId(c, v)
    BY <2>5, SetInsertIdSafe, Zenon
  <2>6. CASE \E n \in AlterValues : AlterNext(c, n)
    BY <2>6, AlterNextSafe, Zenon
  <2> QED  BY <1>3, <2>1, <2>2, <2>3, <2>4, <2>5, <2>6, Zenon DEF Rare
<1> QED  BY <1>1, <1>2, <1>3, Zenon DEF Next

THEOREM InductiveInvariant == Spec => []IInv
BY InitSafe, StepSafe, PTL DEF Spec

(* The committed counter stays above the committed rows, whatever the      *)
(* connections, their increments and offsets and the column's range are,   *)
(* until a statement goes past the counter.                                *)
THEOREM CounterStaysAboveRows == Spec => []CounterAboveRows
<1>1. IInv => CounterAboveRows
  <2> SUFFICES ASSUME IInv, ~bypassed, NEW v \in file.rows
               PROVE  v < file.next \/ file.next = MaxValue
    BY Zenon DEF CounterAboveRows
  <2>1. file.next \in Nat /\ v \in Value
    BY Zenon DEF IInv, TypeOK, Table
  <2>2. v < file.next \/ file.next >= MaxValue
    BY Zenon DEF IInv, RowsBelow, Above
  <2> QED  BY <2>1, <2>2, AutoIncrementAssumption DEF Value
<1> QED  BY <1>1, InductiveInvariant, PTL

(* No value a connection was given goes out of cover of the counter or of  *)
(* the connection's own mark, short of death, of a close while stuck and   *)
(* of setting the counter back.                                            *)
THEOREM ConsumedStayCovered == Spec => []ConsumedCovered
<1>1. IInv => ConsumedCovered
  BY Zenon DEF IInv, GivenCovered, ConsumedCovered
<1> QED  BY <1>1, InductiveInvariant, PTL

(* A connection is never given one value twice. *)
THEOREM OwnValuesStayFresh == Spec => []OwnValuesFresh
<1>1. IInv => OwnValuesFresh
  BY Zenon DEF IInv
<1> QED  BY <1>1, InductiveInvariant, PTL
=============================================================================
