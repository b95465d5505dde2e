----------------------- MODULE CatalogGenerationProofs -----------------------
(***************************************************************************)
(* Plans, caches and seals are current for any number of connections and   *)
(* of write statements.                                                    *)
(***************************************************************************)
EXTENDS CatalogGeneration, TLAPS

Entry == [gen : Nat, content : Nat]

Catalog == [gen : Nat \ {0}, content : Nat, seal : Entry]

Session == [gen : Nat, observed : Int, cache : Entry, retained : Entry,
            user : BOOLEAN, synced : BOOLEAN, abandoned : BOOLEAN]

Statement == [pc : {"idle", "generation", "browse", "plan", "planned",
                    "seal", "commit", "poisoned", "load"},
              kind : {"none", "read", "dml", "ddl"},
              plan : Nat, guard : Nat, seen : Int]

TypeOK ==
    /\ file \in Catalog /\ work \in Catalog
    /\ lock \in Conn \cup {NoConn}
    /\ readers \in SUBSET Conn
    /\ version \in [Conn -> Nat]
    /\ sess \in [Conn -> Session]
    /\ stmt \in [Conn -> Statement]
    /\ spent \in Nat

(* Who holds which lock follows from what its session and statement are    *)
(* doing, and no data version is observed before it was there.             *)
Role(c) ==
    /\ lock = c <=> sess[c].user \/ stmt[c].kind \in {"dml", "ddl"}
    /\ c \in readers <=> stmt[c].kind = "read"
    /\ stmt[c].kind = "none" <=> stmt[c].pc \in {"idle", "generation", "browse", "poisoned", "load"}
    /\ stmt[c].pc = "seal" => stmt[c].kind = "ddl"
    /\ stmt[c].pc = "commit" => stmt[c].kind \in {"dml", "ddl"}
    /\ sess[c].user => /\ stmt[c].pc \in {"idle", "plan", "planned"}
                       /\ stmt[c].kind \in {"none", "dml"}
    /\ sess[c].observed <= version[c] /\ stmt[c].seen <= version[c]

(* What the lock holder's uncommitted catalog may be. *)
HolderWork(c) ==
    lock = c =>
        /\ stmt[c].pc \in {"idle", "plan", "planned"} \/ stmt[c].kind = "dml" => work = file
        /\ work.gen >= file.gen
        /\ work.gen = file.gen => work.content = file.content
        /\ stmt[c].pc = "commit" /\ stmt[c].kind = "ddl" /\ ~sess[c].abandoned =>
              work.seal = [gen |-> work.gen, content |-> work.content]

(* Descriptors kept under the committed generation are of its content.     *)
Fresh(e) ==
    /\ e.gen <= file.gen
    /\ e.gen = file.gen => e.content = file.content

(* A session may lag behind the committed generation only while the data   *)
(* version tells it so, and never inside a transaction.                    *)
Current(c) ==
    IF stmt[c].pc \in {"seal", "commit"}
    THEN sess[c].gen = work.gen
    ELSE /\ sess[c].gen <= file.gen
         /\ \/ sess[c].observed = version[c]
            \/ sess[c].user /\ sess[c].synced
            \/ stmt[c].kind # "none"
            => sess[c].gen = file.gen

Knows(c) ==
    ~sess[c].abandoned /\ stmt[c].pc \notin {"poisoned", "load"} =>
        /\ Current(c)
        /\ Fresh(sess[c].cache) /\ Fresh(sess[c].retained)
        /\ stmt[c].pc = "planned" => stmt[c].plan = file.content

(* A seal names a content only while it is the content. *)
Honest(w) == w.seal.gen = 0 \/ w.seal.content = w.content

(* Only a session that abandoned a DDL, and has not opened the file again, *)
(* can have left a seal behind that does not match.                        *)
Sealed ==
    \/ file.seal = [gen |-> file.gen, content |-> file.content]
    \/ \E c \in Conn : sess[c].abandoned /\ stmt[c].pc # "load"

Mine(c) == Role(c) /\ HolderWork(c) /\ Knows(c)

(* The inductive invariant. *)
IInv ==
    /\ TypeOK
    /\ \A c \in Conn : Mine(c)
    /\ Honest(file) /\ (lock # NoConn => Honest(work))
    /\ Sealed

-----------------------------------------------------------------------------

LEMMA InitSafe == Init => IInv
<1> SUFFICES ASSUME Init PROVE IInv
  BY Zenon
<1>1. /\ file = [gen |-> 1, content |-> 0, seal |-> [gen |-> 1, content |-> 0]]
      /\ lock = NoConn /\ work = file /\ readers = {}
      /\ version = [c \in Conn |-> 0] /\ sess = [c \in Conn |-> Opened(1)]
      /\ stmt = [c \in Conn |-> Idle] /\ spent = 0
  BY Zenon DEF Init
<1>2. Opened(1) \in Session /\ Idle \in Statement
  BY DEF Opened, Unobserved, Empty, Session, Entry, Idle, Statement
<1>3. TypeOK
  BY <1>1, <1>2 DEF TypeOK, Catalog, Entry
<1>4. ASSUME NEW c \in Conn PROVE Mine(c)
  <2>1. sess[c] = Opened(1) /\ stmt[c] = Idle /\ version[c] = 0 /\ lock # c
    BY <1>1, NoConnAssumption, Zenon
  <2>2. Role(c)
    BY <1>1, <2>1 DEF Role, Opened, Idle, Unobserved
  <2>3. HolderWork(c)
    BY <2>1, Zenon DEF HolderWork
  <2>4. Knows(c)
    BY <1>1, <2>1 DEF Knows, Current, Fresh, Opened, Idle, Empty, Unobserved
  <2> QED  BY <2>2, <2>3, <2>4, Zenon DEF Mine
<1>5. Honest(file) /\ Sealed
  BY <1>1, Zenon DEF Honest, Sealed
<1> QED  BY <1>1, <1>3, <1>4, <1>5, Zenon DEF IInv

(* A step of c that leaves the committed catalog alone concerns nobody     *)
(* else.                                                                   *)
LEMMA LocalStep ==
    ASSUME IInv, NEW c \in Conn, TypeOK',
           file' = file, version' = version,
           \A d \in Conn \ {c} :
               /\ sess'[d] = sess[d] /\ stmt'[d] = stmt[d]
               /\ d \in readers' <=> d \in readers
               /\ lock' = d <=> lock = d,
           lock \notin {c, NoConn} => work' = work,
           Mine(c)', lock' # NoConn => Honest(work)',
           sess[c].abandoned /\ stmt[c].pc # "load" =>
               sess'[c].abandoned /\ stmt'[c].pc # "load"
    PROVE  IInv'
<1>1. ASSUME NEW d \in Conn \ {c} PROVE Mine(d)'
  <2>1. /\ Role(d) /\ HolderWork(d) /\ Knows(d)
        /\ sess'[d] = sess[d] /\ stmt'[d] = stmt[d] /\ version'[d] = version[d]
        /\ d \in readers' <=> d \in readers
        /\ lock' = d <=> lock = d
        /\ lock = d => work' = work
    BY NoConnAssumption, Zenon DEF IInv, Mine
  <2>2. Role(d)'
    BY <2>1, Zenon DEF Role
  <2>3. HolderWork(d)'
    BY <2>1, Zenon DEF HolderWork
  <2>4. stmt[d].pc \in {"seal", "commit"} => lock = d
    BY <2>1, Zenon DEF Role
  <2>5. Knows(d)'
    BY <2>1, <2>4, Zenon DEF Knows, Current, Fresh
  <2> QED  BY <2>2, <2>3, <2>5, Zenon DEF Mine
<1>2. Sealed'
  <2>1. CASE file.seal = [gen |-> file.gen, content |-> file.content]
    BY <2>1, Zenon DEF Sealed
  <2>2. ASSUME NEW d \in Conn, sess[d].abandoned, stmt[d].pc # "load" PROVE Sealed'
    BY <2>2, Zenon DEF Sealed
  <2> QED  BY <2>1, <2>2, Zenon DEF IInv, Sealed
<1> QED  BY <1>1, <1>2, Zenon DEF IInv, Honest

(* What synchronizing does to a session. *)
LEMMA SynchronizedSession ==
    ASSUME NEW s \in Session, NEW v \in Int, NEW g \in Nat
    PROVE  LET t == Synchronized(s, v, g)
           IN  /\ t \in Session
               /\ t.user = s.user /\ t.synced = s.user /\ t.abandoned = s.abandoned
               /\ t.retained = s.retained
               /\ (s.user /\ s.synced) \/ v = s.observed =>
                      t.gen = s.gen /\ t.observed = s.observed /\ t.cache = s.cache
               /\ ~((s.user /\ s.synced) \/ v = s.observed) =>
                      t.gen = g /\ t.observed = v /\ (t.cache = s.cache \/ t.cache = Empty)
<1>1. Empty \in Entry
  BY Zenon DEF Empty, Entry
<1>2. CASE (s.user /\ s.synced) \/ v = s.observed
  BY <1>2, Zenon DEF Synchronized, Session
<1>3. CASE ~((s.user /\ s.synced) \/ v = s.observed)
  BY <1>1, <1>3, Zenon DEF Synchronized, Session
<1> QED  BY <1>2, <1>3, Zenon

(* The statement Analyse leaves. *)
BegunStatement(kind, g) == [Idle EXCEPT !.pc = "plan", !.kind = kind, !.guard = g]

LEMMA Begun ==
    ASSUME NEW kind \in {"read", "dml", "ddl"}, NEW g \in Nat
    PROVE  LET b == BegunStatement(kind, g)
           IN  b \in Statement /\ b.pc = "plan" /\ b.kind = kind /\ b.seen = 0
<1>1. Idle \in Statement /\ Idle.seen = 0
  BY DEF Idle, Statement
<1> QED  BY <1>1, Zenon DEF Statement, BegunStatement

(* After synchronizing inside a transaction a session knows the committed  *)
(* generation, and keeps only descriptors that go with it.                 *)
LEMMA AnalyseKnows ==
    ASSUME IInv, NEW c \in Conn, stmt[c].pc \in {"idle", "planned"},
           NEW kind \in {"read", "dml", "ddl"}, Analyse(c, sess[c], kind, file.gen),
           file' = file, version' = version
    PROVE  /\ sess' \in [Conn -> Session] /\ stmt' \in [Conn -> Statement]
           /\ \A d \in Conn \ {c} : sess'[d] = sess[d] /\ stmt'[d] = stmt[d]
           /\ stmt'[c].pc = "plan" /\ stmt'[c].kind = kind /\ stmt'[c].seen = 0
           /\ sess'[c].user = sess[c].user /\ sess'[c].abandoned = sess[c].abandoned
           /\ sess'[c].observed <= version[c]
           /\ Knows(c)'
<1> DEFINE t == Synchronized(sess[c], version[c], file.gen)
<1>1. /\ sess[c] \in Session /\ version[c] \in Nat /\ file \in Catalog /\ file.gen \in Nat
      /\ sess \in [Conn -> Session] /\ stmt \in [Conn -> Statement]
  BY Zenon DEF IInv, TypeOK, Catalog
<1>2. /\ t \in Session
      /\ t.user = sess[c].user /\ t.abandoned = sess[c].abandoned
      /\ t.retained = sess[c].retained
      /\ (sess[c].user /\ sess[c].synced) \/ version[c] = sess[c].observed =>
             t.gen = sess[c].gen /\ t.observed = sess[c].observed /\ t.cache = sess[c].cache
      /\ ~((sess[c].user /\ sess[c].synced) \/ version[c] = sess[c].observed) =>
             t.gen = file.gen /\ t.observed = version[c]
             /\ (t.cache = sess[c].cache \/ t.cache = Empty)
  BY <1>1, SynchronizedSession
<1> DEFINE b == BegunStatement(kind, t.gen)
<1>3. sess' = [sess EXCEPT ![c] = t] /\ stmt' = [stmt EXCEPT ![c] = b]
  BY Zenon DEF Analyse, BegunStatement
<1> HIDE DEF t
<1>4. t.gen \in Nat
  BY <1>2, Zenon DEF Session
<1>a. b \in Statement /\ b.pc = "plan" /\ b.kind = kind /\ b.seen = 0
  BY <1>4, Begun, Zenon
<1> HIDE DEF b
<1>5. /\ sess' \in [Conn -> Session] /\ stmt' \in [Conn -> Statement]
      /\ \A d \in Conn \ {c} : sess'[d] = sess[d] /\ stmt'[d] = stmt[d]
      /\ sess'[c] = t /\ stmt'[c] = b
  BY <1>1, <1>2, <1>3, <1>a, Zenon
<1>6. sess[c].observed <= version[c] /\ Knows(c)
  BY Zenon DEF IInv, Mine, Role
<1>7. t.observed <= version[c]
  BY <1>1, <1>2, <1>6
<1>8. Knows(c)'
  <2> SUFFICES ASSUME ~t.abandoned PROVE t.gen = file.gen /\ Fresh(t.cache) /\ Fresh(t.retained)
    BY <1>1, <1>5, <1>a DEF Knows, Current, Fresh
  <2>1. Current(c) /\ Fresh(sess[c].cache) /\ Fresh(sess[c].retained)
    BY <1>2, <1>6, Zenon DEF Knows
  <2>2. t.gen = file.gen
    <3>1. sess[c].observed = version[c] \/ (sess[c].user /\ sess[c].synced) => sess[c].gen = file.gen
      BY <2>1, Zenon DEF Current
    <3> QED  BY <1>2, <3>1, Zenon
  <2>3. Fresh(Empty)
    BY <1>1 DEF Fresh, Empty, Catalog
  <2> QED  BY <1>2, <2>1, <2>2, <2>3, Zenon
<1> QED  BY <1>2, <1>5, <1>7, <1>8, <1>a, Zenon

LEMMA Moved ==
    ASSUME TypeOK, NEW c \in Conn,
           NEW pc \in {"browse", "seal", "commit", "load"}, MoveTo(c, pc)
    PROVE  /\ stmt' \in [Conn -> Statement]
           /\ \A d \in Conn \ {c} : stmt'[d] = stmt[d]
           /\ stmt'[c].pc = pc /\ stmt'[c].kind = stmt[c].kind /\ stmt'[c].seen = stmt[c].seen
BY DEF TypeOK, MoveTo, Statement

LEMMA IdleStatement ==
    Idle \in Statement /\ Idle.pc = "idle" /\ Idle.kind = "none" /\ Idle.seen = 0
BY DEF Idle, Statement

LEMMA Released ==
    ASSUME TypeOK, NEW c \in Conn, NEW s \in Session,
           NEW pc \in {"idle", "poisoned"}, Release(c, s, pc)
    PROVE  /\ lock' = NoConn /\ work' = file'
           /\ sess' \in [Conn -> Session] /\ stmt' \in [Conn -> Statement]
           /\ \A d \in Conn \ {c} : sess'[d] = sess[d] /\ stmt'[d] = stmt[d]
           /\ sess'[c] = s
           /\ stmt'[c].pc = pc /\ stmt'[c].kind = "none" /\ stmt'[c].seen = 0
<1> DEFINE b == [Idle EXCEPT !.pc = pc]
<1>1. b \in Statement /\ b.pc = pc /\ b.kind = "none" /\ b.seen = 0
  BY IdleStatement, Zenon DEF Statement
<1>2. /\ lock' = NoConn /\ work' = file'
      /\ sess' = [sess EXCEPT ![c] = s] /\ stmt' = [stmt EXCEPT ![c] = b]
  BY Zenon DEF Release
<1> HIDE DEF b
<1> QED  BY <1>1, <1>2, Zenon DEF TypeOK

LEMMA InvalidatedSession ==
    ASSUME NEW s \in Session
    PROVE  LET t == Invalidated(s)
           IN  /\ t \in Session /\ t.cache = Empty
               /\ t.gen = s.gen /\ t.observed = s.observed /\ t.retained = s.retained
               /\ t.user = s.user /\ t.synced = s.synced /\ t.abandoned = s.abandoned
<1>1. Empty \in Entry
  BY Zenon DEF Empty, Entry
<1> QED  BY <1>1, Zenon DEF Invalidated, Session

LEMMA EmptyIsFresh == IInv => Fresh(Empty)
BY DEF IInv, TypeOK, Catalog, Fresh, Empty

-----------------------------------------------------------------------------

LEMMA ReadDataVersionSafe ==
    ASSUME IInv, NEW c \in Conn, ReadDataVersion(c)
    PROVE  IInv'
<1> DEFINE pc == IF version[c] = sess[c].observed THEN "browse" ELSE "generation"
           b == [Idle EXCEPT !.pc = pc, !.seen = version[c]]
<1>1. /\ stmt[c].pc = "idle" /\ ~sess[c].user /\ stmt' = [stmt EXCEPT ![c] = b]
      /\ UNCHANGED <<file, lock, work, readers, version, sess, spent>>
  BY Zenon DEF ReadDataVersion, At
<1>2. pc \in {"browse", "generation"} /\ version[c] \in Int
  BY DEF IInv, TypeOK
<1> HIDE DEF pc
<1>3. b \in Statement /\ b.pc = pc /\ b.kind = "none" /\ b.seen = version[c]
  BY <1>2, IdleStatement, Zenon DEF Statement
<1> HIDE DEF b
<1>4. stmt'[c] = b /\ stmt' \in [Conn -> Statement] /\ \A d \in Conn \ {c} : stmt'[d] = stmt[d]
  BY <1>1, <1>3, Zenon DEF IInv, TypeOK
<1>5. TypeOK'
  BY <1>1, <1>4, Zenon DEF IInv, TypeOK
<1>6. Mine(c) /\ stmt[c].kind = "none" /\ version[c] \in Nat
  BY <1>1, Zenon DEF IInv, Mine, Role, TypeOK
<1>7. Role(c)'
  BY <1>1, <1>2, <1>3, <1>4, <1>6 DEF Mine, Role
<1>8. HolderWork(c)' /\ Knows(c)'
  BY <1>1, <1>2, <1>3, <1>4, <1>6, Zenon DEF Mine, Role, HolderWork, Knows, Current, Fresh
<1> QED  BY <1>1, <1>2, <1>3, <1>4, <1>5, <1>7, <1>8, LocalStep, Zenon DEF IInv, Mine, Honest

LEMMA ReadGenerationSafe ==
    ASSUME IInv, NEW c \in Conn, ReadGeneration(c)
    PROVE  IInv'
<1> DEFINE t == Synchronized(sess[c], stmt[c].seen, file.gen)
<1>1. /\ stmt[c].pc = "generation" /\ sess' = [sess EXCEPT ![c] = t] /\ MoveTo(c, "browse")
      /\ UNCHANGED <<file, lock, work, readers, version, spent>>
  BY Zenon DEF ReadGeneration, At
<1>2. /\ sess[c] \in Session /\ stmt[c].seen \in Int /\ file.gen \in Nat /\ version[c] \in Nat
      /\ TypeOK /\ Mine(c)
  BY Zenon DEF IInv, TypeOK, Catalog, Statement
<1>3. ~sess[c].user /\ stmt[c].kind = "none" /\ lock # c /\ c \notin readers
      /\ stmt[c].seen <= version[c] /\ sess[c].observed <= version[c]
  BY <1>1, <1>2, Zenon DEF Mine, Role
<1>4. /\ t \in Session
      /\ t.user = sess[c].user /\ t.abandoned = sess[c].abandoned
      /\ t.retained = sess[c].retained
      /\ stmt[c].seen = sess[c].observed =>
             t.gen = sess[c].gen /\ t.observed = sess[c].observed /\ t.cache = sess[c].cache
      /\ stmt[c].seen # sess[c].observed =>
             t.gen = file.gen /\ t.observed = stmt[c].seen
             /\ (t.cache = sess[c].cache \/ t.cache = Empty)
  <2>1. sess[c] \in Session /\ stmt[c].seen \in Int /\ file.gen \in Nat
    BY <1>2, Zenon
  <2>2. /\ t \in Session
        /\ t.user = sess[c].user /\ t.synced = sess[c].user /\ t.abandoned = sess[c].abandoned
        /\ t.retained = sess[c].retained
        /\ (sess[c].user /\ sess[c].synced) \/ stmt[c].seen = sess[c].observed =>
               t.gen = sess[c].gen /\ t.observed = sess[c].observed /\ t.cache = sess[c].cache
        /\ ~((sess[c].user /\ sess[c].synced) \/ stmt[c].seen = sess[c].observed) =>
               t.gen = file.gen /\ t.observed = stmt[c].seen
               /\ (t.cache = sess[c].cache \/ t.cache = Empty)
    BY <2>1, SynchronizedSession, Zenon
  <2> HIDE DEF t
  <2> QED  BY <1>3, <2>2, Zenon
<1> HIDE DEF t
<1>5. /\ stmt' \in [Conn -> Statement] /\ \A d \in Conn \ {c} : stmt'[d] = stmt[d]
      /\ stmt'[c].pc = "browse" /\ stmt'[c].kind = "none" /\ stmt'[c].seen = stmt[c].seen
  BY <1>1, <1>2, <1>3, Moved, Zenon
<1>6. /\ sess' \in [Conn -> Session] /\ sess'[c] = t
      /\ \A d \in Conn \ {c} : sess'[d] = sess[d]
  BY <1>1, <1>2, <1>4, Zenon DEF TypeOK
<1>7. TypeOK'
  BY <1>1, <1>2, <1>5, <1>6, Zenon DEF TypeOK
<1>8. Role(c)' /\ HolderWork(c)'
  BY <1>1, <1>3, <1>4, <1>5, <1>6, Zenon DEF Role, HolderWork
<1>9. Knows(c)'
  <2> SUFFICES ASSUME ~t.abandoned
               PROVE  /\ t.gen <= file.gen /\ (t.observed = version[c] => t.gen = file.gen)
                      /\ Fresh(t.cache) /\ Fresh(t.retained)
    BY <1>1, <1>3, <1>4, <1>5, <1>6, Zenon DEF Knows, Current, Fresh
  <2>1. Current(c) /\ Fresh(sess[c].cache) /\ Fresh(sess[c].retained)
    BY <1>1, <1>2, <1>4, Zenon DEF Mine, Knows
  <2>2. t.gen <= file.gen /\ (t.observed = version[c] => t.gen = file.gen)
    BY <1>1, <1>2, <1>4, <2>1 DEF Current
  <2> QED  BY <1>4, <2>1, <2>2, EmptyIsFresh, Zenon
<1> QED  BY <1>1, <1>4, <1>5, <1>6, <1>7, <1>8, <1>9, LocalStep, Zenon DEF IInv, Mine, Honest

(* What the descriptors of a session that is no longer behind are. *)
LEMMA DescriptorsFresh ==
    ASSUME IInv, NEW c \in Conn, stmt[c].pc \in {"browse", "plan"}, ~sess[c].abandoned
    PROVE  LET e == [gen |-> sess[c].gen, content |-> Descriptors(c)]
           IN  /\ sess[c].gen = file.gen => Descriptors(c) = file.content
               /\ Fresh(e)
<1>1. Mine(c) /\ TypeOK
  BY Zenon DEF IInv
<1>2. View(c).content = file.content
  BY <1>1, Zenon DEF Mine, Role, HolderWork, View
<1>3. sess[c].gen <= file.gen /\ Fresh(sess[c].cache)
  BY <1>1, Zenon DEF Mine, Knows, Current
<1>4. sess[c].gen = file.gen => Descriptors(c) = file.content
  BY <1>2, <1>3, Zenon DEF Descriptors, Fresh
<1> QED  BY <1>3, <1>4, Zenon DEF Fresh

LEMMA DescriptorsType ==
    ASSUME TypeOK, NEW c \in Conn
    PROVE  [gen |-> sess[c].gen, content |-> Descriptors(c)] \in Entry
<1>1. /\ sess[c] \in Session /\ sess[c].gen \in Nat /\ sess[c].cache \in Entry
      /\ sess[c].cache.content \in Nat
      /\ work \in Catalog /\ file \in Catalog
  BY Zenon DEF TypeOK, Session, Entry
<1>2. View(c) \in Catalog
  BY <1>1, Zenon DEF View
<1>3. Descriptors(c) \in Nat
  BY <1>1, <1>2, Zenon DEF Descriptors, Catalog
<1> QED  BY <1>1, <1>3, Zenon DEF Entry

LEMMA BrowseSafe ==
    ASSUME IInv, NEW c \in Conn, Browse(c)
    PROVE  IInv'
<1> DEFINE e == [gen |-> sess[c].gen, content |-> Descriptors(c)]
<1>1. /\ stmt[c].pc = "browse" /\ sess' = [sess EXCEPT ![c].cache = e]
      /\ stmt' = [stmt EXCEPT ![c] = Idle]
      /\ UNCHANGED <<file, lock, work, readers, version, spent>>
  BY Zenon DEF Browse, At
<1>2. TypeOK /\ Mine(c) /\ version[c] \in Nat
  BY Zenon DEF IInv, TypeOK
<1>3. e \in Entry
  BY <1>2, DescriptorsType, Zenon
<1>4. ~sess[c].abandoned => Fresh(e)
  BY <1>1, DescriptorsFresh, Zenon
<1> HIDE DEF e
<1>5. /\ sess' \in [Conn -> Session] /\ \A d \in Conn \ {c} : sess'[d] = sess[d]
      /\ sess'[c].cache = e /\ sess'[c].gen = sess[c].gen /\ sess'[c].observed = sess[c].observed
      /\ sess'[c].user = sess[c].user /\ sess'[c].synced = sess[c].synced
      /\ sess'[c].abandoned = sess[c].abandoned /\ sess'[c].retained = sess[c].retained
  BY <1>1, <1>2, <1>3, ZenonT(30) DEF TypeOK, Session
<1>6. /\ stmt' \in [Conn -> Statement] /\ \A d \in Conn \ {c} : stmt'[d] = stmt[d]
      /\ stmt'[c].pc = "idle" /\ stmt'[c].kind = "none" /\ stmt'[c].seen = 0
  BY <1>1, <1>2, IdleStatement, Zenon DEF TypeOK
<1>7. TypeOK'
  BY <1>1, <1>2, <1>5, <1>6, Zenon DEF TypeOK
<1>8. Role(c)' /\ HolderWork(c)'
  BY <1>1, <1>2, <1>5, <1>6 DEF Mine, Role, HolderWork
<1>9. Knows(c)'
  BY <1>1, <1>2, <1>4, <1>5, <1>6 DEF Mine, Role, Knows, Current, Fresh
<1> QED  BY <1>1, <1>5, <1>6, <1>7, <1>8, <1>9, LocalStep DEF IInv, Mine, Honest

LEMMA BeginPlanningSafe ==
    ASSUME IInv, NEW c \in Conn, NEW kind \in {"dml", "ddl"}, BeginPlanning(c, kind)
    PROVE  IInv'
<1>1. /\ stmt[c].pc = "idle" /\ ~sess[c].user /\ lock = NoConn
      /\ lock' = c /\ work' = file /\ spent' = spent + 1
      /\ Analyse(c, sess[c], kind, file.gen)
      /\ UNCHANGED <<file, readers, version>>
  BY Zenon DEF BeginPlanning, At
<1>2. TypeOK /\ Mine(c) /\ version[c] \in Nat /\ file.gen \in Nat /\ stmt[c].kind = "none"
  BY <1>1, Zenon DEF IInv, TypeOK, Catalog, Mine, Role
<1>3. /\ sess' \in [Conn -> Session] /\ stmt' \in [Conn -> Statement]
      /\ \A d \in Conn \ {c} : sess'[d] = sess[d] /\ stmt'[d] = stmt[d]
      /\ stmt'[c].pc = "plan" /\ stmt'[c].kind = kind /\ stmt'[c].seen = 0
      /\ sess'[c].user = sess[c].user /\ sess'[c].abandoned = sess[c].abandoned
      /\ sess'[c].observed <= version[c]
      /\ Knows(c)'
  BY <1>1, AnalyseKnows, Zenon
<1>4. TypeOK'
  BY <1>1, <1>2, <1>3 DEF TypeOK
<1>5. Role(c)' /\ HolderWork(c)'
  BY <1>1, <1>2, <1>3 DEF Mine, Role, HolderWork
<1>6. Mine(c)' /\ Honest(work)'
  BY <1>1, <1>3, <1>5, Zenon DEF Mine, IInv, Honest
<1>7. \A d \in Conn \ {c} : lock' = d <=> lock = d
  BY <1>1, NoConnAssumption, Zenon
<1> QED  BY <1>1, <1>3, <1>4, <1>6, <1>7, LocalStep, Zenon

LEMMA StartTransactionSafe ==
    ASSUME IInv, NEW c \in Conn, StartTransaction(c)
    PROVE  IInv'
<1>1. /\ stmt[c].pc = "idle" /\ ~sess[c].user /\ lock = NoConn
      /\ lock' = c /\ work' = file /\ spent' = spent + 1
      /\ sess' = [sess EXCEPT ![c].user = TRUE, ![c].synced = FALSE]
      /\ UNCHANGED <<file, readers, version, stmt>>
  BY Zenon DEF StartTransaction, At
<1>2. TypeOK /\ Mine(c) /\ file.gen \in Nat /\ stmt[c].kind = "none"
  BY <1>1, Zenon DEF IInv, TypeOK, Catalog, Mine, Role
<1>3. /\ sess' \in [Conn -> Session] /\ \A d \in Conn \ {c} : sess'[d] = sess[d]
      /\ sess'[c].cache = sess[c].cache /\ sess'[c].gen = sess[c].gen
      /\ sess'[c].observed = sess[c].observed
      /\ sess'[c].user = TRUE /\ sess'[c].synced = FALSE
      /\ sess'[c].abandoned = sess[c].abandoned /\ sess'[c].retained = sess[c].retained
  BY <1>1, <1>2, ZenonT(30) DEF TypeOK, Session
<1>4. TypeOK'
  BY <1>1, <1>2, <1>3 DEF TypeOK
<1>5. Role(c)' /\ HolderWork(c)'
  BY <1>1, <1>2, <1>3 DEF Mine, Role, HolderWork
<1>6. Knows(c)'
  BY <1>1, <1>2, <1>3, ZenonT(30) DEF Mine, Knows, Current, Fresh
<1>7. \A d \in Conn \ {c} : lock' = d <=> lock = d
  BY <1>1, NoConnAssumption, Zenon
<1> QED  BY <1>1, <1>3, <1>4, <1>5, <1>6, <1>7, LocalStep, Zenon DEF IInv, Mine, Honest

LEMMA UserStatementSafe ==
    ASSUME IInv, NEW c \in Conn, UserStatement(c)
    PROVE  IInv'
<1>1. /\ stmt[c].pc = "idle" /\ sess[c].user /\ Analyse(c, sess[c], "dml", work.gen)
      /\ UNCHANGED <<file, lock, work, readers, version, spent>>
  BY Zenon DEF UserStatement, At
<1>2. TypeOK /\ Mine(c) /\ version[c] \in Nat /\ lock = c /\ work = file /\ stmt[c].kind = "none"
  BY <1>1, Zenon DEF IInv, TypeOK, Mine, Role, HolderWork
<1>3. /\ sess' \in [Conn -> Session] /\ stmt' \in [Conn -> Statement]
      /\ \A d \in Conn \ {c} : sess'[d] = sess[d] /\ stmt'[d] = stmt[d]
      /\ stmt'[c].pc = "plan" /\ stmt'[c].kind = "dml" /\ stmt'[c].seen = 0
      /\ sess'[c].user = sess[c].user /\ sess'[c].abandoned = sess[c].abandoned
      /\ sess'[c].observed <= version[c]
      /\ Knows(c)'
  BY <1>1, <1>2, AnalyseKnows, Zenon
<1>4. TypeOK'
  BY <1>1, <1>2, <1>3, Zenon DEF TypeOK
<1>5. Role(c)' /\ HolderWork(c)'
  BY <1>1, <1>2, <1>3 DEF Mine, Role, HolderWork
<1> QED  BY <1>1, <1>3, <1>4, <1>5, LocalStep, Zenon DEF IInv, Mine, Honest

LEMMA BeginReadSafe ==
    ASSUME IInv, NEW c \in Conn, BeginRead(c)
    PROVE  IInv'
<1>1. /\ stmt[c].pc = "idle" /\ ~sess[c].user /\ readers' = readers \cup {c}
      /\ Analyse(c, sess[c], "read", file.gen)
      /\ UNCHANGED <<file, lock, work, version, spent>>
  BY Zenon DEF BeginRead, At
<1>2. TypeOK /\ Mine(c) /\ version[c] \in Nat /\ stmt[c].kind = "none" /\ lock # c
  BY <1>1, Zenon DEF IInv, TypeOK, Mine, Role
<1>3. /\ sess' \in [Conn -> Session] /\ stmt' \in [Conn -> Statement]
      /\ \A d \in Conn \ {c} : sess'[d] = sess[d] /\ stmt'[d] = stmt[d]
      /\ stmt'[c].pc = "plan" /\ stmt'[c].kind = "read" /\ stmt'[c].seen = 0
      /\ sess'[c].user = sess[c].user /\ sess'[c].abandoned = sess[c].abandoned
      /\ sess'[c].observed <= version[c]
      /\ Knows(c)'
  BY <1>1, <1>2, AnalyseKnows, Zenon
<1>4. TypeOK'
  BY <1>1, <1>2, <1>3, Zenon DEF TypeOK
<1>5. Role(c)' /\ HolderWork(c)'
  BY <1>1, <1>2, <1>3 DEF Mine, Role, HolderWork
<1> QED  BY <1>1, <1>3, <1>4, <1>5, LocalStep, Zenon DEF IInv, Mine, Honest

LEMMA ReusePlanSafe ==
    ASSUME IInv, NEW c \in Conn, ReusePlan(c)
    PROVE  IInv'
<1>1. /\ stmt[c].pc = "plan" /\ sess[c].retained.gen = sess[c].gen
      /\ stmt' = [stmt EXCEPT ![c].pc = "planned", ![c].plan = sess[c].retained.content]
      /\ UNCHANGED <<file, lock, work, readers, version, sess, spent>>
  BY Zenon DEF ReusePlan, At
<1>2. TypeOK /\ Mine(c) /\ stmt[c].kind # "none" /\ sess[c].retained.content \in Nat
  BY <1>1, Zenon DEF IInv, TypeOK, Session, Entry, Mine, Role
<1>3. /\ stmt' \in [Conn -> Statement] /\ \A d \in Conn \ {c} : stmt'[d] = stmt[d]
      /\ stmt'[c].pc = "planned" /\ stmt'[c].kind = stmt[c].kind /\ stmt'[c].seen = stmt[c].seen
      /\ stmt'[c].plan = sess[c].retained.content
  BY <1>1, <1>2, ZenonT(30) DEF TypeOK, Statement
<1>4. TypeOK'
  BY <1>1, <1>2, <1>3, Zenon DEF TypeOK
<1>5. Role(c)' /\ HolderWork(c)'
  BY <1>1, <1>2, <1>3, Zenon DEF Mine, Role, HolderWork
<1>6. Knows(c)'
  BY <1>1, <1>2, <1>3, Zenon DEF Mine, Knows, Current, Fresh
<1> QED  BY <1>1, <1>3, <1>4, <1>5, <1>6, LocalStep, Zenon DEF IInv, Mine, Honest

LEMMA MakePlanSafe ==
    ASSUME IInv, NEW c \in Conn, MakePlan(c)
    PROVE  IInv'
<1> DEFINE e == [gen |-> sess[c].gen, content |-> Descriptors(c)]
<1>1. /\ stmt[c].pc = "plan"
      /\ stmt' = [stmt EXCEPT ![c].pc = "planned", ![c].plan = e.content]
      /\ \/ sess' = [sess EXCEPT ![c].cache = e]
         \/ sess' = [sess EXCEPT ![c].cache = e, ![c].retained = e]
      /\ UNCHANGED <<file, lock, work, readers, version, spent>>
  BY Zenon DEF MakePlan, At
<1>2. TypeOK /\ Mine(c) /\ stmt[c].kind # "none"
  BY <1>1, Zenon DEF IInv, Mine, Role
<1>3. e \in Entry
  BY <1>2, DescriptorsType, Zenon
<1>4. ~sess[c].abandoned => Fresh(e) /\ e.content = file.content
  <2> SUFFICES ASSUME ~sess[c].abandoned PROVE Fresh(e) /\ e.content = file.content
    BY Zenon
  <2>1. sess[c].gen = file.gen
    BY <1>1, <1>2, Zenon DEF Mine, Knows, Current
  <2> QED  BY <1>1, <2>1, DescriptorsFresh, Zenon
<1> HIDE DEF e
<1>5. /\ sess' \in [Conn -> Session] /\ \A d \in Conn \ {c} : sess'[d] = sess[d]
      /\ sess'[c].cache = e /\ sess'[c].gen = sess[c].gen /\ sess'[c].observed = sess[c].observed
      /\ sess'[c].user = sess[c].user /\ sess'[c].synced = sess[c].synced
      /\ sess'[c].abandoned = sess[c].abandoned
      /\ sess'[c].retained = sess[c].retained \/ sess'[c].retained = e
  BY <1>1, <1>2, <1>3 DEF TypeOK, Session
<1>6. /\ stmt' \in [Conn -> Statement] /\ \A d \in Conn \ {c} : stmt'[d] = stmt[d]
      /\ stmt'[c].pc = "planned" /\ stmt'[c].kind = stmt[c].kind /\ stmt'[c].seen = stmt[c].seen
      /\ stmt'[c].plan = e.content
  <2> DEFINE p == e.content
  <2>1. p \in Nat /\ stmt \in [Conn -> Statement]
    BY <1>2, <1>3, Zenon DEF TypeOK, Entry
  <2>2. stmt' = [stmt EXCEPT ![c].pc = "planned", ![c].plan = p]
    BY <1>1, Zenon
  <2> HIDE DEF p
  <2>3. /\ stmt' \in [Conn -> Statement] /\ \A d \in Conn \ {c} : stmt'[d] = stmt[d]
        /\ stmt'[c].pc = "planned" /\ stmt'[c].kind = stmt[c].kind
        /\ stmt'[c].seen = stmt[c].seen /\ stmt'[c].plan = p
    BY <2>1, <2>2, ZenonT(30) DEF Statement
  <2> QED  BY <2>3, Zenon DEF p
<1>7. TypeOK'
  BY <1>1, <1>2, <1>5, <1>6, Zenon DEF TypeOK
<1>8. Role(c)' /\ HolderWork(c)'
  BY <1>1, <1>2, <1>5, <1>6, Zenon DEF Mine, Role, HolderWork
<1>9. Knows(c)'
  BY <1>1, <1>2, <1>4, <1>5, <1>6, ZenonT(30) DEF Mine, Knows, Current, Fresh
<1> QED  BY <1>1, <1>5, <1>6, <1>7, <1>8, <1>9, LocalStep DEF IInv, Mine, Honest

LEMMA WriteRowsSafe ==
    ASSUME IInv, NEW c \in Conn, WriteRows(c)
    PROVE  IInv'
<1>1. /\ stmt[c].pc = "planned" /\ stmt[c].kind = "dml"
      /\ UNCHANGED <<file, lock, work, readers, version, sess, spent>>
  BY Zenon DEF WriteRows, At
<1>2. TypeOK /\ Mine(c) /\ lock = c /\ work = file /\ version[c] \in Nat
  BY <1>1, Zenon DEF IInv, TypeOK, Mine, Role, HolderWork
<1>3. /\ stmt' \in [Conn -> Statement] /\ \A d \in Conn \ {c} : stmt'[d] = stmt[d]
      /\ \/ sess[c].user /\ stmt'[c].pc = "idle" /\ stmt'[c].kind = "none" /\ stmt'[c].seen = 0
         \/ ~sess[c].user /\ stmt'[c].pc = "commit" /\ stmt'[c].kind = "dml"
            /\ stmt'[c].seen = stmt[c].seen
  <2>1. CASE sess[c].user
    BY <1>2, <2>1, IdleStatement, Zenon DEF WriteRows, TypeOK
  <2>2. CASE ~sess[c].user
    BY <1>1, <1>2, <2>2, Moved, Zenon DEF WriteRows
  <2> QED  BY <2>1, <2>2, Zenon
<1>4. TypeOK'
  BY <1>1, <1>2, <1>3, Zenon DEF TypeOK
<1>5. Role(c)' /\ HolderWork(c)'
  BY <1>1, <1>2, <1>3 DEF Mine, Role, HolderWork
<1>6. Knows(c)'
  BY <1>1, <1>2, <1>3, Zenon DEF Mine, Knows, Current, Fresh
<1> QED  BY <1>1, <1>3, <1>4, <1>5, <1>6, LocalStep, Zenon DEF IInv, Mine, Honest

(* Mutating needs no second look at the committed catalog: the guard only  *)
(* decides whether the statement analyses again.                           *)
LEMMA MutateSafe ==
    ASSUME IInv, NEW c \in Conn, Mutate(c)
    PROVE  IInv'
<1>1. /\ stmt[c].pc = "planned" /\ stmt[c].kind = "ddl"
      /\ UNCHANGED <<file, lock, readers, version, spent>>
      /\ \/ Analyse(c, sess[c], "ddl", work.gen) /\ UNCHANGED work
         \/ /\ work' = [gen |-> work.gen + 1, content |-> spent, seal |-> Empty]
            /\ sess' = [sess EXCEPT ![c] = Invalidated([@ EXCEPT !.gen = work.gen + 1])]
            /\ MoveTo(c, "seal")
  BY Zenon DEF Mutate, At
<1>2. /\ TypeOK /\ Mine(c) /\ lock = c /\ work = file /\ version[c] \in Nat /\ ~sess[c].user
      /\ file.gen \in Nat /\ spent \in Nat /\ sess[c] \in Session
  BY <1>1, Zenon DEF IInv, TypeOK, Catalog, Mine, Role, HolderWork
<1>3. ASSUME Analyse(c, sess[c], "ddl", work.gen), UNCHANGED work PROVE IInv'
  <2>1. /\ sess' \in [Conn -> Session] /\ stmt' \in [Conn -> Statement]
        /\ \A d \in Conn \ {c} : sess'[d] = sess[d] /\ stmt'[d] = stmt[d]
        /\ stmt'[c].pc = "plan" /\ stmt'[c].kind = "ddl" /\ stmt'[c].seen = 0
        /\ sess'[c].user = sess[c].user /\ sess'[c].abandoned = sess[c].abandoned
        /\ sess'[c].observed <= version[c]
        /\ Knows(c)'
    BY <1>1, <1>2, <1>3, AnalyseKnows, Zenon
  <2>2. TypeOK'
    BY <1>1, <1>2, <1>3, <2>1, Zenon DEF TypeOK
  <2>3. Role(c)' /\ HolderWork(c)'
    BY <1>1, <1>2, <1>3, <2>1 DEF Mine, Role, HolderWork
  <2> QED  BY <1>1, <1>3, <2>1, <2>2, <2>3, LocalStep, Zenon DEF IInv, Mine, Honest
<1>4. ASSUME work' = [gen |-> work.gen + 1, content |-> spent, seal |-> Empty],
             sess' = [sess EXCEPT ![c] = Invalidated([@ EXCEPT !.gen = work.gen + 1])],
             MoveTo(c, "seal")
      PROVE  IInv'
  <2> DEFINE s == [sess[c] EXCEPT !.gen = work.gen + 1]
             t == Invalidated(s)
  <2>1. /\ s \in Session /\ s.gen = work.gen + 1 /\ s.observed = sess[c].observed
        /\ s.user = sess[c].user /\ s.abandoned = sess[c].abandoned
        /\ s.retained = sess[c].retained
    BY <1>2 DEF Session
  <2>2. sess' = [sess EXCEPT ![c] = t]
    BY <1>2, <1>4, Zenon DEF TypeOK
  <2> HIDE DEF s
  <2>3. /\ t \in Session /\ t.cache = Empty /\ t.gen = work.gen + 1
        /\ t.observed = sess[c].observed /\ t.retained = sess[c].retained
        /\ t.user = sess[c].user /\ t.abandoned = sess[c].abandoned
    BY <2>1, InvalidatedSession, Zenon
  <2> HIDE DEF t
  <2>4. /\ sess' \in [Conn -> Session] /\ sess'[c] = t
        /\ \A d \in Conn \ {c} : sess'[d] = sess[d]
    BY <1>2, <2>2, <2>3, Zenon DEF TypeOK
  <2>5. /\ stmt' \in [Conn -> Statement] /\ \A d \in Conn \ {c} : stmt'[d] = stmt[d]
        /\ stmt'[c].pc = "seal" /\ stmt'[c].kind = "ddl" /\ stmt'[c].seen = stmt[c].seen
    BY <1>1, <1>2, <1>4, Moved, Zenon
  <2>6. /\ work' \in Catalog /\ work'.gen = work.gen + 1 /\ work'.seal = Empty
    BY <1>2, <1>4 DEF Catalog, Entry, Empty
  <2>7. TypeOK'
    BY <1>1, <1>2, <2>4, <2>5, <2>6, Zenon DEF TypeOK
  <2>8. Role(c)' /\ HolderWork(c)'
    BY <1>1, <1>2, <2>3, <2>4, <2>5, <2>6 DEF Mine, Role, HolderWork
  <2>9. Knows(c)'
    <3>1. ~sess[c].abandoned => Fresh(sess[c].retained)
      BY <1>1, <1>2, Zenon DEF Mine, Knows
    <3> QED  BY <1>1, <2>3, <2>4, <2>5, <2>6, <3>1, EmptyIsFresh, Zenon DEF Knows, Current, Fresh
  <2>10. Honest(work)'
    BY <2>6 DEF Honest, Empty
  <2> QED  BY <1>1, <1>2, <2>3, <2>4, <2>5, <2>7, <2>8, <2>9, <2>10, LocalStep, Zenon DEF Mine
<1> QED  BY <1>1, <1>3, <1>4, Zenon

LEMMA NothingToChangeSafe ==
    ASSUME IInv, NEW c \in Conn, NothingToChange(c)
    PROVE  IInv'
<1>1. /\ stmt[c].pc = "planned" /\ stmt[c].kind = "ddl" /\ MoveTo(c, "seal")
      /\ UNCHANGED <<file, lock, work, readers, version, sess, spent>>
  BY Zenon DEF NothingToChange, At
<1>2. TypeOK /\ Mine(c) /\ lock = c /\ work = file
  BY <1>1, Zenon DEF IInv, TypeOK, Mine, Role, HolderWork
<1>3. /\ stmt' \in [Conn -> Statement] /\ \A d \in Conn \ {c} : stmt'[d] = stmt[d]
      /\ stmt'[c].pc = "seal" /\ stmt'[c].kind = "ddl" /\ stmt'[c].seen = stmt[c].seen
  BY <1>1, <1>2, Moved, Zenon
<1>4. TypeOK'
  BY <1>1, <1>2, <1>3, Zenon DEF TypeOK
<1>5. Role(c)' /\ HolderWork(c)'
  BY <1>1, <1>2, <1>3, Zenon DEF Mine, Role, HolderWork
<1>6. Knows(c)'
  BY <1>1, <1>2, <1>3, Zenon DEF Mine, Knows, Current, Fresh
<1> QED  BY <1>1, <1>3, <1>4, <1>5, <1>6, LocalStep, Zenon DEF IInv, Mine, Honest

LEMMA PublishSealSafe ==
    ASSUME IInv, NEW c \in Conn, PublishSeal(c)
    PROVE  IInv'
<1> DEFINE e == [gen |-> sess[c].gen, content |-> work.content]
<1>1. /\ stmt[c].pc = "seal" /\ work' = [work EXCEPT !.seal = e] /\ MoveTo(c, "commit")
      /\ UNCHANGED <<file, lock, readers, version, sess, spent>>
  BY Zenon DEF PublishSeal, At
<1>2. TypeOK /\ Mine(c) /\ lock = c /\ stmt[c].kind = "ddl" /\ ~sess[c].user
  BY <1>1, Zenon DEF IInv, TypeOK, Mine, Role, HolderWork
<1>3. e \in Entry /\ work \in Catalog
  BY <1>2, Zenon DEF TypeOK, Session, Entry, Catalog
<1>4. work' \in Catalog /\ work'.gen = work.gen /\ work'.content = work.content /\ work'.seal = e
  BY <1>1, <1>3, Zenon DEF Catalog
<1>5. /\ stmt' \in [Conn -> Statement] /\ \A d \in Conn \ {c} : stmt'[d] = stmt[d]
      /\ stmt'[c].pc = "commit" /\ stmt'[c].kind = "ddl" /\ stmt'[c].seen = stmt[c].seen
  BY <1>1, <1>2, Moved, Zenon
<1>6. TypeOK'
  BY <1>1, <1>2, <1>4, <1>5, Zenon DEF TypeOK
<1>7. ~sess[c].abandoned => sess[c].gen = work.gen
  BY <1>1, <1>2, Zenon DEF Mine, Knows, Current
<1>8. Role(c)' /\ HolderWork(c)'
  BY <1>1, <1>2, <1>4, <1>5, <1>7, ZenonT(30) DEF Mine, Role, HolderWork
<1>9. Knows(c)'
  BY <1>1, <1>2, <1>4, <1>5, Zenon DEF Mine, Knows, Current, Fresh
<1>10. Honest(work)'
  BY <1>4 DEF Honest
<1> QED  BY <1>1, <1>2, <1>5, <1>6, <1>8, <1>9, <1>10, LocalStep, Zenon DEF Mine

-----------------------------------------------------------------------------

(* A write transaction that rolls back leaves its session with what it had *)
(* before, less the cached descriptors, or a session that abandoned a DDL. *)
LEMMA RollbackStep ==
    ASSUME IInv, NEW c \in Conn, NEW s \in Session, NEW pc \in {"idle", "poisoned"},
           Release(c, s, pc), lock = c, file' = file, version' = version, spent' = spent,
           readers' \subseteq Conn, c \notin readers',
           \A d \in Conn \ {c} : d \in readers' <=> d \in readers,
           ~s.user, s.cache = Empty, s.retained = sess[c].retained,
           s.gen = sess[c].gen, s.observed = sess[c].observed,
           sess[c].abandoned => s.abandoned,
           pc = "idle" /\ ~s.abandoned => work.gen = file.gen
    PROVE  IInv'
<1>1. TypeOK /\ Mine(c) /\ version[c] \in Nat
  BY Zenon DEF IInv, TypeOK
<1>2. /\ lock' = NoConn /\ work' = file'
      /\ sess' \in [Conn -> Session] /\ stmt' \in [Conn -> Statement]
      /\ \A d \in Conn \ {c} : sess'[d] = sess[d] /\ stmt'[d] = stmt[d]
      /\ sess'[c] = s
      /\ stmt'[c].pc = pc /\ stmt'[c].kind = "none" /\ stmt'[c].seen = 0
  BY <1>1, Released
<1>3. TypeOK'
  BY <1>1, <1>2, Zenon DEF TypeOK
<1>4. Role(c)' /\ HolderWork(c)'
  BY <1>1, <1>2, NoConnAssumption DEF Mine, Role, HolderWork
<1>5. Knows(c)'
  <2> SUFFICES ASSUME ~s.abandoned, pc = "idle"
               PROVE  /\ s.gen <= file.gen /\ (s.observed = version[c] => s.gen = file.gen)
                      /\ Fresh(s.cache) /\ Fresh(s.retained)
    BY <1>2, Zenon DEF Knows, Current, Fresh
  <2>1. stmt[c].pc \notin {"poisoned", "load"}
    BY <1>1, Zenon DEF Mine, Role
  <2>2. Current(c) /\ Fresh(sess[c].retained)
    BY <1>1, <2>1, Zenon DEF Mine, Knows
  <2>3. file.gen \in Nat
    BY <1>1, Zenon DEF TypeOK, Catalog
  <2>4. s.gen <= file.gen /\ (s.observed = version[c] => s.gen = file.gen)
    BY <2>2, <2>3 DEF Current
  <2> QED  BY <2>2, <2>4, EmptyIsFresh, Zenon
<1>6. \A d \in Conn \ {c} : lock' = d <=> lock = d
  BY <1>2, NoConnAssumption, Zenon
<1> QED  BY <1>2, <1>3, <1>4, <1>5, <1>6, LocalStep, Zenon DEF Mine

LEMMA CommitFailsSafe ==
    ASSUME IInv, NEW c \in Conn, CommitFails(c)
    PROVE  IInv'
<1>1. /\ stmt[c].pc = "commit" /\ Release(c, Invalidated(sess[c]), "poisoned")
      /\ UNCHANGED <<file, readers, version, spent>>
  BY Zenon DEF CommitFails, At
<1>2. /\ TypeOK /\ lock = c /\ ~sess[c].user /\ sess[c] \in Session
      /\ readers \subseteq Conn /\ c \notin readers
  BY <1>1, Zenon DEF IInv, TypeOK, Mine, Role
<1> QED  BY <1>1, <1>2, InvalidatedSession, RollbackStep

LEMMA RollbackUserSafe ==
    ASSUME IInv, NEW c \in Conn, RollbackUser(c)
    PROVE  IInv'
<1> DEFINE s == [sess[c] EXCEPT !.user = FALSE]
<1>1. /\ stmt[c].pc = "idle" /\ sess[c].user /\ Release(c, Invalidated(s), "idle")
      /\ UNCHANGED <<file, readers, version, spent>>
  BY Zenon DEF RollbackUser, At
<1>2. /\ TypeOK /\ lock = c /\ sess[c] \in Session /\ work = file
      /\ readers \subseteq Conn /\ c \notin readers
  BY <1>1, Zenon DEF IInv, TypeOK, Mine, Role, HolderWork
<1>3. /\ s \in Session /\ s.user = FALSE /\ s.gen = sess[c].gen /\ s.observed = sess[c].observed
      /\ s.retained = sess[c].retained /\ s.abandoned = sess[c].abandoned
  BY <1>2, Zenon DEF Session
<1> HIDE DEF s
<1> QED  BY <1>1, <1>2, <1>3, InvalidatedSession, RollbackStep

LEMMA FailLateSafe ==
    ASSUME IInv, NEW c \in Conn, FailLate(c)
    PROVE  IInv'
<1> DEFINE a == sess[c].abandoned \/ work.gen # file.gen
           s == [sess[c] EXCEPT !.abandoned = a]
<1>1. /\ stmt[c].pc = "seal" /\ Release(c, Invalidated(s), "idle")
      /\ UNCHANGED <<file, readers, version, spent>>
  BY Zenon DEF FailLate, At
<1>2. /\ TypeOK /\ lock = c /\ sess[c] \in Session /\ ~sess[c].user
      /\ readers \subseteq Conn /\ c \notin readers
  BY <1>1, Zenon DEF IInv, TypeOK, Mine, Role, HolderWork
<1>3. a \in BOOLEAN /\ (sess[c].abandoned => a) /\ (~a => work.gen = file.gen)
  BY Zenon
<1> HIDE DEF a
<1>4. /\ s \in Session /\ s.user = sess[c].user /\ s.gen = sess[c].gen
      /\ s.observed = sess[c].observed
      /\ s.retained = sess[c].retained /\ s.abandoned = a
  BY <1>2, <1>3, Zenon DEF Session
<1> HIDE DEF s
<1> QED  BY <1>1, <1>2, <1>3, <1>4, InvalidatedSession, RollbackStep

LEMMA FailStatementSafe ==
    ASSUME IInv, NEW c \in Conn, FailStatement(c)
    PROVE  IInv'
<1>1. /\ stmt[c].pc \in {"plan", "planned"} /\ readers' = readers \ {c}
      /\ UNCHANGED <<version, spent>>
  BY Zenon DEF FailStatement
<1>2. /\ TypeOK /\ Mine(c) /\ sess[c] \in Session /\ readers \subseteq Conn
      /\ lock = c => work = file
      /\ version[c] \in Nat /\ stmt[c].kind # "none"
  BY <1>1, Zenon DEF IInv, TypeOK, Mine, Role, HolderWork
<1> DEFINE t == Invalidated(sess[c])
<1>3. /\ t \in Session /\ t.cache = Empty /\ t.gen = sess[c].gen /\ t.observed = sess[c].observed
      /\ t.retained = sess[c].retained /\ t.user = sess[c].user /\ t.synced = sess[c].synced
      /\ t.abandoned = sess[c].abandoned
  BY <1>2, InvalidatedSession, Zenon
<1>4. CASE lock = c /\ ~sess[c].user
  <2>1. file' = file /\ Release(c, t, "idle")
    BY <1>4, Zenon DEF FailStatement
  <2> HIDE DEF t
  <2> QED  BY <1>1, <1>2, <1>3, <1>4, <2>1, RollbackStep, Zenon
<1>5. CASE ~(lock = c /\ ~sess[c].user)
  <2>1. /\ sess' = [sess EXCEPT ![c] = t] /\ stmt' = [stmt EXCEPT ![c] = Idle]
        /\ UNCHANGED <<file, lock, work>>
    BY <1>2, <1>5, Zenon DEF FailStatement, TypeOK
  <2> HIDE DEF t
  <2>2. /\ sess' \in [Conn -> Session] /\ stmt' \in [Conn -> Statement]
        /\ \A d \in Conn \ {c} : sess'[d] = sess[d] /\ stmt'[d] = stmt[d]
        /\ sess'[c] = t
        /\ stmt'[c].pc = "idle" /\ stmt'[c].kind = "none" /\ stmt'[c].seen = 0
    BY <1>2, <1>3, <2>1, IdleStatement, Zenon DEF TypeOK
  <2>3. TypeOK'
    BY <1>1, <1>2, <2>1, <2>2, Zenon DEF TypeOK
  <2>4. Role(c)' /\ HolderWork(c)'
    BY <1>1, <1>2, <1>3, <1>5, <2>1, <2>2 DEF Mine, Role, HolderWork
  <2>5. Knows(c)'
    <3>1. ~sess[c].abandoned => sess[c].gen = file.gen /\ Fresh(sess[c].retained)
      BY <1>1, <1>2, Zenon DEF Mine, Knows, Current
    <3> QED  BY <1>1, <1>2, <1>3, <2>1, <2>2, <3>1, EmptyIsFresh DEF TypeOK, Catalog, Knows, Current, Fresh
  <2> QED  BY <1>1, <1>3, <2>1, <2>2, <2>3, <2>4, <2>5, LocalStep, ZenonT(30) DEF IInv, Mine, Honest
<1> QED  BY <1>4, <1>5, Zenon

LEMMA EndReadSafe ==
    ASSUME IInv, NEW c \in Conn, EndRead(c)
    PROVE  IInv'
<1>1. /\ stmt[c].pc = "planned" /\ stmt[c].kind = "read" /\ readers' = readers \ {c}
      /\ stmt' = [stmt EXCEPT ![c] = Idle]
      /\ UNCHANGED <<file, lock, work, version, sess, spent>>
  BY Zenon DEF EndRead, At
<1>2. TypeOK /\ Mine(c) /\ lock # c /\ version[c] \in Nat /\ ~sess[c].user
  BY <1>1, Zenon DEF IInv, TypeOK, Mine, Role
<1>3. /\ stmt' \in [Conn -> Statement] /\ \A d \in Conn \ {c} : stmt'[d] = stmt[d]
      /\ stmt'[c].pc = "idle" /\ stmt'[c].kind = "none" /\ stmt'[c].seen = 0
  BY <1>1, <1>2, IdleStatement, Zenon DEF TypeOK
<1>4. TypeOK'
  BY <1>1, <1>2, <1>3, Zenon DEF TypeOK
<1>5. Role(c)' /\ HolderWork(c)'
  BY <1>1, <1>2, <1>3 DEF Mine, Role, HolderWork
<1>6. Knows(c)'
  BY <1>1, <1>2, <1>3, Zenon DEF Mine, Knows, Current, Fresh
<1> QED  BY <1>1, <1>3, <1>4, <1>5, <1>6, LocalStep, Zenon DEF IInv, Mine, Honest

-----------------------------------------------------------------------------

(* A commit publishes the working catalog: the committer is current with   *)
(* it, and everyone else is told by the data version, since a commit waits *)
(* until nobody else reads.                                                *)
LEMMA PublishStep ==
    ASSUME IInv, NEW c \in Conn, NEW s \in Session,
           stmt[c].pc = "commit" \/ (stmt[c].pc = "idle" /\ sess[c].user),
           Publish(c), Release(c, s, "idle"), readers' = readers, spent' = spent,
           ~s.user, s.gen = sess[c].gen, s.observed = sess[c].observed,
           s.cache = sess[c].cache, s.retained = sess[c].retained,
           s.abandoned = sess[c].abandoned
    PROVE  IInv'
<1>1. /\ TypeOK /\ Mine(c) /\ version[c] \in Nat /\ lock = c /\ c \notin readers
      /\ file.gen \in Nat /\ work.gen \in Nat /\ sess[c].cache.gen \in Nat
      /\ sess[c].retained.gen \in Nat
  BY Zenon DEF IInv, TypeOK, Catalog, Session, Entry, Mine, Role
<1>2. /\ lock' = NoConn /\ work' = file'
      /\ sess' \in [Conn -> Session] /\ stmt' \in [Conn -> Statement]
      /\ \A d \in Conn \ {c} : sess'[d] = sess[d] /\ stmt'[d] = stmt[d]
      /\ sess'[c] = s
      /\ stmt'[c].pc = "idle" /\ stmt'[c].kind = "none" /\ stmt'[c].seen = 0
  BY <1>1, Released, Zenon
<1>3. /\ readers \subseteq {c} /\ file' = work
      /\ version' \in [Conn -> Nat] /\ version'[c] = version[c]
      /\ \A d \in Conn \ {c} : version'[d] = version[d] + 1
  BY <1>1 DEF Publish, TypeOK
<1>4. TypeOK'
  BY <1>1, <1>2, <1>3, Zenon DEF TypeOK
<1>5. /\ file.gen <= work.gen
      /\ work.gen = file.gen => work.content = file.content
  BY <1>1, Zenon DEF Mine, HolderWork
<1>6. ASSUME NEW e \in Entry, Fresh(e) PROVE Fresh(e)'
  <2>1. e.gen \in Nat
    BY Zenon DEF Entry
  <2> QED  BY <1>1, <1>3, <1>5, <1>6, <2>1 DEF Fresh
<1>7. Mine(c)'
  <2>1. Role(c)' /\ HolderWork(c)'
    <3>1. HolderWork(c)'
      BY <1>2, NoConnAssumption, Zenon DEF HolderWork
    <3> QED  BY <1>1, <1>2, <1>3, <3>1, NoConnAssumption DEF Mine, Role
  <2>2. Knows(c)'
    <3> SUFFICES ASSUME ~s.abandoned
                 PROVE  /\ s.gen <= work.gen /\ (s.observed = version[c] => s.gen = work.gen)
                        /\ Fresh(s.cache)' /\ Fresh(s.retained)'
      BY <1>2, <1>3, Zenon DEF Knows, Current
    <3>1. Current(c) /\ Fresh(s.cache) /\ Fresh(s.retained)
      BY <1>1, Zenon DEF Mine, Knows
    <3>2. s.gen <= work.gen /\ (s.observed = version[c] => s.gen = work.gen)
      BY <1>1, <3>1 DEF Mine, HolderWork, Current
    <3>3. s.cache \in Entry /\ s.retained \in Entry
      BY Zenon DEF Session
    <3> QED  BY <1>6, <3>1, <3>2, <3>3, Zenon
  <2> QED  BY <2>1, <2>2, Zenon DEF Mine
<1>8. ASSUME NEW d \in Conn \ {c} PROVE Mine(d)'
  <2>1. /\ Mine(d) /\ version[d] \in Nat /\ sess[d] \in Session /\ stmt[d] \in Statement
        /\ lock # d /\ d \notin readers
    BY <1>1, <1>3, Zenon DEF IInv, TypeOK
  <2>2. ~sess[d].user /\ stmt[d].kind = "none" /\ stmt[d].pc \notin {"seal", "commit", "planned"}
    BY <2>1, Zenon DEF Mine, Role, Statement
  <2>3. Role(d)'
    BY <1>2, <1>3, <2>1, <2>2, NoConnAssumption DEF Mine, Role, Session, Statement
  <2>4. HolderWork(d)'
    BY <1>2, NoConnAssumption, Zenon DEF HolderWork
  <2>5. Knows(d)'
    <3> SUFFICES ASSUME ~sess[d].abandoned, stmt[d].pc \notin {"poisoned", "load"}
                 PROVE  /\ sess[d].gen <= work.gen /\ sess[d].observed # version[d] + 1
                        /\ Fresh(sess[d].cache)' /\ Fresh(sess[d].retained)'
      BY <1>2, <1>3, <2>2, ZenonT(30) DEF Knows, Current
    <3>1. Current(d) /\ Fresh(sess[d].cache) /\ Fresh(sess[d].retained)
      BY <2>1, Zenon DEF Mine, Knows
    <3>2. sess[d].gen \in Nat /\ sess[d].cache \in Entry /\ sess[d].retained \in Entry
          /\ sess[d].observed \in Int
      BY <2>1, Zenon DEF Session
    <3>3. sess[d].gen <= work.gen
      BY <1>1, <1>5, <2>2, <3>1, <3>2 DEF Current
    <3>4. sess[d].observed <= version[d]
      BY <2>1, Zenon DEF Mine, Role
    <3>5. Fresh(sess[d].cache)' /\ Fresh(sess[d].retained)'
      BY <1>1, <1>2, <1>3, <1>5, <3>1, <3>2 DEF Fresh, Entry
    <3> QED  BY <2>1, <3>2, <3>3, <3>4, <3>5
  <2> QED  BY <2>3, <2>4, <2>5, Zenon DEF Mine
<1>9. Sealed'
  <2>1. CASE sess[c].abandoned
    BY <1>2, <2>1, Zenon DEF Sealed
  <2>2. CASE ~sess[c].abandoned /\ stmt[c].pc = "commit" /\ stmt[c].kind = "ddl"
    BY <1>1, <1>3, <2>2, Zenon DEF Sealed, Mine, HolderWork
  <2>3. CASE work = file
    <3>1. CASE file.seal = [gen |-> file.gen, content |-> file.content]
      BY <1>3, <2>3, <3>1, Zenon DEF Sealed
    <3>2. ASSUME NEW d \in Conn, sess[d].abandoned, stmt[d].pc # "load" PROVE Sealed'
      BY <1>2, <3>2, ZenonT(30) DEF Sealed
    <3> QED  BY <3>1, <3>2, Zenon DEF IInv, Sealed
  <2>4. (stmt[c].pc = "commit" /\ stmt[c].kind = "ddl") \/ work = file
    BY <1>1, Zenon DEF Mine, Role, HolderWork
  <2> QED  BY <2>1, <2>2, <2>3, <2>4, Zenon
<1>10. Honest(file)'
  BY <1>1, <1>3, NoConnAssumption, Zenon DEF IInv, Honest
<1> QED  BY <1>2, <1>4, <1>7, <1>8, <1>9, <1>10, Zenon DEF IInv

LEMMA CommitPlanningSafe ==
    ASSUME IInv, NEW c \in Conn, CommitPlanning(c)
    PROVE  IInv'
<1>1. /\ stmt[c].pc = "commit" /\ Publish(c) /\ Release(c, sess[c], "idle")
      /\ UNCHANGED <<readers, spent>>
  BY Zenon DEF CommitPlanning, At
<1>2. ~sess[c].user /\ sess[c] \in Session
  BY <1>1, Zenon DEF IInv, TypeOK, Mine, Role
<1> QED  BY <1>1, <1>2, PublishStep, Zenon

LEMMA CommitUserSafe ==
    ASSUME IInv, NEW c \in Conn, CommitUser(c)
    PROVE  IInv'
<1> DEFINE s == [sess[c] EXCEPT !.user = FALSE]
<1>1. /\ stmt[c].pc = "idle" /\ sess[c].user /\ Publish(c) /\ Release(c, s, "idle")
      /\ UNCHANGED <<readers, spent>>
  BY Zenon DEF CommitUser, At
<1>2. sess[c] \in Session
  BY Zenon DEF IInv, TypeOK
<1>3. /\ s \in Session /\ s.user = FALSE /\ s.gen = sess[c].gen /\ s.observed = sess[c].observed
      /\ s.cache = sess[c].cache /\ s.retained = sess[c].retained
      /\ s.abandoned = sess[c].abandoned
  BY <1>2, Zenon DEF Session
<1> HIDE DEF s
<1> QED  BY <1>1, <1>3, PublishStep, Zenon

LEMMA ReopenSafe ==
    ASSUME IInv, NEW c \in Conn, Reopen(c)
    PROVE  IInv'
<1>1. /\ stmt[c].pc = "poisoned" /\ lock = NoConn /\ work' = file' /\ MoveTo(c, "load")
      /\ UNCHANGED <<lock, readers, sess, spent>>
  BY Zenon DEF Reopen, At
<1>2. TypeOK /\ Mine(c) /\ file \in Catalog /\ stmt[c].kind = "none"
  BY <1>1, Zenon DEF IInv, TypeOK, Mine, Role
<1>3. /\ stmt' \in [Conn -> Statement] /\ \A d \in Conn \ {c} : stmt'[d] = stmt[d]
      /\ stmt'[c].pc = "load" /\ stmt'[c].kind = "none" /\ stmt'[c].seen = stmt[c].seen
  BY <1>1, <1>2, Moved, Zenon
<1>4. /\ file' \in Catalog /\ file'.gen = file.gen /\ file'.content = file.content
      /\ file'.seal = [gen |-> file.gen, content |-> file.content]
  <2>1. CASE SealMatches
    BY <1>2, <2>1, Zenon DEF Reopen, SealMatches, Catalog, Entry
  <2>2. CASE ~SealMatches
    <3> DEFINE e == [gen |-> file.gen, content |-> file.content]
    <3>1. e \in Entry /\ file' = [file EXCEPT !.seal = e]
      BY <1>2, <2>2, Zenon DEF Reopen, Catalog, Entry
    <3> HIDE DEF e
    <3>2. /\ file' \in Catalog /\ file'.gen = file.gen /\ file'.content = file.content
          /\ file'.seal = e
      BY <1>2, <3>1, Zenon DEF Catalog
    <3> QED  BY <3>2, Zenon DEF e
  <2> QED  BY <2>1, <2>2, Zenon
<1>5. version' \in [Conn -> Nat] /\ \A d \in Conn : version'[d] \in {version[d], version[d] + 1}
  BY <1>2 DEF Reopen, TypeOK
<1>6. TypeOK'
  BY <1>1, <1>2, <1>3, <1>4, <1>5, Zenon DEF TypeOK
<1>7. ASSUME NEW d \in Conn PROVE Mine(d)'
  <2>1. /\ Mine(d) /\ version[d] \in Nat /\ sess[d] \in Session /\ stmt[d] \in Statement
        /\ sess[d].observed \in Int /\ stmt[d].seen \in Int
        /\ lock # d /\ lock' # d /\ version'[d] \in {version[d], version[d] + 1}
    BY <1>1, <1>5, NoConnAssumption, Zenon DEF IInv, TypeOK, Session, Statement
  <2>2. stmt'[d].kind = stmt[d].kind /\ stmt'[d].seen = stmt[d].seen
        /\ stmt'[d].plan = stmt[d].plan /\ (stmt'[d].pc = stmt[d].pc \/ d = c)
    BY <1>2, <1>3, <1>1 DEF MoveTo, TypeOK, Statement
  <2>3. sess[d].observed <= version'[d] /\ stmt[d].seen <= version'[d]
    BY <2>1 DEF Mine, Role
  <2>4. Role(d)'
    BY <1>1, <1>3, <2>1, <2>2, <2>3, Zenon DEF Mine, Role
  <2>5. HolderWork(d)'
    BY <2>1, Zenon DEF HolderWork
  <2>6. Knows(d)'
    <3>1. CASE d = c
      BY <1>3, <3>1, Zenon DEF Knows
    <3>2. CASE d # c
      <4>1. stmt[d].pc \notin {"seal", "commit"} /\ sess[d].observed <= version[d]
        BY <2>1, Zenon DEF Mine, Role
      <4>2. sess[d].observed = version'[d] => sess[d].observed = version[d]
        BY <2>1, <4>1
      <4> QED  BY <1>1, <1>4, <2>1, <2>2, <3>2, <4>1, <4>2, Zenon DEF Mine, Knows, Current, Fresh
    <3> QED  BY <3>1, <3>2, Zenon
  <2> QED  BY <2>4, <2>5, <2>6, Zenon DEF Mine
<1>8. Honest(file)' /\ Sealed'
  BY <1>4 DEF Honest, Sealed
<1> QED  BY <1>1, <1>6, <1>7, <1>8, Zenon DEF IInv

LEMMA LoadCatalogSafe ==
    ASSUME IInv, NEW c \in Conn, LoadCatalog(c)
    PROVE  IInv'
<1> DEFINE s == Opened(file.gen)
<1>1. /\ stmt[c].pc = "load" /\ sess' = [sess EXCEPT ![c] = s] /\ stmt' = [stmt EXCEPT ![c] = Idle]
      /\ UNCHANGED <<file, lock, work, readers, version, spent>>
  BY Zenon DEF LoadCatalog, At
<1>2. TypeOK /\ Mine(c) /\ file.gen \in Nat /\ version[c] \in Nat /\ lock # c /\ c \notin readers
  BY <1>1, Zenon DEF IInv, TypeOK, Catalog, Mine, Role
<1>3. /\ s \in Session /\ s.gen = file.gen /\ s.observed = -1 /\ s.cache = Empty
      /\ s.retained = Empty /\ s.user = FALSE
  BY <1>2 DEF Opened, Unobserved, Empty, Session, Entry
<1> HIDE DEF s
<1>4. /\ sess' \in [Conn -> Session] /\ sess'[c] = s
      /\ \A d \in Conn \ {c} : sess'[d] = sess[d]
  BY <1>1, <1>2, <1>3, Zenon DEF TypeOK
<1>5. /\ stmt' \in [Conn -> Statement] /\ \A d \in Conn \ {c} : stmt'[d] = stmt[d]
      /\ stmt'[c].pc = "idle" /\ stmt'[c].kind = "none" /\ stmt'[c].seen = 0
  BY <1>1, <1>2, IdleStatement, Zenon DEF TypeOK
<1>6. TypeOK'
  BY <1>1, <1>2, <1>4, <1>5, Zenon DEF TypeOK
<1>7. Role(c)' /\ HolderWork(c)'
  BY <1>1, <1>2, <1>3, <1>4, <1>5 DEF Role, HolderWork
<1>8. Knows(c)'
  BY <1>1, <1>2, <1>3, <1>4, <1>5, EmptyIsFresh DEF Knows, Current, Fresh
<1> QED  BY <1>1, <1>4, <1>5, <1>6, <1>7, <1>8, LocalStep, Zenon DEF IInv, Mine, Honest

-----------------------------------------------------------------------------

LEMMA StepSafe == IInv /\ [Next]_vars => IInv'
<1> SUFFICES ASSUME IInv, [Next]_vars PROVE IInv'
  BY Zenon
<1>1. CASE UNCHANGED vars
  <2>1. UNCHANGED <<file, lock, work, readers, version, sess, stmt, spent>>
    BY <1>1, Zenon DEF vars
  <2>2. TypeOK' /\ Sealed' /\ Honest(file)' /\ (lock # NoConn => Honest(work))'
    BY <2>1, Zenon DEF IInv, TypeOK, Sealed, Honest
  <2>3. \A c \in Conn : Mine(c)'
    BY <2>1, ZenonT(30) DEF IInv, Mine, Role, HolderWork, Knows, Current, Fresh
  <2> QED  BY <2>2, <2>3, Zenon DEF IInv
<1>2. ASSUME NEW c \in Conn, Progress(c) PROVE IInv'
  BY <1>2, ReadGenerationSafe, BrowseSafe, ReusePlanSafe, MakePlanSafe, WriteRowsSafe,
     MutateSafe, NothingToChangeSafe, PublishSealSafe, CommitPlanningSafe, CommitFailsSafe,
     FailStatementSafe, FailLateSafe, LoadCatalogSafe, Zenon DEF Progress
<1>3. ASSUME NEW c \in Conn, Request(c) PROVE IInv'
  BY <1>3, ReadDataVersionSafe, BeginPlanningSafe, StartTransactionSafe, UserStatementSafe,
     BeginReadSafe, CommitUserSafe, RollbackUserSafe, EndReadSafe, ReopenSafe, Zenon DEF Request
<1> QED  BY <1>1, <1>2, <1>3, Zenon DEF Next

THEOREM InductiveInvariant == Spec => []IInv
BY InitSafe, StepSafe, PTL DEF Spec, SafetySpec

(* Whatever the number of connections: a statement about to run was        *)
(* planned from the catalog its transaction sees, by the data version, the *)
(* generation keys and the locks SQLite holds for it.                      *)
THEOREM PlansStayCurrent == Spec => []NoStalePlan
<1>1. IInv => NoStalePlan
  <2> SUFFICES ASSUME IInv, NEW c \in Conn, ~sess[c].abandoned, stmt[c].pc = "planned"
               PROVE  stmt[c].plan = View(c).content
    BY Zenon DEF NoStalePlan, PlanCurrent, At
  <2>1. Role(c) /\ HolderWork(c) /\ Knows(c)
    BY Zenon DEF IInv, Mine
  <2>2. View(c) = file
    BY <2>1, Zenon DEF HolderWork, View
  <2> QED  BY <2>1, <2>2, Zenon DEF Knows
<1> QED  BY <1>1, InductiveInvariant, PTL

(* The committed seal vouches for the committed catalog as long as no      *)
(* session is left from a DDL statement that failed late.                  *)
THEOREM SealStaysCurrent == Spec => []SealCurrent
<1>1. IInv => SealCurrent
  BY Zenon DEF IInv, Sealed, SealCurrent
<1> QED  BY <1>1, InductiveInvariant, PTL

(* A seal that names the committed generation is the seal of its content,  *)
(* whatever late failures came before.                                     *)
THEOREM SealStaysHonest == Spec => []SealHonest
<1>1. IInv => SealHonest
  BY Zenon DEF IInv, TypeOK, Catalog, Honest, SealHonest
<1> QED  BY <1>1, InductiveInvariant, PTL
=============================================================================
