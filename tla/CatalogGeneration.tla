-------------------------- MODULE CatalogGeneration --------------------------
(***************************************************************************)
(* How several connections keep their picture of the catalog current.      *)
(*                                                                         *)
(* The file holds the catalog (its `content'), a generation that every DDL *)
(* statement raises, and an integrity seal naming the generation it        *)
(* vouches for.  A connection remembers the generation it last saw, the    *)
(* SQLite data version at that moment, descriptors cached under that       *)
(* generation, and an analysed plan retained by a prepared statement.      *)
(* mylite_catalog_synchronize_snapshot is the only thing that notices      *)
(* another connection's DDL, and it looks only when the data version       *)
(* moved.                                                                  *)
(*                                                                         *)
(* SQLite runs with a rollback journal: one writer at a time, and COMMIT   *)
(* waits until no other connection is reading.                             *)
(***************************************************************************)
EXTENDS Integers, FiniteSets

CONSTANTS Conn,        \* connections to one file
          MaxWrites    \* bound on write statements and transactions begun

ASSUME CatalogGenerationAssumption == MaxWrites \in Nat

VARIABLES file,      \* the committed catalog: content, generation, seal
          lock,      \* the connection holding SQLite's write lock
          work,      \* the lock holder's uncommitted catalog
          readers,   \* connections inside a read transaction
          version,   \* PRAGMA data_version as each connection would read it
          sess,      \* what each connection remembers
          stmt,      \* the statement each connection is executing
          spent      \* write statements and transactions begun so far

vars == <<file, lock, work, readers, version, sess, stmt, spent>>

NoConn == "none"

ASSUME NoConnAssumption == NoConn \notin Conn

(* Generation zero marks an empty cache entry: a file starts at one. *)
Empty == [gen |-> 0, content |-> 0]

(* No data version was observed yet (has_observed_data_version is false). *)
Unobserved == -1

Idle == [pc |-> "idle", kind |-> "none", plan |-> 0, guard |-> 0, seen |-> 0]

(* abandoned is history: a DDL statement of this session was rolled back   *)
(* after the session had taken over the generation it raised.              *)
Opened(g) == [gen |-> g, observed |-> Unobserved, cache |-> Empty,
              retained |-> Empty, user |-> FALSE, synced |-> FALSE, abandoned |-> FALSE]

Init ==
    /\ file = [gen |-> 1, content |-> 0, seal |-> [gen |-> 1, content |-> 0]]
    /\ lock = NoConn
    /\ work = file
    /\ readers = {}
    /\ version = [c \in Conn |-> 0]
    /\ sess = [c \in Conn |-> Opened(1)]
    /\ stmt = [c \in Conn |-> Idle]
    /\ spent = 0

(* The catalog a query of connection c reads. *)
View(c) == IF lock = c THEN work ELSE file

(* mylite_catalog_synchronize_snapshot on session s, inside a transaction  *)
(* in which data version v and generation g are stable.                    *)
SynchronizedKeepsCache(s, v, g) ==
    IF (s.user /\ s.synced) \/ v = s.observed
    THEN [s EXCEPT !.synced = s.user]
    ELSE [s EXCEPT !.observed = v, !.gen = g, !.synced = s.user,
                   !.cache = IF @ = Empty THEN @ ELSE [@ EXCEPT !.gen = g]]

Synchronized(s, v, g) ==
    IF (s.user /\ s.synced) \/ v = s.observed
    THEN [s EXCEPT !.synced = s.user]
    ELSE [s EXCEPT !.observed = v, !.gen = g, !.synced = s.user,
                   !.cache = IF g # s.gen THEN Empty ELSE @]

(* mylite_catalog_invalidate_descriptor_cache; retained plans stay, they   *)
(* are keyed by the generation.                                            *)
Invalidated(s) == [s EXCEPT !.cache = Empty]

At(c, pc) == stmt[c].pc = pc
MoveTo(c, pc) == stmt' = [stmt EXCEPT ![c].pc = pc]

(* The statement synchronizes inside its transaction, notes the generation *)
(* its plan will be based on, and goes on to analyse.                      *)
Analyse(c, s, kind, g) ==
    LET t == Synchronized(s, version[c], g)
    IN  /\ sess' = [sess EXCEPT ![c] = t]
        /\ stmt' = [stmt EXCEPT ![c] =
                       [Idle EXCEPT !.pc = "plan", !.kind = kind, !.guard = t.gen]]

(***************************************************************************)
(* Metadata statements that run without a transaction (SHOW and the like): *)
(* the data version, then the generation, then the descriptors are read,   *)
(* each in a read of its own.                                              *)
(***************************************************************************)
ReadDataVersion(c) ==
    /\ At(c, "idle") /\ ~sess[c].user
    /\ stmt' = [stmt EXCEPT ![c] =
                   [Idle EXCEPT !.pc = IF version[c] = sess[c].observed
                                       THEN "browse" ELSE "generation",
                                !.seen = version[c]]]
    /\ UNCHANGED <<file, lock, work, readers, version, sess, spent>>

ReadGeneration(c) ==
    /\ At(c, "generation")
    /\ sess' = [sess EXCEPT ![c] = Synchronized(@, stmt[c].seen, file.gen)]
    /\ MoveTo(c, "browse")
    /\ UNCHANGED <<file, lock, work, readers, version, spent>>

(* The descriptors a read of the catalog yields, and the cache it leaves. *)
Descriptors(c) ==
    IF sess[c].cache.gen = sess[c].gen THEN sess[c].cache.content
                                       ELSE View(c).content

Browse(c) ==
    /\ At(c, "browse")
    /\ sess' = [sess EXCEPT ![c].cache =
                   [gen |-> sess[c].gen, content |-> Descriptors(c)]]
    /\ stmt' = [stmt EXCEPT ![c] = Idle]
    /\ UNCHANGED <<file, lock, work, readers, version, spent>>

(***************************************************************************)
(* Beginning statements and transactions.                                  *)
(***************************************************************************)
BeginPlanning(c, kind) ==
    /\ At(c, "idle") /\ ~sess[c].user
    /\ lock = NoConn /\ spent < MaxWrites
    /\ lock' = c
    /\ work' = file
    /\ spent' = spent + 1
    /\ Analyse(c, sess[c], kind, file.gen)
    /\ UNCHANGED <<file, readers, version>>

StartTransaction(c) ==
    /\ At(c, "idle") /\ ~sess[c].user
    /\ lock = NoConn /\ spent < MaxWrites
    /\ lock' = c
    /\ work' = file
    /\ spent' = spent + 1
    /\ sess' = [sess EXCEPT ![c].user = TRUE, ![c].synced = FALSE]
    /\ UNCHANGED <<file, readers, version, stmt>>

UserStatement(c) ==
    /\ At(c, "idle") /\ sess[c].user
    /\ Analyse(c, sess[c], "dml", work.gen)
    /\ UNCHANGED <<file, lock, work, readers, version, spent>>

BeginRead(c) ==
    /\ At(c, "idle") /\ ~sess[c].user
    /\ readers' = readers \cup {c}
    /\ Analyse(c, sess[c], "read", file.gen)
    /\ UNCHANGED <<file, lock, work, version, spent>>

(***************************************************************************)
(* Analysis: a prepared statement reuses its retained plan when the key    *)
(* matches; otherwise the plan is made from descriptors.                   *)
(***************************************************************************)
ReusePlan(c) ==
    /\ At(c, "plan")
    /\ sess[c].retained.gen = sess[c].gen
    /\ stmt' = [stmt EXCEPT ![c].pc = "planned",
                            ![c].plan = sess[c].retained.content]
    /\ UNCHANGED <<file, lock, work, readers, version, sess, spent>>

MakePlan(c) ==
    /\ At(c, "plan")
    /\ LET d == [gen |-> sess[c].gen, content |-> Descriptors(c)]
       IN  /\ stmt' = [stmt EXCEPT ![c].pc = "planned", ![c].plan = d.content]
           /\ \/ sess' = [sess EXCEPT ![c].cache = d]
              \/ sess' = [sess EXCEPT ![c].cache = d, ![c].retained = d]
    /\ UNCHANGED <<file, lock, work, readers, version, spent>>

(***************************************************************************)
(* Execution.                                                              *)
(***************************************************************************)
WriteRows(c) ==
    /\ At(c, "planned") /\ stmt[c].kind = "dml"
    /\ IF sess[c].user THEN stmt' = [stmt EXCEPT ![c] = Idle]
                       ELSE MoveTo(c, "commit")
    /\ UNCHANGED <<file, lock, work, readers, version, sess, spent>>

(* The catalog rows and the generation change under a savepoint; triggers  *)
(* clear the seal; the session takes over the new generation at once.      *)
MutateSessionLags(c) ==
    /\ At(c, "planned") /\ stmt[c].kind = "ddl"
    /\ IF work.gen # stmt[c].guard
       THEN /\ Analyse(c, sess[c], "ddl", work.gen)
            /\ UNCHANGED work
       ELSE /\ work' = [gen |-> work.gen + 1, content |-> spent, seal |-> Empty]
            /\ sess' = [sess EXCEPT ![c] = Invalidated(@)]
            /\ MoveTo(c, "seal")
    /\ UNCHANGED <<file, lock, readers, version, spent>>

Mutate(c) ==
    /\ At(c, "planned") /\ stmt[c].kind = "ddl"
    /\ IF work.gen # stmt[c].guard
       THEN /\ Analyse(c, sess[c], "ddl", work.gen)
            /\ UNCHANGED work
       ELSE /\ work' = [gen |-> work.gen + 1, content |-> spent, seal |-> Empty]
            /\ sess' = [sess EXCEPT ![c] = Invalidated([@ EXCEPT !.gen = work.gen + 1])]
            /\ MoveTo(c, "seal")
    /\ UNCHANGED <<file, lock, readers, version, spent>>

(* A structural statement that finds nothing to change (DROP IF EXISTS) is *)
(* sealed all the same.                                                    *)
NothingToChange(c) ==
    /\ At(c, "planned") /\ stmt[c].kind = "ddl"
    /\ MoveTo(c, "seal")
    /\ UNCHANGED <<file, lock, work, readers, version, sess, spent>>

PublishSealOfGuard(c) ==
    /\ At(c, "seal")
    /\ work' = [work EXCEPT !.seal = [gen |-> stmt[c].guard, content |-> work.content]]
    /\ MoveTo(c, "commit")
    /\ UNCHANGED <<file, lock, readers, version, sess, spent>>

PublishSealOfOldSchema(c) ==
    /\ At(c, "seal")
    /\ work' = [work EXCEPT !.seal = [gen |-> sess[c].gen, content |-> file.content]]
    /\ MoveTo(c, "commit")
    /\ UNCHANGED <<file, lock, readers, version, sess, spent>>

PublishSeal(c) ==
    /\ At(c, "seal")
    /\ work' = [work EXCEPT !.seal = [gen |-> sess[c].gen, content |-> work.content]]
    /\ MoveTo(c, "commit")
    /\ UNCHANGED <<file, lock, readers, version, sess, spent>>

(***************************************************************************)
(* Ending statements and transactions.                                     *)
(***************************************************************************)
Publish(c) ==
    /\ readers \subseteq {c}
    /\ file' = work
    /\ version' = [d \in Conn |-> IF d = c THEN version[d] ELSE version[d] + 1]

Release(c, s, pc) ==
    /\ lock' = NoConn
    /\ work' = file'
    /\ sess' = [sess EXCEPT ![c] = s]
    /\ stmt' = [stmt EXCEPT ![c] = [Idle EXCEPT !.pc = pc]]

CommitPlanning(c) ==
    /\ At(c, "commit")
    /\ Publish(c)
    /\ Release(c, sess[c], "idle")
    /\ UNCHANGED <<readers, spent>>

(* COMMIT fails (a reader stayed past the busy timeout, or the disk): the  *)
(* statement rolls back and the connection is poisoned.                    *)
CommitFails(c) ==
    /\ At(c, "commit")
    /\ UNCHANGED file
    /\ Release(c, Invalidated(sess[c]), "poisoned")
    /\ UNCHANGED <<readers, version, spent>>

CommitUser(c) ==
    /\ At(c, "idle") /\ sess[c].user
    /\ Publish(c)
    /\ Release(c, [sess[c] EXCEPT !.user = FALSE], "idle")
    /\ UNCHANGED <<readers, spent>>

RollbackUser(c) ==
    /\ At(c, "idle") /\ sess[c].user
    /\ UNCHANGED file
    /\ Release(c, Invalidated([sess[c] EXCEPT !.user = FALSE]), "idle")
    /\ UNCHANGED <<readers, version, spent>>

(* A statement fails before it changed the catalog. *)
FailStatement(c) ==
    /\ stmt[c].pc \in {"plan", "planned"}
    /\ IF lock = c /\ ~sess[c].user
       THEN UNCHANGED file /\ Release(c, Invalidated(sess[c]), "idle")
       ELSE /\ sess' = [sess EXCEPT ![c] = Invalidated(@)]
            /\ stmt' = [stmt EXCEPT ![c] = Idle]
            /\ UNCHANGED <<file, lock, work>>
    /\ readers' = readers \ {c}
    /\ UNCHANGED <<version, spent>>

(* The integrity validation that follows the mutation fails, for instance  *)
(* interrupted by mylite_interrupt: the planning transaction rolls back,   *)
(* the descriptors are dropped, the session keeps the new generation.      *)
FailLate(c) ==
    /\ At(c, "seal")
    /\ UNCHANGED file
    /\ Release(c, Invalidated([sess[c] EXCEPT !.abandoned = @ \/ work.gen # file.gen]), "idle")
    /\ UNCHANGED <<readers, version, spent>>

EndRead(c) ==
    /\ At(c, "planned") /\ stmt[c].kind = "read"
    /\ readers' = readers \ {c}
    /\ stmt' = [stmt EXCEPT ![c] = Idle]
    /\ UNCHANGED <<file, lock, work, version, sess, spent>>

(* The application closes the poisoned connection and opens the file       *)
(* again: the catalog is validated, and sealed when its seal does not      *)
(* match, in a write transaction; then the state is read once more.        *)
SealMatches == file.seal.gen = file.gen /\ file.seal.content = file.content

Reopen(c) ==
    /\ At(c, "poisoned")
    /\ lock = NoConn
    /\ IF SealMatches
       THEN UNCHANGED <<file, version>>
       ELSE /\ readers = {}
            /\ file' = [file EXCEPT !.seal = [gen |-> file.gen, content |-> file.content]]
            /\ version' = [d \in Conn |-> IF d = c THEN version[d] ELSE version[d] + 1]
    /\ work' = file'
    /\ MoveTo(c, "load")
    /\ UNCHANGED <<lock, readers, sess, spent>>

LoadCatalog(c) ==
    /\ At(c, "load")
    /\ sess' = [sess EXCEPT ![c] = Opened(file.gen)]
    /\ stmt' = [stmt EXCEPT ![c] = Idle]
    /\ UNCHANGED <<file, lock, work, readers, version, spent>>

(* What the program does by itself once a statement has begun. *)
Progress(c) ==
    \/ ReadGeneration(c) \/ Browse(c)
    \/ ReusePlan(c) \/ MakePlan(c)
    \/ WriteRows(c) \/ Mutate(c) \/ NothingToChange(c) \/ PublishSeal(c)
    \/ CommitPlanning(c) \/ CommitFails(c)
    \/ FailStatement(c) \/ FailLate(c)
    \/ LoadCatalog(c)

(* What the application asks for. *)
Request(c) ==
    \/ ReadDataVersion(c)
    \/ \E kind \in {"dml", "ddl"} : BeginPlanning(c, kind)
    \/ StartTransaction(c) \/ UserStatement(c) \/ BeginRead(c)
    \/ CommitUser(c) \/ RollbackUser(c) \/ EndRead(c) \/ Reopen(c)

Next == \E c \in Conn : Progress(c) \/ Request(c)

(* A call into the library runs to its end. *)
Fairness == \A c \in Conn : WF_vars(Progress(c))

SafetySpec == Init /\ [][Next]_vars
Spec == SafetySpec /\ Fairness

-----------------------------------------------------------------------------

PlanCurrent(c) == At(c, "planned") => stmt[c].plan = View(c).content

(* A statement that is about to run inside its transaction was planned     *)
(* from exactly the catalog that transaction sees, whether the plan was    *)
(* retained by a prepared statement, built from cached descriptors or from *)
(* fresh ones: writer-stable planning and the generation keys.  Excepted   *)
(* are sessions that abandoned a DDL statement late.                       *)
NoStalePlan == \A c \in Conn : ~sess[c].abandoned => PlanCurrent(c)

(* "MyLite must never execute or publish a write derived from that stale  *)
(* analysis": no write statement, of any session, runs a stale plan.       *)
NeverStaleWrite ==
    \A c \in Conn : stmt[c].kind \in {"dml", "ddl"} => PlanCurrent(c)

(* Unless a session abandoned a DDL statement late, the committed integrity *)
(* seal vouches for the committed generation and content, so an open never *)
(* meets a file whose last DDL left it unsealed                            *)
(* (mylite_catalog_publish_integrity_seal at statement completion).        *)
SealCurrent ==
    (\A c \in Conn : ~sess[c].abandoned) =>
        file.seal = [gen |-> file.gen, content |-> file.content]

(* A committed seal that names the committed generation was computed for   *)
(* the committed content, even when late failures left sessions with       *)
(* generations that were never committed (catalog_integrity_seal_matches). *)
SealHonest ==
    file.seal.gen = file.gen => file.seal.content = file.content

(* Every write statement that began ends, unless its session abandoned a   *)
(* DDL statement late: the replan loop of execute_parsed_statement does    *)
(* not go round forever, holding the write lock.                           *)
WritesEnd ==
    \A c \in Conn : (stmt[c].kind \in {"dml", "ddl"})
                        ~> (stmt[c].kind = "none" \/ sess[c].abandoned)
=============================================================================
