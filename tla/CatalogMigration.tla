-------------------------- MODULE CatalogMigration --------------------------
(***************************************************************************)
(* Loading the catalog of an existing file: mylite_catalog_state.c,        *)
(* ensure_catalog_schema to apply_catalog_state.  Several connections open *)
(* a file that an earlier release left at some schema version.  Each reads *)
(* the version without a lock, migrates under BEGIN IMMEDIATE when it is   *)
(* old, validates and seals, and reads again.  Any SQL may fail, a wait    *)
(* for the write lock may time out, and a process may die.                 *)
(*                                                                         *)
(* A file is its schema version, its shape (CatalogSchema), the catalog    *)
(* generation, SQLite's schema cookie and the integrity seal.  The minimum *)
(* reader version is left out: it is never above the schema version, which *)
(* is what an older release is refused by.                                 *)
(***************************************************************************)
EXTENDS CatalogSchema

CONSTANTS
    Opener,         \* connections that open the file
    Released,       \* schema versions at which an earlier release left files
    MaxFaults,      \* bound on failed statements and deaths
    MaxGeneration   \* bound on the DDL of opened connections

ASSUME BoundsAssumption == MaxFaults \in Nat /\ MaxGeneration \in Nat
ASSUME ReleasedAssumption == Released \subseteq 1..(Latest - 1)

Nobody == "nobody"

VARIABLES
    file,       \* the committed file
    work,       \* the uncommitted file of the connection in the write lock
    lock,       \* who holds SQLite's write lock
    pc,         \* where each connection is in its open
    at,         \* schema_version of migrate_catalog_schema
    hurt,       \* ghost: openers that met a fault or a timeout
    faults

vars == <<file, work, lock, pc, at, hurt, faults>>

NoSeal == [generation |-> 0, cookie |-> 0]
SealOf(f) == [generation |-> f.generation, cookie |-> f.cookie]

Init ==
    /\ file = [version |-> 1, shape |-> ShapeV1, generation |-> 1, cookie |-> 1,
               seal |-> NoSeal]
    /\ work = file
    /\ lock = Nobody
    /\ pc = [p \in Opener |-> "closed"]
    /\ at = [p \in Opener |-> 0]
    /\ hurt = {}
    /\ faults = 0

Goto(p, l) == pc' = [pc EXCEPT ![p] = l]

(* Mutant of GiveUp: the transaction is left open.                         *)
GiveUpInTransaction(p) == Goto(p, "failed") /\ UNCHANGED <<lock, work>>

(* The open fails: the handle is closed, and with it SQLite's transaction. *)
GiveUp(p) ==
    /\ Goto(p, "failed")
    /\ lock' = IF lock = p THEN Nobody ELSE lock
    /\ work' = IF lock = p THEN file ELSE work

Refuse(p) == GiveUp(p) /\ UNCHANGED <<file, at, hurt, faults>>

Fault(p) ==
    /\ faults < MaxFaults
    /\ faults' = faults + 1
    /\ hurt' = hurt \cup {p}
    /\ GiveUp(p)
    /\ UNCHANGED <<file, at>>

----------------------------------------------------------------------------
(* Earlier releases of the library have been at the file, and took it step *)
(* by step to their own version.                                           *)
EarlierRelease ==
    /\ \A p \in Opener : pc[p] = "closed"
    /\ \E v \in Released : file.version < v
    /\ file' = [file EXCEPT !.version = @ + 1, !.shape = Migrated(@, file.version),
                            !.cookie = @ + 1]
    /\ work' = file'
    /\ UNCHANGED <<lock, pc, at, hurt, faults>>

(* ensure_catalog_schema counts the tables it knows, in a file as some     *)
(* release left it.  After a failed open the application tries again.      *)
CountTables(p) ==
    /\ pc[p] \in {"closed", "failed"}
    /\ file.version \in Released \cup {Latest}
    /\ Goto(p, IF TableCount(file.shape) \in CatalogTableCounts THEN "counted" ELSE "failed")
    /\ hurt' = hurt \ {p}
    /\ UNCHANGED <<file, work, lock, at, faults>>

(* load_existing_catalog, the first read: it decides whether to migrate.   *)
ReadVersion(p) ==
    /\ pc[p] = "counted"
    /\ at' = [at EXCEPT ![p] = file.version]
    /\ Goto(p, IF file.version < Latest THEN "old" ELSE "loaded")
    /\ UNCHANGED <<file, work, lock, hurt, faults>>

(* BEGIN IMMEDIATE waits for the write lock, and not forever.              *)
Begin(p, begun) ==
    \/ /\ lock = Nobody /\ lock' = p /\ work' = file
       /\ Goto(p, begun)
       /\ UNCHANGED <<file, hurt, faults>>
    \/ /\ lock # Nobody
       /\ hurt' = hurt \cup {p}
       /\ GiveUp(p)
       /\ UNCHANGED <<file, faults>>

(* Mutant of BeginMigration: the version read before the lock is migrated. *)
BeginMigrationBlindly(p) ==
    /\ pc[p] = "old"
    /\ Begin(p, "migrating")
    /\ UNCHANGED at

(* migrate_catalog_schema: the version is read again under the lock.       *)
BeginMigration(p) ==
    /\ pc[p] = "old"
    /\ Begin(p, "migrating")
    /\ at' = IF lock = Nobody THEN [at EXCEPT ![p] = file.version] ELSE at

(* Mutant of MigrateOneStep: each step commits what it did.                *)
MigrateOneStepCommits(p) ==
    /\ pc[p] = "migrating" /\ at[p] < Latest
    /\ work' = [work EXCEPT !.version = at[p] + 1, !.shape = Migrated(@, at[p]),
                            !.cookie = @ + 1]
    /\ file' = work'
    /\ at' = [at EXCEPT ![p] = @ + 1]
    /\ UNCHANGED <<lock, pc, hurt, faults>>

(* One step in its own savepoint; the last one leaves the seal cleared.    *)
(* What the step's SQL cannot be applied to fails.                         *)
MigrateOneStep(p) ==
    /\ pc[p] = "migrating" /\ at[p] < Latest
    /\ LET shape == Migrated(work.shape, at[p])
       IN  IF shape = Broken
           THEN Refuse(p)
           ELSE /\ work' = [work EXCEPT !.version = at[p] + 1, !.shape = shape,
                                        !.cookie = @ + 1,
                                        !.seal = IF at[p] + 1 = Latest THEN NoSeal ELSE @]
                /\ at' = [at EXCEPT ![p] = @ + 1]
                /\ UNCHANGED <<file, lock, pc, hurt, faults>>

(* Mutant of ValidateAndSeal: the seal is left to the first DDL.           *)
ValidateAndSealLater(p, sealed) ==
    IF ShapeIsValid(work.shape)
    THEN Goto(p, sealed) /\ UNCHANGED <<file, work, lock, at, hurt, faults>>
    ELSE Refuse(p)

(* validate_and_seal_catalog_in_transaction: validates in any case, and    *)
(* writes the seal when it does not match.                                 *)
ValidateAndSeal(p, sealed) ==
    IF ShapeIsValid(work.shape)
    THEN /\ work' = [work EXCEPT !.seal = SealOf(work)]
         /\ Goto(p, sealed)
         /\ UNCHANGED <<file, lock, at, hurt, faults>>
    ELSE Refuse(p)

SealMigrated(p) ==
    /\ pc[p] = "migrating" /\ at[p] = Latest
    /\ ValidateAndSeal(p, "migrated")

Commit(p, committed) ==
    /\ file' = work /\ work' = work
    /\ lock' = Nobody
    /\ Goto(p, committed)
    /\ UNCHANGED <<at, hurt, faults>>

CommitMigration(p) == pc[p] = "migrated" /\ Commit(p, "loaded")

(* validate_and_seal_catalog, for every opener.  The read of the state     *)
(* before it decides nothing.                                              *)
BeginSeal(p) == pc[p] = "loaded" /\ Begin(p, "sealing") /\ UNCHANGED at

SealLoaded(p) == pc[p] = "sealing" /\ ValidateAndSeal(p, "sealed")

CommitSeal(p) == pc[p] = "sealed" /\ Commit(p, "published")

(* The last read, outside the lock, and apply_catalog_state.               *)
ApplyState(p) ==
    /\ pc[p] = "published"
    /\ Goto(p, "open")
    /\ UNCHANGED <<file, work, lock, at, hurt, faults>>

(* Any statement of an open fails (with SAVEPOINT, COMMIT and ROLLBACK     *)
(* among them), or the process dies.                                       *)
FailOrDie(p) == pc[p] \notin {"closed", "failed", "open"} /\ Fault(p)

(* DDL of an opened connection: generation, tables and seal in one commit. *)
Ddl(p) ==
    /\ pc[p] = "open" /\ lock = Nobody
    /\ file.generation < MaxGeneration
    /\ LET next == [file EXCEPT !.generation = @ + 1, !.cookie = @ + 1]
       IN  file' = [next EXCEPT !.seal = SealOf(next)]
    /\ work' = file'
    /\ UNCHANGED <<lock, pc, at, hurt, faults>>

OpenStep(p) ==
    \/ CountTables(p) \/ ReadVersion(p)
    \/ BeginMigration(p) \/ MigrateOneStep(p) \/ SealMigrated(p) \/ CommitMigration(p)
    \/ BeginSeal(p) \/ SealLoaded(p) \/ CommitSeal(p)
    \/ ApplyState(p)

Next ==
    \/ EarlierRelease
    \/ \E p \in Opener : OpenStep(p) \/ FailOrDie(p) \/ Ddl(p)

Spec == Init /\ [][Next]_vars /\ \A p \in Opener : WF_vars(OpenStep(p))

----------------------------------------------------------------------------
(* migrate_catalog_schema is one transaction: the file goes from the       *)
(* version it had to the current one, valid and sealed, in one commit;     *)
(* no reader, and nobody after a crash, finds a version in between.        *)
AllOrNothing ==
    [][file'.version # file.version /\ (\E p \in Opener : pc[p] # "closed") =>
         /\ file'.version = Latest
         /\ ShapeIsValid(file'.shape)
         /\ file'.seal = SealOf(file')]_file

(* A connection that got through load_existing_catalog works on a catalog  *)
(* of the current version, with the tables a new file has, and sealed.     *)
OpenedCurrent ==
    \A p \in Opener : pc[p] \in {"published", "open"} =>
        /\ file.version = Latest
        /\ Declared(file.shape) = FreshShape
        /\ file.seal = SealOf(file)

(* No migration loses what an earlier release stored: every column is      *)
(* still there, with the value it had, across rename, rebuild and drop.    *)
ColumnsKept ==
    [][\A t \in DOMAIN file.shape :
         /\ t \in DOMAIN file'.shape
         /\ \A c \in ColumnsOf(file.shape, t) :
               c \in ColumnsOf(file'.shape, t) /\ file'.shape[t].cols[c] = file.shape[t].cols[c]]_file

(* Two connections that open an old file at the same time both succeed:    *)
(* an open fails only when a statement of it failed or the wait for the    *)
(* write lock timed out, never because the other one migrated first.       *)
OnlyFaultsRefuse == \A p \in Opener : pc[p] = "failed" => p \in hurt

(* Once failures stop, an application that keeps opening gets in.          *)
OpensInTheEnd == \A p \in Opener : pc[p] = "counted" ~> pc[p] = "open"
=============================================================================
