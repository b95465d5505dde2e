---------------------------- MODULE FileLifecycle ---------------------------
(***************************************************************************)
(* Opening a .mylite file: exclusive creation, the lifecycle byte of the   *)
(* preamble, recovery of an unfinished initialization, and publication     *)
(* (mylite_file_open.c, mylite_offset_vfs.c, open_file_sqlite in           *)
(* mylite_connection.c).  Several processes open the same path; an inner   *)
(* write or sync may fail, a process may die between any two steps, and    *)
(* power may be lost.                                                      *)
(***************************************************************************)
EXTENDS Integers

CONSTANTS
    Proc,           \* processes that open the file
    MaxFaults       \* bound on failed calls, deaths and power losses

ASSUME MaxFaultsAssumption == MaxFaults \in Nat

(* The value of lock that names no process.                                *)
Nobody == "nobody"

ASSUME NobodyAssumption == Nobody \notin Proc

VARIABLES
    pre,        \* the preamble: "absent" (no file), "broken" (a file without
                \* a whole preamble), "INITIALIZING", "COMMITTED", "RECOVERY"
    synced,     \* the preamble as of the last sync
    payload,    \* SQLite's part: "none"; "torn" (bytes but no header) or
                \* "partial" (header, hot journal); "catalog" (committed)
    lock,       \* holder of the retained exclusive inner lock
    pc,         \* where each process is in its open
    owner,      \* initialization_owner of its file object
    wrote,      \* initialization_preamble_written
    emptySeen,  \* physical_size == MYLITE_FILE_PREAMBLE_SIZE when it looked
    shared,     \* processes that hold a shared inner lock
    published,  \* ghost: a COMMITTED transition has reported success
    faults      \* failures so far

vars == <<pre, synced, payload, lock, pc, owner, wrote, emptySeen, shared, published, faults>>

Init ==
    /\ pre = "absent" /\ synced = "absent" /\ payload = "none"
    /\ lock = Nobody
    /\ pc = [p \in Proc |-> "idle"]
    /\ owner = [p \in Proc |-> FALSE]
    /\ wrote = [p \in Proc |-> FALSE]
    /\ emptySeen = [p \in Proc |-> FALSE]
    /\ shared = {}
    /\ published = FALSE
    /\ faults = 0

Goto(p, l) == pc' = [pc EXCEPT ![p] = l]
Works == faults' = faults
Breaks == faults < MaxFaults /\ faults' = faults + 1

HasHeader == payload \in {"partial", "catalog"}

(* acquire_initialization_lock: SHARED, then EXCLUSIVE; a refusal or a     *)
(* failed call gives up the shared lock.                                   *)
LockShared(p, locked, refused) ==
    /\ \/ /\ Works
          /\ shared' = IF lock = Nobody THEN shared \cup {p} ELSE shared
          /\ Goto(p, IF lock = Nobody THEN locked ELSE refused)
       \/ Breaks /\ shared' = shared /\ Goto(p, refused)
    /\ UNCHANGED <<pre, synced, payload, lock, owner, wrote, emptySeen, published>>

CanLockExclusive(p) == lock = Nobody /\ shared = {p}

LockExclusive(p, locked, refused) ==
    LET got == CanLockExclusive(p)
    IN  /\ shared' = shared \ {p}
        /\ \/ /\ Works
              /\ lock' = IF got THEN p ELSE lock
              /\ owner' = IF got THEN [owner EXCEPT ![p] = TRUE] ELSE owner
              /\ Goto(p, IF got THEN locked ELSE refused)
           \/ Breaks /\ Goto(p, refused) /\ UNCHANGED <<lock, owner>>

(* xClose drops every lock of the process's handle.                        *)
DropLocks(p) ==
    /\ shared' = shared \ {p}
    /\ lock' = IF lock = p THEN Nobody ELSE lock
    /\ owner' = [owner EXCEPT ![p] = FALSE]
    /\ wrote' = [wrote EXCEPT ![p] = FALSE]

----------------------------------------------------------------------------
(* mylite_storage_open_sqlite_payload: exclusive creation first, then, on  *)
(* any error, the file that exists.                                        *)
CreateExclusive(p) ==
    /\ pc[p] = "idle"
    /\ \/ pre = "absent" /\ Works /\ pre' = "broken" /\ Goto(p, "created")
       \/ pre # "absent" /\ Works /\ pre' = pre /\ Goto(p, "existing")
       \/ Breaks /\ pre' = pre /\ \E l \in {"existing", "idle"} : Goto(p, l)
    /\ UNCHANGED <<synced, payload, lock, owner, wrote, emptySeen, shared, published>>

(* initialize_new_main_database_file: lock, write the preamble, sync.      *)
ShareNew(p) ==
    /\ pc[p] = "created"
    /\ LockShared(p, "sharedNew", "existing")

AcquireNew(p) ==
    /\ pc[p] = "sharedNew"
    /\ LockExclusive(p, "locked", "existing")
    /\ UNCHANGED <<pre, synced, payload, wrote, emptySeen, published>>

WritePreamble(p) ==
    /\ pc[p] = "locked"
    /\ \/ /\ Works /\ pre' = "INITIALIZING" /\ Goto(p, "preambled")
          /\ wrote' = [wrote EXCEPT ![p] = TRUE]
       \/ Breaks /\ Goto(p, "closeCreated") /\ UNCHANGED <<pre, wrote>>
    /\ UNCHANGED <<synced, payload, lock, owner, emptySeen, shared, published>>

SyncPreamble(p) ==
    /\ pc[p] = "preambled"
    /\ \/ Works /\ synced' = pre /\ Goto(p, "opened")
       \/ Breaks /\ Goto(p, "closeCreated") /\ UNCHANGED synced
    /\ UNCHANGED <<pre, payload, lock, owner, wrote, emptySeen, shared, published>>

----------------------------------------------------------------------------
(* validate_existing_main_database_file: the size and the preamble are     *)
(* read before the initialization lock is taken, and not again after it.   *)
ReadSize(p) ==
    /\ pc[p] = "existing"
    /\ \/ /\ pre \in {"absent", "broken"} /\ Works /\ Goto(p, "idle")
          /\ UNCHANGED emptySeen
       \/ /\ pre \notin {"absent", "broken"} /\ Works /\ Goto(p, "sized")
          /\ emptySeen' = [emptySeen EXCEPT ![p] = payload = "none"]
       \/ Breaks /\ Goto(p, "idle") /\ UNCHANGED emptySeen
    /\ UNCHANGED <<pre, synced, payload, lock, owner, wrote, shared, published>>

ReadPreamble(p) ==
    /\ pc[p] = "sized"
    /\ \/ pre = "COMMITTED" /\ Works /\ Goto(p, IF HasHeader THEN "opened" ELSE "idle")
       \/ pre \in {"INITIALIZING", "RECOVERY"} /\ Works /\ Goto(p, "recovering")
       \/ Breaks /\ Goto(p, "idle")
    /\ UNCHANGED <<pre, synced, payload, lock, owner, wrote, emptySeen, shared, published>>

ShareRecovery(p) ==
    /\ pc[p] = "recovering"
    /\ LockShared(p, "sharedRecovery", "idle")

(* Mutant of AcquireRecovery: the shared lock is taken for enough.         *)
AcquireRecoveryShared(p) ==
    /\ pc[p] = "sharedRecovery"
    /\ lock' = p /\ shared' = shared \ {p}
    /\ owner' = [owner EXCEPT ![p] = TRUE]
    /\ wrote' = [wrote EXCEPT ![p] = TRUE]
    /\ Goto(p, "opened") /\ Works
    /\ UNCHANGED <<pre, synced, payload, emptySeen, published>>

(* Mutant of AcquireRecovery: a file that ends with the preamble is not    *)
(* exempt from the header check.                                           *)
AcquireRecoveryNeedsHeader(p) ==
    /\ pc[p] = "sharedRecovery"
    /\ LockExclusive(p, IF HasHeader THEN "opened" ELSE "closeExisting", "idle")
    /\ wrote' = [wrote EXCEPT ![p] = owner'[p]]
    /\ UNCHANGED <<pre, synced, payload, emptySeen, published>>

AcquireRecovery(p) ==
    /\ pc[p] = "sharedRecovery"
    /\ LockExclusive(p, IF emptySeen[p] \/ HasHeader THEN "opened" ELSE "closeExisting", "idle")
    /\ wrote' = [wrote EXCEPT ![p] = owner'[p]]
    /\ UNCHANGED <<pre, synced, payload, emptySeen, published>>

----------------------------------------------------------------------------
(* Mutant of LoadCatalog: the lifecycle is published before the catalog    *)
(* transaction.                                                            *)
LoadCatalogPublishesFirst(p) ==
    /\ pc[p] = "opened" /\ Works
    /\ pre' = IF owner[p] THEN "COMMITTED" ELSE pre
    /\ payload' = IF payload = "catalog" THEN "catalog" ELSE "none"
    /\ Goto(p, IF payload = "catalog" THEN "cataloged" ELSE "writing")
    /\ UNCHANGED <<synced, lock, owner, wrote, emptySeen, shared, published>>

(* bootstrap, configuration and mylite_catalog_initialize_file_backed.  A  *)
(* handle that holds the initialization lock meets no other lock; any      *)
(* other handle needs it to be free, or fails with SQLITE_BUSY.  A hot     *)
(* journal is rolled back before anything is read.                         *)
LoadCatalog(p) ==
    /\ pc[p] = "opened"
    /\ \/ /\ owner[p] \/ lock = Nobody
          /\ Works
          /\ payload' = IF payload = "catalog" THEN "catalog" ELSE "none"
          /\ Goto(p, IF payload = "catalog" THEN "cataloged" ELSE "writing")
       \/ ~owner[p] /\ lock # Nobody /\ Works /\ Goto(p, "abort") /\ UNCHANGED payload
       \/ Breaks /\ Goto(p, "abort") /\ UNCHANGED payload
    /\ UNCHANGED <<pre, synced, lock, owner, wrote, emptySeen, shared, published>>

(* initialize_catalog_schema is one SQLite transaction: its pages reach    *)
(* the file under a hot journal, first page first, then the journal goes.  *)
(* On an error SQLite rolls back, and that may fail as well.               *)
WriteCatalogPages(p) ==
    /\ pc[p] = "writing"
    /\ \/ Works /\ payload' = "partial" /\ Goto(p, "committing")
       \/ Breaks /\ payload' \in {"none", "partial", "torn"} /\ Goto(p, "abort")
    /\ UNCHANGED <<pre, synced, lock, owner, wrote, emptySeen, shared, published>>

CommitCatalog(p) ==
    /\ pc[p] = "committing"
    /\ \/ Works /\ payload' = "catalog" /\ Goto(p, "cataloged")
       \/ Breaks /\ payload' \in {"none", "partial"} /\ Goto(p, "abort")
    /\ UNCHANGED <<pre, synced, lock, owner, wrote, emptySeen, shared, published>>

----------------------------------------------------------------------------
(* transition_initialization_state(COMMITTED): nothing to do for a handle  *)
(* that is not the owner; otherwise header check, byte, sync, unlock.      *)
PublishWrite(p) ==
    /\ pc[p] = "cataloged"
    /\ \/ ~owner[p] /\ Works /\ Goto(p, "ready") /\ UNCHANGED pre
       \/ /\ owner[p] /\ Works
          /\ pre' = IF HasHeader THEN "COMMITTED" ELSE pre
          /\ Goto(p, IF HasHeader THEN "publishing" ELSE "abort")
       \/ owner[p] /\ Breaks /\ Goto(p, "abort") /\ UNCHANGED pre
    /\ UNCHANGED <<synced, payload, lock, owner, wrote, emptySeen, shared, published>>

(* Mutant of PublishSync: success is reported without the sync.            *)
PublishUnsynced(p) ==
    /\ pc[p] = "publishing"
    /\ Works /\ published' = TRUE /\ Goto(p, "ready")
    /\ lock' = Nobody
    /\ owner' = [owner EXCEPT ![p] = FALSE]
    /\ UNCHANGED <<pre, synced, payload, wrote, emptySeen, shared>>

PublishSync(p) ==
    /\ pc[p] = "publishing"
    /\ \/ /\ Works /\ synced' = pre /\ published' = TRUE /\ Goto(p, "ready")
          /\ lock' = Nobody
          /\ owner' = [owner EXCEPT ![p] = FALSE]
       \/ /\ Breaks /\ synced' \in {synced, pre} /\ Goto(p, "abort")
          /\ UNCHANGED <<lock, owner, published>>
    /\ UNCHANGED <<pre, payload, wrote, emptySeen, shared>>

(* transition_initialization_state(RECOVERY_REQUIRED) by an owner: the     *)
(* byte, or the whole preamble when none was written, then sync and, when  *)
(* all went well, unlock.  Its failure is ignored.                         *)
Marked(p) == IF pre = "broken" /\ wrote[p] THEN "broken" ELSE "RECOVERY"

MarkRecovery(p) ==
    \/ Works /\ pre' = Marked(p) /\ synced' = pre'
    \/ Breaks /\ pre' \in {pre, Marked(p)} /\ synced' \in {synced, pre'}

(* mylite_storage_abort_sqlite_initialization after a failed open.         *)
Abort(p) ==
    /\ pc[p] = "abort"
    /\ \/ /\ owner[p] /\ MarkRecovery(p)
          /\ \/ Works /\ lock' = Nobody /\ owner' = [owner EXCEPT ![p] = FALSE]
             \/ Breaks /\ UNCHANGED <<lock, owner>>
       \/ ~owner[p] /\ Works /\ UNCHANGED <<pre, synced, lock, owner>>
    /\ Goto(p, "closing")
    /\ UNCHANGED <<payload, wrote, emptySeen, shared, published>>

(* offset_close of the destroyed handle: an owner that is still unpublished *)
(* tries once more, then the inner file is closed.                         *)
CloseHandle(p) ==
    /\ pc[p] = "closing"
    /\ \/ owner[p] /\ MarkRecovery(p)
       \/ ~owner[p] /\ Works /\ UNCHANGED <<pre, synced>>
    /\ DropLocks(p)
    /\ Goto(p, "idle")
    /\ UNCHANGED <<payload, emptySeen, published>>

(* close_failed_inner_file: the same inside a failed xOpen.  A failed      *)
(* creation goes on to open the file that now exists.                      *)
CloseFailed(p) ==
    /\ pc[p] \in {"closeCreated", "closeExisting"}
    /\ MarkRecovery(p)
    /\ DropLocks(p)
    /\ Goto(p, IF pc[p] = "closeCreated" THEN "existing" ELSE "idle")
    /\ UNCHANGED <<payload, emptySeen, published>>

----------------------------------------------------------------------------
(* An open handle runs statements under shared locks and is closed.        *)
BeginRead(p) ==
    /\ pc[p] = "ready" /\ p \notin shared /\ lock = Nobody
    /\ shared' = shared \cup {p}
    /\ UNCHANGED <<pre, synced, payload, lock, pc, owner, wrote, emptySeen, published, faults>>

EndRead(p) ==
    /\ pc[p] = "ready" /\ p \in shared
    /\ shared' = shared \ {p}
    /\ UNCHANGED <<pre, synced, payload, lock, pc, owner, wrote, emptySeen, published, faults>>

CloseReady(p) ==
    /\ pc[p] = "ready" /\ p \notin shared
    /\ DropLocks(p)
    /\ Goto(p, "idle")
    /\ Works
    /\ UNCHANGED <<pre, synced, payload, emptySeen, published>>

(* A process dies: its locks go, what it wrote stays.                      *)
Crash(p) ==
    /\ pc[p] # "idle" /\ Breaks
    /\ payload' \in (IF pc[p] = "writing" THEN {payload, "torn"} ELSE {payload})
    /\ DropLocks(p)
    /\ Goto(p, "idle")
    /\ UNCHANGED <<pre, synced, emptySeen, published>>

(* Power is lost: every process dies and an unsynced byte may be undone.   *)
PowerLoss ==
    /\ pre # "absent" /\ Breaks
    /\ pre' \in {pre, IF synced = "absent" THEN "broken" ELSE synced}
    /\ payload' \in (IF payload = "catalog" THEN {"catalog"}
                    ELSE IF payload = "none" /\ \A p \in Proc : pc[p] # "writing" THEN {"none"}
                    ELSE {"none", "partial", "torn"})
    /\ lock' = Nobody /\ shared' = {}
    /\ pc' = [p \in Proc |-> "idle"]
    /\ owner' = [p \in Proc |-> FALSE]
    /\ wrote' = [p \in Proc |-> FALSE]
    /\ UNCHANGED <<synced, emptySeen, published>>

(* The steps of one open.                                                  *)
OpenStep(p) ==
    \/ CreateExclusive(p) \/ ShareNew(p) \/ AcquireNew(p) \/ WritePreamble(p) \/ SyncPreamble(p)
    \/ ReadSize(p) \/ ReadPreamble(p) \/ ShareRecovery(p) \/ AcquireRecovery(p)
    \/ LoadCatalog(p) \/ WriteCatalogPages(p) \/ CommitCatalog(p)
    \/ PublishWrite(p) \/ PublishSync(p) \/ Abort(p) \/ CloseHandle(p) \/ CloseFailed(p)

Next ==
    \/ \E p \in Proc : OpenStep(p) \/ BeginRead(p) \/ EndRead(p) \/ CloseReady(p) \/ Crash(p)
    \/ PowerLoss

(* A call that was started returns, and so does a read; nobody has to      *)
(* start one.                                                              *)
Fairness ==
    \A p \in Proc : WF_vars(pc[p] # "idle" /\ OpenStep(p)) /\ WF_vars(EndRead(p))

SafetySpec == Init /\ [][Next]_vars

Spec == SafetySpec /\ Fairness

----------------------------------------------------------------------------
(* The points between the calls of an open where others may step in.       *)
Places ==
    {"idle", "created", "sharedNew", "locked", "preambled", "existing", "sized",
     "recovering", "sharedRecovery", "opened", "writing", "committing", "cataloged",
     "publishing", "ready", "abort", "closing", "closeCreated", "closeExisting"}

(* Types, and the ownership discipline of acquire_initialization_lock and  *)
(* release_initialization_lock: the handles that believe they own the      *)
(* initialization are exactly the one that holds the exclusive lock, and   *)
(* nobody shares the file with it.                                         *)
TypeOK ==
    /\ pre \in {"absent", "broken", "INITIALIZING", "COMMITTED", "RECOVERY"}
    /\ synced \in {"absent", "broken", "INITIALIZING", "COMMITTED", "RECOVERY"}
    /\ payload \in {"none", "torn", "partial", "catalog"}
    /\ lock \in Proc \cup {Nobody}
    /\ pc \in [Proc -> Places]
    /\ owner \in [Proc -> BOOLEAN]
    /\ wrote \in [Proc -> BOOLEAN]
    /\ emptySeen \in [Proc -> BOOLEAN]
    /\ shared \subseteq Proc
    /\ published \in BOOLEAN
    /\ faults \in 0 .. MaxFaults
    /\ \A p \in Proc : owner[p] <=> lock = p
    /\ lock # Nobody => shared = {}

(* A file whose preamble says COMMITTED, in the cache or on the disk, has  *)
(* a committed catalog behind it, whoever failed or died on the way: other *)
(* openers then skip the initialization lock and trust the payload         *)
(* (validate_existing_main_database_file).                                 *)
PublishedMeansComplete ==
    pre = "COMMITTED" \/ synced = "COMMITTED" => payload = "catalog"

(* Only the initialization owner ever writes the first catalog, and every  *)
(* handle that open_file_sqlite gives back has a committed catalog.        *)
HandlesSeeCatalog ==
    \A p \in Proc :
        /\ pc[p] \in {"writing", "committing"} => owner[p]
        /\ pc[p] \in {"cataloged", "publishing", "ready"} => payload = "catalog"

(* No open, recovery, failure or death undoes a catalog that SQLite has    *)
(* committed.                                                              *)
CatalogKept == [][payload = "catalog" => payload' = "catalog"]_vars

(* An opener that keeps trying, while from some point on the others have  *)
(* no open, close or read under way, gets a handle once the failures stop, *)
(* whatever attempts, deaths and recoveries left behind; unless the file   *)
(* has no whole preamble or a torn first page, which                       *)
(* validate_existing_main_database_file refuses for good.                  *)
OpensInTheEnd ==
    \A p \in Proc :
        /\ <>[](\A q \in Proc \ {p} : pc[q] \in {"idle", "ready"} /\ q \notin shared)
        /\ []<>(pc[p] # "idle")
        => []<>(pc[p] = "ready" \/ pre = "broken" \/ payload = "torn")

(* Once an open has reported success after publishing, the file never     *)
(* again looks unfinished, in the cache or after a power loss: a later     *)
(* opener with a stale view may mark it RECOVERY_REQUIRED or COMMITTED     *)
(* once more (the state is read before the lock), but nobody initializes   *)
(* it a second time.                                                       *)
PublishedStays == published => {pre, synced} \subseteq {"COMMITTED", "RECOVERY"}
=============================================================================
