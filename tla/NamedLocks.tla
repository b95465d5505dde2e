----------------------------- MODULE NamedLocks -----------------------------
(***************************************************************************)
(* The connections that use the named-lock registry: GET_LOCK() with its   *)
(* polling wait, RELEASE_LOCK(), RELEASE_ALL_LOCKS(), closing a handle and  *)
(* SET pseudo_thread_id, which replaces the connection id that keys lock   *)
(* ownership.  A waiting GET_LOCK() leaves the registry mutex, sleeps and  *)
(* tries again, so other connections run between two of its attempts.      *)
(***************************************************************************)
EXTENDS NamedLockMap

CONSTANTS
    Conn,           \* database handles of the process
    MaxId,          \* bound on allocated connection ids
    PseudoIds,      \* values clients give to SET pseudo_thread_id
    Timeout,        \* GET_LOCK timeouts in seconds; a negative one is endless
    MsPerSecond,    \* named_lock_wait_milliseconds_per_second (1000)
    Slice,          \* named_lock_wait_slice_milliseconds (10)
    MaxTimeoutMs    \* INT32_MAX

ASSUME NamedLocksAssumption ==
    /\ Name # {}
    /\ MaxId \in Nat
    /\ PseudoIds \subseteq Nat
    /\ Timeout \subseteq Int
    /\ MsPerSecond \in Nat \ {0} /\ Slice \in Nat \ {0}
    /\ MaxTimeoutMs \in Nat \ {0}

VARIABLES
    nextId,     \* next_connection_id, a process-wide atomic counter
    connid,     \* connid[c]: session.connection_id
    status,     \* "closed", "idle" or "waiting" inside GET_LOCK()
    wait,       \* wait[c]: the name, timeout and time slept of that GET_LOCK()
    ret,        \* ret[c]: what the last GET_LOCK() of c returned
    granted,    \* granted[c][n]: GET_LOCK() = 1 answers c has had for n, less
                \* the RELEASE_LOCK() = 1 answers: the holds c believes it has
    renamed     \* history: some connection has set its pseudo_thread_id

connVars == <<nextId, connid, status, wait, ret, granted, renamed>>
locksVars == <<registryVars, connVars>>

NoWait == [name |-> CHOOSE n \in Name : TRUE, timeout |-> 0, waited |-> 0]

LocksInit ==
    /\ InitRegistry
    /\ nextId = 1
    /\ connid = [c \in Conn |-> 0]
    /\ status = [c \in Conn |-> "closed"]
    /\ wait = [c \in Conn |-> NoWait]
    /\ ret = [c \in Conn |-> "none"]
    /\ granted = [c \in Conn |-> [n \in Name |-> 0]]
    /\ renamed = FALSE

----------------------------------------------------------------------------
(* allocate_database_handle with a fresh id of allocate_session_connection_id *)
Open(c) ==
    /\ status[c] = "closed" /\ nextId <= MaxId
    /\ nextId' = nextId + 1
    /\ connid' = [connid EXCEPT ![c] = nextId]
    /\ status' = [status EXCEPT ![c] = "idle"]
    /\ ret' = [ret EXCEPT ![c] = "none"]
    /\ UNCHANGED <<registryVars, wait, granted, renamed>>

TimeoutMs(t) ==
    IF t < 0 \/ t * MsPerSecond > MaxTimeoutMs THEN MaxTimeoutMs ELSE t * MsPerSecond

(* named_lock_sleep_milliseconds: 0 means that the wait is over.           *)
SleepMs(t, waited) ==
    LET remaining == TimeoutMs(t) - waited
    IN  IF t < 0 THEN Slice
        ELSE IF remaining <= 0 THEN 0
        ELSE IF remaining < Slice THEN remaining ELSE Slice

(* sqlite3_sleep reports the time it asked the system for: the request, or *)
(* whole seconds on a platform without usleep.                             *)
SleptMs(asked) == {asked, MsPerSecond}

(* Mutant of WaitedAfter: the time slept is not accumulated.               *)
WaitedAfterNotCounted(t, waited, slept) == waited

(* Time slept so far; an endless wait never looks at it.                   *)
WaitedAfter(t, waited, slept) == IF t < 0 THEN 0 ELSE waited + slept

(* One turn of the loop of mylite_named_lock_get: try, then give up or     *)
(* leave the mutex and sleep.                                              *)
Attempt(c, n, t, waited) == \E r \in {Got, Busy, NoMem} :
    /\ TryGet(connid[c], n, r)
    /\ \/ /\ r = Got
          /\ granted' = [granted EXCEPT ![c][n] = IF @ < MaxHold THEN @ + 1 ELSE @]
          /\ ret' = [ret EXCEPT ![c] = "acquired"]
          /\ status' = [status EXCEPT ![c] = "idle"]
          /\ wait' = [wait EXCEPT ![c] = NoWait]
       \/ /\ r = NoMem
          /\ ret' = [ret EXCEPT ![c] = "error"]
          /\ status' = [status EXCEPT ![c] = "idle"]
          /\ wait' = [wait EXCEPT ![c] = NoWait]
          /\ UNCHANGED granted
       \/ /\ r = Busy /\ (t = 0 \/ SleepMs(t, waited) = 0)
          /\ ret' = [ret EXCEPT ![c] = "timeout"]
          /\ status' = [status EXCEPT ![c] = "idle"]
          /\ wait' = [wait EXCEPT ![c] = NoWait]
          /\ UNCHANGED granted
       \/ /\ r = Busy /\ t # 0 /\ SleepMs(t, waited) # 0
          /\ ret' = [ret EXCEPT ![c] = "none"]
          /\ status' = [status EXCEPT ![c] = "waiting"]
          /\ wait' = [wait EXCEPT ![c] = [name |-> n, timeout |-> t, waited |-> waited]]
          /\ UNCHANGED granted
    /\ UNCHANGED <<nextId, connid, renamed>>

GetLock(c, n, t) == status[c] = "idle" /\ Attempt(c, n, t, 0)

(* Mutant of Wake: the deadline is tested before the lock is tried again.  *)
WakeGivesUpFirst(c) ==
    /\ status[c] = "waiting"
    /\ \E slept \in SleptMs(SleepMs(wait[c].timeout, wait[c].waited)) :
          LET waited == WaitedAfter(wait[c].timeout, wait[c].waited, slept)
          IN  IF SleepMs(wait[c].timeout, waited) = 0
              THEN /\ ret' = [ret EXCEPT ![c] = "timeout"]
                   /\ status' = [status EXCEPT ![c] = "idle"]
                   /\ wait' = [wait EXCEPT ![c] = NoWait]
                   /\ UNCHANGED <<registryVars, nextId, connid, granted, renamed>>
              ELSE Attempt(c, wait[c].name, wait[c].timeout, waited)

(* The sleep ends and the loop tries again.                                *)
Wake(c) ==
    /\ status[c] = "waiting"
    /\ \E slept \in SleptMs(SleepMs(wait[c].timeout, wait[c].waited)) :
          Attempt(c, wait[c].name, wait[c].timeout,
                  WaitedAfter(wait[c].timeout, wait[c].waited, slept))

ReleaseLock(c, n) == \E r \in {Got, Busy, Absent} :
    /\ status[c] = "idle"
    /\ Release(connid[c], n, r)
    /\ granted' = [granted EXCEPT ![c][n] = IF r = Got /\ @ > 0 THEN @ - 1 ELSE @]
    /\ UNCHANGED <<nextId, connid, status, wait, ret, renamed>>

ReleaseAllLocks(c) ==
    /\ status[c] = "idle"
    /\ RemoveOwned(connid[c])
    /\ granted' = [granted EXCEPT ![c] =
          [n \in Name |-> IF n \in OwnedBy(connid[c]) THEN 0 ELSE @[n]]]
    /\ UNCHANGED <<nextId, connid, status, wait, ret, renamed>>

(* Mutant of Destroy: the registry is not swept.                           *)
DestroyKeepsLocks(c) ==
    /\ status[c] = "idle"
    /\ granted' = [granted EXCEPT ![c] = [n \in Name |-> 0]]
    /\ status' = [status EXCEPT ![c] = "closed"]
    /\ ret' = [ret EXCEPT ![c] = "none"]
    /\ UNCHANGED <<registryVars, nextId, connid, wait, renamed>>

(* destroy_database_handle: mylite_named_lock_release_all_for_connection.  *)
Destroy(c) ==
    /\ status[c] = "idle"
    /\ RemoveOwned(connid[c])
    /\ granted' = [granted EXCEPT ![c] = [n \in Name |-> 0]]
    /\ status' = [status EXCEPT ![c] = "closed"]
    /\ ret' = [ret EXCEPT ![c] = "none"]
    /\ UNCHANGED <<nextId, connid, wait, renamed>>

(* SET [SESSION] pseudo_thread_id = id assigns session.connection_id.      *)
SetPseudoThreadId(c, id) ==
    /\ status[c] = "idle"
    /\ connid' = [connid EXCEPT ![c] = id]
    /\ renamed' = TRUE
    /\ UNCHANGED <<registryVars, nextId, status, wait, ret, granted>>

LocksNext == \E c \in Conn :
    \/ Open(c)
    \/ \E n \in Name, t \in Timeout : GetLock(c, n, t)
    \/ Wake(c)
    \/ \E n \in Name : ReleaseLock(c, n)
    \/ ReleaseAllLocks(c)
    \/ Destroy(c)
    \/ \E id \in PseudoIds : SetPseudoThreadId(c, id)

(* A sleep always ends and the thread gets the mutex: Wake is fair.  No    *)
(* client has to call anything, so nothing else is.                        *)
Fairness == \A c \in Conn : WF_locksVars(Wake(c))

LocksSpec == LocksInit /\ [][LocksNext]_locksVars /\ Fairness

----------------------------------------------------------------------------
(* Properties.                                                             *)

(* Every value the code keeps stays in its range; in particular no entry   *)
(* is held zero times and no hold count passes UINT64_MAX (the guard of    *)
(* try_get_named_lock).                                                    *)
TypeOK ==
    /\ owner \in [Name -> Nat \cup {NoOwner}]
    /\ hold \in [Name -> 0 .. MaxHold]
    /\ \A n \in Name : (hold[n] = 0) <=> (owner[n] = NoOwner)
    /\ nextId \in Nat \ {0}
    /\ connid \in [Conn -> Nat]
    /\ status \in [Conn -> {"closed", "idle", "waiting"}]
    /\ wait \in [Conn -> [name : Name, timeout : Timeout \cup {0}, waited : Nat]]
    /\ ret \in [Conn -> {"none", "acquired", "timeout", "error"}]
    /\ granted \in [Conn -> [Name -> 0 .. MaxHold]]
    /\ renamed \in BOOLEAN

(* No two open connections share an id, and no id was given out before its *)
(* turn.  This is what makes ownership by id ownership by connection.      *)
IdsDistinct ==
    /\ \A c \in Conn : connid[c] < nextId
    /\ \A c, d \in Conn :
          status[c] # "closed" /\ status[d] # "closed" /\ connid[c] = connid[d] => c = d

(* Registry and clients agree: a held name is held by exactly one open    *)
(* connection, which owns the entry and knows of exactly as many holds as  *)
(* hold_count says; a name nobody holds has no entry.                      *)
GrantsMatchRegistry ==
    \A n \in Name :
        \/ hold[n] = 0 /\ \A c \in Conn : granted[c][n] = 0
        \/ \E c \in Conn :
              /\ status[c] # "closed" /\ connid[c] = owner[n]
              /\ hold[n] > 0 /\ granted[c][n] = hold[n]
              /\ \A d \in Conn \ {c} : granted[d][n] = 0

(* As long as nobody sets a pseudo_thread_id, the holds GET_LOCK() granted *)
(* and the registry agree: two clients never both believe they hold a      *)
(* name, a client never loses a hold it was granted, and a handle that is  *)
(* closed leaves no entry behind.  A new id hides the entries of the old   *)
(* one from RELEASE_LOCK() and from closing the handle.                    *)
LocksAgree == ~renamed => GrantsMatchRegistry

(* A waiting GET_LOCK() answers 0 only when, at that moment, somebody else *)
(* holds the name and it has slept through its whole timeout: a release    *)
(* during the last sleep is still noticed.                                 *)
TimeoutOnlyWhileHeld ==
    [][\A c \in Conn : status[c] = "waiting" /\ ret'[c] = "timeout" =>
          /\ hold[wait[c].name] > 0 /\ owner[wait[c].name] # connid[c]
          /\ \E slept \in SleptMs(SleepMs(wait[c].timeout, wait[c].waited)) :
                wait[c].waited + slept >= TimeoutMs(wait[c].timeout)]_locksVars

(* A GET_LOCK() with a timeout that is not negative returns, whatever the  *)
(* other connections do.                                                   *)
GetLockReturns ==
    \A c \in Conn :
        (status[c] = "waiting" /\ wait[c].timeout >= 0) ~> (status[c] # "waiting")
=============================================================================
