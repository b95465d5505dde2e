---------------------------- MODULE NamedLockMap ----------------------------
(***************************************************************************)
(* What the process-local named-lock registry of mylite_named_locks.c      *)
(* promises: a map from lock names to an owning connection id and a        *)
(* recursive hold count.  Every operation runs under the registry mutex,   *)
(* so one call is one step.  NamedLockTable shows that the array the code  *)
(* keeps implements this map; NamedLocks adds the connections that use it. *)
(***************************************************************************)
EXTENDS Integers, FiniteSetsExt

CONSTANTS
    Name,       \* lock names that pass named_lock_validate (1..64 bytes)
    MaxHold     \* UINT64_MAX: the largest hold count and the largest total

ASSUME MaxHoldAssumption == MaxHold \in Nat \ {0}

VARIABLES
    owner,      \* owner[n]: owner_connection_id of the entry for n
    hold        \* hold[n]: hold_count of the entry for n, 0 when there is none

registryVars == <<owner, hold>>

NoOwner == -1   \* the name has no entry (connection ids are never negative)

InitRegistry == owner = [n \in Name |-> NoOwner] /\ hold = [n \in Name |-> 0]

----------------------------------------------------------------------------
(* The operations.  r is what the call hands back to its caller.           *)

Got == [ok |-> TRUE, null |-> FALSE, value |-> 1]
Busy == [ok |-> TRUE, null |-> FALSE, value |-> 0]
Absent == [ok |-> TRUE, null |-> TRUE, value |-> 0]
NoMem == [ok |-> FALSE, null |-> FALSE, value |-> 0]
Counted(k) == [ok |-> TRUE, null |-> FALSE, value |-> k]

(* Mutant of TryGet: the hold count is incremented without the guard.      *)
TryGetUnguarded(id, n, r) ==
    \/ /\ hold[n] = 0
       /\ r = Got
       /\ owner' = [owner EXCEPT ![n] = id]
       /\ hold' = [hold EXCEPT ![n] = 1]
    \/ /\ hold[n] # 0 /\ owner[n] # id
       /\ r = Busy
       /\ UNCHANGED registryVars
    \/ /\ hold[n] # 0 /\ owner[n] = id
       /\ r = Got
       /\ hold' = [hold EXCEPT ![n] = @ + 1]
       /\ owner' = owner

(* try_get_named_lock: append an entry (growing the array may fail), find  *)
(* it owned by somebody else, or count one more hold of the same owner.    *)
TryGet(id, n, r) ==
    \/ /\ hold[n] = 0
       /\ r = Got
       /\ owner' = [owner EXCEPT ![n] = id]
       /\ hold' = [hold EXCEPT ![n] = 1]
    \/ /\ hold[n] = 0
       /\ r = NoMem
       /\ UNCHANGED registryVars
    \/ /\ hold[n] # 0 /\ owner[n] # id
       /\ r = Busy
       /\ UNCHANGED registryVars
    \/ /\ hold[n] = MaxHold /\ owner[n] = id
       /\ r = NoMem
       /\ UNCHANGED registryVars
    \/ /\ hold[n] \in 1 .. MaxHold - 1 /\ owner[n] = id
       /\ r = Got
       /\ hold' = [hold EXCEPT ![n] = @ + 1]
       /\ owner' = owner

(* mylite_named_lock_release: the last release removes the entry.          *)
Release(id, n, r) ==
    \/ /\ hold[n] = 0
       /\ r = Absent
       /\ UNCHANGED registryVars
    \/ /\ hold[n] # 0 /\ owner[n] # id
       /\ r = Busy
       /\ UNCHANGED registryVars
    \/ /\ hold[n] # 0 /\ owner[n] = id
       /\ r = Got
       /\ hold' = [hold EXCEPT ![n] = @ - 1]
       /\ owner' = [owner EXCEPT ![n] = IF hold[n] = 1 THEN NoOwner ELSE @]

OwnedBy(id) == {n \in Name : hold[n] # 0 /\ owner[n] = id}

(* The body shared by RELEASE_ALL_LOCKS() and by the close of a connection. *)
RemoveOwned(id) ==
    /\ owner' = [n \in Name |-> IF n \in OwnedBy(id) THEN NoOwner ELSE owner[n]]
    /\ hold' = [n \in Name |-> IF n \in OwnedBy(id) THEN 0 ELSE hold[n]]

(* The number RELEASE_ALL_LOCKS() returns: all instances, saturating.      *)
HoldTotal(id) ==
    LET total == MapThenSumSet(LAMBDA n : hold[n], OwnedBy(id))
    IN  IF total > MaxHold THEN MaxHold ELSE total

ReleaseAll(id, r) == r = Counted(HoldTotal(id)) /\ RemoveOwned(id)

IsFree(n, r) ==
    /\ r = Counted(IF hold[n] = 0 THEN 1 ELSE 0)
    /\ UNCHANGED registryVars

IsUsed(n, r) ==
    /\ r = IF hold[n] = 0 THEN Absent ELSE Counted(owner[n])
    /\ UNCHANGED registryVars

(* One call: op names the SQL function, id the caller.                     *)
Call(op, id, n, r) ==
    \/ op = "GET_LOCK" /\ TryGet(id, n, r)
    \/ op = "RELEASE_LOCK" /\ Release(id, n, r)
    \/ op = "RELEASE_ALL_LOCKS" /\ ReleaseAll(id, r)
    \/ op = "IS_FREE_LOCK" /\ IsFree(n, r)
    \/ op = "IS_USED_LOCK" /\ IsUsed(n, r)
=============================================================================
