--------------------------- MODULE NamedLockTable ---------------------------
(***************************************************************************)
(* The named-lock registry as mylite_named_locks.c stores it: the array    *)
(* named_lock_entries, searched from the front, appended at the end and    *)
(* emptied by moving the last entry into the hole.  One step is one call   *)
(* under the registry mutex.  It is shown to implement NamedLockMap,       *)
(* return values included.                                                 *)
(***************************************************************************)
EXTENDS Integers, Sequences, SequencesExt

CONSTANTS
    Name,       \* lock names
    Id,         \* connection ids of the callers
    MaxHold     \* UINT64_MAX

VARIABLES
    entries,    \* named_lock_entries[0 .. named_lock_entry_count - 1]
    last        \* the last call and what it returned

vars == <<entries, last>>

Ok(k) == [ok |-> TRUE, null |-> FALSE, value |-> k]
NullResult == [ok |-> TRUE, null |-> TRUE, value |-> 0]
NoMem == [ok |-> FALSE, null |-> FALSE, value |-> 0]

Init ==
    /\ entries = <<>>
    /\ last = [op |-> "none", id |-> CHOOSE i \in Id : TRUE,
               name |-> CHOOSE n \in Name : TRUE, ret |-> Ok(0)]

(* find_named_lock_entry: the first index with the name, 0 when there is none. *)
Find(n) == SelectInSeq(entries, LAMBDA e : e.name = n)

(* Mutant of RemoveEntry: the hole is closed by dropping the last entry.      *)
RemoveEntryDropsLast(es, i) == Front(es)

(* remove_named_lock_entry: the last entry takes the place of the removed. *)
RemoveEntry(es, i) ==
    IF i = Len(es) THEN Front(es) ELSE Front([es EXCEPT ![i] = es[Len(es)]])

SaturatingAdd(a, b) == IF a > MaxHold - b THEN MaxHold ELSE a + b

(* The loop of mylite_named_lock_release_all: after a removal the same     *)
(* index holds an entry that has not been looked at yet.                   *)
RECURSIVE Sweep(_, _, _, _)
Sweep(id, es, i, count) ==
    IF i > Len(es) THEN [rest |-> es, count |-> count]
    ELSE IF es[i].owner = id
         THEN Sweep(id, RemoveEntry(es, i), i, SaturatingAdd(count, es[i].hold))
         ELSE Sweep(id, es, i + 1, count)

Returns(op, id, n, r) == last' = [op |-> op, id |-> id, name |-> n, ret |-> r]

----------------------------------------------------------------------------
GetLock(id, n) == LET i == Find(n) IN
    \/ /\ i = 0
       /\ entries' = Append(entries, [name |-> n, owner |-> id, hold |-> 1])
       /\ Returns("GET_LOCK", id, n, Ok(1))
    \/ /\ i = 0     \* ensure_named_lock_entry_capacity fails
       /\ entries' = entries
       /\ Returns("GET_LOCK", id, n, NoMem)
    \/ /\ i # 0 /\ entries[i].owner # id
       /\ entries' = entries
       /\ Returns("GET_LOCK", id, n, Ok(0))
    \/ /\ i # 0 /\ entries[i].owner = id /\ entries[i].hold = MaxHold
       /\ entries' = entries
       /\ Returns("GET_LOCK", id, n, NoMem)
    \/ /\ i # 0 /\ entries[i].owner = id /\ entries[i].hold < MaxHold
       /\ entries' = [entries EXCEPT ![i].hold = @ + 1]
       /\ Returns("GET_LOCK", id, n, Ok(1))

ReleaseLock(id, n) == LET i == Find(n) IN
    \/ /\ i = 0
       /\ entries' = entries
       /\ Returns("RELEASE_LOCK", id, n, NullResult)
    \/ /\ i # 0 /\ entries[i].owner # id
       /\ entries' = entries
       /\ Returns("RELEASE_LOCK", id, n, Ok(0))
    \/ /\ i # 0 /\ entries[i].owner = id
       /\ entries' = IF entries[i].hold = 1 THEN RemoveEntry(entries, i)
                                           ELSE [entries EXCEPT ![i].hold = @ - 1]
       /\ Returns("RELEASE_LOCK", id, n, Ok(1))

(* mylite_named_lock_release_all; closing a connection runs the same sweep *)
(* and drops the count.                                                    *)
ReleaseAllLocks(id, n) == LET swept == Sweep(id, entries, 1, 0) IN
    /\ entries' = swept.rest
    /\ Returns("RELEASE_ALL_LOCKS", id, n, Ok(swept.count))

IsFreeLock(id, n) ==
    /\ entries' = entries
    /\ Returns("IS_FREE_LOCK", id, n, Ok(IF Find(n) = 0 THEN 1 ELSE 0))

IsUsedLock(id, n) == LET i == Find(n) IN
    /\ entries' = entries
    /\ Returns("IS_USED_LOCK", id, n, IF i = 0 THEN NullResult ELSE Ok(entries[i].owner))

Next == \E id \in Id, n \in Name :
    \/ GetLock(id, n)
    \/ ReleaseLock(id, n)
    \/ ReleaseAllLocks(id, n)
    \/ IsFreeLock(id, n)
    \/ IsUsedLock(id, n)

Spec == Init /\ [][Next]_vars

----------------------------------------------------------------------------
(* Properties.                                                             *)

(* The map the array stands for.                                           *)
EntryOf(n) == CHOOSE e \in Range(entries) : e.name = n
Listed == {e.name : e \in Range(entries)}
Map == INSTANCE NamedLockMap WITH
    owner <- [n \in Name |-> IF n \in Listed THEN EntryOf(n).owner ELSE -1],
    hold <- [n \in Name |-> IF n \in Listed THEN EntryOf(n).hold ELSE 0]

(* Every call of the array does to the map what the map's own operation    *)
(* does and returns the same value: swap-removal during the sweep of       *)
(* mylite_named_lock_release_all misses no entry and counts none twice.    *)
TableImplementsMap ==
    /\ Map!InitRegistry
    /\ [][Map!Call(last'.op, last'.id, last'.name, last'.ret)]_vars
=============================================================================
