----------------------------- MODULE ProcessList ----------------------------
(***************************************************************************)
(* The registry of open handles that SHOW PROCESSLIST walks                *)
(* (mylite_connection.c): a linked list behind one process-wide mutex, and *)
(* in every handle a snapshot of its session behind a mutex of its own.    *)
(* Each handle is used by one thread, which opens it, runs statements on   *)
(* it, lists the sessions of all, and closes it.  A handle is a piece of   *)
(* memory that can be opened again once it was freed.                      *)
(***************************************************************************)
EXTENDS Integers, Sequences, FiniteSets

CONSTANTS
    Handle,
    Lister,     \* handles on which SHOW PROCESSLIST runs
    MaxOpens,   \* bound on opens, of all handles together
    MaxOps      \* bound on the statements of one open

ASSUME ListerAssumption == Lister \subseteq Handle
ASSUME BoundsAssumption == MaxOpens \in Nat /\ MaxOps \in Nat

(* NULL in a pointer, and no owner of a mutex.                             *)
Null == "null"

ASSUME HandleAssumption == IsFiniteSet(Handle) /\ Null \notin Handle

VARIABLES
    head,       \* processlist_registry_head
    next,       \* processlist_next of each handle
    registry,   \* who holds the registry mutex across steps
    snap,       \* handles whose thread is inside its snapshot mutex
    session,    \* the fields of the session that are published, as a number
    shot,       \* processlist_snapshot: fields copied first, fields copied last
    pc,
    count,      \* local variables of the walk
    cur,
    rows,
    always,     \* ghost: handles registered during the whole of a walk
    ever,       \* ghost: handles registered at some time during it
    opens, ops

walk == <<count, cur, rows>>
ghosts == <<always, ever>>
bounds == <<opens, ops>>
vars == <<head, next, registry, snap, session, shot, pc, walk, ghosts, bounds>>

Init ==
    /\ head = Null /\ next = [h \in Handle |-> Null]
    /\ registry = Null /\ snap = {}
    /\ session = [h \in Handle |-> 0]
    /\ shot = [h \in Handle |-> [first |-> 0, last |-> 0]]
    /\ pc = [h \in Handle |-> "freed"]
    /\ count = [h \in Handle |-> 0]
    /\ cur = [h \in Handle |-> Null]
    /\ rows = [h \in Handle |-> <<>>]
    /\ always = [h \in Handle |-> {}] /\ ever = [h \in Handle |-> {}]
    /\ opens = 0 /\ ops = [h \in Handle |-> 0]

Goto(h, l) == pc' = [pc EXCEPT ![h] = l]

(* The list, as a walk from the head finds it.                             *)
At[i \in 0..Cardinality(Handle)] ==
    IF i = 0 THEN head ELSE IF At[i - 1] = Null THEN Null ELSE next[At[i - 1]]
Positions == {i \in 0..(Cardinality(Handle) - 1) : At[i] # Null}
Registered == {At[i] : i \in Positions}

(* Handles that a walk may meet, by what their thread is doing.            *)
Listed == {h \in Handle : pc[h] \notin {"freed", "allocated", "unlisted"}}
Collecting(h) == pc[h] \in {"counting", "counted", "walking"}

----------------------------------------------------------------------------
(* allocate_database_handle: the snapshot is filled before anybody sees    *)
(* the handle.  Without memory for the mutex it is destroyed unregistered. *)
Allocate(h) ==
    /\ pc[h] = "freed" /\ opens < MaxOpens
    /\ opens' = opens + 1
    /\ ops' = [ops EXCEPT ![h] = 0]
    /\ session' = [session EXCEPT ![h] = 0]
    /\ shot' = [shot EXCEPT ![h] = [first |-> 0, last |-> 0]]
    /\ next' = [next EXCEPT ![h] = Null]
    /\ \/ Goto(h, "allocated")
       \/ Goto(h, "closing")
    /\ UNCHANGED <<head, registry, snap, walk, ghosts>>

(* register_processlist_session: pushed at the head.                       *)
Register(h) ==
    /\ pc[h] = "allocated" /\ registry = Null
    /\ next' = [next EXCEPT ![h] = head]
    /\ head' = h
    /\ ever' = [w \in Handle |-> IF Collecting(w) THEN ever[w] \cup {h} ELSE ever[w]]
    /\ Goto(h, "open")
    /\ UNCHANGED <<registry, snap, session, shot, walk, always, bounds>>

(* A statement changes the session ...                                     *)
Execute(h) ==
    /\ pc[h] = "open" /\ ops[h] < MaxOps
    /\ ops' = [ops EXCEPT ![h] = @ + 1]
    /\ session' = [session EXCEPT ![h] = @ + 1]
    /\ Goto(h, "executed")
    /\ UNCHANGED <<head, next, registry, snap, shot, walk, ghosts, opens>>

(* ... and publishes it at its end, field by field, in the snapshot mutex  *)
(* alone (mylite_connection_publish_processlist_session).                  *)
BeginPublish(h) ==
    /\ pc[h] \in {"executed", "listed"}
    /\ snap' = snap \cup {h}
    /\ shot' = [shot EXCEPT ![h].first = session[h]]
    /\ count' = [count EXCEPT ![h] = 0] /\ rows' = [rows EXCEPT ![h] = <<>>]
    /\ always' = [always EXCEPT ![h] = {}] /\ ever' = [ever EXCEPT ![h] = {}]
    /\ Goto(h, "publishing")
    /\ UNCHANGED <<head, next, registry, session, cur, bounds>>

EndPublish(h) ==
    /\ pc[h] = "publishing"
    /\ snap' = snap \ {h}
    /\ shot' = [shot EXCEPT ![h].last = session[h]]
    /\ Goto(h, "open")
    /\ UNCHANGED <<head, next, registry, session, walk, ghosts, bounds>>

----------------------------------------------------------------------------
(* mylite_connection_collect_processlist_sessions.                         *)
BeginCollect(h) ==
    /\ h \in Lister /\ pc[h] = "open" /\ ops[h] < MaxOps
    /\ ops' = [ops EXCEPT ![h] = @ + 1]
    /\ always' = [always EXCEPT ![h] = Registered]
    /\ ever' = [ever EXCEPT ![h] = Registered]
    /\ Goto(h, "counting")
    /\ UNCHANGED <<head, next, registry, snap, session, shot, walk, opens>>

CountSessions(h) ==
    /\ pc[h] = "counting" /\ registry = Null
    /\ count' = [count EXCEPT ![h] = Cardinality(Positions)]
    /\ Goto(h, "counted")
    /\ UNCHANGED <<head, next, registry, snap, session, shot, cur, rows, ghosts, bounds>>

(* calloc, outside the mutex: handles come and go until the second walk.   *)
FailToAllocate(h) ==
    /\ pc[h] = "counted"
    /\ Goto(h, "executed")
    /\ UNCHANGED <<head, next, registry, snap, session, shot, walk, ghosts, bounds>>

BeginWalk(h) ==
    /\ pc[h] = "counted" /\ registry = Null
    /\ registry' = h
    /\ cur' = [cur EXCEPT ![h] = head]
    /\ rows' = [rows EXCEPT ![h] = <<>>]
    /\ Goto(h, "walking")
    /\ UNCHANGED <<head, next, snap, session, shot, count, ghosts, bounds>>

(* Mutant of CopySession: the snapshot is read without its mutex.          *)
CopySessionUnlocked(h) ==
    /\ pc[h] = "walking" /\ cur[h] # Null /\ Len(rows[h]) < count[h]
    /\ rows' = [rows EXCEPT ![h] = Append(@, [handle |-> cur[h], shot |-> shot[cur[h]]])]
    /\ cur' = [cur EXCEPT ![h] = next[cur[h]]]
    /\ UNCHANGED <<head, next, registry, snap, session, shot, pc, count, ghosts, bounds>>

(* Waits for the snapshot mutex of the handle while holding the registry.  *)
CopySession(h) ==
    /\ pc[h] = "walking" /\ cur[h] # Null /\ Len(rows[h]) < count[h]
    /\ cur[h] \notin snap
    /\ rows' = [rows EXCEPT ![h] = Append(@, [handle |-> cur[h], shot |-> shot[cur[h]]])]
    /\ cur' = [cur EXCEPT ![h] = next[cur[h]]]
    /\ UNCHANGED <<head, next, registry, snap, session, shot, pc, count, ghosts, bounds>>

(* Mutant of RetryWalk: what does not fit is dropped.                      *)
RetryWalkTruncates(h) ==
    /\ pc[h] = "walking" /\ cur[h] # Null /\ Len(rows[h]) = count[h]
    /\ registry' = Null
    /\ cur' = [cur EXCEPT ![h] = Null]
    /\ Goto(h, "listed")
    /\ UNCHANGED <<head, next, snap, session, shot, count, rows, ghosts, bounds>>

(* Mutant of RetryWalk: the registry mutex is not left.                    *)
RetryWalkLocked(h) ==
    /\ pc[h] = "walking" /\ cur[h] # Null /\ Len(rows[h]) = count[h]
    /\ cur' = [cur EXCEPT ![h] = Null]
    /\ rows' = [rows EXCEPT ![h] = <<>>]
    /\ Goto(h, "counting")
    /\ UNCHANGED <<head, next, registry, snap, session, shot, count, ghosts, bounds>>

(* More handles than were counted: start over.                             *)
RetryWalk(h) ==
    /\ pc[h] = "walking" /\ cur[h] # Null /\ Len(rows[h]) = count[h]
    /\ registry' = Null
    /\ cur' = [cur EXCEPT ![h] = Null]
    /\ count' = [count EXCEPT ![h] = 0] /\ rows' = [rows EXCEPT ![h] = <<>>]
    /\ Goto(h, "counting")
    /\ UNCHANGED <<head, next, snap, session, shot, ghosts, bounds>>

EndWalk(h) ==
    /\ pc[h] = "walking" /\ cur[h] = Null
    /\ registry' = Null
    /\ Goto(h, "listed")
    /\ UNCHANGED <<head, next, snap, session, shot, walk, ghosts, bounds>>

----------------------------------------------------------------------------
(* destroy_database_handle: the handle leaves the list before its mutex    *)
(* and its memory go.                                                      *)
Close(h) ==
    /\ pc[h] = "open"
    /\ Goto(h, "closing")
    /\ UNCHANGED <<head, next, registry, snap, session, shot, walk, ghosts, bounds>>

(* Mutant of Unregister: only the head is looked at.                       *)
UnregisterHead(h) ==
    /\ pc[h] = "closing" /\ registry = Null
    /\ head' = IF head = h THEN next[h] ELSE head
    /\ next' = [next EXCEPT ![h] = Null]
    /\ always' = [w \in Handle |-> always[w] \ {h}]
    /\ Goto(h, "unlisted")
    /\ UNCHANGED <<registry, snap, session, shot, walk, ever, bounds>>

(* Mutant of Unregister: the registry mutex is not entered.                *)
UnregisterUnlocked(h) ==
    /\ pc[h] = "closing"
    /\ head' = IF head = h THEN next[h] ELSE head
    /\ next' = [x \in Handle |-> IF x # h /\ next[x] = h THEN next[h]
                                 ELSE IF x = h /\ h \in Registered THEN Null ELSE next[x]]
    /\ always' = [w \in Handle |-> always[w] \ {h}]
    /\ Goto(h, "unlisted")
    /\ UNCHANGED <<registry, snap, session, shot, walk, ever, bounds>>

(* unregister_processlist_session: unlinked if the list has it.            *)
Unregister(h) ==
    /\ pc[h] = "closing" /\ registry = Null
    /\ head' = IF head = h THEN next[h] ELSE head
    /\ next' = [x \in Handle |-> IF x \in Registered /\ next[x] = h THEN next[h]
                                 ELSE IF x = h /\ h \in Registered THEN Null ELSE next[x]]
    /\ always' = [w \in Handle |-> always[w] \ {h}]
    /\ Goto(h, "unlisted")
    /\ UNCHANGED <<registry, snap, session, shot, walk, ever, bounds>>

Free(h) ==
    /\ pc[h] = "unlisted"
    /\ Goto(h, "freed")
    /\ UNCHANGED <<head, next, registry, snap, session, shot, walk, ghosts, bounds>>

(* What a thread goes on with once it has begun.                           *)
Continue(h) ==
    \/ Register(h) \/ BeginPublish(h) \/ EndPublish(h)
    \/ CountSessions(h) \/ FailToAllocate(h) \/ BeginWalk(h) \/ CopySession(h)
    \/ RetryWalk(h) \/ EndWalk(h)
    \/ Unregister(h) \/ Free(h)

Next ==
    \E h \in Handle :
        Continue(h) \/ Allocate(h) \/ Execute(h) \/ BeginCollect(h) \/ Close(h)

Spec == Init /\ [][Next]_vars /\ \A h \in Handle : WF_vars(Continue(h))

----------------------------------------------------------------------------
(* The list behind processlist_registry_head holds the open handles, each  *)
(* once, whatever the order of opens and closes was; a handle whose mutex  *)
(* could not be allocated is never in it.                                  *)
RegistryIsOpenHandles ==
    /\ Cardinality(Registered) = Cardinality(Positions)
    /\ At[Cardinality(Handle)] = Null
    /\ {h \in Listed : pc[h] # "closing"} \subseteq Registered
    /\ Registered \subseteq Listed

(* "Registry-before-snapshot keeps the handle alive": the handle that a    *)
(* walk is about to lock and copy has not been destroyed.                  *)
WalkMeetsLiveHandles ==
    \A h \in Handle : pc[h] = "walking" /\ cur[h] # Null => cur[h] \in Listed

(* A listed session is as some statement of it left it: the fields copied  *)
(* first and those copied last belong together.                            *)
RowsWhole ==
    \A h \in Handle : \A i \in 1..Len(rows[h]) :
        rows[h][i].shot.first = rows[h][i].shot.last

(* SHOW PROCESSLIST lists every session that was there all the time, no    *)
(* session twice, none that was not there at any time, and never more than *)
(* there is memory for, although handles come and go between its walks.    *)
ListComplete ==
    \A h \in Handle :
        LET listed == {rows[h][i].handle : i \in 1..Len(rows[h])}
        IN  /\ Len(rows[h]) <= count[h]
            /\ pc[h] = "listed" =>
                 /\ always[h] \subseteq listed /\ listed \subseteq ever[h]
                 /\ Cardinality(listed) = Len(rows[h])

(* Neither opening, listing, publishing nor closing waits for ever: the    *)
(* two kinds of mutex are taken in one order, and a walk that has to start *)
(* over does so no more often than handles are opened.                     *)
ThreadsReturn == \A h \in Handle : []<>(pc[h] \in {"open", "freed"})
=============================================================================
