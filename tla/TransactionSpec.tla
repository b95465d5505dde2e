--------------------------- MODULE TransactionSpec --------------------------
(***************************************************************************)
(* What a session promises its caller: MySQL transactions over whole       *)
(* statements, with named savepoints; or a handle that lost its            *)
(* transaction, of which the file saw nothing.                             *)
(***************************************************************************)
EXTENDS Integers, Sequences

CONSTANTS Stmt, Name

VARIABLES
    durable,    \* rows in the file
    open,       \* a user transaction is active
    work,       \* rows the session sees
    marks,      \* savepoints: name and what was seen when it was set
    handle      \* "usable"; "poisoned": it refuses everything; "lost": it goes
                \* on without the transaction it believes in

specVars == <<durable, open, work, marks, handle>>

SpecInit ==
    /\ durable = {} /\ work = {} /\ open = FALSE
    /\ marks = <<>> /\ handle = "usable"

Usable == handle = "usable"

Outside == durable' = work /\ work' = work /\ marks' = <<>> /\ UNCHANGED handle

(* START TRANSACTION, or the first statement with autocommit off: what is  *)
(* open is committed first.                                                *)
Start == Usable /\ open' = TRUE /\ Outside

(* COMMIT, explicit or implied.                                            *)
Commit == Usable /\ open /\ open' = FALSE /\ Outside

(* ROLLBACK, possibly AND CHAIN.                                           *)
Rollback ==
    /\ Usable /\ open /\ open' \in BOOLEAN
    /\ work' = durable /\ marks' = <<>>
    /\ UNCHANGED <<durable, handle>>

(* A statement puts its two rows in together, at once in the file when no  *)
(* transaction is open.                                                    *)
Statement ==
    /\ Usable
    /\ \E s \in Stmt : work' = work \cup {<<s, 1>>, <<s, 2>>}
    /\ durable' = IF open THEN durable ELSE work'
    /\ UNCHANGED <<open, marks, handle>>

At(n) == {i \in 1 .. Len(marks) : marks[i].name = n}

(* SAVEPOINT n replaces an earlier n and leaves the others; with           *)
(* autocommit off it starts a transaction.                                 *)
Mark(n) ==
    /\ Usable /\ open' = TRUE
    /\ \/ At(n) = {} /\ marks' = Append(marks, [name |-> n, saved |-> work])
       \/ \E i \in At(n) :
             marks' = Append(SubSeq(marks, 1, i - 1) \o SubSeq(marks, i + 1, Len(marks)),
                             [name |-> n, saved |-> work])
    /\ UNCHANGED <<durable, work, handle>>

(* ROLLBACK TO n restores what n saw and forgets the later savepoints.     *)
BackTo(n) ==
    /\ Usable /\ open
    /\ \E i \in At(n) : work' = marks[i].saved /\ marks' = SubSeq(marks, 1, i)
    /\ UNCHANGED <<durable, open, handle>>

(* RELEASE n forgets n and the later savepoints.                           *)
Forget(n) ==
    /\ Usable /\ open
    /\ \E i \in At(n) : marks' = SubSeq(marks, 1, i - 1)
    /\ UNCHANGED <<durable, open, work, handle>>

(* The transaction is gone, nothing of it is kept, and the handle either  *)
(* refuses everything until it is closed or does not know.                 *)
Lose ==
    /\ \/ Usable /\ handle' \in {"poisoned", "lost"}
       \/ handle = "lost" /\ handle' = "poisoned"
    /\ open' = FALSE /\ work' = durable /\ marks' = <<>>
    /\ UNCHANGED durable

(* What a handle that does not know goes on doing is only promised to      *)
(* happen in whole statements.                                             *)
Stray ==
    /\ handle = "lost" /\ UNCHANGED <<open, marks, handle>>
    /\ \E S \in SUBSET Stmt : durable' = durable \cup (S \X {1, 2})
    /\ work' = durable'

(* Close, or death of the process, and a new handle.                       *)
Reopen ==
    /\ handle' = "usable"
    /\ open' = FALSE /\ work' = durable /\ marks' = <<>>
    /\ UNCHANGED durable

SpecNext ==
    \/ Start \/ Commit \/ Rollback \/ Statement \/ Lose \/ Stray \/ Reopen
    \/ \E n \in Name : Mark(n) \/ BackTo(n) \/ Forget(n)

Spec == SpecInit /\ [][SpecNext]_specVars
=============================================================================
