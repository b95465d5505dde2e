------------------------------ MODULE ByteFile ------------------------------
(***************************************************************************)
(* What SQLite's pager expects of its database file: an array of bytes     *)
(* with a length, as if there were neither a preamble nor a gap.  A failed *)
(* write may have stored a prefix of its data.                             *)
(***************************************************************************)
EXTENDS Integers, FiniteSetsExt

CONSTANT MaxLen     \* logical bytes that can be addressed

VARIABLES
    bytes,      \* bytes[i]: byte i, 0 from length on
    length,     \* the length xFileSize reports
    reply       \* the last call: its arguments, rc and what it handed back

vars == <<bytes, length, reply>>

Places == 0 .. MaxLen - 1

Init == bytes = [i \in Places |-> 0] /\ length = 0

(* done of r.amount bytes were stored; the call is OK if that is all.      *)
Write(r) == \E done \in 0 .. r.amount :
    /\ r.rc = "OK" => done = r.amount
    /\ bytes' = [i \in Places |->
          IF i \in r.offset .. r.offset + done - 1 THEN r.data ELSE bytes[i]]
    /\ length' = IF done = 0 THEN length ELSE Max({length, r.offset + done})

(* xTruncate only ever shortens the database file.                         *)
Truncate(r) ==
    IF r.rc = "OK"
    THEN length' = r.offset /\ bytes' = [i \in Places |-> IF i < r.offset THEN bytes[i] ELSE 0]
    ELSE UNCHANGED <<bytes, length>>

(* A read within the file returns its bytes; a short read returns those    *)
(* that exist.                                                             *)
Read(r) ==
    /\ r.rc = "OK" => r.offset + r.amount <= length
    /\ r.rc = "SHORT_READ" => r.offset + r.amount > length
    /\ r.rc \in {"OK", "SHORT_READ"} => \A j \in 0 .. r.amount - 1 :
          r.offset + j < length => r.data[j] = bytes[r.offset + j]
    /\ UNCHANGED <<bytes, length>>

FileSize(r) == r.rc = "OK" /\ r.data = length /\ UNCHANGED <<bytes, length>>

(* A size control hands back the size it was given.                        *)
SizeControl(r) == r.data = r.offset /\ UNCHANGED <<bytes, length>>

Call(r) ==
    \/ r.call = "write" /\ Write(r)
    \/ r.call = "truncate" /\ Truncate(r)
    \/ r.call = "read" /\ Read(r)
    \/ r.call = "size" /\ FileSize(r)
    \/ r.call = "control" /\ SizeControl(r)

Spec == Init /\ [][Call(reply')]_vars
=============================================================================
