----------------------------- MODULE OffsetFile -----------------------------
(***************************************************************************)
(* The shifted main-database file of mylite_offset_vfs.c: SQLite's page    *)
(* reads, page writes, truncations and size calls are carried out on the   *)
(* physical file through OffsetMapping.  Any inner write may fail after a  *)
(* prefix of its bytes, also between the two halves of a divided request.  *)
(***************************************************************************)
EXTENDS OffsetMapping, Sequences

CONSTANTS
    PageSizes,      \* page sizes a database can have
    Byte,           \* non-zero page contents
    MaxLogical      \* bound on the logical offsets and sizes SQLite asks for

ASSUME OffsetFileAssumption ==
    PageSizes \subseteq Nat \ {0} /\ Byte \subseteq Nat \ {0} /\ MaxLogical \in Nat

VARIABLES
    version,        \* format_version of the preamble
    page,           \* the page size of the database
    disk,           \* disk[p]: physical byte p, 0 past the end
    size,           \* physical size
    reply           \* the last call: its arguments, rc and what it handed back

vfsVars == <<version, page, disk, size, reply>>

Physical == 0 .. MaxInt64 - 1   \* places the file system can store
PreambleByte == -2              \* contents of the bytes below Preamble
Garbage == -1                   \* what the caller's buffer held before

Reply(call, offset, amount, rc, data) ==
    [call |-> call, offset |-> offset, amount |-> amount, rc |-> rc, data |-> data]

(* A file as initialize_new_main_database_file leaves it, or an old one.   *)
VfsInit ==
    /\ version \in {2, 3}
    /\ page \in PageSizes
    /\ disk = [p \in Physical |-> IF p < Preamble THEN PreambleByte ELSE 0]
    /\ size = Preamble
    /\ reply = Reply("none", 0, 0, "OK", 0)

(* SQLite reads and writes whole pages and cuts the file at a page.        *)
PageOffsets == {i \in 0 .. MaxLogical : i % page = 0}

(* It reads the first page, and any page of which the file has a byte.     *)
PagesRead == {i \in PageOffsets : i = 0 \/ i < SizeFromPhysical(version, size)}

Legacy(end) == ~UsesGap(version) /\ end > LegacyMax

----------------------------------------------------------------------------
(* The wrapped VFS (external).  A read past the end of the file fills the  *)
(* missing part of its own request with zeros.                             *)
InnerReadOk(piece) == piece.at + piece.amount <= size

(* The first done bytes of a write reach the disk.                         *)
InnerWrite(pieces, done, value) ==
    LET stored == {PieceByte(pieces, j) : j \in 0 .. done - 1}
        end == IF done = 0 THEN 0 ELSE PieceByte(pieces, done - 1) + 1
    IN  /\ disk' = [p \in Physical |-> IF p \in stored THEN value ELSE disk[p]]
        /\ size' = IF end > size THEN end ELSE size

----------------------------------------------------------------------------
(* write_shifted: the early returns, then one or two inner writes.         *)
WriteShifted(offset, amount, value) ==
    LET end == RangeEnd(offset, amount)
        refused == IF end = Fails THEN "IOERR_WRITE"
                   ELSE IF Legacy(end) THEN "FULL"
                   ELSE IF ToPhysical(version, offset) = Fails THEN "IOERR_WRITE"
                   ELSE "OK"
        pieces == Pieces(version, offset, amount)
    IN  /\ \/ /\ refused # "OK"
              /\ reply' = Reply("write", offset, amount, refused, value)
              /\ UNCHANGED <<disk, size>>
           \/ /\ refused = "OK"
              /\ \E done \in 0 .. amount :
                    /\ \A j \in 0 .. done - 1 : PieceByte(pieces, j) \in Physical
                    /\ InnerWrite(pieces, done, value)
                    /\ reply' = Reply("write", offset, amount,
                                      IF done = amount THEN "OK" ELSE "IOERR_WRITE", value)
        /\ UNCHANGED <<version, page>>

(* read_shifted: a divided read stops after its first half unless that     *)
(* half was read completely, and leaves the rest of the buffer alone.      *)
ReadShifted(offset, amount) ==
    LET end == RangeEnd(offset, amount)
        pieces == Pieces(version, offset, amount)
        halfOnly == Len(pieces) = 2 /\ ~InnerReadOk(pieces[1])
        complete == \A i \in DOMAIN pieces : InnerReadOk(pieces[i])
        data == [j \in 0 .. amount - 1 |->
                   IF halfOnly /\ j >= pieces[1].amount THEN Garbage
                   ELSE IF PieceByte(pieces, j) < size THEN disk[PieceByte(pieces, j)] ELSE 0]
    IN  /\ reply' =
             IF end = Fails \/ (~Legacy(end) /\ ToPhysical(version, offset) = Fails)
             THEN Reply("read", offset, amount, "IOERR_READ", 0)
             ELSE IF Legacy(end)
             THEN Reply("read", offset, amount, "SHORT_READ", [j \in 0 .. amount - 1 |-> 0])
             ELSE Reply("read", offset, amount, IF complete THEN "OK" ELSE "SHORT_READ", data)
        /\ UNCHANGED <<version, page, disk, size>>

(* offset_truncate; SQLite only truncates to shorten the file.             *)
OffsetTruncate(n) ==
    LET physical == SizeToPhysical(version, n)
    IN  /\ n <= SizeFromPhysical(version, size)
        /\ \/ /\ ~Legacy(n) /\ physical # Fails
              /\ reply' = Reply("truncate", n, 0, "OK", 0)
              /\ disk' = [p \in Physical |-> IF p < physical THEN disk[p] ELSE 0]
              /\ size' = physical
           \/ /\ reply' = Reply("truncate", n, 0, IF Legacy(n) THEN "FULL" ELSE "IOERR_TRUNCATE", 0)
              /\ UNCHANGED <<disk, size>>
        /\ UNCHANGED <<version, page>>

(* offset_file_size *)
OffsetFileSize ==
    LET n == SizeFromPhysical(version, size)
    IN  /\ reply' = Reply("size", 0, 0, IF n = Fails THEN "IOERR_FSTAT" ELSE "OK", n)
        /\ UNCHANGED <<version, page, disk, size>>

(* translate_size_file_control around an inner control that leaves the     *)
(* size it is given alone: the argument comes back through both mappings.  *)
TranslateSizeFileControl(n) ==
    LET physical == SizeToPhysical(version, n)
        logical == SizeFromPhysical(version, physical)
    IN  /\ reply' =
             IF Legacy(n) THEN Reply("control", n, 0, "FULL", n)
             ELSE IF physical = Fails THEN Reply("control", n, 0, "IOERR", n)
             ELSE IF logical = Fails THEN Reply("control", n, 0, "IOERR", n)
             ELSE Reply("control", n, 0, "OK", IF Legacy(logical) THEN LegacyMax ELSE logical)
        /\ UNCHANGED <<version, page, disk, size>>

VfsNext ==
    \/ \E i \in PageOffsets, v \in Byte : WriteShifted(i, page, v)
    \/ \E i \in PagesRead : ReadShifted(i, page)
    \/ \E n \in PageOffsets : OffsetTruncate(n)
    \/ OffsetFileSize
    \/ \E n \in PageOffsets : TranslateSizeFileControl(n)

VfsSpec == VfsInit /\ [][VfsNext]_vfsVars

----------------------------------------------------------------------------
(* Properties.                                                             *)

(* The preamble keeps its bytes, the lock page of a format-3 file is never *)
(* written, a legacy file never reaches the lock byte, and the physical    *)
(* size never ends inside the gap, where logical_size_from_physical would  *)
(* reject the file.                                                        *)
ReservedBytesUntouched ==
    /\ \A p \in 0 .. Preamble - 1 : disk[p] = PreambleByte
    /\ \A p \in LockByte .. LockByte + Preamble - 1 : disk[p] = 0
    /\ size \notin LockByte + 1 .. LockByte + Preamble
    /\ ~UsesGap(version) => size <= LockByte

(* The logical file: what a byte-for-byte read through the mapping sees.   *)
LogicalLength == SizeFromPhysical(version, size)
MaxLen == MaxInt64 - Preamble
LogicalBytes ==
    [i \in 0 .. MaxLen - 1 |->
        LET p == ToPhysical(version, i)
        IN  IF p \in Physical /\ i < LogicalLength THEN disk[p] ELSE 0]

File == INSTANCE ByteFile WITH bytes <- LogicalBytes, length <- LogicalLength

(* Through the offset VFS, SQLite sees an ordinary file: no two logical    *)
(* bytes share a place, a page that straddles the gap reads back as it was *)
(* written, truncation and size reporting agree on both sides of the gap,  *)
(* and a failed divided write has stored a prefix and nothing else.        *)
ImplementsByteFile == File!Spec

(* "If xRead() returns SQLITE_IOERR_SHORT_READ it must also fill in the    *)
(* unread portions of the buffer with zeros."                              *)
ShortReadsZeroFill ==
    reply.call = "read" /\ reply.rc = "SHORT_READ" =>
        \A j \in 0 .. reply.amount - 1 :
            reply.offset + j >= LogicalLength => reply.data[j] = 0
=============================================================================
