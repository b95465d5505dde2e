--------------------------- MODULE OffsetMapping ----------------------------
(***************************************************************************)
(* The address arithmetic of mylite_offset_vfs.c.  A .mylite file starts   *)
(* with a preamble; SQLite's logical bytes follow it.  From format 3 on    *)
(* they also skip one preamble-sized gap at the physical lock byte, which  *)
(* SQLite locks but must never store data in.                              *)
(***************************************************************************)
EXTENDS Integers

CONSTANTS
    Preamble,   \* MYLITE_FILE_SQLITE_PAYLOAD_OFFSET (4096), also the gap's size
    LockByte,   \* MYLITE_FILE_PHYSICAL_LOCK_BYTE (2^30)
    MaxInt64    \* INT64_MAX

ASSUME OffsetMappingAssumption ==
    /\ Preamble \in Nat \ {0} /\ LockByte \in Nat /\ MaxInt64 \in Nat
    /\ Preamble < LockByte /\ LockByte + 2 * Preamble < MaxInt64

Version == 1 .. 3               \* MYLITE_FILE_LEGACY_FORMAT_VERSION .. current

GapStart == LockByte - Preamble \* MYLITE_FILE_LOCK_GAP_LOGICAL_OFFSET
LegacyMax == GapStart           \* MYLITE_FILE_LEGACY_MAX_LOGICAL_SIZE

Fails == -1                     \* the helper returns false

UsesGap(version) == version >= 3

(* An offset shifted by s, unless that overflows.                          *)
Shifted(logical, s) ==
    IF logical < 0 \/ logical > MaxInt64 - s THEN Fails ELSE logical + s

(* Mutant of ToPhysical: the byte at the split stays below the gap.        *)
ToPhysicalOffByOne(version, logical) ==
    Shifted(logical,
            IF UsesGap(version) /\ logical > GapStart THEN 2 * Preamble ELSE Preamble)

(* logical_offset_to_physical: where a logical byte is stored.             *)
ToPhysical(version, logical) ==
    Shifted(logical,
            IF UsesGap(version) /\ logical >= GapStart THEN 2 * Preamble ELSE Preamble)

(* logical_size_to_physical: a size is one past the last byte, so a file   *)
(* that ends at the split ends before the gap.                             *)
SizeToPhysical(version, logical) ==
    Shifted(logical,
            IF UsesGap(version) /\ logical > GapStart THEN 2 * Preamble ELSE Preamble)

(* Mutant of SizeFromPhysical: the second shift is forgotten.              *)
SizeFromPhysicalOneShift(version, physical) ==
    IF physical < Preamble THEN 0 ELSE physical - Preamble

(* logical_size_from_physical: a size inside the gap is malformed.         *)
SizeFromPhysical(version, physical) ==
    IF physical < 0 THEN Fails
    ELSE IF physical <= Preamble THEN 0
    ELSE IF ~UsesGap(version) \/ physical <= LockByte THEN physical - Preamble
    ELSE IF physical <= LockByte + Preamble THEN Fails
    ELSE physical - 2 * Preamble

(* logical_range_end *)
RangeEnd(offset, amount) ==
    IF offset < 0 \/ amount < 0 \/ offset > MaxInt64 - amount THEN Fails
    ELSE offset + amount

(* The inner reads or writes one request is divided into.                  *)
Pieces(version, offset, amount) ==
    IF ~UsesGap(version) \/ offset >= GapStart \/ offset + amount <= GapStart
    THEN <<[at |-> ToPhysical(version, offset), amount |-> amount]>>
    ELSE LET first == GapStart - offset
         IN  <<[at |-> ToPhysical(version, offset), amount |-> first],
               [at |-> ToPhysical(version, GapStart), amount |-> amount - first]>>

(* The physical place of the j-th byte (from 0) of a divided request.      *)
PieceByte(pieces, j) ==
    IF j < pieces[1].amount THEN pieces[1].at + j
    ELSE pieces[2].at + (j - pieces[1].amount)
=============================================================================
