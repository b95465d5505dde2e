------------------------- MODULE DatabaseFileProofs -------------------------
(***************************************************************************)
(* The database file: its bytes, as the offset VFS maps them, and its life *)
(* from creation to publication.                                           *)
(*                                                                         *)
(* First the offset mapping for every preamble size, lock byte and integer *)
(* width: it is injective, avoids the reserved regions and its size        *)
(* conversions agree with it; no call on the shifted file ever touches the *)
(* preamble or the lock page; and reads, writes, truncations and sizes are *)
(* those of a plain file of bytes that the preamble and gap are hidden in. *)
(* Then the opening protocol: it is safe for any number of openers and     *)
(* failures.                                                               *)
(***************************************************************************)
EXTENDS OffsetFile, FileLifecycle, TLAPS

(* logical_offset_to_physical never yields an offset in the preamble, past *)
(* INT64_MAX or, in format 3, on the lock page.                            *)
THEOREM MappingAvoidsReserved ==
    ASSUME NEW v \in Version, NEW l \in Int, ToPhysical(v, l) # Fails
    PROVE  /\ ToPhysical(v, l) \in Preamble .. MaxInt64
           /\ UsesGap(v) => ToPhysical(v, l) \notin LockByte .. LockByte + Preamble - 1
           /\ ~UsesGap(v) /\ l < LegacyMax => ToPhysical(v, l) < LockByte
  BY OffsetMappingAssumption
  DEF ToPhysical, Shifted, UsesGap, Version, Fails, GapStart, LegacyMax

(* Two logical bytes never share a physical place, and order is kept.      *)
THEOREM MappingIncreasing ==
    ASSUME NEW v \in Version, NEW k \in Int, NEW l \in Int, k < l,
           ToPhysical(v, k) # Fails, ToPhysical(v, l) # Fails
    PROVE  ToPhysical(v, k) < ToPhysical(v, l)
  BY OffsetMappingAssumption DEF ToPhysical, Shifted, UsesGap, Version, Fails, GapStart

(* A logical size survives the trip to a physical size and back, which is  *)
(* what translate_size_file_control and xTruncate followed by xFileSize do. *)
THEOREM SizeRoundTrip ==
    ASSUME NEW v \in Version, NEW n \in Int, SizeToPhysical(v, n) # Fails
    PROVE  SizeFromPhysical(v, SizeToPhysical(v, n)) = n
  BY OffsetMappingAssumption
  DEF SizeToPhysical, SizeFromPhysical, Shifted, UsesGap, Version, Fails, GapStart

(* A file of n bytes ends just after its last byte.                        *)
THEOREM SizeEndsAtLastByte ==
    ASSUME NEW v \in Version, NEW n \in Int, n > 0, SizeToPhysical(v, n) # Fails
    PROVE  SizeToPhysical(v, n) = ToPhysical(v, n - 1) + 1
  BY OffsetMappingAssumption
  DEF SizeToPhysical, ToPhysical, Shifted, UsesGap, Version, Fails, GapStart

(* Dividing a request at the split puts every byte where the mapping says. *)
THEOREM PiecesFollowMapping ==
    ASSUME NEW v \in Version, NEW offset \in Int, NEW amount \in Int,
           RangeEnd(offset, amount) # Fails, NEW j \in 0 .. amount - 1,
           ToPhysical(v, offset + j) # Fails
    PROVE  PieceByte(Pieces(v, offset, amount), j) = ToPhysical(v, offset + j)
<1> USE OffsetMappingAssumption
<1>1. offset >= 0 /\ ToPhysical(v, offset) # Fails
  BY DEF RangeEnd, ToPhysical, Shifted, UsesGap, Version, Fails, GapStart
<1>2. CASE ~UsesGap(v) \/ offset >= GapStart \/ offset + amount <= GapStart
  <2>1. PieceByte(Pieces(v, offset, amount), j) = ToPhysical(v, offset) + j
    BY <1>2 DEF PieceByte, Pieces
  <2> QED
    BY <1>1, <1>2, <2>1 DEF ToPhysical, Shifted, UsesGap, Version, Fails, GapStart
<1>3. CASE ~(~UsesGap(v) \/ offset >= GapStart \/ offset + amount <= GapStart)
  <2>1. PieceByte(Pieces(v, offset, amount), j) =
          IF j < GapStart - offset THEN ToPhysical(v, offset) + j
          ELSE ToPhysical(v, GapStart) + (j - (GapStart - offset))
    BY <1>3, Zenon DEF PieceByte, Pieces
  <2> QED
    BY <1>1, <1>3, <2>1 DEF ToPhysical, Shifted, UsesGap, Version, Fails, GapStart
<1> QED
  BY <1>2, <1>3, Zenon

----------------------------------------------------------------------------
(* The states of the shifted file.                                         *)
FileTypes ==
    /\ version \in {2, 3} /\ page \in PageSizes
    /\ size \in Nat /\ disk \in [Physical -> Int]

VfsInv == FileTypes /\ ReservedBytesUntouched

(* Every byte a divided write can store lies outside the reserved regions. *)
LEMMA StoredOutsideReserved ==
    ASSUME NEW v \in Version, NEW offset \in Int, NEW amount \in Int,
           RangeEnd(offset, amount) # Fails, ToPhysical(v, offset) # Fails,
           UsesGap(v) \/ RangeEnd(offset, amount) <= LegacyMax,
           NEW j \in 0 .. amount - 1, PieceByte(Pieces(v, offset, amount), j) \in Physical
    PROVE  LET p == PieceByte(Pieces(v, offset, amount), j)
           IN  /\ p \in Int /\ p >= Preamble
               /\ p \notin LockByte .. LockByte + Preamble - 1
               /\ ~UsesGap(v) => p < LockByte
<1> USE OffsetMappingAssumption
<1>1. offset >= 0 /\ amount >= 0 /\ RangeEnd(offset, amount) = offset + amount
  BY DEF RangeEnd, Fails
<1>2. CASE ~UsesGap(v) \/ offset >= GapStart \/ offset + amount <= GapStart
  <2>1. PieceByte(Pieces(v, offset, amount), j) = ToPhysical(v, offset) + j
    BY <1>2 DEF PieceByte, Pieces
  <2>2. CASE UsesGap(v)
    BY <1>1, <1>2, <2>1, <2>2 DEF ToPhysical, Shifted, Fails, GapStart, Version
  <2>3. CASE ~UsesGap(v)
    BY <1>1, <2>1, <2>3 DEF ToPhysical, Shifted, Fails, GapStart, LegacyMax, Version
  <2> QED
    BY <2>2, <2>3, Zenon
<1>3. CASE ~(~UsesGap(v) \/ offset >= GapStart \/ offset + amount <= GapStart)
  <2>1. PieceByte(Pieces(v, offset, amount), j) =
          IF j < GapStart - offset THEN ToPhysical(v, offset) + j
          ELSE ToPhysical(v, GapStart) + (j - (GapStart - offset))
    BY <1>3, Zenon DEF PieceByte, Pieces
  <2> QED
    BY <1>1, <1>3, <2>1 DEF ToPhysical, Shifted, Fails, GapStart, Version
<1> QED
  BY <1>2, <1>3, Zenon

(* A page write, complete or cut short, keeps the invariant.               *)
LEMMA WriteKeeps ==
    ASSUME VfsInv, NEW offset \in Int, NEW amount \in Nat, NEW value \in Byte,
           WriteShifted(offset, amount, value)
    PROVE  VfsInv'
<1> DEFINE pieces == Pieces(version, offset, amount)
<1> USE OffsetMappingAssumption, OffsetFileAssumption
<1>1. UNCHANGED <<version, page>>
  BY Zenon DEF WriteShifted
<1>2. CASE UNCHANGED <<disk, size>>
  BY <1>1, <1>2, Zenon DEF VfsInv, FileTypes, ReservedBytesUntouched
<1>3. ASSUME NEW done \in 0 .. amount,
             \A j \in 0 .. done - 1 : PieceByte(pieces, j) \in Physical,
             InnerWrite(pieces, done, value),
             RangeEnd(offset, amount) # Fails, ~Legacy(RangeEnd(offset, amount)),
             ToPhysical(version, offset) # Fails
      PROVE  VfsInv'
  <2>1. ASSUME NEW j \in 0 .. done - 1
        PROVE  /\ PieceByte(pieces, j) \in Int /\ PieceByte(pieces, j) >= Preamble
               /\ PieceByte(pieces, j) \notin LockByte .. LockByte + Preamble - 1
               /\ ~UsesGap(version) => PieceByte(pieces, j) < LockByte
    <3>1. version \in Version /\ j \in 0 .. amount - 1
      BY DEF VfsInv, FileTypes, Version
    <3>2. RangeEnd(offset, amount) \in Int
      BY DEF RangeEnd, Fails
    <3>3. UsesGap(version) \/ RangeEnd(offset, amount) <= LegacyMax
      BY <1>3, <3>2 DEF Legacy, LegacyMax, GapStart
    <3> HIDE DEF pieces
    <3> QED
      BY <1>3, <3>1, <3>3, StoredOutsideReserved DEF pieces
  <2>2. disk' = [p \in Physical |->
                   IF p \in {PieceByte(pieces, j) : j \in 0 .. done - 1} THEN value ELSE disk[p]]
    BY <1>3, Zenon DEF InnerWrite
  <2>3. \/ size' = size
        \/ done > 0 /\ size' = PieceByte(pieces, done - 1) + 1
    BY <1>3 DEF InnerWrite, VfsInv, FileTypes
  <2> HIDE DEF pieces
  <2>4. \A p \in 0 .. Preamble - 1 \cup (LockByte .. LockByte + Preamble - 1) : disk'[p] = disk[p]
    <3> SUFFICES ASSUME NEW p \in 0 .. Preamble - 1 \cup (LockByte .. LockByte + Preamble - 1)
                 PROVE  disk'[p] = disk[p]
      BY Zenon
    <3>1. p \in Physical
      BY DEF Physical
    <3>2. p \notin {PieceByte(pieces, j) : j \in 0 .. done - 1}
      BY <2>1
    <3> QED  BY <2>2, <3>1, <3>2, Zenon
  <2>5. /\ size' \in Nat /\ size' \notin LockByte + 1 .. LockByte + Preamble
        /\ ~UsesGap(version) => size' <= LockByte
    <3>1. CASE size' = size
      BY <3>1, Zenon DEF VfsInv, FileTypes, ReservedBytesUntouched
    <3>2. CASE done > 0 /\ size' = PieceByte(pieces, done - 1) + 1
      <4>1. done - 1 \in 0 .. done - 1
        BY <3>2
      <4> QED
        BY <2>1, <3>2, <4>1
    <3> QED
      BY <2>3, <3>1, <3>2, Zenon
  <2>6. disk' \in [Physical -> Int]
    BY <2>2 DEF VfsInv, FileTypes
  <2>7. \A p \in 0 .. Preamble - 1 : disk'[p] = PreambleByte
    BY <2>4, Zenon DEF VfsInv, ReservedBytesUntouched
  <2>8. \A p \in LockByte .. LockByte + Preamble - 1 : disk'[p] = 0
    BY <2>4, Zenon DEF VfsInv, ReservedBytesUntouched
  <2> QED
    BY <1>1, <2>5, <2>6, <2>7, <2>8, Zenon DEF VfsInv, FileTypes, ReservedBytesUntouched
<1> HIDE DEF pieces
<1>4. \/ UNCHANGED <<disk, size>>
      \/ /\ RangeEnd(offset, amount) # Fails /\ ~Legacy(RangeEnd(offset, amount))
         /\ ToPhysical(version, offset) # Fails
         /\ \E done \in 0 .. amount :
               /\ \A j \in 0 .. done - 1 : PieceByte(pieces, j) \in Physical
               /\ InnerWrite(pieces, done, value)
  BY Zenon DEF WriteShifted, pieces
<1> QED
  BY <1>2, <1>3, <1>4, Zenon

(* A truncation ends the file at the preamble, below the lock byte or past *)
(* the gap, and writes nothing.                                            *)
LEMMA TruncateKeeps ==
    ASSUME VfsInv, NEW n \in Int, OffsetTruncate(n)
    PROVE  VfsInv'
<1> USE OffsetMappingAssumption
<1>1. UNCHANGED <<version, page>>
  BY Zenon DEF OffsetTruncate
<1>2. CASE UNCHANGED <<disk, size>>
  BY <1>1, <1>2, Zenon DEF VfsInv, FileTypes, ReservedBytesUntouched
<1>3. CASE /\ ~Legacy(n) /\ SizeToPhysical(version, n) # Fails
           /\ disk' = [p \in Physical |-> IF p < SizeToPhysical(version, n) THEN disk[p] ELSE 0]
           /\ size' = SizeToPhysical(version, n)
  <2>1. /\ size' \in Nat /\ size' >= Preamble
        /\ size' \notin LockByte + 1 .. LockByte + Preamble
        /\ ~UsesGap(version) => size' <= LockByte
    BY <1>3 DEF SizeToPhysical, Shifted, Fails, Legacy, LegacyMax, GapStart
  <2>2. \A p \in 0 .. Preamble - 1 : disk'[p] = disk[p]
    BY <1>3, <2>1 DEF Physical
  <2>3. \A p \in LockByte .. LockByte + Preamble - 1 : disk'[p] \in {0, disk[p]}
    BY <1>3 DEF Physical
  <2>4. disk' \in [Physical -> Int]
    BY <1>3 DEF VfsInv, FileTypes
  <2> QED
    BY <1>1, <2>1, <2>2, <2>3, <2>4, Zenon DEF VfsInv, FileTypes, ReservedBytesUntouched
<1> QED
  BY <1>2, <1>3, Zenon DEF OffsetTruncate

(* A new file. *)
LEMMA InitKeeps == VfsInit => VfsInv
<1> SUFFICES ASSUME VfsInit PROVE VfsInv
  BY Zenon
<1> USE OffsetMappingAssumption DEF VfsInit, Physical, PreambleByte
<1>1. FileTypes
  BY DEF FileTypes
<1>2. \A p \in 0 .. Preamble - 1 : disk[p] = PreambleByte
  OBVIOUS
<1>3. \A p \in LockByte .. LockByte + Preamble - 1 : disk[p] = 0
  OBVIOUS
<1>4. size = Preamble
  BY Zenon
<1>5. size \notin LockByte + 1 .. LockByte + Preamble /\ size <= LockByte
  BY <1>4
<1> HIDE DEF VfsInit, Physical, PreambleByte
<1> QED
  BY <1>1, <1>2, <1>3, <1>5, Zenon DEF VfsInv, ReservedBytesUntouched

(* Only page writes and truncations change the file. *)
LEMMA StepKeeps == VfsInv /\ [VfsNext]_vfsVars => VfsInv'
<1> SUFFICES ASSUME VfsInv, [VfsNext]_vfsVars PROVE VfsInv'
  BY Zenon
<1>1. ASSUME NEW i \in PageOffsets, NEW v \in Byte, WriteShifted(i, page, v) PROVE VfsInv'
  <2>1. i \in Int /\ page \in Nat
    BY OffsetFileAssumption DEF PageOffsets, VfsInv, FileTypes
  <2> QED
    BY <1>1, <2>1, WriteKeeps, Zenon
<1>2. ASSUME NEW n \in PageOffsets, OffsetTruncate(n) PROVE VfsInv'
  BY <1>2, TruncateKeeps DEF PageOffsets
<1>3. CASE UNCHANGED <<version, page, disk, size>>
  BY <1>3, Zenon DEF VfsInv, FileTypes, ReservedBytesUntouched
<1>4. \/ \E i \in PageOffsets, v \in Byte : WriteShifted(i, page, v)
      \/ \E n \in PageOffsets : OffsetTruncate(n)
      \/ UNCHANGED <<version, page, disk, size>>
  BY Zenon DEF VfsNext, vfsVars, ReadShifted, OffsetFileSize, TranslateSizeFileControl
<1> QED
  BY <1>1, <1>2, <1>3, <1>4, Zenon

(* Whatever pages SQLite writes and wherever it cuts the file, also when   *)
(* inner writes fail half-way, the preamble and the lock page stay as they *)
(* are and the file never ends inside the gap.                             *)
THEOREM ReservedSafe == VfsSpec => []ReservedBytesUntouched
<1>1. VfsInv => ReservedBytesUntouched
  BY Zenon DEF VfsInv
<1> QED
  BY <1>1, InitKeeps, StepKeeps, PTL DEF VfsSpec

----------------------------------------------------------------------------
(* The shifted file implements ByteFile.  Beyond VfsInv the refinement needs *)
(* that nothing is stored past the end of the file, and that a legacy file *)
(* ends below a page boundary that is itself below its limit, since a read *)
(* of the page across the limit returns zeros only.                        *)
Multiple(m) == \E q \in Nat : m = q * page

LegacyEnd ==
    ~UsesGap(version) => \E m \in Nat : Multiple(m) /\ LogicalLength <= m /\ m <= LegacyMax

RInv ==
    /\ VfsInv
    /\ size \in Preamble .. MaxInt64
    /\ \A p \in Physical : p >= size => disk[p] = 0
    /\ LegacyEnd

(* Page offsets are multiples of the page size.                            *)
LEMMA PageMultiple == ASSUME FileTypes, NEW i \in PageOffsets PROVE i \in Nat /\ Multiple(i)
<1>1. i \in Nat /\ page \in Nat \ {0} /\ i % page = 0
  BY OffsetFileAssumption DEF PageOffsets, FileTypes
<1> DEFINE q == i \div page
<1>2. i = page * q + (i % page) /\ q \in Nat
  BY <1>1
<1>3. i = q * page
  BY <1>1, <1>2
<1> HIDE DEF q
<1> QED  BY <1>1, <1>2, <1>3, Zenon DEF Multiple

(* There is a whole page between two of them.                              *)
LEMMA MultiplesApart ==
    ASSUME FileTypes, NEW i \in Nat, NEW m \in Nat, Multiple(i), Multiple(m), i < m
    PROVE  i + page <= m
<1>1. page \in Nat \ {0}
  BY OffsetFileAssumption, Zenon DEF FileTypes
<1>2. PICK q \in Nat : i = q * page
  BY Zenon DEF Multiple
<1>3. PICK r \in Nat : m = r * page
  BY Zenon DEF Multiple
<1>4. q < r
  BY <1>1, <1>2, <1>3
<1>5. PICK d \in Nat : r = q + 1 + d
  <2>1. r - q - 1 \in Nat /\ r = q + 1 + (r - q - 1)
    BY <1>4
  <2> QED  BY <2>1, Zenon
<1>6. r * page = q * page + page + d * page
  BY <1>1, <1>5
<1>7. d * page >= 0
  BY <1>1
<1> QED  BY <1>1, <1>2, <1>3, <1>6, <1>7

LEMMA NextMultiple ==
    ASSUME FileTypes, NEW i \in Nat, Multiple(i)
    PROVE  i + page \in Nat /\ Multiple(i + page)
<1>1. page \in Nat \ {0}
  BY OffsetFileAssumption, Zenon DEF FileTypes
<1>2. PICK q \in Nat : i = q * page
  BY Zenon DEF Multiple
<1>3. i + page = (q + 1) * page /\ q + 1 \in Nat
  BY <1>1, <1>2
<1> QED  BY <1>1, <1>3 DEF Multiple

(* A byte is inside the logical file when its place is inside the physical *)
(* one, and then the file system can store it.                             *)
LEMMA InsideAgrees ==
    ASSUME RInv, NEW i \in Nat
    PROVE  /\ LogicalLength \in 0 .. MaxLen
           /\ i < LogicalLength => ToPhysical(version, i) \in Physical
           /\ ToPhysical(version, i) \in Physical =>
                 (i < LogicalLength <=> ToPhysical(version, i) < size)
<1>1. /\ version \in {2, 3} /\ size \in Preamble .. MaxInt64
      /\ size \notin LockByte + 1 .. LockByte + Preamble
  BY Zenon DEF RInv, VfsInv, FileTypes, ReservedBytesUntouched
<1> USE OffsetMappingAssumption, <1>1
        DEF ToPhysical, Shifted, UsesGap, Fails, GapStart, Physical
<1>2. CASE version = 2
  BY <1>2 DEF LogicalLength, SizeFromPhysical, MaxLen
<1>3. CASE version = 3
  BY <1>3 DEF LogicalLength, SizeFromPhysical, MaxLen
<1> QED  BY <1>2, <1>3, Zenon

(* So the logical bytes are the stored ones, zeros past the end included.  *)
SeenThrough ==
    LogicalBytes = [i \in 0 .. MaxLen - 1 |->
        IF ToPhysical(version, i) \in Physical THEN disk[ToPhysical(version, i)] ELSE 0]

LEMMA BytesSeen == RInv => SeenThrough
<1> SUFFICES ASSUME RInv PROVE SeenThrough
  BY Zenon
<1>1. ASSUME NEW i \in 0 .. MaxLen - 1
      PROVE  (IF ToPhysical(version, i) \in Physical /\ i < LogicalLength
              THEN disk[ToPhysical(version, i)] ELSE 0) =
             IF ToPhysical(version, i) \in Physical THEN disk[ToPhysical(version, i)] ELSE 0
  <2>1. /\ LogicalLength \in Int /\ size \in Int /\ i \in Nat
        /\ ToPhysical(version, i) \in Physical =>
              (i < LogicalLength <=> ToPhysical(version, i) < size)
    BY InsideAgrees, OffsetMappingAssumption DEF RInv, MaxLen
  <2>2. ToPhysical(version, i) \in Physical /\ ToPhysical(version, i) >= size =>
           disk[ToPhysical(version, i)] = 0
    BY Zenon DEF RInv
  <2>3. ToPhysical(version, i) \in Physical => ToPhysical(version, i) \in Int
    BY DEF Physical
  <2> QED  BY <2>1, <2>2, <2>3
<1> QED  BY <1>1, Zenon DEF SeenThrough, LogicalBytes

(* The places of a write that the file system can carry out: byte j of the *)
(* request goes where the mapping puts logical byte offset + j.            *)
LEMMA StoredPlaces ==
    ASSUME FileTypes, NEW offset \in Nat, NEW amount \in Nat,
           RangeEnd(offset, amount) # Fails, ToPhysical(version, offset) # Fails,
           NEW j \in 0 .. amount - 1, PieceByte(Pieces(version, offset, amount), j) \in Physical
    PROVE  /\ PieceByte(Pieces(version, offset, amount), j) = ToPhysical(version, offset + j)
           /\ ToPhysical(version, offset + j) # Fails
<1>1. version \in Version /\ offset + j \in Int /\ offset \in Int /\ amount \in Int
  BY DEF FileTypes, Version
<1>2. ToPhysical(version, offset + j) # Fails
  <2> USE OffsetMappingAssumption, <1>1
  <2>1. CASE ~UsesGap(version) \/ offset >= GapStart \/ offset + amount <= GapStart
    <3>1. PieceByte(Pieces(version, offset, amount), j) = ToPhysical(version, offset) + j
      BY <2>1 DEF PieceByte, Pieces
    <3> QED  BY <2>1, <3>1 DEF ToPhysical, Shifted, UsesGap, Version, Fails, GapStart, Physical
  <2>2. CASE ~(~UsesGap(version) \/ offset >= GapStart \/ offset + amount <= GapStart)
    <3>1. PieceByte(Pieces(version, offset, amount), j) =
            IF j < GapStart - offset THEN ToPhysical(version, offset) + j
            ELSE ToPhysical(version, GapStart) + (j - (GapStart - offset))
      BY <2>2, Zenon DEF PieceByte, Pieces
    <3> QED  BY <2>2, <3>1 DEF ToPhysical, Shifted, UsesGap, Version, Fails, GapStart, Physical
  <2> QED  BY <2>1, <2>2, Zenon
<1> QED  BY <1>1, <1>2, PiecesFollowMapping, Zenon

(* What a carried-out write has done to the physical file: its first done  *)
(* bytes are at their mapped places, in order.                             *)
Stores(offset, done, value) ==
    /\ \A k \in offset .. offset + done - 1 : ToPhysical(version, k) \in Physical
    /\ \A p \in Physical : disk'[p] =
          IF \E k \in offset .. offset + done - 1 : p = ToPhysical(version, k)
          THEN value ELSE disk[p]
    /\ size' = IF done > 0 /\ ToPhysical(version, offset + done - 1) + 1 > size
               THEN ToPhysical(version, offset + done - 1) + 1 ELSE size

LEMMA WriteStores ==
    ASSUME RInv, NEW offset \in Nat, NEW amount \in Nat, NEW value \in Byte,
           WriteShifted(offset, amount, value)
    PROVE  \/ UNCHANGED <<disk, size>> /\ \E rc : rc # "OK" /\ reply' = Reply("write", offset, amount, rc, value)
           \/ \E done \in 0 .. amount :
                 /\ Stores(offset, done, value)
                 /\ RangeEnd(offset, amount) = offset + amount /\ ~Legacy(offset + amount)
                 /\ reply' = Reply("write", offset, amount,
                                   IF done = amount THEN "OK" ELSE "IOERR_WRITE", value)
<1> DEFINE pieces == Pieces(version, offset, amount)
<1>1. ASSUME NEW done \in 0 .. amount,
             \A j \in 0 .. done - 1 : PieceByte(pieces, j) \in Physical,
             InnerWrite(pieces, done, value),
             RangeEnd(offset, amount) # Fails, ToPhysical(version, offset) # Fails
      PROVE  Stores(offset, done, value)
  <2>1. ASSUME NEW j \in 0 .. done - 1
        PROVE  PieceByte(pieces, j) = ToPhysical(version, offset + j)
    <3>1. j \in 0 .. amount - 1 /\ PieceByte(pieces, j) \in Physical /\ FileTypes
      BY <1>1 DEF RInv, VfsInv
    <3> QED  BY <1>1, <3>1, StoredPlaces, Zenon
  <2>2. /\ disk' = [p \in Physical |->
              IF p \in {PieceByte(pieces, j) : j \in 0 .. done - 1} THEN value ELSE disk[p]]
        /\ done = 0 => size' = IF 0 > size THEN 0 ELSE size
        /\ done # 0 => size' = IF PieceByte(pieces, done - 1) + 1 > size
                               THEN PieceByte(pieces, done - 1) + 1 ELSE size
    BY <1>1, Zenon DEF InnerWrite
  <2> HIDE DEF pieces
  <2>3. \A k \in offset .. offset + done - 1 :
           /\ k - offset \in 0 .. done - 1
           /\ PieceByte(pieces, k - offset) = ToPhysical(version, k)
    BY <2>1
  <2>4. \A k \in offset .. offset + done - 1 : ToPhysical(version, k) \in Physical
    BY <1>1, <2>3, Zenon
  <2>5. \A p : p \in {PieceByte(pieces, j) : j \in 0 .. done - 1} <=>
               \E k \in offset .. offset + done - 1 : p = ToPhysical(version, k)
    <3>1. \A j \in 0 .. done - 1 :
             /\ offset + j \in offset .. offset + done - 1
             /\ PieceByte(pieces, j) = ToPhysical(version, offset + j)
      BY <2>1
    <3> QED  BY <2>3, <3>1, Zenon
  <2>6. \A p \in Physical : disk'[p] =
           IF \E k \in offset .. offset + done - 1 : p = ToPhysical(version, k)
           THEN value ELSE disk[p]
    BY <2>2, <2>5, Zenon
  <2>7. size' = IF done > 0 /\ ToPhysical(version, offset + done - 1) + 1 > size
                THEN ToPhysical(version, offset + done - 1) + 1 ELSE size
    <3>1. CASE done = 0
      BY <2>2, <3>1 DEF RInv, VfsInv, FileTypes
    <3>2. CASE done # 0
      <4>1. PieceByte(pieces, done - 1) = ToPhysical(version, offset + (done - 1))
        BY <2>1, <3>2
      <4>2. offset + (done - 1) = offset + done - 1
        BY Zenon
      <4> QED  BY <2>2, <3>2, <4>1, <4>2
    <3> QED  BY <3>1, <3>2, Zenon
  <2> QED  BY <2>4, <2>6, <2>7, Zenon DEF Stores
<1>2. CASE UNCHANGED <<disk, size>> /\ \E rc : rc # "OK" /\ reply' = Reply("write", offset, amount, rc, value)
  BY <1>2, Zenon
<1>3. CASE /\ RangeEnd(offset, amount) # Fails /\ ~Legacy(RangeEnd(offset, amount))
           /\ ToPhysical(version, offset) # Fails
           /\ \E done \in 0 .. amount :
                 /\ \A j \in 0 .. done - 1 : PieceByte(pieces, j) \in Physical
                 /\ InnerWrite(pieces, done, value)
                 /\ reply' = Reply("write", offset, amount,
                                   IF done = amount THEN "OK" ELSE "IOERR_WRITE", value)
  <2>1. RangeEnd(offset, amount) = offset + amount
    BY <1>3, Zenon DEF RangeEnd
  <2> HIDE DEF pieces
  <2> QED  BY <1>1, <1>3, <2>1, Zenon
<1> HIDE DEF pieces
<1> QED  BY <1>2, <1>3, Zenon DEF WriteShifted, pieces

(* RInv holds of a new file. *)
LEMMA InitRInv == VfsInit => RInv
<1> SUFFICES ASSUME VfsInit PROVE RInv
  BY Zenon
<1>1. VfsInv
  BY InitKeeps, Zenon
<1>2. size \in Preamble .. MaxInt64
  BY OffsetMappingAssumption DEF VfsInit
<1>3. \A p \in Physical : p >= size => disk[p] = 0
  BY OffsetMappingAssumption DEF VfsInit, Physical
<1>4. LegacyEnd
  <2>1. LogicalLength = 0 /\ LegacyMax \in Nat /\ page \in Nat
    BY OffsetMappingAssumption, OffsetFileAssumption
       DEF VfsInit, LogicalLength, SizeFromPhysical, LegacyMax, GapStart
  <2>2. 0 = 0 * page
    BY <2>1
  <2>3. Multiple(0)
    BY <2>2, Zenon DEF Multiple
  <2> QED  BY <2>1, <2>3 DEF LegacyEnd
<1> QED  BY <1>1, <1>2, <1>3, <1>4, Zenon DEF RInv

(* A write ends the file after its last byte, if that was not inside yet.  *)
LEMMA WriteLength ==
    ASSUME RInv, UNCHANGED version, NEW offset \in Nat, NEW done \in Nat, NEW value,
           Stores(offset, done, value)
    PROVE  /\ size' \in Preamble .. MaxInt64
           /\ LogicalLength' = IF done > 0 /\ offset + done > LogicalLength
                               THEN offset + done ELSE LogicalLength
<1>1. /\ version \in {2, 3} /\ size \in Preamble .. MaxInt64
      /\ size \notin LockByte + 1 .. LockByte + Preamble
  BY Zenon DEF RInv, VfsInv, FileTypes, ReservedBytesUntouched
<1>2. CASE done = 0
  BY <1>1, <1>2 DEF Stores, LogicalLength
<1>3. CASE done > 0
  <2>1. ToPhysical(version, offset + done - 1) \in Physical
    BY <1>3 DEF Stores
  <2>2. size' = IF ToPhysical(version, offset + done - 1) + 1 > size
                THEN ToPhysical(version, offset + done - 1) + 1 ELSE size
    BY <1>3, Zenon DEF Stores
  <2> USE OffsetMappingAssumption, <1>1, <1>3, <2>1, <2>2
          DEF ToPhysical, Shifted, UsesGap, Fails, GapStart, Physical
  <2>3. CASE version = 2
    BY <2>3 DEF LogicalLength, SizeFromPhysical
  <2>4. CASE version = 3
    BY <2>4 DEF LogicalLength, SizeFromPhysical
  <2> QED  BY <2>3, <2>4, Zenon
<1> QED  BY <1>2, <1>3

(* Nothing is stored past the new end, and a legacy file still ends at or  *)
(* before a page boundary.                                                 *)
LEMMA WriteRInv ==
    ASSUME RInv, VfsInv', UNCHANGED <<version, page>>, NEW offset \in Nat, Multiple(offset),
           NEW done \in 0 .. page, NEW value, Stores(offset, done, value),
           ~Legacy(offset + page)
    PROVE  RInv'
<1>1. /\ FileTypes /\ version \in Version /\ size \in Int /\ page \in Nat
      /\ done \in Nat /\ LegacyMax \in Int
  BY OffsetMappingAssumption, OffsetFileAssumption
     DEF RInv, VfsInv, FileTypes, Version, LegacyMax, GapStart
<1>2. /\ size' \in Preamble .. MaxInt64
      /\ LogicalLength' = IF done > 0 /\ offset + done > LogicalLength
                          THEN offset + done ELSE LogicalLength
  BY <1>1, WriteLength, Zenon
<1>3. ASSUME NEW p \in Physical, p >= size' PROVE disk'[p] = 0
  <2>1. size <= size' /\ size' \in Int /\ p \in Int
    BY <1>1, <1>2 DEF Stores, Physical
  <2>2. ASSUME NEW k \in offset .. offset + done - 1, p = ToPhysical(version, k) PROVE FALSE
    <3>1. /\ done > 0 /\ k \in Int /\ offset + done - 1 \in offset .. offset + done - 1
          /\ k = offset + done - 1 \/ k < offset + done - 1
      BY <1>1
    <3>2. /\ ToPhysical(version, offset + done - 1) \in Physical
          /\ ToPhysical(version, k) \in Physical
          /\ size' = IF ToPhysical(version, offset + done - 1) + 1 > size
                     THEN ToPhysical(version, offset + done - 1) + 1 ELSE size
      BY <3>1, Zenon DEF Stores
    <3>3. ToPhysical(version, k) # Fails /\ ToPhysical(version, offset + done - 1) # Fails
      BY <3>2 DEF Physical, Fails
    <3>4. k < offset + done - 1 =>
             ToPhysical(version, k) < ToPhysical(version, offset + done - 1)
      BY <1>1, <3>1, <3>3, MappingIncreasing
    <3> QED  BY <1>1, <1>3, <2>1, <2>2, <3>1, <3>2, <3>4 DEF Physical
  <2>3. disk'[p] = disk[p]
    BY <2>2, Zenon DEF Stores
  <2>4. p >= size
    BY <1>1, <1>3, <2>1
  <2> QED  BY <2>3, <2>4, Zenon DEF RInv
<1>4. LegacyEnd'
  <2> SUFFICES ASSUME ~UsesGap(version)
               PROVE  \E m \in Nat : Multiple(m)' /\ LogicalLength' <= m /\ m <= LegacyMax
    BY Zenon DEF LegacyEnd
  <2>1. PICK m \in Nat : Multiple(m) /\ LogicalLength <= m /\ m <= LegacyMax
    BY Zenon DEF RInv, LegacyEnd
  <2>2. \A x : Multiple(x)' <=> Multiple(x)
    BY Zenon DEF Multiple
  <2>3. CASE LogicalLength' = LogicalLength
    BY <2>1, <2>2, <2>3, Zenon
  <2>4. CASE LogicalLength' = offset + done
    <3>1. offset + page \in Nat /\ Multiple(offset + page)
      BY <1>1, NextMultiple, Zenon
    <3>2. offset + page <= LegacyMax
      BY <1>1 DEF Legacy
    <3>3. LogicalLength' <= offset + page
      BY <1>1, <2>4
    <3> QED  BY <2>2, <3>1, <3>2, <3>3, Zenon
  <2> QED  BY <1>2, <2>3, <2>4, Zenon
<1> QED  BY <1>2, <1>3, <1>4, Zenon DEF RInv

(* What a truncation that succeeds does. *)
LEMMA TruncateCuts ==
    ASSUME RInv, NEW n \in Nat, OffsetTruncate(n)
    PROVE  \/ UNCHANGED <<disk, size>> /\ reply'.call = "truncate" /\ reply'.rc # "OK"
           \/ /\ ~Legacy(n) /\ SizeToPhysical(version, n) # Fails
              /\ disk' = [p \in Physical |-> IF p < SizeToPhysical(version, n) THEN disk[p] ELSE 0]
              /\ size' = SizeToPhysical(version, n) /\ LogicalLength' = n
              /\ reply' = Reply("truncate", n, 0, "OK", 0)
<1>1. UNCHANGED version /\ version \in Version
  BY DEF OffsetTruncate, RInv, VfsInv, FileTypes, Version
<1>2. CASE /\ reply' = Reply("truncate", n, 0, IF Legacy(n) THEN "FULL" ELSE "IOERR_TRUNCATE", 0)
           /\ UNCHANGED <<disk, size>>
  BY <1>2, Zenon DEF Reply
<1>3. CASE /\ ~Legacy(n) /\ SizeToPhysical(version, n) # Fails
           /\ disk' = [p \in Physical |-> IF p < SizeToPhysical(version, n) THEN disk[p] ELSE 0]
           /\ size' = SizeToPhysical(version, n)
           /\ reply' = Reply("truncate", n, 0, "OK", 0)
  <2>1. SizeFromPhysical(version, SizeToPhysical(version, n)) = n
    BY <1>1, <1>3, SizeRoundTrip
  <2> QED  BY <1>1, <1>3, <2>1, Zenon DEF LogicalLength
<1> QED  BY <1>2, <1>3, Zenon DEF OffsetTruncate

LEMMA TruncateRInv ==
    ASSUME RInv, VfsInv', NEW n \in Nat, Multiple(n), OffsetTruncate(n)
    PROVE  RInv'
<1>1. UNCHANGED <<version, page>> /\ LegacyMax \in Int
  BY OffsetMappingAssumption DEF OffsetTruncate, LegacyMax, GapStart
<1>2. \A x : Multiple(x)' <=> Multiple(x)
  BY <1>1, Zenon DEF Multiple
<1>3. CASE UNCHANGED <<disk, size>>
  BY <1>1, <1>2, <1>3, Zenon DEF RInv, LegacyEnd, LogicalLength
<1>4. CASE /\ ~Legacy(n) /\ SizeToPhysical(version, n) # Fails
           /\ disk' = [p \in Physical |-> IF p < SizeToPhysical(version, n) THEN disk[p] ELSE 0]
           /\ size' = SizeToPhysical(version, n) /\ LogicalLength' = n
  <2>1. size' \in Preamble .. MaxInt64
    BY <1>4, OffsetMappingAssumption DEF SizeToPhysical, Shifted, Fails
  <2>2. ASSUME NEW p \in Physical, p >= size' PROVE disk'[p] = 0
    <3>1. ~(p < SizeToPhysical(version, n))
      BY <1>4, <2>1, <2>2 DEF Physical
    <3> QED  BY <1>4, <3>1, Zenon
  <2>3. LegacyEnd'
    BY <1>1, <1>2, <1>4 DEF LegacyEnd, Legacy
  <2> QED  BY <2>1, <2>2, <2>3, Zenon DEF RInv
<1> QED  BY <1>3, <1>4, TruncateCuts, Zenon

(* The logical bytes of a write: its first done bytes and no others.       *)
LEMMA WriteBytes ==
    ASSUME RInv, RInv', UNCHANGED version, NEW offset \in Nat, NEW done \in Nat, NEW value,
           Stores(offset, done, value)
    PROVE  LogicalBytes' = [i \in 0 .. MaxLen - 1 |->
              IF i \in offset .. offset + done - 1 THEN value ELSE LogicalBytes[i]]
<1>1. SeenThrough /\ SeenThrough'
  <2>1. RInv' => SeenThrough'
    BY BytesSeen, PTL
  <2> QED  BY <2>1, BytesSeen, Zenon
<1>2. /\ LogicalBytes = [i \in 0 .. MaxLen - 1 |->
            IF ToPhysical(version, i) \in Physical THEN disk[ToPhysical(version, i)] ELSE 0]
      /\ LogicalBytes' = [i \in 0 .. MaxLen - 1 |->
            IF ToPhysical(version, i) \in Physical THEN disk'[ToPhysical(version, i)] ELSE 0]
  BY <1>1, Zenon DEF SeenThrough, MaxLen, Physical
<1>3. ASSUME NEW i \in 0 .. MaxLen - 1
      PROVE  (IF ToPhysical(version, i) \in Physical THEN disk'[ToPhysical(version, i)] ELSE 0) =
             IF i \in offset .. offset + done - 1 THEN value ELSE LogicalBytes[i]
  <2>1. version \in Version /\ i \in Int
    BY OffsetMappingAssumption DEF RInv, VfsInv, FileTypes, Version, MaxLen
  <2>2. LogicalBytes[i] =
           IF ToPhysical(version, i) \in Physical THEN disk[ToPhysical(version, i)] ELSE 0
    BY <1>2, Zenon
  <2>3. CASE i \in offset .. offset + done - 1
    BY <2>3, Zenon DEF Stores
  <2>4. CASE i \notin offset .. offset + done - 1
    <3>1. ASSUME NEW k \in offset .. offset + done - 1, ToPhysical(version, i) \in Physical,
                 ToPhysical(version, i) = ToPhysical(version, k)
          PROVE  FALSE
      <4>1. k \in Int /\ (i < k \/ k < i)
        BY <2>1, <2>4
      <4>2. /\ ToPhysical(version, i) # Fails /\ ToPhysical(version, k) # Fails
            /\ ToPhysical(version, i) \in Int
        BY <3>1 DEF Physical, Fails
      <4>3. ToPhysical(version, i) < ToPhysical(version, k) \/ ToPhysical(version, k) < ToPhysical(version, i)
        BY <2>1, <4>1, <4>2, MappingIncreasing, Zenon
      <4> QED  BY <3>1, <4>2, <4>3
    <3> QED  BY <2>2, <2>4, <3>1, Zenon DEF Stores
  <2> QED  BY <2>3, <2>4, Zenon
<1> QED  BY <1>2, <1>3, Zenon

(* A write of SQLite's implements a write to the byte file, also when it   *)
(* is refused or cut short between its two halves.                         *)
LEMMA WriteImplements ==
    ASSUME RInv, RInv', NEW offset \in Nat, NEW amount \in Nat, NEW value \in Byte,
           WriteShifted(offset, amount, value)
    PROVE  File!Call(reply')
<1>1. UNCHANGED version
  BY Zenon DEF WriteShifted
<1>2. \A rc : LET r == Reply("write", offset, amount, rc, value)
              IN  /\ r.call = "write" /\ r.offset = offset /\ r.amount = amount
                  /\ r.rc = rc /\ r.data = value
  BY Zenon DEF Reply
<1>3. LogicalLength \in 0 .. MaxLen
  BY InsideAgrees, Zenon
<1>4. ASSUME UNCHANGED <<disk, size>>, NEW rc, rc # "OK",
             reply' = Reply("write", offset, amount, rc, value)
      PROVE  File!Write(reply')
  <2>1. LogicalLength' = LogicalLength /\ LogicalBytes' = LogicalBytes
    BY <1>1, <1>4, Zenon DEF LogicalLength, LogicalBytes
  <2>2. LogicalBytes = [i \in 0 .. MaxLen - 1 |->
           IF i \in offset .. offset + 0 - 1 THEN value ELSE LogicalBytes[i]]
    <3>1. offset .. offset + 0 - 1 = {}
      OBVIOUS
    <3>2. LogicalBytes = [i \in 0 .. MaxLen - 1 |-> LogicalBytes[i]]
      BY Zenon DEF LogicalBytes
    <3> QED  BY <3>1, <3>2, Zenon
  <2>3. 0 \in 0 .. amount
    OBVIOUS
  <2> QED  BY <1>2, <1>4, <2>1, <2>2, <2>3, Zenon DEF File!Write, File!Places
<1>5. ASSUME NEW done \in 0 .. amount, Stores(offset, done, value),
             reply' = Reply("write", offset, amount,
                            IF done = amount THEN "OK" ELSE "IOERR_WRITE", value)
      PROVE  File!Write(reply')
  <2>1. LogicalBytes' = [i \in 0 .. MaxLen - 1 |->
           IF i \in offset .. offset + done - 1 THEN value ELSE LogicalBytes[i]]
    BY <1>1, <1>5, WriteBytes
  <2>2. LogicalLength' = IF done > 0 /\ offset + done > LogicalLength
                         THEN offset + done ELSE LogicalLength
    BY <1>1, <1>5, WriteLength
  <2>3. LogicalLength' = IF done = 0 THEN LogicalLength
                         ELSE File!Max({LogicalLength, offset + done})
    <3> DEFINE S == {LogicalLength, offset + done}
    <3>1. LogicalLength \in Int /\ offset + done \in Int
      BY <1>3, OffsetMappingAssumption DEF MaxLen
    <3>2. \E x \in S : \A y \in S : x >= y
      BY <3>1
    <3>3. File!Max(S) \in S /\ \A y \in S : File!Max(S) >= y
      <4> HIDE DEF S
      <4> QED  BY <3>2, Zenon DEF File!Max
    <3> QED  BY <2>2, <3>1, <3>3
  <2>4. reply'.rc = "OK" => done = amount
    BY <1>2, <1>5, Zenon
  <2>5. reply'.offset = offset /\ reply'.amount = amount /\ reply'.data = value
    BY <1>2, <1>5, Zenon
  <2> QED  BY <2>1, <2>3, <2>4, <2>5, ZenonT(30) DEF File!Write, File!Places
<1>6. reply'.call = "write" /\ File!Write(reply')
  BY <1>2, <1>4, <1>5, WriteStores
<1> QED  BY <1>6, Zenon DEF File!Call

(* The bytes before the new end are where they were.                       *)
LEMMA TruncateImplements ==
    ASSUME RInv, NEW n \in Nat, OffsetTruncate(n)
    PROVE  File!Call(reply')
<1>1. /\ UNCHANGED version /\ version \in Version /\ n <= LogicalLength
      /\ LogicalLength \in 0 .. MaxLen
  BY InsideAgrees DEF OffsetTruncate, RInv, VfsInv, FileTypes, Version, LogicalLength
<1>2. CASE UNCHANGED <<disk, size>> /\ reply'.call = "truncate" /\ reply'.rc # "OK"
  <2>1. LogicalLength' = LogicalLength /\ LogicalBytes' = LogicalBytes
    BY <1>1, <1>2, Zenon DEF LogicalLength, LogicalBytes
  <2> QED  BY <1>2, <2>1, Zenon DEF File!Call, File!Truncate
<1>3. CASE /\ SizeToPhysical(version, n) # Fails
           /\ disk' = [p \in Physical |-> IF p < SizeToPhysical(version, n) THEN disk[p] ELSE 0]
           /\ LogicalLength' = n /\ reply' = Reply("truncate", n, 0, "OK", 0)
  <2>1. reply'.call = "truncate" /\ reply'.rc = "OK" /\ reply'.offset = n
    BY <1>3, Zenon DEF Reply
  <2>2. LogicalBytes' = [i \in 0 .. MaxLen - 1 |->
           IF ToPhysical(version, i) \in Physical /\ i < n THEN disk'[ToPhysical(version, i)] ELSE 0]
    BY <1>1, <1>3, Zenon DEF LogicalBytes, MaxLen, Physical
  <2>3. ASSUME NEW i \in 0 .. MaxLen - 1
        PROVE  (IF ToPhysical(version, i) \in Physical /\ i < n
                THEN disk'[ToPhysical(version, i)] ELSE 0) =
               IF i < n THEN LogicalBytes[i] ELSE 0
    <3> SUFFICES ASSUME i < n
                 PROVE  (IF ToPhysical(version, i) \in Physical
                         THEN disk'[ToPhysical(version, i)] ELSE 0) = LogicalBytes[i]
      BY Zenon
    <3>1. i \in Int /\ i < LogicalLength
      BY <1>1, OffsetMappingAssumption DEF MaxLen
    <3>2. ToPhysical(version, i) \in Physical =>
             ToPhysical(version, i) < SizeToPhysical(version, n)
      BY <1>1, <1>3, <3>1, OffsetMappingAssumption
         DEF ToPhysical, SizeToPhysical, Shifted, UsesGap, Version, Fails, GapStart, Physical
    <3>3. LogicalBytes[i] =
             IF ToPhysical(version, i) \in Physical THEN disk[ToPhysical(version, i)] ELSE 0
      BY <3>1, Zenon DEF LogicalBytes
    <3> QED  BY <1>3, <3>2, <3>3, Zenon
  <2>4. LogicalBytes' = [i \in 0 .. MaxLen - 1 |-> IF i < n THEN LogicalBytes[i] ELSE 0]
    BY <2>2, <2>3, Zenon
  <2> QED  BY <1>3, <2>1, <2>4, Zenon DEF File!Call, File!Truncate, File!Places
<1> QED  BY <1>2, <1>3, TruncateCuts, Zenon

(* Reading all pieces of a request completely is reading inside the file.  *)
LEMMA CompleteReads ==
    ASSUME RInv, NEW offset \in Nat, NEW amount \in Nat \ {0},
           ToPhysical(version, offset) # Fails
    PROVE  LET pieces == Pieces(version, offset, amount)
           IN  /\ (\A i \in DOMAIN pieces : InnerReadOk(pieces[i])) <=>
                     offset + amount <= LogicalLength
               /\ Len(pieces) = 2 /\ ~InnerReadOk(pieces[1]) =>
                     offset + pieces[1].amount > LogicalLength
<1> DEFINE pieces == Pieces(version, offset, amount)
<1>1. /\ version \in {2, 3} /\ size \in Preamble .. MaxInt64
      /\ size \notin LockByte + 1 .. LockByte + Preamble
  BY Zenon DEF RInv, VfsInv, FileTypes, ReservedBytesUntouched
<1>2. CASE ~UsesGap(version) \/ offset >= GapStart \/ offset + amount <= GapStart
  <2>1. /\ Len(pieces) = 1
        /\ (\A i \in DOMAIN pieces : InnerReadOk(pieces[i])) <=>
              ToPhysical(version, offset) + amount <= size
    BY <1>2 DEF Pieces, InnerReadOk
  <2>2. ToPhysical(version, offset) + amount <= size <=> offset + amount <= LogicalLength
    <3> USE <1>1, <1>2, OffsetMappingAssumption
            DEF ToPhysical, Shifted, UsesGap, Fails, GapStart, LogicalLength, SizeFromPhysical
    <3>1. CASE version = 2
      BY <3>1
    <3>2. CASE version = 3
      BY <3>2
    <3> QED  BY <3>1, <3>2, Zenon
  <2> HIDE DEF pieces
  <2> QED  BY <2>1, <2>2 DEF pieces
<1>3. CASE ~(~UsesGap(version) \/ offset >= GapStart \/ offset + amount <= GapStart)
  <2> DEFINE first == GapStart - offset
  <2>1. /\ Len(pieces) = 2 /\ pieces[1].amount = first
        /\ InnerReadOk(pieces[1]) <=> ToPhysical(version, offset) + first <= size
        /\ (\A i \in DOMAIN pieces : InnerReadOk(pieces[i])) <=>
              /\ ToPhysical(version, offset) + first <= size
              /\ ToPhysical(version, GapStart) + (amount - first) <= size
    BY <1>3 DEF Pieces, InnerReadOk
  <2>2. /\ ToPhysical(version, offset) + first = LockByte
        /\ ToPhysical(version, GapStart) = LockByte + Preamble
    BY <1>3, OffsetMappingAssumption DEF ToPhysical, Shifted, UsesGap, Fails, GapStart
  <2>3. /\ LockByte <= size /\ LockByte + Preamble + (amount - first) <= size <=>
              offset + amount <= LogicalLength
        /\ ~(LockByte <= size) => offset + first > LogicalLength
    BY <1>1, <1>3, OffsetMappingAssumption DEF UsesGap, GapStart, LogicalLength, SizeFromPhysical
  <2> HIDE DEF pieces, first
  <2> QED  BY <2>1, <2>2, <2>3, Zenon DEF pieces
<1> QED  BY <1>2, <1>3, Zenon

(* A page across the limit of a legacy file has no byte inside it.         *)
LEMMA LegacyPageOutside ==
    ASSUME RInv, NEW offset \in Nat, Multiple(offset), Legacy(offset + page)
    PROVE  LogicalLength <= offset
<1>1. /\ FileTypes /\ page \in Nat /\ LegacyMax \in Int /\ LogicalLength \in 0 .. MaxLen
      /\ ~UsesGap(version) /\ offset + page > LegacyMax
  BY InsideAgrees, OffsetMappingAssumption, OffsetFileAssumption
     DEF RInv, VfsInv, FileTypes, LegacyMax, GapStart, Legacy
<1>2. PICK m \in Nat : Multiple(m) /\ LogicalLength <= m /\ m <= LegacyMax
  BY <1>1, Zenon DEF RInv, LegacyEnd
<1>3. offset < m => offset + page <= m
  BY <1>1, <1>2, MultiplesApart, Zenon
<1> QED  BY <1>1, <1>2, <1>3, OffsetMappingAssumption DEF MaxLen

(* A page read returns the bytes of the file, also across the split, and   *)
(* is short when the page is not all there.                                *)
LEMMA ReadImplements ==
    ASSUME RInv, NEW offset \in Nat, Multiple(offset), ReadShifted(offset, page)
    PROVE  File!Call(reply')
<1> DEFINE pieces == Pieces(version, offset, page)
           halfOnly == Len(pieces) = 2 /\ ~InnerReadOk(pieces[1])
           complete == \A i \in DOMAIN pieces : InnerReadOk(pieces[i])
           data == [j \in 0 .. page - 1 |->
                      IF halfOnly /\ j >= pieces[1].amount THEN Garbage
                      ELSE IF PieceByte(pieces, j) < size THEN disk[PieceByte(pieces, j)] ELSE 0]
           zeros == [j \in 0 .. page - 1 |-> 0]
<1>1. /\ page \in Nat \ {0} /\ version \in Version /\ size \in Int
      /\ LogicalLength \in 0 .. MaxLen /\ MaxLen \in Int
  BY InsideAgrees, OffsetMappingAssumption, OffsetFileAssumption
     DEF RInv, VfsInv, FileTypes, Version, MaxLen
<1>2. LogicalLength' = LogicalLength /\ LogicalBytes' = LogicalBytes
  BY Zenon DEF ReadShifted, LogicalLength, LogicalBytes
<1>3. \A rc, d : LET r == Reply("read", offset, page, rc, d)
                 IN  /\ r.call = "read" /\ r.offset = offset /\ r.amount = page
                     /\ r.rc = rc /\ r.data = d
  BY Zenon DEF Reply
<1>4. SUFFICES File!Read(reply') /\ reply'.call = "read"
  BY Zenon DEF File!Call
<1>5. CASE reply' = Reply("read", offset, page, "IOERR_READ", 0)
  BY <1>2, <1>3, <1>5, Zenon DEF File!Read
<1>6. CASE Legacy(offset + page) /\ reply' = Reply("read", offset, page, "SHORT_READ", zeros)
  <2>1. LogicalLength <= offset
    BY <1>6, LegacyPageOutside, Zenon
  <2>2. offset + page > LogicalLength /\ \A j \in 0 .. page - 1 : ~(offset + j < LogicalLength)
    BY <1>1, <2>1
  <2> HIDE DEF zeros
  <2> QED  BY <1>2, <1>3, <1>6, <2>2 DEF File!Read
<1>7. CASE /\ RangeEnd(offset, page) # Fails /\ ToPhysical(version, offset) # Fails
           /\ reply' = Reply("read", offset, page, IF complete THEN "OK" ELSE "SHORT_READ", data)
  <2>1. /\ complete <=> offset + page <= LogicalLength
        /\ halfOnly => offset + pieces[1].amount > LogicalLength
    BY <1>1, <1>7, CompleteReads, Zenon
  <2>2. ASSUME NEW j \in 0 .. page - 1, offset + j < LogicalLength
        PROVE  data[j] = LogicalBytes[offset + j]
    <3>1. /\ offset + j \in 0 .. MaxLen - 1 /\ offset + j \in Nat /\ offset + j \in Int
          /\ j \in Int /\ page \in Int /\ offset \in Int
      BY <1>1, <2>2
    <3>2. /\ ToPhysical(version, offset + j) \in Physical
          /\ ToPhysical(version, offset + j) < size
      BY <2>2, <3>1, InsideAgrees, Zenon
    <3>3. PieceByte(pieces, j) = ToPhysical(version, offset + j)
      <4>1. ToPhysical(version, offset + j) # Fails
        BY <3>2 DEF Physical, Fails
      <4> QED  BY <1>1, <1>7, <3>1, <4>1, PiecesFollowMapping, ZenonT(30)
    <3>4. ~(halfOnly /\ j >= pieces[1].amount)
      <4>1. halfOnly => pieces[1].amount \in Int
        BY <1>1, OffsetMappingAssumption DEF Pieces, GapStart
      <4> HIDE DEF pieces
      <4> QED  BY <1>1, <2>1, <2>2, <3>1, <4>1
    <3>5. LogicalBytes[offset + j] = disk[ToPhysical(version, offset + j)]
      BY <2>2, <3>1, <3>2, Zenon DEF LogicalBytes
    <3> HIDE DEF pieces, halfOnly
    <3> QED  BY <3>2, <3>3, <3>4, <3>5, Zenon
  <2> HIDE DEF pieces, complete, data
  <2>3. (complete => offset + page <= LogicalLength) /\ (~complete => offset + page > LogicalLength)
    BY <1>1, <2>1
  <2> QED  BY <1>2, <1>3, <1>7, <2>2, <2>3 DEF File!Read
<1>8. RangeEnd(offset, page) # Fails => RangeEnd(offset, page) = offset + page
  BY Zenon DEF RangeEnd
<1> HIDE DEF zeros, data, complete, halfOnly
<1> QED  BY <1>5, <1>6, <1>7, <1>8, Zenon DEF ReadShifted, zeros, data, complete, halfOnly, pieces

(* The size SQLite is told is the length, and a size it hands down in a    *)
(* file control comes back as it was.                                      *)
LEMMA SizesImplement ==
    ASSUME RInv, OffsetFileSize \/ \E n \in PageOffsets : TranslateSizeFileControl(n)
    PROVE  File!Call(reply')
<1>1. version \in Version /\ LogicalLength \in 0 .. MaxLen /\ LogicalLength # Fails
  BY InsideAgrees, OffsetMappingAssumption DEF RInv, VfsInv, FileTypes, Version, MaxLen, Fails
<1>2. LogicalLength' = LogicalLength /\ LogicalBytes' = LogicalBytes
  BY Zenon DEF OffsetFileSize, TranslateSizeFileControl, LogicalLength, LogicalBytes
<1>3. CASE OffsetFileSize
  <2>1. reply' = Reply("size", 0, 0, "OK", LogicalLength)
    BY <1>1, <1>3, Zenon DEF OffsetFileSize, LogicalLength
  <2>2. reply'.call = "size" /\ reply'.rc = "OK" /\ reply'.data = LogicalLength
    BY <2>1, Zenon DEF Reply
  <2> QED  BY <1>2, <2>2, Zenon DEF File!Call, File!FileSize
<1>4. ASSUME NEW n \in PageOffsets, TranslateSizeFileControl(n) PROVE File!Call(reply')
  <2>1. n \in Int
    BY DEF PageOffsets
  <2>2. SizeToPhysical(version, n) # Fails =>
           SizeFromPhysical(version, SizeToPhysical(version, n)) = n
    BY <1>1, <2>1, SizeRoundTrip, Zenon
  <2>3. \E rc : reply' = Reply("control", n, 0, rc, n)
    BY <1>4, <2>2, Zenon DEF TranslateSizeFileControl
  <2>4. reply'.call = "control" /\ reply'.data = n /\ reply'.offset = n
    BY <2>3 DEF Reply
  <2> QED  BY <1>2, <2>4, Zenon DEF File!Call, File!SizeControl
<1> QED  BY <1>3, <1>4, Zenon

(* Every step keeps RInv and is a call on the byte file.                   *)
LEMMA StepImplements ==
    RInv /\ [VfsNext]_vfsVars => RInv' /\ [File!Call(reply')]_File!vars
<1> SUFFICES ASSUME RInv, [VfsNext]_vfsVars PROVE RInv' /\ [File!Call(reply')]_File!vars
  BY Zenon
<1>1. VfsInv' /\ FileTypes /\ page \in Nat
  BY StepKeeps, OffsetFileAssumption, Zenon DEF RInv, VfsInv, FileTypes
<1>2. UNCHANGED <<version, page, disk, size>> => RInv'
  <2> SUFFICES ASSUME UNCHANGED <<version, page, disk, size>> PROVE RInv'
    BY Zenon
  <2>1. LegacyEnd'
    BY Zenon DEF RInv, LegacyEnd, LogicalLength, Multiple
  <2> QED  BY <1>1, <2>1, Zenon DEF RInv
<1>3. ASSUME NEW i \in PageOffsets, NEW v \in Byte, WriteShifted(i, page, v)
      PROVE  RInv' /\ File!Call(reply')
  <2>1. i \in Nat /\ Multiple(i) /\ UNCHANGED <<version, page>>
    BY <1>1, <1>3, PageMultiple, Zenon DEF WriteShifted
  <2>2. RInv'
    <3>1. CASE UNCHANGED <<disk, size>>
      BY <1>2, <2>1, <3>1, Zenon
    <3>2. ASSUME NEW done \in 0 .. page, Stores(i, done, v), ~Legacy(i + page) PROVE RInv'
      BY <1>1, <2>1, <3>2, WriteRInv, Zenon
    <3> QED  BY <1>1, <1>3, <2>1, <3>1, <3>2, WriteStores, Zenon
  <2> QED  BY <1>1, <1>3, <2>1, <2>2, WriteImplements, Zenon
<1>4. ASSUME NEW i \in PagesRead, ReadShifted(i, page) PROVE RInv' /\ File!Call(reply')
  <2>1. i \in PageOffsets /\ UNCHANGED <<version, page, disk, size>>
    BY <1>4, Zenon DEF PagesRead, ReadShifted
  <2>2. i \in Nat /\ Multiple(i)
    BY <1>1, <2>1, PageMultiple, Zenon
  <2> QED  BY <1>2, <1>4, <2>1, <2>2, ReadImplements, Zenon
<1>5. ASSUME NEW n \in PageOffsets, OffsetTruncate(n) PROVE RInv' /\ File!Call(reply')
  <2>1. n \in Nat /\ Multiple(n)
    BY <1>1, PageMultiple, Zenon
  <2> QED  BY <1>1, <1>5, <2>1, TruncateRInv, TruncateImplements, Zenon
<1>6. CASE OffsetFileSize \/ \E n \in PageOffsets : TranslateSizeFileControl(n)
  <2>1. UNCHANGED <<version, page, disk, size>>
    BY <1>6, Zenon DEF OffsetFileSize, TranslateSizeFileControl
  <2> QED  BY <1>2, <1>6, <2>1, SizesImplement, Zenon
<1>7. CASE UNCHANGED vfsVars
  <2>1. UNCHANGED <<version, page, disk, size>> /\ reply' = reply
    BY <1>7, Zenon DEF vfsVars
  <2>2. LogicalLength' = LogicalLength /\ LogicalBytes' = LogicalBytes
    BY <2>1, Zenon DEF LogicalLength, LogicalBytes
  <2> QED  BY <1>2, <2>1, <2>2, Zenon DEF File!vars
<1> QED  BY <1>3, <1>4, <1>5, <1>6, <1>7, Zenon DEF VfsNext

(* Through the offset VFS SQLite sees an ordinary file, for every page     *)
(* size, preamble, lock byte and integer width: what a page write stores,  *)
(* also one divided at the gap and cut short, is what later reads return;  *)
(* truncation, short reads, file size and size controls agree with it.     *)
THEOREM OffsetFileImplementsByteFile == VfsSpec => ImplementsByteFile
<1>1. VfsInit => File!Init
  <2> SUFFICES ASSUME VfsInit PROVE File!Init
    BY Zenon
  <2>1. LogicalLength = 0
    BY OffsetMappingAssumption DEF VfsInit, LogicalLength, SizeFromPhysical
  <2>2. LogicalBytes = [i \in 0 .. MaxLen - 1 |-> 0]
    BY <2>1, OffsetMappingAssumption DEF LogicalBytes, MaxLen
  <2> QED  BY <2>1, <2>2, Zenon DEF File!Init, File!Places
<1> QED  BY <1>1, InitRInv, StepImplements, PTL DEF VfsSpec, ImplementsByteFile, File!Spec

-----------------------------------------------------------------------------
(* The opening protocol.                                                   *)

(* Where in its open a process is, and is not, the initialization owner.   *)
OwnerPlaces ==
    \A p \in Proc :
        /\ pc[p] \in {"locked", "preambled", "closeCreated", "closeExisting",
                      "writing", "committing", "publishing"} => owner[p]
        /\ pc[p] \in {"idle", "created", "sharedNew", "existing", "sized",
                      "recovering", "sharedRecovery", "ready"} => ~owner[p]

(* A process that writes the catalog found none; one that opened without   *)
(* the lock found one.                                                     *)
CatalogPlaces ==
    \A p \in Proc :
        /\ pc[p] \in {"writing", "committing"} => payload # "catalog"
        /\ pc[p] = "opened" /\ ~owner[p] => payload = "catalog"

(* The inductive invariant.                                                *)
IInv ==
    /\ TypeOK
    /\ PublishedMeansComplete
    /\ HandlesSeeCatalog
    /\ OwnerPlaces
    /\ CatalogPlaces

(* The file does not exist, nobody has it open: IInv holds at the start.   *)
LEMMA InitSafe == Init => IInv
<1> SUFFICES ASSUME Init PROVE IInv
  BY Zenon
<1>1. \A p \in Proc : pc[p] = "idle" /\ ~owner[p] /\ lock # p
  BY NobodyAssumption, Zenon DEF Init
<1>2. TypeOK
  <2>1. pc \in [Proc -> Places]
    BY Zenon DEF Init, Places
  <2>2. owner \in [Proc -> BOOLEAN] /\ wrote \in [Proc -> BOOLEAN] /\ emptySeen \in [Proc -> BOOLEAN]
    BY Zenon DEF Init
  <2>3. \A p \in Proc : owner[p] <=> lock = p
    BY <1>1, Zenon
  <2>4. faults \in 0 .. MaxFaults
    BY MaxFaultsAssumption DEF Init
  <2> QED  BY <2>1, <2>2, <2>3, <2>4, Zenon DEF Init, TypeOK
<1>3. PublishedMeansComplete /\ HandlesSeeCatalog /\ OwnerPlaces /\ CatalogPlaces
  BY <1>1, Zenon DEF Init, PublishedMeansComplete, HandlesSeeCatalog, OwnerPlaces, CatalogPlaces
<1> QED  BY <1>2, <1>3, Zenon DEF IInv

(* CreateExclusive keeps the invariant and a committed catalog. *)
LEMMA CreateExclusiveSafe == ASSUME IInv, NEW p \in Proc, CreateExclusive(p) PROVE IInv' /\ (payload = "catalog" => payload' = "catalog")
<1> USE MaxFaultsAssumption, NobodyAssumption DEF CreateExclusive, Goto, Works, Breaks
<1>1. TypeOK'
  BY DEF IInv, TypeOK, Places, OwnerPlaces
<1>2. PublishedMeansComplete'
  BY Zenon DEF IInv, TypeOK, Places, PublishedMeansComplete, HandlesSeeCatalog, OwnerPlaces, CatalogPlaces
<1>3. HandlesSeeCatalog'
  BY DEF IInv, TypeOK, Places, PublishedMeansComplete, HandlesSeeCatalog, OwnerPlaces, CatalogPlaces
<1>4. OwnerPlaces'
  BY DEF IInv, TypeOK, Places, OwnerPlaces
<1>5. CatalogPlaces'
  BY DEF IInv, TypeOK, Places, PublishedMeansComplete, HandlesSeeCatalog, OwnerPlaces, CatalogPlaces
<1>6. payload = "catalog" => payload' = "catalog"
  BY Zenon DEF IInv, HandlesSeeCatalog, CatalogPlaces
<1> QED  BY <1>1, <1>2, <1>3, <1>4, <1>5, <1>6, Zenon DEF IInv

(* ShareNew keeps the invariant and a committed catalog. *)
LEMMA ShareNewSafe == ASSUME IInv, NEW p \in Proc, ShareNew(p) PROVE IInv' /\ (payload = "catalog" => payload' = "catalog")
<1> USE MaxFaultsAssumption, NobodyAssumption DEF ShareNew, LockShared, Goto, Works, Breaks
<1>1. TypeOK'
  BY DEF IInv, TypeOK, Places, OwnerPlaces
<1>2. PublishedMeansComplete'
  BY Zenon DEF IInv, TypeOK, Places, PublishedMeansComplete, HandlesSeeCatalog, OwnerPlaces, CatalogPlaces
<1>3. HandlesSeeCatalog'
  BY DEF IInv, TypeOK, Places, PublishedMeansComplete, HandlesSeeCatalog, OwnerPlaces, CatalogPlaces
<1>4. OwnerPlaces'
  BY DEF IInv, TypeOK, Places, OwnerPlaces
<1>5. CatalogPlaces'
  BY DEF IInv, TypeOK, Places, PublishedMeansComplete, HandlesSeeCatalog, OwnerPlaces, CatalogPlaces
<1>6. payload = "catalog" => payload' = "catalog"
  BY Zenon DEF IInv, HandlesSeeCatalog, CatalogPlaces
<1> QED  BY <1>1, <1>2, <1>3, <1>4, <1>5, <1>6, Zenon DEF IInv

(* AcquireNew keeps the invariant and a committed catalog. *)
LEMMA AcquireNewSafe == ASSUME IInv, NEW p \in Proc, AcquireNew(p) PROVE IInv' /\ (payload = "catalog" => payload' = "catalog")
<1> USE MaxFaultsAssumption, NobodyAssumption DEF AcquireNew, LockExclusive, CanLockExclusive, Goto, Works, Breaks
<1>1. TypeOK'
  <2>1. faults' \in 0 .. MaxFaults
    BY DEF IInv, TypeOK
  <2>2. pc' \in [Proc -> Places]
    BY DEF IInv, TypeOK, Places
  <2>3. owner' \in [Proc -> BOOLEAN] /\ wrote' \in [Proc -> BOOLEAN] /\ emptySeen' \in [Proc -> BOOLEAN]
    BY Zenon DEF IInv, TypeOK
  <2>4. /\ pre' \in {"absent", "broken", "INITIALIZING", "COMMITTED", "RECOVERY"}
        /\ synced' \in {"absent", "broken", "INITIALIZING", "COMMITTED", "RECOVERY"}
        /\ payload' \in {"none", "torn", "partial", "catalog"}
        /\ lock' \in Proc \cup {Nobody}
        /\ shared' \subseteq Proc
        /\ published' \in BOOLEAN
    BY Zenon DEF IInv, TypeOK
  <2>5. \A q \in Proc : owner'[q] <=> lock' = q
    BY DEF IInv, TypeOK, Places, OwnerPlaces
  <2>6. lock' # Nobody => shared' = {}
    BY Zenon DEF IInv, TypeOK, Places, OwnerPlaces
  <2> QED  BY <2>1, <2>2, <2>3, <2>4, <2>5, <2>6, Zenon DEF TypeOK, Places
<1>2. PublishedMeansComplete'
  BY Zenon DEF IInv, TypeOK, Places, PublishedMeansComplete, HandlesSeeCatalog, OwnerPlaces, CatalogPlaces
<1>3. HandlesSeeCatalog'
  BY DEF IInv, TypeOK, Places, PublishedMeansComplete, HandlesSeeCatalog, OwnerPlaces, CatalogPlaces
<1>4. OwnerPlaces'
  BY DEF IInv, TypeOK, Places, OwnerPlaces
<1>5. CatalogPlaces'
  BY DEF IInv, TypeOK, Places, PublishedMeansComplete, HandlesSeeCatalog, OwnerPlaces, CatalogPlaces
<1>6. payload = "catalog" => payload' = "catalog"
  BY Zenon DEF IInv, HandlesSeeCatalog, CatalogPlaces
<1> QED  BY <1>1, <1>2, <1>3, <1>4, <1>5, <1>6, Zenon DEF IInv

(* WritePreamble keeps the invariant and a committed catalog. *)
LEMMA WritePreambleSafe == ASSUME IInv, NEW p \in Proc, WritePreamble(p) PROVE IInv' /\ (payload = "catalog" => payload' = "catalog")
<1> USE MaxFaultsAssumption, NobodyAssumption DEF WritePreamble, Goto, Works, Breaks
<1>1. TypeOK'
  <2>1. faults' \in 0 .. MaxFaults
    BY DEF IInv, TypeOK
  <2>2. pc' \in [Proc -> Places]
    BY Zenon DEF IInv, TypeOK, Places
  <2>3. owner' \in [Proc -> BOOLEAN] /\ wrote' \in [Proc -> BOOLEAN] /\ emptySeen' \in [Proc -> BOOLEAN]
    BY Zenon DEF IInv, TypeOK
  <2>4. /\ pre' \in {"absent", "broken", "INITIALIZING", "COMMITTED", "RECOVERY"}
        /\ synced' \in {"absent", "broken", "INITIALIZING", "COMMITTED", "RECOVERY"}
        /\ payload' \in {"none", "torn", "partial", "catalog"}
        /\ lock' \in Proc \cup {Nobody}
        /\ shared' \subseteq Proc
        /\ published' \in BOOLEAN
    BY Zenon DEF IInv, TypeOK
  <2>5. \A q \in Proc : owner'[q] <=> lock' = q
    BY Zenon DEF IInv, TypeOK, Places, OwnerPlaces
  <2>6. lock' # Nobody => shared' = {}
    BY Zenon DEF IInv, TypeOK, Places, OwnerPlaces
  <2> QED  BY <2>1, <2>2, <2>3, <2>4, <2>5, <2>6, Zenon DEF TypeOK, Places
<1>2. PublishedMeansComplete'
  BY Zenon DEF IInv, TypeOK, Places, PublishedMeansComplete, HandlesSeeCatalog, OwnerPlaces, CatalogPlaces
<1>3. HandlesSeeCatalog'
  BY Zenon DEF IInv, TypeOK, Places, PublishedMeansComplete, HandlesSeeCatalog, OwnerPlaces, CatalogPlaces
<1>4. OwnerPlaces'
  BY DEF IInv, TypeOK, Places, OwnerPlaces
<1>5. CatalogPlaces'
  BY DEF IInv, TypeOK, Places, PublishedMeansComplete, HandlesSeeCatalog, OwnerPlaces, CatalogPlaces
<1>6. payload = "catalog" => payload' = "catalog"
  BY Zenon DEF IInv, HandlesSeeCatalog, CatalogPlaces
<1> QED  BY <1>1, <1>2, <1>3, <1>4, <1>5, <1>6, Zenon DEF IInv

(* SyncPreamble keeps the invariant and a committed catalog. *)
LEMMA SyncPreambleSafe == ASSUME IInv, NEW p \in Proc, SyncPreamble(p) PROVE IInv' /\ (payload = "catalog" => payload' = "catalog")
<1> USE MaxFaultsAssumption, NobodyAssumption DEF SyncPreamble, Goto, Works, Breaks
<1>1. TypeOK'
  BY DEF IInv, TypeOK, Places, OwnerPlaces
<1>2. PublishedMeansComplete'
  BY Zenon DEF IInv, TypeOK, Places, PublishedMeansComplete, HandlesSeeCatalog, OwnerPlaces, CatalogPlaces
<1>3. HandlesSeeCatalog'
  BY Zenon DEF IInv, TypeOK, Places, PublishedMeansComplete, HandlesSeeCatalog, OwnerPlaces, CatalogPlaces
<1>4. OwnerPlaces'
  BY DEF IInv, TypeOK, Places, OwnerPlaces
<1>5. CatalogPlaces'
  BY Zenon DEF IInv, TypeOK, Places, PublishedMeansComplete, HandlesSeeCatalog, OwnerPlaces, CatalogPlaces
<1>6. payload = "catalog" => payload' = "catalog"
  BY Zenon DEF IInv, HandlesSeeCatalog, CatalogPlaces
<1> QED  BY <1>1, <1>2, <1>3, <1>4, <1>5, <1>6, Zenon DEF IInv

(* ReadSize keeps the invariant and a committed catalog. *)
LEMMA ReadSizeSafe == ASSUME IInv, NEW p \in Proc, ReadSize(p) PROVE IInv' /\ (payload = "catalog" => payload' = "catalog")
<1> USE MaxFaultsAssumption, NobodyAssumption DEF ReadSize, Goto, Works, Breaks
<1>1. TypeOK'
  <2>1. faults' \in 0 .. MaxFaults
    BY DEF IInv, TypeOK
  <2>2. pc' \in [Proc -> Places]
    BY DEF IInv, TypeOK, Places
  <2>3. owner' \in [Proc -> BOOLEAN] /\ wrote' \in [Proc -> BOOLEAN] /\ emptySeen' \in [Proc -> BOOLEAN]
    BY Zenon DEF IInv, TypeOK
  <2>4. /\ pre' \in {"absent", "broken", "INITIALIZING", "COMMITTED", "RECOVERY"}
        /\ synced' \in {"absent", "broken", "INITIALIZING", "COMMITTED", "RECOVERY"}
        /\ payload' \in {"none", "torn", "partial", "catalog"}
        /\ lock' \in Proc \cup {Nobody}
        /\ shared' \subseteq Proc
        /\ published' \in BOOLEAN
    BY Zenon DEF IInv, TypeOK
  <2>5. \A q \in Proc : owner'[q] <=> lock' = q
    BY Zenon DEF IInv, TypeOK, Places, OwnerPlaces
  <2>6. lock' # Nobody => shared' = {}
    BY Zenon DEF IInv, TypeOK, Places, OwnerPlaces
  <2> QED  BY <2>1, <2>2, <2>3, <2>4, <2>5, <2>6, Zenon DEF TypeOK, Places
<1>2. PublishedMeansComplete'
  BY Zenon DEF IInv, TypeOK, Places, PublishedMeansComplete, HandlesSeeCatalog, OwnerPlaces, CatalogPlaces
<1>3. HandlesSeeCatalog'
  BY DEF IInv, TypeOK, Places, PublishedMeansComplete, HandlesSeeCatalog, OwnerPlaces, CatalogPlaces
<1>4. OwnerPlaces'
  BY DEF IInv, TypeOK, Places, OwnerPlaces
<1>5. CatalogPlaces'
  BY DEF IInv, TypeOK, Places, PublishedMeansComplete, HandlesSeeCatalog, OwnerPlaces, CatalogPlaces
<1>6. payload = "catalog" => payload' = "catalog"
  BY Zenon DEF IInv, HandlesSeeCatalog, CatalogPlaces
<1> QED  BY <1>1, <1>2, <1>3, <1>4, <1>5, <1>6, Zenon DEF IInv

(* ReadPreamble keeps the invariant and a committed catalog. *)
LEMMA ReadPreambleSafe == ASSUME IInv, NEW p \in Proc, ReadPreamble(p) PROVE IInv' /\ (payload = "catalog" => payload' = "catalog")
<1> USE MaxFaultsAssumption, NobodyAssumption DEF ReadPreamble, HasHeader, Goto, Works, Breaks
<1>1. TypeOK'
  BY DEF IInv, TypeOK, Places, OwnerPlaces
<1>2. PublishedMeansComplete'
  BY Zenon DEF IInv, TypeOK, Places, PublishedMeansComplete, HandlesSeeCatalog, OwnerPlaces, CatalogPlaces
<1>3. HandlesSeeCatalog'
  BY DEF IInv, TypeOK, Places, PublishedMeansComplete, HandlesSeeCatalog, OwnerPlaces, CatalogPlaces
<1>4. OwnerPlaces'
  BY DEF IInv, TypeOK, Places, OwnerPlaces
<1>5. CatalogPlaces'
  BY DEF IInv, TypeOK, Places, PublishedMeansComplete, HandlesSeeCatalog, OwnerPlaces, CatalogPlaces
<1>6. payload = "catalog" => payload' = "catalog"
  BY Zenon DEF IInv, HandlesSeeCatalog, CatalogPlaces
<1> QED  BY <1>1, <1>2, <1>3, <1>4, <1>5, <1>6, Zenon DEF IInv

(* ShareRecovery keeps the invariant and a committed catalog. *)
LEMMA ShareRecoverySafe == ASSUME IInv, NEW p \in Proc, ShareRecovery(p) PROVE IInv' /\ (payload = "catalog" => payload' = "catalog")
<1> USE MaxFaultsAssumption, NobodyAssumption DEF ShareRecovery, LockShared, Goto, Works, Breaks
<1>1. TypeOK'
  BY DEF IInv, TypeOK, Places, OwnerPlaces
<1>2. PublishedMeansComplete'
  BY Zenon DEF IInv, TypeOK, Places, PublishedMeansComplete, HandlesSeeCatalog, OwnerPlaces, CatalogPlaces
<1>3. HandlesSeeCatalog'
  BY DEF IInv, TypeOK, Places, PublishedMeansComplete, HandlesSeeCatalog, OwnerPlaces, CatalogPlaces
<1>4. OwnerPlaces'
  BY DEF IInv, TypeOK, Places, OwnerPlaces
<1>5. CatalogPlaces'
  BY DEF IInv, TypeOK, Places, PublishedMeansComplete, HandlesSeeCatalog, OwnerPlaces, CatalogPlaces
<1>6. payload = "catalog" => payload' = "catalog"
  BY Zenon DEF IInv, HandlesSeeCatalog, CatalogPlaces
<1> QED  BY <1>1, <1>2, <1>3, <1>4, <1>5, <1>6, Zenon DEF IInv

(* AcquireRecovery keeps the invariant and a committed catalog. *)
LEMMA AcquireRecoverySafe == ASSUME IInv, NEW p \in Proc, AcquireRecovery(p) PROVE IInv' /\ (payload = "catalog" => payload' = "catalog")
<1> USE MaxFaultsAssumption, NobodyAssumption DEF AcquireRecovery, LockExclusive, CanLockExclusive, HasHeader, Goto, Works, Breaks
<1>1. TypeOK'
  <2>1. faults' \in 0 .. MaxFaults
    BY DEF IInv, TypeOK
  <2>2. pc' \in [Proc -> Places]
    BY DEF IInv, TypeOK, Places
  <2>3. owner' \in [Proc -> BOOLEAN] /\ wrote' \in [Proc -> BOOLEAN] /\ emptySeen' \in [Proc -> BOOLEAN]
    BY Zenon DEF IInv, TypeOK
  <2>4. /\ pre' \in {"absent", "broken", "INITIALIZING", "COMMITTED", "RECOVERY"}
        /\ synced' \in {"absent", "broken", "INITIALIZING", "COMMITTED", "RECOVERY"}
        /\ payload' \in {"none", "torn", "partial", "catalog"}
        /\ lock' \in Proc \cup {Nobody}
        /\ shared' \subseteq Proc
        /\ published' \in BOOLEAN
    BY Zenon DEF IInv, TypeOK
  <2>5. \A q \in Proc : owner'[q] <=> lock' = q
    BY DEF IInv, TypeOK, Places, OwnerPlaces
  <2>6. lock' # Nobody => shared' = {}
    BY Zenon DEF IInv, TypeOK, Places, OwnerPlaces
  <2> QED  BY <2>1, <2>2, <2>3, <2>4, <2>5, <2>6, Zenon DEF TypeOK, Places
<1>2. PublishedMeansComplete'
  BY Zenon DEF IInv, TypeOK, Places, PublishedMeansComplete, HandlesSeeCatalog, OwnerPlaces, CatalogPlaces
<1>3. HandlesSeeCatalog'
  BY DEF IInv, TypeOK, Places, PublishedMeansComplete, HandlesSeeCatalog, OwnerPlaces, CatalogPlaces
<1>4. OwnerPlaces'
  BY DEF IInv, TypeOK, Places, OwnerPlaces
<1>5. CatalogPlaces'
  BY DEF IInv, TypeOK, Places, PublishedMeansComplete, HandlesSeeCatalog, OwnerPlaces, CatalogPlaces
<1>6. payload = "catalog" => payload' = "catalog"
  BY Zenon DEF IInv, HandlesSeeCatalog, CatalogPlaces
<1> QED  BY <1>1, <1>2, <1>3, <1>4, <1>5, <1>6, Zenon DEF IInv

(* LoadCatalog keeps the invariant and a committed catalog. *)
LEMMA LoadCatalogSafe == ASSUME IInv, NEW p \in Proc, LoadCatalog(p) PROVE IInv' /\ (payload = "catalog" => payload' = "catalog")
<1> USE MaxFaultsAssumption, NobodyAssumption DEF LoadCatalog, Goto, Works, Breaks
<1>1. TypeOK'
  BY DEF IInv, TypeOK, Places, OwnerPlaces
<1>2. PublishedMeansComplete'
  BY Zenon DEF IInv, TypeOK, Places, PublishedMeansComplete, HandlesSeeCatalog, OwnerPlaces, CatalogPlaces
<1>3. HandlesSeeCatalog'
  BY DEF IInv, TypeOK, Places, PublishedMeansComplete, HandlesSeeCatalog, OwnerPlaces, CatalogPlaces
<1>4. OwnerPlaces'
  BY DEF IInv, TypeOK, Places, OwnerPlaces, CatalogPlaces
<1>5. CatalogPlaces'
  BY DEF IInv, TypeOK, Places, PublishedMeansComplete, HandlesSeeCatalog, OwnerPlaces, CatalogPlaces
<1>6. payload = "catalog" => payload' = "catalog"
  BY Zenon DEF IInv, HandlesSeeCatalog, CatalogPlaces
<1> QED  BY <1>1, <1>2, <1>3, <1>4, <1>5, <1>6, Zenon DEF IInv

(* WriteCatalogPages keeps the invariant and a committed catalog. *)
LEMMA WriteCatalogPagesSafe == ASSUME IInv, NEW p \in Proc, WriteCatalogPages(p) PROVE IInv' /\ (payload = "catalog" => payload' = "catalog")
<1> USE MaxFaultsAssumption, NobodyAssumption DEF WriteCatalogPages, Goto, Works, Breaks
<1>1. TypeOK'
  BY DEF IInv, TypeOK, Places, OwnerPlaces
<1>2. PublishedMeansComplete'
  BY Zenon DEF IInv, TypeOK, Places, PublishedMeansComplete, HandlesSeeCatalog, OwnerPlaces, CatalogPlaces
<1>3. HandlesSeeCatalog'
  BY DEF IInv, TypeOK, Places, PublishedMeansComplete, HandlesSeeCatalog, OwnerPlaces, CatalogPlaces
<1>4. OwnerPlaces'
  BY DEF IInv, TypeOK, Places, OwnerPlaces
<1>5. CatalogPlaces'
  BY DEF IInv, TypeOK, Places, PublishedMeansComplete, HandlesSeeCatalog, OwnerPlaces, CatalogPlaces
<1>6. payload = "catalog" => payload' = "catalog"
  BY Zenon DEF IInv, HandlesSeeCatalog, CatalogPlaces
<1> QED  BY <1>1, <1>2, <1>3, <1>4, <1>5, <1>6, Zenon DEF IInv

(* CommitCatalog keeps the invariant and a committed catalog. *)
LEMMA CommitCatalogSafe == ASSUME IInv, NEW p \in Proc, CommitCatalog(p) PROVE IInv' /\ (payload = "catalog" => payload' = "catalog")
<1> USE MaxFaultsAssumption, NobodyAssumption DEF CommitCatalog, Goto, Works, Breaks
<1>1. TypeOK'
  BY DEF IInv, TypeOK, Places, OwnerPlaces
<1>2. PublishedMeansComplete'
  BY Zenon DEF IInv, TypeOK, Places, PublishedMeansComplete, HandlesSeeCatalog, OwnerPlaces, CatalogPlaces
<1>3. HandlesSeeCatalog'
  BY Zenon DEF IInv, TypeOK, Places, PublishedMeansComplete, HandlesSeeCatalog, OwnerPlaces, CatalogPlaces
<1>4. OwnerPlaces'
  BY DEF IInv, TypeOK, Places, OwnerPlaces
<1>5. CatalogPlaces'
  BY Zenon DEF IInv, TypeOK, Places, PublishedMeansComplete, HandlesSeeCatalog, OwnerPlaces, CatalogPlaces
<1>6. payload = "catalog" => payload' = "catalog"
  BY Zenon DEF IInv, HandlesSeeCatalog, CatalogPlaces
<1> QED  BY <1>1, <1>2, <1>3, <1>4, <1>5, <1>6, Zenon DEF IInv

(* PublishWrite keeps the invariant and a committed catalog. *)
LEMMA PublishWriteSafe == ASSUME IInv, NEW p \in Proc, PublishWrite(p) PROVE IInv' /\ (payload = "catalog" => payload' = "catalog")
<1> USE MaxFaultsAssumption, NobodyAssumption DEF PublishWrite, HasHeader, Goto, Works, Breaks
<1>1. TypeOK'
  BY DEF IInv, TypeOK, Places, OwnerPlaces
<1>2. PublishedMeansComplete'
  BY Zenon DEF IInv, TypeOK, Places, PublishedMeansComplete, HandlesSeeCatalog, OwnerPlaces, CatalogPlaces
<1>3. HandlesSeeCatalog'
  BY ZenonT(30) DEF IInv, TypeOK, Places, PublishedMeansComplete, HandlesSeeCatalog, OwnerPlaces, CatalogPlaces
<1>4. OwnerPlaces'
  BY DEF IInv, TypeOK, Places, OwnerPlaces
<1>5. CatalogPlaces'
  BY DEF IInv, TypeOK, Places, PublishedMeansComplete, HandlesSeeCatalog, OwnerPlaces, CatalogPlaces
<1>6. payload = "catalog" => payload' = "catalog"
  BY Zenon DEF IInv, HandlesSeeCatalog, CatalogPlaces
<1> QED  BY <1>1, <1>2, <1>3, <1>4, <1>5, <1>6, Zenon DEF IInv

(* PublishSync keeps the invariant and a committed catalog. *)
LEMMA PublishSyncSafe == ASSUME IInv, NEW p \in Proc, PublishSync(p) PROVE IInv' /\ (payload = "catalog" => payload' = "catalog")
<1> USE MaxFaultsAssumption, NobodyAssumption DEF PublishSync, Goto, Works, Breaks
<1>1. TypeOK'
  <2>1. faults' \in 0 .. MaxFaults
    BY DEF IInv, TypeOK
  <2>2. pc' \in [Proc -> Places]
    BY DEF IInv, TypeOK, Places
  <2>3. owner' \in [Proc -> BOOLEAN] /\ wrote' \in [Proc -> BOOLEAN] /\ emptySeen' \in [Proc -> BOOLEAN]
    BY Zenon DEF IInv, TypeOK
  <2>4. /\ pre' \in {"absent", "broken", "INITIALIZING", "COMMITTED", "RECOVERY"}
        /\ synced' \in {"absent", "broken", "INITIALIZING", "COMMITTED", "RECOVERY"}
        /\ payload' \in {"none", "torn", "partial", "catalog"}
        /\ lock' \in Proc \cup {Nobody}
        /\ shared' \subseteq Proc
        /\ published' \in BOOLEAN
    BY Zenon DEF IInv, TypeOK
  <2>5. \A q \in Proc : owner'[q] <=> lock' = q
    BY DEF IInv, TypeOK, Places, OwnerPlaces
  <2>6. lock' # Nobody => shared' = {}
    BY Zenon DEF IInv, TypeOK, Places, OwnerPlaces
  <2> QED  BY <2>1, <2>2, <2>3, <2>4, <2>5, <2>6, Zenon DEF TypeOK, Places
<1>2. PublishedMeansComplete'
  BY Zenon DEF IInv, TypeOK, Places, PublishedMeansComplete, HandlesSeeCatalog, OwnerPlaces, CatalogPlaces
<1>3. HandlesSeeCatalog'
  BY DEF IInv, TypeOK, Places, PublishedMeansComplete, HandlesSeeCatalog, OwnerPlaces, CatalogPlaces
<1>4. OwnerPlaces'
  BY DEF IInv, TypeOK, Places, OwnerPlaces
<1>5. CatalogPlaces'
  BY DEF IInv, TypeOK, Places, PublishedMeansComplete, HandlesSeeCatalog, OwnerPlaces, CatalogPlaces
<1>6. payload = "catalog" => payload' = "catalog"
  BY Zenon DEF IInv, HandlesSeeCatalog, CatalogPlaces
<1> QED  BY <1>1, <1>2, <1>3, <1>4, <1>5, <1>6, Zenon DEF IInv

(* Abort keeps the invariant and a committed catalog. *)
LEMMA AbortSafe == ASSUME IInv, NEW p \in Proc, Abort(p) PROVE IInv' /\ (payload = "catalog" => payload' = "catalog")
<1> USE MaxFaultsAssumption, NobodyAssumption DEF Abort, MarkRecovery, Marked, Goto, Works, Breaks
<1>1. TypeOK'
  <2>1. faults' \in 0 .. MaxFaults
    BY DEF IInv, TypeOK
  <2>2. pc' \in [Proc -> Places]
    BY Zenon DEF IInv, TypeOK, Places
  <2>3. owner' \in [Proc -> BOOLEAN] /\ wrote' \in [Proc -> BOOLEAN] /\ emptySeen' \in [Proc -> BOOLEAN]
    BY Zenon DEF IInv, TypeOK
  <2>4. /\ pre' \in {"absent", "broken", "INITIALIZING", "COMMITTED", "RECOVERY"}
        /\ synced' \in {"absent", "broken", "INITIALIZING", "COMMITTED", "RECOVERY"}
        /\ payload' \in {"none", "torn", "partial", "catalog"}
        /\ lock' \in Proc \cup {Nobody}
        /\ shared' \subseteq Proc
        /\ published' \in BOOLEAN
    BY DEF IInv, TypeOK
  <2>5. \A q \in Proc : owner'[q] <=> lock' = q
    BY DEF IInv, TypeOK, Places, OwnerPlaces
  <2>6. lock' # Nobody => shared' = {}
    BY Zenon DEF IInv, TypeOK, Places, OwnerPlaces
  <2> QED  BY <2>1, <2>2, <2>3, <2>4, <2>5, <2>6, Zenon DEF TypeOK, Places
<1>2. PublishedMeansComplete'
  BY Zenon DEF IInv, TypeOK, Places, PublishedMeansComplete, HandlesSeeCatalog, OwnerPlaces, CatalogPlaces
<1>3. HandlesSeeCatalog'
  BY Zenon DEF IInv, TypeOK, Places, PublishedMeansComplete, HandlesSeeCatalog, OwnerPlaces, CatalogPlaces
<1>4. OwnerPlaces'
  BY DEF IInv, TypeOK, Places, OwnerPlaces
<1>5. CatalogPlaces'
  BY Zenon DEF IInv, TypeOK, Places, PublishedMeansComplete, HandlesSeeCatalog, OwnerPlaces, CatalogPlaces
<1>6. payload = "catalog" => payload' = "catalog"
  BY Zenon DEF IInv, HandlesSeeCatalog, CatalogPlaces
<1> QED  BY <1>1, <1>2, <1>3, <1>4, <1>5, <1>6, Zenon DEF IInv

(* CloseHandle keeps the invariant and a committed catalog. *)
LEMMA CloseHandleSafe == ASSUME IInv, NEW p \in Proc, CloseHandle(p) PROVE IInv' /\ (payload = "catalog" => payload' = "catalog")
<1> USE MaxFaultsAssumption, NobodyAssumption DEF CloseHandle, MarkRecovery, Marked, DropLocks, Goto, Works, Breaks
<1>1. TypeOK'
  BY DEF IInv, TypeOK, Places, OwnerPlaces
<1>2. PublishedMeansComplete'
  BY Zenon DEF IInv, TypeOK, Places, PublishedMeansComplete, HandlesSeeCatalog, OwnerPlaces, CatalogPlaces
<1>3. HandlesSeeCatalog'
  BY Zenon DEF IInv, TypeOK, Places, PublishedMeansComplete, HandlesSeeCatalog, OwnerPlaces, CatalogPlaces
<1>4. OwnerPlaces'
  BY Zenon DEF IInv, TypeOK, Places, OwnerPlaces
<1>5. CatalogPlaces'
  BY Zenon DEF IInv, TypeOK, Places, PublishedMeansComplete, HandlesSeeCatalog, OwnerPlaces, CatalogPlaces
<1>6. payload = "catalog" => payload' = "catalog"
  BY Zenon DEF IInv, HandlesSeeCatalog, CatalogPlaces
<1> QED  BY <1>1, <1>2, <1>3, <1>4, <1>5, <1>6, Zenon DEF IInv

(* CloseFailed keeps the invariant and a committed catalog. *)
LEMMA CloseFailedSafe == ASSUME IInv, NEW p \in Proc, CloseFailed(p) PROVE IInv' /\ (payload = "catalog" => payload' = "catalog")
<1> USE MaxFaultsAssumption, NobodyAssumption DEF CloseFailed, MarkRecovery, Marked, DropLocks, Goto, Works, Breaks
<1>1. TypeOK'
  BY DEF IInv, TypeOK, Places, OwnerPlaces
<1>2. PublishedMeansComplete'
  BY Zenon DEF IInv, TypeOK, Places, PublishedMeansComplete, HandlesSeeCatalog, OwnerPlaces, CatalogPlaces
<1>3. HandlesSeeCatalog'
  BY Zenon DEF IInv, TypeOK, Places, PublishedMeansComplete, HandlesSeeCatalog, OwnerPlaces, CatalogPlaces
<1>4. OwnerPlaces'
  BY Zenon DEF IInv, TypeOK, Places, OwnerPlaces
<1>5. CatalogPlaces'
  BY Zenon DEF IInv, TypeOK, Places, PublishedMeansComplete, HandlesSeeCatalog, OwnerPlaces, CatalogPlaces
<1>6. payload = "catalog" => payload' = "catalog"
  BY Zenon DEF IInv, HandlesSeeCatalog, CatalogPlaces
<1> QED  BY <1>1, <1>2, <1>3, <1>4, <1>5, <1>6, Zenon DEF IInv

(* BeginRead keeps the invariant and a committed catalog. *)
LEMMA BeginReadSafe == ASSUME IInv, NEW p \in Proc, BeginRead(p) PROVE IInv' /\ (payload = "catalog" => payload' = "catalog")
<1> USE MaxFaultsAssumption, NobodyAssumption DEF BeginRead
<1>1. TypeOK'
  BY Zenon DEF IInv, TypeOK, Places, OwnerPlaces
<1>2. PublishedMeansComplete'
  BY Zenon DEF IInv, TypeOK, Places, PublishedMeansComplete, HandlesSeeCatalog, OwnerPlaces, CatalogPlaces
<1>3. HandlesSeeCatalog'
  BY Zenon DEF IInv, TypeOK, Places, PublishedMeansComplete, HandlesSeeCatalog, OwnerPlaces, CatalogPlaces
<1>4. OwnerPlaces'
  BY Zenon DEF IInv, TypeOK, Places, OwnerPlaces
<1>5. CatalogPlaces'
  BY Zenon DEF IInv, TypeOK, Places, PublishedMeansComplete, HandlesSeeCatalog, OwnerPlaces, CatalogPlaces
<1>6. payload = "catalog" => payload' = "catalog"
  BY Zenon DEF IInv, HandlesSeeCatalog, CatalogPlaces
<1> QED  BY <1>1, <1>2, <1>3, <1>4, <1>5, <1>6, Zenon DEF IInv

(* EndRead keeps the invariant and a committed catalog. *)
LEMMA EndReadSafe == ASSUME IInv, NEW p \in Proc, EndRead(p) PROVE IInv' /\ (payload = "catalog" => payload' = "catalog")
<1> USE MaxFaultsAssumption, NobodyAssumption DEF EndRead
<1>1. TypeOK'
  BY Zenon DEF IInv, TypeOK, Places, OwnerPlaces
<1>2. PublishedMeansComplete'
  BY Zenon DEF IInv, TypeOK, Places, PublishedMeansComplete, HandlesSeeCatalog, OwnerPlaces, CatalogPlaces
<1>3. HandlesSeeCatalog'
  BY Zenon DEF IInv, TypeOK, Places, PublishedMeansComplete, HandlesSeeCatalog, OwnerPlaces, CatalogPlaces
<1>4. OwnerPlaces'
  BY Zenon DEF IInv, TypeOK, Places, OwnerPlaces
<1>5. CatalogPlaces'
  BY Zenon DEF IInv, TypeOK, Places, PublishedMeansComplete, HandlesSeeCatalog, OwnerPlaces, CatalogPlaces
<1>6. payload = "catalog" => payload' = "catalog"
  BY Zenon DEF IInv, HandlesSeeCatalog, CatalogPlaces
<1> QED  BY <1>1, <1>2, <1>3, <1>4, <1>5, <1>6, Zenon DEF IInv

(* CloseReady keeps the invariant and a committed catalog. *)
LEMMA CloseReadySafe == ASSUME IInv, NEW p \in Proc, CloseReady(p) PROVE IInv' /\ (payload = "catalog" => payload' = "catalog")
<1> USE MaxFaultsAssumption, NobodyAssumption DEF CloseReady, DropLocks, Goto, Works, Breaks
<1>1. TypeOK'
  BY DEF IInv, TypeOK, Places, OwnerPlaces
<1>2. PublishedMeansComplete'
  BY Zenon DEF IInv, TypeOK, Places, PublishedMeansComplete, HandlesSeeCatalog, OwnerPlaces, CatalogPlaces
<1>3. HandlesSeeCatalog'
  BY Zenon DEF IInv, TypeOK, Places, PublishedMeansComplete, HandlesSeeCatalog, OwnerPlaces, CatalogPlaces
<1>4. OwnerPlaces'
  BY Zenon DEF IInv, TypeOK, Places, OwnerPlaces
<1>5. CatalogPlaces'
  BY Zenon DEF IInv, TypeOK, Places, PublishedMeansComplete, HandlesSeeCatalog, OwnerPlaces, CatalogPlaces
<1>6. payload = "catalog" => payload' = "catalog"
  BY Zenon DEF IInv, HandlesSeeCatalog, CatalogPlaces
<1> QED  BY <1>1, <1>2, <1>3, <1>4, <1>5, <1>6, Zenon DEF IInv

(* Crash keeps the invariant and a committed catalog. *)
LEMMA CrashSafe == ASSUME IInv, NEW p \in Proc, Crash(p) PROVE IInv' /\ (payload = "catalog" => payload' = "catalog")
<1> USE MaxFaultsAssumption, NobodyAssumption DEF Crash, DropLocks, Goto, Works, Breaks
<1>1. TypeOK'
  BY DEF IInv, TypeOK, Places, OwnerPlaces
<1>2. PublishedMeansComplete'
  BY Zenon DEF IInv, TypeOK, Places, PublishedMeansComplete, HandlesSeeCatalog, OwnerPlaces, CatalogPlaces
<1>3. HandlesSeeCatalog'
  BY Zenon DEF IInv, TypeOK, Places, PublishedMeansComplete, HandlesSeeCatalog, OwnerPlaces, CatalogPlaces
<1>4. OwnerPlaces'
  BY Zenon DEF IInv, TypeOK, Places, OwnerPlaces
<1>5. CatalogPlaces'
  BY Zenon DEF IInv, TypeOK, Places, PublishedMeansComplete, HandlesSeeCatalog, OwnerPlaces, CatalogPlaces
<1>6. payload = "catalog" => payload' = "catalog"
  BY Zenon DEF IInv, HandlesSeeCatalog, CatalogPlaces
<1> QED  BY <1>1, <1>2, <1>3, <1>4, <1>5, <1>6, Zenon DEF IInv

(* A power loss kills every opener and keeps what was synced. *)
LEMMA PowerLossSafe == ASSUME IInv, PowerLoss PROVE IInv' /\ (payload = "catalog" => payload' = "catalog")
<1> USE MaxFaultsAssumption, NobodyAssumption DEF PowerLoss, Breaks
<1>0. \A p \in Proc : pc'[p] = "idle" /\ ~owner'[p] /\ lock' # p
  BY Zenon
<1>1. TypeOK'
  BY <1>0 DEF IInv, TypeOK, Places
<1>2. PublishedMeansComplete'
  BY Zenon DEF IInv, TypeOK, PublishedMeansComplete
<1>3. HandlesSeeCatalog' /\ OwnerPlaces' /\ CatalogPlaces'
  BY <1>0, Zenon DEF HandlesSeeCatalog, OwnerPlaces, CatalogPlaces
<1> QED  BY <1>1, <1>2, <1>3, Zenon DEF IInv

(* Every step keeps the invariant, and a committed catalog.                *)
LEMMA NextSafe == ASSUME IInv, [Next]_vars PROVE IInv' /\ (payload = "catalog" => payload' = "catalog")
<1>1. ASSUME NEW p \in Proc, OpenStep(p)
      PROVE  IInv' /\ (payload = "catalog" => payload' = "catalog")
  BY <1>1, CreateExclusiveSafe, ShareNewSafe, AcquireNewSafe, WritePreambleSafe,
       SyncPreambleSafe, ReadSizeSafe, ReadPreambleSafe, ShareRecoverySafe,
       AcquireRecoverySafe, LoadCatalogSafe, WriteCatalogPagesSafe,
       CommitCatalogSafe, PublishWriteSafe, PublishSyncSafe, AbortSafe,
       CloseHandleSafe, CloseFailedSafe, Zenon
  DEF OpenStep
<1>2. ASSUME NEW p \in Proc, BeginRead(p) \/ EndRead(p) \/ CloseReady(p) \/ Crash(p)
      PROVE  IInv' /\ (payload = "catalog" => payload' = "catalog")
  BY <1>2, BeginReadSafe, EndReadSafe, CloseReadySafe, CrashSafe, Zenon
<1>3. CASE PowerLoss
  BY <1>3, PowerLossSafe, Zenon
<1>4. CASE UNCHANGED vars
  BY <1>4 DEF vars, IInv, TypeOK, PublishedMeansComplete, HandlesSeeCatalog, OwnerPlaces, CatalogPlaces
<1> QED  BY <1>1, <1>2, <1>3, <1>4, Zenon DEF Next

(* The invariant holds of every behaviour of the opening protocol.         *)
LEMMA AlwaysIInv == SafetySpec => []IInv
<1>1. IInv /\ [Next]_vars => IInv'
  BY NextSafe, Zenon
<1> QED  BY InitSafe, <1>1, PTL DEF SafetySpec

(* For any number of openers, failures, deaths and power losses, the owner *)
(* flags of the file objects follow the exclusive inner lock: there is at  *)
(* most one initialization owner (acquire_initialization_lock).            *)
THEOREM OwnershipCorrect == SafetySpec => []TypeOK
<1>1. IInv => TypeOK
  BY Zenon DEF IInv
<1> QED  BY AlwaysIInv, <1>1, PTL

(* A COMMITTED preamble, cached or on disk, always has a committed catalog *)
(* behind it (transition_initialization_state is reached only after        *)
(* mylite_catalog_initialize_file_backed).                                 *)
THEOREM PublicationSafe == SafetySpec => []PublishedMeansComplete
<1>1. IInv => PublishedMeansComplete
  BY Zenon DEF IInv
<1> QED  BY AlwaysIInv, <1>1, PTL

(* Every handle that open_file_sqlite returns has a committed catalog, and *)
(* only the lock owner creates one.                                        *)
THEOREM HandlesSafe == SafetySpec => []HandlesSeeCatalog
<1>1. IInv => HandlesSeeCatalog
  BY Zenon DEF IInv
<1> QED  BY AlwaysIInv, <1>1, PTL

(* No open, recovery, failure, death or power loss undoes a committed      *)
(* catalog.                                                                *)
THEOREM CatalogSafe == SafetySpec => CatalogKept
<1>1. IInv /\ [Next]_vars => [payload = "catalog" => payload' = "catalog"]_vars
  BY NextSafe, Zenon
<1> QED  BY AlwaysIInv, <1>1, PTL DEF SafetySpec, CatalogKept

----------------------------------------------------------------------------
(* The first steps of a file's life.  A file has no whole preamble while   *)
(* its one creator is on the way to write it, and then nobody else is past *)
(* ReadSize; a process about to sync the publication has just written it.  *)
Creating == {"created", "sharedNew", "locked"}

Creation ==
    /\ pre = "absent" => \A p \in Proc : pc[p] \in {"idle", "existing"}
    /\ pre = "broken" => \A p \in Proc : pc[p] \in Creating \cup {"idle", "existing", "closeCreated"}
    /\ \A p \in Proc : pc[p] \in Creating => pre = "broken"
    /\ pre = "broken" => \A p, q \in Proc :
          pc[p] \in Creating \cup {"closeCreated"} /\ pc[q] \in Creating \cup {"closeCreated"} => p = q
    /\ \A p \in Proc : pc[p] = "publishing" => pre = "COMMITTED"

Begun == Creation /\ PublishedStays

(* Only p moves, and not into a place that Creation reserves.              *)
Strolls(p) ==
    /\ \A q \in Proc \ {p} : pc'[q] = pc[q]
    /\ pre \in {"absent", "broken"} =>
          \/ pc'[p] \in {"idle", "existing"}
          \/ pc[p] \in Creating /\ pc'[p] \in Creating \cup {"closeCreated"}
    /\ pc'[p] \in Creating => pc[p] \in Creating
    /\ pc'[p] # "publishing"

(* A step that leaves the preamble alone, or syncs it, keeps the file      *)
(* begun.                                                                  *)
LEMMA StrollBegun ==
    ASSUME IInv, Begun, NEW p \in Proc, Strolls(p),
           pre' = pre, synced' \in {synced, pre}, published' = published
    PROVE  Begun'
<1>1. PublishedStays'
  BY Zenon DEF Begun, PublishedStays
<1>2. (pre = "absent" => \A q \in Proc : pc[q] \in {"idle", "existing"})'
  BY Zenon DEF Begun, Creation, Strolls, Creating
<1>3. (pre = "broken" => \A q \in Proc : pc[q] \in Creating \cup {"idle", "existing", "closeCreated"})'
  BY Zenon DEF Begun, Creation, Strolls, Creating
<1>4. (\A q \in Proc : pc[q] \in Creating => pre = "broken")'
  BY Zenon DEF Begun, Creation, Strolls
<1>5. ASSUME pre = "broken", NEW q \in Proc, pc'[q] \in Creating \cup {"closeCreated"}
      PROVE  pc[q] \in Creating \cup {"closeCreated"}
  BY <1>5, Zenon DEF Strolls, Creating
<1>6. (pre = "broken" => \A q, s \in Proc :
          pc[q] \in Creating \cup {"closeCreated"} /\ pc[s] \in Creating \cup {"closeCreated"} => q = s)'
  BY <1>5, Zenon DEF Begun, Creation
<1>7. (\A q \in Proc : pc[q] = "publishing" => pre = "COMMITTED")'
  BY Zenon DEF Begun, Creation, Strolls
<1> QED  BY <1>1, <1>2, <1>3, <1>4, <1>6, <1>7, Zenon DEF Begun, Creation

(* So does an owner that gives up: it writes RECOVERY_REQUIRED or nothing. *)
LEMMA MarkBegun ==
    ASSUME IInv, Begun, NEW p \in Proc, owner[p], MarkRecovery(p),
           pc[p] \in {"abort", "closing", "closeCreated", "closeExisting"},
           pc'[p] \in {"closing", "existing", "idle"},
           pc[p] # "abort" => pc'[p] # "closing",
           \A q \in Proc \ {p} : pc'[q] = pc[q], published' = published
    PROVE  Begun'
<1>1. pre' \in {pre, "RECOVERY"} /\ synced' \in {synced, pre'}
  BY Zenon DEF MarkRecovery, Marked
<1>2. pre # "absent" /\ (pre = "broken" => pc[p] = "closeCreated")
  BY Zenon DEF Begun, Creation, Creating
<1>3. \A q \in Proc : pc[q] = "publishing" => q = p
  BY Zenon DEF IInv, OwnerPlaces, TypeOK
<1>4. \A q \in Proc : pc'[q] # "publishing"
  BY <1>3, Zenon
<1>5. \A q \in Proc : pc'[q] \notin Creating
  <2>1. ASSUME NEW q \in Proc, q # p, pc[q] \in Creating PROVE FALSE
    <3>1. pre = "broken" /\ pc[p] = "closeCreated"
      BY <1>2, <2>1, Zenon DEF Begun, Creation
    <3> QED  BY <2>1, <3>1, Zenon DEF Begun, Creation
  <2> QED  BY <2>1, Zenon DEF Creating
<1>6. PublishedStays'
  BY <1>1, Zenon DEF Begun, PublishedStays
<1>7. ASSUME pre' = "broken"
      PROVE  /\ \A q \in Proc : pc'[q] \in {"idle", "existing"}
  <2>1. pre = "broken" /\ pc[p] = "closeCreated"
    BY <1>1, <1>2, <1>7, Zenon
  <2>2. \A q \in Proc \ {p} : pc[q] \notin Creating \cup {"closeCreated"}
    BY <2>1, Zenon DEF Begun, Creation
  <2>3. \A q \in Proc \ {p} : pc[q] \in {"idle", "existing"}
    BY <2>1, <2>2, Zenon DEF Begun, Creation
  <2> QED  BY <2>1, <2>3, Zenon
<1>8. pre' # "absent"
  BY <1>1, <1>2, Zenon
<1> QED  BY <1>4, <1>5, <1>6, <1>7, <1>8, Zenon DEF Begun, Creation, Creating

(* Every step of an open, and every death, keeps the file begun.           *)
LEMMA OpenStepBegun == ASSUME IInv, Begun, NEW p \in Proc, OpenStep(p) PROVE Begun'
<1> USE DEF Goto
<1>0. pc \in [Proc -> Places]
  BY Zenon DEF IInv, TypeOK
<1>1. CASE CreateExclusive(p)
  <2>1. CASE pre = "absent" /\ pre' = "broken" /\ pc' = [pc EXCEPT ![p] = "created"]
    <3>1. /\ pc'[p] = "created" /\ ~published' /\ pre' = "broken"
          /\ \A q \in Proc \ {p} : pc'[q] \in {"idle", "existing"}
      BY <1>0, <1>1, <2>1, Zenon DEF CreateExclusive, Begun, Creation, PublishedStays
    <3> QED  BY <3>1, Zenon DEF Begun, Creation, Creating, PublishedStays
  <2>2. CASE pre' = pre /\ \E l \in {"existing", "idle"} : pc' = [pc EXCEPT ![p] = l]
    <3>1. Strolls(p)
      BY <1>0, <2>2, Zenon DEF Strolls, Creating
    <3> QED  BY <1>1, <2>2, <3>1, StrollBegun, Zenon DEF CreateExclusive
  <2> QED  BY <1>1, <2>1, <2>2, Zenon DEF CreateExclusive
<1>2. CASE ShareNew(p)
  <2>1. Strolls(p)
    BY <1>0, <1>2, Zenon DEF ShareNew, LockShared, Strolls, Creating
  <2> QED  BY <1>2, <2>1, StrollBegun, Zenon DEF ShareNew, LockShared
<1>3. CASE AcquireNew(p)
  <2>1. Strolls(p)
    BY <1>0, <1>3, Zenon DEF AcquireNew, LockExclusive, Strolls, Creating
  <2> QED  BY <1>3, <2>1, StrollBegun, Zenon DEF AcquireNew
<1>4. CASE WritePreamble(p)
  <2>1. CASE pre' = "INITIALIZING" /\ pc' = [pc EXCEPT ![p] = "preambled"]
    <3>1. pre = "broken" /\ ~published' /\ pc'[p] = "preambled"
      BY <1>0, <1>4, <2>1, Zenon DEF WritePreamble, Begun, Creation, Creating, PublishedStays
    <3>2. \A q \in Proc \ {p} : pc'[q] = pc[q] /\ pc[q] \in {"idle", "existing"}
      BY <1>0, <1>4, <2>1, <3>1, Zenon DEF WritePreamble, Begun, Creation, Creating
    <3> QED  BY <2>1, <3>1, <3>2, Zenon DEF Begun, Creation, Creating, PublishedStays
  <2>2. CASE pre' = pre /\ pc' = [pc EXCEPT ![p] = "closeCreated"]
    <3>1. Strolls(p)
      BY <1>0, <1>4, <2>2, Zenon DEF WritePreamble, Strolls, Creating
    <3> QED  BY <1>4, <2>2, <3>1, StrollBegun, Zenon DEF WritePreamble
  <2> QED  BY <1>4, <2>1, <2>2, Zenon DEF WritePreamble
<1>5. CASE SyncPreamble(p)
  <2>1. Strolls(p)
    BY <1>0, <1>5, Zenon DEF SyncPreamble, Strolls, Begun, Creation, Creating
  <2> QED  BY <1>5, <2>1, StrollBegun, Zenon DEF SyncPreamble
<1>6. CASE ReadSize(p)
  <2>1. Strolls(p)
    BY <1>0, <1>6, Zenon DEF ReadSize, Strolls, Creating
  <2> QED  BY <1>6, <2>1, StrollBegun, Zenon DEF ReadSize
<1>7. CASE ReadPreamble(p)
  <2>1. Strolls(p)
    BY <1>0, <1>7, Zenon DEF ReadPreamble, Strolls, Creating
  <2> QED  BY <1>7, <2>1, StrollBegun, Zenon DEF ReadPreamble
<1>8. CASE ShareRecovery(p)
  <2>1. Strolls(p)
    BY <1>0, <1>8, Zenon DEF ShareRecovery, LockShared, Strolls, Begun, Creation, Creating
  <2> QED  BY <1>8, <2>1, StrollBegun, Zenon DEF ShareRecovery, LockShared
<1>9. CASE AcquireRecovery(p)
  <2>1. Strolls(p)
    BY <1>0, <1>9, Zenon DEF AcquireRecovery, LockExclusive, Strolls, Begun, Creation, Creating
  <2> QED  BY <1>9, <2>1, StrollBegun, Zenon DEF AcquireRecovery
<1>10. CASE LoadCatalog(p)
  <2>1. Strolls(p)
    BY <1>0, <1>10, Zenon DEF LoadCatalog, Strolls, Begun, Creation, Creating
  <2> QED  BY <1>10, <2>1, StrollBegun, Zenon DEF LoadCatalog
<1>11. CASE WriteCatalogPages(p)
  <2>1. Strolls(p)
    BY <1>0, <1>11, Zenon DEF WriteCatalogPages, Strolls, Begun, Creation, Creating
  <2> QED  BY <1>11, <2>1, StrollBegun, Zenon DEF WriteCatalogPages
<1>12. CASE CommitCatalog(p)
  <2>1. Strolls(p)
    BY <1>0, <1>12, Zenon DEF CommitCatalog, Strolls, Begun, Creation, Creating
  <2> QED  BY <1>12, <2>1, StrollBegun, Zenon DEF CommitCatalog
<1>13. CASE PublishWrite(p)
  <2>1. pre \notin {"absent", "broken"}
    BY <1>13, Zenon DEF PublishWrite, Begun, Creation, Creating
  <2>2. CASE pre' = "COMMITTED" /\ pc' = [pc EXCEPT ![p] = "publishing"]
    <3>1. /\ pc'[p] = "publishing" /\ synced' = synced /\ published' = published
          /\ \A q \in Proc \ {p} : pc'[q] = pc[q] /\ pc[q] \notin Creating
      BY <1>0, <1>13, <2>1, <2>2, Zenon DEF PublishWrite, Begun, Creation
    <3> QED  BY <2>2, <3>1, Zenon DEF Begun, Creation, Creating, PublishedStays
  <2>3. CASE pre' = pre /\ \E l \in {"ready", "abort"} : pc' = [pc EXCEPT ![p] = l]
    <3>1. Strolls(p)
      BY <1>0, <2>1, <2>3, Zenon DEF Strolls, Creating
    <3> QED  BY <1>13, <2>3, <3>1, StrollBegun, Zenon DEF PublishWrite
  <2> QED  BY <1>13, <2>2, <2>3, Zenon DEF PublishWrite
<1>14. CASE PublishSync(p)
  <2>1. pre = "COMMITTED" /\ pre' = pre
    BY <1>14, Zenon DEF PublishSync, Begun, Creation
  <2>2. Strolls(p)
    BY <1>0, <1>14, <2>1, Zenon DEF PublishSync, Strolls, Creating
  <2>3. CASE published' = published
    BY <1>14, <2>1, <2>2, <2>3, StrollBegun, Zenon DEF PublishSync
  <2>4. CASE synced' = pre /\ published' = TRUE
    <3>1. PublishedStays'
      BY <2>1, <2>4, Zenon DEF PublishedStays
    <3>2. Creation'
      BY <2>1, <2>2, Zenon DEF Begun, Creation, Strolls, Creating
    <3> QED  BY <3>1, <3>2, Zenon DEF Begun
  <2> QED  BY <1>14, <2>3, <2>4, Zenon DEF PublishSync
<1>15. CASE Abort(p)
  <2>1. pc'[p] = "closing" /\ (\A q \in Proc \ {p} : pc'[q] = pc[q]) /\ published' = published
    BY <1>0, <1>15, Zenon DEF Abort
  <2>2. CASE owner[p]
    BY <1>15, <2>1, <2>2, MarkBegun, Zenon DEF Abort
  <2>3. CASE ~owner[p]
    <3>1. Strolls(p)
      BY <1>15, <2>1, Zenon DEF Abort, Strolls, Begun, Creation, Creating
    <3> QED  BY <1>15, <2>1, <2>3, <3>1, StrollBegun, Zenon DEF Abort
  <2> QED  BY <2>2, <2>3, Zenon
<1>16. CASE CloseHandle(p)
  <2>1. pc'[p] = "idle" /\ (\A q \in Proc \ {p} : pc'[q] = pc[q]) /\ published' = published
    BY <1>0, <1>16, Zenon DEF CloseHandle
  <2>2. CASE owner[p]
    BY <1>16, <2>1, <2>2, MarkBegun, Zenon DEF CloseHandle
  <2>3. CASE ~owner[p]
    <3>1. Strolls(p)
      BY <2>1, Zenon DEF Strolls, Creating
    <3> QED  BY <1>16, <2>1, <2>3, <3>1, StrollBegun, Zenon DEF CloseHandle
  <2> QED  BY <2>2, <2>3, Zenon
<1>17. CASE CloseFailed(p)
  <2>1. /\ pc'[p] \in {"existing", "idle"} /\ (\A q \in Proc \ {p} : pc'[q] = pc[q])
        /\ published' = published /\ owner[p]
    BY <1>0, <1>17, Zenon DEF CloseFailed, IInv, OwnerPlaces
  <2> QED  BY <1>17, <2>1, MarkBegun, Zenon DEF CloseFailed
<1> QED  BY <1>1, <1>2, <1>3, <1>4, <1>5, <1>6, <1>7, <1>8, <1>9, <1>10, <1>11, <1>12,
            <1>13, <1>14, <1>15, <1>16, <1>17, Zenon DEF OpenStep

(* Reads, closes, deaths and power losses keep the file begun as well.     *)
LEMMA NextBegun == ASSUME IInv, Begun, [Next]_vars PROVE Begun'
<1>0. pc \in [Proc -> Places]
  BY Zenon DEF IInv, TypeOK
<1>1. ASSUME NEW p \in Proc, BeginRead(p) \/ EndRead(p) PROVE Begun'
  BY <1>1 DEF BeginRead, EndRead, Begun, Creation, PublishedStays
<1>2. ASSUME NEW p \in Proc, CloseReady(p) \/ Crash(p) PROVE Begun'
  <2>1. /\ pc' = [pc EXCEPT ![p] = "idle"]
        /\ pre' = pre /\ synced' = synced /\ published' = published
    BY <1>2, Zenon DEF CloseReady, Crash, Goto
  <2>2. Strolls(p)
    BY <1>0, <2>1, Zenon DEF Strolls, Creating
  <2> QED  BY <2>1, <2>2, StrollBegun, Zenon
<1>3. CASE PowerLoss
  <2>1. /\ \A p \in Proc : pc'[p] = "idle"
        /\ pre # "absent" /\ synced' = synced /\ published' = published
        /\ pre' \in {pre, IF synced = "absent" THEN "broken" ELSE synced}
    BY <1>3, Zenon DEF PowerLoss
  <2> QED  BY <2>1, Zenon DEF Begun, Creation, Creating, PublishedStays
<1>4. CASE UNCHANGED vars
  BY <1>4, Zenon DEF vars, Begun, Creation, PublishedStays
<1> QED  BY <1>1, <1>2, <1>3, <1>4, OpenStepBegun, Zenon DEF Next

(* For any number of openers, failures, deaths and power losses: once an   *)
(* open has published the file (transition_initialization_state reported   *)
(* success), its preamble is never INITIALIZING, missing or broken again,  *)
(* in the cache or on the disk.                                            *)
THEOREM PublicationFinal == SafetySpec => []PublishedStays
<1>1. Init => Begun
  BY Zenon DEF Init, Begun, Creation, Creating, PublishedStays
<1>2. IInv /\ Begun /\ [Next]_vars => Begun'
  BY NextBegun, Zenon
<1>3. Begun => PublishedStays
  BY Zenon DEF Begun
<1> QED  BY AlwaysIInv, <1>1, <1>2, <1>3, PTL DEF SafetySpec
=============================================================================
