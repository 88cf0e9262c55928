----------------------------- MODULE OpenImage -----------------------------
(***************************************************************************)
(* Opening an image: open_with_cache and directory_table_end in fs.rs, the *)
(* table readers of table.rs and xattr.rs, and the lookups by inode number *)
(* an open image answers.  Every device read may fail, and an open that    *)
(* failed may be tried again.                                              *)
(*                                                                         *)
(* An image is its superblock, its size, the u64s that matter in it        *)
(* (`words`, by offset; the rest of it reads as zeros) and its metadata    *)
(* blocks.  A table entry is the sequence of the bytes it was cut from.    *)
(***************************************************************************)
EXTENDS Superblock, SequencesExt

CONSTANTS
    Images,        \* the images that may be opened
    CacheBlocks,   \* sizes given for the device cache; 0 is no cache
    Numbers,       \* inode numbers looked up
    None,          \* a table not read, or no lookup yet
    Absent,        \* an optional table the image does not have
    NotFound,      \* Error::NotFound
    NotExportable, \* Error::NotExportable
    IoError,       \* the device's failure
    U32,           \* one more than a u32 holds
    MaxOpens,      \* bound: opens in a behaviour
    MaxLookups     \* bound: lookups in a behaviour

\* Every field, word and offset is an unsigned integer.
ASSUME ImagesAssumption ==
    \A img \in Images :
       /\ {img.sb.inodeTableStart, img.sb.directoryTableStart, img.sb.idTableStart,
           img.sb.fragmentTableStart, img.sb.exportTableStart, img.sb.xattrTableStart,
           img.sb.bytesUsed, img.sb.rootBlock, img.sb.inodeCount, img.sb.idCount,
           img.sb.fragmentEntryCount, img.size} \subseteq Nat
       /\ \A a \in DOMAIN img.words : img.words[a] \in Nat
       /\ DOMAIN img.blocks \subseteq Nat
       /\ \A a \in DOMAIN img.blocks :
             /\ img.blocks[a].size \in Nat
             /\ img.blocks[a].inflated \in Nat \cup {Malformed}

\* So is an inode number.
ASSUME NumbersAssumption == Numbers \subseteq Nat

\* A u32 holds something.
ASSUME WidthAssumption == U32 \in Nat \ {0}

\* METADATA_SIZE is 8192, a multiple of the size of every table's entries; and
\* no table is absent or refused, nor an absent one refused.
ASSUME SizesAssumption ==
    /\ Absent # Refused
    /\ NoTable \in Nat
    /\ MetadataSize \in Nat /\ MetadataSize > 0 /\ MetadataSize % 16 = 0
    /\ \A v \in {Absent, Refused} :
          v \notin Seq(Nat \cup {Refused}) \cup Seq(Nat \X Nat) \cup Seq(Seq(Nat \X Nat))

VARIABLES
    image,        \* the image at hand, which never changes
    pc,           \* the next step of the open, or how it ended
    ids,          \* the id table, once read
    fragments,    \* the fragment table
    xattrIds,     \* the xattr id table
    exports,      \* the export table's pointer array
    probed,       \* how many later tables directory_table_end has asked
    dirEnd,       \* dir_table_end
    unread,       \* history: tables whose first pointer the device failed
    deviceFailed, \* history: the device failed a read of this open
    opens,
    asked,        \* the inode number last looked up
    found,        \* and the answer
    lookups

tableVars == <<ids, fragments, xattrIds, exports>>
endVars == <<probed, dirEnd, unread>>
lookupVars == <<asked, found, lookups>>
vars == <<image, pc, tableVars, endVars, deviceFailed, opens, lookupVars>>

sb == image.sb

-----------------------------------------------------------------------------
(* The readers.                                                            *)

\* The u64 at an offset, or Refused past the end of the device.
WordOf(img, a) ==
    IF a + 8 > img.size THEN Refused
    ELSE IF a \in DOMAIN img.words THEN img.words[a] ELSE 0

Word(a) == WordOf(image, a)

\* How many metadata blocks hold so many bytes.
BlocksFor(bytes) == (bytes + MetadataSize - 1) \div MetadataSize

\* The array of block pointers of a table of so many bytes.
Pointers(start, bytes) == [i \in 1..BlocksFor(bytes) |-> Word(start + 8 * (i - 1))]

\* Mutant: the array may not reach the end of the image.
ArrayFitsStrictly(start, bytes) ==
    8 * BlocksFor(bytes) < Max({0, Min({sb.bytesUsed, image.size}) - start})

\* The array lies between its start and the end of the image.
ArrayFits(start, bytes) ==
    8 * BlocksFor(bytes) <= Max({0, Min({sb.bytesUsed, image.size}) - start})

\* Mutant: every block is given MetadataSize bytes of the table, what it does
\* not fill being left as it was.
ReadIndirectPadded(start, bytes) ==
    LET blocks == [i \in 1..BlocksFor(bytes) |->
                      ReadBlock(image.blocks, Pointers(start, bytes)[i])]
        Padded(s) == [j \in 1..MetadataSize |-> IF j <= Len(s) THEN s[j] ELSE <<0, 0>>]
    IN  IF bytes = 0 THEN << >>
        ELSE IF ~ArrayFits(start, bytes) \/ Refused \in ToSet(blocks) THEN Refused
        ELSE FlattenSeq([i \in DOMAIN blocks |-> Padded(blocks[i].bytes)])

\* read_indirect_table: the decoded blocks, put end to end.
ReadIndirectTable(start, bytes) ==
    LET blocks == [i \in 1..BlocksFor(bytes) |->
                      ReadBlock(image.blocks, Pointers(start, bytes)[i])]
        all == FlattenSeq([i \in DOMAIN blocks |-> blocks[i].bytes])
    IN  IF bytes = 0 THEN << >>
        ELSE IF ~ArrayFits(start, bytes) \/ Refused \in ToSet(blocks) THEN Refused
        ELSE IF Len(all) < bytes THEN Refused ELSE all

\* Its entries, cut by index.
Entries(start, count, size) ==
    LET bytes == ReadIndirectTable(start, count * size) IN
    IF bytes = Refused THEN Refused
    ELSE [n \in 1..count |-> SubSeq(bytes, (n - 1) * size + 1, n * size)]

IdEntrySize == 4
FragmentEntrySize == 16
XattrIdEntrySize == 16
XattrHeaderSize == 16
ExportEntrySize == 8

\* table::read_id_table and table::read_fragment_table.
ReadIdTable == Entries(sb.idTableStart, sb.idCount, IdEntrySize)

ReadFragmentTable == Entries(sb.fragmentTableStart, sb.fragmentEntryCount, FragmentEntrySize)

\* A u64 read as two u32s: the first of them.
LowHalf(word) == IF word = Refused THEN Refused ELSE word % U32

\* xattr::read_id_table: where the pairs start and how many sets there are,
\* and after this header the indirect table.
ReadXattrIdTable ==
    LET header == sb.xattrTableStart
        pairs == Word(header)
        count == LowHalf(Word(header + 8))
    IN  IF header = NoTable THEN Absent
        ELSE IF count = Refused THEN Refused
        ELSE IF count # 0 /\ pairs >= header THEN Refused
        ELSE Entries(header + XattrHeaderSize, count, XattrIdEntrySize)

\* table::read_export_table: the pointers only.
ReadExportTable ==
    LET start == sb.exportTableStart
        bytes == sb.inodeCount * ExportEntrySize
    IN  IF start = NoTable THEN Absent
        ELSE IF sb.inodeCount = 0 THEN << >>
        ELSE IF ~ArrayFits(start, bytes) THEN Refused
        ELSE Pointers(start, bytes)

\* Mutant: inode numbers taken to count from zero.
LookupFromZero(n) ==
    IF exports = Absent THEN NotExportable
    ELSE IF n >= sb.inodeCount THEN NotFound
    ELSE LET byte == n * ExportEntrySize
             within == byte % MetadataSize
             data == ReadBlock(image.blocks, exports[byte \div MetadataSize + 1])
         IN  IF data = Refused THEN Refused
             ELSE IF within + ExportEntrySize > Len(data.bytes) THEN Refused
             ELSE SubSeq(data.bytes, within + 1, within + ExportEntrySize)

\* inode_ref_for_number and ExportTable::lookup: one block, one entry.
Lookup(n) ==
    IF exports = Absent THEN NotExportable
    ELSE IF n = 0 \/ n > sb.inodeCount THEN NotFound
    ELSE LET byte == (n - 1) * ExportEntrySize
             within == byte % MetadataSize
             block == byte \div MetadataSize + 1
             data == ReadBlock(image.blocks, exports[block])
         IN  IF block > Len(exports) THEN Refused
             ELSE IF data = Refused THEN Refused
             ELSE IF within + ExportEntrySize > Len(data.bytes) THEN Refused
             ELSE SubSeq(data.bytes, within + 1, within + ExportEntrySize)

-----------------------------------------------------------------------------
(* The open.                                                               *)

Init ==
    /\ image \in Images
    /\ pc = "closed"
    /\ ids = None /\ fragments = None /\ xattrIds = None /\ exports = None
    /\ probed = 0 /\ dirEnd = NoTable /\ unread = {}
    /\ deviceFailed = FALSE
    /\ opens = 0
    /\ asked = None /\ found = None /\ lookups = 0

\* open_with_cache is called.  With a cache to size, the superblock is read
\* once from the device itself, for its block size.
Begin(blocks) ==
    /\ pc \in {"closed", "failed"}
    /\ opens < MaxOpens
    /\ opens' = opens + 1
    /\ pc' = IF blocks = 0 THEN "superblock" ELSE "cache"
    /\ ids' = None /\ fragments' = None /\ xattrIds' = None /\ exports' = None
    /\ probed' = 0 /\ dirEnd' = NoTable /\ unread' = {}
    /\ deviceFailed' = FALSE
    /\ UNCHANGED <<image, lookupVars>>

SizeCache ==
    /\ pc = "cache"
    /\ pc' = IF Parses(sb) THEN "superblock" ELSE "failed"
    /\ UNCHANGED <<image, tableVars, endVars, deviceFailed, opens, lookupVars>>

ReadSuperblock ==
    /\ pc = "superblock"
    /\ pc' = IF Parses(sb) /\ Valid(sb, image.size) /\ KnownCompressor(sb)
             THEN "ids" ELSE "failed"
    /\ UNCHANGED <<image, tableVars, endVars, deviceFailed, opens, lookupVars>>

ReadIds ==
    /\ pc = "ids"
    /\ ids' = ReadIdTable
    /\ pc' = IF ids' = Refused THEN "failed" ELSE "fragments"
    /\ UNCHANGED <<image, fragments, xattrIds, exports, endVars, deviceFailed, opens, lookupVars>>

ReadFragments ==
    /\ pc = "fragments"
    /\ fragments' = ReadFragmentTable
    /\ pc' = IF fragments' = Refused THEN "failed" ELSE "xattrs"
    /\ UNCHANGED <<image, ids, xattrIds, exports, endVars, deviceFailed, opens, lookupVars>>

ReadXattrIds ==
    /\ pc = "xattrs"
    /\ xattrIds' = ReadXattrIdTable
    /\ pc' = IF xattrIds' = Refused THEN "failed" ELSE "exports"
    /\ UNCHANGED <<image, ids, fragments, exports, endVars, deviceFailed, opens, lookupVars>>

ReadExports ==
    /\ pc = "exports"
    /\ exports' = ReadExportTable
    /\ pc' = IF exports' = Refused THEN "failed" ELSE "end"
    /\ dirEnd' = DirectoryTableEnd(sb)
    /\ UNCHANGED <<image, ids, fragments, xattrIds, probed, unread, deviceFailed, opens, lookupVars>>

\* Whether the step at hand reads the device: a table that is absent or
\* empty is not read, and the export table's entries are not either.
NeedsDevice ==
    \/ pc \in {"cache", "superblock"}
    \/ pc = "ids" /\ sb.idCount > 0
    \/ pc = "fragments" /\ sb.fragmentEntryCount > 0
    \/ pc = "xattrs" /\ sb.xattrTableStart # NoTable
    \/ pc = "exports" /\ sb.exportTableStart # NoTable /\ sb.inodeCount > 0

\* A read that fails fails the open.
DeviceFails ==
    /\ NeedsDevice
    /\ pc' = "failed"
    /\ deviceFailed' = TRUE
    /\ UNCHANGED <<image, tableVars, endVars, opens, lookupVars>>

\* The later tables that directory_table_end asks: the ones that have
\* metadata blocks, which lie before the index the superblock points at.
HasBlocksOf(img, i) ==
    LaterStarts(img.sb)[i] # NoTable
        /\ <<img.sb.fragmentEntryCount > 0, TRUE, img.sb.idCount > 0, TRUE>>[i]

HasBlocks(i) == HasBlocksOf(image, i)

FirstBlock(i) == Word(LaterStarts(sb)[i])

\* Mutant: the last pointer read wins, not the nearest.
ProbeTableLast ==
    LET i == probed + 1 IN
    /\ pc = "end"
    /\ probed < 4
    /\ probed' = i
    /\ dirEnd' = IF HasBlocks(i) /\ FirstBlock(i) # Refused
                       /\ FirstBlock(i) > sb.directoryTableStart
                 THEN FirstBlock(i) ELSE dirEnd
    /\ UNCHANGED <<image, pc, tableVars, unread, deviceFailed, opens, lookupVars>>

\* directory_table_end asks the next table where its first block is.
ProbeTable ==
    LET i == probed + 1 IN
    /\ pc = "end"
    /\ probed < 4
    /\ probed' = i
    /\ dirEnd' = IF HasBlocks(i) /\ FirstBlock(i) # Refused
                       /\ FirstBlock(i) > sb.directoryTableStart
                 THEN Min({dirEnd, FirstBlock(i)}) ELSE dirEnd
    /\ UNCHANGED <<image, pc, tableVars, unread, deviceFailed, opens, lookupVars>>

\* "A pointer that cannot be read [...] is not used": the open goes on.
ProbeFails ==
    LET i == probed + 1 IN
    /\ pc = "end"
    /\ probed < 4
    /\ HasBlocks(i)
    /\ probed' = i
    /\ unread' = unread \cup {i}
    /\ UNCHANGED <<image, pc, tableVars, dirEnd, deviceFailed, opens, lookupVars>>

Opened ==
    /\ pc = "end"
    /\ probed = 4
    /\ pc' = "open"
    /\ UNCHANGED <<image, tableVars, endVars, deviceFailed, opens, lookupVars>>

\* The Filesystem is dropped.
Close ==
    /\ pc = "open"
    /\ pc' = "closed"
    /\ UNCHANGED <<image, tableVars, endVars, deviceFailed, opens, lookupVars>>

\* inode_ref_for_number on an open image.
LookupNumber(n) ==
    /\ pc = "open"
    /\ lookups < MaxLookups
    /\ lookups' = lookups + 1
    /\ asked' = n
    /\ found' = Lookup(n)
    /\ UNCHANGED <<image, pc, tableVars, endVars, deviceFailed, opens>>

LookupFails(n) ==
    /\ pc = "open"
    /\ lookups < MaxLookups
    /\ exports # Absent
    /\ n \in 1..sb.inodeCount
    /\ lookups' = lookups + 1
    /\ asked' = n
    /\ found' = IoError
    /\ UNCHANGED <<image, pc, tableVars, endVars, deviceFailed, opens>>

Step ==
    \/ SizeCache \/ ReadSuperblock \/ ReadIds \/ ReadFragments
    \/ ReadXattrIds \/ ReadExports \/ DeviceFails
    \/ ProbeTable \/ ProbeFails \/ Opened

Next ==
    \/ \E blocks \in CacheBlocks : Begin(blocks)
    \/ Step
    \/ Close
    \/ \E n \in Numbers : LookupNumber(n) \/ LookupFails(n)

Spec == Init /\ [][Next]_vars

-----------------------------------------------------------------------------
(* What it is for an image to be intact.                                   *)

\* A table of so many bytes as it is written: pointers to consecutive pieces
\* of MetadataSize bytes, the last one shorter.
TableStored(img, start, bytes) ==
    LET n == BlocksFor(bytes)
        Block(i) == ReadBlock(img.blocks, WordOf(img, start + 8 * (i - 1)))
    IN  /\ start + 8 * n <= img.sb.bytesUsed
        /\ \A i \in 1..n :
              /\ Block(i) # Refused
              /\ Len(Block(i).bytes) = IF i < n THEN MetadataSize
                                       ELSE bytes - MetadataSize * (n - 1)

XattrIdsStored(img) ==
    LET header == img.sb.xattrTableStart
        count == LowHalf(WordOf(img, header + 8))
    IN  /\ count # Refused
        /\ count # 0 => /\ WordOf(img, header) < header
                        /\ TableStored(img, header + XattrHeaderSize, count * XattrIdEntrySize)

\* The directory table's blocks lie before the blocks of every later table,
\* and there is nothing else between those and the start of the directory
\* table.
DirectoryStored(img) ==
    LET First(i) == WordOf(img, LaterStarts(img.sb)[i])
        later == {i \in 1..4 : HasBlocksOf(img, i)}
    IN  /\ \A b \in img.directory :
              /\ b \in Nat
              /\ img.sb.directoryTableStart <= b
              /\ b < DirectoryTableEnd(img.sb)
        /\ \A i \in later :
              First(i) # Refused /\ \A b \in img.directory : b < First(i)
        /\ \A b \in DOMAIN img.blocks :
              \/ b < img.sb.directoryTableStart
              \/ b \in img.directory
              \/ \E i \in later : First(i) <= b

Intact(img) ==
    /\ Parses(img.sb) /\ Valid(img.sb, img.size) /\ KnownCompressor(img.sb)
    /\ img.sb.idCount > 0 =>
          TableStored(img, img.sb.idTableStart, img.sb.idCount * IdEntrySize)
    /\ img.sb.fragmentEntryCount > 0 =>
          TableStored(img, img.sb.fragmentTableStart,
                      img.sb.fragmentEntryCount * FragmentEntrySize)
    /\ img.sb.exportTableStart # NoTable =>
          TableStored(img, img.sb.exportTableStart, img.sb.inodeCount * ExportEntrySize)
    /\ img.sb.xattrTableStart # NoTable => XattrIdsStored(img)
    /\ DirectoryStored(img)

\* The images called intact are.
ASSUME IntactAssumption == \A img \in Images : img.intact => Intact(img)

-----------------------------------------------------------------------------

\* An image that opens lies on its device, its root inode is in its inode
\* table, and the limit given to every directory listing is past the start
\* of the directory table and inside the image, whichever of the reads that
\* look for it failed.
MountWithinImage ==
    pc = "open" =>
        /\ sb.bytesUsed <= image.size
        /\ sb.inodeTableStart + sb.rootBlock < sb.directoryTableStart
        /\ sb.directoryTableStart < dirEnd
        /\ dirEnd <= sb.bytesUsed

\* `dir_table_end`, worked out once and trusted by every listing: on an
\* intact image it never cuts a directory block off, and when no pointer
\* went unread it keeps listings out of every later table's blocks (an image
\* of empty directories has no directory block for a listing to start in).
DirectoryBounded ==
    pc = "open" /\ image.intact =>
        /\ \A b \in image.directory : b < dirEnd
        /\ unread = {} /\ image.directory # {} =>
              \A b \in DOMAIN image.blocks :
                  b < dirEnd => b \in image.directory \/ b < sb.directoryTableStart

\* An intact image is refused by nothing but its device.
OpensIntact == pc = "failed" /\ image.intact => deviceFailed

\* The bytes of entry n of a table of full blocks: in the block whose
\* pointer covers n, at n's place in that block.
EntryAt(start, n, size) ==
    LET byte == (n - 1) * size
        abs == Word(start + 8 * (byte \div MetadataSize))
    IN  [j \in 1..size |-> <<abs, (byte % MetadataSize) + j>>]

\* All blocks but a table's last decode to MetadataSize bytes.
FullBlocks(start, bytes) ==
    \A i \in 1..(BlocksFor(bytes) - 1) :
        DecodedLength(image.blocks[Pointers(start, bytes)[i]]) = MetadataSize

\* How many bytes of a table its first i blocks decode to.
BytesUpTo(start, bytes) ==
    LET upTo[i \in 0..BlocksFor(bytes)] ==
          IF i = 0 THEN 0
          ELSE upTo[i - 1] + DecodedLength(image.blocks[Pointers(start, bytes)[i]])
    IN  upTo

\* Byte k of a table, counted over its blocks whatever they decode to.
IsByte(b, start, bytes, k) ==
    \E i \in 1..BlocksFor(bytes) :
        LET upTo == BytesUpTo(start, bytes) IN
        /\ k \in (upTo[i - 1] + 1)..upTo[i]
        /\ b = <<Pointers(start, bytes)[i], k - upTo[i - 1]>>

HoldsEntries(table, start, size) ==
    table # Absent =>
        \A n \in 1..Len(table) :
            /\ Len(table[n]) = size
            /\ \A j \in 1..size :
                  IsByte(table[n][j], start, Len(table) * size, (n - 1) * size + j)
            /\ FullBlocks(start, Len(table) * size) => table[n] = EntryAt(start, n, size)

\* What opens has every table the superblock counts, in full; and "we can
\* decompress all blocks, concatenate, and slice by index": each entry of
\* each table is the one the format stores under that index, and where a
\* short block shifts what follows it, no byte of the blocks is skipped, told
\* twice or made up.
EntriesIndexed ==
    pc = "open" =>
        /\ ids # Refused /\ Len(ids) = sb.idCount
        /\ fragments # Refused /\ Len(fragments) = sb.fragmentEntryCount
        /\ (xattrIds = Absent) <=> (sb.xattrTableStart = NoTable)
        /\ (exports = Absent) <=> (sb.exportTableStart = NoTable)
        /\ exports # Absent =>
              Len(exports) * MetadataSize >= sb.inodeCount * ExportEntrySize
        /\ HoldsEntries(ids, sb.idTableStart, IdEntrySize)
        /\ HoldsEntries(fragments, sb.fragmentTableStart, FragmentEntrySize)
        /\ HoldsEntries(xattrIds, sb.xattrTableStart + XattrHeaderSize, XattrIdEntrySize)

\* "An off-by-one here returns a real inode that is simply the wrong one":
\* a lookup answers with the entry of the number it was asked for, or
\* fails; an intact image's lookups fail only with the device.
LookupNeverWrong ==
    found # None =>
        IF sb.exportTableStart = NoTable THEN found = NotExportable
        ELSE IF asked \notin 1..sb.inodeCount THEN found = NotFound
        ELSE \/ found = EntryAt(sb.exportTableStart, asked, ExportEntrySize)
             \/ found = IoError
             \/ found = Refused /\ ~image.intact

=============================================================================
