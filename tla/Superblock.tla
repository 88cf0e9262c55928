----------------------------- MODULE Superblock -----------------------------
(***************************************************************************)
(* The superblock of superblock.rs: what parse and validate_against_device *)
(* demand of it, and where it says the directory table ends.  Offsets are  *)
(* plain integers: every sum here is checked or saturating in the code,    *)
(* and compared with something an overflowing sum would also fail.         *)
(***************************************************************************)
EXTENDS Integers, FiniteSetsExt, MetaBlock

CONSTANT NoTable   \* NO_TABLE, the start of an absent table: u64::MAX

SuperblockSize == 96
MinInodeSize == 16

\* Superblock::parse, of a record of the raw fields.
Parses(sb) ==
    /\ sb.squashfs                  \* the magic
    /\ sb.versionMajor = 4
    /\ sb.versionMinor <= 0
    /\ sb.blockLog \in 12..20
    /\ sb.blockSize = 2^sb.blockLog

RequiredStarts(sb) ==
    {sb.inodeTableStart, sb.directoryTableStart, sb.idTableStart}

\* The tables after the directory table, in the order they must start.
LaterStarts(sb) ==
    <<sb.fragmentTableStart, sb.exportTableStart, sb.idTableStart, sb.xattrTableStart>>

OptionalStarts(sb) ==
    {sb.fragmentTableStart, sb.exportTableStart, sb.xattrTableStart}

InImage(sb, t) == SuperblockSize <= t /\ t < sb.bytesUsed

\* The starts after the directory table's never decrease, absent ones aside.
InOrder(sb) ==
    LET later == LaterStarts(sb) IN
    /\ sb.inodeTableStart < sb.directoryTableStart
    /\ \A i \in 1..4 : later[i] # NoTable =>
          /\ sb.directoryTableStart <= later[i]
          /\ \A j \in 1..(i - 1) : later[j] # NoTable => later[j] <= later[i]

\* The nearest of these starts past `from`, or NoTable when there is none.
Nearest(starts, from) ==
    LET past == {t \in starts : t # NoTable /\ t > from} IN
    IF past = {} THEN NoTable ELSE Min(past)

\* Superblock::directory_table_end and inode_table_end.
DirectoryTableEnd(sb) ==
    Nearest(OptionalStarts(sb) \cup {sb.idTableStart, sb.bytesUsed}, sb.directoryTableStart)

InodeTableEnd(sb) ==
    Nearest(OptionalStarts(sb) \cup RequiredStarts(sb) \cup {sb.bytesUsed}, sb.inodeTableStart)

\* Each metadata block takes three bytes on disk, and decodes to at most
\* MetadataSize bytes of inodes.
InodeRoom(sb) ==
    ((InodeTableEnd(sb) - sb.inodeTableStart) \div 3) * (MetadataSize \div MinInodeSize)

\* Mutant: the root inode's block is not checked against the inode table.
ValidRootUnchecked(sb, deviceSize) ==
    /\ sb.bytesUsed <= deviceSize
    /\ \A t \in RequiredStarts(sb) : InImage(sb, t)
    /\ \A t \in OptionalStarts(sb) : t # NoTable => InImage(sb, t)
    /\ InOrder(sb)
    /\ sb.inodeCount <= InodeRoom(sb)

\* Superblock::validate_against_device.
Valid(sb, deviceSize) ==
    /\ sb.bytesUsed <= deviceSize
    /\ \A t \in RequiredStarts(sb) : InImage(sb, t)
    /\ \A t \in OptionalStarts(sb) : t # NoTable => InImage(sb, t)
    /\ InOrder(sb)
    /\ sb.inodeTableStart + sb.rootBlock < sb.directoryTableStart
    /\ sb.inodeCount <= InodeRoom(sb)

\* Compressor::from_id: the codecs there are.
KnownCompressor(sb) == sb.compressionId \in 1..6

=============================================================================
