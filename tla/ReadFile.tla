------------------------------ MODULE ReadFile ------------------------------
(***************************************************************************)
(* Reading a regular file: read_file, read_file_with_offsets,              *)
(* block_offsets and read_logical_block in fs.rs, over the geometry that   *)
(* Inode::read fixes (block_count in inode.rs).  A file is full data       *)
(* blocks laid end to end, some of them sparse, and perhaps a tail inside  *)
(* a fragment block that other files share.  A reader calls read_file      *)
(* from some offset on, again and again, each time from where the last     *)
(* call stopped, as the command line's copy loops (from offset zero) and   *)
(* a kernel reading a file (from anywhere) do.                             *)
(***************************************************************************)
EXTENDS DataBlock, Integers, FiniteSetsExt, SequencesExt

CONSTANTS
    Inodes,        \* the file inodes tried
    Fragments,     \* the mount's fragment table: <<[start, size], ...>>
    NoFragment,    \* SQUASHFS_INVALID_FRAG
    Offsets,       \* offsets a reader starts from
    BufferSizes,   \* lengths of the caller's buffer
    MaxU64,        \* the largest u64
    MaxBlocks      \* MAX_BLOCKS, the sanity bound on a file's blocks

\* A device's size is a u64, and what the codec yields is a length or nothing.
ASSUME SizesAssumption ==
    /\ BlockSize \in Nat \ {0}
    /\ DeviceSize \in Nat /\ MaxU64 \in Nat /\ DeviceSize <= MaxU64
    /\ \A o \in 0..DeviceSize, s \in 0..BlockSize :
          o + s <= DeviceSize => Inflated[<<o, s>>] \in Nat \cup {Malformed}

\* Every field of an inode and of the fragment table is an unsigned integer.
ASSUME FilesAssumption ==
    /\ Offsets \subseteq Nat /\ BufferSizes \subseteq Nat
    /\ \A i \in Inodes :
          /\ i.size \in Nat
          /\ i.start \in 0..MaxU64
          /\ i.words \in Seq(Nat)
          /\ i.fragment # NoFragment => i.fragment \in Nat /\ i.fragmentOffset \in Nat
    /\ Fragments \in Seq([start : Nat, size : Nat])

VARIABLES
    inode,      \* the file being read; the image never changes
    first,      \* offset of the reader's first call
    offset,     \* offset of the call under way, or of the next one
    buffer,     \* buf.len() of the call under way
    written,    \* bytes of the buffer filled so far
    copied,     \* history: every byte copied out, over all the calls
    pc,
    returned,   \* what the last call that succeeded returned
    error       \* the error the last call failed with

vars == <<inode, first, offset, buffer, written, copied, pc, returned, error>>

\* Inode::has_fragment.
HasFragment(i) == i.regular /\ i.fragment # NoFragment

\* block_count: the data blocks of a file; its tail, when it has a fragment,
\* is not one of them.
BlockCount(size, fragment) ==
    IF fragment = NoFragment
    THEN (size + BlockSize - 1) \div BlockSize
    ELSE size \div BlockSize

\* An inode that Inode::read returns: as many size words as block_count says.
WellFormed(i) ==
    /\ BlockCount(i.size, i.fragment) <= MaxBlocks
    /\ Len(i.words) = BlockCount(i.size, i.fragment)

\* Mutant: the running sum wraps.
WrappingAdd(a, b) == (a + b) % (MaxU64 + 1)

SaturatingAdd(a, b) == Min({a + b, MaxU64})

\* block_offsets: where each data block is stored, a saturating prefix sum
\* of the stored sizes.
BlockOffsets(i) ==
    LET offs[n \in 1..Len(i.words)] ==
            IF n = 1 THEN i.start
            ELSE SaturatingAdd(offs[n - 1], DataOnDiskSize(i.words[n - 1]))
    IN  offs

Error(what) == [error |-> what]
IsError(b) == "error" \in DOMAIN b

Zeros(len) == [offset |-> 0, size |-> 0, how |-> "sparse", len |-> len]

Logical(block, start, end) == [block |-> block, start |-> start, end |-> end]

\* Mutant: whatever length the block decodes to is taken.
DataBlockAnyLength(i, idx) ==
    LET word == i.words[idx + 1]
        length == Min({BlockSize, i.size - idx * BlockSize})
    IN  IF DataOnDiskSize(word) = 0
        THEN Logical(Zeros(length), 0, length)
        ELSE LET b == DecodeDataBlock(DataRequest(BlockOffsets(i)[idx + 1], word, length)) IN
             IF b = Refused THEN Error("BadData") ELSE Logical(b, 0, b.len)

\* Mutant: the last block is held to the length of a full one.
DataBlockAlwaysFull(i, idx) ==
    LET word == i.words[idx + 1] IN
    IF DataOnDiskSize(word) = 0
    THEN Logical(Zeros(BlockSize), 0, BlockSize)
    ELSE LET b == DecodeDataBlock(DataRequest(BlockOffsets(i)[idx + 1], word, BlockSize)) IN
         IF b = Refused THEN Error("BadData")
         ELSE IF b.len # BlockSize THEN Error("WrongLength")
         ELSE Logical(b, 0, BlockSize)

\* read_logical_block for a data block: a hole is zeros, anything else must
\* decode to exactly the length the geometry fixes.
DataBlockOf(i, idx) ==
    LET word == i.words[idx + 1]
        length == Min({BlockSize, i.size - idx * BlockSize})
    IN  IF DataOnDiskSize(word) = 0
        THEN Logical(Zeros(length), 0, length)
        ELSE LET b == DecodeDataBlock(DataRequest(BlockOffsets(i)[idx + 1], word, length)) IN
             IF b = Refused THEN Error("BadData")
             ELSE IF b.len # length THEN Error("WrongLength")
             ELSE Logical(b, 0, length)

\* read_logical_block for the tail: a range of a fragment block.  (On a
\* 64-bit build the checked sum of a u32 and a tail cannot overflow.)
FragmentTail(i) ==
    LET frag == Fragments[i.fragment + 1]
        b == DecodeDataBlock(DataRequest(frag.start, frag.size, BlockSize))
        tail == i.size - Len(i.words) * BlockSize
        end == i.fragmentOffset + tail
    IN  IF b = Refused THEN Error("BadData")
        ELSE IF end > b.len THEN Error("TailPastBlock")
        ELSE Logical(b, i.fragmentOffset, end)

\* read_logical_block: a logical block, or the name of the error.
ReadLogicalBlock(i, idx) ==
    IF idx < Len(i.words) THEN DataBlockOf(i, idx)
    ELSE IF ~HasFragment(i) THEN Error("OutOfRange")
    ELSE IF i.fragment >= Len(Fragments) THEN Error("BadFragmentIndex")
    ELSE FragmentTail(i)

\* Whether the block needs the device (or the cache in front of it) at all.
NeedsDevice(i, idx) ==
    IF idx < Len(i.words) THEN DataOnDiskSize(i.words[idx + 1]) # 0
    ELSE HasFragment(i) /\ i.fragment < Len(Fragments)

ByteOf(block, n) == IF block.how = "sparse" THEN "zero" ELSE <<block, n>>

Init ==
    /\ inode \in {i \in Inodes : WellFormed(i)}
    /\ first \in Offsets
    /\ offset = first
    /\ buffer = 0
    /\ written = 0
    /\ copied = << >>
    /\ pc = "idle"
    /\ returned = 0
    /\ error = "none"

\* The bytes the call will return: the buffer, cut at the end of the file.
ToRead == Min({buffer, inode.size - offset})

\* read_file is entered.
Call(len) ==
    /\ pc = "idle"
    /\ pc' = "check"
    /\ buffer' = len
    /\ written' = 0
    /\ UNCHANGED <<inode, first, offset, copied, returned, error>>

\* Returning: the caller's next read starts after what this one gave it.
Return(n) ==
    /\ pc' = IF n = 0 THEN "done" ELSE "idle"
    /\ offset' = offset + n
    /\ returned' = n
    /\ UNCHANGED <<inode, first, buffer, written, copied, error>>

Fail(what) ==
    /\ pc' = "failed"
    /\ error' = what
    /\ UNCHANGED <<inode, first, offset, buffer, written, copied, returned>>

NotAFile == pc = "check" /\ ~inode.regular /\ Fail("NotAFile")

\* Past the end, or an empty buffer: nothing to do.
NothingToRead ==
    /\ pc = "check"
    /\ inode.regular
    /\ offset >= inode.size \/ buffer = 0
    /\ Return(0)

Begin ==
    /\ pc = "check"
    /\ inode.regular
    /\ offset < inode.size
    /\ buffer > 0
    /\ pc' = "loop"
    /\ UNCHANGED <<inode, first, offset, buffer, written, copied, returned, error>>

BlockIndex == (offset + written) \div BlockSize
BlockOff == (offset + written) % BlockSize

\* The loop body: copy what this block has of what is still wanted.
Copy ==
    LET b == ReadLogicalBlock(inode, BlockIndex)
        len == b.end - b.start
        take == Min({len - BlockOff, ToRead - written})
    IN  /\ pc = "loop"
        /\ written < ToRead
        /\ ~IsError(b)
        /\ BlockOff < len
        /\ copied' = copied \o [n \in 1..take |-> ByteOf(b.block, b.start + BlockOff + n)]
        /\ written' = written + take
        /\ UNCHANGED <<inode, first, offset, buffer, pc, returned, error>>

\* Mutant: what was copied before the bad block is returned as a read.
BadBlockShort ==
    /\ pc = "loop"
    /\ written < ToRead
    /\ IsError(ReadLogicalBlock(inode, BlockIndex))
    /\ Return(written)

\* The image is at fault: read_logical_block returns an error, or a block
\* that ends before the offset wanted from it.
BadBlock ==
    LET b == ReadLogicalBlock(inode, BlockIndex)
    IN  /\ pc = "loop"
        /\ written < ToRead
        /\ ~IsError(b) => BlockOff >= b.end - b.start
        /\ Fail(IF IsError(b) THEN b.error ELSE "NoProgress")

\* The device is at fault, this time.
DeviceFails ==
    /\ pc = "loop"
    /\ written < ToRead
    /\ NeedsDevice(inode, BlockIndex)
    /\ Fail("Device")

Finish == pc = "loop" /\ written = ToRead /\ Return(written)

Next ==
    \/ \E len \in BufferSizes : Call(len)
    \/ NotAFile
    \/ NothingToRead
    \/ Begin
    \/ Copy
    \/ BadBlock
    \/ DeviceFails
    \/ Finish

Spec == Init /\ [][Next]_vars

-----------------------------------------------------------------------------

\* Where data block n (from 1) really is: an exact sum, in no fixed width.
ExactOffset(n) ==
    LET end[m \in 0..Len(inode.words)] ==
            IF m = 0 THEN inode.start ELSE end[m - 1] + DataOnDiskSize(inode.words[m])
    IN  end[n - 1]

\* Byte n (from 0) of the file, found from the format and not by the loop.
FileByte(n) ==
    LET idx == n \div BlockSize
        tail == n - Len(inode.words) * BlockSize
    IN  IF tail >= 0
        THEN <<DecodeDataBlock(DataRequest(Fragments[inode.fragment + 1].start,
                   Fragments[inode.fragment + 1].size, BlockSize)),
               inode.fragmentOffset + tail + 1>>
        ELSE IF DataOnDiskSize(inode.words[idx + 1]) = 0 THEN "zero"
        ELSE <<DecodeDataBlock(DataRequest(ExactOffset(idx + 1), inode.words[idx + 1],
                   Min({BlockSize, inode.size - idx * BlockSize}))),
               (n % BlockSize) + 1>>

\* Chunk by chunk, whatever the chunks, a reader gets the file: every byte
\* copied is the byte the format puts at that offset, and is inside the
\* block it comes from.
CopiesTheFile ==
    \A n \in 1..Len(copied) :
        /\ copied[n] = FileByte(first + n - 1)
        /\ copied[n] # "zero" => copied[n][2] \in 1..copied[n][1].len

\* "EOF is the *only* reason for a short return": between calls everything
\* returned has been copied, and a call that returned less than its buffer
\* has reached the end of the file.
ShortOnlyAtEnd ==
    pc \in {"idle", "done"} =>
        /\ Len(copied) = offset - first
        /\ returned < buffer => offset >= inode.size

\* The blocks of an intact file: every stored block decodes to exactly its
\* part of the file, and the tail lies inside its fragment block.
Intact ==
    /\ \A n \in 1..Len(inode.words) :
        DataOnDiskSize(inode.words[n]) # 0 =>
            LET length == Min({BlockSize, inode.size - (n - 1) * BlockSize})
                b == DecodeDataBlock(DataRequest(ExactOffset(n), inode.words[n], length))
            IN  b # Refused /\ b.len = length
    /\ inode.size > Len(inode.words) * BlockSize =>
            /\ inode.fragment < Len(Fragments)
            /\ LET frag == Fragments[inode.fragment + 1]
                   b == DecodeDataBlock(DataRequest(frag.start, frag.size, BlockSize))
               IN  /\ b # Refused
                   /\ inode.fragmentOffset + inode.size - Len(inode.words) * BlockSize <= b.len

\* No intact file is refused: short last blocks, holes, a tail that ends
\* exactly at its fragment block's end included.
ReadsIntactFiles ==
    error \in {"BadData", "WrongLength", "TailPastBlock", "BadFragmentIndex"} => ~Intact

\* An inode that Inode::read accepts never leads the loop past the end of
\* the file's blocks, nor to a block too short to go on from.
GeometryHolds == error \notin {"OutOfRange", "NoProgress"}

=============================================================================
