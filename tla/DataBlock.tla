----------------------------- MODULE DataBlock -----------------------------
(***************************************************************************)
(* Decoding one data or fragment block: decode_data_block and the key of   *)
(* read_data_block in fs.rs, the size word of table.rs, and the output cap *)
(* of decompress.rs.  A request is the place of the block, its size word   *)
(* and the bound on what it may decode to.  Decoded bytes are named by     *)
(* where and how they were decoded; only their length is concrete.         *)
(***************************************************************************)
EXTENDS Naturals

CONSTANTS
    BlockSize,    \* the archive's block size
    DeviceSize,   \* bytes of the image
    Inflated,     \* Inflated[offset, size]: length the codec yields from
                  \* those stored bytes, or Malformed
    Malformed,    \* the codec's own refusal of what is not a stream
    Refused       \* the answer of a decode that is refused

\* DATA_SIZE_MASK is the low 24 bits of a size word, and
\* DATA_UNCOMPRESSED_BIT the bit above them.
UncompressedBit == 2^24

DataOnDiskSize(word) == word % UncompressedBit

DataIsCompressed(word) == (word \div UncompressedBit) % 2 = 0

DataRequest(offset, word, maxOut) ==
    [offset |-> offset, word |-> word, maxOut |-> maxOut]

\* Mutant: the offset alone as the key, as in the metadata cache.
DataKeyOffset(r) == r.offset

\* Mutant: the key leaves out the output bound.
DataKeyUnbounded(r) == <<r.offset, r.word>>

\* read_data_block: the key is the whole request.
DataKey(r) == <<r.offset, r.word, r.maxOut>>

Bytes(r, how, len) ==
    [offset |-> r.offset, size |-> DataOnDiskSize(r.word), how |-> how, len |-> len]

\* decompress: every codec is capped, and output past the cap is refused.
Decompress(r) ==
    LET len == Inflated[<<r.offset, DataOnDiskSize(r.word)>>] IN
    IF len = Malformed THEN Refused
    ELSE IF len > r.maxOut THEN Refused
    ELSE Bytes(r, "inflated", len)

\* The uncompressed arm: the stored bytes themselves, under the same cap.
Verbatim(r) ==
    LET len == DataOnDiskSize(r.word) IN
    IF len > r.maxOut THEN Refused ELSE Bytes(r, "verbatim", len)

\* decode_data_block: a stored size above the block size is refused before
\* anything is read, and a read past the end of the image fails.
DecodeDataBlock(r) ==
    LET size == DataOnDiskSize(r.word) IN
    IF size > BlockSize \/ r.offset + size > DeviceSize THEN Refused
    ELSE IF DataIsCompressed(r.word) THEN Decompress(r)
    ELSE Verbatim(r)

=============================================================================
