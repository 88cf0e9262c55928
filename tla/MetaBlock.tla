----------------------------- MODULE MetaBlock -----------------------------
(***************************************************************************)
(* One metadata block: read_block_uncached in metablock.rs.  An image maps *)
(* the offset of each block header it stores to what the header says and   *)
(* what the payload decodes to; an offset outside the map is one the       *)
(* device cannot read.  Bytes are named by the block they come from.       *)
(***************************************************************************)
EXTENDS Naturals, Sequences

CONSTANTS
    MetadataSize,   \* METADATA_SIZE, the largest decoded metadata block
    Malformed,      \* the codec's refusal of a payload
    Refused         \* the answer of a block that cannot be read

\* A block's header and payload: the stored size, whether it is compressed,
\* and the length the codec makes of it.
StoredBlock(size, compressed, inflated) ==
    [size |-> size, compressed |-> compressed, inflated |-> inflated]

BytesOf(abs, len) == [i \in 1..len |-> <<abs, i>>]

\* Where the block after one of this stored size begins: past the two bytes
\* of header and the payload.
NextAbs(abs, size) == abs + 2 + size

\* The length the block decodes to, or Malformed: capped for a compressed
\* block, and the stored size for one kept verbatim.
DecodedLength(b) ==
    IF ~b.compressed THEN b.size
    ELSE IF b.inflated = Malformed THEN Malformed
    ELSE IF b.inflated > MetadataSize THEN Malformed
    ELSE b.inflated

\* read_block_uncached.
ReadBlock(image, abs) ==
    IF abs \notin DOMAIN image THEN Refused
    ELSE LET b == image[abs] IN
         IF b.size = 0 \/ b.size > MetadataSize \/ DecodedLength(b) = Malformed
         THEN Refused
         ELSE [bytes |-> BytesOf(abs, DecodedLength(b)),
               next |-> NextAbs(abs, b.size)]

\* Where a reference points: an offset from the start of its table, as the
\* references of inodes, directory entries and xattr sets are.
MetaRequest(table, block) == [table |-> table, block |-> block]

AbsOf(r) == r.table + r.block

\* Mutant: the offset inside the table as the key, for every table alike.
MetaKeyRelative(r) == r.block

\* read_block's key in the metadata cache: the absolute offset alone.
MetaKey(r) == AbsOf(r)

=============================================================================
