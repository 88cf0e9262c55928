---------------------------- MODULE MCMetaCache ----------------------------
(***************************************************************************)
(* The metadata cache of metablock.rs for TLC: BlockCache over the blocks  *)
(* of MetaBlock, read through references into two tables.  What is cached  *)
(* is the decoded bytes and the offset of the block after, so a hit also   *)
(* decides which block a cursor pulls next.                                *)
(***************************************************************************)
EXTENDS BlockCache, TLC

CONSTANTS Malformed

MCMetadataSize == 3

INSTANCE MetaBlock WITH MetadataSize <- MCMetadataSize

\* Two blocks of inodes at 0, a directory block and a damaged one at 8.
MCImage ==
    (0 :> StoredBlock(2, TRUE, 3)) @@ (4 :> StoredBlock(2, FALSE, 2))
    @@ (8 :> StoredBlock(1, TRUE, 3)) @@ (11 :> StoredBlock(2, TRUE, Malformed))

\* The same offset in both tables, a second name for one block, and offsets
\* where the image has a damaged block or none.
MCRequest == {
    MetaRequest(0, 0), MetaRequest(0, 4), MetaRequest(8, 0), MetaRequest(0, 8),
    MetaRequest(8, 3), MetaRequest(8, 4)}

MCKeyOf(r) == MetaKey(r)
MCDecode(r) == ReadBlock(MCImage, AbsOf(r))

Symmetry == Permutations(Thread)

=============================================================================
