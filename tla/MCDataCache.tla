---------------------------- MODULE MCDataCache ----------------------------
(***************************************************************************)
(* The data cache of fs.rs for TLC: BlockCache over the requests of        *)
(* DataBlock.  The requests meet at one offset on purpose: the same bytes  *)
(* under another size word or another bound are another decode.            *)
(***************************************************************************)
EXTENDS BlockCache, TLC

CONSTANTS Malformed

MCBlockSize == 4
MCDeviceSize == 12

\* Only the first four stored bytes at 0 and at 4 are codec streams.
MCInflated ==
    [p \in (0..8) \X (0..4) |-> IF p[1] \in {0, 4} /\ p[2] = 3 THEN 4 ELSE Malformed]

INSTANCE DataBlock WITH
    BlockSize <- MCBlockSize, DeviceSize <- MCDeviceSize, Inflated <- MCInflated

MCRequest == {
    DataRequest(0, 3, 4),                      \* a full block
    DataRequest(0, 3, 2),                      \* the same, as a short last block
    DataRequest(0, 3 + UncompressedBit, 4),    \* the same bytes, stored raw
    DataRequest(4, 3, 4)}                      \* a fragment block

MCKeyOf(r) == DataKey(r)
MCDecode(r) == DecodeDataBlock(r)

Symmetry == Permutations(Thread)

=============================================================================
