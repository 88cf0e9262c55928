----------------------------- MODULE MetaStream -----------------------------
(***************************************************************************)
(* What a metadata cursor gives its user, as module MetaCursor shows it:   *)
(* the cells of consecutive blocks from a reference on, up to the first    *)
(* block that cannot be read or starts at or past the limit.  A cell is    *)
(* one field of a record (a u16, u32 or u64), or one byte of a name, a     *)
(* target or a value; a record may straddle blocks.                        *)
(***************************************************************************)
EXTENDS Naturals, Sequences, FiniteSets

\* The Result of an operation.
Ok(v) == [ok |-> TRUE, value |-> v]
Err(e) == [ok |-> FALSE, error |-> e]

Damaged == Err("damaged")

\* MetadataRef::from_packed: the block's offset in its table above the low
\* sixteen bits, the offset inside the decoded block in them.
U16 == 65536
BlockOffset(ref) == ref \div U16
InBlock(ref) == ref % U16
Packed(block, offset) == block * U16 + offset

\* The limit of a cursor that has none: past every block.
NoLimit == 2 ^ 30

\* One pull, the n-th: r is what was pulled before it and where it begins.
\* The first block is pulled before there is a limit.
Pulled(blocks, limit, n, r) ==
    IF \/ r.next \notin DOMAIN blocks
       \/ n > 1 /\ (r.next >= limit \/ blocks[r.next].cells = << >>)
    THEN r
    ELSE [next |-> blocks[r.next].next, cells |-> r.cells \o blocks[r.next].cells]

\* Every cell from the start of the block at abs on, refilling below limit.
From(blocks, abs, limit) ==
    LET run[n \in 0..Cardinality(DOMAIN blocks)] ==
            IF n = 0 THEN [next |-> abs, cells |-> << >>]
            ELSE Pulled(blocks, limit, n, run[n - 1])
    IN  run[Cardinality(DOMAIN blocks)].cells

\* A cursor over a table from a packed reference: what it can still deliver.
Cursor(blocks, table, ref, limit) ==
    LET abs == table + BlockOffset(ref) IN
    IF abs \notin DOMAIN blocks THEN Damaged
    ELSE IF InBlock(ref) > Len(blocks[abs].cells) THEN Damaged
    ELSE LET all == From(blocks, abs, limit) IN
         Ok(SubSeq(all, InBlock(ref) + 1, Len(all)))

=============================================================================
