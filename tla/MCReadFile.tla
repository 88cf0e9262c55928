----------------------------- MODULE MCReadFile -----------------------------
(***************************************************************************)
(* ReadFile for TLC: files of up to nine bytes in blocks of four, with     *)
(* and without a fragment, whose blocks are drawn from a few size words: a *)
(* hole, a stream of a full block, one of two bytes, a verbatim byte and a *)
(* stored size above the block size.  Some start near the largest offset.  *)
(***************************************************************************)
EXTENDS ReadFile

\* What the codec makes of stored bytes depends on their number only: three
\* are a full block, two decode to two bytes, the rest are no stream.
MCInflated == [p \in (0..MaxU64) \X (0..4) |->
    IF p[2] = 3 THEN 4 ELSE IF p[2] = 2 THEN 2 ELSE Malformed]

MCFragments == <<[start |-> 9, size |-> 3], [start |-> 9, size |-> 2 + UncompressedBit]>>

Words == {0, 2, 3, 1 + UncompressedBit, 4 + UncompressedBit, 5}

MCInodes ==
    UNION {
        [size : {size}, fragment : {fragment}, fragmentOffset : {0, 1, 3},
         words : [1..BlockCount(size, fragment) -> Words],
         start : {0, MaxU64 - 2}, regular : {TRUE}]
        : size \in {0, 1, 4, 6, 8, 9}, fragment \in {NoFragment, 0, 1, 2}}
    \cup [size : {3}, fragment : {NoFragment}, fragmentOffset : {0},
          words : {<<3>>}, start : {0}, regular : {FALSE}]

=============================================================================
