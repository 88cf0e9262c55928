----------------------------- MODULE MetaCursor -----------------------------
(***************************************************************************)
(* MetaCursor in metablock.rs: a flat reader over consecutive metadata     *)
(* blocks.  Every metadata read of the driver goes through one: an inode   *)
(* with no limit, a directory listing with the end of the directory table  *)
(* as its limit (read_dir in fs.rs).  A record may straddle blocks, so a   *)
(* read pulls blocks onto the tail of the window until it has enough.      *)
(***************************************************************************)
EXTENDS MetaBlock, FiniteSets, SequencesExt

CONSTANTS
    Images,      \* the images a cursor is tried on
    Starts,      \* start_abs a reference can name
    Offsets,     \* in_block a reference can name
    Limits,      \* ends of the table being read
    Lengths,     \* lengths asked of read_exact
    NoLimit,     \* limit: None
    MaxReads     \* bound: read_exact calls on one cursor

\* Addresses and lengths are numbers of bytes, an image has finitely many
\* blocks, and what the codec makes of one is a length or nothing.
ASSUME ImagesAssumption ==
    /\ MetadataSize \in Nat
    /\ Offsets \cup Limits \cup Lengths \subseteq Nat
    /\ \A img \in Images :
          /\ IsFiniteSet(DOMAIN img)
          /\ DOMAIN img \subseteq Nat
          /\ \A abs \in DOMAIN img :
                /\ img[abs].size \in Nat
                /\ img[abs].inflated \in Nat \cup {Malformed}

VARIABLES
    image,       \* the mounted image; it never changes
    pc,          \* where the cursor's user is
    start,       \* the reference the cursor was made from: its block ...
    inBlock,     \* ... and the offset inside it
    limit,       \* with_limit's end, or NoLimit
    window,      \* buf: decoded bytes
    pos,         \* bytes of the window already consumed
    next,        \* next_abs: the block to pull next
    want,        \* bytes the read_exact under way asks for
    delivered,   \* history: every byte handed out
    pulled,      \* history: the blocks read, by offset
    cause,       \* history: why the cursor failed
    reads        \* read_exact calls so far

cursorVars == <<window, pos, next, pulled>>
vars == <<image, pc, start, inBlock, limit, cursorVars, want, delivered, cause, reads>>

Unread == Len(window) - pos

Init ==
    /\ image \in Images
    /\ pc = "none"
    /\ start \in Starts
    /\ inBlock \in Offsets
    /\ limit \in Limits \cup {NoLimit}
    /\ window = << >>
    /\ pos = 0
    /\ next = 0
    /\ want = 0
    /\ delivered = << >>
    /\ pulled = << >>
    /\ cause = "none"
    /\ reads = 0

\* An error: the `?` gives the whole cursor up.
Fails(why) ==
    /\ pc' = "failed"
    /\ cause' = why
    /\ UNCHANGED <<image, start, inBlock, limit, window, pos, next, want, delivered, reads>>

\* MetaCursor::new, and with_limit chained to it: the first block is read
\* before there is a limit, and borrowed whole.
New ==
    LET b == ReadBlock(image, start) IN
    /\ pc = "none"
    /\ b # Refused
    /\ inBlock <= Len(b.bytes)
    /\ pc' = "ready"
    /\ window' = b.bytes
    /\ pos' = inBlock
    /\ next' = b.next
    /\ pulled' = <<start>>
    /\ UNCHANGED <<image, start, inBlock, limit, want, delivered, cause, reads>>

\* MetaCursor::new refuses a block that cannot be read, and a reference past
\* the end of the block.
NewFails ==
    LET b == ReadBlock(image, start) IN
    /\ pc = "none"
    /\ b # Refused => inBlock > Len(b.bytes)
    /\ pulled' = IF b = Refused THEN << >> ELSE <<start>>
    /\ Fails("new")

\* read_exact is called for n bytes.
ReadExact(n) ==
    /\ pc = "ready"
    /\ reads < MaxReads
    /\ pc' = "ensure"
    /\ want' = n
    /\ reads' = reads + 1
    /\ UNCHANGED <<image, start, inBlock, limit, cursorVars, delivered, cause>>

\* Mutant: a block starting exactly at the limit is pulled.
PastLimitByOne == limit # NoLimit /\ next > limit

\* Mutant: a block is refused unless its header ends before the limit.
PastLimitEarly == limit # NoLimit /\ next + 2 > limit

\* refill's test of the limit.
PastLimit == limit # NoLimit /\ next >= limit

\* Mutant: the consumed bytes are dropped and `pos` is left where it was.
RefillKeepsPos ==
    LET b == ReadBlock(image, next) IN
    /\ pc = "ensure"
    /\ Unread < want
    /\ ~PastLimit
    /\ b # Refused
    /\ b.bytes # << >>
    /\ window' = SubSeq(window, pos + 1, Len(window)) \o b.bytes
    /\ next' = b.next
    /\ pulled' = Append(pulled, next)
    /\ UNCHANGED <<image, pc, start, inBlock, limit, pos, want, delivered, cause, reads>>

\* ensure's loop body: pull one more block onto the tail of the window,
\* dropping what has been consumed.
Refill ==
    LET b == ReadBlock(image, next) IN
    /\ pc = "ensure"
    /\ Unread < want
    /\ ~PastLimit
    /\ b # Refused
    /\ b.bytes # << >>
    /\ window' = SubSeq(window, pos + 1, Len(window)) \o b.bytes
    /\ pos' = 0
    /\ next' = b.next
    /\ pulled' = Append(pulled, next)
    /\ UNCHANGED <<image, pc, start, inBlock, limit, want, delivered, cause, reads>>

\* The next block is at or past the limit: it is not read.
RefillPastLimit ==
    /\ pc = "ensure"
    /\ Unread < want
    /\ PastLimit
    /\ Fails("limit")
    /\ UNCHANGED pulled

\* Mutant: an empty block is passed over without moving past it.
RefillFailsUnlessEmpty ==
    /\ pc = "ensure"
    /\ Unread < want
    /\ ~PastLimit
    /\ ReadBlock(image, next) = Refused
    /\ Fails("block")
    /\ UNCHANGED pulled

\* The next block cannot be read, or decodes to nothing.
RefillFails ==
    LET b == ReadBlock(image, next) IN
    /\ pc = "ensure"
    /\ Unread < want
    /\ ~PastLimit
    /\ b # Refused => b.bytes = << >>
    /\ Fails("block")
    /\ pulled' = IF b = Refused THEN pulled ELSE Append(pulled, next)

\* The device fails a read that would succeed another time.
DeviceFails ==
    /\ \/ pc = "none"
       \/ pc = "ensure" /\ Unread < want /\ ~PastLimit
    /\ Fails("device")
    /\ UNCHANGED pulled

\* ensure is satisfied: read_exact copies the bytes out and moves on.
Take ==
    /\ pc = "ensure"
    /\ Unread >= want
    /\ pc' = "ready"
    /\ delivered' = delivered \o SubSeq(window, pos + 1, pos + want)
    /\ pos' = pos + want
    /\ want' = 0
    /\ UNCHANGED <<image, start, inBlock, limit, window, next, pulled, cause, reads>>

Next ==
    \/ New
    \/ NewFails
    \/ \E n \in Lengths : ReadExact(n)
    \/ Refill
    \/ RefillPastLimit
    \/ RefillFails
    \/ DeviceFails
    \/ Take

Spec == Init /\ [][Next]_vars

\* The cursor runs on its caller's thread: a read_exact that is entered goes
\* on until it returns.
FairSpec == Spec /\ WF_vars(Refill \/ RefillPastLimit \/ RefillFails \/ Take)

-----------------------------------------------------------------------------

Open == pc \in {"ready", "ensure"}

\* What the blocks pulled so far decode to, one after another.
Stream == FlattenSeq([i \in 1..Len(pulled) |-> ReadBlock(image, pulled[i]).bytes])

\* A cursor is a flat reader: what it has handed out, followed by what it
\* still holds, is the run of consecutive blocks from the reference on,
\* nothing skipped, repeated or reordered at a block boundary.
DeliversStream ==
    Open =>
        /\ delivered \o SubSeq(window, pos + 1, Len(window))
               = SubSeq(Stream, inBlock + 1, Len(Stream))
        /\ \A i \in 1..Len(pulled) :
               (IF i = Len(pulled) THEN next ELSE pulled[i + 1])
                   = pulled[i] + 2 + image[pulled[i]].size

\* A block pulled after the first starts before the limit, so a listing that
\* declares too many bytes stops at the end of its table.
RefillsWithinLimit ==
    limit # NoLimit => \A i \in 2..Len(pulled) : pulled[i] < limit

\* with_limit: "Refuse to pull a block starting at or past `end_abs`", and
\* read_dir: a listing is "BOUNDED BY THE DIRECTORY TABLE".
PullsWithinLimit ==
    limit # NoLimit => \A i \in 1..Len(pulled) : pulled[i] < limit

\* No refill gets past this offset.
Stops(abs) ==
    \/ limit # NoLimit /\ abs >= limit
    \/ ReadBlock(image, abs) = Refused
    \/ ReadBlock(image, abs).bytes = << >>

\* The bytes that up to n blocks from `abs` on hold before they stop.
Held[n \in Nat] ==
    [abs \in Nat |->
        IF n = 0 \/ Stops(abs) THEN 0
        ELSE LET b == ReadBlock(image, abs) IN Len(b.bytes) + Held[n - 1][b.next]]

\* The limit costs no reader a byte it should have: a read is refused only
\* when the blocks before the limit, or before the first bad one, do not
\* hold what it asks for.
RefusesOnlyWhatIsMissing ==
    pc = "failed" /\ cause \in {"limit", "block"}
        => LET b == ReadBlock(image, start) IN
           Len(b.bytes) + Held[Cardinality(DOMAIN image)][b.next] < inBlock + Len(delivered) + want

\* Every read_exact ends: each refill moves on through an image that ends.
ReadsEnd == pc = "ensure" ~> pc \in {"ready", "failed"}

=============================================================================
