------------------------------ MODULE XzStream ------------------------------
(***************************************************************************)
(* Decoding one .xz block of an image: decompress_xz of decompress.rs,     *)
(* which chooses the decoder, and xz.rs, which decodes a stream with a     *)
(* converter in front of LZMA2.  A stream arrives as some writer made it,  *)
(* or with one byte changed, cut short, or zeros after it.                 *)
(*                                                                         *)
(* External: the LZMA2 payload, of which only verbatim chunks are decoded  *)
(* (a packed chunk is damage here), and the checksums, which are           *)
(* constants.  What lzma_rs buffers of a block before it writes it to the  *)
(* sink is its own and not modelled: a chunk is written as it is read.     *)
(* SHA-256 is never computed.                                              *)
(***************************************************************************)
EXTENDS Bcj

CONSTANTS
    Originals,      \* streams as written: [stream, plain, check, filtered, faulty]
    ByteValues,     \* what a damaged byte may become
    Crc32(_),       \* four bytes
    Crc64(_),       \* eight bytes
    VarintBytes,    \* the longest varint: 9 in the code
    MaxOuts(_)      \* what callers allow an original's output to take

\* Streams are bytes, whatever they hold; what a caller allows is a usize.
ASSUME StreamsAssumption ==
    /\ \A o \in Originals : o.stream \in Seq(0..255) /\ MaxOuts(o) \subseteq Nat
    /\ ByteValues \subseteq 0..255
    /\ VarintBytes \in Nat

VARIABLES
    source,    \* the original
    stream,    \* the bytes that arrived
    maxOut,    \* the caller's bound on the output
    stage,     \* the stage of the decode
    pos,       \* the offset of the block being read
    block,     \* the block being read
    records,   \* what the index must repeat
    cursor,    \* the parse position of a header or of the index
    out        \* the blocks decoded

\* buf of Bcj is the sink of the block's payload.
xzVars == <<source, stream, maxOut, stage, pos, block, records, cursor, out, buf, bcj, scan>>

Magic == <<253, 55, 122, 88, 90, 0>>
FilterLzma2 == 33
Absent == -1
NoBlock == [header |-> 0, flags |-> 0, compressed |-> Absent, plain |-> Absent, left |-> 0]

Byte(s, at) == s[at + 1]
Holds(s, at, n) == at + n <= Len(s)
Slice(s, at, n) == SubSeq(s, at + 1, at + n)
ZeroBytes(n) == [k \in 1..n |-> 0]
AllZero(s) == \A k \in DOMAIN s : s[k] = 0
Padding(n) == (4 - (n % 4)) % 4
Little(b) == b[1] + (b[2] * 2^8) + (b[3] * 2^16) + ((b[4] % 4) * 2^24)

Arrivals(original) ==
    LET s == original.stream IN
    IF ~original.faulty THEN {s}
    ELSE {s} \cup {SubSeq(s, 1, n) : n \in 0..Len(s)}
             \cup {s \o ZeroBytes(n) : n \in 1..4}
             \cup UNION {{[s EXCEPT ![k] = v] : v \in ByteValues} : k \in DOMAIN s}

XzInit ==
    /\ source \in Originals
    /\ stream \in Arrivals(source)
    /\ maxOut \in MaxOuts(source)
    /\ stage = "dispatch" /\ pos = 12 /\ cursor = 0 /\ block = NoBlock
    /\ records = <<>> /\ out = <<>> /\ buf = <<>>
    /\ bcj = Unfiltered /\ scan = ScanStart

Unconverted == UNCHANGED <<buf, bcj, scan>>

----------------------------------------------------------------------------
(* What can be read at an offset is the set of its readings: one, or none. *)

\* Seven bits a byte, the last byte the most significant; `high` is what the
\* last k bytes of n stand for.
VarintValue(s, at, n) ==
    LET high[k \in 0..n] ==
          IF k = 0 THEN 0 ELSE (s[at + (n - k) + 1] % 128) + (128 * high[k - 1])
    IN  high[n]

\* varint: minimal, so a last byte of zero is refused unless it is the only one.
Varint(s, at) ==
    {[at |-> at + n, value |-> VarintValue(s, at, n)] :
        n \in {m \in 1..VarintBytes :
                  /\ Holds(s, at, m)
                  /\ \A k \in 1..(m - 1) : s[at + k] >= 128
                  /\ s[at + m] < 128
                  /\ m > 1 => s[at + m] # 0}}

\* A size field that the flags may leave out.
SizeField(s, at, present) ==
    IF present THEN Varint(s, at) ELSE {[at |-> at, value |-> Absent]}

----------------------------------------------------------------------------
(* The stages.  Each has what it requires, and what it does once that      *)
(* holds; a stage that finds otherwise refuses the stream.                 *)

\* has_filters: whether the first block names more than LZMA2.
HasFilters(s) ==
    /\ Holds(s, 12, 2)
    /\ Slice(s, 0, 6) = Magic
    /\ Byte(s, 12) # 0
    /\ Byte(s, 13) % 4 # 0

\* decompress_xz: a stream without filters is left to lzma_rs.
Dispatch ==
    /\ stage = "dispatch"
    /\ stage' = IF HasFilters(stream) THEN "header" ELSE "plain"
    /\ Unconverted /\ UNCHANGED <<source, stream, maxOut, pos, block, records, cursor, out>>

HeaderFlags == Slice(stream, 6, 2)
Check == Byte(stream, 7) % 16

CheckLengths ==
    [check \in {0, 1, 4, 10} |->
        CASE check = 0 -> 0 [] check = 1 -> 4 [] check = 4 -> 8 [] check = 10 -> 32]

HeaderIsSound ==
    /\ Holds(stream, 0, 12)
    /\ Slice(stream, 0, 6) = Magic
    /\ Crc32(HeaderFlags) = Slice(stream, 8, 4)
    /\ Byte(stream, 6) = 0
    /\ Check \in DOMAIN CheckLengths

\* decompress_with, up to its loop.
StreamHeader ==
    /\ stage = "header"
    /\ HeaderIsSound
    /\ stage' = "block"
    /\ Unconverted /\ UNCHANGED <<source, stream, maxOut, pos, block, records, cursor, out>>

HeaderLength == (Byte(stream, pos) + 1) * 4
BlockFlags == Byte(stream, pos + 1)
Body == Slice(stream, pos, block.header - 4)

AtBlock == stage = "block" /\ Holds(stream, pos, 1) /\ Byte(stream, pos) # 0
AtIndex == stage = "block" /\ Holds(stream, pos, 1) /\ Byte(stream, pos) = 0

BlockHeaderIsWhole ==
    /\ Holds(stream, pos, HeaderLength)
    /\ Crc32(Slice(stream, pos, HeaderLength - 4))
         = Slice(stream, pos + HeaderLength - 4, 4)
    /\ Field(BlockFlags, 2, 4) = 0

Sizes(body) ==
    UNION {{[compressed |-> c.value, plain |-> u.value, at |-> u.at] :
                u \in SizeField(body, c.at, Bit(BlockFlags, 7) = 1)} :
           c \in SizeField(body, 2, Bit(BlockFlags, 6) = 1)}

BlockHeaders ==
    IF BlockHeaderIsWhole THEN Sizes(Slice(stream, pos, HeaderLength - 4)) ELSE {}

\* A block's header, up to its filters.
BlockHeader ==
    /\ AtBlock
    /\ \E sizes \in BlockHeaders :
       /\ block' = [header |-> HeaderLength, flags |-> BlockFlags,
                    compressed |-> sizes.compressed, plain |-> sizes.plain,
                    left |-> (BlockFlags % 4) + 1]
       /\ cursor' = sizes.at
    /\ stage' = "filters" /\ bcj' = Unfiltered
    /\ UNCHANGED <<source, stream, maxOut, pos, records, out, buf, scan>>

FiltersAt(body, at) ==
    UNION {{[id |-> id.value, props |-> Slice(body, n.at, n.value), at |-> n.at + n.value] :
                n \in {m \in Varint(body, id.at) : Holds(body, m.at, m.value)}} :
           id \in Varint(body, at)}

ConverterIds ==
    (4 :> "x86") @@ (5 :> "powerpc") @@ (6 :> "ia64")
        @@ (7 :> "arm") @@ (8 :> "armthumb") @@ (9 :> "sparc")

\* The last filter is LZMA2 with its dictionary code, and any before it is
\* the one converter, with a start offset or without.
FilterIsSound(f) ==
    IF block.left = 1
    THEN f.id = FilterLzma2 /\ Len(f.props) = 1 /\ f.props[1] <= 40
    ELSE f.id \in DOMAIN ConverterIds /\ bcj = Unfiltered /\ Len(f.props) \in {0, 4}

SoundFilters == {f \in FiltersAt(Body, cursor) : FilterIsSound(f)}

\* Bcj::from_id, and the offset its properties give.
Converter(id, props) ==
    [kind |-> ConverterIds[id], start |-> IF props = <<>> THEN 0 ELSE Little(props)]

\* One filter of the chain.
ReadFilter ==
    /\ stage = "filters" /\ block.left > 0
    /\ \E f \in SoundFilters :
       /\ bcj' = IF block.left = 1 THEN bcj ELSE Converter(f.id, f.props)
       /\ cursor' = f.at
    /\ block' = [block EXCEPT !.left = @ - 1]
    /\ UNCHANGED <<source, stream, maxOut, stage, pos, records, out, buf, scan>>

DataStart == pos + block.header

PayloadIsPresent ==
    /\ AllZero(Slice(Body, cursor, Len(Body) - cursor))
    /\ Holds(stream, DataStart, IF block.compressed = Absent THEN 0 ELSE block.compressed)

\* The header's padding, and the payload as far as the header says it goes.
BeginPayload ==
    /\ stage = "filters" /\ block.left = 0
    /\ PayloadIsPresent
    /\ stage' = "payload" /\ cursor' = 0 /\ buf' = <<>>
    /\ UNCHANGED <<source, stream, maxOut, pos, block, records, out, bcj, scan>>

----------------------------------------------------------------------------
(* The payload.  Its chunks are lzma_rs's; the sink they are written to    *)
(* is Capped.                                                              *)

Payload ==
    Slice(stream, DataStart,
          IF block.compressed = Absent THEN Len(stream) - DataStart ELSE block.compressed)

ChunkLength == (Byte(Payload, cursor + 1) * 256) + Byte(Payload, cursor + 2) + 1

AtChunk ==
    /\ Holds(Payload, cursor, 3)
    /\ Byte(Payload, cursor) \in 1..2
    /\ Holds(Payload, cursor + 3, ChunkLength)

\* Mutant: the sink allows each block what the caller allows them all.
SinkLimitPerBlock == maxOut + 1

\* Capped's limit: one byte past what is left of the caller's bound.
SinkLimit ==
    (IF Len(out) > maxOut THEN 0 ELSE maxOut - Len(out)) + 1

\* Capped::write, with the next chunk of the payload.
Chunk ==
    /\ stage = "payload"
    /\ AtChunk
    /\ Len(buf) + ChunkLength <= SinkLimit
    /\ buf' = buf \o Slice(Payload, cursor + 3, ChunkLength)
    /\ cursor' = cursor + 3 + ChunkLength
    /\ UNCHANGED <<source, stream, maxOut, stage, pos, block, records, out, bcj, scan>>

AtPayloadEnd == Holds(Payload, cursor, 1) /\ Byte(Payload, cursor) = 0

Consumed == cursor + 1
PaddingAt == DataStart + Consumed
CheckAt == PaddingAt + Padding(block.header + Consumed)
CheckLength == CheckLengths[Check]

\* The sizes the header declared, the caller's bound, the padding to four
\* bytes, and room for the check.
PayloadIsSound ==
    /\ block.compressed \in {Absent, Consumed}
    /\ block.plain \in {Absent, Len(buf)}
    /\ Len(out) + Len(buf) <= maxOut
    /\ Holds(stream, PaddingAt, CheckAt - PaddingAt)
    /\ AllZero(Slice(stream, PaddingAt, CheckAt - PaddingAt))
    /\ Holds(stream, CheckAt, CheckLength)

\* Mutant: the padding is counted in.
RecordPadded(length) == [unpadded |-> CheckAt - pos + CheckLength, plain |-> length]

\* A block's (unpadded size, uncompressed size) as the index must repeat it.
Record(length) ==
    [unpadded |-> block.header + Consumed + CheckLength, plain |-> length]

\* The payload's end, up to the converter.
EndPayload ==
    /\ stage = "payload"
    /\ AtPayloadEnd
    /\ PayloadIsSound
    /\ records' = Append(records, Record(Len(buf)))
    /\ cursor' = CheckAt
    /\ stage' = "convert" /\ scan' = ScanStart
    /\ UNCHANGED <<source, stream, maxOut, pos, block, out, buf, bcj>>

\* decode: the converter runs over the whole block.
Convert ==
    /\ stage = "convert"
    /\ ConvertStep
    /\ UNCHANGED <<source, stream, maxOut, stage, pos, block, records, cursor, out, bcj>>

\* Mutant: a check of eight bytes is skipped like one that is absent.
CheckMatchesShort ==
    CASE Check = 1  -> Slice(stream, cursor, CheckLength) = Crc32(buf)
      [] Check = 10 -> FALSE
      [] OTHER      -> TRUE

\* The check is over the converted bytes; SHA-256 is refused.
CheckMatches ==
    LET stored == Slice(stream, cursor, CheckLength) IN
    CASE Check = 0  -> TRUE
      [] Check = 1  -> stored = Crc32(buf)
      [] Check = 4  -> stored = Crc64(buf)
      [] Check = 10 -> FALSE

\* A block is done, and the next begins after its check.
EndBlock ==
    /\ stage = "convert" /\ Converted
    /\ CheckMatches
    /\ out' = out \o buf /\ buf' = <<>>
    /\ pos' = cursor + CheckLength
    /\ stage' = "block" /\ block' = NoBlock
    /\ UNCHANGED <<source, stream, maxOut, records, cursor, bcj, scan>>

----------------------------------------------------------------------------
(* The index and the footer: check_index_and_footer.                       *)

Trailer == Slice(stream, pos, Len(stream) - pos)

IndexCounts == {n \in Varint(Trailer, 1) : n.value = Len(records)}

\* The index's count of the blocks.
BeginIndex ==
    /\ AtIndex
    /\ \E n \in IndexCounts : cursor' = n.at
    /\ block' = [block EXCEPT !.left = Len(records)]
    /\ stage' = "index"
    /\ Unconverted /\ UNCHANGED <<source, stream, maxOut, pos, records, out>>

\* The record at the cursor, where it is what the block's decode recorded.
MatchingRecords ==
    LET r == records[Len(records) - block.left + 1] IN
    UNION {{u \in Varint(Trailer, n.at) : u.value = r.plain} :
           n \in {m \in Varint(Trailer, cursor) : m.value = r.unpadded}}

\* One record of the index.
IndexRecord ==
    /\ stage = "index" /\ block.left > 0
    /\ \E r \in MatchingRecords : cursor' = r.at
    /\ block' = [block EXCEPT !.left = @ - 1]
    /\ Unconverted /\ UNCHANGED <<source, stream, maxOut, stage, pos, records, out>>

IndexCrcAt == cursor + Padding(cursor)
IndexLength == IndexCrcAt + 4
Footer == Slice(Trailer, IndexLength, 12)

\* The footer's backward size for an index of this length, in fours less one.
BackwardSize(length) ==
    LET fours == (length \div 4) - 1 IN
    [k \in 1..4 |-> Field(fours, 8 * (k - 1), 8)]

\* Stream padding: zero bytes, in fours.
IsStreamPadding(s) == Len(s) % 4 = 0 /\ AllZero(s)

FooterIsSound ==
    /\ Holds(Trailer, IndexLength, 12)
    /\ Slice(Footer, 10, 2) = <<89, 90>>
    /\ Crc32(Slice(Footer, 4, 6)) = Slice(Footer, 0, 4)
    /\ Slice(Footer, 8, 2) = HeaderFlags
    /\ Slice(Footer, 4, 4) = BackwardSize(IndexLength)
    /\ IsStreamPadding(Slice(Trailer, IndexLength + 12, Len(Trailer) - IndexLength - 12))

IndexIsSound ==
    /\ Holds(Trailer, cursor, IndexLength - cursor)
    /\ AllZero(Slice(Trailer, cursor, Padding(cursor)))
    /\ Crc32(Slice(Trailer, 0, IndexCrcAt)) = Slice(Trailer, IndexCrcAt, 4)

\* The end of the stream.
EndStream ==
    /\ stage = "index" /\ block.left = 0
    /\ IndexIsSound /\ FooterIsSound
    /\ stage' = "ok"
    /\ Unconverted /\ UNCHANGED <<source, stream, maxOut, pos, block, records, cursor, out>>

----------------------------------------------------------------------------

\* What a stage finds that is not as it must be.
Damaged ==
    \/ stage = "header" /\ ~HeaderIsSound
    \/ stage = "block" /\ ~Holds(stream, pos, 1)
    \/ AtBlock /\ BlockHeaders = {}
    \/ stage = "filters" /\ block.left > 0 /\ SoundFilters = {}
    \/ stage = "filters" /\ block.left = 0 /\ ~PayloadIsPresent
    \/ stage = "payload" /\ ~AtChunk /\ ~AtPayloadEnd
    \/ stage = "payload" /\ AtChunk /\ Len(buf) + ChunkLength > SinkLimit
    \/ stage = "payload" /\ AtPayloadEnd /\ ~PayloadIsSound
    \/ stage = "convert" /\ Converted /\ ~CheckMatches
    \/ AtIndex /\ IndexCounts = {}
    \/ stage = "index" /\ block.left > 0 /\ MatchingRecords = {}
    \/ stage = "index" /\ block.left = 0 /\ ~(IndexIsSound /\ FooterIsSound)

\* Every refusal is BadMetadata, whatever the reason.
Refuse ==
    /\ Damaged
    /\ stage' = "refused"
    /\ Unconverted /\ UNCHANGED <<source, stream, maxOut, pos, block, records, cursor, out>>

XzNext ==
    \/ Dispatch \/ StreamHeader \/ BlockHeader \/ ReadFilter \/ BeginPayload
    \/ Chunk \/ EndPayload \/ Convert \/ EndBlock
    \/ BeginIndex \/ IndexRecord \/ EndStream \/ Refuse

\* The decode is one call on one thread, which nothing else waits for.
XzSpec == XzInit /\ [][XzNext]_xzVars /\ WF_xzVars(XzNext)

----------------------------------------------------------------------------
(* Properties.                                                             *)

\* A stream that is accepted is the one that was written: whatever byte of
\* it was changed, wherever it was cut, decompress_with answers the bytes it
\* was made from or refuses it.  Without a check a changed payload byte can
\* pass, but never one byte more or less than was written.
AcceptsOnlyTheOriginal ==
    stage = "ok" => /\ Len(out) = Len(source.plain)
                    /\ source.check # 0 => out = source.plain

\* A whole stream with a converter is decoded, never refused and never left
\* to the decoder that cannot read it, when it fits what the caller allows
\* and its check is one decompress_with computes.
AcceptsTheOriginal ==
    (/\ stream = source.stream
     /\ source.filtered
     /\ source.check # 10
     /\ maxOut >= Len(source.plain)) => stage \notin {"refused", "plain"}

\* However many blocks a stream has and whatever their headers say, what xz.rs
\* holds of its output, the blocks done and the sink of the one in progress
\* together, is never more than one byte past the caller's bound.  (What
\* lzma_rs keeps before it writes to the sink is not counted.)
OutputCapped ==
    Len(out) + Len(buf) <= maxOut + 1

\* Every decode ends.  The inner loop of x86 has no count: that it stops
\* rests on the byte looked at before it is entered.
DecodeEnds ==
    <>(stage \in {"ok", "refused", "plain"})

=============================================================================
