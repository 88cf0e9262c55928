----------------------------- MODULE MCXzStream -----------------------------
(***************************************************************************)
(* Streams as a writer makes them, for XzStream.  The converters run       *)
(* forward here: for the unit converters and Thumb by moving the branches  *)
(* the other way, for x86 by liblzma's own encoder, whose bookkeeping is   *)
(* not that of the decoder in xz.rs.                                       *)
(***************************************************************************)
EXTENDS XzStream

CONSTANTS
    X86Bytes,      \* the bytes of the x86 contents
    X86Length      \* and their length

Weighted(s, by) ==
    LET sum[k \in 0..Len(s)] ==
          IF k = 0 THEN 0 ELSE sum[k - 1] + (s[k] * (1 + ((by * k) % 250)))
    IN  sum[Len(s)]

\* A checksum that any one changed byte changes, as a CRC is.
Sum32(s) == <<Weighted(s, 0) % 251, Weighted(s, 1) % 251, Len(s) % 251, Weighted(s, 3) % 256>>
Sum64(s) == Sum32(s) \o Sum32(Reverse(s))
MCCrc32(s) == Sum32(s)
MCCrc64(s) == Sum64(s)

\* Thumb, forward.
ThumbEncoded(bytes, start) ==
    LET f[i \in 0..Len(bytes)] ==
          IF i > Len(bytes) - 4 THEN <<>>
          ELSE IF bytes[i + 2] \div 8 = 30 /\ bytes[i + 4] \div 8 = 31
               THEN <<i>> \o f[i + 4]
               ELSE f[i + 2]
        g[n \in 0..Len(f[0])] ==
          IF n = 0 THEN bytes
          ELSE ThumbMoved(g[n - 1], f[0][n], start + f[0][n] + 4)
    IN  IF Len(bytes) < 4 THEN bytes ELSE g[Len(f[0])]

\* liblzma's x86 encoder.  Its mask has a bit for each of the last five
\* bytes and, above it, whether the byte four on was 0 or 255.
X86Encoded(bytes, start) ==
    LET n == Len(bytes)
        Held(m) == ~((m \div 2) <= 4 /\ (m \div 2) # 3)
        Bits(m) == CASE m \div 2 = 0 -> 0 [] m \div 2 = 1 -> 1
                     [] m \div 2 \in 2..3 -> 2 [] OTHER -> 3
        Shift(m, by) ==   \* by times: keep bits 0-2 and 4-6, then double
          LET h[k \in 0..by] == IF k = 0 THEN m
                ELSE ((h[k - 1] % 8) + (((h[k - 1] \div 16) % 8) * 16)) * 2
          IN  h[by]
        Turn(src, i, m) ==
          LET low == 2^(32 - (8 * Bits(m)))
              dest(x) == (x + start + i + 5) % 2^25
              d1 == dest(src)
              d2 == dest(d1 - (d1 % low) + (low - 1 - (d1 % low)))
          IN  IF m # 0 /\ MsByte(Field(d1, 24 - (8 * Bits(m)), 8)) THEN d2 ELSE d1
        f[k \in 0..n] ==      \* the state after k steps: [i, prev, m, b]
          IF k = 0 THEN [i |-> 0, prev |-> -5, m |-> 0, b |-> bytes]
          ELSE LET z == f[k - 1] IN
            IF z.i > n - 5 THEN z
            ELSE IF ~IsCall(z.b[z.i + 1]) THEN [z EXCEPT !.i = @ + 1]
            ELSE LET off == z.i - z.prev
                     m == IF off > 5 THEN 0 ELSE Shift(z.m, off)
                     top == z.b[z.i + 5]
                     src == z.b[z.i + 2] + z.b[z.i + 3] * 2^8 + z.b[z.i + 4] * 2^16
                              + (top % 2) * 2^24
                     d == Turn(src, z.i, m)
                 IN IF MsByte(top) /\ ~Held(m)
                    THEN [i |-> z.i + 5, prev |-> z.i, m |-> 0,
                          b |-> [z.b EXCEPT ![z.i + 2] = Field(d, 0, 8),
                                            ![z.i + 3] = Field(d, 8, 8),
                                            ![z.i + 4] = Field(d, 16, 8),
                                            ![z.i + 5] = 255 * Bit(d, 24)]]
                    ELSE [z EXCEPT !.i = @ + 1, !.prev = z.i,
                                   !.m = m + 1 + (IF MsByte(top) THEN 16 ELSE 0)]
    IN  f[n].b

Encoded(kind, bytes, start) ==
    CASE kind = "none"     -> bytes
      [] kind = "x86"      -> X86Encoded(bytes, start)
      [] kind = "armthumb" -> ThumbEncoded(bytes, start)
      [] OTHER             -> InUnits(kind, bytes, start, 1)

----------------------------------------------------------------------------
(* The container.                                                          *)

Varints(n) == IF n < 128 THEN <<n>> ELSE <<128 + (n % 128), n \div 128>>

Le32(n) == [k \in 1..4 |-> Field(n, 8 * (k - 1), 8)]

\* LZMA2 in verbatim chunks of at most this many bytes.
Chunked(bytes, size) ==
    LET count == (Len(bytes) + size - 1) \div size
        chunk(k) ==
          LET c == SubSeq(bytes, size * (k - 1) + 1, IF k = count THEN Len(bytes) ELSE size * k) IN
          <<IF k = 1 THEN 1 ELSE 2, (Len(c) - 1) \div 256, (Len(c) - 1) % 256>> \o c
    IN  FlattenSeq([k \in 1..count |-> chunk(k)]) \o <<0>>

IdOf(kind) ==
    CHOOSE id \in DOMAIN ConverterIds : ConverterIds[id] = kind

\* A block: its converter, where the converter starts (0 is left out), the
\* sizes its header declares and the chunks of its payload.
Block(kind, start, plain, sized, chunk) ==
    [kind |-> kind, start |-> start, plain |-> plain, sized |-> sized, chunk |-> chunk]

\* A stream to be written: its check, its blocks, and whether it may arrive
\* damaged.
Plan(check, blocks, faulty) ==
    [check |-> check, blocks |-> blocks, faulty |-> faulty,
     filtered |-> blocks[1].kind # "none"]

Each(plan, F(_)) == [plan EXCEPT !.blocks = [k \in DOMAIN @ |-> F(@[k])]]

WithPayload(b) ==
    [kind |-> b.kind, start |-> b.start, plain |-> b.plain, sized |-> b.sized,
     payload |-> Chunked(Encoded(b.kind, b.plain, b.start), b.chunk)]

Chain(b) ==
    (IF b.kind = "none" THEN <<>>
     ELSE <<IdOf(b.kind)>> \o (IF b.start = 0 THEN <<0>> ELSE <<4>> \o Le32(b.start)))
        \o <<FilterLzma2, 1, 22>>

WithHeader(b) ==
    LET flags == (IF b.sized THEN 192 ELSE 0) + (IF b.kind = "none" THEN 0 ELSE 1)
        sizes == IF b.sized THEN Varints(Len(b.payload)) \o Varints(Len(b.plain)) ELSE <<>>
        fields == <<flags>> \o sizes \o Chain(b)
        padded == fields \o ZeroBytes(Padding(Len(fields) + 1))
    IN  [plain |-> b.plain, payload |-> b.payload,
         header |-> <<(Len(padded) + 1) \div 4>> \o padded]

CheckOf(check, plain) ==
    CASE check = 1  -> MCCrc32(plain)
      [] check = 4  -> MCCrc64(plain)
      [] OTHER      -> ZeroBytes(CheckLengths[check])

BlockBytes(b, check) ==
    b.header \o MCCrc32(b.header) \o b.payload
        \o ZeroBytes(Padding(Len(b.header) + Len(b.payload))) \o CheckOf(check, b.plain)

UnpaddedSize(b, check) == Len(b.header) + 4 + Len(b.payload) + CheckLengths[check]

WithIndex(plan) ==
    LET index == <<0>> \o Varints(Len(plan.blocks))
                   \o FlattenSeq([k \in DOMAIN plan.blocks |->
                         Varints(UnpaddedSize(plan.blocks[k], plan.check))
                           \o Varints(Len(plan.blocks[k].plain))])
    IN  [check |-> plan.check, blocks |-> plan.blocks, faulty |-> plan.faulty,
         filtered |-> plan.filtered,
         index |-> index \o ZeroBytes(Padding(Len(index)))]

FooterBytes(length, check) ==
    LET f == BackwardSize(length) \o <<0, check>> IN MCCrc32(f) \o f \o <<89, 90>>

\* The stream of a plan whose parts are laid out.
Written(plan) ==
    [plain    |-> FlattenSeq([k \in DOMAIN plan.blocks |-> plan.blocks[k].plain]),
     check    |-> plan.check,
     faulty   |-> plan.faulty,
     filtered |-> plan.filtered,
     stream   |-> Magic \o <<0, plan.check>> \o MCCrc32(<<0, plan.check>>)
                    \o FlattenSeq([k \in DOMAIN plan.blocks |->
                                     BlockBytes(plan.blocks[k], plan.check)])
                    \o plan.index \o MCCrc32(plan.index)
                    \o FooterBytes(Len(plan.index) + 4, plan.check)]

----------------------------------------------------------------------------
(* The instances.                                                          *)

\* Code with a branch in it, and a rest shorter than a unit.
ArmCode == <<9, 0, 0, 235, 1, 2>>
PowerPcCode == <<72, 0, 1, 1, 75, 255, 255, 253, 9>>
SparcCode == <<64, 0, 0, 5, 127, 255, 255, 254, 127, 192, 0, 1>>
\* Bundles of three branches and of one, by template.
Ia64Code(template) ==
    <<template, 0, 64, 1, 0, 160, 0, 128, 2, 0, 0, 80, 0, 0, 5, 80>>
ThumbCode == <<1, 240, 2, 248, 3, 240, 255, 251, 4, 247, 5, 248, 6>>
X86Code == <<232, 1, 0, 0, 0, 144>>

\* Streams that may arrive damaged: every check, one block and two, sizes
\* declared or not, one chunk or several, a start offset or none, and a
\* stream that is not for this decoder.
Faulty == {
    Plan(1,  <<Block("x86", 0, X86Code, FALSE, 6)>>, TRUE),
    Plan(4,  <<Block("arm", 0, ArmCode, TRUE, 4)>>, TRUE),
    Plan(0,  <<Block("x86", 4096, X86Code, TRUE, 9)>>, TRUE),
    Plan(10, <<Block("sparc", 0, SubSeq(SparcCode, 1, 4), FALSE, 9)>>, TRUE),
    Plan(1,  <<Block("powerpc", 0, SubSeq(PowerPcCode, 1, 5), TRUE, 9),
               Block("none", 0, <<7, 8, 9, 6, 5, 4>>, FALSE, 2)>>, TRUE),
    Plan(1,  <<Block("none", 0, <<7, 8>>, FALSE, 2)>>, TRUE)}

\* The format has a start offset be a multiple of the unit.
Starts == {0, 16, 65536, 2^24 + 16}

\* Each converter over code made for it.
Codes ==
    {Plan(1, <<Block(code[1], start, code[2], FALSE, 20)>>, FALSE) :
        start \in Starts,
        code \in {<<"arm", ArmCode>>, <<"powerpc", PowerPcCode>>, <<"sparc", SparcCode>>,
                  <<"armthumb", ThumbCode>>, <<"armthumb", SubSeq(ThumbCode, 1, 3)>>}
                 \cup {<<"ia64", Ia64Code(t)>> : t \in {0, 16, 18, 22}}}

\* Offsets that carry into the second and the third byte of an address.
X86Starts == {0, 251 * 2^8, 251 * 2^16}

\* And x86 over every arrangement of these bytes, calls that overlap and
\* calls that look like addresses among them.
X86Contents ==
    {Plan(1, <<Block("x86", start, <<232>> \o code, FALSE, 20)>>, FALSE) :
        code \in [1..X86Length -> X86Bytes], start \in X86Starts}

\* Three calls that overlap and a fourth that reaches back to the third.
X86Overlaps ==
    {Plan(1, <<Block("x86", start, <<232, 232, 232>> \o SubSeq(code, 1, 2) \o <<232>>
                                \o SubSeq(code, 3, 6), FALSE, 20)>>, FALSE) :
        code \in [1..6 -> X86Bytes \ {232}], start \in {0, 246}}

\* Laid out part by part.
MCOriginals ==
    {Written(p) : p \in
       {WithIndex(p) : p \in
          {Each(p, WithHeader) : p \in
             {Each(p, WithPayload) : p \in Faulty \cup Codes \cup X86Contents \cup X86Overlaps}}}}

MCByteValues == {0, 1, 255}

\* Half of what it takes, one byte less than it takes, and what it takes.
MCMaxOuts(o) == {Len(o.plain) \div 2, Len(o.plain) - 1, Len(o.plain)}

=============================================================================
