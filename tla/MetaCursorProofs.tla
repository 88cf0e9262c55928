-------------------------- MODULE MetaCursorProofs --------------------------
(***************************************************************************)
(* Proofs about MetaCursor, for every image, reference, limit and run of   *)
(* reads: the bytes it hands out are those of the consecutive blocks, no   *)
(* refill passes the limit, and it refuses only a read that those blocks   *)
(* cannot serve.                                                           *)
(***************************************************************************)
EXTENDS MetaCursor, SequenceLemmas

Byte == Nat \X Nat

\* What the window still holds.
Rest == SubSeq(window, pos + 1, Len(window))

\* Before a cursor is made there is nothing; while there is one, its window
\* holds bytes and it has read at least the block of its reference.
Types ==
    /\ image \in Images
    /\ pc \in {"none", "ready", "ensure", "failed"}
    /\ inBlock \in Nat
    /\ limit \in Limits \cup {NoLimit}
    /\ want \in Nat
    /\ delivered \in Seq(Byte)
    /\ pc = "none" => delivered = << >> /\ pulled = << >> /\ want = 0
    /\ Open =>
          /\ window \in Seq(Byte)
          /\ pos \in 0..Len(window)
          /\ next \in Nat
          /\ pulled \in Seq(DOMAIN image)
          /\ pulled # << >>

\* A block's bytes are as many as its length says.
LEMMA BytesAreBytes ==
    ASSUME NEW abs \in Nat, NEW len \in Nat
    PROVE  BytesOf(abs, len) \in Seq(Byte) /\ Len(BytesOf(abs, len)) = len
<1>1. \A i \in 1..len : <<abs, i>> \in Byte
  BY DEF Byte
<1> QED
  BY <1>1 DEF BytesOf

\* A block that can be read is in the image, decodes to bytes of its own,
\* and is followed by one further on.
LEMMA BlockRead ==
    ASSUME Types, NEW abs, ReadBlock(image, abs) # Refused
    PROVE  LET b == ReadBlock(image, abs) IN
           /\ abs \in DOMAIN image /\ abs \in Nat
           /\ b.bytes \in Seq(Byte)
           /\ b.next = abs + 2 + image[abs].size
           /\ b.next \in Nat /\ b.next > abs
<1> USE ImagesAssumption DEF Types
<1>1. abs \in DOMAIN image /\ abs \in Nat /\ image[abs].size \in Nat
  BY DEF ReadBlock
<1>2. DecodedLength(image[abs]) \in Nat
  BY <1>1 DEF ReadBlock, DecodedLength
<1> DEFINE len == DecodedLength(image[abs])
           b == [bytes |-> BytesOf(abs, len), next |-> NextAbs(abs, image[abs].size)]
<1>3. ReadBlock(image, abs) = b
  BY DEF ReadBlock
<1>4. BytesOf(abs, len) \in Seq(Byte)
  BY <1>1, <1>2, BytesAreBytes
<1>5. b.bytes = BytesOf(abs, len) /\ b.next = abs + 2 + image[abs].size
  BY DEF NextAbs
<1> HIDE DEF b
<1> QED
  BY <1>1, <1>3, <1>4, <1>5

\* No cursor is open at first.
LEMMA InitTypes == Init => Types
BY ImagesAssumption DEF Init, Types, Open

\* Every step keeps the types, the position inside the window included.
LEMMA NextTypes == Types /\ [Next]_vars => Types'
<1> SUFFICES ASSUME Types, [Next]_vars PROVE Types'
  OBVIOUS
<1> USE DEF Types, Open
<1>1. CASE New
  BY <1>1, BlockRead DEF New
<1>2. CASE NewFails
  BY <1>2 DEF NewFails, Fails
<1>3. ASSUME NEW n \in Lengths, ReadExact(n) PROVE Types'
  BY <1>3, ImagesAssumption DEF ReadExact, cursorVars
<1>4. CASE Refill
  <2> DEFINE b == ReadBlock(image, next)
  <2>1. next \in DOMAIN image /\ b.bytes \in Seq(Byte) /\ b.next \in Nat
    BY <1>4, BlockRead DEF Refill
  <2>2. /\ pc = "ensure" /\ window' = Rest \o b.bytes /\ pos' = 0 /\ next' = b.next
        /\ pulled' = Append(pulled, next)
        /\ UNCHANGED <<image, pc, inBlock, limit, want, delivered>>
    BY <1>4 DEF Refill, Rest
  <2> HIDE DEF b
  <2>3. Rest \in Seq(Byte)
    BY <2>2 DEF Rest
  <2>4. window' \in Seq(Byte) /\ 0 \in 0..Len(window')
    BY <2>1, <2>2, <2>3, ConcatProperties, LenProperties
  <2>5. pulled' \in Seq(DOMAIN image) /\ pulled' # << >>
    BY <2>1, <2>2
  <2> QED
    BY <2>1, <2>2, <2>4, <2>5
<1>5. CASE RefillPastLimit
  BY <1>5 DEF RefillPastLimit, Fails
<1>6. CASE RefillFails
  BY <1>6 DEF RefillFails, Fails
<1>7. CASE DeviceFails
  BY <1>7 DEF DeviceFails, Fails
<1>8. CASE Take
  BY <1>8 DEF Take, Unread
<1>9. CASE UNCHANGED vars
  BY <1>9 DEF vars, cursorVars
<1> QED
  BY <1>1, <1>2, <1>3, <1>4, <1>5, <1>6, <1>7, <1>8, <1>9 DEF Next

\* How the bytes read so far grow: the first block, then one after another.
LEMMA StreamStarts ==
    ASSUME image' = image, pulled' = <<start>>
    PROVE  Stream' = ReadBlock(image, start).bytes
<1> DEFINE blocks == [i \in 1..1 |-> ReadBlock(image, <<start>>[i]).bytes]
<1>1. Len(blocks) = 1 /\ blocks[1] = ReadBlock(image, start).bytes
  OBVIOUS
<1>2. Stream' = FlattenSeq(blocks)
  BY DEF Stream
<1> HIDE DEF blocks
<1> QED
  BY <1>1, <1>2, FlattenOne

\* A refill adds its block to the stream.
LEMMA StreamGrows ==
    ASSUME pulled \in Seq(DOMAIN image), pulled # << >>, image' = image,
           NEW abs \in DOMAIN image, pulled' = Append(pulled, abs)
    PROVE  Stream' = Stream \o ReadBlock(image, abs).bytes
<1> DEFINE n == Len(pulled)
           s == [i \in 1..n |-> ReadBlock(image, pulled[i]).bytes]
           t == [i \in 1..Len(pulled') |-> ReadBlock(image, pulled'[i]).bytes]
<1>1. n \in Nat \ {0} /\ Len(pulled') = n + 1
  OBVIOUS
<1>2. Len(s) = n /\ Len(t) = n + 1
  BY <1>1
<1>3. \A i \in 1..n : t[i] = s[i]
  OBVIOUS
<1>4. t[n + 1] = ReadBlock(image, abs).bytes
  BY <1>1
<1>5. Stream = FlattenSeq(s) /\ Stream' = FlattenSeq(t)
  BY DEF Stream
<1> HIDE DEF n, s, t
<1> QED
  BY <1>1, <1>2, <1>3, <1>4, <1>5, FlattenAppend, ZenonT(60)

\* The inductive invariant: the two halves of DeliversStream, and that the
\* reference points into the blocks read.
Delivers ==
    Open =>
        /\ Stream \in Seq(Byte)
        /\ inBlock <= Len(Stream)
        /\ delivered \o Rest = SubSeq(Stream, inBlock + 1, Len(Stream))

Chained ==
    Open => \A i \in 1..Len(pulled) :
               (IF i = Len(pulled) THEN next ELSE pulled[i + 1])
                   = pulled[i] + 2 + image[pulled[i]].size

\* Nothing has been delivered at first.
LEMMA InitDelivers == Init => Delivers
BY DEF Init, Delivers, Open

\* What is left of s after k, when t is appended.
LEMMA TailOfConcat ==
    ASSUME NEW s \in Seq(Byte), NEW t \in Seq(Byte), NEW k \in 0..Len(s)
    PROVE  SubSeq(s \o t, k + 1, Len(s \o t)) = SubSeq(s, k + 1, Len(s)) \o t
<1>1. s \o t \in Seq(Byte) /\ Len(s \o t) = Len(s) + Len(t)
  BY ConcatProperties
<1> DEFINE l == SubSeq(s \o t, k + 1, Len(s \o t))
           u == SubSeq(s, k + 1, Len(s))
<1>2. u \in Seq(Byte) /\ Len(u) = Len(s) - k /\ \A i \in 1..Len(u) : u[i] = s[k + i]
  OBVIOUS
<1>3. /\ l \in Seq(Byte)
      /\ Len(l) = Len(s) + Len(t) - k
      /\ \A i \in 1..Len(l) : l[i] = (s \o t)[k + i]
  <2> HIDE DEF u
  <2> QED
    BY <1>1
<1>4. /\ u \o t \in Seq(Byte)
      /\ Len(u \o t) = Len(u) + Len(t)
      /\ \A i \in 1..(Len(u) + Len(t)) :
            (u \o t)[i] = IF i <= Len(u) THEN u[i] ELSE t[i - Len(u)]
  <2> HIDE DEF u, l
  <2> QED
    BY <1>2, ConcatProperties
<1> HIDE DEF l, u
<1>5. Len(u \o t) = Len(l)
  BY <1>2, <1>3, <1>4
<1>6. ASSUME NEW i \in 1..Len(l) PROVE l[i] = (u \o t)[i]
  <2>1. l[i] = IF k + i <= Len(s) THEN s[k + i] ELSE t[k + i - Len(s)]
    <3>1. l[i] = (s \o t)[k + i] /\ k + i \in 1..(Len(s) + Len(t))
      <4>1. l[i] = (s \o t)[k + i] /\ i \in 1..(Len(s) + Len(t) - k)
        BY <1>3
      <4> QED
        BY <4>1
    <3> QED
      BY <3>1, ConcatProperties
  <2> QED
    BY <1>2, <1>3, <1>4, <2>1
<1>7. l = u \o t
  BY <1>3, <1>4, <1>5, <1>6, SeqEqual
<1> QED
  BY <1>7 DEF l, u

\* Every step keeps what was delivered, with the window, a stretch of the stream.
LEMMA NextDelivers == Types /\ Delivers /\ [Next]_vars => Delivers'
<1> SUFFICES ASSUME Types, Delivers, [Next]_vars PROVE Delivers'
  OBVIOUS
<1>1. CASE New
  <2> DEFINE b == ReadBlock(image, start).bytes
  <2>1. b \in Seq(Byte) /\ inBlock \in 0..Len(b) /\ inBlock' = inBlock
    BY <1>1, BlockRead DEF New, Types
  <2>2. Stream' = b
    BY <1>1, StreamStarts DEF New
  <2>3. delivered' = << >> /\ Rest' = SubSeq(b, inBlock + 1, Len(b))
    BY <1>1 DEF New, Rest, Types
  <2> HIDE DEF b
  <2>4. << >> \o SubSeq(b, inBlock + 1, Len(b)) = SubSeq(b, inBlock + 1, Len(b))
    BY <2>1
  <2> QED
    BY <2>1, <2>2, <2>3, <2>4 DEF Delivers
<1>2. CASE Refill
  <2> DEFINE b == ReadBlock(image, next).bytes
  <2>1. b \in Seq(Byte) /\ next \in DOMAIN image /\ Open
    BY <1>2, BlockRead DEF Refill, Open
  <2>2. Stream' = Stream \o b
    BY <1>2, <2>1, StreamGrows DEF Refill, Types
  <2>3. Rest \in Seq(Byte) /\ delivered \in Seq(Byte)
    BY <2>1 DEF Types, Rest
  <2>4. window' = Rest \o b /\ pos' = 0 /\ delivered' = delivered /\ inBlock' = inBlock
    BY <1>2 DEF Refill, Rest
  <2> HIDE DEF b
  <2>5. Rest' = Rest \o b
    <3>1. Rest \o b \in Seq(Byte)
      BY <2>1, <2>3
    <3>2. Rest' = SubSeq(Rest \o b, 1, Len(Rest \o b))
      BY <2>4 DEF Rest
    <3> HIDE DEF Rest
    <3> QED
      BY <3>1, <3>2, SubSeqFull
  <2>6. delivered' \o Rest' = (delivered \o Rest) \o b
    <3> HIDE DEF Rest
    <3> QED
      BY <2>1, <2>3, <2>4, <2>5, ConcatAssociative
  <2>7. /\ Stream \in Seq(Byte)
        /\ inBlock \in 0..Len(Stream)
        /\ delivered \o Rest = SubSeq(Stream, inBlock + 1, Len(Stream))
    BY <2>1 DEF Delivers, Types
  <2>8. SubSeq(Stream', inBlock + 1, Len(Stream')) = (delivered \o Rest) \o b
    BY <2>1, <2>2, <2>7, TailOfConcat
  <2>9. Stream' \in Seq(Byte) /\ inBlock <= Len(Stream')
    BY <2>1, <2>2, <2>7, ConcatProperties
  <2> QED
    BY <2>4, <2>6, <2>8, <2>9 DEF Delivers
<1>3. CASE Take
  <2>1. Open /\ image' = image /\ pulled' = pulled /\ inBlock' = inBlock
    BY <1>3 DEF Take, Open
  <2>2. Stream' = Stream
    BY <2>1 DEF Stream
  <2> DEFINE d == SubSeq(window, pos + 1, pos + want)
             e == SubSeq(window, pos + want + 1, Len(window))
  <2>3. /\ window \in Seq(Byte) /\ pos \in 0..Len(window) /\ want \in 0..(Len(window) - pos)
        /\ delivered \in Seq(Byte)
    BY <1>3, <2>1 DEF Types, Take, Unread
  <2>4. delivered' = delivered \o d /\ Rest' = e
    BY <1>3 DEF Take, Rest
  <2>5. d \in Seq(Byte) /\ e \in Seq(Byte)
    BY <2>3
  <2>6. d \o e = Rest
    <3> DEFINE k == pos + want
    <3>1. pos + 1 \in 1..(Len(window) + 1) /\ k \in ((pos + 1) - 1)..Len(window)
             /\ Len(window) \in k..Len(window)
      BY <2>3
    <3> HIDE DEF k
    <3>2. SubSeq(window, pos + 1, k) \o SubSeq(window, k + 1, Len(window))
              = SubSeq(window, pos + 1, Len(window))
      BY <2>3, <3>1, ConcatAdjacentSubSeq
    <3> QED
      BY <3>2 DEF k, Rest
  <2> HIDE DEF d, e
  <2>7. (delivered \o d) \o e = delivered \o (d \o e)
    BY <2>3, <2>5, ConcatAssociative, SMTT(30)
  <2> QED
    BY <2>1, <2>2, <2>4, <2>6, <2>7 DEF Delivers
<1>4. CASE \E n \in Lengths : ReadExact(n)
  BY <1>4 DEF ReadExact, cursorVars, Delivers, Open, Rest, Stream
<1>5. CASE NewFails \/ RefillPastLimit \/ RefillFails \/ DeviceFails
  BY <1>5 DEF NewFails, RefillPastLimit, RefillFails, DeviceFails, Fails, Delivers, Open
<1>6. CASE UNCHANGED vars
  BY <1>6 DEF vars, cursorVars, Delivers, Open, Rest, Stream
<1> QED
  BY <1>1, <1>2, <1>3, <1>4, <1>5, <1>6 DEF Next

\* Every step keeps each pulled block right behind the one before.
LEMMA NextChained == Types /\ Chained /\ [Next]_vars => Chained'
<1> SUFFICES ASSUME Types, Chained, [Next]_vars PROVE Chained'
  OBVIOUS
<1> USE DEF Chained, Open
<1>1. CASE New
  BY <1>1, BlockRead DEF New
<1>2. CASE Refill
  <2>1. /\ next' = next + 2 + image[next].size
        /\ pulled \in Seq(DOMAIN image) /\ next \in DOMAIN image
        /\ image' = image /\ pulled' = Append(pulled, next)
    BY <1>2, BlockRead DEF Refill, Types
  <2> DEFINE n == Len(pulled)
  <2>2. n \in Nat /\ Len(pulled') = n + 1 /\ pulled'[n + 1] = next
        /\ \A i \in 1..n : pulled'[i] = pulled[i]
    BY <2>1
  <2>3. \A i \in 1..n :
           (IF i = n THEN next ELSE pulled[i + 1]) = pulled[i] + 2 + image[pulled[i]].size
    BY <1>2 DEF Refill
  <2> HIDE DEF n
  <2>4. ASSUME NEW i \in 1..(n + 1)
        PROVE  (IF i = n + 1 THEN next' ELSE pulled'[i + 1])
                   = pulled'[i] + 2 + image[pulled'[i]].size
    <3>1. CASE i = n + 1
      BY <2>1, <2>2, <3>1
    <3>2. CASE i = n /\ i # n + 1
      BY <2>2, <2>3, <3>2
    <3>3. CASE i \in 1..n /\ i # n
      <4>1. i + 1 \in 1..n /\ i # n + 1
        BY <2>2, <3>3
      <4> QED
        BY <2>2, <2>3, <3>3, <4>1
    <3> QED
      BY <2>2, <3>1, <3>2, <3>3
  <2> QED
    BY <2>1, <2>2, <2>4
<1>3. CASE Take \/ \E n \in Lengths : ReadExact(n)
  BY <1>3 DEF Take, ReadExact, cursorVars
<1>4. CASE NewFails \/ RefillPastLimit \/ RefillFails \/ DeviceFails
  BY <1>4 DEF NewFails, RefillPastLimit, RefillFails, DeviceFails, Fails
<1>5. CASE UNCHANGED vars
  BY <1>5 DEF vars, cursorVars
<1> QED
  BY <1>1, <1>2, <1>3, <1>4, <1>5 DEF Next

\* A flat reader: nothing skipped, repeated or reordered where one block
\* ends and the next begins, however reads fall across that boundary.
THEOREM FlatReader == Spec => []DeliversStream
<1>1. Init => Types /\ Delivers /\ Chained
  BY InitTypes, InitDelivers DEF Init, Chained, Open
<1>2. Types /\ Delivers /\ Chained /\ [Next]_vars => (Types /\ Delivers /\ Chained)'
  BY NextTypes, NextDelivers, NextChained
<1>3. Types /\ Delivers /\ Chained => DeliversStream
  BY DEF Delivers, Chained, DeliversStream, Rest
<1> QED
  BY <1>1, <1>2, <1>3, PTL DEF Spec

-----------------------------------------------------------------------------
\* The limit is tested before each refill, and a refill reads where the
\* block before it ended.
LEMMA NextWithin == Types /\ RefillsWithinLimit /\ [Next]_vars => RefillsWithinLimit'
<1> SUFFICES ASSUME Types, RefillsWithinLimit, [Next]_vars PROVE RefillsWithinLimit'
  OBVIOUS
<1> USE DEF RefillsWithinLimit, Types, Open
<1>1. CASE New \/ NewFails
  BY <1>1 DEF New, NewFails, Fails
<1>2. ASSUME Refill \/ RefillFails, pulled' # pulled PROVE RefillsWithinLimit'
  <2>1. /\ limit' = limit /\ pulled' = Append(pulled, next)
        /\ pulled \in Seq(DOMAIN image) /\ next \in Nat
        /\ limit # NoLimit => ~(next >= limit)
    BY <1>2 DEF Refill, RefillFails, Fails, PastLimit
  <2>2. limit # NoLimit => limit \in Nat
    BY ImagesAssumption
  <2>3. limit # NoLimit => next < limit
    BY <2>1, <2>2
  <2> QED
    BY <2>1, <2>3
<1>3. CASE UNCHANGED <<pulled, limit>>
  BY <1>3
<1>4. CASE RefillPastLimit \/ DeviceFails \/ Take \/ \E n \in Lengths : ReadExact(n)
  BY <1>4, <1>3 DEF RefillPastLimit, DeviceFails, Fails, Take, ReadExact, cursorVars
<1>5. CASE Refill \/ RefillFails
  BY <1>2, <1>3, <1>5 DEF Refill, RefillFails, Fails
<1>6. CASE UNCHANGED vars
  BY <1>3, <1>6 DEF vars, cursorVars
<1> QED
  BY <1>1, <1>4, <1>5, <1>6 DEF Next

\* A listing stays inside its table: no block after the first is read at or
\* past the limit.
THEOREM WithinLimit == Spec => []RefillsWithinLimit
<1>1. Init => Types /\ RefillsWithinLimit
  BY InitTypes DEF Init, RefillsWithinLimit
<1>2. Types /\ RefillsWithinLimit /\ [Next]_vars => (Types /\ RefillsWithinLimit)'
  BY NextTypes, NextWithin
<1> QED
  BY <1>1, <1>2, PTL DEF Spec

-----------------------------------------------------------------------------
(* What the blocks before the limit hold.                                  *)

\* Held is defined by recursion: row n from the row before it.
Row(n, before) ==
    [abs \in Nat |->
        IF n = 0 \/ Stops(abs) THEN 0
        ELSE LET b == ReadBlock(image, abs) IN Len(b.bytes) + before[b.next]]

Rows(h, n) ==
    /\ h = [k \in 0..n |-> h[k]]
    /\ \A k \in 0..n : h[k] = Row(k, h[k - 1])

\* Row 0 needs no row below it.
LEMMA RowZero == \A x, y : Row(0, x) = Row(0, y)
BY DEF Row

\* Rows up to any n exist.
LEMMA RowsExist == \A n \in Nat : \E h : Rows(h, n)
<1> DEFINE T == {n \in Nat : \E h : Rows(h, n)}
<1>1. 0 \in T
  <2> DEFINE h == [k \in 0..0 |-> Row(0, 0)]
  <2>1. h = [k \in 0..0 |-> h[k]]
    OBVIOUS
  <2>2. ASSUME NEW k \in 0..0 PROVE h[k] = Row(k, h[k - 1])
    <3>1. k = 0 /\ h[k] = Row(0, 0)
      OBVIOUS
    <3> HIDE DEF h
    <3> QED
      BY <3>1, RowZero
  <2> HIDE DEF h
  <2> QED
    BY <2>1, <2>2 DEF Rows
<1>2. ASSUME NEW n \in Nat, n \in T PROVE n + 1 \in T
  <2>1. PICK h : Rows(h, n)
    BY <1>2
  <2> DEFINE r == Row(n + 1, h[n])
             g == [k \in 0..(n + 1) |-> IF k = n + 1 THEN r ELSE h[k]]
  <2>2. g = [k \in 0..(n + 1) |-> g[k]]
    OBVIOUS
  <2>3. ASSUME NEW k \in 0..(n + 1) PROVE g[k] = Row(k, g[k - 1])
    <3>1. CASE k = n + 1
      <4>1. g[k] = r /\ g[k - 1] = h[n]
        BY <3>1
      <4> QED
        BY <3>1, <4>1
    <3>2. CASE k \in 1..n
      <4>1. g[k] = h[k] /\ g[k - 1] = h[k - 1] /\ k \in 0..n
        BY <3>2
      <4>2. h[k] = Row(k, h[k - 1])
        BY <2>1, <4>1, Zenon DEF Rows
      <4> HIDE DEF g
      <4> QED
        BY <4>1, <4>2
    <3>3. CASE k = 0
      <4>1. g[k] = h[0] /\ 0 \in 0..n
        BY <3>3
      <4>2. h[0] = Row(0, h[0 - 1])
        BY <2>1, <4>1, Zenon DEF Rows
      <4> HIDE DEF g
      <4> QED
        BY <3>3, <4>1, <4>2, RowZero
    <3> QED
      BY <3>1, <3>2, <3>3
  <2>4. Rows(g, n + 1)
    <3> HIDE DEF g
    <3> QED
      BY <2>2, <2>3 DEF Rows
  <2> QED
    BY <2>4
<1>3. Nat \subseteq T
  <2> HIDE DEF T
  <2> QED
    BY <1>1, <1>2, SetInduction
<1> QED
  BY <1>3

\* Rows agree wherever both are defined.
LEMMA RowsUnique ==
    ASSUME NEW n \in Nat, NEW m \in Nat, n <= m, NEW f, NEW g, Rows(f, n), Rows(g, m)
    PROVE  \A k \in 0..n : f[k] = g[k]
<1> DEFINE T == {k \in Nat : k \in 0..n => f[k] = g[k]}
<1>1. 0 \in T
  <2>1. f[0] = Row(0, f[0 - 1]) /\ g[0] = Row(0, g[0 - 1])
    <3>1. 0 \in 0..n /\ 0 \in 0..m
      OBVIOUS
    <3> QED
      BY <3>1, Zenon DEF Rows
  <2> QED
    BY <2>1, RowZero
<1>2. ASSUME NEW k \in Nat, k \in T PROVE k + 1 \in T
  <2> SUFFICES ASSUME k + 1 \in 0..n PROVE f[k + 1] = g[k + 1]
    OBVIOUS
  <2>1. f[k] = g[k]
    BY <1>2
  <2>2. f[k + 1] = Row(k + 1, f[(k + 1) - 1]) /\ g[k + 1] = Row(k + 1, g[(k + 1) - 1])
    <3>1. k + 1 \in 0..n /\ k + 1 \in 0..m
      OBVIOUS
    <3> QED
      BY <3>1 DEF Rows
  <2>3. (k + 1) - 1 = k
    OBVIOUS
  <2> QED
    BY <2>1, <2>2, <2>3
<1>3. Nat \subseteq T
  <2> HIDE DEF T
  <2> QED
    BY <1>1, <1>2, SetInduction
<1> QED
  BY <1>3

\* Held is the one function whose every row follows from the row below.
LEMMA HeldIsRow == \A n \in Nat : Held[n] = Row(n, Held[n - 1])
<1> DEFINE h(n) == CHOOSE g : Rows(g, n)
           F == [n \in Nat |-> h(n)[n]]
<1>1. ASSUME NEW n \in Nat PROVE Rows(h(n), n)
  BY RowsExist
<1>2. ASSUME NEW n \in Nat PROVE F[n] = Row(n, F[n - 1])
  <2>1. F[n] = h(n)[n]
    OBVIOUS
  <2>2. h(n)[n] = Row(n, h(n)[n - 1])
    BY <1>1 DEF Rows
  <2>3. CASE n = 0
    BY <2>1, <2>2, <2>3, RowZero
  <2>4. CASE n # 0
    <3>1. n - 1 \in Nat /\ n - 1 <= n /\ F[n - 1] = h(n - 1)[n - 1]
      BY <2>4
    <3>2. Rows(h(n - 1), n - 1) /\ Rows(h(n), n)
      BY <1>1, <3>1
    <3> HIDE DEF h, F
    <3>3. h(n)[n - 1] = h(n - 1)[n - 1]
      BY <3>1, <3>2, RowsUnique
    <3> QED
      BY <2>1, <2>2, <3>1, <3>3
  <2> QED
    BY <2>3, <2>4
<1>3. F = [n \in Nat |-> Row(n, F[n - 1])]
  <2>1. F = [n \in Nat |-> F[n]]
    OBVIOUS
  <2> HIDE DEF F
  <2> QED
    BY <1>2, <2>1
<1> HIDE DEF F
<1>4. Held = [n \in Nat |-> Row(n, Held[n - 1])]
  BY <1>3, Zenon DEF Held, Row
<1> QED
  BY <1>4, Zenon

\* Held depends on the image and the limit alone.
LEMMA HeldKeeps == UNCHANGED <<image, limit>> => Held' = Held
BY DEF Held, Stops

\* No block is held at an address where reading stops.
LEMMA HeldNothing ==
    ASSUME NEW n \in Nat, NEW abs \in Nat, n = 0 \/ Stops(abs)
    PROVE  Held[n][abs] = 0
BY HeldIsRow DEF Row

\* Elsewhere a block is held, with what is held after it.
LEMMA HeldSome ==
    ASSUME NEW n \in Nat \ {0}, NEW abs \in Nat, ~Stops(abs)
    PROVE  Held[n][abs] = Len(ReadBlock(image, abs).bytes)
                              + Held[n - 1][ReadBlock(image, abs).next]
<1>1. Held[n] = Row(n, Held[n - 1])
  BY HeldIsRow
<1> QED
  BY <1>1 DEF Row

\* What is held is a number of bytes.
LEMMA HeldIsNatural == Types => \A n \in Nat : Held[n] \in [Nat -> Nat]
<1> SUFFICES ASSUME Types PROVE \A n \in Nat : Held[n] \in [Nat -> Nat]
  OBVIOUS
<1> DEFINE T == {n \in Nat : Held[n] \in [Nat -> Nat]}
<1>1. ASSUME NEW abs \in Nat, ~Stops(abs)
      PROVE  Len(ReadBlock(image, abs).bytes) \in Nat /\ ReadBlock(image, abs).next \in Nat
  BY <1>1, BlockRead DEF Stops
<1>2. 0 \in T
  <2>1. Held[0] = Row(0, Held[0 - 1])
    BY HeldIsRow
  <2>2. \A g : Row(0, g) \in [Nat -> Nat]
    BY DEF Row
  <2> QED
    BY <2>1, <2>2
<1>3. ASSUME NEW n \in Nat, n \in T PROVE n + 1 \in T
  <2>1. Held[n + 1] = Row(n + 1, Held[(n + 1) - 1]) /\ (n + 1) - 1 = n
    BY HeldIsRow
  <2>2. Held[n] \in [Nat -> Nat]
    BY <1>3
  <2>3. ASSUME NEW g \in [Nat -> Nat] PROVE Row(n + 1, g) \in [Nat -> Nat]
    <3> DEFINE value(abs) ==
                   IF n + 1 = 0 \/ Stops(abs) THEN 0
                   ELSE Len(ReadBlock(image, abs).bytes) + g[ReadBlock(image, abs).next]
    <3>1. ASSUME NEW abs \in Nat PROVE value(abs) \in Nat
      <4>1. CASE Stops(abs)
        BY <4>1
      <4>2. CASE ~Stops(abs)
        <5> DEFINE len == Len(ReadBlock(image, abs).bytes)
                   after == ReadBlock(image, abs).next
        <5>1. len \in Nat /\ after \in Nat
          BY <1>1, <4>2
        <5>2. value(abs) = len + g[after]
          BY <4>2
        <5> HIDE DEF len, after
        <5>3. len + g[after] \in Nat
          BY <5>1
        <5> HIDE DEF value
        <5> QED
          BY <5>2, <5>3
      <4> QED
        BY <4>1, <4>2
    <3>2. Row(n + 1, g) = [abs \in Nat |-> value(abs)]
      BY DEF Row
    <3> HIDE DEF value
    <3> QED
      BY <3>1, <3>2
  <2> QED
    BY <2>1, <2>2, <2>3
<1>4. Nat \subseteq T
  <2> HIDE DEF T
  <2> QED
    BY <1>2, <1>3, SetInduction
<1> QED
  BY <1>4

\* The blocks are read in order, so there are no more of them than there
\* are in the image.
Increasing ==
    Open => /\ pulled[1] = start
            /\ \A i \in 1..Len(pulled) : pulled[i] < next
            /\ \A i \in 1..Len(pulled) : \A j \in 1..Len(pulled) :
                  i < j => pulled[i] < pulled[j]

\* Every step keeps the addresses of the pulled blocks increasing.
LEMMA NextIncreasing == Types /\ Increasing /\ [Next]_vars => Increasing'
<1> SUFFICES ASSUME Types, Increasing, [Next]_vars PROVE Increasing'
  OBVIOUS
<1> USE DEF Increasing, Open
<1>1. CASE New
  BY <1>1, BlockRead DEF New
<1>2. CASE Refill
  <2>1. /\ pulled \in Seq(DOMAIN image) /\ pulled # << >> /\ DOMAIN image \subseteq Nat
        /\ next' \in Nat /\ next \in Nat /\ next' > next /\ next \in DOMAIN image
        /\ pulled' = Append(pulled, next) /\ start' = start
    BY <1>2, BlockRead, ImagesAssumption DEF Refill, Types
  <2>2. /\ pulled[1] = start
        /\ \A i \in 1..Len(pulled) : pulled[i] < next
        /\ \A i \in 1..Len(pulled) : \A j \in 1..Len(pulled) : i < j => pulled[i] < pulled[j]
    BY <1>2 DEF Refill
  <2>3. pulled'[1] = start'
    BY <2>1, <2>2
  <2>4. \A i \in 1..Len(pulled') : pulled'[i] < next'
    BY <2>1, <2>2
  <2>5. ASSUME NEW i \in 1..Len(pulled'), NEW j \in 1..Len(pulled'), i < j
        PROVE  pulled'[i] < pulled'[j]
    <3>1. i \in 1..Len(pulled) /\ pulled'[i] = pulled[i]
      BY <2>1, <2>5
    <3>2. CASE j = Len(pulled) + 1
      <4>1. pulled'[j] = next
        BY <2>1, <3>2
      <4> QED
        BY <2>2, <3>1, <4>1
    <3>3. CASE j \in 1..Len(pulled)
      <4>1. pulled'[j] = pulled[j]
        BY <2>1, <3>3
      <4> QED
        BY <2>2, <2>5, <3>1, <3>3, <4>1
    <3> QED
      BY <2>1, <3>2, <3>3
  <2> QED
    BY <2>3, <2>4, <2>5
<1>3. CASE Take \/ \E n \in Lengths : ReadExact(n)
  BY <1>3 DEF Take, ReadExact, cursorVars
<1>4. CASE NewFails \/ RefillPastLimit \/ RefillFails \/ DeviceFails
  BY <1>4 DEF NewFails, RefillPastLimit, RefillFails, DeviceFails, Fails
<1>5. CASE UNCHANGED vars
  BY <1>5 DEF vars, cursorVars
<1> QED
  BY <1>1, <1>2, <1>3, <1>4, <1>5 DEF Next

Blocks == Cardinality(DOMAIN image)

\* A cursor pulls no block twice, so at most as many as there are.
LEMMA FewBlocks ==
    ASSUME Types, Increasing, Open
    PROVE  Len(pulled) \in 1..Blocks /\ Blocks \in Nat /\ (next \in DOMAIN image => Len(pulled) < Blocks)
<1>1. IsFiniteSet(DOMAIN image) /\ Blocks \in Nat /\ DOMAIN image \subseteq Nat
  BY ImagesAssumption, FS_CardinalityType DEF Types, Blocks
<1>2. pulled \in Seq(DOMAIN image) /\ pulled # << >> /\ next \in Nat
  BY DEF Types
<1>3. ASSUME NEW S, S \subseteq DOMAIN image, NEW q \in [1..Len(pulled) -> S],
             \A i \in 1..Len(pulled) : q[i] = pulled[i]
      PROVE  IsFiniteSet(S) /\ Len(pulled) <= Cardinality(S)
  <2>1. IsFiniteSet(S)
    BY <1>1, <1>3, FS_Subset
  <2>2. \A i, j \in 1..Len(pulled) : q[i] = q[j] => i = j
    BY <1>1, <1>2, <1>3 DEF Increasing
  <2>3. q \in Injection(1..Len(pulled), S)
    BY <2>2 DEF Injection, IsInjective
  <2>4. Cardinality(1..Len(pulled)) <= Cardinality(S)
    BY <2>1, <2>3, FS_Injection
  <2>5. Cardinality(1..Len(pulled)) = Len(pulled)
    BY <1>2, FS_Interval
  <2> QED
    BY <2>1, <2>4, <2>5
<1> DEFINE q == [i \in 1..Len(pulled) |-> pulled[i]]
<1>4. Len(pulled) <= Blocks
  <2>1. q \in [1..Len(pulled) -> DOMAIN image]
    BY <1>2
  <2> QED
    BY <1>3, <2>1 DEF Blocks
<1>5. ASSUME next \in DOMAIN image PROVE Len(pulled) < Blocks
  <2> DEFINE S == DOMAIN image \ {next}
  <2>1. q \in [1..Len(pulled) -> S]
    BY <1>1, <1>2 DEF Increasing
  <2>2. Cardinality(S) = Blocks - 1
    BY <1>1, <1>5, FS_RemoveElement DEF Blocks
  <2>3. S \subseteq DOMAIN image /\ \A i \in 1..Len(pulled) : q[i] = pulled[i]
    OBVIOUS
  <2> HIDE DEF S, q
  <2>4. Len(pulled) <= Cardinality(S)
    BY <1>3, <2>1, <2>3
  <2> QED
    BY <1>1, <1>2, <2>2, <2>4
<1> QED
  BY <1>1, <1>2, <1>4, <1>5

\* What the cursor has read and what it can still read make the same total
\* all along.
First == ReadBlock(image, start)

Counted ==
    Open => Len(First.bytes) + Held[Blocks][First.next]
                = Len(Stream) + Held[(Blocks + 1) - Len(pulled)][next]

\* Every step keeps the stream and what can still be pulled adding up to all that
\* the image holds for this cursor.
LEMMA NextCounted ==
    Types /\ Delivers /\ Increasing /\ Counted /\ [Next]_vars => Counted'
<1> SUFFICES ASSUME Types, Delivers, Increasing, Counted, [Next]_vars PROVE Counted'
  OBVIOUS
<1>0. ASSUME UNCHANGED <<image, limit, start>>
      PROVE  Held' = Held /\ First' = First /\ Blocks' = Blocks
  BY <1>0, HeldKeeps DEF First, Blocks
<1>1. CASE New
  <2>1. UNCHANGED <<image, limit, start>> /\ pulled' = <<start>> /\ next' = First.next
    BY <1>1 DEF New, First
  <2>2. Stream' = First.bytes
    BY <2>1, StreamStarts DEF First
  <2>3. Len(pulled') = 1 /\ Blocks \in Nat
    BY <2>1, ImagesAssumption, FS_CardinalityType DEF Types, Blocks
  <2>4. (Blocks' + 1) - Len(pulled') = Blocks
    BY <1>0, <2>1, <2>3
  <2> QED
    BY <1>0, <2>1, <2>2, <2>4 DEF Counted
<1>2. CASE Refill
  <2> DEFINE b == ReadBlock(image, next)
             n == (Blocks + 1) - Len(pulled)
  <2>1. /\ UNCHANGED <<image, limit, start>> /\ pulled' = Append(pulled, next)
        /\ next' = b.next /\ b # Refused /\ b.bytes # << >> /\ ~PastLimit /\ Open
    BY <1>2 DEF Refill, Open
  <2>2. next \in DOMAIN image /\ next \in Nat /\ b.bytes \in Seq(Byte)
    BY <2>1, BlockRead
  <2>3. ~Stops(next)
    BY <2>1 DEF Stops, PastLimit
  <2>4. n \in Nat \ {0} /\ (Blocks' + 1) - Len(pulled') = n - 1
    <3>1. pulled \in Seq(DOMAIN image)
      BY <2>1 DEF Types
    <3>2. Len(pulled') = Len(pulled) + 1
      BY <2>1, <2>2, <3>1
    <3> QED
      BY <1>0, <2>1, <2>2, <3>2, FewBlocks
  <2> HIDE DEF n
  <2>5. Held[n][next] = Len(b.bytes) + Held[n - 1][b.next]
    BY <2>2, <2>3, <2>4, HeldSome
  <2>6. Stream' = Stream \o b.bytes
    BY <2>1, <2>2, StreamGrows DEF Types
  <2>7. Len(Stream') = Len(Stream) + Len(b.bytes)
    BY <2>1, <2>2, <2>6, ConcatProperties DEF Delivers
  <2>8. Len(First.bytes) + Held[Blocks][First.next] = Len(Stream) + Held[n][next]
    BY <2>1 DEF Counted, n
  <2>9. Len(Stream) \in Nat /\ Len(b.bytes) \in Nat /\ Held[n - 1][b.next] \in Nat
    <3>1. Len(Stream) \in Nat /\ Len(b.bytes) \in Nat
      BY <2>1, <2>2 DEF Delivers
    <3>2. n - 1 \in Nat /\ b.next \in Nat
      BY <2>1, <2>2, <2>4, BlockRead
    <3> QED
      BY <3>1, <3>2, HeldIsNatural
  <2>10. Len(First.bytes) + Held[Blocks][First.next] = Len(Stream') + Held[n - 1][b.next]
    BY <2>5, <2>7, <2>8, <2>9
  <2>11. /\ First' = First /\ Held' = Held /\ Blocks' = Blocks /\ next' = b.next
         /\ (Blocks' + 1) - Len(pulled') = n - 1
    BY <1>0, <2>1, <2>4
  <2> HIDE DEF b
  <2> QED
    BY <2>10, <2>11 DEF Counted
<1>3. CASE Take \/ \E n \in Lengths : ReadExact(n)
  <2>1. UNCHANGED <<image, limit, start, pulled, next>> /\ Open
    BY <1>3 DEF Take, ReadExact, cursorVars, Open
  <2>2. Stream' = Stream
    BY <2>1 DEF Stream
  <2> QED
    BY <1>0, <2>1, <2>2 DEF Counted
<1>4. CASE NewFails \/ RefillPastLimit \/ RefillFails \/ DeviceFails
  BY <1>4 DEF NewFails, RefillPastLimit, RefillFails, DeviceFails, Fails, Counted, Open
<1>5. CASE UNCHANGED vars
  <2>1. UNCHANGED <<image, limit, start, pulled, next, pc>>
    BY <1>5 DEF vars, cursorVars
  <2>2. Stream' = Stream
    BY <2>1 DEF Stream
  <2> QED
    BY <1>0, <2>1, <2>2 DEF Counted, Open
<1> QED
  BY <1>1, <1>2, <1>3, <1>4, <1>5 DEF Next

\* When no refill is possible, all there was has been read: the bytes handed
\* out and those still in the window, fewer than are wanted.
LEMMA NextRefuses ==
    Types /\ Delivers /\ Increasing /\ Counted /\ RefusesOnlyWhatIsMissing /\ [Next]_vars
        => RefusesOnlyWhatIsMissing'
<1> SUFFICES ASSUME Types, Delivers, Increasing, Counted, RefusesOnlyWhatIsMissing, [Next]_vars
             PROVE  RefusesOnlyWhatIsMissing'
  OBVIOUS
<1> DEFINE total == Len(First.bytes) + Held[Blocks][First.next]
<1>1. ASSUME Open, Unread < want, Stops(next)
      PROVE  total < inBlock + Len(delivered) + want
  <2>1. Held[(Blocks + 1) - Len(pulled)][next] = 0
    <3>1. next \in Nat /\ (Blocks + 1) - Len(pulled) \in Nat
      BY <1>1, FewBlocks DEF Types
    <3> QED
      BY <1>1, <3>1, HeldNothing
  <2>2. /\ Stream \in Seq(Byte) /\ inBlock \in 0..Len(Stream)
        /\ delivered \o Rest = SubSeq(Stream, inBlock + 1, Len(Stream))
    BY <1>1 DEF Delivers, Types
  <2>3. total = Len(Stream)
    BY <1>1, <2>1, <2>2 DEF Counted
  <2>4. /\ window \in Seq(Byte) /\ pos \in 0..Len(window) /\ delivered \in Seq(Byte)
        /\ want \in Nat
    BY <1>1 DEF Types
  <2>5. Rest \in Seq(Byte) /\ Len(Rest) = Unread
    BY <2>4 DEF Rest, Unread
  <2>6. Len(delivered \o Rest) = Len(delivered) + Unread
    BY <2>4, <2>5, ConcatProperties
  <2>7. Len(SubSeq(Stream, inBlock + 1, Len(Stream))) = Len(Stream) - inBlock
    BY <2>2
  <2>u. Unread \in Int /\ Len(delivered) \in Nat /\ Len(Stream) \in Nat /\ inBlock \in Nat
    <3>1. inBlock \in Nat /\ Len(Stream) \in Nat
      BY <2>2
    <3>2. Unread \in Int /\ Len(delivered) \in Nat
      BY <2>4 DEF Unread
    <3> QED
      BY <3>1, <3>2
  <2>v. Len(delivered) + Unread = Len(Stream) - inBlock
    BY <2>2, <2>6, <2>7
  <2>8. Len(Stream) = inBlock + Len(delivered) + Unread /\ Unread \in Int
    BY <2>u, <2>v
  <2> HIDE DEF total
  <2> QED
    BY <1>1, <2>2, <2>3, <2>4, <2>8
<1>2. ASSUME RefillPastLimit \/ RefillFails PROVE RefusesOnlyWhatIsMissing'
  <2>1. Open /\ Unread < want /\ Stops(next)
    BY <1>2 DEF RefillPastLimit, RefillFails, Open, Stops, PastLimit
  <2>2. UNCHANGED <<image, limit, start, inBlock, delivered, want>>
    BY <1>2 DEF RefillPastLimit, RefillFails, Fails
  <2>3. Held' = Held /\ First' = First /\ Blocks' = Blocks
    BY <2>2, HeldKeeps DEF First, Blocks
  <2>4. total' < inBlock' + Len(delivered') + want'
    BY <1>1, <2>1, <2>2, <2>3
  <2> QED
    BY <2>4 DEF RefusesOnlyWhatIsMissing, First, Blocks
<1>3. CASE New \/ Take \/ Refill \/ \E n \in Lengths : ReadExact(n)
  BY <1>3 DEF New, Take, Refill, ReadExact, RefusesOnlyWhatIsMissing
<1>4. CASE NewFails \/ DeviceFails
  BY <1>4 DEF NewFails, DeviceFails, Fails, RefusesOnlyWhatIsMissing
<1>5. CASE UNCHANGED vars
  <2>1. UNCHANGED <<image, limit, start, inBlock, delivered, want, pc, cause>>
    BY <1>5 DEF vars, cursorVars
  <2>2. Held' = Held
    BY <2>1, HeldKeeps
  <2> QED
    BY <2>1, <2>2 DEF RefusesOnlyWhatIsMissing
<1> QED
  BY <1>2, <1>3, <1>4, <1>5 DEF Next

\* The limit, and the block a read stops at, cost no reader a byte it should
\* have had.
THEOREM RefusesForCause == Spec => []RefusesOnlyWhatIsMissing
<1> DEFINE Inv == Types /\ Delivers /\ Increasing /\ Counted /\ RefusesOnlyWhatIsMissing
<1>1. Init => Inv
  BY InitTypes, InitDelivers DEF Init, Increasing, Counted, Open, RefusesOnlyWhatIsMissing
<1>2. Inv /\ [Next]_vars => Inv'
  BY NextTypes, NextDelivers, NextIncreasing, NextCounted, NextRefuses
<1>3. Inv => RefusesOnlyWhatIsMissing
  OBVIOUS
<1> HIDE DEF Inv
<1> QED
  BY <1>1, <1>2, <1>3, PTL DEF Spec

=============================================================================
