-------------------------- MODULE OpenImageProofs --------------------------
(***************************************************************************)
(* Proofs about OpenImage, for any images, device failures and lookups: an *)
(* image that opens lies on its device, its tables hold what the format    *)
(* stores under each index, an intact one is refused by its device alone.  *)
(***************************************************************************)
EXTENDS OpenImage, SequenceLemmas

Byte == Nat \X Nat

Stages == {"closed", "failed", "cache", "superblock", "ids", "fragments", "xattrs",
           "exports", "end", "open"}

\* Past the superblock, which has then been found valid.
Reading == {"ids", "fragments", "xattrs", "exports", "end", "open"}

Types == image \in Images /\ pc \in Stages

Mounted == pc \in Reading => Valid(sb, image.size)

\* The end worked out so far is past the start of the directory table and
\* inside the image.
EndInside ==
    pc \in {"end", "open"} =>
        dirEnd \in Nat /\ sb.directoryTableStart < dirEnd /\ dirEnd <= sb.bytesUsed

\* The superblock's own fields, as numbers.
LEMMA Fields ==
    image \in Images =>
        /\ {sb.inodeTableStart, sb.directoryTableStart, sb.idTableStart,
            sb.fragmentTableStart, sb.exportTableStart, sb.xattrTableStart,
            sb.bytesUsed, sb.rootBlock, sb.inodeCount, sb.idCount,
            sb.fragmentEntryCount, image.size} \subseteq Nat
        /\ \A a \in DOMAIN image.words : image.words[a] \in Nat
BY ImagesAssumption DEF sb

\* A pointer is a number or is refused.
LEMMA WordTypes == image \in Images => \A a : Word(a) \in Nat \cup {Refused}
BY Fields DEF Word, WordOf

\* directory_table_end of a superblock that was found valid.
LEMMA TableEndInside ==
    ASSUME image \in Images, Valid(sb, image.size)
    PROVE  /\ DirectoryTableEnd(sb) \in Nat
           /\ sb.directoryTableStart < DirectoryTableEnd(sb)
           /\ DirectoryTableEnd(sb) <= sb.bytesUsed
<1> DEFINE all == OptionalStarts(sb) \cup {sb.idTableStart, sb.bytesUsed}
           past == {t \in all : t # NoTable /\ t > sb.directoryTableStart}
<1>1. /\ all \subseteq Nat
      /\ sb.directoryTableStart \in Nat /\ sb.bytesUsed \in Nat
  BY Fields DEF OptionalStarts
<1>2. sb.directoryTableStart < sb.bytesUsed
  BY DEF Valid, InImage, RequiredStarts
<1>3. \A t \in all : t # NoTable => t <= sb.bytesUsed
  <2>1. \A t \in OptionalStarts(sb) : t # NoTable => t < sb.bytesUsed
    BY DEF Valid, InImage
  <2>2. sb.idTableStart < sb.bytesUsed
    BY DEF Valid, InImage, RequiredStarts
  <2> QED
    BY <1>1, <2>1, <2>2, Fields DEF OptionalStarts
<1>4. DirectoryTableEnd(sb) = IF past = {} THEN NoTable ELSE Min(past)
  BY DEF DirectoryTableEnd, Nearest
<1>5. CASE past = {}
  <2>1. sb.bytesUsed = NoTable
    BY <1>1, <1>2, <1>5
  <2> QED
    BY <1>1, <1>2, <1>4, <1>5, <2>1
<1>6. CASE past # {}
  <2>1. past \in SUBSET Nat
    BY <1>1
  <2>2. Min(past) \in past
    <3> HIDE DEF past
    <3> QED
      BY <1>6, <2>1, LeastNumber
  <2>3. Min(past) \in all /\ Min(past) # NoTable /\ Min(past) > sb.directoryTableStart
    BY <2>2
  <2> HIDE DEF all, past
  <2> QED
    BY <1>1, <1>3, <1>4, <1>6, <2>3
<1> QED
  BY <1>5, <1>6

\* Every step keeps the types and the image.
LEMMA NextTypes == Types /\ [Next]_vars => Types' /\ image' = image
<1> SUFFICES ASSUME Types, [Next]_vars PROVE Types' /\ image' = image
  OBVIOUS
<1> USE DEF Types, Stages
<1>1. ASSUME NEW blocks \in CacheBlocks, Begin(blocks) PROVE Types' /\ image' = image
  BY <1>1 DEF Begin
<1>2. CASE Step
  BY <1>2 DEF Step, SizeCache, ReadSuperblock, ReadIds, ReadFragments, ReadXattrIds,
              ReadExports, DeviceFails, ProbeTable, ProbeFails, Opened
<1>3. CASE Close
  BY <1>3 DEF Close
<1>4. ASSUME NEW n \in Numbers, LookupNumber(n) \/ LookupFails(n) PROVE Types' /\ image' = image
  BY <1>4 DEF LookupNumber, LookupFails
<1>5. CASE UNCHANGED vars
  BY <1>5 DEF vars
<1> QED
  BY <1>1, <1>2, <1>3, <1>4, <1>5 DEF Next

\* A mount past ReadSuperblock has passed Valid, and the probes only move the end
\* of the directory table between its start and the end of the image.
LEMMA NextMounted ==
    Types /\ Mounted /\ EndInside /\ [Next]_vars => (Mounted /\ EndInside)'
<1> SUFFICES ASSUME Types, Mounted, EndInside, [Next]_vars PROVE (Mounted /\ EndInside)'
  OBVIOUS
<1>0. image' = image /\ sb' = sb
  BY NextTypes DEF sb
<1> USE <1>0 DEF Mounted, EndInside, Reading
<1>1. CASE SizeCache \/ DeviceFails \/ \E blocks \in CacheBlocks : Begin(blocks)
  BY <1>1 DEF SizeCache, DeviceFails, Begin
<1>2. CASE ReadSuperblock
  BY <1>2 DEF ReadSuperblock
<1>3. CASE ReadIds \/ ReadFragments \/ ReadXattrIds
  BY <1>3 DEF ReadIds, ReadFragments, ReadXattrIds
<1>4. CASE ReadExports
  BY <1>4, TableEndInside DEF ReadExports, Types
<1>5. CASE ProbeTable
  <2> DEFINE w == FirstBlock(probed + 1)
  <2>1. dirEnd \in Nat /\ sb.directoryTableStart < dirEnd /\ dirEnd <= sb.bytesUsed
    BY <1>5 DEF ProbeTable
  <2>2. CASE dirEnd' = dirEnd
    BY <1>5, <2>1, <2>2 DEF ProbeTable
  <2>3. CASE w # Refused /\ w > sb.directoryTableStart /\ dirEnd' = Min({dirEnd, w})
    <3>1. w \in Nat
      BY <2>3, WordTypes DEF FirstBlock, Types
    <3> HIDE DEF w
    <3>2. dirEnd' \in {dirEnd, w} /\ dirEnd' <= dirEnd
      BY <2>1, <2>3, <3>1, LesserOfTwo
    <3>3. sb.bytesUsed \in Nat /\ pc' = pc
      BY <1>5, Fields DEF ProbeTable, Types
    <3> QED
      BY <2>1, <2>3, <3>1, <3>2, <3>3
  <2> QED
    BY <1>5, <2>2, <2>3 DEF ProbeTable
<1>6. CASE ProbeFails \/ Opened \/ Close
  BY <1>6 DEF ProbeFails, Opened, Close, endVars
<1>7. CASE \E n \in Numbers : LookupNumber(n) \/ LookupFails(n)
  BY <1>7 DEF LookupNumber, LookupFails, endVars
<1>8. CASE UNCHANGED vars
  BY <1>8 DEF vars, endVars
<1> QED
  BY <1>1, <1>2, <1>3, <1>4, <1>5, <1>6, <1>7, <1>8 DEF Next, Step

\* Whatever opens is inside its device, and so is the limit given to every
\* listing, whichever of the pointers that look for it could be read.
THEOREM OpensWithinImage == Spec => []MountWithinImage
<1> DEFINE Inv == Types /\ Mounted /\ EndInside
<1>1. Init => Inv
  BY DEF Init, Types, Stages, Mounted, Reading, EndInside
<1>2. Inv /\ [Next]_vars => Inv'
  BY NextTypes, NextMounted
<1>3. Inv => MountWithinImage
  BY DEF Mounted, Reading, EndInside, MountWithinImage, Valid
<1> HIDE DEF Inv
<1> QED
  BY <1>1, <1>2, <1>3, PTL DEF Spec

-----------------------------------------------------------------------------
(* What a table reader returns.                                            *)

\* A block that can be read holds at most MetadataSize bytes of its own.
LEMMA BlockBytes ==
    ASSUME image \in Images, NEW abs, ReadBlock(image.blocks, abs) # Refused
    PROVE  LET len == DecodedLength(image.blocks[abs])
               bytes == ReadBlock(image.blocks, abs).bytes
           IN  /\ abs \in Nat
               /\ len \in 0..MetadataSize
               /\ bytes \in Seq(Byte)
               /\ Len(bytes) = len
               /\ \A i \in 1..len : bytes[i] = <<abs, i>>
<1> DEFINE len == DecodedLength(image.blocks[abs])
           b == [bytes |-> BytesOf(abs, len), next |-> NextAbs(abs, image.blocks[abs].size)]
<1>1. abs \in DOMAIN image.blocks /\ abs \in Nat
  BY ImagesAssumption DEF ReadBlock
<1>2. len \in 0..MetadataSize
  BY <1>1, ImagesAssumption, SizesAssumption DEF ReadBlock, DecodedLength
<1>3. ReadBlock(image.blocks, abs) = b
  BY DEF ReadBlock
<1>4. b.bytes = BytesOf(abs, len)
  OBVIOUS
<1> HIDE DEF b, len
<1>5. \A i \in 1..len : <<abs, i>> \in Byte
  BY <1>1, <1>2 DEF Byte
<1>6. /\ BytesOf(abs, len) \in Seq(Byte)
      /\ Len(BytesOf(abs, len)) = len
      /\ \A i \in 1..len : BytesOf(abs, len)[i] = <<abs, i>>
  BY <1>2, <1>5 DEF BytesOf
<1> QED
  BY <1>1, <1>2, <1>3, <1>4, <1>6 DEF len

\* So many blocks hold so many bytes, and one fewer would not.
LEMMA BlocksHold ==
    ASSUME NEW bytes \in Nat
    PROVE  /\ BlocksFor(bytes) \in Nat
           /\ bytes <= MetadataSize * BlocksFor(bytes)
           /\ bytes # 0 => /\ BlocksFor(bytes) # 0
                           /\ MetadataSize * (BlocksFor(bytes) - 1) < bytes
<1> DEFINE m == MetadataSize
           n == BlocksFor(bytes)
<1>1. m \in Nat \ {0} /\ n = (bytes + m - 1) \div m
  BY SizesAssumption DEF BlocksFor
<1>2. bytes + m - 1 \in Nat
  BY <1>1
<1> HIDE DEF m, n
<1>3. /\ bytes + m - 1 = m * n + ((bytes + m - 1) % m)
      /\ (bytes + m - 1) % m \in 0..(m - 1)
      /\ n \in Nat
  BY <1>1, <1>2, Division
<1>4. bytes <= m * n
  BY <1>1, <1>2, <1>3
<1>5. m * (n - 1) = m * n - m
  BY <1>1, <1>3
<1> QED
  BY <1>1, <1>2, <1>3, <1>4, <1>5 DEF m, n

\* In pieces of m but the last, a place is inside the piece that covers it.
LEMMA PlaceInside ==
    ASSUME NEW m \in Nat \ {0}, NEW n \in Nat \ {0}, NEW l \in Nat, l <= m,
           NEW q \in 0..(m * (n - 1) + l - 1)
    PROVE  /\ q \div m \in Nat /\ (q \div m) + 1 \in 1..n
           /\ (q \div m) + 1 = n => (q % m) + 1 \in 1..l
           /\ (q % m) + 1 \in 1..m
<1> DEFINE d == q \div m
           r == q % m
<1>1. q \in Nat
  <2>1. m * (n - 1) \in Nat
    OBVIOUS
  <2> QED
    BY <2>1
<1>2. q = m * d + r /\ r \in 0..(m - 1) /\ d \in Nat
  BY <1>1, Division
<1> HIDE DEF d, r
<1>3. m * d < m * (n - 1) + l
  BY <1>2
<1>4. d < n
  <2> SUFFICES ASSUME d > n - 1 PROVE FALSE
    BY <1>2
  <2>1. m * (n - 1) + m <= m * d
    BY <1>2, MultiplesApart
  <2> QED
    BY <1>2, <1>3, <2>1
<1>5. ASSUME d + 1 = n PROVE r + 1 \in 1..l
  <2>1. d = n - 1
    BY <1>2, <1>5
  <2>2. q = m * (n - 1) + r
    BY <1>2, <2>1
  <2> QED
    BY <1>2, <2>2
<1>6. d + 1 \in 1..n /\ r + 1 \in 1..m
  BY <1>2, <1>4
<1> QED
  BY <1>2, <1>5, <1>6 DEF d, r

\* Where the format stores byte q of a table: in the block whose pointer
\* covers it.
Place(start, q) == <<Word(start + 8 * (q \div MetadataSize)), (q % MetadataSize) + 1>>

\* The bytes before a block are those before the one in front of it, and its.
LEMMA BytesCounted ==
    ASSUME image \in Images, NEW start \in Nat, NEW bytes \in Nat,
           \A i \in 1..BlocksFor(bytes) :
              DecodedLength(image.blocks[Pointers(start, bytes)[i]]) \in Nat
    PROVE  /\ BytesUpTo(start, bytes)[0] = 0
           /\ \A i \in 1..BlocksFor(bytes) :
                 BytesUpTo(start, bytes)[i]
                   = BytesUpTo(start, bytes)[i - 1]
                     + DecodedLength(image.blocks[Pointers(start, bytes)[i]])
           /\ \A i \in 0..BlocksFor(bytes) : BytesUpTo(start, bytes)[i] \in Nat
<1> DEFINE n == BlocksFor(bytes)
           len(i) == DecodedLength(image.blocks[Pointers(start, bytes)[i]])
           F == [kd \in Nat \X Nat |-> IF kd[1] \in 1..n THEN kd[2] + len(kd[1]) ELSE kd[2]]
           P(x) == x = [i \in 0..n |-> IF i = 0 THEN 0 ELSE x[i - 1] + len(i)]
           f == CHOOSE x : P(x)
<1>1. n \in Nat /\ \A i \in 1..n : len(i) \in Nat
  BY BlocksHold
<1>2. BytesUpTo(start, bytes) = f
  BY DEF BytesUpTo
<1> HIDE DEF n, len
<1>3. \A k \in Nat : \A d \in Nat :
         F[<<k, d>>] = IF k \in 1..n THEN d + len(k) ELSE d
  OBVIOUS
<1> HIDE DEF F
<1>4. \A k \in Nat : \A d \in Nat : F[<<k, d>>] \in Nat
  <2> TAKE k \in Nat
  <2> TAKE d \in Nat
  <2>1. CASE k \in 1..n
    <3>1. len(k) \in Nat /\ F[<<k, d>>] = d + len(k)
      BY <1>1, <1>3, <2>1, Zenon
    <3> QED
      BY <3>1
  <2>2. CASE k \notin 1..n
    BY <1>3, <2>2
  <2> QED
    BY <2>1, <2>2
<1>5. PICK g : Recursion(g, Nat, F, 0, n)
  BY <1>1, <1>4, RecursionExists
<1>6. /\ g = [i \in 0..n |-> g[i]] /\ g[0] = 0
      /\ \A k \in 1..n : g[k] = F[<<k, g[k - 1]>>]
      /\ \A k \in 0..n : g[k] \in Nat
  BY <1>5, Zenon DEF Recursion
<1>7. ASSUME NEW i \in 1..n PROVE g[i] = g[i - 1] + len(i)
  <2>1. i \in Nat /\ i - 1 \in 0..n
    BY <1>1
  <2> QED
    BY <1>3, <1>6, <2>1
<1>8. P(g)
  <2> DEFINE e(i) == IF i = 0 THEN 0 ELSE g[i - 1] + len(i)
  <2>1. ASSUME NEW i \in 0..n PROVE g[i] = e(i)
    <3>1. i = 0 \/ i \in 1..n
      BY <1>1
    <3> QED
      BY <1>1, <1>6, <1>7, <3>1
  <2>2. P(g) <=> g = [i \in 0..n |-> e(i)]
    BY Zenon
  <2> HIDE DEF e, P
  <2>3. g = [i \in 0..n |-> e(i)]
    BY <1>6, <2>1
  <2> QED
    BY <2>2, <2>3
<1>9. P(f)
  <2> HIDE DEF P
  <2> QED
    BY <1>8
<1>10. f = [i \in 0..n |-> IF i = 0 THEN 0 ELSE f[i - 1] + len(i)]
  BY <1>9, Zenon
<1> HIDE DEF P, f
<1>11. /\ f[0] = 0
       /\ \A i \in 1..n : f[i] = f[i - 1] + len(i)
  <2>1. \A i \in 0..n : f[i] = IF i = 0 THEN 0 ELSE f[i - 1] + len(i)
    BY <1>10, Zenon
  <2>2. 0 \in 0..n /\ \A i \in 1..n : i \in 0..n /\ i # 0
    BY <1>1
  <2> QED
    BY <2>1, <2>2, Zenon
<1>12. \A i \in 0..n : f[i] \in Nat
  <2>1. \A k \in 1..n : f[k - 1] \in Nat => f[k] = F[<<k, f[k - 1]>>]
    <3> TAKE k \in 1..n
    <3>1. k \in Nat
      BY <1>1
    <3> QED
      BY <1>3, <1>11, <3>1
  <2>2. f[0] \in Nat
    BY <1>11
  <2> QED
    BY <1>1, <1>4, <2>1, <2>2, RecursionStays
<1> QED
  BY <1>2, <1>11, <1>12 DEF n, len

\* read_indirect_table returns the bytes of the pointed-to blocks, in order
\* whatever they decode to, and at least as many as were asked for.
LEMMA ReadTable ==
    ASSUME image \in Images, NEW start \in Nat, NEW bytes \in Nat,
           ReadIndirectTable(start, bytes) # Refused
    PROVE  /\ ReadIndirectTable(start, bytes) \in Seq(Byte)
           /\ Len(ReadIndirectTable(start, bytes)) >= bytes
           /\ \A k \in 1..bytes : IsByte(ReadIndirectTable(start, bytes)[k], start, bytes, k)
           /\ FullBlocks(start, bytes) =>
                 \A q \in 0..(bytes - 1) :
                    ReadIndirectTable(start, bytes)[q + 1] = Place(start, q)
<1>1. CASE bytes = 0
  <2>1. ReadIndirectTable(start, bytes) = << >>
    BY <1>1 DEF ReadIndirectTable
  <2>2. (\A q \in 0..(bytes - 1) : FALSE) /\ \A k \in 1..bytes : FALSE
    BY <1>1
  <2>3. << >> \in Seq(Byte) /\ Len(<< >>) >= bytes
    BY <1>1
  <2> QED
    BY <2>1, <2>2, <2>3, Zenon
<1>2. CASE bytes # 0
  <2> DEFINE m == MetadataSize
             n == BlocksFor(bytes)
             abs(i) == Word(start + 8 * (i - 1))
             block == [i \in 1..n |-> ReadBlock(image.blocks, Pointers(start, bytes)[i])]
             s == [i \in DOMAIN block |-> block[i].bytes]
             all == FlattenSeq(s)
  <2>1. m \in Nat \ {0} /\ n \in Nat \ {0} /\ bytes <= m * n
    BY <1>2, SizesAssumption, BlocksHold
  <2>2. /\ Refused \notin ToSet(block)
        /\ ReadIndirectTable(start, bytes) = all
        /\ ~(Len(all) < bytes)
    BY <1>2 DEF ReadIndirectTable
  <2>3. \A i \in 1..n : Pointers(start, bytes)[i] = abs(i)
    BY <2>1 DEF Pointers
  <2>4. \A i \in 1..n : block[i] = ReadBlock(image.blocks, abs(i)) /\ block[i] # Refused
    BY <2>2, <2>3 DEF ToSet
  <2>5. DOMAIN block = 1..n
    OBVIOUS
  <2> HIDE DEF block
  <2>6. Len(s) = n /\ \A i \in 1..n : s[i] = block[i].bytes
    BY <2>1, <2>5
  <2>7. ASSUME NEW i \in 1..n
        PROVE  /\ s[i] \in Seq(Byte) /\ Len(s[i]) <= m
               /\ Len(s[i]) = DecodedLength(image.blocks[abs(i)])
               /\ \A j \in 1..Len(s[i]) : s[i][j] = <<abs(i), j>>
    <3>1. s[i] = ReadBlock(image.blocks, abs(i)).bytes /\ ReadBlock(image.blocks, abs(i)) # Refused
      BY <2>4, <2>6
    <3> HIDE DEF s, abs, all
    <3> QED
      BY <2>1, <3>1, BlockBytes
  <2> HIDE DEF s, all
  <2>8. all \in Seq(Byte)
    BY <2>1, <2>6, <2>7, FlattenTypes DEF all
  <2>9. Len(all) >= bytes
    BY <2>2, <2>8
  <2>10. \A k \in 1..bytes : IsByte(all[k], start, bytes, k)
    <3> DEFINE o == BytesUpTo(start, bytes)
               pointer == Pointers(start, bytes)
    <3>1. ASSUME NEW i \in 1..n
          PROVE  Len(s[i]) = DecodedLength(image.blocks[pointer[i]]) /\ Len(s[i]) \in Nat
      BY <2>3, <2>7
    <3>2. \A i \in 1..n : DecodedLength(image.blocks[pointer[i]]) \in Nat
      <4> TAKE i \in 1..n
      <4> QED
        BY <3>1, Zenon
    <3>3. /\ o[0] = 0 /\ \A i \in 0..n : o[i] \in Nat
          /\ \A i \in 1..n : o[i] = o[i - 1] + DecodedLength(image.blocks[pointer[i]])
      BY <3>2, BytesCounted
    <3> HIDE DEF o, pointer
    <3>4. /\ o[0] = 0 /\ \A i \in 0..n : o[i] \in Nat
          /\ \A i \in 1..n : o[i] = o[i - 1] + Len(s[i])
      BY <3>1, <3>3, Zenon
    <3>5. PiecesTo(all, Byte, s, o, n)
      <4> HIDE DEF n
      <4> QED
        BY <2>1, <2>6, <2>7, <3>4, FlattenPieces DEF all
    <3> HIDE DEF n
    <3> TAKE k \in 1..bytes
    <3>6. k \in 1..o[n]
      <4>1. Len(all) = o[n] /\ n \in 0..n
        BY <2>1, <3>5 DEF PiecesTo
      <4>2. o[n] \in Nat /\ bytes <= o[n]
        BY <2>9, <3>4, <4>1
      <4> QED
        BY <4>2
    <3>7. PICK i \in 1..n : k \in (o[i - 1] + 1)..o[i] /\ all[k] = s[i][k - o[i - 1]]
      BY <3>5, <3>6, Zenon DEF PiecesTo
    <3>8. k - o[i - 1] \in 1..Len(s[i])
      <4>1. i - 1 \in 0..n
        BY <2>1
      <4>2. o[i - 1] \in Nat /\ o[i] = o[i - 1] + Len(s[i]) /\ Len(s[i]) \in Nat
        BY <3>1, <3>4, <4>1
      <4> QED
        BY <3>7, <4>2
    <3>9. all[k] = <<pointer[i], k - o[i - 1]>>
      BY <2>3, <2>7, <3>7, <3>8, Zenon DEF pointer
    <3> QED
      BY <3>7, <3>9, Zenon DEF IsByte, o, pointer, n
  <2>11. ASSUME FullBlocks(start, bytes), NEW q \in 0..(bytes - 1)
         PROVE  all[q + 1] = Place(start, q)
    <3>1. ASSUME NEW i \in 1..(n - 1) PROVE Len(s[i]) = m
      <4>1. i \in 1..n
        BY <2>1
      <4>2. Len(s[i]) = DecodedLength(image.blocks[abs(i)])
        BY <2>7, <4>1
      <4>3. Pointers(start, bytes)[i] = abs(i)
        BY <2>3, <4>1
      <4> HIDE DEF abs
      <4>4. DecodedLength(image.blocks[Pointers(start, bytes)[i]]) = m
        BY <2>11 DEF FullBlocks
      <4> QED
        BY <4>2, <4>3, <4>4
    <3> DEFINE d == q \div m
               r == q % m
               l == Len(s[n])
    <3>2. FullTo(all, Byte, m, s, n)
      <4> HIDE DEF m, n
      <4> QED
        BY <2>1, <2>6, <2>7, <3>1, FlattenFull DEF all
    <3>3. q \in 0..(Len(all) - 1)
      BY <2>8, <2>9
    <3>4. all[q + 1] = s[d + 1][r + 1] /\ Len(all) = m * (n - 1) + l
      BY <3>2, <3>3, Zenon DEF FullTo
    <3>5. l \in Nat /\ l <= m
      <4>1. n \in 1..n
        BY <2>1
      <4> HIDE DEF n
      <4> QED
        BY <2>7, <4>1
    <3> HIDE DEF l
    <3>6. q \in 0..(m * (n - 1) + l - 1)
      <4>1. Len(all) = m * (n - 1) + l
        BY <3>4
      <4> HIDE DEF m, n
      <4> QED
        BY <2>1, <3>3, <3>5, <4>1
    <3> HIDE DEF m, n
    <3>7. d \in Nat /\ d + 1 \in 1..n /\ (d + 1 = n => r + 1 \in 1..l) /\ r + 1 \in 1..m
      BY <2>1, <3>5, <3>6, PlaceInside
    <3> HIDE DEF d, r
    <3>8. r + 1 \in 1..Len(s[d + 1])
      <4>1. CASE d + 1 = n
        BY <3>7, <4>1 DEF l
      <4>2. CASE d + 1 # n
        <5>1. d + 1 \in 1..(n - 1)
          BY <2>1, <3>7, <4>2
        <5> QED
          BY <3>1, <3>7, <5>1, Zenon
      <4> QED
        BY <4>1, <4>2
    <3>9. s[d + 1][r + 1] = <<abs(d + 1), r + 1>>
      BY <2>7, <3>7, <3>8, Zenon
    <3>10. (d + 1) - 1 = d
      BY <3>7
    <3> QED
      BY <3>4, <3>9, <3>10, Zenon DEF d, r, m, Place
  <2> HIDE DEF n
  <2> QED
    BY <2>2, <2>8, <2>9, <2>10, <2>11, Zenon
<1> QED
  BY <1>1, <1>2

\* The bytes of an entry never straddle two blocks.
LEMMA WithinOneBlock ==
    ASSUME NEW size \in Nat \ {0}, NEW c \in Nat \ {0}, NEW k \in Nat, NEW j \in 0..(size - 1)
    PROVE  /\ (k * size + j) \div (size * c) = (k * size) \div (size * c)
           /\ (k * size + j) % (size * c) = ((k * size) % (size * c)) + j
<1> DEFINE d == k \div c
           e == k % c
           m == size * c
<1>1. k = c * d + e /\ e \in 0..(c - 1) /\ d \in Nat
  BY Division
<1> HIDE DEF d, e
<1>2. size * e + size <= size * c
  BY <1>1, MultiplesApart
<1>3. size * e \in Nat /\ m \in Nat \ {0}
  BY <1>1
<1>4. k * size = m * d + size * e
  <2>1. k * size = (c * d) * size + e * size
    BY <1>1
  <2> QED
    BY <1>1, <2>1
<1>5. size * e + j \in 0..(m - 1) /\ size * e \in 0..(m - 1)
  BY <1>2, <1>3
<1>6. k * size + j = m * d + (size * e + j)
  BY <1>1, <1>3, <1>4
<1> HIDE DEF m
<1>7. /\ (m * d + size * e) \div m = d /\ (m * d + size * e) % m = size * e
      /\ (m * d + (size * e + j)) \div m = d /\ (m * d + (size * e + j)) % m = size * e + j
  <2>1. ASSUME NEW r \in 0..(m - 1) PROVE (m * d + r) \div m = d /\ (m * d + r) % m = r
    BY <1>1, <1>3, DivisionIsUnique, ZenonT(60)
  <2> QED
    BY <1>5, <2>1, ZenonT(60)
<1> QED
  BY <1>4, <1>6, <1>7 DEF m

EntrySizes == {4, 8, 16}

\* A metadata block holds a whole number of entries of each size.
LEMMA WholeEntries ==
    \A size \in EntrySizes : \E c \in Nat \ {0} : MetadataSize = size * c
<1>1. PICK m \in Nat \ {0} : m = MetadataSize
  BY SizesAssumption
<1>2. m % 16 = 0
  BY <1>1, SizesAssumption
<1> DEFINE c == m \div 16
<1>3. m = 16 * c /\ c \in Nat
  BY <1>2
<1> HIDE DEF c
<1>4. m = 4 * (4 * c) /\ m = 8 * (2 * c) /\ c # 0
  BY <1>1, <1>3
<1>5. 4 * c \in Nat \ {0} /\ 2 * c \in Nat \ {0} /\ c \in Nat \ {0}
  BY <1>3, <1>4
<1> QED
  BY <1>1, <1>3, <1>4, <1>5 DEF EntrySizes

\* Every entry of a table that could be read is the one stored under its
\* index.
LEMMA EntriesOf ==
    ASSUME image \in Images, NEW start \in Nat, NEW count \in Nat, NEW size \in EntrySizes,
           ReadIndirectTable(start, count * size) # Refused
    PROVE  /\ Entries(start, count, size) # Refused
           /\ Entries(start, count, size) \in Seq(Seq(Byte))
           /\ Len(Entries(start, count, size)) = count
           /\ HoldsEntries(Entries(start, count, size), start, size)
<1> DEFINE bytes == ReadIndirectTable(start, count * size)
           table == Entries(start, count, size)
           entry(n) == SubSeq(bytes, (n - 1) * size + 1, n * size)
<1>1. size \in Nat \ {0} /\ count * size \in Nat
  BY DEF EntrySizes
<1>2. bytes # Refused /\ table = [n \in 1..count |-> entry(n)]
  BY DEF Entries
<1>3. /\ bytes \in Seq(Byte) /\ Len(bytes) >= count * size
      /\ \A k \in 1..(count * size) : IsByte(bytes[k], start, count * size, k)
      /\ FullBlocks(start, count * size) =>
            \A q \in 0..(count * size - 1) : bytes[q + 1] = Place(start, q)
  BY <1>1, <1>2, ReadTable
<1> HIDE DEF bytes, table
<1>4. ASSUME NEW n \in 1..count
      PROVE  /\ entry(n) \in Seq(Byte)
             /\ entry(n) = [j \in 1..size |-> bytes[(n - 1) * size + j]]
             /\ \A j \in 1..size : (n - 1) * size + j - 1 \in 0..(count * size - 1)
             /\ \A j \in 1..size : (n - 1) * size + j \in 1..(count * size)
             /\ Len(entry(n)) = size
  <2> DEFINE a == (n - 1) * size
  <2>1. a \in Nat /\ n * size = a + size
    BY <1>1
  <2>2. a + size <= count * size
    <3>1. CASE n = count
      <4>1. n * size = count * size
        BY <3>1
      <4> HIDE DEF a
      <4> QED
        BY <1>1, <2>1, <4>1
    <3>2. CASE n < count
      <4>1. size * n + size <= size * count
        BY <1>1, <3>2, MultiplesApart
      <4> QED
        BY <1>1, <2>1, <4>1
    <3> QED
      BY <3>1, <3>2
  <2> HIDE DEF a
  <2>3. a + 1 \in 1..(Len(bytes) + 1) /\ a + size \in ((a + 1) - 1)..Len(bytes)
    BY <1>1, <1>3, <2>1, <2>2
  <2> DEFINE e == SubSeq(bytes, a + 1, a + size)
  <2>4. /\ e \in Seq(Byte) /\ Len(e) = size
        /\ \A j \in 1..size : e[j] = bytes[a + j]
    BY <1>1, <1>3, <2>1, <2>3, SubSeqProperties
  <2>5. e = entry(n)
    BY <2>1 DEF a
  <2> HIDE DEF e
  <2>6. e = [j \in 1..size |-> bytes[a + j]]
    BY <1>1, <2>4
  <2>7. \A j \in 1..size : a + j - 1 \in 0..(count * size - 1) /\ a + j \in 1..(count * size)
    BY <1>1, <2>1, <2>2
  <2> HIDE DEF entry
  <2> QED
    BY <2>4, <2>5, <2>6, <2>7 DEF a
<1>5. table \in Seq(Seq(Byte)) /\ Len(table) = count
  <2> HIDE DEF entry
  <2> QED
    BY <1>2, <1>4
<1>6. ASSUME FullBlocks(start, count * size), NEW n \in 1..count
      PROVE  table[n] = EntryAt(start, n, size)
  <2> DEFINE a == (n - 1) * size
             abs == Word(start + 8 * (a \div MetadataSize))
             within == a % MetadataSize
  <2>1. ASSUME NEW j \in 1..size
        PROVE  bytes[a + j] = <<abs, within + j>>
    <3>1. a + j - 1 \in 0..(count * size - 1)
      BY <1>4
    <3>2. bytes[(a + j - 1) + 1] = Place(start, a + j - 1)
      BY <1>3, <1>6, <3>1, Zenon
    <3>3. PICK c \in Nat \ {0} : MetadataSize = size * c
      BY WholeEntries
    <3>4. n - 1 \in Nat /\ j - 1 \in 0..(size - 1) /\ a \in Nat
      BY <1>1
    <3>5. /\ (a + (j - 1)) \div MetadataSize = a \div MetadataSize
          /\ (a + (j - 1)) % MetadataSize = within + (j - 1)
      BY <1>1, <3>3, <3>4, WithinOneBlock
    <3>6. within \in Nat
      BY <3>4, SizesAssumption
    <3> HIDE DEF a, within
    <3>7. a + j - 1 = a + (j - 1) /\ (a + j - 1) + 1 = a + j /\ within + (j - 1) + 1 = within + j
      BY <3>4, <3>6
    <3> QED
      BY <3>2, <3>5, <3>7, Zenon DEF Place
  <2>2. table[n] = entry(n)
    BY <1>2
  <2>3. table[n] = [j \in 1..size |-> bytes[a + j]]
    BY <1>4, <2>2, Zenon
  <2> HIDE DEF a, abs, within
  <2>4. table[n] = [j \in 1..size |-> <<abs, within + j>>]
    BY <2>1, <2>3
  <2> QED
    BY <2>4, Zenon DEF a, abs, within, EntryAt
<1>7. ASSUME NEW n \in 1..count
      PROVE  /\ Len(table[n]) = size
             /\ \A j \in 1..size : IsByte(table[n][j], start, count * size, (n - 1) * size + j)
  <2> DEFINE a == (n - 1) * size
  <2>1. table[n] = entry(n) /\ Len(entry(n)) = size
    BY <1>2, <1>4
  <2>2. table[n] = [j \in 1..size |-> bytes[a + j]] /\ \A j \in 1..size : a + j \in 1..(count * size)
    BY <1>4, <2>1, Zenon
  <2> HIDE DEF a, entry
  <2>3. \A j \in 1..size : table[n][j] = bytes[a + j]
    BY <2>2
  <2> QED
    BY <1>3, <2>1, <2>2, <2>3, Zenon DEF a
<1>8. HoldsEntries(table, start, size)
  BY <1>5, <1>6, <1>7, Zenon DEF HoldsEntries
<1> QED
  <2>1. table # Refused
    BY <1>5, SizesAssumption, Zenon DEF Byte
  <2> QED
    BY <1>5, <1>8, <2>1 DEF table

\* Entries returns as many entries as counted, each from its place.
LEMMA ReadEntries ==
    ASSUME image \in Images, NEW start \in Nat, NEW count \in Nat, NEW size \in EntrySizes,
           Entries(start, count, size) # Refused
    PROVE  /\ Entries(start, count, size) \in Seq(Seq(Byte))
           /\ Len(Entries(start, count, size)) = count
           /\ HoldsEntries(Entries(start, count, size), start, size)
<1>1. ReadIndirectTable(start, count * size) # Refused
  BY DEF Entries
<1> QED
  BY <1>1, EntriesOf

\* IdTable::read.
LEMMA ReadIdEntries ==
    ASSUME image \in Images, ReadIdTable # Refused
    PROVE  /\ Len(ReadIdTable) = sb.idCount
           /\ HoldsEntries(ReadIdTable, sb.idTableStart, IdEntrySize)
<1>1. sb.idTableStart \in Nat /\ sb.idCount \in Nat /\ IdEntrySize \in EntrySizes
  BY Fields DEF IdEntrySize, EntrySizes
<1> QED
  BY <1>1, ReadEntries DEF ReadIdTable

\* FragmentTable::read.
LEMMA ReadFragmentEntries ==
    ASSUME image \in Images, ReadFragmentTable # Refused
    PROVE  /\ Len(ReadFragmentTable) = sb.fragmentEntryCount
           /\ HoldsEntries(ReadFragmentTable, sb.fragmentTableStart, FragmentEntrySize)
<1>1. /\ sb.fragmentTableStart \in Nat /\ sb.fragmentEntryCount \in Nat
      /\ FragmentEntrySize \in EntrySizes
  BY Fields DEF FragmentEntrySize, EntrySizes
<1> QED
  BY <1>1, ReadEntries DEF ReadFragmentTable

\* XattrIdTable::read.
LEMMA ReadXattrEntries ==
    ASSUME image \in Images, ReadXattrIdTable # Refused
    PROVE  /\ ReadXattrIdTable = Absent <=> sb.xattrTableStart = NoTable
           /\ HoldsEntries(ReadXattrIdTable, sb.xattrTableStart + XattrHeaderSize,
                           XattrIdEntrySize)
<1> DEFINE header == sb.xattrTableStart
           count == LowHalf(Word(header + 8))
           start == header + XattrHeaderSize
<1>1. CASE header = NoTable
  BY <1>1 DEF ReadXattrIdTable, HoldsEntries
<1>2. CASE header # NoTable
  <2>1. count # Refused /\ ReadXattrIdTable = Entries(start, count, XattrIdEntrySize)
    BY <1>2 DEF ReadXattrIdTable
  <2>2. header \in Nat /\ count \in Nat
    BY <2>1, Fields, WordTypes, WidthAssumption DEF LowHalf
  <2>3. start \in Nat /\ XattrIdEntrySize \in EntrySizes
    BY <2>2 DEF XattrHeaderSize, XattrIdEntrySize, EntrySizes
  <2>4. /\ ReadXattrIdTable \in Seq(Seq(Byte))
        /\ HoldsEntries(ReadXattrIdTable, start, XattrIdEntrySize)
    <3> HIDE DEF count, start
    <3> QED
      BY <2>1, <2>2, <2>3, ReadEntries
  <2>5. ReadXattrIdTable # Absent
    BY <2>4, SizesAssumption, Zenon DEF Byte
  <2> QED
    BY <1>2, <2>4, <2>5
<1> QED
  BY <1>1, <1>2

\* The export table's pointers: as many as its entries need.
LEMMA PointersOf ==
    ASSUME image \in Images, NEW start \in Nat, NEW bytes \in Nat
    PROVE  /\ Pointers(start, bytes) \in Seq(Nat \cup {Refused})
           /\ Len(Pointers(start, bytes)) = BlocksFor(bytes)
           /\ Pointers(start, bytes) # Refused /\ Pointers(start, bytes) # Absent
<1>1. BlocksFor(bytes) \in Nat
  BY BlocksHold
<1>2. /\ Pointers(start, bytes) \in Seq(Nat \cup {Refused})
      /\ Len(Pointers(start, bytes)) = BlocksFor(bytes)
  BY <1>1, WordTypes DEF Pointers
<1> QED
  BY <1>2, SizesAssumption, Zenon

\* An empty table is neither refused nor absent.
LEMMA NoBytes == << >> # Refused /\ << >> # Absent
<1>1. << >> \in Seq(Seq(Nat \X Nat))
  OBVIOUS
<1> QED
  BY <1>1, SizesAssumption, Zenon

\* ExportTable::read keeps the pointers alone.
LEMMA ReadExportPointers ==
    ASSUME image \in Images, ReadExportTable # Refused
    PROVE  /\ ReadExportTable = Absent <=> sb.exportTableStart = NoTable
           /\ ReadExportTable # Absent =>
                 /\ Len(ReadExportTable) * MetadataSize >= sb.inodeCount * ExportEntrySize
                 /\ sb.inodeCount # 0 =>
                       ReadExportTable = Pointers(sb.exportTableStart,
                                                  sb.inodeCount * ExportEntrySize)
<1> DEFINE start == sb.exportTableStart
           bytes == sb.inodeCount * ExportEntrySize
<1>1. start \in Nat /\ sb.inodeCount \in Nat /\ bytes \in Nat /\ MetadataSize \in Nat
  <2>1. start \in Nat /\ sb.inodeCount \in Nat /\ MetadataSize \in Nat
    BY Fields, SizesAssumption
  <2> QED
    BY <2>1 DEF ExportEntrySize
<1>2. CASE start = NoTable
  BY <1>2 DEF ReadExportTable
<1>3. CASE start # NoTable /\ sb.inodeCount = 0
  <2>1. ReadExportTable = << >> /\ Len(<< >>) = 0
    BY <1>3 DEF ReadExportTable
  <2>2. bytes = 0 /\ Len(ReadExportTable) * MetadataSize = 0
    BY <1>1, <1>3, <2>1 DEF ExportEntrySize
  <2> QED
    BY <1>3, <2>1, <2>2, NoBytes
<1>4. CASE start # NoTable /\ sb.inodeCount # 0
  <2>1. ReadExportTable = Pointers(start, bytes)
    BY <1>4 DEF ReadExportTable
  <2> HIDE DEF bytes
  <2>2. Len(ReadExportTable) = BlocksFor(bytes) /\ ReadExportTable # Absent
    BY <1>1, <2>1, PointersOf
  <2>3. BlocksFor(bytes) * MetadataSize >= bytes
    BY <1>1, BlocksHold
  <2> QED
    BY <1>4, <2>1, <2>2, <2>3 DEF bytes
<1> QED
  BY <1>2, <1>3, <1>4

-----------------------------------------------------------------------------
(* What an open image's tables are.                                        *)

Past == [ids |-> {"fragments", "xattrs", "exports", "end", "open"},
         fragments |-> {"xattrs", "exports", "end", "open"},
         xattrIds |-> {"exports", "end", "open"},
         exports |-> {"end", "open"}]

\* Each table, from the step that reads it on, is the one the image holds.
TablesRead ==
    /\ pc \in Past.ids => ids = ReadIdTable /\ ids # Refused
    /\ pc \in Past.fragments => fragments = ReadFragmentTable /\ fragments # Refused
    /\ pc \in Past.xattrIds => xattrIds = ReadXattrIdTable /\ xattrIds # Refused
    /\ pc \in Past.exports => exports = ReadExportTable /\ exports # Refused

\* What the readers return is a matter of the image.
LEMMA SameImage ==
    image' = image =>
        /\ sb' = sb
        /\ ReadIdTable' = ReadIdTable /\ ReadFragmentTable' = ReadFragmentTable
        /\ ReadXattrIdTable' = ReadXattrIdTable /\ ReadExportTable' = ReadExportTable
BY DEF sb, ReadIdTable, ReadFragmentTable, ReadXattrIdTable, ReadExportTable, Entries,
       ReadIndirectTable, ArrayFits, Pointers, Word

\* Every step keeps the tables of a mount those that the readers returned.
LEMMA NextTablesRead == Types /\ TablesRead /\ [Next]_vars => TablesRead'
<1> SUFFICES ASSUME Types, TablesRead, [Next]_vars PROVE TablesRead'
  OBVIOUS
<1>0. /\ ReadIdTable' = ReadIdTable /\ ReadFragmentTable' = ReadFragmentTable
      /\ ReadXattrIdTable' = ReadXattrIdTable /\ ReadExportTable' = ReadExportTable
  BY NextTypes, SameImage
<1> USE <1>0 DEF TablesRead, Past
<1>1. CASE SizeCache \/ ReadSuperblock \/ DeviceFails \/ \E blocks \in CacheBlocks : Begin(blocks)
  BY <1>1 DEF SizeCache, ReadSuperblock, DeviceFails, Begin
<1>2. CASE ReadIds
  BY <1>2 DEF ReadIds
<1>3. CASE ReadFragments
  BY <1>3 DEF ReadFragments
<1>4. CASE ReadXattrIds
  BY <1>4 DEF ReadXattrIds
<1>5. CASE ReadExports
  BY <1>5 DEF ReadExports
<1>6. CASE ProbeTable \/ ProbeFails \/ Opened \/ Close
  BY <1>6 DEF ProbeTable, ProbeFails, Opened, Close, tableVars
<1>7. CASE \E n \in Numbers : LookupNumber(n) \/ LookupFails(n)
  BY <1>7 DEF LookupNumber, LookupFails, tableVars
<1>8. CASE UNCHANGED vars
  BY <1>8 DEF vars, tableVars
<1> QED
  BY <1>1, <1>2, <1>3, <1>4, <1>5, <1>6, <1>7, <1>8 DEF Next, Step

\* An image opens with every table in full, each entry cut from the bytes of the
\* table's blocks without a gap, and where the blocks are full the one the format
\* stores under its index, whatever the tables' lengths.
THEOREM TablesIndexed == Spec => []EntriesIndexed
<1> DEFINE Inv == Types /\ TablesRead
<1>1. Init => Inv
  BY DEF Init, Types, Stages, TablesRead, Past
<1>2. Inv /\ [Next]_vars => Inv'
  BY NextTypes, NextTablesRead
<1>3. Inv => EntriesIndexed
  <2> SUFFICES ASSUME Inv, pc = "open" PROVE EntriesIndexed
    BY DEF EntriesIndexed
  <2>1. /\ image \in Images
        /\ ids = ReadIdTable /\ ids # Refused
        /\ fragments = ReadFragmentTable /\ fragments # Refused
        /\ xattrIds = ReadXattrIdTable /\ xattrIds # Refused
        /\ exports = ReadExportTable /\ exports # Refused
    BY DEF Types, TablesRead, Past
  <2> QED
    BY <2>1, ReadIdEntries, ReadFragmentEntries, ReadXattrEntries, ReadExportPointers
       DEF EntriesIndexed
<1> HIDE DEF Inv
<1> QED
  BY <1>1, <1>2, <1>3, PTL DEF Spec

-----------------------------------------------------------------------------
(* What an intact image promises.                                          *)

\* A table stored as the format has it is read.
LEMMA StoredReads ==
    ASSUME image \in Images, sb.bytesUsed <= image.size, NEW start \in Nat, NEW bytes \in Nat,
           bytes > 0 => TableStored(image, start, bytes)
    PROVE  /\ ReadIndirectTable(start, bytes) # Refused
           /\ bytes > 0 => ArrayFits(start, bytes)
<1>1. CASE bytes = 0
  BY <1>1, NoBytes DEF ReadIndirectTable
<1>2. CASE bytes > 0
  <2> DEFINE m == MetadataSize
             n == BlocksFor(bytes)
             abs(i) == Word(start + 8 * (i - 1))
             block == [i \in 1..n |-> ReadBlock(image.blocks, Pointers(start, bytes)[i])]
             s == [i \in DOMAIN block |-> block[i].bytes]
             all == FlattenSeq(s)
             last == bytes - m * (n - 1)
  <2>1. m \in Nat \ {0} /\ n \in Nat \ {0} /\ bytes <= m * n /\ m * (n - 1) < bytes
    BY <1>2, SizesAssumption, BlocksHold
  <2>2. /\ start + 8 * n <= sb.bytesUsed
        /\ \A i \in 1..n :
              /\ ReadBlock(image.blocks, abs(i)) # Refused
              /\ Len(ReadBlock(image.blocks, abs(i)).bytes) = IF i < n THEN m ELSE last
    BY <1>2 DEF TableStored, Word, sb
  <2>3. ArrayFits(start, bytes)
    <3> HIDE DEF n
    <3>1. sb.bytesUsed \in Nat /\ image.size \in Nat
      BY Fields
    <3>2. Min({sb.bytesUsed, image.size}) = sb.bytesUsed
      BY <3>1, LesserOfTwo
    <3> DEFINE room == sb.bytesUsed - start
    <3>3. room \in Nat /\ 8 * n <= room
      BY <2>1, <2>2, <3>1
    <3> HIDE DEF room
    <3>4. Max({0, room}) = room
      BY <3>3 DEF Max
    <3> QED
      BY <3>2, <3>3, <3>4 DEF ArrayFits, room, n
  <2>4. \A i \in 1..n : block[i] = ReadBlock(image.blocks, abs(i)) /\ block[i] # Refused
    BY <2>1, <2>2 DEF Pointers
  <2>5. DOMAIN block = 1..n
    OBVIOUS
  <2>6. Refused \notin ToSet(block)
    <3> HIDE DEF block
    <3> QED
      BY <2>4, <2>5 DEF ToSet
  <2>7. ReadIndirectTable(start, bytes) = IF Len(all) < bytes THEN Refused ELSE all
    <3>1. bytes # 0
      BY <1>2
    <3> QED
      BY <2>3, <2>6, <3>1 DEF ReadIndirectTable
  <2> HIDE DEF block
  <2>8. Len(s) = n /\ \A i \in 1..n : s[i] = block[i].bytes
    BY <2>1, <2>5
  <2> HIDE DEF s, all
  <2>9. ASSUME NEW i \in 1..n
        PROVE  /\ s[i] \in Seq(Byte) /\ Len(s[i]) <= m
               /\ Len(s[i]) = IF i < n THEN m ELSE last
    <3>1. s[i] = ReadBlock(image.blocks, abs(i)).bytes /\ ReadBlock(image.blocks, abs(i)) # Refused
      BY <2>4, <2>8
    <3>2. Len(s[i]) = IF i < n THEN m ELSE last
      BY <2>2, <3>1
    <3> HIDE DEF abs, n, last
    <3> QED
      BY <2>1, <3>1, <3>2, BlockBytes
  <2>10. n \in 1..n /\ \A i \in 1..(n - 1) : i \in 1..n /\ i < n
    BY <2>1
  <2>11. Len(s[n]) = last /\ \A i \in 1..(n - 1) : Len(s[i]) = m
    <3> HIDE DEF n, m, last
    <3> QED
      BY <2>1, <2>9, <2>10
  <2>12. FullTo(all, Byte, m, s, n)
    <3> HIDE DEF m, n
    <3> QED
      BY <2>1, <2>8, <2>9, <2>11, FlattenFull DEF all
  <2>13. all \in Seq(Byte) /\ Len(all) = m * (n - 1) + last
    BY <2>11, <2>12 DEF FullTo
  <2>14. m * (n - 1) + last = bytes
    <3>1. m * (n - 1) \in Nat
      BY <2>1
    <3> QED
      BY <3>1
  <2>15. ReadIndirectTable(start, bytes) = all
    BY <2>7, <2>13, <2>14
  <2>16. all # Refused
    BY <2>13, SizesAssumption, Zenon DEF Byte
  <2> QED
    BY <2>3, <2>15, <2>16
<1> QED
  BY <1>1, <1>2

\* The device apart, each step of the open of an intact image goes on to the
\* next.
LEMMA IntactReads ==
    ASSUME image \in Images, image.intact
    PROVE  /\ Parses(sb) /\ Valid(sb, image.size) /\ KnownCompressor(sb)
           /\ ReadIdTable # Refused /\ ReadFragmentTable # Refused
           /\ ReadXattrIdTable # Refused /\ ReadExportTable # Refused
<1>1. Intact(image)
  BY IntactAssumption
<1>2. /\ Parses(sb) /\ Valid(sb, image.size) /\ KnownCompressor(sb)
      /\ sb.bytesUsed <= image.size
  BY <1>1 DEF Intact, sb, Valid
<1>3. /\ {sb.idTableStart, sb.fragmentTableStart, sb.exportTableStart, sb.xattrTableStart,
          sb.inodeCount, sb.idCount, sb.fragmentEntryCount} \subseteq Nat
      /\ {IdEntrySize, FragmentEntrySize, XattrIdEntrySize} \subseteq EntrySizes
  BY Fields DEF IdEntrySize, FragmentEntrySize, XattrIdEntrySize, EntrySizes
<1>4. ReadIdTable # Refused
  <2> DEFINE bytes == sb.idCount * IdEntrySize
  <2>1. bytes \in Nat /\ (bytes > 0 => sb.idCount > 0)
    BY <1>3 DEF IdEntrySize
  <2>2. sb.idCount > 0 => TableStored(image, sb.idTableStart, bytes)
    BY <1>1 DEF Intact, sb
  <2> HIDE DEF bytes
  <2>3. ReadIndirectTable(sb.idTableStart, bytes) # Refused
    BY <1>2, <1>3, <2>1, <2>2, StoredReads
  <2> QED
    BY <1>3, <2>3, EntriesOf DEF bytes, ReadIdTable
<1>5. ReadFragmentTable # Refused
  <2> DEFINE bytes == sb.fragmentEntryCount * FragmentEntrySize
  <2>1. bytes \in Nat /\ (bytes > 0 => sb.fragmentEntryCount > 0)
    BY <1>3 DEF FragmentEntrySize
  <2>2. sb.fragmentEntryCount > 0 => TableStored(image, sb.fragmentTableStart, bytes)
    BY <1>1 DEF Intact, sb
  <2> HIDE DEF bytes
  <2>3. ReadIndirectTable(sb.fragmentTableStart, bytes) # Refused
    BY <1>2, <1>3, <2>1, <2>2, StoredReads
  <2> QED
    BY <1>3, <2>3, EntriesOf DEF bytes, ReadFragmentTable
<1>6. ReadXattrIdTable # Refused
  <2> DEFINE header == sb.xattrTableStart
             count == LowHalf(Word(header + 8))
             start == header + XattrHeaderSize
             bytes == count * XattrIdEntrySize
  <2>1. CASE header = NoTable
    <3>1. ReadXattrIdTable = Absent
      BY <2>1 DEF ReadXattrIdTable
    <3> QED
      BY <3>1, SizesAssumption
  <2>2. CASE header # NoTable
    <3>1. /\ count # Refused
          /\ count # 0 => Word(header) < header /\ TableStored(image, start, bytes)
      BY <1>1, <2>2 DEF Intact, XattrIdsStored, Word, sb
    <3>2. header \in Nat /\ count \in Nat /\ bytes \in Nat /\ start \in Nat
      BY <1>3, <3>1, WordTypes, WidthAssumption DEF LowHalf, XattrIdEntrySize, XattrHeaderSize
    <3>3. bytes > 0 => count # 0
      BY <3>2 DEF XattrIdEntrySize
    <3>4. count # 0 => ~(Word(header) >= header)
      <4> SUFFICES ASSUME count # 0 PROVE ~(Word(header) >= header)
        OBVIOUS
      <4>1. header + 16 <= image.size /\ image.size \in Nat
        BY <3>1, <3>2, Fields DEF Word, WordOf, LowHalf
      <4>2. Word(header) \in Nat
        BY <3>2, <4>1, Fields DEF Word, WordOf
      <4> QED
        BY <3>1, <3>2, <4>2
    <3>5. ReadXattrIdTable = Entries(start, count, XattrIdEntrySize)
      BY <2>2, <3>1, <3>4 DEF ReadXattrIdTable
    <3> HIDE DEF bytes, start, count
    <3>6. ReadIndirectTable(start, bytes) # Refused
      BY <1>2, <3>1, <3>2, <3>3, StoredReads
    <3> QED
      BY <1>3, <3>2, <3>5, <3>6, EntriesOf DEF bytes
  <2> QED
    BY <2>1, <2>2
<1>7. ReadExportTable # Refused
  <2> DEFINE start == sb.exportTableStart
             bytes == sb.inodeCount * ExportEntrySize
  <2>1. bytes \in Nat /\ start \in Nat /\ (sb.inodeCount # 0 => bytes > 0)
    BY <1>3 DEF ExportEntrySize
  <2>2. start # NoTable => TableStored(image, start, bytes)
    BY <1>1 DEF Intact, sb
  <2>3. start # NoTable /\ sb.inodeCount # 0 => ArrayFits(start, bytes)
    <3> HIDE DEF bytes
    <3> QED
      BY <1>2, <2>1, <2>2, StoredReads
  <2>4. Pointers(start, bytes) # Refused
    <3> HIDE DEF bytes
    <3> QED
      BY <2>1, PointersOf
  <2> QED
    BY <2>3, <2>4, NoBytes, SizesAssumption DEF ReadExportTable
<1> QED
  BY <1>2, <1>4, <1>5, <1>6, <1>7

\* An open of an intact image that failed met a device that failed.
IntactTried == pc = "failed" /\ image.intact => deviceFailed

\* Every step keeps that an intact image fails by its device alone.
LEMMA NextIntactTried == Types /\ IntactTried /\ [Next]_vars => IntactTried'
<1> SUFFICES ASSUME Types, IntactTried, [Next]_vars, pc' = "failed", image.intact
             PROVE  deviceFailed'
  BY NextTypes DEF IntactTried
<1>1. /\ Parses(sb) /\ Valid(sb, image.size) /\ KnownCompressor(sb)
      /\ ReadIdTable # Refused /\ ReadFragmentTable # Refused
      /\ ReadXattrIdTable # Refused /\ ReadExportTable # Refused
  BY IntactReads DEF Types
<1> USE DEF IntactTried
<1>2. CASE SizeCache \/ ReadSuperblock \/ ReadIds \/ ReadFragments \/ ReadXattrIds \/ ReadExports
  BY <1>1, <1>2 DEF SizeCache, ReadSuperblock, ReadIds, ReadFragments, ReadXattrIds, ReadExports
<1>3. CASE DeviceFails
  BY <1>3 DEF DeviceFails
<1>4. CASE \E blocks \in CacheBlocks : Begin(blocks)
  BY <1>4 DEF Begin
<1>5. CASE ProbeTable \/ ProbeFails \/ Opened \/ Close
  BY <1>5 DEF ProbeTable, ProbeFails, Opened, Close
<1>6. CASE \E n \in Numbers : LookupNumber(n) \/ LookupFails(n)
  BY <1>6 DEF LookupNumber, LookupFails
<1>7. CASE UNCHANGED vars
  BY <1>7 DEF vars
<1> QED
  BY <1>2, <1>3, <1>4, <1>5, <1>6, <1>7 DEF Next, Step

\* An intact image is refused by nothing but its device, however many opens
\* came before.
THEOREM IntactOpens == Spec => []OpensIntact
<1> DEFINE Inv == Types /\ IntactTried
<1>1. Init => Inv
  BY DEF Init, Types, Stages, IntactTried
<1>2. Inv /\ [Next]_vars => Inv'
  BY NextTypes, NextIntactTried
<1>3. Inv => OpensIntact
  BY DEF IntactTried, OpensIntact
<1> HIDE DEF Inv
<1> QED
  BY <1>1, <1>2, <1>3, PTL DEF Spec

-----------------------------------------------------------------------------
(* What a lookup answers.                                                  *)

LookupRight(n, answer) ==
    IF sb.exportTableStart = NoTable THEN answer = NotExportable
    ELSE IF n \notin 1..sb.inodeCount THEN answer = NotFound
    ELSE \/ answer = EntryAt(sb.exportTableStart, n, ExportEntrySize)
         \/ answer = IoError
         \/ answer = Refused /\ ~image.intact

\* Entry n of a table lies in one of its blocks.
LEMMA EntryInside ==
    ASSUME NEW count \in Nat, NEW n \in 1..count
    PROVE  LET byte == (n - 1) * ExportEntrySize
               total == BlocksFor(count * ExportEntrySize)
               within == byte % MetadataSize
               block == byte \div MetadataSize + 1
           IN  /\ block \in 1..total
               /\ block - 1 = byte \div MetadataSize
               /\ within \in Nat
               /\ within + ExportEntrySize <=
                     IF block < total THEN MetadataSize
                     ELSE count * ExportEntrySize - MetadataSize * (total - 1)
<1> DEFINE byte == (n - 1) * ExportEntrySize
           bytes == count * ExportEntrySize
           m == MetadataSize
           d == byte \div m
           r == byte % m
           total == BlocksFor(bytes)
<1>1. /\ byte \in Nat /\ bytes \in Nat /\ bytes # 0
      /\ byte + 8 <= bytes /\ m \in Nat \ {0} /\ ExportEntrySize = 8
  BY SizesAssumption DEF ExportEntrySize
<1>2. total \in Nat \ {0} /\ m * (total - 1) < bytes /\ bytes <= m * total
  BY <1>1, BlocksHold
<1>3. byte = m * d + r /\ r \in 0..(m - 1) /\ d \in Nat
  <2> HIDE DEF byte, m
  <2> QED
    BY <1>1, Division
<1>4. r + 8 <= m
  <2>1. PICK c \in Nat \ {0} : m = 8 * c
    BY WholeEntries DEF EntrySizes
  <2>2. n - 1 \in Nat /\ byte = (n - 1) * 8 /\ byte + 7 = (n - 1) * 8 + 7
    BY <1>1
  <2>3. ((n - 1) * 8 + 7) % (8 * c) = (((n - 1) * 8) % (8 * c)) + 7
    BY <2>2, WithinOneBlock
  <2>4. (byte + 7) % m = r + 7
    BY <2>1, <2>2, <2>3
  <2>5. byte + 7 \in Nat
    BY <1>1
  <2> HIDE DEF byte, m, r
  <2>6. (byte + 7) % m \in 0..(m - 1)
    BY <1>1, <2>5, Division
  <2> QED
    BY <1>1, <1>3, <2>4, <2>6
<1> HIDE DEF byte, bytes, m, total, d, r
<1>5. d < total
  <2> SUFFICES ASSUME d > total - 1 PROVE FALSE
    BY <1>2, <1>3
  <2>1. m * (total - 1) + m <= m * d
    BY <1>1, <1>2, <1>3, MultiplesApart
  <2>2. m * (total - 1) + m = m * total
    BY <1>1, <1>2
  <2> QED
    BY <1>1, <1>2, <1>3, <2>1, <2>2
<1>6. ASSUME ~(d + 1 < total) PROVE r + 8 <= bytes - m * (total - 1)
  <2>1. d = total - 1
    BY <1>2, <1>3, <1>5, <1>6
  <2>2. byte = m * (total - 1) + r /\ m * (total - 1) \in Nat
    BY <1>1, <1>2, <1>3, <2>1
  <2> QED
    BY <1>1, <1>3, <2>2
<1>7. d + 1 \in 1..total /\ (d + 1) - 1 = d
  BY <1>2, <1>3, <1>5
<1> QED
  BY <1>1, <1>3, <1>4, <1>6, <1>7 DEF d, r, byte, m, total, bytes

\* ExportTable::lookup in a table that opened.
LEMMA LookupIsRight ==
    ASSUME image \in Images, exports = ReadExportTable, exports # Refused, NEW n \in Nat
    PROVE  LookupRight(n, Lookup(n))
<1> DEFINE start == sb.exportTableStart
           count == sb.inodeCount
           bytes == count * ExportEntrySize
           byte == (n - 1) * ExportEntrySize
           within == byte % MetadataSize
           block == byte \div MetadataSize + 1
           total == BlocksFor(bytes)
           abs == Word(start + 8 * (byte \div MetadataSize))
           data == ReadBlock(image.blocks, abs)
<1>0. start \in Nat /\ count \in Nat /\ bytes \in Nat
  BY Fields DEF ExportEntrySize
<1>1. CASE start = NoTable
  BY <1>1, ReadExportPointers DEF LookupRight, Lookup
<1>2. CASE start # NoTable /\ n \notin 1..count
  <2>1. exports # Absent
    BY <1>2, ReadExportPointers
  <2>2. n = 0 \/ n > count
    BY <1>0, <1>2
  <2> QED
    BY <1>2, <2>1, <2>2 DEF LookupRight, Lookup
<1>3. CASE start # NoTable /\ n \in 1..count
  <2>1. exports # Absent /\ exports = Pointers(start, bytes)
    BY <1>0, <1>3, ReadExportPointers
  <2>2. ~(n = 0 \/ n > count)
    BY <1>0, <1>3
  <2>3. /\ block \in 1..total /\ within \in Nat
        /\ block - 1 = byte \div MetadataSize
        /\ within + ExportEntrySize <= IF block < total THEN MetadataSize
                                       ELSE bytes - MetadataSize * (total - 1)
    BY <1>0, <1>3, EntryInside
  <2>4. Len(exports) = total /\ total \in Nat
    BY <1>0, <2>1, PointersOf, BlocksHold
  <2>5. exports[block] = abs
    <3>1. exports[block] = Word(start + 8 * (block - 1))
      BY <2>1, <2>3 DEF Pointers
    <3> QED
      BY <2>3, <3>1, Zenon
  <2>6. Lookup(n) = IF data = Refused THEN Refused
                    ELSE IF within + ExportEntrySize > Len(data.bytes) THEN Refused
                    ELSE SubSeq(data.bytes, within + 1, within + ExportEntrySize)
    <3>1. ~(block > Len(exports))
      BY <2>3, <2>4
    <3> QED
      BY <2>1, <2>2, <2>5, <3>1 DEF Lookup
  <2>7. CASE data # Refused /\ within + ExportEntrySize <= Len(data.bytes)
    <3>1. /\ data.bytes \in Seq(Byte)
          /\ \A i \in 1..Len(data.bytes) : data.bytes[i] = <<abs, i>>
      BY <2>7, BlockBytes
    <3>2. ExportEntrySize = 8
      BY DEF ExportEntrySize
    <3>3. EntryAt(start, n, ExportEntrySize) = [j \in 1..ExportEntrySize |-> <<abs, within + j>>]
      BY DEF EntryAt
    <3> DEFINE e == SubSeq(data.bytes, within + 1, within + ExportEntrySize)
    <3> HIDE DEF data, abs, within
    <3>4. /\ e \in Seq(Byte) /\ Len(e) = 8
          /\ \A j \in 1..8 : e[j] = data.bytes[within + j]
      BY <2>3, <2>7, <3>1, <3>2, SubSeqProperties
    <3>5. \A j \in 1..8 : e[j] = <<abs, within + j>>
      BY <2>3, <2>7, <3>1, <3>2, <3>4
    <3>6. e = [j \in 1..8 |-> <<abs, within + j>>]
      <4>1. e \in Seq(Byte) /\ Len(e) = 8
        BY <3>4
      <4> HIDE DEF e, start, count, bytes, byte, block, total
      <4>2. e = [j \in 1..8 |-> e[j]]
        BY <4>1
      <4> QED
        BY <3>5, <4>2
    <3>7. Lookup(n) = e
      <4>1. ~(within + ExportEntrySize > Len(data.bytes))
        BY <2>3, <2>7, <3>1, <3>2
      <4> QED
        BY <2>6, <2>7, <4>1
    <3> QED
      BY <1>3, <3>2, <3>3, <3>6, <3>7 DEF LookupRight
  <2>8. CASE ~(data # Refused /\ within + ExportEntrySize <= Len(data.bytes))
    <3>1. ASSUME image.intact PROVE FALSE
      <4>1. TableStored(image, start, bytes)
        BY <1>3, <3>1, IntactAssumption DEF Intact, sb
      <4>3. abs = WordOf(image, start + 8 * (block - 1))
        BY <2>3, Zenon DEF Word
      <4>4. /\ data # Refused
            /\ Len(data.bytes) = IF block < total THEN MetadataSize
                                 ELSE bytes - MetadataSize * (total - 1)
        BY <2>3, <4>1, <4>3 DEF TableStored
      <4> HIDE DEF data, within, block, total, bytes
      <4> QED
        BY <2>3, <2>8, <4>4
    <3>2. Lookup(n) = Refused
      <4>1. CASE data = Refused
        BY <2>6, <4>1
      <4>2. CASE data # Refused
        <5>1. data.bytes \in Seq(Byte)
          BY <4>2, BlockBytes
        <5>2. Len(data.bytes) \in Nat /\ ExportEntrySize = 8
          BY <5>1 DEF ExportEntrySize
        <5> HIDE DEF data, within
        <5>3. within + ExportEntrySize > Len(data.bytes)
          BY <2>3, <2>8, <4>2, <5>2
        <5> QED
          BY <2>6, <4>2, <5>3
      <4> QED
        BY <4>1, <4>2
    <3> QED
      BY <1>3, <3>1, <3>2 DEF LookupRight
  <2> QED
    BY <2>7, <2>8
<1> QED
  BY <1>1, <1>2, <1>3

\* Every step keeps lookups right.
LEMMA NextLookup ==
    Types /\ TablesRead /\ LookupNeverWrong /\ [Next]_vars => LookupNeverWrong'
<1> SUFFICES ASSUME Types, TablesRead, LookupNeverWrong, [Next]_vars PROVE LookupNeverWrong'
  OBVIOUS
<1>0. image' = image /\ sb' = sb
  BY NextTypes DEF sb
<1>1. \A start, n, size : EntryAt(start, n, size)' = EntryAt(start, n, size)
  BY <1>0 DEF EntryAt, Word
<1>2. ASSUME asked' = asked /\ found' = found PROVE LookupNeverWrong'
  BY <1>0, <1>1, <1>2 DEF LookupNeverWrong
<1>3. CASE Step
  BY <1>2, <1>3 DEF Step, SizeCache, ReadSuperblock, ReadIds, ReadFragments, ReadXattrIds,
                    ReadExports, DeviceFails, ProbeTable, ProbeFails, Opened, lookupVars
<1>4. CASE Close \/ \E blocks \in CacheBlocks : Begin(blocks)
  BY <1>2, <1>4 DEF Close, Begin, lookupVars
<1>5. ASSUME NEW n \in Numbers, LookupNumber(n) PROVE LookupNeverWrong'
  <2>1. LookupRight(n, Lookup(n))
    <3>1. exports = ReadExportTable /\ exports # Refused
      BY <1>5 DEF LookupNumber, TablesRead, Past
    <3> QED
      BY <3>1, NumbersAssumption, LookupIsRight DEF Types
  <2>2. asked' = n /\ found' = Lookup(n)
    BY <1>5 DEF LookupNumber
  <2> QED
    BY <1>0, <1>1, <2>1, <2>2 DEF LookupRight, LookupNeverWrong
<1>6. ASSUME NEW n \in Numbers, LookupFails(n) PROVE LookupNeverWrong'
  <2>1. asked' = n /\ found' = IoError /\ n \in 1..sb.inodeCount /\ exports # Absent
    BY <1>6 DEF LookupFails
  <2>2. sb.exportTableStart # NoTable
    BY <1>6, <2>1, ReadExportPointers DEF LookupFails, Types, TablesRead, Past
  <2> QED
    BY <1>0, <2>1, <2>2 DEF LookupNeverWrong
<1>7. CASE UNCHANGED vars
  BY <1>2, <1>7 DEF vars, lookupVars
<1> QED
  BY <1>3, <1>4, <1>5, <1>6, <1>7 DEF Next

\* A lookup answers with the entry of the number it was asked for or fails,
\* and an intact image's fail only with the device.
THEOREM LookupsRight == Spec => []LookupNeverWrong
<1> DEFINE Inv == Types /\ TablesRead /\ LookupNeverWrong
<1>1. Init => Inv
  BY DEF Init, Types, Stages, TablesRead, Past, LookupNeverWrong
<1>2. Inv /\ [Next]_vars => Inv'
  BY NextTypes, NextTablesRead, NextLookup
<1>3. Inv => LookupNeverWrong
  OBVIOUS
<1> HIDE DEF Inv
<1> QED
  BY <1>1, <1>2, <1>3, PTL DEF Spec

-----------------------------------------------------------------------------
(* Where listings end.                                                     *)

\* No table is asked before all are read.
NotProbed ==
    pc \in {"cache", "superblock", "ids", "fragments", "xattrs", "exports"} => probed = 0

\* No step asks a table for its first block before all are read.
LEMMA NextNotProbed == Types /\ NotProbed /\ [Next]_vars => NotProbed'
<1> SUFFICES ASSUME Types, NotProbed, [Next]_vars PROVE NotProbed'
  OBVIOUS
<1> USE DEF NotProbed
<1>1. CASE Step
  BY <1>1 DEF Step, SizeCache, ReadSuperblock, ReadIds, ReadFragments, ReadXattrIds,
              ReadExports, DeviceFails, ProbeTable, ProbeFails, Opened, endVars
<1>2. CASE Close \/ \E blocks \in CacheBlocks : Begin(blocks)
  BY <1>2 DEF Close, Begin
<1>3. CASE \E n \in Numbers : LookupNumber(n) \/ LookupFails(n)
  BY <1>3 DEF LookupNumber, LookupFails
<1>4. CASE UNCHANGED vars
  BY <1>4 DEF vars, endVars
<1> QED
  BY <1>1, <1>2, <1>3, <1>4 DEF Next

\* The end worked out so far is one that was found, and no later than any
\* pointer read so far.
EndFound ==
    pc \in {"end", "open"} =>
        /\ probed \in 0..4 /\ (pc = "open" => probed = 4)
        /\ \/ dirEnd = DirectoryTableEnd(sb)
           \/ \E i \in 1..4 : HasBlocks(i) /\ dirEnd = FirstBlock(i)
        /\ \A i \in 1..probed :
              /\ HasBlocks(i) /\ i \notin unread
              /\ FirstBlock(i) # Refused /\ FirstBlock(i) > sb.directoryTableStart
              => dirEnd <= FirstBlock(i)

\* A probe that reads a pointer leaves the end one that was found, and no later than
\* any pointer read.
LEMMA ProbeFinds ==
    ASSUME Types, EndInside, EndFound, ProbeTable
    PROVE  EndFound'
<1> DEFINE i == probed + 1
           w == FirstBlock(i)
           nearer == HasBlocks(i) /\ w # Refused /\ w > sb.directoryTableStart
<1>1. /\ image' = image /\ pc = "end" /\ pc' = pc /\ unread' = unread /\ probed' = i
      /\ probed < 4
      /\ dirEnd' = IF nearer THEN Min({dirEnd, w}) ELSE dirEnd
  BY DEF ProbeTable
<1>2. sb' = sb /\ \A j : HasBlocks(j)' = HasBlocks(j) /\ FirstBlock(j)' = FirstBlock(j)
  BY <1>1 DEF sb, HasBlocks, FirstBlock, Word
<1>3. dirEnd \in Nat
  BY <1>1 DEF EndInside
<1>4. /\ probed \in 0..4
      /\ \/ dirEnd = DirectoryTableEnd(sb)
         \/ \E j \in 1..4 : HasBlocks(j) /\ dirEnd = FirstBlock(j)
      /\ \A j \in 1..probed :
            /\ HasBlocks(j) /\ j \notin unread
            /\ FirstBlock(j) # Refused /\ FirstBlock(j) > sb.directoryTableStart
            => dirEnd <= FirstBlock(j)
  BY <1>1 DEF EndFound
<1>5. probed' \in 0..4 /\ i \in 1..4 /\ \A j \in 1..i : j \in 1..probed \/ j = i
  BY <1>1, <1>4
<1>6. CASE nearer
  <2>1. w \in Nat
    BY <1>6, WordTypes DEF FirstBlock, Types
  <2> HIDE DEF w
  <2>2. dirEnd' \in {dirEnd, w} /\ dirEnd' <= dirEnd /\ dirEnd' <= w /\ dirEnd' \in Nat
    BY <1>1, <1>3, <1>6, <2>1, LesserOfTwo
  <2>3. \/ dirEnd' = DirectoryTableEnd(sb)
        \/ \E j \in 1..4 : HasBlocks(j) /\ dirEnd' = FirstBlock(j)
    BY <1>4, <1>5, <1>6, <2>2 DEF w
  <2>4. ASSUME NEW j \in 1..i, HasBlocks(j), j \notin unread, FirstBlock(j) # Refused,
               FirstBlock(j) > sb.directoryTableStart
        PROVE  dirEnd' <= FirstBlock(j)
    <3>1. CASE j = i
      BY <2>2, <3>1 DEF w
    <3>2. CASE j # i
      <4>1. dirEnd <= FirstBlock(j)
        BY <1>4, <1>5, <2>4, <3>2
      <4>2. FirstBlock(j) \in Nat
        BY <2>4, WordTypes DEF FirstBlock, Types
      <4> QED
        BY <1>3, <2>2, <4>1, <4>2
    <3> QED
      BY <3>1, <3>2
  <2> HIDE DEF i
  <2> QED
    BY <1>1, <1>2, <1>5, <2>3, <2>4 DEF EndFound
<1>7. CASE ~nearer
  <2>1. dirEnd' = dirEnd
    BY <1>1, <1>7
  <2>2. ASSUME NEW j \in 1..i, HasBlocks(j), j \notin unread, FirstBlock(j) # Refused,
               FirstBlock(j) > sb.directoryTableStart
        PROVE  dirEnd <= FirstBlock(j)
    BY <1>4, <1>5, <1>7, <2>2
  <2> HIDE DEF i
  <2> QED
    BY <1>1, <1>2, <1>4, <1>5, <2>1, <2>2 DEF EndFound
<1> QED
  BY <1>6, <1>7

\* So does every step, failed probes included.
LEMMA NextEndFound ==
    Types /\ EndInside /\ NotProbed /\ EndFound /\ [Next]_vars => EndFound'
<1> SUFFICES ASSUME Types, EndInside, NotProbed, EndFound, [Next]_vars PROVE EndFound'
  OBVIOUS
<1>0. /\ image' = image /\ sb' = sb
      /\ \A i : HasBlocks(i)' = HasBlocks(i) /\ FirstBlock(i)' = FirstBlock(i)
  BY NextTypes DEF sb, HasBlocks, FirstBlock, Word
<1>1. ASSUME pc' \notin {"end", "open"} PROVE EndFound'
  BY <1>1 DEF EndFound
<1>2. ASSUME pc' = pc, UNCHANGED endVars PROVE EndFound'
  BY <1>0, <1>2 DEF EndFound, endVars
<1>3. CASE SizeCache \/ ReadSuperblock \/ DeviceFails \/ \E blocks \in CacheBlocks : Begin(blocks)
  BY <1>1, <1>3 DEF SizeCache, ReadSuperblock, DeviceFails, Begin
<1>4. CASE ReadIds \/ ReadFragments \/ ReadXattrIds \/ Close
  BY <1>1, <1>4 DEF ReadIds, ReadFragments, ReadXattrIds, Close
<1>5. CASE ReadExports
  <2>1. probed = 0
    BY <1>5 DEF ReadExports, NotProbed
  <2> QED
    BY <1>0, <1>5, <2>1 DEF ReadExports, EndFound
<1>6. CASE ProbeTable
  BY <1>6, ProbeFinds
<1>7. CASE ProbeFails
  <2>1. /\ probed' = probed + 1 /\ dirEnd' = dirEnd /\ unread' = unread \cup {probed + 1}
        /\ pc' = "end" /\ pc = "end" /\ probed < 4
    BY <1>7 DEF ProbeFails
  <2>2. probed' \in 0..4 /\ \A j \in 1..probed' : j \notin unread' => j \in 1..probed /\ j \notin unread
    BY <2>1 DEF EndFound
  <2> QED
    BY <1>0, <2>1, <2>2 DEF EndFound
<1>8. CASE Opened
  BY <1>0, <1>8 DEF Opened, EndFound, endVars
<1>9. CASE \E n \in Numbers : LookupNumber(n) \/ LookupFails(n)
  BY <1>2, <1>9 DEF LookupNumber, LookupFails
<1>10. CASE UNCHANGED vars
  BY <1>2, <1>10 DEF vars
<1> QED
  BY <1>3, <1>4, <1>5, <1>6, <1>7, <1>8, <1>9, <1>10 DEF Next, Step

\* On an intact image the end of the directory table never cuts a directory
\* block off, and with every pointer read it keeps listings out of every
\* later table's blocks.
THEOREM ListingsBounded == Spec => []DirectoryBounded
<1> DEFINE Inv == Types /\ Mounted /\ EndInside /\ NotProbed /\ EndFound
<1>1. Init => Inv
  BY DEF Init, Types, Stages, Mounted, Reading, EndInside, NotProbed, EndFound
<1>2. Inv /\ [Next]_vars => Inv'
  BY NextTypes, NextMounted, NextNotProbed, NextEndFound
<1>3. Inv => DirectoryBounded
  <2> SUFFICES ASSUME Inv, pc = "open", image.intact
               PROVE  /\ \A b \in image.directory : b < dirEnd
                      /\ unread = {} /\ image.directory # {} =>
                            \A b \in DOMAIN image.blocks :
                                b < dirEnd => b \in image.directory
                                              \/ b < sb.directoryTableStart
    BY DEF DirectoryBounded
  <2>1. DirectoryStored(image)
    BY IntactAssumption DEF Types, Intact
  <2>2. \A i \in 1..4 : HasBlocks(i) =>
            FirstBlock(i) # Refused /\ \A b \in image.directory : b < FirstBlock(i)
    BY <2>1 DEF DirectoryStored, HasBlocks, FirstBlock, Word, sb
  <2>3. \A b \in image.directory :
            b \in Nat /\ sb.directoryTableStart <= b /\ b < DirectoryTableEnd(sb)
    BY <2>1 DEF DirectoryStored, sb
  <2>4. \A b \in image.directory : b < dirEnd
    BY <2>2, <2>3 DEF EndFound
  <2>5. ASSUME unread = {}, image.directory # {}, NEW b \in DOMAIN image.blocks, b < dirEnd
        PROVE  b \in image.directory \/ b < sb.directoryTableStart
    <3>1. \/ b < sb.directoryTableStart
          \/ b \in image.directory
          \/ \E i \in 1..4 : HasBlocks(i) /\ FirstBlock(i) <= b
      BY <2>1 DEF DirectoryStored, HasBlocks, FirstBlock, Word, sb
    <3>2. ASSUME NEW i \in 1..4, HasBlocks(i), FirstBlock(i) <= b
          PROVE  FALSE
      <4>1. PICK d \in image.directory : TRUE
        BY <2>5
      <4>2. FirstBlock(i) \in Nat /\ FirstBlock(i) # Refused
        BY <2>2, <3>2, WordTypes DEF FirstBlock, Types
      <4>3. d \in Nat /\ sb.directoryTableStart <= d /\ d < FirstBlock(i)
        BY <2>2, <2>3, <3>2, <4>1
      <4>4. sb.directoryTableStart \in Nat /\ b \in Nat
        BY Fields, ImagesAssumption DEF Types
      <4>5. FirstBlock(i) > sb.directoryTableStart
        BY <4>2, <4>3, <4>4
      <4>6. dirEnd <= FirstBlock(i) /\ dirEnd \in Nat
        BY <2>5, <3>2, <4>2, <4>5 DEF EndFound, EndInside
      <4> QED
        BY <2>5, <3>2, <4>2, <4>4, <4>6
    <3> QED
      BY <3>1, <3>2
  <2> QED
    BY <2>4, <2>5
<1> HIDE DEF Inv
<1> QED
  BY <1>1, <1>2, <1>3, PTL DEF Spec

=============================================================================
