---------------------------- MODULE DecodeProofs ----------------------------
(***************************************************************************)
(* Proofs about the two decoders that fill a reader's buffer.  ReadFile,   *)
(* for files, fragments, buffers and block sizes of any size: the file is  *)
(* what is copied, and only what is damaged is refused.  XzStream, for any *)
(* bytes and any bound: no more is held than the caller allows.            *)
(***************************************************************************)
EXTENDS ReadFile, XzStream, SequenceLemmas

Stages == {"idle", "check", "loop", "done", "failed"}

Types ==
    /\ inode \in Inodes /\ WellFormed(inode)
    /\ first \in Nat /\ offset \in Nat /\ first <= offset
    /\ buffer \in Nat /\ written \in Nat
    /\ pc \in Stages

count == Len(inode.words)

\* The fields of the file being read, and its geometry.
LEMMA Fields ==
    ASSUME inode \in Inodes, WellFormed(inode)
    PROVE  /\ inode.size \in Nat /\ inode.start \in 0..MaxU64
           /\ inode.words \in Seq(Nat) /\ count \in Nat
           /\ \A n \in 1..count : inode.words[n] \in Nat
           /\ inode.fragment # NoFragment =>
                 /\ inode.fragment \in Nat /\ inode.fragmentOffset \in Nat
                 /\ count = inode.size \div BlockSize
           /\ inode.fragment = NoFragment =>
                 count = (inode.size + BlockSize - 1) \div BlockSize
BY FilesAssumption DEF WellFormed, BlockCount, count

-----------------------------------------------------------------------------
(* Where a data block is.                                                  *)

\* A size word names a natural number of bytes.
LEMMA StoredSize == \A w \in Nat : DataOnDiskSize(w) \in Nat
BY DEF DataOnDiskSize, UncompressedBit

Running(f, b, w, n) ==
    f = [m \in 0..n |-> IF m = 0 THEN b ELSE f[m - 1] + DataOnDiskSize(w[m])]

\* Running sums, entry by entry.
LEMMA RunningAt ==
    ASSUME NEW b, NEW w, NEW n, NEW f
    PROVE  Running(f, b, w, n) <=>
              /\ f = [m \in 0..n |-> f[m]]
              /\ \A m \in 0..n :
                    f[m] = IF m = 0 THEN b ELSE f[m - 1] + DataOnDiskSize(w[m])
<1>1. ASSUME Running(f, b, w, n)
      PROVE  /\ f = [m \in 0..n |-> f[m]]
             /\ \A m \in 0..n :
                   f[m] = IF m = 0 THEN b ELSE f[m - 1] + DataOnDiskSize(w[m])
  BY <1>1, Zenon DEF Running
<1>2. ASSUME f = [m \in 0..n |-> f[m]],
             \A m \in 0..n : f[m] = IF m = 0 THEN b ELSE f[m - 1] + DataOnDiskSize(w[m])
      PROVE  Running(f, b, w, n)
  BY <1>2 DEF Running
<1> QED
  BY <1>1, <1>2

\* Running sums of n words extend to n + 1.
LEMMA RunningExtend ==
    ASSUME NEW b, NEW w, NEW n \in Nat, NEW f, Running(f, b, w, n)
    PROVE  \E g : Running(g, b, w, n + 1)
<1> DEFINE e == f[n] + DataOnDiskSize(w[n + 1])
           g == [m \in 0..(n + 1) |-> IF m = n + 1 THEN e ELSE f[m]]
<1>1. \A m \in 0..n : f[m] = IF m = 0 THEN b ELSE f[m - 1] + DataOnDiskSize(w[m])
  BY RunningAt
<1>2. ASSUME NEW m \in 0..(n + 1)
      PROVE  g[m] = IF m = 0 THEN b ELSE g[m - 1] + DataOnDiskSize(w[m])
  <2>1. CASE m = n + 1
    <3>1. m # 0 /\ m - 1 = n /\ g[m] = e /\ g[n] = f[n]
      BY <2>1
    <3> QED
      BY <2>1, <3>1
  <2>2. CASE m # n + 1
    <3>1. m \in 0..n /\ (m # 0 => m - 1 \in 0..n /\ m - 1 # n + 1)
      BY <2>2
    <3>2. g[m] = f[m] /\ (m # 0 => g[m - 1] = f[m - 1])
      BY <3>1, <2>2
    <3> QED
      BY <1>1, <3>1, <3>2
  <2> QED
    BY <2>1, <2>2
<1>3. g = [m \in 0..(n + 1) |-> g[m]]
  OBVIOUS
<1> HIDE DEF g
<1> QED
  BY <1>2, <1>3, RunningAt

\* Running sums of any number of words exist.
LEMMA RunningExist == ASSUME NEW b, NEW w PROVE \A n \in Nat : \E f : Running(f, b, w, n)
<1> DEFINE T == {n \in Nat : \E f : Running(f, b, w, n)}
<1>1. 0 \in T
  <2> DEFINE f == [m \in 0..0 |-> b]
  <2>1. \A m \in 0..0 : f[m] = IF m = 0 THEN b ELSE f[m - 1] + DataOnDiskSize(w[m])
    OBVIOUS
  <2>2. f = [m \in 0..0 |-> f[m]]
    OBVIOUS
  <2> HIDE DEF f
  <2> QED
    BY <2>1, <2>2, RunningAt
<1>2. ASSUME NEW n \in Nat, n \in T PROVE n + 1 \in T
  BY <1>2, RunningExtend
<1>3. Nat \subseteq T
  <2> HIDE DEF T
  <2> QED
    BY <1>1, <1>2, SetInduction
<1> QED
  BY <1>3

\* The exact offset of each block is the one before it and what that stores.
LEMMA ExactOffsets ==
    ASSUME inode \in Inodes, WellFormed(inode)
    PROVE  /\ ExactOffset(1) = inode.start
           /\ \A n \in 1..count :
                 /\ ExactOffset(n) \in Nat
                 /\ ExactOffset(n + 1) = ExactOffset(n) + DataOnDiskSize(inode.words[n])
<1> DEFINE e == CHOOSE f : Running(f, inode.start, inode.words, count)
<1>0. count \in Nat /\ inode.start \in Nat /\ \A n \in 1..count : inode.words[n] \in Nat
  BY Fields, SizesAssumption
<1>1. Running(e, inode.start, inode.words, count)
  BY <1>0, RunningExist
<1>2. \A n : ExactOffset(n) = e[n - 1]
  BY Zenon DEF ExactOffset, Running, count
<1> HIDE DEF e
<1>3. \A m \in 0..count :
          e[m] = IF m = 0 THEN inode.start ELSE e[m - 1] + DataOnDiskSize(inode.words[m])
  BY <1>1, RunningAt
<1> DEFINE T == {m \in Nat : m <= count => e[m] \in Nat}
<1>4. 0 \in T
  BY <1>0, <1>3
<1>5. ASSUME NEW m \in Nat, m \in T PROVE m + 1 \in T
  <2>1. ASSUME m + 1 <= count PROVE e[m + 1] \in Nat
    <3>1. e[m] \in Nat /\ m + 1 \in 0..count /\ m + 1 \in 1..count /\ (m + 1) - 1 = m
      BY <1>0, <1>5, <2>1
    <3>2. e[m + 1] = e[(m + 1) - 1] + DataOnDiskSize(inode.words[m + 1])
      BY <1>3, <3>1
    <3> QED
      BY <1>0, <3>1, <3>2, StoredSize
  <2> QED
    BY <2>1
<1>6. Nat \subseteq T
  <2> HIDE DEF T
  <2> QED
    BY <1>4, <1>5, SetInduction
<1>7. ASSUME NEW n \in 1..count
      PROVE  /\ ExactOffset(n) \in Nat
             /\ ExactOffset(n + 1) = ExactOffset(n) + DataOnDiskSize(inode.words[n])
  <2>1. n - 1 \in Nat /\ n - 1 <= count /\ (n + 1) - 1 = n /\ n \in 0..count /\ n # 0
    BY <1>0
  <2>2. e[n - 1] \in Nat
    BY <1>6, <2>1
  <2>3. e[n] = e[n - 1] + DataOnDiskSize(inode.words[n])
    BY <1>3, <2>1
  <2>4. ExactOffset(n) = e[n - 1] /\ ExactOffset(n + 1) = e[(n + 1) - 1]
    BY <1>2
  <2> QED
    BY <2>1, <2>2, <2>3, <2>4
<1>8. ExactOffset(1) = inode.start
  BY <1>0, <1>2, <1>3
<1> QED
  BY <1>7, <1>8

Saturated(n) == IF n <= MaxU64 THEN n ELSE MaxU64

\* Adding to a saturated sum is saturating the sum.
LEMMA SaturatingSum ==
    ASSUME NEW a \in Nat, NEW b \in Nat
    PROVE  SaturatingAdd(Saturated(a), b) = Saturated(a + b)
<1>1. MaxU64 \in Nat /\ Saturated(a) \in Nat /\ Saturated(a) + b \in Nat
  BY SizesAssumption DEF Saturated
<1>2. SaturatingAdd(Saturated(a), b) = IF Saturated(a) + b <= MaxU64 THEN Saturated(a) + b
                                       ELSE MaxU64
  BY <1>1, LesserOfTwo DEF SaturatingAdd
<1> QED
  BY <1>1, <1>2 DEF Saturated

\* block_offsets: "a saturating prefix sum" is the exact sum, saturated.
LEMMA OffsetsSaturate ==
    ASSUME inode \in Inodes, WellFormed(inode)
    PROVE  \A n \in 1..count : BlockOffsets(inode)[n] = Saturated(ExactOffset(n))
<1> DEFINE Is(f) == f = [n \in 1..count |->
                            IF n = 1 THEN inode.start
                            ELSE SaturatingAdd(f[n - 1], DataOnDiskSize(inode.words[n - 1]))]
           g == [n \in 1..count |-> Saturated(ExactOffset(n))]
           offs == CHOOSE f : Is(f)
<1>0. count \in Nat /\ inode.start \in 0..MaxU64 /\ \A n \in 1..count : inode.words[n] \in Nat
  BY Fields
<1>1. ASSUME NEW n \in 1..count, n # 1
      PROVE  /\ n - 1 \in 1..count
             /\ Saturated(ExactOffset(n)) =
                   SaturatingAdd(Saturated(ExactOffset(n - 1)), DataOnDiskSize(inode.words[n - 1]))
  <2>1. n - 1 \in 1..count /\ (n - 1) + 1 = n
    BY <1>0, <1>1
  <2>2. ExactOffset(n - 1) \in Nat /\ DataOnDiskSize(inode.words[n - 1]) \in Nat
    BY <1>0, <2>1, ExactOffsets, StoredSize
  <2>3. ExactOffset((n - 1) + 1) = ExactOffset(n - 1) + DataOnDiskSize(inode.words[n - 1])
    BY <2>1, ExactOffsets
  <2> QED
    BY <2>1, <2>2, <2>3, SaturatingSum
<1>2. Saturated(ExactOffset(1)) = inode.start
  BY <1>0, ExactOffsets DEF Saturated
<1>3. Is(g)
  <2>1. ASSUME NEW n \in 1..count
        PROVE  g[n] = IF n = 1 THEN inode.start
                      ELSE SaturatingAdd(g[n - 1], DataOnDiskSize(inode.words[n - 1]))
    BY <1>1, <1>2
  <2>2. g = [n \in 1..count |-> g[n]]
    OBVIOUS
  <2> HIDE DEF g
  <2> QED
    BY <2>1, <2>2
<1>4. Is(offs)
  <2> HIDE DEF Is, g
  <2> QED
    BY <1>3
<1>5. BlockOffsets(inode) = offs
  BY Zenon DEF BlockOffsets, count
<1> HIDE DEF offs
<1>6. \A n \in 1..count : offs[n] = IF n = 1 THEN inode.start
                                    ELSE SaturatingAdd(offs[n - 1], DataOnDiskSize(inode.words[n - 1]))
  BY <1>4, Zenon
<1> HIDE DEF Is
<1> DEFINE T == {k \in Nat : k \in 1..count => offs[k] = Saturated(ExactOffset(k))}
<1>7. 0 \in T
  OBVIOUS
<1>8. ASSUME NEW k \in Nat, k \in T PROVE k + 1 \in T
  <2>1. ASSUME k + 1 \in 1..count PROVE offs[k + 1] = Saturated(ExactOffset(k + 1))
    <3>1. CASE k = 0
      <4>1. k + 1 = 1
        BY <3>1
      <4> QED
        BY <1>2, <1>6, <2>1, <4>1
    <3>2. CASE k # 0
      <4>1. k + 1 # 1 /\ k \in 1..count /\ (k + 1) - 1 = k
        BY <1>0, <2>1, <3>2
      <4>2. offs[k + 1] = SaturatingAdd(offs[k], DataOnDiskSize(inode.words[k]))
        BY <1>6, <2>1, <4>1
      <4>3. Saturated(ExactOffset(k + 1)) =
               SaturatingAdd(Saturated(ExactOffset(k)), DataOnDiskSize(inode.words[k]))
        BY <1>1, <2>1, <4>1
      <4>4. offs[k] = Saturated(ExactOffset(k))
        BY <1>8, <4>1
      <4> QED
        BY <4>2, <4>3, <4>4
    <3> QED
      BY <3>1, <3>2
  <2> QED
    BY <2>1
<1>9. Nat \subseteq T
  <2> HIDE DEF T
  <2> QED
    BY <1>7, <1>8, SetInduction
<1> QED
  BY <1>5, <1>9

-----------------------------------------------------------------------------
(* What a logical block is.                                                *)

\* A decode that is not refused has a length of its own, and lies on the
\* device.
LEMMA Decoded ==
    ASSUME NEW o \in Nat, NEW w \in Nat, NEW m \in Nat,
           DecodeDataBlock(DataRequest(o, w, m)) # Refused
    PROVE  LET d == DecodeDataBlock(DataRequest(o, w, m)) IN
           /\ d.len \in Nat
           /\ d.how # "sparse"
           /\ o + DataOnDiskSize(w) <= DeviceSize
<1> DEFINE r == DataRequest(o, w, m)
           d == DecodeDataBlock(r)
           size == DataOnDiskSize(w)
<1>1. r.offset = o /\ r.word = w /\ r.maxOut = m
  BY DEF DataRequest
<1>2. size \in Nat
  BY StoredSize
<1> HIDE DEF r
<1>3. ~(size > BlockSize \/ o + size > DeviceSize)
  BY <1>1 DEF DecodeDataBlock, r
<1>4. size \in 0..BlockSize /\ o \in 0..DeviceSize /\ o + size <= DeviceSize
  BY <1>2, <1>3, SizesAssumption
<1>5. CASE DataIsCompressed(w)
  <2>1. d = Decompress(r) /\ d # Refused
    BY <1>1, <1>3, <1>5 DEF DecodeDataBlock, r
  <2>2. Inflated[<<o, size>>] \in Nat \cup {Malformed}
    <3> HIDE DEF size
    <3> QED
      BY <1>4, SizesAssumption
  <2>3. Inflated[<<o, size>>] # Malformed /\ d = Bytes(r, "inflated", Inflated[<<o, size>>])
    BY <1>1, <2>1 DEF Decompress
  <2>4. d.len = Inflated[<<o, size>>] /\ d.how = "inflated"
    <3> HIDE DEF d
    <3> QED
      BY <2>3 DEF Bytes
  <2> QED
    BY <1>4, <2>2, <2>3, <2>4 DEF r
<1>6. CASE ~DataIsCompressed(w)
  <2>1. d = Verbatim(r) /\ d # Refused
    BY <1>1, <1>3, <1>6 DEF DecodeDataBlock, r
  <2>2. d = Bytes(r, "verbatim", size)
    BY <1>1, <2>1 DEF Verbatim
  <2>3. d.len = size /\ d.how = "verbatim"
    <3> HIDE DEF d, size
    <3> QED
      BY <2>2 DEF Bytes
  <2> QED
    BY <1>2, <1>4, <2>3 DEF r
<1> QED
  BY <1>5, <1>6

\* The place in its blocks of a place in the file.
LEMMA Geometry ==
    ASSUME inode \in Inodes, WellFormed(inode), NEW here \in Nat, here < inode.size
    PROVE  /\ here \div BlockSize \in Nat /\ here % BlockSize \in 0..(BlockSize - 1)
           /\ here = BlockSize * (here \div BlockSize) + (here % BlockSize)
           /\ here \div BlockSize <= count
           /\ here \div BlockSize = count => inode.fragment # NoFragment
<1> DEFINE B == BlockSize
           d == here \div B
           r == here % B
           size == inode.size
<1>1. B \in Nat \ {0} /\ size \in Nat /\ count \in Nat
  BY SizesAssumption, Fields
<1>2. here = B * d + r /\ r \in 0..(B - 1) /\ d \in Nat
  <2> HIDE DEF B
  <2> QED
    BY <1>1, Division
<1>3. ASSUME inode.fragment = NoFragment PROVE d < count
  <2>1. count = (size + B - 1) \div B
    BY <1>3, Fields
  <2> HIDE DEF B, d, r, size, count
  <2>2. size + B - 1 \in Nat
    BY <1>1
  <2>3. size + B - 1 = B * count + ((size + B - 1) % B) /\ (size + B - 1) % B \in 0..(B - 1)
    BY <1>1, <2>1, <2>2, Division
  <2>4. size <= B * count
    BY <1>1, <2>2, <2>3
  <2> SUFFICES ASSUME ~(d < count) PROVE FALSE
    OBVIOUS
  <2>5. d = count \/ count < d
    BY <1>1, <1>2
  <2>6. B * count <= B * d
    <3>1. CASE d = count
      BY <1>1, <3>1
    <3>2. CASE count < d
      <4>1. B * count + B <= B * d
        BY <1>1, <1>2, <3>2, MultiplesApart
      <4> QED
        BY <1>1, <1>2, <4>1
    <3> QED
      BY <2>5, <3>1, <3>2
  <2>7. here < size
    BY DEF size
  <2> QED
    BY <1>1, <1>2, <2>4, <2>6, <2>7
<1>4. ASSUME inode.fragment # NoFragment PROVE d <= count
  <2>1. count = size \div B
    BY <1>4, Fields
  <2>2. here < size
    OBVIOUS
  <2> HIDE DEF B, d, r, size, count
  <2>3. size = B * count + (size % B) /\ size % B \in 0..(B - 1)
    BY <1>1, <2>1, Division
  <2> SUFFICES ASSUME count < d PROVE FALSE
    BY <1>1, <1>2
  <2>4. B * count + B <= B * d
    BY <1>1, <1>2, MultiplesApart
  <2> QED
    BY <1>1, <1>2, <2>2, <2>3, <2>4
<1> QED
  BY <1>1, <1>2, <1>3, <1>4

\* An error is told from a block, and each keeps its fields.
LEMMA Outcomes ==
    /\ \A what : IsError(Error(what)) /\ Error(what).error = what
    /\ \A d, start, end :
          LET b == Logical(d, start, end) IN
          ~IsError(b) /\ b.block = d /\ b.start = start /\ b.end = end
BY DEF IsError, Error, Logical

\* A logical block takes the file further from here on, and has nothing but
\* the file's bytes from there to its end.
Serves(b, here) ==
    LET off == here % BlockSize IN
    /\ b.start \in Nat /\ b.end \in Nat
    /\ off < b.end - b.start
    /\ \A k \in 0..(b.end - b.start - off - 1) :
          LET byte == ByteOf(b.block, b.start + off + k + 1) IN
          /\ byte = FileByte(here + k)
          /\ byte # "zero" => byte[2] \in 1..byte[1].len

Length(idx) == Min({BlockSize, inode.size - idx * BlockSize})

\* A data block's part of the file.
LEMMA DataLength ==
    ASSUME inode \in Inodes, WellFormed(inode), NEW here \in Nat, here < inode.size
    PROVE  LET len == Length(here \div BlockSize)
               off == here % BlockSize
           IN  /\ len \in Nat /\ len <= BlockSize /\ off < len
               /\ \A k \in 0..(len - off - 1) :
                     /\ (here + k) \div BlockSize = here \div BlockSize
                     /\ (here + k) % BlockSize = off + k
<1> DEFINE B == BlockSize
           d == here \div B
           r == here % B
           size == inode.size
<1>1. B \in Nat \ {0} /\ size \in Nat /\ here < size
  BY SizesAssumption, Fields
<1>2. here = B * d + r /\ r \in 0..(B - 1) /\ d \in Nat
  BY Geometry
<1> HIDE DEF B, d, r, size
<1>3. d * B = B * d /\ size - d * B \in Nat /\ r < size - d * B
  BY <1>1, <1>2
<1> DEFINE rest == size - d * B
<1> HIDE DEF rest
<1>4. rest \in Nat /\ r < rest
  BY <1>3 DEF rest
<1> DEFINE len == Min({B, rest})
<1>5. len \in Nat /\ len <= B /\ r < len
  BY <1>1, <1>2, <1>4, LesserOfTwo
<1> HIDE DEF len
<1>6. ASSUME NEW k \in 0..(len - r - 1)
      PROVE  (here + k) \div B = d /\ (here + k) % B = r + k
  <2>1. r + k \in 0..(B - 1)
    BY <1>1, <1>2, <1>5
  <2>2. (B * d + (r + k)) \div B = d /\ (B * d + (r + k)) % B = r + k
    BY <1>1, <1>2, <2>1, DivisionIsUnique
  <2>3. here + k = B * d + (r + k)
    <3>1. B * d \in Nat
      BY <1>1, <1>2
    <3> QED
      BY <1>2, <1>5, <3>1
  <2> QED
    BY <2>2, <2>3
<1> QED
  BY <1>5, <1>6 DEF len, rest, B, d, r, size, Length

\* A byte of a data block, as the format puts it.
LEMMA FileByteOfBlock ==
    ASSUME NEW n, ~(n - count * BlockSize >= 0)
    PROVE  FileByte(n) = IF DataOnDiskSize(inode.words[(n \div BlockSize) + 1]) = 0 THEN "zero"
                         ELSE <<DecodeDataBlock(DataRequest(ExactOffset((n \div BlockSize) + 1),
                                    inode.words[(n \div BlockSize) + 1],
                                    Length(n \div BlockSize))),
                                (n % BlockSize) + 1>>
BY DEF FileByte, count, Length

\* A whole block holds the file's bytes of its stretch, and is refused only when
\* damaged.
LEMMA DataBlockServes ==
    ASSUME inode \in Inodes, WellFormed(inode), NEW here \in Nat, here < inode.size,
           here \div BlockSize < count
    PROVE  LET b == DataBlockOf(inode, here \div BlockSize) IN
           /\ ~IsError(b) => Serves(b, here)
           /\ IsError(b) => b.error \in {"BadData", "WrongLength"} /\ ~Intact
<1> DEFINE idx == here \div BlockSize
           off == here % BlockSize
           word == inode.words[idx + 1]
           len == Length(idx)
           exact == ExactOffset(idx + 1)
           at(o) == DecodeDataBlock(DataRequest(o, word, len))
           b == DataBlockOf(inode, idx)
<1>1. /\ idx \in Nat /\ off \in Nat /\ idx + 1 \in 1..count /\ count \in Nat
      /\ word \in Nat /\ exact \in Nat /\ (idx + 1) - 1 = idx
  <2>1. idx \in Nat /\ off \in 0..(BlockSize - 1) /\ idx < count /\ count \in Nat
    BY Geometry, Fields
  <2> HIDE DEF idx, off
  <2>2. off \in Nat /\ idx + 1 \in 1..count /\ (idx + 1) - 1 = idx
    BY <2>1, SizesAssumption
  <2> QED
    BY <2>1, <2>2, Fields, ExactOffsets
<1>2. /\ len \in Nat /\ len <= BlockSize /\ off < len
      /\ \A k \in 0..(len - off - 1) :
            (here + k) \div BlockSize = idx /\ (here + k) % BlockSize = off + k
  BY DataLength
<1>3. BlockOffsets(inode)[idx + 1] = Saturated(exact) /\ Saturated(exact) \in Nat
  BY <1>1, OffsetsSaturate, SizesAssumption DEF Saturated
<1>4. b = IF DataOnDiskSize(word) = 0 THEN Logical(Zeros(len), 0, len)
          ELSE IF at(Saturated(exact)) = Refused THEN Error("BadData")
          ELSE IF at(Saturated(exact)).len # len THEN Error("WrongLength")
          ELSE Logical(at(Saturated(exact)), 0, len)
  BY <1>3 DEF DataBlockOf, Length
<1>5. ASSUME NEW k \in 0..(len - off - 1)
      PROVE  FileByte(here + k) = IF DataOnDiskSize(word) = 0 THEN "zero"
                                 ELSE <<at(exact), (off + k) + 1>>
  <2>1. ~((here + k) - count * BlockSize >= 0)
    <3> DEFINE B == BlockSize
    <3>1. B \in Nat \ {0}
      BY SizesAssumption
    <3>2. here = B * idx + off /\ idx < count
      BY Geometry
    <3>3. off + k < B
      BY <1>1, <1>2, <3>1
    <3>4. B * idx + B <= B * count
      <4> HIDE DEF B, idx
      <4> QED
        BY <1>1, <3>1, <3>2, MultiplesApart
    <3> HIDE DEF B, idx, off, len
    <3>5. count * B = B * count /\ B * idx \in Nat /\ B * count \in Nat
      BY <1>1, <3>1
    <3> QED
      BY <1>1, <1>2, <3>1, <3>2, <3>3, <3>4, <3>5 DEF B
  <2>2. (here + k) \div BlockSize = idx /\ (here + k) % BlockSize = off + k
    BY <1>2
  <2> HIDE DEF off, idx
  <2> QED
    BY <2>1, <2>2, FileByteOfBlock
<1>6. CASE DataOnDiskSize(word) = 0
  <2>1. b = Logical(Zeros(len), 0, len)
    BY <1>4, <1>6
  <2>2. ~IsError(b) /\ b.block = Zeros(len) /\ b.start = 0 /\ b.end = len
    BY <2>1, Outcomes
  <2>3. b.block.how = "sparse"
    BY <2>2 DEF Zeros
  <2> HIDE DEF b, len, off, idx
  <2>4. \A n : ByteOf(b.block, n) = "zero"
    BY <2>3 DEF ByteOf
  <2>5. ASSUME NEW k \in 0..(b.end - b.start - off - 1)
        PROVE  FileByte(here + k) = "zero"
    <3>1. k \in 0..(len - off - 1)
      BY <1>1, <1>2, <2>2, <2>5
    <3> QED
      BY <1>5, <1>6, <3>1
  <2>6. off < b.end - b.start /\ b.start \in Nat /\ b.end \in Nat
    BY <1>1, <1>2, <2>2
  <2> QED
    BY <2>2, <2>4, <2>5, <2>6 DEF Serves, off, b, idx
<1>7. CASE DataOnDiskSize(word) # 0 /\ at(Saturated(exact)) # Refused
                                   /\ at(Saturated(exact)).len = len
  <2>1. b = Logical(at(Saturated(exact)), 0, len)
    BY <1>4, <1>7
  <2>2. ~IsError(b) /\ b.block = at(Saturated(exact)) /\ b.start = 0 /\ b.end = len
    BY <2>1, Outcomes
  <2>3. /\ at(Saturated(exact)).how # "sparse"
        /\ Saturated(exact) + DataOnDiskSize(word) <= DeviceSize
    <3> HIDE DEF exact, word, len
    <3> QED
      BY <1>1, <1>2, <1>3, <1>7, Decoded
  <2>4. Saturated(exact) = exact
    <3>1. DataOnDiskSize(word) \in Nat
      BY <1>1, StoredSize
    <3> HIDE DEF exact, word
    <3> QED
      BY <1>1, <1>7, <2>3, <3>1, SizesAssumption DEF Saturated
  <2> HIDE DEF b, len, off, exact, at, word
  <2>5. ASSUME NEW k \in 0..(b.end - b.start - off - 1)
        PROVE  LET byte == ByteOf(b.block, b.start + off + k + 1) IN
               /\ byte = FileByte(here + k)
               /\ byte # "zero" => byte[2] \in 1..byte[1].len
    <3>1. k \in 0..(len - off - 1)
      BY <1>1, <1>2, <2>2, <2>5
    <3>2. b.start + off + k + 1 = (off + k) + 1 /\ (off + k) + 1 \in 1..len
      BY <1>1, <1>2, <2>2, <3>1
    <3>3. ByteOf(b.block, (off + k) + 1) = <<at(exact), (off + k) + 1>>
      BY <2>2, <2>3, <2>4, Zenon DEF ByteOf
    <3>4. FileByte(here + k) = <<at(exact), (off + k) + 1>>
      BY <1>5, <1>7, <3>1
    <3>5. at(exact).len = len
      BY <1>7, <2>4
    <3> DEFINE byte == ByteOf(b.block, (off + k) + 1)
    <3>6. byte[2] = (off + k) + 1 /\ byte[1] = at(exact)
      BY <3>3
    <3>7. byte[2] \in 1..byte[1].len
      <4> HIDE DEF byte
      <4> QED
        BY <3>2, <3>5, <3>6
    <3> QED
      BY <3>2, <3>3, <3>4, <3>7, Zenon
  <2>6. off < b.end - b.start /\ b.start \in Nat /\ b.end \in Nat
    BY <1>1, <1>2, <2>2
  <2> QED
    BY <2>2, <2>5, <2>6 DEF Serves, off, b
<1>8. CASE DataOnDiskSize(word) # 0 /\ (at(Saturated(exact)) = Refused
                                        \/ at(Saturated(exact)).len # len)
  <2>1. b = Error("BadData") \/ b = Error("WrongLength")
    BY <1>4, <1>8
  <2>2. IsError(b) /\ b.error \in {"BadData", "WrongLength"}
    BY <2>1, Outcomes
  <2>3. ASSUME Intact PROVE FALSE
    <3>1. at(exact) # Refused /\ at(exact).len = len
      <4>1. idx + 1 \in 1..Len(inode.words)
        BY <1>1 DEF count
      <4>2. LET l == Min({BlockSize, inode.size - ((idx + 1) - 1) * BlockSize})
                d == DecodeDataBlock(DataRequest(ExactOffset(idx + 1), inode.words[idx + 1], l))
            IN  d # Refused /\ d.len = l
        BY <1>8, <2>3, <4>1, Zenon DEF Intact
      <4> HIDE DEF idx
      <4> QED
        BY <1>1, <4>2, Zenon DEF Length
    <3>2. exact + DataOnDiskSize(word) <= DeviceSize
      <4> HIDE DEF exact, word, len
      <4> QED
        BY <1>1, <1>2, <3>1, Decoded
    <3>3. Saturated(exact) = exact
      <4>1. DataOnDiskSize(word) \in Nat
        BY <1>1, StoredSize
      <4> HIDE DEF exact, word
      <4> QED
        BY <1>1, <3>2, <4>1, SizesAssumption DEF Saturated
    <3> HIDE DEF exact, word, len, at
    <3> QED
      BY <1>8, <3>1, <3>3
  <2> QED
    BY <2>2, <2>3
<1> QED
  BY <1>6, <1>7, <1>8

\* A fragment entry's fields are numbers.
LEMMA FragmentFields ==
    \A i \in 1..Len(Fragments) : Fragments[i].start \in Nat /\ Fragments[i].size \in Nat
<1> DEFINE Entry == [start : Nat, size : Nat]
<1>1. Fragments \in Seq(Entry)
  BY FilesAssumption
<1>2. \A e \in Entry : e.start \in Nat /\ e.size \in Nat
  OBVIOUS
<1> HIDE DEF Entry
<1> QED
  BY <1>1, <1>2

\* A byte behind the whole blocks is one of the tail's fragment.
LEMMA FileByteOfTail ==
    ASSUME NEW n, n - count * BlockSize >= 0
    PROVE  FileByte(n) = <<DecodeDataBlock(DataRequest(Fragments[inode.fragment + 1].start,
                               Fragments[inode.fragment + 1].size, BlockSize)),
                           inode.fragmentOffset + (n - count * BlockSize) + 1>>
BY DEF FileByte, count

\* The tail's block holds the file's last bytes, and is refused only when damaged.
LEMMA TailServes ==
    ASSUME inode \in Inodes, WellFormed(inode), NEW here \in Nat, here < inode.size,
           here \div BlockSize = count, inode.fragment < Len(Fragments)
    PROVE  LET b == FragmentTail(inode) IN
           /\ ~IsError(b) => Serves(b, here)
           /\ IsError(b) => b.error \in {"BadData", "TailPastBlock"} /\ ~Intact
<1> DEFINE frag == Fragments[inode.fragment + 1]
           d == DecodeDataBlock(DataRequest(frag.start, frag.size, BlockSize))
           fo == inode.fragmentOffset
           before == count * BlockSize
           tail == inode.size - before
           off == here % BlockSize
           b == FragmentTail(inode)
<1>1. inode.fragment \in Nat /\ fo \in Nat /\ count \in Nat /\ inode.size \in Nat
  BY Geometry, Fields
<1>2. frag.start \in Nat /\ frag.size \in Nat /\ BlockSize \in Nat \ {0}
  <2>1. inode.fragment + 1 \in 1..Len(Fragments)
    BY <1>1, FilesAssumption
  <2> QED
    BY <2>1, FragmentFields, SizesAssumption
<1>3. before \in Nat /\ here = before + off /\ off \in Nat
  <2>1. here = BlockSize * count + off /\ off \in 0..(BlockSize - 1)
    BY Geometry
  <2> QED
    BY <1>1, <1>2, <2>1
<1> HIDE DEF before, off
<1>4. tail \in Nat /\ off < tail /\ inode.size > before
  BY <1>1, <1>3
<1>5. b = IF d = Refused THEN Error("BadData")
          ELSE IF fo + tail > d.len THEN Error("TailPastBlock")
          ELSE Logical(d, fo, fo + tail)
  BY DEF FragmentTail, before, count
<1>6. d # Refused => d.len \in Nat /\ d.how # "sparse"
  <2> HIDE DEF frag
  <2> QED
    BY <1>2, Decoded
<1>7. ASSUME Intact PROVE d # Refused /\ fo + tail <= d.len
  <2>1. d # Refused /\ fo + tail <= d.len
    BY <1>4, <1>7 DEF Intact, before, count
  <2> QED
    BY <2>1
<1>8. CASE d = Refused \/ fo + tail > d.len
  <2>1. b = Error("BadData") \/ b = Error("TailPastBlock")
    BY <1>5, <1>8
  <2>2. IsError(b) /\ b.error \in {"BadData", "TailPastBlock"}
    BY <2>1, Outcomes
  <2>3. ~Intact
    <3> HIDE DEF d, tail, fo
    <3> QED
      BY <1>1, <1>4, <1>6, <1>7, <1>8
  <2> QED
    BY <2>2, <2>3
<1>9. CASE d # Refused /\ ~(fo + tail > d.len)
  <2>1. b = Logical(d, fo, fo + tail)
    BY <1>5, <1>9
  <2>2. ~IsError(b) /\ b.block = d /\ b.start = fo /\ b.end = fo + tail
    BY <2>1, Outcomes
  <2> HIDE DEF d, tail, fo, b
  <2>3. b.start \in Nat /\ b.end \in Nat /\ b.end - b.start = tail
    BY <1>1, <1>4, <2>2
  <2>4. ASSUME NEW k \in 0..(b.end - b.start - off - 1)
        PROVE  LET byte == ByteOf(b.block, b.start + off + k + 1) IN
               /\ byte = FileByte(here + k)
               /\ byte # "zero" => byte[2] \in 1..byte[1].len
    <3>1. k \in Nat /\ off + k < tail
      BY <1>3, <1>4, <2>3, <2>4
    <3>2. (here + k) - before = off + k /\ off + k >= 0
      BY <1>3, <3>1
    <3> DEFINE at == fo + (off + k) + 1
    <3>3. b.start + off + k + 1 = at /\ at \in 1..(fo + tail)
      BY <1>1, <1>3, <1>4, <2>2, <3>1
    <3>4. FileByte(here + k) = <<d, fo + ((here + k) - before) + 1>>
      BY <3>2, FileByteOfTail DEF before, d, fo
    <3>5. FileByte(here + k) = <<d, at>>
      BY <3>2, <3>4
    <3>6. at \in 1..d.len
      BY <1>1, <1>4, <1>6, <1>9, <3>3
    <3> HIDE DEF at
    <3>7. ByteOf(b.block, at) = <<d, at>>
      BY <1>6, <1>9, <2>2 DEF ByteOf
    <3>8. <<d, at>>[2] = at /\ <<d, at>>[1] = d
      OBVIOUS
    <3> QED
      BY <3>3, <3>5, <3>6, <3>7, <3>8
  <2> QED
    BY <1>4, <2>2, <2>3, <2>4 DEF Serves, off, b
<1> QED
  BY <1>8, <1>9

Damage == {"BadData", "WrongLength", "TailPastBlock", "BadFragmentIndex"}

\* read_logical_block, wherever in the file the reader is: the file's bytes,
\* or an error an intact file never gives.
LEMMA BlockServes ==
    ASSUME inode \in Inodes, WellFormed(inode), inode.regular,
           NEW here \in Nat, here < inode.size
    PROVE  LET b == ReadLogicalBlock(inode, here \div BlockSize) IN
           /\ ~IsError(b) => Serves(b, here)
           /\ IsError(b) => b.error \in Damage /\ ~Intact
<1> DEFINE idx == here \div BlockSize
<1>1. /\ idx \in Nat /\ idx <= count /\ count \in Nat
      /\ idx = count => inode.fragment # NoFragment
  BY Geometry, Fields
<1>2. CASE idx < count
  <2>1. ReadLogicalBlock(inode, idx) = DataBlockOf(inode, idx)
    BY <1>2 DEF ReadLogicalBlock, count
  <2> QED
    BY <1>2, <2>1, DataBlockServes DEF Damage
<1>3. CASE idx = count /\ inode.fragment < Len(Fragments)
  <2>1. inode.fragment \in Nat /\ Len(Fragments) \in Nat
    BY <1>1, <1>3, Fields, FilesAssumption
  <2>2. ReadLogicalBlock(inode, idx) = FragmentTail(inode)
    <3> HIDE DEF idx
    <3>1. ~(idx < count) /\ ~(inode.fragment >= Len(Fragments)) /\ inode.fragment # NoFragment
      BY <1>1, <1>3, <2>1
    <3> QED
      BY <3>1 DEF ReadLogicalBlock, HasFragment, count
  <2> QED
    BY <1>3, <2>2, TailServes DEF Damage
<1>4. CASE idx = count /\ ~(inode.fragment < Len(Fragments))
  <2>1. inode.fragment \in Nat /\ Len(Fragments) \in Nat
    BY <1>1, <1>4, Fields, FilesAssumption
  <2>2. ReadLogicalBlock(inode, idx) = Error("BadFragmentIndex")
    <3> HIDE DEF idx
    <3>1. ~(idx < count) /\ inode.fragment >= Len(Fragments) /\ inode.fragment # NoFragment
      BY <1>1, <1>4, <2>1
    <3> QED
      BY <3>1 DEF ReadLogicalBlock, HasFragment, count
  <2>3. inode.size > count * BlockSize
    <3>1. here = BlockSize * count + (here % BlockSize) /\ here % BlockSize \in 0..(BlockSize - 1)
      BY <1>4, Geometry
    <3> DEFINE r == here % BlockSize
    <3> HIDE DEF r
    <3>2. here = BlockSize * count + r /\ r \in Nat
      BY <3>1, SizesAssumption DEF r
    <3>3. /\ count * BlockSize = BlockSize * count /\ BlockSize * count \in Nat
          /\ inode.size \in Nat
      BY <1>1, Fields, SizesAssumption
    <3> QED
      BY <3>2, <3>3
  <2>4. ~Intact
    BY <1>4, <2>3 DEF Intact, count
  <2> QED
    BY <2>2, <2>4, Outcomes DEF Damage
<1> QED
  BY <1>1, <1>2, <1>3, <1>4

-----------------------------------------------------------------------------
(* The reader.                                                             *)

FileBytes == {FileByte(n) : n \in Nat}

\* What was copied so far is what the format puts there.
Delivers ==
    /\ copied \in Seq(FileBytes)
    /\ CopiesTheFile

\* How much of it there is.
Counted ==
    /\ pc \in {"idle", "check", "done"} => Len(copied) = offset - first
    /\ pc = "check" => written = 0
    /\ pc = "loop" =>
          /\ inode.regular /\ offset < inode.size /\ buffer > 0
          /\ written <= ToRead
          /\ Len(copied) = (offset - first) + written

Returned ==
    pc \in {"idle", "done"} =>
        returned \in Nat /\ (returned < buffer => offset >= inode.size)

\* Only a damaged file is found so, and the loop always goes on.
Blamed ==
    /\ error \in {"none", "NotAFile", "Device"} \cup Damage
    /\ error \in Damage => ~Intact

\* read_file is asked for no more than the buffer holds and the file has left.
LEMMA ToReadIs ==
    ASSUME Types, offset < inode.size
    PROVE  /\ ToRead \in Nat /\ ToRead <= buffer /\ offset + ToRead <= inode.size
           /\ ToRead < buffer => offset + ToRead = inode.size
<1> DEFINE rest == inode.size - offset
<1>1. inode.size \in Nat /\ offset \in Nat /\ buffer \in Nat
  BY Fields DEF Types
<1>2. rest \in Nat
  BY <1>1
<1> HIDE DEF rest
<1>3. Min({buffer, rest}) = IF buffer <= rest THEN buffer ELSE rest
  BY <1>1, <1>2, LesserOfTwo
<1> QED
  BY <1>1, <1>2, <1>3 DEF rest, ToRead

\* The bytes that one turn of the loop copies are the file's next ones.
LEMMA CopyServes ==
    ASSUME Types, Counted, Copy
    PROVE  \E take \in Nat, piece \in Seq(FileBytes) :
              /\ written' = written + take /\ written + take <= ToRead
              /\ copied' = copied \o piece /\ Len(piece) = take
              /\ \A n \in 1..take :
                    /\ piece[n] = FileByte((offset + written) + (n - 1))
                    /\ piece[n] # "zero" => piece[n][2] \in 1..piece[n][1].len
<1> DEFINE here == offset + written
           b == ReadLogicalBlock(inode, BlockIndex)
           room == b.end - b.start - BlockOff
           want == ToRead - written
           take == Min({room, want})
           piece == [n \in 1..take |-> ByteOf(b.block, b.start + BlockOff + n)]
<1>1. /\ pc = "loop" /\ written < ToRead /\ ~IsError(b)
      /\ copied' = copied \o piece /\ written' = written + take
  BY DEF Copy
<1>2. /\ inode \in Inodes /\ WellFormed(inode) /\ inode.regular
      /\ offset \in Nat /\ written \in Nat /\ inode.size \in Nat
      /\ offset < inode.size
  BY <1>1, Fields DEF Types, Counted
<1>3. ToRead \in Nat /\ offset + ToRead <= inode.size
  BY <1>2, ToReadIs
<1>4. here \in Nat /\ here < inode.size
  BY <1>1, <1>2, <1>3
<1>5. Serves(b, here)
  <2>1. b = ReadLogicalBlock(inode, here \div BlockSize)
    BY DEF BlockIndex
  <2> HIDE DEF b, here
  <2> QED
    BY <1>1, <1>2, <1>4, <2>1, BlockServes
<1>6. BlockOff = here % BlockSize /\ BlockOff \in Nat
  <2>1. here % BlockSize \in 0..(BlockSize - 1)
    BY <1>2, <1>4, Geometry
  <2> QED
    BY <2>1, SizesAssumption DEF BlockOff
<1> HIDE DEF b, here
<1>7. /\ b.start \in Nat /\ b.end \in Nat /\ BlockOff < b.end - b.start
      /\ \A k \in 0..(b.end - b.start - BlockOff - 1) :
            LET byte == ByteOf(b.block, b.start + BlockOff + k + 1) IN
            /\ byte = FileByte(here + k)
            /\ byte # "zero" => byte[2] \in 1..byte[1].len
  BY <1>5, <1>6, Zenon DEF Serves
<1>8. room \in Nat /\ want \in Nat
  BY <1>1, <1>2, <1>3, <1>6, <1>7
<1>9. take \in Nat /\ take <= room /\ written + take <= ToRead
  <2> HIDE DEF room
  <2>1. take = IF room <= want THEN room ELSE want
    <3> HIDE DEF want
    <3> QED
      BY <1>8, LesserOfTwo
  <2> QED
    BY <1>2, <1>3, <1>8, <2>1
<1> HIDE DEF take
<1>10. ASSUME NEW n \in 1..take
       PROVE  /\ piece[n] = FileByte(here + (n - 1))
              /\ piece[n] # "zero" => piece[n][2] \in 1..piece[n][1].len
  <2>1. n - 1 \in 0..(b.end - b.start - BlockOff - 1)
    BY <1>6, <1>7, <1>9
  <2>2. b.start + BlockOff + (n - 1) + 1 = b.start + BlockOff + n
    BY <1>6, <1>7
  <2>3. piece[n] = ByteOf(b.block, b.start + BlockOff + n)
    OBVIOUS
  <2> HIDE DEF piece
  <2> QED
    BY <1>7, <2>1, <2>2, <2>3, Zenon
<1>11. piece \in Seq(FileBytes) /\ Len(piece) = take
  <2>1. \A n \in 1..take : piece[n] \in FileBytes
    BY <1>4, <1>9, <1>10 DEF FileBytes
  <2>2. piece = [n \in 1..take |-> piece[n]]
    OBVIOUS
  <2> HIDE DEF piece
  <2> QED
    BY <1>9, <2>1, <2>2
<1> HIDE DEF piece
<1> QED
  BY <1>1, <1>9, <1>10, <1>11 DEF here

\* Every step keeps the types, and the file being read.
LEMMA NextTypes ==
    Types /\ Counted /\ [Next]_vars => Types' /\ inode' = inode /\ first' = first
<1> SUFFICES ASSUME Types, Counted, [Next]_vars
             PROVE  Types' /\ inode' = inode /\ first' = first
  OBVIOUS
<1> USE DEF Types, Stages
<1>1. ASSUME NEW len \in BufferSizes, Call(len)
      PROVE  Types' /\ inode' = inode /\ first' = first
  BY <1>1, FilesAssumption DEF Call
<1>2. CASE NotAFile \/ Begin \/ BadBlock \/ DeviceFails
  BY <1>2 DEF NotAFile, Begin, BadBlock, DeviceFails, Fail
<1>3. CASE NothingToRead
  BY <1>3 DEF NothingToRead, Return
<1>4. CASE Finish
  BY <1>4 DEF Finish, Return
<1>5. CASE Copy
  <2>1. written' \in Nat
    BY <1>5, CopyServes
  <2> QED
    BY <1>5, <2>1 DEF Copy
<1>6. CASE UNCHANGED vars
  BY <1>6 DEF vars
<1> QED
  BY <1>1, <1>2, <1>3, <1>4, <1>5, <1>6 DEF Next

\* What the format puts in a file is a matter of the inode.
LEMMA SameFile ==
    inode' = inode => FileBytes' = FileBytes /\ Intact' = Intact
                      /\ \A n : FileByte(n)' = FileByte(n)
BY DEF FileBytes, FileByte, ExactOffset, Intact

\* Every step keeps the buffer filled with the file's own bytes.
LEMMA NextDelivers ==
    Types /\ Counted /\ Delivers /\ [Next]_vars => Delivers'
<1> SUFFICES ASSUME Types, Counted, Delivers, [Next]_vars PROVE Delivers'
  OBVIOUS
<1>0. inode' = inode /\ first' = first /\ FileBytes' = FileBytes /\ \A n : FileByte(n)' = FileByte(n)
  BY NextTypes, SameFile
<1>1. CASE copied' = copied
  BY <1>0, <1>1 DEF Delivers, CopiesTheFile
<1>2. CASE Copy
  <2>1. PICK take \in Nat, piece \in Seq(FileBytes) :
              /\ copied' = copied \o piece /\ Len(piece) = take
              /\ \A n \in 1..take :
                    /\ piece[n] = FileByte((offset + written) + (n - 1))
                    /\ piece[n] # "zero" => piece[n][2] \in 1..piece[n][1].len
    BY <1>2, CopyServes
  <2> DEFINE had == Len(copied)
  <2>2. /\ copied \in Seq(FileBytes) /\ had \in Nat
        /\ offset \in Nat /\ written \in Nat /\ first \in Nat
        /\ had = (offset - first) + written
    BY <1>2 DEF Copy, Types, Counted, Delivers
  <2>3. /\ copied' \in Seq(FileBytes) /\ Len(copied') = had + take
        /\ \A n \in 1..(had + take) :
              copied'[n] = IF n <= had THEN copied[n] ELSE piece[n - had]
    BY <2>1, <2>2, ConcatProperties
  <2> HIDE DEF had
  <2>4. ASSUME NEW n \in 1..(had + take)
        PROVE  /\ copied'[n] = FileByte(first + n - 1)
               /\ copied'[n] # "zero" => copied'[n][2] \in 1..copied'[n][1].len
    <3>1. CASE n <= had
      <4>1. n \in 1..Len(copied) /\ copied'[n] = copied[n]
        BY <2>2, <2>3, <3>1 DEF had
      <4> QED
        BY <4>1 DEF Delivers, CopiesTheFile
    <3>2. CASE ~(n <= had)
      <4>1. n - had \in 1..take /\ copied'[n] = piece[n - had]
        BY <2>1, <2>2, <2>3, <3>2
      <4>2. (offset + written) + ((n - had) - 1) = first + n - 1
        BY <2>2
      <4> QED
        BY <2>1, <4>1, <4>2, Zenon
    <3> QED
      BY <3>1, <3>2
  <2> QED
    BY <1>0, <2>3, <2>4 DEF Delivers, CopiesTheFile
<1>3. copied' = copied \/ Copy
  BY DEF Next, Call, NotAFile, NothingToRead, Begin, BadBlock, DeviceFails, Finish, Fail,
         Return, vars
<1> QED
  BY <1>1, <1>2, <1>3

\* Every step keeps the count of what was asked for, and returns short only at the
\* end of the file.
LEMMA NextCounted ==
    Types /\ Counted /\ Delivers /\ Returned /\ [Next]_vars => (Counted /\ Returned)'
<1> SUFFICES ASSUME Types, Counted, Delivers, Returned, [Next]_vars
             PROVE  (Counted /\ Returned)'
  OBVIOUS
<1>0. /\ inode' = inode /\ first' = first
      /\ offset \in Nat /\ first \in Nat /\ buffer \in Nat /\ written \in Nat
      /\ inode.size \in Nat
  BY NextTypes, Fields DEF Types
<1> USE <1>0 DEF Counted, Returned
<1>1. ASSUME NEW len \in BufferSizes, Call(len) PROVE (Counted /\ Returned)'
  BY <1>1 DEF Call
<1>2. CASE NotAFile \/ BadBlock \/ DeviceFails
  BY <1>2 DEF NotAFile, BadBlock, DeviceFails, Fail
<1>3. CASE NothingToRead
  BY <1>3 DEF NothingToRead, Return
<1>4. CASE Begin
  <2>1. ToRead' = ToRead /\ ToRead \in Nat /\ written = 0
    BY <1>4, ToReadIs DEF Begin, ToRead
  <2>2. /\ pc' = "loop" /\ inode.regular /\ offset < inode.size /\ buffer > 0
        /\ offset' = offset /\ buffer' = buffer /\ written' = written /\ copied' = copied
        /\ Len(copied) = offset - first
    BY <1>4 DEF Begin
  <2> QED
    BY <2>1, <2>2
<1>5. CASE Copy
  <2>1. PICK take \in Nat, piece \in Seq(FileBytes) :
           /\ written' = written + take /\ written + take <= ToRead
           /\ copied' = copied \o piece /\ Len(piece) = take
    BY <1>5, CopyServes
  <2>2. Len(copied') = Len(copied) + take /\ Len(copied) \in Nat
    <3>1. copied \in Seq(FileBytes)
      BY DEF Delivers
    <3>2. Len(copied \o piece) = Len(copied) + Len(piece) /\ Len(copied) \in Nat
      BY <3>1, ConcatProperties
    <3> QED
      BY <2>1, <3>2
  <2>3. ToRead' = ToRead /\ pc' = "loop" /\ pc = "loop" /\ offset' = offset /\ buffer' = buffer
    BY <1>5 DEF Copy, ToRead
  <2>4. /\ inode.regular /\ offset < inode.size /\ buffer > 0
        /\ Len(copied) = (offset - first) + written
    BY <2>3
  <2>5. Len(copied') = (offset - first) + (written + take)
    BY <1>0, <2>2, <2>4
  <2>6. Counted'
    <3>1. Len(copied') = (offset' - first') + written' /\ written' <= ToRead'
      BY <1>0, <2>1, <2>3, <2>5
    <3> QED
      BY <1>0, <2>3, <2>4, <3>1
  <2>7. Returned'
    BY <2>3
  <2> QED
    BY <2>6, <2>7
<1>6. CASE Finish
  BY <1>6, ToReadIs DEF Finish, Return
<1>7. CASE UNCHANGED vars
  BY <1>7 DEF vars, ToRead
<1> QED
  BY <1>1, <1>2, <1>3, <1>4, <1>5, <1>6, <1>7 DEF Next

\* Every error a step returns is that of a damaged file.
LEMMA NextBlamed ==
    Types /\ Counted /\ Blamed /\ [Next]_vars => Blamed'
<1> SUFFICES ASSUME Types, Counted, Blamed, [Next]_vars PROVE Blamed'
  OBVIOUS
<1>0. inode' = inode /\ Intact' = Intact
  BY NextTypes, SameFile
<1>1. CASE error' = error
  BY <1>0, <1>1 DEF Blamed
<1>2. CASE NotAFile \/ DeviceFails
  BY <1>2 DEF NotAFile, DeviceFails, Fail, Blamed, Damage
<1>3. CASE BadBlock
  <2> DEFINE here == offset + written
             b == ReadLogicalBlock(inode, BlockIndex)
  <2>1. /\ pc = "loop" /\ written < ToRead
        /\ ~IsError(b) => BlockOff >= b.end - b.start
        /\ error' = IF IsError(b) THEN b.error ELSE "NoProgress"
    BY <1>3 DEF BadBlock, Fail
  <2>2. /\ inode \in Inodes /\ WellFormed(inode) /\ inode.regular
        /\ offset \in Nat /\ written \in Nat /\ inode.size \in Nat
        /\ offset < inode.size
    BY <2>1, Fields DEF Types, Counted
  <2>3. ToRead \in Nat /\ offset + ToRead <= inode.size
    BY <2>2, ToReadIs
  <2>4. here \in Nat /\ here < inode.size
    BY <2>1, <2>2, <2>3
  <2>5. b = ReadLogicalBlock(inode, here \div BlockSize) /\ BlockOff = here % BlockSize
    BY DEF BlockIndex, BlockOff
  <2> HIDE DEF b, here
  <2>6. /\ ~IsError(b) => Serves(b, here)
        /\ IsError(b) => b.error \in Damage /\ ~Intact
    BY <2>2, <2>4, <2>5, BlockServes
  <2>7. CASE IsError(b)
    BY <1>0, <2>1, <2>6, <2>7 DEF Blamed
  <2>8. CASE ~IsError(b)
    <3>1. BlockOff < b.end - b.start /\ BlockOff >= b.end - b.start
      BY <2>1, <2>5, <2>6, <2>8 DEF Serves
    <3>2. BlockOff \in Int /\ b.end - b.start \in Int
      <4>1. here % BlockSize \in 0..(BlockSize - 1)
        BY <2>2, <2>4, Geometry
      <4> QED
        BY <2>5, <2>6, <2>8, <4>1, SizesAssumption DEF Serves
    <3> QED
      BY <3>1, <3>2
  <2> QED
    BY <2>7, <2>8
<1>4. error' = error \/ NotAFile \/ DeviceFails \/ BadBlock
  BY DEF Next, Call, NothingToRead, Begin, Copy, Finish, Return, vars
<1> QED
  BY <1>1, <1>2, <1>3, <1>4

ReaderInvariant == Types /\ Delivers /\ Counted /\ Returned /\ Blamed

\* The inductive invariant of the reader.
LEMMA ReaderInductive == Spec => []ReaderInvariant
<1>1. Init => ReaderInvariant
  BY FilesAssumption DEF Init, ReaderInvariant, Types, Stages, Delivers, CopiesTheFile, Counted,
                         Returned, Blamed, Damage
<1>2. ReaderInvariant /\ [Next]_vars => ReaderInvariant'
  BY NextTypes, NextDelivers, NextCounted, NextBlamed DEF ReaderInvariant
<1> QED
  BY <1>1, <1>2, PTL DEF Spec

\* Chunk by chunk, from any offset and with any buffers, a reader of
\* read_file gets the file, and every byte from inside its block.
THEOREM DeliversFile == Spec => []CopiesTheFile
<1>1. ReaderInvariant => CopiesTheFile
  BY DEF ReaderInvariant, Delivers
<1> QED
  BY <1>1, ReaderInductive, PTL

\* A read is short only at the end of the file.
THEOREM FullReads == Spec => []ShortOnlyAtEnd
<1>1. ReaderInvariant => ShortOnlyAtEnd
  BY DEF ReaderInvariant, Counted, Returned, ShortOnlyAtEnd
<1> QED
  BY <1>1, ReaderInductive, PTL

\* No intact file is refused, whatever its size, holes and tail.
THEOREM IntactRead == Spec => []ReadsIntactFiles
<1>1. ReaderInvariant => ReadsIntactFiles
  BY DEF ReaderInvariant, Blamed, Damage, ReadsIntactFiles
<1> QED
  BY <1>1, ReaderInductive, PTL

\* No inode that was accepted leads the loop out of its blocks, and none
\* leaves it where it is.
THEOREM NeverOutOfRange == Spec => []GeometryHolds
<1>1. ReaderInvariant => GeometryHolds
  BY DEF ReaderInvariant, Blamed, Damage, GeometryHolds
<1> QED
  BY <1>1, ReaderInductive, PTL

-----------------------------------------------------------------------------
(* The decode of an .xz block: XzStream.                                   *)

\* A byte of a stream.
LEMMA ByteAt == ASSUME NEW s \in Seq(0..255), NEW k \in 1..Len(s) PROVE s[k] \in 0..255
BY ElementOfSeq

\* A stretch of bytes that is there is as long as it is said to be.
LEMMA SliceLength ==
    ASSUME NEW s \in Seq(0..255), NEW at \in Nat, NEW n \in Nat, Holds(s, at, n)
    PROVE  /\ Slice(s, at, n) \in Seq(0..255)
           /\ Len(Slice(s, at, n)) = n
<1> DEFINE m == at + 1
           l == at + n
<1>1. m \in Int /\ l \in Int /\ (IF m <= l THEN (l - m) + 1 ELSE 0) = n
  OBVIOUS
<1>2. \A k \in m..l : s[k] \in 0..255
  <2> TAKE k \in m..l
  <2>1. k \in 1..Len(s)
    BY DEF Holds
  <2> QED
    BY <2>1, ByteAt
<1> HIDE DEF m, l
<1>3. /\ SubSeq(s, m, l) \in Seq(0..255)
      /\ Len(SubSeq(s, m, l)) = IF m <= l THEN (l - m) + 1 ELSE 0
  BY <1>1, <1>2, SubSeqProperties
<1> QED
  BY <1>1, <1>3 DEF Slice, m, l

\* A byte that is there.
LEMMA ByteThere ==
    ASSUME NEW s \in Seq(0..255), NEW at \in Nat, Holds(s, at, 1)
    PROVE  Byte(s, at) \in 0..255
<1> DEFINE k == at + 1
<1>1. k \in 1..Len(s)
  BY DEF Holds
<1> HIDE DEF k
<1>2. s[k] \in 0..255
  BY <1>1, ByteAt
<1> QED
  BY <1>2 DEF Byte, k

-----------------------------------------------------------------------------
(* What a varint stands for is a recursion over its bytes.                 *)

\* The recursion, for the first n bytes of b from the last on.
Horner(f, b, n) ==
    f = [k \in 0..n |-> IF k = 0 THEN 0 ELSE b[k] + (128 * f[k - 1])]

\* Horner, entry by entry.
LEMMA HornerAt ==
    ASSUME NEW b, NEW n, NEW f
    PROVE  Horner(f, b, n) <=>
              /\ f = [k \in 0..n |-> f[k]]
              /\ \A k \in 0..n : f[k] = IF k = 0 THEN 0 ELSE b[k] + (128 * f[k - 1])
<1>1. ASSUME Horner(f, b, n)
      PROVE  /\ f = [k \in 0..n |-> f[k]]
             /\ \A k \in 0..n : f[k] = IF k = 0 THEN 0 ELSE b[k] + (128 * f[k - 1])
  BY <1>1, Zenon DEF Horner
<1>2. ASSUME f = [k \in 0..n |-> f[k]],
             \A k \in 0..n : f[k] = IF k = 0 THEN 0 ELSE b[k] + (128 * f[k - 1])
      PROVE  Horner(f, b, n)
  BY <1>2, Zenon DEF Horner
<1> QED
  BY <1>1, <1>2

\* It can be followed as far as one likes.
LEMMA HornerExists == ASSUME NEW b PROVE \A n \in Nat : \E f : Horner(f, b, n)
<1> DEFINE T == {n \in Nat : \E f : Horner(f, b, n)}
<1>1. 0 \in T
  <2>1. Horner([k \in 0..0 |-> 0], b, 0)
    BY DEF Horner
  <2> QED
    BY <2>1
<1>2. ASSUME NEW n \in Nat, n \in T PROVE n + 1 \in T
  <2>1. PICK f : Horner(f, b, n)
    BY <1>2
  <2>2. \A k \in 0..n : f[k] = IF k = 0 THEN 0 ELSE b[k] + (128 * f[k - 1])
    BY <2>1, HornerAt
  <2> DEFINE g == [k \in 0..(n + 1) |-> IF k = n + 1 THEN b[k] + (128 * f[n]) ELSE f[k]]
  <2>3. ASSUME NEW k \in 0..(n + 1)
        PROVE  g[k] = IF k = 0 THEN 0 ELSE b[k] + (128 * g[k - 1])
    <3>1. CASE k = n + 1
      BY <3>1
    <3>2. CASE k # n + 1
      BY <2>2, <3>2
    <3> QED
      BY <3>1, <3>2
  <2>4. g = [k \in 0..(n + 1) |-> g[k]]
    OBVIOUS
  <2> HIDE DEF g
  <2>5. Horner(g, b, n + 1)
    BY <2>3, <2>4, HornerAt
  <2> QED
    BY <2>5
<1>3. Nat \subseteq T
  <2> HIDE DEF T
  <2> QED
    BY <1>1, <1>2, SetInduction
<1> QED
  BY <1>3

\* So the bytes stand for a number.
LEMMA VarintIsNumber ==
    ASSUME NEW s \in Seq(0..255), NEW at \in Nat, NEW n \in Nat, Holds(s, at, n)
    PROVE  VarintValue(s, at, n) \in Nat
<1> DEFINE b == [k \in 1..n |-> s[at + (n - k) + 1] % 128]
           P(x) == x = [k \in 0..n |->
                     IF k = 0 THEN 0 ELSE (s[at + (n - k) + 1] % 128) + (128 * x[k - 1])]
           f == CHOOSE x : P(x)
<1>1. \A k \in 1..n : b[k] = s[at + (n - k) + 1] % 128
  OBVIOUS
<1>2. \A k \in 1..n : b[k] \in Nat
  <2> TAKE k \in 1..n
  <2> DEFINE x == s[at + (n - k) + 1]
             j == at + (n - k) + 1
  <2>1. j \in 1..Len(s)
    BY DEF Holds
  <2>2. x \in 0..255
    <3> HIDE DEF j
    <3>1. s[j] \in 0..255
      BY <2>1, ByteAt
    <3> QED
      BY <3>1 DEF j
  <2>3. b[k] = x % 128
    BY <1>1
  <2> HIDE DEF b, x, j
  <2>4. x % 128 \in Nat
    BY <2>2
  <2> QED
    BY <2>3, <2>4
<1>3. \E x : P(x)
  <2>1. PICK x : Horner(x, b, n)
    BY HornerExists
  <2>2. /\ x = [k \in 0..n |-> x[k]]
        /\ \A k \in 0..n : x[k] = IF k = 0 THEN 0 ELSE b[k] + (128 * x[k - 1])
    BY <2>1, HornerAt
  <2>3. \A k \in 0..n : x[k] = IF k = 0 THEN 0
                               ELSE (s[at + (n - k) + 1] % 128) + (128 * x[k - 1])
    <3> TAKE k \in 0..n
    <3>1. k # 0 => k \in 1..n
      OBVIOUS
    <3> HIDE DEF b
    <3> QED
      BY <1>1, <2>2, <3>1
  <2>4. P(x)
    <3> DEFINE e(k) == IF k = 0 THEN 0
                       ELSE (s[at + (n - k) + 1] % 128) + (128 * x[k - 1])
    <3>1. \A k \in 0..n : x[k] = e(k)
      BY <2>3
    <3>2. P(x) <=> x = [k \in 0..n |-> e(k)]
      BY Zenon
    <3> HIDE DEF e, P
    <3>3. x = [k \in 0..n |-> e(k)]
      BY <2>2, <3>1
    <3> QED
      BY <3>2, <3>3
  <2> QED
    BY <2>4
<1>4. P(f)
  BY <1>3
<1>5. \A k \in 0..n : f[k] = IF k = 0 THEN 0
                             ELSE (s[at + (n - k) + 1] % 128) + (128 * f[k - 1])
  BY <1>4, Zenon
<1>6. VarintValue(s, at, n) = f[n]
  BY DEF VarintValue
<1> HIDE DEF f, P
<1> DEFINE T == {k \in Nat : k \in 0..n => f[k] \in Nat}
<1>7. 0 \in T
  BY <1>5
<1>8. ASSUME NEW k \in Nat, k \in T PROVE k + 1 \in T
  <2> SUFFICES ASSUME k + 1 \in 0..n PROVE f[k + 1] \in Nat
    OBVIOUS
  <2>1. f[k + 1] = (s[at + (n - (k + 1)) + 1] % 128) + (128 * f[(k + 1) - 1])
    BY <1>5
  <2>2. f[k] \in Nat /\ (k + 1) - 1 = k
    BY <1>8
  <2>3. s[at + (n - (k + 1)) + 1] % 128 \in Nat
    <3>1. k + 1 \in 1..n
      OBVIOUS
    <3> HIDE DEF b
    <3> QED
      BY <1>1, <1>2, <3>1
  <2> QED
    BY <2>1, <2>2, <2>3
<1>9. Nat \subseteq T
  <2> HIDE DEF T
  <2> QED
    BY <1>7, <1>8, SetInduction
<1>10. f[n] \in Nat
  BY <1>9
<1> QED
  BY <1>6, <1>10

\* A reading of a varint.
LEMMA Readings ==
    ASSUME NEW s \in Seq(0..255), NEW at \in Nat, NEW v \in Varint(s, at)
    PROVE  v.value \in Nat /\ v.at \in Nat
<1>1. PICK n \in 1..VarintBytes :
         Holds(s, at, n) /\ v = [at |-> at + n, value |-> VarintValue(s, at, n)]
  BY DEF Varint
<1>2. n \in Nat
  BY StreamsAssumption
<1>3. VarintValue(s, at, n) \in Nat
  BY <1>1, <1>2, VarintIsNumber
<1> QED
  BY <1>1, <1>2, <1>3

\* A size field's reading: a number, or nothing.
LEMMA SizeReadings ==
    ASSUME NEW s \in Seq(0..255), NEW at \in Nat, NEW present, NEW v \in SizeField(s, at, present)
    PROVE  v.value \in Nat \cup {Absent} /\ v.at \in Nat
<1>1. CASE present
  BY <1>1, Readings DEF SizeField
<1>2. CASE ~present
  BY <1>2 DEF SizeField
<1> QED
  BY <1>1, <1>2

-----------------------------------------------------------------------------
(* The converters keep the length of what they convert.                    *)

\* Replacing an element keeps the length.
LEMMA ExceptLength ==
    ASSUME NEW s, IsSeq(s), NEW i, NEW e
    PROVE  IsSeq([s EXCEPT ![i] = e]) /\ Len([s EXCEPT ![i] = e]) = Len(s)
<1> DEFINE f == [s EXCEPT ![i] = e]
           n == Len(s)
<1>1. PICK S : s \in Seq(S)
  BY DEF IsSeq
<1>2. n \in Nat /\ DOMAIN s = 1..n
  BY <1>1, LenProperties
<1>3. f = [k \in 1..n |-> f[k]]
  BY <1>2
<1> HIDE DEF f, n
<1>4. IsSeq(f) /\ Len(f) = n
  BY <1>2, <1>3, FunctionIsSeq
<1> QED
  BY <1>4 DEF f, n

\* Thumb: a call moved in place.
LEMMA ThumbLength ==
    ASSUME NEW s, IsSeq(s), NEW i, NEW by
    PROVE  IsSeq(ThumbMoved(s, i, by)) /\ Len(ThumbMoved(s, i, by)) = Len(s)
<1> DEFINE addr == ((ThumbAddress(s, i) * 2 + by) % 2^23) \div 2
           s1 == [s EXCEPT ![i + 1] = Field(addr, 11, 8)]
           s2 == [s1 EXCEPT ![i + 2] = 240 + Field(addr, 19, 3)]
           s3 == [s2 EXCEPT ![i + 3] = Field(addr, 0, 8)]
           e4 == 248 + Field(addr, 8, 3)
           s4 == [s3 EXCEPT ![i + 4] = e4]
<1>1. ThumbMoved(s, i, by) = s4
  BY DEF ThumbMoved
<1>2. IsSeq(s1) /\ Len(s1) = Len(s)
  BY ExceptLength
<1> HIDE DEF s1
<1>3. IsSeq(s2) /\ Len(s2) = Len(s)
  BY <1>2, ExceptLength
<1> HIDE DEF s2
<1>4. IsSeq(s3) /\ Len(s3) = Len(s)
  BY <1>3, ExceptLength
<1> HIDE DEF s3
<1>5. IsSeq(s4) /\ Len(s4) = Len(s)
  <2> HIDE DEF e4, addr
  <2> QED
    BY <1>4, ExceptLength
<1> QED
  BY <1>1, <1>5

UnitKinds == {"powerpc", "ia64", "arm", "sparc"}

\* A converted unit is as long as it was.
LEMMA UnitLength ==
    ASSUME NEW kind \in UnitKinds, NEW w, IsSeq(w), Len(w) = UnitWidth(kind), NEW by
    PROVE  IsSeq(Moved(kind, w, by)) /\ Len(Moved(kind, w, by)) = UnitWidth(kind)
<1> DEFINE Kept(u, n) == IsSeq(u) /\ Len(u) = n
<1>1. ASSUME NEW a, NEW b, NEW c, NEW d PROVE Kept(<<a, b, c, d>>, 4)
  <2>1. <<a, b, c, d>> \in Seq({a, b, c, d}) /\ Len(<<a, b, c, d>>) = 4
    OBVIOUS
  <2> QED
    BY <2>1 DEF IsSeq
<1>2. CASE kind = "powerpc"
  <2>1. Moved(kind, w, by) = MovedPowerPc(w, by) /\ UnitWidth(kind) = 4
    BY <1>2 DEF Moved, UnitWidth
  <2>2. \/ MovedPowerPc(w, by) = w
        \/ \E a, b, c, d : MovedPowerPc(w, by) = <<a, b, c, d>>
    BY Zenon DEF MovedPowerPc
  <2> QED
    BY <1>1, <2>1, <2>2
<1>3. CASE kind = "arm"
  <2>1. Moved(kind, w, by) = MovedArm(w, by) /\ UnitWidth(kind) = 4
    BY <1>3 DEF Moved, UnitWidth
  <2>2. \/ MovedArm(w, by) = w
        \/ \E a, b, c, d : MovedArm(w, by) = <<a, b, c, d>>
    BY Zenon DEF MovedArm
  <2> QED
    BY <1>1, <2>1, <2>2
<1>4. CASE kind = "sparc"
  <2>1. Moved(kind, w, by) = MovedSparc(w, by) /\ UnitWidth(kind) = 4
    BY <1>4 DEF Moved, UnitWidth
  <2>2. \/ MovedSparc(w, by) = w
        \/ \E a, b, c, d : MovedSparc(w, by) = <<a, b, c, d>>
    BY Zenon DEF MovedSparc
  <2> QED
    BY <1>1, <2>1, <2>2
<1>5. CASE kind = "ia64"
  <2> DEFINE u == MovedIa64(w, by)
  <2>1. Moved(kind, w, by) = u /\ UnitWidth(kind) = 16
    BY <1>5 DEF Moved, UnitWidth
  <2>2. u = w \/ u = [j \in 1..16 |-> u[j]]
    BY DEF MovedIa64
  <2> HIDE DEF u
  <2>3. u # w => Kept(u, 16)
    BY <2>2, FunctionIsSeq
  <2> QED
    BY <2>1, <2>3
<1> QED
  BY <1>2, <1>3, <1>4, <1>5 DEF UnitKinds

\* A block in units: the whole ones converted, and the rest.
LEMMA UnitsLength ==
    ASSUME NEW kind \in UnitKinds, NEW s, IsSeq(s), NEW start, NEW sign
    PROVE  IsSeq(InUnits(kind, s, start, sign)) /\ Len(InUnits(kind, s, start, sign)) = Len(s)
<1> DEFINE width == UnitWidth(kind)
           n == Len(s)
           whole == n - (n % width)
           q == whole \div width
           by(i) == sign * (start + i + Ahead(kind))
           Unit(i) == Moved(kind, SubSeq(s, i + 1, i + width), by(i))
           units == [g \in 1..q |-> Unit(width * (g - 1))]
           rest == SubSeq(s, whole + 1, n)
<1>1. PICK S : s \in Seq(S)
  BY DEF IsSeq
<1>2. n \in Nat /\ width \in Nat \ {0}
  BY <1>1, LenProperties DEF UnitWidth
<1>3. whole \in 0..n /\ q \in Nat /\ whole = width * q
  <2>1. width \in {4, 16}
    BY DEF UnitWidth
  <2> HIDE DEF width, n
  <2> QED
    BY <1>2, <2>1
<1>4. ASSUME NEW g \in 1..q
      PROVE  IsSeq(units[g]) /\ Len(units[g]) = width
  <2> DEFINE i == width * (g - 1)
             w == SubSeq(s, i + 1, i + width)
  <2>1. i \in Nat /\ i + width <= n
    <3>1. g - 1 \in Nat /\ (g - 1) + 1 <= q /\ g - 1 \in Int
      BY <1>3
    <3>2. width * (g - 1) + width <= width * q
      <4>1. CASE g = q
        <5> HIDE DEF width, q
        <5> QED
          BY <1>2, <1>3, <4>1
      <4>2. CASE g < q
        <5> DEFINE a == g - 1
        <5>1. a \in Int /\ q \in Int /\ a < q
          BY <1>3, <4>2
        <5> HIDE DEF width, q, a
        <5>2. width * a + width <= width * q
          BY <1>2, <5>1, MultiplesApart
        <5> QED
          BY <5>2 DEF a
      <4> QED
        BY <1>3, <4>1, <4>2
    <3> HIDE DEF width, q, n, whole
    <3>3. width * (g - 1) \in Nat
      BY <1>2, <3>1
    <3> QED
      BY <1>3, <3>2, <3>3, <1>2
  <2>2. IsSeq(w) /\ Len(w) = width
    <3> DEFINE m == i + 1
               l == i + width
    <3>1. m \in Int /\ l \in Int /\ (IF m <= l THEN (l - m) + 1 ELSE 0) = width
      <4> HIDE DEF width, i, n
      <4> QED
        BY <1>2, <2>1
    <3>2. \A k \in m..l : s[k] \in S
      <4>1. \A k \in m..l : k \in 1..n
        <5> HIDE DEF width, i, n
        <5> QED
          BY <1>2, <2>1
      <4> QED
        BY <1>1, <4>1, ElementOfSeq
    <3> HIDE DEF m, l, i, width
    <3>3. /\ SubSeq(s, m, l) \in Seq(S)
          /\ Len(SubSeq(s, m, l)) = IF m <= l THEN (l - m) + 1 ELSE 0
      BY <3>1, <3>2, SubSeqProperties
    <3>4. SubSeq(s, m, l) \in Seq(S) /\ Len(SubSeq(s, m, l)) = width
      BY <3>1, <3>3
    <3>5. w = SubSeq(s, m, l)
      BY DEF m, l
    <3> HIDE DEF w
    <3> QED
      BY <3>4, <3>5 DEF IsSeq
  <2>3. units[g] = Moved(kind, w, by(i))
    OBVIOUS
  <2> HIDE DEF w, i, units, by
  <2> QED
    BY <2>2, <2>3, UnitLength
<1>5. Len(units) = q /\ DOMAIN units = 1..q
  BY <1>3
<1>6. IsSeq(FlattenSeq(units)) /\ Len(FlattenSeq(units)) = whole
  <2>1. CASE q = 0
    <3>1. Len(units) = 0
      BY <1>5, <2>1
    <3>2. FlattenSeq(units) = units
      <4> HIDE DEF units
      <4> QED
        BY <3>1 DEF FlattenSeq
    <3>3. units = [k \in 1..0 |-> units[k]]
      BY <2>1
    <3>4. IsSeq(units)
      <4> HIDE DEF units
      <4> QED
        BY <3>3, FunctionIsSeq
    <3> HIDE DEF units, width, q, whole
    <3> QED
      BY <1>2, <1>3, <2>1, <3>1, <3>2, <3>4
  <2>2. CASE q # 0
    <3> HIDE DEF units, width, q, whole, n
    <3> DEFINE U == UNION {{units[g][k] : k \in 1..width} : g \in 1..q}
    <3>1. ASSUME NEW g \in 1..q
          PROVE  units[g] \in Seq(U) /\ Len(units[g]) = width
      <4>1. PICK T : units[g] \in Seq(T)
        BY <1>4 DEF IsSeq
      <4>2. Len(units[g]) = width
        BY <1>4
      <4> DEFINE u == units[g]
      <4>3. u \in [1..width -> T]
        BY <4>1, <4>2, LenProperties
      <4>4. \A k \in 1..width : u[k] \in U
        OBVIOUS
      <4> HIDE DEF u, U
      <4>5. u \in [1..width -> U]
        BY <4>3, <4>4
      <4>6. u \in Seq(U)
        BY <4>5, <1>2
      <4> QED
        BY <4>2, <4>6 DEF u
    <3> HIDE DEF U
    <3>2. FullTo(FlattenSeq(units), U, width, units, q)
      <4>1. \A g \in 1..q : units[g] \in Seq(U) /\ Len(units[g]) <= width
        BY <3>1, <1>2
      <4>2. \A g \in 1..(q - 1) : Len(units[g]) = width
        BY <3>1, <1>3
      <4> QED
        BY <1>2, <1>3, <1>5, <2>2, <4>1, <4>2, FlattenFull
    <3>3. FlattenSeq(units) \in Seq(U) /\ Len(FlattenSeq(units)) = width * (q - 1) + Len(units[q])
      BY <3>2 DEF FullTo
    <3>4. Len(units[q]) = width
      BY <1>3, <2>2, <3>1
    <3>5. width * (q - 1) + width = width * q
      BY <1>2, <1>3
    <3> QED
      BY <1>3, <3>3, <3>4, <3>5 DEF IsSeq
  <2> QED
    BY <2>1, <2>2
<1>7. IsSeq(rest) /\ Len(rest) = n - whole
  <2> DEFINE m == whole + 1
  <2>1. m \in Int /\ n \in Int /\ (IF m <= n THEN (n - m) + 1 ELSE 0) = n - whole
    <3> HIDE DEF whole, n
    <3> QED
      BY <1>2, <1>3
  <2>2. \A k \in m..n : s[k] \in S
    <3>1. \A k \in m..n : k \in 1..n
      <4> HIDE DEF whole, n
      <4> QED
        BY <1>2, <1>3
    <3> QED
      BY <1>1, <3>1, ElementOfSeq
  <2> HIDE DEF m, n, whole
  <2>3. /\ SubSeq(s, m, n) \in Seq(S)
        /\ Len(SubSeq(s, m, n)) = IF m <= n THEN (n - m) + 1 ELSE 0
    BY <2>1, <2>2, SubSeqProperties
  <2> QED
    BY <2>1, <2>3 DEF IsSeq, m
<1>8. InUnits(kind, s, start, sign) = FlattenSeq(units) \o rest
  BY DEF InUnits
<1>9. /\ IsSeq(FlattenSeq(units) \o rest)
      /\ Len(FlattenSeq(units) \o rest) = whole + (n - whole)
  <2> HIDE DEF units, rest, n, whole
  <2> QED
    BY <1>6, <1>7, JoinLength
<1>10. whole + (n - whole) = n
  <2> HIDE DEF whole, n
  <2> QED
    BY <1>2, <1>3
<1> QED
  BY <1>8, <1>9, <1>10

\* One step of a converter.
LEMMA ConvertLength ==
    ASSUME IsSeq(buf), ConvertStep
    PROVE  IsSeq(buf') /\ Len(buf') = Len(buf)
<1>1. CASE UNCHANGED buf
  BY <1>1
<1>2. CASE X86Store
  <2>1. PICK S : buf \in Seq(S)
    BY DEF IsSeq
  <2>2. Len(buf) \in Nat
    BY <2>1, LenProperties
  <2>3. buf' = [k \in 1..Len(buf) |-> buf'[k]]
    <3> DEFINE e(k) == CASE k - scan.i \in 2..4 -> Field(X86Dest, 8 * (k - scan.i - 2), 8)
                         [] k - scan.i = 5      -> 255 * Bit(X86Dest, 24)
                         [] OTHER               -> buf[k]
    <3>1. buf' = [k \in 1..Len(buf) |-> e(k)]
      BY <1>2 DEF X86Store
    <3> HIDE DEF e
    <3> QED
      BY <3>1
  <2> DEFINE n == Len(buf)
             f == buf'
  <2> HIDE DEF n, f
  <2>4. IsSeq(f) /\ Len(f) = n
    BY <2>2, <2>3, FunctionIsSeq DEF n, f
  <2> QED
    BY <2>4 DEF n, f
<1>3. CASE ThumbScan
  BY <1>3, ThumbLength DEF ThumbScan
<1>4. CASE ConvertUnits
  <2>1. bcj.kind \in UnitKinds /\ buf' = InUnits(bcj.kind, buf, bcj.start, -1)
    BY <1>4 DEF ConvertUnits, UnitKinds
  <2> QED
    BY <2>1, UnitsLength
<1> QED
  BY <1>1, <1>2, <1>3, <1>4 DEF ConvertStep, X86Scan, X86Turn

-----------------------------------------------------------------------------
(* The decode.                                                             *)

\* A block's header as it was read.
Headers == [header : Nat, flags : 0..255, compressed : Nat \cup {Absent},
            plain : Nat \cup {Absent}, left : Int]

\* The payload is there as far as the header says it goes.
PayloadIsThere ==
    Holds(stream, DataStart, IF block.compressed = Absent THEN 0 ELSE block.compressed)

\* What the decode holds in `out` and its sink is bounded, because what it is about to add is:
\* the blocks done fit what the caller allows, a payload may pass it by one
\* byte, and what goes to the converter fits again.
XzBounded ==
    /\ stream \in Seq(0..255) /\ maxOut \in Nat /\ pos \in Nat
    /\ IsSeq(out) /\ IsSeq(buf)
    /\ Len(out) <= maxOut
    /\ Len(out) + Len(buf) <= maxOut + 1
    /\ stage \in {"block", "filters", "payload", "convert"} => HeaderIsSound
    /\ stage \in {"filters", "payload"} => block \in Headers
    /\ stage = "payload" => cursor \in Nat /\ PayloadIsThere
    /\ stage = "convert" => cursor \in Nat /\ Len(out) + Len(buf) <= maxOut

\* Padding is at most three bytes.
LEMMA PaddingBound == ASSUME NEW n \in Nat PROVE Padding(n) \in 0..3
BY DEF Padding

\* The arrivals of a stream are bytes.
LEMMA ArrivalsAreBytes ==
    ASSUME NEW o \in Originals, NEW s \in Arrivals(o)
    PROVE  s \in Seq(0..255)
<1> DEFINE w == o.stream
<1>1. w \in Seq(0..255)
  BY StreamsAssumption
<1>2. \/ s = w
      \/ \E k \in DOMAIN w, v \in ByteValues : s = [w EXCEPT ![k] = v]
      \/ \E n \in 0..Len(w) : s = SubSeq(w, 1, n)
      \/ \E n \in 1..4 : s = w \o ZeroBytes(n)
  <2>1. CASE o.faulty
    BY <2>1 DEF Arrivals
  <2>2. CASE ~o.faulty
    BY <2>2 DEF Arrivals
  <2> QED
    BY <2>1, <2>2
<1> HIDE DEF w
<1>3. ASSUME NEW k \in DOMAIN w, NEW v \in ByteValues
      PROVE  [w EXCEPT ![k] = v] \in Seq(0..255)
  <2>1. k \in 1..Len(w) /\ v \in 0..255
    BY <1>1, LenProperties, StreamsAssumption
  <2> QED
    BY <1>1, <2>1, ExceptSeq
<1>4. ASSUME NEW n \in 0..Len(w) PROVE SubSeq(w, 1, n) \in Seq(0..255)
  <2>1. Len(w) \in Nat
    BY <1>1, LenProperties
  <2>2. \A k \in 1..n : w[k] \in 0..255
    <3>1. \A k \in 1..n : k \in 1..Len(w)
      BY <2>1
    <3> QED
      BY <1>1, <3>1, ByteAt
  <2>3. n \in Int /\ 1 \in Int
    BY <2>1
  <2> QED
    BY <2>2, <2>3, SubSeqProperties
<1>5. ASSUME NEW n \in 1..4 PROVE w \o ZeroBytes(n) \in Seq(0..255)
  <2> DEFINE z == ZeroBytes(n)
  <2>1. z \in [1..n -> 0..255] /\ n \in Nat
    BY DEF ZeroBytes
  <2> HIDE DEF z
  <2>2. z \in Seq(0..255)
    BY <2>1
  <2>3. w \o z \in Seq(0..255)
    BY <1>1, <2>2, ConcatProperties
  <2> QED
    BY <2>3 DEF z
<1>6. CASE s = w
  BY <1>1, <1>6
<1>7. CASE \E k \in DOMAIN w, v \in ByteValues : s = [w EXCEPT ![k] = v]
  BY <1>3, <1>7, Zenon
<1>8. CASE \E n \in 0..Len(w) : s = SubSeq(w, 1, n)
  BY <1>4, <1>8, Zenon
<1>9. CASE \E n \in 1..4 : s = w \o ZeroBytes(n)
  BY <1>5, <1>9, Zenon
<1> QED
  BY <1>2, <1>6, <1>7, <1>8, <1>9

\* A decode begins with nothing held.
LEMMA XzInitBounded == XzInit => XzBounded
<1> SUFFICES ASSUME XzInit PROVE XzBounded
  OBVIOUS
<1>1. stream \in Seq(0..255) /\ maxOut \in Nat
  <2>1. source \in Originals /\ stream \in Arrivals(source) /\ maxOut \in MaxOuts(source)
    BY DEF XzInit
  <2> QED
    BY <2>1, ArrivalsAreBytes, StreamsAssumption
<1> QED
  BY <1>1, NothingIsSeq DEF XzInit, XzBounded

\* The check of a header that is sound has a length.
LEMMA CheckHasLength == HeaderIsSound => CheckLength \in Nat
<1>1. ASSUME Check \in DOMAIN CheckLengths PROVE CheckLength \in Nat
  BY <1>1 DEF CheckLength, CheckLengths
<1> QED
  BY <1>1 DEF HeaderIsSound

-----------------------------------------------------------------------------
(* Each stage.                                                             *)

\* A block's header, whole, says where its payload may end.
LEMMA HeaderIsRead ==
    ASSUME XzBounded, BlockHeader PROVE block' \in Headers
<1> DEFINE n == HeaderLength
           body == Slice(stream, pos, n - 4)
<1>1. stream \in Seq(0..255) /\ pos \in Nat
  BY DEF XzBounded
<1>2. n \in Nat /\ n >= 8
  <2>1. Holds(stream, pos, 1) /\ Byte(stream, pos) # 0
    BY DEF BlockHeader, AtBlock
  <2> DEFINE b == Byte(stream, pos)
  <2>2. b \in 0..255
    BY <1>1, <2>1, ByteThere
  <2>3. n = (b + 1) * 4
    BY DEF HeaderLength
  <2> HIDE DEF b, n
  <2>4. b # 0
    BY <2>1 DEF b
  <2> QED
    BY <2>2, <2>3, <2>4
<1>3. PICK sizes \in BlockHeaders :
        block' = [header |-> n, flags |-> BlockFlags, compressed |-> sizes.compressed,
                  plain |-> sizes.plain, left |-> (BlockFlags % 4) + 1]
  BY DEF BlockHeader
<1>4. Holds(stream, pos, n) /\ sizes \in Sizes(body)
  BY <1>3 DEF BlockHeaders, BlockHeaderIsWhole
<1> HIDE DEF n
<1>5. body \in Seq(0..255)
  <2> DEFINE l == n - 4
  <2>1. l \in Nat /\ Holds(stream, pos, l)
    BY <1>1, <1>2, <1>4, LenProperties DEF Holds
  <2> HIDE DEF l
  <2>2. Slice(stream, pos, l) \in Seq(0..255)
    BY <1>1, <2>1, SliceLength
  <2> QED
    BY <2>2 DEF l
<1>6. BlockFlags \in 0..255
  <2> DEFINE k == pos + 1
  <2>1. k \in Nat /\ Holds(stream, k, 1)
    BY <1>1, <1>2, <1>4, LenProperties DEF Holds
  <2> HIDE DEF k
  <2>2. Byte(stream, k) \in 0..255
    BY <1>1, <2>1, ByteThere
  <2> QED
    BY <2>2 DEF k, BlockFlags
<1> HIDE DEF body
<1>7. sizes.compressed \in Nat \cup {Absent} /\ sizes.plain \in Nat \cup {Absent}
  <2>1. PICK c \in SizeField(body, 2, Bit(BlockFlags, 6) = 1) :
        \E u \in SizeField(body, c.at, Bit(BlockFlags, 7) = 1) :
           sizes = [compressed |-> c.value, plain |-> u.value, at |-> u.at]
    BY <1>4 DEF Sizes
  <2>2. PICK u \in SizeField(body, c.at, Bit(BlockFlags, 7) = 1) :
           sizes = [compressed |-> c.value, plain |-> u.value, at |-> u.at]
    BY <2>1
  <2>3. c.value \in Nat \cup {Absent} /\ c.at \in Nat
    BY <1>5, <2>1, SizeReadings
  <2>4. u.value \in Nat \cup {Absent}
    BY <1>5, <2>2, <2>3, SizeReadings
  <2> QED
    BY <2>2, <2>3, <2>4
<1> QED
  BY <1>2, <1>3, <1>6, <1>7 DEF Headers

\* The payload is bytes.
LEMMA PayloadIsBytes ==
    ASSUME XzBounded, stage = "payload"
    PROVE  Payload \in Seq(0..255) /\ DataStart \in Nat /\ block.header \in Nat
<1>1. /\ stream \in Seq(0..255) /\ pos \in Nat /\ block \in Headers
      /\ PayloadIsThere
  BY DEF XzBounded
<1>2. block.header \in Nat /\ block.compressed \in Nat \cup {Absent}
  BY <1>1 DEF Headers
<1>3. DataStart \in Nat
  BY <1>1, <1>2 DEF DataStart
<1> DEFINE n == IF block.compressed = Absent THEN Len(stream) - DataStart ELSE block.compressed
<1>4. n \in Nat /\ Holds(stream, DataStart, n)
  BY <1>1, <1>2, <1>3, LenProperties DEF PayloadIsThere, Holds
<1>5. Payload = Slice(stream, DataStart, n)
  BY DEF Payload
<1> HIDE DEF n
<1>6. Slice(stream, DataStart, n) \in Seq(0..255)
  BY <1>1, <1>3, <1>4, SliceLength
<1> QED
  BY <1>2, <1>3, <1>5, <1>6

\* A chunk is as long as it says, and Capped takes it only where there is room.
LEMMA ChunkBounded == ASSUME XzBounded, Chunk PROVE XzBounded'
<1>1. /\ stage = "payload" /\ AtChunk
      /\ Len(buf) + ChunkLength <= SinkLimit
      /\ buf' = buf \o Slice(Payload, cursor + 3, ChunkLength)
      /\ cursor' = cursor + 3 + ChunkLength
      /\ UNCHANGED <<source, stream, maxOut, stage, pos, block, records, out, bcj, scan>>
  BY DEF Chunk
<1>2. Payload \in Seq(0..255) /\ cursor \in Nat
  BY <1>1, PayloadIsBytes DEF XzBounded
<1>3. ChunkLength \in Nat
  <2> DEFINE i == cursor + 1
             j == cursor + 2
  <2>1. i \in Nat /\ j \in Nat /\ Holds(Payload, i, 1) /\ Holds(Payload, j, 1)
    <3>1. Holds(Payload, cursor, 3) /\ Len(Payload) \in Nat
      BY <1>1, <1>2, LenProperties DEF AtChunk
    <3> QED
      BY <1>2, <3>1 DEF Holds
  <2> HIDE DEF i, j
  <2> DEFINE x == Byte(Payload, i)
             y == Byte(Payload, j)
  <2>2. x \in 0..255 /\ y \in 0..255
    BY <1>2, <2>1, ByteThere
  <2>3. ChunkLength = (x * 256) + y + 1
    BY DEF ChunkLength, i, j
  <2> HIDE DEF x, y
  <2> QED
    BY <2>2, <2>3
<1> DEFINE k == cursor + 3
           n == ChunkLength
           piece == Slice(Payload, k, n)
<1>4. k \in Nat /\ Holds(Payload, k, n)
  BY <1>1, <1>2 DEF AtChunk
<1>5. IsSeq(piece) /\ Len(piece) = n
  <2> HIDE DEF k, n
  <2>1. piece \in Seq(0..255) /\ Len(piece) = n
    BY <1>2, <1>3, <1>4, SliceLength DEF n
  <2> QED
    BY <2>1 DEF IsSeq
<1>6. IsSeq(buf) /\ IsSeq(out) /\ Len(out) <= maxOut /\ maxOut \in Nat
  BY DEF XzBounded
<1>7. buf' = buf \o piece
  BY <1>1
<1> HIDE DEF piece, k
<1>8. IsSeq(buf') /\ Len(buf') = Len(buf) + n
  BY <1>5, <1>6, <1>7, JoinLength
<1>9. Len(buf') <= (maxOut - Len(out)) + 1 /\ Len(out) \in Nat /\ Len(buf') \in Nat
  <2>1. Len(out) \in Nat /\ Len(buf') \in Nat
    BY <1>6, <1>8, LengthIsNumber
  <2> QED
    BY <1>1, <1>6, <1>8, <2>1 DEF SinkLimit
<1>10. Len(out) + Len(buf') <= maxOut + 1
  BY <1>6, <1>9
<1>11. cursor' \in Nat
  BY <1>1, <1>2, <1>3
<1>12. HeaderIsSound' /\ PayloadIsThere' /\ block' \in Headers
  BY <1>1 DEF XzBounded, HeaderIsSound, HeaderFlags, Check, PayloadIsThere, DataStart
<1> QED
  BY <1>1, <1>6, <1>8, <1>10, <1>11, <1>12 DEF XzBounded

\* The end of a payload: what was decoded fits what the caller allows.
LEMMA EndPayloadBounded == ASSUME XzBounded, EndPayload PROVE XzBounded'
<1>1. /\ stage = "payload" /\ PayloadIsSound
      /\ cursor' = CheckAt /\ stage' = "convert"
      /\ UNCHANGED <<source, stream, maxOut, pos, block, out, buf, bcj>>
  BY DEF EndPayload
<1>2. DataStart \in Nat /\ cursor \in Nat /\ block.header \in Nat
  BY <1>1, PayloadIsBytes DEF XzBounded
<1>3. CheckAt \in Nat
  <2> DEFINE n == block.header + Consumed
  <2>1. n \in Nat
    BY <1>2 DEF Consumed
  <2> HIDE DEF n
  <2>2. Padding(n) \in 0..3
    BY <2>1, PaddingBound
  <2>3. CheckAt = (DataStart + (cursor + 1)) + Padding(n)
    BY DEF CheckAt, PaddingAt, Consumed, n
  <2> QED
    BY <1>2, <2>2, <2>3
<1>4. Len(out) + Len(buf) <= maxOut
  BY <1>1 DEF PayloadIsSound
<1>5. HeaderIsSound'
  BY <1>1 DEF XzBounded, HeaderIsSound, HeaderFlags, Check
<1> QED
  BY <1>1, <1>3, <1>4, <1>5 DEF XzBounded

\* The end of a block: the next begins a number of bytes on.
LEMMA EndBlockBounded == ASSUME XzBounded, EndBlock PROVE XzBounded'
<1>1. /\ stage = "convert" /\ out' = out \o buf /\ buf' = <<>>
      /\ pos' = cursor + CheckLength /\ stage' = "block"
      /\ UNCHANGED <<source, stream, maxOut, records, cursor, bcj, scan>>
  BY DEF EndBlock
<1>2. /\ stream \in Seq(0..255) /\ maxOut \in Nat /\ IsSeq(out) /\ IsSeq(buf)
      /\ cursor \in Nat /\ Len(out) + Len(buf) <= maxOut /\ HeaderIsSound
  BY <1>1 DEF XzBounded
<1>3. CheckLength \in Nat
  BY <1>2, CheckHasLength
<1>4. IsSeq(out') /\ Len(out') = Len(out) + Len(buf)
  BY <1>1, <1>2, JoinLength
<1>5. IsSeq(buf') /\ Len(buf') = 0 /\ Len(out') \in Nat
  BY <1>1, <1>4, NothingIsSeq, LengthIsNumber
<1>6. HeaderIsSound'
  BY <1>1, <1>2 DEF HeaderIsSound, HeaderFlags, Check
<1>7. pos' \in Nat
  BY <1>1, <1>2, <1>3
<1> QED
  BY <1>1, <1>2, <1>4, <1>5, <1>6, <1>7 DEF XzBounded

\* Every step keeps what is held bounded.
LEMMA XzNextBounded == ASSUME XzBounded, [XzNext]_xzVars PROVE XzBounded'
<1>1. CASE UNCHANGED xzVars
  BY <1>1 DEF XzBounded, xzVars, HeaderIsSound, HeaderFlags, Check, PayloadIsThere, DataStart
<1>2. CASE Dispatch
  BY <1>2 DEF Dispatch, Unconverted, XzBounded
<1>3. CASE StreamHeader
  BY <1>3 DEF StreamHeader, Unconverted, XzBounded, HeaderIsSound, HeaderFlags, Check
<1>4. CASE BlockHeader
  <2>1. block' \in Headers
    BY <1>4, HeaderIsRead
  <2>2. /\ stage = "block" /\ stage' = "filters"
        /\ UNCHANGED <<source, stream, maxOut, pos, records, out, buf, scan>>
    BY <1>4 DEF BlockHeader, AtBlock
  <2>3. HeaderIsSound'
    BY <2>2 DEF XzBounded, HeaderIsSound, HeaderFlags, Check
  <2> QED
    BY <2>1, <2>2, <2>3 DEF XzBounded
<1>5. CASE ReadFilter
  <2>1. /\ stage = "filters" /\ block' = [block EXCEPT !.left = @ - 1]
        /\ UNCHANGED <<source, stream, maxOut, stage, pos, records, out, buf, scan>>
    BY <1>5 DEF ReadFilter
  <2>2. block \in Headers
    BY <2>1 DEF XzBounded
  <2>3. block' = [block EXCEPT !.left = block.left - 1]
    BY <2>1
  <2>4. block' \in Headers
    BY <2>2, <2>3 DEF Headers
  <2>5. HeaderIsSound'
    BY <2>1 DEF XzBounded, HeaderIsSound, HeaderFlags, Check
  <2> QED
    BY <2>1, <2>4, <2>5 DEF XzBounded
<1>6. CASE BeginPayload
  <2>1. /\ stage = "filters" /\ stage' = "payload" /\ cursor' = 0 /\ buf' = <<>>
        /\ PayloadIsThere
        /\ UNCHANGED <<source, stream, maxOut, pos, block, records, out, bcj, scan>>
    BY <1>6 DEF BeginPayload, PayloadIsPresent, PayloadIsThere
  <2>2. IsSeq(buf') /\ Len(buf') = 0
    BY <2>1, NothingIsSeq
  <2>3. HeaderIsSound' /\ PayloadIsThere' /\ block' \in Headers
    BY <2>1 DEF XzBounded, HeaderIsSound, HeaderFlags, Check, PayloadIsThere, DataStart
  <2>4. IsSeq(out) /\ Len(out) <= maxOut /\ maxOut \in Nat /\ Len(out) \in Nat
    BY LengthIsNumber DEF XzBounded
  <2>5. Len(out) + Len(buf') <= maxOut + 1
    BY <2>2, <2>4
  <2> QED
    BY <2>1, <2>2, <2>3, <2>4, <2>5 DEF XzBounded
<1>7. CASE Chunk
  BY <1>7, ChunkBounded
<1>8. CASE EndPayload
  BY <1>8, EndPayloadBounded
<1>9. CASE Convert
  <2>1. /\ stage = "convert" /\ ConvertStep
        /\ UNCHANGED <<source, stream, maxOut, stage, pos, block, records, cursor, out, bcj>>
    BY <1>9 DEF Convert
  <2>2. IsSeq(buf') /\ Len(buf') = Len(buf)
    BY <2>1, ConvertLength DEF XzBounded
  <2>3. HeaderIsSound'
    BY <2>1 DEF XzBounded, HeaderIsSound, HeaderFlags, Check
  <2> QED
    BY <2>1, <2>2, <2>3 DEF XzBounded
<1>10. CASE EndBlock
  BY <1>10, EndBlockBounded
<1>11. CASE BeginIndex \/ IndexRecord \/ EndStream \/ Refuse
  <2>1. /\ stage' \in {"index", "ok", "refused"}
        /\ UNCHANGED <<source, stream, maxOut, pos, out, buf>>
    BY <1>11 DEF BeginIndex, IndexRecord, EndStream, Refuse, Unconverted
  <2> QED
    BY <2>1 DEF XzBounded
<1> QED
  BY <1>1, <1>2, <1>3, <1>4, <1>5, <1>6, <1>7, <1>8, <1>9, <1>10, <1>11 DEF XzNext

\* What xz.rs holds of a decode's output, done and in the sink, is never more
\* than one byte past what its caller allows, for every stream, every damage and
\* every bound.
THEOREM OutputBounded == XzSpec => []OutputCapped
<1>1. XzInit => XzBounded
  BY XzInitBounded
<1>2. XzBounded /\ [XzNext]_xzVars => XzBounded'
  BY XzNextBounded
<1>3. XzBounded => OutputCapped
  BY DEF XzBounded, OutputCapped
<1> QED
  BY <1>1, <1>2, <1>3, PTL DEF XzSpec

=============================================================================
