---------------------------- MODULE QueryProofs ----------------------------
(***************************************************************************)
(* Proofs about Query, for any images, damaged in any way, and any paths.  *)
(* An accepted listing accounts for every one of its cells, and a name     *)
(* that a listing handed out resolves when it is handed back.              *)
(***************************************************************************)
EXTENDS Query, SequenceLemmas

-----------------------------------------------------------------------------
(* What a cursor delivers are numbers.                                     *)

\* The cells of consecutive blocks are numbers.
LEMMA FromIsCells ==
    ASSUME NEW blocks, IsFiniteSet(DOMAIN blocks),
           \A a \in DOMAIN blocks : blocks[a].cells \in Seq(Nat),
           NEW abs, NEW limit
    PROVE  From(blocks, abs, limit) \in Seq(Nat)
<1> DEFINE N == Cardinality(DOMAIN blocks)
           Nexts == {abs} \cup {blocks[a].next : a \in DOMAIN blocks}
           D == [next : Nexts, cells : Seq(Nat)]
           z == [next |-> abs, cells |-> << >>]
           F == [kd \in Nat \X D |-> Pulled(blocks, limit, kd[1], kd[2])]
           P(x) == x = [n \in 0..N |-> IF n = 0 THEN z ELSE Pulled(blocks, limit, n, x[n - 1])]
           f == CHOOSE x : P(x)
<1>1. N \in Nat
  BY FS_CardinalityType
<1>2. z \in D
  OBVIOUS
<1>3. \A k \in Nat : \A d \in D : Pulled(blocks, limit, k, d) \in D
  <2> TAKE k \in Nat
  <2> TAKE d \in D
  <2> DEFINE b == blocks[d.next]
  <2>1. CASE Pulled(blocks, limit, k, d) = d
    BY <2>1
  <2>2. CASE /\ d.next \in DOMAIN blocks
             /\ Pulled(blocks, limit, k, d) = [next |-> b.next, cells |-> d.cells \o b.cells]
    <3>1. b.next \in Nexts /\ b.cells \in Seq(Nat) /\ d.cells \in Seq(Nat)
      BY <2>2
    <3> HIDE DEF b, Nexts
    <3>2. d.cells \o b.cells \in Seq(Nat)
      BY <3>1, ConcatProperties
    <3> QED
      BY <2>2, <3>1, <3>2
  <2> QED
    BY <2>1, <2>2 DEF Pulled
<1>4. \A k \in Nat : \A d \in D : F[<<k, d>>] = Pulled(blocks, limit, k, d)
  <2> HIDE DEF D
  <2> QED
    OBVIOUS
<1>5. From(blocks, abs, limit) = f[N].cells
  BY DEF From
<1> HIDE DEF F, D, z, N
<1>6. \A k \in Nat : \A d \in D : F[<<k, d>>] \in D
  BY <1>3, <1>4
<1>7. PICK g : Recursion(g, D, F, z, N)
  BY <1>1, <1>2, <1>6, RecursionExists
<1>8. P(g)
  <2> DEFINE e(n) == IF n = 0 THEN z ELSE Pulled(blocks, limit, n, g[n - 1])
  <2>1. \A n \in 0..N : g[n] = e(n)
    <3> TAKE n \in 0..N
    <3>1. CASE n = 0
      BY <1>7, <3>1 DEF Recursion
    <3>2. CASE n # 0
      <4>1. n \in Nat /\ n \in 1..N /\ n - 1 \in 0..N
        BY <1>1, <3>2
      <4>2. g[n - 1] \in D /\ g[n] = F[<<n, g[n - 1]>>]
        BY <1>7, <4>1 DEF Recursion
      <4> QED
        BY <1>4, <3>2, <4>1, <4>2
    <3> QED
      BY <3>1, <3>2
  <2>2. P(g) <=> g = [n \in 0..N |-> e(n)]
    BY Zenon
  <2>3. g = [k \in 0..N |-> g[k]]
    BY <1>7 DEF Recursion
  <2> HIDE DEF e, P
  <2>4. g = [n \in 0..N |-> e(n)]
    BY <2>1, <2>3
  <2> QED
    BY <2>2, <2>4
<1>9. P(f)
  <2> HIDE DEF P
  <2> QED
    BY <1>8
<1>10. \A n \in 0..N : f[n] = IF n = 0 THEN z ELSE Pulled(blocks, limit, n, f[n - 1])
  BY <1>9, Zenon
<1> HIDE DEF P, f
<1>11. \A k \in 1..N : f[k - 1] \in D => f[k] = F[<<k, f[k - 1]>>]
  <2> TAKE k \in 1..N
  <2>1. k \in 0..N /\ k # 0 /\ k \in Nat
    BY <1>1
  <2>2. f[k] = Pulled(blocks, limit, k, f[k - 1])
    BY <1>10, <2>1
  <2> QED
    BY <1>4, <2>1, <2>2
<1>12. f[0] \in D
  BY <1>1, <1>2, <1>10
<1>13. \A k \in 0..N : f[k] \in D
  BY <1>1, <1>6, <1>11, <1>12, RecursionStays
<1>14. f[N] \in D
  BY <1>1, <1>13
<1> QED
  BY <1>5, <1>14 DEF D

\* A stretch of numbers is numbers.
LEMMA CellsBetween ==
    ASSUME NEW cells \in Seq(Nat), NEW m \in Nat \ {0}, NEW n \in Nat, n <= Len(cells)
    PROVE  /\ SubSeq(cells, m, n) \in Seq(Nat)
           /\ Len(SubSeq(cells, m, n)) = IF m <= n THEN (n - m) + 1 ELSE 0
           /\ \A i \in 1..((n - m) + 1) : SubSeq(cells, m, n)[i] = cells[(m + i) - 1]
<1>1. m \in Int /\ n \in Int
  OBVIOUS
<1>2. \A i \in m..n : cells[i] \in Nat
  <2> TAKE i \in m..n
  <2>1. i \in 1..Len(cells)
    OBVIOUS
  <2> QED
    BY <2>1, ElementOfSeq
<1> QED
  BY <1>1, <1>2, SubSeqProperties

\* A reference is two numbers, and two numbers are a reference.
LEMMA ReferenceParts ==
    /\ \A ref \in Nat : InBlock(ref) \in Nat /\ BlockOffset(ref) \in Nat
    /\ \A b, o \in Nat : Packed(b, o) \in Nat
<1>1. \A ref \in Nat : ref % 65536 \in Nat /\ ref \div 65536 \in Nat
  OBVIOUS
<1> QED
  BY <1>1 DEF InBlock, BlockOffset, Packed, U16

\* So are the cells of a cursor into an image.
LEMMA CursorIsCells ==
    ASSUME image \in Range(Images), NEW table, NEW ref \in Nat, NEW limit,
           Cursor(image.blocks, table, ref, limit).ok
    PROVE  Cursor(image.blocks, table, ref, limit).value \in Seq(Nat)
<1> DEFINE all == From(image.blocks, table + BlockOffset(ref), limit)
           m == InBlock(ref) + 1
           c == Cursor(image.blocks, table, ref, limit)
<1>1. c.value = SubSeq(all, m, Len(all))
  BY DEF Cursor, Ok, Damaged, Err
<1>2. all \in Seq(Nat)
  <2> DEFINE abs == table + BlockOffset(ref)
             blocks == image.blocks
  <2>1. IsFiniteSet(DOMAIN blocks) /\ \A a \in DOMAIN blocks : blocks[a].cells \in Seq(Nat)
    BY ImagesAssumption
  <2> HIDE DEF abs, blocks
  <2>2. From(blocks, abs, limit) \in Seq(Nat)
    BY <2>1, FromIsCells
  <2> QED
    BY <2>2 DEF abs, blocks
<1>3. m \in Nat \ {0}
  <2>1. InBlock(ref) \in Nat
    BY ReferenceParts
  <2> QED
    BY <2>1
<1> HIDE DEF all, m, c
<1>4. Len(all) \in Nat
  BY <1>2, LenProperties
<1>5. SubSeq(all, m, Len(all)) \in Seq(Nat)
  BY <1>2, <1>3, <1>4, CellsBetween
<1> QED
  BY <1>1, <1>5 DEF c

-----------------------------------------------------------------------------
(* What an inode says of a directory are numbers.                          *)

\* Fields named one after another are the cells there.
LEMMA FieldsAreNumbers ==
    ASSUME NEW cells \in Seq(Nat), NEW k \in Nat, NEW names, IsSeq(names),
           k + Len(names) <= Len(cells)
    PROVE  \A f \in Range(names) : Fields(cells, k, names)[f] \in Nat
<1> TAKE f \in Range(names)
<1> DEFINE i == CHOOSE j \in 1..Len(names) : names[j] = f
<1>1. Len(names) \in Nat /\ DOMAIN names = 1..Len(names)
  BY LenProperties DEF IsSeq
<1>2. \E j \in 1..Len(names) : names[j] = f
  BY <1>1 DEF Range
<1>3. i \in 1..Len(names)
  BY <1>2
<1>4. Fields(cells, k, names)[f] = cells[k + i]
  BY DEF Fields
<1> HIDE DEF i
<1>5. k + i \in 1..Len(cells)
  BY <1>1, <1>3
<1> QED
  BY <1>4, <1>5, ElementOfSeq

\* The fields of a layout are named in a sequence.
LEMMA LayoutsAreNamed ==
    ASSUME NEW t
    PROVE  IsSeq(Common \o HeadOf(t)) /\ IsSeq(TailOf(t)) /\ Len(Common) = 6
<1> DEFINE S == {"inode_type", "permissions", "uid_idx", "gid_idx", "mtime", "inode_number",
                 "dir_start_block", "nlink", "file_size", "dir_block_offset", "parent",
                 "index_count", "xattr_index", "blocks_start", "fragment_index",
                 "fragment_offset", "sparse", "rdev"}
<1>1. Common \in Seq(S) /\ Len(Common) = 6
  BY DEF Common
<1>2. HeadOf(t) \in Seq(S)
  <2>1. CASE t = 1
    BY <2>1 DEF HeadOf
  <2>2. CASE t = 8
    BY <2>2 DEF HeadOf
  <2>3. CASE t = 2
    BY <2>3 DEF HeadOf
  <2>4. CASE t = 9
    BY <2>4 DEF HeadOf
  <2>5. CASE t \in {3, 10}
    <3>1. HeadOf(t) = <<"nlink", "file_size">>
      BY <2>5 DEF HeadOf
    <3> QED
      BY <3>1
  <2>6. CASE t \in {4, 5}
    <3>1. HeadOf(t) = <<"nlink", "rdev">>
      BY <2>6 DEF HeadOf
    <3> QED
      BY <3>1
  <2>7. CASE t \in {11, 12}
    <3>1. HeadOf(t) = <<"nlink", "rdev", "xattr_index">>
      BY <2>7 DEF HeadOf
    <3> QED
      BY <3>1
  <2>8. CASE t \in {6, 7}
    BY <2>8 DEF HeadOf
  <2>9. CASE t \notin {1, 8, 2, 9, 3, 10, 4, 5, 11, 12, 6, 7}
    <3>1. HeadOf(t) = <<"nlink", "xattr_index">>
      BY <2>9 DEF HeadOf
    <3> QED
      BY <3>1
  <2> QED
    BY <2>1, <2>2, <2>3, <2>4, <2>5, <2>6, <2>7, <2>8, <2>9
<1>3. TailOf(t) \in Seq(S)
  <2>1. CASE t = 10
    BY <2>1 DEF TailOf
  <2>2. CASE t # 10
    BY <2>2 DEF TailOf
  <2> QED
    BY <2>1, <2>2
<1> HIDE DEF S
<1>4. Common \o HeadOf(t) \in Seq(S)
  BY <1>1, <1>2, ConcatProperties
<1> QED
  BY <1>1, <1>3, <1>4 DEF IsSeq

\* Where a directory's listing is, and how long it is.
DirFields(inode) ==
    /\ inode.file_size \in Nat
    /\ inode.dir_start_block \in Nat
    /\ inode.dir_block_offset \in Nat

\* So it is in every inode that is read.
LEMMA NodeFields ==
    ASSUME NEW cells \in Seq(Nat), ParseInode(cells).ok
    PROVE  DirFields(ParseInode(cells).value)
<1> DEFINE names == Common \o HeadOf(cells[1])
           tail == TailOf(cells[1])
           head == Fields(cells, 0, names)
           k == Len(names)
           n == RunOf(head)
           run == SubSeq(cells, k + 1, k + n)
           end == Fields(cells, k + n, tail)
           field(f) ==
               IF f = "block_sizes" THEN (IF IsFile(head) THEN run ELSE << >>)
               ELSE IF f = "symlink_target" THEN (IF IsSymlink(head) THEN run ELSE << >>)
               ELSE IF f \in Range(tail) THEN end[f]
               ELSE IF f \in Range(names) THEN head[f]
               ELSE Defaults[f]
           value == [f \in Kept \cup {"block_sizes", "symlink_target"} |-> field(f)]
<1>1. ~(Len(cells) < Len(names)) /\ ParseInode(cells).value = value
  <2> DEFINE short == Len(cells) < Len(Common) \/ Kind(cells[1]) = "unknown"
             long == ~RunAllowed(head) \/ Len(cells) < k + n + Len(tail)
  <2>1. ParseInode(cells) =
            IF short THEN Damaged
            ELSE IF Len(cells) < Len(names) THEN Damaged
            ELSE IF long THEN Damaged ELSE Ok(value)
    BY Zenon DEF ParseInode
  <2> HIDE DEF short, long, names, value, tail, head, k, n
  <2>2. ~Damaged.ok /\ Ok(value).value = value
    BY DEF Damaged, Err, Ok
  <2> QED
    BY <2>1, <2>2
<1>2. IsSeq(names) /\ tail \in {<<"xattr_index">>, << >>}
  BY LayoutsAreNamed DEF TailOf
<1>3. \A f \in Range(names) : head[f] \in Nat
  <2> HIDE DEF names
  <2>1. Len(names) \in Nat
    BY <1>2, LengthIsNumber
  <2>2. 0 + Len(names) <= Len(cells)
    BY <1>1, <2>1, LenProperties
  <2> QED
    BY <1>2, <2>2, FieldsAreNumbers
<1>4. \A f \in {"file_size", "dir_start_block", "dir_block_offset"} :
          f \notin Range(tail) /\ f \in Kept /\ Defaults[f] = 0
  <2> HIDE DEF tail
  <2>1. Range(tail) \subseteq {"xattr_index"}
    <3>1. CASE tail = <<"xattr_index">>
      BY <3>1 DEF Range
    <3>2. CASE tail = << >>
      BY <3>2 DEF Range
    <3> QED
      BY <1>2, <3>1, <3>2
  <2> QED
    BY <2>1 DEF Kept, Defaults
<1> HIDE DEF names, tail, head, run, end, n, k
<1>5. \A f \in {"file_size", "dir_start_block", "dir_block_offset"} : value[f] \in Nat
  <2> TAKE f \in {"file_size", "dir_start_block", "dir_block_offset"}
  <2>1. value[f] = field(f) /\ f # "block_sizes" /\ f # "symlink_target"
    BY <1>4
  <2>2. field(f) \in Nat
    BY <1>3, <1>4, <2>1
  <2> QED
    BY <2>1, <2>2
<1> HIDE DEF value
<1> QED
  BY <1>1, <1>5 DEF DirFields

\* An inode that was read says where its listing is in numbers.
LEMMA ReadInodeFields ==
    ASSUME image \in Range(Images), NEW ref \in Nat, ReadInode(ref).ok
    PROVE  DirFields(ReadInode(ref).value)
<1> DEFINE c == Cursor(image.blocks, image.inodeTable, ref, NoLimit)
<1>1. c.ok /\ ReadInode(ref) = ParseInode(c.value)
  BY Zenon DEF ReadInode, Damaged, Err
<1>2. c.value \in Seq(Nat)
  BY <1>1, CursorIsCells
<1> HIDE DEF c
<1> QED
  BY <1>1, <1>2, NodeFields

\* The cells of a listing are numbers.
LEMMA ListingIsCells ==
    ASSUME image \in Range(Images), DirFields(node), Listing.ok
    PROVE  Listing.value \in Seq(Nat)
<1> DEFINE ref == Packed(node.dir_start_block, node.dir_block_offset)
           c == Cursor(image.blocks, image.dirTable, ref, image.dirEnd)
           n == DirListingLen(node)
<1>1. n \in Nat
  BY DEF DirFields, DirListingLen
<1>2. ref \in Nat
  BY ReferenceParts DEF DirFields
<1> HIDE DEF n, ref
<1>3. CASE n = 0
  <2>1. Listing.value = << >>
    BY <1>3 DEF Listing, Ok, n
  <2> QED
    BY <2>1
<1>4. CASE n # 0
  <2>1. c.ok /\ ~(Len(c.value) < n) /\ Listing.value = SubSeq(c.value, 1, n)
    BY <1>4, Zenon DEF Listing, Ok, n, ref, Damaged, Err
  <2>2. c.value \in Seq(Nat)
    BY <1>2, <2>1, CursorIsCells
  <2> HIDE DEF c
  <2>3. n <= Len(c.value)
    BY <1>1, <2>1, <2>2, LenProperties
  <2>4. SubSeq(c.value, 1, n) \in Seq(Nat)
    BY <1>1, <2>2, <2>3, CellsBetween
  <2> QED
    BY <2>1, <2>4
<1> QED
  BY <1>3, <1>4


-----------------------------------------------------------------------------
(* The state of a listing, through every step of a query.                  *)

\* What a parsed entry is.
EntryType == [name : Seq(Nat), inode_ref : Nat, inode_number : 0..(U32 - 1), type_id : Nat]

ListingTyped ==
    /\ buf \in Seq(Nat)
    /\ p \in 0..Len(buf)
    /\ left \in Nat
    /\ header \in [start : Nat, base : Nat]
    /\ out \in Seq(EntryType)
    /\ parse \in {"idle", "parsing", "parsed", "refused"}

\* A listing is entered with numbers, parsed step by step, or dropped.
ListingEffect ==
    \/ ParseStep
    \/ SetListing(<< >>, "idle")
    \/ \E cells \in Seq(Nat) :
           SetListing(cells, IF cells = << >> THEN "parsed" ELSE "parsing")
    \/ UNCHANGED listingVars

\* The cells of a whole header.
LEMMA HeaderCells ==
    ASSUME ListingTyped, BetweenRuns, HeaderWhole
    PROVE  /\ buf[p + 1] \in Nat /\ buf[p + 2] \in Nat /\ buf[p + 3] \in Nat
           /\ Len(buf) \in Nat /\ p \in Nat /\ p + 3 <= Len(buf) /\ Promised \in Nat \ {0}
<1>1. Len(buf) \in Nat
  BY LenProperties DEF ListingTyped
<1>2. p + 1 \in 1..Len(buf) /\ p + 2 \in 1..Len(buf) /\ p + 3 \in 1..Len(buf)
  BY <1>1 DEF ListingTyped, HeaderWhole, HeaderLen
<1>3. buf[p + 1] \in Nat /\ buf[p + 2] \in Nat /\ buf[p + 3] \in Nat
  BY <1>2, ElementOfSeq DEF ListingTyped
<1>4. p \in Nat /\ p + 3 <= Len(buf)
  BY <1>1 DEF ListingTyped, HeaderWhole, HeaderLen
<1>5. Promised \in Nat \ {0}
  BY <1>3 DEF Promised
<1> QED
  BY <1>1, <1>3, <1>4, <1>5

\* The cells of a whole entry, and what it becomes.
LEMMA EntryIsTyped ==
    ASSUME ListingTyped, InRun, EntryWhole, NameWhole
    PROVE  /\ buf[p + 1] \in Nat /\ buf[p + 2] \in Nat /\ buf[p + 3] \in Nat
           /\ buf[p + 4] \in Nat /\ NameSize = buf[p + 4] + 1
           /\ Len(buf) \in Nat /\ p \in Nat /\ p + 4 + NameSize <= Len(buf)
           /\ Name \in Seq(Nat) /\ Len(Name) = NameSize
           /\ EntryAt \in EntryType
<1>1. Len(buf) \in Nat
  BY LenProperties DEF ListingTyped
<1>2. /\ p + 1 \in 1..Len(buf) /\ p + 2 \in 1..Len(buf) /\ p + 3 \in 1..Len(buf)
      /\ p + 4 \in 1..Len(buf)
  BY <1>1 DEF ListingTyped, EntryWhole, EntryLen
<1>3. /\ buf[p + 1] \in Nat /\ buf[p + 2] \in Nat /\ buf[p + 3] \in Nat
      /\ buf[p + 4] \in Nat
  BY <1>2, ElementOfSeq DEF ListingTyped
<1>4. NameSize = buf[p + 4] + 1 /\ NameSize \in Nat /\ p + 4 + NameSize <= Len(buf)
  <2>1. NameSize = buf[p + 4] + 1
    BY DEF NameSize, EntryLen
  <2>2. p + 4 + NameSize <= Len(buf)
    BY DEF EntryLen, NameWhole
  <2>3. buf[p + 4] + 1 \in Nat
    BY <1>3
  <2> QED
    BY <2>1, <2>2, <2>3, Zenon
<1>5. p \in Nat
  BY <1>1 DEF ListingTyped
<1>6. Name \in Seq(Nat) /\ Len(Name) = NameSize
  <2> DEFINE m == p + 4 + 1
             n == p + 4 + NameSize
  <2>1. m \in Nat \ {0} /\ n \in Nat /\ n <= Len(buf) /\ m <= n /\ (n - m) + 1 = NameSize
    <3> DEFINE z == NameSize
               l == Len(buf)
    <3>1. z \in Nat /\ z >= 1
      BY <1>3, <1>4
    <3>2. l \in Nat /\ p + 4 + z <= l
      BY <1>1, <1>4
    <3> HIDE DEF z, l
    <3>3. LET a == p + 4 + 1
              b == p + 4 + z
          IN  a \in Nat \ {0} /\ b \in Nat /\ b <= l /\ a <= b /\ (b - a) + 1 = z
      BY <1>5, <3>1, <3>2
    <3> QED
      BY <3>3 DEF z, l
  <2>2. Name = SubSeq(buf, m, n)
    BY DEF Name, EntryLen
  <2> HIDE DEF m, n
  <2> QED
    BY <2>1, <2>2, CellsBetween DEF ListingTyped
<1>7. EntryAt \in EntryType
  <2>1. header.start \in Nat /\ header.base \in Nat
    BY DEF ListingTyped
  <2>2. Packed(header.start, buf[p + 1]) \in Nat
    BY <1>3, <2>1, ReferenceParts
  <2>3. (header.base + Signed16(buf[p + 2])) % U32 \in 0..(U32 - 1)
    <3>1. header.base + Signed16(buf[p + 2]) \in Int
      BY <1>3, <2>1 DEF Signed16, U16
    <3> QED
      BY <3>1, ListingAssumption DEF U16
  <2> QED
    BY <1>3, <1>6, <2>2, <2>3 DEF EntryAt, EntryType
<1> QED
  BY <1>1, <1>3, <1>4, <1>5, <1>6, <1>7

\* Whatever happens to a listing leaves it typed.
LEMMA EffectIsTyped == ListingTyped /\ ListingEffect => ListingTyped'
<1> SUFFICES ASSUME ListingTyped, ListingEffect PROVE ListingTyped'
  OBVIOUS
<1>1. CASE ParseHeader
  <2>1. BetweenRuns /\ HeaderWhole
    BY <1>1 DEF ParseHeader
  <2>2. /\ left' = Promised /\ header' = [start |-> buf[p + 2], base |-> buf[p + 3]]
        /\ p' = p + 3 /\ UNCHANGED <<buf, out, parse>>
    BY <1>1 DEF ParseHeader, HeaderLen
  <2>3. p' \in 0..Len(buf)
    BY <2>1, <2>2, HeaderCells
  <2> QED
    BY <2>1, <2>2, <2>3, HeaderCells DEF ListingTyped
<1>2. CASE RefuseHeader \/ RefuseEntry
  BY <1>2 DEF RefuseHeader, RefuseEntry, Refuse, ListingTyped
<1>3. CASE ParseEntry
  <2>1. InRun /\ EntryWhole /\ NameWhole
    BY <1>3 DEF ParseEntry
  <2>2. /\ out' = Append(out, EntryAt) /\ p' = p + 4 + NameSize /\ left' = left - 1
        /\ UNCHANGED <<buf, header, parse>>
    BY <1>3 DEF ParseEntry, EntryLen
  <2>3. p' \in 0..Len(buf)
    <3>1. buf[p + 4] \in Nat /\ Len(buf) \in Nat /\ p \in Nat
          /\ p + 4 + NameSize <= Len(buf) /\ NameSize = buf[p + 4] + 1
      BY <2>1, EntryIsTyped
    <3> QED
      BY <2>2, <3>1
  <2>4. out' \in Seq(EntryType)
    BY <2>1, <2>2, EntryIsTyped, AppendProperties DEF ListingTyped
  <2>5. left' \in Nat
    BY <2>1, <2>2 DEF InRun, ListingTyped
  <2> QED
    BY <2>2, <2>3, <2>4, <2>5 DEF ListingTyped
<1>4. CASE ParseDone
  BY <1>4 DEF ParseDone, ListingTyped
<1>5. ASSUME NEW cells \in Seq(Nat), NEW state \in {"idle", "parsing", "parsed", "refused"},
             SetListing(cells, state)
      PROVE  ListingTyped'
  <2>1. Len(cells) \in Nat
    BY LenProperties
  <2> QED
    BY <1>5, <2>1 DEF SetListing, ListingTyped, NoHeader
<1>6. CASE SetListing(<< >>, "idle")
  <2>1. << >> \in Seq(Nat)
    OBVIOUS
  <2> QED
    BY <1>5, <1>6, <2>1
<1>7. ASSUME NEW cells \in Seq(Nat),
             SetListing(cells, IF cells = << >> THEN "parsed" ELSE "parsing")
      PROVE  ListingTyped'
  BY <1>5, <1>7
<1>8. CASE UNCHANGED listingVars
  BY <1>8 DEF listingVars, ListingTyped
<1> QED
  BY <1>1, <1>2, <1>3, <1>4, <1>6, <1>7, <1>8 DEF ListingEffect, ParseStep


\* The query around it: the image, and the directory a walk has reached.
QueryTyped ==
    /\ image \in Range(Images)
    /\ ListingTyped
    /\ pc \in {"walk", "listing"} => DirFields(node)

\* An entry matched by name says where its inode is.
LEMMA MatchIsEntry ==
    ASSUME ListingTyped, NEW name, Named(out, name) # {}
    PROVE  /\ Min(Named(out, name)) \in 1..Len(out)
           /\ FirstNamed(out, name) = out[Min(Named(out, name))]
           /\ FirstNamed(out, name) \in EntryType
           /\ FirstNamed(out, name).name = name
           /\ FirstNamed(out, name).inode_ref \in Nat
           /\ \A i \in 1..Len(out) : out[i].name = name => Min(Named(out, name)) <= i
<1> DEFINE M == Named(out, name)
<1>1. M # {} /\ M \in SUBSET Nat /\ M = {i \in 1..Len(out) : out[i].name = name}
  BY DEF Named
<1>2. Min(M) \in M /\ \A y \in M : Min(M) <= y
  <2> HIDE DEF M
  <2> QED
    BY <1>1, LeastNumber
<1>3. FirstNamed(out, name) = out[Min(M)]
  BY DEF FirstNamed
<1> HIDE DEF M
<1>4. Min(M) \in 1..Len(out) /\ out[Min(M)].name = name
  BY <1>1, <1>2
<1>5. out[Min(M)] \in EntryType
  BY <1>4, ElementOfSeq DEF ListingTyped
<1>6. out[Min(M)].inode_ref \in Nat
  BY <1>5 DEF EntryType
<1>7. \A i \in 1..Len(out) : out[i].name = name => Min(M) <= i
  BY <1>1, <1>2
<1> QED
  BY <1>3, <1>4, <1>5, <1>6, <1>7 DEF M

\* A step of a query: what it does to the walk and to the listing.
LEMMA QueryStep ==
    ASSUME QueryTyped, [Next]_vars
    PROVE  QueryTyped' /\ ListingEffect
<1>1. ASSUME UNCHANGED image, ListingEffect, pc' \in {"walk", "listing"} => DirFields(node)'
      PROVE  QueryTyped' /\ ListingEffect
  BY <1>1, EffectIsTyped DEF QueryTyped
<1>2. ASSUME UNCHANGED image, NEW a, Answer(a) PROVE QueryTyped' /\ ListingEffect
  <2>1. pc' = "idle" /\ ListingEffect
    BY <1>2 DEF Answer, ListingEffect
  <2> QED
    BY <1>1, <1>2, <2>1
<1>3. ASSUME UNCHANGED <<image, listingVars>>, pc' = pc, node' = node
      PROVE  QueryTyped' /\ ListingEffect
  BY <1>1, <1>3 DEF ListingEffect, QueryTyped, DirFields
<1>4. ASSUME UNCHANGED <<image, listingVars>>, pc' \notin {"walk", "listing"}
      PROVE  QueryTyped' /\ ListingEffect
  BY <1>1, <1>4 DEF ListingEffect
<1>5. ASSUME NEW r, Ask(r) \/ ReadRemembered(r) PROVE QueryTyped' /\ ListingEffect
  <2>1. CASE Ask(r)
    BY <1>4, <2>1 DEF Ask, Enter
  <2>2. CASE ReadRemembered(r)
    BY <1>3, <2>2 DEF ReadRemembered
  <2> QED
    BY <1>5, <2>1, <2>2
<1>6. CASE AskListed
  BY <1>4, <1>6 DEF AskListed, Enter
<1>7. CASE ReadRoot
  <2> DEFINE r == ReadInode(image.root)
  <2>1. image.root \in Nat
    BY ImagesAssumption DEF QueryTyped
  <2>2. CASE r.ok /\ node' = r.value /\ UNCHANGED <<image, listingVars>>
    <3>1. DirFields(r.value)
      BY <2>1, <2>2, ReadInodeFields DEF QueryTyped
    <3>2. DirFields(node)'
      BY <2>2, <3>1 DEF DirFields
    <3> QED
      BY <1>1, <2>2, <3>2 DEF ListingEffect
  <2>3. CASE Answer(r) /\ UNCHANGED image
    BY <1>2, <2>3
  <2> QED
    BY <1>7, <2>2, <2>3, Zenon DEF ReadRoot
<1>8. CASE ReadDir
  <2>1. DirFields(node) /\ image \in Range(Images)
    BY <1>8 DEF ReadDir, AboutToList, QueryTyped
  <2> DEFINE state == IF Listing.value = << >> THEN "parsed" ELSE "parsing"
  <2>2. CASE Listing.ok /\ UNCHANGED <<image, node>> /\ SetListing(Listing.value, state)
    <3>1. Listing.value \in Seq(Nat)
      BY <2>1, <2>2, ListingIsCells
    <3>2. ListingEffect
      BY <2>2, <3>1, Zenon DEF ListingEffect
    <3> QED
      BY <1>1, <2>1, <2>2, <3>2 DEF DirFields
  <2>3. CASE Answer(Damaged) /\ UNCHANGED image
    BY <1>2, <2>3
  <2> QED
    BY <1>8, <2>2, <2>3, Zenon DEF ReadDir
<1>9. CASE ParseListing
  BY <1>1, <1>9 DEF ParseListing, ListingEffect, QueryTyped, DirFields, requestVars
<1>10. CASE Lookup
  <2> DEFINE r == ReadInode(FirstNamed(out, Head(comps)).inode_ref)
  <2>1. FirstNamed(out, Head(comps)).inode_ref \in Nat
    BY <1>10, MatchIsEntry DEF Lookup, Matches, QueryTyped
  <2>2. CASE r.ok /\ node' = r.value /\ SetListing(<< >>, "idle") /\ UNCHANGED image
    <3>1. DirFields(r.value)
      BY <2>1, <2>2, ReadInodeFields DEF QueryTyped
    <3>2. DirFields(node)'
      BY <2>2, <3>1 DEF DirFields
    <3> QED
      BY <1>1, <2>2, <3>2 DEF ListingEffect
  <2>3. CASE Answer(r) /\ UNCHANGED image
    BY <1>2, <2>3
  <2> QED
    BY <1>10, <2>2, <2>3, Zenon DEF Lookup
<1>11. CASE ReadChild
  BY <1>2, <1>3, <1>11, Zenon DEF ReadChild
<1>12. CASE ReadSet
  <2>1. CASE Answer(Damaged) /\ UNCHANGED image
    BY <1>2, <2>1
  <2>2. CASE pc' = "set" /\ UNCHANGED <<image, listingVars>>
    BY <1>4, <2>2
  <2> QED
    BY <1>12, <2>1, <2>2, Zenon DEF ReadSet
<1>13. CASE ParseSet
  BY <1>3, <1>13 DEF ParseSet, requestVars
<1>14. CASE NotADirectory \/ ListingRefused \/ LookupMisses \/ DeviceFails \/ AnswerListing
  BY <1>2, <1>14, Zenon DEF NotADirectory, ListingRefused, LookupMisses, DeviceFails, AnswerListing
<1>15. CASE AnswerLsFile \/ AnswerStat \/ AnswerLink \/ AnswerReadAt \/ NoXattrs \/ AnswerSet
  BY <1>2, <1>15, Zenon
  DEF AnswerLsFile, AnswerStat, AnswerLink, AnswerReadAt, NoXattrs, AnswerSet
<1>16. CASE UNCHANGED vars
  BY <1>3, <1>16 DEF vars, requestVars
<1> QED
  BY <1>5, <1>6, <1>7, <1>8, <1>9, <1>10, <1>11, <1>12, <1>13, <1>14, <1>15, <1>16, Zenon
  DEF Next


-----------------------------------------------------------------------------
(* An entry written again is the cells it was parsed from.                 *)

\* A u32 that wraps at most once.
LEMMA WrapsOnce ==
    ASSUME NEW m \in Nat \ {0}, NEW a \in Int, -m <= a, a < m + m
    PROVE  a % m = IF a < 0 THEN a + m ELSE IF a < m THEN a ELSE a - m
<1>1. ASSUME NEW q \in {-1, 0, 1}, NEW r \in 0..(m - 1) PROVE (m * q + r) % m = r
  OBVIOUS
<1>2. CASE a < 0
  <2>1. a + m \in 0..(m - 1) /\ m * (-1) + (a + m) = a
    BY <1>2
  <2> QED
    BY <1>1, <1>2, <2>1
<1>3. CASE 0 <= a /\ a < m
  <2>1. a \in 0..(m - 1) /\ m * 0 + a = a
    BY <1>3
  <2> QED
    BY <1>1, <1>3, <2>1
<1>4. CASE m <= a
  <2>1. a - m \in 0..(m - 1) /\ m * 1 + (a - m) = a
    BY <1>4
  <2> QED
    BY <1>1, <1>4, <2>1
<1> QED
  BY <1>2, <1>3, <1>4

\* What an i16 can be, and the u16 it is read from.
LEMMA SignedRange ==
    \A x \in Nat : x < U16 =>
        /\ Signed16(x) \in Int /\ -U16 <= 2 * Signed16(x) /\ 2 * Signed16(x) < U16
        /\ x = IF Signed16(x) < 0 THEN Signed16(x) + U16 ELSE Signed16(x)
<1>1. U16 \in Nat
  BY DEF U16
<1> QED
  BY <1>1 DEF Signed16

\* It is the delta the number was computed from, wrapped or not.
LEMMA DeltaReadBack ==
    ASSUME NEW base \in Nat, base < U32, NEW d \in Nat, d < U16
    PROVE  Delta((base + Signed16(d)) % U32, base) = d
<1> DEFINE wrap(x) == (base + Signed16(x)) % U32
           number == wrap(d)
           delta == number - base
           C == {delta, delta + U16, delta + U32, delta - U32 + U16}
           P(x) == x \in 0..(U16 - 1) /\ wrap(x) = number
           e == CHOOSE x \in C : P(x)
           a(x) == base + Signed16(x)
<1>1. U32 \in Nat \ {0} /\ U32 >= U16 /\ U16 \in Nat /\ U16 > 0
  BY ListingAssumption DEF U16
<1>2. ASSUME NEW x \in Nat, x < U16
      PROVE  wrap(x) = IF a(x) < 0 THEN a(x) + U32 ELSE IF a(x) < U32 THEN a(x) ELSE a(x) - U32
  <2>1. a(x) \in Int /\ -U32 <= a(x) /\ a(x) < U32 + U32
    <3>1. Signed16(x) \in Int /\ -U16 <= 2 * Signed16(x) /\ 2 * Signed16(x) < U16
      BY <1>2, SignedRange
    <3> QED
      BY <1>1, <3>1
  <2>2. wrap(x) = a(x) % U32
    OBVIOUS
  <2> DEFINE ax == a(x)
  <2>3. ax \in Int /\ -U32 <= ax /\ ax < U32 + U32
    BY <2>1
  <2> HIDE DEF ax
  <2>4. ax % U32 = IF ax < 0 THEN ax + U32 ELSE IF ax < U32 THEN ax ELSE ax - U32
    BY <1>1, <2>3, WrapsOnce
  <2> QED
    BY <2>2, <2>4 DEF ax
<1>3. Delta(number, base) = e
  BY DEF Delta
<1> HIDE DEF wrap
<1>4. d \in C
  <2>1. wrap(d) = IF a(d) < 0 THEN a(d) + U32 ELSE IF a(d) < U32 THEN a(d) ELSE a(d) - U32
    BY <1>2
  <2> DEFINE s == Signed16(d)
  <2>2. s \in Int /\ a(d) = base + s /\ d = IF s < 0 THEN s + U16 ELSE s
    BY SignedRange
  <2> HIDE DEF s
  <2>3. CASE a(d) < 0
    BY <1>1, <2>1, <2>2, <2>3
  <2>4. CASE 0 <= a(d) /\ a(d) < U32
    BY <1>1, <2>1, <2>2, <2>4
  <2>5. CASE U32 <= a(d)
    BY <1>1, <2>1, <2>2, <2>5
  <2> QED
    BY <1>1, <2>2, <2>3, <2>4, <2>5
<1>5. P(d)
  <2>1. d \in 0..(U16 - 1)
    BY <1>1
  <2> QED
    BY <2>1, Zenon
<1> HIDE DEF C, P
<1>6. P(e)
  BY <1>4, <1>5
<1> HIDE DEF e
<1>7. e \in Nat /\ e < U16 /\ wrap(e) = wrap(d)
  BY <1>1, <1>6 DEF P
<1>8. e = d
  <2>1. wrap(d) = IF a(d) < 0 THEN a(d) + U32 ELSE IF a(d) < U32 THEN a(d) ELSE a(d) - U32
    BY <1>2
  <2>2. wrap(e) = IF a(e) < 0 THEN a(e) + U32 ELSE IF a(e) < U32 THEN a(e) ELSE a(e) - U32
    BY <1>2, <1>7
  <2> DEFINE s == Signed16(d)
             t == Signed16(e)
  <2>3. /\ s \in Int /\ -U16 <= 2 * s /\ 2 * s < U16
        /\ a(d) = base + s /\ d = IF s < 0 THEN s + U16 ELSE s
    BY SignedRange
  <2>4. /\ t \in Int /\ -U16 <= 2 * t /\ 2 * t < U16
        /\ a(e) = base + t /\ e = IF t < 0 THEN t + U16 ELSE t
    BY <1>7, SignedRange
  <2> HIDE DEF s, t
  <2>5. s = t
    BY <1>1, <1>7, <2>1, <2>2, <2>3, <2>4
  <2> QED
    BY <2>3, <2>4, <2>5
<1> QED
  BY <1>3, <1>8 DEF wrap

\* The first four cells of an entry.
EntryHead(e, start, base) ==
    <<e.inode_ref - Packed(start, 0), Delta(e.inode_number, base), e.type_id, Len(e.name) - 1>>

\* An entry as it is written: those, and its name.
LEMMA EntryCellsAre ==
    ASSUME NEW e \in EntryType, NEW start, NEW base
    PROVE  /\ EntryCells(e, start, base) = EntryHead(e, start, base) \o e.name
           /\ IsSeq(EntryHead(e, start, base)) /\ IsSeq(e.name)
           /\ IsSeq(EntryCells(e, start, base))
<1>1. EntryCells(e, start, base) = EntryHead(e, start, base) \o e.name
  BY Zenon DEF EntryCells, EntryHead
<1>2. IsSeq(EntryHead(e, start, base))
  <2> DEFINE a == e.inode_ref - Packed(start, 0)
             b == Delta(e.inode_number, base)
             c == e.type_id
             d == Len(e.name) - 1
  <2> HIDE DEF a, b, c, d
  <2>1. <<a, b, c, d>> \in Seq({a, b, c, d})
    OBVIOUS
  <2>2. IsSeq(<<a, b, c, d>>)
    BY <2>1, Zenon DEF IsSeq
  <2> QED
    BY <2>2 DEF EntryHead, a, b, c, d
<1>3. IsSeq(e.name)
  BY DEF EntryType, IsSeq
<1> QED
  BY <1>1, <1>2, <1>3, JoinLength

\* So the entry that is parsed is written as the cells it stands for.
LEMMA EntryWrittenBack ==
    ASSUME ListingTyped, InRun, EntryWhole, NameWhole, header.base < U32, buf[p + 2] < U16
    PROVE  EntryCells(EntryAt, header.start, header.base)
               = <<buf[p + 1], buf[p + 2], buf[p + 3], buf[p + 4]>> \o Name
<1>1. /\ buf[p + 1] \in Nat /\ buf[p + 2] \in Nat /\ buf[p + 4] \in Nat
      /\ Len(Name) - 1 = buf[p + 4] /\ EntryAt \in EntryType
  <2>1. /\ buf[p + 1] \in Nat /\ buf[p + 2] \in Nat /\ buf[p + 4] \in Nat
        /\ NameSize = buf[p + 4] + 1 /\ Len(Name) = NameSize /\ EntryAt \in EntryType
    BY EntryIsTyped, Zenon
  <2> QED
    BY <2>1
<1>2. header.start \in Nat /\ header.base \in Nat
  BY DEF ListingTyped
<1>3. EntryCells(EntryAt, header.start, header.base)
          = EntryHead(EntryAt, header.start, header.base) \o EntryAt.name
  BY <1>1, EntryCellsAre, Zenon
<1>4. /\ EntryAt.name = Name /\ EntryAt.type_id = buf[p + 3]
      /\ EntryAt.inode_ref = Packed(header.start, buf[p + 1])
      /\ EntryAt.inode_number = (header.base + Signed16(buf[p + 2])) % U32
  BY DEF EntryAt
<1>5. Delta(EntryAt.inode_number, header.base) = buf[p + 2]
  BY <1>1, <1>2, <1>4, DeltaReadBack
<1>6. EntryAt.inode_ref - Packed(header.start, 0) = buf[p + 1]
  BY <1>1, <1>2, <1>4 DEF Packed, U16
<1>7. EntryHead(EntryAt, header.start, header.base)
          = <<buf[p + 1], buf[p + 2], buf[p + 3], buf[p + 4]>>
  BY <1>1, <1>4, <1>5, <1>6 DEF EntryHead
<1> QED
  BY <1>3, <1>4, <1>7


-----------------------------------------------------------------------------
(* What has been parsed, written again.                                    *)

\* The cells of a header, of the first m entries of its run, of a run, and of
\* the first k runs.
HeadCells(h) == <<h[2] - 1, h[3], h[4]>>

EntryPieces(o, h, m) == [i \in 1..m |-> EntryCells(o[h[1] + i - 1], h[3], h[4])]

EntriesOf(o, h, m) == FlattenSeq(EntryPieces(o, h, m))

RunIn(o, h) == HeadCells(h) \o EntriesOf(o, h, h[2])

RunPieces(o, hs, k) == [i \in 1..k |-> RunIn(o, hs[i])]

RunsOf(o, hs, k) == FlattenSeq(RunPieces(o, hs, k))

\* The first m entries of a run are among those parsed.
Holds(o, h, m) == \A i \in 1..m : o[h[1] + i - 1] \in EntryType

\* The same entries are in the first m places of a run.
Agree(o, q, h, m) == \A i \in 1..m : o[h[1] + i - 1] = q[h[1] + i - 1]

\* A header's cells are a sequence.
LEMMA HeadIsSeq == ASSUME NEW h PROVE IsSeq(HeadCells(h))
<1> DEFINE a == h[2] - 1
           b == h[3]
           c == h[4]
<1> HIDE DEF a, b, c
<1>1. <<a, b, c>> \in Seq({a, b, c})
  OBVIOUS
<1>2. IsSeq(<<a, b, c>>)
  BY <1>1, Zenon DEF IsSeq
<1> QED
  BY <1>2 DEF HeadCells, a, b, c

\* So are its entries'.
LEMMA EntriesAreSeq ==
    ASSUME NEW o, NEW h, NEW m \in Nat, Holds(o, h, m)
    PROVE  /\ IsSeq(EntriesOf(o, h, m))
           /\ IsSeq(EntryPieces(o, h, m)) /\ Len(EntryPieces(o, h, m)) = m
<1> DEFINE s == EntryPieces(o, h, m)
<1>1. \A i \in 1..m : IsSeq(s[i])
  <2> TAKE i \in 1..m
  <2> DEFINE e == o[h[1] + i - 1]
  <2>1. e \in EntryType
    BY DEF Holds
  <2>2. s[i] = EntryCells(e, h[3], h[4])
    BY DEF EntryPieces
  <2> HIDE DEF e, s
  <2> QED
    BY <2>1, <2>2, EntryCellsAre
<1>2. s = [i \in 1..m |-> s[i]]
  BY DEF EntryPieces
<1>3. EntriesOf(o, h, m) = FlattenSeq(s)
  BY Zenon DEF EntriesOf
<1> HIDE DEF s
<1>4. IsSeq(FlattenSeq(s)) /\ IsSeq(s) /\ Len(s) = m
  BY <1>1, <1>2, FlattenIsSeq, FunctionIsSeq
<1> QED
  BY <1>3, <1>4 DEF s

\* The same entries are the same cells.
LEMMA EntriesSame ==
    ASSUME NEW o, NEW q, NEW h, NEW m \in Nat, Agree(o, q, h, m)
    PROVE  EntriesOf(o, h, m) = EntriesOf(q, h, m)
<1>1. \A i \in 1..m : o[h[1] + i - 1] = q[h[1] + i - 1]
  BY DEF Agree
<1>2. EntryPieces(o, h, m) = EntryPieces(q, h, m)
  BY <1>1 DEF EntryPieces
<1> QED
  BY <1>2, Zenon DEF EntriesOf

\* One entry more is its cells more.
LEMMA EntriesGrow ==
    ASSUME NEW o, NEW h, NEW m \in Nat, h[1] \in Nat, Holds(o, h, m + 1)
    PROVE  EntriesOf(o, h, m + 1) = EntriesOf(o, h, m) \o EntryCells(o[h[1] + m], h[3], h[4])
<1> DEFINE s == EntryPieces(o, h, m)
           t == EntryPieces(o, h, m + 1)
<1>1. Holds(o, h, m)
  BY DEF Holds
<1>2. /\ IsSeq(s) /\ Len(s) = m /\ IsSeq(t) /\ Len(t) = m + 1
  <2>1. m + 1 \in Nat
    OBVIOUS
  <2> QED
    BY <1>1, <2>1, EntriesAreSeq, Zenon
<1>3. \A i \in 1..m : t[i] = s[i]
  BY DEF EntryPieces
<1>4. t[m + 1] = EntryCells(o[h[1] + m], h[3], h[4]) /\ o[h[1] + m] \in EntryType
  <2>1. m + 1 \in 1..(m + 1) /\ h[1] + (m + 1) - 1 = h[1] + m
    OBVIOUS
  <2> QED
    BY <2>1 DEF Holds, EntryPieces
<1>5. EntriesOf(o, h, m) = FlattenSeq(s) /\ EntriesOf(o, h, m + 1) = FlattenSeq(t)
  BY Zenon DEF EntriesOf
<1> HIDE DEF s, t
<1>6. IsSeq(t[m + 1])
  BY <1>4, EntryCellsAre
<1>7. FlattenSeq(t) = FlattenSeq(s) \o t[m + 1]
  BY <1>2, <1>3, <1>6, FlattenSnoc
<1> QED
  BY <1>4, <1>5, <1>7

\* A run's cells are a sequence.
LEMMA RunIsSeq ==
    ASSUME NEW o, NEW h, h[2] \in Nat, Holds(o, h, h[2])
    PROVE  IsSeq(RunIn(o, h))
BY HeadIsSeq, EntriesAreSeq, JoinLength, Zenon DEF RunIn

\* The runs' cells are a sequence, and one run more is its cells more.
LEMMA RunsAreSeq ==
    ASSUME NEW o, NEW hs, NEW k \in Nat,
           \A i \in 1..k : hs[i][2] \in Nat /\ Holds(o, hs[i], hs[i][2])
    PROVE  /\ IsSeq(RunsOf(o, hs, k))
           /\ IsSeq(RunPieces(o, hs, k)) /\ Len(RunPieces(o, hs, k)) = k
<1> DEFINE s == RunPieces(o, hs, k)
<1>1. \A i \in 1..k : IsSeq(s[i])
  <2> TAKE i \in 1..k
  <2>1. IsSeq(RunIn(o, hs[i]))
    BY RunIsSeq
  <2>2. s[i] = RunIn(o, hs[i])
    BY DEF RunPieces
  <2> QED
    BY <2>1, <2>2, Zenon
<1>2. s = [i \in 1..k |-> s[i]]
  BY DEF RunPieces
<1>3. RunsOf(o, hs, k) = FlattenSeq(s)
  BY Zenon DEF RunsOf
<1> HIDE DEF s
<1>4. IsSeq(FlattenSeq(s)) /\ IsSeq(s) /\ Len(s) = k
  BY <1>1, <1>2, FlattenIsSeq, FunctionIsSeq
<1> QED
  BY <1>3, <1>4 DEF s

\* One run more is its cells more.
LEMMA RunsGrow ==
    ASSUME NEW o, NEW hs, NEW k \in Nat,
           \A i \in 1..(k + 1) : hs[i][2] \in Nat /\ Holds(o, hs[i], hs[i][2])
    PROVE  RunsOf(o, hs, k + 1) = RunsOf(o, hs, k) \o RunIn(o, hs[k + 1])
<1> DEFINE s == RunPieces(o, hs, k)
           t == RunPieces(o, hs, k + 1)
<1>1. \A i \in 1..k : i \in 1..(k + 1)
  OBVIOUS
<1>2. IsSeq(s) /\ Len(s) = k /\ IsSeq(t) /\ Len(t) = k + 1
  <2>1. k + 1 \in Nat
    OBVIOUS
  <2>2. IsSeq(s) /\ Len(s) = k
    BY <1>1, RunsAreSeq, Zenon
  <2>3. IsSeq(t) /\ Len(t) = k + 1
    BY <2>1, RunsAreSeq, Zenon
  <2> QED
    BY <2>2, <2>3
<1>3. \A i \in 1..k : t[i] = s[i]
  BY <1>1 DEF RunPieces
<1>4. k + 1 \in 1..(k + 1)
  OBVIOUS
<1>5. t[k + 1] = RunIn(o, hs[k + 1])
  BY <1>4 DEF RunPieces
<1>6. IsSeq(t[k + 1])
  BY <1>4, <1>5, RunIsSeq
<1>7. RunsOf(o, hs, k) = FlattenSeq(s) /\ RunsOf(o, hs, k + 1) = FlattenSeq(t)
  BY Zenon DEF RunsOf
<1> HIDE DEF s, t
<1>8. FlattenSeq(t) = FlattenSeq(s) \o t[k + 1]
  BY <1>2, <1>3, <1>6, FlattenSnoc
<1> QED
  BY <1>5, <1>7, <1>8

\* The same runs are the same cells.
LEMMA RunsSame ==
    ASSUME NEW o, NEW q, NEW hs, NEW gs, NEW k \in Nat,
           \A i \in 1..k : hs[i] = gs[i] /\ hs[i][2] \in Nat /\ Agree(o, q, hs[i], hs[i][2])
    PROVE  RunsOf(o, hs, k) = RunsOf(q, gs, k)
<1>1. \A i \in 1..k : RunIn(o, hs[i]) = RunIn(q, gs[i])
  <2> TAKE i \in 1..k
  <2> DEFINE h == hs[i]
  <2>1. h = gs[i] /\ h[2] \in Nat /\ Agree(o, q, h, h[2])
    OBVIOUS
  <2> HIDE DEF h
  <2>2. EntriesOf(o, h, h[2]) = EntriesOf(q, h, h[2])
    BY <2>1, EntriesSame
  <2>3. RunIn(o, h) = RunIn(q, h)
    BY <2>2 DEF RunIn
  <2> QED
    BY <2>1, <2>3 DEF h
<1>2. RunPieces(o, hs, k) = RunPieces(q, gs, k)
  BY <1>1 DEF RunPieces
<1> QED
  BY <1>2, Zenon DEF RunsOf


-----------------------------------------------------------------------------
(* The listing so far, written again, is the part of it that was parsed.   *)

\* A header: its first entry, how many follow, their block and base number.
HeaderType == (Nat \ {0}) \X (Nat \ {0}) \X Nat \X Nat

LastHeader == headers[Len(headers)]

\* The runs follow one another, and the last is the one being parsed.
Chained ==
    /\ headers \in Seq(HeaderType)
    /\ Len(headers) = 0 => left = 0 /\ p = 0 /\ Len(out) = 0
    /\ Len(headers) # 0 =>
           /\ header = [start |-> LastHeader[3], base |-> LastHeader[4]]
           /\ header.base < U32
           /\ left <= LastHeader[2]
           /\ LastHeader[1] + LastHeader[2] = Len(out) + left + 1
    /\ \A i \in 1..(Len(headers) - 1) :
           /\ headers[i][1] + headers[i][2] = headers[i + 1][1]
           /\ headers[i][1] + headers[i][2] <= Len(out) + 1

\* What was parsed is what is written.
WrittenSoFar ==
    Len(headers) # 0 =>
        SubSeq(buf, 1, p) =
            RunsOf(out, headers, Len(headers) - 1)
                \o (HeadCells(LastHeader) \o EntriesOf(out, LastHeader, LastHeader[2] - left))

\* An accepted listing was parsed to its end.
ParsedWhole == parse = "parsed" => left = 0 /\ p = Len(buf)

\* The strengthening of ListingAccounted that every step preserves.
Accounted == ListingTyped /\ Chained /\ WrittenSoFar /\ ParsedWhole

\* The numbers of a header.
LEMMA HeaderNumbers ==
    ASSUME ListingTyped, Chained
    PROVE  /\ Len(headers) \in Nat /\ Len(out) \in Nat
           /\ \A i \in 1..Len(headers) : headers[i] \in HeaderType
           /\ \A i \in 1..Len(headers) :
                  /\ headers[i][1] \in Nat \ {0} /\ headers[i][2] \in Nat \ {0}
                  /\ headers[i][3] \in Nat /\ headers[i][4] \in Nat
<1>1. Len(headers) \in Nat /\ Len(out) \in Nat
  BY LenProperties DEF ListingTyped, Chained
<1>2. \A i \in 1..Len(headers) : headers[i] \in HeaderType
  BY ElementOfSeq DEF Chained
<1>3. \A h \in HeaderType :
          h[1] \in Nat \ {0} /\ h[2] \in Nat \ {0} /\ h[3] \in Nat /\ h[4] \in Nat
  BY DEF HeaderType
<1> QED
  BY <1>1, <1>2, <1>3

\* A stretch of the entries parsed holds entries.
LEMMA StretchHolds ==
    ASSUME ListingTyped, NEW h, NEW m \in Nat, h[1] \in Nat \ {0}, h[1] + m <= Len(out) + 1
    PROVE  Holds(out, h, m)
<1> SUFFICES ASSUME NEW i \in 1..m PROVE out[h[1] + i - 1] \in EntryType
  BY DEF Holds
<1> DEFINE j == h[1] + i - 1
<1>1. Len(out) \in Nat
  BY LenProperties DEF ListingTyped
<1>2. j \in 1..Len(out)
  BY <1>1
<1> HIDE DEF j
<1>3. out[j] \in EntryType
  BY <1>2, ElementOfSeq DEF ListingTyped
<1> QED
  BY <1>3 DEF j

\* So every finished run does, and the parsed part of the last.
LEMMA RunsHold ==
    ASSUME ListingTyped, Chained
    PROVE  /\ \A i \in 1..(Len(headers) - 1) :
                  headers[i][2] \in Nat /\ Holds(out, headers[i], headers[i][2])
           /\ Len(headers) # 0 =>
                  /\ LastHeader[2] - left \in Nat
                  /\ Holds(out, LastHeader, LastHeader[2] - left)
<1>1. ASSUME NEW i \in 1..(Len(headers) - 1)
      PROVE  headers[i][2] \in Nat /\ Holds(out, headers[i], headers[i][2])
  <2> DEFINE h == headers[i]
  <2>1. i \in 1..Len(headers)
    BY HeaderNumbers
  <2>2. h[1] \in Nat \ {0} /\ h[2] \in Nat /\ h[1] + h[2] <= Len(out) + 1
    BY <2>1, HeaderNumbers DEF Chained
  <2> HIDE DEF h
  <2>3. Holds(out, h, h[2])
    BY <2>2, StretchHolds
  <2> QED
    BY <2>2, <2>3 DEF h
<1>2. ASSUME Len(headers) # 0
      PROVE  LastHeader[2] - left \in Nat /\ Holds(out, LastHeader, LastHeader[2] - left)
  <2> DEFINE h == LastHeader
             m == h[2] - left
  <2>1. Len(headers) \in 1..Len(headers) /\ Len(out) \in Nat
    BY <1>2, HeaderNumbers
  <2>2. h[1] \in Nat \ {0} /\ h[2] \in Nat \ {0}
    BY <2>1, HeaderNumbers DEF LastHeader
  <2>3. left \in Nat /\ left <= h[2] /\ h[1] + h[2] = Len(out) + left + 1
    BY <1>2 DEF ListingTyped, Chained
  <2>4. m \in Nat /\ h[1] + m <= Len(out) + 1
    BY <2>1, <2>2, <2>3
  <2> HIDE DEF h, m
  <2>5. Holds(out, h, m)
    BY <2>2, <2>4, StretchHolds
  <2> QED
    BY <2>4, <2>5 DEF h, m
<1> QED
  BY <1>1, <1>2

\* Between runs, what was parsed is whole runs.
LEMMA RunsRead ==
    ASSUME Accounted, left = 0
    PROVE  /\ \A i \in 1..Len(headers) :
                  headers[i][2] \in Nat /\ Holds(out, headers[i], headers[i][2])
           /\ SubSeq(buf, 1, p) = RunsOf(out, headers, Len(headers))
           /\ IsSeq(RunsOf(out, headers, Len(headers)))
<1> DEFINE K == Len(headers)
<1>1. K \in Nat /\ p \in Nat /\ ListingTyped /\ Chained
  BY HeaderNumbers DEF Accounted, ListingTyped
<1>2. \A i \in 1..K : headers[i][2] \in Nat /\ Holds(out, headers[i], headers[i][2])
  <2> TAKE i \in 1..K
  <2>1. CASE i = K
    <3>1. LastHeader[2] \in Nat
      BY <1>1, <2>1, HeaderNumbers DEF LastHeader
    <3>2. K # 0 /\ LastHeader[2] - left = LastHeader[2]
      BY <1>1, <2>1, <3>1
    <3>3. Holds(out, LastHeader, LastHeader[2])
      BY <1>1, <3>2, RunsHold
    <3> QED
      BY <2>1, <3>1, <3>3 DEF LastHeader
  <2>2. CASE i # K
    <3>1. i \in 1..(K - 1)
      BY <1>1, <2>2
    <3> QED
      BY <1>1, <3>1, RunsHold
  <2> QED
    BY <2>1, <2>2
<1>3. IsSeq(RunsOf(out, headers, K))
  BY <1>1, <1>2, RunsAreSeq
<1>4. CASE K = 0
  <2>1. p = 0 /\ buf \in Seq(Nat)
    BY <1>1, <1>4 DEF Chained, ListingTyped
  <2>2. SubSeq(buf, 1, p) = << >>
    <3>1. SubSeq(buf, 1, 0) \in Seq(Nat) /\ Len(SubSeq(buf, 1, 0)) = 0
      <4>1. 1 \in Nat \ {0} /\ 0 \in Nat /\ 0 <= Len(buf) /\ ~(1 <= 0)
        BY <2>1, LenProperties
      <4> QED
        BY <2>1, <4>1, CellsBetween
    <3> QED
      BY <2>1, <3>1, EmptySeq
  <2>3. RunsOf(out, headers, K) = << >>
    <3> DEFINE t == RunPieces(out, headers, 0)
    <3>1. t = [i \in 1..0 |-> t[i]]
      BY DEF RunPieces
    <3> HIDE DEF t
    <3>2. FlattenSeq(t) = << >>
      BY <3>1, FlattenNothing
    <3> QED
      BY <1>4, <3>2 DEF RunsOf, t
  <2> QED
    BY <1>2, <1>3, <2>2, <2>3
<1>5. CASE K # 0
  <2> DEFINE k == K - 1
             h == LastHeader
  <2>1. k \in Nat /\ k + 1 = K /\ K \in 1..K
    BY <1>1, <1>5
  <2>2. h[2] \in Nat
    BY <2>1, <1>2 DEF LastHeader
  <2>3. h[2] - left = h[2]
    BY <2>2
  <2>4. SubSeq(buf, 1, p) = RunsOf(out, headers, k) \o RunIn(out, h)
    BY <1>5, <2>3 DEF Accounted, WrittenSoFar, RunIn
  <2>5. h = headers[k + 1]
    BY <2>1 DEF LastHeader
  <2> HIDE DEF k, h, K
  <2>6. RunsOf(out, headers, k + 1) = RunsOf(out, headers, k) \o RunIn(out, headers[k + 1])
    BY <1>2, <2>1, RunsGrow
  <2>7. SubSeq(buf, 1, p) = RunsOf(out, headers, K)
    BY <2>1, <2>4, <2>5, <2>6
  <2> QED
    BY <1>2, <1>3, <2>7 DEF K
<1> QED
  BY <1>4, <1>5


\* Three cells, and four, one by one.
LEMMA FewCells ==
    ASSUME NEW cells \in Seq(Nat), NEW k \in Nat
    PROVE  /\ k + 3 <= Len(cells) =>
                  SubSeq(cells, k + 1, k + 3) = <<cells[k + 1], cells[k + 2], cells[k + 3]>>
           /\ k + 4 <= Len(cells) =>
                  SubSeq(cells, k + 1, k + 4)
                      = <<cells[k + 1], cells[k + 2], cells[k + 3], cells[k + 4]>>
<1>1. ASSUME NEW s \in Seq(Nat), NEW t \in Seq(Nat), NEW n \in Nat, Len(s) = n, Len(t) = n,
             \A i \in 1..n : s[i] = t[i]
      PROVE  s = t
  BY <1>1, SeqEqual
<1>2. \A i \in 1..Len(cells) : cells[i] \in Nat
  BY ElementOfSeq
<1>3. Len(cells) \in Nat
  BY LenProperties
<1>4. ASSUME k + 3 <= Len(cells)
      PROVE  SubSeq(cells, k + 1, k + 3) = <<cells[k + 1], cells[k + 2], cells[k + 3]>>
  <2> DEFINE s == SubSeq(cells, k + 1, k + 3)
             a == cells[k + 1]
             b == cells[k + 2]
             c == cells[k + 3]
             t == <<a, b, c>>
  <2>1. a \in Nat /\ b \in Nat /\ c \in Nat
    BY <1>2, <1>3, <1>4
  <2>2. s \in Seq(Nat) /\ Len(s) = 3 /\ s[1] = a /\ s[2] = b /\ s[3] = c
    <3>1. k + 1 \in Nat \ {0} /\ k + 3 \in Nat /\ k + 1 <= k + 3
      OBVIOUS
    <3>2. /\ s \in Seq(Nat) /\ Len(s) = ((k + 3) - (k + 1)) + 1
          /\ \A i \in 1..(((k + 3) - (k + 1)) + 1) : s[i] = cells[((k + 1) + i) - 1]
      BY <1>4, <3>1, CellsBetween
    <3> HIDE DEF s
    <3>3. ((k + 3) - (k + 1)) + 1 = 3
      OBVIOUS
    <3>4. ((k + 1) + 1) - 1 = k + 1 /\ ((k + 1) + 2) - 1 = k + 2 /\ ((k + 1) + 3) - 1 = k + 3
      OBVIOUS
    <3> QED
      BY <3>2, <3>3, <3>4
  <2> HIDE DEF s, a, b, c
  <2>3. t \in Seq(Nat) /\ Len(t) = 3 /\ \A i \in 1..3 : s[i] = t[i]
    BY <2>1, <2>2
  <2> HIDE DEF t
  <2>4. s = t
    BY <1>1, <2>2, <2>3
  <2> QED
    BY <2>4 DEF s, t, a, b, c
<1>5. ASSUME k + 4 <= Len(cells)
      PROVE  SubSeq(cells, k + 1, k + 4)
                 = <<cells[k + 1], cells[k + 2], cells[k + 3], cells[k + 4]>>
  <2> DEFINE s == SubSeq(cells, k + 1, k + 4)
             a == cells[k + 1]
             b == cells[k + 2]
             c == cells[k + 3]
             d == cells[k + 4]
             t == <<a, b, c, d>>
  <2>1. a \in Nat /\ b \in Nat /\ c \in Nat /\ d \in Nat
    BY <1>2, <1>3, <1>5
  <2>2. s \in Seq(Nat) /\ Len(s) = 4 /\ s[1] = a /\ s[2] = b /\ s[3] = c /\ s[4] = d
    <3>1. k + 1 \in Nat \ {0} /\ k + 4 \in Nat /\ k + 1 <= k + 4
      OBVIOUS
    <3>2. /\ s \in Seq(Nat) /\ Len(s) = ((k + 4) - (k + 1)) + 1
          /\ \A i \in 1..(((k + 4) - (k + 1)) + 1) : s[i] = cells[((k + 1) + i) - 1]
      BY <1>5, <3>1, CellsBetween
    <3> HIDE DEF s
    <3>3. ((k + 4) - (k + 1)) + 1 = 4
      OBVIOUS
    <3>4. /\ ((k + 1) + 1) - 1 = k + 1 /\ ((k + 1) + 2) - 1 = k + 2
          /\ ((k + 1) + 3) - 1 = k + 3 /\ ((k + 1) + 4) - 1 = k + 4
      OBVIOUS
    <3>5. 1 \in 1..4 /\ 2 \in 1..4 /\ 3 \in 1..4 /\ 4 \in 1..4
      OBVIOUS
    <3>6. Len(s) = 4 /\ \A i \in 1..4 : s[i] = cells[((k + 1) + i) - 1]
      BY <3>2, <3>3
    <3> QED
      BY <3>2, <3>4, <3>5, <3>6
  <2> HIDE DEF s, a, b, c, d
  <2>3. t \in Seq(Nat) /\ Len(t) = 4 /\ \A i \in 1..4 : s[i] = t[i]
    BY <2>1, <2>2
  <2> HIDE DEF t
  <2>4. s = t
    BY <1>1, <2>2, <2>3
  <2> QED
    BY <2>4 DEF s, t, a, b, c, d
<1> QED
  BY <1>4, <1>5

\* More of the listing is what was taken of it, and the cells that follow.
LEMMA TakenOn ==
    ASSUME NEW cells \in Seq(Nat), NEW m \in Nat \ {0}, NEW k \in Nat, NEW n \in Nat,
           m <= k + 1, k <= n, n <= Len(cells)
    PROVE  SubSeq(cells, m, n) = SubSeq(cells, m, k) \o SubSeq(cells, k + 1, n)
<1>1. Len(cells) \in Nat
  BY LenProperties
<1>2. m \in 1..(Len(cells) + 1) /\ k \in (m - 1)..Len(cells) /\ n \in k..Len(cells)
  BY <1>1
<1> QED
  BY <1>2, ConcatAdjacentSubSeq, Zenon


\* The widths of the fields a listing is read from: inode numbers are u32s and
\* the numbers entries add to them u16s.  Cells have no width of their own.
FieldsFit ==
    /\ BetweenRuns /\ HeaderWhole => buf[p + 3] < U32
    /\ InRun /\ EntryWhole => buf[p + 2] < U16

\* A header more.
LEMMA HeaderAccounted ==
    ASSUME Accounted, FieldsFit, ParseHeader
    PROVE  Chained' /\ WrittenSoFar' /\ ParsedWhole'
<1> DEFINE K == Len(headers)
           a == buf[p + 1]
           b == buf[p + 2]
           c == buf[p + 3]
           h == <<Len(out) + 1, Promised, b, c>>
<1>1. BetweenRuns /\ HeaderWhole /\ ListingTyped /\ Chained /\ left = 0 /\ parse = "parsing"
  BY DEF Accounted, ParseHeader, BetweenRuns
<1>2. /\ left' = Promised /\ header' = [start |-> b, base |-> c] /\ p' = p + 3
      /\ headers' = Append(headers, h) /\ UNCHANGED <<buf, out, parse>>
  BY DEF ParseHeader, HeaderLen
<1>3. /\ a \in Nat /\ b \in Nat /\ c \in Nat /\ c < U32 /\ Promised = a + 1
      /\ Len(buf) \in Nat /\ p \in Nat /\ p + 3 <= Len(buf)
  BY <1>1, HeaderCells DEF FieldsFit, Promised
<1>4. K \in Nat /\ Len(out) \in Nat /\ headers \in Seq(HeaderType)
  BY <1>1, HeaderNumbers DEF Chained
<1>5. h \in HeaderType
  <2> DEFINE first == Len(out) + 1
             many == Promised
  <2>1. first \in Nat \ {0} /\ many \in Nat \ {0} /\ b \in Nat /\ c \in Nat
    BY <1>3, <1>4
  <2> HIDE DEF first, many, b, c
  <2>2. <<first, many, b, c>> \in (Nat \ {0}) \X (Nat \ {0}) \X Nat \X Nat
    BY <2>1
  <2> QED
    BY <2>2 DEF HeaderType, first, many
<1>6. h[1] = Len(out) + 1 /\ h[2] = a + 1 /\ h[3] = b /\ h[4] = c
  BY <1>3
<1> HIDE DEF a, b, c, h
<1>7. /\ headers' \in Seq(HeaderType) /\ Len(headers') = K + 1 /\ headers'[K + 1] = h
      /\ \A i \in 1..K : headers'[i] = headers[i]
  <2> HIDE DEF K
  <2> QED
    BY <1>2, <1>4, <1>5, AppendProperties DEF K
<1>8. LastHeader' = h
  BY <1>7 DEF LastHeader
<1>9. Chained'
  <2>1. Len(headers') # 0
    BY <1>4, <1>7
  <2>2. /\ header' = [start |-> h[3], base |-> h[4]] /\ (header.base < U32)'
        /\ left' <= h[2] /\ h[1] + h[2] = Len(out) + left' + 1
    BY <1>2, <1>3, <1>4, <1>6
  <2>3. ASSUME NEW i \in 1..((K + 1) - 1)
        PROVE  /\ headers'[i][1] + headers'[i][2] = headers'[i + 1][1]
               /\ headers'[i][1] + headers'[i][2] <= Len(out) + 1
    <3>1. i \in 1..K /\ headers'[i] = headers[i]
      BY <1>4, <1>7
    <3>2. CASE i = K
      <4>1. headers[i][1] + headers[i][2] = Len(out) + 1
        <5>1. headers[i] = LastHeader /\ K # 0
          BY <1>4, <3>1, <3>2 DEF LastHeader
        <5>2. LastHeader[1] + LastHeader[2] = Len(out) + left + 1
          BY <1>1, <5>1 DEF Chained
        <5> QED
          BY <1>1, <1>4, <5>1, <5>2
      <4>2. headers'[i + 1] = h
        BY <1>7, <3>2
      <4> QED
        BY <1>4, <1>6, <3>1, <4>1, <4>2
    <3>3. CASE i # K
      <4>1. i \in 1..(K - 1) /\ i + 1 \in 1..K
        BY <1>4, <3>1, <3>3
      <4>2. headers[i][1] + headers[i][2] = headers[i + 1][1]
            /\ headers[i][1] + headers[i][2] <= Len(out) + 1
        BY <1>1, <4>1 DEF Chained
      <4>3. headers'[i + 1] = headers[i + 1]
        BY <1>7, <4>1
      <4> QED
        BY <3>1, <4>2, <4>3
    <3> QED
      BY <3>2, <3>3
  <2>4. Len(out') = Len(out)
    BY <1>2
  <2> HIDE DEF K
  <2> QED
    BY <1>7, <1>8, <2>1, <2>2, <2>3, <2>4 DEF Chained
<1>10. WrittenSoFar'
  <2> DEFINE R == RunsOf(out, headers, K)
  <2>1. SubSeq(buf, 1, p) = R /\ IsSeq(R)
    BY <1>1, RunsRead
  <2>2. RunsOf(out, headers', K) = R
    <3>1. \A i \in 1..K : /\ headers'[i] = headers[i] /\ headers'[i][2] \in Nat
                          /\ Agree(out, out, headers'[i], headers'[i][2])
      BY <1>1, <1>7, HeaderNumbers DEF Agree
    <3> QED
      BY <1>4, <3>1, RunsSame
  <2>3. HeadCells(h) = <<a, b, c>>
    BY <1>3, <1>6 DEF HeadCells
  <2>4. EntriesOf(out, h, 0) = << >>
    <3> DEFINE t == EntryPieces(out, h, 0)
    <3>1. t = [i \in 1..0 |-> t[i]]
      BY DEF EntryPieces
    <3> HIDE DEF t
    <3>2. FlattenSeq(t) = << >>
      BY <3>1, FlattenNothing
    <3> QED
      BY <3>2 DEF EntriesOf, t
  <2>5. HeadCells(h) \o EntriesOf(out, h, 0) = <<a, b, c>>
    <3>1. IsSeq(HeadCells(h))
      BY HeadIsSeq
    <3>2. HeadCells(h) \o << >> = HeadCells(h)
      BY <3>1, JoinNothing
    <3> QED
      BY <2>3, <2>4, <3>2
  <2>6. SubSeq(buf, 1, p + 3) = SubSeq(buf, 1, p) \o <<a, b, c>>
    <3>1. buf \in Seq(Nat)
      BY <1>1 DEF ListingTyped
    <3>2. SubSeq(buf, p + 1, p + 3) = <<a, b, c>>
      BY <1>3, <3>1, FewCells DEF a, b, c
    <3>3. SubSeq(buf, 1, p + 3) = SubSeq(buf, 1, p) \o SubSeq(buf, p + 1, p + 3)
      <4>1. 1 \in Nat \ {0} /\ p + 3 \in Nat /\ 1 <= p + 1 /\ p <= p + 3
        BY <1>3
      <4> QED
        BY <1>3, <3>1, <4>1, TakenOn
    <3> QED
      BY <3>2, <3>3
  <2>7. h[2] - left' = 0 /\ (K + 1) - 1 = K
    BY <1>2, <1>3, <1>4, <1>6
  <2>8. SubSeq(buf, 1, p + 3)
            = RunsOf(out, headers', K) \o (HeadCells(h) \o EntriesOf(out, h, h[2] - left'))
    BY <2>1, <2>2, <2>5, <2>6, <2>7
  <2>9. out' = out /\ buf' = buf /\ p' = p + 3
    BY <1>2
  <2> HIDE DEF R, K
  <2> QED
    BY <1>7, <1>8, <2>7, <2>8, <2>9 DEF WrittenSoFar
<1>11. ParsedWhole'
  BY <1>1, <1>2 DEF ParsedWhole
<1> QED
  BY <1>9, <1>10, <1>11

\* An entry more.
LEMMA EntryAccounted ==
    ASSUME Accounted, FieldsFit, ParseEntry
    PROVE  Chained' /\ WrittenSoFar' /\ ParsedWhole'
<1> DEFINE K == Len(headers)
           h == LastHeader
           m == h[2] - left
           e == EntryAt
           four == <<buf[p + 1], buf[p + 2], buf[p + 3], buf[p + 4]>>
           n == p + 4 + NameSize
<1>1. /\ InRun /\ EntryWhole /\ NameWhole /\ ListingTyped /\ Chained
      /\ parse = "parsing" /\ left \in Nat \ {0}
  BY DEF Accounted, ParseEntry, InRun, ListingTyped
<1>2. /\ out' = Append(out, e) /\ p' = n /\ left' = left - 1
      /\ UNCHANGED <<buf, header, headers, parse>>
  BY DEF ParseEntry, EntryLen
<1>3. /\ e \in EntryType /\ Len(buf) \in Nat /\ p \in Nat /\ NameSize \in Nat
      /\ n \in Nat /\ n <= Len(buf) /\ Name \in Seq(Nat)
  <2>1. /\ buf[p + 4] \in Nat /\ NameSize = buf[p + 4] + 1 /\ Len(buf) \in Nat /\ p \in Nat
        /\ p + 4 + NameSize <= Len(buf) /\ Name \in Seq(Nat) /\ EntryAt \in EntryType
    BY <1>1, EntryIsTyped
  <2> QED
    BY <2>1
<1>4. K \in Nat /\ K # 0 /\ Len(out) \in Nat /\ headers \in Seq(HeaderType)
  BY <1>1, HeaderNumbers DEF Chained
<1>5. /\ h[1] \in Nat \ {0} /\ h[2] \in Nat \ {0} /\ m \in Nat /\ h[1] + m = Len(out) + 1
      /\ left <= h[2] /\ h[1] + h[2] = Len(out) + left + 1
      /\ header.start = h[3] /\ header.base = h[4] /\ header.base < U32
  <2>1. K \in 1..K
    BY <1>4
  <2>2. h[1] \in Nat \ {0} /\ h[2] \in Nat \ {0}
    BY <1>1, <2>1, HeaderNumbers DEF LastHeader
  <2>3. /\ left <= h[2] /\ h[1] + h[2] = Len(out) + left + 1
        /\ header.start = h[3] /\ header.base = h[4] /\ header.base < U32
    BY <1>1, <1>4 DEF Chained
  <2>4. m \in Nat /\ h[1] + m = Len(out) + 1
    <3> DEFINE h1 == h[1]
               h2 == h[2]
               l == Len(out)
               k == left
    <3>1. /\ h1 \in Nat /\ h2 \in Nat /\ l \in Nat /\ k \in Nat /\ k <= h2
          /\ h1 + h2 = (l + k) + 1
      BY <1>1, <1>4, <2>2, <2>3
    <3> HIDE DEF h1, h2, l, k
    <3>2. h2 - k \in Nat /\ h1 + (h2 - k) = l + 1
      BY <3>1
    <3> QED
      BY <3>2 DEF h1, h2, l, k
  <2> HIDE DEF h, m
  <2> QED
    BY <2>2, <2>3, <2>4
<1> HIDE DEF h, e, four, n
<1>6. /\ Len(out') = Len(out) + 1 /\ out'[Len(out) + 1] = e
      /\ out \in Seq(EntryType) /\ out' \in Seq(EntryType)
      /\ \A i \in 1..Len(out) : out'[i] = out[i]
  <2>1. out \in Seq(EntryType)
    BY <1>1 DEF ListingTyped
  <2> QED
    BY <1>2, <1>3, <2>1, AppendProperties
<1>7. LastHeader' = h /\ Len(headers') = K
  BY <1>2 DEF LastHeader, h
<1>8. Chained'
  <2>1. left' <= h[2] /\ h[1] + h[2] = Len(out') + left' + 1
    <3> DEFINE h1 == h[1]
               h2 == h[2]
               l == Len(out)
               k == left
    <3>1. /\ h1 \in Nat /\ h2 \in Nat /\ l \in Nat /\ k \in Nat \ {0}
          /\ k <= h2 /\ h1 + h2 = l + k + 1
      BY <1>1, <1>4, <1>5
    <3> HIDE DEF h1, h2, l, k
    <3>2. k - 1 <= h2 /\ h1 + h2 = (l + 1) + (k - 1) + 1
      BY <3>1
    <3>3. left' = k - 1 /\ Len(out') = l + 1
      BY <1>2, <1>6 DEF l, k
    <3> QED
      BY <3>2, <3>3 DEF h1, h2
  <2>2. (header = [start |-> h[3], base |-> h[4]] /\ header.base < U32)
    BY <1>1, <1>4 DEF Chained, h
  <2>3. ASSUME NEW i \in 1..(K - 1)
        PROVE  /\ headers[i][1] + headers[i][2] = headers[i + 1][1]
               /\ headers[i][1] + headers[i][2] <= Len(out') + 1
    <3>1. i \in 1..K
      BY <1>4
    <3>2. headers[i][1] \in Nat /\ headers[i][2] \in Nat
      BY <1>1, <3>1, HeaderNumbers
    <3>3. /\ headers[i][1] + headers[i][2] = headers[i + 1][1]
          /\ headers[i][1] + headers[i][2] <= Len(out) + 1
      BY <1>1 DEF Chained
    <3> QED
      BY <1>4, <1>6, <3>2, <3>3
  <2>4. headers' = headers /\ header' = header
    BY <1>2
  <2> HIDE DEF K
  <2> QED
    BY <1>4, <1>7, <2>1, <2>2, <2>3, <2>4 DEF Chained, K
<1>9. WrittenSoFar'
  <2> DEFINE R == RunsOf(out, headers, K - 1)
             H == HeadCells(h)
             E == EntriesOf(out, h, m)
             C == EntryCells(e, h[3], h[4])
  <2>1. K - 1 \in Nat
    BY <1>4
  <2>2. /\ \A i \in 1..(K - 1) : headers[i][2] \in Nat /\ Holds(out, headers[i], headers[i][2])
        /\ Holds(out, h, m)
    BY <1>1, <1>4, RunsHold DEF h
  <2>3. SubSeq(buf, 1, p) = R \o (H \o E)
    BY <1>4 DEF Accounted, WrittenSoFar, h
  <2>4. IsSeq(R) /\ IsSeq(H) /\ IsSeq(E) /\ IsSeq(C)
    <3>1. IsSeq(R)
      BY <2>1, <2>2, RunsAreSeq
    <3>2. IsSeq(E)
      BY <1>5, <2>2, EntriesAreSeq
    <3> QED
      BY <1>3, <3>1, <3>2, HeadIsSeq, EntryCellsAre
  <2>5. RunsOf(out', headers, K - 1) = R
    <3>1. ASSUME NEW i \in 1..(K - 1)
          PROVE  /\ headers[i] = headers[i] /\ headers[i][2] \in Nat
                 /\ Agree(out', out, headers[i], headers[i][2])
      <4>1. i \in 1..K
        BY <1>4
      <4>2. headers[i][1] \in Nat \ {0} /\ headers[i][2] \in Nat
        BY <1>1, <4>1, HeaderNumbers
      <4>3. headers[i][1] + headers[i][2] <= Len(out) + 1
        BY <1>1 DEF Chained
      <4> DEFINE g == headers[i]
      <4>4. ASSUME NEW j \in 1..g[2] PROVE out'[g[1] + j - 1] = out[g[1] + j - 1]
        <5> DEFINE x == g[1] + j - 1
        <5>1. x \in 1..Len(out)
          <6> DEFINE a == g[1]
                     b == g[2]
                     l == Len(out)
          <6>1. a \in Nat \ {0} /\ b \in Nat /\ l \in Nat /\ a + b <= l + 1 /\ j \in 1..b
            BY <1>4, <4>2, <4>3
          <6> HIDE DEF a, b, l
          <6>2. (a + j) - 1 \in 1..l
            BY <6>1
          <6>3. (g[1] + j) - 1 \in 1..Len(out)
            BY <6>2 DEF a, l
          <6>4. a + j - 1 = (a + j) - 1
            BY <6>1
          <6>5. g[1] + j - 1 = (g[1] + j) - 1
            BY <6>4 DEF a
          <6> HIDE DEF g
          <6> QED
            BY <6>3, <6>5 DEF x
        <5> HIDE DEF x
        <5>2. out'[x] = out[x]
          BY <1>6, <5>1
        <5> QED
          BY <5>2 DEF x
      <4> QED
        BY <4>2, <4>4 DEF Agree
    <3> QED
      BY <2>1, <3>1, RunsSame
  <2>6. EntriesOf(out', h, m + 1) = E \o C
    <3>1. Agree(out', out, h, m)
      <4>1. ASSUME NEW j \in 1..m PROVE out'[h[1] + j - 1] = out[h[1] + j - 1]
        <5> DEFINE x == h[1] + j - 1
        <5>1. x \in 1..Len(out)
          <6> DEFINE h1 == h[1]
                     l == Len(out)
          <6>1. h1 \in Nat \ {0} /\ l \in Nat /\ m \in Nat /\ h1 + m = l + 1
            BY <1>4, <1>5
          <6> HIDE DEF h1, l, m
          <6>2. (h1 + j) - 1 \in 1..l
            BY <6>1
          <6> QED
            BY <6>1, <6>2 DEF h1, l
        <5> HIDE DEF x
        <5>2. out'[x] = out[x]
          BY <1>6, <5>1
        <5> QED
          BY <5>2 DEF x
      <4> HIDE DEF m
      <4> QED
        BY <4>1 DEF Agree
    <3>2. EntriesOf(out', h, m) = E
      <4> HIDE DEF m
      <4> QED
        BY <1>5, <3>1, EntriesSame
    <3>3. Holds(out', h, m + 1)
      <4>1. ASSUME NEW j \in 1..(m + 1) PROVE out'[h[1] + j - 1] \in EntryType
        <5> DEFINE x == h[1] + j - 1
        <5>1. x \in 1..Len(out')
          <6> DEFINE h1 == h[1]
                     l == Len(out')
          <6>1. h1 \in Nat \ {0} /\ l \in Nat /\ m \in Nat /\ h1 + m = l
            <7>1. h[1] + m = Len(out) + 1 /\ Len(out') = Len(out) + 1 /\ m \in Nat
                  /\ h[1] \in Nat \ {0} /\ Len(out) \in Nat
              BY <1>4, <1>5, <1>6
            <7> HIDE DEF m
            <7> QED
              BY <7>1
          <6> HIDE DEF h1, l, m
          <6>2. (h1 + j) - 1 \in 1..l
            BY <6>1
          <6> QED
            BY <6>1, <6>2 DEF h1, l
        <5> HIDE DEF x
        <5>2. out'[x] \in EntryType
          BY <1>6, <5>1, ElementOfSeq
        <5> QED
          BY <5>2 DEF x
      <4> HIDE DEF m
      <4> QED
        BY <4>1 DEF Holds
    <3>4. EntriesOf(out', h, m + 1)
            = EntriesOf(out', h, m) \o EntryCells(out'[h[1] + m], h[3], h[4])
      <4> HIDE DEF m
      <4> QED
        BY <1>5, <3>3, EntriesGrow
    <3>5. out'[h[1] + m] = e
      BY <1>5, <1>6
    <3> QED
      BY <3>2, <3>4, <3>5
  <2>7. C = four \o Name
    BY <1>1, <1>5, EntryWrittenBack DEF FieldsFit, e, four
  <2>8. SubSeq(buf, 1, n) = SubSeq(buf, 1, p) \o (four \o Name)
    <3>1. buf \in Seq(Nat)
      BY <1>1 DEF ListingTyped
    <3>2. /\ 1 \in Nat \ {0} /\ 1 <= p + 1 /\ p <= n /\ p + 4 \in Nat /\ p + 1 \in Nat \ {0}
          /\ p + 1 <= (p + 4) + 1 /\ p + 4 <= n /\ p + 4 <= Len(buf)
      BY <1>3 DEF n
    <3>3. SubSeq(buf, p + 1, p + 4) = four
      BY <1>3, <3>1, <3>2, FewCells DEF four
    <3>4. SubSeq(buf, (p + 4) + 1, n) = Name
      BY DEF Name, n, EntryLen
    <3>5. SubSeq(buf, p + 1, n) = SubSeq(buf, p + 1, p + 4) \o SubSeq(buf, (p + 4) + 1, n)
      BY <1>3, <3>1, <3>2, TakenOn
    <3>6. SubSeq(buf, 1, n) = SubSeq(buf, 1, p) \o SubSeq(buf, p + 1, n)
      BY <1>3, <3>1, <3>2, TakenOn
    <3> QED
      BY <3>3, <3>4, <3>5, <3>6
  <2>9. SubSeq(buf, 1, n) = R \o (H \o (E \o C))
    <3> HIDE DEF R, H, E, C
    <3>1. SubSeq(buf, 1, n) = (R \o (H \o E)) \o C
      BY <2>3, <2>7, <2>8
    <3>2. IsSeq(H \o E)
      BY <2>4, JoinLength
    <3>3. (R \o (H \o E)) \o C = R \o ((H \o E) \o C)
      <4> DEFINE X == H \o E
      <4>1. IsSeq(X)
        BY <3>2
      <4> HIDE DEF X
      <4>2. (R \o X) \o C = R \o (X \o C)
        BY <2>4, <4>1, JoinAssociates
      <4> QED
        BY <4>2 DEF X
    <3>4. (H \o E) \o C = H \o (E \o C)
      BY <2>4, JoinAssociates
    <3> QED
      BY <3>1, <3>3, <3>4
  <2>10. h[2] - left' = m + 1
    BY <1>1, <1>2, <1>5
  <2>11. SubSeq(buf, 1, n)
             = RunsOf(out', headers, K - 1)
                   \o (HeadCells(h) \o EntriesOf(out', h, h[2] - left'))
    BY <2>5, <2>6, <2>9, <2>10
  <2>12. buf' = buf /\ p' = n /\ headers' = headers
    BY <1>2
  <2> HIDE DEF R, H, E, C, K, m
  <2> QED
    BY <1>7, <2>11, <2>12 DEF WrittenSoFar
<1>10. ParsedWhole'
  BY <1>1, <1>2 DEF ParsedWhole
<1> QED
  BY <1>8, <1>9, <1>10


\* Whatever happens to a listing leaves it accounted for.
LEMMA EffectAccounted ==
    ASSUME Accounted, FieldsFit, ListingEffect
    PROVE  Accounted'
<1>1. ListingTyped'
  BY EffectIsTyped DEF Accounted
<1>2. CASE ParseHeader
  BY <1>1, <1>2, HeaderAccounted DEF Accounted
<1>3. CASE ParseEntry
  BY <1>1, <1>3, EntryAccounted DEF Accounted
<1>4. ASSUME UNCHANGED <<buf, p, left, header, out, headers>>,
             parse' = "parsed" => left = 0 /\ p = Len(buf)
      PROVE  Accounted'
  BY <1>1, <1>4 DEF Accounted, Chained, WrittenSoFar, ParsedWhole, LastHeader
<1>5. CASE RefuseHeader \/ RefuseEntry
  BY <1>4, <1>5 DEF RefuseHeader, RefuseEntry, Refuse
<1>6. CASE ParseDone
  <2>1. Len(buf) \in Nat
    BY LenProperties DEF Accounted, ListingTyped
  <2>2. left = 0 /\ p = Len(buf) /\ UNCHANGED <<buf, p, left, header, out, headers>>
    BY <1>6, <2>1 DEF ParseDone, Accounted, ListingTyped
  <2> QED
    BY <1>4, <2>2
<1>7. ASSUME NEW cells \in Seq(Nat), NEW state, SetListing(cells, state),
             state = "parsed" => cells = << >>
      PROVE  Accounted'
  <2>1. /\ headers' = << >> /\ left' = 0 /\ p' = 0 /\ out' = << >> /\ buf' = cells
        /\ parse' = state
    BY <1>7 DEF SetListing
  <2>2. headers' \in Seq(HeaderType) /\ Len(headers') = 0 /\ Len(out') = 0
    BY <2>1
  <2>3. Chained'
    BY <2>1, <2>2 DEF Chained
  <2>4. WrittenSoFar'
    BY <2>2 DEF WrittenSoFar
  <2>5. ParsedWhole'
    BY <1>7, <2>1 DEF ParsedWhole
  <2> QED
    BY <1>1, <2>3, <2>4, <2>5 DEF Accounted
<1>8. CASE SetListing(<< >>, "idle")
  <2>1. << >> \in Seq(Nat)
    OBVIOUS
  <2> QED
    BY <1>7, <1>8, <2>1
<1>9. ASSUME NEW cells \in Seq(Nat),
             SetListing(cells, IF cells = << >> THEN "parsed" ELSE "parsing")
      PROVE  Accounted'
  BY <1>7, <1>9
<1>10. CASE UNCHANGED listingVars
  BY <1>4, <1>10 DEF listingVars, Accounted, ParsedWhole
<1> QED
  BY <1>2, <1>3, <1>5, <1>6, <1>8, <1>9, <1>10 DEF ListingEffect, ParseStep

\* It begins so.
LEMMA InitAccounted == Init => QueryTyped /\ Accounted
<1> SUFFICES ASSUME Init PROVE QueryTyped /\ Accounted
  OBVIOUS
<1>1. /\ buf = << >> /\ p = 0 /\ left = 0 /\ header = NoHeader /\ out = << >>
      /\ headers = << >> /\ parse = "idle"
  BY DEF Init, ListingInit
<1>2. ListingTyped
  <2>1. << >> \in Seq(Nat) /\ << >> \in Seq(EntryType) /\ Len(buf) = 0
    BY <1>1
  <2> QED
    BY <1>1, <2>1 DEF ListingTyped, NoHeader
<1>3. Chained /\ WrittenSoFar /\ ParsedWhole
  <2>1. headers \in Seq(HeaderType) /\ Len(headers) = 0 /\ Len(out) = 0
    BY <1>1
  <2> QED
    BY <1>1, <2>1 DEF Chained, WrittenSoFar, ParsedWhole
<1>4. image \in Range(Images) /\ pc = "idle"
  BY DEF Init
<1> QED
  BY <1>2, <1>3, <1>4 DEF QueryTyped, Accounted

\* An accepted listing that is accounted for is its runs, written again.
LEMMA AccountedIsWritten == Accounted => ListingAccounted
<1> SUFFICES ASSUME Accounted, parse = "parsed"
             PROVE  /\ \A i \in 1..Len(headers) :
                           headers[i][1] + headers[i][2] - 1
                               = IF i = Len(headers) THEN Len(out) ELSE headers[i + 1][1] - 1
                    /\ FlattenSeq([i \in 1..Len(headers) |-> RunCells(headers[i])]) = buf
  BY Zenon DEF ListingAccounted
<1>1. left = 0 /\ p = Len(buf) /\ ListingTyped /\ Chained
  BY DEF Accounted, ParsedWhole
<1>2. ASSUME NEW i \in 1..Len(headers)
      PROVE  headers[i][1] + headers[i][2] - 1
                 = IF i = Len(headers) THEN Len(out) ELSE headers[i + 1][1] - 1
  <2>1. /\ Len(headers) \in Nat /\ Len(out) \in Nat
        /\ headers[i][1] \in Nat /\ headers[i][2] \in Nat
    BY <1>1, HeaderNumbers
  <2>2. CASE i = Len(headers)
    <3>1. headers[i] = LastHeader /\ Len(headers) # 0
      BY <2>1, <2>2 DEF LastHeader
    <3>2. LastHeader[1] + LastHeader[2] = Len(out) + left + 1
      BY <1>1, <3>1 DEF Chained
    <3> QED
      BY <1>1, <2>1, <2>2, <3>1, <3>2
  <2>3. CASE i # Len(headers)
    <3>1. i \in 1..(Len(headers) - 1) /\ i + 1 \in 1..Len(headers)
      BY <2>1, <2>3
    <3>2. headers[i][1] + headers[i][2] = headers[i + 1][1]
      BY <1>1, <3>1 DEF Chained
    <3>3. headers[i + 1][1] \in Nat
      BY <1>1, <3>1, HeaderNumbers
    <3> DEFINE a == headers[i][1]
               b == headers[i][2]
               c == headers[i + 1][1]
    <3>4. a \in Nat /\ b \in Nat
      BY <1>1, <2>1, HeaderNumbers
    <3> HIDE DEF a, b, c
    <3>5. a + b = c /\ c \in Nat
      BY <3>2, <3>3 DEF a, b, c
    <3>6. a + b - 1 = c - 1
      BY <3>4, <3>5
    <3> QED
      BY <2>3, <3>6 DEF a, b, c
  <2> QED
    BY <2>2, <2>3
<1>3. FlattenSeq([i \in 1..Len(headers) |-> RunCells(headers[i])]) = buf
  <2>1. SubSeq(buf, 1, p) = RunsOf(out, headers, Len(headers))
    BY <1>1, RunsRead
  <2>2. SubSeq(buf, 1, p) = buf
    <3>1. buf \in Seq(Nat)
      BY <1>1 DEF ListingTyped
    <3> QED
      BY <1>1, <3>1, SubSeqFull
  <2>3. \A h : RunCells(h) = RunIn(out, h)
    BY Zenon DEF RunCells, RunIn, HeadCells, EntriesOf, EntryPieces
  <2>4. [i \in 1..Len(headers) |-> RunCells(headers[i])] = RunPieces(out, headers, Len(headers))
    BY <2>3 DEF RunPieces
  <2> QED
    BY <2>1, <2>2, <2>4 DEF RunsOf
<1> QED
  BY <1>2, <1>3

\* parse_listing takes a listing apart without losing any of it: when the
\* fields have their widths, the entries of an accepted listing, written again
\* header by header, are its cells, none left over, none cut, none read twice.
THEOREM ListingWhole == Spec /\ []FieldsFit => []ListingAccounted
<1>1. Init => QueryTyped /\ Accounted
  BY InitAccounted
<1>2. QueryTyped /\ Accounted /\ FieldsFit /\ [Next]_vars => (QueryTyped /\ Accounted)'
  BY QueryStep, EffectAccounted
<1>3. Accounted => ListingAccounted
  BY AccountedIsWritten
<1> QED
  BY <1>1, <1>2, <1>3, PTL DEF Spec


-----------------------------------------------------------------------------
(* A listing parses in one way only.                                       *)

\* Where a parse is.
ParseState == [p |-> p, left |-> left, header |-> header, out |-> out]

ParseStart == [p |-> 0, left |-> 0, header |-> NoHeader, out |-> << >>]

\* A header, or an entry, can be taken from the cells b at s.
HeaderFits(b, s) ==
    s.left = 0 /\ s.p < Len(b) /\ s.p + HeaderLen <= Len(b) /\ b[s.p + 1] + 1 <= MaxEntries

NameSizeAt(b, s) == b[s.p + EntryLen] + 1
NameAt(b, s) == SubSeq(b, s.p + EntryLen + 1, s.p + EntryLen + NameSizeAt(b, s))

EntryFits(b, s) ==
    /\ s.left > 0
    /\ s.p + EntryLen <= Len(b)
    /\ NameSizeAt(b, s) <= NameLen
    /\ s.p + EntryLen + NameSizeAt(b, s) <= Len(b)
    /\ NameAllowed(NameAt(b, s))

EntryOf(b, s) ==
    [name |-> NameAt(b, s),
     inode_ref |-> Packed(s.header.start, b[s.p + 1]),
     inode_number |-> (s.header.base + Signed16(b[s.p + 2])) % U32,
     type_id |-> b[s.p + 3]]

HeaderTaken(b, s) ==
    [p |-> s.p + HeaderLen, left |-> b[s.p + 1] + 1,
     header |-> [start |-> b[s.p + 2], base |-> b[s.p + 3]], out |-> s.out]

EntryTaken(b, s) ==
    [p |-> s.p + EntryLen + NameSizeAt(b, s), left |-> s.left - 1,
     header |-> s.header, out |-> Append(s.out, EntryOf(b, s))]

\* The parse goes on from s, or is stuck there.
ParseOn(b, s) ==
    IF HeaderFits(b, s) THEN HeaderTaken(b, s)
    ELSE IF EntryFits(b, s) THEN EntryTaken(b, s) ELSE s

Stuck(b, s) == ~HeaderFits(b, s) /\ ~EntryFits(b, s)

\* The parse of b reaches s: f is how, in n steps.
ParseRun(b, f, n) == f[0] = ParseStart /\ \A k \in 1..n : f[k] = ParseOn(b, f[k - 1])
Reached(b, s) == \E n \in Nat : \E f : ParseRun(b, f, n) /\ f[n] = s

\* Parses of the same cells go the same way.
LEMMA RunsAgree ==
    ASSUME NEW b, NEW f, NEW g, NEW n \in Nat, NEW m \in Nat,
           ParseRun(b, f, n), ParseRun(b, g, m)
    PROVE  \A k \in Nat : k <= n /\ k <= m => f[k] = g[k]
<1> DEFINE T == {k \in Nat : k <= n /\ k <= m => f[k] = g[k]}
<1>1. 0 \in T
  BY DEF ParseRun
<1>2. ASSUME NEW k \in Nat, k \in T PROVE k + 1 \in T
  <2> SUFFICES ASSUME k + 1 <= n, k + 1 <= m PROVE f[k + 1] = g[k + 1]
    OBVIOUS
  <2>1. f[k] = g[k]
    BY <1>2
  <2>2. k + 1 \in 1..n /\ k + 1 \in 1..m /\ (k + 1) - 1 = k
    OBVIOUS
  <2>3. f[k + 1] = ParseOn(b, f[k]) /\ g[k + 1] = ParseOn(b, g[k])
    BY <2>2 DEF ParseRun
  <2> QED
    BY <2>1, <2>3
<1>3. Nat \subseteq T
  <2> HIDE DEF T
  <2> QED
    BY <1>1, <1>2, SetInduction
<1> QED
  BY <1>3

\* A parse that is stuck stays where it is.
LEMMA StuckStays ==
    ASSUME NEW b, NEW f, NEW n \in Nat, NEW i \in Nat, i <= n,
           ParseRun(b, f, n), Stuck(b, f[i])
    PROVE  f[n] = f[i]
<1> DEFINE T == {k \in Nat : i <= k /\ k <= n => f[k] = f[i]}
<1>1. 0 \in T
  <2> SUFFICES ASSUME i <= 0 PROVE f[0] = f[i]
    OBVIOUS
  <2>1. i = 0
    OBVIOUS
  <2> QED
    BY <2>1
<1>2. ASSUME NEW k \in Nat, k \in T PROVE k + 1 \in T
  <2> SUFFICES ASSUME i <= k + 1, k + 1 <= n PROVE f[k + 1] = f[i]
    OBVIOUS
  <2>1. CASE i = k + 1
    BY <2>1
  <2>2. CASE i # k + 1
    <3>1. f[k] = f[i]
      BY <1>2, <2>2
    <3>2. k + 1 \in 1..n /\ (k + 1) - 1 = k
      OBVIOUS
    <3>3. f[k + 1] = ParseOn(b, f[k])
      BY <3>2 DEF ParseRun
    <3>4. ParseOn(b, f[i]) = f[i]
      BY DEF ParseOn, Stuck
    <3> QED
      BY <3>1, <3>3, <3>4
  <2> QED
    BY <2>1, <2>2
<1>3. Nat \subseteq T
  <2> HIDE DEF T
  <2> QED
    BY <1>1, <1>2, SetInduction
<1> QED
  BY <1>3

\* So there is one place only where a parse can get stuck.
LEMMA StuckOnce ==
    ASSUME NEW b, NEW s, NEW t, Reached(b, s), Reached(b, t), Stuck(b, s), Stuck(b, t)
    PROVE  s = t
<1>1. PICK n \in Nat : \E f : ParseRun(b, f, n) /\ f[n] = s
  BY DEF Reached
<1>2. PICK f : ParseRun(b, f, n) /\ f[n] = s
  BY <1>1
<1>3. PICK m \in Nat : \E g : ParseRun(b, g, m) /\ g[m] = t
  BY DEF Reached
<1>4. PICK g : ParseRun(b, g, m) /\ g[m] = t
  BY <1>3
<1>5. CASE n <= m
  <2>1. f[n] = g[n]
    BY <1>2, <1>4, <1>5, RunsAgree
  <2>2. g[m] = g[n]
    BY <1>2, <1>4, <1>5, <2>1, StuckStays
  <2> QED
    BY <1>2, <1>4, <2>1, <2>2
<1>6. CASE m <= n
  <2>1. f[m] = g[m]
    BY <1>2, <1>4, <1>6, RunsAgree
  <2>2. f[n] = f[m]
    BY <1>2, <1>4, <1>6, <2>1, StuckStays
  <2> QED
    BY <1>2, <1>4, <2>1, <2>2
<1> QED
  BY <1>5, <1>6

\* A parse begins at its start, and reaches wherever it goes on to.
LEMMA ReachesOn ==
    ASSUME NEW b
    PROVE  /\ Reached(b, ParseStart)
           /\ \A s : Reached(b, s) => Reached(b, ParseOn(b, s))
<1>1. Reached(b, ParseStart)
  <2> DEFINE f == [k \in 0..0 |-> ParseStart]
  <2>1. f[0] = ParseStart /\ ParseRun(b, f, 0)
    BY DEF ParseRun
  <2> HIDE DEF f
  <2> QED
    BY <2>1 DEF Reached
<1>2. ASSUME NEW s, Reached(b, s) PROVE Reached(b, ParseOn(b, s))
  <2>1. PICK n \in Nat : \E f : ParseRun(b, f, n) /\ f[n] = s
    BY <1>2 DEF Reached
  <2>2. PICK f : ParseRun(b, f, n) /\ f[n] = s
    BY <2>1
  <2> DEFINE next == ParseOn(b, s)
             g == [k \in 0..(n + 1) |-> IF k = n + 1 THEN next ELSE f[k]]
  <2>3. g[n + 1] = next /\ \A k \in 0..n : g[k] = f[k]
    OBVIOUS
  <2> HIDE DEF g, next
  <2>4. ParseRun(b, g, n + 1)
    <3>1. g[0] = ParseStart
      BY <2>2, <2>3 DEF ParseRun
    <3>2. ASSUME NEW k \in 1..(n + 1) PROVE g[k] = ParseOn(b, g[k - 1])
      <4>1. CASE k = n + 1
        <5>1. k - 1 = n /\ n \in 0..n
          BY <4>1
        <5> QED
          BY <2>2, <2>3, <4>1, <5>1 DEF next
      <4>2. CASE k # n + 1
        <5>1. k \in 1..n /\ k \in 0..n /\ k - 1 \in 0..n
          BY <4>2
        <5>2. f[k] = ParseOn(b, f[k - 1])
          BY <2>2, <5>1 DEF ParseRun
        <5> QED
          BY <2>3, <5>1, <5>2
      <4> QED
        BY <4>1, <4>2
    <3> QED
      BY <3>1, <3>2 DEF ParseRun
  <2>5. n + 1 \in Nat
    OBVIOUS
  <2> QED
    BY <2>3, <2>4, <2>5 DEF Reached, next
<1> QED
  BY <1>1, <1>2


\* A name a listing may hand out: some bytes, none of them a "/".
GoodName(name) == name \in Seq(Nat) /\ name # << >> /\ Slash \notin Range(name)

\* The cells b parse to the entries o.
ParsesTo(b, o) ==
    \E s : Reached(b, s) /\ s.left = 0 /\ s.p = Len(b) /\ s.out = o

\* Where the listing is: on the one way its cells parse, done at their end, or
\* stuck before it.
ParseProgress ==
    /\ parse # "idle" => Reached(buf, ParseState)
    /\ parse = "parsed" => left = 0 /\ p = Len(buf)
    /\ parse = "refused" => Stuck(buf, ParseState) /\ ~(left = 0 /\ p = Len(buf))
    /\ \A i \in 1..Len(out) : GoodName(out[i].name)

\* Every step of the parse goes on that way.
LEMMA EffectProgress ==
    ASSUME ListingTyped, ParseProgress, ListingEffect
    PROVE  ParseProgress'
<1>1. /\ Len(buf) \in Nat /\ p \in 0..Len(buf) /\ left \in Nat /\ out \in Seq(EntryType)
      /\ Len(out) \in Nat
  BY LenProperties DEF ListingTyped
<1>2. CASE ParseHeader
  <2>1. HeaderFits(buf, ParseState)
    BY <1>2 DEF ParseHeader, BetweenRuns, HeaderWhole, Promised, HeaderFits, ParseState
  <2>2. ParseState' = HeaderTaken(buf, ParseState)
    BY <1>2 DEF ParseHeader, ParseState, HeaderTaken, Promised
  <2>3. ParseState' = ParseOn(buf, ParseState)
    BY <2>1, <2>2 DEF ParseOn
  <2>4. parse = "parsing" /\ UNCHANGED <<buf, out, parse>>
    BY <1>2 DEF ParseHeader, BetweenRuns
  <2>5. Reached(buf, ParseState)
    BY <2>4 DEF ParseProgress
  <2>6. Reached(buf, ParseState')
    BY <2>3, <2>5, ReachesOn
  <2> QED
    BY <2>4, <2>6 DEF ParseProgress
<1>3. CASE ParseEntry
  <2>1. InRun /\ EntryWhole /\ NameWhole /\ NameSize <= NameLen /\ NameAllowed(Name)
    BY <1>3 DEF ParseEntry
  <2>2. ~HeaderFits(buf, ParseState)
    BY <1>1, <2>1 DEF InRun, HeaderFits, ParseState
  <2>3. /\ NameSizeAt(buf, ParseState) = NameSize /\ NameAt(buf, ParseState) = Name
        /\ EntryOf(buf, ParseState) = EntryAt
    BY DEF NameSizeAt, NameSize, NameAt, Name, EntryOf, EntryAt, ParseState
  <2>4. EntryFits(buf, ParseState)
    <3>1. /\ ParseState.left > 0 /\ ParseState.p + EntryLen <= Len(buf)
          /\ ParseState.p + EntryLen + NameSize <= Len(buf)
      BY <2>1 DEF InRun, EntryWhole, NameWhole, ParseState
    <3> QED
      BY <2>1, <2>3, <3>1 DEF EntryFits
  <2>5. ParseState' = EntryTaken(buf, ParseState)
    <3>1. /\ out' = Append(out, EntryAt) /\ p' = p + EntryLen + NameSize /\ left' = left - 1
          /\ header' = header
      BY <1>3 DEF ParseEntry
    <3>2. ParseState.out = out /\ ParseState.p = p /\ ParseState.left = left
          /\ ParseState.header = header
      BY DEF ParseState
    <3>3. ParseState' = [p |-> p', left |-> left', header |-> header', out |-> out']
      BY DEF ParseState
    <3> QED
      BY <2>3, <3>1, <3>2, <3>3 DEF EntryTaken
  <2>6. ParseState' = ParseOn(buf, ParseState)
    BY <2>2, <2>4, <2>5 DEF ParseOn
  <2>7. parse = "parsing" /\ UNCHANGED <<buf, parse>>
    BY <1>3 DEF ParseEntry, InRun
  <2>8. Reached(buf, ParseState)
    BY <2>7 DEF ParseProgress
  <2>9. Reached(buf, ParseState')
    BY <2>6, <2>8, ReachesOn
  <2>10. GoodName(Name)
    <3>1. Name \in Seq(Nat) /\ Len(Name) = NameSize /\ NameSize = buf[p + 4] + 1
          /\ buf[p + 4] \in Nat
      BY <2>1, EntryIsTyped
    <3>2. Name # << >>
      BY <3>1
    <3> QED
      BY <2>1, <3>1, <3>2 DEF GoodName, NameAllowed
  <2>11. \A i \in 1..Len(out') : GoodName(out'[i].name)
    <3> TAKE i \in 1..Len(out')
    <3>1. EntryAt \in EntryType
      BY <2>1, EntryIsTyped
    <3>2. out' = Append(out, EntryAt)
      BY <1>3 DEF ParseEntry
    <3>3. /\ Len(out') = Len(out) + 1 /\ out'[Len(out) + 1] = EntryAt
          /\ \A j \in 1..Len(out) : out'[j] = out[j]
      BY <1>1, <3>1, <3>2, AppendProperties
    <3>4. CASE i = Len(out) + 1
      <4>1. EntryAt.name = Name
        BY DEF EntryAt
      <4> QED
        BY <2>10, <3>3, <3>4, <4>1
    <3>5. CASE i # Len(out) + 1
      <4>1. i \in 1..Len(out)
        BY <1>1, <3>3, <3>5
      <4> QED
        BY <3>3, <4>1 DEF ParseProgress
    <3> QED
      BY <3>4, <3>5
  <2> QED
    BY <2>7, <2>9, <2>11 DEF ParseProgress
<1>4. ASSUME UNCHANGED <<buf, p, left, header, out>>, parse # "idle",
             parse' = "parsed" => left = 0 /\ p = Len(buf),
             parse' = "refused" => Stuck(buf, ParseState) /\ ~(left = 0 /\ p = Len(buf))
      PROVE  ParseProgress'
  <2>1. ParseState' = ParseState
    BY <1>4 DEF ParseState
  <2> QED
    BY <1>4, <2>1 DEF ParseProgress
<1>5. CASE RefuseHeader
  <2>1. BetweenRuns /\ (HeaderWhole => Promised > MaxEntries) /\ parse' = "refused"
        /\ UNCHANGED <<buf, p, left, header, out>>
    BY <1>5 DEF RefuseHeader, Refuse
  <2>2. parse = "parsing" /\ left = 0 /\ p < Len(buf)
    BY <2>1 DEF BetweenRuns
  <2>3. Stuck(buf, ParseState)
    <3>1. ParseState.left = 0 /\ ParseState.p = p
      BY <2>2 DEF ParseState
    <3>2. ~(ParseState.left > 0)
      BY <3>1
    <3>3. ~HeaderFits(buf, ParseState)
      <4>1. SUFFICES ASSUME HeaderFits(buf, ParseState) PROVE FALSE
        OBVIOUS
      <4>2. HeaderWhole /\ Promised <= MaxEntries
        BY <3>1, <4>1 DEF HeaderFits, HeaderWhole, Promised
      <4>3. Promised \in Nat
        BY <2>1, <4>2, HeaderCells
      <4> QED
        BY <2>1, <4>2, <4>3, ListingAssumption
    <3> QED
      BY <3>2, <3>3 DEF Stuck, EntryFits
  <2> QED
    BY <1>1, <1>4, <2>1, <2>2, <2>3
<1>6. CASE RefuseEntry
  <2>1. /\ InRun /\ parse' = "refused" /\ UNCHANGED <<buf, p, left, header, out>>
        /\ \/ ~EntryWhole \/ NameSize > NameLen \/ ~NameWhole \/ ~NameAllowed(Name)
    BY <1>6 DEF RefuseEntry, Refuse
  <2>2. parse = "parsing" /\ left > 0
    BY <2>1 DEF InRun
  <2>3. Stuck(buf, ParseState)
    <3>1. ParseState.left = left /\ ParseState.p = p
      BY DEF ParseState
    <3>2. ~HeaderFits(buf, ParseState)
      BY <1>1, <2>2, <3>1 DEF HeaderFits
    <3>3. NameSizeAt(buf, ParseState) = NameSize /\ NameAt(buf, ParseState) = Name
      BY DEF NameSizeAt, NameSize, NameAt, Name, ParseState
    <3>4. ~EntryFits(buf, ParseState)
      <4>1. SUFFICES ASSUME EntryFits(buf, ParseState) PROVE FALSE
        OBVIOUS
      <4>2. EntryWhole /\ NameSize <= NameLen /\ NameWhole /\ NameAllowed(Name)
        BY <3>1, <3>3, <4>1 DEF EntryFits, EntryWhole, NameWhole
      <4>3. NameSize \in Nat
        <5>1. buf[p + 4] \in Nat /\ NameSize = buf[p + 4] + 1
          BY <2>1, <4>2, EntryIsTyped
        <5> QED
          BY <5>1
      <4> QED
        BY <2>1, <4>2, <4>3, ListingAssumption
    <3> QED
      BY <3>2, <3>4 DEF Stuck
  <2> QED
    BY <1>1, <1>4, <2>1, <2>2, <2>3
<1>7. CASE ParseDone
  <2>1. /\ parse = "parsing" /\ left = 0 /\ p >= Len(buf) /\ parse' = "parsed"
        /\ UNCHANGED <<buf, p, left, header, out>>
    BY <1>7 DEF ParseDone
  <2>2. p = Len(buf)
    BY <1>1, <2>1
  <2> QED
    BY <1>4, <2>1, <2>2
<1>8. ASSUME NEW cells \in Seq(Nat), NEW state \in {"idle", "parsing", "parsed"},
             SetListing(cells, state), state = "parsed" => cells = << >>
      PROVE  ParseProgress'
  <2>1. /\ buf' = cells /\ p' = 0 /\ left' = 0 /\ header' = NoHeader /\ out' = << >>
        /\ parse' = state
    BY <1>8 DEF SetListing
  <2>2. ParseState' = ParseStart
    BY <2>1 DEF ParseState, ParseStart
  <2>3. Reached(buf', ParseState')
    BY <2>2, ReachesOn
  <2>4. Len(out') = 0 /\ (parse' = "parsed" => p' = Len(buf'))
    BY <1>8, <2>1
  <2> QED
    BY <2>1, <2>3, <2>4 DEF ParseProgress
<1>9. CASE SetListing(<< >>, "idle")
  <2>1. << >> \in Seq(Nat)
    OBVIOUS
  <2> QED
    BY <1>8, <1>9, <2>1
<1>10. ASSUME NEW cells \in Seq(Nat),
              SetListing(cells, IF cells = << >> THEN "parsed" ELSE "parsing")
       PROVE  ParseProgress'
  BY <1>8, <1>10
<1>11. CASE UNCHANGED listingVars
  <2>1. ParseState' = ParseState /\ UNCHANGED <<buf, p, left, out, parse>>
    BY <1>11 DEF listingVars, ParseState
  <2> QED
    BY <2>1 DEF ParseProgress
<1> QED
  BY <1>2, <1>3, <1>5, <1>6, <1>7, <1>9, <1>10, <1>11 DEF ListingEffect, ParseStep

\* Cells that parse to one list of entries parse to no other, and a parse of
\* them that got stuck got there.
LEMMA ParsesOnce ==
    ASSUME NEW b, NEW o, NEW q, ParsesTo(b, o), ParsesTo(b, q), Len(b) \in Nat
    PROVE  o = q
<1>1. PICK s : Reached(b, s) /\ s.left = 0 /\ s.p = Len(b) /\ s.out = o
  BY DEF ParsesTo
<1>2. PICK t : Reached(b, t) /\ t.left = 0 /\ t.p = Len(b) /\ t.out = q
  BY DEF ParsesTo
<1>3. Stuck(b, s) /\ Stuck(b, t)
  BY <1>1, <1>2 DEF Stuck, HeaderFits, EntryFits
<1>4. s = t
  BY <1>1, <1>2, <1>3, StuckOnce
<1> QED
  BY <1>1, <1>2, <1>4

\* A listing that was refused parses to nothing; one that was parsed, to its
\* entries.
LEMMA ProgressEnds ==
    ASSUME ListingTyped, ParseProgress
    PROVE  /\ parse = "refused" => ~\E o : ParsesTo(buf, o)
           /\ parse = "parsed" => ParsesTo(buf, out)
<1>1. Len(buf) \in Nat
  BY LenProperties DEF ListingTyped
<1>2. ParseState.left = left /\ ParseState.p = p /\ ParseState.out = out
  BY DEF ParseState
<1>3. ASSUME parse = "refused", NEW o, ParsesTo(buf, o) PROVE FALSE
  <2>1. PICK s : Reached(buf, s) /\ s.left = 0 /\ s.p = Len(buf) /\ s.out = o
    BY <1>3 DEF ParsesTo
  <2>2. Stuck(buf, s)
    BY <1>1, <2>1 DEF Stuck, HeaderFits, EntryFits
  <2>3. Reached(buf, ParseState) /\ Stuck(buf, ParseState) /\ ~(left = 0 /\ p = Len(buf))
    BY <1>3 DEF ParseProgress
  <2>4. s = ParseState
    BY <2>1, <2>2, <2>3, StuckOnce
  <2> QED
    BY <1>2, <2>1, <2>3, <2>4
<1>4. ASSUME parse = "parsed" PROVE ParsesTo(buf, out)
  BY <1>2, <1>4 DEF ParseProgress, ParsesTo
<1> QED
  BY <1>3, <1>4


-----------------------------------------------------------------------------
(* Names lead to one inode only.                                           *)

\* Reading an inode, and a directory's listing, of any image.
ReadOf(img, ref) ==
    LET c == Cursor(img.blocks, img.inodeTable, ref, NoLimit) IN
    IF ~c.ok THEN Damaged ELSE ParseInode(c.value)

ListingOf(img, nd) ==
    LET c == Cursor(img.blocks, img.dirTable,
                    Packed(nd.dir_start_block, nd.dir_block_offset), img.dirEnd)
        n == DirListingLen(nd)
    IN
    IF n = 0 THEN Ok(<< >>)
    ELSE IF ~c.ok THEN Damaged
    ELSE IF Len(c.value) < n THEN Damaged
    ELSE Ok(SubSeq(c.value, 1, n))

\* The directory nd has the entries o.
ListedAs(img, nd, o) ==
    /\ IsDir(nd)
    /\ ListingOf(img, nd).ok
    /\ Len(ListingOf(img, nd).value) \in Nat
    /\ ParsesTo(ListingOf(img, nd).value, o)

\* The first entry of a name in nd leads to to.
StepTo(img, nd, name, to) ==
    \E o : /\ ListedAs(img, nd, o)
           /\ Named(o, name) # {}
           /\ ReadOf(img, FirstNamed(o, name).inode_ref).ok
           /\ ReadOf(img, FirstNamed(o, name).inode_ref).value = to

\* The first d of some names, followed from the root: f is where they lead.
Walk(img, names, d, f) ==
    /\ ReadOf(img, img.root).ok
    /\ f[0] = ReadOf(img, img.root).value
    /\ \A k \in 1..d : StepTo(img, f[k - 1], names[k], f[k])

Resolves(img, names, nd) == \E f : Walk(img, names, Len(names), f) /\ f[Len(names)] = nd

\* Some of the names are still to follow from nd.
OnTheWay(img, names, rest, nd) ==
    \E d \in 0..Len(names) :
        /\ Len(rest) = Len(names) - d
        /\ \A i \in 1..Len(rest) : rest[i] = names[d + i]
        /\ \E f : Walk(img, names, d, f) /\ f[d] = nd

\* A directory has one list of entries.
LEMMA ListedOnce ==
    ASSUME NEW img, NEW nd, NEW o, NEW q, ListedAs(img, nd, o), ListedAs(img, nd, q)
    PROVE  o = q
BY ParsesOnce DEF ListedAs

\* A name in a directory has one inode.
LEMMA StepsOnce ==
    ASSUME NEW img, NEW nd, NEW name, NEW x, NEW y,
           StepTo(img, nd, name, x), StepTo(img, nd, name, y)
    PROVE  x = y
<1>1. PICK o : /\ ListedAs(img, nd, o)
               /\ ReadOf(img, FirstNamed(o, name).inode_ref).value = x
  BY DEF StepTo
<1>2. PICK q : /\ ListedAs(img, nd, q)
               /\ ReadOf(img, FirstNamed(q, name).inode_ref).value = y
  BY DEF StepTo
<1>3. o = q
  BY <1>1, <1>2, ListedOnce
<1> QED
  BY <1>1, <1>2, <1>3

\* Two walks of the same names are at the same inode as long as both go on.
LEMMA WalksAgree ==
    ASSUME NEW img, NEW names, NEW f, NEW g, NEW n \in Nat, NEW m \in Nat,
           Walk(img, names, n, f), Walk(img, names, m, g)
    PROVE  \A k \in Nat : k <= n /\ k <= m => f[k] = g[k]
<1> DEFINE T == {k \in Nat : k <= n /\ k <= m => f[k] = g[k]}
<1>1. 0 \in T
  BY DEF Walk
<1>2. ASSUME NEW k \in Nat, k \in T PROVE k + 1 \in T
  <2> SUFFICES ASSUME k + 1 <= n, k + 1 <= m PROVE f[k + 1] = g[k + 1]
    OBVIOUS
  <2>1. f[k] = g[k]
    BY <1>2
  <2>2. k + 1 \in 1..n /\ k + 1 \in 1..m /\ (k + 1) - 1 = k
    OBVIOUS
  <2>3. StepTo(img, f[k], names[k + 1], f[k + 1]) /\ StepTo(img, g[k], names[k + 1], g[k + 1])
    BY <2>2 DEF Walk
  <2> QED
    BY <2>1, <2>3, StepsOnce
<1>3. Nat \subseteq T
  <2> HIDE DEF T
  <2> QED
    BY <1>1, <1>2, SetInduction
<1> QED
  BY <1>3

\* nd is the goal when nothing is left to follow, and leads on when some is.
LeadsOn(img, nd, rest, goal) ==
    /\ Len(rest) = 0 => nd = goal
    /\ Len(rest) # 0 => \E to : StepTo(img, nd, rest[1], to)

\* A walk of names that lead somewhere is there at their end, and can go on
\* before it.
LEMMA WayLeads ==
    ASSUME NEW img, NEW names, Len(names) \in Nat, NEW goal, Resolves(img, names, goal),
           NEW rest, NEW nd, OnTheWay(img, names, rest, nd)
    PROVE  LeadsOn(img, nd, rest, goal)
<1>1. PICK f : Walk(img, names, Len(names), f) /\ f[Len(names)] = goal
  BY DEF Resolves
<1>2. PICK d \in 0..Len(names) :
          /\ Len(rest) = Len(names) - d
          /\ \A i \in 1..Len(rest) : rest[i] = names[d + i]
          /\ \E g : Walk(img, names, d, g) /\ g[d] = nd
  BY DEF OnTheWay
<1>3. PICK g : Walk(img, names, d, g) /\ g[d] = nd
  BY <1>2
<1>4. f[d] = nd
  <2>1. d \in Nat /\ d <= d /\ d <= Len(names)
    OBVIOUS
  <2>2. f[d] = g[d]
    BY <1>1, <1>3, <2>1, WalksAgree
  <2> QED
    BY <1>3, <2>2
<1>5. ASSUME Len(rest) = 0 PROVE nd = goal
  <2>1. d = Len(names)
    BY <1>2, <1>5
  <2> QED
    BY <1>1, <1>4, <2>1
<1>6. ASSUME Len(rest) # 0 PROVE \E to : StepTo(img, nd, rest[1], to)
  <2>1. d + 1 \in 1..Len(names) /\ 1 \in 1..Len(rest) /\ (d + 1) - 1 = d
    BY <1>2, <1>6
  <2>2. rest[1] = names[d + 1]
    BY <1>2, <2>1
  <2>3. StepTo(img, f[d], names[d + 1], f[d + 1])
    BY <1>1, <2>1 DEF Walk
  <2> QED
    BY <1>4, <2>2, <2>3
<1> QED
  BY <1>5, <1>6 DEF LeadsOn

\* A way begins at the root.
LEMMA WayBegins ==
    ASSUME NEW img, NEW names, Len(names) \in Nat, ReadOf(img, img.root).ok
    PROVE  OnTheWay(img, names, names, ReadOf(img, img.root).value)
<1> DEFINE nd == ReadOf(img, img.root).value
           f == [k \in 0..0 |-> nd]
<1>1. f[0] = nd
  OBVIOUS
<1> HIDE DEF f
<1>2. Walk(img, names, 0, f)
  BY <1>1 DEF Walk
<1>3. 0 \in 0..Len(names) /\ Len(names) = Len(names) - 0
      /\ \A i \in 1..Len(names) : names[i] = names[0 + i]
  OBVIOUS
<1> QED
  BY <1>1, <1>2, <1>3 DEF OnTheWay

\* It is gone one name at a time.
LEMMA WayGoesOn ==
    ASSUME NEW img, NEW names, Len(names) \in Nat, NEW rest, IsSeq(rest), rest # << >>,
           NEW nd, OnTheWay(img, names, rest, nd), NEW to, StepTo(img, nd, Head(rest), to)
    PROVE  OnTheWay(img, names, Tail(rest), to)
<1>1. PICK d \in 0..Len(names) :
          /\ Len(rest) = Len(names) - d
          /\ \A i \in 1..Len(rest) : rest[i] = names[d + i]
          /\ \E f : Walk(img, names, d, f) /\ f[d] = nd
  BY DEF OnTheWay
<1>2. PICK f : Walk(img, names, d, f) /\ f[d] = nd
  BY <1>1
<1>3. /\ Len(rest) \in Nat \ {0} /\ Head(rest) = rest[1] /\ Len(Tail(rest)) = Len(rest) - 1
      /\ \A i \in 1..Len(Tail(rest)) : Tail(rest)[i] = rest[i + 1]
  <2>1. PICK S : rest \in Seq(S)
    BY DEF IsSeq
  <2>2. Len(rest) \in Nat /\ Len(rest) # 0
    BY <2>1, EmptySeq, LenProperties
  <2> QED
    BY <2>1, <2>2, HeadTailProperties
<1> DEFINE g == [k \in 0..(d + 1) |-> IF k = d + 1 THEN to ELSE f[k]]
<1>4. d \in Nat /\ d + 1 \in 0..Len(names)
  BY <1>1, <1>3
<1>5. g[d + 1] = to /\ \A k \in 0..d : g[k] = f[k]
  BY <1>4
<1> HIDE DEF g
<1>6. Walk(img, names, d + 1, g)
  <2>1. ASSUME NEW k \in 1..(d + 1) PROVE StepTo(img, g[k - 1], names[k], g[k])
    <3>1. CASE k = d + 1
      <4>1. k - 1 = d /\ d \in 0..d /\ 1 \in 1..Len(rest)
        BY <1>3, <1>4, <3>1
      <4>2. names[k] = Head(rest)
        BY <1>1, <1>3, <3>1, <4>1
      <4> QED
        BY <1>2, <1>5, <3>1, <4>1, <4>2
    <3>2. CASE k # d + 1
      <4>1. k \in 1..d /\ k \in 0..d /\ k - 1 \in 0..d
        BY <1>4, <3>2
      <4>2. StepTo(img, f[k - 1], names[k], f[k])
        BY <1>2, <4>1 DEF Walk
      <4> QED
        BY <1>5, <4>1, <4>2
    <3> QED
      BY <3>1, <3>2
  <2>2. ReadOf(img, img.root).ok /\ g[0] = ReadOf(img, img.root).value
    <3>1. 0 \in 0..d
      BY <1>4
    <3> QED
      BY <1>2, <1>5, <3>1 DEF Walk
  <2> QED
    BY <2>1, <2>2 DEF Walk
<1>7. Len(Tail(rest)) = Len(names) - (d + 1)
  BY <1>1, <1>3, <1>4
<1>8. \A i \in 1..Len(Tail(rest)) : Tail(rest)[i] = names[(d + 1) + i]
  <2> TAKE i \in 1..Len(Tail(rest))
  <2>1. i + 1 \in 1..Len(rest) /\ d + (i + 1) = (d + 1) + i
    BY <1>3, <1>4
  <2>2. Tail(rest)[i] = rest[i + 1] /\ rest[i + 1] = names[d + (i + 1)]
    BY <1>1, <1>3, <2>1
  <2> QED
    BY <2>1, <2>2
<1> QED
  BY <1>4, <1>5, <1>6, <1>7, <1>8 DEF OnTheWay

\* At the end of the way the names have led there.
LEMMA WayEnds ==
    ASSUME NEW img, NEW names, Len(names) \in Nat, NEW nd, NEW rest, Len(rest) = 0,
           OnTheWay(img, names, rest, nd)
    PROVE  Resolves(img, names, nd)
<1>1. PICK d \in 0..Len(names) :
          Len(rest) = Len(names) - d /\ \E f : Walk(img, names, d, f) /\ f[d] = nd
  BY DEF OnTheWay
<1>2. d = Len(names)
  BY <1>1
<1> QED
  BY <1>1, <1>2 DEF Resolves


\* What ls keeps of the entries o: each one's name, and the inode read for it.
KidsOf(img, o, kids) ==
    \A i \in 1..Len(kids) :
        /\ kids[i].name = o[i].name
        /\ ReadOf(img, o[i].inode_ref).ok
        /\ kids[i].inode = ReadOf(img, o[i].inode_ref).value

\* The names lead to a directory, and kids are its entries.
HasListed(img, names, kids) ==
    \E nd, o :
        /\ Resolves(img, names, nd)
        /\ ListedAs(img, nd, o)
        /\ Len(kids) = Len(o)
        /\ Len(o) \in Nat
        /\ KidsOf(img, o, kids)

\* A child of that name is in the list.
IsListed(kids, name) == \E j \in 1..Len(kids) : kids[j].name = name

\* A name that was listed leads to the inode it was first listed with.
LEMMA ListedLeads ==
    ASSUME NEW img, NEW names, IsSeq(names), NEW kids, HasListed(img, names, kids),
           NEW name, IsListed(kids, name)
    PROVE  Resolves(img, Append(names, name), FirstNamed(kids, name).inode)
<1>1. PICK nd, o : /\ Resolves(img, names, nd) /\ ListedAs(img, nd, o) /\ Len(kids) = Len(o)
                   /\ Len(o) \in Nat /\ KidsOf(img, o, kids)
  BY DEF HasListed
<1>a. PICK j \in 1..Len(kids) : kids[j].name = name
  BY DEF IsListed
<1>2. PICK f : Walk(img, names, Len(names), f) /\ f[Len(names)] = nd
  BY <1>1 DEF Resolves
<1> DEFINE to == FirstNamed(kids, name).inode
           all == Append(names, name)
           n == Len(names)
           M == Named(o, name)
           first == Min(M)
<1>3. /\ n \in Nat /\ Len(all) = n + 1 /\ all[n + 1] = name
      /\ \A i \in 1..n : all[i] = names[i]
  <2>1. PICK S : names \in Seq(S)
    BY DEF IsSeq
  <2>2. names \in Seq(S \cup {name})
    BY <2>1, SeqMonotonic
  <2> QED
    BY <2>2, AppendProperties, LenProperties
<1>4. M = Named(kids, name)
  BY <1>1 DEF Named, KidsOf
<1>5. first \in 1..Len(kids) /\ M # {}
  <2>1. j \in M /\ M \in SUBSET Nat /\ M \subseteq 1..Len(kids)
    BY <1>1, <1>4, <1>a DEF Named
  <2> HIDE DEF M
  <2>2. first \in M
    BY <2>1, LeastNumber
  <2> QED
    BY <2>1, <2>2
<1>6. FirstNamed(kids, name) = kids[first] /\ FirstNamed(o, name) = o[first]
  BY <1>4 DEF FirstNamed
<1>7. /\ ReadOf(img, o[first].inode_ref).ok
      /\ kids[first].inode = ReadOf(img, o[first].inode_ref).value
  <2> HIDE DEF first
  <2> QED
    BY <1>1, <1>5 DEF KidsOf
<1>8. StepTo(img, nd, name, to)
  BY <1>1, <1>5, <1>6, <1>7 DEF StepTo
<1> DEFINE g == [k \in 0..(n + 1) |-> IF k = n + 1 THEN to ELSE f[k]]
<1>9. g[n + 1] = to /\ \A k \in 0..n : g[k] = f[k]
  BY <1>3
<1> HIDE DEF g, to, all, M, first
<1>10. Walk(img, all, n + 1, g)
  <2>1. ASSUME NEW k \in 1..(n + 1) PROVE StepTo(img, g[k - 1], all[k], g[k])
    <3>1. CASE k = n + 1
      <4>1. k - 1 = n /\ n \in 0..n
        BY <1>3, <3>1
      <4>2. g[k - 1] = nd /\ all[k] = name /\ g[k] = to
        BY <1>2, <1>3, <1>9, <3>1, <4>1
      <4> QED
        BY <1>8, <4>2
    <3>2. CASE k # n + 1
      <4>1. k \in 1..n /\ k \in 0..n /\ k - 1 \in 0..n
        BY <1>3, <3>2
      <4>2. StepTo(img, f[k - 1], names[k], f[k])
        BY <1>2, <4>1 DEF Walk
      <4> QED
        BY <1>3, <1>9, <4>1, <4>2
    <3> QED
      BY <3>1, <3>2
  <2>2. ReadOf(img, img.root).ok /\ g[0] = ReadOf(img, img.root).value
    <3>1. 0 \in 0..n
      BY <1>3
    <3> QED
      BY <1>2, <1>9, <3>1 DEF Walk
  <2> QED
    BY <2>1, <2>2 DEF Walk
<1>11. Resolves(img, all, to)
  BY <1>3, <1>9, <1>10 DEF Resolves
<1> QED
  BY <1>11 DEF all, to

-----------------------------------------------------------------------------
(* A name put under a path is one component more.                          *)

\* The splitting of a path's bytes, as far as the bytes go.
Splitting(bytes, f) ==
    /\ f[0] = [names |-> << >>, name |-> << >>]
    /\ \A k \in 1..Len(bytes) : f[k] = SplitOn(bytes[k], f[k - 1])

SplitState == [names : Seq(Seq(Nat)), name : Seq(Nat)]

\* Components is that splitting at the path's end.
LEMMA ComponentsSplit ==
    ASSUME NEW bytes \in Seq(Nat)
    PROVE  \E f : /\ Splitting(bytes, f)
                  /\ Components(bytes) = Closed(f[Len(bytes)])
                  /\ \A k \in 0..Len(bytes) : f[k] \in SplitState
<1> DEFINE n == Len(bytes)
           D == SplitState
           z == [names |-> << >>, name |-> << >>]
           on(k, d) == IF k \in 1..n THEN SplitOn(bytes[k], d) ELSE d
           F == [kd \in Nat \X D |-> on(kd[1], kd[2])]
           P(x) == x = [k \in 0..n |-> IF k = 0 THEN z ELSE SplitOn(bytes[k], x[k - 1])]
           f == CHOOSE x : P(x)
<1>1. n \in Nat
  BY LenProperties
<1>2. z \in D
  BY DEF SplitState
<1>3. \A k \in Nat : \A d \in D : on(k, d) \in D
  <2> TAKE k \in Nat
  <2> TAKE d \in D
  <2>1. CASE k \in 1..n
    <3> DEFINE b == bytes[k]
    <3>1. b \in Nat
      BY <2>1, ElementOfSeq
    <3>2. d.names \in Seq(Seq(Nat)) /\ d.name \in Seq(Nat)
      BY DEF SplitState
    <3> HIDE DEF b
    <3>3. Closed(d) \in Seq(Seq(Nat))
      BY <3>2, AppendProperties DEF Closed
    <3>4. Append(d.name, b) \in Seq(Nat) /\ << >> \in Seq(Nat)
      BY <3>1, <3>2, AppendProperties
    <3>5. SplitOn(b, d) \in D
      BY <3>2, <3>3, <3>4 DEF SplitOn, SplitState
    <3> QED
      BY <2>1, <3>5 DEF b
  <2>2. CASE k \notin 1..n
    BY <2>2
  <2> QED
    BY <2>1, <2>2
<1>4. \A k \in Nat : \A d \in D : F[<<k, d>>] = on(k, d)
  <2> HIDE DEF D, on
  <2> QED
    OBVIOUS
<1>5. Components(bytes) = Closed(f[n])
  BY DEF Components
<1> HIDE DEF F, D, z, n, on
<1>6. \A k \in Nat : \A d \in D : F[<<k, d>>] \in D
  BY <1>3, <1>4
<1>7. PICK g : Recursion(g, D, F, z, n)
  BY <1>1, <1>2, <1>6, RecursionExists
<1>8. P(g)
  <2> DEFINE e(k) == IF k = 0 THEN z ELSE SplitOn(bytes[k], g[k - 1])
  <2>1. \A k \in 0..n : g[k] = e(k)
    <3> TAKE k \in 0..n
    <3>1. CASE k = 0
      BY <1>7, <3>1 DEF Recursion
    <3>2. CASE k # 0
      <4>1. k \in Nat /\ k \in 1..n /\ k - 1 \in 0..n
        BY <1>1, <3>2
      <4>2. g[k - 1] \in D /\ g[k] = F[<<k, g[k - 1]>>]
        BY <1>7, <4>1 DEF Recursion
      <4>3. on(k, g[k - 1]) = SplitOn(bytes[k], g[k - 1])
        BY <4>1 DEF on
      <4> QED
        BY <1>4, <3>2, <4>1, <4>2, <4>3
    <3> QED
      BY <3>1, <3>2
  <2>2. P(g) <=> g = [k \in 0..n |-> e(k)]
    BY Zenon
  <2>3. g = [k \in 0..n |-> g[k]]
    BY <1>7 DEF Recursion
  <2> HIDE DEF e, P
  <2>4. g = [k \in 0..n |-> e(k)]
    BY <2>1, <2>3
  <2> QED
    BY <2>2, <2>4
<1>9. P(f)
  <2> HIDE DEF P
  <2> QED
    BY <1>8
<1>10. \A k \in 0..n : f[k] = IF k = 0 THEN z ELSE SplitOn(bytes[k], f[k - 1])
  BY <1>9, Zenon
<1> HIDE DEF P, f
<1>11. \A k \in 1..n : f[k] = SplitOn(bytes[k], f[k - 1])
  <2> TAKE k \in 1..n
  <2>1. k \in 0..n /\ k # 0
    BY <1>1
  <2> QED
    BY <1>10, <2>1
<1>12. f[0] = z /\ f[0] \in D
  BY <1>1, <1>2, <1>10
<1>13. \A k \in 1..n : f[k - 1] \in D => f[k] = F[<<k, f[k - 1]>>]
  <2> TAKE k \in 1..n
  <2>1. k \in Nat
    BY <1>1
  <2>2. on(k, f[k - 1]) = SplitOn(bytes[k], f[k - 1])
    BY DEF on
  <2> QED
    BY <1>4, <1>11, <2>1, <2>2
<1>14. \A k \in 0..n : f[k] \in D
  BY <1>1, <1>6, <1>12, <1>13, RecursionStays
<1>15. Splitting(bytes, f)
  BY <1>11, <1>12 DEF Splitting, n, z
<1> QED
  BY <1>5, <1>14, <1>15 DEF n, D

\* So a path's components are names.
LEMMA ComponentsTyped == \A bytes \in Seq(Nat) : Components(bytes) \in Seq(Seq(Nat))
<1> TAKE bytes \in Seq(Nat)
<1>1. PICK f : /\ Components(bytes) = Closed(f[Len(bytes)])
               /\ \A k \in 0..Len(bytes) : f[k] \in SplitState
  BY ComponentsSplit
<1> DEFINE s == f[Len(bytes)]
<1>2. s \in SplitState
  BY <1>1, LenProperties
<1> HIDE DEF s
<1>3. s.names \in Seq(Seq(Nat)) /\ s.name \in Seq(Nat)
  BY <1>2 DEF SplitState
<1>4. Closed(s) \in Seq(Seq(Nat))
  BY <1>3, AppendProperties DEF Closed
<1> QED
  BY <1>1, <1>4 DEF s


\* A name that a listing may hand out, joined to a path, is the component
\* after the path's own.
LEMMA JoinedComponents ==
    ASSUME NEW bytes \in Seq(Nat), NEW name, GoodName(name)
    PROVE  Components(bytes \o <<Slash>> \o name) = Append(Components(bytes), name)
<1> DEFINE n == Len(bytes)
           m == Len(name)
           all == bytes \o <<Slash>> \o name
           N == Components(bytes)
<1>1. name \in Seq(Nat) /\ name # << >> /\ n \in Nat /\ m \in Nat /\ Slash \in Nat
  BY LenProperties DEF GoodName, Slash
<1>2. /\ all \in Seq(Nat) /\ Len(all) = n + 1 + m
      /\ \A k \in 1..n : all[k] = bytes[k]
      /\ all[n + 1] = Slash
      /\ \A j \in 1..m : all[n + 1 + j] = name[j]
  <2> DEFINE front == bytes \o <<Slash>>
  <2>1. <<Slash>> \in Seq(Nat) /\ Len(<<Slash>>) = 1 /\ <<Slash>>[1] = Slash
    BY <1>1
  <2>2. /\ front \in Seq(Nat) /\ Len(front) = n + 1
        /\ \A k \in 1..(n + 1) : front[k] = IF k <= n THEN bytes[k] ELSE <<Slash>>[k - n]
    <3> DEFINE slash == <<Slash>>
    <3>1. slash \in Seq(Nat) /\ Len(slash) = 1
      BY <2>1
    <3> HIDE DEF slash
    <3> QED
      BY <1>1, <3>1, ConcatProperties
  <2>3. (\A k \in 1..n : front[k] = bytes[k]) /\ front[n + 1] = Slash
    BY <1>1, <2>1, <2>2
  <2> HIDE DEF front
  <2>4. /\ front \o name \in Seq(Nat) /\ Len(front \o name) = n + 1 + m
        /\ \A k \in 1..(n + 1 + m) :
              (front \o name)[k] = IF k <= n + 1 THEN front[k] ELSE name[k - (n + 1)]
    <3>1. front \in Seq(Nat) /\ name \in Seq(Nat) /\ Len(front) = n + 1 /\ Len(name) = m
      BY <1>1, <2>2
    <3> HIDE DEF n, m
    <3>2. /\ front \o name \in Seq(Nat) /\ Len(front \o name) = Len(front) + Len(name)
          /\ \A k \in 1..(Len(front) + Len(name)) :
                (front \o name)[k] = IF k <= Len(front) THEN front[k] ELSE name[k - Len(front)]
      BY <3>1, ConcatProperties
    <3> QED
      BY <3>1, <3>2
  <2>5. \A k \in 1..n : (front \o name)[k] = bytes[k]
    <3> TAKE k \in 1..n
    <3>1. k \in 1..(n + 1 + m) /\ k <= n + 1
      BY <1>1
    <3> QED
      BY <2>3, <2>4, <3>1
  <2>6. (front \o name)[n + 1] = Slash
    <3>1. n + 1 \in 1..(n + 1 + m) /\ n + 1 <= n + 1
      BY <1>1
    <3> QED
      BY <2>3, <2>4, <3>1
  <2>7. \A j \in 1..m : (front \o name)[n + 1 + j] = name[j]
    <3> TAKE j \in 1..m
    <3>1. n + 1 + j \in 1..(n + 1 + m) /\ ~(n + 1 + j <= n + 1) /\ (n + 1 + j) - (n + 1) = j
      BY <1>1
    <3> QED
      BY <2>4, <3>1
  <2> QED
    BY <2>4, <2>5, <2>6, <2>7 DEF front
<1>3. PICK f : Splitting(bytes, f) /\ N = Closed(f[n])
  BY ComponentsSplit
<1> HIDE DEF all
<1>4. PICK g : Splitting(all, g) /\ Components(all) = Closed(g[Len(all)])
  BY <1>2, ComponentsSplit
<1> HIDE DEF N, n, m
<1>5. \A k \in 1..Len(all) : g[k] = SplitOn(all[k], g[k - 1])
  BY <1>4 DEF Splitting
<1>6. \A k \in Nat : k <= n => g[k] = f[k]
  <2> DEFINE T == {k \in Nat : k <= n => g[k] = f[k]}
  <2>1. 0 \in T
    BY <1>3, <1>4 DEF Splitting
  <2>2. ASSUME NEW k \in Nat, k \in T PROVE k + 1 \in T
    <3> SUFFICES ASSUME k + 1 <= n PROVE g[k + 1] = f[k + 1]
      OBVIOUS
    <3>1. g[k] = f[k]
      BY <1>1, <2>2
    <3>2. k + 1 \in 1..n /\ k + 1 \in 1..Len(all) /\ (k + 1) - 1 = k
      BY <1>1, <1>2
    <3>3. f[k + 1] = SplitOn(bytes[k + 1], f[k])
      BY <1>3, <3>2 DEF Splitting, n
    <3>4. g[k + 1] = SplitOn(all[k + 1], g[k])
      BY <1>5, <3>2
    <3> QED
      BY <1>2, <3>1, <3>2, <3>3, <3>4
  <2>3. Nat \subseteq T
    <3> HIDE DEF T
    <3> QED
      BY <2>1, <2>2, SetInduction
  <2> QED
    BY <2>3
<1>7. g[n + 1] = [names |-> N, name |-> << >>]
  <2>1. n + 1 \in 1..Len(all) /\ (n + 1) - 1 = n /\ n <= n
    BY <1>1, <1>2
  <2>2. g[n + 1] = SplitOn(Slash, g[n])
    BY <1>2, <1>5, <2>1
  <2>3. g[n] = f[n]
    BY <1>1, <1>6, <2>1
  <2> QED
    BY <1>3, <2>2, <2>3 DEF SplitOn
<1>8. \A j \in Nat : j <= m => g[n + 1 + j] = [names |-> N, name |-> SubSeq(name, 1, j)]
  <2> DEFINE G(j) == g[n + 1 + j] = [names |-> N, name |-> SubSeq(name, 1, j)]
             T == {j \in Nat : j <= m => G(j)}
  <2>1. 0 \in T
    <3>1. SubSeq(name, 1, 0) = << >>
      BY SubSeqEmpty
    <3>2. n + 1 + 0 = n + 1
      BY <1>1
    <3> QED
      BY <1>7, <3>1, <3>2
  <2>2. ASSUME NEW j \in Nat, j \in T PROVE j + 1 \in T
    <3> SUFFICES ASSUME j + 1 <= m PROVE G(j + 1)
      OBVIOUS
    <3> DEFINE at == n + 1 + j
               so == SubSeq(name, 1, j)
    <3>1. g[at] = [names |-> N, name |-> so]
      BY <1>1, <2>2
    <3>2. at + 1 \in 1..Len(all) /\ (at + 1) - 1 = at /\ n + 1 + (j + 1) = at + 1
          /\ j + 1 \in 1..m
      BY <1>1, <1>2
    <3>3. all[at + 1] = name[j + 1]
      BY <1>2, <3>2
    <3>4. name[j + 1] # Slash
      <4>1. name[j + 1] \in Range(name)
        BY <1>1, <3>2 DEF Range, m
      <4> QED
        BY <4>1 DEF GoodName
    <3>5. g[at + 1] = SplitOn(name[j + 1], g[at])
      BY <1>5, <3>2, <3>3
    <3>6. SubSeq(name, 1, j + 1) = Append(so, name[j + 1])
      <4>1. /\ name \in Seq(Nat) /\ 1 \in Nat \ {0} /\ 1 <= j + 1 /\ j <= j + 1
            /\ j + 1 <= Len(name)
        BY <1>1 DEF m
      <4>2. SubSeq(name, 1, j + 1) = SubSeq(name, 1, j) \o SubSeq(name, j + 1, j + 1)
        BY <4>1, TakenOn
      <4>3. SubSeq(name, j + 1, j + 1) = <<name[j + 1]>>
        <5> DEFINE s == SubSeq(name, j + 1, j + 1)
                   b == name[j + 1]
        <5>1. j + 1 \in Nat \ {0} /\ ((j + 1) - (j + 1)) + 1 = 1 /\ ((j + 1) + 1) - 1 = j + 1
          OBVIOUS
        <5>2. s \in Seq(Nat) /\ Len(s) = 1 /\ s[1] = b
          <6>1. /\ s \in Seq(Nat) /\ Len(s) = ((j + 1) - (j + 1)) + 1
                /\ \A i \in 1..(((j + 1) - (j + 1)) + 1) : s[i] = name[((j + 1) + i) - 1]
            BY <4>1, <5>1, CellsBetween
          <6> HIDE DEF s
          <6> QED
            BY <5>1, <6>1
        <5>3. b \in Nat
          BY <3>2, <4>1, ElementOfSeq DEF m
        <5> HIDE DEF s, b
        <5>4. <<b>> \in Seq(Nat) /\ Len(<<b>>) = 1 /\ <<b>>[1] = b
          BY <5>3
        <5> DEFINE t == <<b>>
        <5>5. t \in Seq(Nat) /\ Len(t) = 1 /\ t[1] = b
          BY <5>4
        <5> HIDE DEF t
        <5>6. s = t
          BY <5>2, <5>5, SeqEqual
        <5> QED
          BY <5>6 DEF s, t, b
      <4>4. so \in Seq(Nat) /\ name[j + 1] \in Nat
        <5>1. j <= Len(name) /\ j + 1 \in 1..Len(name)
          BY <1>1, <4>1, <3>2 DEF m
        <5> QED
          BY <4>1, <5>1, CellsBetween, ElementOfSeq
      <4> HIDE DEF so
      <4>5. Append(so, name[j + 1]) = so \o <<name[j + 1]>>
        BY <4>4, AppendIsConcat
      <4> QED
        BY <4>2, <4>3, <4>5 DEF so
    <3> HIDE DEF at, so
    <3>7. g[at + 1] = [names |-> N, name |-> SubSeq(name, 1, j + 1)]
      <4> DEFINE b == name[j + 1]
                 r == g[at]
      <4>1. b # Slash /\ g[at + 1] = SplitOn(b, r) /\ r.names = N /\ r.name = so
        BY <3>1, <3>4, <3>5
      <4> HIDE DEF b, r
      <4>2. SplitOn(b, r) = [names |-> r.names, name |-> Append(r.name, b)]
        BY <4>1, Zenon DEF SplitOn
      <4>3. g[at + 1] = [names |-> N, name |-> Append(so, b)]
        BY <4>1, <4>2
      <4> QED
        BY <3>6, <4>3 DEF b
    <3> QED
      BY <3>2, <3>7
  <2>3. Nat \subseteq T
    <3> HIDE DEF T
    <3> QED
      BY <2>1, <2>2, SetInduction
  <2> QED
    BY <2>3
<1>9. g[Len(all)] = [names |-> N, name |-> name]
  <2>1. m <= m /\ Len(all) = n + 1 + m /\ SubSeq(name, 1, m) = name
    BY <1>1, <1>2, SubSeqFull DEF m
  <2> QED
    BY <1>1, <1>8, <2>1
<1>10. Components(all) = Append(N, name)
  BY <1>1, <1>4, <1>9 DEF Closed
<1> QED
  BY <1>10 DEF all, N


-----------------------------------------------------------------------------
(* A name that was handed out resolves when it is handed back.             *)

\* The components of the path asked about.
Full == Components(request.path.bytes)

\* Where a question is: on the way its components lead.
OnItsWay ==
    /\ pc \in {"idle", "root", "walk", "listing", "set"}
    /\ request.kind # "none" => request.path.bytes \in Seq(Nat)
    /\ pc # "idle" => request.kind # "none" /\ answer = Nothing
    /\ pc = "root" => comps = Full
    /\ pc \in {"walk", "listing"} => IsSeq(comps) /\ OnTheWay(image, Full, comps, node)
    /\ pc = "set" => AsksXattrs

\* What is being listed is the directory the question has reached, and the
\* children read are its entries'.
OfItsNode ==
    /\ pc = "listing" =>
           /\ IsDir(node)
           /\ comps = << >> => Lists
           /\ ListingOf(image, node).ok
           /\ buf = ListingOf(image, node).value
           /\ parse # "idle"
           /\ IsSeq(children)
           /\ Len(children) <= Len(out)
           /\ KidsOf(image, out, children)
           /\ children # << >> => parse = "parsed" /\ comps = << >>
    /\ pc # "listing" => parse = "idle" /\ children = << >>

\* What an export listed, and the inode a name it hands back was listed with.
Keeps ==
    /\ request.kind = "tree_dir" /\ answer # Nothing /\ answer.ok =>
           /\ HasListed(image, Full, answer.value)
           /\ \A i \in 1..Len(answer.value) : GoodName(answer.value[i].name)
    /\ handed # Nothing => request.kind = "link" /\ Resolves(image, Full, handed)

Resolving == QueryTyped /\ ParseProgress /\ OnItsWay /\ OfItsNode

\* Reading an inode and a listing are the same of the image that is mounted.
LEMMA OfTheImage ==
    /\ \A ref : ReadInode(ref) = ReadOf(image, ref)
    /\ Listing = ListingOf(image, node)
BY DEF ReadInode, ReadOf, Listing, ListingOf

\* A listing that was parsed is the node's.
LEMMA ListedIsNodes ==
    ASSUME Resolving, Listed
    PROVE  ListedAs(image, node, out)
<1>1. ParsesTo(buf, out)
  BY ProgressEnds DEF Resolving, Listed, QueryTyped
<1>2. /\ IsDir(node) /\ ListingOf(image, node).ok /\ buf = ListingOf(image, node).value
      /\ buf \in Seq(Nat)
  BY DEF Resolving, OfItsNode, Listed, QueryTyped, ListingTyped
<1>3. Len(buf) \in Nat
  BY <1>2, LenProperties
<1> QED
  BY <1>1, <1>2, <1>3 DEF ListedAs

\* A question that is under way has components.
LEMMA ItsComponents ==
    ASSUME Resolving, request.kind # "none"
    PROVE  Full \in Seq(Seq(Nat)) /\ IsSeq(Full) /\ Len(Full) \in Nat
<1>1. Full \in Seq(Seq(Nat))
  BY ComponentsTyped DEF Resolving, OnItsWay, Full
<1> QED
  BY <1>1, LenProperties DEF IsSeq

\* A step of the parse leaves the question where it is: no child is read
\* before the parse is over.
LEMMA ParseKeepsNode ==
    ASSUME Resolving, ParseListing, QueryTyped'
    PROVE  OnItsWay' /\ OfItsNode'
<1>1. UNCHANGED <<image, pc, request, comps, node, children, answer>> /\ ParseStep
  BY DEF ParseListing, requestVars
<1>2. parse = "parsing" /\ parse' # "idle" /\ buf' = buf
  BY <1>1 DEF ParseStep, ParseHeader, RefuseHeader, ParseEntry, RefuseEntry, ParseDone, Refuse,
              BetweenRuns, InRun
<1>3. OnItsWay'
  BY <1>1, Zenon DEF Resolving, OnItsWay, Full, AsksXattrs
<1>4. pc = "listing" /\ children = << >>
  BY <1>2 DEF Resolving, OfItsNode
<1>5. Len(children) = 0 /\ Len(out') \in Nat
  <2>1. out' \in Seq(EntryType)
    BY DEF QueryTyped, ListingTyped
  <2> QED
    BY <1>4, <2>1, LenProperties
<1>6. KidsOf(image, out, children)'
  BY <1>1, <1>5 DEF KidsOf
<1>7. Lists' = Lists
  BY <1>1 DEF Lists
<1>8. OfItsNode'
  <2>1. Len(children') <= Len(out') /\ children' = << >> /\ pc' = "listing"
    BY <1>1, <1>4, <1>5
  <2>2. /\ IsDir(node') /\ ListingOf(image', node').ok /\ buf' = ListingOf(image', node').value
        /\ IsSeq(children') /\ (comps' = << >> => Lists')
    BY <1>1, <1>2, <1>4, <1>7 DEF Resolving, OfItsNode
  <2> QED
    BY <1>2, <1>6, <2>1, <2>2 DEF OfItsNode
<1> QED
  BY <1>3, <1>8

\* The bytes of a path that a name was joined to.
LEMMA JoinedBytes ==
    ASSUME NEW bytes \in Seq(Nat), NEW name \in Seq(Nat)
    PROVE  bytes \o <<Slash>> \o name \in Seq(Nat)
<1> DEFINE slash == <<Slash>>
<1>1. slash \in Seq(Nat)
  BY DEF Slash
<1> HIDE DEF slash
<1>2. bytes \o slash \in Seq(Nat)
  BY <1>1, ConcatProperties
<1>3. bytes \o slash \o name \in Seq(Nat)
  BY <1>2, ConcatProperties
<1> QED
  BY <1>3 DEF slash

\* An answer ends the question.
LEMMA AnswerEnds ==
    ASSUME Resolving, NEW a, Answer(a), UNCHANGED <<image, request>>
    PROVE  OnItsWay' /\ OfItsNode'
<1>1. pc' = "idle" /\ children' = << >> /\ parse' = "idle"
  BY DEF Answer, SetListing
<1>2. request.kind # "none" => request.path.bytes \in Seq(Nat)
  BY DEF Resolving, OnItsWay
<1> QED
  BY <1>1, <1>2 DEF OnItsWay, OfItsNode

\* Asking about a path begins at the root.
LEMMA EnterBegins ==
    ASSUME Resolving, NEW r, Enter(r), r.path.bytes \in Seq(Nat), r.kind # "none"
    PROVE  OnItsWay' /\ OfItsNode'
<1>1. /\ request' = r /\ pc' = "root" /\ comps' = Components(r.path.bytes) /\ answer' = Nothing
      /\ pc = "idle" /\ UNCHANGED <<children, listingVars>>
  BY DEF Enter
<1>2. parse = "idle" /\ children = << >>
  BY <1>1 DEF Resolving, OfItsNode
<1>3. OnItsWay'
  BY <1>1 DEF OnItsWay, Full
<1>4. OfItsNode'
  BY <1>1, <1>2 DEF OfItsNode, listingVars
<1> QED
  BY <1>3, <1>4

\* The root is read: all of the components are to follow.
LEMMA RootOnItsWay ==
    ASSUME Resolving, ReadRoot, ReadInode(image.root).ok, node' = ReadInode(image.root).value,
           pc' = "walk", UNCHANGED <<comps, children, answer, listingVars>>
    PROVE  OnItsWay' /\ OfItsNode'
<1>1. UNCHANGED <<image, request>> /\ pc = "root"
  BY DEF ReadRoot
<1>2. /\ request.kind # "none" /\ request.path.bytes \in Seq(Nat) /\ answer = Nothing
      /\ comps = Full /\ parse = "idle" /\ children = << >>
  BY <1>1 DEF Resolving, OnItsWay, OfItsNode
<1>3. IsSeq(Full) /\ Len(Full) \in Nat
  BY <1>2, ItsComponents
<1>4. OnTheWay(image, Full, Full, node')
  <2>1. ReadOf(image, image.root).ok /\ node' = ReadOf(image, image.root).value
    BY OfTheImage
  <2> QED
    BY <1>3, <2>1, WayBegins
<1>5. Full' = Full
  BY <1>1 DEF Full
<1>6. OnItsWay'
  BY <1>1, <1>2, <1>3, <1>4, <1>5 DEF OnItsWay
<1>7. OfItsNode'
  BY <1>2 DEF OfItsNode, listingVars
<1> QED
  BY <1>6, <1>7

\* A directory's cells are read: the listing is the node's, and nothing of
\* it is parsed.
LEMMA ListingOnItsWay ==
    ASSUME Resolving, QueryTyped', ReadDir, Listing.ok, pc' = "listing",
           SetListing(Listing.value, IF Listing.value = << >> THEN "parsed" ELSE "parsing"),
           UNCHANGED <<comps, node, children, answer>>
    PROVE  OnItsWay' /\ OfItsNode'
<1>1. /\ UNCHANGED <<image, request>> /\ pc = "walk" /\ IsDir(node)
      /\ comps = << >> => Lists
  BY DEF ReadDir, AboutToList
<1>2. /\ request.kind # "none" /\ request.path.bytes \in Seq(Nat) /\ answer = Nothing
      /\ IsSeq(comps) /\ OnTheWay(image, Full, comps, node) /\ children = << >>
  BY <1>1 DEF Resolving, OnItsWay, OfItsNode
<1>3. Full' = Full /\ Lists' = Lists
  BY <1>1 DEF Full, Lists
<1>4. OnItsWay'
  BY <1>1, <1>2, <1>3 DEF OnItsWay
<1>5. buf' = Listing.value /\ parse' \in {"parsed", "parsing"}
  BY DEF SetListing
<1>6. ListingOf(image', node').ok /\ buf' = ListingOf(image', node').value
  BY <1>1, <1>5, OfTheImage
<1>7. /\ Len(children') = 0 /\ Len(out') \in Nat /\ IsSeq(children')
  <2>1. out' \in Seq(EntryType)
    BY DEF QueryTyped, ListingTyped
  <2>2. Len(children') = 0
    BY <1>2
  <2> QED
    BY <1>2, <2>1, <2>2, LenProperties, NothingIsSeq
<1>8. KidsOf(image, out, children)'
  BY <1>7 DEF KidsOf
<1>9. OfItsNode'
  <2>1. Len(children') <= Len(out') /\ children' = << >> /\ IsDir(node')
        /\ (comps' = << >> => Lists') /\ parse' # "idle"
    BY <1>1, <1>2, <1>3, <1>5, <1>7
  <2> QED
    BY <1>6, <1>7, <1>8, <2>1 DEF OfItsNode
<1> QED
  BY <1>4, <1>9

\* The entry a component matches is where it leads.
LEMMA MatchLeads ==
    ASSUME Resolving, Listed, comps # << >>, Matches # {},
           ReadInode(FirstNamed(out, Head(comps)).inode_ref).ok
    PROVE  StepTo(image, node, Head(comps), ReadInode(FirstNamed(out, Head(comps)).inode_ref).value)
<1>1. ListedAs(image, node, out)
  BY ListedIsNodes
<1> QED
  BY <1>1, OfTheImage DEF StepTo, Matches

\* A component is looked up: the rest is to follow from where it leads.
LEMMA LookupOnItsWay ==
    ASSUME Resolving, Lookup, ReadInode(FirstNamed(out, Head(comps)).inode_ref).ok,
           node' = ReadInode(FirstNamed(out, Head(comps)).inode_ref).value,
           comps' = Tail(comps), pc' = "walk", SetListing(<< >>, "idle"),
           UNCHANGED <<children, answer>>
    PROVE  OnItsWay' /\ OfItsNode'
<1>1. UNCHANGED <<image, request>> /\ Listed /\ comps # << >> /\ Matches # {} /\ pc = "listing"
  BY DEF Lookup, Listed
<1>2. /\ request.kind # "none" /\ request.path.bytes \in Seq(Nat) /\ answer = Nothing
      /\ IsSeq(comps) /\ OnTheWay(image, Full, comps, node)
  BY <1>1 DEF Resolving, OnItsWay
<1>3. children = << >>
  BY <1>1 DEF Resolving, OfItsNode
<1>4. StepTo(image, node, Head(comps), node')
  BY <1>1, MatchLeads
<1>5. OnTheWay(image, Full, Tail(comps), node')
  BY <1>1, <1>2, <1>4, ItsComponents, WayGoesOn
<1>6. IsSeq(Tail(comps))
  <2>1. PICK S : comps \in Seq(S)
    BY <1>2 DEF IsSeq
  <2>2. Tail(comps) \in Seq(S)
    BY <1>1, <2>1, HeadTailProperties
  <2> QED
    BY <2>2 DEF IsSeq
<1>7. Full' = Full /\ parse' = "idle"
  BY <1>1 DEF Full, SetListing
<1>8. OnItsWay'
  BY <1>1, <1>2, <1>5, <1>6, <1>7 DEF OnItsWay
<1>9. OfItsNode'
  BY <1>3, <1>7 DEF OfItsNode
<1> QED
  BY <1>8, <1>9

\* A child is read: it is the next entry's.
LEMMA ChildOfItsNode ==
    ASSUME Resolving, AboutToReadChild, ReadInode(out[Len(children) + 1].inode_ref).ok,
           children' = Append(children, [name |-> out[Len(children) + 1].name,
                                         inode |-> ReadInode(out[Len(children) + 1].inode_ref).value]),
           UNCHANGED <<image, request, pc, comps, node, answer, listingVars>>
    PROVE  OnItsWay' /\ OfItsNode'
<1> DEFINE e == out[Len(children) + 1]
           kid == [name |-> e.name, inode |-> ReadInode(e.inode_ref).value]
           n == Len(children)
<1>1. Listed /\ comps = << >> /\ n < Len(out) /\ pc = "listing" /\ parse = "parsed"
  BY DEF AboutToReadChild, Listed
<1>2. /\ IsDir(node) /\ Lists /\ ListingOf(image, node).ok /\ buf = ListingOf(image, node).value
      /\ IsSeq(children) /\ KidsOf(image, out, children)
  BY <1>1 DEF Resolving, OfItsNode
<1>3. out \in Seq(EntryType) /\ Len(out) \in Nat
  BY LenProperties DEF Resolving, QueryTyped, ListingTyped
<1>4. /\ n \in Nat /\ Len(children') = n + 1 /\ children'[n + 1] = kid
      /\ \A i \in 1..n : children'[i] = children[i]
      /\ IsSeq(children')
  <2>1. PICK S : children \in Seq(S)
    BY <1>2 DEF IsSeq
  <2> DEFINE T == S \cup {kid}
  <2>2. children \in Seq(T) /\ kid \in T
    BY <2>1, SeqMonotonic
  <2> HIDE DEF T, kid, e
  <2>3. children' = Append(children, kid)
    BY DEF kid, e
  <2> QED
    BY <2>2, <2>3, AppendProperties, LenProperties DEF IsSeq
<1>5. ReadOf(image, e.inode_ref).ok /\ kid.inode = ReadOf(image, e.inode_ref).value /\ kid.name = e.name
  BY OfTheImage
<1> HIDE DEF kid
<1>6. KidsOf(image, out, children')
  <2> SUFFICES ASSUME NEW i \in 1..Len(children')
               PROVE  /\ children'[i].name = out[i].name
                      /\ ReadOf(image, out[i].inode_ref).ok
                      /\ children'[i].inode = ReadOf(image, out[i].inode_ref).value
    BY DEF KidsOf
  <2>1. CASE i = n + 1
    BY <1>4, <1>5, <2>1
  <2>2. CASE i # n + 1
    <3>1. i \in 1..n
      BY <1>4, <2>2
    <3> QED
      BY <1>2, <1>4, <3>1 DEF KidsOf
  <2> QED
    BY <2>1, <2>2
<1>7. Len(children') <= Len(out)
  BY <1>1, <1>3, <1>4
<1>8. OnItsWay'
  BY DEF Resolving, OnItsWay, Full, AsksXattrs
<1>9. KidsOf(image, out, children)' /\ Lists' = Lists /\ parse' = parse /\ buf' = buf /\ out' = out
  BY <1>6 DEF KidsOf, listingVars, Lists
<1>10. OfItsNode'
  BY <1>1, <1>2, <1>4, <1>7, <1>9 DEF OfItsNode
<1> QED
  BY <1>8, <1>10

\* Every step keeps a question on its way.
LEMMA ResolvingStep ==
    ASSUME Resolving, Keeps, [Next]_vars
    PROVE  Resolving'
<1>1. QueryTyped' /\ ListingEffect
  BY QueryStep DEF Resolving
<1>2. ParseProgress'
  BY <1>1, EffectProgress DEF Resolving, QueryTyped
<1>3. SUFFICES OnItsWay' /\ OfItsNode'
  BY <1>1, <1>2 DEF Resolving
<1>4. ASSUME UNCHANGED <<image, request, pc, comps, node, children, answer, listingVars>>
      PROVE  OnItsWay' /\ OfItsNode'
  <2>1. OnItsWay'
    BY <1>4 DEF Resolving, OnItsWay, Full, AsksXattrs
  <2>2. OfItsNode'
    BY <1>4 DEF Resolving, OfItsNode, Lists, KidsOf, listingVars
  <2> QED
    BY <2>1, <2>2
<1>5. ASSUME NEW r \in Requests, Ask(r) PROVE OnItsWay' /\ OfItsNode'
  <2>1. r.path.bytes \in Seq(Nat) /\ r.kind # "none"
    BY PathsAssumption DEF Requests, Whole
  <2> QED
    BY <1>5, <2>1, EnterBegins DEF Ask
<1>6. ASSUME NEW r \in Requests, ReadRemembered(r) PROVE OnItsWay' /\ OfItsNode'
  <2>1. r.path.bytes \in Seq(Nat)
    BY PathsAssumption DEF Requests
  <2>2. /\ pc = "idle" /\ pc' = "idle" /\ request' = r
        /\ UNCHANGED <<children, listingVars>>
    BY <1>6 DEF ReadRemembered
  <2> QED
    BY <2>1, <2>2 DEF Resolving, OnItsWay, OfItsNode, listingVars
<1>7. CASE AskListed
  <2>1. PICK i \in 1..Len(answer.value) :
            Enter([kind |-> "link", path |-> Joined(request.path, answer.value[i].name),
                   name |-> Nothing])
    BY <1>7, Zenon DEF AskListed
  <2> DEFINE name == answer.value[i].name
             r == [kind |-> "link", path |-> Joined(request.path, name), name |-> Nothing]
  <2>2. name \in Seq(Nat)
    <3>1. request.kind = "tree_dir" /\ answer # Nothing /\ answer.ok
      BY <1>7, Zenon DEF AskListed
    <3>2. GoodName(name)
      BY <2>1, <3>1 DEF Keeps
    <3> QED
      BY <3>2, Zenon DEF GoodName
  <2>3. request.path.bytes \in Seq(Nat)
    <3>1. request.kind # "none"
      BY <1>7, Zenon DEF AskListed
    <3> QED
      BY <3>1, Zenon DEF Resolving, OnItsWay
  <2>4. r.path.bytes = request.path.bytes \o <<Slash>> \o name /\ r.kind # "none"
    BY DEF Joined
  <2> HIDE DEF name
  <2>5. r.path.bytes \in Seq(Nat)
    BY <2>2, <2>3, <2>4, JoinedBytes
  <2>6. Enter(r)
    BY <2>1 DEF name
  <2> HIDE DEF r
  <2> QED
    BY <2>4, <2>5, <2>6, EnterBegins
<1>8. CASE ReadRoot
  BY <1>8, AnswerEnds, RootOnItsWay DEF ReadRoot
<1>9. CASE ReadDir
  BY <1>1, <1>9, AnswerEnds, ListingOnItsWay DEF ReadDir
<1>10. CASE ParseListing
  BY <1>1, <1>10, ParseKeepsNode
<1>11. CASE Lookup
  BY <1>11, AnswerEnds, LookupOnItsWay DEF Lookup
<1>12. CASE ReadChild
  BY <1>12, AnswerEnds, ChildOfItsNode DEF ReadChild
<1>13. CASE ReadSet
  <2>1. CASE Answer(Damaged) /\ UNCHANGED <<image, request>>
    BY <2>1, AnswerEnds
  <2>2. CASE pc' = "set" /\ UNCHANGED <<image, request, comps, node, children, answer, listingVars>>
    BY <1>13, <2>2 DEF Resolving, OnItsWay, OfItsNode, ReadSet, AboutToReadSet, Found, AsksXattrs,
                       listingVars
  <2> QED
    BY <1>13, <2>1, <2>2 DEF ReadSet
<1>14. CASE ParseSet
  BY <1>4, <1>14 DEF ParseSet, requestVars
<1>15. CASE NotADirectory \/ ListingRefused \/ LookupMisses \/ DeviceFails \/ AnswerListing
  BY <1>15, AnswerEnds DEF NotADirectory, ListingRefused, LookupMisses, DeviceFails, AnswerListing
<1>16. CASE AnswerLsFile \/ AnswerStat \/ AnswerLink \/ AnswerReadAt \/ NoXattrs \/ AnswerSet
  BY <1>16, AnswerEnds, Zenon
  DEF AnswerLsFile, AnswerStat, AnswerLink, AnswerReadAt, NoXattrs, AnswerSet
<1>17. CASE UNCHANGED vars
  BY <1>4, <1>17 DEF vars, requestVars
<1> QED
  BY <1>5, <1>6, <1>7, <1>8, <1>9, <1>10, <1>11, <1>12, <1>13, <1>14, <1>15, <1>16, <1>17, Zenon
  DEF Next

\* What is known of every state, and the property itself.
HandsBack == Resolving /\ Keeps /\ HandedBackResolves

\* A question that asks again, or fails, keeps what was handed out.
LEMMA AskedAgain ==
    ASSUME HandsBack, handed' = Nothing, request'.kind # "tree_dir" \/ answer' = Nothing
    PROVE  Keeps' /\ HandedBackResolves'
BY DEF Keeps, HandedBackResolves

\* A name that was handed back is on a way that leads to its inode.
LEMMA HandedLeads ==
    ASSUME HandsBack, handed # Nothing
    PROVE  /\ request.kind = "link" /\ ~Lists /\ ~AsksXattrs
           /\ ReadOf(image, image.root).ok
           /\ pc \in {"walk", "listing"} /\ comps = << >> => node = handed
           /\ pc \in {"walk", "listing"} /\ comps # << >> =>
                  \E to : StepTo(image, node, Head(comps), to)
<1>1. request.kind = "link" /\ Resolves(image, Full, handed)
  BY DEF HandsBack, Keeps
<1>2. ~Lists /\ ~AsksXattrs
  BY <1>1 DEF Lists, AsksXattrs
<1>3. Len(Full) \in Nat
  BY <1>1, ItsComponents DEF HandsBack
<1>4. ReadOf(image, image.root).ok
  BY <1>1 DEF Resolves, Walk
<1>5. ASSUME pc \in {"walk", "listing"}
      PROVE  /\ Len(comps) = 0 => node = handed
             /\ Len(comps) # 0 => \E to : StepTo(image, node, comps[1], to)
             /\ Len(comps) = 0 <=> comps = << >>
             /\ comps # << >> => Head(comps) = comps[1]
  <2>1. IsSeq(comps) /\ OnTheWay(image, Full, comps, node)
    BY <1>5 DEF HandsBack, Resolving, OnItsWay
  <2>2. PICK S : comps \in Seq(S)
    BY <2>1 DEF IsSeq
  <2>3. (Len(comps) = 0 <=> comps = << >>) /\ (comps # << >> => Head(comps) = comps[1])
    BY <2>2, EmptySeq, HeadTailProperties
  <2>4. /\ Len(comps) = 0 => node = handed
        /\ Len(comps) # 0 => \E to : StepTo(image, node, comps[1], to)
    <3>1. Resolves(image, Full, handed) /\ OnTheWay(image, Full, comps, node)
      BY <1>1, <2>1
    <3>2. LeadsOn(image, node, comps, handed)
      BY <1>3, <3>1, WayLeads
    <3> QED
      BY <3>2 DEF LeadsOn
  <2> QED
    BY <2>3, <2>4
<1> QED
  BY <1>1, <1>2, <1>4, <1>5

\* An answer that is an error keeps what was handed out, unless it is the
\* answer about a name handed back.
LEMMA ErrorKeeps ==
    ASSUME HandsBack, NEW a, Answer(a), ~a.ok, UNCHANGED <<image, request, handed>>,
           handed = Nothing \/ a = Err("device")
    PROVE  Keeps' /\ HandedBackResolves'
<1>1. answer' = a
  BY DEF Answer
<1>2. Full' = Full
  BY DEF Full
<1>3. Keeps'
  BY <1>1, <1>2 DEF HandsBack, Keeps
<1>4. HandedBackResolves'
  BY <1>1 DEF HandedBackResolves, Answered
<1> QED
  BY <1>3, <1>4

\* Another kind of question has handed out nothing, and nothing back.
LEMMA OthersKeep ==
    ASSUME HandsBack, UNCHANGED <<image, request, handed>>,
           request.kind \notin {"tree_dir", "link"}
    PROVE  Keeps' /\ HandedBackResolves'
<1>1. handed = Nothing
  BY DEF HandsBack, Keeps
<1> QED
  BY <1>1 DEF Keeps, HandedBackResolves

\* A directory was listed: its entries' names are names, and lead to the
\* inodes they are listed with.
LEMMA ListingKeeps ==
    ASSUME HandsBack, Listed, comps = << >>, request.kind = "tree_dir",
           Len(children) = Len(out), answer' = Ok(children), UNCHANGED <<image, request, handed>>
    PROVE  Keeps' /\ HandedBackResolves'
<1>1. pc = "listing" /\ parse = "parsed"
  BY DEF Listed
<1>2. OnTheWay(image, Full, comps, node) /\ KidsOf(image, out, children) /\ Len(comps) = 0
  BY <1>1 DEF HandsBack, Resolving, OnItsWay, OfItsNode
<1>3. Resolves(image, Full, node)
  BY <1>2, ItsComponents, WayEnds DEF HandsBack
<1>4. ListedAs(image, node, out)
  BY ListedIsNodes DEF HandsBack
<1>5. Len(out) \in Nat
  BY LenProperties DEF HandsBack, Resolving, QueryTyped, ListingTyped
<1>6. HasListed(image, Full, children)
  BY <1>2, <1>3, <1>4, <1>5 DEF HasListed
<1>7. \A i \in 1..Len(children) : GoodName(children[i].name)
  BY <1>2 DEF KidsOf, HandsBack, Resolving, ParseProgress
<1>8. answer'.value = children /\ Full' = Full
  BY DEF Ok, Full
<1>9. handed' = Nothing
  BY DEF HandsBack, Keeps
<1>10. Keeps'
  BY <1>6, <1>7, <1>8, <1>9 DEF Keeps
<1> QED
  BY <1>9, <1>10 DEF HandedBackResolves

\* A name that was listed is handed back: its path leads to its inode.
LEMMA AskListedKeeps ==
    ASSUME HandsBack, AskListed
    PROVE  Keeps' /\ HandedBackResolves'
<1>1. /\ request.kind = "tree_dir" /\ HasListed(image, Full, answer.value)
      /\ \A i \in 1..Len(answer.value) : GoodName(answer.value[i].name)
  BY DEF AskListed, HandsBack, Keeps
<1>2. PICK i \in 1..Len(answer.value) :
          /\ Enter([kind |-> "link", path |-> Joined(request.path, answer.value[i].name),
                    name |-> Nothing])
          /\ handed' = FirstNamed(answer.value, answer.value[i].name).inode
  BY Zenon DEF AskListed
<1> DEFINE name == answer.value[i].name
           bytes == request.path.bytes
<1>3. GoodName(name) /\ bytes \in Seq(Nat) /\ IsSeq(Full)
  <2>1. request.kind # "none" /\ Resolving
    BY <1>1 DEF HandsBack
  <2>2. bytes \in Seq(Nat)
    BY <2>1 DEF Resolving, OnItsWay
  <2>3. IsSeq(Full)
    BY <2>1, ItsComponents
  <2>4. GoodName(name)
    BY <1>1
  <2> QED
    BY <2>2, <2>3, <2>4
<1>4. Resolves(image, Append(Full, name), handed')
  <2> DEFINE kids == answer.value
             names == Full
             img == image
  <2>1. IsSeq(names) /\ HasListed(img, names, kids) /\ IsListed(kids, name)
    BY <1>1, <1>3 DEF IsListed
  <2>2. handed' = FirstNamed(kids, name).inode
    BY <1>2
  <2> HIDE DEF kids, name, names, img
  <2>3. Resolves(img, Append(names, name), FirstNamed(kids, name).inode)
    BY <2>1, ListedLeads
  <2> QED
    BY <2>2, <2>3 DEF names, img
<1> HIDE DEF name
<1>5. request'.kind = "link" /\ request'.path.bytes = bytes \o <<Slash>> \o name
  <2> DEFINE path == Joined(request.path, name)
  <2>1. request' = [kind |-> "link", path |-> path, name |-> Nothing]
    BY <1>2, Zenon DEF name, Enter
  <2>2. path.bytes = bytes \o <<Slash>> \o name
    BY DEF Joined
  <2> HIDE DEF path, bytes
  <2>3. request'.kind = "link" /\ request'.path = path
    BY <2>1
  <2> QED
    BY <2>2, <2>3
<1>6. Full' = Append(Full, name)
  BY <1>3, <1>5, JoinedComponents, Zenon DEF Full
<1>7. image' = image /\ answer' = Nothing
  BY <1>2 DEF Enter
<1>8. Keeps'
  BY <1>4, <1>5, <1>6, <1>7 DEF Keeps
<1>9. HandedBackResolves'
  BY <1>7 DEF HandedBackResolves, Answered
<1> QED
  BY <1>8, <1>9

\* Every step keeps what was handed out, and answers about what is handed
\* back with the inode it was listed with.
LEMMA HandsBackStep ==
    ASSUME HandsBack, [Next]_vars
    PROVE  HandsBack'
<1>1. Resolving'
  BY ResolvingStep DEF HandsBack
<1>2. SUFFICES Keeps' /\ HandedBackResolves'
  BY <1>1 DEF HandsBack
<1>3. ASSUME UNCHANGED <<image, request, answer, handed>> PROVE Keeps' /\ HandedBackResolves'
  BY <1>3 DEF HandsBack, Keeps, HandedBackResolves, Answered, Full
<1>4. Damaged = Err("damaged") /\ \A e : ~Err(e).ok
  BY DEF Damaged, Err
<1>5. ASSUME NEW r \in Requests, Ask(r) PROVE Keeps' /\ HandedBackResolves'
  BY <1>5, AskedAgain DEF Ask, Enter
<1>6. ASSUME NEW r \in Requests, ReadRemembered(r) PROVE Keeps' /\ HandedBackResolves'
  <2>1. request'.kind = "read_at" /\ handed' = Nothing
    BY <1>6 DEF ReadRemembered, Remembered
  <2> QED
    BY <2>1, AskedAgain
<1>7. CASE AskListed
  BY <1>7, AskListedKeeps
<1>8. CASE ReadRoot
  <2> DEFINE r == ReadInode(image.root)
  <2>1. CASE ~r.ok /\ Answer(r) /\ UNCHANGED <<image, request, handed>>
    <3>1. handed = Nothing
      BY <2>1, HandedLeads, OfTheImage
    <3> QED
      BY <2>1, <3>1, ErrorKeeps
  <2> QED
    BY <1>3, <1>8, <2>1, Zenon DEF ReadRoot
<1>9. CASE NotADirectory
  <2>1. handed = Nothing
    <3> SUFFICES ASSUME handed # Nothing PROVE FALSE
      OBVIOUS
    <3>1. /\ pc = "walk" /\ ~IsDir(node)
          /\ comps # << >> \/ request.kind \in {"tree_dir", "dir_open"}
      BY <1>9 DEF NotADirectory
    <3>2. request.kind = "link"
      BY HandedLeads
    <3>3. PICK to : StepTo(image, node, Head(comps), to)
      BY <3>1, <3>2, HandedLeads
    <3> QED
      BY <3>1, <3>3 DEF StepTo, ListedAs
  <2> QED
    BY <1>4, <1>9, <2>1, ErrorKeeps DEF NotADirectory
<1>10. CASE ReadDir
  <2>1. CASE ~Listing.ok /\ Answer(Damaged) /\ UNCHANGED <<image, request, handed>>
    <3>1. handed = Nothing
      <4> SUFFICES ASSUME handed # Nothing PROVE FALSE
        OBVIOUS
      <4>1. pc = "walk" /\ comps # << >>
        BY <1>10, HandedLeads DEF ReadDir, AboutToList
      <4>2. PICK to : StepTo(image, node, Head(comps), to)
        BY <4>1, HandedLeads
      <4> QED
        BY <2>1, <4>2, OfTheImage DEF StepTo, ListedAs
    <3> QED
      BY <1>4, <2>1, <3>1, ErrorKeeps
  <2> QED
    BY <1>3, <1>10, <2>1, Zenon DEF ReadDir
<1>11. CASE ListingRefused
  <2>1. handed = Nothing
    <3> SUFFICES ASSUME handed # Nothing PROVE FALSE
      OBVIOUS
    <3>1. pc = "listing" /\ parse = "refused"
      BY <1>11 DEF ListingRefused, HandsBack, Resolving, OfItsNode
    <3>2. (comps = << >> => Lists) /\ buf = ListingOf(image, node).value
      BY <3>1 DEF HandsBack, Resolving, OfItsNode
    <3>3. comps # << >>
      BY <3>2, HandedLeads
    <3>4. PICK to : StepTo(image, node, Head(comps), to)
      BY <3>1, <3>3, HandedLeads
    <3>5. PICK o : ListedAs(image, node, o)
      BY <3>4 DEF StepTo
    <3>6. ParsesTo(buf, o)
      BY <3>2, <3>5 DEF ListedAs
    <3> QED
      BY <3>1, <3>6, ProgressEnds DEF HandsBack, Resolving, QueryTyped
  <2> QED
    BY <1>4, <1>11, <2>1, ErrorKeeps DEF ListingRefused
<1>12. CASE ParseListing
  BY <1>3, <1>12 DEF ParseListing, requestVars
<1>13. ASSUME handed # Nothing, Listed, comps # << >>
       PROVE  Matches # {} /\ ReadInode(FirstNamed(out, Head(comps)).inode_ref).ok
  <2>1. PICK to : StepTo(image, node, Head(comps), to)
    BY <1>13, HandedLeads DEF Listed
  <2>2. PICK o : /\ ListedAs(image, node, o) /\ Named(o, Head(comps)) # {}
                 /\ ReadOf(image, FirstNamed(o, Head(comps)).inode_ref).ok
    BY <2>1 DEF StepTo
  <2>3. ListedAs(image, node, out)
    BY <1>13, ListedIsNodes DEF HandsBack
  <2>4. o = out
    BY <2>2, <2>3, ListedOnce
  <2> QED
    BY <2>2, <2>4, OfTheImage DEF Matches
<1>14. CASE Lookup
  <2> DEFINE r == ReadInode(FirstNamed(out, Head(comps)).inode_ref)
  <2>1. CASE ~r.ok /\ Answer(r) /\ UNCHANGED <<image, request, handed>>
    <3>1. Listed /\ comps # << >>
      BY <1>14 DEF Lookup
    <3>2. handed = Nothing
      BY <1>13, <2>1, <3>1
    <3> QED
      BY <2>1, <3>2, ErrorKeeps
  <2> QED
    BY <1>3, <1>14, <2>1, Zenon DEF Lookup
<1>15. CASE LookupMisses
  <2>1. handed = Nothing
    BY <1>13, <1>15 DEF LookupMisses
  <2> QED
    BY <1>4, <1>15, <2>1, ErrorKeeps DEF LookupMisses
<1>16. ASSUME Listed, comps = << >> PROVE handed = Nothing
  <2>1. Lists
    BY <1>16 DEF HandsBack, Resolving, OfItsNode, Listed
  <2> QED
    BY <2>1, HandedLeads
<1>17. CASE ReadChild
  <2> DEFINE r == ReadInode(out[Len(children) + 1].inode_ref)
  <2>1. handed = Nothing
    BY <1>16, <1>17 DEF ReadChild, AboutToReadChild
  <2>2. CASE ~r.ok /\ Answer(r) /\ UNCHANGED <<image, request, handed>>
    BY <2>1, <2>2, ErrorKeeps
  <2> QED
    BY <1>3, <1>17, <2>2, Zenon DEF ReadChild
<1>18. CASE AnswerListing
  <2>1. Listed /\ comps = << >> /\ handed = Nothing /\ UNCHANGED <<image, request, handed>>
    BY <1>16, <1>18 DEF AnswerListing
  <2>2. CASE request.kind = "tree_dir"
    BY <1>18, <2>1, <2>2, ListingKeeps DEF AnswerListing, Answer
  <2>3. CASE request.kind # "tree_dir"
    BY <2>1, <2>3 DEF Keeps, HandedBackResolves
  <2> QED
    BY <2>2, <2>3
<1>19. CASE AnswerLsFile \/ AnswerStat \/ AnswerReadAt
  BY <1>19, OthersKeep DEF AnswerLsFile, AnswerStat, AnswerReadAt
<1>20. CASE AnswerLink
  <2>1. /\ pc = "walk" /\ comps = << >> /\ answer'.ok /\ answer'.value.inode = node
        /\ UNCHANGED <<image, request, handed>> /\ request.kind = "link"
    BY <1>20 DEF AnswerLink, Found, Answer, Ok
  <2>2. handed = Nothing \/ node = handed
    BY <2>1, HandedLeads
  <2>3. Full' = Full
    BY <2>1 DEF Full
  <2> QED
    BY <2>1, <2>2, <2>3 DEF HandsBack, Keeps, HandedBackResolves
<1>21. ASSUME AsksXattrs, UNCHANGED <<image, request, handed>> PROVE Keeps' /\ HandedBackResolves'
  BY <1>21, OthersKeep DEF AsksXattrs
<1>22. CASE NoXattrs \/ ReadSet
  BY <1>21, <1>22 DEF NoXattrs, ReadSet, AboutToReadSet
<1>23. CASE ParseSet
  BY <1>3, <1>23 DEF ParseSet, requestVars
<1>24. CASE AnswerSet
  <2>1. AsksXattrs /\ UNCHANGED <<image, request, handed>>
    BY <1>24 DEF AnswerSet, HandsBack, Resolving, OnItsWay
  <2> QED
    BY <1>21, <2>1
<1>25. CASE DeviceFails
  BY <1>4, <1>25, ErrorKeeps DEF DeviceFails
<1>26. CASE UNCHANGED vars
  BY <1>3, <1>26 DEF vars, requestVars
<1> QED
  BY <1>5, <1>6, <1>7, <1>8, <1>9, <1>10, <1>11, <1>12, <1>14, <1>15, <1>17, <1>18, <1>19, <1>20,
     <1>22, <1>23, <1>24, <1>25, <1>26, Zenon
  DEF Next

\* Nothing has been asked at first.
LEMMA InitHandsBack == Init => HandsBack
<1> SUFFICES ASSUME Init PROVE HandsBack
  OBVIOUS
<1>1. QueryTyped
  BY InitAccounted
<1>2. /\ parse = "idle" /\ out = << >> /\ pc = "idle" /\ request.kind = "none" /\ children = << >>
      /\ handed = Nothing
  BY DEF Init, ListingInit, NoOp
<1>3. ParseProgress
  BY <1>2, LenProperties DEF ParseProgress
<1>4. OnItsWay /\ OfItsNode
  BY <1>2 DEF OnItsWay, OfItsNode
<1>5. Keeps /\ HandedBackResolves
  BY <1>2 DEF Keeps, HandedBackResolves
<1> QED
  BY <1>1, <1>3, <1>4, <1>5 DEF HandsBack, Resolving

\* "a name handed out by read_dir always resolves when handed back", and to
\* the inode it was first listed with: for any images, however they are
\* damaged, and any paths.
THEOREM HandedBack == Spec => []HandedBackResolves
<1>1. Init => HandsBack
  BY InitHandsBack
<1>2. HandsBack /\ [Next]_vars => HandsBack'
  BY HandsBackStep
<1>3. HandsBack => HandedBackResolves
  BY DEF HandsBack
<1> QED
  BY <1>1, <1>2, <1>3, PTL DEF Spec

=============================================================================
