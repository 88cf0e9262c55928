------------------------------ MODULE MCQuery ------------------------------
(***************************************************************************)
(* Query for TLC.  Two trees, between them one inode of each of the        *)
(* fourteen types, are laid out as the format lays them out: inodes, then  *)
(* listings, then attribute pairs, each cut into blocks of Cut cells with  *)
(* no regard to where records end.  Then one cell at a time is damaged,    *)
(* one block at a time lost, and the attribute ids are made to lie.        *)
(***************************************************************************)
EXTENDS Query

CONSTANT Cut        \* cells of a metadata block

Stored == 3         \* what a block takes on disk, header included

\* The sum of the first k lengths.  (Recursive functions rather than folds
\* here: TLC then works the images out once.)
Before(lengths, k) ==
    LET sum[j \in 0..k] == IF j = 0 THEN 0 ELSE sum[j - 1] + lengths[j] IN sum[k]

Concat(seqs) ==
    LET all[j \in 0..Len(seqs)] == IF j = 0 THEN << >> ELSE all[j - 1] \o seqs[j] IN all[Len(seqs)]

\* Where the cell after the first `pos` cells of a table is.
RefTo(pos) == Packed((pos \div Cut) * Stored, pos % Cut)

BlockCountOf(cells) == (Len(cells) + Cut - 1) \div Cut

\* A table's blocks from `table` on.
Blocks(table, cells) ==
    [a \in {table + k * Stored : k \in 0..BlockCountOf(cells) - 1} |->
        LET k == (a - table) \div Stored IN
        [cells |-> SubSeq(cells, k * Cut + 1, IF (k + 1) * Cut < Len(cells)
                                              THEN (k + 1) * Cut ELSE Len(cells)),
         next |-> a + Stored]]

-----------------------------------------------------------------------------

\* What a tree says of a node: its kind of inode, owner indices, number,
\* link count, and whatever its type needs.
Node(type, number, more) ==
    more @@ [type |-> type, number |-> number, uid |-> number % 2, gid |-> 0,
             nlink |-> 1 + (number % 3), kids |-> << >>, sizes |-> << >>, size |-> 0,
             start |-> 0, frag |-> InvalidFrag, fragoff |-> 0, target |-> << >>,
             rdev |-> 0, xattr |-> InvalidXattr]

Kid(name, n) == [name |-> name, node |-> n]

TreeA == <<
    Node(8, 6, [kids |-> <<Kid(<<97>>, 2), Kid(<<98>>, 3), Kid(<<99, 99>>, 4)>>, xattr |-> 0]),
    Node(1, 5, [kids |-> <<Kid(<<46, 97>>, 3), Kid(<<97>>, 5), Kid(<<98>>, 6)>>]),
    Node(2, 3, [size |-> 5, frag |-> 0, fragoff |-> 1, start |-> 11, sizes |-> <<4>>]),
    Node(10, 4, [target |-> <<97, 47, 97>>, xattr |-> 1]),
    Node(9, 2, [size |-> 5, start |-> 15, sizes |-> <<4, 1>>, xattr |-> 1]),
    Node(1, 1, [kids |-> << >>])>>

TreeB == <<
    Node(1, 9, [kids |-> <<Kid(<<97>>, 2), Kid(<<98>>, 3), Kid(<<99>>, 4), Kid(<<100>>, 5),
                           Kid(<<101>>, 6), Kid(<<102>>, 7), Kid(<<103>>, 8),
                           Kid(<<104>>, 9), Kid(<<105>>, 10)>>]),
    Node(3, 8, [target |-> <<98>>]),
    Node(4, 7, [rdev |-> 3]),
    Node(5, 6, [rdev |-> 4]),
    Node(6, 5, [nlink |-> 1]),
    Node(7, 4, [nlink |-> 1]),
    Node(11, 3, [rdev |-> 5, xattr |-> 0]),
    Node(12, 2, [rdev |-> 6]),
    Node(13, 1, [xattr |-> 0]),
    Node(14, 10, [xattr |-> 1])>>

\* Attribute sets: the second's first value is the one stored in the first
\* set, referred to out of line.
Attr(ns, suffix, value, ool) == [ns |-> ns, suffix |-> suffix, value |-> value, ool |-> ool]

AttrSets == <<
    <<Attr(2, <<98>>, <<7, 8, 9>>, FALSE), Attr(0, <<97>>, << >>, FALSE)>>,
    <<Attr(1, <<97>>, <<7, 8, 9>>, TRUE), Attr(0, <<97>>, <<1>>, FALSE)>> >>

FullName(a) == Namespaces[a.ns + 1] \o a.suffix

-----------------------------------------------------------------------------

Dir(n) == n.type \in {1, 8}

\* An inode as the format writes it, its listing `len` cells long at `ref`.
InodeCells(n, ref, len) ==
    LET x == <<n.xattr>>
        common == <<n.type, 420, n.uid, n.gid, 50 + n.number, n.number>>
    IN  common \o
        CASE n.type = 1 -> <<BlockOffset(ref), n.nlink, len + 3, InBlock(ref), 0>>
          [] n.type = 8 -> <<n.nlink, len + 3, BlockOffset(ref), 0, 0, InBlock(ref)>> \o x
          [] n.type = 2 -> <<n.start, n.frag, n.fragoff, n.size>> \o n.sizes
          [] n.type = 9 -> <<n.start, n.size, 0, n.nlink, n.frag, n.fragoff>> \o x \o n.sizes
          [] n.type = 3 -> <<n.nlink, Len(n.target)>> \o n.target
          [] n.type = 10 -> <<n.nlink, Len(n.target)>> \o n.target \o x
          [] n.type \in {4, 5} -> <<n.nlink, n.rdev>>
          [] n.type \in {11, 12} -> <<n.nlink, n.rdev>> \o x
          [] n.type \in {6, 7} -> <<n.nlink>>
          [] OTHER -> <<n.nlink>> \o x

\* Where each of the records that lie one after another begins.
Starts(records) == [i \in 1..Len(records) |-> Before([j \in 1..Len(records) |-> Len(records[j])], i - 1)]

\* An entry under a run whose base is given, its inode n at ref.
EntryOf(n, ref, name, base) ==
    <<InBlock(ref), (n.number - base + U16) % U16, ((n.type - 1) % 7) + 1, Len(name) - 1>> \o name

\* A run: consecutive entries whose inodes share a block, the base the number
\* of the first.
RunOfKids(tree, refs, kids) ==
    LET base == tree[kids[1].node].number IN
    <<Len(kids) - 1, BlockOffset(refs[kids[1].node]), base>>
        \o Concat([i \in 1..Len(kids) |->
               EntryOf(tree[kids[i].node], refs[kids[i].node], kids[i].name, base)])

\* Entries cut into runs: a new one wherever the inode's block changes and
\* after MaxEntries entries.
RunsOf(kids, refs) ==
    LET runs[i \in 0..Len(kids)] ==
            IF i = 0 THEN << >>
            ELSE LET before == runs[i - 1]
                     r == before[Len(before)]
                 IN
                 IF /\ before # << >>
                    /\ BlockOffset(refs[r[1].node]) = BlockOffset(refs[kids[i].node])
                    /\ Len(r) < MaxEntries
                 THEN [before EXCEPT ![Len(before)] = Append(r, kids[i])]
                 ELSE Append(before, <<kids[i]>>)
    IN  runs[Len(kids)]

ListingOf(tree, refs, runs) == Concat([i \in 1..Len(runs) |-> RunOfKids(tree, refs, runs[i])])

PairCells(a, valueAt) ==
    <<a.ns + (IF a.ool THEN 256 ELSE 0), Len(a.suffix)>> \o a.suffix \o
    (IF a.ool THEN <<2, BlockOffset(RefTo(valueAt)), InBlock(RefTo(valueAt))>>
     ELSE <<Len(a.value)>> \o a.value)

\* The first pair's value, which the second set shares, begins after its
\* type, name size and one cell of name.
SetCells(s) == Concat([i \in 1..Len(s) |-> PairCells(s[i], 3)])

SetSize(s) ==
    Before([i \in 1..Len(s) |-> Len(FullName(s[i])) + 1 + Len(s[i].value)], Len(s))

Ids ==
    [i \in 1..Len(AttrSets) |->
        [ref |-> RefTo(Before([j \in 1..Len(AttrSets) |-> Len(SetCells(AttrSets[j]))], i - 1)),
         count |-> Len(AttrSets[i]), size |-> SetSize(AttrSets[i])]]

-----------------------------------------------------------------------------

\* What reading a node should give, its listing `len` cells long at `ref`.
Expected(n, ref, len) ==
    [inode |->
        [inode_type |-> n.type, permissions |-> 420, uid_idx |-> n.uid, gid_idx |-> n.gid,
         mtime |-> 50 + n.number, inode_number |-> n.number,
         nlink |-> IF n.type = 2 THEN 1 ELSE n.nlink,
         file_size |-> IF Dir(n) THEN len + 3
                       ELSE IF n.type \in {2, 9} THEN n.size ELSE Len(n.target),
         dir_start_block |-> IF Dir(n) THEN BlockOffset(ref) ELSE 0,
         dir_block_offset |-> IF Dir(n) THEN InBlock(ref) ELSE 0,
         blocks_start |-> n.start, fragment_index |-> n.frag,
         fragment_offset |-> n.fragoff, rdev |-> n.rdev, xattr_index |-> n.xattr,
         block_sizes |-> n.sizes, symlink_target |-> n.target],
     uid |-> 1000 + n.uid, gid |-> 1000 + n.gid, kids |-> n.kids,
     attrs |-> IF n.xattr = InvalidXattr THEN << >>
               ELSE [j \in 1..Len(AttrSets[n.xattr + 1]) |->
                        [name |-> FullName(AttrSets[n.xattr + 1][j]),
                         value |-> AttrSets[n.xattr + 1][j].value]]]

InodeStart == 9

\* The blocks, one table after another.
Assemble(tree, lists, refs, inodes, listings, sets) ==
    LET dirTable == InodeStart + BlockCountOf(inodes) * Stored
        dirEnd == dirTable + BlockCountOf(listings) * Stored
        expected == [i \in 1..Len(tree) |-> Expected(tree[i], refs[i], Len(lists[i]))]
    IN
    [blocks |-> Blocks(InodeStart, inodes) @@ Blocks(dirTable, listings) @@ Blocks(dirEnd, sets),
     inodeTable |-> InodeStart, dirTable |-> dirTable, dirEnd |-> dirEnd, pairTable |-> dirEnd,
     root |-> RefTo(0), owners |-> <<1000, 1001>>, ids |-> Ids,
     tree |-> SubSeq(expected, 1, Len(tree)), damage |-> "none"]

\* Inodes, whose listings are at refs.
WithInodes(tree, lists, refs) ==
    Assemble(tree, lists, refs,
             Concat([i \in 1..Len(tree) |-> InodeCells(tree[i], refs[i], Len(lists[i]))]),
             Concat(lists),
             Concat([i \in 1..Len(AttrSets) |-> SetCells(AttrSets[i])]))

Refs(records) == LET at == Starts(records) IN [i \in 1..Len(records) |-> RefTo(at[i])]

WithListings(tree, lists) == WithInodes(tree, lists, Refs(lists))

\* The listings, whose entries refer to the inodes.
WithInodeRefs(tree, refs) ==
    WithListings(tree, [i \in 1..Len(tree) |->
                           ListingOf(tree, refs, RunsOf(tree[i].kids, refs))])

Layout(tree) == WithInodeRefs(tree, Refs([i \in 1..Len(tree) |-> InodeCells(tree[i], 0, 0)]))

\* One cell, replaced by a neighbouring number, by "/", or by one that is
\* past every bound.
CellDamage(img) ==
    LET other(c) == <<IF c = U16 - 1 THEN 0 ELSE c + 1, IF c = 0 THEN 2 ELSE c - 1, Slash, 999>>
        at(a, i) ==
            [v \in 1..4 |-> [img EXCEPT !.blocks[a].cells[i] = other(img.blocks[a].cells[i])[v],
                                        !.damage = "cell"]]
        block(a) == Concat([i \in 1..Len(img.blocks[a].cells) |-> at(a, i)])
        count == Cardinality(DOMAIN img.blocks)
    IN  Concat([k \in 1..count |-> block(InodeStart + (k - 1) * Stored)])

\* One block that cannot be read.
BlockLost(img) ==
    LET lost(a) == [img EXCEPT !.blocks = [b \in DOMAIN img.blocks \ {a} |-> img.blocks[b]],
                               !.damage = "block"]
    IN  [k \in 1..Cardinality(DOMAIN img.blocks) |-> lost(InodeStart + (k - 1) * Stored)]

\* What an id of the attribute table says of its set, and the table cut.
IdDamage(img) ==
    LET declared(i) == <<
            [img EXCEPT !.ids[i].count = @ + 1, !.damage = "set"],
            [img EXCEPT !.ids[i].count = @ - 1, !.damage = "set"],
            [img EXCEPT !.ids[i].count = MaxXattrs + 1, !.damage = "set"],
            [img EXCEPT !.ids[i].size = @ + 1, !.damage = "set"],
            [img EXCEPT !.ids[i].size = @ - 1, !.damage = "set"]>>
    IN  Concat([i \in 1..Len(img.ids) |-> declared(i)]) \o
        <<[img EXCEPT !.ids = SubSeq(@, 1, 1), !.damage = "ids"],
          [img EXCEPT !.ids = Nothing, !.damage = "ids"]>>

\* A definition of its own, which TLC works out once.
AllImages ==
    LET a == Layout(TreeA) IN
    <<a, Layout(TreeB)>> \o IdDamage(a) \o BlockLost(a) \o CellDamage(a)

MCImages == AllImages

Path(bytes, names) == [bytes |-> bytes, names |-> names]

MCPaths == {
    Path(<<47>>, << >>),
    Path(<<47, 97>>, << <<97>> >>),
    Path(<<97, 47, 47, 97, 47>>, << <<97>>, <<97>> >>),
    Path(<<97, 47, 97>>, << <<97>>, <<97>> >>),
    Path(<<99, 99>>, << <<99, 99>> >>),
    Path(<<47, 97, 47, 46, 97>>, << <<97>>, <<46, 97>> >>),
    Path(<<97, 47, 98>>, << <<97>>, <<98>> >>)}

MCNamespaces == << <<117>>, <<116, 116>>, <<115, 115, 115>> >>

MCXattrNames == {<<117, 97>>, <<116, 116, 97>>}

=============================================================================
