---------------------------- MODULE MCOpenImage ----------------------------
(***************************************************************************)
(* OpenImage for TLC, on images laid out as mksquashfs lays them out, with *)
(* metadata blocks of 32 bytes, and on damaged copies of one of them.      *)
(***************************************************************************)
EXTENDS OpenImage

Full == StoredBlock(10, TRUE, 32)
Part(len) == StoredBlock(10, TRUE, len)

FullSb ==
    [squashfs |-> TRUE, versionMajor |-> 4, versionMinor |-> 0,
     blockLog |-> 12, blockSize |-> 4096, compressionId |-> 1,
     inodeCount |-> 5, rootBlock |-> 0, idCount |-> 2, fragmentEntryCount |-> 3,
     inodeTableStart |-> 96, directoryTableStart |-> 108,
     fragmentTableStart |-> 156, exportTableStart |-> 196, idTableStart |-> 224,
     xattrTableStart |-> 256, bytesUsed |-> 280]

\* Inodes at 96; two directory blocks at 108; two blocks of fragments; two
\* of exports; one of ids; xattr pairs at 232 and their ids at 244.
FullImage ==
    [sb |-> FullSb, size |-> 280, intact |-> TRUE, directory |-> {108, 120},
     words |-> (156 :> 132) @@ (164 :> 144) @@ (196 :> 172) @@ (204 :> 184)
               @@ (224 :> 212) @@ (256 :> 232) @@ (264 :> 1) @@ (272 :> 244),
     blocks |-> (96 :> Part(32)) @@ (108 :> Full) @@ (120 :> Part(9))
                @@ (132 :> Full) @@ (144 :> Part(16)) @@ (172 :> Full)
                @@ (184 :> Part(8)) @@ (212 :> Part(8)) @@ (232 :> Part(30))
                @@ (244 :> Part(16))]

\* No fragments, exports or xattrs, and padding after the image.
BareImage ==
    [sb |-> [FullSb EXCEPT !.fragmentEntryCount = 0, !.fragmentTableStart = NoTable,
                           !.exportTableStart = NoTable, !.xattrTableStart = NoTable,
                           !.idTableStart = 144, !.bytesUsed = 152],
     size |-> 160, intact |-> TRUE, directory |-> {108, 120},
     words |-> (144 :> 132),
     blocks |-> (96 :> Part(32)) @@ (108 :> Full) @@ (120 :> Part(9)) @@ (132 :> Part(8))]

\* An empty root directory, which takes no block of the directory table.
EmptyImage ==
    [sb |-> [BareImage.sb EXCEPT !.inodeCount = 1, !.idTableStart = 120, !.bytesUsed = 128],
     size |-> 128, intact |-> TRUE, directory |-> {},
     words |-> (120 :> 108),
     blocks |-> (96 :> Part(32)) @@ (108 :> Part(8))]

Damaged == [FullImage EXCEPT !.intact = FALSE]

BadSuperblocks == {
    [FullSb EXCEPT !.squashfs = FALSE],
    [FullSb EXCEPT !.versionMajor = 3],
    [FullSb EXCEPT !.versionMinor = 1],
    [FullSb EXCEPT !.blockLog = 11, !.blockSize = 2048],
    [FullSb EXCEPT !.blockSize = 8192],
    [FullSb EXCEPT !.compressionId = 7],
    [FullSb EXCEPT !.bytesUsed = 281],
    [FullSb EXCEPT !.bytesUsed = 279],
    [FullSb EXCEPT !.idTableStart = 280],
    [FullSb EXCEPT !.inodeTableStart = 95],
    [FullSb EXCEPT !.inodeTableStart = 108],
    [FullSb EXCEPT !.fragmentTableStart = 107],
    [FullSb EXCEPT !.exportTableStart = 225],
    [FullSb EXCEPT !.rootBlock = 12],
    [FullSb EXCEPT !.rootBlock = 11],
    [FullSb EXCEPT !.inodeCount = 8],
    [FullSb EXCEPT !.inodeCount = 9],
    [FullSb EXCEPT !.inodeCount = 0],
    [FullSb EXCEPT !.idCount = 0],
    [FullSb EXCEPT !.fragmentTableStart = NoTable],
    [FullSb EXCEPT !.directoryTableStart = 120],
    [FullSb EXCEPT !.xattrTableStart = 270]}

\* The u32 after the count of attribute sets is nobody's: it may hold anything,
\* and next to a count of zero it makes no attribute sets.
UnusedImage == [FullImage EXCEPT !.words[264] = U32 + 1]
UncountedImage == [FullImage EXCEPT !.words[264] = U32]

\* The first of the two blocks of fragments is short, and the second holds
\* enough to make up for it.
ShiftedImage == [Damaged EXCEPT !.blocks[132] = Part(24), !.blocks[144] = Full]

MCImages ==
    {FullImage, BareImage, EmptyImage, ShiftedImage, UnusedImage, UncountedImage} \cup
    {[Damaged EXCEPT !.sb = b] : b \in BadSuperblocks} \cup
    {[Damaged EXCEPT !.words[a] = w] :
        a \in DOMAIN FullImage.words, w \in {0, 108, 120, 280}} \cup
    {[Damaged EXCEPT !.blocks[a] = b] :
        a \in {132, 144, 172, 212, 244}, b \in {Part(24), Part(40), StoredBlock(0, FALSE, 0)}}

=============================================================================
