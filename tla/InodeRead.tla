----------------------------- MODULE InodeRead -----------------------------
(***************************************************************************)
(* Inode::read in inode.rs: the fourteen layouts of an inode, each a head  *)
(* of fixed fields, for a file its block sizes and for a symlink its       *)
(* target, and what follows those.                                         *)
(***************************************************************************)
EXTENDS MetaStream, SequencesExt

CONSTANTS
    BlockSize,      \* sb.block_size
    MaxBlocks,      \* MAX_BLOCKS
    MaxSymlink,     \* MAX_SYMLINK
    InvalidFrag,    \* SQUASHFS_INVALID_FRAG
    InvalidXattr    \* SQUASHFS_INVALID_XATTR

\* The superblock's block size is a power of two.
ASSUME InodeAssumption == BlockSize \in Nat \ {0}

\* FileType::from_type_id: ids 8 to 14 are the extended forms of 1 to 7.
Types == 1..14
Kinds == <<"dir", "file", "symlink", "block", "char", "fifo", "socket">>
Kind(t) == IF t \notin Types THEN "unknown" ELSE Kinds[((t - 1) % 7) + 1]
IsDir(inode) == Kind(inode.inode_type) = "dir"
IsFile(inode) == Kind(inode.inode_type) = "file"
IsSymlink(inode) == Kind(inode.inode_type) = "symlink"
HasXattrs(inode) == inode.xattr_index # InvalidXattr

\* The common header.
Common == <<"inode_type", "permissions", "uid_idx", "gid_idx", "mtime", "inode_number">>

\* What an inode's fields hold when its layout has no such field.
Defaults ==
    [nlink |-> 1, file_size |-> 0, dir_start_block |-> 0, dir_block_offset |-> 0,
     blocks_start |-> 0, fragment_index |-> InvalidFrag, fragment_offset |-> 0,
     rdev |-> 0, xattr_index |-> InvalidXattr]

\* Mutant: the extended directory's fields in the basic directory's order.
HeadSwapped(t) ==
    CASE t = 1 -> <<"dir_start_block", "nlink", "file_size", "dir_block_offset", "parent">>
      [] t = 8 -> <<"dir_start_block", "nlink", "file_size", "parent", "index_count",
                    "dir_block_offset", "xattr_index">>
      [] t = 2 -> <<"blocks_start", "fragment_index", "fragment_offset", "file_size">>
      [] t = 9 -> <<"blocks_start", "file_size", "sparse", "nlink", "fragment_index",
                    "fragment_offset", "xattr_index">>
      [] t \in {3, 10} -> <<"nlink", "file_size">>
      [] t \in {4, 5} -> <<"nlink", "rdev">>
      [] t \in {11, 12} -> <<"nlink", "rdev", "xattr_index">>
      [] t \in {6, 7} -> <<"nlink">>
      [] OTHER -> <<"nlink", "xattr_index">>

\* The fields after the common header, in the order they are read.
HeadOf(t) ==
    CASE t = 1 -> <<"dir_start_block", "nlink", "file_size", "dir_block_offset", "parent">>
      [] t = 8 -> <<"nlink", "file_size", "dir_start_block", "parent", "index_count",
                    "dir_block_offset", "xattr_index">>
      [] t = 2 -> <<"blocks_start", "fragment_index", "fragment_offset", "file_size">>
      [] t = 9 -> <<"blocks_start", "file_size", "sparse", "nlink", "fragment_index",
                    "fragment_offset", "xattr_index">>
      [] t \in {3, 10} -> <<"nlink", "file_size">>
      [] t \in {4, 5} -> <<"nlink", "rdev">>
      [] t \in {11, 12} -> <<"nlink", "rdev", "xattr_index">>
      [] t \in {6, 7} -> <<"nlink">>
      [] OTHER -> <<"nlink", "xattr_index">>

\* An extended symlink's attribute index follows its target.
TailOf(t) == IF t = 10 THEN <<"xattr_index">> ELSE << >>

\* block_count, before its bound is applied.
BlocksOf(size, fragment) ==
    IF fragment = InvalidFrag THEN (size + BlockSize - 1) \div BlockSize
    ELSE size \div BlockSize

\* The cells between the head and the tail: block sizes or a target.
RunOf(head) ==
    CASE IsFile(head) -> BlocksOf(head.file_size, head.fragment_index)
      [] IsSymlink(head) -> head.file_size
      [] OTHER -> 0

\* The sanity bounds of block_count and read_symlink.
RunAllowed(head) ==
    /\ IsFile(head) => RunOf(head) <= MaxBlocks
    /\ IsSymlink(head) => RunOf(head) <= MaxSymlink

\* The named fields, from the cells after the first k.
Fields(cells, k, names) ==
    [f \in Range(names) |-> cells[k + CHOOSE i \in 1..Len(names) : names[i] = f]]

\* The fields kept of an inode: the rest (parent, index count, sparse) are
\* read and dropped.
Kept == DOMAIN Defaults \cup Range(Common)

\* Inode::read, from the cells its cursor delivers.
ParseInode(cells) ==
    IF Len(cells) < Len(Common) \/ Kind(cells[1]) = "unknown" THEN Damaged
    ELSE LET names == Common \o HeadOf(cells[1])
             tail == TailOf(cells[1])
         IN
         IF Len(cells) < Len(names) THEN Damaged
         ELSE LET head == Fields(cells, 0, names)
                  n == RunOf(head)
                  k == Len(names)
              IN
              IF ~RunAllowed(head) \/ Len(cells) < k + n + Len(tail) THEN Damaged
              ELSE LET run == SubSeq(cells, k + 1, k + n) IN
                   Ok([f \in Kept \cup {"block_sizes", "symlink_target"} |->
                          IF f = "block_sizes" THEN (IF IsFile(head) THEN run ELSE << >>)
                          ELSE IF f = "symlink_target"
                          THEN (IF IsSymlink(head) THEN run ELSE << >>)
                          ELSE IF f \in Range(tail) THEN Fields(cells, k + n, tail)[f]
                          ELSE IF f \in Range(names) THEN head[f]
                          ELSE Defaults[f]])

\* dir_listing_len: a directory's size counts three bytes that are not there.
DirListingLen(inode) == IF inode.file_size < 3 THEN 0 ELSE inode.file_size - 3

=============================================================================
