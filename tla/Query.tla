------------------------------- MODULE Query -------------------------------
(***************************************************************************)
(* The questions asked of an opened image by name: lookup_path_bytes,      *)
(* read_dir, list_xattrs and get_xattr in fs.rs, the CLI's ls, stat and    *)
(* xattr, a directory opened through the C ABI, and the TreeExport source  *)
(* with the path it remembers.  Composes InodeRead, DirListing and         *)
(* XattrSet over the blocks of an image.                                   *)
(*                                                                         *)
(* An image is its decoded blocks by offset, where its tables start, the   *)
(* end of the directory table, the root's reference, and the xattr id      *)
(* entries.  For the properties it also carries the tree it was made from, *)
(* and what was damaged in it afterwards.                                  *)
(***************************************************************************)
EXTENDS InodeRead, DirListing, XattrSet

CONSTANTS
    Images,         \* the images, one after another
    Paths,          \* paths asked about: the bytes, and the names they spell
    XattrNames,     \* names asked of get_xattr
    Nothing         \* None

\* References, cells and the bytes of a path are numbers, and an image has an
\* end.
ASSUME ImagesAssumption ==
    \A img \in Range(Images) :
        /\ img.root \in Nat
        /\ IsFiniteSet(DOMAIN img.blocks)
        /\ \A a \in DOMAIN img.blocks : img.blocks[a].cells \in Seq(Nat)

ASSUME PathsAssumption == \A path \in Paths : path.bytes \in Seq(Nat)

VARIABLES
    image,      \* the mounted image; it never changes
    pc,         \* where the operation is
    request,    \* the operation: kind, path, and for getxattr the name
    comps,      \* path components still to resolve
    node,       \* the inode reached
    children,   \* ls: entries already read
    answer,     \* the last operation's answer
    last,       \* TreeExport::last: the path and inode read_file_at kept
    handed      \* history: the inode a name handed back was listed with

requestVars == <<pc, request, comps, node, children>>
vars == <<image, requestVars, answer, last, handed, listingVars, setVars>>


NoOp == [kind |-> "none", path |-> Nothing, name |-> Nothing]

Init ==
    /\ image \in Range(Images)
    /\ pc = "idle"
    /\ request = NoOp
    /\ comps = << >>
    /\ node = Nothing
    /\ children = << >>
    /\ answer = Nothing
    /\ last = Nothing
    /\ handed = Nothing
    /\ ListingInit
    /\ XattrInit

Whole == {"stat", "ls", "dir_open", "tree_dir", "listxattr", "xattr", "read_at", "link"}

Requests ==
    [kind : Whole, path : Paths, name : {Nothing}]
        \cup [kind : {"getxattr"}, path : Paths, name : XattrNames]

\* path.split('/'), byte by byte, the empty components dropped.
Closed(r) == IF r.name = << >> THEN r.names ELSE Append(r.names, r.name)

SplitOn(b, r) ==
    IF b = Slash THEN [names |-> Closed(r), name |-> << >>]
    ELSE [names |-> r.names, name |-> Append(r.name, b)]

Components(bytes) ==
    LET split[k \in 0..Len(bytes)] ==
            IF k = 0 THEN [names |-> << >>, name |-> << >>]
            ELSE SplitOn(bytes[k], split[k - 1])
    IN  Closed(split[Len(bytes)])

\* The operation ends: its working state is dropped.
Answer(a) ==
    /\ answer' = a
    /\ pc' = "idle"
    /\ comps' = << >>
    /\ node' = Nothing
    /\ children' = << >>
    /\ SetListing(<< >>, "idle")
    /\ SetXattrs(NoId, << >>, "idle")

Enter(r) ==
    /\ pc = "idle"
    /\ request' = r
    /\ comps' = Components(r.path.bytes)
    /\ answer' = Nothing
    /\ pc' = "root"
    /\ UNCHANGED <<image, node, children, last, listingVars, setVars>>

\* How std::path::Path compares paths: whether they begin with "/", and their
\* components, a "." counting only at the beginning of a relative path.
Rooted(bytes) == bytes # << >> /\ bytes[1] = Slash

PathNames(bytes) ==
    LET named == Components(bytes)
        kept == SelectSeq(named, LAMBDA c : c # <<Dot>>)
    IN  IF ~Rooted(bytes) /\ named # << >> /\ Head(named) = <<Dot>>
        THEN <<Head(named)>> \o kept ELSE kept

SamePath(a, b) == Rooted(a) = Rooted(b) /\ PathNames(a) = PathNames(b)

\* The file read_file_at read last is not resolved again.
Remembered(r) == r.kind = "read_at" /\ last # Nothing /\ SamePath(last.path, r.path.bytes)

\* What an export asks, over and over; every other question is all its
\* process, or its call, asks of the image, and leaves nothing behind.
ExportAsks == {"tree_dir", "link", "read_at"}

Continues(r) == request.kind = "none" \/ {request.kind, r.kind} \subseteq ExportAsks

Ask(r) ==
    /\ Continues(r)
    /\ ~Remembered(r)
    /\ Enter(r)
    /\ handed' = Nothing

\* Path::join: the name under the directory's path.
Joined(path, name) ==
    [bytes |-> path.bytes \o <<Slash>> \o name, names |-> Append(path.names, name)]

\* The entries of a name, and the first of them.
Named(entries, name) == {i \in 1..Len(entries) : entries[i].name = name}
FirstNamed(entries, name) == entries[Min(Named(entries, name))]

\* The traversal of fs_core asks about a name TreeExport::read_dir gave it.
AskListed ==
    /\ request.kind = "tree_dir"
    /\ answer # Nothing
    /\ answer.ok
    /\ \E i \in 1..Len(answer.value) :
           LET name == answer.value[i].name IN
           /\ Enter([kind |-> "link", path |-> Joined(request.path, name), name |-> Nothing])
           /\ handed' = FirstNamed(answer.value, name).inode

\* read_file_at with the path it kept.
ReadRemembered(r) ==
    /\ pc = "idle"
    /\ Continues(r)
    /\ Remembered(r)
    /\ request' = r
    /\ answer' = Ok(last.inode)
    /\ handed' = Nothing
    /\ UNCHANGED <<image, pc, comps, node, children, last, listingVars, setVars>>

-----------------------------------------------------------------------------

\* Filesystem::read_inode.
ReadInode(ref) ==
    LET c == Cursor(image.blocks, image.inodeTable, ref, NoLimit) IN
    IF ~c.ok THEN Damaged ELSE ParseInode(c.value)

\* lookup_path_bytes starts at the root.
ReadRoot ==
    LET r == ReadInode(image.root) IN
    /\ pc = "root"
    /\ \/ /\ r.ok
          /\ node' = r.value
          /\ pc' = "walk"
          /\ UNCHANGED <<comps, children, answer, listingVars, setVars>>
       \/ /\ ~r.ok
          /\ Answer(r)
    /\ UNCHANGED <<image, request, last, handed>>

Found == pc = "walk" /\ comps = << >>

Lists == request.kind \in {"ls", "tree_dir", "dir_open"}

\* A component is looked up in what is no directory, or such a thing is
\* listed; ls lists a file as itself.
NotADirectory ==
    /\ pc = "walk"
    /\ ~IsDir(node)
    /\ comps # << >> \/ request.kind \in {"tree_dir", "dir_open"}
    /\ Answer(Err("not_a_directory"))
    /\ UNCHANGED <<image, request, last, handed>>

\* The cells of a directory's listing, read below the end of the table.
Listing ==
    LET c == Cursor(image.blocks, image.dirTable,
                    Packed(node.dir_start_block, node.dir_block_offset), image.dirEnd)
        n == DirListingLen(node)
    IN
    IF n = 0 THEN Ok(<< >>)
    ELSE IF ~c.ok THEN Damaged
    ELSE IF Len(c.value) < n THEN Damaged
    ELSE Ok(SubSeq(c.value, 1, n))

AboutToList == pc = "walk" /\ IsDir(node) /\ (comps # << >> \/ Lists)

\* read_dir, for a lookup in the directory or for its listing.
ReadDir ==
    /\ AboutToList
    /\ \/ /\ Listing.ok
          /\ pc' = "listing"
          /\ SetListing(Listing.value, IF Listing.value = << >> THEN "parsed" ELSE "parsing")
          /\ UNCHANGED <<comps, node, children, answer, setVars>>
       \/ /\ ~Listing.ok
          /\ Answer(Damaged)
    /\ UNCHANGED <<image, request, last, handed>>

ParseListing ==
    /\ ParseStep
    /\ UNCHANGED <<image, requestVars, answer, last, handed, setVars>>

ListingRefused ==
    /\ parse = "refused"
    /\ Answer(Damaged)
    /\ UNCHANGED <<image, request, last, handed>>

Listed == pc = "listing" /\ parse = "parsed"

\* The entries a lookup's name matches.
Matches == Named(out, Head(comps))

\* lookup: the first entry of the name, if there is one.
Lookup ==
    /\ Listed
    /\ comps # << >>
    /\ Matches # {}
    /\ LET r == ReadInode(FirstNamed(out, Head(comps)).inode_ref) IN
       \/ /\ r.ok
          /\ node' = r.value
          /\ comps' = Tail(comps)
          /\ pc' = "walk"
          /\ SetListing(<< >>, "idle")
          /\ UNCHANGED <<children, answer, setVars>>
       \/ /\ ~r.ok
          /\ Answer(r)
    /\ UNCHANGED <<image, request, last, handed>>

LookupMisses ==
    /\ Listed
    /\ comps # << >>
    /\ Matches = {}
    /\ Answer(Err("not_found"))
    /\ UNCHANGED <<image, request, last, handed>>

\* ls and TreeExport::read_dir read the inode of every entry in turn; one
\* that cannot be read fails the whole listing.
AboutToReadChild ==
    Listed /\ comps = << >> /\ request.kind # "dir_open" /\ Len(children) < Len(out)

ReadChild ==
    /\ AboutToReadChild
    /\ LET e == out[Len(children) + 1]
           r == ReadInode(e.inode_ref)
       IN
       \/ /\ r.ok
          /\ children' = Append(children, [name |-> e.name, inode |-> r.value])
          /\ UNCHANGED <<pc, comps, node, answer, listingVars, setVars>>
       \/ /\ ~r.ok
          /\ Answer(r)
    /\ UNCHANGED <<image, request, last, handed>>

\* The listing is complete; dir_open hands out what the entries say.
AnswerListing ==
    /\ Listed
    /\ comps = << >>
    /\ \/ /\ request.kind # "dir_open"
          /\ Len(children) = Len(out)
          /\ Answer(Ok(children))
       \/ /\ request.kind = "dir_open"
          /\ Answer(Ok([i \in 1..Len(out) |->
                 [name |-> out[i].name, number |-> out[i].inode_number,
                  kind |-> Kind(out[i].type_id)]]))
    /\ UNCHANGED <<image, request, last, handed>>

\* ls of what is no directory: one entry, under the path's last name.
AnswerLsFile ==
    /\ Found
    /\ request.kind = "ls"
    /\ ~IsDir(node)
    /\ LET names == Components(request.path.bytes)
           name == IF names = << >> THEN request.path.bytes ELSE names[Len(names)]
       IN Answer(Ok(<<[name |-> name, inode |-> node]>>))
    /\ UNCHANGED <<image, request, last, handed>>

-----------------------------------------------------------------------------

\* resolve_uid and resolve_gid: an index past the id table is an error.
OwnersKnown == node.uid_idx < Len(image.owners) /\ node.gid_idx < Len(image.owners)

AnswerStat ==
    /\ Found
    /\ request.kind = "stat"
    /\ Answer(IF ~OwnersKnown THEN Damaged
              ELSE Ok([inode |-> node, uid |-> image.owners[node.uid_idx + 1],
                       gid |-> image.owners[node.gid_idx + 1]]))
    /\ UNCHANGED <<image, request, last, handed>>

\* TreeExport::symbolic_link: the target of a symlink, None of the rest.
AnswerLink ==
    /\ Found
    /\ request.kind = "link"
    /\ Answer(Ok([inode |-> node,
                  target |-> IF IsSymlink(node) THEN node.symlink_target ELSE Nothing]))
    /\ UNCHANGED <<image, request, last, handed>>

\* What read_file_at keeps: the path it resolved and the inode.
Remember == [path |-> request.path.bytes, inode |-> node]

\* read_file_at resolved its path: a regular file is remembered and read.
AnswerReadAt ==
    /\ Found
    /\ request.kind = "read_at"
    /\ Answer(IF IsFile(node) THEN Ok(node) ELSE Err("not_a_file"))
    /\ last' = IF IsFile(node) THEN Remember ELSE last
    /\ UNCHANGED <<image, request, handed>>

-----------------------------------------------------------------------------

AsksXattrs == request.kind \in {"listxattr", "xattr", "getxattr"}

\* Names in byte order, as the CLI sorts them.
NameBefore(a, b) ==
    \E k \in 0..Len(b) - 1 :
        /\ k <= Len(a)
        /\ SubSeq(a, 1, k) = SubSeq(b, 1, k)
        /\ k < Len(a) => a[k + 1] < b[k + 1]

\* What each of the three answers from a set.
FromSet(found) ==
    CASE request.kind = "listxattr" -> found
      [] request.kind = "xattr" -> SortSeq(found, LAMBDA a, b : NameBefore(a.name, b.name))
      [] OTHER -> LET named == SelectSeq(found, LAMBDA e : e.name = request.name) IN
                  IF named = << >> THEN Nothing ELSE named[1].value

\* list_xattrs of an image, or an inode, that has none.
NoXattrs ==
    /\ Found
    /\ AsksXattrs
    /\ image.ids = Nothing \/ ~HasXattrs(node)
    /\ Answer(Ok(FromSet(<< >>)))
    /\ UNCHANGED <<image, request, last, handed>>

AboutToReadSet == Found /\ AsksXattrs /\ image.ids # Nothing /\ HasXattrs(node)

\* The set's cursor, or why there is none: the index is past the table, the
\* count past its bound, or the reference leads nowhere.
SetCursor ==
    IF node.xattr_index >= Len(image.ids) THEN Damaged
    ELSE LET entry == image.ids[node.xattr_index + 1] IN
         IF entry.count > MaxXattrs THEN Damaged
         ELSE Cursor(image.blocks, image.pairTable, entry.ref, NoLimit)

ReadSet ==
    /\ AboutToReadSet
    /\ \/ /\ SetCursor.ok
          /\ pc' = "set"
          /\ SetXattrs(image.ids[node.xattr_index + 1], SetCursor.value, "reading")
          /\ UNCHANGED <<comps, node, children, answer, listingVars>>
       \/ /\ ~SetCursor.ok
          /\ Answer(Damaged)
    /\ UNCHANGED <<image, request, last, handed>>

ParseSet ==
    /\ SetStep(image.blocks, image.pairTable)
    /\ UNCHANGED <<image, requestVars, answer, last, handed, listingVars>>

AnswerSet ==
    /\ pc = "set"
    /\ \/ /\ setState = "read"
          /\ Answer(Ok(FromSet(attrs)))
       \/ /\ setState = "refused"
          /\ Answer(Damaged)
    /\ UNCHANGED <<image, request, last, handed>>

-----------------------------------------------------------------------------

\* The device is read by the next step.
NeedsDevice ==
    \/ pc = "root"
    \/ AboutToList /\ DirListingLen(node) > 0
    \/ Listed /\ comps # << >> /\ Matches # {}
    \/ AboutToReadChild
    \/ AboutToReadSet
    \/ setState = "reading" /\ pairs > 0

DeviceFails ==
    /\ NeedsDevice
    /\ Answer(Err("device"))
    /\ UNCHANGED <<image, request, last, handed>>

Next ==
    \/ \E r \in Requests : Ask(r) \/ ReadRemembered(r)
    \/ AskListed
    \/ ReadRoot
    \/ NotADirectory
    \/ ReadDir
    \/ ParseListing
    \/ ListingRefused
    \/ Lookup
    \/ LookupMisses
    \/ ReadChild
    \/ AnswerListing
    \/ AnswerLsFile
    \/ AnswerStat
    \/ AnswerLink
    \/ AnswerReadAt
    \/ NoXattrs
    \/ ReadSet
    \/ ParseSet
    \/ AnswerSet
    \/ DeviceFails

Spec == Init /\ [][Next]_vars

-----------------------------------------------------------------------------

Answered(kinds) == answer # Nothing /\ answer # Err("device") /\ request.kind \in kinds

Intact == image.damage = "none"

\* The node of the tree an image was made from that the names lead to.
Resolve(names) ==
    LET walk[i \in 0..Len(names)] ==
            IF i = 0 THEN Ok(1)
            ELSE LET at == walk[i - 1] IN
                 IF ~at.ok THEN at
                 ELSE IF Kind(image.tree[at.value].inode.inode_type) # "dir"
                 THEN Err("not_a_directory")
                 ELSE LET kids == SelectSeq(image.tree[at.value].kids,
                                            LAMBDA k : k.name = names[i])
                      IN IF kids = << >> THEN Err("not_found") ELSE Ok(kids[1].node)
    IN  walk[Len(names)]

\* A path resolves to the node its names lead to in the tree the image was
\* made from: every field of the inode, its owners and its target, whichever
\* layout it is stored in, however its records straddle blocks, and whatever
\* path read_file_at was asked for before.
ResolvesPath ==
    Intact /\ Answered({"stat", "link", "read_at"}) =>
        LET r == Resolve(request.path.names) IN
        IF ~r.ok THEN answer = r
        ELSE LET n == image.tree[r.value] IN
             CASE request.kind = "stat" -> answer = Ok([inode |-> n.inode, uid |-> n.uid, gid |-> n.gid])
               [] request.kind = "link" ->
                    answer = Ok([inode |-> n.inode,
                                 target |-> IF Kind(n.inode.inode_type) = "symlink"
                                            THEN n.inode.symlink_target ELSE Nothing])
               [] OTHER -> answer = IF Kind(n.inode.inode_type) = "file" THEN Ok(n.inode)
                                    ELSE Err("not_a_file")

\* A listing is the directory's entries in order, each with its child's whole
\* inode; an entry handed out by dir_open carries the number and the kind the
\* child's own inode has.
ListsDirectory ==
    Intact /\ Answered({"ls", "tree_dir", "dir_open"}) =>
        LET r == Resolve(request.path.names) IN
        IF ~r.ok THEN answer = r
        ELSE LET n == image.tree[r.value]
                 child(i) == image.tree[n.kids[i].node].inode
             IN
             CASE Kind(n.inode.inode_type) # "dir" /\ request.kind = "ls" ->
                    answer = Ok(<<[name |-> request.path.names[Len(request.path.names)], inode |-> n.inode]>>)
               [] Kind(n.inode.inode_type) # "dir" -> answer = Err("not_a_directory")
               [] request.kind = "dir_open" ->
                    answer = Ok([i \in 1..Len(n.kids) |->
                        [name |-> n.kids[i].name, number |-> child(i).inode_number,
                         kind |-> Kind(child(i).inode_type)]])
               [] OTHER ->
                    answer = Ok([i \in 1..Len(n.kids) |->
                        [name |-> n.kids[i].name, inode |-> child(i)]])

\* "a name handed out by read_dir always resolves when handed back", in a
\* damaged image too, and to the inode it was first listed with.
HandedBackResolves ==
    handed # Nothing /\ Answered({"link"}) => answer.ok /\ answer.value.inode = handed

\* The attributes of an inode are its set's, assembled names and out-of-line
\* values included; when the count or the size its id declares is wrong, the
\* answer is an error rather than another set.
ListsXattrs ==
    Answered({"listxattr", "xattr", "getxattr"}) /\ image.damage \in {"none", "set"} =>
        LET r == Resolve(request.path.names) IN
        IF ~r.ok THEN answer = r
        ELSE answer = Ok(FromSet(image.tree[r.value].attrs)) \/ (~Intact /\ answer = Damaged)

=============================================================================
