--------------------------- MODULE ListRecursive ---------------------------
(***************************************************************************)
(* `fs ls --recursive`: ls_recursive in cli/squashfs/fs.rs.  A walk of the *)
(* directory graph with an explicit stack of directory iterators, bounded  *)
(* in entries and in depth.  The graph comes from the image, where nothing *)
(* keeps a directory from being its own descendant or from being listed in *)
(* two places; a directory met again is reported and not entered.          *)
(***************************************************************************)
EXTENDS Naturals, Sequences, FiniteSets, SequencesExt

CONSTANTS
    Inode,       \* the image's inodes
    Directory,   \* those that are directories
    Roots,       \* what PATH may resolve to
    Numberings,  \* what the inodes may give as their inode numbers
    Listings,    \* the possible images: functions from Directory to listings,
                 \* each a sequence of [name, inode] in stored order
    Limits,      \* --limit, in entries
    MaxDepths    \* --max-depth

\* A name is a number, in the order of the names' bytes; the bounds are u64s.
ASSUME GraphAssumption ==
    /\ Directory \cup Roots \subseteq Inode
    /\ Limits \cup MaxDepths \subseteq Nat
    /\ \A images \in Listings : \A d \in Directory :
          images[d] \in Seq([name : Nat, inode : Inode])

VARIABLES
    root,        \* the inode that PATH resolves to
    number,      \* number[i]: the inode_number in inode i
    listing,     \* the image's directories
    limit,
    maxDepth,
    visited,     \* inode numbers of the directories met
    stack,       \* <<[path, left], ...>>, the innermost directory last
    entries,     \* what is reported: [path, inode, revisited]
    listed,      \* history: the directories read, in order
    result       \* "running", "ok", or why the walk stopped

vars == <<root, number, listing, limit, maxDepth, visited, stack, entries, listed, result>>

\* Mutant: the entries as the image stores them.
ChildrenUnsorted(d) == listing[d]

\* sort_by compares the names and is stable: entries of one name, which
\* nothing keeps an image from having, stay in their stored order.
Ahead(l, i, j) == l[i].name < l[j].name \/ (l[i].name = l[j].name /\ i < j)

Rank(l, i) == Cardinality({j \in 1..Len(l) : Ahead(l, j, i)}) + 1

\* children: the directory's entries in the order of their names.
Children(d) ==
    LET l == listing[d] IN
    [k \in 1..Len(l) |-> l[CHOOSE i \in 1..Len(l) : Rank(l, i) = k]]

Frame(path, d) == [path |-> path, left |-> Children(d)]

Init ==
    /\ root \in Roots
    /\ number \in Numberings
    /\ listing \in Listings
    /\ limit \in Limits
    /\ maxDepth \in MaxDepths
    /\ visited = {}
    /\ stack = << >>
    /\ entries = << >>
    /\ listed = << >>
    /\ result = "started"

Stop(why) ==
    /\ result' = why
    /\ UNCHANGED <<root, number, listing, limit, maxDepth, visited, stack, entries, listed>>

\* PATH is not a directory: it is the one entry, if the limit allows one.
ListFile ==
    /\ result = "started"
    /\ root \notin Directory
    /\ IF limit = 0
       THEN result' = "limit" /\ UNCHANGED entries
       ELSE /\ result' = "ok"
            /\ entries' = <<[path |-> << >>, inode |-> root, revisited |-> FALSE]>>
    /\ UNCHANGED <<root, number, listing, limit, maxDepth, visited, stack, listed>>

Start ==
    /\ result = "started"
    /\ root \in Directory
    /\ result' = "running"
    /\ visited' = {number[root]}
    /\ stack' = <<Frame(<< >>, root)>>
    /\ listed' = <<root>>
    /\ UNCHANGED <<root, number, listing, limit, maxDepth, entries>>

Running == result = "running" /\ stack # << >>

Innermost == Last(stack)

\* The child at hand, and its path.
Child == Head(Innermost.left)
ChildPath == Append(Innermost.path, Child.name)

\* The stack without the child at hand.
Advanced == [stack EXCEPT ![Len(stack)].left = Tail(@)]

\* Mutant: the exhausted directory stays where it is.
PopForgotten == Running /\ Innermost.left = << >> /\ UNCHANGED vars

\* The innermost directory has no more entries.
Pop ==
    /\ Running
    /\ Innermost.left = << >>
    /\ stack' = Front(stack)
    /\ UNCHANGED <<root, number, listing, limit, maxDepth, visited, entries, listed, result>>

HasChild == Running /\ Innermost.left # << >>

Bounded == Len(entries) >= limit

TooDeep == Len(ChildPath) > maxDepth

\* The bounds are looked at before the child is: the limit, then the depth.
LimitReached == HasChild /\ Bounded /\ Stop("limit")

DepthReached == HasChild /\ ~Bounded /\ TooDeep /\ Stop("depth")

\* A directory is known by the number in its inode.
Met == number[Child.inode] \in visited

Report(revisited) ==
    entries' = Append(entries, [path |-> ChildPath, inode |-> Child.inode,
                                revisited |-> revisited])

\* A file, or a directory that was met before.
Leaf ==
    /\ HasChild
    /\ ~Bounded
    /\ ~TooDeep
    /\ Child.inode \notin Directory \/ Met
    /\ Report(Child.inode \in Directory)
    /\ stack' = Advanced
    /\ UNCHANGED <<root, number, listing, limit, maxDepth, visited, listed, result>>

\* Mutant: a directory is noted as met when it is left, not when it is
\* entered.
DescendUnnoted ==
    /\ HasChild
    /\ ~Bounded
    /\ ~TooDeep
    /\ Child.inode \in Directory
    /\ ~Met
    /\ Report(FALSE)
    /\ stack' = Append(Advanced, Frame(ChildPath, Child.inode))
    /\ listed' = Append(listed, Child.inode)
    /\ UNCHANGED <<root, number, listing, limit, maxDepth, visited, result>>

\* Mutant: the parent's iterator is dropped when a child is entered.
DescendReplacing ==
    /\ HasChild
    /\ ~Bounded
    /\ ~TooDeep
    /\ Child.inode \in Directory
    /\ ~Met
    /\ Report(FALSE)
    /\ visited' = visited \cup {number[Child.inode]}
    /\ stack' = Append(Front(stack), Frame(ChildPath, Child.inode))
    /\ listed' = Append(listed, Child.inode)
    /\ UNCHANGED <<root, number, listing, limit, maxDepth, result>>

\* A directory met for the first time: reported, read and entered.
Descend ==
    /\ HasChild
    /\ ~Bounded
    /\ ~TooDeep
    /\ Child.inode \in Directory
    /\ ~Met
    /\ Report(FALSE)
    /\ visited' = visited \cup {number[Child.inode]}
    /\ stack' = Append(Advanced, Frame(ChildPath, Child.inode))
    /\ listed' = Append(listed, Child.inode)
    /\ UNCHANGED <<root, number, listing, limit, maxDepth, result>>

\* The child's inode cannot be read.
ReadInodeFails == HasChild /\ ~Bounded /\ ~TooDeep /\ Stop("error")

\* The child is reported, and then its listing cannot be read.
ReadDirFails ==
    /\ HasChild
    /\ ~Bounded
    /\ ~TooDeep
    /\ Child.inode \in Directory
    /\ ~Met
    /\ Report(FALSE)
    /\ visited' = visited \cup {number[Child.inode]}
    /\ stack' = Advanced
    /\ result' = "error"
    /\ UNCHANGED <<root, number, listing, limit, maxDepth, listed>>

\* PATH does not resolve, or the directory it names cannot be read.
StartFails == result = "started" /\ Stop("error")

Done == result = "running" /\ stack = << >> /\ Stop("ok")

Step ==
    \/ ListFile \/ Start \/ StartFails \/ Pop
    \/ LimitReached \/ DepthReached \/ Leaf \/ Descend
    \/ ReadInodeFails \/ ReadDirFails \/ Done

Spec == Init /\ [][Step]_vars

\* One thread runs the walk.
FairSpec == Spec /\ WF_vars(Step)

-----------------------------------------------------------------------------

\* Cycles and directories with several names: no directory is read twice, so
\* the stack of iterators is never deeper than there are directories.
ListedOnce == IsInjective(listed) /\ Len(stack) <= Len(listed)

Precedes(p, q) ==
    \/ IsStrictPrefix(p, q)
    \/ \E n \in 1..Len(p) :
          /\ n <= Len(q)
          /\ SubSeq(p, 1, n - 1) = SubSeq(q, 1, n - 1)
          /\ p[n] < q[n]

\* No directory names two of its entries alike.
DistinctNames ==
    \A d \in Directory : IsInjective([i \in 1..Len(listing[d]) |-> listing[d][i].name])

\* The report, whole or partial, is in the order of its paths: a directory
\* before what is in it, and, unless the image names two entries alike, no
\* path twice.
InPathOrder ==
    DistinctNames =>
        \A i \in 1..(Len(entries) - 1) : Precedes(entries[i].path, entries[i + 1].path)

\* Where the walk entered a directory.
EnteredAt(d) ==
    IF d = root THEN << >>
    ELSE LET n == CHOOSE i \in 1..Len(entries) :
                      entries[i].inode = d /\ ~entries[i].revisited
         IN  entries[n].path

\* A walk that succeeds, where directories have numbers of their own, has
\* reported every entry of every directory that can be reached from its
\* root, and nothing else.
WalkComplete ==
    result = "ok" /\ root \in Directory /\ IsInjective(Restrict(number, Directory)) =>
        /\ \A d \in ToSet(listed) : \A n \in 1..Len(listing[d]) :
              listing[d][n].inode \in Directory => listing[d][n].inode \in ToSet(listed)
        /\ {<<entries[i].path, entries[i].inode>> : i \in 1..Len(entries)} =
           UNION {{<<Append(EnteredAt(d), c.name), c.inode>> : c \in ToSet(listing[d])}
                     : d \in ToSet(listed)}

\* The walk ends, whatever the graph of directories is.
WalkEnds == <>(result \in {"ok", "limit", "depth", "error"})

=============================================================================
