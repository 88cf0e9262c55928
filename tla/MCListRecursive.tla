-------------------------- MODULE MCListRecursive --------------------------
(***************************************************************************)
(* ListRecursive for TLC: every graph of a root, a directory with up to    *)
(* two entries, and one with at most one, over these and a file: cycles,   *)
(* directories listed twice and in themselves, entries stored out of order *)
(* or under one name.                                                      *)
(***************************************************************************)
EXTENDS ListRecursive, TLC

CONSTANTS r, a, b, f

MCEntry(name, i) == [name |-> name, inode |-> i]

UpToTwo ==
    {<< >>} \cup {<<MCEntry(1, i)>> : i \in Inode}
    \cup {<<MCEntry(1, i), MCEntry(2, j)>> : i \in Inode, j \in Inode}
    \cup {<<MCEntry(2, i), MCEntry(1, j)>> : i \in Inode, j \in Inode}
    \cup {<<MCEntry(1, i), MCEntry(1, j)>> : i \in Inode, j \in Inode}

UpToOne == {<< >>, <<MCEntry(1, r)>>, <<MCEntry(1, f)>>}

\* A number for each inode, or one for two of the directories.
MCNumberings == {(r :> 1) @@ (a :> 2) @@ (b :> n) @@ (f :> 4) : n \in {2, 3}}

MCListings ==
    {(r :> x) @@ (a :> y) @@ (b :> z) : x \in UpToTwo, y \in UpToTwo, z \in UpToOne}

=============================================================================
