----------------------------- MODULE CliProofs -----------------------------
(***************************************************************************)
(* Proofs about the commands of the CLI that take many steps.              *)
(*                                                                         *)
(* Of ListRecursive, for any graph of directories, numbering of inodes,    *)
(* limit and depth: no directory is read twice, the report is in the order *)
(* of its paths, and a walk that succeeds has reported all.  Of Publish:   *)
(* for any number of processes, what becomes of FILE.partial; for one at a *)
(* time, what FILE holds.                                                  *)
(***************************************************************************)
EXTENDS ListRecursive, Publish, SequenceLemmas, FiniteSetTheorems

-----------------------------------------------------------------------------
(* The recursive listing.                                                  *)

Entry == [name : Nat, inode : Inode]

Frames == [path : Seq(Nat), left : Seq(Entry)]

Lines == [path : Seq(Nat), inode : Inode, revisited : BOOLEAN]

-----------------------------------------------------------------------------
(* Sorting a directory.                                                    *)

\* Before an entry come finitely many others.
LEMMA RankIsPlace ==
    ASSUME NEW l, Len(l) \in Nat, \A i \in 1..Len(l) : l[i].name \in Nat,
           NEW i \in 1..Len(l)
    PROVE  /\ IsFiniteSet({j \in 1..Len(l) : Ahead(l, j, i)})
           /\ Rank(l, i) \in 1..Len(l)
<1> DEFINE n == Len(l)
           S == {j \in 1..n : Ahead(l, j, i)}
<1>1. n \in Nat /\ i \in 1..n
  OBVIOUS
<1>2. ~Ahead(l, i, i)
  <2>1. l[i].name \in Nat
    OBVIOUS
  <2> QED
    BY <1>1, <2>1 DEF Ahead
<1> HIDE DEF n
<1>3. /\ IsFiniteSet(1..n) /\ Cardinality(1..n) = n
      /\ IsFiniteSet((1..n) \ {i}) /\ Cardinality((1..n) \ {i}) = n - 1
  <2>1. IsFiniteSet(1..n) /\ Cardinality(1..n) = IF 1 > n THEN 0 ELSE (n - 1) + 1
    <3>1. 1 \in Int /\ n \in Int
      BY <1>1
    <3> QED
      BY <3>1, FS_Interval, Zenon
  <2>2. Cardinality(1..n) = n
    BY <1>1, <2>1
  <2> QED
    BY <1>1, <2>1, <2>2, FS_RemoveElement
<1>4. S \in SUBSET ((1..n) \ {i})
  BY <1>2
<1>5. IsFiniteSet(S) /\ Cardinality(S) <= n - 1
  BY <1>3, <1>4, FS_Subset
<1>6. Cardinality(S) \in Nat
  BY <1>5, FS_CardinalityType
<1>7. Cardinality(S) + 1 \in 1..n
  BY <1>1, <1>5, <1>6
<1> QED
  BY <1>5, <1>7 DEF Rank, n

\* Ranks are in the order of the entries.
LEMMA RanksFollow ==
    ASSUME NEW l, Len(l) \in Nat, \A i \in 1..Len(l) : l[i].name \in Nat,
           NEW a \in 1..Len(l), NEW b \in 1..Len(l), Ahead(l, a, b)
    PROVE  Rank(l, a) < Rank(l, b)
<1> DEFINE n == Len(l)
           S == {j \in 1..n : Ahead(l, j, a)}
           T == {j \in 1..n : Ahead(l, j, b)}
<1>1. S \subseteq T /\ a \in T /\ a \notin S
  <2>1. a \notin S
    BY DEF Ahead
  <2>2. a \in T
    OBVIOUS
  <2>3. ASSUME NEW j \in 1..n, Ahead(l, j, a) PROVE Ahead(l, j, b)
    <3>1. l[j].name \in Nat /\ l[a].name \in Nat /\ l[b].name \in Nat
      OBVIOUS
    <3> QED
      BY <2>3, <3>1 DEF Ahead
  <2> QED
    BY <2>1, <2>2, <2>3
<1>2. IsFiniteSet(S) /\ IsFiniteSet(T)
  BY RankIsPlace
<1> HIDE DEF S, T
<1>3. Cardinality(S \cup {a}) = Cardinality(S) + 1 /\ IsFiniteSet(S \cup {a})
  BY <1>1, <1>2, FS_AddElement
<1>4. Cardinality(S \cup {a}) <= Cardinality(T)
  BY <1>1, <1>2, FS_Subset
<1>5. Cardinality(S) \in Nat /\ Cardinality(T) \in Nat
  BY <1>2, FS_CardinalityType
<1>6. Cardinality(S) + 1 < Cardinality(T) + 1
  BY <1>3, <1>4, <1>5
<1> QED
  BY <1>6 DEF Rank, S, T

\* Every place is the rank of one entry.
LEMMA RanksCover ==
    ASSUME NEW l, Len(l) \in Nat, \A i \in 1..Len(l) : l[i].name \in Nat
    PROVE  \A k \in 1..Len(l) : \E i \in 1..Len(l) : Rank(l, i) = k
<1> DEFINE n == Len(l)
           rank == [i \in 1..n |-> Rank(l, i)]
<1>1. \A i \in 1..n : Rank(l, i) \in 1..n
  BY RankIsPlace
<1>2. ASSUME NEW i \in 1..n, NEW j \in 1..n, Rank(l, i) = Rank(l, j) PROVE i = j
  <2>1. Ahead(l, i, j) \/ Ahead(l, j, i) \/ i = j
    <3>1. l[i].name \in Nat /\ l[j].name \in Nat
      OBVIOUS
    <3> QED
      BY <3>1 DEF Ahead
  <2>2. Rank(l, i) \in Nat
    BY <1>1
  <2>3. ~(Rank(l, i) < Rank(l, j)) /\ ~(Rank(l, j) < Rank(l, i))
    BY <1>2, <2>2
  <2> QED
    BY <2>1, <2>3, RanksFollow
<1>3. rank \in Injection(1..n, 1..n)
  BY <1>1, <1>2 DEF Injection, IsInjective
<1>4. IsFiniteSet(1..n)
  BY FS_Interval
<1>5. rank \in Surjection(1..n, 1..n)
  BY <1>3, <1>4, FS_Injection
<1> QED
  BY <1>5 DEF Surjection

\* children: the entries of the listing, and no others, in the order of
\* their names.
LEMMA ChildrenSorted ==
    ASSUME listing \in Listings, NEW d \in Directory
    PROVE  /\ Children(d) \in Seq(Entry)
           /\ ToSet(Children(d)) = ToSet(listing[d])
           /\ DistinctNames => \A i, j \in 1..Len(Children(d)) :
                                  i < j => Children(d)[i].name < Children(d)[j].name
<1> DEFINE l == listing[d]
           n == Len(l)
           At(k) == CHOOSE i \in 1..n : Rank(l, i) = k
           c == [k \in 1..n |-> l[At(k)]]
<1>1. l \in Seq(Entry) /\ n \in Nat /\ \A i \in 1..n : l[i] \in Entry /\ l[i].name \in Nat
  <2>1. l \in Seq(Entry)
    BY GraphAssumption DEF Entry
  <2>2. \A e \in Entry : e.name \in Nat
    BY DEF Entry
  <2> HIDE DEF l
  <2> QED
    BY <2>1, <2>2
<1>2. Children(d) = c
  BY DEF Children
<1> HIDE DEF l
<1>3. \A k \in 1..n : At(k) \in 1..n /\ Rank(l, At(k)) = k
  BY <1>1, RanksCover
<1>4. c \in Seq(Entry) /\ Len(c) = n
  BY <1>1, <1>3
<1>5. \A i \in 1..n : l[i] \in ToSet(c)
  <2> TAKE i \in 1..n
  <2>1. PICK k \in 1..n : Rank(l, i) = k
    BY <1>1, RankIsPlace
  <2>2. At(k) = i
    <3>1. At(k) \in 1..n /\ Rank(l, At(k)) = Rank(l, i)
      BY <1>3, <2>1
    <3>2. l[i].name \in Nat /\ l[At(k)].name \in Nat
      BY <1>1, <3>1
    <3>3. Ahead(l, i, At(k)) \/ Ahead(l, At(k), i) \/ i = At(k)
      BY <3>1, <3>2 DEF Ahead
    <3>4. ~(Rank(l, i) < Rank(l, At(k))) /\ ~(Rank(l, At(k)) < Rank(l, i))
      BY <2>1, <3>1
    <3> QED
      BY <1>1, <3>1, <3>3, <3>4, RanksFollow
  <2>3. c[k] = l[i] /\ k \in DOMAIN c
    BY <2>2
  <2> QED
    BY <2>3 DEF ToSet
<1>6. ToSet(c) = ToSet(l)
  <2>1. ToSet(c) \subseteq ToSet(l)
    BY <1>1, <1>3 DEF ToSet
  <2>2. ToSet(l) \subseteq ToSet(c)
    <3>1. \A x \in ToSet(l) : \E i \in 1..n : x = l[i]
      BY <1>1 DEF ToSet
    <3> QED
      BY <1>5, <3>1
  <2> QED
    BY <2>1, <2>2
<1>7. ASSUME DistinctNames, NEW i \in 1..n, NEW j \in 1..n, i < j
      PROVE  c[i].name < c[j].name
  <2>1. At(i) \in 1..n /\ At(j) \in 1..n /\ Rank(l, At(i)) < Rank(l, At(j))
    BY <1>3, <1>7
  <2>2. At(i) # At(j) /\ ~(Rank(l, At(j)) < Rank(l, At(i)))
    BY <1>3, <1>7
  <2>3. ~Ahead(l, At(j), At(i))
    BY <1>1, <2>1, <2>2, RanksFollow
  <2>4. l[At(i)].name # l[At(j)].name
    BY <1>7, <2>1, <2>2 DEF DistinctNames, IsInjective, l
  <2>5. l[At(i)].name \in Nat /\ l[At(j)].name \in Nat
    BY <1>1, <2>1
  <2> QED
    BY <2>3, <2>4, <2>5 DEF Ahead
<1> QED
  BY <1>2, <1>4, <1>6, <1>7 DEF l

-----------------------------------------------------------------------------
(* The walk.                                                               *)

Types ==
    /\ root \in Roots
    /\ listing \in Listings
    /\ stack \in Seq(Frames)
    /\ entries \in Seq(Lines)
    /\ listed \in Seq(Directory)
    /\ result = "started" => stack = << >> /\ entries = << >> /\ listed = << >>

\* The child at hand, and the stack when it has been taken from its iterator.
LEMMA ChildAtHand ==
    ASSUME Types, HasChild
    PROVE  /\ Len(stack) \in Nat \ {0}
           /\ Innermost \in Frames /\ Innermost = stack[Len(stack)]
           /\ Child \in Entry /\ ChildPath \in Seq(Nat)
           /\ Advanced \in Seq(Frames) /\ Len(Advanced) = Len(stack)
           /\ \A k \in 1..Len(stack) : k # Len(stack) => Advanced[k] = stack[k]
           /\ Advanced[Len(stack)].path = Innermost.path
           /\ Advanced[Len(stack)].left = Tail(Innermost.left)
<1> DEFINE n == Len(stack)
           top == stack[n]
<1>1. stack \in Seq(Frames) /\ n \in Nat \ {0} /\ Innermost = top /\ top \in Frames
  <2>1. stack \in Seq(Frames) /\ stack # << >>
    BY DEF Types, HasChild, Running
  <2> QED
    BY <2>1 DEF Innermost, Last
<1>2. top.path \in Seq(Nat) /\ top.left \in Seq(Entry) /\ top.left # << >>
  BY <1>1 DEF Frames, HasChild
<1>3. Child \in Entry /\ Child.name \in Nat
  <2>1. Head(top.left) \in Entry
    BY <1>2
  <2> QED
    BY <1>1, <2>1 DEF Child, Entry
<1>4. ChildPath \in Seq(Nat)
  BY <1>1, <1>2, <1>3 DEF ChildPath
<1>5. Tail(top.left) \in Seq(Entry)
  BY <1>2
<1>6. Advanced = [stack EXCEPT ![n] = [top EXCEPT !.left = Tail(top.left)]]
  BY <1>1 DEF Advanced
<1> DEFINE new == [top EXCEPT !.left = Tail(top.left)]
<1>7. new \in Frames /\ new.path = top.path /\ new.left = Tail(top.left)
  BY <1>1, <1>5 DEF Frames
<1> HIDE DEF n, top, new
<1>8. /\ Advanced \in Seq(Frames) /\ Len(Advanced) = Len(stack)
      /\ \A k \in 1..Len(stack) : k # n => Advanced[k] = stack[k]
      /\ Advanced[n] = new
  <2>1. n \in 1..Len(stack)
    BY <1>1 DEF n
  <2> QED
    BY <1>1, <1>6, <1>7, <2>1 DEF new
<1> QED
  BY <1>1, <1>3, <1>4, <1>7, <1>8 DEF n, top

\* The stack without its innermost iterator.
LEMMA FrontOfStack ==
    ASSUME Types, stack # << >>
    PROVE  /\ Front(stack) \in Seq(Frames)
           /\ Len(stack) \in Nat \ {0}
           /\ Len(Front(stack)) = Len(stack) - 1
           /\ \A k \in 1..(Len(stack) - 1) : Front(stack)[k] = stack[k]
<1>1. stack \in Seq(Frames) /\ Len(stack) \in Nat \ {0}
  BY DEF Types
<1> DEFINE n == Len(stack) - 1
<1>2. n \in Nat /\ n <= Len(stack) /\ \A k \in 1..n : stack[k] \in Frames
  BY <1>1
<1>3. Front(stack) = SubSeq(stack, 1, n)
  BY DEF Front
<1> HIDE DEF n
<1>4. SubSeq(stack, 1, n) = [k \in 1..n |-> stack[k]]
  BY <1>1, <1>2
<1>5. SubSeq(stack, 1, n) \in Seq(Frames) /\ Len(SubSeq(stack, 1, n)) = n
  BY <1>2, <1>4
<1> QED
  BY <1>1, <1>3, <1>4, <1>5 DEF n

\* The iterator of a directory is over its sorted entries.
LEMMA FrameType ==
    ASSUME listing \in Listings, NEW d \in Directory, NEW path \in Seq(Nat)
    PROVE  Frame(path, d) \in Frames
BY ChildrenSorted DEF Frame, Frames

\* Nothing has been read at first.
LEMMA InitTypes == Init => Types
BY DEF Init, Types

\* Every step keeps the types, and the image it walks.
LEMMA NextTypes ==
    Types /\ [Step]_vars => Types' /\ UNCHANGED <<root, number, listing>>
<1> SUFFICES ASSUME Types, [Step]_vars PROVE Types' /\ UNCHANGED <<root, number, listing>>
  OBVIOUS
<1>1. CASE ListFile
  <2> DEFINE line == [path |-> << >>, inode |-> root, revisited |-> FALSE]
  <2>1. line \in Lines
    BY GraphAssumption DEF Types, Lines
  <2>2. entries' \in Seq(Lines) /\ result' # "started"
    <3>1. CASE limit = 0
      BY <1>1, <3>1 DEF ListFile, Types
    <3>2. CASE limit # 0
      <4>1. entries' = <<line>> /\ result' = "ok"
        BY <1>1, <3>2 DEF ListFile
      <4> HIDE DEF line
      <4> QED
        BY <2>1, <4>1
    <3> QED
      BY <3>1, <3>2
  <2> QED
    BY <1>1, <2>2 DEF ListFile, Types
<1>2. CASE Start
  <2>1. << >> \in Seq(Nat) /\ root \in Directory /\ listing \in Listings
    BY <1>2 DEF Start, Types
  <2>2. Frame(<< >>, root) \in Frames
    BY <2>1, FrameType
  <2> QED
    BY <1>2, <2>1, <2>2 DEF Start, Types
<1>3. CASE Pop
  BY <1>3, FrontOfStack DEF Pop, Running, Types
<1>4. ASSUME NEW why, why # "started", Stop(why)
      PROVE  Types' /\ UNCHANGED <<root, number, listing>>
  BY <1>4 DEF Stop, Types
<1>5. ASSUME HasChild, NEW b \in BOOLEAN, Report(b),
             UNCHANGED <<root, number, listing>>, result' \in {result, "error"},
             \/ stack' = Advanced /\ listed' = listed
             \/ /\ Child.inode \in Directory
                /\ stack' = Append(Advanced, Frame(ChildPath, Child.inode))
                /\ listed' = Append(listed, Child.inode)
      PROVE  Types' /\ UNCHANGED <<root, number, listing>>
  <2>1. Child \in Entry /\ ChildPath \in Seq(Nat) /\ Advanced \in Seq(Frames)
    BY <1>5, ChildAtHand
  <2>2. entries' \in Seq(Lines)
    <3>1. [path |-> ChildPath, inode |-> Child.inode, revisited |-> b] \in Lines
      BY <1>5, <2>1 DEF Lines, Entry
    <3> QED
      BY <1>5, <3>1 DEF Report, Types
  <2>3. result' # "started"
    BY <1>5 DEF HasChild, Running
  <2>4. listing \in Listings
    BY DEF Types
  <2>5. stack' \in Seq(Frames) /\ listed' \in Seq(Directory)
    <3>1. CASE stack' = Advanced /\ listed' = listed
      BY <2>1, <3>1 DEF Types
    <3>2. CASE /\ Child.inode \in Directory
               /\ stack' = Append(Advanced, Frame(ChildPath, Child.inode))
               /\ listed' = Append(listed, Child.inode)
      <4>1. Frame(ChildPath, Child.inode) \in Frames
        BY <2>1, <2>4, <3>2, FrameType
      <4> QED
        BY <2>1, <3>2, <4>1 DEF Types
    <3> QED
      BY <1>5, <3>1, <3>2
  <2> QED
    BY <1>5, <2>2, <2>3, <2>5 DEF Types
<1>6. CASE LimitReached \/ DepthReached \/ ReadInodeFails \/ StartFails \/ Done
  BY <1>4, <1>6 DEF LimitReached, DepthReached, ReadInodeFails, StartFails, Done
<1>7. CASE Leaf
  <2>1. PICK b \in BOOLEAN : b <=> Child.inode \in Directory
    <3>1. CASE Child.inode \in Directory
      BY <3>1
    <3>2. CASE Child.inode \notin Directory
      BY <3>2
    <3> QED
      BY <3>1, <3>2
  <2>2. HasChild /\ Report(b) /\ result' = result /\ stack' = Advanced /\ listed' = listed
        /\ UNCHANGED <<root, number, listing>>
    BY <1>7, <2>1 DEF Leaf
  <2> QED
    BY <1>5, <2>2
<1>8. CASE Descend
  BY <1>5, <1>8 DEF Descend
<1>9. CASE ReadDirFails
  BY <1>5, <1>9 DEF ReadDirFails
<1>10. CASE UNCHANGED vars
  BY <1>10 DEF vars, Types
<1> QED
  BY <1>1, <1>2, <1>3, <1>6, <1>7, <1>8, <1>9, <1>10 DEF Step

-----------------------------------------------------------------------------
(* Cycles.                                                                 *)

\* The directories read have been met, no two by one number, and an iterator
\* stays on the stack for no more than one reading.
Once ==
    /\ \A i \in 1..Len(listed) : number[listed[i]] \in visited
    /\ \A i, j \in 1..Len(listed) : number[listed[i]] = number[listed[j]] => i = j
    /\ Len(stack) <= Len(listed)

\* Descend enters a directory only under a number that is new.
LEMMA NextOnce == Types /\ Once /\ [Step]_vars => Once'
<1> SUFFICES ASSUME Types, Once, [Step]_vars PROVE Once'
  OBVIOUS
<1>0. Len(stack) \in Nat /\ Len(listed) \in Nat /\ listed \in Seq(Directory)
  BY DEF Types
<1>1. CASE Start
  <2>1. /\ listed' = <<root>> /\ Len(listed') = 1 /\ listed'[1] = root
        /\ Len(stack') = 1 /\ visited' = {number[root]} /\ number' = number
    BY <1>1 DEF Start
  <2> QED
    BY <2>1 DEF Once
<1>2. CASE Pop
  <2>1. Len(stack') = Len(stack) - 1
    BY <1>2, FrontOfStack DEF Pop, Running
  <2>2. UNCHANGED <<listed, number, visited>>
    BY <1>2 DEF Pop
  <2> QED
    BY <1>0, <2>1, <2>2 DEF Once
<1>3. CASE Descend
  <2> DEFINE n == Len(listed)
             d == Child.inode
  <2>1. /\ listed' = Append(listed, d) /\ number' = number
        /\ visited' = visited \cup {number[d]} /\ number[d] \notin visited
    BY <1>3 DEF Descend, Met
  <2>2. Len(stack') = Len(stack) + 1
    <3>1. Advanced \in Seq(Frames) /\ Len(Advanced) = Len(stack)
      BY <1>3, ChildAtHand DEF Descend
    <3>2. stack' = Append(Advanced, Frame(ChildPath, d))
      BY <1>3 DEF Descend
    <3> QED
      BY <3>1, <3>2
  <2> HIDE DEF d
  <2>3. /\ n \in Nat /\ Len(listed') = n + 1 /\ listed'[n + 1] = d
        /\ \A i \in 1..n : listed'[i] = listed[i]
    BY <1>0, <2>1
  <2> HIDE DEF n
  <2>4. /\ \A i \in 1..n : number[listed[i]] \in visited
        /\ \A i, j \in 1..n : number[listed[i]] = number[listed[j]] => i = j
        /\ Len(stack) <= n
    BY DEF Once, n
  <2>5. \A i \in 1..(n + 1) : i \in 1..n \/ i = n + 1
    BY <2>3
  <2>6. ASSUME NEW i \in 1..(n + 1) PROVE number[listed'[i]] \in visited'
    BY <2>1, <2>3, <2>4, <2>5
  <2>7. ASSUME NEW i \in 1..(n + 1), NEW j \in 1..(n + 1),
               number[listed'[i]] = number[listed'[j]]
        PROVE  i = j
    <3>1. CASE i \in 1..n /\ j \in 1..n
      BY <2>3, <2>4, <2>7, <3>1
    <3>2. CASE i = n + 1 /\ j = n + 1
      BY <3>2
    <3>3. CASE i = n + 1 /\ j \in 1..n
      BY <2>1, <2>3, <2>4, <2>7, <3>3
    <3>4. CASE i \in 1..n /\ j = n + 1
      BY <2>1, <2>3, <2>4, <2>7, <3>4
    <3> QED
      BY <2>5, <3>1, <3>2, <3>3, <3>4
  <2>8. Len(stack') <= n + 1
    BY <1>0, <2>2, <2>3, <2>4
  <2> QED
    BY <2>1, <2>3, <2>6, <2>7, <2>8 DEF Once
<1>4. CASE Leaf \/ ReadDirFails
  <2>1. HasChild /\ listed' = listed /\ number' = number /\ stack' = Advanced
        /\ visited \subseteq visited'
    BY <1>4 DEF Leaf, ReadDirFails
  <2>2. Len(stack') = Len(stack)
    BY <2>1, ChildAtHand
  <2> QED
    BY <2>1, <2>2 DEF Once
<1>5. CASE UNCHANGED <<listed, number, visited, stack>>
  BY <1>5 DEF Once
<1> QED
  BY <1>1, <1>2, <1>3, <1>4, <1>5
  DEF Step, vars, ListFile, StartFails, LimitReached, DepthReached, ReadInodeFails, Done, Stop

\* Whatever cycles and second names the image gives its directories, none is
\* read twice, and the stack is never deeper than there are directories read.
THEOREM NoneListedTwice == Spec => []ListedOnce
<1>1. Init => Once
  BY DEF Init, Once
<1>2. Once => ListedOnce
  BY DEF Once, ListedOnce, IsInjective
<1> QED
  BY <1>1, <1>2, InitTypes, NextTypes, NextOnce, PTL DEF Spec

-----------------------------------------------------------------------------
(* The order of the report.                                                *)

\* A path that goes on is behind its beginning.
LEMMA PrefixPrecedes ==
    ASSUME NEW p \in Seq(Nat), NEW n \in Nat
    PROVE  Precedes(p, Append(p, n))
<1> DEFINE q == Append(p, n)
<1>1. q \in Seq(Nat) /\ Len(q) = Len(p) + 1 /\ \A m \in 1..Len(p) : q[m] = p[m]
  OBVIOUS
<1>2. SubSeq(p, 1, Len(p)) = [m \in 1..Len(p) |-> p[m]]
  OBVIOUS
<1> HIDE DEF q
<1>3. SubSeq(q, 1, Len(p)) = [m \in 1..Len(p) |-> q[m]]
  BY <1>1
<1>4. SubSeq(p, 1, Len(p)) = SubSeq(q, 1, Len(p))
  BY <1>1, <1>2, <1>3
<1>5. p # q /\ Len(p) <= Len(q)
  BY <1>1
<1> QED
  BY <1>4, <1>5 DEF Precedes, IsStrictPrefix, IsPrefix, q

\* Where two paths first differ, their order is decided.
LEMMA DifferencePrecedes ==
    ASSUME NEW p \in Seq(Nat), NEW q \in Seq(Nat), NEW n \in Nat \ {0},
           n <= Len(p), n <= Len(q), \A m \in 1..(n - 1) : p[m] = q[m], p[n] < q[n]
    PROVE  Precedes(p, q)
<1>1. /\ SubSeq(p, 1, n - 1) = [m \in 1..(n - 1) |-> p[m]]
      /\ SubSeq(q, 1, n - 1) = [m \in 1..(n - 1) |-> q[m]]
  OBVIOUS
<1>2. SubSeq(p, 1, n - 1) = SubSeq(q, 1, n - 1)
  BY <1>1
<1>3. n \in 1..Len(p)
  OBVIOUS
<1> QED
  BY <1>2, <1>3 DEF Precedes

\* The path p goes through the k-th frame f, and is before all it has left.
Leads(p, k, f) ==
    /\ \A m \in 1..(k - 1) : p[m] = f.path[m]
    /\ \A i \in 1..Len(f.left) : p[k] < f.left[i].name

Ascending(l) == \A i, j \in 1..Len(l) : i < j => l[i].name < l[j].name

\* Every path that is to come: below frame f, which is the k-th.
OrderedOn(s, e) ==
    /\ \A k \in 1..Len(s) : Len(s[k].path) = k - 1 /\ Ascending(s[k].left)
    /\ \A j, k \in 1..Len(s) : j < k => Leads(s[k].path, j, s[j])
    /\ \A i \in 1..(Len(e) - 1) : Precedes(e[i].path, e[i + 1].path)
    /\ e # << >> => \A k \in 1..Len(s) : \A i \in 1..Len(s[k].left) :
                       Precedes(e[Len(e)].path, Append(s[k].path, s[k].left[i].name))

\* The child at hand comes behind what is reported and before what is left.
LEMMA ReportInOrder ==
    ASSUME Types, HasChild, OrderedOn(stack, entries), NEW line \in Lines,
           line.path = ChildPath
    PROVE  /\ Len(ChildPath) = Len(stack)
           /\ \A k \in 1..Len(stack) : Leads(ChildPath, k, Advanced[k])
           /\ OrderedOn(Advanced, Append(entries, line))
<1> DEFINE n == Len(stack)
           top == stack[n]
           p == ChildPath
           A == Advanced
           e == Append(entries, line)
<1>1. /\ n \in Nat \ {0} /\ stack \in Seq(Frames) /\ n \in 1..n
      /\ top \in Frames /\ top.path \in Seq(Nat) /\ top.left \in Seq(Entry)
      /\ A \in Seq(Frames) /\ Len(A) = n /\ p \in Seq(Nat)
      /\ \A k \in 1..n : k # n => A[k] = stack[k]
      /\ A[n].path = top.path /\ A[n].left = Tail(top.left)
  BY ChildAtHand DEF Types, Frames
<1>2. top.left # << >> /\ Child = top.left[1] /\ Child.name \in Nat
      /\ p = Append(top.path, Child.name)
  <2>1. top.left # << >> /\ Child = Head(top.left) /\ p = Append(top.path, Child.name)
    BY ChildAtHand DEF HasChild, Child, ChildPath
  <2>2. Child \in Entry
    BY ChildAtHand
  <2> QED
    BY <1>1, <2>1, <2>2 DEF Entry
<1>3. /\ \A k \in 1..n : Len(stack[k].path) = k - 1 /\ Ascending(stack[k].left)
      /\ \A j, k \in 1..n : j < k => Leads(stack[k].path, j, stack[j])
  BY DEF OrderedOn
<1> HIDE DEF p, A, n
<1>4. Len(p) = n /\ p[n] = Child.name /\ \A m \in 1..(n - 1) : p[m] = top.path[m]
  <2>1. Len(top.path) = n - 1
    BY <1>1, <1>3
  <2> QED
    BY <1>1, <1>2, <2>1
<1>5. \A k \in 1..n : A[k].path = stack[k].path
  BY <1>1
<1>6. /\ Len(A[n].left) = Len(top.left) - 1 /\ Len(top.left) \in Nat \ {0}
      /\ \A i \in 1..Len(A[n].left) : A[n].left[i] = top.left[i + 1]
  BY <1>1, <1>2
<1>7. \A k \in 1..n : Leads(p, k, A[k])
  <2> TAKE k \in 1..n
  <2>1. CASE k # n
    <3>1. k < n /\ k \in 1..(n - 1) /\ A[k] = stack[k] /\ Leads(top.path, k, stack[k])
      BY <1>1, <1>3, <2>1
    <3>2. \A m \in 1..(k - 1) : m \in 1..(n - 1)
      BY <1>1, <3>1
    <3> QED
      BY <1>4, <3>1, <3>2 DEF Leads
  <2>2. CASE k = n
    <3>1. \A m \in 1..(n - 1) : p[m] = A[n].path[m]
      BY <1>1, <1>4
    <3>2. ASSUME NEW i \in 1..Len(A[n].left) PROVE p[n] < A[n].left[i].name
      <4>1. 1 \in 1..Len(top.left) /\ i + 1 \in 1..Len(top.left) /\ 1 < i + 1
        BY <1>6, <3>2
      <4>2. top.left[1].name < top.left[i + 1].name
        BY <1>1, <1>3, <4>1 DEF Ascending
      <4> QED
        BY <1>2, <1>4, <1>6, <3>2, <4>2
    <3> QED
      BY <2>2, <3>1, <3>2 DEF Leads
  <2> QED
    BY <2>1, <2>2
<1>8. \A k \in 1..n : Len(A[k].path) = k - 1 /\ Ascending(A[k].left)
  <2> TAKE k \in 1..n
  <2>1. CASE k # n
    BY <1>1, <1>3, <2>1
  <2>2. Len(A[n].path) = n - 1
    BY <1>1, <1>3
  <2>3. Ascending(A[n].left)
    <3> SUFFICES ASSUME NEW i \in 1..Len(A[n].left), NEW j \in 1..Len(A[n].left), i < j
                 PROVE  A[n].left[i].name < A[n].left[j].name
      BY DEF Ascending
    <3>1. i + 1 \in 1..Len(top.left) /\ j + 1 \in 1..Len(top.left) /\ i + 1 < j + 1
      BY <1>6
    <3>2. top.left[i + 1].name < top.left[j + 1].name
      BY <1>1, <1>3, <3>1 DEF Ascending
    <3> QED
      BY <1>6, <3>2
  <2> QED
    BY <2>1, <2>2, <2>3
<1>9. \A j, k \in 1..n : j < k => Leads(A[k].path, j, A[j])
  <2> TAKE j, k \in 1..n
  <2> SUFFICES ASSUME j < k PROVE Leads(A[k].path, j, A[j])
    OBVIOUS
  <2>1. j # n
    BY <1>1
  <2> QED
    BY <1>1, <1>3, <1>5, <2>1
<1>10. /\ entries \in Seq(Lines) /\ Len(entries) \in Nat /\ Len(e) = Len(entries) + 1
       /\ e[Len(entries) + 1] = line
       /\ \A i \in 1..Len(entries) : e[i] = entries[i]
  BY DEF Types
<1>11. entries # << >> => Precedes(entries[Len(entries)].path, p)
  <2>1. 1 \in 1..Len(top.left)
    BY <1>6
  <2>2. entries # << >> =>
           Precedes(entries[Len(entries)].path, Append(top.path, top.left[1].name))
    BY <1>1, <2>1 DEF OrderedOn, n
  <2> QED
    BY <1>2, <2>2
<1> HIDE DEF e, top
<1>12. \A i \in 1..(Len(e) - 1) : Precedes(e[i].path, e[i + 1].path)
  <2> TAKE i \in 1..(Len(e) - 1)
  <2>1. i \in 1..Len(entries)
    BY <1>10
  <2>2. CASE i = Len(entries)
    BY <1>10, <1>11, <2>1, <2>2 DEF p
  <2>3. CASE i # Len(entries)
    <3>1. i \in 1..(Len(entries) - 1) /\ i + 1 \in 1..Len(entries)
      BY <1>10, <2>1, <2>3
    <3> QED
      BY <1>10, <2>1, <3>1 DEF OrderedOn
  <2> QED
    BY <2>2, <2>3
<1>13. \A k \in 1..n : \A i \in 1..Len(A[k].left) :
           Precedes(p, Append(A[k].path, A[k].left[i].name))
  <2> TAKE k \in 1..n
  <2> TAKE i \in 1..Len(A[k].left)
  <2> DEFINE q == Append(A[k].path, A[k].left[i].name)
  <2>1. A[k].path \in Seq(Nat) /\ A[k].left[i].name \in Nat
    <3>1. A[k] \in Frames
      BY <1>1
    <3>2. A[k].path \in Seq(Nat) /\ A[k].left \in Seq(Entry)
      BY <3>1 DEF Frames
    <3>3. A[k].left[i] \in Entry
      BY <3>2
    <3> QED
      BY <3>2, <3>3 DEF Entry
  <2>2. q \in Seq(Nat) /\ Len(q) = k /\ q[k] = A[k].left[i].name
        /\ \A m \in 1..(k - 1) : q[m] = A[k].path[m]
    <3> DEFINE r == A[k].path
               name == A[k].left[i].name
    <3>1. r \in Seq(Nat) /\ name \in Nat /\ k \in Nat \ {0} /\ Len(r) = k - 1
      BY <1>1, <1>8, <2>1
    <3> HIDE DEF r, name
    <3>2. /\ Append(r, name) \in Seq(Nat) /\ Len(Append(r, name)) = k
          /\ Append(r, name)[k] = name /\ \A m \in 1..(k - 1) : Append(r, name)[m] = r[m]
      BY <3>1
    <3> QED
      BY <3>2 DEF r, name
  <2>3. (\A m \in 1..(k - 1) : p[m] = A[k].path[m]) /\ p[k] < A[k].left[i].name
    BY <1>7 DEF Leads
  <2>4. k \in Nat \ {0} /\ k <= Len(p)
    BY <1>1, <1>4
  <2> HIDE DEF q
  <2>5. Precedes(p, q)
    <3>1. p \in Seq(Nat) /\ k <= Len(q) /\ p[k] < q[k] /\ \A m \in 1..(k - 1) : p[m] = q[m]
      BY <1>1, <2>2, <2>3, <2>4
    <3> QED
      BY <2>2, <2>4, <3>1, DifferencePrecedes, Zenon
  <2> QED
    BY <2>5 DEF q
<1>14. OrderedOn(A, e)
  BY <1>1, <1>8, <1>9, <1>10, <1>12, <1>13 DEF OrderedOn, p
<1> QED
  BY <1>4, <1>7, <1>14 DEF p, A, n, e

\* A directory is entered at the path that was just reported.
LEMMA EnterInOrder ==
    ASSUME NEW s \in Seq(Frames), NEW e \in Seq(Lines), OrderedOn(s, e), e # << >>,
           NEW f \in Frames, f.path = e[Len(e)].path, Ascending(f.left),
           Len(f.path) = Len(s), \A k \in 1..Len(s) : Leads(f.path, k, s[k])
    PROVE  OrderedOn(Append(s, f), e)
<1> DEFINE n == Len(s)
           t == Append(s, f)
<1>1. /\ n \in Nat /\ Len(t) = n + 1 /\ t[n + 1] = f /\ \A k \in 1..n : t[k] = s[k]
      /\ f.path \in Seq(Nat) /\ f.left \in Seq(Entry)
  BY DEF Frames
<1>2. /\ \A k \in 1..n : Len(s[k].path) = k - 1 /\ Ascending(s[k].left)
      /\ \A j, k \in 1..n : j < k => Leads(s[k].path, j, s[j])
      /\ \A i \in 1..(Len(e) - 1) : Precedes(e[i].path, e[i + 1].path)
      /\ \A k \in 1..n : \A i \in 1..Len(s[k].left) :
            Precedes(f.path, Append(s[k].path, s[k].left[i].name))
  BY DEF OrderedOn
<1>3. Len(f.path) = n /\ \A k \in 1..n : Leads(f.path, k, s[k])
  OBVIOUS
<1> HIDE DEF t, n
<1>4. \A k \in 1..(n + 1) : k \in 1..n \/ k = n + 1
  BY <1>1
<1>5. \A k \in 1..(n + 1) : Len(t[k].path) = k - 1 /\ Ascending(t[k].left)
  <2> TAKE k \in 1..(n + 1)
  <2>1. CASE k \in 1..n
    BY <1>1, <1>2, <2>1
  <2>2. CASE k = n + 1
    BY <1>1, <1>3, <2>2
  <2> QED
    BY <1>4, <2>1, <2>2
<1>6. \A j, k \in 1..(n + 1) : j < k => Leads(t[k].path, j, t[j])
  <2> TAKE j, k \in 1..(n + 1)
  <2> SUFFICES ASSUME j < k PROVE Leads(t[k].path, j, t[j])
    OBVIOUS
  <2>1. j \in 1..n
    BY <1>1
  <2>2. CASE k \in 1..n
    BY <1>1, <1>2, <2>1, <2>2
  <2>3. CASE k = n + 1
    BY <1>1, <1>3, <2>1, <2>3
  <2> QED
    BY <1>4, <2>2, <2>3
<1>7. \A k \in 1..(n + 1) : \A i \in 1..Len(t[k].left) :
         Precedes(f.path, Append(t[k].path, t[k].left[i].name))
  <2> TAKE k \in 1..(n + 1)
  <2>1. CASE k \in 1..n
    BY <1>1, <1>2, <2>1
  <2>2. CASE k = n + 1
    <3>1. t[k] = f
      BY <1>1, <2>2
    <3>2. ASSUME NEW i \in 1..Len(f.left) PROVE f.left[i].name \in Nat
      <4>1. f.left[i] \in Entry
        BY <1>1
      <4> QED
        BY <4>1 DEF Entry
    <3> QED
      BY <1>1, <3>1, <3>2, PrefixPrecedes
  <2> QED
    BY <1>4, <2>1, <2>2
<1> QED
  BY <1>1, <1>2, <1>5, <1>6, <1>7 DEF OrderedOn, t

\* So the report is in order, with all that is to come behind it.
OrderKept == DistinctNames => OrderedOn(stack, entries)

\* Every step keeps it so.
LEMMA NextOrder == Types /\ OrderKept /\ [Step]_vars => OrderKept'
<1> SUFFICES ASSUME Types, OrderKept, [Step]_vars, DistinctNames'
             PROVE  OrderedOn(stack', entries')
  BY DEF OrderKept, OrderedOn, Ascending, Leads
<1>0. OrderedOn(stack, entries) /\ DistinctNames
  <2>1. listing' = listing
    BY NextTypes
  <2> QED
    BY <2>1 DEF OrderKept, DistinctNames
<1>1. CASE ListFile
  <2>1. stack' = << >> /\ Len(entries') \in {0, 1}
    <3>1. stack = << >> /\ entries = << >>
      BY <1>1 DEF ListFile, Types
    <3>2. stack' = << >>
      BY <1>1, <3>1 DEF ListFile
    <3>3. CASE limit = 0
      BY <1>1, <3>1, <3>2, <3>3 DEF ListFile
    <3>4. CASE limit # 0
      <4> DEFINE line == [path |-> << >>, inode |-> root, revisited |-> FALSE]
      <4>1. entries' = <<line>>
        BY <1>1, <3>4 DEF ListFile
      <4> HIDE DEF line
      <4> QED
        BY <3>2, <4>1
    <3> QED
      BY <3>3, <3>4
  <2> QED
    BY <2>1 DEF OrderedOn
<1>2. CASE Start
  <2> DEFINE f == Frame(<< >>, root)
  <2>1. stack' = <<f>> /\ entries' = << >> /\ root \in Directory /\ listing \in Listings
    BY <1>2 DEF Start, Types
  <2>2. f.path = << >> /\ Ascending(f.left)
    BY <1>0, <2>1, ChildrenSorted DEF Frame, Ascending
  <2> HIDE DEF f
  <2>3. Len(stack') = 1 /\ stack'[1] = f /\ Len(f.path) = 0
    BY <2>1, <2>2
  <2> QED
    BY <2>1, <2>2, <2>3 DEF OrderedOn
<1>3. CASE Pop
  <2>1. entries' = entries /\ stack' = Front(stack) /\ stack # << >>
    BY <1>3 DEF Pop, Running
  <2>2. /\ Len(stack) \in Nat \ {0} /\ Len(stack') = Len(stack) - 1
        /\ \A k \in 1..(Len(stack) - 1) : stack'[k] = stack[k]
    BY <2>1, FrontOfStack
  <2> DEFINE n == Len(stack)
             s == stack'
             e == entries
  <2>3. /\ n \in Nat \ {0} /\ Len(s) = n - 1
        /\ \A k \in 1..(n - 1) : s[k] = stack[k] /\ k \in 1..n
    BY <2>2
  <2>4. /\ \A k \in 1..n : Len(stack[k].path) = k - 1 /\ Ascending(stack[k].left)
        /\ \A j, k \in 1..n : j < k => Leads(stack[k].path, j, stack[j])
        /\ \A i \in 1..(Len(e) - 1) : Precedes(e[i].path, e[i + 1].path)
        /\ e # << >> => \A k \in 1..n : \A i \in 1..Len(stack[k].left) :
              Precedes(e[Len(e)].path, Append(stack[k].path, stack[k].left[i].name))
    BY <1>0 DEF OrderedOn
  <2> HIDE DEF n, s, e
  <2>5. \A k \in 1..(n - 1) : Len(s[k].path) = k - 1 /\ Ascending(s[k].left)
    BY <2>3, <2>4
  <2>6. \A j, k \in 1..(n - 1) : j < k => Leads(s[k].path, j, s[j])
    BY <2>3, <2>4
  <2>7. e # << >> => \A k \in 1..(n - 1) : \A i \in 1..Len(s[k].left) :
           Precedes(e[Len(e)].path, Append(s[k].path, s[k].left[i].name))
    BY <2>3, <2>4
  <2>8. OrderedOn(s, e)
    BY <2>3, <2>4, <2>5, <2>6, <2>7 DEF OrderedOn
  <2> QED
    BY <2>1, <2>8 DEF s, e
<1>4. ASSUME HasChild, NEW b \in BOOLEAN, Report(b)
      PROVE  \E line \in Lines : line.path = ChildPath /\ entries' = Append(entries, line)
  <2> DEFINE line == [path |-> ChildPath, inode |-> Child.inode, revisited |-> b]
  <2>1. line \in Lines /\ line.path = ChildPath /\ entries' = Append(entries, line)
    BY <1>4, ChildAtHand DEF Report, Lines, Entry
  <2> QED
    BY <2>1
<1>5. CASE Leaf \/ ReadDirFails
  <2>1. HasChild /\ stack' = Advanced /\ \E b \in BOOLEAN : Report(b)
    <3>1. CASE Leaf
      <4>1. PICK b \in BOOLEAN : b <=> Child.inode \in Directory
        <5>1. CASE Child.inode \in Directory
          BY <5>1
        <5>2. CASE Child.inode \notin Directory
          BY <5>2
        <5> QED
          BY <5>1, <5>2
      <4> QED
        BY <3>1, <4>1 DEF Leaf
    <3>2. CASE ReadDirFails
      BY <3>2 DEF ReadDirFails
    <3> QED
      BY <1>5, <3>1, <3>2
  <2> QED
    BY <1>0, <1>4, <2>1, ReportInOrder
<1>6. CASE Descend
  <2> DEFINE f == Frame(ChildPath, Child.inode)
  <2>1. HasChild /\ Report(FALSE) /\ Child.inode \in Directory /\ stack' = Append(Advanced, f)
    BY <1>6 DEF Descend
  <2>2. PICK line \in Lines : line.path = ChildPath /\ entries' = Append(entries, line)
    BY <1>4, <2>1
  <2>3. /\ Len(ChildPath) = Len(stack)
        /\ \A k \in 1..Len(stack) : Leads(ChildPath, k, Advanced[k])
        /\ OrderedOn(Advanced, entries')
    BY <1>0, <2>1, <2>2, ReportInOrder
  <2>4. ChildPath \in Seq(Nat) /\ Advanced \in Seq(Frames) /\ Len(Advanced) = Len(stack)
    BY <2>1, ChildAtHand
  <2>5. entries \in Seq(Lines) /\ listing \in Listings
    BY DEF Types
  <2>6. f \in Frames /\ f.path = ChildPath /\ Ascending(f.left)
    BY <1>0, <2>1, <2>4, <2>5, FrameType, ChildrenSorted DEF Frame, Ascending
  <2> HIDE DEF f
  <2>7. entries' \in Seq(Lines) /\ entries' # << >> /\ entries'[Len(entries')].path = f.path
    BY <2>2, <2>5, <2>6
  <2>8. OrderedOn(Append(Advanced, f), entries')
    BY <2>3, <2>4, <2>6, <2>7, EnterInOrder
  <2> QED
    BY <2>1, <2>8
<1>7. CASE UNCHANGED <<stack, entries>>
  BY <1>0, <1>7 DEF OrderedOn, Ascending, Leads
<1> QED
  BY <1>1, <1>2, <1>3, <1>5, <1>6, <1>7
  DEF Step, vars, StartFails, LimitReached, DepthReached, ReadInodeFails, Done, Stop

\* The report, whole or cut short, is sorted by path, whatever the graph.
THEOREM ReportSorted == Spec => []InPathOrder
<1>1. Init => OrderKept
  BY DEF Init, OrderKept, OrderedOn
<1>2. OrderKept => InPathOrder
  BY DEF OrderKept, OrderedOn, InPathOrder
<1> QED
  BY <1>1, <1>2, InitTypes, NextTypes, NextOrder, PTL DEF Spec

-----------------------------------------------------------------------------
(* What a walk that succeeds has reported.                                 *)

\* The entries in S, told below path p.
Rows(p, S) == {<<Append(p, c.name), c.inode>> : c \in S}

Told(e) == {<<e[i].path, e[i].inode>> : i \in 1..Len(e)}

ToCome(s) == UNION {Rows(s[k].path, ToSet(s[k].left)) : k \in 1..Len(s)}

\* EnteredAt, by the lines e.
PathBy(e, d) ==
    IF d = root THEN << >>
    ELSE LET n == CHOOSE i \in 1..Len(e) : e[i].inode = d /\ ~e[i].revisited
         IN  e[n].path

Due(e, l) == UNION {Rows(PathBy(e, d), ToSet(listing[d])) : d \in ToSet(l)}

\* The line that tells of directory d when the walk enters it.
Enters(line, d) == line.inode = d /\ ~line.revisited

\* Every directory met has been read; each of them but the root was entered
\* by one line; and what is told, with what is to come, is what is in them.
Walked(e, s, l, v) ==
    /\ root \in ToSet(l)
    /\ \A d \in Directory : number[d] \in v => d \in ToSet(l)
    /\ \A i \in 1..Len(e) : e[i].inode \in Directory => e[i].inode \in ToSet(l)
    /\ \A i \in 1..Len(e) : ~Enters(e[i], root)
    /\ \A i, j \in 1..Len(e) : \A d \in Directory : Enters(e[i], d) /\ Enters(e[j], d) => i = j
    /\ \A d \in ToSet(l) : d # root => \E i \in 1..Len(e) : Enters(e[i], d)
    /\ Told(e) \cup ToCome(s) = Due(e, l)

NumbersDiffer == \A c, d \in Directory : number[c] = number[d] => c = d

\* The one line that enters a directory gives its path.
LEMMA PathByLine ==
    ASSUME NEW e, NEW d, d # root, NEW i \in 1..Len(e), Enters(e[i], d),
           \A j \in 1..Len(e) : Enters(e[j], d) => j = i
    PROVE  PathBy(e, d) = e[i].path
<1> DEFINE n == CHOOSE j \in 1..Len(e) : e[j].inode = d /\ ~e[j].revisited
<1>1. n = i
  BY DEF Enters
<1> QED
  BY <1>1 DEF PathBy

\* A line more tells one row more.
LEMMA ToldAppend ==
    ASSUME NEW e \in Seq(Lines), NEW line \in Lines
    PROVE  Told(Append(e, line)) = Told(e) \cup {<<line.path, line.inode>>}
<1> DEFINE n == Len(e)
           t == Append(e, line)
<1>1. n \in Nat /\ Len(t) = n + 1 /\ t[n + 1] = line /\ \A i \in 1..n : t[i] = e[i]
  OBVIOUS
<1> HIDE DEF n, t
<1>2. \A i \in 1..(n + 1) : i \in 1..n \/ i = n + 1
  BY <1>1
<1>3. 1..n \subseteq 1..(n + 1) /\ n + 1 \in 1..(n + 1)
  BY <1>1
<1>4. {<<t[i].path, t[i].inode>> : i \in 1..(n + 1)}
      = {<<e[i].path, e[i].inode>> : i \in 1..n} \cup {<<line.path, line.inode>>}
  BY <1>1, <1>2, <1>3
<1> QED
  BY <1>1, <1>4 DEF Told, t, n

\* A line that enters no directory read before leaves their paths alone.
LEMMA PathByAppend ==
    ASSUME NEW e \in Seq(Lines), NEW line \in Lines, NEW d \in Directory, ~Enters(line, d),
           d # root => \E i \in 1..Len(e) : Enters(e[i], d),
           \A i, j \in 1..Len(e) : Enters(e[i], d) /\ Enters(e[j], d) => i = j
    PROVE  PathBy(Append(e, line), d) = PathBy(e, d)
<1>1. CASE d = root
  BY <1>1 DEF PathBy
<1>2. CASE d # root
  <2> DEFINE n == Len(e)
             t == Append(e, line)
  <2>1. PICK i \in 1..n : Enters(e[i], d)
    BY <1>2
  <2>2. n \in Nat /\ Len(t) = n + 1 /\ t[n + 1] = line /\ \A j \in 1..n : t[j] = e[j]
    OBVIOUS
  <2>3. PathBy(e, d) = e[i].path
    BY <1>2, <2>1, PathByLine
  <2> HIDE DEF t
  <2>4. i \in 1..Len(t) /\ Enters(t[i], d) /\ t[i] = e[i]
    BY <2>1, <2>2
  <2>5. ASSUME NEW j \in 1..Len(t), Enters(t[j], d) PROVE j = i
    <3>1. j \in 1..n
      <4>1. j # n + 1
        BY <2>2, <2>5
      <4> QED
        BY <2>2, <4>1
    <3> QED
      BY <2>1, <2>2, <2>5, <3>1
  <2>6. PathBy(t, d) = t[i].path
    BY <1>2, <2>4, <2>5, PathByLine
  <2> QED
    BY <2>3, <2>4, <2>6 DEF t
<1> QED
  BY <1>1, <1>2

\* The child at hand is all that its step takes from what is to come.
LEMMA ToComeTaken ==
    ASSUME Types, HasChild
    PROVE  ToCome(stack) = ToCome(Advanced) \cup {<<ChildPath, Child.inode>>}
<1> DEFINE n == Len(stack)
           p == Innermost.path
           l == Innermost.left
<1>1. /\ n \in Nat \ {0} /\ Innermost = stack[n] /\ Innermost \in Frames
      /\ Len(Advanced) = n /\ \A k \in 1..n : k # n => Advanced[k] = stack[k]
      /\ Advanced[n].path = p /\ Advanced[n].left = Tail(l)
  BY ChildAtHand
<1>2. l \in Seq(Entry) /\ l # << >>
  BY <1>1 DEF Frames, HasChild
<1>3. ToSet(l) = ToSet(Tail(l)) \cup {Head(l)}
  <2>1. /\ Len(l) \in Nat \ {0} /\ Head(l) = l[1] /\ Len(Tail(l)) = Len(l) - 1
        /\ \A i \in 1..(Len(l) - 1) : Tail(l)[i] = l[i + 1]
        /\ DOMAIN l = 1..Len(l) /\ DOMAIN Tail(l) = 1..(Len(l) - 1)
    BY <1>2
  <2> HIDE DEF l
  <2>2. ASSUME NEW x \in ToSet(l) PROVE x \in ToSet(Tail(l)) \cup {Head(l)}
    <3>1. PICK i \in 1..Len(l) : x = l[i]
      BY <2>1 DEF ToSet
    <3>2. CASE i = 1
      BY <2>1, <3>1, <3>2
    <3>3. CASE i # 1
      <4>1. i - 1 \in 1..(Len(l) - 1) /\ Tail(l)[i - 1] = x
        BY <2>1, <3>1, <3>3
      <4> QED
        BY <2>1, <4>1 DEF ToSet
    <3> QED
      BY <3>2, <3>3
  <2>3. ASSUME NEW x \in ToSet(Tail(l)) PROVE x \in ToSet(l)
    <3>1. PICK i \in 1..(Len(l) - 1) : x = Tail(l)[i]
      BY <2>1, <2>3 DEF ToSet
    <3>2. i + 1 \in 1..Len(l) /\ l[i + 1] = x
      BY <2>1, <3>1
    <3> QED
      BY <2>1, <3>2 DEF ToSet
  <2>4. Head(l) \in ToSet(l)
    <3>1. 1 \in 1..Len(l)
      BY <2>1
    <3> QED
      BY <2>1, <3>1 DEF ToSet
  <2> QED
    BY <2>2, <2>3, <2>4
<1>4. Rows(p, ToSet(l)) = Rows(p, ToSet(Tail(l))) \cup {<<ChildPath, Child.inode>>}
  <2>1. ChildPath = Append(p, Head(l).name) /\ Child.inode = Head(l).inode
    BY DEF ChildPath, Child
  <2> HIDE DEF p, l
  <2> QED
    BY <1>3, <2>1 DEF Rows
<1>5. ASSUME NEW k \in 1..n, k # n
      PROVE  Rows(stack[k].path, ToSet(stack[k].left))
             = Rows(Advanced[k].path, ToSet(Advanced[k].left))
  BY <1>1, <1>5
<1>6. n \in 1..n
  BY <1>1
<1>7. /\ Rows(stack[n].path, ToSet(stack[n].left)) = Rows(p, ToSet(l))
      /\ Rows(Advanced[n].path, ToSet(Advanced[n].left)) = Rows(p, ToSet(Tail(l)))
  BY <1>1
<1> DEFINE S(k) == Rows(stack[k].path, ToSet(stack[k].left))
           A(k) == Rows(Advanced[k].path, ToSet(Advanced[k].left))
<1>8. S(n) = A(n) \cup {<<ChildPath, Child.inode>>} /\ \A k \in 1..n : k # n => S(k) = A(k)
  BY <1>4, <1>5, <1>7
<1>9. ToCome(stack) = UNION {S(k) : k \in 1..n} /\ ToCome(Advanced) = UNION {A(k) : k \in 1..n}
  BY <1>1 DEF ToCome
<1> HIDE DEF S, A, n
<1> QED
  BY <1>6, <1>8, <1>9

\* A child that is no new directory is told, and nothing else changes.
LEMMA TellLeaf ==
    ASSUME Types, HasChild, NumbersDiffer, Walked(entries, stack, listed, visited),
           NEW line \in Lines, line.path = ChildPath, line.inode = Child.inode,
           line.inode \in Directory => line.revisited /\ number[line.inode] \in visited
    PROVE  Walked(Append(entries, line), Advanced, listed, visited)
<1> DEFINE n == Len(entries)
           t == Append(entries, line)
<1>1. /\ entries \in Seq(Lines) /\ n \in Nat /\ Len(t) = n + 1 /\ t[n + 1] = line
      /\ \A i \in 1..n : t[i] = entries[i]
  BY DEF Types
<1>2. listed \in Seq(Directory) /\ root \in ToSet(listed) /\ ToSet(listed) \subseteq Directory
  BY DEF Types, Walked, ToSet
<1>3. \A d \in Directory : ~Enters(line, d)
  BY DEF Enters
<1>4. /\ \A d \in Directory : number[d] \in visited => d \in ToSet(listed)
      /\ \A i \in 1..n : entries[i].inode \in Directory => entries[i].inode \in ToSet(listed)
      /\ \A i \in 1..n : ~Enters(entries[i], root)
      /\ \A i, j \in 1..n : \A d \in Directory :
            Enters(entries[i], d) /\ Enters(entries[j], d) => i = j
      /\ \A d \in ToSet(listed) : d # root => \E i \in 1..n : Enters(entries[i], d)
      /\ Told(entries) \cup ToCome(stack) = Due(entries, listed)
  BY DEF Walked
<1>5. \A d \in ToSet(listed) : PathBy(t, d) = PathBy(entries, d)
  <2> TAKE d \in ToSet(listed)
  <2>1. d \in Directory
    BY <1>2
  <2> HIDE DEF t
  <2> QED
    BY <1>1, <1>3, <1>4, <2>1, PathByAppend DEF t
<1> HIDE DEF t, n
<1>6. /\ \A i \in 1..(n + 1) : i \in 1..n \/ i = n + 1
      /\ 1..n \subseteq 1..(n + 1)
  BY <1>1
<1>7. \A i \in 1..Len(t) : t[i].inode \in Directory => t[i].inode \in ToSet(listed)
  BY <1>1, <1>4, <1>6
<1>8. \A i \in 1..Len(t) : ~Enters(t[i], root)
  BY <1>1, <1>2, <1>3, <1>4, <1>6
<1>9. \A i, j \in 1..Len(t) : \A d \in Directory : Enters(t[i], d) /\ Enters(t[j], d) => i = j
  BY <1>1, <1>3, <1>4, <1>6
<1>10. \A d \in ToSet(listed) : d # root => \E i \in 1..Len(t) : Enters(t[i], d)
  BY <1>1, <1>4, <1>6
<1>11. Told(t) \cup ToCome(Advanced) = Due(t, listed)
  <2>1. Told(t) = Told(entries) \cup {<<ChildPath, Child.inode>>}
    BY <1>1, ToldAppend DEF t
  <2>2. ToCome(stack) = ToCome(Advanced) \cup {<<ChildPath, Child.inode>>}
    BY ToComeTaken
  <2>3. Due(t, listed) = Due(entries, listed)
    BY <1>5 DEF Due
  <2> QED
    BY <1>4, <2>1, <2>2, <2>3
<1> QED
  BY <1>2, <1>4, <1>7, <1>8, <1>9, <1>10, <1>11 DEF Walked, t

\* A new directory is told and opened: what is in it is due.
LEMMA TellDirectory ==
    ASSUME Types, HasChild, NumbersDiffer, Walked(entries, stack, listed, visited),
           \A d \in ToSet(listed) : number[d] \in visited,
           Child.inode \in Directory, number[Child.inode] \notin visited,
           NEW line \in Lines, line.path = ChildPath, line.inode = Child.inode, ~line.revisited
    PROVE  Walked(Append(entries, line), Append(Advanced, Frame(ChildPath, Child.inode)),
                  Append(listed, Child.inode), visited \cup {number[Child.inode]})
<1> DEFINE n == Len(entries)
           t == Append(entries, line)
           new == Child.inode
           l == Append(listed, new)
           f == Frame(ChildPath, new)
           s == Append(Advanced, f)
<1>1. /\ entries \in Seq(Lines) /\ n \in Nat /\ Len(t) = n + 1 /\ t[n + 1] = line
      /\ \A i \in 1..n : t[i] = entries[i]
  BY DEF Types
<1>2. listed \in Seq(Directory) /\ root \in ToSet(listed) /\ ToSet(listed) \subseteq Directory
  BY DEF Types, Walked, ToSet
<1>3. /\ \A d \in Directory : number[d] \in visited => d \in ToSet(listed)
      /\ \A i \in 1..n : entries[i].inode \in Directory => entries[i].inode \in ToSet(listed)
      /\ \A i \in 1..n : ~Enters(entries[i], root)
      /\ \A i, j \in 1..n : \A d \in Directory :
            Enters(entries[i], d) /\ Enters(entries[j], d) => i = j
      /\ \A d \in ToSet(listed) : d # root => \E i \in 1..n : Enters(entries[i], d)
      /\ Told(entries) \cup ToCome(stack) = Due(entries, listed)
  BY DEF Walked
<1>4. ToSet(l) = ToSet(listed) \cup {new}
  <2>1. /\ Len(listed) \in Nat /\ DOMAIN listed = 1..Len(listed)
        /\ DOMAIN l = 1..(Len(listed) + 1) /\ l[Len(listed) + 1] = new
        /\ \A i \in 1..Len(listed) : l[i] = listed[i]
    BY <1>2
  <2> HIDE DEF l, new
  <2>2. \A i \in 1..(Len(listed) + 1) : i \in 1..Len(listed) \/ i = Len(listed) + 1
    BY <2>1
  <2>3. 1..Len(listed) \subseteq 1..(Len(listed) + 1)
        /\ Len(listed) + 1 \in 1..(Len(listed) + 1)
    BY <2>1
  <2> QED
    BY <2>1, <2>2, <2>3 DEF ToSet
<1>5. new \notin ToSet(listed) /\ new # root /\ new \in Directory
  BY <1>2
<1>6. \A i \in 1..n : ~Enters(entries[i], new)
  BY <1>3, <1>5 DEF Enters
<1>7. Enters(line, new) /\ \A d \in Directory : d # new => ~Enters(line, d)
  BY DEF Enters
<1> HIDE DEF l, new, s, f
<1>8. \A d \in ToSet(listed) : PathBy(t, d) = PathBy(entries, d)
  <2> TAKE d \in ToSet(listed)
  <2>1. d \in Directory /\ d # new
    BY <1>2, <1>5
  <2> HIDE DEF t
  <2> QED
    BY <1>1, <1>3, <1>7, <2>1, PathByAppend DEF t
<1> HIDE DEF t, n
<1>9. /\ \A i \in 1..(n + 1) : i \in 1..n \/ i = n + 1
      /\ 1..n \subseteq 1..(n + 1) /\ n + 1 \in 1..(n + 1)
  BY <1>1
<1>10. PathBy(t, new) = ChildPath
  <2>1. n + 1 \in 1..Len(t) /\ Enters(t[n + 1], new)
    BY <1>1, <1>7, <1>9
  <2>2. \A j \in 1..Len(t) : Enters(t[j], new) => j = n + 1
    BY <1>1, <1>6, <1>9
  <2> QED
    BY <1>1, <1>5, <2>1, <2>2, PathByLine
<1>11. \A d \in Directory : number[d] \in visited \cup {number[new]} => d \in ToSet(l)
  BY <1>3, <1>4, <1>5 DEF NumbersDiffer
<1>12. \A i \in 1..Len(t) : t[i].inode \in Directory => t[i].inode \in ToSet(l)
  <2> TAKE i \in 1..Len(t)
  <2>1. CASE i \in 1..n
    BY <1>1, <1>3, <1>4, <2>1
  <2>2. CASE i = n + 1
    BY <1>1, <1>4, <2>2 DEF new
  <2> QED
    BY <1>1, <1>9, <2>1, <2>2
<1>13. \A i \in 1..Len(t) : ~Enters(t[i], root)
  BY <1>1, <1>2, <1>3, <1>5, <1>7, <1>9
<1>14. \A i, j \in 1..Len(t) : \A d \in Directory : Enters(t[i], d) /\ Enters(t[j], d) => i = j
  <2> TAKE i, j \in 1..Len(t)
  <2> TAKE d \in Directory
  <2>1. CASE d = new
    BY <1>1, <1>6, <1>9, <2>1
  <2>2. CASE d # new
    BY <1>1, <1>3, <1>7, <1>9, <2>2
  <2> QED
    BY <2>1, <2>2
<1>15. \A d \in ToSet(l) : d # root => \E i \in 1..Len(t) : Enters(t[i], d)
  <2> TAKE d \in ToSet(l)
  <2>1. CASE d = new
    BY <1>1, <1>7, <1>9, <2>1
  <2>2. CASE d \in ToSet(listed)
    BY <1>1, <1>3, <1>9, <2>2
  <2> QED
    BY <1>4, <2>1, <2>2
<1>16. Told(t) \cup ToCome(s) = Due(t, l)
  <2> DEFINE row == {<<ChildPath, Child.inode>>}
             inside == Rows(ChildPath, ToSet(listing[new]))
  <2>1. Told(t) = Told(entries) \cup row
    BY <1>1, ToldAppend DEF t
  <2>2. ToCome(stack) = ToCome(Advanced) \cup row
    BY ToComeTaken
  <2>3. f.path = ChildPath /\ ToSet(f.left) = ToSet(listing[new])
    <3>1. listing \in Listings
      BY DEF Types
    <3> QED
      BY <1>5, <3>1, ChildrenSorted DEF f, Frame
  <2>4. ToCome(s) = ToCome(Advanced) \cup inside
    <3> DEFINE m == Len(Advanced)
    <3>1. /\ m \in Nat /\ Len(s) = m + 1 /\ s[m + 1] = f
          /\ \A k \in 1..m : s[k] = Advanced[k]
      BY ChildAtHand DEF s
    <3> HIDE DEF m
    <3>2. /\ \A i \in 1..(m + 1) : i \in 1..m \/ i = m + 1
          /\ 1..m \subseteq 1..(m + 1) /\ m + 1 \in 1..(m + 1)
      BY <3>1
    <3> DEFINE S(k) == Rows(s[k].path, ToSet(s[k].left))
               A(k) == Rows(Advanced[k].path, ToSet(Advanced[k].left))
    <3>3. S(m + 1) = inside /\ \A k \in 1..m : S(k) = A(k)
      BY <2>3, <3>1
    <3>4. ToCome(s) = UNION {S(k) : k \in 1..(m + 1)} /\ ToCome(Advanced) = UNION {A(k) : k \in 1..m}
      BY <3>1 DEF ToCome, m
    <3> HIDE DEF S, A, inside
    <3> QED
      BY <3>2, <3>3, <3>4
  <2>5. Due(t, l) = Due(entries, listed) \cup inside
    <3> DEFINE T(d) == Rows(PathBy(t, d), ToSet(listing[d]))
               E(d) == Rows(PathBy(entries, d), ToSet(listing[d]))
    <3>1. T(new) = inside /\ \A d \in ToSet(listed) : T(d) = E(d)
      BY <1>8, <1>10
    <3>2. /\ Due(t, l) = UNION {T(d) : d \in ToSet(l)}
          /\ Due(entries, listed) = UNION {E(d) : d \in ToSet(listed)}
      BY DEF Due
    <3> HIDE DEF T, E, inside
    <3> QED
      BY <1>4, <3>1, <3>2
  <2> HIDE DEF row, inside
  <2> QED
    BY <1>3, <2>1, <2>2, <2>4, <2>5
<1> QED
  BY <1>2, <1>4, <1>11, <1>12, <1>13, <1>14, <1>15, <1>16 DEF Walked, t, l, s, f, new

\* While the walk goes on, and when it has succeeded, nothing is missed.
Complete ==
    /\ result = "ok" /\ root \in Directory => stack = << >>
    /\ result \in {"running", "ok"} /\ root \in Directory /\ NumbersDiffer =>
          Walked(entries, stack, listed, visited)

\* Every step keeps it so.
LEMMA NextComplete == Types /\ Once /\ Complete /\ [Step]_vars => Complete'
<1> SUFFICES ASSUME Types, Once, Complete, [Step]_vars PROVE Complete'
  OBVIOUS
<1>0. UNCHANGED <<root, number, listing>>
  BY NextTypes
<1>1. ASSUME NEW e, NEW s, NEW l, NEW v, Walked(e, s, l, v),
             entries' = e, stack' = s, listed' = l, visited' = v
      PROVE  Walked(entries, stack, listed, visited)'
  <2>1. \A d : PathBy(entries, d)' = PathBy(e, d)
    BY <1>0, <1>1 DEF PathBy
  <2>2. Due(entries, listed)' = Due(e, l)
    BY <1>0, <1>1, <2>1 DEF Due, Rows
  <2>3. Told(entries)' = Told(e) /\ ToCome(stack)' = ToCome(s)
    BY <1>1 DEF Told, ToCome, Rows
  <2> QED
    BY <1>0, <1>1, <2>2, <2>3 DEF Walked, Enters
<1>2. CASE UNCHANGED vars
  <2>1. UNCHANGED <<entries, stack, listed, visited, result>>
    BY <1>2 DEF vars
  <2> QED
    BY <1>0, <1>1, <2>1 DEF Complete, NumbersDiffer
<1>3. CASE ListFile
  BY <1>3 DEF ListFile, Complete
<1>4. ASSUME NEW why \in {"limit", "depth", "error"}, Stop(why) PROVE Complete'
  BY <1>4 DEF Stop, Complete
<1>5. CASE LimitReached \/ DepthReached \/ ReadInodeFails \/ StartFails
  BY <1>4, <1>5 DEF LimitReached, DepthReached, ReadInodeFails, StartFails
<1>6. CASE ReadDirFails
  BY <1>6 DEF ReadDirFails, Complete
<1>7. CASE Done
  <2>1. UNCHANGED <<entries, stack, listed, visited>> /\ result = "running"
        /\ stack = << >>
    BY <1>7 DEF Done, Stop
  <2> QED
    BY <1>0, <1>1, <2>1 DEF Complete, NumbersDiffer
<1>8. CASE Start
  <2> DEFINE f == Frame(<< >>, root)
             l == <<root>>
             s == <<f>>
             e == << >>
             v == {number[root]}
  <2>1. /\ root \in Directory /\ stack' = s /\ listed' = l /\ entries' = e /\ visited' = v
        /\ result' = "running" /\ listing \in Listings
    BY <1>8 DEF Start, Types
  <2>2. ToSet(l) = {root} /\ Len(e) = 0
    BY DEF ToSet
  <2>3. f.path = << >> /\ ToSet(f.left) = ToSet(listing[root])
    BY <2>1, ChildrenSorted DEF Frame
  <2>4. Len(s) = 1 /\ s[1] = f
    OBVIOUS
  <2> HIDE DEF f, s, e, l, v
  <2>5. Told(e) = {} /\ ToCome(s) = Rows(<< >>, ToSet(listing[root]))
    <3>1. 1..Len(e) = {} /\ 1..Len(s) = {1}
      BY <2>2, <2>4
    <3>2. Told(e) = {}
      BY <3>1 DEF Told
    <3>3. ToCome(s) = Rows(s[1].path, ToSet(s[1].left))
      BY <3>1 DEF ToCome
    <3> QED
      BY <2>3, <2>4, <3>2, <3>3
  <2>6. Due(e, l) = Rows(<< >>, ToSet(listing[root]))
    BY <2>2 DEF Due, PathBy
  <2>7. ASSUME NumbersDiffer PROVE Walked(e, s, l, v)
    BY <2>1, <2>2, <2>5, <2>6, <2>7 DEF Walked, NumbersDiffer, v
  <2>8. NumbersDiffer' => NumbersDiffer
    BY <1>0 DEF NumbersDiffer
  <2>9. NumbersDiffer' => Walked(entries, stack, listed, visited)'
    BY <1>1, <2>1, <2>7, <2>8
  <2> QED
    BY <2>1, <2>9 DEF Complete
<1>9. ASSUME Running, root \in Directory, NumbersDiffer
      PROVE  Walked(entries, stack, listed, visited)
  BY <1>9 DEF Running, Complete
<1>10. (root \in Directory)' = (root \in Directory) /\ NumbersDiffer' = NumbersDiffer
  BY <1>0 DEF NumbersDiffer
<1>11. ASSUME Running, result' = result, root \in Directory, NumbersDiffer, Step
       PROVE  Walked(entries, stack, listed, visited)'
  <2>1. CASE Pop
    <3>1. UNCHANGED <<entries, listed, visited>> /\ stack' = Front(stack)
          /\ Innermost.left = << >> /\ stack # << >>
      BY <2>1 DEF Pop, Running
    <3> DEFINE n == Len(stack)
               s == Front(stack)
               S(k) == Rows(stack[k].path, ToSet(stack[k].left))
               F(k) == Rows(s[k].path, ToSet(s[k].left))
    <3>2. /\ n \in Nat \ {0} /\ Len(s) = n - 1
          /\ \A k \in 1..(n - 1) : s[k] = stack[k]
      BY <3>1, FrontOfStack
    <3>3. Innermost = stack[n]
      BY DEF Innermost, Last
    <3>4. S(n) = {}
      <4>1. ToSet(stack[n].left) = {}
        BY <3>1, <3>3 DEF ToSet
      <4> QED
        BY <4>1 DEF Rows
    <3>5. \A k \in 1..(n - 1) : S(k) = F(k)
      BY <3>2
    <3>6. ToCome(stack) = UNION {S(k) : k \in 1..n} /\ ToCome(s) = UNION {F(k) : k \in 1..(n - 1)}
      BY <3>2 DEF ToCome
    <3> HIDE DEF n, S, F
    <3>7. (\A k \in 1..n : k \in 1..(n - 1) \/ k = n) /\ 1..(n - 1) \subseteq 1..n
      BY <3>2
    <3>8. ToCome(stack) = ToCome(s)
      BY <3>4, <3>5, <3>6, <3>7
    <3> HIDE DEF s
    <3>9. Walked(entries, s, listed, visited)
      BY <1>9, <1>11, <3>8 DEF Walked
    <3> QED
      BY <1>1, <3>1, <3>9 DEF s
  <2>2. CASE Leaf
    <3> DEFINE line == [path |-> ChildPath, inode |-> Child.inode,
                        revisited |-> Child.inode \in Directory]
    <3>1. /\ HasChild /\ entries' = Append(entries, line) /\ stack' = Advanced
          /\ UNCHANGED <<listed, visited>>
          /\ Child.inode \in Directory => number[Child.inode] \in visited
      BY <2>2 DEF Leaf, Report, Met
    <3>2. line \in Lines
      <4>1. Child \in Entry /\ ChildPath \in Seq(Nat)
        BY <3>1, ChildAtHand
      <4>2. (Child.inode \in Directory) \in BOOLEAN
        OBVIOUS
      <4> QED
        BY <4>1, <4>2 DEF Lines, Entry
    <3>3. line.path = ChildPath /\ line.inode = Child.inode
          /\ (line.inode \in Directory => line.revisited)
      OBVIOUS
    <3> HIDE DEF line
    <3>4. Walked(Append(entries, line), Advanced, listed, visited)
      BY <1>9, <1>11, <3>1, <3>2, <3>3, TellLeaf
    <3> QED
      BY <1>1, <3>1, <3>4
  <2>3. CASE Descend
    <3> DEFINE line == [path |-> ChildPath, inode |-> Child.inode, revisited |-> FALSE]
    <3>1. /\ HasChild /\ entries' = Append(entries, line)
          /\ stack' = Append(Advanced, Frame(ChildPath, Child.inode))
          /\ listed' = Append(listed, Child.inode)
          /\ visited' = visited \cup {number[Child.inode]}
          /\ Child.inode \in Directory /\ number[Child.inode] \notin visited
      BY <2>3 DEF Descend, Report, Met
    <3>2. line \in Lines
      <4>1. Child \in Entry /\ ChildPath \in Seq(Nat)
        BY <3>1, ChildAtHand
      <4> QED
        BY <4>1 DEF Lines, Entry
    <3>3. line.path = ChildPath /\ line.inode = Child.inode /\ ~line.revisited
      OBVIOUS
    <3>4. \A d \in ToSet(listed) : number[d] \in visited
      <4>1. listed \in Seq(Directory)
        BY DEF Types
      <4> QED
        BY <4>1 DEF Once, ToSet
    <3> HIDE DEF line
    <3>5. Walked(Append(entries, line), Append(Advanced, Frame(ChildPath, Child.inode)),
                 Append(listed, Child.inode), visited \cup {number[Child.inode]})
      BY <1>9, <1>11, <3>1, <3>2, <3>3, <3>4, TellDirectory
    <3> QED
      BY <1>1, <3>1, <3>5
  <2>4. CASE ListFile \/ Start \/ StartFails
    BY <1>11, <2>4 DEF ListFile, Start, StartFails, Running
  <2>5. CASE LimitReached \/ DepthReached \/ ReadInodeFails \/ ReadDirFails \/ Done
    BY <1>11, <2>5 DEF LimitReached, DepthReached, ReadInodeFails, ReadDirFails, Done, Stop,
       Running
  <2> QED
    BY <1>11, <2>1, <2>2, <2>3, <2>4, <2>5 DEF Step
<1>12. CASE Pop \/ Leaf \/ Descend
  <2>1. Running /\ result' = result /\ Step
    BY <1>12 DEF Pop, Leaf, Descend, HasChild, Step
  <2> QED
    BY <1>10, <1>11, <2>1 DEF Complete, Running
<1> QED
  BY <1>2, <1>3, <1>5, <1>6, <1>7, <1>8, <1>12 DEF Step

\* Every walk that succeeds, where directories have numbers of their own, has
\* told every entry of every directory in its reach, and no other.
THEOREM WalkMissesNothing == Spec => []WalkComplete
<1>1. Init => Types /\ Once /\ Complete
  BY InitTypes DEF Init, Once, Complete
<1>2. Types /\ Complete => WalkComplete
  <2> SUFFICES ASSUME Types, Complete, result = "ok", root \in Directory,
                      IsInjective(Restrict(number, Directory))
               PROVE  WalkComplete
    BY DEF WalkComplete
  <2>1. NumbersDiffer
    BY DEF NumbersDiffer, IsInjective, Restrict
  <2>2. Walked(entries, stack, listed, visited) /\ stack = << >>
    BY <2>1 DEF Complete
  <2>3. ToCome(stack) = {}
    BY <2>2 DEF ToCome
  <2>4. Told(entries) = Due(entries, listed)
    BY <2>2, <2>3 DEF Walked
  <2>5. ASSUME NEW d \in ToSet(listed), NEW n \in 1..Len(listing[d]),
               listing[d][n].inode \in Directory
        PROVE  listing[d][n].inode \in ToSet(listed)
    <3> DEFINE c == listing[d][n]
               row == <<Append(PathBy(entries, d), c.name), c.inode>>
    <3>1. d \in Directory /\ listing \in Listings
      BY DEF Types, ToSet
    <3>2. c \in ToSet(listing[d])
      BY <3>1, GraphAssumption DEF ToSet
    <3> HIDE DEF c
    <3>3. row \in Due(entries, listed)
      BY <3>2 DEF Due, Rows
    <3>4. PICK i \in 1..Len(entries) : row = <<entries[i].path, entries[i].inode>>
      BY <2>4, <3>3 DEF Told
    <3>5. entries[i].inode = c.inode
      BY <3>4
    <3> QED
      BY <2>2, <2>5, <3>5 DEF Walked, c
  <2>6. \A d : PathBy(entries, d) = EnteredAt(d)
    BY DEF PathBy, EnteredAt
  <2>7. {<<entries[i].path, entries[i].inode>> : i \in 1..Len(entries)}
        = UNION {{<<Append(EnteredAt(d), c.name), c.inode>> : c \in ToSet(listing[d])}
                    : d \in ToSet(listed)}
    BY <2>4, <2>6 DEF Told, Due, Rows
  <2> QED
    BY <2>5, <2>7 DEF WalkComplete
<1> QED
  BY <1>1, <1>2, InitTypes, NextTypes, NextOnce, NextComplete, PTL DEF Spec

-----------------------------------------------------------------------------
(* Writing to a file.                                                      *)

ChunksOf(s) == {Source[s][i] : i \in DOMAIN Source[s]}
Chunk == {Hole} \cup UNION {ChunksOf(s) : s \in DOMAIN Source}

\* The files there are.
Files == 1..Len(files)

\* Files hold chunks and are named by their number; a process in a run has a
\* source and somewhere to write, and one at rest has no file open.
TypeInv ==
    /\ files \in Seq(Seq(Chunk))
    /\ partial \in Files \cup {None}
    /\ dest \in Files \cup {None}
    /\ pc \in [Process -> {"idle", "copy", "rename"}]
    /\ source \in [Process -> DOMAIN Source \cup {None}]
    /\ handle \in [Process -> Files \cup {Stdout, None}]
    /\ offset \in [Process -> Nat]
    /\ DOMAIN verb = Process
    /\ \A p \in Process : pc[p] = "idle" <=> handle[p] = None
    /\ \A p \in Process : pc[p] # "idle" =>
          source[p] \in DOMAIN Source /\ offset[p] <= Len(Source[source[p]])

\* The chunks of a source are chunks, and it has as many as its length.
LEMMA SourceTypes ==
    ASSUME NEW s \in DOMAIN Source
    PROVE  /\ Len(Source[s]) \in Nat
           /\ Source[s] = [i \in 1..Len(Source[s]) |-> Source[s][i]]
           /\ \A i \in 1..Len(Source[s]) : Source[s][i] \in Chunk
<1>1. Source[s] \in Seq(ChunksOf(s))
  BY FilesAssumption DEF ChunksOf
<1>2. /\ Len(Source[s]) \in Nat
      /\ Source[s] = [i \in 1..Len(Source[s]) |-> Source[s][i]]
      /\ \A i \in 1..Len(Source[s]) : Source[s][i] \in ChunksOf(s)
  BY <1>1
<1> QED
  BY <1>2 DEF Chunk

\* Writing a chunk to a file leaves a file.
LEMMA WrittenIsAFile ==
    ASSUME NEW file \in Seq(Chunk), NEW n \in Nat, n # 0, NEW c \in Chunk
    PROVE  Written(file, n, c) \in Seq(Chunk)
<1> DEFINE m == IF n > Len(file) THEN n ELSE Len(file)
<1>1. m \in Nat
  OBVIOUS
<1>2. Hole \in Chunk
  BY DEF Chunk
<1>3. \A i \in 1..m :
        (IF i = n THEN c ELSE IF i <= Len(file) THEN file[i] ELSE Hole) \in Chunk
  BY <1>2
<1> HIDE DEF m
<1>4. [i \in 1..m |-> IF i = n THEN c ELSE IF i <= Len(file) THEN file[i] ELSE Hole]
        \in Seq(Chunk)
  BY <1>1, <1>3
<1> QED
  BY <1>4 DEF Written, m

\* A new file gets the next number; a file emptied or written to is still
\* the file of that number.
LEMMA FileLists ==
    ASSUME NEW l \in Seq(Seq(Chunk))
    PROVE  /\ Len(l) \in Nat
           /\ Append(l, << >>) \in Seq(Seq(Chunk))
           /\ Len(Append(l, << >>)) = Len(l) + 1
           /\ Append(l, << >>)[Len(l) + 1] = << >>
           /\ \A f \in 1..Len(l) : Append(l, << >>)[f] = l[f] /\ l[f] \in Seq(Chunk)
           /\ \A f \in 1..Len(l) : \A g \in Seq(Chunk) :
                 /\ [l EXCEPT ![f] = g] \in Seq(Seq(Chunk))
                 /\ Len([l EXCEPT ![f] = g]) = Len(l)
                 /\ \A h \in 1..Len(l) : [l EXCEPT ![f] = g][h] = IF h = f THEN g ELSE l[h]
<1> DEFINE C == Seq(Chunk)
<1>1. << >> \in C
  OBVIOUS
<1> HIDE DEF C
<1>2. l \in Seq(C)
  BY DEF C
<1>3. /\ Len(l) \in Nat
      /\ Append(l, << >>) \in Seq(C)
      /\ Len(Append(l, << >>)) = Len(l) + 1
      /\ Append(l, << >>)[Len(l) + 1] = << >>
      /\ \A f \in 1..Len(l) : Append(l, << >>)[f] = l[f] /\ l[f] \in C
  BY <1>1, <1>2
<1>4. ASSUME NEW f \in 1..Len(l), NEW g \in C
      PROVE  /\ [l EXCEPT ![f] = g] \in Seq(C)
             /\ Len([l EXCEPT ![f] = g]) = Len(l)
             /\ \A h \in 1..Len(l) : [l EXCEPT ![f] = g][h] = IF h = f THEN g ELSE l[h]
  BY <1>2
<1> QED
  BY <1>3, <1>4 DEF C

\* No command has been started.
LEMMA InitFiles == PublishInit => TypeInv
BY DEF PublishInit, TypeInv, Files

\* Each step keeps the types.
LEMMA NextFiles == TypeInv /\ [PublishNext]_publishVars => TypeInv'
<1> SUFFICES ASSUME TypeInv, [PublishNext]_publishVars PROVE TypeInv'
  OBVIOUS
<1> USE DEF TypeInv, Files, fileVars
<1>1. Len(files) \in Nat
  BY FileLists
<1>2. ASSUME NEW p \in Process, NEW v \in {"read", "xattr"}, NEW s \in DOMAIN Source,
             ToStdout(p, v, s)
      PROVE  TypeInv'
  <2>1. 0 <= Len(Source[s])
    BY SourceTypes
  <2> QED
    BY <1>2, <2>1, FilesAssumption DEF ToStdout, Begin
<1>3. ASSUME NEW p \in Process, NEW v \in {"read", "xattr"}, NEW s \in DOMAIN Source,
             ToFile(p, v, s)
      PROVE  TypeInv'
  <2>1. 0 <= Len(Source[s])
    BY SourceTypes
  <2>2. /\ files' \in Seq(Seq(Chunk))
        /\ partial' \in 1..Len(files')
        /\ Len(files') \in Nat /\ Len(files) <= Len(files')
    <3>1. CASE partial = None
      <4>1. files' = Append(files, << >>) /\ partial' = Len(files) + 1
        BY <1>3, <3>1 DEF ToFile
      <4>2. /\ Append(files, << >>) \in Seq(Seq(Chunk))
            /\ Len(Append(files, << >>)) = Len(files) + 1
        BY FileLists
      <4> QED
        BY <1>1, <4>1, <4>2
    <3>2. CASE partial # None
      <4>1. << >> \in Seq(Chunk)
        OBVIOUS
      <4>2. partial \in 1..Len(files) /\ files \in Seq(Seq(Chunk))
        BY <3>2
      <4>3. files' = [files EXCEPT ![partial] = << >>] /\ partial' = partial
        BY <1>3, <3>2 DEF ToFile
      <4>4. [files EXCEPT ![partial] = << >>] \in Seq(Seq(Chunk))
            /\ Len([files EXCEPT ![partial] = << >>]) = Len(files)
        BY <4>1, <4>2, FileLists
      <4> QED
        BY <1>1, <4>2, <4>3, <4>4
    <3> QED
      BY <3>1, <3>2
  <2>3. handle' \in [Process -> Files' \cup {Stdout, None}]
    <3>1. Files \subseteq Files' /\ partial' \in Files'
      BY <1>1, <2>2
    <3>2. handle' = [handle EXCEPT ![p] = partial'] /\ handle \in [Process -> Files \cup {Stdout, None}]
      BY <1>3 DEF ToFile
    <3> HIDE DEF Files
    <3> QED
      BY <3>1, <3>2
  <2>4. dest' \in Files' \cup {None} /\ partial' \in Files' \cup {None}
    BY <1>1, <1>3, <2>2 DEF ToFile
  <2>5. /\ pc' = [pc EXCEPT ![p] = "copy"] /\ source' = [source EXCEPT ![p] = s]
        /\ offset' = [offset EXCEPT ![p] = 0] /\ verb' = [verb EXCEPT ![p] = v]
        /\ handle' = [handle EXCEPT ![p] = partial']
    BY <1>3 DEF ToFile, Begin
  <2>6. partial' # None
    BY <1>1, <2>2, FilesAssumption
  <2> QED
    BY <2>1, <2>2, <2>3, <2>4, <2>5, <2>6
<1>4. ASSUME NEW p \in Process, NEW v \in {"read", "xattr"}, NEW s \in DOMAIN Source,
             Refuse(p, v, s) \/ RefuseCreate(p, s)
      PROVE  TypeInv'
  <2>1. /\ files' = files /\ dest' = dest /\ pc' = pc /\ handle' = handle
        /\ partial' \in {partial, None}
        /\ source' = [source EXCEPT ![p] = s] /\ offset' = [offset EXCEPT ![p] = 0]
        /\ \E w \in {"read", "xattr"} : verb' = [verb EXCEPT ![p] = w]
        /\ pc[p] = "idle"
    BY <1>4 DEF Refuse, RefuseCreate, Begin
  <2> QED
    BY <2>1
<1>5. ASSUME NEW p \in Process, CopyChunk(p) PROVE TypeInv'
  <2> DEFINE src == Source[source[p]]
             n == offset[p] + 1
  <2>1. source[p] \in DOMAIN Source /\ offset[p] \in Nat /\ handle[p] # None
    BY <1>5 DEF CopyChunk
  <2>2. n \in 1..Len(src) /\ src[n] \in Chunk /\ n # 0
    <3>1. Len(src) \in Nat /\ offset[p] < Len(src)
      BY <1>5, <2>1, SourceTypes DEF CopyChunk, Remaining
    <3>2. n \in 1..Len(src)
      BY <2>1, <3>1
    <3> QED
      BY <2>1, <3>2, SourceTypes
  <2>3. files' \in Seq(Seq(Chunk)) /\ Len(files') = Len(files)
    <3>1. CASE handle[p] = Stdout
      BY <1>5, <3>1 DEF CopyChunk
    <3>2. CASE handle[p] # Stdout
      <4>1. handle[p] \in 1..Len(files)
        BY <2>1, <3>2
      <4>2. Written(files[handle[p]], n, src[n]) \in Seq(Chunk)
        <5>1. files[handle[p]] \in Seq(Chunk)
          BY <4>1, FileLists
        <5>2. n \in Nat
          BY <2>1
        <5> HIDE DEF n, src
        <5> QED
          BY <2>2, <5>1, <5>2, WrittenIsAFile
      <4>3. files' = [files EXCEPT ![handle[p]] = Written(files[handle[p]], n, src[n])]
        BY <1>5, <3>2 DEF CopyChunk
      <4> QED
        BY <4>1, <4>2, <4>3, FileLists
    <3> QED
      BY <3>1, <3>2
  <2>4. /\ offset' = [offset EXCEPT ![p] = n]
        /\ UNCHANGED <<partial, dest, pc, verb, source, handle>>
    BY <1>5 DEF CopyChunk
  <2>5. n \in Nat /\ n <= Len(Source[source[p]])
    BY <2>1, <2>2
  <2> HIDE DEF n, src
  <2> QED
    BY <2>1, <2>3, <2>4, <2>5
<1>6. ASSUME NEW p \in Process, NEW removed \in BOOLEAN,
             CopyFails(p, removed) \/ RenameFails(p, removed)
      PROVE  TypeInv'
  BY <1>6 DEF CopyFails, RenameFails, Exit
<1>7. ASSUME NEW p \in Process, CopyDone(p) PROVE TypeInv'
  BY <1>7 DEF CopyDone, Exit
<1>8. ASSUME NEW p \in Process, Rename(p) PROVE TypeInv'
  BY <1>8 DEF Rename, Exit
<1>9. ASSUME NEW p \in Process, Kill(p) PROVE TypeInv'
  BY <1>9 DEF Kill, Exit
<1>10. CASE UNCHANGED publishVars
  BY <1>10 DEF publishVars
<1> QED
  BY <1>2, <1>3, <1>4, <1>5, <1>6, <1>7, <1>8, <1>9, <1>10 DEF PublishNext, PublishStep

-----------------------------------------------------------------------------
(* FILE.partial, with any number of processes.                             *)

\* Whoever lets go of FILE.partial without removing it or renaming it is
\* noted as having abandoned it; whoever makes it anew holds it.
LEMMA NextClean == TypeInv /\ FailedCopyCleansUp /\ [PublishNext]_publishVars => FailedCopyCleansUp'
<1> SUFFICES ASSUME TypeInv, FailedCopyCleansUp, [PublishNext]_publishVars PROVE FailedCopyCleansUp'
  OBVIOUS
<1> USE DEF TypeInv, Files, fileVars, FailedCopyCleansUp
<1>1. Stdout \notin Files /\ None \notin Files
  <2>1. Files \subseteq Nat
    BY FileLists
  <2> QED
    BY <2>1, FilesAssumption
<1>2. ASSUME NEW p \in Process, NEW v \in {"read", "xattr"}, NEW s \in DOMAIN Source,
             ToStdout(p, v, s)
      PROVE  FailedCopyCleansUp'
  BY <1>1, <1>2 DEF ToStdout, Begin
<1>3. ASSUME NEW p \in Process, NEW v \in {"read", "xattr"}, NEW s \in DOMAIN Source,
             ToFile(p, v, s)
      PROVE  FailedCopyCleansUp'
  BY <1>3 DEF ToFile
<1>4. ASSUME NEW p \in Process, NEW v \in {"read", "xattr"}, NEW s \in DOMAIN Source,
             Refuse(p, v, s) \/ RefuseCreate(p, s)
      PROVE  FailedCopyCleansUp'
  BY <1>4 DEF Refuse, RefuseCreate
<1>5. ASSUME NEW p \in Process, CopyChunk(p) PROVE FailedCopyCleansUp'
  BY <1>5 DEF CopyChunk
<1>6. ASSUME NEW p \in Process, NEW removed \in BOOLEAN,
             CopyFails(p, removed) \/ RenameFails(p, removed)
      PROVE  FailedCopyCleansUp'
  <2>1. CASE partial' = None
    BY <2>1
  <2>2. CASE partial' # None
    <3>1. partial' = partial /\ abandoned' = abandoned \cup {handle[p]}
      BY <1>6, <2>2 DEF CopyFails, RenameFails
    <3>2. \A q \in Process \ {p} : handle'[q] = handle[q]
      BY <1>6 DEF CopyFails, RenameFails, Exit
    <3> QED
      BY <2>2, <3>1, <3>2
  <2> QED
    BY <2>1, <2>2
<1>7. ASSUME NEW p \in Process, CopyDone(p) PROVE FailedCopyCleansUp'
  BY <1>1, <1>7 DEF CopyDone, Exit
<1>8. ASSUME NEW p \in Process, Rename(p) PROVE FailedCopyCleansUp'
  BY <1>8 DEF Rename
<1>9. ASSUME NEW p \in Process, Kill(p) PROVE FailedCopyCleansUp'
  BY <1>9 DEF Kill, Exit
<1>10. CASE UNCHANGED publishVars
  BY <1>10 DEF publishVars
<1> QED
  BY <1>2, <1>3, <1>4, <1>5, <1>6, <1>7, <1>8, <1>9, <1>10 DEF PublishNext, PublishStep

\* However many processes write to one FILE and are killed or fail, a
\* FILE.partial that is there is being written, or was left by a process
\* that was killed or could not rename or remove it.
THEOREM CleansUp == PublishSpec => []FailedCopyCleansUp
<1>1. PublishInit => FailedCopyCleansUp
  BY DEF PublishInit, FailedCopyCleansUp
<1> QED
  BY <1>1, InitFiles, NextFiles, NextClean, PTL DEF PublishSpec

-----------------------------------------------------------------------------
(* FILE, with one run at a time.                                           *)

\* A run begins only when no process is in one.
OneAtATime == runs' # runs => \A p \in Process : pc[p] = "idle"

\* The first n chunks of a source.
FirstChunks(s, n) == [i \in 1..n |-> Source[s][i]]

\* The one process in a run is writing FILE.partial, which is not FILE, and
\* holds what has been copied so far; when it comes to rename it, all of it.
Writing ==
    /\ runs \in Nat
    /\ \A p, q \in Process : pc[p] # "idle" /\ pc[q] # "idle" => p = q
    /\ partial # None => partial # dest
    /\ \A p \in Process : pc[p] = "copy" /\ handle[p] # Stdout =>
          handle[p] = partial /\ files[partial] = FirstChunks(source[p], offset[p])
    /\ \A p \in Process : pc[p] = "rename" =>
          handle[p] = partial /\ files[partial] = Source[source[p]]

DestInv == Writing /\ DestIsLastPublished

\* Writing chunk n + 1 after the first n gives the first n + 1.
LEMMA WriteNext ==
    ASSUME NEW s \in DOMAIN Source, NEW n \in Nat, n + 1 <= Len(Source[s])
    PROVE  Written(FirstChunks(s, n), n + 1, Source[s][n + 1]) = FirstChunks(s, n + 1)
<1>1. Len(FirstChunks(s, n)) = n
  BY DEF FirstChunks
<1>2. Written(FirstChunks(s, n), n + 1, Source[s][n + 1])
        = [i \in 1..(n + 1) |-> IF i = n + 1 THEN Source[s][n + 1]
                                 ELSE IF i <= n THEN FirstChunks(s, n)[i] ELSE Hole]
  BY <1>1 DEF Written
<1>3. \A i \in 1..(n + 1) : i # n + 1 => i \in 1..n /\ FirstChunks(s, n)[i] = Source[s][i]
  BY DEF FirstChunks
<1> QED
  BY <1>2, <1>3 DEF FirstChunks

\* A step taken while one process is active keeps FILE the last one published.
LEMMA NextDest ==
    ASSUME TypeInv, DestInv, [PublishNext]_publishVars, [OneAtATime]_publishVars
    PROVE  DestInv'
<1> USE DEF TypeInv, Files, fileVars, DestInv, Writing, DestIsLastPublished
<1>1. /\ Len(files) \in Nat /\ partial # Stdout /\ dest # Stdout
      /\ files \in Seq(Seq(Chunk))
  BY FileLists, FilesAssumption
<1>2. ASSUME NEW p \in Process, NEW v \in {"read", "xattr"}, NEW s \in DOMAIN Source,
             Begin(p, v, s)
      PROVE  runs' \in Nat /\ \A q \in Process : pc[q] = "idle"
  BY <1>2 DEF Begin, OneAtATime, publishVars
<1>3. ASSUME NEW p \in Process, NEW v \in {"read", "xattr"}, NEW s \in DOMAIN Source,
             ToStdout(p, v, s)
      PROVE  DestInv'
  <2>1. runs' \in Nat /\ \A q \in Process : pc[q] = "idle"
    BY <1>2, <1>3 DEF ToStdout
  <2>2. \A q \in Process : pc'[q] # "idle" => q = p
    BY <1>3, <2>1 DEF ToStdout
  <2>3. pc'[p] = "copy" /\ handle'[p] = Stdout
    BY <1>3 DEF ToStdout
  <2> QED
    BY <1>3, <2>1, <2>2, <2>3 DEF ToStdout
<1>4. ASSUME NEW p \in Process, NEW v \in {"read", "xattr"}, NEW s \in DOMAIN Source,
             ToFile(p, v, s)
      PROVE  DestInv'
  <2>1. runs' \in Nat /\ \A q \in Process : pc[q] = "idle"
    BY <1>2, <1>4 DEF ToFile
  <2>2. \A q \in Process : pc'[q] # "idle" => q = p
    BY <1>4, <2>1 DEF ToFile
  <2>3. /\ pc'[p] = "copy" /\ handle'[p] = partial' /\ source'[p] = s /\ offset'[p] = 0
        /\ dest' = dest /\ published' = published
    BY <1>4 DEF ToFile, Begin
  <2>4. FirstChunks(s, 0) = << >>
    BY DEF FirstChunks
  <2>5. /\ partial' # dest
        /\ files'[partial'] = << >>
        /\ dest # None => files'[dest] = files[dest]
    <3>1. CASE partial = None
      <4>1. files' = Append(files, << >>) /\ partial' = Len(files) + 1
        BY <1>4, <3>1 DEF ToFile
      <4>2. dest # Len(files) + 1
        BY <1>1, FilesAssumption
      <4> QED
        BY <1>1, <4>1, <4>2, FileLists
    <3>2. CASE partial # None
      <4>1. files' = [files EXCEPT ![partial] = << >>] /\ partial' = partial
        BY <1>4, <3>2 DEF ToFile
      <4>2. << >> \in Seq(Chunk) /\ partial \in 1..Len(files) /\ partial # dest
        BY <3>2
      <4> QED
        BY <1>1, <4>1, <4>2, FileLists
    <3> QED
      BY <3>1, <3>2
  <2> QED
    BY <2>1, <2>2, <2>3, <2>4, <2>5
<1>5. ASSUME NEW p \in Process, NEW v \in {"read", "xattr"}, NEW s \in DOMAIN Source,
             Refuse(p, v, s) \/ RefuseCreate(p, s)
      PROVE  DestInv'
  <2>1. runs' \in Nat /\ \A q \in Process : pc[q] = "idle"
    BY <1>2, <1>5 DEF Refuse, RefuseCreate
  <2>2. /\ files' = files /\ dest' = dest /\ pc' = pc /\ published' = published
        /\ partial' \in {partial, None}
    BY <1>5 DEF Refuse, RefuseCreate
  <2> QED
    BY <2>1, <2>2
<1>6. ASSUME NEW p \in Process, CopyChunk(p) PROVE DestInv'
  <2> DEFINE s == source[p]
             n == offset[p]
  <2>1. s \in DOMAIN Source /\ n \in Nat /\ handle[p] # None /\ n + 1 <= Len(Source[s])
    BY <1>6, SourceTypes DEF CopyChunk, Remaining
  <2>2. /\ UNCHANGED <<partial, dest, pc, source, handle, published, runs>>
        /\ offset' = [offset EXCEPT ![p] = n + 1]
        /\ pc[p] = "copy"
    BY <1>6 DEF CopyChunk
  <2>3. \A q \in Process : pc[q] # "idle" => q = p
    BY <2>2
  <2>4. CASE handle[p] = Stdout
    <3>1. files' = files
      BY <1>6, <2>4 DEF CopyChunk
    <3> QED
      BY <2>2, <2>3, <2>4, <3>1
  <2>5. CASE handle[p] # Stdout
    <3>1. handle[p] = partial /\ files[partial] = FirstChunks(s, n) /\ partial \in 1..Len(files)
      BY <2>1, <2>2, <2>5
    <3>2. files' = [files EXCEPT ![partial] = FirstChunks(s, n + 1)]
      <4>1. Written(FirstChunks(s, n), n + 1, Source[s][n + 1]) = FirstChunks(s, n + 1)
        BY <2>1, WriteNext
      <4>2. files' = [files EXCEPT ![handle[p]] =
                         Written(files[handle[p]], n + 1, Source[s][n + 1])]
        BY <1>6, <2>5 DEF CopyChunk
      <4> QED
        BY <3>1, <4>1, <4>2
    <3>3. files'[partial] = FirstChunks(s, n + 1)
      BY <1>1, <3>1, <3>2
    <3>4. dest # None => files'[dest] = files[dest]
      BY <1>1, <3>1, <3>2
    <3>5. offset'[p] = n + 1
      BY <2>2
    <3> HIDE DEF s, n
    <3>6. DestIsLastPublished'
      BY <2>2, <3>4
    <3>7. \A q \in Process : pc'[q] = "copy" /\ handle'[q] # Stdout =>
             handle'[q] = partial' /\ files'[partial'] = FirstChunks(source'[q], offset'[q])
      BY <2>2, <2>3, <3>1, <3>3, <3>5 DEF s
    <3>8. \A q \in Process : pc'[q] # "rename"
      BY <2>2, <2>3
    <3> QED
      BY <2>2, <3>6, <3>7, <3>8
  <2> QED
    BY <2>4, <2>5
<1>7. ASSUME NEW p \in Process, NEW removed \in BOOLEAN,
             CopyFails(p, removed) \/ RenameFails(p, removed)
      PROVE  DestInv'
  <2>1. /\ files' = files /\ dest' = dest /\ published' = published /\ runs' = runs
        /\ pc' = [pc EXCEPT ![p] = "idle"] /\ pc[p] # "idle"
        /\ partial' \in {partial, None}
    BY <1>7 DEF CopyFails, RenameFails, Exit
  <2>2. \A q \in Process : pc'[q] = "idle"
    BY <2>1
  <2> QED
    BY <2>1, <2>2
<1>8. ASSUME NEW p \in Process, CopyDone(p) PROVE DestInv'
  <2>1. /\ UNCHANGED <<files, partial, dest, source, offset, published, runs>>
        /\ pc[p] = "copy" /\ \A q \in Process : pc[q] # "idle" => q = p
    BY <1>8 DEF CopyDone, Exit
  <2>2. CASE handle[p] = Stdout
    <3>1. \A q \in Process : pc'[q] = "idle"
      BY <1>8, <2>1, <2>2 DEF CopyDone, Exit
    <3> QED
      BY <2>1, <3>1
  <2>3. CASE handle[p] # Stdout
    <3>1. pc' = [pc EXCEPT ![p] = "rename"] /\ handle' = handle
      BY <1>8, <2>3 DEF CopyDone
    <3>2. source[p] \in DOMAIN Source /\ offset[p] = Len(Source[source[p]])
      BY <1>8, <2>1, SourceTypes DEF CopyDone, Remaining
    <3>3. FirstChunks(source[p], offset[p]) = Source[source[p]]
      BY <3>2, SourceTypes DEF FirstChunks
    <3>4. handle[p] = partial /\ files[partial] = Source[source[p]]
      BY <2>1, <2>3, <3>3
    <3>5. \A q \in Process : pc'[q] # "idle" => q = p /\ pc'[q] = "rename"
      BY <2>1, <3>1
    <3> QED
      BY <2>1, <3>1, <3>4, <3>5
  <2> QED
    BY <2>2, <2>3
<1>9. ASSUME NEW p \in Process, Rename(p) PROVE DestInv'
  <2>1. /\ pc[p] = "rename" /\ partial # None /\ dest' = partial /\ partial' = None
        /\ published' = source[p] /\ files' = files /\ runs' = runs
        /\ pc' = [pc EXCEPT ![p] = "idle"]
    BY <1>9 DEF Rename, Exit
  <2>2. files[partial] = Source[source[p]] /\ source[p] \in DOMAIN Source
    BY <2>1
  <2>3. \A q \in Process : pc'[q] = "idle"
    BY <2>1
  <2> QED
    BY <2>1, <2>2, <2>3, FilesAssumption
<1>10. ASSUME NEW p \in Process, Kill(p) PROVE DestInv'
  <2>1. /\ UNCHANGED <<files, partial, dest, published, runs>>
        /\ pc' = [pc EXCEPT ![p] = "idle"] /\ pc[p] # "idle"
    BY <1>10 DEF Kill, Exit
  <2>2. \A q \in Process : pc'[q] = "idle"
    BY <2>1
  <2> QED
    BY <2>1, <2>2
<1>11. CASE UNCHANGED publishVars
  BY <1>11 DEF publishVars
<1> QED
  BY <1>3, <1>4, <1>5, <1>6, <1>7, <1>8, <1>9, <1>10, <1>11 DEF PublishNext, PublishStep

\* While runs do not overlap, FILE is whole: it is the source of the last
\* run that published, whatever runs failed or were killed at any step
\* before and since, and FILE is there only if one did.
THEOREM DestIsWhole == PublishSpec /\ [][OneAtATime]_publishVars => []DestIsLastPublished
<1>1. PublishInit => DestInv
  BY DEF PublishInit, DestInv, Writing, DestIsLastPublished
<1>2. DestInv => DestIsLastPublished
  BY DEF DestInv
<1>3. TypeInv /\ DestInv /\ [PublishNext]_publishVars /\ [OneAtATime]_publishVars => DestInv'
  BY NextDest
<1> QED
  BY <1>1, <1>2, <1>3, InitFiles, NextFiles, PTL DEF PublishSpec

\* So one process, running again and again, never publishes less than a
\* whole source, nor one it did not finish copying.
THEOREM OneProcess ==
    ASSUME NEW w, Process = {w}
    PROVE  PublishSpec => []DestIsLastPublished
<1>1. [PublishNext]_publishVars => [OneAtATime]_publishVars
  BY DEF PublishNext, PublishStep, ToStdout, ToFile, Refuse, RefuseCreate, Begin, CopyChunk, CopyFails,
         RenameFails, CopyDone, Rename, Kill, Exit, OneAtATime, publishVars
<1> QED
  BY <1>1, DestIsWhole, PTL DEF PublishSpec

=============================================================================
