-------------------------- MODULE BlockCacheProofs --------------------------
(***************************************************************************)
(* Proofs about BlockCache, for any number of readers, requests, capacities*)
(* and resizes: types, what the cache holds, that it changes no answer,    *)
(* and that a reader does not decode a block twice.                        *)
(***************************************************************************)
EXTENDS BlockCache, FiniteSetTheorems, TLAPS

CONSTANTS
    BlockSize, DeviceSize, Inflated, MetadataSize, Malformed,
    Image       \* the metadata blocks of the image

\* What the two caches of a mount decode.
Data == INSTANCE DataBlock
Meta == INSTANCE MetaBlock

-----------------------------------------------------------------------------
(* The `lru` operators.                                                    *)

\* The entries of a sequence have distinct keys.
Distinct(l) == \A i, j \in 1..Len(l) : l[i].key = l[j].key => i = j

\* A held key has a position, and the entry there has that key.
LEMMA PositionOf ==
    ASSUME NEW l, NEW k, Holds(l, k)
    PROVE  Position(l, k) \in 1..Len(l) /\ l[Position(l, k)].key = k
BY DEF Holds, Positions, Position

\* get reorders the entries and changes nothing else: same length, same
\* entries, distinct keys still distinct, and the touched one in front.
LEMMA TouchReorders ==
    ASSUME NEW E, NEW l \in Seq(E), NEW k, Holds(l, k)
    PROVE  /\ Touch(l, k) \in Seq(E)
           /\ Len(Touch(l, k)) = Len(l)
           /\ Len(l) >= 1
           /\ Touch(l, k)[1] = l[Position(l, k)]
           /\ \A j \in 1..Len(l) : \E i \in 1..Len(l) : Touch(l, k)[j] = l[i]
           /\ \A i \in 1..Len(l) : \E j \in 1..Len(l) : Touch(l, k)[j] = l[i]
           /\ Distinct(l) => Distinct(Touch(l, k))
<1> DEFINE p == Position(l, k)
           n == Len(l)
           m == Touch(l, k)
<1>1. n \in Nat /\ p \in 1..n
  BY PositionOf
<1>2. m = [j \in 1..n |-> IF j = 1 THEN l[p] ELSE IF j <= p THEN l[j - 1] ELSE l[j]]
  BY DEF Touch, MoveToFront
<1> HIDE DEF p, n, m
<1>3. \A j \in 1..n : l[j] \in E
  BY DEF n
<1>4. \A j \in 1..n : m[j] = IF j = 1 THEN l[p] ELSE IF j <= p THEN l[j - 1] ELSE l[j]
  BY <1>2
<1>5. m \in Seq(E) /\ Len(m) = n
  <2>1. \A j \in 1..n : m[j] \in E
    BY <1>1, <1>3, <1>4
  <2>2. m \in [1..n -> E]
    BY <1>2, <2>1
  <2> QED
    BY <1>1, <2>2
<1>6. \A j \in 1..n : \E i \in 1..n : m[j] = l[i]
  <2> TAKE j \in 1..n
  <2>1. CASE j = 1
    BY <1>1, <1>4, <2>1
  <2>2. CASE j # 1 /\ j <= p
    <3>1. j - 1 \in 1..n /\ m[j] = l[j - 1]
      BY <1>1, <1>4, <2>2
    <3> QED
      BY <3>1
  <2>3. CASE j # 1 /\ ~(j <= p)
    BY <1>4, <2>3
  <2> QED
    BY <2>1, <2>2, <2>3
<1>7. \A i \in 1..n : \E j \in 1..n : m[j] = l[i]
  <2> TAKE i \in 1..n
  <2>1. CASE i = p
    BY <1>1, <1>4, <2>1
  <2>2. CASE i < p
    <3>1. i + 1 \in 1..n /\ i + 1 # 1 /\ i + 1 <= p /\ (i + 1) - 1 = i
      BY <1>1, <2>2
    <3> QED
      BY <1>4, <3>1
  <2>3. CASE i > p
    <3>1. i # 1 /\ ~(i <= p)
      BY <1>1, <2>3
    <3> QED
      BY <1>4, <3>1
  <2> QED
    BY <1>1, <2>1, <2>2, <2>3
<1>8. ASSUME Distinct(l) PROVE Distinct(m)
  <2> DEFINE from(j) == IF j = 1 THEN p ELSE IF j <= p THEN j - 1 ELSE j
  <2>1. \A j \in 1..n : from(j) \in 1..n /\ m[j] = l[from(j)]
    BY <1>1, <1>4
  <2>2. \A i, j \in 1..n : from(i) = from(j) => i = j
    BY <1>1
  <2> HIDE DEF from
  <2> QED
    BY <1>5, <1>8, <2>1, <2>2 DEF Distinct, n
<1>9. n >= 1 /\ m[1] = l[p]
  BY <1>1, <1>4
<1> QED
  BY <1>5, <1>6, <1>7, <1>8, <1>9 DEF n, m, p

\* put holds the new entry in front; every other entry was there before;
\* nothing else goes unless the cache was full; it never outgrows its bound.
LEMMA PutHolds ==
    ASSUME NEW E, NEW l \in Seq(E), NEW c \in Nat, c # 0, Len(l) <= c,
           NEW k, NEW v, Entry(k, v) \in E
    PROVE  /\ Put(l, c, k, v) \in Seq(E)
           /\ Len(Put(l, c, k, v)) <= c
           /\ Len(Put(l, c, k, v)) \in 1..(Len(l) + 1)
           /\ Put(l, c, k, v)[1] = Entry(k, v)
           /\ \A j \in 1..Len(Put(l, c, k, v)) :
                  \/ Put(l, c, k, v)[j] = Entry(k, v)
                  \/ \E i \in 1..Len(l) : Put(l, c, k, v)[j] = l[i]
           /\ ~Evicts(l, c, k) => \A i \in 1..Len(l) :
                  \E j \in 1..Len(Put(l, c, k, v)) : Put(l, c, k, v)[j].key = l[i].key
           /\ Distinct(l) => Distinct(Put(l, c, k, v))
<1> DEFINE q == Put(l, c, k, v)
           e == Entry(k, v)
<1>0. e.key = k /\ Len(l) \in Nat
  BY DEF Entry
<1>1. CASE Holds(l, k)
  <2> DEFINE m == Touch(l, k)
  <2>1. /\ m \in Seq(E)
        /\ Len(m) = Len(l)
        /\ Len(l) >= 1
        /\ m[1] = l[Position(l, k)]
        /\ \A j \in 1..Len(l) : \E i \in 1..Len(l) : m[j] = l[i]
        /\ \A i \in 1..Len(l) : \E j \in 1..Len(l) : m[j] = l[i]
        /\ Distinct(l) => Distinct(m)
    BY <1>1, TouchReorders
  <2>2. m[1].key = k
    BY <1>1, <2>1, PositionOf
  <2>3. q = [m EXCEPT ![1] = e]
    BY <1>1 DEF Put
  <2> HIDE DEF q, e, m
  <2>a. m \in [1..Len(l) -> E] /\ 1 \in 1..Len(l) /\ e \in E
    BY <1>0, <2>1, SMTT(20) DEF e
  <2>b. q \in [1..Len(l) -> E]
    BY <2>3, <2>a
  <2>4. q \in Seq(E) /\ Len(q) = Len(l)
    BY <1>0, <2>b
  <2>5. \A j \in 1..Len(l) : q[j] = IF j = 1 THEN e ELSE m[j]
    BY <2>3, <2>a
  <2>6. \A j \in 1..Len(l) : q[j].key = m[j].key
    BY <1>0, <2>2, <2>5
  <2>7. ASSUME Distinct(l) PROVE Distinct(q)
    BY <2>1, <2>4, <2>6, <2>7 DEF Distinct
  <2>8. \A i \in 1..Len(l) : \E j \in 1..Len(q) : q[j].key = l[i].key
    <3> TAKE i \in 1..Len(l)
    <3>1. PICK j \in 1..Len(l) : m[j] = l[i]
      BY <2>1
    <3> QED
      BY <2>4, <2>6, <3>1
  <2>9. \A j \in 1..Len(q) : q[j] = e \/ \E i \in 1..Len(l) : q[j] = l[i]
    <3>1. \A j \in 1..Len(l) : \E i \in 1..Len(l) : m[j] = l[i]
      BY <2>1
    <3> QED
      BY <2>4, <2>5, <3>1
  <2>10. q[1] = e
    BY <2>5, <2>a
  <2> QED
    BY <1>0, <2>1, <2>4, <2>7, <2>8, <2>9, <2>10 DEF q, e
<1>2. CASE ~Holds(l, k)
  <2> DEFINE n == IF Len(l) = c THEN Len(l) ELSE Len(l) + 1
  <2>1. q = [j \in 1..n |-> IF j = 1 THEN e ELSE l[j - 1]]
    BY <1>2 DEF Put
  <2>2. n \in Nat /\ n >= 1 /\ n <= c /\ n <= Len(l) + 1
    BY <1>0
  <2>3. Len(l) # c => n = Len(l) + 1
    OBVIOUS
  <2>4. \A i \in 1..Len(l) : l[i].key # k
    BY <1>2 DEF Holds, Positions
  <2> HIDE DEF q, e, n
  <2>5. \A j \in 1..n : j # 1 => j - 1 \in 1..Len(l)
    BY <1>0, <2>2
  <2>6. \A j \in 1..n : q[j] \in E
    BY <2>1, <2>5 DEF e
  <2>7. q \in [1..n -> E]
    BY <2>1, <2>6
  <2>8. q \in Seq(E) /\ Len(q) = n
    BY <2>2, <2>7
  <2>9. \A j \in 1..Len(q) : q[j] = e \/ \E i \in 1..Len(l) : q[j] = l[i]
    BY <2>1, <2>5, <2>8
  <2>10. ASSUME ~Evicts(l, c, k), NEW i \in 1..Len(l)
         PROVE \E j \in 1..Len(q) : q[j].key = l[i].key
    <3>1. n = Len(l) + 1
      BY <1>2, <2>3, <2>10 DEF Evicts
    <3>2. i + 1 \in 1..n /\ i + 1 # 1 /\ (i + 1) - 1 = i
      BY <1>0, <3>1
    <3> QED
      BY <2>1, <2>8, <3>2
  <2>11. ASSUME Distinct(l) PROVE Distinct(q)
    <3> SUFFICES ASSUME NEW i \in 1..n, NEW j \in 1..n, q[i].key = q[j].key
                 PROVE  i = j
      BY <2>8 DEF Distinct
    <3>1. CASE i = 1 /\ j = 1
      BY <3>1
    <3>2. CASE i = 1 /\ j # 1
      BY <1>0, <2>1, <2>4, <2>5, <3>2
    <3>3. CASE i # 1 /\ j = 1
      BY <1>0, <2>1, <2>4, <2>5, <3>3
    <3>4. CASE i # 1 /\ j # 1
      <4>1. i - 1 \in 1..Len(l) /\ j - 1 \in 1..Len(l)
        BY <2>5, <3>4
      <4>2. l[i - 1].key = l[j - 1].key
        BY <2>1, <3>4
      <4>3. i - 1 = j - 1
        BY <2>11, <4>1, <4>2 DEF Distinct
      <4> QED
        BY <2>2, <4>3
    <3> QED
      BY <3>1, <3>2, <3>3, <3>4
  <2>12. q[1] = e
    BY <2>1, <2>2
  <2> QED
    BY <2>2, <2>8, <2>9, <2>10, <2>11, <2>12 DEF q, e
<1> QED
  BY <1>1, <1>2

-----------------------------------------------------------------------------
(* Types, and what a reader in the middle of a read carries.               *)

\* A reader in a read has a request and no answer; one about to insert has
\* decoded its own request; one at rest has been answered, or never asked.
InFlight ==
    \A t \in Thread :
        /\ pc[t] # "idle" => req[t] \in Request /\ answer[t] = None
        /\ pc[t] = "idle" => req[t] = None \/ answer[t] # None
        /\ pc[t] = "insert" => block[t] = Decode(req[t]) /\ Decode(req[t]) # Refused

TypeInv == TypeOK /\ InFlight /\ BoundedEntries

\* What a request decodes to, when it is not refused, is a block, and its
\* key is a key: the types that read_data_block hands to insert.
LEMMA RequestTypes ==
    ASSUME NEW r \in Request
    PROVE  /\ KeyOf(r) \in Key
           /\ Decode(r) # Refused => Decode(r) \in Block
           /\ Decode(r) # None /\ Decode(r) # IoError
BY AnswerAssumption DEF Key, Block

\* No error and no absence of an answer is ever taken for a block.
LEMMA BlockTypes == None \notin Block /\ IoError \notin Block /\ Refused \notin Block
BY AnswerAssumption DEF Block

\* What a hit returns is the value of an entry with that key.
LEMMA ValueOf ==
    ASSUME NEW l \in Seq([key : Key, val : Block]), NEW k, Holds(l, k)
    PROVE  /\ Value(l, k) \in Block
           /\ \E i \in 1..Len(l) : l[i].key = k /\ l[i].val = Value(l, k)
<1>1. Position(l, k) \in 1..Len(l) /\ l[Position(l, k)].key = k
  BY PositionOf
<1>2. l[Position(l, k)] \in [key : Key, val : Block]
  <2> DEFINE E == [key : Key, val : Block]
  <2>1. l \in Seq(E)
    OBVIOUS
  <2> HIDE DEF E
  <2>2. l[Position(l, k)] \in E
    BY <1>1, <2>1
  <2> QED
    BY <2>2 DEF E
<1> QED
  BY <1>1, <1>2 DEF Value

\* A new cache (LruCache::new) is a sequence of no entries, of any type.
LEMMA EmptyIsASequence ==
    ASSUME NEW E PROVE Empty \in Seq(E) /\ Len(Empty) = 0
BY DEF Empty

\* A mount starts with a well-typed, bounded cache and no read under way.
LEMMA InitTypes == Init => TypeInv
<1> SUFFICES ASSUME Init PROVE TypeInv
  OBVIOUS
<1>1. TypeOK
  <2>1. lru \in Seq([key : Key, val : Block])
    BY EmptyIsASequence DEF Init
  <2>2. loaded \in [Thread -> SUBSET Key]
    BY DEF Init
  <2>3. reads \in 0..MaxReads /\ resizes \in 0..MaxResizes
    BY CapacityAssumption DEF Init
  <2> QED
    BY <2>1, <2>2, <2>3, CapacityAssumption DEF Init, TypeOK
<1>2. InFlight
  BY DEF Init, InFlight
<1>3. BoundedEntries
  BY CapacityAssumption DEF Init, BoundedEntries, Empty
<1> QED
  BY <1>1, <1>2, <1>3 DEF TypeInv

\* Every step of a read and every set_capacity keeps the types, the bound on
\* the entries and what is known of the readers between lookup and insert.
LEMMA NextTypes == TypeInv /\ [Next]_vars => TypeInv'
<1> SUFFICES ASSUME TypeInv, [Next]_vars PROVE TypeInv'
  OBVIOUS
<1> USE DEF TypeInv
<1>1. ASSUME NEW t \in Thread, NEW r \in Request, Ask(t, r) PROVE TypeInv'
  <2>1. TypeOK'
    BY <1>1, CapacityAssumption DEF Ask, TypeOK, cacheVars, historyVars
  <2>2. InFlight'
    BY <1>1, AnswerAssumption DEF Ask, TypeOK, InFlight, cacheVars, historyVars
  <2>3. BoundedEntries'
    BY <1>1 DEF Ask, BoundedEntries, cacheVars
  <2> QED
    BY <2>1, <2>2, <2>3
<1>2. ASSUME NEW t \in Thread, GetHit(t) PROVE TypeInv'
  <2> DEFINE k == KeyOf(req[t])
  <2>1. Holds(lru, k) /\ lru \in Seq([key : Key, val : Block])
    BY <1>2 DEF GetHit, TypeOK
  <2>2. Value(lru, k) \in Block
    BY <2>1, ValueOf
  <2>3. /\ Touch(lru, k) \in Seq([key : Key, val : Block])
        /\ Len(Touch(lru, k)) = Len(lru)
        /\ Distinct(lru) => Distinct(Touch(lru, k))
    BY <2>1, TouchReorders
  <2>4. TypeOK'
    BY <1>2, <2>2, <2>3 DEF GetHit, TypeOK, historyVars
  <2>5. InFlight'
    BY <1>2, <2>2, BlockTypes DEF GetHit, TypeOK, InFlight
  <2>6. BoundedEntries'
    BY <1>2, <2>3 DEF GetHit, BoundedEntries, Distinct
  <2> QED
    BY <2>4, <2>5, <2>6
<1>3. ASSUME NEW t \in Thread, GetMiss(t) PROVE TypeInv'
  <2>1. TypeOK'
    BY <1>3 DEF GetMiss, TypeOK, CacheOn
  <2>2. InFlight'
    BY <1>3 DEF GetMiss, TypeOK, InFlight
  <2>3. BoundedEntries'
    BY <1>3 DEF GetMiss, BoundedEntries
  <2> QED
    BY <2>1, <2>2, <2>3
<1>4. ASSUME NEW t \in Thread, DecodeBlock(t) PROVE TypeInv'
  <2>1. req[t] \in Request
    BY <1>4 DEF DecodeBlock, InFlight
  <2>2. TypeOK'
    BY <1>4, <2>1, RequestTypes DEF DecodeBlock, TypeOK, cacheVars, historyVars
  <2>3. InFlight'
    BY <1>4, <2>1 DEF DecodeBlock, TypeOK, InFlight
  <2>4. BoundedEntries'
    BY <1>4 DEF DecodeBlock, BoundedEntries, cacheVars
  <2> QED
    BY <2>2, <2>3, <2>4
<1>5. ASSUME NEW t \in Thread, NEW e \in {Refused, IoError}, Fail(t, e) PROVE TypeInv'
  <2>1. TypeOK'
    BY <1>5 DEF Fail, TypeOK, cacheVars
  <2>2. InFlight'
    BY <1>5, AnswerAssumption DEF Fail, TypeOK, InFlight
  <2>3. BoundedEntries'
    BY <1>5 DEF Fail, BoundedEntries, cacheVars
  <2> QED
    BY <2>1, <2>2, <2>3
<1>6. ASSUME NEW t \in Thread, Insert(t) PROVE TypeInv'
  <2> DEFINE k == KeyOf(req[t])
             E == [key : Key, val : Block]
  <2>1. req[t] \in Request /\ block[t] = Decode(req[t]) /\ block[t] \in Block /\ k \in Key
    BY <1>6, RequestTypes DEF Insert, InFlight
  <2>2. lru \in Seq(E) /\ capacity \in Nat /\ Len(lru) <= capacity
    BY CapacityAssumption DEF TypeOK, BoundedEntries
  <2>3. Entry(k, block[t]) \in E
    BY <2>1 DEF Entry
  <2>4. /\ lru' \in Seq(E)
        /\ Len(lru') <= capacity
        /\ Distinct(lru) => Distinct(lru')
    <3>1. CASE CacheOn
      <4>1. capacity # 0 /\ lru' = Put(lru, capacity, k, block[t])
        BY <1>6, <3>1 DEF Insert, CacheOn
      <4> HIDE DEF k, E
      <4> QED
        BY <2>2, <2>3, <4>1, PutHolds
    <3>2. CASE ~CacheOn
      BY <1>6, <2>2, <3>2 DEF Insert
    <3> QED
      BY <3>1, <3>2
  <2>5. TypeOK'
    <3>1. loaded' \in [Thread -> SUBSET Key]
      BY <1>6, <2>1 DEF Insert, TypeOK
    <3>2. strays' \in Nat /\ evicted' \in BOOLEAN
      BY <1>6 DEF Insert, TypeOK
    <3> QED
      BY <1>6, <2>1, <2>4, <3>1, <3>2 DEF Insert, TypeOK
  <2>6. InFlight'
    BY <1>6, <2>1, BlockTypes DEF Insert, TypeOK, InFlight
  <2>7. BoundedEntries'
    BY <1>6, <2>4 DEF Insert, BoundedEntries, Distinct
  <2> QED
    BY <2>5, <2>6, <2>7
<1>7. ASSUME NEW c \in Capacities, SetCapacity(c) PROVE TypeInv'
  <2>1. TypeOK'
    <3>1. lru' \in Seq([key : Key, val : Block])
      BY <1>7, EmptyIsASequence DEF SetCapacity
    <3>2. loaded' \in [Thread -> SUBSET Key]
      BY <1>7 DEF SetCapacity
    <3>3. resizes' \in 0..MaxResizes
      BY <1>7, CapacityAssumption DEF SetCapacity, TypeOK
    <3> QED
      BY <1>7, <3>1, <3>2, <3>3 DEF SetCapacity, TypeOK, readerVars
  <2>2. InFlight'
    BY <1>7 DEF SetCapacity, InFlight, readerVars
  <2>3. BoundedEntries'
    BY <1>7, CapacityAssumption DEF SetCapacity, BoundedEntries, Empty
  <2> QED
    BY <2>1, <2>2, <2>3
<1>8. CASE UNCHANGED vars
  BY <1>8 DEF vars, cacheVars, readerVars, historyVars, TypeOK, InFlight, BoundedEntries
<1> QED
  BY <1>1, <1>2, <1>3, <1>4, <1>5, <1>6, <1>7, <1>8
  DEF Next, Step, DecodeRefused, DeviceFails

\* Every variable keeps its type in every behaviour of the cache.
THEOREM TypeCorrect == Spec => []TypeOK
<1>1. TypeInv => TypeOK
  BY DEF TypeInv
<1> QED
  BY <1>1, InitTypes, NextTypes, PTL DEF Spec

\* The cache never holds more than its capacity, nor two entries under one
\* key, whatever inserts race and however often it is resized.
THEOREM EntriesBounded == Spec => []BoundedEntries
<1>1. TypeInv => BoundedEntries
  BY DEF TypeInv
<1> QED
  BY <1>1, InitTypes, NextTypes, PTL DEF Spec

-----------------------------------------------------------------------------
(* What the cache holds, and what it answers.                              *)

\* A step keeps every entry the decode of its key: get only reorders, and
\* insert adds what the reader decoded for that key, however long ago.
LEMMA NextCoherent ==
    ASSUME KeyDeterminesDecode, TypeInv, CoherentEntries, [Next]_vars
    PROVE  CoherentEntries'
<1> DEFINE E == [key : Key, val : Block]
<1>0. lru \in Seq(E)
  BY DEF TypeInv, TypeOK
<1>1. ASSUME UNCHANGED lru PROVE CoherentEntries'
  <2>1. lru' = lru
    BY <1>1
  <2> HIDE DEF E
  <2> QED
    BY <2>1 DEF CoherentEntries
<1>2. ASSUME NEW t \in Thread, GetHit(t) PROVE CoherentEntries'
  <2> DEFINE k == KeyOf(req[t])
  <2>1. Holds(lru, k) /\ lru \in Seq([key : Key, val : Block])
    BY <1>2 DEF GetHit, TypeInv, TypeOK
  <2>2. /\ Len(Touch(lru, k)) = Len(lru)
        /\ \A j \in 1..Len(lru) : \E i \in 1..Len(lru) : Touch(lru, k)[j] = lru[i]
    BY <2>1, TouchReorders
  <2>3. lru' = Touch(lru, k)
    BY <1>2 DEF GetHit
  <2> HIDE DEF k, E
  <2> QED
    BY <2>2, <2>3 DEF CoherentEntries
<1>3. ASSUME NEW t \in Thread, Insert(t) PROVE CoherentEntries'
  <2> DEFINE k == KeyOf(req[t])
  <2>1. req[t] \in Request /\ block[t] = Decode(req[t]) /\ block[t] \in Block /\ k \in Key
    BY <1>3, RequestTypes DEF Insert, TypeInv, InFlight
  <2>2. CASE ~CacheOn
    BY <1>1, <1>3, <2>2 DEF Insert
  <2>3. CASE CacheOn
    <3>1. capacity \in Nat /\ Len(lru) <= capacity
      BY CapacityAssumption DEF TypeInv, TypeOK, BoundedEntries
    <3>2. Entry(k, block[t]) \in E
      BY <2>1 DEF Entry
    <3>3. capacity # 0 /\ lru' = Put(lru, capacity, k, block[t])
      BY <1>3, <2>3 DEF Insert, CacheOn
    <3>4. \A r \in Request : k = KeyOf(r) => block[t] = Decode(r)
      BY <2>1 DEF KeyDeterminesDecode
    <3> HIDE DEF k, E
    <3>5. \A j \in 1..Len(lru') :
            lru'[j] = Entry(k, block[t]) \/ \E i \in 1..Len(lru) : lru'[j] = lru[i]
      BY <1>0, <3>1, <3>2, <3>3, PutHolds
    <3>6. Entry(k, block[t]).key = k /\ Entry(k, block[t]).val = block[t]
      BY DEF Entry
    <3> SUFFICES ASSUME NEW j \in 1..Len(lru'), NEW r \in Request, KeyOf(r) = lru'[j].key
                 PROVE  lru'[j].val = Decode(r)
      BY DEF CoherentEntries
    <3>7. CASE lru'[j] = Entry(k, block[t])
      BY <3>4, <3>6, <3>7
    <3>8. CASE \E i \in 1..Len(lru) : lru'[j] = lru[i]
      BY <3>8 DEF CoherentEntries
    <3> QED
      BY <3>5, <3>7, <3>8
  <2> QED
    BY <2>2, <2>3
<1>4. ASSUME NEW c \in Capacities, SetCapacity(c) PROVE CoherentEntries'
  <2>1. Len(lru') = 0
    BY <1>4, EmptyIsASequence DEF SetCapacity
  <2> QED
    BY <2>1 DEF CoherentEntries
<1>5. ASSUME NEW t \in Thread, NEW r \in Request, Ask(t, r) PROVE UNCHANGED lru
  BY <1>5 DEF Ask, cacheVars
<1>6. ASSUME NEW t \in Thread,
             GetMiss(t) \/ DecodeBlock(t) \/ DecodeRefused(t) \/ DeviceFails(t)
      PROVE UNCHANGED lru
  BY <1>6 DEF GetMiss, DecodeBlock, DecodeRefused, DeviceFails, Fail, cacheVars
<1>7. ASSUME UNCHANGED vars PROVE UNCHANGED lru
  BY <1>7 DEF vars, cacheVars
<1> QED
  BY <1>1, <1>2, <1>3, <1>4, <1>5, <1>6, <1>7 DEF Next, Step

\* The cache of a new mount holds nothing that could be wrong.
LEMMA InitCoherent == Init => CoherentEntries
BY EmptyIsASequence DEF Init, CoherentEntries

\* If the key determines the decode, then what is held under a key is what
\* every request with that key decodes to, in every interleaving.
THEOREM Coherence ==
    ASSUME KeyDeterminesDecode
    PROVE  Spec => []CoherentEntries
<1>1. TypeInv /\ CoherentEntries /\ [Next]_vars => CoherentEntries'
  BY NextCoherent
<1> QED
  BY <1>1, InitTypes, NextTypes, InitCoherent, PTL DEF Spec

\* One step of the cache is one step, or none, of the reads without it.
LEMMA StepIsUncachedStep ==
    ASSUME TypeInv, CoherentEntries, [Next]_vars
    PROVE  [Uncached!Next]_(Uncached!vars)
<1> USE DEF TypeInv
<1>1. ASSUME NEW t \in Thread, NEW r \in Request, Ask(t, r) PROVE Uncached!Ask(t, r)
  <2>1. req[t] = None \/ answer[t] # None
    BY <1>1 DEF Ask, InFlight
  <2> QED
    BY <1>1, <2>1 DEF Ask, Uncached!Ask
<1>2. ASSUME NEW t \in Thread, NEW a \in {Decode(req[t]), IoError}, pc[t] # "idle",
             answer' = [answer EXCEPT ![t] = a], UNCHANGED req
      PROVE  Uncached!Return(t)
  <2>1. req[t] # None /\ answer[t] = None
    BY <1>2, AnswerAssumption DEF InFlight
  <2> QED
    BY <1>2, <2>1 DEF Uncached!Return
<1>3. ASSUME NEW t \in Thread, GetHit(t) PROVE Uncached!Return(t)
  <2>1. req[t] \in Request /\ Holds(lru, KeyOf(req[t]))
    BY <1>3 DEF GetHit, InFlight
  <2>2. PICK i \in 1..Len(lru) :
          lru[i].key = KeyOf(req[t]) /\ lru[i].val = Value(lru, KeyOf(req[t]))
    BY <2>1, ValueOf DEF TypeOK
  <2>3. Value(lru, KeyOf(req[t])) = Decode(req[t])
    BY <2>1, <2>2 DEF CoherentEntries
  <2> QED
    BY <1>2, <1>3, <2>3 DEF GetHit
<1>4. ASSUME NEW t \in Thread, Insert(t) PROVE Uncached!Return(t)
  <2>1. block[t] = Decode(req[t])
    BY <1>4 DEF Insert, InFlight
  <2> QED
    BY <1>2, <1>4, <2>1 DEF Insert
<1>5. ASSUME NEW t \in Thread, DecodeRefused(t) \/ DeviceFails(t) PROVE Uncached!Return(t)
  BY <1>2, <1>5 DEF DecodeRefused, DeviceFails, Fail
<1>6. ASSUME NEW t \in Thread, GetMiss(t) \/ DecodeBlock(t) PROVE UNCHANGED <<req, answer>>
  BY <1>6 DEF GetMiss, DecodeBlock
<1>7. ASSUME NEW c \in Capacities, SetCapacity(c) PROVE UNCHANGED <<req, answer>>
  BY <1>7 DEF SetCapacity, readerVars
<1>8. ASSUME UNCHANGED vars PROVE UNCHANGED <<req, answer>>
  BY <1>8 DEF vars, readerVars
<1> QED
  BY <1>1, <1>3, <1>4, <1>5, <1>6, <1>7, <1>8
  DEF Next, Step, Uncached!Next, Uncached!vars

\* The cache changes no answer: with any key that determines the decode, a
\* mount with the cache implements the mount without it.
THEOREM CacheIsInvisible ==
    ASSUME KeyDeterminesDecode
    PROVE  Spec => ImplementsUncached
<1>1. Init => Uncached!Init
  BY DEF Init, Uncached!Init
<1>2. TypeInv /\ CoherentEntries /\ [Next]_vars => [Uncached!Next]_(Uncached!vars)
  BY StepIsUncachedStep
<1>3. TypeInv /\ CoherentEntries /\ [Next]_vars => CoherentEntries'
  BY NextCoherent
<1> QED
  BY <1>1, <1>2, <1>3, InitTypes, NextTypes, InitCoherent, PTL
  DEF Spec, ImplementsUncached, Uncached!Spec

-----------------------------------------------------------------------------
(* The two caches of a mount.                                              *)

\* What a cache is asked for, the key it keeps it under and what it decodes
\* to are those of DataCache.
IsDataCache ==
    \A r \in Request :
       /\ \E offset, word, maxOut : r = Data!DataRequest(offset, word, maxOut)
       /\ KeyOf(r) = Data!DataKey(r)
       /\ Decode(r) = Data!DecodeDataBlock(r)

\* ... of MetaCache.
IsMetaCache ==
    \A r \in Request :
       /\ KeyOf(r) = Meta!MetaKey(r)
       /\ Decode(r) = Meta!ReadBlock(Image, Meta!AbsOf(r))

\* read_data_block's key is the whole request: place, size word and cap fix
\* every byte that decode_data_block makes.
LEMMA DataKeyDeterminesDecode == IsDataCache => KeyDeterminesDecode
<1> SUFFICES ASSUME IsDataCache, NEW r \in Request, NEW s \in Request, KeyOf(r) = KeyOf(s)
             PROVE  Decode(r) = Decode(s)
  BY DEF KeyDeterminesDecode
<1>1. r.offset = s.offset /\ r.word = s.word /\ r.maxOut = s.maxOut
  BY DEF IsDataCache, Data!DataKey
<1>2. r = s
  BY <1>1 DEF IsDataCache, Data!DataRequest
<1> QED
  BY <1>2

\* The metadata cache is keyed by a block's absolute offset: a reference
\* through another table to the same place is another name for one block.
LEMMA MetaKeyDeterminesDecode == IsMetaCache => KeyDeterminesDecode
BY DEF KeyDeterminesDecode, IsMetaCache, Meta!MetaKey

\* The data cache changes no answer of read_data_block: whatever readers race
\* and whatever place, size word and cap they ask for, a mount with it
\* behaves as one without.
THEOREM DataCacheIsInvisible ==
    ASSUME IsDataCache
    PROVE  Spec => ImplementsUncached
BY DataKeyDeterminesDecode, CacheIsInvisible

\* The metadata cache changes no answer of read_block, neither the bytes nor
\* the offset of the next block, through whichever table a reader gets there.
THEOREM MetaCacheIsInvisible ==
    ASSUME IsMetaCache
    PROVE  Spec => ImplementsUncached
BY MetaKeyDeterminesDecode, CacheIsInvisible

-----------------------------------------------------------------------------
(* What the counters and the caching itself are worth.                     *)

\* The steps that leave the cache, the counters and the history alone but
\* for what a lookup counts: what they leave unchanged.
LEMMA OtherSteps ==
    ASSUME [Next]_vars
    PROVE  \/ UNCHANGED <<cacheVars, historyVars>>
           \/ \E t \in Thread : GetHit(t) \/ GetMiss(t) \/ Insert(t)
           \/ \E t \in Thread, e \in {Refused, IoError} : Fail(t, e)
           \/ \E c \in Capacities : SetCapacity(c)
BY DEF Next, Step, Ask, DecodeBlock, DecodeRefused, DeviceFails, vars

\* A cache switched off holds nothing and counts nothing, also when it was
\* switched off under a reader that had looked up or was about to insert.
THEOREM OffIsInert == Spec => []DisabledIsInert
<1>1. Init => DisabledIsInert
  BY DEF Init, DisabledIsInert
<1>2. DisabledIsInert /\ [Next]_vars => DisabledIsInert'
  <2> SUFFICES ASSUME DisabledIsInert, [Next]_vars PROVE DisabledIsInert'
    OBVIOUS
  <2> USE DEF DisabledIsInert, CacheOn
  <2>1. CASE UNCHANGED <<cacheVars, historyVars>>
    BY <2>1 DEF cacheVars
  <2>2. ASSUME NEW t \in Thread, GetHit(t) \/ GetMiss(t) \/ Insert(t)
        PROVE DisabledIsInert'
    BY <2>2 DEF GetHit, GetMiss, Insert
  <2>3. ASSUME NEW t \in Thread, NEW e \in {Refused, IoError}, Fail(t, e)
        PROVE DisabledIsInert'
    BY <2>3 DEF Fail, cacheVars
  <2>4. ASSUME NEW c \in Capacities, SetCapacity(c) PROVE DisabledIsInert'
    BY <2>4 DEF SetCapacity
  <2> QED
    BY <2>1, <2>2, <2>3, <2>4, OtherSteps
<1> QED
  BY <1>1, <1>2, PTL DEF Spec

\* Until something is evicted, all that any reader inserted since the last
\* resize is still held; so a reader that missed had not inserted the key.
LoadedIsHeld == ~evicted => \A t \in Thread : \A k \in loaded[t] : Holds(lru, k)

\* get and insert keep every key that insert does not evict.
LEMMA NextHeld == TypeInv /\ LoadedIsHeld /\ [Next]_vars => LoadedIsHeld'
<1> SUFFICES ASSUME TypeInv, LoadedIsHeld, [Next]_vars PROVE LoadedIsHeld'
  OBVIOUS
<1> DEFINE E == [key : Key, val : Block]
<1>0. lru \in Seq(E) /\ capacity \in Nat /\ Len(lru) <= capacity
  BY CapacityAssumption DEF TypeInv, TypeOK, BoundedEntries
<1>1. ASSUME UNCHANGED <<lru, loaded, evicted>> PROVE LoadedIsHeld'
  BY <1>1 DEF LoadedIsHeld, Holds, Positions
<1>2. ASSUME NEW t \in Thread, GetHit(t) PROVE LoadedIsHeld'
  <2>1. /\ Holds(lru, KeyOf(req[t]))
        /\ lru' = Touch(lru, KeyOf(req[t]))
        /\ loaded' = loaded /\ evicted' = evicted
    BY <1>2 DEF GetHit, historyVars
  <2>a. lru \in Seq(E) /\ Holds(lru, KeyOf(req[t]))
    BY <1>0, <2>1
  <2>2. /\ Len(Touch(lru, KeyOf(req[t]))) = Len(lru)
        /\ \A i \in 1..Len(lru) : \E j \in 1..Len(lru) :
              Touch(lru, KeyOf(req[t]))[j] = lru[i]
    BY <2>a, TouchReorders
  <2>3. ASSUME NEW k, Holds(lru, k) PROVE Holds(lru', k)
    BY <2>1, <2>2, <2>3 DEF Holds, Positions
  <2> QED
    BY <2>1, <2>3 DEF LoadedIsHeld
<1>3. ASSUME NEW t \in Thread, Insert(t), CacheOn PROVE LoadedIsHeld'
  <2> DEFINE k == KeyOf(req[t])
  <2>1. req[t] \in Request /\ block[t] \in Block /\ k \in Key
    BY <1>3, RequestTypes DEF Insert, TypeInv, InFlight
  <2>2. /\ capacity # 0
        /\ lru' = Put(lru, capacity, k, block[t])
        /\ loaded' = [loaded EXCEPT ![t] = @ \cup {k}]
        /\ evicted' = (evicted \/ Evicts(lru, capacity, k))
    BY <1>3 DEF Insert, CacheOn
  <2>3. Entry(k, block[t]) \in E /\ Entry(k, block[t]).key = k
    BY <2>1 DEF Entry
  <2>4. loaded \in [Thread -> SUBSET Key]
    BY DEF TypeInv, TypeOK
  <2> DEFINE q == Put(lru, capacity, k, block[t])
  <2> HIDE DEF k, E
  <2>a. lru \in Seq(E) /\ capacity \in Nat /\ capacity # 0 /\ Len(lru) <= capacity
    BY <1>0, <2>2
  <2>5. /\ Len(q) \in 1..(Len(lru) + 1)
        /\ q[1] = Entry(k, block[t])
        /\ ~Evicts(lru, capacity, k) => \A i \in 1..Len(lru) :
              \E j \in 1..Len(q) : q[j].key = lru[i].key
    BY <2>a, <2>3, PutHolds
  <2>q. lru' = q
    BY <2>2
  <2> HIDE DEF q
  <2>6. Holds(lru', k)
    <3>1. 1 \in 1..Len(lru') /\ lru'[1].key = k
      BY <1>0, <2>3, <2>5, <2>q
    <3> QED
      BY <3>1 DEF Holds, Positions
  <2>7. ASSUME ~evicted', NEW j, Holds(lru, j) PROVE Holds(lru', j)
    <3>1. ~Evicts(lru, capacity, k)
      BY <2>2, <2>7
    <3>2. PICK i \in 1..Len(lru) : lru[i].key = j
      BY <2>7 DEF Holds, Positions
    <3>3. PICK m \in 1..Len(q) : q[m].key = lru[i].key
      BY <2>5, <3>1
    <3> QED
      BY <2>q, <3>2, <3>3 DEF Holds, Positions
  <2>8. \A u \in Thread : \A j \in loaded'[u] : j = k \/ j \in loaded[u]
    BY <2>2, <2>4
  <2> QED
    BY <2>2, <2>6, <2>7, <2>8 DEF LoadedIsHeld
<1>4. ASSUME NEW t \in Thread, Insert(t), ~CacheOn PROVE UNCHANGED <<lru, loaded, evicted>>
  <2>1. loaded' = loaded
    BY <1>4 DEF Insert, TypeInv, TypeOK
  <2> QED
    BY <1>4, <2>1 DEF Insert, TypeInv, TypeOK
<1>5. ASSUME NEW c \in Capacities, SetCapacity(c) PROVE LoadedIsHeld'
  BY <1>5 DEF SetCapacity, LoadedIsHeld
<1>6. ASSUME NEW t \in Thread, GetMiss(t) PROVE UNCHANGED <<lru, loaded, evicted>>
  BY <1>6 DEF GetMiss
<1>7. ASSUME NEW t \in Thread, NEW e \in {Refused, IoError}, Fail(t, e)
      PROVE UNCHANGED <<lru, loaded, evicted>>
  BY <1>7 DEF Fail, cacheVars
<1>8. ASSUME UNCHANGED <<cacheVars, historyVars>> PROVE UNCHANGED <<lru, loaded, evicted>>
  BY <1>8 DEF cacheVars, historyVars
<1> QED
  BY <1>1, <1>2, <1>3, <1>4, <1>5, <1>6, <1>7, <1>8, OtherSteps

\* A reader whose lookup missed had inserted nothing under that key, and
\* nothing but its own insert or a resize changes that while it decodes.
LEMMA NextDecodesOnce ==
    TypeInv /\ LoadedIsHeld /\ NoReaderDecodesTwice /\ [Next]_vars => NoReaderDecodesTwice'
<1> SUFFICES ASSUME TypeInv, LoadedIsHeld, NoReaderDecodesTwice, [Next]_vars,
                    NEW u \in Thread,
                    pc'[u] = "decode", counted'[u], KeyOf(req'[u]) \in loaded'[u]
             PROVE  evicted'
  BY DEF NoReaderDecodesTwice
<1> USE DEF TypeInv, TypeOK
<1>1. ASSUME pc[u] = "decode", counted[u], req'[u] = req[u], loaded'[u] = loaded[u],
             evicted => evicted'
      PROVE  evicted'
  BY <1>1 DEF NoReaderDecodesTwice
<1>2. ASSUME NEW t \in Thread, NEW r \in Request, Ask(t, r) PROVE evicted'
  BY <1>1, <1>2 DEF Ask, historyVars
<1>3. ASSUME NEW t \in Thread, GetHit(t) PROVE evicted'
  BY <1>1, <1>3 DEF GetHit, historyVars
<1>4. ASSUME NEW t \in Thread, GetMiss(t) PROVE evicted'
  <2>1. CASE t = u
    <3>1. CacheOn /\ ~Holds(lru, KeyOf(req[u])) /\ KeyOf(req[u]) \in loaded[u]
      BY <1>4, <2>1 DEF GetMiss
    <3> QED
      BY <1>4, <3>1 DEF LoadedIsHeld, GetMiss
  <2>2. CASE t # u
    BY <1>1, <1>4, <2>2 DEF GetMiss
  <2> QED
    BY <2>1, <2>2
<1>5. ASSUME NEW t \in Thread, DecodeBlock(t) PROVE evicted'
  BY <1>1, <1>5 DEF DecodeBlock, historyVars
<1>6. ASSUME NEW t \in Thread, NEW e \in {Refused, IoError}, Fail(t, e) PROVE evicted'
  BY <1>1, <1>6 DEF Fail
<1>7. ASSUME NEW t \in Thread, Insert(t) PROVE evicted'
  <2>1. t # u
    BY <1>7 DEF Insert
  <2> QED
    BY <1>1, <1>7, <2>1 DEF Insert
<1>8. ASSUME NEW c \in Capacities, SetCapacity(c) PROVE evicted'
  BY <1>8 DEF SetCapacity
<1>9. CASE UNCHANGED vars
  BY <1>1, <1>9 DEF vars, readerVars, historyVars
<1> QED
  BY <1>2, <1>3, <1>4, <1>5, <1>6, <1>7, <1>8, <1>9
  DEF Next, Step, DecodeRefused, DeviceFails

\* A block is decoded at most once per racing reader: for any number of
\* readers and blocks, no reader decodes again what it has itself inserted,
\* unless something was evicted or the cache was resized since.
THEOREM DecodesOnce == Spec => []NoReaderDecodesTwice
<1>1. Init => LoadedIsHeld /\ NoReaderDecodesTwice
  BY DEF Init, LoadedIsHeld, NoReaderDecodesTwice
<1> QED
  BY <1>1, InitTypes, NextTypes, NextHeld, NextDecodesOnce, PTL DEF Spec

-----------------------------------------------------------------------------
(* The account of the entries.                                             *)

\* What a step does to the two sides of EntriesPaidFor, where there are m
\* misses in progress before it and n after it.
Pays(m, n) == Len(lru') + n + misses + strays <= Len(lru) + m + misses' + strays'

\* However many readers there are, those with a miss in progress can be
\* counted, and one more or one less of them changes the count by one.
LEMMA MissingCounted ==
    ASSUME NEW M \in SUBSET Thread, NEW t \in Thread
    PROVE  /\ Cardinality(M) \in Nat
           /\ t \notin M => Cardinality(M \cup {t}) = Cardinality(M) + 1
           /\ t \in M => Cardinality(M \ {t}) = Cardinality(M) - 1
<1>1. IsFiniteSet(M)
  BY ThreadAssumption, FS_Subset
<1> QED
  BY <1>1, FS_CardinalityType, FS_AddElement, FS_RemoveElement

\* A lookup that misses pays for the entry its reader will insert; an insert
\* spends what was paid, or is a stray; nothing else adds an entry.
LEMMA NextPays ==
    ASSUME TypeInv, [Next]_vars
    PROVE  \/ Pays(Cardinality(Missing), Cardinality(Missing'))
           \/ Len(lru') = 0 /\ Missing' = {}
<1> USE DEF TypeInv, TypeOK
<1>1. Missing \in SUBSET Thread
  BY DEF Missing
<1>2. Len(lru) \in Nat /\ misses \in Nat /\ strays \in Nat
  <2>1. lru \in Seq([key : Key, val : Block])
    OBVIOUS
  <2> QED
    BY <2>1
<1>3. ASSUME Missing' = Missing, UNCHANGED <<misses, strays>>, Len(lru') = Len(lru)
      PROVE  Pays(Cardinality(Missing), Cardinality(Missing'))
  <2>1. Cardinality(Missing) \in Nat
    <3>1. IsFiniteSet(Missing)
      BY <1>1, ThreadAssumption, FS_Subset
    <3> QED
      BY <3>1, FS_CardinalityType
  <2> QED
    BY <1>2, <1>3, <2>1 DEF Pays
<1>4. ASSUME NEW t \in Thread, NEW r \in Request, Ask(t, r)
      PROVE  Pays(Cardinality(Missing), Cardinality(Missing'))
  <2>1. Missing' = Missing
    BY <1>4 DEF Ask, Missing, historyVars
  <2> QED
    BY <1>3, <1>4, <2>1 DEF Ask, cacheVars, historyVars
<1>5. ASSUME NEW t \in Thread, GetHit(t)
      PROVE  Pays(Cardinality(Missing), Cardinality(Missing'))
  <2>1. Missing' = Missing
    BY <1>5 DEF GetHit, Missing, historyVars
  <2>2. Len(Touch(lru, KeyOf(req[t]))) = Len(lru)
    <3>1. lru \in Seq([key : Key, val : Block]) /\ Holds(lru, KeyOf(req[t]))
      BY <1>5 DEF GetHit
    <3> QED
      BY <3>1, TouchReorders
  <2> QED
    BY <1>3, <1>5, <2>1, <2>2 DEF GetHit, historyVars
<1>6. ASSUME NEW t \in Thread, GetMiss(t)
      PROVE  Pays(Cardinality(Missing), Cardinality(Missing'))
  <2>1. t \notin Missing /\ lru' = lru /\ strays' = strays
    BY <1>6 DEF GetMiss, Missing
  <2>2. CASE CacheOn
    <3>1. Missing' = Missing \cup {t} /\ misses' = misses + 1
      BY <1>6, <2>2 DEF GetMiss, Missing
    <3>2. Cardinality(Missing) \in Nat /\ Cardinality(Missing') = Cardinality(Missing) + 1
      BY <1>1, <2>1, <3>1, MissingCounted
    <3> QED
      BY <1>2, <2>1, <3>1, <3>2 DEF Pays
  <2>3. CASE ~CacheOn
    <3>1. Missing' = Missing /\ misses' = misses
      BY <1>6, <2>3 DEF GetMiss, Missing
    <3> QED
      BY <1>3, <2>1, <3>1
  <2> QED
    BY <2>2, <2>3
<1>7. ASSUME NEW t \in Thread, DecodeBlock(t)
      PROVE  Pays(Cardinality(Missing), Cardinality(Missing'))
  <2>1. Missing' = Missing
    BY <1>7 DEF DecodeBlock, Missing, historyVars
  <2> QED
    BY <1>3, <1>7, <2>1 DEF DecodeBlock, cacheVars, historyVars
<1>8. ASSUME NEW t \in Thread, Missing' = Missing \ {t},
             UNCHANGED misses, strays' \in Nat, Len(lru') \in Nat,
             Len(lru') + strays <= Len(lru) + strays' + (IF t \in Missing THEN 1 ELSE 0)
      PROVE  Pays(Cardinality(Missing), Cardinality(Missing'))
  <2>1. CASE t \in Missing
    <3>1. Cardinality(Missing) \in Nat /\ Cardinality(Missing') = Cardinality(Missing) - 1
      BY <1>1, <1>8, <2>1, MissingCounted
    <3> QED
      BY <1>2, <1>8, <2>1, <3>1, SMTT(30) DEF Pays
  <2>2. CASE t \notin Missing
    <3>1. Missing' = Missing
      BY <1>8, <2>2
    <3>2. Cardinality(Missing) \in Nat /\ Cardinality(Missing') = Cardinality(Missing)
      BY <1>1, <3>1, MissingCounted
    <3> QED
      BY <1>2, <1>8, <2>2, <3>2 DEF Pays
  <2> QED
    BY <2>1, <2>2
<1>9. ASSUME NEW t \in Thread, NEW e \in {Refused, IoError}, Fail(t, e)
      PROVE  Pays(Cardinality(Missing), Cardinality(Missing'))
  <2>1. Missing' = Missing \ {t}
    BY <1>9 DEF Fail, Missing
  <2>2. lru' = lru /\ strays' = strays /\ misses' = misses
    BY <1>9 DEF Fail, cacheVars
  <2>3. Len(lru') + strays <= Len(lru) + strays' + (IF t \in Missing THEN 1 ELSE 0)
    BY <1>2, <2>2
  <2> QED
    BY <1>2, <1>8, <2>1, <2>2, <2>3
<1>10. ASSUME NEW t \in Thread, Insert(t)
       PROVE  Pays(Cardinality(Missing), Cardinality(Missing'))
  <2> DEFINE k == KeyOf(req[t])
             E == [key : Key, val : Block]
             q == Put(lru, capacity, k, block[t])
  <2>1. Missing' = Missing \ {t} /\ (t \in Missing <=> counted[t]) /\ misses' = misses
    BY <1>10 DEF Insert, Missing
  <2>2. /\ lru' = IF CacheOn THEN q ELSE lru
        /\ strays' = IF CacheOn /\ ~counted[t] THEN strays + 1 ELSE strays
    BY <1>10 DEF Insert
  <2>3. req[t] \in Request /\ block[t] \in Block /\ k \in Key
    BY <1>10, RequestTypes DEF Insert, InFlight
  <2>4. Entry(k, block[t]) \in E
    BY <2>3 DEF Entry
  <2>5. lru \in Seq(E) /\ capacity \in Nat /\ Len(lru) <= capacity
    BY CapacityAssumption DEF BoundedEntries
  <2> HIDE DEF k, E, q
  <2>6. CacheOn => Len(q) \in 1..(Len(lru) + 1)
    <3> USE DEF q
    <3>1. ASSUME capacity # 0 PROVE Len(q) \in 1..(Len(lru) + 1)
      BY <2>4, <2>5, <3>1, PutHolds
    <3> QED
      BY <3>1 DEF CacheOn
  <2>7. /\ Len(lru') \in Nat /\ strays' \in Nat
        /\ Len(lru') + strays <= Len(lru) + strays' + (IF t \in Missing THEN 1 ELSE 0)
    <3>1. CASE CacheOn /\ t \in Missing
      <4>1. lru' = q /\ strays' = strays
        BY <2>1, <2>2, <3>1
      <4>2. Len(q) \in Nat /\ Len(q) <= Len(lru) + 1
        BY <1>2, <2>6, <3>1
      <4> QED
        BY <1>2, <3>1, <4>1, <4>2
    <3>2. CASE CacheOn /\ t \notin Missing
      <4>1. lru' = q /\ strays' = strays + 1
        BY <2>1, <2>2, <3>2
      <4>2. Len(q) \in Nat /\ Len(q) <= Len(lru) + 1
        BY <1>2, <2>6, <3>2
      <4> QED
        BY <1>2, <3>2, <4>1, <4>2
    <3>3. CASE ~CacheOn
      BY <1>2, <2>2, <3>3
    <3> QED
      BY <3>1, <3>2, <3>3
  <2> QED
    BY <1>8, <2>1, <2>7
<1>11. ASSUME NEW c \in Capacities, SetCapacity(c) PROVE Len(lru') = 0 /\ Missing' = {}
  <2>1. lru' = Empty /\ \A t \in Thread : ~counted'[t]
    BY <1>11 DEF SetCapacity
  <2> QED
    BY <2>1, EmptyIsASequence DEF Missing
<1>12. CASE UNCHANGED vars
  <2>1. Missing' = Missing
    BY <1>12 DEF vars, readerVars, historyVars, Missing
  <2> QED
    BY <1>3, <1>12, <2>1 DEF vars, cacheVars, historyVars
<1> QED
  BY <1>4, <1>5, <1>6, <1>7, <1>9, <1>10, <1>11, <1>12
  DEF Next, Step, DecodeRefused, DeviceFails

\* Every entry the cache holds was paid for by a miss that the counters
\* still show, or inserted by a reader that looked up before the last resize.
THEOREM EveryEntryPaidFor == Spec => []EntriesPaidFor
<1>1. Init => EntriesPaidFor
  <2> SUFFICES ASSUME Init PROVE EntriesPaidFor
    OBVIOUS
  <2>1. Missing = {} /\ Len(lru) = 0 /\ misses = 0 /\ strays = 0
    BY EmptyIsASequence DEF Init, Missing
  <2> QED
    BY <2>1, FS_EmptySet DEF EntriesPaidFor
<1>2. TypeInv /\ TypeInv' /\ EntriesPaidFor /\ [Next]_vars => EntriesPaidFor'
  <2> SUFFICES ASSUME TypeInv, TypeInv', EntriesPaidFor, [Next]_vars PROVE EntriesPaidFor'
    OBVIOUS
  <2>1. /\ Len(lru) \in Nat /\ misses \in Nat /\ strays \in Nat
        /\ Len(lru') \in Nat /\ misses' \in Nat /\ strays' \in Nat
    <3>1. lru \in Seq([key : Key, val : Block]) /\ misses \in Nat /\ strays \in Nat
      BY DEF TypeInv, TypeOK
    <3>2. (lru \in Seq([key : Key, val : Block]) /\ misses \in Nat /\ strays \in Nat)'
      BY DEF TypeInv, TypeOK
    <3>3. ASSUME NEW E, NEW l \in Seq(E) PROVE Len(l) \in Nat
      OBVIOUS
    <3>4. Len(lru') \in Nat
      BY <3>2 DEF Key, Block
    <3> QED
      BY <3>1, <3>2, <3>3, <3>4
  <2>2. Cardinality(Missing) \in Nat /\ Cardinality(Missing') \in Nat
    <3>1. IsFiniteSet(Missing) /\ IsFiniteSet(Missing')
      <4>1. Missing \in SUBSET Thread /\ Missing' \in SUBSET Thread
        BY DEF Missing
      <4> QED
        BY <4>1, ThreadAssumption, FS_Subset
    <3> QED
      BY <3>1, FS_CardinalityType
  <2>3. CASE Pays(Cardinality(Missing), Cardinality(Missing'))
    BY <2>1, <2>2, <2>3, SMTT(30) DEF Pays, EntriesPaidFor
  <2>4. CASE Len(lru') = 0 /\ Missing' = {}
    BY <2>1, <2>4, FS_EmptySet DEF EntriesPaidFor
  <2> QED
    BY <2>3, <2>4, NextPays
<1> QED
  BY <1>1, <1>2, InitTypes, NextTypes, PTL DEF Spec

=============================================================================
