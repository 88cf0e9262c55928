-------------------------------- MODULE Lru --------------------------------
(***************************************************************************)
(* The `lru` crate's LruCache, as far as this driver uses it: a bounded    *)
(* map that evicts the entry used least recently.  It is a sequence of     *)
(* [key, val] records, the most recently used first.  The crate is not     *)
(* part of this repository; the operators are modelled from the calls in   *)
(* fs.rs and metablock.rs (get, put, len, new).                            *)
(***************************************************************************)
EXTENDS Naturals, Sequences

\* LruCache::new: a cache that holds nothing.
Empty == << >>

Entry(key, val) == [key |-> key, val |-> val]

Positions(lru, key) == {i \in 1..Len(lru) : lru[i].key = key}

Holds(lru, key) == Positions(lru, key) # {}

Position(lru, key) == CHOOSE i \in 1..Len(lru) : lru[i].key = key

\* The entries with the one at position p moved to the front, the ones that
\* were ahead of it pushed back by one.
MoveToFront(lru, p) ==
    [j \in 1..Len(lru) |->
        IF j = 1 THEN lru[p] ELSE IF j <= p THEN lru[j - 1] ELSE lru[j]]

\* LruCache::get on a key that is held: what it returns, and the cache after
\* it, in which the entry is the most recently used.
Value(lru, key) == lru[Position(lru, key)].val

Touch(lru, key) == MoveToFront(lru, Position(lru, key))

\* LruCache::put evicts only when it adds a key to a full cache.
Evicts(lru, capacity, key) == ~Holds(lru, key) /\ Len(lru) = capacity

\* LruCache::put: the entry, new or replaced, is the most recently used.
Put(lru, capacity, key, val) ==
    IF Holds(lru, key)
    THEN [Touch(lru, key) EXCEPT ![1] = Entry(key, val)]
    ELSE [j \in 1..(IF Len(lru) = capacity THEN Len(lru) ELSE Len(lru) + 1) |->
             IF j = 1 THEN Entry(key, val) ELSE lru[j - 1]]

=============================================================================
