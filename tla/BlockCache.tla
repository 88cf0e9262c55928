----------------------------- MODULE BlockCache -----------------------------
(***************************************************************************)
(* A mount's cache of decoded blocks, shared by the threads that read      *)
(* through it: DataCache with read_data_block in fs.rs, and MetaCache with *)
(* read_block in metablock.rs, which are the same protocol over different  *)
(* keys.  The lookup and the insert each hold the cache's mutex; the       *)
(* decode between them holds nothing, so two readers may miss the same     *)
(* block, and the cache may be resized while a reader is decoding.         *)
(***************************************************************************)
EXTENDS Naturals, Sequences, FiniteSets, Lru

CONSTANTS
    Thread,           \* threads reading through one mount
    Request,          \* block requests: what a reader passes to the read
    KeyOf(_),         \* the cache key of a request
    Decode(_),        \* what decoding a request yields: a block, or Refused
    Refused,          \* the decoder's refusal of a malformed block
    IoError,          \* the device's failure, which a retry may not meet
    None,             \* no request, no block, no answer
    Capacities,       \* capacities the cache is ever given; 0 disables it
    InitialCapacity,  \* capacity at mount
    MaxReads,         \* bound: reads made in a behaviour
    MaxResizes        \* bound: set_capacity calls in a behaviour

\* A process has finitely many threads.
ASSUME ThreadAssumption == IsFiniteSet(Thread)

\* Capacities are block counts, 0 included; a mount starts with one of them.
ASSUME CapacityAssumption ==
    /\ Capacities \subseteq Nat
    /\ InitialCapacity \in Capacities
    /\ MaxReads \in Nat
    /\ MaxResizes \in Nat

\* A refusal, a device failure, no answer yet and a decoded block differ.
ASSUME AnswerAssumption ==
    /\ Refused # None
    /\ IoError # None
    /\ IoError # Refused
    /\ None \notin Request
    /\ \A r \in Request : Decode(r) # None /\ Decode(r) # IoError

\* What makes a key good enough: requests that share it decode alike.
KeyDeterminesDecode ==
    \A r, s \in Request : KeyOf(r) = KeyOf(s) => Decode(r) = Decode(s)

VARIABLES
    lru,        \* the entries held; empty when the capacity is 0
    capacity,   \* 0 stands for `lru: None`, caching switched off
    hits,
    misses,
    pc,         \* pc[t]: where t is in a read
    req,        \* req[t]: the request t reads, or last read
    block,      \* block[t]: what t has decoded and not yet inserted
    answer,     \* answer[t]: what the last read of t returned
    reads,      \* reads made so far
    resizes,    \* set_capacity calls made so far
    counted,    \* history: t's lookup missed, and the miss is in `misses`
    strays,     \* history: inserts of a lookup made before the last resize
    loaded,     \* history: keys t has inserted since the last resize
    evicted     \* history: an entry was evicted since the last resize

cacheVars == <<lru, capacity, hits, misses>>
readerVars == <<pc, req, block, answer, reads>>
historyVars == <<counted, strays, loaded, evicted>>
vars == <<cacheVars, readerVars, resizes, historyVars>>

Key == {KeyOf(r) : r \in Request}
Block == {Decode(r) : r \in Request} \ {Refused}

CacheOn == capacity # 0

\* DataCache::new / MetaCache::new at mount, and no read under way.
Init ==
    /\ lru = Empty
    /\ capacity = InitialCapacity
    /\ hits = 0
    /\ misses = 0
    /\ pc = [t \in Thread |-> "idle"]
    /\ req = [t \in Thread |-> None]
    /\ block = [t \in Thread |-> None]
    /\ answer = [t \in Thread |-> None]
    /\ reads = 0
    /\ resizes = 0
    /\ counted = [t \in Thread |-> FALSE]
    /\ strays = 0
    /\ loaded = [t \in Thread |-> {}]
    /\ evicted = FALSE

\* A thread calls read_data_block / read_block.
Ask(t, r) ==
    /\ pc[t] = "idle"
    /\ reads < MaxReads
    /\ pc' = [pc EXCEPT ![t] = "get"]
    /\ req' = [req EXCEPT ![t] = r]
    /\ answer' = [answer EXCEPT ![t] = None]
    /\ reads' = reads + 1
    /\ UNCHANGED <<cacheVars, block, resizes, historyVars>>

\* get, under the lock: a hit is returned, counted, and becomes the most
\* recently used entry.
GetHit(t) ==
    /\ pc[t] = "get"
    /\ CacheOn
    /\ Holds(lru, KeyOf(req[t]))
    /\ lru' = Touch(lru, KeyOf(req[t]))
    /\ hits' = hits + 1
    /\ answer' = [answer EXCEPT ![t] = Value(lru, KeyOf(req[t]))]
    /\ pc' = [pc EXCEPT ![t] = "idle"]
    /\ UNCHANGED <<capacity, misses, req, block, reads, resizes, historyVars>>

\* Mutant: a miss that forgets to count itself.
GetMissUncounted(t) ==
    /\ pc[t] = "get"
    /\ CacheOn => ~Holds(lru, KeyOf(req[t]))
    /\ counted' = [counted EXCEPT ![t] = CacheOn]
    /\ pc' = [pc EXCEPT ![t] = "decode"]
    /\ UNCHANGED <<cacheVars, req, block, answer, reads, resizes,
                   strays, loaded, evicted>>

\* get, under the lock: a miss is counted only while the cache is on.
GetMiss(t) ==
    /\ pc[t] = "get"
    /\ CacheOn => ~Holds(lru, KeyOf(req[t]))
    /\ misses' = IF CacheOn THEN misses + 1 ELSE misses
    /\ counted' = [counted EXCEPT ![t] = CacheOn]
    /\ pc' = [pc EXCEPT ![t] = "decode"]
    /\ UNCHANGED <<lru, capacity, hits, req, block, answer, reads, resizes,
                   strays, loaded, evicted>>

\* Mutant: the decoder's refusal is taken for a block.
DecodeBlockUnchecked(t) ==
    /\ pc[t] = "decode"
    /\ block' = [block EXCEPT ![t] = Decode(req[t])]
    /\ pc' = [pc EXCEPT ![t] = "insert"]
    /\ UNCHANGED <<cacheVars, req, answer, reads, resizes, historyVars>>

\* The device read and the codec succeed, with no lock held.
DecodeBlock(t) ==
    /\ pc[t] = "decode"
    /\ Decode(req[t]) # Refused
    /\ block' = [block EXCEPT ![t] = Decode(req[t])]
    /\ pc' = [pc EXCEPT ![t] = "insert"]
    /\ UNCHANGED <<cacheVars, req, answer, reads, resizes, historyVars>>

\* The `?` after the decode: the read ends and nothing is cached.
Fail(t, error) ==
    /\ pc[t] = "decode"
    /\ answer' = [answer EXCEPT ![t] = error]
    /\ pc' = [pc EXCEPT ![t] = "idle"]
    /\ counted' = [counted EXCEPT ![t] = FALSE]
    /\ UNCHANGED <<cacheVars, req, block, reads, resizes, strays, loaded, evicted>>

\* The block is malformed, whoever decodes it.
DecodeRefused(t) == Fail(t, Refused) /\ Decode(req[t]) = Refused

\* The device fails this read; the next one may succeed.
DeviceFails(t) == Fail(t, IoError)

\* Mutant: the decoded block is returned and not kept.
InsertDropped(t) ==
    /\ pc[t] = "insert"
    /\ answer' = [answer EXCEPT ![t] = block[t]]
    /\ block' = [block EXCEPT ![t] = None]
    /\ pc' = [pc EXCEPT ![t] = "idle"]
    /\ counted' = [counted EXCEPT ![t] = FALSE]
    /\ loaded' = [loaded EXCEPT ![t] = @ \cup {KeyOf(req[t])}]
    /\ UNCHANGED <<cacheVars, req, reads, resizes, strays, evicted>>

\* insert, under the lock, into whatever cache there is by now.
Insert(t) ==
    LET key == KeyOf(req[t]) IN
    /\ pc[t] = "insert"
    /\ lru' = IF CacheOn THEN Put(lru, capacity, key, block[t]) ELSE lru
    /\ answer' = [answer EXCEPT ![t] = block[t]]
    /\ block' = [block EXCEPT ![t] = None]
    /\ pc' = [pc EXCEPT ![t] = "idle"]
    /\ counted' = [counted EXCEPT ![t] = FALSE]
    /\ strays' = IF CacheOn /\ ~counted[t] THEN strays + 1 ELSE strays
    /\ loaded' = [loaded EXCEPT ![t] = IF CacheOn THEN @ \cup {key} ELSE @]
    /\ evicted' = (evicted \/ (CacheOn /\ Evicts(lru, capacity, key)))
    /\ UNCHANGED <<capacity, hits, misses, req, reads, resizes>>

\* Mutant: the new capacity is noted and the old entries are kept.
SetCapacityKeepsEntries(c) ==
    /\ resizes < MaxResizes
    /\ capacity' = c
    /\ hits' = 0
    /\ misses' = 0
    /\ resizes' = resizes + 1
    /\ UNCHANGED <<lru, readerVars, historyVars>>

\* Mutant: the counters are not restarted.
SetCapacityKeepsCounters(c) ==
    /\ resizes < MaxResizes
    /\ lru' = Empty
    /\ capacity' = c
    /\ resizes' = resizes + 1
    /\ UNCHANGED <<hits, misses, readerVars, historyVars>>

\* set_capacity, under the lock: a new cache, and the counters restarted.
\* A reader between its lookup and its insert is not told.
SetCapacity(c) ==
    /\ resizes < MaxResizes
    /\ lru' = Empty
    /\ capacity' = c
    /\ hits' = 0
    /\ misses' = 0
    /\ resizes' = resizes + 1
    /\ counted' = [t \in Thread |-> FALSE]
    /\ strays' = 0
    /\ loaded' = [t \in Thread |-> {}]
    /\ evicted' = FALSE
    /\ UNCHANGED readerVars

\* The next step of a read in progress.
Step(t) ==
    \/ GetHit(t)
    \/ GetMiss(t)
    \/ DecodeBlock(t)
    \/ DecodeRefused(t)
    \/ DeviceFails(t)
    \/ Insert(t)

Next ==
    \/ \E t \in Thread, r \in Request : Ask(t, r)
    \/ \E t \in Thread : Step(t)
    \/ \E c \in Capacities : SetCapacity(c)

Spec == Init /\ [][Next]_vars

-----------------------------------------------------------------------------

\* Every variable keeps its type; the counters stay within the bounds.
TypeOK ==
    /\ lru \in Seq([key : Key, val : Block])
    /\ capacity \in Capacities
    /\ hits \in Nat
    /\ misses \in Nat
    /\ pc \in [Thread -> {"idle", "get", "decode", "insert"}]
    /\ req \in [Thread -> Request \cup {None}]
    /\ block \in [Thread -> Block \cup {None}]
    /\ answer \in [Thread -> Block \cup {Refused, IoError, None}]
    /\ reads \in 0..MaxReads
    /\ resizes \in 0..MaxResizes
    /\ counted \in [Thread -> BOOLEAN]
    /\ strays \in Nat
    /\ loaded \in [Thread -> SUBSET Key]
    /\ evicted \in BOOLEAN

\* DataCache's key is "the whole request": what is held under a key is what
\* every request with that key would decode to, whichever racing insert put
\* it there, so no reader is handed another request's bytes.
CoherentEntries ==
    \A i \in 1..Len(lru) : \A r \in Request :
        KeyOf(r) = lru[i].key => lru[i].val = Decode(r)

\* "A cache holding at most `capacity` decompressed blocks", one per key,
\* also after racing inserts of one key and after a resize under a reader.
BoundedEntries ==
    /\ Len(lru) <= capacity
    /\ \A i, j \in 1..Len(lru) : lru[i].key = lru[j].key => i = j

\* "A cache switched off (capacity zero) counts nothing", and a reader that
\* looked up before the switch does not leave anything in it.
DisabledIsInert == capacity = 0 => lru = Empty /\ hits = 0 /\ misses = 0

Missing == {t \in Thread : pc[t] \in {"decode", "insert"} /\ counted[t]}

\* Every entry was paid for by a miss the counters show, except those of
\* readers that looked up before the last resize; misses still in progress
\* have not paid for anything yet.
EntriesPaidFor == Len(lru) + Cardinality(Missing) <= misses + strays

\* "Once per block for readers taking turns, not for readers racing": since
\* the last resize, and until something is evicted, no reader decodes a
\* block a second time, so a block is decoded at most once per racing reader.
NoReaderDecodesTwice ==
    \A t \in Thread :
        pc[t] = "decode" /\ counted[t] /\ KeyOf(req[t]) \in loaded[t] => evicted

Uncached == INSTANCE UncachedRead WITH asked <- req

\* The cache is invisible: reads through it are reads without it.
ImplementsUncached == Uncached!Spec

=============================================================================
