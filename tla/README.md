# TLA+ models of rust-fs-squashfs

rust-fs-squashfs is a read-only SquashFS 4.0 driver: a Rust library, a C ABI on
top of it, and the `squashfs` command line. This directory models its control
and its concurrency in TLA+, checks the models with TLC on small instances, and
proves with TLAPS, for every value of the constants, what matters most of the
block caches, the metadata cursor, opening an image, reading a file, the bound on
what a decode holds, directory listings and path lookup, the C ABI, `fs read` and
`fs ls --recursive`.

    tlc -config MCDataCache.cfg MCDataCache      # one of the runs below
    tlapm BlockCacheProofs.tla                   # the proofs of one part

`PROJECT.json` lists components, runs, theorems, hazards and, under `map`, the
source lines each definition stands for.

## 1. The system

The source is `src/src/`. An image is opened once; afterwards nothing in it
changes. What does change is the caches, the error slots and the last-read path
of a mount, and, in the CLI, the files it writes.

| component | state it keeps | operations | called by |
|---|---|---|---|
| decoded-block caches (`fs.rs` `DataCache`, `metablock.rs` `MetaCache`) | an LRU map behind a mutex, hit and miss counters | lookup, decode, insert, `set_capacity` | every read of a block |
| data block decode (`fs.rs`, `table.rs`, `decompress.rs`) | none | `decode_data_block`, size word, output cap | the data cache on a miss |
| metadata blocks and cursor (`metablock.rs`) | a window of decoded bytes, the read position, the next block, an optional limit | `new`, `with_limit`, `refill`, `ensure`, `read_exact` | inode, directory and xattr parsing |
| superblock (`superblock.rs`) | the parsed fields | `parse`, `validate_against_device` | open |
| tables (`table.rs`, `xattr.rs`) | id, fragment, xattr-id tables in full, the export table's pointers | `read`, `lookup` | open; stat; `read_inode_by_number` |
| open (`fs.rs` `open_with_cache`) | the mount: superblock, tables, `dir_table_end` | one open, many lookups | library callers, C ABI, CLI |
| file reads (`fs.rs`) | none between calls, the caller's buffer within one | `read_file`, `block_offsets`, `read_logical_block` | C ABI, CLI |
| C ABI (`capi.rs`, `error.rs`) | a mount handle with `last_read_path` behind a mutex, a per-thread error slot, directory iterators | 18 entry points, each behind a panic guard | foreign threads |
| CLI `fs read` (`cli/squashfs/fs.rs`) | FILE, FILE.partial, standard output | copy loop, rename, clean-up | a user's shell, any number of processes |
| CLI `fs ls --recursive` | a stack of iterators, the visited set, the report | one walk | a user's shell |
| inode parsing (`inode.rs`), directory listing (`dir.rs`), path lookup (`fs.rs`), xattr sets (`xattr.rs`) | none | pure readers over the cursor | all of the above |
| CLI `fs stat`, `ls`, `xattr`, `export` | `TreeExport::last`, the path and inode of the last chunk read | one question, or the calls of a tree traversal | a user's shell, the transfer engine of `fs_core` |
| codecs and XZ filters (`decompress.rs`, `xz.rs`) | the output so far, the container's records, the converter's mask | `decompress_xz`, `decompress_with`, six converters | block decodes |

How they interact: the CLI and the C ABI call `Filesystem`; `Filesystem` reads
metadata through `MetaCursor`, which pulls blocks through `MetaCache`, and reads
file data through `DataCache`; both caches read the device through the same
`BlockRead` trait object, possibly wrapped in `fs_core::CachingDevice`. All of
`Filesystem` takes `&self`, so threads share a mount freely and meet only at the
two cache mutexes and, above the C ABI, at the `last_read_path` mutex.

What is hard here, and hard to test:

- the decode between a cache's lookup and its insert holds no lock, so inserts
  race with each other and with a resize;
- a cache key that is too narrow gives right answers until two requests collide;
- a device may fail at any read, one step of several, and some of those failures
  are deliberately swallowed (`directory_table_end`);
- arithmetic at block boundaries: records straddling metadata blocks, the last
  block of a file, an offset sum near 2^64, inode numbers that count from one;
- images are untrusted: cycles of directories, tables whose blocks are short,
  listings that declare more than they hold;
- a name that a listing hands out must be one a lookup takes back; records and
  names straddle metadata blocks; an attribute set is only right if it adds up;
- an xz stream's sizes are told four times (header, payload, index, footer) and
  must agree; its converters change bytes in place, depending on what they
  changed before, in a loop that has no count;
- panics cross the C ABI, poison a mutex, and must not leak into other threads;
- `fs read -o` is killed, or fails, between two system calls, or runs twice.

`PROJECT.json` "hazards" puts each at its line, with the properties that cover
it.

## 2. The modules

Data is abstracted to what a property can tell apart. A block's bytes are named
by where and how they were decoded (`<<offset, index>>`, or a record with a
length), so that a wrong byte is a different value, and no codec is modelled: what
a codec makes of stored bytes is a constant of the model. Two parts are about the
values themselves and keep them: metadata records, whose fields are one cell each
whatever their width, and xz streams, which are real bytes.

| module | models | state and actions |
|---|---|---|
| `Lru` | the `lru` crate (external), from its use | `Touch` is `get`, `Put` is `put`; the head is the most recently used |
| `UncachedRead` | what a cache promises: no cache at all | `Ask`, `Return` |
| `BlockCache` | `DataCache` + `read_data_block`, `MetaCache` + `read_block` | `Ask`, `GetHit`, `GetMiss` (one lock), `DecodeBlock`/`DecodeRefused`/`DeviceFails` (no lock), `Insert` (one lock), `SetCapacity` (one lock) |
| `DataBlock` | size word, decode and key of a data block | operators |
| `MetaBlock` | header, decode, next offset and key of a metadata block | operators |
| `MetaCursor` | the cursor | `New`, `ReadExact`, `Refill`, `RefillPastLimit`, `RefillFails`, `DeviceFails`, `Take`; one `Refill` per turn of `ensure` |
| `ReadFile` | `read_file` and what it calls | one action per early return, `Copy` per turn of the loop |
| `Superblock` | the checks of `superblock.rs` | operators over a record of fields |
| `OpenImage` | `open_with_cache`, the four tables, `directory_table_end`, lookups by number | one action per table read, `ProbeTable`/`ProbeFails` per later table, `LookupNumber` |
| `Capi` | the C ABI of one mount | `Enter` clears the slot; `Acquire`, `ResolveHit`/`Miss`/`Fails`/`Panics` are the lookup under the mutex; `LookupPath` the lookup of every other entry point; `Body...` the rest; `DirNext`, `DirClose` |
| `Publish` | `fs read` and `fs xattr PATH NAME`, to standard output or `-o FILE` | `ToStdout`, `ToFile`, `RefuseCreate`, `CopyChunk`, `CopyFails`, `Rename`, `RenameFails`, `Kill` |
| `ListRecursive` | `ls --recursive` | one action per arm of the loop |
| `MetaStream` | what a cursor delivers, as `MetaCursor` shows it: the cells from a reference on | operators |
| `InodeRead` | `Inode::read` | operators: the layouts as lists of field names, and one parser over them |
| `DirListing` | `parse_listing` | `ParseHeader`, `ParseEntry`, `RefuseHeader`, `RefuseEntry`, `ParseDone` |
| `XattrSet` | `read_set`, `read_ool_value` | `ReadPair`, `RefusePair`, `EndOfSet` |
| `Query` | what is asked of an opened image by name: `lookup_path_bytes`, `read_dir`, `lookup`, `list_xattrs`, `get_xattr`; `ls`, `stat`, `xattr` of the CLI; `dir_open`; `TreeExport` with `last` | `Ask`, then a step per inode, listing, component or child read; `AskListed` hands a listed name back; `ReadRemembered` is a hit of `last` |
| `Bcj` | the six converters of `xz.rs` | `X86Scan`, `X86Turn` (one turn of the inner loop), `X86Store`, `ThumbScan`; `ConvertUnits` for the four that take each unit by itself |
| `XzStream` | `decompress_xz`, `decompress_with`, `check_index_and_footer`, `Capped`, `varint` | one action per stage: header, block header, filter, chunk, converter step, check, index record, footer; `Refuse` wherever a stage finds otherwise |
| `BlockCacheProofs`, `MetaCursorProofs`, `OpenImageProofs`, `QueryProofs`, `CapiProofs` | theorems about the module each is named after | |
| `DecodeProofs` | theorems about `ReadFile` and `XzStream`, the two users of the data decode | |
| `CliProofs` | theorems about `Publish` and `ListRecursive` | |
| `SequenceLemmas` | what the proofs need of numbers, of sequences and of recursive functions | |

Each `MC...` module gives the constants of one of these. Definitions whose
comment begins "Mutant:" are wrong on purpose: none is used by a specification,
and each is the bug one of the properties would catch.

Composition. `MCDataCache` and `MCMetaCache` are `BlockCache` over the requests
of `DataBlock` and of `MetaBlock`. `MetaCursor`, `OpenImage` and `ReadFile` read
blocks without a cache: that neither cache changes an answer is
`DataCacheIsInvisible` and `MetaCacheIsInvisible`, which are proved, so what
holds of them uncached holds cached. `OpenImage` takes
its checks from `Superblock` and its blocks from `MetaBlock`. `Query` composes
`InodeRead`, `DirListing` and `XattrSet` over `MetaStream`, which stands for the
cursor on the strength of `DeliversStream` and `RefillsWithinLimit`, the first
block without a limit included; what `Query` shows is what `Capi` and
`ListRecursive` take as constants (`Lookup`, `listing`). `XzStream` extends `Bcj`
and runs the converter between a block's payload and its check.

### Where a step begins and ends

A step is what the code does under one lock, or one device read with what
follows from it. In `BlockCache` the lock is released between lookup and insert,
so these are separate steps; in `Capi` the `last_read_path` mutex is held across
the whole lookup, so a holder is a state. `Publish` has one step per system call
that another process could see. The single-threaded parts (cursor, open, file
read, walk) take a step per turn of their loop, because a failure may come at
each. `DirListing` and `XattrSet` step per entry and per pair; a whole inode is
one step, its layout being a function of the cells.

### History variables

`BlockCache` carries `counted`, `strays`, `loaded`, `evicted`, `MetaCursor`
`pulled`, `delivered` and `cause`, `ReadFile` `copied`, `Capi` `faulted`,
`Publish` `published` and `abandoned`, `ListRecursive` `listed`, `DirListing`
`headers`, `Query` `handed`. They
record what has happened for the properties; no guard of the modelled code reads
them.

## 3. The runs

Every passing run's `CHECK_DEADLOCK FALSE` is there because the named bounds
(`MaxReads`, `MaxCalls`, `MaxRuns`, `MaxOpens`, ...) or a finished program stop
the behaviour; nothing is said of deadlock by it. That waiting ends is stated
as liveness instead.

| run | question | bounds and why they are enough |
|---|---|---|
| `data_cache` | Is the data cache bounded, coherent, honest in its counters, and invisible? | Two threads race; four requests that meet at one offset under different size words and output bounds; capacities 0, 1, 2, so it is disabled, always evicting, and roomy; two resizes, so a reader can span one and another follow; four reads. |
| `meta_cache` | Does the metadata key, the absolute offset alone, suffice across tables? | Six references into two tables: two names of one block, the same relative offset in both, a damaged block, none. |
| `meta_cursor` | Is a cursor a flat reader that stops exactly at its limit? | Every image of up to three blocks from five headers (two lengths, stored verbatim, empty, refused, longer than allowed); reads of 1, 2 and 4 bytes over blocks of at most 3, so one read needs up to two refills; limits on, before and after a block's start. |
| `read_file` | Does reading in chunks give the file? | Blocks of 4; sizes 0 to 9 with and without tails; six size words; buffers of 0, 3, 5 from offsets inside, at and past blocks; `MaxU64 = 31` so that the offset sum can leave its width. |
| `open_image` | What does an open that succeeds guarantee, and does it accept what is intact? | Two intact layouts (all tables, no optional table with padding behind), 22 damaged superblocks on both sides of each check, every pointer and some blocks damaged, every device read failing, two opens, two lookups; a table whose first block is short and whose second makes up for it; a count of attribute sets with something in the unused `u32` after it (`U32 = 4096` stands for 2^32). Metadata blocks of 32 bytes hold whole entries, and two tables span two blocks. |
| `capi` | Does a thread read its own file and its own errno, and does every call return? | Two threads, a directory, a file that reads, one that does not, a damaged link, and a name that is missing; four calls, enough for one thread to mount, read and fail or panic and for the other to be waiting for the mutex. |
| `publish` | Is FILE always the last file published? | One process at a time, four runs of either command, sources of three, one and no chunks, kills and failures everywhere. |
| `list_recursive` | Is the walk finite, complete, ordered, bounded? | Every graph of a root and one directory of up to two entries and a third of up to one, over these and a file; names stored out of order, and two entries under one name; two directories sharing a number; limits 0, 2 and out of reach; depths 1 and out of reach. |
| `queries` | Do names lead to their inodes, listings to their children, ids to their attributes? | Two trees with, between them, one inode of each of the fourteen types, directories in both forms, files with and without a tail, and a value shared between attribute sets. They are laid out by an independent writer into blocks of 23 cells, shorter than most records in sequence, so that headers, entries, names, block lists and pairs all straddle. Then 10 lies in the attribute ids (count or size off by one, absurd count), the id table cut or missing, each block lost, and each cell of the first image replaced by four other values. Runs are cut at three entries (`MaxEntries`), so that listings have several headers; owner indices 0 and 1. Seven paths, one file under two spellings. |
| `xz` | Is a stream accepted exactly when it is one that was written? | Streams by an independent writer whose x86 encoder is the liblzma one: each of the six converters, start offsets, one and two blocks, blocks with and without sizes, each check. Every byte changed to each of `ByteValues`, every cut, every padding of one to four zeros. For x86 an opcode and every `X86Length` = 6 bytes after it over four values that matter to the mask (an opcode, both sign bytes, another), and three calls that overlap with a fourth behind them. `VarintBytes` 3 for 9: sizes here need two. The output bound is half, one less than, and all of what is needed. |

The properties, by the question they answer:

- **Caches.** `CoherentEntries`: what is under a key is what every request with
  that key decodes to. `BoundedEntries`: at most `capacity` entries, one per key.
  `DisabledIsInert`: a switched-off cache holds and counts nothing, late inserts
  included. `EntriesPaidFor`: the entries, with the misses in progress, never
  exceed the counted misses and the strays of a resize. `NoReaderDecodesTwice`:
  until something is evicted, no reader decodes a block again.
  `ImplementsUncached`: the cache refines `UncachedRead`.
- **Cursor.** `DeliversStream`, `RefillsWithinLimit`, and
  `RefusesOnlyWhatIsMissing`: the limit never costs a reader a byte that lies
  before it. `ReadsEnd`: an empty block does not make `ensure` spin.
- **File reads.** `CopiesTheFile` compares every byte with an independent
  definition of the file's bytes whose offset sum has no width;
  `ShortOnlyAtEnd`; `ReadsIntactFiles`; `GeometryHolds`: the two last-resort
  errors of the loop are unreachable from an inode that parsed.
- **Open.** `MountWithinImage`, `DirectoryBounded` (the swallowed failures of
  `directory_table_end` never cut off a directory; the start of the directory
  table itself may be anywhere where it has no block, as in an image whose
  directories are all empty), `OpensIntact`,
  `EntriesIndexed` (a table that opened is whole: its entries are cut from the bytes
  of its blocks without a gap, whatever these decode to, and where they are full each
  is the one stored under its index), `LookupNeverWrong`.
- **C ABI.** `ReadsItsOwnFile`, `ErrnoTellsFailure`, `FailsOnlyForCause` (a
  poisoned mutex hurts nobody), `CallsReturn`.
- **CLI.** `DestIsLastPublished`, `FailedCopyCleansUp`; `ListedOnce`,
  `InPathOrder` (of images that do not name two entries of a directory alike,
  which nothing else rules out: those the walk reports in stored order),
  `WalkComplete`, `WalkEnds`.
- **Queries.** `ResolvesPath`, `ListsDirectory` and `ListsXattrs` compare every
  answer with the tree the image was written from, every field of the inode
  included; an image whose attribute ids lie is refused rather than answered
  from another set. In an image damaged anywhere, `HandedBackResolves`: a name a
  listing gave leads to the inode it was listed with; and `ListingAccounted`: a
  listing that parsed, written out again, is the listing, cell for cell.
- **xz.** `AcceptsOnlyTheOriginal`, `AcceptsTheOriginal`; `OutputCapped`, which is
  about the two buffers of `xz.rs`, the blocks done and the sink of the one in
  progress, and not about what `lzma_rs` keeps before it writes to that sink;
  `DecodeEnds`.

### Fairness

Only the runs with a liveness property assume any. A read through a cursor and a
walk of a directory tree run on one thread that has nothing to wait for, so their
next step is weakly fair; so is the next step of the decode of an xz stream,
which is one call on one thread. In `Capi` the steps of a call in progress are weakly
fair for each thread; the standard mutex is not a fair one, and the model does not
assume that it is: a waiting reader gets it in the end because the other threads
make finitely many calls (`MaxCalls`). No liveness is claimed for threads that
call for ever. `DecodeEnds` would fail without the byte the x86 converter looks at
before it enters its inner loop; `MaxTurns` (4 turns, where none of the streams
needs more than one) stands for "for ever" there. Symmetry is used only in runs
without liveness.

### Where the code and its comments disagree

Two runs expect a violation. Each states what a comment says, and TLC shows a
behaviour of the code that does otherwise.

- `meta_cursor_first_block` (`PullsWithinLimit`). `with_limit` is documented to
  "Refuse to pull a block starting at or past `end_abs`" (metablock.rs:332), but
  `new` has already pulled the first block when the limit is set, and only
  `refill` compares. A listing whose start is at or past the end of the directory
  table is therefore parsed from the table that follows. What does hold is
  `RefillsWithinLimit`: no later block is.
- `publish_two` (`NeverHalfWritten`). "FILE is never left half written"
  (cli/squashfs/fs.rs:811) holds for one process at a time
  (`DestIsLastPublished`). Two invocations for one FILE share FILE.partial, and
  one can rename what the other has only begun.

A comment that is narrower than it reads, met on the way: "a single entry never
straddles a metadata-block boundary" (table.rs:11) holds of what mksquashfs
writes; `read_indirect_table` does not require it of the image, so a short block
in the middle of a table shifts every later entry, and one may straddle the end of a
block. `EntriesIndexed` therefore says two things. Of any table: byte k of its entries
is byte k counted over its blocks (`IsByte`), so a shift skips no byte, tells none
twice and makes none up; its mutant, which gives every block `METADATA_SIZE` bytes
whatever it decodes to, breaks that, and only where a block is short.
Of a table whose blocks, but for the last, are full: each entry is where the format
puts it. That a table with a short block is shifted at all, where it might have been
refused, is what the code does and no property says otherwise.

## 4. The proofs

Each theorem states a property of a run above for every value of the constants
that satisfies the module's assumptions: any number of threads or processes, any
image, any sizes. (`MutexReleased` and the two `...CacheIsInvisible` for a given
cache are the ones no run states by themselves.)

| module | theorem | states | inductive invariant |
|---|---|---|---|
| `BlockCacheProofs` | `TypeCorrect`, `EntriesBounded` | `TypeOK`, `BoundedEntries` | `TypeInv` |
| | `Coherence` | `CoherentEntries`, if `KeyDeterminesDecode` | with `TypeInv` |
| | `CacheIsInvisible` | `ImplementsUncached`, if `KeyDeterminesDecode` | with both |
| | `DataCacheIsInvisible`, `MetaCacheIsInvisible` | the same of the two caches there are | |
| | `OffIsInert` | `DisabledIsInert` | itself |
| | `DecodesOnce` | `NoReaderDecodesTwice` | with `TypeInv`, `LoadedIsHeld` |
| | `EveryEntryPaidFor` | `EntriesPaidFor` | with `TypeInv` |
| `MetaCursorProofs` | `FlatReader` | `DeliversStream` | `Types`, `Delivers`, `Chained` |
| | `WithinLimit` | `RefillsWithinLimit` | with `Types` |
| | `RefusesForCause` | `RefusesOnlyWhatIsMissing` | with `Delivers`, `Increasing`, `Counted` |
| `OpenImageProofs` | `OpensWithinImage` | `MountWithinImage` | `Mounted`, `EndInside` |
| | `TablesIndexed` | `EntriesIndexed` | `TablesRead` |
| | `IntactOpens` | `OpensIntact` | `IntactTried` |
| | `LookupsRight` | `LookupNeverWrong` | with `TablesRead` |
| | `ListingsBounded` | `DirectoryBounded` | `Mounted`, `EndInside`, `NotProbed`, `EndFound` |
| `DecodeProofs` | `DeliversFile`, `FullReads`, `IntactRead`, `NeverOutOfRange` | `CopiesTheFile`, `ShortOnlyAtEnd`, `ReadsIntactFiles`, `GeometryHolds` | `ReaderInvariant` |
| | `OutputBounded` | `OutputCapped` | `XzBounded` |
| `QueryProofs` | `ListingWhole` | `ListingAccounted`, if `FieldsFit` | `QueryTyped`, `Accounted` |
| | `HandedBack` | `HandedBackResolves` | `HandsBack` |
| `CapiProofs` | `OwnFile`, `ErrnoTells`, `FailsForCause` | `ReadsItsOwnFile`, `ErrnoTellsFailure`, `FailsOnlyForCause` | `IInv` |
| | `MutexReleased` | `HeldWhileResolving` | `IInv` |
| `CliProofs` | `CleansUp` | `FailedCopyCleansUp` | with `TypeInv` |
| | `DestIsWhole` | `DestIsLastPublished`, if runs do not overlap | `TypeInv`, `DestInv` |
| | `OneProcess` | `DestIsLastPublished`, of one process | |
| | `NoneListedTwice` | `ListedOnce` | `Types`, `Once` |
| | `ReportSorted` | `InPathOrder` | `Types`, `OrderKept` |
| | `WalkMissesNothing` | `WalkComplete` | `Types`, `Once`, `Complete` |

### What is assumed

Every assumption is a named `ASSUME` of the modelled module, and TLC evaluates it
in that module's run. They say what the types of the code say, and that the
values standing for outcomes are told apart.

- `BlockCache`: a process has finitely many threads (`ThreadAssumption`);
  capacities are block counts and the mount starts with one of them
  (`CapacityAssumption`); a refusal, a device failure, no answer and a decoded
  block differ, as the variants of a `Result` do (`AnswerAssumption`).
- `MetaCursor`: addresses, limits and lengths are numbers and an image has
  finitely many blocks (`ImagesAssumption`). Blocks may overlap: nothing in the
  code keeps an image from that.
- `OpenImage`: fields, words and inode numbers are unsigned integers
  (`ImagesAssumption`, `NumbersAssumption`); a `u32` holds something
  (`WidthAssumption`); `METADATA_SIZE` is a positive multiple of 16, so that table
  entries do not straddle full blocks, and an absent or refused table is not a table
  (`SizesAssumption`). `IntactAssumption`
  is the meaning of the flag `intact` that `OpensIntact` and `DirectoryBounded`
  speak of: the images so called satisfy `Intact`, which says of each table that
  it is stored as the format has it. Nothing is assumed of any other image.
- `ReadFile`: the device's size is a `u64`, which bounds what `decode_data_block`
  can find on it; what the codec yields is a length or nothing
  (`SizesAssumption`); fields are unsigned (`FilesAssumption`). That an inode's
  block list has the length `block_count` gives is no assumption: `Init` starts
  from inodes that parsed, and `Inode::read` makes it so.
- `Capi`: a path resolves or has an errno, and no errno is zero
  (`NamesAssumption`).
- `Publish`: files, standard output and no file are told apart, and sources are
  sequences of chunks (`FilesAssumption`); the bound on runs is a number
  (`RunsAssumption`).
- `XzStream`: the streams that are written, and the values damage puts into them, are
  bytes, and the caller's bounds are numbers (`StreamsAssumption`). Nothing is
  assumed of what the bytes say.
- `Query`: an image has finitely many blocks of cells, cells are numbers and so is
  the root's reference (`ImagesAssumption`); the bytes of a path are numbers
  (`PathsAssumption`); the bounds of a listing are numbers, and a `u32` is no
  narrower than a `u16` (`ListingAssumption`); a block size is positive
  (`InodeAssumption`). Images may be damaged in any way; blocks may overlap and
  chain in circles.
- `ListRecursive`: directories are inodes, a listing is a sequence of named
  inodes, the bounds are `u64`s (`GraphAssumption`). Any graph is allowed.

Seven theorems have a hypothesis beyond these. `KeyDeterminesDecode`, of
`Coherence` and `CacheIsInvisible`, is what a key has to do, and TLC shows what
goes wrong with the keys that do not (`DataKeyOffset`, `DataKeyUnbounded`,
`MetaKeyRelative`); `DataCacheIsInvisible` and `MetaCacheIsInvisible` discharge it
for the keys the code has, given only that requests, keys and decodes are those of
`DataBlock` (`IsDataCache`) or `MetaBlock` (`IsMetaCache`). `DestIsWhole` is about
behaviours in which no run begins while another is in progress (`OneAtATime`),
without which the run `publish_two` shows FILE half written; `OneProcess` has it
from there being one process. `ListingWhole` is about behaviours in which the base
number of a header is a `u32` and the delta of an entry a `u16` (`FieldsFit`).
That is how wide they are on disk, and which cell of a listing is which field only
the parse tells; a cell has no width of its own. TLC finds it true in
every state of `queries`.

### The arguments

**Caches.** Lemmas about `Lru` say that `get` only reorders (`TouchReorders`) and
that `put` puts the new entry in front, adds nothing else, and stays in bounds
(`PutHolds`). Neither `TypeOK` nor `BoundedEntries` is inductive alone: `put` keeps
keys distinct and entries typed only if they were, and the insert is typed only
if what the reader decoded is a block, which an earlier step decided. So
`TypeInv` adds `InFlight`, what a reader carries between its steps: while it reads
it has a request and no answer, and when it is about to insert, what it holds is
the decode of its own request. Coherence is inductive on top: an insert, however
late and whatever it races with, puts under `KeyOf(r)` the decode of `r`. The
refinement maps `asked` to `req`: `Ask` is `Ask`; a hit, an insert and a failure are
`Return`; everything else, a resize included, is a stutter. For the counters, an
insert turns a miss in progress into at most one entry, and a resize moves the
misses in progress to `strays`. Until something is evicted, all that any reader has
inserted is still held (`LoadedIsHeld`), so a miss is of a key it has not inserted.

**Cursor.** What was delivered, followed by what is left of the window, is the
stream of the pulled blocks from the reference on (`Delivers`); the blocks are
chained by their sizes (`Chained`). For `RefusesOnlyWhatIsMissing` the blocks lie
at increasing addresses, so none is pulled twice and there are at most as many as
in the image (`Increasing`, `FewBlocks`); and what the stream has, with what the
blocks still to come hold, is all along the total that the property compares with
(`Counted`). That total is a function defined by recursion on the number of blocks,
`Held`; the proof works with its rows, which exist and are unique up to any length.

**Open.** Past `ReadSuperblock` the superblock is valid (`Mounted`), and the end
found so far is inside the image and no later than any pointer read (`EndInside`,
`EndFound`). A table that opened is what its reader returns on this image
(`TablesRead`); `ReadTable` and its companions say what that is: the pointed-to
blocks flattened, each byte counted over the blocks in front of it (`BytesCounted`,
`IsByte`), of which each entry, where blocks are full, lies at the place the format
gives it (`Place`). An intact image passes every check of every step
(`IntactTried`).

**File reads.** `BlockServes` says what `read_logical_block` yields at any
position of any parsed inode: a block that takes the reader further with the
file's own bytes, or an error no intact file gives. Its heart is
`OffsetsSaturate`: the prefix sums of `block_offsets`, which saturate at each
step, are the sums without a width, saturated once; and where one saturates, the
block is past the device. The loop's invariant (`ReaderInvariant`) then is that
what has been copied is the file up to here, and how much it is.

**xz.** `OutputCapped` is not inductive: a chunk is bounded only because the sink of
its block was made with what the earlier blocks had left, and a block is taken over
only once it is known to fit. `XzBounded` keeps the two apart: what earlier blocks
gave (`out`) is within the caller's bound, and with what the present one holds
(`buf`) it is at most one byte over. For that a chunk's size must be a number, so the
invariant carries, stage by stage, what the container has established by then: that
the header is sound, that the payload the block declared is there. A converter
rewrites the payload in place and keeps its length.

**Listings.** `ListingWhole` is about a parse and the writer in the property, run
after run. `Accounted` says that what is parsed so far, written again, is the
listing up to the parse: the whole runs before the last header, then that header
and the entries it has had (`WrittenSoFar`), with the headers numbering the entries
without a gap (`Chained`). A step appends one piece. Its heart is
`EntryWrittenBack`: an entry written under its header is the cells it was parsed
from. A number read as `base + delta` modulo 2^32 determines the delta
(`DeltaReadBack`), because the four candidates of `Delta` are the ways the sum can
wrap and only one of them is a `u16` that gives the number back.

**Path lookup.** `HandedBackResolves` joins two questions, asked one after the
other: a listing and, later, a lookup of one of its names through another path. The
argument is that both go through the same inodes. A parse of given cells is
deterministic, so a directory has one list of entries (`ListedOnce`), which relates
the history of a parse that ended to a parse that is under way (`ParseProgress`,
`ProgressEnds`: one that was refused would have been stuck before the end both times).
Hence a name in a directory leads to one inode (`StepsOnce`), and two walks of the
same names agree (`WalksAgree`). A path splits into the components of the directory
and the name joined to it (`JoinedComponents`), which needs that a listing hands out
no empty name and none with a "/" (`GoodName`); so the lookup follows the way the
listing went, can never fail on it but for the device, and ends at the first entry of
that name, with the inode it was listed with (`ListedLeads`). The invariant
(`HandsBack`) says where a question is on its way (`OnItsWay`), that what is being
listed is the directory it has reached (`OfItsNode`), and what is known of the last
listing and of the name handed back (`Keeps`).

**C ABI.** Only the thread that resolves holds the mutex; a call in progress has an
empty errno slot, and what the mount remembers as last read is a path with its own
inode (`IInv`). A poisoned mutex is taken like any other, so nothing in the
invariant depends on who panicked.

**`fs read`.** `FailedCopyCleansUp` holds for any number of processes at once:
whoever creates FILE.partial holds it, and every step that lets go of it has
removed it, renamed it, or is one of the three leavings the property names. With
one run at a time, the file being written is `FILE.partial`, is not FILE, and
holds the chunks copied so far (`Writing`); a rename therefore publishes a whole
source.

**`ls --recursive`.** `children` sorts: `Rank` counts what comes before an entry,
is a bijection onto the places, and so the iterator holds the listing's entries, all
of them and in order (`ChildrenSorted`). Numbers of directories read have been met,
no two alike (`Once`). The order of the report (`OrderKept`) is carried by the
stack: each frame's path runs through every outer frame, by a name that comes before
all the entries that frame has left (`Leads`), so that whatever is still to come, in
any frame, is behind all that is told (`ReportInOrder`). Completeness (`Walked`) is an equation kept by every step: what
is told, with what the iterators on the stack still hold, is what is in the
directories read, each at the one path it was entered by. When the stack is empty
nothing is to come. A walk that stops at a bound or an error is covered by the
first two only, since then it is not complete.

**Lemmas.** `SequenceLemmas` makes up for three things the provers lack. Induction
over the naturals is had as a fact about sets (`SetInduction`: a set with 0 that is
closed under successor holds every natural), proved from the pigeonhole fact about
injections on finite sets. `FlattenSeq` is a fold, which is opaque to the
provers; `FlattenAppend`, `FlattenSnoc`, `FlattenOne`, `FlattenFull`, `FlattenPieces`
and `FlattenTypes` say how it grows and where its elements are. And a recursive function
is a choice, of which nothing is known until such a function is shown to exist:
`RecursionExists` does that for a function of the numbers up to a bound, each value
made from the one before.

### Only model-checked

- Liveness: `ReadsEnd`, `WalkEnds`, `CallsReturn`, `DecodeEnds`. It is outside the
  prover, as is `ENABLED`.
- The queries that compare with a tree. `ResolvesPath`, `ListsDirectory` and
  `ListsXattrs` hold of images that a writer of whole images made, which belongs to
  the run and not to the model; a proof would first need the writer as a
  specification.
- `AcceptsOnlyTheOriginal` and `AcceptsTheOriginal` of the xz streams. They are about
  the streams of an independent encoder, too; and the first is about single changes
  to one, since of all streams it is false: checksums collide.

## 5. Not modelled

- Codecs: byte transformations of third-party crates. `DataBlock` models the
  output cap and the bytes are a constant; `XzStream` decodes verbatim LZMA2
  chunks only and takes a compressed one for damage; checksums are functions
  given as constants; SHA-256 is refused, as the code does. A stream without
  filters is `lzma_rs`'s own affair, and so is what it buffers of a block before it
  writes to the sink: the model writes a chunk as it is read, which leaves what is
  accepted and what `xz.rs` holds at the end of a block the same.
- Integer widths are kept where the code leans on them (the offset sum of a
  file, inode numbers modulo `U32`, the `u32` count in an xattr header, the signed
  delta, the bits of a branch). Elsewhere a field is a number that fits.
- `fs_core` (devices, `CachingDevice`, the transfer engine) is another
  repository. A device is a read that may fail; of `fs export` and `fs get` the
  adapter (`TreeExport`) is in `Query`, the engine's copying is not.
- Rendering, error texts, C struct layouts and buffer copies.
- In `Capi`, calls racing with `umount` and two threads on one iterator: the
  header forbids both, and the model assumes the contract.

## 6. Plan

Modelled and checked so far, in this order: caches, cursor, file reads, open and
tables, C ABI, publication of a file, `ls --recursive`, inodes, listings, path
lookup and attribute sets, the xz container and its converters. What is left of
the model is small: a cursor over a shared cache (`MetaCursor` composed with
`BlockCache`, two cursors on one mount) would join two results that now meet in
prose.

Every safety property that needs no encoder of its own is proved. Further theorems,
in order of worth:

1. That `MetaCursor` delivers `MetaStream`, as a refinement: `FlatReader` and
   `RefusesForCause` are its two halves.
2. In `XattrSet`, that the total never passes the declared size and the attributes
   add up to it, as `ListingWhole` has it of listings.
3. The writer of `MCQuery` as a specification, and that `ParseInode` inverts it
   layout by layout, which is what `ResolvesPath` says of the images of the run.
