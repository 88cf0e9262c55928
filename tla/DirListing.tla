----------------------------- MODULE DirListing -----------------------------
(***************************************************************************)
(* parse_listing in dir.rs: a directory's listing, already read off the    *)
(* directory table, is runs of one header and the entries it counts.       *)
(***************************************************************************)
EXTENDS Integers, MetaStream, SequencesExt

CONSTANTS
    MaxEntries,     \* MAX_ENTRIES_PER_HEADER
    NameLen,        \* SQUASHFS_NAME_LEN
    U32             \* inode numbers are modulo this

\* The bounds are numbers, and inode numbers are u32s: an i16 added to one can
\* be taken off again.
ASSUME ListingAssumption ==
    MaxEntries \in Nat /\ NameLen \in Nat /\ U32 \in Nat /\ U32 >= U16

VARIABLES
    buf,        \* the listing
    p,          \* cells parsed
    left,       \* entries the current header still promises
    header,     \* that header: its inode block and base inode number
    out,        \* entries parsed
    headers,    \* history: each header, with the number of its first entry
    parse       \* "idle", "parsing", "parsed" or "refused"

listingVars == <<buf, p, left, header, out, headers, parse>>

Slash == 47
Dot == 46
Nul == 0
HeaderLen == 3      \* count, start, inode_number
EntryLen == 4       \* offset, inode_offset, type, name_size

NoHeader == [start |-> 0, base |-> 0]

ListingInit ==
    /\ buf = << >>
    /\ p = 0
    /\ left = 0
    /\ header = NoHeader
    /\ out = << >>
    /\ headers = << >>
    /\ parse = "idle"

\* parse_listing is entered with the cells read_exact delivered ("parsing");
\* read_dir answers an empty directory without it ("parsed"); the listing has
\* been used ("idle").
SetListing(cells, state) ==
    /\ buf' = cells
    /\ p' = 0
    /\ left' = 0
    /\ header' = NoHeader
    /\ out' = << >>
    /\ headers' = << >>
    /\ parse' = state

BetweenRuns == parse = "parsing" /\ left = 0 /\ p < Len(buf)

HeaderWhole == p + HeaderLen <= Len(buf)

\* A header counts one entry less than follow it.
Promised == buf[p + 1] + 1

ParseHeader ==
    /\ BetweenRuns
    /\ HeaderWhole
    /\ Promised <= MaxEntries
    /\ left' = Promised
    /\ header' = [start |-> buf[p + 2], base |-> buf[p + 3]]
    /\ p' = p + HeaderLen
    /\ headers' = Append(headers, <<Len(out) + 1, Promised, buf[p + 2], buf[p + 3]>>)
    /\ UNCHANGED <<buf, out, parse>>

Refuse ==
    /\ parse' = "refused"
    /\ UNCHANGED <<buf, p, left, header, out, headers>>

\* "truncated directory header", "directory header count > 256".
RefuseHeader ==
    /\ BetweenRuns
    /\ HeaderWhole => Promised > MaxEntries
    /\ Refuse

InRun == parse = "parsing" /\ left > 0

EntryWhole == p + EntryLen <= Len(buf)

\* A name is one byte longer than its size says.
NameSize == buf[p + EntryLen] + 1

NameWhole == p + EntryLen + NameSize <= Len(buf)

Name == SubSeq(buf, p + EntryLen + 1, p + EntryLen + NameSize)

\* Mutant: a name may contain "/" or NUL.
AnyNameAllowed(name) == name # <<Dot>> /\ name # <<Dot, Dot>>

\* The names an entry may not have: "." and "..", and any with "/" or NUL.
NameAllowed(name) ==
    /\ name # <<Dot>>
    /\ name # <<Dot, Dot>>
    /\ Slash \notin Range(name)
    /\ Nul \notin Range(name)

\* Mutant: the delta read as an unsigned number.
Unsigned16(x) == x

\* The delta is an i16.
Signed16(x) == IF 2 * x >= U16 THEN x - U16 ELSE x

EntryAt ==
    [name |-> Name,
     inode_ref |-> Packed(header.start, buf[p + 1]),
     inode_number |-> (header.base + Signed16(buf[p + 2])) % U32,
     type_id |-> buf[p + 3]]

ParseEntry ==
    /\ InRun
    /\ EntryWhole
    /\ NameSize <= NameLen
    /\ NameWhole
    /\ NameAllowed(Name)
    /\ out' = Append(out, EntryAt)
    /\ p' = p + EntryLen + NameSize
    /\ left' = left - 1
    /\ UNCHANGED <<buf, header, headers, parse>>

\* The entry is cut short, its name is too long, or is one it may not have.
RefuseEntry ==
    /\ InRun
    /\ \/ ~EntryWhole
       \/ EntryWhole /\ NameSize > NameLen
       \/ EntryWhole /\ NameSize <= NameLen /\ ~NameWhole
       \/ EntryWhole /\ NameSize <= NameLen /\ NameWhole /\ ~NameAllowed(Name)
    /\ Refuse

\* Mutant: a listing may end inside a header or a run.
ParseDoneEarly ==
    /\ parse = "parsing"
    /\ left > 0 => ~EntryWhole
    /\ left = 0 => ~HeaderWhole
    /\ parse' = "parsed"
    /\ UNCHANGED <<buf, p, left, header, out, headers>>

\* The listing ends where a header would begin.
ParseDone ==
    /\ parse = "parsing"
    /\ left = 0
    /\ p >= Len(buf)
    /\ parse' = "parsed"
    /\ UNCHANGED <<buf, p, left, header, out, headers>>

ParseStep == ParseHeader \/ RefuseHeader \/ ParseEntry \/ RefuseEntry \/ ParseDone

-----------------------------------------------------------------------------

\* The i16 an inode number is written as, under a header's.
Delta(number, base) ==
    LET delta == number - base IN
    CHOOSE x \in {delta, delta + U16, delta + U32, delta - U32 + U16} :
        x \in 0..(U16 - 1) /\ (base + Signed16(x)) % U32 = number

\* An entry as it is written under a header.
EntryCells(e, start, base) ==
    <<e.inode_ref - Packed(start, 0), Delta(e.inode_number, base), e.type_id, Len(e.name) - 1>>
        \o e.name

\* A run as it is written: its header, then the entries it counts.
RunCells(h) ==
    <<h[2] - 1, h[3], h[4]>> \o
    FlattenSeq([i \in 1..h[2] |-> EntryCells(out[h[1] + i - 1], h[3], h[4])])

\* An accepted listing accounts for every one of its cells: written out
\* again, header by header, its entries are the listing.  No run is cut, no
\* entry or byte of a name is skipped or taken twice, and nothing trails.
ListingAccounted ==
    parse = "parsed" =>
        /\ \A i \in 1..Len(headers) :
               headers[i][1] + headers[i][2] - 1
                   = IF i = Len(headers) THEN Len(out) ELSE headers[i + 1][1] - 1
        /\ FlattenSeq([i \in 1..Len(headers) |-> RunCells(headers[i])]) = buf

=============================================================================
