------------------------------ MODULE XattrSet ------------------------------
(***************************************************************************)
(* read_set and read_ool_value in xattr.rs: the pairs of one attribute     *)
(* set, read off the pair area and added up as they are decoded.           *)
(***************************************************************************)
EXTENDS MetaStream, SequencesExt

CONSTANTS
    Namespaces,       \* PREFIXES, the namespaces in the format's order
    MaxNameLen,     \* MAX_NAME_LEN
    MaxValueLen,    \* MAX_VALUE_LEN
    MaxXattrs       \* MAX_XATTRS_PER_INODE

VARIABLES
    id,         \* the id-table entry: reference, count and declared size
    cur,        \* what the cursor can still deliver
    pairs,      \* pairs still to read
    total,      \* what the decoded pairs add up to
    attrs,      \* the attributes decoded
    setState         \* "idle", "reading", "read" or "refused"

setVars == <<id, cur, pairs, total, attrs, setState>>

NoId == [ref |-> 0, count |-> 0, size |-> 0]

XattrInit ==
    /\ id = NoId
    /\ cur = << >>
    /\ pairs = 0
    /\ total = 0
    /\ attrs = << >>
    /\ setState = "idle"

\* read_set's entry is at hand and its cursor made, it is refused before a
\* pair is read, or its answer has been used.
SetXattrs(entry, cells, state) ==
    /\ id' = entry
    /\ cur' = cells
    /\ pairs' = entry.count
    /\ total' = 0
    /\ attrs' = << >>
    /\ setState' = state

\* Set in a pair's type when its value is stored out of line.
Ool(type) == (type \div 256) % 2 = 1
Namespace(type) == type % 256

\* A bare length and its bytes: an out-of-line value, and the end of a pair
\* whose value is in line.
SizedValue(cells) ==
    IF cells = << >> \/ Head(cells) > MaxValueLen \/ Len(cells) < 1 + Head(cells) THEN Damaged
    ELSE Ok(SubSeq(cells, 2, 1 + Head(cells)))

\* The size of a reference, 8 bytes: two cells, its block and its offset.
RefCells == 2

\* The reference in place of an out-of-line value, its length checked.
Reference(cells) ==
    IF Len(cells) < 1 + RefCells \/ Head(cells) # RefCells THEN Damaged
    ELSE Ok(Packed(cells[2], cells[3]))

\* read_ool_value: one hop, with a cursor of its own.
ReadOolValue(blocks, table, ref) ==
    LET c == Cursor(blocks, table, ref, NoLimit) IN
    IF ~c.ok THEN Damaged ELSE SizedValue(c.value)

\* The pair at the cursor: name, value and the cells it takes.
Pair(blocks, table) ==
    IF Len(cur) < 2 \/ cur[2] > MaxNameLen \/ Len(cur) < 2 + cur[2] THEN Damaged
    ELSE LET type == cur[1]
             suffix == SubSeq(cur, 3, 2 + cur[2])
             rest == SubSeq(cur, 3 + cur[2], Len(cur))
         IN
         IF Namespace(type) >= Len(Namespaces) THEN Damaged
         ELSE LET name == Namespaces[Namespace(type) + 1] \o suffix
                  ref == Reference(rest)
                  value ==
                      IF ~Ool(type) THEN SizedValue(rest)
                      ELSE IF ~ref.ok THEN Damaged
                      ELSE ReadOolValue(blocks, table, ref.value)
              IN
              IF Len(name) > MaxNameLen \/ ~value.ok THEN Damaged
              ELSE Ok([name |-> name, value |-> value.value,
                       cells |-> 2 + cur[2] + 1 + (IF Ool(type) THEN RefCells ELSE Len(value.value))])

\* What a pair adds to the total: its name, a terminator and its value.
PairTotal(pair) == Len(pair.name) + 1 + Len(pair.value)

ReadPair(blocks, table) ==
    /\ setState = "reading"
    /\ pairs > 0
    /\ LET pair == Pair(blocks, table) IN
       /\ pair.ok
       /\ total + PairTotal(pair.value) <= id.size
       /\ total' = total + PairTotal(pair.value)
       /\ attrs' = Append(attrs, [name |-> pair.value.name, value |-> pair.value.value])
       /\ cur' = SubSeq(cur, pair.value.cells + 1, Len(cur))
    /\ pairs' = pairs - 1
    /\ UNCHANGED <<id, setState>>

\* The pair does not decode, or takes the set past the size it declared.
RefusePair(blocks, table) ==
    /\ setState = "reading"
    /\ pairs > 0
    /\ LET pair == Pair(blocks, table) IN
       pair.ok => total + PairTotal(pair.value) > id.size
    /\ setState' = "refused"
    /\ UNCHANGED <<id, cur, pairs, total, attrs>>

\* Mutant: the total is not compared with the declared size at the end.
EndOfSetUnchecked ==
    /\ setState = "reading"
    /\ pairs = 0
    /\ setState' = "read"
    /\ UNCHANGED <<id, cur, pairs, total, attrs>>

\* The last pair is read: the set must add up to the size it declared.
EndOfSet ==
    /\ setState = "reading"
    /\ pairs = 0
    /\ setState' = IF total = id.size THEN "read" ELSE "refused"
    /\ UNCHANGED <<id, cur, pairs, total, attrs>>

SetStep(blocks, table) == ReadPair(blocks, table) \/ RefusePair(blocks, table) \/ EndOfSet

=============================================================================
