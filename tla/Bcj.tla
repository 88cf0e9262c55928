-------------------------------- MODULE Bcj --------------------------------
(***************************************************************************)
(* The branch-call-jump converters of xz.rs, in decode direction: each     *)
(* turns the absolute branch targets of a whole block back into relative   *)
(* ones.  PowerPC, ARM, SPARC and IA-64 convert every aligned unit by      *)
(* itself and are functions of the block; x86 and ARM-Thumb scan, what     *)
(* they do next depending on what they did last, and are steps.            *)
(*                                                                         *)
(* Bytes are real bytes and addresses are exact: no converter keeps more   *)
(* than the low 26 bits of an address, so start offsets are kept modulo    *)
(* 2^26.                                                                   *)
(***************************************************************************)
EXTENDS Integers, Sequences, FiniteSetsExt, SequencesExt

VARIABLES
    buf,         \* the block, converted in place
    bcj,         \* the converter and its start offset, or Unfiltered
    scan         \* where the scanning converters are

Unfiltered == [kind |-> "none", start |-> 0]

At(i) == buf[i + 1]

Bit(n, k) == (n \div 2^k) % 2

Field(n, low, width) == (n \div 2^low) % 2^width

BigWord(w) == ((w[1] % 4) * 2^24) + (w[2] * 2^16) + (w[3] * 2^8) + w[4]

----------------------------------------------------------------------------
(* Converters by unit.  Each moves the branch in one unit by the given     *)
(* number of bytes; decoding moves it back by the position it stands at.   *)

MovedPowerPc(w, by) ==
    LET addr == ((BigWord(w) - (BigWord(w) % 4) + by) % 2^26) \div 4 IN
    IF w[1] \div 4 = 18 /\ w[4] % 4 = 1
    THEN <<72 + Field(addr, 22, 2), Field(addr, 14, 8), Field(addr, 6, 8),
           Field(addr, 0, 6) * 4 + 1>>
    ELSE w

MovedArm(w, by) ==
    LET addr == (((w[1] + (w[2] * 2^8) + (w[3] * 2^16)) * 4 + by) % 2^26) \div 4 IN
    IF w[4] = 235
    THEN <<Field(addr, 0, 8), Field(addr, 8, 8), Field(addr, 16, 8), 235>>
    ELSE w

\* Bit 22 of the displacement is its sign, repeated over the bits above it.
MovedSparc(w, by) ==
    LET addr == (((BigWord(w) % 2^23) * 4 + by) % 2^25) \div 4
        sign == Bit(addr, 22)
    IN  IF \/ w[1] = 64 /\ w[2] \div 64 = 0
           \/ w[1] = 127 /\ w[2] \div 64 = 3
        THEN <<64 + sign * 63, sign * 192 + Field(addr, 16, 6),
               Field(addr, 8, 8), Field(addr, 0, 8)>>
        ELSE w

\* BRANCH_TABLE: the slots of a bundle that may hold a branch, by template.
BranchSlots(template) ==
    CASE template \in {16, 17, 24, 25, 28, 29} -> {2}
      [] template \in {18, 19}                 -> {1, 2}
      [] template \in {22, 23}                 -> {0, 1, 2}
      [] OTHER                                 -> {}

\* An IA-64 bundle as its 128 bits, a slot being the 41 from 5 + 41 * slot.
BundleBit(w, k) == Bit(w[(k \div 8) + 1], k % 8)

SlotField(w, slot, low, width) ==
    MapThenSumSet(LAMBDA k : BundleBit(w, 5 + (41 * slot) + low + k) * 2^k,
                  0..(width - 1))

IsBranch(w, slot) ==
    /\ slot \in BranchSlots(w[1] % 32)
    /\ SlotField(w, slot, 37, 4) = 5
    /\ SlotField(w, slot, 9, 3) = 0

\* The branch's address is bits 13 to 32 of its slot, and bit 36 above them.
SlotAddress(w, slot) ==
    SlotField(w, slot, 13, 20) + (SlotField(w, slot, 36, 1) * 2^20)

MovedSlotBit(w, by, k) ==
    LET slot == (k - 5) \div 41
        low  == (k - 5) % 41
        addr == ((SlotAddress(w, slot) * 16 + by) % 2^25) \div 16
    IN  IF k < 5 \/ ~IsBranch(w, slot) THEN BundleBit(w, k)
        ELSE IF low \in 13..32 THEN Bit(addr, low - 13)
        ELSE IF low = 36 THEN Bit(addr, 20)
        ELSE BundleBit(w, k)

MovedIa64(w, by) ==
    IF BranchSlots(w[1] % 32) = {} THEN w
    ELSE [j \in 1..16 |->
            MapThenSumSet(LAMBDA k : MovedSlotBit(w, by, 8 * (j - 1) + k) * 2^k, 0..7)]

UnitWidth(kind) == IF kind = "ia64" THEN 16 ELSE 4

Moved(kind, w, by) ==
    CASE kind = "powerpc" -> MovedPowerPc(w, by)
      [] kind = "arm"     -> MovedArm(w, by)
      [] kind = "sparc"   -> MovedSparc(w, by)
      [] kind = "ia64"    -> MovedIa64(w, by)

\* How far past the branch its target is counted from.
Ahead(kind) == IF kind = "arm" THEN 8 ELSE 0

\* powerpc, ia64, arm and sparc: every whole unit converted, a shorter rest
\* left alone.  The sign is -1 to decode.
InUnits(kind, bytes, start, sign) ==
    LET width == UnitWidth(kind)
        whole == Len(bytes) - (Len(bytes) % width)
        Unit(i) == Moved(kind, SubSeq(bytes, i + 1, i + width),
                         sign * (start + i + Ahead(kind)))
    IN  FlattenSeq([g \in 1..(whole \div width) |-> Unit(width * (g - 1))])
            \o SubSeq(bytes, whole + 1, Len(bytes))

----------------------------------------------------------------------------
(* The scanning converters.                                                *)

\* prevPos begins at usize::MAX, from which the wrapping gap to position i
\* is i + 1.
ScanStart == [i |-> 0, prevPos |-> -1, prevMask |-> 0, turning |-> FALSE, turns |-> 0,
              src |-> 0]

MsByte(byte) == byte \in {0, 255}

IsCall(byte) == byte \in {232, 233}

\* ALLOWED and BIT_NUM, by mask.
Allowed(mask) == mask \in {0, 1, 2, 4}

BitNum(mask) ==
    CASE mask = 0      -> 0
      [] mask = 1      -> 1
      [] mask \in 2..3 -> 2
      [] OTHER         -> 3

\* The mask at an opcode: what was seen within the three bytes before it.
MaskHere ==
    LET gap == scan.i - scan.prevPos IN
    IF gap > 3 THEN 0 ELSE (scan.prevMask * 2^(gap - 1)) % 8

\* Mutant: the byte the loop will turn over is not looked at first.
HeldBackByMask ==
    MaskHere # 0 /\ ~Allowed(MaskHere)

\* A call too close to an earlier one to be converted.
HeldBack ==
    /\ MaskHere # 0
    /\ ~Allowed(MaskHere) \/ MsByte(At(scan.i + 4 - BitNum(MaskHere)))

X86Left == scan.i < Len(buf) - 4

X86Pass(i, mask) ==
    scan' = [scan EXCEPT !.i = i + 1, !.prevPos = i, !.prevMask = 2 * mask + 1]

\* x86, one byte: skip it, hold it back, or begin to convert the call.
X86Scan ==
    /\ bcj.kind = "x86" /\ X86Left /\ ~scan.turning
    /\ \/ /\ ~IsCall(At(scan.i))
          /\ scan' = [scan EXCEPT !.i = @ + 1]
       \/ /\ IsCall(At(scan.i))
          /\ HeldBack \/ ~MsByte(At(scan.i + 4))
          /\ X86Pass(scan.i, MaskHere)
       \/ /\ IsCall(At(scan.i))
          /\ ~HeldBack /\ MsByte(At(scan.i + 4))
          /\ scan' = [scan EXCEPT
                !.prevPos = scan.i, !.prevMask = MaskHere, !.turning = TRUE,
                !.turns = 0,
                !.src = At(scan.i + 1) + (At(scan.i + 2) * 2^8)
                            + (At(scan.i + 3) * 2^16) + ((At(scan.i + 4) % 2) * 2^24)]
    /\ UNCHANGED buf

\* The address relative to the instruction after the call, of which only
\* 25 bits are kept.
X86Dest == (scan.src - (bcj.start + scan.i + 5)) % 2^25

\* The byte of the address an earlier call may have read, where that is one
\* the encoder would not have left.
TurnsOver ==
    /\ scan.prevMask # 0
    /\ MsByte(Field(X86Dest, 24 - (8 * BitNum(scan.prevMask)), 8))

\* A bound of the model: a loop that has turned this often is taken for one
\* that never stops, and followed no further.
MaxTurns == 4

\* One turn of the inner loop: the low bits are inverted and it goes again.
X86Turn ==
    /\ bcj.kind = "x86" /\ scan.turning
    /\ TurnsOver
    /\ scan.turns < MaxTurns
    /\ LET low == 2^(32 - (8 * BitNum(scan.prevMask))) IN
       scan' = [scan EXCEPT
                   !.turns = @ + 1,
                   !.src = X86Dest - (X86Dest % low) + (low - 1 - (X86Dest % low))]
    /\ UNCHANGED buf

\* The loop's end: the address is stored, bit 24 spread over the byte above.
X86Store ==
    /\ bcj.kind = "x86" /\ scan.turning
    /\ ~TurnsOver
    /\ buf' = [k \in 1..Len(buf) |->
                  CASE k - scan.i \in 2..4 -> Field(X86Dest, 8 * (k - scan.i - 2), 8)
                    [] k - scan.i = 5      -> 255 * Bit(X86Dest, 24)
                    [] OTHER               -> buf[k]]
    /\ scan' = [scan EXCEPT !.i = @ + 5, !.turning = FALSE]

\* A Thumb BL is two half words, of which the high halves name it.
IsThumbCall(i) == At(i + 1) \div 8 = 30 /\ At(i + 3) \div 8 = 31

ThumbLeft == scan.i <= Len(buf) - 4

ThumbAddress(bytes, i) ==
    ((bytes[i + 2] % 8) * 2^19) + (bytes[i + 1] * 2^11)
        + ((bytes[i + 4] % 8) * 2^8) + bytes[i + 3]

\* The bytes with the call at i moved.
ThumbMoved(bytes, i, by) ==
    LET addr == ((ThumbAddress(bytes, i) * 2 + by) % 2^23) \div 2 IN
    [bytes EXCEPT ![i + 1] = Field(addr, 11, 8), ![i + 2] = 240 + Field(addr, 19, 3),
                  ![i + 3] = Field(addr, 0, 8),  ![i + 4] = 248 + Field(addr, 8, 3)]

\* A converted call is stepped over whole.
ThumbStep(i) == IF IsThumbCall(i) THEN 4 ELSE 2

\* armthumb, one half word or one call.
ThumbScan ==
    /\ bcj.kind = "armthumb" /\ ThumbLeft
    /\ buf' = IF IsThumbCall(scan.i)
              THEN ThumbMoved(buf, scan.i, -(bcj.start + scan.i + 4))
              ELSE buf
    /\ scan' = [scan EXCEPT !.i = @ + ThumbStep(scan.i)]

\* The other converters, the whole block at once.
ConvertUnits ==
    /\ bcj.kind \in {"powerpc", "ia64", "arm", "sparc"}
    /\ scan.i = 0
    /\ buf' = InUnits(bcj.kind, buf, bcj.start, -1)
    /\ scan' = [scan EXCEPT !.i = Len(buf) + 1]

\* decode, until the converter returns.
ConvertStep ==
    X86Scan \/ X86Turn \/ X86Store \/ ThumbScan \/ ConvertUnits

Converted ==
    CASE bcj.kind = "none"     -> TRUE
      [] bcj.kind = "x86"      -> ~X86Left /\ ~scan.turning
      [] bcj.kind = "armthumb" -> ~ThumbLeft
      [] OTHER                 -> scan.i > 0

=============================================================================
