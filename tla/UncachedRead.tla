---------------------------- MODULE UncachedRead ----------------------------
(***************************************************************************)
(* What a decoded-block cache promises its readers: nothing but speed.     *)
(* This is read_block (metablock.rs) and read_data_block (fs.rs) with no   *)
(* cache at all: a reader asks for a block, and is answered with what      *)
(* decoding that very request yields, or with the device's failure.        *)
(***************************************************************************)
CONSTANTS
    Thread,      \* readers of one mount
    Request,     \* the block requests they make
    Decode(_),   \* what decoding a request yields: a block, or Refused
    IoError,     \* the answer when the device fails
    None         \* no request, no answer yet

VARIABLES
    asked,       \* asked[t]: the request t waits on or was last answered
    answer       \* answer[t]: the answer to it, None until there is one

vars == <<asked, answer>>

Init ==
    /\ asked = [t \in Thread |-> None]
    /\ answer = [t \in Thread |-> None]

Ask(t, r) ==
    /\ asked[t] = None \/ answer[t] # None
    /\ asked' = [asked EXCEPT ![t] = r]
    /\ answer' = [answer EXCEPT ![t] = None]

Return(t) ==
    /\ asked[t] # None
    /\ answer[t] = None
    /\ answer' \in {[answer EXCEPT ![t] = a] : a \in {Decode(asked[t]), IoError}}
    /\ UNCHANGED asked

Next == \E t \in Thread : Return(t) \/ \E r \in Request : Ask(t, r)

Spec == Init /\ [][Next]_vars

=============================================================================
