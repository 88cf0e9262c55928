---------------------------- MODULE MCMetaCursor ----------------------------
(***************************************************************************)
(* MetaCursor for TLC, on every image of one to three blocks drawn from a  *)
(* few headers: ordinary blocks of two lengths, one stored verbatim, one   *)
(* that decodes to nothing, one the codec refuses.                         *)
(***************************************************************************)
EXTENDS MetaCursor

Headers == {
    StoredBlock(1, TRUE, 2),
    StoredBlock(2, TRUE, 3),
    StoredBlock(2, FALSE, Malformed),
    StoredBlock(1, TRUE, 0),
    StoredBlock(1, TRUE, 4)}

\* One block at 0, and after it none, one or two more, each where the one
\* before it ends.
After(img, abs) ==
    {img} \cup
    {[a \in DOMAIN img \cup {NextAbs(abs, img[abs].size)} |->
        IF a \in DOMAIN img THEN img[a] ELSE h] : h \in Headers}

LastAbs(img) == CHOOSE a \in DOMAIN img : \A b \in DOMAIN img : b <= a

MCImages ==
    LET one == {[a \in {0} |-> h] : h \in Headers}
        two == UNION {After(img, 0) : img \in one}
    IN  UNION {After(img, LastAbs(img)) : img \in two}

=============================================================================
