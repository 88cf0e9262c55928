------------------------------- MODULE MCCapi -------------------------------
(***************************************************************************)
(* Capi for TLC: a directory, a file that reads and one that does not, a   *)
(* link whose target, attributes and owner fail, and a path that is not    *)
(* there.                                                                  *)
(***************************************************************************)
EXTENDS Capi, TLC

Node(kind, intact, entries) ==
    [kind |-> kind, intact |-> intact, ownerKnown |-> intact, targetFits |-> intact,
     xattrsIntact |-> intact, hasXattr |-> kind = "file", entries |-> entries]

MCLookup == [
    dir |-> Node("dir", TRUE, <<"a", "b">>),
    a |-> Node("file", TRUE, << >>),
    b |-> Node("link", FALSE, << >>),
    c |-> Node("file", FALSE, << >>)]

MCUnresolved == [gone |-> "ENOENT"]

=============================================================================
