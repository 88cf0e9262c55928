----------------------------- MODULE MCPublish -----------------------------
(* Publish for TLC: files of the image of three chunks, of one and of none. *)
EXTENDS Publish, TLC

MCSource == ("long" :> <<"a", "b", "c">>) @@ ("short" :> <<"d">>) @@ ("empty" :> << >>)

=============================================================================
