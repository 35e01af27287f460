---------------------------- MODULE MCMagicOverlay ---------------------------
(***************************************************************************)
(* MagicOverlay with captures of 4 and of 8 bytes, three bands that grow   *)
(* wider, of which the first is empty as the first ones are in the code,   *)
(* the second is drawn and the third is not, and components that are       *)
(* negative, small, and large enough to be clipped.                        *)
(***************************************************************************)
EXTENDS MagicOverlay

Widening == [i \in 0..3 |-> <<0, 1, 4, 8>>[i + 1]]
FourOrEight == {4, 8}
SomeComponents == {-5, 4, 60}

=============================================================================
