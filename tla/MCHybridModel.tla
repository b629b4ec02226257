--------------------------- MODULE MCHybridModel ---------------------------
(***************************************************************************)
(* HybridModel for TLC: eight positions in blocks of two, stages of six    *)
(* rows, so calls start inside a block, outgrow the stages and outrun the  *)
(* gather budget; a drafter ring of three rows fed in slices of two, so a  *)
(* tail may start off the window, with and without a gap.                  *)
(***************************************************************************)
EXTENDS HybridModel

=============================================================================
