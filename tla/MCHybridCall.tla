---------------------------- MODULE MCHybridCall ----------------------------
(***************************************************************************)
(* HybridCall for TLC: rings of two slots, the smallest that works, and    *)
(* none, one or three batches per card and phase: a card that imports      *)
(* little runs ahead until its ring is full, and the numbers wrap within a *)
(* phase and across phases, unequally on the two cards.                    *)
(***************************************************************************)
EXTENDS HybridCall

=============================================================================
