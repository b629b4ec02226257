----------------------------- MODULE MCTpModel -----------------------------
(* TLC instance of the facade and its two rank workers; the bounds are in  *)
(* the .cfg files.                                                         *)
EXTENDS TpModel
=============================================================================
