---------------------------- MODULE MCTpMailbox ----------------------------
(* TLC instance: one lane, two words per chunk, numbers that wrap within a *)
(* run and a recovery between two runs.                                    *)
EXTENDS TpMailbox
=============================================================================
