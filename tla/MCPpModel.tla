----------------------------- MODULE MCPpModel -----------------------------
(***************************************************************************)
(* PpModel for TLC: a context of six rows in blocks of two, one-row chunks *)
(* through a ring of two slots, so a call of three rows or more wraps the  *)
(* ring, starts inside a block and blocks stage A; a sync-back of one      *)
(* block, so a mirror two blocks behind falls back to stage B alone.       *)
(***************************************************************************)
EXTENDS PpModel

=============================================================================
