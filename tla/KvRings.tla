------------------------------ MODULE KvRings ------------------------------
(***************************************************************************)
(* Key/value stores that are overwritten in place.                         *)
(*                                                                         *)
(* A sliding layer of GemmaModel keeps the last RingTokens rows: row p     *)
(* lives in slot p % RingTokens (sliding_ring.hpp, r4d_attn_window.h), and *)
(* a query at q reads the rows q - Window + 1 .. q, or to the end of its   *)
(* image block.  A call's rows are written before any of them attends, so  *)
(* the ring must hold the window and the call's chunk.  The DFlash drafter *)
(* (dflash_draft.cpp) has a ring of exactly its window.                    *)
(*                                                                         *)
(* A slot holds <<position, row>>, or Junk: what no row of this sequence   *)
(* wrote.  The slots of all sliding layers move together and are one ring. *)
(***************************************************************************)
EXTENDS Integers, Sequences, FiniteSetsExt

CONSTANTS
  Window,     \* sliding_window: rows a query sees, its own included
  RingTokens, \* rows a ring holds
  MaxBlock,   \* kGemmaMaxImageBlockTokens
  DraftSlots, \* the drafter's window, which is its number of slots
  Junk        \* a row of a half-finished call or of an earlier sequence

\* r4d_ring_fits
RingFits(rows) == RingTokens >= Window + rows

ASSUME RingAssumption ==
  /\ Window \in Nat \ {0} /\ MaxBlock \in Nat \ {0} /\ DraftSlots \in Nat \ {0}
  /\ RingTokens \in Nat /\ RingFits(MaxBlock)

EmptyStore(slots) == [s \in 0..slots - 1 |-> Junk]
EmptyRing == EmptyStore(RingTokens)

\* the rows of positions pos, pos + 1, ... are written: a slot keeps its last
Put(store, slots, pos, rows) ==
  [s \in 0..slots - 1 |->
     LET mine == {p \in pos..pos + Len(rows) - 1 : p % slots = s}
     IN IF mine = {} THEN store[s] ELSE <<Max(mine), rows[Max(mine) - pos + 1]>>]
Has(store, slots, k, row) == store[k % slots] = <<k, row>>

-----------------------------------------------------------------------------
(* One call of a sliding layer.                                            *)

LowKey(q) == IF q >= Window THEN q - Window + 1 ELSE 0
HighKey(q, ext) == IF ext > q THEN ext ELSE q

\* the query at q reads its whole window, and nothing else's rows
Sees(ring, q, ext, history) ==
  \A k \in LowKey(q)..HighKey(q, ext) :
    k < Len(history) /\ Has(ring, RingTokens, k, history[k + 1])

(* RunChunk: what is computed for the rows of a chunk at the end of        *)
(* `history`.  A row that attended to anything but its window is junk, and *)
(* so are the key and the value the next layer stores for it.              *)
Computed(history, ring, rows, ext) ==
  LET pos == Len(history)
      written == Put(ring, RingTokens, pos, rows)
  IN [t \in 1..Len(rows) |->
        IF Sees(written, pos + t - 1, ext[t], history \o rows) THEN rows[t] ELSE Junk]

\* no image block reaches into the chunk: causal
Causal(n) == [t \in 1..n |-> -1]

-----------------------------------------------------------------------------
(* PlanPrefillChunks, which cuts a prefill call into chunks from its start *)
(* on, and BuildKlimitExt.  Blocks are [start, end) pairs.                 *)

\* a block the cut would split starts the next chunk, or is this one
ChunkEnd(off, total, blocks, maxRows) ==
  LET cut == IF off + maxRows < total THEN off + maxRows ELSE total
      split == {b \in blocks : b[2] > off /\ b[1] < cut /\ cut < b[2]}
  IN IF split = {} THEN cut
     ELSE LET b == CHOOSE x \in split : TRUE IN IF b[1] > off THEN b[1] ELSE b[2]

\* the last row of the image a row is in, -1 outside of pictures; the chunk,
\* rows chunk[1] + 1 .. chunk[2] of the call, starts at position pos
KlimitExt(pos, chunk, blocks) ==
  [t \in 1..chunk[2] - chunk[1] |->
     LET i == chunk[1] + t - 1
         mine == {b \in blocks : b[1] <= i /\ i < b[2]}
     IN IF mine = {} THEN -1 ELSE pos + (CHOOSE b \in mine : TRUE)[2] - chunk[1] - 1]

-----------------------------------------------------------------------------
(* DflashDraft: [store, injected, validFrom].                              *)

NewDraft == [store |-> EmptyStore(DraftSlots), injected |-> 0, validFrom |-> 0]

\* a start past the frontier is a gap: what is below it is stale
InjectFeatures(d, pos, rows) ==
  [store     |-> Put(d.store, DraftSlots, pos, rows),
   injected  |-> pos + Len(rows),
   validFrom |-> IF pos > d.injected THEN pos ELSE d.validFrom]

\* mutant: forgets that the rows dropped had overwritten older ones
RewindFrontier(d, n) == [d EXCEPT !.injected = n]
Rewind(d, n) ==
  LET oldest == IF d.validFrom > d.injected - DraftSlots
                  THEN d.validFrom ELSE d.injected - DraftSlots
  IN [d EXCEPT !.injected = n, !.validFrom = IF n < oldest THEN n ELSE oldest]

\* the drafter is where the model is, and every row it would read is that row
DraftHolds(d, history) ==
  /\ d.injected = Len(history)
  /\ \A k \in 0..d.injected - 1 :
       k >= d.validFrom /\ k > d.injected - DraftSlots =>
         Has(d.store, DraftSlots, k, history[k + 1])

-----------------------------------------------------------------------------
(* What a ring and the drafter keep between calls, the strengthening the   *)
(* rows of the next call rely on.                                          *)

\* the last window of rows before the frontier is in its slots
RingHolds(ring, history) ==
  \A k \in 0..Len(history) - 1 :
    k + Window >= Len(history) => Has(ring, RingTokens, k, history[k + 1])

\* the drafter holds one row more than it reads: Rewind makes it readable
DraftKeeps(d, history) ==
  /\ d.injected = Len(history)
  /\ \A k \in 0..d.injected - 1 :
       k >= d.validFrom /\ k + DraftSlots >= d.injected =>
         Has(d.store, DraftSlots, k, history[k + 1])
=============================================================================
