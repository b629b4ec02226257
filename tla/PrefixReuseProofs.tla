-------------------------- MODULE PrefixReuseProofs --------------------------
(***************************************************************************)
(* For every set of prompts and pictures, every window, ring, chunk and    *)
(* draft length that Load accepts: the worker loop's reply is computed on  *)
(* exactly the prompt, PrefixState's claims are true between requests, the *)
(* client is shown what was fed, and no request inherits a failure.  The   *)
(* first part is about rings: what a write leaves of the rows before it.   *)
(***************************************************************************)
EXTENDS PrefixReuse, TLAPS, SequenceTheorems, FiniteSetTheorems, WellFoundedInduction

-----------------------------------------------------------------------------
(* Slots.                                                                  *)

(* A remainder is below the divisor.                                       *)
LEMMA SlotRange ==
  ASSUME NEW m \in Nat \ {0}, NEW a \in Nat
  PROVE  a % m \in 0..m - 1
  OBVIOUS

(* Two positions less than a ring apart have slots of their own.           *)
LEMMA SlotsApart ==
  ASSUME NEW m \in Nat \ {0}, NEW a \in Nat, NEW b \in Nat,
         a < b, b < a + m
  PROVE  a % m # b % m
  <1> SUFFICES ASSUME a % m = b % m PROVE FALSE
    OBVIOUS
  <1> DEFINE p == a \div m
             q == b \div m
             r == a % m
  <1>1. /\ p \in Int /\ a = m * p + r
        /\ q \in Int /\ b = m * q + r
        /\ r \in Int /\ m \in Int
    OBVIOUS
  <1> HIDE DEF p, q, r
  <1>2. b - a = m * (q - p)
    <2>1. b - a = m * q - m * p
      BY <1>1
    <2> QED BY <1>1, <2>1
  <1>3. CASE q - p <= 0
    <2>1. m * (q - p) <= 0
      BY <1>1, <1>3
    <2> QED BY <1>2, <2>1
  <1>4. CASE q - p >= 1
    <2> DEFINE k == (q - p) - 1
    <2>1. k \in Nat /\ q - p = k + 1
      BY <1>1, <1>4
    <2> HIDE DEF k
    <2>2. m * (k + 1) = m * k + m /\ m * k >= 0 /\ m * k \in Int
      BY <1>1, <2>1
    <2>3. m * (q - p) = m * k + m
      BY <2>1, <2>2
    <2> QED BY <1>1, <1>2, <2>2, <2>3
  <1> QED BY <1>1, <1>3, <1>4

(* A set of naturals has a least element.                                  *)
LEMMA LeastOf ==
  ASSUME NEW T \in SUBSET Nat, T # {}
  PROVE  \E m \in T : \A n \in T : m <= n
  <1>1. PICK m \in T : \A n \in T : ~(<<n, m>> \in OpToRel(<, Nat))
    BY NatLessThanWellFounded, WFMin
  <1>2. ASSUME NEW n \in T PROVE m <= n
    <2>1. ~(<<n, m>> \in OpToRel(<, Nat))
      BY <1>1
    <2>2. ~(n < m)
      BY <2>1 DEF OpToRel
    <2> QED BY <2>2
  <1> QED BY <1>2

(* The last position written to a slot exists.                             *)
LEMMA LastWritten ==
  ASSUME NEW a \in Nat, NEW b \in Int, NEW T \in SUBSET (a..b), T # {}
  PROVE  Max(T) \in T /\ \A x \in T : x <= Max(T)
  <1> DEFINE far == {b - x : x \in T}
  <1>0. \A x \in T : x \in a..b
    OBVIOUS
  <1>1. far \in SUBSET Nat /\ far # {}
    <2>1. \A x \in T : b - x \in Nat
      BY <1>0
    <2> QED BY <2>1
  <1>2. PICK d \in far : \A e \in far : d <= e
    BY <1>1, LeastOf
  <1>3. PICK y \in T : d = b - y
    BY <1>2
  <1>4. \A x \in T : y >= x
    <2> TAKE x \in T
    <2>1. b - x \in far
      OBVIOUS
    <2>2. b - y <= b - x
      BY <1>2, <1>3, <2>1
    <2>3. x \in Int /\ y \in Int
      BY <1>0
    <2> QED BY <2>2, <2>3
  <1>5. Max(T) \in T /\ \A x \in T : Max(T) >= x
    BY <1>4 DEF Max
  <1> QED BY <1>5

(* The rows a call wrote last, one ring's worth of them, are in their      *)
(* slots.                                                                  *)
LEMMA PutHas ==
  ASSUME NEW m \in Nat \ {0}, NEW store, NEW pos \in Nat, NEW rows, Len(rows) \in Nat,
         NEW k \in Nat, pos <= k, k < pos + Len(rows), pos + Len(rows) <= k + m
  PROVE  Has(Put(store, m, pos, rows), m, k, rows[k - pos + 1])
  <1> DEFINE s == k % m
             mine == {p \in pos..pos + Len(rows) - 1 : p % m = s}
  <1>1. s \in 0..m - 1
    BY SlotRange
  <1>2. k \in mine
    OBVIOUS
  <1>3. \A p \in mine : p <= k
    <2> SUFFICES ASSUME NEW p \in pos..pos + Len(rows) - 1, p % m = s, k < p PROVE FALSE
      <3>1. \A p \in mine : p \in Int /\ p \in pos..pos + Len(rows) - 1 /\ p % m = s
        OBVIOUS
      <3> HIDE DEF mine
      <3> QED BY <3>1
    <2>1. p \in Nat /\ p < k + m
      OBVIOUS
    <2>2. k % m # p % m
      BY <2>1, SlotsApart
    <2> QED BY <2>2
  <1>4. Put(store, m, pos, rows)[s] = IF mine = {} THEN store[s] ELSE <<Max(mine), rows[Max(mine) - pos + 1]>>
    BY <1>1 DEF Put
  <1>5. mine \in SUBSET (pos..pos + Len(rows) - 1) /\ pos + Len(rows) - 1 \in Int
    OBVIOUS
  <1> HIDE DEF mine
  <1>6. Max(mine) = k
    <2>1. Max(mine) \in mine /\ \A x \in mine : x <= Max(mine)
      BY <1>2, <1>5, LastWritten
    <2>2. Max(mine) <= k /\ k <= Max(mine)
      BY <1>2, <1>3, <2>1
    <2>3. Max(mine) \in pos..pos + Len(rows) - 1
      BY <1>5, <2>1
    <2>4. Max(mine) \in Int
      BY <2>3, <1>5
    <2> QED BY <2>2, <2>4
  <1> QED BY <1>2, <1>4, <1>6 DEF Has

(* A row from before the call stays where it is while the call writes no   *)
(* more than the ring holds after it.                                      *)
LEMMA PutKeeps ==
  ASSUME NEW m \in Nat \ {0}, NEW store, NEW pos \in Nat, NEW rows, Len(rows) \in Nat,
         NEW k \in Nat, k < pos, pos + Len(rows) <= k + m
  PROVE  Put(store, m, pos, rows)[k % m] = store[k % m]
  <1> DEFINE s == k % m
             mine == {p \in pos..pos + Len(rows) - 1 : p % m = s}
  <1>1. s \in 0..m - 1
    BY SlotRange
  <1>2. mine = {}
    <2> SUFFICES ASSUME NEW p \in mine PROVE FALSE
      OBVIOUS
    <2>1. p \in Nat /\ k < p /\ p < k + m
      OBVIOUS
    <2>2. k % m # p % m
      BY <2>1, SlotsApart
    <2> QED BY <2>2
  <1>3. Put(store, m, pos, rows)[s] = IF mine = {} THEN store[s] ELSE <<Max(mine), rows[Max(mine) - pos + 1]>>
    BY <1>1 DEF Put
  <1> HIDE DEF mine
  <1> QED BY <1>2, <1>3

(* A write keeps a ring a ring.                                            *)
LEMMA PutType ==
  ASSUME NEW m \in Nat \ {0}, NEW store \in Store(m), NEW pos \in Nat, NEW rows \in History
  PROVE  Put(store, m, pos, rows) \in Store(m)
  <1> SUFFICES ASSUME NEW s \in 0..m - 1
               PROVE  LET mine == {p \in pos..pos + Len(rows) - 1 : p % m = s}
                      IN (IF mine = {} THEN store[s] ELSE <<Max(mine), rows[Max(mine) - pos + 1]>>)
                           \in (Nat \X Row) \cup {Junk}
    BY DEF Put, Store
  <1> DEFINE mine == {p \in pos..pos + Len(rows) - 1 : p % m = s}
  <1>1. CASE mine = {}
    <2>1. store[s] \in (Nat \X Row) \cup {Junk}
      BY DEF Store
    <2> QED BY <1>1, <2>1
  <1>2. CASE mine # {}
    <2>1. Len(rows) \in Nat
      BY DEF History
    <2>2. mine \in SUBSET (pos..pos + Len(rows) - 1) /\ pos + Len(rows) - 1 \in Int
      BY <2>1
    <2> HIDE DEF mine
    <2>3. Max(mine) \in pos..pos + Len(rows) - 1
      BY <1>2, <2>2, LastWritten
    <2> DEFINE i == (Max(mine) - pos) + 1
    <2>4. i \in 1..Len(rows) /\ Max(mine) \in Nat /\ Max(mine) - pos + 1 = i
      BY <2>1, <2>3
    <2>5. rows[i] \in Row
      BY <2>4, ElementOfSeq DEF History
    <2>6. <<Max(mine), rows[Max(mine) - pos + 1]>> \in Nat \X Row
      BY <2>4, <2>5
    <2> QED BY <1>2, <2>6 DEF mine
  <1> QED BY <1>1, <1>2

-----------------------------------------------------------------------------
(* Rings.                                                                  *)

(* The sizes Load checks.                                                  *)
LEMMA Sizes ==
  /\ RingTokens \in Nat \ {0} /\ Window \in Nat \ {0} /\ DraftSlots \in Nat \ {0}
  /\ MaxBlock \in Nat \ {0} /\ Window + MaxBlock <= RingTokens
  /\ \A c \in PrefillChunks : c \in Nat \ {0} /\ Window + c <= RingTokens
  BY RingAssumption, ChunkAssumption DEF RingFits

\* what two histories, one after the other, hold
LEMMA Joined ==
  ASSUME NEW h \in History, NEW rows \in History
  PROVE  /\ h \o rows \in History /\ Len(h \o rows) = Len(h) + Len(rows)
         /\ Len(h) \in Nat /\ Len(rows) \in Nat
         /\ \A i \in 1..Len(h) : (h \o rows)[i] = h[i]
         /\ \A i \in 1..Len(rows) : (h \o rows)[Len(h) + i] = rows[i]
  BY DEF History

\* a prefix of a history
LEMMA Prefixed ==
  ASSUME NEW h \in History, NEW n \in 0..Len(h)
  PROVE  /\ SubSeq(h, 1, n) \in History /\ Len(SubSeq(h, 1, n)) = n
         /\ \A i \in 1..n : SubSeq(h, 1, n)[i] = h[i]
  BY DEF History

(* Writing a chunk that fits, of which the first n rows become history,    *)
(* leaves the last window of that history in its slots: what the rest of   *)
(* the chunk (rejected drafts) overwrites has left the window.             *)
LEMMA WriteHolds ==
  ASSUME NEW h \in History, NEW ring, RingHolds(ring, h),
         NEW rows \in History, Window + Len(rows) <= RingTokens,
         NEW n \in 1..Len(rows)
  PROVE  RingHolds(Put(ring, RingTokens, Len(h), rows), h \o SubSeq(rows, 1, n))
  <1> DEFINE after == h \o SubSeq(rows, 1, n)
             store == Put(ring, RingTokens, Len(h), rows)
             R == RingTokens
  <1>1. Len(h) \in Nat /\ Len(rows) \in Nat /\ n \in Nat /\ n <= Len(rows) /\ n >= 1
    BY DEF History
  <1>2. SubSeq(rows, 1, n) \in History /\ Len(SubSeq(rows, 1, n)) = n
        /\ \A i \in 1..n : SubSeq(rows, 1, n)[i] = rows[i]
    BY <1>1, Prefixed
  <1>3. /\ Len(after) = Len(h) + n
        /\ \A i \in 1..Len(h) : after[i] = h[i]
        /\ \A i \in 1..n : after[Len(h) + i] = rows[i]
    <2> DEFINE new == SubSeq(rows, 1, n)
    <2>1. new \in History /\ Len(new) = n /\ (\A i \in 1..n : new[i] = rows[i]) /\ after = h \o new
      BY <1>2
    <2> HIDE DEF new, after
    <2>2. /\ Len(h \o new) = Len(h) + Len(new)
          /\ \A i \in 1..Len(h) : (h \o new)[i] = h[i]
          /\ \A i \in 1..Len(new) : (h \o new)[Len(h) + i] = new[i]
      BY <2>1, Joined
    <2> QED BY <2>1, <2>2
  <1> HIDE DEF after
  <1> SUFFICES ASSUME NEW k \in 0..(Len(h) + n) - 1, k + Window >= Len(h) + n
               PROVE  Has(store, R, k, after[k + 1])
    BY <1>1, <1>3 DEF RingHolds
  <1>4. k \in Nat /\ k < Len(h) + n
    BY <1>1
  <1>5. CASE k >= Len(h)
    <2> DEFINE i == (k - Len(h)) + 1
    <2>1. i \in 1..n /\ Len(h) + i = k + 1 /\ k - Len(h) + 1 = i
      BY <1>1, <1>4, <1>5
    <2>2. k < Len(h) + Len(rows) /\ Len(h) + Len(rows) <= k + R
      BY <1>1, <1>4, <1>5, Sizes
    <2>3. Has(store, R, k, rows[k - Len(h) + 1])
      BY <1>1, <1>4, <1>5, <2>2, PutHas, Sizes
    <2>4. after[k + 1] = rows[i]
      BY <1>3, <2>1
    <2> QED BY <2>1, <2>3, <2>4
  <1>6. CASE k < Len(h)
    <2>1. k \in 0..Len(h) - 1 /\ k + Window >= Len(h)
      BY <1>1, <1>4, <1>6, Sizes
    <2>2. Has(ring, R, k, h[k + 1])
      BY <2>1 DEF RingHolds
    <2>3. Len(h) + Len(rows) <= k + R
      BY <1>1, <1>4, Sizes
    <2>4. store[k % R] = ring[k % R]
      <3>1. R \in Nat \ {0} /\ Len(h) \in Nat /\ Len(rows) \in Nat /\ k \in Nat
        BY <1>1, <1>4, Sizes
      <3> QED BY <3>1, <1>6, <2>3, PutKeeps
    <2>5. after[k + 1] = h[k + 1]
      BY <1>1, <1>3, <2>1
    <2> QED BY <2>2, <2>4, <2>5 DEF Has
  <1> QED BY <1>1, <1>4, <1>5, <1>6

(* A row whose picture ends in its chunk attends to its window and to      *)
(* nothing else.                                                           *)
LEMMA RowIsExact ==
  ASSUME NEW h \in History, NEW ring, RingHolds(ring, h),
         NEW rows \in History, Window + Len(rows) <= RingTokens,
         NEW ext, NEW t \in 1..Len(rows), ext[t] \in Int, ext[t] < Len(h) + Len(rows)
  PROVE  Computed(h, ring, rows, ext)[t] = rows[t]
  <1> DEFINE after == h \o rows
             store == Put(ring, RingTokens, Len(h), rows)
             q == (Len(h) + t) - 1
             R == RingTokens
  <1>1. Len(h) \in Nat /\ Len(rows) \in Nat /\ t \in Nat /\ t >= 1 /\ t <= Len(rows)
    BY DEF History
  <1>2. /\ Len(after) = Len(h) + Len(rows)
        /\ \A i \in 1..Len(h) : after[i] = h[i]
        /\ \A i \in 1..Len(rows) : after[Len(h) + i] = rows[i]
    BY Joined
  <1>3. Computed(h, ring, rows, ext)[t] = IF Sees(store, q, ext[t], after) THEN rows[t] ELSE Junk
    <2>1. Len(h) + t - 1 = q
      BY <1>1
    <2> QED BY <2>1 DEF Computed
  <1> HIDE DEF after
  <1>4. q \in Nat /\ q >= Len(h) /\ q < Len(h) + Len(rows)
    BY <1>1
  <1> HIDE DEF q
  <1>5. ASSUME NEW k \in LowKey(q)..HighKey(q, ext[t])
        PROVE  k < Len(after) /\ Has(store, R, k, after[k + 1])
    <2>1. k \in Nat /\ k + Window >= q + 1 /\ k < Len(h) + Len(rows)
      BY <1>1, <1>4, Sizes DEF LowKey, HighKey
    <2>2. CASE k >= Len(h)
      <3> DEFINE i == (k - Len(h)) + 1
      <3>1. i \in 1..Len(rows) /\ Len(h) + i = k + 1 /\ k - Len(h) + 1 = i
        BY <1>1, <2>1, <2>2
      <3>2. Len(h) + Len(rows) <= k + R
        BY <1>1, <2>1, <2>2, Sizes
      <3>3. Has(store, R, k, rows[k - Len(h) + 1])
        BY <1>1, <2>1, <2>2, <3>2, PutHas, Sizes
      <3>4. after[k + 1] = rows[i]
        BY <1>2, <3>1
      <3> QED BY <1>2, <2>1, <3>1, <3>3, <3>4
    <2>3. CASE k < Len(h)
      <3>1. k \in 0..Len(h) - 1 /\ k + Window >= Len(h)
        BY <1>1, <1>4, <2>1, <2>3, Sizes
      <3>2. Has(ring, R, k, h[k + 1])
        BY <3>1 DEF RingHolds
      <3>3. Len(h) + Len(rows) <= k + R
        BY <1>1, <1>4, <2>1, Sizes
      <3>4. store[k % R] = ring[k % R]
        BY <1>1, <2>1, <2>3, <3>3, PutKeeps, Sizes
      <3>5. after[k + 1] = h[k + 1]
        BY <1>1, <1>2, <3>1
      <3> QED BY <1>2, <2>1, <3>2, <3>4, <3>5 DEF Has
    <2> QED BY <1>1, <2>1, <2>2, <2>3
  <1>6. Sees(store, q, ext[t], after)
    BY <1>5 DEF Sees
  <1> QED BY <1>3, <1>6

(* What RunChunk computes is one row, or junk, for every row.              *)
LEMMA ComputedType ==
  ASSUME NEW h, NEW ring, NEW rows \in History, NEW ext
  PROVE  /\ Computed(h, ring, rows, ext) \in History
         /\ Len(Computed(h, ring, rows, ext)) = Len(rows)
         /\ DOMAIN Computed(h, ring, rows, ext) = 1..Len(rows)
  <1> DEFINE out == Computed(h, ring, rows, ext)
             Seen(t) == Sees(Put(ring, RingTokens, Len(h), rows), Len(h) + t - 1, ext[t], h \o rows)
  <1>1. Len(rows) \in Nat /\ \A t \in 1..Len(rows) : rows[t] \in Row
    BY ElementOfSeq DEF History
  <1>2. out = [t \in 1..Len(rows) |-> IF Seen(t) THEN rows[t] ELSE Junk]
    BY DEF Computed
  <1> HIDE DEF Seen
  <1>3. \A t \in 1..Len(rows) : out[t] \in Row
    BY <1>1, <1>2 DEF Row
  <1>4. out \in [1..Len(rows) -> Row]
    BY <1>2, <1>3
  <1> HIDE DEF out
  <1>5. out \in History /\ Len(out) = Len(rows) /\ DOMAIN out = 1..Len(rows)
    BY <1>1, <1>4 DEF History
  <1> QED BY <1>5 DEF out

(* A chunk that fits and splits no picture is computed as it was given,    *)
(* and the ring is ready for the next one.                                 *)
LEMMA ChunkIsExact ==
  ASSUME NEW h \in History, NEW ring, RingHolds(ring, h),
         NEW rows \in History, Len(rows) > 0, Window + Len(rows) <= RingTokens,
         NEW ext, \A t \in 1..Len(rows) : ext[t] \in Int /\ ext[t] < Len(h) + Len(rows)
  PROVE  /\ Computed(h, ring, rows, ext) = rows
         /\ RingHolds(Put(ring, RingTokens, Len(h), rows), h \o rows)
  <1>1. Len(rows) \in Nat /\ rows \in Seq(Row) /\ Computed(h, ring, rows, ext) \in Seq(Row)
    BY ComputedType DEF History
  <1>2. \A t \in 1..Len(rows) : Computed(h, ring, rows, ext)[t] = rows[t]
    BY RowIsExact
  <1>3. Computed(h, ring, rows, ext) = rows
    BY <1>1, <1>2, ComputedType, SeqEqual
  <1>4. Len(rows) \in 1..Len(rows) /\ SubSeq(rows, 1, Len(rows)) = rows
    BY <1>1, SubSeqFull
  <1>5. RingHolds(Put(ring, RingTokens, Len(h), rows), h \o rows)
    BY <1>4, WriteHolds
  <1> QED BY <1>3, <1>5

(* The pictures among the rows of a prefill call: in order, whole, none    *)
(* larger than a block of the ring.                                        *)
SoundBlocks(blocks, total) ==
  /\ \A b \in blocks : /\ b[1] \in Nat /\ b[2] \in Nat
                       /\ b[1] < b[2] /\ b[2] <= total /\ b[2] <= b[1] + MaxBlock
  /\ \A b, c \in blocks : b = c \/ b[2] <= c[1] \/ c[2] <= b[1]

\* no picture lies on both sides of a cut
CutsNone(blocks, at) == \A b \in blocks : at <= b[1] \/ b[2] <= at

(* PlanPrefillChunks: a chunk that starts between pictures ends between    *)
(* pictures, is not empty and fits the ring.                               *)
LEMMA ChunkIsWhole ==
  ASSUME NEW blocks, NEW total \in Nat, SoundBlocks(blocks, total),
         NEW start \in Nat, start < total, CutsNone(blocks, start),
         NEW maxRows \in Nat \ {0}, Window + maxRows <= RingTokens
  PROVE  /\ ChunkEnd(start, total, blocks, maxRows) \in Nat
         /\ start < ChunkEnd(start, total, blocks, maxRows)
         /\ ChunkEnd(start, total, blocks, maxRows) <= total
         /\ Window + (ChunkEnd(start, total, blocks, maxRows) - start) <= RingTokens
         /\ CutsNone(blocks, ChunkEnd(start, total, blocks, maxRows))
  <1> DEFINE cut == IF start + maxRows < total THEN start + maxRows ELSE total
             split == {b \in blocks : b[2] > start /\ b[1] < cut /\ cut < b[2]}
             b == CHOOSE x \in split : TRUE
             end == ChunkEnd(start, total, blocks, maxRows)
  <1>1. /\ cut \in Nat /\ start < cut /\ cut <= total /\ cut <= start + maxRows
    OBVIOUS
  <1>2. end = IF split = {} THEN cut ELSE IF b[1] > start THEN b[1] ELSE b[2]
    BY DEF ChunkEnd
  <1> HIDE DEF cut, end
  <1>3. CASE split = {}
    <2>1. end = cut
      BY <1>2, <1>3
    <2>2. \A c \in blocks : ~(c[2] > start /\ c[1] < cut /\ cut < c[2])
      BY <1>3
    <2>3. CutsNone(blocks, end)
      <3> SUFFICES ASSUME NEW c \in blocks PROVE cut <= c[1] \/ c[2] <= cut
        BY <2>1 DEF CutsNone
      <3>1. c[1] \in Nat /\ c[2] \in Nat
        BY DEF SoundBlocks
      <3> QED BY <1>1, <2>2, <3>1
    <2> QED BY <1>1, <2>1, <2>3, Sizes DEF end
  <1>4. CASE split # {}
    <2>1. b \in blocks /\ b[2] > start /\ b[1] < cut /\ cut < b[2]
      BY <1>4
    <2> HIDE DEF b
    <2>2. b[1] \in Nat /\ b[2] \in Nat /\ b[1] < b[2] /\ b[2] <= total /\ b[2] <= b[1] + MaxBlock
      BY <2>1 DEF SoundBlocks
    <2>3. start <= b[1]
      BY <2>1, <2>2 DEF CutsNone
    <2>4. end = IF b[1] > start THEN b[1] ELSE b[2]
      BY <1>2, <1>4
    <2>5. CutsNone(blocks, end)
      <3> SUFFICES ASSUME NEW c \in blocks PROVE end <= c[1] \/ c[2] <= end
        BY DEF CutsNone
      <3>1. c = b \/ b[2] <= c[1] \/ c[2] <= b[1]
        BY <2>1 DEF SoundBlocks
      <3>2. c[1] \in Nat /\ c[2] \in Nat
        BY DEF SoundBlocks
      <3> QED BY <2>2, <2>4, <3>1, <3>2
    <2> QED BY <1>1, <2>1, <2>2, <2>3, <2>4, <2>5, Sizes DEF end
  <1> QED BY <1>3, <1>4 DEF end

(* BuildKlimitExt: no row of such a chunk attends past the chunk.          *)
LEMMA ExtInChunk ==
  ASSUME NEW blocks, NEW total \in Nat, SoundBlocks(blocks, total),
         NEW start \in Nat, NEW end \in Nat, start < end, CutsNone(blocks, end),
         NEW pos \in Nat, NEW t \in 1..end - start
  PROVE  /\ KlimitExt(pos, <<start, end>>, blocks)[t] \in Int
         /\ KlimitExt(pos, <<start, end>>, blocks)[t] < pos + (end - start)
  <1> DEFINE i == start + t - 1
             mine == {b \in blocks : b[1] <= i /\ i < b[2]}
             b == CHOOSE x \in mine : TRUE
             ext == KlimitExt(pos, <<start, end>>, blocks)
  <1>1. ext[t] = IF mine = {} THEN -1 ELSE pos + b[2] - start - 1
    BY DEF KlimitExt
  <1>2. i \in Nat /\ i < end
    OBVIOUS
  <1> HIDE DEF i, ext
  <1>3. CASE mine = {}
    BY <1>1, <1>3 DEF ext
  <1>4. CASE mine # {}
    <2>1. b \in blocks /\ b[1] <= i /\ i < b[2]
      BY <1>4
    <2> HIDE DEF b
    <2>2. b[1] \in Nat /\ b[2] \in Nat
      BY <2>1 DEF SoundBlocks
    <2>3. b[2] <= end
      BY <1>2, <2>1, <2>2 DEF CutsNone
    <2>4. ext[t] = pos + b[2] - start - 1
      BY <1>1, <1>4
    <2> QED BY <2>2, <2>3, <2>4 DEF ext
  <1> QED BY <1>3, <1>4

-----------------------------------------------------------------------------
(* The drafter.                                                            *)

Draft == [store : Store(DraftSlots), injected : Nat, validFrom : Nat]

(* Injecting the rows the model appends keeps the drafter at the model's   *)
(* frontier, with a full ring of true rows behind it.                      *)
LEMMA InjectKeeps ==
  ASSUME NEW h \in History, NEW rows \in History, NEW d \in Draft, DraftKeeps(d, h)
  PROVE  DraftKeeps(InjectFeatures(d, Len(h), rows), h \o rows)
  <1> DEFINE after == h \o rows
             e == InjectFeatures(d, Len(h), rows)
             D == DraftSlots
  <1>1. Len(h) \in Nat /\ Len(rows) \in Nat /\ D \in Nat \ {0}
    BY Sizes DEF History
  <1>2. d.injected = Len(h) /\ d.validFrom \in Nat
    BY DEF DraftKeeps, Draft
  <1>3. /\ e.store = Put(d.store, D, Len(h), rows)
        /\ e.injected = Len(h) + Len(rows) /\ e.validFrom = d.validFrom
    BY <1>1, <1>2 DEF InjectFeatures
  <1>4. /\ Len(after) = Len(h) + Len(rows)
        /\ \A i \in 1..Len(h) : after[i] = h[i]
        /\ \A i \in 1..Len(rows) : after[Len(h) + i] = rows[i]
    BY Joined
  <1> HIDE DEF after, e
  <1>5. ASSUME NEW k \in 0..e.injected - 1, k >= e.validFrom, k + D >= e.injected
        PROVE  Has(e.store, D, k, after[k + 1])
    <2>1. k \in Nat /\ k < Len(h) + Len(rows) /\ Len(h) + Len(rows) <= k + D
      BY <1>1, <1>3, <1>5
    <2>2. CASE k >= Len(h)
      <3> DEFINE i == (k - Len(h)) + 1
      <3>1. i \in 1..Len(rows) /\ Len(h) + i = k + 1 /\ k - Len(h) + 1 = i
        BY <1>1, <2>1, <2>2
      <3>2. Has(e.store, D, k, rows[k - Len(h) + 1])
        BY <1>1, <1>3, <2>1, <2>2, PutHas
      <3>3. after[k + 1] = rows[i]
        BY <1>4, <3>1
      <3> QED BY <3>1, <3>2, <3>3
    <2>3. CASE k < Len(h)
      <3>1. k \in 0..d.injected - 1 /\ k >= d.validFrom /\ k + D >= d.injected
        BY <1>1, <1>2, <1>3, <1>5, <2>1, <2>3
      <3>2. Has(d.store, D, k, h[k + 1])
        BY <3>1 DEF DraftKeeps
      <3>3. e.store[k % D] = d.store[k % D]
        BY <1>1, <1>3, <2>1, <2>3, PutKeeps
      <3>4. after[k + 1] = h[k + 1]
        BY <1>1, <1>4, <2>1, <2>3
      <3> QED BY <3>2, <3>3, <3>4 DEF Has
    <2> QED BY <1>1, <2>1, <2>2, <2>3
  <1>6. e.injected = Len(after)
    BY <1>3, <1>4
  <1> QED BY <1>5, <1>6 DEF DraftKeeps, after, e

(* Rewinding to a position of the history: what the dropped rows had       *)
(* overwritten lies below the new valid_from.                              *)
LEMMA RewindKeeps ==
  ASSUME NEW h \in History, NEW d \in Draft, DraftKeeps(d, h), NEW n \in 0..Len(h)
  PROVE  DraftKeeps(Rewind(d, n), SubSeq(h, 1, n))
  <1> DEFINE oldest == IF d.validFrom > d.injected - DraftSlots
                         THEN d.validFrom ELSE d.injected - DraftSlots
             e == Rewind(d, n)
             D == DraftSlots
  <1>1. Len(h) \in Nat /\ D \in Nat \ {0} /\ n \in Nat /\ n <= Len(h)
    BY Sizes DEF History
  <1>2. d.injected = Len(h) /\ d.validFrom \in Nat
    BY DEF DraftKeeps, Draft
  <1>3. /\ e.store = d.store /\ e.injected = n
        /\ e.validFrom = IF n < oldest THEN n ELSE oldest
    BY DEF Rewind, Draft
  <1>4. Len(SubSeq(h, 1, n)) = n /\ \A i \in 1..n : SubSeq(h, 1, n)[i] = h[i]
    BY <1>1, Prefixed
  <1> HIDE DEF e
  <1>5. ASSUME NEW k \in 0..e.injected - 1, k >= e.validFrom, k + D >= e.injected
        PROVE  Has(e.store, D, k, SubSeq(h, 1, n)[k + 1])
    <2>1. k \in Nat /\ k < n /\ k >= oldest
      BY <1>1, <1>2, <1>3, <1>5
    <2>2. k \in 0..d.injected - 1 /\ k >= d.validFrom /\ k + D >= d.injected
      BY <1>1, <1>2, <2>1
    <2>3. Has(d.store, D, k, h[k + 1])
      BY <2>2 DEF DraftKeeps
    <2>4. SubSeq(h, 1, n)[k + 1] = h[k + 1]
      BY <1>1, <1>4, <2>1
    <2> QED BY <1>3, <2>3, <2>4
  <1> QED BY <1>3, <1>4, <1>5 DEF DraftKeeps, e

(* The drafter's type.                                                     *)
LEMMA DraftType ==
  ASSUME NEW d \in Draft
  PROVE  /\ \A pos \in Nat, rows \in History : InjectFeatures(d, pos, rows) \in Draft
         /\ \A n \in Nat : Rewind(d, n) \in Draft
         /\ NewDraft \in Draft
         /\ [d EXCEPT !.store = EmptyStore(DraftSlots)] \in Draft
  <1>1. DraftSlots \in Nat \ {0}
    BY Sizes
  <1>2. d.store \in Store(DraftSlots) /\ d.injected \in Nat /\ d.validFrom \in Nat
    BY DEF Draft
  <1>3. EmptyStore(DraftSlots) \in Store(DraftSlots)
    BY DEF EmptyStore, Store
  <1>4. ASSUME NEW pos \in Nat, NEW rows \in History
        PROVE  InjectFeatures(d, pos, rows) \in Draft
    <2>1. Put(d.store, DraftSlots, pos, rows) \in Store(DraftSlots)
      BY <1>1, <1>2, PutType
    <2>2. pos + Len(rows) \in Nat
      BY DEF History
    <2> QED BY <1>2, <2>1, <2>2 DEF InjectFeatures, Draft
  <1>5. ASSUME NEW n \in Nat PROVE Rewind(d, n) \in Draft
    <2> DEFINE oldest == IF d.validFrom > d.injected - DraftSlots
                           THEN d.validFrom ELSE d.injected - DraftSlots
               from == IF n < oldest THEN n ELSE oldest
    <2>1. from \in Nat
      BY <1>1, <1>2
    <2>2. Rewind(d, n) = [d EXCEPT !.injected = n, !.validFrom = from]
      BY DEF Rewind
    <2> HIDE DEF from
    <2> QED BY <1>2, <2>1, <2>2 DEF Draft
  <1>6. NewDraft \in Draft
    BY <1>3 DEF NewDraft, Draft
  <1>7. [d EXCEPT !.store = EmptyStore(DraftSlots)] \in Draft
    BY <1>3 DEF Draft
  <1> QED BY <1>4, <1>5, <1>6, <1>7

-----------------------------------------------------------------------------
(* Histories of prompts.                                                   *)

(* Splicing puts pieces of pictures at a position.                         *)
LEMMA PiecesType ==
  ASSUME NEW images \in Seq(Key), NEW i \in Nat
  PROVE  PiecesAt(images, i) \in Pieces
  <1> SUFFICES ASSUME NEW n \in 1..Len(images), images[n].offset < i
               PROVE  <<images[n].hash, i - images[n].offset>> \in Hash \X Nat
    BY DEF PiecesAt, Pieces
  <1>1. images[n] \in Key
    BY ElementOfSeq
  <1>2. images[n].hash \in Hash /\ images[n].offset \in Nat
    BY <1>1 DEF Key
  <1> QED BY <1>2

\* the history of a prompt has a row for each token
LEMMA ContentType ==
  ASSUME NEW toks \in Seq(Token), NEW images \in Seq(Key)
  PROVE  /\ Content(toks, images) \in History
         /\ Len(Content(toks, images)) = Len(toks) /\ Len(toks) \in Nat
         /\ \A i \in 1..Len(toks) : Content(toks, images)[i] = <<toks[i], PiecesAt(images, i)>>
  <1> DEFINE c == Content(toks, images)
  <1>1. Len(toks) \in Nat /\ \A i \in 1..Len(toks) : toks[i] \in Token
    BY ElementOfSeq
  <1>2. \A i \in 1..Len(toks) : PiecesAt(images, i) \in Pieces
    BY <1>1, PiecesType
  <1>3. c = [i \in 1..Len(toks) |-> <<toks[i], PiecesAt(images, i)>>]
    BY DEF Content
  <1>4. c \in [1..Len(toks) -> Row]
    <2>1. \A i \in 1..Len(toks) : <<toks[i], PiecesAt(images, i)>> \in Row
      BY <1>1, <1>2 DEF Row
    <2> QED BY <1>3, <2>1
  <1>5. \A i \in 1..Len(toks) : c[i] = <<toks[i], PiecesAt(images, i)>>
    BY <1>3
  <1> HIDE DEF c
  <1>6. c \in History /\ Len(c) = Len(toks)
    BY <1>1, <1>4 DEF History
  <1> QED BY <1>1, <1>5, <1>6 DEF c

\* and so has that of decoded tokens
LEMMA PlainType ==
  ASSUME NEW toks \in Seq(Token)
  PROVE  /\ Plain(toks) \in History
         /\ Len(Plain(toks)) = Len(toks) /\ Len(toks) \in Nat
         /\ \A i \in 1..Len(toks) : Plain(toks)[i] = <<toks[i], {}>>
  <1> DEFINE c == Plain(toks)
  <1>1. Len(toks) \in Nat /\ \A i \in 1..Len(toks) : toks[i] \in Token
    BY ElementOfSeq
  <1>2. c = [i \in 1..Len(toks) |-> <<toks[i], {}>>]
    BY DEF Plain
  <1>3. c \in [1..Len(toks) -> Row] /\ \A i \in 1..Len(toks) : c[i] = <<toks[i], {}>>
    BY <1>1, <1>2 DEF Row, Pieces
  <1> HIDE DEF c
  <1>4. c \in History /\ Len(c) = Len(toks)
    BY <1>1, <1>3 DEF History
  <1> QED BY <1>1, <1>3, <1>4 DEF c

\* equal length, equal rows
LEMMA SameHistory ==
  ASSUME NEW g \in History, NEW h \in History, Len(g) = Len(h),
         \A i \in 1..Len(g) : g[i] = h[i]
  PROVE  g = h
  BY SeqEqual DEF History

\* decoding one token after another
LEMMA PlainJoin ==
  ASSUME NEW a \in Seq(Token), NEW b \in Seq(Token)
  PROVE  Plain(a \o b) = Plain(a) \o Plain(b)
  <1>1. a \o b \in Seq(Token) /\ Len(a \o b) = Len(a) + Len(b) /\ Len(a) \in Nat /\ Len(b) \in Nat
        /\ (\A i \in 1..Len(a) : (a \o b)[i] = a[i])
        /\ (\A i \in Len(a) + 1..Len(a) + Len(b) : (a \o b)[i] = b[i - Len(a)])
    OBVIOUS
  <1>2. Plain(a) \in History /\ Plain(b) \in History /\ Plain(a \o b) \in History
        /\ Len(Plain(a)) = Len(a) /\ Len(Plain(b)) = Len(b) /\ Len(Plain(a \o b)) = Len(a) + Len(b)
    BY <1>1, PlainType
  <1>3. /\ Plain(a) \o Plain(b) \in History
        /\ Len(Plain(a) \o Plain(b)) = Len(a) + Len(b)
        /\ \A i \in 1..Len(a) : (Plain(a) \o Plain(b))[i] = Plain(a)[i]
        /\ \A i \in 1..Len(b) : (Plain(a) \o Plain(b))[Len(a) + i] = Plain(b)[i]
    <2> DEFINE pa == Plain(a)
               pb == Plain(b)
    <2> HIDE DEF pa, pb
    <2>1. pa \in History /\ pb \in History /\ Len(pa) = Len(a) /\ Len(pb) = Len(b)
      BY <1>2 DEF pa, pb
    <2>2. /\ pa \o pb \in History /\ Len(pa \o pb) = Len(pa) + Len(pb)
          /\ \A i \in 1..Len(pa) : (pa \o pb)[i] = pa[i]
          /\ \A i \in 1..Len(pb) : (pa \o pb)[Len(pa) + i] = pb[i]
      BY <2>1, Joined
    <2> QED BY <2>1, <2>2 DEF pa, pb
  <1>4. ASSUME NEW i \in 1..Len(a) + Len(b)
        PROVE  Plain(a \o b)[i] = (Plain(a) \o Plain(b))[i]
    <2>1. Plain(a \o b)[i] = <<(a \o b)[i], {}>>
      BY <1>1, PlainType
    <2>2. CASE i <= Len(a)
      <3>1. i \in 1..Len(a)
        BY <1>1, <2>2
      <3>2. Plain(a)[i] = <<a[i], {}>>
        BY <3>1, PlainType
      <3> QED BY <1>1, <1>3, <2>1, <3>1, <3>2
    <2>3. CASE i > Len(a)
      <3> DEFINE j == i - Len(a)
      <3>1. j \in 1..Len(b) /\ Len(a) + j = i /\ i \in Len(a) + 1..Len(a) + Len(b)
        BY <1>1, <2>3
      <3> HIDE DEF j
      <3>2. Plain(b)[j] = <<b[j], {}>>
        BY <3>1, PlainType
      <3>3. (a \o b)[i] = b[j]
        BY <1>1, <3>1 DEF j
      <3>4. (Plain(a) \o Plain(b))[i] = Plain(b)[j]
        BY <1>3, <3>1
      <3> QED BY <2>1, <3>2, <3>3, <3>4
    <2>4. i <= Len(a) \/ i > Len(a)
      BY <1>1
    <2> QED BY <2>2, <2>3, <2>4
  <1> QED BY <1>2, <1>3, <1>4, SameHistory

\* the history of the first n tokens
LEMMA ContentPrefix ==
  ASSUME NEW toks \in Seq(Token), NEW images \in Seq(Key), NEW n \in 0..Len(toks)
  PROVE  SubSeq(Content(toks, images), 1, n) = Content(SubSeq(toks, 1, n), images)
  <1> DEFINE head == SubSeq(toks, 1, n)
             c == Content(toks, images)
  <1>1. head \in Seq(Token) /\ Len(head) = n /\ \A i \in 1..n : head[i] = toks[i]
    OBVIOUS
  <1>2. c \in History /\ Len(c) = Len(toks) /\ \A i \in 1..Len(toks) : c[i] = <<toks[i], PiecesAt(images, i)>>
    BY ContentType
  <1> HIDE DEF head, c
  <1>3. /\ SubSeq(c, 1, n) \in History /\ Len(SubSeq(c, 1, n)) = n
        /\ \A i \in 1..n : SubSeq(c, 1, n)[i] = c[i]
    BY <1>2, Prefixed
  <1>4. Content(head, images) \in History /\ Len(Content(head, images)) = n
        /\ \A i \in 1..n : Content(head, images)[i] = <<head[i], PiecesAt(images, i)>>
    BY <1>1, ContentType
  <1>5. \A i \in 1..n : SubSeq(c, 1, n)[i] = Content(head, images)[i]
    <2> TAKE i \in 1..n
    <2>1. i \in 1..Len(toks)
      OBVIOUS
    <2> QED BY <1>1, <1>2, <1>3, <1>4, <2>1
  <1>6. SubSeq(c, 1, n) = Content(head, images)
    BY <1>3, <1>4, <1>5, SameHistory
  <1> QED BY <1>6 DEF head, c

(* What TailAfter compares - tokens, picture keys and where new pictures   *)
(* start - is enough for the prompt's history to begin with the prefix's.  *)
LEMMA TailContent ==
  ASSUME NEW prefix \in Seq(Token), NEW p \in Request, fedImages \in Seq(Key),
         TailAfter(prefix, p)
  PROVE  /\ Len(prefix) < Len(p.toks) /\ Len(prefix) \in Nat
         /\ prefix = SubSeq(p.toks, 1, Len(prefix))
         /\ SubSeq(Content(p.toks, p.images), 1, Len(prefix)) = Content(prefix, fedImages)
  <1> DEFINE n == Len(prefix)
  <1>1. p.toks \in Seq(Token) /\ p.images \in Seq(Key)
    BY DEF Request
  <1>2. /\ n < Len(p.toks) /\ SubSeq(p.toks, 1, n) = prefix
        /\ Len(p.images) >= Len(fedImages)
        /\ SubSeq(p.images, 1, Len(fedImages)) = fedImages
        /\ \A j \in Len(fedImages) + 1 .. Len(p.images) : p.images[j].offset >= n
    BY DEF TailAfter
  <1>3. n \in Nat /\ Len(p.toks) \in Nat /\ Len(p.images) \in Nat /\ Len(fedImages) \in Nat
    BY <1>1
  <1>4. \A j \in 1..Len(fedImages) : p.images[j] = fedImages[j]
    BY <1>1, <1>2, <1>3
  <1>5. \A j \in 1..Len(p.images) : p.images[j].offset \in Nat
    <2> TAKE j \in 1..Len(p.images)
    <2>1. p.images[j] \in Key
      BY <1>1, ElementOfSeq
    <2> QED BY <2>1 DEF Key
  <1>6. \A i \in 1..n : PiecesAt(p.images, i) = PiecesAt(fedImages, i)
    <2> TAKE i \in 1..n
    <2> DEFINE at(s) == {m \in 1..Len(s) : s[m].offset < i /\ i <= s[m].offset + Span[s[m].hash]}
    <2>1. \A m \in at(p.images) : m \in 1..Len(fedImages)
      BY <1>2, <1>3, <1>5
    <2>2. at(p.images) = at(fedImages)
      BY <1>2, <1>3, <1>4, <2>1
    <2>3. \A m \in at(fedImages) : p.images[m] = fedImages[m]
      BY <1>4
    <2>4. PiecesAt(p.images, i) = {<<p.images[j].hash, i - p.images[j].offset>> : j \in at(p.images)}
          /\ PiecesAt(fedImages, i) = {<<fedImages[j].hash, i - fedImages[j].offset>> : j \in at(fedImages)}
      BY DEF PiecesAt
    <2> HIDE DEF at
    <2> QED BY <2>2, <2>3, <2>4
  <1>7. SubSeq(Content(p.toks, p.images), 1, n) = Content(prefix, p.images)
    <2>1. n \in 0..Len(p.toks)
      BY <1>2, <1>3
    <2>2. SubSeq(Content(p.toks, p.images), 1, n) = Content(SubSeq(p.toks, 1, n), p.images)
      BY <1>1, <2>1, ContentPrefix
    <2> QED BY <1>2, <2>2
  <1>8. Content(prefix, p.images) = Content(prefix, fedImages)
    BY <1>6 DEF Content
  <1> QED BY <1>2, <1>3, <1>7, <1>8

(* The tokens decoded after a prompt carry no picture.                     *)
LEMMA CommitContent ==
  ASSUME NEW p \in Prompts, NEW more \in Seq(Token)
  PROVE  Content(p.toks \o more, p.images) = Content(p.toks, p.images) \o Plain(more)
  <1> DEFINE a == p.toks
             c == Content(p.toks, p.images)
             d == Plain(more)
             e == Content(p.toks \o more, p.images)
             n == Len(a)
             m == Len(more)
  <1>1. a \in Seq(Token) /\ p.images \in Seq(Key)
    BY PromptsAssumption DEF Request
  <1>2. /\ a \o more \in Seq(Token) /\ Len(a \o more) = n + m /\ n \in Nat /\ m \in Nat
        /\ \A i \in 1..n : (a \o more)[i] = a[i]
        /\ \A i \in n + 1..n + m : (a \o more)[i] = more[i - n]
    BY <1>1
  <1>3. c \in History /\ Len(c) = n /\ \A i \in 1..n : c[i] = <<a[i], PiecesAt(p.images, i)>>
    BY <1>1, ContentType
  <1>4. d \in History /\ Len(d) = m /\ \A i \in 1..m : d[i] = <<more[i], {}>>
    BY PlainType
  <1>5. /\ e \in History /\ Len(e) = n + m
        /\ \A i \in 1..n + m : e[i] = <<(a \o more)[i], PiecesAt(p.images, i)>>
    BY <1>1, <1>2, ContentType
  <1>6. \A i \in n + 1..n + m : PiecesAt(p.images, i) = {}
    <2> SUFFICES ASSUME NEW i \in n + 1..n + m, NEW j \in 1..Len(p.images),
                        i <= p.images[j].offset + Span[p.images[j].hash]
                 PROVE  FALSE
      BY DEF PiecesAt
    <2>1. p.images[j].offset + Span[p.images[j].hash] <= n
      BY PromptsAssumption
    <2>2. p.images[j] \in Key
      BY <1>1, ElementOfSeq
    <2>3. p.images[j].offset \in Nat /\ Span[p.images[j].hash] \in Nat
      BY <2>2, BoundAssumption DEF Key
    <2> DEFINE last == p.images[j].offset + Span[p.images[j].hash]
    <2>4. last \in Nat /\ last <= n /\ i <= last
      BY <2>1, <2>3
    <2> HIDE DEF last
    <2> QED BY <1>2, <2>4
  <1> HIDE DEF c, d, e
  <1>7. /\ c \o d \in History /\ Len(c \o d) = n + m
        /\ \A i \in 1..n : (c \o d)[i] = c[i]
        /\ \A i \in 1..m : (c \o d)[n + i] = d[i]
    <2>1. /\ c \o d \in History /\ Len(c \o d) = Len(c) + Len(d)
          /\ \A i \in 1..Len(c) : (c \o d)[i] = c[i]
          /\ \A i \in 1..Len(d) : (c \o d)[Len(c) + i] = d[i]
      BY <1>3, <1>4, Joined
    <2> HIDE DEF a, n, m
    <2> QED BY <1>3, <1>4, <2>1
  <1> HIDE DEF a, n, m
  <1>8. ASSUME NEW i \in 1..n + m PROVE e[i] = (c \o d)[i]
    <2>1. i <= n \/ i > n
      BY <1>2
    <2>2. CASE i <= n
      <3>1. i \in 1..n
        BY <1>2, <2>2
      <3>2. e[i] = <<a[i], PiecesAt(p.images, i)>>
        BY <1>2, <1>5, <3>1
      <3>3. (c \o d)[i] = <<a[i], PiecesAt(p.images, i)>>
        BY <1>3, <1>7, <3>1
      <3> QED BY <3>2, <3>3
    <2>3. CASE i > n
      <3> DEFINE j == i - n
      <3>1. j \in 1..m /\ n + j = i /\ i \in n + 1..n + m
        BY <1>2, <2>3
      <3>2. e[i] = <<more[j], {}>>
        BY <1>2, <1>5, <1>6, <3>1
      <3> HIDE DEF j
      <3>3. (c \o d)[i] = d[j] /\ d[j] = <<more[j], {}>>
        BY <1>4, <1>7, <3>1
      <3> QED BY <3>2, <3>3
    <2> QED BY <2>1, <2>2, <2>3
  <1>9. e = c \o d
    BY <1>5, <1>7, <1>8, SameHistory
  <1> QED BY <1>9 DEF a, c, d, e, n, m

-----------------------------------------------------------------------------
(* The request being run.                                                  *)

(* A prompt's tokens and pictures.                                         *)
LEMMA PromptFacts ==
  ASSUME NEW p \in Prompts
  PROVE  /\ p \in Request /\ p.toks \in Seq(Token) /\ p.images \in Seq(Key) /\ p.back \in Nat
         /\ Len(p.toks) \in Nat \ {0} /\ p.back < Len(p.toks) /\ Len(p.toks) <= MaxCtx
         /\ \A j \in 1..Len(p.images) :
              /\ p.images[j].offset \in Nat /\ p.images[j].hash \in Hash
              /\ Span[p.images[j].hash] \in Nat \ {0}
              /\ p.images[j].offset + Span[p.images[j].hash] <= Len(p.toks)
  <1>1. p \in Request /\ p.toks \in Seq(Token) /\ p.images \in Seq(Key) /\ p.back \in Nat
    BY PromptsAssumption DEF Request
  <1>2. Len(p.toks) \in 1..MaxCtx /\ p.back < Len(p.toks) /\ MaxCtx \in Nat
    BY PromptsAssumption, BoundAssumption
  <1>3. ASSUME NEW j \in 1..Len(p.images)
        PROVE  /\ p.images[j].offset \in Nat /\ p.images[j].hash \in Hash
               /\ Span[p.images[j].hash] \in Nat \ {0}
               /\ p.images[j].offset + Span[p.images[j].hash] <= Len(p.toks)
    <2>1. p.images[j] \in Key
      BY <1>1, ElementOfSeq
    <2>2. p.images[j].offset \in Nat /\ p.images[j].hash \in Hash
      BY <2>1 DEF Key
    <2>3. Span[p.images[j].hash] \in Nat \ {0}
      BY <2>2, BoundAssumption
    <2>4. p.images[j].offset + Span[p.images[j].hash] <= Len(p.toks)
      BY PromptsAssumption
    <2> QED BY <2>2, <2>3, <2>4
  <1> QED BY <1>1, <1>2, <1>3

(* Pictures stand in the prompt in the order of its keys: each ends before *)
(* any later one starts, not only the next.                                *)
LEMMA PicturesInOrder ==
  ASSUME NEW p \in Prompts, NEW i \in 1..Len(p.images), NEW j \in 1..Len(p.images), i < j
  PROVE  p.images[i].offset + Span[p.images[i].hash] <= p.images[j].offset
  <1> DEFINE from(x) == p.images[x].offset
             to(x) == p.images[x].offset + Span[p.images[x].hash]
             bad == {x \in i + 1..Len(p.images) : ~(to(i) <= from(x))}
  <1>1. Len(p.images) \in Nat /\ i \in Nat /\ j \in Nat
    BY PromptFacts
  <1>2. \A x \in 1..Len(p.images) : from(x) \in Nat /\ to(x) \in Nat /\ from(x) <= to(x)
    <2> TAKE x \in 1..Len(p.images)
    <2>1. p.images[x].offset \in Nat /\ Span[p.images[x].hash] \in Nat
      BY PromptFacts
    <2> QED BY <2>1
  <1>3. \A x \in 2..Len(p.images) : to(x - 1) <= from(x)
    <2> TAKE x \in 2..Len(p.images)
    <2>1. x \in 1..Len(p.images) /\ x > 1 /\ x - 1 \in 1..Len(p.images)
      BY <1>1
    <2>2. p.images[x].offset >= p.images[x - 1].offset + Span[p.images[x - 1].hash]
      BY <2>1, PromptsAssumption
    <2> QED BY <1>2, <2>1, <2>2
  <1> HIDE DEF from, to
  <1>4. SUFFICES ASSUME bad # {} PROVE FALSE
    <2>1. j \in i + 1..Len(p.images)
      BY <1>1
    <2>2. to(i) <= from(j)
      BY <1>4, <2>1
    <2> QED BY <2>2 DEF from, to
  <1>5. bad \in SUBSET Nat
    BY <1>1
  <1>6. PICK x \in bad : \A y \in bad : x <= y
    BY <1>4, <1>5, LeastOf
  <1>7. x \in 2..Len(p.images) /\ x > i /\ ~(to(i) <= from(x))
    BY <1>1, <1>6
  <1>8. to(x - 1) <= from(x) /\ x - 1 \in 1..Len(p.images) /\ x \in 1..Len(p.images)
    BY <1>1, <1>3, <1>7
  <1>9. to(i) <= to(x - 1)
    <2>1. CASE x - 1 = i
      BY <1>2, <1>8, <2>1
    <2>2. CASE x - 1 # i
      <3>1. x - 1 \in i + 1..Len(p.images) /\ ~(x <= x - 1)
        BY <1>1, <1>7, <2>2
      <3>2. to(i) <= from(x - 1)
        BY <1>6, <3>1
      <3>3. to(i) \in Nat /\ from(x - 1) \in Nat /\ to(x - 1) \in Nat /\ from(x - 1) <= to(x - 1)
        BY <1>2, <1>8
      <3> QED BY <3>2, <3>3
    <2> QED BY <2>1, <2>2
  <1> QED BY <1>2, <1>7, <1>8, <1>9

(* The tokens held back are text: every picture lies in the first half.    *)
LEMMA BackFacts ==
  ASSUME req \in Prompts, skip \in Nat, skip < Len(req.toks)
  PROVE  /\ Back \in Nat /\ SplitAt \in Nat /\ SplitAt = Len(req.toks) - Back
         /\ skip < SplitAt /\ SplitAt <= Len(req.toks)
         /\ Back > 0 => PromptCheckpoint /\ ~TailTooShort
         /\ \A j \in 1..Len(req.images) :
              req.images[j].offset + Span[req.images[j].hash] <= SplitAt
  <1>1. /\ req.back \in Nat /\ Len(req.toks) \in Nat /\ req.back < Len(req.toks)
        /\ \A j \in 1..Len(req.images) :
             /\ req.images[j].offset \in Nat
             /\ Span[req.images[j].hash] \in Nat \ {0}
             /\ req.images[j].offset + Span[req.images[j].hash] <= Len(req.toks)
    BY PromptFacts
  <1>2. Back \in {0, req.back} /\ (Back > 0 => PromptCheckpoint /\ ~TailTooShort)
    BY DEF Back
  <1>3. Back > 0 => skip < Len(req.toks) - Back
    BY <1>1, <1>2 DEF Back, TailTooShort, TailLen
  <1>4. ASSUME NEW j \in 1..Len(req.images)
        PROVE  req.images[j].offset + Span[req.images[j].hash] <= Len(req.toks) - req.back
    <2> DEFINE last == req.images[j].offset + Span[req.images[j].hash]
    <2>1. Span[req.images[j].hash] \in 1..Span[req.images[j].hash] /\ last \in Nat /\ last <= Len(req.toks)
      BY <1>1
    <2>2. req.toks[last] = Pad
      BY <2>1, PromptsAssumption
    <2>3. ~(last \in Len(req.toks) - req.back + 1 .. Len(req.toks))
      BY <2>2, PromptsAssumption, TokenAssumption
    <2> QED BY <1>1, <2>1, <2>3
  <1>5. Back \in Nat /\ SplitAt \in Nat /\ SplitAt = Len(req.toks) - Back /\ skip < SplitAt
        /\ SplitAt <= Len(req.toks) /\ Len(req.toks) - req.back <= SplitAt
    BY <1>1, <1>2, <1>3 DEF SplitAt
  <1>6. ASSUME NEW j \in 1..Len(req.images)
        PROVE  req.images[j].offset + Span[req.images[j].hash] <= SplitAt
    <2> DEFINE last == req.images[j].offset + Span[req.images[j].hash]
    <2>1. last \in Nat /\ last <= Len(req.toks) - req.back
      BY <1>1, <1>4
    <2> HIDE DEF last
    <2>2. last <= SplitAt
      BY <1>1, <1>5, <2>1
    <2> QED BY <2>2 DEF last
  <1> QED BY <1>2, <1>5, <1>6

(* The blocks PrefillMultimodal is given are sound.                        *)
LEMMA BlocksAreSound ==
  ASSUME req \in Prompts, skip \in Nat, skip < Len(req.toks), Gemma, Encodes
  PROVE  SoundBlocks(ImageBlocks(skip, SplitAt), SplitAt - skip)
  <1> DEFINE blocks == ImageBlocks(skip, SplitAt)
             at(j) == req.images[j].offset
             span(j) == Span[req.images[j].hash]
             fresh == {n \in 1..Len(req.images) : at(n) >= skip /\ at(n) < SplitAt}
             block(j) == <<at(j) - skip, at(j) - skip + span(j)>>
  <1>1. /\ SplitAt \in Nat /\ skip < SplitAt
        /\ \A j \in 1..Len(req.images) : at(j) + span(j) <= SplitAt
    BY BackFacts
  <1>2. \A j \in 1..Len(req.images) : at(j) \in Nat /\ span(j) \in Nat \ {0}
    BY PromptFacts
  <1>3. \A j \in fresh : span(j) <= MaxBlock
    BY DEF Encodes
  <1>4. \A i, j \in 1..Len(req.images) : i < j => at(i) + span(i) <= at(j)
    BY PicturesInOrder
  <1>5. \A b \in blocks : \E j \in fresh : b = block(j)
    BY DEF ImageBlocks
  <1>6. \A j \in fresh : /\ j \in 1..Len(req.images) /\ at(j) >= skip
                         /\ block(j)[1] = at(j) - skip /\ block(j)[2] = (at(j) - skip) + span(j)
    OBVIOUS
  <1>7. Len(req.images) \in Nat
    BY PromptFacts
  <1> HIDE DEF at, span, fresh, block, blocks
  <1>8. ASSUME NEW b \in blocks
        PROVE  /\ b[1] \in Nat /\ b[2] \in Nat
               /\ b[1] < b[2] /\ b[2] <= SplitAt - skip /\ b[2] <= b[1] + MaxBlock
    <2>1. PICK j \in fresh : b = block(j)
      BY <1>5
    <2>2. /\ at(j) \in Nat /\ span(j) \in Nat \ {0} /\ at(j) >= skip /\ span(j) <= MaxBlock
          /\ at(j) + span(j) <= SplitAt /\ b[1] = at(j) - skip /\ b[2] = (at(j) - skip) + span(j)
      BY <1>1, <1>2, <1>3, <1>6, <2>1
    <2> QED BY <1>1, <2>2, Sizes
  <1>9. ASSUME NEW b \in blocks, NEW c \in blocks
        PROVE  b = c \/ b[2] <= c[1] \/ c[2] <= b[1]
    <2>1. PICK i \in fresh : b = block(i)
      BY <1>5
    <2>2. PICK j \in fresh : c = block(j)
      BY <1>5
    <2>3. /\ i \in 1..Len(req.images) /\ b[1] = at(i) - skip /\ b[2] = (at(i) - skip) + span(i)
          /\ j \in 1..Len(req.images) /\ c[1] = at(j) - skip /\ c[2] = (at(j) - skip) + span(j)
      BY <1>6, <2>1, <2>2
    <2>4. at(i) \in Nat /\ span(i) \in Nat /\ at(j) \in Nat /\ span(j) \in Nat
      BY <1>2, <2>3
    <2>5. CASE i = j
      BY <2>1, <2>2, <2>5
    <2>6. CASE i < j
      <3>1. at(i) + span(i) <= at(j)
        BY <1>4, <2>3, <2>6
      <3> QED BY <2>3, <2>4, <3>1
    <2>7. CASE j < i
      <3>1. at(j) + span(j) <= at(i)
        BY <1>4, <2>3, <2>7
      <3> QED BY <2>3, <2>4, <3>1
    <2> QED BY <1>7, <2>3, <2>5, <2>6, <2>7
  <1> QED BY <1>8, <1>9 DEF SoundBlocks, blocks

(* The tokens after the split hold no picture.                             *)
LEMMA TailHasNoBlocks ==
  ASSUME req \in Prompts, skip \in Nat, skip < Len(req.toks)
  PROVE  ImageBlocks(SplitAt, Len(req.toks)) = {}
  <1> SUFFICES ASSUME NEW j \in 1..Len(req.images), req.images[j].offset >= SplitAt
               PROVE  FALSE
    BY DEF ImageBlocks
  <1>1. req.images[j].offset + Span[req.images[j].hash] <= SplitAt /\ SplitAt \in Nat
    BY BackFacts
  <1>2. req.images[j].offset \in Nat /\ Span[req.images[j].hash] \in Nat \ {0}
    BY PromptFacts
  <1> QED BY <1>1, <1>2

-----------------------------------------------------------------------------
(* The calls that feed the model.                                          *)

\* the next state is that of a model that consumed h and nothing else
SequenceBecomes(h) ==
  /\ kv' = h
  /\ IF Gemma THEN RingHolds(sliding', h) ELSE gdn' = h
  /\ load.drafter = "dflash" => DraftKeeps(draft', h)

ModelTypes == /\ kv \in History /\ gdn \in History
              /\ sliding \in Store(RingTokens) /\ draft \in Draft

(* The sequence and drafter types as TypeOK states them.                   *)
LEMMA ModelTyped == TypeOK => ModelTypes /\ load \in Loads
  BY DEF TypeOK, ModelTypes, Draft

(* A chunk that fits the ring and splits no picture.                       *)
LEMMA FeedIsExact ==
  ASSUME ModelTypes, SequenceIs(kv), NEW rows \in History, Len(rows) > 0, NEW ext,
         Gemma => /\ Window + Len(rows) <= RingTokens
                  /\ \A t \in 1..Len(rows) : ext[t] \in Int /\ ext[t] < Len(kv) + Len(rows),
         Feed(rows, ext)
  PROVE  SequenceBecomes(kv \o rows) /\ ModelTypes'
  <1>1. kv \in History /\ gdn \in History /\ sliding \in Store(RingTokens) /\ draft \in Draft
        /\ Len(kv) \in Nat /\ Len(rows) \in Nat
    BY DEF ModelTypes, History
  <1>2. kv \o rows \in History
    BY <1>1, Joined
  <1>3. /\ DraftWith(rows) \in Draft
        /\ load.drafter = "dflash" => DraftKeeps(DraftWith(rows), kv \o rows)
    <2>1. CASE load.drafter = "dflash"
      <3>1. DraftKeeps(draft, kv)
        BY <2>1 DEF SequenceIs
      <3>2. DraftWith(rows) = InjectFeatures(draft, Len(kv), rows)
        BY <2>1 DEF DraftWith
      <3> QED BY <1>1, <3>1, <3>2, InjectKeeps, DraftType
    <2>2. CASE load.drafter # "dflash"
      BY <1>1, <2>2 DEF DraftWith
    <2> QED BY <2>1, <2>2
  <1>4. CASE Gemma
    <2> DEFINE out == Computed(kv, sliding, rows, ext)
    <2>1. RingHolds(sliding, kv)
      BY <1>4 DEF SequenceIs
    <2>2. out = rows /\ RingHolds(Put(sliding, RingTokens, Len(kv), rows), kv \o rows)
      BY <1>1, <1>4, <2>1, ChunkIsExact
    <2>3. /\ kv' = kv \o out /\ sliding' = Put(sliding, RingTokens, Len(kv), out)
          /\ draft' = DraftWith(out) /\ gdn' = gdn
      BY <1>4 DEF Feed
    <2>4. sliding' \in Store(RingTokens)
      BY <1>1, <2>2, <2>3, PutType, Sizes
    <2> HIDE DEF out
    <2> QED BY <1>1, <1>2, <1>3, <1>4, <2>2, <2>3, <2>4 DEF SequenceBecomes, ModelTypes
  <1>5. CASE ~Gemma
    <2>1. gdn = kv
      BY <1>5 DEF SequenceIs
    <2>2. /\ kv' = kv \o rows /\ gdn' = gdn \o rows
          /\ draft' = DraftWith(rows) /\ sliding' = sliding
      BY <1>5 DEF Feed
    <2> QED BY <1>1, <1>2, <1>3, <1>5, <2>1, <2>2 DEF SequenceBecomes, ModelTypes
  <1> QED BY <1>4, <1>5

(* A decode step: the one row is causal.                                   *)
LEMMA StepIsExact ==
  ASSUME ModelTypes, SequenceIs(kv), NEW rows \in History, Len(rows) > 0,
         Gemma => Window + Len(rows) <= RingTokens,
         Feed(rows, Causal(Len(rows)))
  PROVE  SequenceBecomes(kv \o rows) /\ ModelTypes'
  <1>1. Len(kv) \in Nat /\ Len(rows) \in Nat
    BY DEF ModelTypes, History
  <1>2. \A t \in 1..Len(rows) : /\ Causal(Len(rows))[t] \in Int
                                /\ Causal(Len(rows))[t] < Len(kv) + Len(rows)
    BY <1>1 DEF Causal
  <1> QED BY <1>2, FeedIsExact

(* A round, whatever was rejected: the window fits the chunk, the chunk    *)
(* fits the rings (GemmaModel::Load's check and EnsureVerify's).           *)
LEMMA RoundIsExact ==
  ASSUME ModelTypes, load \in Loads, load.drafter # "none", SequenceIs(kv),
         NEW rows \in History, Len(rows) > 0, NEW rejected \in Nat, FeedRound(rows, rejected)
  PROVE  SequenceBecomes(kv \o rows) /\ ModelTypes'
  <1>1. kv \in History /\ gdn \in History /\ sliding \in Store(RingTokens) /\ draft \in Draft
        /\ Len(kv) \in Nat /\ Len(rows) \in Nat /\ kv \o rows \in History
    BY Joined DEF ModelTypes, History
  <1>2. CASE ~Gemma
    <2>1. Feed(rows, Causal(Len(rows)))
      BY <1>2 DEF FeedRound
    <2> QED BY <1>2, <2>1, StepIsExact
  <1>3. CASE Gemma
    <2> DEFINE refused == [i \in 1..rejected |-> Junk]
               window == rows \o refused
               out == Computed(kv, sliding, window, Causal(Len(window)))
               kept == SubSeq(out, 1, Len(rows))
    <2>1. refused \in History /\ Len(refused) = rejected
      <3>1. refused \in [1..rejected -> Row]
        BY DEF Row
      <3> HIDE DEF refused
      <3>2. Len(refused) = rejected
        BY <3>1
      <3> QED BY <3>1, <3>2 DEF History
    <2>2. /\ window \in History /\ Len(window) = Len(rows) + rejected
          /\ \A i \in 1..Len(rows) : window[i] = rows[i]
      BY <2>1, Joined
    <2>3. /\ Len(window) <= DraftK + 1
          /\ kv' = kv \o kept /\ sliding' = Put(sliding, RingTokens, Len(kv), out)
          /\ draft' = DraftWith(kept) /\ gdn' = gdn
      BY <1>3 DEF FeedRound
    <2>4. Window + Len(window) <= RingTokens
      <3>1. load.chunk \in PrefillChunks /\ load.drafter = "dflash" /\ load.chunk > DraftK
        BY <1>3 DEF Loads, Gemma
      <3>2. load.chunk \in Nat /\ Window + load.chunk <= RingTokens /\ DraftK \in Nat
        BY <3>1, Sizes, BoundAssumption
      <3> HIDE DEF window
      <3> QED BY <1>1, <2>2, <2>3, <3>1, <3>2, Sizes
    <2> HIDE DEF window, refused
    <2>5. /\ out \in History /\ Len(out) = Len(rows) + rejected
          /\ \A t \in 1..Len(rows) : out[t] = rows[t]
      <3>1. out \in History /\ Len(out) = Len(rows) + rejected
        BY <2>2, ComputedType
      <3>2. ASSUME NEW t \in 1..Len(rows) PROVE out[t] = rows[t]
        <4>1. RingHolds(sliding, kv)
          BY <1>3 DEF SequenceIs
        <4>2. t \in 1..Len(window)
          BY <1>1, <2>2
        <4>3. Causal(Len(window))[t] \in Int /\ Causal(Len(window))[t] < Len(kv) + Len(window)
          BY <1>1, <2>2, <4>2 DEF Causal
        <4>4. out[t] = window[t]
          BY <1>1, <2>2, <2>4, <4>1, <4>2, <4>3, RowIsExact
        <4> QED BY <2>2, <4>4
      <3> QED BY <3>1, <3>2
    <2> HIDE DEF out
    <2>6. kept = rows
      <3>1. /\ kept \in History /\ Len(kept) = Len(rows)
            /\ \A i \in 1..Len(rows) : kept[i] = out[i]
        <4>1. Len(rows) \in 0..Len(out)
          BY <1>1, <2>5
        <4> QED BY <2>5, <4>1, Prefixed
      <3> HIDE DEF kept
      <3> QED BY <2>5, <3>1, SameHistory
    <2>7. RingHolds(sliding', kv \o rows) /\ sliding' \in Store(RingTokens)
      <3>1. RingHolds(sliding, kv)
        BY <1>3 DEF SequenceIs
      <3>2. Window + Len(out) <= RingTokens /\ Len(rows) \in 1..Len(out)
        BY <1>1, <2>2, <2>4, <2>5
      <3>3. RingHolds(Put(sliding, RingTokens, Len(kv), out), kv \o kept)
        BY <1>1, <2>5, <3>1, <3>2, WriteHolds
      <3> QED BY <1>1, <2>3, <2>5, <2>6, <3>3, PutType, Sizes
    <2>8. DraftWith(rows) \in Draft /\ (load.drafter = "dflash" => DraftKeeps(DraftWith(rows), kv \o rows))
      <3>1. CASE load.drafter = "dflash"
        <4>1. DraftKeeps(draft, kv)
          BY <3>1 DEF SequenceIs
        <4>2. DraftWith(rows) = InjectFeatures(draft, Len(kv), rows)
          BY <3>1 DEF DraftWith
        <4> QED BY <1>1, <4>1, <4>2, InjectKeeps, DraftType
      <3>2. CASE load.drafter # "dflash"
        BY <1>1, <3>2 DEF DraftWith
      <3> QED BY <3>1, <3>2
    <2> HIDE DEF kept
    <2> QED BY <1>1, <1>3, <2>3, <2>6, <2>7, <2>8 DEF SequenceBecomes, ModelTypes
  <1> QED BY <1>2, <1>3

\* a history is fed piece by piece
LEMMA PiecesOfHistory ==
  ASSUME NEW h \in History, NEW a \in Nat, NEW b \in Nat, a <= b, b <= Len(h)
  PROVE  /\ SubSeq(h, 1, a) \o SubSeq(h, a + 1, b) = SubSeq(h, 1, b)
         /\ SubSeq(h, a + 1, b) \in History /\ Len(SubSeq(h, a + 1, b)) = b - a
  <1> DEFINE head == SubSeq(h, 1, a)
             rows == SubSeq(h, a + 1, b)
             both == SubSeq(h, 1, b)
  <1>1. Len(h) \in Nat /\ a \in 0..Len(h) /\ b \in 0..Len(h)
    BY DEF History
  <1>2. head \in History /\ Len(head) = a /\ \A i \in 1..a : head[i] = h[i]
    BY <1>1, Prefixed
  <1>3. both \in History /\ Len(both) = b /\ \A i \in 1..b : both[i] = h[i]
    BY <1>1, Prefixed
  <1>4. rows \in History /\ Len(rows) = b - a /\ \A i \in 1..b - a : rows[i] = h[a + i]
    BY <1>1 DEF History
  <1> HIDE DEF head, rows, both
  <1>5. /\ head \o rows \in History /\ Len(head \o rows) = Len(head) + Len(rows)
        /\ \A i \in 1..Len(head) : (head \o rows)[i] = head[i]
        /\ \A i \in 1..Len(rows) : (head \o rows)[Len(head) + i] = rows[i]
    BY <1>2, <1>4, Joined
  <1>6. ASSUME NEW i \in 1..b PROVE (head \o rows)[i] = both[i]
    <2>1. CASE i <= a
      BY <1>2, <1>3, <1>5, <2>1
    <2>2. CASE i > a
      <3> DEFINE j == i - a
      <3>1. j \in 1..b - a /\ a + j = i
        BY <2>2
      <3> HIDE DEF j
      <3>2. (head \o rows)[i] = rows[j] /\ rows[j] = h[i]
        BY <1>2, <1>4, <1>5, <3>1
      <3> QED BY <1>3, <3>2
    <2>3. i <= a \/ i > a
      OBVIOUS
    <2> QED BY <2>1, <2>2, <2>3
  <1>7. Len(head \o rows) = Len(both)
    BY <1>2, <1>3, <1>4, <1>5
  <1>8. head \o rows = both
    BY <1>3, <1>5, <1>6, <1>7, SameHistory
  <1> QED BY <1>4, <1>8 DEF head, rows, both

\* a prefix of a prefix, and of a longer history
LEMMA PrefixOfPrefix ==
  ASSUME NEW h \in History, NEW a \in Nat, NEW b \in Nat, a <= b, b <= Len(h)
  PROVE  SubSeq(SubSeq(h, 1, b), 1, a) = SubSeq(h, 1, a)
  <1> DEFINE big == SubSeq(h, 1, b)
             left == SubSeq(big, 1, a)
             right == SubSeq(h, 1, a)
  <1>1. Len(h) \in Nat /\ a \in 0..Len(h) /\ b \in 0..Len(h)
    BY DEF History
  <1>2. big \in History /\ Len(big) = b /\ \A i \in 1..b : big[i] = h[i]
    BY <1>1, Prefixed
  <1>3. right \in History /\ Len(right) = a /\ \A i \in 1..a : right[i] = h[i]
    BY <1>1, Prefixed
  <1> HIDE DEF big, right
  <1>4. left \in History /\ Len(left) = a /\ \A i \in 1..a : left[i] = big[i]
    <2>1. a \in 0..Len(big)
      BY <1>2
    <2> QED BY <1>2, <2>1, Prefixed
  <1> HIDE DEF left
  <1>5. left = right
    <2>1. \A i \in 1..a : left[i] = right[i]
      BY <1>2, <1>3, <1>4
    <2> QED BY <1>3, <1>4, <2>1, SameHistory
  <1> QED BY <1>5 DEF left, right, big

LEMMA PrefixOfJoined ==
  ASSUME NEW h \in History, NEW rows \in History, NEW a \in Nat, a <= Len(h)
  PROVE  SubSeq(h \o rows, 1, a) = SubSeq(h, 1, a)
  <1> DEFINE big == h \o rows
             left == SubSeq(big, 1, a)
             right == SubSeq(h, 1, a)
  <1>1. Len(h) \in Nat /\ a \in 0..Len(h) /\ Len(rows) \in Nat
    BY DEF History
  <1>2. big \in History /\ Len(big) = Len(h) + Len(rows) /\ \A i \in 1..Len(h) : big[i] = h[i]
    BY Joined
  <1>3. right \in History /\ Len(right) = a /\ \A i \in 1..a : right[i] = h[i]
    BY <1>1, Prefixed
  <1> HIDE DEF big, right
  <1>4. left \in History /\ Len(left) = a /\ \A i \in 1..a : left[i] = big[i]
    <2>1. a \in 0..Len(big)
      BY <1>1, <1>2
    <2> QED BY <1>2, <2>1, Prefixed
  <1> HIDE DEF left
  <1>5. left = right
    <2>1. \A i \in 1..a : left[i] = right[i]
      BY <1>1, <1>2, <1>3, <1>4
    <2> QED BY <1>3, <1>4, <2>1, SameHistory
  <1> QED BY <1>5 DEF left, right, big

(* A chunk of a prefill call is fed as the prompt has it, and the call is  *)
(* over or stands between two pictures.                                    *)
LEMMA PromptIsFed ==
  ASSUME ModelTypes, load \in Loads, req \in Prompts, off \in Nat,
         NEW from \in Nat, NEW to \in Nat, from + off < to, to <= Len(req.toks),
         Gemma => /\ SoundBlocks(ImageBlocks(from, to), to - from)
                  /\ CutsNone(ImageBlocks(from, to), off),
         SequenceIs(SubSeq(Prompt, 1, from + off)),
         FeedPrompt(from, to)
  PROVE  /\ NextEnd(from, to) \in Nat /\ off < NextEnd(from, to) /\ NextEnd(from, to) <= to - from
         /\ Gemma => CutsNone(ImageBlocks(from, to), NextEnd(from, to))
         /\ SequenceBecomes(SubSeq(Prompt, 1, from + NextEnd(from, to))) /\ ModelTypes'
         /\ atPrefillEnd' \in BOOLEAN
         /\ off' = IF NextEnd(from, to) = to - from THEN 0 ELSE NextEnd(from, to)
  <1> DEFINE blocks == ImageBlocks(from, to)
             end == NextEnd(from, to)
             rows == SubSeq(Prompt, from + off + 1, from + end)
             ext == KlimitExt(Len(kv), <<off, end>>, blocks)
  <1>1. /\ Prompt \in History /\ Len(Prompt) = Len(req.toks) /\ Len(req.toks) \in Nat
    BY PromptFacts, ContentType DEF Prompt
  <1>2. to - from \in Nat /\ off < to - from
    OBVIOUS
  <1>3. /\ end \in Nat /\ off < end /\ end <= to - from
        /\ Gemma => Window + (end - off) <= RingTokens /\ CutsNone(blocks, end)
    <2>1. CASE ~Gemma
      BY <1>2, <2>1 DEF NextEnd
    <2>2. CASE Gemma
      <3>1. end = ChunkEnd(off, to - from, blocks, load.chunk)
        BY <2>2 DEF NextEnd
      <3>2. load.chunk \in Nat \ {0} /\ Window + load.chunk <= RingTokens
        BY Sizes DEF Loads
      <3>3. SoundBlocks(blocks, to - from) /\ CutsNone(blocks, off)
        BY <2>2
      <3> HIDE DEF end, blocks
      <3> QED BY <1>2, <3>1, <3>2, <3>3, ChunkIsWhole
    <2> QED BY <2>1, <2>2
  <1> HIDE DEF end, blocks
  <1>4. /\ Feed(rows, ext)
        /\ atPrefillEnd' = (end = to - from)
        /\ off' = IF end = to - from THEN 0 ELSE end
    BY DEF FeedPrompt, Prompt, end, blocks
  <1>5. /\ rows \in History /\ Len(rows) = end - off /\ Len(rows) > 0
        /\ SubSeq(Prompt, 1, from + off) \o rows = SubSeq(Prompt, 1, from + end)
    <2>1. from + off \in Nat /\ from + end \in Nat /\ from + off <= from + end /\ from + end <= Len(Prompt)
          /\ (from + end) - (from + off) = end - off /\ end - off > 0
      BY <1>1, <1>3
    <2> DEFINE a == from + off
               b == from + end
    <2> HIDE DEF a, b
    <2>2. /\ SubSeq(Prompt, 1, a) \o SubSeq(Prompt, a + 1, b) = SubSeq(Prompt, 1, b)
          /\ SubSeq(Prompt, a + 1, b) \in History /\ Len(SubSeq(Prompt, a + 1, b)) = b - a
      BY <1>1, <2>1, PiecesOfHistory DEF a, b
    <2>3. rows = SubSeq(Prompt, a + 1, b)
      BY DEF a, b
    <2> HIDE DEF rows
    <2> QED BY <2>1, <2>2, <2>3 DEF a, b
  <1> HIDE DEF rows
  <1>6. kv = SubSeq(Prompt, 1, from + off) /\ SequenceIs(kv) /\ Len(kv) \in Nat
    BY DEF SequenceIs, ModelTypes, History
  <1>7. Gemma => \A t \in 1..Len(rows) : ext[t] \in Int /\ ext[t] < Len(kv) + Len(rows)
    <2> SUFFICES ASSUME Gemma, NEW t \in 1..end - off
                 PROVE  ext[t] \in Int /\ ext[t] < Len(kv) + (end - off)
      BY <1>5
    <2>1. SoundBlocks(blocks, to - from) /\ CutsNone(blocks, end)
      BY <1>3 DEF blocks
    <2> QED BY <1>2, <1>3, <1>6, <2>1, ExtInChunk
  <1>8. SequenceBecomes(kv \o rows) /\ ModelTypes'
    BY <1>3, <1>4, <1>5, <1>6, <1>7, FeedIsExact
  <1>9. SequenceBecomes(SubSeq(Prompt, 1, from + end))
    BY <1>5, <1>6, <1>8
  <1>10. atPrefillEnd' \in BOOLEAN
    BY <1>4
  <1> QED BY <1>3, <1>4, <1>8, <1>9, <1>10 DEF end, blocks

-----------------------------------------------------------------------------
(* The request's derived values move with its locals only.                 *)

LEMMA Unmoved ==
  ASSUME UNCHANGED <<req, skip, checkpoint, hasCheckpoint>>
  PROVE  /\ Back' = Back /\ SplitAt' = SplitAt /\ CkptLen' = CkptLen
         /\ KeepCheckpoint' = KeepCheckpoint /\ Prompt' = Prompt
         /\ ImageBlocks(skip, SplitAt)' = ImageBlocks(skip, SplitAt)
  <1>1. TailLen' = TailLen /\ TailTooShort' = TailTooShort
    BY DEF TailTooShort, TailLen
  <1>2. Back' = Back
    BY <1>1 DEF Back, SplitsAnImage, TailLen
  <1>3. KeepCheckpoint' = KeepCheckpoint
    BY <1>1 DEF KeepCheckpoint
  <1>4. SplitAt' = SplitAt
    BY <1>2 DEF SplitAt
  <1>5. CkptLen' = CkptLen
    BY <1>2, <1>3 DEF CkptLen
  <1> QED BY <1>2, <1>3, <1>4, <1>5 DEF Prompt, ImageBlocks

\* where the prompt is split, with BackFacts as one formula
SplitOK ==
  /\ Back \in Nat /\ SplitAt \in Nat /\ SplitAt = Len(req.toks) - Back
  /\ skip < SplitAt /\ SplitAt <= Len(req.toks)
  /\ Back > 0 => PromptCheckpoint /\ ~TailTooShort
LEMMA SplitFacts == req \in Prompts /\ skip \in Nat /\ skip < Len(req.toks) => SplitOK
  BY BackFacts DEF SplitOK

(* A prefill begins between pictures.                                      *)
LEMMA PrefillBegins ==
  ASSUME req \in Prompts, req' = req, pc' = "prefill", off' = 0,
         skip' \in Nat, skip' < Len(req.toks)
  PROVE  LocalsOK'
  <1>1. (req \in Prompts /\ skip \in Nat /\ skip < Len(req.toks) => SplitOK)'
    BY SplitFacts, PTL
  <1>2. SplitOK'
    BY <1>1
  <1>3. skip' + off' < SplitAt'
    BY <1>2 DEF SplitOK
  <1>4. ASSUME NEW b \in ImageBlocks(skip, SplitAt)' PROVE off' <= b[1]
    <2>1. PICK j \in 1..Len(req.images) :
            /\ b = <<req.images[j].offset - skip', (req.images[j].offset - skip') + Span[req.images[j].hash]>>
            /\ req.images[j].offset >= skip'
      BY <1>4 DEF ImageBlocks
    <2>2. req.images[j].offset \in Nat
      BY PromptFacts
    <2> QED BY <2>1, <2>2
  <1> QED BY <1>3, <1>4 DEF LocalsOK, InFlight

(* The types of everything but the model's state.                          *)
OtherTypes ==
  /\ pc \in Phases /\ req \in Request /\ skip \in Nat /\ off \in Nat /\ next \in Token
  /\ generated \in Seq(Token) /\ committed \in Seq(Token)
  /\ fed \in Seq(Token) /\ fedImages \in Seq(Key) /\ needsReset \in BOOLEAN
  /\ checkpoint \in Seq(Token) /\ hasCheckpoint \in BOOLEAN
  /\ ckptPos \in Nat \cup {-1} /\ ckptGdn \in History /\ ckptSliding \in Store(RingTokens)
  /\ atPrefillEnd \in BOOLEAN /\ load \in Loads /\ health \in {"kReady", "kNeedsRecovery"}
LEMMA TypesSplit == TypeOK <=> ModelTypes /\ OtherTypes
  BY DEF TypeOK, ModelTypes, OtherTypes, Draft

\* an empty ring, an empty history
LEMMA Empties ==
  /\ EmptyRing \in Store(RingTokens) /\ NewDraft \in Draft
  /\ <<>> \in History /\ <<>> \in Seq(Token) /\ <<>> \in Seq(Key) /\ <<Junk>> \in History
  /\ NoRequest \in Request
  /\ \A ring : RingHolds(ring, <<>>)
  /\ DraftKeeps(NewDraft, <<>>)
  <1>1. EmptyRing \in Store(RingTokens)
    BY DEF EmptyRing, EmptyStore, Store
  <1>2. NewDraft \in Draft
    <2>1. EmptyStore(DraftSlots) \in Store(DraftSlots)
      BY DEF EmptyStore, Store
    <2> QED BY <2>1 DEF NewDraft, Draft
  <1>3. <<>> \in History /\ <<>> \in Seq(Token) /\ <<>> \in Seq(Key)
    BY DEF History
  <1>4. <<Junk>> \in History
    <2>1. Junk \in Row
      BY DEF Row
    <2> QED BY <2>1 DEF History
  <1>5. NoRequest \in Request
    BY <1>3 DEF NoRequest, Request
  <1>6. \A ring : RingHolds(ring, <<>>)
    BY DEF RingHolds
  <1>7. DraftKeeps(NewDraft, <<>>)
    BY DEF DraftKeeps, NewDraft
  <1> QED BY <1>1, <1>2, <1>3, <1>4, <1>5, <1>6, <1>7

\* the state's sequence, from the one that was fed to it
LEMMA SequenceMoves ==
  ASSUME NEW h, SequenceBecomes(h), load' = load, Consumed' = h
  PROVE  SequenceIs(Consumed)'
  BY DEF SequenceBecomes, SequenceIs, Gemma

LEMMA SequenceStays ==
  ASSUME NEW h, SequenceIs(h), UNCHANGED <<kv, gdn, sliding, draft>>
  PROVE  SequenceBecomes(h)
  BY DEF SequenceBecomes, SequenceIs

\* the saved state stays
LEMMA CheckpointStays ==
  ASSUME NEW n, NEW h, CheckpointIs(n, h), UNCHANGED <<checkpointVars, load>>
  PROVE  CheckpointIs(n, h)'
  BY DEF CheckpointIs, checkpointVars, Gemma

-----------------------------------------------------------------------------
(* The steps, from Submit to the choice of where to begin.                 *)

LEMMA SubmitStep == \A p \in Prompts : IInv /\ Submit(p) => IInv'
  <1> SUFFICES ASSUME NEW p \in Prompts, IInv, Submit(p) PROVE IInv'
    OBVIOUS
  <1> USE DEF IInv
  <1>1. pc = "idle" /\ pc' = "plan" /\ req' = p
        /\ UNCHANGED <<skip, off, next, generated, committed, prefixVars, modelVars>>
    BY DEF Submit
  <1>2. TypeOK'
    <2>1. ModelTypes' /\ OtherTypes'
      BY <1>1, TypesSplit, PromptFacts
         DEF ModelTypes, OtherTypes, Phases, prefixVars, modelVars, checkpointVars
    <2>2. (TypeOK <=> ModelTypes /\ OtherTypes)'
      BY TypesSplit, PTL
    <2> QED BY <2>1, <2>2
  <1>3. LocalsOK'
    BY <1>1 DEF LocalsOK, InFlight
  <1>4. PrefixOK'
    BY <1>1 DEF PrefixOK, prefixVars
  <1>5. SequenceOK'
    BY <1>1 DEF SequenceOK, SequenceIs, InFlight, Gemma, prefixVars, modelVars
  <1>6. CheckpointOK'
    BY <1>1 DEF CheckpointOK, CheckpointIs, InFlight, Gemma, prefixVars, modelVars, checkpointVars
  <1>7. ReplyOK'
    BY <1>1 DEF ReplyOK
  <1>8. FailureOK'
    BY <1>1 DEF FailureOK, InFlight, prefixVars, modelVars
  <1> QED BY <1>2, <1>3, <1>4, <1>5, <1>6, <1>7, <1>8

LEMMA ContinueFedStep == IInv /\ ContinueFed => IInv'
  <1> SUFFICES ASSUME IInv, ContinueFed PROVE IInv'
    OBVIOUS
  <1> USE DEF IInv
  <1>1. /\ pc = "plan" /\ pc' = "prefill" /\ ~needsReset /\ TailAfter(fed, req) /\ skip' = Len(fed)
        /\ UNCHANGED <<req, off, next, generated, committed, prefixVars, modelVars>>
    BY DEF ContinueFed, PlanFed
  <1>2. UNCHANGED <<fed, fedImages, needsReset, checkpoint, hasCheckpoint, kv, gdn, sliding, draft,
                    ckptPos, ckptGdn, ckptSliding, atPrefillEnd, health, load>>
    BY <1>1 DEF prefixVars, modelVars, checkpointVars
  <1>3. req \in Prompts /\ off = 0 /\ fed \in Seq(Token) /\ fedImages \in Seq(Key) /\ req \in Request
    BY <1>1, PromptFacts DEF LocalsOK, TypeOK
  <1>4. /\ Len(fed) < Len(req.toks) /\ Len(fed) \in Nat
        /\ fed = SubSeq(req.toks, 1, Len(fed))
        /\ SubSeq(Prompt, 1, Len(fed)) = Content(fed, fedImages)
    BY <1>1, <1>3, TailContent DEF Prompt
  <1>5. Prompt \in History /\ Len(Prompt) = Len(req.toks) /\ Prompt' = Prompt
    BY <1>1, <1>3, PromptFacts, ContentType DEF Prompt
  <1>6. TypeOK'
    <2>1. ModelTypes' /\ OtherTypes'
      BY <1>1, <1>2, <1>4, TypesSplit DEF ModelTypes, OtherTypes, Phases
    <2>2. (TypeOK <=> ModelTypes /\ OtherTypes)'
      BY TypesSplit, PTL
    <2> QED BY <2>1, <2>2
  <1>7. LocalsOK'
    BY <1>1, <1>3, <1>4, PrefillBegins
  <1>8. PrefixOK'
    BY <1>2 DEF PrefixOK
  <1>9. SequenceOK'
    <2>1. SequenceIs(SubSeq(Prompt, 1, Len(fed)))
      BY <1>1, <1>4 DEF SequenceOK, InFlight
    <2>2. Consumed' = SubSeq(Prompt, 1, Len(fed))
      <3>1. Consumed' = SubSeq(Prompt', 1, skip' + off')
        BY <1>1 DEF Consumed
      <3>2. skip' + off' = Len(fed)
        BY <1>1, <1>3, <1>4
      <3> QED BY <1>5, <3>1, <3>2
    <2>3. SequenceIs(Consumed)'
      BY <1>2, <2>1, <2>2, SequenceStays, SequenceMoves
    <2> QED BY <1>1, <2>3 DEF SequenceOK, InFlight
  <1>10. CheckpointOK'
    <2>1. ASSUME hasCheckpoint PROVE CheckpointIs(Len(checkpoint), Prompt)
      <3> DEFINE n == Len(checkpoint)
                 h == Content(fed, fedImages)
      <3>1. CheckpointIs(n, h)
        BY <1>1, <2>1 DEF CheckpointOK, InFlight
      <3>2. h \in History /\ Len(h) = Len(fed)
        BY <1>3, ContentType
      <3> HIDE DEF n, h
      <3>3. n \in 1..Len(fed)
        BY <3>1, <3>2 DEF CheckpointIs
      <3>4. SubSeq(h, 1, n) = SubSeq(Prompt, 1, n)
        <4>1. SubSeq(SubSeq(Prompt, 1, Len(fed)), 1, n) = SubSeq(Prompt, 1, n)
          BY <1>4, <1>5, <3>3, PrefixOfPrefix
        <4> QED BY <1>4, <4>1 DEF h
      <3>5. n \in 1..Len(Prompt)
        BY <1>3, <1>4, <1>5, <3>3, PromptFacts
      <3>6. CheckpointIs(n, Prompt)
        BY <3>1, <3>4, <3>5 DEF CheckpointIs
      <3> QED BY <3>6 DEF n
    <2>2. hasCheckpoint' => CheckpointIs(Len(checkpoint), Prompt)'
      BY <1>2, <1>5, <2>1 DEF CheckpointIs, Gemma
    <2> QED BY <1>1, <2>2 DEF CheckpointOK, InFlight
  <1>11. ReplyOK'
    BY <1>1 DEF ReplyOK
  <1>12. FailureOK'
    BY <1>1, <1>2 DEF FailureOK, InFlight
  <1> QED BY <1>6, <1>7, <1>8, <1>9, <1>10, <1>11, <1>12

(* Restoring: the checkpoint is a prefix of what was fed, TailAfter makes  *)
(* it a prefix of the new prompt, and the drafter rewinds to it.           *)
LEMMA RestoreStep == IInv /\ RestoreCheckpoint => IInv'
  <1> SUFFICES ASSUME IInv, RestoreCheckpoint PROVE IInv'
    OBVIOUS
  <1> USE DEF IInv
  <1> DEFINE n == Len(checkpoint)
             h == Content(fed, fedImages)
  <1>1. /\ pc = "plan" /\ pc' = "prefill" /\ ~needsReset /\ hasCheckpoint
        /\ TailAfter(checkpoint, req) /\ skip' = n
        /\ kv' = SubSeq(kv, 1, ckptPos) /\ gdn' = ckptGdn /\ sliding' = ckptSliding
        /\ draft' = IF draft.injected > ckptPos THEN Rewind(draft, ckptPos) ELSE draft
        /\ atPrefillEnd' = TRUE
        /\ UNCHANGED <<req, off, next, generated, committed, prefixVars, checkpointVars, health, load>>
    BY DEF RestoreCheckpoint, PlanCheckpoint
  <1>2. UNCHANGED <<fed, fedImages, needsReset, checkpoint, hasCheckpoint,
                    ckptPos, ckptGdn, ckptSliding, health, load>>
    BY <1>1 DEF prefixVars, checkpointVars
  <1>3. /\ req \in Prompts /\ off = 0 /\ fed \in Seq(Token) /\ fedImages \in Seq(Key) /\ req \in Request
        /\ checkpoint \in Seq(Token) /\ draft \in Draft
    BY <1>1, PromptFacts, ModelTyped DEF LocalsOK, TypeOK, ModelTypes
  <1>4. /\ n < Len(req.toks) /\ n \in Nat
        /\ checkpoint = SubSeq(req.toks, 1, n)
        /\ SubSeq(Prompt, 1, n) = Content(checkpoint, fedImages)
    BY <1>1, <1>3, TailContent DEF Prompt
  <1>5. Prompt \in History /\ Len(Prompt) = Len(req.toks) /\ Prompt' = Prompt /\ Len(req.toks) \in Nat
    BY <1>1, <1>3, PromptFacts, ContentType DEF Prompt
  <1>6. CheckpointIs(n, h) /\ SequenceIs(h)
    BY <1>1 DEF CheckpointOK, SequenceOK, InFlight
  <1>7. h \in History /\ Len(h) = Len(fed) /\ kv = h
    BY <1>3, <1>6, ContentType DEF SequenceIs
  <1>8. SubSeq(h, 1, n) = SubSeq(Prompt, 1, n)
    <2>1. n \in 0..Len(fed) /\ checkpoint = SubSeq(fed, 1, n)
      BY <1>1, <1>3, <1>4 DEF PrefixOK
    <2>2. SubSeq(h, 1, n) = Content(SubSeq(fed, 1, n), fedImages)
      BY <1>3, <2>1, ContentPrefix
    <2> QED BY <1>4, <2>1, <2>2
  <1> HIDE DEF n, h
  <1>9. ckptPos = n /\ n \in 1..Len(h) /\ Len(h) \in Nat
    BY <1>6, <1>7 DEF CheckpointIs, History
  <1>10. SequenceBecomes(SubSeq(h, 1, n)) /\ draft' \in Draft
    <2>1. kv' = SubSeq(h, 1, n)
      BY <1>1, <1>7, <1>9
    <2>2. IF Gemma THEN RingHolds(sliding', SubSeq(h, 1, n)) ELSE gdn' = SubSeq(h, 1, n)
      BY <1>1, <1>6 DEF CheckpointIs
    <2>3. load.drafter = "dflash" => DraftKeeps(draft', SubSeq(h, 1, n))
      <3> SUFFICES ASSUME load.drafter = "dflash" PROVE DraftKeeps(draft', SubSeq(h, 1, n))
        OBVIOUS
      <3>1. DraftKeeps(draft, h) /\ draft.injected = Len(h)
        BY <1>6 DEF SequenceIs, DraftKeeps
      <3>2. CASE Len(h) > n
        <4>1. draft' = Rewind(draft, n)
          BY <1>1, <1>9, <3>1, <3>2
        <4>2. n \in 0..Len(h)
          BY <1>9
        <4> QED BY <1>3, <1>7, <3>1, <4>1, <4>2, RewindKeeps
      <3>3. CASE ~(Len(h) > n)
        <4>1. draft' = draft /\ n = Len(h)
          BY <1>1, <1>9, <3>1, <3>3
        <4>2. SubSeq(h, 1, n) = h
          BY <1>7, <4>1, SubSeqFull DEF History
        <4> QED BY <3>1, <4>1, <4>2
      <3> QED BY <3>2, <3>3
    <2>4. draft' \in Draft
      <3>1. ckptPos \in Nat
        BY <1>9
      <3>2. Rewind(draft, ckptPos) \in Draft
        BY <1>3, <3>1, DraftType
      <3> QED BY <1>1, <1>3, <3>2
    <2> QED BY <2>1, <2>2, <2>3, <2>4 DEF SequenceBecomes
  <1>11. TypeOK'
    <2>1. kv' \in History
      <3>1. n \in 0..Len(h)
        BY <1>9
      <3> QED BY <1>1, <1>7, <1>9, <3>1, Prefixed
    <2>2. ModelTypes'
      BY <1>1, <1>10, <2>1 DEF ModelTypes, TypeOK
    <2>3. OtherTypes'
      BY <1>1, <1>2, <1>4, TypesSplit DEF OtherTypes, Phases, n
    <2>4. (TypeOK <=> ModelTypes /\ OtherTypes)'
      BY TypesSplit, PTL
    <2> QED BY <2>2, <2>3, <2>4
  <1>12. LocalsOK'
    BY <1>1, <1>3, <1>4, PrefillBegins DEF n
  <1>13. PrefixOK'
    BY <1>2 DEF PrefixOK
  <1>14. SequenceOK'
    <2>1. Consumed' = SubSeq(Prompt, 1, n)
      <3>1. Consumed' = SubSeq(Prompt', 1, skip' + off')
        BY <1>1 DEF Consumed
      <3>2. skip' + off' = n
        BY <1>1, <1>3, <1>4
      <3> QED BY <1>5, <3>1, <3>2
    <2>2. SequenceIs(Consumed)'
      BY <1>2, <1>8, <1>10, <2>1, SequenceMoves
    <2> QED BY <1>1, <2>2 DEF SequenceOK, InFlight
  <1>15. CheckpointOK'
    <2>1. n \in 1..Len(Prompt)
      BY <1>4, <1>5, <1>9 DEF n
    <2>2. CheckpointIs(n, Prompt)
      BY <1>6, <1>8, <2>1 DEF CheckpointIs
    <2>3. CheckpointIs(Len(checkpoint), Prompt)'
      BY <1>2, <1>5, <2>2 DEF CheckpointIs, Gemma, n
    <2> QED BY <1>1, <2>3 DEF CheckpointOK, InFlight
  <1>16. ReplyOK'
    BY <1>1 DEF ReplyOK
  <1>17. FailureOK'
    BY <1>1, <1>2 DEF FailureOK, InFlight
  <1> QED BY <1>11, <1>12, <1>13, <1>14, <1>15, <1>16, <1>17

(* Starting over: a new sequence in every store, a healthy group.          *)
LEMMA ResetStep == IInv /\ ResetModel => IInv'
  <1> SUFFICES ASSUME IInv, ResetModel PROVE IInv'
    OBVIOUS
  <1> USE DEF IInv
  <1>1. /\ pc = "plan" /\ pc' = "prefill" /\ skip' = 0 /\ health' = "kReady"
        /\ kv' = <<>> /\ gdn' = <<>> /\ sliding' = EmptyRing /\ draft' = NewDraft
        /\ ckptPos' = -1 /\ ckptGdn' = <<>> /\ ckptSliding' = EmptyRing
        /\ atPrefillEnd' = FALSE /\ fed' = <<>> /\ fedImages' = <<>>
        /\ checkpoint' = <<>> /\ hasCheckpoint' = FALSE /\ needsReset' = needsReset
        /\ UNCHANGED <<req, off, next, generated, committed, load>>
    BY DEF ResetModel, Clear, DropCheckpoint
  <1>2. req \in Prompts /\ off = 0
    BY <1>1 DEF LocalsOK
  <1>3. Prompt \in History /\ Len(Prompt) = Len(req.toks) /\ Prompt' = Prompt /\ Len(req.toks) \in Nat \ {0}
    BY <1>1, <1>2, PromptFacts, ContentType DEF Prompt
  <1>4. TypeOK'
    <2>1. ModelTypes' /\ OtherTypes'
      BY <1>1, TypesSplit, Empties DEF ModelTypes, OtherTypes, Phases
    <2>2. (TypeOK <=> ModelTypes /\ OtherTypes)'
      BY TypesSplit, PTL
    <2> QED BY <2>1, <2>2
  <1>5. LocalsOK'
    <2>1. skip' \in Nat /\ skip' < Len(req.toks)
      BY <1>1, <1>3
    <2> QED BY <1>1, <1>2, <2>1, PrefillBegins
  <1>6. PrefixOK'
    BY <1>1 DEF PrefixOK
  <1>7. SequenceOK'
    <2>1. SequenceBecomes(<<>>)
      BY <1>1, Empties DEF SequenceBecomes
    <2>2. Consumed' = <<>>
      <3>1. Consumed' = SubSeq(Prompt', 1, skip' + off')
        BY <1>1 DEF Consumed
      <3>2. skip' + off' = 0
        BY <1>1, <1>2
      <3>3. SubSeq(Prompt, 1, 0) = <<>>
        BY <1>3, SubSeqEmpty DEF History
      <3> QED BY <1>3, <3>1, <3>2, <3>3
    <2>3. SequenceIs(Consumed)'
      BY <1>1, <2>1, <2>2, SequenceMoves
    <2> QED BY <1>1, <2>3 DEF SequenceOK, InFlight
  <1>8. CheckpointOK'
    BY <1>1 DEF CheckpointOK, InFlight
  <1>9. ReplyOK'
    BY <1>1 DEF ReplyOK
  <1>10. FailureOK'
    BY <1>1 DEF FailureOK
  <1> QED BY <1>4, <1>5, <1>6, <1>7, <1>8, <1>9, <1>10

-----------------------------------------------------------------------------
(* The steps of the prefill.                                               *)

\* a prompt that is not split has no second half
LEMMA NotSplit ==
  ASSUME req \in Prompts, skip \in Nat, skip < Len(req.toks),
         ~(PromptCheckpoint /\ ~KeepCheckpoint)
  PROVE  Back = 0 /\ SplitAt = Len(req.toks) /\ (PromptCheckpoint => CkptLen = Len(checkpoint) /\ hasCheckpoint)
  <1>1. SplitOK /\ Len(req.toks) \in Nat
    BY SplitFacts, PromptFacts
  <1>2. Back = 0
    BY <1>1 DEF SplitOK, KeepCheckpoint
  <1>3. PromptCheckpoint => CkptLen = Len(checkpoint) /\ hasCheckpoint
    BY DEF CkptLen, KeepCheckpoint
  <1> QED BY <1>1, <1>2, <1>3 DEF SplitOK

\* the whole prompt, nothing decoded
LEMMA WholePrompt ==
  ASSUME req \in Prompts
  PROVE  /\ SubSeq(Prompt, 1, Len(req.toks)) = Prompt /\ Prompt \o Plain(<<>>) = Prompt
         /\ Prompt \in History /\ Len(Prompt) = Len(req.toks) /\ Len(Prompt) \in Nat
  <1>1. Prompt \in History /\ Len(Prompt) = Len(req.toks) /\ Len(req.toks) \in Nat
    BY PromptFacts, ContentType DEF Prompt
  <1>2. SubSeq(Prompt, 1, Len(req.toks)) = Prompt
    BY <1>1, SubSeqFull DEF History
  <1>3. Plain(<<>>) \in History /\ Len(Plain(<<>>)) = 0
    BY PlainType, Empties
  <1>4. Plain(<<>>) = <<>>
    BY <1>3 DEF History
  <1>5. Prompt \o <<>> = Prompt
    BY <1>1 DEF History
  <1> QED BY <1>1, <1>2, <1>4, <1>5

\* what the decode loops find
LEMMA DecodeBegins ==
  ASSUME ToDecode
  PROVE  /\ pc' \in {"first", "decode"} /\ next' \in Token
         /\ pc' = "first" => Speculates
         /\ pc' = "decode" => ~Speculates
  BY DEF ToDecode

LEMMA PrefillStep == IInv /\ Prefill => IInv'
  <1> SUFFICES ASSUME IInv, Prefill PROVE IInv'
    OBVIOUS
  <1> USE DEF IInv
  <1> DEFINE end == NextEnd(skip, SplitAt)
  <1>1. /\ pc = "prefill" /\ Encodes /\ FeedPrompt(skip, SplitAt)
        /\ IF skip + end < SplitAt
             THEN UNCHANGED <<pc, next>>
             ELSE IF PromptCheckpoint /\ ~KeepCheckpoint
                    THEN pc' = "save" /\ UNCHANGED next
                    ELSE ToDecode
        /\ UNCHANGED <<req, skip, generated, committed, prefixVars, checkpointVars, health, load>>
    BY DEF Prefill
  <1>2. UNCHANGED <<fed, fedImages, needsReset, checkpoint, hasCheckpoint,
                    ckptPos, ckptGdn, ckptSliding>>
    BY <1>1 DEF prefixVars, checkpointVars
  <1>3. /\ req \in Prompts /\ skip \in Nat /\ off \in Nat /\ skip < Len(req.toks)
        /\ skip + off < SplitAt /\ load \in Loads /\ ModelTypes /\ Len(req.toks) \in Nat
    BY <1>1, ModelTyped, PromptFacts DEF LocalsOK, TypeOK, InFlight
  <1>4. SplitOK
    BY <1>3, SplitFacts
  <1>5. SequenceIs(SubSeq(Prompt, 1, skip + off))
    BY <1>1 DEF SequenceOK, InFlight, Consumed
  <1>6. Gemma => /\ SoundBlocks(ImageBlocks(skip, SplitAt), SplitAt - skip)
                 /\ CutsNone(ImageBlocks(skip, SplitAt), off)
    <2>1. Gemma => CutsNone(ImageBlocks(skip, SplitAt), off)
      BY <1>1 DEF LocalsOK, CutsNone
    <2> QED BY <1>1, <1>3, <2>1, BlocksAreSound
  <1>7. /\ end \in Nat /\ off < end /\ end <= SplitAt - skip
        /\ Gemma => CutsNone(ImageBlocks(skip, SplitAt), end)
        /\ SequenceBecomes(SubSeq(Prompt, 1, skip + end)) /\ ModelTypes'
        /\ atPrefillEnd' \in BOOLEAN
        /\ off' = IF end = SplitAt - skip THEN 0 ELSE end
    <2>1. SplitAt \in Nat /\ SplitAt <= Len(req.toks)
      BY <1>4 DEF SplitOK
    <2> QED BY <1>1, <1>3, <1>5, <1>6, <2>1, PromptIsFed
  <1> HIDE DEF end
  <1>8. /\ SplitAt' = SplitAt /\ CkptLen' = CkptLen /\ KeepCheckpoint' = KeepCheckpoint
        /\ Prompt' = Prompt /\ ImageBlocks(skip, SplitAt)' = ImageBlocks(skip, SplitAt) /\ Back' = Back
    BY <1>1, <1>2, Unmoved
  <1>9. health # "kNeedsRecovery"
    BY <1>1 DEF FailureOK, InFlight
  <1>10. pc' \in Phases /\ next' \in Token /\ pc' \notin {"idle", "plan"}
    BY <1>1, DecodeBegins DEF Phases, TypeOK
  <1>11. TypeOK'
    <2>1. OtherTypes'
      BY <1>1, <1>2, <1>7, <1>10, TypesSplit DEF OtherTypes
    <2>2. (TypeOK <=> ModelTypes /\ OtherTypes)'
      BY TypesSplit, PTL
    <2> QED BY <1>7, <2>1, <2>2
  <1>12. PrefixOK'
    BY <1>2 DEF PrefixOK
  <1>13. FailureOK'
    BY <1>1, <1>9 DEF FailureOK
  <1>14. generated = <<>> /\ committed = <<>>
    BY <1>1 DEF ReplyOK
  <1>15. SplitAt \in Nat /\ SplitAt <= Len(req.toks)
    BY <1>4 DEF SplitOK
  <1>16. hasCheckpoint => CheckpointIs(Len(checkpoint), Prompt)
    BY <1>1 DEF CheckpointOK
  <1>17. CASE skip + end < SplitAt
    <2>1. pc' = "prefill" /\ off' = end /\ next' = next
      BY <1>1, <1>3, <1>7, <1>15, <1>17
    <2>2. LocalsOK'
      <3>1. Gemma' => \A b \in ImageBlocks(skip, SplitAt)' : off' <= b[1] \/ b[2] <= off'
        BY <1>1, <1>7, <1>8, <2>1 DEF CutsNone, Gemma
      <3>2. skip' + off' < SplitAt'
        BY <1>1, <1>8, <1>17, <2>1
      <3> QED BY <1>1, <1>3, <2>1, <3>1, <3>2 DEF LocalsOK, InFlight
    <2>3. Consumed' = SubSeq(Prompt, 1, skip + end)
      BY <1>1, <1>8, <2>1 DEF Consumed
    <2>4. SequenceOK'
      BY <1>1, <1>7, <2>1, <2>3, SequenceMoves DEF SequenceOK, InFlight
    <2>5. CheckpointOK'
      BY <1>1, <1>2, <1>8, <1>16, <2>1 DEF CheckpointOK, CheckpointIs, Gemma, InFlight
    <2>6. ReplyOK'
      BY <1>1, <1>14, <2>1 DEF ReplyOK
    <2> QED BY <1>11, <1>12, <1>13, <2>2, <2>4, <2>5, <2>6
  <1>18. CASE ~(skip + end < SplitAt)
    <2>1. end = SplitAt - skip /\ skip + end = SplitAt /\ off' = 0
      BY <1>3, <1>7, <1>15, <1>18
    <2>2. SequenceBecomes(SubSeq(Prompt, 1, SplitAt))
      BY <1>7, <2>1
    <2>3. CASE PromptCheckpoint /\ ~KeepCheckpoint
      <3>1. pc' = "save"
        BY <1>1, <1>18, <2>3
      <3>2. LocalsOK'
        BY <1>1, <1>3, <1>8, <2>1, <2>3, <3>1 DEF LocalsOK, InFlight
      <3>3. Consumed' = SubSeq(Prompt, 1, SplitAt)
        BY <1>8, <3>1 DEF Consumed
      <3>4. SequenceOK'
        BY <1>1, <2>2, <3>1, <3>3, SequenceMoves DEF SequenceOK, InFlight
      <3>5. CheckpointOK'
        BY <3>1 DEF CheckpointOK, InFlight
      <3>6. ReplyOK'
        BY <1>1, <1>14, <3>1 DEF ReplyOK
      <3> QED BY <1>11, <1>12, <1>13, <3>2, <3>4, <3>5, <3>6
    <2>4. CASE ~(PromptCheckpoint /\ ~KeepCheckpoint)
      <3>1. ToDecode
        BY <1>1, <1>18, <2>4
      <3>2. /\ pc' \in {"first", "decode"} /\ (pc' = "first" => Speculates)
            /\ (pc' = "decode" => ~Speculates) /\ Speculates' = Speculates
        BY <1>1, <3>1, DecodeBegins DEF Speculates
      <3>3. LocalsOK'
        BY <1>1, <1>3, <1>8, <2>1, <3>2 DEF LocalsOK, InFlight
      <3>4. SplitAt = Len(req.toks) /\ (PromptCheckpoint => CkptLen = Len(checkpoint) /\ hasCheckpoint)
        BY <1>3, <2>4, NotSplit
      <3>5. SequenceBecomes(Prompt)
        BY <1>3, <2>2, <3>4, WholePrompt
      <3>6. Consumed' = Prompt
        <4>1. Consumed' = Prompt' \o Plain(committed')
          BY <3>2 DEF Consumed
        <4> QED BY <1>1, <1>3, <1>8, <1>14, <4>1, WholePrompt
      <3>7. SequenceOK'
        BY <1>1, <3>2, <3>5, <3>6, SequenceMoves DEF SequenceOK, InFlight
      <3>8. CheckpointOK'
        BY <1>1, <1>2, <1>8, <1>16, <3>2, <3>4 DEF CheckpointOK, CheckpointIs, Gemma, InFlight
      <3>9. ReplyOK'
        BY <1>1, <1>14, <3>2 DEF ReplyOK
      <3> QED BY <1>11, <1>12, <1>13, <3>3, <3>7, <3>8, <3>9
    <2> QED BY <2>3, <2>4
  <1> QED BY <1>17, <1>18

(* SaveCheckpoint: what is saved is the history of the prompt up to where  *)
(* it is split, the length Commit will claim.                              *)
LEMMA SaveStep == IInv /\ SaveCheckpoint => IInv'
  <1> SUFFICES ASSUME IInv, SaveCheckpoint PROVE IInv'
    OBVIOUS
  <1> USE DEF IInv
  <1>1. /\ pc = "save" /\ ckptPos' = Len(kv) /\ ckptGdn' = gdn /\ ckptSliding' = sliding
        /\ IF Back > 0 THEN pc' = "tail" /\ UNCHANGED next ELSE ToDecode
        /\ UNCHANGED <<req, skip, off, generated, committed, prefixVars, kv, gdn, sliding, draft,
                       atPrefillEnd, health, load>>
    BY DEF SaveCheckpoint
  <1>2. UNCHANGED <<fed, fedImages, needsReset, checkpoint, hasCheckpoint>>
    BY <1>1 DEF prefixVars
  <1>3. /\ req \in Prompts /\ skip \in Nat /\ off = 0 /\ skip < Len(req.toks) /\ ModelTypes
        /\ PromptCheckpoint /\ ~KeepCheckpoint /\ Len(req.toks) \in Nat
    BY <1>1, ModelTyped, PromptFacts DEF LocalsOK, TypeOK, InFlight
  <1>4. SplitOK
    BY <1>3, SplitFacts
  <1>5. SplitAt \in Nat /\ SplitAt <= Len(req.toks) /\ skip < SplitAt /\ Back \in Nat
        /\ SplitAt = Len(req.toks) - Back
    BY <1>4 DEF SplitOK
  <1>6. SequenceIs(SubSeq(Prompt, 1, SplitAt))
    BY <1>1 DEF SequenceOK, InFlight, Consumed
  <1>7. /\ SplitAt' = SplitAt /\ CkptLen' = CkptLen /\ Prompt' = Prompt /\ Back' = Back
    BY <1>1, <1>2, Unmoved
  <1>8. CkptLen = SplitAt
    BY <1>3 DEF CkptLen, SplitAt
  <1>9. Prompt \in History /\ Len(Prompt) = Len(req.toks)
        /\ SubSeq(Prompt, 1, Len(req.toks)) = Prompt /\ Prompt \o Plain(<<>>) = Prompt
    BY <1>3, WholePrompt
  <1>10. /\ kv = SubSeq(Prompt, 1, SplitAt) /\ Len(kv) = SplitAt
         /\ IF Gemma THEN RingHolds(sliding, SubSeq(Prompt, 1, SplitAt)) ELSE gdn = SubSeq(Prompt, 1, SplitAt)
    <2>1. SplitAt \in 0..Len(Prompt)
      BY <1>3, <1>5, <1>9
    <2>2. Len(SubSeq(Prompt, 1, SplitAt)) = SplitAt
      BY <1>9, <2>1, Prefixed
    <2> QED BY <1>6, <2>2 DEF SequenceIs
  <1>11. pc' \in {"tail", "first", "decode"} /\ next' \in Token
         /\ (pc' = "tail" <=> Back > 0) /\ (pc' = "first" => Speculates) /\ (pc' = "decode" => ~Speculates)
         /\ Speculates' = Speculates
    BY <1>1, DecodeBegins DEF TypeOK, Speculates
  <1>12. TypeOK'
    <2>1. ModelTypes'
      BY <1>1, <1>3 DEF ModelTypes
    <2>2. OtherTypes'
      BY <1>1, <1>2, <1>3, <1>5, <1>10, <1>11, TypesSplit DEF OtherTypes, ModelTypes, Phases
    <2>3. (TypeOK <=> ModelTypes /\ OtherTypes)'
      BY TypesSplit, PTL
    <2> QED BY <2>1, <2>2, <2>3
  <1>13. LocalsOK'
    <2>1. pc' = "tail" => Back' > 0 /\ off' < Back'
      BY <1>1, <1>3, <1>5, <1>7, <1>11
    <2> QED BY <1>1, <1>3, <1>11, <2>1 DEF LocalsOK, InFlight
  <1>14. PrefixOK'
    BY <1>2 DEF PrefixOK
  <1>15. generated = <<>> /\ committed = <<>>
    BY <1>1 DEF ReplyOK
  <1>16. SequenceOK'
    <2>1. SequenceBecomes(SubSeq(Prompt, 1, SplitAt))
      BY <1>1, <1>6, SequenceStays
    <2>2. Consumed' = SubSeq(Prompt, 1, SplitAt)
      <3>1. CASE pc' = "tail"
        <4>1. Consumed' = SubSeq(Prompt', 1, SplitAt' + off')
          BY <3>1 DEF Consumed
        <4>2. SplitAt' + off' = SplitAt
          BY <1>1, <1>3, <1>5, <1>7
        <4> QED BY <1>7, <4>1, <4>2
      <3>2. CASE pc' # "tail"
        <4>1. Consumed' = Prompt' \o Plain(committed')
          BY <1>11, <3>2 DEF Consumed
        <4>2. SplitAt = Len(req.toks)
          BY <1>3, <1>5, <1>11, <3>2
        <4> QED BY <1>1, <1>7, <1>9, <1>15, <4>1, <4>2
      <3> QED BY <3>1, <3>2
    <2>3. SequenceIs(Consumed)'
      BY <1>1, <2>1, <2>2, SequenceMoves
    <2> QED BY <1>11, <2>3 DEF SequenceOK, InFlight
  <1>17. CheckpointOK'
    <2>1. SplitAt \in 1..Len(Prompt)
      BY <1>3, <1>5, <1>9
    <2>2. CheckpointIs(CkptLen, Prompt)'
      BY <1>1, <1>7, <1>8, <1>10, <2>1 DEF CheckpointIs, Gemma
    <2> QED BY <1>11, <2>2 DEF CheckpointOK, InFlight
  <1>18. ReplyOK'
    BY <1>1, <1>11, <1>15 DEF ReplyOK
  <1>19. FailureOK'
    BY <1>1, <1>2, <1>11 DEF FailureOK, InFlight
  <1> QED BY <1>12, <1>13, <1>14, <1>16, <1>17, <1>18, <1>19

(* The second half: text only, chunk by chunk.                             *)
LEMMA TailStep == IInv /\ PrefillTail => IInv'
  <1> SUFFICES ASSUME IInv, PrefillTail PROVE IInv'
    OBVIOUS
  <1> USE DEF IInv
  <1> DEFINE total == Len(req.toks)
             end == NextEnd(SplitAt, total)
  <1>1. /\ pc = "tail" /\ FeedPrompt(SplitAt, total)
        /\ IF SplitAt + end < total THEN UNCHANGED <<pc, next>> ELSE ToDecode
        /\ UNCHANGED <<req, skip, generated, committed, prefixVars, checkpointVars, health, load>>
    BY DEF PrefillTail
  <1>2. UNCHANGED <<fed, fedImages, needsReset, checkpoint, hasCheckpoint,
                    ckptPos, ckptGdn, ckptSliding>>
    BY <1>1 DEF prefixVars, checkpointVars
  <1>3. /\ req \in Prompts /\ skip \in Nat /\ off \in Nat /\ skip < total
        /\ load \in Loads /\ ModelTypes /\ total \in Nat /\ Back > 0 /\ off < Back
    BY <1>1, ModelTyped, PromptFacts DEF LocalsOK, TypeOK, InFlight
  <1>4. SplitAt \in Nat /\ SplitAt <= total /\ SplitAt = total - Back /\ Back \in Nat
    BY <1>3, SplitFacts DEF SplitOK
  <1>5. SequenceIs(SubSeq(Prompt, 1, SplitAt + off))
    BY <1>1 DEF SequenceOK, InFlight, Consumed
  <1>6. SoundBlocks(ImageBlocks(SplitAt, total), total - SplitAt) /\ CutsNone(ImageBlocks(SplitAt, total), off)
    BY <1>3, TailHasNoBlocks DEF SoundBlocks, CutsNone
  <1>7. /\ end \in Nat /\ off < end /\ end <= total - SplitAt
        /\ SequenceBecomes(SubSeq(Prompt, 1, SplitAt + end)) /\ ModelTypes'
        /\ atPrefillEnd' \in BOOLEAN
        /\ off' = IF end = total - SplitAt THEN 0 ELSE end
    <2>1. SplitAt + off < total /\ total <= Len(req.toks)
      BY <1>3, <1>4
    <2> HIDE DEF total
    <2> QED BY <1>1, <1>3, <1>4, <1>5, <1>6, <2>1, PromptIsFed
  <1>8. Len(req.toks)' = total
    BY <1>1
  <1> HIDE DEF end, total
  <1>9. /\ SplitAt' = SplitAt /\ CkptLen' = CkptLen /\ Prompt' = Prompt /\ Back' = Back
    BY <1>1, <1>2, Unmoved
  <1>10. pc' \in {"tail", "first", "decode"} /\ next' \in Token
         /\ (pc' = "first" => Speculates) /\ (pc' = "decode" => ~Speculates)
         /\ (pc' = "tail" <=> SplitAt + end < total)
         /\ Speculates' = Speculates
    BY <1>1, DecodeBegins DEF TypeOK, Speculates
  <1>11. TypeOK'
    <2>1. OtherTypes'
      BY <1>1, <1>2, <1>7, <1>10, TypesSplit DEF OtherTypes, Phases
    <2>2. (TypeOK <=> ModelTypes /\ OtherTypes)'
      BY TypesSplit, PTL
    <2> QED BY <1>7, <2>1, <2>2
  <1>12. PrefixOK'
    BY <1>2 DEF PrefixOK
  <1>13. generated = <<>> /\ committed = <<>>
    BY <1>1 DEF ReplyOK
  <1>14. IF pc' = "tail" THEN off' = end ELSE off' = 0 /\ SplitAt + end = total
    BY <1>3, <1>4, <1>7, <1>10
  <1>15. LocalsOK'
    <2>1. pc' = "tail" => Back' > 0 /\ off' < Back'
      BY <1>3, <1>4, <1>7, <1>9, <1>10, <1>14
    <2>2. skip' < Len(req.toks)'
      BY <1>1, <1>3, <1>8
    <2> QED BY <1>1, <1>3, <1>10, <1>14, <2>1, <2>2 DEF LocalsOK, InFlight
  <1>16. SequenceOK'
    <2>1. Consumed' = SubSeq(Prompt, 1, SplitAt + end)
      <3>1. CASE pc' = "tail"
        BY <1>9, <1>14, <3>1 DEF Consumed
      <3>2. CASE pc' # "tail"
        <4>1. Consumed' = Prompt' \o Plain(committed')
          BY <1>10, <3>2 DEF Consumed
        <4>2. Consumed' = Prompt
          BY <1>1, <1>3, <1>9, <1>13, <4>1, WholePrompt
        <4>3. SubSeq(Prompt, 1, SplitAt + end) = Prompt
          BY <1>3, <1>14, <3>2, WholePrompt DEF total
        <4> QED BY <4>2, <4>3
      <3> QED BY <3>1, <3>2
    <2>2. SequenceIs(Consumed)'
      BY <1>1, <1>7, <2>1, SequenceMoves
    <2> QED BY <1>10, <2>2 DEF SequenceOK, InFlight
  <1>17. CheckpointOK'
    <2>1. PromptCheckpoint => CheckpointIs(CkptLen, Prompt)
      BY <1>1 DEF CheckpointOK, InFlight
    <2>2. PromptCheckpoint => CheckpointIs(CkptLen, Prompt)'
      BY <1>1, <1>2, <1>9, <2>1 DEF CheckpointIs, Gemma
    <2> QED BY <1>10, <2>2 DEF CheckpointOK, InFlight
  <1>18. ReplyOK'
    BY <1>1, <1>10, <1>13 DEF ReplyOK
  <1>19. FailureOK'
    BY <1>1, <1>2, <1>10 DEF FailureOK, InFlight
  <1> QED BY <1>11, <1>12, <1>15, <1>16, <1>17, <1>18, <1>19

-----------------------------------------------------------------------------
(* What the decode loops show, and what they feed.                         *)

\* a prefix of a sequence of tokens
LEMMA TokenPrefix ==
  ASSUME NEW s \in Seq(Token), NEW n \in 0..Len(s)
  PROVE  /\ SubSeq(s, 1, n) \in Seq(Token) /\ Len(SubSeq(s, 1, n)) = n
         /\ \A i \in 1..n : SubSeq(s, 1, n)[i] = s[i]
  OBVIOUS

\* what two sequences of tokens, one after the other, hold
LEMMA TokenJoin ==
  ASSUME NEW a \in Seq(Token), NEW b \in Seq(Token)
  PROVE  /\ a \o b \in Seq(Token) /\ Len(a \o b) = Len(a) + Len(b)
         /\ Len(a) \in Nat /\ Len(b) \in Nat
         /\ \A i \in 1..Len(a) : (a \o b)[i] = a[i]
         /\ \A i \in 1..Len(b) : (a \o b)[Len(a) + i] = b[i]
  OBVIOUS

LEMMA TokensAssociative ==
  ASSUME NEW a \in Seq(Token), NEW b \in Seq(Token), NEW c \in Seq(Token)
  PROVE  (a \o b) \o c = a \o (b \o c)
  BY ConcatAssociative

\* one token
LEMMA OneToken ==
  ASSUME NEW t \in Token
  PROVE  <<t>> \in Seq(Token) /\ Len(<<t>>) = 1 /\ <<t>>[1] = t
  OBVIOUS

(* RoundDisplayed shows the first tokens of the round.                     *)
LEMMA DisplayedIsPrefix ==
  ASSUME NEW round \in Seq(Token), NEW remaining
  PROVE  \E m \in 0..Len(round) : RoundDisplayed(round, remaining) = SubSeq(round, 1, m)
  <1> DEFINE stops == {i \in 1..Len(round) : round[i] = Eos \/ i > remaining}
             Before(i) == \A j \in stops : i < j
             free == {i \in 1..Len(round) : Before(i)}
  <1>1. RoundDisplayed(round, remaining) = SubSeq(round, 1, Cardinality(free))
    BY DEF RoundDisplayed
  <1>2. Len(round) \in Nat /\ free \in SUBSET (1..Len(round))
    OBVIOUS
  <1> HIDE DEF free
  <1>3. IsFiniteSet(1..Len(round)) /\ Cardinality(1..Len(round)) = Len(round)
    <2>1. /\ IsFiniteSet(1..Len(round))
          /\ Cardinality(1..Len(round)) = IF 1 > Len(round) THEN 0 ELSE Len(round) - 1 + 1
      BY <1>2, FS_Interval
    <2> DEFINE c == Cardinality(1..Len(round))
    <2>2. c = IF 1 > Len(round) THEN 0 ELSE Len(round) - 1 + 1
      BY <2>1
    <2> HIDE DEF c
    <2>3. c = Len(round)
      BY <1>2, <2>2
    <2> QED BY <2>1, <2>3 DEF c
  <1>4. IsFiniteSet(free) /\ Cardinality(free) <= Len(round)
    BY <1>2, <1>3, FS_Subset
  <1>5. Cardinality(free) \in Nat
    BY <1>4, FS_CardinalityType
  <1>6. Cardinality(free) \in 0..Len(round)
    BY <1>2, <1>4, <1>5
  <1> QED BY <1>1, <1>6

(* A round ahead of what was committed: the reply is ahead by at most the  *)
(* round's last token, and by exactly that one when all of it is shown.    *)
LEMMA RoundReply ==
  ASSUME NEW base \in Seq(Token), NEW round \in Seq(Token), Len(round) > 0,
         NEW shown \in 0..Len(round)
  PROVE  LET reply == base \o SubSeq(round, 1, shown)
             kept == base \o AllButLast(round)
         IN /\ reply \in Seq(Token) /\ kept \in Seq(Token)
            /\ Len(reply) <= Len(kept) + 1
            /\ \A i \in 1..Len(reply) : i <= Len(kept) => reply[i] = kept[i]
            /\ shown = Len(round) => reply = kept \o <<round[Len(round)]>>
  <1> DEFINE x == SubSeq(round, 1, shown)
             y == AllButLast(round)
             reply == base \o x
             kept == base \o y
             n == Len(round)
  <1>1. n \in Nat /\ n >= 1 /\ shown \in Nat /\ shown <= n /\ n - 1 \in 0..n /\ Len(base) \in Nat
    OBVIOUS
  <1>2. x \in Seq(Token) /\ Len(x) = shown /\ \A i \in 1..shown : x[i] = round[i]
    BY TokenPrefix
  <1>3. y \in Seq(Token) /\ Len(y) = n - 1 /\ \A i \in 1..n - 1 : y[i] = round[i]
    BY <1>1, TokenPrefix DEF AllButLast
  <1> HIDE DEF x, y
  <1>4. /\ reply \in Seq(Token) /\ Len(reply) = Len(base) + Len(x)
        /\ \A i \in 1..Len(base) : reply[i] = base[i]
        /\ \A i \in 1..Len(x) : reply[Len(base) + i] = x[i]
    BY <1>2, TokenJoin
  <1>5. /\ kept \in Seq(Token) /\ Len(kept) = Len(base) + Len(y)
        /\ \A i \in 1..Len(base) : kept[i] = base[i]
        /\ \A i \in 1..Len(y) : kept[Len(base) + i] = y[i]
    BY <1>3, TokenJoin
  <1> HIDE DEF reply, kept, n
  <1>6. Len(reply) <= Len(kept) + 1
    BY <1>1, <1>2, <1>3, <1>4, <1>5
  <1>7. ASSUME NEW i \in 1..Len(reply), i <= Len(kept) PROVE reply[i] = kept[i]
    <2>1. i \in Nat /\ i >= 1 /\ i <= Len(base) + shown /\ i <= Len(base) + (n - 1)
      BY <1>1, <1>2, <1>3, <1>4, <1>5, <1>7
    <2>2. CASE i <= Len(base)
      <3>1. i \in 1..Len(base)
        BY <1>1, <2>1, <2>2
      <3> QED BY <1>4, <1>5, <3>1
    <2>3. CASE i > Len(base)
      <3> DEFINE j == i - Len(base)
      <3>1. j \in 1..shown /\ j \in 1..n - 1 /\ Len(base) + j = i
        BY <1>1, <2>1, <2>3
      <3> HIDE DEF j
      <3> QED BY <1>2, <1>3, <1>4, <1>5, <3>1
    <2> QED BY <1>1, <2>1, <2>2, <2>3
  <1>8. ASSUME shown = n PROVE reply = kept \o <<round[n]>>
    <2>1. round[n] \in Token
      BY <1>1, ElementOfSeq DEF n
    <2> DEFINE z == <<round[n]>>
    <2>2. z \in Seq(Token) /\ Len(z) = 1 /\ z[1] = round[n]
      BY <2>1, OneToken
    <2> HIDE DEF z
    <2>3. /\ kept \o z \in Seq(Token) /\ Len(kept \o z) = Len(kept) + Len(z)
          /\ \A i \in 1..Len(kept) : (kept \o z)[i] = kept[i]
          /\ \A i \in 1..Len(z) : (kept \o z)[Len(kept) + i] = z[i]
      BY <1>5, <2>2, TokenJoin
    <2>4. Len(reply) = Len(base) + n /\ Len(kept) = Len(base) + (n - 1)
          /\ Len(reply) = Len(kept) + 1
      BY <1>1, <1>2, <1>3, <1>4, <1>5, <1>8
    <2>5. ASSUME NEW i \in 1..Len(reply) PROVE reply[i] = (kept \o z)[i]
      <3>1. CASE i <= Len(kept)
        <4>1. i \in 1..Len(kept)
          BY <1>1, <2>4, <3>1
        <4> QED BY <1>7, <2>3, <4>1, <3>1
      <3>2. CASE i > Len(kept)
        <4>1. i = Len(kept) + 1 /\ i = Len(base) + n /\ n \in 1..Len(x) /\ 1 \in 1..Len(z)
          BY <1>1, <1>2, <1>8, <2>2, <2>4, <3>2
        <4>2. reply[Len(base) + n] = x[n] /\ x[n] = round[n]
          BY <1>2, <1>4, <1>8, <4>1
        <4>3. (kept \o z)[Len(kept) + 1] = z[1]
          BY <2>3, <4>1
        <4> QED BY <2>2, <4>1, <4>2, <4>3
      <3>3. i <= Len(kept) \/ i > Len(kept)
        BY <1>1, <2>4
      <3> QED BY <3>1, <3>2, <3>3
    <2>6. Len(reply) = Len(kept \o z)
      BY <2>2, <2>3, <2>4
    <2>7. reply = kept \o z
      BY <1>4, <2>3, <2>5, <2>6, SeqEqual
    <2> QED BY <2>7 DEF z
  <1> QED BY <1>4, <1>5, <1>6, <1>7, <1>8 DEF x, y, reply, kept, n

(* In the decode loops the reply is ahead of what was committed by the     *)
(* pending token at most.                                                  *)
LEMMA ReplyAhead ==
  ASSUME TypeOK, pc = "decode", ReplyOK
  PROVE  ReplyIsFed
  <1>1. committed \in Seq(Token) /\ next \in Token /\ Len(committed) \in Nat
    BY DEF TypeOK
  <1>2. CASE Speculates
    <2>1. generated = committed \o <<next>>
      BY <1>2 DEF ReplyOK
    <2> DEFINE s == <<next>>
    <2>2. s \in Seq(Token) /\ Len(s) = 1
      BY <1>1, OneToken
    <2> HIDE DEF s
    <2>3. Len(committed \o s) = Len(committed) + Len(s)
          /\ \A i \in 1..Len(committed) : (committed \o s)[i] = committed[i]
      BY <1>1, <2>2, TokenJoin
    <2>4. Len(generated) = Len(committed) + 1
          /\ \A i \in 1..Len(committed) : generated[i] = committed[i]
      BY <2>1, <2>2, <2>3 DEF s
    <2> QED BY <1>1, <2>4 DEF ReplyIsFed
  <1>3. CASE ~Speculates
    <2>1. generated = committed \o <<>>
      BY <1>3 DEF ReplyOK
    <2>2. generated = committed
      BY <1>1, <2>1, ConcatEmptySeq
    <2> QED BY <1>1, <2>2 DEF ReplyIsFed
  <1> QED BY <1>2, <1>3

(* Feeding decoded tokens continues what was consumed.                     *)
LEMMA ConsumedMore ==
  ASSUME req \in Prompts, NEW done \in Seq(Token), NEW more \in Seq(Token)
  PROVE  (Prompt \o Plain(done)) \o Plain(more) = Prompt \o Plain(done \o more)
  <1>1. Prompt \in History /\ Plain(done) \in History /\ Plain(more) \in History
    BY WholePrompt, PlainType
  <1>2. Plain(done \o more) = Plain(done) \o Plain(more)
    BY PlainJoin
  <1> QED BY <1>1, <1>2, ConcatAssociative DEF History

(* What the decode loops leave alone.                                      *)
LEMMA DecodeKeeps ==
  ASSUME IInv, pc \in {"first", "decode"}, pc' \in {"decode", "finish"},
         UNCHANGED <<req, skip, off, prefixVars, checkpointVars, health, load>>
  PROVE  /\ LocalsOK' /\ PrefixOK' /\ CheckpointOK' /\ FailureOK'
         /\ req \in Prompts /\ Prompt' = Prompt /\ Speculates' = Speculates
         /\ SequenceIs(Prompt \o Plain(committed))
         /\ Consumed' = Prompt \o Plain(committed')
         /\ InFlight'
  <1> USE DEF IInv
  <1>1. UNCHANGED <<req, skip, off, fed, fedImages, needsReset, checkpoint, hasCheckpoint,
                    ckptPos, ckptGdn, ckptSliding, health, load>>
    BY DEF prefixVars, checkpointVars
  <1>2. CkptLen' = CkptLen /\ Prompt' = Prompt
    BY <1>1, Unmoved
  <1>3. req \in Prompts /\ skip < Len(req.toks) /\ off = 0
    BY DEF LocalsOK, InFlight
  <1>4. LocalsOK'
    BY <1>1, <1>3 DEF LocalsOK, InFlight
  <1>5. PrefixOK'
    BY <1>1 DEF PrefixOK
  <1>6. CheckpointOK'
    <2>1. PromptCheckpoint => CheckpointIs(CkptLen, Prompt)
      BY DEF CheckpointOK, InFlight
    <2>2. PromptCheckpoint => CheckpointIs(CkptLen, Prompt)'
      BY <1>1, <1>2, <2>1 DEF CheckpointIs, Gemma
    <2> QED BY <2>2 DEF CheckpointOK, InFlight
  <1>7. FailureOK'
    BY <1>1 DEF FailureOK, InFlight
  <1>8. SequenceIs(Prompt \o Plain(committed))
    BY DEF SequenceOK, InFlight, Consumed
  <1>9. Consumed' = Prompt \o Plain(committed')
    BY <1>2 DEF Consumed
  <1> QED BY <1>1, <1>2, <1>3, <1>4, <1>5, <1>6, <1>7, <1>8, <1>9 DEF Speculates, InFlight

LEMMA FirstTokenStep == IInv /\ FirstToken => IInv'
  <1> SUFFICES ASSUME IInv, FirstToken PROVE IInv'
    OBVIOUS
  <1> USE DEF IInv
  <1>1. /\ pc = "first" /\ pc' \in {"decode", "finish"}
        /\ \/ pc' = "finish" /\ generated' = generated
           \/ generated' = Append(generated, next)
        /\ UNCHANGED <<req, skip, off, next, committed, prefixVars, modelVars>>
    BY DEF FirstToken
  <1>2. UNCHANGED <<fed, fedImages, needsReset, checkpoint, hasCheckpoint, kv, gdn, sliding, draft,
                    ckptPos, ckptGdn, ckptSliding, atPrefillEnd, health, load>>
    BY <1>1 DEF prefixVars, modelVars, checkpointVars
  <1>3. /\ LocalsOK' /\ PrefixOK' /\ CheckpointOK' /\ FailureOK'
        /\ req \in Prompts /\ Prompt' = Prompt /\ Speculates' = Speculates
        /\ SequenceIs(Prompt \o Plain(committed))
        /\ Consumed' = Prompt \o Plain(committed')
        /\ InFlight'
    <2>1. UNCHANGED <<req, skip, off, prefixVars, checkpointVars, health, load>>
      BY <1>1, <1>2 DEF checkpointVars
    <2> QED BY <1>1, <2>1, DecodeKeeps
  <1>4. generated = <<>> /\ committed = <<>> /\ next \in Token /\ Speculates
    BY <1>1 DEF ReplyOK, TypeOK, LocalsOK
  <1>5. Append(<<>>, next) = <<>> \o <<next>> /\ Append(<<>>, next) \in Seq(Token)
        /\ Len(Append(<<>>, next)) = 1
    BY <1>4
  <1>6. TypeOK'
    <2>1. ModelTypes' /\ OtherTypes'
      BY <1>1, <1>2, <1>4, <1>5, TypesSplit DEF ModelTypes, OtherTypes, Phases
    <2>2. (TypeOK <=> ModelTypes /\ OtherTypes)'
      BY TypesSplit, PTL
    <2> QED BY <2>1, <2>2
  <1>7. SequenceOK'
    <2>1. SequenceIs(Consumed)'
      BY <1>1, <1>2, <1>3, SequenceStays, SequenceMoves
    <2> QED BY <1>3, <2>1 DEF SequenceOK
  <1>8. ReplyOK'
    <2>1. CASE pc' = "decode"
      <3>1. generated' = committed' \o <<next'>>
        BY <1>1, <1>4, <1>5, <2>1
      <3> QED BY <1>3, <1>4, <2>1, <3>1 DEF ReplyOK
    <2>2. CASE pc' = "finish"
      <3>1. ReplyIsFed'
        BY <1>1, <1>4, <1>5 DEF ReplyIsFed
      <3> QED BY <2>2, <3>1 DEF ReplyOK
    <2> QED BY <1>1, <2>1, <2>2
  <1> QED BY <1>3, <1>6, <1>7, <1>8

LEMMA StopDecodeStep == IInv /\ StopDecode => IInv'
  <1> SUFFICES ASSUME IInv, StopDecode PROVE IInv'
    OBVIOUS
  <1> USE DEF IInv
  <1>1. /\ pc = "decode" /\ pc' = "finish"
        /\ UNCHANGED <<req, skip, off, next, generated, committed, prefixVars, modelVars>>
    BY DEF StopDecode
  <1>2. UNCHANGED <<fed, fedImages, needsReset, checkpoint, hasCheckpoint, kv, gdn, sliding, draft,
                    ckptPos, ckptGdn, ckptSliding, atPrefillEnd, health, load>>
    BY <1>1 DEF prefixVars, modelVars, checkpointVars
  <1>3. /\ LocalsOK' /\ PrefixOK' /\ CheckpointOK' /\ FailureOK'
        /\ SequenceIs(Prompt \o Plain(committed))
        /\ Consumed' = Prompt \o Plain(committed')
        /\ InFlight'
    <2>1. UNCHANGED <<req, skip, off, prefixVars, checkpointVars, health, load>>
      BY <1>1, <1>2 DEF checkpointVars
    <2> QED BY <1>1, <2>1, DecodeKeeps
  <1>4. TypeOK'
    <2>1. ModelTypes' /\ OtherTypes'
      BY <1>1, <1>2, TypesSplit DEF ModelTypes, OtherTypes, Phases
    <2>2. (TypeOK <=> ModelTypes /\ OtherTypes)'
      BY TypesSplit, PTL
    <2> QED BY <2>1, <2>2
  <1>5. SequenceOK'
    <2>1. SequenceIs(Consumed)'
      BY <1>1, <1>2, <1>3, SequenceStays, SequenceMoves
    <2> QED BY <1>3, <2>1 DEF SequenceOK
  <1>6. ReplyOK'
    <2>1. ReplyIsFed
      BY <1>1, ReplyAhead
    <2>2. ReplyIsFed'
      BY <1>1, <2>1 DEF ReplyIsFed
    <2> QED BY <1>1, <2>2 DEF ReplyOK
  <1> QED BY <1>3, <1>4, <1>5, <1>6

(* A plain step feeds the token it shows.                                  *)
LEMMA DecodeStepStep == IInv /\ DecodeStep => IInv'
  <1> SUFFICES ASSUME IInv, DecodeStep PROVE IInv'
    OBVIOUS
  <1> USE DEF IInv
  <1>1. /\ pc = "decode" /\ ~Speculates /\ pc' \in {"decode", "finish"}
        /\ generated' = Append(generated, next) /\ committed' = Append(committed, next)
        /\ Feed(Plain(<<next>>), Causal(1)) /\ atPrefillEnd' = FALSE /\ next' \in Token
        /\ UNCHANGED <<req, skip, off, prefixVars, checkpointVars, health, load>>
    BY DEF DecodeStep
  <1>2. UNCHANGED <<fed, fedImages, needsReset, checkpoint, hasCheckpoint,
                    ckptPos, ckptGdn, ckptSliding>>
    BY <1>1 DEF prefixVars, checkpointVars
  <1>3. /\ LocalsOK' /\ PrefixOK' /\ CheckpointOK' /\ FailureOK'
        /\ req \in Prompts /\ Speculates' = Speculates
        /\ SequenceIs(Prompt \o Plain(committed))
        /\ Consumed' = Prompt \o Plain(committed')
        /\ InFlight'
    BY <1>1, DecodeKeeps
  <1>4. committed \in Seq(Token) /\ next \in Token /\ ModelTypes /\ generated \in Seq(Token)
    BY ModelTyped DEF TypeOK
  <1> DEFINE one == <<next>>
  <1>5. one \in Seq(Token) /\ Len(one) = 1 /\ Append(committed, next) = committed \o one
        /\ Append(committed, next) \in Seq(Token)
    BY <1>4, OneToken, AppendIsConcat
  <1>6. Feed(Plain(one), Causal(1))
    BY <1>1
  <1> HIDE DEF one
  <1>7. Plain(one) \in History /\ Len(Plain(one)) = 1
    BY <1>5, PlainType
  <1>8. kv = Prompt \o Plain(committed) /\ SequenceIs(kv)
    BY <1>3 DEF SequenceIs
  <1>9. SequenceBecomes(kv \o Plain(one)) /\ ModelTypes'
    <2>1. Window + 1 <= RingTokens
      BY Sizes
    <2>2. Feed(Plain(one), Causal(Len(Plain(one)))) /\ Len(Plain(one)) > 0
      BY <1>6, <1>7
    <2>3. Window + Len(Plain(one)) <= RingTokens
      BY <1>7, <2>1
    <2> QED BY <1>4, <1>7, <1>8, <2>2, <2>3, StepIsExact
  <1>10. Consumed' = kv \o Plain(one)
    BY <1>1, <1>3, <1>4, <1>5, <1>8, ConsumedMore
  <1>11. SequenceOK'
    <2>1. SequenceIs(Consumed)'
      BY <1>1, <1>9, <1>10, SequenceMoves
    <2> QED BY <1>3, <2>1 DEF SequenceOK
  <1>12. generated = committed
    <2>1. generated = committed \o <<>>
      BY <1>1 DEF ReplyOK
    <2> QED BY <1>4, <2>1, ConcatEmptySeq
  <1>13. TypeOK'
    <2>1. OtherTypes'
      BY <1>1, <1>2, <1>5, <1>12, TypesSplit DEF OtherTypes, Phases
    <2>2. (TypeOK <=> ModelTypes /\ OtherTypes)'
      BY TypesSplit, PTL
    <2> QED BY <1>9, <2>1, <2>2
  <1>14. ReplyOK'
    <2>1. generated' = committed' /\ committed' \in Seq(Token) /\ Len(committed') \in Nat
      BY <1>1, <1>5, <1>12
    <2>2. CASE pc' = "decode"
      <3>1. committed' \o <<>> = committed'
        BY <2>1, ConcatEmptySeq
      <3> QED BY <1>1, <1>3, <2>1, <2>2, <3>1 DEF ReplyOK
    <2>3. CASE pc' = "finish"
      <3>1. ReplyIsFed'
        BY <2>1 DEF ReplyIsFed
      <3> QED BY <2>3, <3>1 DEF ReplyOK
    <2> QED BY <1>1, <2>2, <2>3
  <1> QED BY <1>3, <1>11, <1>13, <1>14

(* A round feeds the pending token and all of the round but its last.      *)
LEMMA DecodeRoundStep ==
  \A round \in Rounds : \A shown \in 0..DraftK + 1 : \A rejected \in 0..DraftK :
    IInv /\ DecodeRound(round, rejected, shown) => IInv'
  <1> SUFFICES ASSUME NEW round \in Rounds, NEW shown \in 0..DraftK + 1,
                      NEW rejected \in 0..DraftK,
                      IInv, DecodeRound(round, rejected, shown)
               PROVE  IInv'
    OBVIOUS
  <1> USE DEF IInv
  <1> DEFINE displayed == RoundDisplayed(round, MaxTokens - Len(generated))
             stopHit == shown < Len(displayed)
  <1>1. /\ pc = "decode" /\ Speculates
        /\ FeedRound(Plain(<<next>> \o AllButLast(round)), rejected) /\ atPrefillEnd' = FALSE
        /\ committed' = (committed \o <<next>>) \o AllButLast(round)
        /\ shown \in 0..Len(displayed)
        /\ generated' = generated \o SubSeq(displayed, 1, shown)
        /\ next' = IF shown > 0 THEN displayed[shown] ELSE next
        /\ IF stopHit \/ Len(displayed) < Len(round)
             THEN pc' = "finish" ELSE pc' \in {"decode", "finish"}
        /\ UNCHANGED <<req, skip, off, prefixVars, checkpointVars, health, load>>
    BY DEF DecodeRound, RoundCommitted
  <1>2. UNCHANGED <<fed, fedImages, needsReset, checkpoint, hasCheckpoint,
                    ckptPos, ckptGdn, ckptSliding>>
    BY <1>1 DEF prefixVars, checkpointVars
  <1>3. /\ LocalsOK' /\ PrefixOK' /\ CheckpointOK' /\ FailureOK'
        /\ req \in Prompts /\ Speculates' = Speculates
        /\ SequenceIs(Prompt \o Plain(committed))
        /\ Consumed' = Prompt \o Plain(committed')
        /\ InFlight'
    BY <1>1, DecodeKeeps
  <1>4. committed \in Seq(Token) /\ next \in Token /\ ModelTypes /\ load \in Loads
    BY ModelTyped DEF TypeOK
  <1>5. round \in Seq(Token) /\ Len(round) \in Nat /\ Len(round) > 0
    <2>1. PICK n \in 1..DraftK + 1 : round \in [1..n -> Token]
      BY DEF Rounds
    <2>2. n \in Nat /\ n > 0
      BY <2>1, BoundAssumption
    <2> QED BY <2>1, <2>2
  <1>6. PICK m \in 0..Len(round) : displayed = SubSeq(round, 1, m)
    BY <1>5, DisplayedIsPrefix
  <1>7. m \in Nat /\ m <= Len(round) /\ Len(displayed) = m
        /\ \A i \in 1..m : displayed[i] = round[i]
    BY <1>5, <1>6, TokenPrefix
  <1> DEFINE one == <<next>>
             rest == AllButLast(round)
             base == committed \o one
  <1> HIDE DEF displayed
  <1>8. shown \in 0..Len(round) /\ shown \in Nat /\ shown <= m
    BY <1>1, <1>5, <1>7
  <1>9. SubSeq(displayed, 1, shown) = SubSeq(round, 1, shown)
    <2>1. displayed \in Seq(Token) /\ shown \in 0..Len(displayed)
      BY <1>1, <1>5, <1>6, TokenPrefix
    <2>2. /\ SubSeq(displayed, 1, shown) \in Seq(Token) /\ Len(SubSeq(displayed, 1, shown)) = shown
          /\ \A i \in 1..shown : SubSeq(displayed, 1, shown)[i] = displayed[i]
      BY <2>1, TokenPrefix
    <2>3. /\ SubSeq(round, 1, shown) \in Seq(Token) /\ Len(SubSeq(round, 1, shown)) = shown
          /\ \A i \in 1..shown : SubSeq(round, 1, shown)[i] = round[i]
      BY <1>5, <1>8, TokenPrefix
    <2>4. \A i \in 1..shown : SubSeq(displayed, 1, shown)[i] = SubSeq(round, 1, shown)[i]
      BY <1>7, <1>8, <2>2, <2>3
    <2> QED BY <2>2, <2>3, <2>4, SeqEqual
  <1>10. one \in Seq(Token) /\ Len(one) = 1
    BY <1>4, OneToken
  <1>11. rest \in Seq(Token) /\ Len(rest) = Len(round) - 1
    <2>1. Len(round) - 1 \in 0..Len(round)
      BY <1>5
    <2> QED BY <1>5, <2>1, TokenPrefix DEF AllButLast
  <1>12. generated = base
    BY <1>1 DEF ReplyOK
  <1>13. FeedRound(Plain(one \o rest), rejected) /\ committed' = base \o rest
    BY <1>1
  <1> HIDE DEF one, rest
  <1>14. base \in Seq(Token)
    BY <1>4, <1>10, TokenJoin
  <1>15. one \o rest \in Seq(Token) /\ Len(one \o rest) > 0
    <2>1. Len(one \o rest) = Len(one) + Len(rest) /\ one \o rest \in Seq(Token)
      BY <1>10, <1>11, TokenJoin
    <2> QED BY <1>5, <1>10, <1>11, <2>1
  <1>16. committed' = committed \o (one \o rest)
    <2>1. (committed \o one) \o rest = committed \o (one \o rest)
      BY <1>4, <1>10, <1>11, TokensAssociative
    <2> QED BY <1>13, <2>1
  <1>17. Plain(one \o rest) \in History /\ Len(Plain(one \o rest)) > 0
    BY <1>15, PlainType
  <1>18. kv = Prompt \o Plain(committed) /\ SequenceIs(kv)
    BY <1>3 DEF SequenceIs
  <1>19. SequenceBecomes(kv \o Plain(one \o rest)) /\ ModelTypes'
    <2>1. load.drafter # "none" /\ rejected \in Nat
      BY <1>1, BoundAssumption DEF Speculates
    <2> QED BY <1>4, <1>13, <1>17, <1>18, <2>1, RoundIsExact
  <1>20. Consumed' = kv \o Plain(one \o rest)
    BY <1>3, <1>4, <1>15, <1>16, <1>18, ConsumedMore
  <1>21. SequenceOK'
    <2>1. SequenceIs(Consumed)'
      BY <1>1, <1>19, <1>20, SequenceMoves
    <2> QED BY <1>3, <2>1 DEF SequenceOK
  <1> HIDE DEF base
  <1>22. /\ generated' \in Seq(Token) /\ committed' \in Seq(Token)
         /\ Len(generated') <= Len(committed') + 1
         /\ \A i \in 1..Len(generated') : i <= Len(committed') => generated'[i] = committed'[i]
         /\ shown = Len(round) => generated' = committed' \o <<round[Len(round)]>>
    <2>1. generated' = base \o SubSeq(round, 1, shown) /\ committed' = base \o AllButLast(round)
      BY <1>1, <1>9, <1>12, <1>13 DEF rest
    <2> QED BY <1>5, <1>8, <1>14, <2>1, RoundReply
  <1>23. next' \in Token /\ (shown > 0 => next' = round[shown])
    <2>1. CASE shown > 0
      <3>1. shown \in 1..m /\ shown \in 1..Len(round)
        BY <1>5, <1>7, <1>8, <2>1
      <3>2. next' = round[shown] /\ round[shown] \in Token
        BY <1>1, <1>5, <1>7, <2>1, <3>1, ElementOfSeq
      <3> QED BY <3>2
    <2>2. CASE ~(shown > 0)
      BY <1>1, <1>4, <2>2
    <2> QED BY <2>1, <2>2
  <1>24. pc' \in {"decode", "finish"}
    BY <1>1
  <1>25. TypeOK'
    <2>1. OtherTypes'
      BY <1>1, <1>2, <1>22, <1>23, <1>24, TypesSplit DEF OtherTypes, Phases
    <2>2. (TypeOK <=> ModelTypes /\ OtherTypes)'
      BY TypesSplit, PTL
    <2> QED BY <1>19, <2>1, <2>2
  <1>26. ReplyOK'
    <2>1. CASE pc' = "finish"
      <3>1. ReplyIsFed'
        BY <1>22 DEF ReplyIsFed
      <3> QED BY <2>1, <3>1 DEF ReplyOK
    <2>2. CASE pc' = "decode"
      <3>1. ~stopHit /\ ~(Len(displayed) < Len(round))
        BY <1>1, <2>2
      <3>2. shown = Len(round) /\ shown > 0
        BY <1>5, <1>7, <1>8, <3>1
      <3>3. generated' = committed' \o <<next'>>
        BY <1>22, <1>23, <3>2
      <3> QED BY <1>1, <1>3, <2>2, <3>3 DEF ReplyOK
    <2> QED BY <1>24, <2>1, <2>2
  <1> QED BY <1>3, <1>21, <1>25, <1>26

-----------------------------------------------------------------------------
(* The end of a request.                                                   *)

(* Commit claims what was consumed: the prompt and the committed tokens.   *)
LEMMA FinishStep == IInv /\ Finish => IInv'
  <1> SUFFICES ASSUME IInv, Finish PROVE IInv'
    OBVIOUS
  <1> USE DEF IInv
  <1>1. /\ pc = "finish" /\ fed' = req.toks \o committed /\ fedImages' = req.images
        /\ needsReset' = FALSE
        /\ IF CkptLen \in 1..Len(req.toks)
             THEN checkpoint' = SubSeq(req.toks, 1, CkptLen) /\ hasCheckpoint' = TRUE
             ELSE checkpoint' = <<>> /\ hasCheckpoint' = FALSE
        /\ pc' = "idle" /\ req' = NoRequest /\ skip' = 0 /\ off' = 0 /\ next' = Eos
        /\ generated' = <<>> /\ committed' = <<>>
        /\ UNCHANGED modelVars
    BY DEF Finish, Commit, EndRequest, DropCheckpoint
  <1>2. UNCHANGED <<kv, gdn, sliding, draft, ckptPos, ckptGdn, ckptSliding, atPrefillEnd, health, load>>
    BY <1>1 DEF modelVars, checkpointVars
  <1>3. /\ req \in Prompts /\ committed \in Seq(Token) /\ req.toks \in Seq(Token) /\ req.images \in Seq(Key)
        /\ Len(req.toks) \in Nat
    BY <1>1, PromptFacts DEF LocalsOK, TypeOK
  <1>4. fed' \in Seq(Token) /\ Len(fed') = Len(req.toks) + Len(committed) /\ Len(committed) \in Nat
        /\ \A i \in 1..Len(req.toks) : fed'[i] = req.toks[i]
    <2>1. /\ req.toks \o committed \in Seq(Token)
          /\ Len(req.toks \o committed) = Len(req.toks) + Len(committed)
          /\ \A i \in 1..Len(req.toks) : (req.toks \o committed)[i] = req.toks[i]
      BY <1>3, TokenJoin
    <2> QED BY <1>1, <1>3, <2>1
  <1>5. hasCheckpoint' =>
          /\ checkpoint' \in Seq(Token) /\ CkptLen \in 1..Len(req.toks) /\ Len(checkpoint') = CkptLen
          /\ checkpoint' = SubSeq(req.toks, 1, CkptLen)
          /\ \A i \in 1..CkptLen : checkpoint'[i] = req.toks[i]
    <2> SUFFICES ASSUME hasCheckpoint'
                 PROVE  /\ checkpoint' \in Seq(Token) /\ CkptLen \in 1..Len(req.toks)
                        /\ Len(checkpoint') = CkptLen
                        /\ checkpoint' = SubSeq(req.toks, 1, CkptLen)
                        /\ \A i \in 1..CkptLen : checkpoint'[i] = req.toks[i]
      OBVIOUS
    <2>1. CkptLen \in 1..Len(req.toks) /\ checkpoint' = SubSeq(req.toks, 1, CkptLen)
      BY <1>1
    <2>2. CkptLen \in 0..Len(req.toks)
      BY <1>3, <2>1
    <2>3. /\ SubSeq(req.toks, 1, CkptLen) \in Seq(Token) /\ Len(SubSeq(req.toks, 1, CkptLen)) = CkptLen
          /\ \A i \in 1..CkptLen : SubSeq(req.toks, 1, CkptLen)[i] = req.toks[i]
      BY <1>3, <2>2, TokenPrefix
    <2> QED BY <2>1, <2>3
  <1>6. checkpoint' \in Seq(Token) /\ hasCheckpoint' \in BOOLEAN
    BY <1>1, <1>5, Empties
  <1>7. TypeOK'
    <2>1. Eos \in Token
      BY DEF Token
    <2>2. OtherTypes'
      BY <1>1, <1>2, <1>3, <1>4, <1>6, <2>1, TypesSplit, Empties DEF OtherTypes, Phases
    <2>3. ModelTypes'
      BY <1>2, TypesSplit DEF ModelTypes
    <2>4. (TypeOK <=> ModelTypes /\ OtherTypes)'
      BY TypesSplit, PTL
    <2> QED BY <2>2, <2>3, <2>4
  <1>8. LocalsOK'
    BY <1>1 DEF LocalsOK, InFlight
  <1>9. PrefixOK'
    <2> SUFFICES ASSUME hasCheckpoint'
                 PROVE  /\ Len(checkpoint') <= Len(fed')
                        /\ checkpoint' = SubSeq(fed', 1, Len(checkpoint'))
      BY DEF PrefixOK
    <2>1. Len(checkpoint') = CkptLen /\ CkptLen \in 0..Len(fed') /\ Len(checkpoint') <= Len(fed')
          /\ CkptLen \in Nat /\ CkptLen <= Len(req.toks)
      BY <1>3, <1>4, <1>5
    <2>2. /\ SubSeq(fed', 1, CkptLen) \in Seq(Token) /\ Len(SubSeq(fed', 1, CkptLen)) = CkptLen
          /\ \A i \in 1..CkptLen : SubSeq(fed', 1, CkptLen)[i] = fed'[i]
      BY <1>4, <2>1, TokenPrefix
    <2>3. \A i \in 1..CkptLen : fed'[i] = req.toks[i] /\ checkpoint'[i] = req.toks[i]
      BY <1>3, <1>4, <1>5, <2>1
    <2>4. checkpoint' = SubSeq(fed', 1, CkptLen)
      BY <1>6, <2>1, <2>2, <2>3, SeqEqual
    <2> QED BY <2>1, <2>4
  <1>10. SequenceIs(Prompt \o Plain(committed))
    BY <1>1 DEF SequenceOK, InFlight, Consumed
  <1>11. Content(fed', fedImages') = Prompt \o Plain(committed)
    <2>1. Content(req.toks \o committed, req.images) = Content(req.toks, req.images) \o Plain(committed)
      BY <1>3, CommitContent
    <2> QED BY <1>1, <2>1 DEF Prompt
  <1>12. SequenceOK'
    <2>1. SequenceBecomes(Content(fed', fedImages'))
      BY <1>2, <1>10, <1>11, SequenceStays
    <2>2. SequenceIs(Content(fed, fedImages))'
      <3>1. kv' = Content(fed', fedImages')
            /\ (IF Gemma THEN RingHolds(sliding', Content(fed', fedImages')) ELSE gdn' = Content(fed', fedImages'))
            /\ (load.drafter = "dflash" => DraftKeeps(draft', Content(fed', fedImages')))
        BY <2>1 DEF SequenceBecomes
      <3>2. Content(fed, fedImages)' = Content(fed', fedImages')
        BY DEF Content, PiecesAt
      <3> QED BY <1>2, <3>1, <3>2 DEF SequenceIs, Gemma
    <2> QED BY <1>1, <2>2 DEF SequenceOK, InFlight
  <1>13. CheckpointOK'
    <2>1. ASSUME hasCheckpoint' PROVE CheckpointIs(Len(checkpoint), Content(fed, fedImages))'
      <3> DEFINE h == Content(fed', fedImages')
      <3>1. PromptCheckpoint /\ CkptLen \in 1..Len(req.toks)
        <4>1. CkptLen \in 1..Len(req.toks)
          BY <1>5, <2>1
        <4>2. ~PromptCheckpoint => CkptLen = 0
          BY DEF CkptLen, KeepCheckpoint
        <4> QED BY <4>1, <4>2, BoundAssumption
      <3>2. CheckpointIs(CkptLen, Prompt)
        BY <1>1, <3>1 DEF CheckpointOK, InFlight
      <3>3. Prompt \in History /\ Len(Prompt) = Len(req.toks) /\ Plain(committed) \in History
        BY <1>3, WholePrompt, PlainType
      <3>4. h = Prompt \o Plain(committed) /\ SubSeq(h, 1, CkptLen) = SubSeq(Prompt, 1, CkptLen)
        <4>1. CkptLen \in Nat /\ CkptLen <= Len(Prompt)
          BY <1>3, <3>1, <3>3
        <4>2. SubSeq(Prompt \o Plain(committed), 1, CkptLen) = SubSeq(Prompt, 1, CkptLen)
          BY <3>3, <4>1, PrefixOfJoined
        <4> QED BY <1>11, <4>2
      <3> HIDE DEF h
      <3>5. CkptLen \in 1..Len(h)
        <4>1. Len(h) = Len(Prompt) + Len(Plain(committed)) /\ Len(Plain(committed)) \in Nat
          BY <3>3, <3>4, Joined
        <4> QED BY <1>3, <3>1, <3>3, <4>1
      <3>6. /\ ckptPos' = CkptLen /\ CkptLen \in 1..Len(h)
            /\ IF Gemma' THEN RingHolds(ckptSliding', SubSeq(h, 1, CkptLen))
                         ELSE ckptGdn' = SubSeq(h, 1, CkptLen)
        BY <1>2, <3>2, <3>4, <3>5 DEF CheckpointIs, Gemma
      <3>7. Len(checkpoint)' = CkptLen /\ Content(fed, fedImages)' = h
        BY <1>5, <2>1 DEF Content, PiecesAt, h
      <3> QED BY <3>6, <3>7 DEF CheckpointIs
    <2> QED BY <1>1, <2>1 DEF CheckpointOK, InFlight
  <1>14. ReplyOK'
    BY <1>1 DEF ReplyOK
  <1>15. FailureOK'
    BY <1>1, <1>2 DEF FailureOK, InFlight
  <1> QED BY <1>7, <1>8, <1>9, <1>12, <1>13, <1>14, <1>15

\* after Invalidate only the types and the empty request matter
LEMMA Invalidated ==
  ASSUME TypeOK', Invalidate, EndRequest
  PROVE  IInv'
  <1>1. /\ needsReset' = TRUE /\ pc' = "idle" /\ req' = NoRequest /\ skip' = 0 /\ off' = 0
        /\ generated' = <<>> /\ committed' = <<>> /\ hasCheckpoint' = FALSE
    BY DEF Invalidate, EndRequest, DropCheckpoint
  <1>2. LocalsOK' /\ PrefixOK' /\ SequenceOK' /\ CheckpointOK'
    BY <1>1 DEF LocalsOK, PrefixOK, SequenceOK, CheckpointOK, InFlight
  <1>3. ReplyOK' /\ FailureOK'
    BY <1>1 DEF ReplyOK, FailureOK, InFlight
  <1> QED BY <1>2, <1>3 DEF IInv

\* the types of a request that ended in the catch
LEMMA InvalidatedTypes ==
  ASSUME Invalidate, EndRequest
  PROVE  /\ pc' \in Phases /\ req' \in Request /\ skip' \in Nat /\ off' \in Nat /\ next' \in Token
         /\ generated' \in Seq(Token) /\ committed' \in Seq(Token)
         /\ fed' \in Seq(Token) /\ fedImages' \in Seq(Key) /\ needsReset' \in BOOLEAN
         /\ checkpoint' \in Seq(Token) /\ hasCheckpoint' \in BOOLEAN
  BY Empties DEF Invalidate, EndRequest, DropCheckpoint, Phases, Token

LEMMA FailHostStep == IInv /\ FailHost => IInv'
  <1> SUFFICES ASSUME IInv, FailHost PROVE IInv'
    OBVIOUS
  <1> USE DEF IInv
  <1>1. Invalidate /\ EndRequest
        /\ UNCHANGED <<kv, gdn, sliding, draft, ckptPos, ckptGdn, ckptSliding, atPrefillEnd, health, load>>
    BY DEF FailHost, modelVars, checkpointVars
  <1>2. TypeOK'
    <2>1. ModelTypes' /\ OtherTypes'
      BY <1>1, InvalidatedTypes, TypesSplit DEF ModelTypes, OtherTypes
    <2>2. (TypeOK <=> ModelTypes /\ OtherTypes)'
      BY TypesSplit, PTL
    <2> QED BY <2>1, <2>2
  <1> QED BY <1>1, <1>2, Invalidated

LEMMA FailModelStep == IInv /\ FailModel => IInv'
  <1> SUFFICES ASSUME IInv, FailModel PROVE IInv'
    OBVIOUS
  <1> USE DEF IInv
  <1>1. /\ Invalidate /\ EndRequest /\ health' = "kNeedsRecovery"
        /\ UNCHANGED <<ckptPos, atPrefillEnd, load>>
        /\ \/ /\ ckptGdn' = <<Junk>> /\ ckptSliding' = EmptyRing
              /\ UNCHANGED <<kv, gdn, sliding, draft>>
           \/ /\ kv' \in {kv, Append(kv, Junk)} /\ gdn' = <<Junk>> /\ sliding' = EmptyRing
              /\ draft' = [draft EXCEPT !.store = EmptyStore(DraftSlots)]
              /\ UNCHANGED <<ckptGdn, ckptSliding>>
    BY DEF FailModel
  <1>2. ModelTypes /\ OtherTypes
    BY TypesSplit
  <1>3. Append(kv, Junk) \in History
    BY <1>2 DEF ModelTypes, History, Row
  <1>4. draft \in Draft /\ [draft EXCEPT !.store = EmptyStore(DraftSlots)] \in Draft
    BY <1>2, DraftType DEF ModelTypes
  <1>5. ModelTypes'
    BY <1>1, <1>2, <1>3, <1>4, Empties DEF ModelTypes
  <1>6. OtherTypes'
    BY <1>1, <1>2, InvalidatedTypes, Empties DEF OtherTypes
  <1>7. TypeOK'
    <2>1. (TypeOK <=> ModelTypes /\ OtherTypes)'
      BY TypesSplit, PTL
    <2> QED BY <1>5, <1>6, <2>1
  <1> QED BY <1>1, <1>7, Invalidated

LEMMA StutterStep == IInv /\ UNCHANGED vars => IInv'
  <1> SUFFICES ASSUME IInv, UNCHANGED vars PROVE IInv'
    OBVIOUS
  <1> USE DEF IInv
  <1>1. UNCHANGED <<pc, req, skip, off, next, generated, committed,
                    fed, fedImages, needsReset, checkpoint, hasCheckpoint, kv, gdn, sliding, draft,
                    ckptPos, ckptGdn, ckptSliding, atPrefillEnd, health, load>>
    BY DEF vars, requestVars, prefixVars, modelVars, checkpointVars
  <1>2. CkptLen' = CkptLen /\ Prompt' = Prompt /\ SplitAt' = SplitAt /\ Back' = Back
        /\ KeepCheckpoint' = KeepCheckpoint
        /\ ImageBlocks(skip, SplitAt)' = ImageBlocks(skip, SplitAt)
    BY <1>1, Unmoved
  <1>3. InFlight' = InFlight /\ Gemma' = Gemma /\ Speculates' = Speculates
    BY <1>1 DEF InFlight, Gemma, Speculates
  <1>4. TypeOK' /\ PrefixOK' /\ ReplyOK' /\ FailureOK'
    BY <1>1, <1>3 DEF TypeOK, PrefixOK, ReplyOK, ReplyIsFed, FailureOK
  <1>5. LocalsOK'
    <2>1. Gemma' /\ pc' = "prefill" =>
            \A b \in ImageBlocks(skip, SplitAt)' : off' <= b[1] \/ b[2] <= off'
      BY <1>1, <1>2, <1>3 DEF LocalsOK
    <2> QED BY <1>1, <1>2, <1>3, <2>1 DEF LocalsOK
  <1>6. Consumed' = Consumed
    BY <1>1, <1>2 DEF Consumed
  <1>7. SequenceOK'
    BY <1>1, <1>3, <1>6 DEF SequenceOK, SequenceIs, Gemma
  <1>8. CheckpointOK'
    BY <1>1, <1>2, <1>3 DEF CheckpointOK, CheckpointIs, Gemma
  <1> QED BY <1>4, <1>5, <1>7, <1>8

-----------------------------------------------------------------------------
(* The theorems.                                                           *)

LEMMA InitOK == Init => IInv
  <1> SUFFICES ASSUME Init PROVE IInv
    OBVIOUS
  <1>1. /\ pc = "idle" /\ req = NoRequest /\ skip = 0 /\ off = 0 /\ next = Eos
        /\ generated = <<>> /\ committed = <<>>
        /\ fed = <<>> /\ fedImages = <<>> /\ needsReset = FALSE
        /\ checkpoint = <<>> /\ hasCheckpoint = FALSE
        /\ kv = <<>> /\ gdn = <<>> /\ sliding = EmptyRing /\ draft = NewDraft
        /\ ckptPos = -1 /\ ckptGdn = <<>> /\ ckptSliding = EmptyRing
        /\ atPrefillEnd = FALSE /\ health = "kReady" /\ load \in Loads
    BY DEF Init
  <1>2. TypeOK
    <2>1. Eos \in Token
      BY DEF Token
    <2>2. ModelTypes /\ OtherTypes
      BY <1>1, <2>1, Empties DEF ModelTypes, OtherTypes, Phases
    <2> QED BY <2>2, TypesSplit
  <1>3. Content(<<>>, <<>>) = <<>>
    <2>1. Content(<<>>, <<>>) \in History /\ Len(Content(<<>>, <<>>)) = 0
      BY ContentType, Empties
    <2> QED BY <2>1 DEF History
  <1>4. LocalsOK /\ PrefixOK
    BY <1>1 DEF LocalsOK, PrefixOK, InFlight
  <1>5. SequenceOK
    BY <1>1, <1>3, Empties DEF SequenceOK, SequenceIs, InFlight
  <1>6. CheckpointOK
    BY <1>1 DEF CheckpointOK, InFlight
  <1>7. ReplyOK /\ FailureOK
    BY <1>1 DEF ReplyOK, FailureOK
  <1> QED BY <1>2, <1>4, <1>5, <1>6, <1>7 DEF IInv

LEMMA NextOK == IInv /\ [Next]_vars => IInv'
  <1> SUFFICES ASSUME IInv, [Next]_vars PROVE IInv'
    OBVIOUS
  <1>1. CASE \E p \in Prompts : Submit(p)
    BY <1>1, SubmitStep
  <1>2. CASE ContinueFed
    BY <1>2, ContinueFedStep
  <1>3. CASE RestoreCheckpoint
    BY <1>3, RestoreStep
  <1>4. CASE ResetModel
    BY <1>4, ResetStep
  <1>5. CASE Prefill
    BY <1>5, PrefillStep
  <1>6. CASE SaveCheckpoint
    BY <1>6, SaveStep
  <1>7. CASE PrefillTail
    BY <1>7, TailStep
  <1>8. CASE StopDecode
    BY <1>8, StopDecodeStep
  <1>9. CASE DecodeStep
    BY <1>9, DecodeStepStep
  <1>10. CASE FirstToken
    BY <1>10, FirstTokenStep
  <1>11. CASE \E round \in Rounds : \E shown \in 0..DraftK + 1 :
                \E rejected \in 0..DraftK : DecodeRound(round, rejected, shown)
    BY <1>11, DecodeRoundStep
  <1>12. CASE Finish
    BY <1>12, FinishStep
  <1>13. CASE FailHost
    BY <1>13, FailHostStep
  <1>14. CASE FailModel
    BY <1>14, FailModelStep
  <1>15. CASE UNCHANGED vars
    BY <1>15, StutterStep
  <1> QED BY <1>1, <1>2, <1>3, <1>4, <1>5, <1>6, <1>7, <1>8, <1>9, <1>10, <1>11, <1>12, <1>13,
             <1>14, <1>15 DEF Next

(* The strengthening is an invariant: whatever the requests, the failures  *)
(* and the family, PrefixState, the model's rings and stores, the saved    *)
(* state and RunRequest's locals speak of one and the same history         *)
(* (engine.cpp RunRequest, prefix_state.h).                                *)
THEOREM InductiveInvariant == Spec => []IInv
  BY InitOK, NextOK, PTL DEF Spec

(* The types of the worker's, PrefixState's and the model's variables.     *)
THEOREM TypeCorrect == Spec => []TypeOK
  <1>1. IInv => TypeOK
    BY DEF IInv
  <1> QED BY <1>1, InductiveInvariant, PTL

(* A decoded token is always computed on exactly the prompt the client     *)
(* sent, pictures included, and the tokens decoded before it, however the  *)
(* request began: engine.cpp's Plan / Restore / Reset / Prefill and        *)
(* gemma_model.cpp's chunks, windows and rings.                            *)
THEOREM RepliesFromTheirPrompt == Spec => []PromptIsExact
  <1>1. IInv => PromptIsExact
    BY DEF IInv, SequenceOK, SequenceIs, Consumed, Prompt, InFlight, PromptIsExact
  <1> QED BY <1>1, InductiveInvariant, PTL

(* What PrefixState will claim to the next request is true of the model,   *)
(* of its saved state and of the drafter (prefix_state.h Plan and Commit,  *)
(* DflashDraft::Rewind).                                                   *)
THEOREM PrefixStateIsTruthful == Spec => []ClaimsAreTrue
  <1>1. IInv => ClaimsAreTrue
    <2> SUFFICES ASSUME IInv, pc = "idle", ~needsReset
                 PROVE  /\ kv = Content(fed, fedImages)
                        /\ Gemma \/ gdn = kv
                        /\ load.drafter = "dflash" => DraftHolds(draft, kv)
                        /\ hasCheckpoint =>
                             /\ ckptPos = Len(checkpoint)
                             /\ SubSeq(kv, 1, ckptPos) = Content(checkpoint, fedImages)
                             /\ IF Gemma
                                  THEN Sees(ckptSliding, ckptPos - 1, -1, SubSeq(kv, 1, ckptPos))
                                  ELSE ckptGdn = SubSeq(kv, 1, ckptPos)
      BY DEF ClaimsAreTrue
    <2> USE DEF IInv
    <2>1. SequenceIs(Content(fed, fedImages))
      BY DEF SequenceOK, InFlight
    <2>2. kv = Content(fed, fedImages) /\ (Gemma \/ gdn = kv)
      BY <2>1 DEF SequenceIs
    <2>3. fed \in Seq(Token) /\ fedImages \in Seq(Key) /\ kv \in History /\ draft \in Draft
          /\ Len(kv) = Len(fed) /\ Len(kv) \in Nat
      BY <2>2, ModelTyped, ContentType DEF TypeOK, ModelTypes
    <2>4. load.drafter = "dflash" => DraftHolds(draft, kv)
      <3> SUFFICES ASSUME load.drafter = "dflash" PROVE DraftHolds(draft, kv)
        OBVIOUS
      <3>1. DraftKeeps(draft, kv)
        BY <2>1, <2>2 DEF SequenceIs
      <3>2. draft.injected = Len(kv)
        BY <3>1 DEF DraftKeeps
      <3>3. ASSUME NEW k \in 0..draft.injected - 1, k >= draft.validFrom,
                   k > draft.injected - DraftSlots
            PROVE  Has(draft.store, DraftSlots, k, kv[k + 1])
        <4>1. k + DraftSlots >= draft.injected
          BY <2>3, <3>2, <3>3, Sizes
        <4> QED BY <3>1, <3>3, <4>1 DEF DraftKeeps
      <3> QED BY <3>2, <3>3 DEF DraftHolds
    <2>5. ASSUME hasCheckpoint
          PROVE  /\ ckptPos = Len(checkpoint)
                 /\ SubSeq(kv, 1, ckptPos) = Content(checkpoint, fedImages)
                 /\ IF Gemma
                      THEN Sees(ckptSliding, ckptPos - 1, -1, SubSeq(kv, 1, ckptPos))
                      ELSE ckptGdn = SubSeq(kv, 1, ckptPos)
      <3> DEFINE n == ckptPos
                 h == SubSeq(kv, 1, n)
      <3>1. CheckpointIs(Len(checkpoint), kv)
        BY <2>2, <2>5 DEF CheckpointOK, InFlight
      <3>2. n = Len(checkpoint) /\ n \in 1..Len(kv)
            /\ IF Gemma THEN RingHolds(ckptSliding, h) ELSE ckptGdn = h
        BY <3>1 DEF CheckpointIs
      <3>3. checkpoint = SubSeq(fed, 1, n) /\ n \in 0..Len(fed) /\ n \in Nat
        BY <2>3, <2>5, <3>2 DEF PrefixOK
      <3>4. h = Content(checkpoint, fedImages)
        BY <2>2, <2>3, <3>3, ContentPrefix
      <3>5. Len(h) = n
        BY <2>3, <3>3, Prefixed
      <3>6. Gemma => Sees(ckptSliding, n - 1, -1, h)
        <4> SUFFICES ASSUME Gemma, NEW k \in LowKey(n - 1)..HighKey(n - 1, -1)
                     PROVE  k < Len(h) /\ Has(ckptSliding, RingTokens, k, h[k + 1])
          BY DEF Sees
        <4> HIDE DEF n, h
        <4>1. k \in 0..n - 1 /\ k + Window >= n
          BY <3>2, <3>3, Sizes DEF LowKey, HighKey
        <4>2. RingHolds(ckptSliding, h)
          BY <3>2
        <4> QED BY <3>3, <3>5, <4>1, <4>2 DEF RingHolds
      <3> QED BY <3>2, <3>4, <3>6
    <2> QED BY <2>2, <2>4, <2>5
  <1> QED BY <1>1, InductiveInvariant, PTL

(* The tokens shown are the tokens fed, up to the pending one and to       *)
(* drafts committed after the display stopped (ProcessMtpRound).           *)
THEOREM RepliesAreFed == Spec => []ReplyIsFed
  <1>1. IInv => ReplyIsFed
    <2> SUFFICES ASSUME IInv PROVE ReplyIsFed
      OBVIOUS
    <2> USE DEF IInv
    <2>1. CASE pc = "decode"
      BY <2>1, ReplyAhead
    <2>2. CASE pc = "finish"
      BY <2>2 DEF ReplyOK
    <2>3. CASE pc \notin {"decode", "finish"}
      <3>1. generated = <<>> /\ committed = <<>>
        BY <2>3 DEF ReplyOK
      <3> QED BY <3>1 DEF ReplyIsFed
    <2> QED BY <2>1, <2>2, <2>3
  <1> QED BY <1>1, InductiveInvariant, PTL

(* A group left in need of recovery is reset before anything else calls it *)
(* (the catch of RunRequest, PrefixState::Invalidate and Plan).            *)
THEOREM FailuresAreNotInherited == Spec => []NoInheritedFailure
  <1>1. IInv => NoInheritedFailure
    BY DEF IInv, FailureOK, InFlight, NoInheritedFailure, PlanFed, PlanCheckpoint
  <1> QED BY <1>1, InductiveInvariant, PTL
=============================================================================
