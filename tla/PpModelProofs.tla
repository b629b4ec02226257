---------------------------- MODULE PpModelProofs ----------------------------
(***************************************************************************)
(* For every context length, block size, ring, chunk size and any number   *)
(* of calls, HIP errors and time-outs: between calls the decode stage      *)
(* holds what one model fed the same tokens holds, the mirror tracker      *)
(* claims nothing of stage A that is not so, a call never meets another    *)
(* one's leftovers, and a failed call names its root cause.  The proof is  *)
(* the invariance of PpModel!IInv: through a call both stages are on the   *)
(* one history, stage A's rows up to where B is are B's, a slot between    *)
(* its filling and its release is the chunk of its number, and a poison    *)
(* has a cause that is no poison.                                          *)
(***************************************************************************)
EXTENDS PpModel, TLAPS, SequenceTheorems

-----------------------------------------------------------------------------
(* Numbers.                                                                *)

(* What is assumed of the constants, one by one. *)
LEMMA Constants ==
  /\ MaxPos \in Nat \ {0} /\ BlockSize \in Nat \ {0} /\ Slots \in Nat \ {0}
  /\ ChunkRows \in Nat \ {0} /\ MinRows \in Nat \ {0} /\ MaxSplit \in Nat \ {0}
  /\ SyncBlocks \in Nat /\ MaxCalls \in Nat /\ MaxFaults \in Nat
  BY PpAssumption

(* The smaller of two numbers. *)
LEMMA Min2Facts ==
  ASSUME NEW x \in Int, NEW y \in Int
  PROVE  /\ Min2(x, y) \in {x, y} /\ Min2(x, y) <= x /\ Min2(x, y) <= y
         /\ x <= y => Min2(x, y) = x
         /\ y <= x => Min2(x, y) = y
  BY DEF Min2

(* What is left below a multiple of d. *)
LEMMA Division ==
  ASSUME NEW x \in Nat, NEW d \in Nat \ {0}
  PROVE  x \div d \in Nat /\ (x \div d) * d <= x /\ x < (x \div d) * d + d
  <1>1. /\ x \div d \in Int /\ x = d * (x \div d) + (x % d) /\ x % d \in 0 .. d - 1
    OBVIOUS
  <1> QED BY <1>1

(* The whole blocks of a span hold its rows. *)
LEMMA BlockSpan ==
  ASSUME NEW p \in Nat, NEW n \in Nat \ {0}, NEW r \in p + 1 .. p + n
  PROVE  r \in BlockRows(p, n)
  <1> DEFINE q == p + n + BlockSize - 1
  <1>1. BlockSize \in Nat \ {0}
    BY Constants
  <1>2. q \in Nat
    BY <1>1
  <1>3. /\ p \div BlockSize \in Nat /\ (p \div BlockSize) * BlockSize <= p
        /\ q \div BlockSize \in Nat /\ q < (q \div BlockSize) * BlockSize + BlockSize
    BY <1>1, <1>2, Division
  <1>4. (p \div BlockSize) * BlockSize \in Int /\ (q \div BlockSize) * BlockSize \in Int
    BY <1>1, <1>3
  <1>5. r >= (p \div BlockSize) * BlockSize + 1
    BY <1>3, <1>4
  <1>6. r <= (q \div BlockSize) * BlockSize
    BY <1>1, <1>3, <1>4
  <1> QED BY <1>4, <1>5, <1>6 DEF BlockRows, Block0, Block1

(* Chunks less than a ring apart are in different slots. *)
LEMMA SlotsApart ==
  ASSUME NEW i \in Nat, NEW j \in Nat, i < j, j - i < Slots
  PROVE  SlotOf(i) # SlotOf(j)
  <1>1. Slots \in Nat \ {0}
    BY Constants
  <1> DEFINE p == i \div Slots
             q == j \div Slots
  <1>2. /\ p \in Int /\ i = Slots * p + (i % Slots)
        /\ q \in Int /\ j = Slots * q + (j % Slots)
    BY <1>1
  <1>3. SUFFICES ASSUME i % Slots = j % Slots PROVE FALSE
    BY DEF SlotOf
  <1> HIDE DEF p, q
  <1>4. j - i = Slots * (q - p)
    BY <1>1, <1>2, <1>3
  <1>5. CASE q - p <= 0
    <2>1. Slots * (q - p) <= 0
      BY <1>1, <1>2, <1>5
    <2> QED BY <1>4, <2>1
  <1>6. CASE q - p >= 1
    <2>1. Slots * (q - p) >= Slots
      BY <1>1, <1>2, <1>6
    <2> QED BY <1>1, <1>4, <2>1
  <1> QED BY <1>2, <1>5, <1>6

(* A chunk's slot is one of the ring's. *)
LEMMA SlotInRange == \A n \in Nat : SlotOf(n) \in 0 .. Slots - 1
  BY Constants DEF SlotOf

-----------------------------------------------------------------------------
(* Histories.                                                              *)

Feeds == Seq(Nat \ {0})

(* Bad is no history of tokens that were fed. *)
LEMMA FeedsAreHist == Feeds \subseteq Hist /\ Bad \in Hist /\ \A s \in Feeds : s # Bad
  <1>1. Feeds \subseteq Hist
    BY SeqMonotonic DEF Feeds, Hist
  <1>2. Bad \in Hist
    BY DEF Bad, Hist
  <1>3. ASSUME NEW s \in Feeds, s = Bad PROVE FALSE
    <2>1. Len(s) = 1 /\ s[1] = 0
      BY <1>3 DEF Bad
    <2>2. s[1] \in Nat \ {0}
      BY <2>1, ElementOfSeq DEF Feeds
    <2> QED BY <2>1, <2>2
  <1> QED BY <1>1, <1>2, <1>3

(* The first n tokens of a history. *)
LEMMA Prefixes ==
  ASSUME NEW S, NEW s \in Seq(S), NEW n \in 0 .. Len(s)
  PROVE  /\ SubSeq(s, 1, n) \in Seq(S) /\ Len(SubSeq(s, 1, n)) = n
         /\ \A i \in 1 .. n : SubSeq(s, 1, n)[i] = s[i]
  <1>1. Len(s) \in Nat
    BY LenProperties
  <1>2. \A i \in 1 .. n : s[i] \in S
    BY <1>1, ElementOfSeq
  <1>3. /\ SubSeq(s, 1, n) \in Seq(S) /\ Len(SubSeq(s, 1, n)) = IF 1 <= n THEN n - 1 + 1 ELSE 0
        /\ \A i \in 1 .. n - 1 + 1 : SubSeq(s, 1, n)[i] = s[1 + i - 1]
    BY <1>1, <1>2, SubSeqProperties
  <1> QED BY <1>1, <1>3

(* A prefix of a prefix, and of what grew behind it. *)
LEMMA PrefixOfPrefix ==
  ASSUME NEW S, NEW s \in Seq(S), NEW m \in 0 .. Len(s), NEW n \in 0 .. m
  PROVE  SubSeq(SubSeq(s, 1, m), 1, n) = SubSeq(s, 1, n)
  <1>1. Len(s) \in Nat
    BY LenProperties
  <1> DEFINE p == SubSeq(s, 1, m)
  <1>2. p \in Seq(S) /\ Len(p) = m /\ \A i \in 1 .. m : p[i] = s[i]
    BY Prefixes
  <1> HIDE DEF p
  <1>3. n \in 0 .. Len(p) /\ n \in 0 .. Len(s)
    BY <1>1, <1>2
  <1>4. SubSeq(p, 1, n) \in Seq(S) /\ Len(SubSeq(p, 1, n)) = n /\ \A i \in 1 .. n : SubSeq(p, 1, n)[i] = p[i]
    BY <1>2, <1>3, Prefixes
  <1>5. SubSeq(s, 1, n) \in Seq(S) /\ Len(SubSeq(s, 1, n)) = n /\ \A i \in 1 .. n : SubSeq(s, 1, n)[i] = s[i]
    BY <1>3, Prefixes
  <1>6. \A i \in 1 .. n : SubSeq(p, 1, n)[i] = SubSeq(s, 1, n)[i]
    BY <1>1, <1>2, <1>4, <1>5
  <1>7. SubSeq(p, 1, n) = SubSeq(s, 1, n)
    BY <1>4, <1>5, <1>6, SeqEqual
  <1> QED BY <1>7 DEF p

(* What grows behind a prefix leaves it as it is. *)
LEMMA PrefixOfConcat ==
  ASSUME NEW S, NEW s \in Seq(S), NEW t \in Seq(S), NEW n \in 0 .. Len(s)
  PROVE  SubSeq(s \o t, 1, n) = SubSeq(s, 1, n)
  <1>1. Len(s) \in Nat /\ Len(t) \in Nat
    BY LenProperties
  <1> DEFINE u == s \o t
  <1>2. u \in Seq(S) /\ Len(u) = Len(s) + Len(t)
        /\ \A i \in 1 .. Len(s) + Len(t) : u[i] = IF i <= Len(s) THEN s[i] ELSE t[i - Len(s)]
    BY ConcatProperties
  <1> HIDE DEF u
  <1>3. n \in 0 .. Len(u)
    BY <1>1, <1>2
  <1>4. SubSeq(u, 1, n) \in Seq(S) /\ Len(SubSeq(u, 1, n)) = n /\ \A i \in 1 .. n : SubSeq(u, 1, n)[i] = u[i]
    BY <1>2, <1>3, Prefixes
  <1>5. SubSeq(s, 1, n) \in Seq(S) /\ Len(SubSeq(s, 1, n)) = n /\ \A i \in 1 .. n : SubSeq(s, 1, n)[i] = s[i]
    BY Prefixes
  <1>6. \A i \in 1 .. n : SubSeq(u, 1, n)[i] = SubSeq(s, 1, n)[i]
    BY <1>1, <1>2, <1>4, <1>5
  <1>7. SubSeq(u, 1, n) = SubSeq(s, 1, n)
    BY <1>4, <1>5, <1>6, SeqEqual
  <1> QED BY <1>7 DEF u

(* The tokens of a feeding call. *)
LEMMA TokensFacts ==
  ASSUME NEW id \in Nat \ {0}, NEW n \in Nat
  PROVE  /\ Tokens(id, n) \in Feeds /\ Len(Tokens(id, n)) = n
         /\ \A i \in 1 .. n : Tokens(id, n)[i] = id
  <1>1. Tokens(id, n) = [i \in 1 .. n |-> id]
    BY DEF Tokens
  <1>2. Tokens(id, n) \in [1 .. n -> Nat \ {0}]
    BY <1>1
  <1>3. Tokens(id, n) \in Feeds
    <2>1. Tokens(id, n) \in UNION {[1 .. m -> Nat \ {0}] : m \in Nat}
      BY <1>2
    <2> QED BY <2>1, SeqDef DEF Feeds
  <1>4. DOMAIN Tokens(id, n) = 1 .. n /\ \A i \in 1 .. n : Tokens(id, n)[i] = id
    BY <1>1
  <1>5. Len(Tokens(id, n)) \in Nat /\ DOMAIN Tokens(id, n) = 1 .. Len(Tokens(id, n))
    BY <1>3, LenProperties DEF Feeds
  <1>6. Len(Tokens(id, n)) = n
    BY <1>4, <1>5
  <1> QED BY <1>3, <1>4, <1>6

(* The same, with no claim on the call's number. *)
LEMMA TokenHist ==
  ASSUME NEW id \in Nat, NEW n \in Nat
  PROVE  Tokens(id, n) \in Hist /\ Len(Tokens(id, n)) = n
  <1>1. Tokens(id, n) = [i \in 1 .. n |-> id]
    BY DEF Tokens
  <1>2. Tokens(id, n) \in [1 .. n -> Nat]
    BY <1>1
  <1>3. Tokens(id, n) \in Seq(Nat)
    <2>1. Tokens(id, n) \in UNION {[1 .. m -> Nat] : m \in Nat}
      BY <1>2
    <2> QED BY <2>1, SeqDef
  <1>4. DOMAIN Tokens(id, n) = 1 .. n
    BY <1>1
  <1>5. Len(Tokens(id, n)) \in Nat /\ DOMAIN Tokens(id, n) = 1 .. Len(Tokens(id, n))
    BY <1>3, LenProperties
  <1> QED BY <1>3, <1>4, <1>5 DEF Hist

(* Tokens fed in two chunks are the tokens fed in one. *)
LEMMA TokensJoin ==
  ASSUME NEW id \in Nat \ {0}, NEW m \in Nat, NEW n \in Nat
  PROVE  Tokens(id, m) \o Tokens(id, n) = Tokens(id, m + n)
  <1> DEFINE s == Tokens(id, m)
             t == Tokens(id, n)
             u == Tokens(id, m + n)
  <1>1. /\ s \in Feeds /\ Len(s) = m /\ \A i \in 1 .. m : s[i] = id
        /\ t \in Feeds /\ Len(t) = n /\ \A i \in 1 .. n : t[i] = id
        /\ u \in Feeds /\ Len(u) = m + n /\ \A i \in 1 .. m + n : u[i] = id
    BY TokensFacts
  <1> HIDE DEF s, t, u
  <1>2. s \o t \in Feeds /\ Len(s \o t) = m + n
        /\ \A i \in 1 .. m + n : (s \o t)[i] = IF i <= m THEN s[i] ELSE t[i - m]
    BY <1>1, ConcatProperties DEF Feeds
  <1>3. \A i \in 1 .. m + n : (s \o t)[i] = id
    BY <1>1, <1>2
  <1>4. s \o t = u
    BY <1>1, <1>2, <1>3, SeqEqual DEF Feeds
  <1> QED BY <1>4 DEF s, t, u

(* No tokens. *)
LEMMA NoTokens == \A id : Tokens(id, 0) = <<>>
  BY DEF Tokens

(* Histories join in any order. *)
LEMMA FeedsAssociate == \A s, t, u \in Feeds : (s \o t) \o u = s \o (t \o u)
  <1> SUFFICES ASSUME NEW s \in Feeds, NEW t \in Feeds, NEW u \in Feeds
               PROVE  (s \o t) \o u = s \o (t \o u)
    OBVIOUS
  <1>1. s \in Seq(Nat \ {0}) /\ t \in Seq(Nat \ {0}) /\ u \in Seq(Nat \ {0})
    BY DEF Feeds
  <1> QED BY <1>1, ConcatAssociative

(* The history of a call, grown from what was fed before it. *)
LEMMA HistoryFacts ==
  ASSUME truth \in Feeds, call.id \in Nat \ {0}, call.p0 = Len(truth),
         NEW k \in Nat, call.p0 <= k
  PROVE  /\ History(k) \in Feeds /\ Len(History(k)) = k
         /\ \A n \in Nat : History(k) \o Tokens(call.id, n) = History(k + n)
         /\ \A n \in Nat, r \in 0 .. k : SubSeq(History(k + n), 1, r) = SubSeq(History(k), 1, r)
         /\ SubSeq(History(k), 1, k) = History(k)
  <1>1. Len(truth) \in Nat
    BY LenProperties DEF Feeds
  <1> DEFINE t == Tokens(call.id, k - call.p0)
  <1>2. t \in Feeds /\ Len(t) = k - call.p0
    BY <1>1, TokensFacts
  <1>3. History(k) = truth \o t
    BY DEF History
  <1> HIDE DEF t
  <1>4. History(k) \in Feeds /\ Len(History(k)) = k
    BY <1>1, <1>2, <1>3, ConcatProperties DEF Feeds
  <1>5. ASSUME NEW n \in Nat PROVE History(k) \o Tokens(call.id, n) = History(k + n)
    <2>1. Tokens(call.id, n) \in Feeds
      BY TokensFacts
    <2>2. (truth \o t) \o Tokens(call.id, n) = truth \o (t \o Tokens(call.id, n))
      BY <1>2, <2>1, FeedsAssociate
    <2>3. t \o Tokens(call.id, n) = Tokens(call.id, (k - call.p0) + n)
      <3>1. k - call.p0 \in Nat
        BY <1>1
      <3> QED BY <3>1, TokensJoin DEF t
    <2>4. (k - call.p0) + n = (k + n) - call.p0
      BY <1>1
    <2> QED BY <1>3, <2>2, <2>3, <2>4 DEF History
  <1>6. ASSUME NEW n \in Nat, NEW r \in 0 .. k
        PROVE  SubSeq(History(k + n), 1, r) = SubSeq(History(k), 1, r)
    <2>1. Tokens(call.id, n) \in Feeds
      BY TokensFacts
    <2>2. SubSeq(History(k) \o Tokens(call.id, n), 1, r) = SubSeq(History(k), 1, r)
      BY <1>4, <2>1, PrefixOfConcat DEF Feeds
    <2> QED BY <1>5, <2>2
  <1>7. SubSeq(History(k), 1, k) = History(k)
    BY <1>4, SubSeqFull DEF Feeds
  <1> QED BY <1>4, <1>5, <1>6, <1>7

(* A call begins with what was fed before it. *)
LEMMA HistoryStart ==
  ASSUME truth \in Feeds
  PROVE  History(call.p0) = truth \/ call.p0 \notin Int
  <1>1. ASSUME call.p0 \in Int PROVE History(call.p0) = truth
    <2>1. call.p0 - call.p0 = 0
      BY <1>1
    <2>2. truth \o <<>> = truth
      BY ConcatEmptySeq DEF Feeds
    <2> QED BY <2>1, <2>2, NoTokens DEF History
  <1> QED BY <1>1

(* Where the chunks of a call begin. *)
LEMMA Chunks ==
  ASSUME call \in Commands, NEW n \in Nat
  PROVE  /\ ChunkPos(n) \in Nat /\ ChunkPos(n + 1) = ChunkPos(n) + ChunkRows
         /\ End \in Nat /\ call.p0 <= ChunkPos(n) /\ call.p0 <= End
         /\ ChunkPos(0) = call.p0
         /\ Upto(n) \in Nat /\ Upto(n) <= End /\ Upto(n) <= ChunkPos(n) /\ call.p0 <= Upto(n)
         /\ Upto(n) = ChunkPos(n) \/ Upto(n) = End
         /\ ChunkPos(n) <= End => Upto(n) = ChunkPos(n)
         /\ End <= ChunkPos(n) => Upto(n) = End
  <1>1. call.p0 \in Nat /\ call.rows \in Nat /\ ChunkRows \in Nat
    BY Constants DEF Commands
  <1>2. n * ChunkRows \in Nat /\ (n + 1) * ChunkRows = n * ChunkRows + ChunkRows /\ 0 * ChunkRows = 0
    BY <1>1
  <1>3. /\ ChunkPos(n) \in Nat /\ ChunkPos(n + 1) = ChunkPos(n) + ChunkRows
        /\ End \in Nat /\ call.p0 <= ChunkPos(n) /\ call.p0 <= End /\ ChunkPos(0) = call.p0
    BY <1>1, <1>2 DEF ChunkPos, End
  <1> QED BY <1>1, <1>3, Min2Facts DEF Upto

(* Later chunks begin, and end, further on. *)
LEMMA ChunksGrow ==
  ASSUME call \in Commands, NEW n \in Nat, NEW m \in Nat, n <= m
  PROVE  /\ ChunkPos(n) <= ChunkPos(m) /\ Upto(n) <= Upto(m)
         /\ n < m => ChunkPos(n + 1) <= ChunkPos(m) /\ Upto(n + 1) <= ChunkPos(m)
  <1>1. call.p0 \in Nat /\ ChunkRows \in Nat
    BY Constants DEF Commands
  <1>2. /\ n * ChunkRows \in Nat /\ m * ChunkRows \in Nat /\ (m - n) * ChunkRows >= 0
        /\ m * ChunkRows = n * ChunkRows + (m - n) * ChunkRows
    <2>1. m - n \in Nat
      OBVIOUS
    <2>2. (m - n) * ChunkRows \in Nat
      BY <1>1, <2>1
    <2> QED BY <1>1, <2>2
  <1>3. ChunkPos(n) <= ChunkPos(m)
    BY <1>1, <1>2 DEF ChunkPos
  <1>4. Upto(n) <= Upto(m)
    <2>1. /\ ChunkPos(n) \in Nat /\ Upto(n) \in Nat /\ Upto(n) <= ChunkPos(n) /\ Upto(n) <= End
          /\ ChunkPos(m) \in Nat /\ End \in Nat /\ (Upto(m) = ChunkPos(m) \/ Upto(m) = End)
      BY Chunks
    <2> QED BY <1>3, <2>1
  <1>5. ASSUME n < m PROVE ChunkPos(n + 1) <= ChunkPos(m)
    <2>1. m - (n + 1) \in Nat
      BY <1>5
    <2>2. (m - (n + 1)) * ChunkRows \in Nat
      BY <1>1, <2>1
    <2>3. m * ChunkRows = (n + 1) * ChunkRows + (m - (n + 1)) * ChunkRows
      BY <1>1
    <2>4. (n + 1) * ChunkRows \in Nat
      BY <1>1
    <2> QED BY <1>1, <1>2, <2>2, <2>3, <2>4 DEF ChunkPos
  <1>6. ASSUME n < m PROVE Upto(n + 1) <= ChunkPos(m)
    <2>1. Upto(n + 1) <= ChunkPos(n + 1) /\ Upto(n + 1) \in Nat /\ ChunkPos(n + 1) \in Nat /\ ChunkPos(m) \in Nat
      BY Chunks
    <2> QED BY <1>5, <1>6, <2>1
  <1> QED BY <1>3, <1>4, <1>5, <1>6

-----------------------------------------------------------------------------
(* What the operators on states return.                                    *)

BStates == [pos : 0..MaxPos, kv : RowStore, gdn : Hist, win : Hist, hi : Hist, end : BOOLEAN]

(* Buffers nothing was written to. *)
LEMMA BadStores == Fresh \in RowStore /\ <<>> \in Hist
  BY FeedsAreHist, EmptySeq DEF Fresh, RowStore, Hist

(* A copy of whole blocks writes their rows and no other. *)
LEMMA OverlayFacts ==
  ASSUME NEW dst \in RowStore, NEW src \in RowStore, NEW pos, NEW n
  PROVE  /\ Overlay(dst, src, pos, n) \in RowStore
         /\ \A r \in Rows : Overlay(dst, src, pos, n)[r] = IF r \in BlockRows(pos, n) THEN src[r] ELSE dst[r]
  BY DEF Overlay, RowStore

(* Extending a coherent history appends; extending anything else is Bad. *)
LEMMA ExtendFacts ==
  ASSUME NEW m, NEW gdn \in Hist, NEW toks \in Hist
  PROVE  /\ Extend(m, gdn, toks) \in Hist
         /\ Extend(m, gdn, toks) # Bad => Len(Extend(m, gdn, toks)) = m.pos + Len(toks)
         /\ Coherent(m.kv, gdn, m.pos) => Extend(m, gdn, toks) = gdn \o toks
  <1>1. gdn \o toks \in Hist /\ Len(gdn \o toks) = Len(gdn) + Len(toks)
    BY ConcatProperties DEF Hist
  <1>2. CASE Coherent(m.kv, gdn, m.pos)
    <2>1. Extend(m, gdn, toks) = gdn \o toks /\ Len(gdn) = m.pos
      BY <1>2 DEF Extend, Coherent
    <2> QED BY <1>1, <2>1
  <1>3. CASE ~Coherent(m.kv, gdn, m.pos)
    BY <1>3, FeedsAreHist DEF Extend
  <1> QED BY <1>2, <1>3

(* The rows a chunk writes, and those it does not. *)
LEMMA WriteRowsFacts ==
  ASSUME NEW kv \in RowStore, NEW pos \in Nat, NEW n \in Nat, NEW hist \in Hist,
         hist # Bad => Len(hist) = pos + n
  PROVE  /\ WriteRows(kv, pos, n, hist) \in RowStore
         /\ \A r \in Rows : r <= pos => WriteRows(kv, pos, n, hist)[r] = kv[r]
         /\ hist # Bad => \A r \in Rows : r > pos /\ r <= pos + n =>
              WriteRows(kv, pos, n, hist)[r] = SubSeq(hist, 1, r)
  <1>1. \A r \in Rows : r \in Nat
    BY DEF Rows
  <1>2. ASSUME NEW r \in Rows
        PROVE  (IF r > pos /\ r <= pos + n THEN IF hist = Bad THEN Bad ELSE SubSeq(hist, 1, r) ELSE kv[r]) \in Hist
    <2>1. kv[r] \in Hist
      BY DEF RowStore
    <2>2. CASE r > pos /\ r <= pos + n /\ hist # Bad
      <3>1. r \in 0 .. Len(hist)
        BY <1>1, <2>2
      <3>2. SubSeq(hist, 1, r) \in Hist
        BY <3>1, Prefixes DEF Hist
      <3> QED BY <2>2, <3>2
    <2> QED BY <2>1, <2>2, FeedsAreHist
  <1>3. WriteRows(kv, pos, n, hist) \in RowStore
    BY <1>2 DEF WriteRows, RowStore
  <1>4. \A r \in Rows : r <= pos => WriteRows(kv, pos, n, hist)[r] = kv[r]
    BY <1>1 DEF WriteRows
  <1>5. hist # Bad => \A r \in Rows : r > pos /\ r <= pos + n =>
              WriteRows(kv, pos, n, hist)[r] = SubSeq(hist, 1, r)
    BY <1>1 DEF WriteRows
  <1> QED BY <1>3, <1>4, <1>5

(* Stage B alone feeds n tokens: what is written, and what is not. *)
LEMMA FedFacts ==
  ASSUME Shapes, NEW n \in Nat \ {0}, b.pos + n <= MaxPos
  PROVE  /\ Fed(n) \in BStates /\ Fed(n).pos = b.pos + n /\ Fed(n).win = <<>>
         /\ \A r \in Rows : r <= b.pos => Fed(n).kv[r] = b.kv[r]
         /\ Fed(n).gdn # Bad => Len(Fed(n).gdn) = b.pos + n
         /\ b.hi = Bad => Fed(n).hi = Bad
  <1>1. b \in BStates /\ calls \in Nat
    BY DEF Shapes, BStates
  <1>2. /\ b.pos \in Nat /\ b.kv \in RowStore /\ b.gdn \in Hist /\ b.win \in Hist /\ b.hi \in Hist
        /\ b.pos + n \in 0..MaxPos
    BY <1>1, Constants DEF BStates
  <1> DEFINE toks == Tokens(calls + 1, n)
             h == Extend(b, LiveGdn, toks)
             kv == WriteRows(b.kv, b.pos, n, h)
             hi == IF b.hi = Bad THEN Bad ELSE b.hi \o toks
  <1>3. toks \in Hist /\ Len(toks) = n
    BY <1>1, TokensFacts, FeedsAreHist
  <1>4. LiveGdn \in Hist
    BY <1>2 DEF LiveGdn
  <1> HIDE DEF toks
  <1>5. h \in Hist /\ (h # Bad => Len(h) = b.pos + n)
    BY <1>3, <1>4, ExtendFacts
  <1> HIDE DEF h
  <1>6. kv \in RowStore /\ \A r \in Rows : r <= b.pos => kv[r] = b.kv[r]
    BY <1>2, <1>5, WriteRowsFacts
  <1> HIDE DEF kv
  <1>7. hi \in Hist
    BY <1>2, <1>3, FeedsAreHist, ConcatProperties DEF Hist
  <1>8. b.hi = Bad => hi = Bad
    OBVIOUS
  <1> HIDE DEF hi
  <1>9. Fed(n) = [pos |-> b.pos + n, kv |-> kv, gdn |-> h, win |-> <<>>, hi |-> hi, end |-> TRUE]
    BY DEF Fed, kv, h, hi, toks
  <1>10. Fed(n) \in BStates
    BY <1>2, <1>5, <1>6, <1>7, <1>9, BadStores DEF BStates
  <1> QED BY <1>5, <1>6, <1>8, <1>9, <1>10

(* From a state that is the truth comes a state that is. *)
LEMMA FedIsTruth ==
  ASSUME Shapes, NEW n \in Nat \ {0}, b.pos + n <= MaxPos,
         b.pos = Len(truth), b.hi = truth, LiveGdn = truth, IsTruth(b.kv, b.pos)
  PROVE  LET grown == truth \o Tokens(calls + 1, n) IN
         /\ grown \in Feeds /\ Len(grown) = b.pos + n
         /\ Fed(n).hi = grown /\ Fed(n).gdn = grown
         /\ \A r \in 1 .. b.pos + n : Fed(n).kv[r] = SubSeq(grown, 1, r)
         /\ \A r \in 0 .. b.pos : SubSeq(grown, 1, r) = SubSeq(truth, 1, r)
  <1>1. truth \in Feeds /\ calls \in Nat /\ b.pos \in Nat /\ b.kv \in RowStore
    BY DEF Shapes, Feeds
  <1>2. truth # Bad /\ truth \in Hist
    BY <1>1, FeedsAreHist
  <1> DEFINE toks == Tokens(calls + 1, n)
             grown == truth \o toks
  <1>3. toks \in Feeds /\ Len(toks) = n /\ toks \in Hist
    BY <1>1, TokensFacts, FeedsAreHist
  <1> HIDE DEF toks
  <1>4. grown \in Feeds /\ Len(grown) = b.pos + n
    <2>1. truth \in Seq(Nat \ {0}) /\ toks \in Seq(Nat \ {0})
      BY <1>1, <1>3 DEF Feeds
    <2>2. grown \in Seq(Nat \ {0}) /\ Len(grown) = Len(truth) + Len(toks)
      BY <2>1, ConcatProperties
    <2> QED BY <1>3, <2>2 DEF Feeds
  <1>5. Coherent(b.kv, LiveGdn, b.pos)
    BY <1>2 DEF Coherent, IsTruth
  <1>6. Extend(b, LiveGdn, toks) = grown
    BY <1>2, <1>3, <1>5, ExtendFacts
  <1>7. ASSUME NEW r \in 0 .. b.pos PROVE SubSeq(grown, 1, r) = SubSeq(truth, 1, r)
    BY <1>1, <1>3, PrefixOfConcat DEF Feeds
  <1> HIDE DEF grown
  <1>8. Fed(n).hi = grown /\ Fed(n).gdn = grown /\ Fed(n).kv = WriteRows(b.kv, b.pos, n, grown)
    BY <1>2, <1>6 DEF Fed, grown, toks
  <1>9. grown # Bad /\ grown \in Hist
    BY <1>4, FeedsAreHist
  <1>10. ASSUME NEW r \in 1 .. b.pos + n PROVE Fed(n).kv[r] = SubSeq(grown, 1, r)
    <2>1. r \in Rows /\ r \in Nat
      BY <1>1, Constants DEF Rows
    <2>2. CASE r <= b.pos
      <3>1. Fed(n).kv[r] = b.kv[r]
        BY <1>1, <1>4, <1>8, <1>9, <2>1, <2>2, WriteRowsFacts
      <3>2. b.kv[r] = SubSeq(truth, 1, r)
        BY <1>1, <2>1, <2>2 DEF IsTruth
      <3> QED BY <1>1, <1>7, <2>1, <2>2, <3>1, <3>2
    <2>3. CASE r > b.pos
      BY <1>1, <1>4, <1>8, <1>9, <2>1, <2>3, WriteRowsFacts
    <2> QED BY <1>1, <2>1, <2>2, <2>3
  <1> QED BY <1>4, <1>7, <1>8, <1>10 DEF grown, toks

(* A state of stage B that has advanced by n tokens. *)
LiveOf(m) == IF m.win = <<>> THEN m.gdn ELSE m.win
Advanced(m, n) ==
  /\ m \in BStates /\ m.pos = b.pos + n
  /\ \A r \in Rows : r <= b.pos + n => m.kv[r] = Fed(n).kv[r]
  /\ LiveOf(m) = Fed(n).gdn /\ m.hi = Fed(n).hi
  /\ m.end => m.win = <<>>

(* A plain feed advances B. *)
LEMMA FedAdvances ==
  ASSUME Shapes, NEW n \in Nat \ {0}, b.pos + n <= MaxPos
  PROVE  Advanced(Fed(n), n)
  BY FedFacts DEF Advanced, LiveOf

(* So does a speculative round: the same live state, the rows it keeps. *)
LEMMA RoundAdvances ==
  ASSUME Shapes, NEW n \in 1..2, NEW w \in 1..2, n <= w, b.pos + w <= MaxPos
  PROVE  Advanced(Round(n, w), n)
  <1>1. b.pos \in Nat /\ b.pos + n <= MaxPos /\ n \in Nat \ {0} /\ MaxPos \in Nat
    <2>1. b.pos \in 0..MaxPos /\ MaxPos \in Nat
      BY Constants DEF Shapes
    <2>2. n \in {1, 2} /\ w \in {1, 2}
      OBVIOUS
    <2> QED BY <2>1, <2>2
  <1> DEFINE f == Fed(n)
             kv == RejectedRows(f, w)
             m == [f EXCEPT !.kv = kv, !.end = FALSE]
  <1>2. f \in BStates /\ f.pos = b.pos + n /\ f.win = <<>> /\ (f.gdn # Bad => Len(f.gdn) = b.pos + n)
    BY <1>1, FedFacts
  <1> HIDE DEF f
  <1>3. kv \in RowStore /\ \A r \in Rows : r <= b.pos + n => kv[r] = f.kv[r]
    <2>1. f.kv \in RowStore
      BY <1>2 DEF BStates
    <2>2. \A r \in Rows : r \in Nat
      BY DEF Rows
    <2> QED BY <1>1, <1>2, <2>1, <2>2, FeedsAreHist DEF RejectedRows, RowStore
  <1> HIDE DEF kv
  <1>4. /\ m \in BStates /\ m.pos = f.pos /\ m.kv = kv /\ m.gdn = f.gdn /\ m.win = <<>>
        /\ m.hi = f.hi /\ m.end = FALSE
    BY <1>2, <1>3 DEF BStates
  <1>5. Round(n, w) = CommitVerifiedWindow(m, n)
    BY DEF Round, m, kv, f
  <1> HIDE DEF m
  <1>6. CASE n = 1 \/ m.gdn = Bad
    <2>1. Round(n, w) = m
      BY <1>5, <1>6 DEF CommitVerifiedWindow
    <2> QED BY <1>2, <1>3, <1>4, <2>1 DEF Advanced, LiveOf, f
  <1>7. CASE n # 1 /\ m.gdn # Bad
    <2> DEFINE z == [m EXCEPT !.gdn = SubSeq(m.gdn, 1, b.pos + 1), !.win = m.gdn]
    <2>1. Round(n, w) = z
      BY <1>5, <1>7 DEF CommitVerifiedWindow
    <2>2. m.gdn \in Hist /\ Len(m.gdn) = b.pos + n
      BY <1>2, <1>4, <1>7 DEF BStates
    <2>3. SubSeq(m.gdn, 1, b.pos + 1) \in Hist
      <3>1. b.pos + 1 \in 0 .. Len(m.gdn)
        BY <1>1, <2>2
      <3>2. m.gdn \in Seq(Nat)
        BY <2>2 DEF Hist
      <3>3. SubSeq(m.gdn, 1, b.pos + 1) \in Seq(Nat)
        BY <3>1, <3>2, Prefixes
      <3> QED BY <3>3 DEF Hist
    <2>4. /\ z \in BStates /\ z.pos = m.pos /\ z.kv = m.kv /\ z.win = m.gdn
          /\ z.hi = m.hi /\ z.end = m.end
      BY <1>4, <2>2, <2>3 DEF BStates
    <2>5. z.win # <<>>
      BY <1>1, <2>2, <2>4, EmptySeq
    <2> HIDE DEF z
    <2>6. LiveOf(z) = m.gdn
      BY <2>4, <2>5 DEF LiveOf
    <2> QED BY <1>2, <1>3, <1>4, <2>1, <2>4, <2>6 DEF Advanced, f
  <1> QED BY <1>6, <1>7

(* The states that are left by a failure, a collapse, a reset, a restore. *)
LEMMA OtherStates ==
  ASSUME Shapes
  PROVE  /\ Broken \in BStates /\ Broken.pos = b.pos /\ Broken.win = <<>> /\ Broken.hi = Bad /\ ~Broken.end
         /\ \A r \in Rows : r <= b.pos => Broken.kv[r] = b.kv[r]
         /\ Collapsed \in BStates /\ Collapsed = [b EXCEPT !.gdn = LiveGdn, !.win = <<>>]
         /\ Collapsed.pos = b.pos /\ Collapsed.kv = b.kv /\ Collapsed.gdn = LiveGdn
         /\ Collapsed.win = <<>> /\ Collapsed.hi = b.hi /\ Collapsed.end = b.end
         /\ HalfCollapsed \in BStates /\ HalfCollapsed.pos = b.pos /\ HalfCollapsed.kv = b.kv
         /\ HalfCollapsed.win = <<>> /\ HalfCollapsed.hi = Bad
         /\ FreshB \in BStates
         /\ LiveGdn \in Hist
  <1>1. b \in BStates
    BY DEF Shapes, BStates
  <1>2. b.kv \in RowStore /\ b.gdn \in Hist /\ b.win \in Hist
    BY <1>1 DEF BStates
  <1>3. Bad \in Hist /\ <<>> \in Hist /\ Fresh \in RowStore
    BY FeedsAreHist, BadStores
  <1>4. LiveGdn \in Hist
    BY <1>2 DEF LiveGdn
  <1> DEFINE kv == [r \in Rows |-> IF r > b.pos THEN Bad ELSE b.kv[r]]
  <1>5. kv \in RowStore /\ \A r \in Rows : r <= b.pos => kv[r] = b.kv[r]
    <2>1. \A r \in Rows : r \in Nat
      BY DEF Rows
    <2>2. b.pos \in Nat
      BY <1>1, Constants DEF BStates
    <2> QED BY <1>2, <1>3, <2>1, <2>2 DEF RowStore
  <1> HIDE DEF kv
  <1>6. Broken = [b EXCEPT !.kv = kv, !.gdn = Bad, !.win = <<>>, !.hi = Bad, !.end = FALSE]
    BY DEF Broken, kv
  <1>7. /\ Broken \in BStates /\ Broken.pos = b.pos /\ Broken.win = <<>> /\ Broken.hi = Bad /\ ~Broken.end
        /\ Broken.kv = kv
    BY <1>1, <1>3, <1>5, <1>6 DEF BStates
  <1>8. /\ Collapsed \in BStates
        /\ Collapsed.pos = b.pos /\ Collapsed.kv = b.kv /\ Collapsed.gdn = LiveGdn
        /\ Collapsed.win = <<>> /\ Collapsed.hi = b.hi /\ Collapsed.end = b.end
    BY <1>1, <1>3, <1>4 DEF BStates, Collapsed
  <1>9. /\ HalfCollapsed \in BStates /\ HalfCollapsed.pos = b.pos /\ HalfCollapsed.kv = b.kv
        /\ HalfCollapsed.win = <<>> /\ HalfCollapsed.hi = Bad
    BY <1>1, <1>3 DEF BStates, HalfCollapsed
  <1>10. FreshB \in BStates
    BY <1>3, Constants DEF FreshB, BStates
  <1> QED BY <1>4, <1>5, <1>7, <1>8, <1>9, <1>10 DEF Collapsed

-----------------------------------------------------------------------------
(* Stage A's steps.                                                        *)

(* The next chunk of stage A: it ends with the call, or one chunk further. *)
LEMMA AChunk ==
  ASSUME call \in Commands, a.pos \in Nat, a.pos < End
  PROVE  /\ ARows \in Nat \ {0} /\ a.pos + ARows <= End
         /\ a.pos + ARows = Min2(a.pos + ChunkRows, End)
         /\ ALast <=> End <= a.pos + ChunkRows
         /\ ALast <=> a.pos + ARows = End
         /\ ~ALast => a.pos + ARows = a.pos + ChunkRows /\ a.pos + ARows < End
  <1>1. call.p0 \in Nat /\ call.rows \in Nat /\ ChunkRows \in Nat \ {0}
    BY Constants DEF Commands
  <1>2. End = call.p0 + call.rows /\ End \in Nat
    BY <1>1 DEF End
  <1>3. ARows = Min2(ChunkRows, End - a.pos)
    BY <1>1 DEF ARows, End, Min2
  <1>4. ALast <=> a.pos + ARows = End
    BY DEF ALast, End
  <1>5. ARows \in Nat \ {0} /\ a.pos + ARows <= End
        /\ (End <= a.pos + ChunkRows => a.pos + ARows = End)
        /\ (End > a.pos + ChunkRows => ARows = ChunkRows)
    BY <1>1, <1>2, <1>3 DEF Min2
  <1>6. a.pos + ARows = Min2(a.pos + ChunkRows, End)
    BY <1>1, <1>2, <1>5 DEF Min2
  <1> QED BY <1>1, <1>2, <1>4, <1>5, <1>6

(* And of stage B. *)
LEMMA BChunk ==
  ASSUME call \in Commands, b.pos \in Nat, b.pos < End
  PROVE  /\ BRows \in Nat \ {0} /\ b.pos + BRows <= End
         /\ b.pos + BRows = Min2(b.pos + ChunkRows, End)
         /\ BLast <=> b.pos + BRows = End
  <1>1. call.p0 \in Nat /\ call.rows \in Nat /\ ChunkRows \in Nat \ {0}
    BY Constants DEF Commands
  <1>2. End = call.p0 + call.rows /\ End \in Nat
    BY <1>1 DEF End
  <1>3. BRows = Min2(ChunkRows, End - b.pos)
    BY <1>1 DEF BRows, End, Min2
  <1>4. BLast <=> b.pos + BRows = End
    BY DEF BLast, End
  <1>5. BRows \in Nat \ {0} /\ b.pos + BRows <= End
        /\ (End <= b.pos + ChunkRows => b.pos + BRows = End)
        /\ (End > b.pos + ChunkRows => BRows = ChunkRows)
    BY <1>1, <1>2, <1>3 DEF Min2
  <1>6. b.pos + BRows = Min2(b.pos + ChunkRows, End)
    BY <1>1, <1>2, <1>5 DEF Min2
  <1> QED BY <1>4, <1>5, <1>6

AStates == [pos : 0..MaxPos, kv : RowStore, gdn : Hist]

(* What stage A computes is a state of its own. *)
LEMMA ComputeFacts ==
  ASSUME Shapes, Phases, apc = "compute"
  PROVE  LET h == Extend(a, a.gdn, Tokens(call.id, ARows))
             kv == WriteRows(a.kv, a.pos, ARows, h)
         IN /\ h \in Hist /\ kv \in RowStore
            /\ \A r \in Rows : r <= a.pos => kv[r] = a.kv[r]
            /\ h # Bad => \A r \in Rows : r > a.pos /\ r <= a.pos + ARows => kv[r] = SubSeq(h, 1, r)
            /\ Coherent(a.kv, a.gdn, a.pos) => h = a.gdn \o Tokens(call.id, ARows)
  <1> DEFINE toks == Tokens(call.id, ARows)
             h == Extend(a, a.gdn, toks)
             kv == WriteRows(a.kv, a.pos, ARows, h)
  <1>1. a \in AStates /\ call \in Commands
    BY DEF Shapes, AStates
  <1>2. a.pos \in Nat /\ a.kv \in RowStore /\ a.gdn \in Hist /\ a.pos < End /\ call.id \in Nat
    BY <1>1, Constants DEF AStates, Phases, Commands
  <1>3. ARows \in Nat \ {0}
    BY <1>1, <1>2, AChunk
  <1>4. toks \in Hist /\ Len(toks) = ARows
    BY <1>2, <1>3, TokenHist
  <1> HIDE DEF toks
  <1>5. h \in Hist /\ (h # Bad => Len(h) = a.pos + ARows)
        /\ (Coherent(a.kv, a.gdn, a.pos) => h = a.gdn \o toks)
    BY <1>2, <1>4, ExtendFacts
  <1> HIDE DEF h
  <1>6. /\ kv \in RowStore
        /\ \A r \in Rows : r <= a.pos => kv[r] = a.kv[r]
        /\ h # Bad => \A r \in Rows : r > a.pos /\ r <= a.pos + ARows => kv[r] = SubSeq(h, 1, r)
    <2>1. ARows \in Nat
      BY <1>3
    <2> HIDE DEF kv
    <2> QED BY <1>2, <1>5, <2>1, WriteRowsFacts DEF kv
  <1> QED BY <1>5, <1>6 DEF kv, h, toks

(* The types of the states and counters, one by one. *)
LEMMA TypesOfA ==
  ASSUME Shapes
  PROVE  /\ a \in AStates /\ a.pos \in Nat /\ a.kv \in RowStore /\ a.gdn \in Hist
         /\ b \in BStates /\ b.pos \in Nat /\ b.pos <= MaxPos /\ b.kv \in RowStore /\ b.gdn \in Hist /\ b.win \in Hist
         /\ b.hi \in Hist
         /\ call \in Commands /\ call.p0 \in Nat /\ call.p0 <= MaxPos /\ call.rows \in Nat /\ call.id \in Nat
         /\ call.row0 \in Nat
         /\ End \in Nat /\ MaxPos \in Nat
         /\ acquired \in Nat /\ published \in Nat /\ taken \in Nat /\ released \in Nat /\ calls \in Nat
         /\ truth \in Feeds
  <1>1. a \in AStates /\ b \in BStates /\ call \in Commands /\ truth \in Feeds
    BY DEF Shapes, AStates, BStates, Feeds
  <1>2. {acquired, published, taken, released, calls} \subseteq Nat
    BY DEF Shapes
  <1>3. a.pos \in Nat /\ a.kv \in RowStore /\ a.gdn \in Hist /\ MaxPos \in Nat
    BY <1>1, Constants DEF AStates
  <1>4. b.pos \in Nat /\ b.pos <= MaxPos /\ b.kv \in RowStore /\ b.gdn \in Hist /\ b.win \in Hist /\ b.hi \in Hist
    BY <1>1, Constants DEF BStates
  <1>5. call.p0 \in Nat /\ call.p0 <= MaxPos /\ call.rows \in Nat /\ call.id \in Nat /\ call.row0 \in Nat
    <2>1. call.p0 \in 0..MaxPos
      BY <1>1 DEF Commands
    <2>2. call.rows \in Nat /\ call.id \in Nat /\ call.row0 \in Nat
      BY <1>1 DEF Commands
    <2> QED BY <2>1, <2>2, Constants
  <1>6. End \in Nat
    BY <1>5 DEF End
  <1> QED BY <1>1, <1>2, <1>3, <1>4, <1>5, <1>6

(* Stage A's steps keep every variable in its type. *)
LEMMA ShapesA ==
  ASSUME IInv, StageA \/ StageAHost
  PROVE  Shapes'
  <1>0. Shapes /\ Phases
    BY DEF IInv
  <1> USE DEF facadeVars, bVars, aVars, bufVars, chVars, AGo, AThrow
  <1>1. CASE ASync
    <2> DEFINE own == split.a = split.run
               kv == IF call.p0 = call.row0 THEN a.kv
                     ELSE Overlay(a.kv, IF own THEN kvSync ELSE Fresh, call.row0, call.p0 - call.row0)
               gdn == IF ~call.gdn THEN a.gdn ELSE IF own THEN gdnSync ELSE Bad
    <2>1. kvSync \in RowStore /\ gdnSync \in Hist /\ a.kv \in RowStore /\ a.gdn \in Hist /\ call.p0 \in 0..MaxPos
      BY <1>0 DEF Shapes, Commands
    <2>2. gdn \in Hist
      BY <2>1, FeedsAreHist
    <2>3. kv \in RowStore
      BY <2>1, BadStores, OverlayFacts
    <2> HIDE DEF kv, gdn
    <2>4. a' = [pos |-> call.p0, gdn |-> gdn, kv |-> kv]
      BY <1>1 DEF ASync, kv, gdn
    <2>5. a' \in [pos : 0..MaxPos, kv : RowStore, gdn : Hist] /\ apc' = "compute"
      BY <1>1, <2>1, <2>2, <2>3, <2>4 DEF ASync
    <2> QED BY <1>0, <1>1, <2>5 DEF Shapes, ASync, ACallPlaces
  <1>2. CASE ACompute
    <2> DEFINE h == Extend(a, a.gdn, Tokens(call.id, ARows))
               kv == WriteRows(a.kv, a.pos, ARows, h)
    <2>1. h \in Hist /\ kv \in RowStore
      BY <1>0, <1>2, ComputeFacts DEF ACompute
    <2>2. a' = [a EXCEPT !.gdn = h, !.kv = kv]
      BY <1>0, <1>2, TypesOfA DEF ACompute, AStates
    <2> HIDE DEF h, kv
    <2>3. a' \in [pos : 0..MaxPos, kv : RowStore, gdn : Hist] /\ apc' = "acquire"
      BY <1>0, <1>2, <2>1, <2>2 DEF Shapes, ACompute
    <2> QED BY <1>0, <1>2, <2>3 DEF Shapes, ACompute, ACallPlaces
  <1>3. CASE AFill
    <2> DEFINE s == [pos |-> a.pos, rows |-> ARows, last |-> ALast, carry |-> a.gdn, kv |-> a.kv]
    <2>1. a.pos < End
      BY <1>0, <1>3 DEF Phases, AFill
    <2>2. ARows \in Nat /\ ALast \in BOOLEAN
      BY <1>0, <2>1, TypesOfA, AChunk DEF ALast
    <2>3. s \in SlotValues
      BY <1>0, <2>2, TypesOfA DEF SlotValues
    <2> HIDE DEF s
    <2>4. slots' = [slots EXCEPT ![SlotOf(acquired - 1)] = s]
      BY <1>3 DEF AFill, s
    <2>5. slots' \in [0..(Slots - 1) -> SlotValues] /\ apc' = "publish"
      <3>1. slots \in [0..(Slots - 1) -> SlotValues]
        BY <1>0 DEF Shapes
      <3>2. apc' = "publish"
        BY <1>3 DEF AFill
      <3> QED BY <2>3, <2>4, <3>1, <3>2
    <2> QED BY <1>0, <1>3, <2>5 DEF Shapes, AFill, ACallPlaces
  <1>4. CASE AExport
    <2>1. hand' \in Hist /\ apc' = "bulk"
      BY <1>0, <1>4, TypesOfA DEF AExport
    <2> QED BY <1>0, <1>4, <2>1 DEF Shapes, AExport, ACallPlaces
  <1>5. CASE AReset
    <2>1. a' \in [pos : 0..MaxPos, kv : RowStore, gdn : Hist] /\ apc' = "idle"
      BY <1>5, BadStores, Constants DEF AReset
    <2> QED BY <1>0, <1>5, <2>1 DEF Shapes, AReset
  <1>6. CASE AAttach
    <2>1. a' \in [pos : 0..MaxPos, kv : RowStore, gdn : Hist] /\ apc' = "idle"
      BY <1>0, <1>6, BadStores, FeedsAreHist DEF AAttach, Shapes
    <2>2. split' \in [run : Nat, a : Nat, b : Nat, to : Nat, old : Nat]
      BY <1>0, <1>6 DEF Shapes, AAttach
    <2> QED BY <1>0, <1>6, <2>1, <2>2 DEF Shapes, AAttach
  <1>7. CASE ACapture
    BY <1>0, <1>7 DEF Shapes, ACapture
  <1>8. CASE AFault
    <2>1. apc' \in {"idle", "catch"} /\ aerr' = "error"
      BY <1>8 DEF AFault
    <2> QED BY <1>0, <1>8, <2>1 DEF Shapes, AFault, ACallPlaces
  <1>9. CASE AcquireFree
    <2>1. acquired' \in Nat /\ apc' \in {"fill", "catch"} /\ aerr' \in {aerr, "poisoned"}
      <3>1. acquired \in Nat
        BY <1>0, TypesOfA
      <3> QED BY <1>9, <3>1 DEF AcquireFree
    <2>2. aerr' \in {"none", "error", "timeout", "poisoned"}
      BY <1>0, <2>1 DEF Shapes
    <2>3. UNCHANGED <<state, pc, aux, tracker, b, ckpt, a, gdnSync, kvSync, hand, published, taken, released,
                      calls, bulk, poisoned, early, dirty, slots, call, truth, split>>
      BY <1>9 DEF AcquireFree, bVars
    <2> QED BY <1>0, <2>1, <2>2, <2>3 DEF Shapes, ACallPlaces
  <1>10. CASE AcquireFreeTimeout
    BY <1>0, <1>10 DEF Shapes, AcquireFreeTimeout, ACallPlaces
  <1>11. CASE Publish
    <2>1. CASE poisoned
      BY <1>0, <1>11, <2>1 DEF Shapes, Publish, ACallPlaces
    <2>2. CASE ~poisoned
      <3>1. a.pos < End /\ End <= MaxPos
        BY <1>0, <1>11 DEF Phases, Publish
      <3>2. a.pos + ARows \in 0..MaxPos
        <4>1. ARows \in Nat /\ a.pos + ARows <= End
          BY <1>0, <3>1, TypesOfA, AChunk
        <4> QED BY <1>0, <3>1, <4>1, TypesOfA
      <3>3. a' = [a EXCEPT !.pos = a.pos + ARows] /\ published' = published + 1 /\ apc' \in {"export", "compute"}
        BY <1>11, <2>2 DEF Publish
      <3>4. a' \in [pos : 0..MaxPos, kv : RowStore, gdn : Hist]
        BY <1>0, <3>2, <3>3 DEF Shapes
      <3>5. published' \in Nat
        BY <1>0, <3>3, TypesOfA
      <3>6. UNCHANGED <<state, pc, aux, tracker, b, ckpt, gdnSync, kvSync, hand, acquired, taken, released,
                        calls, bulk, poisoned, early, dirty, slots, call, truth, split, aerr>>
        BY <1>11, <2>2 DEF Publish, bVars
      <3> QED BY SMTT(30), <1>0, <3>3, <3>4, <3>5, <3>6 DEF Shapes, ACallPlaces
    <2> QED BY <2>1, <2>2
  <1>12. CASE PublishBulk
    <2>1. bulk' \in Int /\ apc' \in {"idle", "catch"} /\ aerr' \in {aerr, "poisoned"}
      <3>1. bulk \in Int
        BY <1>0 DEF Shapes
      <3> QED BY <1>0, <1>12, <3>1, TypesOfA DEF PublishBulk
    <2> QED BY <1>0, <1>12, <2>1 DEF Shapes, PublishBulk, ACallPlaces
  <1>13. CASE ACatch
    BY <1>0, <1>13 DEF Shapes, ACatch
  <1> QED BY <1>1, <1>2, <1>3, <1>4, <1>5, <1>6, <1>7, <1>8, <1>9, <1>10, <1>11, <1>12, <1>13 DEF StageA, StageAHost

(* What stage B's chunk leaves: the rows of whole blocks, and what the     *)
(* layers from the split on make of the carry.                             *)
LEMMA LayersFacts ==
  ASSUME IInv, BLayers
  PROVE  LET toks == Tokens(call.id, BRows) IN
         /\ BSlot \in SlotValues
         /\ b' \in BStates /\ b'.pos = b.pos + BRows /\ b'.gdn = b.gdn /\ b'.win = b.win
         /\ b'.kv = Overlay(b.kv, BSlot.kv, b.pos, BRows)
         /\ b'.hi = IF b.hi # Bad /\ split.a = split.b /\ BSlot.carry = b.hi \o toks THEN b.hi \o toks ELSE Bad
         /\ BRows \in Nat \ {0} /\ b.pos + BRows <= End /\ b.pos + BRows = Min2(b.pos + ChunkRows, End)
         /\ taken = released + 1 /\ b.pos = ChunkPos(released) /\ b.pos < End /\ SlotOf(taken - 1) = SlotOf(released)
  <1>0. Shapes /\ Counts
    BY DEF IInv
  <1>1. taken = released + 1 /\ b.pos = ChunkPos(released) /\ b.pos < End /\ End <= MaxPos
    <2>1. InCall /\ pc \in {"check", "layers"}
      BY DEF BLayers, InCall, CallPlaces
    <2> QED BY <1>0, <2>1 DEF Counts
  <1>2. BRows \in Nat \ {0} /\ b.pos + BRows <= End /\ b.pos + BRows = Min2(b.pos + ChunkRows, End)
    BY <1>0, <1>1, TypesOfA, BChunk
  <1>3. BSlot \in SlotValues
    <2>1. SlotOf(taken - 1) \in 0 .. Slots - 1
      <3>1. taken - 1 \in Nat
        BY <1>0, <1>1, TypesOfA
      <3> QED BY <3>1, SlotInRange
    <2>2. slots \in [0 .. Slots - 1 -> SlotValues]
      BY <1>0 DEF Shapes
    <2> QED BY <2>1, <2>2 DEF BSlot
  <1> DEFINE toks == Tokens(call.id, BRows)
             kv == Overlay(b.kv, BSlot.kv, b.pos, BRows)
             hi == IF b.hi # Bad /\ split.a = split.b /\ BSlot.carry = b.hi \o toks THEN b.hi \o toks ELSE Bad
  <1>4. kv \in RowStore
    <2>1. BSlot.kv \in RowStore
      BY <1>3 DEF SlotValues
    <2> QED BY <1>0, <2>1, TypesOfA, OverlayFacts
  <1>5. hi \in Hist
    <2>1. toks \in Hist
      BY <1>0, <1>2, TypesOfA, TokenHist
    <2> QED BY <1>0, <2>1, TypesOfA, FeedsAreHist, ConcatProperties DEF Hist
  <1>6. BLast \in BOOLEAN
    BY DEF BLast
  <1> HIDE DEF kv, hi
  <1>7. b' = [b EXCEPT !.pos = b.pos + BRows, !.kv = kv, !.hi = hi, !.end = BLast]
    BY <1>0, TypesOfA DEF BLayers, BStates, kv, hi
  <1>8. b.pos + BRows \in 0..MaxPos
    BY <1>0, <1>1, <1>2, TypesOfA
  <1>9. b' \in BStates /\ b'.pos = b.pos + BRows /\ b'.gdn = b.gdn /\ b'.win = b.win /\ b'.kv = kv /\ b'.hi = hi
    BY <1>0, <1>4, <1>5, <1>6, <1>7, <1>8, TypesOfA DEF BStates
  <1>10. taken - 1 = released
    BY <1>0, <1>1, TypesOfA
  <1> QED BY <1>1, <1>2, <1>3, <1>9, <1>10 DEF kv, hi

(* Stage B's steps keep every variable in its type. *)
LEMMA ShapesB ==
  ASSUME IInv, StageB \/ BFault \/ AuxLand
  PROVE  Shapes'
  <1>0. Shapes
    BY DEF IInv
  <1> USE DEF facadeVars, facadeRest, aVars, bufVars, chVars, BGo, BThrow
  <1>1. CASE AcquireFull
    <2>1. taken' \in Nat /\ pc' \in {"check", "catch"}
      <3>1. taken \in Nat
        BY <1>0, TypesOfA
      <3> QED BY <1>1, <3>1 DEF AcquireFull
    <2>2. UNCHANGED <<state, apc, aerr, aux, tracker, b, ckpt, a, gdnSync, kvSync, hand, acquired, published,
                      released, calls, bulk, poisoned, early, dirty, slots, call, truth, split>>
      BY <1>1 DEF AcquireFull
    <2> QED BY SMTT(30), <1>0, <2>1, <2>2 DEF Shapes, CallPlaces
  <1>2. CASE AcquireFullTimeout
    BY <1>0, <1>2 DEF Shapes, AcquireFullTimeout, CallPlaces
  <1>3. CASE BCheck
    <2>1. pc' \in {"catch", "layers"} /\ early' \in {early, TRUE} /\ aux' \in {aux, "copying"}
      BY <1>3 DEF BCheck
    <2>2. UNCHANGED <<state, apc, aerr, tracker, b, ckpt, a, gdnSync, kvSync, hand, acquired, published, taken,
                      released, calls, bulk, poisoned, dirty, slots, call, truth, split>>
      BY <1>3 DEF BCheck
    <2>3. early' \in BOOLEAN /\ aux' \in {"idle", "copying"}
      BY <1>0, <2>1 DEF Shapes
    <2> QED BY <1>0, <2>1, <2>2, <2>3 DEF Shapes, CallPlaces
  <1>4. CASE BLayers
    <2>1. b' \in [pos : 0..MaxPos, kv : RowStore, gdn : Hist, win : Hist, hi : Hist, end : BOOLEAN]
      BY <1>4, LayersFacts DEF BStates
    <2> QED BY <1>0, <1>4, <2>1 DEF Shapes, BLayers, CallPlaces
  <1>5. CASE Release
    <2>1. released' \in Nat /\ pc' \in {"acquire", "fence", "bulk"}
      BY <1>0, <1>5, TypesOfA DEF Release
    <2> QED BY <1>0, <1>5, <2>1 DEF Shapes, Release, CallPlaces
  <1>6. CASE WaitBulk
    <2>1. pc' \in {"catch", "fence"} /\ aux' \in {aux, "copying"}
      BY <1>6 DEF WaitBulk
    <2> QED BY <1>0, <1>6, <2>1 DEF Shapes, WaitBulk, CallPlaces
  <1>7. CASE WaitBulkTimeout
    BY <1>0, <1>7 DEF Shapes, WaitBulkTimeout, CallPlaces
  <1>8. CASE ImportFence
    BY <1>0, <1>8 DEF Shapes, ImportFence, CallPlaces
  <1>9. CASE BCatch
    BY <1>0, <1>9 DEF Shapes, BCatch, CallPlaces
  <1>10. CASE BFault
    BY <1>0, <1>10 DEF Shapes, BFault, CallPlaces
  <1>11. CASE AuxLand
    <2>1. b' \in [pos : 0..MaxPos, kv : RowStore, gdn : Hist, win : Hist, hi : Hist, end : BOOLEAN]
      <3>1. hand \in Hist
        BY <1>0 DEF Shapes
      <3>2. (IF split.b = split.run THEN hand ELSE Bad) \in Hist
        BY <3>1, FeedsAreHist
      <3>3. b \in BStates
        BY <1>0, TypesOfA
      <3>4. b' \in BStates
        BY <1>11, <3>2, <3>3 DEF AuxLand, BStates
      <3> QED BY <3>4 DEF BStates
    <2> QED BY <1>0, <1>11, <2>1 DEF Shapes, AuxLand
  <1> QED BY <1>1, <1>2, <1>3, <1>4, <1>5, <1>6, <1>7, <1>8, <1>9, <1>10, <1>11 DEF StageB

-----------------------------------------------------------------------------
(* Calls on stage B alone.                                                 *)

(* Outside a call nothing is claimed of the ring and the stages. *)
LEMMA OutOfCall ==
  ASSUME ~InCall'
  PROVE  Counts' /\ Headers' /\ Copies' /\ Exact'
  BY DEF Counts, Headers, Copies, Exact

(* What a call finds. *)
LEMMA ReadyFacts ==
  ASSUME IInv, Idle
  PROVE  /\ Ready /\ ~InCall /\ apc = "idle" /\ aerr = "none" /\ ~poisoned /\ Quiescent
         /\ b.pos = Len(truth) /\ ckpt.pos <= Len(truth) /\ ckpt.pos \in -1 .. MaxPos
         /\ ckpt.gdn \in Hist /\ ckpt.hi \in Hist
         /\ aux = "idle" /\ tracker.kv \in 0..MaxPos /\ tracker.gdn \in -1..MaxPos
         /\ Aligned => /\ \A r \in 1..tracker.kv : a.kv[r] = b.kv[r]
                       /\ tracker.gdn # -1 => tracker.gdn = b.pos /\ a.gdn = LiveGdn
                       /\ ~dirty => b.hi = truth /\ LiveGdn = truth /\ IsTruth(b.kv, b.pos)
                       /\ dirty => b.hi = Bad
                       /\ b.end => b.win = <<>>
                       /\ b.win # <<>> => tracker.gdn = -1
                       /\ CkptIsTrue
  <1>0. Shapes /\ Phases /\ Between
    BY DEF IInv
  <1>1. Ready /\ ~InCall
    BY DEF Ready, Idle, InCall, CallPlaces
  <1>2. /\ apc = "idle" /\ aerr = "none" /\ ~poisoned /\ Quiescent
        /\ b.pos = Len(truth) /\ ckpt.pos <= Len(truth)
    BY <1>0, <1>1 DEF Phases
  <1>3. aux = "idle"
    BY <1>0, <1>1 DEF Phases, Shapes
  <1>4. ckpt.pos \in -1 .. MaxPos /\ ckpt.gdn \in Hist /\ ckpt.hi \in Hist
    BY <1>0 DEF Shapes
  <1>5. tracker.kv \in 0..MaxPos /\ tracker.gdn \in -1..MaxPos
    BY <1>0 DEF Shapes
  <1>6. ASSUME Aligned
        PROVE  /\ \A r \in 1..tracker.kv : a.kv[r] = b.kv[r]
               /\ tracker.gdn # -1 => tracker.gdn = b.pos /\ a.gdn = LiveGdn
               /\ ~dirty => b.hi = truth /\ LiveGdn = truth /\ IsTruth(b.kv, b.pos)
               /\ dirty => b.hi = Bad
               /\ b.end => b.win = <<>>
               /\ b.win # <<>> => tracker.gdn = -1
               /\ CkptIsTrue
    <2>1. /\ MirrorIsTrue /\ BIsExact /\ CkptIsTrue
          /\ dirty => b.hi = Bad
          /\ b.end => b.win = <<>>
          /\ b.win # <<>> => tracker.gdn = -1
      BY <1>0, <1>1, <1>6 DEF Between
    <2>2. /\ \A r \in 1..tracker.kv : a.kv[r] = b.kv[r]
          /\ tracker.gdn # -1 => tracker.gdn = b.pos /\ a.gdn = LiveGdn
      BY <2>1, <1>6 DEF MirrorIsTrue
    <2>3. ~dirty => b.hi = truth /\ LiveGdn = truth /\ IsTruth(b.kv, b.pos)
      BY <2>1, <1>6 DEF BIsExact, Coherent, IsTruth
    <2> QED BY <2>1, <2>2, <2>3
  <1> QED BY <1>1, <1>2, <1>3, <1>4, <1>5, <1>6

(* A call on B alone: B advances with the caller's tokens, or is broken. *)
LEMMA BAloneStep ==
  ASSUME IInv, Idle, NEW n \in Nat \ {0}, NEW after, b.pos + n <= MaxPos => Advanced(after, n),
         BAlone(after, n)
  PROVE  IInv'
  <1>0. Shapes /\ Phases /\ Causes
    BY DEF IInv
  <1>f. /\ UNCHANGED <<state, split, pc, call, ckpt, berr, early, aux, aVars, bufVars, chVars>>
        /\ tracker' = BOnly /\ calls' = calls + 1 /\ b.pos + n <= MaxPos
    BY DEF BAlone
  <1>u. UNCHANGED <<state, split, pc, call, ckpt, berr, early, aux, a, apc, aerr, gdnSync, kvSync, hand,
                    acquired, published, taken, released, bulk, poisoned, slots>>
    BY <1>f DEF aVars, bufVars, chVars
  <1>a. Advanced(after, n)
    BY <1>f
  <1> DEFINE grown == truth \o Tokens(calls + 1, n)
  <1>o. \/ b' = after /\ truth' = grown /\ reported' = "none" /\ dirty' = dirty
        \/ b' = Broken /\ dirty' = TRUE /\ reported' = "error" /\ truth' = truth
    BY DEF BAlone
  <1>1. /\ Ready /\ ~InCall /\ apc = "idle" /\ b.pos = Len(truth) /\ ckpt.pos <= Len(truth)
        /\ ckpt.pos \in -1 .. MaxPos /\ tracker.kv \in 0..MaxPos
    BY ReadyFacts
  <1>2. tracker' \in [kv : 0..MaxPos, gdn : -1..MaxPos] /\ tracker'.gdn = -1
        /\ tracker'.kv <= tracker.kv /\ tracker'.kv <= b.pos /\ tracker'.kv \in Nat
    <2>1. tracker' = [kv |-> Min2(tracker.kv, b.pos), gdn |-> -1]
      BY <1>f DEF BOnly
    <2>2. Min2(tracker.kv, b.pos) \in 0..MaxPos /\ Min2(tracker.kv, b.pos) <= tracker.kv /\ Min2(tracker.kv, b.pos) <= b.pos
      <3>1. b.pos \in Nat /\ b.pos <= MaxPos /\ MaxPos \in Nat /\ tracker.kv \in 0..MaxPos
        BY <1>0, <1>1, TypesOfA
      <3> QED BY <3>1 DEF Min2
    <2>3. -1 \in -1..MaxPos
      BY <1>0, TypesOfA
    <2> QED BY <1>0, <2>1, <2>2, <2>3, TypesOfA
  <1>3. /\ grown \in Feeds /\ Len(grown) = Len(truth) + n
        /\ \A r \in 0 .. Len(truth) : SubSeq(grown, 1, r) = SubSeq(truth, 1, r)
    <2>1. Tokens(calls + 1, n) \in Feeds /\ Len(Tokens(calls + 1, n)) = n
      BY <1>0, TypesOfA, TokensFacts
    <2>2. grown \in Feeds /\ Len(grown) = Len(truth) + n
      BY <1>0, <2>1, TypesOfA, ConcatProperties DEF Feeds
    <2>3. ASSUME NEW r \in 0 .. Len(truth) PROVE SubSeq(grown, 1, r) = SubSeq(truth, 1, r)
      BY <1>0, <2>1, TypesOfA, PrefixOfConcat DEF Feeds
    <2> QED BY <2>2, <2>3
  <1> HIDE DEF grown
  <1>4. /\ b' \in BStates /\ b'.pos = Len(truth') /\ Len(truth) <= Len(truth')
        /\ truth' \in Feeds
        /\ \A r \in 0 .. Len(truth) : SubSeq(truth', 1, r) = SubSeq(truth, 1, r)
        /\ \A r \in Rows : r <= b.pos => b'.kv[r] = b.kv[r]
        /\ b'.end => b'.win = <<>>
    <2>1. CASE b' = after /\ truth' = grown
      <3>1. \A r \in Rows : r <= b.pos => b'.kv[r] = b.kv[r]
        <4>1. \A r \in Rows : r \in Nat
          BY DEF Rows
        <4>2. \A r \in Rows : r <= b.pos + n => after.kv[r] = Fed(n).kv[r]
          BY <1>a DEF Advanced
        <4>3. \A r \in Rows : r <= b.pos => Fed(n).kv[r] = b.kv[r]
          BY <1>0, <1>f, FedFacts
        <4>4. b.pos \in Nat
          BY <1>0, TypesOfA
        <4> QED BY <2>1, <4>1, <4>2, <4>3, <4>4
      <3>2. after \in BStates /\ after.pos = b.pos + n /\ (after.end => after.win = <<>>)
        BY <1>a DEF Advanced
      <3>3. Len(truth') = Len(truth) + n /\ b'.pos = Len(truth) + n
        BY <1>1, <1>3, <2>1, <3>2
      <3>4. Len(truth) \in Nat
        BY <1>0, <1>1, TypesOfA
      <3>5. Len(truth) <= Len(truth')
        BY <3>3, <3>4
      <3> QED BY <1>3, <2>1, <3>1, <3>2, <3>3, <3>5
    <2>2. CASE b' = Broken /\ truth' = truth
      BY <1>0, <1>1, <2>2, TypesOfA, OtherStates
    <2> QED BY <1>o, <2>1, <2>2
  <1>5. Shapes'
    <2>1. b' \in [pos : 0..MaxPos, kv : RowStore, gdn : Hist, win : Hist, hi : Hist, end : BOOLEAN]
      BY <1>4 DEF BStates
    <2>2. calls' \in Nat
      BY <1>0, <1>f, TypesOfA
    <2>3. dirty' \in BOOLEAN
      BY <1>0, <1>o DEF Shapes
    <2> QED BY <1>0, <1>u, <1>2, <1>4, <2>1, <2>2, <2>3 DEF Shapes, Feeds
  <1>6. Phases'
    <2>1. ckpt.pos <= Len(truth')
      <3>1. Len(truth) \in Nat /\ Len(truth') \in Nat /\ ckpt.pos \in Int
        BY <1>0, <1>1, <1>4, TypesOfA, LenProperties DEF Feeds
      <3> QED BY <1>1, <1>4, <3>1
    <2> QED BY <1>0, <1>u, <1>1, <1>4, <2>1 DEF Phases, Ready, InCall, Quiescent, End
  <1>7. Causes'
    BY <1>u, <1>o, <1>1 DEF Causes, InCall
  <1>8. Counts' /\ Headers' /\ Copies' /\ Exact'
    BY <1>u, <1>1, OutOfCall DEF InCall
  <1>9. Between'
    <2>1. pc' # "resetA"
      BY <1>1, <1>u DEF Ready
    <2>2. SUFFICES ASSUME Aligned
                   PROVE  /\ MirrorIsTrue' /\ BIsExact' /\ CkptIsTrue'
                          /\ dirty' => b'.hi = Bad
      BY <1>2, <1>4, <1>u, <2>1 DEF Between, Aligned
    <2>3. /\ \A r \in 1..tracker.kv : a.kv[r] = b.kv[r]
          /\ ~dirty => b.hi = truth /\ LiveGdn = truth /\ IsTruth(b.kv, b.pos)
          /\ dirty => b.hi = Bad
          /\ CkptIsTrue
      BY <2>2, ReadyFacts
    <2>r. b.pos \in Nat /\ b.pos <= MaxPos /\ MaxPos \in Nat
      BY <1>0, TypesOfA
    <2>4. MirrorIsTrue'
      <3>1. \A r \in 1..tracker'.kv : r \in 1..tracker.kv /\ r \in Rows /\ r <= b.pos
        BY <1>1, <1>2, <2>r DEF Rows
      <3>2. \A r \in 1..tracker'.kv : a'.kv[r] = b'.kv[r]
        BY <1>4, <1>u, <2>3, <3>1
      <3> QED BY <1>2, <3>2 DEF MirrorIsTrue
    <2>5. dirty' => b'.hi = Bad
      <3>1. CASE b' = after /\ dirty' = dirty
        BY <1>0, <1>a, <1>f, <2>3, <3>1, FedFacts DEF Advanced
      <3>2. CASE b' = Broken
        BY <1>0, <3>2, OtherStates
      <3> QED BY <1>o, <3>1, <3>2
    <2>6. CkptIsTrue'
      <3>1. SUFFICES ASSUME ckpt.pos >= 0, ckpt.hi # Bad
                     PROVE  /\ ckpt.hi = SubSeq(truth', 1, ckpt.pos) /\ ckpt.gdn = ckpt.hi
                            /\ \A r \in 1..ckpt.pos : b'.kv[r] = SubSeq(truth', 1, r)
        BY <1>u DEF CkptIsTrue, IsTruth
      <3>2. /\ ckpt.hi = SubSeq(truth, 1, ckpt.pos) /\ ckpt.gdn = ckpt.hi
            /\ \A r \in 1..ckpt.pos : b.kv[r] = SubSeq(truth, 1, r)
        BY <2>3, <3>1 DEF CkptIsTrue, IsTruth
      <3>3. ckpt.pos \in 0 .. Len(truth) /\ \A r \in 1..ckpt.pos : r \in Rows /\ r <= b.pos /\ r \in 0 .. Len(truth)
        BY <1>1, <2>r, <3>1 DEF Rows
      <3> QED BY <1>4, <3>2, <3>3
    <2>7. BIsExact'
      <3>1. SUFFICES ASSUME ~dirty'
                     PROVE  /\ b'.pos = Len(truth') /\ b'.hi = truth'
                            /\ LiveGdn' = truth' /\ Coherent(b'.kv, LiveGdn', b'.pos)
        BY DEF BIsExact
      <3>2. b' = after /\ truth' = grown /\ ~dirty
        BY <1>o, <3>1
      <3>3. b.hi = truth /\ LiveGdn = truth /\ IsTruth(b.kv, b.pos)
        BY <2>3, <3>2
      <3>4. /\ Fed(n).hi = grown /\ Fed(n).gdn = grown
            /\ \A r \in 1 .. b.pos + n : Fed(n).kv[r] = SubSeq(grown, 1, r)
        BY <1>0, <1>1, <1>f, <3>3, FedIsTruth DEF grown
      <3>5. LiveGdn' = LiveOf(b')
        BY DEF LiveGdn, LiveOf
      <3>6. LiveGdn' = grown /\ b'.hi = grown
        BY <1>a, <3>2, <3>4, <3>5 DEF Advanced
      <3>7. b'.pos = b.pos + n
        BY <1>a, <3>2 DEF Advanced
      <3>8. ASSUME NEW r \in 1 .. b'.pos PROVE b'.kv[r] = SubSeq(grown, 1, r)
        <4>1. r \in Rows /\ r <= b.pos + n /\ r \in 1 .. b.pos + n
          BY <1>f, <2>r, <3>7 DEF Rows
        <4> QED BY <1>a, <3>2, <3>4, <4>1 DEF Advanced
      <3>9. grown # Bad
        BY <1>3, FeedsAreHist
      <3> QED BY <1>4, <3>2, <3>6, <3>8, <3>9 DEF Coherent
    <2> QED BY <2>4, <2>5, <2>6, <2>7
  <1> QED BY <1>5, <1>6, <1>7, <1>8, <1>9 DEF IInv

(* Short prefills and decode steps keep IInv. *)
LEMMA FeedsAlone ==
  ASSUME IInv, \/ \E n \in 1..MaxPos : PrefillB(n)
               \/ \E n, w \in 1..2 : DecodeStep(n, w)
  PROVE  IInv'
  <1>0. Shapes
    BY DEF IInv
  <1>1. ASSUME NEW n \in 1..MaxPos, PrefillB(n) PROVE IInv'
    <2>1. Idle /\ BAlone(Fed(n), n)
      BY <1>1 DEF PrefillB
    <2>2. n \in Nat \ {0}
      BY Constants
    <2> QED BY <1>0, <2>1, <2>2, FedAdvances, BAloneStep
  <1>2. ASSUME NEW n \in 1..2, NEW w \in 1..2, DecodeStep(n, w) PROVE IInv'
    <2>1. Idle /\ n <= w /\ b.pos + w <= MaxPos /\ BAlone(Round(n, w), n)
      BY <1>2 DEF DecodeStep
    <2>2. Advanced(Round(n, w), n)
      BY <1>0, <2>1, RoundAdvances
    <2>3. n \in Nat \ {0}
      OBVIOUS
    <2> QED BY <2>1, <2>2, <2>3, BAloneStep
  <1> QED BY <1>1, <1>2

(* The checkpoint is the history B holds. *)
LEMMA SaveStep == ASSUME IInv, SaveCheckpoint PROVE IInv'
  <1>0. Shapes /\ Phases /\ Causes /\ Idle
    BY DEF IInv, SaveCheckpoint
  <1>1. /\ Ready /\ ~InCall /\ apc = "idle" /\ b.pos = Len(truth) /\ aerr = "none"
    BY <1>0, ReadyFacts
  <1>2. /\ UNCHANGED <<facadeVars, b, berr, early, aux, aVars, bufVars, chVars, faults>>
        /\ b.end /\ ckpt' = [pos |-> b.pos, gdn |-> b.gdn, hi |-> b.hi]
    BY DEF SaveCheckpoint
  <1>u. UNCHANGED <<state, split, pc, tracker, call, truth, dirty, reported, calls, b, berr, early, aux, a, apc,
                    aerr, gdnSync, kvSync, hand, acquired, published, taken, released, bulk, poisoned, slots>>
    BY <1>2 DEF facadeVars, aVars, bufVars, chVars
  <1>5. Shapes'
    <2>1. b.pos \in -1 .. MaxPos
      BY <1>0, TypesOfA
    <2>2. ckpt' \in [pos : -1..MaxPos, gdn : Hist, hi : Hist]
      BY <1>0, <1>2, <2>1, TypesOfA
    <2> QED BY <1>0, <1>u, <2>2 DEF Shapes
  <1>6. Phases'
    <2>1. ckpt'.pos <= Len(truth)
      BY <1>0, <1>1, <1>2, TypesOfA
    <2> QED BY <1>0, <1>1, <1>u, <2>1 DEF Phases, Ready, InCall, Quiescent, End
  <1>7. Causes'
    BY <1>0, <1>1, <1>u DEF Causes, InCall, Aligned
  <1>8. Counts' /\ Headers' /\ Copies' /\ Exact'
    BY <1>u, <1>1, OutOfCall DEF InCall
  <1>9. Between'
    <2>1. pc' # "resetA"
      BY <1>1, <1>u DEF Ready
    <2>2. Aligned' = Aligned /\ Ready' = Ready /\ Idle' = Idle /\ LiveGdn' = LiveGdn
      BY <1>u DEF Aligned, Ready, Idle, LiveGdn
    <2>3. Between
      BY DEF IInv
    <2>4. ASSUME Aligned PROVE CkptIsTrue'
      <3>1. SUFFICES ASSUME b.hi # Bad
                     PROVE  /\ b.hi = SubSeq(truth, 1, b.pos) /\ b.gdn = b.hi
                            /\ IsTruth(b.kv, b.pos)
        BY <1>2, <1>u DEF CkptIsTrue, IsTruth
      <3>2. b.hi = truth /\ LiveGdn = truth /\ IsTruth(b.kv, b.pos) /\ b.win = <<>>
        BY <1>0, <1>2, <2>4, <3>1, ReadyFacts
      <3>3. SubSeq(truth, 1, Len(truth)) = truth
        BY <1>0, TypesOfA, SubSeqFull DEF Feeds
      <3> QED BY <1>1, <3>2, <3>3 DEF LiveGdn
    <2>5. ASSUME Aligned PROVE MirrorIsTrue' /\ BIsExact'
      <3>1. MirrorIsTrue /\ BIsExact
        BY <1>1, <2>3, <2>5 DEF Between
      <3> QED BY <1>u, <2>2, <3>1 DEF MirrorIsTrue, BIsExact, Coherent
    <2> QED BY <1>1, <1>u, <2>1, <2>2, <2>3, <2>4, <2>5 DEF Between
  <1> QED BY <1>5, <1>6, <1>7, <1>8, <1>9 DEF IInv

(* B goes back to the checkpoint; A's rows keep what they hold. *)
LEMMA RestoreStep == ASSUME IInv, RestoreCheckpoint PROVE IInv'
  <1>0. Shapes /\ Phases /\ Causes /\ Between /\ Idle
    BY DEF IInv, RestoreCheckpoint
  <1>1. /\ Ready /\ ~InCall /\ apc = "idle" /\ b.pos = Len(truth) /\ aerr = "none"
        /\ ckpt.pos <= Len(truth) /\ ckpt.pos \in -1 .. MaxPos /\ ckpt.gdn \in Hist /\ ckpt.hi \in Hist
        /\ tracker.kv \in 0..MaxPos
    BY <1>0, ReadyFacts
  <1>2. UNCHANGED <<state, split, pc, call, reported, calls, ckpt, berr, early, aux, a, apc, aerr,
                    gdnSync, kvSync, hand, acquired, published, taken, released, bulk, poisoned, slots>>
    BY DEF RestoreCheckpoint, aVars, bufVars, chVars
  <1>3. tracker' \in [kv : 0..MaxPos, gdn : -1..MaxPos] /\ tracker'.gdn = -1 /\ tracker'.kv = tracker.kv
    <2>1. tracker \in [kv : 0..MaxPos, gdn : -1..MaxPos]
      BY <1>0 DEF Shapes
    <2>2. -1 \in -1 .. MaxPos
      BY <1>0, TypesOfA
    <2>3. tracker' = [tracker EXCEPT !.gdn = -1]
      BY DEF RestoreCheckpoint, BRestored
    <2> QED BY <2>1, <2>2, <2>3
  <1>4. CASE ckpt.pos < 0
    <2>u. UNCHANGED <<b, truth, dirty>>
      BY <1>4 DEF RestoreCheckpoint
    <2>1. Shapes'
      BY <1>0, <1>2, <1>3, <2>u DEF Shapes
    <2>2. Phases'
      BY <1>0, <1>2, <2>u DEF Phases, Ready, InCall, Quiescent, End
    <2>3. Causes'
      BY <1>0, <1>1, <1>2 DEF Causes, InCall, Aligned
    <2>4. Counts' /\ Headers' /\ Copies' /\ Exact'
      BY <1>2, <1>1, OutOfCall DEF InCall
    <2>5. Between'
      <3>1. pc' # "resetA"
        BY <1>1, <1>2 DEF Ready
      <3>2. Aligned' = Aligned /\ Idle' = Idle /\ LiveGdn' = LiveGdn
        BY <1>2, <2>u DEF Aligned, Idle, LiveGdn
      <3>3. ASSUME Aligned
            PROVE  /\ MirrorIsTrue' /\ BIsExact' /\ CkptIsTrue' /\ (dirty' => b'.hi = Bad) /\ (b'.end => b'.win = <<>>)
        <4>1. MirrorIsTrue /\ BIsExact /\ CkptIsTrue /\ (dirty => b.hi = Bad) /\ (b.end => b.win = <<>>)
          BY <1>0, <1>1, <3>3 DEF Between
        <4>2. MirrorIsTrue'
          BY <1>0, <1>2, <1>3, <2>u, <3>3, <4>1 DEF MirrorIsTrue
        <4>3. BIsExact'
          BY <1>0, <1>2, <2>u, <3>2, <4>1 DEF BIsExact, Coherent
        <4>4. CkptIsTrue'
          BY <1>2, <2>u, <4>1 DEF CkptIsTrue, IsTruth
        <4> QED BY <2>u, <4>1, <4>2, <4>3, <4>4
      <3> QED BY <1>3, <3>1, <3>2, <3>3 DEF Between
    <2> QED BY <2>1, <2>2, <2>3, <2>4, <2>5 DEF IInv
  <1>5. CASE ckpt.pos >= 0
    <2> DEFINE k == ckpt.pos
    <2>u. /\ b' = [b EXCEPT !.pos = k, !.gdn = ckpt.gdn, !.win = <<>>, !.hi = ckpt.hi, !.end = TRUE]
          /\ truth' = SubSeq(truth, 1, k) /\ dirty' = (ckpt.hi = Bad)
      BY <1>1, <1>5 DEF RestoreCheckpoint
    <2>k. k \in 0 .. MaxPos /\ k \in 0 .. Len(truth) /\ MaxPos \in Nat
      BY <1>0, <1>1, <1>5, TypesOfA
    <2>t. truth' \in Feeds /\ Len(truth') = k
          /\ \A r \in 0 .. k : SubSeq(truth', 1, r) = SubSeq(truth, 1, r)
      <3>1. truth \in Feeds
        BY <1>0, TypesOfA
      <3>2. truth' \in Feeds /\ Len(truth') = k
        BY <2>u, <2>k, <3>1, Prefixes DEF Feeds
      <3>3. ASSUME NEW r \in 0 .. k PROVE SubSeq(truth', 1, r) = SubSeq(truth, 1, r)
        BY <2>u, <2>k, <3>1, PrefixOfPrefix DEF Feeds
      <3> QED BY <3>2, <3>3
    <2> HIDE DEF k
    <2>b. /\ b' \in BStates /\ b'.pos = k /\ b'.kv = b.kv /\ b'.gdn = ckpt.gdn /\ b'.win = <<>>
          /\ b'.hi = ckpt.hi
      <3>1. b \in BStates
        BY <1>0, TypesOfA
      <3> QED BY <1>1, <2>u, <2>k, <3>1, BadStores DEF BStates
    <2>1. Shapes'
      <3>1. b' \in [pos : 0..MaxPos, kv : RowStore, gdn : Hist, win : Hist, hi : Hist, end : BOOLEAN]
        BY <2>b DEF BStates
      <3>2. dirty' \in BOOLEAN
        BY <2>u
      <3> QED BY <1>0, <1>2, <1>3, <2>t, <3>1, <3>2 DEF Shapes, Feeds
    <2>2. Phases'
      <3>1. b'.pos = Len(truth') /\ ckpt.pos <= Len(truth')
        BY <2>b, <2>t, <2>k DEF k
      <3> QED BY <1>0, <1>1, <1>2, <3>1 DEF Phases, Ready, InCall, Quiescent, End
    <2>3. Causes'
      BY <1>0, <1>1, <1>2 DEF Causes, InCall, Aligned
    <2>4. Counts' /\ Headers' /\ Copies' /\ Exact'
      BY <1>2, <1>1, OutOfCall DEF InCall
    <2>5. Between'
      <3>1. pc' # "resetA"
        BY <1>1, <1>2 DEF Ready
      <3>2. Aligned' = Aligned /\ LiveGdn' = ckpt.gdn
        BY <1>2, <2>b DEF Aligned, LiveGdn
      <3>3. ASSUME Aligned
            PROVE  /\ MirrorIsTrue' /\ BIsExact' /\ CkptIsTrue' /\ (dirty' => b'.hi = Bad)
        <4>1. CkptIsTrue /\ \A r \in 1..tracker.kv : a.kv[r] = b.kv[r]
          BY <1>0, <3>3, ReadyFacts
        <4>2. MirrorIsTrue'
          BY <1>2, <1>3, <2>b, <4>1 DEF MirrorIsTrue
        <4>3. ASSUME ckpt.hi # Bad
              PROVE  /\ ckpt.hi = truth' /\ ckpt.gdn = truth' /\ ckpt.hi = SubSeq(truth', 1, k)
                     /\ \A r \in 1..k : b'.kv[r] = SubSeq(truth', 1, r)
          <5>1. /\ ckpt.hi = SubSeq(truth, 1, k) /\ ckpt.gdn = ckpt.hi
                /\ \A r \in 1..k : b.kv[r] = SubSeq(truth, 1, r)
            BY <1>5, <4>1, <4>3 DEF CkptIsTrue, IsTruth, k
          <5>2. k \in 0 .. k /\ \A r \in 1..k : r \in 0 .. k
            BY <2>k
          <5> QED BY <2>b, <2>t, <2>u, <5>1, <5>2
        <4>4. BIsExact'
          <5>1. SUFFICES ASSUME ~dirty'
                         PROVE  /\ b'.pos = Len(truth') /\ b'.hi = truth'
                                /\ LiveGdn' = truth' /\ Coherent(b'.kv, LiveGdn', b'.pos)
            BY DEF BIsExact
          <5>2. truth' # Bad
            BY <2>t, FeedsAreHist
          <5> QED BY <2>b, <2>t, <2>u, <3>2, <4>3, <5>1, <5>2 DEF Coherent
        <4>5. CkptIsTrue'
          BY <1>2, <4>3 DEF CkptIsTrue, IsTruth, k
        <4> QED BY <2>b, <2>u, <4>2, <4>4, <4>5
      <3> QED BY <1>3, <2>b, <3>1, <3>2, <3>3 DEF Between
    <2> QED BY <2>1, <2>2, <2>3, <2>4, <2>5 DEF IInv
  <1> QED BY <1>1, <1>4, <1>5

-----------------------------------------------------------------------------
(* The begin of a pipelined call.                                          *)

(* A pipelined prefill that fails before BeginCall. *)
LEMMA NotBegun ==
  ASSUME IInv, NEW n \in 1..MaxPos, PipelinedPrefill(n), call' = call, pc' = pc, b' \in {Collapsed, HalfCollapsed},
         b' = HalfCollapsed => b' = Collapsed \/ b.win # <<>>, reported' = "error",
         dirty' = (dirty \/ b' # Collapsed), calls' = calls + 1,
         UNCHANGED <<state, truth, pc, tracker, call, berr, early, apc, bufVars, chVars>>
  PROVE  IInv'
  <1>0. Shapes /\ Phases /\ Causes /\ Between /\ Idle
    BY DEF IInv, PipelinedPrefill
  <1>1. /\ Ready /\ ~InCall /\ apc = "idle" /\ b.pos = Len(truth) /\ aerr = "none" /\ ckpt.pos <= Len(truth)
    BY <1>0, ReadyFacts
  <1>2. UNCHANGED <<state, split, pc, tracker, call, truth, ckpt, berr, early, aux, a, apc, aerr, gdnSync, kvSync,
                    hand, acquired, published, taken, released, bulk, poisoned, slots>>
    BY DEF PipelinedPrefill, bufVars, chVars
  <1>3. /\ b' \in BStates /\ b'.pos = b.pos /\ b'.kv = b.kv /\ b'.win = <<>>
        /\ b' = Collapsed => b'.gdn = LiveGdn /\ b'.hi = b.hi
        /\ b' = HalfCollapsed => b'.hi = Bad
    <2>1. CASE b' = Collapsed
      BY <1>0, <2>1, OtherStates
    <2>2. CASE b' = HalfCollapsed
      BY <1>0, <2>2, OtherStates
    <2> QED BY <2>1, <2>2
  <1>4. \/ b' = Collapsed /\ (dirty' <=> dirty)
        \/ b' # Collapsed /\ dirty' /\ b'.hi = Bad /\ b.win # <<>>
    <2>1. dirty \in BOOLEAN
      BY <1>0 DEF Shapes
    <2>2. CASE b' = Collapsed
      <3>1. dirty' <=> dirty
        BY <2>1, <2>2
      <3> QED BY <2>2, <3>1
    <2>3. CASE b' # Collapsed
      <3>1. b' = HalfCollapsed
        BY <2>3
      <3>2. dirty' /\ b.win # <<>>
        BY <2>3, <3>1
      <3> QED BY <1>3, <2>3, <3>1, <3>2
    <2> QED BY <2>2, <2>3
  <1>5. Shapes'
    <2>1. b' \in [pos : 0..MaxPos, kv : RowStore, gdn : Hist, win : Hist, hi : Hist, end : BOOLEAN]
      BY <1>3 DEF BStates
    <2>2. calls' \in Nat /\ dirty' \in BOOLEAN
      BY <1>0, TypesOfA
    <2> QED BY <1>0, <1>2, <2>1, <2>2 DEF Shapes
  <1>6. Phases'
    BY <1>0, <1>1, <1>2, <1>3 DEF Phases, Ready, InCall, Quiescent, End
  <1>7. Causes'
    BY <1>0, <1>1, <1>2 DEF Causes, InCall, Aligned
  <1>8. Counts' /\ Headers' /\ Copies' /\ Exact'
    BY <1>1, <1>2, OutOfCall DEF InCall
  <1>9. Between'
    <2>1. pc' # "resetA"
      BY <1>1, <1>2 DEF Ready
    <2>2. Aligned' = Aligned /\ LiveGdn' = b'.gdn
      BY <1>2, <1>3 DEF Aligned, LiveGdn
    <2>3. ASSUME Aligned
          PROVE  /\ MirrorIsTrue' /\ BIsExact' /\ CkptIsTrue' /\ (dirty' => b'.hi = Bad)
      <3>1. /\ \A r \in 1..tracker.kv : a.kv[r] = b.kv[r]
            /\ tracker.gdn # -1 => tracker.gdn = b.pos /\ a.gdn = LiveGdn
            /\ ~dirty => b.hi = truth /\ LiveGdn = truth /\ IsTruth(b.kv, b.pos)
            /\ dirty => b.hi = Bad
            /\ b.win # <<>> => tracker.gdn = -1
            /\ CkptIsTrue
        BY <1>0, <2>3, ReadyFacts
      <3>2. MirrorIsTrue'
        <4>1. tracker.gdn # -1 => b' = Collapsed
          BY <1>4, <3>1
        <4> QED BY <1>2, <1>3, <2>2, <3>1, <4>1 DEF MirrorIsTrue
      <3>3. dirty' => b'.hi = Bad
        BY <1>3, <1>4, <3>1
      <3>4. CkptIsTrue'
        BY <1>2, <1>3, <3>1 DEF CkptIsTrue, IsTruth
      <3>5. BIsExact'
        <4>1. SUFFICES ASSUME ~dirty'
                       PROVE  /\ b'.pos = Len(truth') /\ b'.hi = truth'
                              /\ LiveGdn' = truth' /\ Coherent(b'.kv, LiveGdn', b'.pos)
          BY DEF BIsExact
        <4>2. b' = Collapsed /\ ~dirty
          BY <1>4, <4>1
        <4>3. truth # Bad
          BY <1>0, TypesOfA, FeedsAreHist
        <4> QED BY <1>1, <1>2, <1>3, <2>2, <3>1, <4>2, <4>3 DEF Coherent, IsTruth
      <3> QED BY <3>2, <3>3, <3>4, <3>5
    <2> QED BY <1>2, <1>3, <2>1, <2>2, <2>3 DEF Between
  <1> QED BY <1>5, <1>6, <1>7, <1>8, <1>9 DEF IInv

(* A pipelined prefill that began: A's sync-back is what B holds. *)
LEMMA Begun ==
  ASSUME IInv, NEW n \in 1..MaxPos, PipelinedPrefill(n), b' = Collapsed,
         call' = [id |-> calls', p0 |-> b.pos, rows |-> n, gdn |-> PlanGdn, row0 |-> PlanRow0],
         StageBExportSyncBack(Collapsed),
         acquired' = 0, published' = 0, taken' = 0, released' = 0, bulk' = -1,
         apc' = "sync", pc' = "acquire", berr' = "none", early' = FALSE,
         UNCHANGED <<poisoned, slots, state, truth, dirty, reported, tracker, hand>>
  PROVE  IInv'
  <1>0. Shapes /\ Phases /\ Causes /\ Between /\ Idle
    BY DEF IInv, PipelinedPrefill
  <1>1. /\ Ready /\ apc = "idle" /\ b.pos = Len(truth) /\ aerr = "none" /\ ckpt.pos <= Len(truth)
        /\ ~poisoned /\ aux = "idle" /\ tracker.kv \in 0..MaxPos /\ tracker.gdn \in -1..MaxPos
    BY <1>0, ReadyFacts
  <1>2. /\ UNCHANGED <<split, ckpt, aux, a, aerr>>
        /\ calls' = calls + 1 /\ b.pos + n <= MaxPos
    BY DEF PipelinedPrefill
  <1>3. /\ b' \in BStates /\ b'.pos = b.pos /\ b'.kv = b.kv /\ b'.win = <<>> /\ b'.gdn = LiveGdn /\ b'.hi = b.hi
        /\ b'.gdn \in Hist
    BY <1>0, OtherStates
  <1>4. b.pos \in Nat /\ n \in Nat \ {0} /\ MaxPos \in Nat /\ calls' \in Nat \ {0} /\ b.pos \in 0..MaxPos
    BY <1>0, <1>2, TypesOfA
  <1>5. PlanRow0 \in Nat /\ PlanRow0 <= b.pos /\ PlanRow0 <= tracker.kv
    <2>1. tracker.kv \in Nat
      BY <1>1, <1>4
    <2> QED BY <1>4, <2>1 DEF PlanRow0, Min2
  <1>6. /\ call' \in Commands /\ call'.p0 = b.pos /\ call'.rows = n /\ call'.id = calls'
        /\ call'.gdn = PlanGdn /\ call'.row0 = PlanRow0 /\ End' = b.pos + n
    <2>1. PlanGdn \in BOOLEAN
      BY DEF PlanGdn
    <2> QED BY <1>4, <1>5, <2>1 DEF Commands, End
  <1>7. ChunkPos(0)' = b.pos
    <2>1. 0 * ChunkRows = 0
      BY Constants
    <2> QED BY <1>4, <1>6, <2>1 DEF ChunkPos
  <1>8. gdnSync' \in Hist /\ kvSync' \in RowStore
    <2>1. b' \in BStates /\ b'.kv \in RowStore /\ kvSync \in RowStore /\ gdnSync \in Hist
      BY <1>0, <1>3 DEF BStates, Shapes
    <2>2. Overlay(kvSync, b'.kv, PlanRow0, SyncRows) \in RowStore
      BY <2>1, OverlayFacts
    <2> QED BY <1>3, <2>1, <2>2 DEF StageBExportSyncBack
  <1>i. InCall' /\ ~Ready'
    BY DEF InCall, CallPlaces, Ready
  <1>9. Shapes'
    <2>1. b' \in [pos : 0..MaxPos, kv : RowStore, gdn : Hist, win : Hist, hi : Hist, end : BOOLEAN]
      BY <1>3 DEF BStates
    <2>2. bulk' \in Int /\ {acquired', published', taken', released', calls'} \subseteq Nat
      BY <1>4
    <2> QED BY <1>0, <1>2, <1>6, <1>8, <2>1, <2>2 DEF Shapes, CallPlaces, ACallPlaces
  <1>10. Phases'
    BY <1>0, <1>1, <1>2, <1>4, <1>6, <1>i DEF Phases, ACallPlaces, Ready
  <1>11. Causes'
    BY <1>0, <1>1, <1>2 DEF Causes, Aligned, ACallPlaces, CallPlaces
  <1>12. Counts'
    <2>1. Slots \in Nat /\ bulk' # call'.id
      BY <1>4, <1>6, Constants
    <2> QED BY <1>1, <1>2, <1>3, <1>4, <1>5, <1>6, <1>7, <2>1 DEF Counts
  <1>13. Filled' = 0
    BY DEF Filled
  <1>14. Headers'
    BY <1>13 DEF Headers
  <1>15. ASSUME Sound'
         PROVE  /\ \A r \in 1..tracker.kv : a.kv[r] = b.kv[r]
                /\ tracker.gdn # -1 => tracker.gdn = b.pos /\ a.gdn = LiveGdn
                /\ ~dirty => b.hi = truth /\ LiveGdn = truth /\ IsTruth(b.kv, b.pos)
                /\ dirty => b.hi = Bad
                /\ CkptIsTrue
    <2>1. Aligned
      BY <1>2, <1>15 DEF Sound, Aligned
    <2> QED BY <1>0, <2>1, ReadyFacts
  <1>16. Copies'
    <2>1. SUFFICES ASSUME Sound'
                   PROVE  /\ IF PlanGdn THEN gdnSync' = b'.gdn ELSE a.gdn = b'.gdn
                          /\ \A r \in 1..PlanRow0 : a.kv[r] = b'.kv[r]
                          /\ PlanRow0 < b.pos =>
                               \A r \in Rows : r \in BlockRows(PlanRow0, b.pos - PlanRow0) => kvSync'[r] = b'.kv[r]
      BY <1>1, <1>2, <1>3, <1>4, <1>6, <1>13 DEF Copies
    <2>2. IF PlanGdn THEN gdnSync' = b'.gdn ELSE a.gdn = b'.gdn
      <3>1. CASE PlanGdn
        BY <3>1 DEF StageBExportSyncBack
      <3>2. CASE ~PlanGdn
        BY <1>3, <1>4, <1>15, <2>1, <3>2 DEF PlanGdn
      <3> QED BY <3>1, <3>2
    <2>3. \A r \in 1..PlanRow0 : a.kv[r] = b'.kv[r]
      <3>1. \A r \in 1..PlanRow0 : r \in 1..tracker.kv
        BY <1>1, <1>4, <1>5
      <3> QED BY <1>3, <1>15, <2>1, <3>1
    <2>4. ASSUME PlanRow0 < b.pos, NEW r \in Rows, r \in BlockRows(PlanRow0, b.pos - PlanRow0)
          PROVE  kvSync'[r] = b'.kv[r]
      <3>1. SyncRows = b.pos - PlanRow0 /\ SyncRows > 0
        BY <1>4, <1>5, <2>4 DEF SyncRows
      <3>2. kvSync' = Overlay(kvSync, b'.kv, PlanRow0, SyncRows)
        BY <3>1 DEF StageBExportSyncBack
      <3>3. b'.kv \in RowStore /\ kvSync \in RowStore
        BY <1>0, <1>3 DEF BStates, Shapes
      <3>4. Overlay(kvSync, b'.kv, PlanRow0, SyncRows)[r] = IF r \in BlockRows(PlanRow0, SyncRows) THEN b'.kv[r] ELSE kvSync[r]
        BY <2>4 DEF Overlay
      <3> QED BY <2>4, <3>1, <3>2, <3>4
    <2> QED BY <2>2, <2>3, <2>4
  <1>17. Exact'
    <2>1. CASE ~Sound'
      BY <2>1 DEF Exact
    <2>2. CASE Sound'
      <3>1. CkptIsTrue'
        BY <1>2, <1>3, <1>15, <2>2 DEF CkptIsTrue, IsTruth
      <3>2. (dirty => b.hi = Bad)' 
        BY <1>3, <1>15, <2>2
      <3>3. ASSUME ~dirty
            PROVE  b'.hi = History(b.pos)' /\ b'.gdn = truth' /\ IsTruth(b.kv, call.p0)'
        <4>1. History(b.pos)' = truth
          <5>1. b'.pos - call'.p0 = 0
            BY <1>3, <1>4, <1>6
          <5>2. truth \o <<>> = truth
            BY <1>0, TypesOfA, ConcatEmptySeq DEF Feeds
          <5>3. Tokens(call'.id, 0) = <<>>
            BY NoTokens
          <5> QED BY <5>1, <5>2, <5>3 DEF History
        <4> QED BY <1>3, <1>6, <1>15, <2>2, <3>3, <4>1 DEF IsTruth
      <3> QED BY <1>13, <3>1, <3>2, <3>3 DEF Exact
    <2> QED BY <2>1, <2>2
  <1>18. Between'
    BY <1>i DEF Between
  <1> QED BY <1>9, <1>10, <1>11, <1>12, <1>14, <1>16, <1>17, <1>18 DEF IInv

(* The start of a pipelined prefill keeps IInv: BeginCall never refuses. *)
LEMMA PipelinedPrefillStep ==
  ASSUME IInv, NEW n \in 1..MaxPos, PipelinedPrefill(n)
  PROVE  IInv'
  <1>1. Idle /\ calls' = calls + 1
    BY DEF PipelinedPrefill
  <1>2. ~poisoned /\ Quiescent
    BY <1>1, ReadyFacts
  <1>3. CASE /\ reported' = "error"
             /\ b' \in {Collapsed} \cup (IF b.win = <<>> THEN {} ELSE {HalfCollapsed})
             /\ dirty' = (dirty \/ b' # Collapsed)
             /\ UNCHANGED <<state, truth>>
             /\ UNCHANGED <<pc, tracker, call, berr, early, apc, bufVars, chVars>>
    BY <1>1, <1>3, NotBegun
  <1>4. CASE /\ b' = Collapsed
             /\ call' = [id |-> calls', p0 |-> b.pos, rows |-> n, gdn |-> PlanGdn, row0 |-> PlanRow0]
             /\ StageBExportSyncBack(Collapsed)
             /\ acquired' = 0 /\ published' = 0 /\ taken' = 0 /\ released' = 0 /\ bulk' = -1
             /\ apc' = "sync" /\ pc' = "acquire" /\ berr' = "none" /\ early' = FALSE
             /\ UNCHANGED <<poisoned, slots, state, truth, dirty, reported>>
             /\ UNCHANGED <<tracker, hand, faults>>
    BY <1>4, Begun
  <1> QED BY <1>2, <1>3, <1>4 DEF PipelinedPrefill

-----------------------------------------------------------------------------
(* Reset, SetSplit, the destructor, and stage A's commands for them.       *)

(* Reset keeps IInv. *)
LEMMA ResetStep == ASSUME IInv, Reset PROVE IInv'
  <1>0. Shapes /\ Phases /\ Causes
    BY DEF IInv
  <1>1. /\ pc = "idle" /\ state # "kFatal" /\ poisoned' = FALSE /\ Quiescent' /\ acquired' = 0 /\ published' = 0
        /\ taken' = 0 /\ released' = 0 /\ bulk' = -1
        /\ UNCHANGED <<split, tracker, call, truth, dirty, calls, b, ckpt, berr, early, aux, a, gdnSync, kvSync, hand, slots>>
    BY DEF Reset, ChannelReset, bVars, bufVars, Quiescent
  <1>2. \/ apc = "idle" /\ apc' = "reset" /\ aerr' = "none" /\ pc' = "resetA" /\ UNCHANGED <<state, reported>>
        \/ apc # "idle" /\ state' = "kNeedsRecovery" /\ reported' = "busy" /\ UNCHANGED <<apc, aerr, pc>>
    BY DEF Reset, PostBusy
  <1>3. ~InCall /\ ~InCall' /\ ~Ready' /\ aux = "idle" /\ (pc' = "resetA" => apc' = "reset")
    BY <1>0, <1>1, <1>2 DEF InCall, CallPlaces, Ready, Phases, Shapes
  <1>4. Shapes'
    <2>1. {acquired', published', taken', released', calls'} \subseteq Nat /\ bulk' \in Int
      BY <1>0, <1>1, TypesOfA
    <2> QED BY <1>0, <1>1, <1>2, <2>1 DEF Shapes, RunACommands
  <1>5. Phases'
    BY <1>0, <1>1, <1>2, <1>3 DEF Phases, ACallPlaces, InCall, End
  <1>6. Causes'
    BY <1>0, <1>1, <1>2, <1>3 DEF Causes, Aligned
  <1>7. Between'
    BY <1>3 DEF Between
  <1> QED BY <1>3, <1>4, <1>5, <1>6, <1>7, OutOfCall DEF IInv

(* So does its end. *)
LEMMA ResetDoneStep == ASSUME IInv, ResetDone PROVE IInv'
  <1>0. Shapes /\ Phases /\ Causes /\ Between
    BY DEF IInv
  <1>1. /\ pc = "resetA" /\ apc = "idle" /\ pc' = "idle" /\ aerr' = "none"
        /\ UNCHANGED <<split, call, calls, berr, early, aux, a, apc, gdnSync, kvSync, hand, acquired, published,
                       taken, released, bulk, poisoned, slots>>
    BY DEF ResetDone, bufVars, chVars
  <1>2. ~InCall /\ ~InCall' /\ ~poisoned /\ Quiescent /\ aux = "idle"
    BY <1>0, <1>1 DEF InCall, CallPlaces, Phases, Shapes
  <1>3. CASE /\ aerr = "none" /\ b' = FreshB /\ ckpt' = NoCkpt /\ tracker' = [kv |-> 0, gdn |-> 0]
             /\ state' = "kReady" /\ truth' = <<>> /\ dirty' = FALSE /\ reported' = "none"
    <2>1. /\ b'.pos = 0 /\ b'.gdn = <<>> /\ b'.win = <<>> /\ b'.hi = <<>> /\ b'.kv = Fresh
          /\ ckpt'.pos = -1 /\ tracker'.kv = 0 /\ tracker'.gdn = 0 /\ LiveGdn' = <<>> /\ Len(truth') = 0
      BY <1>3 DEF FreshB, NoCkpt, LiveGdn
    <2>2. Shapes'
      <3>1. b' \in [pos : 0..MaxPos, kv : RowStore, gdn : Hist, win : Hist, hi : Hist, end : BOOLEAN]
        BY <1>0, <1>3, OtherStates DEF BStates
      <3>2. ckpt' \in [pos : -1..MaxPos, gdn : Hist, hi : Hist]
        BY <1>3, BadStores, Constants DEF NoCkpt
      <3>3. tracker' \in [kv : 0..MaxPos, gdn : -1..MaxPos]
        BY <1>3, Constants
      <3>4. truth' \in Seq(Nat \ {0})
        BY <1>3, EmptySeq
      <3> QED BY <1>0, <1>1, <1>3, <3>1, <3>2, <3>3, <3>4 DEF Shapes
    <2>3. Phases'
      BY <1>0, <1>1, <1>2, <1>3, <2>1 DEF Phases, InCall, Ready, Quiescent, ACallPlaces
    <2>4. Causes'
      BY <1>0, <1>1, <1>2, <1>3 DEF Causes
    <2>5. Between'
      <3>1. a.gdn = <<>>
        BY <1>0, <1>1, <1>3 DEF Between
      <3>2. MirrorIsTrue'
        BY <1>1, <2>1, <3>1 DEF MirrorIsTrue
      <3>3. BIsExact'
        <4>1. <<>> # Bad
          BY DEF Bad
        <4> QED BY <1>3, <2>1, <4>1 DEF BIsExact, Coherent
      <3>4. CkptIsTrue'
        BY <2>1 DEF CkptIsTrue
      <3> QED BY <1>1, <1>3, <2>1, <3>2, <3>3, <3>4 DEF Between
    <2> QED BY <1>2, <2>2, <2>3, <2>4, <2>5, OutOfCall DEF IInv
  <1>4. CASE /\ state' = "kNeedsRecovery" /\ reported' = "error"
             /\ UNCHANGED <<b, ckpt, tracker, truth, dirty>>
    <2>1. ~Ready' /\ pc' # "resetA"
      BY <1>1, <1>4 DEF Ready
    <2>2. Shapes'
      BY <1>0, <1>1, <1>4 DEF Shapes
    <2>3. Phases'
      BY <1>0, <1>1, <1>2, <1>4, <2>1 DEF Phases, InCall, ACallPlaces
    <2>4. Causes'
      BY <1>0, <1>1, <1>2, <1>4 DEF Causes
    <2>5. Between'
      BY <2>1 DEF Between
    <2> QED BY <1>2, <2>2, <2>3, <2>4, <2>5, OutOfCall DEF IInv
  <1> QED BY <1>3, <1>4 DEF ResetDone

(* SetSplit and its handler keep IInv. *)
LEMMA SplitSteps ==
  ASSUME IInv, (\E k \in 1..MaxSplit : SetSplit(k)) \/ SplitAttached \/ SplitDone
  PROVE  IInv'
  <1>0. Shapes /\ Phases /\ Causes
    BY DEF IInv
  <1>s. split \in [run : Nat, a : Nat, b : Nat, to : Nat, old : Nat]
    BY <1>0 DEF Shapes
  <1>1. ASSUME NEW k \in 1..MaxSplit, SetSplit(k) PROVE IInv'
    <2>1. /\ pc = "idle" /\ state # "kFatal"
          /\ UNCHANGED <<tracker, call, truth, dirty, calls, b, ckpt, berr, early, aux, a, gdnSync, kvSync, hand,
                         acquired, published, taken, released, bulk, poisoned, slots>>
      BY <1>1 DEF SetSplit, bVars, bufVars, chVars
    <2>2. \/ /\ apc = "idle" /\ split' = [split EXCEPT !.run = k, !.to = k, !.old = split.run]
             /\ apc' = "attach" /\ aerr' = "none" /\ pc' = "splitA" /\ reported' = "none" /\ state' = state
          \/ apc # "idle" /\ state' = "kNeedsRecovery" /\ reported' = "busy" /\ UNCHANGED <<apc, aerr, pc, split>>
      BY <1>1 DEF SetSplit, PostBusy
    <2>3. ~InCall /\ ~InCall' /\ ~Ready' /\ aux = "idle" /\ pc' # "resetA"
      BY <1>0, <2>1, <2>2 DEF InCall, CallPlaces, Ready, Phases, Shapes
    <2>4. Shapes'
      <3>1. split' \in [run : Nat, a : Nat, b : Nat, to : Nat, old : Nat]
        <4>1. k \in Nat
          BY Constants
        <4> QED BY <1>s, <2>2, <4>1
      <3> QED BY <1>0, <2>1, <2>2, <3>1 DEF Shapes, RunACommands
    <2>5. Phases'
      BY <1>0, <2>1, <2>2, <2>3 DEF Phases, ACallPlaces, InCall, End
    <2>6. Causes'
      BY <1>0, <2>1, <2>2, <2>3 DEF Causes
    <2>7. Between'
      BY <2>3 DEF Between
    <2> QED BY <2>3, <2>4, <2>5, <2>6, <2>7, OutOfCall DEF IInv
  <1>2. ASSUME SplitAttached PROVE IInv'
    <2>1. /\ pc = "splitA" /\ apc = "idle" /\ aerr' = "none"
          /\ UNCHANGED <<tracker, call, truth, dirty, calls, b, ckpt, berr, early, aux, a, gdnSync, kvSync, hand,
                         acquired, published, taken, released, bulk, poisoned, slots>>
      BY <1>2 DEF SplitAttached, SplitCatch, bVars, bufVars, chVars
    <2>2. \/ /\ split' = [split EXCEPT !.b = split.run] /\ apc' = "capture" /\ pc' = "splitC"
             /\ UNCHANGED <<state, reported>>
          \/ /\ state' = "kNeedsRecovery" /\ reported' = "error" /\ pc' = "idle" /\ apc' = apc
             /\ split' = [split EXCEPT !.run = split.old, !.to = split.old]
      BY <1>2 DEF SplitAttached, SplitCatch
    <2>3. ~InCall /\ ~InCall' /\ ~Ready' /\ aux = "idle" /\ pc' # "resetA"
      BY <1>0, <2>1, <2>2 DEF InCall, CallPlaces, Ready, Phases, Shapes
    <2>4. Shapes'
      <3>1. split' \in [run : Nat, a : Nat, b : Nat, to : Nat, old : Nat]
        BY <1>s, <2>2
      <3> QED BY <1>0, <2>1, <2>2, <3>1 DEF Shapes, RunACommands
    <2>5. Phases'
      BY <1>0, <2>1, <2>2, <2>3 DEF Phases, ACallPlaces, InCall, End
    <2>6. Causes'
      BY <1>0, <2>1, <2>2, <2>3 DEF Causes
    <2>7. Between'
      BY <2>3 DEF Between
    <2> QED BY <2>3, <2>4, <2>5, <2>6, <2>7, OutOfCall DEF IInv
  <1>3. ASSUME SplitDone PROVE IInv'
    <2>1. /\ pc = "splitC" /\ apc = "idle" /\ aerr' = "none"
          /\ UNCHANGED <<tracker, call, truth, dirty, calls, b, ckpt, berr, early, aux, a, gdnSync, kvSync, hand, slots>>
      BY <1>3 DEF SplitDone, SplitCatch, ChannelReset, bVars, bufVars, chVars
    <2>2. \/ /\ split' = [split EXCEPT !.old = split.run] /\ apc' = "reset" /\ pc' = "resetA"
             /\ UNCHANGED <<state, reported>>
             /\ acquired' = 0 /\ published' = 0 /\ taken' = 0 /\ released' = 0
             /\ bulk' = -1 /\ poisoned' = FALSE
          \/ /\ state' = "kNeedsRecovery" /\ reported' = "error" /\ pc' = "idle" /\ apc' = apc
             /\ split' = [split EXCEPT !.run = split.old, !.to = split.old]
             /\ UNCHANGED <<acquired, published, taken, released, bulk, poisoned>>
      BY <1>3 DEF SplitDone, SplitCatch, ChannelReset, chVars
    <2>3. ~InCall /\ ~InCall' /\ ~Ready' /\ aux = "idle" /\ (pc' = "resetA" => apc' = "reset")
      BY <1>0, <2>1, <2>2 DEF InCall, CallPlaces, Ready, Phases, Shapes
    <2>4. Shapes'
      <3>1. split' \in [run : Nat, a : Nat, b : Nat, to : Nat, old : Nat]
        BY <1>s, <2>2
      <3>2. {acquired', published', taken', released', calls'} \subseteq Nat /\ bulk' \in Int /\ poisoned' \in BOOLEAN
        <4>1. bulk \in Int /\ poisoned \in BOOLEAN /\ {acquired, published, taken, released, calls} \subseteq Nat
          BY <1>0 DEF Shapes
        <4>2. bulk' \in {bulk, -1} /\ poisoned' \in {poisoned, FALSE} /\ calls' = calls
          BY <2>1, <2>2
        <4>3. /\ acquired' \in {acquired, 0} /\ published' \in {published, 0} /\ taken' \in {taken, 0}
              /\ released' \in {released, 0}
          BY <2>2
        <4>4. bulk' \in Int
          BY <4>1, <4>2
        <4>5. poisoned' \in BOOLEAN
          BY <4>1, <4>2
        <4> QED BY <4>1, <4>2, <4>3, <4>4, <4>5
      <3> QED BY <1>0, <2>1, <2>2, <3>1, <3>2 DEF Shapes, RunACommands
    <2>5. Phases'
      BY <1>0, <2>1, <2>2, <2>3 DEF Phases, ACallPlaces, InCall, End, Quiescent
    <2>6. Causes'
      <3>1. reported # "disagree"
        BY <1>0, <2>1 DEF Causes
      <3> QED BY <1>0, <2>1, <2>2, <2>3, <3>1 DEF Causes
    <2>7. Between'
      BY <2>3 DEF Between
    <2> QED BY <2>3, <2>4, <2>5, <2>6, <2>7, OutOfCall DEF IInv
  <1> QED BY <1>1, <1>2, <1>3

(* The destructor and the watchdog keep IInv. *)
LEMMA EndSteps ==
  ASSUME IInv, Close \/ Closed \/ JoinStalled
  PROVE  IInv'
  <1>0. Shapes /\ Phases /\ Causes
    BY DEF IInv
  <1>1. /\ UNCHANGED <<tracker, call, truth, dirty, calls, b, ckpt, berr, early, aux, a, aerr, gdnSync, kvSync, hand,
                       acquired, published, taken, released, bulk, slots>>
        /\ poisoned' \in {poisoned, TRUE}
    BY DEF Close, Closed, JoinStalled, facadeRest, bVars, aVars, bufVars, chVars
  <1>2. \/ pc = "idle" /\ pc' = "closing" /\ UNCHANGED <<state, split, reported, apc>>
        \/ pc = "closing" /\ pc' \in {"closed", "exited"} /\ apc' = "idle" /\ UNCHANGED <<state, split, reported>>
        \/ /\ pc \in {"join", "resetA", "splitA", "splitC"} /\ apc \in DevicePoints
           /\ state' = IF pc \in {"splitA", "splitC"} THEN "kNeedsRecovery" ELSE "kFatal"
           /\ split' = [split EXCEPT !.run = split.old]
           /\ reported' = "fatal" /\ pc' = "idle" /\ apc' = apc
    BY DEF Close, Closed, JoinStalled, facadeRest, aVars
  <1>3. ~InCall' /\ ~Ready' /\ aux = "idle" /\ pc' # "resetA"
    BY <1>0, <1>2 DEF InCall, CallPlaces, Ready, Phases, Shapes
  <1>4. Shapes'
    <2>1. split' \in [run : Nat, a : Nat, b : Nat, to : Nat, old : Nat]
      <3>1. split \in [run : Nat, a : Nat, b : Nat, to : Nat, old : Nat]
        BY <1>0 DEF Shapes
      <3> QED BY <1>2, <3>1
    <2>2. poisoned' \in BOOLEAN
      BY <1>0, <1>1 DEF Shapes
    <2> QED BY <1>0, <1>1, <1>2, <2>1, <2>2 DEF Shapes
  <1>5. Phases'
    BY <1>0, <1>1, <1>2, <1>3 DEF Phases, ACallPlaces, InCall, End
  <1>6. Causes'
    BY <1>0, <1>1, <1>2, <1>3 DEF Causes, Aligned
  <1>7. Between'
    BY <1>3 DEF Between
  <1> QED BY <1>3, <1>4, <1>5, <1>6, <1>7, OutOfCall DEF IInv

-----------------------------------------------------------------------------
(* Stage A's steps, in a call or after one.                                *)

(* What stage A's steps leave alone. *)
LEMMA AFrame ==
  ASSUME StageA \/ StageAHost
  PROVE  /\ UNCHANGED <<state, pc, tracker, call, truth, dirty, reported, calls, b, ckpt, berr, early, aux,
                        gdnSync, kvSync, taken, released>>
         /\ apc \in ACallPlaces => split' = split
         /\ apc # "idle"
  BY DEF StageA, StageAHost, ASync, ACompute, AFill, AExport, AReset, AAttach, ACapture, AFault,
         AcquireFree, AcquireFreeTimeout, Publish, PublishBulk, ACatch, DevicePoints, RunACommands, ACallPlaces,
         facadeVars, bVars, bufVars, chVars

(* A step that fails, or that reports a failure, moves nothing else. *)
Thrown ==
  /\ apc \in ACallPlaces /\ apc' = "catch" /\ aerr' \in {"error", "timeout", "poisoned"}
  /\ apc # "catch"
  /\ aerr' = "timeout" => ~poisoned
  /\ aerr' = "poisoned" => poisoned
  /\ UNCHANGED <<split, a, acquired, published, bulk, poisoned, slots, hand>>
Caught ==
  /\ apc = "catch" /\ apc' = "idle" /\ poisoned' = TRUE
  /\ UNCHANGED <<split, a, aerr, acquired, published, bulk, slots, hand>>

(* The steps of stage A, by what they do to its worker. *)
LEMMA AKinds ==
  ASSUME StageA \/ StageAHost
  PROVE  \/ Thrown \/ Caught
         \/ ASync \/ ACompute \/ AFill \/ AExport
         \/ AcquireFree /\ ~poisoned
         \/ Publish /\ ~poisoned
         \/ PublishBulk /\ ~poisoned
         \/ AReset \/ AAttach \/ ACapture
         \/ /\ apc \in RunACommands /\ apc' = "idle" /\ aerr' = "error"
            /\ UNCHANGED <<split, a, acquired, published, bulk, poisoned, slots, hand>>
  <1> USE DEF facadeVars, bVars, bufVars, chVars, AThrow, AGo
  <1>1. CASE AFault
    <2>1. CASE apc \in RunACommands
      BY <1>1, <2>1 DEF AFault
    <2>2. CASE apc \notin RunACommands
      BY <1>1, <2>2 DEF AFault, Thrown, DevicePoints, ACallPlaces
    <2> QED BY <2>1, <2>2
  <1>2. CASE AcquireFree
    BY <1>2 DEF AcquireFree, Thrown, ACallPlaces
  <1>3. CASE AcquireFreeTimeout
    BY <1>3 DEF AcquireFreeTimeout, Thrown, ACallPlaces
  <1>4. CASE Publish
    BY <1>4 DEF Publish, Thrown, ACallPlaces
  <1>5. CASE PublishBulk
    BY <1>5 DEF PublishBulk, Thrown, ACallPlaces
  <1>6. CASE ACatch
    BY <1>6 DEF ACatch, Caught
  <1> QED BY <1>1, <1>2, <1>3, <1>4, <1>5, <1>6 DEF StageA, StageAHost

(* Stage A stays within the command it was posted. *)
LEMMA PhasesA == ASSUME IInv, StageA \/ StageAHost PROVE Phases'
  <1>0. Shapes /\ Phases
    BY DEF IInv
  <1>1. /\ UNCHANGED <<state, pc, call, truth, b, ckpt, aux, taken, released>> /\ apc # "idle"
    BY AFrame
  <1>2. ~Ready /\ (InCall => apc \in ACallPlaces) /\ ~Ready' /\ InCall' = InCall
    BY <1>0, <1>1 DEF Phases, Ready, InCall
  <1>3. (pc = "resetA" => apc = "reset") /\ (pc = "splitA" => apc = "attach") /\ (pc = "splitC" => apc = "capture")
    BY <1>0, <1>1 DEF Phases
  <1>4. ACallPlaces \cap RunACommands = {}
    BY DEF ACallPlaces, RunACommands
  <1>5. SUFFICES /\ InCall => apc' \in ACallPlaces \cup {"idle"}
                 /\ apc' \in ACallPlaces => apc \in ACallPlaces
                 /\ apc' \in {"sync", "compute", "acquire", "fill", "publish"} => call.rows > 0 /\ End <= MaxPos
                 /\ apc' \in {"compute", "acquire", "fill", "publish"} => a'.pos < End
                 /\ pc = "resetA" => apc' = "idle" /\ UNCHANGED <<poisoned, acquired, published>>
                 /\ pc = "splitA" => apc' = "idle"
                 /\ pc = "splitC" => apc' = "idle"
    BY <1>0, <1>1, <1>2, <1>3 DEF Phases, End, Quiescent
  <1>6. CASE Thrown \/ Caught
    BY <1>3, <1>4, <1>6 DEF Thrown, Caught, ACallPlaces
  <1>7. CASE ASync
    <2>1. apc = "sync" /\ apc' = "compute" /\ a'.pos = call.p0
      BY <1>7 DEF ASync, AGo
    <2>2. call.rows > 0 /\ End <= MaxPos
      BY <1>0, <2>1 DEF Phases
    <2>3. a'.pos < End
      BY <1>0, <2>1, <2>2, TypesOfA DEF End
    <2> QED BY <1>3, <2>1, <2>2, <2>3 DEF ACallPlaces
  <1>8. CASE ACompute
    <2>1. apc = "compute" /\ apc' = "acquire" /\ a'.pos = a.pos
      BY <1>0, <1>8, TypesOfA DEF ACompute, AGo, AStates
    <2> QED BY <1>0, <1>3, <2>1 DEF ACallPlaces, Phases
  <1>9. CASE AFill
    <2>1. apc = "fill" /\ apc' = "publish" /\ a' = a
      BY <1>9 DEF AFill, AGo
    <2> QED BY <1>0, <1>3, <2>1 DEF ACallPlaces, Phases
  <1>10. CASE AExport
    <2>1. apc = "export" /\ apc' = "bulk" /\ a' = a
      BY <1>10 DEF AExport, AGo
    <2> QED BY <1>0, <1>3, <2>1 DEF ACallPlaces, Phases
  <1>11. CASE AcquireFree /\ ~poisoned
    <2>1. apc = "acquire" /\ apc' = "fill" /\ a' = a
      BY <1>11 DEF AcquireFree, AGo
    <2> QED BY <1>0, <1>3, <2>1 DEF ACallPlaces, Phases
  <1>12. CASE Publish /\ ~poisoned
    <2>1. /\ apc = "publish" /\ apc' = IF ALast THEN "export" ELSE "compute"
          /\ a' = [a EXCEPT !.pos = @ + ARows]
      BY <1>12 DEF Publish, AGo
    <2>2. call.rows > 0 /\ End <= MaxPos /\ a.pos < End
      BY <1>0, <2>1 DEF Phases
    <2>3. a'.pos = a.pos + ARows
      BY <1>0, <2>1, TypesOfA DEF AStates
    <2>4. ~ALast => a'.pos < End
      BY <1>0, <2>2, <2>3, TypesOfA, AChunk
    <2> QED BY <1>3, <2>1, <2>2, <2>4 DEF ACallPlaces
  <1>13. CASE PublishBulk /\ ~poisoned
    <2>1. apc = "bulk" /\ apc' = "idle"
      BY <1>13 DEF PublishBulk, AGo
    <2> QED BY <1>3, <2>1 DEF ACallPlaces
  <1>14. CASE AReset \/ AAttach \/ ACapture
    BY <1>2, <1>4, <1>14 DEF AReset, AAttach, ACapture, AGo, RunACommands, ACallPlaces, chVars
  <1>15. CASE /\ apc \in RunACommands /\ apc' = "idle" /\ aerr' = "error"
              /\ UNCHANGED <<split, a, acquired, published, bulk, poisoned, slots, hand>>
    BY <1>2, <1>4, <1>15 DEF ACallPlaces
  <1> QED BY <1>6, <1>7, <1>8, <1>9, <1>10, <1>11, <1>12, <1>13, <1>14, <1>15, AKinds

(* Which places and errors the steps of stage A leave. *)
LEMMA AErrors ==
  ASSUME IInv, StageA \/ StageAHost, InCall
  PROVE  /\ apc \in ACallPlaces /\ split' = split
         /\ \/ Thrown \/ Caught
            \/ /\ ASync \/ ACompute \/ AFill \/ AExport \/ AcquireFree \/ Publish \/ PublishBulk
               /\ apc # "catch" /\ apc' # "catch" /\ aerr' = aerr /\ poisoned' = poisoned /\ aerr = "none"
  <1>1. apc \in ACallPlaces /\ (apc = "catch" <=> aerr # "none")
    <2>1. Phases /\ Causes /\ apc # "idle"
      BY AFrame DEF IInv
    <2> QED BY <2>1 DEF Phases, Causes
  <1>2. split' = split
    BY <1>1, AFrame
  <1>3. apc \notin RunACommands
    BY <1>1 DEF ACallPlaces, RunACommands
  <1>4. CASE ASync \/ ACompute \/ AFill \/ AExport \/ (AcquireFree /\ ~poisoned) \/ (Publish /\ ~poisoned)
             \/ (PublishBulk /\ ~poisoned)
    <2>1. apc # "catch" /\ apc' # "catch" /\ aerr' = aerr /\ poisoned' = poisoned
      BY <1>4 DEF ASync, ACompute, AFill, AExport, AcquireFree, Publish, PublishBulk, AGo, chVars
    <2> QED BY <1>1, <1>2, <1>4, <2>1
  <1>5. CASE Thrown \/ Caught
    BY <1>1, <1>2, <1>5
  <1>6. CASE AReset \/ AAttach \/ ACapture
    BY <1>3, <1>6 DEF AReset, AAttach, ACapture, RunACommands
  <1> QED BY <1>3, <1>4, <1>5, <1>6, AKinds

(* A poison that A leaves has A's error as its cause. *)
LEMMA CausesA == ASSUME IInv, StageA \/ StageAHost PROVE Causes'
  <1>0. Shapes /\ Phases /\ Causes
    BY DEF IInv
  <1>1. /\ UNCHANGED <<pc, reported, berr>> /\ apc # "idle" /\ InCall' = InCall
    BY AFrame DEF InCall
  <1>2. reported' # "poisoned" /\ reported' # "begin"
    BY <1>0, <1>1 DEF Causes
  <1>3. ASSUME reported = "disagree"
        PROVE  ~Aligned' /\ apc' # "attach" /\ pc \notin {"splitA", "splitC"}
    <2>1. ~Aligned /\ apc # "attach" /\ pc \notin {"splitA", "splitC"}
      BY <1>0, <1>3 DEF Causes
    <2>2. split' = split /\ apc' # "attach"
      BY <2>1, AKinds DEF Thrown, Caught, ASync, ACompute, AFill, AExport, AcquireFree, Publish, PublishBulk,
                          AReset, AAttach, ACapture, AGo, facadeVars
    <2> QED BY <2>1, <2>2 DEF Aligned
  <1>4. ASSUME InCall
        PROVE  /\ apc' \in ACallPlaces => (apc' = "catch" <=> aerr' # "none")
               /\ pc \in CallPlaces \ {"fence", "join"} => (pc = "catch" <=> berr # "none")
               /\ poisoned' => \/ aerr' \notin {"none", "poisoned"} /\ apc' = "idle"
                               \/ berr \notin {"none", "poisoned"} /\ pc \in {"fence", "join"}
               /\ aerr' = "poisoned" => berr \notin {"none", "poisoned"} /\ pc \in {"fence", "join"}
               /\ berr = "poisoned" => aerr' \notin {"none", "poisoned"} /\ apc' = "idle"
               /\ berr = "disagree" => ~Aligned'
               /\ berr # "begin"
    <2>1. /\ apc \in ACallPlaces => (apc = "catch" <=> aerr # "none")
          /\ pc \in CallPlaces \ {"fence", "join"} => (pc = "catch" <=> berr # "none")
          /\ poisoned => berr \notin {"none", "poisoned"} /\ pc \in {"fence", "join"}
          /\ aerr = "poisoned" => berr \notin {"none", "poisoned"} /\ pc \in {"fence", "join"}
          /\ berr # "poisoned"
          /\ berr = "disagree" => ~Aligned
          /\ berr # "begin"
      BY <1>0, <1>1, <1>4 DEF Causes
    <2>2. Aligned' = Aligned
      BY <1>4, AErrors DEF Aligned
    <2>3. CASE Thrown
      BY <2>1, <2>2, <2>3 DEF Thrown
    <2>4. CASE Caught
      BY <2>1, <2>2, <2>4 DEF Caught, ACallPlaces
    <2>5. CASE /\ apc # "catch" /\ apc' # "catch" /\ aerr' = aerr /\ poisoned' = poisoned /\ aerr = "none"
      BY <2>1, <2>2, <2>5
    <2> QED BY <1>4, <2>3, <2>4, <2>5, AErrors
  <1> QED BY <1>1, <1>2, <1>3, <1>4 DEF Causes

(* Outside a call A runs no step that changes its mirror, a reset apart. *)
LEMMA BetweenA == ASSUME IInv, StageA \/ StageAHost PROVE Between'
  <1>0. Shapes /\ Phases /\ Between
    BY DEF IInv
  <1>1. UNCHANGED <<state, pc>> /\ apc # "idle"
    BY AFrame
  <1>2. ~Ready'
    BY <1>0, <1>1 DEF Phases, Ready
  <1>3. ASSUME pc = "resetA", apc' = "idle", aerr' = "none" PROVE a'.gdn = <<>>
    <2>1. apc = "reset"
      BY <1>0, <1>1, <1>3 DEF Phases
    <2>2. AReset
      BY <1>3, <2>1, AKinds DEF Thrown, Caught, ASync, ACompute, AFill, AExport, AcquireFree, Publish, PublishBulk,
                                AAttach, ACapture, ACallPlaces
    <2> QED BY <2>2 DEF AReset
  <1> QED BY <1>1, <1>2, <1>3 DEF Between

(* Where stage B is, by the counters of the ring: never past what A has    *)
(* published.                                                              *)
LEMMA BBehind ==
  ASSUME IInv, InCall, berr = "none"
  PROVE  /\ call.p0 <= b.pos /\ b.pos <= Upto(taken) /\ b.pos <= Upto(published) /\ b.pos <= End
         /\ Upto(published) <= ChunkPos(published)
         /\ published = 0 => pc = "acquire" /\ b.pos = call.p0
         /\ released <= taken /\ taken <= published
  <1>0. Shapes /\ Counts /\ Causes
    BY DEF IInv
  <1>1. /\ released \in Nat /\ taken \in Nat /\ published \in Nat /\ call \in Commands /\ b.pos \in Nat /\ End \in Nat
        /\ released <= taken /\ taken <= published /\ call.rows > 0 /\ call.rows \in Nat /\ call.p0 \in Nat
    BY <1>0, TypesOfA DEF Counts
  <1>2. pc \in {"acquire", "check", "layers", "release", "bulk", "fence", "join"}
    BY <1>0 DEF InCall, CallPlaces, Causes
  <1>3. /\ pc = "acquire" => taken = released /\ b.pos = ChunkPos(taken) /\ b.pos < End
        /\ pc \in {"check", "layers"} => taken = released + 1 /\ b.pos = ChunkPos(released) /\ b.pos < End
        /\ pc = "release" => taken = released + 1 /\ b.pos = Upto(taken)
        /\ pc \in {"bulk", "fence", "join"} => taken = released /\ b.pos = End /\ End <= ChunkPos(taken)
    BY <1>0 DEF Counts
  <1>4. Upto(taken) <= Upto(published) /\ Upto(taken) \in Nat /\ Upto(published) \in Nat
        /\ Upto(taken) <= End /\ Upto(published) <= ChunkPos(published) /\ ChunkPos(published) \in Nat
    BY <1>1, Chunks, ChunksGrow
  <1>5. /\ call.p0 <= ChunkPos(taken) /\ call.p0 <= End /\ call.p0 <= Upto(taken) /\ ChunkPos(0) = call.p0
        /\ ChunkPos(taken) \in Nat /\ ChunkPos(released) \in Nat /\ call.p0 <= ChunkPos(released)
        /\ ChunkPos(taken) <= End => Upto(taken) = ChunkPos(taken)
        /\ End <= ChunkPos(taken) => Upto(taken) = End
        /\ ChunkPos(released + 1) = ChunkPos(released) + ChunkRows
        /\ ChunkRows \in Nat
    BY <1>1, Chunks, Constants
  <1>6. call.p0 <= b.pos /\ b.pos <= Upto(taken)
    <2>1. CASE pc = "acquire"
      BY <1>1, <1>3, <1>4, <1>5, <2>1
    <2>2. CASE pc \in {"check", "layers"}
      <3>1. taken = released + 1 /\ b.pos = ChunkPos(released) /\ b.pos < End
        BY <1>3, <2>2
      <3>2. ChunkPos(taken) = b.pos + ChunkRows
        BY <1>5, <3>1
      <3>3. b.pos <= Upto(taken)
        <4>1. CASE ChunkPos(taken) <= End
          BY <1>1, <1>5, <3>2, <4>1
        <4>2. CASE End <= ChunkPos(taken)
          BY <1>1, <1>5, <3>1, <4>2
        <4> QED BY <1>1, <1>5, <4>1, <4>2
      <3> QED BY <1>5, <3>1, <3>3
    <2>3. CASE pc = "release"
      BY <1>3, <1>4, <1>5, <2>3
    <2>4. CASE pc \in {"bulk", "fence", "join"}
      BY <1>1, <1>3, <1>5, <2>4
    <2> QED BY <1>2, <2>1, <2>2, <2>3, <2>4
  <1>7. ASSUME published = 0 PROVE pc = "acquire" /\ b.pos = call.p0
    <2>1. taken = 0 /\ released = 0
      BY <1>1, <1>7
    <2>2. End > call.p0
      BY <1>1 DEF End
    <2>3. pc \notin {"check", "layers", "release"}
      BY <1>3, <2>1
    <2>4. pc \notin {"bulk", "fence", "join"}
      BY <1>1, <1>3, <1>5, <2>1, <2>2
    <2> QED BY <1>2, <1>3, <1>5, <2>1, <2>3, <2>4
  <1> QED BY <1>1, <1>4, <1>6, <1>7

(* Where the counters are, at each place of stage A. *)
LEMMA ACounts ==
  ASSUME IInv, InCall
  PROVE  /\ released <= taken /\ taken <= published /\ published <= acquired /\ acquired - released <= Slots
         /\ acquired \in Nat /\ published \in Nat /\ taken \in Nat /\ released \in Nat
         /\ a.pos \in Nat /\ End \in Nat /\ call \in Commands
         /\ apc \in {"compute", "acquire", "fill", "publish"} =>
              a.pos = ChunkPos(published) /\ a.pos < End /\ a.pos = Upto(published)
              /\ a.pos + ARows = Upto(published + 1) /\ ARows \in Nat \ {0}
         /\ apc \in {"export", "bulk"} => a.pos = End
         /\ apc # "idle" => bulk # call.id
         /\ apc # "idle" /\ berr = "none" => ~early /\ aux = "idle" /\ pc \notin {"fence", "join"}
  <1>0. Shapes /\ Phases /\ Counts
    BY DEF IInv
  <1>1. /\ acquired \in Nat /\ published \in Nat /\ taken \in Nat /\ released \in Nat
        /\ a.pos \in Nat /\ End \in Nat /\ call \in Commands
    BY <1>0, TypesOfA
  <1>2. /\ released <= taken /\ taken <= published /\ published <= acquired /\ acquired - released <= Slots
        /\ apc \in {"compute", "acquire", "fill", "publish"} => a.pos = ChunkPos(published) /\ a.pos < End
        /\ apc \in {"export", "bulk"} => a.pos = End
        /\ bulk = call.id => apc = "idle"
        /\ (early \/ aux = "copying" \/ pc \in {"fence", "join"}) /\ berr = "none" => bulk = call.id
    BY <1>0 DEF Counts
  <1>3. ASSUME a.pos = ChunkPos(published), a.pos < End
        PROVE  a.pos = Upto(published) /\ a.pos + ARows = Upto(published + 1) /\ ARows \in Nat \ {0}
    <2>1. ARows \in Nat \ {0} /\ a.pos + ARows = Min2(a.pos + ChunkRows, End)
      BY <1>1, <1>3, AChunk
    <2>2. ChunkPos(published + 1) = a.pos + ChunkRows /\ (ChunkPos(published) <= End => Upto(published) = ChunkPos(published))
      BY <1>1, <1>3, Chunks
    <2> QED BY <1>1, <1>3, <2>1, <2>2 DEF Upto
  <1>4. aux \in {"idle", "copying"}
    BY <1>0 DEF Shapes
  <1> QED BY <1>1, <1>2, <1>3, <1>4

(* Stage A's place and the ring's counters stay in step. *)
LEMMA CountsA == ASSUME IInv, StageA \/ StageAHost, InCall PROVE Counts'
  <1>0. Shapes /\ Phases /\ Counts /\ Causes
    BY DEF IInv
  <1>1. /\ UNCHANGED <<pc, call, calls, b, berr, early, aux, taken, released>> /\ InCall' /\ apc # "idle"
        /\ apc \in ACallPlaces
    BY AFrame, AErrors DEF InCall
  <1>2. /\ released <= taken /\ taken <= published /\ published <= acquired /\ acquired - released <= Slots
        /\ acquired \in Nat /\ published \in Nat /\ taken \in Nat /\ released \in Nat
        /\ bulk # call.id
        /\ apc # "catch" /\ berr = "none" => ~early /\ aux = "idle" /\ pc \notin {"fence", "join"}
    BY <1>1, ACounts
  <1> DEFINE Stay ==
        /\ call.id = calls /\ calls > 0 /\ call.rows > 0 /\ call.row0 <= call.p0 /\ End <= MaxPos
        /\ pc = "acquire" => taken = released /\ b.pos = ChunkPos(taken) /\ b.pos < End
        /\ pc \in {"check", "layers"} => taken = released + 1 /\ b.pos = ChunkPos(released) /\ b.pos < End
        /\ pc = "release" => taken = released + 1 /\ b.pos = Upto(taken)
        /\ pc = "bulk" \/ (pc \in {"fence", "join"} /\ berr = "none") =>
             taken = released /\ b.pos = End /\ End <= ChunkPos(taken)
  <1>3. Stay /\ Stay'
    <2>1. Stay
      BY <1>0 DEF Counts
    <2> QED BY <1>1, <2>1 DEF End, ChunkPos, Upto
  <1> DEFINE Moved ==
        /\ taken' <= published' /\ published' <= acquired' /\ acquired' - released' <= Slots
        /\ published' > 0 => ChunkPos(published' - 1) < End
        /\ apc' \in {"sync", "compute", "acquire", "export", "bulk"} => acquired' = published'
        /\ apc' \in {"fill", "publish"} => acquired' = published' + 1
        /\ apc' = "sync" => published' = 0
        /\ apc' \in {"compute", "acquire", "fill", "publish"} => a'.pos = ChunkPos(published') /\ a'.pos < End
        /\ apc' \in {"export", "bulk"} => a'.pos = End /\ End <= ChunkPos(published')
        /\ apc' = "idle" /\ aerr' = "none" => a'.pos = End /\ End <= ChunkPos(published')
                                             /\ acquired' = published'
        /\ bulk' = call.id => apc' = "idle" /\ aerr' = "none"
        /\ bulk # call.id /\ (early \/ aux = "copying" \/ pc \in {"fence", "join"}) => berr # "none"
  <1>5. SUFFICES Moved
    <2> HIDE DEF Moved, Stay
    <2>1. ASSUME Moved
          PROVE  /\ taken' <= published' /\ published' <= acquired' /\ acquired' - released' <= Slots
                 /\ published' > 0 => ChunkPos(published - 1)' < End'
                 /\ apc' \in {"sync", "compute", "acquire", "export", "bulk"} => acquired' = published'
                 /\ apc' \in {"fill", "publish"} => acquired' = published' + 1
                 /\ apc' = "sync" => published' = 0
                 /\ apc' \in {"compute", "acquire", "fill", "publish"} => a'.pos = ChunkPos(published)' /\ a'.pos < End'
                 /\ apc' \in {"export", "bulk"} => a'.pos = End' /\ End' <= ChunkPos(published)'
                 /\ apc' = "idle" /\ aerr' = "none" => a'.pos = End' /\ End' <= ChunkPos(published)'
                                                      /\ acquired' = published'
                 /\ bulk' = call'.id => apc' = "idle" /\ aerr' = "none"
                 /\ bulk # call.id /\ (early \/ aux = "copying" \/ pc \in {"fence", "join"}) => berr # "none"
      BY <1>1, <2>1 DEF Moved, ChunkPos, End
    <2>2. released' <= taken'
      BY <1>1, <1>2
    <2>3. Stay'
      BY <1>3
    <2> QED BY <1>1, <1>2, <2>1, <2>2, <2>3 DEF Counts, Stay
  <1>6. published > 0 => ChunkPos(published - 1) < End
    BY <1>0 DEF Counts
  <1>7. (early \/ aux = "copying" \/ pc \in {"fence", "join"}) /\ berr = "none" => bulk = call.id
    BY <1>0 DEF Counts
  <1> HIDE DEF Stay
  <1>8. CASE Thrown
    BY <1>1, <1>2, <1>6, <1>7, <1>8 DEF Thrown
  <1>9. CASE Caught
    BY <1>0, <1>1, <1>2, <1>6, <1>7, <1>9 DEF Caught, Causes
  <1>10. CASE ASync
    <2>1. /\ apc' = "compute" /\ a'.pos = call.p0 /\ apc = "sync"
          /\ UNCHANGED <<acquired, published, bulk>>
      BY <1>10 DEF ASync, AGo, chVars
    <2>2. published = 0 /\ acquired = published
      BY <1>0, <2>1 DEF Counts
    <2>3. call.p0 = ChunkPos(published) /\ call.p0 < End
      <3>1. ChunkPos(0) = call.p0
        BY <1>0, TypesOfA, Chunks
      <3>2. call.rows > 0
        BY <1>3 DEF Stay
      <3> QED BY <1>0, <2>2, <3>1, <3>2, TypesOfA DEF End
    <2> QED BY <1>1, <1>2, <1>6, <1>7, <2>1, <2>2, <2>3
  <1>11. CASE ACompute
    <2>1. /\ apc' = "acquire" /\ a'.pos = a.pos /\ apc = "compute"
          /\ UNCHANGED <<acquired, published, bulk>>
      BY <1>0, <1>11, TypesOfA DEF ACompute, AGo, chVars, AStates
    <2>2. a.pos = ChunkPos(published) /\ a.pos < End /\ acquired = published
      BY <1>0, <2>1 DEF Counts
    <2> QED BY <1>1, <1>2, <1>6, <1>7, <2>1, <2>2
  <1>12. CASE AFill
    <2>1. /\ apc' = "publish" /\ a' = a /\ apc = "fill"
          /\ UNCHANGED <<acquired, published, bulk>>
      BY <1>12 DEF AFill, AGo
    <2>2. a.pos = ChunkPos(published) /\ a.pos < End /\ acquired = published + 1
      BY <1>0, <2>1 DEF Counts
    <2> QED BY <1>1, <1>2, <1>6, <1>7, <2>1, <2>2
  <1>13. CASE AExport
    <2>1. /\ apc' = "bulk" /\ a' = a /\ apc = "export"
          /\ UNCHANGED <<acquired, published, bulk>>
      BY <1>13 DEF AExport, AGo, chVars
    <2>2. a.pos = End /\ End <= ChunkPos(published) /\ acquired = published
      BY <1>0, <2>1 DEF Counts
    <2> QED BY <1>1, <1>2, <1>6, <1>7, <2>1, <2>2
  <1>14. CASE AcquireFree /\ ~poisoned
    <2>1. /\ apc' = "fill" /\ a' = a /\ apc = "acquire" /\ acquired' = acquired + 1 /\ FreeReady
          /\ UNCHANGED <<published, bulk>>
      BY <1>14 DEF AcquireFree, AGo
    <2>2. a.pos = ChunkPos(published) /\ a.pos < End /\ acquired = published
      BY <1>0, <2>1 DEF Counts
    <2>3. acquired - released < Slots /\ Slots \in Nat
      BY <2>1, Constants DEF FreeReady
    <2>4. acquired' - released' <= Slots
      BY <1>1, <1>2, <2>1, <2>3
    <2> QED BY <1>1, <1>2, <1>6, <1>7, <2>1, <2>2, <2>4
  <1>15. CASE Publish /\ ~poisoned
    <2>1. /\ apc' = (IF ALast THEN "export" ELSE "compute") /\ apc = "publish" /\ published' = published + 1
          /\ a' = [a EXCEPT !.pos = @ + ARows] /\ UNCHANGED <<acquired, bulk>>
      BY <1>15 DEF Publish, AGo
    <2>2. a.pos = ChunkPos(published) /\ a.pos < End /\ acquired = published + 1
      BY <1>0, <2>1 DEF Counts
    <2>3. a'.pos = a.pos + ARows
      BY <1>0, <2>1, TypesOfA DEF AStates
    <2>4. ChunkPos(published') = a.pos + ChunkRows /\ ChunkPos(published' - 1) = a.pos
      <3>1. ChunkPos(published + 1) = a.pos + ChunkRows
        BY <1>0, <1>2, <2>2, TypesOfA, Chunks
      <3>2. published' - 1 = published
        BY <1>2, <2>1
      <3> QED BY <2>1, <2>2, <3>1, <3>2
    <2>5. ALast => a'.pos = End /\ End <= ChunkPos(published')
      BY <1>0, <2>2, <2>3, <2>4, TypesOfA, AChunk
    <2>6. ~ALast => a'.pos = ChunkPos(published') /\ a'.pos < End
      BY <1>0, <2>2, <2>3, <2>4, TypesOfA, AChunk
    <2>7. ChunkPos(published' - 1) < End
      BY <2>2, <2>4
    <2>8. taken' <= published' /\ published' <= acquired' /\ acquired' - released' <= Slots /\ acquired' = published'
      BY <1>1, <1>2, <2>1, <2>2
    <2> QED BY <1>2, <1>7, <2>1, <2>5, <2>6, <2>7, <2>8
  <1>16. CASE PublishBulk /\ ~poisoned
    <2>1. /\ apc' = "idle" /\ a' = a /\ apc = "bulk" /\ bulk' = call.id /\ aerr' = aerr
          /\ UNCHANGED <<acquired, published>>
      BY <1>16 DEF PublishBulk, AGo
    <2>2. a.pos = End /\ End <= ChunkPos(published) /\ acquired = published /\ aerr = "none"
      BY <1>0, <1>1, <2>1 DEF Counts, Causes, ACallPlaces
    <2> QED BY <1>1, <1>2, <1>6, <1>7, <2>1, <2>2
  <1>17. apc \notin RunACommands
    BY <1>1 DEF ACallPlaces, RunACommands
  <1>18. ~(AReset \/ AAttach \/ ACapture)
    BY <1>17 DEF AReset, AAttach, ACapture, RunACommands
  <1> HIDE DEF Moved
  <1> QED BY <1>8, <1>9, <1>10, <1>11, <1>12, <1>13, <1>14, <1>15, <1>16, <1>17, <1>18, AKinds

(* Filling a slot leaves those in between alone. *)
LEMMA FillFacts ==
  ASSUME IInv, InCall, AFill
  PROVE  LET s == [pos |-> a.pos, rows |-> ARows, last |-> ALast, carry |-> a.gdn, kv |-> a.kv] IN
         /\ slots'[SlotOf(published)] = s
         /\ \A n \in released .. published - 1 : slots'[SlotOf(n)] = slots[SlotOf(n)]
  <1> DEFINE s == [pos |-> a.pos, rows |-> ARows, last |-> ALast, carry |-> a.gdn, kv |-> a.kv]
  <1>0. Shapes /\ Counts
    BY DEF IInv
  <1>1. apc = "fill" /\ slots' = [slots EXCEPT ![SlotOf(acquired - 1)] = s]
    BY DEF AFill
  <1>2. acquired = published + 1
    BY <1>0, <1>1 DEF Counts
  <1>3. /\ released \in Nat /\ published \in Nat /\ acquired - released <= Slots /\ Slots \in Nat
        /\ released <= published
    BY ACounts, Constants
  <1>4. acquired - 1 = published
    BY <1>2, <1>3
  <1>5. SlotOf(published) \in 0 .. Slots - 1
    BY <1>3, SlotInRange
  <1> HIDE DEF s
  <1>6. slots \in [0 .. Slots - 1 -> SlotValues]
    BY <1>0 DEF Shapes
  <1>7. slots'[SlotOf(published)] = s
    BY <1>1, <1>4, <1>5, <1>6
  <1>8. ASSUME NEW n \in released .. published - 1 PROVE slots'[SlotOf(n)] = slots[SlotOf(n)]
    <2>1. n \in Nat /\ n < published /\ published - n < Slots
      BY <1>2, <1>3
    <2>2. SlotOf(n) # SlotOf(published) /\ SlotOf(n) \in 0 .. Slots - 1
      BY <1>3, <2>1, SlotsApart, SlotInRange
    <2> QED BY <1>1, <1>4, <1>6, <2>2
  <1> QED BY <1>7, <1>8 DEF s

(* What is filled, after a step of stage A. *)
LEMMA FilledA ==
  ASSUME IInv, StageA \/ StageAHost, InCall
  PROVE  /\ Filled \in Nat /\ Filled' \in Nat
         /\ ~AFill => \A n \in released .. Filled' - 1 : n \in released .. Filled - 1
         /\ ~AFill => UNCHANGED slots
         /\ AFill => Filled = published /\ Filled' = published + 1 /\ UNCHANGED <<a, published>>
         /\ Filled <= published + 1 /\ published <= Filled
  <1>1. apc \in ACallPlaces /\ published \in Nat /\ released \in Nat
    BY AErrors, ACounts
  <1>2. apc \notin RunACommands
    BY <1>1 DEF ACallPlaces, RunACommands
  <1>3. ~(AReset \/ AAttach \/ ACapture)
    BY <1>2 DEF AReset, AAttach, ACapture, RunACommands
  <1>4. CASE AFill
    <2>1. apc = "fill" /\ apc' = "publish" /\ a' = a /\ published' = published
      BY <1>4 DEF AFill, AGo
    <2> QED BY <1>1, <1>4, <2>1 DEF Filled
  <1>5. CASE Publish /\ ~poisoned
    <2>1. /\ apc = "publish" /\ apc' # "publish" /\ published' = published + 1 /\ slots' = slots
      BY <1>5 DEF Publish, AGo
    <2>2. ~AFill
      BY <2>1 DEF AFill
    <2> QED BY <1>1, <2>1, <2>2 DEF Filled
  <1>6. CASE Thrown \/ Caught
    <2>1. apc' # "publish" /\ published' = published /\ slots' = slots
      BY <1>6 DEF Thrown, Caught
    <2>2. ~AFill
      BY <1>6 DEF Thrown, Caught, AFill, AGo
    <2> QED BY <1>1, <2>1, <2>2 DEF Filled
  <1>7. CASE ASync \/ ACompute \/ AExport \/ (AcquireFree /\ ~poisoned) \/ (PublishBulk /\ ~poisoned)
    <2>1. apc # "publish" /\ apc' # "publish" /\ published' = published /\ slots' = slots /\ apc # "fill"
      BY <1>7 DEF ASync, ACompute, AExport, AcquireFree, PublishBulk, AGo, chVars
    <2>2. ~AFill
      BY <2>1 DEF AFill
    <2> QED BY <1>1, <2>1, <2>2 DEF Filled
  <1> QED BY <1>2, <1>3, <1>4, <1>5, <1>6, <1>7, AKinds

(* A chunk that A filled is the chunk of its number; no live slot is overwritten. *)
LEMMA HeadersA == ASSUME IInv, StageA \/ StageAHost, InCall PROVE Headers'
  <1>0. Headers
    BY DEF IInv
  <1>1. UNCHANGED <<pc, call, released>>
    BY AFrame
  <1>2. /\ Filled \in Nat /\ Filled' \in Nat /\ released \in Nat /\ published \in Nat
        /\ ~AFill => UNCHANGED slots
        /\ AFill => Filled = published /\ Filled' = published + 1
    BY FilledA, ACounts
  <1>3. \A n : ChunkPos(n)' = ChunkPos(n) /\ Upto(n)' = Upto(n) /\ End' = End
    BY <1>1 DEF ChunkPos, Upto, End
  <1>4. SUFFICES ASSUME NEW n \in released .. Filled' - 1
                 PROVE  LET s == slots'[SlotOf(n)] IN
                        /\ ChunkPos(n) < End /\ s.pos = ChunkPos(n) /\ s.pos + s.rows = Upto(n + 1)
                        /\ s.last = (s.pos + s.rows = End)
    BY <1>1, <1>3 DEF Headers
  <1>5. ASSUME NEW m \in released .. Filled - 1
        PROVE  LET s == slots[SlotOf(m)] IN
               /\ ChunkPos(m) < End /\ s.pos = ChunkPos(m) /\ s.pos + s.rows = Upto(m + 1)
               /\ s.last = (s.pos + s.rows = End)
    BY <1>0 DEF Headers
  <1>6. CASE ~AFill
    <2>1. n \in released .. Filled - 1 /\ slots' = slots
      BY <1>2, <1>6, FilledA
    <2> QED BY <1>5, <2>1
  <1>7. CASE AFill
    <2>1. CASE n = published
      <3>1. apc = "fill"
        BY <1>7 DEF AFill
      <3>2. a.pos = ChunkPos(published) /\ a.pos < End /\ a.pos + ARows = Upto(published + 1)
        BY <3>1, ACounts
      <3>3. ALast = (a.pos + ARows = End)
        BY DEF ALast, End
      <3>4. slots'[SlotOf(n)] = [pos |-> a.pos, rows |-> ARows, last |-> ALast, carry |-> a.gdn, kv |-> a.kv]
        BY <1>7, <2>1, FillFacts
      <3> QED BY <2>1, <3>2, <3>3, <3>4
    <2>2. CASE n # published
      <3>1. n \in released .. published - 1 /\ n \in released .. Filled - 1
        BY <1>2, <1>7, <2>2
      <3>2. slots'[SlotOf(n)] = slots[SlotOf(n)]
        BY <1>7, <3>1, FillFacts
      <3> QED BY <1>5, <3>1, <3>2
    <2> QED BY <2>1, <2>2
  <1> QED BY <1>6, <1>7

(* What stage A holds after a step of a sound call. *)
LEMMA SoundA ==
  ASSUME IInv, StageA \/ StageAHost, InCall, Sound'
  PROVE  /\ Sound /\ apc # "catch" /\ apc' # "catch" /\ split' = split /\ berr = "none" /\ ~poisoned
         /\ ~early /\ aux = "idle" /\ pc \notin {"fence", "join"} /\ bulk # call.id
         /\ ASync \/ ACompute \/ AFill \/ AExport \/ AcquireFree \/ Publish \/ PublishBulk
  <1>1. split' = split /\ berr' = berr /\ apc # "idle"
    BY AErrors, AFrame
  <1>2. ~Thrown /\ ~Caught
    <2>1. aerr' = "none"
      BY DEF Sound
    <2>2. Causes
      BY DEF IInv
    <2> QED BY <2>1, <2>2 DEF Thrown, Caught, Causes, ACallPlaces
  <1>3. /\ ASync \/ ACompute \/ AFill \/ AExport \/ AcquireFree \/ Publish \/ PublishBulk
        /\ apc # "catch" /\ apc' # "catch" /\ aerr' = aerr /\ poisoned' = poisoned /\ aerr = "none"
    BY <1>2, AErrors
  <1>4. Sound /\ berr = "none"
    BY <1>1, <1>3 DEF Sound, Aligned
  <1>5. ~early /\ aux = "idle" /\ pc \notin {"fence", "join"} /\ bulk # call.id
    BY <1>1, <1>4, ACounts
  <1>6. ~poisoned
    <2>1. Causes
      BY DEF IInv
    <2> QED BY <1>4, <2>1 DEF Causes, Sound
  <1> QED BY <1>1, <1>3, <1>4, <1>5, <1>6

(* The sync-back makes stage A's rows and state those of stage B. *)
LEMMA SyncFacts ==
  ASSUME IInv, InCall, Sound, ASync
  PROVE  /\ a'.pos = call.p0 /\ a'.gdn = b.gdn /\ \A r \in 1..call.p0 : a'.kv[r] = b.kv[r]
         /\ b.pos = call.p0 /\ published = 0
  <1>0. Shapes /\ Copies /\ Counts
    BY DEF IInv
  <1>1. /\ apc = "sync" /\ split.a = split.run /\ split.b = split.run
        /\ a' = [pos |-> call.p0,
                 gdn |-> IF ~call.gdn THEN a.gdn ELSE gdnSync,
                 kv |-> IF call.p0 = call.row0 THEN a.kv
                        ELSE Overlay(a.kv, kvSync, call.row0, call.p0 - call.row0)]
    BY DEF ASync, Sound, Aligned
  <1>2. /\ IF call.gdn THEN gdnSync = b.gdn ELSE a.gdn = b.gdn
        /\ \A r \in 1..call.row0 : a.kv[r] = b.kv[r]
        /\ call.row0 < call.p0 =>
             \A r \in Rows : r \in BlockRows(call.row0, call.p0 - call.row0) => kvSync[r] = b.kv[r]
    BY <1>0, <1>1 DEF Copies
  <1>3. /\ call.p0 \in Nat /\ call.row0 \in Nat /\ call.row0 <= call.p0 /\ call.p0 <= MaxPos /\ MaxPos \in Nat
        /\ a.kv \in RowStore
    BY <1>0, TypesOfA DEF Counts
  <1>4. kvSync \in RowStore
    BY <1>0 DEF Shapes
  <1>5. ASSUME NEW r \in 1..call.p0 PROVE a'.kv[r] = b.kv[r]
    <2>1. r \in Rows
      BY <1>3 DEF Rows
    <2>2. CASE call.p0 = call.row0
      BY <1>1, <1>2, <2>2
    <2>3. CASE call.p0 # call.row0
      <3>1. a'.kv[r] = IF r \in BlockRows(call.row0, call.p0 - call.row0) THEN kvSync[r] ELSE a.kv[r]
        BY <1>1, <2>1, <2>3 DEF Overlay
      <3>2. r <= call.row0 => a.kv[r] = b.kv[r]
        BY <1>2, <1>3
      <3>3. r > call.row0 => r \in BlockRows(call.row0, call.p0 - call.row0)
        <4>1. call.p0 - call.row0 \in Nat \ {0}
          BY <1>3, <2>3
        <4>2. call.row0 + (call.p0 - call.row0) = call.p0
          BY <1>3
        <4>3. r > call.row0 => r \in call.row0 + 1 .. call.row0 + (call.p0 - call.row0)
          BY <1>3, <4>2
        <4> QED BY <1>3, <4>1, <4>3, BlockSpan
      <3>4. call.row0 < call.p0
        BY <1>3, <2>3
      <3> QED BY <1>2, <1>3, <2>1, <3>1, <3>2, <3>3, <3>4
    <2> QED BY <2>2, <2>3
  <1>6. a'.pos = call.p0 /\ a'.gdn = b.gdn
    BY <1>1, <1>2
  <1>7. published = 0
    BY <1>0, <1>1 DEF Counts
  <1>8. b.pos = call.p0
    BY <1>7, BBehind DEF Sound
  <1> QED BY <1>5, <1>6, <1>7, <1>8

(* Stage A's rows stay those of the decode stage and of the ring. *)
LEMMA CopiesA == ASSUME IInv, StageA \/ StageAHost, InCall PROVE Copies'
  <1>0. Shapes /\ Phases /\ Copies
    BY DEF IInv
  <1>1. UNCHANGED <<pc, call, released, b, early, aux>> /\ apc # "idle"
    BY AFrame
  <1>2. SUFFICES ASSUME Sound' PROVE Copies'
    BY DEF Copies
  <1>3. /\ Sound /\ apc' # "catch" /\ berr = "none" /\ ~poisoned
        /\ ~early /\ aux = "idle" /\ pc \notin {"fence", "join"} /\ bulk # call.id
        /\ ASync \/ ACompute \/ AFill \/ AExport \/ AcquireFree \/ Publish \/ PublishBulk
    BY <1>2, SoundA
  <1>4. /\ Filled \in Nat /\ Filled' \in Nat /\ released \in Nat /\ published \in Nat
        /\ ~AFill => UNCHANGED slots
        /\ AFill => Filled = published /\ Filled' = published + 1
    BY FilledA, ACounts
  <1>5. \A n : Upto(n)' = Upto(n)
    BY <1>1 DEF ChunkPos, Upto, End
  <1>6. /\ b.win = <<>>
        /\ apc # "sync" => \A r \in 1..b.pos : a.kv[r] = b.kv[r]
        /\ \A n \in released .. Filled - 1 : \A r \in 1..Upto(n + 1) : slots[SlotOf(n)].kv[r] = a.kv[r]
        /\ apc = "bulk" => hand = a.gdn
    BY <1>0, <1>3 DEF Copies
  <1>7. SUFFICES /\ apc' # "sync"
                 /\ \A r \in 1..b.pos : a'.kv[r] = b.kv[r]
                 /\ \A n \in released .. Filled' - 1 : \A r \in 1..Upto(n + 1) : slots'[SlotOf(n)].kv[r] = a'.kv[r]
                 /\ apc' = "bulk" \/ bulk' = call.id => hand' = a'.gdn
    BY <1>1, <1>3, <1>5, <1>6 DEF Copies
  <1>8. CASE ASync
    <2>1. apc' = "compute" /\ UNCHANGED <<hand, published, bulk>> /\ apc = "sync"
      BY <1>8 DEF ASync, AGo, bufVars, chVars
    <2>2. \A r \in 1..call.p0 : a'.kv[r] = b.kv[r]
      BY <1>3, <1>8, SyncFacts
    <2>3. b.pos = call.p0 /\ published = 0
      BY <1>3, <1>8, SyncFacts
    <2>4. Filled' = 0
      BY <2>1, <2>3 DEF Filled
    <2> QED BY <1>3, <1>4, <2>1, <2>2, <2>3, <2>4
  <1>9. CASE ACompute
    <2>1. apc' = "acquire" /\ UNCHANGED <<hand, published, bulk, slots>> /\ apc = "compute"
      BY <1>9 DEF ACompute, AGo, bufVars, chVars
    <2>2. \A r \in Rows : r <= a.pos => a'.kv[r] = a.kv[r]
      <3>1. a'.kv = WriteRows(a.kv, a.pos, ARows, Extend(a, a.gdn, Tokens(call.id, ARows)))
        BY <1>0, <1>9, TypesOfA DEF ACompute, AStates
      <3> QED BY <1>0, <2>1, <3>1, ComputeFacts
    <2>3. a.pos = Upto(published) /\ a.pos \in Nat /\ a.pos <= MaxPos /\ MaxPos \in Nat /\ b.pos \in Nat /\ b.pos <= a.pos
      <3>1. a.pos = Upto(published)
        BY <2>1, ACounts
      <3>2. b.pos <= Upto(published)
        BY <1>3, BBehind
      <3>3. a.pos \in Nat /\ MaxPos \in Nat /\ b.pos \in Nat
        BY <1>0, TypesOfA
      <3>4. a.pos <= MaxPos
        <4>1. a \in AStates
          BY <1>0, TypesOfA
        <4>2. a.pos \in 0..MaxPos
          BY <4>1 DEF AStates
        <4> QED BY <3>3, <4>2
      <3> QED BY <3>1, <3>2, <3>3, <3>4
    <2>4. \A r \in 1..b.pos : a'.kv[r] = b.kv[r]
      <3>1. \A r \in 1..b.pos : r \in Rows /\ r <= a.pos
        BY <2>3 DEF Rows
      <3> QED BY <1>6, <2>1, <2>2, <3>1
    <2>5. ASSUME NEW n \in released .. Filled' - 1, NEW r \in 1..Upto(n + 1)
          PROVE  slots'[SlotOf(n)].kv[r] = a'.kv[r]
      <3>1. Filled' = published /\ Filled = published
        BY <2>1 DEF Filled
      <3>2. n \in Nat /\ n < published /\ n + 1 <= published
        BY <1>4, <3>1
      <3>3. Upto(n + 1) <= a.pos /\ Upto(n + 1) \in Nat
        <4>1. Upto(n + 1) <= Upto(published) /\ Upto(n + 1) \in Nat
          <5>1. n + 1 \in Nat
            BY <3>2
          <5> QED BY <1>0, <1>4, <3>2, <5>1, TypesOfA, ChunksGrow, Chunks
        <4> QED BY <2>3, <4>1
      <3>4. r \in Rows /\ r <= a.pos
        BY <2>3, <3>3 DEF Rows
      <3> QED BY <1>6, <2>1, <2>2, <3>1, <3>4
    <2> QED BY <1>3, <2>1, <2>4, <2>5
  <1>10. CASE AFill
    <2>1. apc' = "publish" /\ UNCHANGED <<hand, published, bulk, a>> /\ apc = "fill"
      BY <1>10 DEF AFill, AGo, bufVars
    <2>2. ASSUME NEW n \in released .. Filled' - 1, NEW r \in 1..Upto(n + 1)
          PROVE  slots'[SlotOf(n)].kv[r] = a'.kv[r]
      <3>1. CASE n = published
        <4>1. slots'[SlotOf(n)].kv = a.kv
          BY <1>10, <3>1, FillFacts
        <4> QED BY <2>1, <4>1
      <3>2. CASE n # published
        <4>1. n \in released .. published - 1 /\ n \in released .. Filled - 1
          BY <1>4, <1>10, <3>2
        <4>2. slots'[SlotOf(n)] = slots[SlotOf(n)]
          BY <1>10, <4>1, FillFacts
        <4> QED BY <1>6, <2>1, <4>1, <4>2
      <3> QED BY <3>1, <3>2
    <2> QED BY <1>3, <1>6, <2>1, <2>2
  <1>11. CASE AExport \/ AcquireFree \/ Publish \/ PublishBulk
    <2>1. /\ apc # "sync" /\ apc' # "sync" /\ a'.kv = a.kv /\ a'.gdn = a.gdn /\ ~AFill
          /\ apc' = "bulk" \/ bulk' = call.id => hand' = a'.gdn
      <3>1. CASE AExport
        BY <1>3, <3>1 DEF AExport, AGo, chVars, AFill
      <3>2. CASE AcquireFree
        BY <1>3, <3>2 DEF AcquireFree, AGo, AFill
      <3>3. CASE Publish
        BY <1>0, <1>3, <3>3, TypesOfA DEF Publish, AGo, AFill, AStates
      <3>4. CASE PublishBulk
        BY <1>3, <1>6, <3>4 DEF PublishBulk, AGo, AFill, bufVars
      <3> QED BY <1>11, <3>1, <3>2, <3>3, <3>4
    <2>2. \A n \in released .. Filled' - 1 : n \in released .. Filled - 1
      BY <2>1, FilledA
    <2> QED BY <1>4, <1>6, <2>1, <2>2
  <1> QED BY <1>3, <1>8, <1>9, <1>10, <1>11

(* The history of the call, by the numbers stage A counts with. *)
LEMMA CallHistory ==
  ASSUME IInv, InCall
  PROVE  /\ truth \in Feeds /\ call.id \in Nat \ {0} /\ call.p0 = Len(truth) /\ call.p0 \in Nat
         /\ History(call.p0) = truth
         /\ \A r \in 0 .. call.p0 : SubSeq(History(call.p0), 1, r) = SubSeq(truth, 1, r)
  <1>0. Shapes /\ Phases /\ Counts
    BY DEF IInv
  <1>1. truth \in Feeds /\ call.id \in Nat \ {0} /\ call.p0 = Len(truth) /\ call.p0 \in Nat
    BY <1>0, TypesOfA DEF Phases, Counts
  <1>2. History(call.p0) = truth
    BY <1>1, HistoryStart
  <1> QED BY <1>1, <1>2

(* Stage A stays on the history of the call. *)
LEMMA ExactA == ASSUME IInv, StageA \/ StageAHost, InCall PROVE Exact'
  <1>0. Shapes /\ Phases /\ Exact /\ Counts
    BY DEF IInv
  <1>1. UNCHANGED <<pc, call, released, b, truth, dirty, ckpt>> /\ apc # "idle"
    BY AFrame
  <1>2. SUFFICES ASSUME Sound' PROVE Exact'
    BY DEF Exact
  <1>3. /\ Sound /\ apc' # "catch" /\ berr = "none"
        /\ ASync \/ ACompute \/ AFill \/ AExport \/ AcquireFree \/ Publish \/ PublishBulk
        /\ ~poisoned
    BY <1>2, SoundA
  <1>4. /\ Filled \in Nat /\ Filled' \in Nat /\ released \in Nat /\ published \in Nat /\ a.pos \in Nat /\ End \in Nat
        /\ ~AFill => \A n \in released .. Filled' - 1 : n \in released .. Filled - 1
        /\ ~AFill => UNCHANGED slots
        /\ AFill => Filled = published /\ Filled' = published + 1
    BY FilledA, ACounts
  <1>5. (\A n : Upto(n)' = Upto(n)) /\ \A k : History(k)' = History(k)
    BY <1>1 DEF ChunkPos, Upto, End, History
  <1>6. /\ CkptIsTrue /\ (dirty => b.hi = Bad)
        /\ ~dirty =>
             /\ b.hi = History(b.pos)
             /\ apc = "sync" => b.gdn = truth /\ IsTruth(b.kv, call.p0)
             /\ apc # "sync" => /\ a.gdn = History(Computed)
                                /\ \A r \in 1..Computed : a.kv[r] = SubSeq(History(Computed), 1, r)
             /\ \A n \in released .. Filled - 1 : slots[SlotOf(n)].carry = History(Upto(n + 1))
    BY <1>0, <1>3 DEF Exact
  <1>7. SUFFICES ASSUME ~dirty
                 PROVE  /\ apc' # "sync"
                        /\ a'.gdn = History(Computed')
                        /\ \A r \in 1..Computed' : a'.kv[r] = SubSeq(History(Computed'), 1, r)
                        /\ \A n \in released .. Filled' - 1 : slots'[SlotOf(n)].carry = History(Upto(n + 1))
    <2>1. CkptIsTrue'
      BY <1>1, <1>6 DEF CkptIsTrue, IsTruth
    <2>2. \A n : History(Upto(n))' = History(Upto(n))
      BY <1>1 DEF ChunkPos, Upto, End, History
    <2>3. History(Computed)' = History(Computed')
      BY <1>1 DEF History
    <2>4. b'.hi = History(b.pos)' \/ dirty
      BY <1>1, <1>6 DEF History
    <2> QED BY <1>1, <1>6, <2>1, <2>2, <2>3, <2>4 DEF Exact
  <1>8. CASE ASync
    <2>1. apc' = "compute" /\ UNCHANGED <<hand, published, bulk>> /\ apc = "sync"
      BY <1>8 DEF ASync, AGo, bufVars, chVars
    <2>2. /\ a'.pos = call.p0 /\ a'.gdn = b.gdn /\ \A r \in 1..call.p0 : a'.kv[r] = b.kv[r]
          /\ published = 0
      BY <1>3, <1>8, SyncFacts
    <2>3. Filled' = 0 /\ Computed' = call.p0
      BY <2>1, <2>2 DEF Filled, Computed
    <2>4. b.gdn = truth /\ \A r \in 1..call.p0 : b.kv[r] = SubSeq(truth, 1, r)
      BY <1>6, <1>7, <2>1 DEF IsTruth
    <2> QED BY <1>4, <2>1, <2>2, <2>3, <2>4, CallHistory
  <1>9. CASE ACompute
    <2>1. apc' = "acquire" /\ UNCHANGED <<published, slots>> /\ apc = "compute"
      BY <1>9 DEF ACompute, AGo, chVars
    <2>2. /\ a.pos = Upto(published) /\ a.pos + ARows = Upto(published + 1) /\ ARows \in Nat \ {0}
          /\ a.pos < End
      BY <2>1, ACounts
    <2>3. Computed = a.pos /\ Computed' = a.pos + ARows /\ Filled' = published /\ Filled = published
      <3>1. Computed' = Upto(published + 1)' /\ Upto(published + 1)' = Upto(published + 1)
        BY <1>1, <2>1 DEF Computed, Upto, ChunkPos, End
      <3> QED BY <2>1, <2>2, <3>1 DEF Computed, Filled
    <2>4. call.p0 <= a.pos /\ a.pos + ARows <= MaxPos /\ MaxPos \in Nat
      <3>1. call.p0 <= Upto(published)
        BY <1>0, <1>4, TypesOfA, Chunks
      <3>2. Upto(published + 1) <= End
        BY <1>0, <1>4, TypesOfA, Chunks
      <3>3. End <= MaxPos /\ MaxPos \in Nat
        BY <1>0, TypesOfA DEF Counts
      <3> QED BY <1>4, <2>2, <3>1, <3>2, <3>3
    <2>5. /\ History(a.pos) \in Feeds /\ Len(History(a.pos)) = a.pos
          /\ History(a.pos) \o Tokens(call.id, ARows) = History(a.pos + ARows)
          /\ \A r \in 0 .. a.pos : SubSeq(History(a.pos + ARows), 1, r) = SubSeq(History(a.pos), 1, r)
      BY <1>4, <2>2, <2>4, CallHistory, HistoryFacts
    <2>6. History(a.pos + ARows) \in Feeds
      <3>1. a.pos + ARows \in Nat /\ call.p0 <= a.pos + ARows
        BY <1>4, <2>2, <2>4, CallHistory
      <3> QED BY <3>1, CallHistory, HistoryFacts
    <2>7. a.gdn = History(a.pos) /\ \A r \in 1..a.pos : a.kv[r] = SubSeq(History(a.pos), 1, r)
      BY <1>6, <1>7, <2>1, <2>3
    <2>8. Coherent(a.kv, a.gdn, a.pos)
      BY <2>5, <2>7, FeedsAreHist DEF Coherent
    <2> DEFINE h == Extend(a, a.gdn, Tokens(call.id, ARows))
               kv == WriteRows(a.kv, a.pos, ARows, h)
    <2>9. a'.gdn = h /\ a'.kv = kv
      BY <1>0, <1>9, TypesOfA DEF ACompute, AStates
    <2>10. /\ h = a.gdn \o Tokens(call.id, ARows)
           /\ \A r \in Rows : r <= a.pos => kv[r] = a.kv[r]
           /\ h # Bad => \A r \in Rows : r > a.pos /\ r <= a.pos + ARows => kv[r] = SubSeq(h, 1, r)
      BY <1>0, <2>1, <2>8, ComputeFacts
    <2> HIDE DEF h, kv
    <2>11. h = History(a.pos + ARows) /\ h # Bad
      BY <2>5, <2>6, <2>7, <2>10, FeedsAreHist
    <2>12. ASSUME NEW r \in 1 .. a.pos + ARows PROVE a'.kv[r] = SubSeq(History(a.pos + ARows), 1, r)
      <3>1. r \in Rows /\ r \in Nat
        BY <1>4, <2>2, <2>4 DEF Rows
      <3>2. CASE r <= a.pos
        <4>1. r \in 1..a.pos /\ r \in 0..a.pos
          BY <1>4, <3>1, <3>2
        <4> QED BY <2>5, <2>7, <2>9, <2>10, <3>1, <3>2, <4>1
      <3>3. CASE r > a.pos
        <4>1. r <= a.pos + ARows
          BY <1>4, <2>2
        <4> QED BY <2>9, <2>10, <2>11, <3>1, <3>3, <4>1
      <3> QED BY <1>4, <3>1, <3>2, <3>3
    <2>13. \A n \in released .. Filled' - 1 : slots'[SlotOf(n)].carry = History(Upto(n + 1))
      BY <1>6, <1>7, <2>1, <2>3
    <2> QED BY <2>1, <2>3, <2>9, <2>11, <2>12, <2>13
  <1>10. CASE AFill
    <2>1. apc' = "publish" /\ UNCHANGED <<published, a>> /\ apc = "fill"
      BY <1>10 DEF AFill, AGo
    <2>2. Computed = Upto(published + 1) /\ Computed' = Computed
      <3>1. Upto(published + 1)' = Upto(published + 1)
        BY <1>1, <2>1 DEF Upto, ChunkPos, End
      <3> QED BY <2>1, <3>1 DEF Computed
    <2>3. ASSUME NEW n \in released .. Filled' - 1 PROVE slots'[SlotOf(n)].carry = History(Upto(n + 1))
      <3>1. CASE n = published
        <4>1. slots'[SlotOf(n)].carry = a.gdn
          BY <1>10, <3>1, FillFacts
        <4>2. a.gdn = History(Computed)
          BY <1>6, <1>7, <2>1
        <4> QED BY <2>2, <3>1, <4>1, <4>2
      <3>2. CASE n # published
        <4>1. n \in released .. published - 1 /\ n \in released .. Filled - 1
          BY <1>4, <1>10, <3>2
        <4>2. slots'[SlotOf(n)] = slots[SlotOf(n)]
          BY <1>10, <4>1, FillFacts
        <4> QED BY <1>6, <1>7, <4>1, <4>2
      <3> QED BY <3>1, <3>2
    <2>4. a.gdn = History(Computed) /\ \A r \in 1..Computed : a.kv[r] = SubSeq(History(Computed), 1, r)
      BY <1>6, <1>7, <2>1
    <2> QED BY <2>1, <2>2, <2>3, <2>4
  <1>11. CASE AExport \/ AcquireFree \/ Publish \/ PublishBulk
    <2>1. /\ apc # "sync" /\ apc' # "sync" /\ a'.kv = a.kv /\ a'.gdn = a.gdn /\ ~AFill
          /\ Computed' = Computed
      <3>1. CASE AExport
        <4>1. apc = "export" /\ apc' = "bulk" /\ a' = a
          BY <3>1 DEF AExport, AGo
        <4> QED BY <4>1 DEF AFill, Computed
      <3>2. CASE AcquireFree
        <4>1. apc = "acquire" /\ apc' = "fill" /\ a' = a /\ published' = published
          BY <1>3, <3>2 DEF AcquireFree, AGo
        <4>2. Upto(published + 1)' = Upto(published + 1)
          BY <1>1, <4>1 DEF Upto, ChunkPos, End
        <4> QED BY <4>1, <4>2 DEF AFill, Computed
      <3>3. CASE Publish
        <4>1. apc = "publish" /\ apc' \in {"export", "compute"} /\ a' = [a EXCEPT !.pos = @ + ARows]
          BY <1>3, <3>3 DEF Publish, AGo
        <4>2. a'.pos = a.pos + ARows /\ a'.kv = a.kv /\ a'.gdn = a.gdn
          BY <1>0, <4>1, TypesOfA DEF AStates
        <4>3. a.pos + ARows = Upto(published + 1)
          BY <4>1, ACounts
        <4> QED BY <4>1, <4>2, <4>3 DEF AFill, Computed
      <3>4. CASE PublishBulk
        <4>1. apc = "bulk" /\ apc' = "idle" /\ a' = a
          BY <1>3, <3>4 DEF PublishBulk, AGo
        <4> QED BY <4>1 DEF AFill, Computed
      <3> QED BY <1>11, <3>1, <3>2, <3>3, <3>4
    <2> QED BY <1>4, <1>6, <1>7, <2>1
  <1> QED BY <1>3, <1>8, <1>9, <1>10, <1>11

(* Stage A's steps keep IInv. *)
LEMMA StageAStep == ASSUME IInv, StageA \/ StageAHost PROVE IInv'
  <1>1. Shapes' /\ Phases' /\ Causes' /\ Between'
    BY ShapesA, PhasesA, CausesA, BetweenA
  <1>2. CASE InCall
    BY <1>1, <1>2, CountsA, HeadersA, CopiesA, ExactA DEF IInv
  <1>3. CASE ~InCall
    <2>1. ~InCall'
      BY <1>3, AFrame DEF InCall
    <2> QED BY <1>1, <2>1, OutOfCall DEF IInv
  <1> QED BY <1>2, <1>3

-----------------------------------------------------------------------------
(* Stage B's steps.                                                        *)

BSteps == StageB \/ BFault \/ AuxLand

(* What stage B's steps leave alone. *)
LEMMA BFrame ==
  ASSUME IInv, BSteps
  PROVE  /\ UNCHANGED <<state, split, tracker, call, truth, dirty, reported, calls, ckpt, a, apc, aerr,
                        gdnSync, kvSync, hand, acquired, published, bulk, slots>>
         /\ InCall /\ InCall' /\ ~Ready' /\ pc' # "resetA"
  <1>0. Phases
    BY DEF IInv
  <1>1. /\ UNCHANGED <<state, split, tracker, call, truth, dirty, reported, calls, ckpt, a, apc, aerr,
                       gdnSync, kvSync, hand, acquired, published, bulk, slots>>
    BY DEF BSteps, StageB, AcquireFull, AcquireFullTimeout, BCheck, BLayers, Release, WaitBulk, WaitBulkTimeout,
           ImportFence, BCatch, BFault, AuxLand, facadeRest, facadeVars, aVars, bufVars, chVars
  <1>2. InCall /\ InCall'
    <2>1. CASE AuxLand
      <3>1. InCall /\ pc' = pc
        BY <1>0, <2>1 DEF Phases, AuxLand, facadeVars
      <3> QED BY <3>1 DEF InCall
    <2>2. CASE StageB \/ BFault
      BY <2>2 DEF StageB, AcquireFull, AcquireFullTimeout, BCheck, BLayers, Release, WaitBulk, WaitBulkTimeout,
           ImportFence, BCatch, BFault, BGo, BThrow, InCall, CallPlaces
    <2> QED BY <2>1, <2>2 DEF BSteps
  <1> QED BY <1>1, <1>2 DEF InCall, CallPlaces, Ready

BThrown ==
  /\ pc \in {"acquire", "check", "layers", "bulk"} /\ pc' = "catch"
  /\ berr' \in {"error", "timeout", "poisoned", "disagree"}
  /\ berr' = "timeout" => ~poisoned
  /\ berr' = "poisoned" => poisoned
  /\ berr' = "disagree" => BCheck
  /\ UNCHANGED <<b, early, aux, taken, released, poisoned>>
Checked ==
  /\ pc = "check" /\ pc' = "layers" /\ berr' = berr
  /\ \/ UNCHANGED <<early, aux>>
     \/ early' = TRUE /\ aux' = "copying" /\ bulk = call.id
  /\ UNCHANGED <<b, taken, released, poisoned>>

(* The header of a slot that stage A filled is the chunk B waits for. *)
LEMMA Agree ==
  ASSUME IInv, pc = "check"
  PROVE  BSlot.pos = b.pos /\ BSlot.rows = BRows /\ BSlot.last = BLast
  <1>0. Shapes /\ Counts /\ Headers /\ InCall
    BY DEF IInv, InCall, CallPlaces
  <1>1. taken = released + 1 /\ b.pos = ChunkPos(released) /\ b.pos < End /\ taken <= published
    BY <1>0 DEF Counts
  <1>2. released \in Nat /\ published \in Nat /\ b.pos \in Nat /\ End \in Nat /\ call \in Commands
    BY <1>0, TypesOfA
  <1>3. released \in released .. Filled - 1 /\ taken - 1 = released
    BY <1>1, <1>2 DEF Filled
  <1> DEFINE s == slots[SlotOf(released)]
  <1>4. /\ s.pos = ChunkPos(released) /\ s.pos + s.rows = Upto(released + 1)
        /\ s.last = (s.pos + s.rows = End)
    BY <1>0, <1>3 DEF Headers
  <1>5. BSlot = s
    BY <1>3 DEF BSlot
  <1>6. s \in SlotValues
    <2>1. slots \in [0 .. Slots - 1 -> SlotValues]
      BY <1>0 DEF Shapes
    <2> QED BY <1>2, <2>1, SlotInRange
  <1> HIDE DEF s
  <1>7. s.pos \in Nat /\ s.rows \in Nat
    BY <1>6 DEF SlotValues
  <1>8. BRows \in Nat /\ b.pos + BRows = Min2(b.pos + ChunkRows, End)
    BY <1>1, <1>2, BChunk
  <1>9. b.pos + BRows = Upto(released + 1)
    <2>1. ChunkPos(released + 1) = b.pos + ChunkRows
      BY <1>1, <1>2, Chunks
    <2> QED BY <1>8, <2>1 DEF Upto
  <1>10. s.rows = BRows
    BY <1>1, <1>2, <1>4, <1>7, <1>8, <1>9
  <1>11. s.last = BLast
    BY <1>1, <1>4, <1>10 DEF BLast, End
  <1> QED BY <1>1, <1>4, <1>5, <1>10, <1>11

(* The steps of stage B, by what they do to its place. *)
LEMMA BKinds ==
  ASSUME IInv, BSteps
  PROVE  \/ BThrown
         \/ BCatch \/ BLayers \/ Release \/ ImportFence \/ AuxLand \/ Checked
         \/ AcquireFull /\ ~poisoned
         \/ WaitBulk /\ ~poisoned
  <1> USE DEF facadeRest, aVars, bufVars, chVars, BGo, BThrow
  <1>1. CASE AcquireFull
    BY <1>1 DEF AcquireFull, BThrown
  <1>2. CASE AcquireFullTimeout
    BY <1>2 DEF AcquireFullTimeout, BThrown
  <1>3. CASE BCheck
    <2>1. PICK sameSize \in IF split.a = split.b THEN {TRUE} ELSE BOOLEAN :
            LET agree == BSlot.pos = b.pos /\ BSlot.rows = BRows /\ BSlot.last = BLast /\ sameSize
            IN /\ IF ~agree THEN BThrow("disagree")
                  ELSE IF BLast /\ poisoned THEN BThrow("poisoned") ELSE BGo("layers")
               /\ IF agree /\ BLast /\ ~poisoned /\ bulk = call.id
                    THEN early' = TRUE /\ aux' = "copying" ELSE UNCHANGED <<early, aux>>
      BY <1>3 DEF BCheck
    <2> DEFINE agree == BSlot.pos = b.pos /\ BSlot.rows = BRows /\ BSlot.last = BLast /\ sameSize
    <2>2. /\ IF ~agree THEN BThrow("disagree")
             ELSE IF BLast /\ poisoned THEN BThrow("poisoned") ELSE BGo("layers")
          /\ IF agree /\ BLast /\ ~poisoned /\ bulk = call.id
               THEN early' = TRUE /\ aux' = "copying" ELSE UNCHANGED <<early, aux>>
      BY <2>1
    <2> HIDE DEF agree
    <2>3. pc = "check" /\ UNCHANGED <<b, taken, released, poisoned>>
      BY <1>3 DEF BCheck
    <2>4. CASE ~agree
      BY <1>3, <2>2, <2>3, <2>4 DEF BThrown
    <2>5. CASE agree /\ BLast /\ poisoned
      BY <2>2, <2>3, <2>5 DEF BThrown
    <2>6. CASE agree /\ ~(BLast /\ poisoned)
      BY <2>2, <2>3, <2>6 DEF Checked
    <2> QED BY <2>4, <2>5, <2>6
  <1>4. CASE WaitBulk
    BY <1>4 DEF WaitBulk, BThrown
  <1>5. CASE WaitBulkTimeout
    BY <1>5 DEF WaitBulkTimeout, BThrown
  <1>6. CASE BFault
    BY <1>6 DEF BFault, BThrown
  <1> QED BY <1>1, <1>2, <1>3, <1>4, <1>5, <1>6 DEF BSteps, StageB

(* A disagreement needs stages that do not run the facade's split. *)
LEMMA NoDisagreement ==
  ASSUME IInv, BCheck, berr' = "disagree", pc' = "catch"
  PROVE  ~Aligned
  <1>1. pc = "check" /\ (berr # "disagree" \/ ~Aligned)
    <2>1. Causes
      BY DEF IInv
    <2> QED BY <2>1 DEF BCheck, Causes, InCall, CallPlaces
  <1>2. BSlot.pos = b.pos /\ BSlot.rows = BRows /\ BSlot.last = BLast
    BY Agree DEF BCheck
  <1>3. ASSUME Aligned PROVE FALSE
    <2>1. split.a = split.b
      BY <1>3 DEF Aligned
    <2>2. (IF split.a = split.b THEN {TRUE} ELSE BOOLEAN) = {TRUE}
      BY <2>1
    <2> QED BY <1>1, <1>2, <1>3, <2>2 DEF BCheck, BThrow, BGo
  <1> QED BY <1>3

(* Stage B stays within the call. *)
LEMMA PhasesB == ASSUME IInv, BSteps PROVE Phases'
  <1>0. Shapes /\ Phases
    BY DEF IInv
  <1>1. /\ UNCHANGED <<state, call, truth, ckpt, a, apc>> /\ InCall /\ InCall' /\ ~Ready'
    BY BFrame
  <1>2. pc' \notin {"idle", "resetA", "splitA", "splitC", "closing", "closed", "exited"}
    BY <1>1 DEF InCall, CallPlaces
  <1>3. aux' = "copying" => pc' # "join"
    <2>1. aux = "copying" => pc # "join"
      BY <1>0 DEF Phases
    <2> QED BY <2>1, BKinds DEF BThrown, Checked, BCatch, BLayers, Release, ImportFence, AuxLand, AcquireFull, WaitBulk,
                                BGo, facadeVars
  <1> QED BY <1>0, <1>1, <1>2, <1>3 DEF Phases, End

(* A poison that B leaves has B's error as its cause. *)
LEMMA CausesB == ASSUME IInv, BSteps PROVE Causes'
  <1>0. Shapes /\ Phases /\ Causes
    BY DEF IInv
  <1>1. /\ UNCHANGED <<split, reported, apc, aerr>> /\ InCall /\ InCall' /\ Aligned' = Aligned
    BY BFrame DEF Aligned
  <1>2. /\ reported # "poisoned" /\ reported # "begin" /\ (reported = "disagree" => ~Aligned /\ apc # "attach")
        /\ apc \in ACallPlaces => (apc = "catch" <=> aerr # "none")
        /\ pc \in CallPlaces \ {"fence", "join"} => (pc = "catch" <=> berr # "none")
        /\ poisoned => \/ aerr \notin {"none", "poisoned"} /\ apc = "idle"
                       \/ berr \notin {"none", "poisoned"} /\ pc \in {"fence", "join"}
        /\ aerr = "poisoned" => berr \notin {"none", "poisoned"} /\ pc \in {"fence", "join"}
        /\ berr = "poisoned" => aerr \notin {"none", "poisoned"} /\ apc = "idle"
        /\ berr = "disagree" => ~Aligned
        /\ berr # "begin"
    BY <1>0, <1>1 DEF Causes
  <1>3. pc' \notin {"splitA", "splitC"}
    BY <1>1 DEF InCall, CallPlaces
  <1>4. SUFFICES /\ pc' \in CallPlaces \ {"fence", "join"} => (pc' = "catch" <=> berr' # "none")
                 /\ poisoned' => \/ aerr \notin {"none", "poisoned"} /\ apc = "idle"
                                 \/ berr' \notin {"none", "poisoned"} /\ pc' \in {"fence", "join"}
                 /\ aerr = "poisoned" => berr' \notin {"none", "poisoned"} /\ pc' \in {"fence", "join"}
                 /\ berr' = "poisoned" => aerr \notin {"none", "poisoned"} /\ apc = "idle"
                 /\ berr' = "disagree" => ~Aligned
                 /\ berr' # "begin"
    BY <1>1, <1>2, <1>3 DEF Causes
  <1>5. CASE BThrown
    <2>1. berr' = "disagree" => ~Aligned
      BY <1>5, NoDisagreement DEF BThrown
    <2> QED BY <1>2, <1>5, <2>1 DEF BThrown
  <1>6. CASE BCatch
    <2>1. pc = "catch" /\ pc' = "fence" /\ berr' = berr
      BY <1>6 DEF BCatch, BGo
    <2>2. berr # "none"
      BY <1>2, <2>1 DEF CallPlaces
    <2> QED BY <1>2, <2>1, <2>2
  <1>7. CASE ImportFence \/ AuxLand
    BY <1>2, <1>7 DEF ImportFence, AuxLand, BGo, chVars, facadeVars
  <1>8. CASE BLayers \/ Release \/ Checked \/ (AcquireFull /\ ~poisoned) \/ (WaitBulk /\ ~poisoned)
    <2>1. /\ pc \in {"layers", "release", "check", "acquire", "bulk"} /\ pc' # "catch" /\ berr' = berr
          /\ poisoned' = poisoned
      BY <1>8 DEF BLayers, Release, Checked, AcquireFull, WaitBulk, BGo, chVars
    <2>2. berr = "none"
      BY <1>2, <2>1 DEF CallPlaces
    <2> QED BY <1>2, <2>1, <2>2
  <1> QED BY <1>5, <1>6, <1>7, <1>8, BKinds

(* Stage B's place and the ring's counters stay in step. *)
LEMMA CountsB == ASSUME IInv, BSteps PROVE Counts'
  <1>0. Shapes /\ Phases /\ Counts /\ Causes
    BY DEF IInv
  <1>1. /\ UNCHANGED <<call, calls, a, apc, aerr, acquired, published, bulk>> /\ InCall /\ InCall'
    BY BFrame
  <1>2. (\A n : ChunkPos(n)' = ChunkPos(n) /\ Upto(n)' = Upto(n)) /\ End' = End
    BY <1>1 DEF ChunkPos, Upto, End
  <1>3. /\ acquired \in Nat /\ published \in Nat /\ taken \in Nat /\ released \in Nat /\ Slots \in Nat
        /\ released <= taken /\ taken <= published /\ published <= acquired /\ acquired - released <= Slots
        /\ b.pos \in Nat /\ End \in Nat /\ call \in Commands
    BY <1>0, <1>1, TypesOfA, Constants DEF Counts
  <1>4. /\ pc = "acquire" => taken = released /\ b.pos = ChunkPos(taken) /\ b.pos < End
        /\ pc \in {"check", "layers"} => taken = released + 1 /\ b.pos = ChunkPos(released) /\ b.pos < End
        /\ pc = "release" => taken = released + 1 /\ b.pos = Upto(taken)
        /\ pc = "bulk" \/ (pc \in {"fence", "join"} /\ berr = "none") =>
             taken = released /\ b.pos = End /\ End <= ChunkPos(taken)
        /\ (early \/ aux = "copying" \/ pc \in {"fence", "join"}) /\ berr = "none" => bulk = call.id
    BY <1>0, <1>1 DEF Counts
  <1>5. pc \in CallPlaces \ {"fence", "join"} => (pc = "catch" <=> berr # "none")
    BY <1>0, <1>1 DEF Causes
  <1>6. SUFFICES /\ released' <= taken' /\ taken' <= published /\ acquired - released' <= Slots
                 /\ pc' = "acquire" => taken' = released' /\ b'.pos = ChunkPos(taken') /\ b'.pos < End
                 /\ pc' \in {"check", "layers"} => taken' = released' + 1 /\ b'.pos = ChunkPos(released') /\ b'.pos < End
                 /\ pc' = "release" => taken' = released' + 1 /\ b'.pos = Upto(taken')
                 /\ pc' = "bulk" \/ (pc' \in {"fence", "join"} /\ berr' = "none") =>
                      taken' = released' /\ b'.pos = End /\ End <= ChunkPos(taken')
                 /\ (early' \/ aux' = "copying" \/ pc' \in {"fence", "join"}) /\ berr' = "none" => bulk = call.id
    <2>1. /\ ChunkPos(taken)' = ChunkPos(taken') /\ ChunkPos(released)' = ChunkPos(released') /\ Upto(taken)' = Upto(taken')
          /\ ChunkPos(published)' = ChunkPos(published) /\ ChunkPos(published - 1)' = ChunkPos(published - 1)
      BY <1>1 DEF ChunkPos, Upto, End
    <2>2. /\ call.id = calls /\ calls > 0 /\ call.rows > 0 /\ call.row0 <= call.p0 /\ End <= MaxPos
          /\ published <= acquired
          /\ published > 0 => ChunkPos(published - 1) < End
          /\ apc \in {"sync", "compute", "acquire", "export", "bulk"} => acquired = published
          /\ apc \in {"fill", "publish"} => acquired = published + 1
          /\ apc = "sync" => published = 0
          /\ apc \in {"compute", "acquire", "fill", "publish"} => a.pos = ChunkPos(published) /\ a.pos < End
          /\ apc \in {"export", "bulk"} => a.pos = End /\ End <= ChunkPos(published)
          /\ apc = "idle" /\ aerr = "none" => a.pos = End /\ End <= ChunkPos(published)
                                               /\ acquired = published
          /\ bulk = call.id => apc = "idle" /\ aerr = "none"
      BY <1>0, <1>1 DEF Counts
    <2> QED BY <1>1, <1>2, <2>1, <2>2 DEF Counts
  <1>7. CASE BThrown
    BY <1>3, <1>7 DEF BThrown
  <1>8. CASE BCatch
    <2>1. pc = "catch" /\ pc' = "fence" /\ UNCHANGED <<berr, taken, released>>
      BY <1>8 DEF BCatch, BGo
    <2>2. berr' # "none"
      BY <1>5, <2>1 DEF CallPlaces
    <2> QED BY <1>3, <2>1, <2>2
  <1>9. CASE Checked
    BY <1>3, <1>4, <1>5, <1>9 DEF Checked, CallPlaces
  <1>10. CASE BLayers
    <2>1. /\ pc = "layers" /\ pc' = "release" /\ UNCHANGED <<berr, early, aux, taken, released>>
      BY <1>10 DEF BLayers, BGo, chVars
    <2>2. /\ b'.pos = Min2(b.pos + ChunkRows, End) /\ taken = released + 1 /\ b.pos = ChunkPos(released)
      BY <1>10, LayersFacts
    <2>3. b'.pos = Upto(taken)
      <3>1. ChunkPos(released + 1) = b.pos + ChunkRows
        BY <1>3, <2>2, Chunks
      <3> QED BY <2>2, <3>1 DEF Upto
    <2> QED BY <1>3, <1>4, <2>1, <2>2, <2>3
  <1>11. CASE Release
    <2>1. /\ pc = "release" /\ released' = released + 1 /\ UNCHANGED <<b, berr, early, aux, taken>>
          /\ pc' = IF b.pos < End THEN "acquire" ELSE IF early THEN "fence" ELSE "bulk"
      BY <1>11 DEF Release, BGo, End
    <2>2. taken = released + 1 /\ b.pos = Upto(taken)
      BY <1>4, <2>1
    <2>3. /\ Upto(taken) = ChunkPos(taken) \/ Upto(taken) = End
          /\ Upto(taken) <= End /\ Upto(taken) <= ChunkPos(taken) /\ ChunkPos(taken) \in Nat
      BY <1>3, Chunks
    <2>4. berr = "none"
      BY <1>5, <2>1 DEF CallPlaces
    <2> QED BY <1>3, <1>4, <2>1, <2>2, <2>3, <2>4
  <1>12. CASE ImportFence
    BY <1>3, <1>4, <1>12 DEF ImportFence, BGo, chVars
  <1>13. CASE AuxLand
    <2>1. UNCHANGED <<pc, berr, early, taken, released>> /\ aux' = "idle" /\ b'.pos = b.pos
      <3>1. b \in BStates
        BY <1>0, TypesOfA
      <3> QED BY <1>13, <3>1 DEF AuxLand, facadeVars, chVars, BStates
    <2> QED BY <1>3, <1>4, <2>1
  <1>14. CASE AcquireFull /\ ~poisoned
    <2>1. /\ pc = "acquire" /\ pc' = "check" /\ taken' = taken + 1 /\ FullReady
          /\ UNCHANGED <<b, berr, early, aux, released>>
      BY <1>14 DEF AcquireFull, BGo
    <2>2. taken' <= published
      BY <1>3, <2>1 DEF FullReady
    <2> QED BY <1>3, <1>4, <2>1, <2>2
  <1>15. CASE WaitBulk /\ ~poisoned
    <2>1. /\ pc = "bulk" /\ pc' = "fence" /\ bulk = call.id /\ UNCHANGED <<b, berr, early, taken, released>>
      BY <1>15 DEF WaitBulk, BGo, chVars
    <2> QED BY <1>3, <1>4, <2>1
  <1> QED BY <1>7, <1>8, <1>9, <1>10, <1>11, <1>12, <1>13, <1>14, <1>15, BKinds

(* A release gives no slot away that is still to be read. *)
LEMMA HeadersB == ASSUME IInv, BSteps PROVE Headers'
  <1>0. Shapes /\ Headers
    BY DEF IInv
  <1>1. /\ UNCHANGED <<call, apc, published, slots>> /\ InCall
    BY BFrame
  <1>2. released' \in {released, released + 1} /\ released \in Nat /\ published \in Nat
    <2>1. released' \in {released, released + 1}
      BY BKinds DEF BThrown, Checked, BCatch, BLayers, Release, ImportFence, AuxLand, AcquireFull, WaitBulk, chVars
    <2> QED BY <1>0, <2>1, TypesOfA
  <1>3. Filled' = Filled /\ Filled \in Nat
    BY <1>1, <1>2 DEF Filled
  <1>4. (\A n : ChunkPos(n)' = ChunkPos(n) /\ Upto(n)' = Upto(n)) /\ End' = End
    BY <1>1 DEF ChunkPos, Upto, End
  <1>5. \A n \in released' .. Filled - 1 : n \in released .. Filled - 1
    BY <1>2, <1>3
  <1> QED BY <1>0, <1>1, <1>3, <1>4, <1>5 DEF Headers

(* The chunk of a sound call leaves B's rows as they were, and brings      *)
(* stage A's.                                                              *)
LEMMA LayersCopy ==
  ASSUME IInv, BLayers, Sound
  PROVE  /\ apc # "sync"
         /\ \A r \in 1..b'.pos : b'.kv[r] = a.kv[r]
         /\ \A r \in 1..b.pos : b'.kv[r] = b.kv[r]
         /\ b.pos \in Nat /\ b'.pos \in Nat /\ b.pos <= b'.pos /\ b'.pos <= MaxPos
         /\ released \in released .. Filled - 1 /\ BSlot = slots[SlotOf(released)] /\ b'.pos = Upto(released + 1)
  <1>0. Shapes /\ Counts /\ Copies /\ InCall /\ pc = "layers"
    BY DEF IInv, BLayers, InCall, CallPlaces
  <1>1. /\ b'.pos = b.pos + BRows /\ b'.kv = Overlay(b.kv, BSlot.kv, b.pos, BRows)
        /\ BRows \in Nat \ {0} /\ b.pos + BRows <= End /\ b.pos + BRows = Min2(b.pos + ChunkRows, End)
        /\ taken = released + 1 /\ b.pos = ChunkPos(released) /\ SlotOf(taken - 1) = SlotOf(released)
    BY LayersFacts
  <1>2. /\ released \in Nat /\ published \in Nat /\ taken <= published /\ b.pos \in Nat /\ End \in Nat /\ MaxPos \in Nat
        /\ End <= MaxPos /\ call \in Commands
    BY <1>0, TypesOfA DEF Counts
  <1>3. apc # "sync" /\ released \in released .. Filled - 1
    <2>1. apc = "sync" => published = 0
      BY <1>0 DEF Counts
    <2> QED BY <1>1, <1>2, <2>1 DEF Filled
  <1>4. b'.pos = Upto(released + 1)
    <2>1. ChunkPos(released + 1) = b.pos + ChunkRows
      BY <1>1, <1>2, Chunks
    <2> QED BY <1>1, <2>1 DEF Upto
  <1>5. BSlot = slots[SlotOf(released)]
    BY <1>1 DEF BSlot
  <1>6. /\ \A r \in 1..b.pos : a.kv[r] = b.kv[r]
        /\ \A r \in 1..b'.pos : BSlot.kv[r] = a.kv[r]
    BY <1>0, <1>3, <1>4, <1>5 DEF Copies
  <1>7. b'.pos \in Nat /\ b.pos <= b'.pos /\ b'.pos <= MaxPos
    BY <1>1, <1>2
  <1>8. ASSUME NEW r \in 1..b'.pos PROVE b'.kv[r] = a.kv[r]
    <2>1. r \in Rows /\ r \in Nat
      BY <1>2, <1>7 DEF Rows
    <2>2. b'.kv[r] = IF r \in BlockRows(b.pos, BRows) THEN BSlot.kv[r] ELSE b.kv[r]
      BY <1>1, <2>1 DEF Overlay
    <2>3. r \notin BlockRows(b.pos, BRows) => r \in 1..b.pos
      <3>1. r > b.pos => r \in b.pos + 1 .. b.pos + BRows
        BY <1>1, <1>2, <2>1
      <3>2. r > b.pos => r \in BlockRows(b.pos, BRows)
        BY <1>1, <1>2, <3>1, BlockSpan
      <3> QED BY <1>2, <2>1, <3>2
    <2> QED BY <1>6, <2>2, <2>3
  <1>9. ASSUME NEW r \in 1..b.pos PROVE b'.kv[r] = b.kv[r]
    <2>1. r \in 1..b'.pos
      BY <1>2, <1>7
    <2> QED BY <1>6, <1>8, <2>1
  <1> QED BY <1>2, <1>3, <1>4, <1>5, <1>7, <1>8, <1>9

(* A sound call after a step of B was sound before. *)
LEMMA SoundB ==
  ASSUME IInv, BSteps, Sound'
  PROVE  /\ Sound
         /\ \/ BLayers \/ Release \/ ImportFence \/ AuxLand \/ Checked
            \/ AcquireFull /\ ~poisoned
            \/ WaitBulk /\ ~poisoned
  <1>1. UNCHANGED <<split, aerr>> /\ InCall
    BY BFrame
  <1>2. berr' = "none" /\ Causes
    BY DEF IInv, Sound
  <1>3. ~BThrown /\ ~BCatch
    BY <1>1, <1>2 DEF BThrown, BCatch, BGo, Causes, CallPlaces
  <1>4. berr' = berr
    BY <1>3, BKinds DEF Checked, BLayers, Release, ImportFence, AuxLand, AcquireFull, WaitBulk, BGo
  <1> QED BY <1>1, <1>2, <1>3, <1>4, BKinds DEF Sound, Aligned

(* What stage B imports is what stage A holds. *)
LEMMA CopiesB == ASSUME IInv, BSteps PROVE Copies'
  <1>0. Shapes /\ Phases /\ Copies /\ Counts
    BY DEF IInv
  <1>1. /\ UNCHANGED <<call, a, apc, aerr, gdnSync, kvSync, hand, published, bulk, slots, split>> /\ InCall /\ InCall'
    BY BFrame
  <1>2. SUFFICES ASSUME Sound' PROVE Copies'
    BY DEF Copies
  <1>3. /\ Sound /\ berr = "none" /\ split.b = split.run
        /\ \/ BLayers \/ Release \/ ImportFence \/ AuxLand \/ Checked
           \/ AcquireFull /\ ~poisoned
           \/ WaitBulk /\ ~poisoned
    BY <1>2, SoundB DEF Sound, Aligned
  <1>4. /\ b.win = <<>>
        /\ apc = "sync" =>
             /\ IF call.gdn THEN gdnSync = b.gdn ELSE a.gdn = b.gdn
             /\ \A r \in 1..call.row0 : a.kv[r] = b.kv[r]
             /\ call.row0 < call.p0 =>
                  \A r \in Rows : r \in BlockRows(call.row0, call.p0 - call.row0) => kvSync[r] = b.kv[r]
        /\ apc # "sync" => \A r \in 1..b.pos : a.kv[r] = b.kv[r]
        /\ \A n \in released .. Filled - 1 : \A r \in 1..Upto(n + 1) : slots[SlotOf(n)].kv[r] = a.kv[r]
        /\ apc = "bulk" \/ bulk = call.id => hand = a.gdn
        /\ (early \/ pc \in {"fence", "join"}) /\ aux = "idle" => b.gdn = hand
    BY <1>0, <1>1, <1>3 DEF Copies
  <1>5. released \in Nat /\ published \in Nat /\ b \in BStates
    BY <1>0, TypesOfA
  <1>6. Filled' = Filled /\ Filled \in Nat
    BY <1>1, <1>5 DEF Filled
  <1>7. SUFFICES /\ b'.win = <<>> /\ released' \in {released, released + 1}
                 /\ apc = "sync" => b'.gdn = b.gdn /\ b'.kv = b.kv
                 /\ apc # "sync" => \A r \in 1..b'.pos : a.kv[r] = b'.kv[r]
                 /\ (early' \/ pc' \in {"fence", "join"}) /\ aux' = "idle" => b'.gdn = hand
    <2>1. \A n \in released' .. Filled - 1 : n \in released .. Filled - 1
      BY <1>5, <1>6, <1>7
    <2>2. \A n : Upto(n)' = Upto(n)
      BY <1>1 DEF ChunkPos, Upto, End
    <2> QED BY <1>1, <1>4, <1>6, <1>7, <2>1, <2>2 DEF Copies
  <1>8. CASE BLayers
    <2>1. b'.win = b.win /\ b'.gdn = b.gdn
      BY <1>8, LayersFacts
    <2>2. apc # "sync" /\ \A r \in 1..b'.pos : a.kv[r] = b'.kv[r]
      BY <1>3, <1>8, LayersCopy
    <2>3. pc' = "release" /\ UNCHANGED <<early, aux, released>>
      BY <1>8 DEF BLayers, BGo, chVars
    <2> QED BY <1>4, <2>1, <2>2, <2>3
  <1>9. CASE AuxLand
    <2>1. b'.win = b.win /\ b'.gdn = hand /\ b'.pos = b.pos /\ b'.kv = b.kv /\ released' = released
      BY <1>3, <1>5, <1>9 DEF AuxLand, BStates, chVars
    <2>2. apc = "idle"
      BY <1>0, <1>1, <1>3, <1>9 DEF Counts, AuxLand
    <2> QED BY <1>4, <2>1, <2>2
  <1>10. CASE Release
    <2>1. pc' \in {"acquire", "bulk"} \/ early
      BY <1>10 DEF Release, BGo
    <2>2. UNCHANGED <<b, early, aux>> /\ released' = released + 1
      BY <1>10 DEF Release
    <2> QED BY <1>4, <2>1, <2>2
  <1>11. CASE ImportFence \/ Checked
    BY <1>4, <1>11 DEF ImportFence, Checked, BGo, chVars
  <1>12. CASE (AcquireFull /\ ~poisoned) \/ (WaitBulk /\ ~poisoned)
    BY <1>4, <1>12 DEF AcquireFull, WaitBulk, BGo, chVars
  <1> QED BY <1>3, <1>8, <1>9, <1>10, <1>11, <1>12

(* Stage B stays on the history of the call. *)
LEMMA ExactB == ASSUME IInv, BSteps PROVE Exact'
  <1>0. Shapes /\ Phases /\ Exact /\ Counts
    BY DEF IInv
  <1>1. /\ UNCHANGED <<call, a, apc, aerr, truth, dirty, ckpt, published, bulk, slots, split>> /\ InCall /\ InCall'
    BY BFrame
  <1>2. SUFFICES ASSUME Sound' PROVE Exact'
    BY DEF Exact
  <1>3. /\ Sound /\ berr = "none"
        /\ \/ BLayers \/ Release \/ ImportFence \/ AuxLand \/ Checked
           \/ AcquireFull /\ ~poisoned
           \/ WaitBulk /\ ~poisoned
    BY <1>2, SoundB DEF Sound
  <1>4. /\ CkptIsTrue /\ (dirty => b.hi = Bad)
        /\ ~dirty =>
             /\ b.hi = History(b.pos)
             /\ apc = "sync" => b.gdn = truth /\ IsTruth(b.kv, call.p0)
             /\ apc # "sync" => /\ a.gdn = History(Computed)
                                /\ \A r \in 1..Computed : a.kv[r] = SubSeq(History(Computed), 1, r)
             /\ \A n \in released .. Filled - 1 : slots[SlotOf(n)].carry = History(Upto(n + 1))
    BY <1>0, <1>1, <1>3 DEF Exact
  <1>5. released \in Nat /\ published \in Nat /\ b \in BStates
    BY <1>0, TypesOfA
  <1>6. /\ Filled' = Filled /\ Filled \in Nat /\ Computed' = Computed
        /\ (\A n : Upto(n)' = Upto(n)) /\ \A k : History(k)' = History(k)
    BY <1>1, <1>5 DEF Filled, Computed, ChunkPos, Upto, End, History
  <1>7. SUFFICES /\ released' \in {released, released + 1} /\ CkptIsTrue' /\ (dirty => b'.hi = Bad)
                 /\ ~dirty => b'.hi = History(b'.pos)
                 /\ apc = "sync" => b'.gdn = b.gdn /\ b'.kv = b.kv
    <2>1. \A n \in released' .. Filled - 1 : n \in released .. Filled - 1
      BY <1>5, <1>6, <1>7
    <2>2. /\ \A n : History(Upto(n))' = History(Upto(n))
          /\ History(Computed)' = History(Computed) /\ History(b.pos)' = History(b'.pos)
      BY <1>1 DEF Computed, ChunkPos, Upto, End, History
    <2> QED BY <1>1, <1>4, <1>6, <1>7, <2>1, <2>2 DEF Exact, IsTruth
  <1>8. CASE BLayers
    <2> DEFINE toks == Tokens(call.id, BRows)
    <2>1. /\ b'.hi = IF b.hi # Bad /\ split.a = split.b /\ BSlot.carry = b.hi \o toks THEN b.hi \o toks ELSE Bad
          /\ b'.gdn = b.gdn /\ b'.pos = b.pos + BRows /\ BRows \in Nat \ {0}
      BY <1>8, LayersFacts
    <2>2. /\ apc # "sync" /\ \A r \in 1..b.pos : b'.kv[r] = b.kv[r]
          /\ b.pos \in Nat /\ b'.pos = Upto(released + 1) /\ BSlot = slots[SlotOf(released)]
          /\ released \in released .. Filled - 1
      BY <1>3, <1>8, LayersCopy
    <2>3. released' = released
      BY <1>8 DEF BLayers, chVars
    <2>4. call.p0 <= b.pos
      BY <1>1, <1>3, BBehind
    <2>5. CkptIsTrue'
      <3>1. \A r \in 1..ckpt.pos : r \in 1..b.pos
        <4>1. ckpt.pos \in -1..MaxPos /\ ckpt.pos <= Len(truth) /\ call.p0 = Len(truth) /\ call.p0 \in Nat
          BY <1>0, <1>1, TypesOfA DEF Shapes, Phases
        <4>2. ckpt.pos <= b.pos /\ ckpt.pos \in Int
          <5>1. ckpt.pos \in Int /\ ckpt.pos <= call.p0
            BY <4>1
          <5> QED BY <2>2, <2>4, <4>1, <5>1
        <4> QED BY <2>2, <4>2
      <3> QED BY <1>1, <1>4, <2>2, <3>1 DEF CkptIsTrue, IsTruth
    <2>6. dirty => b'.hi = Bad
      BY <1>4, <2>1
    <2>7. ASSUME ~dirty PROVE b'.hi = History(b'.pos)
      <3>1. b.hi = History(b.pos) /\ BSlot.carry = History(b'.pos)
        BY <1>4, <2>2, <2>7
      <3>2. History(b.pos) \in Feeds /\ History(b.pos) \o toks = History(b.pos + BRows)
        BY <1>1, <2>1, <2>2, <2>4, CallHistory, HistoryFacts
      <3>3. b.hi # Bad
        BY <3>1, <3>2, FeedsAreHist
      <3>4. split.a = split.b
        BY <1>3 DEF Sound, Aligned
      <3> QED BY <2>1, <3>1, <3>2, <3>3, <3>4
    <2> QED BY <2>2, <2>3, <2>5, <2>6, <2>7
  <1>9. CASE AuxLand
    <2>1. b'.hi = b.hi /\ b'.pos = b.pos /\ b'.kv = b.kv /\ released' = released
      BY <1>5, <1>9 DEF AuxLand, BStates, chVars
    <2>2. apc = "idle"
      BY <1>0, <1>1, <1>3, <1>9 DEF Counts, AuxLand
    <2>3. CkptIsTrue'
      BY <1>1, <1>4, <2>1 DEF CkptIsTrue, IsTruth
    <2> QED BY <1>4, <2>1, <2>2, <2>3
  <1>10. CASE Release \/ ImportFence \/ Checked \/ (AcquireFull /\ ~poisoned) \/ (WaitBulk /\ ~poisoned)
    <2>1. b' = b /\ released' \in {released, released + 1}
      BY <1>10 DEF Release, ImportFence, Checked, AcquireFull, WaitBulk, chVars
    <2>2. CkptIsTrue'
      BY <1>1, <1>4, <2>1 DEF CkptIsTrue, IsTruth
    <2> QED BY <1>4, <2>1, <2>2
  <1> QED BY <1>3, <1>8, <1>9, <1>10

(* Stage B's steps keep IInv. *)
LEMMA StageBStep == ASSUME IInv, BSteps PROVE IInv'
  <1>1. Shapes' /\ Phases' /\ Causes' /\ Counts' /\ Headers' /\ Copies' /\ Exact'
    BY ShapesB, PhasesB, CausesB, CountsB, HeadersB, CopiesB, ExactB DEF BSteps
  <1>2. Between'
    BY BFrame DEF Between
  <1> QED BY <1>1, <1>2 DEF IInv

-----------------------------------------------------------------------------
(* The end of a call.                                                      *)

(* Neither stage failed: the ring is empty, both stages are at the end.    *)
LEMMA WholeCall ==
  ASSUME IInv, pc = "join", apc = "idle", aerr = "none", berr = "none"
  PROVE  /\ ~poisoned /\ Quiescent /\ bulk = call.id /\ aux = "idle"
         /\ a.pos = End /\ b.pos = End /\ End - call.p0 = call.rows /\ call.p0 <= End
  <1>0. Shapes /\ Phases /\ Causes /\ Counts /\ InCall
    BY DEF IInv, InCall, CallPlaces
  <1>1. /\ acquired = published /\ taken = released /\ taken <= published
        /\ a.pos = End /\ b.pos = End /\ bulk = call.id
        /\ End <= ChunkPos(taken)
        /\ published > 0 => ChunkPos(published - 1) < End
    BY <1>0 DEF Counts
  <1>2. call \in Commands /\ taken \in Nat /\ published \in Nat
    BY <1>0 DEF Shapes
  <1>3. published = taken
    <2>1. SUFFICES ASSUME taken < published PROVE FALSE
      BY <1>1, <1>2
    <2>2. published - 1 \in Nat /\ taken <= published - 1 /\ published > 0
      BY <1>2, <2>1
    <2>3. /\ ChunkPos(taken) <= ChunkPos(published - 1) /\ ChunkPos(taken) \in Nat
          /\ ChunkPos(published - 1) \in Nat /\ End \in Nat
      BY <1>2, <2>2, Chunks, ChunksGrow
    <2> QED BY <1>1, <2>2, <2>3
  <1>4. ~poisoned
    BY <1>0 DEF Causes
  <1>5. aux = "idle"
    BY <1>0 DEF Phases, Shapes
  <1>6. End - call.p0 = call.rows /\ call.p0 <= End
    BY <1>2 DEF End, Commands
  <1> QED BY <1>1, <1>3, <1>4, <1>5, <1>6 DEF Quiescent

(* What a call that did not fail leaves behind is the mirror, and B holds  *)
(* the history with the call's tokens.                                     *)
LEMMA WholeBetween ==
  ASSUME IInv, pc = "join", apc = "idle", aerr = "none", berr = "none", Aligned,
         truth' = truth \o Tokens(call.id, call.rows), tracker' = AfterPipelined(b.pos),
         UNCHANGED <<split, dirty, b, ckpt, a>>
  PROVE  /\ MirrorIsTrue' /\ BIsExact' /\ CkptIsTrue'
         /\ dirty => b.hi = Bad
         /\ b.win = <<>>
  <1>0. Shapes /\ Phases /\ Copies /\ Exact /\ InCall /\ Sound
    BY DEF IInv, InCall, CallPlaces, Sound
  <1>1. /\ bulk = call.id /\ aux = "idle" /\ a.pos = End /\ b.pos = End
        /\ End - call.p0 = call.rows /\ call.p0 <= End
    BY WholeCall
  <1>2. /\ b.win = <<>> /\ b.gdn = a.gdn
        /\ \A r \in 1..b.pos : a.kv[r] = b.kv[r]
    <2>1. b.win = <<>>
      BY <1>0 DEF Copies
    <2>2. \A r \in 1..b.pos : a.kv[r] = b.kv[r]
      BY <1>0 DEF Copies
    <2>3. hand = a.gdn /\ b.gdn = hand
      BY <1>0, <1>1 DEF Copies
    <2> QED BY <2>1, <2>2, <2>3
  <1>3. LiveGdn' = b.gdn
    BY <1>2 DEF LiveGdn
  <1>4. MirrorIsTrue'
    BY <1>2, <1>3 DEF MirrorIsTrue, AfterPipelined
  <1>5. /\ CkptIsTrue /\ (dirty => b.hi = Bad)
        /\ ~dirty => /\ b.hi = History(b.pos)
                     /\ a.gdn = History(Computed)
                     /\ \A r \in 1..Computed : a.kv[r] = SubSeq(History(Computed), 1, r)
    BY <1>0 DEF Exact
  <1>6. Computed = End /\ truth' = History(End)
    BY <1>1 DEF Computed, History
  <1>7. /\ truth \in Feeds /\ call.id \in Nat \ {0} /\ call.p0 = Len(truth) /\ call.p0 \in Nat
        /\ Tokens(call.id, call.rows) \in Feeds
    <2>1. call.rows \in Nat
      BY <1>0 DEF Shapes, Commands
    <2> QED BY <1>0, <2>1, CallHistory, TokensFacts
  <1>8. End \in Nat /\ truth' \in Feeds /\ Len(truth') = End
    <2>1. End \in Nat
      BY <1>0, TypesOfA, <1>1
    <2> QED BY <1>1, <1>6, <1>7, <2>1, HistoryFacts
  <1>9. BIsExact'
    <2>1. SUFFICES ASSUME ~dirty
                   PROVE  /\ b.pos = Len(truth') /\ b.hi = truth' /\ b.gdn = truth'
                          /\ Coherent(b.kv, b.gdn, b.pos)
      BY <1>3 DEF BIsExact
    <2>2. b.hi = truth' /\ b.gdn = truth'
      BY <1>1, <1>2, <1>5, <1>6, <2>1
    <2>3. \A r \in 1..b.pos : b.kv[r] = SubSeq(b.gdn, 1, r)
      BY <1>1, <1>2, <1>5, <1>6, <2>1, <2>2
    <2>4. truth' # Bad
      BY <1>8, FeedsAreHist
    <2> QED BY <1>1, <1>8, <2>2, <2>3, <2>4 DEF Coherent
  <1>10. CkptIsTrue'
    <2>1. SUFFICES ASSUME ckpt.pos >= 0, ckpt.hi # Bad
                   PROVE  /\ ckpt.hi = SubSeq(truth', 1, ckpt.pos) /\ ckpt.gdn = ckpt.hi
                          /\ \A r \in 1..ckpt.pos : b.kv[r] = SubSeq(truth', 1, r)
      BY DEF CkptIsTrue, IsTruth
    <2>2. /\ ckpt.hi = SubSeq(truth, 1, ckpt.pos) /\ ckpt.gdn = ckpt.hi
          /\ \A r \in 1..ckpt.pos : b.kv[r] = SubSeq(truth, 1, r)
      BY <1>5, <2>1 DEF CkptIsTrue, IsTruth
    <2>3. ckpt.pos \in 0 .. Len(truth) /\ Len(truth) \in Nat
      BY <1>0, <1>7, <2>1 DEF Shapes, Phases
    <2>4. \A r \in 0 .. Len(truth) : SubSeq(truth', 1, r) = SubSeq(truth, 1, r)
      BY <1>7, PrefixOfConcat DEF Feeds
    <2> QED BY <2>2, <2>3, <2>4
  <1> QED BY <1>2, <1>4, <1>5, <1>9, <1>10

(* The end of a call, whole or failed, keeps IInv. *)
LEMMA JoinStep == ASSUME IInv, Join PROVE IInv'
  <1>0. Shapes /\ Phases /\ Causes /\ InCall /\ pc = "join" /\ apc = "idle"
    BY DEF IInv, Join, InCall, CallPlaces
  <1>1. /\ aerr' = "none" /\ berr' = "none" /\ early' = FALSE /\ call' = NoCall /\ pc' = "idle"
        /\ gdnSync' = Bad /\ kvSync' = Fresh /\ hand' = Bad /\ slots' = FreshSlots
        /\ reported' = PickRootCause(aerr, berr)
        /\ UNCHANGED <<split, dirty, calls, b, ckpt, aux, a, apc, acquired, published, taken, released,
                       bulk, poisoned>>
    BY DEF Join
  <1>2. \/ /\ reported' = "none" /\ tracker' = AfterPipelined(b.pos) /\ state' = state
           /\ truth' = truth \o Tokens(call.id, call.rows)
        \/ reported' # "none" /\ state' = "kNeedsRecovery" /\ UNCHANGED <<tracker, truth>>
    BY DEF Join
  <1>3. reported' = "none" => aerr = "none" /\ berr = "none"
    BY <1>1 DEF PickRootCause
  <1>4. ~InCall' /\ pc' # "resetA" /\ state = "kReady"
    BY <1>0, <1>1 DEF InCall, CallPlaces, Phases
  <1>5. ASSUME reported' = "none"
        PROVE  /\ ~poisoned /\ Quiescent /\ b.pos = Len(truth') /\ ckpt.pos <= Len(truth') /\ truth' \in Feeds
    <2>1. /\ ~poisoned /\ Quiescent /\ b.pos = End /\ End - call.p0 = call.rows /\ call.p0 <= End
      BY <1>0, <1>3, <1>5, WholeCall
    <2>2. /\ truth \in Feeds /\ call.id \in Nat \ {0} /\ call.p0 = Len(truth) /\ call.p0 \in Nat
      BY <1>0, CallHistory
    <2>3. End \in Nat /\ b.pos \in Nat
      BY <1>0, <2>1, TypesOfA
    <2>4. truth' = History(End)
      BY <1>2, <1>5, <2>1 DEF History
    <2>5. truth' \in Feeds /\ Len(truth') = End
      BY <2>1, <2>2, <2>3, <2>4, HistoryFacts
    <2>6. ckpt.pos <= Len(truth) /\ ckpt.pos \in -1 .. MaxPos
      BY <1>0 DEF Shapes, Phases
    <2> QED BY <2>1, <2>2, <2>3, <2>5, <2>6
  <1>6. Shapes'
    <2>1. truth' \in Seq(Nat \ {0})
      BY <1>0, <1>2, <1>5 DEF Shapes, Feeds
    <2>2. tracker' \in [kv : 0..MaxPos, gdn : -1..MaxPos]
      <3>1. AfterPipelined(b.pos) \in [kv : 0..MaxPos, gdn : -1..MaxPos]
        <4>1. b.pos \in 0..MaxPos
          BY <1>0 DEF Shapes
        <4> QED BY <4>1, Constants DEF AfterPipelined
      <3> QED BY <1>0, <1>2, <3>1 DEF Shapes
    <2>3. call' \in Commands
      BY <1>1, Constants DEF NoCall, Commands
    <2>4. gdnSync' \in Hist /\ kvSync' \in RowStore /\ hand' \in Hist
      BY <1>1, FeedsAreHist, BadStores
    <2>5. slots' \in [0..(Slots - 1) -> SlotValues]
      BY <1>1, FeedsAreHist, BadStores DEF FreshSlots, SlotValues
    <2> QED BY <1>0, <1>1, <1>2, <2>1, <2>2, <2>3, <2>4, <2>5 DEF Shapes
  <1>7. Phases'
    <2>1. Ready' => reported' = "none"
      BY <1>2 DEF Ready
    <2>2. aux = "idle"
      BY <1>0 DEF Phases, Shapes
    <2>3. state' \in {"kReady", "kNeedsRecovery"}
      BY <1>2, <1>4
    <2> QED BY <1>0, <1>1, <1>4, <1>5, <2>1, <2>2, <2>3 DEF Phases, Quiescent, ACallPlaces
  <1>8. Causes'
    <2>1. /\ aerr = "poisoned" => berr \notin {"none", "poisoned"}
          /\ berr = "poisoned" => aerr \notin {"none", "poisoned"}
          /\ berr = "disagree" => ~Aligned
          /\ berr # "begin"
          /\ aerr \in {"none", "error", "timeout", "poisoned"}
      BY <1>0 DEF Causes, Shapes
    <2>2. reported' # "poisoned" /\ reported' # "begin"
      BY <1>1, <2>1 DEF PickRootCause
    <2>3. reported' = "disagree" => ~Aligned
      BY <1>1, <2>1 DEF PickRootCause
    <2> QED BY <1>0, <1>1, <1>4, <2>2, <2>3 DEF Causes, Aligned
  <1>9. Between'
    <2>1. SUFFICES ASSUME Ready', Aligned'
                   PROVE  /\ MirrorIsTrue' /\ BIsExact' /\ CkptIsTrue'
                          /\ dirty => b.hi = Bad
                          /\ b.win = <<>>
      BY <1>1, <1>4 DEF Between
    <2>2. reported' = "none" /\ Aligned
      BY <1>1, <1>2, <2>1 DEF Ready, Aligned
    <2> QED BY <1>0, <1>1, <1>2, <1>3, <2>2, WholeBetween
  <1> QED BY <1>4, <1>6, <1>7, <1>8, <1>9, OutOfCall DEF IInv

-----------------------------------------------------------------------------
(* The invariant, and the properties it implies.                           *)

(* A model that was loaded. *)
LEMMA InitIInv == Init => IInv
  <1> SUFFICES ASSUME Init PROVE IInv
    OBVIOUS
  <1>1. /\ state = "kReady" /\ pc = "idle" /\ apc = "idle" /\ aerr = "none" /\ berr = "none" /\ aux = "idle"
        /\ split = [run |-> 1, a |-> 1, b |-> 1, to |-> 1, old |-> 1]
        /\ tracker = [kv |-> 0, gdn |-> 0] /\ b = FreshB /\ ckpt = NoCkpt
        /\ a = [pos |-> 0, kv |-> Fresh, gdn |-> <<>>]
        /\ truth = <<>> /\ dirty = FALSE /\ reported = "none"
    BY DEF Init
  <1>2. ~InCall /\ Ready
    BY <1>1 DEF InCall, CallPlaces, Ready
  <1>3. <<>> \in Feeds /\ Len(<<>>) = 0 /\ <<>> # Bad /\ <<>> \in Hist
    BY FeedsAreHist, BadStores, EmptySeq DEF Feeds
  <1>4. Shapes
    <2>1. b \in [pos : 0..MaxPos, kv : RowStore, gdn : Hist, win : Hist, hi : Hist, end : BOOLEAN]
      BY <1>1, <1>3, BadStores, Constants DEF FreshB
    <2>2. ckpt \in [pos : -1..MaxPos, gdn : Hist, hi : Hist]
      BY <1>1, <1>3, Constants DEF NoCkpt
    <2>3. a \in [pos : 0..MaxPos, kv : RowStore, gdn : Hist]
      BY <1>1, <1>3, BadStores, Constants
    <2>4. slots \in [0..(Slots - 1) -> SlotValues]
      BY FeedsAreHist, BadStores DEF Init, FreshSlots, SlotValues
    <2>5. gdnSync \in Hist /\ kvSync \in RowStore /\ hand \in Hist
      BY FeedsAreHist, BadStores DEF Init
    <2>6. call \in Commands
      BY Constants DEF Init, NoCall, Commands
    <2>7. tracker \in [kv : 0..MaxPos, gdn : -1..MaxPos]
      BY <1>1, Constants
    <2>8. truth \in Seq(Nat \ {0})
      BY <1>1, <1>3 DEF Feeds
    <2>9. /\ acquired = 0 /\ published = 0 /\ taken = 0 /\ released = 0 /\ calls = 0 /\ bulk = -1
          /\ poisoned = FALSE /\ early = FALSE /\ dirty = FALSE
      BY DEF Init
    <2>10. split \in [run : Nat, a : Nat, b : Nat, to : Nat, old : Nat]
      BY <1>1
    <2>11. /\ state \in {"kReady", "kNeedsRecovery", "kFatal"}
           /\ pc \in CallPlaces \cup {"idle", "resetA", "splitA", "splitC", "closing", "closed", "exited"}
           /\ apc \in ACallPlaces \cup RunACommands \cup {"idle"}
           /\ aerr \in {"none", "error", "timeout", "poisoned"} /\ aux \in {"idle", "copying"}
      BY <1>1
    <2>12. {acquired, published, taken, released, calls} \subseteq Nat /\ bulk \in Int
      BY <2>9
    <2>13. poisoned = FALSE /\ early = FALSE /\ dirty = FALSE
      BY DEF Init
    <2>14. {poisoned, early, dirty} \subseteq BOOLEAN
      BY <2>13, Zenon
    <2> QED BY <2>1, <2>2, <2>3, <2>4, <2>5, <2>6, <2>7, <2>8, <2>10, <2>11, <2>12, <2>14 DEF Shapes
  <1>5. Phases
    BY <1>1, <1>2, <1>3, Constants DEF Phases, Init, Quiescent, FreshB, NoCkpt, ACallPlaces
  <1>6. Causes
    BY <1>1, <1>2 DEF Causes
  <1>7. Counts /\ Headers /\ Copies /\ Exact
    BY <1>2 DEF Counts, Headers, Copies, Exact
  <1>8. Between
    <2>1. b.pos = 0 /\ b.gdn = <<>> /\ b.win = <<>> /\ b.hi = <<>> /\ LiveGdn = <<>> /\ ckpt.pos = -1
      BY <1>1 DEF FreshB, LiveGdn, NoCkpt
    <2>2. MirrorIsTrue
      BY <1>1, <2>1 DEF MirrorIsTrue
    <2>3. BIsExact
      BY <1>1, <1>3, <2>1 DEF BIsExact, Coherent
    <2>4. CkptIsTrue
      BY <2>1 DEF CkptIsTrue
    <2> QED BY <1>1, <2>1, <2>2, <2>3, <2>4 DEF Between
  <1> QED BY <1>4, <1>5, <1>6, <1>7, <1>8 DEF IInv

(* Every step. *)
LEMMA NextIInv == IInv /\ [Next]_vars => IInv'
  <1> SUFFICES ASSUME IInv, [Next]_vars PROVE IInv'
    OBVIOUS
  <1>1. CASE StageA \/ StageAHost
    BY <1>1, StageAStep
  <1>2. CASE StageB \/ BFault \/ AuxLand
    BY <1>2, StageBStep DEF BSteps
  <1>3. CASE Facade
    BY <1>3, JoinStep, EndSteps, ResetDoneStep, SplitSteps DEF Facade
  <1>4. CASE Caller
    <2>1. CASE \/ \E n \in 1..MaxPos : PrefillB(n)
               \/ \E n, w \in 1..2 : DecodeStep(n, w)
      BY <2>1, FeedsAlone
    <2>2. CASE \E n \in 1..MaxPos : PipelinedPrefill(n)
      BY <2>2, PipelinedPrefillStep
    <2>3. CASE SaveCheckpoint
      BY <2>3, SaveStep
    <2>4. CASE RestoreCheckpoint
      BY <2>4, RestoreStep
    <2>5. CASE Reset
      BY <2>5, ResetStep
    <2>6. CASE Close
      BY <2>6, EndSteps
    <2>7. CASE \E k \in 1..MaxSplit : SetSplit(k)
      BY <2>7, SplitSteps
    <2> QED BY <1>4, <2>1, <2>2, <2>3, <2>4, <2>5, <2>6, <2>7 DEF Caller
  <1>5. CASE UNCHANGED vars
    <2>0. UNCHANGED <<state, split, pc, tracker, call, truth, dirty, reported, calls, b, ckpt, berr, early, aux,
                      a, apc, aerr, gdnSync, kvSync, hand, acquired, published, taken, released, bulk,
                      poisoned, slots>>
      BY <1>5 DEF vars, facadeVars, bVars, aVars, bufVars, chVars
    <2>i. Shapes /\ Phases /\ Causes /\ Counts /\ Headers /\ Copies /\ Exact /\ Between
      BY DEF IInv
    <2>1. Shapes' /\ Phases' /\ Causes'
      BY <2>0, <2>i DEF Shapes, Phases, Causes, Ready, InCall, Quiescent, End, Aligned
    <2>2. Counts'
      BY <2>0, <2>i DEF Counts, InCall, ChunkPos, Upto, End
    <2>3. Headers'
      BY <2>0, <2>i DEF Headers, InCall, Filled, ChunkPos, Upto, End
    <2>4. Copies'
      BY <2>0, <2>i DEF Copies, InCall, Sound, Aligned, Filled, ChunkPos, Upto, End
    <2>5. Exact'
      BY <2>0, <2>i DEF Exact, InCall, Sound, Aligned, CkptIsTrue, IsTruth, Filled, Computed, History, ChunkPos,
                        Upto, End
    <2>6. Between'
      BY <2>0, <2>i DEF Between, Ready, Aligned, MirrorIsTrue, BIsExact, Idle, LiveGdn, CkptIsTrue, IsTruth
    <2> QED BY <2>1, <2>2, <2>3, <2>4, <2>5, <2>6 DEF IInv
  <1> QED BY <1>1, <1>2, <1>3, <1>4, <1>5 DEF Next, Stopped

(* Through every call, failure, reset and change of the split the two      *)
(* stages, the ring and the tracker are where IInv says.                   *)
THEOREM InvHolds == Spec => []IInv
  <1>1. Init => IInv
    BY InitIInv
  <1>2. IInv /\ [Next]_vars => IInv'
    BY NextIInv
  <1> QED BY <1>1, <1>2, PTL DEF Spec

(* A failed pipelined call reports its root cause, never the poison that   *)
(* one stage's failure left for the other (PickRootCause).                 *)
THEOREM RootCauseReportedHolds == Spec => []RootCauseReported
  <1>1. IInv => RootCauseReported
    BY DEF IInv, Causes, RootCauseReported
  <1> QED BY <1>1, InvHolds, PTL

(* BeginCall always finds the ring quiescent and unpoisoned, and aligned   *)
(* stages never disagree on a chunk, whatever failed in the calls before.  *)
THEOREM NoProtocolErrorHolds == Spec => []NoProtocolError
  <1>1. IInv => NoProtocolError
    BY DEF IInv, Causes, NoProtocolError
  <1> QED BY <1>1, InvHolds, PTL

(* What the mirror tracker claims of stage A between calls is so.          *)
THEOREM MirrorIsTrueHolds == Spec => []MirrorIsTrue
  <1>1. IInv => MirrorIsTrue
    BY DEF IInv, Between, MirrorIsTrue, Idle, Ready
  <1> QED BY <1>1, InvHolds, PTL

(* Between calls stage B holds exactly what one model fed the same tokens  *)
(* holds, in the rows and the state it got from stage A as in its own.     *)
THEOREM BIsExactHolds == Spec => []BIsExact
  <1>1. IInv => BIsExact
    BY DEF IInv, Between, BIsExact, Idle, Ready
  <1> QED BY <1>1, InvHolds, PTL
=============================================================================
