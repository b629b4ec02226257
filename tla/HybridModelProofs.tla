-------------------------- MODULE HybridModelProofs --------------------------
(***************************************************************************)
(* For either drafter and every context, block size, drafter window and    *)
(* number of calls: the tensor-parallel shards hold exactly what feeding   *)
(* the committed tokens to them alone would have left, but for the MTP     *)
(* rows of accepted drafts, what the tracker vouches for of the stages is  *)
(* so, and the drafters cannot tell a pipelined call from a TP prefill.    *)
(* The proof is the invariance of HybridModel!IInv: beside the three       *)
(* properties the checkpoint is a prefix of the conversation with the      *)
(* states to match, and the two stores of the drafters (the one fed tails, *)
(* the one fed whole prompts) begin and end at the same row of the window, *)
(* never ahead of the position.                                            *)
(***************************************************************************)
EXTENDS HybridModel, TLAPS, SequenceTheorems

-----------------------------------------------------------------------------
(* Numbers.                                                                *)

(* What is assumed of the constants, one by one. *)
LEMMA Constants ==
  /\ BlockSize \in Nat \ {0} /\ MinRows \in Nat \ {0} /\ Window \in Nat \ {0} /\ Slice \in Nat \ {0}
  /\ MaxPos \in Nat /\ StageCtx \in Nat /\ GatherRows \in Nat /\ DraftK \in Nat /\ MaxCalls \in Nat
  /\ StageCtx <= MaxPos
  BY HybridAssumption

(* The smaller and the larger of two numbers. *)
LEMMA MinMax ==
  ASSUME NEW x \in Int, NEW y \in Int
  PROVE  /\ Min({x, y}) = IF x <= y THEN x ELSE y
         /\ Max({x, y}) = IF x <= y THEN y ELSE x
  <1>1. \E z \in {x, y} : \A w \in {x, y} : z <= w
    OBVIOUS
  <1>2. Min({x, y}) \in {x, y} /\ \A w \in {x, y} : Min({x, y}) <= w
    BY <1>1 DEF Min
  <1>3. \E z \in {x, y} : \A w \in {x, y} : z >= w
    OBVIOUS
  <1>4. Max({x, y}) \in {x, y} /\ \A w \in {x, y} : Max({x, y}) >= w
    BY <1>3 DEF Max
  <1> QED BY <1>2, <1>4

(* The larger of two numbers whose order is known. *)
LEMMA MaxBelow ==
  ASSUME NEW x \in Int, NEW y \in Int, x <= y
  PROVE  Max({x, y}) = y
  BY MinMax

(* Later rows are in later blocks. *)
LEMMA BlocksGrow ==
  ASSUME NEW r \in Nat, NEW s \in Nat, r <= s
  PROVE  r \div BlockSize \in Nat /\ s \div BlockSize \in Nat /\ r \div BlockSize <= s \div BlockSize
  <1> DEFINE p == r \div BlockSize
             q == s \div BlockSize
  <1>1. BlockSize \in Nat \ {0}
    BY Constants
  <1>2. /\ p \in Int /\ r = BlockSize * p + (r % BlockSize) /\ r % BlockSize \in 0 .. BlockSize - 1
        /\ q \in Int /\ s = BlockSize * q + (s % BlockSize) /\ s % BlockSize \in 0 .. BlockSize - 1
    BY <1>1
  <1> HIDE DEF p, q
  <1>3. BlockSize * p < BlockSize * q + BlockSize
    BY <1>1, <1>2
  <1>4. p >= 0 /\ q >= 0
    <2>1. ASSUME NEW z \in Int, z < 0 PROVE BlockSize * z <= -BlockSize
      <3>1. BlockSize * (z + 1) <= 0
        BY <1>1, <2>1
      <3> QED BY <1>1, <2>1, <3>1
    <2> QED BY <1>1, <1>2, <2>1
  <1>5. p <= q
    <2>1. SUFFICES ASSUME p >= q + 1 PROVE FALSE
      BY <1>2
    <2>2. BlockSize * (p - (q + 1)) >= 0
      BY <1>1, <1>2, <2>1
    <2> QED BY <1>1, <1>2, <1>3, <2>2
  <1> QED BY <1>2, <1>4, <1>5 DEF p, q

-----------------------------------------------------------------------------
(* The drafters' stores.                                                   *)

(* Where a store's window begins. *)
LEMMA BeginFacts ==
  ASSUME NEW d \in Stores
  PROVE  /\ d.lo \in Nat /\ d.hi \in Nat /\ d.lo <= d.hi /\ d.hi <= MaxPos
         /\ Begin(d) = IF d.lo <= d.hi - Window THEN d.hi - Window ELSE d.lo
         /\ Begin(d) \in Nat /\ Begin(d) <= d.hi /\ d.lo <= Begin(d)
  <1>1. d.lo \in Nat /\ d.hi \in Nat /\ d.lo <= d.hi /\ MaxPos \in Nat /\ Window \in Nat /\ d.hi <= MaxPos
    BY Constants DEF Stores
  <1>2. d.lo \in Int /\ d.hi - Window \in Int
    BY <1>1
  <1>3. Max({d.lo, d.hi - Window}) = IF d.lo <= d.hi - Window THEN d.hi - Window ELSE d.lo
    BY <1>2, MinMax
  <1> QED BY <1>1, <1>3 DEF Begin

(* A store that is fed the rows up to a later end begins where it did, or  *)
(* a window below the end.                                                 *)
LEMMA InjectFacts ==
  ASSUME NEW d \in Stores, NEW start \in Nat, NEW end \in Nat, start <= end, end <= MaxPos, d.hi <= end
  PROVE  /\ InjectFeatures(d, start, end) \in Stores /\ InjectFeatures(d, start, end).hi = end
         /\ start <= d.hi => Begin(InjectFeatures(d, start, end)) = Max({Begin(d), end - Window})
         /\ start > d.hi => Begin(InjectFeatures(d, start, end)) = Max({start, end - Window})
  <1>1. d.lo \in Nat /\ d.hi \in Nat /\ d.lo <= d.hi /\ MaxPos \in Nat /\ Window \in Nat
    BY Constants DEF Stores
  <1> DEFINE lo == IF start > d.hi THEN start ELSE d.lo
  <1>2. InjectFeatures(d, start, end) = [lo |-> lo, hi |-> end] /\ lo \in Nat /\ lo <= end
    BY <1>1 DEF InjectFeatures
  <1>3. InjectFeatures(d, start, end) \in Stores /\ InjectFeatures(d, start, end).hi = end
        /\ Begin(InjectFeatures(d, start, end)) = Max({lo, end - Window})
    BY <1>1, <1>2 DEF Stores, Begin
  <1>4. start <= d.hi => Max({lo, end - Window}) = Max({Begin(d), end - Window})
    <2>1. SUFFICES ASSUME start <= d.hi
                   PROVE  Max({d.lo, end - Window}) = Max({Begin(d), end - Window})
      BY <1>1
    <2>2. /\ Begin(d) = IF d.lo <= d.hi - Window THEN d.hi - Window ELSE d.lo
          /\ Begin(d) \in Int /\ d.lo \in Int /\ end - Window \in Int
      BY <1>1, BeginFacts
    <2>3. Max({Begin(d), end - Window}) = IF Begin(d) <= end - Window THEN end - Window ELSE Begin(d)
      BY <2>2, MinMax
    <2>4. Max({d.lo, end - Window}) = IF d.lo <= end - Window THEN end - Window ELSE d.lo
      BY <2>2, MinMax
    <2> QED BY <1>1, <2>2, <2>3, <2>4
  <1>5. start > d.hi => lo = start
    OBVIOUS
  <1> QED BY <1>3, <1>4, <1>5

(* Two stores that begin and end alike do so after the same rows. *)
LEMMA InjectBoth ==
  ASSUME NEW d \in Stores, NEW e \in Stores, d.hi = e.hi, Begin(d) = Begin(e),
         NEW start \in Nat, NEW end \in Nat, start <= end, end <= MaxPos, d.hi <= start
  PROVE  LET t == InjectFeatures(d, start, end)
             w == InjectFeatures(e, start, end)
         IN t \in Stores /\ w \in Stores /\ t.hi = end /\ w.hi = end /\ Begin(t) = Begin(w)
  <1> DEFINE t == InjectFeatures(d, start, end)
             w == InjectFeatures(e, start, end)
  <1>1. d.hi \in Nat /\ d.hi <= end /\ e.hi <= end
    BY BeginFacts
  <1>2. /\ t \in Stores /\ t.hi = end
        /\ start <= d.hi => Begin(t) = Max({Begin(d), end - Window})
        /\ start > d.hi => Begin(t) = Max({start, end - Window})
    BY <1>1, InjectFacts
  <1>3. /\ w \in Stores /\ w.hi = end
        /\ start <= e.hi => Begin(w) = Max({Begin(e), end - Window})
        /\ start > e.hi => Begin(w) = Max({start, end - Window})
    BY <1>1, InjectFacts
  <1> HIDE DEF t, w
  <1> QED BY <1>1, <1>2, <1>3 DEF t, w

(* Taken back to n, a store begins where its window did, or at n. *)
LEMMA RewindFacts ==
  ASSUME NEW d \in Stores, NEW n \in 0..MaxPos
  PROVE  /\ Rewind(d, n) \in Stores
         /\ d.hi > n => Rewind(d, n).hi = n /\ Begin(Rewind(d, n)) = Max({Min({n, Begin(d)}), n - Window})
         /\ d.hi <= n => Rewind(d, n) = d
  <1>1. d.lo \in Nat /\ d.hi \in Nat /\ d.lo <= d.hi /\ MaxPos \in Nat /\ Window \in Nat /\ n \in Nat /\ n <= MaxPos
    BY Constants DEF Stores
  <1>2. Begin(d) \in Nat
    BY BeginFacts
  <1>3. ASSUME d.hi > n
        PROVE  /\ Rewind(d, n) \in Stores /\ Rewind(d, n).hi = n
               /\ Begin(Rewind(d, n)) = Max({Min({n, Begin(d)}), n - Window})
    <2>1. Rewind(d, n) = [lo |-> Min({n, Begin(d)}), hi |-> n]
      BY <1>3 DEF Rewind, Begin
    <2>2. Min({n, Begin(d)}) \in Nat /\ Min({n, Begin(d)}) <= n
      <3>1. n \in Int /\ Begin(d) \in Int
        BY <1>1, <1>2
      <3>2. Min({n, Begin(d)}) = IF n <= Begin(d) THEN n ELSE Begin(d)
        BY <3>1, MinMax
      <3> QED BY <1>1, <1>2, <3>2
    <2>3. Rewind(d, n).lo = Min({n, Begin(d)}) /\ Rewind(d, n).hi = n
      BY <2>1
    <2>4. Rewind(d, n) \in Stores
      BY <1>1, <2>1, <2>2 DEF Stores
    <2> QED BY <2>3, <2>4 DEF Begin
  <1>4. d.hi <= n => Rewind(d, n) = d
    BY <1>1 DEF Rewind
  <1> QED BY <1>1, <1>3, <1>4

(* Two stores that begin and end alike are read alike. *)
LEMMA SameWindow ==
  ASSUME NEW d \in Stores, NEW e \in Stores, d.hi = e.hi, Begin(d) = Begin(e)
  PROVE  Visible(d) = Visible(e)
  BY DEF Visible, Begin

(* Where the tail of a pipelined call starts. *)
LEMMA TailStart ==
  ASSUME NEW p0 \in Nat, NEW end \in Nat, p0 <= end
  PROVE  DflashTailStart(p0, end) \in Nat /\ p0 <= DflashTailStart(p0, end) /\ DflashTailStart(p0, end) <= end
  <1>1. Window \in Nat \ {0} /\ Slice \in Nat \ {0}
    BY Constants
  <1>2. CASE end - Window <= p0
    BY <1>2 DEF DflashTailStart
  <1>3. CASE end - Window > p0
    <2> DEFINE x == end - Window - p0
               q == x \div Slice
    <2>1. x \in Nat
      BY <1>1, <1>3
    <2>2. q \in Int /\ x = Slice * q + (x % Slice) /\ x % Slice \in 0 .. Slice - 1
      BY <1>1, <2>1
    <2> HIDE DEF q
    <2>3. q >= 0
      <3>1. SUFFICES ASSUME q + 1 <= 0 PROVE FALSE
        BY <2>2
      <3>2. Slice * (q + 1) <= 0
        BY <1>1, <2>2, <3>1
      <3> QED BY <1>1, <2>1, <2>2, <3>2
    <2>4. q * Slice \in Nat /\ q * Slice <= x
      BY <1>1, <2>1, <2>2, <2>3
    <2>5. DflashTailStart(p0, end) = p0 + q * Slice
      BY <1>1, <1>3 DEF DflashTailStart, q
    <2> QED BY <1>1, <1>3, <2>4, <2>5
  <1> QED BY <1>1, <1>2, <1>3

(* A tail that is let through leaves the store as the whole call does. *)
LEMMA TailIsEnough ==
  ASSUME NEW d \in Stores, NEW e \in Stores, d.hi = e.hi, Begin(d) = Begin(e),
         NEW p0 \in Nat, NEW end \in Nat, p0 <= end, end <= MaxPos, d.hi <= p0,
         CheckTailInject(d.hi, end, DflashTailStart(p0, end), end - DflashTailStart(p0, end))
  PROVE  LET t == InjectFeatures(d, DflashTailStart(p0, end), end)
             w == InjectFeatures(e, p0, end)
         IN t \in Stores /\ w \in Stores /\ t.hi = end /\ w.hi = end /\ Begin(t) = Begin(w)
  <1> DEFINE s == DflashTailStart(p0, end)
             t == InjectFeatures(d, s, end)
             w == InjectFeatures(e, p0, end)
  <1>1. s \in Nat /\ p0 <= s /\ s <= end
    BY TailStart
  <1>2. s >= d.hi /\ (s > d.hi => end - s >= Window)
    BY DEF CheckTailInject
  <1> HIDE DEF s
  <1>3. d.hi \in Nat /\ d.lo \in Nat /\ d.lo <= d.hi /\ e.lo \in Nat /\ e.lo <= e.hi /\ Window \in Nat /\ MaxPos \in Nat
    BY Constants DEF Stores
  <1>n. d.hi <= end /\ e.hi <= end
    BY <1>3
  <1>4. /\ t \in Stores /\ t.hi = end
        /\ s <= d.hi => Begin(t) = Max({Begin(d), end - Window})
        /\ s > d.hi => Begin(t) = Max({s, end - Window})
    BY <1>1, <1>n, InjectFacts
  <1>5. /\ w \in Stores /\ w.hi = end
        /\ p0 <= e.hi => Begin(w) = Max({Begin(e), end - Window})
        /\ p0 > e.hi => Begin(w) = Max({p0, end - Window})
    BY <1>1, <1>n, InjectFacts
  <1> HIDE DEF t, w
  <1>6. Begin(e) \in Nat /\ Begin(e) <= e.hi
    BY BeginFacts
  <1>7. Begin(t) = Begin(w)
    <2>1. CASE s <= d.hi
      BY <1>1, <1>2, <1>3, <1>4, <1>5, <2>1
    <2>2. CASE s > d.hi
      <3>1. /\ s \in Int /\ p0 \in Int /\ Begin(e) \in Int /\ end - Window \in Int
            /\ s <= end - Window /\ p0 <= end - Window /\ Begin(e) <= end - Window
        BY <1>1, <1>2, <1>3, <1>6, <2>2
      <3>2. Max({s, end - Window}) = end - Window
        BY <3>1, MaxBelow
      <3>3. Max({p0, end - Window}) = end - Window
        BY <3>1, MaxBelow
      <3>4. Max({Begin(e), end - Window}) = end - Window
        BY <3>1, MaxBelow
      <3> QED BY <1>3, <1>4, <1>5, <2>2, <3>2, <3>3, <3>4
    <2> QED BY <1>1, <1>3, <2>1, <2>2
  <1> QED BY <1>4, <1>5, <1>7 DEF t, w, s

-----------------------------------------------------------------------------
(* Histories.                                                              *)

Feeds == Seq(Nat \ {0})

(* Junk is no history of tokens that were fed. *)
LEMMA FeedsAreHist == Feeds \subseteq Hist /\ Junk \in Hist /\ \A s \in Feeds : s # Junk
  <1>1. Feeds \subseteq Hist
    BY SeqMonotonic DEF Feeds, Hist
  <1>2. Junk \in Hist
    BY DEF Junk, Hist
  <1>3. ASSUME NEW s \in Feeds, s = Junk PROVE FALSE
    <2>1. Len(s) = 1 /\ s[1] = 0
      BY <1>3 DEF Junk
    <2>2. s[1] \in Nat \ {0}
      BY <2>1, ElementOfSeq DEF Feeds
    <2> QED BY <2>1, <2>2
  <1> QED BY <1>1, <1>2, <1>3

(* The first n tokens of a history. *)
LEMMA Prefixes ==
  ASSUME NEW S, NEW s \in Seq(S), NEW n \in 0 .. Len(s)
  PROVE  /\ SubSeq(s, 1, n) \in Seq(S) /\ Len(SubSeq(s, 1, n)) = n
         /\ \A i \in 1 .. n : SubSeq(s, 1, n)[i] = s[i]
  <1>1. Len(s) \in Nat
    BY LenProperties
  <1>2. \A i \in 1 .. n : s[i] \in S
    BY <1>1, ElementOfSeq
  <1>3. /\ SubSeq(s, 1, n) \in Seq(S) /\ Len(SubSeq(s, 1, n)) = IF 1 <= n THEN n - 1 + 1 ELSE 0
        /\ \A i \in 1 .. n - 1 + 1 : SubSeq(s, 1, n)[i] = s[1 + i - 1]
    BY <1>1, <1>2, SubSeqProperties
  <1> QED BY <1>1, <1>3

(* A prefix of a prefix, and of what grew behind it. *)
LEMMA PrefixOfPrefix ==
  ASSUME NEW S, NEW s \in Seq(S), NEW m \in 0 .. Len(s), NEW n \in 0 .. m
  PROVE  SubSeq(SubSeq(s, 1, m), 1, n) = SubSeq(s, 1, n)
  <1>1. Len(s) \in Nat
    BY LenProperties
  <1> DEFINE p == SubSeq(s, 1, m)
  <1>2. p \in Seq(S) /\ Len(p) = m /\ \A i \in 1 .. m : p[i] = s[i]
    BY Prefixes
  <1> HIDE DEF p
  <1>3. n \in 0 .. Len(p) /\ n \in 0 .. Len(s)
    BY <1>1, <1>2
  <1>4. SubSeq(p, 1, n) \in Seq(S) /\ Len(SubSeq(p, 1, n)) = n /\ \A i \in 1 .. n : SubSeq(p, 1, n)[i] = p[i]
    BY <1>2, <1>3, Prefixes
  <1>5. SubSeq(s, 1, n) \in Seq(S) /\ Len(SubSeq(s, 1, n)) = n /\ \A i \in 1 .. n : SubSeq(s, 1, n)[i] = s[i]
    BY <1>3, Prefixes
  <1>6. \A i \in 1 .. n : SubSeq(p, 1, n)[i] = SubSeq(s, 1, n)[i]
    BY <1>1, <1>2, <1>4, <1>5
  <1>7. SubSeq(p, 1, n) = SubSeq(s, 1, n)
    BY <1>4, <1>5, <1>6, SeqEqual
  <1> QED BY <1>7 DEF p

(* What grows behind a prefix leaves it as it is. *)
LEMMA PrefixOfConcat ==
  ASSUME NEW S, NEW s \in Seq(S), NEW t \in Seq(S), NEW n \in 0 .. Len(s)
  PROVE  SubSeq(s \o t, 1, n) = SubSeq(s, 1, n)
  <1>1. Len(s) \in Nat /\ Len(t) \in Nat
    BY LenProperties
  <1> DEFINE u == s \o t
  <1>2. u \in Seq(S) /\ Len(u) = Len(s) + Len(t)
        /\ \A i \in 1 .. Len(s) + Len(t) : u[i] = IF i <= Len(s) THEN s[i] ELSE t[i - Len(s)]
    BY ConcatProperties
  <1> HIDE DEF u
  <1>3. n \in 0 .. Len(u)
    BY <1>1, <1>2
  <1>4. SubSeq(u, 1, n) \in Seq(S) /\ Len(SubSeq(u, 1, n)) = n /\ \A i \in 1 .. n : SubSeq(u, 1, n)[i] = u[i]
    BY <1>2, <1>3, Prefixes
  <1>5. SubSeq(s, 1, n) \in Seq(S) /\ Len(SubSeq(s, 1, n)) = n /\ \A i \in 1 .. n : SubSeq(s, 1, n)[i] = s[i]
    BY Prefixes
  <1>6. \A i \in 1 .. n : SubSeq(u, 1, n)[i] = SubSeq(s, 1, n)[i]
    BY <1>1, <1>2, <1>4, <1>5
  <1>7. SubSeq(u, 1, n) = SubSeq(s, 1, n)
    BY <1>4, <1>5, <1>6, SeqEqual
  <1> QED BY <1>7 DEF u

(* A history h of tokens that were fed, and what it grew to. *)
Grows(h, new) ==
  /\ h \in Feeds /\ new \in Feeds /\ Len(h) <= Len(new) /\ Len(new) <= MaxPos
  /\ \A r \in 0 .. Len(h) : SubSeq(new, 1, r) = SubSeq(h, 1, r)

(* A call's tokens go behind what was fed before. *)
LEMMA FeedGrows ==
  ASSUME Shapes, NEW n \in Nat, pos + n <= MaxPos
  PROVE  Grows(hist, Feed(n)) /\ Len(Feed(n)) = pos + n
  <1>1. hist \in Seq(Nat \ {0}) /\ Len(hist) \in Nat /\ calls \in Nat
    BY LenProperties, Constants DEF Shapes
  <1> DEFINE t == [i \in 1 .. n |-> calls + 1]
  <1>2. t \in Seq(Nat \ {0}) /\ Len(t) = n
    <2>1. t \in [1 .. n -> Nat \ {0}] /\ DOMAIN t = 1 .. n
      BY <1>1
    <2>2. t \in UNION {[1 .. m -> Nat \ {0}] : m \in Nat}
      BY <2>1
    <2>3. t \in Seq(Nat \ {0})
      BY <2>2, SeqDef
    <2>4. Len(t) \in Nat /\ DOMAIN t = 1 .. Len(t)
      BY <2>3, LenProperties
    <2> QED BY <2>1, <2>3, <2>4
  <1>3. Feed(n) = hist \o t
    BY DEF Feed
  <1> HIDE DEF t
  <1>4. hist \o t \in Seq(Nat \ {0}) /\ Len(hist \o t) = Len(hist) + n
    BY <1>1, <1>2, ConcatProperties
  <1>5. \A r \in 0 .. Len(hist) : SubSeq(hist \o t, 1, r) = SubSeq(hist, 1, r)
    BY <1>1, <1>2, PrefixOfConcat
  <1> QED BY <1>1, <1>3, <1>4, <1>5 DEF Grows, Feeds, pos

(* What a history grew to, and its prefixes, are histories. *)
LEMMA GrowsFacts ==
  ASSUME NEW h, NEW new, Grows(h, new)
  PROVE  /\ h \in Hist /\ new \in Hist /\ Len(h) \in Nat /\ Len(new) \in Nat /\ h # Junk /\ new # Junk
         /\ \A r \in 0 .. Len(new) : SubSeq(new, 1, r) \in Hist
         /\ SubSeq(new, 1, Len(h)) = h
  <1>1. h \in Seq(Nat \ {0}) /\ new \in Seq(Nat \ {0}) /\ Len(h) \in Nat /\ Len(new) \in Nat
    BY LenProperties DEF Grows, Feeds
  <1>2. h \in Hist /\ new \in Hist /\ h # Junk /\ new # Junk
    BY FeedsAreHist DEF Grows
  <1>3. \A r \in 0 .. Len(new) : SubSeq(new, 1, r) \in Hist
    BY <1>2, Prefixes DEF Hist
  <1>4. SubSeq(h, 1, Len(h)) = h
    BY <1>1, SubSeqFull
  <1>5. SubSeq(new, 1, Len(h)) = h
    BY <1>1, <1>4 DEF Grows
  <1> QED BY <1>1, <1>2, <1>3, <1>5

-----------------------------------------------------------------------------
(* What the calls write.                                                   *)

PartStates == [kv : RowStore, gdn : Hist]

(* The holder has what feeding h to it alone leaves; of the MTP head, the  *)
(* rows d aside.                                                           *)
Exact(m, h, d) ==
  /\ \A s \in Parts : Sound(m.part[s], h)
  /\ Mtp => /\ m.seed = h
            /\ \A r \in (0 .. Len(h) - 2) \ d : m.mtp[r] = SubSeq(h, 1, r + 2)

(* A part of the layers over the rows of a call. *)
LEMMA WrittenFacts ==
  ASSUME NEW part \in PartStates, NEW h, NEW new, Grows(h, new), Sound(part, h)
  PROVE  /\ Written(part, h, new, TRUE) \in PartStates
         /\ \A r \in Rows : r < Len(h) => Written(part, h, new, TRUE).kv[r] = part.kv[r]
         /\ Sound(Written(part, h, new, TRUE), new)
  <1>1. Len(h) \in Nat /\ Len(new) \in Nat /\ MaxPos \in Nat /\ Len(new) <= MaxPos /\ new \in Hist
    BY GrowsFacts, Constants DEF Grows
  <1> DEFINE kv == [r \in Rows |-> IF r \notin Len(h)..Len(new) - 1 THEN part.kv[r] ELSE SubSeq(new, 1, r + 1)]
  <1>2. Written(part, h, new, TRUE) = [kv |-> kv, gdn |-> new]
    BY DEF Written
  <1>3. \A r \in Rows : r \in Nat /\ r < MaxPos
    BY <1>1 DEF Rows
  <1>4. \A r \in Len(h)..Len(new) - 1 : SubSeq(new, 1, r + 1) \in Hist
    <2>1. \A r \in Len(h)..Len(new) - 1 : r + 1 \in 0 .. Len(new)
      BY <1>1
    <2> QED BY <2>1, GrowsFacts
  <1>5. kv \in RowStore
    <2>1. \A r \in Rows : part.kv[r] \in Hist
      BY DEF PartStates, RowStore
    <2> QED BY <1>1, <1>4, <2>1 DEF RowStore
  <1>6. \A r \in Rows : r < Len(h) => kv[r] = part.kv[r]
    BY <1>1, <1>3
  <1>7. ASSUME NEW r \in 0 .. Len(new) - 1 PROVE kv[r] = SubSeq(new, 1, r + 1)
    <2>1. r \in Rows
      BY <1>1 DEF Rows
    <2>2. CASE r >= Len(h)
      BY <1>1, <2>1, <2>2
    <2>3. CASE r < Len(h)
      <3>1. kv[r] = part.kv[r] /\ r \in 0 .. Len(h) - 1 /\ r + 1 \in 0 .. Len(h)
        BY <1>1, <1>6, <2>1, <2>3
      <3> QED BY <3>1 DEF Sound, Grows
    <2>4. r \in Int /\ Len(h) \in Int
      BY <1>1
    <2> HIDE DEF kv
    <2> QED BY <2>2, <2>3, <2>4
  <1> HIDE DEF kv
  <1>8. [kv |-> kv, gdn |-> new].kv = kv /\ [kv |-> kv, gdn |-> new].gdn = new
    OBVIOUS
  <1> QED BY <1>1, <1>2, <1>5, <1>6, <1>7, <1>8 DEF PartStates, Sound

(* The MTP rows p that a call primes over mtp: those from the position     *)
(* before the call on are right, those below are kept.                     *)
IsPrimed(p, mtp, h, new) ==
  /\ \A r \in Rows : r >= Len(h) - 1 /\ r <= Len(new) - 2 => p[r] = SubSeq(new, 1, r + 2)
  /\ \A r \in Rows : r < Len(h) - 1 => p[r] = mtp[r]

(* The rows come from the seed and the call's own hidden rows. *)
LEMMA PrimedFacts ==
  ASSUME NEW mtp \in RowStore, NEW seed, NEW h, NEW new, Grows(h, new), Mtp => seed = h
  PROVE  /\ Primed(mtp, seed, h, new, TRUE) \in RowStore
         /\ Mtp => IsPrimed(Primed(mtp, seed, h, new, TRUE), mtp, h, new)
  <1>1. Len(h) \in Nat /\ Len(new) \in Nat /\ MaxPos \in Nat /\ Len(new) <= MaxPos
    BY GrowsFacts, Constants DEF Grows
  <1> DEFINE lo == Max({0, Len(h) - 1})
             primed == Primed(mtp, seed, h, new, TRUE)
  <1>2. lo = (IF 0 <= Len(h) - 1 THEN Len(h) - 1 ELSE 0) /\ lo \in Nat
    <2>1. 0 \in Int /\ Len(h) - 1 \in Int
      BY <1>1
    <2>2. Max({0, Len(h) - 1}) = IF 0 <= Len(h) - 1 THEN Len(h) - 1 ELSE 0
      BY <2>1, MinMax
    <2> QED BY <1>1, <2>2
  <1>3. primed = [r \in Rows |-> IF ~Mtp \/ r \notin lo..Len(new) - 2 THEN mtp[r]
                                 ELSE IF TRUE /\ (r = Len(h) - 1 => seed = h) THEN SubSeq(new, 1, r + 2)
                                 ELSE Junk]
    BY DEF Primed
  <1> HIDE DEF lo, primed
  <1>4. \A r \in Rows : r \in Nat /\ r < MaxPos /\ mtp[r] \in Hist
    BY <1>1 DEF Rows, RowStore
  <1>5. CASE ~Mtp
    <2>1. primed = [r \in Rows |-> mtp[r]]
      BY <1>3, <1>5
    <2>2. primed \in RowStore
      BY <1>4, <2>1 DEF RowStore
    <2> QED BY <1>5, <2>2 DEF primed
  <1>6. CASE Mtp
    <2>1. \A r \in Rows : primed[r] = IF r \notin lo..Len(new) - 2 THEN mtp[r] ELSE SubSeq(new, 1, r + 2)
      BY <1>3, <1>6
    <2>2. \A r \in lo..Len(new) - 2 : SubSeq(new, 1, r + 2) \in Hist
      <3>1. \A r \in lo..Len(new) - 2 : r + 2 \in 0 .. Len(new)
        BY <1>1, <1>2
      <3> QED BY <3>1, GrowsFacts
    <2>3. primed \in RowStore
      BY <1>3, <1>4, <2>1, <2>2 DEF RowStore
    <2>4. ASSUME NEW r \in Rows, r >= Len(h) - 1, r <= Len(new) - 2
          PROVE  primed[r] = SubSeq(new, 1, r + 2)
      <3>1. r \in lo..Len(new) - 2
        BY <1>1, <1>2, <1>4, <2>4
      <3> QED BY <2>1, <3>1
    <2>5. ASSUME NEW r \in Rows, r < Len(h) - 1
          PROVE  primed[r] = mtp[r]
      <3>1. r \notin lo..Len(new) - 2
        BY <1>1, <1>2, <1>4, <2>5
      <3> QED BY <2>1, <3>1
    <2> QED BY <2>3, <2>4, <2>5 DEF primed, IsPrimed
  <1> QED BY <1>5, <1>6

(* The seed that a call leaves. *)
LEMMA SeededFacts ==
  ASSUME NEW seed \in Hist, NEW new \in Hist
  PROVE  Seeded(seed, new, TRUE) \in Hist /\ (Mtp => Seeded(seed, new, TRUE) = new)
  BY DEF Seeded

(* A copy of blocks writes their rows and no other. *)
LEMMA CopyFacts ==
  ASSUME NEW dst \in RowStore, NEW src \in RowStore, NEW blocks
  PROVE  /\ CopyBlocks(dst, src, blocks) \in RowStore
         /\ \A r \in Rows : CopyBlocks(dst, src, blocks)[r] = IF r \div BlockSize \in blocks THEN src[r] ELSE dst[r]
  BY DEF CopyBlocks, RowStore

(* What a holder is made of. *)
LEMMA HolderFacts ==
  ASSUME NEW m \in Holder
  PROVE  /\ m.mtp \in RowStore /\ m.seed \in Hist
         /\ \A s \in Parts : m.part[s] \in PartStates /\ m.part[s].kv \in RowStore /\ m.part[s].gdn \in Hist
  BY DEF Holder, PartStates

(* A holder that has a history and is fed on its own has what it grew to;  *)
(* the KV rows below are as they were.                                     *)
LEMMA ForwardFacts ==
  ASSUME NEW m \in Holder, NEW h, NEW new, Grows(h, new), NEW d, Exact(m, h, d)
  PROVE  /\ Forward(m, h, new) \in Holder /\ Exact(Forward(m, h, new), new, d)
         /\ \A s \in Parts, r \in Rows : r < Len(h) => Forward(m, h, new).part[s].kv[r] = m.part[s].kv[r]
  <1> DEFINE ok == \A s \in Parts : Sound(m.part[s], h)
             part == [s \in Parts |-> Written(m.part[s], h, new, TRUE)]
             mtp == Primed(m.mtp, m.seed, h, new, TRUE)
             seed == Seeded(m.seed, new, TRUE)
  <1>1. (\A s \in Parts : Sound(m.part[s], h)) /\ (Mtp => m.seed = h)
    BY DEF Exact
  <1>2. Forward(m, h, new) = [part |-> part, mtp |-> mtp, seed |-> seed]
    <2>1. ok = TRUE
      BY <1>1
    <2>2. Forward(m, h, new) = [part |-> [s \in Parts |-> Written(m.part[s], h, new, ok)],
                               mtp |-> Primed(m.mtp, m.seed, h, new, ok), seed |-> Seeded(m.seed, new, ok)]
      BY DEF Forward
    <2> HIDE DEF ok
    <2> QED BY <2>1, <2>2
  <1>3. ASSUME NEW s \in Parts
        PROVE  /\ part[s] \in PartStates /\ Sound(part[s], new)
               /\ \A r \in Rows : r < Len(h) => part[s].kv[r] = m.part[s].kv[r]
    <2>1. m.part[s] \in PartStates /\ Sound(m.part[s], h)
      BY <1>1, HolderFacts
    <2>2. part[s] = Written(m.part[s], h, new, TRUE)
      OBVIOUS
    <2> DEFINE w == Written(m.part[s], h, new, TRUE)
    <2>3. /\ w \in PartStates
          /\ \A r \in Rows : r < Len(h) => w.kv[r] = m.part[s].kv[r]
          /\ Sound(w, new)
      BY <2>1, WrittenFacts, Zenon
    <2> HIDE DEF part, w
    <2>4. part[s] = w
      BY <2>2 DEF w
    <2> QED BY <2>3, <2>4
  <1>4. mtp \in RowStore /\ (Mtp => IsPrimed(mtp, m.mtp, h, new))
    <2>1. m.mtp \in RowStore
      BY HolderFacts
    <2> QED BY <1>1, <2>1, PrimedFacts
  <1>5. seed \in Hist /\ (Mtp => seed = new)
    <2>1. m.seed \in Hist /\ new \in Hist
      BY HolderFacts, GrowsFacts
    <2> QED BY <2>1, SeededFacts
  <1> HIDE DEF mtp, seed
  <1>6. part \in [Parts -> PartStates]
    BY <1>3
  <1>7. ASSUME Mtp, NEW r \in (0 .. Len(new) - 2) \ d PROVE mtp[r] = SubSeq(new, 1, r + 2)
    <2>1. Len(h) \in Nat /\ Len(new) \in Nat /\ Len(new) <= MaxPos /\ MaxPos \in Nat
      BY GrowsFacts, Constants DEF Grows
    <2>2. r \in Rows
      BY <2>1 DEF Rows
    <2>3. CASE r < Len(h) - 1
      <3>1. r \in (0 .. Len(h) - 2) \ d /\ r + 2 \in 0 .. Len(h)
        BY <2>1, <2>3
      <3>2. m.mtp[r] = SubSeq(h, 1, r + 2) /\ SubSeq(new, 1, r + 2) = SubSeq(h, 1, r + 2)
        BY <1>7, <3>1 DEF Exact, Grows
      <3> QED BY <1>4, <1>7, <2>2, <2>3, <3>2 DEF IsPrimed
    <2>4. CASE r >= Len(h) - 1
      BY <1>4, <1>7, <2>1, <2>2, <2>4 DEF IsPrimed
    <2> QED BY <2>1, <2>3, <2>4
  <1> HIDE DEF part
  <1>8. Forward(m, h, new) \in Holder
    BY <1>2, <1>4, <1>5, <1>6 DEF Holder, PartStates
  <1>9. /\ Forward(m, h, new).part = part /\ Forward(m, h, new).mtp = mtp /\ Forward(m, h, new).seed = seed
    BY <1>2
  <1> QED BY <1>3, <1>5, <1>7, <1>8, <1>9 DEF Exact

(* A part of the layers over the rows of a round: those of rejected drafts *)
(* are beyond the history.                                                 *)
LEMMA VerifiedFacts ==
  ASSUME NEW part \in PartStates, NEW h, NEW new, Grows(h, new), Sound(part, h), NEW k \in Nat
  PROVE  /\ Verified(part, h, k, new, TRUE) \in PartStates
         /\ \A r \in Rows : r < Len(h) => Verified(part, h, k, new, TRUE).kv[r] = part.kv[r]
         /\ Sound(Verified(part, h, k, new, TRUE), new)
  <1> DEFINE w == Written(part, h, new, TRUE)
             kv == [r \in Rows |-> IF r \in Len(new)..Len(h) + k THEN Junk ELSE w.kv[r]]
             v == Verified(part, h, k, new, TRUE)
  <1>1. Len(h) \in Nat /\ Len(new) \in Nat /\ Len(h) <= Len(new) /\ Len(new) <= MaxPos /\ MaxPos \in Nat
    BY GrowsFacts, Constants DEF Grows
  <1>2. /\ w \in PartStates
        /\ \A r \in Rows : r < Len(h) => w.kv[r] = part.kv[r]
        /\ Sound(w, new)
    BY WrittenFacts, Zenon
  <1>3. v = [w EXCEPT !.kv = kv]
    BY DEF Verified
  <1> HIDE DEF w, v
  <1>4. \A r \in Rows : r \in Nat /\ r < MaxPos
    BY <1>1 DEF Rows
  <1>5. kv \in RowStore
    <2>1. \A r \in Rows : w.kv[r] \in Hist
      BY <1>2 DEF PartStates, RowStore
    <2> QED BY <2>1, FeedsAreHist DEF RowStore
  <1>6. \A r \in Rows : r < Len(new) => kv[r] = w.kv[r]
    BY <1>1, <1>4
  <1> HIDE DEF kv
  <1>7. v \in PartStates /\ v.kv = kv /\ v.gdn = w.gdn
    BY <1>2, <1>3, <1>5 DEF PartStates
  <1>8. \A r \in 0 .. Len(new) - 1 : r \in Rows /\ r < Len(new)
    BY <1>1 DEF Rows
  <1>9. Sound(v, new)
    BY <1>2, <1>6, <1>7, <1>8 DEF Sound
  <1>10. \A r \in Rows : r < Len(h) => v.kv[r] = part.kv[r]
    BY <1>1, <1>2, <1>4, <1>6, <1>7
  <1> QED BY <1>7, <1>9, <1>10 DEF v

(* The MTP rows p after a round over mtp that keeps some tokens: that of   *)
(* the last position before it is right, those below are as they were.     *)
IsDrafted(p, mtp, h, new) ==
  /\ p \in RowStore
  /\ p[Len(h) - 1] = SubSeq(new, 1, Len(h) + 1)
  /\ \A r \in Rows : r < Len(h) - 1 => p[r] = mtp[r]

(* The first draft step writes the one from the seed. *)
LEMMA DraftedFacts ==
  ASSUME NEW mtp \in RowStore, NEW h, NEW new, Grows(h, new), Len(h) > 0, Len(h) < Len(new), NEW k \in Nat
  PROVE  IsDrafted(Drafted(mtp, h, h, k, new), mtp, h, new)
  <1> DEFINE hi == Len(h) + Max({1, k}) - 2
             p == Drafted(mtp, h, h, k, new)
             last == Len(h) - 1
  <1>1. Len(h) \in Nat /\ Len(new) \in Nat /\ Len(new) <= MaxPos /\ MaxPos \in Nat
    BY GrowsFacts, Constants DEF Grows
  <1>2. hi \in Int /\ last <= hi
    <2>1. 1 \in Int /\ k \in Int
      OBVIOUS
    <2>2. Max({1, k}) = IF 1 <= k THEN k ELSE 1
      BY <2>1, MinMax
    <2> QED BY <1>1, <2>2
  <1>3. p = [r \in Rows |-> IF r \notin last..hi THEN mtp[r]
                            ELSE IF r = last /\ h = h THEN SubSeq(new, 1, r + 2) ELSE Junk]
    BY DEF Drafted
  <1>4. last \in Rows /\ last \in Nat /\ last + 2 = Len(h) + 1 /\ last + 2 \in 0 .. Len(new)
    BY <1>1 DEF Rows
  <1>5. SubSeq(new, 1, last + 2) \in Hist
    BY <1>4, GrowsFacts
  <1> HIDE DEF hi, p, last
  <1>6. \A r \in Rows : r \in Nat /\ mtp[r] \in Hist
    BY <1>1 DEF Rows, RowStore
  <1>7. p \in RowStore
    BY <1>3, <1>5, <1>6, FeedsAreHist DEF RowStore
  <1>8. p[last] = SubSeq(new, 1, last + 2)
    BY <1>2, <1>3, <1>4
  <1>9. \A r \in Rows : r < last => p[r] = mtp[r]
    BY <1>2, <1>3, <1>4, <1>6
  <1> QED BY <1>4, <1>7, <1>8, <1>9 DEF p, last, IsDrafted

-----------------------------------------------------------------------------
(* Calls of the TP shards alone.                                           *)

(* What a ready group's invariant says. *)
LEMMA ReadyFacts ==
  ASSUME IInv, state = "ready"
  PROVE  /\ Shapes /\ Exact(shards, hist, drafted) /\ refused = {}
         /\ hist \in Feeds /\ pos = Len(hist) /\ pos \in Nat /\ pos <= MaxPos /\ MaxPos \in Nat
         /\ shards \in Holder /\ stage \in Holder
         /\ tracker \in [kv : [Parts -> 0..StageCtx], gdn : [Parts -> -1..StageCtx], seed : BOOLEAN]
         /\ draft \in Stores /\ alone \in Stores
         /\ draft.hi = alone.hi /\ Begin(draft) = Begin(alone) /\ draft.hi <= pos
         /\ \A s \in Parts : tracker.kv[s] \in Nat /\ tracker.kv[s] <= MaxPos
         /\ \A s \in Parts, r \in Rows : r < tracker.kv[s] /\ r < pos =>
              stage.part[s].kv[r] = shards.part[s].kv[r]
         /\ \A s \in Parts : tracker.gdn[s] # -1 =>
              tracker.gdn[s] = pos /\ stage.part[s].gdn = shards.part[s].gdn
         /\ Mtp /\ tracker.seed => stage.seed = shards.seed
  <1>1. Shapes /\ ShardsAreExact /\ MirrorsAreTrue /\ Fronts /\ refused = {}
    BY DEF IInv
  <1>2. hist \in Feeds /\ pos = Len(hist) /\ pos \in Nat /\ pos <= MaxPos /\ MaxPos \in Nat
    BY <1>1, LenProperties, Constants DEF Shapes, Feeds, pos
  <1>3. /\ shards \in Holder /\ stage \in Holder
        /\ tracker \in [kv : [Parts -> 0..StageCtx], gdn : [Parts -> -1..StageCtx], seed : BOOLEAN]
        /\ draft \in Stores /\ alone \in Stores
    BY <1>1 DEF Shapes
  <1>4. Exact(shards, hist, drafted)
    BY <1>1 DEF ShardsAreExact, Exact, pos
  <1>5. draft.hi = alone.hi /\ Begin(draft) = Begin(alone) /\ draft.hi <= pos
    BY <1>1 DEF Fronts
  <1>6. \A s \in Parts : tracker.kv[s] \in 0..StageCtx
    BY <1>3
  <1>7. \A s \in Parts : tracker.kv[s] \in Nat /\ tracker.kv[s] <= MaxPos
    BY <1>6, Constants
  <1>8. /\ \A s \in Parts :
             /\ \A r \in 0..Min({tracker.kv[s], pos}) - 1 : stage.part[s].kv[r] = shards.part[s].kv[r]
             /\ tracker.gdn[s] # -1 => tracker.gdn[s] = pos /\ stage.part[s].gdn = shards.part[s].gdn
        /\ Mtp /\ tracker.seed => stage.seed = shards.seed
    BY <1>1 DEF MirrorsAreTrue
  <1>9. ASSUME NEW s \in Parts, NEW r \in Rows, r < tracker.kv[s], r < pos
        PROVE  stage.part[s].kv[r] = shards.part[s].kv[r]
    <2>1. tracker.kv[s] \in Int /\ pos \in Int
      BY <1>2, <1>7
    <2>2. Min({tracker.kv[s], pos}) = IF tracker.kv[s] <= pos THEN tracker.kv[s] ELSE pos
      BY <2>1, MinMax
    <2>3. r \in 0..Min({tracker.kv[s], pos}) - 1
      BY <1>2, <1>9, <2>1, <2>2 DEF Rows
    <2> QED BY <1>8, <2>3
  <1> QED BY <1>1, <1>2, <1>3, <1>4, <1>5, <1>7, <1>8, <1>9

(* The tracker that is told of a move from p on. *)
LEMMA TpOnlyFacts ==
  ASSUME Shapes, NEW p \in Nat
  PROVE  /\ TpOnly(p) \in [kv : [Parts -> 0..StageCtx], gdn : [Parts -> -1..StageCtx], seed : BOOLEAN]
         /\ \A s \in Parts : /\ TpOnly(p).kv[s] = IF tracker.kv[s] <= p THEN tracker.kv[s] ELSE p
                             /\ TpOnly(p).gdn[s] = -1
         /\ TpOnly(p).seed = FALSE
  <1>1. \A s \in Parts : tracker.kv[s] \in 0..StageCtx
    BY DEF Shapes
  <1>2. StageCtx \in Nat
    BY Constants
  <1>3. ASSUME NEW s \in Parts
        PROVE  /\ Min({tracker.kv[s], p}) = IF tracker.kv[s] <= p THEN tracker.kv[s] ELSE p
               /\ Min({tracker.kv[s], p}) \in 0..StageCtx
    <2>1. tracker.kv[s] \in Int /\ p \in Int
      BY <1>1, <1>2
    <2>2. Min({tracker.kv[s], p}) = IF tracker.kv[s] <= p THEN tracker.kv[s] ELSE p
      BY <2>1, MinMax
    <2> QED BY <1>1, <1>2, <2>2
  <1>4. TpOnly(p) = [kv |-> [s \in Parts |-> Min({tracker.kv[s], p})], gdn |-> [s \in Parts |-> -1], seed |-> FALSE]
    BY DEF TpOnly
  <1>5. [s \in Parts |-> Min({tracker.kv[s], p})] \in [Parts -> 0..StageCtx]
    BY <1>3
  <1>6. [s \in Parts |-> -1] \in [Parts -> -1..StageCtx]
    BY <1>2
  <1>7. TpOnly(p) \in [kv : [Parts -> 0..StageCtx], gdn : [Parts -> -1..StageCtx], seed : BOOLEAN]
    BY <1>4, <1>5, <1>6
  <1>8. \A s \in Parts : TpOnly(p).kv[s] = Min({tracker.kv[s], p}) /\ TpOnly(p).gdn[s] = -1
    BY <1>4
  <1> QED BY <1>3, <1>4, <1>7, <1>8

(* The checkpoint stays a prefix of a conversation that grows. *)
LEMMA CkptKept ==
  ASSUME IInv, state = "ready", Grows(hist, hist'), UNCHANGED <<ckpt, state, drafter>>
  PROVE  CkptIsTrue'
  <1>1. SUFFICES ASSUME ckpt # NoCkpt
                 PROVE  ckpt.pos \in 0..pos' /\ ckpt.hist = SubSeq(hist', 1, ckpt.pos)
    BY DEF IInv, CkptIsTrue, Mtp
  <1>2. ckpt.pos \in 0..pos /\ ckpt.hist = SubSeq(hist, 1, ckpt.pos)
    BY <1>1 DEF IInv, CkptIsTrue
  <1>3. Len(hist) \in Nat /\ Len(hist') \in Nat /\ Len(hist) <= Len(hist')
    BY GrowsFacts DEF Grows
  <1> QED BY <1>2, <1>3 DEF Grows, pos

(* A command of the shards alone, which leaves them with the sequence it   *)
(* moved to and their rows below the position untouched, keeps the         *)
(* invariant.                                                              *)
LEMMA MovedStep ==
  ASSUME IInv, state = "ready", NEW new, Grows(hist, new), NEW feeds, TpMoved(new, feeds),
         shards' \in Holder, Exact(shards', new, drafted'), drafted' \subseteq Rows,
         \A s \in Parts, r \in Rows : r < pos => shards'.part[s].kv[r] = shards.part[s].kv[r],
         calls < MaxCalls, calls' = calls + 1, atEnd' \in BOOLEAN, spec' \in BOOLEAN
  PROVE  IInv'
  <1> DEFINE end == Len(new)
  <1>1. /\ Shapes /\ refused = {} /\ pos = Len(hist) /\ pos \in Nat /\ pos <= MaxPos /\ MaxPos \in Nat
        /\ stage \in Holder
    BY ReadyFacts
  <1>2. /\ hist' = new /\ tracker' = TpOnly(pos)
        /\ draft' = IF feeds THEN InjectFeatures(draft, pos, end) ELSE draft
        /\ alone' = IF feeds THEN InjectFeatures(alone, pos, end) ELSE alone
        /\ UNCHANGED <<drafter, ckpt, stage, inject, state, refused>>
    BY DEF TpMoved
  <1>3. new \in Feeds /\ end \in Nat /\ end <= MaxPos /\ pos <= end
    BY <1>1, GrowsFacts DEF Grows
  <1> HIDE DEF end
  <1>6. /\ TpOnly(pos) \in [kv : [Parts -> 0..StageCtx], gdn : [Parts -> -1..StageCtx], seed : BOOLEAN]
        /\ \A s \in Parts : /\ TpOnly(pos).kv[s] = IF tracker.kv[s] <= pos THEN tracker.kv[s] ELSE pos
                            /\ TpOnly(pos).gdn[s] = -1
        /\ TpOnly(pos).seed = FALSE
    BY <1>1, TpOnlyFacts
  <1>7. pos' = end
    BY <1>2 DEF pos, end
  <1>8. draft' \in Stores /\ alone' \in Stores /\ draft'.hi = alone'.hi /\ Begin(draft)' = Begin(alone)'
        /\ draft'.hi <= end
    <2>1. /\ draft \in Stores /\ alone \in Stores /\ draft.hi = alone.hi /\ Begin(draft) = Begin(alone)
          /\ draft.hi <= pos
      BY ReadyFacts
    <2>2. draft.hi \in Nat /\ alone.hi \in Nat
      BY <2>1, BeginFacts
    <2>3. CASE ~feeds
      <3>1. draft' = draft /\ alone' = alone
        BY <1>2, <2>3
      <3>2. Begin(draft)' = Begin(draft) /\ Begin(alone)' = Begin(alone)
        BY <3>1 DEF Begin
      <3> QED BY <1>1, <1>3, <2>1, <2>2, <3>1, <3>2
    <2>4. CASE feeds
      <3> DEFINE d == InjectFeatures(draft, pos, end)
                 e == InjectFeatures(alone, pos, end)
      <3>2. d \in Stores /\ e \in Stores /\ d.hi = end /\ e.hi = end /\ Begin(d) = Begin(e)
        BY <1>1, <1>3, <2>1, InjectBoth
      <3>3. draft' = d /\ alone' = e
        BY <1>2, <2>4
      <3> HIDE DEF d, e
      <3>4. Begin(draft)' = Begin(d) /\ Begin(alone)' = Begin(e)
        BY <3>3 DEF Begin
      <3> QED BY <1>3, <3>2, <3>3, <3>4
    <2> QED BY <2>3, <2>4
  <1>9. Shapes'
    <2>1. new \in Seq(Nat \ {0})
      BY <1>3 DEF Feeds
    <2>2. calls' \in 0..MaxCalls
      BY <1>1, Constants DEF Shapes
    <2>3. {spec', atEnd', inject'} \subseteq BOOLEAN
      <3>1. inject \in BOOLEAN
        BY <1>1 DEF Shapes
      <3> QED BY <1>2, <3>1
    <2> QED BY <1>1, <1>2, <1>3, <1>6, <1>7, <1>8, <2>1, <2>2, <2>3 DEF Shapes
  <1>10. ShardsAreExact'
    BY <1>2 DEF ShardsAreExact, Exact, pos, Mtp
  <1>11. MirrorsAreTrue'
    <2>1. SUFFICES ASSUME NEW s \in Parts, NEW r \in 0..Min({tracker'.kv[s], pos'}) - 1
                   PROVE  stage.part[s].kv[r] = shards'.part[s].kv[r]
      BY <1>2, <1>6 DEF MirrorsAreTrue
    <2>2. tracker.kv[s] \in Nat /\ \A q \in Rows : q < tracker.kv[s] /\ q < pos =>
                                     stage.part[s].kv[q] = shards.part[s].kv[q]
      BY ReadyFacts
    <2>3. tracker'.kv[s] = IF tracker.kv[s] <= pos THEN tracker.kv[s] ELSE pos
      BY <1>2, <1>6
    <2>4. tracker'.kv[s] \in Int /\ pos' \in Int
      BY <1>1, <1>3, <1>7, <2>2, <2>3
    <2>5. Min({tracker'.kv[s], pos'}) = IF tracker'.kv[s] <= pos' THEN tracker'.kv[s] ELSE pos'
      BY <2>4, MinMax
    <2>6. tracker'.kv[s] <= tracker.kv[s] /\ tracker'.kv[s] <= pos /\ tracker'.kv[s] \in Nat
      BY <1>1, <2>2, <2>3
    <2> DEFINE k == tracker'.kv[s]
    <2>7. r \in Nat /\ r < k
      <3> DEFINE q == pos'
      <3> HIDE DEF k, q
      <3>1. Min({k, q}) = (IF k <= q THEN k ELSE q) /\ k \in Int /\ q \in Int
        BY <2>4, <2>5 DEF k, q
      <3>2. r \in 0..Min({k, q}) - 1
        BY DEF k, q
      <3> QED BY <3>1, <3>2
    <2> HIDE DEF k
    <2>8. k <= tracker.kv[s] /\ k <= pos /\ k \in Nat /\ tracker.kv[s] \in Nat
      BY <2>2, <2>6 DEF k
    <2>9. r \in Rows /\ r < tracker.kv[s] /\ r < pos
      BY <1>1, <2>7, <2>8 DEF Rows
    <2> QED BY <2>2, <2>9
  <1>12. Fronts'
    BY <1>7, <1>8 DEF Fronts
  <1>13. CkptIsTrue'
    BY <1>2, <1>3, CkptKept
  <1> QED BY <1>1, <1>2, <1>9, <1>10, <1>11, <1>12, <1>13 DEF IInv

(* A TP prefill or a decode step keeps the invariant. *)
LEMMA TpForwardStep ==
  ASSUME IInv, state = "ready", NEW n \in Nat, pos + n <= MaxPos, TpForward(n),
         calls < MaxCalls, calls' = calls + 1, atEnd' \in BOOLEAN, spec' \in BOOLEAN
  PROVE  IInv'
  <1> DEFINE new == Feed(n)
             m == Forward(shards, hist, new)
  <1>1. shards' = m /\ drafted' = drafted /\ TpMoved(new, Injecting)
    BY DEF TpForward
  <1>2. Shapes /\ Exact(shards, hist, drafted) /\ shards \in Holder /\ pos = Len(hist)
    BY ReadyFacts
  <1>3. Grows(hist, new)
    BY <1>2, FeedGrows
  <1> HIDE DEF new
  <1>4. /\ m \in Holder /\ Exact(m, new, drafted)
        /\ \A s \in Parts, r \in Rows : r < pos => m.part[s].kv[r] = shards.part[s].kv[r]
    BY <1>2, <1>3, ForwardFacts
  <1> HIDE DEF m
  <1>5. drafted' \subseteq Rows
    BY <1>1, <1>2 DEF Shapes
  <1> QED BY <1>1, <1>3, <1>4, <1>5, MovedStep

(* Both parts after a round that keeps some of its rows. *)
LEMMA VerifiedPartsFacts ==
  ASSUME IInv, state = "ready", NEW k \in Nat, NEW new, Grows(hist, new)
  PROVE  /\ VerifiedParts(k, new) \in [Parts -> PartStates]
         /\ \A s \in Parts : Sound(VerifiedParts(k, new)[s], new)
         /\ \A s \in Parts, r \in Rows : r < pos => VerifiedParts(k, new)[s].kv[r] = shards.part[s].kv[r]
  <1> DEFINE part == [s \in Parts |-> Verified(shards.part[s], hist, k, new, TRUE)]
             ok == \A s \in Parts : Sound(shards.part[s], hist)
  <1>1. shards \in Holder /\ pos = Len(hist) /\ Exact(shards, hist, drafted)
    BY ReadyFacts
  <1>2. VerifiedParts(k, new) = part
    <2>1. ok = TRUE
      BY <1>1 DEF Exact
    <2>2. VerifiedParts(k, new) = [s \in Parts |-> Verified(shards.part[s], hist, k, new, ok)]
      BY DEF VerifiedParts
    <2> HIDE DEF ok
    <2> QED BY <2>1, <2>2
  <1>3. ASSUME NEW s \in Parts
        PROVE  /\ part[s] \in PartStates /\ Sound(part[s], new)
               /\ \A r \in Rows : r < pos => part[s].kv[r] = shards.part[s].kv[r]
    <2> DEFINE v == Verified(shards.part[s], hist, k, new, TRUE)
    <2>1. shards.part[s] \in PartStates /\ Sound(shards.part[s], hist)
      BY <1>1, HolderFacts DEF Exact
    <2>2. /\ v \in PartStates
          /\ \A r \in Rows : r < Len(hist) => v.kv[r] = shards.part[s].kv[r]
          /\ Sound(v, new)
      BY <2>1, VerifiedFacts, Zenon
    <2>3. part[s] = v
      OBVIOUS
    <2> HIDE DEF part, v
    <2> QED BY <1>1, <2>2, <2>3
  <1>4. part \in [Parts -> PartStates]
    BY <1>3
  <1> HIDE DEF part
  <1> QED BY <1>2, <1>3, <1>4

(* What a round finds and what its tokens add. *)
LEMMA RoundFacts ==
  ASSUME IInv, NEW k \in 0..DraftK, NEW kept \in 1..k + 1, Round(k, kept)
  PROVE  /\ state = "ready" /\ calls < MaxCalls /\ calls' = calls + 1
         /\ atEnd' \in BOOLEAN /\ spec' \in BOOLEAN
         /\ k \in Nat /\ kept \in Nat /\ 1 <= kept /\ pos > 0 /\ pos + kept <= MaxPos
         /\ Grows(hist, Feed(kept)) /\ Len(Feed(kept)) = pos + kept
  <1>1. /\ state = "ready" /\ calls < MaxCalls /\ calls' = calls + 1 /\ pos > 0 /\ pos + k + 1 <= MaxPos
        /\ atEnd' = FALSE /\ spec' = (kept > 1)
    BY DEF Round, Ready
  <1>2. atEnd' \in BOOLEAN /\ spec' \in BOOLEAN
    <2>1. (kept > 1) \in BOOLEAN
      OBVIOUS
    <2> QED BY <1>1, <2>1, Zenon
  <1>3. Shapes /\ pos \in Nat /\ MaxPos \in Nat
    BY <1>1, ReadyFacts
  <1>4. k \in Nat /\ kept \in Nat /\ 1 <= kept /\ kept <= k + 1
    BY Constants
  <1>5. pos + kept <= MaxPos
    BY <1>1, <1>3, <1>4
  <1>6. Grows(hist, Feed(kept)) /\ Len(Feed(kept)) = pos + kept
    BY <1>3, <1>4, <1>5, FeedGrows
  <1> QED BY <1>1, <1>2, <1>4, <1>5, <1>6

(* An MTP round keeps the invariant: the one row it must leave right is    *)
(* that of the last position, which the first draft step writes from the   *)
(* seed; those of the accepted drafts join the excepted ones.              *)
LEMMA MtpRoundStep ==
  ASSUME IInv, NEW k \in 0..DraftK, NEW kept \in 1..k + 1, MtpRound(k, kept)
  PROVE  IInv'
  <1> DEFINE new == Feed(kept)
             ok == \A s \in Parts : Sound(shards.part[s], hist)
             part == VerifiedParts(k, new)
             mtp == Drafted(shards.mtp, hist, hist, k, new)
             seed == Seeded(shards.seed, new, TRUE)
             d == drafted \cup (pos..pos + kept - 2)
             w == [part |-> part, mtp |-> mtp, seed |-> seed]
  <1>1. /\ Mtp /\ Round(k, kept) /\ drafted' = d /\ TpMoved(new, FALSE)
        /\ shards' = [part |-> part, mtp |-> Drafted(shards.mtp, shards.seed, hist, k, new),
                      seed |-> Seeded(shards.seed, new, ok)]
    BY DEF MtpRound
  <1>2. /\ state = "ready" /\ calls < MaxCalls /\ calls' = calls + 1
        /\ atEnd' \in BOOLEAN /\ spec' \in BOOLEAN
        /\ k \in Nat /\ kept \in Nat /\ 1 <= kept /\ pos > 0 /\ pos + kept <= MaxPos
        /\ Grows(hist, new) /\ Len(new) = pos + kept
    BY <1>1, RoundFacts
  <1>3. /\ Shapes /\ Exact(shards, hist, drafted) /\ shards \in Holder
        /\ pos = Len(hist) /\ pos \in Nat /\ MaxPos \in Nat
    BY <1>2, ReadyFacts
  <1>4. shards' = w
    <2>1. ok = TRUE /\ shards.seed = hist
      BY <1>1, <1>3 DEF Exact
    <2> HIDE DEF ok
    <2> QED BY <1>1, <2>1
  <1> HIDE DEF new
  <1>5. /\ part \in [Parts -> PartStates]
        /\ \A s \in Parts : Sound(part[s], new)
        /\ \A s \in Parts, r \in Rows : r < pos => part[s].kv[r] = shards.part[s].kv[r]
    BY <1>2, VerifiedPartsFacts
  <1>6. /\ mtp \in RowStore
        /\ mtp[pos - 1] = SubSeq(new, 1, pos + 1)
        /\ \A r \in Rows : r < pos - 1 => mtp[r] = shards.mtp[r]
    <2>1. shards.mtp \in RowStore /\ Len(hist) < Len(new) /\ Len(hist) > 0
      BY <1>2, <1>3, HolderFacts
    <2>2. IsDrafted(mtp, shards.mtp, hist, new)
      BY <1>2, <2>1, DraftedFacts
    <2> HIDE DEF mtp
    <2> QED BY <1>3, <2>2 DEF IsDrafted
  <1>7. seed \in Hist /\ seed = new
    BY <1>1, <1>2, <1>3, HolderFacts, GrowsFacts, SeededFacts
  <1> HIDE DEF part, mtp, seed
  <1>8. w \in Holder /\ w.part = part /\ w.mtp = mtp /\ w.seed = seed
    BY <1>5, <1>6, <1>7 DEF Holder, PartStates
  <1> HIDE DEF w
  <1>9. ASSUME NEW r \in (0 .. Len(new) - 2) \ d PROVE mtp[r] = SubSeq(new, 1, r + 2)
    <2>1. r \in Nat /\ r <= pos - 1 /\ r \in Rows /\ r \notin drafted
      BY <1>2, <1>3 DEF Rows
    <2>2. CASE r = pos - 1
      <3>1. r + 2 = pos + 1
        BY <1>3, <2>2
      <3> QED BY <1>6, <2>2, <3>1
    <2>3. CASE r < pos - 1
      <3>1. r \in (0 .. Len(hist) - 2) \ drafted /\ r + 2 \in 0 .. Len(hist)
        BY <1>3, <2>1, <2>3
      <3>2. shards.mtp[r] = SubSeq(hist, 1, r + 2)
        BY <1>1, <1>3, <3>1 DEF Exact
      <3>3. SubSeq(new, 1, r + 2) = SubSeq(hist, 1, r + 2)
        BY <1>2, <3>1 DEF Grows
      <3> QED BY <1>6, <2>1, <2>3, <3>2, <3>3
    <2> QED BY <1>3, <2>1, <2>2, <2>3
  <1>10. Exact(w, new, d)
    BY <1>5, <1>7, <1>8, <1>9 DEF Exact
  <1>11. d \subseteq Rows
    <2>1. drafted \subseteq Rows
      BY <1>3 DEF Shapes
    <2>2. pos..pos + kept - 2 \subseteq Rows
      BY <1>2, <1>3 DEF Rows
    <2> QED BY <2>1, <2>2
  <1>12. \A s \in Parts, r \in Rows : r < pos => w.part[s].kv[r] = shards.part[s].kv[r]
    BY <1>5, <1>8
  <1> HIDE DEF d
  <1> QED BY <1>1, <1>2, <1>4, <1>8, <1>10, <1>11, <1>12, MovedStep

(* A DFlash round keeps the invariant. *)
LEMMA DflashRoundStep ==
  ASSUME IInv, NEW k \in 0..DraftK, NEW kept \in 1..k + 1, DflashRound(k, kept)
  PROVE  IInv'
  <1> DEFINE new == Feed(kept)
             part == VerifiedParts(k, new)
             w == [shards EXCEPT !.part = part]
  <1>1. ~Mtp /\ Round(k, kept) /\ shards' = w /\ drafted' = drafted /\ TpMoved(new, TRUE)
    BY DEF DflashRound, Injecting, Mtp
  <1>2. /\ state = "ready" /\ calls < MaxCalls /\ calls' = calls + 1
        /\ atEnd' \in BOOLEAN /\ spec' \in BOOLEAN /\ k \in Nat /\ Grows(hist, new)
    BY <1>1, RoundFacts
  <1>3. Shapes /\ shards \in Holder
    BY <1>2, ReadyFacts
  <1> HIDE DEF new
  <1>4. /\ part \in [Parts -> PartStates]
        /\ \A s \in Parts : Sound(part[s], new)
        /\ \A s \in Parts, r \in Rows : r < pos => part[s].kv[r] = shards.part[s].kv[r]
    BY <1>2, VerifiedPartsFacts
  <1> HIDE DEF part
  <1>5. w \in Holder /\ w.part = part
    BY <1>3, <1>4 DEF Holder, PartStates
  <1> HIDE DEF w
  <1>6. Exact(w, new, drafted)
    BY <1>1, <1>4, <1>5 DEF Exact
  <1>7. drafted' \subseteq Rows
    BY <1>1, <1>3 DEF Shapes
  <1>8. \A s \in Parts, r \in Rows : r < pos => w.part[s].kv[r] = shards.part[s].kv[r]
    BY <1>4, <1>5
  <1> QED BY <1>1, <1>2, <1>5, <1>6, <1>7, <1>8, MovedStep

-----------------------------------------------------------------------------
(* Pipelined calls.                                                        *)

(* The warm gather leaves the stages with the history: every row the       *)
(* tracker does not vouch for is in a gathered block, every state it does  *)
(* not vouch for is fetched, and so is the MTP block of the last position. *)
LEMMA GatheredFacts ==
  ASSUME IInv, state = "ready"
  PROVE  LET g == Gathered(PlanSync(pos), pos) IN
         /\ g \in Holder /\ (Mtp => g.seed = hist)
         /\ \A s \in Parts : Sound(g.part[s], hist)
         /\ Mtp => \A r \in Rows : pos > 0 /\ r \div BlockSize = MtpFirstBlock(pos) => g.mtp[r] = shards.mtp[r]
  <1> DEFINE plan == PlanSync(pos)
             kv(s) == CopyBlocks(stage.part[s].kv, shards.part[s].kv, BlocksOfRows(plan.row0[s], pos))
             gdn(s) == IF s \in plan.gdn THEN shards.part[s].gdn ELSE stage.part[s].gdn
             part == [s \in Parts |-> [kv |-> kv(s), gdn |-> gdn(s)]]
             mtp == CopyBlocks(stage.mtp, shards.mtp, plan.mtp)
             g == Gathered(plan, pos)
  <1>1. /\ Exact(shards, hist, drafted) /\ pos = Len(hist) /\ pos \in Nat /\ pos <= MaxPos /\ MaxPos \in Nat
        /\ shards \in Holder /\ stage \in Holder
    BY ReadyFacts
  <1>2. g = [part |-> part, mtp |-> mtp, seed |-> shards.seed]
    BY DEF Gathered
  <1>3. /\ plan.gdn = {s \in Parts : tracker.gdn[s] # pos}
        /\ \A s \in Parts : plan.row0[s] = Min({tracker.kv[s], pos})
        /\ plan.mtp = IF Mtp /\ pos > 0 THEN {MtpFirstBlock(pos)} ELSE {}
    BY DEF PlanSync
  <1> HIDE DEF plan
  <1>4. ASSUME NEW s \in Parts
        PROVE  [kv |-> kv(s), gdn |-> gdn(s)] \in PartStates /\ Sound([kv |-> kv(s), gdn |-> gdn(s)], hist)
    <2>1. /\ stage.part[s].kv \in RowStore /\ shards.part[s].kv \in RowStore
          /\ stage.part[s].gdn \in Hist /\ shards.part[s].gdn \in Hist
      BY <1>1, HolderFacts
    <2>2. /\ shards.part[s].gdn = hist
          /\ \A r \in 0..Len(hist) - 1 : shards.part[s].kv[r] = SubSeq(hist, 1, r + 1)
      BY <1>1 DEF Exact, Sound
    <2>3. /\ tracker.kv[s] \in Nat
          /\ \A r \in Rows : r < tracker.kv[s] /\ r < pos => stage.part[s].kv[r] = shards.part[s].kv[r]
          /\ tracker.gdn[s] # -1 => tracker.gdn[s] = pos /\ stage.part[s].gdn = shards.part[s].gdn
      BY ReadyFacts
    <2>4. gdn(s) = hist /\ gdn(s) \in Hist
      <3>1. pos # -1
        BY <1>1
      <3> QED BY <1>3, <2>1, <2>2, <2>3, <3>1
    <2> DEFINE row0 == plan.row0[s]
               blocks == BlocksOfRows(row0, pos)
    <2>5. row0 = (IF tracker.kv[s] <= pos THEN tracker.kv[s] ELSE pos) /\ row0 \in Nat
      <3>1. tracker.kv[s] \in Int /\ pos \in Int
        BY <1>1, <2>3
      <3>2. Min({tracker.kv[s], pos}) = IF tracker.kv[s] <= pos THEN tracker.kv[s] ELSE pos
        BY <3>1, MinMax
      <3> QED BY <1>1, <1>3, <2>3, <3>2
    <2> HIDE DEF row0, blocks
    <2>6. /\ kv(s) \in RowStore
          /\ \A r \in Rows : kv(s)[r] = IF r \div BlockSize \in blocks THEN shards.part[s].kv[r]
                                        ELSE stage.part[s].kv[r]
      BY <2>1, CopyFacts DEF blocks, row0
    <2> HIDE DEF kv, gdn
    <2>7. ASSUME NEW r \in 0..Len(hist) - 1 PROVE kv(s)[r] = SubSeq(hist, 1, r + 1)
      <3>1. r \in Rows /\ r \in Nat /\ r < pos
        BY <1>1 DEF Rows
      <3>2. CASE r < row0
        <4>1. r < tracker.kv[s]
          BY <1>1, <2>3, <2>5, <3>1, <3>2
        <4>2. stage.part[s].kv[r] = shards.part[s].kv[r]
          BY <2>3, <3>1, <4>1
        <4>3. shards.part[s].kv[r] = SubSeq(hist, 1, r + 1)
          BY <2>2
        <4> QED BY <2>6, <3>1, <4>2, <4>3
      <3>3. CASE r >= row0
        <4>1. r <= pos - 1 /\ pos - 1 \in Nat
          BY <1>1, <3>1
        <4>2. row0 \div BlockSize \in Nat /\ r \div BlockSize \in Nat /\ row0 \div BlockSize <= r \div BlockSize
          BY <2>5, <3>1, <3>3, BlocksGrow
        <4>3. (pos - 1) \div BlockSize \in Nat /\ r \div BlockSize <= (pos - 1) \div BlockSize
          BY <3>1, <4>1, BlocksGrow
        <4>4. pos > row0
          BY <1>1, <2>5, <3>1, <3>3
        <4>5. r \div BlockSize \in blocks
          BY <4>2, <4>3, <4>4 DEF blocks, BlocksOfRows
        <4> QED BY <2>2, <2>6, <3>1, <4>5
      <3> QED BY <2>5, <3>1, <3>2, <3>3
    <2> QED BY <2>4, <2>6, <2>7 DEF PartStates, Sound
  <1> HIDE DEF kv, gdn
  <1>5. \A s \in Parts : part[s] \in PartStates /\ Sound(part[s], hist)
    BY <1>4
  <1>6. part \in [Parts -> PartStates]
    BY <1>4
  <1> HIDE DEF part
  <1>7. stage.mtp \in RowStore /\ shards.mtp \in RowStore /\ shards.seed \in Hist
    BY <1>1, HolderFacts
  <1>8. /\ mtp \in RowStore
        /\ \A r \in Rows : mtp[r] = IF r \div BlockSize \in plan.mtp THEN shards.mtp[r] ELSE stage.mtp[r]
    BY <1>7, CopyFacts
  <1> HIDE DEF mtp, g
  <1>9. g \in Holder
    BY <1>2, <1>6, <1>7, <1>8 DEF Holder, PartStates
  <1>10. g.part = part /\ g.mtp = mtp /\ g.seed = shards.seed
    BY <1>2
  <1>11. Mtp => shards.seed = hist
    BY <1>1 DEF Exact
  <1>12. Mtp => \A r \in Rows : pos > 0 /\ r \div BlockSize = MtpFirstBlock(pos) => g.mtp[r] = shards.mtp[r]
    BY <1>3, <1>8, <1>10
  <1>13. \A s \in Parts : Sound(g.part[s], hist)
    BY <1>5, <1>10
  <1>14. Mtp => g.seed = hist
    BY <1>10, <1>11
  <1> QED BY <1>9, <1>12, <1>13, <1>14 DEF g, plan

(* Stages that have the history compute what it grew to. *)
LEMMA PipelinedFacts ==
  ASSUME NEW m \in Holder, NEW h, NEW new, Grows(h, new), Mtp => m.seed = h, \A s \in Parts : Sound(m.part[s], h)
  PROVE  LET a == Pipelined(m, h, new) IN
         /\ a \in Holder /\ (Mtp => a.seed = new)
         /\ \A s \in Parts : Sound(a.part[s], new)
         /\ Mtp => IsPrimed(a.mtp, m.mtp, h, new)
  <1> DEFINE okA == Sound(m.part["A"], h)
             okB == okA /\ Sound(m.part["B"], h)
             part == [s \in Parts |-> Written(m.part[s], h, new, TRUE)]
             mtp == Primed(m.mtp, m.seed, h, new, TRUE)
             seed == Seeded(m.seed, new, TRUE)
             a == Pipelined(m, h, new)
  <1>1. a = [part |-> part, mtp |-> mtp, seed |-> seed]
    <2>1. okA = TRUE /\ okB = TRUE
      BY DEF Parts
    <2>2. a = [part |-> [s \in Parts |-> Written(m.part[s], h, new, IF s = "A" THEN okA ELSE okB)],
               mtp  |-> Primed(m.mtp, m.seed, h, new, okB),
               seed |-> Seeded(m.seed, new, okB)]
      BY DEF Pipelined
    <2> HIDE DEF okA, okB
    <2>3. [s \in Parts |-> Written(m.part[s], h, new, IF s = "A" THEN okA ELSE okB)] = part
      BY <2>1, Zenon
    <2> HIDE DEF part, mtp, seed, a
    <2> QED BY <2>1, <2>2, <2>3 DEF mtp, seed
  <1>2. ASSUME NEW s \in Parts
        PROVE  part[s] \in PartStates /\ Sound(part[s], new)
    <2>1. m.part[s] \in PartStates /\ Sound(m.part[s], h)
      BY HolderFacts
    <2> DEFINE w == Written(m.part[s], h, new, TRUE)
    <2>2. w \in PartStates /\ Sound(w, new)
      BY <2>1, WrittenFacts, Zenon
    <2>3. part[s] = w
      OBVIOUS
    <2> HIDE DEF part, w
    <2> QED BY <2>2, <2>3
  <1>3. mtp \in RowStore /\ (Mtp => IsPrimed(mtp, m.mtp, h, new))
    <2>1. m.mtp \in RowStore
      BY HolderFacts
    <2> QED BY <2>1, PrimedFacts
  <1>4. seed \in Hist /\ (Mtp => seed = new)
    <2>1. m.seed \in Hist /\ new \in Hist
      BY HolderFacts, GrowsFacts
    <2> QED BY <2>1, SeededFacts
  <1> HIDE DEF mtp, seed
  <1>5. part \in [Parts -> PartStates]
    BY <1>2
  <1> HIDE DEF part, a
  <1>6. a \in Holder
    BY <1>1, <1>3, <1>4, <1>5 DEF Holder, PartStates
  <1>7. a.part = part /\ a.mtp = mtp /\ a.seed = seed
    BY <1>1
  <1> QED BY <1>2, <1>3, <1>4, <1>6, <1>7 DEF a

(* The scatter and the adoption leave the shards with what the stages      *)
(* computed: whole blocks, of which the rows below the call were gathered  *)
(* from the shards or are theirs still.                                    *)
LEMMA ScatteredFacts ==
  ASSUME IInv, state = "ready", NEW new, Grows(hist, new), pos < Len(new),
         NEW a \in Holder, Mtp => a.seed = new, \A s \in Parts : Sound(a.part[s], new),
         Mtp => \A r \in Rows : r >= pos - 1 /\ r <= Len(new) - 2 => a.mtp[r] = SubSeq(new, 1, r + 2),
         Mtp => \A r \in Rows : r < pos - 1 /\ pos > 0 /\ r \div BlockSize = MtpFirstBlock(pos)
                                => a.mtp[r] = shards.mtp[r]
  PROVE  Scattered(a, pos, Len(new)) \in Holder /\ Exact(Scattered(a, pos, Len(new)), new, drafted)
  <1> DEFINE end == Len(new)
             kv(s) == CopyBlocks(shards.part[s].kv, a.part[s].kv, KvScatterBlocks(pos, end))
             part == [s \in Parts |-> [kv |-> kv(s), gdn |-> a.part[s].gdn]]
             blocks == IF Mtp THEN MtpScatterBlocks(pos, end) ELSE {}
             mtp == CopyBlocks(shards.mtp, a.mtp, blocks)
             sc == Scattered(a, pos, end)
  <1>1. /\ Exact(shards, hist, drafted) /\ pos = Len(hist) /\ pos \in Nat /\ pos <= MaxPos /\ MaxPos \in Nat
        /\ shards \in Holder
    BY ReadyFacts
  <1>2. end \in Nat /\ end <= MaxPos /\ pos <= end - 1 /\ end - 1 \in Nat
    BY <1>1, GrowsFacts DEF Grows
  <1>3. sc = [part |-> part, mtp |-> mtp, seed |-> a.seed]
    BY DEF Scattered
  <1>4. \A q \in 0..Len(hist) : SubSeq(new, 1, q) = SubSeq(hist, 1, q)
    BY DEF Grows
  <1>5. a.mtp \in RowStore /\ shards.mtp \in RowStore /\ a.seed \in Hist
        /\ \A s \in Parts : /\ a.part[s].kv \in RowStore /\ a.part[s].gdn \in Hist
                            /\ shards.part[s].kv \in RowStore
    BY <1>1, HolderFacts
  <1> HIDE DEF end
  <1>6. ASSUME NEW s \in Parts
        PROVE  kv(s) \in RowStore /\ \A r \in 0..end - 1 : kv(s)[r] = SubSeq(new, 1, r + 1)
    <2> DEFINE kvBlocks == KvScatterBlocks(pos, end)
    <2>1. /\ kv(s) \in RowStore
          /\ \A r \in Rows : kv(s)[r] = IF r \div BlockSize \in kvBlocks THEN a.part[s].kv[r] ELSE shards.part[s].kv[r]
      BY <1>5, CopyFacts
    <2>2. kvBlocks = pos \div BlockSize..(end - 1) \div BlockSize
      BY <1>1, <1>2 DEF KvScatterBlocks, BlocksOfRows
    <2> HIDE DEF kv, kvBlocks
    <2>3. ASSUME NEW r \in 0..end - 1 PROVE kv(s)[r] = SubSeq(new, 1, r + 1)
      <3>1. r \in Rows /\ r \in Nat /\ r <= end - 1
        BY <1>1, <1>2 DEF Rows
      <3>2. a.part[s].kv[r] = SubSeq(new, 1, r + 1)
        BY DEF Sound, end
      <3>3. CASE r < pos
        <4>1. r \in 0..Len(hist) - 1 /\ r + 1 \in 0..Len(hist)
          BY <1>1, <3>1, <3>3
        <4>2. shards.part[s].kv[r] = SubSeq(hist, 1, r + 1)
          BY <1>1, <4>1 DEF Exact, Sound
        <4> QED BY <1>4, <2>1, <3>1, <3>2, <4>1, <4>2
      <3>4. CASE r >= pos
        <4>1. pos \div BlockSize \in Nat /\ r \div BlockSize \in Nat /\ pos \div BlockSize <= r \div BlockSize
          BY <1>1, <3>1, <3>4, BlocksGrow
        <4>2. (end - 1) \div BlockSize \in Nat /\ r \div BlockSize <= (end - 1) \div BlockSize
          BY <1>2, <3>1, BlocksGrow
        <4>3. r \div BlockSize \in kvBlocks
          BY <2>2, <4>1, <4>2
        <4> QED BY <2>1, <3>1, <3>2, <4>3
      <3> QED BY <1>1, <3>1, <3>3, <3>4
    <2> QED BY <2>1, <2>3
  <1>7. /\ mtp \in RowStore
        /\ \A r \in Rows : mtp[r] = IF r \div BlockSize \in blocks THEN a.mtp[r] ELSE shards.mtp[r]
    BY <1>5, CopyFacts
  <1> HIDE DEF mtp, blocks
  <1>8. ASSUME Mtp, NEW r \in (0..end - 2) \ drafted PROVE mtp[r] = SubSeq(new, 1, r + 2)
    <2>1. r \in Rows /\ r \in Nat /\ r <= end - 2 /\ r <= end - 1
      BY <1>1, <1>2 DEF Rows
    <2>2. blocks = MtpFirstBlock(pos)..(end - 1) \div BlockSize
      BY <1>8 DEF MtpScatterBlocks, blocks
    <2>3. r \div BlockSize \in Nat /\ (end - 1) \div BlockSize \in Nat /\ r \div BlockSize <= (end - 1) \div BlockSize
      BY <1>2, <2>1, BlocksGrow
    <2>4. mtp[r] = IF r \div BlockSize \in blocks THEN a.mtp[r] ELSE shards.mtp[r]
      BY <1>7, <2>1
    <2>5. CASE r >= pos - 1
      <3>1. a.mtp[r] = SubSeq(new, 1, r + 2)
        BY <1>8, <2>1, <2>5 DEF end
      <3>2. MtpFirstBlock(pos) \in Nat /\ MtpFirstBlock(pos) <= r \div BlockSize
        <4>1. CASE pos = 0
          BY <2>3, <4>1 DEF MtpFirstBlock
        <4>2. CASE pos > 0
          <5>1. pos - 1 \in Nat /\ pos - 1 <= r
            BY <1>1, <2>5, <4>2
          <5>2. (pos - 1) \div BlockSize \in Nat /\ (pos - 1) \div BlockSize <= r \div BlockSize
            BY <2>1, <5>1, BlocksGrow
          <5> QED BY <4>2, <5>2 DEF MtpFirstBlock
        <4> QED BY <1>1, <4>1, <4>2
      <3>3. r \div BlockSize \in blocks
        BY <2>2, <2>3, <3>2
      <3> QED BY <2>4, <3>1, <3>3
    <2>6. CASE r < pos - 1
      <3>1. pos > 0 /\ pos - 1 \in Nat /\ r <= pos - 1
        BY <1>1, <2>1, <2>6
      <3>2. MtpFirstBlock(pos) \in Nat /\ r \div BlockSize <= MtpFirstBlock(pos)
        <4>1. (pos - 1) \div BlockSize \in Nat /\ r \div BlockSize <= (pos - 1) \div BlockSize
          BY <2>1, <3>1, BlocksGrow
        <4> QED BY <3>1, <4>1 DEF MtpFirstBlock
      <3>3. shards.mtp[r] = SubSeq(new, 1, r + 2)
        <4>1. r \in (0..Len(hist) - 2) \ drafted /\ r + 2 \in 0..Len(hist)
          BY <1>1, <2>1, <2>6
        <4> QED BY <1>1, <1>4, <1>8, <4>1 DEF Exact
      <3>4. r \div BlockSize \in blocks => a.mtp[r] = shards.mtp[r]
        <4>1. ASSUME r \div BlockSize \in blocks PROVE r \div BlockSize = MtpFirstBlock(pos)
          BY <2>2, <2>3, <3>2, <4>1
        <4> QED BY <1>8, <2>1, <2>6, <3>1, <4>1
      <3> QED BY <2>4, <3>3, <3>4
    <2> QED BY <1>1, <2>1, <2>5, <2>6
  <1> HIDE DEF kv
  <1>9. ASSUME NEW s \in Parts
        PROVE  part[s] \in PartStates /\ Sound(part[s], new)
    <2>1. part[s] = [kv |-> kv(s), gdn |-> a.part[s].gdn]
      OBVIOUS
    <2>2. a.part[s].gdn = new
      BY DEF Sound
    <2> HIDE DEF part
    <2>3. part[s].kv = kv(s) /\ part[s].gdn = new
      BY <2>1, <2>2
    <2>4. part[s] \in PartStates
      BY <1>5, <1>6, <2>1 DEF PartStates
    <2> QED BY <1>6, <2>3, <2>4 DEF Sound, end
  <1>10. part \in [Parts -> PartStates]
    BY <1>9
  <1> HIDE DEF part, sc
  <1>11. sc \in Holder
    BY <1>3, <1>5, <1>7, <1>10 DEF Holder, PartStates
  <1>12. sc.part = part /\ sc.mtp = mtp /\ (Mtp => sc.seed = new)
    BY <1>3
  <1>13. Exact(sc, new, drafted)
    BY <1>8, <1>9, <1>12 DEF Exact, end
  <1> QED BY <1>11, <1>13 DEF sc, end

(* A tail for a call up to end, which the drafter at its frontier takes. *)
TailFits(t, end) ==
  /\ t.start = DflashTailStart(pos, end) /\ t.start + t.rows = end /\ t.use = Injecting
  /\ Injecting => CheckTailInject(draft.hi, end, t.start, end - t.start)

(* A pipelined call that is let through fails none of its own checks: the  *)
(* frontier the plan read is the one the tail finds.                       *)
LEMMA NoRefusal ==
  ASSUME IInv, state = "ready", NEW n \in Nat, pos + n <= MaxPos, ~PlanTail(n).problem
  PROVE  /\ SelfChecks(PlanTail(n), Feed(n), ReshardCollapse(spec)) = {}
         /\ TailFits(PlanTail(n), pos + n)
  <1> DEFINE start == DflashTailStart(pos, pos + n)
             rows == pos + n - start
             bad == Injecting /\ ~CheckTailInject(draft.hi, pos + n, start, rows)
             tail == PlanTail(n)
  <1>1. tail = [use |-> Injecting, start |-> start, rows |-> rows, problem |-> bad]
    BY DEF PlanTail
  <1>2. pos \in Nat /\ Shapes /\ MaxPos \in Nat
    BY ReadyFacts
  <1>3. start \in Nat
    <2>1. pos + n \in Nat /\ pos <= pos + n
      BY <1>2
    <2> QED BY <1>2, <2>1, TailStart
  <1>4. Len(Feed(n)) = pos + n
    BY <1>2, FeedGrows
  <1> HIDE DEF start, rows, bad
  <1>5. tail.use = Injecting /\ tail.start = start /\ tail.rows = rows /\ tail.problem = bad
    BY <1>1
  <1>6. ~bad
    BY <1>5, Zenon DEF tail
  <1> HIDE DEF tail
  <1>7. ~TailRefused(tail, Len(Feed(n)))
    <2>1. TailRefused(tail, Len(Feed(n))) = (Injecting /\ ~CheckTailInject(draft.hi, pos + n, start, rows))
      BY <1>4, <1>5, Zenon DEF TailRefused
    <2> QED BY <1>6, <2>1, Zenon DEF bad
  <1>8. SelfChecks(tail, Feed(n), ReshardCollapse(spec)) = {}
    BY <1>7, Zenon DEF SelfChecks, ReshardCollapse
  <1>9. start + rows = pos + n /\ rows = (pos + n) - start
    BY <1>2, <1>3 DEF rows
  <1>10. Injecting => CheckTailInject(draft.hi, pos + n, start, rows)
    BY <1>6, Zenon DEF bad
  <1>11. tail.start + tail.rows = pos + n
    BY <1>5, <1>9
  <1>12. Injecting => CheckTailInject(draft.hi, pos + n, tail.start, (pos + n) - tail.start)
    BY <1>5, <1>9, <1>10, Zenon
  <1>13. TailFits(tail, pos + n)
    BY <1>5, <1>11, <1>12, Zenon DEF TailFits, start
  <1> QED BY <1>8, <1>13, Zenon DEF tail

(* A pipelined call keeps the invariant. *)
LEMMA PipelinedStep ==
  ASSUME IInv, state = "ready", NEW n \in Nat, n > 0, pos + n <= MaxPos, pos + n <= StageCtx,
         ~PlanTail(n).problem, HybridPrefillRun(n, PlanTail(n)), calls < MaxCalls, calls' = calls + 1
  PROVE  IInv'
  <1> DEFINE new == Feed(n)
             end == pos + n
             tail == PlanTail(n)
             g == Gathered(PlanSync(pos), pos)
             a == Pipelined(g, hist, new)
             sc == Scattered(a, pos, end)
  <1>1. /\ Shapes /\ Exact(shards, hist, drafted) /\ refused = {}
        /\ hist \in Feeds /\ pos = Len(hist) /\ pos \in Nat /\ pos <= MaxPos /\ MaxPos \in Nat
        /\ shards \in Holder /\ stage \in Holder
        /\ draft \in Stores /\ alone \in Stores
        /\ draft.hi = alone.hi /\ Begin(draft) = Begin(alone) /\ draft.hi <= pos
    BY ReadyFacts
  <1>2. /\ hist' = new /\ stage' = a /\ shards' = sc /\ spec' = FALSE /\ atEnd' = TRUE
        /\ tracker' = AfterPipelined(end)
        /\ draft' = IF tail.use THEN InjectFeatures(draft, tail.start, tail.start + tail.rows) ELSE draft
        /\ alone' = IF Injecting THEN InjectFeatures(alone, pos, end) ELSE alone
        /\ UNCHANGED <<drafter, drafted, ckpt, inject, state, refused>>
    BY DEF HybridPrefillRun
  <1>3. Grows(hist, new) /\ Len(new) = end
    BY <1>1, FeedGrows
  <1>4. new \in Feeds /\ end \in Nat /\ end <= MaxPos /\ pos < end /\ pos <= end
    BY <1>1, <1>3, GrowsFacts DEF Grows
  <1>5. /\ tail.start = DflashTailStart(pos, end) /\ tail.start + tail.rows = end /\ tail.use = Injecting
        /\ Injecting => CheckTailInject(draft.hi, end, tail.start, end - tail.start)
    <2>1. TailFits(tail, end)
      BY NoRefusal
    <2> HIDE DEF tail, end
    <2> QED BY <2>1, Zenon DEF TailFits
  <1> HIDE DEF new, tail
  <1>6. /\ g \in Holder /\ (Mtp => g.seed = hist)
        /\ \A s \in Parts : Sound(g.part[s], hist)
        /\ Mtp => \A r \in Rows : pos > 0 /\ r \div BlockSize = MtpFirstBlock(pos) => g.mtp[r] = shards.mtp[r]
    BY GatheredFacts
  <1> HIDE DEF g
  <1>7. /\ a \in Holder /\ (Mtp => a.seed = new)
        /\ \A s \in Parts : Sound(a.part[s], new)
        /\ Mtp => IsPrimed(a.mtp, g.mtp, hist, new)
    BY <1>3, <1>6, PipelinedFacts
  <1> HIDE DEF a
  <1>8. sc \in Holder /\ Exact(sc, new, drafted)
    <2>1. Mtp => \A r \in Rows : r >= pos - 1 /\ r <= Len(new) - 2 => a.mtp[r] = SubSeq(new, 1, r + 2)
      BY <1>1, <1>7 DEF IsPrimed
    <2>2. Mtp => \A r \in Rows : r < pos - 1 /\ pos > 0 /\ r \div BlockSize = MtpFirstBlock(pos)
                                 => a.mtp[r] = shards.mtp[r]
      BY <1>1, <1>6, <1>7 DEF IsPrimed
    <2>3. pos < Len(new)
      BY <1>3, <1>4
    <2>4. Scattered(a, pos, Len(new)) \in Holder /\ Exact(Scattered(a, pos, Len(new)), new, drafted)
      BY <1>3, <1>7, <2>1, <2>2, <2>3, ScatteredFacts
    <2> QED BY <1>3, <2>4
  <1> HIDE DEF sc
  <1>9. pos' = end
    BY <1>2, <1>3 DEF pos
  <1> HIDE DEF end
  <1>10. draft' \in Stores /\ alone' \in Stores /\ draft'.hi = alone'.hi /\ Begin(draft)' = Begin(alone)'
         /\ draft'.hi <= end
    <2>1. draft.hi \in Nat
      BY <1>1, BeginFacts
    <2>2. CASE ~Injecting
      <3>1. draft' = draft /\ alone' = alone
        BY <1>2, <1>5, <2>2, Zenon
      <3>2. Begin(draft)' = Begin(draft) /\ Begin(alone)' = Begin(alone)
        BY <3>1 DEF Begin
      <3> QED BY <1>1, <1>4, <2>1, <3>1, <3>2
    <2>3. CASE Injecting
      <3> DEFINE d == InjectFeatures(draft, DflashTailStart(pos, end), end)
                 e == InjectFeatures(alone, pos, end)
      <3>1. CheckTailInject(draft.hi, end, DflashTailStart(pos, end), end - DflashTailStart(pos, end))
        BY <1>5, <2>3, Zenon
      <3>2. d \in Stores /\ e \in Stores /\ d.hi = end /\ e.hi = end /\ Begin(d) = Begin(e)
        BY <1>1, <1>4, <3>1, TailIsEnough
      <3>3. draft' = d /\ alone' = e
        BY <1>2, <1>5, <2>3, Zenon
      <3> HIDE DEF d, e
      <3>4. Begin(draft)' = Begin(d) /\ Begin(alone)' = Begin(e)
        BY <3>3 DEF Begin
      <3> QED BY <1>4, <3>2, <3>3, <3>4
    <2> QED BY <2>2, <2>3
  <1>11. /\ tracker' = [kv |-> [s \in Parts |-> end], gdn |-> [s \in Parts |-> end], seed |-> TRUE]
         /\ end \in 0..StageCtx /\ end \in -1..StageCtx
    <2>1. end <= StageCtx /\ StageCtx \in Nat
      BY Constants DEF end
    <2> QED BY <1>2, <1>4, <2>1 DEF AfterPipelined
  <1>12. Shapes'
    <2>1. new \in Seq(Nat \ {0})
      BY <1>4 DEF Feeds
    <2>2. calls' \in 0..MaxCalls
      BY <1>1, Constants DEF Shapes
    <2>3. {spec', atEnd', inject'} \subseteq BOOLEAN
      <3>1. inject \in BOOLEAN
        BY <1>1 DEF Shapes
      <3> QED BY <1>2, <3>1
    <2>4. tracker' \in [kv : [Parts -> 0..StageCtx], gdn : [Parts -> -1..StageCtx], seed : BOOLEAN]
      BY <1>11
    <2> QED BY <1>1, <1>2, <1>4, <1>7, <1>8, <1>9, <1>10, <2>1, <2>2, <2>3, <2>4 DEF Shapes
  <1>13. ShardsAreExact'
    BY <1>2, <1>8 DEF ShardsAreExact, Exact, pos, Mtp
  <1>14. MirrorsAreTrue'
    <2>1. \A s \in Parts : tracker'.kv[s] = end /\ tracker'.gdn[s] = end
      BY <1>11
    <2>2. Min({end, end}) = end
      <3>1. end \in Int
        BY <1>4
      <3> QED BY <3>1, MinMax
    <2>3. ASSUME NEW s \in Parts, NEW r \in 0..end - 1
          PROVE  a.part[s].kv[r] = sc.part[s].kv[r]
      <3>1. Sound(a.part[s], new) /\ Sound(sc.part[s], new)
        BY <1>7, <1>8 DEF Exact
      <3> QED BY <1>3, <3>1 DEF Sound
    <2>4. \A s \in Parts : a.part[s].gdn = sc.part[s].gdn
      BY <1>7, <1>8 DEF Exact, Sound
    <2>5. Mtp => a.seed = sc.seed
      BY <1>7, <1>8 DEF Exact
    <2>6. ASSUME NEW s \in Parts
          PROVE  /\ \A r \in 0..Min({tracker'.kv[s], pos'}) - 1 : stage'.part[s].kv[r] = shards'.part[s].kv[r]
                 /\ tracker'.gdn[s] # -1 => /\ tracker'.gdn[s] = pos'
                                            /\ stage'.part[s].gdn = shards'.part[s].gdn
      BY <1>2, <1>9, <2>1, <2>2, <2>3, <2>4
    <2> QED BY <1>2, <2>5, <2>6 DEF MirrorsAreTrue, Mtp
  <1>15. Fronts'
    BY <1>9, <1>10 DEF Fronts
  <1>16. CkptIsTrue'
    BY <1>2, <1>3, CkptKept
  <1> QED BY <1>1, <1>2, <1>12, <1>13, <1>14, <1>15, <1>16 DEF IInv

-----------------------------------------------------------------------------
(* The other calls.                                                        *)

(* Contents of a failed call, and of a reset, are contents still. *)
LEMMA ScrambledFacts ==
  /\ Scrambled \in Holder
  /\ \A m \in Holder : Zeroed(m) \in Holder /\ Exact(Zeroed(m), <<>>, {}) /\ Zeroed(m).seed = <<>>
  <1>1. Junk \in Hist /\ <<>> \in Hist /\ Len(<<>>) = 0
    BY FeedsAreHist, EmptySeq DEF Hist
  <1>2. Scrambled \in Holder
    BY <1>1 DEF Scrambled, Holder, RowStore
  <1>3. ASSUME NEW m \in Holder
        PROVE  Zeroed(m) \in Holder /\ Exact(Zeroed(m), <<>>, {}) /\ Zeroed(m).seed = <<>>
    <2> DEFINE part == [s \in Parts |-> [m.part[s] EXCEPT !.gdn = <<>>]]
               z == [m EXCEPT !.part = part, !.seed = <<>>]
    <2>1. Zeroed(m) = z
      BY DEF Zeroed
    <2>2. ASSUME NEW s \in Parts PROVE part[s] \in PartStates /\ part[s].gdn = <<>>
      <3>1. m.part[s] \in PartStates
        BY HolderFacts
      <3> QED BY <1>1, <3>1 DEF PartStates
    <2>3. part \in [Parts -> PartStates]
      BY <2>2
    <2> HIDE DEF part
    <2>4. z \in Holder /\ z.part = part /\ z.seed = <<>>
      BY <1>1, <2>3 DEF Holder, PartStates
    <2> HIDE DEF z
    <2>5. \A s \in Parts : Sound(z.part[s], <<>>)
      BY <1>1, <2>2, <2>4 DEF Sound
    <2>6. Exact(z, <<>>, {})
      BY <1>1, <2>4, <2>5 DEF Exact
    <2> QED BY <2>1, <2>4, <2>6
  <1> QED BY <1>2, <1>3

(* The tracker that is told of a restore. *)
LEMMA TpRestoredFacts ==
  ASSUME Shapes
  PROVE  /\ TpRestored \in [kv : [Parts -> 0..StageCtx], gdn : [Parts -> -1..StageCtx], seed : BOOLEAN]
         /\ TpRestored.kv = tracker.kv /\ TpRestored.seed = FALSE
         /\ \A s \in Parts : TpRestored.gdn[s] = -1
  <1>1. tracker \in [kv : [Parts -> 0..StageCtx], gdn : [Parts -> -1..StageCtx], seed : BOOLEAN]
    BY DEF Shapes
  <1>2. StageCtx \in Nat
    BY Constants
  <1>3. [s \in Parts |-> -1] \in [Parts -> -1..StageCtx]
    BY <1>2
  <1>4. TpRestored = [tracker EXCEPT !.gdn = [s \in Parts |-> -1], !.seed = FALSE]
    BY DEF TpRestored
  <1> QED BY <1>1, <1>3, <1>4

(* A call that failed keeps the invariant: nothing is promised of it. *)
LEMMA FailedStep ==
  ASSUME IInv, state' \in {"needs_recovery", "fatal"},
         shards' = Scrambled, stage' = Scrambled,
         hist' = <<>>, drafted' = {}, spec' = FALSE, atEnd' = FALSE, ckpt' = NoCkpt,
         tracker' \in {tracker, TpOnly(pos), TpRestored},
         UNCHANGED <<drafter, draft, alone, inject, refused>>, calls' \in 0..MaxCalls
  PROVE  IInv'
  <1>1. Shapes /\ refused = {}
    BY DEF IInv
  <1>2. pos \in Nat
    BY <1>1, LenProperties DEF Shapes, pos
  <1>3. tracker' \in [kv : [Parts -> 0..StageCtx], gdn : [Parts -> -1..StageCtx], seed : BOOLEAN]
    <2>1. TpOnly(pos) \in [kv : [Parts -> 0..StageCtx], gdn : [Parts -> -1..StageCtx], seed : BOOLEAN]
      BY <1>1, <1>2, TpOnlyFacts
    <2>2. TpRestored \in [kv : [Parts -> 0..StageCtx], gdn : [Parts -> -1..StageCtx], seed : BOOLEAN]
      BY <1>1, TpRestoredFacts
    <2>3. tracker \in [kv : [Parts -> 0..StageCtx], gdn : [Parts -> -1..StageCtx], seed : BOOLEAN]
      BY <1>1 DEF Shapes
    <2> QED BY <2>1, <2>2, <2>3
  <1>4. Shapes'
    <2>1. hist' \in Seq(Nat \ {0}) /\ pos' <= MaxPos
      BY Constants, EmptySeq DEF pos
    <2>2. {spec', atEnd', inject'} \subseteq BOOLEAN
      <3>1. inject \in BOOLEAN
        BY <1>1 DEF Shapes
      <3> QED BY <3>1
    <2>3. shards' \in Holder /\ stage' \in Holder
      BY ScrambledFacts
    <2>4. /\ drafter' \in {"mtp", "dflash"} /\ drafted' \subseteq Rows
          /\ state' \in {"ready", "needs_recovery", "fatal"} /\ draft' \in Stores /\ alone' \in Stores
      BY <1>1 DEF Shapes
    <2>5. ckpt' = NoCkpt \/ ckpt' \in Checkpoints
      OBVIOUS
    <2> QED BY <1>3, <2>1, <2>2, <2>3, <2>4, <2>5 DEF Shapes
  <1>5. state' # "ready"
    OBVIOUS
  <1> QED BY <1>1, <1>4, <1>5 DEF IInv, ShardsAreExact, MirrorsAreTrue, Fronts, CkptIsTrue

(* Model::SaveCheckpoint. *)
LEMMA SaveStep ==
  ASSUME IInv, SaveCheckpoint
  PROVE  IInv'
  <1>1. /\ state = "ready"
        /\ ckpt' = [pos |-> pos, hist |-> hist, gdn |-> [s \in Parts |-> shards.part[s].gdn], seed |-> shards.seed]
        /\ UNCHANGED <<drafter, hist, shards, drafted, spec, atEnd, stage, tracker, draft, alone, inject, state, refused, calls>>
    BY DEF SaveCheckpoint
  <1>2. /\ Shapes /\ Exact(shards, hist, drafted) /\ hist \in Feeds /\ pos = Len(hist) /\ pos \in Nat /\ shards \in Holder
    BY <1>1, ReadyFacts
  <1>3. hist \in Hist /\ shards.seed \in Hist /\ \A s \in Parts : shards.part[s].gdn \in Hist
    BY <1>2, HolderFacts, FeedsAreHist
  <1>4. (Mtp => shards.seed = hist) /\ \A s \in Parts : shards.part[s].gdn = hist
    BY <1>2 DEF Exact, Sound
  <1>5. ckpt' \in Checkpoints
    BY <1>1, <1>2, <1>3, <1>4 DEF Checkpoints
  <1>6. /\ ckpt'.pos = pos /\ ckpt'.hist = hist /\ (Mtp => ckpt'.seed = hist)
        /\ \A s \in Parts : ckpt'.gdn[s] = hist
    BY <1>1, <1>4
  <1>7. SubSeq(hist, 1, pos) = hist
    BY <1>2, SubSeqFull DEF Feeds
  <1>8. pos' = pos
    BY <1>1 DEF pos
  <1>9. CkptIsTrue'
    BY <1>1, <1>2, <1>6, <1>7, <1>8 DEF CkptIsTrue, Mtp
  <1>10. Shapes'
    BY <1>1, <1>2, <1>5, <1>8 DEF Shapes
  <1>11. ShardsAreExact' /\ MirrorsAreTrue' /\ refused' = {}
    BY <1>1, <1>8 DEF IInv, ShardsAreExact, MirrorsAreTrue, Mtp
  <1>12. Fronts'
    BY <1>1, <1>8 DEF IInv, Fronts, Begin
  <1> QED BY <1>9, <1>10, <1>11, <1>12 DEF IInv

(* Two stores that begin and end alike do so after a rewind. *)
LEMMA RewindBoth ==
  ASSUME NEW d \in Stores, NEW e \in Stores, d.hi = e.hi, Begin(d) = Begin(e), NEW n \in 0..MaxPos
  PROVE  LET t == Rewind(d, n)
             w == Rewind(e, n)
         IN t \in Stores /\ w \in Stores /\ t.hi = w.hi /\ t.hi <= n /\ Begin(t) = Begin(w)
  <1> DEFINE t == Rewind(d, n)
             w == Rewind(e, n)
  <1>1. d.hi \in Nat /\ n \in Nat
    BY BeginFacts, Constants
  <1>2. /\ t \in Stores
        /\ d.hi > n => t.hi = n /\ Begin(t) = Max({Min({n, Begin(d)}), n - Window})
        /\ d.hi <= n => t = d
    BY RewindFacts
  <1>3. /\ w \in Stores
        /\ e.hi > n => w.hi = n /\ Begin(w) = Max({Min({n, Begin(e)}), n - Window})
        /\ e.hi <= n => w = e
    BY RewindFacts
  <1> HIDE DEF t, w
  <1> QED BY <1>1, <1>2, <1>3 DEF t, w

(* Model::RestoreCheckpoint: the rows below the checkpoint are still there *)
(* and the states it saved are those of its history.                       *)
LEMMA RestoreStep ==
  ASSUME IInv, RestoreCheckpoint
  PROVE  IInv'
  <1> DEFINE h == ckpt.hist
             left == drafted \cap (0..ckpt.pos - 2)
             part == [s \in Parts |-> [shards.part[s] EXCEPT !.gdn = ckpt.gdn[s]]]
  <1>1. /\ state = "ready" /\ calls < MaxCalls /\ ckpt # NoCkpt /\ calls' = calls + 1
        /\ tracker' = TpRestored /\ hist' = h /\ drafted' = left
        /\ shards' = [shards EXCEPT !.part = part, !.seed = ckpt.seed]
        /\ spec' = FALSE /\ atEnd' = TRUE
        /\ draft' = Rewind(draft, ckpt.pos) /\ alone' = Rewind(alone, ckpt.pos)
        /\ UNCHANGED <<drafter, ckpt, stage, inject, state, refused>>
    BY DEF RestoreCheckpoint, Ready
  <1>2. /\ Shapes /\ Exact(shards, hist, drafted) /\ refused = {}
        /\ hist \in Feeds /\ pos = Len(hist) /\ pos \in Nat /\ pos <= MaxPos /\ MaxPos \in Nat
        /\ shards \in Holder /\ stage \in Holder
        /\ draft \in Stores /\ alone \in Stores
        /\ draft.hi = alone.hi /\ Begin(draft) = Begin(alone)
    BY <1>1, ReadyFacts
  <1>3. /\ ckpt.pos \in 0..pos /\ h = SubSeq(hist, 1, ckpt.pos) /\ (Mtp => ckpt.seed = h) /\ ckpt.seed \in Hist
        /\ \A s \in Parts : ckpt.gdn[s] = h
    BY <1>1 DEF IInv, Shapes, CkptIsTrue, Checkpoints, NoCkpt
  <1>4. h \in Feeds /\ Len(h) = ckpt.pos /\ h \in Hist /\ SubSeq(h, 1, ckpt.pos) = h
    <2>1. h \in Feeds /\ Len(h) = ckpt.pos
      BY <1>2, <1>3, Prefixes DEF Feeds
    <2>2. SubSeq(h, 1, Len(h)) = h
      BY <2>1, SubSeqFull DEF Feeds
    <2> QED BY <2>1, <2>2, FeedsAreHist
  <1>5. \A n \in 0..ckpt.pos : SubSeq(h, 1, n) = SubSeq(hist, 1, n)
    BY <1>2, <1>3, PrefixOfPrefix DEF Feeds
  <1> HIDE DEF h
  <1>6. pos' = ckpt.pos
    BY <1>1, <1>4 DEF pos
  <1>7. ckpt.pos \in Nat /\ ckpt.pos <= pos /\ ckpt.pos \in 0..MaxPos
    BY <1>2, <1>3
  <1>8. ASSUME NEW s \in Parts
        PROVE  part[s] \in PartStates /\ part[s].gdn = h /\ part[s].kv = shards.part[s].kv
    <2>1. shards.part[s] \in PartStates
      BY <1>2, HolderFacts
    <2> QED BY <1>3, <1>4, <2>1 DEF PartStates
  <1>9. part \in [Parts -> PartStates]
    BY <1>8
  <1> HIDE DEF part
  <1>10. shards' \in Holder /\ shards'.part = part /\ shards'.mtp = shards.mtp /\ (Mtp => shards'.seed = h)
    BY <1>1, <1>2, <1>3, <1>4, <1>9 DEF Holder, PartStates
  <1>11. Exact(shards', h, left)
    <2>1. ASSUME NEW s \in Parts PROVE Sound(part[s], h)
      <3>1. ASSUME NEW r \in 0..Len(h) - 1 PROVE part[s].kv[r] = SubSeq(h, 1, r + 1)
        <4>1. r \in 0..Len(hist) - 1 /\ r + 1 \in 0..ckpt.pos
          BY <1>2, <1>4, <1>7
        <4>2. shards.part[s].kv[r] = SubSeq(hist, 1, r + 1)
          BY <1>2, <4>1 DEF Exact, Sound
        <4> QED BY <1>5, <1>8, <4>1, <4>2
      <3> QED BY <1>8, <3>1 DEF Sound
    <2>2. ASSUME Mtp, NEW r \in (0..Len(h) - 2) \ left PROVE shards'.mtp[r] = SubSeq(h, 1, r + 2)
      <3>1. r \in (0..Len(hist) - 2) \ drafted /\ r + 2 \in 0..ckpt.pos
        BY <1>2, <1>4, <1>7
      <3>2. shards.mtp[r] = SubSeq(hist, 1, r + 2)
        BY <1>2, <2>2, <3>1 DEF Exact
      <3> QED BY <1>5, <1>10, <3>1, <3>2
    <2> QED BY <1>10, <2>1, <2>2 DEF Exact
  <1>12. /\ draft' \in Stores /\ alone' \in Stores /\ draft'.hi = alone'.hi /\ draft'.hi <= ckpt.pos
         /\ Begin(draft)' = Begin(alone)'
    <2> DEFINE d == Rewind(draft, ckpt.pos)
               e == Rewind(alone, ckpt.pos)
    <2>1. d \in Stores /\ e \in Stores /\ d.hi = e.hi /\ d.hi <= ckpt.pos /\ Begin(d) = Begin(e)
      BY <1>2, <1>7, RewindBoth
    <2>2. draft' = d /\ alone' = e
      BY <1>1
    <2> HIDE DEF d, e
    <2>3. Begin(draft)' = Begin(d) /\ Begin(alone)' = Begin(e)
      BY <2>2 DEF Begin
    <2> QED BY <2>1, <2>2, <2>3
  <1>13. /\ tracker' \in [kv : [Parts -> 0..StageCtx], gdn : [Parts -> -1..StageCtx], seed : BOOLEAN]
         /\ tracker'.kv = tracker.kv /\ tracker'.seed = FALSE
         /\ \A s \in Parts : tracker'.gdn[s] = -1
    BY <1>1, <1>2, TpRestoredFacts
  <1>14. Shapes'
    <2>1. hist' \in Seq(Nat \ {0}) /\ pos' <= MaxPos
      BY <1>1, <1>4, <1>6, <1>7 DEF Feeds
    <2>2. calls' \in 0..MaxCalls
      BY <1>1, <1>2, Constants DEF Shapes
    <2>3. {spec', atEnd', inject'} \subseteq BOOLEAN /\ drafted' \subseteq Rows
      <3>1. inject \in BOOLEAN /\ drafted \subseteq Rows
        BY <1>2 DEF Shapes
      <3> QED BY <1>1, <3>1
    <2> QED BY <1>1, <1>2, <1>10, <1>12, <1>13, <2>1, <2>2, <2>3 DEF Shapes
  <1>15. ShardsAreExact'
    BY <1>1, <1>11 DEF ShardsAreExact, Exact, pos, Mtp
  <1>16. MirrorsAreTrue'
    <2>1. SUFFICES ASSUME NEW s \in Parts, NEW r \in 0..Min({tracker'.kv[s], pos'}) - 1
                   PROVE  stage.part[s].kv[r] = shards'.part[s].kv[r]
      BY <1>1, <1>13 DEF MirrorsAreTrue
    <2>2. tracker.kv[s] \in Nat /\ \A q \in Rows : q < tracker.kv[s] /\ q < pos =>
                                     stage.part[s].kv[q] = shards.part[s].kv[q]
      BY <1>1, ReadyFacts
    <2>3. tracker'.kv[s] = tracker.kv[s]
      BY <1>13
    <2>4. tracker'.kv[s] \in Int /\ pos' \in Int
      BY <1>6, <1>7, <2>2, <2>3
    <2>5. Min({tracker'.kv[s], pos'}) = IF tracker'.kv[s] <= pos' THEN tracker'.kv[s] ELSE pos'
      BY <2>4, MinMax
    <2>6. r \in Rows /\ r < tracker.kv[s] /\ r < pos
      BY <1>2, <1>6, <1>7, <2>2, <2>3, <2>5 DEF Rows
    <2> QED BY <1>8, <1>10, <2>2, <2>6
  <1>17. Fronts'
    BY <1>6, <1>12 DEF Fronts
  <1>18. CkptIsTrue'
    <2>1. ckpt'.pos \in 0..pos' /\ ckpt'.hist = SubSeq(hist', 1, ckpt'.pos)
      BY <1>1, <1>4, <1>6, <1>7 DEF h
    <2> QED BY <1>1, <1>3, <2>1 DEF CkptIsTrue, Mtp, h
  <1> QED BY <1>1, <1>2, <1>14, <1>15, <1>16, <1>17, <1>18 DEF IInv

(* What changes neither contents nor positions keeps the invariant. *)
LEMMA QuietStep ==
  ASSUME IInv, inject' \in BOOLEAN, calls' \in 0..MaxCalls,
         UNCHANGED <<drafter, hist, shards, drafted, spec, atEnd, ckpt, stage, tracker, draft, alone, state, refused>>
  PROVE  IInv'
  <1>1. pos' = pos
    BY DEF pos
  <1>2. Shapes'
    <2>1. {spec', atEnd', inject'} \subseteq BOOLEAN
      <3>1. {spec, atEnd, inject} \subseteq BOOLEAN
        BY DEF IInv, Shapes
      <3>2. spec \in BOOLEAN /\ atEnd \in BOOLEAN
        BY <3>1
      <3>3. spec' = spec /\ atEnd' = atEnd
        OBVIOUS
      <3> QED BY <3>2, <3>3
    <2> QED BY <1>1, <2>1 DEF IInv, Shapes
  <1>3. ShardsAreExact' /\ MirrorsAreTrue' /\ refused' = {}
    BY <1>1 DEF IInv, ShardsAreExact, MirrorsAreTrue, Mtp
  <1>4. Fronts'
    BY <1>1 DEF IInv, Fronts, Begin
  <1>5. CkptIsTrue'
    BY <1>1 DEF IInv, CkptIsTrue, Mtp
  <1> QED BY <1>2, <1>3, <1>4, <1>5 DEF IInv

(* A fresh or recovered group: empty histories everywhere. *)
Fresh ==
  /\ drafter \in {"mtp", "dflash"}
  /\ state = "ready" /\ hist = <<>> /\ drafted = {}
  /\ \E m1, m2 \in Holder : shards = Zeroed(m1) /\ stage = Zeroed(m2)
  /\ spec = FALSE /\ atEnd = FALSE /\ ckpt = NoCkpt /\ tracker = FreshTracker
  /\ draft = [lo |-> 0, hi |-> 0] /\ alone = [lo |-> 0, hi |-> 0]
  /\ inject \in BOOLEAN /\ calls \in 0..MaxCalls /\ refused = {}

(* It satisfies the invariant. *)
LEMMA FreshFacts == Fresh => IInv
  <1> SUFFICES ASSUME Fresh PROVE IInv
    OBVIOUS
  <1>1. PICK m1 \in Holder, m2 \in Holder : shards = Zeroed(m1) /\ stage = Zeroed(m2)
    BY DEF Fresh
  <1>2. /\ shards \in Holder /\ Exact(shards, <<>>, {}) /\ shards.seed = <<>>
        /\ stage \in Holder /\ Exact(stage, <<>>, {}) /\ stage.seed = <<>>
    BY <1>1, ScrambledFacts
  <1>3. /\ hist = <<>> /\ drafted = {} /\ hist \in Seq(Nat \ {0}) /\ Len(hist) = 0 /\ pos = 0
        /\ MaxPos \in Nat /\ StageCtx \in Nat
    BY Constants, EmptySeq DEF pos, Fresh
  <1>4. /\ tracker \in [kv : [Parts -> 0..StageCtx], gdn : [Parts -> -1..StageCtx], seed : BOOLEAN]
        /\ \A s \in Parts : tracker.kv[s] = 0 /\ tracker.gdn[s] = 0
    BY <1>3 DEF FreshTracker, Fresh
  <1>5. draft \in Stores /\ alone \in Stores /\ draft = alone /\ draft.hi = 0
    BY <1>3 DEF Stores, Fresh
  <1>6. Shapes
    <2>1. {spec, atEnd, inject} \subseteq BOOLEAN
      <3>1. spec \in BOOLEAN /\ atEnd \in BOOLEAN /\ inject \in BOOLEAN
        BY DEF Fresh
      <3> QED BY <3>1
    <2>2. /\ state \in {"ready", "needs_recovery", "fatal"} /\ calls \in 0..MaxCalls
          /\ ckpt = NoCkpt \/ ckpt \in Checkpoints
          /\ drafter \in {"mtp", "dflash"}
      BY DEF Fresh
    <2>3. pos <= MaxPos
      BY <1>3
    <2> QED BY <1>2, <1>3, <1>4, <1>5, <2>1, <2>2, <2>3 DEF Shapes
  <1>7. ShardsAreExact
    BY <1>2, <1>3 DEF ShardsAreExact, Exact, pos
  <1>8. MirrorsAreTrue
    <2>1. Min({0, 0}) = 0
      BY MinMax
    <2>2. ASSUME NEW s \in Parts, NEW r \in 0..Min({tracker.kv[s], pos}) - 1 PROVE FALSE
      <3>1. Min({tracker.kv[s], pos}) = 0
        BY <1>3, <1>4, <2>1
      <3> QED BY <2>2, <3>1
    <2>3. \A s \in Parts : tracker.gdn[s] = pos
      BY <1>3, <1>4
    <2>4. \A s \in Parts : stage.part[s].gdn = shards.part[s].gdn
      BY <1>2 DEF Exact, Sound
    <2>5. stage.seed = shards.seed
      BY <1>2
    <2> QED BY <2>2, <2>3, <2>4, <2>5 DEF MirrorsAreTrue
  <1>9. Fronts
    BY <1>3, <1>5 DEF Fronts, Begin
  <1>10. CkptIsTrue /\ refused = {}
    BY DEF CkptIsTrue, Fresh
  <1> QED BY <1>6, <1>7, <1>8, <1>9, <1>10 DEF IInv

(* A TP or pipelined prefill, once it is let in. *)
LEMMA PrefillStep ==
  ASSUME IInv, NEW n \in 1..MaxPos, Prefill(n)
  PROVE  IInv'
  <1>1. /\ state = "ready" /\ calls < MaxCalls /\ pos + n <= MaxPos /\ calls' = calls + 1
    BY DEF Prefill, Ready
  <1>2. n \in Nat /\ n > 0
    BY Constants
  <1>3. CASE Decide(n, PlanTail(n).problem)
    <2>1. ~PlanTail(n).problem /\ pos + n <= StageCtx
      BY <1>3, Zenon DEF Decide
    <2>2. SelfChecks(PlanTail(n), Feed(n), ReshardCollapse(spec)) = {}
      BY <1>1, <1>2, <2>1, NoRefusal, Zenon
    <2>3. HybridPrefillRun(n, PlanTail(n))
      BY <1>3, <2>2, Zenon DEF Prefill
    <2> QED BY <1>1, <1>2, <2>1, <2>3, PipelinedStep
  <1>4. CASE ~Decide(n, PlanTail(n).problem)
    <2>1. TpForward(n) /\ atEnd' = TRUE /\ spec' = FALSE
      BY <1>4, Zenon DEF Prefill
    <2>2. atEnd' \in BOOLEAN /\ spec' \in BOOLEAN
      BY <2>1, Zenon
    <2> QED BY <1>1, <1>2, <2>1, <2>2, TpForwardStep
  <1> QED BY <1>3, <1>4, Zenon

(* Every step keeps the invariant. *)
LEMMA NextKeeps ==
  ASSUME IInv, [Next]_vars
  PROVE  IInv'
  <1>1. /\ Shapes /\ calls \in 0..MaxCalls /\ inject \in BOOLEAN /\ refused = {} /\ MaxCalls \in Nat
        /\ drafter \in {"mtp", "dflash"}
    BY Constants DEF IInv, Shapes
  <1>2. pos \in Nat
    BY <1>1, LenProperties DEF Shapes, pos
  <1>3. ASSUME NEW n \in 1..MaxPos, Prefill(n) PROVE IInv'
    BY <1>3, PrefillStep
  <1>4. CASE DecodeStep
    <2>1. /\ state = "ready" /\ calls < MaxCalls /\ pos < MaxPos /\ calls' = calls + 1
          /\ atEnd' = FALSE /\ spec' = FALSE /\ TpForward(1)
      BY <1>4 DEF DecodeStep, Ready
    <2>2. pos + 1 <= MaxPos /\ 1 \in Nat
      BY <1>2, <2>1, Constants
    <2>3. atEnd' \in BOOLEAN /\ spec' \in BOOLEAN
      BY <2>1, Zenon
    <2> QED BY <2>1, <2>2, <2>3, TpForwardStep
  <1>5. ASSUME NEW k \in 0..DraftK, NEW kept \in 1..k + 1, MtpRound(k, kept)
        PROVE  IInv'
    BY <1>5, MtpRoundStep
  <1>6. ASSUME NEW k \in 0..DraftK, NEW kept \in 1..k + 1, DflashRound(k, kept)
         PROVE  IInv'
    BY <1>6, DflashRoundStep
  <1>7. CASE CallFails
    <2>1. calls' \in 0..MaxCalls
      BY <1>1, <1>7 DEF CallFails, Ready
    <2> QED BY <1>7, <2>1, FailedStep DEF CallFails, Failed
  <1>8. CASE SaveCheckpoint
    BY <1>8, SaveStep
  <1>9. CASE RestoreCheckpoint
    BY <1>9, RestoreStep
  <1>10. CASE SetDflashInjectionEnabled
    <2>1. /\ calls' \in 0..MaxCalls /\ inject' \in BOOLEAN
          /\ UNCHANGED <<drafter, hist, shards, drafted, spec, atEnd, ckpt, stage, tracker, draft, alone, state, refused>>
      BY <1>1, <1>10 DEF SetDflashInjectionEnabled
    <2> QED BY <2>1, QuietStep
  <1>11. CASE Reset
    <2>1. shards \in Holder /\ stage \in Holder
      BY <1>1 DEF Shapes
    <2>2. Fresh'
      BY <1>1, <1>11, <2>1 DEF Reset, Fresh
    <2>3. Fresh' => IInv'
      BY FreshFacts, PTL
    <2> QED BY <2>2, <2>3
  <1>12. CASE ResetFails
    <2>1. state' \in {"needs_recovery", "fatal"}
      BY <1>12 DEF ResetFails
    <2>2. calls' \in 0..MaxCalls
      BY <1>1, <1>12 DEF ResetFails
    <2> QED BY <1>12, <2>1, <2>2, FailedStep DEF ResetFails
  <1>13. CASE UNCHANGED vars
    <2>1. /\ calls' \in 0..MaxCalls /\ inject' \in BOOLEAN
          /\ UNCHANGED <<drafter, hist, shards, drafted, spec, atEnd, ckpt, stage, tracker, draft, alone, state, refused>>
      BY <1>1, <1>13 DEF vars
    <2> QED BY <2>1, QuietStep
  <1> QED BY <1>3, <1>4, <1>5, <1>6, <1>7, <1>8, <1>9, <1>10, <1>11, <1>12, <1>13 DEF Next

-----------------------------------------------------------------------------
(* The theorems.                                                           *)

(* IInv holds in every reachable state: the three properties, the window   *)
(* the two stores share, and a checkpoint that is a prefix of the          *)
(* conversation with the states to match (tp_model_hybrid.cpp,             *)
(* hybrid_sync.h, dflash_draft.cpp, Model::SaveCheckpoint).                *)
THEOREM InvHolds == Spec => []IInv
  <1>1. Init => IInv
    <2>1. SUFFICES ASSUME Init PROVE Fresh
      BY <2>1, FreshFacts
    <2>2. Scrambled \in Holder
      BY ScrambledFacts
    <2> QED BY <2>1, <2>2, Constants DEF Init, Fresh
  <1>2. IInv /\ [Next]_vars => IInv'
    BY NextKeeps
  <1> QED BY <1>1, <1>2, PTL DEF Spec

(* Whatever mix of pipelined prefills, TP prefills, decode steps,          *)
(* speculative rounds, restores and recoveries ran, the shards hold what   *)
(* feeding the committed tokens to them alone would have left: every KV    *)
(* row and GDN state and, with the MTP head, its seed and every row but    *)
(* those of accepted drafts, which MtpHead::Draft writes from its own      *)
(* hidden state or nobody writes.                                          *)
THEOREM ShardsAreExactHolds == Spec => []ShardsAreExact
  <1>1. IInv => ShardsAreExact
    BY DEF IInv
  <1> QED BY <1>1, InvHolds, PTL

(* What TpMasterTracker vouches for of the stages is so.                   *)
THEOREM MirrorsAreTrueHolds == Spec => []MirrorsAreTrue
  <1>1. IInv => MirrorsAreTrue
    BY DEF IInv
  <1> QED BY <1>1, InvHolds, PTL

(* The drafters read the same rows whether a call was pipelined or not,    *)
(* and no call that was let through then fails its own checks.             *)
THEOREM DraftStoreIsFullHolds == Spec => []DraftStoreIsFull
  <1>1. IInv => DraftStoreIsFull
    <2>1. SUFFICES ASSUME IInv PROVE DraftStoreIsFull
      OBVIOUS
    <2>2. ASSUME state = "ready" PROVE Visible(draft) = Visible(alone)
      BY <2>1, <2>2, ReadyFacts, SameWindow
    <2> QED BY <2>1, <2>2 DEF DraftStoreIsFull, IInv
  <1> QED BY <1>1, InvHolds, PTL

(* The tracker's rows, the drafters' frontiers and the calls stay in       *)
(* range: 0 <= ValidFrom <= InjectedCount <= MaxPos.                       *)
THEOREM TypeOKHolds == Spec => []TypeOK
  <1>1. IInv => TypeOK
    <2>1. SUFFICES ASSUME IInv PROVE TypeOK
      OBVIOUS
    <2>2. /\ state \in {"ready", "needs_recovery", "fatal"} /\ {spec, atEnd, inject} \subseteq BOOLEAN
          /\ pos <= MaxPos /\ calls \in 0..MaxCalls
          /\ drafter \in {"mtp", "dflash"} /\ drafted \subseteq Rows
      BY <2>1 DEF IInv, Shapes
    <2>3. \A s \in Parts : tracker.kv[s] \in 0..StageCtx /\ tracker.gdn[s] \in -1..StageCtx
      BY <2>1 DEF IInv, Shapes
    <2>4. draft \in Stores /\ alone \in Stores
      BY <2>1 DEF IInv, Shapes
    <2>5. \A d \in {draft, alone} : 0 <= d.lo /\ d.lo <= d.hi /\ d.hi <= MaxPos
      BY <2>4, BeginFacts
    <2>6. ckpt = NoCkpt \/ ckpt.pos = Len(ckpt.hist)
      <3>1. SUFFICES ASSUME ckpt # NoCkpt PROVE ckpt.pos = Len(ckpt.hist)
        OBVIOUS
      <3>2. ckpt.pos \in 0..pos /\ ckpt.hist = SubSeq(hist, 1, ckpt.pos)
        BY <2>1, <3>1 DEF IInv, CkptIsTrue
      <3>3. hist \in Feeds /\ ckpt.pos \in 0..Len(hist)
        BY <2>1, <3>2 DEF IInv, Shapes, Feeds, pos
      <3> QED BY <3>2, <3>3, Prefixes DEF Feeds
    <2> QED BY <2>2, <2>3, <2>5, <2>6 DEF TypeOK
  <1> QED BY <1>1, InvHolds, PTL

=============================================================================
