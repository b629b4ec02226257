------------------------ MODULE ResponseStreamProofs ------------------------
(***************************************************************************)
(* For every set of requests and every queue size: whatever the tokens,    *)
(* the client and the scheduler do, a stream's chunks reach the client in  *)
(* the API's order and, if the server ends it cleanly, completely; and the *)
(* log calls a client gone only if it left.  The proof is the invariance   *)
(* of ResponseStream!IInv: what the client has, what the HTTP thread is    *)
(* writing, what the queue holds and what the worker still has to push are *)
(* one line of chunks, and a place of the worker bounds how far along the  *)
(* line is.                                                                *)
(***************************************************************************)
EXTENDS ResponseStream, TLAPS, SequenceTheorems, FiniteSetTheorems,
        WellFoundedInduction

-----------------------------------------------------------------------------
(* Sequences.                                                              *)

(* A sequence is a sequence of its own elements. *)
LEMMA OwnElements ==
  ASSUME NEW S, NEW s \in Seq(S)
  PROVE  Sequential(s)
  <1>1. Len(s) \in Nat /\ s \in [1 .. Len(s) -> S] /\ DOMAIN s = 1 .. Len(s)
    BY LenProperties
  <1>2. s \in [1 .. Len(s) -> {s[i] : i \in DOMAIN s}]
    BY <1>1
  <1>3. s \in UNION {[1 .. n -> {s[i] : i \in DOMAIN s}] : n \in Nat}
    BY <1>1, <1>2
  <1> QED BY <1>3, SeqDef DEF Sequential

(* What is known of a sequence whatever its elements are. *)
LEMMA SequentialFacts ==
  ASSUME NEW s, Sequential(s)
  PROVE  Len(s) \in Nat /\ DOMAIN s = 1 .. Len(s) /\ IsFiniteSet(DOMAIN s)
  <1>1. Len(s) \in Nat /\ DOMAIN s = 1 .. Len(s)
    BY LenProperties DEF Sequential
  <1> QED BY <1>1, FS_Interval

(* The parts of a concatenation. *)
LEMMA Concatenated ==
  ASSUME NEW s, NEW t, Sequential(s), Sequential(t)
  PROVE  /\ Sequential(s \o t) /\ Len(s \o t) = Len(s) + Len(t)
         /\ \A i \in DOMAIN (s \o t) :
              (s \o t)[i] = IF i <= Len(s) THEN s[i] ELSE t[i - Len(s)]
         /\ DOMAIN (s \o t) = 1 .. Len(s) + Len(t)
  <1> DEFINE S == {s[i] : i \in DOMAIN s} \cup {t[i] : i \in DOMAIN t}
  <1>1. s \in Seq(S) /\ t \in Seq(S)
    BY SeqMonotonic DEF Sequential
  <1> HIDE DEF S
  <1>2. /\ s \o t \in Seq(S) /\ Len(s \o t) = Len(s) + Len(t)
        /\ \A i \in 1 .. Len(s) + Len(t) : (s \o t)[i] = IF i <= Len(s) THEN s[i] ELSE t[i - Len(s)]
    BY <1>1, ConcatProperties
  <1>3. DOMAIN (s \o t) = 1 .. Len(s) + Len(t)
    BY <1>2, LenProperties
  <1> QED BY <1>2, <1>3, OwnElements

(* One more element at the end. *)
LEMMA Appended ==
  ASSUME NEW s, NEW e, Sequential(s)
  PROVE  /\ Sequential(Append(s, e)) /\ DOMAIN Append(s, e) = 1 .. Len(s) + 1
         /\ Len(Append(s, e)) = Len(s) + 1
         /\ \A i \in 1 .. Len(s) : Append(s, e)[i] = s[i]
         /\ Append(s, e)[Len(s) + 1] = e
  <1> DEFINE S == {s[i] : i \in DOMAIN s} \cup {e}
  <1>1. s \in Seq(S) /\ e \in S
    BY SeqMonotonic DEF Sequential
  <1> HIDE DEF S
  <1>2. /\ Append(s, e) \in Seq(S) /\ Len(Append(s, e)) = Len(s) + 1
        /\ \A i \in 1 .. Len(s) : Append(s, e)[i] = s[i]
        /\ Append(s, e)[Len(s) + 1] = e
    BY <1>1
  <1>3. DOMAIN Append(s, e) = 1 .. Len(s) + 1
    BY <1>2, LenProperties
  <1> QED BY <1>2, <1>3, OwnElements

(* One element off the front. *)
LEMMA Headed ==
  ASSUME NEW s, Sequential(s), s # <<>>
  PROVE  /\ Sequential(Tail(s)) /\ Len(s) \in Nat \ {0} /\ DOMAIN Tail(s) = 1 .. Len(s) - 1
         /\ \A i \in 1 .. Len(s) - 1 : Tail(s)[i] = s[i + 1]
         /\ Head(s) = s[1]
  <1> DEFINE S == {s[i] : i \in DOMAIN s}
  <1>1. s \in Seq(S)
    BY DEF Sequential
  <1> HIDE DEF S
  <1>2. /\ Len(s) \in Nat \ {0} /\ Tail(s) \in Seq(S) /\ Len(Tail(s)) = Len(s) - 1
        /\ \A i \in 1 .. Len(s) - 1 : Tail(s)[i] = s[i + 1]
    BY <1>1, EmptySeq, HeadTailProperties
  <1>3. Head(s) = s[1]
    BY <1>1, <1>2
  <1>4. DOMAIN Tail(s) = 1 .. Len(s) - 1
    BY <1>2, LenProperties
  <1> QED BY <1>2, <1>3, <1>4, OwnElements

(* The sequences written down in the module. *)
LEMMA Literals ==
  /\ Sequential(<<>>) /\ DOMAIN <<>> = {} /\ Len(<<>>) = 0
  /\ \A e : Sequential(<<e>>) /\ DOMAIN <<e>> = {1} /\ Len(<<e>>) = 1 /\ <<e>>[1] = e
  <1>1. Sequential(<<>>) /\ DOMAIN <<>> = {} /\ Len(<<>>) = 0
    <2>1. <<>> \in Seq({}) /\ Len(<<>>) = 0
      BY EmptySeq
    <2>2. DOMAIN <<>> = {}
      OBVIOUS
    <2>3. Sequential(<<>>)
      BY <2>1, OwnElements
    <2> QED BY <2>1, <2>2, <2>3
  <1>2. ASSUME NEW e PROVE Sequential(<<e>>) /\ DOMAIN <<e>> = {1} /\ Len(<<e>>) = 1 /\ <<e>>[1] = e
    <2>1. <<e>> \in Seq({e})
      OBVIOUS
    <2>2. Sequential(<<e>>)
      BY <2>1, OwnElements
    <2>3. Len(<<e>>) = 1 /\ <<e>>[1] = e
      OBVIOUS
    <2>4. DOMAIN <<e>> = {1}
      BY <2>1, <2>3, LenProperties
    <2> QED BY <2>2, <2>3, <2>4
  <1> QED BY <1>1, <1>2

-----------------------------------------------------------------------------
(* A set of naturals has a least element.                                  *)
LEMMA LeastNatural ==
  ASSUME NEW T \in SUBSET Nat, T # {}
  PROVE  \E m \in T : \A n \in T : m <= n
  <1>1. PICK m \in T : \A n \in T : ~(<<n, m>> \in OpToRel(<, Nat))
    BY NatLessThanWellFounded, WFMin
  <1>2. ASSUME NEW n \in T PROVE m <= n
    <2>1. ~(<<n, m>> \in OpToRel(<, Nat))
      BY <1>1
    <2>2. ~(n < m)
      BY <2>1 DEF OpToRel
    <2> QED BY <2>2
  <1> QED BY <1>2

(* The least and the greatest of a set of naturals. *)
LEMMA MinIsLeast ==
  ASSUME NEW S, S \subseteq Nat, S # {}
  PROVE  Min(S) \in S /\ \A m \in S : Min(S) <= m
  BY LeastNatural DEF Min

(* The greatest of a bounded set of numbers. *)
LEMMA MaxIsGreatest ==
  ASSUME NEW S, S \subseteq Nat, S # {}, NEW b \in Nat, \A m \in S : m <= b
  PROVE  Max(S) \in S /\ \A m \in S : m <= Max(S)
  <1> DEFINE D == {b - m : m \in S}
  <1>1. D \in SUBSET Nat /\ D # {}
    <2>1. \A m \in S : b - m \in Nat
      OBVIOUS
    <2> QED BY <2>1
  <1>2. PICK n \in D : \A m \in D : n <= m
    BY <1>1, LeastNatural
  <1>3. PICK g \in S : n = b - g
    BY <1>2
  <1>4. \A m \in S : m <= g
    BY <1>2, <1>3
  <1>5. \E x \in S : \A m \in S : x >= m
    BY <1>4
  <1> QED BY <1>5 DEF Max

(* Of two. *)
LEMMA MinMaxOfTwo ==
  ASSUME NEW a \in Nat, NEW b \in Nat
  PROVE  /\ Min({a, b}) = IF a <= b THEN a ELSE b
         /\ Max({a, b}) = IF a <= b THEN b ELSE a
  <1>1. Min({a, b}) \in {a, b} /\ \A m \in {a, b} : Min({a, b}) <= m
    BY MinIsLeast
  <1>2. Max({a, b}) \in {a, b} /\ \A m \in {a, b} : m <= Max({a, b})
    <2>1. a + b \in Nat /\ \A m \in {a, b} : m <= a + b
      OBVIOUS
    <2> QED BY <2>1, MaxIsGreatest
  <1> QED BY <1>1, <1>2

-----------------------------------------------------------------------------
(* Texts.                                                                  *)

(* The start, the rest and a part of a text. *)
LEMMA TextParts ==
  ASSUME NEW s \in Seq(Char)
  PROVE  /\ Len(s) \in Nat
         /\ \A n \in 0 .. Len(s) :
              /\ Take(s, n) \in Seq(Char) /\ Len(Take(s, n)) = n
              /\ \A i \in 1 .. n : Take(s, n)[i] = s[i]
              /\ Drop(s, n) \in Seq(Char) /\ Len(Drop(s, n)) = Len(s) - n
              /\ \A i \in 1 .. Len(s) - n : Drop(s, n)[i] = s[n + i]
         /\ \A m, n \in 0 .. Len(s) :
              /\ SubSeq(s, m + 1, n) \in Seq(Char)
              /\ Len(SubSeq(s, m + 1, n)) = IF m <= n THEN n - m ELSE 0
              /\ \A i \in 1 .. n - m : SubSeq(s, m + 1, n)[i] = s[m + i]
  <1>1. Len(s) \in Nat /\ \A i \in 1 .. Len(s) : s[i] \in Char
    BY LenProperties, ElementOfSeq
  <1>2. ASSUME NEW m \in 0 .. Len(s), NEW n \in 0 .. Len(s)
        PROVE  /\ SubSeq(s, m + 1, n) \in Seq(Char)
               /\ Len(SubSeq(s, m + 1, n)) = IF m <= n THEN n - m ELSE 0
               /\ \A i \in 1 .. n - m : SubSeq(s, m + 1, n)[i] = s[m + i]
    <2>1. m + 1 \in Int /\ n \in Int /\ \A i \in m + 1 .. n : s[i] \in Char
      BY <1>1
    <2>2. /\ SubSeq(s, m + 1, n) \in Seq(Char)
          /\ Len(SubSeq(s, m + 1, n)) = IF m + 1 <= n THEN n - (m + 1) + 1 ELSE 0
          /\ \A i \in 1 .. n - (m + 1) + 1 : SubSeq(s, m + 1, n)[i] = s[(m + 1) + i - 1]
      BY ONLY <2>1, SubSeqProperties
    <2> QED BY <2>1, <2>2, <1>1
  <1>3. ASSUME NEW n \in 0 .. Len(s)
        PROVE  /\ Take(s, n) \in Seq(Char) /\ Len(Take(s, n)) = n
               /\ \A i \in 1 .. n : Take(s, n)[i] = s[i]
    <2>1. 0 \in 0 .. Len(s)
      BY <1>1
    <2>2. /\ SubSeq(s, 0 + 1, n) \in Seq(Char)
          /\ Len(SubSeq(s, 0 + 1, n)) = n
          /\ \A i \in 1 .. n - 0 : SubSeq(s, 0 + 1, n)[i] = s[0 + i]
      BY <1>2, <2>1
    <2> QED BY <2>2, <1>1 DEF Take
  <1>4. ASSUME NEW n \in 0 .. Len(s)
        PROVE  /\ Drop(s, n) \in Seq(Char) /\ Len(Drop(s, n)) = Len(s) - n
               /\ \A i \in 1 .. Len(s) - n : Drop(s, n)[i] = s[n + i]
    <2>1. Len(s) \in 0 .. Len(s)
      BY <1>1
    <2> QED BY <1>1, <1>2, <2>1 DEF Drop
  <1> QED BY <1>1, <1>2, <1>3, <1>4

(* Two texts with the same characters are one. *)
LEMMA SameText ==
  ASSUME NEW s \in Seq(Char), NEW t \in Seq(Char), Len(s) = Len(t),
         \A i \in 1 .. Len(s) : s[i] = t[i]
  PROVE  s = t
  BY SeqEqual

(* Two texts joined. *)
LEMMA TextJoined ==
  ASSUME NEW s \in Seq(Char), NEW t \in Seq(Char)
  PROVE  /\ s \o t \in Seq(Char) /\ Len(s \o t) = Len(s) + Len(t)
         /\ \A i \in 1 .. Len(s) : (s \o t)[i] = s[i]
         /\ \A i \in 1 .. Len(t) : (s \o t)[Len(s) + i] = t[i]
         /\ Len(s) \in Nat /\ Len(t) \in Nat
  <1>1. /\ s \o t \in Seq(Char) /\ Len(s \o t) = Len(s) + Len(t)
        /\ \A i \in 1 .. Len(s) + Len(t) : (s \o t)[i] = IF i <= Len(s) THEN s[i] ELSE t[i - Len(s)]
    BY ConcatProperties
  <1>2. Len(s) \in Nat /\ Len(t) \in Nat
    BY LenProperties
  <1>3. ASSUME NEW i \in 1 .. Len(t) PROVE (s \o t)[Len(s) + i] = t[i]
    <2>1. Len(s) + i \in 1 .. Len(s) + Len(t) /\ ~(Len(s) + i <= Len(s)) /\ (Len(s) + i) - Len(s) = i
      BY <1>2
    <2> QED BY <1>1, <2>1
  <1> QED BY <1>1, <1>2, <1>3

(* The empty text. *)
LEMMA EmptyText ==
  /\ <<>> \in Seq(Char) /\ Len(<<>>) = 0
  /\ \A s \in Seq(Char) : (s = <<>> <=> Len(s) = 0) /\ s \o <<>> = s /\ <<>> \o s = s
  <1>1. <<>> \in Seq(Char) /\ Len(<<>>) = 0
    BY EmptySeq
  <1>2. ASSUME NEW s \in Seq(Char)
        PROVE  (s = <<>> <=> Len(s) = 0) /\ s \o <<>> = s /\ <<>> \o s = s
    <2>1. s # <<>> => Len(s) \in Nat \ {0}
      BY EmptySeq
    <2> QED BY <1>1, <2>1, ConcatEmptySeq
  <1> QED BY <1>1, <1>2

(* A text is a prefix of another if its characters come first there. *)
LEMMA PrefixPointwise ==
  ASSUME NEW s \in Seq(Char), NEW t \in Seq(Char)
  PROVE  IsPrefix(s, t) <=> Len(s) <= Len(t) /\ \A i \in 1 .. Len(s) : s[i] = t[i]
  <1>1. Len(s) \in Nat /\ Len(t) \in Nat
    BY LenProperties
  <1>2. CASE Len(s) <= Len(t)
    <2>1. Len(s) \in 0 .. Len(s) /\ Len(s) \in 0 .. Len(t)
      BY <1>1, <1>2
    <2>2. /\ Take(s, Len(s)) \in Seq(Char) /\ Len(Take(s, Len(s))) = Len(s)
          /\ \A i \in 1 .. Len(s) : Take(s, Len(s))[i] = s[i]
      BY <2>1, TextParts
    <2>3. /\ Take(t, Len(s)) \in Seq(Char) /\ Len(Take(t, Len(s))) = Len(s)
          /\ \A i \in 1 .. Len(s) : Take(t, Len(s))[i] = t[i]
      BY <2>1, TextParts
    <2>4. Take(s, Len(s)) = Take(t, Len(s)) <=> \A i \in 1 .. Len(s) : s[i] = t[i]
      BY <2>2, <2>3, SameText
    <2> QED BY <1>2, <2>4 DEF IsPrefix, Take
  <1>3. CASE ~(Len(s) <= Len(t))
    BY <1>3 DEF IsPrefix
  <1> QED BY <1>2, <1>3

-----------------------------------------------------------------------------
(* The searches.                                                           *)

OccursAt(s, t, p) == p + Len(t) <= Len(s) /\ \A i \in 1 .. Len(t) : s[p + i] = t[i]

(* A part of a text is a tag if the tag occurs there. *)
LEMMA OccurrencePointwise ==
  ASSUME NEW s \in Seq(Char), NEW t \in Seq(Char), NEW p \in 0 .. Len(s) - Len(t)
  PROVE  SubSeq(s, p + 1, p + Len(t)) = t <=> OccursAt(s, t, p)
  <1>1. Len(s) \in Nat /\ Len(t) \in Nat
    BY LenProperties
  <1>2. p \in 0 .. Len(s) /\ p + Len(t) \in 0 .. Len(s) /\ p <= p + Len(t) /\ (p + Len(t)) - p = Len(t)
    BY <1>1
  <1>3. /\ SubSeq(s, p + 1, p + Len(t)) \in Seq(Char)
        /\ Len(SubSeq(s, p + 1, p + Len(t))) = Len(t)
        /\ \A i \in 1 .. Len(t) : SubSeq(s, p + 1, p + Len(t))[i] = s[p + i]
    BY <1>2, TextParts
  <1>4. SubSeq(s, p + 1, p + Len(t)) = t <=> \A i \in 1 .. Len(t) : s[p + i] = t[i]
    BY <1>3, SameText
  <1> QED BY <1>1, <1>4 DEF OccursAt

\* The place of the first occurrence at or behind from, or none.
FirstAt(s, t, from, p) ==
  \/ /\ p = NPos
     /\ \A q \in Nat : q >= from => ~OccursAt(s, t, q)
  \/ /\ p \in Nat /\ p >= from /\ p < NPos /\ p + Len(t) <= Len(s) /\ OccursAt(s, t, p)
     /\ \A q \in Nat : q >= from /\ OccursAt(s, t, q) => p <= q

(* Find returns it, *)
LEMMA Found ==
  ASSUME NEW s \in Seq(Char), NEW t \in Seq(Char), NEW from \in Nat, Len(s) < NPos
  PROVE  FirstAt(s, t, from, Find(s, t, from)) /\ Find(s, t, from) \in Nat
  <1> DEFINE at == {p \in from .. Len(s) - Len(t) : SubSeq(s, p + 1, p + Len(t)) = t}
  <1>1. Len(s) \in Nat /\ Len(t) \in Nat /\ NPos \in Nat
    BY LenProperties, NPosAssumption
  <1>2. at \subseteq Nat
    BY <1>1
  <1>3. \A p \in at : OccursAt(s, t, p) /\ p >= from /\ p + Len(t) <= Len(s)
    BY <1>1, OccurrencePointwise
  <1>4. \A q \in Nat : q >= from /\ OccursAt(s, t, q) => q \in at
    BY <1>1, OccurrencePointwise DEF OccursAt
  <1>5. Find(s, t, from) = IF at = {} THEN NPos ELSE Min(at)
    BY DEF Find
  <1> HIDE DEF at
  <1>6. CASE at = {}
    BY <1>1, <1>4, <1>5, <1>6 DEF FirstAt
  <1>7. CASE at # {}
    <2>1. Min(at) \in at /\ \A q \in at : Min(at) <= q
      BY <1>2, <1>7, MinIsLeast
    <2>2. Min(at) \in Nat /\ Min(at) + Len(t) <= Len(s)
      BY <1>2, <1>3, <2>1
    <2>3. Min(at) < NPos
      BY <1>1, <2>2
    <2> QED BY <1>3, <1>4, <1>5, <1>7, <2>1, <2>2, <2>3 DEF FirstAt
  <1> QED BY <1>6, <1>7

(* and nothing else. *)
LEMMA FirstIsFound ==
  ASSUME NEW s \in Seq(Char), NEW t \in Seq(Char), NEW from \in Nat, Len(s) < NPos,
         NEW p \in Nat, FirstAt(s, t, from, p)
  PROVE  Find(s, t, from) = p
  <1>1. FirstAt(s, t, from, Find(s, t, from)) /\ Find(s, t, from) \in Nat
    BY Found
  <1>2. NPos \in Nat
    BY NPosAssumption
  <1> QED BY <1>1, <1>2 DEF FirstAt

\* The last k characters of buf begin the tag and do not complete it.
Begins(buf, tag, k) ==
  k \in 0 .. Len(tag) - 1 /\ k <= Len(buf) /\ \A i \in 1 .. k : buf[Len(buf) - k + i] = tag[i]

(* A suffix, character by character. *)
LEMMA SuffixPointwise ==
  ASSUME NEW s \in Seq(Char), NEW t \in Seq(Char)
  PROVE  IsSuffix(s, t) <=>
           Len(s) <= Len(t) /\ \A i \in 1 .. Len(s) : t[Len(t) - Len(s) + i] = s[i]
  <1> DEFINE rs == Reverse(s)
             rt == Reverse(t)
  <1>1. Len(s) \in Nat /\ Len(t) \in Nat
    BY LenProperties
  <1>2. rs \in Seq(Char) /\ Len(rs) = Len(s) /\ \A i \in 1 .. Len(s) : rs[i] = s[(Len(s) - i) + 1]
    <2>1. \A i \in 1 .. Len(s) : s[(Len(s) - i) + 1] \in Char
      BY <1>1, ElementOfSeq
    <2> QED BY <1>1, <2>1 DEF Reverse
  <1>3. rt \in Seq(Char) /\ Len(rt) = Len(t) /\ \A i \in 1 .. Len(t) : rt[i] = t[(Len(t) - i) + 1]
    <2>1. \A i \in 1 .. Len(t) : t[(Len(t) - i) + 1] \in Char
      BY <1>1, ElementOfSeq
    <2> QED BY <1>1, <2>1 DEF Reverse
  <1>4. IsSuffix(s, t) <=> IsPrefix(rs, rt)
    BY DEF IsSuffix
  <1> HIDE DEF rs, rt
  <1>5. IsPrefix(rs, rt) <=> Len(s) <= Len(t) /\ \A i \in 1 .. Len(s) : rs[i] = rt[i]
    BY <1>2, <1>3, PrefixPointwise
  <1>6. CASE Len(s) <= Len(t)
    <2>1. ASSUME \A i \in 1 .. Len(s) : rs[i] = rt[i], NEW i \in 1 .. Len(s)
          PROVE  t[Len(t) - Len(s) + i] = s[i]
      <3>1. Len(s) - i + 1 \in 1 .. Len(s) /\ Len(s) - i + 1 \in 1 .. Len(t)
        BY <1>1, <1>6
      <3>2. /\ (Len(s) - (Len(s) - i + 1)) + 1 = i
            /\ (Len(t) - (Len(s) - i + 1)) + 1 = Len(t) - Len(s) + i
        BY <1>1
      <3> QED BY <1>2, <1>3, <2>1, <3>1, <3>2
    <2>2. ASSUME \A i \in 1 .. Len(s) : t[Len(t) - Len(s) + i] = s[i], NEW i \in 1 .. Len(s)
          PROVE  rs[i] = rt[i]
      <3>1. (Len(s) - i) + 1 \in 1 .. Len(s) /\ i \in 1 .. Len(t)
        BY <1>1, <1>6
      <3>2. Len(t) - Len(s) + ((Len(s) - i) + 1) = (Len(t) - i) + 1
        BY <1>1
      <3> QED BY <1>2, <1>3, <2>2, <3>1, <3>2
    <2> QED BY <1>4, <1>5, <1>6, <2>1, <2>2
  <1>7. CASE ~(Len(s) <= Len(t))
    BY <1>4, <1>5, <1>7
  <1> QED BY <1>6, <1>7

(* LongestTagPrefixSuffix is the longest. *)
LEMMA LongestHeld ==
  ASSUME NEW buf \in Seq(Char), NEW tag \in Seq(Char), Len(tag) > 0
  PROVE  /\ Begins(buf, tag, LongestTagPrefixSuffix(buf, tag))
         /\ \A k : Begins(buf, tag, k) => k <= LongestTagPrefixSuffix(buf, tag)
  <1> DEFINE S == {k \in 0 .. Len(tag) - 1 : k <= Len(buf) /\ IsSuffix(Take(tag, k), buf)}
  <1>1. Len(tag) \in Nat /\ Len(buf) \in Nat
    BY LenProperties
  <1>2. ASSUME NEW k \in 0 .. Len(tag) - 1, k <= Len(buf)
        PROVE  IsSuffix(Take(tag, k), buf) <=> Begins(buf, tag, k)
    <2>1. k \in 0 .. Len(tag)
      BY <1>1
    <2>2. Take(tag, k) \in Seq(Char) /\ Len(Take(tag, k)) = k /\ \A i \in 1 .. k : Take(tag, k)[i] = tag[i]
      BY <2>1, TextParts
    <2>3. IsSuffix(Take(tag, k), buf) <=>
            k <= Len(buf) /\ \A i \in 1 .. k : buf[Len(buf) - k + i] = Take(tag, k)[i]
      <3> DEFINE w == Take(tag, k)
      <3> HIDE DEF w
      <3>1. w \in Seq(Char) /\ Len(w) = k
        BY <2>2 DEF w
      <3>2. IsSuffix(w, buf) <=> Len(w) <= Len(buf) /\ \A i \in 1 .. Len(w) : buf[Len(buf) - Len(w) + i] = w[i]
        BY <3>1, SuffixPointwise
      <3> QED BY <3>1, <3>2 DEF w
    <2> QED BY <1>2, <2>2, <2>3 DEF Begins
  <1>3. \A k : k \in S <=> Begins(buf, tag, k)
    BY <1>2 DEF Begins
  <1>4. Begins(buf, tag, 0)
    BY <1>1 DEF Begins
  <1>5. LongestTagPrefixSuffix(buf, tag) = Max(S)
    BY DEF LongestTagPrefixSuffix
  <1>6. S \subseteq Nat /\ \A k \in S : k <= Len(tag)
    BY <1>1
  <1> HIDE DEF S
  <1>7. Max(S) \in S /\ \A k \in S : k <= Max(S)
    BY <1>1, <1>3, <1>4, <1>6, MaxIsGreatest
  <1> QED BY <1>3, <1>5, <1>7

-----------------------------------------------------------------------------
(* What a scan may forget.                                                 *)

\* A scan of x found no tag; where it goes on, and what it sees with y behind it.
Scanned(x, y, tag) == Len(tag) > 0 /\ Len(x) + Len(y) < NPos /\ Find(x, tag, 0) = NPos
Past(x, tag) == Len(x) - LongestTagPrefixSuffix(x, tag)
Ahead(x, y, tag) == Drop(x, Past(x, tag)) \o y

\* Scanning buf from seen on is scanning the whole text.
Resumed(x, y, tag, seen, buf) ==
  /\ seen \in 0 .. Len(x) /\ buf \in Seq(Char) /\ Len(buf) = Len(x \o y) - seen
  /\ Find(x \o y, tag, 0) =
       IF Find(buf, tag, 0) = NPos THEN NPos ELSE seen + Find(buf, tag, 0)
  /\ LongestTagPrefixSuffix(x \o y, tag) = LongestTagPrefixSuffix(buf, tag)

(* A scan that found no tag in x and kept only the longest suffix that     *)
(* could still become one sees in that suffix and the next piece what a    *)
(* scan of the whole text would see.                                       *)
LEMMA ScanResumes ==
  ASSUME NEW x \in Seq(Char), NEW y \in Seq(Char), NEW tag \in Seq(Char), Scanned(x, y, tag)
  PROVE  Resumed(x, y, tag, Past(x, tag), Ahead(x, y, tag))
  <1> SUFFICES ASSUME Len(tag) > 0, Len(x) + Len(y) < NPos, Find(x, tag, 0) = NPos,
                      NEW seen, seen = Len(x) - LongestTagPrefixSuffix(x, tag),
                      NEW buf, buf = Drop(x, seen) \o y
               PROVE  Resumed(x, y, tag, seen, buf)
    BY DEF Scanned, Past, Ahead
  <1> DEFINE xy == x \o y
             hold == LongestTagPrefixSuffix(x, tag)
  <1>1. Len(x) \in Nat /\ Len(y) \in Nat /\ Len(tag) \in Nat
    BY LenProperties
  <1>2. Begins(x, tag, hold) /\ \A k : Begins(x, tag, k) => k <= hold
    BY LongestHeld
  <1>3. seen \in 0 .. Len(x) /\ Len(x) - seen = hold /\ hold \in 0 .. Len(tag) - 1
    BY <1>1, <1>2 DEF Begins
  <1> HIDE DEF hold
  <1>4. xy \in Seq(Char) /\ Len(xy) = Len(x) + Len(y)
        /\ (\A i \in 1 .. Len(x) : xy[i] = x[i]) /\ \A i \in 1 .. Len(y) : xy[Len(x) + i] = y[i]
    BY TextJoined
  <1>5. buf \in Seq(Char) /\ Len(buf) = Len(xy) - seen /\ \A i \in 1 .. Len(buf) : buf[i] = xy[seen + i]
    <2> DEFINE d == Drop(x, seen)
    <2>1. d \in Seq(Char) /\ Len(d) = hold /\ \A i \in 1 .. hold : d[i] = x[seen + i]
      BY <1>1, <1>3, TextParts
    <2> HIDE DEF d
    <2>2. buf = d \o y
      BY DEF d
    <2>3. /\ buf \in Seq(Char) /\ Len(buf) = Len(d) + Len(y)
          /\ \A i \in 1 .. Len(d) : buf[i] = d[i]
          /\ \A i \in 1 .. Len(y) : buf[Len(d) + i] = y[i]
      <3>1. /\ d \o y \in Seq(Char) /\ Len(d \o y) = Len(d) + Len(y)
            /\ \A i \in 1 .. Len(d) : (d \o y)[i] = d[i]
            /\ \A i \in 1 .. Len(y) : (d \o y)[Len(d) + i] = y[i]
        BY <2>1, TextJoined
      <3> QED BY <2>2, <3>1
    <2>a. /\ hold \in Nat /\ seen \in Nat /\ Len(x) \in Nat /\ Len(y) \in Nat
          /\ Len(x) - seen = hold /\ Len(buf) = hold + Len(y) /\ Len(d) = hold
      BY <1>1, <1>3, <2>1, <2>3
    <2>4. ASSUME NEW i \in 1 .. Len(buf) PROVE buf[i] = xy[seen + i]
      <3>1. CASE i <= hold
        <4>1. i \in 1 .. hold /\ seen + i \in 1 .. Len(x)
          BY <2>a, <3>1
        <4> QED BY <1>4, <2>1, <2>3, <2>a, <4>1
      <3>2. CASE i > hold
        <4>0. i \in Nat /\ i <= hold + Len(y)
          BY <2>a
        <4>1. i - hold \in 1 .. Len(y) /\ hold + (i - hold) = i
          BY ONLY <2>a, <3>2, <4>0
        <4>3. Len(x) + (i - hold) = seen + i
          BY ONLY <2>a, <4>0
        <4>2. buf[i] = y[i - hold] /\ xy[seen + i] = y[i - hold]
          BY <1>4, <2>3, <2>a, <4>1, <4>3
        <4> QED BY <4>2
      <3>3. i \in Int
        BY <2>a
      <3> QED BY ONLY <2>a, <3>1, <3>2, <3>3
    <2>5. Len(buf) = Len(xy) - seen
      <3>1. Len(xy) = Len(x) + Len(y)
        BY <1>4
      <3> QED BY <2>a, <3>1
    <2> QED BY <2>3, <2>4, <2>5
  <1> HIDE DEF xy
  <1>6. Len(xy) < NPos /\ Len(buf) < NPos /\ Len(x) < NPos /\ Len(xy) \in Nat /\ Len(buf) \in Nat /\ NPos \in Nat
    BY <1>1, <1>3, <1>4, <1>5, NPosAssumption
  <1>a. /\ Len(tag) \in Nat /\ hold \in Nat /\ seen \in Nat /\ Len(x) \in Nat /\ Len(y) \in Nat
        /\ Len(xy) \in Nat /\ Len(buf) \in Nat /\ Len(xy) = Len(x) + Len(y)
        /\ Len(buf) = Len(xy) - seen /\ Len(x) - seen = hold /\ hold <= Len(tag) - 1
    BY <1>1, <1>3, <1>4, <1>5, <1>6
  <1>7. ASSUME NEW p \in Nat PROVE OccursAt(buf, tag, p) <=> OccursAt(xy, tag, seen + p)
    <2>1. p + Len(tag) <= Len(buf) <=> (seen + p) + Len(tag) <= Len(xy)
      BY <1>a
    <2>2. ASSUME p + Len(tag) <= Len(buf), NEW i \in 1 .. Len(tag)
          PROVE  buf[p + i] = xy[(seen + p) + i]
      <3>1. p + i \in 1 .. Len(buf) /\ seen + (p + i) = (seen + p) + i
        BY <1>1, <1>3, <1>6, <2>2
      <3> QED BY <1>5, <3>1
    <2> QED BY <2>1, <2>2 DEF OccursAt
  <1>8. ASSUME NEW q \in Nat, OccursAt(xy, tag, q) PROVE q >= seen
    <2>1. SUFFICES ASSUME q < seen PROVE FALSE
      BY <1>1, <1>3
    <2>2. q + Len(tag) <= Len(xy) /\ \A i \in 1 .. Len(tag) : xy[q + i] = tag[i]
      BY <1>8 DEF OccursAt
    <2>3. CASE q + Len(tag) <= Len(x)
      <3>1. \A i \in 1 .. Len(tag) : q + i \in 1 .. Len(x)
        BY <1>1, <2>3
      <3>2. OccursAt(x, tag, q)
        BY <1>4, <2>2, <2>3, <3>1 DEF OccursAt
      <3>3. FirstAt(x, tag, 0, NPos)
        BY <1>6, Found
      <3> QED BY <3>2, <3>3, <1>6 DEF FirstAt
    <2>4. CASE q + Len(tag) > Len(x)
      <3> DEFINE k == Len(x) - q
      <3>1. k \in 0 .. Len(tag) - 1 /\ k <= Len(x) /\ k > hold /\ Len(x) - k = q
        BY <1>1, <1>3, <2>1, <2>4
      <3>2. ASSUME NEW i \in 1 .. k PROVE x[Len(x) - k + i] = tag[i]
        <4>1. q + i \in 1 .. Len(x) /\ i \in 1 .. Len(tag) /\ Len(x) - k + i = q + i
          BY <1>1, <3>1
        <4> QED BY <1>4, <2>2, <4>1
      <3> HIDE DEF k
      <3>3. Begins(x, tag, k)
        BY <3>1, <3>2 DEF Begins
      <3> QED BY <1>2, <1>3, <3>1, <3>3
    <2> QED BY <1>1, <2>3, <2>4
  <1>9. Find(xy, tag, 0) = IF Find(buf, tag, 0) = NPos THEN NPos ELSE seen + Find(buf, tag, 0)
    <2> DEFINE f == Find(buf, tag, 0)
    <2>1. FirstAt(buf, tag, 0, f) /\ f \in Nat
      BY <1>5, <1>6, Found
    <2> HIDE DEF f
    <2>2. CASE f = NPos
      <3>1. ASSUME NEW q \in Nat, OccursAt(xy, tag, q) PROVE FALSE
        <4>1. q - seen \in Nat /\ seen + (q - seen) = q
          BY <1>3, <1>8, <3>1
        <4>2. OccursAt(buf, tag, q - seen)
          BY <1>7, <3>1, <4>1
        <4> QED BY <2>1, <2>2, <4>1, <4>2 DEF FirstAt
      <3>2. FirstAt(xy, tag, 0, NPos)
        BY <3>1 DEF FirstAt
      <3> QED BY <1>4, <1>6, <2>2, <3>2, FirstIsFound DEF f
    <2>3. CASE f # NPos
      <3>1. f \in Nat /\ f + Len(tag) <= Len(buf) /\ OccursAt(buf, tag, f)
            /\ \A q \in Nat : q >= 0 /\ OccursAt(buf, tag, q) => f <= q
        BY <2>1, <2>3 DEF FirstAt
      <3>2. seen + f \in Nat /\ (seen + f) + Len(tag) <= Len(xy) /\ seen + f < NPos /\ seen + f >= 0
        BY <1>1, <1>3, <1>5, <1>6, <3>1
      <3>3. OccursAt(xy, tag, seen + f)
        BY <1>7, <3>1
      <3>4. ASSUME NEW q \in Nat, OccursAt(xy, tag, q) PROVE seen + f <= q
        <4>1. q - seen \in Nat /\ seen + (q - seen) = q
          BY <1>3, <1>8, <3>4
        <4>2. OccursAt(buf, tag, q - seen)
          BY <1>7, <3>4, <4>1
        <4> QED BY <1>3, <3>1, <4>1, <4>2
      <3>5. FirstAt(xy, tag, 0, seen + f)
        BY <3>2, <3>3, <3>4 DEF FirstAt
      <3>6. Find(xy, tag, 0) = seen + f
        BY <1>4, <1>6, <3>2, <3>5, FirstIsFound
      <3> QED BY <2>3, <3>6 DEF f
    <2> QED BY <2>2, <2>3
  <1>10. LongestTagPrefixSuffix(xy, tag) = LongestTagPrefixSuffix(buf, tag)
    <2> DEFINE m == LongestTagPrefixSuffix(xy, tag)
               l == LongestTagPrefixSuffix(buf, tag)
    <2>1. Begins(xy, tag, m) /\ \A k : Begins(xy, tag, k) => k <= m
      BY <1>4, LongestHeld
    <2>2. Begins(buf, tag, l) /\ \A k : Begins(buf, tag, k) => k <= l
      BY <1>5, LongestHeld
    <2> HIDE DEF m, l
    <2>3. Begins(xy, tag, l)
      <3>1. l \in 0 .. Len(tag) - 1 /\ l <= Len(buf)
            /\ \A i \in 1 .. l : buf[Len(buf) - l + i] = tag[i]
        BY <2>2 DEF Begins
      <3>2. l <= Len(xy)
        BY <1>1, <1>3, <1>5, <1>6, <3>1
      <3>3. ASSUME NEW i \in 1 .. l PROVE xy[Len(xy) - l + i] = tag[i]
        <4>0. l \in Nat /\ l <= Len(buf) /\ i \in 1 .. l
          BY <3>1
        <4>1. Len(buf) - l + i \in 1 .. Len(buf) /\ seen + (Len(buf) - l + i) = Len(xy) - l + i
          BY ONLY <1>a, <4>0
        <4>2. buf[Len(buf) - l + i] = xy[seen + (Len(buf) - l + i)]
          BY <1>5, <4>1
        <4> QED BY <3>1, <4>1, <4>2
      <3> QED BY <3>1, <3>2, <3>3 DEF Begins
    <2>4. Begins(buf, tag, m)
      <3>1. m \in 0 .. Len(tag) - 1 /\ m <= Len(xy)
            /\ \A i \in 1 .. m : xy[Len(xy) - m + i] = tag[i]
        BY <2>1 DEF Begins
      <3>2. m <= Len(buf)
        <4>1. SUFFICES ASSUME m > Len(buf) PROVE FALSE
          BY <1>1, <1>6, <3>1
        <4> DEFINE k == m - Len(y)
        <4>2. k \in 0 .. Len(tag) - 1 /\ k <= Len(x) /\ k > hold /\ k <= m
          BY <1>a, <3>1, <4>1
        <4>3. ASSUME NEW i \in 1 .. k PROVE x[Len(x) - k + i] = tag[i]
          <5>1. Len(x) - k + i \in 1 .. Len(x) /\ i \in 1 .. m /\ Len(x) - k + i = Len(xy) - m + i
            BY <1>1, <1>4, <4>2, <3>1
          <5> QED BY <1>4, <3>1, <5>1
        <4> HIDE DEF k
        <4>4. Begins(x, tag, k)
          BY <4>2, <4>3 DEF Begins
        <4> QED BY <1>2, <1>3, <4>2, <4>4
      <3>3. ASSUME NEW i \in 1 .. m PROVE buf[Len(buf) - m + i] = tag[i]
        <4>0. m \in Nat /\ m <= Len(buf) /\ i \in 1 .. m
          BY <3>1, <3>2
        <4>1. Len(buf) - m + i \in 1 .. Len(buf) /\ seen + (Len(buf) - m + i) = Len(xy) - m + i
          BY ONLY <1>a, <4>0
        <4>2. buf[Len(buf) - m + i] = xy[seen + (Len(buf) - m + i)]
          BY <1>5, <4>1
        <4> QED BY <3>1, <4>1, <4>2
      <3> QED BY <3>1, <3>2, <3>3 DEF Begins
    <2>5. m <= l /\ l <= m
      BY <2>1, <2>2, <2>3, <2>4
    <2>6. m \in 0 .. Len(tag) - 1 /\ l \in 0 .. Len(tag) - 1
      BY <2>1, <2>2 DEF Begins
    <2>7. m = l
      BY <1>a, <2>5, <2>6
    <2> QED BY <2>7 DEF m, l
  <1> QED BY <1>3, <1>5, <1>9, <1>10 DEF xy, Resumed

-----------------------------------------------------------------------------
(* Lists joined.                                                           *)

\* The joins of the first lists of ss, one after the other.
Joins(ss, f) == f = [i \in 1 .. Len(ss) |-> IF i = 1 THEN ss[i] ELSE f[i - 1] \o ss[i]]

(* They exist, *)
LEMMA JoinsExist ==
  ASSUME NEW S, NEW ss \in Seq(Seq(S))
  PROVE  \E f : Joins(ss, f)
  <1> DEFINE Bad == {n \in Nat : \E tt \in Seq(Seq(S)) : Len(tt) = n /\ ~\E f : Joins(tt, f)}
  <1>1. CASE Bad = {}
    <2>1. Len(ss) \in Nat
      BY LenProperties
    <2> QED BY <1>1, <2>1
  <1>2. CASE Bad # {}
    <2>1. PICK n \in Bad : \A m \in Bad : n <= m
      BY <1>2, LeastNatural
    <2>2. PICK tt \in Seq(Seq(S)) : Len(tt) = n /\ ~\E f : Joins(tt, f)
      BY <2>1
    <2>3. n \in Nat
      BY <2>1
    <2>4. CASE n = 0
      <3>1. Joins(tt, [i \in 1 .. 0 |-> <<>>])
        BY <2>2, <2>4 DEF Joins
      <3> QED BY <2>2, <3>1
    <2>5. CASE n > 0
      <3> DEFINE uu == SubSeq(tt, 1, n - 1)
      <3>1. \A i \in 1 .. n - 1 : tt[i] \in Seq(S)
        BY <2>2, <2>3, ElementOfSeq
      <3>2. 1 \in Int /\ n - 1 \in Int
        BY <2>3
      <3>3. /\ uu \in Seq(Seq(S)) /\ Len(uu) = IF 1 <= n - 1 THEN (n - 1) - 1 + 1 ELSE 0
            /\ \A i \in 1 .. (n - 1) - 1 + 1 : uu[i] = tt[1 + i - 1]
        BY <3>1, <3>2, SubSeqProperties
      <3> HIDE DEF uu
      <3>4. Len(uu) = n - 1 /\ \A i \in 1 .. n - 1 : uu[i] = tt[i]
        BY <2>3, <2>5, <3>3
      <3>5. n - 1 \in Nat /\ n - 1 \notin Bad
        BY <2>1, <2>3, <2>5
      <3>6. PICK f : Joins(uu, f)
        BY <3>3, <3>4, <3>5
      <3> DEFINE g == [i \in 1 .. n |-> IF i = n THEN (IF n = 1 THEN tt[n] ELSE f[n - 1] \o tt[n]) ELSE f[i]]
      <3>7. ASSUME NEW i \in 1 .. n
            PROVE  g[i] = IF i = 1 THEN tt[i] ELSE g[i - 1] \o tt[i]
        <4>1. CASE i = n
          <5>1. n = 1 => g[i] = tt[i]
            BY <4>1
          <5>2. n # 1 => n - 1 \in 1 .. n /\ n - 1 # n
            BY <2>3, <2>5
          <5>3. n # 1 => g[n - 1] = f[n - 1]
            BY <5>2
          <5> QED BY <4>1, <5>1, <5>3
        <4>2. CASE i # n
          <5>1. i \in 1 .. n - 1
            BY <2>3, <4>2
          <5>2. f[i] = IF i = 1 THEN uu[i] ELSE f[i - 1] \o uu[i]
            BY <3>4, <3>6, <5>1 DEF Joins
          <5>3. i # 1 => i - 1 \in 1 .. n /\ i - 1 # n
            BY <2>3, <5>1
          <5>4. g[i] = f[i] /\ (i # 1 => g[i - 1] = f[i - 1])
            BY <4>2, <5>3
          <5> QED BY <3>4, <5>1, <5>2, <5>4
        <4> QED BY <4>1, <4>2
      <3>8. g = [i \in 1 .. n |-> g[i]]
        OBVIOUS
      <3> HIDE DEF g
      <3>9. Joins(tt, g)
        BY <2>2, <3>7, <3>8 DEF Joins
      <3> QED BY <2>2, <3>9
    <2> QED BY <2>3, <2>4, <2>5
  <1> QED BY <1>1, <1>2

(* and FlattenSeq is the last of them. *)
LEMMA FlattenJoins ==
  ASSUME NEW S, NEW ss \in Seq(Seq(S)), ss # <<>>
  PROVE  /\ Len(ss) \in Nat \ {0}
         /\ \E f : Joins(ss, f) /\ FlattenSeq(ss) = f[Len(ss)] /\ \A i \in 1 .. Len(ss) : f[i] \in Seq(S)
  <1> DEFINE f == CHOOSE h : Joins(ss, h)
  <1>1. Len(ss) \in Nat \ {0}
    BY EmptySeq
  <1>2. Joins(ss, f)
    BY JoinsExist
  <1>3. FlattenSeq(ss) = f[Len(ss)]
    BY <1>1 DEF FlattenSeq, Joins
  <1> HIDE DEF f
  <1>4. \A i \in 1 .. Len(ss) : f[i] \in Seq(S)
    <2> DEFINE Bad == {i \in 1 .. Len(ss) : f[i] \notin Seq(S)}
    <2>1. SUFFICES ASSUME Bad # {} PROVE FALSE
      OBVIOUS
    <2>2. Bad \in SUBSET Nat
      BY <1>1
    <2>3. PICK i \in Bad : \A j \in Bad : i <= j
      BY <2>1, <2>2, LeastNatural
    <2>4. i \in 1 .. Len(ss) /\ f[i] \notin Seq(S)
      BY <2>3
    <2>5. f[i] = IF i = 1 THEN ss[i] ELSE f[i - 1] \o ss[i]
      BY <1>2, <2>4 DEF Joins
    <2>6. ss[i] \in Seq(S)
      BY <2>4, ElementOfSeq
    <2>7. i # 1 => i - 1 \in 1 .. Len(ss) /\ i - 1 \notin Bad
      BY <1>1, <2>3, <2>4
    <2>8. i # 1 => f[i - 1] \in Seq(S)
      BY <2>7
    <2> QED BY <2>4, <2>5, <2>6, <2>8
  <1> QED BY <1>1, <1>2, <1>3, <1>4

(* One list more, joined. *)
LEMMA FlattenAppend ==
  ASSUME NEW S, NEW ss \in Seq(Seq(S)), NEW s \in Seq(S)
  PROVE  /\ FlattenSeq(ss) \in Seq(S)
         /\ FlattenSeq(Append(ss, s)) = FlattenSeq(ss) \o s
  <1> DEFINE tt == Append(ss, s)
             n == Len(ss)
  <1>1. /\ tt \in Seq(Seq(S)) /\ tt # <<>> /\ Len(tt) = n + 1
        /\ (\A i \in 1 .. n : tt[i] = ss[i]) /\ tt[n + 1] = s /\ n \in Nat
    BY AppendProperties, LenProperties
  <1> HIDE DEF tt
  <1>2. PICK g : Joins(tt, g) /\ FlattenSeq(tt) = g[Len(tt)] /\ \A i \in 1 .. Len(tt) : g[i] \in Seq(S)
    BY <1>1, FlattenJoins
  <1>3. CASE ss = <<>>
    <2>1. n = 0 /\ FlattenSeq(ss) = ss
      BY <1>3, EmptySeq DEF FlattenSeq
    <2>2. g[1] = tt[1]
      BY <1>1, <1>2, <2>1 DEF Joins
    <2>3. FlattenSeq(tt) = s
      BY <1>1, <1>2, <2>1, <2>2
    <2>4. <<>> \in Seq(S) /\ <<>> \o s = s
      BY EmptySeq, ConcatEmptySeq
    <2> QED BY <1>3, <2>1, <2>3, <2>4 DEF tt
  <1>4. CASE ss # <<>>
    <2>1. n \in Nat \ {0}
      BY <1>4, EmptySeq
    <2>2. PICK f : Joins(ss, f) /\ FlattenSeq(ss) = f[n] /\ \A i \in 1 .. n : f[i] \in Seq(S)
      BY <1>4, FlattenJoins
    <2> DEFINE Bad == {i \in 1 .. n : f[i] # g[i]}
    <2>3. Bad = {}
      <3>1. SUFFICES ASSUME Bad # {} PROVE FALSE
        OBVIOUS
      <3>2. Bad \in SUBSET Nat
        BY <2>1
      <3>3. PICK i \in Bad : \A j \in Bad : i <= j
        BY <3>1, <3>2, LeastNatural
      <3>4. i \in 1 .. n /\ f[i] # g[i]
        BY <3>3
      <3>5. f[i] = IF i = 1 THEN ss[i] ELSE f[i - 1] \o ss[i]
        BY <2>2, <3>4 DEF Joins
      <3>6. g[i] = IF i = 1 THEN tt[i] ELSE g[i - 1] \o tt[i]
        <4>1. i \in 1 .. Len(tt)
          BY <1>1, <2>1, <3>4
        <4> HIDE DEF Bad
        <4> QED BY <1>2, <4>1 DEF Joins
      <3>7. i # 1 => i - 1 \in 1 .. n /\ i - 1 \notin Bad
        <4>1. i \in Nat /\ ~(i <= i - 1) /\ (i # 1 => i - 1 \in 1 .. n)
          BY <2>1, <3>4
        <4> HIDE DEF Bad
        <4> QED BY <3>3, <4>1
      <3>8. i # 1 => f[i - 1] = g[i - 1]
        BY <3>7
      <3> QED BY <1>1, <3>4, <3>5, <3>6, <3>8
    <2>4. n \in 1 .. n /\ n \notin Bad
      BY <2>1, <2>3
    <2>5. f[n] = g[n]
      BY <2>4
    <2>6. g[n + 1] = g[(n + 1) - 1] \o tt[n + 1]
      <3>1. n + 1 \in 1 .. n + 1 /\ n + 1 # 1
        BY <2>1
      <3> QED BY <1>1, <1>2, <3>1 DEF Joins
    <2>7. (n + 1) - 1 = n
      BY <2>1
    <2> QED BY <1>1, <1>2, <2>2, <2>4, <2>5, <2>6, <2>7 DEF tt
  <1> QED BY <1>3, <1>4

(* Two lists of lists, joined. *)
LEMMA FlattenConcat ==
  ASSUME NEW S, NEW ss \in Seq(Seq(S)), NEW tt \in Seq(Seq(S))
  PROVE  FlattenSeq(ss \o tt) = FlattenSeq(ss) \o FlattenSeq(tt)
  <1> DEFINE Bad == {n \in Nat : \E uu \in Seq(Seq(S)) :
                       Len(uu) = n /\ FlattenSeq(ss \o uu) # FlattenSeq(ss) \o FlattenSeq(uu)}
  <1>1. CASE Bad = {}
    <2>1. Len(tt) \in Nat
      BY LenProperties
    <2> QED BY <1>1, <2>1
  <1>2. CASE Bad # {}
    <2>1. PICK n \in Bad : \A m \in Bad : n <= m
      BY <1>2, LeastNatural
    <2>2. PICK uu \in Seq(Seq(S)) : Len(uu) = n /\ FlattenSeq(ss \o uu) # FlattenSeq(ss) \o FlattenSeq(uu)
      BY <2>1
    <2>3. CASE uu = <<>>
      <3>1. FlattenSeq(<<>>) = <<>>
        BY EmptySeq DEF FlattenSeq
      <3>2. ss \o uu = ss
        BY <2>3, ConcatEmptySeq
      <3>3. <<>> \in Seq(S)
        BY EmptySeq
      <3>4. FlattenSeq(ss) \in Seq(S)
        BY <3>3, FlattenAppend
      <3>5. FlattenSeq(ss) \o <<>> = FlattenSeq(ss)
        BY <3>4, ConcatEmptySeq
      <3> QED BY <2>2, <2>3, <3>1, <3>2, <3>5
    <2>4. CASE uu # <<>>
      <3>1. PICK vv \in Seq(Seq(S)), v \in Seq(S) : uu = Append(vv, v)
        BY <2>4, SequenceEmptyOrAppend
      <3>2. Len(uu) = Len(vv) + 1 /\ Len(vv) \in Nat
        BY <3>1, AppendProperties, LenProperties
      <3>3. Len(vv) \notin Bad
        <4>1. n = Len(vv) + 1 /\ Len(vv) \in Nat
          BY <2>2, <3>2
        <4>2. ~(n <= Len(vv))
          BY ONLY <4>1
        <4> HIDE DEF Bad
        <4> QED BY <2>1, <4>2
      <3>4. FlattenSeq(ss \o vv) = FlattenSeq(ss) \o FlattenSeq(vv)
        BY <3>2, <3>3
      <3>5. ss \o uu = Append(ss \o vv, v)
        <4>1. uu = vv \o <<v>> /\ <<v>> \in Seq(Seq(S))
          BY <3>1, AppendIsConcat
        <4> DEFINE w == <<v>>
        <4> HIDE DEF w
        <4>a. w \in Seq(Seq(S)) /\ uu = vv \o w
          BY <4>1 DEF w
        <4>b. (ss \o vv) \o w = ss \o (vv \o w)
          <5> HIDE DEF Bad
          <5> QED BY <4>a, ConcatAssociative
        <4>2. ss \o uu = (ss \o vv) \o <<v>>
          BY <4>a, <4>b DEF w
        <4>3. ss \o vv \in Seq(Seq(S))
          BY ConcatProperties
        <4>4. Append(ss \o vv, v) = (ss \o vv) \o <<v>>
          BY <4>3, AppendIsConcat
        <4> QED BY <4>2, <4>4
      <3>6. ss \o vv \in Seq(Seq(S))
        BY ConcatProperties
      <3>7. FlattenSeq(ss \o uu) = FlattenSeq(ss \o vv) \o v
        BY <3>5, <3>6, FlattenAppend
      <3>8. FlattenSeq(uu) = FlattenSeq(vv) \o v
        BY <3>1, FlattenAppend
      <3>9. FlattenSeq(ss) \in Seq(S) /\ FlattenSeq(vv) \in Seq(S)
        BY <3>1, FlattenAppend
      <3>10. (FlattenSeq(ss) \o FlattenSeq(vv)) \o v = FlattenSeq(ss) \o (FlattenSeq(vv) \o v)
        <4> DEFINE a == FlattenSeq(ss)
                   b == FlattenSeq(vv)
        <4>1. a \in Seq(S) /\ b \in Seq(S)
          BY <3>9
        <4> HIDE DEF a, b
        <4>2. (a \o b) \o v = a \o (b \o v)
          <5> HIDE DEF Bad
          <5> QED BY <3>1, <4>1, ConcatAssociative
        <4> QED BY <4>2 DEF a, b
      <3> QED BY <2>2, <3>4, <3>7, <3>8, <3>10
    <2> QED BY <2>3, <2>4
  <1> QED BY <1>1, <1>2

(* No list joined, and one. *)
LEMMA FlattenSmall ==
  ASSUME NEW S
  PROVE  FlattenSeq(<<>>) = <<>> /\ \A s \in Seq(S) : FlattenSeq(<<s>>) = s
  <1>1. FlattenSeq(<<>>) = <<>>
    BY EmptySeq DEF FlattenSeq
  <1>2. ASSUME NEW s \in Seq(S) PROVE FlattenSeq(<<s>>) = s
    <2>1. <<>> \in Seq(Seq(S)) /\ Append(<<>>, s) = <<s>>
      BY EmptySeq
    <2>2. FlattenSeq(<<s>>) = <<>> \o s
      BY <1>1, <2>1, FlattenAppend
    <2> QED BY <2>2, ConcatEmptySeq
  <1> QED BY <1>1, <1>2

\* What a function makes of the elements of a list, joined.
Flat(F, s) == FlattenSeq([i \in 1 .. Len(s) |-> F[s[i]]])

(* What a function makes of the elements of a list is a list. *)
LEMMA MappedIsList ==
  ASSUME NEW A, NEW B, NEW F \in [A -> B], NEW s \in Seq(A)
  PROVE  /\ [i \in 1 .. Len(s) |-> F[s[i]]] \in Seq(B)
         /\ Len([i \in 1 .. Len(s) |-> F[s[i]]]) = Len(s)
  <1>1. Len(s) \in Nat /\ \A i \in 1 .. Len(s) : s[i] \in A
    BY LenProperties, ElementOfSeq
  <1>2. \A i \in 1 .. Len(s) : F[s[i]] \in B
    BY <1>1
  <1> QED BY <1>1, <1>2

ListOf(A, s) == s \in Seq(A)
ListsFor(A, S, F) == F \in [A -> Seq(S)]

(* It works list by list and element by element. *)
LEMMA FlatConcat ==
  ASSUME NEW A, NEW S, NEW F, ListsFor(A, S, F), NEW s, NEW t, ListOf(A, s), ListOf(A, t)
  PROVE  /\ ListOf(S, Flat(F, s)) /\ ListOf(A, s \o t)
         /\ Flat(F, s \o t) = Flat(F, s) \o Flat(F, t)
  <1>0. F \in [A -> Seq(S)] /\ s \in Seq(A) /\ t \in Seq(A)
    BY DEF ListOf, ListsFor
  <1> DEFINE ms == [i \in 1 .. Len(s) |-> F[s[i]]]
             mt == [i \in 1 .. Len(t) |-> F[t[i]]]
             mu == [i \in 1 .. Len(s \o t) |-> F[(s \o t)[i]]]
  <1>1. ms \in Seq(Seq(S)) /\ Len(ms) = Len(s) /\ \A i \in 1 .. Len(s) : ms[i] = F[s[i]]
    BY <1>0, MappedIsList
  <1>2. mt \in Seq(Seq(S)) /\ Len(mt) = Len(t) /\ \A i \in 1 .. Len(t) : mt[i] = F[t[i]]
    BY <1>0, MappedIsList
  <1>3. /\ s \o t \in Seq(A) /\ Len(s \o t) = Len(s) + Len(t)
        /\ \A i \in 1 .. Len(s) + Len(t) : (s \o t)[i] = IF i <= Len(s) THEN s[i] ELSE t[i - Len(s)]
    BY <1>0, ConcatProperties
  <1>4. Len(s) \in Nat /\ Len(t) \in Nat
    BY <1>0, LenProperties
  <1>5. mu \in Seq(Seq(S)) /\ Len(mu) = Len(s) + Len(t)
        /\ \A i \in 1 .. Len(s) + Len(t) : mu[i] = F[(s \o t)[i]]
    BY <1>0, <1>3, MappedIsList
  <1>6. Flat(F, s) = FlattenSeq(ms) /\ Flat(F, t) = FlattenSeq(mt) /\ Flat(F, s \o t) = FlattenSeq(mu)
    BY DEF Flat
  <1> HIDE DEF ms, mt, mu
  <1>7. /\ ms \o mt \in Seq(Seq(S)) /\ Len(ms \o mt) = Len(s) + Len(t)
        /\ \A i \in 1 .. Len(s) + Len(t) : (ms \o mt)[i] = IF i <= Len(s) THEN ms[i] ELSE mt[i - Len(s)]
    <2>1. ms \in Seq(Seq(S)) /\ mt \in Seq(Seq(S))
      BY <1>1, <1>2
    <2>2. /\ ms \o mt \in Seq(Seq(S)) /\ Len(ms \o mt) = Len(ms) + Len(mt)
          /\ \A i \in 1 .. Len(ms) + Len(mt) :
               (ms \o mt)[i] = IF i <= Len(ms) THEN ms[i] ELSE mt[i - Len(ms)]
      BY <2>1, ConcatProperties
    <2> QED BY <1>1, <1>2, <2>2
  <1>8. ASSUME NEW i \in 1 .. Len(s) + Len(t) PROVE mu[i] = (ms \o mt)[i]
    <2>1. CASE i <= Len(s)
      <3>1. i \in 1 .. Len(s)
        BY <1>4, <2>1
      <3> QED BY <1>1, <1>3, <1>5, <1>7, <2>1, <3>1
    <2>2. CASE ~(i <= Len(s))
      <3>1. i - Len(s) \in 1 .. Len(t)
        BY <1>4, <2>2
      <3>2. (ms \o mt)[i] = mt[i - Len(s)]
        BY <1>7, <2>2
      <3>3. (s \o t)[i] = t[i - Len(s)]
        BY <1>3, <2>2
      <3> QED BY <1>2, <1>5, <3>1, <3>2, <3>3
    <2> QED BY <2>1, <2>2
  <1>9. mu = ms \o mt
    <2>1. mu \in Seq(Seq(S)) /\ ms \o mt \in Seq(Seq(S)) /\ Len(mu) = Len(ms \o mt)
          /\ \A i \in 1 .. Len(mu) : mu[i] = (ms \o mt)[i]
      BY <1>5, <1>7, <1>8
    <2> DEFINE x == ms \o mt
    <2> HIDE DEF x
    <2>2. mu \in Seq(Seq(S)) /\ x \in Seq(Seq(S)) /\ Len(mu) = Len(x)
          /\ \A i \in 1 .. Len(mu) : mu[i] = x[i]
      BY <2>1 DEF x
    <2>3. mu = x
      BY <2>2, SeqEqual
    <2> QED BY <2>3 DEF x
  <1>10. FlattenSeq(mu) = FlattenSeq(ms) \o FlattenSeq(mt)
    BY <1>1, <1>2, <1>9, FlattenConcat
  <1>11. <<>> \in Seq(S)
    BY EmptySeq
  <1>12. FlattenSeq(ms) \in Seq(S)
    BY <1>1, <1>11, FlattenAppend
  <1> QED BY <1>3, <1>6, <1>10, <1>12 DEF ListOf

(* Of none, and of one. *)
LEMMA FlatSmall ==
  ASSUME NEW A, NEW S, NEW F, ListsFor(A, S, F)
  PROVE  /\ Flat(F, <<>>) = <<>> /\ ListOf(A, <<>>)
         /\ \A a \in A : Flat(F, <<a>>) = F[a] /\ ListOf(A, <<a>>) /\ ListOf(S, F[a])
  <1>0. F \in [A -> Seq(S)]
    BY DEF ListsFor
  <1>1. Flat(F, <<>>) = <<>>
    <2>1. [i \in 1 .. Len(<<>>) |-> F[<<>>[i]]] = <<>>
      OBVIOUS
    <2> QED BY <2>1, FlattenSmall DEF Flat
  <1>2. ASSUME NEW a \in A PROVE Flat(F, <<a>>) = F[a] /\ F[a] \in Seq(S) /\ <<a>> \in Seq(A)
    <2>1. [i \in 1 .. Len(<<a>>) |-> F[<<a>>[i]]] = <<F[a]>>
      OBVIOUS
    <2>2. F[a] \in Seq(S) /\ <<a>> \in Seq(A)
      BY <1>0
    <2> QED BY <2>1, <2>2, FlattenSmall DEF Flat
  <1>3. <<>> \in Seq(A)
    BY EmptySeq
  <1> QED BY <1>1, <1>2, <1>3 DEF ListOf

(* Joining what a second function makes of the joined lists is joining     *)
(* what it makes of each.                                                  *)
LEMMA FlatOfFlat ==
  ASSUME NEW A, NEW B, NEW S, NEW F, NEW G, NEW H, NEW s \in Seq(A),
         ListsFor(A, B, F), ListsFor(B, S, G), ListsFor(A, S, H),
         \A a \in A : H[a] = Flat(G, F[a])
  PROVE  Flat(G, Flat(F, s)) = Flat(H, s)
  <1> DEFINE Bad == {n \in Nat : \E u \in Seq(A) : Len(u) = n /\ Flat(G, Flat(F, u)) # Flat(H, u)}
  <1>1. CASE Bad = {}
    <2>1. Len(s) \in Nat
      BY LenProperties
    <2> QED BY <1>1, <2>1
  <1>2. CASE Bad # {}
    <2>1. PICK n \in Bad : \A m \in Bad : n <= m
      BY <1>2, LeastNatural
    <2>2. PICK u \in Seq(A) : Len(u) = n /\ Flat(G, Flat(F, u)) # Flat(H, u)
      BY <2>1
    <2>3. CASE u = <<>>
      <3>1. Flat(F, <<>>) = <<>> /\ Flat(H, <<>>) = <<>> /\ Flat(G, <<>>) = <<>>
        BY FlatSmall
      <3> QED BY <2>2, <2>3, <3>1
    <2>4. CASE u # <<>>
      <3>1. PICK v \in Seq(A), a \in A : u = Append(v, a)
        BY <2>4, SequenceEmptyOrAppend
      <3>2. Len(u) = Len(v) + 1 /\ Len(v) \in Nat
        BY <3>1, AppendProperties, LenProperties
      <3>3. Flat(G, Flat(F, v)) = Flat(H, v)
        <4>1. n = Len(v) + 1
          BY <2>2, <3>2
        <4>2. ~(n <= Len(v))
          BY ONLY <3>2, <4>1
        <4>3. Len(v) \notin Bad
          <5> HIDE DEF Bad
          <5> QED BY <2>1, <4>2
        <4> QED BY <3>1, <3>2, <4>3
      <3> HIDE DEF Bad
      <3> DEFINE w == <<a>>
      <3>4. w \in Seq(A) /\ u = v \o w
        BY <3>1, AppendIsConcat
      <3>5. /\ Flat(F, w) = F[a] /\ Flat(H, w) = H[a] /\ ListOf(B, F[a]) /\ ListOf(A, w)
            /\ H[a] = Flat(G, F[a]) /\ ListOf(A, v)
        BY <3>1, FlatSmall DEF ListOf
      <3> HIDE DEF w
      <3>6. /\ Flat(F, u) = Flat(F, v) \o F[a] /\ ListOf(B, Flat(F, v))
            /\ Flat(H, u) = Flat(H, v) \o H[a]
        <4>0. ListsFor(A, B, F)
          OBVIOUS
        <4>1. Flat(F, v \o w) = Flat(F, v) \o Flat(F, w) /\ ListOf(B, Flat(F, v))
          BY ONLY <3>5, <4>0, FlatConcat
        <4>2. Flat(H, v \o w) = Flat(H, v) \o Flat(H, w)
          BY <3>1, <3>5, FlatConcat
        <4> QED BY <3>4, <3>5, <4>1, <4>2
      <3> DEFINE fv == Flat(F, v)
                 fa == F[a]
      <3>7. Flat(G, fv \o fa) = Flat(G, fv) \o Flat(G, fa)
        <4>1. ListOf(B, fv) /\ ListOf(B, fa)
          BY <3>5, <3>6
        <4> HIDE DEF fv, fa
        <4> QED BY <4>1, FlatConcat
      <3> QED BY <2>2, <3>3, <3>5, <3>6, <3>7
    <2> QED BY <2>3, <2>4
  <1> QED BY <1>1, <1>2

-----------------------------------------------------------------------------
(* Events and chunks.                                                      *)

Events == [reasoning : BOOLEAN, text : Seq(Char)]

(* The text of one kind in a list of events. *)
LEMMA TextOfFlat ==
  ASSUME NEW ev \in Seq(Events), NEW b \in BOOLEAN,
         NEW F, F = [e \in Events |-> IF e.reasoning = b THEN e.text ELSE <<>>]
  PROVE  ListsFor(Events, Char, F) /\ TextOf(ev, b) = Flat(F, ev)
  <1>1. F \in [Events -> Seq(Char)]
    BY EmptyText DEF Events
  <1>2. Len(ev) \in Nat /\ \A i \in 1 .. Len(ev) : ev[i] \in Events
    BY LenProperties, ElementOfSeq
  <1>3. [i \in 1 .. Len(ev) |-> IF ev[i].reasoning = b THEN ev[i].text ELSE <<>>]
          = [i \in 1 .. Len(ev) |-> F[ev[i]]]
    BY <1>2
  <1> QED BY <1>1, <1>3 DEF TextOf, Flat, ListsFor

(* The text of two lists of events, joined. *)
LEMMA TextOfConcat ==
  ASSUME NEW ev \in Seq(Events), NEW fv \in Seq(Events), NEW b \in BOOLEAN
  PROVE  TextOf(ev, b) \in Seq(Char) /\ TextOf(ev \o fv, b) = TextOf(ev, b) \o TextOf(fv, b)
  <1> DEFINE F == [e \in Events |-> IF e.reasoning = b THEN e.text ELSE <<>>]
  <1>1. ev \o fv \in Seq(Events)
    BY ConcatProperties
  <1>2. /\ ListsFor(Events, Char, F) /\ TextOf(ev, b) = Flat(F, ev)
        /\ TextOf(fv, b) = Flat(F, fv) /\ TextOf(ev \o fv, b) = Flat(F, ev \o fv)
    BY <1>1, TextOfFlat
  <1> HIDE DEF F
  <1>3. ListOf(Events, ev) /\ ListOf(Events, fv)
    BY DEF ListOf
  <1>4. ListOf(Char, Flat(F, ev)) /\ Flat(F, ev \o fv) = Flat(F, ev) \o Flat(F, fv)
    BY <1>2, <1>3, FlatConcat
  <1> QED BY <1>2, <1>4 DEF ListOf

(* Of one event, and of none. *)
LEMMA TextOfEvent ==
  ASSUME NEW a \in BOOLEAN, NEW b \in BOOLEAN, NEW text \in Seq(Char)
  PROVE  /\ Event(a, text) \in Seq(Events) /\ <<>> \in Seq(Events)
         /\ TextOf(Event(a, text), b) = IF a = b THEN text ELSE <<>>
         /\ TextOf(<<>>, b) = <<>>
  <1> DEFINE F == [e \in Events |-> IF e.reasoning = b THEN e.text ELSE <<>>]
             x == [reasoning |-> a, text |-> text]
  <1>1. x \in Events /\ <<x>> \in Seq(Events) /\ <<>> \in Seq(Events)
    BY EmptySeq DEF Events
  <1>2. F[x] = IF a = b THEN text ELSE <<>>
    BY <1>1
  <1>3. ListsFor(Events, Char, F) /\ TextOf(<<x>>, b) = Flat(F, <<x>>) /\ TextOf(<<>>, b) = Flat(F, <<>>)
    BY <1>1, TextOfFlat
  <1>4. Event(a, text) = IF text = <<>> THEN <<>> ELSE <<x>>
    BY DEF Event
  <1> HIDE DEF F, x
  <1>5. Flat(F, <<x>>) = F[x] /\ Flat(F, <<>>) = <<>>
    BY <1>1, <1>3, FlatSmall
  <1> QED BY <1>1, <1>2, <1>3, <1>4, <1>5

(* The chunks of any events are a sequence of deltas. *)
LEMMA DeltasSequential ==
  ASSUME NEW r, NEW ev, Sequential(ev)
  PROVE  /\ Sequential(DeltaChunks(r, ev))
         /\ \A i \in DOMAIN DeltaChunks(r, ev) :
              /\ DeltaChunks(r, ev)[i].kind \in ChunkKinds
              /\ KindOf(DeltaChunks(r, ev)[i]) = "delta"
  <1> DEFINE A == {ev[i] : i \in DOMAIN ev}
             Kind(e) == IF e.reasoning THEN "reasoning" ELSE "content"
             B == {Chunk(Kind(e), e.text) : e \in A}
             F == [e \in A |-> IF e.reasoning /\ ~r.emitReasoning THEN <<>> ELSE <<Chunk(Kind(e), e.text)>>]
  <1>1. ev \in Seq(A) /\ DOMAIN ev = 1 .. Len(ev)
    BY SequentialFacts DEF Sequential
  <1>2. ListsFor(A, B, F)
    <2>1. <<>> \in Seq(B)
      BY EmptySeq
    <2>2. ASSUME NEW e \in A PROVE <<Chunk(Kind(e), e.text)>> \in Seq(B)
      <3>1. Chunk(Kind(e), e.text) \in B
        OBVIOUS
      <3> QED BY <3>1
    <2>3. \A e \in A : F[e] \in Seq(B)
      BY <2>1, <2>2
    <2> QED BY <2>3 DEF ListsFor
  <1>3. DeltaChunks(r, ev) = Flat(F, ev)
    <2>1. \A i \in 1 .. Len(ev) : ev[i] \in A
      BY <1>1
    <2>2. [i \in 1 .. Len(ev) |-> F[ev[i]]]
            = [i \in 1 .. Len(ev) |->
                 IF ev[i].reasoning /\ ~r.emitReasoning THEN <<>>
                 ELSE <<Chunk(IF ev[i].reasoning THEN "reasoning" ELSE "content", ev[i].text)>>]
      BY <2>1
    <2> QED BY <2>2 DEF DeltaChunks, Flat
  <1>4. \A c \in B : c.kind \in {"reasoning", "content"}
    BY DEF Chunk
  <1> HIDE DEF A, B, F
  <1>5. ListOf(A, ev)
    BY <1>1 DEF ListOf
  <1>6. ListOf(B, Flat(F, ev))
    BY <1>2, <1>5, FlatConcat
  <1> DEFINE d == DeltaChunks(r, ev)
  <1>7. d \in Seq(B)
    BY <1>3, <1>6 DEF ListOf
  <1> HIDE DEF d
  <1>8. \A i \in DOMAIN d : d[i] \in B
    BY <1>7, LenProperties, ElementOfSeq
  <1>9. Sequential(d)
    BY <1>7, OwnElements
  <1> QED BY <1>4, <1>8, <1>9 DEF KindOf, ChunkKinds, d

\* A sequence of chunks whose contents are texts.
Loaded(s) == Sequential(s) /\ \A i \in DOMAIN s : ContentOf(s[i]) \in Seq(Char)

(* The contents of a sequence of chunks are what each holds, joined. *)
LEMMA ContentsFlat ==
  ASSUME NEW A, \A c \in A : ContentOf(c) \in Seq(Char), NEW C, C = [c \in A |-> ContentOf(c)]
  PROVE  /\ ListsFor(A, Char, C)
         /\ \A s : ListOf(A, s) => Contents(s) = Flat(C, s)
  <1>1. ListsFor(A, Char, C)
    BY DEF ListsFor
  <1>2. ASSUME NEW s, ListOf(A, s) PROVE Contents(s) = Flat(C, s)
    <2>1. s \in Seq(A)
      BY <1>2 DEF ListOf
    <2>2. \A i \in 1 .. Len(s) : s[i] \in A
      BY <2>1, LenProperties, ElementOfSeq
    <2>3. [i \in 1 .. Len(s) |-> C[s[i]]] = [i \in 1 .. Len(s) |-> ContentOf(s[i])]
      BY <2>2
    <2> QED BY <2>3 DEF Contents, Flat
  <1> QED BY <1>1, <1>2

(* The contents of two sequences, joined. *)
LEMMA ContentsConcat ==
  ASSUME NEW s, NEW t, Loaded(s), Loaded(t)
  PROVE  /\ Loaded(s \o t) /\ Contents(s) \in Seq(Char) /\ Contents(t) \in Seq(Char)
         /\ Contents(s \o t) = Contents(s) \o Contents(t)
  <1> DEFINE A == {s[i] : i \in DOMAIN s} \cup {t[i] : i \in DOMAIN t}
             C == [c \in A |-> ContentOf(c)]
  <1>1. \A c \in A : ContentOf(c) \in Seq(Char)
    BY DEF Loaded
  <1>2. s \in Seq(A) /\ t \in Seq(A)
    BY SeqMonotonic DEF Loaded, Sequential
  <1>3. ListsFor(A, Char, C) /\ \A u : ListOf(A, u) => Contents(u) = Flat(C, u)
    BY <1>1, ContentsFlat
  <1> HIDE DEF A, C
  <1>4. ListOf(A, s) /\ ListOf(A, t)
    BY <1>2 DEF ListOf
  <1>5. ListOf(A, s \o t) /\ Flat(C, s \o t) = Flat(C, s) \o Flat(C, t)
    BY <1>3, <1>4, FlatConcat
  <1>6. ListOf(Char, Flat(C, s)) /\ ListOf(Char, Flat(C, t))
    BY <1>3, <1>4, FlatConcat
  <1>7. Sequential(s \o t) /\ \A i \in DOMAIN (s \o t) : (s \o t)[i] \in A
    <2> DEFINE u == s \o t
    <2>1. u \in Seq(A)
      BY <1>5 DEF ListOf
    <2> HIDE DEF u
    <2>2. Sequential(u) /\ \A i \in DOMAIN u : u[i] \in A
      BY <2>1, OwnElements, LenProperties, ElementOfSeq
    <2> QED BY <2>2 DEF u
  <1>8. /\ Contents(s) = Flat(C, s) /\ Contents(t) = Flat(C, t)
        /\ Contents(s \o t) = Flat(C, s \o t)
    BY <1>3, <1>4, <1>5
  <1>9. Loaded(s \o t)
    BY <1>1, <1>7 DEF Loaded
  <1> QED BY <1>5, <1>6, <1>8, <1>9 DEF ListOf

(* Of none, and of one. *)
LEMMA ContentsSmall ==
  /\ Loaded(<<>>) /\ Contents(<<>>) = <<>>
  /\ \A c : ContentOf(c) \in Seq(Char) => Loaded(<<c>>) /\ Contents(<<c>>) = ContentOf(c)
  <1>1. Loaded(<<>>)
    BY Literals DEF Loaded
  <1>2. Contents(<<>>) = <<>>
    <2>1. [i \in 1 .. Len(<<>>) |-> ContentOf(<<>>[i])] = <<>>
      OBVIOUS
    <2> QED BY <2>1, FlattenSmall DEF Contents
  <1>3. ASSUME NEW c, ContentOf(c) \in Seq(Char) PROVE Loaded(<<c>>) /\ Contents(<<c>>) = ContentOf(c)
    <2>1. Loaded(<<c>>)
      BY <1>3, Literals DEF Loaded
    <2>2. [i \in 1 .. Len(<<c>>) |-> ContentOf(<<c>>[i])] = <<ContentOf(c)>>
      OBVIOUS
    <2>3. FlattenSeq(<<ContentOf(c)>>) = ContentOf(c)
      BY <1>3, FlattenSmall
    <2> QED BY <2>1, <2>2, <2>3 DEF Contents
  <1> QED BY <1>1, <1>2, <1>3

(* The chunks of a list of events hold its answer text. *)
LEMMA ContentsOfDeltas ==
  ASSUME NEW r, NEW ev \in Seq(Events)
  PROVE  /\ Loaded(DeltaChunks(r, ev))
         /\ Contents(DeltaChunks(r, ev)) = TextOf(ev, FALSE)
  <1> DEFINE Kind(e) == IF e.reasoning THEN "reasoning" ELSE "content"
             B == [kind : {"reasoning", "content"}, text : Seq(Char)]
             F == [e \in Events |-> IF e.reasoning /\ ~r.emitReasoning THEN <<>> ELSE <<Chunk(Kind(e), e.text)>>]
             G == [c \in B |-> ContentOf(c)]
             H == [e \in Events |-> IF e.reasoning = FALSE THEN e.text ELSE <<>>]
  <1>1. Len(ev) \in Nat /\ \A i \in 1 .. Len(ev) : ev[i] \in Events
    BY LenProperties, ElementOfSeq
  <1>2. ASSUME NEW e \in Events PROVE Chunk(Kind(e), e.text) \in B /\ e.reasoning \in BOOLEAN /\ e.text \in Seq(Char)
    BY DEF Events, Chunk
  <1>3. ListsFor(Events, B, F)
    <2>1. \A e \in Events : F[e] \in Seq(B)
      <3>1. <<>> \in Seq(B)
        BY EmptySeq
      <3>2. \A c \in B : <<c>> \in Seq(B)
        OBVIOUS
      <3> QED BY <1>2, <3>1, <3>2
    <2> QED BY <2>1 DEF ListsFor
  <1>4. DeltaChunks(r, ev) = Flat(F, ev)
    <2>1. [i \in 1 .. Len(ev) |-> F[ev[i]]]
            = [i \in 1 .. Len(ev) |->
                 IF ev[i].reasoning /\ ~r.emitReasoning THEN <<>>
                 ELSE <<Chunk(IF ev[i].reasoning THEN "reasoning" ELSE "content", ev[i].text)>>]
      BY <1>1
    <2> QED BY <2>1 DEF DeltaChunks, Flat
  <1>5. \A c \in B : ContentOf(c) \in Seq(Char)
    BY EmptyText DEF ContentOf
  <1>6. ListsFor(B, Char, G) /\ \A s : ListOf(B, s) => Contents(s) = Flat(G, s)
    BY <1>5, ContentsFlat
  <1>7. H \in [Events -> Seq(Char)] /\ ListsFor(Events, Char, H) /\ TextOf(ev, FALSE) = Flat(H, ev)
    BY TextOfFlat DEF ListsFor
  <1>8. ASSUME NEW e \in Events PROVE H[e] = Flat(G, F[e])
    <2>1. e.reasoning \in BOOLEAN /\ Chunk(Kind(e), e.text) \in B
      BY <1>2
    <2>2. F[e] = <<>> \/ F[e] = <<Chunk(Kind(e), e.text)>>
      OBVIOUS
    <2>3. ContentOf(Chunk(Kind(e), e.text)) = H[e] /\ G[Chunk(Kind(e), e.text)] = H[e]
      BY <2>1 DEF ContentOf, Chunk
    <2>4. F[e] = <<>> => H[e] = <<>>
      BY <2>1
    <2> HIDE DEF G, B, F, H
    <2>5. Flat(G, <<>>) = <<>> /\ \A c \in B : Flat(G, <<c>>) = G[c]
      BY <1>6, FlatSmall
    <2> QED BY <2>1, <2>2, <2>3, <2>4, <2>5
  <1> HIDE DEF B, F, G, H
  <1>9. ListOf(Events, ev)
    BY DEF ListOf
  <1>10. ListOf(B, Flat(F, ev))
    BY <1>3, <1>9, FlatConcat
  <1>11. Flat(G, Flat(F, ev)) = Flat(H, ev)
    BY <1>3, <1>6, <1>7, <1>8, FlatOfFlat
  <1>12. Contents(DeltaChunks(r, ev)) = TextOf(ev, FALSE)
    BY <1>4, <1>6, <1>7, <1>10, <1>11
  <1>13. Loaded(DeltaChunks(r, ev))
    <2> DEFINE d == DeltaChunks(r, ev)
    <2>1. d \in Seq(B)
      BY <1>4, <1>10 DEF ListOf
    <2> HIDE DEF d
    <2>2. Sequential(d) /\ \A i \in DOMAIN d : d[i] \in B
      BY <2>1, OwnElements, LenProperties, ElementOfSeq
    <2>3. Loaded(d)
      BY <1>5, <2>2 DEF Loaded
    <2> QED BY <2>3 DEF d
  <1> QED BY <1>12, <1>13

-----------------------------------------------------------------------------
(* What the sinks queue.                                                   *)

(* The events of a text are a sequence of one or none. *)
LEMMA EventSequential == \A reasoning, text : Sequential(Event(reasoning, text))
  BY Literals DEF Event

(* So are those of an answer's text, *)
LEMMA AnswerSequential == \A sp, buf : Sequential(ProcessAnswer(sp, buf).ev)
  BY EventSequential, Literals DEF ProcessAnswer

(* of a text scanned for the closing tag, *)
LEMMA CloseSequential == \A sp, buf : Sequential(ScanForClose(sp, buf).ev)
  BY EventSequential, AnswerSequential, Concatenated DEF ScanForClose

(* of a piece pushed to the splitter, *)
LEMMA PushSequential == \A sp, piece : Sequential(SplitPush(sp, piece).ev)
  BY EventSequential, AnswerSequential, CloseSequential, Literals DEF SplitPush

(* of the splitter's last words, *)
LEMMA FinishSequential == \A sp : Sequential(SplitFinish(sp))
  BY EventSequential, Literals DEF SplitFinish

(* and of a token handed to the sink. *)
LEMMA TokenSequential == \A r, s, piece : Sequential(OnToken(r, s, piece).ev)
  BY EventSequential, PushSequential DEF OnToken

-----------------------------------------------------------------------------
(* The order of kinds.                                                     *)

(* The ranks, spelled out. *)
LEMMA Ranks ==
  /\ DOMAIN Rank = {"role", "delta", "calls", "finish", "error", "usage", "done"}
  /\ Rank["role"] = 1 /\ Rank["delta"] = 2 /\ Rank["calls"] = 2 /\ Rank["finish"] = 3
  /\ Rank["error"] = 3 /\ Rank["usage"] = 4 /\ Rank["done"] = 5
  BY DEF Rank

(* The ranks as numbers. *)
LEMMA RankRange == \A k \in DOMAIN Rank : Rank[k] \in 1 .. 5
  BY Ranks

(* Every chunk is of a ranked kind. *)
LEMMA KindRanked ==
  ASSUME NEW c, c.kind \in ChunkKinds
  PROVE  KindOf(c) \in DOMAIN Rank
  BY Ranks DEF KindOf, ChunkKinds

(* The worker's places and how far they go. *)
LEMMA Levels ==
  /\ Places = {"start", "decode", "tail", "log", "parse", "done", "close", "ended"}
  /\ After["start"] = "decode" /\ After["decode"] = "tail" /\ After["tail"] = "log"
  /\ After["log"] = "parse" /\ After["parse"] = "done" /\ After["done"] = "close"
  /\ After["close"] = "ended"
  /\ Level("start") = 0 /\ Level("close") = 5 /\ Level("ended") = 5
  /\ \A p \in {"decode", "tail", "log", "parse", "done"} : Level(p) = 2
  BY DEF Places, After, Level

-----------------------------------------------------------------------------
(* The worker's sink calls.                                                *)

(* A sink call puts its chunks at the end of the line. *)
LEMMA SinkCall ==
  ASSUME Shapes, StreamIsWhole, req.stream /\ alive => Lined,
         out = <<>>, UNCHANGED <<req, queue, httpVars>>,
         pc' \in Places, Level(pc) <= Level(pc'),
         Sequential(out'), Sorted(out'),
         \A i \in DOMAIN out' :
           /\ out'[i].kind \in ChunkKinds /\ Rank[KindOf(out'[i])] <= Level(pc')
           /\ Level(pc) = 0 \/ (Level(pc) = 2 /\ Rank[KindOf(out'[i])] >= 2),
         req.stream /\ pc' \in {"close", "ended"} =>
           \/ pc \in {"close", "ended"} /\ out' = <<>>
           \/ /\ pc \notin {"close", "ended"}
              /\ "done" \in KindsIn(out') /\ {"finish", "error"} \cap KindsIn(out') # {}
              /\ "usage" \in KindsIn(out') <=> req.usage /\ "finish" \in KindsIn(out')
  PROVE  Shapes' /\ StreamIsWhole' /\ (req'.stream /\ alive' => Lined')
  <1>1. /\ req' = req /\ queue' = queue /\ http' = http /\ chunk' = chunk /\ alive' = alive /\ got' = got
    BY DEF httpVars
  <1>2. Shapes'
    BY <1>1 DEF Shapes
  <1>3. StreamIsWhole'
    BY <1>1 DEF StreamIsWhole
  <1>4. ASSUME req.stream, alive PROVE Lined'
    <2>1. Lined
      BY <1>4
    <2>2. Waiting' = Waiting /\ Sent' = Sent
      BY <1>1 DEF Waiting, Sent
    <2>3. KindsIn(out) = {}
      BY Literals DEF KindsIn
    <2>4. Seen = Sent \cup KindsIn(Waiting) \cup KindsIn(queue)
          /\ Seen' = Sent \cup KindsIn(Waiting) \cup KindsIn(queue) \cup KindsIn(out')
      BY <1>1, <2>2, <2>3 DEF Seen
    <2>5. \A k \in Sent \cup KindsIn(Waiting) \cup KindsIn(queue) : k \in DOMAIN Rank
      <3>1. \A k \in Sent : k \in DOMAIN Rank
        BY DEF Shapes, Sent
      <3>2. \A k \in KindsIn(queue) : k \in DOMAIN Rank
        BY KindRanked DEF Shapes, KindsIn
      <3>3. \A k \in KindsIn(Waiting) : k \in DOMAIN Rank
        BY KindRanked, Literals DEF Shapes, KindsIn, Waiting
      <3> QED BY <3>1, <3>2, <3>3
    <2>6. \A k \in Sent \cup KindsIn(Waiting) \cup KindsIn(queue) : Rank[k] <= Level(pc)
      BY <2>1, <2>4 DEF Lined
    <2>7. ASSUME NEW k \in Sent \cup KindsIn(Waiting) \cup KindsIn(queue), NEW i \in DOMAIN out'
          PROVE  Before(k, KindOf(out'[i]))
      <3>1. Rank[k] \in 1 .. 5 /\ Rank[k] <= Level(pc)
        BY <2>5, <2>6, RankRange
      <3>2. KindOf(out'[i]) \in DOMAIN Rank
        BY KindRanked
      <3>3. Rank[KindOf(out'[i])] \in 1 .. 5
        BY <3>2, RankRange
      <3>4. Level(pc) = 2 /\ Rank[KindOf(out'[i])] >= 2
        BY <3>1
      <3> QED BY <3>1, <3>3, <3>4 DEF Before
    <2>8. InOrder(Waiting, out') /\ InOrder(queue, out')
      BY <2>7 DEF InOrder, KindsIn
    <2>9. Behind(out)'
      BY <2>2, <2>7 DEF Behind
    <2>10. \A k \in Seen' : Rank[k] <= Level(pc')
      <3>1. \A k \in KindsIn(out') : Rank[k] <= Level(pc')
        BY DEF KindsIn
      <3>2. pc \in Places
        BY DEF Shapes
      <3>3. Level(pc) \in Nat /\ Level(pc') \in Nat
        BY <3>2, Levels
      <3>4. \A k \in Sent \cup KindsIn(Waiting) \cup KindsIn(queue) : Rank[k] <= Level(pc')
        BY <2>5, <2>6, <3>3, RankRange
      <3> QED BY <2>4, <3>1, <3>4
    <2>11. ASSUME pc' \in {"close", "ended"}
           PROVE  /\ "done" \in Seen' /\ {"finish", "error"} \cap Seen' # {}
                  /\ "usage" \in Seen' <=> req'.usage /\ "finish" \in Seen'
      <3>1. CASE pc \in {"close", "ended"} /\ out' = <<>>
        <4>1. Seen' = Seen
          BY <2>3, <2>4, <3>1, Literals DEF KindsIn
        <4> QED BY <1>1, <2>1, <3>1, <4>1 DEF Lined
      <3>2. CASE /\ pc \notin {"close", "ended"}
                 /\ "done" \in KindsIn(out') /\ {"finish", "error"} \cap KindsIn(out') # {}
                 /\ "usage" \in KindsIn(out') <=> req.usage /\ "finish" \in KindsIn(out')
        <4>1. Level(pc) <= 2
          BY <3>2, Levels DEF Shapes
        <4>2. "usage" \notin Sent \cup KindsIn(Waiting) \cup KindsIn(queue)
              /\ "finish" \notin Sent \cup KindsIn(Waiting) \cup KindsIn(queue)
          <5>1. Level(pc) \in {0, 2}
            BY <3>2, Levels DEF Shapes
          <5> QED BY <2>6, <5>1, Ranks
        <4> QED BY <1>1, <2>4, <3>2, <4>2
      <3> QED BY <1>4, <2>11, <3>1, <3>2
    <2>12. Sorted(queue) /\ InOrder(Waiting, queue) /\ Behind(Waiting) /\ Behind(queue)
      BY <2>1 DEF Lined
    <2>13. (Sorted(queue) /\ InOrder(Waiting, queue) /\ Behind(Waiting) /\ Behind(queue))'
      BY <1>1, <2>2, <2>12 DEF Behind
    <2>14. (InOrder(Waiting, out) /\ InOrder(queue, out) /\ Sorted(out))'
      BY <1>1, <2>2, <2>8
    <2> QED BY <2>9, <2>10, <2>11, <2>13, <2>14 DEF Lined
  <1> QED BY <1>1, <1>2, <1>3, <1>4

(* A sequence of chunks in the API's order. *)
Line(s) == Sequential(s) /\ Sorted(s) /\ \A i \in DOMAIN s : s[i].kind \in ChunkKinds

(* Two such sequences joined, the second behind the first. *)
LEMMA Joined ==
  ASSUME NEW s, NEW t, Line(s), Line(t), \A k \in KindsIn(s), m \in KindsIn(t) : Before(k, m)
  PROVE  Line(s \o t) /\ KindsIn(s \o t) = KindsIn(s) \cup KindsIn(t)
  <1> DEFINE u == s \o t
  <1>1. /\ Sequential(u) /\ DOMAIN u = 1 .. Len(s) + Len(t)
        /\ \A i \in DOMAIN u : u[i] = IF i <= Len(s) THEN s[i] ELSE t[i - Len(s)]
    BY Concatenated DEF Line
  <1>2. /\ Len(s) \in Nat /\ DOMAIN s = 1 .. Len(s)
        /\ Len(t) \in Nat /\ DOMAIN t = 1 .. Len(t)
    BY SequentialFacts DEF Line
  <1> HIDE DEF u
  <1>3. ASSUME NEW i \in DOMAIN u
        PROVE  \/ i \in DOMAIN s /\ u[i] = s[i]
               \/ i > Len(s) /\ i - Len(s) \in DOMAIN t /\ u[i] = t[i - Len(s)]
    BY <1>1, <1>2
  <1>4. Sorted(u)
    <2>1. ASSUME NEW i \in DOMAIN u, NEW j \in DOMAIN u, i < j
          PROVE  Before(KindOf(u[i]), KindOf(u[j]))
      <3>1. i \in Nat /\ j \in Nat
        BY <1>1, <1>2
      <3>2. CASE j <= Len(s)
        <4>1. i \in DOMAIN s /\ j \in DOMAIN s /\ u[i] = s[i] /\ u[j] = s[j]
          BY <1>1, <1>2, <2>1, <3>1, <3>2
        <4> QED BY <2>1, <4>1 DEF Line, Sorted
      <3>3. CASE i > Len(s)
        <4>1. /\ i - Len(s) \in DOMAIN t /\ j - Len(s) \in DOMAIN t /\ i - Len(s) < j - Len(s)
              /\ u[i] = t[i - Len(s)] /\ u[j] = t[j - Len(s)]
          BY <1>1, <1>2, <2>1, <3>1, <3>3
        <4> QED BY <4>1 DEF Line, Sorted
      <3>4. CASE i <= Len(s) /\ j > Len(s)
        <4>1. i \in DOMAIN s /\ u[i] = s[i] /\ j - Len(s) \in DOMAIN t /\ u[j] = t[j - Len(s)]
          BY <1>1, <1>2, <3>1, <3>4
        <4>2. KindOf(u[i]) \in KindsIn(s) /\ KindOf(u[j]) \in KindsIn(t)
          BY <4>1 DEF KindsIn
        <4> QED BY <4>2
      <3> QED BY <1>2, <3>1, <3>2, <3>3, <3>4
    <2> QED BY <2>1 DEF Sorted
  <1>5. \A i \in DOMAIN u : u[i].kind \in ChunkKinds
    BY <1>3 DEF Line
  <1>6. KindsIn(u) = KindsIn(s) \cup KindsIn(t)
    <2>1. \A i \in DOMAIN u : KindOf(u[i]) \in KindsIn(s) \cup KindsIn(t)
      BY <1>3 DEF KindsIn
    <2>2. ASSUME NEW i \in DOMAIN s PROVE KindOf(s[i]) \in KindsIn(u)
      <3>1. i \in DOMAIN u /\ u[i] = s[i]
        BY <1>1, <1>2
      <3> QED BY <3>1 DEF KindsIn
    <2>3. ASSUME NEW i \in DOMAIN t PROVE KindOf(t[i]) \in KindsIn(u)
      <3>1. i + Len(s) \in DOMAIN u /\ u[i + Len(s)] = t[i]
        BY <1>1, <1>2
      <3> QED BY <3>1 DEF KindsIn
    <2>4. KindsIn(s) \cup KindsIn(t) \subseteq KindsIn(u)
      BY <2>2, <2>3 DEF KindsIn
    <2>5. KindsIn(u) \subseteq KindsIn(s) \cup KindsIn(t)
      BY <2>1 DEF KindsIn
    <2> QED BY <2>4, <2>5
  <1> QED BY <1>1, <1>4, <1>5, <1>6 DEF Line, u

(* The lines sink calls are made of: nothing, one chunk, deltas. *)
LEMMA Lines ==
  /\ Line(<<>>) /\ KindsIn(<<>>) = {}
  /\ \A kind \in ChunkKinds : \A text :
       Line(<<Chunk(kind, text)>>) /\ KindsIn(<<Chunk(kind, text)>>) = {KindOf(Chunk(kind, text))}
  /\ \A r, ev : Sequential(ev) =>
       Line(DeltaChunks(r, ev)) /\ KindsIn(DeltaChunks(r, ev)) \subseteq {"delta"}
  <1>1. Line(<<>>) /\ KindsIn(<<>>) = {}
    BY Literals DEF Line, Sorted, KindsIn
  <1>2. ASSUME NEW kind \in ChunkKinds, NEW text
        PROVE  Line(<<Chunk(kind, text)>>) /\ KindsIn(<<Chunk(kind, text)>>) = {KindOf(Chunk(kind, text))}
    <2> DEFINE c == Chunk(kind, text)
    <2>1. c.kind \in ChunkKinds
      BY DEF Chunk
    <2> HIDE DEF c
    <2>2. Sequential(<<c>>) /\ DOMAIN <<c>> = {1} /\ <<c>>[1] = c
      BY Literals
    <2>3. Line(<<c>>)
      BY <2>1, <2>2 DEF Line, Sorted
    <2>4. KindsIn(<<c>>) = {KindOf(c)}
      BY <2>2 DEF KindsIn
    <2> QED BY <2>3, <2>4 DEF c
  <1>3. ASSUME NEW r, NEW ev, Sequential(ev)
        PROVE  Line(DeltaChunks(r, ev)) /\ KindsIn(DeltaChunks(r, ev)) \subseteq {"delta"}
    <2> DEFINE d == DeltaChunks(r, ev)
    <2>1. Sequential(d) /\ \A i \in DOMAIN d : d[i].kind \in ChunkKinds /\ KindOf(d[i]) = "delta"
      BY <1>3, DeltasSequential
    <2> HIDE DEF d
    <2>2. Sorted(d)
      BY <2>1, Ranks DEF Sorted, Before
    <2>3. KindsIn(d) \subseteq {"delta"}
      BY <2>1 DEF KindsIn
    <2> QED BY <2>1, <2>2, <2>3 DEF Line, d
  <1> QED BY <1>1, <1>2, <1>3

(* The line a sink call leaves is what SinkCall asks for. *)
LEMMA SinkLine ==
  ASSUME Shapes, StreamIsWhole, req.stream /\ alive => Lined,
         out = <<>>, UNCHANGED <<req, queue, httpVars>>,
         NEW next \in Places, pc' = next, Level(pc) <= Level(next),
         Line(out'),
         \A k \in KindsIn(out') :
           Rank[k] <= Level(next) /\ (Level(pc) = 0 \/ (Level(pc) = 2 /\ Rank[k] >= 2)),
         req.stream /\ next \in {"close", "ended"} =>
           \/ pc \in {"close", "ended"} /\ out' = <<>>
           \/ /\ pc \notin {"close", "ended"}
              /\ "done" \in KindsIn(out') /\ {"finish", "error"} \cap KindsIn(out') # {}
              /\ "usage" \in KindsIn(out') <=> req.usage /\ "finish" \in KindsIn(out')
  PROVE  Shapes' /\ StreamIsWhole' /\ (req'.stream /\ alive' => Lined')
  <1>1. \A i \in DOMAIN out' : KindOf(out'[i]) \in KindsIn(out')
    BY DEF KindsIn
  <1>2. /\ Sequential(out') /\ Sorted(out')
        /\ \A i \in DOMAIN out' :
             /\ out'[i].kind \in ChunkKinds /\ Rank[KindOf(out'[i])] <= Level(pc')
             /\ Level(pc) = 0 \/ (Level(pc) = 2 /\ Rank[KindOf(out'[i])] >= 2)
    BY <1>1 DEF Line
  <1>3. pc' \in Places /\ Level(pc) <= Level(pc')
    OBVIOUS
  <1> QED BY <1>2, <1>3, SinkCall

(* A sink call of deltas alone. *)
LEMMA Delivered ==
  ASSUME IInv, out = <<>>, UNCHANGED <<req, queue, httpVars>>,
         NEW next \in Places, pc' = next, Level(pc) = 2, Level(next) = 2,
         NEW s, NEW split, Sequential(split.ev), Deliver(req, s, split)
  PROVE  Shapes' /\ StreamIsWhole' /\ (req'.stream /\ alive' => Lined')
  <1>1. out' = <<>> \/ out' = DeltaChunks(req, split.ev)
    BY DEF Deliver
  <1>2. Line(out') /\ KindsIn(out') \subseteq {"delta"}
    BY <1>1, Lines
  <1>3. \A k \in KindsIn(out') :
          Rank[k] <= Level(next) /\ (Level(pc) = 0 \/ (Level(pc) = 2 /\ Rank[k] >= 2))
    BY <1>2, Ranks
  <1>4. next \notin {"close", "ended"}
    BY Levels
  <1> QED BY <1>2, <1>3, <1>4, SinkLine DEF IInv

(* A step of the worker that hands nothing to the sink. *)
LEMMA Silent ==
  ASSUME IInv, out = <<>>, out' = <<>>, UNCHANGED <<req, queue, httpVars>>,
         NEW next \in Places, pc' = next, Level(pc) <= Level(next),
         req.stream => (pc \in {"close", "ended"} <=> next \in {"close", "ended"})
  PROVE  Shapes' /\ StreamIsWhole' /\ (req'.stream /\ alive' => Lined')
  <1>1. Line(out') /\ KindsIn(out') = {}
    BY Lines
  <1> QED BY <1>1, SinkLine DEF IInv

(* The first chunk of a chat stream carries the role. *)
LEMMA StartStep ==
  ASSUME IInv, OnStart
  PROVE  Shapes' /\ StreamIsWhole' /\ (req'.stream /\ alive' => Lined')
  <1>1. pc = "start" /\ out = <<>> /\ pc' = "decode" /\ UNCHANGED <<req, queue, httpVars>>
    BY Levels DEF OnStart, At
  <1>2. out' = <<>> \/ out' = <<Chunk("role", <<>>)>>
    BY DEF OnStart
  <1>3. KindOf(Chunk("role", <<>>)) = "role"
    BY DEF KindOf, Chunk
  <1>4. Line(out') /\ KindsIn(out') \subseteq {"role"}
    BY <1>2, <1>3, Lines DEF ChunkKinds
  <1>5. "decode" \in Places /\ Level(pc) = 0 /\ Level("decode") = 2
    BY <1>1, Levels
  <1>6. \A k \in KindsIn(out') :
          Rank[k] <= Level("decode") /\ (Level(pc) = 0 \/ (Level(pc) = 2 /\ Rank[k] >= 2))
    BY <1>4, <1>5, Ranks
  <1> QED BY <1>1, <1>4, <1>5, <1>6, SinkLine DEF IInv

(* Decoding, the flush at its end and the log: deltas or nothing. *)
LEMMA TextStep ==
  ASSUME IInv,
         LeaveLoop \/ FlushTail \/ NoteClientGone \/ \E token \in req.vocab : DecodeToken(token)
  PROVE  Shapes' /\ StreamIsWhole' /\ (req'.stream /\ alive' => Lined')
  <1>1. CASE LeaveLoop \/ NoteClientGone
    <2>1. /\ out = <<>> /\ out' = <<>> /\ UNCHANGED <<req, queue, httpVars>>
          /\ \/ pc = "decode" /\ pc' = "tail"
             \/ pc = "log" /\ pc' = "parse"
      BY <1>1, Levels DEF LeaveLoop, NoteClientGone, At
    <2>2. pc' \in Places /\ Level(pc) = 2 /\ Level(pc') = 2
          /\ pc \notin {"close", "ended"} /\ pc' \notin {"close", "ended"}
      BY <2>1, Levels
    <2> QED BY <2>1, <2>2, Silent
  <1>2. CASE FlushTail
    <2>1. pc = "tail" /\ out = <<>> /\ pc' = "log" /\ UNCHANGED <<req, queue, httpVars>>
      BY <1>2, Levels DEF FlushTail, At
    <2>2. "log" \in Places /\ Level(pc) = 2 /\ Level("log") = 2
      BY <2>1, Levels
    <2>3. PICK tail : FlushDecoder(tail)
      BY <1>2 DEF FlushTail
    <2>4. PICK last : FlushGate(tail, last)
      BY <2>3 DEF FlushDecoder
    <2>5. PICK first, second :
            /\ Sequential(first.ev) /\ Sequential(second.ev)
            /\ Deliver(req, sink, [sp |-> second.sp, ev |-> first.ev \o second.ev])
      BY <2>4, TokenSequential DEF FlushGate, DeliverSecond
    <2> DEFINE split == [sp |-> second.sp, ev |-> first.ev \o second.ev]
    <2>6. Sequential(split.ev)
      BY <2>5, Concatenated
    <2>7. Deliver(req, sink, split)
      BY <2>5
    <2> HIDE DEF split
    <2> QED BY <2>1, <2>2, <2>6, <2>7, Delivered
  <1>3. ASSUME NEW token, DecodeToken(token)
        PROVE  Shapes' /\ StreamIsWhole' /\ (req'.stream /\ alive' => Lined')
    <2>1. pc = "decode" /\ out = <<>> /\ UNCHANGED <<req, queue, httpVars>>
      BY <1>3 DEF DecodeToken, At
    <2>2. PICK e : Emit(e)
      BY <1>3 DEF DecodeToken
    <2>3. pc' \in {"decode", "tail"}
      BY <2>1, <2>2, Levels DEF Emit
    <2>4. Deliver(req, sink, OnToken(req, sink, e.text))
      BY <2>2 DEF Emit
    <2>5. Sequential(OnToken(req, sink, e.text).ev)
      BY TokenSequential
    <2>6. pc' \in Places /\ Level(pc) = 2 /\ Level(pc') = 2
      BY <2>1, <2>3, Levels
    <2> QED BY <2>1, <2>4, <2>5, <2>6, Delivered
  <1> QED BY <1>1, <1>2, <1>3

(* The calls are one chunk, of their own kind. *)
LEMMA ParseStep ==
  ASSUME IInv, ParseTools
  PROVE  Shapes' /\ StreamIsWhole' /\ (req'.stream /\ alive' => Lined')
  <1>1. pc = "parse" /\ out = <<>> /\ pc' = "done" /\ UNCHANGED <<req, queue, httpVars>>
    BY Levels DEF ParseTools, At
  <1>2. PICK ev, calls :
          /\ Sequential(ev)
          /\ \/ out' = <<>>
             \/ out' = DeltaChunks(req, ev) \o <<>>
             \/ out' = DeltaChunks(req, ev) \o <<Chunk("calls", calls)>>
    <2>1. CASE ~req.tools
      <3>1. out' = <<>>
        BY <1>1, <2>1 DEF ParseTools
      <3> QED BY <3>1, Literals
    <2>2. CASE req.tools
      <3> DEFINE text == ToolParseSource(gen)
                 pushed == SplitPush(Splitter(req.start), text)
                 ev == pushed.ev \o SplitFinish(pushed.sp)
                 source == IF req.start = "answer" THEN text ELSE TextOf(ev, FALSE)
                 parsed == DropUnknownToolCalls(ParseToolCalls(source))
                 oneShot == req.start # "answer" /\ ~req.stream
                 reasoning == IF oneShot /\ req.emitReasoning
                              THEN TrimReasoningWhitespace(TextOf(ev, TRUE))
                              ELSE sink.reasoning
                 s == [sink EXCEPT !.delivered = @ \/ oneShot, !.reasoning = reasoning,
                                   !.calls = parsed.calls]
                 owed == OnToken(req, s, StillOwed(req, gen, source, parsed.content))
      <3>1. out' = IF ~req.stream THEN <<>>
                   ELSE DeltaChunks(req, owed.ev)
                        \o IF parsed.calls = <<>> THEN <<>> ELSE <<Chunk("calls", parsed.calls)>>
        BY <2>2 DEF ParseTools
      <3>2. Sequential(owed.ev)
        BY TokenSequential
      <3> HIDE DEF owed, parsed
      <3>3. \/ out' = <<>>
            \/ out' = DeltaChunks(req, owed.ev) \o <<>>
            \/ out' = DeltaChunks(req, owed.ev) \o <<Chunk("calls", parsed.calls)>>
        BY <3>1
      <3> QED BY <3>2, <3>3
    <2> QED BY <2>1, <2>2
  <1> DEFINE d == DeltaChunks(req, ev)
             c == <<Chunk("calls", calls)>>
  <1>3. Line(d) /\ KindsIn(d) \subseteq {"delta"}
    BY <1>2, Lines
  <1>4. Line(c) /\ KindsIn(c) = {"calls"}
    BY Lines DEF KindOf, Chunk, ChunkKinds
  <1>5. Line(<<>>) /\ KindsIn(<<>>) = {}
    BY Lines
  <1>6. out' = <<>> \/ out' = d \o <<>> \/ out' = d \o c
    BY <1>2
  <1> HIDE DEF d, c
  <1>7. Before("delta", "calls")
    BY Ranks DEF Before
  <1>8. Line(d \o c) /\ KindsIn(d \o c) = KindsIn(d) \cup KindsIn(c)
    BY <1>3, <1>4, <1>7, Joined
  <1>9. Line(d \o <<>>) /\ KindsIn(d \o <<>>) = KindsIn(d) \cup {}
    BY <1>3, <1>5, Joined
  <1>10. Line(out') /\ KindsIn(out') \subseteq {"delta", "calls"}
    BY <1>3, <1>4, <1>5, <1>6, <1>8, <1>9
  <1>11. "done" \in Places /\ Level(pc) = 2 /\ Level("done") = 2
    BY <1>1, Levels
  <1>12. \A k \in KindsIn(out') :
           Rank[k] <= Level("done") /\ (Level(pc) = 0 \/ (Level(pc) = 2 /\ Rank[k] >= 2))
    BY <1>10, <1>11, Ranks
  <1> QED BY <1>1, <1>10, <1>11, <1>12, SinkLine DEF IInv

(* The end of a reply: the splitter's tail, the verdict, usage and [DONE]. *)
LEMMA DoneStep ==
  ASSUME IInv, OnDone
  PROVE  Shapes' /\ StreamIsWhole' /\ (req'.stream /\ alive' => Lined')
  <1>1. pc = "done" /\ out = <<>> /\ pc' = "close" /\ UNCHANGED <<req, queue, httpVars>>
    BY Levels DEF OnDone, At
  <1>2. "close" \in Places /\ Level(pc) = 2 /\ Level("close") = 5
    BY <1>1, Levels
  <1>3. CASE ~req.stream
    <2>1. out' = <<>>
      BY <1>3 DEF OnDone
    <2> QED BY <1>1, <1>2, <1>3, <2>1, Silent
  <1>4. CASE req.stream
    <2>1. PICK flush :
            /\ Sequential(flush)
            /\ out' = DeltaChunks(req, flush) \o <<Chunk("finish", <<>>)>>
                        \o (IF req.usage THEN <<Chunk("usage", <<>>)>> ELSE <<>>)
                        \o <<Chunk("done", <<>>)>>
      <3>1. Sequential(IF Splits(req) /\ ~sink.delivered THEN SplitFinish(sink.sp) ELSE <<>>)
        BY FinishSequential, Literals
      <3> QED BY <1>4, <3>1 DEF OnDone
    <2> DEFINE d == DeltaChunks(req, flush)
               f == <<Chunk("finish", <<>>)>>
               u == IF req.usage THEN <<Chunk("usage", <<>>)>> ELSE <<>>
               e == <<Chunk("done", <<>>)>>
    <2>2. Line(d) /\ KindsIn(d) \subseteq {"delta"}
      BY <2>1, Lines
    <2>3. Line(f) /\ KindsIn(f) = {"finish"} /\ Line(e) /\ KindsIn(e) = {"done"}
      BY Lines DEF KindOf, Chunk, ChunkKinds
    <2>4. Line(u) /\ KindsIn(u) \subseteq {"usage"} /\ ("usage" \in KindsIn(u) <=> req.usage)
      <3>1. Line(<<Chunk("usage", <<>>)>>) /\ KindsIn(<<Chunk("usage", <<>>)>>) = {"usage"}
        BY Lines DEF KindOf, Chunk, ChunkKinds
      <3>2. CASE req.usage
        BY <3>1, <3>2
      <3>3. CASE ~req.usage
        BY <3>3, Lines
      <3> QED BY <3>2, <3>3
    <2>5. out' = d \o f \o u \o e
      BY <2>1
    <2> HIDE DEF d, f, u, e
    <2>6. Line(d \o f) /\ KindsIn(d \o f) = KindsIn(d) \cup {"finish"}
      <3>1. Before("delta", "finish")
        BY Ranks DEF Before
      <3> QED BY <2>2, <2>3, <3>1, Joined
    <2> DEFINE df == d \o f
    <2> HIDE DEF df
    <2>7. Line(df \o u) /\ KindsIn(df \o u) = KindsIn(df) \cup KindsIn(u)
      <3>1. Before("delta", "usage") /\ Before("finish", "usage")
        BY Ranks DEF Before
      <3>2. Line(df) /\ KindsIn(df) \subseteq {"delta", "finish"}
        BY <2>2, <2>6 DEF df
      <3> QED BY <2>4, <3>1, <3>2, Joined
    <2> DEFINE dfu == df \o u
    <2> HIDE DEF dfu
    <2>8. Line(dfu \o e) /\ KindsIn(dfu \o e) = KindsIn(dfu) \cup {"done"}
      <3>1. Before("delta", "done") /\ Before("finish", "done") /\ Before("usage", "done")
        BY Ranks DEF Before
      <3>2. Line(dfu) /\ KindsIn(dfu) \subseteq {"delta", "finish", "usage"}
        BY <2>2, <2>4, <2>6, <2>7 DEF dfu, df
      <3> QED BY <2>3, <3>1, <3>2, Joined
    <2>9. Line(out') /\ KindsIn(out') = KindsIn(d) \cup {"finish"} \cup KindsIn(u) \cup {"done"}
      BY <2>5, <2>6, <2>7, <2>8 DEF dfu, df
    <2>10. /\ "done" \in KindsIn(out') /\ "finish" \in KindsIn(out')
           /\ "usage" \in KindsIn(out') <=> req.usage
           /\ KindsIn(out') \subseteq {"delta", "finish", "usage", "done"}
      BY <2>2, <2>4, <2>9
    <2>11. \A k \in KindsIn(out') :
             Rank[k] <= Level("close") /\ (Level(pc) = 0 \/ (Level(pc) = 2 /\ Rank[k] >= 2))
      BY <1>2, <2>10, Ranks
    <2>12. /\ pc \notin {"close", "ended"}
           /\ "done" \in KindsIn(out') /\ {"finish", "error"} \cap KindsIn(out') # {}
           /\ "usage" \in KindsIn(out') <=> req.usage /\ "finish" \in KindsIn(out')
      BY <1>1, <2>10
    <2> QED BY <1>1, <1>2, <2>9, <2>11, <2>12, SinkLine DEF IInv
  <1> QED BY <1>3, <1>4

(* The end of a failed one. *)
LEMMA ErrorStep ==
  ASSUME IInv, OnError
  PROVE  Shapes' /\ StreamIsWhole' /\ (req'.stream /\ alive' => Lined')
  <1>1. /\ pc \in {"start", "decode", "tail"} /\ out = <<>> /\ pc' = "close"
        /\ UNCHANGED <<req, queue, httpVars>>
    BY DEF OnError, At
  <1>2. "close" \in Places /\ Level(pc) \in {0, 2} /\ Level("close") = 5 /\ Level(pc) <= Level("close")
    BY <1>1, Levels
  <1>3. CASE ~req.stream
    <2>1. out' = <<>>
      BY <1>3 DEF OnError
    <2> QED BY <1>1, <1>2, <1>3, <2>1, Silent
  <1>4. CASE req.stream
    <2> DEFINE a == Chunk("error", <<>>)
               b == Chunk("done", <<>>)
    <2>1. out' = <<a, b>>
      BY <1>4 DEF OnError
    <2>2. KindOf(a) = "error" /\ KindOf(b) = "done" /\ a.kind \in ChunkKinds /\ b.kind \in ChunkKinds
      BY DEF KindOf, Chunk, ChunkKinds
    <2> HIDE DEF a, b
    <2>3. out' \in Seq({a, b}) /\ Len(out') = 2 /\ out'[1] = a /\ out'[2] = b
      BY <2>1
    <2>4. Sequential(out') /\ DOMAIN out' = {1, 2}
      BY <2>3, OwnElements, LenProperties
    <2>5. Sorted(out')
      BY <2>2, <2>3, <2>4, Ranks DEF Sorted, Before
    <2>6. Line(out') /\ KindsIn(out') = {"error", "done"}
      BY <2>2, <2>3, <2>4, <2>5 DEF Line, KindsIn
    <2>7. \A k \in KindsIn(out') :
            Rank[k] <= Level("close") /\ (Level(pc) = 0 \/ (Level(pc) = 2 /\ Rank[k] >= 2))
      BY <1>2, <2>6, Ranks
    <2>8. /\ pc \notin {"close", "ended"}
          /\ "done" \in KindsIn(out') /\ {"finish", "error"} \cap KindsIn(out') # {}
          /\ "usage" \in KindsIn(out') <=> req.usage /\ "finish" \in KindsIn(out')
      BY <1>1, <2>6
    <2> QED BY <1>1, <1>2, <2>6, <2>7, <2>8, SinkLine DEF IInv
  <1> QED BY <1>3, <1>4

(* The queue is closed. *)
LEMMA CloseStep ==
  ASSUME IInv, CloseQueue
  PROVE  Shapes' /\ StreamIsWhole' /\ (req'.stream /\ alive' => Lined')
  <1>1. /\ pc = "close" /\ out = <<>> /\ out' = <<>> /\ pc' = "ended"
        /\ UNCHANGED <<req, queue, httpVars>>
    BY Levels DEF CloseQueue, At
  <1>2. "ended" \in Places /\ Level(pc) <= Level("ended")
    BY <1>1, Levels
  <1> QED BY <1>1, <1>2, Silent

-----------------------------------------------------------------------------
(* The line moves: into the queue, to the HTTP thread, to the client.      *)

(* Order between two sequences is order between their kinds. *)
LEMMA OrderByKinds ==
  /\ \A s, t : InOrder(s, t) <=> \A k \in KindsIn(s), m \in KindsIn(t) : Before(k, m)
  /\ \A s : Behind(s) <=> \A k \in Sent, m \in KindsIn(s) : Before(k, m)
  BY DEF InOrder, Behind, KindsIn

(* A line without its first chunk. *)
LEMMA FirstOff ==
  ASSUME NEW s, Line(s), s # <<>>
  PROVE  /\ Line(Tail(s)) /\ Head(s).kind \in ChunkKinds
         /\ KindsIn(s) = {KindOf(Head(s))} \cup KindsIn(Tail(s))
         /\ \A m \in KindsIn(Tail(s)) : Before(KindOf(Head(s)), m)
  <1> DEFINE t == Tail(s)
             n == Len(s)
  <1>1. /\ Sequential(t) /\ n \in Nat \ {0} /\ DOMAIN t = 1 .. n - 1 /\ DOMAIN s = 1 .. n
        /\ \A i \in 1 .. n - 1 : t[i] = s[i + 1]
        /\ Head(s) = s[1]
    BY Headed, SequentialFacts DEF Line
  <1>2. /\ \A i \in DOMAIN s : s[i].kind \in ChunkKinds
        /\ \A i, j \in DOMAIN s : i < j => Before(KindOf(s[i]), KindOf(s[j]))
    BY DEF Line, Sorted
  <1> HIDE DEF t, n
  <1>3. \A i \in DOMAIN t : i + 1 \in DOMAIN s /\ 1 < i + 1 /\ t[i] = s[i + 1]
    BY <1>1
  <1>4. 1 \in DOMAIN s
    BY <1>1
  <1>5. \A i, j \in DOMAIN t : i < j => i + 1 < j + 1
    BY <1>1
  <1>6. Line(t)
    BY <1>1, <1>2, <1>3, <1>5 DEF Line, Sorted
  <1>7. \A m \in KindsIn(t) : Before(KindOf(s[1]), m)
    BY <1>2, <1>3, <1>4 DEF KindsIn
  <1>8. KindsIn(s) = {KindOf(s[1])} \cup KindsIn(t)
    <2>1. ASSUME NEW i \in DOMAIN s, i # 1 PROVE KindOf(s[i]) \in KindsIn(t)
      <3>1. i - 1 \in DOMAIN t /\ t[i - 1] = s[i]
        BY <1>1, <2>1
      <3> QED BY <3>1 DEF KindsIn
    <2>2. KindsIn(s) \subseteq {KindOf(s[1])} \cup KindsIn(t)
      BY <2>1 DEF KindsIn
    <2>3. {KindOf(s[1])} \cup KindsIn(t) \subseteq KindsIn(s)
      BY <1>3, <1>4 DEF KindsIn
    <2> QED BY <2>2, <2>3
  <1> QED BY <1>1, <1>2, <1>4, <1>6, <1>7, <1>8 DEF t

(* A line and one chunk more. *)
LEMMA OneMore ==
  ASSUME NEW s, Line(s), NEW c, c.kind \in ChunkKinds,
         \A k \in KindsIn(s) : Before(k, KindOf(c))
  PROVE  Line(Append(s, c)) /\ KindsIn(Append(s, c)) = KindsIn(s) \cup {KindOf(c)}
  <1> DEFINE t == Append(s, c)
             n == Len(s)
  <1>1. /\ Sequential(t) /\ DOMAIN t = 1 .. n + 1 /\ n \in Nat /\ DOMAIN s = 1 .. n
        /\ \A i \in 1 .. n : t[i] = s[i]
        /\ t[n + 1] = c
    BY Appended, SequentialFacts DEF Line
  <1>2. /\ \A i \in DOMAIN s : s[i].kind \in ChunkKinds
        /\ \A i, j \in DOMAIN s : i < j => Before(KindOf(s[i]), KindOf(s[j]))
    BY DEF Line, Sorted
  <1> HIDE DEF t, n
  <1>3. ASSUME NEW i \in DOMAIN t PROVE (i \in DOMAIN s /\ t[i] = s[i]) \/ t[i] = c
    <2>1. i \in 1 .. n + 1
      BY <1>1
    <2>2. i \in 1 .. n \/ i = n + 1
      BY <1>1, <2>1
    <2> QED BY <1>1, <2>2
  <1>4. \A i, j \in DOMAIN t : i < j => i \in DOMAIN s
    BY <1>1
  <1>5. \A i \in DOMAIN s : KindOf(s[i]) \in KindsIn(s)
    BY DEF KindsIn
  <1>6. ASSUME NEW i \in DOMAIN t, NEW j \in DOMAIN t, i < j
        PROVE  Before(KindOf(t[i]), KindOf(t[j]))
    <2>1. i \in DOMAIN s /\ t[i] = s[i]
      BY <1>1, <1>4, <1>6
    <2>2. CASE j \in DOMAIN s /\ t[j] = s[j]
      BY <1>2, <1>6, <2>1, <2>2
    <2>3. CASE t[j] = c
      BY <1>5, <2>1, <2>3
    <2> QED BY <1>3, <2>2, <2>3
  <1>7. Line(t)
    BY <1>1, <1>2, <1>3, <1>6 DEF Line, Sorted
  <1>8. KindsIn(t) = KindsIn(s) \cup {KindOf(c)}
    <2>1. KindsIn(t) \subseteq KindsIn(s) \cup {KindOf(c)}
      BY <1>3 DEF KindsIn
    <2>2. ASSUME NEW i \in DOMAIN s PROVE KindOf(s[i]) \in KindsIn(t)
      <3>1. i \in DOMAIN t /\ t[i] = s[i]
        BY <1>1
      <3> QED BY <3>1 DEF KindsIn
    <2>3. KindOf(c) \in KindsIn(t)
      <3>1. n + 1 \in DOMAIN t /\ t[n + 1] = c
        BY <1>1
      <3> QED BY <3>1 DEF KindsIn
    <2> QED BY <2>1, <2>2, <2>3 DEF KindsIn
  <1> QED BY <1>7, <1>8 DEF t

(* What IInv says of the queue and the worker's sink call. *)
LEMMA LinesOfState ==
  ASSUME IInv, req.stream, alive
  PROVE  /\ Line(queue) /\ Line(out)
         /\ \A k \in KindsIn(Waiting), m \in KindsIn(queue) : Before(k, m)
         /\ \A k \in KindsIn(Waiting), m \in KindsIn(out) : Before(k, m)
         /\ \A k \in KindsIn(queue), m \in KindsIn(out) : Before(k, m)
         /\ \A k \in Sent, m \in KindsIn(Waiting) \cup KindsIn(queue) \cup KindsIn(out) : Before(k, m)
  <1>1. Lined /\ Shapes
    BY DEF IInv
  <1>2. Line(queue) /\ Line(out)
    BY <1>1 DEF Lined, Shapes, Line
  <1>3. /\ InOrder(Waiting, queue) /\ InOrder(Waiting, out) /\ InOrder(queue, out)
        /\ Behind(Waiting) /\ Behind(queue) /\ Behind(out)
    BY <1>1 DEF Lined
  <1> QED BY <1>2, <1>3, OrderByKinds

(* The invariant's order of a line whose parts have moved. *)
LEMMA Moved ==
  ASSUME IInv, req.stream, alive, UNCHANGED <<req, pc>>,
         Line(queue') /\ Line(out'), Seen' = Seen,
         \A k \in KindsIn(Waiting'), m \in KindsIn(queue') : Before(k, m),
         \A k \in KindsIn(Waiting'), m \in KindsIn(out') : Before(k, m),
         \A k \in KindsIn(queue'), m \in KindsIn(out') : Before(k, m),
         \A k \in Sent', m \in KindsIn(Waiting') \cup KindsIn(queue') \cup KindsIn(out') : Before(k, m)
  PROVE  Lined'
  <1>1. Lined
    BY DEF IInv
  <1>2. InOrder(Waiting', queue') /\ InOrder(Waiting', out') /\ InOrder(queue', out')
    BY OrderByKinds
  <1>3. (Behind(Waiting) /\ Behind(queue) /\ Behind(out))'
    BY DEF Behind, KindsIn
  <1>4. Sorted(queue') /\ Sorted(out')
    BY DEF Line
  <1>5. /\ \A k \in Seen : Rank[k] <= Level(pc)
        /\ pc \in {"close", "ended"} =>
             /\ "done" \in Seen /\ {"finish", "error"} \cap Seen # {}
             /\ "usage" \in Seen <=> req.usage /\ "finish" \in Seen
    BY <1>1 DEF Lined
  <1>6. /\ \A k \in Seen' : Rank[k] <= Level(pc')
        /\ pc' \in {"close", "ended"} =>
             /\ "done" \in Seen' /\ {"finish", "error"} \cap Seen' # {}
             /\ "usage" \in Seen' <=> req'.usage /\ "finish" \in Seen'
    BY <1>5
  <1> QED BY <1>2, <1>3, <1>4, <1>6 DEF Lined

(* A chunk enters the queue. *)
LEMMA PushStep ==
  ASSUME IInv, Push
  PROVE  Shapes' /\ StreamIsWhole' /\ (req'.stream /\ alive' => Lined')
  <1>1. /\ out # <<>> /\ out' = Tail(out)
        /\ queue' = IF closed THEN queue ELSE Append(queue, Head(out))
        /\ UNCHANGED <<req, pc, http, chunk, alive, got>>
    BY DEF Push, httpVars
  <1>2. Shapes /\ StreamIsWhole /\ CloseIsCause
    BY DEF IInv
  <1>3. Sequential(out) /\ Sequential(queue)
        /\ (\A i \in DOMAIN out : out[i].kind \in ChunkKinds)
        /\ (\A i \in DOMAIN queue : queue[i].kind \in ChunkKinds)
    BY <1>2 DEF Shapes
  <1>4. /\ Sequential(out') /\ DOMAIN out' = 1 .. Len(out) - 1 /\ DOMAIN out = 1 .. Len(out)
        /\ Len(out) \in Nat \ {0} /\ Head(out) = out[1]
        /\ \A i \in 1 .. Len(out) - 1 : out'[i] = out[i + 1]
    BY <1>1, <1>3, Headed, SequentialFacts
  <1>5. \A i \in DOMAIN out' : out'[i].kind \in ChunkKinds
    BY <1>3, <1>4
  <1>6. Head(out).kind \in ChunkKinds
    BY <1>3, <1>4
  <1>7. Sequential(queue') /\ \A i \in DOMAIN queue' : queue'[i].kind \in ChunkKinds
    <2>1. CASE closed
      BY <1>1, <1>3, <2>1
    <2>2. CASE ~closed
      <3>1. queue' = Append(queue, Head(out))
        BY <1>1, <2>2
      <3>2. /\ Sequential(queue') /\ DOMAIN queue' = 1 .. Len(queue) + 1
            /\ Len(queue) \in Nat /\ DOMAIN queue = 1 .. Len(queue)
            /\ \A i \in 1 .. Len(queue) : queue'[i] = queue[i]
            /\ queue'[Len(queue) + 1] = Head(out)
        BY <1>3, <3>1, Appended, SequentialFacts
      <3>3. ASSUME NEW i \in DOMAIN queue' PROVE queue'[i].kind \in ChunkKinds
        <4>1. i \in 1 .. Len(queue) + 1
          BY <3>2
        <4>2. i \in 1 .. Len(queue) \/ i = Len(queue) + 1
          BY <3>2, <4>1
        <4> QED BY <1>3, <1>6, <3>2, <4>2
      <3> QED BY <3>2, <3>3
    <2> QED BY <2>1, <2>2
  <1>8. Shapes'
    BY <1>1, <1>2, <1>4, <1>5, <1>7 DEF Shapes
  <1>9. StreamIsWhole'
    BY <1>1, <1>2 DEF StreamIsWhole
  <1>10. ASSUME req.stream, alive PROVE Lined'
    <2>1. ~closed
      BY <1>1, <1>2, <1>10 DEF CloseIsCause
    <2>2. queue' = Append(queue, Head(out))
      BY <1>1, <2>1
    <2>3. /\ Line(queue) /\ Line(out)
          /\ \A k \in KindsIn(Waiting), m \in KindsIn(queue) : Before(k, m)
          /\ \A k \in KindsIn(Waiting), m \in KindsIn(out) : Before(k, m)
          /\ \A k \in KindsIn(queue), m \in KindsIn(out) : Before(k, m)
          /\ \A k \in Sent, m \in KindsIn(Waiting) \cup KindsIn(queue) \cup KindsIn(out) : Before(k, m)
      BY <1>10, LinesOfState
    <2>4. /\ Line(out') /\ KindsIn(out) = {KindOf(Head(out))} \cup KindsIn(out')
          /\ \A m \in KindsIn(out') : Before(KindOf(Head(out)), m)
      BY <1>1, <2>3, FirstOff
    <2>5. Line(queue') /\ KindsIn(queue') = KindsIn(queue) \cup {KindOf(Head(out))}
      BY <1>6, <2>2, <2>3, <2>4, OneMore
    <2>6. Waiting' = Waiting /\ Sent' = Sent
      BY <1>1 DEF Waiting, Sent
    <2>7. Seen' = Seen
      BY <2>4, <2>5, <2>6 DEF Seen
    <2>8. /\ \A k \in KindsIn(Waiting'), m \in KindsIn(queue') : Before(k, m)
          /\ \A k \in KindsIn(Waiting'), m \in KindsIn(out') : Before(k, m)
          /\ \A k \in KindsIn(queue'), m \in KindsIn(out') : Before(k, m)
      BY <2>3, <2>4, <2>5, <2>6
    <2>9. \A k \in Sent', m \in KindsIn(Waiting') \cup KindsIn(queue') \cup KindsIn(out') : Before(k, m)
      BY <2>3, <2>4, <2>5, <2>6
    <2> QED BY <1>1, <1>10, <2>4, <2>5, <2>7, <2>8, <2>9, Moved
  <1> QED BY <1>1, <1>8, <1>9, <1>10

(* Nothing comes behind [DONE]. *)
LEMMA NothingBehindDone ==
  ASSUME NEW k \in DOMAIN Rank
  PROVE  ~Before("done", k)
  <1>1. Rank[k] \in 1 .. 5
    BY RankRange
  <1> QED BY <1>1, Ranks DEF Before

(* A stream that holds [DONE] ends with it. *)
LEMMA LastIsDone ==
  ASSUME Shapes, NEW i \in DOMAIN got.kinds, got.kinds[i] = "done",
         \A j, k \in DOMAIN got.kinds : j < k => Before(got.kinds[j], got.kinds[k])
  PROVE  Last(got.kinds) = "done"
  <1>1. Len(got.kinds) \in Nat /\ DOMAIN got.kinds = 1 .. Len(got.kinds)
    BY SequentialFacts DEF Shapes
  <1>2. Len(got.kinds) \in DOMAIN got.kinds /\ (i < Len(got.kinds) \/ i = Len(got.kinds))
    BY <1>1
  <1>3. ~(i < Len(got.kinds))
    BY <1>2, NothingBehindDone DEF Shapes
  <1> QED BY <1>2, <1>3 DEF Last

(* The HTTP thread takes a chunk, or sees the drained end. *)
LEMMA StreamNextStep ==
  ASSUME IInv, StreamNext
  PROVE  Shapes' /\ StreamIsWhole' /\ (req'.stream /\ alive' => Lined')
  <1>1. http = "pop" /\ UNCHANGED <<req, pc, out, alive>>
    BY DEF StreamNext, workerVars
  <1>2. Shapes /\ StreamIsWhole /\ CloseIsCause
    BY DEF IInv
  <1>3. Waiting = <<>> /\ KindsIn(Waiting) = {}
    BY <1>1, Lines DEF Waiting
  <1>4. Sequential(queue) /\ \A i \in DOMAIN queue : queue[i].kind \in ChunkKinds
    BY <1>2 DEF Shapes
  <1>5. CASE /\ queue # <<>> /\ chunk' = Head(queue) /\ queue' = Tail(queue)
             /\ http' = "write" /\ UNCHANGED got
    <2>1. /\ Sequential(queue') /\ Len(queue) \in Nat \ {0} /\ DOMAIN queue = 1 .. Len(queue)
          /\ DOMAIN queue' = 1 .. Len(queue) - 1
          /\ \A i \in 1 .. Len(queue) - 1 : queue'[i] = queue[i + 1]
          /\ chunk' = queue[1]
      BY <1>4, <1>5, Headed, SequentialFacts
    <2>2. \A i \in DOMAIN queue' : queue'[i].kind \in ChunkKinds
      BY <1>4, <2>1
    <2>3. chunk'.kind \in ChunkKinds
      BY <1>4, <2>1
    <2>4. Shapes'
      BY <1>1, <1>2, <1>5, <2>1, <2>2, <2>3 DEF Shapes
    <2>5. StreamIsWhole'
      BY <1>1, <1>2, <1>5 DEF StreamIsWhole
    <2>6. ASSUME req.stream, alive PROVE Lined'
      <3>1. /\ Line(queue) /\ Line(out)
            /\ \A k \in KindsIn(queue), m \in KindsIn(out) : Before(k, m)
            /\ \A k \in Sent, m \in KindsIn(Waiting) \cup KindsIn(queue) \cup KindsIn(out) : Before(k, m)
        BY <2>6, LinesOfState
      <3>2. /\ Line(queue') /\ KindsIn(queue) = {KindOf(Head(queue))} \cup KindsIn(queue')
            /\ \A m \in KindsIn(queue') : Before(KindOf(Head(queue)), m)
        BY <1>5, <3>1, FirstOff
      <3>3. Waiting' = <<chunk'>>
        BY <1>5 DEF Waiting
      <3>4. KindsIn(Waiting') = {KindOf(Head(queue))}
        BY <1>5, <3>3, Literals DEF KindsIn
      <3>5. out' = out /\ Sent' = Sent
        BY <1>1, <1>5 DEF Sent
      <3>6. Seen' = Seen
        BY <1>3, <3>2, <3>4, <3>5 DEF Seen
      <3>7. /\ \A k \in KindsIn(Waiting'), m \in KindsIn(queue') : Before(k, m)
            /\ \A k \in KindsIn(Waiting'), m \in KindsIn(out') : Before(k, m)
            /\ \A k \in KindsIn(queue'), m \in KindsIn(out') : Before(k, m)
        BY <3>1, <3>2, <3>4, <3>5
      <3>8. \A k \in Sent', m \in KindsIn(Waiting') \cup KindsIn(queue') \cup KindsIn(out') : Before(k, m)
        BY <3>1, <3>2, <3>4, <3>5
      <3> QED BY <1>1, <2>6, <3>1, <3>2, <3>5, <3>6, <3>7, <3>8, Moved
    <2> QED BY <1>1, <2>4, <2>5, <2>6
  <1>6. CASE /\ Drained /\ http' = "release" /\ got' = [got EXCEPT !.whole = alive]
             /\ UNCHANGED <<chunk, queue>>
    <2>1. /\ got'.kinds = got.kinds /\ got'.whole = alive /\ got'.content = got.content
          /\ got'.reasoning = got.reasoning /\ got'.calls = got.calls
      BY <1>2, <1>6 DEF Shapes
    <2>2. got' \in [kinds : {got.kinds}, content : {got.content}, reasoning : {got.reasoning},
                    calls : {got.calls}, whole : BOOLEAN]
      BY <1>2, <1>6 DEF Shapes
    <2>3. Shapes'
      BY <1>1, <1>2, <1>6, <2>1, <2>2 DEF Shapes
    <2>4. \A i, j \in DOMAIN got.kinds : i < j => Before(got.kinds[i], got.kinds[j])
      BY <1>1, <1>2 DEF StreamIsWhole, CloseIsCause
    <2>5. req.stream /\ closed /\ queue = <<>>
      BY <1>1, <1>2, <1>6 DEF CloseIsCause, Drained
    <2>6. ASSUME alive
          PROVE  /\ Lined' /\ Last(got.kinds) = "done"
                 /\ {"finish", "error"} \cap Range(got.kinds) # {}
                 /\ ("usage" \in Range(got.kinds)) = (req.usage /\ "finish" \in Range(got.kinds))
      <3>1. pc = "ended" /\ out = <<>>
        BY <1>2, <2>5, <2>6 DEF CloseIsCause
      <3>2. Seen = Sent
        BY <1>3, <2>5, <3>1, Lines DEF Seen
      <3>3. Lined
        BY <2>5, <2>6 DEF IInv
      <3>4. /\ "done" \in Sent /\ {"finish", "error"} \cap Sent # {}
            /\ "usage" \in Sent <=> req.usage /\ "finish" \in Sent
        BY <3>1, <3>2, <3>3 DEF Lined
      <3>5. Range(got.kinds) = Sent
        BY DEF Range, Sent
      <3>6. Last(got.kinds) = "done"
        <4>1. PICK i \in DOMAIN got.kinds : got.kinds[i] = "done"
          BY <3>4 DEF Sent
        <4> QED BY <1>2, <2>4, <4>1, LastIsDone
      <3>7. Waiting' = Waiting /\ Sent' = Sent
        BY <1>1, <1>6, <2>1 DEF Waiting, Sent
      <3>8. UNCHANGED <<queue, out, req, pc>>
        BY <1>1, <1>6
      <3>9. Lined'
        BY <3>3, <3>7, <3>8 DEF Lined, Seen, Behind
      <3>10. ("usage" \in Range(got.kinds)) = (req.usage /\ "finish" \in Range(got.kinds))
        BY <3>4, <3>5
      <3> QED BY <3>4, <3>5, <3>6, <3>9, <3>10
    <2>7. StreamIsWhole'
      BY <1>1, <2>1, <2>4, <2>6 DEF StreamIsWhole
    <2> QED BY <1>1, <2>3, <2>6, <2>7
  <1> QED BY <1>5, <1>6 DEF StreamNext

(* A chunk reaches the client. *)
LEMMA WriteStep ==
  ASSUME IInv, WriteChunk
  PROVE  Shapes' /\ StreamIsWhole' /\ (req'.stream /\ alive' => Lined')
  <1>1. /\ http = "write" /\ http' = "pop" /\ UNCHANGED <<req, pc, out, queue, alive>>
        /\ got' = IF alive THEN Received(got, chunk) ELSE got
    BY DEF WriteChunk, workerVars
  <1>2. Shapes /\ StreamIsWhole /\ CloseIsCause
    BY DEF IInv
  <1>3. CASE ~alive
    <2>1. got' = got
      BY <1>1, <1>3
    <2>2. Shapes'
      BY <1>1, <1>2, <2>1 DEF Shapes
    <2>3. StreamIsWhole'
      BY <1>1, <1>2, <2>1 DEF StreamIsWhole
    <2> QED BY <1>1, <1>3, <2>2, <2>3
  <1>4. CASE alive
    <2> DEFINE k == KindOf(chunk)
               old == got.kinds
               new == IF got.kinds # <<>> /\ Last(got.kinds) = KindOf(chunk) THEN got.kinds
                      ELSE Append(got.kinds, KindOf(chunk))
    <2>1. got' = Received(got, chunk)
      BY <1>1, <1>4
    <2>2. got'.kinds = new /\ got'.whole = got.whole
      BY <2>1 DEF Received
    <2>3. got.whole \in BOOLEAN
      BY <1>2 DEF Shapes
    <2>4. got' \in [kinds : {got'.kinds}, content : {got'.content}, reasoning : {got'.reasoning},
                    calls : {got'.calls}, whole : BOOLEAN]
      BY <2>1, <2>3 DEF Received
    <2>5. k \in DOMAIN Rank
      BY <1>1, <1>2, KindRanked DEF Shapes
    <2>6. /\ Sequential(old) /\ Len(old) \in Nat /\ DOMAIN old = 1 .. Len(old)
          /\ \A i \in DOMAIN old : old[i] \in DOMAIN Rank
      BY <1>2, SequentialFacts DEF Shapes
    <2>7. req.stream
      BY <1>1, <1>2 DEF CloseIsCause
    <2>8. Waiting = <<chunk>> /\ KindsIn(Waiting) = {k}
      BY <1>1, Literals DEF Waiting, KindsIn
    <2>9. /\ Line(queue) /\ Line(out)
          /\ \A j \in {k}, m \in KindsIn(queue) : Before(j, m)
          /\ \A j \in {k}, m \in KindsIn(out) : Before(j, m)
          /\ \A j \in KindsIn(queue), m \in KindsIn(out) : Before(j, m)
          /\ \A j \in Sent, m \in {k} \cup KindsIn(queue) \cup KindsIn(out) : Before(j, m)
      BY <1>4, <2>7, <2>8, LinesOfState
    <2>10. \A i \in DOMAIN old : old[i] \in Sent
      BY DEF Sent
    <2>11. \A i, j \in DOMAIN old : i < j => Before(old[i], old[j])
      BY <1>2, <2>7 DEF StreamIsWhole
    <2> HIDE DEF k
    <2>12. /\ Sequential(new) /\ DOMAIN old \subseteq DOMAIN new
           /\ \A i \in DOMAIN old : new[i] = old[i]
           /\ \A i \in DOMAIN new : i \in DOMAIN old \/ (new[i] = k /\ \A j \in DOMAIN old : j < i)
           /\ \A i, j \in DOMAIN new : i < j => i \in DOMAIN old
           /\ \E i \in DOMAIN new : new[i] = k
      <3>1. CASE old # <<>> /\ Last(old) = k
        <4>1. new = old
          BY <3>1 DEF k
        <4>2. Len(old) # 0
          BY <2>6, <3>1, EmptySeq DEF Sequential
        <4>3. Len(old) \in DOMAIN old /\ old[Len(old)] = k
          BY <2>6, <3>1, <4>2 DEF Last
        <4> QED BY <2>6, <4>1, <4>3
      <3>2. CASE ~(old # <<>> /\ Last(old) = k)
        <4>1. new = Append(old, k)
          BY <3>2 DEF k
        <4> HIDE DEF old, new
        <4>2. /\ Sequential(new) /\ DOMAIN new = 1 .. Len(old) + 1
              /\ \A i \in 1 .. Len(old) : new[i] = old[i]
              /\ new[Len(old) + 1] = k
          BY <2>6, <4>1, Appended
        <4>3. DOMAIN old \subseteq DOMAIN new /\ \A i, j \in DOMAIN new : i < j => i \in DOMAIN old
          BY <2>6, <4>2
        <4>4. ASSUME NEW i \in DOMAIN new
              PROVE  i \in DOMAIN old \/ (new[i] = k /\ \A j \in DOMAIN old : j < i)
          <5>1. i \in 1 .. Len(old) + 1
            BY <4>2
          <5>2. i \in 1 .. Len(old) \/ i = Len(old) + 1
            BY <2>6, <5>1
          <5> QED BY <2>6, <4>2, <5>2
        <4>5. Len(old) + 1 \in DOMAIN new
          BY <2>6, <4>2
        <4> QED BY <2>6, <4>2, <4>3, <4>4, <4>5
      <3> QED BY <3>1, <3>2
    <2> HIDE DEF old, new
    <2>13. \A i \in DOMAIN new : new[i] \in DOMAIN Rank
      BY <2>5, <2>6, <2>12
    <2>14. Shapes'
      BY <1>1, <1>2, <2>2, <2>4, <2>12, <2>13 DEF Shapes
    <2>15. ASSUME NEW i \in DOMAIN new, NEW j \in DOMAIN new, i < j PROVE Before(new[i], new[j])
      <3>1. i \in DOMAIN old /\ new[i] = old[i]
        BY <2>12, <2>15
      <3>2. CASE j \in DOMAIN old
        BY <2>11, <2>12, <2>15, <3>1, <3>2
      <3>3. CASE new[j] = k
        BY <2>9, <2>10, <3>1, <3>3
      <3> QED BY <2>12, <3>2, <3>3
    <2>16. ~got.whole
      <3>1. SUFFICES ASSUME got.whole PROVE FALSE
        OBVIOUS
      <3>2. Last(old) = "done" /\ {"finish", "error"} \cap Range(old) # {}
        BY <1>2, <2>7, <3>1 DEF StreamIsWhole, old
      <3>3. PICK i \in DOMAIN old : TRUE
        BY <3>2 DEF Range
      <3>4. Len(old) \in DOMAIN old
        BY <2>6, <3>3
      <3>5. "done" \in Sent
        BY <2>10, <3>2, <3>4 DEF Last
      <3> QED BY <2>5, <2>9, <3>5, NothingBehindDone
    <2>17. StreamIsWhole'
      BY <1>1, <2>2, <2>15, <2>16 DEF StreamIsWhole
    <2>18. Waiting' = <<>> /\ KindsIn(Waiting') = {}
      BY <1>1, Lines DEF Waiting
    <2>19. Sent' = Sent \cup {k}
      <3>1. Sent' = {new[i] : i \in DOMAIN new}
        BY <2>2 DEF Sent
      <3>2. Sent = {old[i] : i \in DOMAIN old}
        BY DEF Sent, old
      <3>3. {new[i] : i \in DOMAIN new} \subseteq {old[i] : i \in DOMAIN old} \cup {k}
        BY <2>12
      <3>4. {old[i] : i \in DOMAIN old} \cup {k} \subseteq {new[i] : i \in DOMAIN new}
        <4>1. \A i \in DOMAIN old : i \in DOMAIN new /\ old[i] = new[i]
          BY <2>12
        <4> QED BY <2>12, <4>1
      <3> QED BY <3>1, <3>2, <3>3, <3>4
    <2>20. out' = out /\ queue' = queue
      BY <1>1
    <2>21. Seen' = Seen
      BY <2>8, <2>18, <2>19, <2>20 DEF Seen
    <2>22. Line(queue') /\ Line(out')
      BY <2>9, <2>20
    <2>23. /\ \A j \in KindsIn(Waiting'), m \in KindsIn(queue') : Before(j, m)
           /\ \A j \in KindsIn(Waiting'), m \in KindsIn(out') : Before(j, m)
           /\ \A j \in KindsIn(queue'), m \in KindsIn(out') : Before(j, m)
      BY <2>9, <2>18, <2>20
    <2>24. \A j \in Sent', m \in KindsIn(Waiting') \cup KindsIn(queue') \cup KindsIn(out') : Before(j, m)
      BY <2>9, <2>18, <2>19, <2>20
    <2>25. Lined'
      BY <1>1, <1>4, <2>7, <2>21, <2>22, <2>23, <2>24, Moved
    <2> QED BY <2>14, <2>17, <2>25
  <1> QED BY <1>3, <1>4

(* The other steps of the HTTP thread and its client move no chunk. *)
LEMMA LeavingStep ==
  ASSUME IInv, ClientLeaves \/ WriteFails \/ CancelClose \/ Release \/ Respond
  PROVE  Shapes' /\ StreamIsWhole' /\ (req'.stream /\ alive' => Lined')
  <1>1. Shapes /\ StreamIsWhole /\ CloseIsCause
    BY DEF IInv
  <1>2. CASE Respond
    <2>1. http = "wait" /\ http' = "ended" /\ UNCHANGED <<req, pc, out, queue, chunk, alive>>
      BY <1>2 DEF Respond, workerVars
    <2>2. ~req.stream
      BY <1>1, <2>1 DEF CloseIsCause
    <2>3. Sequential(got'.kinds) /\ (\A i \in DOMAIN got'.kinds : got'.kinds[i] \in DOMAIN Rank)
          /\ got' \in [kinds : {got'.kinds}, content : {got'.content}, reasoning : {got'.reasoning},
                       calls : {got'.calls}, whole : BOOLEAN]
      <3>1. CASE got' = got
        BY <1>1, <3>1 DEF Shapes
      <3>2. CASE got' = [got EXCEPT !.kinds = <<"error">>]
        <4>1. got'.kinds = <<"error">> /\ got'.whole \in BOOLEAN
              /\ got' = [kinds |-> got'.kinds, content |-> got'.content,
                         reasoning |-> got'.reasoning, calls |-> got'.calls, whole |-> got'.whole]
          BY <1>1, <3>2 DEF Shapes
        <4>2. Sequential(got'.kinds) /\ \A i \in DOMAIN got'.kinds : got'.kinds[i] \in DOMAIN Rank
          BY <4>1, Literals, Ranks
        <4> QED BY <4>1, <4>2
      <3>3. CASE got' = [kinds |-> <<"finish">>, content |-> sink.text,
                         reasoning |-> sink.reasoning, calls |-> sink.calls, whole |-> TRUE]
        <4>1. got'.kinds = <<"finish">> /\ got'.whole = TRUE
          BY <3>3
        <4>2. Sequential(got'.kinds) /\ \A i \in DOMAIN got'.kinds : got'.kinds[i] \in DOMAIN Rank
          BY <4>1, Literals, Ranks
        <4>3. got' \in [kinds : {got'.kinds}, content : {got'.content}, reasoning : {got'.reasoning},
                        calls : {got'.calls}, whole : BOOLEAN]
          BY <3>3
        <4> QED BY <4>2, <4>3
      <3> QED BY <1>2, <3>1, <3>2, <3>3 DEF Respond
    <2>4. Shapes'
      BY <1>1, <2>1, <2>3 DEF Shapes
    <2>5. StreamIsWhole'
      BY <2>1, <2>2 DEF StreamIsWhole
    <2> QED BY <2>1, <2>2, <2>4, <2>5
  <1>3. CASE ClientLeaves \/ WriteFails \/ CancelClose \/ Release
    <2>1. /\ UNCHANGED <<req, pc, out, queue, got>>
          /\ http' # "write" \/ (http' = http /\ chunk' = chunk)
          /\ alive' = alive \/ ~alive'
      BY <1>3 DEF ClientLeaves, WriteFails, CancelClose, Release, workerVars
    <2>2. alive' \in BOOLEAN
      BY <1>1, <1>3 DEF ClientLeaves, WriteFails, CancelClose, Release, Shapes
    <2>3. Shapes'
      BY <1>1, <2>1, <2>2 DEF Shapes
    <2>4. StreamIsWhole'
      BY <1>1, <2>1 DEF StreamIsWhole
    <2>5. ASSUME req.stream, alive' PROVE Lined'
      <3>1. Release \/ CancelClose
        BY <1>3, <2>5 DEF ClientLeaves, WriteFails
      <3>2. http \in {"release", "cancel"} /\ http' # "write" /\ alive' = alive
        BY <3>1 DEF Release, CancelClose
      <3>3. Waiting' = Waiting /\ Sent' = Sent
        BY <2>1, <3>2 DEF Waiting, Sent
      <3>4. Lined
        BY <2>5, <3>2 DEF IInv
      <3>5. UNCHANGED <<queue, out, req, pc>>
        BY <2>1
      <3> QED BY <3>3, <3>4, <3>5 DEF Lined, Seen, Behind
    <2> QED BY <2>1, <2>3, <2>4, <2>5
  <1> QED BY <1>2, <1>3

-----------------------------------------------------------------------------
(* Who closes, and who left.                                               *)

(* A worker step: it calls a client gone only on the sink's word, which it *)
(* cannot have before the end unless the client left.                      *)
LEMMA WorkerCause ==
  ASSUME IInv, Worker
  PROVE  CloseIsCause'
  <1>1. CloseIsCause
    BY DEF IInv
  <1>2. UNCHANGED <<req, cancelled, http, alive>>
    BY DEF Worker, OnStart, LeaveLoop, FlushTail, NoteClientGone, ParseTools, OnDone, OnError,
           Push, CloseQueue, DecodeToken, httpVars
  <1>3. CASE OnStart \/ FlushTail \/ ParseTools \/ OnDone \/ OnError
             \/ \E token \in req.vocab : DecodeToken(token)
    <2>1. pc # "ended" /\ pc' # "ended" /\ UNCHANGED <<closed, gone>>
      <3>1. pc \in {"start", "decode", "tail", "parse", "done"} /\ UNCHANGED <<closed, gone>>
        BY <1>3 DEF OnStart, FlushTail, ParseTools, OnDone, OnError, DecodeToken, At
      <3>2. pc' = "close" \/ pc' = After[pc] \/ pc' = pc
        BY <1>3 DEF OnStart, FlushTail, ParseTools, OnDone, OnError, DecodeToken, Emit
      <3> QED BY <3>1, <3>2, Levels
    <2>2. finish' = "cancelled" => finish = "cancelled"
      BY <1>3 DEF OnStart, FlushTail, ParseTools, OnDone, OnError, DecodeToken, Emit
    <2> QED BY <1>1, <1>2, <2>1, <2>2 DEF CloseIsCause
  <1>4. CASE LeaveLoop
    <2>1. pc = "decode" /\ pc' = "tail" /\ UNCHANGED <<closed, gone>>
      BY <1>4, Levels DEF LeaveLoop, At
    <2>2. finish' = "cancelled" => finish = "cancelled" \/ cancelled
      BY <1>4 DEF LeaveLoop, SeesCancel
    <2> QED BY <1>1, <1>2, <2>1, <2>2 DEF CloseIsCause
  <1>5. CASE NoteClientGone
    <2>1. pc = "log" /\ pc' = "parse" /\ UNCHANGED <<closed, finish>>
      BY <1>5, Levels DEF NoteClientGone, At
    <2>2. gone' => cancelled \/ finish = "cancelled"
      BY <1>5 DEF NoteClientGone
    <2> QED BY <1>1, <1>2, <2>1, <2>2 DEF CloseIsCause
  <1>6. CASE Push
    <2>1. out # <<>> /\ UNCHANGED <<pc, closed, gone, finish>>
      BY <1>6 DEF Push
    <2> QED BY <1>1, <1>2, <2>1 DEF CloseIsCause
  <1>7. CASE CloseQueue
    <2>1. /\ pc' = "ended" /\ out' = <<>> /\ closed' = (closed \/ req.stream)
          /\ UNCHANGED <<gone, finish>>
      BY <1>7, Levels DEF CloseQueue, At
    <2> QED BY <1>1, <1>2, <2>1 DEF CloseIsCause
  <1> QED BY <1>3, <1>4, <1>5, <1>6, <1>7 DEF Worker

(* A step of the HTTP thread or its client: the sink is cancelled after a  *)
(* failed write, or when the stream has ended.                             *)
LEMMA HttpCause ==
  ASSUME IInv, Http \/ ClientLeaves
  PROVE  CloseIsCause'
  <1>1. CloseIsCause
    BY DEF IInv
  <1>2. UNCHANGED <<req, pc, out, gone, finish>>
    BY DEF Http, ClientLeaves, StreamNext, WriteChunk, WriteFails, CancelClose, Release, Respond,
           workerVars
  <1>3. CASE ClientLeaves
    BY <1>1, <1>2, <1>3 DEF CloseIsCause, ClientLeaves
  <1>4. CASE StreamNext
    <2>1. http = "pop" /\ UNCHANGED <<closed, cancelled, alive>>
          /\ (http' = "write" \/ (http' = "release" /\ closed))
      BY <1>4 DEF StreamNext, Drained
    <2> QED BY <1>1, <1>2, <2>1 DEF CloseIsCause
  <1>5. CASE WriteChunk
    BY <1>1, <1>2, <1>5 DEF CloseIsCause, WriteChunk
  <1>6. CASE WriteFails
    BY <1>1, <1>2, <1>6 DEF CloseIsCause, WriteFails
  <1>7. CASE CancelClose
    BY <1>1, <1>2, <1>7 DEF CloseIsCause, CancelClose, CancelCloses
  <1>8. CASE Release
    BY <1>1, <1>2, <1>8 DEF CloseIsCause, Release, CancelCloses
  <1>9. CASE Respond
    BY <1>1, <1>2, <1>9 DEF CloseIsCause, Respond
  <1> QED BY <1>3, <1>4, <1>5, <1>6, <1>7, <1>8, <1>9 DEF Http

-----------------------------------------------------------------------------
(* The theorems.                                                           *)

(* The invariant holds before anything runs, *)
LEMMA InitIInv == Init => IInv
  <1> SUFFICES ASSUME Init PROVE IInv
    OBVIOUS
  <1>1. /\ pc = "start" /\ out = <<>> /\ queue = <<>> /\ closed = FALSE /\ cancelled = FALSE
        /\ gone = FALSE /\ alive = TRUE /\ finish = "length" /\ req \in Requests
        /\ http = (IF req.stream THEN "pop" ELSE "wait")
        /\ got = [kinds |-> <<>>, content |-> <<>>, reasoning |-> <<>>, calls |-> <<>>, whole |-> FALSE]
    BY DEF Init
  <1>2. req.stream \in BOOLEAN
    BY <1>1, StreamAssumption DEF RequestOK
  <1>3. Shapes
    <2>1. got.kinds = <<>>
      BY <1>1
    <2>2. got \in [kinds : {got.kinds}, content : {got.content}, reasoning : {got.reasoning},
                   calls : {got.calls}, whole : BOOLEAN]
      BY <1>1
    <2>3. pc \in Places
      BY <1>1, Levels
    <2> QED BY <1>1, <2>1, <2>2, <2>3, Literals DEF Shapes
  <1>4. CloseIsCause
    BY <1>1, <1>2 DEF CloseIsCause
  <1>5. StreamIsWhole
    BY <1>1, Literals DEF StreamIsWhole
  <1>6. Lined
    <2>1. /\ KindsIn(Waiting) = {} /\ KindsIn(queue) = {} /\ KindsIn(out) = {} /\ Waiting = <<>>
      BY <1>1, Lines DEF Waiting
    <2>2. Sent = {}
      BY <1>1, Literals DEF Sent
    <2>3. Seen = {}
      BY <2>1, <2>2 DEF Seen
    <2>4. Sorted(<<>>)
      BY Lines DEF Line
    <2>5. InOrder(<<>>, <<>>) /\ Behind(<<>>)
      BY Literals DEF InOrder, Behind
    <2> QED BY <1>1, <2>1, <2>3, <2>4, <2>5 DEF Lined
  <1> QED BY <1>3, <1>4, <1>5, <1>6 DEF IInv

(* and every step keeps it. *)
LEMMA NextIInv == IInv /\ [Next]_vars => IInv'
  <1> SUFFICES ASSUME IInv, [Next]_vars PROVE IInv'
    OBVIOUS
  <1>1. CASE Worker
    <2>1. Shapes' /\ StreamIsWhole' /\ (req'.stream /\ alive' => Lined')
      BY <1>1, StartStep, TextStep, ParseStep, DoneStep, ErrorStep, PushStep, CloseStep DEF Worker
    <2> QED BY <1>1, <2>1, WorkerCause DEF IInv
  <1>2. CASE Http \/ ClientLeaves
    <2>1. Shapes' /\ StreamIsWhole' /\ (req'.stream /\ alive' => Lined')
      BY <1>2, StreamNextStep, WriteStep, LeavingStep DEF Http
    <2> QED BY <1>2, <2>1, HttpCause DEF IInv
  <1>3. CASE UNCHANGED vars
    <2>1. UNCHANGED <<req, pc, out, queue, closed, cancelled, gone, http, chunk, alive, got, finish>>
      BY <1>3 DEF vars
    <2>2. Shapes' /\ CloseIsCause' /\ StreamIsWhole'
      BY <2>1 DEF IInv, Shapes, CloseIsCause, StreamIsWhole
    <2>3. Waiting' = Waiting /\ Sent' = Sent
      BY <2>1 DEF Waiting, Sent
    <2>4. Lined => Lined'
      BY <2>1, <2>3 DEF Lined, Seen, Behind
    <2> QED BY <2>1, <2>2, <2>4 DEF IInv
  <1> QED BY <1>1, <1>2, <1>3 DEF Next

(* The inductive invariant holds in every reachable state. *)
THEOREM InvHolds == Spec => []IInv
  BY InitIInv, NextIInv, PTL DEF Spec

(* A stream has its chunks in the API's order, and if the server           *)
(* terminates it cleanly its verdict, its usage and [DONE]:                *)
(* StreamingSink, BoundedQueue and the provider in server.cpp.             *)
THEOREM StreamIsWholeHolds == Spec => []StreamIsWhole
  <1>1. IInv => StreamIsWhole
    BY DEF IInv
  <1> QED BY <1>1, InvHolds, PTL

(* The request log and the finish reason say a client went away only when  *)
(* it did, although the provider's releaser cancels every finished stream. *)
THEOREM CancelIsRealHolds == Spec => []CancelIsReal
  <1>1. IInv => CancelIsReal
    BY DEF IInv, CloseIsCause, CancelIsReal
  <1> QED BY <1>1, InvHolds, PTL

-----------------------------------------------------------------------------
(* Texts taken apart.                                                      *)

(* A join, less what its first part begins with. *)
LEMMA DropOfJoin ==
  ASSUME NEW s \in Seq(Char), NEW t \in Seq(Char), NEW n \in 0 .. Len(s)
  PROVE  Drop(s \o t, n) = Drop(s, n) \o t /\ Take(s \o t, n) = Take(s, n)
  <1> DEFINE u == s \o t
             d == Drop(s, n)
             e == Drop(u, n)
             x == d \o t
  <1>1. /\ u \in Seq(Char) /\ Len(u) = Len(s) + Len(t) /\ Len(s) \in Nat /\ Len(t) \in Nat
        /\ \A i \in 1 .. Len(s) : u[i] = s[i]
        /\ \A i \in 1 .. Len(t) : u[Len(s) + i] = t[i]
    BY TextJoined
  <1> HIDE DEF u
  <1>2. n \in Nat /\ n <= Len(s) /\ n \in 0 .. Len(u)
    BY <1>1
  <1>3. d \in Seq(Char) /\ Len(d) = Len(s) - n /\ \A i \in 1 .. Len(s) - n : d[i] = s[n + i]
    BY TextParts
  <1>4. e \in Seq(Char) /\ Len(e) = Len(u) - n /\ \A i \in 1 .. Len(u) - n : e[i] = u[n + i]
    BY <1>1, <1>2, TextParts
  <1> HIDE DEF d, e
  <1>5. /\ x \in Seq(Char) /\ Len(x) = Len(d) + Len(t)
        /\ (\A i \in 1 .. Len(d) : x[i] = d[i]) /\ \A i \in 1 .. Len(t) : x[Len(d) + i] = t[i]
    BY <1>3, TextJoined
  <1> HIDE DEF x
  <1>6. ASSUME NEW i \in 1 .. Len(e) PROVE e[i] = x[i]
    <2>0. i \in Nat /\ i >= 1 /\ i <= (Len(s) + Len(t)) - n /\ Len(s) \in Nat /\ Len(t) \in Nat /\ n \in Nat /\ n <= Len(s)
      BY <1>1, <1>2, <1>4
    <2>1. CASE i <= Len(s) - n
      <3>1. i \in 1 .. Len(s) - n /\ n + i \in 1 .. Len(s)
        BY ONLY <2>0, <2>1
      <3> QED BY <1>1, <1>3, <1>4, <1>5, <3>1
    <2>2. CASE i > Len(s) - n
      <3>1. /\ i - (Len(s) - n) \in 1 .. Len(t) /\ (Len(s) - n) + (i - (Len(s) - n)) = i
            /\ Len(s) + (i - (Len(s) - n)) = n + i
        BY ONLY <2>0, <2>2
      <3>2. x[(Len(s) - n) + (i - (Len(s) - n))] = t[i - (Len(s) - n)]
        BY <1>3, <1>5, <3>1
      <3>3. u[Len(s) + (i - (Len(s) - n))] = t[i - (Len(s) - n)]
        BY <1>1, <3>1
      <3> QED BY <1>1, <1>4, <3>1, <3>2, <3>3
    <2>3. i \in Int /\ Len(s) - n \in Int
      BY ONLY <2>0
    <2> QED BY ONLY <2>1, <2>2, <2>3
  <1>7. Len(e) = Len(x)
    <2>1. Len(e) = (Len(s) + Len(t)) - n /\ Len(x) = (Len(s) - n) + Len(t)
      BY <1>1, <1>3, <1>4, <1>5
    <2> QED BY <1>1, <1>2, <2>1
  <1>8. e = x
    BY <1>4, <1>5, <1>6, <1>7, SameText
  <1>9. Take(u, n) = Take(s, n)
    <2>1. /\ Take(u, n) \in Seq(Char) /\ Len(Take(u, n)) = n /\ \A i \in 1 .. n : Take(u, n)[i] = u[i]
      BY <1>1, <1>2, TextParts
    <2>2. /\ Take(s, n) \in Seq(Char) /\ Len(Take(s, n)) = n /\ \A i \in 1 .. n : Take(s, n)[i] = s[i]
      BY TextParts
    <2>3. \A i \in 1 .. n : i \in 1 .. Len(s)
      BY <1>1, <1>2
    <2>4. \A i \in 1 .. n : Take(u, n)[i] = Take(s, n)[i]
      BY <1>1, <2>1, <2>2, <2>3
    <2> DEFINE a == Take(u, n)
               b == Take(s, n)
    <2>5. a \in Seq(Char) /\ b \in Seq(Char) /\ Len(a) = Len(b) /\ \A i \in 1 .. Len(a) : a[i] = b[i]
      BY <2>1, <2>2, <2>4
    <2> HIDE DEF a, b
    <2>6. a = b
      BY <2>5, SameText
    <2> QED BY <2>6 DEF a, b
  <1> QED BY <1>8, <1>9 DEF d, e, x, u

(* What is left of what is left. *)
LEMMA DropOfDrop ==
  ASSUME NEW s \in Seq(Char), NEW m \in 0 .. Len(s), NEW n \in 0 .. Len(s) - m
  PROVE  Drop(Drop(s, m), n) = Drop(s, m + n)
  <1> DEFINE d == Drop(s, m)
             x == Drop(d, n)
             y == Drop(s, m + n)
  <1>1. Len(s) \in Nat /\ m \in Nat /\ n \in Nat /\ m + n <= Len(s)
    BY LenProperties
  <1>2. d \in Seq(Char) /\ Len(d) = Len(s) - m /\ \A i \in 1 .. Len(s) - m : d[i] = s[m + i]
    BY TextParts
  <1> HIDE DEF d
  <1>3. x \in Seq(Char) /\ Len(x) = Len(d) - n /\ \A i \in 1 .. Len(d) - n : x[i] = d[n + i]
    <2>1. n \in 0 .. Len(d)
      BY <1>2
    <2> QED BY <1>2, <2>1, TextParts
  <1>4. m + n \in 0 .. Len(s)
    BY <1>1
  <1>5. y \in Seq(Char) /\ Len(y) = Len(s) - (m + n) /\ \A i \in 1 .. Len(s) - (m + n) : y[i] = s[(m + n) + i]
    BY <1>4, TextParts
  <1> HIDE DEF x, y
  <1>6. Len(x) = (Len(s) - m) - n
    BY <1>2, <1>3
  <1>7. Len(x) = Len(y)
    BY <1>1, <1>5, <1>6
  <1>8. ASSUME NEW i \in 1 .. Len(x) PROVE x[i] = y[i]
    <2>0. i \in Nat /\ i >= 1 /\ i <= (Len(s) - m) - n
      BY <1>1, <1>6
    <2>1. i \in 1 .. (Len(s) - m) - n /\ n + i \in 1 .. Len(s) - m /\ i \in 1 .. Len(s) - (m + n)
          /\ m + (n + i) = (m + n) + i
      BY ONLY <1>1, <2>0
    <2>2. x[i] = d[n + i]
      BY <1>2, <1>3, <2>1
    <2>3. d[n + i] = s[m + (n + i)]
      BY <1>2, <2>1
    <2>4. y[i] = s[(m + n) + i]
      BY <1>5, <2>1
    <2> QED BY <2>1, <2>2, <2>3, <2>4
  <1>9. x = y
    BY <1>3, <1>5, <1>7, <1>8, SameText
  <1> QED BY <1>9 DEF x, y, d

(* A text cut in two. *)
LEMMA HalvesJoined ==
  ASSUME NEW s \in Seq(Char), NEW k \in 0 .. Len(s)
  PROVE  Take(s, k) \o Drop(s, k) = s
  <1>0. Len(s) \in Nat
    BY LenProperties
  <1> DEFINE a == Take(s, k)
             b == Drop(s, k)
             c == a \o b
  <1>1. a \in Seq(Char) /\ Len(a) = k /\ \A i \in 1 .. k : a[i] = s[i]
    BY TextParts
  <1>2. b \in Seq(Char) /\ Len(b) = Len(s) - k /\ \A i \in 1 .. Len(s) - k : b[i] = s[k + i]
    BY TextParts
  <1> HIDE DEF a, b
  <1>3. /\ c \in Seq(Char) /\ Len(c) = Len(a) + Len(b)
        /\ (\A i \in 1 .. Len(a) : c[i] = a[i]) /\ \A i \in 1 .. Len(b) : c[Len(a) + i] = b[i]
    BY <1>1, <1>2, TextJoined
  <1> HIDE DEF c
  <1>4. Len(c) = Len(s) /\ k \in Nat /\ k <= Len(s)
    <2>1. Len(c) = k + (Len(s) - k)
      BY <1>1, <1>2, <1>3
    <2> QED BY <1>0, <2>1
  <1>5. ASSUME NEW i \in 1 .. Len(s) PROVE c[i] = s[i]
    <2>1. CASE i <= k
      <3>1. i \in 1 .. k
        BY <1>0, <1>4, <2>1
      <3> QED BY <1>1, <1>3, <3>1
    <2>2. CASE i > k
      <3>0. i \in Nat /\ i <= Len(s)
        BY <1>0
      <3>1. i - k \in 1 .. Len(s) - k /\ k + (i - k) = i
        BY ONLY <1>0, <1>4, <3>0, <2>2
      <3>2. c[k + (i - k)] = b[i - k] /\ b[i - k] = s[k + (i - k)]
        BY <1>1, <1>2, <1>3, <3>1
      <3> QED BY <3>1, <3>2
    <2>3. i \in Int /\ k \in Int
      BY <1>0
    <2> QED BY ONLY <2>1, <2>2, <2>3
  <1>6. c = s
    BY <1>3, <1>4, <1>5, SameText
  <1> QED BY <1>6 DEF c, a, b

(* The parts of a text. *)
LEMMA CutInTwo ==
  ASSUME NEW s \in Seq(Char), NEW n \in 0 .. Len(s)
  PROVE  /\ Take(s, n) \o Drop(s, n) = s
         /\ \A m \in 0 .. n : SubSeq(s, m + 1, n) = Drop(Take(s, n), m)
         /\ \A m \in 0 .. n : Take(s, m) \o SubSeq(s, m + 1, n) = Take(s, n)
         /\ \A m \in 0 .. n : Take(Take(s, n), m) = Take(s, m)
         /\ Take(s, Len(s)) = s /\ Drop(s, 0) = s /\ Take(s, 0) = <<>> /\ Drop(s, Len(s)) = <<>>
  <1>0. Len(s) \in Nat /\ n \in Nat /\ n <= Len(s)
    BY LenProperties
  <1>1. \A k \in 0 .. Len(s) : Take(s, k) \o Drop(s, k) = s
    BY HalvesJoined
  <1>2. ASSUME NEW m \in 0 .. n PROVE SubSeq(s, m + 1, n) = Drop(Take(s, n), m)
    <2> DEFINE a == Take(s, n)
               b == Drop(a, m)
               c == SubSeq(s, m + 1, n)
    <2>0. m \in 0 .. Len(s) /\ m <= n /\ m \in Nat
      BY <1>0
    <2>1. a \in Seq(Char) /\ Len(a) = n /\ \A i \in 1 .. n : a[i] = s[i]
      BY TextParts
    <2> HIDE DEF a
    <2>2. b \in Seq(Char) /\ Len(b) = n - m /\ \A i \in 1 .. n - m : b[i] = a[m + i]
      BY <2>1, TextParts
    <2>3. c \in Seq(Char) /\ Len(c) = n - m /\ \A i \in 1 .. n - m : c[i] = s[m + i]
      BY <2>0, TextParts
    <2> HIDE DEF b, c
    <2>4. ASSUME NEW i \in 1 .. Len(c) PROVE c[i] = b[i]
      <3>1. i \in 1 .. n - m /\ m + i \in 1 .. n
        BY <1>0, <2>0, <2>3
      <3> QED BY <2>1, <2>2, <2>3, <3>1
    <2>5. c = b
      BY <2>2, <2>3, <2>4, SameText
    <2> QED BY <2>5 DEF a, b, c
  <1>3. ASSUME NEW m \in 0 .. n PROVE Take(Take(s, n), m) = Take(s, m)
    <2> DEFINE a == Take(s, n)
               b == Take(a, m)
               c == Take(s, m)
    <2>0. m \in 0 .. Len(s) /\ m <= n /\ m \in Nat
      BY <1>0
    <2>1. a \in Seq(Char) /\ Len(a) = n /\ \A i \in 1 .. n : a[i] = s[i]
      BY TextParts
    <2> HIDE DEF a
    <2>2. b \in Seq(Char) /\ Len(b) = m /\ \A i \in 1 .. m : b[i] = a[i]
      BY <2>1, TextParts
    <2>3. c \in Seq(Char) /\ Len(c) = m /\ \A i \in 1 .. m : c[i] = s[i]
      BY <2>0, TextParts
    <2> HIDE DEF b, c
    <2>4. ASSUME NEW i \in 1 .. m PROVE c[i] = b[i]
      <3>1. i \in 1 .. n
        BY <1>0, <2>0
      <3> QED BY <2>1, <2>2, <2>3, <3>1
    <2>5. c = b
      BY <2>2, <2>3, <2>4, SameText
    <2> QED BY <2>5 DEF a, b, c
  <1>4. ASSUME NEW m \in 0 .. n PROVE Take(s, m) \o SubSeq(s, m + 1, n) = Take(s, n)
    <2> DEFINE a == Take(s, n)
    <2>1. a \in Seq(Char) /\ Len(a) = n
      BY TextParts
    <2>2. SubSeq(s, m + 1, n) = Drop(a, m) /\ Take(s, m) = Take(a, m)
      BY <1>2, <1>3
    <2>3. Take(a, m) \o Drop(a, m) = a
      <3> HIDE DEF a
      <3> QED BY <2>1, HalvesJoined
    <2> QED BY <2>2, <2>3
  <1>5. Take(s, Len(s)) = s /\ Drop(s, 0) = s /\ Take(s, 0) = <<>> /\ Drop(s, Len(s)) = <<>>
    <2>1. 0 \in 0 .. Len(s) /\ Len(s) \in 0 .. Len(s)
      BY <1>0
    <2>2. Take(s, 0) \in Seq(Char) /\ Len(Take(s, 0)) = 0
      BY <2>1, TextParts
    <2>3. Drop(s, Len(s)) \in Seq(Char) /\ Len(Drop(s, Len(s))) = 0
      <3>1. Len(s) - Len(s) = 0
        BY <1>0
      <3> QED BY <2>1, <3>1, TextParts
    <2>4. Take(s, 0) = <<>> /\ Drop(s, Len(s)) = <<>>
      BY <2>2, <2>3, EmptyText
    <2>5. Drop(s, 0) \in Seq(Char) /\ Take(s, Len(s)) \in Seq(Char)
      BY <2>1, TextParts
    <2>6. <<>> \o Drop(s, 0) = s /\ Take(s, Len(s)) \o <<>> = s
      BY <1>1, <2>1, <2>4
    <2>7. <<>> \o Drop(s, 0) = Drop(s, 0) /\ Take(s, Len(s)) \o <<>> = Take(s, Len(s))
      BY <2>5, EmptyText
    <2> QED BY <2>4, <2>6, <2>7
  <1> QED BY <1>1, <1>2, <1>3, <1>4, <1>5

-----------------------------------------------------------------------------
(* The splitter, fed piece by piece.                                       *)

(* The tags are texts. *)
LEMMA Tags ==
  /\ OpenTag \in Seq(Char) /\ CloseTag \in Seq(Char) /\ ToolOpen \in Seq(Char)
  /\ Len(OpenTag) \in Nat \ {0} /\ Len(CloseTag) \in Nat \ {0} /\ Len(ToolOpen) \in Nat \ {0}
  BY TagsAssumption, LenProperties

(* The blanks a text begins with. *)
LEMMA Blanks ==
  ASSUME NEW s \in Seq(Char)
  PROVE  /\ LeadingBlanks(s) \in 0 .. Len(s) /\ \A j \in 1 .. LeadingBlanks(s) : s[j] = Newline
         /\ LeadingBlanks(s) < Len(s) => s[LeadingBlanks(s) + 1] # Newline
         /\ \A b \in 0 .. Len(s) : (\A j \in 1 .. b : s[j] = Newline) => b <= LeadingBlanks(s)
  <1> DEFINE S == {i \in 0 .. Len(s) : \A j \in 1 .. i : s[j] = Newline}
             b == LeadingBlanks(s)
  <1>1. Len(s) \in Nat
    BY LenProperties
  <1>2. S \subseteq Nat /\ 0 \in S /\ \A m \in S : m <= Len(s)
    BY <1>1
  <1>3. b = Max(S)
    BY DEF LeadingBlanks
  <1>4. b \in S /\ \A m \in S : m <= b
    <2> HIDE DEF S, b
    <2>1. S # {}
      BY <1>2
    <2> QED BY <1>1, <1>2, <1>3, <2>1, MaxIsGreatest
  <1>5. b < Len(s) => s[b + 1] # Newline
    <2>1. SUFFICES ASSUME b < Len(s), s[b + 1] = Newline PROVE FALSE
      OBVIOUS
    <2>2. b \in 0 .. Len(s) /\ \A j \in 1 .. b : s[j] = Newline
      BY <1>4
    <2> HIDE DEF b
    <2>3. b + 1 \in 0 .. Len(s) /\ \A j \in 1 .. b + 1 : j \in 1 .. b \/ j = b + 1
      BY <1>1, <2>1, <2>2
    <2>4. b + 1 \in S
      BY <2>1, <2>2, <2>3
    <2>5. b + 1 <= b
      <3> HIDE DEF S
      <3> QED BY <1>4, <2>4
    <2> QED BY <1>1, <2>2, <2>5
  <1> QED BY <1>4, <1>5

(* They are the blanks of any longer text that begins with them and does   *)
(* not go on with one.                                                     *)
LEMMA BlanksOfJoin ==
  ASSUME NEW s \in Seq(Char), NEW t \in Seq(Char), LeadingBlanks(s) < Len(s)
  PROVE  LeadingBlanks(s \o t) = LeadingBlanks(s)
  <1> DEFINE b == LeadingBlanks(s)
             c == LeadingBlanks(s \o t)
             u == s \o t
  <1>1. /\ u \in Seq(Char) /\ Len(u) = Len(s) + Len(t) /\ Len(s) \in Nat /\ Len(t) \in Nat
        /\ \A i \in 1 .. Len(s) : u[i] = s[i]
    BY TextJoined
  <1>2. /\ b \in 0 .. Len(s) /\ (\A j \in 1 .. b : s[j] = Newline) /\ s[b + 1] # Newline
    BY Blanks
  <1>3. /\ c \in 0 .. Len(u) /\ (\A j \in 1 .. c : u[j] = Newline)
        /\ \A d \in 0 .. Len(u) : (\A j \in 1 .. d : u[j] = Newline) => d <= c
    BY <1>1, Blanks
  <1>4. b < Len(s)
    OBVIOUS
  <1> HIDE DEF b, c, u
  <1>5. b \in Nat /\ b \in 0 .. Len(u) /\ b + 1 \in 1 .. Len(s) /\ \A j \in 1 .. b : j \in 1 .. Len(s)
    BY <1>1, <1>2, <1>4
  <1>6. \A j \in 1 .. b : u[j] = Newline
    BY <1>1, <1>2, <1>5
  <1>7. b <= c
    BY <1>3, <1>5, <1>6
  <1>8. ~(b < c)
    <2>1. SUFFICES ASSUME b < c PROVE FALSE
      OBVIOUS
    <2>2. b + 1 \in 1 .. c
      BY <1>3, <1>5, <2>1
    <2> QED BY <1>1, <1>2, <1>3, <1>5, <2>2
  <1>9. b \in Int /\ c \in Int
    BY <1>3, <1>5
  <1>10. b = c
    BY ONLY <1>7, <1>8, <1>9
  <1> QED BY <1>10 DEF b, c

\* The places a splitter can be at: before, in and behind the tags.
Rec(mode, tagHold, nlHold, started, skipBlank) ==
  [mode |-> mode, tagHold |-> tagHold, nlHold |-> nlHold, started |-> started,
   skipBlank |-> skipBlank]
Opening(h) == Rec("expect", h, <<>>, FALSE, FALSE)
Thinking(h) == Rec("reasoning", h, <<>>, FALSE, FALSE)
Skipping(a) == Rec("answer", <<>>, a, FALSE, TRUE)
Answering == Rec("answer", <<>>, <<>>, TRUE, TRUE)
Plain == Rec("answer", <<>>, <<>>, TRUE, FALSE)

(* Where it starts, and its mode and hold at each. *)
LEMMA SplitterPlaces ==
  /\ Splitter("expect") = Opening(<<>>) /\ Splitter("reasoning") = Thinking(<<>>)
  /\ Splitter("answer") = Plain
  /\ Plain.mode = "answer" /\ Answering.mode = "answer"
  /\ \A h : /\ Opening(h).mode = "expect" /\ Opening(h).tagHold = h
            /\ Thinking(h).mode = "reasoning" /\ Thinking(h).tagHold = h
            /\ Skipping(h).mode = "answer"
  <1>1. /\ Splitter("expect") = Opening(<<>>) /\ Splitter("reasoning") = Thinking(<<>>)
        /\ Splitter("answer") = Plain
    BY DEF Splitter, Opening, Thinking, Plain, Rec
  <1>2. Plain.mode = "answer" /\ Answering.mode = "answer"
    BY DEF Plain, Answering, Rec
  <1>3. ASSUME NEW h
        PROVE /\ Opening(h).mode = "expect" /\ Opening(h).tagHold = h
              /\ Thinking(h).mode = "reasoning" /\ Thinking(h).tagHold = h
              /\ Skipping(h).mode = "answer"
    BY DEF Opening, Thinking, Skipping, Rec
  <1> QED BY <1>1, <1>2, <1>3

(* What ProcessAnswer makes of the places behind the tag, *)
LEMMA FromSkipping ==
  ASSUME NEW n, NEW buf, NEW c, c = n \o buf
  PROVE  ProcessAnswer(Skipping(n), buf) =
           IF LeadingBlanks(c) = Len(c)
           THEN [sp |-> Skipping(c), ev |-> <<>>]
           ELSE [sp |-> Answering, ev |-> Event(FALSE, Drop(c, LeadingBlanks(c)))]
  <1> DEFINE yes == TRUE
             no == FALSE
             e == <<>>
             ans == "answer"
             w == Skipping(n)
             v == [w EXCEPT !.nlHold = e]
             u == [v EXCEPT !.started = yes]
  <1> HIDE DEF yes, no, e, ans, w, u, v
  <1>1. /\ w = Rec(ans, e, n, no, yes) /\ Skipping(c) = Rec(ans, e, c, no, yes)
        /\ Answering = Rec(ans, e, e, yes, yes)
    BY DEF w, Skipping, Answering, ans, e, no, yes
  <1>2. w.nlHold = n /\ w.started = no /\ w.skipBlank = yes
    BY <1>1 DEF Rec
  <1>3. [w EXCEPT !.nlHold = c] = Rec(ans, e, c, no, yes)
    BY ONLY <1>1 DEF Rec
  <1>4. v = Rec(ans, e, e, no, yes)
    BY <1>1 DEF Rec, v
  <1>5. u = Rec(ans, e, e, yes, yes)
    BY <1>4 DEF Rec, u
  <1>6. ~(w.started \/ ~w.skipBlank)
    BY <1>2 DEF yes, no
  <1>7. ProcessAnswer(w, buf) =
           IF w.started \/ ~w.skipBlank
           THEN [sp |-> [w EXCEPT !.started = TRUE], ev |-> Event(FALSE, buf)]
           ELSE IF LeadingBlanks(c) = Len(c)
           THEN [sp |-> [w EXCEPT !.nlHold = c], ev |-> <<>>]
           ELSE [sp |-> u, ev |-> Event(FALSE, Drop(c, LeadingBlanks(c)))]
    <2>1. w.nlHold \o buf = c
      BY <1>2
    <2> QED BY <2>1 DEF ProcessAnswer, u, v, yes, e
  <1> QED BY <1>1, <1>3, <1>5, <1>6, <1>7 DEF w

(* once it has seen answer text or no reasoning at all, *)
LEMMA FromAnswering ==
  ASSUME NEW buf
  PROVE  /\ ProcessAnswer(Answering, buf) = [sp |-> Answering, ev |-> Event(FALSE, buf)]
         /\ ProcessAnswer(Plain, buf) = [sp |-> Plain, ev |-> Event(FALSE, buf)]
  <1>1. ASSUME NEW k, NEW sp, sp = Rec("answer", <<>>, <<>>, TRUE, k)
        PROVE  ProcessAnswer(sp, buf) = [sp |-> sp, ev |-> Event(FALSE, buf)]
    <2> DEFINE yes == TRUE
               e == <<>>
               ans == "answer"
               w == [sp EXCEPT !.started = yes]
    <2> HIDE DEF yes, e, ans, w
    <2>1. sp = Rec(ans, e, e, yes, k)
      BY <1>1 DEF yes, e, ans
    <2>2. sp.started = yes /\ w = Rec(ans, e, e, yes, k)
      BY <2>1 DEF Rec, w
    <2>3. sp.started
      BY <2>2 DEF yes
    <2>4. ProcessAnswer(sp, buf) =
            IF sp.started \/ ~sp.skipBlank THEN [sp |-> w, ev |-> Event(FALSE, buf)]
            ELSE IF LeadingBlanks(sp.nlHold \o buf) = Len(sp.nlHold \o buf)
            THEN [sp |-> [sp EXCEPT !.nlHold = sp.nlHold \o buf], ev |-> <<>>]
            ELSE [sp |-> [sp EXCEPT !.nlHold = <<>>, !.started = TRUE],
                  ev |-> Event(FALSE, Drop(sp.nlHold \o buf, LeadingBlanks(sp.nlHold \o buf)))]
      BY DEF ProcessAnswer, w, yes
    <2> QED BY <2>1, <2>2, <2>3, <2>4
  <1>2. Answering = Rec("answer", <<>>, <<>>, TRUE, TRUE) /\ Plain = Rec("answer", <<>>, <<>>, TRUE, FALSE)
    BY DEF Answering, Plain
  <1> DEFINE yes == TRUE
             no == FALSE
             a == Answering
             p == Plain
  <1> HIDE DEF yes, no, a, p
  <1>3. a = Rec("answer", <<>>, <<>>, TRUE, yes) /\ p = Rec("answer", <<>>, <<>>, TRUE, no)
    BY <1>2 DEF a, p, yes, no
  <1>4. ProcessAnswer(a, buf) = [sp |-> a, ev |-> Event(FALSE, buf)]
    BY <1>1, <1>3
  <1>5. ProcessAnswer(p, buf) = [sp |-> p, ev |-> Event(FALSE, buf)]
    BY <1>1, <1>3
  <1> QED BY <1>4, <1>5 DEF a, p

(* and what the tags make of the places before them. *)
LEMMA FromOpening ==
  ASSUME NEW h, NEW sp, sp = Opening(h) \/ sp = Thinking(h)
  PROVE  /\ [sp EXCEPT !.mode = "answer", !.tagHold = <<>>, !.skipBlank = TRUE] = Skipping(<<>>)
         /\ \A x : [sp EXCEPT !.mode = "reasoning", !.tagHold = x] = Thinking(x)
         /\ sp = Opening(h) =>
              /\ [sp EXCEPT !.mode = "answer", !.started = TRUE, !.tagHold = <<>>] = Plain
              /\ \A x : [sp EXCEPT !.tagHold = x] = Opening(x)
  <1> DEFINE yes == TRUE
             no == FALSE
             e == <<>>
             ans == "answer"
             rea == "reasoning"
             exp == "expect"
             ma == [sp EXCEPT !.mode = ans]
             mr == [sp EXCEPT !.mode = rea]
             mat == [ma EXCEPT !.tagHold = e]
             mas == [ma EXCEPT !.started = yes]
  <1> HIDE DEF yes, no, e, ans, rea, exp, ma, mr, mat, mas
  <1>1. PICK m : sp = Rec(m, h, e, no, no)
    BY DEF Opening, Thinking, e, no
  <1>2. ma = Rec(ans, h, e, no, no)
    BY <1>1 DEF Rec, ma
  <1>3. mr = Rec(rea, h, e, no, no)
    BY <1>1 DEF Rec, mr
  <1>4. mat = Rec(ans, e, e, no, no)
    BY <1>2 DEF Rec, mat
  <1>5. mas = Rec(ans, h, e, yes, no)
    BY <1>2 DEF Rec, mas
  <1>6. [mat EXCEPT !.skipBlank = yes] = Rec(ans, e, e, no, yes)
    BY <1>4 DEF Rec
  <1>7. [mas EXCEPT !.tagHold = e] = Rec(ans, e, e, yes, no)
    BY <1>5 DEF Rec
  <1>8. ASSUME NEW x PROVE [mr EXCEPT !.tagHold = x] = Rec(rea, x, e, no, no)
    BY <1>3 DEF Rec
  <1>9. ASSUME NEW x, sp = Rec(exp, h, e, no, no) PROVE [sp EXCEPT !.tagHold = x] = Rec(exp, x, e, no, no)
    BY <1>9 DEF Rec
  <1>10. [sp EXCEPT !.mode = "answer", !.tagHold = <<>>, !.skipBlank = TRUE] = Skipping(<<>>)
    <2>1. Skipping(<<>>) = Rec(ans, e, e, no, yes)
      BY DEF Skipping, ans, e, no, yes
    <2>2. [mat EXCEPT !.skipBlank = yes] = Skipping(<<>>)
      BY <1>6, <2>1
    <2> QED BY <2>2 DEF mat, ma, yes, e, ans
  <1>11. ASSUME NEW x PROVE [sp EXCEPT !.mode = "reasoning", !.tagHold = x] = Thinking(x)
    <2>1. Thinking(x) = Rec(rea, x, e, no, no)
      BY DEF Thinking, rea, e, no
    <2>2. [mr EXCEPT !.tagHold = x] = Thinking(x)
      BY <1>8, <2>1
    <2> QED BY <2>2 DEF mr, rea
  <1>12. [sp EXCEPT !.mode = "answer", !.started = TRUE, !.tagHold = <<>>] = Plain
    <2>1. Plain = Rec(ans, e, e, yes, no)
      BY DEF Plain, ans, e, no, yes
    <2>2. [mas EXCEPT !.tagHold = e] = Plain
      BY <1>7, <2>1
    <2> QED BY <2>2 DEF mas, ma, yes, e, ans
  <1>13. ASSUME sp = Opening(h), NEW x PROVE [sp EXCEPT !.tagHold = x] = Opening(x)
    <2>1. Opening(h) = Rec(exp, h, e, no, no) /\ Opening(x) = Rec(exp, x, e, no, no)
      BY DEF Opening, exp, e, no
    <2>2. sp = Rec(exp, h, e, no, no)
      BY <1>13, <2>1
    <2>3. [sp EXCEPT !.tagHold = x] = Rec(exp, x, e, no, no)
      BY <1>9, <2>2
    <2> QED BY <2>1, <2>3
  <1> QED BY <1>10, <1>11, <1>12, <1>13

\* The splitter that has seen the closing tag and then a, and what it yields.
AnswerAt(a) ==
  IF LeadingBlanks(a) = Len(a)
  THEN [sp |-> Skipping(a), ev |-> <<>>]
  ELSE [sp |-> Answering, ev |-> Event(FALSE, Drop(a, LeadingBlanks(a)))]

(* It is what ProcessAnswer makes of a, at once *)
LEMMA AnswerAtOnce ==
  ASSUME NEW a \in Seq(Char)
  PROVE  /\ ProcessAnswer(Skipping(<<>>), a) = AnswerAt(a)
         /\ AnswerAt(a).ev \in Seq(Events)
         /\ TextOf(AnswerAt(a).ev, FALSE) = Drop(a, LeadingBlanks(a))
         /\ TextOf(AnswerAt(a).ev, FALSE) \in Seq(Char)
  <1> DEFINE b == LeadingBlanks(a)
  <1>1. b \in 0 .. Len(a) /\ Len(a) \in Nat
    BY Blanks, LenProperties
  <1>2. Drop(a, b) \in Seq(Char) /\ Len(Drop(a, b)) = Len(a) - b
    BY <1>1, TextParts
  <1>3. a = <<>> \o a
    BY EmptyText
  <1>4. ProcessAnswer(Skipping(<<>>), a) = AnswerAt(a)
    BY <1>3, FromSkipping DEF AnswerAt
  <1> DEFINE d == Drop(a, b)
  <1>5. AnswerAt(a).ev = IF b = Len(a) THEN <<>> ELSE Event(FALSE, d)
    BY DEF AnswerAt
  <1>6. b = Len(a) => d = <<>>
    BY <1>1, <1>2, EmptyText
  <1> HIDE DEF d, b
  <1>7. d \in Seq(Char)
    BY <1>2 DEF d
  <1>8. /\ Event(FALSE, d) \in Seq(Events) /\ <<>> \in Seq(Events)
        /\ TextOf(Event(FALSE, d), FALSE) = d /\ TextOf(<<>>, FALSE) = <<>>
    BY <1>7, TextOfEvent
  <1> QED BY <1>4, <1>5, <1>6, <1>7, <1>8 DEF d, b

(* and piece by piece. *)
LEMMA AnswerResumes ==
  ASSUME NEW a \in Seq(Char), NEW u \in Seq(Char), u # <<>>,
         NEW next, next = SplitPush(AnswerAt(a).sp, u)
  PROVE  /\ next.sp = AnswerAt(a \o u).sp /\ next.ev \in Seq(Events)
         /\ TextOf(AnswerAt(a \o u).ev, FALSE) = TextOf(AnswerAt(a).ev, FALSE) \o TextOf(next.ev, FALSE)
  <1> DEFINE c == a \o u
  <1>1. next = ProcessAnswer(AnswerAt(a).sp, u)
    <2>1. AnswerAt(a).sp.mode = "answer"
      BY SplitterPlaces DEF AnswerAt
    <2> QED BY <2>1 DEF SplitPush
  <1>2. c \in Seq(Char) /\ Len(c) = Len(a) + Len(u) /\ Len(a) \in Nat /\ Len(u) \in Nat
    BY TextJoined
  <1>3. /\ AnswerAt(c).ev \in Seq(Events) /\ TextOf(AnswerAt(c).ev, FALSE) = Drop(c, LeadingBlanks(c))
        /\ TextOf(AnswerAt(a).ev, FALSE) = Drop(a, LeadingBlanks(a))
        /\ TextOf(AnswerAt(c).ev, FALSE) \in Seq(Char) /\ TextOf(AnswerAt(a).ev, FALSE) \in Seq(Char)
    BY <1>2, AnswerAtOnce
  <1>4. CASE LeadingBlanks(a) = Len(a)
    <2>1. AnswerAt(a).sp = Skipping(a) /\ AnswerAt(a).ev = <<>>
      BY <1>4 DEF AnswerAt
    <2>2. next = AnswerAt(c)
      <3>1. next = ProcessAnswer(Skipping(a), u)
        BY <1>1, <2>1
      <3>2. AnswerAt(c) = IF LeadingBlanks(c) = Len(c) THEN [sp |-> Skipping(c), ev |-> <<>>]
                          ELSE [sp |-> Answering, ev |-> Event(FALSE, Drop(c, LeadingBlanks(c)))]
        BY DEF AnswerAt
      <3>3. c = a \o u
        OBVIOUS
      <3> HIDE DEF c
      <3> QED BY <3>1, <3>2, <3>3, FromSkipping
    <2>3. TextOf(<<>>, FALSE) = <<>>
      BY TextOfEvent, EmptyText
    <2> HIDE DEF c
    <2>4. <<>> \o TextOf(AnswerAt(c).ev, FALSE) = TextOf(AnswerAt(c).ev, FALSE)
      BY <1>3, EmptyText
    <2> QED BY <1>3, <2>1, <2>2, <2>3, <2>4 DEF c
  <1>5. CASE LeadingBlanks(a) # Len(a)
    <2> DEFINE b == LeadingBlanks(a)
    <2>1. b \in 0 .. Len(a) /\ b < Len(a)
      BY <1>2, <1>5, Blanks
    <2>2. LeadingBlanks(c) = b /\ LeadingBlanks(c) # Len(c)
      BY <1>2, <2>1, BlanksOfJoin
    <2>3. Drop(c, b) = Drop(a, b) \o u
      <3> HIDE DEF b
      <3> QED BY <2>1, DropOfJoin
    <2>4. AnswerAt(c).sp = Answering /\ AnswerAt(a).sp = Answering
      BY <1>5, <2>2 DEF AnswerAt
    <2>5. next.sp = Answering /\ next.ev = Event(FALSE, u)
      <3>1. ProcessAnswer(Answering, u) = [sp |-> Answering, ev |-> Event(FALSE, u)]
        BY FromAnswering
      <3>2. next = [sp |-> Answering, ev |-> Event(FALSE, u)]
        BY <1>1, <2>4, <3>1
      <3> QED BY ONLY <3>2
    <2>6. Event(FALSE, u) \in Seq(Events) /\ TextOf(Event(FALSE, u), FALSE) = u
      BY TextOfEvent
    <2> HIDE DEF c, b
    <2>7. TextOf(AnswerAt(c).ev, FALSE) = TextOf(AnswerAt(a).ev, FALSE) \o u
      BY <1>3, <2>2, <2>3 DEF b
    <2> QED BY <2>4, <2>5, <2>6, <2>7 DEF c
  <1> QED BY <1>4, <1>5

(* What is found stays found. *)
LEMMA FindKept ==
  ASSUME NEW s \in Seq(Char), NEW u \in Seq(Char), NEW t \in Seq(Char), NEW from \in Nat,
         Len(s) + Len(u) < NPos, Find(s, t, from) # NPos
  PROVE  /\ Find(s \o u, t, from) = Find(s, t, from)
         /\ Find(s, t, from) \in from .. Len(s) - Len(t) /\ Find(s, t, from) + Len(t) \in 0 .. Len(s)
  <1> DEFINE p == Find(s, t, from)
             v == s \o u
  <1>1. /\ v \in Seq(Char) /\ Len(v) = Len(s) + Len(u) /\ Len(s) \in Nat /\ Len(u) \in Nat
        /\ Len(t) \in Nat /\ \A i \in 1 .. Len(s) : v[i] = s[i]
    BY TextJoined, LenProperties
  <1>2. NPos \in Nat /\ Len(s) < NPos /\ Len(v) < NPos
    BY <1>1, NPosAssumption
  <1>3. FirstAt(s, t, from, p)
    BY <1>2, Found
  <1>4. p # NPos
    OBVIOUS
  <1> HIDE DEF p, v
  <1>5. /\ p \in Nat /\ p >= from /\ p < NPos /\ p + Len(t) <= Len(s) /\ OccursAt(s, t, p)
        /\ \A q \in Nat : q >= from /\ OccursAt(s, t, q) => p <= q
    BY <1>3, <1>4 DEF FirstAt
  <1>6. ASSUME NEW q \in Nat, q + Len(t) <= Len(s) PROVE OccursAt(v, t, q) <=> OccursAt(s, t, q)
    <2>1. \A i \in 1 .. Len(t) : q + i \in 1 .. Len(s)
      BY <1>1, <1>6
    <2>2. \A i \in 1 .. Len(t) : v[q + i] = s[q + i]
      BY <1>1, <2>1
    <2>3. q + Len(t) <= Len(v)
      BY <1>1, <1>6
    <2> QED BY <1>6, <2>2, <2>3 DEF OccursAt
  <1>7. OccursAt(v, t, p) /\ p + Len(t) <= Len(v)
    BY <1>1, <1>5, <1>6
  <1>8. ASSUME NEW q \in Nat, q >= from, OccursAt(v, t, q) PROVE p <= q
    <2>1. SUFFICES ASSUME q < p PROVE FALSE
      BY <1>5
    <2>2. q + Len(t) <= Len(s)
      BY <1>1, <1>5, <2>1
    <2>3. OccursAt(s, t, q)
      BY <1>6, <1>8, <2>2
    <2> QED BY <1>5, <1>8, <2>1, <2>3
  <1>9. FirstAt(v, t, from, p)
    BY <1>5, <1>7, <1>8 DEF FirstAt
  <1>10. Find(v, t, from) = p
    BY <1>1, <1>2, <1>5, <1>9, FirstIsFound
  <1>11. p \in from .. Len(s) - Len(t) /\ p + Len(t) \in 0 .. Len(s)
    BY <1>1, <1>5
  <1> QED BY <1>10, <1>11 DEF p, v

(* What a scan may keep back. *)
LEMMA HeldBack ==
  ASSUME NEW x \in Seq(Char), NEW tag \in Seq(Char), Len(tag) > 0
  PROVE  /\ Len(x) - LongestTagPrefixSuffix(x, tag) \in 0 .. Len(x)
         /\ LongestTagPrefixSuffix(x, tag) \in 0 .. Len(tag) - 1
         /\ LongestTagPrefixSuffix(x, tag) \in 0 .. Len(x)
  <1> DEFINE k == LongestTagPrefixSuffix(x, tag)
  <1>1. Begins(x, tag, k)
    BY LongestHeld
  <1> HIDE DEF k
  <1>2. k \in 0 .. Len(tag) - 1 /\ k <= Len(x) /\ Len(x) \in Nat /\ Len(tag) \in Nat
    BY <1>1, LenProperties DEF Begins
  <1>3. Len(x) - k \in 0 .. Len(x) /\ k \in 0 .. Len(x)
    BY <1>2
  <1> QED BY <1>2, <1>3 DEF k

\* The splitter that has been in the reasoning for the text b, and what it yields.
CloseAt(b) ==
  LET p == Find(b, CloseTag, 0)
      emit == Len(b) - LongestTagPrefixSuffix(b, CloseTag)
      answer == AnswerAt(Drop(b, p + Len(CloseTag)))
  IN  IF p = NPos
      THEN [sp |-> Thinking(Drop(b, emit)), ev |-> Event(TRUE, Take(b, emit))]
      ELSE [sp |-> answer.sp, ev |-> Event(TRUE, Take(b, p)) \o answer.ev]

\* The answer it has let through.
ContentAt(b) ==
  LET p == Find(b, CloseTag, 0)
      after == Drop(b, p + Len(CloseTag))
  IN  IF p = NPos THEN <<>> ELSE Drop(after, LeadingBlanks(after))

(* It is what ScanForClose makes of b, at once *)
LEMMA CloseAtOnce ==
  ASSUME NEW b \in Seq(Char), Len(b) < NPos
  PROVE  /\ \A h, sp : sp = Opening(h) \/ sp = Thinking(h) => ScanForClose(sp, b) = CloseAt(b)
         /\ CloseAt(b).ev \in Seq(Events)
         /\ TextOf(CloseAt(b).ev, FALSE) = ContentAt(b)
         /\ ContentAt(b) \in Seq(Char)
  <1> DEFINE p == Find(b, CloseTag, 0)
             emit == Len(b) - LongestTagPrefixSuffix(b, CloseTag)
             rest == Drop(b, p + Len(CloseTag))
             answer == AnswerAt(rest)
  <1>1. emit \in 0 .. Len(b)
    BY HeldBack, Tags
  <1>2. Take(b, emit) \in Seq(Char)
    <2> HIDE DEF emit
    <2> QED BY <1>1, TextParts
  <1>3. ASSUME p # NPos
        PROVE  p \in 0 .. Len(b) /\ Take(b, p) \in Seq(Char) /\ rest \in Seq(Char)
    <2>1. Len(b) \in Nat /\ Len(<<>>) = 0 /\ <<>> \in Seq(Char)
      BY LenProperties, EmptyText
    <2>2. Len(b) + Len(<<>>) < NPos
      BY <2>1
    <2>3. p \in 0 .. Len(b) - Len(CloseTag) /\ p + Len(CloseTag) \in 0 .. Len(b)
      BY <1>3, <2>1, <2>2, Tags, FindKept
    <2> HIDE DEF p
    <2>4. p \in 0 .. Len(b)
      BY <2>1, <2>3, Tags
    <2> QED BY <2>3, <2>4, TextParts DEF p
  <1>4. ASSUME NEW h, NEW sp, sp = Opening(h) \/ sp = Thinking(h)
        PROVE  ScanForClose(sp, b) = CloseAt(b)
    <2>1. /\ [sp EXCEPT !.mode = "answer", !.tagHold = <<>>, !.skipBlank = TRUE] = Skipping(<<>>)
          /\ \A x : [sp EXCEPT !.mode = "reasoning", !.tagHold = x] = Thinking(x)
      BY <1>4, FromOpening
    <2>2. CASE p = NPos
      <3>1. ScanForClose(sp, b) = [sp |-> [sp EXCEPT !.mode = "reasoning", !.tagHold = Drop(b, emit)],
                                   ev |-> Event(TRUE, Take(b, emit))]
        BY <2>2 DEF ScanForClose
      <3>2. CloseAt(b) = [sp |-> Thinking(Drop(b, emit)), ev |-> Event(TRUE, Take(b, emit))]
        BY <2>2 DEF CloseAt
      <3> QED BY <2>1, <3>1, <3>2
    <2>3. CASE p # NPos
      <3> DEFINE a == ProcessAnswer([sp EXCEPT !.mode = "answer", !.tagHold = <<>>, !.skipBlank = TRUE], rest)
      <3>1. ScanForClose(sp, b) = [sp |-> a.sp, ev |-> Event(TRUE, Take(b, p)) \o a.ev]
        BY <2>3 DEF ScanForClose
      <3>2. CloseAt(b) = [sp |-> answer.sp, ev |-> Event(TRUE, Take(b, p)) \o answer.ev]
        BY <2>3 DEF CloseAt
      <3>3. a = answer
        <4>1. a = ProcessAnswer(Skipping(<<>>), rest)
          BY <2>1
        <4>2. rest \in Seq(Char)
          BY <1>3, <2>3
        <4> HIDE DEF rest, a
        <4> QED BY <4>1, <4>2, AnswerAtOnce
      <3> HIDE DEF a, answer, rest, p
      <3> QED BY <3>1, <3>2, <3>3
    <2> QED BY <2>2, <2>3
  <1>5. CASE p = NPos
    <2>1. CloseAt(b).ev = Event(TRUE, Take(b, emit)) /\ ContentAt(b) = <<>>
      BY <1>5 DEF CloseAt, ContentAt
    <2>2. Event(TRUE, Take(b, emit)) \in Seq(Events) /\ TextOf(Event(TRUE, Take(b, emit)), FALSE) = <<>>
      <3> HIDE DEF emit
      <3> QED BY <1>2, TextOfEvent
    <2> QED BY <1>4, <2>1, <2>2, EmptyText
  <1>6. CASE p # NPos
    <2>1. CloseAt(b).ev = Event(TRUE, Take(b, p)) \o answer.ev /\ ContentAt(b) = Drop(rest, LeadingBlanks(rest))
      BY <1>6 DEF CloseAt, ContentAt
    <2>2. Take(b, p) \in Seq(Char) /\ rest \in Seq(Char)
      BY <1>3, <1>6
    <2> DEFINE e == Event(TRUE, Take(b, p))
    <2>3. e \in Seq(Events) /\ TextOf(e, FALSE) = <<>>
      BY <2>2, TextOfEvent
    <2> HIDE DEF p, rest
    <2>4. /\ answer.ev \in Seq(Events) /\ TextOf(answer.ev, FALSE) = Drop(rest, LeadingBlanks(rest))
          /\ TextOf(answer.ev, FALSE) \in Seq(Char)
      BY <2>2, AnswerAtOnce
    <2> HIDE DEF e, answer
    <2>5. TextOf(e \o answer.ev, FALSE) = TextOf(e, FALSE) \o TextOf(answer.ev, FALSE)
      BY <2>3, <2>4, TextOfConcat
    <2>6. TextOf(e \o answer.ev, FALSE) = TextOf(answer.ev, FALSE)
      BY <2>3, <2>4, <2>5, EmptyText
    <2>7. e \o answer.ev \in Seq(Events)
      BY <2>3, <2>4, ConcatProperties
    <2> QED BY <1>4, <2>1, <2>4, <2>6, <2>7 DEF e
  <1> QED BY <1>5, <1>6

(* and piece by piece. *)
LEMMA CloseResumes ==
  ASSUME NEW b \in Seq(Char), NEW u \in Seq(Char), u # <<>>, Len(b) + Len(u) < NPos,
         NEW next, next = SplitPush(CloseAt(b).sp, u)
  PROVE  /\ next.sp = CloseAt(b \o u).sp /\ next.ev \in Seq(Events)
         /\ ContentAt(b \o u) = ContentAt(b) \o TextOf(next.ev, FALSE)
  <1> DEFINE c == b \o u
             p == Find(b, CloseTag, 0)
             emit == Len(b) - LongestTagPrefixSuffix(b, CloseTag)
             h == Drop(b, emit)
  <1>1. /\ c \in Seq(Char) /\ Len(c) = Len(b) + Len(u) /\ Len(b) \in Nat /\ Len(u) \in Nat
        /\ Len(c) < NPos /\ Len(b) < NPos /\ NPos \in Nat
    <2>1. c \in Seq(Char) /\ Len(c) = Len(b) + Len(u) /\ Len(b) \in Nat /\ Len(u) \in Nat
      BY TextJoined
    <2> QED BY <2>1, NPosAssumption
  <1>2. ContentAt(b) \in Seq(Char) /\ ContentAt(c) \in Seq(Char)
    BY <1>1, CloseAtOnce
  <1>3. CASE p = NPos
    <2> DEFINE buf == h \o u
    <2>1. /\ emit \in 0 .. Len(b) /\ buf \in Seq(Char) /\ Len(buf) = Len(c) - emit
          /\ Find(c, CloseTag, 0) = IF Find(buf, CloseTag, 0) = NPos THEN NPos
                                    ELSE emit + Find(buf, CloseTag, 0)
          /\ LongestTagPrefixSuffix(c, CloseTag) = LongestTagPrefixSuffix(buf, CloseTag)
      <3>1. Scanned(b, u, CloseTag) /\ CloseTag \in Seq(Char)
        BY <1>3, Tags DEF Scanned
      <3>2. emit = Past(b, CloseTag) /\ buf = Ahead(b, u, CloseTag)
        BY DEF Past, Ahead
      <3> HIDE DEF emit, buf, h
      <3>3. Resumed(b, u, CloseTag, emit, buf)
        BY <3>1, <3>2, ScanResumes
      <3> QED BY <3>3 DEF Resumed
    <2>2. Drop(c, emit) = buf
      <3> HIDE DEF emit
      <3> QED BY <2>1, DropOfJoin
    <2>3. Len(buf) < NPos /\ Len(buf) \in Nat /\ emit \in Nat /\ emit <= Len(c)
      <3> HIDE DEF emit, buf
      <3> QED BY <1>1, <2>1
    <2>4. CloseAt(b).sp = Thinking(h) /\ ContentAt(b) = <<>>
      BY <1>3 DEF CloseAt, ContentAt
    <2>5. next = ScanForClose(Thinking(h), buf)
      <3>1. Thinking(h).mode = "reasoning" /\ Thinking(h).tagHold = h
        BY SplitterPlaces
      <3>2. next = SplitPush(Thinking(h), u)
        BY <2>4
      <3> HIDE DEF h
      <3> QED BY <3>1, <3>2 DEF SplitPush
    <2>6. next = CloseAt(buf)
      <3> HIDE DEF h, buf
      <3> QED BY <2>1, <2>3, <2>5, CloseAtOnce
    <2>7. next.ev \in Seq(Events) /\ TextOf(next.ev, FALSE) = ContentAt(buf)
      <3> HIDE DEF buf
      <3> QED BY <2>1, <2>3, <2>6, CloseAtOnce
    <2> HIDE DEF buf, emit, c, h
    <2>8. CASE Find(buf, CloseTag, 0) = NPos
      <3> DEFINE k == LongestTagPrefixSuffix(buf, CloseTag)
                 d == Len(buf) - k
      <3>1. k \in 0 .. Len(buf) /\ d \in 0 .. Len(buf)
        <4>1. buf \in Seq(Char) /\ CloseTag \in Seq(Char) /\ Len(CloseTag) > 0
          BY <2>1, Tags
        <4> QED BY <4>1, HeldBack
      <3> HIDE DEF k
      <3>2. Len(c) - k = emit + d /\ d \in 0 .. Len(c) - emit /\ emit \in 0 .. Len(c)
        BY <1>1, <2>1, <2>3, <3>1
      <3> HIDE DEF d
      <3>3. Drop(c, Len(c) - k) = Drop(buf, d)
        BY <1>1, <2>2, <3>2, DropOfDrop
      <3>4. Find(c, CloseTag, 0) = NPos
        BY <2>1, <2>8
      <3>5. CloseAt(c).sp = Thinking(Drop(c, Len(c) - k)) /\ ContentAt(c) = <<>>
        BY <2>1, <3>4 DEF CloseAt, ContentAt, k
      <3>6. CloseAt(buf).sp = Thinking(Drop(buf, d)) /\ ContentAt(buf) = <<>>
        BY <2>8 DEF CloseAt, ContentAt, k, d
      <3> QED BY <2>4, <2>6, <2>7, <3>3, <3>5, <3>6, EmptyText DEF c
    <2>9. CASE Find(buf, CloseTag, 0) # NPos
      <3> DEFINE q == Find(buf, CloseTag, 0)
      <3>0. q # NPos
        BY <2>9
      <3>1. q \in 0 .. Len(buf) - Len(CloseTag) /\ q + Len(CloseTag) \in 0 .. Len(buf)
        <4>1. Len(<<>>) = 0 /\ <<>> \in Seq(Char)
          BY EmptyText
        <4>2. Len(buf) + Len(<<>>) < NPos
          BY <2>3, <4>1
        <4> QED BY <2>1, <2>9, <4>1, <4>2, Tags, FindKept
      <3>2. Find(c, CloseTag, 0) = emit + q
        BY <2>1, <2>9
      <3> HIDE DEF q
      <3>3. /\ emit + q # NPos /\ (emit + q) + Len(CloseTag) = emit + (q + Len(CloseTag))
            /\ q + Len(CloseTag) \in 0 .. Len(c) - emit /\ emit \in 0 .. Len(c)
        BY <1>1, <2>1, <2>3, <3>1, Tags, NPosAssumption
      <3>4. Drop(c, (emit + q) + Len(CloseTag)) = Drop(buf, q + Len(CloseTag))
        <4> DEFINE z == q + Len(CloseTag)
        <4>1. z \in 0 .. Len(c) - emit /\ emit \in 0 .. Len(c)
          BY <3>3
        <4> HIDE DEF z
        <4>2. Drop(Drop(c, emit), z) = Drop(c, emit + z)
          BY <1>1, <4>1, DropOfDrop
        <4> QED BY <2>2, <3>3, <4>2 DEF z
      <3> DEFINE r == Drop(buf, q + Len(CloseTag))
      <3>5. CloseAt(c).sp = AnswerAt(r).sp /\ ContentAt(c) = Drop(r, LeadingBlanks(r))
        <4>1. Find(c, CloseTag, 0) # NPos
          BY <3>2, <3>3
        <4>2. r = Drop(c, Find(c, CloseTag, 0) + Len(CloseTag))
          BY <3>2, <3>4
        <4> HIDE DEF r
        <4> QED BY <4>1, <4>2 DEF CloseAt, ContentAt
      <3>6. CloseAt(buf).sp = AnswerAt(r).sp /\ ContentAt(buf) = Drop(r, LeadingBlanks(r))
        BY <2>9 DEF CloseAt, ContentAt, q
      <3> HIDE DEF r
      <3>7. <<>> \o ContentAt(c) = ContentAt(c)
        BY <1>2, EmptyText
      <3> QED BY <2>4, <2>6, <2>7, <3>5, <3>6, <3>7 DEF c
    <2> QED BY <2>8, <2>9
  <1>4. CASE p # NPos
    <2> DEFINE n == p + Len(CloseTag)
               a == Drop(b, n)
    <2>1. Find(c, CloseTag, 0) = p /\ n \in 0 .. Len(b)
      BY <1>1, <1>4, Tags, FindKept
    <2>2. a \in Seq(Char) /\ Drop(c, n) = a \o u
      <3> HIDE DEF n
      <3> QED BY <2>1, TextParts, DropOfJoin
    <2> HIDE DEF a, c
    <2>3. /\ CloseAt(b).sp = AnswerAt(a).sp /\ ContentAt(b) = Drop(a, LeadingBlanks(a))
      BY <1>4 DEF CloseAt, ContentAt, a
    <2>4. /\ CloseAt(c).sp = AnswerAt(a \o u).sp
          /\ ContentAt(c) = Drop(a \o u, LeadingBlanks(a \o u))
      BY <1>4, <2>1, <2>2 DEF CloseAt, ContentAt
    <2>5. next = SplitPush(AnswerAt(a).sp, u)
      BY <2>3
    <2>6. /\ next.sp = AnswerAt(a \o u).sp /\ next.ev \in Seq(Events)
          /\ TextOf(AnswerAt(a \o u).ev, FALSE) = TextOf(AnswerAt(a).ev, FALSE) \o TextOf(next.ev, FALSE)
      BY <2>2, <2>5, AnswerResumes
    <2>7. a \o u \in Seq(Char)
      BY <2>2, TextJoined
    <2>8. /\ TextOf(AnswerAt(a).ev, FALSE) = ContentAt(b)
          /\ TextOf(AnswerAt(a \o u).ev, FALSE) = ContentAt(c)
      <3>1. TextOf(AnswerAt(a).ev, FALSE) = Drop(a, LeadingBlanks(a))
        BY <2>2, AnswerAtOnce
      <3> DEFINE z == a \o u
      <3>2. z \in Seq(Char)
        BY <2>7
      <3> HIDE DEF z
      <3>3. TextOf(AnswerAt(z).ev, FALSE) = Drop(z, LeadingBlanks(z))
        BY <3>2, AnswerAtOnce
      <3> QED BY <2>3, <2>4, <3>1, <3>3 DEF z
    <2> QED BY <2>4, <2>6, <2>8 DEF c
  <1> QED BY <1>3, <1>4

\* The splitter fed the text t, and what it has yielded.
FeedAt(start, t) ==
  IF start = "reasoning" THEN CloseAt(t)
  ELSE IF start = "expect" /\ IsPrefix(OpenTag, t) THEN CloseAt(Drop(t, Len(OpenTag)))
  ELSE IF start = "expect" /\ IsPrefix(t, OpenTag) THEN [sp |-> Opening(t), ev |-> <<>>]
  ELSE [sp |-> Plain, ev |-> Event(FALSE, t)]

\* The answer it has let through.
ContentFed(start, t) ==
  IF start = "reasoning" THEN ContentAt(t)
  ELSE IF start = "expect" /\ IsPrefix(OpenTag, t) THEN ContentAt(Drop(t, Len(OpenTag)))
  ELSE IF start = "expect" /\ IsPrefix(t, OpenTag) THEN <<>>
  ELSE t

Starts == {"expect", "reasoning", "answer"}

(* A text that begins with a tag, and the rest of it. *)
LEMMA BehindTag ==
  ASSUME NEW tag \in Seq(Char), NEW t \in Seq(Char), IsPrefix(tag, t)
  PROVE  Len(tag) \in 0 .. Len(t) /\ Drop(t, Len(tag)) \in Seq(Char) /\ Len(Drop(t, Len(tag))) = Len(t) - Len(tag)
  <1>1. Len(tag) <= Len(t) /\ Len(tag) \in Nat /\ Len(t) \in Nat
    BY PrefixPointwise, LenProperties
  <1> DEFINE n == Len(tag)
  <1>2. n \in 0 .. Len(t)
    BY <1>1
  <1> HIDE DEF n
  <1>3. Drop(t, n) \in Seq(Char) /\ Len(Drop(t, n)) = Len(t) - n
    BY <1>2, TextParts
  <1> QED BY <1>2, <1>3 DEF n

(* What a text's extension begins with. *)
LEMMA PrefixOfJoin ==
  ASSUME NEW tag \in Seq(Char), NEW t \in Seq(Char), NEW u \in Seq(Char)
  PROVE  /\ IsPrefix(tag, t) => IsPrefix(tag, t \o u)
         /\ IsPrefix(t \o u, tag) => IsPrefix(t, tag)
         /\ IsPrefix(tag, t \o u) => IsPrefix(tag, t) \/ IsPrefix(t, tag)
  <1> DEFINE v == t \o u
  <1>1. /\ v \in Seq(Char) /\ Len(v) = Len(t) + Len(u) /\ Len(t) \in Nat /\ Len(u) \in Nat
        /\ \A i \in 1 .. Len(t) : v[i] = t[i]
    BY TextJoined
  <1>2. Len(tag) \in Nat
    BY LenProperties
  <1> HIDE DEF v
  <1>3. /\ IsPrefix(tag, v) <=> Len(tag) <= Len(v) /\ \A i \in 1 .. Len(tag) : tag[i] = v[i]
        /\ IsPrefix(v, tag) <=> Len(v) <= Len(tag) /\ \A i \in 1 .. Len(v) : v[i] = tag[i]
        /\ IsPrefix(tag, t) <=> Len(tag) <= Len(t) /\ \A i \in 1 .. Len(tag) : tag[i] = t[i]
        /\ IsPrefix(t, tag) <=> Len(t) <= Len(tag) /\ \A i \in 1 .. Len(t) : t[i] = tag[i]
    BY <1>1, PrefixPointwise
  <1>4. IsPrefix(tag, t) => IsPrefix(tag, v)
    BY <1>1, <1>2, <1>3
  <1>5. IsPrefix(v, tag) => IsPrefix(t, tag)
    BY <1>1, <1>2, <1>3
  <1>6. IsPrefix(tag, v) => IsPrefix(tag, t) \/ IsPrefix(t, tag)
    BY <1>1, <1>2, <1>3
  <1> QED BY <1>4, <1>5, <1>6 DEF v

(* The splitter before the opening tag. *)
LEMMA OpeningPushed ==
  ASSUME NEW h \in Seq(Char), NEW u \in Seq(Char), u # <<>>, NEW t, t = h \o u, Len(t) < NPos
  PROVE  SplitPush(Opening(h), u) = FeedAt("expect", t)
  <1> DEFINE sp == Opening(h)
  <1>1. sp.mode = "expect" /\ sp.tagHold = h
    BY SplitterPlaces
  <1>2. /\ [sp EXCEPT !.mode = "answer", !.started = TRUE, !.tagHold = <<>>] = Plain
        /\ [sp EXCEPT !.tagHold = t] = Opening(t)
    BY FromOpening
  <1>3. t \in Seq(Char)
    BY TextJoined
  <1> DEFINE rest == Drop(t, Len(OpenTag))
  <1>4. ASSUME IsPrefix(OpenTag, t) PROVE ScanForClose(sp, rest) = CloseAt(rest)
    <2>1. rest \in Seq(Char) /\ Len(rest) = Len(t) - Len(OpenTag)
      BY <1>3, <1>4, BehindTag, Tags
    <2> HIDE DEF rest
    <2>2. Len(t) \in Nat /\ Len(OpenTag) \in Nat /\ NPos \in Nat
      BY <1>3, Tags, LenProperties, NPosAssumption
    <2>3. Len(rest) < NPos
      BY <2>1, <2>2
    <2> QED BY <2>1, <2>3, CloseAtOnce
  <1> DEFINE plain == [sp EXCEPT !.mode = "answer", !.started = TRUE, !.tagHold = <<>>]
             open == [sp EXCEPT !.tagHold = t]
  <1>5. SplitPush(sp, u) =
          IF IsPrefix(OpenTag, t) THEN ScanForClose(sp, rest)
          ELSE IF IsPrefix(t, OpenTag) THEN [sp |-> open, ev |-> <<>>]
          ELSE [sp |-> plain, ev |-> Event(FALSE, t)]
    <2> HIDE DEF sp
    <2>1. ~(u = <<>>) /\ ~(sp.mode = "answer") /\ ~(sp.mode = "reasoning") /\ sp.tagHold \o u = t
      BY <1>1
    <2> QED BY <2>1 DEF SplitPush
  <1>6. plain = Plain /\ open = Opening(t)
    BY <1>2
  <1> HIDE DEF plain, open, rest, sp
  <1>7. FeedAt("expect", t) =
          IF IsPrefix(OpenTag, t) THEN CloseAt(rest)
          ELSE IF IsPrefix(t, OpenTag) THEN [sp |-> Opening(t), ev |-> <<>>]
          ELSE [sp |-> Plain, ev |-> Event(FALSE, t)]
    BY DEF FeedAt, rest
  <1>8. SplitPush(sp, u) = FeedAt("expect", t)
    BY <1>4, <1>5, <1>6, <1>7
  <1> QED BY <1>8 DEF sp

(* From the start of a generation the splitter gets there at once. *)
LEMMA FeedAtOnce ==
  ASSUME NEW start \in Starts, NEW t \in Seq(Char), Len(t) < NPos
  PROVE  /\ SplitPush(Splitter(start), t) = FeedAt(start, t)
         /\ FeedAt(start, t).ev \in Seq(Events)
         /\ Shown(start, t) = ContentFed(start, t) /\ ContentFed(start, t) \in Seq(Char)
  <1>1. SplitPush(Splitter(start), t) = FeedAt(start, t)
    <2>1. CASE t = <<>>
      <3>1. SplitPush(Splitter(start), t) = [sp |-> Splitter(start), ev |-> <<>>]
        BY <2>1 DEF SplitPush
      <3>2. CASE start = "answer"
        <4>1. FeedAt(start, t) = [sp |-> Plain, ev |-> Event(FALSE, t)]
          BY <3>2 DEF FeedAt
        <4>2. Event(FALSE, t) = <<>>
          BY <2>1 DEF Event
        <4> QED BY <3>1, <3>2, <4>1, <4>2, SplitterPlaces
      <3>3. CASE start = "reasoning"
        <4> DEFINE p == Find(t, CloseTag, 0)
                   k == LongestTagPrefixSuffix(t, CloseTag)
                   emit == Len(t) - k
        <4>0. Len(t) = 0
          BY <2>1
        <4>1. p = NPos
          <5>1. FirstAt(t, CloseTag, 0, p) /\ Len(CloseTag) \in Nat \ {0}
            BY Found, Tags
          <5> HIDE DEF p
          <5>2. ~(p + Len(CloseTag) <= Len(t)) \/ ~(p \in Nat)
            BY <4>0, <5>1
          <5> QED BY <5>1, <5>2 DEF FirstAt
        <4>2. k \in 0 .. Len(t)
          <5>1. Len(CloseTag) > 0 /\ CloseTag \in Seq(Char)
            BY Tags
          <5> QED BY <5>1, HeldBack
        <4>3. emit = 0
          <5>1. k = 0
            BY <4>0, <4>2
          <5>2. \A m, n \in Nat : n = 0 => m - n = m
            OBVIOUS
          <5> HIDE DEF k
          <5> QED BY <4>0, <5>1, <5>2
        <4>4. Take(t, emit) = <<>> /\ Drop(t, emit) = <<>>
          <5>0. t \in Seq(Char) /\ 0 \in 0 .. Len(t)
            BY <4>0
          <5>1. Take(t, 0) = <<>> /\ Drop(t, 0) = t
            BY <5>0, CutInTwo
          <5> QED BY <2>1, <4>3, <5>1
        <4>5. CloseAt(t) = [sp |-> Thinking(Drop(t, emit)), ev |-> Event(TRUE, Take(t, emit))]
          BY <4>1 DEF CloseAt
        <4>6. Event(TRUE, <<>>) = <<>>
          BY DEF Event
        <4>7. FeedAt(start, t) = CloseAt(t)
          BY <3>3 DEF FeedAt
        <4> HIDE DEF emit
        <4> QED BY <3>1, <3>3, <4>4, <4>5, <4>6, <4>7, SplitterPlaces
      <3>4. CASE start = "expect"
        <4>1. ~IsPrefix(OpenTag, t) /\ IsPrefix(t, OpenTag)
          <5>1. Len(t) = 0 /\ OpenTag \in Seq(Char) /\ Len(OpenTag) \in Nat \ {0}
            BY <2>1, Tags
          <5>2. /\ IsPrefix(OpenTag, t) <=> Len(OpenTag) <= Len(t) /\ \A i \in 1 .. Len(OpenTag) : OpenTag[i] = t[i]
                /\ IsPrefix(t, OpenTag) <=> Len(t) <= Len(OpenTag) /\ \A i \in 1 .. Len(t) : t[i] = OpenTag[i]
            BY <5>1, PrefixPointwise
          <5> QED BY <5>1, <5>2
        <4>2. FeedAt(start, t) = [sp |-> Opening(t), ev |-> <<>>]
          BY <3>4, <4>1 DEF FeedAt
        <4> QED BY <2>1, <3>1, <3>4, <4>2, SplitterPlaces
      <3> QED BY <3>2, <3>3, <3>4 DEF Starts
    <2>2. CASE t # <<>>
      <3>2. CASE start = "answer"
        <4>1. FeedAt(start, t) = [sp |-> Plain, ev |-> Event(FALSE, t)]
          BY <3>2 DEF FeedAt
        <4>2. SplitPush(Plain, t) = ProcessAnswer(Plain, t)
          BY <2>2, SplitterPlaces DEF SplitPush
        <4> QED BY <3>2, <4>1, <4>2, SplitterPlaces, FromAnswering
      <3>3. CASE start = "reasoning"
        <4>1. <<>> \o t = t
          BY EmptyText
        <4>2. SplitPush(Thinking(<<>>), t) = ScanForClose(Thinking(<<>>), t)
          <5>1. Thinking(<<>>).mode = "reasoning" /\ Thinking(<<>>).tagHold = <<>>
            BY SplitterPlaces
          <5> QED BY <2>2, <4>1, <5>1 DEF SplitPush
        <4>3. ScanForClose(Thinking(<<>>), t) = CloseAt(t)
          BY CloseAtOnce
        <4>4. FeedAt(start, t) = CloseAt(t)
          BY <3>3 DEF FeedAt
        <4> QED BY <3>3, <4>2, <4>3, <4>4, SplitterPlaces
      <3>4. CASE start = "expect"
        <4>1. t = <<>> \o t /\ <<>> \in Seq(Char)
          BY EmptyText
        <4>2. SplitPush(Opening(<<>>), t) = FeedAt("expect", t)
          BY <2>2, <4>1, OpeningPushed
        <4> QED BY <3>4, <4>2, SplitterPlaces
      <3> QED BY <3>2, <3>3, <3>4 DEF Starts
    <2> QED BY <2>1, <2>2
  <1>2. ASSUME NEW b \in Seq(Char), Len(b) < NPos
        PROVE  CloseAt(b).ev \in Seq(Events) /\ TextOf(CloseAt(b).ev, FALSE) = ContentAt(b) /\ ContentAt(b) \in Seq(Char)
    BY <1>2, CloseAtOnce
  <1>3. FeedAt(start, t).ev \in Seq(Events) /\ TextOf(FeedAt(start, t).ev, FALSE) = ContentFed(start, t)
        /\ ContentFed(start, t) \in Seq(Char)
    <2>1. CASE start = "reasoning"
      <3>1. FeedAt(start, t) = CloseAt(t) /\ ContentFed(start, t) = ContentAt(t)
        BY <2>1 DEF FeedAt, ContentFed
      <3> QED BY <1>2, <3>1
    <2>2. CASE start = "expect" /\ IsPrefix(OpenTag, t)
      <3> DEFINE rest == Drop(t, Len(OpenTag))
      <3>1. FeedAt(start, t) = CloseAt(rest) /\ ContentFed(start, t) = ContentAt(rest)
        BY <2>2 DEF FeedAt, ContentFed
      <3>2. rest \in Seq(Char) /\ Len(rest) = Len(t) - Len(OpenTag)
        BY <2>2, BehindTag, Tags
      <3> HIDE DEF rest
      <3>3. Len(t) \in Nat /\ Len(OpenTag) \in Nat /\ NPos \in Nat
        BY Tags, LenProperties, NPosAssumption
      <3>4. Len(rest) < NPos
        BY <3>2, <3>3
      <3> QED BY <1>2, <3>1, <3>2, <3>4
    <2>3. CASE start = "expect" /\ ~IsPrefix(OpenTag, t) /\ IsPrefix(t, OpenTag)
      <3>1. FeedAt(start, t).ev = <<>> /\ ContentFed(start, t) = <<>>
        BY <2>3 DEF FeedAt, ContentFed
      <3>2. <<>> \in Seq(Events) /\ TextOf(<<>>, FALSE) = <<>>
        BY EmptyText, TextOfEvent
      <3> QED BY <3>1, <3>2, EmptyText
    <2>4. CASE start = "answer" \/ (start = "expect" /\ ~IsPrefix(OpenTag, t) /\ ~IsPrefix(t, OpenTag))
      <3>1. FeedAt(start, t).ev = Event(FALSE, t) /\ ContentFed(start, t) = t
        BY <2>4 DEF FeedAt, ContentFed
      <3>2. Event(FALSE, t) \in Seq(Events) /\ TextOf(Event(FALSE, t), FALSE) = t
        BY TextOfEvent
      <3> QED BY <3>1, <3>2
    <2> QED BY <2>1, <2>2, <2>3, <2>4 DEF Starts
  <1> QED BY <1>1, <1>3 DEF Shown

(* A splitter fed a text and then its continuation is where it would be    *)
(* fed both at once, and lets through the same answer: wherever the        *)
(* decoder's pieces cut the tags, the reply's sides are the same.          *)
THEOREM SplitterResumes ==
  ASSUME NEW start \in Starts, NEW t \in Seq(Char), NEW u \in Seq(Char), Len(t) + Len(u) < NPos,
         NEW next, next = SplitPush(SplitPush(Splitter(start), t).sp, u)
  PROVE  /\ next.sp = SplitPush(Splitter(start), t \o u).sp /\ next.ev \in Seq(Events)
         /\ Shown(start, t \o u) = Shown(start, t) \o TextOf(next.ev, FALSE)
         /\ Shown(start, t) \in Seq(Char) /\ TextOf(next.ev, FALSE) \in Seq(Char)
  <1> DEFINE v == t \o u
  <1>1. /\ v \in Seq(Char) /\ Len(v) = Len(t) + Len(u) /\ Len(t) \in Nat /\ Len(u) \in Nat
        /\ Len(v) < NPos /\ Len(t) < NPos
    <2>1. v \in Seq(Char) /\ Len(v) = Len(t) + Len(u) /\ Len(t) \in Nat /\ Len(u) \in Nat
      BY TextJoined
    <2> QED BY <2>1, NPosAssumption
  <1> HIDE DEF v
  <1>2. /\ SplitPush(Splitter(start), t) = FeedAt(start, t)
        /\ Shown(start, t) = ContentFed(start, t) /\ ContentFed(start, t) \in Seq(Char)
    BY <1>1, FeedAtOnce
  <1>3. /\ SplitPush(Splitter(start), v) = FeedAt(start, v) /\ FeedAt(start, v).ev \in Seq(Events)
        /\ Shown(start, v) = ContentFed(start, v) /\ ContentFed(start, v) \in Seq(Char)
        /\ TextOf(FeedAt(start, v).ev, FALSE) = ContentFed(start, v)
    <2>1. /\ SplitPush(Splitter(start), v) = FeedAt(start, v) /\ FeedAt(start, v).ev \in Seq(Events)
          /\ Shown(start, v) = ContentFed(start, v) /\ ContentFed(start, v) \in Seq(Char)
      BY <1>1, FeedAtOnce
    <2> QED BY <2>1 DEF Shown
  <1>4. next = SplitPush(FeedAt(start, t).sp, u)
    BY <1>2
  <1> DEFINE Fits == /\ next.sp = FeedAt(start, v).sp /\ next.ev \in Seq(Events)
                     /\ ContentFed(start, v) = ContentFed(start, t) \o TextOf(next.ev, FALSE)
  <1> HIDE DEF Fits
  <1>5. ASSUME u = <<>> PROVE Fits
    <2>1. next = [sp |-> FeedAt(start, t).sp, ev |-> <<>>]
      BY <1>4, <1>5 DEF SplitPush
    <2>0. next.sp = FeedAt(start, t).sp /\ next.ev = <<>>
      BY ONLY <2>1
    <2>2. v = t
      BY <1>5, EmptyText DEF v
    <2>3. <<>> \in Seq(Events) /\ TextOf(<<>>, FALSE) = <<>>
      BY EmptyText, TextOfEvent
    <2>4. ContentFed(start, t) \o <<>> = ContentFed(start, t)
      BY <1>2, EmptyText
    <2> QED BY <2>0, <2>2, <2>3, <2>4 DEF Fits
  <1>6. ASSUME u # <<>>, NEW b \in Seq(Char), Len(b) <= Len(t),
               FeedAt(start, t).sp = CloseAt(b).sp, FeedAt(start, v).sp = CloseAt(b \o u).sp,
               ContentFed(start, t) = ContentAt(b), ContentFed(start, v) = ContentAt(b \o u)
        PROVE  Fits
    <2>1. Len(b) \in Nat
      BY LenProperties
    <2>2. Len(b) + Len(u) < NPos
      BY <1>1, <1>6, <2>1, NPosAssumption
    <2>3. next = SplitPush(CloseAt(b).sp, u)
      BY <1>4, <1>6
    <2>4. /\ next.sp = CloseAt(b \o u).sp /\ next.ev \in Seq(Events)
          /\ ContentAt(b \o u) = ContentAt(b) \o TextOf(next.ev, FALSE)
      BY <1>6, <2>2, <2>3, CloseResumes
    <2> QED BY <1>6, <2>4 DEF Fits
  <1>7. ASSUME u # <<>>, FeedAt(start, t).sp = Plain, FeedAt(start, v).sp = Plain,
               ContentFed(start, t) = t, ContentFed(start, v) = v
        PROVE  Fits
    <2>1. next = SplitPush(Plain, u)
      BY <1>4, <1>7
    <2>2. SplitPush(Plain, u) = ProcessAnswer(Plain, u)
      BY <1>7, SplitterPlaces DEF SplitPush
    <2>3. ProcessAnswer(Plain, u) = [sp |-> Plain, ev |-> Event(FALSE, u)]
      BY FromAnswering
    <2>4. next = [sp |-> Plain, ev |-> Event(FALSE, u)]
      BY <2>1, <2>2, <2>3
    <2>5. next.sp = Plain /\ next.ev = Event(FALSE, u)
      BY ONLY <2>4
    <2>6. Event(FALSE, u) \in Seq(Events) /\ TextOf(Event(FALSE, u), FALSE) = u
      BY TextOfEvent
    <2> QED BY <1>7, <2>5, <2>6 DEF v, Fits
  <1>8. ASSUME u # <<>>, start = "answer" PROVE Fits
    <2>1. FeedAt(start, t).sp = Plain /\ FeedAt(start, v).sp = Plain
      BY <1>8 DEF FeedAt
    <2>2. ContentFed(start, t) = t /\ ContentFed(start, v) = v
      BY <1>8 DEF ContentFed
    <2> QED BY <1>7, <1>8, <2>1, <2>2
  <1>9. ASSUME u # <<>>, start = "reasoning" PROVE Fits
    <2>1. FeedAt(start, t).sp = CloseAt(t).sp /\ FeedAt(start, v).sp = CloseAt(v).sp
      BY <1>9 DEF FeedAt
    <2>2. ContentFed(start, t) = ContentAt(t) /\ ContentFed(start, v) = ContentAt(v)
      BY <1>9 DEF ContentFed
    <2>3. Len(t) <= Len(t)
      BY <1>1
    <2> QED BY <1>6, <1>9, <2>1, <2>2, <2>3 DEF v
  <1>10. /\ IsPrefix(OpenTag, t) => IsPrefix(OpenTag, v)
         /\ IsPrefix(v, OpenTag) => IsPrefix(t, OpenTag)
         /\ IsPrefix(OpenTag, v) => IsPrefix(OpenTag, t) \/ IsPrefix(t, OpenTag)
    BY PrefixOfJoin, Tags DEF v
  <1>11. ASSUME u # <<>>, start = "expect", IsPrefix(OpenTag, t) PROVE Fits
    <2> DEFINE b == Drop(t, Len(OpenTag))
               n == Len(OpenTag)
    <2>1. b \in Seq(Char) /\ Len(b) = Len(t) - n /\ n \in 0 .. Len(t)
      BY <1>11, BehindTag, Tags
    <2>2. Drop(v, n) = b \o u
      <3>0. b = Drop(t, n)
        OBVIOUS
      <3> HIDE DEF n, b
      <3>1. Drop(t \o u, n) = Drop(t, n) \o u
        BY <2>1, DropOfJoin
      <3> QED BY <3>0, <3>1 DEF v
    <2>3. FeedAt(start, t) = CloseAt(b) /\ FeedAt(start, v) = CloseAt(Drop(v, n))
      BY <1>10, <1>11 DEF FeedAt
    <2>4. ContentFed(start, t) = ContentAt(b) /\ ContentFed(start, v) = ContentAt(Drop(v, n))
      BY <1>10, <1>11 DEF ContentFed
    <2> HIDE DEF b, n
    <2>5. Len(b) <= Len(t)
      BY <1>1, <2>1
    <2> QED BY <1>6, <1>11, <2>1, <2>2, <2>3, <2>4, <2>5
  <1>12. ASSUME u # <<>>, start = "expect", ~IsPrefix(OpenTag, t), IsPrefix(t, OpenTag) PROVE Fits
    <2>1. FeedAt(start, t).sp = Opening(t) /\ ContentFed(start, t) = <<>>
      BY <1>12 DEF FeedAt, ContentFed
    <2>2. next = FeedAt("expect", v)
      <3>1. next = SplitPush(Opening(t), u)
        BY <1>4, <2>1
      <3>2. v = t \o u
        BY DEF v
      <3> QED BY <1>1, <1>12, <3>1, <3>2, OpeningPushed
    <2>3. <<>> \o ContentFed(start, v) = ContentFed(start, v)
      BY <1>3, EmptyText
    <2> QED BY <1>3, <1>12, <2>1, <2>2, <2>3 DEF Fits
  <1>13. ASSUME u # <<>>, start = "expect", ~IsPrefix(OpenTag, t), ~IsPrefix(t, OpenTag) PROVE Fits
    <2>1. FeedAt(start, t).sp = Plain /\ FeedAt(start, v).sp = Plain
      BY <1>10, <1>13 DEF FeedAt
    <2>2. ContentFed(start, t) = t /\ ContentFed(start, v) = v
      BY <1>10, <1>13 DEF ContentFed
    <2> QED BY <1>7, <1>13, <2>1, <2>2
  <1>14. Fits
    BY <1>5, <1>8, <1>9, <1>11, <1>12, <1>13 DEF Starts
  <1>15. TextOf(next.ev, FALSE) \in Seq(Char)
    BY <1>14, TextOfConcat DEF Fits
  <1> QED BY <1>2, <1>3, <1>14, <1>15 DEF v, Fits

-----------------------------------------------------------------------------
(* The gate, fed piece by piece.                                           *)

GateRec(shut, hold, streamed) == [closed |-> shut, hold |-> hold, streamed |-> streamed]
GateShut(n) == GateRec(TRUE, <<>>, n)
GateOpen(h, n) == GateRec(FALSE, h, n)

\* The gate fed the text t.
GateAt(t) ==
  LET p == Find(t, ToolOpen, 0)
  IN  IF p # NPos THEN GateShut(p) ELSE GateOpen(Drop(t, Past(t, ToolOpen)), Past(t, ToolOpen))

(* What a push makes of an open gate whose hold and piece are buf. *)
LEMMA GatePushed ==
  ASSUME NEW n, NEW h, NEW u, u # <<>>, NEW buf, buf = h \o u
  PROVE  GatePush(GateOpen(h, n), u) =
           IF Find(buf, ToolOpen, 0) # NPos THEN GateShut(n + Find(buf, ToolOpen, 0))
           ELSE GateOpen(Drop(buf, Past(buf, ToolOpen)), n + Past(buf, ToolOpen))
  <1> DEFINE no == FALSE
  <1> HIDE DEF no
  <1> DEFINE g == GateRec(no, h, n)
             d == Drop(buf, Past(buf, ToolOpen))
             k == Past(buf, ToolOpen)
             g1 == [g EXCEPT !.hold = d]
  <1>1. g.closed = no /\ g.hold = h /\ g.streamed = n
    BY DEF GateRec
  <1>2. g1 = GateRec(no, d, n)
    <2> HIDE DEF d
    <2> QED BY DEF GateRec
  <1>3. g1.streamed = n
    BY <1>2 DEF GateRec
  <1>4. [g1 EXCEPT !.streamed = n + k] = GateRec(no, d, n + k)
    <2> HIDE DEF d, k, g1
    <2> QED BY <1>2 DEF GateRec
  <1>5. ~g.closed
    BY <1>1 DEF no
  <1>6. GatePush(g, u) =
          IF Find(buf, ToolOpen, 0) # NPos
          THEN [closed |-> TRUE, hold |-> <<>>, streamed |-> n + Find(buf, ToolOpen, 0)]
          ELSE [g1 EXCEPT !.streamed = n + k]
    <2>1. g.hold \o u = buf
      BY <1>1
    <2> HIDE DEF g
    <2> QED BY <1>1, <1>5, <2>1 DEF GatePush, Past
  <1>7. [closed |-> TRUE, hold |-> <<>>, streamed |-> n + Find(buf, ToolOpen, 0)]
          = GateShut(n + Find(buf, ToolOpen, 0))
    BY DEF GateRec, GateShut
  <1>8. GateOpen(h, n) = g /\ GateOpen(d, n + k) = GateRec(no, d, n + k)
    <2> HIDE DEF d, k
    <2> QED BY DEF GateOpen, no
  <1> HIDE DEF g, d, k, g1
  <1>9. GatePush(GateOpen(h, n), u) = IF Find(buf, ToolOpen, 0) # NPos
                                      THEN GateShut(n + Find(buf, ToolOpen, 0))
                                      ELSE GateOpen(d, n + k)
    BY <1>4, <1>6, <1>7, <1>8
  <1> QED BY <1>9 DEF d, k

(* A closed gate lets nothing more through, and an empty piece is none. *)
LEMMA GateRests ==
  /\ \A n, u : GatePush(GateShut(n), u) = GateShut(n) /\ GateShut(n).streamed = n
  /\ \A n : GateFinish(GateShut(n)) = GateShut(n)
  /\ \A h, n : GateOpen(h, n).streamed = n
  /\ \A g : GatePush(g, <<>>) = g
  /\ Gate = GateOpen(<<>>, 0)
  <1>1. ASSUME NEW n, NEW u PROVE GatePush(GateShut(n), u) = GateShut(n) /\ GateShut(n).streamed = n
    <2>1. GateShut(n).closed /\ GateShut(n).streamed = n
      BY DEF GateRec, GateShut
    <2> QED BY <2>1 DEF GatePush
  <1>2. ASSUME NEW n PROVE GateFinish(GateShut(n)) = GateShut(n)
    <2>1. GateShut(n).closed
      BY DEF GateRec, GateShut
    <2> QED BY <2>1 DEF GateFinish
  <1>3. ASSUME NEW h, NEW n PROVE GateOpen(h, n).streamed = n
    BY DEF GateOpen, GateRec
  <1>4. ASSUME NEW g PROVE GatePush(g, <<>>) = g
    BY DEF GatePush
  <1>5. Gate = GateOpen(<<>>, 0)
    BY DEF Gate, GateOpen, GateRec
  <1> QED BY <1>1, <1>2, <1>3, <1>4, <1>5

(* The finished gate lets the hold out. *)
LEMMA GateFinished ==
  ASSUME NEW n, NEW h
  PROVE  GateFinish(GateOpen(h, n)) = GateOpen(<<>>, n + Len(h))
  <1> DEFINE no == FALSE
             e == <<>>
  <1> HIDE DEF no, e
  <1> DEFINE g == GateRec(no, h, n)
             g1 == [g EXCEPT !.hold = e]
  <1>1. g.closed = no /\ g.hold = h /\ g.streamed = n
    BY DEF GateRec
  <1>2. g1 = GateRec(no, e, n)
    BY DEF GateRec
  <1>3. g1.streamed = n
    BY <1>2 DEF GateRec
  <1>4. [g1 EXCEPT !.streamed = n + Len(h)] = GateRec(no, e, n + Len(h))
    <2> HIDE DEF g1
    <2> QED BY <1>2 DEF GateRec
  <1>5. GateFinish(g) = [g1 EXCEPT !.streamed = n + Len(h)]
    <2>1. ~g.closed
      BY <1>1 DEF no
    <2> HIDE DEF g
    <2> QED BY <1>1, <1>3, <2>1 DEF GateFinish, e
  <1>6. GateOpen(h, n) = g /\ GateOpen(<<>>, n + Len(h)) = GateRec(no, e, n + Len(h))
    BY DEF GateOpen, no, e
  <1> HIDE DEF g, g1
  <1> QED BY <1>4, <1>5, <1>6

(* Where a scan goes on. *)
LEMMA PastRange ==
  ASSUME NEW x \in Seq(Char), NEW tag \in Seq(Char), Len(tag) > 0
  PROVE  Past(x, tag) \in 0 .. Len(x) /\ Drop(x, Past(x, tag)) \in Seq(Char)
  <1>1. Past(x, tag) \in 0 .. Len(x)
    BY HeldBack DEF Past
  <1> QED BY <1>1, TextParts

(* From its start a text gets the gate there at once. *)
LEMMA GateAtOnce ==
  ASSUME NEW t \in Seq(Char), Len(t) < NPos
  PROVE  GatePush(Gate, t) = GateAt(t)
  <1> DEFINE p == Find(t, ToolOpen, 0)
             k == Past(t, ToolOpen)
  <1>1. Gate = GateOpen(<<>>, 0)
    BY GateRests
  <1>2. ToolOpen \in Seq(Char) /\ Len(ToolOpen) \in Nat \ {0} /\ Len(ToolOpen) > 0
    BY Tags
  <1>3. k \in 0 .. Len(t)
    BY <1>2, PastRange
  <1>4. FirstAt(t, ToolOpen, 0, p) /\ p \in Nat
    BY <1>2, Found
  <1>5. CASE t = <<>>
    <2>1. GatePush(Gate, t) = GateOpen(<<>>, 0)
      BY <1>1, <1>5, GateRests
    <2>2. Len(t) = 0
      BY <1>5
    <2>3. k = 0
      <3> HIDE DEF k
      <3> QED BY <1>3, <2>2
    <2>4. p = NPos
      <3> HIDE DEF p
      <3> QED BY <1>2, <1>4, <2>2 DEF FirstAt
    <2>5. Drop(t, k) = <<>>
      <3>1. 0 \in 0 .. Len(t)
        BY <2>2
      <3>2. Drop(t, 0) = t
        BY <3>1, CutInTwo
      <3> QED BY <1>5, <2>3, <3>2
    <2> QED BY <2>1, <2>3, <2>4, <2>5 DEF GateAt
  <1>6. CASE t # <<>>
    <2>1. t = <<>> \o t
      BY EmptyText
    <2>2. GatePush(GateOpen(<<>>, 0), t) = IF p # NPos THEN GateShut(0 + p)
                                           ELSE GateOpen(Drop(t, k), 0 + k)
      BY <1>6, <2>1, GatePushed
    <2>3. 0 + p = p /\ 0 + k = k
      <3> HIDE DEF p, k
      <3> QED BY <1>3, <1>4
    <2> QED BY <1>1, <2>2, <2>3 DEF GateAt
  <1> QED BY <1>5, <1>6

(* The gate fed a text and then its continuation is where it would be fed  *)
(* both at once: the tokens' ends do not change what it lets through.      *)
THEOREM GateResumes ==
  ASSUME NEW t \in Seq(Char), NEW u \in Seq(Char), Len(t) + Len(u) < NPos
  PROVE  GatePush(GatePush(Gate, t), u) = GatePush(Gate, t \o u)
  <1> DEFINE v == t \o u
             p == Find(t, ToolOpen, 0)
             seen == Past(t, ToolOpen)
             hold == Drop(t, seen)
             buf == Ahead(t, u, ToolOpen)
  <1>1. /\ v \in Seq(Char) /\ Len(v) = Len(t) + Len(u) /\ Len(t) \in Nat /\ Len(u) \in Nat
        /\ Len(v) < NPos /\ Len(t) < NPos
    <2>1. v \in Seq(Char) /\ Len(v) = Len(t) + Len(u) /\ Len(t) \in Nat /\ Len(u) \in Nat
      BY TextJoined
    <2> QED BY <2>1, NPosAssumption
  <1> HIDE DEF v
  <1>2. ToolOpen \in Seq(Char) /\ Len(ToolOpen) \in Nat \ {0} /\ Len(ToolOpen) > 0
    BY Tags
  <1>3. GatePush(Gate, t) = GateAt(t) /\ GatePush(Gate, v) = GateAt(v)
    BY <1>1, GateAtOnce
  <1>4. CASE u = <<>>
    <2>1. v = t
      BY <1>4, EmptyText DEF v
    <2>3. GatePush(GateAt(t), u) = GateAt(t)
      BY <1>4, GateRests
    <2> QED BY <1>3, <2>1, <2>3 DEF v
  <1>5. CASE p # NPos
    <2>1. Find(v, ToolOpen, 0) = p
      BY <1>1, <1>2, <1>5, FindKept DEF v
    <2>2. GateAt(t) = GateShut(p)
      BY <1>5 DEF GateAt
    <2>3. GateAt(v) = GateShut(p)
      <3> HIDE DEF p
      <3> QED BY <1>5, <2>1 DEF GateAt
    <2>4. GatePush(GateAt(t), u) = GateAt(t)
      <3> HIDE DEF p
      <3> QED BY <2>2, GateRests
    <2> QED BY <1>3, <2>2, <2>3, <2>4 DEF v
  <1>6. CASE u # <<>> /\ p = NPos
    <2>1. GateAt(t) = GateOpen(hold, seen)
      BY <1>6 DEF GateAt
    <2>2. hold \o u = buf
      BY DEF Ahead
    <2>3. Scanned(t, u, ToolOpen)
      BY <1>2, <1>6 DEF Scanned
    <2> HIDE DEF seen, buf
    <2>4. Resumed(t, u, ToolOpen, seen, buf)
      BY <1>2, <2>3, ScanResumes DEF seen, buf
    <2>5. /\ seen \in 0 .. Len(t) /\ buf \in Seq(Char) /\ Len(buf) = Len(v) - seen
          /\ Find(v, ToolOpen, 0) = IF Find(buf, ToolOpen, 0) = NPos THEN NPos
                                    ELSE seen + Find(buf, ToolOpen, 0)
          /\ LongestTagPrefixSuffix(v, ToolOpen) = LongestTagPrefixSuffix(buf, ToolOpen)
      BY <2>4 DEF Resumed, v
    <2>6. Drop(v, seen) = buf
      <3>1. Drop(t \o u, seen) = Drop(t, seen) \o u
        BY <2>5, DropOfJoin
      <3> QED BY <2>2, <3>1 DEF v
    <2> DEFINE q == Find(buf, ToolOpen, 0)
               k == Past(buf, ToolOpen)
    <2>7. GatePush(GateOpen(hold, seen), u) =
            IF q # NPos THEN GateShut(seen + q)
            ELSE GateOpen(Drop(buf, k), seen + k)
      BY <1>6, <2>2, GatePushed
    <2>8. k \in 0 .. Len(buf)
      BY <1>2, <2>5, PastRange
    <2>9. Past(v, ToolOpen) = seen + k /\ k \in 0 .. Len(v) - seen /\ seen \in 0 .. Len(v)
      <3> DEFINE l == LongestTagPrefixSuffix(buf, ToolOpen)
      <3>1. l \in 0 .. Len(buf)
        BY <1>2, <2>5, HeldBack
      <3>2. Past(v, ToolOpen) = Len(v) - l /\ k = Len(buf) - l
        BY <2>5 DEF Past
      <3> HIDE DEF l, k
      <3> QED BY <1>1, <2>5, <2>8, <3>1, <3>2
    <2>10. Drop(v, seen + k) = Drop(buf, k)
      <3> HIDE DEF k
      <3> QED BY <1>1, <2>6, <2>9, DropOfDrop
    <2>11. q # NPos => seen + q # NPos
      <3>1. q # NPos => q + Len(ToolOpen) <= Len(buf) /\ q \in Nat
        <4>1. Len(buf) < NPos
          <5>1. NPos \in Nat
            BY NPosAssumption
          <5> QED BY <1>1, <2>5, <5>1
        <4>2. FirstAt(buf, ToolOpen, 0, q) /\ q \in Nat
          BY <1>2, <2>5, <4>1, Found
        <4> HIDE DEF q
        <4> QED BY <4>2 DEF FirstAt
      <3> HIDE DEF q
      <3> QED BY <1>1, <1>2, <2>5, <3>1, NPosAssumption
    <2>12. GateAt(v) = IF q # NPos THEN GateShut(seen + q)
                       ELSE GateOpen(Drop(buf, k), seen + k)
      <3> DEFINE pv == Find(v, ToolOpen, 0)
                 kv == Past(v, ToolOpen)
      <3>1. GateAt(v) = IF pv # NPos THEN GateShut(pv)
                        ELSE GateOpen(Drop(v, kv), kv)
        BY DEF GateAt
      <3>2. pv = IF q = NPos THEN NPos ELSE seen + q
        BY <2>5
      <3>3. kv = seen + k
        BY <2>9
      <3> HIDE DEF pv, kv, q, k
      <3> QED BY <2>10, <2>11, <3>1, <3>2, <3>3
    <2> HIDE DEF q, k, hold
    <2> QED BY <1>3, <2>1, <2>7, <2>12 DEF v
  <1> QED BY <1>4, <1>5, <1>6

\* How much of the fed text t the gate lets through before it is finished and
\* after.
LetThrough(t) == GatePush(Gate, t).streamed
LetOut(t) == GateFinish(GatePush(Gate, t)).streamed

(* The gate lets no byte of an opener through, not even of one that only   *)
(* what follows completes, and the more it is fed the more it lets through.*)
THEOREM GateIsSafe ==
  ASSUME NEW t \in Seq(Char), NEW u \in Seq(Char), Len(t) + Len(u) < NPos
  PROVE  /\ LetThrough(t) \in 0 .. Len(t) /\ LetOut(t) \in LetThrough(t) .. Len(t)
         /\ Find(t \o u, ToolOpen, 0) # NPos => LetThrough(t) <= Find(t \o u, ToolOpen, 0)
         /\ Find(t, ToolOpen, 0) # NPos => LetOut(t) = Find(t, ToolOpen, 0)
         /\ LetThrough(t) <= LetThrough(t \o u)
  <1> DEFINE v == t \o u
             p == Find(t, ToolOpen, 0)
             pv == Find(v, ToolOpen, 0)
             seen == Past(t, ToolOpen)
             buf == Ahead(t, u, ToolOpen)
  <1>1. /\ v \in Seq(Char) /\ Len(v) = Len(t) + Len(u) /\ Len(t) \in Nat /\ Len(u) \in Nat
        /\ Len(v) < NPos /\ Len(t) < NPos
    <2>1. v \in Seq(Char) /\ Len(v) = Len(t) + Len(u) /\ Len(t) \in Nat /\ Len(u) \in Nat
      BY TextJoined
    <2> QED BY <2>1, NPosAssumption
  <1>2. ToolOpen \in Seq(Char) /\ Len(ToolOpen) \in Nat \ {0} /\ Len(ToolOpen) > 0
    BY Tags
  <1> HIDE DEF v
  <1>3. GatePush(Gate, t) = GateAt(t) /\ GatePush(Gate, v) = GateAt(v)
    BY <1>1, GateAtOnce
  <1>4. seen \in 0 .. Len(t) /\ Drop(t, seen) \in Seq(Char) /\ Len(Drop(t, seen)) = Len(t) - seen
    BY <1>2, PastRange, TextParts
  <1>5. p \in Nat /\ pv \in Nat
    BY <1>1, <1>2, Found
  <1>6. CASE p # NPos
    <2>1. pv = p /\ p \in 0 .. Len(t)
      <3>1. pv = p /\ p \in 0 .. Len(t) - Len(ToolOpen)
        BY <1>1, <1>2, <1>6, FindKept DEF v
      <3> HIDE DEF p
      <3> QED BY <1>1, <1>2, <3>1
    <2>2. GateAt(t) = GateShut(p)
      BY <1>6 DEF GateAt
    <2>3. GateAt(v) = GateShut(p)
      <3> HIDE DEF p
      <3> QED BY <1>6, <2>1 DEF GateAt
    <2> HIDE DEF p, pv
    <2>4. LetThrough(t) = p /\ LetThrough(v) = p
      BY <1>3, <2>2, <2>3, GateRests DEF LetThrough
    <2>5. LetOut(t) = p
      BY <1>3, <2>2, GateRests DEF LetOut
    <2>6. p <= p /\ p \in p .. Len(t)
      BY <1>1, <2>1
    <2> QED BY <2>1, <2>4, <2>5, <2>6 DEF v, p, pv
  <1>7. CASE p = NPos
    <2> DEFINE hold == Drop(t, seen)
    <2>1. GateAt(t) = GateOpen(hold, seen)
      BY <1>7 DEF GateAt
    <2> HIDE DEF seen, buf, hold
    <2>2. LetThrough(t) = seen
      BY <1>3, <2>1, GateRests DEF LetThrough
    <2>3. LetOut(t) = Len(t)
      <3>1. GatePush(Gate, t) = GateOpen(hold, seen)
        BY <1>3, <2>1
      <3>2. GateFinish(GateOpen(hold, seen)) = GateOpen(<<>>, seen + Len(hold))
        BY GateFinished
      <3>3. seen + Len(hold) = Len(t)
        BY <1>1, <1>4 DEF hold, seen
      <3> QED BY <3>1, <3>2, <3>3, GateRests DEF LetOut
    <2>4. Resumed(t, u, ToolOpen, seen, buf)
      <3>1. Scanned(t, u, ToolOpen)
        BY <1>2, <1>7 DEF Scanned
      <3> QED BY <1>2, <3>1, ScanResumes DEF seen, buf
    <2>5. /\ buf \in Seq(Char) /\ Len(buf) = Len(v) - seen
          /\ pv = IF Find(buf, ToolOpen, 0) = NPos THEN NPos ELSE seen + Find(buf, ToolOpen, 0)
          /\ LongestTagPrefixSuffix(v, ToolOpen) = LongestTagPrefixSuffix(buf, ToolOpen)
      BY <2>4 DEF Resumed, v
    <2>6. Len(buf) < NPos /\ Len(buf) \in Nat
      <3>1. NPos \in Nat
        BY NPosAssumption
      <3> QED BY <1>1, <1>4, <2>5, <3>1
    <2>7. Find(buf, ToolOpen, 0) \in Nat
      BY <1>2, <2>5, <2>6, Found
    <2>8. pv # NPos => seen <= pv
      <3> DEFINE q == Find(buf, ToolOpen, 0)
      <3> HIDE DEF q, pv
      <3> QED BY <1>4, <2>5, <2>7 DEF q
    <2>9. seen <= LetThrough(v)
      <3>1. CASE pv # NPos
        <4>1. GateAt(v) = GateShut(pv)
          BY <3>1 DEF GateAt
        <4> HIDE DEF pv
        <4>2. LetThrough(v) = pv
          BY <1>3, <4>1, GateRests DEF LetThrough
        <4> QED BY <2>8, <3>1, <4>2
      <3>2. CASE pv = NPos
        <4> DEFINE kv == Past(v, ToolOpen)
                   l == LongestTagPrefixSuffix(buf, ToolOpen)
        <4>1. GateAt(v) = GateOpen(Drop(v, kv), kv)
          BY <3>2 DEF GateAt
        <4>2. LetThrough(v) = kv
          <5> HIDE DEF kv
          <5> QED BY <1>3, <4>1, GateRests DEF LetThrough
        <4>3. l \in 0 .. Len(buf)
          BY <1>2, <2>5, HeldBack
        <4>4. kv = Len(v) - l
          BY <2>5 DEF Past
        <4> HIDE DEF kv, l
        <4> QED BY <1>1, <1>4, <2>5, <2>6, <4>2, <4>3, <4>4
      <3> QED BY <3>1, <3>2
    <2>10. Len(t) \in seen .. Len(t)
      BY <1>1, <1>4
    <2> QED BY <1>4, <1>7, <2>2, <2>3, <2>8, <2>9, <2>10 DEF v, seen
  <1> QED BY <1>6, <1>7

-----------------------------------------------------------------------------
(* Where the answer begins.                                                *)

(* Looking in the rest of a text. *)
LEMMA FindInDrop ==
  ASSUME NEW s \in Seq(Char), NEW t \in Seq(Char), NEW n \in 0 .. Len(s), Len(s) < NPos,
         NEW q, q = Find(Drop(s, n), t, 0)
  PROVE  Find(s, t, n) = IF q = NPos THEN NPos ELSE n + q
  <1> DEFINE d == Drop(s, n)
  <1>1. /\ d \in Seq(Char) /\ Len(d) = Len(s) - n /\ Len(s) \in Nat /\ n \in Nat /\ n <= Len(s)
        /\ \A i \in 1 .. Len(s) - n : d[i] = s[n + i]
    BY TextParts
  <1>2. q = Find(d, t, 0)
    OBVIOUS
  <1> HIDE DEF d
  <1>3. Len(d) < NPos /\ Len(d) \in Nat /\ NPos \in Nat /\ Len(t) \in Nat
    BY <1>1, LenProperties, NPosAssumption
  <1>4. FirstAt(d, t, 0, q) /\ q \in Nat
    BY <1>1, <1>2, <1>3, Found
  <1>5. ASSUME NEW p \in Nat PROVE OccursAt(d, t, p) <=> OccursAt(s, t, n + p)
    <2>1. p + Len(t) <= Len(d) <=> (n + p) + Len(t) <= Len(s)
      BY <1>1, <1>3
    <2>2. ASSUME p + Len(t) <= Len(d), NEW i \in 1 .. Len(t) PROVE d[p + i] = s[(n + p) + i]
      <3>1. p + i \in 1 .. Len(s) - n /\ n + (p + i) = (n + p) + i
        BY <1>1, <1>3, <2>2
      <3> QED BY <1>1, <3>1
    <2> QED BY <2>1, <2>2 DEF OccursAt
  <1>6. ASSUME NEW p \in Nat, p >= n PROVE p - n \in Nat /\ n + (p - n) = p
    BY <1>1, <1>6
  <1>7. CASE q = NPos
    <2>1. \A p \in Nat : p >= n => ~OccursAt(s, t, p)
      <3>1. SUFFICES ASSUME NEW p \in Nat, p >= n, OccursAt(s, t, p) PROVE FALSE
        OBVIOUS
      <3>2. OccursAt(d, t, p - n)
        BY <1>5, <1>6, <3>1
      <3>3. p - n >= 0
        BY <1>6, <3>1
      <3> QED BY <1>4, <1>6, <1>7, <3>1, <3>2, <3>3 DEF FirstAt
    <2>2. FirstAt(s, t, n, NPos)
      BY <2>1 DEF FirstAt
    <2>3. Find(s, t, n) = NPos
      BY <1>1, <1>3, <2>2, FirstIsFound
    <2> QED BY <1>7, <2>3
  <1>8. CASE q # NPos
    <2>1. /\ q \in Nat /\ q >= 0 /\ q < NPos /\ q + Len(t) <= Len(d) /\ OccursAt(d, t, q)
          /\ \A p \in Nat : p >= 0 /\ OccursAt(d, t, p) => q <= p
      BY <1>4, <1>8 DEF FirstAt
    <2>2. n + q \in Nat /\ n + q >= n /\ n + q < NPos /\ (n + q) + Len(t) <= Len(s)
      BY <1>1, <1>3, <2>1
    <2>3. OccursAt(s, t, n + q)
      BY <1>5, <2>1
    <2>4. ASSUME NEW p \in Nat, p >= n, OccursAt(s, t, p) PROVE n + q <= p
      <3>1. OccursAt(d, t, p - n) /\ p - n >= 0
        BY <1>5, <1>6, <2>4
      <3>2. q <= p - n
        BY <1>6, <2>1, <2>4, <3>1
      <3> QED BY <1>1, <2>1, <3>2
    <2>5. FirstAt(s, t, n, n + q)
      BY <2>2, <2>3, <2>4 DEF FirstAt
    <2>6. Find(s, t, n) = n + q
      BY <1>1, <1>3, <2>2, <2>5, FirstIsFound
    <2> QED BY <1>8, <2>6
  <1> QED BY <1>7, <1>8

(* Behind an opening tag a search for the closing one may start at the     *)
(* text's begin as well.                                                   *)
LEMMA FindBehindOpen ==
  ASSUME NEW s \in Seq(Char), Len(s) < NPos, IsPrefix(OpenTag, s)
  PROVE  Find(s, CloseTag, 0) = Find(s, CloseTag, Len(OpenTag))
  <1> DEFINE n == Len(OpenTag)
             p == Find(s, CloseTag, n)
  <1>1. /\ OpenTag \in Seq(Char) /\ CloseTag \in Seq(Char) /\ n \in Nat /\ Len(s) \in Nat
        /\ NPos \in Nat /\ Len(CloseTag) \in Nat
    BY Tags, LenProperties, NPosAssumption
  <1>2. n <= Len(s) /\ \A i \in 1 .. n : OpenTag[i] = s[i]
    BY <1>1, PrefixPointwise
  <1>3. FirstAt(s, CloseTag, n, p) /\ p \in Nat
    BY <1>1, Found
  <1>4. ASSUME NEW q \in Nat, OccursAt(s, CloseTag, q) PROVE q >= n
    <2>1. SUFFICES ASSUME q < n PROVE FALSE
      BY <1>1
    <2>2. q \in 0 .. Len(OpenTag) - 1
      BY <1>1, <2>1
    <2>3. PICK i \in 1 .. Len(CloseTag) : q + i <= Len(OpenTag) /\ OpenTag[q + i] # CloseTag[i]
      BY <2>2, TagsAssumption
    <2>4. q + i \in 1 .. n
      BY <2>2, <2>3
    <2>5. s[q + i] = CloseTag[i]
      BY <1>4 DEF OccursAt
    <2> QED BY <1>2, <2>3, <2>4, <2>5
  <1> HIDE DEF n, p
  <1>5. FirstAt(s, CloseTag, 0, p)
    <2>1. CASE p = NPos
      <3>1. \A q \in Nat : q >= n => ~OccursAt(s, CloseTag, q)
        BY <1>3, <2>1 DEF FirstAt
      <3> QED BY <1>4, <2>1, <3>1 DEF FirstAt
    <2>2. CASE p # NPos
      <3>1. /\ p >= 0 /\ p < NPos /\ p + Len(CloseTag) <= Len(s) /\ OccursAt(s, CloseTag, p)
            /\ \A q \in Nat : q >= n /\ OccursAt(s, CloseTag, q) => p <= q
        BY <1>3, <2>2 DEF FirstAt
      <3> QED BY <1>3, <1>4, <3>1 DEF FirstAt
    <2> QED BY <2>1, <2>2
  <1>6. Find(s, CloseTag, 0) = p
    BY <1>1, <1>3, <1>5, FirstIsFound
  <1> QED BY <1>6 DEF p, n

\* The reasoning's first character, once it is sure there is reasoning.
Skip(start) == IF start = "expect" THEN Len(OpenTag) ELSE 0
Inside(start, t) == start = "reasoning" \/ (start = "expect" /\ IsPrefix(OpenTag, t))
Undecided(start, t) == start = "expect" /\ ~IsPrefix(OpenTag, t) /\ IsPrefix(t, OpenTag)

LocRec(state, end, byTag) == [state |-> state, end |-> end, byTag |-> byTag]
Searching(state) == LocRec(state, NPos, FALSE)
BeginsAtOnce == LocRec("answer", 0, FALSE)
BeginsBehind(end) == LocRec("answer", end, TRUE)

\* The locator shown the text t.
LocAt(start, t) ==
  LET p == Find(t, CloseTag, Skip(start))
  IN  IF Inside(start, t)
      THEN IF p = NPos THEN Searching("reasoning") ELSE BeginsBehind(p + Len(CloseTag))
      ELSE IF Undecided(start, t) THEN Searching("expect") ELSE BeginsAtOnce

(* Its fields. *)
LEMMA LocFields ==
  /\ \A s : Searching(s).state = s /\ Searching(s).end = NPos /\ ~Searching(s).byTag
  /\ BeginsAtOnce.state = "answer" /\ BeginsAtOnce.end = 0 /\ ~BeginsAtOnce.byTag
  /\ \A e : BeginsBehind(e).state = "answer" /\ BeginsBehind(e).end = e /\ BeginsBehind(e).byTag
  /\ Locator("answer") = BeginsAtOnce /\ Locator("expect") = Searching("expect")
  /\ Locator("reasoning") = Searching("reasoning")
  <1>1. ASSUME NEW s PROVE Searching(s).state = s /\ Searching(s).end = NPos /\ ~Searching(s).byTag
    BY DEF Searching, LocRec
  <1>2. BeginsAtOnce.state = "answer" /\ BeginsAtOnce.end = 0 /\ ~BeginsAtOnce.byTag
    BY DEF BeginsAtOnce, LocRec
  <1>3. ASSUME NEW e
        PROVE BeginsBehind(e).state = "answer" /\ BeginsBehind(e).end = e /\ BeginsBehind(e).byTag
    BY DEF BeginsBehind, LocRec
  <1>4. /\ Locator("answer") = BeginsAtOnce /\ Locator("expect") = Searching("expect")
        /\ Locator("reasoning") = Searching("reasoning")
    BY DEF Locator, Searching, BeginsAtOnce, LocRec
  <1> QED BY <1>1, <1>2, <1>3, <1>4

(* A look at a text from a locator that searches. *)
LEMMA LocatorLooks ==
  ASSUME NEW state \in {"expect", "reasoning"}, NEW t,
         NEW p, p = Find(t, CloseTag, Skip(state))
  PROVE  LocatorUpdate(Searching(state), t) =
           IF Inside(state, t)
           THEN IF p = NPos THEN Searching("reasoning") ELSE BeginsBehind(p + Len(CloseTag))
           ELSE IF Undecided(state, t) THEN Searching("expect") ELSE BeginsAtOnce
  <1> DEFINE loc == Searching(state)
             moved == [loc EXCEPT !.state = "reasoning"]
  <1>1. loc.state = state
    BY LocFields
  <1>2. moved = Searching("reasoning")
    <2> DEFINE no == FALSE
               n == NPos
               rea == "reasoning"
    <2> HIDE DEF no, n, rea
    <2>1. loc = LocRec(state, n, no)
      BY DEF Searching, no, n
    <2> HIDE DEF loc
    <2>2. [loc EXCEPT !.state = rea] = LocRec(rea, n, no)
      BY <2>1 DEF LocRec
    <2>3. Searching("reasoning") = LocRec(rea, n, no)
      BY DEF Searching, no, n, rea
    <2> QED BY <2>2, <2>3 DEF rea
  <1>3. (IF state = "expect" THEN Len(OpenTag) ELSE 0) = Skip(state)
    BY DEF Skip
  <1>4. LocatorUpdate(loc, t) =
          IF ~(state = "expect") \/ IsPrefix(OpenTag, t)
          THEN IF p = NPos THEN moved
               ELSE [state |-> "answer", end |-> p + Len(CloseTag), byTag |-> TRUE]
          ELSE IF IsPrefix(t, OpenTag) THEN loc
          ELSE [state |-> "answer", end |-> 0, byTag |-> FALSE]
    <2>1. ~(loc.state = "answer")
      BY <1>1
    <2> HIDE DEF loc
    <2> QED BY <1>1, <1>3, <2>1 DEF LocatorUpdate
  <1>5. /\ [state |-> "answer", end |-> p + Len(CloseTag), byTag |-> TRUE] = BeginsBehind(p + Len(CloseTag))
        /\ [state |-> "answer", end |-> 0, byTag |-> FALSE] = BeginsAtOnce
    BY DEF BeginsBehind, BeginsAtOnce, LocRec
  <1>6. /\ Inside(state, t) <=> ~(state = "expect") \/ IsPrefix(OpenTag, t)
        /\ ~Inside(state, t) => (Undecided(state, t) <=> IsPrefix(t, OpenTag)) /\ state = "expect"
    BY DEF Inside, Undecided
  <1> HIDE DEF moved
  <1>7. CASE Inside(state, t)
    BY <1>2, <1>4, <1>5, <1>6, <1>7
  <1>8. CASE ~Inside(state, t)
    BY <1>4, <1>5, <1>6, <1>8
  <1> QED BY <1>7, <1>8

(* From the start of a generation the locator gets there at once. *)
LEMMA LocAtOnce ==
  ASSUME NEW start \in Starts, NEW t
  PROVE  LocatorUpdate(Locator(start), t) = LocAt(start, t)
  <1>1. CASE start = "answer"
    <2>1. LocatorUpdate(BeginsAtOnce, t) = BeginsAtOnce
      BY LocFields DEF LocatorUpdate
    <2>2. LocAt(start, t) = BeginsAtOnce
      BY <1>1 DEF LocAt, Inside, Undecided
    <2> QED BY <1>1, <2>1, <2>2, LocFields
  <1>2. CASE start # "answer"
    <2>1. start \in {"expect", "reasoning"} /\ Locator(start) = Searching(start)
      BY <1>2, LocFields DEF Starts
    <2> QED BY <2>1, LocatorLooks DEF LocAt
  <1> QED BY <1>1, <1>2

(* A locator shown a text and then a longer one is where it would be shown *)
(* the longer one at once: the answer begins at one place however the      *)
(* decoder's pieces cut the tags.                                          *)
THEOREM LocatorResumes ==
  ASSUME NEW start \in Starts, NEW t \in Seq(Char), NEW u \in Seq(Char), Len(t) + Len(u) < NPos
  PROVE  LocatorUpdate(LocatorUpdate(Locator(start), t), t \o u) = LocatorUpdate(Locator(start), t \o u)
  <1> DEFINE v == t \o u
             n == Skip(start)
             p == Find(t, CloseTag, n)
  <1>1. /\ v \in Seq(Char) /\ Len(v) < NPos /\ Len(t) < NPos
    <2>1. v \in Seq(Char) /\ Len(v) = Len(t) + Len(u) /\ Len(t) \in Nat /\ Len(u) \in Nat
      BY TextJoined
    <2> QED BY <2>1, NPosAssumption
  <1>2. /\ IsPrefix(OpenTag, t) => IsPrefix(OpenTag, v)
        /\ IsPrefix(v, OpenTag) => IsPrefix(t, OpenTag)
        /\ IsPrefix(OpenTag, v) => IsPrefix(OpenTag, t) \/ IsPrefix(t, OpenTag)
    BY PrefixOfJoin, Tags
  <1>3. n \in Nat
    BY Tags DEF Skip
  <1>4. p # NPos => Find(v, CloseTag, n) = p
    <2> HIDE DEF n
    <2> QED BY <1>3, FindKept, Tags
  <1> HIDE DEF v
  <1>5. LocatorUpdate(Locator(start), t) = LocAt(start, t) /\ LocatorUpdate(Locator(start), v) = LocAt(start, v)
    BY LocAtOnce
  <1>6. \A loc : loc.state = "answer" => LocatorUpdate(loc, v) = loc
    BY DEF LocatorUpdate
  <1>7. CASE Inside(start, t) /\ p # NPos
    <2>1. LocAt(start, t) = BeginsBehind(p + Len(CloseTag))
      BY <1>7 DEF LocAt
    <2>2. Inside(start, v)
      BY <1>2, <1>7 DEF Inside
    <2>3. LocAt(start, v) = BeginsBehind(p + Len(CloseTag))
      BY <1>4, <1>7, <2>2 DEF LocAt
    <2> QED BY <1>5, <1>6, <2>1, <2>3, LocFields DEF v
  <1>8. CASE Inside(start, t) /\ p = NPos
    <2>1. LocAt(start, t) = Searching("reasoning")
      BY <1>8 DEF LocAt
    <2>2. Inside(start, v)
      BY <1>2, <1>8 DEF Inside
    <2> DEFINE q == Find(v, CloseTag, 0)
    <2>3. Find(v, CloseTag, n) = q
      <3>1. CASE start = "reasoning"
        BY <3>1 DEF Skip
      <3>2. CASE start = "expect" /\ IsPrefix(OpenTag, v)
        BY <1>1, <3>2, FindBehindOpen DEF Skip
      <3> QED BY <2>2, <3>1, <3>2 DEF Inside
    <2>4. LocAt(start, v) = IF q = NPos THEN Searching("reasoning") ELSE BeginsBehind(q + Len(CloseTag))
      <3>1. LocAt(start, v) = LET z == Find(v, CloseTag, n) IN
                              IF z = NPos THEN Searching("reasoning") ELSE BeginsBehind(z + Len(CloseTag))
        BY <2>2 DEF LocAt
      <3> HIDE DEF q, n
      <3> QED BY <2>3, <3>1
    <2>5. LocatorUpdate(Searching("reasoning"), v) =
            IF q = NPos THEN Searching("reasoning") ELSE BeginsBehind(q + Len(CloseTag))
      <3>1. Skip("reasoning") = 0 /\ Inside("reasoning", v)
        BY DEF Skip, Inside
      <3>2. q = Find(v, CloseTag, Skip("reasoning"))
        BY <3>1
      <3> HIDE DEF q
      <3> QED BY <3>1, <3>2, LocatorLooks
    <2> QED BY <1>5, <2>1, <2>4, <2>5 DEF v
  <1>9. CASE ~Inside(start, t) /\ Undecided(start, t)
    <2>1. LocAt(start, t) = Searching("expect")
      BY <1>9 DEF LocAt
    <2>2. start = "expect"
      BY <1>9 DEF Undecided
    <2>3. Locator(start) = Searching("expect")
      BY <2>2, LocFields
    <2> QED BY <1>5, <2>1, <2>3 DEF v
  <1>10. CASE ~Inside(start, t) /\ ~Undecided(start, t)
    <2>1. LocAt(start, t) = BeginsAtOnce
      BY <1>10 DEF LocAt
    <2>2. ~Inside(start, v) /\ ~Undecided(start, v)
      BY <1>2, <1>10 DEF Inside, Undecided
    <2>3. LocAt(start, v) = BeginsAtOnce
      BY <2>2 DEF LocAt
    <2> QED BY <1>5, <1>6, <2>1, <2>3, LocFields DEF v
  <1> QED BY <1>7, <1>8, <1>9, <1>10

(* What the splitter has let through, by where the tags are. *)
LEMMA ContentPlaces ==
  ASSUME NEW start \in Starts, NEW t \in Seq(Char), Len(t) < NPos,
         NEW p, p = Find(t, CloseTag, Skip(start)), NEW e, e = p + Len(CloseTag)
  PROVE  /\ Inside(start, t) /\ p = NPos => ContentFed(start, t) = <<>>
         /\ Inside(start, t) /\ p # NPos =>
              /\ e \in 0 .. Len(t) /\ Drop(t, e) \in Seq(Char)
              /\ ContentFed(start, t) = Drop(t, e + LeadingBlanks(Drop(t, e)))
         /\ Inside(start, t) =>
              \A r : r.start = start => AnswerOf(r, t) = ContentFed(start, t)
         /\ Undecided(start, t) => ContentFed(start, t) = <<>>
         /\ ~Inside(start, t) /\ ~Undecided(start, t) => ContentFed(start, t) = t
         /\ ~Inside(start, t) => \A r : r.start = start => AnswerOf(r, t) = t
  <1> DEFINE n == Skip(start)
             b == Drop(t, n)
             q == Find(b, CloseTag, 0)
             after == Drop(b, q + Len(CloseTag))
  <1>1. Undecided(start, t) => ContentFed(start, t) = <<>>
    BY DEF Undecided, ContentFed
  <1>2. ~Inside(start, t) /\ ~Undecided(start, t) => ContentFed(start, t) = t
    BY DEF Undecided, Inside, ContentFed
  <1>3. ASSUME ~Inside(start, t), NEW r, r.start = start PROVE AnswerOf(r, t) = t
    <2>1. start = "answer" \/ (start = "expect" /\ ~IsPrefix(OpenTag, t))
      BY <1>3 DEF Inside, Starts
    <2> QED BY <1>3, <2>1 DEF AnswerOf
  <1>4. ASSUME Inside(start, t)
        PROVE  /\ p = NPos => ContentFed(start, t) = <<>>
               /\ p # NPos =>
                    /\ e \in 0 .. Len(t) /\ Drop(t, e) \in Seq(Char)
                    /\ ContentFed(start, t) = Drop(t, e + LeadingBlanks(Drop(t, e)))
               /\ \A r : r.start = start => AnswerOf(r, t) = ContentFed(start, t)
    <2>1. n \in 0 .. Len(t) /\ b \in Seq(Char) /\ Len(b) = Len(t) - n
      <3>1. CASE start = "expect" /\ IsPrefix(OpenTag, t)
        <4>1. n = Len(OpenTag)
          BY <3>1 DEF Skip
        <4> HIDE DEF n
        <4> QED BY <3>1, <4>1, BehindTag, Tags
      <3>2. CASE start = "reasoning"
        <4>1. n = 0 /\ Len(t) \in Nat
          BY <3>2, LenProperties DEF Skip
        <4> HIDE DEF n
        <4>2. n \in 0 .. Len(t)
          BY <4>1
        <4> QED BY <4>2, TextParts
      <3> QED BY <1>4, <3>1, <3>2 DEF Inside
    <2>2. ContentFed(start, t) = ContentAt(b)
      <3>1. CASE start = "expect" /\ IsPrefix(OpenTag, t)
        BY <3>1 DEF ContentFed, Skip
      <3>2. CASE start = "reasoning"
        <4>1. n = 0
          BY <3>2 DEF Skip
        <4>2. b = t
          <5>1. Drop(t, 0) = t
            <6>1. 0 \in 0 .. Len(t)
              BY LenProperties
            <6> QED BY <6>1, CutInTwo
          <5> QED BY <4>1, <5>1
        <4> QED BY <3>2, <4>2 DEF ContentFed
      <3> QED BY <1>4, <3>1, <3>2 DEF Inside
    <2>3. ContentAt(b) = IF q = NPos THEN <<>> ELSE Drop(after, LeadingBlanks(after))
      BY DEF ContentAt
    <2>4. p = IF q = NPos THEN NPos ELSE n + q
      <3>1. q = Find(Drop(t, n), CloseTag, 0) /\ p = Find(t, CloseTag, n) /\ CloseTag \in Seq(Char)
        BY Tags
      <3> HIDE DEF n, q, b
      <3>2. Find(t, CloseTag, n) = IF q = NPos THEN NPos ELSE n + q
        BY <2>1, <3>1, FindInDrop
      <3> QED BY <3>1, <3>2
    <2>5. ASSUME NEW r, r.start = start PROVE AnswerOf(r, t) = ContentFed(start, t)
      <3>1. AnswerOf(r, t) = IF q = NPos THEN <<>> ELSE Drop(after, LeadingBlanks(after))
        <4>1. CASE start = "expect" /\ IsPrefix(OpenTag, t)
          BY <2>5, <4>1 DEF AnswerOf, Skip
        <4>2. CASE start = "reasoning"
          <5>1. n = 0
            BY <4>2 DEF Skip
          <5>2. b = t
            <6>1. Drop(t, 0) = t
              <7>1. 0 \in 0 .. Len(t)
                BY LenProperties
              <7> QED BY <7>1, CutInTwo
            <6> QED BY <5>1, <6>1
          <5> QED BY <2>5, <4>2, <5>2 DEF AnswerOf
        <4> QED BY <1>4, <4>1, <4>2 DEF Inside
      <3> QED BY <2>2, <2>3, <3>1
    <2>6. CASE q = NPos
      BY <2>2, <2>3, <2>4, <2>5, <2>6
    <2>7. CASE q # NPos
      <3> DEFINE z == q + Len(CloseTag)
      <3>1. q \in Nat /\ z \in 0 .. Len(b) /\ Len(b) < NPos /\ q < NPos
        <4>1. Len(b) \in Nat /\ Len(b) <= Len(t) /\ NPos \in Nat /\ Len(b) < NPos /\ Len(CloseTag) \in Nat
          <5> HIDE DEF b, n
          <5> QED BY <2>1, LenProperties, Tags, NPosAssumption
        <4>2. FirstAt(b, CloseTag, 0, q) /\ q \in Nat
          BY <2>1, <4>1, Found, Tags
        <4> HIDE DEF q, b
        <4> QED BY <2>7, <4>1, <4>2 DEF FirstAt
      <3>2. p = n + q /\ e = n + z /\ e \in 0 .. Len(t) /\ z \in 0 .. Len(t) - n /\ p # NPos
        <4>1. p = n + q /\ n \in Nat /\ Len(CloseTag) \in Nat /\ Len(t) \in Nat /\ NPos \in Nat
          BY <2>1, <2>4, <2>7, Tags, LenProperties, NPosAssumption
        <4>2. Len(CloseTag) # 0
          BY Tags
        <4> HIDE DEF q, n, b
        <4> QED BY <2>1, <3>1, <4>1, <4>2
      <3> HIDE DEF z
      <3>3. after = Drop(t, e) /\ Drop(t, e) \in Seq(Char) /\ Len(Drop(t, e)) = Len(t) - e
        <4>1. Drop(Drop(t, n), z) = Drop(t, n + z)
          <5> HIDE DEF n
          <5> QED BY <2>1, <3>2, DropOfDrop
        <4>2. after = Drop(b, z)
          BY DEF z
        <4> HIDE DEF after
        <4>3. after = Drop(t, e)
          BY <3>2, <4>1, <4>2
        <4> QED BY <3>2, <4>3, TextParts
      <3> DEFINE d == Drop(t, e)
                 k == LeadingBlanks(d)
      <3>4. k \in 0 .. Len(d)
        BY <3>3, Blanks
      <3>5. Drop(d, k) = Drop(t, e + k)
        <4>1. k \in 0 .. Len(t) - e
          <5> HIDE DEF k
          <5> QED BY <3>3, <3>4
        <4> HIDE DEF k
        <4> QED BY <3>2, <4>1, DropOfDrop
      <3>6. ContentFed(start, t) = Drop(d, k)
        <4> HIDE DEF q
        <4> QED BY <2>2, <2>3, <2>7, <3>3
      <3> HIDE DEF q
      <3> QED BY <2>5, <3>2, <3>3, <3>5, <3>6
    <2> QED BY <2>6, <2>7
  <1> QED BY <1>1, <1>2, <1>3, <1>4

(* Before the closing tag is complete nothing is let through, *)
LEMMA NothingYet ==
  ASSUME NEW start \in Starts, NEW w \in Seq(Char), NEW u \in Seq(Char), Len(w) + Len(u) < NPos,
         NEW t, t = w \o u, NEW p, p = Find(t, CloseTag, Skip(start)),
         Undecided(start, t) \/ (Inside(start, t) /\ (p = NPos \/ p + Len(CloseTag) > Len(w)))
  PROVE  ContentFed(start, w) = <<>>
  <1>1. /\ t \in Seq(Char) /\ Len(t) = Len(w) + Len(u) /\ Len(w) \in Nat /\ Len(u) \in Nat
        /\ Len(t) < NPos /\ Len(w) < NPos
    <2>1. t \in Seq(Char) /\ Len(t) = Len(w) + Len(u) /\ Len(w) \in Nat /\ Len(u) \in Nat
      BY TextJoined
    <2> QED BY <2>1, NPosAssumption
  <1>2. /\ IsPrefix(OpenTag, w) => IsPrefix(OpenTag, t)
        /\ IsPrefix(t, OpenTag) => IsPrefix(w, OpenTag)
        /\ IsPrefix(OpenTag, t) => IsPrefix(OpenTag, w) \/ IsPrefix(w, OpenTag)
    BY PrefixOfJoin, Tags
  <1> DEFINE n == Skip(start)
             q == Find(w, CloseTag, n)
  <1>3. CASE Inside(start, w)
    <2>1. Inside(start, t) /\ ~Undecided(start, t)
      BY <1>2, <1>3 DEF Inside, Undecided
    <2>2. q = NPos
      <3>1. SUFFICES ASSUME q # NPos PROVE FALSE
        OBVIOUS
      <3>2. n \in Nat
        BY Tags DEF Skip
      <3>3. Find(t, CloseTag, n) = q /\ q \in n .. Len(w) - Len(CloseTag) /\ q + Len(CloseTag) \in 0 .. Len(w)
        <4> HIDE DEF n
        <4> QED BY <3>1, <3>2, FindKept, Tags
      <3>4. p = q /\ (p = NPos \/ p + Len(CloseTag) > Len(w))
        BY <2>1, <3>3
      <3> HIDE DEF q
      <3> QED BY <1>1, <3>1, <3>3, <3>4
    <2> QED BY <1>1, <1>3, <2>2, ContentPlaces
  <1>4. CASE ~Inside(start, w)
    <2>1. Undecided(start, w)
      BY <1>2, <1>4 DEF Inside, Undecided
    <2> QED BY <1>1, <2>1, ContentPlaces
  <1> QED BY <1>3, <1>4

\* The closing tag of the text t ends at e.
CloseEnds(start, t, e) ==
  /\ Inside(start, t) /\ Find(t, CloseTag, Skip(start)) # NPos
  /\ e = Find(t, CloseTag, Skip(start)) + Len(CloseTag)

\* The text w goes on with the answer at e.
AnswerFrom(start, w, e) ==
  /\ e \in 0 .. Len(w) /\ Inside(start, w)
  /\ Drop(w, e) \in Seq(Char) /\ Len(Drop(w, e)) = Len(w) - e
  /\ ContentFed(start, w) = Drop(w, e + LeadingBlanks(Drop(w, e)))

(* and behind it all but the blanks. *)
LEMMA AllBehind ==
  ASSUME NEW start \in Starts, NEW t \in Seq(Char), Len(t) < NPos, NEW e, CloseEnds(start, t, e),
         NEW m \in 0 .. Len(t), e <= m
  PROVE  AnswerFrom(start, Take(t, m), e)
  <1> DEFINE w == Take(t, m)
             u == Drop(t, m)
  <1> SUFFICES ASSUME w \in Seq(Char), u \in Seq(Char), t = w \o u, Len(w) + Len(u) < NPos,
                      NEW p, p = Find(t, CloseTag, Skip(start)), p # NPos,
                      Inside(start, t), e = p + Len(CloseTag), e <= Len(w)
               PROVE  AnswerFrom(start, w, e)
    <2>1. /\ w \in Seq(Char) /\ Len(w) = m /\ u \in Seq(Char) /\ Len(u) = Len(t) - m /\ t = w \o u
      BY TextParts, CutInTwo
    <2> HIDE DEF w, u
    <2>2. Len(w) + Len(u) < NPos /\ e <= Len(w)
      <3>1. m \in Nat /\ Len(t) \in Nat
        BY LenProperties
      <3> QED BY <2>1, <3>1
    <2> QED BY <2>1, <2>2 DEF CloseEnds, w
  <1> HIDE DEF w, u
  <1> DEFINE n == Skip(start)
             q == Find(w, CloseTag, n)
  <1>1. /\ t \in Seq(Char) /\ Len(t) = Len(w) + Len(u) /\ Len(w) \in Nat /\ Len(u) \in Nat
        /\ Len(t) < NPos /\ Len(w) < NPos /\ \A i \in 1 .. Len(w) : t[i] = w[i]
    <2>1. /\ t \in Seq(Char) /\ Len(t) = Len(w) + Len(u) /\ Len(w) \in Nat /\ Len(u) \in Nat
          /\ \A i \in 1 .. Len(w) : t[i] = w[i]
      BY TextJoined
    <2> QED BY <2>1, NPosAssumption
  <1>2. n \in Nat /\ Len(CloseTag) \in Nat \ {0} /\ CloseTag \in Seq(Char) /\ OpenTag \in Seq(Char)
    BY Tags DEF Skip
  <1>3. FirstAt(t, CloseTag, n, p) /\ p \in Nat
    BY <1>1, <1>2, Found
  <1>4. p >= n /\ OccursAt(t, CloseTag, p) /\ \A i \in Nat : i >= n /\ OccursAt(t, CloseTag, i) => p <= i
    BY <1>3 DEF FirstAt
  <1>5. OccursAt(w, CloseTag, p)
    <2>1. \A i \in 1 .. Len(CloseTag) : p + i \in 1 .. Len(w)
      BY <1>1, <1>2, <1>3
    <2>2. \A i \in 1 .. Len(CloseTag) : w[p + i] = CloseTag[i]
      BY <1>1, <1>4, <2>1 DEF OccursAt
    <2> QED BY <2>2 DEF OccursAt
  <1>6. q = p
    <2>1. FirstAt(w, CloseTag, n, q) /\ q \in Nat
      BY <1>1, <1>2, Found
    <2>2. q # NPos
      <3> HIDE DEF q, n
      <3> QED BY <1>3, <1>4, <1>5, <2>1 DEF FirstAt
    <2>3. Find(t, CloseTag, n) = q
      <3> HIDE DEF n
      <3> QED BY <1>2, <2>2, FindKept
    <2> QED BY <2>3
  <1>7. Inside(start, w)
    <2>1. CASE start = "reasoning"
      BY <2>1 DEF Inside
    <2>2. CASE start = "expect" /\ IsPrefix(OpenTag, t)
      <3>1. n = Len(OpenTag)
        BY <2>2 DEF Skip
      <3>2. Len(OpenTag) <= Len(w) /\ Len(OpenTag) \in Nat
        <4> HIDE DEF n
        <4> QED BY <1>1, <1>2, <1>3, <1>4, <3>1
      <3>3. \A i \in 1 .. Len(OpenTag) : OpenTag[i] = t[i]
        BY <1>1, <1>2, <2>2, PrefixPointwise
      <3>4. \A i \in 1 .. Len(OpenTag) : OpenTag[i] = w[i]
        <4>1. \A i \in 1 .. Len(OpenTag) : i \in 1 .. Len(w)
          BY <1>1, <3>2
        <4> QED BY <1>1, <3>3, <4>1
      <3>5. IsPrefix(OpenTag, w)
        BY <1>2, <3>2, <3>4, PrefixPointwise
      <3> QED BY <2>2, <3>5 DEF Inside
    <2> QED BY <2>1, <2>2 DEF Inside
  <1>8. e \in 0 .. Len(w)
    BY <1>1, <1>2, <1>3
  <1>9. ContentFed(start, w) = Drop(w, e + LeadingBlanks(Drop(w, e)))
    <2>1. p = Find(w, CloseTag, Skip(start))
      BY <1>6
    <2> QED BY <1>1, <1>7, <2>1, ContentPlaces
  <1>10. Drop(w, e) \in Seq(Char) /\ Len(Drop(w, e)) = Len(w) - e
    BY <1>8, TextParts
  <1> QED BY <1>7, <1>8, <1>9, <1>10 DEF AnswerFrom

\* The answer of the text t begins at b.
AnswerStarts(start, t, b) ==
  LET loc == LocAt(start, t)
  IN  /\ loc.state = "answer" /\ b \in loc.end .. Len(t)
      /\ IF loc.byTag
         THEN /\ b < Len(t) /\ t[b + 1] # Newline
              /\ \A i \in loc.end + 1 .. b : t[i] = Newline
         ELSE b = 0

(* From where it begins, the answer is what the splitter lets through and  *)
(* what one look at the text says it is.                                   *)
LEMMA ShownFrom ==
  ASSUME NEW start \in Starts, NEW t \in Seq(Char), Len(t) < NPos, NEW b, AnswerStarts(start, t, b),
         NEW m \in 0 .. Len(t)
  PROVE  /\ Shown(start, Take(t, m)) \in {<<>>, SubSeq(t, b + 1, m)}
         /\ m >= LocAt(start, t).end =>
              \A r : r.start = start => AnswerOf(r, Take(t, m)) = SubSeq(t, b + 1, m)
  <1> DEFINE w == Take(t, m)
             u == Drop(t, m)
             p == Find(t, CloseTag, Skip(start))
             e == p + Len(CloseTag)
             n == Skip(start)
  <1>1. /\ w \in Seq(Char) /\ Len(w) = m /\ u \in Seq(Char) /\ Len(u) = Len(t) - m /\ t = w \o u
        /\ \A i \in 1 .. m : w[i] = t[i]
    BY TextParts, CutInTwo
  <1> HIDE DEF w, u
  <1>2. m \in Nat /\ Len(t) \in Nat /\ Len(w) + Len(u) < NPos /\ Len(w) < NPos
    BY <1>1, LenProperties, NPosAssumption
  <1>3. Shown(start, w) = ContentFed(start, w)
    BY <1>1, <1>2, FeedAtOnce
  <1>4. CASE Inside(start, t)
    <2>1. LocAt(start, t) = IF p = NPos THEN Searching("reasoning") ELSE BeginsBehind(e)
      BY <1>4 DEF LocAt
    <2>2. p # NPos /\ LocAt(start, t) = BeginsBehind(e)
      BY <2>1, LocFields DEF AnswerStarts
    <2> HIDE DEF e
    <2>3. /\ b \in e .. Len(t) /\ b < Len(t) /\ t[b + 1] # Newline /\ \A i \in e + 1 .. b : t[i] = Newline
          /\ LocAt(start, t).end = e
      BY <2>2, LocFields DEF AnswerStarts
    <2>4. e = p + Len(CloseTag)
      BY DEF e
    <2>0. e \in 0 .. Len(t)
      BY <1>4, <2>2, <2>4, ContentPlaces
    <2> HIDE DEF p
    <2>5. CASE m < e
      <3>1. p + Len(CloseTag) > Len(w)
        BY <1>1, <1>2, <2>0, <2>4, <2>5
      <3>2. ContentFed(start, w) = <<>>
        BY <1>1, <1>2, <1>4, <3>1, NothingYet DEF p
      <3>3. ~(m >= e)
        BY <1>2, <2>0, <2>5
      <3> QED BY <1>3, <2>3, <3>2, <3>3 DEF w
    <2>6. CASE m >= e
      <3> DEFINE x == Drop(w, e)
                 k == LeadingBlanks(x)
      <3>0. e <= Len(w) /\ e \in Nat /\ e \in 0 .. m
        BY <1>1, <1>2, <2>0, <2>6
      <3>1. /\ Inside(start, w) /\ x \in Seq(Char) /\ Len(x) = m - e
            /\ ContentFed(start, w) = Drop(w, e + k)
        <4>1. CloseEnds(start, t, e)
          BY <1>4, <2>2, <2>4 DEF p, CloseEnds
        <4>2. AnswerFrom(start, w, e)
          BY <3>0, <4>1, AllBehind DEF w
        <4> QED BY <1>1, <4>2 DEF AnswerFrom
      <3>2. \A r : r.start = start => AnswerOf(r, w) = ContentFed(start, w)
        BY <1>1, <1>2, <3>1, ContentPlaces
      <3>3. \A i \in 1 .. m - e : x[i] = t[e + i]
        <4>1. \A i \in 1 .. Len(w) - e : x[i] = w[e + i]
          <5>1. e \in 0 .. Len(w)
            BY <3>0, <1>1
          <5> QED BY <1>1, <5>1, TextParts
        <4>2. \A i \in 1 .. m - e : e + i \in 1 .. m
          BY <1>2, <3>0
        <4> QED BY <1>1, <4>1, <4>2
      <3>4. /\ k \in 0 .. Len(x) /\ (\A j \in 1 .. k : x[j] = Newline)
            /\ (k < Len(x) => x[k + 1] # Newline)
            /\ \A j \in 0 .. Len(x) : (\A i \in 1 .. j : x[i] = Newline) => j <= k
        BY <3>1, Blanks
      <3> HIDE DEF x, k
      <3>5. ContentFed(start, w) = SubSeq(t, b + 1, m)
        <4>1. CASE b < m
          <5>1. b - e \in 0 .. Len(x) /\ b - e + 1 \in 1 .. m - e /\ e + (b - e + 1) = b + 1 /\ b \in Nat
            BY <1>2, <2>3, <3>0, <3>1, <4>1
          <5>2. \A i \in 1 .. b - e : x[i] = Newline
            <6>1. \A i \in 1 .. b - e : i \in 1 .. m - e /\ e + i \in e + 1 .. b
              BY <1>2, <2>3, <3>0, <4>1
            <6> QED BY <2>3, <3>3, <6>1
          <5>3. b - e <= k
            BY <3>4, <5>1, <5>2
          <5>4. ~(b - e + 1 <= k)
            <6>1. SUFFICES ASSUME b - e + 1 <= k PROVE FALSE
              OBVIOUS
            <6>2. b - e + 1 \in 1 .. k
              BY <3>1, <3>4, <5>1, <6>1
            <6> QED BY <2>3, <3>3, <3>4, <5>1, <6>2
          <5>5. e + k = b
            <6>1. k \in Nat /\ e \in Nat /\ b \in Nat
              BY <3>0, <3>1, <3>4, <5>1, <1>2
            <6> QED BY ONLY <5>3, <5>4, <6>1
          <5>6. Drop(w, b) = SubSeq(t, b + 1, m)
            <6>1. b \in 0 .. m
              BY <1>2, <4>1, <5>1
            <6> QED BY <6>1, CutInTwo DEF w
          <5> QED BY <3>1, <5>5, <5>6
        <4>2. CASE b >= m
          <5>1. b \in 0 .. Len(t) /\ b \in Nat
            BY <2>3, <3>0
          <5>2. \A i \in 1 .. Len(x) : x[i] = Newline
            <6>1. \A i \in 1 .. m - e : e + i \in e + 1 .. b
              BY <1>2, <3>0, <4>2, <5>1
            <6> QED BY <2>3, <3>1, <3>3, <6>1
          <5>3. Len(x) <= k /\ Len(x) \in 0 .. Len(x) /\ Len(x) \in Nat
            <6>1. Len(x) \in 0 .. Len(x) /\ Len(x) \in Nat
              BY <3>1, LenProperties
            <6> QED BY <3>4, <5>2, <6>1
          <5>4. e + k = m
            BY <1>2, <3>0, <3>1, <3>4, <5>3
          <5>5. Drop(w, m) = <<>>
            BY <1>1, CutInTwo, <1>2
          <5>6. SubSeq(t, b + 1, m) = <<>>
            <6>1. SubSeq(t, b + 1, m) \in Seq(Char) /\ Len(SubSeq(t, b + 1, m)) = IF b <= m THEN m - b ELSE 0
              BY <5>1, TextParts
            <6>2. Len(SubSeq(t, b + 1, m)) = 0
              BY <1>2, <4>2, <5>1, <6>1
            <6> QED BY <6>1, <6>2, EmptyText
          <5> QED BY <3>1, <5>4, <5>5, <5>6
        <4> QED BY <1>2, <2>3, <3>0, <4>1, <4>2
      <3> QED BY <1>3, <2>3, <3>2, <3>5 DEF w
    <2> QED BY <1>2, <2>0, <2>5, <2>6
  <1>5. CASE ~Inside(start, t)
    <2>1. LocAt(start, t) = IF Undecided(start, t) THEN Searching("expect") ELSE BeginsAtOnce
      BY <1>5 DEF LocAt
    <2>2. ~Undecided(start, t) /\ LocAt(start, t) = BeginsAtOnce
      BY <2>1, LocFields DEF AnswerStarts
    <2>3. b = 0
      BY <2>2, LocFields DEF AnswerStarts
    <2>4. SubSeq(t, b + 1, m) = w
      BY <2>3 DEF w, Take
    <2>5. ~Inside(start, w)
      <3>1. IsPrefix(OpenTag, w) => IsPrefix(OpenTag, t)
        BY <1>1, PrefixOfJoin, Tags
      <3> QED BY <1>5, <3>1 DEF Inside
    <2>6. ContentFed(start, w) \in {<<>>, w} /\ \A r : r.start = start => AnswerOf(r, w) = w
      BY <1>1, <1>2, <2>5, ContentPlaces
    <2> QED BY <1>3, <2>4, <2>6 DEF w
  <1> QED BY <1>4, <1>5

(* Until the answer is found to begin, nothing of it is let through. *)
LEMMA ShownNone ==
  ASSUME NEW start \in Starts, NEW t \in Seq(Char), Len(t) < NPos, NEW m \in 0 .. Len(t),
         AnswerBegin(LocAt(start, t), t, m) = NPos
  PROVE  Shown(start, Take(t, m)) = <<>>
  <1> DEFINE w == Take(t, m)
             u == Drop(t, m)
             loc == LocAt(start, t)
             p == Find(t, CloseTag, Skip(start))
             e == p + Len(CloseTag)
             x == SubSeq(t, loc.end + 1, m)
             i == IF loc.byTag THEN loc.end + LeadingBlanks(x) ELSE loc.end
  <1>1. /\ w \in Seq(Char) /\ Len(w) = m /\ u \in Seq(Char) /\ Len(u) = Len(t) - m /\ t = w \o u
    BY TextParts, CutInTwo
  <1> HIDE DEF w, u
  <1>2. /\ m \in Nat /\ Len(t) \in Nat /\ Len(w) + Len(u) < NPos /\ Len(w) < NPos /\ NPos \in Nat
        /\ m < NPos
    BY <1>1, LenProperties, NPosAssumption
  <1>3. Shown(start, w) = ContentFed(start, w)
    BY <1>1, <1>2, FeedAtOnce
  <1>4. Min({m, Len(t)}) = m
    BY <1>2, MinMaxOfTwo
  <1>5. loc.state = "answer" => ~(i < m)
    <2>1. AnswerBegin(loc, t, m) = IF loc.state = "answer" /\ i < m THEN i ELSE NPos
      BY <1>4 DEF AnswerBegin
    <2> HIDE DEF i, loc
    <2>2. AnswerBegin(loc, t, m) = NPos
      BY DEF loc
    <2>3. ASSUME loc.state = "answer", i < m PROVE FALSE
      <3>1. i = NPos
        BY <2>1, <2>2, <2>3
      <3> QED BY <1>2, <2>3, <3>1
    <2> QED BY <2>3
  <1>6. CASE Undecided(start, t)
    BY <1>1, <1>2, <1>3, <1>6, NothingYet DEF w
  <1>7. CASE Inside(start, t) /\ p = NPos
    BY <1>1, <1>2, <1>3, <1>7, NothingYet DEF w
  <1>8. CASE Inside(start, t) /\ p # NPos
    <2>1. loc = BeginsBehind(e)
      BY <1>8 DEF LocAt
    <2>2. e \in 0 .. Len(t)
      BY <1>8, ContentPlaces
    <2>3. loc.state = "answer" /\ loc.end = e /\ loc.byTag
      <3> HIDE DEF loc, e
      <3> QED BY <2>1, LocFields
    <2>4. CASE m < e
      <3>1. e > Len(w)
        <4> HIDE DEF e
        <4> QED BY <1>1, <1>2, <2>2, <2>4
      <3> HIDE DEF loc, x, i
      <3> QED BY <1>1, <1>2, <1>3, <1>8, <3>1, NothingYet DEF w
    <2>5. CASE m >= e
      <3> DEFINE y == Drop(w, e)
                 k == LeadingBlanks(y)
      <3>0. CloseEnds(start, t, e)
        BY <1>8 DEF CloseEnds
      <3>1. AnswerFrom(start, w, e)
        <4> HIDE DEF e
        <4> QED BY <1>2, <2>2, <2>5, <3>0, AllBehind DEF w
      <3> HIDE DEF e, loc
      <3>2. y \in Seq(Char) /\ Len(y) = m - e /\ ContentFed(start, w) = Drop(w, e + k)
        BY <1>1, <3>1 DEF AnswerFrom
      <3>3. k \in 0 .. Len(y)
        BY <3>2, Blanks
      <3>4. SubSeq(t, e + 1, m) = y
        <4>1. e \in 0 .. m
          BY <1>2, <2>2, <2>5
        <4> QED BY <4>1, CutInTwo DEF w
      <3>5. i = e + k
        BY <2>3, <3>4
      <3>6. ~(e + k < m)
        BY <1>5, <2>3, <3>5
      <3> HIDE DEF y, k, x, i
      <3>7. e + k = m
        <4>1. k \in Nat /\ k <= m - e /\ e \in Nat
          BY <1>2, <2>2, <2>5, <3>2, <3>3
        <4> QED BY ONLY <1>2, <3>6, <4>1
      <3>8. Drop(w, m) = <<>>
        BY <1>1, <1>2, CutInTwo
      <3> QED BY <1>3, <3>2, <3>7, <3>8 DEF w
    <2> QED BY <1>2, <2>2, <2>4, <2>5
  <1>9. CASE ~Inside(start, t) /\ ~Undecided(start, t)
    <2>1. loc = BeginsAtOnce
      BY <1>9 DEF LocAt
    <2>2. loc.state = "answer" /\ loc.end = 0 /\ ~loc.byTag
      <3> HIDE DEF loc
      <3> QED BY <2>1, LocFields
    <2>3. i = 0
      <3> HIDE DEF loc, x
      <3> QED BY <2>2
    <2>4. m = 0
      <3> HIDE DEF loc, i
      <3> QED BY <1>2, <1>5, <2>2, <2>3
    <2>5. w = <<>>
      BY <1>1, <2>4, EmptyText
    <2>6. ~Inside(start, w)
      <3>1. IsPrefix(OpenTag, w) => IsPrefix(OpenTag, t)
        BY <1>1, PrefixOfJoin, Tags
      <3> QED BY <1>9, <3>1 DEF Inside
    <2>7. ContentFed(start, w) = <<>>
      BY <1>1, <1>2, <2>5, <2>6, ContentPlaces
    <2> QED BY <1>3, <2>7 DEF w
  <1> QED BY <1>6, <1>7, <1>8, <1>9

(* Where it is found to begin, it begins. *)
LEMMA BeginFound ==
  ASSUME NEW start \in Starts, NEW t \in Seq(Char), Len(t) < NPos, NEW m \in 0 .. Len(t),
         NEW b, b = AnswerBegin(LocAt(start, t), t, m), b # NPos
  PROVE  AnswerStarts(start, t, b) /\ b < m /\ b \in Nat
  <1> DEFINE loc == LocAt(start, t)
             p == Find(t, CloseTag, Skip(start))
             e == p + Len(CloseTag)
             x == SubSeq(t, loc.end + 1, m)
             k == LeadingBlanks(x)
             i == IF loc.byTag THEN loc.end + k ELSE loc.end
  <1>1. m \in Nat /\ Len(t) \in Nat /\ m <= Len(t)
    BY LenProperties
  <1>2. Min({m, Len(t)}) = m
    BY <1>1, MinMaxOfTwo
  <1>3. loc.state = "answer" /\ i < m /\ b = i
    <2>1. AnswerBegin(loc, t, m) = IF loc.state = "answer" /\ i < m THEN i ELSE NPos
      BY <1>2 DEF AnswerBegin
    <2> HIDE DEF i, loc
    <2>2. AnswerBegin(loc, t, m) = b
      BY DEF loc
    <2> QED BY <2>1, <2>2
  <1>4. CASE Inside(start, t)
    <2>1. loc = IF p = NPos THEN Searching("reasoning") ELSE BeginsBehind(e)
      BY <1>4 DEF LocAt
    <2> HIDE DEF loc, e, p, k, i
    <2>2. p # NPos /\ loc = BeginsBehind(e) /\ loc.end = e /\ loc.byTag
      BY <1>3, <2>1, LocFields
    <2>3. e \in 0 .. Len(t)
      BY <1>4, <2>2, ContentPlaces DEF p, e
    <2>4. b = e + k
      BY <1>3, <2>2 DEF i
    <2> DEFINE y == SubSeq(t, e + 1, m)
    <2>5. /\ y \in Seq(Char) /\ Len(y) = (IF e <= m THEN m - e ELSE 0)
          /\ \A j \in 1 .. m - e : y[j] = t[e + j]
      BY <1>1, <2>3, TextParts
    <2>6. k = LeadingBlanks(y)
      BY <2>2 DEF k
    <2>7. /\ k \in 0 .. Len(y) /\ (\A j \in 1 .. k : y[j] = Newline)
          /\ (k < Len(y) => y[k + 1] # Newline)
      BY <2>5, <2>6, Blanks
    <2> HIDE DEF y
    <2>8. e \in Nat /\ k \in Nat /\ b < m /\ k < Len(y) /\ Len(y) = m - e /\ Len(y) \in Nat
      <3>1. e \in Nat /\ k \in Nat
        BY <2>3, <2>5, <2>7
      <3>2. e + k < m
        BY <1>3, <2>4
      <3>3. Len(y) = m - e
        BY <1>1, <2>5, <3>1, <3>2
      <3> QED BY <1>1, <2>4, <3>1, <3>2, <3>3
    <2>9. t[b + 1] # Newline
      <3>1. k + 1 \in 1 .. m - e /\ e + (k + 1) = b + 1
        BY <1>1, <2>4, <2>8
      <3> QED BY <2>5, <2>7, <2>8, <3>1
    <2>10. ASSUME NEW j \in e + 1 .. b PROVE t[j] = Newline
      <3>1. j - e \in 1 .. k /\ j - e \in 1 .. m - e /\ e + (j - e) = j
        BY <1>1, <2>4, <2>8
      <3> QED BY <2>5, <2>7, <3>1
    <2>11. b \in e .. Len(t) /\ b < Len(t) /\ b \in Nat
      BY <1>1, <2>4, <2>8
    <2> QED BY <1>3, <2>2, <2>8, <2>9, <2>10, <2>11 DEF AnswerStarts, loc
  <1>5. CASE ~Inside(start, t)
    <2>1. loc = IF Undecided(start, t) THEN Searching("expect") ELSE BeginsAtOnce
      BY <1>5 DEF LocAt
    <2> HIDE DEF loc, k, x, i
    <2>2. loc = BeginsAtOnce /\ loc.end = 0 /\ ~loc.byTag
      BY <1>3, <2>1, LocFields
    <2>3. b = 0 /\ b < m
      BY <1>3, <2>2 DEF i
    <2>4. b \in 0 .. Len(t) /\ b \in Nat
      BY <1>1, <2>3
    <2> QED BY <1>3, <2>2, <2>3, <2>4 DEF AnswerStarts, loc
  <1> QED BY <1>4, <1>5

(* It goes on beginning there. *)
LEMMA StartsKept ==
  ASSUME NEW start \in Starts, NEW t \in Seq(Char), NEW u \in Seq(Char), Len(t) + Len(u) < NPos,
         LocAt(start, t).state = "answer"
  PROVE  /\ LocAt(start, t \o u) = LocAt(start, t)
         /\ \A b : AnswerStarts(start, t, b) => AnswerStarts(start, t \o u, b)
  <1> DEFINE v == t \o u
             loc == LocAt(start, t)
  <1>1. LocAt(start, v) = loc
    <2>1. /\ LocatorUpdate(LocatorUpdate(Locator(start), t), v) = LocatorUpdate(Locator(start), v)
      BY LocatorResumes
    <2>2. LocatorUpdate(Locator(start), t) = loc /\ LocatorUpdate(Locator(start), v) = LocAt(start, v)
      BY LocAtOnce
    <2> HIDE DEF v, loc
    <2>3. LocatorUpdate(loc, v) = loc
      BY DEF LocatorUpdate, loc
    <2> QED BY <2>1, <2>2, <2>3
  <1>2. /\ v \in Seq(Char) /\ Len(v) = Len(t) + Len(u) /\ Len(t) \in Nat /\ Len(u) \in Nat
        /\ \A i \in 1 .. Len(t) : v[i] = t[i]
    BY TextJoined
  <1>3. loc.end \in Nat
    <2>1. loc \in {Searching("reasoning"), Searching("expect"), BeginsAtOnce}
            \/ loc = BeginsBehind(Find(t, CloseTag, Skip(start)) + Len(CloseTag))
      BY DEF LocAt
    <2>2. Find(t, CloseTag, Skip(start)) \in Nat /\ Len(CloseTag) \in Nat
      <3>1. Skip(start) \in Nat /\ Len(t) < NPos /\ CloseTag \in Seq(Char) /\ Len(CloseTag) \in Nat
        BY <1>2, Tags, NPosAssumption DEF Skip
      <3> QED BY <3>1, Found
    <2> DEFINE e == Find(t, CloseTag, Skip(start)) + Len(CloseTag)
    <2>3. e \in Nat /\ NPos \in Nat
      BY <2>2, NPosAssumption
    <2> HIDE DEF e, loc
    <2> QED BY <2>1, <2>3, LocFields DEF e
  <1> HIDE DEF v, loc
  <1>4. ASSUME NEW b, AnswerStarts(start, t, b) PROVE AnswerStarts(start, v, b)
    <2>1. /\ loc.state = "answer" /\ b \in loc.end .. Len(t)
          /\ IF loc.byTag
             THEN /\ b < Len(t) /\ t[b + 1] # Newline
                  /\ \A i \in loc.end + 1 .. b : t[i] = Newline
             ELSE b = 0
      BY <1>4 DEF AnswerStarts, loc
    <2>2. b \in Nat /\ b \in loc.end .. Len(v) /\ (b < Len(t) => b < Len(v))
      BY <1>2, <1>3, <2>1
    <2>3. CASE loc.byTag
      <3>1. b + 1 \in 1 .. Len(t)
        BY <1>2, <2>1, <2>2, <2>3
      <3>2. v[b + 1] # Newline
        BY <1>2, <2>1, <2>3, <3>1
      <3>3. \A i \in loc.end + 1 .. b : v[i] = Newline
        <4>1. \A i \in loc.end + 1 .. b : i \in 1 .. Len(t)
          BY <1>2, <1>3, <2>1, <2>2
        <4> QED BY <1>2, <2>1, <2>3, <4>1
      <3> QED BY <1>1, <2>1, <2>2, <2>3, <3>2, <3>3 DEF AnswerStarts
    <2>4. CASE ~loc.byTag
      BY <1>1, <2>1, <2>2, <2>4 DEF AnswerStarts
    <2> QED BY <2>3, <2>4
  <1> QED BY <1>1, <1>4 DEF v, loc

-----------------------------------------------------------------------------
(* One token's text bookkeeping.                                           *)

Same(g, h, F) == \A f \in Fields \ F : h[f] = g[f]

(* The locals after one assignment. *)
LEMMA OneSet ==
  ASSUME NEW g, IsGen(g), NEW f \in Fields, NEW v, NEW h, h = [g EXCEPT ![f] = v]
  PROVE  IsGen(h) /\ h[f] = v /\ Same(g, h, {f})
  BY DEF IsGen, Same

(* Two parts of an update that leave most fields alone. *)
LEMMA SameTwice ==
  ASSUME NEW g, NEW h, NEW k, NEW F, NEW G, Same(g, h, F), Same(h, k, G)
  PROVE  Same(g, k, F \cup G)
  BY DEF Same

\* The text has grown since the locator last saw it.
Looked(r, g) ==
  /\ g.acc \in Seq(Char) /\ Len(g.acc) < NPos
  /\ \E t, u \in Seq(Char) : g.acc = t \o u /\ g.loc = LocAt(r.start, t)
  /\ g.floor = g.loc.end /\ g.thinkEnd = g.loc.end

\* Where the answer begins, and how much of it the gate has seen.
BegunIn(r, g) ==
  IF g.begin = NPos THEN g.fed = 0
  ELSE /\ g.begin \in Nat /\ AnswerStarts(r.start, g.acc, g.begin)
       /\ g.fed \in 0 .. Len(g.acc) - g.begin

(* What the locator knows. *)
LEMMA LocKnows ==
  ASSUME NEW start \in Starts, NEW t \in Seq(Char), Len(t) < NPos
  PROVE  /\ LocAt(start, t).end \in Nat
         /\ LocAt(start, t).state = "answer" => LocAt(start, t).end \in 0 .. Len(t)
         /\ LocAt(start, t).state # "answer" => LocAt(start, t).end = NPos
  <1> DEFINE p == Find(t, CloseTag, Skip(start))
             e == p + Len(CloseTag)
             loc == LocAt(start, t)
  <1>1. Inside(start, t) /\ p # NPos => e \in 0 .. Len(t)
    BY ContentPlaces
  <1>2. \/ loc \in {Searching("reasoning"), Searching("expect")}
        \/ loc = BeginsAtOnce
        \/ Inside(start, t) /\ p # NPos /\ loc = BeginsBehind(e)
    BY DEF LocAt
  <1>3. NPos \in Nat /\ Len(t) \in Nat /\ 0 \in 0 .. Len(t)
    BY LenProperties, NPosAssumption
  <1> HIDE DEF e, loc, p
  <1>4. CASE loc \in {Searching("reasoning"), Searching("expect")}
    <2>1. loc.end = NPos /\ loc.state # "answer"
      BY <1>4, LocFields
    <2> QED BY <1>3, <2>1 DEF loc
  <1>5. CASE loc = BeginsAtOnce
    <2>1. loc.end = 0 /\ loc.state = "answer"
      BY <1>5, LocFields
    <2> QED BY <1>3, <2>1 DEF loc
  <1>6. CASE Inside(start, t) /\ p # NPos /\ loc = BeginsBehind(e)
    <2>1. loc.end = e /\ loc.state = "answer"
      BY <1>6, LocFields
    <2> QED BY <1>1, <1>3, <1>6, <2>1 DEF loc
  <1> QED BY <1>2, <1>4, <1>5, <1>6

\* The locator has seen all of the text.
LocatedIn(r, g) ==
  /\ g.acc \in Seq(Char) /\ Len(g.acc) < NPos
  /\ g.loc = LocAt(r.start, g.acc) /\ g.floor = g.loc.end /\ g.thinkEnd = g.loc.end

(* NoteReasoningProgress brings the locator up to date. *)
LEMMA NoteProgress ==
  ASSUME NEW r, r.start \in Starts, NEW g, IsGen(g), Looked(r, g),
         NEW h, h = NoteReasoningProgress(g)
  PROVE  IsGen(h) /\ Same(g, h, {"loc", "floor", "thinkEnd"}) /\ LocatedIn(r, h)
  <1> DEFINE a == g.acc
             new == LocatorUpdate(g.loc, g.acc)
  <1>1. PICK t \in Seq(Char), u \in Seq(Char) : g.acc = t \o u /\ g.loc = LocAt(r.start, t)
    BY DEF Looked
  <1>2. a \in Seq(Char) /\ Len(a) < NPos /\ g.floor = g.loc.end /\ g.thinkEnd = g.loc.end
    BY DEF Looked
  <1>3. Len(t) + Len(u) < NPos /\ Len(t) < NPos
    <2>1. Len(t \o u) = Len(t) + Len(u) /\ Len(t) \in Nat /\ Len(u) \in Nat
      BY TextJoined
    <2> QED BY <1>1, <1>2, <2>1, NPosAssumption
  <1>4. new = LocAt(r.start, a)
    <2>1. LocatorUpdate(Locator(r.start), t) = LocAt(r.start, t)
      BY LocAtOnce
    <2>2. LocatorUpdate(Locator(r.start), t \o u) = LocAt(r.start, t \o u)
      BY LocAtOnce
    <2>3. LocatorUpdate(LocatorUpdate(Locator(r.start), t), t \o u) = LocatorUpdate(Locator(r.start), t \o u)
      BY <1>3, LocatorResumes
    <2> QED BY <1>1, <2>1, <2>2, <2>3
  <1>5. h = Noted(g, new)
    BY DEF NoteReasoningProgress
  <1> HIDE DEF new
  <1>6. CASE g.loc.state = "answer"
    <2>1. h = g
      BY <1>5, <1>6 DEF Noted
    <2>2. new = g.loc
      BY <1>6 DEF LocatorUpdate, new
    <2>3. Same(g, h, {"loc", "floor", "thinkEnd"})
      BY <2>1 DEF Same
    <2> QED BY <1>2, <1>4, <2>1, <2>2, <2>3 DEF LocatedIn
  <1>7. CASE g.loc.state # "answer" /\ new.state # "answer"
    <2>1. h = [g EXCEPT !.loc = new]
      BY <1>5, <1>7 DEF Noted
    <2>2. IsGen(h) /\ h["loc"] = new /\ Same(g, h, {"loc"})
      BY <2>1, OneSet DEF Fields
    <2>3. h.acc = a /\ h.floor = g.floor /\ h.thinkEnd = g.thinkEnd /\ h.loc = new
      BY <2>2 DEF Same, Fields
    <2>4. new.end = NPos /\ g.loc.end = NPos
      BY <1>1, <1>2, <1>3, <1>4, <1>7, LocKnows
    <2>5. Same(g, h, {"loc", "floor", "thinkEnd"})
      BY <2>2 DEF Same
    <2> QED BY <1>2, <1>4, <2>2, <2>3, <2>4, <2>5 DEF LocatedIn
  <1>8. CASE g.loc.state # "answer" /\ new.state = "answer"
    <2> DEFINE l == [g EXCEPT !.loc = new]
               m == [l EXCEPT !.floor = new.end]
    <2>1. h = [m EXCEPT !.thinkEnd = new.end]
      BY <1>5, <1>8 DEF Noted
    <2>2. IsGen(m) /\ m["loc"] = new /\ m["floor"] = new.end /\ Same(g, m, {"loc", "floor"})
      <3>1. IsGen(l) /\ l["loc"] = new /\ Same(g, l, {"loc"})
        BY OneSet DEF Fields
      <3> HIDE DEF l
      <3>2. IsGen(m) /\ m["floor"] = new.end /\ Same(l, m, {"floor"})
        BY <3>1, OneSet DEF Fields
      <3> QED BY <3>1, <3>2 DEF Same, Fields
    <2> HIDE DEF m, l
    <2>3. IsGen(h) /\ h["thinkEnd"] = new.end /\ Same(m, h, {"thinkEnd"})
      BY <2>1, <2>2, OneSet DEF Fields
    <2>4. h.acc = a /\ h.floor = new.end /\ h.thinkEnd = new.end /\ h.loc = new
      BY <2>2, <2>3 DEF Same, Fields
    <2>5. Same(g, h, {"loc", "floor", "thinkEnd"})
      BY <2>2, <2>3 DEF Same
    <2> QED BY <1>2, <1>4, <2>3, <2>4, <2>5 DEF LocatedIn
  <1> QED BY <1>6, <1>7, <1>8

(* The gate's part of the text. *)
LEMMA FedParts ==
  ASSUME NEW a \in Seq(Char), NEW b \in Nat, NEW n \in Nat, NEW m \in Nat, b + n <= m, m <= Len(a)
  PROVE  /\ SubSeq(a, b + 1, b + n) \in Seq(Char) /\ Len(SubSeq(a, b + 1, b + n)) = n
         /\ SubSeq(a, b + n + 1, m) \in Seq(Char) /\ Len(SubSeq(a, b + n + 1, m)) = m - (b + n)
         /\ SubSeq(a, b + 1, m) = SubSeq(a, b + 1, b + n) \o SubSeq(a, b + n + 1, m)
         /\ SubSeq(a, b + 1, b) = <<>>
  <1> DEFINE k == b + n
             x == SubSeq(a, b + 1, k)
             y == SubSeq(a, k + 1, m)
             z == SubSeq(a, b + 1, m)
  <1>1. /\ Len(a) \in Nat /\ b \in 0 .. Len(a) /\ k \in 0 .. Len(a) /\ m \in 0 .. Len(a)
        /\ k \in Nat /\ k <= m /\ b <= k /\ k - b = n
    BY LenProperties
  <1> HIDE DEF k
  <1>2. /\ x \in Seq(Char) /\ Len(x) = k - b /\ \A i \in 1 .. k - b : x[i] = a[b + i]
    BY <1>1, TextParts
  <1>3. /\ y \in Seq(Char) /\ Len(y) = m - k /\ \A i \in 1 .. m - k : y[i] = a[k + i]
    BY <1>1, TextParts
  <1>4. b <= m
    BY <1>1
  <1>5. /\ z \in Seq(Char) /\ Len(z) = m - b /\ \A i \in 1 .. m - b : z[i] = a[b + i]
    BY <1>1, <1>4, TextParts
  <1>6. SubSeq(a, b + 1, b) \in Seq(Char) /\ Len(SubSeq(a, b + 1, b)) = 0
    BY <1>1, TextParts
  <1> HIDE DEF x, y, z
  <1>7. /\ x \o y \in Seq(Char) /\ Len(x \o y) = Len(x) + Len(y)
        /\ \A i \in 1 .. Len(x) : (x \o y)[i] = x[i]
        /\ \A i \in 1 .. Len(y) : (x \o y)[Len(x) + i] = y[i]
    BY <1>2, <1>3, TextJoined
  <1>8. Len(x \o y) = Len(z) /\ Len(x) = n /\ Len(y) = m - k
    BY <1>1, <1>2, <1>3, <1>5, <1>7
  <1>9. ASSUME NEW i \in 1 .. Len(z) PROVE z[i] = (x \o y)[i]
    <2>1. i \in Nat /\ i \in 1 .. m - b /\ n \in Nat
      BY <1>1, <1>5
    <2>2. CASE i <= n
      <3>1. i \in 1 .. Len(x) /\ i \in 1 .. k - b
        BY <1>1, <1>8, <2>1, <2>2
      <3> QED BY <1>2, <1>5, <1>7, <2>1, <3>1
    <2>3. CASE i > n
      <3> DEFINE j == i - n
      <3>1. j \in 1 .. m - k /\ Len(x) + j = i /\ k + j = b + i
        BY <1>1, <1>8, <2>1, <2>3
      <3> HIDE DEF j
      <3>2. j \in 1 .. Len(y)
        BY <1>8, <3>1
      <3>3. (x \o y)[Len(x) + j] = y[j]
        BY <1>7, <3>2
      <3>4. (x \o y)[i] = y[j]
        BY <3>1, <3>3
      <3>5. y[j] = a[k + j]
        BY <1>3, <3>1
      <3>6. z[i] = a[b + i]
        BY <1>5, <2>1
      <3> QED BY <3>1, <3>4, <3>5, <3>6
    <2>4. i <= n \/ i > n
      BY ONLY <2>1
    <2> QED BY <2>2, <2>3, <2>4
  <1>10. z = x \o y
    BY <1>5, <1>7, <1>8, <1>9, SameText
  <1>11. SubSeq(a, b + 1, b) = <<>>
    BY <1>6, EmptyText
  <1>12. Len(y) = m - k
    BY <1>8
  <1> QED BY <1>2, <1>3, <1>8, <1>10, <1>11, <1>12 DEF x, y, z, k

(* Nothing has been fed before the answer begins. *)
LEMMA FedNothing ==
  ASSUME NEW a \in Seq(Char), Len(a) < NPos
  PROVE  SubSeq(a, NPos + 1, NPos + 0) = <<>>
  <1>1. NPos \in Nat /\ NPos + 0 = NPos
    BY NPosAssumption
  <1>2. SubSeq(a, NPos + 1, NPos) = <<>>
    <2> DEFINE n == NPos
    <2>1. n \in Nat
      BY <1>1
    <2> HIDE DEF n
    <2>2. SubSeq(a, n + 1, n) = [i \in 1 .. 0 |-> a[i + (n + 1) - 1]]
      <3>1. (1 + n) - (n + 1) = 0
        BY <2>1
      <3>2. SubSeq(a, n + 1, n) = [i \in 1 .. (1 + n) - (n + 1) |-> a[i + (n + 1) - 1]]
        BY <2>1 DEF SubSeq
      <3> QED BY <3>1, <3>2
    <2>3. SubSeq(a, n + 1, n) = <<>>
      BY <2>2
    <2> QED BY <2>3 DEF n
  <1> QED BY <1>1, <1>2

\* How far the locals' text may be forwarded, and all that holds between the
\* parts of FlushGated.
Between(r, g) ==
  /\ IsGen(g) /\ LocatedIn(r, g) /\ BegunIn(r, g) /\ ForwardedIn(r, g)
  /\ g.streamable \in 0 .. Len(g.acc)
Found1(r, g) == g.begin = NPos => Shown(r.start, Take(g.acc, g.streamable)) = <<>>

(* FlushGated, part by part: find where the answer begins, *)
LEMMA FindsAnswer ==
  ASSUME NEW r, r.start \in Starts, NEW g, Between(r, g), GatedIn(g), NEW h, h = FindAnswer(g)
  PROVE  Between(r, h) /\ GatedIn(h) /\ Found1(r, h) /\ Same(g, h, {"begin"})
  <1> DEFINE start == r.start
             a == g.acc
             n == g.streamable
             new == AnswerBegin(g.loc, g.acc, g.streamable)
             b == IF g.begin = NPos /\ g.thinkEnd # NPos THEN new ELSE g.begin
  <1>1. /\ IsGen(g) /\ LocatedIn(r, g) /\ BegunIn(r, g) /\ ForwardedIn(r, g) /\ n \in 0 .. Len(a)
        /\ a \in Seq(Char) /\ Len(a) < NPos /\ g.loc = LocAt(start, a) /\ g.thinkEnd = g.loc.end
    BY DEF Between, LocatedIn
  <1>2. h = [g EXCEPT !["begin"] = b]
    BY DEF FindAnswer
  <1>3. IsGen(h) /\ h["begin"] = b /\ Same(g, h, {"begin"})
    <2> HIDE DEF b
    <2> QED BY <1>1, <1>2, OneSet DEF Fields
  <1>4. /\ h.begin = b /\ h.acc = a /\ h.loc = g.loc /\ h.floor = g.floor /\ h.thinkEnd = g.thinkEnd
        /\ h.forwarded = g.forwarded /\ h.streamable = n /\ h.fed = g.fed /\ h.gate = g.gate
    <2> HIDE DEF b
    <2> QED BY <1>3 DEF Same, Fields
  <1>5. LocatedIn(r, h)
    BY <1>1, <1>4 DEF LocatedIn
  <1>6. ASSUME b = g.begin, g.begin # NPos PROVE BegunIn(r, h) /\ GatedIn(h) /\ ForwardedIn(r, h) /\ Found1(r, h)
    <2>1. h.begin = g.begin
      BY <1>4, <1>6
    <2> QED BY <1>1, <1>4, <1>6, <2>1 DEF BegunIn, GatedIn, FedIn, ForwardedIn, Found1
  <1>7. ASSUME g.begin = NPos, b = new PROVE BegunIn(r, h) /\ GatedIn(h) /\ ForwardedIn(r, h) /\ Found1(r, h)
    <2>0. b = AnswerBegin(LocAt(start, a), a, n)
      BY <1>1, <1>7
    <2> HIDE DEF b, new
    <2>1. g.fed = 0 /\ Shown(start, Take(a, g.forwarded)) = <<>> /\ g.forwarded \in 0 .. Len(a)
      BY <1>1, <1>7 DEF BegunIn, ForwardedIn
    <2>2. ForwardedIn(r, h)
      BY <1>4, <2>1 DEF ForwardedIn
    <2>3. FedIn(g) = <<>>
      BY <1>1, <1>7, <2>1, FedNothing DEF FedIn
    <2>4. CASE b = NPos
      <3>1. Shown(start, Take(a, n)) = <<>>
        BY <1>1, <2>0, <2>4, ShownNone
      <3>2. BegunIn(r, h)
        BY <1>4, <2>1, <2>4 DEF BegunIn
      <3>3. GatedIn(h)
        <4>1. FedIn(h) = FedIn(g)
          BY <1>4, <1>7, <2>4 DEF FedIn
        <4>2. GatedIn(g) /\ h.gate = g.gate
          BY <1>4
        <4> QED BY <4>1, <4>2 DEF GatedIn
      <3> QED BY <1>4, <2>2, <3>1, <3>2, <3>3 DEF Found1
    <2>5. CASE b # NPos
      <3>1. AnswerStarts(start, a, b) /\ b < n /\ b \in Nat
        BY <1>1, <2>0, <2>5, BeginFound
      <3>2. Len(a) \in Nat /\ b <= Len(a) /\ b + 0 = b /\ b + 0 <= b
        <4>1. Len(a) \in Nat
          BY <1>1, LenProperties
        <4> HIDE DEF a
        <4> QED BY <1>1, <3>1, <4>1
      <3>3. BegunIn(r, h)
        <4>1. g.fed \in 0 .. Len(a) - b
          BY <2>1, <3>1, <3>2
        <4> QED BY <1>4, <2>5, <3>1, <4>1 DEF BegunIn
      <3>4. GatedIn(h)
        <4>1. SubSeq(a, b + 1, b) = <<>>
          <5>1. b + 0 <= b /\ b <= Len(a) /\ 0 \in Nat
            BY <3>1, <3>2
          <5> QED BY <1>1, <3>1, <5>1, FedParts
        <4>2. FedIn(h) = <<>>
          BY <1>4, <2>1, <3>2, <4>1 DEF FedIn
        <4>3. GatedIn(g) /\ h.gate = g.gate
          BY <1>4
        <4> QED BY <2>3, <4>2, <4>3 DEF GatedIn
      <3>5. Found1(r, h)
        BY <1>4, <2>5 DEF Found1
      <3> QED BY <2>2, <3>3, <3>4, <3>5
    <2> QED BY <2>4, <2>5
  <1>8. g.begin = NPos => b = new
    <2>1. SUFFICES ASSUME g.begin = NPos, g.thinkEnd = NPos PROVE new = NPos
      OBVIOUS
    <2>2. g.loc.end = NPos
      BY <1>1, <2>1
    <2>3. g.loc.state # "answer"
      <3>1. SUFFICES ASSUME g.loc.state = "answer" PROVE FALSE
        OBVIOUS
      <3>2. g.loc.end \in 0 .. Len(a) /\ Len(a) \in Nat /\ NPos \in Nat
        BY <1>1, <3>1, LocKnows, LenProperties, NPosAssumption
      <3> HIDE DEF a
      <3> QED BY <1>1, <2>2, <3>2
    <2> QED BY <2>3 DEF AnswerBegin
  <1>9. g.begin # NPos => b = g.begin
    OBVIOUS
  <1> HIDE DEF b, new
  <1>10. BegunIn(r, h) /\ GatedIn(h) /\ ForwardedIn(r, h) /\ Found1(r, h)
    BY <1>6, <1>7, <1>8, <1>9
  <1>11. h.streamable \in 0 .. Len(h.acc)
    BY <1>1, <1>4
  <1> QED BY <1>3, <1>5, <1>10, <1>11 DEF Between

(* and feed the gate what it has not seen. *)
LEMMA FeedsGate ==
  ASSUME NEW r, r.start \in Starts, NEW g, Between(r, g), GatedIn(g), Found1(r, g),
         NEW h, h = FeedGate(g)
  PROVE  Between(r, h) /\ GatedIn(h) /\ Found1(r, h) /\ FedAll(h) /\ Same(g, h, {"gate", "fed"})
  <1> DEFINE start == r.start
             a == g.acc
             n == g.streamable
             b == g.begin
             k == g.fed
  <1>1. /\ IsGen(g) /\ LocatedIn(r, g) /\ BegunIn(r, g) /\ ForwardedIn(r, g) /\ n \in 0 .. Len(a)
        /\ a \in Seq(Char) /\ Len(a) < NPos /\ Len(a) \in Nat
    BY LenProperties DEF Between, LocatedIn
  <1>2. CASE b = NPos
    <2>1. h = g
      BY <1>2 DEF FeedGate
    <2>2. FedAll(h)
      BY <1>2, <2>1 DEF FedAll
    <2>3. Same(g, h, {"gate", "fed"})
      BY <2>1 DEF Same
    <2> QED BY <2>1, <2>2, <2>3
  <1>3. ASSUME b # NPos
        PROVE  b \in Nat /\ AnswerStarts(start, a, b) /\ k \in 0 .. Len(a) - b /\ k \in Nat /\ b + k <= Len(a)
    <2>1. b \in Nat /\ AnswerStarts(start, a, b) /\ k \in 0 .. Len(a) - b
      BY <1>1, <1>3 DEF BegunIn
    <2> HIDE DEF a, b, k
    <2> QED BY <1>1, <2>1
  <1>4. CASE b # NPos /\ n <= b + k
    <2>1. h = g
      BY <1>4 DEF FeedGate
    <2>2. FedAll(h)
      <3>1. b + k >= n
        <4> HIDE DEF a, b, k, n
        <4> QED BY <1>1, <1>3, <1>4
      <3> QED BY <2>1, <3>1 DEF FedAll
    <2>3. Same(g, h, {"gate", "fed"})
      BY <2>1 DEF Same
    <2> QED BY <2>1, <2>2, <2>3
  <1>5. CASE b # NPos /\ ~(n <= b + k)
    <2> DEFINE piece == SubSeq(a, b + k + 1, n)
               gate == GatePush(g.gate, piece)
               l == [g EXCEPT !["gate"] = gate]
    <2>0. h = [l EXCEPT !["fed"] = n - b]
      BY <1>5 DEF FeedGate
    <2>1. IsGen(l) /\ l["gate"] = gate /\ Same(g, l, {"gate"})
      <3> HIDE DEF gate
      <3> QED BY <1>1, OneSet DEF Fields
    <2> HIDE DEF l, gate
    <2>2. IsGen(h) /\ h["fed"] = n - b /\ Same(l, h, {"fed"})
      BY <2>0, <2>1, OneSet DEF Fields
    <2>3. /\ h.begin = b /\ h.acc = a /\ h.loc = g.loc /\ h.floor = g.floor /\ h.thinkEnd = g.thinkEnd
          /\ h.forwarded = g.forwarded /\ h.streamable = n /\ h.fed = n - b /\ h.gate = gate
      BY <2>1, <2>2 DEF Same, Fields
    <2>4. Same(g, h, {"gate", "fed"})
      BY <2>1, <2>2 DEF Same
    <2>5. LocatedIn(r, h) /\ Found1(r, h)
      BY <1>1, <2>3 DEF LocatedIn, Found1
    <2>6. n \in Nat /\ b \in Nat /\ k \in Nat /\ b + k <= n /\ n <= Len(a) /\ n - b \in 0 .. Len(a) - b
          /\ b + (n - b) = n
      <3> HIDE DEF a, b, k, n
      <3> QED BY <1>1, <1>3, <1>5
    <2>7. BegunIn(r, h)
      BY <1>3, <1>5, <2>3, <2>6 DEF BegunIn
    <2>8. FedAll(h)
      <3>1. b + (n - b) >= n
        <4> HIDE DEF b, n
        <4> QED BY <2>6
      <3> QED BY <2>3, <3>1 DEF FedAll
    <2> DEFINE x == SubSeq(a, b + 1, b + k)
               z == SubSeq(a, b + 1, n)
    <2>9. x \in Seq(Char) /\ Len(x) = k /\ piece \in Seq(Char) /\ Len(piece) = n - (b + k) /\ z = x \o piece
      <3> HIDE DEF a, b, k, n
      <3> QED BY <1>1, <2>6, FedParts
    <2>10. FedIn(g) = x /\ FedIn(h) = z
      <3>1. FedIn(h) = SubSeq(a, b + 1, b + (n - b))
        BY <2>3 DEF FedIn
      <3> QED BY <2>6, <3>1 DEF FedIn
    <2> HIDE DEF x, z, piece
    <2>11. Len(x) + Len(piece) < NPos
      <3>1. NPos \in Nat
        BY NPosAssumption
      <3> HIDE DEF a, b, k, n
      <3> QED BY <1>1, <2>6, <2>9, <3>1
    <2>12. GatePush(Gate, z) = gate
      <3>1. g.gate = GatePush(Gate, x)
        BY <2>10 DEF GatedIn
      <3>2. GatePush(GatePush(Gate, x), piece) = GatePush(Gate, x \o piece)
        BY <2>9, <2>11, GateResumes
      <3> QED BY <2>9, <3>1, <3>2 DEF gate, piece
    <2>13. GatedIn(h)
      BY <2>3, <2>10, <2>12 DEF GatedIn
    <2>14. g.gate.streamed <= gate.streamed /\ g.gate.streamed \in Nat /\ gate.streamed \in Nat
      <3>1. LetThrough(x) <= LetThrough(x \o piece) /\ LetThrough(x) \in 0 .. Len(x)
        BY <2>9, <2>11, GateIsSafe
      <3>2. LetThrough(z) \in 0 .. Len(z)
        <4>1. z \in Seq(Char) /\ <<>> \in Seq(Char) /\ Len(<<>>) = 0 /\ Len(z) = Len(x) + Len(piece)
          BY <2>9, TextJoined, EmptyText
        <4>2. Len(z) + Len(<<>>) < NPos
          <5>1. Len(z) \in Nat
            BY <4>1, LenProperties
          <5> QED BY <2>11, <4>1, <5>1
        <4> QED BY <4>1, <4>2, GateIsSafe
      <3>3. g.gate.streamed = LetThrough(x) /\ gate.streamed = LetThrough(z)
        BY <2>10, <2>12 DEF GatedIn, LetThrough
      <3> QED BY <2>9, <3>1, <3>2, <3>3
    <2>15. ForwardedIn(r, h)
      <3>1. g.forwarded \in 0 .. Len(a)
            /\ (Shown(start, Take(a, g.forwarded)) # <<>> => g.forwarded <= b + g.gate.streamed)
        BY <1>1 DEF ForwardedIn
      <3>2. g.forwarded <= b + g.gate.streamed => g.forwarded <= b + gate.streamed
        <4> DEFINE f == g.forwarded
                   s == g.gate.streamed
                   s2 == gate.streamed
        <4>1. f \in Nat /\ b \in Nat /\ s \in Nat /\ s2 \in Nat /\ s <= s2
          BY <2>6, <2>14, <3>1
        <4> HIDE DEF f, b, s, s2
        <4>2. f <= b + s => f <= b + s2
          BY ONLY <4>1
        <4> QED BY <4>2 DEF f, s, s2
      <3> QED BY <1>5, <2>3, <3>1, <3>2 DEF ForwardedIn
    <2>16. h.streamable \in 0 .. Len(h.acc)
      BY <1>1, <2>3
    <2> QED BY <2>2, <2>4, <2>5, <2>7, <2>8, <2>13, <2>15, <2>16 DEF Between
  <1> QED BY <1>2, <1>4, <1>5

\* The gate after FlushGated, which finishes it or not.
GateIn(g, finishing) == IF finishing THEN FinishedIn(g) ELSE GatedIn(g)

\* How far the gate lets the text through.
GateReach(g) == g.gate.streamed \in Nat /\ (g.begin # NPos => g.begin + g.gate.streamed \in 0 .. Len(g.acc))

(* The text the gate has been fed. *)
LEMMA FedRange ==
  ASSUME NEW r, r.start \in Starts, NEW g, LocatedIn(r, g), BegunIn(r, g)
  PROVE  /\ FedIn(g) \in Seq(Char) /\ Len(FedIn(g)) < NPos
         /\ g.begin # NPos => g.begin \in Nat /\ Len(FedIn(g)) \in 0 .. Len(g.acc) - g.begin
         /\ g.begin = NPos => FedIn(g) = <<>>
  <1> DEFINE a == g.acc
             b == g.begin
             k == g.fed
  <1>1. a \in Seq(Char) /\ Len(a) < NPos /\ Len(a) \in Nat /\ NPos \in Nat
    BY LenProperties, NPosAssumption DEF LocatedIn
  <1>2. CASE b = NPos
    <2>1. k = 0
      BY <1>2 DEF BegunIn
    <2>2. FedIn(g) = <<>>
      BY <1>1, <1>2, <2>1, FedNothing DEF FedIn
    <2>3. <<>> \in Seq(Char) /\ Len(<<>>) = 0 /\ 0 < NPos
      BY EmptyText, NPosAssumption
    <2> QED BY <1>2, <2>2, <2>3
  <1>3. CASE b # NPos
    <2>1. b \in Nat /\ k \in 0 .. Len(a) - b
      BY <1>3 DEF BegunIn
    <2> HIDE DEF a, b, k
    <2>2. k \in Nat /\ b + k <= Len(a) /\ k <= Len(a) - b
      BY <1>1, <2>1
    <2>3. SubSeq(a, b + 1, b + k) \in Seq(Char) /\ Len(SubSeq(a, b + 1, b + k)) = k
      BY <1>1, <2>1, <2>2, FedParts
    <2>4. k < NPos
      BY <1>1, <2>1, <2>2
    <2> QED BY <1>3, <2>1, <2>3, <2>4 DEF FedIn, a, b, k
  <1> QED BY <1>2, <1>3

(* The gate does not reach behind what it has been fed. *)
LEMMA ReachOfGate ==
  ASSUME NEW r, r.start \in Starts, NEW g, LocatedIn(r, g), BegunIn(r, g),
         GatedIn(g) \/ FinishedIn(g)
  PROVE  GateReach(g)
  <1> DEFINE a == g.acc
             x == FedIn(g)
             b == g.begin
             s == g.gate.streamed
  <1>1. /\ x \in Seq(Char) /\ Len(x) < NPos
        /\ b # NPos => b \in Nat /\ Len(x) \in 0 .. Len(a) - b
    BY FedRange
  <1>2. Len(a) \in Nat
    BY LenProperties DEF LocatedIn
  <1>3. <<>> \in Seq(Char) /\ Len(<<>>) = 0 /\ Len(x) \in Nat
    BY <1>1, EmptyText, LenProperties
  <1>4. LetThrough(x) \in 0 .. Len(x) /\ LetOut(x) \in LetThrough(x) .. Len(x)
    <2>1. Len(x) + Len(<<>>) < NPos
      BY <1>1, <1>3, NPosAssumption
    <2> QED BY <1>1, <1>3, <2>1, GateIsSafe
  <1>5. s = LetThrough(x) \/ s = LetOut(x)
    BY DEF GatedIn, FinishedIn, LetThrough, LetOut
  <1>6. s \in 0 .. Len(x)
    <2> HIDE DEF x, s
    <2> QED BY <1>3, <1>4, <1>5
  <1>7. b # NPos => b + s \in 0 .. Len(a)
    <2> HIDE DEF x, s, b, a
    <2> QED BY <1>1, <1>2, <1>3, <1>6
  <1>8. s \in Nat
    BY <1>6
  <1> QED BY <1>7, <1>8 DEF GateReach

(* The end of the reply's text lets out what the gate still held. *)
LEMMA FinishesGate ==
  ASSUME NEW r, r.start \in Starts, NEW g, Between(r, g), GatedIn(g), Found1(r, g), FedAll(g),
         NEW finishing \in BOOLEAN, NEW h, h = FinishGate(g, finishing)
  PROVE  Between(r, h) /\ GateIn(h, finishing) /\ Found1(r, h) /\ FedAll(h) /\ Same(g, h, {"gate"})
  <1>1. /\ IsGen(g) /\ LocatedIn(r, g) /\ BegunIn(r, g) /\ ForwardedIn(r, g)
        /\ g.streamable \in 0 .. Len(g.acc)
    BY DEF Between
  <1>2. Same(g, g, {"gate"})
    BY DEF Same
  <1>3. CASE ~finishing
    <2>1. h = g
      BY <1>3 DEF FinishGate
    <2> QED BY <1>2, <1>3, <2>1 DEF GateIn
  <1>4. CASE finishing /\ g.begin = NPos
    <2>1. h = g
      BY <1>4 DEF FinishGate
    <2>2. FedIn(g) = <<>>
      BY <1>1, <1>4, FedRange
    <2>3. GatePush(Gate, <<>>) = Gate /\ Gate = GateOpen(<<>>, 0)
      BY GateRests
    <2>4. GateFinish(GateOpen(<<>>, 0)) = GateOpen(<<>>, 0)
      <3>1. GateFinish(GateOpen(<<>>, 0)) = GateOpen(<<>>, 0 + Len(<<>>))
        BY GateFinished
      <3>2. 0 + Len(<<>>) = 0
        BY EmptyText
      <3> QED BY <3>1, <3>2
    <2>5. FinishedIn(g)
      BY <2>2, <2>3, <2>4 DEF GatedIn, FinishedIn
    <2> QED BY <1>2, <1>4, <2>1, <2>5 DEF GateIn
  <1>5. CASE finishing /\ g.begin # NPos
    <2> DEFINE gate == GateFinish(g.gate)
    <2>1. h = [g EXCEPT !["gate"] = gate]
      BY <1>5 DEF FinishGate
    <2> HIDE DEF gate
    <2>2. IsGen(h) /\ h["gate"] = gate /\ Same(g, h, {"gate"})
      BY <1>1, <2>1, OneSet DEF Fields
    <2>3. /\ h.begin = g.begin /\ h.acc = g.acc /\ h.loc = g.loc /\ h.floor = g.floor
          /\ h.thinkEnd = g.thinkEnd /\ h.forwarded = g.forwarded
          /\ h.streamable = g.streamable /\ h.fed = g.fed /\ h.gate = gate
      BY <2>2 DEF Same, Fields
    <2>4. LocatedIn(r, h) /\ BegunIn(r, h) /\ Found1(r, h) /\ FedAll(h) /\ FedIn(h) = FedIn(g)
      BY <1>1, <2>3 DEF LocatedIn, BegunIn, Found1, FedAll, FedIn
    <2>5. FinishedIn(h)
      BY <2>3, <2>4 DEF GatedIn, FinishedIn, gate
    <2>6. ForwardedIn(r, h)
      <3> DEFINE x == FedIn(g)
                 f == g.forwarded
                 b == g.begin
                 s == g.gate.streamed
                 s2 == gate.streamed
      <3>1. s = LetThrough(x) /\ s2 = LetOut(x)
        BY DEF GatedIn, LetThrough, LetOut, gate
      <3>2. x \in Seq(Char) /\ Len(x) < NPos /\ b \in Nat
        BY <1>1, <1>5, FedRange
      <3>3. <<>> \in Seq(Char) /\ Len(<<>>) = 0 /\ Len(x) \in Nat
        BY <3>2, EmptyText, LenProperties
      <3>4. LetThrough(x) \in 0 .. Len(x) /\ LetOut(x) \in LetThrough(x) .. Len(x)
        <4>1. Len(x) + Len(<<>>) < NPos
          BY <3>2, <3>3, NPosAssumption
        <4> QED BY <3>2, <3>3, <4>1, GateIsSafe
      <3>5. f \in 0 .. Len(g.acc) /\ (Shown(r.start, Take(g.acc, f)) # <<>> => f <= b + s)
        BY <1>1 DEF ForwardedIn
      <3>6. Len(g.acc) \in Nat
        BY <1>1, LenProperties DEF LocatedIn
      <3>7. f <= b + s => f <= b + s2
        <4> HIDE DEF f, b, s, s2, x
        <4> QED BY <3>1, <3>2, <3>3, <3>4, <3>5, <3>6
      <3> QED BY <1>5, <2>3, <3>5, <3>7 DEF ForwardedIn
    <2> QED BY <1>1, <1>5, <2>2, <2>3, <2>4, <2>5, <2>6 DEF Between, GateIn
  <1> QED BY <1>3, <1>4, <1>5

\* What is handed to the sink continues what it was handed before.
HandsOn(g, h, text) ==
  /\ text \in Seq(Char) /\ g.forwarded \in 0 .. Len(g.acc) /\ h.forwarded \in 0 .. Len(g.acc)
  /\ Take(g.acc, h.forwarded) = Take(g.acc, g.forwarded) \o text

\* The text from f to s takes what ends at f to what ends at the farther one.
Extends(a, f, s, m) ==
  /\ m \in 0 .. Len(a) /\ m = (IF f <= s THEN s ELSE f)
  /\ SubSeq(a, f + 1, s) \in Seq(Char) /\ Take(a, m) = Take(a, f) \o SubSeq(a, f + 1, s)

(* It does, and is empty where its end is before its start. *)
LEMMA PartToHand ==
  ASSUME NEW a \in Seq(Char), NEW f \in 0 .. Len(a), NEW s \in 0 .. Len(a)
  PROVE  Extends(a, f, s, Max({f, s}))
  <1> DEFINE m == Max({f, s})
  <1>1. f \in Nat /\ s \in Nat /\ Len(a) \in Nat
    BY LenProperties
  <1>2. m = IF f <= s THEN s ELSE f
    BY <1>1, MinMaxOfTwo
  <1>3. CASE f <= s
    <2>1. f \in 0 .. s
      BY <1>1, <1>3
    <2>2. SubSeq(a, f + 1, s) \in Seq(Char)
      BY <1>1, <1>3, TextParts
    <2>3. Take(a, f) \o SubSeq(a, f + 1, s) = Take(a, s)
      BY <2>1, CutInTwo
    <2> QED BY <1>2, <1>3, <2>2, <2>3 DEF Extends
  <1>4. CASE ~(f <= s)
    <2>1. SubSeq(a, f + 1, s) = <<>>
      <3>1. SubSeq(a, f + 1, s) = [i \in 1 .. (1 + s) - (f + 1) |-> a[i + (f + 1) - 1]]
        BY <1>1 DEF SubSeq
      <3>2. 1 .. (1 + s) - (f + 1) = 1 .. 0
        BY ONLY <1>1, <1>4
      <3>3. SubSeq(a, f + 1, s) = [i \in 1 .. 0 |-> a[i + (f + 1) - 1]]
        BY <3>1, <3>2
      <3> QED BY <3>3
    <2>2. Take(a, f) \in Seq(Char)
      BY <1>1, TextParts
    <2>3. <<>> \in Seq(Char) /\ Take(a, f) \o <<>> = Take(a, f)
      BY <2>2, EmptyText
    <2> QED BY <1>2, <1>4, <2>1, <2>3 DEF Extends
  <1> QED BY <1>3, <1>4

(* What the gate lets through goes to the sink. *)
LEMMA ForwardsSafe ==
  ASSUME NEW r, r.start \in Starts, NEW g, Between(r, g), Found1(r, g), GateReach(g),
         NEW h, h = ForwardSafe(g).g, NEW text, text = ForwardSafe(g).text
  PROVE  /\ IsGen(h) /\ Same(g, h, {"forwarded"}) /\ ForwardedIn(r, h) /\ HandsOn(g, h, text)
  <1> DEFINE a == g.acc
             f == g.forwarded
             b == g.begin
             st == g.gate.streamed
             safe == IF g.begin = NPos THEN g.streamable ELSE g.begin + g.gate.streamed
             m == Max({g.forwarded, safe})
  <1>1. /\ IsGen(g) /\ LocatedIn(r, g) /\ BegunIn(r, g) /\ ForwardedIn(r, g)
        /\ g.streamable \in 0 .. Len(a) /\ a \in Seq(Char)
        /\ f \in 0 .. Len(a)
    BY DEF Between, LocatedIn, ForwardedIn
  <1>2. safe \in 0 .. Len(a)
    BY <1>1 DEF GateReach
  <1>3. h = [g EXCEPT !["forwarded"] = m] /\ text = SubSeq(a, f + 1, safe)
    BY DEF ForwardSafe
  <1> HIDE DEF m
  <1>4. IsGen(h) /\ h["forwarded"] = m /\ Same(g, h, {"forwarded"})
    BY <1>1, <1>3, OneSet DEF Fields
  <1>5. /\ h.begin = b /\ h.acc = a /\ h.gate = g.gate /\ h.forwarded = m
    BY <1>4 DEF Same, Fields
  <1>6. /\ m \in 0 .. Len(a) /\ m = (IF f <= safe THEN safe ELSE f)
        /\ text \in Seq(Char) /\ Take(a, m) = Take(a, f) \o text
    <2>1. m = Max({f, safe})
      BY DEF m
    <2>2. a \in Seq(Char) /\ f \in 0 .. Len(a)
      BY <1>1
    <2> HIDE DEF safe, f, a
    <2>3. Extends(a, f, safe, Max({f, safe}))
      BY <1>2, <2>2, PartToHand
    <2> QED BY <1>3, <2>1, <2>3 DEF Extends
  <1>7. HandsOn(g, h, text)
    BY <1>1, <1>5, <1>6 DEF HandsOn
  <1>8. Shown(r.start, Take(a, m)) # <<>> => b # NPos /\ m <= b + st
    <2>1. Shown(r.start, Take(a, f)) # <<>> => b # NPos /\ f <= b + st
      BY <1>1 DEF ForwardedIn
    <2>2. b = NPos => Shown(r.start, Take(a, g.streamable)) = <<>>
      BY DEF Found1
    <2>3. CASE b = NPos
      <3>1. safe = g.streamable
        BY <2>3
      <3> QED BY <1>6, <2>1, <2>2, <2>3, <3>1
    <2>4. CASE b # NPos
      <3>1. safe = b + st
        BY <2>4
      <3>2. m = safe \/ m = f
        BY <1>6
      <3>3. safe <= b + st
        <4>1. safe \in Int
          BY <1>2
        <4> HIDE DEF safe
        <4> QED BY <3>1, <4>1
      <3> QED BY <2>1, <2>4, <3>2, <3>3
    <2> QED BY <2>3, <2>4
  <1>9. ForwardedIn(r, h)
    BY <1>5, <1>6, <1>8 DEF ForwardedIn
  <1> QED BY <1>4, <1>7, <1>9

\* Between two of RunRequest's steps, and at FlushGated's start.
Entry(r, g) ==
  /\ IsGen(g) /\ Looked(r, g) /\ BegunIn(r, g) /\ GatedIn(g) /\ ForwardedIn(r, g)
  /\ g.streamable \in 0 .. Len(g.acc)

FlushChanges == {"loc", "floor", "thinkEnd", "begin", "gate", "fed", "forwarded"}

(* What the text's parts say does not depend on the other locals. *)
LEMMA OnlyOnText ==
  ASSUME NEW r, NEW g, NEW h,
         h.acc = g.acc, h.begin = g.begin, h.fed = g.fed, h.gate = g.gate,
         h.forwarded = g.forwarded
  PROVE  /\ BegunIn(r, g) => BegunIn(r, h)
         /\ GatedIn(g) => GatedIn(h)
         /\ FinishedIn(g) => FinishedIn(h)
         /\ ForwardedIn(r, g) => ForwardedIn(r, h)
  BY DEF BegunIn, GatedIn, FinishedIn, ForwardedIn, FedIn

(* FlushGated leaves the locator, the gate and the watermark where one     *)
(* look at the whole text would put them.                                  *)
LEMMA FlushesGated ==
  ASSUME NEW r, r.start \in Starts, NEW g, Entry(r, g), NEW finishing \in BOOLEAN,
         NEW res, res = FlushGated(g, finishing)
  PROVE  /\ Between(r, res.g) /\ GateIn(res.g, finishing) /\ FedAll(res.g)
         /\ Same(g, res.g, FlushChanges) /\ HandsOn(g, res.g, res.text)
  <1> DEFINE n == NoteReasoningProgress(g)
             a == FindAnswer(n)
             f == FeedGate(a)
             e == FinishGate(f, finishing)
             h == ForwardSafe(e).g
             text == ForwardSafe(e).text
  <1>1. res.g = h /\ res.text = text
    BY DEF FlushGated
  <1>2. /\ IsGen(g) /\ Looked(r, g) /\ BegunIn(r, g) /\ GatedIn(g) /\ ForwardedIn(r, g)
        /\ g.streamable \in 0 .. Len(g.acc)
    BY DEF Entry
  <1> HIDE DEF h, text
  <1>3. /\ IsGen(n) /\ Same(g, n, {"loc", "floor", "thinkEnd"}) /\ LocatedIn(r, n)
        /\ Between(r, n) /\ GatedIn(n)
    <2> HIDE DEF n
    <2>1. IsGen(n) /\ Same(g, n, {"loc", "floor", "thinkEnd"}) /\ LocatedIn(r, n)
      BY <1>2, NoteProgress DEF n
    <2>2. /\ n.acc = g.acc /\ n.begin = g.begin /\ n.fed = g.fed /\ n.gate = g.gate
          /\ n.forwarded = g.forwarded /\ n.streamable = g.streamable
      BY <2>1 DEF Same, Fields
    <2>3. BegunIn(r, n) /\ GatedIn(n) /\ ForwardedIn(r, n)
      BY <1>2, <2>2, OnlyOnText
    <2> QED BY <1>2, <2>1, <2>2, <2>3 DEF Between
  <1> HIDE DEF n
  <1>4. Between(r, a) /\ GatedIn(a) /\ Found1(r, a) /\ Same(n, a, {"begin"})
    BY <1>3, FindsAnswer
  <1> HIDE DEF a
  <1>5. Between(r, f) /\ GatedIn(f) /\ Found1(r, f) /\ FedAll(f) /\ Same(a, f, {"gate", "fed"})
    BY <1>4, FeedsGate
  <1> HIDE DEF f
  <1>6. /\ Between(r, e) /\ GateIn(e, finishing) /\ Found1(r, e) /\ FedAll(e) /\ Same(f, e, {"gate"})
    BY <1>5, FinishesGate
  <1> HIDE DEF e
  <1>7. GateReach(e)
    <2>1. GatedIn(e) \/ FinishedIn(e)
      BY <1>6 DEF GateIn
    <2> QED BY <1>6, <2>1, ReachOfGate DEF Between
  <1>8. /\ IsGen(h) /\ Same(e, h, {"forwarded"}) /\ ForwardedIn(r, h) /\ HandsOn(e, h, text)
    BY <1>6, <1>7, ForwardsSafe DEF h, text
  <1>9. /\ h.acc = e.acc /\ h.begin = e.begin /\ h.fed = e.fed /\ h.gate = e.gate /\ h.loc = e.loc
        /\ h.floor = e.floor /\ h.thinkEnd = e.thinkEnd /\ h.streamable = e.streamable
    BY <1>8 DEF Same, Fields
  <1>10. Between(r, h) /\ GateIn(h, finishing) /\ FedAll(h)
    BY <1>6, <1>8, <1>9 DEF Between, GateIn, FedAll, LocatedIn, BegunIn, GatedIn, FinishedIn, FedIn
  <1>11. Same(g, h, FlushChanges)
    BY <1>3, <1>4, <1>5, <1>6, <1>8 DEF Same, Fields, FlushChanges
  <1>12. e.acc = g.acc /\ e.forwarded = g.forwarded
    BY <1>3, <1>4, <1>5, <1>6 DEF Same, Fields
  <1>13. HandsOn(g, h, text)
    BY <1>8, <1>12 DEF HandsOn
  <1> QED BY <1>1, <1>10, <1>11, <1>13

(* A part of a text stays that part of it when the text grows. *)
LEMMA PartKept ==
  ASSUME NEW a \in Seq(Char), NEW u \in Seq(Char), NEW n \in 0 .. Len(a), NEW m \in 0 .. n
  PROVE  SubSeq(a \o u, m + 1, n) = SubSeq(a, m + 1, n)
  <1>1. a \o u \in Seq(Char) /\ Len(a) \in Nat /\ Len(u) \in Nat /\ Len(a \o u) = Len(a) + Len(u)
    BY TextJoined
  <1>2. n \in 0 .. Len(a \o u)
    BY <1>1
  <1>3. SubSeq(a \o u, m + 1, n) = Drop(Take(a \o u, n), m)
    BY <1>1, <1>2, CutInTwo
  <1>4. SubSeq(a, m + 1, n) = Drop(Take(a, n), m)
    BY CutInTwo
  <1>5. Take(a \o u, n) = Take(a, n)
    BY DropOfJoin
  <1> QED BY <1>3, <1>4, <1>5

GrowChanges == {"acc", "hold", "tail", "streamable", "stopPos", "cut"}

(* New text: the locator has not seen it yet, all else is as it was. *)
LEMMA GrowsText ==
  ASSUME NEW r, r.start \in Starts, NEW g, Between(r, g), GatedIn(g),
         NEW u \in Seq(Char), Len(g.acc) + Len(u) < NPos,
         NEW h, IsGen(h), Same(g, h, GrowChanges), h.acc = g.acc \o u,
         h.streamable \in 0 .. Len(h.acc)
  PROVE  /\ Entry(r, h)
         /\ Take(h.acc, h.forwarded) = Take(g.acc, g.forwarded)
  <1> DEFINE a == g.acc
             v == g.acc \o u
             b == g.begin
             k == g.fed
  <1>1. /\ h.begin = b /\ h.fed = k /\ h.gate = g.gate /\ h.loc = g.loc /\ h.floor = g.floor
        /\ h.thinkEnd = g.thinkEnd /\ h.forwarded = g.forwarded
    BY DEF Same, Fields, GrowChanges
  <1>2. /\ LocatedIn(r, g) /\ BegunIn(r, g) /\ ForwardedIn(r, g) /\ a \in Seq(Char) /\ Len(a) < NPos
    BY DEF Between, LocatedIn
  <1>3. v \in Seq(Char) /\ Len(v) = Len(a) + Len(u) /\ Len(a) \in Nat /\ Len(u) \in Nat
    BY <1>2, TextJoined
  <1>4. Looked(r, h)
    <2>1. Len(h.acc) < NPos
      BY <1>3
    <2>2. g.loc = LocAt(r.start, a) /\ g.floor = g.loc.end /\ g.thinkEnd = g.loc.end
      BY <1>2 DEF LocatedIn
    <2> QED BY <1>1, <1>2, <1>3, <2>1, <2>2 DEF Looked
  <1>5. Take(v, g.forwarded) = Take(a, g.forwarded)
    <2>1. g.forwarded \in 0 .. Len(a)
      BY <1>2 DEF ForwardedIn
    <2> HIDE DEF a
    <2> QED BY <1>2, <2>1, DropOfJoin DEF a
  <1>6. ForwardedIn(r, h)
    <2>1. g.forwarded \in 0 .. Len(v)
      <3>1. g.forwarded \in 0 .. Len(a)
        BY <1>2 DEF ForwardedIn
      <3> HIDE DEF a, v
      <3> QED BY <1>3, <3>1
    <2> QED BY <1>1, <1>2, <1>5, <2>1 DEF ForwardedIn
  <1>7. BegunIn(r, h) /\ GatedIn(h)
    <2>1. CASE b = NPos
      <3>1. k = 0
        BY <1>2, <2>1 DEF BegunIn
      <3>2. FedIn(g) = <<>>
        BY <1>2, <2>1, <3>1, FedNothing DEF FedIn
      <3>3. FedIn(h) = <<>>
        <4>1. h.begin = NPos /\ h.fed = 0 /\ h.acc \in Seq(Char) /\ Len(h.acc) < NPos
          BY <1>1, <1>3, <2>1, <3>1
        <4> QED BY <4>1, FedNothing DEF FedIn
      <3> QED BY <1>1, <2>1, <3>1, <3>2, <3>3 DEF BegunIn, GatedIn
    <2>2. CASE b # NPos
      <3>1. b \in Nat /\ AnswerStarts(r.start, a, b) /\ k \in 0 .. Len(a) - b
        BY <1>2, <2>2 DEF BegunIn
      <3>2. LocAt(r.start, a).state = "answer"
        BY <3>1 DEF AnswerStarts
      <3>3. AnswerStarts(r.start, v, b)
        BY <1>2, <3>1, <3>2, StartsKept
      <3>4. b \in 0 .. b + k /\ b + k \in 0 .. Len(a) /\ k \in 0 .. Len(v) - b
        <4> HIDE DEF a, v, b, k
        <4> QED BY <1>3, <3>1
      <3>5. SubSeq(v, b + 1, b + k) = SubSeq(a, b + 1, b + k)
        <4> DEFINE n == b + k
        <4> HIDE DEF a, b, k, n
        <4>1. n \in 0 .. Len(a) /\ b \in 0 .. n
          BY <3>4 DEF n
        <4>2. SubSeq(a \o u, b + 1, n) = SubSeq(a, b + 1, n)
          BY <1>2, <4>1, PartKept
        <4> QED BY <4>2 DEF n, a
      <3>6. FedIn(h) = FedIn(g)
        BY <1>1, <3>5 DEF FedIn
      <3>7. GatedIn(h)
        BY <1>1, <3>6 DEF GatedIn
      <3>8. BegunIn(r, h)
        BY <1>1, <2>2, <3>1, <3>3, <3>4 DEF BegunIn
      <3> QED BY <3>7, <3>8
    <2> QED BY <2>1, <2>2
  <1>8. Entry(r, h)
    BY <1>4, <1>6, <1>7 DEF Entry
  <1> QED BY <1>1, <1>5, <1>8

\* How far text may be streamed once k more characters are handed over.
Bounded(g, k) ==
  IF g.stopPos # NPos /\ g.streamable + k > g.stopPos THEN g.stopPos ELSE g.streamable + k

\* The text handed to the sink between two states of the locals.
Passes(g, h, text) ==
  /\ text \in Seq(Char) /\ g.forwarded \in 0 .. Len(g.acc) /\ h.forwarded \in 0 .. Len(h.acc)
  /\ g.acc \in Seq(Char) /\ h.acc \in Seq(Char) /\ Len(h.acc) < NPos
  /\ Take(h.acc, h.forwarded) = Take(g.acc, g.forwarded) \o text

(* A locator that has seen all of the text has seen some of it. *)
LEMMA LocatedLooked ==
  ASSUME NEW r, NEW g, LocatedIn(r, g)
  PROVE  Looked(r, g)
  <1>1. g.acc \in Seq(Char)
    BY DEF LocatedIn
  <1>2. <<>> \in Seq(Char) /\ g.acc = g.acc \o <<>>
    BY <1>1, EmptyText
  <1> QED BY <1>1, <1>2 DEF LocatedIn, Looked

\* The locals with text appended, and what routing a part of it leaves.
RouteOf(r, g, g1, u) ==
  /\ Between(r, g) /\ GatedIn(g) /\ Len(g.acc) + Len(u) < NPos
  /\ IsGen(g1) /\ Same(g, g1, {"acc", "hold", "tail"}) /\ g1.acc = g.acc \o u
RoutedTo(r, g, g1, kept, x) ==
  /\ Entry(r, x.g) /\ Same(g1, x.g, FlushChanges \cup {"streamable"})
  /\ x.g.streamable = IF kept = <<>> THEN g.streamable ELSE Bounded(g, Len(kept))
  /\ Passes(g, x.g, x.text)

(* Text that survives the stop strings goes through FlushGated, or, when   *)
(* there is none, nothing happens.                                         *)
LEMMA Routes ==
  ASSUME NEW r, r.start \in Starts, Live(r), NEW g, NEW u \in Seq(Char),
         NEW g1, RouteOf(r, g, g1, u),
         NEW kept \in Seq(Char), Bounded(g, Len(kept)) \in 0 .. Len(g1.acc)
  PROVE  RoutedTo(r, g, g1, kept, Routed(r, g1, kept))
  <1>0. /\ Between(r, g) /\ GatedIn(g) /\ Len(g.acc) + Len(u) < NPos
        /\ IsGen(g1) /\ Same(g, g1, {"acc", "hold", "tail"}) /\ g1.acc = g.acc \o u
    BY DEF RouteOf
  <1> DEFINE x == Routed(r, g1, kept)
             v == g.acc \o u
             s == Bounded(g, Len(kept))
             bounded == [g1 EXCEPT !["streamable"] = s]
             no == FALSE
  <1>1. /\ LocatedIn(r, g) /\ ForwardedIn(r, g) /\ g.acc \in Seq(Char)
        /\ g.forwarded \in 0 .. Len(g.acc) /\ g.streamable \in 0 .. Len(g.acc)
    BY <1>0 DEF Between, LocatedIn, ForwardedIn
  <1>2. v \in Seq(Char) /\ Len(v) = Len(g.acc) + Len(u) /\ Len(g.acc) \in Nat /\ Len(u) \in Nat
    BY <1>1, TextJoined
  <1>3. /\ g1.streamable = g.streamable /\ g1.stopPos = g.stopPos /\ g1.forwarded = g.forwarded
    BY <1>0 DEF Same, Fields
  <1>4. g.forwarded \in 0 .. Len(v) /\ g.streamable \in 0 .. Len(v) /\ Len(v) < NPos
    <2> HIDE DEF v
    <2> QED BY <1>0, <1>1, <1>2
  <1>5. CASE kept = <<>>
    <2>1. x.g = g1 /\ x.text = <<>>
      BY <1>5 DEF Routed
    <2>2. Same(g, g1, GrowChanges)
      BY <1>0 DEF Same, GrowChanges
    <2>3. Entry(r, g1) /\ Take(g1.acc, g1.forwarded) = Take(g.acc, g.forwarded)
      BY <1>0, <1>3, <1>4, <2>2, GrowsText
    <2>4. Same(g1, x.g, FlushChanges \cup {"streamable"})
      BY <2>1 DEF Same
    <2>5. <<>> \in Seq(Char) /\ Take(g.acc, g.forwarded) \o <<>> = Take(g.acc, g.forwarded)
      <3>1. Take(g.acc, g.forwarded) \in Seq(Char)
        BY <1>1, TextParts
      <3> QED BY <3>1, EmptyText
    <2>6. Passes(g, x.g, x.text)
      BY <1>0, <1>1, <1>2, <1>3, <1>4, <2>1, <2>3, <2>5 DEF Passes
    <2> QED BY <1>3, <1>5, <2>1, <2>3, <2>4, <2>6 DEF RoutedTo
  <1>6. CASE kept # <<>>
    <2>1. x = FlushGated(bounded, no)
      BY <1>3, <1>6 DEF Routed, Forward, Bounded
    <2> HIDE DEF s, x
    <2>2. IsGen(bounded) /\ bounded["streamable"] = s /\ Same(g1, bounded, {"streamable"})
      BY <1>0, OneSet DEF Fields
    <2> HIDE DEF bounded
    <2>3. bounded.acc = g1.acc /\ bounded.streamable = s /\ bounded.forwarded = g.forwarded
      BY <1>0, <1>3, <2>2 DEF Same, Fields
    <2>4. Same(g, bounded, GrowChanges)
      BY <1>0, <2>2 DEF Same, GrowChanges, Fields
    <2>5. s \in 0 .. Len(g1.acc)
      BY DEF s
    <2>6. Entry(r, bounded) /\ Take(bounded.acc, bounded.forwarded) = Take(g.acc, g.forwarded)
      BY <1>0, <2>2, <2>3, <2>4, <2>5, GrowsText
    <2>7. no \in BOOLEAN
      OBVIOUS
    <2> HIDE DEF no
    <2>8. /\ Between(r, x.g) /\ GateIn(x.g, no) /\ Same(bounded, x.g, FlushChanges)
          /\ HandsOn(bounded, x.g, x.text)
      BY <2>1, <2>6, <2>7, FlushesGated
    <2>9. GatedIn(x.g)
      BY <2>8 DEF GateIn, no
    <2>10. x.g.acc = g1.acc /\ x.g.streamable = s
      BY <2>3, <2>8 DEF Same, Fields, FlushChanges
    <2>11. Entry(r, x.g)
      BY <2>8, <2>9, LocatedLooked DEF Between, Entry
    <2>12. Same(g1, x.g, FlushChanges \cup {"streamable"})
      BY <2>2, <2>8 DEF Same, FlushChanges
    <2>13. Passes(g, x.g, x.text)
      BY <1>0, <1>1, <1>2, <1>4, <2>3, <2>6, <2>8, <2>10 DEF Passes, HandsOn
    <2> QED BY <1>6, <2>10, <2>11, <2>12, <2>13 DEF s, x, RoutedTo
  <1> QED BY <1>5, <1>6

---------------------------------------------------------------------------
(* The decoder holds back at most what it was given. *)
LEMMA DecoderCuts ==
  ASSUME NEW hold \in Seq(Char), NEW token \in Seq(Char), NEW d, d = DecoderPush(hold, token)
  PROVE  /\ d.piece \in Seq(Char) /\ d.hold \in Seq(Char)
         /\ Len(d.piece) + Len(d.hold) = Len(hold) + Len(token)
  <1> DEFINE buf == hold \o token
             safe == IF buf # <<>> /\ Last(buf) = LeadByte THEN Len(buf) - 1 ELSE Len(buf)
  <1>1. buf \in Seq(Char) /\ Len(buf) = Len(hold) + Len(token) /\ Len(buf) \in Nat
    BY TextJoined, LenProperties
  <1>2. buf # <<>> => Len(buf) # 0
    BY <1>1, EmptyText
  <1>3. d.piece = Take(buf, safe) /\ d.hold = Drop(buf, safe)
    BY DEF DecoderPush
  <1>4. safe \in 0 .. Len(buf) /\ safe \in Nat
    <2> HIDE DEF buf
    <2> QED BY <1>1, <1>2
  <1> HIDE DEF buf, safe
  <1>5. /\ Take(buf, safe) \in Seq(Char) /\ Len(Take(buf, safe)) = safe
        /\ Drop(buf, safe) \in Seq(Char) /\ Len(Drop(buf, safe)) = Len(buf) - safe
    BY <1>1, <1>4, TextParts
  <1> QED BY <1>1, <1>3, <1>4, <1>5

(* A stop string is found within the text, not before the place looked from. *)
LEMMA StopFound ==
  ASSUME NEW text \in Seq(Char), Len(text) < NPos, NEW stops, stops \subseteq Seq(Char),
         NEW from \in Nat, NEW m, m = FindEarliestStop(text, stops, from)
  PROVE  m \in Nat /\ (m # NPos => from <= m /\ m <= Len(text))
  <1> DEFINE S == {NPos} \cup {Find(text, s, from) : s \in stops}
  <1>1. ASSUME NEW s \in stops
        PROVE  /\ Find(text, s, from) \in Nat
               /\ Find(text, s, from) # NPos => from <= Find(text, s, from) /\ Find(text, s, from) <= Len(text)
    <2> DEFINE p == Find(text, s, from)
    <2>1. s \in Seq(Char) /\ Len(s) \in Nat /\ Len(text) \in Nat
      BY LenProperties
    <2>2. FirstAt(text, s, from, p) /\ p \in Nat
      BY <2>1, Found
    <2> HIDE DEF p
    <2>3. p # NPos => p >= from /\ p + Len(s) <= Len(text)
      BY <2>2 DEF FirstAt
    <2>4. p # NPos => from <= p /\ p <= Len(text)
      BY <2>1, <2>2, <2>3
    <2> QED BY <2>2, <2>4 DEF p
  <1>2. S \subseteq Nat /\ S # {}
    BY <1>1, NPosAssumption
  <1>3. m \in S
    BY <1>2, MinIsLeast DEF FindEarliestStop
  <1> QED BY <1>1, <1>2, <1>3

(* What std::max makes of zero and a difference. *)
LEMMA MaxOfZero ==
  ASSUME NEW d \in Int
  PROVE  Max({0, d}) = IF d <= 0 THEN 0 ELSE d
  <1>1. CASE d \in Nat
    <2>1. Max({0, d}) = IF 0 <= d THEN d ELSE 0
      BY <1>1, MinMaxOfTwo
    <2> QED BY <1>1, <2>1
  <1>2. CASE d \notin Nat
    <2>1. d < 0
      BY <1>2
    <2>2. \E x \in {0, d} : \A y \in {0, d} : x >= y
      BY <2>1
    <2>3. Max({0, d}) \in {0, d} /\ \A y \in {0, d} : Max({0, d}) >= y
      BY <2>2 DEF Max
    <2> QED BY <2>1, <2>3
  <1> QED BY <1>1, <1>2

(* The part of a piece that a stop string leaves. *)
LEMMA KeptPart ==
  ASSUME NEW piece \in Seq(Char), NEW already \in Nat, NEW match \in Nat,
         match # NPos => match <= already + Len(piece), NEW k, k = Kept(piece, already, match)
  PROVE  /\ k \in Seq(Char) /\ Len(k) \in 0 .. Len(piece)
         /\ match = NPos => Len(k) = Len(piece)
         /\ match # NPos => already + Len(k) = IF match <= already THEN already ELSE match
  <1> DEFINE n == Max({0, match - already})
  <1>1. Len(piece) \in Nat
    BY LenProperties
  <1>2. CASE match = NPos
    BY <1>1, <1>2 DEF Kept
  <1>3. CASE match # NPos
    <2>1. n = IF match - already <= 0 THEN 0 ELSE match - already
      <3>1. match - already \in Int
        OBVIOUS
      <3> QED BY <3>1, MaxOfZero
    <2>2. k = Take(piece, n)
      BY <1>3 DEF Kept
    <2> HIDE DEF n
    <2>3. n \in 0 .. Len(piece) /\ already + n = IF match <= already THEN already ELSE match
      BY <1>1, <1>3, <2>1
    <2>4. k \in Seq(Char) /\ Len(k) = n
      BY <2>2, <2>3, TextParts
    <2> QED BY <1>3, <2>3, <2>4
  <1> QED BY <1>2, <1>3

\* Between two tokens.
Running(r, g) == Between(r, g) /\ GatedIn(g) /\ StopIn(g) /\ g.hold \in Seq(Char)

(* The two numbers StopIn speaks of. *)
LEMMA StopRange ==
  ASSUME NEW p \in Nat, NEW n \in Nat, n < NPos
  PROVE  /\ Min({p, n}) = IF p <= n THEN p ELSE n
         /\ p = NPos => Min({p, n}) = n
  <1>1. Min({p, n}) = IF p <= n THEN p ELSE n
    BY MinMaxOfTwo
  <1> QED BY <1>1, NPosAssumption

\* The locals with a piece appended, and a stop string found in them.
PieceOf(g, g1, piece) ==
  /\ IsGen(g1) /\ Same(g, g1, {"acc", "hold"}) /\ g1.acc = g.acc \o piece
  /\ g1.hold \in Seq(Char) /\ Len(g.acc) + Len(piece) < NPos
MatchOf(g, g1, match) ==
  match # NPos => g.loc.state = "answer" /\ g.loc.end <= match /\ match <= Len(g1.acc)

\* What is left of them then, and the text the sink is handed.
EmittedTo(r, g, g1, match, e) ==
  /\ Running(r, e.g) /\ e.g.stopPos = match /\ (e.hit <=> match # NPos)
  /\ e.g.acc = g1.acc /\ e.g.hold = g1.hold /\ Passes(g, e.g, e.text)

(* A piece, handed over up to the stop string that was found in it. *)
LEMMA EmitsUpTo ==
  ASSUME NEW r, r.start \in Starts, Live(r), NEW g, Running(r, g), g.stopPos = NPos,
         NEW piece \in Seq(Char), NEW g1, PieceOf(g, g1, piece),
         NEW match \in Nat, MatchOf(g, g1, match)
  PROVE  EmittedTo(r, g, g1, match, EmitUpTo(r, g1, piece, Len(g.acc), match))
  <1> DEFINE e == EmitUpTo(r, g1, piece, Len(g.acc), match)
             y == Routed(r, g1, Kept(piece, Len(g.acc), match)).g
  <1>0. /\ IsGen(g1) /\ Same(g, g1, {"acc", "hold"}) /\ g1.acc = g.acc \o piece
        /\ g1.hold \in Seq(Char) /\ Len(g.acc) + Len(piece) < NPos
        /\ match # NPos => g.loc.state = "answer" /\ g.loc.end <= match /\ match <= Len(g1.acc)
    BY DEF PieceOf, MatchOf
  <1> DEFINE already == Len(g.acc)
             v == g.acc \o piece
             kept == Kept(piece, already, match)
             x == Routed(r, g1, kept)
             cut == IF match = NPos THEN NPos ELSE already
             l == [y EXCEPT !["stopPos"] = match]
             m == [l EXCEPT !["cut"] = cut]
             h == NoteReasoningProgress(m)
  <1>1. /\ Between(r, g) /\ GatedIn(g) /\ LocatedIn(r, g) /\ g.acc \in Seq(Char)
        /\ Len(g.acc) < NPos /\ already \in Nat
    BY LenProperties DEF Running, Between, LocatedIn
  <1>2. /\ v \in Seq(Char) /\ Len(v) = already + Len(piece) /\ Len(piece) \in Nat /\ g1.acc = v
    BY <1>0, <1>1, TextJoined
  <1>3. g.streamable = already
    <2>1. already < NPos /\ NPos \in Nat
      BY <1>1, NPosAssumption
    <2>2. Min({g.stopPos, already}) = already
      BY <1>1, <2>1, StopRange
    <2>3. g.streamable \in Min({g.stopPos, already}) .. already
      BY DEF Running, StopIn
    <2> QED BY <1>1, <2>2, <2>3
  <1>4. match # NPos => match <= already + Len(piece)
    BY <1>0, <1>2
  <1>5. /\ kept \in Seq(Char) /\ Len(kept) \in 0 .. Len(piece)
        /\ match = NPos => Len(kept) = Len(piece)
        /\ match # NPos => already + Len(kept) = IF match <= already THEN already ELSE match
    <2> HIDE DEF already
    <2> QED BY <1>1, <1>4, KeptPart
  <1>6. e.g = h /\ e.text = x.text /\ (e.hit <=> match # NPos)
    BY DEF EmitUpTo, Cut
  <1> HIDE DEF e
  <1> HIDE DEF kept
  <1>7. Bounded(g, Len(kept)) = already + Len(kept)
    BY <1>3 DEF Bounded
  <1>8. Bounded(g, Len(kept)) \in 0 .. Len(g1.acc)
    BY <1>1, <1>2, <1>5, <1>7
  <1>9. Same(g, g1, {"acc", "hold", "tail"})
    BY <1>0 DEF Same
  <1>10. /\ Entry(r, x.g) /\ Same(g1, x.g, FlushChanges \cup {"streamable"})
         /\ x.g.streamable = IF kept = <<>> THEN g.streamable ELSE Bounded(g, Len(kept))
         /\ Passes(g, x.g, x.text)
    <2>1. RouteOf(r, g, g1, piece)
      BY <1>0, <1>1, <1>9 DEF RouteOf
    <2>2. RoutedTo(r, g, g1, kept, Routed(r, g1, kept))
      BY <1>5, <1>8, <2>1, Routes
    <2> QED BY <2>2 DEF RoutedTo
  <1>29. y = x.g
    BY DEF kept
  <1> HIDE DEF x, h, cut, y
  <1>11. x.g.streamable = already + Len(kept)
    <2>1. kept = <<>> => Len(kept) = 0
      BY EmptyText
    <2> QED BY <1>1, <1>3, <1>7, <1>10, <2>1
  <1>12. IsGen(m) /\ m["stopPos"] = match /\ Same(x.g, m, {"stopPos", "cut"})
    <2>1. IsGen(y)
      BY <1>10, <1>29 DEF Entry
    <2>2. IsGen(l) /\ l["stopPos"] = match /\ Same(y, l, {"stopPos"})
      BY <2>1, OneSet DEF Fields
    <2> HIDE DEF l
    <2>3. IsGen(m) /\ m["cut"] = cut /\ Same(l, m, {"cut"})
      BY <2>2, OneSet DEF Fields
    <2> HIDE DEF m
    <2> QED BY <1>29, <2>2, <2>3 DEF Same, Fields
  <1>13. h = NoteReasoningProgress(m)
    BY <1>29 DEF h
  <1>14. e.g = NoteReasoningProgress(m)
    BY <1>6, <1>13
  <1> HIDE DEF m
  <1>15. /\ m.acc = x.g.acc /\ m.begin = x.g.begin /\ m.fed = x.g.fed /\ m.gate = x.g.gate
         /\ m.forwarded = x.g.forwarded /\ m.streamable = x.g.streamable /\ m.loc = x.g.loc
         /\ m.floor = x.g.floor /\ m.thinkEnd = x.g.thinkEnd /\ m.hold = x.g.hold /\ m.stopPos = match
    BY <1>12 DEF Same, Fields
  <1>16. x.g.acc = v /\ x.g.hold = g1.hold
    BY <1>2, <1>10 DEF Same, Fields, FlushChanges
  <1>17. Looked(r, m) /\ BegunIn(r, m) /\ GatedIn(m) /\ ForwardedIn(r, m)
    <2>1. Looked(r, x.g) /\ BegunIn(r, x.g) /\ GatedIn(x.g) /\ ForwardedIn(r, x.g)
      BY <1>10 DEF Entry
    <2>2. BegunIn(r, m) /\ GatedIn(m) /\ ForwardedIn(r, m)
      BY <1>15, <2>1, OnlyOnText
    <2> QED BY <1>15, <2>1, <2>2 DEF Looked
  <1>18. IsGen(h) /\ Same(m, h, {"loc", "floor", "thinkEnd"}) /\ LocatedIn(r, h)
    BY <1>12, <1>13, <1>17, NoteProgress
  <1>19. /\ h.acc = v /\ h.begin = m.begin /\ h.fed = m.fed /\ h.gate = m.gate
         /\ h.forwarded = m.forwarded /\ h.streamable = m.streamable
         /\ h.hold = m.hold /\ h.stopPos = match
    BY <1>15, <1>16, <1>18 DEF Same, Fields
  <1>20. BegunIn(r, h) /\ GatedIn(h) /\ ForwardedIn(r, h)
    BY <1>15, <1>16, <1>17, <1>19, OnlyOnText
  <1>21. h.streamable = already + Len(kept)
    BY <1>11, <1>15, <1>19
  <1>22. h.streamable \in 0 .. Len(h.acc)
    <2>1. already + Len(kept) \in 0 .. Len(v)
      BY <1>2, <1>7, <1>8
    <2> QED BY <1>19, <1>21, <2>1
  <1>23. Between(r, h)
    BY <1>18, <1>20, <1>22 DEF Between
  <1>24. h.streamable \in Min({h.stopPos, Len(h.acc)}) .. Len(h.acc)
    <2> DEFINE n == Len(v)
               k == Len(kept)
               p == Len(piece)
               o == already
    <2>1. n \in Nat /\ n < NPos /\ NPos \in Nat
      BY <1>0, <1>1, <1>2, NPosAssumption
    <2>2. Min({match, n}) = IF match <= n THEN match ELSE n
      BY <2>1, StopRange
    <2>3. /\ n = o + p /\ o \in Nat /\ p \in Nat /\ k \in 0 .. p
          /\ match = NPos => k = p
          /\ match # NPos => o + k = IF match <= o THEN o ELSE match
          /\ match # NPos => match <= o + p
      BY <1>1, <1>2, <1>4, <1>5
    <2> DEFINE np == NPos
    <2>4. /\ np \in Nat /\ n < np
          /\ match = np => k = p
          /\ match # np => o + k = IF match <= o THEN o ELSE match
          /\ match # np => match <= o + p
          /\ n = o + p /\ o \in Nat /\ p \in Nat /\ k \in 0 .. p /\ match \in Nat
      BY <2>1, <2>3
    <2> HIDE DEF n, k, p, o, np
    <2>5. o + k \in (IF match <= n THEN match ELSE n) .. n
      BY ONLY <2>4
    <2> QED BY <1>19, <1>21, <2>2, <2>5 DEF n, k, o
  <1>25. match # NPos => h.loc.state = "answer" /\ h.loc.end <= match
    <2>1. SUFFICES ASSUME match # NPos PROVE h.loc.state = "answer" /\ h.loc.end <= match
      OBVIOUS
    <2>2. g.loc = LocAt(r.start, g.acc) /\ g.loc.state = "answer" /\ g.loc.end <= match
      BY <1>0, <1>1, <2>1 DEF LocatedIn
    <2>3. LocAt(r.start, g.acc \o piece) = LocAt(r.start, g.acc)
      <3>1. LocAt(r.start, g.acc).state = "answer"
        BY <2>2
      <3>2. Len(g.acc) + Len(piece) < NPos
        BY <1>0
      <3>3. g.acc \in Seq(Char)
        BY <1>1
      <3> QED BY <3>1, <3>2, <3>3, StartsKept
    <2>4. h.loc = LocAt(r.start, h.acc)
      BY <1>18 DEF LocatedIn
    <2> QED BY <1>19, <2>2, <2>3, <2>4
  <1>26. StopIn(h)
    BY <1>19, <1>24, <1>25 DEF StopIn
  <1>27. Running(r, h)
    BY <1>0, <1>15, <1>16, <1>19, <1>20, <1>23, <1>26 DEF Running
  <1>28. Passes(g, h, x.text)
    BY <1>10, <1>15, <1>16, <1>19 DEF Passes
  <1>30. EmittedTo(r, g, g1, match, e)
    BY <1>2, <1>6, <1>15, <1>16, <1>19, <1>27, <1>28 DEF EmittedTo
  <1> QED BY <1>30 DEF e

\* The locals and the text handed over after a token.
TokenEmitted(r, g, token, e) ==
  /\ Running(r, e.g) /\ Passes(g, e.g, e.text) /\ (~e.hit => e.g.stopPos = NPos)
  /\ Len(e.g.acc) + Len(e.g.hold) = Len(g.acc) + Len(g.hold) + Len(token)

(* A token's work keeps the locals where one look at the whole text would  *)
(* put them, and hands the sink what continues the text it has.            *)
LEMMA EmitsToken ==
  ASSUME NEW r, r.start \in Starts, Live(r), r.stop \subseteq Seq(Char),
         NEW g, Running(r, g), g.stopPos = NPos,
         NEW token \in Seq(Char), Len(g.acc) + Len(g.hold) + Len(token) < NPos
  PROVE  TokenEmitted(r, g, token, EmitToken(r, g, token))
  <1> SUFFICES ASSUME NEW e, e = EmitToken(r, g, token) PROVE TokenEmitted(r, g, token, e)
    OBVIOUS
  <1> DEFINE dec == DecoderPush(g.hold, token)
             piece == dec.piece
             hold == dec.hold
             l == [g EXCEPT !["hold"] = hold]
             v == g.acc \o piece
             g1 == [l EXCEPT !["acc"] = v]
             lookFrom == Max({Len(g.acc) - Min({Len(g.acc), Lookback}), g.floor})
             match == FindEarliestStop(v, r.stop, lookFrom)
  <1>1. /\ Between(r, g) /\ GatedIn(g) /\ LocatedIn(r, g) /\ IsGen(g) /\ g.acc \in Seq(Char)
        /\ Len(g.acc) < NPos /\ Len(g.acc) \in Nat /\ g.hold \in Seq(Char) /\ Len(g.hold) \in Nat
        /\ Len(token) \in Nat /\ ForwardedIn(r, g) /\ g.forwarded \in 0 .. Len(g.acc)
    BY LenProperties DEF Running, Between, LocatedIn, ForwardedIn
  <1>2. /\ piece \in Seq(Char) /\ hold \in Seq(Char)
        /\ Len(piece) + Len(hold) = Len(g.hold) + Len(token)
    BY <1>1, DecoderCuts
  <1>3. Len(piece) \in Nat /\ Len(hold) \in Nat
    BY <1>2, LenProperties
  <1>4. e = Decoded(r, g, dec)
    BY DEF EmitToken
  <1> HIDE DEF dec, piece, hold
  <1>5. IsGen(l) /\ l["hold"] = hold /\ Same(g, l, {"hold"})
    BY <1>1, OneSet DEF Fields
  <1>6. CASE piece = <<>>
    <2>1. e.g = l /\ e.text = <<>> /\ ~e.hit
      BY <1>4, <1>6 DEF Decoded, piece, hold
    <2> HIDE DEF l
    <2>2. /\ l.acc = g.acc /\ l.begin = g.begin /\ l.fed = g.fed /\ l.gate = g.gate
          /\ l.forwarded = g.forwarded /\ l.streamable = g.streamable /\ l.loc = g.loc
          /\ l.floor = g.floor /\ l.thinkEnd = g.thinkEnd /\ l.stopPos = g.stopPos /\ l.hold = hold
      BY <1>5 DEF Same, Fields
    <2>3. Between(r, l) /\ GatedIn(l) /\ StopIn(l)
      BY <1>1, <1>5, <2>2 DEF Running, Between, LocatedIn, BegunIn, ForwardedIn, GatedIn, FedIn, StopIn
    <2>4. <<>> \in Seq(Char) /\ Take(g.acc, g.forwarded) \o <<>> = Take(g.acc, g.forwarded)
      <3>1. Take(g.acc, g.forwarded) \in Seq(Char)
        BY <1>1, TextParts
      <3> QED BY <3>1, EmptyText
    <2>5. Passes(g, l, <<>>)
      BY <1>1, <2>2, <2>4 DEF Passes
    <2>6. Len(piece) = 0
      BY <1>6, EmptyText
    <2>7. Len(l.acc) + Len(l.hold) = Len(g.acc) + Len(g.hold) + Len(token)
      <3>1. Len(l.acc) = Len(g.acc) /\ Len(l.hold) = Len(hold)
        BY <2>2
      <3>2. Len(hold) = Len(g.hold) + Len(token)
        BY <1>2, <1>3, <2>6
      <3> DEFINE la == Len(g.acc)
                 lh == Len(g.hold)
                 lt == Len(token)
      <3>3. la \in Nat /\ lh \in Nat /\ lt \in Nat /\ Len(l.acc) = la /\ Len(l.hold) = lh + lt
        BY <1>1, <3>1, <3>2
      <3> HIDE DEF la, lh, lt
      <3>4. Len(l.acc) + Len(l.hold) = la + lh + lt
        <4>1. Len(l.acc) + Len(l.hold) = la + (lh + lt)
          BY <3>3
        <4>2. la + (lh + lt) = la + lh + lt
          BY ONLY <3>3
        <4> QED BY <4>1, <4>2
      <3> QED BY <3>4 DEF la, lh, lt
    <2> QED BY <1>2, <2>1, <2>2, <2>3, <2>5, <2>7 DEF Running, TokenEmitted
  <1>7. CASE piece # <<>>
    <2>1. l.acc = g.acc /\ l.floor = g.floor /\ l.hold = hold
      <3> HIDE DEF l
      <3> QED BY <1>5 DEF Same, Fields
    <2>2. IsGen(g1) /\ g1["acc"] = v /\ Same(l, g1, {"acc"})
      <3> HIDE DEF l, v
      <3> QED BY <1>5, OneSet DEF Fields
    <2>3. [g EXCEPT !.hold = dec.hold, !.acc = @ \o dec.piece] = g1
      BY <2>1 DEF hold, piece
    <2>4. e = EmitPiece(r, g1, piece, Len(g.acc))
      BY <1>4, <1>7, <2>3 DEF Decoded, piece
    <2> HIDE DEF l, g1
    <2>5. g1.acc = v /\ g1.floor = g.floor /\ g1.hold = hold
      BY <2>1, <2>2 DEF Same, Fields
    <2>6. Same(g, g1, {"acc", "hold"})
      BY <1>5, <2>2 DEF Same
    <2>7. e = EmitUpTo(r, g1, piece, Len(g.acc), match)
      BY <2>4, <2>5 DEF EmitPiece
    <2>8. v \in Seq(Char) /\ Len(v) = Len(g.acc) + Len(piece) /\ Len(v) < NPos
      <3>1. v \in Seq(Char) /\ Len(v) = Len(g.acc) + Len(piece)
        BY <1>1, <1>2, TextJoined
      <3> DEFINE np == NPos
                 la == Len(g.acc)
                 lh == Len(g.hold)
                 lt == Len(token)
                 lp == Len(piece)
                 ln == Len(hold)
      <3>2. np \in Nat
        BY NPosAssumption
      <3>3. /\ la + lh + lt < np /\ la \in Nat /\ lh \in Nat /\ lt \in Nat /\ lp \in Nat /\ ln \in Nat
            /\ lp + ln = lh + lt
        BY <1>1, <1>2, <1>3
      <3> HIDE DEF np, la, lh, lt, lp, ln
      <3>4. la + lp < np
        BY ONLY <3>2, <3>3
      <3> QED BY <3>1, <3>4 DEF np, la, lp
    <2>9. g.floor \in Nat /\ g.floor = g.loc.end /\ (g.loc.state # "answer" => g.floor = NPos)
      BY <1>1, LocKnows DEF LocatedIn
    <2>10. lookFrom \in Nat /\ g.floor <= lookFrom
      <3> DEFINE lo == Min({Len(g.acc), Lookback})
                 d == Len(g.acc) - lo
      <3>1. Lookback \in Nat
        BY StreamAssumption
      <3>2. lo = IF Len(g.acc) <= Lookback THEN Len(g.acc) ELSE Lookback
        BY <1>1, <3>1, MinMaxOfTwo
      <3> HIDE DEF lo
      <3>3. d \in Nat
        BY <1>1, <3>1, <3>2
      <3>4. lookFrom = Max({d, g.floor})
        BY DEF lo
      <3> HIDE DEF d, lookFrom
      <3>5. lookFrom = IF d <= g.floor THEN g.floor ELSE d
        BY <2>9, <3>3, <3>4, MinMaxOfTwo
      <3> QED BY <2>9, <3>3, <3>5
    <2>11. match \in Nat /\ (match # NPos => lookFrom <= match /\ match <= Len(v))
      <3> HIDE DEF lookFrom, v
      <3> QED BY <2>8, <2>10, StopFound
    <2> HIDE DEF match, lookFrom
    <2>12. match # NPos => g.loc.state = "answer" /\ g.loc.end <= match /\ match <= Len(g1.acc)
      <3> DEFINE np == NPos
                 n == Len(v)
                 fl == g.floor
      <3>1. /\ n \in Nat /\ n < np /\ np \in Nat /\ fl \in Nat /\ lookFrom \in Nat /\ match \in Nat
            /\ fl <= lookFrom /\ (match # np => lookFrom <= match /\ match <= n)
        BY <1>1, <2>8, <2>9, <2>10, <2>11, LenProperties, NPosAssumption
      <3> HIDE DEF np, n, fl
      <3>2. match # np => fl # np /\ fl <= match /\ match <= n
        BY ONLY <3>1
      <3> QED BY <2>5, <2>9, <3>2 DEF np, n, fl
    <2>13. Len(g.acc) + Len(piece) < NPos
      BY <2>8
    <2>14. g1.hold \in Seq(Char)
      BY <1>2, <2>5
    <2> HIDE DEF v
    <2>15. g1.acc = g.acc \o piece
      BY <2>5 DEF v
    <2>16. /\ Running(r, e.g) /\ e.g.stopPos = match /\ (e.hit <=> match # NPos)
           /\ e.g.acc = g1.acc /\ e.g.hold = g1.hold /\ Passes(g, e.g, e.text)
      <3>1. PieceOf(g, g1, piece)
        BY <2>2, <2>6, <2>13, <2>14, <2>15 DEF PieceOf
      <3>2. MatchOf(g, g1, match)
        BY <2>12 DEF MatchOf
      <3>3. EmittedTo(r, g, g1, match, EmitUpTo(r, g1, piece, Len(g.acc), match))
        BY <1>2, <2>11, <3>1, <3>2, EmitsUpTo
      <3> QED BY <2>7, <3>3 DEF EmittedTo
    <2>17. Len(e.g.acc) + Len(e.g.hold) = Len(g.acc) + Len(g.hold) + Len(token)
      <3>1. Len(e.g.acc) = Len(g.acc) + Len(piece) /\ Len(e.g.hold) = Len(hold)
        BY <2>5, <2>8, <2>16 DEF v
      <3> DEFINE la == Len(g.acc)
                 lh == Len(g.hold)
                 lt == Len(token)
                 lp == Len(piece)
                 ln == Len(hold)
      <3>2. /\ la \in Nat /\ lh \in Nat /\ lt \in Nat /\ lp \in Nat /\ ln \in Nat
            /\ lp + ln = lh + lt
        BY <1>1, <1>2, <1>3
      <3>3. Len(e.g.acc) = la + lp /\ Len(e.g.hold) = ln
        BY <3>1
      <3> HIDE DEF la, lh, lt, lp, ln
      <3>4. Len(e.g.acc) + Len(e.g.hold) = la + lh + lt
        <4>1. Len(e.g.acc) + Len(e.g.hold) = (la + lp) + ln
          BY <3>3
        <4>2. (la + lp) + ln = la + lh + lt
          BY ONLY <3>2
        <4> QED BY <4>1, <4>2
      <3> QED BY <3>4 DEF la, lh, lt
    <2> QED BY <2>16, <2>17 DEF TokenEmitted
  <1> QED BY <1>6, <1>7

\* After the tail has been flushed.
Ended(r, g) == Between(r, g) /\ FinishedIn(g) /\ FedAll(g) /\ StopIn(g) /\ g.hold \in Seq(Char)

\* The two texts FlushTail hands over, and what is left then.
TailFlushed(r, g, tail, last) ==
  /\ Passes(g, tail.g, tail.text) /\ Passes(tail.g, last.g, last.text) /\ Ended(r, last.g)
  /\ Len(last.g.acc) + Len(last.g.hold) = Len(g.acc) + Len(g.hold)

(* The bound that the held text moves. *)
LEMMA BoundMoves ==
  ASSUME NEW np \in Nat, NEW p \in Nat, NEW n \in Nat, NEW k \in Nat, n + k < np,
         NEW st \in (IF p <= n THEN p ELSE n) .. n,
         NEW b, b = IF p # np /\ st + k > p THEN p ELSE st + k
  PROVE  b \in (IF p <= n + k THEN p ELSE n + k) .. n + k
  <1>1. st \in Nat
    OBVIOUS
  <1>2. CASE p # np /\ st + k > p
    BY <1>1, <1>2
  <1>3. CASE p = np
    BY <1>1, <1>3
  <1>4. CASE ~(st + k > p)
    BY <1>1, <1>4
  <1> QED BY <1>2, <1>3, <1>4

(* The decoder's held bytes become text, and the gate is finished. *)
LEMMA FlushesTail ==
  ASSUME NEW r, r.start \in Starts, Live(r), NEW g, Running(r, g), Len(g.acc) + Len(g.hold) < NPos,
         NEW g1, g1 = [g EXCEPT !.acc = @ \o g.hold, !.hold = <<>>, !.tail = g.hold],
         NEW tail, tail = Routed(r, g1, g.hold), NEW last, last = FlushGated(tail.g, TRUE)
  PROVE  TailFlushed(r, g, tail, last)
  <1> DEFINE u == g.hold
             v == g.acc \o u
             empty == <<>>
             l == [g EXCEPT !["acc"] = v]
             m == [l EXCEPT !["hold"] = empty]
             yes == TRUE
             p == g.stopPos
             b == Bounded(g, Len(u))
  <1>1. /\ Between(r, g) /\ GatedIn(g) /\ LocatedIn(r, g) /\ IsGen(g) /\ g.acc \in Seq(Char)
        /\ Len(g.acc) < NPos /\ Len(g.acc) \in Nat /\ u \in Seq(Char) /\ Len(u) \in Nat
        /\ StopIn(g) /\ p \in Nat
    BY LenProperties DEF Running, Between, LocatedIn, StopIn
  <1>2. v \in Seq(Char) /\ Len(v) = Len(g.acc) + Len(u)
    BY <1>1, TextJoined
  <1>3. IsGen(l) /\ l["acc"] = v /\ Same(g, l, {"acc"})
    <2> HIDE DEF v
    <2> QED BY <1>1, OneSet DEF Fields
  <1>4. g1 = [m EXCEPT !["tail"] = u]
    BY <1>3
  <1> HIDE DEF l, v, u, empty
  <1>5. IsGen(m) /\ m["hold"] = empty /\ Same(l, m, {"hold"})
    BY <1>3, OneSet DEF Fields
  <1> HIDE DEF m
  <1>6. IsGen(g1) /\ g1["tail"] = u /\ Same(m, g1, {"tail"})
    BY <1>4, <1>5, OneSet DEF Fields
  <1>7. Same(g, g1, {"acc", "hold", "tail"}) /\ g1.acc = v /\ g1.hold = empty
    BY <1>3, <1>5, <1>6 DEF Same, Fields
  <1>8. /\ b \in Min({p, Len(v)}) .. Len(v) /\ b \in 0 .. Len(v)
        /\ u = <<>> => g.streamable \in Min({p, Len(v)}) .. Len(v)
    <2> DEFINE np == NPos
               n == Len(g.acc)
               k == Len(u)
               st == g.streamable
    <2>1. np \in Nat /\ n \in Nat /\ k \in Nat /\ n + k < np /\ n < np
      <3>1. np \in Nat /\ n \in Nat /\ k \in Nat
        BY <1>1, NPosAssumption
      <3>2. n + k < np
        BY DEF u
      <3> HIDE DEF np, n, k
      <3>3. n < np
        BY ONLY <3>1, <3>2
      <3> QED BY <3>1, <3>2, <3>3
    <2>2. Min({p, n}) = IF p <= n THEN p ELSE n
      BY <1>1, <2>1, MinMaxOfTwo
    <2>3. Len(v) = n + k /\ n + k \in Nat
      BY <1>2, <2>1
    <2>4. Min({p, Len(v)}) = IF p <= n + k THEN p ELSE n + k
      BY <1>1, <2>3, MinMaxOfTwo
    <2>5. st \in Min({p, n}) .. n
      BY <1>1 DEF StopIn
    <2>6. b = IF p # np /\ st + k > p THEN p ELSE st + k
      BY DEF Bounded
    <2>7. u = <<>> => k = 0
      BY EmptyText
    <2> HIDE DEF np, n, k, st, p, b
    <2>8. st \in (IF p <= n THEN p ELSE n) .. n
      BY <2>2, <2>5
    <2>9. b \in (IF p <= n + k THEN p ELSE n + k) .. n + k
      BY <1>1, <2>1, <2>6, <2>8, BoundMoves
    <2>10. b \in 0 .. n + k
      BY <1>1, <2>1, <2>9
    <2>11. k = 0 => st \in (IF p <= n + k THEN p ELSE n + k) .. n + k
      BY <1>1, <2>1, <2>8
    <2> QED BY <2>3, <2>4, <2>7, <2>9, <2>10, <2>11 DEF st
  <1>9. Len(g.acc) + Len(u) < NPos
    BY DEF u
  <1>10. tail = Routed(r, g1, u)
    BY DEF u
  <1>11. /\ Entry(r, tail.g) /\ Same(g1, tail.g, FlushChanges \cup {"streamable"})
         /\ tail.g.streamable = IF u = <<>> THEN g.streamable ELSE b
         /\ Passes(g, tail.g, tail.text)
    <2>1. Bounded(g, Len(u)) \in 0 .. Len(g1.acc)
      BY <1>7, <1>8
    <2>2. g1.acc = g.acc \o u
      BY <1>7 DEF v
    <2>3. RouteOf(r, g, g1, u)
      BY <1>1, <1>6, <1>7, <1>9, <2>2 DEF RouteOf
    <2>4. RoutedTo(r, g, g1, u, Routed(r, g1, u))
      BY <1>1, <2>1, <2>3, Routes
    <2> QED BY <1>10, <2>4 DEF RoutedTo
  <1>12. yes \in BOOLEAN /\ last = FlushGated(tail.g, yes)
    OBVIOUS
  <1> HIDE DEF yes, b
  <1>13. /\ Between(r, last.g) /\ GateIn(last.g, yes) /\ FedAll(last.g)
         /\ Same(tail.g, last.g, FlushChanges) /\ HandsOn(tail.g, last.g, last.text)
    BY <1>11, <1>12, FlushesGated
  <1>14. FinishedIn(last.g)
    BY <1>13 DEF GateIn, yes
  <1>15. /\ tail.g.acc = v /\ last.g.acc = v /\ last.g.hold = empty
         /\ last.g.streamable = tail.g.streamable /\ last.g.stopPos = p
    <2>1. tail.g.acc = v /\ tail.g.hold = empty /\ tail.g.stopPos = g1.stopPos
      BY <1>7, <1>11 DEF Same, Fields, FlushChanges
    <2>2. g1.stopPos = p
      BY <1>7 DEF Same, Fields
    <2>3. /\ last.g.acc = tail.g.acc /\ last.g.hold = tail.g.hold
          /\ last.g.streamable = tail.g.streamable /\ last.g.stopPos = tail.g.stopPos
      BY <1>13 DEF Same, Fields, FlushChanges
    <2> QED BY <2>1, <2>2, <2>3
  <1>16. last.g.streamable \in Min({last.g.stopPos, Len(last.g.acc)}) .. Len(last.g.acc)
    BY <1>8, <1>11, <1>15
  <1>17. p # NPos => last.g.loc.state = "answer" /\ last.g.loc.end <= p
    <2>1. SUFFICES ASSUME p # NPos PROVE last.g.loc.state = "answer" /\ last.g.loc.end <= p
      OBVIOUS
    <2>2. g.loc = LocAt(r.start, g.acc) /\ g.loc.state = "answer" /\ g.loc.end <= p
      BY <1>1, <2>1 DEF LocatedIn, StopIn
    <2>3. LocAt(r.start, g.acc).state = "answer"
      BY <2>2
    <2>4. LocAt(r.start, v) = LocAt(r.start, g.acc)
      BY <1>1, <1>9, <2>3, StartsKept DEF v
    <2>5. last.g.loc = LocAt(r.start, last.g.acc)
      BY <1>13 DEF Between, LocatedIn
    <2> QED BY <1>15, <2>2, <2>4, <2>5
  <1>18. StopIn(last.g)
    BY <1>1, <1>15, <1>16, <1>17 DEF StopIn
  <1>19. empty \in Seq(Char) /\ Len(empty) = 0
    BY EmptyText DEF empty
  <1>20. Ended(r, last.g)
    BY <1>13, <1>14, <1>15, <1>18, <1>19 DEF Ended
  <1>21. Passes(tail.g, last.g, last.text)
    <2>1. Len(v) < NPos
      BY <1>2, <1>9
    <2> QED BY <1>2, <1>13, <1>15, <2>1 DEF Passes, HandsOn
  <1>22. Len(last.g.acc) + Len(last.g.hold) = Len(g.acc) + Len(g.hold)
    <2>1. Len(v) + 0 = Len(g.acc) + Len(u)
      <3>1. Len(v) \in Nat
        BY <1>1, <1>2
      <3> QED BY <1>2, <3>1
    <2> QED BY <1>15, <1>19, <2>1 DEF u
  <1> QED BY <1>11, <1>20, <1>21, <1>22 DEF TailFlushed

-----------------------------------------------------------------------------
(* The text's bookkeeping at each place of the worker.                     *)

(* What the invariant says of the locals, in the terms of the lemmas.      *)
LEMMA BeginMeans ==
  ASSUME NEW r, r.start \in Starts, NEW g, g.acc \in Seq(Char), Len(g.acc) < NPos
  PROVE  /\ Located(r, g) <=> LocatedIn(r, g)
         /\ LocatedIn(r, g) => (Begun(g) <=> BegunIn(r, g))
  <1>1. LocatorUpdate(Locator(r.start), g.acc) = LocAt(r.start, g.acc)
    BY LocAtOnce
  <1>2. Located(r, g) <=> LocatedIn(r, g)
    BY <1>1 DEF Located, LocatedIn
  <1>3. ASSUME LocatedIn(r, g) PROVE Begun(g) <=> BegunIn(r, g)
    <2> DEFINE b == g.begin
               a == g.acc
               loc == g.loc
    <2>1. loc = LocAt(r.start, a)
      BY <1>3 DEF LocatedIn
    <2>2. loc.state = "answer" => loc.end \in Nat
      BY <2>1, LocKnows
    <2>3. AnswerStarts(r.start, a, b) <=>
            /\ loc.state = "answer" /\ b \in loc.end .. Len(a)
            /\ IF loc.byTag
               THEN /\ b < Len(a) /\ a[b + 1] # Newline
                    /\ \A i \in loc.end + 1 .. b : a[i] = Newline
               ELSE b = 0
      BY <2>1 DEF AnswerStarts
    <2>4. loc.state = "answer" /\ b \in loc.end .. Len(a) => b \in Nat
      <3>1. Len(a) \in Nat
        BY LenProperties
      <3> HIDE DEF loc, a, b
      <3> QED BY <2>2, <3>1
    <2> QED BY <2>3, <2>4 DEF Begun, BegunIn
  <1> QED BY <1>2, <1>3

(* Before the tail is flushed, *)
LEMMA RunningMeans ==
  ASSUME NEW r, r.start \in Starts, NEW g, IsGen(g), g.acc \in Seq(Char), g.hold \in Seq(Char),
         Len(g.acc) < NPos, NEW place, place \notin Flushed
  PROVE  Bookkept(r, g, place) <=>
           Running(r, g) /\ (place \in {"start", "decode"} => g.stopPos = NPos)
  <1>1. Located(r, g) <=> LocatedIn(r, g)
    BY BeginMeans
  <1>2. LocatedIn(r, g) => (Begun(g) <=> BegunIn(r, g))
    BY BeginMeans
  <1>3. StopIn(g) => g.streamable \in 0 .. Len(g.acc)
    <2>1. SUFFICES ASSUME StopIn(g) PROVE g.streamable \in 0 .. Len(g.acc)
      OBVIOUS
    <2> DEFINE n == Len(g.acc)
               p == g.stopPos
               lo == Min({p, n})
    <2>2. n \in Nat /\ p \in Nat /\ g.streamable \in lo .. n
      BY <2>1, LenProperties DEF StopIn
    <2>3. lo = IF p <= n THEN p ELSE n
      BY <2>2, MinMaxOfTwo
    <2> HIDE DEF n, p, lo
    <2> QED BY <2>2, <2>3 DEF n
  <1> QED BY <1>1, <1>2, <1>3 DEF Bookkept, Running, Between

(* and after. *)
LEMMA EndedMeans ==
  ASSUME NEW r, r.start \in Starts, NEW g, IsGen(g), g.acc \in Seq(Char), g.hold \in Seq(Char),
         Len(g.acc) < NPos, NEW place \in Flushed
  PROVE  Bookkept(r, g, place) <=> Ended(r, g)
  <1>1. Located(r, g) <=> LocatedIn(r, g)
    BY BeginMeans
  <1>2. LocatedIn(r, g) => (Begun(g) <=> BegunIn(r, g))
    BY BeginMeans
  <1>3. StopIn(g) => g.streamable \in 0 .. Len(g.acc)
    <2>1. SUFFICES ASSUME StopIn(g) PROVE g.streamable \in 0 .. Len(g.acc)
      OBVIOUS
    <2> DEFINE n == Len(g.acc)
               p == g.stopPos
               lo == Min({p, n})
    <2>2. n \in Nat /\ p \in Nat /\ g.streamable \in lo .. n
      BY <2>1, LenProperties DEF StopIn
    <2>3. lo = IF p <= n THEN p ELSE n
      BY <2>2, MinMaxOfTwo
    <2> HIDE DEF n, p, lo
    <2> QED BY <2>2, <2>3 DEF n
  <1>4. place \notin {"start", "decode"}
    BY DEF Flushed
  <1> QED BY <1>1, <1>2, <1>3, <1>4 DEF Bookkept, Ended, Between

(* One factor of a product grows. *)
LEMMA Products ==
  ASSUME NEW a \in Nat, NEW b \in Nat, NEW k \in Nat, a <= b
  PROVE  /\ a * k \in Nat /\ b * k \in Nat /\ a * k <= b * k
         /\ (a + 1) * k = a * k + k
  <1>1. b = a + (b - a) /\ b - a \in Nat
    OBVIOUS
  <1> DEFINE d == b - a
  <1>2. (a + d) * k = a * k + d * k /\ d * k \in Nat /\ a * k \in Nat
    OBVIOUS
  <1>3. a + d = b
    BY <1>1
  <1> HIDE DEF d
  <1>4. b * k = a * k + d * k
    BY <1>2, <1>3
  <1>5. (a + 1) * k = a * k + k
    OBVIOUS
  <1> QED BY <1>2, <1>4, <1>5

(* No text reaches the length that stands for nowhere. *)
LEMMA TextsShort ==
  ASSUME NEW r, RequestOK(r), TextFits(r), NEW g, NEW spent, Texts(r, g, spent)
  PROVE  /\ Len(g.acc) \in Nat /\ Len(g.hold) \in Nat /\ Len(g.acc) < NPos
         /\ Len(g.acc) + Len(g.hold) < NPos
         /\ spent < r.maxTokens =>
              \A t \in r.vocab : Len(g.acc) + Len(g.hold) + Len(t) < NPos
  <1>1. PICK longest \in 0 .. NPos :
          (\A t \in r.vocab : Len(t) <= longest) /\ r.maxTokens * longest < NPos
    BY DEF TextFits
  <1>2. /\ longest \in Nat /\ r.maxTokens \in Nat /\ spent \in 0 .. r.maxTokens
        /\ NPos \in Nat /\ \A t \in r.vocab : Len(t) \in Nat /\ Len(t) <= longest
    <2>1. \A t \in r.vocab : Len(t) \in Nat
      BY LenProperties DEF RequestOK
    <2> QED BY <1>1, <2>1, NPosAssumption DEF RequestOK, Texts
  <1>3. Len(g.acc) \in Nat /\ Len(g.hold) \in Nat
    BY LenProperties DEF Texts
  <1>4. Len(g.acc) + Len(g.hold) <= spent * longest
    BY <1>1, <1>2 DEF Texts
  <1> DEFINE n == Len(g.acc)
             h == Len(g.hold)
             m == r.maxTokens
             np == NPos
             x == spent * longest
             y == m * longest
  <1>5. x \in Nat /\ y \in Nat /\ x <= y /\ y < np
    <2>1. spent \in Nat /\ m \in Nat /\ spent <= m /\ longest \in Nat
      BY <1>2
    <2>2. x \in Nat /\ y \in Nat /\ x <= y
      <3> HIDE DEF m
      <3> QED BY <2>1, Products
    <2>3. y < np
      BY <1>1
    <2> QED BY <2>2, <2>3
  <1>6. n + h <= x /\ n \in Nat /\ h \in Nat /\ np \in Nat
    BY <1>2, <1>3, <1>4
  <1>7. ASSUME spent < m, NEW t \in r.vocab PROVE n + h + Len(t) < np
    <2>1. spent + 1 \in Nat /\ spent \in Nat /\ spent + 1 <= m /\ m \in Nat /\ spent <= m
      BY <1>2, <1>7
    <2>2. (spent + 1) * longest <= y
      BY <1>2, <2>1, Products
    <2>3. (spent + 1) * longest = x + longest
      BY <1>2, <2>1, Products
    <2>4. Len(t) \in Nat /\ Len(t) <= longest /\ longest \in Nat
      BY <1>2
    <2> HIDE DEF n, h, np, x, y, m
    <2>5. x + longest <= y
      BY <2>2, <2>3
    <2> DEFINE k == Len(t)
    <2>6. k \in Nat /\ k <= longest
      BY <2>4
    <2> HIDE DEF k
    <2>7. n + h + k < np
      BY ONLY <1>5, <1>6, <2>4, <2>5, <2>6, longest \in Nat
    <2> QED BY <2>7 DEF k
  <1> HIDE DEF n, h, np, x, y
  <1>8. n + h < np /\ n < np
    BY ONLY <1>5, <1>6
  <1> QED BY <1>3, <1>7, <1>8 DEF n, h, np

(* One more token. *)
LEMMA TextsGrow ==
  ASSUME NEW r, RequestOK(r), NEW g, NEW spent, Texts(r, g, spent), spent < r.maxTokens,
         NEW t \in r.vocab, NEW h, IsGen(h), h.acc \in Seq(Char), h.hold \in Seq(Char),
         Len(h.acc) + Len(h.hold) = Len(g.acc) + Len(g.hold) + Len(t)
  PROVE  Texts(r, h, spent + 1)
  <1>1. r.maxTokens \in Nat /\ spent \in Nat /\ spent + 1 \in 0 .. r.maxTokens
    BY DEF RequestOK, Texts
  <1>2. ASSUME NEW longest \in 0 .. NPos, \A s \in r.vocab : Len(s) <= longest
        PROVE  Len(h.acc) + Len(h.hold) <= (spent + 1) * longest
    <2>1. longest \in Nat
      BY <1>2, NPosAssumption
    <2>2. Len(g.acc) + Len(g.hold) <= spent * longest
      BY <1>2 DEF Texts
    <2>3. (spent + 1) * longest = spent * longest + longest /\ spent * longest \in Nat
      BY <1>1, <2>1, Products
    <2> DEFINE x == spent * longest
               n == Len(g.acc)
               k == Len(g.hold)
               l == Len(t)
    <2>4. n \in Nat /\ k \in Nat /\ l \in Nat
      BY LenProperties DEF Texts, RequestOK
    <2>5. l <= longest
      BY <1>2
    <2>6. x \in Nat /\ n + k <= x
      BY <2>2, <2>3
    <2> HIDE DEF x, n, k, l
    <2>7. n + k + l <= x + longest
      BY ONLY <2>1, <2>4, <2>5, <2>6
    <2>8. (spent + 1) * longest = x + longest /\ Len(h.acc) + Len(h.hold) = n + k + l
      BY <2>3 DEF x, n, k, l
    <2> QED BY <2>7, <2>8
  <1> QED BY <1>1, <1>2 DEF Texts

(* A token's work keeps the text's bookkeeping. *)
LEMMA TokenText ==
  ASSUME NEW r, Live(r), RequestOK(r), TextFits(r), NEW g, NEW spent, Texts(r, g, spent),
         Bookkept(r, g, "decode"), spent < r.maxTokens, NEW token \in r.vocab,
         NEW e, e = EmitToken(r, g, token), NEW place, place = IF e.hit THEN "tail" ELSE "decode"
  PROVE  Texts(r, e.g, spent + 1) /\ Bookkept(r, e.g, place) /\ Passes(g, e.g, e.text)
  <1>1. /\ r.start \in Starts /\ r.stop \subseteq Seq(Char) /\ token \in Seq(Char)
    BY DEF RequestOK, Starts
  <1>2. /\ Len(g.acc) < NPos /\ Len(g.acc) + Len(g.hold) + Len(token) < NPos
    BY TextsShort
  <1>3. IsGen(g) /\ g.acc \in Seq(Char) /\ g.hold \in Seq(Char)
    BY DEF Texts
  <1>4. "decode" \notin Flushed /\ place \notin Flushed
    BY DEF Flushed
  <1>5. Running(r, g) /\ g.stopPos = NPos
    BY <1>1, <1>2, <1>3, <1>4, RunningMeans
  <1>6. /\ Running(r, e.g) /\ Passes(g, e.g, e.text) /\ (~e.hit => e.g.stopPos = NPos)
        /\ Len(e.g.acc) + Len(e.g.hold) = Len(g.acc) + Len(g.hold) + Len(token)
    <2>1. TokenEmitted(r, g, token, EmitToken(r, g, token))
      BY <1>1, <1>2, <1>5, EmitsToken
    <2> QED BY <2>1 DEF TokenEmitted
  <1>7. IsGen(e.g) /\ e.g.acc \in Seq(Char) /\ e.g.hold \in Seq(Char) /\ Len(e.g.acc) < NPos
    BY <1>6 DEF Running, Between, LocatedIn
  <1>8. Texts(r, e.g, spent + 1)
    BY <1>6, <1>7, TextsGrow
  <1>9. place \in {"start", "decode"} => e.g.stopPos = NPos
    BY <1>6
  <1>10. Bookkept(r, e.g, place)
    BY <1>1, <1>4, <1>6, <1>7, <1>9, RunningMeans
  <1> QED BY <1>6, <1>8, <1>10

(* So does the flush of the tail. *)
LEMMA TailText ==
  ASSUME NEW r, Live(r), RequestOK(r), TextFits(r), NEW g, NEW spent, Texts(r, g, spent),
         Bookkept(r, g, "tail"),
         NEW g1, g1 = [g EXCEPT !.acc = @ \o g.hold, !.hold = <<>>, !.tail = g.hold],
         NEW tail, tail = Routed(r, g1, g.hold), NEW last, last = FlushGated(tail.g, TRUE)
  PROVE  /\ Texts(r, last.g, spent) /\ Bookkept(r, last.g, "log")
         /\ Passes(g, tail.g, tail.text) /\ Passes(tail.g, last.g, last.text)
  <1>1. r.start \in Starts
    BY DEF RequestOK, Starts
  <1>2. Len(g.acc) < NPos /\ Len(g.acc) + Len(g.hold) < NPos
    BY TextsShort
  <1>3. IsGen(g) /\ g.acc \in Seq(Char) /\ g.hold \in Seq(Char)
    BY DEF Texts
  <1>4. "tail" \notin Flushed /\ "log" \in Flushed
    BY DEF Flushed
  <1>5. Running(r, g)
    BY <1>1, <1>2, <1>3, <1>4, RunningMeans
  <1>6. TailFlushed(r, g, tail, last)
    BY <1>1, <1>2, <1>5, FlushesTail
  <1>7. /\ Passes(g, tail.g, tail.text) /\ Passes(tail.g, last.g, last.text) /\ Ended(r, last.g)
        /\ Len(last.g.acc) + Len(last.g.hold) = Len(g.acc) + Len(g.hold)
    BY <1>6 DEF TailFlushed
  <1>8. /\ IsGen(last.g) /\ last.g.acc \in Seq(Char) /\ last.g.hold \in Seq(Char)
        /\ Len(last.g.acc) < NPos
    BY <1>7 DEF Ended, Between, LocatedIn
  <1>9. Texts(r, last.g, spent)
    BY <1>7, <1>8 DEF Texts
  <1>10. Bookkept(r, last.g, "log")
    BY <1>1, <1>4, <1>7, <1>8, EndedMeans
  <1> QED BY <1>7, <1>9, <1>10

(* The worker goes on without touching the text. *)
LEMMA BookStays ==
  ASSUME NEW r, NEW g
  PROVE  /\ Bookkept(r, g, "start") => Bookkept(r, g, "decode")
         /\ Bookkept(r, g, "decode") => Bookkept(r, g, "tail")
         /\ Bookkept(r, g, "log") => Bookkept(r, g, "parse")
  BY DEF Bookkept, Flushed

-----------------------------------------------------------------------------
(* What a sink call does with text that continues what the sink has.       *)

\* The splitter and the events of a sink call between two states of the locals.
Took(r, g, h, o) ==
  /\ o.sp = SplitPush(Splitter(r.start), Take(h.acc, h.forwarded)).sp /\ o.ev \in Seq(Events)
  /\ Shown(r.start, Take(g.acc, g.forwarded)) \in Seq(Char) /\ TextOf(o.ev, FALSE) \in Seq(Char)
  /\ Shown(r.start, Take(h.acc, h.forwarded)) =
       Shown(r.start, Take(g.acc, g.forwarded)) \o TextOf(o.ev, FALSE)

(* An answer that is not split is passed on by the splitter too. *)
LEMMA PlainPasses ==
  ASSUME NEW u
  PROVE  SplitPush(Plain, u) = [sp |-> Plain, ev |-> Event(FALSE, u)]
  <1>1. CASE u = <<>>
    <2>1. SplitPush(Plain, u) = [sp |-> Plain, ev |-> <<>>]
      BY <1>1 DEF SplitPush
    <2>2. Event(FALSE, u) = <<>>
      BY <1>1 DEF Event
    <2> QED BY <2>1, <2>2
  <1>2. CASE u # <<>>
    <2>1. Plain.mode = "answer"
      BY SplitterPlaces
    <2>2. SplitPush(Plain, u) = ProcessAnswer(Plain, u)
      BY <1>2, <2>1 DEF SplitPush
    <2> QED BY <2>2, FromAnswering
  <1> QED BY <1>1, <1>2

(* Both sinks' OnToken feeds the splitter while no tool call has been      *)
(* delivered.                                                              *)
LEMMA SinkTakes ==
  ASSUME NEW r, Live(r), RequestOK(r), NEW g, NEW h, NEW text, Passes(g, h, text),
         NEW s, s.sp = SplitPush(Splitter(r.start), Take(g.acc, g.forwarded)).sp, ~s.delivered
  PROVE  Took(r, g, h, OnToken(r, s, text))
  <1> DEFINE start == r.start
             t == Take(g.acc, g.forwarded)
             v == Take(h.acc, h.forwarded)
             o == OnToken(r, s, text)
             next == SplitPush(SplitPush(Splitter(start), t).sp, text)
  <1>1. start \in Starts /\ r.chat
    BY DEF RequestOK, Starts, Live
  <1>2. /\ t \in Seq(Char) /\ text \in Seq(Char) /\ v = t \o text /\ v \in Seq(Char)
        /\ Len(v) = h.forwarded /\ h.forwarded \in Nat /\ h.forwarded < NPos
    <2>1. Len(h.acc) \in Nat /\ Len(h.acc) < NPos /\ h.forwarded \in 0 .. Len(h.acc) /\ NPos \in Nat
      BY LenProperties, NPosAssumption DEF Passes
    <2>2. h.forwarded < NPos /\ h.forwarded \in Nat
      <3> DEFINE n == Len(h.acc)
                 np == NPos
      <3> HIDE DEF n, np
      <3> QED BY <2>1 DEF n, np
    <2> QED BY <2>1, <2>2, TextParts DEF Passes
  <1> HIDE DEF t, v
  <1>3. Len(t) + Len(text) < NPos
    <2>1. Len(v) = Len(t) + Len(text)
      BY <1>2, TextJoined
    <2> QED BY <1>2, <2>1
  <1>4. SplitPush(Splitter(start), t).sp = s.sp
    BY DEF t
  <1>5. o = next
    <2>1. CASE start # "answer"
      BY <1>1, <1>4, <2>1 DEF OnToken, Splits
    <2>2. CASE start = "answer"
      <3>1. Splitter(start) = Plain
        BY <2>2, SplitterPlaces
      <3>2. SplitPush(Plain, t) = [sp |-> Plain, ev |-> Event(FALSE, t)]
        BY PlainPasses
      <3>3. s.sp = Plain
        BY <1>4, <3>1, <3>2
      <3>4. next = [sp |-> Plain, ev |-> Event(FALSE, text)]
        <4>1. next = SplitPush(Plain, text)
          BY <1>4, <3>3
        <4> HIDE DEF next
        <4> QED BY <4>1, PlainPasses
      <3>5. o = [sp |-> s.sp, ev |-> Event(FALSE, text)]
        BY <2>2 DEF OnToken, Splits
      <3> HIDE DEF o, next
      <3> QED BY <3>3, <3>4, <3>5
    <2> QED BY <2>1, <2>2
  <1> HIDE DEF next, o
  <1>6. /\ next.sp = SplitPush(Splitter(start), t \o text).sp /\ next.ev \in Seq(Events)
        /\ Shown(start, t \o text) = Shown(start, t) \o TextOf(next.ev, FALSE)
        /\ Shown(start, t) \in Seq(Char) /\ TextOf(next.ev, FALSE) \in Seq(Char)
    BY <1>1, <1>2, <1>3, SplitterResumes DEF next
  <1>7. Took(r, g, h, o)
    BY <1>2, <1>5, <1>6 DEF Took, t, v
  <1> QED BY <1>7 DEF o

(* The sink after the call. *)
LEMMA SinkAfter ==
  ASSUME NEW r, NEW g, NEW h, NEW s, IsSink(s), ~s.delivered, NEW o, Took(r, g, h, o)
  PROVE  Sunk(r, h, AfterToken(s, o))
  <1> DEFINE a == AfterToken(s, o)
             x == s.text \o TextOf(o.ev, FALSE)
             y == s.raw \o TextOf(o.ev, TRUE)
             l == [s EXCEPT !["sp"] = o.sp]
             m == [l EXCEPT !["text"] = x]
  <1>0. s = [f \in SinkFields |-> s[f]]
    BY DEF IsSink
  <1>1. a = [s EXCEPT !.sp = o.sp, !.text = x, !.raw = y]
    BY <1>0 DEF AfterToken, SinkFields
  <1> HIDE DEF x, y
  <1>2. a = [m EXCEPT !["raw"] = y]
    BY <1>1
  <1> HIDE DEF a
  <1>3. l = [f \in SinkFields |-> l[f]] /\ l.sp = o.sp /\ l.delivered = s.delivered
    BY <1>0 DEF SinkFields
  <1> HIDE DEF l
  <1>4. m = [f \in SinkFields |-> m[f]] /\ m.sp = o.sp /\ m.delivered = s.delivered
    BY <1>3 DEF SinkFields
  <1> HIDE DEF m
  <1>5. a = [f \in SinkFields |-> a[f]] /\ a.sp = o.sp /\ a.delivered = s.delivered
    BY <1>2, <1>4 DEF SinkFields
  <1>6. Sunk(r, h, a)
    BY <1>5 DEF Sunk, IsSink, Took
  <1> QED BY <1>6 DEF a

-----------------------------------------------------------------------------
(* What the chunks on their way to the client hold.                        *)

(* Texts in a row. *)
LEMMA TextsAssociate ==
  \A a, b, c \in Seq(Char) :
    a \o b \in Seq(Char) /\ (a \o b) \o c = a \o (b \o c)
  <1> SUFFICES ASSUME NEW a \in Seq(Char), NEW b \in Seq(Char), NEW c \in Seq(Char)
               PROVE  a \o b \in Seq(Char) /\ (a \o b) \o c = a \o (b \o c)
    OBVIOUS
  <1>1. a \o b \in Seq(Char)
    BY ConcatProperties
  <1>2. (a \o b) \o c = a \o (b \o c)
    BY ConcatAssociative
  <1> QED BY <1>1, <1>2

(* The first chunk, then the others. *)
LEMMA HeadedContents ==
  ASSUME NEW s, Loaded(s), s # <<>>
  PROVE  /\ Loaded(Tail(s)) /\ ContentOf(Head(s)) \in Seq(Char)
         /\ Contents(s) = ContentOf(Head(s)) \o Contents(Tail(s))
  <1> DEFINE x == <<Head(s)>>
             t == Tail(s)
             u == x \o t
  <1>1. /\ Sequential(s) /\ Sequential(t) /\ Len(s) \in Nat \ {0} /\ DOMAIN t = 1 .. Len(s) - 1
        /\ \A i \in 1 .. Len(s) - 1 : t[i] = s[i + 1]
        /\ Head(s) = s[1] /\ DOMAIN s = 1 .. Len(s)
    BY Headed, SequentialFacts DEF Loaded
  <1>2. ContentOf(Head(s)) \in Seq(Char)
    BY <1>1 DEF Loaded
  <1>3. Loaded(t)
    <2>1. \A i \in DOMAIN t : i + 1 \in DOMAIN s /\ t[i] = s[i + 1]
      BY <1>1
    <2> QED BY <1>1, <2>1 DEF Loaded
  <1>4. Loaded(x) /\ Contents(x) = ContentOf(Head(s))
    BY <1>2, ContentsSmall
  <1>5. Len(t) = Len(s) - 1
    <2>1. Len(t) \in Nat /\ DOMAIN t = 1 .. Len(t)
      BY <1>1, SequentialFacts
    <2> DEFINE n == Len(s)
               k == Len(t)
    <2>2. n \in Nat \ {0} /\ k \in Nat /\ 1 .. k = 1 .. n - 1
      BY <1>1, <2>1
    <2> HIDE DEF n, k
    <2>3. k = n - 1
      BY <2>2
    <2> QED BY <2>3 DEF n, k
  <1>6. /\ Sequential(x) /\ Len(x) = 1 /\ x[1] = Head(s)
    BY Literals
  <1>7. /\ Sequential(u) /\ Len(u) = 1 + Len(t) /\ DOMAIN u = 1 .. 1 + Len(t)
        /\ \A i \in DOMAIN u : u[i] = IF i <= 1 THEN x[i] ELSE t[i - 1]
    <2>0. Sequential(x) /\ Sequential(t) /\ Len(x) = 1
      BY <1>1, <1>6
    <2> HIDE DEF x, t
    <2>1. /\ Sequential(x \o t) /\ Len(x \o t) = Len(x) + Len(t) /\ DOMAIN (x \o t) = 1 .. Len(x) + Len(t)
          /\ \A i \in DOMAIN (x \o t) : (x \o t)[i] = IF i <= Len(x) THEN x[i] ELSE t[i - Len(x)]
      BY <2>0, Concatenated
    <2> QED BY <2>0, <2>1
  <1>8. Len(u) = Len(s) /\ \A i \in 1 .. Len(s) : u[i] = s[i]
    <2> DEFINE n == Len(s)
    <2>1. n \in Nat \ {0} /\ Len(t) = n - 1 /\ \A i \in 1 .. n - 1 : t[i] = s[i + 1]
      BY <1>1, <1>5
    <2>2. Len(u) = n /\ DOMAIN u = 1 .. n
      <3> HIDE DEF u, t, n
      <3> QED BY <1>7, <2>1
    <2>3. ASSUME NEW i \in 1 .. n PROVE u[i] = s[i]
      <3>1. CASE i = 1
        <4>1. u[1] = x[1]
          BY <1>7, <2>2, <3>1
        <4> QED BY <1>1, <1>6, <3>1, <4>1
      <3>2. CASE i # 1
        <4>1. i - 1 \in 1 .. n - 1 /\ i \in DOMAIN u /\ ~(i <= 1) /\ (i - 1) + 1 = i
          <5> HIDE DEF u, n
          <5> QED BY <2>1, <2>2, <2>3, <3>2
        <4>2. u[i] = t[i - 1]
          BY <1>7, <4>1
        <4>3. t[i - 1] = s[(i - 1) + 1]
          BY <2>1, <4>1
        <4> QED BY <4>1, <4>2, <4>3
      <3> QED BY <3>1, <3>2
    <2> QED BY <2>2, <2>3
  <1>9. u = s
    <2> DEFINE S == {s[i] : i \in DOMAIN s} \cup {u[i] : i \in DOMAIN u}
    <2>1. s \in Seq(S) /\ u \in Seq(S)
      BY <1>1, <1>7, SeqMonotonic DEF Sequential
    <2> HIDE DEF S, u
    <2> QED BY <1>8, <2>1, SeqEqual
  <1>10. Contents(u) = Contents(x) \o Contents(t)
    <2> HIDE DEF x, t
    <2> QED BY <1>3, <1>4, ContentsConcat
  <1> QED BY <1>2, <1>3, <1>4, <1>9, <1>10

(* One chunk more. *)
LEMMA AppendedContents ==
  ASSUME NEW s, Loaded(s), NEW c, ContentOf(c) \in Seq(Char)
  PROVE  Loaded(Append(s, c)) /\ Contents(Append(s, c)) = Contents(s) \o ContentOf(c)
  <1>1. Append(s, c) = s \o <<c>>
    <2> DEFINE S == {s[i] : i \in DOMAIN s} \cup {c}
    <2>1. s \in Seq(S) /\ c \in S
      BY SeqMonotonic DEF Sequential, Loaded
    <2> HIDE DEF S
    <2> QED BY <2>1, AppendIsConcat
  <1>2. Loaded(<<c>>) /\ Contents(<<c>>) = ContentOf(c)
    BY ContentsSmall
  <1>3. Loaded(s \o <<c>>) /\ Contents(s \o <<c>>) = Contents(s) \o Contents(<<c>>)
    BY <1>2, ContentsConcat
  <1> QED BY <1>1, <1>2, <1>3

\* What a client has, what the HTTP thread holds, the queue and the sink call.
Carry(content, place, c, q, o, shown) ==
  /\ content \in Seq(Char) /\ (place # "write" => c.kind = "none")
  /\ Loaded(q) /\ Loaded(o) /\ ContentOf(c) \in Seq(Char)
  /\ content \o (ContentOf(c) \o (Contents(q) \o Contents(o))) = shown

(* It is what the invariant speaks of. *)
LEMMA CarryMeans ==
  ASSUME NEW content, NEW place, NEW c, NEW q, NEW o, NEW shown, Sequential(q), Sequential(o)
  PROVE  Carry(content, place, c, q, o, shown) <=>
           /\ content \in Seq(Char) /\ (place # "write" => c.kind = "none")
           /\ \A i \in DOMAIN q : ContentOf(q[i]) \in Seq(Char)
           /\ \A i \in DOMAIN o : ContentOf(o[i]) \in Seq(Char)
           /\ ContentOf(c) \in Seq(Char)
           /\ content \o Contents((<<c>> \o q) \o o) = shown
  <1>1. ASSUME Loaded(q), Loaded(o), ContentOf(c) \in Seq(Char)
        PROVE  Contents((<<c>> \o q) \o o) = ContentOf(c) \o (Contents(q) \o Contents(o))
    <2>1. Loaded(<<c>>) /\ Contents(<<c>>) = ContentOf(c)
      BY <1>1, ContentsSmall
    <2> DEFINE x == <<c>>
    <2> HIDE DEF x
    <2>2. Loaded(x) /\ Contents(x) = ContentOf(c)
      BY <2>1 DEF x
    <2>3. Loaded(x \o q) /\ Contents(x \o q) = Contents(x) \o Contents(q) /\ Contents(q) \in Seq(Char)
      BY <1>1, <2>2, ContentsConcat
    <2>4. Contents((x \o q) \o o) = Contents(x \o q) \o Contents(o) /\ Contents(o) \in Seq(Char)
      BY <1>1, <2>3, ContentsConcat
    <2>5. (ContentOf(c) \o Contents(q)) \o Contents(o) = ContentOf(c) \o (Contents(q) \o Contents(o))
      BY <1>1, <2>3, <2>4, TextsAssociate
    <2>6. Contents((x \o q) \o o) = ContentOf(c) \o (Contents(q) \o Contents(o))
      BY <2>2, <2>3, <2>4, <2>5
    <2> QED BY <2>6 DEF x
  <1> QED BY <1>1 DEF Carry, Loaded

(* Push moves a chunk of the sink call to the queue, *)
LEMMA PushCarries ==
  ASSUME NEW content, NEW place, NEW c, NEW q, NEW o, NEW shown,
         Carry(content, place, c, q, o, shown), o # <<>>
  PROVE  Carry(content, place, c, Append(q, Head(o)), Tail(o), shown)
  <1>1. Loaded(q) /\ Loaded(o)
    BY DEF Carry
  <1>2. /\ Loaded(Tail(o)) /\ ContentOf(Head(o)) \in Seq(Char)
        /\ Contents(o) = ContentOf(Head(o)) \o Contents(Tail(o))
    BY <1>1, HeadedContents
  <1>3. /\ Loaded(Append(q, Head(o)))
        /\ Contents(Append(q, Head(o))) = Contents(q) \o ContentOf(Head(o))
    BY <1>1, <1>2, AppendedContents
  <1>4. Contents(q) \in Seq(Char) /\ Contents(Tail(o)) \in Seq(Char)
    BY <1>1, <1>2, ContentsConcat
  <1>5. (Contents(q) \o ContentOf(Head(o))) \o Contents(Tail(o))
          = Contents(q) \o (ContentOf(Head(o)) \o Contents(Tail(o)))
    BY <1>2, <1>4, TextsAssociate
  <1>6. Contents(Append(q, Head(o))) \o Contents(Tail(o)) = Contents(q) \o Contents(o)
    BY <1>2, <1>3, <1>5
  <1> QED BY <1>2, <1>3, <1>6 DEF Carry

(* Next takes the queue's first, *)
LEMMA NextCarries ==
  ASSUME NEW content, NEW place, NEW c, NEW q, NEW o, NEW shown,
         Carry(content, place, c, q, o, shown), place # "write", q # <<>>
  PROVE  Carry(content, "write", Head(q), Tail(q), o, shown)
  <1>1. /\ Loaded(q) /\ Loaded(o) /\ c.kind = "none"
        /\ content \o (ContentOf(c) \o (Contents(q) \o Contents(o))) = shown
    BY DEF Carry
  <1>2. ContentOf(c) = <<>>
    BY <1>1 DEF ContentOf
  <1>3. /\ Loaded(Tail(q)) /\ ContentOf(Head(q)) \in Seq(Char)
        /\ Contents(q) = ContentOf(Head(q)) \o Contents(Tail(q))
    BY <1>1, HeadedContents
  <1>4. Contents(q) \in Seq(Char) /\ Contents(Tail(q)) \in Seq(Char) /\ Contents(o) \in Seq(Char)
    BY <1>1, <1>3, ContentsConcat
  <1>5. /\ Contents(q) \o Contents(o) \in Seq(Char)
        /\ (ContentOf(Head(q)) \o Contents(Tail(q))) \o Contents(o)
             = ContentOf(Head(q)) \o (Contents(Tail(q)) \o Contents(o))
    BY <1>3, <1>4, TextsAssociate
  <1>6. <<>> \o (Contents(q) \o Contents(o)) = Contents(q) \o Contents(o)
    BY <1>5, EmptyText
  <1>7. ContentOf(c) \o (Contents(q) \o Contents(o))
          = ContentOf(Head(q)) \o (Contents(Tail(q)) \o Contents(o))
    BY <1>2, <1>3, <1>5, <1>6
  <1> QED BY <1>1, <1>3, <1>7 DEF Carry

(* and writing it hands it to the client. *)
LEMMA WriteCarries ==
  ASSUME NEW content, NEW place, NEW c, NEW q, NEW o, NEW shown,
         Carry(content, place, c, q, o, shown)
  PROVE  Carry(content \o ContentOf(c), "pop", Chunk("none", <<>>), q, o, shown)
  <1> DEFINE none == Chunk("none", <<>>)
  <1>1. /\ Loaded(q) /\ Loaded(o) /\ ContentOf(c) \in Seq(Char) /\ content \in Seq(Char)
        /\ content \o (ContentOf(c) \o (Contents(q) \o Contents(o))) = shown
    BY DEF Carry
  <1>2. none.kind = "none" /\ ContentOf(none) = <<>> /\ <<>> \in Seq(Char)
    BY EmptyText DEF ContentOf, Chunk
  <1>3. Contents(q) \in Seq(Char) /\ Contents(o) \in Seq(Char)
    BY <1>1, ContentsConcat
  <1>4. Contents(q) \o Contents(o) \in Seq(Char)
    BY <1>3, TextsAssociate
  <1>5. ContentOf(none) \o (Contents(q) \o Contents(o)) = Contents(q) \o Contents(o)
    BY <1>2, <1>4, EmptyText
  <1>6. content \o ContentOf(c) \in Seq(Char)
        /\ (content \o ContentOf(c)) \o (Contents(q) \o Contents(o))
             = content \o (ContentOf(c) \o (Contents(q) \o Contents(o)))
    BY <1>1, <1>4, TextsAssociate
  <1> HIDE DEF none
  <1>7. Carry(content \o ContentOf(c), "pop", none, q, o, shown)
    BY <1>1, <1>2, <1>5, <1>6 DEF Carry
  <1> QED BY <1>7 DEF none

(* A sink call puts its text behind everything. *)
LEMMA CallCarries ==
  ASSUME NEW content, NEW place, NEW c, NEW q, NEW d, NEW shown,
         Carry(content, place, c, q, <<>>, shown), Loaded(d)
  PROVE  Carry(content, place, c, q, d, shown \o Contents(d))
  <1>1. /\ Loaded(q) /\ Loaded(<<>>) /\ ContentOf(c) \in Seq(Char) /\ content \in Seq(Char)
        /\ content \o (ContentOf(c) \o (Contents(q) \o Contents(<<>>))) = shown
        /\ place # "write" => c.kind = "none"
    BY DEF Carry
  <1>2. Contents(q) \in Seq(Char) /\ Contents(d) \in Seq(Char)
    BY <1>1, ContentsConcat
  <1>3. Contents(q) \o Contents(<<>>) = Contents(q)
    BY <1>2, ContentsSmall, EmptyText
  <1>4. shown = content \o (ContentOf(c) \o Contents(q))
    BY <1>1, <1>3
  <1>5. /\ ContentOf(c) \o Contents(q) \in Seq(Char)
        /\ (ContentOf(c) \o Contents(q)) \o Contents(d) = ContentOf(c) \o (Contents(q) \o Contents(d))
    BY <1>1, <1>2, TextsAssociate
  <1>6. (content \o (ContentOf(c) \o Contents(q))) \o Contents(d)
          = content \o ((ContentOf(c) \o Contents(q)) \o Contents(d))
    BY <1>1, <1>2, <1>5, TextsAssociate
  <1>7. shown \o Contents(d) = content \o (ContentOf(c) \o (Contents(q) \o Contents(d)))
    BY <1>4, <1>5, <1>6
  <1> QED BY <1>1, <1>7 DEF Carry

-----------------------------------------------------------------------------
(* The steps that do not touch the text.                                   *)

(* What the invariant says of the chunks, before and after a step. *)
LEMMA CarriedMeans ==
  ASSUME IInv, IInv'
  PROVE  /\ Carried <=> Carry(got.content, http, chunk, queue, out,
                              Shown(req.start, Take(gen.acc, gen.forwarded)))
         /\ Carried' <=> Carry(got'.content, http', chunk', queue', out',
                               Shown(req'.start, Take(gen'.acc, gen'.forwarded)))
  <1>1. Sequential(queue) /\ Sequential(out) /\ Sequential(queue') /\ Sequential(out')
    BY DEF IInv, Shapes
  <1>2. Carried <=> Carry(got.content, http, chunk, queue, out,
                          Shown(req.start, Take(gen.acc, gen.forwarded)))
    <2> DEFINE shown == Shown(req.start, Take(gen.acc, gen.forwarded))
               x == got.content
    <2>1. Carried <=>
            /\ x \in Seq(Char) /\ (http # "write" => chunk.kind = "none")
            /\ \A i \in DOMAIN queue : ContentOf(queue[i]) \in Seq(Char)
            /\ \A i \in DOMAIN out : ContentOf(out[i]) \in Seq(Char)
            /\ ContentOf(chunk) \in Seq(Char)
            /\ x \o Contents((<<chunk>> \o queue) \o out) = shown
      BY DEF Carried, Emitted
    <2> HIDE DEF shown, x
    <2>2. Carry(x, http, chunk, queue, out, shown) <=>
            /\ x \in Seq(Char) /\ (http # "write" => chunk.kind = "none")
            /\ \A i \in DOMAIN queue : ContentOf(queue[i]) \in Seq(Char)
            /\ \A i \in DOMAIN out : ContentOf(out[i]) \in Seq(Char)
            /\ ContentOf(chunk) \in Seq(Char)
            /\ x \o Contents((<<chunk>> \o queue) \o out) = shown
      BY <1>1, CarryMeans
    <2> QED BY <2>1, <2>2 DEF shown, x
  <1>3. Carried' <=> Carry(got'.content, http', chunk', queue', out',
                          Shown(req'.start, Take(gen'.acc, gen'.forwarded)))
    <2> DEFINE shown == Shown(req'.start, Take(gen'.acc, gen'.forwarded))
               x == got'.content
    <2>1. Carried' <=>
            /\ x \in Seq(Char) /\ (http' # "write" => chunk'.kind = "none")
            /\ \A i \in DOMAIN queue' : ContentOf(queue'[i]) \in Seq(Char)
            /\ \A i \in DOMAIN out' : ContentOf(out'[i]) \in Seq(Char)
            /\ ContentOf(chunk') \in Seq(Char)
            /\ x \o Contents((<<chunk'>> \o queue') \o out') = shown
      BY DEF Carried, Emitted
    <2> HIDE DEF shown, x
    <2>2. Carry(x, http', chunk', queue', out', shown) <=>
            /\ x \in Seq(Char) /\ (http' # "write" => chunk'.kind = "none")
            /\ \A i \in DOMAIN queue' : ContentOf(queue'[i]) \in Seq(Char)
            /\ \A i \in DOMAIN out' : ContentOf(out'[i]) \in Seq(Char)
            /\ ContentOf(chunk') \in Seq(Char)
            /\ x \o Contents((<<chunk'>> \o queue') \o out') = shown
      BY <1>1, CarryMeans
    <2> QED BY <2>1, <2>2 DEF shown, x
  <1> QED BY <1>2, <1>3

(* The text stays, the worker may move on, and the chunks move along.      *)
LEMMA TextStays ==
  ASSUME TextInv, UNCHANGED <<req, gen, sink, tokens>>, NEW here, NEW there,
         pc = here, pc' = there,
         Live(req) /\ there \in Streaming =>
           here \in Streaming /\ (Bookkept(req, gen, here) => Bookkept(req, gen, there)),
         alive' => alive,
         Live(req) /\ here \in Streaming /\ alive /\ alive' /\ Carried => Carried'
  PROVE  TextInv'
  <1>1. SUFFICES ASSUME Live(req'), pc' \in Streaming
                 PROVE  /\ Texts(req', gen', tokens') /\ Bookkept(req', gen', pc')
                        /\ Sunk(req', gen', sink') /\ (alive' => Carried')
    BY DEF TextInv
  <1>2. Live(req) /\ here \in Streaming
    BY <1>1
  <1>3. /\ Texts(req, gen, tokens) /\ Bookkept(req, gen, here) /\ Sunk(req, gen, sink)
        /\ alive => Carried
    BY <1>2 DEF TextInv
  <1>4. Bookkept(req, gen, there)
    BY <1>1, <1>3
  <1>5. Texts(req', gen', tokens') /\ Bookkept(req', gen', pc') /\ Sunk(req', gen', sink')
    BY <1>3, <1>4
  <1> QED BY <1>2, <1>3, <1>5

(* OnStart sends the role, *)
LEMMA StartText ==
  ASSUME IInv, IInv', TextInv, OnStart
  PROVE  TextInv'
  <1>1. /\ pc = "start" /\ out = <<>> /\ pc' = "decode" /\ UNCHANGED <<req, gen, sink, tokens>>
        /\ UNCHANGED <<got, http, chunk, queue, alive>>
    BY Levels DEF OnStart, At, httpVars
  <1>2. Loaded(out') /\ Contents(out') = <<>>
    <2>1. out' = <<>> \/ out' = <<Chunk("role", <<>>)>>
      BY DEF OnStart
    <2>2. ContentOf(Chunk("role", <<>>)) = <<>> /\ <<>> \in Seq(Char)
      BY EmptyText DEF ContentOf, Chunk
    <2> QED BY <2>1, <2>2, ContentsSmall
  <1>3. ASSUME Carried PROVE Carried'
    <2> DEFINE shown == Shown(req.start, Take(gen.acc, gen.forwarded))
    <2>1. Carry(got.content, http, chunk, queue, <<>>, shown)
      BY <1>1, <1>3, CarriedMeans
    <2>2. Carry(got.content, http, chunk, queue, out', shown \o Contents(out'))
      <3> HIDE DEF shown
      <3> QED BY <1>2, <2>1, CallCarries
    <2>3. shown \o Contents(out') = shown
      <3> HIDE DEF shown
      <3>1. /\ got.content \in Seq(Char) /\ ContentOf(chunk) \in Seq(Char) /\ Loaded(queue)
            /\ Loaded(<<>>)
            /\ got.content \o (ContentOf(chunk) \o (Contents(queue) \o Contents(<<>>))) = shown
        BY <2>1 DEF Carry
      <3>2. Contents(queue) \in Seq(Char) /\ Contents(<<>>) \in Seq(Char)
        BY <3>1, ContentsConcat
      <3>3. shown \in Seq(Char)
        BY <3>1, <3>2, TextsAssociate
      <3> QED BY <1>2, <3>3, EmptyText
    <2>4. Carry(got'.content, http', chunk', queue', out', Shown(req'.start, Take(gen'.acc, gen'.forwarded)))
      BY <1>1, <2>2, <2>3
    <2> QED BY <2>4, CarriedMeans
  <1>4. "start" \in Streaming /\ (Bookkept(req, gen, "start") => Bookkept(req, gen, "decode"))
    BY BookStays DEF Streaming
  <1> QED BY <1>1, <1>3, <1>4, TextStays

(* the loop ends and the log is written, *)
LEMMA SilentText ==
  ASSUME IInv, IInv', TextInv, LeaveLoop \/ NoteClientGone
  PROVE  TextInv'
  <1>1. /\ UNCHANGED <<req, gen, sink, tokens>> /\ UNCHANGED <<got, http, chunk, queue, out, alive>>
        /\ \/ pc = "decode" /\ pc' = "tail"
           \/ pc = "log" /\ pc' = "parse"
    BY Levels DEF LeaveLoop, NoteClientGone, At, httpVars
  <1>2. ASSUME Carried PROVE Carried'
    <2>1. Carry(got'.content, http', chunk', queue', out', Shown(req'.start, Take(gen'.acc, gen'.forwarded)))
      BY <1>1, <1>2, CarriedMeans
    <2> QED BY <2>1, CarriedMeans
  <1>3. /\ "decode" \in Streaming /\ (Bookkept(req, gen, "decode") => Bookkept(req, gen, "tail"))
        /\ "log" \in Streaming /\ (Bookkept(req, gen, "log") => Bookkept(req, gen, "parse"))
    BY BookStays DEF Streaming
  <1>4. CASE pc = "decode" /\ pc' = "tail"
    BY <1>1, <1>2, <1>3, <1>4, TextStays
  <1>5. CASE pc = "log" /\ pc' = "parse"
    BY <1>1, <1>2, <1>3, <1>5, TextStays
  <1> QED BY <1>1, <1>4, <1>5

(* the queue takes a chunk, *)
LEMMA PushText ==
  ASSUME IInv, IInv', TextInv, Push
  PROVE  TextInv'
  <1>1. /\ out # <<>> /\ out' = Tail(out) /\ UNCHANGED <<req, gen, sink, tokens, pc, closed>>
        /\ UNCHANGED <<got, http, chunk, alive>>
        /\ queue' = IF closed THEN queue ELSE Append(queue, Head(out))
    BY DEF Push, httpVars
  <1>2. ASSUME alive, pc \in Streaming, Carried PROVE Carried'
    <2>1. ~closed
      BY <1>2 DEF IInv, CloseIsCause, Streaming
    <2>2. queue' = Append(queue, Head(out))
      BY <1>1, <2>1
    <2>3. Carry(got.content, http, chunk, Append(queue, Head(out)), Tail(out),
                Shown(req.start, Take(gen.acc, gen.forwarded)))
      BY <1>1, <1>2, CarriedMeans, PushCarries
    <2>4. Carry(got'.content, http', chunk', queue', out', Shown(req'.start, Take(gen'.acc, gen'.forwarded)))
      BY <1>1, <2>2, <2>3
    <2> QED BY <2>4, CarriedMeans
  <1> QED BY <1>1, <1>2, TextStays

(* the worker leaves the parts of RunRequest that stream, *)
LEMMA LastText ==
  ASSUME ParseTools \/ OnDone \/ OnError \/ CloseQueue
  PROVE  TextInv'
  <1>1. pc' \in {"done", "close", "ended"}
    <2>1. CASE ParseTools
      BY <2>1, Levels DEF ParseTools, At
    <2>2. CASE OnDone
      BY <2>2, Levels DEF OnDone, At
    <2>3. CASE OnError
      BY <2>3 DEF OnError
    <2>4. CASE CloseQueue
      BY <2>4, Levels DEF CloseQueue, At
    <2> QED BY <2>1, <2>2, <2>3, <2>4
  <1> QED BY <1>1 DEF TextInv, Streaming

(* and the HTTP thread hands on what the worker said, or the client goes.  *)
LEMMA HttpText ==
  ASSUME IInv, IInv', req \in Requests, TextInv, Http \/ ClientLeaves
  PROVE  TextInv'
  <1>1. /\ UNCHANGED <<req, gen, sink, tokens, pc, out>> /\ (alive' => alive)
    BY DEF Http, ClientLeaves, StreamNext, WriteChunk, WriteFails, CancelClose, Release, Respond,
           workerVars
  <1> DEFINE shown == Shown(req.start, Take(gen.acc, gen.forwarded))
  <1>2. Carried <=> Carry(got.content, http, chunk, queue, out, shown)
    BY CarriedMeans
  <1>3. Carried' <=> Carry(got'.content, http', chunk', queue', out, shown)
    BY <1>1, CarriedMeans
  <1> HIDE DEF shown
  <1>4. ASSUME Live(req), alive, alive', pc \in Streaming, Carried PROVE Carried'
    <2>1. ~closed /\ http # "cancel" /\ http # "release" /\ http # "wait"
      BY <1>4 DEF IInv, CloseIsCause, Streaming, Live
    <2>2. CASE StreamNext
      <3>1. /\ http = "pop" /\ http' = "write" /\ queue # <<>> /\ chunk' = Head(queue)
            /\ queue' = Tail(queue) /\ got' = got
        BY <2>1, <2>2 DEF StreamNext, Drained
      <3>2. Carry(got.content, "write", Head(queue), Tail(queue), out, shown)
        BY <1>2, <1>4, <3>1, NextCarries
      <3> QED BY <1>3, <3>1, <3>2
    <2>3. CASE WriteChunk
      <3>1. /\ http' = "pop" /\ chunk' = Chunk("none", <<>>) /\ queue' = queue
            /\ got' = Received(got, chunk)
        BY <1>4, <2>3 DEF WriteChunk
      <3>2. Carry(got.content \o ContentOf(chunk), "pop", Chunk("none", <<>>), queue, out, shown)
        BY <1>2, <1>4, WriteCarries
      <3>3. got'.content = got.content \o ContentOf(chunk)
        <4>1. got'.content = IF chunk.kind = "content" THEN got.content \o chunk.text ELSE got.content
          BY <3>1 DEF Received
        <4>2. got.content \o <<>> = got.content
          BY <1>2, <1>4, EmptyText DEF Carry
        <4> QED BY <4>1, <4>2 DEF ContentOf
      <3> QED BY <1>3, <3>1, <3>2, <3>3
    <2>4. ~ClientLeaves /\ ~WriteFails
      BY <1>4 DEF ClientLeaves, WriteFails
    <2>5. ~CancelClose /\ ~Release /\ ~Respond
      BY <2>1 DEF CancelClose, Release, Respond
    <2> QED BY <2>2, <2>3, <2>4, <2>5 DEF Http
  <1> QED BY <1>1, <1>4, TextStays

-----------------------------------------------------------------------------
(* The steps that do.                                                      *)

(* What a sink call sends is what the splitter lets through. *)
LEMMA CallText ==
  ASSUME IInv, IInv', out = <<>>, UNCHANGED <<req, got, http, chunk, queue>>,
         NEW g, NEW h, gen = g, gen' = h, NEW o, Took(req, g, h, o), out' = DeltaChunks(req, o.ev)
  PROVE  Carried => Carried'
  <1> DEFINE shown == Shown(req.start, Take(g.acc, g.forwarded))
             more == Shown(req.start, Take(h.acc, h.forwarded))
             d == DeltaChunks(req, o.ev)
  <1>1. Carried => Carry(got.content, http, chunk, queue, <<>>, shown)
    BY CarriedMeans
  <1>2. Carried' <=> Carry(got.content, http, chunk, queue, d, more)
    BY CarriedMeans
  <1>3. Loaded(d) /\ Contents(d) = TextOf(o.ev, FALSE)
    <2>1. o.ev \in Seq(Events)
      BY DEF Took
    <2> QED BY <2>1, ContentsOfDeltas
  <1>4. more = shown \o Contents(d)
    BY <1>3 DEF Took
  <1> HIDE DEF shown, more, d
  <1>5. Carry(got.content, http, chunk, queue, <<>>, shown) =>
          Carry(got.content, http, chunk, queue, d, shown \o Contents(d))
    BY <1>3, CallCarries
  <1> QED BY <1>1, <1>2, <1>4, <1>5

(* Two sink calls in a row are one. *)
LEMMA TwoCalls ==
  ASSUME NEW r, NEW g, NEW m, NEW h, NEW first, NEW second,
         Took(r, g, m, first), Took(r, m, h, second)
  PROVE  Took(r, g, h, [sp |-> second.sp, ev |-> first.ev \o second.ev])
  <1> DEFINE a == Shown(r.start, Take(g.acc, g.forwarded))
             b == Shown(r.start, Take(m.acc, m.forwarded))
             c == Shown(r.start, Take(h.acc, h.forwarded))
             o == [sp |-> second.sp, ev |-> first.ev \o second.ev]
             x == TextOf(first.ev, FALSE)
             y == TextOf(second.ev, FALSE)
  <1>1. /\ first.ev \in Seq(Events) /\ second.ev \in Seq(Events)
        /\ a \in Seq(Char) /\ x \in Seq(Char) /\ y \in Seq(Char) /\ b = a \o x /\ c = b \o y
        /\ second.sp = SplitPush(Splitter(r.start), Take(h.acc, h.forwarded)).sp
    BY DEF Took
  <1>2. first.ev \o second.ev \in Seq(Events)
    BY <1>1, ConcatProperties
  <1>3. TextOf(first.ev \o second.ev, FALSE) = x \o y
    <2> DEFINE no == FALSE
    <2>1. no \in BOOLEAN
      OBVIOUS
    <2>2. x = TextOf(first.ev, no) /\ y = TextOf(second.ev, no)
      OBVIOUS
    <2> HIDE DEF no, x, y
    <2>3. TextOf(first.ev \o second.ev, no) = x \o y
      BY <1>1, <2>1, <2>2, TextOfConcat
    <2> QED BY <2>3 DEF no
  <1>4. o.sp = second.sp /\ o.ev = first.ev \o second.ev
    OBVIOUS
  <1> HIDE DEF o, x, y
  <1>5. x \o y \in Seq(Char) /\ c = a \o (x \o y)
    BY <1>1, TextsAssociate
  <1>6. Took(r, g, h, o)
    BY <1>1, <1>2, <1>3, <1>4, <1>5 DEF Took
  <1> QED BY <1>6 DEF o

\* The client's text after a step of the worker on the text.
TextAfter == Texts(req', gen', tokens') /\ Bookkept(req', gen', pc') /\ Sunk(req', gen', sink')
             /\ (alive' => Carried')

(* A token is generated, *)
LEMMA TokenStep ==
  ASSUME IInv, IInv', req \in Requests, TextInv, NEW token \in req.vocab, DecodeToken(token)
  PROVE  TextInv'
  <1> DEFINE e == EmitToken(req, gen, token)
             o == OnToken(req, sink, e.text)
             place == IF e.hit THEN "tail" ELSE "decode"
  <1>1. /\ pc = "decode" /\ out = <<>> /\ tokens < req.maxTokens /\ tokens' = tokens + 1
        /\ gen' = e.g /\ sink' = AfterToken(sink, o)
        /\ (req.stream => out' = DeltaChunks(req, o.ev)) /\ pc' = place
        /\ UNCHANGED <<req, got, http, chunk, queue, alive>>
    BY Levels DEF DecodeToken, Emit, Deliver, At, httpVars
  <1> SUFFICES ASSUME Live(req) PROVE TextAfter
    BY <1>1 DEF TextInv, TextAfter
  <1>2. RequestOK(req) /\ TextFits(req)
    BY StreamAssumption
  <1>3. /\ Texts(req, gen, tokens) /\ Bookkept(req, gen, "decode") /\ Sunk(req, gen, sink)
        /\ (alive => Carried)
    BY <1>1 DEF TextInv, Streaming
  <1>4. Texts(req, e.g, tokens + 1) /\ Bookkept(req, e.g, place) /\ Passes(gen, e.g, e.text)
    BY <1>1, <1>2, <1>3, TokenText
  <1> HIDE DEF e, place
  <1>5. Took(req, gen, e.g, o)
    <2>1. sink.sp = SplitPush(Splitter(req.start), Take(gen.acc, gen.forwarded)).sp /\ ~sink.delivered
      BY <1>3 DEF Sunk
    <2> QED BY <1>2, <1>4, <2>1, SinkTakes
  <1> HIDE DEF o
  <1>6. Sunk(req, e.g, sink')
    BY <1>1, <1>3, <1>5, SinkAfter DEF Sunk
  <1>7. Carried => Carried'
    BY <1>1, <1>5, CallText DEF Live
  <1> QED BY <1>1, <1>3, <1>4, <1>6, <1>7 DEF TextAfter

(* and the tail is flushed. *)
LEMMA TailStep ==
  ASSUME IInv, IInv', req \in Requests, TextInv, FlushTail
  PROVE  TextInv'
  <1> DEFINE g1 == [gen EXCEPT !.acc = @ \o gen.hold, !.hold = <<>>, !.tail = gen.hold]
             tail == Routed(req, g1, gen.hold)
             last == FlushGated(tail.g, TRUE)
             first == OnToken(req, sink, tail.text)
             second == OnToken(req, [sink EXCEPT !.sp = first.sp], last.text)
             o == [sp |-> second.sp, ev |-> first.ev \o second.ev]
  <1> SUFFICES ASSUME Live(req) PROVE TextAfter
    <2>1. UNCHANGED req
      BY DEF FlushTail
    <2> QED BY <2>1 DEF TextInv, TextAfter
  <1>1. /\ pc = "tail" /\ out = <<>> /\ pc' = "log" /\ gen' = last.g /\ sink' = AfterToken(sink, o)
        /\ (req.stream => out' = DeltaChunks(req, o.ev))
        /\ UNCHANGED <<req, tokens, got, http, chunk, queue, alive>>
    BY Levels DEF FlushTail, FlushDecoder, FlushGate, DeliverSecond, Deliver, At, httpVars
  <1>2. RequestOK(req) /\ TextFits(req)
    BY StreamAssumption
  <1>3. /\ Texts(req, gen, tokens) /\ Bookkept(req, gen, "tail") /\ Sunk(req, gen, sink)
        /\ (alive => Carried)
    BY <1>1 DEF TextInv, Streaming
  <1>4. /\ Texts(req, last.g, tokens) /\ Bookkept(req, last.g, "log")
        /\ Passes(gen, tail.g, tail.text) /\ Passes(tail.g, last.g, last.text)
    BY <1>2, <1>3, TailText
  <1> HIDE DEF tail, last, g1
  <1>5. Took(req, gen, tail.g, first)
    <2>1. sink.sp = SplitPush(Splitter(req.start), Take(gen.acc, gen.forwarded)).sp /\ ~sink.delivered
      BY <1>3 DEF Sunk
    <2> QED BY <1>2, <1>4, <2>1, SinkTakes
  <1> HIDE DEF first
  <1>6. Took(req, tail.g, last.g, second)
    <2> DEFINE s == [sink EXCEPT !.sp = first.sp]
    <2>1. s.sp = first.sp /\ s.delivered = sink.delivered
      <3>1. sink = [f \in SinkFields |-> sink[f]]
        BY <1>3 DEF Sunk, IsSink
      <3> QED BY <3>1 DEF SinkFields
    <2>2. /\ first.sp = SplitPush(Splitter(req.start), Take(tail.g.acc, tail.g.forwarded)).sp
          /\ ~sink.delivered
      BY <1>3, <1>5 DEF Sunk, Took
    <2>3. second = OnToken(req, s, last.text)
      OBVIOUS
    <2> HIDE DEF s, second
    <2> QED BY <1>2, <1>4, <2>1, <2>2, <2>3, SinkTakes
  <1> HIDE DEF second
  <1>7. Took(req, gen, last.g, o)
    BY <1>5, <1>6, TwoCalls
  <1> HIDE DEF o
  <1>8. Sunk(req, last.g, sink')
    BY <1>1, <1>3, <1>7, SinkAfter DEF Sunk
  <1>9. Carried => Carried'
    BY <1>1, <1>7, CallText DEF Live
  <1> QED BY <1>1, <1>3, <1>4, <1>8, <1>9 DEF TextAfter

-----------------------------------------------------------------------------
(* Before anything is generated.                                           *)

(* A locator shown nothing is where it starts. *)
LEMMA LocEmpty ==
  ASSUME NEW start \in Starts
  PROVE  LocatorUpdate(Locator(start), <<>>) = Locator(start)
  <1> DEFINE n == Skip(start)
             p == Find(<<>>, CloseTag, n)
  <1>1. /\ <<>> \in Seq(Char) /\ Len(<<>>) = 0 /\ <<>> \o <<>> = <<>> /\ Len(<<>>) + Len(<<>>) < NPos
    BY EmptyText, NPosAssumption
  <1>2. CloseTag \in Seq(Char) /\ Len(CloseTag) \in Nat \ {0} /\ OpenTag \in Seq(Char)
        /\ Len(OpenTag) \in Nat \ {0}
    BY Tags
  <1>3. n \in Nat
    BY <1>2 DEF Skip
  <1>4. p = NPos
    <2> HIDE DEF n
    <2>1. p # NPos => p \in n .. Len(<<>>) - Len(CloseTag)
      BY <1>1, <1>2, <1>3, FindKept
    <2> DEFINE k == Len(CloseTag)
    <2>2. p # NPos => p \in n .. 0 - k
      BY <1>1, <2>1
    <2>3. k \in Nat \ {0}
      BY <1>2
    <2> HIDE DEF p, k
    <2> QED BY <1>3, <2>2, <2>3
  <1>5. ~IsPrefix(OpenTag, <<>>) /\ IsPrefix(<<>>, OpenTag)
    <2>1. IsPrefix(OpenTag, <<>>) => Len(OpenTag) <= 0
      BY <1>1, <1>2, PrefixPointwise
    <2>2. IsPrefix(<<>>, OpenTag) <=> 0 <= Len(OpenTag) /\ \A i \in 1 .. 0 : <<>>[i] = OpenTag[i]
      BY <1>1, <1>2, PrefixPointwise
    <2>3. 0 <= Len(OpenTag) /\ ~(Len(OpenTag) <= 0) /\ 1 .. 0 = {}
      <3> DEFINE k == Len(OpenTag)
      <3>1. k \in Nat \ {0}
        BY <1>2
      <3> HIDE DEF k
      <3> QED BY <3>1 DEF k
    <2> QED BY <2>1, <2>2, <2>3
  <1>6. LocatorUpdate(Locator(start), <<>>) = LocAt(start, <<>>)
    BY LocAtOnce
  <1>7. CASE start = "answer"
    <2>1. LocAt(start, <<>>) = BeginsAtOnce
      BY <1>7 DEF LocAt, Inside, Undecided
    <2> QED BY <1>6, <1>7, <2>1, LocFields
  <1>8. CASE start = "expect"
    <2>1. LocAt(start, <<>>) = Searching("expect")
      BY <1>5, <1>8 DEF LocAt, Inside, Undecided
    <2> QED BY <1>6, <1>8, <2>1, LocFields
  <1>9. CASE start = "reasoning"
    <2>1. LocAt(start, <<>>) = Searching("reasoning")
      BY <1>4, <1>9 DEF LocAt, Inside
    <2> QED BY <1>6, <1>9, <2>1, LocFields
  <1> QED BY <1>7, <1>8, <1>9 DEF Starts

(* RunRequest's locals before the first token. *)
LEMMA FirstBook ==
  ASSUME NEW r, RequestOK(r), NEW g,
         g = [acc |-> <<>>, hold |-> <<>>, tail |-> <<>>, stopPos |-> NPos, cut |-> NPos,
              loc |-> Locator(r.start),
              floor |-> IF r.start = "answer" THEN 0 ELSE NPos,
              thinkEnd |-> IF r.start = "answer" THEN 0 ELSE NPos,
              begin |-> IF r.start = "answer" THEN 0 ELSE NPos,
              forwarded |-> 0, streamable |-> 0, fed |-> 0, gate |-> Gate]
  PROVE  /\ Texts(r, g, 0) /\ Bookkept(r, g, "start")
         /\ Shown(r.start, Take(g.acc, g.forwarded)) = <<>>
         /\ SplitPush(Splitter(r.start), Take(g.acc, g.forwarded)).sp = Splitter(r.start)
  <1> DEFINE start == r.start
             first == IF start = "answer" THEN 0 ELSE NPos
  <1>1. start \in Starts /\ r.maxTokens \in Nat
    BY DEF RequestOK, Starts
  <1>2. /\ g.acc = <<>> /\ g.hold = <<>> /\ g.stopPos = NPos /\ g.loc = Locator(start)
        /\ g.floor = first /\ g.thinkEnd = first /\ g.begin = first
        /\ g.forwarded = 0 /\ g.streamable = 0 /\ g.fed = 0 /\ g.gate = Gate
    OBVIOUS
  <1>3. IsGen(g)
    BY DEF IsGen, Fields
  <1>4. <<>> \in Seq(Char) /\ Len(<<>>) = 0 /\ NPos \in Nat /\ NPos # 0
    BY EmptyText, NPosAssumption
  <1>5. Texts(r, g, 0)
    <2>1. \A longest \in 0 .. NPos : Len(g.acc) + Len(g.hold) <= 0 * longest
      <3>1. \A longest \in 0 .. NPos : longest \in Nat /\ 0 * longest = 0
        BY NPosAssumption
      <3> QED BY <1>2, <1>4, <3>1
    <2>2. 0 \in 0 .. r.maxTokens
      BY <1>1
    <2> QED BY <1>2, <1>3, <1>4, <2>1, <2>2 DEF Texts
  <1>6. /\ Locator(start).end = first /\ (start = "answer" => Locator(start).state = "answer")
        /\ ~Locator(start).byTag
    BY <1>1, LocFields DEF Starts
  <1>7. Located(r, g)
    <2>1. LocatorUpdate(Locator(start), g.acc) = Locator(start)
      BY <1>1, <1>2, LocEmpty
    <2> QED BY <1>2, <1>6, <2>1 DEF Located
  <1>8. StopIn(g)
    <2>1. Min({NPos, 0}) = 0
      <3> DEFINE np == NPos
      <3>1. np \in Nat /\ 0 \in Nat /\ np # 0
        BY <1>4
      <3> HIDE DEF np
      <3>2. Min({np, 0}) = IF np <= 0 THEN np ELSE 0
        BY <3>1, MinMaxOfTwo
      <3>3. Min({np, 0}) = 0
        BY <3>1, <3>2
      <3> QED BY <3>3 DEF np
    <2>2. Min({g.stopPos, Len(g.acc)}) = 0
      BY <1>2, <1>4, <2>1
    <2> QED BY <1>2, <1>4, <2>2 DEF StopIn
  <1>9. Begun(g)
    <2>1. CASE start = "answer"
      <3>1. g.begin = 0 /\ g.loc.state = "answer" /\ g.loc.end = 0 /\ ~g.loc.byTag /\ g.begin # NPos
        BY <1>2, <1>4, <1>6, <2>1
      <3>2. Len(g.acc) = 0 /\ g.fed = 0
        BY <1>2, <1>4
      <3> QED BY <3>1, <3>2 DEF Begun
    <2>2. CASE start # "answer"
      BY <1>2, <2>2 DEF Begun
    <2> QED BY <2>1, <2>2
  <1>10. FedIn(g) = <<>>
    <2>1. LocatedIn(r, g) /\ (Begun(g) <=> BegunIn(r, g))
      <3>1. g.acc \in Seq(Char) /\ Len(g.acc) < NPos
        BY <1>2, <1>4, NPosAssumption
      <3> QED BY <1>1, <1>7, <3>1, BeginMeans
    <2>2. /\ FedIn(g) \in Seq(Char)
          /\ (g.begin # NPos => Len(FedIn(g)) \in 0 .. Len(g.acc) - g.begin)
          /\ (g.begin = NPos => FedIn(g) = <<>>)
      BY <1>1, <1>9, <2>1, FedRange
    <2>3. CASE g.begin = NPos
      BY <2>2, <2>3
    <2>4. CASE g.begin # NPos
      <3>1. g.begin = 0 /\ Len(g.acc) = 0
        BY <1>2, <1>4, <2>4
      <3>2. Len(FedIn(g)) \in 0 .. 0
        BY <2>2, <2>4, <3>1
      <3> QED BY <2>2, <3>2, EmptyText
    <2> QED BY <2>3, <2>4
  <1>11. GatedIn(g)
    BY <1>2, <1>10, GateRests DEF GatedIn
  <1>12. Take(g.acc, g.forwarded) = <<>>
    BY <1>2 DEF Take
  <1>13. /\ SplitPush(Splitter(start), <<>>).sp = Splitter(start)
         /\ SplitPush(Splitter(start), <<>>).ev = <<>>
    BY DEF SplitPush
  <1>14. Shown(start, <<>>) = <<>>
    <2> DEFINE no == FALSE
    <2> HIDE DEF no
    <2>1. no \in BOOLEAN
      BY DEF no
    <2>2. TextOf(<<>>, no) = <<>>
      BY <1>4, <2>1, TextOfEvent
    <2> QED BY <1>13, <2>2 DEF Shown, no
  <1>15. ForwardedIn(r, g)
    BY <1>2, <1>4, <1>12, <1>14 DEF ForwardedIn
  <1>16. Bookkept(r, g, "start")
    BY <1>2, <1>7, <1>8, <1>9, <1>11, <1>15 DEF Bookkept, Flushed
  <1> QED BY <1>5, <1>12, <1>13, <1>14, <1>16

(* The invariant of the text holds before anything runs. *)
LEMMA InitText == Init => TextInv
  <1> SUFFICES ASSUME Init, Live(req), pc \in Streaming
               PROVE  /\ Texts(req, gen, tokens) /\ Bookkept(req, gen, pc) /\ Sunk(req, gen, sink)
                      /\ (alive => Carried)
    BY DEF TextInv
  <1>1. RequestOK(req)
    BY StreamAssumption DEF Init
  <1>2. /\ Texts(req, gen, 0) /\ Bookkept(req, gen, "start")
        /\ Shown(req.start, Take(gen.acc, gen.forwarded)) = <<>>
        /\ SplitPush(Splitter(req.start), Take(gen.acc, gen.forwarded)).sp = Splitter(req.start)
    BY <1>1, FirstBook DEF Init
  <1>3. /\ pc = "start" /\ tokens = 0 /\ out = <<>> /\ queue = <<>> /\ chunk = Chunk("none", <<>>)
        /\ http = "pop" /\ got.content = <<>>
    BY DEF Init, Live
  <1>4. Sunk(req, gen, sink)
    <2>1. IsSink(sink) /\ ~sink.delivered /\ sink.sp = Splitter(req.start)
      BY DEF Init, IsSink, SinkFields
    <2> QED BY <1>2, <2>1 DEF Sunk
  <1>5. Carried
    <2> DEFINE none == Chunk("none", <<>>)
    <2>1. none.kind = "none" /\ ContentOf(none) = <<>> /\ <<>> \in Seq(Char) /\ <<>> \o <<>> = <<>>
      BY EmptyText DEF ContentOf, Chunk
    <2>2. Loaded(<<>>) /\ Contents(<<>>) = <<>>
      BY ContentsSmall
    <2> HIDE DEF none
    <2>3. Carry(<<>>, "pop", none, <<>>, <<>>, <<>>)
      BY <2>1, <2>2 DEF Carry
    <2>4. Sequential(<<>>)
      BY Literals
    <2>5. /\ \A i \in DOMAIN <<>> : ContentOf(<<>>[i]) \in Seq(Char)
          /\ <<>> \o Contents((<<none>> \o <<>>) \o <<>>) = <<>>
      BY <2>3, <2>4, CarryMeans
    <2>6. chunk = none
      BY <1>3 DEF none
    <2>7. Emitted = <<>>
      BY <1>3, <2>5, <2>6 DEF Emitted
    <2> QED BY <1>2, <1>3, <2>1, <2>5, <2>6, <2>7 DEF Carried
  <1> QED BY <1>2, <1>3, <1>4, <1>5

-----------------------------------------------------------------------------
(* What a connected client is given of an answer with a tool call in it.   *)

(* The answer of a text is a text. *)
LEMMA AnswerIsText ==
  ASSUME NEW r, r.start \in Starts, NEW t \in Seq(Char), Len(t) < NPos
  PROVE  AnswerOf(r, t) \in Seq(Char)
  <1> DEFINE body == IF r.start = "expect" THEN Drop(t, Len(OpenTag)) ELSE t
             c == Find(body, CloseTag, 0)
             after == Drop(body, c + Len(CloseTag))
             rest == Drop(after, LeadingBlanks(after))
  <1>1. CASE r.start = "answer"
    BY <1>1 DEF AnswerOf
  <1>2. CASE r.start = "expect" /\ ~IsPrefix(OpenTag, t)
    BY <1>2 DEF AnswerOf
  <1>3. CASE r.start # "answer" /\ ~(r.start = "expect" /\ ~IsPrefix(OpenTag, t))
    <2>1. AnswerOf(r, t) = IF c = NPos THEN <<>> ELSE rest
      BY <1>3 DEF AnswerOf
    <2>2. body \in Seq(Char) /\ Len(body) < NPos
      <3>1. CASE r.start = "expect"
        <4>1. OpenTag \in Seq(Char) /\ Len(OpenTag) \in Nat /\ Len(t) \in Nat
          BY Tags, LenProperties
        <4>2. Len(OpenTag) <= Len(t)
          BY <1>3, <3>1, <4>1, PrefixPointwise
        <4>3. Drop(t, Len(OpenTag)) \in Seq(Char) /\ Len(Drop(t, Len(OpenTag))) = Len(t) - Len(OpenTag)
          <5>1. Len(OpenTag) \in 0 .. Len(t)
            BY <4>1, <4>2
          <5> QED BY <5>1, TextParts
        <4>4. Len(Drop(t, Len(OpenTag))) < NPos
          BY <4>1, <4>3, NPosAssumption
        <4> QED BY <3>1, <4>3, <4>4
      <3>2. CASE r.start # "expect"
        BY <3>2
      <3> QED BY <3>1, <3>2
    <2> HIDE DEF body
    <2>3. ASSUME c # NPos PROVE rest \in Seq(Char)
      <3>1. CloseTag \in Seq(Char)
        BY Tags
      <3>2. c + Len(CloseTag) \in 0 .. Len(body)
        <4>1. Len(body) + Len(<<>>) < NPos /\ <<>> \in Seq(Char) /\ 0 \in Nat
          <5>1. Len(body) \in Nat
            BY <2>2, LenProperties
          <5> QED BY <2>2, <5>1, EmptyText, NPosAssumption
        <4> QED BY <2>2, <2>3, <3>1, <4>1, FindKept
      <3> HIDE DEF c
      <3>3. after \in Seq(Char)
        BY <2>2, <3>2, TextParts
      <3> HIDE DEF after
      <3>4. LeadingBlanks(after) \in 0 .. Len(after)
        BY <3>3, Blanks
      <3> QED BY <3>3, <3>4, TextParts
    <2> QED BY <2>1, <2>3, EmptyText
  <1> QED BY <1>1, <1>2, <1>3

(* The text the tool parser sees, and where it ends. *)
LEMMA SourceEnds ==
  ASSUME NEW r, r.start \in Starts, NEW g, LocatedIn(r, g), StopIn(g)
  PROVE  \E n \in 0 .. Len(g.acc) :
           /\ ToolParseSource(g) = Take(g.acc, n) /\ n <= g.streamable
           /\ g.loc.state = "answer" => g.loc.end <= n
  <1> DEFINE a == g.acc
             len == Len(a)
             stop == g.stopPos
             loc == g.loc
             n == IF stop < len THEN stop ELSE len
  <1>1. a \in Seq(Char) /\ len \in Nat /\ len < NPos /\ stop \in Nat /\ NPos \in Nat
    BY LenProperties, NPosAssumption DEF LocatedIn, StopIn
  <1>2. n \in 0 .. len
    BY <1>1
  <1>3. Take(a, len) = a
    <2>1. len \in 0 .. len
      BY <1>1
    <2>2. /\ Take(a, len) \in Seq(Char) /\ Len(Take(a, len)) = Len(a)
          /\ \A i \in 1 .. len : Take(a, len)[i] = a[i]
      BY <1>1, <2>1, TextParts
    <2> DEFINE t == Take(a, len)
    <2>3. t \in Seq(Char) /\ Len(t) = Len(a) /\ \A i \in 1 .. Len(t) : t[i] = a[i]
      BY <2>2
    <2> HIDE DEF t, a
    <2>4. t = a
      BY <1>1, <2>3, SameText
    <2> QED BY <2>4 DEF t
  <1>4. ToolParseSource(g) = Take(a, n)
    BY <1>3 DEF ToolParseSource
  <1>5. n <= g.streamable
    <2>1. Min({stop, len}) = IF stop <= len THEN stop ELSE len
      BY <1>1, MinMaxOfTwo
    <2>2. g.streamable \in Min({stop, len}) .. len
      BY DEF StopIn
    <2> DEFINE k == g.streamable
               m == Min({stop, len})
    <2>3. k \in m .. len /\ m = IF stop <= len THEN stop ELSE len
      BY <2>1, <2>2
    <2> HIDE DEF k, m, len, stop
    <2>4. n <= k
      BY <1>1, <2>3
    <2> QED BY <2>4 DEF k
  <1>6. ASSUME loc.state = "answer" PROVE loc.end <= n
    <2>1. loc.end \in 0 .. len
      BY <1>1, <1>6, LocKnows DEF LocatedIn
    <2>2. stop # NPos => loc.end <= stop
      BY DEF StopIn
    <2> DEFINE e == loc.end
               np == NPos
    <2>3. e \in 0 .. len /\ (stop # np => e <= stop) /\ len < np /\ np \in Nat
      BY <1>1, <2>1, <2>2
    <2> HIDE DEF e, np, len, stop
    <2>4. e <= n
      BY <1>1, <2>3
    <2> QED BY <2>4 DEF e
  <1> HIDE DEF n
  <1> QED BY <1>2, <1>4, <1>5, <1>6

\* A text y continues x; one of two continues the other.
Continues(x, y) == \E u \in Seq(Char) : Len(x) + Len(u) < NPos /\ y = x \o u
Overlap(x, y) == Continues(x, y) \/ Continues(y, x)

(* The gate's count does not pass the first opener of the answer, whether  *)
(* it has been fed a part of the answer or more; finished, it has been fed *)
(* the answer.                                                             *)
LEMMA GateStops ==
  ASSUME NEW x \in Seq(Char), NEW y \in Seq(Char), Overlap(x, y), Find(y, ToolOpen, 0) # NPos
  PROVE  /\ LetThrough(x) <= Find(y, ToolOpen, 0)
         /\ Continues(y, x) => LetOut(x) <= Find(y, ToolOpen, 0)
  <1>1. ToolOpen \in Seq(Char) /\ 0 \in Nat /\ <<>> \in Seq(Char)
    BY Tags, EmptyText
  <1>2. ASSUME NEW u \in Seq(Char), Len(x) + Len(u) < NPos, y = x \o u
        PROVE  LetThrough(x) <= Find(y, ToolOpen, 0)
    BY <1>2, GateIsSafe
  <1>3. ASSUME NEW u \in Seq(Char), Len(y) + Len(u) < NPos, x = y \o u
        PROVE  /\ LetThrough(x) <= Find(y, ToolOpen, 0)
               /\ LetOut(x) = Find(y, ToolOpen, 0) /\ Find(y, ToolOpen, 0) \in Nat
    <2> DEFINE p == Find(y, ToolOpen, 0)
    <2>1. Find(x, ToolOpen, 0) = p
      BY <1>1, <1>3, FindKept
    <2>2. Len(x) + Len(<<>>) < NPos /\ x \o <<>> = x /\ Len(x) \in Nat /\ Len(x) < NPos
      <3>1. Len(x) = Len(y) + Len(u) /\ Len(x) \in Nat
        BY <1>3, TextJoined, LenProperties
      <3> QED BY <1>3, <3>1, EmptyText, NPosAssumption
    <2>3. p # NPos /\ p \in Nat
      BY <1>1, <2>1, <2>2, Found
    <2> HIDE DEF p
    <2>4. /\ Find(x \o <<>>, ToolOpen, 0) # NPos => LetThrough(x) <= Find(x \o <<>>, ToolOpen, 0)
          /\ Find(x, ToolOpen, 0) # NPos => LetOut(x) = Find(x, ToolOpen, 0)
      BY <1>1, <2>2, GateIsSafe
    <2>5. LetThrough(x) <= p /\ LetOut(x) = p
      BY <2>1, <2>2, <2>3, <2>4
    <2> QED BY <2>3, <2>5 DEF p
  <1>4. LetThrough(x) <= Find(y, ToolOpen, 0)
    BY <1>2, <1>3 DEF Overlap, Continues
  <1>5. ASSUME NEW u \in Seq(Char), Len(y) + Len(u) < NPos, x = y \o u
        PROVE  LetOut(x) <= Find(y, ToolOpen, 0)
    <2>1. LetOut(x) = Find(y, ToolOpen, 0) /\ Find(y, ToolOpen, 0) \in Nat
      BY <1>3, <1>5
    <2> QED BY <2>1
  <1> QED BY <1>4, <1>5 DEF Continues

(* Where a search from the start finds something. *)
LEMMA FindAny ==
  ASSUME NEW s \in Seq(Char), NEW t \in Seq(Char), Find(s, t, 0) # NPos
  PROVE  Find(s, t, 0) \in 0 .. Len(s) - Len(t)
  <1> DEFINE at == {p \in 0 .. Len(s) - Len(t) : SubSeq(s, p + 1, p + Len(t)) = t}
  <1>1. Find(s, t, 0) = IF at = {} THEN NPos ELSE Min(at)
    BY DEF Find
  <1>2. at \subseteq 0 .. Len(s) - Len(t) /\ at \subseteq Nat
    <2>1. Len(s) \in Nat /\ Len(t) \in Nat
      BY LenProperties
    <2> QED BY <2>1
  <1> HIDE DEF at
  <1>3. at # {} => Min(at) \in at
    BY <1>2, MinIsLeast
  <1> QED BY <1>1, <1>2, <1>3

(* What the splitter has let through is a part of the answer that ends     *)
(* before its first opener.                                                *)
LEMMA ShownIsSafe ==
  ASSUME NEW r, r.start \in Starts, NEW g, LocatedIn(r, g), BegunIn(r, g), StopIn(g),
         ForwardedIn(r, g), GatedIn(g) \/ (FinishedIn(g) /\ FedAll(g)),
         NEW answer, answer = AnswerOf(r, ToolParseSource(g)),
         NEW p, p = Find(answer, ToolOpen, 0), p # NPos
  PROVE  IsPrefix(Shown(r.start, Take(g.acc, g.forwarded)), Take(answer, p))
  <1> DEFINE start == r.start
             a == g.acc
             b == g.begin
             m == g.forwarded
             k == g.fed
             len == Len(a)
             s == g.gate.streamed
             x == FedIn(g)
             e == Shown(start, Take(a, m))
  <1>1. /\ a \in Seq(Char) /\ len \in Nat /\ len < NPos /\ m \in 0 .. len /\ NPos \in Nat
        /\ g.loc = LocAt(start, a)
    BY LenProperties, NPosAssumption DEF LocatedIn, ForwardedIn
  <1>2. PICK n \in 0 .. len :
          /\ ToolParseSource(g) = Take(a, n) /\ n <= g.streamable
          /\ g.loc.state = "answer" => g.loc.end <= n
    BY SourceEnds
  <1>3. answer \in Seq(Char) => p \in 0 .. Len(answer) - Len(ToolOpen)
    <2>1. ToolOpen \in Seq(Char)
      BY Tags
    <2> QED BY <2>1, FindAny
  <1>4. Len(ToolOpen) \in Nat \ {0}
    BY Tags
  <1>5. CASE e = <<>>
    <2>1. Take(a, n) \in Seq(Char) /\ Len(Take(a, n)) = n
      BY <1>1, <1>2, TextParts
    <2>2. Len(Take(a, n)) < NPos
      <3> DEFINE np == NPos
      <3>1. n \in 0 .. len /\ len < np /\ len \in Nat /\ np \in Nat
        BY <1>1, <1>2
      <3> HIDE DEF np, len
      <3>2. n < np
        BY <3>1
      <3> QED BY <2>1, <3>2 DEF np
    <2>3. answer \in Seq(Char)
      BY <1>2, <2>1, <2>2, AnswerIsText
    <2>4. ToolOpen \in Seq(Char) /\ <<>> \in Seq(Char) /\ Len(<<>>) = 0 /\ Len(answer) \in Nat
      BY <2>3, Tags, EmptyText, LenProperties
    <2>5. Take(answer, p) \in Seq(Char)
      <3>1. p \in 0 .. Len(answer) - Len(ToolOpen)
        BY <1>3, <2>3
      <3>2. p \in 0 .. Len(answer)
        BY <1>4, <2>4, <3>1
      <3> QED BY <2>3, <3>2, TextParts
    <2>6. Len(Take(answer, p)) \in Nat
      BY <2>5, LenProperties
    <2>7. IsPrefix(<<>>, Take(answer, p))
      <3> DEFINE y == Take(answer, p)
                 z == <<>>
      <3>1. z \in Seq(Char) /\ Len(z) = 0 /\ y \in Seq(Char) /\ Len(y) \in Nat
        BY <2>4, <2>5, <2>6
      <3> HIDE DEF y, z
      <3>2. IsPrefix(z, y) <=> Len(z) <= Len(y) /\ \A i \in 1 .. Len(z) : z[i] = y[i]
        BY <3>1, PrefixPointwise
      <3>3. Len(z) <= Len(y) /\ 1 .. Len(z) = {}
        BY <3>1
      <3>4. IsPrefix(z, y)
        BY <3>2, <3>3
      <3> QED BY <3>4 DEF y, z
    <2> QED BY <1>5, <2>7
  <1>6. CASE e # <<>>
    <2>1. b # NPos /\ m <= b + s
      BY <1>6 DEF ForwardedIn
    <2>2. b \in Nat /\ AnswerStarts(start, a, b) /\ k \in 0 .. len - b
      BY <2>1 DEF BegunIn
    <2>3. b \in 0 .. len /\ g.loc.state = "answer" /\ g.loc.end <= n
      <3>1. g.loc.state = "answer" /\ b \in g.loc.end .. len
        BY <1>1, <2>2 DEF AnswerStarts
      <3> HIDE DEF b, len
      <3> QED BY <1>1, <1>2, <2>2, <3>1
    <2>4. e = SubSeq(a, b + 1, m)
      BY <1>1, <1>6, <2>2, ShownFrom
    <2>5. answer = SubSeq(a, b + 1, n)
      <3>1. n >= LocAt(start, a).end
        <4>1. LocAt(start, a).end \in Nat
          BY <1>1, LocKnows
        <4> QED BY <1>1, <1>2, <2>3, <4>1
      <3> HIDE DEF b
      <3>2. AnswerOf(r, Take(a, n)) = SubSeq(a, b + 1, n)
        BY <1>1, <1>2, <2>2, <3>1, ShownFrom
      <3> QED BY <1>2, <3>2
    <2> HIDE DEF e
    <2>6. /\ answer \in Seq(Char) /\ Len(answer) = (IF b <= n THEN n - b ELSE 0)
          /\ \A i \in 1 .. n - b : answer[i] = a[b + i]
          /\ e \in Seq(Char) /\ Len(e) = (IF b <= m THEN m - b ELSE 0)
          /\ \A i \in 1 .. m - b : e[i] = a[b + i]
      <3>1. a \in Seq(Char) /\ b \in 0 .. Len(a) /\ m \in 0 .. Len(a) /\ n \in 0 .. Len(a)
        BY <1>1, <1>2, <2>3
      <3> DEFINE y == SubSeq(a, b + 1, n)
                 z == SubSeq(a, b + 1, m)
      <3>2. /\ y \in Seq(Char) /\ Len(y) = (IF b <= n THEN n - b ELSE 0)
            /\ \A i \in 1 .. n - b : y[i] = a[b + i]
        <4> HIDE DEF b, m, a
        <4> QED BY <3>1, TextParts
      <3>3. /\ z \in Seq(Char) /\ Len(z) = (IF b <= m THEN m - b ELSE 0)
            /\ \A i \in 1 .. m - b : z[i] = a[b + i]
        <4> HIDE DEF b, m, a
        <4> QED BY <3>1, TextParts
      <3>4. answer = y /\ e = z
        BY <2>4, <2>5
      <3> HIDE DEF y, z, b, m, a
      <3> QED BY <3>2, <3>3, <3>4
    <2>7. b <= n /\ Len(answer) = n - b /\ p + Len(ToolOpen) <= n - b /\ p \in Nat
      <3> DEFINE l == Len(answer)
                 t == Len(ToolOpen)
                 np == NPos
      <3>1. l = (IF b <= n THEN n - b ELSE 0) /\ n \in 0 .. len /\ b \in Nat /\ len < np /\ len \in Nat
            /\ np \in Nat
        BY <1>1, <1>2, <2>2, <2>6
      <3>3. p \in 0 .. l - t /\ t \in Nat \ {0}
        BY <1>3, <1>4, <2>6
      <3> HIDE DEF l, t, np, b, len
      <3>4. b <= n /\ l = n - b /\ p + t <= n - b /\ p \in Nat
        BY <3>1, <3>3
      <3> QED BY <3>4 DEF l, t
    <2>8. x = SubSeq(a, b + 1, b + k) /\ x \in Seq(Char) /\ k \in Nat /\ b + k <= len
      <3>1. k \in Nat /\ b + k <= len /\ b + k \in Nat
        <4> HIDE DEF k, b, len
        <4> QED BY <1>1, <2>2
      <3>2. SubSeq(a, b + 1, b + k) \in Seq(Char)
        <4> HIDE DEF k, b
        <4> QED BY <1>1, <2>2, <3>1, FedParts
      <3> QED BY <3>1, <3>2 DEF FedIn
    <2>9. ASSUME b + k < n PROVE Continues(x, answer)
      <3> DEFINE u == SubSeq(a, b + k + 1, n)
      <3>1. /\ x \in Seq(Char) /\ Len(x) = k /\ u \in Seq(Char) /\ Len(u) = n - (b + k)
            /\ SubSeq(a, b + 1, n) = x \o u
        <4>1. b + k <= n /\ n <= len /\ n \in Nat /\ len \in Nat
          <5> HIDE DEF b, k, len
          <5> QED BY <1>1, <1>2, <2>2, <2>8, <2>9
        <4> DEFINE y == SubSeq(a, b + 1, b + k)
        <4>2. /\ y \in Seq(Char) /\ Len(y) = k /\ u \in Seq(Char) /\ Len(u) = n - (b + k)
              /\ SubSeq(a, b + 1, n) = y \o u
          <5>1. a \in Seq(Char) /\ b \in Nat /\ k \in Nat /\ n \in Nat /\ b + k <= n /\ n <= Len(a)
            BY <1>1, <2>2, <2>8, <4>1
          <5> HIDE DEF b, k, a
          <5> QED BY <5>1, FedParts
        <4>3. x = y
          BY <2>8
        <4> QED BY <4>2, <4>3
      <3>2. Len(x) + Len(u) < NPos
        <4> DEFINE np == NPos
        <4>1. len < np /\ np \in Nat /\ n \in 0 .. len
          BY <1>1, <1>2
        <4> DEFINE lx == Len(x)
                   lu == Len(u)
        <4>2. lx = k /\ lu = n - (b + k)
          BY <3>1
        <4> HIDE DEF np, lx, lu, k, b, len
        <4>3. lx + lu < np
          BY <1>1, <2>2, <2>8, <4>1, <4>2
        <4> QED BY <4>3 DEF np, lx, lu
      <3> HIDE DEF u, x
      <3> QED BY <2>5, <3>1, <3>2 DEF Continues
    <2>10. ASSUME n <= b + k PROVE Continues(answer, x)
      <3> DEFINE j == n - b
                 u == SubSeq(a, n + 1, b + k)
      <3>1. j \in Nat /\ b + j = n /\ b + k \in Nat /\ b + k <= len
        <4> HIDE DEF k, b, len
        <4> QED BY <1>1, <1>2, <2>2, <2>7, <2>8
      <3>2. /\ u \in Seq(Char) /\ Len(u) = (b + k) - n
            /\ SubSeq(a, b + 1, b + k) = SubSeq(a, b + 1, n) \o u
        <4>1. /\ SubSeq(a, b + j + 1, b + k) \in Seq(Char)
              /\ Len(SubSeq(a, b + j + 1, b + k)) = (b + k) - (b + j)
              /\ SubSeq(a, b + 1, b + k) = SubSeq(a, b + 1, b + j) \o SubSeq(a, b + j + 1, b + k)
          <5> DEFINE z == b + k
          <5>1. b + j <= z /\ z <= len /\ z \in Nat /\ j \in Nat /\ b \in Nat
            BY <2>2, <2>10, <3>1
          <5> HIDE DEF z, j, b
          <5>2. /\ SubSeq(a, b + j + 1, z) \in Seq(Char)
                /\ Len(SubSeq(a, b + j + 1, z)) = z - (b + j)
                /\ SubSeq(a, b + 1, z) = SubSeq(a, b + 1, b + j) \o SubSeq(a, b + j + 1, z)
            BY <1>1, <5>1, FedParts
          <5> QED BY <5>2 DEF z
        <4> HIDE DEF j
        <4> QED BY <3>1, <4>1
      <3>3. Len(answer) + Len(u) < NPos
        <4> DEFINE np == NPos
                   la == Len(answer)
                   lu == Len(u)
        <4>1. len < np /\ np \in Nat /\ n \in 0 .. len /\ la = n - b /\ lu = (b + k) - n
          BY <1>1, <1>2, <2>7, <3>2
        <4> HIDE DEF np, la, lu, k, b, len
        <4>2. la + lu < np
          BY <1>1, <2>2, <2>7, <2>8, <4>1
        <4> QED BY <4>2 DEF np, la, lu
      <3>4. x = answer \o u
        BY <2>5, <2>8, <3>2
      <3> HIDE DEF u, x
      <3> QED BY <3>2, <3>3, <3>4 DEF Continues
    <2>11. b + k < n \/ n <= b + k
      <3> HIDE DEF b, k
      <3> QED BY <1>2, <2>2, <2>8
    <2>12. Overlap(x, answer)
      BY <2>9, <2>10, <2>11 DEF Overlap
    <2>13. LetThrough(x) <= p /\ (Continues(answer, x) => LetOut(x) <= p)
      <3> HIDE DEF x
      <3> QED BY <2>6, <2>8, <2>12, GateStops
    <2>14. s <= p
      <3>1. CASE GatedIn(g)
        BY <2>13, <3>1 DEF GatedIn, LetThrough
      <3>2. CASE FinishedIn(g) /\ FedAll(g)
        <4>1. b + k >= g.streamable
          BY <2>1, <3>2 DEF FedAll
        <4>2. n <= b + k
          <5>1. g.streamable \in Nat
            <6>1. Min({g.stopPos, len}) = IF g.stopPos <= len THEN g.stopPos ELSE len
              BY <1>1, MinMaxOfTwo DEF StopIn
            <6>2. Min({g.stopPos, len}) \in Nat
              BY <1>1, <6>1 DEF StopIn
            <6>3. g.streamable \in Min({g.stopPos, len}) .. len
              BY DEF StopIn
            <6> HIDE DEF len
            <6> QED BY <1>1, <6>2, <6>3
          <5> DEFINE t == g.streamable
          <5>2. t \in Nat /\ n <= t /\ b + k >= t
            BY <1>2, <4>1, <5>1
          <5> HIDE DEF t, b, k
          <5> QED BY <1>2, <2>2, <2>8, <5>2
        <4>3. LetOut(x) <= p
          BY <2>10, <2>13, <4>2
        <4> QED BY <3>2, <4>3 DEF FinishedIn, LetOut
      <3> QED BY <3>1, <3>2
    <2>15. s \in Nat
      <3>1. GateReach(g)
        BY ReachOfGate
      <3> QED BY <3>1 DEF GateReach
    <2>16. p \in 0 .. Len(answer) /\ Len(answer) = n - b
      <3> DEFINE t == Len(ToolOpen)
                 l == Len(answer)
      <3>1. t \in Nat \ {0} /\ p + t <= n - b /\ p \in Nat /\ l = n - b
        BY <1>4, <2>7
      <3> HIDE DEF t, l, b
      <3>2. p \in 0 .. l
        BY <1>2, <2>2, <2>7, <3>1
      <3> QED BY <2>7, <3>2 DEF l
    <2>17. /\ Take(answer, p) \in Seq(Char) /\ Len(Take(answer, p)) = p
           /\ \A i \in 1 .. p : Take(answer, p)[i] = answer[i]
      BY <2>6, <2>16, TextParts
    <2>18. Len(e) <= p /\ Len(e) \in Nat /\ (Len(e) > 0 => Len(e) = m - b)
      <3> DEFINE l == Len(e)
      <3>1. l = (IF b <= m THEN m - b ELSE 0)
        BY <2>6
      <3>2. m \in Nat
        BY <1>1
      <3> HIDE DEF l, b, m, s
      <3>3. l <= p /\ l \in Nat /\ (l > 0 => l = m - b)
        BY <2>1, <2>2, <2>7, <2>14, <2>15, <3>1, <3>2
      <3> QED BY <3>3 DEF l
    <2>19. ASSUME NEW i \in 1 .. Len(e) PROVE e[i] = Take(answer, p)[i]
      <3>1. i \in 1 .. m - b /\ i \in 1 .. n - b /\ i \in 1 .. p
        <4> DEFINE l == Len(e)
                   w == Len(answer)
        <4>1. i \in 1 .. l /\ l <= p /\ l \in Nat /\ (l > 0 => l = m - b) /\ p \in 0 .. w /\ w = n - b
          BY <2>16, <2>18
        <4>2. m \in Nat
          BY <1>1
        <4> HIDE DEF l, w, b, m
        <4> QED BY <1>2, <2>2, <2>7, <4>1, <4>2
      <3> HIDE DEF b, m
      <3>2. e[i] = a[b + i] /\ answer[i] = a[b + i]
        BY <2>6, <3>1
      <3> QED BY <2>17, <3>1, <3>2
    <2>20. IsPrefix(e, Take(answer, p))
      <3> DEFINE y == Take(answer, p)
      <3>1. y \in Seq(Char) /\ Len(y) = p /\ \A i \in 1 .. Len(e) : e[i] = y[i]
        BY <2>17, <2>19
      <3> HIDE DEF y
      <3>2. IsPrefix(e, y)
        BY <2>6, <2>18, <3>1, PrefixPointwise
      <3> QED BY <3>2 DEF y
    <2> QED BY <2>20 DEF e
  <1> QED BY <1>5, <1>6

(* A step keeps the invariant of the text. *)
LEMMA NextText == IInv /\ req \in Requests /\ TextInv /\ [Next]_vars => TextInv' /\ req' = req
  <1> SUFFICES ASSUME IInv, req \in Requests, TextInv, [Next]_vars PROVE TextInv' /\ req' = req
    OBVIOUS
  <1>1. IInv'
    BY NextIInv
  <1>2. CASE UNCHANGED vars
    <2>1. UNCHANGED <<req, gen, sink, tokens, pc, out, queue, http, chunk, alive, got>>
      BY <1>2 DEF vars
    <2>2. Carried => Carried'
      BY <1>1, <2>1, CarriedMeans
    <2>3. TextInv'
      BY <2>1, <2>2, TextStays
    <2> QED BY <2>1, <2>3
  <1>3. CASE Next
    <2>1. req' = req
      BY <1>3 DEF Next, Worker, Http, OnStart, LeaveLoop, FlushTail, NoteClientGone, ParseTools,
                  OnDone, OnError, Push, CloseQueue, DecodeToken, StreamNext, WriteChunk, WriteFails,
                  CancelClose, Release, Respond, ClientLeaves
    <2>2. TextInv'
      <3>1. CASE OnStart
        BY <1>1, <3>1, StartText
      <3>2. CASE LeaveLoop \/ NoteClientGone
        BY <1>1, <3>2, SilentText
      <3>3. CASE Push
        BY <1>1, <3>3, PushText
      <3>4. CASE ParseTools \/ OnDone \/ OnError \/ CloseQueue
        BY <3>4, LastText
      <3>5. CASE FlushTail
        BY <1>1, <3>5, TailStep
      <3>6. CASE \E token \in req.vocab : DecodeToken(token)
        BY <1>1, <3>6, TokenStep
      <3>7. CASE Http \/ ClientLeaves
        BY <1>1, <3>7, HttpText
      <3> QED BY <1>3, <3>1, <3>2, <3>3, <3>4, <3>5, <3>6, <3>7 DEF Next, Worker
    <2> QED BY <2>1, <2>2
  <1> QED BY <1>2, <1>3

(* The locator, the gate and the splitter, fed piece by piece wherever the *)
(* tokens cut the text, are where one look at the whole text would put     *)
(* them, and the chunks on their way hold what the splitter let through:   *)
(* FlushGated, NoteReasoningProgress, StreamingSink::OnToken and the       *)
(* bounded queue, at every state of a tool-offering stream.                *)
THEOREM TextInvHolds == Spec => [](TextInv /\ req \in Requests)
  <1>1. Init => TextInv /\ req \in Requests
    BY InitText DEF Init
  <1>2. IInv /\ (TextInv /\ req \in Requests) /\ [Next]_vars => (TextInv /\ req \in Requests)'
    <2> SUFFICES ASSUME IInv, TextInv, req \in Requests, [Next]_vars
                 PROVE  TextInv' /\ req' \in Requests
      OBVIOUS
    <2>1. TextInv' /\ req' = req
      BY NextText
    <2> QED BY <2>1
  <1> QED BY <1>1, <1>2, InvHolds, PTL DEF Spec

(* While a tool-offering reply streams, a connected client is given a part *)
(* of the answer that ends before the first tool-call opener: the gate's   *)
(* hold keeps back what a later token may complete (tool_stream_gate.cpp,  *)
(* FlushGated in engine.cpp), whatever the tokens, tags and stop strings.  *)
THEOREM NoOpenerShownHolds == Spec => []NoOpenerShown
  <1>1. TextInv /\ req \in Requests => NoOpenerShown
    <2> DEFINE answer == AnswerOf(req, ToolParseSource(gen))
               p == Find(answer, ToolOpen, 0)
    <2> SUFFICES ASSUME TextInv, req \in Requests, alive, Live(req),
                        pc \in {"decode", "tail", "log", "parse"}, p # NPos
                 PROVE  IsPrefix(Emitted, Take(answer, p))
      BY DEF NoOpenerShown
    <2>1. RequestOK(req) /\ TextFits(req)
      BY StreamAssumption
    <2>2. req.start \in Starts
      BY <2>1 DEF RequestOK, Starts
    <2>3. Texts(req, gen, tokens) /\ Bookkept(req, gen, pc) /\ Carried
      BY DEF TextInv, Streaming
    <2>4. gen.acc \in Seq(Char) /\ Len(gen.acc) < NPos
      BY <2>1, <2>3, TextsShort DEF Texts
    <2>5. LocatedIn(req, gen) /\ BegunIn(req, gen)
      BY <2>2, <2>3, <2>4, BeginMeans DEF Bookkept
    <2>6. StopIn(gen) /\ ForwardedIn(req, gen) /\ (GatedIn(gen) \/ (FinishedIn(gen) /\ FedAll(gen)))
      BY <2>3 DEF Bookkept
    <2>7. IsPrefix(Shown(req.start, Take(gen.acc, gen.forwarded)), Take(answer, p))
      <3> HIDE DEF answer
      <3>1. answer = AnswerOf(req, ToolParseSource(gen)) /\ p = Find(answer, ToolOpen, 0)
        BY DEF answer
      <3> HIDE DEF p
      <3> QED BY <2>2, <2>5, <2>6, <3>1, ShownIsSafe
    <2>8. Emitted = Shown(req.start, Take(gen.acc, gen.forwarded))
      BY <2>3 DEF Carried
    <2> QED BY <2>7, <2>8
  <1> QED BY <1>1, TextInvHolds, PTL
=============================================================================
