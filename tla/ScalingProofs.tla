---------------------------- MODULE ScalingProofs ----------------------------
(***************************************************************************)
(* Proofs about Scaling, for every even word size, every count and every   *)
(* deck size: the draws are unbiased, few words are rejected, no value     *)
(* leaves its range, and a deck stays a permutation of itself.             *)
(*                                                                         *)
(* The arithmetic comes first: division with remainder, the wrap-around of *)
(* uint64 and int64, and how many of the accepted words have a given       *)
(* remainder.  DrawInv is the inductive invariant of the specification.    *)
(***************************************************************************)
EXTENDS Scaling, FiniteSetTheorems, FunctionTheorems, TLAPS

\* Division with remainder: the quotient and the remainder of Go's % and / on words
\* (RandRange).
LEMMA ModSplit ==
    ASSUME NEW m \in Nat \ {0}, NEW x \in Int
    PROVE  /\ x % m \in 0..(m - 1)
           /\ x \div m \in Int
           /\ x = m * (x \div m) + (x % m)
  <1>1. x % m \in 0..(m - 1)
    OBVIOUS
  <1>2. x \div m \in Int
    OBVIOUS
  <1>3. x = m * (x \div m) + (x % m)
    OBVIOUS
  <1> QED
    BY <1>1, <1>2, <1>3

\* A remainder is determined by the number: what was put in comes out (RandRange).
LEMMA ModUnique ==
    ASSUME NEW m \in Nat \ {0}, NEW q \in Int, NEW r \in 0..(m - 1)
    PROVE  (m * q + r) % m = r
  <1> DEFINE x == m * q + r
             p == x \div m
             s == x % m
  <1>1. x \in Int
    OBVIOUS
  <1>2. s \in 0..(m - 1) /\ p \in Int /\ x = m * p + s
    BY <1>1, ModSplit
  <1>3. m * (q - p) = s - r
    BY <1>2
  <1>4. q - p = 0
    <2> DEFINE d == q - p
    <2>1. d \in Int /\ m * d = s - r
      BY <1>2, <1>3
    <2>2. s - r < m /\ r - s < m
      BY <1>2
    <2>3. CASE d >= 1
      <3>1. m * d >= m
        BY <2>3, <2>1
      <3> QED BY <3>1, <2>1, <2>2, <1>2
    <2>4. CASE d <= -1
      <3>1. m * d <= -m
        BY <2>4, <2>1
      <3> QED BY <3>1, <2>1, <2>2, <1>2
    <2> QED BY <2>1, <2>3, <2>4
  <1> QED
    BY <1>2, <1>3, <1>4

\* int64 has as many negative numbers as others: the word size is twice Half.
LEMMA Halves == WordSize = 2 * Half /\ Half \in Nat \ {0}
  <1>1. WordSize = 2 * (WordSize \div 2) + (WordSize % 2)
    BY ScalingAssumption
  <1> QED
    BY <1>1, ScalingAssumption DEF Half

\* The conversion to uint64 of a number at most one wrap away (generate, RandRange).
LEMMA UnsignedIs ==
    ASSUME NEW x \in Int, -WordSize <= x, x < WordSize
    PROVE  Unsigned(x) = IF x < 0 THEN x + WordSize ELSE x
  <1>1. WordSize \in Nat \ {0}
    BY ScalingAssumption
  <1>2. CASE x < 0
    <2>1. x = WordSize * (-1) + (x + WordSize) /\ x + WordSize \in 0..(WordSize - 1)
      BY <1>1, <1>2
    <2>2. (WordSize * (-1) + (x + WordSize)) % WordSize = x + WordSize
      BY <1>1, <2>1, ModUnique
    <2> QED
      BY <1>2, <2>1, <2>2 DEF Unsigned
  <1>3. CASE x >= 0
    <2>1. x = WordSize * 0 + x /\ x \in 0..(WordSize - 1)
      BY <1>1, <1>3
    <2>2. (WordSize * 0 + x) % WordSize = x
      BY <1>1, <2>1, ModUnique
    <2> QED
      BY <1>3, <2>1, <2>2 DEF Unsigned
  <1> QED
    BY <1>2, <1>3

\* What RandRange accepts divides evenly: the words from the threshold on are a
\* positive multiple of max.
LEMMA ThresholdDivides ==
    ASSUME NEW s \in 1..(WordSize - 1)
    PROVE  /\ Threshold(s) \in 0..(s - 1)
           /\ \E q \in Nat \ {0} : WordSize = Threshold(s) + s * q
  <1>1. WordSize \in Nat \ {0}
    BY ScalingAssumption
  <1>2. Unsigned(-s) = WordSize - s
    BY <1>1, UnsignedIs
  <1>3. Threshold(s) = (WordSize - s) % s
    BY <1>2 DEF Threshold
  <1> DEFINE p == (WordSize - s) \div s
  <1>4. /\ Threshold(s) \in 0..(s - 1)
        /\ p \in Int
        /\ WordSize - s = s * p + Threshold(s)
    <2>1. s \in Nat \ {0} /\ WordSize - s \in Int
      BY <1>1
    <2> QED
      BY <1>3, <2>1, ModSplit
  <1>5. p >= 0
    <2>1. SUFFICES ASSUME p <= -1 PROVE FALSE
      BY <1>4
    <2>2. s * p <= -s
      BY <1>4, <2>1
    <2> QED
      BY <1>1, <1>4, <2>2
  <1>6. s * (p + 1) = s * p + s
    BY <1>4
  <1>7. WordSize = Threshold(s) + s * (p + 1) /\ p + 1 \in Nat \ {0}
    BY <1>1, <1>4, <1>5, <1>6
  <1> QED
    BY <1>4, <1>7

\* The threshold is below half of the words, for every max (RandRange).
LEMMA ThresholdSmall ==
    ASSUME NEW s \in 1..(WordSize - 1)
    PROVE  2 * Threshold(s) < WordSize
  <1>1. PICK q \in Nat \ {0} : WordSize = Threshold(s) + s * q
    BY ThresholdDivides
  <1>2. s * q >= s
    BY <1>1
  <1>3. Threshold(s) \in 0..(s - 1)
    BY ThresholdDivides
  <1> QED
    BY <1>1, <1>2, <1>3, ScalingAssumption

\* Each remainder is that of equally many accepted words: k |-> t + s * (k - 1) + d
\* counts them (RandRange).
LEMMA ClassSize ==
    ASSUME NEW s \in 1..(WordSize - 1), NEW r \in 0..(s - 1), NEW q \in Nat \ {0},
           WordSize = Threshold(s) + s * q
    PROVE  Cardinality({w \in Words : w >= Threshold(s) /\ w % s = r}) = q
  <1> DEFINE t == Threshold(s)
             C == {w \in Words : w >= t /\ w % s = r}
             d == IF r >= t THEN r - t ELSE r - t + s
             F == [k \in 1..q |-> t + s * (k - 1) + d]
  <1>1. /\ t \in 0..(s - 1)
        /\ s \in Nat \ {0}
        /\ r \in 0..(s - 1)
        /\ WordSize \in Nat
        /\ WordSize = t + s * q
    BY ThresholdDivides, ScalingAssumption
  <1>2. d \in 0..(s - 1)
    BY <1>1
  <1> HIDE DEF t
  <1>3. ASSUME NEW k \in 1..q PROVE F[k] \in C
    <2> DEFINE w == t + s * (k - 1) + d
    <2>1. w % s = r
      <3>1. CASE r >= t
        <4>1. w = s * (k - 1) + r
          BY <1>1, <3>1
        <4>2. s \in Nat \ {0} /\ k - 1 \in Int
          BY <1>1
        <4> QED
          BY <1>1, <4>1, <4>2, ModUnique
      <3>2. CASE r < t
        <4>1. s * (k - 1) = s * k - s
          BY <1>1
        <4>2. w = s * k + r
          BY <1>1, <3>2, <4>1
        <4>3. s \in Nat \ {0} /\ k \in Int
          BY <1>1
        <4> QED
          BY <1>1, <4>2, <4>3, ModUnique
      <3> QED
        BY <1>1, <3>1, <3>2
    <2>2. s * (k - 1) \in Nat /\ s * (k - 1) <= s * (q - 1)
      <3>1. k - 1 \in Nat /\ q - k \in Nat
        OBVIOUS
      <3>2. s * (q - 1) = s * (k - 1) + s * (q - k)
        BY <1>1
      <3>3. s * (q - k) \in Nat /\ s * (k - 1) \in Nat
        BY <1>1, <3>1
      <3> QED
        BY <3>2, <3>3
    <2>3. s * (q - 1) = s * q - s
      BY <1>1
    <2>4. w \in Words /\ w >= t
      <3> HIDE DEF d
      <3> QED
        BY <1>1, <1>2, <2>2, <2>3 DEF Words
    <2> QED
      BY <2>1, <2>4
  <1>4. F \in [1..q -> C]
    BY <1>3
  <1>5. ASSUME NEW k \in 1..q, NEW l \in 1..q, F[k] = F[l] PROVE k = l
    <2> HIDE DEF d
    <2>1. s * (k - 1) = s * (l - 1)
      BY <1>1, <1>2, <1>5
    <2>2. s * (k - l) = 0
      BY <1>1, <2>1
    <2>3. CASE k > l
      BY <1>1, <2>2, <2>3
    <2>4. CASE k < l
      BY <1>1, <2>2, <2>4
    <2> QED
      BY <2>3, <2>4
  <1>6. ASSUME NEW w \in C PROVE \E k \in 1..q : F[k] = w
    <2> DEFINE p == w \div s
    <2>1. w \in Nat /\ w >= t /\ w < WordSize /\ w % s = r
      BY <1>1 DEF Words
    <2>2. p \in Int /\ w = s * p + r
      <3>1. w \in Int /\ s \in Nat \ {0}
        BY <1>1, <2>1
      <3>2. p \in Int /\ w = s * p + (w % s)
        BY <3>1, ModSplit
      <3> QED
        BY <2>1, <3>2
    <2> HIDE DEF p
    <2>3. CASE r >= t
      <3>1. p >= 0
        <4>1. SUFFICES ASSUME p <= -1 PROVE FALSE
          BY <2>2
        <4>2. s * p <= -s
          BY <1>1, <2>2, <4>1
        <4> QED
          BY <1>1, <2>1, <2>2, <4>2
      <3>2. p < q
        <4>1. SUFFICES ASSUME p >= q PROVE FALSE
          BY <2>2
        <4>2. s * p >= s * q
          BY <1>1, <2>2, <4>1
        <4> QED
          BY <1>1, <2>1, <2>2, <2>3, <4>2
      <3>3. F[p + 1] = w /\ p + 1 \in 1..q
        BY <1>1, <2>2, <2>3, <3>1, <3>2
      <3> QED
        BY <3>3
    <2>4. CASE r < t
      <3>1. p >= 1
        <4>1. SUFFICES ASSUME p <= 0 PROVE FALSE
          BY <2>2
        <4>2. s * p <= 0
          BY <1>1, <2>2, <4>1
        <4> QED
          BY <1>1, <2>1, <2>2, <2>4, <4>2
      <3>2. p <= q
        <4>1. SUFFICES ASSUME p >= q + 1 PROVE FALSE
          BY <2>2
        <4>2. s * p >= s * (q + 1)
          BY <1>1, <2>2, <4>1
        <4>3. s * (q + 1) = s * q + s
          BY <1>1
        <4> QED
          BY <1>1, <2>1, <2>2, <4>2, <4>3
      <3>3. s * (p - 1) = s * p - s
        BY <1>1, <2>2
      <3>4. F[p] = w /\ p \in 1..q
        BY <1>1, <2>2, <2>4, <3>1, <3>2, <3>3
      <3> QED
        BY <3>4
    <2> QED
      BY <1>1, <2>3, <2>4
  <1>7. F \in Bijection(1..q, C)
    BY <1>4, <1>5, <1>6, Fun_IsBij
  <1>8. ExistsBijection(1..q, C)
    BY <1>7 DEF ExistsBijection
  <1>9. Cardinality(C) = q
    BY <1>8, FS_CountingElements
  <1> QED
    BY <1>9 DEF t

\* How many words the loop of RandRange accepts.
LEMMA AcceptedSize ==
    ASSUME NEW s \in 1..(WordSize - 1)
    PROVE  Cardinality({w \in Words : w >= Threshold(s)}) = WordSize - Threshold(s)
  <1>1. Threshold(s) \in 0..(s - 1) /\ WordSize \in Nat
    BY ThresholdDivides, ScalingAssumption
  <1>2. {w \in Words : w >= Threshold(s)} = Threshold(s)..(WordSize - 1)
    BY <1>1 DEF Words
  <1>3. /\ Threshold(s) \in Int /\ WordSize - 1 \in Int
        /\ ~(Threshold(s) > WordSize - 1)
        /\ (WordSize - 1) - Threshold(s) + 1 = WordSize - Threshold(s)
    BY <1>1
  <1>4. Cardinality(Threshold(s)..(WordSize - 1)) = (WordSize - 1) - Threshold(s) + 1
    BY <1>3, FS_Interval, Zenon
  <1> QED
    BY <1>2, <1>3, <1>4

\* An int64 survives the conversion to uint64 and back (generate).
LEMMA SignedBack == ASSUME NEW x \in Int64 PROVE Signed(Unsigned(x)) = x
  <1>1. x \in Int /\ -WordSize <= x /\ x < WordSize /\ -Half <= x /\ x < Half
    BY Halves DEF Int64
  <1>2. Unsigned(x) = IF x < 0 THEN x + WordSize ELSE x
    BY <1>1, UnsignedIs
  <1> QED
    BY <1>1, <1>2, Halves DEF Signed

\* The range of a generate request is not all of int64.
Fits == Generating => job.max - job.min < WordSize - 1

\* The inductive invariant.  It adds to the properties what a step relies on:
\* the handler is busy exactly when it has a job, the range is not empty, the
\* place to fill lies in the deck, no item is in the deck twice, a draw is made
\* only for a span above 1, and only a range that fits is drawn for or answered.
DrawInv ==
    /\ TypeOK
    /\ ValuesInRange
    /\ pc = "idle" <=> job.kind = "none"
    /\ Generating => job.min <= job.max
    /\ Shuffling => i < job.size
    /\ Shuffling => \A k, l \in DOMAIN out : out[k] = out[l] => k = l
    /\ DeckIsPermutation
    /\ pc \in {"range", "draw", "test"} => i > 0
    /\ pc \in {"draw", "test"} => Span > 1
    /\ pc \in {"draw", "test", "done"} \/ out # << >> => Fits
    /\ OnlyFullRangeFails

\* The span that generate and Shuffle pass: the size of the range, or 0 when the
\* range is all of int64, which is the one request that does not fit.
LEMMA SpanIs ==
    ASSUME DrawInv, pc \in {"range", "draw", "test"}
    PROVE  /\ Generating => Span = IF job.max - job.min = WordSize - 1
                                   THEN 0 ELSE job.max - job.min + 1
           /\ Shuffling => Span = i + 1
           /\ Generating \/ Shuffling
           /\ Span \in 0..(WordSize - 1)
           /\ Span # 0 => Fits
  <1>1. Generating \/ Shuffling
    BY DEF DrawInv, TypeOK, Generating, Shuffling
  <1>w. WordSize \in Nat \ {0, 1}
    BY ScalingAssumption
  <1>2. CASE Generating
    <2> DEFINE a == job.min
               b == job.max
    <2>1. a \in Int64 /\ b \in Int64 /\ a <= b /\ ~Shuffling
      BY <1>2 DEF DrawInv, TypeOK, Generating, Shuffling
    <2>2. Span = Unsigned(b - a + 1)
      BY <1>2 DEF Span, Generating
    <2>3. Fits <=> b - a < WordSize - 1
      BY <1>2 DEF Fits
    <2> HIDE DEF a, b
    <2>4. a \in Int /\ b \in Int /\ b - a \in 0..(WordSize - 1)
      BY <2>1, Halves DEF Int64
    <2>5. Span = IF b - a = WordSize - 1 THEN 0 ELSE b - a + 1
      <3>1. CASE b - a = WordSize - 1
        <4>1. b - a + 1 = WordSize * 1 + 0
          BY <1>w, <2>4, <3>1
        <4>2. (WordSize * 1 + 0) % WordSize = 0
          BY <1>w, ModUnique
        <4> QED
          BY <2>2, <3>1, <4>1, <4>2 DEF Unsigned
      <3>2. CASE b - a # WordSize - 1
        <4>1. b - a + 1 \in Int /\ -WordSize <= b - a + 1 /\ b - a + 1 < WordSize
          BY <1>w, <2>4, <3>2
        <4>2. Unsigned(b - a + 1) = IF b - a + 1 < 0 THEN (b - a + 1) + WordSize ELSE b - a + 1
          BY <4>1, UnsignedIs
        <4> QED
          BY <2>2, <2>4, <3>2, <4>2
      <3> QED
        BY <3>1, <3>2
    <2>6. Span \in 0..(WordSize - 1) /\ (Span # 0 => Fits)
      BY <1>w, <2>3, <2>4, <2>5
    <2> QED
      BY <1>1, <2>1, <2>5, <2>6 DEF a, b
  <1>3. CASE Shuffling
    <2>1. ~Generating /\ job.size \in DeckSizes /\ i \in Nat /\ i < job.size
      BY <1>3 DEF DrawInv, TypeOK, Generating, Shuffling
    <2>2. Span = i + 1
      BY <2>1 DEF Span, Generating
    <2>3. job.size \in 1..(WordSize - 1)
      BY <2>1, ScalingAssumption
    <2>4. Span \in 0..(WordSize - 1)
      BY <1>w, <2>1, <2>2, <2>3
    <2> QED
      BY <1>3, <2>1, <2>2, <2>4 DEF Fits
  <1> QED
    BY <1>1, <1>2, <1>3

\* min + int64(n) does not leave the range, although it may wrap on the way
\* (generate).
LEMMA ValueOfIs ==
    ASSUME DrawInv, Generating, Fits, NEW n \in 0..(job.max - job.min)
    PROVE  /\ ValueOf(n) = job.min + n
           /\ job.min + n \in Int64
           /\ job.min <= job.min + n /\ job.min + n <= job.max
  <1> DEFINE a == job.min
             b == job.max
  <1>1. a \in Int64 /\ b \in Int64 /\ a <= b
    BY DEF DrawInv, TypeOK, Generating
  <1> HIDE DEF a, b
  <1>2. n \in 0..(b - a)
    BY DEF a, b
  <1>3. a + n \in Int64 /\ a <= a + n /\ a + n <= b
    BY <1>1, <1>2, Halves DEF Int64
  <1>4. Signed(Unsigned(a + n)) = a + n
    BY <1>3, SignedBack
  <1> QED
    BY <1>3, <1>4 DEF ValueOf, a, b

\* A swap keeps a deck a permutation: it maps into the same set, no item is
\* doubled and none is lost (Shuffle).
LEMMA SwapKeeps ==
    ASSUME NEW D, NEW d \in [D -> D], NEW j \in D, NEW n \in D,
           NEW e, e = [d EXCEPT ![j] = d[n], ![n] = d[j]]
    PROVE  /\ e \in [D -> D]
           /\ (\A k, l \in DOMAIN d : d[k] = d[l] => k = l)
                 => \A k, l \in DOMAIN e : e[k] = e[l] => k = l
           /\ (\A x \in D : \E k \in DOMAIN d : d[k] = x)
                 => \A x \in D : \E k \in DOMAIN e : e[k] = x
  <1>1. DOMAIN d = D /\ DOMAIN e = D /\ j \in D /\ n \in D
    OBVIOUS
  <1>2. \A k \in D : e[k] = IF k = n THEN d[j] ELSE IF k = j THEN d[n] ELSE d[k]
    OBVIOUS
  <1>3. e \in [D -> D]
    OBVIOUS
  <1>4. (\A k, l \in D : d[k] = d[l] => k = l) => (\A k, l \in D : e[k] = e[l] => k = l)
    BY <1>1, <1>2
  <1>5. (\A x \in D : \E k \in D : d[k] = x) => (\A x \in D : \E k \in D : e[k] = x)
    <2> SUFFICES ASSUME \A y \in D : \E k \in D : d[k] = y, NEW x \in D
                 PROVE  \E k \in D : e[k] = x
      OBVIOUS
    <2>1. PICK k \in D : d[k] = x
      OBVIOUS
    <2>2. CASE k = n
      BY <1>1, <1>2, <2>1, <2>2
    <2>3. CASE k = j
      BY <1>1, <1>2, <2>1, <2>3
    <2>4. CASE k # n /\ k # j
      BY <1>1, <1>2, <2>1, <2>4
    <2> QED
      BY <2>2, <2>3, <2>4
  <1> QED
    BY <1>1, <1>3, <1>4, <1>5, Zenon

\* Appending a drawn value preserves the invariant (generate).
LEMMA UseGenerate ==
    ASSUME DrawInv, pc \in {"range", "test"}, Generating,
           NEW n \in 0..(Span - 1), Use(n), word' \in Words
    PROVE  DrawInv'
  <1>1. /\ Fits
        /\ Span = job.max - job.min + 1
        /\ ~Shuffling
        /\ job \in [kind : {"generate"}, min : Int64, max : Int64]
    <2>1. Span # 0 /\ ~Shuffling
      BY SpanIs, ScalingAssumption DEF Generating, Shuffling
    <2>2. job \in [kind : {"generate"}, min : Int64, max : Int64]
      BY DEF DrawInv, TypeOK, Generating
    <2> QED
      BY <2>1, <2>2, SpanIs
  <1>2. n \in 0..(job.max - job.min)
    <2>1. job.max \in Int /\ job.min \in Int
      BY <1>1, Halves DEF Int64
    <2> QED
      BY <1>1, <2>1
  <1>3. /\ ValueOf(n) \in Int64
        /\ ValueOf(n) >= job.min /\ ValueOf(n) <= job.max
    <2>1. job.max \in Int /\ job.min \in Int
      BY <1>1, Halves DEF Int64
    <2> QED
      BY <1>2, <1>1, <2>1, ValueOfIs
  <1>4. out \in Seq(Int64) /\ out' = Append(out, ValueOf(n)) /\ job' = job
    BY DEF DrawInv, TypeOK, Use, Generating
  <1>5. i \in Nat /\ i > 0 /\ i' = i - 1 /\ pc' = IF i = 1 THEN "done" ELSE "range"
    BY DEF DrawInv, TypeOK, Use
  <1>6. Generating' /\ ~Shuffling' /\ Fits'
    BY <1>1, <1>4 DEF Generating, Shuffling, Fits
  <1>7. TypeOK'
    <2>1. Append(out, ValueOf(n)) \in Seq(Int64)
      BY <1>3, <1>4
    <2> QED
      BY <1>1, <1>4, <1>5, <1>6, <2>1 DEF TypeOK
  <1>8. ValuesInRange'
    <2>1. \A k \in DOMAIN out : out[k] >= job.min /\ out[k] <= job.max
      BY DEF DrawInv, ValuesInRange
    <2>2. /\ DOMAIN out' = 1..(Len(out) + 1)
          /\ \A k \in DOMAIN out : out'[k] = out[k]
          /\ DOMAIN out = 1..Len(out)
          /\ out'[Len(out) + 1] = ValueOf(n)
      BY <1>3, <1>4
    <2>3. ASSUME NEW k \in DOMAIN out' PROVE out'[k] >= job.min /\ out'[k] <= job.max
      <3>1. Len(out) \in Nat
        BY <1>4
      <3>2. k \in DOMAIN out \/ k = Len(out) + 1
        BY <2>2, <3>1
      <3> QED
        BY <1>3, <2>1, <2>2, <3>2
    <2> QED
      BY <1>4, <2>3 DEF ValuesInRange
  <1>9. OnlyFullRangeFails'
    BY <1>5, <1>6 DEF OnlyFullRangeFails, Fits
  <1>10. DeckIsPermutation'
    BY <1>6 DEF DeckIsPermutation
  <1>11. (Generating => job.min <= job.max)' /\ (pc = "idle" <=> job.kind = "none")'
    BY <1>1, <1>4, <1>5 DEF DrawInv
  <1> QED
    BY <1>5, <1>6, <1>7, <1>8, <1>9, <1>10, <1>11 DEF DrawInv

\* Swapping with a drawn index preserves the invariant (Shuffle).
LEMMA UseShuffle ==
    ASSUME DrawInv, pc \in {"range", "test"}, Shuffling,
           NEW n \in 0..(Span - 1), Use(n), word' \in Words
    PROVE  DrawInv'
  <1> DEFINE m == job.size
  <1>1. /\ ~Generating
        /\ m \in DeckSizes /\ m \in Nat
        /\ job \in [kind : {"shuffle"}, size : DeckSizes]
        /\ out \in [0..(m - 1) -> 0..(m - 1)]
        /\ i \in Nat /\ i > 0 /\ i < m
    <2>1. /\ ~Generating /\ i > 0 /\ i < m
          /\ job \in [kind : {"shuffle"}, size : DeckSizes]
      BY DEF DrawInv, TypeOK, Generating, Shuffling
    <2>2. i \in Nat /\ out \in [0..(m - 1) -> 0..(m - 1)]
      BY DEF DrawInv, TypeOK
    <2>3. m \in DeckSizes
      BY <2>1
    <2>4. m \in Nat
      <3>1. m \in 1..(WordSize - 1)
        BY <2>3, ScalingAssumption
      <3> QED
        BY <3>1, ScalingAssumption
    <2> QED
      BY <2>1, <2>2, <2>3, <2>4
  <1>2. /\ job' = job /\ i' = i - 1 /\ out' = Swapped(out, n)
        /\ pc' = IF i = 1 THEN "done" ELSE "range"
    BY <1>1 DEF Use, Generating
  <1>3. i \in 0..(m - 1) /\ n \in 0..(m - 1)
    <2>1. Span = i + 1
      BY SpanIs
    <2> QED
      BY <1>1, <2>1
  <1>4. Shuffling' /\ ~Generating'
    BY <1>1, <1>2 DEF Shuffling, Generating
  <1>5. /\ \A k, l \in DOMAIN out : out[k] = out[l] => k = l
        /\ \A x \in 0..(m - 1) : \E k \in DOMAIN out : out[k] = x
    BY DEF DrawInv, DeckIsPermutation
  <1>6. /\ out' \in [0..(m - 1) -> 0..(m - 1)]
        /\ \A k, l \in DOMAIN out' : out'[k] = out'[l] => k = l
        /\ \A x \in 0..(m - 1) : \E k \in DOMAIN out' : out'[k] = x
    <2> DEFINE D == 0..(m - 1)
    <2>1. out' = [out EXCEPT ![i] = out[n], ![n] = out[i]]
      BY <1>2 DEF Swapped
    <2>2. out \in [D -> D] /\ i \in D /\ n \in D
      BY <1>1, <1>3
    <2>3. \A x \in D : \E k \in DOMAIN out : out[k] = x
      BY <1>5
    <2> HIDE DEF D
    <2>4. /\ out' \in [D -> D]
          /\ \A k, l \in DOMAIN out' : out'[k] = out'[l] => k = l
          /\ \A x \in D : \E k \in DOMAIN out' : out'[k] = x
      BY <1>5, <2>1, <2>2, <2>3, SwapKeeps
    <2> QED
      BY <2>4 DEF D
  <1>7. TypeOK'
    BY <1>1, <1>2, <1>4, <1>6 DEF TypeOK
  <1>8. DeckIsPermutation'
    BY <1>2, <1>6 DEF DeckIsPermutation
  <1>9. Fits' /\ ValuesInRange' /\ OnlyFullRangeFails'
    BY <1>2, <1>4 DEF Fits, ValuesInRange, OnlyFullRangeFails
  <1>10. (pc = "idle" <=> job.kind = "none")'
    BY <1>1, <1>2
  <1> QED
    BY <1>1, <1>2, <1>4, <1>6, <1>7, <1>8, <1>9, <1>10 DEF DrawInv

\* The invariant holds before the request.
LEMMA DrawInvInit == Init => DrawInv
  <1> SUFFICES ASSUME Init PROVE DrawInv
    OBVIOUS
  <1>1. ~Generating /\ ~Shuffling /\ pc = "idle" /\ job = [kind |-> "none"] /\ out = << >>
    BY DEF Init, Generating, Shuffling
  <1>2. TypeOK
    BY <1>1, ScalingAssumption DEF Init, TypeOK, Words
  <1> QED
    BY <1>1, <1>2
    DEF DrawInv, ValuesInRange, DeckIsPermutation, OnlyFullRangeFails, Fits

\* A valid generate request establishes the invariant (generate).
LEMMA StartGenerateStep == ASSUME DrawInv, StartGenerate PROVE DrawInv'
  <1>1. PICK min \in Int64, max \in Int64, count \in Counts :
          /\ min <= max
          /\ job' = [kind |-> "generate", min |-> min, max |-> max]
          /\ i' = count
    BY DEF StartGenerate
  <1>2. out' = << >> /\ pc' = "range" /\ word' = word
    BY DEF StartGenerate
  <1>3. Generating' /\ ~Shuffling' /\ job'.min = min /\ job'.max = max
        /\ job' \in [kind : {"generate"}, min : Int64, max : Int64]
    BY <1>1 DEF Generating, Shuffling
  <1>4. i' \in Nat /\ i' > 0
    BY <1>1, ScalingAssumption
  <1>5. out' \in Seq(Int64) /\ DOMAIN out' = {}
    BY <1>2
  <1>6. word' \in Words
    BY <1>2 DEF DrawInv, TypeOK
  <1>7. TypeOK'
    BY <1>2, <1>3, <1>4, <1>5, <1>6 DEF TypeOK
  <1>8. ValuesInRange' /\ DeckIsPermutation' /\ OnlyFullRangeFails'
    BY <1>2, <1>3, <1>5 DEF ValuesInRange, DeckIsPermutation, OnlyFullRangeFails
  <1>9. (pc = "idle" <=> job.kind = "none")' /\ (Generating => job.min <= job.max)'
    BY <1>1, <1>2, <1>3
  <1> QED
    BY <1>2, <1>3, <1>4, <1>7, <1>8, <1>9 DEF DrawInv

\* A shuffle request starts with the items in order (Shuffle).
LEMMA StartShuffleStep == ASSUME DrawInv, StartShuffle PROVE DrawInv'
  <1>1. PICK n \in DeckSizes :
          /\ job' = [kind |-> "shuffle", size |-> n]
          /\ i' = n - 1
          /\ out' = [k \in 0..(n - 1) |-> k]
          /\ pc' = IF n = 1 THEN "done" ELSE "range"
    BY DEF StartShuffle
  <1>2. n \in Nat /\ n > 0 /\ word' = word
    BY ScalingAssumption DEF StartShuffle
  <1>3. ~Generating' /\ Shuffling' /\ job'.size = n
        /\ job' \in [kind : {"shuffle"}, size : DeckSizes]
    BY <1>1 DEF Generating, Shuffling
  <1>4. word' \in Words
    BY <1>2 DEF DrawInv, TypeOK
  <1>5. i' \in Nat /\ i' < job'.size /\ (pc' = "range" => i' > 0)
    BY <1>1, <1>2, <1>3
  <1>6. /\ out' \in [0..(n - 1) -> 0..(n - 1)]
        /\ \A k, l \in DOMAIN out' : out'[k] = out'[l] => k = l
        /\ \A x \in 0..(n - 1) : \E k \in DOMAIN out' : out'[k] = x
    BY <1>1
  <1>7. TypeOK'
    BY <1>1, <1>3, <1>4, <1>5, <1>6 DEF TypeOK
  <1>8. DeckIsPermutation'
    BY <1>3, <1>6 DEF DeckIsPermutation
  <1>9. ValuesInRange' /\ OnlyFullRangeFails' /\ Fits'
    BY <1>1, <1>3 DEF ValuesInRange, OnlyFullRangeFails, Fits
  <1>10. (pc = "idle" <=> job.kind = "none")'
    BY <1>1, <1>3
  <1> QED
    BY <1>1, <1>3, <1>5, <1>6, <1>7, <1>8, <1>9, <1>10 DEF DrawInv

\* RandRange fails only for the range of every int64, before anything was drawn.
LEMMA RangeZeroStep == ASSUME DrawInv, RangeZero PROVE DrawInv'
  <1>1. /\ pc = "range" /\ Span = 0 /\ pc' = "failed"
        /\ job' = job /\ i' = i /\ word' = word /\ out' = out
    BY DEF RangeZero
  <1>2. Generating /\ job.max - job.min = WordSize - 1
    <2>1. ~Shuffling
      <3>1. SUFFICES ASSUME Shuffling PROVE FALSE
        OBVIOUS
      <3>2. Span = i + 1 /\ i \in Nat
        BY <1>1, <3>1, SpanIs DEF DrawInv, TypeOK
      <3> QED
        BY <1>1, <3>2
    <2>2. Generating
      BY <1>1, <2>1, SpanIs
    <2>3. job.min \in Int /\ job.max \in Int /\ job.min <= job.max
      <3>1. job.min \in Int64 /\ job.max \in Int64 /\ job.min <= job.max
        BY <2>2 DEF DrawInv, TypeOK, Generating
      <3> QED
        BY <3>1, Halves DEF Int64
    <2>4. Span = IF job.max - job.min = WordSize - 1 THEN 0 ELSE job.max - job.min + 1
      BY <1>1, <2>2, SpanIs
    <2> QED
      BY <1>1, <2>2, <2>3, <2>4
  <1>3. ~Fits
    <2>1. WordSize - 1 \in Int
      BY ScalingAssumption
    <2> QED
      BY <1>2, <2>1 DEF Fits
  <1>4. out = << >>
    BY <1>3 DEF DrawInv
  <1>5. TypeOK'
    BY <1>1 DEF DrawInv, TypeOK, Generating, Shuffling
  <1>6. OnlyFullRangeFails'
    BY <1>1, <1>2, <1>4 DEF OnlyFullRangeFails, Generating
  <1> QED
    BY <1>1, <1>4, <1>5, <1>6
    DEF DrawInv, ValuesInRange, DeckIsPermutation, Generating, Shuffling

\* Drawing, rejecting and drawing again touch nothing but the word (RandRange).
LEMMA WordStep ==
    ASSUME DrawInv, pc \in {"range", "draw", "test"}, Span > 1,
           pc' \in {"draw", "test"}, word' \in Words,
           job' = job, i' = i, out' = out
    PROVE  DrawInv'
  <1>1. TypeOK'
    BY DEF DrawInv, TypeOK, Generating, Shuffling
  <1>2. Fits
    <2>1. Span # 0
      OBVIOUS
    <2> QED
      BY <2>1, SpanIs
  <1>3. Span' = Span
    BY DEF Span
  <1> QED
    BY <1>1, <1>2, <1>3
    DEF DrawInv, ValuesInRange, DeckIsPermutation, OnlyFullRangeFails, Fits,
        Generating, Shuffling

\* Every step preserves the invariant: one step per action.
LEMMA DrawInvStep == ASSUME DrawInv, [Next]_vars PROVE DrawInv'
  <1>1. CASE StartGenerate
    BY <1>1, StartGenerateStep
  <1>2. CASE StartShuffle
    BY <1>2, StartShuffleStep
  <1>3. CASE RangeZero
    BY <1>3, RangeZeroStep
  <1>4. CASE RangeOne
    <2>1. pc = "range" /\ Span = 1 /\ Use(0) /\ word' \in Words
      BY <1>4 DEF RangeOne, DrawInv, TypeOK
    <2>2. 0 \in 0..(Span - 1)
      BY <2>1
    <2>3. Generating \/ Shuffling
      BY <2>1, SpanIs
    <2> QED
      BY <2>1, <2>2, <2>3, UseGenerate, UseShuffle
  <1>5. CASE RangeMore
    BY <1>5, WordStep DEF RangeMore, DrawInv, TypeOK
  <1>6. CASE Draw
    BY <1>6, WordStep DEF Draw, DrawInv
  <1>7. CASE Reject
    BY <1>7, WordStep DEF Reject, DrawInv, TypeOK
  <1>8. CASE Accept
    <2>1. pc = "test" /\ Use(word % Span) /\ word' \in Words
      BY <1>8 DEF Accept, DrawInv, TypeOK
    <2>2. word % Span \in 0..(Span - 1)
      <3>1. Span \in Nat \ {0}
        <4>1. Span \in 0..(WordSize - 1) /\ Span > 1
          BY <2>1, SpanIs DEF DrawInv
        <4> QED
          BY <4>1
      <3>2. word \in Int
        BY ScalingAssumption DEF DrawInv, TypeOK, Words
      <3> QED
        BY <3>1, <3>2, ModSplit
    <2>3. Generating \/ Shuffling
      BY <2>1, SpanIs
    <2> QED
      BY <2>1, <2>2, <2>3, UseGenerate, UseShuffle
  <1>9. CASE UNCHANGED vars
    BY <1>9 DEF vars, DrawInv, TypeOK, ValuesInRange, DeckIsPermutation,
       OnlyFullRangeFails, Fits, Generating, Shuffling, Span
  <1> QED
    BY <1>1, <1>2, <1>3, <1>4, <1>5, <1>6, <1>7, <1>8, <1>9 DEF Next, Answered

\* The inductive invariant holds of every behaviour of the handlers and RandRange.
THEOREM DrawInvariant == Spec => []DrawInv
  BY DrawInvInit, DrawInvStep, PTL DEF Spec

\* Every variable always holds a value of its kind (generate, Shuffle).
THEOREM TypeCorrect == Spec => []TypeOK
  BY DrawInvariant, PTL DEF DrawInv

\* No value that generate answers is outside min..max, of the valid requests only the one
\* for every int64 fails, and a shuffled deck holds every item once - for every word size,
\* range and size of deck (generate, RandRange, Shuffle).
THEOREM ScalingExact == Spec => []ScalingInv
  BY DrawInvariant, PTL DEF DrawInv, ScalingInv

\* RandRange draws only for a span that is a positive word.
LEMMA SpanInDraw == ASSUME DrawInv, pc \in {"draw", "test"} PROVE Span \in 1..(WordSize - 1)
  <1>1. Span \in 0..(WordSize - 1) /\ Span > 1
    BY SpanIs DEF DrawInv
  <1> QED
    BY <1>1

\* Less than half of the words are rejected, for every range (RandRange).
THEOREM RejectionIsRare == Spec => []RejectsRarely
  <1>1. DrawInv => RejectsRarely
    BY SpanInDraw, ThresholdSmall DEF RejectsRarely
  <1> QED
    BY <1>1, DrawInvariant, PTL

\* The counting argument: accepted words and outcomes are split into classes of
\* one size q, and there are Span classes (RandRange, Shuffle).
LEMMA Unbiased == DrawInv => DrawsUnbiased
  <1> SUFFICES ASSUME DrawInv, pc = "draw", NEW x \in Outcomes
               PROVE  Cardinality({w \in Accepted : Outcome(w) = x}) * Cardinality(Outcomes)
                        = Cardinality(Accepted)
    BY DEF DrawsUnbiased
  <1> DEFINE s == Span
  <1>1. s \in 1..(WordSize - 1) /\ s \in Nat \ {0} /\ (Generating \/ Shuffling)
    <2>1. Span \in 1..(WordSize - 1)
      BY SpanInDraw
    <2> QED
      BY <2>1, SpanIs
  <1>2. PICK q \in Nat \ {0} : WordSize = Threshold(s) + s * q
    BY <1>1, ThresholdDivides
  <1>3. Threshold(s) \in 0..(s - 1)
    BY <1>1, ThresholdDivides
  <1>4. Cardinality(Accepted) = q * s
    <2>1. Cardinality(Accepted) = WordSize - Threshold(s)
      BY <1>1, AcceptedSize DEF Accepted
    <2> QED
      BY <1>1, <1>2, <1>3, <2>1, ScalingAssumption
  <1>5. \A w \in Words : w % s \in 0..(s - 1)
    <2>1. \A w \in Words : w \in Int
      BY ScalingAssumption DEF Words
    <2> QED
      BY <1>1, <2>1, ModSplit
  <1>6. CASE Generating
    <2> DEFINE a == job.min
               b == job.max
    <2>1. /\ a \in Int /\ b \in Int /\ a <= b
          /\ s = b - a + 1
      <3>1. a \in Int64 /\ b \in Int64 /\ a <= b
        BY <1>6 DEF DrawInv, TypeOK, Generating
      <3>2. a \in Int /\ b \in Int
        BY <3>1, Halves DEF Int64
      <3>3. Span = IF b - a = WordSize - 1 THEN 0 ELSE b - a + 1
        BY <1>6, SpanIs
      <3> QED
        BY <1>1, <3>1, <3>2, <3>3
    <2>2. Fits
      BY DEF DrawInv
    <2>3. \A n \in 0..(b - a) : ValueOf(n) = a + n
      BY <1>6, <2>2, ValueOfIs
    <2>4. Outcomes = a..b
      BY <1>6 DEF Outcomes
    <2>5. \A w \in Accepted : Outcome(w) = ValueOf(w % s)
      BY <1>6 DEF Outcome
    <2> HIDE DEF a, b, s
    <2>6. Cardinality(Outcomes) = s
      <3>1. ~(a > b)
        BY <2>1
      <3>2. Cardinality(a..b) = b - a + 1
        BY <2>1, <3>1, FS_Interval, Zenon
      <3> QED
        BY <2>1, <2>4, <3>2
    <2>7. x - a \in 0..(s - 1) /\ x \in Int
      BY <2>1, <2>4
    <2>8. \A w \in Words : ValueOf(w % s) = x <=> w % s = x - a
      <3> TAKE w \in Words
      <3> DEFINE n == w % s
      <3>1. n \in 0..(s - 1)
        BY <1>5
      <3> HIDE DEF n
      <3>2. n \in 0..(b - a)
        BY <2>1, <3>1
      <3>3. ValueOf(n) = a + n
        BY <2>3, <3>2
      <3>4. ValueOf(n) = x <=> n = x - a
        BY <2>1, <2>7, <3>2, <3>3
      <3> QED
        BY <3>4 DEF n
    <2>9. {w \in Accepted : Outcome(w) = x}
            = {w \in Words : w >= Threshold(s) /\ w % s = x - a}
      BY <2>5, <2>8 DEF Accepted, s
    <2>10. Cardinality({w \in Words : w >= Threshold(s) /\ w % s = x - a}) = q
      BY <1>1, <1>2, <2>7, ClassSize
    <2> QED
      BY <1>4, <2>6, <2>9, <2>10
  <1>7. CASE Shuffling
    <2> DEFINE D == 0..(job.size - 1)
    <2>1. /\ ~Generating
          /\ job.size \in Nat
          /\ i \in Nat /\ i < job.size
          /\ out \in [D -> D]
          /\ s = i + 1
      <3>1. ~Generating /\ i < job.size /\ job.size \in DeckSizes
        BY <1>7 DEF DrawInv, TypeOK, Generating, Shuffling
      <3>2. job.size \in 1..(WordSize - 1)
        BY <3>1, ScalingAssumption
      <3>3. job.size \in Nat
        BY <3>2, ScalingAssumption
      <3>4. i \in Nat /\ out \in [D -> D]
        BY <1>7 DEF DrawInv, TypeOK
      <3>5. s = i + 1
        BY <1>7, SpanIs
      <3> QED
        BY <3>1, <3>3, <3>4, <3>5
    <2>2. /\ \A k, l \in D : out[k] = out[l] => k = l
          /\ \A y \in D : \E k \in D : out[k] = y
      <3>1. DOMAIN out = D
        BY <2>1
      <3> QED
        BY <1>7, <3>1 DEF DrawInv, DeckIsPermutation
    <2>3. Outcomes = D \ {out[k] : k \in (i + 1)..(job.size - 1)}
      BY <2>1 DEF Outcomes
    <2>4. i \in D /\ 0..i \subseteq D
          /\ (\A k \in D : k \notin 0..i <=> k \in (i + 1)..(job.size - 1))
          /\ (i + 1)..(job.size - 1) \subseteq D
      BY <2>1
    <2>5. \A w \in Accepted : Outcome(w) = Swapped(out, w % s)[i]
      BY <2>1 DEF Outcome
    <2>6. 0..(s - 1) = 0..i
      BY <2>1
    <2> HIDE DEF D, s
    <2>7. \A n \in 0..i : Swapped(out, n)[i] = out[n]
      <3> TAKE n \in 0..i
      <3>1. n \in D /\ i \in D
        BY <2>4
      <3> QED
        BY <2>1, <3>1 DEF Swapped
    <2>8. \A k \in 0..i : out[k] \in Outcomes
      <3> SUFFICES ASSUME NEW k \in 0..i, NEW l \in (i + 1)..(job.size - 1), out[k] = out[l]
                   PROVE  FALSE
        BY <2>1, <2>3, <2>4
      <3> QED
        BY <2>1, <2>2, <2>4
    <2>9. \A y \in Outcomes : \E k \in 0..i : out[k] = y
      BY <2>2, <2>3, <2>4
    <2>10. Cardinality(Outcomes) = s
      <3> DEFINE G == [k \in 0..i |-> out[k]]
      <3>1. G \in [0..i -> Outcomes]
        BY <2>8
      <3>2. \A k, l \in 0..i : G[k] = G[l] => k = l
        BY <2>2, <2>4
      <3>3. \A y \in Outcomes : \E k \in 0..i : G[k] = y
        BY <2>9
      <3> HIDE DEF G
      <3>4. G \in Bijection(0..i, Outcomes)
        BY <3>1, <3>2, <3>3, Fun_IsBij
      <3>5. IsFiniteSet(0..i) /\ Cardinality(0..i) = i + 1
        <4>1. 0 \in Int /\ i \in Int /\ ~(0 > i) /\ i - 0 + 1 = i + 1
          BY <2>1
        <4>2. IsFiniteSet(0..i) /\ Cardinality(0..i) = i - 0 + 1
          BY <4>1, FS_Interval, Zenon
        <4> QED
          BY <4>1, <4>2
      <3>6. Cardinality(Outcomes) = Cardinality(0..i)
        BY <3>4, <3>5, FS_Bijection DEF ExistsBijection
      <3> QED
        BY <2>1, <3>5, <3>6
    <2>11. PICK r \in 0..i : out[r] = x
      BY <2>9
    <2>12. \A n \in 0..i : out[n] = x <=> n = r
      BY <2>2, <2>4, <2>11
    <2>13. {w \in Accepted : Outcome(w) = x}
             = {w \in Words : w >= Threshold(s) /\ w % s = r}
      <3>1. \A w \in Words : Swapped(out, w % s)[i] = x <=> w % s = r
        BY <1>5, <2>6, <2>7, <2>12
      <3> QED
        BY <2>5, <3>1 DEF Accepted, s
    <2>14. Cardinality({w \in Words : w >= Threshold(s) /\ w % s = r}) = q
      <3>1. r \in 0..(s - 1)
        BY <2>6, <2>11
      <3> QED
        BY <1>1, <1>2, <3>1, ClassSize
    <2> QED
      BY <1>4, <2>10, <2>13, <2>14
  <1> QED
    BY <1>1, <1>6, <1>7

\* Every draw of every generate and shuffle request is unbiased, for every word
\* size, range and deck (RandRange, Shuffle).
THEOREM AllDrawsUnbiased == Spec => []DrawsUnbiased
  BY Unbiased, DrawInvariant, PTL

\* An item that Shuffle has placed is never moved again, for every size of deck.
THEOREM PlacedItemsStay == Spec => PlacedStay
  <1> DEFINE Stays == Shuffling => \A k \in DOMAIN out : k > i => out'[k] = out[k]
  <1>1. ASSUME DrawInv, [Next]_vars PROVE Stays
    <2> SUFFICES ASSUME Shuffling, NEW k \in DOMAIN out, k > i PROVE out'[k] = out[k]
      OBVIOUS
    <2>1. pc # "idle" /\ ~Generating
      BY <1>1 DEF DrawInv, Shuffling, Generating
    <2>2. i \in Nat /\ out \in [0..(job.size - 1) -> 0..(job.size - 1)]
      BY <1>1 DEF DrawInv, TypeOK
    <2>3. ASSUME NEW n \in 0..(Span - 1), Use(n), pc \in {"range", "test"}
          PROVE  out'[k] = out[k]
      <3>1. Span = i + 1
        BY <1>1, <2>3, SpanIs
      <3>2. n \in 0..i
        BY <2>2, <2>3, <3>1
      <3>3. out' = [out EXCEPT ![i] = out[n], ![n] = out[i]]
        BY <2>1, <2>3 DEF Use, Swapped, Generating
      <3>4. k # i /\ k # n
        BY <2>2, <3>2
      <3> QED
        BY <2>2, <3>3, <3>4
    <2>4. CASE RangeOne
      <3>1. 0 \in 0..(Span - 1) /\ Use(0) /\ pc = "range"
        BY <2>4 DEF RangeOne
      <3> QED
        BY <2>3, <3>1
    <2>5. CASE Accept
      <3>1. pc = "test" /\ Use(word % Span)
        BY <2>5 DEF Accept
      <3>2. Span \in Nat \ {0} /\ word \in Int
        <4>1. Span \in 0..(WordSize - 1) /\ Span > 1
          BY <1>1, <3>1, SpanIs DEF DrawInv
        <4>2. word \in Int
          BY <1>1, ScalingAssumption DEF DrawInv, TypeOK, Words
        <4> QED
          BY <4>1, <4>2
      <3>3. word % Span \in 0..(Span - 1)
        BY <3>2, ModSplit
      <3> QED
        BY <2>3, <3>1, <3>3
    <2>6. CASE RangeZero \/ RangeMore \/ Draw \/ Reject \/ Answered \/ UNCHANGED vars
      BY <2>6 DEF RangeZero, RangeMore, Draw, Reject, Answered, vars
    <2>7. CASE StartGenerate \/ StartShuffle
      BY <2>1, <2>7 DEF StartGenerate, StartShuffle
    <2> QED
      BY <1>1, <2>4, <2>5, <2>6, <2>7 DEF Next
  <1>2. ASSUME DrawInv, [Next]_vars PROVE [Stays]_vars
    BY <1>1, <1>2
  <1> QED
    BY <1>2, DrawInvariant, PTL DEF Spec, PlacedStay
=============================================================================
