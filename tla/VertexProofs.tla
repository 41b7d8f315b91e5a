----------------------------- MODULE VertexProofs -----------------------------
(***************************************************************************)
(* Theorems about two parts of the legacy service that share nothing:      *)
(* Vertex, for every even word size, every set of numerals and every number*)
(* of requests, and Throttle, for every throttle option and every sequence *)
(* of writes.                                                              *)
(***************************************************************************)
EXTENDS Vertex, Throttle, FunctionTheorems, FiniteSetTheorems, SequenceTheorems, WellFoundedInduction, TLAPS

-----------------------------------------------------------------------------
(* Words.                                                                  *)

\* Division with remainder.
LEMMA ModSplit ==
    ASSUME NEW m \in Nat \ {0}, NEW x \in Int
    PROVE  /\ x % m \in 0..(m - 1)
           /\ x \div m \in Int
           /\ x = m * (x \div m) + (x % m)
  OBVIOUS

\* A number has one remainder.
LEMMA ModUnique ==
    ASSUME NEW m \in Nat \ {0}, NEW q \in Int, NEW r \in 0..(m - 1)
    PROVE  (m * q + r) % m = r
  <1> DEFINE p == (m * q + r) \div m
             s == (m * q + r) % m
             d == q - p
  <1>1. m * q + r \in Int
    OBVIOUS
  <1>2. s \in 0..(m - 1) /\ p \in Int /\ m * q + r = m * p + s
    BY <1>1, ModSplit
  <1>3. d \in Int /\ m * d = s - r
    BY <1>2
  <1> HIDE DEF d
  <1>4. CASE d >= 1
    <2>1. m * d >= m
      BY <1>3, <1>4
    <2> QED
      BY <1>2, <1>3, <2>1
  <1>5. CASE d <= -1
    <2>1. m * d <= -m
      BY <1>3, <1>5
    <2> QED
      BY <1>2, <1>3, <2>1
  <1>6. CASE d = 0
    BY <1>2, <1>3, <1>6
  <1> QED
    BY <1>3, <1>4, <1>5, <1>6

\* The word size is even.
LEMMA Halves ==
    /\ WordSize = 2 * Half /\ Half \in Nat \ {0}
    /\ WordSize \in Nat \ {0} /\ WordSize >= 2
  <1>1. WordSize \in Nat \ {0} /\ WordSize % 2 = 0
    BY VertexAssumption
  <1>2. WordSize = 2 * (WordSize \div 2) + (WordSize % 2)
    BY <1>1
  <1> QED
    BY <1>1, <1>2 DEF Half

\* The conversion to uint32_t of a number at most one wrap away.
LEMMA UnsignedIs ==
    ASSUME NEW x \in Int, -WordSize <= x, x <= WordSize
    PROVE  /\ Unsigned(x) = IF x < 0 THEN x + WordSize
                            ELSE IF x = WordSize THEN 0 ELSE x
           /\ Unsigned(x) \in Words
  <1>1. WordSize \in Nat \ {0}
    BY Halves
  <1>2. CASE x < 0
    <2>1. x = WordSize * (-1) + (x + WordSize) /\ x + WordSize \in 0..(WordSize - 1)
      BY <1>1, <1>2
    <2>2. (WordSize * (-1) + (x + WordSize)) % WordSize = x + WordSize
      BY <1>1, <2>1, ModUnique
    <2> QED
      BY <1>2, <2>1, <2>2 DEF Unsigned, Words
  <1>3. CASE 0 <= x /\ x < WordSize
    <2>1. x = WordSize * 0 + x /\ x \in 0..(WordSize - 1)
      BY <1>1, <1>3
    <2>2. (WordSize * 0 + x) % WordSize = x
      BY <1>1, <2>1, ModUnique
    <2> QED
      BY <1>3, <2>1, <2>2 DEF Unsigned, Words
  <1>4. CASE x = WordSize
    <2>1. x = WordSize * 1 + 0 /\ 0 \in 0..(WordSize - 1)
      BY <1>1, <1>4
    <2>2. (WordSize * 1 + 0) % WordSize = 0
      BY <1>1, <2>1, ModUnique
    <2> QED
      BY <1>1, <1>4, <2>1, <2>2 DEF Unsigned, Words
  <1> QED
    BY <1>1, <1>2, <1>3, <1>4

\* A word read as an int32_t, and back: nothing is lost.
LEMMA SignedIs ==
    ASSUME NEW u \in Words
    PROVE  /\ Signed(u) \in Int32
           /\ Unsigned(Signed(u)) = u
           /\ \A v \in Words : Signed(v) = Signed(u) => v = u
  <1>1. u \in Int /\ 0 <= u /\ u < WordSize /\ WordSize = 2 * Half /\ Half \in Nat
    BY Halves DEF Words
  <1>2. /\ Signed(u) \in Int /\ -Half <= Signed(u) /\ Signed(u) < Half
        /\ Signed(u) = IF u < Half THEN u ELSE u - WordSize
    BY <1>1 DEF Signed
  <1>3. Unsigned(Signed(u)) = u
    BY <1>1, <1>2, UnsignedIs
  <1>4. ASSUME NEW v \in Words, Signed(v) = Signed(u) PROVE v = u
    BY <1>1, <1>4 DEF Signed, Words
  <1> QED
    BY <1>1, <1>2, <1>3, <1>4 DEF Int32

-----------------------------------------------------------------------------
(* What a word becomes.                                                    *)

ParamTypes == par \in [{"min", "max", "rep", "num"} -> Words]

\* The parameters are words.
LEMMA ParamsAreWords ==
    ASSUME ParamTypes
    PROVE  /\ par.min \in Int /\ 0 <= par.min /\ par.min < WordSize
           /\ par.max \in Int /\ 0 <= par.max /\ par.max < WordSize
           /\ par.num \in Words /\ par.min \in Words /\ par.max \in Words
  <1>1. par.num \in Words /\ par.min \in Words /\ par.max \in Words
    BY DEF ParamTypes
  <1> QED
    BY <1>1, Halves DEF Words

\* The size of the range, which is 0 when it is all of uint32_t.
LEMMA RangeIs ==
    ASSUME ParamTypes, par.min <= par.max
    PROVE  /\ range = IF par.max - par.min + 1 = WordSize THEN 0
                      ELSE par.max - par.min + 1
           /\ range \in 0..(WordSize - 1)
  <1> DEFINE x == 1 + par.max - par.min
  <1>1. x \in Int /\ -WordSize <= x /\ x <= WordSize /\ x > 0
        /\ x = par.max - par.min + 1
    BY ParamsAreWords, Halves
  <1>2. range = Unsigned(x)
    BY DEF range
  <1> HIDE DEF x
  <1>3. range = IF x = WordSize THEN 0 ELSE x
    BY <1>1, <1>2, UnsignedIs
  <1> QED
    BY <1>1, <1>3, Halves

\* How often the range fits into the words, and what is left over.
LEMMA Rounds ==
    ASSUME NEW r \in 1..(WordSize - 1)
    PROVE  /\ WordSize \div r \in Nat \ {0}
           /\ (WordSize \div r) * r \in 1..WordSize
           /\ WordSize % r \in 0..(r - 1)
           /\ WordSize = (WordSize \div r) * r + (WordSize % r)
  <1> DEFINE q == WordSize \div r
             m == WordSize % r
  <1>1. r \in Nat \ {0} /\ WordSize \in Int /\ r < WordSize
    BY Halves
  <1>2. q \in Int /\ m \in 0..(r - 1) /\ WordSize = r * q + m
    BY <1>1, ModSplit
  <1> HIDE DEF q, m
  <1>3. q >= 1
    <2>1. SUFFICES ASSUME q <= 0 PROVE FALSE
      BY <1>2
    <2>2. r * q <= 0
      BY <1>1, <1>2, <2>1
    <2> QED
      BY <1>1, <1>2, <2>2
  <1>4. r * q >= r /\ r * q = q * r
    BY <1>1, <1>2, <1>3
  <1> QED
    BY <1>1, <1>2, <1>3, <1>4 DEF q, m

\* scale rejects the words above the last full round, unless there are none.
LEMMA ScaleIs ==
    ASSUME range \in 0..(WordSize - 1), NEW w \in Words
    PROVE  IF range = 0 THEN scale(w) = -2
           ELSE IF w >= (WordSize \div range) * range
           THEN scale(w) = -1 /\ WordSize % range # 0
           ELSE scale(w) = w % range /\ w % range \in 0..(range - 1)
  <1>1. w \in Int /\ 0 <= w /\ w < WordSize
    BY Halves DEF Words
  <1>2. CASE range = 0
    BY <1>2 DEF scale
  <1>3. CASE range # 0
    <2> DEFINE top == (WordSize \div range) * range
               m == WordSize % range
    <2>1. range \in 1..(WordSize - 1) /\ range \in Nat \ {0} /\ WordSize \in Nat
      BY <1>3, Halves
    <2>2. top \in 1..WordSize /\ m \in 0..(range - 1) /\ WordSize = top + m
      BY <2>1, Rounds
    <2>3. w % range \in 0..(range - 1)
      BY <1>1, <2>1, ModSplit
    <2>4. scale(w) = IF Unsigned(top) # 0 /\ Unsigned(top) <= w THEN -1 ELSE w % range
      BY <2>1 DEF scale
    <2> HIDE DEF top, m
    <2>5. Unsigned(top) = IF top = WordSize THEN 0 ELSE top
      BY <2>1, <2>2, UnsignedIs
    <2>6. CASE w >= top
      <3>1. top # WordSize /\ m # 0
        BY <1>1, <2>1, <2>2, <2>6
      <3>2. scale(w) = -1
        BY <1>1, <2>2, <2>4, <2>5, <2>6, <3>1
      <3> QED
        BY <1>3, <2>6, <3>1, <3>2 DEF top, m
    <2>7. CASE w < top
      <3>1. scale(w) = w % range
        BY <1>1, <2>2, <2>4, <2>5, <2>7
      <3> QED
        BY <1>1, <1>3, <2>2, <2>3, <2>7, <3>1 DEF top
    <2> QED
      BY <1>1, <2>2, <2>6, <2>7
  <1> QED
    BY <1>2, <1>3

\* What a number of the list may be.
Possible(v) ==
    \/ v \in Wanted
    \/ v = Signed(Unsigned(par.min - 1)) /\ range # 0 /\ WordSize % range # 0
    \/ v = Signed(Unsigned(par.min - 2)) /\ range = 0

\* The number a word becomes: below the top of the last round one between min and
\* max, above it the one that stands for INVALID_RESULT.
LEMMA ResultIs ==
    ASSUME ParamTypes, par.min <= par.max, range # 0, NEW w \in Words
    PROVE  /\ w < (WordSize \div range) * range =>
                  /\ w % range \in 0..(range - 1)
                  /\ Result(w) = Signed(par.min + (w % range))
                  /\ par.min + (w % range) \in par.min..par.max
           /\ w >= (WordSize \div range) * range =>
                  /\ Result(w) = Signed(Unsigned(par.min - 1))
                  /\ WordSize % range # 0
                  /\ Unsigned(par.min - 1) \in Words \ (par.min..par.max)
  <1>1. /\ range \in 0..(WordSize - 1) /\ range = par.max - par.min + 1
        /\ par.max - par.min + 1 # WordSize
    BY RangeIs
  <1>2. /\ par.min \in Int /\ 0 <= par.min /\ par.min < WordSize
        /\ par.max \in Int /\ 0 <= par.max /\ par.max < WordSize
        /\ WordSize \in Nat
    BY ParamsAreWords, Halves
  <1>3. ASSUME w < (WordSize \div range) * range
        PROVE  /\ w % range \in 0..(range - 1)
               /\ Result(w) = Signed(par.min + (w % range))
               /\ par.min + (w % range) \in par.min..par.max
    <2> DEFINE k == w % range
    <2>0. ~(w >= (WordSize \div range) * range)
      <3>1. (WordSize \div range) * range \in Int /\ w \in Int
        BY <1>1, Rounds DEF Words
      <3> QED
        BY <1>3, <3>1
    <2>1. scale(w) = k /\ k \in 0..(range - 1)
      BY <1>1, <2>0, ScaleIs
    <2>5. w % range = k
      OBVIOUS
    <2> HIDE DEF k
    <2>2. par.min + k \in par.min..par.max /\ k + par.min = par.min + k
      BY <1>1, <1>2, <2>1
    <2>3. Unsigned(k + par.min) = par.min + k
      <3>1. par.min + k \in Int /\ 0 <= par.min + k /\ par.min + k < WordSize
        BY <1>2, <2>2
      <3>2. Unsigned(par.min + k) = par.min + k
        BY <1>2, <3>1, UnsignedIs
      <3> QED
        BY <2>2, <3>2
    <2>4. Result(w) = Signed(par.min + k)
      BY <2>1, <2>3 DEF Result
    <2> QED
      BY <2>1, <2>2, <2>4, <2>5, Zenon
  <1>4. ASSUME w >= (WordSize \div range) * range
        PROVE  /\ Result(w) = Signed(Unsigned(par.min - 1))
               /\ WordSize % range # 0
               /\ Unsigned(par.min - 1) \in Words \ (par.min..par.max)
    <2>1. scale(w) = -1 /\ WordSize % range # 0
      BY <1>1, <1>4, ScaleIs
    <2>2. -1 + par.min = par.min - 1
      BY <1>2
    <2>3. Result(w) = Signed(Unsigned(par.min - 1))
      BY <2>1, <2>2 DEF Result
    <2>4. /\ Unsigned(par.min - 1) = IF par.min - 1 < 0 THEN par.min - 1 + WordSize
                                     ELSE par.min - 1
          /\ Unsigned(par.min - 1) \in Words
      BY <1>2, UnsignedIs
    <2>5. Unsigned(par.min - 1) \notin par.min..par.max
      BY <1>1, <1>2, <2>4
    <2> QED
      BY <2>1, <2>3, <2>4, <2>5
  <1> QED
    BY <1>3, <1>4

\* A word becomes an int32_t of the kinds OutsideExact lists.
LEMMA ResultPossible ==
    ASSUME ParamTypes, par.min <= par.max, NEW w \in Words
    PROVE  Result(w) \in Int32 /\ Possible(Result(w))
  <1>1. par.min..par.max \subseteq Words /\ par.min \in Int /\ 0 <= par.min /\ par.min < WordSize
    BY ParamsAreWords, Halves DEF Words
  <1>2. CASE range = 0
    <2>1. scale(w) = -2
      BY <1>2, ScaleIs, RangeIs
    <2>2. -2 + par.min = par.min - 2
      BY <1>1
    <2>3. Result(w) = Signed(Unsigned(par.min - 2))
      BY <2>1, <2>2 DEF Result
    <2>4. Unsigned(par.min - 2) \in Words
      <3>1. par.min - 2 \in Int /\ -WordSize <= par.min - 2 /\ par.min - 2 <= WordSize
        BY <1>1, Halves
      <3> QED
        BY <3>1, UnsignedIs
    <2> QED
      BY <1>2, <2>3, <2>4, SignedIs DEF Possible
  <1>3. CASE range # 0
    <2>0. (WordSize \div range) * range \in Int /\ w \in Int
      BY <1>3, RangeIs, Rounds DEF Words
    <2>1. CASE w < (WordSize \div range) * range
      <3>1. /\ Result(w) = Signed(par.min + (w % range))
            /\ par.min + (w % range) \in par.min..par.max
        BY <1>3, <2>1, ResultIs
      <3> QED
        BY <1>1, <3>1, SignedIs DEF Possible, Wanted
    <2>2. CASE w >= (WordSize \div range) * range
      <3>1. /\ Result(w) = Signed(Unsigned(par.min - 1))
            /\ WordSize % range # 0
            /\ Unsigned(par.min - 1) \in Words
        BY <1>3, <2>2, ResultIs
      <3> QED
        BY <1>3, <3>1, SignedIs DEF Possible
    <2> QED
      BY <2>0, <2>1, <2>2
  <1> QED
    BY <1>2, <1>3

-----------------------------------------------------------------------------
(* How many words become a number.                                         *)

\* Below q rounds of r words, q words have the remainder k.
LEMMA ClassSize ==
    ASSUME NEW r \in Nat \ {0}, NEW q \in Nat \ {0}, NEW k \in 0..(r - 1)
    PROVE  Cardinality({w \in 0..(q * r - 1) : w % r = k}) = q
  <1> DEFINE C == {w \in 0..(q * r - 1) : w % r = k}
             F == [i \in 1..q |-> r * (i - 1) + k]
  <1>1. ASSUME NEW i \in 1..q PROVE F[i] \in C
    <2>1. i - 1 \in Nat /\ q - i \in Nat
      OBVIOUS
    <2>2. (r * (i - 1) + k) % r = k
      BY <2>1, ModUnique
    <2>3. r * (i - 1) \in Nat /\ r * (q - i) \in Nat
      BY <2>1
    <2>4. q * r = r * (i - 1) + r + r * (q - i)
      OBVIOUS
    <2>5. r * (i - 1) + k \in 0..(q * r - 1)
      BY <2>3, <2>4
    <2> QED
      BY <2>2, <2>5
  <1>2. F \in [1..q -> C]
    BY <1>1
  <1>3. ASSUME NEW i \in 1..q, NEW j \in 1..q, F[i] = F[j] PROVE i = j
    <2>1. r * (i - 1) = r * (j - 1)
      <3>1. r * (i - 1) \in Int /\ r * (j - 1) \in Int
        OBVIOUS
      <3> QED
        BY <1>3, <3>1
    <2>2. r * (i - j) = 0
      BY <2>1
    <2>3. CASE i > j
      BY <2>2, <2>3
    <2>4. CASE i < j
      BY <2>2, <2>4
    <2> QED
      BY <2>3, <2>4
  <1>4. ASSUME NEW w \in C PROVE \E i \in 1..q : F[i] = w
    <2> DEFINE p == w \div r
    <2>1. w \in Int /\ 0 <= w /\ w < q * r /\ w % r = k
      OBVIOUS
    <2>2. p \in Int /\ w = r * p + k
      BY <2>1, ModSplit
    <2> HIDE DEF p
    <2>3. p >= 0
      <3>1. SUFFICES ASSUME p <= -1 PROVE FALSE
        BY <2>2
      <3>2. r * p <= -r
        BY <2>2, <3>1
      <3> QED
        BY <2>1, <2>2, <3>2
    <2>4. p < q
      <3>1. SUFFICES ASSUME p >= q PROVE FALSE
        BY <2>2
      <3>2. r * p >= q * r
        BY <2>2, <3>1
      <3> QED
        BY <2>1, <2>2, <3>2
    <2>5. p + 1 \in 1..q /\ F[p + 1] = w
      BY <2>2, <2>3, <2>4
    <2> QED
      BY <2>5
  <1>5. F \in Bijection(1..q, C)
    BY <1>2, <1>3, <1>4, Fun_IsBij
  <1>6. ExistsBijection(1..q, C)
    BY <1>5 DEF ExistsBijection
  <1> QED
    BY <1>6, FS_CountingElements

\* Every number of the range has one word in each round, and no rejected word
\* becomes one of them.
LEMMA EquallyLikely ==
    ASSUME ParamTypes, par.min <= par.max, range # 0, NEW v \in Wanted
    PROVE  Cardinality({w \in Words : Result(w) = v}) = WordSize \div range
  <1> DEFINE q == WordSize \div range
  <1>1. PICK u \in par.min..par.max : v = Signed(u)
    BY DEF Wanted
  <1>2. /\ par.min \in Int /\ 0 <= par.min /\ par.max \in Int /\ par.max < WordSize
        /\ WordSize \in Nat
    BY ParamsAreWords, Halves
  <1>3. /\ range \in 1..(WordSize - 1) /\ range \in Nat \ {0}
        /\ range = par.max - par.min + 1
    BY RangeIs, Halves
  <1>4. q \in Nat \ {0} /\ q * range \in 1..WordSize
    BY <1>3, Rounds
  <1>5. u \in Words /\ u - par.min \in 0..(range - 1)
    BY <1>2, <1>3 DEF Words
  <1>6. ASSUME NEW w \in Words
        PROVE  Result(w) = v <=> w < q * range /\ w % range = u - par.min
    <2>1. w \in Int /\ q * range \in Int
      BY <1>4, Halves DEF Words
    <2>2. CASE w < q * range
      <3> DEFINE k == w % range
      <3>1. /\ k \in 0..(range - 1) /\ Result(w) = Signed(par.min + k)
            /\ par.min + k \in par.min..par.max
        BY <2>2, ResultIs
      <3>2. par.min + k \in Words
        BY <1>2, <3>1 DEF Words
      <3>3. Result(w) = v <=> par.min + k = u
        BY <1>1, <1>5, <3>1, <3>2, SignedIs
      <3> HIDE DEF k
      <3>4. par.min + k = u <=> k = u - par.min
        BY <1>2, <3>1
      <3> QED
        BY <2>2, <3>3, <3>4 DEF k
    <2>3. CASE w >= q * range
      <3>1. /\ Result(w) = Signed(Unsigned(par.min - 1))
            /\ Unsigned(par.min - 1) \in Words \ (par.min..par.max)
        BY <2>3, ResultIs
      <3>2. Result(w) # v
        BY <1>1, <1>5, <3>1, SignedIs
      <3> QED
        BY <2>1, <2>3, <3>2
    <2> QED
      BY <2>1, <2>2, <2>3
  <1>7. {w \in Words : Result(w) = v} = {w \in 0..(q * range - 1) : w % range = u - par.min}
    <2>1. \A w : w \in 0..(q * range - 1) <=> w \in Words /\ w < q * range
      BY <1>2, <1>4 DEF Words
    <2> QED
      BY <1>6, <2>1
  <1>8. Cardinality({w \in 0..(q * range - 1) : w % range = u - par.min}) = q
    BY <1>3, <1>4, <1>5, ClassSize
  <1> QED
    BY <1>7, <1>8

\* A list without repetitions has as many numbers as places.
LEMMA DistinctSize ==
    ASSUME NEW S, NEW l \in Seq(S),
           \A i, j \in 1..Len(l) : l[i] = l[j] => i = j
    PROVE  Cardinality({l[k] : k \in DOMAIN l}) = Len(l)
  <1> DEFINE R == {l[k] : k \in DOMAIN l}
  <1>1. DOMAIN l = 1..Len(l) /\ Len(l) \in Nat
    OBVIOUS
  <1>2. l \in [1..Len(l) -> R]
    BY <1>1
  <1>3. \A v \in R : \E i \in 1..Len(l) : l[i] = v
    BY <1>1
  <1>4. l \in Bijection(1..Len(l), R)
    BY <1>2, <1>3, Fun_IsBij
  <1>5. ExistsBijection(1..Len(l), R)
    BY <1>4 DEF ExistsBijection
  <1> QED
    BY <1>1, <1>5, FS_CountingElements

-----------------------------------------------------------------------------
(* The invariant.                                                          *)

\* A request has no status before it is answered, and leaves the connection's
\* mutex held at most once.
FlowInv ==
    /\ pc # "sent" => status = 0 /\ held <= served
    /\ held <= served + 1
    /\ pc # "idle" => served < MaxRequests

\* The list while it is drawn and when it is sent.
ListInv ==
    pc = "draw" \/ Answer =>
        /\ par.min <= par.max
        /\ qttyNumber >= 0 => Len(list) <= qttyNumber
        /\ Answer => Len(list) = qttyNumber
        /\ ~Rep => \A i, j \in 1..Len(list) : list[i] = list[j] => i = j
        /\ \A i \in 1..Len(list) : Possible(list[i])

\* The inductive invariant.
FullInv == TypeOK /\ FlowInv /\ ListInv

\* The service starts without a request.
LEMMA VertexInit == Init => FullInv
  <1> SUFFICES ASSUME Init PROVE FullInv
    OBVIOUS
  <1>1. 0 \in Words /\ MaxRequests \in Nat /\ MaxRequests > 0
    BY Halves, VertexAssumption DEF Words
  <1>2. TypeOK
    <2>1. par \in [{"min", "max", "rep", "num"} -> Words]
      BY <1>1 DEF Init, NoParams
    <2>2. list \in Seq(Int32)
      BY EmptySeq DEF Init
    <2>3. post \in BOOLEAN /\ block \in BOOLEAN
      BY Zenon DEF Init
    <2>4. served \in 0..MaxRequests /\ held \in 0..MaxRequests
      BY <1>1 DEF Init
    <2>5. /\ proc \in {"up", "dead"} /\ body \in Bodies /\ status \in {0, 200, 400, 500}
          /\ pc \in {"idle", "min", "max", "rep", "num", "list", "draw", "sent"}
      BY Zenon DEF Init, Bodies
    <2> QED
      BY <2>1, <2>2, <2>3, <2>4, <2>5, Zenon DEF TypeOK
  <1>3. FlowInv /\ ListInv
    BY <1>1 DEF Init, FlowInv, ListInv, Answer
  <1> QED
    BY <1>2, <1>3 DEF FullInv

\* getParam is asked for one of four names.
LEMMA ParamNames ==
    ASSUME NEW k \in DOMAIN Params
    PROVE  /\ Params[k] \in {"min", "max", "rep", "num"}
           /\ After(Params[k]) \in {"max", "rep", "num", "list"}
  <1>1. Params[k] \in {"min", "max", "rep", "num"}
    BY DEF Params
  <1> QED
    BY <1>1 DEF After

\* Whatever is converted becomes a word, undefined conversions included.
LEMMA ConversionsAreWords ==
    ASSUME NEW p, NEW n PROVE Conversions(p, n) \subseteq Words
  <1>1. 0 \in Words /\ 1 \in Words
    BY Halves DEF Words
  <1> QED
    BY <1>1 DEF Conversions, Casts

\* Outside the drawing of a list nothing is said of it.
LEMMA GetParamStep == ASSUME FullInv, GetParam PROVE FullInv'
  <1>1. PICK k \in DOMAIN Params :
            \/ BodyRefused(Params[k]) \/ Missing(Params[k])
            \/ NotANumber(Params[k]) \/ Convert(Params[k])
    BY DEF GetParam
  <1> DEFINE p == Params[k]
  <1>2. p \in {"min", "max", "rep", "num"} /\ After(p) \in {"max", "rep", "num", "list"}
    BY ParamNames
  <1> HIDE DEF p
  <1> DEFINE Moved ==
                 /\ pc = p /\ proc = "up" /\ UNCHANGED <<body, block, list, served>>
                 /\ held' \in {held, held + 1} /\ (held' # held => pc' = "sent")
                 /\ \/ pc' = "sent" /\ status' = 400
                    \/ pc' \in {p, After(p)} /\ status' = status
                 /\ proc' \in {"up", "dead"}
  <1>3. Moved
    <2>1. ASSUME BodyRefused(p) PROVE Moved
      BY <2>1 DEF BodyRefused, Asked
    <2>2. ASSUME Missing(p) PROVE Moved
      BY <2>2 DEF Missing, Asked
    <2>3. ASSUME NotANumber(p) PROVE Moved
      BY <2>3 DEF NotANumber, Asked
    <2>4. ASSUME Convert(p) PROVE Moved
      BY <2>4 DEF Convert, Asked
    <2> QED
      BY <1>1, <2>1, <2>2, <2>3, <2>4 DEF p
  <1>4. post' \in BOOLEAN
    BY <1>1 DEF BodyRefused, Missing, NotANumber, Convert, Stored, FullInv, TypeOK
  <1>5. par' \in [{"min", "max", "rep", "num"} -> Words]
    <2>1. CASE Convert(p)
      <3>1. PICK n \in Numerals : \E v \in Conversions(p, n) : par' = [par EXCEPT ![p] = v]
        BY <2>1 DEF Convert
      <3>2. PICK v \in Conversions(p, n) : par' = [par EXCEPT ![p] = v]
        BY <3>1
      <3>3. v \in Words
        BY ConversionsAreWords
      <3> QED
        BY <1>2, <3>2, <3>3 DEF FullInv, TypeOK
    <2> QED
      BY <1>1, <2>1 DEF p, BodyRefused, Missing, NotANumber, FullInv, TypeOK
  <1>6. served < MaxRequests /\ served \in Nat /\ MaxRequests \in Nat /\ held \in Nat
        /\ held <= served /\ status = 0
    BY <1>2, <1>3, VertexAssumption DEF FullInv, TypeOK, FlowInv
  <1>7. TypeOK'
    BY <1>2, <1>3, <1>5, <1>6, <1>4 DEF FullInv, TypeOK
  <1>8. FlowInv'
    BY <1>2, <1>3, <1>6 DEF FlowInv
  <1>9. ListInv'
    BY <1>2, <1>3 DEF ListInv, Answer
  <1> QED
    BY <1>7, <1>8, <1>9 DEF FullInv

\* One turn of the loop: a new number goes to the end.
LEMMA DrawStep == ASSUME FullInv, NEW w \in Words, Draw(w) PROVE FullInv'
  <1> DEFINE v == Result(w)
  <1>1. /\ pc = "draw" /\ Len(list) < qttyNumber
        /\ UNCHANGED <<proc, pc, body, post, par, block, status, served, held>>
    BY DEF Draw, More, Asked
  <1>2. /\ par.min <= par.max /\ list \in Seq(Int32) /\ ParamTypes
        /\ qttyNumber >= 0 => Len(list) <= qttyNumber
        /\ ~Rep => \A i, j \in 1..Len(list) : list[i] = list[j] => i = j
        /\ \A i \in 1..Len(list) : Possible(list[i])
    BY <1>1 DEF FullInv, TypeOK, ListInv, ParamTypes
  <1>3. v \in Int32 /\ Possible(v)
    BY <1>2, ResultPossible
  <1>4. /\ \A x : Possible(x)' = Possible(x)
        /\ Rep' = Rep /\ qttyNumber' = qttyNumber /\ Answer' = FALSE
    BY <1>1 DEF Possible, Wanted, range, Rep, qttyNumber, Answer
  <1>5. qttyNumber \in Int /\ Len(list) \in Nat
    <2>1. par.num \in Words
      BY <1>2, ParamsAreWords
    <2> QED
      BY <1>2, <2>1, SignedIs, Halves DEF qttyNumber, Int32
  <1>6. list' = list \/ (~Repeated(v) /\ list' = Append(list, v))
    BY DEF Draw
  <1> HIDE DEF v
  <1>7. CASE list' = list
    <2>1. TypeOK' /\ FlowInv'
      BY <1>1, <1>7 DEF FullInv, TypeOK, FlowInv
    <2>2. ListInv'
      BY <1>1, <1>2, <1>4, <1>7 DEF ListInv
    <2> QED
      BY <2>1, <2>2 DEF FullInv
  <1>8. CASE ~Repeated(v) /\ list' = Append(list, v)
    <2>1. /\ list' \in Seq(Int32) /\ Len(list') = Len(list) + 1
          /\ \A i \in 1..Len(list) : list'[i] = list[i]
          /\ list'[Len(list) + 1] = v
      BY <1>2, <1>3, <1>8
    <2>2. TypeOK' /\ FlowInv'
      BY <1>1, <2>1 DEF FullInv, TypeOK, FlowInv
    <2>3. ASSUME ~Rep, NEW i \in 1..Len(list'), NEW j \in 1..Len(list'),
                 list'[i] = list'[j]
          PROVE  i = j
      <3>1. \A k \in 1..Len(list) : list[k] # v
        BY <1>8, <2>3 DEF Repeated
      <3>2. \A k \in 1..Len(list') : k \in 1..Len(list) \/ k = Len(list) + 1
        BY <1>5, <2>1
      <3>3. CASE i \in 1..Len(list) /\ j \in 1..Len(list)
        BY <1>2, <2>1, <2>3, <3>3
      <3>4. CASE i = Len(list) + 1 \/ j = Len(list) + 1
        BY <2>1, <2>3, <3>1, <3>2, <3>4
      <3> QED
        BY <3>2, <3>3, <3>4
    <2>4. \A i \in 1..Len(list') : Possible(list'[i])
      <3>1. \A k \in 1..Len(list') : k \in 1..Len(list) \/ k = Len(list) + 1
        BY <1>5, <2>1
      <3> QED
        BY <1>2, <1>3, <2>1, <3>1
    <2>5. ListInv'
      BY <1>1, <1>2, <1>4, <1>5, <2>1, <2>3, <2>4 DEF ListInv
    <2> QED
      BY <2>2, <2>5 DEF FullInv
  <1> QED
    BY <1>6, <1>7, <1>8

\* Every step keeps the inductive invariant.
LEMMA VertexStep == FullInv /\ [Next]_vars => FullInv'
  <1> SUFFICES ASSUME FullInv, [Next]_vars PROVE FullInv'
    OBVIOUS
  <1>0. MaxRequests \in Nat /\ served \in Nat /\ held \in Nat /\ served <= MaxRequests
    BY VertexAssumption DEF FullInv, TypeOK
  <1>1. CASE Request
    <2>1. TypeOK' /\ FlowInv'
      BY <1>0, <1>1 DEF Request, FullInv, TypeOK, FlowInv
    <2> QED
      BY <1>1, <2>1 DEF Request, FullInv, ListInv, Answer
  <1>2. CASE GetParam
    BY <1>2, GetParamStep
  <1>3. CASE GenRandomList
    <2>1. /\ pc = "list" /\ list' = << >> /\ block' \in BOOLEAN
          /\ UNCHANGED <<proc, body, post, par, served, held>>
          /\ \/ pc' = "sent" /\ status' = 400
             \/ pc' = "draw" /\ status' = status /\ par.max >= par.min
      BY <1>3 DEF GenRandomList, Asked
    <2>2. TypeOK' /\ FlowInv'
      BY <1>0, <2>1, EmptySeq DEF FullInv, TypeOK, FlowInv
    <2>3. par.min <= par.max <=> par.max >= par.min
      BY ParamsAreWords DEF FullInv, TypeOK, ParamTypes
    <2>4. status = 0 /\ Len(list') = 0
      BY <2>1 DEF FullInv, FlowInv
    <2>5. Answer' = FALSE /\ (pc' = "draw" => par'.min <= par'.max)
      BY <2>1, <2>3, <2>4 DEF Answer
    <2>6. qttyNumber' \in Int
      <3>1. par'.num \in Words
        BY <2>1, ParamsAreWords DEF FullInv, TypeOK, ParamTypes
      <3> QED
        BY <3>1, SignedIs, Halves DEF qttyNumber, Int32
    <2>7. ListInv'
      BY <2>4, <2>5, <2>6 DEF ListInv
    <2> QED
      BY <2>2, <2>7 DEF FullInv
  <1>4. CASE DrawAny
    BY <1>4, DrawStep DEF DrawAny
  <1>5. CASE DrawNoMemory \/ NoText
    <2>1. proc' = "dead" /\ UNCHANGED <<pc, body, post, par, block, list, status, served, held>>
      BY <1>5 DEF DrawNoMemory, NoText
    <2>2. TypeOK' /\ FlowInv'
      BY <2>1 DEF FullInv, TypeOK, FlowInv
    <2>3. ListInv'
      BY <2>1 DEF FullInv, ListInv, Answer, Possible, Wanted, range, Rep, qttyNumber
    <2> QED
      BY <2>2, <2>3 DEF FullInv
  <1>6. CASE NoArray
    <2>1. TypeOK' /\ FlowInv'
      BY <1>0, <1>6 DEF NoArray, Drawn, Asked, FullInv, TypeOK, FlowInv
    <2> QED
      BY <1>6, <2>1 DEF NoArray, FullInv, ListInv, Answer
  <1>7. CASE SendJSON
    <2>1. /\ pc = "draw" /\ Len(list) >= qttyNumber /\ qttyNumber >= 0
          /\ status' = 200 /\ pc' = "sent"
          /\ UNCHANGED <<proc, body, post, par, block, list, served, held>>
      BY <1>7 DEF SendJSON, Drawn, Asked
    <2>2. TypeOK' /\ FlowInv'
      BY <1>0, <2>1 DEF FullInv, TypeOK, FlowInv
    <2>3. qttyNumber \in Int /\ Len(list) \in Nat
      <3>1. par.num \in Words /\ list \in Seq(Int32)
        BY ParamsAreWords DEF FullInv, TypeOK, ParamTypes
      <3> QED
        BY <3>1, SignedIs, Halves DEF qttyNumber, Int32
    <2>4. Len(list) = qttyNumber
      BY <2>1, <2>3 DEF FullInv, ListInv
    <2>5. /\ \A x : Possible(x)' = Possible(x)
          /\ Rep' = Rep /\ qttyNumber' = qttyNumber
      BY <2>1 DEF Possible, Wanted, range, Rep, qttyNumber
    <2>6. ListInv'
      BY <2>1, <2>4, <2>5 DEF FullInv, ListInv
    <2> QED
      BY <2>2, <2>6 DEF FullInv
  <1>8. CASE Close
    <2>1. /\ pc = "sent" /\ pc' = "idle" /\ served' = served + 1 /\ status' = 0
          /\ par' = NoParams /\ list' = << >> /\ UNCHANGED <<proc, held>>
          /\ body' = "none" /\ post' = FALSE /\ block' = FALSE
      BY <1>8 DEF Close, Asked
    <2>2. par' \in [{"min", "max", "rep", "num"} -> Words]
      <3>1. 0 \in Words
        BY Halves DEF Words
      <3> QED
        BY <2>1, <3>1 DEF NoParams
    <2>3. list' \in Seq(Int32)
      BY <2>1, EmptySeq
    <2>4. served < MaxRequests /\ held <= served + 1
      BY <2>1 DEF FullInv, FlowInv
    <2>5. TypeOK'
      <3>1. post' \in BOOLEAN /\ block' \in BOOLEAN
        BY <2>1, Zenon
      <3>2. served' \in 0..MaxRequests /\ held' \in 0..MaxRequests
        BY <1>0, <2>1, <2>4 DEF FullInv, TypeOK
      <3>3. /\ proc' \in {"up", "dead"} /\ body' \in Bodies /\ status' \in {0, 200, 400, 500}
            /\ pc' \in {"idle", "min", "max", "rep", "num", "list", "draw", "sent"}
        BY <2>1, Zenon DEF FullInv, TypeOK, Bodies
      <3> QED
        BY <2>2, <2>3, <3>1, <3>2, <3>3, Zenon DEF TypeOK
    <2>6. FlowInv'
      BY <1>0, <2>1, <2>4 DEF FlowInv
    <2> QED
      BY <2>1, <2>5, <2>6 DEF FullInv, ListInv, Answer
  <1>9. CASE UNCHANGED vars
    <2>1. TypeOK' /\ FlowInv'
      BY <1>9 DEF vars, FullInv, TypeOK, FlowInv
    <2>2. ListInv'
      BY <1>9 DEF vars, FullInv, ListInv, Answer, Possible, Wanted, range, Rep, qttyNumber
    <2> QED
      BY <2>1, <2>2 DEF FullInv
  <1> QED
    BY <1>1, <1>2, <1>3, <1>4, <1>5, <1>6, <1>7, <1>8, <1>9 DEF Next, Done

\* The inductive invariant holds throughout.
LEMMA VertexFull == Spec => []FullInv
  BY VertexInit, VertexStep, PTL DEF Spec

-----------------------------------------------------------------------------
(* The theorems.                                                           *)

\* For every word size: the numbers of an answer differ where they must, none is
\* outside the range but the one that stands for a rejected word, and no number
\* of the range is likelier than another (scale, genRandomList).
THEOREM VertexInvariant == Spec => []VertexInv
  <1>1. FullInv => VertexInv
    <2> SUFFICES ASSUME FullInv PROVE AnswerDistinct /\ OutsideExact /\ WantedEquallyLikely
      BY DEF FullInv, VertexInv
    <2>0. list \in Seq(Int32) /\ DOMAIN list = 1..Len(list) /\ ParamTypes
      BY DEF FullInv, TypeOK, ParamTypes
    <2>1. AnswerDistinct
      <3> SUFFICES ASSUME Answer
                   PROVE  /\ Len(list) = qttyNumber
                          /\ ~Rep => Cardinality({list[k] : k \in DOMAIN list}) = qttyNumber
        BY DEF AnswerDistinct
      <3>1. /\ Len(list) = qttyNumber
            /\ ~Rep => \A i, j \in 1..Len(list) : list[i] = list[j] => i = j
        BY DEF FullInv, ListInv
      <3>2. ~Rep => Cardinality({list[k] : k \in DOMAIN list}) = Len(list)
        BY <2>0, <3>1, DistinctSize
      <3> QED
        BY <3>1, <3>2
    <2>2. OutsideExact
      BY <2>0 DEF OutsideExact, FullInv, ListInv, Possible
    <2>3. WantedEquallyLikely
      <3> SUFFICES ASSUME pc = "draw", range # 0, NEW v \in Wanted
                   PROVE  Cardinality({w \in Words : Result(w) = v}) = WordSize \div range
        BY DEF WantedEquallyLikely
      <3>1. par.min <= par.max
        BY DEF FullInv, ListInv
      <3> QED
        BY <2>0, <3>1, EquallyLikely
    <2> QED
      BY <2>1, <2>2, <2>3
  <1> QED
    BY <1>1, VertexFull, PTL

\* A request with its four numbers is refused exactly when it cannot be met, or
\* asks for different numbers of all of uint32_t (genRandomList).
THEOREM RefusalsExact == Spec => RefusalExact
  <1>1. FullInv /\ [Next]_vars => [pc = "list" => (status' = 400 <=> CannotBeMet)]_vars
    <2> SUFFICES ASSUME FullInv, Next, pc = "list", vars' # vars
                 PROVE  status' = 400 <=> CannotBeMet
      OBVIOUS
    <2>1. \A k \in DOMAIN Params : Params[k] # "list"
      BY ParamNames
    <2>2. GenRandomList
      BY <2>1 DEF Next, Request, GetParam, BodyRefused, Missing, NotANumber, Convert,
                  DrawAny, Draw, DrawNoMemory, More, NoArray, SendJSON, NoText, Drawn, Close,
                  Asked, Done
    <2>3. status = 0
      BY DEF FullInv, FlowInv
    <2>4. status' = 400 <=> TooMany \/ par.max < par.min
      <3>1. /\ par.max \in Int /\ par.min \in Int
        BY ParamsAreWords DEF FullInv, TypeOK, ParamTypes
      <3> QED
        BY <2>2, <2>3, <3>1 DEF GenRandomList
    <2>5. TooMany <=> range < par.num /\ ~Rep
      <3>1. Unsigned(qttyNumber) = par.num
        BY ParamsAreWords, SignedIs DEF FullInv, TypeOK, ParamTypes, qttyNumber
      <3> QED
        BY <3>1 DEF TooMany
    <2>6. CASE par.max < par.min
      BY <2>4, <2>6 DEF CannotBeMet
    <2>7. CASE par.min <= par.max
      <3>1. /\ par.max \in Int /\ par.min \in Int /\ par.num \in Int /\ 0 <= par.num
            /\ par.num < WordSize /\ WordSize \in Nat
        BY ParamsAreWords, Halves DEF FullInv, TypeOK, ParamTypes, Words
      <3>2. range = IF par.max - par.min + 1 = WordSize THEN 0 ELSE par.max - par.min + 1
        BY <2>7, RangeIs DEF FullInv, TypeOK, ParamTypes
      <3> QED
        BY <2>4, <2>5, <2>7, <3>1, <3>2 DEF CannotBeMet
    <2> QED
      <3>1. /\ par.max \in Int /\ par.min \in Int
        BY ParamsAreWords DEF FullInv, TypeOK, ParamTypes
      <3> QED
        BY <2>6, <2>7, <3>1
  <1> QED
    BY <1>1, VertexFull, PTL DEF Spec, RefusalExact

-----------------------------------------------------------------------------
(* The limit on the rate.                                                  *)

\* A number, or zero where it is an error.
Atleast0(n) == IF n > 0 THEN n ELSE 0

Pushing == writer.at \in {"push_all", "send", "pushed"}

\* What this second's quota has been charged with.
Charged == IF quota.last_throttle_time = second THEN quota.last_throttle_bytes ELSE 0

\* mg_write's variables: what push_all has written of what it may ...
PushInv ==
    /\ writer.total >= 0 /\ writer.nwritten >= -1 /\ writer.start <= second
    /\ Pushing \/ writer.at = "sleep" => writer.nwritten <= Atleast0(writer.allowed)
    /\ writer.at = "push_all" => writer.nwritten >= 0
    /\ writer.at = "send" => writer.nwritten >= 0 /\ writer.nwritten < writer.allowed
    /\ Pushing /\ writer.allowed <= 0 => writer.nwritten = 0

\* ... and how much that is at each of its three calls.
StageInv ==
    /\ writer.at # "idle" => (writer.stage = "whole" <=> quota.throttle = 0)
    /\ writer.at \in {"next", "sleep"} => writer.stage # "whole"
    /\ Pushing /\ writer.stage # "parts" => writer.total = 0
    /\ Pushing /\ writer.stage = "first" => writer.allowed + quota.last_throttle_bytes <= quota.throttle
    /\ Pushing /\ writer.stage = "parts" => writer.allowed > 0
    /\ (Pushing /\ writer.stage = "parts") \/ writer.at = "sleep" => writer.allowed <= quota.throttle
    /\ writer.at = "sleep" => writer.allowed > 0 /\ writer.nwritten = writer.allowed

\* A push that ended early: the client is gone or let a second pass, or the server stops.
Broken == writer.at = "pushed" /\ writer.nwritten # writer.allowed /\ writer.allowed > 0
BrokenInv ==
    Broken => /\ socket.gone \/ stop_flag \/ socket.limited = 0
              /\ writer.stage = "parts" => socket.cut \/ stop_flag

\* What may have gone out this second: what an earlier one began to send, and what is charged ...
Allowance ==
    IF Pushing /\ writer.stage = "first" /\ quota.last_throttle_time # second THEN Atleast0(writer.nwritten)
    ELSE Charged + TopRate + (IF Pushing /\ writer.stage # "whole" THEN Atleast0(writer.nwritten) ELSE 0)

\* ... while anything can still be sent.
LimitInv ==
    /\ writer.at = "send" => socket.gone \/ socket.limited <= Allowance
    /\ writer.at \in {"send", "sleep"} /\ second > writer.start => socket.limited = 0
    /\ writer.at \in {"idle", "next", "push_all", "pushed"} =>
          socket.gone \/ stop_flag \/ socket.limited <= Allowance
    /\ RateBounded

\* What mg_write has sent and not added to num_bytes_sent yet.
InHand ==
    IF writer.at = "idle" THEN 0
    ELSE IF writer.at = "next" THEN writer.total
    ELSE writer.total + Atleast0(writer.nwritten)

CountInv ==
    /\ quota.num_bytes_sent + InHand <= socket.taken
    /\ ~socket.cut /\ ~stop_flag => quota.num_bytes_sent + InHand = socket.taken

\* The inductive invariant.
WriteInv == ThrottleTypeOK /\ PushInv /\ StageInv /\ BrokenInv /\ LimitInv /\ CountInv

\* The records.
Quotas(s) ==
    [throttle: 0..TopRate, last_throttle_time: 0..s, last_throttle_bytes: 0..TopRate, num_bytes_sent: Nat]
Writers ==
    [at: Steps, stage: Stages, len: Nat, total: Int, allowed: Int, nwritten: Int, start: Nat, ret: Int]
Sockets == [taken: Nat, limited: Nat, gone: BOOLEAN, cut: BOOLEAN]

\* The changes of the three records.
Having(w, a, n) == [w EXCEPT !.at = a, !.nwritten = n]
Starting(w, a, s) == [w EXCEPT !.at = a, !.start = s]
Asking(w, l, t) == [w EXCEPT !.len = l, !.total = t]
Charging(q, s, b) == [q EXCEPT !.last_throttle_time = s, !.last_throttle_bytes = b]
Moving(w, a, t) == [w EXCEPT !.at = a, !.total = t]
Failing(s, g, c) == [s EXCEPT !.gone = g, !.cut = c]
Taking(s, k, rate) == [s EXCEPT !.taken = @ + k, !.limited = IF rate > 0 THEN @ + k ELSE @]

\* The type of the records, by name ...
LEMMA ThrottleTyped ==
    ThrottleTypeOK <=> /\ second \in 0..MaxSeconds /\ writes \in 0..MaxWrites /\ stop_flag \in BOOLEAN
                       /\ quota \in Quotas(second) /\ writer \in Writers /\ socket \in Sockets
  BY DEF ThrottleTypeOK, Quotas, Writers, Sockets

\* ... and after a step.
LEMMA ThrottleTypedNext ==
    ThrottleTypeOK' <=> /\ second' \in 0..MaxSeconds /\ writes' \in 0..MaxWrites /\ stop_flag' \in BOOLEAN
                       /\ quota' \in Quotas(second') /\ writer' \in Writers /\ socket' \in Sockets
  BY DEF ThrottleTypeOK, Quotas, Writers, Sockets

\* What each change of a record leaves of the others ...
LEMMA Wrote ==
    ASSUME NEW w \in Writers, NEW a \in Steps, NEW n \in Int, NEW v,
           v = Having(w, a, n)
    PROVE  /\ v \in Writers
           /\ v.at = a /\ v.stage = w.stage /\ v.len = w.len /\ v.total = w.total
           /\ v.allowed = w.allowed /\ v.nwritten = n /\ v.start = w.start /\ v.ret = w.ret
  BY DEF Writers, Having

LEMMA Started ==
    ASSUME NEW w \in Writers, NEW a \in Steps, NEW s \in Nat, NEW v,
           v = Starting(w, a, s)
    PROVE  /\ v \in Writers
           /\ v.at = a /\ v.stage = w.stage /\ v.len = w.len /\ v.total = w.total
           /\ v.allowed = w.allowed /\ v.nwritten = w.nwritten /\ v.start = s /\ v.ret = w.ret
  BY DEF Writers, Starting

LEMMA Moved ==
    ASSUME NEW w \in Writers, NEW a \in Steps, NEW t \in Int, NEW v,
           v = Moving(w, a, t)
    PROVE  /\ v \in Writers
           /\ v.at = a /\ v.stage = w.stage /\ v.len = w.len /\ v.total = t
           /\ v.allowed = w.allowed /\ v.nwritten = w.nwritten /\ v.start = w.start /\ v.ret = w.ret
  BY DEF Writers, Moving

\* mg_write begins ...
LEMMA AskedFor ==
    ASSUME NEW w \in Writers, NEW l \in Nat, NEW t \in Int
    PROVE  LET v == Asking(w, l, t) IN v \in Writers /\ v.total = t /\ v.start = w.start /\ v.len = l
  <1>1. [w EXCEPT !.len = l] \in Writers
    BY DEF Writers
  <1> DEFINE u == [w EXCEPT !.len = l]
  <1>2. /\ u.len = l /\ u.start = w.start
    BY DEF Writers
  <1>3. Asking(w, l, t) = [u EXCEPT !.total = t]
    BY DEF Asking, Writers
  <1> HIDE DEF u
  <1>4. u \in Writers
    BY <1>1 DEF u
  <1>5. [u EXCEPT !.total = t] \in Writers
    BY <1>4 DEF Writers
  <1> QED
    BY <1>2, <1>3, <1>4, <1>5 DEF Writers

\* ... and looks at its quota.
LEMMA ChargedAs ==
    ASSUME NEW s \in Nat, NEW q \in Quotas(s), NEW b \in 0..TopRate
    PROVE  LET p == Charging(q, s, b)
           IN  /\ p \in Quotas(s) /\ p.throttle = q.throttle /\ p.last_throttle_time = s
               /\ p.last_throttle_bytes = b /\ p.num_bytes_sent = q.num_bytes_sent
  <1>1. s \in 0..s
    OBVIOUS
  <1>2. Charging(q, s, b) \in Quotas(s)
    BY <1>1 DEF Quotas, Charging
  <1> QED
    BY <1>2 DEF Quotas, Charging

\* What mg_write returns is added to num_bytes_sent, unless it is an error.
LEMMA Returned ==
    ASSUME NEW total \in Int, writer \in Writers, quota \in Quotas(second), Return(total)
    PROVE  /\ writer' \in Writers /\ quota' \in Quotas(second)
           /\ writer'.at = "idle" /\ writer'.stage = writer.stage /\ writer'.len = writer.len
           /\ writer'.total = writer.total /\ writer'.allowed = writer.allowed
           /\ writer'.nwritten = writer.nwritten /\ writer'.start = writer.start
           /\ quota'.throttle = quota.throttle
           /\ quota'.last_throttle_time = quota.last_throttle_time
           /\ quota'.last_throttle_bytes = quota.last_throttle_bytes
           /\ quota'.num_bytes_sent = quota.num_bytes_sent + Atleast0(total)
  <1> DEFINE n == quota.num_bytes_sent + Atleast0(total)
  <1>1. /\ writer' = [writer EXCEPT !.at = "idle", !.ret = total]
        /\ n \in Nat
    BY DEF Return, Quotas, Atleast0
  <1>2. quota' = [quota EXCEPT !.num_bytes_sent = n]
    <2>1. CASE total > 0
      BY <2>1 DEF Return, Atleast0
    <2>2. CASE ~(total > 0)
      BY <2>2 DEF Return, Quotas, Atleast0
    <2> QED
      BY <2>1, <2>2
  <1> HIDE DEF n
  <1>3. writer' \in Writers /\ quota' \in Quotas(second)
    BY <1>1, <1>2 DEF Writers, Quotas, Steps
  <1>4. quota'.num_bytes_sent = n
    BY <1>2 DEF Quotas
  <1> QED
    BY <1>1, <1>2, <1>3, <1>4 DEF Writers, Quotas, n

\* push_all begins.
LEMMA Renewed ==
    ASSUME NEW w \in Writers, NEW s \in Stages, NEW a \in Int
    PROVE  [w EXCEPT !.stage = s, !.allowed = a] \in Writers
  BY DEF Writers

LEMMA PushStarts ==
    ASSUME NEW w \in Writers, NEW s \in Stages, NEW a \in Int, NEW v, v = Push(w, s, a)
    PROVE  /\ v \in Writers
           /\ v.at = "push_all" /\ v.stage = s /\ v.len = w.len /\ v.total = w.total
           /\ v.allowed = a /\ v.nwritten = 0 /\ v.start = w.start /\ v.ret = w.ret
  <1>1. v = [w EXCEPT !.at = "push_all", !.stage = s, !.allowed = a, !.nwritten = 0]
    BY DEF Push
  <1> DEFINE u == [w EXCEPT !.at = "push_all", !.nwritten = 0]
  <1>2. u \in Writers
    <2>1. "push_all" \in Steps /\ 0 \in Int
      BY DEF Steps
    <2> QED
      BY <2>1, Wrote DEF Having
  <1>3. v = [u EXCEPT !.stage = s, !.allowed = a]
    BY <1>1 DEF Writers
  <1>4. v \in Writers
    <2> HIDE DEF u
    <2> QED
      BY <1>2, <1>3, Renewed
  <1> QED
    BY <1>1, <1>4 DEF Writers

\* The socket takes some bytes ...
LEMMA Took ==
    ASSUME NEW s \in Sockets, NEW k \in Nat, NEW rate \in Nat, NEW v,
           v = Taking(s, k, rate)
    PROVE  /\ v \in Sockets
           /\ v.taken = s.taken + k /\ v.limited = s.limited + (IF rate > 0 THEN k ELSE 0)
           /\ (v.gone <=> s.gone) /\ (v.cut <=> s.cut)
  <1> DEFINE l == s.limited + (IF rate > 0 THEN k ELSE 0)
             t == s.taken + k
  <1>1. l \in Nat /\ t \in Nat
    BY DEF Sockets
  <1>2. v = [s EXCEPT !.taken = t, !.limited = l]
    <2>1. CASE rate > 0
      BY <2>1 DEF Taking
    <2>2. CASE ~(rate > 0)
      <3>1. l = s.limited
        BY <2>2 DEF Sockets
      <3>2. v = [s EXCEPT !.taken = t, !.limited = s.limited]
        BY <2>2 DEF Taking
      <3> QED
        BY <3>1, <3>2
    <2> QED
      BY <2>1, <2>2
  <1> HIDE DEF l, t
  <1>3. v \in Sockets
    BY <1>1, <1>2 DEF Sockets
  <1>4. v.taken = t /\ v.limited = l
    BY <1>2 DEF Sockets
  <1>5. v.gone = s.gone
    BY <1>2 DEF Sockets
  <1>6. v.cut = s.cut
    BY <1>2 DEF Sockets
  <1> QED
    BY <1>3, <1>4, <1>5, <1>6 DEF l, t

\* ... or fails.
LEMMA Failed ==
    ASSUME NEW s \in Sockets, NEW g \in BOOLEAN, NEW c \in BOOLEAN, NEW v,
           v = Failing(s, g, c)
    PROVE  /\ v \in Sockets /\ v.taken = s.taken /\ v.limited = s.limited
           /\ (v.gone <=> g) /\ (v.cut <=> c)
  <1>1. v \in Sockets /\ v.taken = s.taken /\ v.limited = s.limited
    BY DEF Sockets, Failing
  <1>2. v.gone = g
    BY DEF Sockets, Failing
  <1>3. v.cut = c
    BY DEF Sockets, Failing
  <1> QED
    BY <1>1, <1>2, <1>3

\* What Returned gives.
ReturnedAs(total) ==
    /\ writer' \in Writers /\ quota' \in Quotas(second)
    /\ writer'.at = "idle" /\ writer'.stage = writer.stage /\ writer'.len = writer.len
    /\ writer'.total = writer.total /\ writer'.allowed = writer.allowed
    /\ writer'.nwritten = writer.nwritten /\ writer'.start = writer.start
    /\ quota'.throttle = quota.throttle
    /\ quota'.last_throttle_time = quota.last_throttle_time
    /\ quota'.last_throttle_bytes = quota.last_throttle_bytes
    /\ quota'.num_bytes_sent = quota.num_bytes_sent + Atleast0(total)

\* Of a set of numbers that is not empty, one is the least.
LEMMA LeastExists ==
    ASSUME NEW T, T \subseteq Nat, T # {}
    PROVE  \E m \in T : \A n \in T : m <= n
  <1>1. PICK m \in T : \A n \in T : ~ (<<n, m>> \in OpToRel(<, Nat))
    BY NatLessThanWellFounded, WFMin
  <1>2. \A n \in T : <<n, m>> \in OpToRel(<, Nat) <=> n < m
    BY Zenon DEF OpToRel
  <1>3. \A n \in T : ~ (n < m)
    BY <1>1, <1>2, Zenon
  <1>4. \A n \in T : n \in Int
    OBVIOUS
  <1>5. \A n \in T : m <= n
    BY <1>3, <1>4
  <1> QED
    BY <1>5

\* A set of indices that is not empty has a last one.
LEMMA LastExists ==
    ASSUME NEW n \in Nat, NEW M, M \subseteq 1..n, M # {}
    PROVE  \E i \in M : \A j \in M : j <= i
  <1> DEFINE S == {n - i : i \in M}
  <1>1. S \subseteq Nat /\ S # {}
    <2>1. \A i \in 1..n : n - i \in Nat
      OBVIOUS
    <2> QED
      BY <2>1
  <1> HIDE DEF S
  <1>2. PICK x \in S : \A y \in S : x <= y
    BY <1>1, LeastExists
  <1> USE DEF S
  <1>3. PICK i \in M : x = n - i
    BY <1>2
  <1>4. ASSUME NEW j \in M PROVE j <= i
    <2>1. n - i <= n - j /\ i \in Nat /\ j \in Nat
      BY <1>2, <1>3
    <2> QED
      BY <2>1
  <1> QED
    BY <1>3, <1>4

\* What set_throttle gives is 0 or the rate of an entry.
LEMMA RateType ==
    ASSUME NEW uri \in ThrottleUris
    PROVE  set_throttle(uri) \in 0..TopRate
  <1> DEFINE meant == {i \in 1..Len(ThrottleRules) : ThrottleRules[i].rate >= 0 /\ uri \in ThrottleRules[i].uris}
             last == CHOOSE i \in meant : \A j \in meant : j <= i
  <1>1. Len(ThrottleRules) \in Nat /\ DOMAIN ThrottleRules = 1..Len(ThrottleRules) /\ TopRate \in Nat
    BY ThrottleAssumption
  <1>2. \A i \in 1..Len(ThrottleRules) : ThrottleRules[i].rate \in Int /\ ThrottleRules[i].rate <= TopRate
    <2> TAKE i \in 1..Len(ThrottleRules)
    <2>1. ThrottleRules[i] \in [rate: Int, uris: SUBSET ThrottleUris]
      <3>1. ASSUME NEW R, NEW q \in Seq(R), i \in 1..Len(q) PROVE q[i] \in R
        BY <3>1
      <3> QED
        BY <3>1, ThrottleAssumption
    <2> QED
      BY <1>1, <2>1, ThrottleAssumption
  <1>3. meant # {} => last \in meant
    <2>1. meant \subseteq 1..Len(ThrottleRules)
      OBVIOUS
    <2> HIDE DEF meant
    <2> QED
      BY <1>1, <2>1, LastExists
  <1>4. meant # {} => ThrottleRules[last].rate \in 0..TopRate
    <2>1. \A i \in meant : ThrottleRules[i].rate \in 0..TopRate
      BY <1>1, <1>2
    <2> HIDE DEF meant, last
    <2> QED
      BY <1>3, <2>1
  <1> HIDE DEF meant, last
  <1>5. set_throttle(uri) = IF meant = {} THEN 0 ELSE ThrottleRules[last].rate
    BY DEF set_throttle, meant, last
  <1> QED
    BY <1>1, <1>4, <1>5

\* What the invariant says of the types of the fields.
LEMMA ThrottleFields ==
    ASSUME WriteInv
    PROVE  /\ writer \in Writers /\ quota \in Quotas(second) /\ socket \in Sockets
           /\ second \in 0..MaxSeconds /\ second \in Nat /\ TopRate \in Nat /\ MaxSeconds \in Nat
           /\ writes \in 0..MaxWrites
           /\ writer.at \in Steps /\ writer.stage \in Stages /\ writer.len \in Nat /\ writer.total \in Int
           /\ writer.allowed \in Int /\ writer.nwritten \in Int /\ writer.start \in Nat
           /\ quota.throttle \in 0..TopRate /\ quota.last_throttle_time \in 0..second
           /\ quota.last_throttle_bytes \in 0..TopRate /\ quota.num_bytes_sent \in Nat
           /\ socket.taken \in Nat /\ socket.limited \in Nat
  BY ThrottleAssumption DEF WriteInv, ThrottleTypeOK, Writers, Quotas, Sockets

LEMMA ThrottleRecords ==
    ASSUME WriteInv
    PROVE  writer \in Writers /\ quota \in Quotas(second) /\ socket \in Sockets
  BY ThrottleTyped DEF WriteInv

\* Steps that pass no time.
LEMMA TypeKept ==
    ASSUME WriteInv, stop_flag' \in BOOLEAN, second' = second, writes' = writes,
           writer' \in Writers, quota' \in Quotas(second), socket' \in Sockets
    PROVE  ThrottleTypeOK'
  BY ThrottleTypedNext, ThrottleTyped DEF WriteInv

\* Every step keeps the invariant: the bytes that are sent are written, or lost to a stop ...
LEMMA SendKeeps == WriteInv /\ Send => WriteInv'
  <1> SUFFICES ASSUME WriteInv, Send PROVE WriteInv'
    OBVIOUS
  <1>1. PICK k \in 1..writer.allowed - writer.nwritten :
          /\ socket' = Taking(socket, k, quota.throttle)
          /\ IF stop_flag THEN BreaksOff
             ELSE writer' = [writer EXCEPT !.at = "push_all", !.nwritten = @ + k]
    BY DEF Send, Taking
  <1>2. /\ writer.at = "send" /\ ~socket.gone /\ second' = second /\ quota' = quota
        /\ writes' = writes
    BY DEF Send
  <1>3. stop_flag' = stop_flag
    BY DEF Send
  <1>4. /\ k \in Nat /\ k >= 1 /\ k <= writer.allowed - writer.nwritten
        /\ writer.nwritten >= 0 /\ writer.allowed > 0
    BY ThrottleFields, <1>2 DEF WriteInv, PushInv
  <1>5. /\ socket' \in Sockets /\ socket'.taken = socket.taken + k
        /\ socket'.limited = socket.limited + (IF quota.throttle > 0 THEN k ELSE 0)
        /\ (socket'.gone <=> socket.gone) /\ (socket'.cut <=> socket.cut)
    <2>1. quota.throttle \in Nat
      BY ThrottleFields
    <2> QED
      BY ThrottleRecords, <1>1, <1>4, <2>1, Took
  <1> DEFINE n == IF stop_flag THEN (IF writer.nwritten = 0 THEN -1 ELSE writer.nwritten)
                  ELSE writer.nwritten + k
             a == IF stop_flag THEN "pushed" ELSE "push_all"
  <1>6. writer' = Having(writer, a, n)
    <2>1. CASE stop_flag
      BY <1>1, <2>1 DEF BreaksOff, Having
    <2>2. CASE ~stop_flag
      BY <1>1, <2>2 DEF Having
    <2> QED
      BY <2>1, <2>2
  <1>7. n \in Int /\ a \in Steps
    BY ThrottleFields, <1>4 DEF Steps
  <1> HIDE DEF n, a
  <1>8. /\ writer' \in Writers
        /\ writer'.at = a /\ writer'.stage = writer.stage /\ writer'.len = writer.len
        /\ writer'.total = writer.total /\ writer'.allowed = writer.allowed
        /\ writer'.nwritten = n /\ writer'.start = writer.start
    BY ThrottleRecords, <1>6, <1>7, Wrote
  <1>9. ThrottleTypeOK'
    BY ThrottleFields, <1>2, <1>3, <1>5, <1>8, TypeKept, ThrottleTyped DEF WriteInv
  <1>10. /\ PushInv /\ StageInv /\ BrokenInv /\ LimitInv /\ CountInv
    BY DEF WriteInv
  <1> USE DEF n, a
  <1>11. PushInv'
    BY SMTT(30), ThrottleFields, <1>2, <1>3, <1>4, <1>5, <1>8, <1>10
       DEF PushInv, StageInv, Pushing, Atleast0
  <1>12. StageInv'
    BY SMTT(30), ThrottleFields, <1>2, <1>3, <1>4, <1>5, <1>8, <1>10
       DEF StageInv, PushInv, Pushing
  <1>13. BrokenInv'
    BY SMTT(30), ThrottleFields, <1>2, <1>3, <1>4, <1>5, <1>8, <1>10
       DEF BrokenInv, Broken, LimitInv, PushInv, StageInv, Pushing, Atleast0
  <1>14. LimitInv'
    <2>1. CASE writer.stage = "whole"
      BY SMTT(60), ThrottleFields, <1>2, <1>3, <1>4, <1>5, <1>8, <1>10, <2>1
         DEF LimitInv, RateBounded, BrokenInv, Broken, Allowance, Pushing, Charged,
             Atleast0, PushInv, StageInv
    <2>2. CASE writer.stage = "first"
      BY SMTT(60), ThrottleFields, <1>2, <1>3, <1>4, <1>5, <1>8, <1>10, <2>2
         DEF LimitInv, RateBounded, BrokenInv, Broken, Allowance, Pushing, Charged,
             Atleast0, PushInv, StageInv
    <2>3. CASE writer.stage = "parts"
      BY SMTT(60), ThrottleFields, <1>2, <1>3, <1>4, <1>5, <1>8, <1>10, <2>3
         DEF LimitInv, RateBounded, BrokenInv, Broken, Allowance, Pushing, Charged,
             Atleast0, PushInv, StageInv
    <2> QED
      BY ThrottleFields, <2>1, <2>2, <2>3 DEF Stages
  <1>15. CountInv'
    BY SMTT(30), ThrottleFields, <1>2, <1>3, <1>4, <1>5, <1>8, <1>10
       DEF CountInv, BrokenInv, Broken, InHand, Atleast0, PushInv, StageInv, Pushing
  <1> QED
    BY <1>9, <1>11, <1>12, <1>13, <1>14, <1>15 DEF WriteInv

\* ... and what ends early ends for a reason.
LEMMA SendFailsKeeps == WriteInv /\ SendFails => WriteInv'
  <1> SUFFICES ASSUME WriteInv, SendFails PROVE WriteInv'
    OBVIOUS
  <1>1. PICK g \in BOOLEAN :
          /\ socket' = [socket EXCEPT !.gone = g, !.cut = socket.cut \/ writer.stage = "parts"]
          /\ ~g => (second > writer.start \/ stop_flag) /\ ~socket.gone
          /\ socket.gone => g
    <2>1. ASSUME socket' = [socket EXCEPT !.gone = TRUE, !.cut = @ \/ writer.stage = "parts"]
          PROVE  socket' = [socket EXCEPT !.gone = TRUE, !.cut = socket.cut \/ writer.stage = "parts"]
      BY <2>1
    <2>2. ASSUME socket' = [socket EXCEPT !.cut = @ \/ writer.stage = "parts"]
          PROVE  socket' = [socket EXCEPT !.gone = socket.gone, !.cut = socket.cut \/ writer.stage = "parts"]
      BY <2>2, ThrottleFields DEF Sockets
    <2>3. socket.gone \in BOOLEAN
      BY ThrottleFields DEF Sockets
    <2> QED
      BY <2>1, <2>2, <2>3 DEF SendFails
  <1>2. /\ writer.at = "send" /\ second' = second /\ quota' = quota /\ writes' = writes
    BY DEF SendFails
  <1>3. stop_flag' = stop_flag
    BY DEF SendFails
  <1>4. writer.nwritten >= 0 /\ writer.allowed > 0 /\ writer.nwritten < writer.allowed
    BY ThrottleFields, <1>2 DEF WriteInv, PushInv
  <1> DEFINE c == socket.cut \/ writer.stage = "parts"
             n == IF writer.nwritten = 0 THEN -1 ELSE writer.nwritten
  <1>5. /\ socket' \in Sockets /\ socket'.taken = socket.taken /\ socket'.limited = socket.limited
        /\ (socket'.gone <=> g) /\ (socket'.cut <=> c)
    <2>1. c \in BOOLEAN
      BY ThrottleFields DEF Sockets
    <2>2. socket' = Failing(socket, g, c)
      BY <1>1 DEF Failing
    <2> HIDE DEF c
    <2> QED
      BY ThrottleRecords, <2>1, <2>2, Failed
  <1>6. writer' = Having(writer, "pushed", n) /\ n \in Int /\ "pushed" \in Steps
    BY ThrottleFields DEF SendFails, BreaksOff, Steps, Having
  <1> HIDE DEF n
  <1>8. /\ writer' \in Writers
        /\ writer'.at = "pushed" /\ writer'.stage = writer.stage /\ writer'.len = writer.len
        /\ writer'.total = writer.total /\ writer'.allowed = writer.allowed
        /\ writer'.nwritten = n /\ writer'.start = writer.start
    BY ThrottleRecords, <1>6, Wrote
  <1>9. ThrottleTypeOK'
    BY ThrottleFields, <1>2, <1>3, <1>5, <1>8, TypeKept, ThrottleTyped DEF WriteInv
  <1>10. /\ PushInv /\ StageInv /\ BrokenInv /\ LimitInv /\ CountInv
    BY DEF WriteInv
  <1> USE DEF n
  <1>11. PushInv'
    BY SMTT(30), ThrottleFields, <1>1, <1>2, <1>3, <1>4, <1>5, <1>8, <1>10
       DEF PushInv, StageInv, Pushing, Atleast0
  <1>12. StageInv'
    BY SMTT(30), ThrottleFields, <1>1, <1>2, <1>3, <1>4, <1>5, <1>8, <1>10
       DEF StageInv, PushInv, Pushing
  <1>13. BrokenInv'
    BY SMTT(30), ThrottleFields, <1>1, <1>2, <1>3, <1>4, <1>5, <1>8, <1>10
       DEF BrokenInv, Broken, LimitInv, PushInv, StageInv, Pushing, Atleast0
  <1>14. LimitInv'
    BY SMTT(30), ThrottleFields, <1>1, <1>2, <1>3, <1>4, <1>5, <1>8, <1>10
       DEF LimitInv, RateBounded, BrokenInv, Broken, Allowance, Pushing, Charged, Atleast0, PushInv, StageInv
  <1>15. CountInv'
    BY SMTT(30), ThrottleFields, <1>1, <1>2, <1>3, <1>4, <1>5, <1>8, <1>10
       DEF CountInv, BrokenInv, Broken, InHand, Atleast0, PushInv, StageInv, Pushing
  <1> QED
    BY <1>9, <1>11, <1>12, <1>13, <1>14, <1>15 DEF WriteInv

\* This second's quota is charged with its part ...
LEMMA FirstPushedKeeps == WriteInv /\ FirstPushed => WriteInv'
  <1> SUFFICES ASSUME WriteInv, FirstPushed PROVE WriteInv'
    OBVIOUS
  <1>2. /\ writer.at = "pushed" /\ writer.stage = "first"
        /\ second' = second /\ socket' = socket /\ writes' = writes
    BY DEF FirstPushed, Pushed
  <1>3. stop_flag' = stop_flag
    BY DEF FirstPushed
  <1>10. /\ PushInv /\ StageInv /\ BrokenInv /\ LimitInv /\ CountInv
    BY DEF WriteInv
  <1>4. CASE writer.nwritten = writer.allowed
    <2> DEFINE b == quota.last_throttle_bytes + writer.nwritten
    <2>1. /\ writer.nwritten >= 0 /\ b \in 0..TopRate /\ b \in Nat
          /\ b <= quota.throttle
      BY ThrottleFields, <1>2, <1>4, <1>10 DEF PushInv, StageInv, Pushing
    <2>2. /\ writer' = Moving(writer, "next", writer.nwritten)
          /\ quota' = [quota EXCEPT !.last_throttle_bytes = b]
      BY <1>4 DEF FirstPushed, Moving
    <2> HIDE DEF b
    <2>3. /\ writer' \in Writers
          /\ writer'.at = "next" /\ writer'.stage = writer.stage /\ writer'.len = writer.len
          /\ writer'.total = writer.nwritten /\ writer'.allowed = writer.allowed
          /\ writer'.nwritten = writer.nwritten /\ writer'.start = writer.start
      <3>1. "next" \in Steps /\ writer.nwritten \in Int
        BY ThrottleFields DEF Steps
      <3> QED
        BY ThrottleRecords, <2>2, <3>1, Moved
    <2>4. /\ quota' \in Quotas(second) /\ quota'.throttle = quota.throttle
          /\ quota'.last_throttle_time = quota.last_throttle_time
          /\ quota'.last_throttle_bytes = b /\ quota'.num_bytes_sent = quota.num_bytes_sent
      BY ThrottleFields, <2>1, <2>2 DEF Quotas
    <2>5. ThrottleTypeOK'
      BY ThrottleFields, <1>2, <1>3, <2>3, <2>4, TypeKept, ThrottleTyped DEF WriteInv
    <2> USE DEF b
    <2>11. PushInv'
      BY SMTT(30), ThrottleFields, <1>2, <1>3, <1>4, <1>10, <2>1, <2>3, <2>4
         DEF PushInv, StageInv, Pushing, Atleast0
    <2>12. StageInv'
      BY SMTT(30), ThrottleFields, <1>2, <1>3, <1>4, <1>10, <2>1, <2>3, <2>4
         DEF StageInv, PushInv, Pushing
    <2>13. BrokenInv'
      BY SMTT(30), ThrottleFields, <1>2, <1>3, <1>4, <1>10, <2>1, <2>3, <2>4
         DEF BrokenInv, Broken, LimitInv, PushInv, StageInv, Pushing, Atleast0
    <2>14. LimitInv'
      BY SMTT(30), ThrottleFields, <1>2, <1>3, <1>4, <1>10, <2>1, <2>3, <2>4
         DEF LimitInv, RateBounded, BrokenInv, Broken, Allowance, Pushing, Charged, Atleast0, PushInv, StageInv
    <2>15. CountInv'
      BY SMTT(30), ThrottleFields, <1>2, <1>3, <1>4, <1>10, <2>1, <2>3, <2>4
         DEF CountInv, BrokenInv, Broken, InHand, Atleast0, PushInv, StageInv, Pushing
    <2> QED
      BY <2>5, <2>11, <2>12, <2>13, <2>14, <2>15 DEF WriteInv
  <1>5. CASE writer.nwritten # writer.allowed
    <2>1. Return(writer.nwritten)
      BY <1>5 DEF FirstPushed
    <2>2. ReturnedAs(writer.nwritten)
      BY <2>1, ThrottleFields, Returned DEF ReturnedAs
    <2>5. ThrottleTypeOK'
      BY ThrottleFields, <1>2, <1>3, <2>2, TypeKept, ThrottleTyped DEF WriteInv, ReturnedAs
    <2>11. PushInv'
      BY SMTT(30), ThrottleFields, <1>2, <1>3, <1>5, <1>10, <2>2
         DEF ReturnedAs, PushInv, StageInv, Pushing, Atleast0
    <2>12. StageInv'
      BY SMTT(30), ThrottleFields, <1>2, <1>3, <1>5, <1>10, <2>2
         DEF ReturnedAs, StageInv, PushInv, Pushing
    <2>13. BrokenInv'
      BY SMTT(30), ThrottleFields, <1>2, <1>3, <1>5, <1>10, <2>2
         DEF ReturnedAs, BrokenInv, Broken, LimitInv, PushInv, StageInv, Pushing, Atleast0
    <2>14. LimitInv'
      BY SMTT(30), ThrottleFields, <1>2, <1>3, <1>5, <1>10, <2>2
         DEF ReturnedAs, LimitInv, RateBounded, BrokenInv, Broken, Allowance, Pushing, Charged, Atleast0, PushInv, StageInv
    <2>15. CountInv'
      BY SMTT(30), ThrottleFields, <1>2, <1>3, <1>5, <1>10, <2>2
         DEF ReturnedAs, CountInv, BrokenInv, Broken, InHand, Atleast0, PushInv, StageInv, Pushing
    <2> QED
      BY <2>5, <2>11, <2>12, <2>13, <2>14, <2>15 DEF WriteInv
  <1> QED
    BY <1>4, <1>5

\* ... a further part is within the rate ...
LEMMA NextPartKeeps == WriteInv /\ NextPart => WriteInv'
  <1> SUFFICES ASSUME WriteInv, NextPart PROVE WriteInv'
    OBVIOUS
  <1>2. writer.at = "next" /\ second' = second /\ socket' = socket /\ writes' = writes
    BY DEF NextPart
  <1>3. stop_flag' = stop_flag
    BY DEF NextPart
  <1>10. /\ PushInv /\ StageInv /\ BrokenInv /\ LimitInv /\ CountInv
    BY DEF WriteInv
  <1>4. CASE writer.total < writer.len /\ ~stop_flag
    <2> DEFINE m == Fewer(quota.throttle, writer.len - writer.total)
    <2>1. /\ m \in Int /\ m > 0 /\ m <= quota.throttle
      BY ThrottleFields, <1>2, <1>4, <1>10 DEF StageInv, Fewer
    <2>2. writer' = Push(writer, "parts", m) /\ quota' = quota /\ "parts" \in Stages
      BY <1>4 DEF NextPart, Stages
    <2> HIDE DEF m
    <2>3. /\ writer' \in Writers
          /\ writer'.at = "push_all" /\ writer'.stage = "parts" /\ writer'.len = writer.len
          /\ writer'.total = writer.total /\ writer'.allowed = m
          /\ writer'.nwritten = 0 /\ writer'.start = writer.start
      BY ThrottleRecords, <2>1, <2>2, PushStarts
    <2>5. ThrottleTypeOK'
      BY ThrottleFields, <1>2, <1>3, <2>2, <2>3, TypeKept, ThrottleTyped DEF WriteInv
    <2>11. PushInv'
      BY SMTT(30), ThrottleFields, <1>2, <1>3, <1>4, <1>10, <2>1, <2>2, <2>3
         DEF PushInv, StageInv, Pushing, Atleast0
    <2>12. StageInv'
      BY SMTT(30), ThrottleFields, <1>2, <1>3, <1>4, <1>10, <2>1, <2>2, <2>3
         DEF StageInv, PushInv, Pushing
    <2>13. BrokenInv'
      BY SMTT(30), ThrottleFields, <1>2, <1>3, <1>4, <1>10, <2>1, <2>2, <2>3
         DEF BrokenInv, Broken, LimitInv, PushInv, StageInv, Pushing, Atleast0
    <2>14. LimitInv'
      BY SMTT(30), ThrottleFields, <1>2, <1>3, <1>4, <1>10, <2>1, <2>2, <2>3
         DEF LimitInv, RateBounded, BrokenInv, Broken, Allowance, Pushing, Charged, Atleast0, PushInv, StageInv
    <2>15. CountInv'
      BY SMTT(30), ThrottleFields, <1>2, <1>3, <1>4, <1>10, <2>1, <2>2, <2>3
         DEF CountInv, BrokenInv, Broken, InHand, Atleast0, PushInv, StageInv, Pushing
    <2> QED
      BY <2>5, <2>11, <2>12, <2>13, <2>14, <2>15 DEF WriteInv
  <1>5. CASE ~(writer.total < writer.len /\ ~stop_flag)
    <2>1. Return(writer.total)
      BY <1>5 DEF NextPart
    <2>2. ReturnedAs(writer.total)
      BY <2>1, ThrottleFields, Returned DEF ReturnedAs
    <2>5. ThrottleTypeOK'
      BY ThrottleFields, <1>2, <1>3, <2>2, TypeKept, ThrottleTyped DEF WriteInv, ReturnedAs
    <2>11. PushInv'
      BY SMTT(30), ThrottleFields, <1>2, <1>3, <1>10, <2>2
         DEF ReturnedAs, PushInv, StageInv, Pushing, Atleast0
    <2>12. StageInv'
      BY SMTT(30), ThrottleFields, <1>2, <1>3, <1>10, <2>2
         DEF ReturnedAs, StageInv, PushInv, Pushing
    <2>13. BrokenInv'
      BY SMTT(30), ThrottleFields, <1>2, <1>3, <1>10, <2>2
         DEF ReturnedAs, BrokenInv, Broken, LimitInv, PushInv, StageInv, Pushing, Atleast0
    <2>14. LimitInv'
      BY SMTT(30), ThrottleFields, <1>2, <1>3, <1>10, <2>2
         DEF ReturnedAs, LimitInv, RateBounded, BrokenInv, Broken, Allowance, Pushing, Charged, Atleast0, PushInv, StageInv
    <2>15. CountInv'
      BY SMTT(30), ThrottleFields, <1>2, <1>3, <1>10, <2>2
         DEF ReturnedAs, CountInv, BrokenInv, Broken, InHand, Atleast0, PushInv, StageInv, Pushing
    <2> QED
      BY <2>5, <2>11, <2>12, <2>13, <2>14, <2>15 DEF WriteInv
  <1> QED
    BY <1>4, <1>5

\* ... and behind it mg_write sleeps, or returns.
LEMMA PartPushedKeeps == WriteInv /\ PartPushed => WriteInv'
  <1> SUFFICES ASSUME WriteInv, PartPushed PROVE WriteInv'
    OBVIOUS
  <1>2. /\ writer.at = "pushed" /\ writer.stage = "parts"
        /\ second' = second /\ socket' = socket /\ writes' = writes
    BY DEF PartPushed, Pushed
  <1>3. stop_flag' = stop_flag
    BY DEF PartPushed
  <1>10. /\ PushInv /\ StageInv /\ BrokenInv /\ LimitInv /\ CountInv
    BY DEF WriteInv
  <1>4. CASE writer.nwritten = writer.allowed
    <2>2. /\ writer' = Starting(writer, "sleep", second) /\ quota' = quota
          /\ "sleep" \in Steps /\ second \in Nat
      BY <1>4, ThrottleFields DEF PartPushed, Steps, Starting
    <2>3. /\ writer' \in Writers
          /\ writer'.at = "sleep" /\ writer'.stage = writer.stage /\ writer'.len = writer.len
          /\ writer'.total = writer.total /\ writer'.allowed = writer.allowed
          /\ writer'.nwritten = writer.nwritten /\ writer'.start = second
      BY ThrottleRecords, <2>2, Started
    <2>5. ThrottleTypeOK'
      BY ThrottleFields, <1>2, <1>3, <2>2, <2>3, TypeKept, ThrottleTyped DEF WriteInv
    <2>11. PushInv'
      BY SMTT(30), ThrottleFields, <1>2, <1>3, <1>4, <1>10, <2>2, <2>3
         DEF PushInv, StageInv, Pushing, Atleast0
    <2>12. StageInv'
      BY SMTT(30), ThrottleFields, <1>2, <1>3, <1>4, <1>10, <2>2, <2>3
         DEF StageInv, PushInv, Pushing
    <2>13. BrokenInv'
      BY SMTT(30), ThrottleFields, <1>2, <1>3, <1>4, <1>10, <2>2, <2>3
         DEF BrokenInv, Broken, LimitInv, PushInv, StageInv, Pushing, Atleast0
    <2>14. LimitInv'
      BY SMTT(30), ThrottleFields, <1>2, <1>3, <1>4, <1>10, <2>2, <2>3
         DEF LimitInv, RateBounded, BrokenInv, Broken, Allowance, Pushing, Charged, Atleast0, PushInv, StageInv
    <2>15. CountInv'
      BY SMTT(30), ThrottleFields, <1>2, <1>3, <1>4, <1>10, <2>2, <2>3
         DEF CountInv, BrokenInv, Broken, InHand, Atleast0, PushInv, StageInv, Pushing
    <2> QED
      BY <2>5, <2>11, <2>12, <2>13, <2>14, <2>15 DEF WriteInv
  <1>5. CASE writer.nwritten # writer.allowed
    <2>1. Return(writer.total)
      BY <1>5 DEF PartPushed
    <2>2. ReturnedAs(writer.total)
      BY <2>1, ThrottleFields, Returned DEF ReturnedAs
    <2>5. ThrottleTypeOK'
      BY ThrottleFields, <1>2, <1>3, <2>2, TypeKept, ThrottleTyped DEF WriteInv, ReturnedAs
    <2>11. PushInv'
      BY SMTT(30), ThrottleFields, <1>2, <1>3, <1>5, <1>10, <2>2
         DEF ReturnedAs, PushInv, StageInv, Pushing, Atleast0
    <2>12. StageInv'
      BY SMTT(30), ThrottleFields, <1>2, <1>3, <1>5, <1>10, <2>2
         DEF ReturnedAs, StageInv, PushInv, Pushing
    <2>13. BrokenInv'
      BY SMTT(30), ThrottleFields, <1>2, <1>3, <1>5, <1>10, <2>2
         DEF ReturnedAs, BrokenInv, Broken, LimitInv, PushInv, StageInv, Pushing, Atleast0
    <2>14. LimitInv'
      BY SMTT(30), ThrottleFields, <1>2, <1>3, <1>5, <1>10, <2>2
         DEF ReturnedAs, LimitInv, RateBounded, BrokenInv, Broken, Allowance, Pushing, Charged, Atleast0, PushInv, StageInv
    <2>15. CountInv'
      BY SMTT(30), ThrottleFields, <1>2, <1>3, <1>5, <1>10, <2>2
         DEF ReturnedAs, CountInv, BrokenInv, Broken, InHand, Atleast0, PushInv, StageInv, Pushing
    <2> QED
      BY <2>5, <2>11, <2>12, <2>13, <2>14, <2>15 DEF WriteInv
  <1> QED
    BY <1>4, <1>5

LEMMA UnchangedType ==
    ASSUME WriteInv, UNCHANGED <<second, stop_flag, writes>>
    PROVE  /\ second' = second /\ writes' = writes /\ stop_flag' \in BOOLEAN
  BY DEF WriteInv, ThrottleTypeOK

\* The loop of push_all.
LEMMA PushAllKeeps == WriteInv /\ push_all => WriteInv'
  <1> SUFFICES ASSUME WriteInv, push_all PROVE WriteInv'
    OBVIOUS
  <1>1. /\ writer.at = "push_all" /\ quota' = quota /\ socket' = socket
        /\ UNCHANGED <<second, stop_flag, writes>>
    BY DEF push_all
  <1>2. writer' \in Writers
    <2>1. CASE writer.nwritten < writer.allowed /\ ~stop_flag
      <3>1. writer' = Starting(writer, "send", second) /\ second \in Nat /\ "send" \in Steps
        BY <2>1, ThrottleFields DEF push_all, Starting, Steps
      <3> QED
        BY ThrottleRecords, <3>1, Started
    <2>2. CASE ~(writer.nwritten < writer.allowed /\ ~stop_flag)
      <3>1. writer' = [writer EXCEPT !.at = "pushed"]
        BY <2>2 DEF push_all
      <3> QED
        BY ThrottleRecords, <3>1 DEF Writers, Steps
    <2> QED
      BY <2>1, <2>2
  <1>9. ThrottleTypeOK'
    BY ThrottleRecords, <1>1, <1>2, UnchangedType, TypeKept
  <1> USE DEF WriteInv, push_all
  <1>11. PushInv'
    BY ThrottleFields, ThrottleAssumption, SMTT(30)
       DEF PushInv, StageInv, Pushing, Atleast0, ThrottleTypeOK
  <1>12. StageInv'
    BY ThrottleFields, ThrottleAssumption, SMTT(30) DEF StageInv, PushInv, Pushing, ThrottleTypeOK
  <1>13. BrokenInv'
    BY ThrottleFields, ThrottleAssumption, SMTT(30)
       DEF BrokenInv, Broken, LimitInv, PushInv, StageInv, Pushing, Atleast0, ThrottleTypeOK
  <1>14. LimitInv'
    BY ThrottleFields, ThrottleAssumption, SMTT(30)
       DEF LimitInv, RateBounded, BrokenInv, Broken, Allowance, Pushing, Charged, Atleast0,
           PushInv, StageInv, ThrottleTypeOK
  <1>15. CountInv'
    BY ThrottleFields, ThrottleAssumption, SMTT(30)
       DEF CountInv, BrokenInv, Broken, InHand, Atleast0, PushInv, StageInv, Pushing,
           ThrottleTypeOK
  <1> QED
    BY <1>9, <1>11, <1>12, <1>13, <1>14, <1>15 DEF WriteInv

\* An answer without a limit.
LEMMA WholePushedKeeps == WriteInv /\ WholePushed => WriteInv'
  <1> SUFFICES ASSUME WriteInv, WholePushed PROVE WriteInv'
    OBVIOUS
  <1>1. Return(writer.nwritten) /\ socket' = socket /\ UNCHANGED <<second, stop_flag, writes>>
    BY DEF WholePushed
  <1>2. ReturnedAs(writer.nwritten)
    BY <1>1, ThrottleFields, Returned DEF ReturnedAs
  <1>9. ThrottleTypeOK'
    BY ThrottleRecords, <1>1, <1>2, UnchangedType, TypeKept DEF ReturnedAs
  <1> USE DEF WriteInv, WholePushed, Pushed, Return
  <1>11. PushInv'
    BY ThrottleFields, ThrottleAssumption, SMTT(30)
       DEF PushInv, StageInv, Pushing, Atleast0, ThrottleTypeOK
  <1>12. StageInv'
    BY ThrottleFields, ThrottleAssumption, SMTT(30) DEF StageInv, PushInv, Pushing, ThrottleTypeOK
  <1>13. BrokenInv'
    BY ThrottleFields, ThrottleAssumption, SMTT(30)
       DEF BrokenInv, Broken, LimitInv, PushInv, StageInv, Pushing, Atleast0, ThrottleTypeOK
  <1>14. LimitInv'
    BY ThrottleFields, ThrottleAssumption, SMTT(30)
       DEF LimitInv, RateBounded, BrokenInv, Broken, Allowance, Pushing, Charged, Atleast0,
           PushInv, StageInv, ThrottleTypeOK
  <1>15. CountInv'
    BY ThrottleFields, ThrottleAssumption, SMTT(30)
       DEF CountInv, BrokenInv, Broken, InHand, Atleast0, PushInv, StageInv, Pushing,
           ThrottleTypeOK
  <1> QED
    BY <1>9, <1>11, <1>12, <1>13, <1>14, <1>15 DEF WriteInv

\* Nothing went out in the second that mg_write wakes in.
LEMMA WakeKeeps == WriteInv /\ Wake => WriteInv'
  <1> SUFFICES ASSUME WriteInv, Wake PROVE WriteInv'
    OBVIOUS
  <1> DEFINE b == writer.allowed
             n == writer.total + writer.nwritten
  <1>1. socket' = socket /\ UNCHANGED <<second, stop_flag, writes>>
    BY DEF Wake
  <1>2. b \in 0..TopRate /\ n \in Int /\ second \in 0..second
    BY ThrottleFields DEF WriteInv, StageInv, Wake
  <1>3. /\ quota' = [quota EXCEPT !.last_throttle_bytes = b, !.last_throttle_time = second]
        /\ writer' = Moving(writer, "next", n) /\ "next" \in Steps
    BY DEF Wake, Moving, Steps
  <1> HIDE DEF b, n
  <1>4. quota' \in Quotas(second)
    BY ThrottleRecords, <1>2, <1>3 DEF Quotas
  <1>5. writer' \in Writers
    BY ThrottleRecords, <1>2, <1>3, Moved
  <1>9. ThrottleTypeOK'
    BY ThrottleRecords, <1>1, <1>4, <1>5, UnchangedType, TypeKept
  <1> USE DEF WriteInv, Wake
  <1>11. PushInv'
    BY ThrottleFields, ThrottleAssumption, SMTT(30)
       DEF PushInv, StageInv, Pushing, Atleast0, ThrottleTypeOK
  <1>12. StageInv'
    BY ThrottleFields, ThrottleAssumption, SMTT(30) DEF StageInv, PushInv, Pushing, ThrottleTypeOK
  <1>13. BrokenInv'
    BY ThrottleFields, ThrottleAssumption, SMTT(30)
       DEF BrokenInv, Broken, LimitInv, PushInv, StageInv, Pushing, Atleast0, ThrottleTypeOK
  <1>14. LimitInv'
    BY ThrottleFields, ThrottleAssumption, SMTT(30)
       DEF LimitInv, RateBounded, BrokenInv, Broken, Allowance, Pushing, Charged, Atleast0,
           PushInv, StageInv, ThrottleTypeOK
  <1>15. CountInv'
    BY ThrottleFields, ThrottleAssumption, SMTT(30)
       DEF CountInv, BrokenInv, Broken, InHand, Atleast0, PushInv, StageInv, Pushing,
           ThrottleTypeOK
  <1> QED
    BY <1>9, <1>11, <1>12, <1>13, <1>14, <1>15 DEF WriteInv

\* A new client has been sent nothing yet, whatever the quota says ...
LEMMA NextClientKeeps == WriteInv /\ NextClient => WriteInv'
  <1> SUFFICES ASSUME WriteInv, NextClient PROVE WriteInv'
    OBVIOUS
  <1>1. writer' = writer /\ UNCHANGED <<second, stop_flag, writes>>
    BY DEF NextClient
  <1>2. socket' \in Sockets
    BY DEF NextClient, Sockets
  <1>3. quota' \in Quotas(second)
    <2>1. quota' = [quota EXCEPT !.throttle = 0, !.num_bytes_sent = 0] /\ 0 \in 0..TopRate
      BY ThrottleFields DEF NextClient
    <2> QED
      BY ThrottleRecords, <2>1 DEF Quotas
  <1>9. ThrottleTypeOK'
    BY ThrottleRecords, <1>1, <1>2, <1>3, UnchangedType, TypeKept
  <1> USE DEF WriteInv, NextClient
  <1>11. PushInv'
    BY ThrottleFields, ThrottleAssumption, SMTT(30)
       DEF PushInv, StageInv, Pushing, Atleast0, ThrottleTypeOK
  <1>12. StageInv'
    BY ThrottleFields, ThrottleAssumption, SMTT(30) DEF StageInv, PushInv, Pushing, ThrottleTypeOK
  <1>13. BrokenInv'
    BY ThrottleFields, ThrottleAssumption, SMTT(30)
       DEF BrokenInv, Broken, LimitInv, PushInv, StageInv, Pushing, Atleast0, ThrottleTypeOK
  <1>14. LimitInv'
    BY ThrottleFields, ThrottleAssumption, SMTT(30)
       DEF LimitInv, RateBounded, BrokenInv, Broken, Allowance, Pushing, Charged, Atleast0,
           PushInv, StageInv, ThrottleTypeOK
  <1>15. CountInv'
    BY ThrottleFields, ThrottleAssumption, SMTT(30)
       DEF CountInv, BrokenInv, Broken, InHand, Atleast0, PushInv, StageInv, Pushing,
           ThrottleTypeOK
  <1> QED
    BY <1>9, <1>11, <1>12, <1>13, <1>14, <1>15 DEF WriteInv

\* ... and a new request may have any rate.
LEMMA NextRequestKeeps == WriteInv /\ NextRequest => WriteInv'
  <1> SUFFICES ASSUME WriteInv, NextRequest PROVE WriteInv'
    OBVIOUS
  <1>1. writer' = writer /\ UNCHANGED <<second, stop_flag, writes>>
    BY DEF NextRequest
  <1>2. socket' \in Sockets
    <2>1. socket' = [socket EXCEPT !.taken = 0, !.cut = FALSE]
      BY DEF NextRequest
    <2> QED
      BY ThrottleRecords, <2>1 DEF Sockets
  <1>3. quota' \in Quotas(second)
    <2>1. PICK rate \in {0} \cup {set_throttle(uri) : uri \in ThrottleUris} :
             quota' = [quota EXCEPT !.throttle = rate, !.num_bytes_sent = 0]
      BY DEF NextRequest
    <2>2. rate \in 0..TopRate
      BY <2>1, ThrottleFields, RateType
    <2> QED
      BY ThrottleRecords, <2>1, <2>2 DEF Quotas
  <1>9. ThrottleTypeOK'
    BY ThrottleRecords, <1>1, <1>2, <1>3, UnchangedType, TypeKept
  <1> USE DEF WriteInv, NextRequest
  <1>11. PushInv'
    BY ThrottleFields, ThrottleAssumption, SMTT(30)
       DEF PushInv, StageInv, Pushing, Atleast0, ThrottleTypeOK
  <1>12. StageInv'
    BY ThrottleFields, ThrottleAssumption, SMTT(30) DEF StageInv, PushInv, Pushing, ThrottleTypeOK
  <1>13. BrokenInv'
    BY ThrottleFields, ThrottleAssumption, SMTT(30)
       DEF BrokenInv, Broken, LimitInv, PushInv, StageInv, Pushing, Atleast0, ThrottleTypeOK
  <1>14. LimitInv'
    BY ThrottleFields, ThrottleAssumption, SMTT(30)
       DEF LimitInv, RateBounded, BrokenInv, Broken, Allowance, Pushing, Charged, Atleast0,
           PushInv, StageInv, ThrottleTypeOK
  <1>15. CountInv'
    BY ThrottleFields, ThrottleAssumption, SMTT(30)
       DEF CountInv, BrokenInv, Broken, InHand, Atleast0, PushInv, StageInv, Pushing,
           ThrottleTypeOK
  <1> QED
    BY <1>9, <1>11, <1>12, <1>13, <1>14, <1>15 DEF WriteInv

\* The server is told to stop.
LEMMA StopKeeps == WriteInv /\ Stop => WriteInv'
  <1> SUFFICES ASSUME WriteInv, Stop PROVE WriteInv'
    OBVIOUS
  <1>9. ThrottleTypeOK'
    BY DEF WriteInv, ThrottleTypeOK, Stop
  <1> USE DEF WriteInv, Stop
  <1>11. PushInv'
    BY ThrottleFields, ThrottleAssumption, SMTT(30)
       DEF PushInv, StageInv, Pushing, Atleast0, ThrottleTypeOK
  <1>12. StageInv'
    BY ThrottleFields, ThrottleAssumption, SMTT(30) DEF StageInv, PushInv, Pushing, ThrottleTypeOK
  <1>13. BrokenInv'
    BY ThrottleFields, ThrottleAssumption, SMTT(30)
       DEF BrokenInv, Broken, LimitInv, PushInv, StageInv, Pushing, Atleast0, ThrottleTypeOK
  <1>14. LimitInv'
    BY ThrottleFields, ThrottleAssumption, SMTT(30)
       DEF LimitInv, RateBounded, BrokenInv, Broken, Allowance, Pushing, Charged, Atleast0,
           PushInv, StageInv, ThrottleTypeOK
  <1>15. CountInv'
    BY ThrottleFields, ThrottleAssumption, SMTT(30)
       DEF CountInv, BrokenInv, Broken, InHand, Atleast0, PushInv, StageInv, Pushing,
           ThrottleTypeOK
  <1> QED
    BY <1>9, <1>11, <1>12, <1>13, <1>14, <1>15 DEF WriteInv

\* A new second.
LEMMA TickKeeps == WriteInv /\ Tick => WriteInv'
  <1> SUFFICES ASSUME WriteInv, Tick PROVE WriteInv'
    OBVIOUS
  <1>1. /\ quota' = quota /\ writer' = writer /\ writes' = writes /\ second' = second + 1
        /\ second < MaxSeconds /\ socket' = [socket EXCEPT !.limited = 0]
    BY DEF Tick
  <1>2. stop_flag' = stop_flag
    BY DEF Tick
  <1>3. socket' \in Sockets /\ socket'.limited = 0 /\ socket'.taken = socket.taken
    BY ThrottleRecords, <1>1 DEF Sockets
  <1>9. ThrottleTypeOK'
    <2>1. second' \in 0..MaxSeconds /\ Quotas(second) \subseteq Quotas(second')
      BY ThrottleFields, <1>1 DEF Quotas
    <2> QED
      BY ThrottleRecords, ThrottleTyped, ThrottleTypedNext, <1>1, <1>2, <1>3, <2>1 DEF WriteInv
  <1>8. LimitInv'
    <2>1. Allowance' >= 0 /\ RateBounded'
      BY ThrottleFields, <1>1, <1>3, ThrottleTypedNext
         DEF Allowance, Charged, Atleast0, RateBounded, Pushing
    <2> QED
      BY ThrottleFields, <1>1, <1>3, <2>1 DEF LimitInv
  <1> USE DEF WriteInv, Tick
  <1>11. PushInv'
    BY ThrottleFields, ThrottleAssumption, SMTT(30)
       DEF PushInv, StageInv, Pushing, Atleast0, ThrottleTypeOK
  <1>12. StageInv'
    BY ThrottleFields, ThrottleAssumption, SMTT(30) DEF StageInv, PushInv, Pushing, ThrottleTypeOK
  <1>13. BrokenInv'
    BY ThrottleFields, ThrottleAssumption, SMTT(30)
       DEF BrokenInv, Broken, LimitInv, PushInv, StageInv, Pushing, Atleast0, ThrottleTypeOK
  <1>15. CountInv'
    BY ThrottleFields, ThrottleAssumption, SMTT(30)
       DEF CountInv, BrokenInv, Broken, InHand, Atleast0, PushInv, StageInv, Pushing,
           ThrottleTypeOK
  <1> QED
    BY <1>9, <1>11, <1>12, <1>13, <1>15, <1>8 DEF WriteInv

\* mg_write begins with what is left of the quota.
LEMMA MgWriteKeeps == WriteInv /\ mg_write => WriteInv'
  <1> SUFFICES ASSUME WriteInv, mg_write PROVE WriteInv'
    OBVIOUS
  <1>1. /\ writer.at = "idle" /\ writes < MaxWrites /\ writes' = writes + 1
        /\ second' = second /\ socket' = socket
    BY DEF mg_write
  <1>2. stop_flag' = stop_flag
    BY DEF mg_write
  <1> DEFINE bytes == IF second # quota.last_throttle_time THEN 0 ELSE quota.last_throttle_bytes
             first == quota.throttle - bytes
  <1>3. /\ bytes \in 0..TopRate /\ bytes \in Nat /\ first \in Int
        /\ first + bytes = quota.throttle
    BY ThrottleFields
  <1>4. PICK len \in WriteSizes :
          IF quota.throttle > 0
          THEN /\ quota' = Charging(quota, second, bytes)
               /\ writer' = Push(Asking(writer, len, 0), "first", Fewer(first, len))
          ELSE writer' = Push(Asking(writer, len, 0), "whole", len) /\ quota' = quota
    <2>1. CASE second # quota.last_throttle_time
      <3>1. Charging(quota, second, 0).last_throttle_bytes = 0
        BY ThrottleRecords, ThrottleFields, ChargedAs
      <3> QED
        BY <2>1, <3>1 DEF mg_write, Charging, Asking
    <2>2. CASE second = quota.last_throttle_time
      <3>1. quota = Charging(quota, second, bytes)
        BY ThrottleRecords, <2>2 DEF Quotas, Charging
      <3>2. bytes = quota.last_throttle_bytes
        BY <2>2
      <3> HIDE DEF bytes
      <3> QED
        BY <2>2, <3>1, <3>2 DEF mg_write, Asking
    <2> QED
      BY <2>1, <2>2
  <1> DEFINE w == Asking(writer, len, 0)
             a == Fewer(first, len)
  <1>5. len \in Nat /\ w \in Writers /\ w.total = 0 /\ w.start = writer.start
    <2>1. len \in Nat /\ 0 \in Int
      BY ThrottleAssumption
    <2> QED
      BY ThrottleRecords, <2>1, AskedFor
  <1>9. bytes = IF second # quota.last_throttle_time THEN 0 ELSE quota.last_throttle_bytes
    OBVIOUS
  <1> HIDE DEF bytes
  <1>8. a \in Int /\ a + bytes <= quota.throttle
    BY ThrottleFields, <1>3, <1>5 DEF Fewer
  <1> HIDE DEF w, a, first
  <1>10. /\ PushInv /\ StageInv /\ BrokenInv /\ LimitInv /\ CountInv
    BY DEF WriteInv
  <1>6. CASE quota.throttle > 0
    <2>1. /\ quota' \in Quotas(second) /\ quota'.throttle = quota.throttle
          /\ quota'.last_throttle_time = second /\ quota'.last_throttle_bytes = bytes
          /\ quota'.num_bytes_sent = quota.num_bytes_sent
      <3>1. quota' = Charging(quota, second, bytes) /\ second \in Nat
        BY ThrottleFields, <1>4, <1>6
      <3> QED
        BY ThrottleRecords, <1>3, <3>1, ChargedAs
    <2>2. writer' = Push(w, "first", a) /\ "first" \in Stages
      BY <1>4, <1>6 DEF w, a, Stages
    <2>3. /\ writer' \in Writers /\ writer'.at = "push_all" /\ writer'.stage = "first"
          /\ writer'.total = w.total /\ writer'.allowed = a /\ writer'.nwritten = 0
          /\ writer'.start = w.start
      BY <1>5, <1>8, <2>2, PushStarts
    <2>5. ThrottleTypeOK'
      <3>1. second' \in 0..MaxSeconds /\ writes' \in 0..MaxWrites
        <4>1. MaxWrites \in Nat
          BY ThrottleAssumption
        <4> QED
          BY ThrottleFields, <1>1, <4>1
      <3>2. stop_flag' \in BOOLEAN
        BY <1>2, ThrottleTyped DEF WriteInv
      <3> QED
        BY ThrottleRecords, ThrottleTypedNext, <1>1, <2>1, <2>3, <3>1, <3>2
    <2>11. PushInv'
      BY SMTT(30), ThrottleFields, <1>1, <1>2, <1>3, <1>5, <1>6, <1>8, <1>9, <1>10, <2>1, <2>3
         DEF PushInv, StageInv, Pushing, Atleast0
    <2>12. StageInv'
      BY SMTT(30), ThrottleFields, <1>1, <1>2, <1>3, <1>5, <1>6, <1>8, <1>9, <1>10, <2>1, <2>3
         DEF StageInv, PushInv, Pushing
    <2>13. BrokenInv'
      BY SMTT(30), ThrottleFields, <1>1, <1>2, <1>3, <1>5, <1>6, <1>8, <1>9, <1>10, <2>1, <2>3
         DEF BrokenInv, Broken, LimitInv, PushInv, StageInv, Pushing, Atleast0
    <2>14. LimitInv'
      BY SMTT(30), ThrottleFields, <1>1, <1>2, <1>3, <1>5, <1>6, <1>8, <1>9, <1>10, <2>1, <2>3
         DEF LimitInv, RateBounded, BrokenInv, Broken, Allowance, Pushing, Charged, Atleast0, PushInv, StageInv
    <2>15. CountInv'
      BY SMTT(30), ThrottleFields, <1>1, <1>2, <1>3, <1>5, <1>6, <1>8, <1>9, <1>10, <2>1, <2>3
         DEF CountInv, BrokenInv, Broken, InHand, Atleast0, PushInv, StageInv, Pushing
    <2> QED
      BY <2>5, <2>11, <2>12, <2>13, <2>14, <2>15 DEF WriteInv
  <1>7. CASE ~(quota.throttle > 0)
    <2>1. quota' = quota /\ quota.throttle = 0
      BY ThrottleFields, <1>4, <1>7
    <2>2. writer' = Push(w, "whole", len) /\ len \in Int /\ "whole" \in Stages
      BY <1>4, <1>5, <1>7 DEF w, Stages
    <2>3. /\ writer' \in Writers /\ writer'.at = "push_all" /\ writer'.stage = "whole"
          /\ writer'.total = w.total /\ writer'.allowed = len /\ writer'.nwritten = 0
          /\ writer'.start = w.start
      BY <1>5, <2>2, PushStarts
    <2>5. ThrottleTypeOK'
      <3>1. second' \in 0..MaxSeconds /\ writes' \in 0..MaxWrites
        <4>1. MaxWrites \in Nat
          BY ThrottleAssumption
        <4> QED
          BY ThrottleFields, <1>1, <4>1
      <3>2. stop_flag' \in BOOLEAN
        BY <1>2, ThrottleTyped DEF WriteInv
      <3> QED
        BY ThrottleRecords, ThrottleTypedNext, <1>1, <2>1, <2>3, <3>1, <3>2
    <2>11. PushInv'
      BY SMTT(30), ThrottleFields, <1>1, <1>2, <1>5, <1>10, <2>1, <2>3
         DEF PushInv, StageInv, Pushing, Atleast0
    <2>12. StageInv'
      BY SMTT(30), ThrottleFields, <1>1, <1>2, <1>5, <1>10, <2>1, <2>3
         DEF StageInv, PushInv, Pushing
    <2>13. BrokenInv'
      BY SMTT(30), ThrottleFields, <1>1, <1>2, <1>5, <1>10, <2>1, <2>3
         DEF BrokenInv, Broken, LimitInv, PushInv, StageInv, Pushing, Atleast0
    <2>14. LimitInv'
      BY SMTT(30), ThrottleFields, <1>1, <1>2, <1>5, <1>10, <2>1, <2>3
         DEF LimitInv, RateBounded, BrokenInv, Broken, Allowance, Pushing, Charged, Atleast0, PushInv, StageInv
    <2>15. CountInv'
      BY SMTT(30), ThrottleFields, <1>1, <1>2, <1>5, <1>10, <2>1, <2>3
         DEF CountInv, BrokenInv, Broken, InHand, Atleast0, PushInv, StageInv, Pushing
    <2> QED
      BY <2>5, <2>11, <2>12, <2>13, <2>14, <2>15 DEF WriteInv
  <1> QED
    BY <1>6, <1>7

\* The invariant holds in the beginning ...
LEMMA WriteStarts == ThrottleInit => WriteInv
  <1> SUFFICES ASSUME ThrottleInit PROVE WriteInv
    OBVIOUS
  <1>1. /\ second = 0 /\ writes = 0 /\ stop_flag = FALSE
        /\ quota.throttle = 0 /\ quota.last_throttle_time = 0 /\ quota.last_throttle_bytes = 0
        /\ quota.num_bytes_sent = 0
        /\ writer.at = "idle" /\ writer.total = 0 /\ writer.nwritten = 0 /\ writer.start = 0
        /\ socket.taken = 0 /\ socket.limited = 0
    BY DEF ThrottleInit
  <1>2. quota \in Quotas(second) /\ writer \in Writers /\ socket \in Sockets
    BY ThrottleAssumption DEF ThrottleInit, Quotas, Writers, Sockets, Steps, Stages
  <1>3. ThrottleTypeOK
    <2>1. stop_flag \in BOOLEAN
      BY <1>1
    <2>2. MaxSeconds \in Nat /\ MaxWrites \in Nat
      BY ThrottleAssumption
    <2>3. second \in 0..MaxSeconds /\ writes \in 0..MaxWrites
      BY <1>1, <2>2
    <2> QED
      BY <1>2, <2>1, <2>3, ThrottleTyped
  <1>4. PushInv /\ StageInv /\ BrokenInv
    BY <1>1 DEF PushInv, StageInv, BrokenInv, Broken, Pushing
  <1>5. LimitInv /\ CountInv
    BY <1>1, ThrottleAssumption DEF LimitInv, CountInv, Allowance, Charged, InHand, Pushing, RateBounded
  <1> QED
    BY <1>3, <1>4, <1>5 DEF WriteInv

\* ... and every step keeps it ...
LEMMA WriteKeeps == WriteInv /\ [ThrottleNext]_throttleVars => WriteInv'
  <1> SUFFICES ASSUME WriteInv, [ThrottleNext]_throttleVars PROVE WriteInv'
    OBVIOUS
  <1>1. CASE UNCHANGED throttleVars
    BY <1>1
       DEF throttleVars, WriteInv, ThrottleTypeOK, PushInv, StageInv, BrokenInv, LimitInv,
           CountInv, Pushing, Broken, Allowance, Charged, RateBounded, InHand
  <1> QED
    BY <1>1, MgWriteKeeps, PushAllKeeps, SendKeeps, SendFailsKeeps, WholePushedKeeps, FirstPushedKeeps,
       NextPartKeeps, PartPushedKeeps, WakeKeeps, NextClientKeeps, NextRequestKeeps, TickKeeps, StopKeeps
       DEF ThrottleNext, Writing, TimeOver

\* ... and it is strong enough.
LEMMA WriteCounts == WriteInv => ThrottleInv
  <1> SUFFICES ASSUME WriteInv PROVE ThrottleInv
    OBVIOUS
  <1>1. SentCounted
    BY ThrottleFields DEF WriteInv, CountInv, InHand, SentCounted, Atleast0, PushInv
  <1> QED
    BY <1>1 DEF WriteInv, LimitInv, ThrottleInv

\* No more than three times the highest rate goes out in a second, and num_bytes_sent counts what was
\* sent, for every throttle option, every sequence of clients, requests and writes, and however the
\* client takes the bytes (mg_write).
THEOREM RateNeverTripled == ThrottleSpec => []ThrottleInv
  BY WriteStarts, WriteKeeps, WriteCounts, PTL DEF ThrottleSpec
=============================================================================
