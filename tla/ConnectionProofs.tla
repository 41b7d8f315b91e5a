-------------------------- MODULE ConnectionProofs --------------------------
(***************************************************************************)
(* Theorems about Connection, for every client: any number of messages of  *)
(* any length, any buffer, any sizes a handler reads in.                   *)
(***************************************************************************)
EXTENDS Connection, FiniteSetTheorems, SequenceTheorems, WellFoundedInduction, TLAPS

-----------------------------------------------------------------------------
(* Numbers and loops.                                                      *)

\* A set of numbers has a smallest element.
LEMMA LeastExists ==
    ASSUME NEW T, T \subseteq Nat, T # {}
    PROVE  \E m \in T : \A n \in T : m <= n
  <1>1. PICK m \in T : \A n \in T : ~ (<<n, m>> \in OpToRel(<, Nat))
    BY NatLessThanWellFounded, WFMin
  <1>2. \A n \in T : <<n, m>> \in OpToRel(<, Nat) <=> n < m
    BY Zenon DEF OpToRel
  <1>3. \A n \in T : ~ (n < m)
    BY <1>1, <1>2, Zenon
  <1>4. \A n \in T : n \in Int
    OBVIOUS
  <1>5. \A n \in T : m <= n
    BY <1>3, <1>4
  <1> QED
    BY <1>5

\* What Least gives.
LEMMA LeastIs ==
    ASSUME NEW T, T \subseteq Nat, T # {}
    PROVE  Least(T) \in T /\ \A n \in T : Least(T) <= n
  BY LeastExists DEF Least

\* What every turn of a loop keeps holds after all of them.
LEMMA LoopInvariant ==
    ASSUME NEW n \in Nat, NEW turn, NEW I, turn[0] \subseteq I,
           \A k \in 1..n : turn[k - 1] \subseteq I => turn[k] \subseteq I
    PROVE  turn[n] \subseteq I
  <1> DEFINE Bad == {k \in 0..n : ~ (turn[k] \subseteq I)}
  <1> SUFFICES ASSUME n \in Bad PROVE FALSE
    OBVIOUS
  <1>1. PICK k \in Bad : \A j \in Bad : k <= j
    <2>1. Bad \subseteq Nat
      OBVIOUS
    <2> HIDE DEF Bad
    <2> QED
      BY <2>1, LeastExists
  <1>2. k \in 1..n
    OBVIOUS
  <1>3. k - 1 \in 0..n /\ k - 1 \notin Bad
    BY <1>1, <1>2
  <1> QED
    BY <1>2, <1>3

-----------------------------------------------------------------------------
(* Sequences put together.                                                 *)

\* f is what the first i sequences make together: the equation of FlattenSeq.
Flattening(f, seqs, n) ==
    f = [i \in 1..n |-> IF i = 1 THEN seqs[i] ELSE f[i - 1] \o seqs[i]]

\* There is one for every number of sequences.
LEMMA FlatteningExists ==
    ASSUME NEW seqs, NEW n \in Nat
    PROVE  \E f : Flattening(f, seqs, n)
  <1> DEFINE Bad == {k \in Nat : ~ \E f : Flattening(f, seqs, k)}
  <1> SUFFICES ASSUME Bad # {} PROVE FALSE
    OBVIOUS
  <1>1. PICK k \in Bad : \A j \in Bad : k <= j
    <2>1. Bad \subseteq Nat
      OBVIOUS
    <2> HIDE DEF Bad
    <2> QED
      BY <2>1, LeastExists
  <1>2. k # 0
    <2>1. Flattening([i \in 1..0 |-> << >>], seqs, 0)
      BY DEF Flattening
    <2> QED
      BY <2>1
  <1>3. PICK f : Flattening(f, seqs, k - 1)
    <2>1. k - 1 \in Nat /\ k - 1 \notin Bad
      BY <1>1, <1>2
    <2> QED
      BY <2>1
  <1> DEFINE Step(h, i) == IF i = 1 THEN seqs[i] ELSE h[i - 1] \o seqs[i]
             g == [i \in 1..k |-> IF i = k THEN Step(f, k) ELSE f[i]]
             h == [i \in 1..k |-> Step(g, i)]
  <1>4. k \in Nat
    OBVIOUS
  <1>5. \A i \in 1..k : g[i] = h[i]
    <2> TAKE i \in 1..k
    <2>1. i - 1 \in 1..k - 1 => g[i - 1] = f[i - 1]
      BY <1>4
    <2>2. CASE i = k
      <3>1. i # 1 => i - 1 \in 1..k - 1
        BY <1>4, <2>2
      <3> QED
        BY <1>4, <2>1, <2>2, <3>1
    <2>3. CASE i # k
      <3>1. i \in 1..k - 1 /\ (i # 1 => i - 1 \in 1..k - 1)
        BY <1>4, <2>3
      <3>2. f[i] = Step(f, i)
        BY <1>3, <3>1 DEF Flattening
      <3> QED
        BY <2>1, <2>3, <3>1, <3>2
    <2> QED
      BY <2>2, <2>3
  <1>6. DOMAIN g = 1..k /\ DOMAIN h = 1..k /\ g = [i \in 1..k |-> g[i]] /\ h = [i \in 1..k |-> h[i]]
    OBVIOUS
  <1>7. g = h
    <2> HIDE DEF g, h
    <2> QED
      BY <1>5, <1>6
  <1>8. Flattening(g, seqs, k)
    BY <1>7 DEF Flattening
  <1> QED
    BY <1>8

\* s consists of seqs, the i-th one behind position off[i].
Segments(s, seqs, off) ==
    /\ off \in [1..Len(seqs) + 1 -> Nat] /\ off[1] = 0 /\ off[Len(seqs) + 1] = Len(s)
    /\ \A i \in 1..Len(seqs) : off[i + 1] = off[i] + Len(seqs[i])
    /\ \A i \in 1..Len(seqs) : \A j \in 1..Len(seqs[i]) : s[off[i] + j] = seqs[i][j]

\* Positions in the first or in the second of two sequences.
LEMMA Positions2 ==
    ASSUME NEW a \in Nat, NEW b \in Nat
    PROVE  /\ \A j \in 1..b : a + j \in 1..a + b /\ ~ (a + j <= a) /\ (a + j) - a = j
           /\ \A j \in 1..a : j \in 1..a + b /\ j <= a
  OBVIOUS

\* Two sequences one behind the other, by position.
LEMMA Concat2 ==
    ASSUME NEW T, NEW s1 \in Seq(T), NEW s2 \in Seq(T)
    PROVE  /\ s1 \o s2 \in Seq(T) /\ Len(s1) \in Nat /\ Len(s2) \in Nat
           /\ Len(s1 \o s2) = Len(s1) + Len(s2)
           /\ \A i \in 1..Len(s1) : (s1 \o s2)[i] = s1[i]
           /\ \A j \in 1..Len(s2) : (s1 \o s2)[Len(s1) + j] = s2[j]
  <1>1. Len(s1) \in Nat /\ Len(s2) \in Nat
    OBVIOUS
  <1>2. /\ s1 \o s2 \in Seq(T) /\ Len(s1 \o s2) = Len(s1) + Len(s2)
        /\ \A i \in 1..Len(s1) + Len(s2) :
              (s1 \o s2)[i] = IF i <= Len(s1) THEN s1[i] ELSE s2[i - Len(s1)]
    BY ConcatProperties
  <1>3. \A j \in 1..Len(s2) : (s1 \o s2)[Len(s1) + j] = s2[j]
    BY <1>1, <1>2, Positions2
  <1> QED
    BY <1>1, <1>2, <1>3, Positions2

\* A function on 1..n is a sequence of length n.
LEMMA FunctionIsSeq ==
    ASSUME NEW T, NEW n \in Nat, NEW f \in [1..n -> T]
    PROVE  f \in Seq(T) /\ Len(f) = n /\ \A i \in 1..n : f[i] \in T
  OBVIOUS

\* FlattenSeq puts the sequences one behind the other.
LEMMA FlattenSegments ==
    ASSUME NEW T, NEW seqs \in Seq(Seq(T))
    PROVE  /\ FlattenSeq(seqs) \in Seq(T)
           /\ \E off : Segments(FlattenSeq(seqs), seqs, off)
  <1>1. CASE Len(seqs) = 0
    <2>1. FlattenSeq(seqs) = << >> /\ seqs = << >>
      BY <1>1 DEF FlattenSeq
    <2>2. Segments(<< >>, << >>, [i \in 1..1 |-> 0])
      BY DEF Segments
    <2> QED
      BY <2>1, <2>2
  <1>2. CASE Len(seqs) # 0
    <2> DEFINE n == Len(seqs)
               f == CHOOSE f : Flattening(f, seqs, n)
    <2>1. n \in Nat \ {0} /\ \A i \in 1..n : seqs[i] \in Seq(T)
      BY <1>2
    <2>2. FlattenSeq(seqs) = f[n]
      BY <1>2 DEF FlattenSeq, Flattening
    <2>3. Flattening(f, seqs, n)
      BY <2>1, FlatteningExists
    <2>4. \A i \in 1..n : f[i] = IF i = 1 THEN seqs[i] ELSE f[i - 1] \o seqs[i]
      BY <2>3 DEF Flattening
    <2> HIDE DEF f, n
    <2> DEFINE off == [i \in 1..n + 1 |-> IF i = 1 THEN 0 ELSE Len(f[i - 1])]
    <2>5. /\ DOMAIN off = 1..n + 1 /\ off = [i \in 1..n + 1 |-> off[i]]
          /\ off[1] = 0 /\ \A i \in 1..n + 1 : i # 1 => off[i] = Len(f[i - 1])
      <3>1. 1 \in 1..n + 1
        BY <2>1
      <3> QED
        BY <3>1
    <2> HIDE DEF off
    <2> DEFINE Good(i) == /\ f[i] \in Seq(T)
                          /\ \A a \in 1..i : \A j \in 1..Len(seqs[a]) :
                                off[a] + j \in 1..Len(f[i]) /\ f[i][off[a] + j] = seqs[a][j]
    <2>6. Good(1)
      <3>1. f[1] = seqs[1] /\ 1 \in 1..n
        BY <2>1, <2>4
      <3>2. seqs[1] \in Seq(T) /\ \A j \in 1..Len(seqs[1]) : 0 + j = j
        BY <2>1, <3>1
      <3> QED
        BY <2>1, <2>5, <3>1, <3>2
    <2>7. ASSUME NEW i \in 1..n, i # 1, Good(i - 1) PROVE Good(i)
      <3>1. i - 1 \in 1..n /\ i \in 1..n + 1
        BY <2>1, <2>7
      <3>2. f[i] = f[i - 1] \o seqs[i] /\ off[i] = Len(f[i - 1]) /\ seqs[i] \in Seq(T)
        BY <2>1, <2>4, <2>5, <2>7, <3>1
      <3>3. f[i - 1] \in Seq(T) /\ Len(f[i - 1]) \in Nat /\ Len(seqs[i]) \in Nat
        BY <2>1, <2>7, <3>2
      <3>4. f[i] \in Seq(T) /\ Len(f[i]) = Len(f[i - 1]) + Len(seqs[i])
        BY <2>1, <3>2, <3>3
      <3>5. ASSUME NEW a \in 1..i, NEW j \in 1..Len(seqs[a])
            PROVE  off[a] + j \in 1..Len(f[i]) /\ f[i][off[a] + j] = seqs[a][j]
        <4>1. CASE a = i
          <5>1. j \in 1..Len(seqs[i]) /\ off[a] = Len(f[i - 1])
            BY <2>1, <3>2, <4>1
          <5>2. Len(f[i - 1]) + j \in 1..Len(f[i - 1]) + Len(seqs[i])
            BY <3>3, <5>1, Positions2
          <5>3. (f[i - 1] \o seqs[i])[Len(f[i - 1]) + j] = seqs[i][j]
            BY <3>2, <3>3, <5>1, <5>2, ConcatProperties, Positions2
          <5> QED
            BY <2>1, <3>2, <3>4, <4>1, <5>1, <5>2, <5>3
        <4>2. CASE a # i
          <5>1. a \in 1..i - 1
            BY <2>1, <3>1, <4>2
          <5>2. off[a] + j \in 1..Len(f[i - 1]) /\ f[i - 1][off[a] + j] = seqs[a][j]
            BY <2>1, <2>7, <5>1
          <5>3. off[a] + j \in 1..Len(f[i - 1]) + Len(seqs[i])
            BY <3>3, <5>2, Positions2
          <5>4. (f[i - 1] \o seqs[i])[off[a] + j] = f[i - 1][off[a] + j]
            BY <3>2, <3>3, <5>2, <5>3, ConcatProperties, Positions2
          <5> QED
            BY <2>1, <3>2, <3>4, <5>2, <5>3, <5>4
        <4> QED
          BY <2>1, <4>1, <4>2
      <3> QED
        BY <2>1, <3>4, <3>5
    <2>8. ASSUME NEW i \in 1..n PROVE Good(i)
      <3> HIDE DEF Good
      <3> DEFINE Bad == {k \in 1..n : ~ Good(k)}
      <3> SUFFICES ASSUME i \in Bad PROVE FALSE
        OBVIOUS
      <3>1. PICK k \in Bad : \A j \in Bad : k <= j
        <4>1. Bad \subseteq Nat
          OBVIOUS
        <4> HIDE DEF Bad
        <4> QED
          BY <4>1, LeastExists
      <3>2. k \in 1..n /\ k # 1 /\ ~ Good(k)
        BY <2>6
      <3>3. k - 1 \in 1..n /\ k - 1 \notin Bad
        BY <2>1, <3>1, <3>2
      <3> QED
        BY <2>7, <3>2, <3>3
    <2>9. \A i \in 1..n : f[i] \in Seq(T) /\ Len(f[i]) \in Nat
      BY <2>8
    <2>10. off \in [1..n + 1 -> Nat] /\ off[n + 1] = Len(f[n])
      <3>1. ASSUME NEW i \in 1..n + 1 PROVE off[i] \in Nat
        <4>1. i # 1 => i - 1 \in 1..n
          BY <2>1
        <4> QED
          BY <2>5, <2>9, <4>1
      <3>2. n + 1 \in 1..n + 1 /\ n + 1 # 1 /\ (n + 1) - 1 = n
        BY <2>1
      <3>3. off[n + 1] = Len(f[(n + 1) - 1])
        BY <2>5, <3>2
      <3> QED
        BY <2>5, <3>1, <3>2, <3>3
    <2>11. ASSUME NEW i \in 1..n PROVE off[i + 1] = off[i] + Len(seqs[i])
      <3>a. i + 1 \in 1..n + 1 /\ i + 1 # 1 /\ (i + 1) - 1 = i
        BY <2>1
      <3>b. off[i + 1] = Len(f[(i + 1) - 1])
        BY <2>5, <3>a
      <3>c. off[i + 1] = Len(f[i])
        BY <3>a, <3>b
      <3>d. Len(seqs[i]) \in Nat /\ Len(f[i]) \in Nat
        BY <2>1, <2>9
      <3>1. CASE i = 1
        <4>1. f[i] = seqs[i] /\ off[i] = 0
          BY <2>1, <2>4, <2>5, <3>1
        <4> QED
          BY <3>c, <3>d, <4>1
      <3>2. CASE i # 1
        <4>1. i - 1 \in 1..n /\ i \in 1..n + 1 /\ off[i] = Len(f[i - 1])
          BY <2>1, <2>5, <3>2
        <4>2. f[i] = f[i - 1] \o seqs[i] /\ f[i - 1] \in Seq(T) /\ seqs[i] \in Seq(T)
          BY <2>1, <2>4, <2>9, <3>2, <4>1
        <4> QED
          BY <3>c, <4>1, <4>2, ConcatProperties
      <3> QED
        BY <3>1, <3>2
    <2>12. \A i \in 1..n : \A j \in 1..Len(seqs[i]) : f[n][off[i] + j] = seqs[i][j]
      <3>1. n \in 1..n
        BY <2>1
      <3>2. Good(n)
        BY <2>8, <3>1
      <3> QED
        BY <3>2
    <2>13. Segments(FlattenSeq(seqs), seqs, off)
      BY <2>2, <2>5, <2>10, <2>11, <2>12 DEF Segments, n
    <2> QED
      BY <2>1, <2>2, <2>9, <2>13 DEF n
  <1> QED
    BY <1>1, <1>2

\* The offsets grow, and every position belongs to one of the sequences.
LEMMA SegmentsCover ==
    ASSUME NEW s, NEW T, NEW seqs \in Seq(Seq(T)), NEW off, Segments(s, seqs, off)
    PROVE  /\ \A i, j \in 1..Len(seqs) + 1 : i <= j => off[i] <= off[j]
           /\ \A p \in 1..Len(s) : \E i \in 1..Len(seqs) : p \in off[i] + 1..off[i + 1]
  <1> DEFINE n == Len(seqs)
  <1>1. n \in Nat /\ \A i \in 1..n : Len(seqs[i]) \in Nat
    <2>1. \A i \in 1..n : seqs[i] \in Seq(T)
      OBVIOUS
    <2> QED
      BY <2>1
  <1>2. \A i \in 1..n + 1 : off[i] \in Nat
    BY DEF Segments
  <1>3. off[1] = 0 /\ off[n + 1] = Len(s)
    BY DEF Segments
  <1>4. \A i \in 1..n : i + 1 \in 1..n + 1 /\ i \in 1..n + 1 /\ off[i + 1] = off[i] + Len(seqs[i])
    BY <1>1 DEF Segments
  <1>5. ASSUME NEW i \in 1..n PROVE off[i] <= off[i + 1]
    <2>1. off[i + 1] = off[i] + Len(seqs[i]) /\ off[i] \in Nat /\ Len(seqs[i]) \in Nat
      BY <1>1, <1>2, <1>4
    <2> QED
      BY <2>1
  <1> HIDE DEF n
  <1>6. ASSUME NEW i \in 1..n + 1, NEW j \in 1..n + 1, i <= j PROVE off[i] <= off[j]
    <2> DEFINE Bad == {k \in i..n + 1 : ~ (off[i] <= off[k])}
    <2> SUFFICES ASSUME j \in Bad PROVE FALSE
      BY <1>1, <1>6
    <2>1. PICK k \in Bad : \A l \in Bad : k <= l
      <3>1. Bad \subseteq Nat
        BY <1>1
      <3> HIDE DEF Bad
      <3> QED
        BY <3>1, LeastExists
    <2>2. k # i /\ k \in i..n + 1 /\ ~ (off[i] <= off[k])
      BY <1>2
    <2>3. k - 1 \in i..n + 1 /\ k - 1 \notin Bad
      BY <1>1, <2>1, <2>2
    <2>4. k - 1 \in 1..n /\ (k - 1) + 1 = k
      BY <1>1, <2>2, <2>3
    <2>5. off[i] <= off[k - 1] /\ off[k - 1] <= off[(k - 1) + 1]
      BY <1>5, <2>3, <2>4
    <2>6. off[i] \in Nat /\ off[k] \in Nat /\ off[k - 1] \in Nat
      BY <1>1, <1>2, <2>2, <2>4
    <2> QED
      BY <2>2, <2>4, <2>5, <2>6
  <1>7. ASSUME NEW p \in 1..Len(s) PROVE \E i \in 1..n : p \in off[i] + 1..off[i + 1]
    <2> DEFINE Behind == {i \in 1..n : p <= off[i + 1]}
    <2>1. n \in Behind
      <3>1. n # 0
        BY <1>3, <1>7
      <3> QED
        BY <1>1, <1>3, <3>1
    <2>2. PICK i \in Behind : \A j \in Behind : i <= j
      <3>1. Behind \subseteq Nat
        OBVIOUS
      <3> HIDE DEF Behind
      <3> QED
        BY <2>1, <3>1, LeastExists
    <2>3. i \in 1..n /\ p <= off[i + 1]
      OBVIOUS
    <2>4. off[i] < p
      <3>1. CASE i = 1
        BY <1>3, <3>1
      <3>2. CASE i # 1
        <4>1. i - 1 \in 1..n /\ (i - 1) + 1 = i
          BY <1>1, <2>3, <3>2
        <4>a. i - 1 \notin Behind
          <5> HIDE DEF Behind
          <5> QED
            BY <2>2, <2>3, <4>1
        <4>2. ~ (p <= off[(i - 1) + 1])
          BY <4>1, <4>a
        <4> QED
          BY <1>2, <1>4, <2>3, <4>1, <4>2
      <3> QED
        BY <3>1, <3>2
    <2> HIDE DEF Behind
    <2> QED
      BY <1>2, <1>4, <2>3, <2>4
  <1> QED
    BY <1>6, <1>7 DEF n

-----------------------------------------------------------------------------
(* What a message looks like in the stream.                                *)

\* Kinds of tokens, and all tokens.
Kinds == STRING \cup {"d", "e", "G", "h", "z"}
Tokens == [t: Kinds, m: Nat, data: BOOLEAN, n: Nat, request: SUBSET Messages]

\* The fields of a token.
LEMMA TokenIs ==
    ASSUME NEW m \in Nat, NEW t \in Kinds, NEW data \in BOOLEAN
    PROVE  /\ Token(m, t, data) \in Tokens
           /\ Token(m, t, data).t = t /\ Token(m, t, data).m = m /\ Token(m, t, data).data = data
           /\ Token(m, t, data).n = 0 /\ Token(m, t, data).request = {}
  BY DEF Token, Tokens

\* A chunk: its size and a line end, the payload, a line end.
ChunkShape(s, m, L, size) ==
    /\ s \in Seq(Tokens) /\ Len(s) = L + 3
    /\ s[1].t = "d" /\ ~s[1].data /\ s[1].n = size /\ s[1].m = m
    /\ s[2].t = "e" /\ ~s[2].data /\ s[2].m = m
    /\ \A j \in 1..L : s[j + 2].data /\ s[j + 2].m = m
    /\ s[L + 3].t = "e" /\ ~s[L + 3].data /\ s[L + 3].m = m

\* Chunk puts one together.
LEMMA ChunkIs ==
    ASSUME NEW m \in Nat, NEW chunk \in Seq(STRING), NEW size \in Nat
    PROVE  ChunkShape(Chunk(m, chunk, size), m, Len(chunk), size)
  <1> DEFINE s == Chunk(m, chunk, size)
  <1> DEFINE head == <<[Token(m, "d", FALSE) EXCEPT !.n = size], Token(m, "e", FALSE)>>
             mid == Payload(m, chunk)
             end == <<Token(m, "e", FALSE)>>
             L == Len(chunk)
  <1>1. L \in Nat /\ \A j \in 1..L : chunk[j] \in STRING
    OBVIOUS
  <1>2. /\ head \in Seq(Tokens) /\ Len(head) = 2
        /\ head[1].t = "d" /\ head[1].data = FALSE /\ head[1].n = size /\ head[1].m = m
        /\ head[2].t = "e" /\ head[2].data = FALSE /\ head[2].m = m
    <2> DEFINE d == [Token(m, "d", FALSE) EXCEPT !.n = size]
               e == Token(m, "e", FALSE)
    <2>1. d \in Tokens /\ d.t = "d" /\ d.data = FALSE /\ d.n = size /\ d.m = m
      BY DEF Token, Tokens, Kinds
    <2>2. e \in Tokens /\ e.t = "e" /\ e.data = FALSE /\ e.m = m
      BY DEF Token, Tokens, Kinds
    <2>3. head = <<d, e>>
      OBVIOUS
    <2> HIDE DEF d, e, head
    <2> QED
      BY <2>1, <2>2, <2>3
  <1>3. /\ mid \in Seq(Tokens) /\ Len(mid) = L
        /\ \A j \in 1..L : mid[j].data = TRUE /\ mid[j].m = m
    <2>1. \A j \in 1..L : LET k == Token(m, chunk[j], TRUE) IN
                              k \in Tokens /\ k.data = TRUE /\ k.m = m
      BY <1>1 DEF Token, Tokens, Kinds
    <2>2. \A j \in 1..L : mid[j] = Token(m, chunk[j], TRUE)
      BY DEF Payload
    <2>3. mid = [j \in 1..L |-> Token(m, chunk[j], TRUE)]
      BY DEF Payload
    <2>4. mid \in [1..L -> Tokens]
      BY <2>1, <2>3
    <2>5. mid \in Seq(Tokens) /\ Len(mid) = L
      BY <1>1, <2>4, FunctionIsSeq
    <2> HIDE DEF mid
    <2> QED
      BY <1>1, <2>1, <2>2, <2>5
  <1>4. end \in Seq(Tokens) /\ Len(end) = 1 /\ end[1].t = "e" /\ end[1].data = FALSE /\ end[1].m = m
    BY DEF Token, Tokens, Kinds
  <1>5. Chunk(m, chunk, size) = (head \o mid) \o end
    BY DEF Chunk
  <1> HIDE DEF head, mid, end, L
  <1> DEFINE hm == head \o mid
  <1>6. /\ hm \in Seq(Tokens) /\ Len(hm) = 2 + L
        /\ hm[1] = head[1] /\ hm[2] = head[2] /\ \A j \in 1..L : hm[2 + j] = mid[j]
    <2>1. /\ hm \in Seq(Tokens) /\ Len(hm) = Len(head) + Len(mid)
          /\ \A i \in 1..Len(head) : hm[i] = head[i]
          /\ \A j \in 1..Len(mid) : hm[Len(head) + j] = mid[j]
      <3>1. head \in Seq(Tokens) /\ mid \in Seq(Tokens)
        BY <1>2, <1>3
      <3> QED
        BY <3>1, Concat2
    <2> HIDE DEF hm
    <2> QED
      BY <1>2, <1>3, <2>1
  <1>7. s = hm \o end
    BY <1>5
  <1> HIDE DEF hm, s
  <1>8. /\ s \in Seq(Tokens) /\ Len(s) = (2 + L) + 1
        /\ \A i \in 1..2 + L : s[i] = hm[i]
        /\ \A i \in 1..1 : s[(2 + L) + i] = end[i]
    <2>1. /\ s \in Seq(Tokens) /\ Len(s) = Len(hm) + Len(end)
          /\ \A i \in 1..Len(hm) : s[i] = hm[i]
          /\ \A i \in 1..Len(end) : s[Len(hm) + i] = end[i]
      <3>1. hm \in Seq(Tokens) /\ end \in Seq(Tokens)
        BY <1>4, <1>6
      <3> QED
        BY <1>7, <3>1, Concat2
    <2> QED
      BY <1>4, <1>6, <2>1
  <1>9. s[1] = head[1] /\ s[2] = head[2] /\ Len(s) = L + 3 /\ s[L + 3] = end[1]
    <2>1. 1 \in 1..2 + L /\ 2 \in 1..2 + L /\ (2 + L) + 1 = L + 3 /\ 1 \in 1..1
      BY <1>1
    <2> QED
      BY <1>6, <1>8, <2>1
  <1>10. ASSUME NEW j \in 1..L PROVE s[j + 2] = mid[j]
    <2>1. j + 2 \in 1..2 + L /\ j + 2 = 2 + j
      BY <1>1
    <2> QED
      BY <1>6, <1>8, <2>1
  <1>11. /\ s[1].t = "d" /\ ~s[1].data /\ s[1].n = size /\ s[1].m = m
         /\ s[2].t = "e" /\ ~s[2].data /\ s[2].m = m
         /\ \A j \in 1..L : s[j + 2].data /\ s[j + 2].m = m
         /\ s[L + 3].t = "e" /\ ~s[L + 3].data /\ s[L + 3].m = m
    BY <1>2, <1>3, <1>4, <1>9, <1>10
  <1> QED
    BY <1>8, <1>9, <1>11 DEF L, s, ChunkShape

\* C is chunked content of message m: from every size on there stands what the size says, and one
\* byte more if the client miscounts (over = 1), a line end, and another size, unless it was 0.
Chunked(C, m, over) ==
    /\ C \in Seq(Tokens) /\ Len(C) > 0
    /\ \A i \in 1..Len(C) : C[i].m = m /\ (~C[i].data => C[i].t \in {"d", "e"})
    /\ C[1].t = "d" /\ ~C[1].data
    /\ \A i \in 1..Len(C) : C[i].t = "d" /\ ~C[i].data =>
          LET n == C[i].n IN
          /\ i + 1 \in 1..Len(C) /\ C[i + 1].t = "e" /\ ~C[i + 1].data
          /\ n = 0 => i + 2 = Len(C) /\ C[i + 2].t = "e" /\ ~C[i + 2].data
          /\ n # 0 => /\ \A j \in 1..n + over : i + 1 + j \in 1..Len(C) /\ C[i + 1 + j].data
                      /\ i + 2 + n + over \in 1..Len(C)
                      /\ C[i + 2 + n + over].t = "e" /\ ~C[i + 2 + n + over].data
                      /\ i + 3 + n + over \in 1..Len(C)
                      /\ C[i + 3 + n + over].t = "d" /\ ~C[i + 3 + n + over].data

\* The content of a chunked message.
LEMMA ContentIsChunked ==
    ASSUME NEW m \in Nat, NEW msg \in Messages, msg.framing \in {"chunked", "miscounted"},
           \A i \in 1..Len(msg.content) : ChunkSize(msg, i) > 0,
           NEW over, over = IF msg.framing = "miscounted" THEN 1 ELSE 0
    PROVE  Chunked(ContentTokens(m, msg), m, over)
  <1> DEFINE k == Len(msg.content)
             cs == [i \in 1..k |-> Chunk(m, msg.content[i], ChunkSize(msg, i))]
             F == FlattenSeq(cs)
             E == Chunk(m, << >>, 0)
             C == ContentTokens(m, msg)
             L(i) == Len(msg.content[i])
  <1>1. /\ k \in Nat /\ over \in {0, 1}
        /\ \A i \in 1..k : msg.content[i] \in Seq(STRING)
    BY DEF Messages
  <1>2. \A i \in 1..k : L(i) \in Nat /\ ChunkSize(msg, i) = L(i) - over /\ ChunkSize(msg, i) \in Nat \ {0}
    <2>1. \A i \in 1..k : L(i) \in Nat
      BY <1>1
    <2>2. ASSUME NEW i \in 1..k
          PROVE  ChunkSize(msg, i) = L(i) - over /\ ChunkSize(msg, i) \in Nat \ {0}
      <3>1. ChunkSize(msg, i) = L(i) - over
        BY DEF ChunkSize
      <3>2. ChunkSize(msg, i) > 0
        OBVIOUS
      <3> HIDE DEF L
      <3> QED
        BY <1>1, <2>1, <3>1, <3>2
    <2> QED
      BY <2>1, <2>2
  <1>3. C = F \o E
    BY DEF ContentTokens
  <1> HIDE DEF C, F, E
  <1>4. ASSUME NEW i \in 1..k
        PROVE  /\ cs[i] \in Seq(Tokens) /\ Len(cs[i]) = L(i) + 3
               /\ cs[i][1].t = "d" /\ ~cs[i][1].data /\ cs[i][1].n = L(i) - over /\ cs[i][1].m = m
               /\ cs[i][2].t = "e" /\ ~cs[i][2].data /\ cs[i][2].m = m
               /\ \A j \in 1..L(i) : cs[i][j + 2].data /\ cs[i][j + 2].m = m
               /\ cs[i][L(i) + 3].t = "e" /\ ~cs[i][L(i) + 3].data /\ cs[i][L(i) + 3].m = m
    <2>1. cs[i] = Chunk(m, msg.content[i], L(i) - over) /\ L(i) - over \in Nat
      BY <1>2
    <2>2. msg.content[i] \in Seq(STRING)
      BY <1>1
    <2>3. ChunkShape(cs[i], m, L(i), L(i) - over)
      BY <2>1, <2>2, ChunkIs
    <2> HIDE DEF cs, L
    <2> QED
      BY <2>3 DEF ChunkShape
  <1>5. /\ E \in Seq(Tokens) /\ Len(E) = 3
        /\ E[1].t = "d" /\ ~E[1].data /\ E[1].n = 0 /\ E[1].m = m
        /\ E[2].t = "e" /\ ~E[2].data /\ E[2].m = m
        /\ E[3].t = "e" /\ ~E[3].data /\ E[3].m = m
    <2>1. << >> \in Seq(STRING) /\ Len(<< >>) = 0 /\ 0 \in Nat
      OBVIOUS
    <2> QED
      <3>1. E = Chunk(m, << >>, 0)
        BY DEF E
      <3>2. ChunkShape(E, m, 0, 0)
        BY <2>1, <3>1, ChunkIs
      <3> QED
        BY <3>2 DEF ChunkShape
  <1>6. cs \in Seq(Seq(Tokens)) /\ Len(cs) = k
    <2>1. cs \in [1..k -> Seq(Tokens)]
      BY <1>4
    <2> QED
      BY <1>1, <2>1, FunctionIsSeq
  <1> HIDE DEF cs, k, L
  <1>7. F \in Seq(Tokens) /\ Len(F) \in Nat
    BY <1>6, FlattenSegments DEF F
  <1>8. PICK off : Segments(F, cs, off)
    BY <1>6, FlattenSegments DEF F
  <1>9. /\ C \in Seq(Tokens) /\ Len(C) = Len(F) + 3
        /\ \A i \in 1..Len(F) : C[i] = F[i]
        /\ \A i \in 1..3 : C[Len(F) + i] = E[i]
    <2>1. F \in Seq(Tokens) /\ E \in Seq(Tokens)
      BY <1>5, <1>7
    <2>2. /\ C \in Seq(Tokens) /\ Len(C) = Len(F) + Len(E)
          /\ \A i \in 1..Len(F) : C[i] = F[i]
          /\ \A i \in 1..Len(E) : C[Len(F) + i] = E[i]
      BY <2>1, <1>3, Concat2
    <2> QED
      BY <1>5, <2>2
  <1>10. off \in [1..k + 1 -> Nat] /\ off[1] = 0 /\ off[k + 1] = Len(F)
    BY <1>6, <1>8 DEF Segments
  <1>11. ASSUME NEW i \in 1..k
         PROVE  /\ off[i + 1] = off[i] + L(i) + 3 /\ off[i] \in Nat /\ off[i + 1] <= Len(F)
                /\ \A j \in 1..L(i) + 3 : off[i] + j \in 1..Len(F) /\ C[off[i] + j] = cs[i][j]
    <2>1. off[i + 1] = off[i] + Len(cs[i]) /\ Len(cs[i]) = L(i) + 3
      BY <1>4, <1>6, <1>8 DEF Segments
    <2>2. \A j \in 1..L(i) + 3 : F[off[i] + j] = cs[i][j]
      BY <1>4, <1>6, <1>8 DEF Segments
    <2>3. i \in 1..k + 1 /\ i + 1 \in 1..k + 1 /\ k + 1 \in 1..k + 1 /\ i + 1 <= k + 1
      BY <1>1 DEF k
    <2>4. off[i] \in Nat /\ off[i + 1] \in Nat
      BY <1>10, <2>3
    <2>5. off[i + 1] <= off[k + 1]
      BY <1>6, <1>8, <2>3, SegmentsCover
    <2>6. L(i) \in Nat
      BY <1>2 DEF L, k
    <2>7. \A j \in 1..L(i) + 3 : off[i] + j \in 1..Len(F)
      BY <1>7, <1>10, <2>1, <2>4, <2>5, <2>6, SMTT(30)
    <2> QED
      <3>1. \A j \in 1..L(i) + 3 : C[off[i] + j] = cs[i][j]
        BY <1>9, <2>2, <2>7
      <3>2. off[i + 1] = off[i] + L(i) + 3
        BY <2>1, <2>4, <2>6
      <3>3. off[i + 1] <= Len(F)
        BY <1>10, <2>5
      <3> QED
        BY <2>4, <2>7, <3>1, <3>2, <3>3
  \* Where the i-th chunk ends, a size stands.
  <1>12. ASSUME NEW i \in 1..k + 1
         PROVE  off[i] + 1 \in 1..Len(C) /\ C[off[i] + 1].t = "d" /\ ~C[off[i] + 1].data
    <2>1. CASE i = k + 1
      <3>1. off[i] + 1 = Len(F) + 1 /\ 1 \in 1..3
        BY <1>10, <2>1
      <3> QED
        BY <1>5, <1>7, <1>9, <3>1
    <2>2. CASE i # k + 1
      <3>1. i \in 1..k
        BY <1>1, <2>2 DEF k
      <3>2. L(i) \in Nat
        BY <1>2, <3>1 DEF L, k
      <3>3. 1 \in 1..L(i) + 3
        BY <3>2
      <3>4. off[i] + 1 \in 1..Len(F) /\ C[off[i] + 1] = cs[i][1]
        BY <1>11, <3>1, <3>3
      <3> QED
        BY <1>4, <1>7, <1>9, <3>1, <3>4
    <2> QED
      BY <2>1, <2>2
  \* Every position is one in a chunk or in the last one.
  <1>13. ASSUME NEW p \in 1..Len(C), ~ (p \in Len(F) + 1..Len(F) + 3)
         PROVE  \E i \in 1..k : \E j \in 1..L(i) + 3 : p = off[i] + j
    <2>1. p \in 1..Len(F)
      BY <1>7, <1>9, <1>13
    <2>2. PICK i \in 1..k : p \in off[i] + 1..off[i + 1]
      BY <1>6, <1>8, <2>1, SegmentsCover
    <2>3. L(i) \in Nat
      BY <1>2 DEF L, k
    <2>4. off[i] \in Nat /\ off[i + 1] = off[i] + L(i) + 3
      BY <1>11
    <2>5. p - off[i] \in 1..L(i) + 3 /\ p = off[i] + (p - off[i])
      BY <2>2, <2>3, <2>4
    <2> QED
      BY <2>5
  <1>14. ASSUME NEW p \in 1..Len(C) PROVE C[p].m = m /\ (~C[p].data => C[p].t \in {"d", "e"})
    <2>1. CASE p \in Len(F) + 1..Len(F) + 3
      <3>1. p - Len(F) \in 1..3 /\ p = Len(F) + (p - Len(F))
        BY <1>7, <2>1
      <3>2. C[p] = E[p - Len(F)]
        BY <1>9, <3>1
      <3> QED
        BY <1>5, <3>1, <3>2
    <2>2. CASE ~ (p \in Len(F) + 1..Len(F) + 3)
      <3>1. PICK i \in 1..k : \E j \in 1..L(i) + 3 : p = off[i] + j
        BY <1>13, <2>2
      <3>2. PICK j \in 1..L(i) + 3 : p = off[i] + j
        BY <3>1
      <3>3. C[p] = cs[i][j]
        BY <1>11, <3>2
      <3>4. L(i) \in Nat
        BY <1>2 DEF L, k
      <3>5. j = 1 \/ j = 2 \/ j = L(i) + 3 \/ (j - 2 \in 1..L(i) /\ (j - 2) + 2 = j)
        BY <3>4
      <3> QED
        BY <1>4, <3>3, <3>5
    <2> QED
      BY <2>1, <2>2
  <1>15. ASSUME NEW p \in 1..Len(C), C[p].t = "d", ~C[p].data
         PROVE  LET n == C[p].n IN
                /\ p + 1 \in 1..Len(C) /\ C[p + 1].t = "e" /\ ~C[p + 1].data
                /\ n = 0 => p + 2 = Len(C) /\ C[p + 2].t = "e" /\ ~C[p + 2].data
                /\ n # 0 => /\ \A j \in 1..n + over : p + 1 + j \in 1..Len(C) /\ C[p + 1 + j].data
                            /\ p + 2 + n + over \in 1..Len(C)
                            /\ C[p + 2 + n + over].t = "e" /\ ~C[p + 2 + n + over].data
                            /\ p + 3 + n + over \in 1..Len(C)
                            /\ C[p + 3 + n + over].t = "d" /\ ~C[p + 3 + n + over].data
    <2>0. p \in Nat /\ Len(C) \in Nat
      BY <1>7, <1>9
    <2>1. CASE p \in Len(F) + 1..Len(F) + 3
      <3>1. p - Len(F) \in 1..3 /\ p = Len(F) + (p - Len(F))
        BY <1>7, <2>1
      <3>2. C[p] = E[p - Len(F)]
        BY <1>9, <3>1
      <3>3. p - Len(F) # 2 /\ p - Len(F) # 3
        BY <1>5, <1>15, <3>2
      <3>4. p = Len(F) + 1
        BY <1>7, <2>1, <3>1, <3>3
      <3>5. C[p].n = 0
        BY <1>5, <1>7, <3>2, <3>4
      <3>6. p + 1 = Len(F) + 2 /\ p + 2 = Len(F) + 3 /\ 2 \in 1..3 /\ 3 \in 1..3
        BY <1>7, <3>4
      <3>7. C[p + 1] = E[2] /\ C[p + 2] = E[3] /\ p + 1 \in 1..Len(C) /\ p + 2 = Len(C)
        BY <1>7, <1>9, <3>6
      <3> QED
        BY <1>5, <3>5, <3>7
    <2>2. CASE ~ (p \in Len(F) + 1..Len(F) + 3)
      <3>1. PICK i \in 1..k : \E j \in 1..L(i) + 3 : p = off[i] + j
        BY <1>13, <2>2
      <3>2. PICK j \in 1..L(i) + 3 : p = off[i] + j
        BY <3>1
      <3>3. C[p] = cs[i][j]
        BY <1>11, <3>2
      <3>4. L(i) \in Nat /\ L(i) - over \in Nat \ {0}
        BY <1>2 DEF L, k
      <3>5. j = 1 \/ j = 2 \/ j = L(i) + 3 \/ (j - 2 \in 1..L(i) /\ (j - 2) + 2 = j)
        BY <3>4
      <3>6. j = 1
        <4>1. j # 2 /\ j # L(i) + 3
          BY <1>4, <1>15, <3>3
        <4>2. ~ (j - 2 \in 1..L(i) /\ (j - 2) + 2 = j)
          BY <1>4, <1>15, <3>3
        <4> QED
          BY <3>5, <4>1, <4>2
      <3>7. C[p].n = L(i) - over /\ p = off[i] + 1
        BY <1>4, <3>2, <3>3, <3>6
      <3>8. PICK l \in Nat, o \in Nat, n \in Nat \ {0} :
               l = L(i) /\ o = off[i] /\ n = C[p].n /\ n + over = l /\ p = o + 1 /\ off[i + 1] = o + l + 3
        <4>1. off[i] \in Nat /\ off[i + 1] = off[i] + L(i) + 3
          BY <1>11
        <4>2. (L(i) - over) + over = L(i)
          BY <1>1, <3>4
        <4> QED
          BY <3>4, <3>7, <4>1, <4>2
      <3>8a. p = o + 1 /\ n + over = l /\ l \in Nat /\ o \in Nat /\ n \in Nat /\ n # 0
        BY <3>8
      <3>8b. \A q \in 1..Len(F) : q \in 1..Len(C)
        BY <1>7, <1>9
      <3>8c. /\ cs[i][2].t = "e" /\ ~cs[i][2].data
             /\ \A a \in 1..l : cs[i][a + 2].data
             /\ cs[i][l + 3].t = "e" /\ ~cs[i][l + 3].data
        BY <1>4, <3>8
      <3>9. p + 1 \in 1..Len(C) /\ C[p + 1].t = "e" /\ ~C[p + 1].data
        <4>1. 2 \in 1..l + 3 /\ p + 1 = o + 2
          BY <2>0, <3>8a
        <4>2. o + 2 \in 1..Len(F) /\ C[o + 2] = cs[i][2]
          BY <1>11, <3>8, <4>1
        <4> QED
          BY <3>8b, <3>8c, <4>1, <4>2
      <3>11. ASSUME NEW a \in 1..l PROVE p + 1 + a \in 1..Len(C) /\ C[p + 1 + a].data
        <4>1. a + 2 \in 1..l + 3 /\ p + 1 + a = o + (a + 2)
          BY <2>0, <3>8a
        <4>2. o + (a + 2) \in 1..Len(F) /\ C[o + (a + 2)] = cs[i][a + 2]
          BY <1>11, <3>8, <4>1
        <4> QED
          BY <3>8b, <3>8c, <4>1, <4>2
      <3>12. /\ p + 2 + l \in 1..Len(C) /\ C[p + 2 + l].t = "e" /\ ~C[p + 2 + l].data
        <4>1. l + 3 \in 1..l + 3 /\ p + 2 + l = o + (l + 3)
          BY <2>0, <3>8a
        <4>2. o + (l + 3) \in 1..Len(F) /\ C[o + (l + 3)] = cs[i][l + 3]
          BY <1>11, <3>8, <4>1
        <4> QED
          BY <3>8b, <3>8c, <4>1, <4>2
      <3>13. /\ p + 3 + l \in 1..Len(C) /\ C[p + 3 + l].t = "d" /\ ~C[p + 3 + l].data
        <4>a. i + 1 \in 1..k + 1
          BY <1>1 DEF k
        <4>b. off[i + 1] = o + l + 3
          BY <3>8
        <4>1. i + 1 \in 1..k + 1 /\ off[i + 1] + 1 = p + 3 + l
          BY <3>8a, <4>a, <4>b
        <4>2. off[i + 1] + 1 \in 1..Len(C) /\ C[off[i + 1] + 1].t = "d" /\ ~C[off[i + 1] + 1].data
          BY <1>12, <4>1
        <4> QED
          BY <4>1, <4>2
      <3>14. p + 2 + n + over = p + 2 + l /\ p + 3 + n + over = p + 3 + l
        BY <1>1, <2>0, <3>8a
      <3> QED
        BY <3>8, <3>9, <3>11, <3>12, <3>13, <3>14
    <2> QED
      BY <2>1, <2>2
  <1>16. C[1].t = "d" /\ ~C[1].data /\ Len(C) > 0
    <2>1. 1 \in 1..k + 1 /\ off[1] + 1 = 1
      BY <1>1, <1>10 DEF k
    <2>2. off[1] + 1 \in 1..Len(C) /\ C[off[1] + 1].t = "d" /\ ~C[off[1] + 1].data
      BY <1>12, <2>1
    <2> QED
      BY <1>7, <1>9, <2>1, <2>2
  <1> QED
    BY <1>9, <1>14, <1>15, <1>16 DEF Chunked, C

-----------------------------------------------------------------------------
(* Runs of positions of the stream, and what a content has up to one.      *)

\* k positions from p on.
Run(p, k) == [i \in 1..k |-> p + i - 1]

\* A run is a sequence.
LEMMA RunIs ==
    ASSUME NEW p \in Nat \ {0}, NEW k \in Nat
    PROVE  /\ Run(p, k) \in Seq(Nat \ {0}) /\ Len(Run(p, k)) = k
           /\ \A i \in 1..k : Run(p, k)[i] = p + i - 1
  <1>1. \A i \in 1..k : p + i - 1 \in Nat \ {0}
    OBVIOUS
  <1>2. Run(p, k) \in [1..k -> Nat \ {0}]
    BY <1>1 DEF Run
  <1>3. \A i \in 1..k : Run(p, k)[i] = p + i - 1
    BY DEF Run
  <1> QED
    BY <1>2, <1>3, FunctionIsSeq

\* The empty run.
LEMMA EmptyRun ==
    ASSUME NEW p
    PROVE  Run(p, 0) = << >>
  BY DEF Run

\* A sequence with the elements of a run is that run.
LEMMA IsRun ==
    ASSUME NEW p \in Nat \ {0}, NEW k \in Nat, NEW T, NEW s \in Seq(T), Len(s) = k,
           \A i \in 1..k : s[i] = p + i - 1
    PROVE  s = Run(p, k)
  <1>1. s = [i \in 1..k |-> s[i]]
    OBVIOUS
  <1>2. [i \in 1..k |-> s[i]] = [i \in 1..k |-> p + i - 1]
    OBVIOUS
  <1> QED
    BY <1>1, <1>2 DEF Run

\* One run behind the other.
LEMMA RunConcat ==
    ASSUME NEW p \in Nat \ {0}, NEW k \in Nat, NEW l \in Nat
    PROVE  Run(p, k) \o Run(p + k, l) = Run(p, k + l)
  <1> DEFINE a == Run(p, k)
             b == Run(p + k, l)
             s == a \o b
  <1>1. /\ a \in Seq(Nat \ {0}) /\ Len(a) = k /\ \A i \in 1..k : a[i] = p + i - 1
        /\ b \in Seq(Nat \ {0}) /\ Len(b) = l /\ \A i \in 1..l : b[i] = (p + k) + i - 1
    <2>1. p + k \in Nat \ {0}
      OBVIOUS
    <2> QED
      BY <2>1, RunIs
  <1> HIDE DEF a, b
  <1>2. /\ s \in Seq(Nat \ {0}) /\ Len(s) = Len(a) + Len(b)
        /\ \A i \in 1..Len(a) : s[i] = a[i]
        /\ \A i \in 1..Len(b) : s[Len(a) + i] = b[i]
    <2>1. a \in Seq(Nat \ {0}) /\ b \in Seq(Nat \ {0})
      BY <1>1
    <2> QED
      BY <2>1, Concat2
  <1> HIDE DEF s
  <1>3. ASSUME NEW i \in 1..k + l PROVE s[i] = p + i - 1
    <2>1. CASE i <= k
      BY <1>1, <1>2, <2>1
    <2>2. CASE i > k
      <3>1. i - k \in 1..l /\ k + (i - k) = i /\ (p + k) + (i - k) - 1 = p + i - 1
        BY <2>2
      <3>2. s[k + (i - k)] = b[i - k]
        BY <1>1, <1>2, <3>1
      <3> QED
        BY <1>1, <3>1, <3>2
    <2> QED
      BY <2>1, <2>2
  <1>4. k + l \in Nat /\ Len(s) = k + l
    BY <1>1, <1>2
  <1> QED
    BY <1>2, <1>3, <1>4, IsRun DEF s, a, b

\* f gathers the positions of message m's content: the equation of ContentUpTo.
Gathering(f, m, n) ==
    f = [p \in 0..n |-> IF p = 0 THEN << >>
                        ELSE IF stream[p].m = m /\ stream[p].data THEN Append(f[p - 1], p)
                        ELSE f[p - 1]]

\* There is one up to every position.
LEMMA GatheringExists ==
    ASSUME NEW m, NEW n \in Nat
    PROVE  \E f : Gathering(f, m, n)
  <1> DEFINE Bad == {k \in Nat : ~ \E f : Gathering(f, m, k)}
  <1> SUFFICES ASSUME Bad # {} PROVE FALSE
    OBVIOUS
  <1>1. PICK k \in Bad : \A j \in Bad : k <= j
    <2>1. Bad \subseteq Nat
      OBVIOUS
    <2> HIDE DEF Bad
    <2> QED
      BY <2>1, LeastExists
  <1>2. k # 0
    <2>1. Gathering([p \in 0..0 |-> << >>], m, 0)
      BY DEF Gathering
    <2> QED
      BY <2>1
  <1>3. PICK f : Gathering(f, m, k - 1)
    <2>1. k - 1 \in Nat /\ k - 1 \notin Bad
      BY <1>1, <1>2
    <2> QED
      BY <2>1
  <1> DEFINE Step(h, p) == IF p = 0 THEN << >>
                           ELSE IF stream[p].m = m /\ stream[p].data THEN Append(h[p - 1], p)
                           ELSE h[p - 1]
             g == [p \in 0..k |-> IF p = k THEN Step(f, k) ELSE f[p]]
             h == [p \in 0..k |-> Step(g, p)]
  <1>4. k \in Nat
    OBVIOUS
  <1>5. \A p \in 0..k : g[p] = h[p]
    <2> TAKE p \in 0..k
    <2>1. p - 1 \in 0..k - 1 => g[p - 1] = f[p - 1]
      BY <1>4
    <2>2. CASE p = k
      <3>1. p - 1 \in 0..k - 1
        BY <1>2, <1>4, <2>2
      <3>2. g[p] = Step(f, p) /\ h[p] = Step(g, p)
        BY <2>2
      <3> QED
        BY <2>1, <3>1, <3>2
    <2>3. CASE p # k
      <3>1. p \in 0..k - 1 /\ (p # 0 => p - 1 \in 0..k - 1)
        BY <1>4, <2>3
      <3>2. f[p] = Step(f, p)
        BY <1>3, <3>1 DEF Gathering
      <3>3. g[p] = f[p] /\ h[p] = Step(g, p)
        BY <2>3
      <3> QED
        BY <2>1, <3>1, <3>2, <3>3
    <2> QED
      BY <2>2, <2>3
  <1>6. DOMAIN g = 0..k /\ DOMAIN h = 0..k /\ g = [p \in 0..k |-> g[p]] /\ h = [p \in 0..k |-> h[p]]
    OBVIOUS
  <1>7. g = h
    <2> HIDE DEF g, h
    <2> QED
      BY <1>5, <1>6
  <1>8. Gathering(g, m, k)
    BY <1>7 DEF Gathering
  <1> QED
    BY <1>8

\* What a content has up to a position.
LEMMA ContentUpToIs ==
    ASSUME NEW m, Len(stream) \in Nat
    PROVE  /\ ContentUpTo(m)[0] = << >>
           /\ \A p \in 1..Len(stream) :
                 ContentUpTo(m)[p] = IF stream[p].m = m /\ stream[p].data
                                     THEN Append(ContentUpTo(m)[p - 1], p)
                                     ELSE ContentUpTo(m)[p - 1]
  <1> DEFINE f == CHOOSE f : Gathering(f, m, Len(stream))
  <1>1. ContentUpTo(m) = f
    BY DEF ContentUpTo, Gathering
  <1>2. Gathering(f, m, Len(stream))
    BY GatheringExists
  <1> HIDE DEF f
  <1>3. \A p \in 0..Len(stream) :
           f[p] = IF p = 0 THEN << >>
                  ELSE IF stream[p].m = m /\ stream[p].data THEN Append(f[p - 1], p) ELSE f[p - 1]
    BY <1>2 DEF Gathering
  <1>4. 0 \in 0..Len(stream) /\ \A p \in 1..Len(stream) : p \in 0..Len(stream) /\ p # 0
    OBVIOUS
  <1> QED
    BY <1>1, <1>3, <1>4

\* Appending to two sequences is appending to the second.
LEMMA AppendBehind ==
    ASSUME NEW S, NEW s \in Seq(S), NEW t \in Seq(S), NEW x \in S
    PROVE  Append(s \o t, x) = s \o (t \o <<x>>) /\ t \o <<x>> \in Seq(S)
  <1> DEFINE v == <<x>>
  <1>1. v \in Seq(S)
    OBVIOUS
  <1>2. s \o t \in Seq(S) /\ t \o v \in Seq(S)
    BY <1>1, Concat2
  <1>3. Append(s \o t, x) = (s \o t) \o v
    BY <1>2, AppendIsConcat
  <1> HIDE DEF v
  <1>4. (s \o t) \o v = s \o (t \o v)
    BY <1>1
  <1> QED
    BY <1>2, <1>3, <1>4 DEF v

\* Appending the next position to a run.
LEMMA AppendRun ==
    ASSUME NEW s \in Seq(Nat \ {0}), NEW p \in Nat \ {0}, NEW k \in Nat
    PROVE  Append(s \o Run(p, k), p + k) = s \o Run(p, k + 1)
  <1> DEFINE r == Run(p, k)
             q == p + k
             v == <<q>>
             Z == Nat \ {0}
  <1>1. r \in Seq(Z) /\ q \in Z /\ s \in Seq(Z)
    BY RunIs
  <1>2. v = Run(q, 1)
    <2>1. v \in Seq(Z) /\ Len(v) = 1 /\ \A i \in 1..1 : v[i] = q + i - 1
      OBVIOUS
    <2> HIDE DEF v, q
    <2> QED
      BY <1>1, <2>1, IsRun
  <1>3. r \o Run(q, 1) = Run(p, k + 1)
    BY RunConcat
  <1> HIDE DEF r, q, Z
  <1>4. Append(s \o r, q) = s \o (r \o <<q>>)
    <2>1. \A a \in Seq(Z), b \in Seq(Z), e \in Z : Append(a \o b, e) = a \o (b \o <<e>>)
      BY AppendBehind, ZenonT(40)
    <2> QED
      BY <1>1, <2>1
  <1> QED
    BY <1>2, <1>3, <1>4 DEF r, q

\* Elements put behind a sequence leave it a prefix.
LEMMA PrefixOfConcat ==
    ASSUME NEW T, NEW s \in Seq(T), NEW t \in Seq(T)
    PROVE  IsPrefix(s, s \o t)
  <1> DEFINE u == s \o t
  <1>1. /\ u \in Seq(T) /\ Len(s) \in Nat /\ Len(t) \in Nat /\ Len(u) = Len(s) + Len(t)
        /\ \A i \in 1..Len(s) : u[i] = s[i]
    BY Concat2
  <1> HIDE DEF u
  <1>2. SubSeq(s, 1, Len(s)) = SubSeq(u, 1, Len(s))
    <2>1. \A i \in 1..Len(s) : s[i] \in T /\ u[i] \in T
      BY <1>1
    <2>2. /\ SubSeq(s, 1, Len(s)) \in Seq(T) /\ Len(SubSeq(s, 1, Len(s))) = Len(s)
          /\ \A i \in 1..Len(s) : SubSeq(s, 1, Len(s))[i] = s[i]
      BY <1>1, <2>1, SubSeqProperties
    <2>3. /\ SubSeq(u, 1, Len(s)) \in Seq(T) /\ Len(SubSeq(u, 1, Len(s))) = Len(s)
          /\ \A i \in 1..Len(s) : SubSeq(u, 1, Len(s))[i] = u[i]
      BY <1>1, <2>1, SubSeqProperties
    <2> QED
      BY <1>1, <2>2, <2>3, SeqEqual
  <1>3. Len(s) <= Len(u)
    BY <1>1
  <1> QED
    BY <1>2, <1>3 DEF IsPrefix, u

\* What a content has up to a position are positions.
LEMMA ContentType ==
    ASSUME NEW m, Len(stream) \in Nat, NEW p \in 0..Len(stream)
    PROVE  ContentUpTo(m)[p] \in Seq(1..Len(stream))
  <1> DEFINE C == ContentUpTo(m)
             Bad == {q \in 0..Len(stream) : ~ (C[q] \in Seq(1..Len(stream)))}
  <1>1. /\ C[0] = << >>
        /\ \A q \in 1..Len(stream) :
              C[q] = IF stream[q].m = m /\ stream[q].data THEN Append(C[q - 1], q) ELSE C[q - 1]
    BY ContentUpToIs
  <1> HIDE DEF C
  <1> SUFFICES ASSUME p \in Bad PROVE FALSE
    BY DEF C
  <1>2. PICK q \in Bad : \A j \in Bad : q <= j
    <2>1. Bad \subseteq Nat
      OBVIOUS
    <2> HIDE DEF Bad
    <2> QED
      BY <2>1, LeastExists
  <1>3. q \in 1..Len(stream) /\ ~ (C[q] \in Seq(1..Len(stream)))
    <2>1. C[0] \in Seq(1..Len(stream))
      BY <1>1
    <2>2. q \in 0..Len(stream) /\ ~ (C[q] \in Seq(1..Len(stream)))
      OBVIOUS
    <2> QED
      BY <2>1, <2>2
  <1>4. C[q - 1] \in Seq(1..Len(stream))
    <2>1. q - 1 \in 0..Len(stream) /\ q - 1 \notin Bad
      BY <1>2, <1>3
    <2> QED
      BY <2>1
  <1>5. Append(C[q - 1], q) \in Seq(1..Len(stream))
    BY <1>3, <1>4
  <1> QED
    BY <1>1, <1>3, <1>4, <1>5

\* It grows by the positions of the content between two others.
LEMMA ContentGrows ==
    ASSUME NEW m, Len(stream) \in Nat, NEW p \in 0..Len(stream), NEW q \in p..Len(stream)
    PROVE  \E t \in Seq(1..Len(stream)) : ContentUpTo(m)[q] = ContentUpTo(m)[p] \o t
  <1> DEFINE C == ContentUpTo(m)
             S == 1..Len(stream)
             Bad == {k \in p..Len(stream) : ~ \E t \in Seq(S) : C[k] = C[p] \o t}
  <1>1. \A k \in 1..Len(stream) :
           C[k] = IF stream[k].m = m /\ stream[k].data THEN Append(C[k - 1], k) ELSE C[k - 1]
    BY ContentUpToIs
  <1>2. \A k \in 0..Len(stream) : C[k] \in Seq(S)
    BY ContentType
  <1> HIDE DEF C
  <1> SUFFICES ASSUME q \in Bad PROVE FALSE
    BY DEF C
  <1>3. PICK k \in Bad : \A j \in Bad : k <= j
    <2>1. Bad \subseteq Nat
      OBVIOUS
    <2> HIDE DEF Bad
    <2> QED
      BY <2>1, LeastExists
  <1>4. k \in p..Len(stream) /\ ~ \E t \in Seq(S) : C[k] = C[p] \o t
    OBVIOUS
  <1>5. k # p
    <2>1. C[p] = C[p] \o << >> /\ << >> \in Seq(S)
      BY <1>2
    <2> QED
      BY <1>4, <2>1
  <1>6. k - 1 \in p..Len(stream) /\ k \in 1..Len(stream) /\ k - 1 \notin Bad
    <2>1. k - 1 \in p..Len(stream) /\ k \in 1..Len(stream) /\ ~ (k <= k - 1)
      BY <1>4, <1>5
    <2> HIDE DEF Bad
    <2> QED
      BY <1>3, <2>1
  <1>7. PICK t \in Seq(S) : C[k - 1] = C[p] \o t
    BY <1>6
  <1>8. CASE C[k] = C[k - 1]
    BY <1>4, <1>7, <1>8
  <1>9. CASE C[k] = Append(C[k - 1], k)
    <2>1. C[p] \in Seq(S) /\ k \in S
      BY <1>2, <1>6
    <2> HIDE DEF S
    <2>2. Append(C[p] \o t, k) = C[p] \o (t \o <<k>>) /\ t \o <<k>> \in Seq(S)
      BY <2>1, AppendBehind
    <2> QED
      BY <1>4, <1>7, <1>9, <2>2
  <1> QED
    BY <1>1, <1>6, <1>8, <1>9

\* So it is a prefix of all of it.
LEMMA ContentPrefix ==
    ASSUME NEW m, Len(stream) \in Nat, NEW p \in 0..Len(stream)
    PROVE  IsPrefix(ContentUpTo(m)[p], Content(m))
  <1>1. PICK t \in Seq(1..Len(stream)) : ContentUpTo(m)[Len(stream)] = ContentUpTo(m)[p] \o t
    <2>1. Len(stream) \in p..Len(stream)
      OBVIOUS
    <2> QED
      BY <2>1, ContentGrows
  <1>2. ContentUpTo(m)[p] \in Seq(1..Len(stream))
    BY ContentType
  <1>3. IsPrefix(ContentUpTo(m)[p], ContentUpTo(m)[p] \o t)
    BY <1>2, PrefixOfConcat
  <1> QED
    BY <1>1, <1>3 DEF Content

\* Nothing is added where no content of the message is.
LEMMA ContentAcross ==
    ASSUME NEW m, Len(stream) \in Nat, NEW p \in 0..Len(stream), NEW q \in p..Len(stream),
           \A i \in p + 1..q : ~ (stream[i].m = m /\ stream[i].data)
    PROVE  ContentUpTo(m)[q] = ContentUpTo(m)[p]
  <1> DEFINE C == ContentUpTo(m)
             Bad == {k \in p..q : C[k] # C[p]}
  <1>1. \A k \in 1..Len(stream) :
           C[k] = IF stream[k].m = m /\ stream[k].data THEN Append(C[k - 1], k) ELSE C[k - 1]
    BY ContentUpToIs
  <1> HIDE DEF C
  <1> SUFFICES ASSUME q \in Bad PROVE FALSE
    BY DEF C
  <1>3. PICK k \in Bad : \A j \in Bad : k <= j
    <2>1. Bad \subseteq Nat
      OBVIOUS
    <2> HIDE DEF Bad
    <2> QED
      BY <2>1, LeastExists
  <1>4. k \in p + 1..q /\ C[k] # C[p]
    OBVIOUS
  <1>5. k - 1 \in p..q /\ k \in 1..Len(stream) /\ k - 1 \notin Bad
    BY <1>3, <1>4
  <1>6. C[k] = C[k - 1]
    BY <1>1, <1>4, <1>5
  <1>7. C[k - 1] = C[p]
    BY <1>5
  <1> QED
    BY <1>4, <1>6, <1>7

\* Inside a content every position is added.
LEMMA ContentAlong ==
    ASSUME NEW m, Len(stream) \in Nat, NEW p \in 1..Len(stream) + 1, NEW k \in Nat,
           p + k - 1 <= Len(stream),
           \A i \in p..p + k - 1 : stream[i].m = m /\ stream[i].data
    PROVE  ContentUpTo(m)[p + k - 1] = ContentUpTo(m)[p - 1] \o Run(p, k)
  <1> DEFINE C == ContentUpTo(m)
             S == 1..Len(stream)
             Bad == {j \in 0..k : C[p + j - 1] # C[p - 1] \o Run(p, j)}
  <1>1. \A i \in 1..Len(stream) :
           C[i] = IF stream[i].m = m /\ stream[i].data THEN Append(C[i - 1], i) ELSE C[i - 1]
    BY ContentUpToIs
  <1>2. \A i \in 0..Len(stream) : C[i] \in Seq(Nat \ {0})
    <2>1. \A i \in 0..Len(stream) : C[i] \in Seq(S)
      BY ContentType
    <2>2. S \subseteq Nat \ {0}
      OBVIOUS
    <2> HIDE DEF C
    <2> QED
      BY <2>1, <2>2, SeqMonotonic
  <1> HIDE DEF C
  <1> SUFFICES ASSUME k \in Bad PROVE FALSE
    BY DEF C
  <1>3. PICK j \in Bad : \A i \in Bad : j <= i
    <2>1. Bad \subseteq Nat
      OBVIOUS
    <2> HIDE DEF Bad
    <2> QED
      BY <2>1, LeastExists
  <1>4. j \in 0..k /\ C[p + j - 1] # C[p - 1] \o Run(p, j)
    OBVIOUS
  <1>5. C[p - 1] \in Seq(Nat \ {0})
    BY <1>2
  <1>6. j # 0
    <2>1. Run(p, 0) = << >>
      BY RunIs
    <2>2. C[p - 1] \o << >> = C[p - 1] /\ p + 0 - 1 = p - 1
      BY <1>5
    <2> QED
      BY <1>4, <2>1, <2>2
  <1>7. j - 1 \in 0..k /\ j - 1 \notin Bad
    <2>1. j - 1 \in 0..k /\ ~ (j <= j - 1)
      BY <1>4, <1>6
    <2> HIDE DEF Bad
    <2> QED
      BY <1>3, <2>1
  <1>8. C[p + (j - 1) - 1] = C[p - 1] \o Run(p, j - 1)
    BY <1>7
  <1>9. /\ p + j - 1 \in p..p + k - 1 /\ p + j - 1 \in 1..Len(stream)
        /\ (p + j - 1) - 1 = p + (j - 1) - 1 /\ p + (j - 1) - 1 \in 0..Len(stream)
        /\ p + (j - 1) = p + j - 1 /\ (j - 1) + 1 = j /\ j - 1 \in Nat
        /\ p + j - 1 \in Nat \ {0} /\ p \in Nat \ {0}
    BY <1>4, <1>6, SMTT(30)
  <1>10. C[p + j - 1] = Append(C[p + (j - 1) - 1], p + j - 1)
    <2>1. C[p + j - 1] = Append(C[(p + j - 1) - 1], p + j - 1)
      BY <1>1, <1>9
    <2> QED
      BY <1>9, <2>1
  <1>11. Append(C[p - 1] \o Run(p, j - 1), p + (j - 1)) = C[p - 1] \o Run(p, (j - 1) + 1)
    BY <1>5, <1>9, AppendRun
  <1> QED
    BY <1>4, <1>8, <1>9, <1>10, <1>11

-----------------------------------------------------------------------------
(* The state of a connection, and what reading leaves alone.               *)

\* What a connection is made of.
Conns ==
    [must_close: BOOLEAN, content_len: Int, is_chunked: 0..3, chunk_remainder: Nat,
     request_len: Int, data_len: 0..BufSize, consumed_content: Nat,
     buf: [1..BufSize -> Nat], handled_requests: Nat, head: Nat, received: Nat,
     broken: BOOLEAN, stopped: BOOLEAN, late: BOOLEAN, misframed: BOOLEAN,
     unread: BOOLEAN, misaligned: BOOLEAN, overlooked: BOOLEAN]

\* How far the client sends before it waits.
Sendable(c) == IF pipelined THEN Len(stream) ELSE Sent(c.handled_requests + 1)

\* The position behind what has been read of the content.
Place(c) == c.buf[1] + c.request_len + c.consumed_content

\* The buffer holds a header and what came with it; what was received behind that was read.
Loaded(c) ==
    /\ c.request_len \in 1..c.data_len /\ c.buf[1] # 0
    /\ \A i \in 1..c.data_len : c.buf[i] = c.buf[1] + i - 1
    /\ c.received = Higher(c.buf[1] + c.data_len, Place(c)) - 1
    /\ c.received <= Sendable(c)

\* Why a read may give less than is there.
Broken(c) == c.late \/ c.broken \/ c.stopped

\* What no reading from the content changes.
Kept(c, d) ==
    /\ d.request_len = c.request_len /\ d.data_len = c.data_len /\ d.buf = c.buf
    /\ d.handled_requests = c.handled_requests /\ d.head = c.head
    /\ d.unread = c.unread /\ d.misaligned = c.misaligned /\ d.overlooked = c.overlooked
    /\ (c.late => d.late) /\ (c.broken => d.broken) /\ (c.stopped => d.stopped)
    /\ (c.misframed => d.misframed)

\* What no reading of plain content changes.
SameFrame(c, d) ==
    /\ d.is_chunked = c.is_chunked /\ d.content_len = c.content_len /\ d.must_close = c.must_close
    /\ d.chunk_remainder = c.chunk_remainder /\ d.misframed = c.misframed

\* What pull_all gives.
PullOk(c, len, r) ==
    LET k == Higher(r.n, 0) IN
    /\ r.c \in Conns /\ Kept(c, r.c) /\ SameFrame(c, r.c)
    /\ r.n \in -1..len /\ r.data = Run(c.received + 1, k)
    /\ r.c.received = c.received + k /\ r.c.consumed_content = c.consumed_content + k
    /\ r.c.received <= Higher(c.received, Sendable(c))
    /\ r.n < len => Broken(r.c)
    /\ r.n = 0 /\ len > 0 => r.c.late \/ r.c.stopped

\* After changes nothing but where the client stands.
LEMMA AfterIs ==
    ASSUME NEW c \in Conns, NEW k \in Nat, NEW why \in {"late", "broken", "stopped", "whole"},
           NEW d, d = [After(c, why, k) EXCEPT !.consumed_content = @ + k]
    PROVE  /\ d \in Conns /\ Kept(c, d) /\ SameFrame(c, d)
           /\ d.received = c.received + k /\ d.consumed_content = c.consumed_content + k
           /\ why = "late" => d.late
           /\ why = "broken" => d.broken
           /\ why = "stopped" => d.stopped
  <1>1. d \in Conns
    <2>1. PICK b \in BOOLEAN, s \in BOOLEAN, l \in BOOLEAN :
             b = (c.broken \/ why = "broken") /\ s = (c.stopped \/ why = "stopped")
             /\ l = (c.late \/ why = "late")
      OBVIOUS
    <2>2. c.received + k \in Nat /\ c.consumed_content + k \in Nat
      BY DEF Conns
    <2>3. d = [c EXCEPT !.received = c.received + k, !.broken = b, !.stopped = s, !.late = l,
                       !.consumed_content = c.consumed_content + k]
      BY <2>1 DEF After, Conns
    <2> QED
      BY <2>2, <2>3, ZenonT(40) DEF Conns
  <1>2. Kept(c, d)
    BY DEF After, Kept, Conns
  <1>3. SameFrame(c, d)
    BY DEF After, SameFrame, Conns
  <1>4. d.received = c.received + k /\ d.consumed_content = c.consumed_content + k
    BY DEF After, Conns
  <1>5. why = "late" => d.late
    BY DEF After, Conns
  <1>6. why = "broken" => d.broken
    BY DEF After, Conns
  <1>7. why = "stopped" => d.stopped
    BY DEF After, Conns
  <1> QED
    BY <1>1, <1>2, <1>3, <1>4, <1>5, <1>6, <1>7

\* pull_all gives the next positions, as many as asked for unless something interrupts it.
LEMMA PullAll ==
    ASSUME NEW c \in Conns, NEW len \in Nat, NEW r \in pull_all(c, len), Sendable(c) \in Nat,
           faults \subseteq Faults
    PROVE  PullOk(c, len, r)
  <1> DEFINE w == Waiting(c)
  <1>1. /\ c.received \in Nat /\ c.consumed_content \in Nat /\ w = Sendable(c) - c.received
        /\ w \in Int
    BY SMTT(30) DEF Waiting, Sendable, Conns
  <1>2. Kept(c, c) /\ SameFrame(c, c)
    BY DEF Kept, SameFrame
  <1> HIDE DEF w
  <1>3. CASE len = 0 \/ c.stopped
    <2>1. r = [n |-> 0, data |-> << >>, c |-> c]
      BY <1>3 DEF pull_all
    <2>2. Run(c.received + 1, 0) = << >> /\ Higher(0, 0) = 0
      BY <1>1, RunIs DEF Higher
    <2>3. c.received <= Higher(c.received, Sendable(c))
      BY <1>1 DEF Higher
    <2> QED
      BY <1>1, <1>2, <1>3, <2>1, <2>2, <2>3 DEF PullOk, Broken
  <1>4. CASE ~ (len = 0 \/ c.stopped)
    <2> DEFINE whole == IF len <= Waiting(c) /\ ~c.broken
                        THEN {[n |-> len, data |-> Received(c, len),
                               c |-> [c EXCEPT !.received = @ + len, !.consumed_content = @ + len]]}
                        ELSE {}
               part(k, why) ==
                   [n |-> IF k = 0 /\ why # "late" THEN -1 ELSE k, data |-> Received(c, k),
                    c |-> [After(c, why, k) EXCEPT !.consumed_content = @ + k]]
               most == IF c.broken THEN 0 ELSE Smaller(len - 1, Waiting(c))
    <2>1. r \in whole \cup UNION {{part(k, why) : why \in Interruptions(c, k)} : k \in 0..most}
      BY <1>4, Zenon DEF pull_all
    <2>2. \A k \in Nat : Received(c, k) = Run(c.received + 1, k)
      <3>1. \A k \in Nat : \A i \in 1..k : c.received + i = (c.received + 1) + i - 1
        BY <1>1
      <3> QED
        BY <3>1 DEF Received, Run
    <2>3. CASE r \in whole
      <3>1. /\ r = [n |-> len, data |-> Received(c, len),
                    c |-> [c EXCEPT !.received = @ + len, !.consumed_content = @ + len]]
            /\ len <= w
        BY <2>3 DEF w
      <3>2. r.c \in Conns /\ Kept(c, r.c) /\ SameFrame(c, r.c)
        <4>1. c.received + len \in Nat /\ c.consumed_content + len \in Nat
          BY <1>1
        <4>2. r.c = [c EXCEPT !.received = @ + len, !.consumed_content = @ + len]
          BY <3>1
        <4>3. r.c \in Conns
          BY <4>1, <4>2 DEF Conns
        <4>4. Kept(c, r.c)
          BY <4>2 DEF Conns, Kept
        <4>5. SameFrame(c, r.c)
          BY <4>2 DEF Conns, SameFrame
        <4> QED
          BY <4>3, <4>4, <4>5
      <3>3. r.c.received = c.received + len /\ r.c.consumed_content = c.consumed_content + len
        BY <3>1 DEF Conns
      <3>4. Higher(len, 0) = len /\ c.received + len <= Higher(c.received, Sendable(c))
        BY <1>1, <3>1 DEF Higher
      <3>5. r.n = len /\ r.data = Run(c.received + 1, len)
        BY <2>2, <3>1
      <3>6. len # 0
        BY <1>4
      <3> HIDE DEF whole
      <3> QED
        BY <3>2, <3>3, <3>4, <3>5, <3>6 DEF PullOk
    <2>4. CASE r \notin whole
      <3>a. PICK k \in 0..most : r \in {part(k, why) : why \in Interruptions(c, k)}
        BY <2>1, <2>4
      <3>1. PICK why \in Interruptions(c, k) : r = part(k, why)
        BY <3>a
      <3>2. k \in 0..len - 1 /\ (k = 0 \/ k <= w)
        <4>1. CASE c.broken
          BY <1>4, <4>1
        <4>2. CASE ~c.broken
          <5>1. most = Smaller(len - 1, w)
            BY <4>2 DEF w
          <5>2. most <= len - 1 /\ most <= w /\ most \in Int
            BY <1>1, <5>1 DEF Smaller
          <5> HIDE DEF most
          <5> QED
            BY <1>1, <5>2
        <4> QED
          BY <4>1, <4>2
      <3>3. why \in {"late", "broken", "stopped"}
        BY DEF Interruptions, Faults
      <3> HIDE DEF whole, most
      <3>4. /\ r.n = IF k = 0 /\ why # "late" THEN -1 ELSE k
            /\ r.data = Run(c.received + 1, k)
            /\ r.c = [After(c, why, k) EXCEPT !.consumed_content = @ + k]
        BY <2>2, <3>1, <3>2
      <3> DEFINE d == r.c
      <3>5. /\ d \in Conns /\ Kept(c, d) /\ SameFrame(c, d)
            /\ d.received = c.received + k /\ d.consumed_content = c.consumed_content + k
            /\ why = "late" => d.late
            /\ why = "broken" => d.broken
            /\ why = "stopped" => d.stopped
        <4>1. k \in Nat /\ why \in {"late", "broken", "stopped", "whole"}
          BY <3>2, <3>3
        <4> QED
          BY <3>4, <4>1, AfterIs, ZenonT(40)
      <3>6. Broken(d)
        BY <3>3, <3>5 DEF Broken
      <3> HIDE DEF d
      <3>7. Higher(r.n, 0) = k /\ r.n \in -1..len
        BY <3>2, <3>4 DEF Higher
      <3>8. c.received + k <= Higher(c.received, Sendable(c))
        BY <1>1, <3>2 DEF Higher
      <3>9. r.n = 0 => d.late
        BY <3>2, <3>4, <3>5
      <3>10. r.c = d
        BY DEF d
      <3> QED
        BY <3>4, <3>5, <3>6, <3>7, <3>8, <3>9, <3>10 DEF PullOk
    <2> QED
      BY <2>3, <2>4
  <1> QED
    BY <1>3, <1>4

\* How a read of len settles the content's length, if it is the first.
Starts(c, len, d) ==
    /\ c.consumed_content = 0 /\ c.is_chunked = 1 =>
          d.is_chunked = 2 /\ d.content_len = len /\ d.must_close = c.must_close
    /\ c.consumed_content = 0 /\ c.is_chunked # 1 /\ c.content_len = -1 =>
          d.is_chunked = c.is_chunked /\ d.content_len = Int64Max /\ d.must_close
    /\ ~ (c.consumed_content = 0 /\ (c.is_chunked = 1 \/ c.content_len = -1)) => SameFrame(c, d)
    /\ d.chunk_remainder = c.chunk_remainder /\ d.misframed = c.misframed

\* What mg_read_inner gives: the next positions.
ReadOk(c, len, r) ==
    LET d == r.c
        k == Higher(r.n, 0)
    IN
    /\ d \in Conns /\ Kept(c, d) /\ Loaded(d) /\ Starts(c, len, d)
    /\ r.n \in -1..len /\ r.data = Run(Place(c), k)
    /\ d.consumed_content = c.consumed_content + k
    /\ r.n < len => Broken(d) \/ d.consumed_content >= d.content_len
    /\ r.n = 0 /\ len > 0 => d.late \/ d.stopped \/ d.consumed_content >= d.content_len
    /\ r.n > 0 => d.consumed_content <= d.content_len

\* What the buffer still holds is a run.
LEMMA BufferedRun ==
    ASSUME NEW c \in Conns, Loaded(c), NEW have \in Nat,
           c.request_len + c.consumed_content + have <= c.data_len
    PROVE  SubSeq(c.buf, c.request_len + c.consumed_content + 1,
                  c.request_len + c.consumed_content + have) = Run(Place(c), have)
  <1> DEFINE a == c.request_len + c.consumed_content
             s == SubSeq(c.buf, a + 1, a + have)
  <1>1. /\ a \in Nat /\ c.data_len \in 0..BufSize /\ a + have <= c.data_len /\ c.buf[1] \in Nat
        /\ c.buf[1] # 0 /\ \A i \in 1..BufSize : c.buf[i] \in Nat
        /\ \A i \in 1..c.data_len : c.buf[i] = c.buf[1] + i - 1
        /\ Place(c) = c.buf[1] + a /\ BufSize \in Nat
    <2>1. BufSize \in Nat \ {0}
      BY ConnectionAssumption
    <2>2. c.request_len \in Nat /\ c.consumed_content \in Nat /\ c.data_len \in 0..BufSize
      BY DEF Conns, Loaded
    <2>3. c.buf \in [1..BufSize -> Nat]
      BY DEF Conns
    <2>4. c.buf[1] # 0 /\ \A i \in 1..c.data_len : c.buf[i] = c.buf[1] + i - 1
      BY DEF Loaded
    <2>5. Place(c) = c.buf[1] + c.request_len + c.consumed_content
      BY DEF Place
    <2>6. c.request_len + c.consumed_content + have <= c.data_len
      OBVIOUS
    <2>7. a \in Nat /\ a + have <= c.data_len /\ 1 \in 1..BufSize
      BY <2>1, <2>2, <2>6
    <2>8. c.buf[1] \in Nat /\ \A i \in 1..BufSize : c.buf[i] \in Nat
      BY <2>3, <2>7
    <2>9. Place(c) = c.buf[1] + a
      BY <2>2, <2>5, <2>8
    <2> HIDE DEF a
    <2> QED
      BY <2>1, <2>2, <2>4, <2>7, <2>8, <2>9
  <1>2. Place(c) \in Nat \ {0}
    BY <1>1
  <1> HIDE DEF a
  <1>3. \A i \in a + 1..a + have : c.buf[i] \in Nat
    BY <1>1
  <1>4. /\ s \in Seq(Nat) /\ Len(s) = IF a + 1 <= a + have THEN (a + have) - (a + 1) + 1 ELSE 0
        /\ \A i \in 1..(a + have) - (a + 1) + 1 : s[i] = c.buf[a + 1 + i - 1]
    BY <1>1, <1>3, SubSeqProperties
  <1> HIDE DEF s
  <1>5. Len(s) = have
    BY <1>1, <1>4
  <1>6. ASSUME NEW i \in 1..have PROVE s[i] = Place(c) + i - 1
    <2>1. i \in 1..(a + have) - (a + 1) + 1 /\ a + 1 + i - 1 = a + i
      BY <1>1
    <2>2. a + i \in 1..c.data_len
      BY <1>1
    <2>3. s[i] = c.buf[a + i]
      BY <1>4, <2>1
    <2>4. c.buf[a + i] = c.buf[1] + (a + i) - 1
      BY <1>1, <2>2
    <2> QED
      BY <1>1, <2>3, <2>4
  <1> QED
    BY <1>2, <1>4, <1>5, <1>6, IsRun DEF s, a

\* Reading on keeps the connection loaded.
LEMMA LoadedOn ==
    ASSUME NEW c \in Conns, Loaded(c), NEW d \in Conns, Kept(c, d), NEW k \in Nat,
           d.consumed_content = c.consumed_content + k,
           d.received = Higher(c.buf[1] + c.data_len, Place(c) + k) - 1, d.received <= Sendable(c)
    PROVE  Loaded(d) /\ Place(d) = Place(c) + k
  <1>1. d.buf = c.buf /\ d.request_len = c.request_len /\ d.data_len = c.data_len
        /\ d.handled_requests = c.handled_requests
    BY DEF Kept
  <1>2. Sendable(d) = Sendable(c)
    BY <1>1 DEF Sendable
  <1>3. c.buf[1] \in Nat /\ c.request_len \in Int /\ c.consumed_content \in Nat
    <2>1. 1 \in 1..BufSize
      BY ConnectionAssumption
    <2>2. c.buf \in [1..BufSize -> Nat] /\ c.request_len \in Int /\ c.consumed_content \in Nat
      BY DEF Conns
    <2> QED
      BY <2>1, <2>2
  <1>4. Place(d) = Place(c) + k
    BY <1>1, <1>3 DEF Place
  <1>5. Loaded(d)
    BY <1>1, <1>2, <1>4 DEF Loaded
  <1> QED
    BY <1>4, <1>5

\* How much a read wants, and how much of it the buffer has: the numbers of mg_read_inner.
Reckoned(b, dl, rl, co, cl, len, want, buffered, have, rec, n0, k0, n) ==
    /\ {b, dl, rl, co, len} \subseteq Nat /\ cl \in Int /\ co < cl
    /\ want = Smaller(len, cl - co)
    /\ buffered = Smaller(want, dl - rl - co)
    /\ have = IF buffered > 0 THEN buffered ELSE 0
    /\ rec = Higher(b + dl, b + rl + co) - 1
    /\ n0 \in -1..want - have
    /\ k0 = Higher(n0, 0)
    /\ n = IF n0 >= 0 THEN have + n0 ELSE IF have > 0 THEN have ELSE n0

\* What they say of the position, the amount and the reason for a short read.
LEMMA ReadNumbers ==
    ASSUME NEW b, NEW dl, NEW rl, NEW co, NEW cl, NEW len, NEW want, NEW buffered, NEW have, NEW rec,
           NEW n0, NEW k0, NEW n,
           Reckoned(b, dl, rl, co, cl, len, want, buffered, have, rec, n0, k0, n)
    PROVE  /\ want \in Nat /\ have \in 0..want /\ want - have \in Nat /\ k0 \in 0..want - have
           /\ have # 0 => rl + co + have <= dl
           /\ k0 # 0 => rec + 1 = b + rl + co + have
           /\ rec + k0 = Higher(b + dl, b + rl + co + (have + k0)) - 1
           /\ n \in -1..len /\ Higher(n, 0) = have + k0
           /\ n < len => n0 < want - have \/ co + (have + k0) >= cl
           /\ n = 0 /\ len > 0 => n0 = 0 /\ want - have > 0
           /\ co + (have + k0) <= cl
  <1> USE DEF Reckoned
  <1>1. want \in Nat /\ want <= len /\ want <= cl - co /\ (want = len \/ want = cl - co)
    BY DEF Smaller
  <1>2. buffered \in Int /\ buffered <= want /\ buffered <= dl - rl - co
        /\ (buffered = want \/ buffered = dl - rl - co)
    BY <1>1 DEF Smaller
  <1>3. have \in 0..want /\ want - have \in Nat /\ (have # 0 => rl + co + have <= dl)
        /\ (have # want => rl + co + have >= dl)
    BY <1>1, <1>2
  <1>4. k0 \in 0..want - have /\ k0 \in Nat /\ (k0 = n0 \/ (n0 = -1 /\ k0 = 0)) /\ have \in Nat
    BY <1>1, <1>3 DEF Higher
  <1>5. k0 # 0 => rec + 1 = b + rl + co + have
    BY <1>1, <1>3, <1>4 DEF Higher
  <1>6. rec + k0 = Higher(b + dl, b + rl + co + (have + k0)) - 1
    <2>1. CASE k0 = 0
      <3>1. have + k0 = have /\ rec + k0 = rec
        BY <1>4, <2>1 DEF Higher
      <3>2. Higher(b + dl, b + rl + co + have) = Higher(b + dl, b + rl + co)
        BY <1>3, <1>4 DEF Higher
      <3> QED
        BY <3>1, <3>2
    <2>2. CASE k0 # 0
      BY <1>1, <1>3, <1>4, <1>5, <2>2 DEF Higher
    <2> QED
      BY <2>1, <2>2
  <1>7. n \in -1..len /\ Higher(n, 0) = have + k0
    BY <1>1, <1>3, <1>4 DEF Higher
  <1>8. n < len => n0 < want - have \/ co + (have + k0) >= cl
    BY <1>1, <1>3, <1>4
  <1>9. n = 0 /\ len > 0 => n0 = 0 /\ want - have > 0
    BY <1>1, <1>3, <1>4
  <1>10. co + (have + k0) <= cl
    BY <1>1, <1>3, <1>4
  <1> QED
    BY <1>1, <1>3, <1>4, <1>5, <1>6, <1>7, <1>8, <1>9, <1>10

\* What a read of len starts from: the content's length is settled at the first one.
Started(c, len) ==
    IF c.consumed_content = 0 /\ c.is_chunked = 1
    THEN [c EXCEPT !.content_len = len, !.is_chunked = 2]
    ELSE IF c.consumed_content = 0 /\ c.content_len = -1
    THEN [c EXCEPT !.content_len = Int64Max, !.must_close = TRUE]
    ELSE c

\* Both ways keep the types.
LEMMA SettledChunks ==
    ASSUME NEW c \in Conns, NEW len \in Nat
    PROVE  [c EXCEPT !.content_len = len, !.is_chunked = 2] \in Conns
  <1>1. len \in Int /\ 2 \in 0..3
    OBVIOUS
  <1> QED
    BY <1>1 DEF Conns

\* The other one.
LEMMA SettledLength ==
    ASSUME NEW c \in Conns, NEW len \in Int, NEW b \in BOOLEAN
    PROVE  [c EXCEPT !.content_len = len, !.must_close = b] \in Conns
  BY DEF Conns

\* Started leaves everything else alone.
LEMMA StartedIs ==
    ASSUME NEW c \in Conns, Loaded(c), NEW len \in Nat, NEW d, d = Started(c, len)
    PROVE  /\ d \in Conns /\ Kept(c, d) /\ Loaded(d) /\ Place(d) = Place(c) /\ Starts(c, len, d)
           /\ d.consumed_content = c.consumed_content /\ d.received = c.received
           /\ Sendable(d) = Sendable(c)
  <1>1. Int64Max \in Nat
    BY ConnectionAssumption
  <1>2. d \in Conns
    <2>1. CASE c.consumed_content = 0 /\ c.is_chunked = 1
      <3>1. d = [c EXCEPT !.content_len = len, !.is_chunked = 2]
        BY <2>1 DEF Started
      <3>2. [c EXCEPT !.content_len = len, !.is_chunked = 2] \in Conns
        BY SettledChunks
      <3> QED
        BY <3>1, <3>2
    <2>2. CASE ~ (c.consumed_content = 0 /\ c.is_chunked = 1)
      <3>1. d = c \/ d = [c EXCEPT !.content_len = Int64Max, !.must_close = TRUE]
        BY <2>2 DEF Started
      <3>2. Int64Max \in Int /\ 2 \in 0..3 /\ TRUE \in BOOLEAN
        BY <1>1
      <3> QED
        <4>1. [c EXCEPT !.content_len = Int64Max, !.must_close = TRUE] \in Conns
          BY <3>2, SettledLength
        <4> QED
          BY <3>1, <4>1
    <2> QED
      BY <2>1, <2>2
  <1>3. Kept(c, d) /\ d.consumed_content = c.consumed_content /\ d.received = c.received
    BY DEF Started, Conns, Kept
  <1>4. Starts(c, len, d)
    BY DEF Started, Conns, Starts, SameFrame
  <1>5. Sendable(d) = Sendable(c)
    BY <1>3 DEF Sendable, Kept
  <1>6. Place(d) = Place(c)
    BY <1>3 DEF Place, Kept
  <1>7. Loaded(d)
    BY <1>3, <1>5, <1>6 DEF Loaded, Kept
  <1> QED
    BY <1>2, <1>3, <1>4, <1>5, <1>6, <1>7

\* Kept says of a chain of reads what it says of each.
LEMMA KeptTransitive ==
    ASSUME NEW c, NEW d, NEW e, Kept(c, d), Kept(d, e)
    PROVE  Kept(c, e)
  BY DEF Kept

\* So do the settled length and what follows leaves alone.
LEMMA StartsOn ==
    ASSUME NEW c, NEW len, NEW d, NEW e, Starts(c, len, d), SameFrame(d, e)
    PROVE  Starts(c, len, e)
  <1>1. e.is_chunked = d.is_chunked /\ e.content_len = d.content_len /\ e.must_close = d.must_close
        /\ e.chunk_remainder = d.chunk_remainder /\ e.misframed = d.misframed
    BY DEF SameFrame
  <1>2. SameFrame(c, d) => SameFrame(c, e)
    BY <1>1 DEF SameFrame
  <1>3. e.must_close <=> d.must_close
    BY <1>1
  <1> QED
    BY <1>1, <1>2, <1>3 DEF Starts

\* mg_read_inner gives the next positions of the stream.
LEMMA ReadInner ==
    ASSUME NEW c \in Conns, Loaded(c), NEW len \in Nat, NEW r \in mg_read_inner(c, len),
           Sendable(c) \in Nat, faults \subseteq Faults
    PROVE  ReadOk(c, len, r)
  <1> DEFINE c1 == Started(c, len)
             want == Smaller(len, c1.content_len - c1.consumed_content)
             buffered == Smaller(want, c1.data_len - c1.request_len - c1.consumed_content)
             have == IF buffered > 0 THEN buffered ELSE 0
             body == SubSeq(c1.buf, c1.request_len + c1.consumed_content + 1,
                            c1.request_len + c1.consumed_content + have)
             c2 == [c1 EXCEPT !.consumed_content = @ + have]
  <1>1. r \in IF c1.consumed_content >= c1.content_len THEN {[n |-> 0, data |-> << >>, c |-> c1]}
              ELSE {[n |-> IF q.n >= 0 THEN have + q.n ELSE IF have > 0 THEN have ELSE q.n,
                     data |-> body \o q.data, c |-> q.c] : q \in pull_all(c2, want - have)}
    BY DEF mg_read_inner, Started
  <1>2. /\ c1 \in Conns /\ Kept(c, c1) /\ Loaded(c1) /\ Place(c1) = Place(c) /\ Starts(c, len, c1)
        /\ c1.consumed_content = c.consumed_content /\ c1.received = c.received
        /\ Sendable(c1) = Sendable(c)
    BY StartedIs
  <1> HIDE DEF c1
  \* The numbers of c1.
  <1>3. PICK b \in Nat, dl \in Nat, rl \in Nat, co \in Nat, cl \in Int, rec \in Nat :
           /\ b = c1.buf[1] /\ dl = c1.data_len /\ rl = c1.request_len /\ co = c1.consumed_content
           /\ cl = c1.content_len /\ rec = c1.received
    <2>1. BufSize \in Nat /\ 1 \in 1..BufSize
      BY ConnectionAssumption
    <2>2. c1.buf \in [1..BufSize -> Nat] /\ c1.data_len \in 0..BufSize /\ c1.consumed_content \in Nat
          /\ c1.content_len \in Int /\ c1.received \in Nat
      BY <1>2 DEF Conns
    <2>3. c1.request_len \in Nat
      BY <1>2, <2>1, <2>2 DEF Loaded
    <2>4. c1.buf[1] \in Nat /\ c1.data_len \in Nat
      BY <2>1, <2>2
    <2> QED
      BY <2>2, <2>3, <2>4, Zenon
  <1>4. /\ Place(c) = b + rl + co /\ rec = Higher(b + dl, b + rl + co) - 1 /\ b # 0
        /\ rec <= Sendable(c)
    <2>1. Place(c1) = b + rl + co
      BY <1>3 DEF Place
    <2>2. c1.received = Higher(c1.buf[1] + c1.data_len, Place(c1)) - 1 /\ c1.buf[1] # 0
          /\ c1.received <= Sendable(c1)
      BY <1>2 DEF Loaded
    <2> QED
      BY <1>2, <1>3, <2>1, <2>2
  <1>5. CASE co >= cl
    <2>1. r = [n |-> 0, data |-> << >>, c |-> c1]
      BY <1>1, <1>3, <1>5
    <2>2. Run(Place(c), 0) = << >> /\ Higher(0, 0) = 0
      BY EmptyRun DEF Higher
    <2>3. r.c = c1 /\ r.n = 0 /\ r.data = << >>
      BY <2>1
    <2>4. c1.consumed_content = c.consumed_content + 0 /\ c1.consumed_content >= c1.content_len
      BY <1>2, <1>3, <1>5
    <2>5. 0 \in -1..len
      OBVIOUS
    <2> QED
      BY <1>2, <2>2, <2>3, <2>4, <2>5 DEF ReadOk
  <1>6. CASE ~ (co >= cl)
    <2> HIDE DEF c2, want, buffered, have, body
    <2>1. PICK q \in pull_all(c2, want - have) :
             r = [n |-> IF q.n >= 0 THEN have + q.n ELSE IF have > 0 THEN have ELSE q.n,
                  data |-> body \o q.data, c |-> q.c]
      <3>1. ~ (c1.consumed_content >= c1.content_len)
        BY <1>3, <1>6
      <3> QED
        BY <1>1, <3>1
    <2>2. /\ co < cl /\ want = Smaller(len, cl - co) /\ buffered = Smaller(want, dl - rl - co)
          /\ have = IF buffered > 0 THEN buffered ELSE 0
          /\ body = SubSeq(c1.buf, c1.request_len + c1.consumed_content + 1,
                           c1.request_len + c1.consumed_content + have)
          /\ c2 = [c1 EXCEPT !.consumed_content = @ + have]
      BY <1>3, <1>6 DEF want, buffered, have, body, c2
    <2> DEFINE n0 == q.n
               k0 == Higher(q.n, 0)
               n == IF n0 >= 0 THEN have + n0 ELSE IF have > 0 THEN have ELSE n0
    <2>3. want \in Nat /\ have \in 0..want /\ want - have \in Nat /\ (have # 0 => rl + co + have <= dl)
      <3>1. want \in Nat /\ want <= cl - co
        BY <2>2 DEF Smaller
      <3>2. buffered <= want /\ buffered <= dl - rl - co /\ buffered \in Int
        BY <2>2, <3>1 DEF Smaller
      <3> QED
        BY <2>2, <3>1, <3>2, SMTT(30)
    <2>4. c2 \in Conns /\ Kept(c1, c2) /\ SameFrame(c1, c2)
          /\ c2.consumed_content = co + have /\ c2.received = rec /\ Sendable(c2) = Sendable(c)
      <3>1. have \in Nat /\ c1.consumed_content + have \in Nat
        BY <1>3, <2>3
      <3>2. c2 \in Conns
        BY <1>2, <2>2, <3>1 DEF Conns
      <3>3. Kept(c1, c2)
        BY <1>2, <2>2 DEF Conns, Kept
      <3>4. SameFrame(c1, c2)
        BY <1>2, <2>2 DEF Conns, SameFrame
      <3>5. c2.consumed_content = co + have /\ c2.received = rec
        BY <1>2, <1>3, <2>2 DEF Conns
      <3>6. c2.handled_requests = c1.handled_requests
        BY <3>3 DEF Kept
      <3>7. Sendable(c2) = Sendable(c1)
        BY <3>6 DEF Sendable
      <3> QED
        BY <1>2, <3>2, <3>3, <3>4, <3>5, <3>7
    <2>5. PullOk(c2, want - have, q)
      BY <2>3, <2>4, PullAll
    <2>6. /\ q.c \in Conns /\ Kept(c2, q.c) /\ SameFrame(c2, q.c)
          /\ n0 \in -1..want - have /\ q.data = Run(rec + 1, k0)
          /\ q.c.received = rec + k0 /\ q.c.consumed_content = co + have + k0
          /\ q.c.received <= Higher(rec, Sendable(c))
          /\ n0 < want - have => Broken(q.c)
          /\ n0 = 0 /\ want - have > 0 => q.c.late \/ q.c.stopped
      BY <2>4, <2>5 DEF PullOk
    <2>7. r.n = n /\ r.data = body \o q.data /\ r.c = q.c
      BY <2>1
    <2> HIDE DEF n, n0, k0
    <2>8. /\ k0 \in 0..want - have
          /\ k0 # 0 => rec + 1 = b + rl + co + have
          /\ rec + k0 = Higher(b + dl, b + rl + co + (have + k0)) - 1
          /\ n \in -1..len /\ Higher(n, 0) = have + k0
          /\ n < len => n0 < want - have \/ co + (have + k0) >= cl
          /\ n = 0 /\ len > 0 => n0 = 0 /\ want - have > 0
          /\ co + (have + k0) <= cl
      <3>1. k0 = Higher(n0, 0) /\ n = IF n0 >= 0 THEN have + n0 ELSE IF have > 0 THEN have ELSE n0
        BY DEF n, n0, k0
      <3>2. n0 \in -1..want - have /\ rec = Higher(b + dl, b + rl + co) - 1
        BY <1>4, <2>6
      <3>3. Reckoned(b, dl, rl, co, cl, len, want, buffered, have, rec, n0, k0, n)
        BY <2>2, <3>1, <3>2 DEF Reckoned
      <3> QED
        BY <3>3, ReadNumbers
    <2>9. body = Run(Place(c), have)
      <3>1. CASE have = 0
        <4>1. body = << >>
          <5>1. rl + co + 1 \in Int /\ rl + co + have \in Int /\ rl + co + have < rl + co + 1
            BY <3>1
          <5>2. SubSeq(c1.buf, rl + co + 1, rl + co + have) = << >>
            BY <5>1, SubSeqEmpty
          <5> QED
            BY <1>3, <2>2, <5>2
        <4> QED
          BY <3>1, <4>1, EmptyRun
      <3>2. CASE have # 0
        <4>1. have \in Nat /\ c1.request_len + c1.consumed_content + have <= c1.data_len
          BY <1>3, <2>3, <3>2
        <4>2. body = Run(Place(c1), have)
          BY <1>2, <2>2, <4>1, BufferedRun
        <4> QED
          BY <1>2, <4>2
      <3> QED
        BY <3>1, <3>2
    <2>10. r.data = Run(Place(c), have + k0)
      <3>1. q.data = Run(Place(c) + have, k0)
        <4>1. CASE k0 = 0
          BY <2>6, <4>1, EmptyRun
        <4>2. CASE k0 # 0
          BY <1>4, <2>6, <2>8, <4>2
        <4> QED
          BY <4>1, <4>2
      <3>2. Place(c) \in Nat \ {0} /\ have \in Nat /\ k0 \in Nat
        BY <1>4, <2>3, <2>8
      <3> QED
        <4>1. Run(Place(c), have) \o Run(Place(c) + have, k0) = Run(Place(c), have + k0)
          BY <3>2, RunConcat
        <4> QED
          BY <2>7, <2>9, <3>1, <4>1
    <2>11. q.c.received <= Sendable(c1)
      BY <1>2, <1>4, <2>6 DEF Higher
    <2>12. Loaded(q.c) /\ Kept(c1, q.c)
      <3>1. Kept(c1, q.c)
        BY <2>4, <2>6, KeptTransitive
      <3>a. have \in Nat /\ k0 \in Nat /\ co \in Nat
        BY <2>3, <2>8
      <3>b. q.c.consumed_content = co + have + k0 /\ c1.consumed_content = co
        BY <1>3, <2>6
      <3>2. have + k0 \in Nat /\ q.c.consumed_content = c1.consumed_content + (have + k0)
        BY <3>a, <3>b
      <3>3. q.c.received = Higher(c1.buf[1] + c1.data_len, Place(c1) + (have + k0)) - 1
        BY <1>2, <1>3, <1>4, <2>6, <2>8
      <3> QED
        BY <1>2, <2>6, <2>11, <3>1, <3>2, <3>3, LoadedOn
    <2>13. Starts(c, len, q.c)
      <3>1. Starts(c, len, c2)
        BY <1>2, <2>4, StartsOn
      <3> QED
        BY <2>6, <3>1, StartsOn
    <2>14. q.c.content_len = cl /\ q.c.consumed_content = co + (have + k0)
      <3>1. q.c.content_len = cl
        BY <1>3, <2>4, <2>6 DEF SameFrame
      <3> QED
        BY <2>3, <2>6, <2>8, <3>1
    <2>15. Kept(c, q.c)
      BY <1>2, <2>12, KeptTransitive
    <2>16. q.c.consumed_content = c.consumed_content + (have + k0)
      BY <1>2, <1>3, <2>14
    <2>17. n < len => Broken(q.c) \/ q.c.consumed_content >= q.c.content_len
      BY <2>6, <2>8, <2>14
    <2>18. n = 0 /\ len > 0 => q.c.late \/ q.c.stopped
      BY <2>6, <2>8
    <2>19. q.c.consumed_content <= q.c.content_len
      BY <2>8, <2>14
    <2>20. Higher(n, 0) = have + k0 /\ n \in -1..len
      BY <2>8
    <2> QED
      BY <2>6, <2>7, <2>10, <2>12, <2>13, <2>15, <2>16, <2>17, <2>18, <2>19, <2>20 DEF ReadOk
  <1> QED
    BY <1>5, <1>6

-----------------------------------------------------------------------------
(* Reading chunks.                                                         *)

\* The state of a chunked content.
Chunky(c) ==
    /\ c.is_chunked \in 1..3
    /\ c.is_chunked = 1 => c.consumed_content = 0 /\ c.chunk_remainder = 0 /\ c.content_len = -1
    /\ c.is_chunked # 1 => c.content_len >= c.consumed_content

\* What reading a part leaves alone.
PartState(c, d) ==
    /\ d \in Conns /\ Kept(c, d) /\ Loaded(d) /\ Chunky(d) /\ d.is_chunked = 2
    /\ d.chunk_remainder = c.chunk_remainder /\ d.misframed = c.misframed /\ d.must_close = c.must_close

\* What a read of now bytes more than the content was known to have gives.
PartOk(c, now, r) ==
    LET k == Higher(r.n, 0) IN
    /\ PartState(c, r.c)
    /\ r.n \in -1..now /\ r.data = Run(Place(c), k)
    /\ Place(c) \in Nat \ {0} /\ Place(r.c) = Place(c) + k /\ Place(r.c) - 1 <= Sendable(c)

\* Where a loaded connection reads on.
LEMMA PlaceIs ==
    ASSUME NEW c \in Conns, Loaded(c), Sendable(c) \in Nat
    PROVE  Place(c) \in Nat \ {0} /\ Place(c) - 1 <= Sendable(c) /\ Place(c) - 1 <= c.received
           /\ c.buf[1] \in Nat \ {0} /\ c.request_len \in Nat \ {0} /\ c.consumed_content \in Nat
           /\ c.data_len \in Nat /\ c.request_len <= c.data_len /\ c.received \in Nat
  <1>1. BufSize \in Nat /\ 1 \in 1..BufSize
    BY ConnectionAssumption
  <1>2. c.buf \in [1..BufSize -> Nat] /\ c.consumed_content \in Nat /\ c.data_len \in 0..BufSize
        /\ c.received \in Nat
    BY DEF Conns
  <1>3. c.request_len \in 1..c.data_len /\ c.buf[1] # 0
        /\ c.received = Higher(c.buf[1] + c.data_len, Place(c)) - 1 /\ c.received <= Sendable(c)
    BY DEF Loaded
  <1>4. c.buf[1] \in Nat \ {0} /\ c.data_len \in Nat
    BY <1>1, <1>2, <1>3
  <1>5. Place(c) \in Nat \ {0}
    BY <1>2, <1>3, <1>4 DEF Place
  <1>6. c.received >= Place(c) - 1
    BY <1>2, <1>3, <1>4, <1>5 DEF Higher
  <1>7. Place(c) - 1 <= Sendable(c)
    BY <1>2, <1>3, <1>5, <1>6
  <1> QED
    BY <1>1, <1>2, <1>3, <1>4, <1>5, <1>6, <1>7

\* A read of a part of a chunk, or of a byte around it.
LEMMA ReadPart ==
    ASSUME NEW c \in Conns, Loaded(c), Chunky(c), c.is_chunked # 3, NEW now \in Nat \ {0},
           NEW r \in mg_read_inner([c EXCEPT !.content_len = @ + now], now),
           Sendable(c) \in Nat, faults \subseteq Faults
    PROVE  PartOk(c, now, r)
  <1> DEFINE b == [c EXCEPT !.content_len = @ + now]
  <1>1. b \in Conns /\ b.content_len = c.content_len + now
    <2>1. c.content_len + now \in Int
      BY DEF Conns
    <2> QED
      BY <2>1 DEF Conns
  <1>2. /\ b.is_chunked = c.is_chunked /\ b.chunk_remainder = c.chunk_remainder
        /\ b.consumed_content = c.consumed_content /\ b.received = c.received
        /\ b.request_len = c.request_len /\ b.data_len = c.data_len /\ b.buf = c.buf
        /\ b.handled_requests = c.handled_requests
    BY DEF Conns
  <1>3. Kept(c, b) /\ b.misframed = c.misframed /\ b.must_close = c.must_close
    BY DEF Conns, Kept
  <1> HIDE DEF b
  <1>4. Place(b) = Place(c) /\ Sendable(b) = Sendable(c)
    BY <1>2 DEF Place, Sendable
  <1>5. Loaded(b)
    BY <1>2, <1>4 DEF Loaded
  <1>6. r \in mg_read_inner(b, now)
    BY DEF b
  <1>7. ReadOk(b, now, r)
    BY <1>1, <1>4, <1>5, <1>6, ReadInner
  <1> DEFINE d == r.c
             k == Higher(r.n, 0)
  <1>8. /\ d \in Conns /\ Kept(b, d) /\ Loaded(d) /\ Starts(b, now, d)
        /\ r.n \in -1..now /\ r.data = Run(Place(c), k)
        /\ d.consumed_content = b.consumed_content + k
        /\ r.n > 0 => d.consumed_content <= d.content_len
    BY <1>4, <1>7 DEF ReadOk
  <1> HIDE DEF d
  <1>9. k \in Nat /\ (r.n <= 0 => k = 0)
    BY <1>8 DEF Higher
  <1> HIDE DEF k
  <1>10. Kept(c, d)
    BY <1>3, <1>8, KeptTransitive
  <1>11. c.consumed_content \in Nat /\ c.content_len \in Int /\ c.is_chunked \in 1..2
    BY DEF Conns, Chunky
  <1>12. d.is_chunked = 2 /\ d.content_len >= d.consumed_content
         /\ d.chunk_remainder = c.chunk_remainder
    <2>1. CASE c.is_chunked = 1
      <3>1. c.consumed_content = 0
        BY <2>1 DEF Chunky
      <3>2. d.is_chunked = 2 /\ d.content_len = now /\ d.chunk_remainder = b.chunk_remainder
        BY <1>2, <1>8, <2>1, <3>1 DEF Starts
      <3>3. d.consumed_content = k
        BY <1>2, <1>8, <1>9, <3>1
      <3>4. r.n <= 0 \/ r.n > 0
        BY <1>8
      <3> QED
        BY <1>2, <1>8, <1>9, <3>2, <3>3, <3>4
    <2>2. CASE c.is_chunked = 2
      <3>1. c.content_len >= c.consumed_content
        BY <2>2 DEF Chunky
      <3>2. b.content_len # -1 /\ b.is_chunked = 2
        BY <1>1, <1>2, <1>11, <2>2, <3>1
      <3>3. SameFrame(b, d) /\ d.chunk_remainder = b.chunk_remainder
        BY <1>8, <3>2 DEF Starts
      <3>4. d.content_len = c.content_len + now /\ d.is_chunked = 2
        BY <1>1, <3>2, <3>3 DEF SameFrame
      <3>5. r.n <= 0 \/ r.n > 0
        BY <1>8
      <3>6. CASE r.n > 0
        BY <1>2, <1>8, <3>3, <3>4, <3>6
      <3>7. CASE r.n <= 0
        <4>1. d.consumed_content = c.consumed_content
          BY <1>2, <1>8, <1>9, <1>11, <3>7
        <4> QED
          BY <1>2, <1>11, <3>1, <3>3, <3>4, <4>1
      <3> QED
        BY <3>5, <3>6, <3>7
    <2> QED
      BY <1>11, <2>1, <2>2
  <1>13. d.misframed = c.misframed
    BY <1>3, <1>8 DEF Starts
  <1>14. d.must_close = c.must_close
    <2>1. CASE c.is_chunked = 1
      <3>1. c.consumed_content = 0
        BY <2>1 DEF Chunky
      <3> QED
        BY <1>2, <1>3, <1>8, <2>1, <3>1 DEF Starts
    <2>2. CASE c.is_chunked = 2
      <3>1. c.content_len >= c.consumed_content
        BY <2>2 DEF Chunky
      <3>2. b.content_len # -1 /\ b.is_chunked = 2
        BY <1>1, <1>2, <1>11, <2>2, <3>1
      <3>3. SameFrame(b, d)
        BY <1>8, <3>2 DEF Starts
      <3> QED
        BY <1>3, <3>3 DEF SameFrame
    <2> QED
      BY <1>11, <2>1, <2>2
  <1>15. Place(d) = Place(c) + k
    <2>1. d.buf = c.buf /\ d.request_len = c.request_len /\ d.consumed_content = c.consumed_content + k
      BY <1>2, <1>8, <1>10 DEF Kept
    <2>2. c.buf[1] \in Nat /\ c.request_len \in Nat
      BY PlaceIs
    <2> QED
      BY <1>9, <1>11, <2>1, <2>2 DEF Place
  <1>16. Place(c) \in Nat \ {0} /\ Place(d) - 1 <= Sendable(c)
    <2>2. Sendable(d) = Sendable(c)
      BY <1>10 DEF Sendable, Kept
    <2>1. Place(d) - 1 <= Sendable(d)
      BY <1>8, <2>2, PlaceIs
    <2> QED
      BY <2>1, <2>2, PlaceIs
  <1>17. Chunky(d)
    BY <1>12 DEF Chunky
  <1> QED
    BY <1>8, <1>10, <1>12, <1>13, <1>14, <1>15, <1>16, <1>17 DEF PartOk, PartState, d, k

\* Streams and faults.
StreamOk == stream \in Seq(Tokens) /\ faults \subseteq Faults

\* A stream has tokens, and no message is longer than it.
LEMMA SentIs ==
    ASSUME StreamOk, NEW m
    PROVE  Sent(m) \in 0..Len(stream) /\ Len(stream) \in Nat
  <1> DEFINE S == {p \in 1..Len(stream) : stream[p].m <= m}
  <1>1. Len(stream) \in Nat
    BY DEF StreamOk
  <1>2. IsFiniteSet(1..Len(stream)) /\ Cardinality(1..Len(stream)) = Len(stream)
    <2>1. IsFiniteSet(1..Len(stream))
          /\ Cardinality(1..Len(stream)) = IF 1 > Len(stream) THEN 0 ELSE Len(stream) - 1 + 1
      BY <1>1, FS_Interval, SMTT(30)
    <2> QED
      BY <1>1, <2>1
  <1>3. S \subseteq 1..Len(stream)
    OBVIOUS
  <1>4. IsFiniteSet(S) /\ Cardinality(S) <= Cardinality(1..Len(stream))
    BY <1>2, <1>3, FS_Subset
  <1>5. Cardinality(S) \in Nat
    BY <1>4, FS_CardinalityType
  <1> QED
    BY <1>1, <1>2, <1>4, <1>5 DEF Sent

\* So is what may be sent.
LEMMA SendableIs ==
    ASSUME StreamOk, NEW c
    PROVE  Sendable(c) \in Nat /\ Sendable(c) <= Len(stream) /\ Len(stream) \in Nat /\ faults \subseteq Faults
  <1>1. Sent(c.handled_requests + 1) \in 0..Len(stream) /\ Len(stream) \in Nat
    BY SentIs
  <1> QED
    BY <1>1 DEF Sendable, StreamOk

\* What reading parts leaves alone, several of them do.
LEMMA PartTransitive ==
    ASSUME NEW c, NEW d, NEW e, PartState(c, d), PartState(d, e)
    PROVE  PartState(c, e)
  <1>1. Kept(c, e)
    BY KeptTransitive DEF PartState
  <1>2. e.chunk_remainder = c.chunk_remainder /\ e.misframed = c.misframed /\ e.must_close = c.must_close
    BY DEF PartState
  <1> QED
    BY <1>1, <1>2 DEF PartState

\* mg_getc gives the byte at the place.
LEMMA GetcIs ==
    ASSUME StreamOk, NEW c \in Conns, Loaded(c), Chunky(c), c.is_chunked # 3, NEW r \in mg_getc(c)
    PROVE  /\ PartState(c, r.c) /\ Place(c) \in Nat \ {0}
           /\ r.n = 1 => /\ Place(c) \in 1..Len(stream) /\ At(r.data[1]) = stream[Place(c)]
                         /\ Place(r.c) = Place(c) + 1
  <1>1. Sendable(c) \in Nat /\ Sendable(c) <= Len(stream) /\ Len(stream) \in Nat /\ faults \subseteq Faults
    BY SendableIs
  <1>2. r \in mg_read_inner([c EXCEPT !.content_len = @ + 1], 1)
    BY DEF mg_getc
  <1>3. PartOk(c, 1, r)
    BY <1>1, <1>2, ReadPart
  <1>4. ASSUME r.n = 1
        PROVE  /\ Place(c) \in 1..Len(stream) /\ At(r.data[1]) = stream[Place(c)]
               /\ Place(r.c) = Place(c) + 1
    <2>1. /\ r.data = Run(Place(c), Higher(1, 0)) /\ Place(c) \in Nat \ {0}
          /\ Place(r.c) = Place(c) + Higher(1, 0) /\ Place(r.c) - 1 <= Sendable(c)
      BY <1>3, <1>4 DEF PartOk
    <2>2. Higher(1, 0) = 1
      BY DEF Higher
    <2>3. Run(Place(c), 1)[1] = Place(c)
      <3> DEFINE p == Place(c)
      <3>1. p \in Nat
        BY <2>1
      <3> HIDE DEF p
      <3>2. Run(p, 1)[1] = p
        BY <3>1 DEF Run
      <3> QED
        BY <3>2 DEF p
    <2>4. r.data[1] = Place(c) /\ Place(c) # 0
      BY <2>1, <2>2, <2>3
    <2> QED
      BY <1>1, <2>1, <2>2, <2>4 DEF At
  <1> QED
    BY <1>3, <1>4 DEF PartOk

\* Where ChunkEnds finds a line end, it is behind it.
LEMMA ChunkEndsIs ==
    ASSUME StreamOk, NEW c \in Conns, Loaded(c), Chunky(c), c.is_chunked # 3, NEW e \in ChunkEnds(c)
    PROVE  /\ PartState(c, e.c)
           /\ e.ok => /\ Place(c) \in 1..Len(stream) /\ stream[Place(c)].t = "e"
                      /\ Place(e.c) = Place(c) + 1
  <1>1. PICK r \in mg_getc(c) :
           e \in IF Got(r, "e") THEN {[ok |-> TRUE, c |-> r.c]}
                 ELSE {[ok |-> FALSE, c |-> x.c] : x \in mg_getc(r.c)}
    BY DEF ChunkEnds
  <1>2. /\ PartState(c, r.c)
        /\ r.n = 1 => /\ Place(c) \in 1..Len(stream) /\ At(r.data[1]) = stream[Place(c)]
                      /\ Place(r.c) = Place(c) + 1
    BY GetcIs
  <1>3. CASE Got(r, "e")
    <2>1. e.c = r.c
      BY <1>1, <1>3
    <2>2. r.n = 1 /\ At(r.data[1]).t = "e"
      BY <1>3 DEF Got
    <2> QED
      BY <1>2, <2>1, <2>2
  <1>4. CASE ~Got(r, "e")
    <2>1. PICK x \in mg_getc(r.c) : e = [ok |-> FALSE, c |-> x.c]
      BY <1>1, <1>4
    <2>2. r.c \in Conns /\ Loaded(r.c) /\ Chunky(r.c) /\ r.c.is_chunked # 3
      BY <1>2 DEF PartState
    <2>3. PartState(r.c, x.c)
      BY <2>2, GetcIs
    <2>4. PartState(c, x.c)
      BY <1>2, <2>3, PartTransitive
    <2>5. ~e.ok /\ e.c = x.c
      BY <2>1
    <2> QED
      BY <2>4, <2>5
  <1> QED
    BY <1>3, <1>4

\* Where ChunkBegins finds a size line, it gives the size and is behind it.
LEMMA ChunkBeginsIs ==
    ASSUME StreamOk, NEW c \in Conns, Loaded(c), Chunky(c), c.is_chunked # 3, NEW b \in ChunkBegins(c)
    PROVE  /\ PartState(c, b.c)
           /\ b.ok => /\ Place(c) \in 1..Len(stream) /\ stream[Place(c)].t = "d"
                      /\ Place(c) + 1 \in 1..Len(stream) /\ stream[Place(c) + 1].t = "e"
                      /\ b.n = stream[Place(c)].n
                      /\ Place(b.c) = Place(c) + 2
  <1>1. PICK d \in mg_getc(c) :
           b \in IF ~Got(d, "d") THEN {[ok |-> FALSE, n |-> 0, c |-> d.c]}
                 ELSE {[ok |-> Got(e, "e"), n |-> At(d.data[1]).n, c |-> e.c] : e \in mg_getc(d.c)}
    BY DEF ChunkBegins
  <1>2. /\ PartState(c, d.c) /\ Place(c) \in Nat \ {0}
        /\ d.n = 1 => /\ Place(c) \in 1..Len(stream) /\ At(d.data[1]) = stream[Place(c)]
                      /\ Place(d.c) = Place(c) + 1
    BY GetcIs
  <1>3. CASE ~Got(d, "d")
    <2>1. b.c = d.c /\ ~b.ok
      BY <1>1, <1>3
    <2> QED
      BY <1>2, <2>1
  <1>4. CASE Got(d, "d")
    <2>1. PICK e \in mg_getc(d.c) : b = [ok |-> Got(e, "e"), n |-> At(d.data[1]).n, c |-> e.c]
      BY <1>1, <1>4
    <2>2. d.c \in Conns /\ Loaded(d.c) /\ Chunky(d.c) /\ d.c.is_chunked # 3
      BY <1>2 DEF PartState
    <2>3. /\ PartState(d.c, e.c)
          /\ e.n = 1 => /\ Place(d.c) \in 1..Len(stream) /\ At(e.data[1]) = stream[Place(d.c)]
                        /\ Place(e.c) = Place(d.c) + 1
      BY <2>2, GetcIs
    <2>4. PartState(c, e.c)
      BY <1>2, <2>3, PartTransitive
    <2>5. d.n = 1 /\ At(d.data[1]).t = "d"
      BY <1>4 DEF Got
    <2>6. (b.ok <=> Got(e, "e")) /\ b.c = e.c /\ b.n = At(d.data[1]).n
      BY <2>1
    <2>7. ASSUME b.ok
          PROVE  /\ Place(c) \in 1..Len(stream) /\ stream[Place(c)].t = "d"
                 /\ Place(c) + 1 \in 1..Len(stream) /\ stream[Place(c) + 1].t = "e"
                 /\ b.n = stream[Place(c)].n
                 /\ Place(b.c) = Place(c) + 2
      <3>1. e.n = 1 /\ At(e.data[1]).t = "e"
        BY <2>6, <2>7 DEF Got
      <3>2. Place(d.c) = Place(c) + 1 /\ Place(c) \in Nat
        BY <1>2, <2>5
      <3>3. Place(e.c) = Place(c) + 2
        BY <2>3, <3>1, <3>2
      <3>4. stream[Place(c)].t = "d" /\ b.n = stream[Place(c)].n /\ Place(c) \in 1..Len(stream)
        BY <1>2, <2>5, <2>6
      <3>5. Place(c) + 1 \in 1..Len(stream) /\ stream[Place(c) + 1].t = "e"
        BY <2>3, <3>1, <3>2
      <3> QED
        BY <2>6, <3>3, <3>4, <3>5
    <2> QED
      BY <2>4, <2>6, <2>7
  <1> QED
    BY <1>3, <1>4

\* Where nothing is read, the connection stays loaded.
LEMMA LoadedStill ==
    ASSUME NEW c, Loaded(c), NEW d, Kept(c, d), d.consumed_content = c.consumed_content,
           d.received = c.received
    PROVE  Loaded(d) /\ Place(d) = Place(c) /\ Sendable(d) = Sendable(c)
  <1>1. d.buf = c.buf /\ d.request_len = c.request_len /\ d.data_len = c.data_len
        /\ d.handled_requests = c.handled_requests
    BY DEF Kept
  <1>2. Place(d) = Place(c)
    BY <1>1 DEF Place
  <1>3. Sendable(d) = Sendable(c)
    BY <1>1 DEF Sendable
  <1> QED
    BY <1>1, <1>2, <1>3 DEF Loaded

\* What the loop of mg_read notes between two reads.
LEMMA Noted ==
    ASSUME NEW c \in Conns, Loaded(c), Chunky(c), c.is_chunked = 2, NEW n \in Nat
    PROVE  /\ LET d == [c EXCEPT !.chunk_remainder = n] IN
              /\ d \in Conns /\ Kept(c, d) /\ Loaded(d) /\ Chunky(d) /\ Place(d) = Place(c)
              /\ d.is_chunked = 2 /\ d.chunk_remainder = n /\ d.must_close = c.must_close
           /\ LET d == [c EXCEPT !.misframed = TRUE] IN
              /\ d \in Conns /\ Kept(c, d) /\ Loaded(d) /\ Chunky(d) /\ Place(d) = Place(c)
              /\ d.is_chunked = 2 /\ d.misframed /\ d.must_close = c.must_close
           /\ LET d == [c EXCEPT !.is_chunked = 3] IN
              /\ d \in Conns /\ Kept(c, d) /\ Loaded(d) /\ Chunky(d) /\ Place(d) = Place(c)
              /\ d.is_chunked = 3 /\ d.must_close = c.must_close
  <1>1. c.content_len >= c.consumed_content
    BY DEF Chunky
  <1>2. ASSUME NEW d, d = [c EXCEPT !.chunk_remainder = n]
        PROVE  /\ d \in Conns /\ Kept(c, d) /\ Loaded(d) /\ Chunky(d) /\ Place(d) = Place(c)
               /\ d.is_chunked = 2 /\ d.chunk_remainder = n /\ d.must_close = c.must_close
    <2>1. d \in Conns
      BY <1>2 DEF Conns
    <2>2. Kept(c, d)
      BY <1>2 DEF Conns, Kept
    <2>3. d.is_chunked = 2 /\ d.chunk_remainder = n /\ d.content_len = c.content_len
          /\ d.consumed_content = c.consumed_content /\ d.received = c.received
      BY <1>2 DEF Conns
    <2>4. d.must_close = c.must_close
      BY <1>2 DEF Conns
    <2>5. Chunky(d)
      BY <1>1, <2>3 DEF Chunky
    <2> QED
      BY <2>1, <2>2, <2>3, <2>4, <2>5, LoadedStill
  <1>3. ASSUME NEW d, d = [c EXCEPT !.misframed = TRUE]
        PROVE  /\ d \in Conns /\ Kept(c, d) /\ Loaded(d) /\ Chunky(d) /\ Place(d) = Place(c)
               /\ d.is_chunked = 2 /\ d.misframed /\ d.must_close = c.must_close
    <2>1. d \in Conns
      BY <1>3 DEF Conns
    <2>2. Kept(c, d)
      BY <1>3 DEF Conns, Kept
    <2>3. d.is_chunked = 2 /\ d.content_len = c.content_len
          /\ d.consumed_content = c.consumed_content /\ d.received = c.received
      BY <1>3 DEF Conns
    <2>4. d.must_close = c.must_close
      BY <1>3 DEF Conns
    <2>5. Chunky(d)
      BY <1>1, <2>3 DEF Chunky
    <2>6. d.misframed
      BY <1>3 DEF Conns
    <2> QED
      BY <2>1, <2>2, <2>3, <2>4, <2>5, <2>6, LoadedStill
  <1>4. ASSUME NEW d, d = [c EXCEPT !.is_chunked = 3]
        PROVE  /\ d \in Conns /\ Kept(c, d) /\ Loaded(d) /\ Chunky(d) /\ Place(d) = Place(c)
               /\ d.is_chunked = 3 /\ d.must_close = c.must_close
    <2>a. 3 \in 0..3
      OBVIOUS
    <2>1. d \in Conns
      BY <1>4, <2>a DEF Conns
    <2>2. Kept(c, d)
      BY <1>4 DEF Conns, Kept
    <2>3. d.is_chunked = 3 /\ d.content_len = c.content_len
          /\ d.consumed_content = c.consumed_content /\ d.received = c.received
      BY <1>4 DEF Conns
    <2>4. d.must_close = c.must_close
      BY <1>4 DEF Conns
    <2>5. Chunky(d)
      BY <1>1, <2>3 DEF Chunky
    <2> QED
      BY <2>1, <2>2, <2>3, <2>4, <2>5, LoadedStill
  <1> QED
    BY <1>2, <1>3, <1>4

\* Where a chunk's size, and where the line end behind it or behind a chunk, stands.
SizeAt(m, p) == p \in 1..Len(stream) /\ stream[p].t = "d" /\ ~stream[p].data /\ stream[p].m = m
\* The line that announces a chunk of message m ends at p.
LineEndAt(m, p) == p \in 1..Len(stream) /\ stream[p].t = "e" /\ ~stream[p].data /\ stream[p].m = m

\* Message m has chunks; over: by how much they are longer than they say.
ChunksOf(m, over) ==
    \A p \in 1..Len(stream) : SizeAt(m, p) =>
        /\ stream[p].n \in Nat /\ LineEndAt(m, p + 1)
        /\ stream[p].n = 0 => /\ LineEndAt(m, p + 2) /\ p + 2 = Sent(m)
                              /\ \A i \in p + 1..Len(stream) : ~ (stream[i].m = m /\ stream[i].data)
        /\ stream[p].n # 0 =>
              /\ \A i \in p + 2..p + 1 + stream[p].n + over :
                    i \in 1..Len(stream) /\ stream[i].m = m /\ stream[i].data
              /\ LineEndAt(m, p + 2 + stream[p].n + over)
              /\ SizeAt(m, p + 3 + stream[p].n + over)

\* The connection is where the next size stands, inside a chunk, behind the last chunk, or behind a
\* byte of a miscounted chunk that was taken for the line end.
InChunk(c, m, over) ==
    \/ c.is_chunked \in {1, 2} /\ c.chunk_remainder = 0 /\ SizeAt(m, Place(c))
    \/ /\ c.is_chunked = 2 /\ c.chunk_remainder # 0
       /\ \E p \in 1..Len(stream) :
             /\ SizeAt(m, p) /\ stream[p].n # 0
             /\ Place(c) >= p + 2 /\ Place(c) + c.chunk_remainder = p + 2 + stream[p].n
    \/ /\ c.is_chunked = 3
       /\ \E p \in 1..Len(stream) : SizeAt(m, p) /\ stream[p].n = 0 /\ Place(c) = p + 2
    \/ c.is_chunked = 2 /\ c.chunk_remainder = 0 /\ over = 1 /\ LineEndAt(m, Place(c))

\* What was read since c0 is what the content has there.
Joined(c0, c, m, data) == ContentUpTo(m)[Place(c) - 1] = ContentUpTo(m)[Place(c0) - 1] \o data

\* What a read of chunks has come to.
Reads == [n: Int, data: Seq(1..Len(stream)), c: Conns, more: Nat]

\* The loop of mg_read, reading len from c0 on.
ReadState(c0, len, r) ==
    /\ r \in Reads /\ Kept(c0, r.c) /\ Loaded(r.c) /\ Chunky(r.c) /\ r.c.must_close = c0.must_close
    /\ r.n >= -1
    /\ r.n = -1 => r.more = 0 /\ r.c.misframed
    /\ r.more = 0 => r.c.is_chunked # 1
    /\ r.c.is_chunked = 3 /\ r.more # 0 => r.n = 0
    /\ r.n = 0 => r.data = << >> /\ (r.more = len \/ r.c.is_chunked = 3)

\* A read of chunks that began with c0 has come to r, over the content of message m.
ReadChunked(c0, m, over, r) ==
    r.n >= 0 => InChunk(r.c, m, over) /\ (over = 0 => Joined(c0, r.c, m, r.data))

\* Tokens of the stream.
LEMMA TokenOf ==
    ASSUME StreamOk, NEW p \in 1..Len(stream)
    PROVE  stream[p] \in Tokens /\ stream[p].n \in Nat
  <1>1. stream[p] \in Tokens
    BY DEF StreamOk
  <1> QED
    BY <1>1 DEF Tokens

\* A connection whose chunks do not fit.
LEMMA MisframedIs ==
    ASSUME NEW c0, NEW len, NEW m, NEW over, NEW c \in Conns, Kept(c0, c), Loaded(c), Chunky(c),
           c.is_chunked = 2, c.must_close = c0.must_close, NEW r \in Misframed(c)
    PROVE  ReadState(c0, len, r) /\ ReadChunked(c0, m, over, r)
  <1> DEFINE d == [c EXCEPT !.misframed = TRUE]
  <1>1. r = [n |-> -1, data |-> << >>, c |-> d, more |-> 0]
    BY DEF Misframed
  <1>2. /\ d \in Conns /\ Kept(c, d) /\ Loaded(d) /\ Chunky(d) /\ d.is_chunked = 2 /\ d.misframed
        /\ d.must_close = c.must_close
    <2>1. 0 \in Nat
      OBVIOUS
    <2> HIDE DEF d
    <2> QED
      BY <2>1, Noted DEF d
  <1> HIDE DEF d
  <1>3. Kept(c0, d)
    BY <1>2, KeptTransitive
  <1>4. r \in Reads
    BY <1>1, <1>2 DEF Reads
  <1>5. r.n = -1 /\ r.more = 0 /\ r.c = d
    BY <1>1
  <1> QED
    BY <1>2, <1>3, <1>4, <1>5 DEF ReadState, ReadChunked

\* Between two places without content nothing is joined.
LEMMA JoinedAcross ==
    ASSUME StreamOk, NEW c0, NEW c, NEW d, NEW m, NEW data, Joined(c0, c, m, data),
           Place(c) \in Nat \ {0}, NEW k \in Nat, Place(d) = Place(c) + k, Place(d) - 1 <= Len(stream),
           \A i \in Place(c)..Place(d) - 1 : ~ (stream[i].m = m /\ stream[i].data)
    PROVE  Joined(c0, d, m, data)
  <1> DEFINE p == Place(c) - 1
             q == Place(d) - 1
  <1>1. Len(stream) \in Nat
    BY DEF StreamOk
  <1>2. p \in 0..Len(stream) /\ q \in p..Len(stream)
    BY <1>1
  <1>3. \A i \in p + 1..q : ~ (stream[i].m = m /\ stream[i].data)
    BY <1>1
  <1> HIDE DEF p, q
  <1>4. ContentUpTo(m)[q] = ContentUpTo(m)[p]
    BY <1>1, <1>2, <1>3, ContentAcross
  <1> QED
    BY <1>4 DEF Joined, p, q

\* Three sequences of the same kind.
Sequences3(S, a, b, c) == a \in Seq(S) /\ b \in Seq(S) /\ c \in Seq(S)
\* Concatenation, to fold with.
Cat(a, b) == a \o b

\* They can be put together from either end.
LEMMA Associative ==
    ASSUME NEW S, NEW a, NEW b, NEW c, Sequences3(S, a, b, c)
    PROVE  Cat(Cat(a, b), c) = Cat(a, Cat(b, c))
  BY DEF Sequences3, Cat

\* A content that was read is joined.
LEMMA JoinedAlong ==
    ASSUME StreamOk, NEW c0, NEW c, NEW d, NEW m, NEW data \in Seq(1..Len(stream)), Joined(c0, c, m, data),
           Place(c0) \in Nat \ {0}, Place(c0) - 1 <= Len(stream),
           Place(c) \in Nat \ {0}, NEW k \in Nat, Place(d) = Place(c) + k, Place(d) - 1 <= Len(stream),
           \A i \in Place(c)..Place(d) - 1 : stream[i].m = m /\ stream[i].data
    PROVE  Joined(c0, d, m, data \o Run(Place(c), k)) /\ Run(Place(c), k) \in Seq(1..Len(stream))
  <1> DEFINE p == Place(c)
             a == ContentUpTo(m)[Place(c0) - 1]
             S == 1..Len(stream)
             run == Run(p, k)
  <1>1. Len(stream) \in Nat
    BY DEF StreamOk
  <1>2. p \in 1..Len(stream) + 1 /\ p + k - 1 <= Len(stream) /\ Place(d) - 1 = p + k - 1
    BY <1>1
  <1>3. \A i \in p..p + k - 1 : stream[i].m = m /\ stream[i].data
    BY <1>2
  <1>4. a \in Seq(S)
    <2>1. Place(c0) - 1 \in 0..Len(stream)
      BY <1>1
    <2> QED
      BY <1>1, <2>1, ContentType
  <1> HIDE DEF p
  <1>5. ContentUpTo(m)[p + k - 1] = ContentUpTo(m)[p - 1] \o run
    BY <1>1, <1>2, <1>3, ContentAlong
  <1>6. run \in Seq(S)
    <2>1. \A i \in 1..k : p + i - 1 \in S
      BY <1>1, <1>2
    <2>2. run \in [1..k -> S]
      BY <2>1 DEF Run
    <2> HIDE DEF run, S
    <2> QED
      BY <2>2, FunctionIsSeq
  <1>7. ContentUpTo(m)[p - 1] = a \o data
    BY DEF Joined, p
  <1> HIDE DEF a, S, run
  <1>8. (a \o data) \o run = a \o (data \o run)
    <2>1. Sequences3(S, a, data, run)
      BY <1>4, <1>6 DEF S, Sequences3
    <2>2. Cat(Cat(a, data), run) = Cat(a, Cat(data, run))
      BY <2>1, Associative
    <2> QED
      BY <2>2 DEF Cat
  <1>9. ContentUpTo(m)[Place(d) - 1] = a \o (data \o run)
    BY <1>2, <1>5, <1>7, <1>8
  <1> QED
    BY <1>6, <1>9 DEF Joined, a, S, run, p

\* What is known of a connection the loop reads from.
LEMMA ReadStateIs ==
    ASSUME StreamOk, NEW c0, NEW len, NEW r, ReadState(c0, len, r)
    PROVE  /\ r.c \in Conns /\ Kept(c0, r.c) /\ Loaded(r.c) /\ Chunky(r.c)
           /\ r.c.must_close = c0.must_close /\ r.c.chunk_remainder \in Nat
           /\ r.n \in Int /\ r.n >= -1 /\ r.more \in Nat /\ r.data \in Seq(1..Len(stream))
           /\ Place(r.c) \in Nat \ {0} /\ Place(r.c) - 1 <= Len(stream) /\ Len(stream) \in Nat
  <1>1. r \in Reads /\ Kept(c0, r.c) /\ Loaded(r.c) /\ Chunky(r.c) /\ r.c.must_close = c0.must_close
        /\ r.n >= -1
    BY DEF ReadState
  <1>2. r.c \in Conns /\ r.n \in Int /\ r.more \in Nat /\ r.data \in Seq(1..Len(stream))
    BY <1>1 DEF Reads
  <1>3. r.c.chunk_remainder \in Nat
    BY <1>2 DEF Conns
  <1>4. Sendable(r.c) \in Nat /\ Sendable(r.c) <= Len(stream) /\ Len(stream) \in Nat
    BY SendableIs
  <1>5. Place(r.c) \in Nat \ {0} /\ Place(r.c) - 1 <= Sendable(r.c)
    BY <1>1, <1>2, <1>4, PlaceIs
  <1>6. Place(r.c) - 1 <= Len(stream)
    BY <1>4, <1>5
  <1> QED
    BY <1>1, <1>2, <1>3, <1>4, <1>5, <1>6

\* The next size is read: ReadSize.
LEMMA ReadSizeIs ==
    ASSUME StreamOk, NEW c0, NEW len \in Nat, NEW m, NEW over, NEW r, ReadState(c0, len, r),
           r.n >= 0, r.more # 0, r.c.is_chunked # 3, r.c.chunk_remainder = 0, NEW s \in ReadSize(r)
    PROVE  /\ ReadState(c0, len, s)
           /\ ChunksOf(m, over) /\ ReadChunked(c0, m, over, r) => ReadChunked(c0, m, over, s)
  <1> DEFINE c == r.c
  <1>1. /\ c \in Conns /\ Kept(c0, c) /\ Loaded(c) /\ Chunky(c) /\ c.must_close = c0.must_close
        /\ r.n \in Int /\ r.more \in Nat /\ r.data \in Seq(1..Len(stream))
        /\ Place(c) \in Nat \ {0} /\ Place(c) - 1 <= Len(stream) /\ Len(stream) \in Nat
        /\ c.is_chunked # 3 /\ c.chunk_remainder = 0
    BY ReadStateIs
  <1>2. PICK b \in ChunkBegins(c) :
           s \in IF ~b.ok THEN Misframed(b.c)
                 ELSE IF b.n = 0 THEN {[r EXCEPT !.c = [b.c EXCEPT !.is_chunked = 3], !.more = 0]}
                 ELSE {[r EXCEPT !.c = [b.c EXCEPT !.chunk_remainder = b.n]]}
    BY DEF ReadSize
  <1>r. r \in Reads /\ (r.n = 0 => r.data = << >> /\ r.more = len)
    BY DEF ReadState
  <1> HIDE DEF c
  <1> DEFINE d == b.c
  <1>3. /\ PartState(c, d)
        /\ b.ok => /\ Place(c) \in 1..Len(stream) /\ stream[Place(c)].t = "d"
                   /\ Place(c) + 1 \in 1..Len(stream) /\ stream[Place(c) + 1].t = "e"
                   /\ b.n = stream[Place(c)].n
                   /\ Place(d) = Place(c) + 2
    BY <1>1, ChunkBeginsIs
  <1> HIDE DEF d
  <1>4. /\ d \in Conns /\ Kept(c, d) /\ Loaded(d) /\ Chunky(d) /\ d.is_chunked = 2
        /\ d.chunk_remainder = 0 /\ d.must_close = c.must_close
    BY <1>1, <1>3 DEF PartState
  <1>5. Kept(c0, d) /\ d.must_close = c0.must_close
    BY <1>1, <1>4, KeptTransitive
  <1>6. CASE ~b.ok
    <2>1. s \in Misframed(d)
      BY <1>2, <1>6 DEF d
    <2>2. ReadState(c0, len, s) /\ ReadChunked(c0, m, over, s)
      BY <1>4, <1>5, <2>1, MisframedIs
    <2> QED
      BY <2>2
  \* Where a chunk's size was read, it is one.
  <1>7. ASSUME b.ok, ChunksOf(m, over), ReadChunked(c0, m, over, r)
        PROVE  SizeAt(m, Place(c)) /\ (over = 0 => Joined(c0, c, m, r.data))
    <2>1. InChunk(c, m, over) /\ (over = 0 => Joined(c0, c, m, r.data))
      BY <1>7 DEF ReadChunked, c
    <2>2. stream[Place(c)].t = "d"
      BY <1>3, <1>7
    <2>3. ~ LineEndAt(m, Place(c))
      BY <2>2 DEF LineEndAt
    <2> QED
      BY <1>1, <2>1, <2>3 DEF InChunk
  \* There is no content in it.
  <1>8. ASSUME b.ok, ChunksOf(m, over), SizeAt(m, Place(c)), Joined(c0, c, m, r.data),
               NEW e, Place(e) = Place(c) + 2
        PROVE  Joined(c0, e, m, r.data)
    <2>1. LineEndAt(m, Place(c) + 1)
      BY <1>3, <1>8 DEF ChunksOf
    <2>2. Place(c) + 1 \in 1..Len(stream)
      BY <1>3, <1>8
    <2>3. \A i \in Place(c)..Place(e) - 1 : ~ (stream[i].m = m /\ stream[i].data)
      <3>1. \A i \in Place(c)..Place(e) - 1 : i = Place(c) \/ i = Place(c) + 1
        <4>1. PICK p \in Nat : p = Place(c) /\ Place(e) - 1 = p + 1
          BY <1>1, <1>8
        <4>2. \A i \in p..p + 1 : i = p \/ i = p + 1
          OBVIOUS
        <4> QED
          BY <4>1, <4>2
      <3> QED
        BY <1>8, <2>1, <3>1 DEF SizeAt, LineEndAt
    <2>4. Place(e) - 1 <= Len(stream)
      BY <1>1, <1>8, <2>2
    <2> QED
      BY <1>1, <1>8, <2>3, <2>4, JoinedAcross
  <1>9. CASE b.ok /\ b.n = 0
    <2> DEFINE e == [d EXCEPT !.is_chunked = 3]
    <2>1. s = [r EXCEPT !.c = e, !.more = 0]
      BY <1>2, <1>9 DEF d
    <2>2. /\ e \in Conns /\ Kept(d, e) /\ Loaded(e) /\ Chunky(e) /\ Place(e) = Place(d)
          /\ e.is_chunked = 3 /\ e.must_close = d.must_close
      <3>1. 0 \in Nat
        OBVIOUS
      <3> QED
        BY <1>4, <3>1, Noted
    <2> HIDE DEF e
    <2>3. Kept(c0, e) /\ e.must_close = c0.must_close
      BY <1>5, <2>2, KeptTransitive
    <2>4. s \in Reads /\ s.c = e /\ s.more = 0 /\ s.n = r.n /\ s.data = r.data
      BY <1>r, <2>1, <2>2 DEF Reads
    <2>5. ReadState(c0, len, s)
      BY <1>r, <2>2, <2>3, <2>4 DEF ReadState
    <2>6. ASSUME ChunksOf(m, over), ReadChunked(c0, m, over, r) PROVE ReadChunked(c0, m, over, s)
      <3>1. Place(e) = Place(c) + 2
        BY <1>3, <1>9, <2>2
      <3>2. InChunk(e, m, over)
        BY <1>3, <1>7, <1>9, <2>2, <2>6, <3>1 DEF InChunk
      <3>3. over = 0 => Joined(c0, e, m, r.data)
        BY <1>7, <1>8, <1>9, <2>6, <3>1
      <3> QED
        BY <2>4, <3>2, <3>3 DEF ReadChunked
    <2> QED
      BY <2>5, <2>6
  <1>10. CASE b.ok /\ b.n # 0
    <2> DEFINE e == [d EXCEPT !.chunk_remainder = b.n]
    <2>1. s = [r EXCEPT !.c = e]
      BY <1>2, <1>10 DEF d
    <2>2. b.n \in Nat
      BY <1>3, <1>10, TokenOf
    <2>3. /\ e \in Conns /\ Kept(d, e) /\ Loaded(e) /\ Chunky(e) /\ Place(e) = Place(d)
          /\ e.is_chunked = 2 /\ e.chunk_remainder = b.n /\ e.must_close = d.must_close
      BY <1>4, <2>2, Noted
    <2> HIDE DEF e
    <2>4. Kept(c0, e) /\ e.must_close = c0.must_close
      BY <1>5, <2>3, KeptTransitive
    <2>5. s \in Reads /\ s.c = e /\ s.more = r.more /\ s.n = r.n /\ s.data = r.data
      BY <1>r, <2>1, <2>3 DEF Reads
    <2>6. ReadState(c0, len, s)
      <3>1. s.n >= -1 /\ s.n # -1
        BY <1>1, <2>5
      <3>2. s.n = 0 => s.data = << >> /\ s.more = len
        BY <1>r, <2>5
      <3> QED
        BY <2>3, <2>4, <2>5, <3>1, <3>2 DEF ReadState
    <2>7. ASSUME ChunksOf(m, over), ReadChunked(c0, m, over, r) PROVE ReadChunked(c0, m, over, s)
      <3>1. Place(e) = Place(c) + 2
        BY <1>3, <1>10, <2>3
      <3>2. InChunk(e, m, over)
        <4>1. SizeAt(m, Place(c)) /\ stream[Place(c)].n = b.n /\ b.n # 0 /\ Place(c) \in 1..Len(stream)
          BY <1>3, <1>7, <1>10, <2>7
        <4>2. Place(e) >= Place(c) + 2 /\ Place(e) + e.chunk_remainder = Place(c) + 2 + stream[Place(c)].n
          BY <1>1, <2>2, <2>3, <3>1, <4>1
        <4> QED
          BY <2>3, <4>1, <4>2 DEF InChunk
      <3>3. over = 0 => Joined(c0, e, m, r.data)
        BY <1>7, <1>8, <1>10, <2>7, <3>1
      <3> QED
        BY <2>5, <3>2, <3>3 DEF ReadChunked
    <2> QED
      BY <2>6, <2>7
  <1> QED
    BY <1>6, <1>9, <1>10

\* More of a chunk is read, and its line end when that was all of it: ReadData.
LEMMA ReadDataIs ==
    ASSUME StreamOk, NEW c0 \in Conns, Loaded(c0), NEW len \in Nat, NEW m, NEW over \in {0, 1}, NEW r,
           ReadState(c0, len, r), r.n >= 0, r.more # 0, r.c.is_chunked # 3, r.c.chunk_remainder # 0,
           NEW s \in ReadData(r)
    PROVE  /\ ReadState(c0, len, s)
           /\ ChunksOf(m, over) /\ ReadChunked(c0, m, over, r) => ReadChunked(c0, m, over, s)
  <1> DEFINE c == r.c
             rem == c.chunk_remainder
             now == Smaller(rem, r.more)
             Left(q) == [q.c EXCEPT !.chunk_remainder = @ - q.n]
             Given(q, e) == {[n |-> r.n + q.n, data |-> r.data \o q.data, c |-> e, more |-> r.more - q.n]}
  <1>1. /\ c \in Conns /\ Kept(c0, c) /\ Loaded(c) /\ Chunky(c) /\ c.must_close = c0.must_close
        /\ r.n \in Nat /\ r.more \in Nat \ {0} /\ r.data \in Seq(1..Len(stream)) /\ rem \in Nat \ {0}
        /\ Place(c) \in Nat \ {0} /\ Place(c) - 1 <= Len(stream) /\ Len(stream) \in Nat
        /\ c.is_chunked # 3
    BY ReadStateIs
  <1>2. PICK q \in mg_read_inner([c EXCEPT !.content_len = @ + now], now) :
           s \in IF q.n < 1 THEN Misframed(q.c)
                 ELSE IF Left(q).chunk_remainder > 0 THEN Given(q, Left(q))
                 ELSE UNION {IF e.ok THEN Given(q, e.c) ELSE Misframed(e.c) : e \in ChunkEnds(Left(q))}
    BY DEF ReadData
  <1> DEFINE left == Left(q)
  <1>3. now \in Nat \ {0} /\ now <= rem /\ now <= r.more
    BY <1>1 DEF Smaller
  <1>4. Sendable(c) \in Nat /\ Sendable(c) <= Len(stream) /\ faults \subseteq Faults
    BY SendableIs
  <1>5. PartOk(c, now, q)
    <2> HIDE DEF c, now
    <2> QED
      BY <1>1, <1>2, <1>3, <1>4, ReadPart
  <1> HIDE DEF c, now, rem
  <1> DEFINE d == q.c
             k == Higher(q.n, 0)
  <1>6. /\ PartState(c, d) /\ q.n \in -1..now /\ q.data = Run(Place(c), k)
        /\ Place(d) = Place(c) + k /\ Place(d) - 1 <= Len(stream)
    <2>1. Place(d) \in Nat
      BY <1>1, <1>5 DEF PartOk, Higher
    <2> QED
      BY <1>1, <1>4, <1>5, <2>1 DEF PartOk
  <1> HIDE DEF d, k
  <1>7. /\ d \in Conns /\ Kept(c, d) /\ Loaded(d) /\ Chunky(d) /\ d.is_chunked = 2
        /\ d.chunk_remainder = rem /\ d.must_close = c.must_close
    BY <1>6 DEF PartState, rem
  <1>8. Kept(c0, d) /\ d.must_close = c0.must_close
    BY <1>1, <1>7, KeptTransitive
  <1>9. CASE q.n < 1
    <2>1. s \in Misframed(d)
      BY <1>2, <1>9 DEF d
    <2>2. ReadState(c0, len, s) /\ ReadChunked(c0, m, over, s)
      BY <1>7, <1>8, <2>1, MisframedIs
    <2> QED
      BY <2>2
  <1>10. CASE ~ (q.n < 1)
    <2>1. k = q.n /\ k \in Nat \ {0} /\ rem - k \in Nat /\ r.more - k \in Nat
      <3>1. PICK x \in Int, y \in Nat, z \in Nat, a \in Nat :
               x = q.n /\ y = now /\ z = rem /\ a = r.more
        BY <1>1, <1>3, <1>6
      <3>2. x >= 1 /\ x <= y /\ y <= z /\ y <= a
        BY <1>3, <1>6, <1>10, <3>1
      <3>3. k = x
        BY <3>1, <3>2 DEF Higher, k
      <3> QED
        BY <3>1, <3>2, <3>3
    <2>2. left = [d EXCEPT !.chunk_remainder = rem - k]
      BY <1>7, <2>1 DEF d
    <2>s. s \in IF left.chunk_remainder > 0 THEN Given(q, left)
                ELSE UNION {IF e.ok THEN Given(q, e.c) ELSE Misframed(e.c) : e \in ChunkEnds(left)}
      BY <1>2, <1>10
    <2> HIDE DEF left
    <2>3. /\ left \in Conns /\ Kept(d, left) /\ Loaded(left) /\ Chunky(left) /\ Place(left) = Place(d)
          /\ left.is_chunked = 2 /\ left.chunk_remainder = rem - k /\ left.must_close = d.must_close
      BY <1>7, <2>1, <2>2, Noted, ZenonT(40)
    <2>4. Kept(c0, left) /\ left.must_close = c0.must_close
      BY <1>8, <2>3, KeptTransitive
    <2> DEFINE data == r.data \o q.data
    <2>x. PICK x \in Nat \ {0}, y \in Nat \ {0}, z \in Nat \ {0}, l \in Nat :
             x = Place(c) /\ y = k /\ z = rem /\ l = Len(stream)
      BY <1>1, <2>1
    <2>p. Place(left) = x + y /\ Place(left) - 1 <= l
      BY <1>6, <2>3, <2>x
    <2>q. /\ Place(left) = Place(c) + k /\ Place(left) - 1 <= Len(stream) /\ Place(left) \in Nat \ {0}
          /\ k \in Nat
      BY <2>x, <2>p
    \* The part is one of the chunk's.
    <2>5. ASSUME ChunksOf(m, over), ReadChunked(c0, m, over, r)
          PROVE  \E p \in 1..Len(stream) :
                    /\ SizeAt(m, p) /\ stream[p].n \in Nat \ {0} /\ Place(c) >= p + 2
                    /\ Place(c) + rem = p + 2 + stream[p].n
                    /\ \A i \in Place(c)..Place(left) - 1 : stream[i].m = m /\ stream[i].data
      <3>1. InChunk(c, m, over) /\ c.chunk_remainder # 0 /\ c.chunk_remainder = rem
        BY <1>1, <2>5 DEF ReadChunked, c, rem
      <3>2. PICK p \in 1..Len(stream) :
               /\ SizeAt(m, p) /\ stream[p].n # 0
               /\ Place(c) >= p + 2 /\ Place(c) + c.chunk_remainder = p + 2 + stream[p].n
        <4>1. c.is_chunked # 3
          BY <1>1
        <4> QED
          BY <3>1, <4>1 DEF InChunk
      <3>3. stream[p].n \in Nat \ {0}
        BY <3>2, TokenOf
      <3>4. ASSUME NEW i \in Place(c)..Place(left) - 1 PROVE stream[i].m = m /\ stream[i].data
        <4>1. i \in p + 2..p + 1 + stream[p].n + over
          <5>1. PICK n \in Nat \ {0} : n = stream[p].n
            BY <3>3
          <5>2. i \in x..x + y - 1 /\ y <= z /\ x >= p + 2 /\ x + z = p + 2 + n
            <6>1. y <= z
              BY <2>1, <2>x
            <6> QED
              BY <2>p, <2>x, <3>1, <3>2, <3>4, <5>1, <6>1
          <5>3. i \in p + 2..p + 1 + n + over
            BY <5>2, SMTT(30)
          <5> QED
            BY <5>1, <5>3
        <4> QED
          BY <2>5, <3>2, <4>1 DEF ChunksOf
      <3> QED
        BY <3>1, <3>2, <3>3, <3>4
    \* So what is given is joined to what was.
    <2>6. data \in Seq(1..Len(stream))
      <3>1. q.data = Run(Place(c), k)
        BY <1>6
      <3>2. Run(Place(c), k) \in Seq(1..Len(stream))
        <4>1. \A i \in 1..k : Place(c) + i - 1 \in 1..Len(stream)
          <5>1. \A i \in 1..y : x + i - 1 \in 1..l
            BY <2>p
          <5> QED
            BY <2>x, <5>1
        <4>2. Run(Place(c), k) \in [1..k -> 1..Len(stream)]
          BY <4>1 DEF Run
        <4> QED
          BY <2>1, <4>2, FunctionIsSeq
      <3> QED
        BY <1>1, <3>1, <3>2, ConcatProperties
    <2>7. ASSUME ChunksOf(m, over), ReadChunked(c0, m, over, r), over = 0
          PROVE  Joined(c0, left, m, data)
      <3>1. Joined(c0, c, m, r.data)
        BY <1>1, <2>7 DEF ReadChunked, c
      <3>2. \A i \in Place(c)..Place(left) - 1 : stream[i].m = m /\ stream[i].data
        BY <2>5, <2>7
      <3>3. Place(c0) \in Nat \ {0} /\ Place(c0) - 1 <= Len(stream)
        <4>1. Sendable(c0) \in Nat /\ Sendable(c0) <= Len(stream)
          BY SendableIs
        <4>2. Place(c0) \in Nat \ {0} /\ Place(c0) - 1 <= Sendable(c0)
          BY <4>1, PlaceIs
        <4> QED
          BY <1>1, <4>1, <4>2
      <3>5. Joined(c0, left, m, r.data \o Run(Place(c), k))
        BY <1>1, <2>q, <3>1, <3>2, <3>3, JoinedAlong
      <3>6. q.data = Run(Place(c), k)
        BY <1>6
      <3> QED
        BY <3>5, <3>6
    <2> HIDE DEF data
    \* Whatever is given so.
    <2>8. ASSUME NEW e, e \in Conns, Kept(left, e), Loaded(e), Chunky(e), e.is_chunked = 2,
                 e.must_close = left.must_close, s \in Given(q, e)
          PROVE  ReadState(c0, len, s) /\ s.c = e /\ s.data = data
      <3>1. s = [n |-> r.n + q.n, data |-> data, c |-> e, more |-> r.more - q.n]
        BY <2>8 DEF data
      <3>2. r.n + q.n \in Nat \ {0} /\ r.more - q.n \in Nat
        <4>1. PICK n \in Nat : n = r.n
          BY <1>1
        <4>2. n + y \in Nat \ {0}
          OBVIOUS
        <4> QED
          BY <2>1, <2>x, <4>1, <4>2
      <3>3. s.n \in Nat \ {0} /\ s.c = e /\ s.data = data /\ s.more \in Nat
        BY <3>1, <3>2
      <3>4. s \in Reads
        BY <2>6, <2>8, <3>1, <3>2 DEF Reads
      <3>5. Kept(c0, e) /\ e.must_close = c0.must_close
        BY <2>4, <2>8, KeptTransitive
      <3> QED
        BY <2>8, <3>3, <3>4, <3>5 DEF ReadState
    <2>9. CASE rem - k > 0
      <3>1. s \in Given(q, left)
        BY <2>3, <2>9, <2>s
      <3>k. Kept(left, left)
        BY DEF Kept
      <3>2. ReadState(c0, len, s) /\ s.c = left /\ s.data = data
        BY <2>3, <2>8, <3>1, <3>k
      <3>3. ASSUME ChunksOf(m, over), ReadChunked(c0, m, over, r)
            PROVE  InChunk(left, m, over) /\ (over = 0 => Joined(c0, left, m, data))
        <4>1. PICK p \in 1..Len(stream) :
                 /\ SizeAt(m, p) /\ stream[p].n \in Nat \ {0} /\ Place(c) >= p + 2
                 /\ Place(c) + rem = p + 2 + stream[p].n
          BY <2>5, <3>3
        <4>2. Place(left) >= p + 2 /\ Place(left) + left.chunk_remainder = p + 2 + stream[p].n
          <5>1. PICK n \in Nat \ {0} : n = stream[p].n
            BY <4>1
          <5>2. x >= p + 2 /\ x + z = p + 2 + n /\ left.chunk_remainder = z - y
            BY <2>3, <2>x, <4>1, <5>1
          <5>3. x + y >= p + 2 /\ x + y + (z - y) = p + 2 + n
            BY <5>2
          <5> QED
            BY <2>p, <5>1, <5>2, <5>3
        <4>3. left.is_chunked = 2 /\ left.chunk_remainder # 0
          BY <2>1, <2>3, <2>9
        <4>4. InChunk(left, m, over)
          BY <4>1, <4>2, <4>3 DEF InChunk
        <4> QED
          BY <2>7, <3>3, <4>4
      <3> QED
        BY <3>2, <3>3 DEF ReadChunked
    <2>10. CASE ~ (rem - k > 0)
      <3>1. rem - k = 0
        BY <2>1, <2>10
      <3>2. PICK e \in ChunkEnds(left) : s \in IF e.ok THEN Given(q, e.c) ELSE Misframed(e.c)
        <4>1. ~ (left.chunk_remainder > 0)
          BY <2>3, <2>10
        <4> HIDE DEF Given
        <4> QED
          BY <2>s, <4>1
      <3> DEFINE f == e.c
      <3>3. /\ PartState(left, f)
            /\ e.ok => /\ Place(left) \in 1..Len(stream) /\ stream[Place(left)].t = "e"
                       /\ Place(f) = Place(left) + 1
        BY <2>3, ChunkEndsIs
      <3>4. s \in IF e.ok THEN Given(q, f) ELSE Misframed(f)
        BY <3>2
      <3> HIDE DEF f
      <3>5. /\ f \in Conns /\ Kept(left, f) /\ Loaded(f) /\ Chunky(f) /\ f.is_chunked = 2
            /\ f.chunk_remainder = 0 /\ f.must_close = left.must_close
        BY <2>3, <3>1, <3>3 DEF PartState
      <3>6. CASE ~e.ok
        <4>1. Kept(c0, f) /\ f.must_close = c0.must_close
          BY <2>4, <3>5, KeptTransitive
        <4>2. s \in Misframed(f)
          BY <3>4, <3>6
        <4>3. ReadState(c0, len, s) /\ ReadChunked(c0, m, over, s)
          BY <3>5, <4>1, <4>2, MisframedIs
        <4> QED
          BY <4>3
      <3>7. CASE e.ok
        <4>1. s \in Given(q, f)
          BY <3>4, <3>7
        <4>2. ReadState(c0, len, s) /\ s.c = f /\ s.data = data
          BY <2>8, <3>5, <4>1
        <4>3. ASSUME ChunksOf(m, over), ReadChunked(c0, m, over, r)
              PROVE  InChunk(f, m, over) /\ (over = 0 => Joined(c0, f, m, data))
          <5>1. PICK p \in 1..Len(stream) :
                   /\ SizeAt(m, p) /\ stream[p].n \in Nat \ {0} /\ Place(c) >= p + 2
                   /\ Place(c) + rem = p + 2 + stream[p].n
            BY <2>5, <4>3
          <5>2. Place(left) = p + 2 + stream[p].n /\ Place(f) = p + 3 + stream[p].n
            <6>1. PICK n \in Nat \ {0} : n = stream[p].n
              BY <5>1
            <6>2. x + z = p + 2 + n /\ z - y = 0
              BY <2>x, <3>1, <5>1, <6>1
            <6>3. x + y = p + 2 + n
              BY <6>2
            <6>4. Place(f) = (x + y) + 1
              BY <2>p, <3>3, <3>7
            <6> QED
              <7>1. p \in Nat
                BY <2>x
              <7>2. x + y + 1 = p + 3 + n
                BY <6>3, <7>1
              <7> QED
                BY <2>p, <6>1, <6>3, <6>4, <7>2
          <5>3. LineEndAt(m, p + 2 + stream[p].n + over) /\ SizeAt(m, p + 3 + stream[p].n + over)
            BY <4>3, <5>1 DEF ChunksOf
          <5>4. CASE over = 0
            <6>1. LineEndAt(m, Place(left)) /\ SizeAt(m, Place(f))
              <7>1. p + 2 + stream[p].n + over = Place(left) /\ p + 3 + stream[p].n + over = Place(f)
                BY <5>1, <5>2, <5>4, SMTT(30)
              <7> QED
                BY <5>3, <7>1
            <6>2. InChunk(f, m, over)
              BY <3>5, <6>1 DEF InChunk
            <6>3. Joined(c0, left, m, data)
              BY <2>7, <4>3, <5>4
            <6>4. \A i \in Place(left)..Place(f) - 1 : ~ (stream[i].m = m /\ stream[i].data)
              <7>1. Place(f) - 1 = Place(left)
                BY <2>p, <3>3, <3>7
              <7>2. \A i \in Place(left)..Place(left) : i = Place(left)
                BY <2>p
              <7> QED
                BY <6>1, <7>1, <7>2 DEF LineEndAt
            <6>5. Place(f) = Place(left) + 1 /\ 1 \in Nat /\ Place(f) - 1 <= Len(stream)
              BY <1>1, <2>p, <3>3, <3>7
            <6>6. Joined(c0, f, m, data)
              BY <2>q, <6>3, <6>4, <6>5, JoinedAcross
            <6> QED
              BY <6>2, <6>6
          <5>5. CASE over = 1
            <6>1. p + 2 + stream[p].n + over = Place(f)
              <7>1. PICK n \in Nat \ {0} : n = stream[p].n
                BY <5>1
              <7>2. p \in Nat
                BY <2>x
              <7>3. p + 2 + n + over = p + 3 + n
                BY <5>5, <7>2
              <7> QED
                BY <5>2, <7>1, <7>3
            <6>2. InChunk(f, m, over)
              BY <3>5, <5>3, <5>5, <6>1 DEF InChunk
            <6> QED
              BY <5>5, <6>2
          <5> QED
            BY <5>4, <5>5
        <4> QED
          BY <4>2, <4>3 DEF ReadChunked
      <3> QED
        BY <3>6, <3>7
    <2> QED
      BY <2>9, <2>10
  <1> QED
    BY <1>9, <1>10

-----------------------------------------------------------------------------
(* The loop of mg_read.                                                    *)

\* f is what the first n turns of mg_read's loop can give: the equation of ReadChunks.
ChunkTurns(f, c, len, n) ==
    f = [p \in 0..n |-> IF p = 0 THEN {[n |-> 0, data |-> << >>, c |-> c, more |-> len]} ELSE UNION {ChunkTurn(r) : r \in f[p - 1]}]

\* There are as many turns as one likes.
LEMMA ChunkTurnsExist ==
    ASSUME NEW c, NEW len, NEW n \in Nat
    PROVE  \E f : ChunkTurns(f, c, len, n)
  <1> DEFINE Bad == {k \in Nat : ~ \E f : ChunkTurns(f, c, len, k)}
  <1> SUFFICES ASSUME Bad # {} PROVE FALSE
    OBVIOUS
  <1>1. PICK k \in Bad : \A j \in Bad : k <= j
    <2>1. Bad \subseteq Nat
      OBVIOUS
    <2> HIDE DEF Bad
    <2> QED
      BY <2>1, LeastExists
  <1>2. k # 0
    <2>1. ChunkTurns([p \in 0..0 |-> {[n |-> 0, data |-> << >>, c |-> c, more |-> len]}], c, len, 0)
      BY DEF ChunkTurns
    <2> QED
      BY <2>1
  <1>3. PICK f : ChunkTurns(f, c, len, k - 1)
    <2>1. k - 1 \in Nat /\ k - 1 \notin Bad
      BY <1>1, <1>2
    <2> QED
      BY <2>1
  <1> DEFINE Step(h, p) == IF p = 0 THEN {[n |-> 0, data |-> << >>, c |-> c, more |-> len]} ELSE UNION {ChunkTurn(r) : r \in h[p - 1]}
             g == [p \in 0..k |-> IF p = k THEN Step(f, k) ELSE f[p]]
             h == [p \in 0..k |-> Step(g, p)]
  <1>4. k \in Nat
    OBVIOUS
  <1>5. \A p \in 0..k : g[p] = h[p]
    <2> TAKE p \in 0..k
    <2>1. p - 1 \in 0..k - 1 => g[p - 1] = f[p - 1]
      BY <1>4
    <2>2. CASE p = k
      <3>1. p - 1 \in 0..k - 1
        BY <1>2, <1>4, <2>2
      <3>2. g[p] = Step(f, p) /\ h[p] = Step(g, p)
        BY <2>2
      <3> QED
        BY <2>1, <3>1, <3>2
    <2>3. CASE p # k
      <3>1. p \in 0..k - 1 /\ (p # 0 => p - 1 \in 0..k - 1)
        BY <1>4, <2>3
      <3>2. f[p] = Step(f, p)
        BY <1>3, <3>1 DEF ChunkTurns
      <3>3. g[p] = f[p] /\ h[p] = Step(g, p)
        BY <2>3
      <3> QED
        BY <2>1, <3>1, <3>2, <3>3
    <2> QED
      BY <2>2, <2>3
  <1>6. g = h
    BY <1>5
  <1>7. ChunkTurns(g, c, len, k)
    BY <1>6 DEF ChunkTurns
  <1> QED
    BY <1>7

\* One turn of the loop.
LEMMA ChunkTurnIs ==
    ASSUME StreamOk, NEW c0 \in Conns, Loaded(c0), NEW len \in Nat, NEW m, NEW over \in {0, 1}, NEW r,
           ReadState(c0, len, r), NEW s \in ChunkTurn(r)
    PROVE  /\ ReadState(c0, len, s)
           /\ ChunksOf(m, over) /\ ReadChunked(c0, m, over, r) => ReadChunked(c0, m, over, s)
  <1>1. /\ r.c \in Conns /\ r.c.chunk_remainder \in Nat /\ r.n \in Int /\ r.n >= -1
    BY ReadStateIs
  <1>2. r \in Reads /\ (r.n = -1 => r.more = 0) /\ (r.c.is_chunked = 3 /\ r.more # 0 => r.n = 0)
        /\ (r.n = 0 => r.data = << >>)
    BY DEF ReadState
  <1>3. CASE r.more = 0
    BY <1>3 DEF ChunkTurn
  <1>4. CASE r.more # 0 /\ r.c.is_chunked = 3
    <2>1. s = [r EXCEPT !.n = 0, !.data = << >>, !.more = 0]
      BY <1>4 DEF ChunkTurn
    <2>2. r.n = 0 /\ r.data = << >>
      BY <1>2, <1>4
    <2>3. s = [r EXCEPT !.more = 0]
      BY <1>2, <2>1, <2>2 DEF Reads
    <2>4. s \in Reads /\ s.n = 0 /\ s.data = r.data /\ s.c = r.c /\ s.more = 0
      BY <1>2, <2>2, <2>3 DEF Reads
    <2>5. ReadState(c0, len, s)
      BY <1>4, <2>2, <2>4 DEF ReadState
    <2>6. ReadChunked(c0, m, over, r) => ReadChunked(c0, m, over, s)
      BY <2>2, <2>4 DEF ReadChunked
    <2> QED
      BY <2>5, <2>6
  <1>5. CASE r.more # 0 /\ r.c.is_chunked # 3
    <2>1. r.n >= 0
      BY <1>1, <1>2, <1>5
    <2>2. CASE r.c.chunk_remainder # 0
      <3>1. s \in ReadData(r)
        BY <1>1, <1>5, <2>2 DEF ChunkTurn
      <3> QED
        BY <1>5, <2>1, <2>2, <3>1, ReadDataIs
    <2>3. CASE r.c.chunk_remainder = 0
      <3>1. s \in ReadSize(r)
        BY <1>5, <2>3 DEF ChunkTurn
      <3> QED
        BY <1>5, <2>1, <2>3, <3>1, ReadSizeIs
    <2> QED
      BY <2>2, <2>3
  <1> QED
    BY <1>3, <1>4, <1>5

\* What reading len from chunks gives: the content from here on, -1 where the chunks do not fit, 0
\* behind the last of them.
LEMMA ReadChunksIs ==
    ASSUME StreamOk, NEW c \in Conns, Loaded(c), Chunky(c), NEW len \in Nat \ {0}, NEW m,
           NEW over \in {0, 1}, NEW r \in ReadChunks(c, len)
    PROVE  /\ ReadState(c, len, r) /\ r.more = 0 /\ r.c.is_chunked # 1
           /\ r.n = 0 => r.c.is_chunked = 3
           /\ r.n = -1 => r.c.misframed
           /\ ChunksOf(m, over) /\ InChunk(c, m, over) => ReadChunked(c, m, over, r)
  <1> DEFINE U == [n: Int, data: Seq(1..Len(stream)), c: Conns, more: Nat]
             All == {s \in U : ReadState(c, len, s)}
             Fit == {s \in All : ReadChunked(c, m, over, s)}
             N == 2 * len + 1
             f == CHOOSE f : ChunkTurns(f, c, len, N)
             start == [n |-> 0, data |-> << >>, c |-> c, more |-> len]
  <1>1. r \in f[N] /\ r.more = 0
    BY DEF ReadChunks, ChunkTurns
  <1>2. N \in Nat /\ len \in Nat /\ Len(stream) \in Nat
    BY DEF StreamOk
  <1>3. ChunkTurns(f, c, len, N)
    <2> HIDE DEF N
    <2> QED
      BY <1>2, ChunkTurnsExist
  <1> HIDE DEF f, N
  <1>4. f[0] = {start} /\ \A k \in 1..N : f[k] = UNION {ChunkTurn(s) : s \in f[k - 1]}
    <2>1. 0 \in 0..N /\ \A k \in 1..N : k \in 0..N /\ k # 0
      BY <1>2
    <2> QED
      BY <1>3, <2>1 DEF ChunkTurns
  <1>5. start \in Reads /\ start.n = 0 /\ start.data = << >> /\ start.c = c /\ start.more = len
    BY <1>2 DEF Reads
  <1> HIDE DEF start
  <1>6. start \in All
    <2>1. Kept(c, c)
      BY DEF Kept
    <2>2. ReadState(c, len, start)
      BY <1>2, <1>5, <2>1 DEF ReadState
    <2> QED
      BY <1>5, <2>2 DEF Reads
  <1>7. ASSUME NEW s \in All, NEW t \in ChunkTurn(s)
        PROVE  /\ t \in All
               /\ ChunksOf(m, over) /\ s \in Fit => t \in Fit
    <2>1. /\ ReadState(c, len, t)
          /\ ChunksOf(m, over) /\ ReadChunked(c, m, over, s) => ReadChunked(c, m, over, t)
      BY <1>2, <1>7, ChunkTurnIs, SMTT(30)
    <2>2. t \in U
      BY <2>1 DEF ReadState, Reads
    <2> QED
      BY <2>1, <2>2
  <1> HIDE DEF All, Fit
  <1>8. r \in All
    <2>1. f[0] \subseteq All
      BY <1>4, <1>6
    <2>2. \A k \in 1..N : f[k - 1] \subseteq All => f[k] \subseteq All
      BY <1>4, <1>7
    <2> QED
      BY <1>1, <1>2, <2>1, <2>2, LoopInvariant
  <1>9. ReadState(c, len, r)
    BY <1>8 DEF All
  <1>10. r.n = 0 => r.c.is_chunked = 3
    BY <1>1, <1>2, <1>9 DEF ReadState
  <1>13. r.c.is_chunked # 1
    BY <1>1, <1>9 DEF ReadState
  <1>11. r.n = -1 => r.c.misframed
    BY <1>9 DEF ReadState
  <1>12. ASSUME ChunksOf(m, over), InChunk(c, m, over) PROVE ReadChunked(c, m, over, r)
    <2>1. Joined(c, c, m, << >>)
      <3>1. Place(c) \in Nat \ {0} /\ Place(c) - 1 <= Len(stream)
        <4>1. Sendable(c) \in Nat /\ Sendable(c) <= Len(stream)
          BY SendableIs
        <4>2. Place(c) \in Nat \ {0} /\ Place(c) - 1 <= Sendable(c)
          BY <4>1, PlaceIs
        <4> QED
          BY <1>2, <4>1, <4>2
      <3>2. Place(c) - 1 \in 0..Len(stream)
        BY <1>2, <3>1
      <3>3. ContentUpTo(m)[Place(c) - 1] \in Seq(1..Len(stream))
        BY <1>2, <3>2, ContentType
      <3>4. ContentUpTo(m)[Place(c) - 1] \o << >> = ContentUpTo(m)[Place(c) - 1]
        BY <3>3, ConcatEmptySeq
      <3> QED
        BY <3>4 DEF Joined
    <2>2. start \in Fit
      BY <1>5, <1>6, <1>12, <2>1 DEF Fit, ReadChunked
    <2>3. Fit \subseteq All
      BY DEF Fit
    <2>4. f[0] \subseteq Fit
      BY <1>4, <2>2
    <2>5. \A k \in 1..N : f[k - 1] \subseteq Fit => f[k] \subseteq Fit
      BY <1>4, <1>7, <1>12, <2>3
    <2>6. r \in Fit
      BY <1>1, <1>2, <2>4, <2>5, LoopInvariant
    <2> QED
      BY <2>6 DEF Fit
  <1> QED
    BY <1>1, <1>9, <1>10, <1>11, <1>12, <1>13

-----------------------------------------------------------------------------
(* mg_read.                                                                *)

\* How the headers, or the method, frame the content that is read.
FramingOk(c) ==
    LET r == Request(c) IN
    /\ c.is_chunked # 0 <=> r.framing \in {"chunked", "miscounted"}
    /\ r.framing = "length" => /\ c.content_len \in Nat /\ c.content_len = Len(FlattenSeq(r.content))
                               /\ c.consumed_content <= c.content_len
    /\ r.framing = "negative" => c.content_len = -2
    /\ r.framing \notin {"length", "negative", "chunked", "miscounted"} =>
          IF r.method \in HasBody THEN c.content_len = -1 \/ c.must_close ELSE c.content_len = 0

\* A connection whose request is handled.
Serves(c) ==
    c \in Conns /\ Loaded(c) /\ (c.is_chunked # 0 => Chunky(c)) /\ FramingOk(c)

\* n bytes from a on are the content of message m, and its end.
PlainOf(m, a, n) ==
    /\ \A i \in a..a + n - 1 : i \in 1..Len(stream) /\ stream[i].m = m /\ stream[i].data
    /\ a + n - 1 = Sent(m)
    /\ \A i \in a + n..Len(stream) : ~ (stream[i].m = m /\ stream[i].data)

\* By how much the chunks are longer than they say.
Over(c) == IF Request(c).framing = "miscounted" THEN 1 ELSE 0

\* The connection reads the content of message m, and has read it up to its place.
InContent(c, m) ==
    IF c.is_chunked = 0
    THEN c.content_len \in Nat /\ c.consumed_content <= c.content_len
         /\ PlainOf(m, c.buf[1] + c.request_len, c.content_len)
    ELSE ChunksOf(m, Over(c)) /\ InChunk(c, m, Over(c))

\* must_close stays as it is unless the end of the content is not known.
Closes(c, d) ==
    /\ c.must_close => d.must_close
    /\ Request(c).framing \in {"length", "negative", "chunked", "miscounted"} => (d.must_close <=> c.must_close)

\* Reading does not change the request.
LEMMA RequestKept ==
    ASSUME NEW c, NEW d, Kept(c, d)
    PROVE  Request(d) = Request(c) /\ Over(d) = Over(c) /\ Sender(d) = Sender(c)
  <1>1. d.head = c.head
    BY DEF Kept
  <1>2. Sender(d) = Sender(c)
    BY <1>1 DEF Sender
  <1>3. Overlooked(d) = Overlooked(c)
    BY <1>2 DEF Overlooked
  <1>4. Request(d) = Request(c)
    BY <1>2, <1>3 DEF Request
  <1> QED
    BY <1>2, <1>4 DEF Over

\* What a read gives.
ReadGives(c, m, r) ==
    /\ Serves(r.c) /\ Kept(c, r.c) /\ Closes(c, r.c) /\ r.c.is_chunked # 1
    /\ r.n \in Int /\ r.n >= -1 /\ r.data \in Seq(1..Len(stream)) /\ (r.n = 0 => r.data = << >>)
    /\ r.n <= 0 => Broken(r.c) \/ r.c.misframed \/ ContentRead(r.c)
    /\ r.n = 0 => r.c.late \/ r.c.stopped \/ ContentRead(r.c)
    /\ InContent(c, m) => InContent(r.c, m) \/ (r.n < 0 /\ r.c.misframed)
    /\ InContent(c, m) /\ Over(c) = 0 /\ r.n >= 0 => Joined(c, r.c, m, r.data)

\* From plain content.
LEMMA ReadPlain ==
    ASSUME StreamOk, NEW c, Serves(c), NEW len \in Nat \ {0}, c.is_chunked = 0, NEW m, NEW r \in mg_read(c, len)
    PROVE  ReadGives(c, m, r)
  <1> DEFINE d == r.c
             k == Higher(r.n, 0)
  <1>1. r \in mg_read_inner(c, len)
    BY DEF mg_read
  <1>2. /\ Sendable(c) \in Nat /\ Sendable(c) <= Len(stream) /\ Len(stream) \in Nat
        /\ faults \subseteq Faults
    BY SendableIs
  <1>3. c \in Conns /\ Loaded(c) /\ FramingOk(c) /\ len \in Nat
    BY DEF Serves
  <1>4. ReadOk(c, len, r)
    BY <1>1, <1>2, <1>3, ReadInner
  <1>5. /\ d \in Conns /\ Kept(c, d) /\ Loaded(d) /\ Starts(c, len, d)
        /\ r.n \in -1..len /\ r.data = Run(Place(c), k)
        /\ d.consumed_content = c.consumed_content + k
        /\ r.n < len => Broken(d) \/ d.consumed_content >= d.content_len
        /\ r.n = 0 => d.late \/ d.stopped \/ d.consumed_content >= d.content_len
        /\ r.n > 0 => d.consumed_content <= d.content_len
    BY <1>4 DEF ReadOk
  <1> HIDE DEF d, k
  <1>6. r.n \in Int /\ r.n >= -1 /\ k \in Nat /\ (r.n <= 0 => k = 0) /\ (r.n > 0 => k = r.n)
    BY <1>5 DEF Higher, k
  <1>7. d.is_chunked = 0
    BY <1>5 DEF Starts, SameFrame
  <1>8. Request(d) = Request(c) /\ Over(d) = Over(c)
    BY <1>5, RequestKept
  <1>9. c.content_len \in Int /\ c.consumed_content \in Nat /\ d.content_len \in Int /\ d.consumed_content \in Nat
    BY <1>3, <1>5 DEF Conns
  <1>10. c.content_len # -1 => d.content_len = c.content_len /\ (d.must_close <=> c.must_close)
    BY <1>5 DEF Starts, SameFrame
  <1>11. c.content_len = -1 =>
            \/ d.content_len = c.content_len /\ (d.must_close <=> c.must_close)
            \/ d.must_close
    BY <1>5 DEF Starts, SameFrame
  <1>12. FramingOk(d)
    <2>1. d.is_chunked # 0 <=> Request(d).framing \in {"chunked", "miscounted"}
      BY <1>3, <1>7, <1>8 DEF FramingOk
    <2>2. ASSUME Request(c).framing = "length"
          PROVE  /\ d.content_len \in Nat /\ d.content_len = Len(FlattenSeq(Request(c).content))
                 /\ d.consumed_content <= d.content_len
      <3>1. /\ c.content_len \in Nat /\ c.content_len = Len(FlattenSeq(Request(c).content))
            /\ c.consumed_content <= c.content_len
        BY <1>3, <2>2 DEF FramingOk
      <3>2. d.content_len = c.content_len
        BY <1>10, <3>1
      <3>3. d.consumed_content <= d.content_len
        BY <1>5, <1>6, <1>9, <3>1, <3>2
      <3> QED
        BY <3>1, <3>2, <3>3
    <2>3. Request(c).framing = "negative" => d.content_len = -2
      BY <1>3, <1>10 DEF FramingOk
    <2>4. ASSUME Request(c).framing \notin {"length", "negative", "chunked", "miscounted"}
          PROVE  IF Request(c).method \in HasBody THEN d.content_len = -1 \/ d.must_close
                 ELSE d.content_len = 0
      <3>1. IF Request(c).method \in HasBody THEN c.content_len = -1 \/ c.must_close
            ELSE c.content_len = 0
        BY <1>3, <2>4 DEF FramingOk
      <3> QED
        BY <1>10, <1>11, <3>1
    <2> QED
      BY <1>8, <2>1, <2>2, <2>3, <2>4 DEF FramingOk
  <1>13. Serves(d)
    BY <1>5, <1>7, <1>12 DEF Serves
  <1>14. Closes(c, d)
    <2>1. c.must_close => d.must_close
      BY <1>10, <1>11
    <2>2. Request(c).framing \in {"length", "negative", "chunked", "miscounted"} => c.content_len # -1
      <3>1. Request(c).framing \notin {"chunked", "miscounted"}
        BY <1>3 DEF FramingOk
      <3>2. Request(c).framing = "length" => c.content_len \in Nat
        BY <1>3 DEF FramingOk
      <3>3. Request(c).framing = "negative" => c.content_len = -2
        BY <1>3 DEF FramingOk
      <3> QED
        BY <3>1, <3>2, <3>3
    <2> QED
      BY <1>10, <2>1, <2>2 DEF Closes
  <1>15. Place(c) \in Nat \ {0} /\ Place(c) - 1 <= Len(stream) /\ Place(d) - 1 <= Len(stream)
         /\ Place(d) = Place(c) + k /\ c.buf[1] \in Nat /\ c.request_len \in Nat
    <2>1. Place(c) \in Nat \ {0} /\ Place(c) - 1 <= Sendable(c) /\ c.buf[1] \in Nat /\ c.request_len \in Nat
      BY <1>2, <1>3, PlaceIs
    <2>2. Sendable(d) \in Nat /\ Sendable(d) <= Len(stream)
      BY SendableIs
    <2>3. Place(d) \in Nat \ {0} /\ Place(d) - 1 <= Sendable(d)
      BY <1>5, <2>2, PlaceIs
    <2>4. d.buf = c.buf /\ d.request_len = c.request_len
      BY <1>5 DEF Kept
    <2>5. Place(d) = Place(c) + k
      BY <1>5, <1>6, <1>9, <2>1, <2>4 DEF Place
    <2> QED
      BY <1>2, <2>1, <2>2, <2>3, <2>5
  <1>16. r.data \in Seq(1..Len(stream)) /\ (r.n = 0 => r.data = << >>)
    <2>1. \A i \in 1..k : Place(c) + i - 1 \in 1..Len(stream)
      BY <1>2, <1>6, <1>15, SMTT(30)
    <2>2. Run(Place(c), k) \in [1..k -> 1..Len(stream)]
      BY <2>1 DEF Run
    <2>3. r.data \in Seq(1..Len(stream))
      BY <1>5, <1>6, <2>2, FunctionIsSeq
    <2>4. r.n = 0 => r.data = << >>
      BY <1>5, <1>6, EmptyRun
    <2> QED
      BY <2>3, <2>4
  <1>17. /\ r.n <= 0 => Broken(d) \/ ContentRead(d)
         /\ r.n = 0 => d.late \/ d.stopped \/ ContentRead(d)
    <2>1. r.n <= 0 => r.n < len
      BY <1>6
    <2> QED
      BY <1>5, <1>7, <2>1 DEF ContentRead
  <1>18. ASSUME InContent(c, m)
         PROVE  InContent(d, m) /\ (r.n >= 0 => Joined(c, d, m, r.data))
    <2>1. c.content_len \in Nat /\ c.consumed_content <= c.content_len
          /\ PlainOf(m, c.buf[1] + c.request_len, c.content_len)
      BY <1>18 DEF InContent
    <2>2. d.content_len = c.content_len /\ d.consumed_content <= d.content_len
      <3>1. d.content_len = c.content_len
        BY <1>10, <2>1
      <3> QED
        BY <1>5, <1>6, <1>9, <2>1, <3>1
    <2>3. d.buf = c.buf /\ d.request_len = c.request_len
      BY <1>5 DEF Kept
    <2>4. InContent(d, m)
      BY <1>7, <2>1, <2>2, <2>3 DEF InContent
    <2>5. ASSUME NEW i \in Place(c)..Place(d) - 1 PROVE stream[i].m = m /\ stream[i].data
      <3> DEFINE a == c.buf[1] + c.request_len
      <3>1. a \in Nat /\ Place(c) = a + c.consumed_content /\ Place(d) = a + d.consumed_content
        BY <1>15, <2>3 DEF Place
      <3>2. i \in a..a + c.content_len - 1
        <4> HIDE DEF a
        <4>1. PICK x \in Nat, y \in Nat, z \in Nat :
                 x = c.consumed_content /\ y = d.consumed_content /\ z = c.content_len
          BY <1>9, <2>1
        <4>2. i \in a + x..a + y - 1 /\ y <= z
          BY <2>2, <3>1, <4>1
        <4>3. i \in a..a + z - 1
          BY <3>1, <4>2
        <4> QED
          BY <4>1, <4>3
      <3> QED
        BY <2>1, <3>2 DEF PlainOf
    <2>6. Joined(c, d, m, r.data)
      <3>1. Joined(c, c, m, << >>)
        <4>1. Place(c) - 1 \in 0..Len(stream)
          BY <1>2, <1>15
        <4>2. ContentUpTo(m)[Place(c) - 1] \in Seq(1..Len(stream))
          BY <1>2, <4>1, ContentType
        <4>3. ContentUpTo(m)[Place(c) - 1] \o << >> = ContentUpTo(m)[Place(c) - 1]
          BY <4>2, ConcatEmptySeq
        <4> QED
          BY <4>3 DEF Joined
      <3>2. << >> \in Seq(1..Len(stream))
        OBVIOUS
      <3>3. Joined(c, d, m, << >> \o Run(Place(c), k))
        BY <1>6, <1>15, <2>5, <3>1, <3>2, JoinedAlong
      <3>4. << >> \o r.data = r.data
        BY <1>16, ConcatEmptySeq
      <3> QED
        BY <1>5, <3>3, <3>4
    <2> QED
      BY <2>4, <2>6
  <1> QED
    BY <1>5, <1>6, <1>7, <1>13, <1>14, <1>16, <1>17, <1>18 DEF ReadGives, d

\* From chunks.
LEMMA ReadChunky ==
    ASSUME StreamOk, NEW c, Serves(c), NEW len \in Nat \ {0}, c.is_chunked # 0, NEW m, NEW r \in mg_read(c, len)
    PROVE  ReadGives(c, m, r)
  <1> DEFINE d == r.c
             over == Over(c)
  <1>1. r \in ReadChunks(c, len)
    BY DEF mg_read
  <1>2. c \in Conns /\ Loaded(c) /\ Chunky(c) /\ FramingOk(c) /\ over \in {0, 1}
    BY DEF Serves, Over
  <1> HIDE DEF over
  <1>3. /\ ReadState(c, len, r) /\ r.more = 0 /\ d.is_chunked # 1
        /\ r.n = 0 => d.is_chunked = 3
        /\ r.n = -1 => d.misframed
        /\ ChunksOf(m, over) /\ InChunk(c, m, over) => ReadChunked(c, m, over, r)
    BY <1>1, <1>2, ReadChunksIs
  <1>4. /\ d \in Conns /\ Kept(c, d) /\ Loaded(d) /\ Chunky(d) /\ d.must_close = c.must_close
        /\ r.n \in Int /\ r.n >= -1 /\ r.data \in Seq(1..Len(stream))
    BY <1>3, ReadStateIs
  <1>5. r.n = 0 => r.data = << >>
    BY <1>3 DEF ReadState
  <1> HIDE DEF d
  <1>6. Request(d) = Request(c) /\ Over(d) = over
    BY <1>4, RequestKept DEF over
  <1>7. d.is_chunked # 0
    BY <1>4 DEF Chunky
  <1>8. Request(c).framing \in {"chunked", "miscounted"}
    BY <1>2 DEF FramingOk
  <1>9. FramingOk(d)
    BY <1>6, <1>7, <1>8 DEF FramingOk
  <1>10. Serves(d)
    BY <1>4, <1>9 DEF Serves
  <1>11. Closes(c, d)
    BY <1>4 DEF Closes
  <1>12. /\ r.n <= 0 => Broken(d) \/ d.misframed \/ ContentRead(d)
         /\ r.n = 0 => d.late \/ d.stopped \/ ContentRead(d)
    <2>1. r.n = 0 => ContentRead(d)
      BY <1>3 DEF ContentRead, d
    <2>2. r.n <= 0 => r.n = 0 \/ r.n = -1
      BY <1>4
    <2> QED
      BY <1>3, <2>1, <2>2 DEF d
  <1>13. ASSUME InContent(c, m)
         PROVE  /\ InContent(d, m) \/ (r.n < 0 /\ d.misframed)
                /\ over = 0 /\ r.n >= 0 => Joined(c, d, m, r.data)
    <2>1. ChunksOf(m, over) /\ InChunk(c, m, over)
      BY <1>13 DEF InContent, over
    <2>2. r.n >= 0 => InChunk(d, m, over) /\ (over = 0 => Joined(c, d, m, r.data))
      BY <1>3, <2>1 DEF ReadChunked, d
    <2>3. r.n >= 0 => InContent(d, m)
      BY <1>6, <1>7, <2>1, <2>2 DEF InContent
    <2>4. ~ (r.n >= 0) => r.n < 0 /\ r.n = -1
      BY <1>4
    <2> QED
      BY <1>3, <2>2, <2>3, <2>4 DEF d
  <1> QED
    BY <1>3, <1>4, <1>5, <1>10, <1>11, <1>12, <1>13 DEF ReadGives, d, over

\* From either.
LEMMA ReadIs ==
    ASSUME StreamOk, NEW c, Serves(c), NEW len \in Nat \ {0}, NEW m, NEW r \in mg_read(c, len)
    PROVE  ReadGives(c, m, r)
  BY ReadPlain, ReadChunky

\* Where all of the content has been read, and where nothing says it has not.
LEMMA ReadAll ==
    ASSUME StreamOk, NEW c, Serves(c), NEW m, InContent(c, m), ContentRead(c)
    PROVE  /\ ContentUpTo(m)[Place(c) - 1] = Content(m)
           /\ Place(c) - 1 = Sent(m) \/ (Place(c) = Sent(m) /\ LineEndAt(m, Sent(m)))
  <1>1. /\ Sendable(c) \in Nat /\ Sendable(c) <= Len(stream) /\ Len(stream) \in Nat
    BY SendableIs
  <1>2. c \in Conns /\ Loaded(c)
    BY DEF Serves
  <1>3. Place(c) \in Nat \ {0} /\ Place(c) - 1 <= Sendable(c) /\ c.buf[1] \in Nat /\ c.request_len \in Nat
        /\ c.consumed_content \in Nat
    BY <1>1, <1>2, PlaceIs
  <1>4. Place(c) - 1 \in 0..Len(stream) /\ Len(stream) \in Place(c) - 1..Len(stream)
    BY <1>1, <1>3
  <1>5. ASSUME \A i \in Place(c)..Len(stream) : ~ (stream[i].m = m /\ stream[i].data)
        PROVE  ContentUpTo(m)[Place(c) - 1] = Content(m)
    <2>1. \A i \in (Place(c) - 1) + 1..Len(stream) : ~ (stream[i].m = m /\ stream[i].data)
      BY <1>3, <1>5
    <2>2. ContentUpTo(m)[Len(stream)] = ContentUpTo(m)[Place(c) - 1]
      BY <1>1, <1>4, <2>1, ContentAcross
    <2> QED
      BY <2>2 DEF Content
  <1>6. CASE c.is_chunked = 0
    <2>1. c.content_len \in Nat /\ c.consumed_content <= c.content_len
          /\ PlainOf(m, c.buf[1] + c.request_len, c.content_len)
      BY <1>6 DEF InContent
    <2>2. c.consumed_content = c.content_len
      BY <1>3, <1>6, <2>1 DEF ContentRead
    <2>3. Place(c) = c.buf[1] + c.request_len + c.content_len
      BY <2>2 DEF Place
    <2>4. Place(c) - 1 = Sent(m) /\ \A i \in Place(c)..Len(stream) : ~ (stream[i].m = m /\ stream[i].data)
      <3>1. PICK a \in Nat, n \in Nat : a = c.buf[1] + c.request_len /\ n = c.content_len
        BY <1>3, <2>1
      <3>2. Place(c) = a + n /\ PlainOf(m, a, n)
        BY <2>1, <2>3, <3>1
      <3> QED
        BY <3>2 DEF PlainOf
    <2> QED
      BY <1>5, <2>4
  <1>7. CASE c.is_chunked # 0
    <2>1. ChunksOf(m, Over(c)) /\ InChunk(c, m, Over(c)) /\ c.is_chunked = 3
      BY <1>7 DEF InContent, ContentRead
    <2>2. PICK p \in 1..Len(stream) : SizeAt(m, p) /\ stream[p].n = 0 /\ Place(c) = p + 2
      BY <2>1 DEF InChunk
    <2>3. /\ LineEndAt(m, p + 2) /\ p + 2 = Sent(m)
          /\ \A i \in p + 1..Len(stream) : ~ (stream[i].m = m /\ stream[i].data)
      BY <2>1, <2>2 DEF ChunksOf
    <2>4. \A i \in Place(c)..Len(stream) : i \in p + 1..Len(stream)
      BY <1>1, <2>2
    <2>5. ContentUpTo(m)[Place(c) - 1] = Content(m)
      BY <1>5, <2>3, <2>4
    <2> QED
      BY <2>2, <2>3, <2>5
  <1> QED
    BY <1>6, <1>7

-----------------------------------------------------------------------------
(* Discarding what is left of a content.                                   *)

\* f is what the first n turns of the loop of discard_unread_request_data can give: its equation.
DiscardTurns(f, c, n) ==
    f = [p \in 0..n |-> IF p = 0 THEN {[c |-> c, more |-> TRUE]} ELSE UNION {DiscardTurn(d) : d \in f[p - 1]}]

\* There are as many turns as one likes.
LEMMA DiscardTurnsExist ==
    ASSUME NEW c, NEW n \in Nat
    PROVE  \E f : DiscardTurns(f, c, n)
  <1> DEFINE Bad == {k \in Nat : ~ \E f : DiscardTurns(f, c, k)}
  <1> SUFFICES ASSUME Bad # {} PROVE FALSE
    OBVIOUS
  <1>1. PICK k \in Bad : \A j \in Bad : k <= j
    <2>1. Bad \subseteq Nat
      OBVIOUS
    <2> HIDE DEF Bad
    <2> QED
      BY <2>1, LeastExists
  <1>2. k # 0
    <2>1. DiscardTurns([p \in 0..0 |-> {[c |-> c, more |-> TRUE]}], c, 0)
      BY DEF DiscardTurns
    <2> QED
      BY <2>1
  <1>3. PICK f : DiscardTurns(f, c, k - 1)
    <2>1. k - 1 \in Nat /\ k - 1 \notin Bad
      BY <1>1, <1>2
    <2> QED
      BY <2>1
  <1> DEFINE Step(h, p) == IF p = 0 THEN {[c |-> c, more |-> TRUE]} ELSE UNION {DiscardTurn(d) : d \in h[p - 1]}
             g == [p \in 0..k |-> IF p = k THEN Step(f, k) ELSE f[p]]
             h == [p \in 0..k |-> Step(g, p)]
  <1>4. k \in Nat
    OBVIOUS
  <1>5. \A p \in 0..k : g[p] = h[p]
    <2> TAKE p \in 0..k
    <2>1. p - 1 \in 0..k - 1 => g[p - 1] = f[p - 1]
      BY <1>4
    <2>2. CASE p = k
      <3>1. p - 1 \in 0..k - 1
        BY <1>2, <1>4, <2>2
      <3>2. g[p] = Step(f, p) /\ h[p] = Step(g, p)
        BY <2>2
      <3> QED
        BY <2>1, <3>1, <3>2
    <2>3. CASE p # k
      <3>1. p \in 0..k - 1 /\ (p # 0 => p - 1 \in 0..k - 1)
        BY <1>4, <2>3
      <3>2. f[p] = Step(f, p)
        BY <1>3, <3>1 DEF DiscardTurns
      <3>3. g[p] = f[p] /\ h[p] = Step(g, p)
        BY <2>3
      <3> QED
        BY <2>1, <3>1, <3>2, <3>3
    <2> QED
      BY <2>2, <2>3
  <1>6. g = h
    BY <1>5
  <1>7. DiscardTurns(g, c, k)
    BY <1>6 DEF DiscardTurns
  <1> QED
    BY <1>7

\* The loop, started with c.
DiscardState(c, m, d) ==
    /\ Serves(d.c) /\ Kept(c, d.c) /\ Closes(c, d.c)
    /\ ~d.more => d.c.is_chunked # 1 /\ (Broken(d.c) \/ d.c.misframed \/ ContentRead(d.c))
    /\ InContent(c, m) => InContent(d.c, m) \/ (~d.more /\ d.c.misframed)

\* What closes a connection does so after several reads.
LEMMA ClosesTransitive ==
    ASSUME NEW c, NEW d, NEW e, Kept(c, d), Closes(c, d), Closes(d, e)
    PROVE  Closes(c, e)
  <1>1. Request(d) = Request(c)
    BY RequestKept
  <1> QED
    BY <1>1 DEF Closes

\* One turn of the loop.
LEMMA DiscardTurnIs ==
    ASSUME StreamOk, NEW c, NEW m, NEW d, DiscardState(c, m, d), d = [c |-> d.c, more |-> d.more],
           NEW e \in DiscardTurn(d)
    PROVE  DiscardState(c, m, e) /\ e = [c |-> e.c, more |-> e.more]
  <1>1. Serves(d.c) /\ Kept(c, d.c) /\ Closes(c, d.c)
    BY DEF DiscardState
  <1>2. CASE ~d.more \/ ContentRead(d.c)
    <2>1. e = [d EXCEPT !.more = FALSE]
      BY <1>2 DEF DiscardTurn
    <2>2. e.c = d.c /\ e.more = FALSE /\ e = [c |-> d.c, more |-> FALSE]
      BY <2>1
    <2>3. ContentRead(d.c) => d.c.is_chunked # 1
      BY DEF ContentRead
    <2>4. d.c.is_chunked # 1 /\ (Broken(d.c) \/ d.c.misframed \/ ContentRead(d.c))
      BY <1>2, <2>3 DEF DiscardState
    <2>5. InContent(c, m) => InContent(d.c, m) \/ d.c.misframed
      BY DEF DiscardState
    <2> QED
      BY <1>1, <2>2, <2>4, <2>5 DEF DiscardState
  <1>3. CASE ~ (~d.more \/ ContentRead(d.c))
    <2> DEFINE len == IF d.c.is_chunked = 0 THEN d.c.content_len - d.c.consumed_content ELSE Len(stream)
    <2>1. PICK r \in mg_read(d.c, len) : e = [c |-> r.c, more |-> r.n > 0]
      BY <1>3 DEF DiscardTurn
    <2>2. len \in Nat \ {0}
      <3>1. d.c.content_len \in Int /\ d.c.consumed_content \in Nat /\ d.c \in Conns /\ Loaded(d.c)
        BY <1>1 DEF Serves, Conns
      <3>2. CASE d.c.is_chunked = 0
        BY <1>3, <3>1, <3>2 DEF ContentRead
      <3>3. CASE d.c.is_chunked # 0
        <4>1. Sendable(d.c) \in Nat /\ Sendable(d.c) <= Len(stream) /\ Len(stream) \in Nat
          BY SendableIs
        <4>2. d.c.buf[1] \in Nat \ {0} /\ d.c.request_len \in Nat \ {0} /\ Place(d.c) - 1 <= Sendable(d.c)
              /\ Place(d.c) \in Nat
          BY <3>1, <4>1, PlaceIs
        <4>3. Place(d.c) >= 2
          BY <3>1, <4>2, SMTT(30) DEF Place
        <4> QED
          BY <3>3, <4>1, <4>2, <4>3
      <3> QED
        BY <3>2, <3>3
    <2> HIDE DEF len
    <2>3. ReadGives(d.c, m, r)
      BY <1>1, <2>1, <2>2, ReadIs
    <2>4. Serves(r.c) /\ Kept(d.c, r.c) /\ Closes(d.c, r.c) /\ r.c.is_chunked # 1 /\ r.n \in Int
      BY <2>3 DEF ReadGives
    <2>5. Kept(c, r.c) /\ Closes(c, r.c)
      BY <1>1, <2>4, KeptTransitive, ClosesTransitive
    <2>6. e.c = r.c /\ (e.more <=> r.n > 0) /\ e = [c |-> e.c, more |-> e.more]
      BY <2>1
    <2>7. ~e.more => Broken(r.c) \/ r.c.misframed \/ ContentRead(r.c)
      BY <2>3, <2>4, <2>6 DEF ReadGives
    <2>8. InContent(c, m) => InContent(r.c, m) \/ (~e.more /\ r.c.misframed)
      <3>1. InContent(c, m) => InContent(d.c, m)
        BY <1>3 DEF DiscardState
      <3>2. InContent(d.c, m) => InContent(r.c, m) \/ (r.n < 0 /\ r.c.misframed)
        BY <2>3 DEF ReadGives
      <3> QED
        BY <2>4, <2>6, <3>1, <3>2
    <2> QED
      BY <2>4, <2>5, <2>6, <2>7, <2>8 DEF DiscardState
  <1> QED
    BY <1>2, <1>3

\* What it gives: all of the content is behind, or the client is.
LEMMA DiscardIs ==
    ASSUME StreamOk, NEW c, Serves(c), NEW m, NEW e \in discard_unread_request_data(c)
    PROVE  /\ Serves(e) /\ Kept(c, e) /\ Closes(c, e) /\ e.is_chunked # 1
           /\ Broken(e) \/ e.misframed \/ ContentRead(e)
           /\ InContent(c, m) => InContent(e, m) \/ e.misframed
  <1> DEFINE All == {d \in [c: Conns, more: BOOLEAN] : DiscardState(c, m, d)}
             N == Len(stream) + 2
             f == CHOOSE f : DiscardTurns(f, c, N)
             start == [c |-> c, more |-> TRUE]
  <1>1. PICK d \in f[N] : ~d.more /\ e = d.c
    BY DEF discard_unread_request_data, DiscardTurns
  <1>2. N \in Nat
    BY DEF StreamOk
  <1>3. DiscardTurns(f, c, N)
    <2> HIDE DEF N
    <2> QED
      BY <1>2, DiscardTurnsExist
  <1> HIDE DEF f, N
  <1>4. f[0] = {start} /\ \A k \in 1..N : f[k] = UNION {DiscardTurn(s) : s \in f[k - 1]}
    <2>1. 0 \in 0..N /\ \A k \in 1..N : k \in 0..N /\ k # 0
      BY <1>2
    <2> QED
      BY <1>3, <2>1 DEF DiscardTurns
  <1>5. start \in [c: Conns, more: BOOLEAN] /\ start.c = c /\ start.more
    BY DEF Serves
  <1> HIDE DEF start
  <1>6. start \in All
    <2>1. Kept(c, c)
      BY DEF Kept
    <2>2. Closes(c, c)
      BY DEF Closes
    <2>3. DiscardState(c, m, start)
      BY <1>5, <2>1, <2>2 DEF DiscardState
    <2> QED
      BY <1>5, <2>3
  <1>7. ASSUME NEW s \in All, NEW t \in DiscardTurn(s) PROVE t \in All
    <2>1. s = [c |-> s.c, more |-> s.more] /\ DiscardState(c, m, s)
      OBVIOUS
    <2>2. DiscardState(c, m, t) /\ t = [c |-> t.c, more |-> t.more]
      BY <2>1, DiscardTurnIs
    <2>3. t.c \in Conns
      BY <2>2 DEF DiscardState, Serves
    <2>4. t.more \in BOOLEAN
      <3>1. CASE ~s.more \/ ContentRead(s.c)
        BY <1>7, <3>1 DEF DiscardTurn
      <3>2. CASE ~ (~s.more \/ ContentRead(s.c))
        <4>1. PICK r : t = [c |-> r.c, more |-> r.n > 0]
          BY <1>7, <3>2 DEF DiscardTurn
        <4> QED
          BY <4>1
      <3> QED
        BY <3>1, <3>2
    <2> QED
      BY <2>2, <2>3, <2>4
  <1> HIDE DEF All
  <1>8. d \in All
    <2>1. f[0] \subseteq All
      BY <1>4, <1>6
    <2>2. \A k \in 1..N : f[k - 1] \subseteq All => f[k] \subseteq All
      BY <1>4, <1>7
    <2> QED
      BY <1>1, <1>2, <2>1, <2>2, LoopInvariant
  <1>9. DiscardState(c, m, d)
    BY <1>8 DEF All
  <1> QED
    BY <1>1, <1>9 DEF DiscardState

-----------------------------------------------------------------------------
(* The whole stream.                                                       *)

\* Sequences of one kind of token.
LEMMA Same ==
    ASSUME NEW n \in Nat, NEW t \in Tokens
    PROVE  LET s == [i \in 1..n |-> t] IN s \in Seq(Tokens) /\ Len(s) = n /\ \A i \in 1..n : s[i] = t
  OBVIOUS

\* What precedes the content of a message.
HeadShape(s, m, msg) ==
    LET b == msg.blanks l == msg.lines IN
    /\ s \in Seq(Tokens) /\ Len(s) = b + l + 2
    /\ \A i \in 1..b + l + 2 : s[i].m = m /\ ~s[i].data
    /\ \A i \in 1..b : s[i].t = "e"
    /\ s[b + 1].t = "G" /\ s[b + 1].request = {msg}
    /\ \A i \in 1..l : s[b + 1 + i].t = "h"
    /\ s[b + l + 2].t = "e"

\* A content, of a length that is known or in chunks.
ContentShape(C, m, msg) ==
    /\ C \in Seq(Tokens)
    /\ \A i \in 1..Len(C) : C[i].m = m /\ (~C[i].data => C[i].t \in {"d", "e"})
    /\ msg.framing \in {"chunked", "miscounted"} =>
          Chunked(C, m, IF msg.framing = "miscounted" THEN 1 ELSE 0)
    /\ msg.framing \notin {"chunked", "miscounted"} =>
          Len(C) = Len(FlattenSeq(msg.content)) /\ \A i \in 1..Len(C) : C[i].data

\* No chunk of size 0, and no content that is not announced: ConnectionAssumption.
Sane(msg) ==
    /\ msg \in Messages
    /\ \A i \in 1..Len(msg.content) : ChunkSize(msg, i) > 0
    /\ msg.framing = "none" /\ msg.method \notin HasBody => msg.content = << >>

\* MessageTokens is the one before the other.
LEMMA HeadIs ==
    ASSUME NEW m \in Nat, NEW msg \in Messages
    PROVE  HeadShape([i \in 1..msg.blanks |-> Token(m, "e", FALSE)]
                     \o <<[Token(m, "G", FALSE) EXCEPT !.request = {msg}]>>
                     \o [i \in 1..msg.lines |-> Token(m, "h", FALSE)]
                     \o <<Token(m, "e", FALSE)>>, m, msg)
  <1> DEFINE e == Token(m, "e", FALSE)
             G == [Token(m, "G", FALSE) EXCEPT !.request = {msg}]
             h == Token(m, "h", FALSE)
             A == [i \in 1..msg.blanks |-> e]
             B == <<G>>
             H == [i \in 1..msg.lines |-> h]
             E == <<e>>
             b == msg.blanks
             l == msg.lines
  <1>1. b \in Nat /\ l \in Nat
    BY DEF Messages
  <1>2. e \in Tokens /\ e.t = "e" /\ e.data = FALSE /\ e.m = m
    BY DEF Token, Tokens, Kinds
  <1>3. h \in Tokens /\ h.t = "h" /\ h.data = FALSE /\ h.m = m
    BY DEF Token, Tokens, Kinds
  <1>4. G \in Tokens /\ G.t = "G" /\ G.data = FALSE /\ G.m = m /\ G.request = {msg}
    BY DEF Token, Tokens, Kinds
  <1> HIDE DEF e, h, G
  <1>5. /\ A \in Seq(Tokens) /\ Len(A) = b /\ \A i \in 1..b : A[i] = e
        /\ H \in Seq(Tokens) /\ Len(H) = l /\ \A i \in 1..l : H[i] = h
    BY <1>1, <1>2, <1>3, Same
  <1>6. B \in Seq(Tokens) /\ Len(B) = 1 /\ B[1] = G /\ E \in Seq(Tokens) /\ Len(E) = 1 /\ E[1] = e
    BY <1>2, <1>4
  <1> HIDE DEF A, B, H, E, b, l
  <1> DEFINE AB == A \o B
             ABH == AB \o H
             s == ABH \o E
  <1>7. /\ AB \in Seq(Tokens) /\ Len(AB) = b + 1
        /\ (\A i \in 1..b : AB[i] = e) /\ AB[b + 1] = G
    <2>1. 1 \in 1..1
      OBVIOUS
    <2>2. /\ AB \in Seq(Tokens) /\ Len(AB) = Len(A) + Len(B)
          /\ \A i \in 1..Len(A) : AB[i] = A[i]
          /\ \A i \in 1..Len(B) : AB[Len(A) + i] = B[i]
      <3>1. A \in Seq(Tokens) /\ B \in Seq(Tokens)
        BY <1>5, <1>6
      <3> QED
        BY <3>1, Concat2
    <2> HIDE DEF AB
    <2> QED
      BY <1>5, <1>6, <2>1, <2>2
  <1> HIDE DEF AB
  <1>8. /\ ABH \in Seq(Tokens) /\ Len(ABH) = b + 1 + l
        /\ \A i \in 1..b + 1 : ABH[i] = AB[i]
        /\ \A i \in 1..l : ABH[b + 1 + i] = h
    <2>2. /\ ABH \in Seq(Tokens) /\ Len(ABH) = Len(AB) + Len(H)
          /\ \A i \in 1..Len(AB) : ABH[i] = AB[i]
          /\ \A i \in 1..Len(H) : ABH[Len(AB) + i] = H[i]
      <3>1. AB \in Seq(Tokens) /\ H \in Seq(Tokens)
        BY <1>5, <1>7
      <3> QED
        BY <3>1, Concat2
    <2> HIDE DEF ABH
    <2> QED
      BY <1>5, <1>7, <2>2
  <1> HIDE DEF ABH
  <1>9. /\ s \in Seq(Tokens) /\ Len(s) = b + 1 + l + 1
        /\ \A i \in 1..b + 1 + l : s[i] = ABH[i]
        /\ s[b + 1 + l + 1] = e
    <2>1. 1 \in 1..1
      OBVIOUS
    <2>2. /\ s \in Seq(Tokens) /\ Len(s) = Len(ABH) + Len(E)
          /\ \A i \in 1..Len(ABH) : s[i] = ABH[i]
          /\ \A i \in 1..Len(E) : s[Len(ABH) + i] = E[i]
      <3>1. ABH \in Seq(Tokens) /\ E \in Seq(Tokens)
        BY <1>6, <1>8
      <3> QED
        BY <3>1, Concat2
    <2> HIDE DEF s
    <2> QED
      BY <1>6, <1>8, <2>1, <2>2
  <1> HIDE DEF s
  <1>10. b + 1 + l + 1 = b + l + 2
    BY <1>1
  <1>11. \A i \in 1..b : s[i] = e
    <2>1. \A i \in 1..b : i \in 1..b + 1 /\ i \in 1..b + 1 + l
      BY <1>1
    <2> QED
      BY <1>7, <1>8, <1>9, <2>1
  <1>12. s[b + 1] = G
    <2>1. b + 1 \in 1..b + 1 /\ b + 1 \in 1..b + 1 + l
      BY <1>1
    <2> QED
      BY <1>7, <1>8, <1>9, <2>1
  <1>13. \A i \in 1..l : s[b + 1 + i] = h
    <2>1. \A i \in 1..l : b + 1 + i \in 1..b + 1 + l
      BY <1>1
    <2> QED
      BY <1>8, <1>9, <2>1
  <1>14. ASSUME NEW i \in 1..b + l + 2 PROVE s[i].m = m /\ ~s[i].data
    <2>1. \/ i \in 1..b \/ i = b + 1 \/ i = b + 1 + l + 1
          \/ (i - (b + 1) \in 1..l /\ i = b + 1 + (i - (b + 1)))
      BY <1>1
    <2>2. s[i] \in {e, G, h}
      BY <1>9, <1>11, <1>12, <1>13, <2>1
    <2> QED
      BY <1>2, <1>3, <1>4, <2>2
  <1>15. HeadShape(s, m, msg)
    BY <1>2, <1>3, <1>4, <1>9, <1>10, <1>11, <1>12, <1>13, <1>14 DEF HeadShape, b, l
  <1> QED
    BY <1>15 DEF s, ABH, AB, A, B, H, E, e, G, h

\* ContentTokens are a content.
LEMMA ContentIs ==
    ASSUME NEW m \in Nat, NEW msg, Sane(msg)
    PROVE  ContentShape(ContentTokens(m, msg), m, msg)
  <1> DEFINE C == ContentTokens(m, msg)
  <1>0. msg \in Messages /\ \A i \in 1..Len(msg.content) : ChunkSize(msg, i) > 0
    BY DEF Sane
  <1>1. CASE msg.framing \in {"chunked", "miscounted"}
    <2> DEFINE over == IF msg.framing = "miscounted" THEN 1 ELSE 0
    <2>1. Chunked(C, m, over)
      BY <1>0, <1>1, ContentIsChunked
    <2> HIDE DEF C, over
    <2>2. C \in Seq(Tokens) /\ \A i \in 1..Len(C) : C[i].m = m /\ (~C[i].data => C[i].t \in {"d", "e"})
      BY <2>1 DEF Chunked
    <2> QED
      BY <1>1, <2>1, <2>2 DEF ContentShape, C, over
  <1>2. CASE msg.framing \notin {"chunked", "miscounted"}
    <2> DEFINE F == FlattenSeq(msg.content)
    <2>1. F \in Seq(STRING)
      <3>1. msg.content \in Seq(Seq(STRING))
        BY <1>0 DEF Messages
      <3> QED
        BY <3>1, FlattenSegments
    <2>2. C = [i \in 1..Len(F) |-> Token(m, F[i], TRUE)]
      BY <1>2 DEF ContentTokens, Payload
    <2> HIDE DEF F, C
    <2>3. Len(F) \in Nat /\ \A i \in 1..Len(F) : F[i] \in Kinds
      BY <2>1 DEF Kinds
    <2>4. ASSUME NEW i \in 1..Len(F)
          PROVE  LET k == Token(m, F[i], TRUE) IN k \in Tokens /\ k.m = m /\ k.data = TRUE
      <3>1. F[i] \in Kinds /\ TRUE \in BOOLEAN
        BY <2>3
      <3> QED
        BY <3>1, TokenIs
    <2>5. C \in [1..Len(F) -> Tokens]
      BY <2>2, <2>4
    <2>6. C \in Seq(Tokens) /\ Len(C) = Len(F)
      BY <2>3, <2>5, FunctionIsSeq
    <2>7. \A i \in 1..Len(F) : C[i].m = m /\ C[i].data
      BY <2>2, <2>4
    <2> QED
      BY <1>2, <2>6, <2>7 DEF ContentShape, F, C
  <1> QED
    BY <1>1, <1>2

\* A whole message: a header, and content C behind it.
MessageShape(s, m, msg, C) ==
    LET b == msg.blanks l == msg.lines IN
    /\ s \in Seq(Tokens) /\ Len(s) = b + l + 2 + Len(C)
    /\ ContentShape(C, m, msg)
    /\ \A i \in 1..b + l + 2 : s[i].m = m /\ ~s[i].data
    /\ \A i \in 1..b : s[i].t = "e"
    /\ s[b + 1].t = "G" /\ s[b + 1].request = {msg}
    /\ \A i \in 1..l : s[b + 1 + i].t = "h"
    /\ s[b + l + 2].t = "e"
    /\ \A j \in 1..Len(C) : s[b + l + 2 + j] = C[j]

\* MessageTokens is one.
LEMMA MessageIs ==
    ASSUME NEW m \in Nat, NEW msg, Sane(msg)
    PROVE  MessageShape(MessageTokens(m, msg), m, msg, ContentTokens(m, msg))
  <1> DEFINE H == [i \in 1..msg.blanks |-> Token(m, "e", FALSE)]
                  \o <<[Token(m, "G", FALSE) EXCEPT !.request = {msg}]>>
                  \o [i \in 1..msg.lines |-> Token(m, "h", FALSE)]
                  \o <<Token(m, "e", FALSE)>>
             C == ContentTokens(m, msg)
             s == MessageTokens(m, msg)
             b == msg.blanks
             l == msg.lines
  <1>0. msg \in Messages
    BY DEF Sane
  <1>1. s = H \o C
    BY DEF MessageTokens
  <1>2. HeadShape(H, m, msg)
    BY <1>0, HeadIs
  <1>3. ContentShape(C, m, msg)
    BY ContentIs
  <1> HIDE DEF H, C, s
  <1>4. b \in Nat /\ l \in Nat
    BY <1>0 DEF Messages
  <1>5. /\ H \in Seq(Tokens) /\ Len(H) = b + l + 2
        /\ \A i \in 1..b + l + 2 : H[i].m = m /\ ~H[i].data
        /\ \A i \in 1..b : H[i].t = "e"
        /\ H[b + 1].t = "G" /\ H[b + 1].request = {msg}
        /\ \A i \in 1..l : H[b + 1 + i].t = "h"
        /\ H[b + l + 2].t = "e"
    BY <1>2 DEF HeadShape
  <1>6. H \in Seq(Tokens) /\ C \in Seq(Tokens)
    BY <1>3, <1>5 DEF ContentShape
  <1>7. /\ s \in Seq(Tokens) /\ Len(s) = Len(H) + Len(C)
        /\ \A i \in 1..Len(H) : s[i] = H[i]
        /\ \A j \in 1..Len(C) : s[Len(H) + j] = C[j]
    BY <1>1, <1>6, Concat2
  <1> HIDE DEF b, l
  <1>8. /\ \A i \in 1..b : i \in 1..b + l + 2
        /\ b + 1 \in 1..b + l + 2 /\ b + l + 2 \in 1..b + l + 2
        /\ \A i \in 1..l : b + 1 + i \in 1..b + l + 2
    BY <1>4
  <1>9. \A i \in 1..b + l + 2 : s[i] = H[i]
    BY <1>5, <1>7
  <1>10. Len(s) = b + l + 2 + Len(C) /\ \A j \in 1..Len(C) : s[b + l + 2 + j] = C[j]
    BY <1>5, <1>7
  <1>11. /\ \A i \in 1..b + l + 2 : s[i].m = m /\ ~s[i].data
         /\ \A i \in 1..b : s[i].t = "e"
         /\ s[b + 1].t = "G" /\ s[b + 1].request = {msg}
         /\ \A i \in 1..l : s[b + 1 + i].t = "h"
         /\ s[b + l + 2].t = "e"
    BY <1>5, <1>8, <1>9
  <1> QED
    BY <1>3, <1>7, <1>10, <1>11 DEF MessageShape, b, l, s, C

\* Message m stands behind position a, its content behind position a + blanks + lines + 2.
MessageAt(m, msg, a, z, C) ==
    LET b == msg.blanks l == msg.lines IN
    /\ Sane(msg) /\ a \in Nat /\ b \in Nat /\ l \in Nat /\ Len(C) \in Nat
    /\ z = a + b + l + 2 + Len(C) /\ z <= Len(stream)
    /\ ContentShape(C, m, msg)
    /\ \A i \in 1..b + l + 2 : stream[a + i].m = m /\ ~stream[a + i].data
    /\ \A i \in 1..b : stream[a + i].t = "e"
    /\ stream[a + b + 1].t = "G" /\ stream[a + b + 1].request = {msg}
    /\ \A i \in 1..l : stream[a + b + 1 + i].t = "h"
    /\ stream[a + b + l + 2].t = "e"
    /\ \A j \in 1..Len(C) : stream[a + b + l + 2 + j] = C[j]

\* The messages one behind the other, the m-th one behind position off[m].
Messaged(script, off) ==
    /\ off \in [1..Len(script) + 1 -> Nat] /\ off[1] = 0 /\ off[Len(script) + 1] = Len(stream)
    /\ \A m \in 1..Len(script) : MessageAt(m, script[m], off[m], off[m + 1], ContentTokens(m, script[m]))
    /\ \A i, j \in 1..Len(script) + 1 : i <= j => off[i] <= off[j]
    /\ \A p \in 1..Len(stream) : \E m \in 1..Len(script) : p \in off[m] + 1..off[m + 1]

\* What the client sends.
Script(script) ==
    /\ script \in Seq(Messages) /\ stream = Stream(script)
    /\ \A m \in 1..Len(script) : Sane(script[m])

\* The stream of messages that are what clients send.
LEMMA StreamIs ==
    ASSUME NEW script, Script(script)
    PROVE  stream \in Seq(Tokens) /\ Len(script) \in Nat /\ \E off : Messaged(script, off)
  <1> DEFINE n == Len(script)
             seqs == [m \in 1..n |-> MessageTokens(m, script[m])]
             C(m) == ContentTokens(m, script[m])
  <1>1. n \in Nat /\ \A m \in 1..n : Sane(script[m]) /\ m \in Nat
    BY DEF Script
  <1>2. stream = FlattenSeq(seqs)
    BY DEF Script, Stream
  <1>3. ASSUME NEW m \in 1..n PROVE MessageShape(seqs[m], m, script[m], C(m))
    BY <1>1, MessageIs
  <1>4. seqs \in Seq(Seq(Tokens)) /\ Len(seqs) = n
    <2>1. \A m \in 1..n : seqs[m] \in Seq(Tokens)
      BY <1>3 DEF MessageShape
    <2>2. seqs \in [1..n -> Seq(Tokens)]
      BY <2>1
    <2> QED
      BY <1>1, <2>2, FunctionIsSeq
  <1> HIDE DEF seqs, n, C
  <1>5. stream \in Seq(Tokens)
    BY <1>2, <1>4, FlattenSegments
  <1>6. PICK off : Segments(stream, seqs, off)
    BY <1>2, <1>4, FlattenSegments
  <1>7. /\ off \in [1..n + 1 -> Nat] /\ off[1] = 0 /\ off[n + 1] = Len(stream)
        /\ \A i \in 1..n : off[i + 1] = off[i] + Len(seqs[i])
        /\ \A i \in 1..n : \A j \in 1..Len(seqs[i]) : stream[off[i] + j] = seqs[i][j]
    BY <1>4, <1>6 DEF Segments
  <1>8. /\ \A i, j \in 1..n + 1 : i <= j => off[i] <= off[j]
        /\ \A p \in 1..Len(stream) : \E i \in 1..n : p \in off[i] + 1..off[i + 1]
    BY <1>4, <1>6, SegmentsCover
  <1>9. ASSUME NEW m \in 1..n PROVE MessageAt(m, script[m], off[m], off[m + 1], C(m))
    <2> DEFINE msg == script[m]
               s == seqs[m]
               a == off[m]
               z == off[m + 1]
               b == msg.blanks
               l == msg.lines
               L == Len(C(m))
    <2>1. m \in 1..n + 1 /\ m + 1 \in 1..n + 1 /\ n + 1 \in 1..n + 1 /\ m + 1 <= n + 1
      BY <1>1
    <2>2. a \in Nat /\ z \in Nat /\ z <= Len(stream)
      BY <1>7, <1>8, <2>1
    <2>3. /\ s \in Seq(Tokens) /\ Len(s) = b + l + 2 + L
          /\ ContentShape(C(m), m, msg)
          /\ \A i \in 1..b + l + 2 : s[i].m = m /\ ~s[i].data
          /\ \A i \in 1..b : s[i].t = "e"
          /\ s[b + 1].t = "G" /\ s[b + 1].request = {msg}
          /\ \A i \in 1..l : s[b + 1 + i].t = "h"
          /\ s[b + l + 2].t = "e"
          /\ \A j \in 1..L : s[b + l + 2 + j] = C(m)[j]
      BY <1>3 DEF MessageShape
    <2>4. Sane(msg) /\ b \in Nat /\ l \in Nat
      BY <1>1 DEF Sane, Messages
    <2>5. L \in Nat
      BY <2>3 DEF ContentShape
    <2>6. z = a + Len(s) /\ \A j \in 1..Len(s) : stream[a + j] = s[j]
      BY <1>7
    <2> HIDE DEF msg, s, a, z, b, l, L
    <2>7. /\ \A i \in 1..b : i \in 1..Len(s)
          /\ b + 1 \in 1..Len(s) /\ b + l + 2 \in 1..Len(s)
          /\ \A i \in 1..l : b + 1 + i \in 1..Len(s)
          /\ \A i \in 1..b + l + 2 : i \in 1..Len(s)
          /\ \A j \in 1..L : b + l + 2 + j \in 1..Len(s)
      <3>1. Len(s) = b + l + 2 + L
        BY <2>3
      <3> QED
        BY <2>4, <2>5, <3>1
    <2>8. /\ \A i \in 1..b + l + 2 : stream[a + i] = s[i]
          /\ \A i \in 1..b : stream[a + i] = s[i]
          /\ stream[a + (b + 1)] = s[b + 1] /\ stream[a + (b + l + 2)] = s[b + l + 2]
          /\ \A i \in 1..l : stream[a + (b + 1 + i)] = s[b + 1 + i]
          /\ \A j \in 1..L : stream[a + (b + l + 2 + j)] = s[b + l + 2 + j]
      BY <2>6, <2>7
    <2>9. /\ a + (b + 1) = a + b + 1 /\ a + (b + l + 2) = a + b + l + 2
          /\ \A i \in 1..l : a + (b + 1 + i) = a + b + 1 + i
          /\ \A j \in 1..L : a + (b + l + 2 + j) = a + b + l + 2 + j
      BY <2>2, <2>4, <2>5
    <2>10. z = a + b + l + 2 + L
      BY <2>2, <2>3, <2>4, <2>5, <2>6, SMTT(30)
    <2>11. /\ \A i \in 1..b + l + 2 : stream[a + i].m = m /\ ~stream[a + i].data
           /\ \A i \in 1..b : stream[a + i].t = "e"
           /\ stream[a + b + 1].t = "G" /\ stream[a + b + 1].request = {msg}
           /\ \A i \in 1..l : stream[a + b + 1 + i].t = "h"
           /\ stream[a + b + l + 2].t = "e"
      BY <2>3, <2>8, <2>9
    <2>12. \A j \in 1..L : stream[a + b + l + 2 + j] = C(m)[j]
      BY <2>3, <2>8, <2>9
    <2> QED
      BY <2>2, <2>3, <2>4, <2>5, <2>10, <2>11, <2>12 DEF MessageAt, msg, a, z, b, l, L
  <1>10. Messaged(script, off)
    BY <1>7, <1>8, <1>9 DEF Messaged, n, C
  <1> QED
    BY <1>1, <1>5, <1>10 DEF n

\* A position behind a is one of the first h or of the L after them.
LEMMA Spots ==
    ASSUME NEW a \in Nat, NEW h \in Nat, NEW L \in Nat, NEW p \in a + 1..a + h + L
    PROVE  \/ p - a \in 1..h /\ p = a + (p - a) /\ p <= a + h
           \/ p - (a + h) \in 1..L /\ p = a + h + (p - (a + h)) /\ p > a + h
  OBVIOUS

\* A position of a header.
LEMMA HeadSpots ==
    ASSUME NEW b \in Nat, NEW l \in Nat, NEW i \in 1..b + l + 2
    PROVE  i \in 1..b \/ i = b + 1 \/ (i - (b + 1) \in 1..l /\ i = b + 1 + (i - (b + 1))) \/ i = b + l + 2
  OBVIOUS

\* The numbers of a message.
LEMMA MessageNumbers ==
    ASSUME NEW m, NEW msg, NEW a, NEW z, NEW C, MessageAt(m, msg, a, z, C)
    PROVE  /\ a \in Nat /\ msg.blanks \in Nat /\ msg.lines \in Nat /\ Len(C) \in Nat
           /\ z = a + (msg.blanks + msg.lines + 2) + Len(C) /\ z <= Len(stream)
  <1>1. /\ a \in Nat /\ msg.blanks \in Nat /\ msg.lines \in Nat /\ Len(C) \in Nat
        /\ z = a + msg.blanks + msg.lines + 2 + Len(C) /\ z <= Len(stream)
    BY DEF MessageAt
  <1>2. a + msg.blanks + msg.lines + 2 + Len(C) = a + (msg.blanks + msg.lines + 2) + Len(C)
    BY <1>1
  <1> QED
    BY <1>1, <1>2

\* All positions of a message belong to it; one is its request line, and only a content has chunk
\* sizes.
LEMMA InMessage ==
    ASSUME NEW m, NEW msg, NEW a, NEW z, NEW C, MessageAt(m, msg, a, z, C), NEW p \in a + 1..z
    PROVE  /\ stream[p].m = m
           /\ stream[p].t = "G" /\ ~stream[p].data => p = a + msg.blanks + 1
           /\ stream[p].t = "d" /\ ~stream[p].data => p > a + (msg.blanks + msg.lines + 2)
           /\ stream[p].data => p > a + (msg.blanks + msg.lines + 2)
  <1> DEFINE b == msg.blanks
             l == msg.lines
             L == Len(C)
             h == b + l + 2
  <1>1. a \in Nat /\ b \in Nat /\ l \in Nat /\ L \in Nat /\ z = a + h + L
    BY MessageNumbers
  <1>2. /\ \A i \in 1..b + l + 2 : stream[a + i].m = m /\ ~stream[a + i].data
        /\ \A i \in 1..b : stream[a + i].t = "e"
        /\ stream[a + b + 1].t = "G"
        /\ \A i \in 1..l : stream[a + b + 1 + i].t = "h"
        /\ stream[a + b + l + 2].t = "e"
        /\ \A j \in 1..L : stream[a + b + l + 2 + j] = C[j]
    BY DEF MessageAt
  <1>3. \A j \in 1..L : C[j].m = m /\ (~C[j].data => C[j].t \in {"d", "e"})
    <2>1. ContentShape(C, m, msg)
      BY DEF MessageAt
    <2> QED
      BY <2>1 DEF ContentShape
  <1> HIDE DEF b, l, L
  <1>4. h \in Nat
    BY <1>1
  <1>5. \/ p - a \in 1..h /\ p = a + (p - a) /\ p <= a + h
        \/ p - (a + h) \in 1..L /\ p = a + h + (p - (a + h)) /\ p > a + h
    <2> HIDE DEF h
    <2>1. p \in a + 1..a + h + L
      BY <1>1
    <2> QED
      BY <1>1, <1>4, <2>1, Spots
  <1>6. CASE p - a \in 1..h /\ p = a + (p - a)
    <2>1. PICK i \in 1..h : i = p - a /\ p = a + i
      BY <1>6
    <2>2. stream[p].m = m /\ ~stream[p].data
      BY <1>2, <2>1
    <2>3. i \in 1..b \/ i = b + 1 \/ (i - (b + 1) \in 1..l /\ i = b + 1 + (i - (b + 1))) \/ i = b + l + 2
      BY <1>1, <2>1, HeadSpots
    <2>4. CASE i = b + 1
      <3>1. p = a + b + 1
        BY <1>1, <2>1, <2>4
      <3>2. stream[p].t = "G"
        BY <1>2, <3>1
      <3> QED
        BY <2>2, <3>1, <3>2 DEF b
    <2>5. CASE i \in 1..b
      <3>1. stream[p].t = "e"
        BY <1>2, <2>1, <2>5
      <3> QED
        BY <2>2, <3>1
    <2>6. CASE i - (b + 1) \in 1..l /\ i = b + 1 + (i - (b + 1))
      <3>1. PICK k \in 1..l : i = b + 1 + k
        BY <2>6
      <3>2. p = a + b + 1 + k
        BY <1>1, <2>1, <3>1
      <3>3. stream[p].t = "h"
        BY <1>2, <3>1, <3>2
      <3> QED
        BY <2>2, <3>3
    <2>7. CASE i = b + l + 2
      <3>1. p = a + b + l + 2
        BY <1>1, <2>1, <2>7
      <3>2. stream[p].t = "e"
        BY <1>2, <3>1
      <3> QED
        BY <2>2, <3>2
    <2> QED
      BY <2>3, <2>4, <2>5, <2>6, <2>7
  <1>7. CASE p - (a + h) \in 1..L /\ p = a + h + (p - (a + h)) /\ p > a + h
    <2>1. PICK j \in 1..L : p = a + h + j
      BY <1>7
    <2>2. p = a + b + l + 2 + j
      BY <1>1, <2>1
    <2>3. stream[p] = C[j]
      BY <1>2, <2>1, <2>2
    <2>4. stream[p].m = m /\ (~stream[p].data => stream[p].t \in {"d", "e"})
      BY <1>3, <2>3
    <2> QED
      BY <1>7, <2>4 DEF b, l
  <1> QED
    BY <1>5, <1>6, <1>7

\* A token tells where it stands.
LEMMA Whereabouts ==
    ASSUME NEW script, NEW off, Messaged(script, off), Len(script) \in Nat, NEW p \in 1..Len(stream)
    PROVE  LET m == stream[p].m IN m \in 1..Len(script) /\ p \in off[m] + 1..off[m + 1]
  <1>1. PICK m \in 1..Len(script) : p \in off[m] + 1..off[m + 1]
    BY DEF Messaged
  <1>2. MessageAt(m, script[m], off[m], off[m + 1], ContentTokens(m, script[m]))
    BY DEF Messaged
  <1>3. stream[p].m = m
    BY <1>1, <1>2, InMessage
  <1> QED
    BY <1>1, <1>3

\* The stream up to the end of a message.
LEMMA SentTo ==
    ASSUME NEW script, NEW off, Messaged(script, off), Len(script) \in Nat, Len(stream) \in Nat, NEW m \in Nat
    PROVE  Sent(m) = IF m <= Len(script) THEN off[m + 1] ELSE Len(stream)
  <1> DEFINE n == Len(script)
             e == IF m <= n THEN off[m + 1] ELSE Len(stream)
             S == {p \in 1..Len(stream) : stream[p].m <= m}
  <1>1. \A i \in 1..n + 1 : off[i] \in Nat
    BY DEF Messaged
  <1>2. off[1] = 0 /\ off[n + 1] = Len(stream) /\ \A i, j \in 1..n + 1 : i <= j => off[i] <= off[j]
    BY DEF Messaged
  <1>3. n \in Nat /\ (m <= n => m + 1 \in 1..n + 1) /\ n + 1 \in 1..n + 1
    OBVIOUS
  <1>4. e \in Nat /\ e <= Len(stream)
    BY <1>1, <1>2, <1>3
  <1>5. ASSUME NEW p \in 1..Len(stream) PROVE stream[p].m <= m <=> p <= e
    <2>1. PICK k \in 1..n : k = stream[p].m /\ p \in off[k] + 1..off[k + 1]
      BY Whereabouts
    <2>2. k \in 1..n + 1 /\ k + 1 \in 1..n + 1 /\ off[k] \in Nat /\ off[k + 1] \in Nat
      BY <1>1, <1>3, <2>1
    <2>3. CASE k <= m
      <3>1. m <= n => off[k + 1] <= off[m + 1]
        BY <1>2, <1>3, <2>2, <2>3
      <3>2. p <= e
        BY <1>4, <2>1, <2>2, <3>1
      <3> QED
        BY <2>1, <2>3, <3>2
    <2>4. CASE ~ (k <= m)
      <3>1. m + 1 <= k /\ m <= n
        BY <1>3, <2>1, <2>4
      <3>2. off[m + 1] <= off[k]
        BY <1>2, <1>3, <2>2, <3>1
      <3>3. ~ (p <= e)
        BY <1>1, <1>3, <1>4, <2>1, <2>2, <3>1, <3>2 DEF e
      <3> QED
        BY <2>1, <2>4, <3>3
    <2> QED
      BY <2>3, <2>4
  <1> HIDE DEF e
  <1>6. S = 1..e
    BY <1>4, <1>5
  <1>7. Cardinality(1..e) = e
    <2>1. Cardinality(1..e) = IF 1 > e THEN 0 ELSE e - 1 + 1
      BY <1>4, FS_Interval
    <2> QED
      BY <1>4, <2>1
  <1> QED
    BY <1>6, <1>7 DEF Sent, e

\* It grows from message to message.
LEMMA SentGrows ==
    ASSUME StreamOk, NEW i \in Nat, NEW j \in Nat, i <= j
    PROVE  Sent(i) <= Sent(j)
  <1> DEFINE S(m) == {p \in 1..Len(stream) : stream[p].m <= m}
  <1>1. Len(stream) \in Nat /\ \A p \in 1..Len(stream) : stream[p].m \in Nat
    <2>1. Len(stream) \in Nat
      BY DEF StreamOk
    <2>2. \A p \in 1..Len(stream) : stream[p] \in Tokens
      BY DEF StreamOk
    <2> QED
      BY <2>1, <2>2 DEF Tokens
  <1>2. S(i) \subseteq S(j)
    BY <1>1
  <1>3. IsFiniteSet(1..Len(stream))
    BY <1>1, FS_Interval
  <1>4. IsFiniteSet(S(j))
    BY <1>3, FS_Subset
  <1>5. Cardinality(S(i)) <= Cardinality(S(j))
    <2> HIDE DEF S
    <2> QED
      BY <1>2, <1>4, FS_Subset
  <1> QED
    BY <1>5 DEF Sent

\* The content of a message stands at q.
ContentAt(m, msg, q) ==
    IF msg.framing \in {"chunked", "miscounted"}
    THEN SizeAt(m, q) /\ ChunksOf(m, IF msg.framing = "miscounted" THEN 1 ELSE 0)
    ELSE PlainOf(m, q, Len(FlattenSeq(msg.content)))

\* A request line stands at p, its header behind it, then its content.
RequestAt(p, m, msg) ==
    /\ Sane(msg) /\ stream[p].m = m /\ stream[p].request = {msg}
    /\ \A i \in 1..msg.lines : p + i \in 1..Len(stream) /\ stream[p + i].t = "h"
    /\ p + msg.lines + 1 \in 1..Len(stream) /\ stream[p + msg.lines + 1].t = "e"
    /\ \A i \in 1..p + msg.lines + 1 : ~ (stream[i].m = m /\ stream[i].data)
    /\ ContentAt(m, msg, p + msg.lines + 2)

\* C stands behind position g of the stream, up to the end of message m, and nothing of m elsewhere
\* but what belongs to its header.
Embeds(m, g, C) ==
    /\ Len(stream) \in Nat /\ g \in Nat /\ Len(C) \in Nat /\ g + Len(C) = Sent(m) /\ Sent(m) <= Len(stream)
    /\ \A j \in 1..Len(C) : stream[g + j] = C[j]
    /\ \A i \in 1..Len(stream) : stream[i].m = m /\ (stream[i].data \/ stream[i].t = "d") => i \in g + 1..Sent(m)

\* Positions of what is embedded.
LEMMA Embedding ==
    ASSUME NEW m, NEW g, NEW C, Embeds(m, g, C)
    PROVE  /\ \A j \in 1..Len(C) : g + j \in 1..Len(stream) /\ stream[g + j] = C[j]
           /\ \A i \in g + 1..Sent(m) : i - g \in 1..Len(C) /\ i = g + (i - g)
  <1>1. PICK l \in Nat, L \in Nat, G \in Nat :
           /\ l = Len(stream) /\ L = Len(C) /\ G = g /\ G + L = Sent(m) /\ G + L <= l
           /\ \A j \in 1..L : stream[g + j] = C[j]
    BY DEF Embeds
  <1>2. \A j \in 1..L : G + j \in 1..l
    BY <1>1
  <1>3. \A i \in G + 1..G + L : i - G \in 1..L /\ i = G + (i - G)
    BY <1>1
  <1> QED
    BY <1>1, <1>2, <1>3

\* A plain content.
LEMMA PlainPlaced ==
    ASSUME NEW m, NEW g, NEW C, Embeds(m, g, C), \A i \in 1..Len(C) : C[i].m = m /\ C[i].data
    PROVE  PlainOf(m, g + 1, Len(C))
  <1>1. PICK l \in Nat, L \in Nat, G \in Nat :
           /\ l = Len(stream) /\ L = Len(C) /\ G = g /\ G + L = Sent(m) /\ G + L <= l
           /\ \A i \in 1..l : stream[i].m = m /\ stream[i].data => i \in G + 1..G + L
    BY DEF Embeds
  <1>2. /\ \A j \in 1..L : G + j \in 1..l /\ stream[G + j] = C[j]
        /\ \A i \in G + 1..G + L : i - G \in 1..L /\ i = G + (i - G)
    BY <1>1, Embedding
  <1>3. ASSUME NEW i \in G + 1..(G + 1) + L - 1
        PROVE  i \in 1..l /\ stream[i].m = m /\ stream[i].data
    <2>1. i \in G + 1..G + L
      BY <1>1
    <2>2. PICK j \in 1..L : i = G + j
      BY <1>2, <2>1
    <2> QED
      BY <1>1, <1>2, <2>2
  <1>4. (G + 1) + L - 1 = Sent(m)
    BY <1>1
  <1>5. ASSUME NEW i \in (G + 1) + L..l PROVE ~ (stream[i].m = m /\ stream[i].data)
    <2>1. i \in 1..l /\ ~ (i \in G + 1..G + L)
      BY <1>1
    <2> QED
      BY <1>1, <2>1
  <1> QED
    BY <1>1, <1>3, <1>4, <1>5 DEF PlainOf

\* A chunked one.
LEMMA ChunksPlaced ==
    ASSUME NEW m, NEW g, NEW C, Embeds(m, g, C), NEW over \in {0, 1}, Chunked(C, m, over), StreamOk
    PROVE  SizeAt(m, g + 1) /\ ChunksOf(m, over)
  <1>1. PICK l \in Nat, L \in Nat, G \in Nat :
           /\ l = Len(stream) /\ L = Len(C) /\ G = g /\ G + L = Sent(m) /\ G + L <= l
           /\ \A i \in 1..l : stream[i].m = m /\ (stream[i].data \/ stream[i].t = "d") => i \in G + 1..G + L
    <2>1. /\ Len(stream) \in Nat /\ g \in Nat /\ Len(C) \in Nat
          /\ g + Len(C) = Sent(m) /\ Sent(m) <= Len(stream)
      BY DEF Embeds
    <2>2. /\ g + Len(C) <= Len(stream)
          /\ \A i \in 1..Len(stream) : stream[i].m = m /\ (stream[i].data \/ stream[i].t = "d") =>
                i \in g + 1..g + Len(C)
      BY <2>1 DEF Embeds
    <2> QED
      BY <2>1, <2>2
  <1>2. /\ \A j \in 1..L : G + j \in 1..l /\ stream[G + j] = C[j]
        /\ \A i \in G + 1..G + L : i - G \in 1..L /\ i = G + (i - G)
    BY <1>1, Embedding
  <1>3. /\ \A i \in 1..L : C[i].m = m
        /\ C[1].t = "d" /\ ~C[1].data /\ L > 0
    BY <1>1 DEF Chunked
  <1>4. \A i \in 1..L : C[i].t = "d" /\ ~C[i].data =>
          LET n == C[i].n IN
          /\ i + 1 \in 1..L /\ C[i + 1].t = "e" /\ ~C[i + 1].data
          /\ n = 0 => i + 2 = L /\ C[i + 2].t = "e" /\ ~C[i + 2].data
          /\ n # 0 => /\ \A j \in 1..n + over : i + 1 + j \in 1..L /\ C[i + 1 + j].data
                      /\ i + 2 + n + over \in 1..L
                      /\ C[i + 2 + n + over].t = "e" /\ ~C[i + 2 + n + over].data
                      /\ i + 3 + n + over \in 1..L
                      /\ C[i + 3 + n + over].t = "d" /\ ~C[i + 3 + n + over].data
    BY <1>1 DEF Chunked
  <1>5. ASSUME NEW j \in 1..L, NEW p, p = G + j
        PROVE  /\ C[j].t = "e" /\ ~C[j].data => LineEndAt(m, p)
               /\ C[j].t = "d" /\ ~C[j].data => SizeAt(m, p)
    BY <1>1, <1>2, <1>3, <1>5 DEF LineEndAt, SizeAt
  <1>6. SizeAt(m, G + 1)
    <2>1. 1 \in 1..L
      BY <1>3
    <2> QED
      BY <1>3, <1>5, <2>1
  <1>7. ASSUME NEW p \in 1..l, SizeAt(m, p)
        PROVE  /\ stream[p].n \in Nat /\ LineEndAt(m, p + 1)
               /\ stream[p].n = 0 => /\ LineEndAt(m, p + 2) /\ p + 2 = Sent(m)
                                     /\ \A i \in p + 1..l : ~ (stream[i].m = m /\ stream[i].data)
               /\ stream[p].n # 0 =>
                     /\ \A i \in p + 2..p + 1 + stream[p].n + over :
                           i \in 1..l /\ stream[i].m = m /\ stream[i].data
                     /\ LineEndAt(m, p + 2 + stream[p].n + over)
                     /\ SizeAt(m, p + 3 + stream[p].n + over)
    <2>1. stream[p].t = "d" /\ ~stream[p].data /\ stream[p].m = m
      BY <1>7 DEF SizeAt
    <2>2. p \in G + 1..G + L
      BY <1>1, <2>1
    <2>3. PICK i \in 1..L : p = G + i
      BY <1>2, <2>2
    <2>4. PICK n \in Nat : n = stream[p].n
      BY <1>1, TokenOf
    <2>5. C[i].t = "d" /\ ~C[i].data /\ C[i].n = n
      BY <1>2, <2>1, <2>3, <2>4
    <2>6. /\ i + 1 \in 1..L /\ C[i + 1].t = "e" /\ ~C[i + 1].data
          /\ n = 0 => i + 2 = L /\ C[i + 2].t = "e" /\ ~C[i + 2].data
          /\ n # 0 => /\ \A j \in 1..n + over : i + 1 + j \in 1..L /\ C[i + 1 + j].data
                      /\ i + 2 + n + over \in 1..L
                      /\ C[i + 2 + n + over].t = "e" /\ ~C[i + 2 + n + over].data
                      /\ i + 3 + n + over \in 1..L
                      /\ C[i + 3 + n + over].t = "d" /\ ~C[i + 3 + n + over].data
      BY <1>4, <2>5
    <2>7. LineEndAt(m, p + 1)
      <3>1. p + 1 = G + (i + 1)
        BY <2>3
      <3> QED
        BY <1>5, <2>6, <3>1
    <2>8. ASSUME n = 0
          PROVE  /\ LineEndAt(m, p + 2) /\ p + 2 = Sent(m)
                 /\ \A k \in p + 1..l : ~ (stream[k].m = m /\ stream[k].data)
      <3>1. p + 2 = G + (i + 2) /\ i + 2 \in 1..L /\ p + 2 = G + L
        BY <1>3, <2>3, <2>6, <2>8
      <3>2. LineEndAt(m, p + 2)
        BY <1>5, <2>6, <2>8, <3>1
      <3>3. ASSUME NEW k \in p + 1..l PROVE ~ (stream[k].m = m /\ stream[k].data)
        <4>1. k = p + 1 \/ k = p + 2 \/ ~ (k \in G + 1..G + L)
          BY <1>1, <3>1
        <4>2. k \in 1..l
          OBVIOUS
        <4>3. k = p + 1 \/ k = p + 2 => ~stream[k].data
          BY <2>7, <3>2 DEF LineEndAt
        <4> QED
          BY <1>1, <4>1, <4>2, <4>3
      <3> QED
        BY <1>1, <3>1, <3>2, <3>3
    <2>9. ASSUME n # 0
          PROVE  /\ \A k \in p + 2..p + 1 + n + over :
                       k \in 1..l /\ stream[k].m = m /\ stream[k].data
                 /\ LineEndAt(m, p + 2 + n + over)
                 /\ SizeAt(m, p + 3 + n + over)
      <3>1. p + 2 + n + over = G + (i + 2 + n + over) /\ p + 3 + n + over = G + (i + 3 + n + over)
        BY <2>3
      <3>2. LineEndAt(m, p + 2 + n + over)
        BY <1>5, <2>6, <2>9, <3>1
      <3>3. SizeAt(m, p + 3 + n + over)
        BY <1>5, <2>6, <2>9, <3>1
      <3>4. ASSUME NEW k \in p + 2..p + 1 + n + over
            PROVE  k \in 1..l /\ stream[k].m = m /\ stream[k].data
        <4>1. k - (p + 1) \in 1..n + over /\ k = G + (i + 1 + (k - (p + 1)))
          BY <2>3
        <4>2. PICK j \in 1..n + over : k = G + (i + 1 + j)
          BY <4>1
        <4>3. i + 1 + j \in 1..L /\ C[i + 1 + j].data
          BY <2>6, <2>9
        <4>4. k \in 1..l /\ stream[k] = C[i + 1 + j]
          BY <1>2, <4>2, <4>3
        <4> QED
          BY <1>3, <4>3, <4>4
      <3> QED
        BY <3>2, <3>3, <3>4
    <2> QED
      BY <2>4, <2>7, <2>8, <2>9
  <1> QED
    BY <1>1, <1>6, <1>7 DEF ChunksOf

\* Message m, its content, and its end.
LEMMA MessagePlaced ==
    ASSUME StreamOk, NEW script, NEW off, Messaged(script, off), Len(script) \in Nat, NEW m \in 1..Len(script),
           NEW msg, msg = script[m]
    PROVE  /\ ContentAt(m, msg, off[m] + (msg.blanks + msg.lines + 2) + 1)
           /\ Sent(m) = off[m + 1] /\ Sent(m - 1) = off[m]
  <1> DEFINE a == off[m]
             z == off[m + 1]
             h == msg.blanks + msg.lines + 2
             C == ContentTokens(m, msg)
             g == a + h
  <1>1. MessageAt(m, msg, a, z, C)
    BY DEF Messaged
  <1> HIDE DEF C
  <1>2. a \in Nat /\ msg.blanks \in Nat /\ msg.lines \in Nat /\ Len(C) \in Nat /\ z = g + Len(C) /\ z <= Len(stream)
    BY <1>1, MessageNumbers, SMTT(30)
  <1>3. Len(stream) \in Nat
    BY DEF StreamOk
  <1>4. Sent(m) = z /\ Sent(m - 1) = a
    <2>1. m \in Nat /\ m - 1 \in Nat /\ m <= Len(script) /\ m - 1 <= Len(script) /\ (m - 1) + 1 = m
      OBVIOUS
    <2> QED
      BY <1>3, <2>1, SentTo
  <1>5. ContentShape(C, m, msg)
    BY <1>1 DEF MessageAt
  <1>6. Embeds(m, g, C)
    <2>1. \A j \in 1..Len(C) : stream[g + j] = C[j]
      <3>1. \A j \in 1..Len(C) : stream[a + msg.blanks + msg.lines + 2 + j] = C[j]
        BY <1>1 DEF MessageAt
      <3>2. \A j \in 1..Len(C) : a + msg.blanks + msg.lines + 2 + j = g + j
        BY <1>2
      <3> QED
        BY <3>1, <3>2
    <2>2. ASSUME NEW i \in 1..Len(stream), stream[i].m = m, stream[i].data \/ stream[i].t = "d"
          PROVE  i \in g + 1..z
      <3>1. i \in a + 1..z
        BY <2>2, Whereabouts
      <3>2. i > g
        BY <1>1, <2>2, <3>1, InMessage
      <3>3. PICK A \in Nat, b \in Nat, l \in Nat, L \in Nat : A = a /\ b = msg.blanks /\ l = msg.lines /\ L = Len(C)
        BY <1>2
      <3>4. z = A + (b + l + 2) + L /\ g = A + (b + l + 2)
        BY <1>2, <3>3
      <3>5. i \in A + 1..A + (b + l + 2) + L /\ i > A + (b + l + 2)
        BY <3>1, <3>2, <3>3, <3>4
      <3>6. i \in A + (b + l + 2) + 1..A + (b + l + 2) + L
        BY <3>5
      <3> QED
        BY <3>4, <3>6
    <2>3. g \in Nat
      <3>1. PICK A \in Nat, b \in Nat, l \in Nat : A = a /\ b = msg.blanks /\ l = msg.lines
        BY <1>2
      <3>2. g = A + (b + l + 2)
        BY <3>1
      <3> QED
        BY <3>1, <3>2, SMTT(30)
    <2> HIDE DEF g
    <2> QED
      BY <1>2, <1>3, <1>4, <2>1, <2>2, <2>3 DEF Embeds
  <1> HIDE DEF g, h, a, z
  <1>7. ContentAt(m, msg, g + 1)
    <2>1. CASE msg.framing \in {"chunked", "miscounted"}
      <3> DEFINE over == IF msg.framing = "miscounted" THEN 1 ELSE 0
      <3>1. Chunked(C, m, over) /\ over \in {0, 1}
        BY <1>5, <2>1 DEF ContentShape
      <3> HIDE DEF over
      <3>2. SizeAt(m, g + 1) /\ ChunksOf(m, over)
        BY <1>6, <3>1, ChunksPlaced
      <3> QED
        BY <2>1, <3>2 DEF ContentAt, over
    <2>2. CASE msg.framing \notin {"chunked", "miscounted"}
      <3>1. Len(C) = Len(FlattenSeq(msg.content)) /\ \A i \in 1..Len(C) : C[i].m = m /\ C[i].data
        BY <1>5, <2>2 DEF ContentShape
      <3>2. PlainOf(m, g + 1, Len(C))
        BY <1>6, <3>1, PlainPlaced
      <3> QED
        BY <2>2, <3>1, <3>2 DEF ContentAt
    <2> QED
      BY <2>1, <2>2
  <1> QED
    BY <1>4, <1>7 DEF g, h, a, z

\* A request line in the stream is that of a message.
LEMMA RequestFound ==
    ASSUME StreamOk, NEW script, Script(script), NEW p \in 1..Len(stream), stream[p].t = "G", ~stream[p].data
    PROVE  \E msg : RequestAt(p, stream[p].m, msg)
  <1>1. Len(script) \in Nat /\ Len(stream) \in Nat
    BY StreamIs DEF StreamOk
  <1>2. PICK off : Messaged(script, off)
    BY StreamIs
  <1>3. PICK m \in 1..Len(script) : m = stream[p].m /\ p \in off[m] + 1..off[m + 1]
    BY <1>1, <1>2, Whereabouts
  <1> DEFINE msg == script[m]
             a == off[m]
             z == off[m + 1]
             C == ContentTokens(m, msg)
  <1>4. MessageAt(m, msg, a, z, C)
    BY <1>2 DEF Messaged
  <1>5. ContentAt(m, msg, a + (msg.blanks + msg.lines + 2) + 1)
    BY <1>1, <1>2, MessagePlaced
  <1>6. \A i \in 1..Len(stream) : stream[i].m = m => i \in a + 1..z
    BY <1>1, <1>2, Whereabouts
  <1> HIDE DEF C, a, z, msg
  <1>14. /\ a \in Nat /\ msg.blanks \in Nat /\ msg.lines \in Nat /\ Len(C) \in Nat
         /\ z = a + (msg.blanks + msg.lines + 2) + Len(C) /\ z <= Len(stream)
    BY <1>4, MessageNumbers
  <1>7. PICK b \in Nat, l \in Nat, A \in Nat, L \in Nat, n \in Nat :
           /\ b = msg.blanks /\ l = msg.lines /\ A = a /\ L = Len(C) /\ n = Len(stream)
           /\ z = A + (b + l + 2) + L /\ z <= n
    BY <1>1, <1>14
  <1>8. p = A + b + 1
    BY <1>3, <1>4, <1>7, InMessage DEF a, z
  <1>9. /\ Sane(msg) /\ stream[p].request = {msg}
        /\ \A i \in 1..l : stream[p + i].t = "h"
        /\ stream[p + l + 1].t = "e"
    <2>1. /\ Sane(msg) /\ stream[A + b + 1].request = {msg}
          /\ \A i \in 1..l : stream[A + b + 1 + i].t = "h"
          /\ stream[A + b + l + 2].t = "e"
      BY <1>4, <1>7 DEF MessageAt
    <2>2. p + l + 1 = A + b + l + 2
      BY <1>8
    <2> QED
      BY <1>8, <2>1, <2>2
  <1>10. /\ \A i \in 1..l : p + i \in 1..n
         /\ p + l + 1 \in 1..n /\ p + l + 2 = A + (b + l + 2) + 1
    <2>1. p = A + b + 1 /\ A + (b + l + 2) + L <= n
      BY <1>7, <1>8
    <2> QED
      BY <2>1
  <1>11. ASSUME NEW i \in 1..p + l + 1, stream[i].m = m, stream[i].data PROVE FALSE
    <2>1. i \in 1..n
      BY <1>10, <1>11
    <2>2. i \in a + 1..z
      BY <1>6, <1>7, <1>11, <2>1
    <2>4. i > a + (msg.blanks + msg.lines + 2)
      BY <1>4, <1>11, <2>2, InMessage
    <2>3. i > A + (b + l + 2)
      BY <1>7, <2>4
    <2> QED
      BY <1>8, <1>11, <2>3
  <1>12. ContentAt(m, msg, p + l + 2)
    BY <1>5, <1>7, <1>10
  <1>13. RequestAt(p, m, msg)
    BY <1>3, <1>7, <1>9, <1>10, <1>11, <1>12 DEF RequestAt
  <1> QED
    BY <1>3, <1>13

\* Behind a message stands the request line of the next one, and empty lines before it.
LEMMA RequestBehind ==
    ASSUME StreamOk, NEW script, Script(script), NEW h \in Nat, Sent(h) < Len(stream)
    PROVE  \E b \in Nat : /\ \A i \in 1..b : stream[Sent(h) + i].t = "e"
                          /\ Sent(h) + b + 1 \in 1..Len(stream)
                          /\ stream[Sent(h) + b + 1].t = "G" /\ ~stream[Sent(h) + b + 1].data
                          /\ stream[Sent(h) + b + 1].m = h + 1
  <1>1. Len(script) \in Nat /\ Len(stream) \in Nat
    BY StreamIs DEF StreamOk
  <1>2. PICK off : Messaged(script, off)
    BY StreamIs
  <1>3. Sent(h) = IF h <= Len(script) THEN off[h + 1] ELSE Len(stream)
    BY <1>1, <1>2, SentTo
  <1>4. h < Len(script)
    <2>1. off[Len(script) + 1] = Len(stream)
      BY <1>2 DEF Messaged
    <2> QED
      BY <1>1, <1>3, <2>1
  <1>5. h + 1 \in 1..Len(script) /\ h <= Len(script)
    BY <1>1, <1>4
  <1> DEFINE m == h + 1
             msg == script[m]
             a == off[m]
             z == off[m + 1]
             C == ContentTokens(m, msg)
  <1>6. MessageAt(m, msg, a, z, C)
    BY <1>2, <1>5 DEF Messaged
  <1>7. Sent(h) = a
    BY <1>3, <1>5
  <1> HIDE DEF C, a, z, msg
  <1>12. /\ a \in Nat /\ msg.blanks \in Nat /\ msg.lines \in Nat /\ Len(C) \in Nat
         /\ z = a + (msg.blanks + msg.lines + 2) + Len(C) /\ z <= Len(stream)
    BY <1>6, MessageNumbers
  <1>8. PICK b \in Nat, l \in Nat, A \in Nat, L \in Nat, n \in Nat :
           /\ b = msg.blanks /\ l = msg.lines /\ A = a /\ L = Len(C) /\ n = Len(stream)
           /\ z = A + (b + l + 2) + L /\ z <= n
    BY <1>1, <1>12
  <1>9. /\ \A i \in 1..b + l + 2 : stream[A + i].m = m /\ ~stream[A + i].data
        /\ \A i \in 1..b : stream[A + i].t = "e"
        /\ stream[A + b + 1].t = "G"
    BY <1>6, <1>8 DEF MessageAt
  <1>10. b + 1 \in 1..b + l + 2 /\ A + b + 1 = A + (b + 1) /\ A + b + 1 \in 1..n
    <2>1. A + (b + l + 2) + L <= n
      BY <1>8
    <2> QED
      BY <2>1
  <1>11. stream[A + b + 1].m = m /\ ~stream[A + b + 1].data
    <2>1. stream[A + (b + 1)].m = m /\ ~stream[A + (b + 1)].data
      BY <1>9, <1>10
    <2> QED
      BY <1>10, <2>1
  <1> QED
    BY <1>7, <1>8, <1>9, <1>10, <1>11

-----------------------------------------------------------------------------
(* Reading a header.                                                       *)

\* The first empty line behind another line.
HeaderEnd(buf, len) ==
    /\ At(buf[len]).t = "e" /\ At(buf[len - 1]).t \in LineEnds
    /\ \A i \in 2..len - 1 : ~ (At(buf[i]).t = "e" /\ At(buf[i - 1]).t \in LineEnds)

\* What get_http_header_len finds.
LEMMA HeaderLenIs ==
    ASSUME NEW buf, NEW len \in Nat, NEW h, h = get_http_header_len(buf, len)
    PROVE  h \in -1..len /\ (h > 0 => h \in 2..len /\ HeaderEnd(buf, h))
  <1> DEFINE bad == {i \in 1..len : At(buf[i]).t = "z"}
             end == {i \in 2..len : At(buf[i]).t = "e" /\ At(buf[i - 1]).t \in LineEnds}
  <1>1. h = IF bad # {} /\ (end = {} \/ Least(bad) < Least(end)) THEN -1
            ELSE IF end = {} THEN 0 ELSE Least(end)
    BY DEF get_http_header_len
  <1>2. CASE h = -1 \/ h = 0
    BY <1>2
  <1>3. CASE end # {} /\ h = Least(end)
    <2>1. end \subseteq Nat
      OBVIOUS
    <2>2. h \in end /\ \A i \in end : h <= i
      <3> HIDE DEF end
      <3> QED
        BY <1>3, <2>1, LeastIs
    <2>3. h \in 2..len /\ At(buf[h]).t = "e" /\ At(buf[h - 1]).t \in LineEnds
      BY <2>2
    <2>4. ASSUME NEW i \in 2..h - 1 PROVE ~ (At(buf[i]).t = "e" /\ At(buf[i - 1]).t \in LineEnds)
      <3>1. i \in 2..len /\ ~ (h <= i)
        BY <2>3
      <3>2. i \notin end
        BY <2>2, <3>1
      <3> QED
        BY <3>1, <3>2
    <2> QED
      BY <2>3, <2>4 DEF HeaderEnd
  <1> QED
    BY <1>1, <1>2, <1>3

\* What receiving a header leaves alone.
OnlyReceived(c, m) ==
    /\ m.must_close = c.must_close /\ m.content_len = c.content_len /\ m.is_chunked = c.is_chunked
    /\ m.chunk_remainder = c.chunk_remainder /\ m.consumed_content = c.consumed_content
    /\ m.handled_requests = c.handled_requests /\ m.head = c.head
    /\ m.misframed = c.misframed /\ m.unread = c.unread /\ m.misaligned = c.misaligned
    /\ m.overlooked = c.overlooked
    /\ (c.late => m.late) /\ (c.broken => m.broken) /\ (c.stopped => m.stopped)

\* k tokens in the buffer.
Getting(c, k, why, len) ==
    [After(c, why, k) EXCEPT !.buf = Filled(c, k), !.data_len = k, !.request_len = len]

\* What Getting says of the connection.
IsFilled(c, k, why, len, m) ==
    /\ m \in Conns /\ OnlyReceived(c, m) /\ m.buf = Filled(c, k) /\ m.data_len = k
    /\ m.request_len = len /\ m.received = c.received + k
    /\ why = "whole" => (m.broken <=> c.broken) /\ (m.stopped <=> c.stopped)

\* A connection that has received k bytes and stopped for a reason is one.
LEMMA FilledIs ==
    ASSUME NEW c \in Conns, NEW k \in 0..BufSize, BufSize \in Nat, NEW len \in Int,
           NEW why \in {"late", "broken", "stopped", "whole"},
           NEW m, m = Getting(c, k, why, len)
    PROVE  IsFilled(c, k, why, len, m)
  <1>1. Filled(c, k) \in [1..BufSize -> Nat]
    <2>1. c.received \in Nat /\ c.buf \in [1..BufSize -> Nat]
      BY DEF Conns
    <2> QED
      BY <2>1 DEF Filled
  <1>2. m = [c EXCEPT !.received = @ + k, !.broken = @ \/ why = "broken",
                      !.stopped = @ \/ why = "stopped", !.late = @ \/ why = "late",
                      !.buf = Filled(c, k), !.data_len = k, !.request_len = len]
    BY DEF Getting, After, Conns
  <1>3. /\ c.received + k \in Nat /\ (c.broken \/ why = "broken") \in BOOLEAN
        /\ (c.stopped \/ why = "stopped") \in BOOLEAN /\ (c.late \/ why = "late") \in BOOLEAN
    BY DEF Conns
  <1>4. m \in Conns
    <2>1. PICK b \in BOOLEAN, s \in BOOLEAN, l \in BOOLEAN :
             b = (c.broken \/ why = "broken") /\ s = (c.stopped \/ why = "stopped")
             /\ l = (c.late \/ why = "late")
      OBVIOUS
    <2>2. m = [c EXCEPT !.received = c.received + k, !.broken = b, !.stopped = s, !.late = l,
                        !.buf = Filled(c, k), !.data_len = k, !.request_len = len]
      BY <1>2, <2>1
    <2> DEFINE f == Filled(c, k)
               r == c.received + k
    <2>3. m = [c EXCEPT !.received = r, !.broken = b, !.stopped = s, !.late = l,
                        !.buf = f, !.data_len = k, !.request_len = len]
      BY <2>2
    <2>4. f \in [1..BufSize -> Nat] /\ r \in Nat
      BY <1>1, <1>3
    <2> HIDE DEF f, r
    <2> QED
      BY <2>3, <2>4, ZenonT(40) DEF Conns
  <1>5. /\ m.buf = Filled(c, k) /\ m.data_len = k /\ m.request_len = len /\ m.received = c.received + k
    BY <1>2 DEF Conns
  <1>6. /\ m.broken = (c.broken \/ why = "broken") /\ m.stopped = (c.stopped \/ why = "stopped")
        /\ m.late = (c.late \/ why = "late")
    BY <1>2 DEF Conns
  <1>7. OnlyReceived(c, m)
    BY <1>2, <1>6 DEF Conns, OnlyReceived
  <1>8. why = "whole" => (m.broken <=> c.broken) /\ (m.stopped <=> c.stopped)
    BY <1>6 DEF Conns
  <1> QED
    BY <1>4, <1>5, <1>7, <1>8 DEF IsFilled

\* What read_message gives.
MessageRead(c, k, m) ==
    /\ m \in Conns /\ OnlyReceived(c, m) /\ m.buf = Filled(c, k) /\ m.data_len = k
    /\ m.received = c.received + k /\ m.received <= Sendable(c)
    /\ m.request_len \in -2..k
    /\ m.request_len > 0 => /\ m.request_len \in 2..k /\ HeaderEnd(m.buf, m.request_len)
                            /\ ~m.broken /\ ~m.stopped

\* read_message has received up to a buffer, and a header only if it is in the buffer.
LEMMA ReadMessageIs ==
    ASSUME NEW c \in Conns, BufSize \in Nat \ {0}, Sendable(c) \in Nat, c.received <= Sendable(c),
           faults \subseteq Faults, NEW m \in read_message(c)
    PROVE  \E k \in 0..BufSize : MessageRead(c, k, m)
  <1> DEFINE most == IF c.broken \/ c.stopped THEN 0 ELSE Smaller(BufSize, Waiting(c))
             complete == {k \in 1..most : get_http_header_len(Filled(c, k), k) # 0}
             header == Least(complete)
             short == IF complete = {} THEN 0..most ELSE 0..header - 1
             whole == {Getting(c, k, "whole", get_http_header_len(Filled(c, k), k)) :
                          k \in IF complete = {} THEN {} ELSE header..most}
             part == UNION {{Getting(c, k, why, -1) : why \in Interruptions(c, k)} : k \in {k \in short : k < BufSize}}
             full == {Getting(c, BufSize, "whole", -2) : k \in {k \in short : k = BufSize}}
  <1>1. m \in whole \cup part \cup full
    <2>1. read_message(c) = whole \cup part \cup full
      BY Zenon DEF read_message, Getting
    <2> QED
      BY <2>1
  <1>2. c.received \in Nat /\ Waiting(c) = Sendable(c) - c.received
    BY DEF Conns, Waiting, Sendable
  <1>3. most \in 0..BufSize /\ c.received + most <= Sendable(c) /\ (c.broken \/ c.stopped => most = 0)
    <2>1. PICK w \in Nat, r \in Nat, n \in Nat : w = Waiting(c) /\ r = c.received /\ n = Sendable(c) /\ w = n - r
      BY <1>2
    <2>2. Smaller(BufSize, w) \in 0..BufSize /\ Smaller(BufSize, w) <= w
      BY DEF Smaller
    <2>3. CASE c.broken \/ c.stopped
      BY <1>2, <2>3
    <2>4. CASE ~ (c.broken \/ c.stopped)
      <3>1. most = Smaller(BufSize, w)
        BY <2>1, <2>4
      <3> HIDE DEF most
      <3> QED
        BY <2>1, <2>2, <2>4, <3>1
    <2> QED
      BY <2>3, <2>4
  <1> HIDE DEF most
  <1>4. complete \subseteq Nat /\ \A k \in complete : k \in 1..most
    BY <1>3
  <1>5. complete # {} => header \in 1..most
    <2> HIDE DEF complete
    <2> QED
      BY <1>4, LeastIs
  <1> HIDE DEF complete, header
  <1>6. \A k \in 0..most : k \in 0..BufSize /\ c.received + k <= Sendable(c)
    BY <1>2, <1>3
  <1>7. CASE m \in whole
    <2>1. PICK k \in header..most : complete # {} /\ m = Getting(c, k, "whole", get_http_header_len(Filled(c, k), k))
      BY <1>7
    <2>2. k \in 1..most
      BY <1>3, <1>5, <2>1
    <2>3. ~c.broken /\ ~c.stopped
      BY <1>3, <2>2
    <2> DEFINE len == get_http_header_len(Filled(c, k), k)
    <2>4. k \in 0..BufSize /\ k \in Nat /\ c.received + k <= Sendable(c)
      BY <1>6, <2>2
    <2>5. len \in -1..k /\ (len > 0 => len \in 2..k /\ HeaderEnd(Filled(c, k), len))
      BY <2>4, HeaderLenIs
    <2> HIDE DEF len
    <2>6. len \in Int /\ len \in -2..k
      BY <2>4, <2>5
    <2>8. BufSize \in Nat /\ m = Getting(c, k, "whole", len)
      BY <2>1 DEF len
    <2>7. IsFilled(c, k, "whole", len, m)
      BY <2>4, <2>6, <2>8, FilledIs
    <2> QED
      BY <2>3, <2>4, <2>5, <2>6, <2>7 DEF MessageRead, IsFilled
  <1>8. CASE m \in part
    <2>1. PICK k \in short : \E why \in Interruptions(c, k) : m = Getting(c, k, why, -1)
      BY <1>8
    <2>2. PICK why \in Interruptions(c, k) : m = Getting(c, k, why, -1)
      BY <2>1
    <2>3. k \in 0..most
      BY <1>3, <1>5, <2>1
    <2>4. k \in 0..BufSize /\ k \in Nat /\ c.received + k <= Sendable(c)
      BY <1>6, <2>3
    <2>5. why \in {"late", "broken", "stopped", "whole"}
      BY <2>2 DEF Interruptions, Faults
    <2>7. BufSize \in Nat /\ -1 \in Int
      OBVIOUS
    <2>6. IsFilled(c, k, why, -1, m)
      BY <2>2, <2>4, <2>5, <2>7, FilledIs
    <2> QED
      BY <2>4, <2>6 DEF MessageRead, IsFilled
  <1>9. CASE m \in full
    <2>1. BufSize \in 0..most /\ m = Getting(c, BufSize, "whole", -2)
      BY <1>3, <1>5, <1>9
    <2>2. BufSize \in 0..BufSize /\ c.received + BufSize <= Sendable(c)
      BY <1>6, <2>1
    <2>4. BufSize \in Nat /\ -2 \in Int
      OBVIOUS
    <2>3. IsFilled(c, BufSize, "whole", -2, m)
      BY <2>1, <2>2, <2>4, FilledIs
    <2> QED
      BY <2>2, <2>3, <2>4 DEF MessageRead, IsFilled
  <1> QED
    BY <1>1, <1>7, <1>8, <1>9

\* Where the request line is.
LEMMA RequestLineIs ==
    ASSUME NEW c, BufSize \in Nat, RequestLine(c) # 0
    PROVE  LET s == RequestLine(c) IN
           s \in 1..BufSize /\ At(c.buf[s]).t # "e" /\ \A i \in 1..s - 1 : At(c.buf[i]).t = "e"
  <1> DEFINE S == {i \in 1..BufSize : At(c.buf[i]).t # "e"}
             s == RequestLine(c)
  <1>1. S # {} /\ s = Least(S)
    BY DEF RequestLine
  <1>2. S \subseteq Nat
    OBVIOUS
  <1>3. s \in S /\ \A i \in S : s <= i
    <2> HIDE DEF S, s
    <2> QED
      BY <1>1, <1>2, LeastIs
  <1> HIDE DEF s
  <1>4. s \in 1..BufSize /\ At(c.buf[s]).t # "e"
    BY <1>3
  <1>5. ASSUME NEW i \in 1..s - 1 PROVE At(c.buf[i]).t = "e"
    <2>1. i \in 1..BufSize /\ ~ (s <= i)
      BY <1>4
    <2>2. i \notin S
      BY <1>3, <2>1
    <2> QED
      BY <2>1, <2>2
  <1> QED
    BY <1>4, <1>5 DEF s

\* A request that parses starts with its request line.
LEMMA ParseIs ==
    ASSUME NEW c, BufSize \in Nat, parse_http_request(c) # 0
    PROVE  LET s == RequestLine(c) IN
           /\ s \in 1..BufSize /\ \A i \in 1..s - 1 : At(c.buf[i]).t = "e"
           /\ parse_http_request(c) = c.buf[s] /\ At(c.buf[s]).t = "G"
  <1>1. RequestLine(c) # 0 /\ parse_http_request(c) = c.buf[RequestLine(c)] /\ At(c.buf[RequestLine(c)]).t = "G"
    BY DEF parse_http_request
  <1> QED
    BY <1>1, RequestLineIs

\* The message a connection serves, as its client sent it.
LEMMA SenderIs ==
    ASSUME StreamOk, NEW c, c.head \in 0..Len(stream)
    PROVE  /\ Sender(c) \in Messages \/ Sender(c) = Embedded
           /\ \A msg : At(c.head).request = {msg} => Sender(c) = msg
  <1>1. At(c.head).request \subseteq Messages
    <2>1. CASE c.head = 0
      BY <2>1 DEF At, Junk, Token
    <2>2. CASE c.head # 0
      <3>1. c.head \in 1..Len(stream) /\ Len(stream) \in Nat
        BY <2>2 DEF StreamOk
      <3>2. stream[c.head] \in Tokens
        BY <3>1, TokenOf
      <3> QED
        BY <2>2, <3>2 DEF At, Tokens
    <2> QED
      BY <2>1, <2>2
  <1>2. At(c.head).request = {} => Sender(c) = Embedded
    BY DEF Sender
  <1>3. At(c.head).request # {} => Sender(c) \in At(c.head).request
    BY DEF Sender
  <1> QED
    BY <1>1, <1>2, <1>3

\* What the server does not overlook of a message.
LEMMA RequestIs ==
    ASSUME StreamOk, NEW c, c.head \in 0..Len(stream)
    PROVE  LET r == Request(c)
               msg == Sender(c)
           IN  /\ r.content = msg.content /\ r.method = msg.method /\ r.uri = msg.uri
               /\ r.framing = msg.framing \/ (Overlooked(c) /\ r.framing = "none")
               /\ Len(FlattenSeq(r.content)) \in Nat
  <1> DEFINE msg == Sender(c)
  <1>1. msg \in Messages \/ msg = Embedded
    BY SenderIs
  <1>2. ASSUME NEW x, x \in Messages \/ x = Embedded
        PROVE  LET y == [x EXCEPT !.wish = "none", !.framing = "none", !.host = "none", !.form = "none"] IN
               y.content = x.content /\ y.method = x.method /\ y.uri = x.uri /\ y.framing = "none"
    <2>1. CASE x \in Messages
      BY <2>1 DEF Messages
    <2>2. CASE x = Embedded
      BY <2>2 DEF Embedded
    <2> QED
      BY <1>2, <2>1, <2>2
  <1>3. Request(c) = IF Overlooked(c) THEN [msg EXCEPT !.wish = "none", !.framing = "none", !.host = "none", !.form = "none"]
                     ELSE msg
    BY DEF Request
  <1> HIDE DEF msg
  <1>4. /\ Request(c).content = msg.content /\ Request(c).method = msg.method /\ Request(c).uri = msg.uri
        /\ Request(c).framing = msg.framing \/ (Overlooked(c) /\ Request(c).framing = "none")
    BY <1>1, <1>2, <1>3
  <1>5. Len(FlattenSeq(msg.content)) \in Nat
    <2>1. CASE msg \in Messages
      <3>1. msg.content \in Seq(Seq(STRING))
        BY <2>1 DEF Messages
      <3>2. FlattenSeq(msg.content) \in Seq(STRING)
        BY <3>1, FlattenSegments
      <3> QED
        BY <3>2
    <2>2. CASE msg = Embedded
      <3>1. msg.content = << >>
        BY <2>2 DEF Embedded
      <3>2. FlattenSeq(<< >>) = << >>
        BY DEF FlattenSeq
      <3> QED
        BY <3>1, <3>2
    <2> QED
      BY <1>1, <2>1, <2>2
  <1> QED
    BY <1>4, <1>5 DEF msg

\* k tokens, received behind position rec.
Holds(buf, rec, k) ==
    rec \in Nat /\ k \in Nat /\ rec + k <= Len(stream) /\ \A i \in 1..k : buf[i] = rec + i

\* The header of a request ends where its message's does.
LEMMA HeaderHere ==
    ASSUME Len(stream) \in Nat, NEW buf, NEW rec, NEW k, Holds(buf, rec, k), NEW R \in 2..k,
           HeaderEnd(buf, R), NEW s \in {1, 2}, At(buf[s]).t = "G", NEW m, NEW msg, RequestAt(buf[s], m, msg)
    PROVE  rec + 1 + R = buf[s] + msg.lines + 2
  <1>0. PICK n \in Nat : n = Len(stream)
    OBVIOUS
  <1>11. rec \in Nat /\ k \in Nat /\ rec + k <= n /\ \A i \in 1..k : buf[i] = rec + i
    BY <1>0 DEF Holds
  <1> DEFINE p == rec + s
  <1>1. s \in 1..k /\ buf[s] = p /\ k >= 2
    BY <1>11
  <1>2. PICK l \in Nat : l = msg.lines
    BY DEF RequestAt, Sane, Messages
  <1>3. \A i \in 1..k : At(buf[i]) = stream[rec + i]
    BY <1>11 DEF At
  <1>4. /\ \A i \in 1..l : p + i \in 1..n /\ stream[p + i].t = "h"
        /\ p + l + 1 \in 1..n /\ stream[p + l + 1].t = "e"
    BY <1>0, <1>1, <1>2 DEF RequestAt
  <1> DEFINE e == l + s + 1
  <1>5. ASSUME NEW i \in s + 1..s + l, i <= k PROVE At(buf[i]).t = "h"
    <2>1. i - s \in 1..l /\ p + (i - s) = rec + i /\ i \in 1..k
      BY <1>5, <1>11
    <2>2. stream[p + (i - s)].t = "h"
      BY <1>4, <2>1
    <2> QED
      BY <1>3, <2>1, <2>2
  <1>6. e <= k => At(buf[e]).t = "e"
    <2>1. p + l + 1 = rec + e /\ (e <= k => e \in 1..k)
      BY <1>11
    <2> QED
      BY <1>3, <1>4, <2>1
  <1>7. e <= k => At(buf[e - 1]).t \in LineEnds
    <2>1. CASE l = 0
      <3>1. e - 1 = s
        BY <2>1
      <3> QED
        BY <3>1 DEF LineEnds
    <2>2. CASE l # 0
      <3>1. e <= k => e - 1 \in s + 1..s + l /\ e - 1 <= k
        BY <1>11, <2>2
      <3> QED
        BY <1>5, <3>1 DEF LineEnds
    <2> QED
      BY <2>1, <2>2
  <1>8. At(buf[R]).t = "e" /\ \A i \in 2..R - 1 : ~ (At(buf[i]).t = "e" /\ At(buf[i - 1]).t \in LineEnds)
    BY DEF HeaderEnd
  <1>9. R = e
    <2>1. CASE R < e
      <3>1. R = s \/ (R \in s + 1..s + l /\ R <= k)
        BY <1>11, <2>1
      <3> QED
        BY <1>5, <1>8, <3>1
    <2>2. CASE R > e
      <3>1. e \in 2..R - 1 /\ e <= k
        BY <1>11, <2>2
      <3> QED
        BY <1>6, <1>7, <1>8, <3>1
    <2> QED
      BY <2>1, <2>2
  <1>10. rec + 1 + R = p + l + 2
    BY <1>9, <1>11
  <1> HIDE DEF p
  <1> QED
    BY <1>1, <1>2, <1>10

\* A connection ready for a request.
LEMMA ResetIs ==
    ASSUME NEW c \in Conns, BufSize \in Nat
    PROVE  LET r == reset_per_request_attributes(c) IN
           /\ r \in Conns /\ r.consumed_content = 0 /\ r.content_len = -1 /\ r.is_chunked = 0
           /\ r.chunk_remainder = 0 /\ r.head = 0
           /\ r.buf = c.buf /\ r.received = c.received /\ r.handled_requests = c.handled_requests
           /\ r.late = c.late /\ r.broken = c.broken /\ r.stopped = c.stopped
           /\ r.misframed = c.misframed /\ r.unread = c.unread /\ r.misaligned = c.misaligned
           /\ r.overlooked = c.overlooked
  <1>1. 0 \in 0..BufSize
    OBVIOUS
  <1> DEFINE r == reset_per_request_attributes(c)
  <1>2. r = [c EXCEPT !.consumed_content = 0, !.content_len = -1, !.is_chunked = 0, !.must_close = FALSE,
                      !.request_len = 0, !.data_len = 0, !.chunk_remainder = 0, !.head = 0]
    BY DEF reset_per_request_attributes
  <1> HIDE DEF r
  <1>3. r \in Conns
    <2>1. -1 \in Int /\ 0 \in Int /\ 0 \in 0..3 /\ 0 \in Nat /\ FALSE \in BOOLEAN
      OBVIOUS
    <2> QED
      BY <1>1, <1>2, <2>1 DEF Conns
  <1>4. /\ r.consumed_content = 0 /\ r.content_len = -1 /\ r.is_chunked = 0
        /\ r.chunk_remainder = 0 /\ r.head = 0
        /\ r.buf = c.buf /\ r.received = c.received /\ r.handled_requests = c.handled_requests
    BY <1>2 DEF Conns
  <1>5. /\ r.late = c.late /\ r.broken = c.broken /\ r.stopped = c.stopped
        /\ r.misframed = c.misframed /\ r.unread = c.unread /\ r.misaligned = c.misaligned
        /\ r.overlooked = c.overlooked
    BY <1>2 DEF Conns
  <1> QED
    BY <1>3, <1>4, <1>5 DEF r

\* A request's header has been received, or part of it.
Receives(c, k, x) ==
    /\ x \in Conns /\ k \in 0..BufSize /\ x.buf = Filled(c, k) /\ x.data_len = k
    /\ x.received = c.received + k /\ x.received <= Sendable(c)
    /\ x.handled_requests = c.handled_requests
    /\ x.consumed_content = 0 /\ x.content_len = -1 /\ x.is_chunked = 0
    /\ x.chunk_remainder = 0
    /\ x.misframed = c.misframed /\ x.unread = c.unread
    /\ (c.late => x.late) /\ (c.broken => x.broken) /\ (c.stopped => x.stopped)
    /\ x.request_len \in -2..k
    /\ x.request_len > 0 => /\ x.request_len \in 2..k /\ HeaderEnd(x.buf, x.request_len)
                              /\ ~x.broken /\ ~x.stopped

\* So has get_message, which parses nothing: an error is no header.
LEMMA GetMessageIs ==
    ASSUME NEW c \in Conns, BufSize \in Nat \ {0}, Sendable(c) \in Nat, c.received <= Sendable(c),
           faults \subseteq Faults, NEW g \in get_message(c)
    PROVE  \E k \in 0..BufSize :
              /\ Receives(c, k, g.c) /\ g.c.head = 0
              /\ g.c.misaligned = c.misaligned /\ g.c.overlooked = c.overlooked
              /\ g.error \in {-1, 0, 400} /\ (g.error = 0 <=> g.c.request_len > 0)
  <1> DEFINE r == reset_per_request_attributes(c)
  <1>1. /\ r \in Conns /\ r.consumed_content = 0 /\ r.content_len = -1 /\ r.is_chunked = 0
        /\ r.chunk_remainder = 0 /\ r.head = 0
        /\ r.buf = c.buf /\ r.received = c.received /\ r.handled_requests = c.handled_requests
        /\ r.late = c.late /\ r.broken = c.broken /\ r.stopped = c.stopped
        /\ r.misframed = c.misframed /\ r.unread = c.unread /\ r.misaligned = c.misaligned
        /\ r.overlooked = c.overlooked
    BY ResetIs
  <1> HIDE DEF r
  <1>2. Sendable(r) = Sendable(c) /\ \A k : Filled(r, k) = Filled(c, k)
    BY <1>1 DEF Sendable, Filled
  <1>3. PICK m \in read_message(r) :
           g = [error |-> IF m.request_len > 0 THEN 0 ELSE IF m.data_len > 0 THEN 400 ELSE -1,
                c |-> IF m.request_len <= 0 /\ m.data_len = 0 THEN [m EXCEPT !.must_close = TRUE] ELSE m]
    BY DEF get_message, r
  <1>4. PICK k \in 0..BufSize : MessageRead(r, k, m)
    BY <1>1, <1>2, <1>3, ReadMessageIs
  <1>5. m \in Conns
    BY <1>4 DEF MessageRead
  <1>6. g.c \in Conns /\ g.c \in {m, [m EXCEPT !.must_close = TRUE]}
    <2>1. [m EXCEPT !.must_close = TRUE] \in Conns
      BY <1>5 DEF Conns
    <2>2. g.c \in {m, [m EXCEPT !.must_close = TRUE]}
      BY <1>3
    <2> QED
      BY <1>5, <2>1, <2>2
  <1>7. /\ g.error \in {-1, 0, 400} /\ (g.error = 0 <=> m.request_len > 0)
    BY <1>3
  <1>8. /\ g.c.buf = m.buf /\ g.c.data_len = m.data_len /\ g.c.received = m.received
        /\ g.c.handled_requests = m.handled_requests
        /\ g.c.consumed_content = m.consumed_content /\ g.c.content_len = m.content_len
        /\ g.c.is_chunked = m.is_chunked /\ g.c.chunk_remainder = m.chunk_remainder
        /\ g.c.misframed = m.misframed /\ g.c.unread = m.unread /\ g.c.late = m.late
        /\ g.c.broken = m.broken /\ g.c.stopped = m.stopped /\ g.c.request_len = m.request_len
        /\ g.c.head = m.head /\ g.c.misaligned = m.misaligned /\ g.c.overlooked = m.overlooked
    BY <1>5, <1>6 DEF Conns
  <1>9. OnlyReceived(r, m)
    BY <1>4 DEF MessageRead
  <1>10. /\ m.handled_requests = c.handled_requests
         /\ m.consumed_content = 0 /\ m.content_len = -1 /\ m.is_chunked = 0
         /\ m.chunk_remainder = 0 /\ m.head = 0
         /\ m.misframed = c.misframed /\ m.unread = c.unread
         /\ m.misaligned = c.misaligned /\ m.overlooked = c.overlooked
    BY <1>1, <1>9 DEF OnlyReceived
  <1>11. (c.late => m.late) /\ (c.broken => m.broken) /\ (c.stopped => m.stopped)
    BY <1>1, <1>9 DEF OnlyReceived
  <1>12. /\ m.buf = Filled(c, k) /\ m.data_len = k
         /\ m.received = c.received + k /\ m.received <= Sendable(c)
         /\ m.request_len \in -2..k
    BY <1>1, <1>2, <1>4 DEF MessageRead
  <1>13. m.request_len > 0 => /\ m.request_len \in 2..k /\ HeaderEnd(m.buf, m.request_len)
                              /\ ~m.broken /\ ~m.stopped
    BY <1>4 DEF MessageRead
  <1>14. Receives(c, k, g.c)
    BY <1>6, <1>8, <1>10, <1>11, <1>12, <1>13 DEF Receives
  <1> QED
    BY <1>7, <1>8, <1>10, <1>14

\* The framing of a content that nothing has been read of.
LEMMA FramedIs ==
    ASSUME StreamOk, NEW p \in Conns, p.head \in 0..Len(stream), p.consumed_content = 0,
           p.is_chunked = 0, p.chunk_remainder = 0
    PROVE  LET f == Framed(p) IN
           /\ f \in Conns /\ f.is_chunked \in {0, 1} /\ (f.is_chunked # 0 => Chunky(f)) /\ FramingOk(f)
           /\ Request(f) = Request(p) /\ Kept(p, f) /\ f.consumed_content = 0
           /\ f.received = p.received /\ f.chunk_remainder = 0
           /\ f.late = p.late /\ f.broken = p.broken /\ f.stopped = p.stopped /\ f.misframed = p.misframed
  <1> DEFINE f == Framed(p)
             r == Request(p)
             len == Len(FlattenSeq(r.content))
  <1>1. len \in Nat
    BY RequestIs
  <1>2. /\ r.framing = "length" => f = [p EXCEPT !.content_len = len]
        /\ r.framing = "negative" => f = [p EXCEPT !.content_len = -2]
        /\ r.framing \in {"chunked", "miscounted"} => f = [p EXCEPT !.is_chunked = 1, !.content_len = -1]
        /\ r.framing \notin {"length", "negative", "chunked", "miscounted"} =>
              f = [p EXCEPT !.content_len = IF r.method \in HasBody THEN -1 ELSE 0]
    BY DEF Framed
  <1> HIDE DEF f, len
  <1>3. \E i \in {0, 1}, n \in Int : f = [p EXCEPT !.is_chunked = i, !.content_len = n]
    <2>1. p = [p EXCEPT !.is_chunked = 0]
      BY DEF Conns
    <2>2. r.framing = "length" => f = [p EXCEPT !.is_chunked = 0, !.content_len = len]
      BY <1>2, <2>1
    <2>3. r.framing = "negative" => f = [p EXCEPT !.is_chunked = 0, !.content_len = -2]
      BY <1>2, <2>1
    <2>4. r.framing \notin {"length", "negative", "chunked", "miscounted"} =>
              f = [p EXCEPT !.is_chunked = 0, !.content_len = IF r.method \in HasBody THEN -1 ELSE 0]
      BY <1>2, <2>1
    <2>5. (IF r.method \in HasBody THEN -1 ELSE 0) \in Int /\ -1 \in Int /\ -2 \in Int /\ len \in Int
      BY <1>1
    <2>6. r.framing = "length" \/ r.framing = "negative" \/ r.framing \in {"chunked", "miscounted"}
          \/ r.framing \notin {"length", "negative", "chunked", "miscounted"}
      OBVIOUS
    <2> QED
      BY <1>2, <2>2, <2>3, <2>4, <2>5, <2>6
  <1>4. PICK i \in {0, 1}, n \in Int : f = [p EXCEPT !.is_chunked = i, !.content_len = n]
    BY <1>3
  <1>5. f \in Conns
    <2>1. i \in 0..3
      OBVIOUS
    <2> QED
      BY <1>4, <2>1 DEF Conns
  <1>6. /\ Kept(p, f) /\ f.consumed_content = 0 /\ f.received = p.received /\ f.chunk_remainder = 0
        /\ f.late = p.late /\ f.broken = p.broken /\ f.stopped = p.stopped /\ f.misframed = p.misframed
    BY <1>4 DEF Conns, Kept
  <1>7. Request(f) = r
    BY <1>6, RequestKept
  <1>8. /\ r.framing = "length" => f.is_chunked = 0 /\ f.content_len = len
        /\ r.framing = "negative" => f.is_chunked = 0 /\ f.content_len = -2
        /\ r.framing \in {"chunked", "miscounted"} => f.is_chunked = 1 /\ f.content_len = -1
        /\ r.framing \notin {"length", "negative", "chunked", "miscounted"} =>
              f.is_chunked = 0 /\ f.content_len = IF r.method \in HasBody THEN -1 ELSE 0
    BY <1>2, ZenonT(40) DEF Conns
  <1>9. FramingOk(f)
    <2>1. f.is_chunked # 0 <=> r.framing \in {"chunked", "miscounted"}
      BY <1>8
    <2>2. r.framing = "length" => f.content_len \in Nat /\ f.content_len = len /\ f.consumed_content <= f.content_len
      BY <1>1, <1>6, <1>8
    <2>3. r.framing = "negative" => f.content_len = -2
      BY <1>8
    <2>4. r.framing \notin {"length", "negative", "chunked", "miscounted"} =>
              IF r.method \in HasBody THEN f.content_len = -1 \/ f.must_close ELSE f.content_len = 0
      BY <1>8
    <2> QED
      BY <1>7, <2>1, <2>2, <2>3, <2>4 DEF FramingOk, len
  <1>10. f.is_chunked \in {0, 1} /\ (f.is_chunked # 0 => Chunky(f))
    BY <1>6, <1>8 DEF Chunky
  <1> QED
    BY <1>5, <1>6, <1>7, <1>9, <1>10 DEF f

\* A request line that is one, in place s of the buffer, and where its message's header ends.
LineIn(buf, s) == s \in {1, 2} /\ At(buf[s]).t = "G" /\ ~At(buf[s]).data

\* The header of message msg begins in place s of the buffer and is R bytes long with what precedes it.
HeaderOf(buf, s, R, msg) ==
    /\ RequestAt(buf[s], At(buf[s]).m, msg) /\ At(buf[s]).request = {msg}
    /\ buf[1] + R = buf[s] + msg.lines + 2

\* The content of the message whose request line is found follows the header in the buffer.
LEMMA HeadPlaced ==
    ASSUME StreamOk, NEW script, Script(script), NEW buf, NEW rec, NEW k, Holds(buf, rec, k),
           NEW R \in 2..k, HeaderEnd(buf, R), NEW s, LineIn(buf, s)
    PROVE  buf[s] \in 1..Len(stream) /\ \E msg : HeaderOf(buf, s, R, msg)
  <1>0. s \in {1, 2} /\ At(buf[s]).t = "G" /\ ~At(buf[s]).data
    BY DEF LineIn
  <1>1. PICK n \in Nat, r \in Nat, K \in Nat :
           /\ n = Len(stream) /\ r = rec /\ K = k /\ r + K <= n /\ \A i \in 1..K : buf[i] = r + i
    BY DEF Holds, StreamOk
  <1>2. R \in 2..K /\ 1 \in 1..K /\ s \in 1..K
    BY <1>0, <1>1
  <1>3. buf[1] = r + 1 /\ buf[s] = r + s /\ buf[s] \in 1..n /\ At(buf[s]) = stream[buf[s]]
    BY <1>1, <1>2 DEF At
  <1>4. PICK msg : RequestAt(buf[s], stream[buf[s]].m, msg)
    BY <1>0, <1>1, <1>3, RequestFound
  <1>7. rec + 1 + R = buf[s] + msg.lines + 2
    <2> DEFINE m == stream[buf[s]].m
    <2>1. Len(stream) \in Nat /\ RequestAt(buf[s], m, msg)
      BY <1>1, <1>4
    <2> HIDE DEF m
    <2> QED
      BY <1>0, <2>1, HeaderHere, SMTT(30)
  <1>5. r + 1 + R = buf[s] + msg.lines + 2
    BY <1>1, <1>7
  <1>6. At(buf[s]).request = {msg}
    BY <1>3, <1>4 DEF RequestAt
  <1> QED
    BY <1>1, <1>3, <1>4, <1>5, <1>6 DEF HeaderOf

\* c has received what there is up to the end of message h, or up to its last line end.
UpTo(rec, h) == rec = Sent(h) \/ (rec + 1 = Sent(h) /\ stream[Sent(h)].t = "e")

\* The request line found there is that of the next message.
LEMMA NextFound ==
    ASSUME StreamOk, NEW script, Script(script), NEW buf, NEW rec, NEW k, Holds(buf, rec, k),
           NEW s \in {1, 2}, s <= k, At(buf[s]).t = "G", \A i \in 1..s - 1 : At(buf[i]).t = "e",
           NEW h \in Nat, UpTo(rec, h)
    PROVE  ~At(buf[s]).data /\ At(buf[s]).m = h + 1
  <1>1. PICK n \in Nat, r \in Nat, K \in Nat, z \in Nat :
           /\ n = Len(stream) /\ r = rec /\ K = k /\ r + K <= n /\ \A i \in 1..K : buf[i] = r + i
           /\ z = Sent(h)
    <2>1. Sent(h) \in 0..Len(stream) /\ Len(stream) \in Nat
      BY SentIs
    <2>2. rec \in Nat /\ k \in Nat /\ rec + k <= Len(stream) /\ \A i \in 1..k : buf[i] = rec + i
      BY DEF Holds
    <2>3. Sent(h) \in Nat
      BY <2>1
    <2> QED
      BY <2>1, <2>2, <2>3
  <1>2. \A i \in 1..K : At(buf[i]) = stream[r + i]
    BY <1>1 DEF At
  <1>3. s \in 1..K /\ \A i \in 1..s - 1 : i \in 1..K
    BY <1>1
  <1>4. stream[r + s].t = "G" /\ \A i \in 1..s - 1 : stream[r + i].t = "e"
    BY <1>2, <1>3
  <1>5. r = z \/ (r + 1 = z /\ stream[z].t = "e")
    BY <1>1 DEF UpTo
  <1>6. r + s > z
    <2>1. CASE r = z
      BY <2>1
    <2>2. CASE r + 1 = z /\ stream[z].t = "e"
      <3>1. s # 1
        BY <1>4, <2>2
      <3> QED
        BY <2>2, <3>1
    <2> QED
      BY <1>5, <2>1, <2>2
  <1>7. z < n
    BY <1>1, <1>3, <1>6
  <1>8. PICK b \in Nat : /\ \A i \in 1..b : stream[Sent(h) + i].t = "e"
                         /\ Sent(h) + b + 1 \in 1..Len(stream)
                         /\ stream[Sent(h) + b + 1].t = "G" /\ ~stream[Sent(h) + b + 1].data
                         /\ stream[Sent(h) + b + 1].m = h + 1
    BY <1>1, <1>7, RequestBehind
  <1>9. /\ \A i \in 1..b : stream[z + i].t = "e"
        /\ stream[z + b + 1].t = "G"
    BY <1>1, <1>8
  <1>10. r + s = z + b + 1
    <2>1. ASSUME r + s < z + b + 1 PROVE FALSE
      <3>1. r + s - z \in 1..b /\ z + (r + s - z) = r + s
        BY <1>6, <2>1
      <3> QED
        BY <1>4, <1>9, <3>1
    <2>2. ASSUME r + s > z + b + 1 PROVE FALSE
      <3>1. z + b + 1 - r \in 1..s - 1 /\ r + (z + b + 1 - r) = z + b + 1
        BY <1>5, <2>2
      <3> QED
        BY <1>4, <1>9, <3>1
    <2> QED
      BY <2>1, <2>2
  <1>11. ~stream[r + s].data /\ stream[r + s].m = h + 1
    BY <1>1, <1>8, <1>10
  <1> QED
    BY <1>2, <1>3, <1>11

\* What is known of a connection at any time.
Held(c) ==
    /\ c \in Conns /\ c.received <= Sendable(c) /\ c.head \in 0..Len(stream)
    /\ \A i \in 1..BufSize : c.buf[i] <= Len(stream)

\* What never ends: what went wrong once.
Remembers(c, d) ==
    /\ d.handled_requests = c.handled_requests
    /\ (c.late => d.late) /\ (c.broken => d.broken) /\ (c.stopped => d.stopped)
    /\ (c.misframed => d.misframed) /\ (c.unread => d.unread) /\ (c.misaligned => d.misaligned)
    /\ (c.overlooked => d.overlooked)

\* The request line is one, and stands where the server expects it.
Aligned(c) == ~At(c.head).data /\ ~c.misaligned

\* The end of the content is known to the server.
Announces(c) ==
    \/ Request(c).framing \in {"length", "chunked", "miscounted"}
    \/ Request(c).framing = "none" /\ Request(c).method \notin HasBody /\ ~c.overlooked

\* The message of the request line that was parsed.
MessageOf(c) == At(c.head).m

\* x starts a request that c was waiting for.
Begins(c, x) ==
    /\ Serves(x) /\ x.head # 0 /\ Request(x).framing # "unparsable"
    /\ x.is_chunked \in {0, 1} /\ x.consumed_content = 0 /\ ~x.broken /\ ~x.stopped
    /\ Aligned(x) /\ Announces(x) => InContent(x, MessageOf(x))
    /\ Aligned(x) => ContentUpTo(MessageOf(x))[Place(x) - 1] = << >>
    /\ ~x.misaligned /\ UpTo(c.received, c.handled_requests) =>
          ~At(x.head).data /\ At(x.head).m = c.handled_requests + 1

\* A connection that has received part of a request is held.
LEMMA ReceivesHeld ==
    ASSUME StreamOk, BufSize \in Nat, NEW c, Held(c), NEW k, NEW x, Receives(c, k, x), x.head \in 0..Len(stream),
           c.misaligned => x.misaligned, c.overlooked => x.overlooked
    PROVE  /\ Held(x) /\ Remembers(c, x) /\ Holds(x.buf, c.received, k) /\ x.request_len \in -2..x.data_len
  <1>1. /\ x \in Conns /\ k \in 0..BufSize /\ x.buf = Filled(c, k) /\ x.received = c.received + k
        /\ x.received <= Sendable(c) /\ x.handled_requests = c.handled_requests /\ x.data_len = k
        /\ x.request_len \in -2..k
    BY DEF Receives
  <1>2. Sendable(c) \in Nat /\ Sendable(c) <= Len(stream) /\ Len(stream) \in Nat
    BY SendableIs
  <1>3. Sendable(x) = Sendable(c)
    BY <1>1 DEF Sendable
  <1>4. c.received \in Nat /\ c.buf \in [1..BufSize -> Nat] /\ \A i \in 1..BufSize : c.buf[i] <= Len(stream)
    BY DEF Held, Conns
  <1>5. \A i \in 1..BufSize : x.buf[i] = IF i <= k THEN c.received + i ELSE c.buf[i]
    BY <1>1 DEF Filled
  <1>6. PICK n \in Nat, r \in Nat, K \in 0..BufSize : n = Len(stream) /\ r = c.received /\ K = k /\ r + K <= n
    BY <1>1, <1>2, <1>4
  <1>7. \A i \in 1..K : i \in 1..BufSize /\ x.buf[i] = r + i
    BY <1>5, <1>6
  <1>8. Holds(x.buf, c.received, k)
    BY <1>6, <1>7 DEF Holds
  <1>9. ASSUME NEW i \in 1..BufSize PROVE x.buf[i] <= n
    <2>1. CASE i <= K
      BY <1>6, <1>7, <2>1
    <2>2. CASE ~ (i <= K)
      BY <1>4, <1>5, <1>6, <2>2
    <2> QED
      BY <2>1, <2>2
  <1>10. Held(x)
    BY <1>1, <1>3, <1>6, <1>9 DEF Held
  <1>11. Remembers(c, x)
    <2>1. (c.late => x.late) /\ (c.broken => x.broken) /\ (c.stopped => x.stopped)
      BY DEF Receives
    <2>2. (c.misframed => x.misframed) /\ (c.unread => x.unread)
      BY DEF Receives
    <2> QED
      BY <1>1, <2>1, <2>2 DEF Remembers
  <1> QED
    BY <1>1, <1>8, <1>10, <1>11

\* With a whole header it is loaded.
LEMMA ReceivesLoaded ==
    ASSUME StreamOk, BufSize \in Nat, NEW c, Held(c), NEW k, NEW x, Receives(c, k, x), x.request_len > 0
    PROVE  /\ Loaded(x) /\ x.request_len \in 2..k /\ HeaderEnd(x.buf, x.request_len) /\ k >= 2
           /\ x.buf[1] = c.received + 1 /\ Place(x) = x.buf[1] + x.request_len /\ Place(x) - 1 <= Len(stream)
           /\ ~x.broken /\ ~x.stopped
  <1>1. /\ x \in Conns /\ k \in 0..BufSize /\ x.buf = Filled(c, k) /\ x.received = c.received + k
        /\ x.received <= Sendable(c) /\ x.handled_requests = c.handled_requests /\ x.data_len = k
        /\ x.request_len \in 2..k /\ HeaderEnd(x.buf, x.request_len) /\ x.consumed_content = 0
    BY DEF Receives
  <1>2. Sendable(c) \in Nat /\ Sendable(c) <= Len(stream) /\ Len(stream) \in Nat
    BY SendableIs
  <1>3. Sendable(x) = Sendable(c)
    BY <1>1 DEF Sendable
  <1>4. c.received \in Nat
    BY DEF Held, Conns
  <1>5. PICK n \in Nat, r \in Nat, K \in 0..BufSize, R \in Nat :
           R \in 2..K /\ n = Len(stream) /\ r = c.received /\ K = k /\ R = x.request_len /\ r + K <= n
    BY <1>1, <1>2, <1>4
  <1>6. \A i \in 1..K : x.buf[i] = r + i
    BY <1>1, <1>5 DEF Filled
  <1>7. x.buf[1] = r + 1 /\ \A i \in 1..K : x.buf[i] = x.buf[1] + i - 1
    <2>1. 1 \in 1..K
      BY <1>5
    <2>2. x.buf[1] = r + 1
      BY <1>6, <2>1
    <2>3. \A i \in 1..K : r + i = (r + 1) + i - 1
      OBVIOUS
    <2> QED
      BY <1>6, <2>2, <2>3
  <1>8. Place(x) = r + 1 + R
    BY <1>1, <1>5, <1>7, SMTT(30) DEF Place
  <1>9. Higher(r + 1 + K, r + 1 + R) = r + 1 + K
    BY <1>5 DEF Higher
  <1>10. Loaded(x)
    <2>1. Higher(x.buf[1] + x.data_len, Place(x)) = r + 1 + K
      BY <1>1, <1>5, <1>7, <1>8, <1>9
    <2>2. x.received = (r + 1 + K) - 1
      BY <1>1, <1>5
    <2>3. x.request_len \in 1..x.data_len /\ x.buf[1] # 0
      <3>1. x.data_len = K /\ x.request_len = R
        BY <1>1, <1>5
      <3>2. R \in 1..K /\ r + 1 # 0
        BY <1>5
      <3>3. x.buf[1] = r + 1
        BY <1>7
      <3> QED
        BY <3>1, <3>2, <3>3
    <2>4. \A i \in 1..x.data_len : x.buf[i] = x.buf[1] + i - 1
      <3>1. x.data_len = K
        BY <1>1, <1>5
      <3> QED
        BY <3>1, <1>7
    <2> QED
      BY <1>1, <1>3, <2>1, <2>2, <2>3, <2>4 DEF Loaded
  <1>11. ~x.broken /\ ~x.stopped
    BY DEF Receives
  <1>12. Place(x) = x.buf[1] + x.request_len /\ Place(x) - 1 <= Len(stream)
    <2>1. (r + 1 + R) - 1 <= n
      BY <1>5, SMTT(30)
    <2> QED
      BY <1>5, <1>7, <1>8, <2>1
  <1>13. k >= 2
    BY <1>5
  <1> QED
    BY <1>1, <1>5, <1>7, <1>10, <1>11, <1>12, <1>13

\* The connection once its request line is known.
Parsed(x, head) ==
    [x EXCEPT !.head = head, !.misaligned = @ \/ RequestLine(x) > 2,
              !.overlooked = @ \/ (head # 0 /\ Overlooked([x EXCEPT !.head = head]))]

\* What Parsed says of the connection.
IsParsed(x, head, p) ==
    /\ p.head = head /\ p.buf = x.buf /\ p.request_len = x.request_len
    /\ p.misaligned <=> (x.misaligned \/ RequestLine(x) > 2)
    /\ x.overlooked => p.overlooked
    /\ head # 0 /\ Overlooked(p) => p.overlooked

\* Parsing leaves what was received.
LEMMA ParsedIs ==
    ASSUME NEW c, NEW k, NEW x, Receives(c, k, x), NEW head \in Nat
    PROVE  Receives(c, k, Parsed(x, head)) /\ IsParsed(x, head, Parsed(x, head))
  <1> DEFINE p == Parsed(x, head)
             a == x.misaligned \/ RequestLine(x) > 2
             o == x.overlooked \/ (head # 0 /\ Overlooked([x EXCEPT !.head = head]))
  <1>1. x \in Conns
    BY DEF Receives
  <1>2. p = [x EXCEPT !.head = head, !.misaligned = a, !.overlooked = o]
    BY <1>1 DEF Parsed, Conns
  <1>3. a \in BOOLEAN /\ o \in BOOLEAN
    OBVIOUS
  <1> HIDE DEF p
  <1>4. p.misaligned = a /\ p.overlooked = o /\ p.head = head
    BY <1>1, <1>2 DEF Conns
  <1> HIDE DEF a, o
  <1>5. p \in Conns
    BY <1>1, <1>2, <1>3 DEF Conns
  <1>6. /\ p.buf = x.buf /\ p.data_len = x.data_len /\ p.received = x.received
        /\ p.handled_requests = x.handled_requests
        /\ p.consumed_content = x.consumed_content /\ p.content_len = x.content_len
        /\ p.is_chunked = x.is_chunked /\ p.chunk_remainder = x.chunk_remainder
        /\ p.misframed = x.misframed /\ p.unread = x.unread /\ p.late = x.late
        /\ p.broken = x.broken /\ p.stopped = x.stopped /\ p.request_len = x.request_len
    BY <1>1, <1>2 DEF Conns
  <1>7. Receives(c, k, p)
    BY <1>5, <1>6 DEF Receives
  <1>8. Overlooked(p) <=> Overlooked([x EXCEPT !.head = head])
    <2>1. [x EXCEPT !.head = head].head = p.head
      BY <1>1, <1>4 DEF Conns
    <2> QED
      BY <2>1 DEF Overlooked, Sender
  <1> QED
    BY <1>4, <1>6, <1>7, <1>8 DEF IsParsed, a, o, p

\* The content of a request whose header is found where the server looks for it.
LEMMA BeginsContent ==
    ASSUME StreamOk, NEW script, Script(script), BufSize \in Nat, NEW c, Held(c), NEW k, NEW p, Receives(c, k, p),
           p.request_len > 0, NEW s \in {1, 2}, p.head = p.buf[s], At(p.head).t = "G", ~At(p.head).data,
           NEW x, x = Framed(p), Overlooked(p) => p.overlooked
    PROVE  /\ Announces(x) => InContent(x, MessageOf(x))
           /\ ContentUpTo(MessageOf(x))[Place(x) - 1] = << >>
  <1>1. /\ Loaded(p) /\ p.request_len \in 2..k /\ HeaderEnd(p.buf, p.request_len) /\ k >= 2
        /\ Place(p) = p.buf[1] + p.request_len /\ Place(p) - 1 <= Len(stream)
    BY ReceivesLoaded
  <1>2. Holds(p.buf, c.received, k)
    <2>1. /\ p.received = c.received + k /\ p.received <= Sendable(c) /\ p.buf = Filled(c, k) /\ k \in 0..BufSize
      BY DEF Receives
    <2>2. Sendable(c) \in Nat /\ Sendable(c) <= Len(stream) /\ Len(stream) \in Nat /\ c.received \in Nat
      BY SendableIs DEF Held, Conns
    <2>3. \A i \in 1..k : p.buf[i] = c.received + i
      BY <2>1, <2>2 DEF Filled
    <2> QED
      BY <2>1, <2>2, <2>3 DEF Holds
  <1>3. /\ p.head \in 1..Len(stream)
        /\ \E msg : /\ RequestAt(p.head, At(p.head).m, msg) /\ At(p.head).request = {msg}
                    /\ p.buf[1] + p.request_len = p.head + msg.lines + 2
    <2> DEFINE buf == p.buf
               R == p.request_len
    <2>1. Holds(buf, c.received, k) /\ R \in 2..k /\ HeaderEnd(buf, R) /\ LineIn(buf, s)
      BY <1>1, <1>2 DEF LineIn
    <2>2. p.head = buf[s]
      OBVIOUS
    <2> HIDE DEF buf, R
    <2>3. buf[s] \in 1..Len(stream) /\ \E msg : HeaderOf(buf, s, R, msg)
      BY <2>1, HeadPlaced
    <2> QED
      BY <2>2, <2>3 DEF HeaderOf, buf, R
  <1>4. PICK msg : /\ RequestAt(p.head, At(p.head).m, msg) /\ At(p.head).request = {msg}
                   /\ p.buf[1] + p.request_len = p.head + msg.lines + 2
    BY <1>3
  <1> DEFINE m == At(p.head).m
             q == Place(p)
  <1>5. q = p.head + msg.lines + 2 /\ q \in Nat /\ q - 1 \in 0..Len(stream) /\ Len(stream) \in Nat
    <2>1. Sendable(p) \in Nat /\ Len(stream) \in Nat
      BY SendableIs
    <2>2. Place(p) \in Nat \ {0}
      BY <1>1, <2>1, PlaceIs DEF Receives
    <2> QED
      BY <1>1, <1>4, <2>1, <2>2
  <1>6. ContentAt(m, msg, q) /\ Sane(msg) /\ \A i \in 1..q - 1 : ~ (stream[i].m = m /\ stream[i].data)
    <2>5. Sane(msg)
      BY <1>4 DEF RequestAt
    <2>2. msg.lines \in Nat /\ p.head \in Nat
      BY <1>3, <1>5, <2>5, SMTT(30) DEF Sane, Messages
    <2> HIDE DEF q
    <2>3. PICK l \in Nat, h \in Nat, Q \in Nat : l = msg.lines /\ h = p.head /\ Q = q /\ Q = h + l + 2
      BY <1>5, <2>2
    <2>4. h + l + 1 = Q - 1
      BY <2>3
    <2>1. msg.lines \in Nat /\ p.head \in Nat /\ p.head + msg.lines + 1 = q - 1
      BY <2>2, <2>3, <2>4
    <2> QED
      BY <1>4, <1>5, <2>1 DEF RequestAt
  <1>7. /\ x \in Conns /\ x.is_chunked \in {0, 1} /\ FramingOk(x)
        /\ Request(x) = Request(p) /\ Kept(p, x) /\ x.consumed_content = 0
        /\ x.received = p.received /\ x.chunk_remainder = 0
    <2>1. p \in Conns /\ p.consumed_content = 0 /\ p.is_chunked = 0 /\ p.chunk_remainder = 0
      BY DEF Receives
    <2>2. p.head \in 0..Len(stream)
      BY <1>3, <1>5
    <2> QED
      BY <2>1, <2>2, FramedIs
  <1>8. MessageOf(x) = m /\ Place(x) = q /\ x.overlooked = p.overlooked
    <2>1. p.consumed_content = 0
      BY DEF Receives
    <2> QED
      BY <1>7, <2>1 DEF Kept, MessageOf, Place
  <1>9. ContentUpTo(m)[q - 1] = << >>
    <2>1. 0 \in 0..Len(stream) /\ q - 1 \in 0..Len(stream)
      BY <1>5
    <2>2. \A i \in 0 + 1..q - 1 : ~ (stream[i].m = m /\ stream[i].data)
      BY <1>6
    <2> HIDE DEF m, q
    <2>3. ContentUpTo(m)[q - 1] = ContentUpTo(m)[0]
      BY <1>5, <2>1, <2>2, ContentAcross
    <2> QED
      BY <1>5, <2>3, ContentUpToIs
  <1>10. ASSUME Announces(x) PROVE InContent(x, m)
    <2>1. Sender(p) = msg
      <3>1. p.head \in 0..Len(stream)
        BY <1>3, <1>5
      <3> QED
        BY <1>4, <3>1, SenderIs
    <2>2. ~Overlooked(p) => Request(p) = msg
      BY <2>1 DEF Request
    <2>3. /\ Request(p).content = msg.content /\ Request(p).method = msg.method
          /\ Request(p).framing = msg.framing \/ (Overlooked(p) /\ Request(p).framing = "none")
      <3>1. p.head \in 0..Len(stream)
        BY <1>3, <1>5
      <3> QED
        BY <2>1, <3>1, RequestIs
    <2>4. Request(p).framing = msg.framing
          /\ (msg.framing \in {"length", "chunked", "miscounted"} \/ (msg.framing = "none" /\ msg.method \notin HasBody))
      BY <1>7, <1>8, <1>10, <2>3 DEF Announces
    <2> DEFINE L == Len(FlattenSeq(msg.content))
    <2>5. CASE msg.framing \in {"chunked", "miscounted"}
      <3>1. x.is_chunked = 1
        BY <1>7, <2>4, <2>5 DEF FramingOk
      <3>2. SizeAt(m, q) /\ ChunksOf(m, Over(x))
        BY <1>6, <1>7, <2>4, <2>5 DEF ContentAt, Over
      <3>3. InChunk(x, m, Over(x))
        BY <1>7, <1>8, <3>1, <3>2 DEF InChunk
      <3> QED
        BY <3>1, <3>2, <3>3 DEF InContent
    <2>6. CASE msg.framing \notin {"chunked", "miscounted"}
      <3>1. x.is_chunked = 0
        BY <1>7, <2>4, <2>6 DEF FramingOk
      <3>2. PlainOf(m, q, L)
        BY <1>6, <2>6 DEF ContentAt
      <3>3. x.content_len \in Nat /\ x.content_len = L
        <4>1. CASE msg.framing = "length"
          BY <1>7, <2>3, <2>4, <4>1 DEF FramingOk
        <4>2. CASE msg.framing = "none" /\ msg.method \notin HasBody
          <5>1. msg.content = << >>
            BY <1>6, <4>2 DEF Sane
          <5>2. L = 0
            BY <5>1 DEF FlattenSeq
          <5>3. x.content_len = 0
            BY <1>7, <2>3, <2>4, <4>2 DEF FramingOk
          <5> QED
            BY <5>2, <5>3
        <4> QED
          BY <2>4, <2>6, <4>1, <4>2
      <3>4. x.buf[1] + x.request_len = q
        BY <1>1, <1>7 DEF Kept
      <3> HIDE DEF L, m, q
      <3> QED
        BY <1>7, <3>1, <3>2, <3>3, <3>4 DEF InContent
    <2> QED
      BY <2>5, <2>6
  <1> QED
    BY <1>8, <1>9, <1>10

\* What get_request gives.
Gets(c, g) ==
    /\ Held(g.c) /\ Remembers(c, g.c) /\ g.c.request_len \in -2..g.c.data_len
    /\ g.error \in {-1, 0, 400, 411}
    /\ g.error = -1 => g.c.head = 0
    /\ g.error = 0 => Begins(c, g.c)

\* get_request starts a request at the beginning of its content, or closes.
LEMMA GetRequestIs ==
    ASSUME StreamOk, NEW script, Script(script), BufSize \in Nat \ {0}, NEW c, Held(c), NEW g \in get_request(c)
    PROVE  Gets(c, g)
  <1>1. Sendable(c) \in Nat /\ Sendable(c) <= Len(stream) /\ Len(stream) \in Nat /\ faults \subseteq Faults
    BY SendableIs
  <1>2. PICK g0 \in get_message(c) :
           g = IF g0.error # 0 THEN g0
               ELSE LET head == parse_http_request(g0.c)
                        p == Parsed(g0.c, head)
                    IN  IF head = 0 \/ ~alloc_get_host(Request(p)) THEN [error |-> 400, c |-> p]
                        ELSE IF Request(p).framing = "unparsable" THEN [error |-> 411, c |-> p]
                        ELSE [error |-> 0, c |-> Framed(p)]
    BY DEF get_request, Parsed
  <1>3. PICK k \in 0..BufSize :
              /\ Receives(c, k, g0.c) /\ g0.c.head = 0
              /\ g0.c.misaligned = c.misaligned /\ g0.c.overlooked = c.overlooked
              /\ g0.error \in {-1, 0, 400} /\ (g0.error = 0 <=> g0.c.request_len > 0)
    BY <1>1, <1>2, GetMessageIs DEF Held
  <1>4. 0 \in 0..Len(stream) /\ BufSize \in Nat
    BY <1>1
  <1>5. /\ Held(g0.c) /\ Remembers(c, g0.c) /\ g0.c.request_len \in -2..g0.c.data_len
    BY <1>3, <1>4, ReceivesHeld
  <1>6. CASE g0.error # 0
    <2>1. g = g0
      BY <1>2, <1>6
    <2> QED
      BY <1>3, <1>5, <1>6, <2>1 DEF Gets
  <1>7. CASE g0.error = 0
    <2> DEFINE x == g0.c
               head == parse_http_request(x)
               p == Parsed(x, head)
    <2>1. \/ g = [error |-> 400, c |-> p]
          \/ g = [error |-> 411, c |-> p]
          \/ head # 0 /\ Request(p).framing # "unparsable" /\ g = [error |-> 0, c |-> Framed(p)]
      BY <1>2, <1>7
    <2>2. x \in Conns /\ x.request_len > 0 /\ Receives(c, k, x)
      BY <1>3, <1>7 DEF Receives
    <2>3. head # 0 => LET s == RequestLine(x) IN
             /\ s \in 1..BufSize /\ \A i \in 1..s - 1 : At(x.buf[i]).t = "e"
             /\ head = x.buf[s] /\ At(x.buf[s]).t = "G"
      BY <1>4, ParseIs
    <2> HIDE DEF head
    <2>4. head \in 0..Len(stream)
      <3>1. CASE head = 0
        BY <1>4, <3>1
      <3>2. CASE head # 0
        <4>1. PICK s \in 1..BufSize : head = x.buf[s]
          BY <2>3, <3>2
        <4>2. x.buf[s] \in Nat /\ x.buf[s] <= Len(stream)
          BY <1>5, <2>2 DEF Held, Conns
        <4> QED
          BY <1>1, <4>1, <4>2
      <3> QED
        BY <3>1, <3>2
    <2>5. /\ Receives(c, k, p) /\ p.head = head /\ p.buf = x.buf /\ p.request_len = x.request_len
          /\ p.misaligned <=> (x.misaligned \/ RequestLine(x) > 2)
          /\ x.overlooked => p.overlooked
          /\ head # 0 /\ Overlooked(p) => p.overlooked
      <3>1. head \in Nat
        BY <1>1, <2>4
      <3> QED
        <4>1. Receives(c, k, p) /\ IsParsed(x, head, p)
          BY <2>2, <3>1, ParsedIs
        <4> QED
          BY <4>1 DEF IsParsed
    <2>6. p \in Conns
      BY <2>5 DEF Receives
    <2> HIDE DEF p
    <2>7. (c.misaligned => p.misaligned) /\ (c.overlooked => p.overlooked)
      BY <1>3, <2>5
    <2>8. Held(p) /\ Remembers(c, p) /\ Holds(p.buf, c.received, k) /\ p.request_len \in -2..p.data_len
      BY <1>4, <2>4, <2>5, <2>7, ReceivesHeld
    <2>9. CASE g = [error |-> 400, c |-> p] \/ g = [error |-> 411, c |-> p]
      <3>1. g.c = p /\ g.error \in {400, 411}
        BY <2>9
      <3> QED
        BY <2>6, <2>8, <3>1 DEF Gets
    <2>10. CASE head # 0 /\ Request(p).framing # "unparsable" /\ g = [error |-> 0, c |-> Framed(p)]
      <3> DEFINE f == Framed(p)
                 s == RequestLine(x)
      <3>1. p.consumed_content = 0 /\ p.is_chunked = 0 /\ p.chunk_remainder = 0
        BY <2>5 DEF Receives
      <3>2. /\ f \in Conns /\ f.is_chunked \in {0, 1} /\ (f.is_chunked # 0 => Chunky(f)) /\ FramingOk(f)
            /\ Request(f) = Request(p) /\ Kept(p, f) /\ f.consumed_content = 0
            /\ f.received = p.received /\ f.chunk_remainder = 0
            /\ f.late = p.late /\ f.broken = p.broken /\ f.stopped = p.stopped /\ f.misframed = p.misframed
        BY <2>4, <2>5, <2>6, <3>1, FramedIs
      <3>3. g.error = 0 /\ g.c = f
        BY <2>10
      <3> HIDE DEF f
      <3>4. /\ Loaded(p) /\ k >= 2 /\ ~p.broken /\ ~p.stopped
        BY <1>4, <2>2, <2>5, ReceivesLoaded
      <3>5. Loaded(f)
        BY <3>1, <3>2, <3>4, LoadedStill
      <3>6. /\ f.buf = p.buf /\ f.request_len = p.request_len /\ f.data_len = p.data_len
            /\ f.handled_requests = p.handled_requests /\ f.head = p.head
            /\ f.unread = p.unread /\ f.misaligned = p.misaligned /\ f.overlooked = p.overlooked
        BY <3>2 DEF Kept
      <3>7. Held(f)
        <4>1. Sendable(f) = Sendable(p)
          BY <3>6 DEF Sendable
        <4> QED
          BY <2>8, <3>2, <3>6, <4>1 DEF Held
      <3>8. Remembers(c, f)
        <4>1. /\ f.handled_requests = c.handled_requests
              /\ (c.late => f.late) /\ (c.broken => f.broken) /\ (c.stopped => f.stopped)
          BY <2>8, <3>2, <3>6 DEF Remembers
        <4>2. (c.misframed => f.misframed) /\ (c.unread => f.unread) /\ (c.misaligned => f.misaligned)
          BY <2>8, <3>2, <3>6 DEF Remembers
        <4>3. c.overlooked => f.overlooked
          BY <2>8, <3>6 DEF Remembers
        <4> QED
          BY <4>1, <4>2, <4>3 DEF Remembers
      <3>9. f.request_len \in -2..f.data_len /\ f.head = head
        BY <2>5, <2>6, <2>8, <3>6
      <3>10. Serves(f)
        BY <3>2, <3>5 DEF Serves
      <3>11. /\ s \in 1..BufSize /\ \A i \in 1..s - 1 : At(p.buf[i]).t = "e"
             /\ head = p.buf[s] /\ At(p.buf[s]).t = "G"
        BY <2>3, <2>5, <2>10
      <3>12. ~f.misaligned => s \in {1, 2}
        <4>1. ~f.misaligned => ~ (s > 2)
          BY <2>5, <3>6
        <4> QED
          BY <3>11, <4>1
      <3> HIDE DEF s
      <3>13. ASSUME Aligned(f)
             PROVE  /\ Announces(f) => InContent(f, MessageOf(f))
                    /\ ContentUpTo(MessageOf(f))[Place(f) - 1] = << >>
        <4>1. s \in {1, 2} /\ ~At(p.head).data
          BY <3>6, <3>12, <3>13 DEF Aligned
        <4>2. p.head = p.buf[s] /\ At(p.head).t = "G" /\ p.request_len > 0
          BY <2>2, <2>5, <3>11
        <4>3. Overlooked(p) => p.overlooked
          BY <2>5, <2>10
        <4> QED
          BY <1>4, <2>5, <4>1, <4>2, <4>3, BeginsContent DEF f
      <3>14. ASSUME ~f.misaligned, UpTo(c.received, c.handled_requests)
             PROVE  ~At(f.head).data /\ At(f.head).m = c.handled_requests + 1
        <4> DEFINE buf == p.buf
                   rec == c.received
                   h == c.handled_requests
        <4>1. s \in {1, 2} /\ s <= k
          BY <3>4, <3>12, <3>14
        <4>2. Holds(buf, rec, k) /\ At(buf[s]).t = "G" /\ (\A i \in 1..s - 1 : At(buf[i]).t = "e")
              /\ f.head = buf[s]
          BY <2>8, <3>9, <3>11
        <4>3. h \in Nat /\ UpTo(rec, h)
          BY <3>14 DEF Held, Conns
        <4> HIDE DEF buf, rec, h
        <4>4. ~At(buf[s]).data /\ At(buf[s]).m = h + 1
          BY <4>1, <4>2, <4>3, NextFound
        <4> QED
          BY <4>2, <4>4 DEF h
      <3>15. f.head # 0 /\ Request(f).framing # "unparsable" /\ ~f.broken /\ ~f.stopped
        BY <2>10, <3>2, <3>4, <3>9
      <3>16. Begins(c, f)
        BY <3>2, <3>10, <3>13, <3>14, <3>15 DEF Begins
      <3> QED
        BY <3>3, <3>7, <3>8, <3>9, <3>16 DEF Gets
    <2> QED
      BY <2>1, <2>9, <2>10
  <1> QED
    BY <1>6, <1>7

-----------------------------------------------------------------------------
(* The options.                                                            *)

\* A suffix is what stands behind some index.
LEMMA SuffixIs ==
    ASSUME NEW T, NEW s \in Seq(T), NEW t \in Seq(T), s # << >>
    PROVE  IsSuffix(s, t) <=> /\ Len(s) <= Len(t)
                              /\ SubSeq(t, Len(t) - Len(s) + 1, Len(t)) = s
  <1> DEFINE n == Len(s)
             k == Len(t)
             d == k - n
             tail == SubSeq(t, d + 1, k)
             rs == Reverse(s)
             rt == Reverse(t)
  <1>1. n \in Nat \ {0} /\ k \in Nat
    BY Len(s) \in Nat, s = << >> <=> Len(s) = 0
  <1>2. rs \in Seq(T) /\ rt \in Seq(T) /\ Len(rs) = n /\ Len(rt) = k
    <2>1. rs = [i \in 1..n |-> s[(n - i) + 1]] /\ rt = [i \in 1..k |-> t[(k - i) + 1]]
      BY DEF Reverse
    <2>2. (\A i \in 1..n : s[(n - i) + 1] \in T) /\ (\A i \in 1..k : t[(k - i) + 1] \in T)
      BY <1>1
    <2> HIDE DEF rs, rt, n, k
    <2>3. rs \in [1..n -> T] /\ rt \in [1..k -> T]
      BY <2>1, <2>2
    <2> QED
      BY <1>1, <2>3, FunctionIsSeq
  <1>3. (\A i \in 1..n : rs[i] = s[(n - i) + 1]) /\ (\A i \in 1..k : rt[i] = t[(k - i) + 1])
    BY DEF Reverse
  <1>4. IsSuffix(s, t) <=> n <= k /\ \A i \in 1..n : rs[i] = rt[i]
    <2> HIDE DEF rs, rt, n, k
    <2>1. Len(rs) <= Len(rt) => (SubSeq(rs, 1, Len(rs)) = SubSeq(rt, 1, Len(rs)) <=> \A i \in 1..n : rs[i] = rt[i])
      BY <1>1, <1>2
    <2> QED
      BY <1>2, <2>1 DEF IsSuffix, IsPrefix, rs, rt
  <1>5. n <= k => (tail = s <=> \A j \in 1..n : t[d + j] = s[j])
    <2> SUFFICES ASSUME n <= k PROVE tail = s <=> \A j \in 1..n : t[d + j] = s[j]
      OBVIOUS
    <2>1. d \in Nat /\ d + 1 \in 1..k /\ k - (d + 1) + 1 = n
      BY <1>1
    <2>2. tail \in Seq(T) /\ Len(tail) = n /\ \A j \in 1..n : tail[j] = t[d + j]
      <3>1. Len(tail) = n
        BY <1>1, <2>1
      <3>2. \A j \in 1..n : tail[j] = t[d + j]
        BY <1>1, <2>1
      <3>3. \A j \in 1..n : t[d + j] \in T
        BY <1>1, <2>1
      <3> QED
        BY <1>1, <2>1, <3>1, <3>2, <3>3
    <2> HIDE DEF tail, d
    <2> QED
      BY <1>1, <2>2
  <1>6. n <= k => ((\A i \in 1..n : rs[i] = rt[i]) <=> \A j \in 1..n : t[d + j] = s[j])
    <2> SUFFICES ASSUME n <= k PROVE (\A i \in 1..n : rs[i] = rt[i]) <=> \A j \in 1..n : t[d + j] = s[j]
      OBVIOUS
    <2> HIDE DEF rs, rt, n, k
    <2>1. ASSUME NEW i \in 1..n PROVE /\ (n - i) + 1 \in 1..n /\ (n - ((n - i) + 1)) + 1 = i
                                     /\ (k - i) + 1 = d + ((n - i) + 1) /\ i \in 1..k
      BY <1>1
    <2>2. \A i \in 1..n : rs[i] = rt[i] <=> t[d + ((n - i) + 1)] = s[(n - i) + 1]
      BY <1>3, <2>1
    <2> HIDE DEF d
    <2>3. ASSUME \A j \in 1..n : t[d + j] = s[j] PROVE \A i \in 1..n : rs[i] = rt[i]
      BY <2>1, <2>2, <2>3
    <2>4. ASSUME \A i \in 1..n : rs[i] = rt[i], NEW j \in 1..n PROVE t[d + j] = s[j]
      <3>1. PICK i \in 1..n : i = (n - j) + 1
        BY <2>1
      <3>2. (n - i) + 1 = j
        BY <1>1, <3>1
      <3> QED
        BY <2>2, <2>4, <3>2
    <2> QED
      BY <2>3, <2>4
  <1> QED
    BY <1>4, <1>5, <1>6

\* A sequence of one element.
LEMMA One ==
    ASSUME NEW T, NEW s \in Seq(T), Len(s) = 1
    PROVE  s = << s[1] >>
  OBVIOUS

\* A name below the domain, or the domain itself.
LEMMA NamedIs ==
    ASSUME NEW D \in Seq(STRING), NEW H \in Seq(STRING)
    PROVE  (D # << >> /\ IsSuffix(D, H) /\ ~ (Len(H) - Len(D) = 1 /\ H[1] = "")) <=>
               \E i \in 1..Len(H) : SubSeq(H, i, Len(H)) = D /\ SubSeq(H, 1, i - 1) # <<"">>
  <1> DEFINE named == \E i \in 1..Len(H) : SubSeq(H, i, Len(H)) = D /\ SubSeq(H, 1, i - 1) # <<"">>
             k == Len(H)
             n == Len(D)
  <1>1. k \in Nat /\ n \in Nat
    OBVIOUS
  <1>2. CASE D = << >>
    <2>1. ASSUME NEW i \in 1..k PROVE SubSeq(H, i, k) # D
      <3>1. Len(SubSeq(H, i, k)) = k - i + 1 /\ k - i + 1 # 0
        OBVIOUS
      <3> QED
        BY <1>2, <3>1
    <2> QED
      BY <1>2, <2>1
  <1>3. CASE D # << >>
    <2>1. n # 0
      BY <1>3
    <2>2. IsSuffix(D, H) <=> n <= k /\ SubSeq(H, k - n + 1, k) = D
      BY <1>3, SuffixIs
    <2>3. ASSUME n <= k PROVE SubSeq(H, 1, k - n) # <<"">> <=> ~ (k - n = 1 /\ H[1] = "")
      <3>1. Len(SubSeq(H, 1, k - n)) = k - n
        BY <1>1, <2>3
      <3>2. CASE k - n = 1
        <4> DEFINE one == SubSeq(H, 1, k - n)
        <4>1. one[1] = H[1] /\ Len(one) = 1 /\ one \in Seq(STRING)
          BY <1>1, <2>1, <2>3, <3>1, <3>2
        <4> HIDE DEF one
        <4>2. one = << one[1] >>
          BY <4>1, One
        <4>3. one = <<"">> <=> one[1] = ""
          <5>1. PICK h : h = one[1]
            OBVIOUS
          <5>2. one = << h >>
            BY <4>2, <5>1
          <5>3. << h >> = <<"">> <=> h = ""
            OBVIOUS
          <5> QED
            BY <5>1, <5>2, <5>3
        <4> QED
          BY <3>2, <4>1, <4>3 DEF one
      <3>3. CASE k - n # 1
        <4>1. Len(<<"">>) = 1
          OBVIOUS
        <4> QED
          BY <3>1, <3>3, <4>1
      <3> QED
        BY <3>2, <3>3
    <2>4. ASSUME NEW i \in 1..k, SubSeq(H, i, k) = D PROVE i = k - n + 1 /\ n <= k
      <3>1. Len(SubSeq(H, i, k)) = k - i + 1
        OBVIOUS
      <3> QED
        BY <1>1, <2>4, <3>1
    <2>5. ASSUME named PROVE IsSuffix(D, H) /\ ~ (k - n = 1 /\ H[1] = "")
      <3>1. PICK i \in 1..k : SubSeq(H, i, k) = D /\ SubSeq(H, 1, i - 1) # <<"">>
        BY <2>5
      <3>2. i = k - n + 1 /\ n <= k
        BY <2>4, <3>1
      <3>3. i - 1 = k - n
        BY <1>1, <3>2
      <3> HIDE DEF k, n
      <3> QED
        BY <2>2, <2>3, <3>1, <3>2, <3>3
    <2>6. ASSUME IsSuffix(D, H), ~ (k - n = 1 /\ H[1] = "") PROVE named
      <3>1. n <= k /\ SubSeq(H, k - n + 1, k) = D
        BY <2>2, <2>6
      <3>2. k - n + 1 \in 1..k /\ (k - n + 1) - 1 = k - n
        BY <1>1, <2>1, <3>1
      <3>3. SubSeq(H, 1, (k - n + 1) - 1) # <<"">>
        BY <2>3, <2>6, <3>1, <3>2
      <3> QED
        BY <3>1, <3>2, <3>3
    <2> QED
      BY <1>3, <2>5, <2>6
  <1> QED
    BY <1>2, <1>3

\* What the server makes of a URI is what it means.
LEMMA UriIs ==
    ASSUME config \in Settings, NEW u, u \in Uris \/ u.start = "/"
    PROVE  /\ LocalUri(u) = "local" => MeantForUs(u)
           /\ LocalUri(u) = "none" => ~MeantForUs(u)
  <1> DEFINE D == config.domain
             H == u.host
             rel == get_rel_url_at_current_server(u)
             default == IF u.start \in {"http", "ws"} THEN 80 ELSE 443
             ours == u.port = config.port \/ (u.port = NoPort /\ config.port = default)
             named == \E i \in 1..Len(H) : SubSeq(H, i, Len(H)) = D /\ SubSeq(H, 1, i - 1) # <<"">>
  <1>1. CASE u.start = "/"
    BY <1>1 DEF LocalUri, get_uri_type, MeantForUs, abs_uri_protocols
  <1>2. CASE u.start = "*"
    BY <1>2 DEF LocalUri, get_uri_type, MeantForUs, abs_uri_protocols
  <1>3. CASE u.start \notin {"/", "*", "http", "https", "ws", "wss"}
    BY <1>3 DEF LocalUri, get_uri_type, abs_uri_protocols
  <1>4. CASE u.start \in {"http", "https", "ws", "wss"}
    <2>1. u \in Uris /\ D \in Seq(STRING) /\ H \in Seq(STRING) /\ config.port # NoPort
      <3>1. u \in Uris
        BY <1>4
      <3>2. D \in Seq(STRING)
        BY DEF Settings
      <3>4. config.port \in ValidPorts
        BY DEF Settings
      <3>6. NoPort \notin ValidPorts
        BY DEF NoPort, ValidPorts
      <3>5. config.port # NoPort
        BY <3>4, <3>6
      <3>3. H \in Seq(STRING)
        BY <3>1 DEF Uris
      <3> QED
        BY <3>1, <3>2, <3>3, <3>5
    <2>2. abs_uri_protocols[u.start] = default
      BY <1>4 DEF abs_uri_protocols
    <2>3. (IF u.port = NoPort THEN abs_uri_protocols[u.start] ELSE u.port) = config.port <=> ours
      BY <2>1, <2>2
    <2>4. (D # << >> /\ IsSuffix(D, H) /\ ~ (Len(H) - Len(D) = 1 /\ H[1] = "")) <=> named
      BY <2>1, NamedIs
    <2>5. rel <=> ours /\ (config.domain_check => named)
      <3>1. rel <=> /\ (IF u.port = NoPort THEN abs_uri_protocols[u.start] ELSE u.port) = config.port
                    /\ config.domain_check =>
                          (D # << >> /\ IsSuffix(D, H) /\ ~ (Len(H) - Len(D) = 1 /\ H[1] = ""))
        BY DEF get_rel_url_at_current_server
      <3> HIDE DEF rel, ours, named
      <3> QED
        BY <2>3, <2>4, <3>1
    <2>6. MeantForUs(u) <=> ours /\ (config.domain_check => named)
      BY <1>4 DEF MeantForUs
    <2> HIDE DEF rel, ours, named
    <2>7. MeantForUs(u) <=> rel
      BY <2>5, <2>6
    <2>8. get_uri_type(u) \in {"absolute", "invalid"}
      BY <1>4 DEF get_uri_type
    <2> QED
      BY <2>7, <2>8 DEF LocalUri, rel
  <1> QED
    BY <1>1, <1>2, <1>3, <1>4

\* So for a request.
LEMMA RequestUriIs ==
    ASSUME StreamOk, config \in Settings, NEW c, c.head \in 0..Len(stream)
    PROVE  LET u == Request(c).uri IN
           /\ LocalUri(u) = "local" => MeantForUs(u)
           /\ LocalUri(u) = "none" => ~MeantForUs(u)
  <1> DEFINE u == Request(c).uri
  <1>1. u = Sender(c).uri
    BY RequestIs
  <1>2. u \in Uris \/ u.start = "/"
    <2>1. CASE Sender(c) \in Messages
      BY <1>1, <2>1 DEF Messages
    <2>2. CASE Sender(c) = Embedded
      BY <1>1, <2>2 DEF Embedded, Uri
    <2> QED
      BY <2>1, <2>2, SenderIs
  <1> HIDE DEF u
  <1>3. (LocalUri(u) = "local" => MeantForUs(u)) /\ (LocalUri(u) = "none" => ~MeantForUs(u))
    BY <1>2, UriIs
  <1> QED
    BY <1>3 DEF u

-----------------------------------------------------------------------------
(* The invariant: c is the connection, p the pc, d what was delivered, l   *)
(* what mg_read returned last, a what the answer announced.                *)

\* What does not change.
SetupInv == StreamOk /\ (\E script : Script(script)) /\ config \in Settings

\* Something has already gone wrong on this connection.
SlippedAt(c) == c.late \/ c.misframed \/ c.unread \/ c.misaligned \/ c.overlooked

\* Kinds of values, and the header of a request that is handled is in the buffer.
KindInv(c, p, d, l, a) ==
    /\ Held(c) /\ p \in {"ready", "dispatch", "handler", "tail", "closed"}
    /\ d \in Seq(1..Len(stream)) /\ l \in Int /\ a \in {"", "keep-alive", "close"}
    /\ p \in {"dispatch", "handler", "tail"} => c.request_len \in -2..c.data_len

\* A request that is handled: its content is where the connection reads, unless chunks misled it.
ServeInv(c, p, l) ==
    p \in {"dispatch", "handler"} =>
        /\ Serves(c) /\ c.head # 0 /\ Request(c).framing # "unparsable"
        /\ LocalUri(Request(c).uri) = "local"
        /\ Aligned(c) /\ Announces(c) => InContent(c, MessageOf(c)) \/ (l < 0 /\ c.misframed)
        /\ ~pipelined /\ ~SlippedAt(c) => ~At(c.head).data /\ At(c.head).m = c.handled_requests + 1

\* Nothing has been done with it yet.
FreshInv(c, p, d, l, a) ==
    p = "dispatch" =>
        /\ c.is_chunked \in {0, 1} /\ c.consumed_content = 0 /\ d = << >> /\ l = 1 /\ a = ""
        /\ Aligned(c) => ContentUpTo(MessageOf(c))[Place(c) - 1] = << >>

\* What was delivered is what has been read of the content.
DeliverInv(c, p, d, l) ==
    p = "handler" /\ Aligned(c) /\ Request(c).framing \in {"length", "chunked"} =>
        IF l > 0 THEN d = ContentUpTo(MessageOf(c))[Place(c) - 1]
        ELSE /\ IsPrefix(d, Content(MessageOf(c)))
             /\ l = 0 /\ ~c.late /\ ~c.stopped => d = Content(MessageOf(c))

\* What was announced holds, where the end of the content is known.
AnnounceInv(c, p, a) ==
    /\ p \in {"handler", "tail"} /\ a = "close" => ~should_keep_alive(c)
    /\ p = "handler" /\ a = "keep-alive" /\ Request(c).framing \in {"length", "chunked"} =>
          should_keep_alive(c)
    /\ p = "tail" /\ a = "keep-alive"
          /\ (Request(c).framing = "length" \/ (Request(c).framing = "chunked" /\ ~c.unread)) =>
          should_keep_alive(c) /\ c.content_len >= 0
    /\ p = "tail" /\ a = "" /\ c.head # 0 => LocalUri(Request(c).uri) = "none"

\* A connection that is kept has received what there is up to the end of its message.
OrderInv(c, p) ==
    ~pipelined /\ ~SlippedAt(c) /\ ~c.broken /\ ~c.stopped =>
        /\ p = "ready" => UpTo(c.received, c.handled_requests)
        /\ p = "tail" /\ should_keep_alive(c) /\ c.content_len >= 0 =>
              UpTo(c.received, c.handled_requests + 1)

\* What holds of a state between two steps, setup apart.
StateInv(c, p, d, l, a) ==
    /\ KindInv(c, p, d, l, a) /\ ServeInv(c, p, l) /\ FreshInv(c, p, d, l, a) /\ DeliverInv(c, p, d, l)
    /\ AnnounceInv(c, p, a) /\ OrderInv(c, p)

-----------------------------------------------------------------------------
\* d is c, with marks that do not concern the content.
Marked(c, d) ==
    /\ d \in Conns /\ d.request_len = c.request_len /\ d.data_len = c.data_len /\ d.buf = c.buf
    /\ d.handled_requests = c.handled_requests /\ d.head = c.head
    /\ d.consumed_content = c.consumed_content /\ d.content_len = c.content_len
    /\ d.is_chunked = c.is_chunked /\ d.chunk_remainder = c.chunk_remainder
    /\ d.received = c.received
    /\ (c.must_close => d.must_close) /\ (c.unread => d.unread) /\ (c.stopped => d.stopped)
    /\ (d.late <=> c.late) /\ (d.broken <=> c.broken) /\ (d.misframed <=> c.misframed)
    /\ (d.misaligned <=> c.misaligned) /\ (d.overlooked <=> c.overlooked)

\* What marks do not change.
MarkedKeeps(c, d) ==
    /\ Request(d) = Request(c) /\ Place(d) = Place(c) /\ MessageOf(d) = MessageOf(c)
    /\ (Aligned(d) <=> Aligned(c)) /\ (Announces(d) <=> Announces(c))
    /\ (Held(c) => Held(d)) /\ (Serves(c) => Serves(d))
    /\ \A m : InContent(d, m) <=> InContent(c, m)
    /\ (SlippedAt(c) => SlippedAt(d)) /\ (should_keep_alive(d) => should_keep_alive(c))

\* Marks do not change it.
LEMMA MarkedIs ==
    ASSUME NEW c, NEW d, Marked(c, d)
    PROVE  MarkedKeeps(c, d)
  <1>1. /\ d \in Conns /\ d.request_len = c.request_len /\ d.data_len = c.data_len /\ d.buf = c.buf
        /\ d.handled_requests = c.handled_requests /\ d.head = c.head
        /\ d.consumed_content = c.consumed_content /\ d.content_len = c.content_len
        /\ d.is_chunked = c.is_chunked /\ d.chunk_remainder = c.chunk_remainder
        /\ d.received = c.received
    BY DEF Marked
  <1>2. /\ (c.must_close => d.must_close) /\ (c.unread => d.unread) /\ (c.stopped => d.stopped)
        /\ (d.late <=> c.late) /\ (d.broken <=> c.broken) /\ (d.misframed <=> c.misframed)
        /\ (d.misaligned <=> c.misaligned) /\ (d.overlooked <=> c.overlooked)
    BY DEF Marked
  <1>3. Sender(d) = Sender(c)
    BY <1>1 DEF Sender
  <1>4. Overlooked(d) <=> Overlooked(c)
    BY <1>3 DEF Overlooked
  <1>5. Request(d) = Request(c)
    BY <1>3, <1>4 DEF Request
  <1>6. Over(d) = Over(c)
    BY <1>5 DEF Over
  <1>7. Place(d) = Place(c) /\ MessageOf(d) = MessageOf(c) /\ Sendable(d) = Sendable(c)
    BY <1>1 DEF Place, MessageOf, Sendable
  <1>8. Aligned(d) <=> Aligned(c)
    BY <1>1, <1>2 DEF Aligned
  <1>9. Announces(d) <=> Announces(c)
    BY <1>2, <1>5 DEF Announces
  <1>10. Held(c) => Held(d)
    BY <1>1, <1>7 DEF Held
  <1>11. Loaded(c) => Loaded(d)
    BY <1>1, <1>7 DEF Loaded
  <1>12. Chunky(c) => Chunky(d)
    BY <1>1 DEF Chunky
  <1>13. FramingOk(c) => FramingOk(d)
    BY <1>1, <1>2, <1>5 DEF FramingOk
  <1>14. Serves(c) => Serves(d)
    BY <1>1, <1>11, <1>12, <1>13 DEF Serves
  <1>15. ASSUME NEW m PROVE InContent(d, m) <=> InContent(c, m)
    <2>1. InChunk(d, m, Over(d)) <=> InChunk(c, m, Over(c))
      BY <1>1, <1>6, <1>7 DEF InChunk
    <2> QED
      BY <1>1, <1>6, <2>1 DEF InContent
  <1>16. SlippedAt(c) => SlippedAt(d)
    BY <1>2 DEF SlippedAt
  <1>17. should_keep_alive(d) => should_keep_alive(c)
    BY <1>2, <1>5 DEF should_keep_alive
  <1> QED
    BY <1>5, <1>7, <1>8, <1>9, <1>10, <1>14, <1>15, <1>16, <1>17 DEF MarkedKeeps

\* No request has another framing.
LEMMA FramingIs ==
    ASSUME StreamOk, NEW c, c.head \in 0..Len(stream)
    PROVE  Request(c).framing \in Framings
  <1>1. Sender(c).framing \in Framings
    <2>1. CASE Sender(c) \in Messages
      BY <2>1 DEF Messages
    <2>2. CASE Sender(c) = Embedded
      BY <2>2 DEF Embedded, Framings
    <2> QED
      BY <2>1, <2>2, SenderIs
  <1>2. Request(c).framing = Sender(c).framing \/ Request(c).framing = "none"
    BY RequestIs
  <1> QED
    BY <1>1, <1>2 DEF Framings

\* Where the connection goes on behind a content it knows the end of, it has read all of it.
LEMMA KeptIsRead ==
    ASSUME StreamOk, NEW c, Serves(c), c.head \in 0..Len(stream), Request(c).framing # "unparsable",
           ~c.overlooked, should_keep_alive(c), c.content_len >= 0
    PROVE  Announces(c)
  <1>1. Request(c).framing \in Framings /\ ~c.must_close
    BY FramingIs DEF should_keep_alive
  <1>2. CASE Request(c).framing = "negative"
    <2>1. c.content_len = -2
      BY <1>2 DEF Serves, FramingOk
    <2> QED
      BY <2>1
  <1>3. CASE Request(c).framing = "none"
    <2>1. Request(c).method \notin HasBody
      <3>1. Request(c).method \in HasBody => c.content_len = -1 \/ c.must_close
        BY <1>3 DEF Serves, FramingOk
      <3> QED
        BY <1>1, <3>1
    <2> QED
      BY <1>3, <2>1 DEF Announces
  <1> QED
    BY <1>1, <1>2, <1>3 DEF Framings, Announces

\* It has then received what there is up to the end of the message.
LEMMA ReadUpTo ==
    ASSUME StreamOk, NEW c, Serves(c), ~pipelined, NEW m, m = c.handled_requests + 1, InContent(c, m), ContentRead(c)
    PROVE  UpTo(c.received, m)
  <1>1. Sendable(c) = Sent(m) /\ Sent(m) \in Nat /\ Len(stream) \in Nat
    BY SentIs DEF Sendable
  <1>2. c \in Conns /\ Loaded(c)
    BY DEF Serves
  <1>3. Place(c) \in Nat /\ Place(c) - 1 <= c.received /\ c.received \in Nat /\ c.received <= Sent(m)
    BY <1>1, <1>2, PlaceIs DEF Loaded
  <1>4. Place(c) - 1 = Sent(m) \/ (Place(c) = Sent(m) /\ LineEndAt(m, Sent(m)))
    BY ReadAll
  <1>5. CASE Place(c) - 1 = Sent(m)
    BY <1>1, <1>3, <1>5 DEF UpTo
  <1>6. CASE Place(c) = Sent(m) /\ LineEndAt(m, Sent(m))
    <2>1. stream[Sent(m)].t = "e"
      BY <1>6 DEF LineEndAt
    <2>2. c.received = Sent(m) \/ c.received + 1 = Sent(m)
      BY <1>1, <1>3, <1>6
    <2> QED
      BY <2>1, <2>2 DEF UpTo
  <1> QED
    BY <1>4, <1>5, <1>6

-----------------------------------------------------------------------------
(* What each step does to the invariant.                                   *)

\* No elements are a sequence.
LEMMA EmptySeqIs == ASSUME NEW S PROVE << >> \in Seq(S)
  OBVIOUS

\* must_close is set.
Closed(c) == [c EXCEPT !.must_close = TRUE]

\* Setting must_close is a mark.
LEMMA ClosedIs ==
    ASSUME NEW c \in Conns
    PROVE  Marked(c, Closed(c)) /\ Closed(c).must_close
  <1>1. Closed(c) \in Conns /\ Closed(c).must_close
    BY DEF Closed, Conns
  <1> QED
    BY <1>1, ZenonT(40) DEF Closed, Conns, Marked

\* Leaving a content unread is a mark, unless there was none.
LEMMA LeavingIs ==
    ASSUME NEW c \in Conns
    PROVE  /\ Marked(c, LeavingContent(c)) /\ (LeavingContent(c).must_close <=> c.must_close)
           /\ ~LeavingContent(c).unread => c.content_len = 0
           /\ (LeavingContent(c).stopped <=> c.stopped)
  <1> DEFINE x == LeavingContent(c)
             b == c.unread \/ c.content_len # 0
  <1>2. x = [c EXCEPT !.unread = b]
    BY DEF LeavingContent, Conns
  <1>1. b \in BOOLEAN
    OBVIOUS
  <1>0. (c.unread => b) /\ (~b => c.content_len = 0)
    OBVIOUS
  <1> HIDE DEF b, x
  <1>3. x \in Conns
    BY <1>1, <1>2 DEF Conns
  <1>4. /\ x.request_len = c.request_len /\ x.data_len = c.data_len /\ x.buf = c.buf
        /\ x.handled_requests = c.handled_requests /\ x.head = c.head
        /\ x.consumed_content = c.consumed_content /\ x.content_len = c.content_len
        /\ x.is_chunked = c.is_chunked /\ x.chunk_remainder = c.chunk_remainder
        /\ x.received = c.received
    BY <1>2 DEF Conns
  <1>5. /\ (x.must_close <=> c.must_close) /\ (x.unread <=> b) /\ (x.stopped <=> c.stopped)
        /\ (x.late <=> c.late) /\ (x.broken <=> c.broken) /\ (x.misframed <=> c.misframed)
        /\ (x.misaligned <=> c.misaligned) /\ (x.overlooked <=> c.overlooked)
    BY <1>2 DEF Conns
  <1>6. c.unread => x.unread
    BY <1>0, <1>5
  <1>7. Marked(c, x)
    BY <1>3, <1>4, <1>5, <1>6 DEF Marked
  <1>8. ~x.unread => c.content_len = 0
    BY <1>0, <1>5
  <1> QED
    BY <1>4, <1>5, <1>7, <1>8 DEF x

\* A connection that will be closed.
LEMMA TailClosed ==
    ASSUME NEW c, Held(c), c.request_len \in -2..c.data_len,
           NEW d \in Seq(1..Len(stream)), NEW l \in Int, NEW a \in {"", "close"},
           a = "" /\ c.head # 0 => LocalUri(Request(c).uri) = "none"
    PROVE  StateInv(Closed(c), "tail", d, l, a)
  <1> DEFINE x == Closed(c)
  <1>1. Marked(c, x) /\ x.must_close
    BY ClosedIs DEF Held
  <1> HIDE DEF x
  <1>2. MarkedKeeps(c, x)
    BY <1>1, MarkedIs
  <1>3. ~should_keep_alive(x)
    BY <1>1 DEF should_keep_alive
  <1>4. KindInv(x, "tail", d, l, a)
    <2>1. Held(x)
      BY <1>2 DEF MarkedKeeps
    <2>2. x.request_len \in -2..x.data_len
      BY <1>1 DEF Marked
    <2> QED
      BY <2>1, <2>2 DEF KindInv
  <1>5. ServeInv(x, "tail", l) /\ FreshInv(x, "tail", d, l, a) /\ DeliverInv(x, "tail", d, l)
    BY DEF ServeInv, FreshInv, DeliverInv
  <1>6. AnnounceInv(x, "tail", a)
    <2>1. Request(x) = Request(c) /\ x.head = c.head
      BY <1>1, <1>2 DEF Marked, MarkedKeeps
    <2> QED
      BY <1>3, <2>1 DEF AnnounceInv
  <1>7. OrderInv(x, "tail")
    BY <1>3 DEF OrderInv
  <1> QED
    BY <1>4, <1>5, <1>6, <1>7 DEF StateInv, x

\* What Rejected does: x is the connection and b the announcement.
Rejects(g, x, b) ==
    /\ x = Closed(g.c)
    /\ b = "close" \/ (b = "" /\ (g.error = -1 \/ LocalUri(Request(g.c).uri) = "none"))

\* A request that is not understood, or does not come.
LEMMA RejectedKeeps ==
    ASSUME SetupInv, BufSize \in Nat \ {0}, NEW c, NEW d, NEW l, NEW a, StateInv(c, "ready", d, l, a),
           NEW g \in get_request(c), NEW x, NEW b, Rejects(g, x, b)
    PROVE  StateInv(x, "tail", << >>, 1, b)
  <1>1. Gets(c, g)
    BY GetRequestIs DEF SetupInv, StateInv, KindInv
  <1>2. Held(g.c) /\ g.c.request_len \in -2..g.c.data_len /\ (g.error = -1 => g.c.head = 0)
    BY <1>1 DEF Gets
  <1>3. x = Closed(g.c) /\ b \in {"", "close"}
        /\ (b = "" /\ g.c.head # 0 => LocalUri(Request(g.c).uri) = "none")
    BY <1>2 DEF Rejects
  <1>4. << >> \in Seq(1..Len(stream)) /\ 1 \in Int
    BY EmptySeqIs
  <1> QED
    BY <1>2, <1>3, <1>4, TailClosed

\* A request that is.
LEMMA AcceptedKeeps ==
    ASSUME SetupInv, BufSize \in Nat \ {0}, NEW c, NEW d, NEW l, NEW a, StateInv(c, "ready", d, l, a),
           NEW g \in get_request(c), g.error = 0, LocalUri(Request(g.c).uri) = "local"
    PROVE  StateInv(g.c, "dispatch", << >>, 1, "")
  <1> DEFINE x == g.c
  <1>1. Gets(c, g)
    BY GetRequestIs DEF SetupInv, StateInv, KindInv
  <1>2. Held(x) /\ Remembers(c, x) /\ x.request_len \in -2..x.data_len /\ Begins(c, x)
    BY <1>1 DEF Gets
  <1>3. LocalUri(Request(x).uri) = "local"
    OBVIOUS
  <1> HIDE DEF x
  <1>4. KindInv(x, "dispatch", << >>, 1, "")
    BY <1>2 DEF KindInv
  <1>5. /\ Serves(x) /\ x.head # 0 /\ Request(x).framing # "unparsable"
        /\ x.is_chunked \in {0, 1} /\ x.consumed_content = 0 /\ ~x.broken /\ ~x.stopped
        /\ (Aligned(x) /\ Announces(x) => InContent(x, MessageOf(x)))
        /\ (Aligned(x) => ContentUpTo(MessageOf(x))[Place(x) - 1] = << >>)
    BY <1>2 DEF Begins
  <1>6. ASSUME ~pipelined, ~SlippedAt(x) PROVE ~At(x.head).data /\ At(x.head).m = x.handled_requests + 1
    <2>1. ~SlippedAt(c) /\ ~c.broken /\ ~c.stopped /\ x.handled_requests = c.handled_requests
      BY <1>2, <1>5, <1>6 DEF Remembers, SlippedAt
    <2>2. UpTo(c.received, c.handled_requests)
      BY <1>6, <2>1 DEF StateInv, OrderInv
    <2>3. ~x.misaligned
      BY <1>6 DEF SlippedAt
    <2> QED
      BY <1>2, <2>1, <2>2, <2>3 DEF Begins
  <1>7. ServeInv(x, "dispatch", 1)
    BY <1>3, <1>5, <1>6 DEF ServeInv
  <1>8. FreshInv(x, "dispatch", << >>, 1, "")
    BY <1>5 DEF FreshInv
  <1>9. DeliverInv(x, "dispatch", << >>, 1) /\ AnnounceInv(x, "dispatch", "") /\ OrderInv(x, "dispatch")
    BY DEF DeliverInv, AnnounceInv, OrderInv
  <1> QED
    BY <1>4, <1>7, <1>8, <1>9 DEF StateInv, x

\* An answer that leaves the content unread.
LEMMA LeftKeeps ==
    ASSUME SetupInv, NEW c, NEW d, NEW l, NEW a, StateInv(c, "dispatch", d, l, a)
    PROVE  StateInv(LeavingContent(c), "tail", d, l, suggest_connection_header(c))
  <1> DEFINE x == LeavingContent(c)
             b == suggest_connection_header(c)
             m == c.handled_requests + 1
  <1>0. StreamOk /\ config \in Settings /\ Held(c) /\ c \in Conns
    BY DEF SetupInv, StateInv, KindInv, Held
  <1>3. Marked(c, x) /\ (x.must_close <=> c.must_close) /\ (~x.unread => c.content_len = 0)
    BY <1>0, LeavingIs
  <1> HIDE DEF x
  <1>4. MarkedKeeps(c, x)
    BY <1>3, MarkedIs
  <1>5. /\ x.content_len = c.content_len /\ x.received = c.received /\ x.handled_requests = c.handled_requests
        /\ x.request_len = c.request_len /\ x.data_len = c.data_len
    BY <1>3 DEF Marked
  <1>6. Request(x) = Request(c)
    BY <1>4 DEF MarkedKeeps
  <1>7. should_keep_alive(x) <=> should_keep_alive(c)
    BY <1>3, <1>6 DEF should_keep_alive
  <1>8. b \in {"keep-alive", "close"} /\ (b = "keep-alive" <=> should_keep_alive(x))
    BY <1>7 DEF suggest_connection_header
  <1> HIDE DEF b
  <1>9. /\ Serves(c) /\ c.head # 0 /\ Request(c).framing # "unparsable"
        /\ (Aligned(c) /\ Announces(c) => InContent(c, MessageOf(c)) \/ (l < 0 /\ c.misframed))
        /\ (~pipelined /\ ~SlippedAt(c) => ~At(c.head).data /\ At(c.head).m = m)
        /\ c.is_chunked \in {0, 1} /\ c.consumed_content = 0 /\ l = 1
    BY DEF StateInv, ServeInv, FreshInv
  <1>10. c.is_chunked # 0 => c.content_len = -1
    BY <1>9 DEF Serves, Chunky
  <1>11. KindInv(x, "tail", d, l, b)
    <2>1. Held(x)
      BY <1>0, <1>4 DEF MarkedKeeps
    <2> QED
      BY <1>5, <1>8, <2>1 DEF StateInv, KindInv
  <1>12. ServeInv(x, "tail", l) /\ FreshInv(x, "tail", d, l, b) /\ DeliverInv(x, "tail", d, l)
    BY DEF ServeInv, FreshInv, DeliverInv
  <1>13. AnnounceInv(x, "tail", b)
    <2>1. Request(c).framing = "length" => x.content_len >= 0
      BY <1>5, <1>9 DEF Serves, FramingOk
    <2>2. ~ (Request(c).framing = "chunked" /\ ~x.unread)
      <3>1. Request(c).framing = "chunked" => c.is_chunked # 0
        BY <1>9 DEF Serves, FramingOk
      <3> QED
        BY <1>3, <1>5, <1>10, <3>1
    <2> QED
      BY <1>6, <1>8, <2>1, <2>2 DEF AnnounceInv
  <1>14. ASSUME ~pipelined, ~SlippedAt(x), should_keep_alive(x), x.content_len >= 0
         PROVE  UpTo(x.received, x.handled_requests + 1)
    <2>1. ~SlippedAt(c) /\ ~x.unread
      BY <1>4, <1>14 DEF MarkedKeeps, SlippedAt
    <2>2. c.content_len = 0 /\ c.is_chunked = 0
      BY <1>3, <1>5, <1>10, <2>1
    <2>3. ContentRead(c)
      BY <1>9, <2>2 DEF ContentRead
    <2>4. Aligned(c) /\ MessageOf(c) = m /\ ~c.overlooked
      BY <1>9, <1>14, <2>1 DEF Aligned, SlippedAt, MessageOf
    <2>5. c.head \in 0..Len(stream)
      BY <1>0 DEF Held
    <2>6. Announces(c)
      BY <1>0, <1>7, <1>9, <1>14, <2>2, <2>4, <2>5, KeptIsRead
    <2>7. InContent(c, m)
      BY <1>9, <2>4, <2>6
    <2>8. UpTo(c.received, m)
      BY <1>0, <1>9, <1>14, <2>3, <2>7, ReadUpTo
    <2> QED
      BY <1>5, <2>8
  <1>15. OrderInv(x, "tail")
    BY <1>14 DEF OrderInv
  <1> QED
    BY <1>11, <1>12, <1>13, <1>15 DEF StateInv, x, b

\* A handler is called.
LEMMA CalledKeeps ==
    ASSUME NEW c, NEW d, NEW l, NEW a, StateInv(c, "dispatch", d, l, a)
    PROVE  StateInv(c, "handler", d, l, a)
  <1>1. l = 1 /\ d = << >> /\ a = "" /\ (Aligned(c) => ContentUpTo(MessageOf(c))[Place(c) - 1] = << >>)
    BY DEF StateInv, FreshInv
  <1>2. KindInv(c, "handler", d, l, a) /\ ServeInv(c, "handler", l)
    BY DEF StateInv, KindInv, ServeInv
  <1>3. FreshInv(c, "handler", d, l, a) /\ OrderInv(c, "handler") /\ AnnounceInv(c, "handler", a)
    BY <1>1 DEF FreshInv, OrderInv, AnnounceInv
  <1>4. l > 0
    <2>1. l = 1
      BY <1>1
    <2> QED
      BY <2>1
  <1>5. DeliverInv(c, "handler", d, l)
    BY <1>1, <1>4 DEF DeliverInv
  <1> QED
    BY <1>2, <1>3, <1>5 DEF StateInv

\* What reading leaves as it was.
StillHeld(c, e) ==
           /\ Held(e) /\ e.head = c.head /\ e.handled_requests = c.handled_requests
           /\ e.request_len = c.request_len /\ e.data_len = c.data_len
           /\ Request(e) = Request(c) /\ Over(e) = Over(c) /\ MessageOf(e) = MessageOf(c)
           /\ (Aligned(e) <=> Aligned(c)) /\ (Announces(e) <=> Announces(c))
           /\ (SlippedAt(c) => SlippedAt(e)) /\ (e.unread <=> c.unread)
           /\ (c.broken => e.broken) /\ (c.stopped => e.stopped)

\* A connection that has been read from is held.
LEMMA ReadHolds ==
    ASSUME NEW c, NEW e, Held(c), Serves(e), Kept(c, e)
    PROVE  StillHeld(c, e)
  <1>1. /\ e.request_len = c.request_len /\ e.data_len = c.data_len /\ e.buf = c.buf
        /\ e.handled_requests = c.handled_requests /\ e.head = c.head
    BY DEF Kept
  <1>2. /\ e.unread = c.unread /\ e.misaligned = c.misaligned /\ e.overlooked = c.overlooked
    BY DEF Kept
  <1>3. /\ (c.late => e.late) /\ (c.broken => e.broken) /\ (c.stopped => e.stopped)
        /\ (c.misframed => e.misframed)
    BY DEF Kept
  <1>4. Request(e) = Request(c) /\ Over(e) = Over(c)
    BY RequestKept
  <1>5. Held(e)
    <2>1. e \in Conns /\ e.received <= Sendable(e)
      BY DEF Serves, Loaded
    <2> QED
      BY <1>1, <2>1 DEF Held
  <1>6. MessageOf(e) = MessageOf(c) /\ (Aligned(e) <=> Aligned(c))
    BY <1>1, <1>2 DEF MessageOf, Aligned
  <1>7. Announces(e) <=> Announces(c)
    BY <1>2, <1>4 DEF Announces
  <1>8. SlippedAt(c) => SlippedAt(e)
    BY <1>2, <1>3 DEF SlippedAt
  <1> QED
    BY <1>1, <1>2, <1>3, <1>4, <1>5, <1>6, <1>7, <1>8 DEF StillHeld

\* Nothing more is the same sequence.
LEMMA NothingMore == ASSUME NEW S, NEW s \in Seq(S) PROVE s \o << >> = s
  OBVIOUS

\* It reads.
LEMMA ReadsKeeps ==
    ASSUME SetupInv, NEW c, NEW d, NEW l, NEW a, StateInv(c, "handler", d, l, a), l > 0,
           NEW n \in Nat \ {0}, NEW r \in mg_read(c, n),
           NEW e, e = IF r.n > 0 THEN d \o r.data ELSE d
    PROVE  StateInv(r.c, "handler", e, r.n, a)
  <1> DEFINE x == r.c
             m == MessageOf(c)
  <1>0. StreamOk /\ config \in Settings /\ Held(c) /\ c \in Conns /\ Len(stream) \in Nat
    BY SendableIs DEF SetupInv, StateInv, KindInv, Held
  <1>1. /\ Serves(c) /\ c.head # 0 /\ Request(c).framing # "unparsable"
        /\ LocalUri(Request(c).uri) = "local"
        /\ (Aligned(c) /\ Announces(c) => InContent(c, m))
        /\ (~pipelined /\ ~SlippedAt(c) => ~At(c.head).data /\ At(c.head).m = c.handled_requests + 1)
    <2>1. ~ (l < 0)
      <3>1. l \in Int
        BY DEF StateInv, KindInv
      <3> QED
        BY <3>1
    <2> QED
      BY <2>1 DEF StateInv, ServeInv, m
  <1>2. ReadGives(c, m, r)
    BY <1>0, <1>1, ReadIs
  <1> HIDE DEF m, x
  <1>3. /\ Serves(x) /\ Kept(c, x) /\ Closes(c, x)
        /\ r.n \in Int /\ r.data \in Seq(1..Len(stream))
        /\ (r.n = 0 => r.data = << >>)
        /\ (r.n = 0 => x.late \/ x.stopped \/ ContentRead(x))
        /\ (InContent(c, m) => InContent(x, m) \/ (r.n < 0 /\ x.misframed))
        /\ (InContent(c, m) /\ Over(c) = 0 /\ r.n >= 0 => Joined(c, x, m, r.data))
    BY <1>2 DEF ReadGives, x
  <1>4. /\ Held(x) /\ x.head = c.head /\ x.handled_requests = c.handled_requests
        /\ x.request_len = c.request_len /\ x.data_len = c.data_len
        /\ Request(x) = Request(c) /\ Over(x) = Over(c) /\ MessageOf(x) = m
        /\ (Aligned(x) <=> Aligned(c)) /\ (Announces(x) <=> Announces(c))
        /\ (SlippedAt(c) => SlippedAt(x))
    <2>1. StillHeld(c, x)
      BY <1>0, <1>3, ReadHolds
    <2> QED
      BY <2>1 DEF StillHeld, m
  <1>5. d \in Seq(1..Len(stream)) /\ a \in {"", "keep-alive", "close"} /\ c.request_len \in -2..c.data_len
    BY DEF StateInv, KindInv
  <1>6. e \in Seq(1..Len(stream))
    <2>1. d \o r.data \in Seq(1..Len(stream))
      BY <1>3, <1>5, Concat2
    <2> QED
      BY <1>5, <2>1
  <1>7. KindInv(x, "handler", e, r.n, a)
    BY <1>3, <1>4, <1>5, <1>6 DEF KindInv
  <1>8. ServeInv(x, "handler", r.n)
    BY <1>1, <1>3, <1>4 DEF ServeInv
  <1>9. FreshInv(x, "handler", e, r.n, a) /\ OrderInv(x, "handler")
    BY DEF FreshInv, OrderInv
  <1>10. DeliverInv(x, "handler", e, r.n)
    <2> SUFFICES ASSUME Aligned(c), Request(c).framing \in {"length", "chunked"}
                 PROVE  IF r.n > 0 THEN e = ContentUpTo(m)[Place(x) - 1]
                        ELSE /\ IsPrefix(e, Content(m))
                             /\ r.n = 0 /\ ~x.late /\ ~x.stopped => e = Content(m)
      BY <1>4 DEF DeliverInv
    <2>1. InContent(c, m) /\ Over(c) = 0
      BY <1>1 DEF Announces, Over
    <2>2. d = ContentUpTo(m)[Place(c) - 1]
      BY DEF StateInv, DeliverInv, m
    <2>3. Place(c) - 1 \in 0..Len(stream)
      <3>1. Sendable(c) \in Nat /\ Sendable(c) <= Len(stream)
        BY <1>0, SendableIs
      <3>2. Place(c) \in Nat \ {0} /\ Place(c) - 1 <= Sendable(c)
        BY <1>0, <1>1, <3>1, PlaceIs DEF Serves
      <3> QED
        BY <1>0, <3>1, <3>2
    <2>4. CASE r.n > 0
      <3>1. Joined(c, x, m, r.data)
        BY <1>3, <2>1, <2>4
      <3> QED
        BY <2>2, <2>4, <3>1 DEF Joined
    <2>5. CASE ~ (r.n > 0)
      <3>1. e = d
        BY <2>5
      <3>2. IsPrefix(d, Content(m))
        BY <1>0, <2>2, <2>3, ContentPrefix
      <3>3. ASSUME r.n = 0, ~x.late, ~x.stopped PROVE d = Content(m)
        <4>1. ContentRead(x) /\ InContent(x, m) /\ Joined(c, x, m, << >>)
          BY <1>3, <2>1, <3>3
        <4>2. ContentUpTo(m)[Place(x) - 1] = Content(m)
          BY <1>0, <1>3, <4>1, ReadAll
        <4>3. ContentUpTo(m)[Place(x) - 1] = d \o << >>
          BY <2>2, <4>1 DEF Joined
        <4>4. d \o << >> = d
          BY <1>5, NothingMore
        <4> QED
          BY <4>2, <4>3, <4>4
      <3> QED
        BY <2>5, <3>1, <3>2, <3>3
    <2> QED
      BY <2>4, <2>5
  <1>11. AnnounceInv(x, "handler", a)
    <2>1. (a = "close" => ~should_keep_alive(c))
          /\ (a = "keep-alive" /\ Request(c).framing \in {"length", "chunked"} => should_keep_alive(c))
      BY DEF StateInv, AnnounceInv
    <2>2. should_keep_alive(x) => should_keep_alive(c)
      BY <1>3, <1>4 DEF should_keep_alive, Closes
    <2>3. Request(c).framing \in {"length", "chunked"} /\ should_keep_alive(c) => should_keep_alive(x)
      BY <1>3, <1>4 DEF should_keep_alive, Closes
    <2> QED
      BY <1>4, <2>1, <2>2, <2>3 DEF AnnounceInv
  <1> QED
    BY <1>7, <1>8, <1>9, <1>10, <1>11 DEF StateInv, x

\* It answers.
LEMMA AnswersKeeps ==
    ASSUME NEW c, NEW d, NEW l, NEW a, StateInv(c, "handler", d, l, a)
    PROVE  StateInv(c, "handler", d, l, suggest_connection_header(c))
  <1> DEFINE b == suggest_connection_header(c)
  <1>2. b \in {"keep-alive", "close"} /\ (b = "keep-alive" <=> should_keep_alive(c))
    BY DEF suggest_connection_header
  <1> HIDE DEF b
  <1>3. KindInv(c, "handler", d, l, b)
    BY <1>2 DEF StateInv, KindInv
  <1>4. AnnounceInv(c, "handler", b)
    BY <1>2 DEF AnnounceInv
  <1>5. ServeInv(c, "handler", l) /\ DeliverInv(c, "handler", d, l) /\ OrderInv(c, "handler")
    BY DEF StateInv
  <1>6. FreshInv(c, "handler", d, l, b)
    BY DEF FreshInv
  <1> QED
    BY <1>3, <1>4, <1>5, <1>6 DEF StateInv, b

\* Numbers above a natural number are natural numbers.
LEMMA NatAbove == (\A n \in Nat : n >= 0) /\ (\A n \in Nat, k \in Int : k >= n => k >= 0)
  OBVIOUS

\* It is done.
LEMMA ReturnsKeeps ==
    ASSUME SetupInv, NEW c, NEW d, NEW l, NEW a, StateInv(c, "handler", d, l, a), a # "",
           NEW x \in discard_unread_request_data(c)
    PROVE  StateInv(x, "tail", d, l, a)
  <1> DEFINE m == MessageOf(c)
  <1>0. StreamOk /\ config \in Settings /\ Held(c) /\ c \in Conns /\ Len(stream) \in Nat
    BY SendableIs DEF SetupInv, StateInv, KindInv, Held
  <1>1. /\ Serves(c) /\ c.head # 0 /\ Request(c).framing # "unparsable"
        /\ (Aligned(c) /\ Announces(c) => InContent(c, m) \/ (l < 0 /\ c.misframed))
        /\ (~pipelined /\ ~SlippedAt(c) => ~At(c.head).data /\ At(c.head).m = c.handled_requests + 1)
    BY DEF StateInv, ServeInv
  <1> HIDE DEF m
  <1>2. /\ Serves(x) /\ Kept(c, x) /\ Closes(c, x) /\ x.is_chunked # 1
        /\ (Broken(x) \/ x.misframed \/ ContentRead(x))
        /\ (InContent(c, m) => InContent(x, m) \/ x.misframed)
    BY <1>0, <1>1, DiscardIs
  <1>3. /\ Held(x) /\ x.head = c.head /\ x.handled_requests = c.handled_requests
        /\ x.request_len = c.request_len /\ x.data_len = c.data_len
        /\ Request(x) = Request(c) /\ MessageOf(x) = m
        /\ (Aligned(x) <=> Aligned(c)) /\ (Announces(x) <=> Announces(c))
        /\ (SlippedAt(c) => SlippedAt(x))
    <2>1. StillHeld(c, x)
      BY <1>0, <1>2, ReadHolds
    <2> QED
      BY <2>1 DEF StillHeld, m
  <1>4. KindInv(x, "tail", d, l, a)
    BY <1>3 DEF StateInv, KindInv
  <1>5. ServeInv(x, "tail", l) /\ FreshInv(x, "tail", d, l, a) /\ DeliverInv(x, "tail", d, l)
    BY DEF ServeInv, FreshInv, DeliverInv
  <1>6. AnnounceInv(x, "tail", a)
    <2>1. (a = "close" => ~should_keep_alive(c))
          /\ (a = "keep-alive" /\ Request(c).framing \in {"length", "chunked"} => should_keep_alive(c))
      BY DEF StateInv, AnnounceInv
    <2>2. should_keep_alive(x) => should_keep_alive(c)
      BY <1>2, <1>3 DEF should_keep_alive, Closes
    <2>3. Request(c).framing \in {"length", "chunked"} /\ should_keep_alive(c) => should_keep_alive(x)
      BY <1>2, <1>3 DEF should_keep_alive, Closes
    <2>4. Request(c).framing = "length" => x.content_len >= 0
      <3>1. Request(x).framing = "length" => x.content_len \in Nat
        BY <1>2 DEF Serves, FramingOk
      <3>2. \A n \in Nat : n >= 0
        BY NatAbove
      <3>3. Request(x) = Request(c)
        BY <1>3
      <3> QED
        BY <3>1, <3>2, <3>3
    <2>5. Request(c).framing = "chunked" => x.content_len >= 0
      <3>1. Request(c).framing = "chunked" => Chunky(x)
        BY <1>2, <1>3 DEF Serves, FramingOk
      <3>2. x.consumed_content \in Nat /\ x.content_len \in Int
        BY <1>2 DEF Serves, Conns
      <3> QED
        <4>1. Request(c).framing = "chunked" => x.content_len >= x.consumed_content
          BY <1>2, <3>1 DEF Chunky
        <4>2. \A n \in Nat, k \in Int : k >= n => k >= 0
          BY NatAbove
        <4> QED
          BY <3>2, <4>1, <4>2
    <2> QED
      BY <1>3, <2>1, <2>2, <2>3, <2>4, <2>5 DEF AnnounceInv
  <1>7. ASSUME ~pipelined, ~SlippedAt(x), ~x.broken, ~x.stopped, should_keep_alive(x), x.content_len >= 0
        PROVE  UpTo(x.received, x.handled_requests + 1)
    <2>1. ~SlippedAt(c) /\ ~x.misframed /\ ~x.overlooked /\ ~x.misaligned /\ ~x.late
      BY <1>3, <1>7 DEF SlippedAt
    <2>2. ContentRead(x)
      BY <1>2, <1>7, <2>1 DEF Broken
    <2>3. ~At(c.head).data /\ At(c.head).m = c.handled_requests + 1
      BY <1>1, <1>7, <2>1
    <2>4. Aligned(x) /\ m = x.handled_requests + 1
      BY <1>3, <2>1, <2>3 DEF Aligned, MessageOf, m
    <2>5. x.head \in 0..Len(stream) /\ Request(x).framing # "unparsable"
      BY <1>1, <1>3 DEF Held
    <2>6. Announces(x)
      BY <1>0, <1>2, <1>7, <2>1, <2>5, KeptIsRead
    <2>7. InContent(c, m) \/ c.misframed
      BY <1>1, <1>3, <2>4, <2>6
    <2>8. ~c.misframed
      BY <2>1 DEF SlippedAt
    <2>9. InContent(x, m)
      BY <1>2, <2>1, <2>7, <2>8
    <2> QED
      BY <1>0, <1>2, <1>7, <2>2, <2>4, <2>9, ReadUpTo
  <1>8. OrderInv(x, "tail")
    BY <1>7 DEF OrderInv
  <1> QED
    BY <1>4, <1>5, <1>6, <1>8 DEF StateInv

\* A request is answered with an error, or redirected.
LEMMA ClosedKeeps ==
    ASSUME NEW c, NEW p, NEW d, NEW l, NEW a, StateInv(c, p, d, l, a), p \in {"dispatch", "handler"},
           NEW x \in {c, Closed(c)}
    PROVE  StateInv(Closed(x), "tail", d, l, "close")
  <1>0. Held(c) /\ c \in Conns /\ d \in Seq(1..Len(stream)) /\ l \in Int /\ c.request_len \in -2..c.data_len
    BY DEF StateInv, KindInv, Held
  <1>1. x = c \/ Marked(c, x)
    BY <1>0, ClosedIs
  <1>2. Held(x) /\ x.request_len \in -2..x.data_len
    <2>1. CASE x = c
      BY <1>0, <2>1
    <2>2. CASE Marked(c, x)
      <3>1. MarkedKeeps(c, x) /\ x.request_len = c.request_len /\ x.data_len = c.data_len
        BY <2>2, MarkedIs DEF Marked
      <3> QED
        BY <1>0, <3>1 DEF MarkedKeeps
    <2> QED
      BY <1>1, <2>1, <2>2
  <1> QED
    BY <1>0, <1>2, TailClosed

\* A part of a sequence.
LEMMA SubSeqIs ==
    ASSUME NEW T, NEW s \in Seq(T), NEW i \in 1..Len(s) + 1, NEW j \in i - 1..Len(s)
    PROVE  SubSeq(s, i, j) \in Seq(T) /\ Len(SubSeq(s, i, j)) = j - i + 1
  <1>1. Len(s) \in Nat /\ i \in Nat /\ i >= 1 /\ j \in Nat /\ i <= j + 1 /\ j <= Len(s)
    OBVIOUS
  <1>2. \A k \in i..j : s[k] \in T
    BY <1>1
  <1>3. Len(SubSeq(s, i, j)) = j - i + 1
    BY <1>1
  <1>4. SubSeq(s, i, j) \in Seq(T)
    BY <1>1, <1>2
  <1> QED
    BY <1>3, <1>4

\* The buffer once n of its k tokens are gone.
LEMMA Moved ==
    ASSUME NEW N \in Nat, BufSize \in Nat, NEW buf \in [1..BufSize -> 0..N], NEW k \in 0..BufSize, NEW n \in 0..k
    PROVE  SubSeq(buf, n + 1, k) \o SubSeq(buf, k - n + 1, BufSize) \in [1..BufSize -> 0..N]
  <1> DEFINE a == SubSeq(buf, n + 1, k)
             b == SubSeq(buf, k - n + 1, BufSize)
  <1>1. buf \in Seq(0..N) /\ Len(buf) = BufSize
    BY FunctionIsSeq
  <1>2. a \in Seq(0..N) /\ Len(a) = k - n
    <2>1. n + 1 \in 1..BufSize + 1 /\ k \in (n + 1) - 1..BufSize /\ k - (n + 1) + 1 = k - n
      OBVIOUS
    <2> QED
      BY <1>1, <2>1, SubSeqIs
  <1>3. b \in Seq(0..N) /\ Len(b) = BufSize - (k - n)
    <2>1. k - n + 1 \in 1..BufSize + 1 /\ BufSize \in (k - n + 1) - 1..BufSize
          /\ BufSize - (k - n + 1) + 1 = BufSize - (k - n)
      OBVIOUS
    <2> QED
      BY <1>1, <2>1, SubSeqIs
  <1>4. (k - n) + (BufSize - (k - n)) = BufSize
    OBVIOUS
  <1> HIDE DEF a, b
  <1>5. a \o b \in Seq(0..N) /\ Len(a \o b) = Len(a) + Len(b)
    BY <1>2, <1>3, Concat2
  <1>6. Len(a \o b) = BufSize
    BY <1>2, <1>3, <1>4, <1>5
  <1> DEFINE s == a \o b
  <1>7. s \in Seq(0..N) /\ Len(s) = BufSize
    BY <1>5, <1>6
  <1> HIDE DEF s
  <1>8. s \in [1..BufSize -> 0..N]
    BY <1>7
  <1> QED
    BY <1>8 DEF s, a, b

\* The end of the loop.
NextConn(c, n) ==
    [c EXCEPT !.data_len = @ - n, !.handled_requests = @ + 1,
              !.buf = SubSeq(@, n + 1, c.data_len) \o SubSeq(@, c.data_len - n + 1, BufSize)]

\* What is discarded was in the buffer.
LEMMA DiscardLengthIs ==
    ASSUME NEW c \in Conns, c.request_len \in -2..c.data_len, NEW n \in DiscardLength(c)
    PROVE  n \in 0..c.data_len
  <1>1. PICK R \in Int, D \in Nat, C \in Int : R = c.request_len /\ D = c.data_len /\ C = c.content_len /\ R <= D
    BY DEF Conns
  <1>2. CASE C < 0 \/ R <= 0
    BY <1>1, <1>2 DEF DiscardLength
  <1>3. CASE ~ (C < 0 \/ R <= 0)
    <2>1. n \in {R - 1, D, Smaller(R + C, D)}
      BY <1>1, <1>3 DEF DiscardLength
    <2>2. R - 1 \in 0..D /\ Smaller(R + C, D) \in 0..D
      BY <1>1, <1>3 DEF Smaller
    <2> QED
      BY <1>1, <2>1, <2>2
  <1> QED
    BY <1>2, <1>3

\* The next request of a connection that stays open, and the end of one that does not.
LEMMA NextKeeps ==
    ASSUME SetupInv, BufSize \in Nat, NEW c, NEW d, NEW l, NEW a, StateInv(c, "tail", d, l, a),
           NEW n \in DiscardLength(c), NEW p,
           p = IF ~c.stopped /\ should_keep_alive(c) /\ c.content_len >= 0 THEN "ready" ELSE "closed"
    PROVE  StateInv(NextConn(c, n), p, d, l, a)
  <1> DEFINE x == NextConn(c, n)
             buf == SubSeq(c.buf, n + 1, c.data_len) \o SubSeq(c.buf, c.data_len - n + 1, BufSize)
             h == c.handled_requests
  <1>0. StreamOk /\ Held(c) /\ c \in Conns /\ c.request_len \in -2..c.data_len /\ Len(stream) \in Nat
    BY SendableIs DEF SetupInv, StateInv, KindInv, Held
  <1>1. n \in 0..c.data_len
    BY <1>0, DiscardLengthIs
  <1>2. c.data_len \in 0..BufSize /\ c.data_len - n \in 0..BufSize /\ h \in Nat /\ h + 1 \in Nat
    <2>1. c.data_len \in 0..BufSize /\ h \in Nat
      BY <1>0 DEF Conns
    <2>2. PICK D \in 0..BufSize : D = c.data_len
      BY <2>1
    <2>3. n \in 0..D /\ D - n \in 0..BufSize
      BY <1>1, <2>2
    <2> QED
      BY <2>1, <2>2, <2>3
  <1>3. c.buf \in [1..BufSize -> 0..Len(stream)]
    BY <1>0 DEF Held, Conns
  <1>4. buf \in [1..BufSize -> 0..Len(stream)]
    BY <1>0, <1>1, <1>2, <1>3, Moved
  <1>5. x = [c EXCEPT !.data_len = c.data_len - n, !.handled_requests = h + 1, !.buf = buf]
    BY <1>0 DEF NextConn, Conns
  <1> HIDE DEF buf, x
  <1>6. buf \in [1..BufSize -> Nat] /\ \A i \in 1..BufSize : buf[i] <= Len(stream)
    BY <1>0, <1>4
  <1>7. x \in Conns
    BY <1>0, <1>2, <1>5, <1>6 DEF Conns
  <1>8. x.buf = buf /\ x.received = c.received /\ x.head = c.head /\ x.handled_requests = h + 1
    BY <1>0, <1>5 DEF Conns
  <1>9. /\ (x.broken <=> c.broken) /\ (x.stopped <=> c.stopped) /\ (x.late <=> c.late)
        /\ (x.misframed <=> c.misframed) /\ (x.unread <=> c.unread)
        /\ (x.misaligned <=> c.misaligned) /\ (x.overlooked <=> c.overlooked)
    BY <1>0, <1>5 DEF Conns
  <1>10. Held(x)
    <2>1. c.received \in Nat /\ c.received <= Sendable(c) /\ c.head \in 0..Len(stream)
      BY <1>0 DEF Held, Conns
    <2>2. Sendable(c) <= Sendable(x) /\ Sendable(c) \in Nat /\ Sendable(x) \in Nat
      <3>1. Sendable(c) \in Nat /\ Sendable(x) \in Nat
        BY <1>0, SendableIs
      <3>2. CASE pipelined
        BY <1>0, <3>2 DEF Sendable
      <3>3. CASE ~pipelined
        <4>1. Sendable(c) = Sent(h + 1) /\ Sendable(x) = Sent(h + 1 + 1)
          BY <1>8, <3>3 DEF Sendable
        <4>2. h + 1 \in Nat /\ h + 1 + 1 \in Nat /\ h + 1 <= h + 1 + 1
          BY <1>2
        <4>3. Sent(h + 1) <= Sent(h + 1 + 1)
          BY <1>0, <4>2, SentGrows
        <4> QED
          BY <3>1, <4>1, <4>3
      <3> QED
        BY <3>1, <3>2, <3>3
    <2>3. x.received <= Sendable(x)
      BY <1>8, <2>1, <2>2
    <2> QED
      BY <1>6, <1>7, <1>8, <2>1, <2>3 DEF Held
  <1>11. p \in {"ready", "closed"} /\ (p = "ready" => ~c.stopped /\ should_keep_alive(c) /\ c.content_len >= 0)
    OBVIOUS
  <1>12. KindInv(x, p, d, l, a)
    BY <1>10, <1>11 DEF StateInv, KindInv
  <1>13. ServeInv(x, p, l) /\ FreshInv(x, p, d, l, a) /\ DeliverInv(x, p, d, l) /\ AnnounceInv(x, p, a)
    BY <1>11 DEF ServeInv, FreshInv, DeliverInv, AnnounceInv
  <1>14. OrderInv(x, p)
    <2> SUFFICES ASSUME ~pipelined, ~SlippedAt(x), ~x.broken, ~x.stopped, p = "ready"
                 PROVE  UpTo(x.received, x.handled_requests)
      BY <1>11 DEF OrderInv
    <2>1. ~SlippedAt(c) /\ ~c.broken /\ ~c.stopped
      BY <1>9 DEF SlippedAt
    <2>2. UpTo(c.received, h + 1)
      BY <1>11, <2>1 DEF StateInv, OrderInv
    <2> QED
      BY <1>8, <2>2
  <1> QED
    BY <1>12, <1>13, <1>14 DEF StateInv, x

\* mg_stop.
StoppedConn(c) == [c EXCEPT !.stopped = TRUE]

\* mg_stop changes nothing that the invariant is about.
LEMMA StopKeeps ==
    ASSUME NEW c, NEW p, NEW d, NEW l, NEW a, StateInv(c, p, d, l, a)
    PROVE  StateInv(StoppedConn(c), p, d, l, a)
  <1> DEFINE x == StoppedConn(c)
  <1>0. c \in Conns /\ Held(c)
    BY DEF StateInv, KindInv, Held
  <1>a. x = [c EXCEPT !.stopped = TRUE]
    BY DEF StoppedConn
  <1> HIDE DEF x
  <1>b. x \in Conns
    BY <1>0, <1>a DEF Conns
  <1>c. /\ x.request_len = c.request_len /\ x.data_len = c.data_len /\ x.buf = c.buf
        /\ x.handled_requests = c.handled_requests /\ x.head = c.head
        /\ x.consumed_content = c.consumed_content /\ x.content_len = c.content_len
        /\ x.is_chunked = c.is_chunked /\ x.chunk_remainder = c.chunk_remainder
        /\ x.received = c.received
    BY <1>0, <1>a DEF Conns
  <1>d. /\ (x.must_close <=> c.must_close) /\ (x.unread <=> c.unread) /\ x.stopped
        /\ (x.late <=> c.late) /\ (x.broken <=> c.broken) /\ (x.misframed <=> c.misframed)
        /\ (x.misaligned <=> c.misaligned) /\ (x.overlooked <=> c.overlooked)
    BY <1>0, <1>a DEF Conns
  <1>1. Marked(c, x)
    BY <1>b, <1>c, <1>d DEF Marked
  <1>2. MarkedKeeps(c, x)
    BY <1>1, MarkedIs
  <1>4. /\ Request(x) = Request(c) /\ Place(x) = Place(c) /\ MessageOf(x) = MessageOf(c)
        /\ (Aligned(x) <=> Aligned(c)) /\ (Announces(x) <=> Announces(c))
        /\ (InContent(x, MessageOf(c)) <=> InContent(c, MessageOf(c)))
        /\ (SlippedAt(c) => SlippedAt(x)) /\ Held(x) /\ (Serves(c) => Serves(x))
    BY <1>0, <1>2 DEF MarkedKeeps
  <1>5. should_keep_alive(x) <=> should_keep_alive(c)
    BY <1>4, <1>d DEF should_keep_alive
  <1>6. KindInv(x, p, d, l, a)
    BY <1>4, <1>c DEF StateInv, KindInv
  <1>7. ServeInv(x, p, l)
    BY <1>4, <1>c, <1>d DEF StateInv, ServeInv
  <1>8. FreshInv(x, p, d, l, a)
    BY <1>4, <1>c DEF StateInv, FreshInv
  <1>9. DeliverInv(x, p, d, l)
    BY <1>4, <1>c, <1>d DEF StateInv, DeliverInv
  <1>10. AnnounceInv(x, p, a)
    BY <1>4, <1>5, <1>c, <1>d DEF StateInv, AnnounceInv
  <1>11. OrderInv(x, p)
    BY <1>d DEF OrderInv
  <1> QED
    BY <1>6, <1>7, <1>8, <1>9, <1>10, <1>11 DEF StateInv, x

-----------------------------------------------------------------------------
(* What is said of the stream and the options says the same one step later. *)

\* The stream does not change, nor what a message sends.
LEMMA LaterStream ==
    ASSUME UNCHANGED setup, NEW CONSTANT m, NEW CONSTANT p, NEW CONSTANT n
    PROVE  /\ (At(p))' = At(p) /\ (Sent(m))' = Sent(m)
           /\ (ContentUpTo(m))' = ContentUpTo(m) /\ (Content(m))' = Content(m)
           /\ (SizeAt(m, p))' <=> SizeAt(m, p)
           /\ (LineEndAt(m, p))' <=> LineEndAt(m, p)
           /\ (UpTo(p, m))' <=> UpTo(p, m)
           /\ (PlainOf(m, p, n))' <=> PlainOf(m, p, n)
  <1>1. stream' = stream
    BY DEF setup
  <1>2. (At(p))' = At(p)
    BY <1>1 DEF At, Junk, Token
  <1>3. (Sent(m))' = Sent(m)
    BY <1>1 DEF Sent
  <1>4. (ContentUpTo(m))' = ContentUpTo(m)
    BY <1>1 DEF ContentUpTo
  <1>5. (Content(m))' = Content(m)
    BY <1>1, <1>4 DEF Content
  <1>6. (SizeAt(m, p))' <=> SizeAt(m, p)
    BY <1>1 DEF SizeAt
  <1>7. (LineEndAt(m, p))' <=> LineEndAt(m, p)
    BY <1>1 DEF LineEndAt
  <1>8. (UpTo(p, m))' <=> UpTo(p, m)
    BY <1>1, <1>3 DEF UpTo
  <1>9. (PlainOf(m, p, n))' <=> PlainOf(m, p, n)
    BY <1>1, <1>3 DEF PlainOf
  <1> QED
    BY <1>2, <1>3, <1>4, <1>5, <1>6, <1>7, <1>8, <1>9

\* Nor whether its chunks are well formed.
LEMMA LaterChunks ==
    ASSUME UNCHANGED setup, NEW CONSTANT m, NEW CONSTANT over
    PROVE  (ChunksOf(m, over))' <=> ChunksOf(m, over)
  <1>1. stream' = stream
    BY DEF setup
  <1>2. \A p : ((SizeAt(m, p))' <=> SizeAt(m, p)) /\ ((LineEndAt(m, p))' <=> LineEndAt(m, p))
    BY LaterStream
  <1>3. (Sent(m))' = Sent(m)
    BY LaterStream
  <1> QED
    BY <1>1, <1>2, <1>3 DEF ChunksOf

\* Nor what a connection says of its request.
LEMMA LaterRequest ==
    ASSUME UNCHANGED setup, NEW CONSTANT c
    PROVE  /\ (Request(c))' = Request(c) /\ (Over(c))' = Over(c) /\ (Place(c))' = Place(c)
           /\ (MessageOf(c))' = MessageOf(c)
           /\ (Aligned(c))' <=> Aligned(c)
           /\ (Announces(c))' <=> Announces(c)
           /\ (SlippedAt(c))' <=> SlippedAt(c)
           /\ (should_keep_alive(c))' <=> should_keep_alive(c)
           /\ \A u : (LocalUri(u))' = LocalUri(u)
  <1>1. stream' = stream /\ config' = config
    BY DEF setup
  <1>2. (At(c.head))' = At(c.head)
    BY <1>1 DEF At, Junk, Token
  <1>3. (Sender(c))' = Sender(c)
    BY <1>1 DEF Sender, At, Embedded, Uri, NoPort, Junk, Token
  <1>4. (Overlooked(c))' <=> Overlooked(c)
    BY <1>3 DEF Overlooked
  <1>5. (Request(c))' = Request(c)
    BY <1>3, <1>4 DEF Request
  <1>6. (Over(c))' = Over(c)
    BY <1>5 DEF Over
  <1>7. (Place(c))' = Place(c)
    BY DEF Place
  <1>8. (MessageOf(c))' = MessageOf(c) /\ ((Aligned(c))' <=> Aligned(c))
    BY <1>2 DEF MessageOf, Aligned
  <1>9. (Announces(c))' <=> Announces(c)
    BY <1>5 DEF Announces, HasBody
  <1>10. (SlippedAt(c))' <=> SlippedAt(c)
    BY DEF SlippedAt
  <1>11. (should_keep_alive(c))' <=> should_keep_alive(c)
    BY <1>1, <1>5 DEF should_keep_alive
  <1>12. ASSUME NEW u PROVE (LocalUri(u))' = LocalUri(u)
    BY <1>1 DEF LocalUri, get_uri_type, get_rel_url_at_current_server, abs_uri_protocols, NoPort, ValidPorts
  <1> QED
    BY <1>5, <1>6, <1>7, <1>8, <1>9, <1>10, <1>11, <1>12

\* Nor where the content of a request is.
LEMMA LaterContent ==
    ASSUME UNCHANGED setup, NEW CONSTANT c, NEW CONSTANT m
    PROVE  (InContent(c, m))' <=> InContent(c, m)
  <1>1. stream' = stream
    BY DEF setup
  <1>2. \A p : ((SizeAt(m, p))' <=> SizeAt(m, p)) /\ ((LineEndAt(m, p))' <=> LineEndAt(m, p))
    BY LaterStream
  <1>3. (Over(c))' = Over(c) /\ (Place(c))' = Place(c)
    BY LaterRequest
  <1>4. \A p, n : (PlainOf(m, p, n))' <=> PlainOf(m, p, n)
    BY LaterStream
  <1>5. \A k : (ChunksOf(m, k))' <=> ChunksOf(m, k)
    BY LaterChunks
  <1>6. \A k : (InChunk(c, m, k))' <=> InChunk(c, m, k)
    BY <1>1, <1>2, <1>3 DEF InChunk
  <1> QED
    BY <1>3, <1>4, <1>5, <1>6 DEF InContent

\* Nor whether a connection serves it.
LEMMA LaterServes ==
    ASSUME UNCHANGED setup, NEW CONSTANT c
    PROVE  /\ (Held(c))' <=> Held(c)
           /\ (Serves(c))' <=> Serves(c)
  <1>1. stream' = stream /\ pipelined' = pipelined
    BY DEF setup
  <1>2. (Sendable(c))' = Sendable(c)
    <2>1. \A m : (Sent(m))' = Sent(m)
      BY LaterStream
    <2> QED
      BY <1>1, <2>1 DEF Sendable
  <1>3. (Held(c))' <=> Held(c)
    BY <1>1, <1>2 DEF Held, Conns
  <1>4. (Loaded(c))' <=> Loaded(c)
    BY <1>2 DEF Loaded, Place
  <1>5. (Request(c))' = Request(c)
    BY LaterRequest
  <1>6. (FramingOk(c))' <=> FramingOk(c)
    BY <1>5 DEF FramingOk, HasBody
  <1>7. (Chunky(c))' <=> Chunky(c)
    BY DEF Chunky
  <1>8. (Serves(c))' <=> Serves(c)
    BY <1>4, <1>6, <1>7 DEF Serves, Conns
  <1> QED
    BY <1>3, <1>8

\* So what holds of a state may be said before or after the step.
LEMMA LaterInv ==
    ASSUME UNCHANGED setup, NEW CONSTANT c, NEW CONSTANT p, NEW CONSTANT d, NEW CONSTANT l, NEW CONSTANT a,
           StateInv(c, p, d, l, a)
    PROVE  (StateInv(c, p, d, l, a))'
  <1>1. stream' = stream /\ pipelined' = pipelined /\ config' = config
    BY DEF setup
  <1>2. /\ (Request(c))' = Request(c) /\ (Place(c))' = Place(c) /\ (MessageOf(c))' = MessageOf(c)
        /\ ((Aligned(c))' <=> Aligned(c)) /\ ((Announces(c))' <=> Announces(c))
        /\ ((SlippedAt(c))' <=> SlippedAt(c)) /\ ((should_keep_alive(c))' <=> should_keep_alive(c))
        /\ \A u : (LocalUri(u))' = LocalUri(u)
    BY LaterRequest
  <1>3. \A m : (ContentUpTo(m))' = ContentUpTo(m) /\ (Content(m))' = Content(m)
    BY LaterStream
  <1>4. \A i : (At(i))' = At(i)
    BY LaterStream
  <1>5. (KindInv(c, p, d, l, a))'
    <2>1. (Held(c))' <=> Held(c)
      BY LaterServes
    <2> QED
      BY <1>1, <2>1 DEF StateInv, KindInv
  <1>6. (ServeInv(c, p, l))'
    <2>1. (Serves(c))' <=> Serves(c)
      BY LaterServes
    <2>2. \A m : (InContent(c, m))' <=> InContent(c, m)
      BY LaterContent
    <2> QED
      BY <1>1, <1>2, <1>4, <2>1, <2>2 DEF StateInv, ServeInv
  <1>7. (FreshInv(c, p, d, l, a))'
    BY <1>1, <1>2, <1>3 DEF StateInv, FreshInv
  <1>8. (DeliverInv(c, p, d, l))'
    BY <1>1, <1>2, <1>3 DEF StateInv, DeliverInv
  <1>9. (AnnounceInv(c, p, a))'
    BY <1>1, <1>2 DEF StateInv, AnnounceInv
  <1>10. (OrderInv(c, p))'
    <2>1. \A r, h : (UpTo(r, h))' <=> UpTo(r, h)
      BY LaterStream
    <2> QED
      BY <1>1, <1>2, <2>1 DEF StateInv, OrderInv
  <1> QED
    BY <1>5, <1>6, <1>7, <1>8, <1>9, <1>10 DEF StateInv

\* And so may what does not change.
LEMMA LaterSetup ==
    ASSUME UNCHANGED setup, SetupInv
    PROVE  SetupInv'
  <1>1. stream' = stream /\ config' = config /\ faults' = faults
    BY DEF setup
  <1> QED
    BY <1>1 DEF SetupInv, StreamOk, Script

\* The inductive invariant.
IInv == SetupInv /\ StateInv(conn, pc, delivered, last_read, announced)

\* A step keeps it when the new state is such a state.
LEMMA LaterIInv ==
    ASSUME SetupInv, UNCHANGED setup, StateInv(conn', pc', delivered', last_read', announced')
    PROVE  IInv'
  <1>1. SetupInv'
    BY LaterSetup
  <1>2. (StateInv(conn, pc, delivered, last_read, announced))'
    BY LaterInv
  <1> QED
    BY <1>1, <1>2 DEF IInv

-----------------------------------------------------------------------------
(* The invariant is one.                                                   *)

\* What does not change is right at the start.
LEMMA StartIs ==
    ASSUME ConnectionAssumption, Init
    PROVE  SetupInv
  <1>1. PICK k \in Cases : stream = Stream(k.script) /\ config = k.config /\ faults = k.faults
    BY DEF Init
  <1>2. /\ k.script \in Seq(Messages) /\ k.config \in Settings /\ k.faults \subseteq Faults
    BY <1>1 DEF ConnectionAssumption
  <1>3. \A m \in 1..Len(k.script) : Sane(k.script[m])
    <2> TAKE m \in 1..Len(k.script)
    <2> DEFINE s == k.script
    <2>1. /\ \A i \in 1..Len(s[m].content) : ChunkSize(s[m], i) > 0
          /\ s[m].framing = "none" /\ s[m].method \notin HasBody => s[m].content = << >>
      BY <1>1 DEF ConnectionAssumption
    <2>2. s[m] \in Messages
      BY <1>2
    <2> HIDE DEF s
    <2> QED
      BY <2>1, <2>2 DEF Sane, s
  <1>4. Script(k.script)
    BY <1>1, <1>2, <1>3 DEF Script
  <1>5. stream \in Seq(Tokens)
    BY <1>4, StreamIs
  <1> QED
    BY <1>1, <1>2, <1>4, <1>5 DEF SetupInv, StreamOk

\* A connection that has just been accepted.
LEMMA FirstConnection ==
    ASSUME BufSize \in Nat, config \in Settings
    PROVE  /\ init_connection \in Conns /\ init_connection.received = 0 /\ init_connection.head = 0
           /\ init_connection.handled_requests = 0
           /\ init_connection.buf = [i \in 1..BufSize |-> 0]
  <1> DEFINE b == ~config.keep_alive
             x == init_connection
             f == [i \in 1..BufSize |-> 0]
  <1>1. b \in BOOLEAN
    OBVIOUS
  <1>2. f \in [1..BufSize -> Nat] /\ 0 \in 0..BufSize /\ 0 \in 0..3 /\ -1 \in Int /\ FALSE \in BOOLEAN
    OBVIOUS
  <1>3. x = [NewConnection EXCEPT !.must_close = b]
    BY DEF init_connection
  <1> HIDE DEF b, x
  <1>4. NewConnection \in Conns
    BY <1>2 DEF NewConnection, Conns
  <1>5. x \in Conns
    BY <1>1, <1>3, <1>4 DEF Conns
  <1>6. x.received = 0 /\ x.head = 0 /\ x.handled_requests = 0 /\ x.buf = f
    BY <1>3 DEF NewConnection
  <1> QED
    BY <1>5, <1>6 DEF x

\* The invariant holds at the start.
LEMMA InitIInv ==
    ASSUME ConnectionAssumption, Init
    PROVE  IInv
  <1>1. SetupInv
    BY StartIs
  <1>2. BufSize \in Nat /\ config \in Settings /\ StreamOk
    BY <1>1 DEF ConnectionAssumption, SetupInv
  <1> DEFINE c == init_connection
  <1>3. /\ c \in Conns /\ c.received = 0 /\ c.head = 0 /\ c.handled_requests = 0
        /\ c.buf = [i \in 1..BufSize |-> 0]
    BY <1>2, FirstConnection
  <1>4. conn = c /\ pc = "ready" /\ delivered = << >> /\ last_read = 1 /\ announced = ""
    BY DEF Init
  <1> HIDE DEF c
  <1>5. Held(c)
    <2>1. Sendable(c) \in Nat /\ Len(stream) \in Nat
      BY <1>2, SendableIs
    <2>2. \A i \in 1..BufSize : c.buf[i] = 0
      BY <1>3
    <2> QED
      BY <1>3, <2>1, <2>2 DEF Held
  <1>6. KindInv(c, "ready", << >>, 1, "")
    <2>1. << >> \in Seq(1..Len(stream))
      BY EmptySeqIs
    <2> QED
      BY <1>5, <2>1 DEF KindInv
  <1>7. ServeInv(c, "ready", 1) /\ FreshInv(c, "ready", << >>, 1, "") /\ DeliverInv(c, "ready", << >>, 1)
        /\ AnnounceInv(c, "ready", "")
    BY DEF ServeInv, FreshInv, DeliverInv, AnnounceInv
  <1>8. OrderInv(c, "ready")
    <2>1. PICK script : Script(script)
      BY <1>1 DEF SetupInv
    <2>2. Len(script) \in Nat /\ Len(stream) \in Nat
      BY <1>2, <2>1, StreamIs, SentIs
    <2>3. PICK off : Messaged(script, off)
      BY <2>1, StreamIs
    <2>4. off[1] = 0
      BY <2>3 DEF Messaged
    <2>5. Sent(0) = off[0 + 1]
      <3>1. 0 \in Nat /\ 0 <= Len(script)
        BY <2>2
      <3>2. Sent(0) = IF 0 <= Len(script) THEN off[0 + 1] ELSE Len(stream)
        BY <2>2, <2>3, <3>1, SentTo
      <3> QED
        BY <3>1, <3>2
    <2>6. Sent(0) = 0
      BY <2>4, <2>5
    <2> QED
      BY <1>3, <2>6 DEF OrderInv, UpTo
  <1> QED
    BY <1>1, <1>4, <1>6, <1>7, <1>8 DEF IInv, StateInv

\* The state of the invariant, one step on.
Later == StateInv(conn', pc', delivered', last_read', announced')

\* One lemma per action: a request is received, or the connection is to be closed.
LEMMA GetRequestStep ==
    ASSUME ConnectionAssumption, IInv, GetRequest
    PROVE  Later
  <1>1. SetupInv /\ BufSize \in Nat \ {0} /\ StateInv(conn, "ready", delivered, last_read, announced)
    BY DEF IInv, GetRequest, ConnectionAssumption
  <1>2. PICK g \in get_request(conn) :
           \/ ~Accepted(g) /\ Rejected(g) /\ pc' = "tail"
           \/ Accepted(g) /\ conn' = g.c /\ pc' = "dispatch" /\ announced' = ""
    BY DEF GetRequest
  <1>3. delivered' = << >> /\ last_read' = 1
    BY DEF GetRequest
  <1>4. CASE Rejected(g) /\ pc' = "tail"
    <2>1. Rejects(g, conn', announced')
      BY <1>4 DEF Rejects, Rejected, mg_send_http_error, Closed
    <2>2. StateInv(conn', "tail", << >>, 1, announced')
      BY <1>1, <1>2, <2>1, RejectedKeeps
    <2> QED
      BY <1>3, <1>4, <2>2 DEF Later
  <1>5. CASE Accepted(g) /\ conn' = g.c /\ pc' = "dispatch" /\ announced' = ""
    <2>1. StateInv(g.c, "dispatch", << >>, 1, "")
      BY <1>1, <1>2, <1>5, AcceptedKeeps DEF Accepted
    <2> QED
      BY <1>3, <1>5, <2>1 DEF Later
  <1> QED
    BY <1>2, <1>4, <1>5

\* An error, or a redirection, and the connection is closed.
LEMMA ErrorStep ==
    ASSUME IInv, pc \in {"dispatch", "handler"}, NEW x \in {conn, Closed(conn)},
           conn' = Closed(x), announced' = "close", pc' = "tail",
           UNCHANGED <<delivered, last_read>>
    PROVE  Later
  <1>1. SetupInv /\ StateInv(conn, pc, delivered, last_read, announced)
    BY DEF IInv
  <1>2. StateInv(Closed(x), "tail", delivered, last_read, "close")
    BY <1>1, ClosedKeeps
  <1> QED
    BY <1>2 DEF Later

\* A redirection to https is answered.
LEMMA RedirectStep ==
    ASSUME IInv, RedirectToHttps
    PROVE  Later
  <1>1. /\ pc = "dispatch" /\ pc' = "tail" /\ UNCHANGED <<delivered, last_read>>
        /\ IF config.https THEN redirect_to_https_port ELSE mg_send_http_error(conn)
    BY DEF RedirectToHttps
  <1>2. conn \in Conns
    BY DEF IInv, StateInv, KindInv, Held
  <1>3. Closed(conn).must_close /\ Closed(Closed(conn)) = Closed(conn)
    <2>1. Closed(conn).must_close
      BY <1>2, ClosedIs
    <2>2. Closed(Closed(conn)) = Closed(conn)
      BY <1>2 DEF Closed, Conns
    <2> QED
      BY <2>1, <2>2
  <1>4. CASE mg_send_http_error(conn)
    <2>1. conn' = Closed(conn) /\ announced' = "close"
      BY <1>4 DEF mg_send_http_error, Closed
    <2> QED
      BY <1>1, <2>1, ErrorStep
  <1>5. CASE mg_send_http_error(Closed(conn))
    <2>1. conn' = Closed(Closed(conn)) /\ announced' = "close"
      BY <1>5 DEF mg_send_http_error, Closed
    <2> QED
      BY <1>1, <2>1, ErrorStep
  <1>6. CASE mg_send_http_redirect(Closed(conn))
    <2>1. conn' = Closed(conn) /\ announced' = suggest_connection_header(Closed(conn))
         
      BY <1>6 DEF mg_send_http_redirect, Say
    <2>2. announced' = "close"
      BY <1>3, <2>1 DEF suggest_connection_header, should_keep_alive
    <2> QED
      BY <1>1, <1>3, <2>1, <2>2, ErrorStep
  <1> QED
    BY <1>1, <1>4, <1>5, <1>6 DEF redirect_to_https_port, Closed

\* A preflight is answered, a request is refused: neither reads a content.
LEMMA LeavingStep ==
    ASSUME IInv, AnswerPreflight \/ Refuse
    PROVE  Later
  <1>1. /\ pc = "dispatch" /\ pc' = "tail" /\ UNCHANGED <<delivered, last_read>>
        /\ conn' = LeavingContent(conn)
        /\ announced' = suggest_connection_header(conn)
       
    BY DEF AnswerPreflight, Refuse, Dispatched, Finish, Say
  <1>2. SetupInv /\ StateInv(conn, "dispatch", delivered, last_read, announced)
    BY <1>1 DEF IInv
  <1>3. StateInv(LeavingContent(conn), "tail", delivered, last_read, announced')
    BY <1>1, <1>2, LeftKeeps
  <1> QED
    BY <1>1, <1>3 DEF Later

\* An error is answered.
LEMMA FailingStep ==
    ASSUME IInv, NotFound \/ HandlerDeclines
    PROVE  Later
  <1>1. CASE NotFound
    <2>1. /\ pc = "dispatch" /\ pc' = "tail" /\ UNCHANGED <<delivered, last_read>>
          /\ conn' = Closed(conn) /\ announced' = "close"
      BY <1>1 DEF NotFound, Dispatched, mg_send_http_error, Closed
    <2> QED
      BY <2>1, ErrorStep
  <1>2. CASE HandlerDeclines
    <2>1. /\ pc = "handler" /\ pc' = "tail" /\ UNCHANGED <<delivered, last_read>>
          /\ conn' = Closed(conn) /\ announced' = "close"
      BY <1>2 DEF HandlerDeclines, mg_send_http_error, Closed
    <2> QED
      BY <2>1, ErrorStep
  <1> QED
    BY <1>1, <1>2

\* The handler is called.
LEMMA CallStep ==
    ASSUME IInv, CallHandler
    PROVE  Later
  <1>1. /\ pc = "dispatch" /\ pc' = "handler" /\ UNCHANGED <<conn, delivered, last_read, announced>>
    BY DEF CallHandler, Dispatched
  <1>2. SetupInv /\ StateInv(conn, "dispatch", delivered, last_read, announced)
    BY <1>1 DEF IInv
  <1>3. StateInv(conn, "handler", delivered, last_read, announced)
    BY <1>2, CalledKeeps
  <1> QED
    BY <1>1, <1>3 DEF Later

\* The handler reads.
LEMMA ReadStep ==
    ASSUME ConnectionAssumption, IInv, HandlerReads
    PROVE  Later
  <1>1. pc = "handler" /\ last_read > 0 /\ pc' = pc /\ announced' = announced
    BY DEF HandlerReads
  <1>2. PICK n \in ReadSizes : \E r \in mg_read(conn, n) :
           /\ conn' = r.c /\ last_read' = r.n
           /\ delivered' = IF r.n > 0 THEN delivered \o r.data ELSE delivered
    BY DEF HandlerReads
  <1>3. PICK r \in mg_read(conn, n) :
           /\ conn' = r.c /\ last_read' = r.n
           /\ delivered' = IF r.n > 0 THEN delivered \o r.data ELSE delivered
    BY <1>2
  <1>4. n \in Nat \ {0}
    BY DEF ConnectionAssumption
  <1>5. SetupInv /\ StateInv(conn, "handler", delivered, last_read, announced)
    BY <1>1 DEF IInv
  <1>6. StateInv(r.c, "handler", delivered', r.n, announced)
    BY <1>1, <1>3, <1>4, <1>5, ReadsKeeps
  <1> QED
    BY <1>1, <1>3, <1>6 DEF Later

\* The handler answers.
LEMMA AnswerStep ==
    ASSUME ConnectionAssumption, IInv, HandlerAnswers
    PROVE  Later
  <1>1. /\ pc = "handler" /\ announced' = suggest_connection_header(conn)
        /\ UNCHANGED <<conn, pc, delivered, last_read>>
    BY DEF HandlerAnswers, Say
  <1>2. SetupInv /\ StateInv(conn, "handler", delivered, last_read, announced)
    BY <1>1 DEF IInv
  <1>3. StateInv(conn, "handler", delivered, last_read, suggest_connection_header(conn))
    BY <1>2, AnswersKeeps
  <1> QED
    BY <1>1, <1>3 DEF Later

\* The handler returns.
LEMMA ReturnStep ==
    ASSUME IInv, HandlerReturns
    PROVE  Later
  <1>1. pc = "handler" /\ announced # "" /\ announced' = announced
    BY DEF HandlerReturns
  <1>2. PICK c \in discard_unread_request_data(conn) : Finish(c)
    BY DEF HandlerReturns
  <1>3. conn' = c /\ pc' = "tail" /\ UNCHANGED <<delivered, last_read>>
    BY <1>2 DEF Finish
  <1>4. SetupInv /\ StateInv(conn, "handler", delivered, last_read, announced)
    BY <1>1 DEF IInv
  <1>5. StateInv(c, "tail", delivered, last_read, announced)
    BY <1>1, <1>2, <1>4, ReturnsKeeps
  <1> QED
    BY <1>1, <1>3, <1>5 DEF Later

\* The connection goes on or is closed.
LEMMA NextStep ==
    ASSUME ConnectionAssumption, IInv, NextRequest
    PROVE  Later
  <1>1. /\ pc = "tail" /\ UNCHANGED <<delivered, last_read, announced>>
        /\ pc' = IF ~conn.stopped /\ should_keep_alive(conn) /\ conn.content_len >= 0
                 THEN "ready" ELSE "closed"
    BY DEF NextRequest
  <1>2. PICK n \in DiscardLength(conn) : conn' = NextConn(conn, n)
    BY DEF NextRequest, NextConn
  <1>3. SetupInv /\ BufSize \in Nat /\ StateInv(conn, "tail", delivered, last_read, announced)
    BY <1>1 DEF IInv, ConnectionAssumption
  <1>4. StateInv(NextConn(conn, n), pc', delivered, last_read, announced)
    BY <1>1, <1>2, <1>3, NextKeeps
  <1> QED
    BY <1>1, <1>2, <1>4 DEF Later

\* The server stops.
LEMMA StopStep ==
    ASSUME IInv, Stop
    PROVE  Later
  <1>1. conn' = StoppedConn(conn) /\ UNCHANGED <<pc, delivered, last_read, announced>>
    BY DEF Stop, StoppedConn
  <1>2. StateInv(conn, pc, delivered, last_read, announced)
    BY DEF IInv
  <1>3. StateInv(StoppedConn(conn), pc, delivered, last_read, announced)
    BY <1>2, StopKeeps
  <1> QED
    BY <1>1, <1>3 DEF Later

\* Every step keeps the invariant.
LEMMA NextIInv ==
    ASSUME ConnectionAssumption, IInv, [Next]_vars
    PROVE  IInv'
  <1>1. CASE UNCHANGED vars
    <2>1. UNCHANGED setup /\ Later
      BY <1>1 DEF vars, setup, IInv, Later
    <2> QED
      BY <2>1, LaterIInv DEF IInv, Later
  <1>2. CASE Next
    <2>1. UNCHANGED setup
      <3>1. CASE GetRequest
        BY <3>1 DEF GetRequest
      <3>2. CASE RedirectToHttps \/ NotFound \/ CallHandler \/ HandlerReads \/ HandlerAnswers
                 \/ HandlerDeclines \/ NextRequest
        BY <3>2 DEF RedirectToHttps, NotFound, CallHandler, HandlerReads, HandlerAnswers, HandlerDeclines,
                    NextRequest
      <3>3. CASE AnswerPreflight \/ Refuse \/ HandlerReturns
        BY <3>3 DEF AnswerPreflight, Refuse, HandlerReturns, Finish
      <3>4. CASE Stop
        BY <3>4 DEF Stop
      <3> QED
        BY <1>2, <3>1, <3>2, <3>3, <3>4 DEF Next, Server, Handling
    <2>2. Later
      BY <1>2, GetRequestStep, RedirectStep, LeavingStep, FailingStep, CallStep, ReadStep, AnswerStep,
         ReturnStep, NextStep, StopStep DEF Next, Server, Handling
    <2> QED
      BY <2>1, <2>2, LaterIInv DEF IInv, Later
  <1> QED
    BY <1>1, <1>2

\* The inductive invariant of process_new_connection's loop: what the stream is, where in it
\* the content of the request that is handled begins, how much of it mg_read has given, which Connection
\* header was announced, and which message is the next.
THEOREM Invariance == Spec => []IInv
  <1>1. ConnectionAssumption
    BY ConnectionAssumption
  <1>2. Init => IInv
    BY <1>1, InitIInv
  <1>3. IInv /\ [Next]_vars => IInv'
    BY <1>1, NextIInv
  <1> QED
    BY <1>2, <1>3, PTL DEF Spec

\* ConnectionInv: the types; requests are handled in the order they were sent, and only those
\* that name this server (get_request, get_uri_type) - for every client and every handler.
THEOREM ConnectionSafe == Spec => []ConnectionInv
  <1>1. ConnectionAssumption
    BY ConnectionAssumption
  <1>2. IInv => ConnectionInv
    <2> SUFFICES ASSUME IInv PROVE ConnectionInv
      OBVIOUS
    <2>1. /\ KindInv(conn, pc, delivered, last_read, announced) /\ ServeInv(conn, pc, last_read)
          /\ AnnounceInv(conn, pc, announced)
          /\ StreamOk /\ config \in Settings
      BY DEF IInv, StateInv, SetupInv
    <2>2. Len(stream) \in Nat /\ Sendable(conn) \in Nat /\ Sendable(conn) <= Len(stream)
      BY <2>1, SendableIs
    <2>3. conn \in Conns /\ conn.received <= Sendable(conn) /\ conn.head \in 0..Len(stream)
          /\ \A i \in 1..BufSize : conn.buf[i] <= Len(stream)
      BY <2>1 DEF KindInv, Held
    <2>4. TypeOK
      <3>1. conn.buf \in [1..BufSize -> Positions]
        <4>1. conn.buf \in [1..BufSize -> Nat]
          BY <2>3 DEF Conns
        <4>2. ASSUME NEW i \in 1..BufSize PROVE conn.buf[i] \in Positions
          <5>1. PICK n \in Nat : n = Len(stream)
            BY <2>2
          <5>2. conn.buf[i] \in Nat /\ conn.buf[i] <= n
            BY <2>3, <4>1, <5>1
          <5>3. conn.buf[i] \in 0..n
            BY <5>2
          <5> QED
            BY <5>1, <5>3 DEF Positions
        <4> QED
          BY <4>1, <4>2
      <3>2. conn.received \in Positions
        <4>1. conn.received \in Nat
          BY <2>3 DEF Conns
        <4> QED
          BY <2>2, <2>3, <4>1 DEF Positions
      <3>3. conn.data_len \in 0..BufSize /\ conn.is_chunked \in 0..3
        BY <2>3 DEF Conns
      <3> QED
        BY <2>1, <3>1, <3>2, <3>3 DEF TypeOK, KindInv
    <2>5. RequestsInOrder
      BY <2>1 DEF RequestsInOrder, Serving, Slipped, SlippedAt, ServeInv
    <2>6. OnlyOwnRequests
      <3>1. LET u == Request(conn).uri IN
            (LocalUri(u) = "local" => MeantForUs(u)) /\ (LocalUri(u) = "none" => ~MeantForUs(u))
        BY <2>1, <2>3, RequestUriIs
      <3> QED
        BY <2>1, <3>1 DEF OnlyOwnRequests, Serving, ServeInv, AnnounceInv
    <2> QED
      BY <2>4, <2>5, <2>6 DEF ConnectionInv
  <1> QED
    BY <1>2, Invariance, PTL

\* BodyExact: what mg_read has given a handler begins the content that was sent, and is all of
\* it once mg_read answers 0 before a timeout or a stop - for every buffer, every length and every chunks,
\* whatever the sizes the handler reads in.
THEOREM BodiesExact == Spec => []BodyExact
  <1>1. IInv => BodyExact
    <2> SUFFICES ASSUME IInv, pc = "handler", ~At(conn.head).data, ~conn.misaligned,
                        Request(conn).framing \in {"length", "chunked"}
                 PROVE  /\ IsPrefix(delivered, Content(Message))
                        /\ last_read = 0 /\ ~conn.late /\ ~conn.stopped => delivered = Content(Message)
      BY DEF BodyExact
    <2>1. DeliverInv(conn, pc, delivered, last_read) /\ ServeInv(conn, pc, last_read) /\ StreamOk /\ Held(conn)
          /\ last_read \in Int
      BY DEF IInv, StateInv, SetupInv, KindInv
    <2>2. Aligned(conn) /\ MessageOf(conn) = Message
      BY DEF Aligned, MessageOf, Message
    <2>3. CASE last_read > 0
      <3>1. delivered = ContentUpTo(Message)[Place(conn) - 1]
        BY <2>1, <2>2, <2>3 DEF DeliverInv
      <3>2. Place(conn) - 1 \in 0..Len(stream) /\ Len(stream) \in Nat
        <4>1. Sendable(conn) \in Nat /\ Sendable(conn) <= Len(stream) /\ Len(stream) \in Nat
          BY <2>1, SendableIs
        <4>2. Place(conn) \in Nat \ {0} /\ Place(conn) - 1 <= Sendable(conn)
          BY <2>1, <4>1, PlaceIs DEF ServeInv, Serves
        <4> QED
          BY <4>1, <4>2
      <3>3. IsPrefix(ContentUpTo(Message)[Place(conn) - 1], Content(Message))
        BY <3>2, ContentPrefix
      <3> QED
        BY <2>3, <3>1, <3>3
    <2>4. CASE ~ (last_read > 0)
      BY <2>1, <2>2, <2>4 DEF DeliverInv
    <2> QED
      BY <2>3, <2>4
  <1> QED
    BY <1>1, Invariance, PTL

\* ConnectionHeaderExact: a connection announced as closed is closed after the answer, and one
\* announced as kept alive waits for the next request, unless the server stops or the length of the content
\* was never known (suggest_connection_header, process_new_connection).
THEOREM ConnectionHeadersExact == Spec => ConnectionHeaderExact
  <1>1. IInv /\ [Next]_vars =>
          [pc = "tail" /\ pc' # pc /\ announced # "" =>
             /\ announced = "close" => pc' = "closed"
             /\ announced = "keep-alive" /\ ~conn.stopped
                   /\ (Request(conn).framing = "length"
                         \/ (Request(conn).framing = "chunked" /\ ~conn.unread)) => pc' = "ready"]_vars
    <2> SUFFICES ASSUME IInv, Next, pc = "tail", pc' # pc, announced # ""
                 PROVE  /\ announced = "close" => pc' = "closed"
                        /\ announced = "keep-alive" /\ ~conn.stopped
                              /\ (Request(conn).framing = "length"
                                    \/ (Request(conn).framing = "chunked" /\ ~conn.unread)) => pc' = "ready"
      BY DEF vars
    <2>1. AnnounceInv(conn, "tail", announced)
      BY DEF IInv, StateInv
    <2>2. NextRequest
      BY DEF Next, Server, Handling, GetRequest, RedirectToHttps, AnswerPreflight, Refuse, NotFound, CallHandler,
             HandlerReads, HandlerAnswers, HandlerReturns, HandlerDeclines, Stop, Dispatched
    <2>3. pc' = IF ~conn.stopped /\ should_keep_alive(conn) /\ conn.content_len >= 0 THEN "ready" ELSE "closed"
      BY <2>2 DEF NextRequest
    <2> QED
      BY <2>1, <2>3 DEF AnnounceInv
  <1> QED
    BY <1>1, Invariance, PTL DEF Spec, ConnectionHeaderExact

=============================================================================
