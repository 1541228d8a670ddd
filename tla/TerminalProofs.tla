--------------------------- MODULE TerminalProofs ---------------------------
(***************************************************************************)
(* Theorems about Terminal, for any number of connections, terminals and   *)
(* sessions, any sizes and any output, and before them what the operators  *)
(* of OutputBuffer return.                                                 *)
(***************************************************************************)
EXTENDS Terminal, SequenceLemmas

-----------------------------------------------------------------------------
(* Bytes.                                                                  *)

\* Bytes adds up the lines.
LEMMA BytesStep ==
  ASSUME NEW B, NEW lines \in Seq(Seq(B))
  PROVE  /\ Bytes(lines, 0) = 0
         /\ \A k \in 0..Len(lines) : Bytes(lines, k) \in Nat
         /\ \A k \in 1..Len(lines) : Bytes(lines, k) = Bytes(lines, k - 1) + Len(lines[k])
<1>1. Bytes(lines, 0) = 0
  BY SubSeqEmpty DEF Bytes, FlattenSeq
<1>2. \A k \in 0..Len(lines) : SubSeq(lines, 1, k) \in Seq(Seq(B))
  BY SubSeqProperties, ElementOfSeq, LenProperties
<1>3. \A k \in 0..Len(lines) : Bytes(lines, k) \in Nat
  BY <1>2, FlattenSeqType, LenProperties DEF Bytes
<1>4. ASSUME NEW k \in 1..Len(lines)
      PROVE  Bytes(lines, k) = Bytes(lines, k - 1) + Len(lines[k])
  <2> DEFINE front == SubSeq(lines, 1, k - 1)
  <2>1. front \in Seq(Seq(B)) /\ lines[k] \in Seq(B)
    BY <1>2, ElementOfSeq, LenProperties
  <2>2. SubSeq(lines, 1, k) = Append(front, lines[k])
    BY SubSeqAppend
  <2> HIDE DEF front
  <2>3. FlattenSeq(SubSeq(lines, 1, k)) = FlattenSeq(front) \o lines[k]
    BY <2>1, <2>2, FlattenSeqAppend
  <2>4. FlattenSeq(front) \in Seq(B)
    BY <2>1, FlattenSeqType
  <2>5. Len(FlattenSeq(SubSeq(lines, 1, k))) = Len(FlattenSeq(front)) + Len(lines[k])
    BY <2>1, <2>3, <2>4, ConcatProperties
  <2> QED BY <2>5 DEF Bytes, front
<1> QED BY <1>1, <1>3, <1>4

\* What is left of some lines without the first k.
LEMMA FlattenRest ==
  ASSUME NEW B, NEW lines \in Seq(Seq(B)), NEW k \in 0..Len(lines)
  PROVE  LET rest == FlattenSeq(SubSeq(lines, k + 1, Len(lines)))
         IN  /\ SubSeq(lines, k + 1, Len(lines)) \in Seq(Seq(B))
             /\ rest \in Seq(B)
             /\ FlattenSeq(lines) = FlattenSeq(SubSeq(lines, 1, k)) \o rest
             /\ Len(rest) = Bytes(lines, Len(lines)) - Bytes(lines, k)
<1> DEFINE n == Len(lines)
           front == SubSeq(lines, 1, k)
           back == SubSeq(lines, k + 1, n)
<1>1. n \in Nat
  BY LenProperties
<1>2. front \in Seq(Seq(B)) /\ back \in Seq(Seq(B))
  BY SubSeqProperties, ElementOfSeq, LenProperties
<1>3. front \o back = SubSeq(lines, 1, n) /\ SubSeq(lines, 1, n) = lines
  <2>1. 1 \in 1..Len(lines) + 1 /\ k \in (1 - 1)..Len(lines) /\ n \in k..Len(lines)
    BY <1>1
  <2>2. front \o back = SubSeq(lines, 1, n)
    BY <2>1, ConcatAdjacentSubSeq
  <2> QED BY <2>2, SubSeqFull
<1> HIDE DEF front, back
<1>4. FlattenSeq(lines) = FlattenSeq(front) \o FlattenSeq(back)
  BY <1>2, <1>3, FlattenSeqConcat
<1>5. FlattenSeq(front) \in Seq(B) /\ FlattenSeq(back) \in Seq(B)
  BY <1>2, FlattenSeqType
<1>6. Len(FlattenSeq(lines)) = Len(FlattenSeq(front)) + Len(FlattenSeq(back))
  BY <1>4, <1>5, ConcatProperties
<1>7. Bytes(lines, n) = Len(FlattenSeq(lines)) /\ Bytes(lines, k) = Len(FlattenSeq(front))
  BY <1>3 DEF Bytes, front
<1>8. Len(FlattenSeq(front)) \in Nat /\ Len(FlattenSeq(back)) \in Nat
  BY <1>5, LenProperties
<1>9. Len(FlattenSeq(back)) = Bytes(lines, n) - Bytes(lines, k)
  BY <1>6, <1>7, <1>8
<1> QED BY <1>2, <1>4, <1>5, <1>9 DEF front, back

-----------------------------------------------------------------------------
(* Split.                                                                  *)

\* How many of E are at most i.
Rank(E, i) == Cardinality({j \in E : j <= i})

LEMMA RankFacts ==
  ASSUME NEW n \in Nat, NEW E \in SUBSET (1..n)
  PROVE  /\ IsFiniteSet(E)
         /\ Cardinality(E) \in Nat
         /\ \A i \in Nat : Rank(E, i) \in Nat
         /\ Rank(E, 0) = 0
         /\ \A i \in Nat : i >= n => Rank(E, i) = Cardinality(E)
         /\ \A i \in Nat : Rank(E, i + 1) = IF i + 1 \in E THEN Rank(E, i) + 1 ELSE Rank(E, i)
<1>0. \A j \in E : j \in Nat /\ 1 <= j /\ j <= n
  OBVIOUS
<1>1. IsFiniteSet(E) /\ Cardinality(E) \in Nat
  <2>1. IsFiniteSet(1..n)
    BY FS_Interval
  <2>2. IsFiniteSet(E)
    BY <2>1, FS_Subset
  <2> QED BY <2>2, FS_CardinalityType
<1>2. \A i \in Nat : IsFiniteSet({j \in E : j <= i})
  BY <1>1, FS_Subset
<1>3. \A i \in Nat : Rank(E, i) \in Nat
  BY <1>2, FS_CardinalityType DEF Rank
<1>4. Rank(E, 0) = 0
  <2>1. {j \in E : j <= 0} = {}
    <3>1. \A j \in E : ~(j <= 0)
      BY <1>0
    <3> QED BY <3>1, Zenon
  <2> QED BY <2>1, FS_EmptySet DEF Rank
<1>5. ASSUME NEW i \in Nat, i >= n PROVE Rank(E, i) = Cardinality(E)
  <2>1. {j \in E : j <= i} = E
    <3>1. \A j \in E : j <= i
      BY <1>0, <1>5
    <3> QED BY <3>1, Zenon
  <2> QED BY <2>1 DEF Rank
<1>6. ASSUME NEW i \in Nat
      PROVE  Rank(E, i + 1) = IF i + 1 \in E THEN Rank(E, i) + 1 ELSE Rank(E, i)
  <2> DEFINE P == {j \in E : j <= i}
             Q == {j \in E : j <= i + 1}
  <2>1. CASE i + 1 \in E
    <3>1. Q = P \cup {i + 1} /\ i + 1 \notin P
      <4>1. \A j \in E : j <= i + 1 <=> j <= i \/ j = i + 1
        BY <1>0
      <4>2. i + 1 <= i + 1 /\ ~(i + 1 <= i)
        OBVIOUS
      <4>3. Q = P \cup {i + 1}
        BY <2>1, <4>1, <4>2, Zenon
      <4> QED BY <4>2, <4>3
    <3>2. Cardinality(P \cup {i + 1}) = Cardinality(P) + 1
      BY <1>2, <3>1, FS_AddElement
    <3> QED BY <2>1, <3>1, <3>2 DEF Rank
  <2>2. CASE i + 1 \notin E
    <3>1. Q = P
      <4>1. \A j \in E : j <= i + 1 <=> j <= i
        BY <1>0, <2>2
      <4> QED BY <4>1, Zenon
    <3> QED BY <2>2, <3>1 DEF Rank
  <2> QED BY <2>1, <2>2
<1> QED BY <1>1, <1>3, <1>4, <1>5, <1>6

\* Every rank up to the number of elements is the rank of one.
LEMMA RankOnto ==
  ASSUME NEW n \in Nat, NEW E \in SUBSET (1..n), NEW k \in 1..Cardinality(E)
  PROVE  \E i \in E : Rank(E, i) = k
<1> DEFINE T == {i \in Nat : Rank(E, i) >= k}
           m == Min(T)
<1>1. n \in T
  BY RankFacts
<1>2. m \in T /\ \A y \in T : m =< y
  BY <1>1, LeastElement
<1> HIDE DEF m
<1>3. m \in Nat /\ Rank(E, m) >= k
  BY <1>2
<1>4. m # 0
  BY <1>3, RankFacts
<1> DEFINE p == m - 1
<1>5. p \in Nat /\ p + 1 = m
  BY <1>3, <1>4
<1>6. ~(Rank(E, p) >= k)
  BY <1>2, <1>5
<1> HIDE DEF p
<1>7. Rank(E, p + 1) = IF p + 1 \in E THEN Rank(E, p) + 1 ELSE Rank(E, p)
  BY <1>5, RankFacts
<1>8. Rank(E, p) \in Nat
  BY <1>5, RankFacts
<1>9. k \in Nat
  BY RankFacts
<1> QED BY <1>3, <1>5, <1>6, <1>7, <1>8, <1>9

\* A later element has a higher rank.
LEMMA RankGrows ==
  ASSUME NEW n \in Nat, NEW E \in SUBSET (1..n), NEW i \in E, NEW j \in E, i < j
  PROVE  Rank(E, i) < Rank(E, j)
<1> DEFINE P == {x \in E : x <= i}
           Q == {x \in E : x <= j}
<1>0. IsFiniteSet(E) /\ \A x \in E : x \in Nat
  BY RankFacts
<1>1. IsFiniteSet(Q)
  BY <1>0, FS_Subset
<1>2. P \subseteq Q /\ P # Q
  <2>1. j \in Q /\ j \notin P
    BY <1>0
  <2>2. \A x \in P : x \in Q
    BY <1>0
  <2> QED BY <2>1, <2>2
<1> HIDE DEF P, Q
<1>3. Cardinality(P) <= Cardinality(Q) /\ Cardinality(P) # Cardinality(Q)
  BY <1>1, <1>2, FS_Subset
<1>4. Cardinality(P) \in Nat /\ Cardinality(Q) \in Nat
  BY <1>1, <1>2, FS_Subset, FS_CardinalityType
<1>5. Cardinality(P) < Cardinality(Q)
  BY <1>3, <1>4
<1> QED BY <1>5 DEF Rank, P, Q

\* Split cuts the data into pieces: together they are the data again.
LEMMA SplitPieces ==
  ASSUME NEW B, NEW data \in Seq(B)
  PROVE  Split(data) \in Seq(Seq(B)) /\ FlattenSeq(Split(data)) = data
<1> DEFINE n == Len(data)
           E == {i \in DOMAIN data : data[i] = NL \/ i = Len(data)}
           K == Cardinality(E)
           e(k) == CHOOSE i \in E : Cardinality({j \in E : j <= i}) = k
           first(k) == IF k = 1 THEN 1 ELSE e(k - 1) + 1
           p == [k \in 1..K |-> SubSeq(data, first(k), e(k))]
<1>1. Split(data) = p
  BY DEF Split
<1>2. n \in Nat /\ DOMAIN data = 1..n /\ \A i \in 1..n : data[i] \in B
  BY LenProperties, ElementOfSeq
<1>3. E \in SUBSET (1..n) /\ (n # 0 => n \in E)
  BY <1>2
<1>4. \A k \in 1..K : e(k) \in E /\ Rank(E, e(k)) = k
  <2> TAKE k \in 1..K
  <2>1. \E i \in E : Cardinality({j \in E : j <= i}) = k
    BY <1>2, <1>3, RankOnto DEF Rank
  <2> HIDE DEF E
  <2> QED BY <2>1 DEF Rank
<1>5. K \in Nat
  BY <1>2, <1>3, RankFacts
<1> HIDE DEF E, K, e
<1>6. \A k \in 1..K : e(k) \in 1..n
  BY <1>3, <1>4
<1>7. ASSUME NEW k \in 1..K, k # 1 PROVE e(k - 1) < e(k)
  <2>1. k - 1 \in 1..K /\ k \in Nat
    BY <1>5, <1>7
  <2>2. e(k - 1) \in E /\ e(k) \in E /\ Rank(E, e(k - 1)) = k - 1 /\ Rank(E, e(k)) = k
    BY <1>4, <2>1
  <2>3. e(k) \in Nat /\ e(k - 1) \in Nat
    BY <1>6, <2>1
  <2>4. ~(e(k) < e(k - 1))
    <3> SUFFICES ASSUME e(k) < e(k - 1) PROVE FALSE
      OBVIOUS
    <3>1. Rank(E, e(k)) < Rank(E, e(k - 1))
      BY <1>2, <1>3, <2>2, RankGrows
    <3> QED BY <2>1, <2>2, <3>1
  <2>5. e(k) # e(k - 1)
    BY <2>1, <2>2
  <2> QED BY <2>3, <2>4, <2>5
<1>8. ASSUME NEW k \in 1..K
      PROVE  /\ first(k) \in 1..n /\ first(k) <= e(k)
             /\ SubSeq(data, first(k), e(k)) \in Seq(B)
  <2>1. e(k) \in 1..n /\ (k # 1 => e(k - 1) \in 1..n /\ e(k - 1) < e(k))
    BY <1>5, <1>6, <1>7
  <2>2. first(k) \in 1..n /\ first(k) <= e(k)
    BY <1>2, <2>1
  <2> HIDE DEF first
  <2>3. \A i \in first(k)..e(k) : data[i] \in B
    BY <1>2, <2>1, <2>2
  <2> QED BY <2>1, <2>2, <2>3, SubSeqProperties
<1>9. p \in Seq(Seq(B)) /\ Len(p) = K
  BY <1>5, <1>8
<1> DEFINE last(k) == IF k = 0 THEN 0 ELSE e(k)
           S == {k \in Nat : k =< K => FlattenSeq(SubSeq(p, 1, k)) = SubSeq(data, 1, last(k))}
<1>10. 0 \in S
  BY SubSeqEmpty DEF FlattenSeq
<1>11. ASSUME NEW k \in Nat, k \in S PROVE k + 1 \in S
  <2> SUFFICES ASSUME k + 1 =< K
               PROVE  FlattenSeq(SubSeq(p, 1, k + 1)) = SubSeq(data, 1, e(k + 1))
    OBVIOUS
  <2>1. FlattenSeq(SubSeq(p, 1, k)) = SubSeq(data, 1, last(k))
    BY <1>5, <1>11
  <2>2. k + 1 \in 1..Len(p) /\ k + 1 \in 1..K /\ (k + 1) - 1 = k
    BY <1>5, <1>9
  <2>3. p[k + 1] = SubSeq(data, last(k) + 1, e(k + 1))
    <3>1. p[k + 1] = SubSeq(data, first(k + 1), e(k + 1))
      BY <2>2, Zenon
    <3>2. first(k + 1) = last(k) + 1
      <4>1. CASE k = 0
        BY <4>1
      <4>2. CASE k # 0
        <5>1. k + 1 # 1
          BY <4>2
        <5> QED BY <2>2, <4>2, <5>1, Zenon
      <4> QED BY <4>1, <4>2
    <3> QED BY <3>1, <3>2, Zenon
  <2>4. /\ SubSeq(p, 1, k) \in Seq(Seq(B)) /\ p[k + 1] \in Seq(B)
        /\ SubSeq(p, 1, k + 1) = Append(SubSeq(p, 1, k), p[k + 1])
    <3> HIDE DEF p
    <3>1. /\ SubSeq(p, 1, (k + 1) - 1) \in Seq(Seq(B)) /\ p[k + 1] \in Seq(B)
          /\ SubSeq(p, 1, k + 1) = Append(SubSeq(p, 1, (k + 1) - 1), p[k + 1])
      BY <1>9, <2>2, SubSeqAppend
    <3> QED BY <2>2, <3>1
  <2>5. last(k) \in 0..n /\ e(k + 1) \in last(k)..n
    <3>1. e(k + 1) \in 1..n /\ (k # 0 => e(k) \in 1..n /\ e(k) < e(k + 1))
      BY <1>5, <1>6, <1>7, <2>2
    <3> QED BY <1>2, <3>1
  <2> HIDE DEF p, last, S
  <2>6. FlattenSeq(SubSeq(p, 1, k + 1))
          = SubSeq(data, 1, last(k)) \o SubSeq(data, last(k) + 1, e(k + 1))
    BY <2>1, <2>3, <2>4, FlattenSeqAppend
  <2>7. 1 \in 1..Len(data) + 1 /\ last(k) \in (1 - 1)..Len(data) /\ e(k + 1) \in last(k)..Len(data)
    BY <1>2, <2>5
  <2> QED BY <2>6, <2>7, ConcatAdjacentSubSeq
<1>12. K \in S
  <2> HIDE DEF S
  <2> QED BY <1>5, <1>10, <1>11, NatSetInduction
<1>13. FlattenSeq(SubSeq(p, 1, K)) = SubSeq(data, 1, last(K))
  BY <1>5, <1>12
<1>14. last(K) = n
  <2>1. CASE n = 0
    <3>1. E = {}
      BY <1>3, <2>1
    <3> QED BY <2>1, <3>1, FS_EmptySet DEF K
  <2>2. CASE n # 0
    <3>1. n \in E /\ Rank(E, n) = K
      BY <1>2, <1>3, <2>2, RankFacts, SMTT(60) DEF K
    <3>2. K # 0
      BY <1>2, <1>3, <3>1, RankFacts, FS_EmptySet DEF K
    <3>3. e(K) \in E /\ Rank(E, e(K)) = K /\ e(K) \in 1..n
      BY <1>4, <1>5, <1>6, <3>2
    <3>4. ~(e(K) < n)
      <4> SUFFICES ASSUME e(K) < n PROVE FALSE
        OBVIOUS
      <4>1. Rank(E, e(K)) < Rank(E, n)
        BY <1>2, <1>3, <3>1, <3>3, RankGrows
      <4> QED BY <1>5, <3>1, <3>3, <4>1
    <3> QED BY <1>2, <3>2, <3>3, <3>4
  <2> QED BY <2>1, <2>2
<1> HIDE DEF p, last
<1>15. SubSeq(p, 1, K) = p /\ SubSeq(data, 1, n) = data
  BY <1>9, SubSeqFull
<1> QED BY <1>1, <1>9, <1>13, <1>14, <1>15

-----------------------------------------------------------------------------
(* append and get_recent.                                                  *)

\* The bytes that a buffer has, oldest first.
History(b) == FlattenSeq(b.lines)

\* `rest' is the end of `all'.
IsEndOf(B, rest, all) == \E front \in Seq(B) : all = front \o rest

LEMMA EndOfItself ==
  ASSUME NEW B, NEW s \in Seq(B)
  PROVE  IsEndOf(B, s, s)
<1>1. << >> \in Seq(B) /\ s = << >> \o s
  BY EmptySeq, ConcatEmptySeq
<1> QED BY <1>1 DEF IsEndOf

LEMMA EndOfEnd ==
  ASSUME NEW B, NEW s \in Seq(B), NEW t \in Seq(B), NEW u \in Seq(B),
         IsEndOf(B, s, t), IsEndOf(B, t, u)
  PROVE  IsEndOf(B, s, u)
<1>1. PICK f \in Seq(B) : t = f \o s
  BY DEF IsEndOf
<1>2. PICK g \in Seq(B) : u = g \o t
  BY DEF IsEndOf
<1>3. g \o f \in Seq(B)
  BY ConcatProperties
<1>4. u = (g \o f) \o s
  <2>1. (g \o f) \o s = g \o (f \o s)
    BY ONLY f \in Seq(B), g \in Seq(B), s \in Seq(B), ConcatAssociative, SMTT(60)
  <2> QED BY <1>1, <1>2, <2>1
<1> QED BY <1>3, <1>4 DEF IsEndOf

LEMMA EndOfMore ==
  ASSUME NEW B, NEW s \in Seq(B), NEW t \in Seq(B), NEW x \in Seq(B), IsEndOf(B, s, t)
  PROVE  IsEndOf(B, s \o x, t \o x)
<1>1. PICK f \in Seq(B) : t = f \o s
  BY DEF IsEndOf
<1>2. (f \o s) \o x = f \o (s \o x)
  BY ONLY f \in Seq(B), s \in Seq(B), x \in Seq(B), ConcatAssociative, SMTT(60)
<1> QED BY <1>1, <1>2 DEF IsEndOf

\* Trim returns a buffer, with the end of the history that it was given, and, unless
\* it hangs, at most MaxLines lines.
LEMMA TrimFacts ==
  ASSUME NEW B, NEW b \in OutputBufferType(B)
  PROVE  /\ Trim(b) \in OutputBufferType(B)
         /\ IsEndOf(B, History(Trim(b)), History(b))
         /\ ~Trim(b).hung => Len(Trim(b).lines) <= MaxLines /\ Trim(b).total <= MaxSize
<1> DEFINE L == Len(b.lines)
           left(k) == (b.total - Bytes(b.lines, k)) % Width
           tooLarge(k) == left(k) > MaxSize \/ L - k > MaxLines
           enough == {k \in 0..L : ~tooLarge(k)}
           n == IF enough = {} THEN L ELSE Min(enough)
<1>1. b.lines \in Seq(Seq(B)) /\ b.total \in 0..Width - 1 /\ b.incomplete \in BOOLEAN
  BY DEF OutputBufferType
<1>2. L \in Nat /\ \A k \in 0..L : Bytes(b.lines, k) \in Nat
  BY <1>1, BytesStep, LenProperties
<1>3. Trim(b) = [b EXCEPT !.lines = SubSeq(@, n + 1, Len(@)), !.total = left(n), !.hung = enough = {}]
  BY DEF Trim
<1>4. n \in 0..L /\ (enough # {} => n \in enough)
  <2>1. enough \subseteq 0..L /\ enough \subseteq Nat
    BY <1>2
  <2> HIDE DEF enough
  <2>2. CASE enough = {}
    BY <1>2, <2>2
  <2>3. CASE enough # {}
    <3>1. Min(enough) \in enough
      BY <2>1, <2>3, LeastElement
    <3> QED BY <2>1, <2>3, <3>1
  <2> QED BY <2>2, <2>3
<1>5. left(n) \in 0..Width - 1
  <2>1. n \in 0..L
    BY <1>4
  <2> HIDE DEF n
  <2>2. b.total - Bytes(b.lines, n) \in Int
    BY <1>1, <1>2, <2>1
  <2> QED BY <2>2, BufferAssumption
<1>6. enough # {} => left(n) <= MaxSize /\ L - n <= MaxLines
  <2>1. \A k \in enough : ~(left(k) > MaxSize) /\ ~(L - k > MaxLines)
    OBVIOUS
  <2>2. enough # {} => ~(left(n) > MaxSize) /\ ~(L - n > MaxLines)
    BY <1>4, <2>1, Zenon
  <2> HIDE DEF n, left, enough
  <2>3. n \in Int /\ left(n) \in Int
    BY <1>4, <1>5
  <2>4. L \in Int /\ MaxSize \in Int /\ MaxLines \in Int
    BY <1>2, BufferAssumption
  <2> HIDE DEF L
  <2> QED BY <2>2, <2>3, <2>4
<1> HIDE DEF n, left, enough
<1> DEFINE kept == SubSeq(b.lines, n + 1, L)
<1>7. /\ kept \in Seq(Seq(B)) /\ FlattenSeq(kept) \in Seq(B)
      /\ FlattenSeq(b.lines) = FlattenSeq(SubSeq(b.lines, 1, n)) \o FlattenSeq(kept)
  BY <1>1, <1>4, FlattenRest
<1>8. /\ Trim(b).lines = kept /\ Trim(b).total = left(n) /\ Trim(b).hung = (enough = {})
      /\ Trim(b) \in OutputBufferType(B)
  BY <1>3, <1>5, <1>7 DEF OutputBufferType
<1>9. Len(kept) = L - n
  BY <1>1, <1>2, <1>4, SubSeqProperties, ElementOfSeq
<1>10. IsEndOf(B, History(Trim(b)), History(b))
  <2>1. SubSeq(b.lines, 1, n) \in Seq(Seq(B))
    <3>1. \A i \in 1..n : b.lines[i] \in Seq(B)
      BY <1>1, <1>2, <1>4, ElementOfSeq
    <3> QED BY <1>2, <1>4, <3>1, SubSeqProperties
  <2>2. FlattenSeq(SubSeq(b.lines, 1, n)) \in Seq(B)
    BY <2>1, FlattenSeqType
  <2> HIDE DEF kept
  <2> QED BY <1>7, <1>8, <2>2 DEF History, IsEndOf
<1> QED BY <1>6, <1>8, <1>9, <1>10

\* More at the end of the last line.
LEMMA LastLineGrows ==
  ASSUME NEW B, NEW lines \in Seq(Seq(B)), lines # << >>, NEW x \in Seq(B)
  PROVE  LET more == [lines EXCEPT ![Len(lines)] = @ \o x]
         IN  more \in Seq(Seq(B)) /\ FlattenSeq(more) = FlattenSeq(lines) \o x
<1> DEFINE n == Len(lines)
           more == [lines EXCEPT ![n] = @ \o x]
           front == SubSeq(lines, 1, n - 1)
<1>1. n \in Nat /\ n # 0 /\ n \in 1..n
  BY EmptySeq, LenProperties
<1>2. /\ front \in Seq(Seq(B)) /\ lines[n] \in Seq(B)
      /\ SubSeq(lines, 1, n) = Append(front, lines[n])
  BY <1>1, SubSeqAppend
<1>3. lines = Append(front, lines[n])
  BY <1>2, SubSeqFull
<1>4. lines[n] \o x \in Seq(B)
  BY <1>2, ConcatProperties
<1>5. more \in Seq(Seq(B)) /\ Len(more) = n
  BY <1>1, <1>4, ExceptSeq
<1>6. \A i \in 1..n : more[i] = IF i = n THEN lines[n] \o x ELSE lines[i]
  BY <1>1, <1>4, ExceptSeq
<1> HIDE DEF more
<1>7. Len(front) = n - 1 /\ \A i \in 1..(n - 1) : front[i] = lines[i]
  BY <1>1, <1>2, SubSeqProperties, ElementOfSeq
<1> HIDE DEF front
<1>8. more = Append(front, lines[n] \o x)
  <2> DEFINE a == Append(front, lines[n] \o x)
  <2>1. a \in Seq(Seq(B)) /\ Len(a) = n /\ \A i \in 1..n : a[i] = more[i]
    <3>1. a \in Seq(Seq(B)) /\ Len(a) = (n - 1) + 1
      BY <1>2, <1>4, <1>7, AppendProperties
    <3>2. ASSUME NEW i \in 1..n PROVE a[i] = more[i]
      BY <1>1, <1>2, <1>4, <1>6, <1>7, AppendProperties
    <3> QED BY <1>1, <3>1, <3>2
  <2> HIDE DEF a
  <2> QED BY <1>5, <2>1, SeqEqual DEF a
<1>9. FlattenSeq(more) = FlattenSeq(front) \o (lines[n] \o x)
  BY <1>2, <1>4, <1>8, FlattenSeqAppend
<1>10. FlattenSeq(lines) = FlattenSeq(front) \o lines[n]
  BY <1>2, <1>3, FlattenSeqAppend
<1>11. FlattenSeq(front) \in Seq(B)
  BY <1>2, FlattenSeqType
<1>12. FlattenSeq(front) \o (lines[n] \o x) = (FlattenSeq(front) \o lines[n]) \o x
  <2> DEFINE h == FlattenSeq(front)
             y == lines[n]
  <2> HIDE DEF h, y
  <2>1. h \in Seq(B) /\ y \in Seq(B) /\ x \in Seq(B)
    BY <1>2, <1>11 DEF h, y
  <2>2. h \o (y \o x) = (h \o y) \o x
    BY ONLY <2>1, ConcatAssociative, SMTT(60)
  <2> QED BY <2>2 DEF h, y
<1> QED BY <1>5, <1>9, <1>10, <1>12 DEF more

\* append returns a buffer, and what it keeps is the end of what it had and was given.
LEMMA AppendFacts ==
  ASSUME NEW B, NEW b \in OutputBufferType(B), NEW data \in Seq(B)
  PROVE  /\ append(b, data) \in OutputBufferType(B)
         /\ IsEndOf(B, History(append(b, data)), History(b) \o data)
<1> DEFINE open    == b.incomplete /\ b.lines # << >>
           newline == SelectInSeq(data, LAMBDA x : x = NL)
           start   == IF open THEN newline ELSE 0
           rest    == SubSeq(data, start + 1, Len(data))
           new     == Split(rest)
           last(x) == [b.lines EXCEPT ![Len(b.lines)] = @ \o x]
           lines   == (IF open THEN last(SubSeq(data, 1, newline)) ELSE b.lines) \o new
           total   == (b.total + Bytes(new, Len(new))) % Width
           inc     == (new # << >> /\ Last(data) # NL) \/ (b.incomplete /\ ~open)
           c       == [b EXCEPT !.lines = lines, !.total = total, !.incomplete = inc]
<1>1. /\ b.lines \in Seq(Seq(B)) /\ b.total \in 0..Width - 1 /\ b.incomplete \in BOOLEAN
      /\ b.hung \in BOOLEAN /\ History(b) \in Seq(B)
  BY FlattenSeqType DEF OutputBufferType, History
<1>2. History(b) \o data \in Seq(B) /\ Len(data) \in Nat
  BY <1>1, ConcatProperties, LenProperties
<1>3. CASE data = << >>
  <2>1. append(b, data) = b /\ History(b) \o data = History(b)
    BY <1>1, <1>3, ConcatEmptySeq DEF append
  <2>2. IsEndOf(B, History(b), History(b))
    BY <1>1, EndOfItself
  <2> QED BY <2>1, <2>2
<1>4. newline \in 0..Len(data)
  <2> DEFINE I == {i \in 1..Len(data) : data[i] = NL}
  <2>1. newline = IF I # {} THEN Min(I) ELSE 0
    BY DEF SelectInSeq
  <2>2. I \subseteq Nat /\ I \subseteq 1..Len(data)
    BY <1>2
  <2> HIDE DEF I, newline
  <2>3. CASE I = {}
    BY <1>2, <2>1, <2>3
  <2>4. CASE I # {}
    <3>1. Min(I) \in I
      BY <2>2, <2>4, LeastElement
    <3>2. newline \in 1..Len(data)
      BY <2>1, <2>2, <2>4, <3>1
    <3> QED BY <1>2, <3>2
  <2> QED BY <2>3, <2>4
<1>5. CASE data # << >> /\ open /\ newline = 0
  <2>1. append(b, data) = [b EXCEPT !.lines = last(data), !.total = (@ + Len(data)) % Width]
    BY <1>5 DEF append
  <2>2. last(data) \in Seq(Seq(B)) /\ FlattenSeq(last(data)) = History(b) \o data
    BY <1>1, <1>5, LastLineGrows DEF History
  <2>3. (b.total + Len(data)) % Width \in 0..Width - 1
    BY <1>1, <1>2, BufferAssumption
  <2> HIDE DEF last
  <2>4. append(b, data) \in OutputBufferType(B) /\ append(b, data).lines = last(data)
    BY <2>1, <2>2, <2>3 DEF OutputBufferType
  <2>5. IsEndOf(B, History(b) \o data, History(b) \o data)
    BY <1>2, EndOfItself
  <2> QED BY <2>2, <2>4, <2>5 DEF History
<1>6. CASE data # << >> /\ ~(open /\ newline = 0)
  <2>1. append(b, data) = Trim(c)
    BY <1>6 DEF append
  <2> HIDE DEF newline
  <2>2. start \in 0..Len(data)
    BY <1>2, <1>4
  <2>3. SubSeq(data, 1, start) \in Seq(B) /\ rest \in Seq(B)
        /\ SubSeq(data, 1, start) \o rest = data
    <3> HIDE DEF start
    <3>1. SubSeq(data, 1, start) \in Seq(B) /\ rest \in Seq(B)
      BY <1>2, <2>2, SubSeqProperties, ElementOfSeq
    <3>2. 1 \in 1..Len(data) + 1 /\ start \in (1 - 1)..Len(data) /\ Len(data) \in start..Len(data)
      BY <1>2, <2>2
    <3>3. SubSeq(data, 1, start) \o rest = SubSeq(data, 1, Len(data))
      BY <3>2, ConcatAdjacentSubSeq
    <3> QED BY <3>1, <3>3, SubSeqFull
  <2> HIDE DEF rest
  <2>4. new \in Seq(Seq(B)) /\ FlattenSeq(new) = rest
    BY <2>3, SplitPieces
  <2> HIDE DEF new
  <2> DEFINE old == IF open THEN last(SubSeq(data, 1, newline)) ELSE b.lines
  <2>5. old \in Seq(Seq(B)) /\ FlattenSeq(old) = History(b) \o SubSeq(data, 1, start)
    <3>1. CASE open
      <4>1. SubSeq(data, 1, newline) \in Seq(B) /\ start = newline
        BY <2>3, <3>1
      <4> HIDE DEF start
      <4>2. /\ last(SubSeq(data, 1, newline)) \in Seq(Seq(B))
            /\ FlattenSeq(last(SubSeq(data, 1, newline))) = History(b) \o SubSeq(data, 1, newline)
        BY <1>1, <3>1, <4>1, LastLineGrows DEF History
      <4> QED BY <3>1, <4>1, <4>2
    <3>2. CASE ~open
      <4>1. start = 0
        BY <3>2
      <4>2. SubSeq(data, 1, start) = << >>
        BY <4>1, SubSeqEmpty
      <4>3. History(b) \o << >> = History(b)
        BY <1>1, ConcatEmptySeq
      <4> HIDE DEF start
      <4> QED BY <1>1, <3>2, <4>2, <4>3 DEF History
    <3> QED BY <3>1, <3>2
  <2>6. lines = old \o new
    OBVIOUS
  <2> HIDE DEF old, last, lines, start
  <2>7. lines \in Seq(Seq(B))
    BY <2>4, <2>5, <2>6, ConcatProperties
  <2>8. FlattenSeq(lines) = History(b) \o data
    <3>1. FlattenSeq(lines) = (History(b) \o SubSeq(data, 1, start)) \o rest
      BY <2>4, <2>5, <2>6, FlattenSeqConcat
    <3> DEFINE h == History(b)
               d == SubSeq(data, 1, start)
    <3> HIDE DEF h, d
    <3>2. h \in Seq(B) /\ d \in Seq(B) /\ rest \in Seq(B)
      BY <1>1, <2>3 DEF h, d
    <3>3. (h \o d) \o rest = h \o (d \o rest)
      BY ONLY <3>2, ConcatAssociative, SMTT(60)
    <3> QED BY <2>3, <3>1, <3>3 DEF h, d
  <2>9. total \in 0..Width - 1
    <3>1. Bytes(new, Len(new)) \in Nat
      BY <2>4, BytesStep, LenProperties
    <3> QED BY <1>1, <3>1, BufferAssumption
  <2> HIDE DEF total
  <2>10. inc \in BOOLEAN
    BY <1>1
  <2> HIDE DEF inc
  <2>11. c \in OutputBufferType(B) /\ c.lines = lines
    BY <2>7, <2>9, <2>10 DEF OutputBufferType
  <2> HIDE DEF c
  <2>12. Trim(c) \in OutputBufferType(B) /\ IsEndOf(B, History(Trim(c)), History(c))
    BY <2>11, TrimFacts
  <2>13. History(c) = History(b) \o data
    BY <2>8, <2>11 DEF History
  <2> QED BY <2>1, <2>12, <2>13
<1> QED BY <1>3, <1>5, <1>6

-----------------------------------------------------------------------------
(* The fold with which a channel is drained into the buffer.               *)

\* g folds append over any of the first n chunks of s, the last one last.
Folds(g, b, s, n) ==
  \A u \in SUBSET (1..n) : g[u] = IF u = {} THEN b ELSE append(g[u \ {Max(u)}], s[Max(u)])

\* The function that FoldLeft chooses.
FoldFunctionOf(g, b, s, N) ==
  g = [u \in SUBSET (1..N) |-> IF u = {} THEN b ELSE append(g[u \ {Max(u)}], s[Max(u)])]

LEMMA FoldExists ==
  ASSUME NEW b, NEW s, NEW N \in Nat
  PROVE  \E g : FoldFunctionOf(g, b, s, N)
<1> DEFINE S == {n \in Nat : \E g : Folds(g, b, s, n)}
<1>1. 0 \in S
  <2> DEFINE g == [u \in SUBSET (1..0) |-> b]
  <2>1. \A u \in SUBSET (1..0) : u = {}
    OBVIOUS
  <2>2. Folds(g, b, s, 0)
    BY <2>1 DEF Folds
  <2> QED BY <2>2
<1>2. ASSUME NEW n \in Nat, n \in S PROVE n + 1 \in S
  <2>1. PICK g : Folds(g, b, s, n)
    BY <1>2
  <2> DEFINE h == [u \in SUBSET (1..(n + 1)) |->
                     IF n + 1 \in u THEN append(g[u \ {n + 1}], s[n + 1]) ELSE g[u]]
  <2>2. ASSUME NEW u \in SUBSET (1..(n + 1))
        PROVE  h[u] = IF u = {} THEN b ELSE append(h[u \ {Max(u)}], s[Max(u)])
    <3>1. CASE u = {}
      <4>1. h[u] = g[u] /\ u \in SUBSET (1..n)
        BY <3>1
      <4> QED BY <2>1, <3>1, <4>1 DEF Folds
    <3>2. CASE u # {} /\ n + 1 \in u
      <4>1. n + 1 \in Nat /\ u \subseteq 0..(n + 1)
        OBVIOUS
      <4>2. Max(u) \in u /\ \A y \in u : y =< Max(u)
        BY <3>2, <4>1, GreatestElement
      <4>3. Max(u) = n + 1
        <5>1. Max(u) \in 0..(n + 1) /\ n + 1 =< Max(u)
          BY <3>2, <4>1, <4>2
        <5> QED BY <5>1
      <4>4. h[u \ {n + 1}] = g[u \ {n + 1}]
        OBVIOUS
      <4>5. h[u] = append(g[u \ {n + 1}], s[n + 1])
        BY <3>2
      <4> HIDE DEF h
      <4> QED BY <3>2, <4>3, <4>4, <4>5
    <3>3. CASE u # {} /\ n + 1 \notin u
      <4>1. u \in SUBSET (1..n) /\ u \subseteq 0..n
        BY <3>3
      <4>2. h[u] = g[u] /\ h[u \ {Max(u)}] = g[u \ {Max(u)}]
        BY <3>3
      <4> HIDE DEF h
      <4> QED BY <2>1, <3>3, <4>1, <4>2 DEF Folds
    <3> QED BY <3>1, <3>2, <3>3
  <2> HIDE DEF h
  <2>3. Folds(h, b, s, n + 1)
    BY <2>2 DEF Folds
  <2> QED BY <2>3
<1>3. N \in S
  <2> HIDE DEF S
  <2> QED BY <1>1, <1>2, NatSetInduction
<1>4. PICK g : Folds(g, b, s, N)
  BY <1>3
<1> DEFINE f == [u \in SUBSET (1..N) |-> g[u]]
<1>5. \A u \in SUBSET (1..N) : f[u] = IF u = {} THEN b ELSE append(f[u \ {Max(u)}], s[Max(u)])
  <2> TAKE u \in SUBSET (1..N)
  <2>1. f[u] = g[u] /\ f[u \ {Max(u)}] = g[u \ {Max(u)}]
    OBVIOUS
  <2> HIDE DEF f
  <2> QED BY <1>4, <2>1 DEF Folds
<1>6. f = [u \in SUBSET (1..N) |-> f[u]]
  OBVIOUS
<1> HIDE DEF f
<1>7. f = [u \in SUBSET (1..N) |-> IF u = {} THEN b ELSE append(f[u \ {Max(u)}], s[Max(u)])]
  BY <1>5, <1>6
<1> QED BY <1>7 DEF FoldFunctionOf

\* The fold, chunk by chunk: h[k] is what the first k of N make of b.
StepsOf(h, b, s, N) ==
  /\ h[0] = b
  /\ \A k \in 1..N : h[k] = append(h[k - 1], s[k])
  /\ append_all(b, s) = h[N]

LEMMA FoldSteps ==
  ASSUME NEW b, NEW s, NEW N \in Nat, DOMAIN s = 1..N
  PROVE  \E h : StepsOf(h, b, s, N)
<1> DEFINE f == CHOOSE g : FoldFunctionOf(g, b, s, N)
           h == [k \in 0..N |-> f[1..k]]
<1>1. FoldFunctionOf(f, b, s, N)
  BY FoldExists
<1>2. append_all(b, s) = f[1..N]
  BY DEF append_all, FoldLeft, MapThenFoldSet, FoldFunctionOf
<1> HIDE DEF f
<1>3. \A u \in SUBSET (1..N) : f[u] = IF u = {} THEN b ELSE append(f[u \ {Max(u)}], s[Max(u)])
  BY <1>1 DEF FoldFunctionOf
<1>4. h[0] = b
  <2>1. 1..0 = {} /\ h[0] = f[1..0] /\ {} \in SUBSET (1..N)
    OBVIOUS
  <2> HIDE DEF h
  <2> QED BY <1>3, <2>1
<1>5. ASSUME NEW k \in 1..N PROVE h[k] = append(h[k - 1], s[k])
  <2>1. h[k] = f[1..k] /\ h[k - 1] = f[1..(k - 1)]
    OBVIOUS
  <2>2. k \in 1..k /\ k \in Nat
    OBVIOUS
  <2>3. 1..k \in SUBSET (1..N)
    OBVIOUS
  <2>4. Max(1..k) = k
    <3>1. 1..k # {} /\ 1..k \subseteq 0..k
      <4>1. 1..k # {}
        BY <2>2, Zenon
      <4>2. 1..k \subseteq 0..k
        OBVIOUS
      <4> QED BY <4>1, <4>2
    <3>2. Max(1..k) \in 1..k /\ \A y \in 1..k : y =< Max(1..k)
      BY <2>2, <3>1, GreatestElement
    <3>3. k =< Max(1..k)
      BY <2>2, <3>2
    <3> QED BY <3>2, <3>3
  <2>5. (1..k) \ {k} = 1..(k - 1)
    OBVIOUS
  <2> HIDE DEF h
  <2>6. f[1..k] = append(f[(1..k) \ {k}], s[k])
    BY <1>3, <2>2, <2>3, <2>4
  <2> QED BY <2>1, <2>5, <2>6
<1>6. h[N] = f[1..N]
  OBVIOUS
<1> HIDE DEF h
<1> QED BY <1>2, <1>4, <1>5, <1>6 DEF StepsOf

(* A channel that is drained into the history of a terminal (read_outputs, *)
(* OutputBuffer::append): the history is the end of what it was followed by*)
(* all that came, in order.  Nothing is missing inside it, repeated or     *)
(* reordered, however the chunks were cut into lines and whatever the      *)
(* arithmetic on the size did.                                             *)
THEOREM HistoryIsEnd ==
  ASSUME NEW B, NEW b \in OutputBufferType(B), NEW chan \in Seq(Seq(B))
  PROVE  /\ append_all(b, chan) \in OutputBufferType(B)
         /\ IsEndOf(B, History(append_all(b, chan)), History(b) \o FlattenSeq(chan))
<1> DEFINE N == Len(chan)
           came(k) == History(b) \o FlattenSeq(SubSeq(chan, 1, k))
<1>1. N \in Nat /\ DOMAIN chan = 1..N
  BY LenProperties
<1>2a. PICK h : StepsOf(h, b, chan, N)
  BY <1>1, FoldSteps
<1>2. /\ h[0] = b
      /\ \A k \in 1..N : h[k] = append(h[k - 1], chan[k])
      /\ append_all(b, chan) = h[N]
  BY <1>2a DEF StepsOf
<1> DEFINE S == {k \in Nat : k =< N => /\ h[k] \in OutputBufferType(B)
                                       /\ came(k) \in Seq(B)
                                       /\ IsEndOf(B, History(h[k]), came(k))}
<1>3. \A x \in OutputBufferType(B) : History(x) \in Seq(B)
  BY FlattenSeqType DEF History, OutputBufferType
<1>4. 0 \in S
  <2>1. FlattenSeq(SubSeq(chan, 1, 0)) = << >>
    BY SubSeqEmpty DEF FlattenSeq
  <2>2. came(0) = History(b)
    BY <1>3, <2>1, ConcatEmptySeq
  <2> HIDE DEF came
  <2> QED BY <1>2, <1>3, <2>2, EndOfItself
<1>5. ASSUME NEW k \in Nat, k \in S PROVE k + 1 \in S
  <2> SUFFICES ASSUME k + 1 =< N
               PROVE  /\ h[k + 1] \in OutputBufferType(B)
                      /\ came(k + 1) \in Seq(B)
                      /\ IsEndOf(B, History(h[k + 1]), came(k + 1))
    OBVIOUS
  <2>1. /\ h[k] \in OutputBufferType(B) /\ came(k) \in Seq(B)
        /\ IsEndOf(B, History(h[k]), came(k))
    BY <1>1, <1>5
  <2>2. k + 1 \in 1..N /\ (k + 1) - 1 = k
    BY <1>1
  <2>3. h[k + 1] = append(h[k], chan[k + 1])
    <3>1. h[k + 1] = append(h[(k + 1) - 1], chan[k + 1])
      BY <1>2, <2>2, Zenon
    <3> QED BY <2>2, <3>1
  <2> DEFINE x == chan[k + 1]
             f == FlattenSeq(SubSeq(chan, 1, k))
  <2>4. /\ x \in Seq(B) /\ SubSeq(chan, 1, k) \in Seq(Seq(B))
        /\ SubSeq(chan, 1, k + 1) = Append(SubSeq(chan, 1, k), x)
    <3>1. /\ chan[k + 1] \in Seq(B) /\ SubSeq(chan, 1, (k + 1) - 1) \in Seq(Seq(B))
          /\ SubSeq(chan, 1, k + 1) = Append(SubSeq(chan, 1, (k + 1) - 1), chan[k + 1])
      BY <2>2, SubSeqAppend
    <3> QED BY <2>2, <3>1
  <2> HIDE DEF x
  <2>5. FlattenSeq(SubSeq(chan, 1, k + 1)) = f \o x /\ f \in Seq(B)
    BY <2>4, FlattenSeqAppend, FlattenSeqType
  <2> HIDE DEF f, S
  <2>6. came(k + 1) = came(k) \o x
    <3> DEFINE a == History(b)
    <3> HIDE DEF a
    <3>1. a \in Seq(B) /\ f \in Seq(B) /\ x \in Seq(B)
      BY <1>3, <2>4, <2>5 DEF a
    <3>2. (a \o f) \o x = a \o (f \o x)
      BY ONLY <3>1, ConcatAssociative, SMTT(60)
    <3> QED BY <2>5, <3>2 DEF a, f
  <2> HIDE DEF came
  <2>7. came(k + 1) \in Seq(B)
    BY <2>1, <2>4, <2>6, ConcatProperties
  <2>8. /\ h[k + 1] \in OutputBufferType(B)
        /\ IsEndOf(B, History(h[k + 1]), History(h[k]) \o x)
    BY <2>1, <2>3, <2>4, AppendFacts DEF x
  <2>9. History(h[k]) \in Seq(B) /\ History(h[k + 1]) \in Seq(B) /\ History(h[k]) \o x \in Seq(B)
    BY <1>3, <2>1, <2>4, <2>8, ConcatProperties
  <2>10. IsEndOf(B, History(h[k]) \o x, came(k) \o x)
    BY <2>1, <2>4, <2>9, EndOfMore
  <2>11. IsEndOf(B, History(h[k + 1]), came(k + 1))
    BY <2>6, <2>7, <2>8, <2>9, <2>10, EndOfEnd
  <2> QED BY <2>7, <2>8, <2>11
<1>6. N \in S
  <2> HIDE DEF S
  <2> QED BY <1>1, <1>4, <1>5, NatSetInduction
<1>7. SubSeq(chan, 1, N) = chan
  BY SubSeqFull
<1>8. h[N] \in OutputBufferType(B) /\ IsEndOf(B, History(h[N]), came(N))
  BY <1>1, <1>6
<1> QED BY <1>2, <1>7, <1>8

(* What is replayed to a client that comes back (OutputBuffer::get_recent) *)
(* is the end of the history, and no more than was asked for.              *)
THEOREM ReplayIsEnd ==
  ASSUME NEW B, NEW b \in OutputBufferType(B), NEW max \in Nat
  PROVE  /\ get_recent(b, max) \in Seq(B)
         /\ Len(get_recent(b, max)) <= max
         /\ IsEndOf(B, get_recent(b, max), History(b))
<1> DEFINE lines == b.lines
           n == Len(lines)
           fits == {k \in 0..n : Bytes(lines, n) - Bytes(lines, k) <= max}
           k == Min(fits)
<1>1. lines \in Seq(Seq(B)) /\ n \in Nat
  BY LenProperties DEF OutputBufferType
<1>2. \A i \in 0..n : Bytes(lines, i) \in Nat
  BY <1>1, BytesStep
<1>3. n \in fits
  BY <1>1, <1>2
<1>4. fits \subseteq Nat
  BY <1>1
<1>5. k \in fits /\ \A i \in fits : k =< i
  <2> HIDE DEF fits
  <2> QED BY <1>3, <1>4, LeastElement
<1>6. get_recent(b, max) = IF k = n /\ n > 0 /\ max > 0
                           THEN SubSeq(Last(lines), Len(Last(lines)) - max + 1, Len(Last(lines)))
                           ELSE FlattenSeq(SubSeq(lines, k + 1, n))
  BY DEF get_recent
<1> HIDE DEF k
<1>7. k \in 0..n /\ Bytes(lines, n) - Bytes(lines, k) <= max
  BY <1>5
<1>8. CASE ~(k = n /\ n > 0 /\ max > 0)
  <2> DEFINE rest == FlattenSeq(SubSeq(lines, k + 1, n))
  <2>1. /\ rest \in Seq(B) /\ Len(rest) = Bytes(lines, n) - Bytes(lines, k)
        /\ FlattenSeq(lines) = FlattenSeq(SubSeq(lines, 1, k)) \o rest
    BY <1>1, <1>7, FlattenRest
  <2>2. get_recent(b, max) = rest
    BY <1>6, <1>8
  <2> HIDE DEF rest
  <2>3. FlattenSeq(SubSeq(lines, 1, k)) \in Seq(B)
    <3>1. \A i \in 1..k : lines[i] \in Seq(B)
      BY <1>1, <1>7, ElementOfSeq
    <3>2. SubSeq(lines, 1, k) \in Seq(Seq(B))
      BY <1>1, <1>7, <3>1, SubSeqProperties
    <3> QED BY <3>2, FlattenSeqType
  <2> QED BY <1>7, <2>1, <2>2, <2>3 DEF IsEndOf, History
<1>9. CASE k = n /\ n > 0 /\ max > 0
  <2> DEFINE line == lines[n]
             m == Len(line)
  <2>1. n - 1 \in 0..n /\ n - 1 \notin fits
    BY <1>1, <1>5, <1>9
  <2>2. ~(Bytes(lines, n) - Bytes(lines, n - 1) <= max)
    BY <2>1
  <2>3. line \in Seq(B) /\ m \in Nat /\ Bytes(lines, n) = Bytes(lines, n - 1) + m
    BY <1>1, <1>9, ElementOfSeq, LenProperties, BytesStep
  <2>4. m > max
    <3>1. Bytes(lines, n - 1) \in Nat
      BY <1>2, <2>1
    <3> HIDE DEF m
    <3> QED BY <2>2, <2>3, <3>1
  <2>5. Last(lines) = line
    BY DEF Last
  <2> DEFINE c == m - max
             front == SubSeq(line, 1, c)
             back == SubSeq(line, c + 1, m)
  <2>6. get_recent(b, max) = back
    <3>1. get_recent(b, max) = SubSeq(line, m - max + 1, m)
      BY <1>6, <1>9, <2>5
    <3> QED BY <3>1
  <2>7. c \in 1..m /\ m - c = max
    BY <1>9, <2>3, <2>4
  <2> HIDE DEF c
  <2>8. \A i \in 1..m : line[i] \in B
    BY <2>3, ElementOfSeq
  <2>9. front \in Seq(B) /\ back \in Seq(B) /\ Len(back) = max
    <3> HIDE DEF line, m
    <3>1. \A i \in 1..c : line[i] \in B
      BY <2>3, <2>7, <2>8
    <3>2. \A i \in c + 1..m : line[i] \in B
      BY <2>3, <2>7, <2>8
    <3>3. front \in Seq(B)
      BY <2>7, <3>1, SubSeqProperties
    <3>4. back \in Seq(B) /\ Len(back) = IF c + 1 <= m THEN m - (c + 1) + 1 ELSE 0
      BY <2>3, <2>7, <3>2, SubSeqProperties
    <3> QED BY <2>3, <2>7, <3>3, <3>4
  <2>10. line = front \o back
    <3>1. 1 \in 1..Len(line) + 1 /\ c \in (1 - 1)..Len(line) /\ m \in c..Len(line)
      BY <2>3, <2>7
    <3>2. front \o back = SubSeq(line, 1, m)
      BY <2>3, <3>1, ConcatAdjacentSubSeq
    <3> QED BY <2>3, <3>2, SubSeqFull
  <2> HIDE DEF front, back, line
  <2>11. IsEndOf(B, back, line)
    BY <2>9, <2>10 DEF IsEndOf
  <2>12. IsEndOf(B, line, History(b)) /\ History(b) \in Seq(B)
    <3> DEFINE before == SubSeq(lines, 1, n - 1)
    <3>1. n \in 1..Len(lines)
      BY <1>1, <1>9
    <3>2. before \in Seq(Seq(B)) /\ SubSeq(lines, 1, n) = Append(before, line)
      BY <1>1, <3>1, SubSeqAppend DEF line
    <3>3. lines = Append(before, line)
      BY <1>1, <3>2, SubSeqFull
    <3> HIDE DEF before
    <3>4. FlattenSeq(lines) = FlattenSeq(before) \o line /\ FlattenSeq(before) \in Seq(B)
      BY <2>3, <3>2, <3>3, FlattenSeqAppend, FlattenSeqType
    <3> QED BY <1>1, <3>4, FlattenSeqType DEF IsEndOf, History
  <2>13. IsEndOf(B, back, History(b))
    BY <2>3, <2>9, <2>11, <2>12, EndOfEnd
  <2> QED BY <2>6, <2>9, <2>13
<1> QED BY <1>8, <1>9

-----------------------------------------------------------------------------
(* What the operators on sessions return.                                  *)

LEMMA Constants ==
  /\ Conns \in Nat \ {0} /\ Conn \subseteq 0..Conns /\ Conn \subseteq Nat \ {0}
  /\ Ids \subseteq Nat /\ OpenRows \subseteq Rows /\ Rows \subseteq Nat \ {0}
  /\ ChannelSize \in Nat /\ ReplayBytes \in Nat /\ Attempts \in Nat /\ MaxErrors \in Nat
  /\ Sid = 1..Len(MaxOut) /\ Len(MaxOut) \in Nat /\ \A s \in Sid : MaxOut[s] \in Nat
  /\ NL \in Byte /\ 0 \in 0..Conns
BY TerminalAssumption, LenProperties, ElementOfSeq DEF Conn, Sid, Byte

\* Nothing but stop ends a shell; a session that is stopped stays so.
Keeps(x, y) == y.stopped = x.stopped /\ y.alive = x.alive

LEMMA NewSessionFacts ==
  ASSUME NEW r \in OpenRows
  PROVE  NewSession(r) \in Session /\ ~NewSession(r).stopped
<1>1. NewBuffer \in OutputBufferType(Byte)
  BY BufferAssumption DEF NewBuffer, OutputBufferType
<1>2. << >> \in Seq(Byte) /\ << >> \in Seq(Seq(Byte))
  OBVIOUS
<1>3. r \in Rows /\ r \in Nat /\ 0 \in 0..Attempts
  BY Constants
<1> QED BY <1>1, <1>2, <1>3 DEF NewSession, Session

LEMMA StopFacts ==
  ASSUME NEW x \in Session
  PROVE  stop(x) \in Session /\ stop(x).stopped /\ ~stop(x).alive
<1>1. << >> \in Seq(Byte) /\ << >> \in Seq(Seq(Byte)) /\ 0 \in 0..Attempts
  BY Constants
<1> QED BY <1>1 DEF stop, Session

LEMMA ReattachedFacts ==
  ASSUME NEW x \in Session
  PROVE  Reattached(x) \in Session /\ Keeps(x, Reattached(x))
<1>1. x.buf \in OutputBufferType(Byte)
  BY DEF Session
<1>2. get_recent(x.buf, ReplayBytes) \in Seq(Byte) /\ Attempts \in 0..Attempts
  BY <1>1, ReplayIsEnd, Constants
<1> QED BY <1>2 DEF Reattached, Session, Keeps

LEMMA DrainedFacts ==
  ASSUME NEW x \in Session
  PROVE  Drained(x) \in Session /\ Keeps(x, Drained(x))
<1>1. x.buf \in OutputBufferType(Byte) /\ x.chan \in Seq(Seq(Byte)) /\ << >> \in Seq(Seq(Byte))
  BY DEF Session
<1>2. append_all(x.buf, x.chan) \in OutputBufferType(Byte)
  BY <1>1, HistoryIsEnd
<1>3. (x.told \/ ~x.alive) \in BOOLEAN
  OBVIOUS
<1> QED BY <1>1, <1>2, <1>3 DEF Drained, Session, Keeps

LEMMA StreamedFacts ==
  ASSUME NEW x \in Session, NEW ok \in BOOLEAN
  PROVE  Streamed(x, ok) \in Session /\ Keeps(x, Streamed(x, ok))
<1> DEFINE y == [x EXCEPT !.pending = << >>]
<1>1. y \in Session /\ Keeps(x, y) /\ y.retries = x.retries /\ y.phase = x.phase
  <2>1. << >> \in Seq(Byte)
    OBVIOUS
  <2>2. y \in Session
    BY <2>1 DEF Session
  <2> QED BY <2>2 DEF Session, Keeps
<1> HIDE DEF y
<1>2. Resized(y) \in Session /\ Keeps(y, Resized(y))
  <2>1. TempRows(y.rows) \in Nat /\ y.rows \in Nat /\ Attempts \in 0..Attempts /\ 0 \in 0..Attempts
    <3>1. y.rows \in Rows
      BY <1>1 DEF Session
    <3>2. y.rows \in Nat \ {0}
      BY <3>1, Constants
    <3> QED BY <3>2, Constants DEF TempRows
  <2> QED BY <1>1, <2>1 DEF Resized, Session, Keeps
<1>3. CASE x.phase # "idle" /\ x.retries = 0
  <2>1. Streamed(x, ok) = [y EXCEPT !.phase = "idle"]
    BY <1>3 DEF Streamed, y
  <2> QED BY <1>1, <2>1 DEF Session, Keeps
<1>4. CASE x.phase # "idle" /\ x.retries > 0 /\ ~ok
  <2>1. Streamed(x, ok) = [y EXCEPT !.retries = @ - 1]
    BY <1>4 DEF Streamed, y
  <2>2. y.retries - 1 \in 0..Attempts
    BY <1>1, <1>4, Constants DEF Session
  <2> QED BY <1>1, <2>1, <2>2 DEF Session, Keeps
<1>5. CASE ~(x.phase # "idle" /\ x.retries = 0) /\ ~(x.phase # "idle" /\ x.retries > 0 /\ ~ok)
  <2>1. Streamed(x, ok) = Resized(y)
    BY <1>5 DEF Streamed, y
  <2> QED BY <1>1, <1>2, <2>1 DEF Keeps
<1> QED BY <1>3, <1>4, <1>5

\* Some sessions in the place of others.
LEMMA SessionsReplaced ==
  ASSUME NEW ss \in Seq(Session), NEW tt, DOMAIN tt = DOMAIN ss, tt = [s \in DOMAIN ss |-> tt[s]],
         \A s \in DOMAIN ss : tt[s] \in Session
  PROVE  tt \in Seq(Session)
<1>1. DOMAIN ss = 1..Len(ss) /\ Len(ss) \in Nat
  BY LenProperties
<1>2. tt \in [1..Len(ss) -> Session]
  BY <1>1
<1> QED BY <1>1, <1>2, SeqDef

\* Which sessions Dropped leaves alone.
Held(s, table, threads) ==
  s \in {table[i] : i \in DOMAIN table} \/ \E c \in Conn : \E e \in threads[c].todo : e[2] = s

LEMMA DroppedFacts ==
  ASSUME NEW ss \in Seq(Session), NEW table, NEW threads
  PROVE  LET tt == Dropped(ss, table, threads)
         IN  /\ tt \in Seq(Session) /\ DOMAIN tt = DOMAIN ss
             /\ \A s \in DOMAIN ss :
                  tt[s] = IF ss[s].stopped \/ Held(s, table, threads) THEN ss[s] ELSE stop(ss[s])
<1> DEFINE tt == Dropped(ss, table, threads)
<1>1. tt = [s \in DOMAIN ss |->
              IF ss[s].stopped \/ Held(s, table, threads) THEN ss[s] ELSE stop(ss[s])]
  BY DEF Dropped, Held
<1>2. \A s \in DOMAIN ss : ss[s] \in Session /\ stop(ss[s]) \in Session
  BY LenProperties, ElementOfSeq, StopFacts
<1> HIDE DEF tt
<1>3. /\ DOMAIN tt = DOMAIN ss /\ tt = [s \in DOMAIN ss |-> tt[s]]
      /\ \A s \in DOMAIN ss :
           tt[s] = IF ss[s].stopped \/ Held(s, table, threads) THEN ss[s] ELSE stop(ss[s])
  BY <1>1
<1>4. \A s \in DOMAIN ss : tt[s] \in Session
  BY <1>2, <1>3
<1>5. tt \in Seq(Session)
  BY <1>3, <1>4, SessionsReplaced
<1> QED BY <1>3, <1>5 DEF tt

-----------------------------------------------------------------------------
(* The table.                                                              *)

Table == UNION {[D -> Sid] : D \in SUBSET Ids}

LEMMA TableDef ==
  ASSUME NEW f
  PROVE  f \in Table <=> /\ DOMAIN f \subseteq Ids /\ f = [i \in DOMAIN f |-> f[i]]
                         /\ \A i \in DOMAIN f : f[i] \in Sid
<1>1. ASSUME f \in Table
      PROVE  /\ DOMAIN f \subseteq Ids /\ f = [i \in DOMAIN f |-> f[i]]
             /\ \A i \in DOMAIN f : f[i] \in Sid
  BY <1>1 DEF Table
<1>2. ASSUME DOMAIN f \subseteq Ids, f = [i \in DOMAIN f |-> f[i]],
             \A i \in DOMAIN f : f[i] \in Sid
      PROVE  f \in Table
  <2>1. f \in [DOMAIN f -> Sid]
    BY <1>2
  <2> QED BY <1>2, <2>1 DEF Table
<1> QED BY <1>1, <1>2

LEMMA ServiceTable ==
  ASSUME NEW v \in Service
  PROVE  /\ v.sessions \in Table /\ v.gen \in 0..Conns
         /\ v.persistent \in BOOLEAN /\ v.sync \in BOOLEAN
         /\ \A f \in Table : [v EXCEPT !.sessions = f] \in Service
BY DEF Service, Table

LEMMA WithoutFacts ==
  ASSUME NEW f \in Table, NEW D
  PROVE  /\ Without(f, D) \in Table
         /\ DOMAIN Without(f, D) = DOMAIN f \ D
         /\ \A i \in DOMAIN f \ D : Without(f, D)[i] = f[i]
<1> DEFINE g == Without(f, D)
<1>1. /\ DOMAIN g = DOMAIN f \ D /\ g = [i \in DOMAIN g |-> g[i]]
      /\ \A i \in DOMAIN f \ D : g[i] = f[i]
  BY DEF Without
<1> HIDE DEF g
<1>2. g \in Table
  BY <1>1, TableDef
<1> QED BY <1>1, <1>2 DEF g

LEMMA WithFacts ==
  ASSUME NEW f \in Table, NEW i \in Ids, NEW x \in Sid
  PROVE  /\ With(f, i, x) \in Table
         /\ DOMAIN With(f, i, x) = DOMAIN f \cup {i}
         /\ With(f, i, x)[i] = x
         /\ \A j \in DOMAIN f \ {i} : With(f, i, x)[j] = f[j]
<1> DEFINE g == With(f, i, x)
<1>1. /\ DOMAIN g = DOMAIN f \cup {i} /\ g = [j \in DOMAIN g |-> g[j]]
      /\ g[i] = x /\ \A j \in DOMAIN f \ {i} : g[j] = f[j]
  BY DEF With
<1> HIDE DEF g
<1>2. DOMAIN f \subseteq Ids /\ \A j \in DOMAIN f : f[j] \in Sid
  BY TableDef
<1>3. g \in Table
  BY <1>1, <1>2, TableDef
<1> QED BY <1>1, <1>3 DEF g

Injective(f) == \A i, j \in DOMAIN f : f[i] = f[j] => i = j

\* The table with which handle_open goes on: the sessions are those of the service.
LEMMA RemappedFacts ==
  ASSUME svc \in Service, NEW i \in Ids
  PROVE  LET t == Remapped(i)
         IN  /\ t \in Table
             /\ \A j \in DOMAIN t : \E k \in DOMAIN svc.sessions : t[j] = svc.sessions[k]
             /\ Injective(svc.sessions) => Injective(t)
             /\ ~svc.sync => t = svc.sessions
<1> DEFINE f == svc.sessions
           t == Remapped(i)
           low == Min(DOMAIN f)
           g == Without(f, {low})
<1>1. f \in Table
  BY ServiceTable
<1>2. CASE i \in DOMAIN f \/ ~svc.sync \/ f = << >>
  <2>1. t = f
    BY <1>2 DEF Remapped
  <2> QED BY <1>1, <2>1
<1>3. CASE ~(i \in DOMAIN f \/ ~svc.sync \/ f = << >>)
  <2>1. t = With(g, i, f[low])
    BY <1>3 DEF Remapped
  <2>2. DOMAIN f \subseteq Nat /\ DOMAIN f # {}
    <3>1. f = [j \in DOMAIN f |-> f[j]] /\ DOMAIN f \subseteq Nat
      BY <1>1, TableDef, Constants
    <3>2. ASSUME DOMAIN f = {} PROVE f = << >>
      BY <3>1, <3>2
    <3> QED BY <1>3, <3>1, <3>2
  <2>3. low \in DOMAIN f
    BY <2>2, LeastElement
  <2> HIDE DEF f, low, t
  <2>4. /\ g \in Table /\ DOMAIN g = DOMAIN f \ {low}
        /\ \A j \in DOMAIN f \ {low} : g[j] = f[j]
    BY <1>1, WithoutFacts
  <2>5. f[low] \in Sid
    BY <1>1, <2>3, TableDef
  <2> HIDE DEF g
  <2>6. /\ t \in Table /\ DOMAIN t = DOMAIN g \cup {i} /\ t[i] = f[low]
        /\ \A j \in DOMAIN g \ {i} : t[j] = g[j]
    <3> DEFINE x == f[low]
    <3> HIDE DEF x
    <3>1. x \in Sid /\ t = With(g, i, x) /\ g \in Table
      BY <2>1, <2>4, <2>5 DEF x
    <3>2. /\ With(g, i, x) \in Table /\ DOMAIN With(g, i, x) = DOMAIN g \cup {i}
          /\ With(g, i, x)[i] = x /\ \A j \in DOMAIN g \ {i} : With(g, i, x)[j] = g[j]
      BY <3>1, WithFacts
    <3> QED BY <3>1, <3>2 DEF x
  <2>7. i \notin DOMAIN f /\ svc.sync
    BY <1>3, ServiceTable
  <2>8. \A j \in DOMAIN t : \/ j = i /\ t[j] = f[low]
                            \/ j # i /\ j # low /\ j \in DOMAIN f /\ t[j] = f[j]
    BY <2>4, <2>6, <2>7
  <2>9. ASSUME Injective(f) PROVE Injective(t)
    <3> SUFFICES ASSUME NEW j \in DOMAIN t, NEW k \in DOMAIN t, t[j] = t[k] PROVE j = k
      BY DEF Injective
    <3>1. \A x, y \in DOMAIN f : f[x] = f[y] => x = y
      BY <2>9 DEF Injective
    <3> QED BY <2>3, <2>8, <3>1
  <2> QED BY <2>3, <2>6, <2>7, <2>8, <2>9 DEF f, t
<1> QED BY <1>2, <1>3

-----------------------------------------------------------------------------
(* Type correctness, action by action.                                     *)

LEMMA SessionAt ==
  ASSUME TypeOK, NEW s \in DOMAIN sess
  PROVE  sess[s] \in Session
BY LenProperties, ElementOfSeq DEF TypeOK

LEMMA IdleTypes ==
  /\ NoService \in Service /\ Off \in Thread /\ NoClient \in Client
  /\ NoService.sessions = << >> /\ DOMAIN NoService.sessions = {}
  /\ NoClient.opened \subseteq NoClient.used /\ NoClient.used \subseteq NoClient.known
<1>1. << >> \in [{} -> Sid] /\ {} \in SUBSET Ids /\ DOMAIN << >> = {}
  OBVIOUS
<1>2. << >> \in Seq(Byte) /\ << >> \in Seq(Ids \X Seq(Byte)) /\ 0 \in 0..Conns
  BY Constants
<1>3. NoService \in Service
  BY <1>1, <1>2 DEF NoService, Service
<1>4. Off \in Thread
  BY <1>2 DEF Off, Thread
<1>5. NoClient \in Client
  BY <1>2 DEF NoClient, Client
<1> QED BY <1>1, <1>3, <1>4, <1>5 DEF NoService, NoClient

LEMMA InitTypes == Init => TypeOK
<1> SUFFICES ASSUME Init PROVE TypeOK
  OBVIOUS
<1>1. /\ svc \in Service /\ run \in [Conn -> Thread] /\ client \in Client
      /\ conn \in [Conn -> {"none", "live", "closing", "gone"}]
  BY IdleTypes DEF Init
<1>2. sess \in Seq(Session) /\ DOMAIN sess = {} /\ DOMAIN svc.sessions = {}
  BY IdleTypes DEF Init
<1>3. \A c \in Conn : run[c].todo = {}
  BY DEF Init, Off
<1>4. client.opened \subseteq client.used /\ client.used \subseteq client.known
  BY IdleTypes DEF Init
<1>5. may \in Scenarios /\ doomed \in BOOLEAN /\ overlapped \in BOOLEAN /\ errors \in 0..MaxErrors
  <2>1. may \in Scenarios /\ doomed \in BOOLEAN /\ overlapped \in BOOLEAN
    BY Zenon DEF Init
  <2>2. errors \in 0..MaxErrors
    BY Constants DEF Init
  <2> QED BY <2>1, <2>2
<1> QED BY <1>1, <1>2, <1>3, <1>4, <1>5 DEF TypeOK

LEMMA ConnectTypes ==
  ASSUME TypeOK, NEW c \in Conn, NEW p \in BOOLEAN, init_terminal_service(c, p)
  PROVE  TypeOK'
<1>1. svc' \in Service /\ svc'.sessions = svc.sessions
  <2>1. svc \in Service /\ c \in 0..Conns
    BY Constants DEF TypeOK
  <2>2. CASE svc = NoService
    <3>1. svc' = [NoService EXCEPT !.gen = c, !.persistent = p, !.sync = TRUE]
      BY <2>2 DEF init_terminal_service, reset_status
    <3> QED BY <2>1, <2>2, <3>1, IdleTypes DEF Service
  <2>3. CASE svc # NoService
    <3>1. svc' = [svc EXCEPT !.persistent = p, !.sync = TRUE]
      BY <2>3 DEF init_terminal_service, reset_status
    <3> QED BY <2>1, <3>1 DEF Service
  <2> QED BY <2>2, <2>3
<1>2. /\ sess' \in Seq(Session) /\ DOMAIN sess' = DOMAIN sess
      /\ \A s \in DOMAIN sess : sess'[s].stopped = sess[s].stopped
  <2> DEFINE reset(x) == [x EXCEPT !.active = FALSE, !.pending = << >>, !.phase = "idle", !.retries = 0]
  <2>1. \A x \in Session : reset(x) \in Session /\ reset(x).stopped = x.stopped
    <3>1. << >> \in Seq(Byte) /\ 0 \in 0..Attempts
      BY Constants
    <3> QED BY <3>1 DEF Session
  <2>2. sess' = [s \in DOMAIN sess |-> IF \E i \in DOMAIN svc.sessions : svc.sessions[i] = s
                                       THEN reset(sess[s]) ELSE sess[s]]
    BY DEF init_terminal_service
  <2> HIDE DEF reset
  <2>3. /\ DOMAIN sess' = DOMAIN sess /\ sess' = [s \in DOMAIN sess |-> sess'[s]]
        /\ \A s \in DOMAIN sess : sess'[s] \in {sess[s], reset(sess[s])}
    BY <2>2
  <2>4. \A s \in DOMAIN sess : sess'[s] \in Session /\ sess'[s].stopped = sess[s].stopped
    BY <2>1, <2>3, SessionAt
  <2>5. sess' \in Seq(Session)
    BY <2>3, <2>4, SessionsReplaced DEF TypeOK
  <2> QED BY <2>3, <2>4, <2>5
<1>3. run' \in [Conn -> Thread] /\ \A d \in Conn : run'[d].todo = run[d].todo
  <2>1. run' = [run EXCEPT ![c].pc = "poll"] /\ run \in [Conn -> Thread]
    BY DEF init_terminal_service, TypeOK
  <2> QED BY <2>1, ZenonT(60) DEF Thread
<1>4. /\ client' \in Client /\ client'.opened \subseteq client'.used
      /\ client'.used \subseteq client'.known
  <2>1. client' = [NoClient EXCEPT !.cur = c] /\ c \in 0..Conns
    BY Constants DEF init_terminal_service
  <2> QED BY <2>1, IdleTypes DEF Client, NoClient
<1>5. conn' \in [Conn -> {"none", "live", "closing", "gone"}] /\ overlapped' \in BOOLEAN
  BY DEF init_terminal_service, TypeOK
<1>6. may' \in Scenarios /\ doomed' \in BOOLEAN /\ errors' \in 0..MaxErrors
  BY DEF init_terminal_service, TypeOK
<1>7. \A i \in DOMAIN svc'.sessions :
        svc'.sessions[i] \in DOMAIN sess' /\ ~sess'[svc'.sessions[i]].stopped
  BY <1>1, <1>2 DEF TypeOK
<1>8. \A d \in Conn : \A e \in run'[d].todo : e[2] \in DOMAIN sess'
  BY <1>2, <1>3 DEF TypeOK
<1>9. DOMAIN sess' \subseteq Sid
  BY <1>2 DEF TypeOK
<1> QED BY <1>1, <1>2, <1>3, <1>4, <1>5, <1>6, <1>7, <1>8, <1>9 DEF TypeOK

LEMMA DisconnectTypes ==
  ASSUME TypeOK, NEW c \in Conn, Disconnect(c)
  PROVE  TypeOK'
<1>1. /\ client' \in Client /\ client'.opened \subseteq client'.used
      /\ client'.used \subseteq client'.known
  BY IdleTypes DEF Disconnect, TypeOK
<1>2. conn' \in [Conn -> {"none", "live", "closing", "gone"}]
  BY DEF Disconnect, TypeOK
<1> QED BY <1>1, <1>2 DEF Disconnect, TypeOK

LEMMA PersistTypes ==
  ASSUME TypeOK, NEW c \in Conn, NEW p \in BOOLEAN, update_terminal_persistence(c, p)
  PROVE  TypeOK'
<1>1. svc' \in Service /\ svc'.sessions = svc.sessions
  <2>1. svc \in Service /\ svc' = [svc EXCEPT !.persistent = p]
    BY DEF update_terminal_persistence, TypeOK
  <2> QED BY <2>1 DEF Service
<1> QED BY <1>1 DEF update_terminal_persistence, TypeOK

\* Steps that change sessions only, and stop none.
LEMMA OneSessionTypes ==
  ASSUME TypeOK, NEW s \in DOMAIN sess, NEW x \in Session, x.stopped = sess[s].stopped,
         sess' = [sess EXCEPT ![s] = x],
         UNCHANGED <<may, svc, conn, run, client, doomed, overlapped, errors>>
  PROVE  TypeOK'
<1>1. sess \in Seq(Session) /\ s \in 1..Len(sess) /\ DOMAIN sess = 1..Len(sess)
  BY LenProperties DEF TypeOK
<1>2. sess' \in Seq(Session)
  BY <1>1, ExceptSeq
<1>3. DOMAIN sess' = DOMAIN sess /\ \A t \in DOMAIN sess : sess'[t].stopped = sess[t].stopped
  BY <1>1
<1> QED BY <1>2, <1>3 DEF TypeOK

LEMMA ResizeTypes ==
  ASSUME TypeOK, NEW c \in Conn, NEW i \in Ids, NEW r \in Rows, handle_resize(c, i, r)
  PROVE  TypeOK'
<1> DEFINE s == svc.sessions[i]
           x == [sess[s] EXCEPT !.rows = r, !.pty = r]
<1>1. s \in DOMAIN sess
  BY DEF handle_resize, TypeOK
<1>2. sess[s] \in Session /\ r \in Nat
  BY <1>1, SessionAt, Constants
<1>3. x \in Session /\ x.stopped = sess[s].stopped
  BY <1>2 DEF Session
<1>4. sess' = [sess EXCEPT ![s] = x]
  BY <1>1, <1>2 DEF handle_resize, Session
<1> HIDE DEF x, s
<1> QED BY <1>1, <1>3, <1>4, OneSessionTypes DEF handle_resize

LEMMA ShellExitTypes ==
  ASSUME TypeOK, NEW s \in DOMAIN sess, ShellExit(s)
  PROVE  TypeOK'
<1> DEFINE x == [sess[s] EXCEPT !.alive = FALSE]
<1>1. x \in Session /\ x.stopped = sess[s].stopped
  BY SessionAt DEF Session
<1>2. sess' = [sess EXCEPT ![s] = x]
  BY DEF ShellExit
<1> HIDE DEF x
<1> QED BY <1>1, <1>2, OneSessionTypes DEF ShellExit

LEMMA OutputTypes ==
  ASSUME TypeOK, NEW s \in DOMAIN sess, Output(s)
  PROVE  TypeOK'
<1> DEFINE x == sess[s]
           n == x.out + 1
           chunk == IF n \in LineEnds THEN <<<<s, n>>, NL>> ELSE <<<<s, n>>>>
           y == IF Len(x.chan) < ChannelSize
                THEN [x EXCEPT !.out = n, !.chan = Append(@, chunk)]
                ELSE [x EXCEPT !.out = n, !.lost = @ \cup {n}]
<1>1. x \in Session
  BY SessionAt
<1>2. n \in Nat \ {0} /\ x.lost \in SUBSET Nat /\ x.chan \in Seq(Seq(Byte))
  BY <1>1 DEF Session
<1>3. chunk \in Seq(Byte)
  <2>1. s \in Sid /\ NL \in Byte
    BY Constants DEF TypeOK
  <2>2. <<s, n>> \in Byte
    BY <1>2, <2>1 DEF Byte
  <2> HIDE DEF n
  <2> QED BY <2>1, <2>2
<1> HIDE DEF n, chunk
<1>4. Append(x.chan, chunk) \in Seq(Seq(Byte)) /\ x.lost \cup {n} \in SUBSET Nat
  BY <1>2, <1>3, AppendProperties
<1> HIDE DEF x
<1>5. y \in Session /\ y.stopped = x.stopped
  BY <1>1, <1>2, <1>4 DEF Session
<1>6. sess' = [sess EXCEPT ![s] = y]
  BY DEF Output, x, n, chunk
<1> HIDE DEF y
<1> QED BY <1>5, <1>6, OneSessionTypes DEF Output, x

LEMMA OpenTypes ==
  ASSUME TypeOK, NEW c \in Conn, NEW i \in Ids, NEW r \in OpenRows, handle_open(c, i, r)
  PROVE  TypeOK'
<1> DEFINE table == Remapped(i)
           s == IF i \in DOMAIN table THEN table[i] ELSE Len(sess) + 1
<1>1. svc \in Service /\ sess \in Seq(Session) /\ DOMAIN sess = 1..Len(sess) /\ Len(sess) \in Nat
  BY LenProperties DEF TypeOK
<1>2. /\ table \in Table
      /\ \A j \in DOMAIN table : \E k \in DOMAIN svc.sessions : table[j] = svc.sessions[k]
  BY <1>1, RemappedFacts
<1>3. /\ s \in Sid
      /\ sess' = IF i \in DOMAIN table THEN [sess EXCEPT ![s] = Reattached(@)]
                                       ELSE Append(sess, NewSession(r))
      /\ svc' = [svc EXCEPT !.sessions = With(table, i, s), !.sync = FALSE]
      /\ client' = [client EXCEPT !.opened = @ \cup {i}, !.used = @ \cup {i},
                      !.known = @ \cup {i} \cup persistent_sessions(table, i)]
      /\ UNCHANGED <<may, conn, run, doomed, overlapped, errors>>
  BY DEF handle_open
<1> HIDE DEF table
<1>4. \A j \in DOMAIN table : table[j] \in DOMAIN sess /\ ~sess[table[j]].stopped
  BY <1>2 DEF TypeOK
<1>5. /\ sess' \in Seq(Session) /\ DOMAIN sess \subseteq DOMAIN sess'
      /\ DOMAIN sess' \subseteq Sid /\ s \in DOMAIN sess' /\ ~sess'[s].stopped
      /\ \A t \in DOMAIN sess : sess'[t].stopped = sess[t].stopped
  <2>1. CASE i \in DOMAIN table
    <3>1. s \in DOMAIN sess /\ ~sess[s].stopped /\ sess' = [sess EXCEPT ![s] = Reattached(sess[s])]
      BY <1>3, <1>4, <2>1
    <3> HIDE DEF s
    <3>2. Reattached(sess[s]) \in Session /\ Reattached(sess[s]).stopped = sess[s].stopped
      BY <3>1, SessionAt, ReattachedFacts DEF Keeps
    <3>3. sess' \in Seq(Session)
      BY <1>1, <3>1, <3>2, ExceptSeq
    <3>4. DOMAIN sess' = DOMAIN sess /\ \A t \in DOMAIN sess : sess'[t].stopped = sess[t].stopped
      BY <3>1, <3>2
    <3> QED BY <3>1, <3>3, <3>4 DEF TypeOK
  <2>2. CASE i \notin DOMAIN table
    <3>1. s = Len(sess) + 1 /\ sess' = Append(sess, NewSession(r))
      BY <1>3, <2>2
    <3>2. NewSession(r) \in Session /\ ~NewSession(r).stopped
      BY NewSessionFacts
    <3> HIDE DEF s
    <3>3. /\ sess' \in Seq(Session) /\ Len(sess') = Len(sess) + 1
          /\ sess'[Len(sess) + 1] = NewSession(r) /\ \A t \in 1..Len(sess) : sess'[t] = sess[t]
      BY <1>1, <3>1, <3>2, AppendProperties
    <3>4. DOMAIN sess' = DOMAIN sess \cup {s}
      BY <1>1, <3>1, <3>3, LenProperties
    <3> QED BY <1>1, <1>3, <3>1, <3>2, <3>3, <3>4 DEF TypeOK
  <2> QED BY <2>1, <2>2
<1>6. /\ With(table, i, s) \in Table /\ DOMAIN With(table, i, s) = DOMAIN table \cup {i}
      /\ With(table, i, s)[i] = s
      /\ \A j \in DOMAIN table \ {i} : With(table, i, s)[j] = table[j]
  <2>1. s \in Sid
    BY <1>3
  <2> HIDE DEF s
  <2> QED BY <1>2, <2>1, WithFacts, ZenonT(60)
<1> HIDE DEF s
<1>7. svc' \in Service /\ svc'.sessions = With(table, i, s)
  BY <1>1, <1>3, <1>6 DEF Service, Table
<1>8. \A j \in DOMAIN svc'.sessions :
        svc'.sessions[j] \in DOMAIN sess' /\ ~sess'[svc'.sessions[j]].stopped
  BY <1>4, <1>5, <1>6, <1>7
<1>9. /\ client' \in Client /\ client'.opened \subseteq client'.used
      /\ client'.used \subseteq client'.known
  <2>1. persistent_sessions(table, i) \subseteq Ids
    BY <1>2, TableDef DEF persistent_sessions
  <2> DEFINE others == persistent_sessions(table, i)
  <2> HIDE DEF others
  <2>2. client \in Client /\ others \subseteq Ids
    BY <2>1 DEF TypeOK, others
  <2>3. client' = [client EXCEPT !.opened = @ \cup {i}, !.used = @ \cup {i},
                     !.known = @ \cup {i} \cup others]
    BY <1>3 DEF others
  <2>4. client' \in Client
    BY <2>2, <2>3 DEF Client
  <2>5. /\ client'.opened = client.opened \cup {i} /\ client'.used = client.used \cup {i}
        /\ client'.known = client.known \cup {i} \cup others
    BY <2>2, <2>3 DEF Client
  <2> QED BY <2>4, <2>5 DEF TypeOK
<1>10. \A d \in Conn : \A e \in run'[d].todo : e[2] \in DOMAIN sess'
  BY <1>3, <1>5 DEF TypeOK
<1> QED BY <1>3, <1>5, <1>7, <1>8, <1>9, <1>10 DEF TypeOK

\* Steps that take terminals out of the table, and then let go of sessions.
LEMMA DropTypes ==
  ASSUME TypeOK, NEW table \in Table, NEW ss \in Seq(Session), DOMAIN ss = DOMAIN sess,
         \A s \in DOMAIN sess : ss[s].stopped = sess[s].stopped,
         svc' = [svc EXCEPT !.sessions = table], DOMAIN table \subseteq DOMAIN svc.sessions,
         \A i \in DOMAIN table : table[i] = svc.sessions[i],
         sess' = Dropped(ss, table, run')
  PROVE  /\ svc' \in Service /\ sess' \in Seq(Session) /\ DOMAIN sess' = DOMAIN sess
         /\ \A i \in DOMAIN svc'.sessions :
              svc'.sessions[i] \in DOMAIN sess' /\ ~sess'[svc'.sessions[i]].stopped
<1>1. svc' \in Service /\ svc'.sessions = table
  BY DEF TypeOK, Service, Table
<1>2. /\ sess' \in Seq(Session) /\ DOMAIN sess' = DOMAIN sess
      /\ \A s \in DOMAIN sess :
           sess'[s] = IF ss[s].stopped \/ Held(s, table, run') THEN ss[s] ELSE stop(ss[s])
  BY DroppedFacts
<1>3. ASSUME NEW i \in DOMAIN table PROVE table[i] \in DOMAIN sess /\ ~sess'[table[i]].stopped
  <2>1. table[i] \in DOMAIN sess /\ ~sess[table[i]].stopped
    BY DEF TypeOK
  <2>2. Held(table[i], table, run')
    BY DEF Held
  <2> QED BY <1>2, <2>1, <2>2
<1> QED BY <1>1, <1>2, <1>3

LEMMA SomeTerminals ==
  ASSUME NEW f \in Table, NEW D
  PROVE  /\ Without(f, D) \in Table /\ DOMAIN Without(f, D) = DOMAIN f \ D
         /\ \A i \in DOMAIN Without(f, D) : Without(f, D)[i] = f[i]
<1>1. /\ Without(f, D) \in Table /\ DOMAIN Without(f, D) = DOMAIN f \ D
      /\ \A i \in DOMAIN f \ D : Without(f, D)[i] = f[i]
  BY WithoutFacts
<1> QED BY <1>1

LEMMA CloseTypes ==
  ASSUME TypeOK, NEW c \in Conn, NEW i \in Ids, handle_close(c, i)
  PROVE  TypeOK'
<1> DEFINE table == Without(svc.sessions, {i})
<1>1. svc.sessions \in Table
  BY ServiceTable DEF TypeOK
<1>2. /\ table \in Table /\ DOMAIN table = DOMAIN svc.sessions \ {i}
      /\ \A j \in DOMAIN table : table[j] = svc.sessions[j]
  BY <1>1, SomeTerminals
<1>3. /\ i \in client.opened /\ client' = [client EXCEPT !.opened = @ \ {i}]
      /\ svc' = [svc EXCEPT !.sessions = table]
      /\ sess' = IF i \in DOMAIN svc.sessions
                 THEN Dropped([sess EXCEPT ![svc.sessions[i]].alive = FALSE,
                                           ![svc.sessions[i]].asked = TRUE], table, run)
                 ELSE sess
      /\ UNCHANGED <<may, conn, run, doomed, overlapped, errors>>
  BY DEF handle_close
<1> HIDE DEF table
<1>4. /\ svc' \in Service /\ sess' \in Seq(Session) /\ DOMAIN sess' = DOMAIN sess
      /\ \A j \in DOMAIN svc'.sessions :
           svc'.sessions[j] \in DOMAIN sess' /\ ~sess'[svc'.sessions[j]].stopped
  <2>1. CASE i \in DOMAIN svc.sessions
    <3> DEFINE s == svc.sessions[i]
               x == [sess[s] EXCEPT !.alive = FALSE, !.asked = TRUE]
               ss == [sess EXCEPT ![s] = x]
    <3>1. s \in DOMAIN sess /\ sess \in Seq(Session) /\ DOMAIN sess = 1..Len(sess)
      BY <2>1, LenProperties DEF TypeOK
    <3>2. sess[s] \in Session
      BY <3>1, SessionAt
    <3>3. x \in Session /\ x.stopped = sess[s].stopped
      BY <3>2 DEF Session
    <3>4. [sess EXCEPT ![s].alive = FALSE, ![s].asked = TRUE] = ss
      BY <3>1, <3>2 DEF Session
    <3>5. sess' = Dropped(ss, table, run')
      BY <1>3, <2>1, <3>4
    <3> HIDE DEF x, s
    <3>6. ss \in Seq(Session) /\ DOMAIN ss = DOMAIN sess
      BY <3>1, <3>3, ExceptSeq
    <3>7. \A t \in DOMAIN sess : ss[t].stopped = sess[t].stopped
      BY <3>1, <3>3
    <3> HIDE DEF ss
    <3> QED BY <1>2, <1>3, <3>5, <3>6, <3>7, DropTypes
  <2>2. CASE i \notin DOMAIN svc.sessions
    <3>1. svc' \in Service /\ svc'.sessions = table
      BY <1>2, <1>3 DEF TypeOK, Service, Table
    <3> QED BY <1>2, <1>3, <2>2, <3>1 DEF TypeOK
  <2> QED BY <2>1, <2>2
<1>5. /\ client' \in Client /\ client'.opened \subseteq client'.used
      /\ client'.used \subseteq client'.known
  <2>1. client \in Client
    BY DEF TypeOK
  <2>2. client' \in Client /\ client'.opened = client.opened \ {i}
        /\ client'.used = client.used /\ client'.known = client.known
    BY <1>3, <2>1 DEF Client
  <2> QED BY <2>2 DEF TypeOK
<1>6. \A d \in Conn : \A e \in run'[d].todo : e[2] \in DOMAIN sess'
  BY <1>3, <1>4 DEF TypeOK
<1> QED BY <1>3, <1>4, <1>5, <1>6 DEF TypeOK

LEMMA PollTypes ==
  ASSUME TypeOK, NEW c \in Conn, Poll(c)
  PROVE  TypeOK'
<1> DEFINE todo == {<<i, svc.sessions[i]>> : i \in DOMAIN svc.sessions}
           t == [Off EXCEPT !.pc = "read", !.gen = svc.gen, !.persistent = svc.persistent,
                            !.todo = todo]
<1>1. svc.gen \in 0..Conns /\ svc.persistent \in BOOLEAN /\ svc.sessions \in Table
  BY ServiceTable DEF TypeOK
<1>2. todo \in SUBSET (Ids \X Sid) /\ \A e \in todo : e[2] \in DOMAIN sess
  BY <1>1, TableDef DEF TypeOK
<1> HIDE DEF todo
<1>3. t \in Thread /\ t.todo = todo
  BY <1>1, <1>2, IdleTypes DEF Thread
<1>4. run' = [run EXCEPT ![c] = t] /\ run \in [Conn -> Thread]
  BY DEF Poll, TypeOK, todo
<1> HIDE DEF t
<1>5. /\ run' \in [Conn -> Thread]
      /\ \A d \in Conn : \A e \in run'[d].todo : e[2] \in DOMAIN sess
  BY <1>2, <1>3, <1>4 DEF TypeOK
<1> QED BY <1>5 DEF Poll, TypeOK

LEMMA ResponsesType ==
  ASSUME NEW x \in Session, NEW i \in Ids
  PROVE  DataResponses(i, x) \in Seq(Ids \X Seq(Byte))
<1> DEFINE R == Ids \X Seq(Byte)
           a == IF x.pending = << >> THEN << >> ELSE <<<<i, x.pending>>>>
           b == [k \in DOMAIN x.chan |-> <<i, x.chan[k]>>]
<1>1. x.pending \in Seq(Byte) /\ x.chan \in Seq(Seq(Byte))
  BY DEF Session
<1>2. a \in Seq(R)
  <2>1. <<i, x.pending>> \in R
    BY <1>1
  <2> HIDE DEF R
  <2> QED BY <2>1
<1>3. b \in Seq(R)
  <2>1. DOMAIN x.chan = 1..Len(x.chan) /\ Len(x.chan) \in Nat
    BY <1>1, LenProperties
  <2>2. \A k \in 1..Len(x.chan) : x.chan[k] \in Seq(Byte)
    BY <1>1, ElementOfSeq
  <2>3. b \in [1..Len(x.chan) -> R]
    BY <2>1, <2>2
  <2> HIDE DEF b, R
  <2> QED BY <2>1, <2>3, SeqDef
<1>4. DataResponses(i, x) = a \o b
  BY DEF DataResponses
<1> HIDE DEF a, b, R
<1>5. a \o b \in Seq(R)
  BY <1>2, <1>3, ConcatProperties
<1> QED BY <1>4, <1>5 DEF R

LEMMA PolledFacts ==
  ASSUME NEW t \in Thread, NEW i \in Ids, NEW s, NEW x \in Session
  PROVE  Polled(t, i, s, x) \in Thread /\ Polled(t, i, s, x).todo = t.todo \ {<<i, s>>}
<1> DEFINE todo == t.todo \ {<<i, s>>}
           pc == IF todo = {} THEN "finish" ELSE "read"
           out == IF x.active THEN t.out \o DataResponses(i, x) ELSE t.out
           closed == IF x.alive \/ x.told \/ x.stopped THEN t.closed ELSE t.closed \cup {i}
<1>1. Polled(t, i, s, x) = [t EXCEPT !.todo = todo, !.pc = pc, !.out = out, !.closed = closed]
  BY DEF Polled
<1>2. todo \in SUBSET (Ids \X Sid) /\ closed \in SUBSET Ids
  BY DEF Thread
<1>3. out \in Seq(Ids \X Seq(Byte))
  <2> DEFINE R == Ids \X Seq(Byte)
             d == DataResponses(i, x)
  <2>1. t.out \in Seq(R) /\ d \in Seq(R)
    BY ResponsesType DEF Thread
  <2> HIDE DEF R, d
  <2>2. t.out \o d \in Seq(R)
    BY <2>1, ConcatProperties
  <2> QED BY <2>1, <2>2 DEF R, d
<1>4. pc \in {"off", "poll", "read", "finish", "remove"}
  OBVIOUS
<1> HIDE DEF todo, pc, out, closed
<1>5. Polled(t, i, s, x) \in Thread /\ Polled(t, i, s, x).todo = todo
  BY <1>1, <1>2, <1>3, <1>4 DEF Thread
<1> QED BY <1>5 DEF todo

\* What a thread's poll of a session makes of the session and of the thread.
ReadOf(c, ok, e) ==
  LET x == sess[e[2]]
      y == Drained(x)
  IN  /\ run' = [run EXCEPT ![c] = Polled(run[c], e[1], e[2], x)]
      /\ sess' = Dropped([sess EXCEPT ![e[2]] = IF x.active THEN Streamed(y, ok) ELSE y],
                         svc.sessions, run')

LEMMA ReadSteps ==
  ASSUME TypeOK, NEW c \in Conn, NEW ok \in BOOLEAN, ReadSession(c, ok)
  PROVE  /\ run[c].pc = "read" /\ \E e \in run[c].todo : ReadOf(c, ok, e)
         /\ errors' \in 0..MaxErrors
         /\ UNCHANGED <<may, svc, conn, client, doomed, overlapped>>
<1>1. \A e : run[c] = run[c] /\ [run EXCEPT ![c] = Polled(@, e[1], e[2], sess[e[2]])]
                                  = [run EXCEPT ![c] = Polled(run[c], e[1], e[2], sess[e[2]])]
  OBVIOUS
<1>2. \E e \in run[c].todo : ReadOf(c, ok, e)
  BY DEF ReadSession, ReadOf
<1>3. errors' \in 0..MaxErrors
  <2>1. errors \in 0..MaxErrors /\ (errors' = errors \/ (errors < MaxErrors /\ errors' = errors + 1))
    BY DEF ReadSession, TypeOK
  <2> QED BY <2>1, Constants
<1> QED BY <1>2, <1>3 DEF ReadSession

LEMMA ReadTypes ==
  ASSUME TypeOK, NEW c \in Conn, NEW ok \in BOOLEAN, ReadSession(c, ok)
  PROVE  TypeOK'
<1>1. PICK e \in run[c].todo : ReadOf(c, ok, e)
  BY ReadSteps
<1>2. errors' \in 0..MaxErrors /\ UNCHANGED <<may, svc, conn, client, doomed, overlapped>>
  BY ReadSteps
<1> DEFINE i == e[1]
           s == e[2]
           x == sess[s]
           y == Drained(x)
           z == IF x.active THEN Streamed(y, ok) ELSE y
           ss == [sess EXCEPT ![s] = z]
           t == Polled(run[c], i, s, x)
<1>3. run \in [Conn -> Thread] /\ run[c] \in Thread /\ i \in Ids /\ s \in DOMAIN sess
  <2>1. run \in [Conn -> Thread] /\ run[c] \in Thread /\ s \in DOMAIN sess
    BY DEF TypeOK
  <2>2. e \in Ids \X Sid
    BY <2>1 DEF Thread
  <2> QED BY <2>1, <2>2
<1>4. run' = [run EXCEPT ![c] = t] /\ sess' = Dropped(ss, svc.sessions, run')
  BY <1>1 DEF ReadOf
<1> HIDE DEF i, s
<1>5. x \in Session
  BY <1>3, SessionAt
<1>6. z \in Session /\ Keeps(x, z)
  <2>1. y \in Session /\ Keeps(x, y)
    BY <1>5, DrainedFacts
  <2> HIDE DEF y
  <2>2. Streamed(y, ok) \in Session /\ Keeps(y, Streamed(y, ok))
    BY <2>1, StreamedFacts
  <2> QED BY <2>1, <2>2 DEF Keeps
<1>7. t \in Thread /\ t.todo \subseteq run[c].todo
  <2>1. t \in Thread /\ t.todo = run[c].todo \ {<<i, s>>}
    BY <1>3, <1>5, PolledFacts
  <2> QED BY <2>1
<1> HIDE DEF z, t
<1>8. /\ sess \in Seq(Session) /\ DOMAIN sess = 1..Len(sess)
      /\ ss \in Seq(Session) /\ DOMAIN ss = DOMAIN sess
      /\ \A k \in DOMAIN sess : ss[k].stopped = sess[k].stopped
  <2>1. sess \in Seq(Session) /\ DOMAIN sess = 1..Len(sess)
    BY LenProperties DEF TypeOK
  <2>2. ss \in Seq(Session) /\ DOMAIN ss = DOMAIN sess
    BY <1>3, <1>6, <2>1, ExceptSeq
  <2> QED BY <1>3, <1>6, <2>1, <2>2 DEF Keeps
<1> HIDE DEF ss
<1>9. svc.sessions \in Table /\ svc' = [svc EXCEPT !.sessions = svc.sessions]
  BY <1>2, ServiceTable DEF TypeOK, Service
<1>10. /\ sess' \in Seq(Session) /\ DOMAIN sess' = DOMAIN sess
       /\ \A j \in DOMAIN svc'.sessions :
            svc'.sessions[j] \in DOMAIN sess' /\ ~sess'[svc'.sessions[j]].stopped
  BY <1>4, <1>8, <1>9, DropTypes
<1>11. /\ run' \in [Conn -> Thread]
       /\ \A d \in Conn : \A f \in run'[d].todo : f[2] \in DOMAIN sess'
  BY <1>3, <1>4, <1>7, <1>10 DEF TypeOK
<1> QED BY <1>2, <1>10, <1>11 DEF TypeOK

LEMMA TypedSequence ==
  ASSUME NEW S, NEW n \in Nat, NEW f \in [1..n -> S]
  PROVE  f \in Seq(S)
BY SeqDef

LEMMA ShownType ==
  ASSUME NEW i \in Ids, NEW out \in Seq(Ids \X Seq(Byte)), client.got[i] \in Seq(Byte)
  PROVE  Shown(i, out) \in Seq(Byte)
<1> DEFINE f == [k \in DOMAIN out |-> IF out[k][1] = i THEN out[k][2] ELSE << >>]
<1>1. DOMAIN out = 1..Len(out) /\ Len(out) \in Nat
  BY LenProperties
<1>2. \A k \in 1..Len(out) : out[k] \in Ids \X Seq(Byte)
  BY ElementOfSeq
<1>3. \A k \in 1..Len(out) : out[k][2] \in Seq(Byte) /\ << >> \in Seq(Byte)
  BY <1>2
<1>4. f \in [1..Len(out) -> Seq(Byte)]
  BY <1>1, <1>3
<1>5. Shown(i, out) = client.got[i] \o FlattenSeq(f)
  BY DEF Shown
<1> HIDE DEF f
<1>6. f \in Seq(Seq(Byte))
  BY <1>1, <1>4, TypedSequence
<1>7. FlattenSeq(f) \in Seq(Byte)
  BY <1>6, FlattenSeqType
<1> QED BY <1>5, <1>7, ConcatProperties

LEMMA FinishTypes ==
  ASSUME TypeOK, NEW c \in Conn, Finish(c)
  PROVE  TypeOK'
<1> DEFINE table == IF run[c].persistent \/ svc.gen # run[c].gen THEN svc.sessions
                    ELSE Without(svc.sessions, run[c].closed)
           got == [i \in Ids |-> IF i \in client.known THEN Shown(i, run[c].out) ELSE client.got[i]]
<1>1. svc.sessions \in Table /\ run \in [Conn -> Thread] /\ run[c] \in Thread /\ client \in Client
  BY ServiceTable DEF TypeOK
<1>2. /\ table \in Table /\ DOMAIN table \subseteq DOMAIN svc.sessions
      /\ \A j \in DOMAIN table : table[j] = svc.sessions[j]
  <2>1. /\ Without(svc.sessions, run[c].closed) \in Table
        /\ DOMAIN Without(svc.sessions, run[c].closed) = DOMAIN svc.sessions \ run[c].closed
        /\ \A j \in DOMAIN Without(svc.sessions, run[c].closed) :
             Without(svc.sessions, run[c].closed)[j] = svc.sessions[j]
    BY <1>1, SomeTerminals
  <2> QED BY <1>1, <2>1
<1>3. /\ svc' = [svc EXCEPT !.sessions = table]
      /\ sess' = Dropped(sess, table, run)
      /\ client' = IF client.cur # c THEN client
                   ELSE [client EXCEPT !.opened = @ \ run[c].closed, !.got = got]
      /\ run' = [run EXCEPT ![c] = [Off EXCEPT !.pc = "poll"]]
      /\ UNCHANGED <<may, conn, doomed, overlapped, errors>>
  BY DEF Finish
<1>4. got \in [Ids -> Seq(Byte)]
  <2>1. client.got \in [Ids -> Seq(Byte)] /\ run[c].out \in Seq(Ids \X Seq(Byte))
    BY <1>1 DEF Client, Thread
  <2>2. \A i \in Ids : Shown(i, run[c].out) \in Seq(Byte)
    BY <2>1, ShownType
  <2> QED BY <2>1, <2>2
<1> HIDE DEF table, got
<1>5. /\ svc' \in Service /\ sess' \in Seq(Session) /\ DOMAIN sess' = DOMAIN sess
      /\ \A i \in DOMAIN svc'.sessions :
           svc'.sessions[i] \in DOMAIN sess' /\ ~sess'[svc'.sessions[i]].stopped
  <2>1. svc' \in Service /\ svc'.sessions = table
    BY <1>2, <1>3 DEF TypeOK, Service, Table
  <2>2. /\ sess' \in Seq(Session) /\ DOMAIN sess' = DOMAIN sess
        /\ \A s \in DOMAIN sess :
             sess'[s] = IF sess[s].stopped \/ Held(s, table, run) THEN sess[s] ELSE stop(sess[s])
    BY <1>3, DroppedFacts DEF TypeOK
  <2>3. ASSUME NEW i \in DOMAIN table PROVE table[i] \in DOMAIN sess /\ ~sess'[table[i]].stopped
    <3>1. table[i] \in DOMAIN sess /\ ~sess[table[i]].stopped
      BY <1>2 DEF TypeOK
    <3>2. Held(table[i], table, run)
      BY DEF Held
    <3> QED BY <2>2, <3>1, <3>2
  <2> QED BY <2>1, <2>2, <2>3
<1>6. /\ client' \in Client /\ client'.opened \subseteq client'.used
      /\ client'.used \subseteq client'.known
  <2>1. CASE client.cur # c
    BY <1>3, <2>1 DEF TypeOK
  <2>2. CASE client.cur = c
    <3>1. client' = [client EXCEPT !.opened = @ \ run[c].closed, !.got = got]
      BY <1>3, <2>2
    <3>2. /\ client' \in Client /\ client'.opened = client.opened \ run[c].closed
          /\ client'.used = client.used /\ client'.known = client.known
      BY <1>1, <1>4, <3>1 DEF Client
    <3> QED BY <3>2 DEF TypeOK
  <2> QED BY <2>1, <2>2
<1>7. /\ run' \in [Conn -> Thread]
      /\ \A d \in Conn : \A e \in run'[d].todo : e[2] \in DOMAIN sess'
  <2>1. [Off EXCEPT !.pc = "poll"] \in Thread /\ [Off EXCEPT !.pc = "poll"].todo = {}
    BY IdleTypes DEF Thread, Off
  <2> DEFINE t == [Off EXCEPT !.pc = "poll"]
  <2> HIDE DEF t
  <2>2. t \in Thread /\ t.todo = {} /\ run' = [run EXCEPT ![c] = t]
    BY <1>3, <2>1 DEF t
  <2> QED BY <1>1, <1>5, <2>2 DEF TypeOK
<1> QED BY <1>3, <1>5, <1>6, <1>7 DEF TypeOK

LEMMA ExitTypes ==
  ASSUME TypeOK, NEW c \in Conn, RunExit(c)
  PROVE  TypeOK'
<1> DEFINE pc == IF svc # NoService /\ ~svc.persistent THEN "remove" ELSE "off"
<1>1. /\ run' = [run EXCEPT ![c].pc = pc]
      /\ conn' = [conn EXCEPT ![c] = IF run'[c].pc = "off" THEN "gone" ELSE @]
      /\ UNCHANGED <<may, svc, sess, client, doomed, overlapped, errors>>
  BY DEF RunExit
<1>2. pc \in {"off", "poll", "read", "finish", "remove"}
  OBVIOUS
<1> HIDE DEF pc
<1>3. run' \in [Conn -> Thread] /\ \A d \in Conn : run'[d].todo = run[d].todo
  <2>1. run \in [Conn -> Thread]
    BY DEF TypeOK
  <2> QED BY <1>1, <1>2, <2>1, ZenonT(60) DEF Thread
<1>4. conn' \in [Conn -> {"none", "live", "closing", "gone"}]
  BY <1>1 DEF TypeOK
<1> QED BY <1>1, <1>3, <1>4 DEF TypeOK

LEMMA RemoveFacts ==
  ASSUME TypeOK, remove_service
  PROVE  /\ svc' \in Service /\ svc' = NoService
         /\ sess' \in Seq(Session) /\ DOMAIN sess' = DOMAIN sess
         /\ \A i \in DOMAIN svc'.sessions :
              svc'.sessions[i] \in DOMAIN sess' /\ ~sess'[svc'.sessions[i]].stopped
         /\ \A s \in DOMAIN sess : sess'[s] \in {sess[s], stop(sess[s])}
<1>1. svc' = NoService /\ svc' \in Service /\ DOMAIN svc'.sessions = {}
  BY IdleTypes DEF remove_service
<1>2. /\ DOMAIN sess' = DOMAIN sess /\ sess' = [s \in DOMAIN sess |-> sess'[s]]
      /\ \A s \in DOMAIN sess : sess'[s] \in {sess[s], stop(sess[s])}
  BY DEF remove_service
<1>3. \A s \in DOMAIN sess : sess'[s] \in Session
  BY <1>2, SessionAt, StopFacts
<1>4. sess' \in Seq(Session)
  BY <1>2, <1>3, SessionsReplaced DEF TypeOK
<1> QED BY <1>1, <1>2, <1>4

LEMMA RemoveTypes ==
  ASSUME TypeOK, NEW c \in Conn, RunRemove(c)
  PROVE  TypeOK'
<1>1. remove_service /\ UNCHANGED <<may, client, doomed, overlapped, errors>>
      /\ run' = [run EXCEPT ![c].pc = "off"] /\ conn' = [conn EXCEPT ![c] = "gone"]
  BY DEF RunRemove
<1>2. /\ svc' \in Service /\ sess' \in Seq(Session) /\ DOMAIN sess' = DOMAIN sess
      /\ \A i \in DOMAIN svc'.sessions :
           svc'.sessions[i] \in DOMAIN sess' /\ ~sess'[svc'.sessions[i]].stopped
  BY <1>1, RemoveFacts
<1>3. run' \in [Conn -> Thread] /\ \A d \in Conn : run'[d].todo = run[d].todo
  <2>1. run \in [Conn -> Thread]
    BY DEF TypeOK
  <2> QED BY <1>1, <2>1, ZenonT(60) DEF Thread
<1>4. conn' \in [Conn -> {"none", "live", "closing", "gone"}]
  BY <1>1 DEF TypeOK
<1> QED BY <1>1, <1>2, <1>3, <1>4 DEF TypeOK

LEMMA CleanupTypes ==
  ASSUME TypeOK, cleanup_inactive_services \/ CleanupRemove
  PROVE  TypeOK'
<1>1. CASE cleanup_inactive_services
  BY <1>1 DEF cleanup_inactive_services, TypeOK
<1>2. CASE CleanupRemove
  <2>1. remove_service /\ doomed' = FALSE /\ UNCHANGED <<may, conn, run, client, overlapped, errors>>
    BY <1>2 DEF CleanupRemove
  <2>2. /\ svc' \in Service /\ sess' \in Seq(Session) /\ DOMAIN sess' = DOMAIN sess
        /\ \A i \in DOMAIN svc'.sessions :
             svc'.sessions[i] \in DOMAIN sess' /\ ~sess'[svc'.sessions[i]].stopped
    BY <2>1, RemoveFacts
  <2> QED BY <2>1, <2>2 DEF TypeOK
<1> QED BY <1>1, <1>2

LEMMA NextTypes == TypeOK /\ [Next]_vars => TypeOK'
<1> SUFFICES ASSUME TypeOK, [Next]_vars PROVE TypeOK'
  OBVIOUS
<1>1. CASE UNCHANGED vars
  BY <1>1 DEF vars, TypeOK
<1>2. ASSUME NEW c \in Conn, NEW p \in BOOLEAN, init_terminal_service(c, p) PROVE TypeOK'
  BY <1>2, ConnectTypes
<1>3. ASSUME NEW c \in Conn, NEW p \in BOOLEAN, update_terminal_persistence(c, p) PROVE TypeOK'
  BY <1>3, PersistTypes
<1>4. ASSUME NEW c \in Conn, NEW i \in Ids, NEW r \in OpenRows, handle_open(c, i, r) PROVE TypeOK'
  BY <1>4, OpenTypes
<1>5. ASSUME NEW c \in Conn, NEW i \in Ids, NEW r \in Rows, handle_resize(c, i, r) PROVE TypeOK'
  BY <1>5, ResizeTypes
<1>6. ASSUME NEW c \in Conn, NEW i \in Ids, handle_close(c, i) PROVE TypeOK'
  BY <1>6, CloseTypes
<1>7. ASSUME NEW c \in Conn, Disconnect(c) PROVE TypeOK'
  BY <1>7, DisconnectTypes
<1>8. ASSUME NEW c \in Conn, ThreadStep(c) PROVE TypeOK'
  BY <1>8, PollTypes, FinishTypes, ExitTypes, RemoveTypes, ReadTypes DEF ThreadStep
<1>9. ASSUME NEW s \in DOMAIN sess, ShellExit(s) \/ Output(s) PROVE TypeOK'
  BY <1>9, ShellExitTypes, OutputTypes
<1>10. CASE cleanup_inactive_services \/ CleanupRemove
  BY <1>10, CleanupTypes
<1> QED BY <1>1, <1>2, <1>3, <1>4, <1>5, <1>6, <1>7, <1>8, <1>9, <1>10 DEF Next

(* Type correctness: the sessions' history and output are sequences of     *)
(* bytes whatever the sizes (OutputBuffer::append, get_recent,             *)
(* read_outputs), and a session that is in the service's table is never    *)
(* stopped.                                                                *)
THEOREM TypeCorrect == Spec => []TypeOK
<1>1. Init => TypeOK
  BY InitTypes
<1>2. TypeOK /\ [Next]_vars => TypeOK'
  BY NextTypes
<1> QED BY <1>1, <1>2, PTL DEF Spec

-----------------------------------------------------------------------------
(* Every session is known to the client.                                   *)

\* Steps that leave the table or take terminals out of it, and keep what the client
\* knows.
LEMMA ReachableKept ==
  ASSUME TypeOK, Reachable, DOMAIN svc'.sessions \subseteq DOMAIN svc.sessions,
         \A i \in DOMAIN svc'.sessions : svc'.sessions[i] = svc.sessions[i],
         svc'.sync = svc.sync, client'.cur \in {0, client.cur},
         client'.cur # 0 => client'.known = client.known
  PROVE  Reachable'
<1>1. ASSUME svc' # NoService, ~svc'.sync, client'.cur # 0
      PROVE  DOMAIN svc'.sessions \subseteq client'.known
  <2>1. CASE svc = NoService
    BY <2>1, IdleTypes
  <2>2. CASE svc # NoService
    BY <1>1, <2>2 DEF Reachable
  <2> QED BY <2>1, <2>2
<1> QED BY <1>1 DEF Reachable

LEMMA ReachableOpen ==
  ASSUME TypeOK, Reachable, NEW c \in Conn, NEW i \in Ids, NEW r \in OpenRows, handle_open(c, i, r)
  PROVE  Reachable'
<1> DEFINE table == Remapped(i)
           s == IF i \in DOMAIN table THEN table[i] ELSE Len(sess) + 1
<1>1. svc \in Service /\ DOMAIN sess = 1..Len(sess) /\ Len(sess) \in Nat /\ client \in Client
  BY LenProperties DEF TypeOK
<1>2. /\ table \in Table
      /\ \A j \in DOMAIN table : \E k \in DOMAIN svc.sessions : table[j] = svc.sessions[k]
      /\ Injective(svc.sessions) => Injective(table)
      /\ ~svc.sync => table = svc.sessions
  BY <1>1, RemappedFacts
<1>3. /\ s \in Sid /\ client.cur = c /\ svc # NoService
      /\ svc' = [svc EXCEPT !.sessions = With(table, i, s), !.sync = FALSE]
      /\ client' = [client EXCEPT !.opened = @ \cup {i}, !.used = @ \cup {i},
                      !.known = @ \cup {i} \cup persistent_sessions(table, i)]
  BY DEF handle_open, Asks
<1> HIDE DEF table
<1>4. Injective(table)
  <2>1. Injective(svc.sessions)
    BY DEF Reachable, Injective
  <2> QED BY <1>2, <2>1
<1>5. \A j \in DOMAIN table : table[j] \in 1..Len(sess)
  BY <1>1, <1>2 DEF TypeOK
<1>6. /\ DOMAIN svc'.sessions = DOMAIN table \cup {i} /\ svc'.sessions[i] = s
      /\ \A j \in DOMAIN table \ {i} : svc'.sessions[j] = table[j]
  <2>1. s \in Sid
    BY <1>3
  <2> HIDE DEF s
  <2>2. /\ DOMAIN With(table, i, s) = DOMAIN table \cup {i} /\ With(table, i, s)[i] = s
        /\ \A j \in DOMAIN table \ {i} : With(table, i, s)[j] = table[j]
    BY <1>2, <2>1, WithFacts, ZenonT(60)
  <2>3. svc'.sessions = With(table, i, s)
    BY <1>1, <1>3 DEF Service
  <2> QED BY <2>2, <2>3
<1>7. \A j \in DOMAIN table \ {i} : table[j] # s
  <2>1. CASE i \in DOMAIN table
    BY <1>4, <2>1 DEF Injective
  <2>2. CASE i \notin DOMAIN table
    BY <1>1, <1>5, <2>2
  <2> QED BY <2>1, <2>2
<1> HIDE DEF s
<1>8. ASSUME NEW j \in DOMAIN svc'.sessions, NEW k \in DOMAIN svc'.sessions,
             svc'.sessions[j] = svc'.sessions[k]
      PROVE  j = k
  <2>1. CASE j = i \/ k = i
    BY <1>6, <1>7, <1>8, <2>1
  <2>2. CASE j # i /\ k # i
    BY <1>4, <1>6, <1>8, <2>2 DEF Injective
  <2> QED BY <2>1, <2>2
<1>9. DOMAIN svc'.sessions \subseteq client'.known
  <2>1. client'.known = client.known \cup {i} \cup persistent_sessions(table, i)
    BY <1>1, <1>3 DEF Client
  <2>2. CASE svc.sync
    BY <1>6, <2>1, <2>2 DEF persistent_sessions
  <2>3. CASE ~svc.sync
    <3>1. client.cur # 0 /\ table = svc.sessions
      BY <1>2, <1>3, <2>3, Constants
    <3>2. DOMAIN svc.sessions \subseteq client.known
      BY <1>3, <2>3, <3>1 DEF Reachable
    <3> QED BY <1>6, <2>1, <3>1, <3>2
  <2> QED BY <2>2, <2>3
<1> QED BY <1>8, <1>9 DEF Reachable

LEMMA ReachableConnect ==
  ASSUME TypeOK, Reachable, NEW c \in Conn, NEW p \in BOOLEAN, init_terminal_service(c, p)
  PROVE  Reachable'
<1>1. svc \in Service
  BY DEF TypeOK
<1>2. CASE svc = NoService
  <2>1. svc' = [NoService EXCEPT !.gen = c, !.persistent = p, !.sync = TRUE]
    BY <1>2 DEF init_terminal_service, reset_status
  <2>2. svc'.sync /\ svc'.sessions = NoService.sessions
    BY <2>1 DEF NoService
  <2> QED BY <2>2, IdleTypes DEF Reachable
<1>3. CASE svc # NoService
  <2>1. svc' = [svc EXCEPT !.persistent = p, !.sync = TRUE]
    BY <1>3 DEF init_terminal_service, reset_status
  <2>2. svc'.sync /\ svc'.sessions = svc.sessions
    BY <1>1, <2>1 DEF Service
  <2> QED BY <2>2 DEF Reachable
<1> QED BY <1>2, <1>3

LEMMA ReachableClose ==
  ASSUME TypeOK, Reachable, NEW c \in Conn, NEW i \in Ids, handle_close(c, i)
  PROVE  Reachable'
<1> DEFINE table == Without(svc.sessions, {i})
<1>1. svc \in Service /\ client \in Client /\ svc.sessions \in Table
  BY ServiceTable DEF TypeOK
<1>2. /\ table \in Table /\ DOMAIN table = DOMAIN svc.sessions \ {i}
      /\ \A j \in DOMAIN table : table[j] = svc.sessions[j]
  BY <1>1, SomeTerminals
<1>3. svc' = [svc EXCEPT !.sessions = table] /\ client' = [client EXCEPT !.opened = @ \ {i}]
  BY DEF handle_close
<1> HIDE DEF table
<1>4. svc'.sessions = table /\ svc'.sync = svc.sync /\ client'.cur = client.cur
      /\ client'.known = client.known
  BY <1>1, <1>3 DEF Service, Client
<1> QED BY <1>2, <1>4, ReachableKept

LEMMA ReachableFinish ==
  ASSUME TypeOK, Reachable, NEW c \in Conn, Finish(c)
  PROVE  Reachable'
<1> DEFINE table == IF run[c].persistent \/ svc.gen # run[c].gen THEN svc.sessions
                    ELSE Without(svc.sessions, run[c].closed)
           got == [i \in Ids |-> IF i \in client.known THEN Shown(i, run[c].out) ELSE client.got[i]]
<1>1. svc \in Service /\ client \in Client /\ svc.sessions \in Table
  BY ServiceTable DEF TypeOK
<1>2. /\ DOMAIN table \subseteq DOMAIN svc.sessions
      /\ \A j \in DOMAIN table : table[j] = svc.sessions[j]
  <2>1. /\ DOMAIN Without(svc.sessions, run[c].closed) = DOMAIN svc.sessions \ run[c].closed
        /\ \A j \in DOMAIN Without(svc.sessions, run[c].closed) :
             Without(svc.sessions, run[c].closed)[j] = svc.sessions[j]
    BY <1>1, SomeTerminals
  <2> QED BY <2>1
<1>3. /\ svc' = [svc EXCEPT !.sessions = table]
      /\ client' = IF client.cur # c THEN client
                   ELSE [client EXCEPT !.opened = @ \ run[c].closed, !.got = got]
  BY DEF Finish
<1> HIDE DEF table, got
<1>4. svc'.sessions = table /\ svc'.sync = svc.sync
  BY <1>1, <1>3 DEF Service
<1>5. client'.cur = client.cur /\ client'.known = client.known
  BY <1>1, <1>3 DEF Client
<1> QED BY <1>2, <1>4, <1>5, ReachableKept

LEMMA NextReachable == TypeOK /\ Reachable /\ [Next]_vars => Reachable'
<1> SUFFICES ASSUME TypeOK, Reachable, [Next]_vars PROVE Reachable'
  OBVIOUS
<1>1. ASSUME svc' = svc, client' = client PROVE Reachable'
  BY <1>1 DEF Reachable
<1>2. ASSUME NEW c \in Conn, NEW p \in BOOLEAN, init_terminal_service(c, p) PROVE Reachable'
  BY <1>2, ReachableConnect
<1>3. ASSUME NEW c \in Conn, NEW p \in BOOLEAN, update_terminal_persistence(c, p) PROVE Reachable'
  <2>1. svc' = [svc EXCEPT !.persistent = p] /\ client' = client /\ svc \in Service
    BY <1>3 DEF update_terminal_persistence, TypeOK
  <2>2. svc'.sessions = svc.sessions /\ svc'.sync = svc.sync
    BY <2>1 DEF Service
  <2> QED BY <2>1, <2>2, ReachableKept
<1>4. ASSUME NEW c \in Conn, NEW i \in Ids, NEW r \in OpenRows, handle_open(c, i, r) PROVE Reachable'
  BY <1>4, ReachableOpen
<1>5. ASSUME NEW c \in Conn, NEW i \in Ids, handle_close(c, i) PROVE Reachable'
  BY <1>5, ReachableClose
<1>6. ASSUME NEW c \in Conn, Disconnect(c) PROVE Reachable'
  <2>1. svc' = svc /\ client' \in {client, NoClient}
    BY <1>6 DEF Disconnect
  <2> QED BY <2>1, ReachableKept DEF NoClient
<1>7. ASSUME NEW c \in Conn, Finish(c) PROVE Reachable'
  BY <1>7, ReachableFinish
<1>8. ASSUME remove_service, client' = client PROVE Reachable'
  <2>1. svc' = NoService
    BY <1>8 DEF remove_service
  <2> QED BY <2>1, IdleTypes DEF Reachable
<1>9. CASE UNCHANGED vars
  BY <1>1, <1>9 DEF vars
<1>10. ASSUME NEW c \in Conn, ThreadStep(c) PROVE Reachable'
  <2>1. CASE Finish(c)
    BY <1>7, <2>1
  <2>2. CASE RunRemove(c)
    BY <1>8, <2>2 DEF RunRemove
  <2>3. CASE Poll(c) \/ RunExit(c) \/ \E ok \in BOOLEAN : ReadSession(c, ok)
    BY <1>1, <2>3 DEF Poll, RunExit, ReadSession
  <2> QED BY <1>10, <2>1, <2>2, <2>3 DEF ThreadStep
<1>11. ASSUME NEW c \in Conn, NEW i \in Ids, NEW r \in Rows, handle_resize(c, i, r) PROVE Reachable'
  BY <1>1, <1>11 DEF handle_resize
<1>12. ASSUME NEW s \in DOMAIN sess, ShellExit(s) \/ Output(s) PROVE Reachable'
  BY <1>1, <1>12 DEF ShellExit, Output
<1>13. CASE cleanup_inactive_services \/ CleanupRemove
  BY <1>1, <1>8, <1>13 DEF cleanup_inactive_services, CleanupRemove
<1> QED BY <1>2, <1>3, <1>4, <1>5, <1>6, <1>9, <1>10, <1>11, <1>12, <1>13 DEF Next

(* No session survives unseen: whatever is opened, closed, remapped by     *)
(* handle_open or removed, on however many connections, each session is in *)
(* the table under one id, and a client that opened a terminal knows of    *)
(* every id (persistent_sessions in the answer of handle_open).            *)
THEOREM NoneUnseen == Spec => []Reachable
<1>1. Init => TypeOK /\ Reachable
  <2>1. Init => DOMAIN svc.sessions = {}
    BY IdleTypes DEF Init
  <2> QED BY <2>1, InitTypes DEF Reachable
<1>2. TypeOK /\ Reachable /\ [Next]_vars => (TypeOK /\ Reachable)'
  BY NextTypes, NextReachable
<1> QED BY <1>1, <1>2, PTL DEF Spec

-----------------------------------------------------------------------------
(* A connection that ends stops no shell of a persistent service.          *)

\* A session that is stopped has no shell.
Settled == \A s \in DOMAIN sess : sess[s].stopped => ~sess[s].alive

\* A live connection has a thread.  A thread that will remove the service is the only
\* one, and the service is not persistent, unless connections overlap.
ThreadInv ==
  \A c \in Conn :
    /\ conn[c] = "live" => run[c].pc # "off"
    /\ run[c].pc = "remove" => conn[c] = "closing" /\ (~overlapped => ~svc.persistent)
    /\ \A d \in Conn : ~overlapped /\ run[c].pc # "off" /\ run[d].pc # "off" => c = d

LEMMA InitThreads == Init => Settled /\ ThreadInv
BY DEF Init, Settled, ThreadInv, Off

\* Sessions that are let go of are stopped, and their shells with them.
LEMMA SettledDrop ==
  ASSUME NEW ss \in Seq(Session), NEW table, NEW threads, sess' = Dropped(ss, table, threads),
         \A s \in DOMAIN ss : ss[s].stopped => ~ss[s].alive
  PROVE  Settled'
<1>1. /\ DOMAIN sess' = DOMAIN ss
      /\ \A s \in DOMAIN ss :
           sess'[s] = IF ss[s].stopped \/ Held(s, table, threads) THEN ss[s] ELSE stop(ss[s])
  BY DroppedFacts
<1>2. \A s \in DOMAIN ss : ~stop(ss[s]).alive
  BY LenProperties, ElementOfSeq, StopFacts
<1>3. \A s \in DOMAIN ss : sess'[s].stopped => ~sess'[s].alive
  BY <1>1, <1>2
<1> QED BY <1>1, <1>3 DEF Settled

LEMMA SettledOne ==
  ASSUME TypeOK, Settled, NEW s \in DOMAIN sess, NEW x, sess' = [sess EXCEPT ![s] = x],
         x.stopped => ~x.alive
  PROVE  Settled'
BY DEF Settled

LEMMA SettledConnect ==
  ASSUME TypeOK, Settled, NEW c \in Conn, NEW p \in BOOLEAN, init_terminal_service(c, p)
  PROVE  /\ DOMAIN sess' = DOMAIN sess /\ \A s \in DOMAIN sess : Keeps(sess[s], sess'[s])
         /\ Settled'
<1> DEFINE reset(x) == [x EXCEPT !.active = FALSE, !.pending = << >>, !.phase = "idle", !.retries = 0]
<1>1. \A x \in Session : Keeps(x, x) /\ Keeps(x, reset(x))
  BY DEF Session, Keeps
<1>2. sess' = [s \in DOMAIN sess |-> IF \E i \in DOMAIN svc.sessions : svc.sessions[i] = s
                                     THEN reset(sess[s]) ELSE sess[s]]
  BY DEF init_terminal_service
<1> HIDE DEF reset
<1>3. DOMAIN sess' = DOMAIN sess /\ \A s \in DOMAIN sess : sess'[s] \in {sess[s], reset(sess[s])}
  BY <1>2
<1>4. \A s \in DOMAIN sess : Keeps(sess[s], sess'[s])
  BY <1>1, <1>3, SessionAt
<1> QED BY <1>3, <1>4 DEF Settled, Keeps

LEMMA SettledOpen ==
  ASSUME TypeOK, Settled, NEW c \in Conn, NEW i \in Ids, NEW r \in OpenRows, handle_open(c, i, r)
  PROVE  Settled'
<1> DEFINE table == Remapped(i)
           s == IF i \in DOMAIN table THEN table[i] ELSE Len(sess) + 1
<1>1. svc \in Service /\ sess \in Seq(Session) /\ DOMAIN sess = 1..Len(sess) /\ Len(sess) \in Nat
  BY LenProperties DEF TypeOK
<1>2. \A j \in DOMAIN table : \E k \in DOMAIN svc.sessions : table[j] = svc.sessions[k]
  BY <1>1, RemappedFacts
<1>3. sess' = IF i \in DOMAIN table THEN [sess EXCEPT ![s] = Reattached(@)]
                                    ELSE Append(sess, NewSession(r))
  BY DEF handle_open
<1> HIDE DEF table
<1>4. CASE i \in DOMAIN table
  <2>1. s \in DOMAIN sess /\ sess' = [sess EXCEPT ![s] = Reattached(sess[s])]
    BY <1>2, <1>3, <1>4 DEF TypeOK
  <2> HIDE DEF s
  <2>2. Keeps(sess[s], Reattached(sess[s]))
    BY <2>1, SessionAt, ReattachedFacts
  <2> DEFINE x == Reattached(sess[s])
  <2> HIDE DEF x
  <2>3. sess' = [sess EXCEPT ![s] = x] /\ (x.stopped => ~x.alive)
    BY <2>1, <2>2 DEF Settled, Keeps, x
  <2> QED BY <2>1, <2>3, SettledOne
<1>5. CASE i \notin DOMAIN table
  <2>1. sess' = Append(sess, NewSession(r)) /\ NewSession(r) \in Session /\ ~NewSession(r).stopped
    BY <1>3, <1>5, NewSessionFacts
  <2>2. /\ sess' \in Seq(Session) /\ Len(sess') = Len(sess) + 1
        /\ sess'[Len(sess) + 1] = NewSession(r) /\ \A t \in 1..Len(sess) : sess'[t] = sess[t]
    BY <1>1, <2>1, AppendProperties
  <2>3. \A t \in DOMAIN sess' : t \in DOMAIN sess \/ t = Len(sess) + 1
    BY <1>1, <2>2, LenProperties
  <2> QED BY <1>1, <2>1, <2>2, <2>3 DEF Settled
<1> QED BY <1>4, <1>5

LEMMA SettledClose ==
  ASSUME TypeOK, Settled, NEW c \in Conn, NEW i \in Ids, handle_close(c, i)
  PROVE  Settled'
<1>1. CASE i \in DOMAIN svc.sessions
  <2> DEFINE s == svc.sessions[i]
             x == [sess[s] EXCEPT !.alive = FALSE, !.asked = TRUE]
             ss == [sess EXCEPT ![s] = x]
             table == Without(svc.sessions, {i})
  <2>1. s \in DOMAIN sess /\ sess \in Seq(Session) /\ DOMAIN sess = 1..Len(sess)
    BY <1>1, LenProperties DEF TypeOK
  <2>2. sess[s] \in Session
    BY <2>1, SessionAt
  <2>3. x \in Session /\ ~x.alive
    BY <2>2 DEF Session
  <2>4. [sess EXCEPT ![s].alive = FALSE, ![s].asked = TRUE] = ss
    BY <2>1, <2>2 DEF Session
  <2>5. sess' = Dropped(ss, table, run)
    BY <1>1, <2>4 DEF handle_close
  <2> HIDE DEF x, s
  <2>6. ss \in Seq(Session) /\ DOMAIN ss = DOMAIN sess
    BY <2>1, <2>3, ExceptSeq
  <2>7. \A t \in DOMAIN ss : ss[t].stopped => ~ss[t].alive
    BY <2>1, <2>3, <2>6 DEF Settled
  <2> HIDE DEF ss, table
  <2> QED BY <2>5, <2>6, <2>7, SettledDrop
<1>2. CASE i \notin DOMAIN svc.sessions
  BY <1>2 DEF handle_close, Settled
<1> QED BY <1>1, <1>2

LEMMA SettledRead ==
  ASSUME TypeOK, Settled, NEW c \in Conn, NEW ok \in BOOLEAN, ReadSession(c, ok)
  PROVE  Settled'
<1>1. PICK e \in run[c].todo : ReadOf(c, ok, e)
  BY ReadSteps
<1> DEFINE s == e[2]
           x == sess[s]
           y == Drained(x)
           z == IF x.active THEN Streamed(y, ok) ELSE y
           ss == [sess EXCEPT ![s] = z]
<1>2. s \in DOMAIN sess /\ sess \in Seq(Session) /\ DOMAIN sess = 1..Len(sess)
  BY LenProperties DEF TypeOK
<1>3. sess' = Dropped(ss, svc.sessions, run')
  BY <1>1 DEF ReadOf
<1> HIDE DEF s
<1>4. x \in Session
  BY <1>2, SessionAt
<1>5. z \in Session /\ Keeps(x, z)
  <2>1. y \in Session /\ Keeps(x, y)
    BY <1>4, DrainedFacts
  <2> HIDE DEF y
  <2>2. Streamed(y, ok) \in Session /\ Keeps(y, Streamed(y, ok))
    BY <2>1, StreamedFacts
  <2> QED BY <2>1, <2>2 DEF Keeps
<1> HIDE DEF z
<1>6. ss \in Seq(Session) /\ DOMAIN ss = DOMAIN sess
  BY <1>2, <1>5, ExceptSeq
<1>7. \A t \in DOMAIN ss : ss[t].stopped => ~ss[t].alive
  BY <1>2, <1>5, <1>6 DEF Settled, Keeps
<1> HIDE DEF ss
<1> QED BY <1>3, <1>6, <1>7, SettledDrop

LEMMA NextSettled == TypeOK /\ Settled /\ [Next]_vars => Settled'
<1> SUFFICES ASSUME TypeOK, Settled, [Next]_vars PROVE Settled'
  OBVIOUS
<1>1. ASSUME sess' = sess PROVE Settled'
  BY <1>1 DEF Settled
<1>2. ASSUME NEW c \in Conn, NEW p \in BOOLEAN,
             init_terminal_service(c, p) \/ update_terminal_persistence(c, p)
      PROVE  Settled'
  BY <1>1, <1>2, SettledConnect DEF update_terminal_persistence
<1>3. ASSUME NEW c \in Conn, NEW i \in Ids, NEW r \in OpenRows, handle_open(c, i, r) PROVE Settled'
  BY <1>3, SettledOpen
<1>4. ASSUME NEW c \in Conn, NEW i \in Ids, NEW r \in Rows, handle_resize(c, i, r) PROVE Settled'
  <2> DEFINE s == svc.sessions[i]
             x == [sess[s] EXCEPT !.rows = r, !.pty = r]
  <2>1. s \in DOMAIN sess
    BY <1>4 DEF handle_resize, TypeOK
  <2>2. sess[s] \in Session
    BY <2>1, SessionAt
  <2>3. Keeps(sess[s], x)
    BY <2>2 DEF Session, Keeps
  <2>4. sess' = [sess EXCEPT ![s] = x]
    BY <1>4, <2>1, <2>2 DEF handle_resize, Session
  <2> HIDE DEF x, s
  <2>5. x.stopped => ~x.alive
    BY <2>1, <2>3 DEF Settled, Keeps
  <2> QED BY <2>1, <2>4, <2>5, SettledOne
<1>5. ASSUME NEW c \in Conn, NEW i \in Ids, handle_close(c, i) PROVE Settled'
  BY <1>5, SettledClose
<1>6. ASSUME NEW c \in Conn, Disconnect(c) PROVE Settled'
  BY <1>1, <1>6 DEF Disconnect
<1>7. ASSUME remove_service PROVE Settled'
  <2>1. DOMAIN sess' = DOMAIN sess /\ \A s \in DOMAIN sess : sess'[s] \in {sess[s], stop(sess[s])}
    BY <1>7, RemoveFacts
  <2>2. \A s \in DOMAIN sess : ~stop(sess[s]).alive
    BY SessionAt, StopFacts
  <2> QED BY <2>1, <2>2 DEF Settled
<1>8. ASSUME NEW c \in Conn, ThreadStep(c) PROVE Settled'
  <2>1. CASE Poll(c) \/ RunExit(c)
    BY <1>1, <2>1 DEF Poll, RunExit
  <2>2. CASE RunRemove(c)
    BY <1>7, <2>2 DEF RunRemove
  <2>3. CASE Finish(c)
    <3> DEFINE table == IF run[c].persistent \/ svc.gen # run[c].gen THEN svc.sessions
                        ELSE Without(svc.sessions, run[c].closed)
    <3>1. sess' = Dropped(sess, table, run)
      BY <2>3 DEF Finish
    <3> HIDE DEF table
    <3> QED BY <3>1, SettledDrop DEF TypeOK, Settled
  <2>4. CASE \E ok \in BOOLEAN : ReadSession(c, ok)
    BY <2>4, SettledRead
  <2> QED BY <1>8, <2>1, <2>2, <2>3, <2>4 DEF ThreadStep
<1>9. ASSUME NEW s \in DOMAIN sess, ShellExit(s) PROVE Settled'
  <2> DEFINE x == [sess[s] EXCEPT !.alive = FALSE]
  <2>1. ~x.alive /\ sess' = [sess EXCEPT ![s] = x]
    BY <1>9, SessionAt DEF ShellExit, Session
  <2> HIDE DEF x
  <2> QED BY <2>1, SettledOne
<1>10. ASSUME NEW s \in DOMAIN sess, Output(s) PROVE Settled'
  <2> DEFINE x == sess[s]
             n == x.out + 1
             chunk == IF n \in LineEnds THEN <<<<s, n>>, NL>> ELSE <<<<s, n>>>>
             y == IF Len(x.chan) < ChannelSize
                  THEN [x EXCEPT !.out = n, !.chan = Append(@, chunk)]
                  ELSE [x EXCEPT !.out = n, !.lost = @ \cup {n}]
  <2>1. sess' = [sess EXCEPT ![s] = y]
    BY <1>10 DEF Output
  <2> HIDE DEF n, chunk
  <2>2. Keeps(x, y)
    BY SessionAt DEF Session, Keeps
  <2> HIDE DEF y
  <2>3. y.stopped => ~y.alive
    BY <2>2 DEF Settled, Keeps
  <2> QED BY <2>1, <2>3, SettledOne
<1>11. CASE cleanup_inactive_services \/ CleanupRemove
  BY <1>1, <1>7, <1>11 DEF cleanup_inactive_services, CleanupRemove
<1>12. CASE UNCHANGED vars
  BY <1>1, <1>12 DEF vars
<1> QED BY <1>2, <1>3, <1>4, <1>5, <1>6, <1>8, <1>9, <1>10, <1>11, <1>12 DEF Next

LEMMA ThreadsConnect ==
  ASSUME TypeOK, ThreadInv, NEW c \in Conn, NEW p \in BOOLEAN, init_terminal_service(c, p)
  PROVE  ThreadInv'
<1>1. /\ run \in [Conn -> Thread] /\ conn \in [Conn -> {"none", "live", "closing", "gone"}]
      /\ run' = [run EXCEPT ![c].pc = "poll"] /\ conn' = [conn EXCEPT ![c] = "live"]
      /\ conn[c] = "none"
      /\ overlapped' = (overlapped \/ \E d \in Conn : run[d].pc # "off")
  BY DEF init_terminal_service, TypeOK
<1>2. /\ \A d \in Conn : run'[d].pc = IF d = c THEN "poll" ELSE run[d].pc
      /\ \A d \in Conn : conn'[d] = IF d = c THEN "live" ELSE conn[d]
  BY <1>1 DEF Thread
<1>3. ~overlapped' => ~overlapped /\ \A d \in Conn : run[d].pc = "off"
  BY <1>1
<1> QED BY <1>1, <1>2, <1>3 DEF ThreadInv

LEMMA ThreadsPersist ==
  ASSUME TypeOK, ThreadInv, NEW c \in Conn, NEW p \in BOOLEAN, update_terminal_persistence(c, p)
  PROVE  ThreadInv'
<1>1. conn[c] = "live" /\ UNCHANGED <<conn, run, overlapped>>
  BY DEF update_terminal_persistence, Asks
<1>2. ASSUME NEW d \in Conn, run[d].pc = "remove" PROVE overlapped
  <2>1. run[c].pc # "off" /\ d # c
    BY <1>1, <1>2 DEF ThreadInv
  <2> QED BY <1>2, <2>1 DEF ThreadInv
<1> QED BY <1>1, <1>2 DEF ThreadInv

LEMMA ThreadsExit ==
  ASSUME TypeOK, ThreadInv, NEW c \in Conn, RunExit(c)
  PROVE  ThreadInv'
<1> DEFINE pc == IF svc # NoService /\ ~svc.persistent THEN "remove" ELSE "off"
<1>1. /\ run \in [Conn -> Thread] /\ conn \in [Conn -> {"none", "live", "closing", "gone"}]
      /\ run[c].pc = "poll" /\ conn[c] = "closing" /\ UNCHANGED <<svc, overlapped>>
      /\ run' = [run EXCEPT ![c].pc = pc]
      /\ conn' = [conn EXCEPT ![c] = IF run'[c].pc = "off" THEN "gone" ELSE @]
  BY DEF RunExit, TypeOK
<1>2. pc \in {"remove", "off"} /\ (pc = "remove" => ~svc.persistent)
  OBVIOUS
<1> HIDE DEF pc
<1>3. /\ \A d \in Conn : run'[d].pc = IF d = c THEN pc ELSE run[d].pc
      /\ \A d \in Conn \ {c} : conn'[d] = conn[d]
      /\ conn'[c] \in {"gone", "closing"} /\ (pc = "remove" => conn'[c] = "closing")
  BY <1>1 DEF Thread
<1> QED BY <1>1, <1>2, <1>3 DEF ThreadInv

LEMMA ThreadsRemove ==
  ASSUME TypeOK, ThreadInv, NEW c \in Conn, RunRemove(c)
  PROVE  ThreadInv'
<1>1. /\ run \in [Conn -> Thread] /\ conn \in [Conn -> {"none", "live", "closing", "gone"}]
      /\ svc' = NoService /\ overlapped' = overlapped /\ run[c].pc = "remove"
      /\ run' = [run EXCEPT ![c].pc = "off"] /\ conn' = [conn EXCEPT ![c] = "gone"]
  BY DEF RunRemove, remove_service, TypeOK
<1>2. /\ \A d \in Conn : run'[d].pc = IF d = c THEN "off" ELSE run[d].pc
      /\ \A d \in Conn : conn'[d] = IF d = c THEN "gone" ELSE conn[d]
      /\ ~svc'.persistent
  BY <1>1 DEF Thread, NoService
<1> QED BY <1>1, <1>2 DEF ThreadInv

LEMMA NextThreads == TypeOK /\ ThreadInv /\ [Next]_vars => ThreadInv'
<1> SUFFICES ASSUME TypeOK, ThreadInv, [Next]_vars PROVE ThreadInv'
  OBVIOUS
<1>1. ASSUME UNCHANGED <<conn, run, overlapped>>, svc'.persistent => svc.persistent PROVE ThreadInv'
  BY <1>1 DEF ThreadInv
<1>2. ASSUME NEW c \in Conn, NEW p \in BOOLEAN,
             init_terminal_service(c, p) \/ update_terminal_persistence(c, p)
      PROVE  ThreadInv'
  BY <1>2, ThreadsConnect, ThreadsPersist
<1>3. ASSUME NEW c \in Conn, NEW i \in Ids, NEW r \in OpenRows, handle_open(c, i, r) PROVE ThreadInv'
  <2> DEFINE s == IF i \in DOMAIN Remapped(i) THEN Remapped(i)[i] ELSE Len(sess) + 1
             table == With(Remapped(i), i, s)
  <2>1. svc' = [svc EXCEPT !.sessions = table, !.sync = FALSE] /\ UNCHANGED <<conn, run, overlapped>>
    BY <1>3 DEF handle_open
  <2> HIDE DEF table
  <2>2. svc'.persistent = svc.persistent
    BY <2>1 DEF TypeOK, Service
  <2> QED BY <1>1, <2>1, <2>2
<1>4. ASSUME NEW c \in Conn, NEW i \in Ids, NEW r \in Rows, handle_resize(c, i, r) PROVE ThreadInv'
  BY <1>1, <1>4 DEF handle_resize
<1>5. ASSUME NEW c \in Conn, NEW i \in Ids, handle_close(c, i) PROVE ThreadInv'
  <2> DEFINE table == Without(svc.sessions, {i})
  <2>1. svc' = [svc EXCEPT !.sessions = table] /\ UNCHANGED <<conn, run, overlapped>>
    BY <1>5 DEF handle_close
  <2> HIDE DEF table
  <2>2. svc'.persistent = svc.persistent
    BY <2>1 DEF TypeOK, Service
  <2> QED BY <1>1, <2>1, <2>2
<1>6. ASSUME NEW c \in Conn, Disconnect(c) PROVE ThreadInv'
  <2>1. /\ conn[c] = "live" /\ conn' = [conn EXCEPT ![c] = "closing"]
        /\ UNCHANGED <<svc, run, overlapped>>
    BY <1>6 DEF Disconnect
  <2>2. run[c].pc # "remove"
    BY <2>1 DEF ThreadInv
  <2> QED BY <2>1, <2>2 DEF ThreadInv
<1>7. ASSUME NEW c \in Conn, Poll(c) PROVE ThreadInv'
  <2> DEFINE todo == {<<i, svc.sessions[i]>> : i \in DOMAIN svc.sessions}
             t == [Off EXCEPT !.pc = "read", !.gen = svc.gen, !.persistent = svc.persistent,
                              !.todo = todo]
  <2>1. /\ run[c].pc = "poll" /\ run' = [run EXCEPT ![c] = t] /\ UNCHANGED <<svc, conn, overlapped>>
    BY <1>7 DEF Poll
  <2>2. t.pc = "read"
    BY DEF Off
  <2> HIDE DEF t
  <2>3. \A d \in Conn : run'[d].pc = IF d = c THEN "read" ELSE run[d].pc
    BY <2>1, <2>2 DEF TypeOK
  <2> QED BY <2>1, <2>3 DEF ThreadInv
<1>8. ASSUME NEW c \in Conn, NEW ok \in BOOLEAN, ReadSession(c, ok) PROVE ThreadInv'
  <2>1. PICK e \in run[c].todo : ReadOf(c, ok, e)
    BY <1>8, ReadSteps
  <2> DEFINE t == Polled(run[c], e[1], e[2], sess[e[2]])
  <2>2. run' = [run EXCEPT ![c] = t] /\ run[c].pc = "read" /\ UNCHANGED <<svc, conn, overlapped>>
    BY <1>8, <2>1, ReadSteps DEF ReadOf
  <2>3. t.pc \in {"finish", "read"}
    <3>1. run[c] \in Thread
      BY DEF TypeOK
    <3> QED BY <3>1 DEF Polled, Thread
  <2> HIDE DEF t
  <2>4. \A d \in Conn : run'[d].pc = IF d = c THEN t.pc ELSE run[d].pc
    BY <2>2 DEF TypeOK
  <2> QED BY <2>2, <2>3, <2>4 DEF ThreadInv
<1>9. ASSUME NEW c \in Conn, Finish(c) PROVE ThreadInv'
  <2> DEFINE table == IF run[c].persistent \/ svc.gen # run[c].gen THEN svc.sessions
                      ELSE Without(svc.sessions, run[c].closed)
             t == [Off EXCEPT !.pc = "poll"]
  <2>1. /\ run[c].pc = "finish" /\ svc' = [svc EXCEPT !.sessions = table]
        /\ run' = [run EXCEPT ![c] = t] /\ UNCHANGED <<conn, overlapped>>
    BY <1>9 DEF Finish
  <2>2. t.pc = "poll"
    BY DEF Off
  <2> HIDE DEF table, t
  <2>3. svc'.persistent = svc.persistent /\ \A d \in Conn : run'[d].pc = IF d = c THEN "poll" ELSE run[d].pc
    BY <2>1, <2>2 DEF TypeOK, Service
  <2> QED BY <2>1, <2>3 DEF ThreadInv
<1>10. ASSUME NEW c \in Conn, ThreadStep(c) PROVE ThreadInv'
  BY <1>7, <1>8, <1>9, <1>10, ThreadsExit, ThreadsRemove DEF ThreadStep
<1>11. ASSUME NEW s \in DOMAIN sess, ShellExit(s) \/ Output(s) PROVE ThreadInv'
  BY <1>1, <1>11 DEF ShellExit, Output
<1>12. CASE cleanup_inactive_services \/ CleanupRemove
  BY <1>1, <1>12 DEF cleanup_inactive_services, CleanupRemove, remove_service, NoService
<1>13. CASE UNCHANGED vars
  BY <1>1, <1>13 DEF vars
<1> QED BY <1>2, <1>3, <1>4, <1>5, <1>6, <1>10, <1>11, <1>12, <1>13 DEF Next

\* What SurvivesDrop says of a step.
DropStep ==
  conn' # conn /\ svc.persistent /\ ~overlapped =>
    \A s \in DOMAIN sess : sess[s].alive => ~sess'[s].stopped

LEMMA StepsDrop == TypeOK /\ Settled /\ ThreadInv /\ [Next]_vars => [DropStep]_vars
<1> SUFFICES ASSUME TypeOK, Settled, ThreadInv, Next, conn' # conn, svc.persistent, ~overlapped,
                    NEW s \in DOMAIN sess, sess[s].alive
             PROVE  ~sess'[s].stopped
  BY DEF DropStep
<1>1. ~sess[s].stopped
  BY DEF Settled
<1>2. ASSUME NEW c \in Conn, NEW p \in BOOLEAN, init_terminal_service(c, p) PROVE ~sess'[s].stopped
  BY <1>1, <1>2, SettledConnect DEF Keeps
<1>3. ASSUME NEW c \in Conn, RunRemove(c) PROVE FALSE
  BY <1>3 DEF RunRemove, ThreadInv
<1>4. ASSUME sess' = sess PROVE ~sess'[s].stopped
  BY <1>1, <1>4
<1>5. \/ sess' = sess
      \/ \E c \in Conn : RunRemove(c) \/ \E p \in BOOLEAN : init_terminal_service(c, p)
  BY DEF Next, ThreadStep, update_terminal_persistence, handle_open, handle_resize, handle_close,
         Disconnect, Poll, Finish, RunExit, ReadSession, ShellExit, Output,
         cleanup_inactive_services, CleanupRemove
<1> QED BY <1>2, <1>3, <1>4, <1>5

(* The end of a connection stops no shell of a persistent service: run of  *)
(* terminal_service.rs decides to remove the service in one step and does  *)
(* it in another, but as long as connections do not overlap nothing makes  *)
(* the service persistent in between, and a session that is in the table   *)
(* or in a thread's list is not dropped.                                   *)
THEOREM DropStopsNone == Spec => SurvivesDrop
<1>1. Init => TypeOK /\ Settled /\ ThreadInv
  BY InitTypes, InitThreads
<1>2. TypeOK /\ Settled /\ ThreadInv /\ [Next]_vars => (TypeOK /\ Settled /\ ThreadInv)'
  BY NextTypes, NextSettled, NextThreads
<1>3. TypeOK /\ Settled /\ ThreadInv /\ [Next]_vars => [DropStep]_vars
  BY StepsDrop
<1>4. SurvivesDrop <=> [][DropStep]_vars
  BY DEF SurvivesDrop, DropStep
<1> QED BY <1>1, <1>2, <1>3, <1>4, PTL DEF Spec

-----------------------------------------------------------------------------
(* The chunks among some bytes.                                            *)

LEMMA PlaceFacts ==
  ASSUME NEW s \in Sid, NEW t \in Seq(Byte)
  PROVE  /\ DOMAIN t = 1..Len(t) /\ Len(t) \in Nat
         /\ \A k \in 1..Len(t) : k \in Places(s, t) <=> \E n \in Nat : t[k] = <<s, n>>
         /\ \A k \in Places(s, t) : k \in 1..Len(t) /\ t[k] = <<s, t[k][2]>> /\ t[k][2] \in Nat
<1>1. DOMAIN t = 1..Len(t) /\ Len(t) \in Nat
  BY LenProperties
<1>2. \A k \in 1..Len(t) : t[k] \in {NL} \cup (Sid \X (Nat \ {0}))
  BY ElementOfSeq DEF Byte
<1>3. \A n \in Nat : NL # <<s, n>>
  BY TerminalAssumption DEF Sid
<1>4. ASSUME NEW k \in 1..Len(t)
      PROVE  /\ k \in Places(s, t) <=> \E n \in Nat : t[k] = <<s, n>>
             /\ k \in Places(s, t) => t[k] = <<s, t[k][2]>> /\ t[k][2] \in Nat
  <2>1. k \in Places(s, t) <=> t[k] # NL /\ t[k][1] = s
    BY <1>1 DEF Places
  <2>2. CASE t[k] = NL
    BY <1>3, <2>1, <2>2
  <2>3. CASE t[k] # NL
    <3>1. PICK r \in Sid, n \in Nat \ {0} : t[k] = <<r, n>>
      BY <1>2, <2>3
    <3> QED BY <2>1, <2>3, <3>1
  <2> QED BY <2>2, <2>3
<1>5. Places(s, t) \subseteq 1..Len(t)
  BY <1>1 DEF Places
<1> QED BY <1>1, <1>4, <1>5

LEMMA ChunkFacts ==
  ASSUME NEW s \in Sid, NEW t \in Seq(Byte)
  PROVE  /\ Chunks(s, t) \subseteq Nat
         /\ \A n \in Nat : n \in Chunks(s, t) <=> \E k \in 1..Len(t) : t[k] = <<s, n>>
         /\ InOrder(s, t) <=> \A j, k \in 1..Len(t) : \A m, n \in Nat :
                                j < k /\ t[j] = <<s, m>> /\ t[k] = <<s, n>> => m < n
<1>1. \A k \in 1..Len(t) : k \in Places(s, t) <=> \E n \in Nat : t[k] = <<s, n>>
  BY PlaceFacts
<1>2. \A k \in Places(s, t) : k \in 1..Len(t) /\ t[k] = <<s, t[k][2]>> /\ t[k][2] \in Nat
  BY PlaceFacts
<1>3. Chunks(s, t) \subseteq Nat
  BY <1>2 DEF Chunks
<1>4. \A n \in Nat : n \in Chunks(s, t) <=> \E k \in 1..Len(t) : t[k] = <<s, n>>
  <2> SUFFICES ASSUME NEW n \in Nat
               PROVE  n \in Chunks(s, t) <=> \E k \in 1..Len(t) : t[k] = <<s, n>>
    OBVIOUS
  <2>1. n \in Chunks(s, t) <=> \E k \in Places(s, t) : n = t[k][2]
    BY DEF Chunks
  <2>2. ASSUME NEW k \in 1..Len(t), t[k] = <<s, n>> PROVE k \in Places(s, t) /\ n = t[k][2]
    BY <1>1, <2>2
  <2> QED BY <1>2, <2>1, <2>2
<1>5. InOrder(s, t) <=> \A j, k \in 1..Len(t) : \A m, n \in Nat :
                          j < k /\ t[j] = <<s, m>> /\ t[k] = <<s, n>> => m < n
  <2>1. ASSUME InOrder(s, t), NEW j \in 1..Len(t), NEW k \in 1..Len(t), NEW m \in Nat, NEW n \in Nat,
               j < k, t[j] = <<s, m>>, t[k] = <<s, n>>
        PROVE  m < n
    <3>1. j \in Places(s, t) /\ k \in Places(s, t) /\ t[j][2] = m /\ t[k][2] = n
      BY <1>1, <2>1
    <3> QED BY <2>1, <3>1 DEF InOrder
  <2>2. ASSUME \A j, k \in 1..Len(t) : \A m, n \in Nat :
                 j < k /\ t[j] = <<s, m>> /\ t[k] = <<s, n>> => m < n
        PROVE  InOrder(s, t)
    BY <1>2, <2>2 DEF InOrder
  <2> QED BY <2>1, <2>2
<1> QED BY <1>3, <1>4, <1>5

LEMMA ChunksConcat ==
  ASSUME NEW s \in Sid, NEW t \in Seq(Byte), NEW u \in Seq(Byte)
  PROVE  /\ t \o u \in Seq(Byte)
         /\ Chunks(s, t \o u) = Chunks(s, t) \cup Chunks(s, u)
         /\ InOrder(s, t \o u) <=> /\ InOrder(s, t) /\ InOrder(s, u)
                                   /\ \A m \in Chunks(s, t), n \in Chunks(s, u) : m < n
<1> DEFINE v == t \o u
           T == Len(t)
           U == Len(u)
<1>1. /\ v \in Seq(Byte) /\ Len(v) = T + U /\ T \in Nat /\ U \in Nat
      /\ \A k \in 1..T : v[k] = t[k]
      /\ \A k \in 1..U : v[T + k] = u[k]
      /\ \A k \in 1..T + U : k \in 1..T \/ \E l \in 1..U : k = T + l
  <2>1. v \in Seq(Byte) /\ Len(v) = T + U /\ T \in Nat /\ U \in Nat
    BY ConcatProperties, LenProperties
  <2>2. \A k \in 1..T + U : v[k] = IF k <= T THEN t[k] ELSE u[k - T]
    BY ConcatProperties
  <2>3. \A k \in 1..T + U : k \in 1..T \/ \E l \in 1..U : k = T + l
    <3> SUFFICES ASSUME NEW k \in 1..T + U, k \notin 1..T PROVE \E l \in 1..U : k = T + l
      OBVIOUS
    <3>1. k - T \in 1..U /\ k = T + (k - T)
      BY <2>1
    <3> QED BY <3>1
  <2>4. \A k \in 1..T : v[k] = t[k]
    BY <2>1, <2>2
  <2>5. \A k \in 1..U : v[T + k] = u[k]
    <3> SUFFICES ASSUME NEW k \in 1..U PROVE v[T + k] = u[k]
      OBVIOUS
    <3>1. T + k \in 1..T + U /\ ~(T + k <= T) /\ (T + k) - T = k
      BY <2>1
    <3> QED BY <2>2, <3>1
  <2> QED BY <2>1, <2>3, <2>4, <2>5
<1> HIDE DEF v, T, U
<1>2. /\ \A n \in Nat : n \in Chunks(s, t) <=> \E k \in 1..T : t[k] = <<s, n>>
      /\ \A n \in Nat : n \in Chunks(s, u) <=> \E k \in 1..U : u[k] = <<s, n>>
      /\ \A n \in Nat : n \in Chunks(s, v) <=> \E k \in 1..T + U : v[k] = <<s, n>>
      /\ Chunks(s, t) \subseteq Nat /\ Chunks(s, u) \subseteq Nat /\ Chunks(s, v) \subseteq Nat
  <2>1. /\ \A n \in Nat : n \in Chunks(s, t) <=> \E k \in 1..T : t[k] = <<s, n>>
        /\ Chunks(s, t) \subseteq Nat
    BY ChunkFacts DEF T
  <2>2. /\ \A n \in Nat : n \in Chunks(s, u) <=> \E k \in 1..U : u[k] = <<s, n>>
        /\ Chunks(s, u) \subseteq Nat
    BY ChunkFacts DEF U
  <2>3. /\ \A n \in Nat : n \in Chunks(s, v) <=> \E k \in 1..Len(v) : v[k] = <<s, n>>
        /\ Chunks(s, v) \subseteq Nat
    BY <1>1, ChunkFacts
  <2> QED BY <1>1, <2>1, <2>2, <2>3
<1>3. \A n \in Nat : n \in Chunks(s, v) <=> n \in Chunks(s, t) \/ n \in Chunks(s, u)
  <2> SUFFICES ASSUME NEW n \in Nat
               PROVE  (\E k \in 1..T + U : v[k] = <<s, n>>)
                        <=> (\E k \in 1..T : t[k] = <<s, n>>) \/ (\E k \in 1..U : u[k] = <<s, n>>)
    BY <1>2
  <2>1. ASSUME NEW k \in 1..T + U, v[k] = <<s, n>>
        PROVE  (\E l \in 1..T : t[l] = <<s, n>>) \/ (\E l \in 1..U : u[l] = <<s, n>>)
    BY <1>1, <2>1
  <2>2. \A k \in 1..T : k \in 1..T + U
    BY <1>1
  <2>3. \A k \in 1..U : T + k \in 1..T + U
    BY <1>1
  <2> QED BY <1>1, <2>1, <2>2, <2>3
<1>4. Chunks(s, v) = Chunks(s, t) \cup Chunks(s, u)
  BY <1>2, <1>3
<1>5. /\ InOrder(s, t) <=> \A j, k \in 1..T : \A m, n \in Nat :
                             j < k /\ t[j] = <<s, m>> /\ t[k] = <<s, n>> => m < n
      /\ InOrder(s, u) <=> \A j, k \in 1..U : \A m, n \in Nat :
                             j < k /\ u[j] = <<s, m>> /\ u[k] = <<s, n>> => m < n
      /\ InOrder(s, v) <=> \A j, k \in 1..T + U : \A m, n \in Nat :
                             j < k /\ v[j] = <<s, m>> /\ v[k] = <<s, n>> => m < n
  BY <1>1, ChunkFacts DEF T, U
<1>6. ASSUME InOrder(s, v)
      PROVE  InOrder(s, t) /\ InOrder(s, u) /\ \A m \in Chunks(s, t), n \in Chunks(s, u) : m < n
  <2>1. \A j, k \in 1..T + U : \A m, n \in Nat : j < k /\ v[j] = <<s, m>> /\ v[k] = <<s, n>> => m < n
    BY <1>5, <1>6
  <2>2. InOrder(s, t)
    <3> SUFFICES ASSUME NEW j \in 1..T, NEW k \in 1..T, NEW m \in Nat, NEW n \in Nat,
                        j < k, t[j] = <<s, m>>, t[k] = <<s, n>>
                 PROVE  m < n
      BY <1>5
    <3>1. j \in 1..T + U /\ k \in 1..T + U /\ v[j] = <<s, m>> /\ v[k] = <<s, n>>
      BY <1>1
    <3> QED BY <2>1, <3>1
  <2>3. InOrder(s, u)
    <3> SUFFICES ASSUME NEW j \in 1..U, NEW k \in 1..U, NEW m \in Nat, NEW n \in Nat,
                        j < k, u[j] = <<s, m>>, u[k] = <<s, n>>
                 PROVE  m < n
      BY <1>5
    <3>1. v[T + j] = <<s, m>> /\ v[T + k] = <<s, n>>
      BY <1>1
    <3>2. T + j \in 1..T + U /\ T + k \in 1..T + U /\ T + j < T + k
      BY <1>1
    <3> QED BY <2>1, <3>1, <3>2
  <2>4. ASSUME NEW m \in Chunks(s, t), NEW n \in Chunks(s, u) PROVE m < n
    <3>1. m \in Nat /\ n \in Nat
      BY <1>2
    <3>2. PICK j \in 1..T : t[j] = <<s, m>>
      BY <1>2, <3>1
    <3>3. PICK k \in 1..U : u[k] = <<s, n>>
      BY <1>2, <3>1
    <3>4. v[j] = <<s, m>> /\ v[T + k] = <<s, n>>
      BY <1>1, <3>2, <3>3
    <3>5. j \in 1..T + U /\ T + k \in 1..T + U /\ j < T + k
      BY <1>1
    <3> QED BY <2>1, <3>1, <3>4, <3>5
  <2> QED BY <2>2, <2>3, <2>4
<1>7. ASSUME InOrder(s, t), InOrder(s, u), \A m \in Chunks(s, t), n \in Chunks(s, u) : m < n
      PROVE  InOrder(s, v)
  <2> SUFFICES ASSUME NEW j \in 1..T + U, NEW k \in 1..T + U, NEW m \in Nat, NEW n \in Nat,
                      j < k, v[j] = <<s, m>>, v[k] = <<s, n>>
               PROVE  m < n
    BY <1>5
  <2>1. CASE j \in 1..T /\ k \in 1..T
    <3>1. t[j] = <<s, m>> /\ t[k] = <<s, n>>
      BY <1>1, <2>1
    <3> QED BY <1>5, <1>7, <2>1, <3>1
  <2>2. CASE j \in 1..T /\ k \notin 1..T
    <3>1. PICK l \in 1..U : k = T + l
      BY <1>1, <2>2
    <3>2. t[j] = <<s, m>> /\ u[l] = <<s, n>>
      BY <1>1, <2>2, <3>1
    <3>3. m \in Chunks(s, t) /\ n \in Chunks(s, u)
      BY <1>2, <2>2, <3>2
    <3> QED BY <1>7, <3>3
  <2>3. CASE j \notin 1..T
    <3>1. PICK i \in 1..U : j = T + i
      BY <1>1, <2>3
    <3>2. k \notin 1..T
      BY <1>1, <3>1
    <3>3. PICK l \in 1..U : k = T + l
      BY <1>1, <3>2
    <3>4. u[i] = <<s, m>> /\ u[l] = <<s, n>> /\ i < l
      BY <1>1, <3>1, <3>3
    <3> QED BY <1>5, <1>7, <3>4
  <2> QED BY <2>1, <2>2, <2>3
<1> QED BY <1>1, <1>4, <1>6, <1>7 DEF v

LEMMA NoneConcat ==
  ASSUME NEW s \in Sid, NEW t \in Seq(Byte), NEW u \in Seq(Byte), Chunks(s, u) = {}
  PROVE  Chunks(s, t \o u) = Chunks(s, t)
<1>1. Chunks(s, t \o u) = Chunks(s, t) \cup Chunks(s, u)
  BY ChunksConcat
<1> QED BY <1>1

LEMMA NoChunks ==
  ASSUME NEW s \in Sid, NEW t \in Seq(Byte)
  PROVE  /\ Chunks(s, t) = {} => InOrder(s, t)
         /\ << >> \in Seq(Byte) /\ Chunks(s, << >>) = {} /\ InOrder(s, << >>)
<1>1. << >> \in Seq(Byte) /\ Places(s, << >>) = {}
  BY DEF Places
<1>2. Chunks(s, t) = {} => Places(s, t) = {}
  BY DEF Chunks
<1> QED BY <1>1, <1>2 DEF InOrder, Chunks

\* Some bytes of session s, which is x now, are in order, and from their first chunk on
\* nothing is missing but what is lost.
Complete(s, bytes, x) ==
  /\ InOrder(s, bytes)
  /\ \A n \in Chunks(s, bytes) :
       n <= x.out /\ (n + 1)..x.out \subseteq Chunks(s, bytes) \cup x.lost

\* Some bytes have chunks of session s only.
Only(s, bytes) == \A r \in Sid \ {s} : Chunks(r, bytes) = {}

LEMMA CompleteEnd ==
  ASSUME NEW s \in Sid, NEW rest \in Seq(Byte), NEW all \in Seq(Byte), IsEndOf(Byte, rest, all),
         NEW x, x.out \in Nat, Complete(s, all, x)
  PROVE  Complete(s, rest, x)
<1>1. PICK front \in Seq(Byte) : all = front \o rest
  BY DEF IsEndOf
<1>2. /\ Chunks(s, all) = Chunks(s, front) \cup Chunks(s, rest)
      /\ InOrder(s, rest) /\ \A m \in Chunks(s, front), n \in Chunks(s, rest) : m < n
  BY <1>1, ChunksConcat DEF Complete
<1>3. Chunks(s, front) \subseteq Nat /\ Chunks(s, rest) \subseteq Nat
  BY ChunkFacts
<1>4. ASSUME NEW n \in Chunks(s, rest), NEW m \in (n + 1)..x.out
      PROVE  n <= x.out /\ m \in Chunks(s, rest) \cup x.lost
  <2>1. n <= x.out /\ m \in Chunks(s, all) \cup x.lost
    BY <1>2, <1>4 DEF Complete
  <2>2. m \notin Chunks(s, front)
    BY <1>2, <1>3, <1>4
  <2> QED BY <1>2, <2>1, <2>2
<1>5. \A n \in Chunks(s, rest) : n <= x.out
  BY <1>2 DEF Complete
<1> QED BY <1>2, <1>4, <1>5 DEF Complete

LEMMA OnlyEnd ==
  ASSUME NEW s \in Sid, NEW rest \in Seq(Byte), NEW all \in Seq(Byte), IsEndOf(Byte, rest, all),
         Only(s, all)
  PROVE  Only(s, rest)
<1>1. PICK front \in Seq(Byte) : all = front \o rest
  BY DEF IsEndOf
<1>2. \A r \in Sid : Chunks(r, all) = Chunks(r, front) \cup Chunks(r, rest)
  BY <1>1, ChunksConcat
<1> QED BY <1>2 DEF Only

LEMMA OnlyConcat ==
  ASSUME NEW s \in Sid, NEW t \in Seq(Byte), NEW u \in Seq(Byte), Only(s, t), Only(s, u)
  PROVE  Only(s, t \o u)
<1>1. \A r \in Sid : Chunks(r, t \o u) = Chunks(r, t) \cup Chunks(r, u)
  BY ChunksConcat
<1> QED BY <1>1 DEF Only

\* Bytes of others may be added in front or in between.
LEMMA CompleteInsert ==
  ASSUME NEW s \in Sid, NEW a \in Seq(Byte), NEW b \in Seq(Byte), NEW d \in Seq(Byte),
         Chunks(s, b) = {}, NEW x, Complete(s, a \o d, x)
  PROVE  Complete(s, (a \o b) \o d, x)
<1>1. /\ Chunks(s, a \o d) = Chunks(s, a) \cup Chunks(s, d)
      /\ InOrder(s, a) /\ InOrder(s, d) /\ \A m \in Chunks(s, a), n \in Chunks(s, d) : m < n
  BY ChunksConcat DEF Complete
<1> DEFINE e == a \o b
<1>2. e \in Seq(Byte) /\ Chunks(s, e) = Chunks(s, a) /\ InOrder(s, e)
  <2>1. e \in Seq(Byte) /\ Chunks(s, e) = Chunks(s, a) \cup Chunks(s, b)
        /\ (InOrder(s, e) <=> /\ InOrder(s, a) /\ InOrder(s, b)
                              /\ \A m \in Chunks(s, a), n \in Chunks(s, b) : m < n)
    BY ChunksConcat
  <2>2. InOrder(s, b)
    BY NoChunks
  <2> QED BY <1>1, <2>1, <2>2
<1> HIDE DEF e
<1>3. Chunks(s, e \o d) = Chunks(s, a \o d) /\ InOrder(s, e \o d)
  <2>1. /\ Chunks(s, e \o d) = Chunks(s, e) \cup Chunks(s, d)
        /\ InOrder(s, e \o d) <=> /\ InOrder(s, e) /\ InOrder(s, d)
                                  /\ \A m \in Chunks(s, e), n \in Chunks(s, d) : m < n
    BY <1>2, ChunksConcat
  <2> QED BY <1>1, <1>2, <2>1
<1>4. Complete(s, e \o d, x)
  BY <1>3 DEF Complete
<1> QED BY <1>4 DEF e

LEMMA CompleteAfter ==
  ASSUME NEW s \in Sid, NEW a \in Seq(Byte), NEW d \in Seq(Byte),
         Chunks(s, a) = {}, NEW x, Complete(s, d, x)
  PROVE  Complete(s, a \o d, x)
<1>1. << >> \in Seq(Byte) /\ << >> \o d = d /\ << >> \o a = a
  BY ConcatEmptySeq, EmptySeq
<1>2. Complete(s, (<< >> \o a) \o d, x)
  BY <1>1, CompleteInsert
<1> QED BY <1>1, <1>2

LEMMA CompleteNone ==
  ASSUME NEW s \in Sid, NEW a \in Seq(Byte), Chunks(s, a) = {}, NEW x
  PROVE  Complete(s, a, x)
BY NoChunks DEF Complete

\* One more chunk is added, or lost.
LEMMA CompleteMore ==
  ASSUME NEW s \in Sid, NEW t \in Seq(Byte), NEW c \in Seq(Byte), NEW x, NEW y,
         x.out \in Nat, y.out = x.out + 1, Complete(s, t, x),
         y.lost = x.lost, Chunks(s, c) = {y.out}, InOrder(s, c)
  PROVE  Complete(s, t \o c, y)
<1>1. /\ Chunks(s, t \o c) = Chunks(s, t) \cup Chunks(s, c)
      /\ InOrder(s, t \o c) <=> /\ InOrder(s, t) /\ InOrder(s, c)
                                /\ \A m \in Chunks(s, t), n \in Chunks(s, c) : m < n
  BY ChunksConcat
<1>2. InOrder(s, t) /\ Chunks(s, t) \subseteq Nat /\ \A n \in Chunks(s, t) : n <= x.out
  BY ChunkFacts DEF Complete
<1>3. InOrder(s, t \o c)
  BY <1>1, <1>2
<1>4. ASSUME NEW n \in Chunks(s, t \o c), NEW m \in (n + 1)..y.out
      PROVE  m \in Chunks(s, t \o c) \cup y.lost
  <2>1. CASE n \in Chunks(s, t) /\ m <= x.out
    <3>1. m \in (n + 1)..x.out
      BY <1>2, <1>4, <2>1
    <3> QED BY <1>1, <2>1, <3>1 DEF Complete
  <2>2. CASE n \in Chunks(s, t) /\ ~(m <= x.out)
    <3>1. n \in Nat /\ m \in Int /\ m <= x.out + 1
      BY <1>2, <1>4, <2>2
    <3>2. m = x.out + 1
      BY <2>2, <3>1
    <3> QED BY <1>1, <3>2
  <2>3. CASE n \notin Chunks(s, t)
    <3>1. n = y.out
      BY <1>1, <2>3
    <3> QED BY <1>4, <3>1
  <2> QED BY <2>1, <2>2, <2>3
<1>5. \A n \in Chunks(s, t \o c) : n <= y.out
  BY <1>1, <1>2
<1> QED BY <1>3, <1>4, <1>5 DEF Complete

LEMMA CompleteLost ==
  ASSUME NEW s \in Sid, NEW t \in Seq(Byte), NEW x, NEW y,
         x.out \in Nat, y.out = x.out + 1, Complete(s, t, x), y.lost = x.lost \cup {y.out}
  PROVE  Complete(s, t, y)
<1>1. Chunks(s, t) \subseteq Nat /\ \A n \in Chunks(s, t) : n <= x.out
  BY ChunkFacts DEF Complete
<1>2. ASSUME NEW n \in Chunks(s, t), NEW m \in (n + 1)..y.out
      PROVE  m \in Chunks(s, t) \cup y.lost
  <2>1. CASE m = y.out
    BY <2>1
  <2>2. CASE m # y.out
    <3>1. m \in (n + 1)..x.out
      BY <1>1, <1>2, <2>2
    <3> QED BY <3>1 DEF Complete
  <2> QED BY <2>1, <2>2
<1>3. \A n \in Chunks(s, t) : n <= y.out
  BY <1>1
<1> QED BY <1>2, <1>3 DEF Complete

-----------------------------------------------------------------------------
(* Responses.                                                              *)

\* What some responses have for terminal i, one by one and together.
Mine(i, out) == [k \in DOMAIN out |-> IF out[k][1] = i THEN out[k][2] ELSE << >>]
To(i, out) == FlattenSeq(Mine(i, out))

Response == Ids \X Seq(Byte)

LEMMA MineType ==
  ASSUME NEW i \in Ids, NEW out \in Seq(Response)
  PROVE  /\ Mine(i, out) \in Seq(Seq(Byte)) /\ Len(Mine(i, out)) = Len(out)
         /\ \A k \in 1..Len(out) : Mine(i, out)[k] = IF out[k][1] = i THEN out[k][2] ELSE << >>
         /\ To(i, out) \in Seq(Byte)
<1> DEFINE f == Mine(i, out)
<1>1. DOMAIN out = 1..Len(out) /\ Len(out) \in Nat
  BY LenProperties
<1>2. \A k \in 1..Len(out) : out[k] \in Ids \X Seq(Byte)
  BY ElementOfSeq DEF Response
<1>3. \A k \in 1..Len(out) : out[k][2] \in Seq(Byte) /\ << >> \in Seq(Byte)
  BY <1>2
<1>4. /\ f \in [1..Len(out) -> Seq(Byte)]
      /\ \A k \in 1..Len(out) : f[k] = IF out[k][1] = i THEN out[k][2] ELSE << >>
  BY <1>1, <1>3 DEF Mine
<1> HIDE DEF f
<1>5. f \in Seq(Seq(Byte))
  BY <1>1, <1>4, TypedSequence
<1>6. Len(f) = Len(out)
  <2>1. DOMAIN f = 1..Len(out) /\ DOMAIN f = 1..Len(f) /\ Len(f) \in Nat
    BY <1>4, <1>5, LenProperties
  <2> QED BY <1>1, <2>1
<1>7. FlattenSeq(f) \in Seq(Byte)
  BY <1>5, FlattenSeqType
<1> QED BY <1>4, <1>5, <1>6, <1>7 DEF f, To

LEMMA MineConcat ==
  ASSUME NEW i \in Ids, NEW out \in Seq(Response), NEW more \in Seq(Response)
  PROVE  To(i, out \o more) = To(i, out) \o To(i, more)
<1> DEFINE f == Mine(i, out)
           g == Mine(i, more)
           h == Mine(i, out \o more)
           N == Len(out)
           M == Len(more)
<1>1. /\ out \o more \in Seq(Response) /\ Len(out \o more) = N + M /\ N \in Nat /\ M \in Nat
      /\ \A k \in 1..N + M : (out \o more)[k] = IF k <= N THEN out[k] ELSE more[k - N]
  BY ConcatProperties, LenProperties
<1>2. /\ f \in Seq(Seq(Byte)) /\ Len(f) = N
      /\ \A k \in 1..N : f[k] = IF out[k][1] = i THEN out[k][2] ELSE << >>
  BY MineType
<1>3. /\ g \in Seq(Seq(Byte)) /\ Len(g) = M
      /\ \A k \in 1..M : g[k] = IF more[k][1] = i THEN more[k][2] ELSE << >>
  BY MineType
<1>4. /\ h \in Seq(Seq(Byte)) /\ Len(h) = N + M
      /\ \A k \in 1..N + M :
           h[k] = IF (out \o more)[k][1] = i THEN (out \o more)[k][2] ELSE << >>
  <2> DEFINE both == out \o more
  <2>1. both \in Seq(Response) /\ Len(both) = N + M
    BY <1>1
  <2> HIDE DEF both, N, M
  <2>2. /\ Mine(i, both) \in Seq(Seq(Byte)) /\ Len(Mine(i, both)) = Len(both)
        /\ \A k \in 1..Len(both) : Mine(i, both)[k] = IF both[k][1] = i THEN both[k][2] ELSE << >>
    BY <2>1, MineType
  <2> QED BY <2>1, <2>2 DEF both
<1> HIDE DEF f, g, h, N, M
<1>5. /\ f \o g \in Seq(Seq(Byte)) /\ Len(f \o g) = N + M
      /\ \A k \in 1..N + M : (f \o g)[k] = IF k <= N THEN f[k] ELSE g[k - N]
  <2> DEFINE S == Seq(Byte)
  <2>1. f \in Seq(S) /\ g \in Seq(S)
    BY <1>2, <1>3
  <2> HIDE DEF S
  <2>2. /\ f \o g \in Seq(S) /\ Len(f \o g) = Len(f) + Len(g)
        /\ \A k \in 1..Len(f) + Len(g) : (f \o g)[k] = IF k <= Len(f) THEN f[k] ELSE g[k - Len(f)]
    BY <2>1, ConcatProperties
  <2> QED BY <1>2, <1>3, <2>2 DEF S
<1>6. ASSUME NEW k \in 1..N + M PROVE h[k] = (f \o g)[k]
  <2>1. CASE k <= N
    <3>1. k \in 1..N
      BY <1>1, <2>1
    <3> QED BY <1>1, <1>2, <1>4, <1>5, <2>1, <3>1, ZenonT(60)
  <2>2. CASE ~(k <= N)
    <3>1. k - N \in 1..M
      BY <1>1, <2>2
    <3>2. (out \o more)[k] = more[k - N] /\ (f \o g)[k] = g[k - N]
      BY <1>1, <1>5, <2>2
    <3> QED BY <1>3, <1>4, <3>1, <3>2
  <2> QED BY <2>1, <2>2
<1>7. h = f \o g
  <2> DEFINE S == Seq(Byte)
             u == f \o g
  <2>1. h \in Seq(S) /\ u \in Seq(S) /\ Len(h) = Len(u) /\ \A k \in 1..Len(h) : h[k] = u[k]
    BY <1>4, <1>5, <1>6
  <2> HIDE DEF S, u
  <2>2. h = u
    BY <2>1, SeqEqual
  <2> QED BY <2>2 DEF u
<1>8. FlattenSeq(f \o g) = FlattenSeq(f) \o FlattenSeq(g)
  BY <1>2, <1>3, FlattenSeqConcat
<1> QED BY <1>7, <1>8 DEF To, f, g, h

\* Where no piece has a chunk of s, they have none together.
LEMMA FlattenNoChunks ==
  ASSUME NEW s \in Sid, NEW f \in Seq(Seq(Byte)), \A k \in 1..Len(f) : Chunks(s, f[k]) = {}
  PROVE  Chunks(s, FlattenSeq(f)) = {}
<1> DEFINE S == {n \in Nat : n <= Len(f) => Chunks(s, FlattenSeq(SubSeq(f, 1, n))) = {}}
<1>1. 0 \in S
  <2>1. SubSeq(f, 1, 0) = << >>
    BY SubSeqEmpty
  <2>2. FlattenSeq(SubSeq(f, 1, 0)) = << >>
    BY <2>1 DEF FlattenSeq
  <2> QED BY <2>2, NoChunks, EmptySeq
<1>2. ASSUME NEW n \in Nat, n \in S PROVE n + 1 \in S
  <2> SUFFICES ASSUME n + 1 <= Len(f) PROVE Chunks(s, FlattenSeq(SubSeq(f, 1, n + 1))) = {}
    OBVIOUS
  <2> DEFINE front == SubSeq(f, 1, n)
             e == f[n + 1]
  <2>1. n + 1 \in 1..Len(f) /\ (n + 1) - 1 = n /\ n <= Len(f)
    BY LenProperties
  <2>2. front \in Seq(Seq(Byte)) /\ e \in Seq(Byte) /\ SubSeq(f, 1, n + 1) = Append(front, e)
    <3> DEFINE B == Seq(Byte)
               m == n + 1
    <3>1. f \in Seq(B) /\ m \in 1..Len(f)
      BY <2>1
    <3> HIDE DEF B, m
    <3>2. /\ SubSeq(f, 1, m - 1) \in Seq(B) /\ f[m] \in B
          /\ SubSeq(f, 1, m) = Append(SubSeq(f, 1, m - 1), f[m])
      BY <3>1, SubSeqAppend
    <3> QED BY <2>1, <3>2 DEF B, m
  <2>3. Chunks(s, FlattenSeq(front)) = {}
    BY <1>2, <2>1
  <2>3a. Chunks(s, e) = {}
    <3> DEFINE m == n + 1
    <3>1. m \in 1..Len(f)
      BY <2>1
    <3> HIDE DEF m
    <3>2. Chunks(s, f[m]) = {}
      BY <3>1
    <3> QED BY <3>2 DEF m
  <2> HIDE DEF front, e
  <2>4. FlattenSeq(Append(front, e)) = FlattenSeq(front) \o e /\ FlattenSeq(front) \in Seq(Byte)
    BY <2>2, FlattenSeqAppend, FlattenSeqType
  <2>5. Chunks(s, FlattenSeq(front) \o e) = {}
    <3> DEFINE a == FlattenSeq(front)
    <3>1. a \in Seq(Byte) /\ e \in Seq(Byte) /\ Chunks(s, a) = {} /\ Chunks(s, e) = {}
      BY <2>2, <2>3, <2>3a, <2>4
    <3> HIDE DEF a
    <3>2. Chunks(s, a \o e) = Chunks(s, a) \cup Chunks(s, e)
      BY <3>1, ChunksConcat, ZenonT(60)
    <3>3. Chunks(s, a \o e) = {}
      BY <3>1, <3>2
    <3> QED BY <3>3 DEF a
  <2> QED BY <2>2, <2>4, <2>5
<1>3. Len(f) \in Nat /\ SubSeq(f, 1, Len(f)) = f
  <2> DEFINE B == Seq(Byte)
  <2>1. f \in Seq(B)
    OBVIOUS
  <2> HIDE DEF B
  <2> QED BY <2>1, LenProperties, SubSeqFull
<1> DEFINE N == Len(f)
<1>4. N \in S
  <2>1. N \in Nat
    BY <1>3
  <2> HIDE DEF S, N
  <2> QED BY <1>1, <1>2, <2>1, NatSetInduction
<1>5. Chunks(s, FlattenSeq(SubSeq(f, 1, N))) = {}
  <2>1. N \in Nat
    BY <1>3
  <2> HIDE DEF N
  <2>2. N <= N
    BY <2>1
  <2>3. N <= Len(f)
    BY <2>2 DEF N
  <2> QED BY <1>4, <2>3
<1> QED BY <1>3, <1>5

\* What the poll of session x as terminal i sends to i, and that it sends nothing to
\* others.
LEMMA ToResponses ==
  ASSUME NEW i \in Ids, NEW x \in Session
  PROVE  /\ DataResponses(i, x) \in Seq(Response)
         /\ To(i, DataResponses(i, x)) = x.pending \o FlattenSeq(x.chan)
         /\ \A j \in Ids \ {i}, s \in Sid : Chunks(s, To(j, DataResponses(i, x))) = {}
<1> DEFINE a == IF x.pending = << >> THEN << >> ELSE <<<<i, x.pending>>>>
           b == [k \in DOMAIN x.chan |-> <<i, x.chan[k]>>]
           d == DataResponses(i, x)
<1>1. d \in Seq(Response)
  BY ResponsesType DEF Response
<1>2. /\ x.pending \in Seq(Byte) /\ x.chan \in Seq(Seq(Byte))
      /\ DOMAIN x.chan = 1..Len(x.chan) /\ Len(x.chan) \in Nat
  <2>1. x.pending \in Seq(Byte) /\ x.chan \in Seq(Seq(Byte))
    BY DEF Session
  <2> QED BY <2>1, LenProperties
<1>3. \A k \in 1..Len(x.chan) : x.chan[k] \in Seq(Byte)
  BY <1>2, ElementOfSeq
<1>4. a \in Seq(Response) /\ \A k \in 1..Len(a) : a[k] = <<i, x.pending>>
  <2>1. <<i, x.pending>> \in Response
    BY <1>2 DEF Response
  <2>2. CASE x.pending = << >>
    BY <2>2
  <2>3. CASE x.pending # << >>
    BY <2>1, <2>3
  <2> QED BY <2>2, <2>3
<1>5. b \in Seq(Response) /\ Len(b) = Len(x.chan) /\ \A k \in 1..Len(x.chan) : b[k] = <<i, x.chan[k]>>
  <2>1. b \in [1..Len(x.chan) -> Response] /\ \A k \in 1..Len(x.chan) : b[k] = <<i, x.chan[k]>>
    BY <1>2, <1>3 DEF Response
  <2> HIDE DEF b
  <2>2. b \in Seq(Response)
    BY <1>2, <2>1, TypedSequence
  <2>3. DOMAIN b = 1..Len(b) /\ DOMAIN b = 1..Len(x.chan) /\ Len(b) \in Nat
    BY <2>1, <2>2, LenProperties
  <2>4. Len(b) = Len(x.chan)
    BY <1>2, <2>3
  <2> QED BY <2>1, <2>2, <2>4
<1>6. d = a \o b
  BY DEF DataResponses
<1>7. To(i, a) = x.pending
  <2>1. CASE x.pending = << >>
    <3>1. Mine(i, a) = << >>
      BY <2>1 DEF Mine
    <3> QED BY <2>1, <3>1 DEF To, FlattenSeq
  <2>2. CASE x.pending # << >>
    <3>1. Mine(i, a) = <<x.pending>>
      BY <2>2 DEF Mine
    <3>2. <<x.pending>> = Append(<< >>, x.pending)
      OBVIOUS
    <3>3. FlattenSeq(<< >>) = << >> /\ << >> \in Seq(Seq(Byte))
      BY DEF FlattenSeq
    <3>4. FlattenSeq(Append(<< >>, x.pending)) = << >> \o x.pending
      BY <1>2, <3>3, FlattenSeqAppend
    <3>5. << >> \o x.pending = x.pending
      BY <1>2, ConcatEmptySeq
    <3> QED BY <3>1, <3>2, <3>4, <3>5 DEF To
  <2> QED BY <2>1, <2>2
<1> HIDE DEF a, b, d
<1>8. To(i, b) = FlattenSeq(x.chan)
  <2>1. /\ Mine(i, b) \in Seq(Seq(Byte)) /\ Len(Mine(i, b)) = Len(x.chan)
        /\ \A k \in 1..Len(x.chan) : Mine(i, b)[k] = IF b[k][1] = i THEN b[k][2] ELSE << >>
    BY <1>5, MineType
  <2>2. \A k \in 1..Len(x.chan) : Mine(i, b)[k] = x.chan[k]
    BY <1>5, <2>1
  <2>3. Mine(i, b) = x.chan
    BY <1>2, <2>1, <2>2, SeqEqual
  <2> QED BY <2>3 DEF To
<1>9. To(i, d) = x.pending \o FlattenSeq(x.chan)
  BY <1>4, <1>5, <1>6, <1>7, <1>8, MineConcat
<1>10. ASSUME NEW j \in Ids \ {i}, NEW s \in Sid PROVE Chunks(s, To(j, d)) = {}
  <2>1. ASSUME NEW e \in Seq(Response), \A k \in 1..Len(e) : e[k][1] = i
        PROVE  Chunks(s, To(j, e)) = {} /\ To(j, e) \in Seq(Byte)
    <3>1. /\ Mine(j, e) \in Seq(Seq(Byte)) /\ Len(Mine(j, e)) = Len(e) /\ To(j, e) \in Seq(Byte)
          /\ \A k \in 1..Len(e) : Mine(j, e)[k] = IF e[k][1] = j THEN e[k][2] ELSE << >>
      BY MineType
    <3>2. \A k \in 1..Len(e) : Mine(j, e)[k] = << >>
      BY <1>10, <2>1, <3>1
    <3>3. \A k \in 1..Len(Mine(j, e)) : Chunks(s, Mine(j, e)[k]) = {}
      BY <3>1, <3>2, NoChunks
    <3> QED BY <3>1, <3>3, FlattenNoChunks DEF To
  <2>2. /\ Chunks(s, To(j, a)) = {} /\ To(j, a) \in Seq(Byte)
    BY <1>4, <2>1
  <2>3. /\ Chunks(s, To(j, b)) = {} /\ To(j, b) \in Seq(Byte)
    BY <1>5, <2>1
  <2>4. To(j, d) = To(j, a) \o To(j, b)
    BY <1>4, <1>5, <1>6, MineConcat
  <2> QED BY <2>2, <2>3, <2>4, ChunksConcat
<1> QED BY <1>1, <1>9, <1>10 DEF d

-----------------------------------------------------------------------------
(* Sessions: the history and the channel together have what the shell wrote.*)

SessionInv(s, x) ==
  /\ Only(s, History(x.buf)) /\ Only(s, x.pending) /\ Only(s, FlattenSeq(x.chan))
  /\ ~x.stopped => Complete(s, History(x.buf) \o FlattenSeq(x.chan), x)

SessInv == \A s \in DOMAIN sess : SessionInv(s, sess[s])

LEMMA SessionBytes ==
  ASSUME NEW x \in Session
  PROVE  /\ History(x.buf) \in Seq(Byte) /\ x.pending \in Seq(Byte) /\ FlattenSeq(x.chan) \in Seq(Byte)
         /\ x.buf \in OutputBufferType(Byte) /\ x.chan \in Seq(Seq(Byte)) /\ x.out \in Nat
<1>1. x.buf \in OutputBufferType(Byte) /\ x.chan \in Seq(Seq(Byte)) /\ x.out \in Nat
      /\ x.pending \in Seq(Byte)
  BY DEF Session
<1>2. x.buf.lines \in Seq(Seq(Byte))
  BY <1>1 DEF OutputBufferType
<1> QED BY <1>1, <1>2, FlattenSeqType DEF History

LEMMA NothingOnly ==
  ASSUME NEW s \in Sid
  PROVE  /\ Only(s, << >>) /\ FlattenSeq(<< >>) = << >> /\ << >> \in Seq(Byte)
         /\ << >> \in Seq(Seq(Byte)) /\ << >> \o << >> = << >>
<1>1. << >> \in Seq(Byte)
  BY EmptySeq
<1>2. Only(s, << >>)
  BY <1>1, NoChunks DEF Only
<1> QED BY <1>1, <1>2, ConcatEmptySeq, EmptySeq DEF FlattenSeq

LEMMA NewSessionInv ==
  ASSUME NEW s \in Sid, NEW r
  PROVE  SessionInv(s, NewSession(r))
<1> DEFINE x == NewSession(r)
<1>1. x.buf = NewBuffer /\ x.pending = << >> /\ x.chan = << >>
  BY DEF NewSession
<1>2. History(x.buf) = << >> /\ FlattenSeq(x.chan) = << >>
  BY <1>1, NothingOnly DEF History, NewBuffer
<1> HIDE DEF x
<1>3. Complete(s, << >>, x)
  BY NothingOnly, NoChunks, CompleteNone
<1>4. SessionInv(s, x)
  BY <1>1, <1>2, <1>3, NothingOnly DEF SessionInv
<1> QED BY <1>4 DEF x

\* Nothing that matters to the stream of a session changed.
Same(x, y) ==
  /\ y.buf = x.buf /\ y.chan = x.chan /\ y.pending = x.pending /\ y.out = x.out
  /\ y.lost = x.lost /\ y.active = x.active /\ y.stopped = x.stopped

\* Only the stream is given up, or what was due has been sent.
LEMMA SessionInvKept ==
  ASSUME NEW s \in Sid, NEW x, NEW y, SessionInv(s, x),
         y.buf = x.buf, y.chan = x.chan, y.pending = x.pending \/ y.pending = << >>,
         y.out = x.out, y.lost = x.lost, y.stopped = x.stopped
  PROVE  SessionInv(s, y)
<1>1. Only(s, y.pending)
  BY NothingOnly DEF SessionInv
<1>2. Only(s, History(y.buf)) /\ Only(s, FlattenSeq(y.chan))
  BY DEF SessionInv
<1>3. ~y.stopped => Complete(s, History(y.buf) \o FlattenSeq(y.chan), y)
  <2> SUFFICES ASSUME ~y.stopped PROVE Complete(s, History(y.buf) \o FlattenSeq(y.chan), y)
    OBVIOUS
  <2>1. Complete(s, History(x.buf) \o FlattenSeq(x.chan), x)
    BY DEF SessionInv
  <2> DEFINE t == History(x.buf) \o FlattenSeq(x.chan)
  <2>2. History(y.buf) \o FlattenSeq(y.chan) = t
    OBVIOUS
  <2> HIDE DEF t
  <2>3. Complete(s, t, x)
    BY <2>1 DEF t
  <2>4. Complete(s, t, y)
    BY <2>3 DEF Complete
  <2> QED BY <2>2, <2>4
<1> QED BY <1>1, <1>2, <1>3 DEF SessionInv

LEMMA StopInv ==
  ASSUME NEW s \in Sid, NEW x \in Session, SessionInv(s, x)
  PROVE  SessionInv(s, stop(x))
<1>1. /\ stop(x).buf = x.buf /\ stop(x).pending = << >> /\ stop(x).chan = << >> /\ stop(x).stopped
  BY DEF stop, Session
<1> QED BY <1>1, NothingOnly DEF SessionInv

LEMMA ReattachedInv ==
  ASSUME NEW s \in Sid, NEW x \in Session, SessionInv(s, x), ~x.stopped
  PROVE  /\ SessionInv(s, Reattached(x))
         /\ Reattached(x).active /\ Reattached(x).chan = x.chan
         /\ LET y == Reattached(x)
            IN  Complete(s, y.pending \o FlattenSeq(y.chan), y)
<1> DEFINE y == Reattached(x)
           h == History(x.buf)
           p == get_recent(x.buf, ReplayBytes)
           c == FlattenSeq(x.chan)
<1>1. y.active /\ y.chan = x.chan /\ y.buf = x.buf /\ y.pending = p /\ y.out = x.out /\ y.lost = x.lost
      /\ y.stopped = x.stopped
  BY DEF Reattached, Session
<1>2. h \in Seq(Byte) /\ c \in Seq(Byte) /\ x.out \in Nat /\ x.buf \in OutputBufferType(Byte)
  BY SessionBytes
<1>3. p \in Seq(Byte) /\ IsEndOf(Byte, p, h)
  BY <1>2, ReplayIsEnd, Constants
<1>4. Complete(s, h \o c, x) /\ Only(s, h) /\ Only(s, c)
  BY DEF SessionInv
<1> HIDE DEF y, h, p, c
<1>5. Only(s, p)
  BY <1>2, <1>3, <1>4, OnlyEnd
<1>6. h \o c \in Seq(Byte) /\ p \o c \in Seq(Byte) /\ IsEndOf(Byte, p \o c, h \o c)
  BY <1>2, <1>3, ConcatProperties, EndOfMore
<1>7. Complete(s, p \o c, x)
  BY <1>2, <1>4, <1>6, CompleteEnd
<1>8. Complete(s, p \o c, y) /\ Complete(s, h \o c, y)
  BY <1>1, <1>4, <1>7 DEF Complete
<1>9. SessionInv(s, y)
  BY <1>1, <1>4, <1>5, <1>8 DEF SessionInv, h, c
<1> QED BY <1>1, <1>8, <1>9 DEF y, c

LEMMA DrainedInv ==
  ASSUME NEW s \in Sid, NEW x \in Session, SessionInv(s, x)
  PROVE  /\ SessionInv(s, Drained(x)) /\ Drained(x).chan = << >>
         /\ Drained(x).pending = x.pending /\ Drained(x).active = x.active
         /\ Drained(x).out = x.out /\ Drained(x).lost = x.lost /\ Drained(x).stopped = x.stopped
<1> DEFINE y == Drained(x)
           b == append_all(x.buf, x.chan)
           h == History(x.buf)
           g == History(b)
           c == FlattenSeq(x.chan)
<1>1. y.chan = << >> /\ y.pending = x.pending /\ y.active = x.active /\ y.buf = b
      /\ y.out = x.out /\ y.lost = x.lost /\ y.stopped = x.stopped
  BY DEF Drained, Session
<1>2. h \in Seq(Byte) /\ c \in Seq(Byte) /\ x.out \in Nat /\ x.buf \in OutputBufferType(Byte)
      /\ x.chan \in Seq(Seq(Byte))
  BY SessionBytes
<1>3. b \in OutputBufferType(Byte) /\ IsEndOf(Byte, g, h \o c)
  BY <1>2, HistoryIsEnd
<1>4. g \in Seq(Byte)
  BY <1>3, FlattenSeqType DEF History, OutputBufferType
<1>5. Only(s, h) /\ Only(s, c) /\ Only(s, x.pending) /\ (~x.stopped => Complete(s, h \o c, x))
  BY DEF SessionInv
<1> HIDE DEF y, b, h, g, c
<1>6. h \o c \in Seq(Byte) /\ Only(s, h \o c)
  BY <1>2, <1>5, ConcatProperties, OnlyConcat
<1>7. Only(s, g)
  BY <1>3, <1>4, <1>6, OnlyEnd
<1>8. ~x.stopped => Complete(s, g, x)
  BY <1>2, <1>3, <1>4, <1>5, <1>6, CompleteEnd
<1>9. ~y.stopped => Complete(s, g, y)
  BY <1>1, <1>8 DEF Complete
<1>10. g \o FlattenSeq(<< >>) = g
  BY <1>4, NothingOnly, ConcatEmptySeq
<1>11. SessionInv(s, y)
  BY <1>1, <1>5, <1>7, <1>9, <1>10, NothingOnly DEF SessionInv, g
<1> QED BY <1>1, <1>11 DEF y

LEMMA StreamedInv ==
  ASSUME NEW s \in Sid, NEW x \in Session, NEW ok \in BOOLEAN, SessionInv(s, x)
  PROVE  /\ SessionInv(s, Streamed(x, ok)) /\ Streamed(x, ok).chan = x.chan
         /\ Streamed(x, ok).pending = << >> /\ Streamed(x, ok).active = x.active
         /\ Streamed(x, ok).out = x.out /\ Streamed(x, ok).lost = x.lost
<1> DEFINE y == [x EXCEPT !.pending = << >>]
           z == Streamed(x, ok)
<1>1. y.chan = x.chan /\ y.pending = << >> /\ y.active = x.active /\ y.buf = x.buf
      /\ y.out = x.out /\ y.lost = x.lost /\ y.stopped = x.stopped /\ y \in Session
  <2>1. << >> \in Seq(Byte)
    OBVIOUS
  <2> QED BY <2>1 DEF Session
<1>2. z \in {[y EXCEPT !.phase = "idle"], [y EXCEPT !.retries = @ - 1], Resized(y)}
  BY DEF Streamed
<1> HIDE DEF y, z
<1>3. Resized(y) \in {y, [y EXCEPT !.pty = y.rows, !.phase = "idle", !.retries = 0],
                      [y EXCEPT !.pty = TempRows(y.rows), !.phase = "restore", !.retries = Attempts]}
  BY DEF Resized
<1>4. z.chan = y.chan /\ z.pending = y.pending /\ z.active = y.active /\ z.buf = y.buf
      /\ z.out = y.out /\ z.lost = y.lost /\ z.stopped = y.stopped
  <2>1. CASE z = [y EXCEPT !.phase = "idle"]
    BY <1>1, <2>1 DEF Session
  <2>2. CASE z = [y EXCEPT !.retries = @ - 1]
    BY <1>1, <2>2 DEF Session
  <2>3. CASE z = y
    BY <2>3
  <2>4. CASE z = [y EXCEPT !.pty = y.rows, !.phase = "idle", !.retries = 0]
    BY <1>1, <2>4 DEF Session
  <2>5. CASE z = [y EXCEPT !.pty = TempRows(y.rows), !.phase = "restore", !.retries = Attempts]
    BY <1>1, <2>5 DEF Session
  <2> QED BY <1>2, <1>3, <2>1, <2>2, <2>3, <2>4, <2>5
<1>5. SessionInv(s, z)
  BY <1>1, <1>4, SessionInvKept
<1> QED BY <1>1, <1>4, <1>5 DEF z

LEMMA ChunkWritten ==
  ASSUME NEW s \in Sid, NEW n \in Nat \ {0}, NEW chunk,
         chunk = IF n \in LineEnds THEN <<<<s, n>>, NL>> ELSE <<<<s, n>>>>
  PROVE  chunk \in Seq(Byte) /\ Chunks(s, chunk) = {n} /\ InOrder(s, chunk) /\ Only(s, chunk)
<1>1. <<s, n>> \in Byte /\ NL \in Byte
  BY DEF Byte
<1>2. chunk \in Seq(Byte) /\ Len(chunk) \in 1..2 /\ chunk[1] = <<s, n>> /\ (Len(chunk) = 2 => chunk[2] = NL)
  <2> DEFINE b == <<s, n>>
  <2>1. b \in Byte /\ NL \in Byte /\ chunk = IF n \in LineEnds THEN <<b, NL>> ELSE <<b>>
    BY <1>1
  <2> HIDE DEF b
  <2>2. chunk \in Seq(Byte) /\ Len(chunk) \in 1..2 /\ chunk[1] = b /\ (Len(chunk) = 2 => chunk[2] = NL)
    BY <2>1
  <2> QED BY <2>2 DEF b
<1>3. \A r \in Sid, m \in Nat : NL # <<r, m>>
  BY TerminalAssumption DEF Sid
<1>4. ASSUME NEW r \in Sid, NEW m \in Nat, NEW k \in 1..Len(chunk), chunk[k] = <<r, m>>
      PROVE  k = 1 /\ r = s /\ m = n
  <2>1. k = 1
    BY <1>2, <1>3, <1>4
  <2>2. <<r, m>> = <<s, n>>
    BY <1>2, <1>4, <2>1
  <2> QED BY <2>1, <2>2
<1>5. 1 \in 1..Len(chunk)
  BY <1>2
<1>6. \A r \in Sid : /\ Chunks(r, chunk) \subseteq Nat
                     /\ \A m \in Nat : m \in Chunks(r, chunk) <=> \E k \in 1..Len(chunk) : chunk[k] = <<r, m>>
  BY <1>2, ChunkFacts
<1>7. Chunks(s, chunk) = {n}
  <2>1. n \in Chunks(s, chunk)
    BY <1>2, <1>5, <1>6
  <2>2. \A m \in Chunks(s, chunk) : m = n
    BY <1>4, <1>6
  <2> QED BY <2>1, <2>2
<1>8. Only(s, chunk)
  <2> SUFFICES ASSUME NEW r \in Sid \ {s}, NEW m \in Chunks(r, chunk) PROVE FALSE
    BY DEF Only
  <2>1. m \in Nat /\ \E k \in 1..Len(chunk) : chunk[k] = <<r, m>>
    BY <1>6
  <2> QED BY <1>4, <2>1
<1>9. InOrder(s, chunk)
  <2>1. InOrder(s, chunk) <=> \A j, k \in 1..Len(chunk) : \A m, l \in Nat :
                                j < k /\ chunk[j] = <<s, m>> /\ chunk[k] = <<s, l>> => m < l
    BY <1>2, ChunkFacts
  <2>2. ASSUME NEW j \in 1..Len(chunk), NEW k \in 1..Len(chunk), NEW m \in Nat, NEW l \in Nat,
               j < k, chunk[j] = <<s, m>>, chunk[k] = <<s, l>>
        PROVE  m < l
    <3>1. j = 1 /\ k = 1
      BY <1>4, <2>2
    <3> QED BY <2>2, <3>1
  <2> QED BY <2>1, <2>2
<1> QED BY <1>2, <1>7, <1>8, <1>9

\* A session after its shell wrote a chunk.
Written(s, x, y) ==
  LET n == x.out + 1
      chunk == IF n \in LineEnds THEN <<<<s, n>>, NL>> ELSE <<<<s, n>>>>
  IN  y = IF Len(x.chan) < ChannelSize THEN [x EXCEPT !.out = n, !.chan = Append(@, chunk)]
                                       ELSE [x EXCEPT !.out = n, !.lost = @ \cup {n}]

LEMMA WrittenInv ==
  ASSUME NEW s \in Sid, NEW x \in Session, NEW y, Written(s, x, y), SessionInv(s, x)
  PROVE  /\ SessionInv(s, y)
         /\ y.pending = x.pending /\ y.active = x.active /\ y.stopped = x.stopped
         /\ \A t \in Seq(Byte) : Complete(s, t \o FlattenSeq(x.chan), x)
                                   => Complete(s, t \o FlattenSeq(y.chan), y)
<1> DEFINE n == x.out + 1
           chunk == IF n \in LineEnds THEN <<<<s, n>>, NL>> ELSE <<<<s, n>>>>
           c == FlattenSeq(x.chan)
           d == FlattenSeq(y.chan)
<1>1. /\ x.out \in Nat /\ n \in Nat \ {0} /\ x.chan \in Seq(Seq(Byte)) /\ c \in Seq(Byte)
      /\ History(x.buf) \in Seq(Byte)
  BY SessionBytes
<1>2. chunk \in Seq(Byte) /\ Chunks(s, chunk) = {n} /\ InOrder(s, chunk) /\ Only(s, chunk)
  BY <1>1, ChunkWritten
<1>3. y = IF Len(x.chan) < ChannelSize THEN [x EXCEPT !.out = n, !.chan = Append(x.chan, chunk)]
                                       ELSE [x EXCEPT !.out = n, !.lost = x.lost \cup {n}]
  BY DEF Written
<1> HIDE DEF chunk
<1>4. y.pending = x.pending /\ y.active = x.active /\ y.stopped = x.stopped /\ y.buf = x.buf /\ y.out = n
  BY <1>3 DEF Session
<1>5. Only(s, x.pending) /\ Only(s, History(x.buf)) /\ Only(s, c)
  BY DEF SessionInv
<1>6. CASE Len(x.chan) < ChannelSize
  <2>1. y.chan = Append(x.chan, chunk) /\ y.lost = x.lost
    BY <1>3, <1>6 DEF Session
  <2>2. d = c \o chunk
    BY <1>1, <1>2, <2>1, FlattenSeqAppend
  <2> HIDE DEF c, d
  <2>3. ASSUME NEW t \in Seq(Byte), Complete(s, t \o c, x) PROVE Complete(s, t \o d, y)
    <3>1. t \o c \in Seq(Byte) /\ (t \o c) \o chunk = t \o (c \o chunk)
      <4>1. t \in Seq(Byte) /\ c \in Seq(Byte) /\ chunk \in Seq(Byte)
        BY <1>1, <1>2 DEF c
      <4> QED BY ONLY <4>1, ConcatProperties, ConcatAssociative, SMTT(60)
    <3> DEFINE u == t \o c
    <3>2. u \in Seq(Byte) /\ Complete(s, u, x)
      BY <2>3, <3>1
    <3> HIDE DEF u
    <3>3. Complete(s, u \o chunk, y)
      BY <1>1, <1>2, <1>4, <2>1, <3>2, CompleteMore
    <3> QED BY <2>2, <3>1, <3>3 DEF u
  <2>4. Only(s, d)
    BY <1>1, <1>2, <1>5, <2>2, OnlyConcat DEF c
  <2>5. ~y.stopped => Complete(s, History(y.buf) \o d, y)
    <3>1. ~x.stopped => Complete(s, History(x.buf) \o c, x)
      BY DEF SessionInv, c
    <3> QED BY <1>1, <1>4, <2>3, <3>1
  <2>6. SessionInv(s, y)
    BY <1>4, <1>5, <2>4, <2>5 DEF SessionInv, d
  <2> QED BY <1>4, <2>3, <2>6 DEF c, d
<1>7. CASE ~(Len(x.chan) < ChannelSize)
  <2>1. y.chan = x.chan /\ y.lost = x.lost \cup {n}
    BY <1>3, <1>7 DEF Session
  <2>2. d = c
    BY <2>1
  <2> HIDE DEF c, d
  <2>3. ASSUME NEW t \in Seq(Byte), Complete(s, t \o c, x) PROVE Complete(s, t \o d, y)
    <3> DEFINE u == t \o c
    <3>1. u \in Seq(Byte) /\ Complete(s, u, x)
      BY <1>1, <2>3, ConcatProperties DEF c
    <3> HIDE DEF u
    <3>2. Complete(s, u, y)
      BY <1>1, <1>4, <2>1, <3>1, CompleteLost
    <3> QED BY <2>2, <3>2 DEF u
  <2>4. ~y.stopped => Complete(s, History(y.buf) \o d, y)
    <3>1. ~x.stopped => Complete(s, History(x.buf) \o c, x)
      BY DEF SessionInv, c
    <3> QED BY <1>1, <1>4, <2>3, <3>1
  <2>5. SessionInv(s, y)
    BY <1>4, <1>5, <2>2, <2>4 DEF SessionInv, d
  <2> QED BY <1>4, <2>3, <2>5 DEF c, d
<1> QED BY <1>6, <1>7

-----------------------------------------------------------------------------
(* What was sent to the terminals, and what is still to be sent.           *)

\* The bytes sent to a terminal of session s, which is x now, with those that wait.
Stream(s, bytes, x) == Complete(s, (bytes \o x.pending) \o FlattenSeq(x.chan), x)

\* A session of which nothing was sent: it does not exist yet, or is not streamed.
Unsent(s, ss, table) ==
  \/ s \notin DOMAIN ss
  \/ (\E j \in DOMAIN table : table[j] = s) /\ ~ss[s].active

Flow(ss, table, opened, todo, sent) ==
  /\ \A i \in opened \cap DOMAIN table : Stream(table[i], sent[i], ss[table[i]])
  /\ \A i \in Ids, s \in Sid : Unsent(s, ss, table) => Chunks(s, sent[i]) = {}
  /\ \A e \in todo, i \in DOMAIN table :
       table[i] = e[2] /\ i # e[1] => Chunks(e[2], sent[i]) = {}

LEMMA StreamKept ==
  ASSUME NEW s, NEW bytes, NEW x, NEW y, Same(x, y), Stream(s, bytes, x)
  PROVE  Stream(s, bytes, y)
<1> DEFINE t == (bytes \o x.pending) \o FlattenSeq(x.chan)
<1>1. y.out = x.out /\ y.lost = x.lost /\ (bytes \o y.pending) \o FlattenSeq(y.chan) = t
  BY DEF Same
<1>2. Complete(s, t, x)
  BY DEF Stream
<1> HIDE DEF t
<1>3. Complete(s, t, y)
  BY <1>1, <1>2 DEF Complete
<1> QED BY <1>1, <1>3 DEF Stream

\* Terminals leave the table, or are listed as they are; what is shown loses at most
\* what went to terminals that are not open.
LEMMA FlowKept ==
  ASSUME NEW ss, NEW table, NEW opened, NEW todo, NEW sent, Flow(ss, table, opened, todo, sent),
         NEW tt, NEW table2, NEW opened2, NEW todo2, NEW sent2,
         DOMAIN tt = DOMAIN ss, DOMAIN table2 \subseteq DOMAIN table, DOMAIN table2 \subseteq Ids,
         \A i \in DOMAIN table2 : table2[i] = table[i] /\ Same(ss[table[i]], tt[table[i]]),
         Injective(table2), opened2 \subseteq opened,
         \A e \in todo2 : e \in todo \/ (e[1] \in DOMAIN table2 /\ table2[e[1]] = e[2]),
         \A i \in opened2 : sent2[i] = sent[i],
         \A i \in Ids, s \in Sid : Chunks(s, sent2[i]) \subseteq Chunks(s, sent[i]),
         \A i \in DOMAIN table2 : table2[i] \in Sid
  PROVE  Flow(tt, table2, opened2, todo2, sent2)
<1>1. ASSUME NEW i \in opened2 \cap DOMAIN table2 PROVE Stream(table2[i], sent2[i], tt[table2[i]])
  <2>1. Stream(table[i], sent[i], ss[table[i]])
    BY DEF Flow
  <2>2. Stream(table[i], sent[i], tt[table[i]])
    BY <2>1, StreamKept
  <2> QED BY <2>2
<1>2. ASSUME NEW i \in Ids, NEW s \in Sid, Unsent(s, tt, table2) PROVE Chunks(s, sent2[i]) = {}
  <2> SUFFICES Chunks(s, sent[i]) = {}
    OBVIOUS
  <2>1. CASE s \notin DOMAIN tt
    BY <2>1 DEF Flow, Unsent
  <2>2. ASSUME NEW j \in DOMAIN table2, table2[j] = s, ~tt[s].active PROVE Chunks(s, sent[i]) = {}
    <3>1. j \in DOMAIN table /\ table[j] = s /\ ss[s].active = tt[s].active
      BY <2>2 DEF Same
    <3>2. Unsent(s, ss, table)
      BY <2>2, <3>1 DEF Unsent
    <3> QED BY <3>2 DEF Flow
  <2> QED BY <1>2, <2>1, <2>2 DEF Unsent
<1>3. ASSUME NEW e \in todo2, NEW i \in DOMAIN table2, table2[i] = e[2], i # e[1]
      PROVE  Chunks(e[2], sent2[i]) = {}
  <2>1. e \in todo
    BY <1>3 DEF Injective
  <2>2. Chunks(e[2], sent[i]) = {}
    BY <1>3, <2>1 DEF Flow
  <2>3. e[2] \in Sid /\ i \in Ids
    BY <1>3
  <2> QED BY <2>2, <2>3
<1> QED BY <1>1, <1>2, <1>3 DEF Flow

\* Terminal i is opened on session s, of which nothing was sent.
LEMMA FlowOpened ==
  ASSUME NEW ss, NEW table, NEW opened, NEW todo, NEW sent, Flow(ss, table, opened, todo, sent),
         NEW i \in Ids, NEW s \in Sid, Unsent(s, ss, table), NEW tt, NEW table2,
         sent \in [Ids -> Seq(Byte)],
         DOMAIN ss \subseteq DOMAIN tt, s \in DOMAIN tt,
         \A r \in DOMAIN ss \ {s} : tt[r] = ss[r],
         tt[s] \in Session, tt[s].active,
         Complete(s, tt[s].pending \o FlattenSeq(tt[s].chan), tt[s]),
         i \in DOMAIN table2, table2[i] = s,
         \A j \in DOMAIN table2 \ {i} :
           /\ j \in Ids /\ table2[j] \in DOMAIN ss \ {s} /\ table2[j] \in Sid
           /\ \E k \in DOMAIN table : table2[j] = table[k]
           /\ \/ j \in DOMAIN table /\ table2[j] = table[j]
              \/ j \notin opened /\ Unsent(table2[j], ss, table)
  PROVE  Flow(tt, table2, opened \cup {i}, todo, sent)
<1>1. \A j \in Ids : sent[j] \in Seq(Byte) /\ Chunks(s, sent[j]) = {}
  BY DEF Flow
<1>2. Stream(s, sent[i], tt[s])
  <2> DEFINE b == sent[i]
             p == tt[s].pending
             c == FlattenSeq(tt[s].chan)
  <2>1. b \in Seq(Byte) /\ p \in Seq(Byte) /\ c \in Seq(Byte)
    BY <1>1, SessionBytes
  <2>2. Chunks(s, b) = {} /\ Complete(s, p \o c, tt[s])
    BY <1>1
  <2> DEFINE x == tt[s]
  <2> HIDE DEF b, p, c, x
  <2>3. (b \o p) \o c = b \o (p \o c) /\ p \o c \in Seq(Byte)
    BY ONLY <2>1, ConcatProperties, ConcatAssociative, SMTT(60)
  <2>4. Complete(s, b \o (p \o c), x)
    <3> DEFINE d == p \o c
    <3> HIDE DEF d
    <3>1. d \in Seq(Byte) /\ Complete(s, d, x)
      BY <2>2, <2>3 DEF d, x
    <3>2. Complete(s, b \o d, x)
      BY <2>1, <2>2, <3>1, CompleteAfter
    <3> QED BY <3>2 DEF d
  <2>5. Complete(s, (b \o p) \o c, x)
    BY <2>3, <2>4
  <2> QED BY <2>5 DEF Stream, b, p, c, x
<1>3. ASSUME NEW j \in (opened \cup {i}) \cap DOMAIN table2
      PROVE  Stream(table2[j], sent[j], tt[table2[j]])
  <2>1. CASE j = i
    BY <1>2, <2>1
  <2>2. CASE j # i
    <3>1. j \in opened \cap DOMAIN table /\ table2[j] = table[j] /\ tt[table[j]] = ss[table[j]]
      BY <2>2
    <3> QED BY <3>1 DEF Flow
  <2> QED BY <2>1, <2>2
<1>4. ASSUME NEW j \in Ids, NEW r \in Sid, Unsent(r, tt, table2) PROVE Chunks(r, sent[j]) = {}
  <2>1. CASE r = s
    BY <1>1, <2>1
  <2>2. CASE r # s
    <3>1. CASE r \notin DOMAIN tt
      BY <3>1 DEF Flow, Unsent
    <3>2. ASSUME NEW k \in DOMAIN table2, table2[k] = r, ~tt[r].active PROVE Chunks(r, sent[j]) = {}
      <4>1. k \in DOMAIN table2 \ {i} /\ r \in DOMAIN ss \ {s}
        BY <2>2, <3>2
      <4>2. ~ss[r].active /\ \E l \in DOMAIN table : table[l] = r
        BY <3>2, <4>1
      <4>3. Unsent(r, ss, table)
        BY <4>2 DEF Unsent
      <4> QED BY <4>3 DEF Flow
    <3> QED BY <1>4, <3>1, <3>2 DEF Unsent
  <2> QED BY <2>1, <2>2
<1>5. ASSUME NEW e \in todo, NEW j \in DOMAIN table2, table2[j] = e[2], j # e[1]
      PROVE  Chunks(e[2], sent[j]) = {}
  <2>1. CASE e[2] = s
    BY <1>1, <1>5, <2>1
  <2>2. CASE e[2] # s
    <3>1. j # i
      BY <1>5, <2>2
    <3>2. CASE j \in DOMAIN table /\ table2[j] = table[j]
      BY <1>5, <3>1, <3>2 DEF Flow
    <3>3. CASE Unsent(table2[j], ss, table)
      <4>1. j \in Ids /\ table2[j] \in Sid
        BY <3>1
      <4> QED BY <1>5, <3>3, <4>1 DEF Flow
    <3> QED BY <3>1, <3>2, <3>3
  <2> QED BY <2>1, <2>2
<1> QED BY <1>3, <1>4, <1>5 DEF Flow

\* The shell of session s wrote a chunk.
LEMMA FlowWritten ==
  ASSUME NEW ss, NEW table, NEW opened, NEW todo, NEW sent, Flow(ss, table, opened, todo, sent),
         NEW s \in Sid, s \in DOMAIN ss, ss[s] \in Session, SessionInv(s, ss[s]),
         NEW y, Written(s, ss[s], y), NEW tt, DOMAIN tt = DOMAIN ss, tt[s] = y,
         \A r \in DOMAIN ss \ {s} : tt[r] = ss[r],
         sent \in [Ids -> Seq(Byte)], DOMAIN table \subseteq Ids,
         \A i \in DOMAIN table : table[i] \in DOMAIN ss
  PROVE  Flow(tt, table, opened, todo, sent)
<1> DEFINE x == ss[s]
<1>1. /\ y.pending = x.pending /\ y.active = x.active
      /\ \A t \in Seq(Byte) : Complete(s, t \o FlattenSeq(x.chan), x)
                                => Complete(s, t \o FlattenSeq(y.chan), y)
  BY WrittenInv
<1>2. ASSUME NEW i \in opened \cap DOMAIN table PROVE Stream(table[i], sent[i], tt[table[i]])
  <2>1. Stream(table[i], sent[i], ss[table[i]])
    BY DEF Flow
  <2>2. CASE table[i] # s
    BY <2>1, <2>2
  <2>3. CASE table[i] = s
    <3> DEFINE t == sent[i] \o x.pending
    <3>1. t \in Seq(Byte)
      <4>1. sent[i] \in Seq(Byte) /\ x.pending \in Seq(Byte)
        BY SessionBytes
      <4> QED BY <4>1, ConcatProperties
    <3>2. Complete(s, t \o FlattenSeq(x.chan), x)
      BY <2>1, <2>3 DEF Stream
    <3> HIDE DEF t
    <3>3. Complete(s, t \o FlattenSeq(y.chan), y)
      BY <1>1, <3>1, <3>2
    <3> QED BY <1>1, <2>3, <3>3 DEF Stream, t
  <2> QED BY <2>2, <2>3
<1>3. ASSUME NEW i \in Ids, NEW r \in Sid, Unsent(r, tt, table) PROVE Chunks(r, sent[i]) = {}
  <2>1. r \in DOMAIN ss => tt[r].active = ss[r].active
    BY <1>1
  <2>2. Unsent(r, ss, table)
    BY <1>3, <2>1 DEF Unsent
  <2> QED BY <2>2 DEF Flow
<1> QED BY <1>2, <1>3 DEF Flow

\* What the poll of session s makes of the sessions in the table, when they are ss.
OnePolled(s, ss, tt, table) ==
  \A j \in DOMAIN table :
    /\ table[j] \in DOMAIN ss /\ table[j] \in Sid /\ ss[table[j]] \in Session
    /\ table[j] # s => tt[table[j]] = ss[table[j]]
    /\ table[j] = s => /\ tt[s].active = ss[s].active /\ tt[s].out = ss[s].out
                       /\ tt[s].lost = ss[s].lost /\ tt[s].chan = << >>
                       /\ ss[s].active => tt[s].pending = << >>

\* A thread polled session s as terminal i: what waited was sent to i.
LEMMA FlowRead ==
  ASSUME NEW ss, NEW table, NEW opened, NEW todo, NEW sent, Flow(ss, table, opened, todo, sent),
         NEW i \in Ids, NEW s \in Sid, <<i, s>> \in todo, s \in DOMAIN ss, ss[s] \in Session,
         SessionInv(s, ss[s]), NEW tt, DOMAIN tt = DOMAIN ss, DOMAIN table \subseteq Ids,
         OnePolled(s, ss, tt, table),
         \A j \in opened \cap DOMAIN table : ss[table[j]].active,
         \A f \in todo : f[2] \in Sid /\ (f[2] = s => f = <<i, s>>),
         sent \in [Ids -> Seq(Byte)], NEW sent2,
         \A j \in Ids : sent2[j] = IF ss[s].active THEN sent[j] \o To(j, DataResponses(i, ss[s]))
                                                   ELSE sent[j]
  PROVE  Flow(tt, table, opened, todo \ {<<i, s>>}, sent2)
<1> USE DEF OnePolled
<1> DEFINE x == ss[s]
           new(j) == To(j, DataResponses(i, x))
<1>1. /\ DataResponses(i, x) \in Seq(Response)
      /\ new(i) = x.pending \o FlattenSeq(x.chan)
      /\ \A j \in Ids \ {i}, r \in Sid : Chunks(r, new(j)) = {}
  BY ToResponses
<1>2. \A j \in Ids : new(j) \in Seq(Byte)
  BY <1>1, MineType
<1>3. x.pending \in Seq(Byte) /\ FlattenSeq(x.chan) \in Seq(Byte)
  BY SessionBytes
<1>4. \A j \in Ids, r \in Sid \ {s} : Chunks(r, new(j)) = {}
  <2>1. Only(s, x.pending \o FlattenSeq(x.chan))
    <3>1. Only(s, x.pending) /\ Only(s, FlattenSeq(x.chan))
      BY DEF SessionInv
    <3> QED BY <1>3, <3>1, OnlyConcat
  <2>2. \A r \in Sid \ {s} : Chunks(r, new(i)) = {}
    BY <1>1, <2>1 DEF Only
  <2> QED BY <1>1, <2>2
<1>5. \A j \in Ids, r \in Sid \ {s} : Chunks(r, sent2[j]) = Chunks(r, sent[j])
  <2> SUFFICES ASSUME NEW j \in Ids, NEW r \in Sid \ {s} PROVE Chunks(r, sent2[j]) = Chunks(r, sent[j])
    OBVIOUS
  <2> DEFINE a == sent[j]
             b == new(j)
  <2>1. a \in Seq(Byte) /\ b \in Seq(Byte) /\ Chunks(r, b) = {}
    BY <1>2, <1>4
  <2> HIDE DEF a, b
  <2>2. Chunks(r, a \o b) = Chunks(r, a)
    BY ONLY r \in Sid \ {s}, <2>1, NoneConcat
  <2> QED BY <2>2 DEF a, b
<1> HIDE DEF new
<1>6. ASSUME NEW j \in opened \cap DOMAIN table PROVE Stream(table[j], sent2[j], tt[table[j]])
  <2> DEFINE r == table[j]
             a == sent[j]
             b == new(j)
  <2>1. /\ Stream(r, a, ss[r]) /\ ss[r].active /\ r \in Sid /\ r \in DOMAIN ss /\ ss[r] \in Session
        /\ j \in Ids
    BY DEF Flow
  <2>2. a \in Seq(Byte) /\ b \in Seq(Byte)
    BY <1>2, <2>1
  <2>3. CASE r # s
    <3> DEFINE y == ss[r]
               p == y.pending
               c == FlattenSeq(y.chan)
    <3>1. p \in Seq(Byte) /\ c \in Seq(Byte)
      BY <2>1, SessionBytes
    <3>2. Complete(r, (a \o p) \o c, y) /\ tt[r] = y
      BY <2>1, <2>3 DEF Stream
    <3>3. sent2[j] = a \/ sent2[j] = a \o b
      BY <2>1 DEF new
    <3>4. Chunks(r, b) = {}
      BY <1>4, <2>1, <2>3 DEF new
    <3>5. r \in Sid
      BY <2>1
    <3> HIDE DEF a, b, y, p, c, r
    <3>6. /\ (a \o p) \o c = a \o (p \o c) /\ p \o c \in Seq(Byte) /\ a \o b \in Seq(Byte)
          /\ ((a \o b) \o p) \o c = (a \o b) \o (p \o c)
      <4>1. a \o b \in Seq(Byte)
        BY <2>2, ConcatProperties
      <4> DEFINE ab == a \o b
      <4> HIDE DEF ab
      <4>2. ab \in Seq(Byte)
        BY <4>1 DEF ab
      <4>3. (a \o p) \o c = a \o (p \o c) /\ p \o c \in Seq(Byte) /\ (ab \o p) \o c = ab \o (p \o c)
        <5>1. p \o c \in Seq(Byte)
          BY <3>1, ConcatProperties
        <5>2. (a \o p) \o c = a \o (p \o c)
          BY ONLY <2>2, <3>1, ConcatAssociative, SMTT(60)
        <5>3. (ab \o p) \o c = ab \o (p \o c)
          BY ONLY <3>1, <4>2, ConcatAssociative, SMTT(60)
        <5> QED BY <5>1, <5>2, <5>3
      <4> QED BY <4>1, <4>3 DEF ab
    <3>7. Complete(r, (a \o b) \o (p \o c), y)
      <4> DEFINE d == p \o c
      <4>1. d \in Seq(Byte) /\ Complete(r, a \o d, y)
        BY <3>2, <3>6
      <4> HIDE DEF d
      <4>2. Complete(r, (a \o b) \o d, y)
        BY <2>2, <3>4, <3>5, <4>1, CompleteInsert
      <4> QED BY <4>2 DEF d
    <3>8. Complete(r, (sent2[j] \o p) \o c, y)
      BY <3>2, <3>3, <3>6, <3>7
    <3>9. Stream(r, sent2[j], y)
      BY <3>8 DEF Stream, p, c
    <3> QED BY <3>2, <3>9 DEF r
  <2>4. CASE r = s
    <3>1. /\ tt[s].out = x.out /\ tt[s].lost = x.lost /\ tt[s].chan = << >> /\ tt[s].pending = << >>
          /\ x.active /\ sent2[j] = a \o b
      BY <2>1, <2>4 DEF new
    <3>2. a \o b \in Seq(Byte) /\ ((a \o b) \o << >>) \o << >> = a \o b
      <4> DEFINE ab == a \o b
      <4>1. ab \in Seq(Byte)
        BY <2>2, ConcatProperties
      <4> HIDE DEF ab
      <4>2. ab \o << >> = ab
        BY <4>1, ConcatEmptySeq
      <4>3. (ab \o << >>) \o << >> = ab
        BY <4>2
      <4> QED BY <4>1, <4>3 DEF ab
    <3>3. Complete(s, a \o b, x)
      <4>1. CASE j = i
        <5>1. b = x.pending \o FlattenSeq(x.chan)
          BY <1>1, <4>1 DEF new
        <5>2. Complete(s, (a \o x.pending) \o FlattenSeq(x.chan), x)
          BY <2>1, <2>4 DEF Stream
        <5> DEFINE p == x.pending
                   c == FlattenSeq(x.chan)
        <5> HIDE DEF a, b, p, c
        <5>3. p \in Seq(Byte) /\ c \in Seq(Byte)
          BY <1>3 DEF p, c
        <5>4. (a \o p) \o c = a \o (p \o c)
          BY ONLY <2>2, <5>3, ConcatAssociative, SMTT(60)
        <5>5. b = p \o c /\ Complete(s, (a \o p) \o c, x)
          BY <5>1, <5>2 DEF p, c
        <5> QED BY <5>4, <5>5
      <4>2. CASE j # i
        <5>1. Chunks(s, b) = {}
          BY <1>1, <2>1, <4>2 DEF new
        <5>2. Chunks(s, a) = {}
          <6>1. <<i, s>>[1] = i /\ <<i, s>>[2] = s /\ table[j] = s /\ j \in DOMAIN table
            BY <2>4
          <6> QED BY <4>2, <6>1 DEF Flow
        <5> HIDE DEF a, b, x
        <5>3. Chunks(s, a \o b) = {}
          BY ONLY s \in Sid, <2>2, <5>1, <5>2, NoneConcat
        <5> QED BY <3>2, <5>3, CompleteNone
      <4> QED BY <4>1, <4>2
    <3>4. Complete(s, a \o b, tt[s])
      BY <3>1, <3>3 DEF Complete
    <3>5. FlattenSeq(<< >>) = << >>
      BY NothingOnly
    <3>6. Stream(s, sent2[j], tt[s])
      <4> HIDE DEF a, b
      <4> QED BY <3>1, <3>2, <3>4, <3>5 DEF Stream
    <3> QED BY <2>4, <3>6
  <2> QED BY <2>3, <2>4
<1>7. ASSUME NEW j \in Ids, NEW r \in Sid, Unsent(r, tt, table) PROVE Chunks(r, sent2[j]) = {}
  <2>1. CASE r = s
    <3>1. PICK k \in DOMAIN table : table[k] = s /\ ~tt[s].active
      BY <1>7, <2>1 DEF Unsent
    <3>2. ~ss[s].active /\ sent2[j] = sent[j]
      BY <3>1
    <3>3. Unsent(s, ss, table)
      BY <3>1, <3>2 DEF Unsent
    <3> QED BY <2>1, <3>2, <3>3 DEF Flow
  <2>2. CASE r # s
    <3>1. Unsent(r, ss, table)
      <4>1. CASE r \notin DOMAIN tt
        BY <4>1 DEF Unsent
      <4>2. ASSUME NEW k \in DOMAIN table, table[k] = r, ~tt[r].active PROVE Unsent(r, ss, table)
        <5>1. tt[r] = ss[r]
          BY <2>2, <4>2
        <5> QED BY <4>2, <5>1 DEF Unsent
      <4> QED BY <1>7, <4>1, <4>2 DEF Unsent
    <3>2. Chunks(r, sent[j]) = {}
      BY <3>1 DEF Flow
    <3> QED BY <1>5, <2>2, <3>2
  <2> QED BY <2>1, <2>2
<1>8. ASSUME NEW f \in todo \ {<<i, s>>}, NEW j \in DOMAIN table, table[j] = f[2], j # f[1]
      PROVE  Chunks(f[2], sent2[j]) = {}
  <2>1. f[2] \in Sid \ {s} /\ j \in Ids
    BY <1>8
  <2>2. Chunks(f[2], sent[j]) = {}
    BY <1>8 DEF Flow
  <2> QED BY <1>5, <2>1, <2>2
<1> QED BY <1>6, <1>7, <1>8 DEF Flow

-----------------------------------------------------------------------------
(* Steps that take terminals out of the table, if any, and stop sessions.  *)

\* What becomes of a session that such a step does not read.
Left(x, y) == Same(x, y) \/ (y.buf = x.buf /\ y.pending = << >> /\ y.chan = << >> /\ y.stopped)

Narrowed ==
  /\ DOMAIN sess' = DOMAIN sess /\ \A s \in DOMAIN sess : Left(sess[s], sess'[s])
  /\ DOMAIN svc'.sessions \subseteq DOMAIN svc.sessions
  /\ \A i \in DOMAIN svc'.sessions :
       svc'.sessions[i] = svc.sessions[i] /\ Same(sess[svc.sessions[i]], sess'[svc.sessions[i]])

LEMMA LeftFacts ==
  ASSUME NEW x \in Session
  PROVE  Same(x, x) /\ Left(x, x) /\ \A y \in Session : Same(x, y) => Left(x, y) /\ Left(x, stop(y))
<1>1. ASSUME NEW y \in Session, Same(x, y) PROVE Left(x, stop(y))
  <2>1. stop(y).buf = y.buf /\ stop(y).pending = << >> /\ stop(y).chan = << >> /\ stop(y).stopped
    BY DEF stop, Session
  <2> QED BY <1>1, <2>1 DEF Same, Left
<1> QED BY <1>1 DEF Same, Left

LEMMA NarrowedSame ==
  ASSUME TypeOK, sess' = sess, DOMAIN svc'.sessions \subseteq DOMAIN svc.sessions,
         \A i \in DOMAIN svc'.sessions : svc'.sessions[i] = svc.sessions[i]
  PROVE  Narrowed
<1>1. \A s \in DOMAIN sess : Same(sess[s], sess[s]) /\ Left(sess[s], sess[s])
  BY SessionAt, LeftFacts
<1>2. \A i \in DOMAIN svc.sessions : svc.sessions[i] \in DOMAIN sess
  BY DEF TypeOK
<1> QED BY <1>1, <1>2 DEF Narrowed

LEMMA NarrowedOne ==
  ASSUME TypeOK, NEW s \in DOMAIN sess, NEW x \in Session, Same(sess[s], x),
         sess' = [sess EXCEPT ![s] = x], svc' = svc
  PROVE  Narrowed
<1>1. \A r \in DOMAIN sess : Same(sess[r], sess[r]) /\ Left(sess[r], sess[r])
  BY SessionAt, LeftFacts
<1>2. Left(sess[s], x)
  BY DEF Left
<1>3. DOMAIN sess' = DOMAIN sess /\ \A r \in DOMAIN sess : Same(sess[r], sess'[r]) /\ Left(sess[r], sess'[r])
  BY <1>1, <1>2
<1>4. \A i \in DOMAIN svc.sessions : svc.sessions[i] \in DOMAIN sess
  BY DEF TypeOK
<1> QED BY <1>3, <1>4 DEF Narrowed

LEMMA NarrowedDrop ==
  ASSUME TypeOK, NEW ss \in Seq(Session), DOMAIN ss = DOMAIN sess,
         \A s \in DOMAIN sess : Same(sess[s], ss[s]), NEW table, NEW threads,
         sess' = Dropped(ss, table, threads), svc'.sessions = table,
         DOMAIN table \subseteq DOMAIN svc.sessions, \A i \in DOMAIN table : table[i] = svc.sessions[i]
  PROVE  Narrowed
<1>1. /\ DOMAIN sess' = DOMAIN sess
      /\ \A s \in DOMAIN sess :
           sess'[s] = IF ss[s].stopped \/ Held(s, table, threads) THEN ss[s] ELSE stop(ss[s])
  BY DroppedFacts
<1>2. \A s \in DOMAIN sess : Left(sess[s], ss[s]) /\ Left(sess[s], stop(ss[s]))
  BY SessionAt, LeftFacts, LenProperties, ElementOfSeq
<1>3. \A s \in DOMAIN sess : Left(sess[s], sess'[s])
  BY <1>1, <1>2
<1>4. ASSUME NEW i \in DOMAIN table
      PROVE  table[i] = svc.sessions[i] /\ Same(sess[svc.sessions[i]], sess'[svc.sessions[i]])
  <2>1. table[i] = svc.sessions[i] /\ svc.sessions[i] \in DOMAIN sess
    BY DEF TypeOK
  <2>2. Held(table[i], table, threads)
    BY DEF Held
  <2> QED BY <1>1, <2>1, <2>2
<1> QED BY <1>1, <1>3, <1>4 DEF Narrowed

LEMMA ResizeNarrows ==
  ASSUME TypeOK, NEW c \in Conn, NEW i \in Ids, NEW r \in Rows, handle_resize(c, i, r)
  PROVE  Narrowed
<1> DEFINE s == svc.sessions[i]
           x == [sess[s] EXCEPT !.rows = r, !.pty = r]
<1>1. s \in DOMAIN sess
  BY DEF handle_resize, TypeOK
<1>2. sess[s] \in Session /\ r \in Nat
  BY <1>1, SessionAt, Constants
<1>3. x \in Session /\ Same(sess[s], x)
  BY <1>2 DEF Session, Same
<1>4. sess' = [sess EXCEPT ![s] = x] /\ svc' = svc
  BY <1>1, <1>2 DEF handle_resize, Session
<1> HIDE DEF x, s
<1> QED BY <1>1, <1>3, <1>4, NarrowedOne

LEMMA ExitNarrows ==
  ASSUME TypeOK, NEW s \in DOMAIN sess, ShellExit(s)
  PROVE  Narrowed
<1> DEFINE x == [sess[s] EXCEPT !.alive = FALSE]
<1>1. x \in Session /\ Same(sess[s], x)
  BY SessionAt DEF Session, Same
<1>2. sess' = [sess EXCEPT ![s] = x] /\ svc' = svc
  BY DEF ShellExit
<1> HIDE DEF x
<1> QED BY <1>1, <1>2, NarrowedOne

LEMMA CloseNarrows ==
  ASSUME TypeOK, NEW c \in Conn, NEW i \in Ids, handle_close(c, i)
  PROVE  Narrowed
<1> DEFINE table == Without(svc.sessions, {i})
<1>1. svc \in Service /\ svc.sessions \in Table
  BY ServiceTable DEF TypeOK
<1>2. /\ table \in Table /\ DOMAIN table = DOMAIN svc.sessions \ {i}
      /\ \A j \in DOMAIN table : table[j] = svc.sessions[j]
  BY <1>1, SomeTerminals
<1>3. svc' = [svc EXCEPT !.sessions = table]
  BY DEF handle_close
<1>4. svc'.sessions = table
  BY <1>1, <1>3 DEF Service
<1>5. CASE i \in DOMAIN svc.sessions
  <2> DEFINE s == svc.sessions[i]
             x == [sess[s] EXCEPT !.alive = FALSE, !.asked = TRUE]
             ss == [sess EXCEPT ![s] = x]
  <2>1. s \in DOMAIN sess /\ sess \in Seq(Session) /\ DOMAIN sess = 1..Len(sess)
    BY <1>5, LenProperties DEF TypeOK
  <2>2. sess[s] \in Session
    BY <2>1, SessionAt
  <2>3. x \in Session /\ Same(sess[s], x)
    BY <2>2 DEF Session, Same
  <2>4. [sess EXCEPT ![s].alive = FALSE, ![s].asked = TRUE] = ss
    BY <2>1, <2>2 DEF Session
  <2>5. sess' = Dropped(ss, table, run)
    BY <1>5, <2>4 DEF handle_close
  <2> HIDE DEF x, s
  <2>6. ss \in Seq(Session) /\ DOMAIN ss = DOMAIN sess
    BY <2>1, <2>3, ExceptSeq
  <2>7. \A r \in DOMAIN sess : Same(sess[r], ss[r])
    <3>1. \A r \in DOMAIN sess : Same(sess[r], sess[r])
      BY SessionAt, LeftFacts
    <3> QED BY <2>1, <2>3, <3>1
  <2> HIDE DEF ss, table
  <2> QED BY <1>2, <1>4, <2>5, <2>6, <2>7, NarrowedDrop
<1>6. CASE i \notin DOMAIN svc.sessions
  <2>1. sess' = sess
    BY <1>6 DEF handle_close
  <2> QED BY <1>2, <1>4, <2>1, NarrowedSame
<1> QED BY <1>5, <1>6

LEMMA FinishNarrows ==
  ASSUME TypeOK, NEW c \in Conn, Finish(c)
  PROVE  Narrowed /\ svc'.sync = svc.sync
<1> DEFINE table == IF run[c].persistent \/ svc.gen # run[c].gen THEN svc.sessions
                    ELSE Without(svc.sessions, run[c].closed)
<1>1. svc \in Service /\ svc.sessions \in Table
  BY ServiceTable DEF TypeOK
<1>2. /\ DOMAIN table \subseteq DOMAIN svc.sessions
      /\ \A j \in DOMAIN table : table[j] = svc.sessions[j]
  <2>1. /\ DOMAIN Without(svc.sessions, run[c].closed) = DOMAIN svc.sessions \ run[c].closed
        /\ \A j \in DOMAIN Without(svc.sessions, run[c].closed) :
             Without(svc.sessions, run[c].closed)[j] = svc.sessions[j]
    BY <1>1, SomeTerminals
  <2> QED BY <2>1
<1>3. svc' = [svc EXCEPT !.sessions = table] /\ sess' = Dropped(sess, table, run)
  BY DEF Finish
<1> HIDE DEF table
<1>4. svc'.sessions = table /\ svc'.sync = svc.sync
  BY <1>1, <1>3 DEF Service
<1>5. sess \in Seq(Session) /\ \A s \in DOMAIN sess : Same(sess[s], sess[s])
  BY SessionAt, LeftFacts DEF TypeOK
<1> QED BY <1>2, <1>3, <1>4, <1>5, NarrowedDrop

LEMMA RemoveNarrows ==
  ASSUME TypeOK, remove_service
  PROVE  Narrowed /\ ~svc'.sync
<1>1. /\ svc' = NoService /\ DOMAIN sess' = DOMAIN sess
      /\ \A s \in DOMAIN sess : sess'[s] \in {sess[s], stop(sess[s])}
  BY RemoveFacts
<1>2. \A s \in DOMAIN sess : Left(sess[s], sess[s]) /\ Left(sess[s], stop(sess[s]))
  BY SessionAt, LeftFacts
<1>3. DOMAIN svc'.sessions = {} /\ ~svc'.sync
  BY <1>1, IdleTypes DEF NoService
<1> QED BY <1>1, <1>2, <1>3 DEF Narrowed

-----------------------------------------------------------------------------
(* The sessions' histories.                                                *)

LEMMA NarrowedSess ==
  ASSUME TypeOK, SessInv, Narrowed
  PROVE  SessInv'
<1> SUFFICES ASSUME NEW s \in DOMAIN sess PROVE SessionInv(s, sess'[s])
  BY DEF SessInv, Narrowed
<1> DEFINE x == sess[s]
           y == sess'[s]
<1>1. s \in Sid /\ SessionInv(s, x) /\ Left(x, y)
  BY DEF SessInv, Narrowed, TypeOK
<1> HIDE DEF x, y
<1>2. CASE Same(x, y)
  <2>1. /\ y.buf = x.buf /\ y.chan = x.chan /\ y.pending = x.pending
        /\ y.out = x.out /\ y.lost = x.lost /\ y.stopped = x.stopped
    BY <1>2 DEF Same
  <2>2. SessionInv(s, y)
    BY <1>1, <2>1, SessionInvKept
  <2> QED BY <2>2 DEF y
<1>3. CASE y.buf = x.buf /\ y.pending = << >> /\ y.chan = << >> /\ y.stopped
  <2>1. SessionInv(s, y)
    BY <1>1, <1>3, NothingOnly DEF SessionInv
  <2> QED BY <2>1 DEF y
<1> QED BY <1>1, <1>2, <1>3 DEF Left

LEMMA SessConnect ==
  ASSUME TypeOK, SessInv, NEW c \in Conn, NEW p \in BOOLEAN, init_terminal_service(c, p)
  PROVE  SessInv' /\ DOMAIN sess' = DOMAIN sess
         /\ \A i \in DOMAIN svc.sessions : ~sess'[svc.sessions[i]].active
<1> DEFINE reset(x) == [x EXCEPT !.active = FALSE, !.pending = << >>, !.phase = "idle", !.retries = 0]
<1>1. \A x \in Session : /\ reset(x).buf = x.buf /\ reset(x).chan = x.chan /\ reset(x).pending = << >>
                         /\ reset(x).out = x.out /\ reset(x).lost = x.lost
                         /\ reset(x).stopped = x.stopped /\ ~reset(x).active
  BY DEF Session
<1>2. sess' = [s \in DOMAIN sess |-> IF \E i \in DOMAIN svc.sessions : svc.sessions[i] = s
                                     THEN reset(sess[s]) ELSE sess[s]]
  BY DEF init_terminal_service
<1> HIDE DEF reset
<1>3. DOMAIN sess' = DOMAIN sess /\ \A s \in DOMAIN sess : sess'[s] \in {sess[s], reset(sess[s])}
  BY <1>2
<1>4. \A i \in DOMAIN svc.sessions : sess'[svc.sessions[i]] = reset(sess[svc.sessions[i]])
  BY <1>2 DEF TypeOK
<1>5. ASSUME NEW s \in DOMAIN sess PROVE SessionInv(s, sess'[s])
  <2>1. s \in Sid /\ SessionInv(s, sess[s]) /\ sess[s] \in Session
    BY SessionAt DEF SessInv, TypeOK
  <2>2. SessionInv(s, reset(sess[s]))
    <3> DEFINE x == sess[s]
               y == reset(x)
    <3>1. /\ y.buf = x.buf /\ y.chan = x.chan /\ y.pending = << >>
          /\ y.out = x.out /\ y.lost = x.lost /\ y.stopped = x.stopped
      BY <1>1, <2>1
    <3> HIDE DEF x, y
    <3>2. SessionInv(s, x)
      BY <2>1 DEF x
    <3>3. SessionInv(s, y)
      BY <2>1, <3>1, <3>2, SessionInvKept
    <3> QED BY <3>3 DEF x, y
  <2> QED BY <1>3, <2>1, <2>2
<1>6. \A i \in DOMAIN svc.sessions : ~sess'[svc.sessions[i]].active
  <2>1. \A i \in DOMAIN svc.sessions : sess[svc.sessions[i]] \in Session
    BY SessionAt DEF TypeOK
  <2> QED BY <1>1, <1>4, <2>1
<1> QED BY <1>3, <1>5, <1>6 DEF SessInv

\* What handle_open makes of the table, the sessions and the client: terminal i streams
\* session s.
OpenOf(c, i, s) ==
  /\ conn[c] = "live" /\ client.cur = c /\ i \notin client.used
  /\ s \in DOMAIN sess' /\ DOMAIN sess \subseteq DOMAIN sess' /\ DOMAIN sess' \subseteq DOMAIN sess \cup {s}
  /\ \A r \in DOMAIN sess \ {s} : sess'[r] = sess[r]
  /\ sess'[s] \in Session /\ sess'[s].active /\ SessionInv(s, sess'[s])
  /\ Complete(s, sess'[s].pending \o FlattenSeq(sess'[s].chan), sess'[s])
  /\ i \in DOMAIN svc'.sessions /\ svc'.sessions[i] = s /\ ~svc'.sync
  /\ \A j \in DOMAIN svc'.sessions \ {i} :
       /\ j \in Ids /\ svc'.sessions[j] \in DOMAIN sess \ {s}
       /\ \E k \in DOMAIN svc.sessions : svc'.sessions[j] = svc.sessions[k]
       /\ ~svc.sync => j \in DOMAIN svc.sessions /\ svc'.sessions[j] = svc.sessions[j]
  /\ s \in DOMAIN sess => \E k \in DOMAIN svc.sessions : svc.sessions[k] = s /\ (svc.sync \/ k = i)
  /\ client'.cur = c /\ client'.opened = client.opened \cup {i}
  /\ client'.used = client.used \cup {i} /\ client'.got = client.got
  /\ UNCHANGED <<conn, run, overlapped>>

LEMMA OpenSteps ==
  ASSUME TypeOK, Reachable, SessInv, NEW c \in Conn, NEW i \in Ids, NEW r \in OpenRows,
         handle_open(c, i, r)
  PROVE  \E s \in Sid : OpenOf(c, i, s)
<1> DEFINE table == Remapped(i)
           s == IF i \in DOMAIN table THEN table[i] ELSE Len(sess) + 1
<1>1. /\ svc \in Service /\ sess \in Seq(Session) /\ DOMAIN sess = 1..Len(sess) /\ Len(sess) \in Nat
      /\ client \in Client /\ DOMAIN sess \subseteq Sid
  BY LenProperties DEF TypeOK
<1>2. /\ table \in Table
      /\ \A j \in DOMAIN table : \E k \in DOMAIN svc.sessions : table[j] = svc.sessions[k]
      /\ Injective(svc.sessions) => Injective(table)
      /\ ~svc.sync => table = svc.sessions
  BY <1>1, RemappedFacts
<1>3. /\ s \in Sid /\ conn[c] = "live" /\ client.cur = c /\ i \notin client.used
      /\ sess' = IF i \in DOMAIN table THEN [sess EXCEPT ![s] = Reattached(@)]
                                       ELSE Append(sess, NewSession(r))
      /\ svc' = [svc EXCEPT !.sessions = With(table, i, s), !.sync = FALSE]
      /\ client' = [client EXCEPT !.opened = @ \cup {i}, !.used = @ \cup {i},
                      !.known = @ \cup {i} \cup persistent_sessions(table, i)]
      /\ UNCHANGED <<conn, run, overlapped>>
  BY DEF handle_open, Asks
<1> HIDE DEF table
<1>4. Injective(table) /\ DOMAIN table \subseteq Ids
  <2>1. Injective(svc.sessions)
    BY DEF Reachable, Injective
  <2> QED BY <1>2, <2>1, TableDef
<1>5. \A j \in DOMAIN table : table[j] \in DOMAIN sess /\ ~sess[table[j]].stopped
  BY <1>2 DEF TypeOK
<1>6. \A j \in DOMAIN table \ {i} : table[j] # s
  <2>1. CASE i \in DOMAIN table
    BY <1>4, <2>1 DEF Injective
  <2>2. CASE i \notin DOMAIN table
    BY <1>1, <1>5, <2>2
  <2> QED BY <2>1, <2>2
<1>7. /\ s \in DOMAIN sess' /\ DOMAIN sess \subseteq DOMAIN sess'
      /\ DOMAIN sess' \subseteq DOMAIN sess \cup {s}
      /\ \A t \in DOMAIN sess \ {s} : sess'[t] = sess[t]
      /\ sess'[s] \in Session /\ sess'[s].active /\ SessionInv(s, sess'[s])
      /\ Complete(s, sess'[s].pending \o FlattenSeq(sess'[s].chan), sess'[s])
  <2>1. CASE i \in DOMAIN table
    <3>1. s \in DOMAIN sess /\ ~sess[s].stopped /\ sess' = [sess EXCEPT ![s] = Reattached(sess[s])]
      BY <1>3, <1>5, <2>1
    <3> HIDE DEF s
    <3>2. Reattached(sess[s]) \in Session
      BY <3>1, SessionAt, ReattachedFacts
    <3>3. /\ SessionInv(s, Reattached(sess[s])) /\ Reattached(sess[s]).active
          /\ Complete(s, Reattached(sess[s]).pending \o FlattenSeq(Reattached(sess[s]).chan),
                      Reattached(sess[s]))
      <4>1. s \in Sid /\ sess[s] \in Session /\ SessionInv(s, sess[s]) /\ ~sess[s].stopped
        BY <1>1, <3>1, SessionAt DEF SessInv
      <4> QED BY <4>1, ReattachedInv
    <3> DEFINE x == Reattached(sess[s])
    <3> HIDE DEF x
    <3>4. DOMAIN sess' = DOMAIN sess /\ sess'[s] = x /\ \A t \in DOMAIN sess \ {s} : sess'[t] = sess[t]
      BY <3>1 DEF x
    <3>5. x \in Session /\ x.active /\ SessionInv(s, x) /\ Complete(s, x.pending \o FlattenSeq(x.chan), x)
      BY <3>2, <3>3 DEF x
    <3> QED BY <3>1, <3>4, <3>5
  <2>2. CASE i \notin DOMAIN table
    <3> DEFINE x == NewSession(r)
    <3>1. s = Len(sess) + 1 /\ sess' = Append(sess, x) /\ s \in Sid
      BY <1>3, <2>2
    <3>2. x \in Session /\ x.active /\ x.pending = << >> /\ x.chan = << >>
      BY NewSessionFacts DEF NewSession
    <3> HIDE DEF s
    <3>3. SessionInv(s, x)
      BY <3>1, NewSessionInv
    <3> HIDE DEF x
    <3>4. /\ sess' \in Seq(Session) /\ Len(sess') = Len(sess) + 1
          /\ sess'[Len(sess) + 1] = x /\ \A t \in 1..Len(sess) : sess'[t] = sess[t]
      BY <1>1, <3>1, <3>2, AppendProperties
    <3>5. DOMAIN sess' = DOMAIN sess \cup {s}
      BY <1>1, <3>1, <3>4, LenProperties
    <3>6. Complete(s, x.pending \o FlattenSeq(x.chan), x)
      <4>1. x.pending \o FlattenSeq(x.chan) = << >>
        BY <3>1, <3>2, NothingOnly
      <4>2. << >> \in Seq(Byte) /\ Chunks(s, << >>) = {}
        BY <3>1, NothingOnly, NoChunks
      <4> QED BY <3>1, <4>1, <4>2, CompleteNone
    <3>7. sess'[s] = x /\ \A t \in DOMAIN sess \ {s} : sess'[t] = sess[t]
      BY <1>1, <3>1, <3>4
    <3> QED BY <3>2, <3>3, <3>5, <3>6, <3>7
  <2> QED BY <2>1, <2>2
<1>8. s \in DOMAIN sess => \E k \in DOMAIN svc.sessions : svc.sessions[k] = s /\ (svc.sync \/ k = i)
  <2>1. CASE i \in DOMAIN table
    <3>1. s = table[i]
      BY <2>1
    <3> HIDE DEF s
    <3>2. PICK k \in DOMAIN svc.sessions : table[i] = svc.sessions[k]
      BY <1>2, <2>1
    <3> QED BY <1>2, <2>1, <3>1, <3>2
  <2>2. CASE i \notin DOMAIN table
    BY <1>1, <2>2
  <2> QED BY <2>1, <2>2
<1>9. /\ DOMAIN svc'.sessions = DOMAIN table \cup {i} /\ svc'.sessions[i] = s /\ ~svc'.sync
      /\ \A j \in DOMAIN table \ {i} : svc'.sessions[j] = table[j]
  <2>1. s \in Sid
    BY <1>3
  <2> HIDE DEF s
  <2>2. /\ DOMAIN With(table, i, s) = DOMAIN table \cup {i} /\ With(table, i, s)[i] = s
        /\ \A j \in DOMAIN table \ {i} : With(table, i, s)[j] = table[j]
    BY <1>2, <2>1, WithFacts
  <2>3. svc'.sessions = With(table, i, s) /\ ~svc'.sync
    BY <1>1, <1>3 DEF Service
  <2> QED BY <2>2, <2>3
<1>10. /\ client'.cur = c /\ client'.opened = client.opened \cup {i}
       /\ client'.used = client.used \cup {i} /\ client'.got = client.got
  BY <1>1, <1>3 DEF Client
<1>11. ASSUME NEW j \in DOMAIN svc'.sessions \ {i}
       PROVE  /\ j \in Ids /\ svc'.sessions[j] \in DOMAIN sess \ {s}
              /\ \E k \in DOMAIN svc.sessions : svc'.sessions[j] = svc.sessions[k]
              /\ ~svc.sync => j \in DOMAIN svc.sessions /\ svc'.sessions[j] = svc.sessions[j]
  <2>1. j \in DOMAIN table \ {i} /\ svc'.sessions[j] = table[j]
    BY <1>9
  <2> HIDE DEF s
  <2> QED BY <1>2, <1>4, <1>5, <1>6, <2>1
<1> HIDE DEF s
<1>12. OpenOf(c, i, s)
  BY <1>3, <1>7, <1>8, <1>9, <1>10, <1>11 DEF OpenOf
<1> QED BY <1>3, <1>12

LEMMA SessOpen ==
  ASSUME TypeOK, Reachable, SessInv, NEW c \in Conn, NEW i \in Ids, NEW r \in OpenRows,
         handle_open(c, i, r)
  PROVE  SessInv'
<1>1. PICK s \in Sid : OpenOf(c, i, s)
  BY OpenSteps
<1>2. \A t \in DOMAIN sess' : (t = s /\ SessionInv(s, sess'[s])) \/ (t \in DOMAIN sess /\ sess'[t] = sess[t])
  BY <1>1 DEF OpenOf
<1> QED BY <1>2 DEF SessInv

\* The shell of session s wrote a chunk.
OutputOf(s) ==
  /\ Written(s, sess[s], sess'[s]) /\ DOMAIN sess' = DOMAIN sess
  /\ \A r \in DOMAIN sess \ {s} : sess'[r] = sess[r]
  /\ s \in Sid /\ sess[s] \in Session
  /\ sess'[s].active = sess[s].active
  /\ UNCHANGED <<svc, conn, run, client, overlapped>>

LEMMA OutputSteps ==
  ASSUME TypeOK, SessInv, NEW s \in DOMAIN sess, Output(s)
  PROVE  OutputOf(s) /\ SessionInv(s, sess'[s])
<1> DEFINE x == sess[s]
           n == x.out + 1
           chunk == IF n \in LineEnds THEN <<<<s, n>>, NL>> ELSE <<<<s, n>>>>
           y == IF Len(x.chan) < ChannelSize
                THEN [x EXCEPT !.out = n, !.chan = Append(@, chunk)]
                ELSE [x EXCEPT !.out = n, !.lost = @ \cup {n}]
<1>1. sess' = [sess EXCEPT ![s] = y] /\ UNCHANGED <<svc, conn, run, client, overlapped>>
  BY DEF Output
<1>2. Written(s, x, y)
  BY DEF Written
<1> HIDE DEF y
<1>3. sess'[s] = y /\ DOMAIN sess' = DOMAIN sess /\ \A r \in DOMAIN sess \ {s} : sess'[r] = sess[r]
  BY <1>1
<1>4. s \in Sid /\ sess[s] \in Session /\ SessionInv(s, x)
  BY SessionAt DEF TypeOK, SessInv
<1> HIDE DEF x
<1>5. SessionInv(s, y) /\ y.active = x.active
  BY <1>2, <1>4, WrittenInv DEF x
<1> QED BY <1>1, <1>2, <1>3, <1>4, <1>5 DEF OutputOf, x

LEMMA SessOutput ==
  ASSUME TypeOK, SessInv, NEW s \in DOMAIN sess, Output(s)
  PROVE  SessInv'
<1>1. OutputOf(s) /\ SessionInv(s, sess'[s])
  BY OutputSteps
<1> QED BY <1>1 DEF OutputOf, SessInv

\* A thread polled session s as terminal i.
PollOf(c, i, s) ==
  LET x == sess[s]
  IN  /\ <<i, s>> \in run[c].todo /\ i \in Ids /\ s \in Sid /\ s \in DOMAIN sess /\ x \in Session
      /\ run[c].pc = "read" /\ run'[c].pc \in {"read", "finish"}
      /\ \A d \in Conn \ {c} : run'[d] = run[d]
      /\ run'[c].todo = run[c].todo \ {<<i, s>>}
      /\ run'[c].out = IF x.active THEN run[c].out \o DataResponses(i, x) ELSE run[c].out
      /\ DOMAIN sess' = DOMAIN sess
      /\ \A j \in DOMAIN svc.sessions :
           /\ svc.sessions[j] # s => sess'[svc.sessions[j]] = sess[svc.sessions[j]]
           /\ svc.sessions[j] = s => /\ sess'[s].active = x.active /\ sess'[s].out = x.out
                                     /\ sess'[s].lost = x.lost /\ sess'[s].chan = << >>
                                     /\ x.active => sess'[s].pending = << >>
      /\ UNCHANGED <<svc, conn, client, overlapped>>

LEMMA PollSteps ==
  ASSUME TypeOK, SessInv, NEW c \in Conn, NEW ok \in BOOLEAN, ReadSession(c, ok)
  PROVE  SessInv' /\ \E i \in Ids, s \in Sid : PollOf(c, i, s)
<1>1. PICK e \in run[c].todo : ReadOf(c, ok, e)
  BY ReadSteps
<1>2. run[c].pc = "read" /\ UNCHANGED <<svc, conn, client, overlapped>>
  BY ReadSteps
<1> DEFINE i == e[1]
           s == e[2]
           x == sess[s]
           y == Drained(x)
           z == IF x.active THEN Streamed(y, ok) ELSE y
           ss == [sess EXCEPT ![s] = z]
           t == Polled(run[c], i, s, x)
<1>3. /\ run \in [Conn -> Thread] /\ run[c] \in Thread /\ i \in Ids /\ s \in DOMAIN sess /\ s \in Sid
      /\ <<i, s>> \in run[c].todo
  <2>1. run \in [Conn -> Thread] /\ run[c] \in Thread /\ s \in DOMAIN sess
    BY DEF TypeOK
  <2>2. e \in Ids \X Sid
    BY <2>1 DEF Thread
  <2> QED BY <2>1, <2>2
<1>4. run' = [run EXCEPT ![c] = t] /\ sess' = Dropped(ss, svc.sessions, run')
  BY <1>1 DEF ReadOf
<1> HIDE DEF i, s
<1>5. x \in Session /\ SessionInv(s, x)
  BY <1>3, SessionAt DEF SessInv
<1>6. /\ t.todo = run[c].todo \ {<<i, s>>} /\ t.pc \in {"read", "finish"}
      /\ t.out = IF x.active THEN run[c].out \o DataResponses(i, x) ELSE run[c].out
  BY <1>3 DEF Polled, Thread
<1> HIDE DEF x, t
<1>7. /\ z \in Session /\ SessionInv(s, z) /\ z.chan = << >> /\ z.active = x.active
      /\ z.out = x.out /\ z.lost = x.lost /\ (x.active => z.pending = << >>)
  <2>1. y \in Session
    BY <1>5, DrainedFacts
  <2>2. /\ SessionInv(s, y) /\ y.chan = << >> /\ y.pending = x.pending /\ y.active = x.active
        /\ y.out = x.out /\ y.lost = x.lost
    BY <1>3, <1>5, DrainedInv
  <2> HIDE DEF y
  <2>3. Streamed(y, ok) \in Session
    BY <2>1, StreamedFacts
  <2>4. /\ SessionInv(s, Streamed(y, ok)) /\ Streamed(y, ok).chan = y.chan
        /\ Streamed(y, ok).pending = << >> /\ Streamed(y, ok).active = y.active
        /\ Streamed(y, ok).out = y.out /\ Streamed(y, ok).lost = y.lost
    BY <1>3, <2>1, <2>2, StreamedInv
  <2> DEFINE w == Streamed(y, ok)
  <2> HIDE DEF w
  <2>5. CASE x.active
    <3>1. z = w
      BY <2>5 DEF w
    <3> HIDE DEF z
    <3> QED BY <2>2, <2>3, <2>4, <3>1 DEF w
  <2>6. CASE ~x.active
    <3>1. z = y
      BY <2>6
    <3> HIDE DEF z
    <3> QED BY <2>1, <2>2, <2>6, <3>1
  <2> QED BY <2>5, <2>6
<1> HIDE DEF z
<1>8. /\ ss \in Seq(Session) /\ DOMAIN ss = DOMAIN sess /\ ss[s] = z
      /\ \A k \in DOMAIN sess \ {s} : ss[k] = sess[k]
  <2>1. sess \in Seq(Session) /\ DOMAIN sess = 1..Len(sess)
    BY LenProperties DEF TypeOK
  <2>2. ss \in Seq(Session) /\ DOMAIN ss = DOMAIN sess
    BY <1>3, <1>7, <2>1, ExceptSeq
  <2> QED BY <1>3, <2>2
<1> HIDE DEF ss
<1>9. /\ DOMAIN sess' = DOMAIN sess
      /\ \A k \in DOMAIN sess :
           sess'[k] = IF ss[k].stopped \/ Held(k, svc.sessions, run') THEN ss[k] ELSE stop(ss[k])
  BY <1>4, <1>8, DroppedFacts
<1>10. ASSUME NEW k \in DOMAIN sess PROVE SessionInv(k, sess'[k])
  <2>1. k \in Sid /\ ss[k] \in Session
    BY <1>8, LenProperties, ElementOfSeq DEF TypeOK
  <2>2. SessionInv(k, ss[k])
    BY <1>7, <1>8 DEF SessInv
  <2>3. SessionInv(k, stop(ss[k]))
    BY <2>1, <2>2, StopInv
  <2> QED BY <1>9, <2>2, <2>3
<1>11. ASSUME NEW j \in DOMAIN svc.sessions
       PROVE  svc.sessions[j] \in DOMAIN sess /\ sess'[svc.sessions[j]] = ss[svc.sessions[j]]
  <2>1. svc.sessions[j] \in DOMAIN sess
    BY DEF TypeOK
  <2>2. Held(svc.sessions[j], svc.sessions, run')
    BY DEF Held
  <2> QED BY <1>9, <2>1, <2>2
<1>12. run'[c] = t /\ \A d \in Conn \ {c} : run'[d] = run[d]
  BY <1>3, <1>4
<1>13. \A j \in DOMAIN svc.sessions :
         /\ svc.sessions[j] # s => sess'[svc.sessions[j]] = sess[svc.sessions[j]]
         /\ svc.sessions[j] = s => /\ sess'[s].active = x.active /\ sess'[s].out = x.out
                                   /\ sess'[s].lost = x.lost /\ sess'[s].chan = << >>
                                   /\ x.active => sess'[s].pending = << >>
  BY <1>7, <1>8, <1>11
<1>14. PollOf(c, i, s)
  BY <1>2, <1>3, <1>5, <1>6, <1>9, <1>12, <1>13 DEF PollOf, x
<1> QED BY <1>3, <1>9, <1>10, <1>14 DEF SessInv

LEMMA NextSess == TypeOK /\ Reachable /\ SessInv /\ [Next]_vars => SessInv'
<1> SUFFICES ASSUME TypeOK, Reachable, SessInv, [Next]_vars PROVE SessInv'
  OBVIOUS
<1>1. ASSUME sess' = sess PROVE SessInv'
  BY <1>1 DEF SessInv
<1>2. ASSUME Narrowed PROVE SessInv'
  BY <1>2, NarrowedSess
<1>3. ASSUME NEW c \in Conn, NEW p \in BOOLEAN,
             init_terminal_service(c, p) \/ update_terminal_persistence(c, p)
      PROVE  SessInv'
  BY <1>1, <1>3, SessConnect DEF update_terminal_persistence
<1>4. ASSUME NEW c \in Conn, NEW i \in Ids, NEW r \in OpenRows, handle_open(c, i, r) PROVE SessInv'
  BY <1>4, SessOpen
<1>5. ASSUME NEW c \in Conn, NEW i \in Ids, NEW r \in Rows, handle_resize(c, i, r) PROVE SessInv'
  BY <1>2, <1>5, ResizeNarrows
<1>6. ASSUME NEW c \in Conn, NEW i \in Ids, handle_close(c, i) PROVE SessInv'
  BY <1>2, <1>6, CloseNarrows
<1>7. ASSUME NEW c \in Conn, Disconnect(c) PROVE SessInv'
  BY <1>1, <1>7 DEF Disconnect
<1>8. ASSUME NEW c \in Conn, ThreadStep(c) PROVE SessInv'
  <2>1. CASE Poll(c) \/ RunExit(c)
    BY <1>1, <2>1 DEF Poll, RunExit
  <2>2. CASE RunRemove(c)
    BY <1>2, <2>2, RemoveNarrows DEF RunRemove
  <2>3. CASE Finish(c)
    BY <1>2, <2>3, FinishNarrows
  <2>4. CASE \E ok \in BOOLEAN : ReadSession(c, ok)
    BY <2>4, PollSteps
  <2> QED BY <1>8, <2>1, <2>2, <2>3, <2>4 DEF ThreadStep
<1>9. ASSUME NEW s \in DOMAIN sess, ShellExit(s) \/ Output(s) PROVE SessInv'
  BY <1>2, <1>9, ExitNarrows, SessOutput
<1>10. CASE cleanup_inactive_services \/ CleanupRemove
  BY <1>1, <1>2, <1>10, RemoveNarrows DEF cleanup_inactive_services, CleanupRemove
<1>11. CASE UNCHANGED vars
  BY <1>1, <1>11 DEF vars
<1> QED BY <1>3, <1>4, <1>5, <1>6, <1>7, <1>8, <1>9, <1>10, <1>11 DEF Next

-----------------------------------------------------------------------------
(* Threads that do not read have nothing to read or to send, and a thread's*)
(* list has a session once.                                                *)

IdleInv ==
  \A c \in Conn :
    /\ run[c].pc \in {"off", "poll", "remove"} => run[c].todo = {} /\ run[c].out = << >>
    /\ conn[c] = "none" => run[c].pc = "off"
    /\ \A e, f \in run[c].todo : e[2] = f[2] => e = f

\* The thread of c, and its connection, after a step.
LEMMA IdleKept ==
  ASSUME TypeOK, TypeOK', IdleInv, NEW c \in Conn,
         \A d \in Conn \ {c} : run'[d] = run[d] /\ conn'[d] = conn[d],
         run'[c].pc \in {"off", "poll", "remove"} => run'[c].todo = {} /\ run'[c].out = << >>,
         conn'[c] = "none" => run'[c].pc = "off",
         \A e, f \in run'[c].todo : e[2] = f[2] => e = f
  PROVE  IdleInv'
<1> SUFFICES ASSUME NEW d \in Conn
             PROVE  /\ run'[d].pc \in {"off", "poll", "remove"} => run'[d].todo = {} /\ run'[d].out = << >>
                    /\ conn'[d] = "none" => run'[d].pc = "off"
                    /\ \A e, f \in run'[d].todo : e[2] = f[2] => e = f
  BY DEF IdleInv
<1>1. CASE d = c
  BY <1>1
<1>2. CASE d # c
  <2>1. run'[d] = run[d] /\ conn'[d] = conn[d]
    BY <1>2
  <2> QED BY <2>1 DEF IdleInv
<1> QED BY <1>1, <1>2

LEMMA NextIdle == TypeOK /\ Reachable /\ SessInv /\ IdleInv /\ [Next]_vars => IdleInv'
<1> SUFFICES ASSUME TypeOK, Reachable, SessInv, IdleInv, [Next]_vars PROVE IdleInv'
  OBVIOUS
<1>1. ASSUME UNCHANGED <<run, conn>> PROVE IdleInv'
  BY <1>1 DEF IdleInv
<1>2. TypeOK' /\ run \in [Conn -> Thread] /\ conn \in [Conn -> {"none", "live", "closing", "gone"}]
  BY NextTypes DEF TypeOK
<1>3. ASSUME NEW c \in Conn, NEW p \in BOOLEAN, init_terminal_service(c, p) PROVE IdleInv'
  <2>1. /\ conn[c] = "none" /\ run' = [run EXCEPT ![c].pc = "poll"]
        /\ conn' = [conn EXCEPT ![c] = "live"]
    BY <1>3 DEF init_terminal_service
  <2>2. /\ \A d \in Conn \ {c} : run'[d] = run[d] /\ conn'[d] = conn[d]
        /\ conn'[c] = "live" /\ run'[c].todo = run[c].todo /\ run'[c].out = run[c].out
    BY <1>2, <2>1 DEF Thread
  <2>3. run[c].todo = {} /\ run[c].out = << >>
    BY <2>1 DEF IdleInv
  <2> QED BY <1>2, <2>2, <2>3, IdleKept
<1>4. ASSUME NEW c \in Conn, Disconnect(c) PROVE IdleInv'
  <2>1. run' = run /\ conn' = [conn EXCEPT ![c] = "closing"]
    BY <1>4 DEF Disconnect
  <2>2. conn'[c] = "closing" /\ \A d \in Conn \ {c} : conn'[d] = conn[d]
    BY <1>2, <2>1
  <2>3. conn'[c] # "none"
    BY <2>2
  <2> QED BY <2>1, <2>2, <2>3 DEF IdleInv
<1>5. ASSUME NEW c \in Conn, Poll(c) PROVE IdleInv'
  <2> DEFINE todo == {<<i, svc.sessions[i]>> : i \in DOMAIN svc.sessions}
             t == [Off EXCEPT !.pc = "read", !.gen = svc.gen, !.persistent = svc.persistent,
                              !.todo = todo]
  <2>1. run' = [run EXCEPT ![c] = t] /\ conn' = conn /\ conn[c] = "live"
    BY <1>5 DEF Poll
  <2>2. \A e, f \in todo : e[2] = f[2] => e = f
    BY DEF Reachable
  <2> HIDE DEF todo
  <2>3. t.todo = todo /\ t.pc = "read"
    BY DEF Off
  <2> HIDE DEF t
  <2>4. run'[c] = t /\ \A d \in Conn \ {c} : run'[d] = run[d] /\ conn'[d] = conn[d]
    BY <1>2, <2>1
  <2>5. run'[c].pc \notin {"off", "poll", "remove"} /\ conn'[c] # "none"
    BY <2>1, <2>3, <2>4
  <2> QED BY <1>2, <2>2, <2>3, <2>4, <2>5, IdleKept
<1>6. ASSUME NEW c \in Conn, Finish(c) PROVE IdleInv'
  <2> DEFINE t == [Off EXCEPT !.pc = "poll"]
  <2>1. run' = [run EXCEPT ![c] = t] /\ conn' = conn /\ run[c].pc = "finish"
    BY <1>6 DEF Finish
  <2>2. t.todo = {} /\ t.out = << >>
    BY DEF Off
  <2> HIDE DEF t
  <2>3. run'[c] = t /\ \A d \in Conn \ {c} : run'[d] = run[d] /\ conn'[d] = conn[d]
    BY <1>2, <2>1
  <2>4. conn'[c] # "none"
    BY <2>1 DEF IdleInv
  <2> QED BY <1>2, <2>2, <2>3, <2>4, IdleKept
<1>7. ASSUME NEW c \in Conn, RunExit(c) PROVE IdleInv'
  <2> DEFINE pc == IF svc # NoService /\ ~svc.persistent THEN "remove" ELSE "off"
  <2>1. /\ run[c].pc = "poll" /\ conn[c] = "closing" /\ run' = [run EXCEPT ![c].pc = pc]
        /\ conn' = [conn EXCEPT ![c] = IF run'[c].pc = "off" THEN "gone" ELSE @]
    BY <1>7 DEF RunExit
  <2> HIDE DEF pc
  <2>2. /\ \A d \in Conn \ {c} : run'[d] = run[d] /\ conn'[d] = conn[d]
        /\ run'[c].todo = run[c].todo /\ run'[c].out = run[c].out /\ conn'[c] \in {"gone", "closing"}
    BY <1>2, <2>1 DEF Thread
  <2>3. run[c].todo = {} /\ run[c].out = << >>
    BY <2>1 DEF IdleInv
  <2>4. conn'[c] # "none"
    BY <2>2
  <2> QED BY <1>2, <2>2, <2>3, <2>4, IdleKept
<1>8. ASSUME NEW c \in Conn, RunRemove(c) PROVE IdleInv'
  <2>1. run[c].pc = "remove" /\ run' = [run EXCEPT ![c].pc = "off"] /\ conn' = [conn EXCEPT ![c] = "gone"]
    BY <1>8 DEF RunRemove
  <2>2. /\ \A d \in Conn \ {c} : run'[d] = run[d] /\ conn'[d] = conn[d]
        /\ run'[c].todo = run[c].todo /\ run'[c].out = run[c].out /\ conn'[c] = "gone"
    BY <1>2, <2>1 DEF Thread
  <2>3. run[c].todo = {} /\ run[c].out = << >>
    BY <2>1 DEF IdleInv
  <2>4. conn'[c] # "none"
    BY <2>2
  <2> QED BY <1>2, <2>2, <2>3, <2>4, IdleKept
<1>9. ASSUME NEW c \in Conn, NEW ok \in BOOLEAN, ReadSession(c, ok) PROVE IdleInv'
  <2>1. PICK i \in Ids, s \in Sid : PollOf(c, i, s)
    BY <1>9, PollSteps
  <2>2. /\ \A d \in Conn \ {c} : run'[d] = run[d] /\ conn'[d] = conn[d]
        /\ run'[c].todo \subseteq run[c].todo /\ run'[c].pc \in {"read", "finish"}
        /\ conn'[c] = conn[c] /\ run[c].pc = "read"
    BY <2>1 DEF PollOf
  <2>3. \A e, f \in run'[c].todo : e[2] = f[2] => e = f
    BY <2>2 DEF IdleInv
  <2>4. conn'[c] # "none" /\ run'[c].pc \notin {"off", "poll", "remove"}
    BY <2>2 DEF IdleInv
  <2> QED BY <1>2, <2>2, <2>3, <2>4, IdleKept
<1>10. ASSUME NEW c \in Conn, ThreadStep(c) PROVE IdleInv'
  BY <1>5, <1>6, <1>7, <1>8, <1>9, <1>10 DEF ThreadStep
<1>11. ASSUME NEW c \in Conn,
              \/ \E p \in BOOLEAN : update_terminal_persistence(c, p)
              \/ \E i \in Ids, r \in OpenRows : handle_open(c, i, r)
              \/ \E i \in Ids, r \in Rows : handle_resize(c, i, r)
              \/ \E i \in Ids : handle_close(c, i)
       PROVE  IdleInv'
  BY <1>1, <1>11 DEF update_terminal_persistence, handle_open, handle_resize, handle_close
<1>12. ASSUME NEW s \in DOMAIN sess, ShellExit(s) \/ Output(s) PROVE IdleInv'
  BY <1>1, <1>12 DEF ShellExit, Output
<1>13. CASE cleanup_inactive_services \/ CleanupRemove
  BY <1>1, <1>13 DEF cleanup_inactive_services, CleanupRemove
<1>14. CASE UNCHANGED vars
  BY <1>1, <1>14 DEF vars
<1> QED BY <1>3, <1>4, <1>10, <1>11, <1>12, <1>13, <1>14 DEF Next

-----------------------------------------------------------------------------
(* The client and the sessions that are streamed to it.                    *)

ClientInv ==
  /\ client.cur = 0 => client.opened = {}
  /\ client.cur # 0 =>
       /\ conn[client.cur] = "live" /\ (svc.sync => client.used = {})
       /\ \A i \in DOMAIN svc.sessions : sess[svc.sessions[i]].active <=> i \in client.used

\* A narrowing step that the client follows, or with which it goes away.
Follows ==
  /\ Narrowed /\ (svc'.sync => svc.sync) /\ overlapped' = overlapped
  /\ client'.cur \in {0, client.cur}
  /\ client'.cur = 0 => client'.opened = {}
  /\ client'.cur # 0 => /\ conn'[client.cur] = "live" /\ client'.used = client.used
                        /\ client'.opened \subseteq client.opened

\* Nothing is sent; a list that is made is the table's.
Quiet ==
  client'.cur # 0 =>
    /\ client'.got = client.got /\ run'[client.cur].out = run[client.cur].out
    /\ \A e \in run'[client.cur].todo :
         \/ e \in run[client.cur].todo
         \/ e[1] \in DOMAIN svc'.sessions /\ svc'.sessions[e[1]] = e[2]

LEMMA ClientFollows ==
  ASSUME TypeOK, ClientInv, Follows
  PROVE  ClientInv'
<1>1. ASSUME client'.cur # 0
      PROVE  /\ conn'[client'.cur] = "live" /\ (svc'.sync => client'.used = {})
             /\ \A i \in DOMAIN svc'.sessions : sess'[svc'.sessions[i]].active <=> i \in client'.used
  <2>1. client'.cur = client.cur /\ client.cur # 0 /\ client'.used = client.used
        /\ conn'[client'.cur] = "live"
    BY <1>1 DEF Follows
  <2>2. ASSUME NEW i \in DOMAIN svc'.sessions
        PROVE  sess'[svc'.sessions[i]].active <=> i \in client'.used
    <3>1. /\ i \in DOMAIN svc.sessions /\ svc'.sessions[i] = svc.sessions[i]
          /\ sess'[svc.sessions[i]].active = sess[svc.sessions[i]].active
      BY DEF Follows, Narrowed, Same
    <3>2. sess[svc.sessions[i]].active <=> i \in client.used
      BY <2>1, <3>1 DEF ClientInv
    <3> QED BY <2>1, <3>1, <3>2
  <2> QED BY <2>1, <2>2 DEF ClientInv, Follows
<1> QED BY <1>1 DEF ClientInv, Follows

LEMMA FollowsKept ==
  ASSUME TypeOK, ClientInv, Narrowed, svc'.sync => svc.sync, UNCHANGED <<client, overlapped>>,
         client.cur # 0 => conn'[client.cur] = "live"
  PROVE  Follows
BY DEF Follows, ClientInv

LEMMA QuietKept ==
  ASSUME client'.got = client.got, run' = run
  PROVE  Quiet
BY DEF Quiet

LEMMA SomeFollow ==
  ASSUME TypeOK, ClientInv, ThreadInv, IdleInv, NEW c \in Conn,
         \/ Disconnect(c) \/ Poll(c) \/ RunExit(c) \/ RunRemove(c)
         \/ \E p \in BOOLEAN : update_terminal_persistence(c, p)
         \/ \E i \in Ids, r \in Rows : handle_resize(c, i, r)
         \/ \E i \in Ids : handle_close(c, i)
  PROVE  Follows /\ Quiet
<1>1. /\ svc \in Service /\ client \in Client /\ run \in [Conn -> Thread]
      /\ conn \in [Conn -> {"none", "live", "closing", "gone"}]
  BY DEF TypeOK
<1>2. client.cur # 0 => client.cur \in Conn /\ conn[client.cur] = "live"
  BY <1>1, Constants DEF ClientInv, Client, Conn
<1>3. CASE Disconnect(c)
  <2>1. /\ conn' = [conn EXCEPT ![c] = "closing"] /\ UNCHANGED <<svc, sess, run, overlapped>>
        /\ client' = IF client.cur = c THEN NoClient ELSE client
    BY <1>3 DEF Disconnect
  <2>2. Narrowed
    BY <2>1, NarrowedSame
  <2>3. CASE client.cur = c
    BY <2>1, <2>2, <2>3 DEF Follows, Quiet, NoClient
  <2>4. CASE client.cur # c
    <3>1. client.cur # 0 => conn'[client.cur] = "live"
      BY <1>1, <1>2, <2>1, <2>4
    <3> QED BY <2>1, <2>2, <2>4, <3>1, FollowsKept, QuietKept
  <2> QED BY <2>3, <2>4
<1>4. CASE Poll(c)
  <2> DEFINE todo == {<<i, svc.sessions[i]>> : i \in DOMAIN svc.sessions}
             t == [Off EXCEPT !.pc = "read", !.gen = svc.gen, !.persistent = svc.persistent,
                              !.todo = todo]
  <2>1. /\ run[c].pc = "poll" /\ run' = [run EXCEPT ![c] = t]
        /\ UNCHANGED <<svc, sess, conn, client, overlapped>>
    BY <1>4 DEF Poll
  <2>2. \A e \in todo : e[1] \in DOMAIN svc.sessions /\ svc.sessions[e[1]] = e[2]
    OBVIOUS
  <2> HIDE DEF todo
  <2>3. t.todo = todo /\ t.out = << >>
    BY DEF Off
  <2> HIDE DEF t
  <2>4. run[c].out = << >> /\ run'[c] = t /\ \A d \in Conn \ {c} : run'[d] = run[d]
    BY <1>1, <2>1 DEF IdleInv
  <2>5. Quiet
    <3> SUFFICES ASSUME client.cur # 0
                 PROVE  /\ run'[client.cur].out = run[client.cur].out
                        /\ \A e \in run'[client.cur].todo :
                             \/ e \in run[client.cur].todo
                             \/ e[1] \in DOMAIN svc'.sessions /\ svc'.sessions[e[1]] = e[2]
      BY <2>1 DEF Quiet
    <3>1. CASE client.cur = c
      BY <2>1, <2>2, <2>3, <2>4, <3>1
    <3>2. CASE client.cur # c
      BY <1>2, <2>4, <3>2
    <3> QED BY <3>1, <3>2
  <2>6. Follows
    BY <1>2, <2>1, NarrowedSame, FollowsKept
  <2> QED BY <2>5, <2>6
<1>5. CASE RunExit(c)
  <2> DEFINE pc == IF svc # NoService /\ ~svc.persistent THEN "remove" ELSE "off"
  <2>1. /\ conn[c] = "closing" /\ run' = [run EXCEPT ![c].pc = pc]
        /\ conn' = [conn EXCEPT ![c] = IF run'[c].pc = "off" THEN "gone" ELSE @]
        /\ UNCHANGED <<svc, sess, client, overlapped>>
    BY <1>5 DEF RunExit
  <2> HIDE DEF pc
  <2>2. \A d \in Conn \ {c} : run'[d] = run[d] /\ conn'[d] = conn[d]
    BY <1>1, <2>1
  <2>3. client.cur # 0 => client.cur \in Conn \ {c}
    BY <1>2, <2>1
  <2>4. Follows
    BY <1>2, <2>1, <2>2, <2>3, NarrowedSame, FollowsKept
  <2>5. Quiet
    BY <2>1, <2>2, <2>3 DEF Quiet
  <2> QED BY <2>4, <2>5
<1>6. CASE RunRemove(c)
  <2>1. /\ run' = [run EXCEPT ![c].pc = "off"] /\ conn' = [conn EXCEPT ![c] = "gone"]
        /\ remove_service /\ UNCHANGED <<client, overlapped>> /\ conn[c] = "closing"
    BY <1>6 DEF RunRemove, ThreadInv
  <2>2. \A d \in Conn \ {c} : run'[d] = run[d] /\ conn'[d] = conn[d]
    BY <1>1, <2>1
  <2>3. client.cur # 0 => client.cur \in Conn \ {c}
    BY <1>2, <2>1
  <2>4. Follows
    BY <1>2, <2>1, <2>2, <2>3, RemoveNarrows, FollowsKept
  <2>5. Quiet
    BY <2>1, <2>2, <2>3 DEF Quiet
  <2> QED BY <2>4, <2>5
<1>7. ASSUME NEW p \in BOOLEAN, update_terminal_persistence(c, p) PROVE Follows /\ Quiet
  <2>1. svc' = [svc EXCEPT !.persistent = p] /\ UNCHANGED <<sess, conn, run, client, overlapped>>
    BY <1>7 DEF update_terminal_persistence
  <2>2. svc'.sessions = svc.sessions /\ svc'.sync = svc.sync
    BY <1>1, <2>1 DEF Service
  <2> QED BY <1>2, <2>1, <2>2, NarrowedSame, FollowsKept, QuietKept
<1>8. ASSUME NEW i \in Ids, NEW r \in Rows, handle_resize(c, i, r) PROVE Follows /\ Quiet
  <2>1. UNCHANGED <<svc, conn, run, client, overlapped>>
    BY <1>8 DEF handle_resize
  <2> QED BY <1>2, <1>8, <2>1, ResizeNarrows, FollowsKept, QuietKept
<1>9. ASSUME NEW i \in Ids, handle_close(c, i) PROVE Follows /\ Quiet
  <2> DEFINE table == Without(svc.sessions, {i})
  <2>1. /\ svc' = [svc EXCEPT !.sessions = table] /\ client' = [client EXCEPT !.opened = @ \ {i}]
        /\ UNCHANGED <<conn, run, overlapped>>
    BY <1>9 DEF handle_close
  <2> HIDE DEF table
  <2>2. /\ svc'.sync = svc.sync /\ client'.cur = client.cur /\ client'.used = client.used
        /\ client'.opened = client.opened \ {i} /\ client'.got = client.got
    BY <1>1, <2>1 DEF Service, Client
  <2>3. Narrowed
    BY <1>9, CloseNarrows
  <2>4. Follows
    BY <1>2, <2>1, <2>2, <2>3 DEF Follows, ClientInv
  <2> QED BY <2>1, <2>2, <2>4, QuietKept
<1> QED BY <1>3, <1>4, <1>5, <1>6, <1>7, <1>8, <1>9

LEMMA OthersFollow ==
  ASSUME TypeOK, ClientInv,
         \/ \E s \in DOMAIN sess : ShellExit(s)
         \/ cleanup_inactive_services \/ CleanupRemove \/ UNCHANGED vars
  PROVE  Follows /\ Quiet
<1>1. client.cur # 0 => conn[client.cur] = "live"
  BY DEF ClientInv
<1>2. ASSUME NEW s \in DOMAIN sess, ShellExit(s) PROVE Follows /\ Quiet
  <2>1. UNCHANGED <<svc, conn, run, client, overlapped>>
    BY <1>2 DEF ShellExit
  <2> QED BY <1>1, <1>2, <2>1, ExitNarrows, FollowsKept, QuietKept
<1>3. CASE CleanupRemove
  <2>1. remove_service /\ UNCHANGED <<conn, run, client, overlapped>>
    BY <1>3 DEF CleanupRemove
  <2> QED BY <1>1, <2>1, RemoveNarrows, FollowsKept, QuietKept
<1>4. CASE cleanup_inactive_services \/ UNCHANGED vars
  <2>1. UNCHANGED <<svc, sess, conn, run, client, overlapped>>
    BY <1>4 DEF cleanup_inactive_services, vars
  <2> QED BY <1>1, <2>1, NarrowedSame, FollowsKept, QuietKept
<1> QED BY <1>2, <1>3, <1>4

LEMMA FinishFollows ==
  ASSUME TypeOK, ClientInv, NEW c \in Conn, Finish(c)
  PROVE  Follows
<1> DEFINE got == [i \in Ids |-> IF i \in client.known THEN Shown(i, run[c].out) ELSE client.got[i]]
<1>1. /\ client' = IF client.cur # c THEN client
                   ELSE [client EXCEPT !.opened = @ \ run[c].closed, !.got = got]
      /\ UNCHANGED <<conn, overlapped>> /\ client \in Client
  BY DEF Finish, TypeOK
<1> HIDE DEF got
<1>2. /\ client'.cur = client.cur /\ client'.used = client.used
      /\ client'.opened \subseteq client.opened
  BY <1>1 DEF Client
<1>3. Narrowed /\ svc'.sync = svc.sync
  BY FinishNarrows
<1> QED BY <1>1, <1>2, <1>3 DEF Follows, ClientInv

LEMMA ClientConnect ==
  ASSUME TypeOK, SessInv, NEW c \in Conn, NEW p \in BOOLEAN, init_terminal_service(c, p)
  PROVE  ClientInv'
<1>1. /\ client' = [NoClient EXCEPT !.cur = c] /\ conn' = [conn EXCEPT ![c] = "live"]
      /\ conn \in [Conn -> {"none", "live", "closing", "gone"}]
  BY DEF init_terminal_service, TypeOK
<1>2. client'.cur = c /\ client'.used = {} /\ client'.opened = {} /\ conn'[c] = "live"
  BY <1>1 DEF NoClient
<1>3. svc'.sessions = svc.sessions
  <2>1. CASE svc = NoService
    <3>1. svc' = [NoService EXCEPT !.gen = c, !.persistent = p, !.sync = TRUE]
      BY <2>1 DEF init_terminal_service, reset_status
    <3> QED BY <2>1, <3>1 DEF NoService
  <2>2. CASE svc # NoService
    <3>1. svc' = [svc EXCEPT !.persistent = p, !.sync = TRUE]
      BY <2>2 DEF init_terminal_service, reset_status
    <3> QED BY <3>1 DEF TypeOK, Service
  <2> QED BY <2>1, <2>2
<1>4. \A i \in DOMAIN svc.sessions : ~sess'[svc.sessions[i]].active
  BY SessConnect
<1> QED BY <1>2, <1>3, <1>4 DEF ClientInv

LEMMA ClientOpen ==
  ASSUME TypeOK, ClientInv, NEW c \in Conn, NEW i \in Ids, NEW s \in Sid, OpenOf(c, i, s)
  PROVE  ClientInv'
<1>1. /\ c # 0 /\ client.cur = c /\ client'.cur = c /\ conn'[c] = "live" /\ ~svc'.sync
      /\ client'.used = client.used \cup {i}
  BY Constants DEF OpenOf
<1>2. ASSUME NEW j \in DOMAIN svc'.sessions
      PROVE  sess'[svc'.sessions[j]].active <=> j \in client'.used
  <2>1. CASE j = i
    BY <1>1, <2>1 DEF OpenOf
  <2>2. CASE j # i
    <3>1. sess'[svc'.sessions[j]] = sess[svc'.sessions[j]]
      BY <2>2 DEF OpenOf
    <3>2. CASE svc.sync
      <4>1. client.used = {}
        BY <1>1, <3>2 DEF ClientInv
      <4>2. PICK k \in DOMAIN svc.sessions : svc'.sessions[j] = svc.sessions[k]
        BY <2>2 DEF OpenOf
      <4>3. ~sess[svc.sessions[k]].active
        BY <1>1, <4>1 DEF ClientInv
      <4> QED BY <1>1, <2>2, <3>1, <4>1, <4>2, <4>3
    <3>3. CASE ~svc.sync
      <4>1. j \in DOMAIN svc.sessions /\ svc'.sessions[j] = svc.sessions[j]
        BY <2>2, <3>3 DEF OpenOf
      <4>2. sess[svc.sessions[j]].active <=> j \in client.used
        BY <1>1, <4>1 DEF ClientInv
      <4> QED BY <1>1, <2>2, <3>1, <4>1, <4>2
    <3> QED BY <3>2, <3>3
  <2> QED BY <2>1, <2>2
<1> QED BY <1>1, <1>2 DEF ClientInv

LEMMA NextClient ==
  TypeOK /\ Reachable /\ SessInv /\ ThreadInv /\ IdleInv /\ ClientInv /\ [Next]_vars => ClientInv'
<1> SUFFICES ASSUME TypeOK, Reachable, SessInv, ThreadInv, IdleInv, ClientInv, [Next]_vars
             PROVE  ClientInv'
  OBVIOUS
<1>1. ASSUME Follows PROVE ClientInv'
  BY <1>1, ClientFollows
<1>2. ASSUME NEW c \in Conn, NEW p \in BOOLEAN, init_terminal_service(c, p) PROVE ClientInv'
  BY <1>2, ClientConnect
<1>3. ASSUME NEW c \in Conn, NEW i \in Ids, NEW r \in OpenRows, handle_open(c, i, r) PROVE ClientInv'
  <2>1. PICK s \in Sid : OpenOf(c, i, s)
    BY <1>3, OpenSteps
  <2> QED BY <2>1, ClientOpen
<1>4. ASSUME NEW c \in Conn,
             \/ Disconnect(c) \/ Poll(c) \/ RunExit(c) \/ RunRemove(c)
             \/ \E p \in BOOLEAN : update_terminal_persistence(c, p)
             \/ \E i \in Ids, r \in Rows : handle_resize(c, i, r)
             \/ \E i \in Ids : handle_close(c, i)
      PROVE  ClientInv'
  BY <1>1, <1>4, SomeFollow
<1>5. ASSUME NEW c \in Conn, Finish(c) PROVE ClientInv'
  BY <1>1, <1>5, FinishFollows
<1>6. ASSUME NEW c \in Conn, NEW ok \in BOOLEAN, ReadSession(c, ok) PROVE ClientInv'
  <2>1. PICK i \in Ids, s \in Sid : PollOf(c, i, s)
    BY <1>6, PollSteps
  <2>2. \A j \in DOMAIN svc.sessions : sess'[svc.sessions[j]].active = sess[svc.sessions[j]].active
    BY <2>1 DEF PollOf
  <2>3. UNCHANGED <<svc, conn, client>>
    BY <2>1 DEF PollOf
  <2> QED BY <2>2, <2>3 DEF ClientInv
<1>7. ASSUME NEW s \in DOMAIN sess, Output(s) PROVE ClientInv'
  <2>1. OutputOf(s)
    BY <1>7, OutputSteps
  <2>2. \A j \in DOMAIN svc.sessions : sess'[svc.sessions[j]].active = sess[svc.sessions[j]].active
    BY <2>1 DEF OutputOf, TypeOK
  <2>3. UNCHANGED <<svc, conn, client>>
    BY <2>1 DEF OutputOf
  <2> QED BY <2>2, <2>3 DEF ClientInv
<1>8. CASE \/ \E s \in DOMAIN sess : ShellExit(s)
           \/ cleanup_inactive_services \/ CleanupRemove \/ UNCHANGED vars
  BY <1>1, <1>8, OthersFollow
<1> QED BY <1>2, <1>3, <1>4, <1>5, <1>6, <1>7, <1>8 DEF Next, ThreadStep

-----------------------------------------------------------------------------
(* What the client was sent, together with what its thread has for it.     *)

SentTo(cl, threads) == [i \in Ids |-> cl.got[i] \o To(i, threads[cl.cur].out)]

FlowInv ==
  ~overlapped /\ client.cur # 0 =>
    Flow(sess, svc.sessions, client.opened, run[client.cur].todo, SentTo(client, run))

LEMMA SentFacts ==
  ASSUME NEW cl \in Client, NEW threads \in [Conn -> Thread], cl.cur # 0
  PROVE  /\ SentTo(cl, threads) \in [Ids -> Seq(Byte)] /\ cl.cur \in Conn
         /\ threads[cl.cur].out \in Seq(Response)
         /\ \A i \in Ids : /\ SentTo(cl, threads)[i] = cl.got[i] \o To(i, threads[cl.cur].out)
                           /\ cl.got[i] \in Seq(Byte) /\ To(i, threads[cl.cur].out) \in Seq(Byte)
<1>1. cl.cur \in Conn /\ cl.got \in [Ids -> Seq(Byte)]
  BY Constants DEF Client, Conn
<1>2. threads[cl.cur].out \in Seq(Response)
  <2>1. threads[cl.cur] \in Thread
    BY <1>1
  <2> QED BY <2>1 DEF Thread, Response
<1> DEFINE out == threads[cl.cur].out
<1> HIDE DEF out
<1>3. \A i \in Ids : cl.got[i] \in Seq(Byte) /\ To(i, out) \in Seq(Byte)
  <2>1. out \in Seq(Response)
    BY <1>2 DEF out
  <2> QED BY <1>1, <2>1, MineType
<1>4. \A i \in Ids : cl.got[i] \o To(i, out) \in Seq(Byte)
  BY <1>3, ConcatProperties
<1>5. SentTo(cl, threads) = [i \in Ids |-> cl.got[i] \o To(i, out)]
  BY DEF SentTo, out
<1> QED BY <1>1, <1>2, <1>3, <1>4, <1>5 DEF out

LEMMA TableAt ==
  ASSUME TypeOK, Reachable
  PROVE  /\ DOMAIN svc.sessions \subseteq Ids /\ Injective(svc.sessions)
         /\ \A i \in DOMAIN svc.sessions :
              /\ svc.sessions[i] \in Sid /\ svc.sessions[i] \in DOMAIN sess
              /\ sess[svc.sessions[i]] \in Session
<1>1. svc.sessions \in Table
  BY ServiceTable DEF TypeOK
<1>2. DOMAIN svc.sessions \subseteq Ids /\ \A i \in DOMAIN svc.sessions : svc.sessions[i] \in Sid
  BY <1>1, TableDef
<1>3. \A i \in DOMAIN svc.sessions : svc.sessions[i] \in DOMAIN sess
  BY DEF TypeOK
<1>4. Injective(svc.sessions)
  BY DEF Reachable, Injective
<1> QED BY <1>2, <1>3, <1>4, SessionAt

LEMMA FlowFollows ==
  ASSUME TypeOK, TypeOK', Reachable', FlowInv, Follows, Quiet
  PROVE  FlowInv'
<1> SUFFICES ASSUME ~overlapped', client'.cur # 0
             PROVE  Flow(sess', svc'.sessions, client'.opened, run'[client'.cur].todo,
                         SentTo(client', run'))
  BY DEF FlowInv
<1>1. /\ ~overlapped /\ client'.cur = client.cur /\ client.cur # 0
      /\ client'.opened \subseteq client.opened /\ client'.got = client.got
      /\ run'[client.cur].out = run[client.cur].out
      /\ \A e \in run'[client.cur].todo :
           \/ e \in run[client.cur].todo
           \/ (e[1] \in DOMAIN svc'.sessions /\ svc'.sessions[e[1]] = e[2])
  BY DEF Follows, Quiet
<1>2. SentTo(client', run') = SentTo(client, run)
  BY <1>1 DEF SentTo
<1>3. /\ DOMAIN sess' = DOMAIN sess /\ DOMAIN svc'.sessions \subseteq DOMAIN svc.sessions
      /\ \A i \in DOMAIN svc'.sessions :
           svc'.sessions[i] = svc.sessions[i] /\ Same(sess[svc.sessions[i]], sess'[svc.sessions[i]])
  BY DEF Follows, Narrowed
<1>4. /\ DOMAIN svc'.sessions \subseteq Ids /\ \A i \in DOMAIN svc'.sessions : svc'.sessions[i] \in Sid
  BY ServiceTable, TableDef DEF TypeOK
<1>5. Injective(svc'.sessions)
  BY DEF Reachable, Injective
<1>6. Flow(sess, svc.sessions, client.opened, run[client.cur].todo, SentTo(client, run))
  BY <1>1 DEF FlowInv
<1> DEFINE ss == sess
           tt == sess'
           table == svc.sessions
           table2 == svc'.sessions
           opened == client.opened
           opened2 == client'.opened
           todo == run[client.cur].todo
           todo2 == run'[client.cur].todo
           sent == SentTo(client, run)
<1>7. /\ Flow(ss, table, opened, todo, sent)
      /\ DOMAIN tt = DOMAIN ss /\ DOMAIN table2 \subseteq DOMAIN table /\ DOMAIN table2 \subseteq Ids
      /\ \A i \in DOMAIN table2 : table2[i] = table[i] /\ Same(ss[table[i]], tt[table[i]])
      /\ Injective(table2) /\ opened2 \subseteq opened
      /\ \A e \in todo2 : e \in todo \/ (e[1] \in DOMAIN table2 /\ table2[e[1]] = e[2])
      /\ \A i \in DOMAIN table2 : table2[i] \in Sid
  BY <1>1, <1>3, <1>4, <1>5, <1>6
<1> HIDE DEF ss, tt, table, table2, opened, opened2, todo, todo2, sent
<1>8. Flow(tt, table2, opened2, todo2, sent)
  BY <1>7, FlowKept
<1> QED BY <1>1, <1>2, <1>8 DEF tt, table2, opened2, todo2, sent

LEMMA FlowFinish ==
  ASSUME TypeOK, TypeOK', Reachable', FlowInv, ClientInv, NEW c \in Conn, Finish(c)
  PROVE  FlowInv'
<1> SUFFICES ASSUME ~overlapped', client'.cur # 0
             PROVE  Flow(sess', svc'.sessions, client'.opened, run'[client'.cur].todo,
                         SentTo(client', run'))
  BY DEF FlowInv
<1> DEFINE got == [i \in Ids |-> IF i \in client.known THEN Shown(i, run[c].out) ELSE client.got[i]]
           idle == [Off EXCEPT !.pc = "poll"]
<1>1. /\ client' = IF client.cur # c THEN client
                   ELSE [client EXCEPT !.opened = @ \ run[c].closed, !.got = got]
      /\ run' = [run EXCEPT ![c] = idle] /\ run \in [Conn -> Thread] /\ client \in Client
      /\ overlapped' = overlapped
  BY DEF Finish, TypeOK
<1>2. Follows
  BY FinishFollows
<1>3. ~overlapped /\ client'.cur = client.cur /\ client.cur # 0 /\ client.cur \in Conn
  <2>1. ~overlapped /\ client'.cur = client.cur /\ client.cur # 0
    BY <1>1, <1>2 DEF Follows
  <2>2. client.cur \in 0..Conns
    BY <1>1 DEF Client
  <2> QED BY <2>1, <2>2, Constants DEF Conn
<1>4. CASE client.cur # c
  <2>1. client' = client /\ run'[client.cur] = run[client.cur]
    <3> HIDE DEF idle, got
    <3> QED BY <1>1, <1>3, <1>4
  <2>2. Quiet
    BY <2>1 DEF Quiet
  <2>3. FlowInv'
    BY <1>2, <2>2, FlowFollows
  <2> QED BY <1>3, <2>3 DEF FlowInv
<1>5. CASE client.cur = c
  <2>1. idle.todo = {} /\ idle.out = << >>
    BY DEF Off
  <2>2. run'[c].todo = {} /\ run'[c].out = << >>
    <3>1. run'[c] = idle
      <4> HIDE DEF idle
      <4> QED BY <1>1
    <3> QED BY <2>1, <3>1
  <2>3. client'.got = got
    <3> HIDE DEF got, idle
    <3> QED BY <1>1, <1>5 DEF Client
  <2> DEFINE sent == SentTo(client, run)
             sent2 == SentTo(client', run')
  <2>4. \A i \in Ids : /\ sent[i] = client.got[i] \o To(i, run[c].out) /\ sent[i] \in Seq(Byte)
                       /\ client.got[i] \in Seq(Byte) /\ To(i, run[c].out) \in Seq(Byte)
    BY <1>1, <1>3, <1>5, SentFacts
  <2>5. \A i \in Ids : sent2[i] = got[i] \o To(i, << >>)
    <3> HIDE DEF got
    <3> QED BY <1>3, <1>5, <2>2, <2>3 DEF SentTo
  <2>6. ASSUME NEW i \in Ids
        PROVE  sent2[i] = IF i \in client.known THEN sent[i] ELSE client.got[i]
    <3>1. Shown(i, run[c].out) = sent[i]
      BY <2>4 DEF Shown, To, Mine
    <3>2. got[i] = IF i \in client.known THEN sent[i] ELSE client.got[i]
      BY <3>1
    <3> HIDE DEF got, sent
    <3>3. got[i] \in Seq(Byte)
      BY <2>4, <3>2
    <3>4. To(i, << >>) = << >>
      <4>1. Mine(i, << >>) = << >>
        BY DEF Mine
      <4> QED BY <4>1, NothingOnly DEF To, FlattenSeq
    <3>5. got[i] \o << >> = got[i]
      BY <3>3, ConcatEmptySeq
    <3> QED BY <2>5, <3>2, <3>4, <3>5
  <2> HIDE DEF got, idle
  <2>7. \A i \in client'.opened : sent2[i] = sent[i]
    <3>1. client'.opened \subseteq client.opened /\ client.opened \subseteq client.used
          /\ client.used \subseteq client.known /\ client.known \subseteq Ids
      BY <1>1, <1>2, <1>3 DEF TypeOK, Client, Follows
    <3> HIDE DEF sent, sent2
    <3> QED BY <2>6, <3>1
  <2>8. \A i \in Ids, s \in Sid : Chunks(s, sent2[i]) \subseteq Chunks(s, sent[i])
    <3> SUFFICES ASSUME NEW i \in Ids, NEW s \in Sid PROVE Chunks(s, sent2[i]) \subseteq Chunks(s, sent[i])
      OBVIOUS
    <3> DEFINE a == client.got[i]
               b == To(i, run[c].out)
    <3>1. a \in Seq(Byte) /\ b \in Seq(Byte) /\ sent[i] = a \o b /\ sent2[i] \in {a, a \o b}
      BY <2>4, <2>6
    <3> HIDE DEF a, b, sent, sent2
    <3>2. Chunks(s, a \o b) = Chunks(s, a) \cup Chunks(s, b)
      BY <3>1, ChunksConcat
    <3> QED BY <3>1, <3>2
  <2>9. /\ DOMAIN sess' = DOMAIN sess /\ DOMAIN svc'.sessions \subseteq DOMAIN svc.sessions
        /\ \A i \in DOMAIN svc'.sessions :
             svc'.sessions[i] = svc.sessions[i] /\ Same(sess[svc.sessions[i]], sess'[svc.sessions[i]])
    BY <1>2 DEF Follows, Narrowed
  <2>10. /\ DOMAIN svc'.sessions \subseteq Ids /\ \A i \in DOMAIN svc'.sessions : svc'.sessions[i] \in Sid
    BY ServiceTable, TableDef DEF TypeOK
  <2>11. Injective(svc'.sessions) /\ client'.opened \subseteq client.opened
    BY <1>2, <1>3 DEF Reachable, Injective, Follows
  <2>12. Flow(sess, svc.sessions, client.opened, run[client.cur].todo, sent)
    BY <1>3 DEF FlowInv
  <2> DEFINE ss == sess
             tt == sess'
             table == svc.sessions
             table2 == svc'.sessions
             opened == client.opened
             opened2 == client'.opened
             todo == run[client.cur].todo
             todo2 == {}
  <2>13. /\ Flow(ss, table, opened, todo, sent)
         /\ DOMAIN tt = DOMAIN ss /\ DOMAIN table2 \subseteq DOMAIN table /\ DOMAIN table2 \subseteq Ids
         /\ \A i \in DOMAIN table2 : table2[i] = table[i] /\ Same(ss[table[i]], tt[table[i]])
         /\ Injective(table2) /\ opened2 \subseteq opened
         /\ \A e \in todo2 : e \in todo \/ (e[1] \in DOMAIN table2 /\ table2[e[1]] = e[2])
         /\ \A i \in DOMAIN table2 : table2[i] \in Sid
         /\ \A i \in opened2 : sent2[i] = sent[i]
         /\ \A i \in Ids, s \in Sid : Chunks(s, sent2[i]) \subseteq Chunks(s, sent[i])
    <3> HIDE DEF sent, sent2
    <3> QED BY <2>7, <2>8, <2>9, <2>10, <2>11, <2>12
  <2> HIDE DEF ss, tt, table, table2, opened, opened2, todo, todo2, sent, sent2
  <2>14. Flow(tt, table2, opened2, todo2, sent2)
    BY <2>13, FlowKept
  <2> QED BY <1>3, <1>5, <2>2, <2>14 DEF tt, table2, opened2, todo2, sent2
<1> QED BY <1>4, <1>5

LEMMA FlowConnect ==
  ASSUME TypeOK, TypeOK', IdleInv, NEW c \in Conn, NEW p \in BOOLEAN, init_terminal_service(c, p)
  PROVE  FlowInv'
<1>1. /\ client' = [NoClient EXCEPT !.cur = c] /\ run' = [run EXCEPT ![c].pc = "poll"]
      /\ conn[c] = "none" /\ run \in [Conn -> Thread] /\ client' \in Client /\ run' \in [Conn -> Thread]
  BY DEF init_terminal_service, TypeOK
<1>2. client'.cur = c /\ client'.opened = {} /\ c # 0 /\ \A i \in Ids : client'.got[i] = << >>
  BY <1>1, Constants DEF NoClient
<1>3. run'[c].todo = {} /\ run'[c].out = << >>
  BY <1>1 DEF Thread, IdleInv
<1> DEFINE sent == SentTo(client', run')
<1>4. ASSUME NEW i \in Ids, NEW s \in Sid PROVE Chunks(s, sent[i]) = {}
  <2>1. Mine(i, << >>) = << >>
    BY DEF Mine
  <2>2. To(i, << >>) = << >> /\ << >> \o << >> = << >> /\ Chunks(s, << >>) = {}
    BY <2>1, NothingOnly, NoChunks DEF To
  <2>3. sent[i] = client'.got[i] \o To(i, run'[client'.cur].out)
    BY <1>1, <1>2, SentFacts, ZenonT(60)
  <2> HIDE DEF sent
  <2> QED BY <1>2, <1>3, <2>2, <2>3
<1> HIDE DEF sent
<1>5. Flow(sess', svc'.sessions, {}, {}, sent)
  BY <1>4 DEF Flow
<1> QED BY <1>2, <1>3, <1>5 DEF FlowInv, sent

LEMMA FlowOpen ==
  ASSUME TypeOK, Reachable, ClientInv, FlowInv, NEW c \in Conn, NEW i \in Ids, NEW s \in Sid,
         OpenOf(c, i, s)
  PROVE  FlowInv'
<1> SUFFICES ASSUME ~overlapped
             PROVE  Flow(sess', svc'.sessions, client'.opened, run'[client'.cur].todo,
                         SentTo(client', run'))
  BY DEF FlowInv, OpenOf
<1>1. /\ client.cur = c /\ client'.cur = c /\ c # 0 /\ run' = run /\ i \notin client.used
      /\ client'.opened = client.opened \cup {i} /\ client'.got = client.got
  BY Constants DEF OpenOf
<1>2. SentTo(client', run') = SentTo(client, run)
  BY <1>1 DEF SentTo
<1>3. /\ client \in Client /\ run \in [Conn -> Thread] /\ client.opened \subseteq client.used
  BY DEF TypeOK
<1> DEFINE ss == sess
           tt == sess'
           table == svc.sessions
           table2 == svc'.sessions
           opened == client.opened
           todo == run[c].todo
           sent == SentTo(client, run)
<1>4. Flow(ss, table, opened, todo, sent) /\ sent \in [Ids -> Seq(Byte)]
  BY <1>1, <1>3, SentFacts DEF FlowInv
<1>5. \A k \in DOMAIN table : k \notin client.used => ~ss[table[k]].active
  BY <1>1 DEF ClientInv
<1>6. svc.sync => client.used = {}
  BY <1>1 DEF ClientInv
<1>7. Unsent(s, ss, table)
  <2>1. CASE s \notin DOMAIN ss
    BY <2>1 DEF Unsent
  <2>2. CASE s \in DOMAIN ss
    <3>1. PICK k \in DOMAIN table : table[k] = s /\ (svc.sync \/ k = i)
      BY <2>2 DEF OpenOf
    <3>2. k \notin client.used
      BY <1>1, <1>6, <3>1
    <3> QED BY <1>5, <3>1, <3>2 DEF Unsent
  <2> QED BY <2>1, <2>2
<1>8. ASSUME NEW j \in DOMAIN table2 \ {i}
      PROVE  /\ j \in Ids /\ table2[j] \in DOMAIN ss \ {s} /\ table2[j] \in Sid
             /\ \E k \in DOMAIN table : table2[j] = table[k]
             /\ \/ j \in DOMAIN table /\ table2[j] = table[j]
                \/ j \notin opened /\ Unsent(table2[j], ss, table)
  <2>1. /\ j \in Ids /\ table2[j] \in DOMAIN ss \ {s} /\ table2[j] \in Sid
        /\ ~svc.sync => j \in DOMAIN table /\ table2[j] = table[j]
    BY DEF OpenOf, TypeOK
  <2>2. PICK k \in DOMAIN table : table2[j] = table[k]
    BY DEF OpenOf
  <2>3. ASSUME svc.sync PROVE j \notin opened /\ Unsent(table2[j], ss, table)
    <3>1. client.used = {}
      BY <1>6, <2>3
    <3>2. ~ss[table[k]].active
      BY <1>5, <3>1
    <3> QED BY <1>3, <2>2, <3>1, <3>2 DEF Unsent
  <2> QED BY <2>1, <2>2, <2>3
<1>9. /\ DOMAIN ss \subseteq DOMAIN tt /\ s \in DOMAIN tt
      /\ \A r \in DOMAIN ss \ {s} : tt[r] = ss[r]
      /\ tt[s] \in Session /\ tt[s].active
      /\ Complete(s, tt[s].pending \o FlattenSeq(tt[s].chan), tt[s])
      /\ i \in DOMAIN table2 /\ table2[i] = s
  BY DEF OpenOf
<1> HIDE DEF ss, tt, table, table2, opened, todo, sent
<1>10. Flow(tt, table2, opened \cup {i}, todo, sent)
  BY <1>4, <1>7, <1>8, <1>9, FlowOpened
<1> QED BY <1>1, <1>2, <1>10 DEF tt, table2, opened, todo, sent

LEMMA FlowOutput ==
  ASSUME TypeOK, Reachable, SessInv, FlowInv, NEW s \in DOMAIN sess, OutputOf(s)
  PROVE  FlowInv'
<1> SUFFICES ASSUME ~overlapped, client.cur # 0
             PROVE  Flow(sess', svc.sessions, client.opened, run[client.cur].todo, SentTo(client, run))
  BY DEF FlowInv, OutputOf
<1> DEFINE ss == sess
           tt == sess'
           y == sess'[s]
           table == svc.sessions
           opened == client.opened
           todo == run[client.cur].todo
           sent == SentTo(client, run)
<1>1. Flow(ss, table, opened, todo, sent) /\ sent \in [Ids -> Seq(Byte)]
  BY SentFacts DEF FlowInv, TypeOK
<1>2. /\ s \in Sid /\ s \in DOMAIN ss /\ ss[s] \in Session /\ SessionInv(s, ss[s])
      /\ Written(s, ss[s], y) /\ DOMAIN tt = DOMAIN ss /\ tt[s] = y
      /\ \A r \in DOMAIN ss \ {s} : tt[r] = ss[r]
  BY DEF OutputOf, SessInv
<1>3. DOMAIN table \subseteq Ids /\ \A i \in DOMAIN table : table[i] \in DOMAIN ss
  BY TableAt
<1> HIDE DEF ss, tt, y, table, opened, todo, sent
<1>4. Flow(tt, table, opened, todo, sent)
  BY <1>1, <1>2, <1>3, FlowWritten
<1> QED BY <1>4 DEF tt, table, opened, todo, sent

LEMMA FlowPoll ==
  ASSUME TypeOK, TypeOK', Reachable, SessInv, ThreadInv, IdleInv, ClientInv, FlowInv,
         NEW c \in Conn, NEW i \in Ids, NEW s \in Sid, PollOf(c, i, s)
  PROVE  FlowInv'
<1> SUFFICES ASSUME ~overlapped, client.cur # 0
             PROVE  Flow(sess', svc.sessions, client.opened, run'[client.cur].todo, SentTo(client, run'))
  BY DEF FlowInv, PollOf
<1>1. client.cur = c
  <2>1. client.cur \in Conn /\ conn[client.cur] = "live"
    BY SentFacts DEF ClientInv, TypeOK
  <2>2. run[client.cur].pc # "off" /\ run[c].pc # "off"
    BY <2>1 DEF ThreadInv, PollOf
  <2> QED BY <2>1, <2>2 DEF ThreadInv
<1> DEFINE ss == sess
           tt == sess'
           table == svc.sessions
           opened == client.opened
           todo == run[c].todo
           sent == SentTo(client, run)
           sent2 == SentTo(client, run')
           x == sess[s]
<1>2. /\ Flow(ss, table, opened, todo, sent) /\ sent \in [Ids -> Seq(Byte)]
      /\ run[c].out \in Seq(Response)
      /\ \A j \in Ids : /\ sent[j] = client.got[j] \o To(j, run[c].out)
                        /\ client.got[j] \in Seq(Byte) /\ To(j, run[c].out) \in Seq(Byte)
  BY <1>1, SentFacts DEF FlowInv, TypeOK
<1>3. /\ <<i, s>> \in todo /\ s \in DOMAIN ss /\ ss[s] \in Session /\ SessionInv(s, ss[s])
      /\ DOMAIN tt = DOMAIN ss /\ run'[c].todo = todo \ {<<i, s>>}
  BY DEF PollOf, SessInv
<1>4. DOMAIN table \subseteq Ids /\ OnePolled(s, ss, tt, table)
  BY TableAt DEF PollOf, OnePolled
<1>5. \A j \in opened \cap DOMAIN table : ss[table[j]].active
  BY <1>1, Constants DEF ClientInv, TypeOK
<1>6. \A f \in todo : f[2] \in Sid /\ (f[2] = s => f = <<i, s>>)
  <2>1. \A f \in todo : f[2] \in Sid
    BY DEF TypeOK
  <2>2. <<i, s>>[2] = s
    OBVIOUS
  <2> QED BY <1>3, <2>1, <2>2 DEF IdleInv
<1>7. \A j \in Ids : sent2[j] = IF x.active THEN sent[j] \o To(j, DataResponses(i, x)) ELSE sent[j]
  <2> SUFFICES ASSUME NEW j \in Ids
               PROVE  sent2[j] = IF x.active THEN sent[j] \o To(j, DataResponses(i, x)) ELSE sent[j]
    OBVIOUS
  <2>1. sent2[j] = client.got[j] \o To(j, run'[c].out)
    BY <1>1 DEF SentTo
  <2>2. run'[c].out = IF x.active THEN run[c].out \o DataResponses(i, x) ELSE run[c].out
    BY DEF PollOf
  <2> DEFINE g == client.got[j]
             o == run[c].out
             d == DataResponses(i, x)
  <2>3. d \in Seq(Response) /\ o \in Seq(Response) /\ x \in Session
    BY <1>2, <1>3, ToResponses
  <2>4. g \in Seq(Byte) /\ To(j, o) \in Seq(Byte) /\ sent[j] = g \o To(j, o)
    BY <1>2
  <2> HIDE DEF g, o, d, x, sent, sent2
  <2>5. To(j, d) \in Seq(Byte) /\ To(j, o \o d) = To(j, o) \o To(j, d)
    BY <2>3, MineType, MineConcat
  <2>6. g \o (To(j, o) \o To(j, d)) = (g \o To(j, o)) \o To(j, d)
    <3> DEFINE a == To(j, o)
               b == To(j, d)
    <3> HIDE DEF a, b
    <3>1. g \in Seq(Byte) /\ a \in Seq(Byte) /\ b \in Seq(Byte)
      BY <2>4, <2>5 DEF a, b
    <3>2. (g \o a) \o b = g \o (a \o b)
      BY ONLY <3>1, ConcatAssociative, SMTT(60)
    <3> QED BY <3>2 DEF a, b
  <2>7. sent2[j] = g \o To(j, IF x.active THEN o \o d ELSE o)
    BY <2>1, <2>2 DEF g, o, d
  <2>8. CASE x.active
    BY <2>4, <2>5, <2>6, <2>7, <2>8 DEF d
  <2>9. CASE ~x.active
    BY <2>4, <2>7, <2>9
  <2> QED BY <2>8, <2>9
<1>8. \A j \in Ids : sent2[j] = IF ss[s].active THEN sent[j] \o To(j, DataResponses(i, ss[s])) ELSE sent[j]
  <2> HIDE DEF sent, sent2
  <2> QED BY <1>7
<1>9. i \in Ids /\ s \in Sid
  OBVIOUS
<1> HIDE DEF ss, tt, table, opened, todo, sent, sent2, x
<1>10. Flow(tt, table, opened, todo \ {<<i, s>>}, sent2)
  <2>1. Flow(ss, table, opened, todo, sent) /\ sent \in [Ids -> Seq(Byte)]
    BY <1>2
  <2> QED BY ONLY <2>1, <1>3, <1>4, <1>5, <1>6, <1>8, <1>9, FlowRead
<1> QED BY <1>1, <1>3, <1>10 DEF tt, table, opened, todo, sent2

-----------------------------------------------------------------------------
(* What a terminal shows.                                                  *)

StreamInv ==
  TypeOK /\ Reachable /\ SessInv /\ ThreadInv /\ IdleInv /\ ClientInv /\ FlowInv

LEMMA NextFlow == StreamInv /\ [Next]_vars => FlowInv'
<1> SUFFICES ASSUME TypeOK, Reachable, SessInv, ThreadInv, IdleInv, ClientInv, FlowInv, [Next]_vars
             PROVE  FlowInv'
  BY DEF StreamInv
<1>1. TypeOK' /\ Reachable'
  BY NextTypes, NextReachable
<1>2. ASSUME Follows, Quiet PROVE FlowInv'
  BY <1>1, <1>2, FlowFollows
<1>3. ASSUME NEW c \in Conn, NEW p \in BOOLEAN, init_terminal_service(c, p) PROVE FlowInv'
  BY <1>1, <1>3, FlowConnect
<1>4. ASSUME NEW c \in Conn, NEW i \in Ids, NEW r \in OpenRows, handle_open(c, i, r) PROVE FlowInv'
  <2>1. PICK s \in Sid : OpenOf(c, i, s)
    BY <1>4, OpenSteps
  <2> QED BY <2>1, FlowOpen
<1>5. ASSUME NEW c \in Conn,
             \/ Disconnect(c) \/ Poll(c) \/ RunExit(c) \/ RunRemove(c)
             \/ \E p \in BOOLEAN : update_terminal_persistence(c, p)
             \/ \E i \in Ids, r \in Rows : handle_resize(c, i, r)
             \/ \E i \in Ids : handle_close(c, i)
      PROVE  FlowInv'
  BY <1>2, <1>5, SomeFollow
<1>6. ASSUME NEW c \in Conn, Finish(c) PROVE FlowInv'
  BY <1>1, <1>6, FlowFinish
<1>7. ASSUME NEW c \in Conn, NEW ok \in BOOLEAN, ReadSession(c, ok) PROVE FlowInv'
  <2>1. PICK i \in Ids, s \in Sid : PollOf(c, i, s)
    BY <1>7, PollSteps
  <2> QED BY <1>1, <2>1, FlowPoll
<1>8. ASSUME NEW s \in DOMAIN sess, Output(s) PROVE FlowInv'
  BY <1>8, OutputSteps, FlowOutput
<1>9. CASE \/ \E s \in DOMAIN sess : ShellExit(s)
           \/ cleanup_inactive_services \/ CleanupRemove \/ UNCHANGED vars
  BY <1>2, <1>9, OthersFollow
<1> QED BY <1>3, <1>4, <1>5, <1>6, <1>7, <1>8, <1>9 DEF Next, ThreadStep

LEMMA InitStream == Init => StreamInv
<1> SUFFICES ASSUME Init PROVE StreamInv
  OBVIOUS
<1>1. TypeOK /\ ThreadInv /\ DOMAIN svc.sessions = {} /\ DOMAIN sess = {} /\ client.cur = 0
  BY InitTypes, InitThreads, IdleTypes DEF Init, NoClient
<1>2. Reachable /\ SessInv /\ FlowInv
  BY <1>1 DEF Reachable, SessInv, FlowInv
<1>3. IdleInv /\ ClientInv
  BY <1>1 DEF Init, IdleInv, ClientInv, Off, NoClient
<1> QED BY <1>1, <1>2, <1>3 DEF StreamInv

\* What was sent is in order and complete, and what is shown begins it.
LEMMA StreamContinuous == StreamInv => Continuous
<1> SUFFICES ASSUME StreamInv, NEW i \in client.opened \cap DOMAIN svc.sessions, ~overlapped
             PROVE  LET s     == svc.sessions[i]
                        shown == Chunks(s, client.got[i])
                    IN  /\ InOrder(s, client.got[i])
                        /\ \A m, n \in shown : (m + 1)..(n - 1) \subseteq shown \cup sess[s].lost
  BY DEF Continuous
<1> DEFINE s == svc.sessions[i]
           x == sess[s]
           a == client.got[i]
           b == To(i, run[client.cur].out)
           p == x.pending
           c == FlattenSeq(x.chan)
<1>1. client.cur # 0
  BY DEF StreamInv, ClientInv
<1>2. i \in Ids /\ s \in Sid /\ x \in Session
  BY TableAt DEF StreamInv
<1>3. Stream(s, SentTo(client, run)[i], x)
  BY <1>1 DEF StreamInv, FlowInv, Flow
<1>4. SentTo(client, run)[i] = a \o b /\ a \in Seq(Byte) /\ b \in Seq(Byte)
  BY <1>1, <1>2, SentFacts DEF StreamInv, TypeOK
<1>5. p \in Seq(Byte) /\ c \in Seq(Byte) /\ x.out \in Nat
  BY <1>2, SessionBytes
<1>6. Complete(s, ((a \o b) \o p) \o c, x)
  BY <1>3, <1>4 DEF Stream
<1> HIDE DEF s, x, a, b, p, c
<1>7. PICK d \in Seq(Byte) : ((a \o b) \o p) \o c = a \o d
  <2> DEFINE bp == b \o p
             d == bp \o c
  <2>1. bp \in Seq(Byte)
    BY <1>4, <1>5, ConcatProperties
  <2>2. (a \o b) \o p = a \o bp
    BY ONLY <1>4, <1>5, ConcatAssociative, SMTT(60)
  <2> HIDE DEF bp
  <2>3. (a \o bp) \o c = a \o (bp \o c)
    <3>1. a \in Seq(Byte) /\ bp \in Seq(Byte) /\ c \in Seq(Byte)
      BY <1>4, <1>5, <2>1
    <3> QED BY ONLY <3>1, ConcatAssociative, SMTT(60)
  <2>4. d \in Seq(Byte)
    BY <1>5, <2>1, ConcatProperties
  <2>5. ((a \o b) \o p) \o c = a \o d
    BY <2>2, <2>3
  <2> HIDE DEF d
  <2> QED BY <2>4, <2>5
<1>8. /\ Chunks(s, a \o d) = Chunks(s, a) \cup Chunks(s, d)
      /\ InOrder(s, a) /\ \A m \in Chunks(s, a), n \in Chunks(s, d) : m < n
  BY <1>2, <1>4, <1>6, <1>7, ChunksConcat DEF Complete
<1>9. Chunks(s, a) \subseteq Nat /\ Chunks(s, d) \subseteq Nat
  BY <1>2, <1>4, ChunkFacts
<1>10. ASSUME NEW m \in Chunks(s, a), NEW n \in Chunks(s, a), NEW k \in (m + 1)..(n - 1)
       PROVE  k \in Chunks(s, a) \cup x.lost
  <2>1. n <= x.out /\ (m + 1)..x.out \subseteq Chunks(s, a \o d) \cup x.lost
    BY <1>6, <1>7, <1>8 DEF Complete
  <2>2. m \in Nat /\ n \in Nat /\ k \in (m + 1)..x.out /\ k < n
    BY <1>5, <1>9, <1>10, <2>1
  <2>3. k \notin Chunks(s, d)
    BY <1>8, <1>9, <2>2
  <2> QED BY <1>8, <2>1, <2>2, <2>3
<1> QED BY <1>8, <1>10 DEF s, a, x

(* A terminal shows what its shell wrote since some point, in order,       *)
(* nothing twice and nothing missing but what found the channel full, for  *)
(* however many terminals, connections and chunks and whatever the sizes of*)
(* the buffer, the replay and the channel.  What waits in the channel and  *)
(* what the buffer kept follow each other (read_outputs, get_recent), so a *)
(* reconnection sends the end of the history and then the channel.         *)
THEOREM ShownContinuous == Spec => []Continuous
<1>1. Init => StreamInv
  BY InitStream
<1>2. StreamInv /\ [Next]_vars => StreamInv'
  BY NextTypes, NextReachable, NextSess, NextThreads, NextIdle, NextClient, NextFlow DEF StreamInv
<1>3. StreamInv => Continuous
  BY StreamContinuous
<1> QED BY <1>1, <1>2, <1>3, PTL DEF Spec
=============================================================================
