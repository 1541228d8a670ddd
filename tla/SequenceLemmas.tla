--------------------------- MODULE SequenceLemmas ---------------------------
(***************************************************************************)
(* Lemmas about numbers and sequences that the proofs of several modules   *)
(* use.  The induction that they take is over sets of numbers: a set of    *)
(* numbers that is not empty has a least element.                          *)
(***************************************************************************)
EXTENDS Integers, Sequences, SequencesExt, FiniteSetsExt,
        FiniteSetTheorems, SequenceTheorems, WellFoundedInduction, TLAPS

-----------------------------------------------------------------------------
(* Numbers.                                                                *)

\* The least number of a set, as Trim, get_recent and handle_open choose it.
LEMMA LeastElement ==
  ASSUME NEW T, T \subseteq Nat, T # {}
  PROVE  Min(T) \in T /\ \A y \in T : Min(T) =< y
<1> DEFINE R == {ss \in Nat \X Nat : ss[1] < ss[2]}
<1>1. IsWellFoundedOn(R, Nat)
  BY NatLessThanWellFounded DEF OpToRel
<1>2. PICK x \in T : \A y \in T : <<y, x>> \notin R
  BY <1>1, WFMin
<1>3. \A y \in T : x =< y
  <2> TAKE y \in T
  <2>1. <<y, x>> \notin R
    BY <1>2
  <2>2. x \in Nat /\ y \in Nat
    OBVIOUS
  <2> QED BY <2>1, <2>2
<1> QED BY <1>3 DEF Min

\* The greatest number of a set, as FoldLeft chooses it.
LEMMA GreatestElement ==
  ASSUME NEW n \in Nat, NEW T, T \subseteq 0..n, T # {}
  PROVE  Max(T) \in T /\ \A y \in T : y =< Max(T)
<1> DEFINE U == {u \in 0..n : n - u \in T}
<1>1. U \subseteq Nat
  OBVIOUS
<1>2. U # {}
  <2>1. PICK t \in T : TRUE
    OBVIOUS
  <2>2. n - t \in U
    BY <2>1
  <2> QED BY <2>2
<1>3. Min(U) \in U /\ \A y \in U : Min(U) =< y
  BY <1>1, <1>2, LeastElement
<1>4. n - Min(U) \in T
  BY <1>3
<1>5. \A y \in T : y =< n - Min(U)
  <2> TAKE y \in T
  <2>1. n - y \in U
    OBVIOUS
  <2>2. Min(U) =< n - y
    BY <1>3, <2>1
  <2> QED BY <1>3, <2>2
<1> QED BY <1>4, <1>5 DEF Max

\* Induction.
LEMMA NatSetInduction ==
  ASSUME NEW S, 0 \in S, \A n \in Nat : n \in S => n + 1 \in S
  PROVE  \A n \in Nat : n \in S
<1> SUFFICES ASSUME NEW k \in Nat, k \notin S PROVE FALSE
  OBVIOUS
<1> DEFINE m == Min(Nat \ S)
<1>1. m \in Nat \ S /\ \A y \in Nat \ S : m =< y
  BY LeastElement
<1> HIDE DEF m
<1>2. m # 0 /\ m - 1 \in Nat
  BY <1>1
<1>3. m - 1 \in S
  BY <1>1, <1>2
<1>4. (m - 1) + 1 \in S
  BY <1>2, <1>3
<1> QED BY <1>1, <1>4

-----------------------------------------------------------------------------
(* FlattenSeq.                                                             *)

\* f gives what the first elements of s are together.
Flattens(s, f) == \A i \in 1..Len(s) : f[i] = IF i = 1 THEN s[i] ELSE f[i - 1] \o s[i]

LEMMA FlattenExists ==
  ASSUME NEW B, NEW s \in Seq(Seq(B))
  PROVE  \E f : f = [i \in 1..Len(s) |-> IF i = 1 THEN s[i] ELSE f[i - 1] \o s[i]]
<1> DEFINE Good(n, f) == \A i \in 1..n : f[i] = IF i = 1 THEN s[i] ELSE f[i - 1] \o s[i]
           S == {n \in Nat : n =< Len(s) => \E f \in [1..n -> Seq(B)] : Good(n, f)}
<1>1. 0 \in S
  <2>1. << >> \in [1..0 -> Seq(B)] /\ Good(0, << >>)
    OBVIOUS
  <2> HIDE DEF Good
  <2> QED BY <2>1
<1>2. ASSUME NEW n \in Nat, n \in S PROVE n + 1 \in S
  <2> SUFFICES ASSUME n + 1 =< Len(s) PROVE \E f \in [1..(n + 1) -> Seq(B)] : Good(n + 1, f)
    <3> HIDE DEF Good
    <3> QED OBVIOUS
  <2>1. PICK f \in [1..n -> Seq(B)] : Good(n, f)
    <3> HIDE DEF Good
    <3> QED BY <1>2, LenProperties
  <2> DEFINE e == IF n = 0 THEN s[1] ELSE f[n] \o s[n + 1]
             g == [i \in 1..(n + 1) |-> IF i = n + 1 THEN e ELSE f[i]]
  <2>2. s[n + 1] \in Seq(B)
    BY ElementOfSeq
  <2>3. e \in Seq(B)
    BY <2>1, <2>2
  <2> HIDE DEF e
  <2>4. g \in [1..(n + 1) -> Seq(B)]
    BY <2>3
  <2>5. ASSUME NEW i \in 1..(n + 1) PROVE g[i] = IF i = 1 THEN s[i] ELSE g[i - 1] \o s[i]
    <3>1. CASE i = n + 1
      BY <3>1 DEF e
    <3>2. CASE i # n + 1
      <4>1. i \in 1..n /\ g[i] = f[i] /\ (i # 1 => g[i - 1] = f[i - 1])
        BY <3>2
      <4> QED BY <2>1, <4>1
    <3> QED BY <3>1, <3>2
  <2> HIDE DEF g
  <2> QED BY <2>4, <2>5
<1>3. Len(s) \in S
  <2> HIDE DEF S
  <2> QED BY <1>1, <1>2, NatSetInduction, LenProperties
<1>4. PICK f \in [1..Len(s) -> Seq(B)] : Good(Len(s), f)
  BY <1>3
<1>5. f = [i \in 1..Len(s) |-> IF i = 1 THEN s[i] ELSE f[i - 1] \o s[i]]
  BY <1>4
<1> QED BY <1>5

LEMMA FlattenSeqDef ==
  ASSUME NEW B, NEW s \in Seq(Seq(B)), s # << >>
  PROVE  \E f : Flattens(s, f) /\ FlattenSeq(s) = f[Len(s)]
<1> DEFINE f == CHOOSE g : g = [i \in 1..Len(s) |-> IF i = 1 THEN s[i] ELSE g[i - 1] \o s[i]]
<1>1. f = [i \in 1..Len(s) |-> IF i = 1 THEN s[i] ELSE f[i - 1] \o s[i]]
  BY FlattenExists
<1>2. Len(s) # 0
  BY EmptySeq
<1>3. FlattenSeq(s) = f[Len(s)]
  BY <1>2 DEF FlattenSeq
<1> HIDE DEF f
<1> QED BY <1>1, <1>3 DEF Flattens

\* Sequences that begin with the same elements are flattened alike so far.
LEMMA FlattensAlike ==
  ASSUME NEW B, NEW s \in Seq(Seq(B)), NEW t \in Seq(Seq(B)), NEW f, NEW g,
         Flattens(s, f), Flattens(t, g),
         NEW m \in Nat, m =< Len(s), m =< Len(t), \A i \in 1..m : s[i] = t[i]
  PROVE  \A i \in 1..m : f[i] = g[i] /\ f[i] \in Seq(B)
<1> DEFINE S == {n \in Nat : n \in 1..m => f[n] = g[n] /\ f[n] \in Seq(B)}
<1>1. 0 \in S
  OBVIOUS
<1>2. ASSUME NEW n \in Nat, n \in S PROVE n + 1 \in S
  <2> SUFFICES ASSUME n + 1 \in 1..m PROVE f[n + 1] = g[n + 1] /\ f[n + 1] \in Seq(B)
    OBVIOUS
  <2>0. n + 1 \in 1..Len(s) /\ n + 1 \in 1..Len(t) /\ (n + 1) - 1 = n
    BY LenProperties
  <2>1. s[n + 1] \in Seq(B) /\ s[n + 1] = t[n + 1]
    BY ElementOfSeq, <2>0
  <2>2. f[n + 1] = IF n + 1 = 1 THEN s[n + 1] ELSE f[n] \o s[n + 1]
    <3>1. f[n + 1] = IF n + 1 = 1 THEN s[n + 1] ELSE f[(n + 1) - 1] \o s[n + 1]
      BY <2>0, Zenon DEF Flattens
    <3> QED BY <2>0, <3>1, Zenon
  <2>3. g[n + 1] = IF n + 1 = 1 THEN t[n + 1] ELSE g[n] \o t[n + 1]
    <3>1. g[n + 1] = IF n + 1 = 1 THEN t[n + 1] ELSE g[(n + 1) - 1] \o t[n + 1]
      BY <2>0, Zenon DEF Flattens
    <3> QED BY <2>0, <3>1, Zenon
  <2>4. n # 0 => f[n] = g[n] /\ f[n] \in Seq(B)
    BY <1>2
  <2> QED BY <2>1, <2>2, <2>3, <2>4
<1>3. \A n \in Nat : n \in S
  <2> HIDE DEF S
  <2> QED BY <1>1, <1>2, NatSetInduction
<1> QED BY <1>3

\* What FlattenSeq is: a sequence, and one more element goes behind it.
LEMMA FlattenSeqType ==
  ASSUME NEW B, NEW s \in Seq(Seq(B))
  PROVE  FlattenSeq(s) \in Seq(B)
<1>1. CASE s = << >>
  BY <1>1, EmptySeq DEF FlattenSeq
<1>2. CASE s # << >>
  <2>1. PICK f : Flattens(s, f) /\ FlattenSeq(s) = f[Len(s)]
    BY <1>2, FlattenSeqDef
  <2>2. Len(s) \in Nat /\ Len(s) # 0
    BY <1>2, EmptySeq, LenProperties
  <2>3. \A i \in 1..Len(s) : f[i] = f[i] /\ f[i] \in Seq(B)
    BY <2>1, <2>2, FlattensAlike
  <2> QED BY <2>1, <2>2, <2>3
<1> QED BY <1>1, <1>2

LEMMA FlattenSeqAppend ==
  ASSUME NEW B, NEW s \in Seq(Seq(B)), NEW e \in Seq(B)
  PROVE  FlattenSeq(Append(s, e)) = FlattenSeq(s) \o e
<1> DEFINE t == Append(s, e)
           n == Len(s)
<1>1. t \in Seq(Seq(B)) /\ Len(t) = n + 1 /\ t # << >> /\ n \in Nat /\ t[n + 1] = e
  BY AppendProperties, LenProperties
<1>2. \A i \in 1..n : s[i] = t[i]
  BY AppendProperties
<1> HIDE DEF t, n
<1>3. PICK g : Flattens(t, g) /\ FlattenSeq(t) = g[n + 1]
  BY <1>1, FlattenSeqDef
<1>4. g[n + 1] = IF n + 1 = 1 THEN e ELSE g[n] \o e
  BY <1>1, <1>3 DEF Flattens
<1>5. CASE s = << >>
  <2>1. n = 0 /\ FlattenSeq(s) = << >>
    BY <1>5, EmptySeq DEF FlattenSeq, n
  <2> QED BY <1>3, <1>4, <2>1, ConcatEmptySeq DEF t
<1>6. CASE s # << >>
  <2>1. PICK f : Flattens(s, f) /\ FlattenSeq(s) = f[n]
    BY <1>6, FlattenSeqDef DEF n
  <2>2. n # 0
    BY <1>6, EmptySeq DEF n
  <2>3. n =< Len(s) /\ n =< Len(t)
    BY <1>1 DEF n
  <2>4. \A i \in 1..n : f[i] = g[i] /\ f[i] \in Seq(B)
    <3>1. t \in Seq(Seq(B)) /\ Flattens(t, g) /\ Flattens(s, f) /\ n \in Nat
      BY <1>1, <1>3, <2>1
    <3> QED BY ONLY s \in Seq(Seq(B)), <1>2, <2>3, <3>1, FlattensAlike
  <2>5. g[n + 1] = FlattenSeq(s) \o e
    <3>1. n \in 1..n /\ n + 1 # 1
      BY <1>1, <2>2
    <3>2. f[n] = g[n]
      BY <2>4, <3>1
    <3> QED BY <1>4, <2>1, <3>1, <3>2, Zenon
  <2> QED BY <1>3, <2>5 DEF t
<1> QED BY <1>5, <1>6

\* Two sequences of lines, one behind the other.
LEMMA FlattenSeqConcat ==
  ASSUME NEW B, NEW s \in Seq(Seq(B)), NEW t \in Seq(Seq(B))
  PROVE  FlattenSeq(s \o t) = FlattenSeq(s) \o FlattenSeq(t)
<1> DEFINE S == {n \in Nat : \A u \in Seq(Seq(B)) :
                   Len(u) = n => FlattenSeq(s \o u) = FlattenSeq(s) \o FlattenSeq(u)}
<1>1. 0 \in S
  <2> SUFFICES ASSUME NEW u \in Seq(Seq(B)), Len(u) = 0
               PROVE  FlattenSeq(s \o u) = FlattenSeq(s) \o FlattenSeq(u)
    OBVIOUS
  <2>1. u = << >>
    BY EmptySeq
  <2>2. FlattenSeq(u) = << >> /\ s \o u = s
    BY <2>1, ConcatEmptySeq DEF FlattenSeq
  <2> QED BY <2>2, FlattenSeqType, ConcatEmptySeq
<1>2. ASSUME NEW n \in Nat, n \in S PROVE n + 1 \in S
  <2> SUFFICES ASSUME NEW u \in Seq(Seq(B)), Len(u) = n + 1
               PROVE  FlattenSeq(s \o u) = FlattenSeq(s) \o FlattenSeq(u)
    OBVIOUS
  <2>1. PICK v \in Seq(Seq(B)), e \in Seq(B) : u = Append(v, e)
    <3>1. u # << >>
      BY EmptySeq
    <3> QED BY <3>1, SequenceEmptyOrAppend
  <2>2. Len(v) = n
    BY <2>1, AppendProperties, LenProperties
  <2>3. FlattenSeq(s \o v) = FlattenSeq(s) \o FlattenSeq(v)
    BY <1>2, <2>2
  <2>4. s \o v \in Seq(Seq(B)) /\ s \o u = Append(s \o v, e)
    BY <2>1
  <2>5. FlattenSeq(s \o u) = (FlattenSeq(s) \o FlattenSeq(v)) \o e
    BY <2>3, <2>4, FlattenSeqAppend
  <2>6. FlattenSeq(u) = FlattenSeq(v) \o e
    BY <2>1, FlattenSeqAppend
  <2>7. FlattenSeq(s) \in Seq(B) /\ FlattenSeq(v) \in Seq(B)
    BY FlattenSeqType
  <2>8. (FlattenSeq(s) \o FlattenSeq(v)) \o e = FlattenSeq(s) \o (FlattenSeq(v) \o e)
    <3> DEFINE a == FlattenSeq(s)  b == FlattenSeq(v)
    <3> HIDE DEF a, b
    <3>1. a \in Seq(B) /\ b \in Seq(B) /\ e \in Seq(B)
      BY <2>7 DEF a, b
    <3>2. (a \o b) \o e = a \o (b \o e)
      BY ONLY <3>1, ConcatAssociative, SMTT(60)
    <3> QED BY <3>2 DEF a, b
  <2> QED BY <2>5, <2>6, <2>8
<1>3. Len(t) \in S
  <2> HIDE DEF S
  <2> QED BY <1>1, <1>2, NatSetInduction, LenProperties
<1> QED BY <1>3

\* One more element of a sequence.
LEMMA SubSeqAppend ==
  ASSUME NEW S, NEW s \in Seq(S), NEW k \in 1..Len(s)
  PROVE  /\ SubSeq(s, 1, k - 1) \in Seq(S) /\ s[k] \in S
         /\ SubSeq(s, 1, k) = Append(SubSeq(s, 1, k - 1), s[k])
<1> DEFINE front == SubSeq(s, 1, k - 1)
<1>1. front \in Seq(S) /\ s[k] \in S
  BY SubSeqProperties, ElementOfSeq, LenProperties
<1>2. SubSeq(s, 1, k) = front \o <<s[k]>>
  BY SubSeqRecursiveSecond, LenProperties
<1> HIDE DEF front
<1>3. SubSeq(s, 1, k) = Append(front, s[k])
  BY <1>1, <1>2, AppendIsConcat
<1> QED BY <1>1, <1>3 DEF front

-----------------------------------------------------------------------------
(* Where some elements are in a sequence.                                  *)

Has(q, P) == \E k \in DOMAIN q : q[k] \in P

\* At most one element is in P.
Lone(q, P) == \A k, l \in DOMAIN q : q[k] \in P /\ q[l] \in P => k = l

LEMMA EmptyHas ==
  ASSUME NEW P
  PROVE  ~Has(<< >>, P) /\ Lone(<< >>, P)
BY DEF Has, Lone

LEMMA SingleHas ==
  ASSUME NEW P, NEW x
  PROVE  (Has(<<x>>, P) <=> x \in P) /\ Lone(<<x>>, P)
BY DEF Has, Lone

LEMMA TailHas ==
  ASSUME NEW S, NEW q \in Seq(S), q # << >>, NEW P
  PROVE  /\ Has(Tail(q), P) => Has(q, P)
         /\ Lone(q, P) => Lone(Tail(q), P)
         /\ Lone(q, P) /\ Head(q) \in P => ~Has(Tail(q), P)
         /\ Has(q, P) => Head(q) \in P \/ Has(Tail(q), P)
<1>1. /\ Len(q) \in Nat \ {0} /\ DOMAIN q = 1..Len(q) /\ DOMAIN Tail(q) = 1..Len(q) - 1
      /\ \A k \in 1..Len(q) - 1 : Tail(q)[k] = q[k + 1]
      /\ Head(q) = q[1]
  BY HeadTailProperties, LenProperties, EmptySeq
<1>2. \A k \in 1..Len(q) - 1 : k + 1 \in 1..Len(q) /\ k + 1 # 1
  BY <1>1
<1>3. Has(Tail(q), P) => Has(q, P)
  BY <1>1, <1>2 DEF Has
<1>4. Lone(q, P) => Lone(Tail(q), P)
  <2> SUFFICES ASSUME Lone(q, P), NEW k \in 1..Len(q) - 1, NEW l \in 1..Len(q) - 1,
                      Tail(q)[k] \in P, Tail(q)[l] \in P
               PROVE  k = l
    BY <1>1 DEF Lone
  <2>1. k + 1 = l + 1
    BY <1>1, <1>2 DEF Lone
  <2> QED BY <1>1, <2>1
<1>5. Lone(q, P) /\ Head(q) \in P => ~Has(Tail(q), P)
  <2> SUFFICES ASSUME Lone(q, P), q[1] \in P, NEW k \in 1..Len(q) - 1, Tail(q)[k] \in P
               PROVE  FALSE
    BY <1>1 DEF Has
  <2>1. k + 1 = 1
    BY <1>1, <1>2 DEF Lone
  <2> QED BY <1>2, <2>1
<1>6. Has(q, P) => Head(q) \in P \/ Has(Tail(q), P)
  <2> SUFFICES ASSUME NEW k \in 1..Len(q), q[k] \in P, k # 1 PROVE Has(Tail(q), P)
    BY <1>1 DEF Has
  <2>1. k - 1 \in 1..Len(q) - 1 /\ (k - 1) + 1 = k
    BY <1>1
  <2>2. Tail(q)[k - 1] \in P
    BY <1>1, <2>1
  <2> QED BY <1>1, <2>1, <2>2 DEF Has
<1> QED BY <1>3, <1>4, <1>5, <1>6

LEMMA ConcatHas ==
  ASSUME NEW S, NEW q \in Seq(S), NEW r \in Seq(S), NEW P
  PROVE  /\ Has(q \o r, P) <=> Has(q, P) \/ Has(r, P)
         /\ Lone(q, P) /\ Lone(r, P) /\ ~(Has(q, P) /\ Has(r, P)) => Lone(q \o r, P)
         /\ Lone(q \o r, P) => Lone(q, P) /\ Lone(r, P) /\ ~(Has(q, P) /\ Has(r, P))
<1> DEFINE t == q \o r
           m == Len(q)
           n == Len(r)
<1>1. /\ m \in Nat /\ n \in Nat /\ DOMAIN q = 1..m /\ DOMAIN r = 1..n
      /\ t \in Seq(S) /\ DOMAIN t = 1..(m + n)
  BY ConcatProperties, LenProperties
<1>2. \A k \in 1..(m + n) : t[k] = IF k <= m THEN q[k] ELSE r[k - m]
  BY ConcatProperties
<1> HIDE DEF t, m, n
<1>3. \A k \in 1..m : k \in 1..(m + n) /\ t[k] = q[k]
  BY <1>1, <1>2
<1>4. ASSUME NEW k \in 1..n PROVE k + m \in 1..(m + n) /\ t[k + m] = r[k]
  <2>1. k + m \in 1..(m + n) /\ ~(k + m <= m) /\ (k + m) - m = k
    BY <1>1
  <2> QED BY <1>2, <2>1
<1>5. ASSUME NEW k \in 1..(m + n)
      PROVE  (k \in 1..m /\ t[k] = q[k]) \/ (k - m \in 1..n /\ t[k] = r[k - m])
  BY <1>1, <1>2
<1>6. Has(t, P) <=> Has(q, P) \/ Has(r, P)
  <2>1. Has(t, P) => Has(q, P) \/ Has(r, P)
    BY <1>1, <1>5 DEF Has
  <2>2. Has(q, P) => Has(t, P)
    BY <1>1, <1>3 DEF Has
  <2>3. Has(r, P) => Has(t, P)
    BY <1>1, <1>4 DEF Has
  <2> QED BY <2>1, <2>2, <2>3
<1>7. ASSUME Lone(q, P), Lone(r, P), ~(Has(q, P) /\ Has(r, P)) PROVE Lone(t, P)
  <2> SUFFICES ASSUME NEW k \in 1..(m + n), NEW l \in 1..(m + n), t[k] \in P, t[l] \in P
               PROVE  k = l
    BY <1>1 DEF Lone
  <2>1. CASE k \in 1..m /\ l \in 1..m
    BY <1>1, <1>3, <1>7, <2>1 DEF Lone
  <2>2. CASE k - m \in 1..n /\ l - m \in 1..n
    <3>1. ~(k <= m) /\ ~(l <= m)
      BY <1>1, <2>2
    <3>2. r[k - m] \in P /\ r[l - m] \in P
      BY <1>2, <3>1
    <3>3. k - m = l - m
      BY <1>1, <1>7, <2>2, <3>2 DEF Lone
    <3> QED BY <1>1, <3>3
  <2>3. CASE k \in 1..m /\ l - m \in 1..n
    <3>1. q[k] \in P /\ r[l - m] \in P
      BY <1>1, <1>2, <2>3
    <3> QED BY <1>1, <1>7, <2>3, <3>1 DEF Has
  <2>4. CASE k - m \in 1..n /\ l \in 1..m
    <3>1. q[l] \in P /\ r[k - m] \in P
      BY <1>1, <1>2, <2>4
    <3> QED BY <1>1, <1>7, <2>4, <3>1 DEF Has
  <2> QED BY <1>5, <2>1, <2>2, <2>3, <2>4
<1>8. ASSUME Lone(t, P) PROVE Lone(q, P) /\ Lone(r, P) /\ ~(Has(q, P) /\ Has(r, P))
  <2>1. Lone(q, P)
    BY <1>1, <1>3, <1>8 DEF Lone
  <2>2. Lone(r, P)
    <3> SUFFICES ASSUME NEW k \in 1..n, NEW l \in 1..n, r[k] \in P, r[l] \in P PROVE k = l
      BY <1>1 DEF Lone
    <3>1. k + m = l + m
      BY <1>1, <1>4, <1>8 DEF Lone
    <3> QED BY <1>1, <3>1
  <2>3. ~(Has(q, P) /\ Has(r, P))
    <3> SUFFICES ASSUME NEW k \in 1..m, NEW l \in 1..n, q[k] \in P, r[l] \in P PROVE FALSE
      BY <1>1 DEF Has
    <3>1. k = l + m
      BY <1>1, <1>3, <1>4, <1>8 DEF Lone
    <3> QED BY <1>1, <3>1
  <2> QED BY <2>1, <2>2, <2>3
<1> QED BY <1>6, <1>7, <1>8 DEF t

\* Without its element at i.
LEMMA RemoveAtHas ==
  ASSUME NEW S, NEW q \in Seq(S), NEW i \in 1..Len(q), NEW P
  PROVE  /\ RemoveAt(q, i) \in Seq(S)
         /\ Has(RemoveAt(q, i), P) => Has(q, P)
         /\ Lone(q, P) => Lone(RemoveAt(q, i), P)
         /\ Lone(q, P) /\ q[i] \in P => ~Has(RemoveAt(q, i), P)
<1> DEFINE front == SubSeq(q, 1, i - 1)
           upto  == SubSeq(q, 1, i)
           back  == SubSeq(q, i + 1, Len(q))
<1>1. front \in Seq(S) /\ q[i] \in S /\ upto = Append(front, q[i])
  BY SubSeqAppend
<1>2. back \in Seq(S)
  BY SubSeqProperties, LenProperties, ElementOfSeq
<1>3. q = upto \o back
  <2>1. SubSeq(q, 1, Len(q)) = q /\ Len(q) \in Nat
    BY SubSeqFull, LenProperties
  <2> DEFINE n == Len(q)
  <2>2. n \in Nat /\ i \in 1..n /\ 1 \in 1..i + 1 /\ n \in i..n /\ n \in Int
    BY <2>1
  <2>3. SubSeq(q, 1, n) = SubSeq(q, 1, i) \o SubSeq(q, i + 1, n)
    BY <2>2, ConcatAdjacentSubSeq
  <2> QED BY <2>1, <2>3
<1>4. RemoveAt(q, i) = front \o back
  BY DEF RemoveAt
<1> HIDE DEF front, upto, back
<1>5. upto = front \o <<q[i]>> /\ <<q[i]>> \in Seq(S) /\ upto \in Seq(S)
  BY <1>1, AppendIsConcat, ConcatProperties
<1>6. /\ Has(upto, P) <=> Has(front, P) \/ Has(<<q[i]>>, P)
      /\ Lone(upto, P) => Lone(front, P) /\ ~(Has(front, P) /\ Has(<<q[i]>>, P))
  <2> DEFINE e == <<q[i]>>
  <2>1. e \in Seq(S) /\ upto = front \o e
    BY <1>5
  <2> HIDE DEF e
  <2>2. /\ Has(front \o e, P) <=> Has(front, P) \/ Has(e, P)
        /\ Lone(front \o e, P) => Lone(front, P) /\ ~(Has(front, P) /\ Has(e, P))
    BY <1>1, <2>1, ConcatHas
  <2> QED BY <2>1, <2>2 DEF e
<1>7. Has(<<q[i]>>, P) <=> q[i] \in P
  BY SingleHas
<1>8. /\ Has(q, P) <=> Has(upto, P) \/ Has(back, P)
      /\ Lone(q, P) => Lone(upto, P) /\ Lone(back, P) /\ ~(Has(upto, P) /\ Has(back, P))
  BY <1>2, <1>3, <1>5, ConcatHas
<1>9. /\ Has(front \o back, P) <=> Has(front, P) \/ Has(back, P)
      /\ Lone(front, P) /\ Lone(back, P) /\ ~(Has(front, P) /\ Has(back, P)) => Lone(front \o back, P)
  BY <1>1, <1>2, ConcatHas
<1>10. front \o back \in Seq(S)
  BY <1>1, <1>2, ConcatProperties
<1> QED BY <1>4, <1>6, <1>7, <1>8, <1>9, <1>10

\* What is in one of the sequences, and once if it is once in one of them.
LEMMA FlattenHas ==
  ASSUME NEW B, NEW s \in Seq(Seq(B)), NEW P
  PROVE  /\ Has(FlattenSeq(s), P) <=> \E i \in DOMAIN s : Has(s[i], P)
         /\ /\ \A i \in DOMAIN s : Lone(s[i], P)
            /\ \A i, k \in DOMAIN s : Has(s[i], P) /\ Has(s[k], P) => i = k
            => Lone(FlattenSeq(s), P)
<1> DEFINE N == Len(s)
           pre(n) == SubSeq(s, 1, n)
           Apart == /\ \A i \in 1..N : Lone(s[i], P)
                    /\ \A i, k \in 1..N : Has(s[i], P) /\ Has(s[k], P) => i = k
           Good(n) == /\ Has(FlattenSeq(pre(n)), P) <=> \E i \in 1..n : Has(s[i], P)
                      /\ Apart => Lone(FlattenSeq(pre(n)), P)
           T == {n \in Nat : n <= N => Good(n)}
<1>1. N \in Nat /\ DOMAIN s = 1..N /\ \A i \in 1..N : s[i] \in Seq(B)
  BY LenProperties, ElementOfSeq
<1>2. 0 \in T
  <2>1. FlattenSeq(pre(0)) = << >>
    BY SubSeqEmpty DEF FlattenSeq
  <2>2. Good(0)
    BY <2>1, EmptyHas
  <2> HIDE DEF Good
  <2> QED BY <2>2
<1>3. ASSUME NEW n \in Nat, n \in T PROVE n + 1 \in T
  <2> SUFFICES ASSUME n + 1 <= N PROVE Good(n + 1)
    OBVIOUS
  <2>1. Good(n) /\ n + 1 \in 1..N
    BY <1>1, <1>3
  <2>2. /\ pre(n) \in Seq(Seq(B)) /\ s[n + 1] \in Seq(B)
        /\ pre(n + 1) = Append(pre(n), s[n + 1])
    <3> DEFINE C == Seq(B)
               m == n + 1
    <3>1. s \in Seq(C) /\ m \in 1..Len(s) /\ m - 1 = n
      BY <2>1
    <3> HIDE DEF C, m
    <3>2. /\ SubSeq(s, 1, m - 1) \in Seq(C) /\ s[m] \in C
          /\ SubSeq(s, 1, m) = Append(SubSeq(s, 1, m - 1), s[m])
      BY <3>1, SubSeqAppend
    <3> QED BY <3>1, <3>2 DEF C, m
  <2> DEFINE a == FlattenSeq(pre(n))
             b == s[n + 1]
  <2>3. a \in Seq(B) /\ FlattenSeq(pre(n + 1)) = a \o b
    BY <2>2, FlattenSeqType, FlattenSeqAppend
  <2>4. /\ Has(a, P) <=> \E i \in 1..n : Has(s[i], P)
        /\ Apart => Lone(a, P)
    BY <2>1
  <2>5. Apart => Lone(b, P)
    BY <2>1
  <2>6. Apart => ~(Has(a, P) /\ Has(b, P))
    <3> SUFFICES ASSUME Apart, NEW i \in 1..n, Has(s[i], P), Has(b, P) PROVE FALSE
      BY <2>4
    <3>1. i \in 1..N /\ i # n + 1
      BY <1>1, <2>1
    <3> QED BY <2>1, <3>1
  <2> HIDE DEF pre, Apart, a
  <2>7. /\ Has(a \o b, P) <=> Has(a, P) \/ Has(b, P)
        /\ Lone(a, P) /\ Lone(b, P) /\ ~(Has(a, P) /\ Has(b, P)) => Lone(a \o b, P)
    BY <2>2, <2>3, ConcatHas
  <2>8. Has(a \o b, P) <=> \E i \in 1..n + 1 : Has(s[i], P)
    <3>1. \A i : i \in 1..n + 1 <=> i \in 1..n \/ i = n + 1
      OBVIOUS
    <3> QED BY <2>4, <2>7, <3>1
  <2>9. Apart => Lone(a \o b, P)
    BY <2>4, <2>5, <2>6, <2>7
  <2> QED BY <2>3, <2>8, <2>9
<1>4. Good(N)
  <2> HIDE DEF Good
  <2>1. N \in T
    <3> HIDE DEF T, N
    <3> QED BY <1>1, <1>2, <1>3, NatSetInduction
  <2> QED BY <1>1, <2>1
<1>5. pre(N) = s
  <2> DEFINE C == Seq(B)
  <2>1. s \in Seq(C)
    OBVIOUS
  <2> HIDE DEF C
  <2> QED BY <2>1, SubSeqFull
<1> QED BY <1>1, <1>4, <1>5
=============================================================================
