--------------------------- MODULE SequenceFacts ----------------------------
(***************************************************************************)
(* Facts about numbers and about operators of the community modules        *)
(* that the proofs of several components rest on.  Induction is by the     *)
(* least counterexample: LeastNat gives it, and the recursive equation of  *)
(* what is computed refutes it.                                            *)
(***************************************************************************)
EXTENDS Integers, Sequences, SequencesExt, FiniteSetsExt,
        WellFoundedInduction, SequenceTheorems, TLAPS

(* Numbers. *)

\* A non-empty set of naturals has a least element.
LEMMA LeastNat ==
  ASSUME NEW T, T \subseteq Nat, T # {}
  PROVE  \E x \in T : \A y \in T : x <= y
<1>1. PICK x \in T : \A y \in T : ~(<<y, x>> \in OpToRel(<, Nat))
  BY NatLessThanWellFounded, WFMin
<1>2. \A y \in T : ~(y < x)
  BY <1>1 DEF OpToRel
<1> QED
  BY <1>2

\* Min of the library is that element.
LEMMA MinIsLeast ==
  ASSUME NEW T, T \subseteq Nat, T # {}
  PROVE  Min(T) \in T /\ \A y \in T : Min(T) <= y
<1>1. PICK x \in T : \A y \in T : x <= y
  BY LeastNat
<1> QED
  BY <1>1 DEF Min

\* The least element of a set of positions.
LEMMA MinOfSet ==
  ASSUME NEW T, T \subseteq Nat, NEW x \in T, \A y \in T : x <= y
  PROVE  Min(T) = x
<1>1. Min(T) \in T /\ \A y \in T : Min(T) =< y
  BY DEF Min
<1>2. Min(T) <= x /\ x <= Min(T) /\ Min(T) \in Nat /\ x \in Nat
  BY <1>1
<1> QED
  BY <1>2

\* The larger of two numbers.
LEMMA MaxOfTwo ==
  ASSUME NEW a \in Nat, NEW b \in Nat
  PROVE  Max({a, b}) \in Nat /\ a <= Max({a, b}) /\ b <= Max({a, b})
<1>1. \E x \in {a, b} : \A y \in {a, b} : x >= y
  <2>1. CASE a >= b
    BY <2>1
  <2>2. CASE b >= a
    BY <2>2
  <2> QED
    BY <2>1, <2>2
<1>2. Max({a, b}) \in {a, b} /\ \A y \in {a, b} : Max({a, b}) >= y
  BY <1>1 DEF Max
<1> QED
  BY <1>2

\* The smaller of two numbers.
LEMMA MinOfTwo ==
  ASSUME NEW a \in Nat, NEW b \in Nat
  PROVE  Min({a, b}) \in {a, b} /\ Min({a, b}) <= a /\ Min({a, b}) <= b
<1>1. \E x \in {a, b} : \A y \in {a, b} : x =< y
  <2>1. CASE a <= b
    BY <2>1
  <2>2. CASE b <= a
    BY <2>2
  <2> QED
    BY <2>1, <2>2
<1>2. Min({a, b}) \in {a, b} /\ \A y \in {a, b} : Min({a, b}) =< y
  BY <1>1 DEF Min
<1> QED
  BY <1>2

\* Induction up to n, on a set.
LEMMA InductionUpTo ==
  ASSUME NEW n \in Nat, NEW T, 0 \in T, \A k \in 1..n : k - 1 \in T => k \in T
  PROVE  \A k \in 0..n : k \in T
<1> DEFINE Bad == {k \in 0..n : k \notin T}
<1> SUFFICES ASSUME Bad # {} PROVE FALSE
  OBVIOUS
<1>1. PICK x \in Bad : \A y \in Bad : x <= y
  <2>1. Bad \subseteq Nat
    OBVIOUS
  <2> HIDE DEF Bad
  <2> QED
    BY <2>1, LeastNat
<1>2. x \in 1..n /\ x - 1 \in 0..n /\ x - 1 < x
  BY <1>1
<1>3. x - 1 \notin Bad
  BY <1>1, <1>2
<1> QED
  BY <1>1, <1>2, <1>3

\* f starts at a and goes on as the function H says.
IsRecursion(f, a, H, n) == f[0] = a /\ \A k \in 1..n : f[k] = H[<<k, f[k - 1]>>]
StepFunctions(V, n) == [(1..n) \X V -> V]

\* A recursion over 0..n, its step given as a function, has a result.
LEMMA Recursion ==
  ASSUME NEW V, NEW a \in V, NEW n \in Nat, NEW H \in StepFunctions(V, n)
  PROVE  \E f \in [0..n -> V] : IsRecursion(f, a, H, n)
<1>0. H \in [(1..n) \X V -> V]
  BY DEF StepFunctions
<1> DEFINE Has(m) == \E f \in [0..m -> V] : f[0] = a /\ \A k \in 1..m : f[k] = H[<<k, f[k - 1]>>]
           T == {m \in 0..n : Has(m)}
<1>1. 0 \in T
  <2>1. [k \in 0..0 |-> a] \in [0..0 -> V] /\ [k \in 0..0 |-> a][0] = a /\ 1..0 = {}
    OBVIOUS
  <2>2. Has(0)
    BY <2>1
  <2> QED
    BY <2>2
<1>2. ASSUME NEW m \in 1..n, m - 1 \in T
      PROVE  m \in T
  <2>1. PICK f \in [0..(m - 1) -> V] : f[0] = a /\ \A k \in 1..(m - 1) : f[k] = H[<<k, f[k - 1]>>]
    BY <1>2
  <2> DEFINE g == [k \in 0..m |-> IF k = m THEN H[<<m, f[m - 1]>>] ELSE f[k]]
  <2>2. f[m - 1] \in V /\ \A k \in 0..m : k # m => k \in 0..(m - 1)
    OBVIOUS
  <2>3. g \in [0..m -> V]
    <3>1. H[<<m, f[m - 1]>>] \in V
      BY <1>0, <2>2
    <3>2. \A k \in 0..m : k # m => f[k] \in V
      BY <2>2
    <3> QED
      BY <3>1, <3>2
  <2>4. g[0] = a
    BY <2>1
  <2>5. ASSUME NEW k \in 1..m
        PROVE  g[k] = H[<<k, g[k - 1]>>]
    <3>1. k - 1 \in 0..m /\ k - 1 # m /\ k \in 0..m
      OBVIOUS
    <3>2. g[k - 1] = f[k - 1]
      BY <3>1
    <3>3. CASE k = m
      <4>1. g[m] = H[<<m, f[m - 1]>>]
        OBVIOUS
      <4> HIDE DEF g
      <4> QED
        BY <3>2, <3>3, <4>1
    <3>4. CASE k # m
      <4>1. k \in 1..(m - 1)
        BY <3>4
      <4>2. g[k] = f[k]
        BY <3>1, <3>4
      <4> QED
        BY <2>1, <3>2, <4>1, <4>2
    <3> QED
      BY <3>3, <3>4
  <2> HIDE DEF g
  <2> QED
    BY <2>3, <2>4, <2>5
<1>3. n \in T
  <2> HIDE DEF T
  <2>1. \A k \in 0..n : k \in T
    BY <1>1, <1>2, InductionUpTo
  <2> QED
    BY <2>1
<1> QED
  BY <1>3 DEF IsRecursion

-----------------------------------------------------------------------------
(* Sequences of the library: RemoveAt and FlattenSeq. *)

\* What RemoveAt does to a sequence.
LEMMA RemoveFacts ==
  ASSUME NEW S, NEW s \in Seq(S), NEW i \in 1..Len(s)
  PROVE  LET r == RemoveAt(s, i)
         IN  /\ r \in Seq(S) /\ Len(r) = Len(s) - 1
             /\ \A j \in 1..(Len(s) - 1) : r[j] = IF j < i THEN s[j] ELSE s[j + 1]
<1> DEFINE a == SubSeq(s, 1, i - 1)
           b == SubSeq(s, i + 1, Len(s))
<1>1. /\ a \in Seq(S) /\ Len(a) = i - 1
      /\ \A j \in 1..(i - 1) : a[j] = s[j]
  BY SubSeqProperties
<1>2. /\ b \in Seq(S) /\ Len(b) = Len(s) - i
      /\ \A j \in 1..(Len(s) - i) : b[j] = s[i + j]
  BY SubSeqProperties
<1> HIDE DEF a, b
<1>3. /\ a \o b \in Seq(S)
      /\ Len(a \o b) = Len(a) + Len(b)
      /\ \A j \in 1 .. Len(a) + Len(b) : (a \o b)[j] =
                     IF j <= Len(a) THEN a[j] ELSE b[j - Len(a)]
  BY <1>1, <1>2, ConcatProperties
<1>4. RemoveAt(s, i) = a \o b
  BY DEF RemoveAt, a, b
<1>5. Len(s) \in Nat /\ i \in Int /\ Len(a) + Len(b) = Len(s) - 1
  BY <1>1, <1>2
<1>6. ASSUME NEW j \in 1..(Len(s) - 1)
      PROVE  (a \o b)[j] = IF j < i THEN s[j] ELSE s[j + 1]
  <2>1. (a \o b)[j] = IF j <= i - 1 THEN a[j] ELSE b[j - (i - 1)]
    BY <1>1, <1>3, <1>5
  <2>2. CASE j < i
    BY <1>1, <1>5, <2>1, <2>2
  <2>3. CASE j >= i
    <3> DEFINE m == j - (i - 1)
    <3>1. m \in 1..(Len(s) - i) /\ i + m = j + 1 /\ ~(j <= i - 1) /\ ~(j < i)
      BY <1>5, <2>3
    <3>2. (a \o b)[j] = b[m]
      BY <2>1, <3>1
    <3> HIDE DEF m
    <3>3. b[m] = s[i + m]
      BY <1>2, <3>1
    <3> QED
      BY <3>1, <3>2, <3>3
  <2> QED
    BY <1>5, <2>2, <2>3
<1> QED
  BY <1>3, <1>4, <1>5, <1>6

\* f[i] is the concatenation of the first i elements of s.
IsFlatten(f, s, n) == f = [i \in 1..n |-> IF i = 1 THEN s[i] ELSE f[i - 1] \o s[i]]

\* The recursive definition defines something.
LEMMA FlattenExists ==
  ASSUME NEW s, NEW n \in Nat
  PROVE  \E f : IsFlatten(f, s, n)
<1> DEFINE Bad == {m \in Nat : ~ \E f : IsFlatten(f, s, m)}
<1> SUFFICES ASSUME Bad # {} PROVE FALSE
  OBVIOUS
<1>1. PICK x \in Bad : \A y \in Bad : x <= y
  <2>1. Bad \subseteq Nat
    OBVIOUS
  <2> HIDE DEF Bad
  <2> QED
    BY <2>1, LeastNat
<1>2. CASE x = 0
  <2>1. 1..0 = {}
    OBVIOUS
  <2>2. IsFlatten([i \in 1..0 |-> s], s, 0)
    BY <2>1 DEF IsFlatten
  <2> QED
    BY <1>2, <2>2
<1>3. CASE x # 0
  <2>1. x - 1 \in Nat /\ x - 1 \notin Bad /\ x \in Nat
    BY <1>1, <1>3
  <2>2. PICK f : IsFlatten(f, s, x - 1)
    BY <2>1
  <2> DEFINE last == IF x = 1 THEN s[x] ELSE f[x - 1] \o s[x]
             g == [i \in 1..x |-> IF i = x THEN last ELSE f[i]]
  <2>3. \A i \in 1..(x - 1) : f[i] = IF i = 1 THEN s[i] ELSE f[i - 1] \o s[i]
    BY <2>2 DEF IsFlatten
  <2>4. ASSUME NEW i \in 1..x
        PROVE  g[i] = IF i = 1 THEN s[i] ELSE g[i - 1] \o s[i]
    <3>1. CASE i = x /\ i = 1
      BY <3>1
    <3>2. CASE i = x /\ i # 1
      <4>1. i - 1 \in 1..x /\ i - 1 # x
        BY <2>1, <3>2
      <4>2. g[i - 1] = f[i - 1]
        BY <4>1
      <4> QED
        BY <3>2, <4>2
    <3>3. CASE i # x /\ i = 1
      <4>1. i \in 1..(x - 1)
        BY <2>1, <3>3
      <4> QED
        BY <2>3, <3>3, <4>1
    <3>4. CASE i # x /\ i # 1
      <4>1. i \in 1..(x - 1) /\ i - 1 \in 1..x /\ i - 1 # x
        BY <2>1, <3>4
      <4>2. g[i] = f[i] /\ g[i - 1] = f[i - 1]
        BY <3>4, <4>1
      <4>3. f[i] = f[i - 1] \o s[i]
        BY <2>3, <3>4, <4>1
      <4> QED
        BY <3>4, <4>2, <4>3
    <3> QED
      BY <3>1, <3>2, <3>3, <3>4
  <2>5. g = [i \in 1..x |-> g[i]]
    OBVIOUS
  <2> HIDE DEF g
  <2>6. IsFlatten(g, s, x)
    BY <2>4, <2>5 DEF IsFlatten
  <2> QED
    BY <1>1, <2>6
<1> QED
  BY <1>2, <1>3

AgreeUpTo(s, t, n) == \A i \in 1..n : s[i] = t[i]

\* Only the elements up to a position matter to the concatenation up to it.
LEMMA FlattenAgrees ==
  ASSUME NEW s, NEW t, NEW n \in Nat, NEW m \in Nat, n <= m, NEW f, NEW g,
         IsFlatten(f, s, n), IsFlatten(g, t, m), AgreeUpTo(s, t, n)
  PROVE  AgreeUpTo(f, g, n)
<1> DEFINE Bad == {i \in 1..n : f[i] # g[i]}
<1> SUFFICES ASSUME Bad # {} PROVE FALSE
  BY DEF AgreeUpTo
<1>1. PICK x \in Bad : \A y \in Bad : x <= y
  <2>1. Bad \subseteq Nat
    OBVIOUS
  <2> HIDE DEF Bad
  <2> QED
    BY <2>1, LeastNat
<1>2. \A i \in 1..n : f[i] = IF i = 1 THEN s[i] ELSE f[i - 1] \o s[i]
  BY DEF IsFlatten
<1>3. \A i \in 1..m : g[i] = IF i = 1 THEN t[i] ELSE g[i - 1] \o t[i]
  BY DEF IsFlatten
<1>4. x \in 1..n /\ x \in 1..m /\ f[x] # g[x]
  BY <1>1
<1>5. x # 1
  BY <1>2, <1>3, <1>4 DEF AgreeUpTo
<1>6. x - 1 \in 1..n /\ x - 1 \notin Bad
  BY <1>1, <1>4, <1>5
<1>7. f[x - 1] = g[x - 1]
  BY <1>6
<1> QED
  BY <1>2, <1>3, <1>4, <1>5, <1>7 DEF AgreeUpTo

\* The concatenation of sequences is a sequence.
LEMMA FlattenSeqs ==
  ASSUME NEW S, NEW s, NEW n \in Nat, NEW f, IsFlatten(f, s, n), \A i \in 1..n : s[i] \in Seq(S)
  PROVE  \A i \in 1..n : f[i] \in Seq(S)
<1> DEFINE Bad == {i \in 1..n : f[i] \notin Seq(S)}
<1> SUFFICES ASSUME Bad # {} PROVE FALSE
  OBVIOUS
<1>1. PICK x \in Bad : \A y \in Bad : x <= y
  <2>1. Bad \subseteq Nat
    OBVIOUS
  <2> HIDE DEF Bad
  <2> QED
    BY <2>1, LeastNat
<1>2. \A i \in 1..n : f[i] = IF i = 1 THEN s[i] ELSE f[i - 1] \o s[i]
  BY DEF IsFlatten
<1>4. x \in 1..n /\ f[x] \notin Seq(S) /\ s[x] \in Seq(S)
  BY <1>1
<1>5. x # 1
  BY <1>2, <1>4
<1>6. x - 1 \in 1..n /\ x - 1 \notin Bad
  BY <1>1, <1>4, <1>5
<1>7. f[x - 1] \in Seq(S)
  BY <1>6
<1>8. f[x - 1] \o s[x] \in Seq(S)
  BY <1>4, <1>7, ConcatProperties
<1> QED
  BY <1>2, <1>4, <1>5, <1>8

\* FlattenSeq by its own equations.
LEMMA FlattenIs ==
  ASSUME NEW s, Len(s) \in Nat, Len(s) # 0
  PROVE  \E f : IsFlatten(f, s, Len(s)) /\ FlattenSeq(s) = f[Len(s)]
<1> DEFINE f == CHOOSE h : IsFlatten(h, s, Len(s))
<1>1. IsFlatten(f, s, Len(s))
  BY FlattenExists
<1>2. FlattenSeq(s) = f[Len(s)]
  BY DEF FlattenSeq, IsFlatten
<1> QED
  BY <1>1, <1>2

\* The type of a flattened sequence; without elements nothing comes out.
LEMMA FlattenType ==
  ASSUME NEW S, NEW s \in Seq(Seq(S))
  PROVE  /\ FlattenSeq(s) \in Seq(S)
         /\ Len(s) = 0 => FlattenSeq(s) = <<>>
<1>1. Len(s) \in Nat /\ \A i \in 1..Len(s) : s[i] \in Seq(S)
  BY LenProperties, ElementOfSeq
<1>2. CASE Len(s) = 0
  <2>1. s = <<>>
    BY <1>2, EmptySeq
  <2>2. FlattenSeq(s) = <<>>
    BY <1>2, <2>1 DEF FlattenSeq
  <2> QED
    BY <2>2
<1>3. CASE Len(s) # 0
  <2>1. PICK f : IsFlatten(f, s, Len(s)) /\ FlattenSeq(s) = f[Len(s)]
    BY <1>1, <1>3, FlattenIs
  <2>2. \A i \in 1..Len(s) : f[i] \in Seq(S)
    BY <1>1, <2>1, FlattenSeqs
  <2>3. Len(s) \in 1..Len(s)
    BY <1>1, <1>3
  <2> QED
    BY <1>3, <2>1, <2>2, <2>3
<1> QED
  BY <1>2, <1>3

\* One more element is concatenated at the end.
LEMMA FlattenNext ==
  ASSUME NEW S, NEW s \in Seq(Seq(S)), NEW t \in Seq(Seq(S)), NEW n \in Nat,
         Len(s) = n, Len(t) = n + 1, \A i \in 1..n : t[i] = s[i]
  PROVE  FlattenSeq(t) = FlattenSeq(s) \o t[n + 1]
<1>1. t[n + 1] \in Seq(S)
  BY ElementOfSeq
<1>2. PICK g : IsFlatten(g, t, n + 1) /\ FlattenSeq(t) = g[n + 1]
  BY FlattenIs
<1>3. \A i \in 1..(n + 1) : g[i] = IF i = 1 THEN t[i] ELSE g[i - 1] \o t[i]
  BY <1>2 DEF IsFlatten
<1>4. CASE n = 0
  <2>1. FlattenSeq(t) = t[n + 1]
    BY <1>2, <1>3, <1>4
  <2>2. FlattenSeq(s) = <<>>
    BY <1>4, FlattenType
  <2> QED
    BY <1>1, <2>1, <2>2, ConcatEmptySeq
<1>5. CASE n # 0
  <2>1. PICK f : IsFlatten(f, s, n) /\ FlattenSeq(s) = f[n]
    BY <1>5, FlattenIs
  <2>2. AgreeUpTo(f, g, n)
    <3> DEFINE m == n + 1
    <3>1. m \in Nat /\ n <= m /\ AgreeUpTo(s, t, n)
      BY DEF AgreeUpTo
    <3>2. IsFlatten(g, t, m) /\ IsFlatten(f, s, n)
      BY <1>2, <2>1
    <3> HIDE DEF m
    <3> QED
      BY <3>1, <3>2, FlattenAgrees
  <2>3. n \in 1..n /\ n + 1 \in 1..(n + 1) /\ n + 1 # 1 /\ (n + 1) - 1 = n
    BY <1>5
  <2>4. g[n + 1] = g[n] \o t[n + 1]
    BY <1>3, <2>3
  <2>5. f[n] = g[n]
    BY <2>2, <2>3 DEF AgreeUpTo
  <2> QED
    BY <1>2, <2>1, <2>4, <2>5
<1> QED
  BY <1>4, <1>5

\* A first element and the others.
LEMMA FirstAndRest ==
  ASSUME NEW S, NEW s \in Seq(S), s # <<>>
  PROVE  s[1] \in S /\ Tail(s) \in Seq(S) /\ s = <<s[1]>> \o Tail(s)
<1> DEFINE k == Len(s)
<1>1. k \in Nat /\ k # 0
  BY EmptySeq
<1>2. s[1] \in S /\ Tail(s) \in Seq(S) /\ Len(Tail(s)) = k - 1
  BY <1>1, ElementOfSeq, HeadTailProperties
<1>3. \A i \in 1..(k - 1) : Tail(s)[i] = s[i + 1]
  BY HeadTailProperties
<1>4. PICK t \in Seq(S) : t = Tail(s)
  BY <1>2
<1>5. PICK e \in S : e = s[1]
  BY <1>2
<1>6. /\ <<e>> \o t \in Seq(S) /\ Len(<<e>> \o t) = k /\ (<<e>> \o t)[1] = e
      /\ \A i \in 1..(k - 1) : (<<e>> \o t)[1 + i] = t[i]
  <2>1. Len(t) = k - 1
    BY <1>2, <1>4
  <2> QED
    BY <1>1, <2>1
<1>7. ASSUME NEW i \in 1..k
      PROVE  s[i] = (<<e>> \o t)[i]
  <2>1. CASE i = 1
    BY <1>5, <1>6, <2>1
  <2>2. CASE i # 1
    <3>1. i - 1 \in 1..(k - 1) /\ 1 + (i - 1) = i /\ (i - 1) + 1 = i
      BY <1>1, <2>2
    <3> QED
      BY <1>3, <1>4, <1>6, <3>1
  <2> QED
    BY <2>1, <2>2
<1>8. s = <<e>> \o t
  BY <1>6, <1>7, SeqEqual
<1> QED
  BY <1>2, <1>4, <1>5, <1>8
=============================================================================
