--------------------------- MODULE SequenceLemmas ---------------------------
(***************************************************************************)
(* Facts about numbers and sequences that the proofs of several modules    *)
(* rest on: least and greatest elements, the parts of a sequence, and the  *)
(* elements selected from one (Selections).                                *)
(***************************************************************************)
EXTENDS
  Naturals, Selections, FiniteSetTheorems, WellFoundedInduction, SequenceTheorems,
  TLAPS

\* A set of numbers up to n has a least one: of the numbers below each of them,
\* those below it are the fewest.
LEMMA LeastNumber ==
  ASSUME NEW n \in Nat, NEW T \in SUBSET (1..n), T # {}
  PROVE  \E x \in T : \A y \in T : x <= y
<1> DEFINE Below(i) == {j \in 1..n : j < i}
           F == {Below(i) : i \in T}
<1>1. F \subseteq FiniteSubsetsOf(1..n) /\ F # {}
  <2>1. IsFiniteSet(1..n)
    BY FS_Interval
  <2>2. \A i \in T : IsFiniteSet(Below(i)) /\ Below(i) \subseteq 1..n
    BY <2>1, FS_Subset
  <2> QED BY <2>2 DEF FiniteSubsetsOf
<1>2. PICK A \in F : \A B \in F : ~(<<B, A>> \in StrictSubsetOrdering(1..n))
  BY <1>1, FS_StrictSubsetOrderingWellFounded, WFMin
<1>3. PICK x \in T : A = Below(x)
  OBVIOUS
<1>4. ASSUME NEW y \in T, y < x PROVE FALSE
  <2>1. Below(y) \subseteq Below(x) /\ y \in Below(x) /\ y \notin Below(y)
    BY <1>4
  <2>2. Below(y) \in F /\ A \in F /\ Below(y) \in SUBSET (1..n) /\ A \in SUBSET (1..n)
    BY <1>2, <1>3
  <2> DEFINE B == Below(y)
  <2>3. B \subseteq A /\ B # A /\ B \in F
    BY <1>3, <2>1, <2>2
  <2> HIDE DEF Below, F, B
  <2>4. ~(<<B, A>> \in StrictSubsetOrdering(1..n))
    BY <1>2, <2>3
  <2> QED BY <2>2, <2>3, <2>4 DEF StrictSubsetOrdering, B
<1>5. \A y \in T : x <= y
  BY <1>4
<1> QED BY <1>5

\* And a greatest one, likewise.
LEMMA GreatestNumber ==
  ASSUME NEW n \in Nat, NEW T \in SUBSET (1..n), T # {}
  PROVE  \E x \in T : \A y \in T : y <= x
<1> DEFINE Above(i) == {j \in 1..n : i < j}
           F == {Above(i) : i \in T}
<1>1. F \subseteq FiniteSubsetsOf(1..n) /\ F # {}
  <2>1. IsFiniteSet(1..n)
    BY FS_Interval
  <2>2. \A i \in T : IsFiniteSet(Above(i)) /\ Above(i) \subseteq 1..n
    BY <2>1, FS_Subset
  <2> QED BY <2>2 DEF FiniteSubsetsOf
<1>2. PICK A \in F : \A B \in F : ~(<<B, A>> \in StrictSubsetOrdering(1..n))
  BY <1>1, FS_StrictSubsetOrderingWellFounded, WFMin
<1>3. PICK x \in T : A = Above(x)
  OBVIOUS
<1>4. ASSUME NEW y \in T, x < y PROVE FALSE
  <2>1. Above(y) \subseteq Above(x) /\ y \in Above(x) /\ y \notin Above(y)
    BY <1>4
  <2>2. Above(y) \in F /\ A \in F /\ Above(y) \in SUBSET (1..n) /\ A \in SUBSET (1..n)
    BY <1>2, <1>3
  <2> DEFINE B == Above(y)
  <2>3. B \subseteq A /\ B # A /\ B \in F
    BY <1>3, <2>1, <2>2
  <2> HIDE DEF Above, F, B
  <2>4. ~(<<B, A>> \in StrictSubsetOrdering(1..n))
    BY <1>2, <2>3
  <2> QED BY <2>2, <2>3, <2>4 DEF StrictSubsetOrdering, B
<1>5. \A y \in T : y <= x
  BY <1>4
<1> QED BY <1>5

\* Any set of numbers has a least one.
LEMMA LeastOfAny ==
  ASSUME NEW T \in SUBSET Nat, T # {}
  PROVE  \E x \in T : \A y \in T : x <= y
<1>1. PICK n \in T : TRUE
  OBVIOUS
<1> DEFINE U == {i \in 1..(n + 1) : i - 1 \in T}
<1>2. n \in Nat /\ n + 1 \in Nat /\ n + 1 - 1 = n /\ \A y \in T : y \in Nat
  OBVIOUS
<1>3. n + 1 \in U
  BY <1>1, <1>2
<1>4. U \in SUBSET (1..(n + 1))
  OBVIOUS
<1>5. PICK u \in U : \A v \in U : u <= v
  <2> HIDE DEF U
  <2> QED BY <1>2, <1>3, <1>4, LeastNumber
<1>6. u - 1 \in T /\ u \in 1..(n + 1)
  BY <1>5
<1>7. ASSUME NEW y \in T PROVE u - 1 <= y
  <2>1. CASE y <= n
    <3>1. y + 1 \in 1..(n + 1) /\ y + 1 - 1 = y
      BY <1>2, <2>1
    <3>2. y + 1 \in U
      BY <3>1
    <3>3. u <= y + 1
      BY <1>5, <3>2
    <3> QED BY <1>2, <1>6, <3>3
  <2>2. CASE n < y
    BY <1>2, <1>6, <2>2
  <2> QED BY <1>2, <2>1, <2>2
<1> QED BY <1>6, <1>7

\* A function on the numbers may be given by its first value and a step.
StepIn(S, F) == F \in [Nat \X S -> S]
Iterates(S, s, F, f) ==
  f \in [Nat -> S] /\ f[0] = s /\ \A n \in Nat : f[n + 1] = F[<<n, f[n]>>]

LEMMA Recursion ==
  ASSUME NEW S, NEW s, NEW F, s \in S, StepIn(S, F)
  PROVE  \E f : Iterates(S, s, F, f)
<1>0. F \in [Nat \X S -> S]
  BY DEF StepIn
<1> DEFINE Begun(n, g) ==
             /\ g \in [0..n -> S]
             /\ g[0] = s
             /\ \A i \in 0..(n - 1) : g[i + 1] = F[<<i, g[i]>>]
           Bad == {n \in Nat : ~ \E g : Begun(n, g)}
<1>1. Bad = {}
  <2> SUFFICES ASSUME Bad # {} PROVE FALSE
    OBVIOUS
  <2>1. PICK b \in Bad : \A n \in Bad : b <= n
    <3>1. Bad \in SUBSET Nat
      OBVIOUS
    <3> HIDE DEF Bad
    <3> QED BY <3>1, LeastOfAny
  <2>2. Begun(0, [i \in 0..0 |-> s])
    OBVIOUS
  <2>3. b \in Nat /\ b # 0
    BY <2>1, <2>2
  <2>4. b - 1 \in Nat /\ b - 1 \notin Bad
    BY <2>1, <2>3
  <2>5. PICK g : Begun(b - 1, g)
    BY <2>4
  <2> DEFINE h == [i \in 0..b |-> IF i = b THEN F[<<b - 1, g[b - 1]>>] ELSE g[i]]
  <2>6. \A i \in 0..b : i = b \/ i \in 0..(b - 1)
    BY <2>3
  <2>7. g[b - 1] \in S /\ F[<<b - 1, g[b - 1]>>] \in S /\ \A i \in 0..(b - 1) : g[i] \in S
    <3>1. g \in [0..(b - 1) -> S] /\ b - 1 \in 0..(b - 1)
      BY <2>4, <2>5
    <3> QED BY <1>0, <2>4, <3>1
  <2>8. h \in [0..b -> S] /\ h[0] = s
    <3>1. h \in [0..b -> S]
      <4> HIDE DEF Begun
      <4> QED BY <2>6, <2>7
    <3>2. 0 \in 0..b /\ g[0] = s
      BY <2>3, <2>5
    <3> QED BY <2>3, <3>1, <3>2
  <2>9. ASSUME NEW i \in 0..(b - 1) PROVE h[i + 1] = F[<<i, h[i]>>]
    <3>1. i \in 0..b /\ i + 1 \in 0..b /\ h[i] = g[i]
      BY <2>3
    <3>2. CASE i = b - 1
      BY <2>3, <3>1, <3>2
    <3>3. CASE i # b - 1
      <4>1. i \in 0..(b - 1 - 1) /\ i + 1 # b
        BY <2>3, <3>3
      <4>2. g[i + 1] = F[<<i, g[i]>>]
        BY <2>5, <4>1
      <4> QED BY <3>1, <4>1, <4>2
    <3> QED BY <3>2, <3>3
  <2> HIDE DEF h
  <2>10. Begun(b, h)
    BY <2>8, <2>9
  <2> QED BY <2>1, <2>10
<1>2. ASSUME NEW n \in Nat, NEW m \in Nat, n <= m, NEW g, Begun(n, g), NEW h, Begun(m, h)
      PROVE  g[n] = h[n]
  <2> DEFINE D == {i \in 0..n : g[i] # h[i]}
  <2> SUFFICES ASSUME D # {} PROVE FALSE
    BY <1>2
  <2>1. PICK d \in D : \A i \in D : d <= i
    <3>1. D \in SUBSET Nat
      OBVIOUS
    <3> HIDE DEF D
    <3> QED BY <3>1, LeastOfAny
  <2>2. d \in 1..n
    BY <1>2, <2>1
  <2>3. d - 1 \in 0..(n - 1) /\ d - 1 \in 0..(m - 1) /\ d - 1 \in 0..n /\ d - 1 \notin D /\ d - 1 + 1 = d
    BY <1>2, <2>1, <2>2
  <2>4. g[d] = F[<<d - 1, g[d - 1]>>] /\ h[d] = F[<<d - 1, h[d - 1]>>]
    BY <1>2, <2>3
  <2> QED BY <2>1, <2>3, <2>4
<1> DEFINE G(n) == CHOOSE g : Begun(n, g)
           f == [n \in Nat |-> G(n)[n]]
<1>3. \A n \in Nat : Begun(n, G(n))
  <2> HIDE DEF Begun
  <2> QED BY <1>1
<1> HIDE DEF G
<1>4. \A n \in Nat : f[n] \in S /\ f[n] = G(n)[n]
  BY <1>3
<1>5. f \in [Nat -> S] /\ f[0] = s
  BY <1>3, <1>4
<1>6. ASSUME NEW n \in Nat PROVE f[n + 1] = F[<<n, f[n]>>]
  <2>1. n + 1 \in Nat /\ n <= n + 1 /\ n \in 0..(n + 1 - 1)
    OBVIOUS
  <2>2. G(n)[n] = G(n + 1)[n]
    <3> HIDE DEF Begun
    <3> QED BY <1>2, <1>3, <2>1
  <2>3. G(n + 1)[n + 1] = F[<<n, G(n + 1)[n]>>]
    BY <1>3, <2>1
  <2> QED BY <1>4, <2>1, <2>2, <2>3
<1> HIDE DEF f
<1> QED BY <1>5, <1>6 DEF Iterates

\* A part of a sequence.
LEMMA Parts ==
  ASSUME NEW S, NEW s \in Seq(S), NEW n \in 1..Len(s)
  PROVE  /\ SubSeq(s, 1, n) \in Seq(S) /\ Len(SubSeq(s, 1, n)) = n
         /\ \A k \in 1..n : SubSeq(s, 1, n)[k] = s[k]
         /\ SubSeq(s, n + 1, Len(s)) \in Seq(S)
         /\ Len(SubSeq(s, n + 1, Len(s))) = Len(s) - n
         /\ \A k \in 1..(Len(s) - n) : SubSeq(s, n + 1, Len(s))[k] = s[n + k]
<1> DEFINE l == Len(s)
<1>1. l \in Nat /\ n \in Int /\ 1 \in Int /\ n + 1 \in Int /\ l \in Int
      /\ \A k \in 1..l : s[k] \in S
  OBVIOUS
<1>2. (\A k \in 1..n : s[k] \in S) /\ (\A k \in (n + 1)..l : s[k] \in S)
  BY <1>1
<1> HIDE DEF l
<1>3. /\ SubSeq(s, 1, n) \in Seq(S)
      /\ Len(SubSeq(s, 1, n)) = IF 1 <= n THEN n - 1 + 1 ELSE 0
      /\ \A k \in 1..(n - 1 + 1) : SubSeq(s, 1, n)[k] = s[1 + k - 1]
  BY <1>1, <1>2, SubSeqProperties
<1> DEFINE m == n + 1
<1>4. m \in Int /\ \A k \in m..l : s[k] \in S
  BY <1>1, <1>2
<1> HIDE DEF m
<1>5. /\ SubSeq(s, m, l) \in Seq(S)
      /\ Len(SubSeq(s, m, l)) = IF m <= l THEN l - m + 1 ELSE 0
      /\ \A k \in 1..(l - m + 1) : SubSeq(s, m, l)[k] = s[m + k - 1]
  BY <1>1, <1>4, SubSeqProperties
<1>6. /\ Len(SubSeq(s, 1, n)) = n
      /\ \A k \in 1..n : SubSeq(s, 1, n)[k] = s[k]
  BY <1>3
<1>7. /\ Len(SubSeq(s, m, l)) = l - n
      /\ \A k \in 1..(l - n) : SubSeq(s, m, l)[k] = s[n + k]
  <2>1. n <= l /\ l - m + 1 = l - n
    BY <1>1 DEF m, l
  <2>2. Len(SubSeq(s, m, l)) = l - n
    BY <1>1, <1>5, <2>1 DEF m
  <2>3. ASSUME NEW k \in 1..(l - n) PROVE SubSeq(s, m, l)[k] = s[n + k]
    <3>1. m + k - 1 = n + k
      BY <1>1, <2>3 DEF m
    <3> QED BY <1>5, <2>1, <3>1
  <2> QED BY <2>2, <2>3
<1> QED BY <1>3, <1>5, <1>6, <1>7 DEF m, l

\* What one or both of two pieces are cut into, and put together to.
LEMMA TwoPieces ==
  ASSUME NEW a, NEW b
  PROVE  /\ <<a>> \o <<b>> = <<a, b>>
         /\ SubSeq(<<a>>, 1, 1) = <<a>> /\ SubSeq(<<a, b>>, 1, 1) = <<a>>
         /\ SubSeq(<<a, b>>, 2, 2) = <<b>> /\ SubSeq(<<a, b>>, 1, 2) = <<a, b>>
         /\ SubSeq(<<a>>, 2, 1) = <<>> /\ SubSeq(<<a, b>>, 3, 2) = <<>>
<1> DEFINE S == {a, b}
<1>1. <<a>> \in Seq(S) /\ <<b>> \in Seq(S) /\ <<a, b>> \in Seq(S)
  OBVIOUS
<1>2. \A s, t \in Seq(S) : Len(s) = Len(t) /\ (\A i \in 1..Len(s) : s[i] = t[i]) => s = t
  BY SeqEqual
<1>3. \A s : \A m, n \in 1..2 : (\A i \in m..n : s[i] \in S) =>
        /\ SubSeq(s, m, n) \in Seq(S)
        /\ Len(SubSeq(s, m, n)) = IF m <= n THEN n - m + 1 ELSE 0
        /\ \A i \in 1..(n - m + 1) : SubSeq(s, m, n)[i] = s[m + i - 1]
  BY SubSeqProperties
<1>4. /\ <<a>> \o <<b>> \in Seq(S) /\ Len(<<a>> \o <<b>>) = 2
      /\ (<<a>> \o <<b>>)[1] = a /\ (<<a>> \o <<b>>)[2] = b
  <2> DEFINE s == <<a>> 
             t == <<b>>
  <2>1. s \in Seq(S) /\ t \in Seq(S) /\ Len(s) = 1 /\ Len(t) = 1 /\ s[1] = a /\ t[1] = b
    BY <1>1
  <2> HIDE DEF s, t, S
  <2>2. s \o t \in Seq(S) /\ Len(s \o t) = 2 /\ (s \o t)[1] = s[1] /\ (s \o t)[2] = t[1]
    BY <2>1, ConcatProperties
  <2> QED BY <2>1, <2>2 DEF s, t
<1>5. <<a>> \o <<b>> = <<a, b>>
  <2> DEFINE s == <<a>> \o <<b>>
             t == <<a, b>>
  <2>1. t \in Seq(S) /\ Len(t) = 2 /\ t[1] = a /\ t[2] = b
    BY <1>1
  <2>2. s \in Seq(S) /\ Len(s) = 2 /\ s[1] = a /\ s[2] = b
    BY <1>4
  <2> HIDE DEF s, t, S
  <2>3. s = t
    BY <1>2, <2>1, <2>2
  <2> QED BY <2>3 DEF s, t
<1>6. ASSUME NEW s \in Seq(S), NEW m \in 1..2, NEW n \in 1..2, m <= n, n <= Len(s),
             NEW t \in Seq(S), Len(t) = n - m + 1,
             \A i \in 1..(n - m + 1) : t[i] = s[m + i - 1]
      PROVE  SubSeq(s, m, n) = t
  <2>1. \A i \in m..n : s[i] \in S
    BY <1>6
  <2>2. /\ SubSeq(s, m, n) \in Seq(S)
        /\ Len(SubSeq(s, m, n)) = n - m + 1
        /\ \A i \in 1..(n - m + 1) : SubSeq(s, m, n)[i] = s[m + i - 1]
    BY <1>3, <1>6, <2>1
  <2> DEFINE u == SubSeq(s, m, n)
  <2> HIDE DEF u, S
  <2>3. u = t
    BY <1>2, <1>6, <2>2 DEF u
  <2> QED BY <2>3 DEF u
<1>7. SubSeq(<<a>>, 1, 1) = <<a>>
  <2> DEFINE s == <<a>>
             t == <<a>>
  <2>1. s \in Seq(S) /\ Len(s) = 1 /\ t \in Seq(S) /\ Len(t) = 1 /\ t[1] = s[1]
    BY <1>1
  <2> HIDE DEF s, t, S
  <2>2. SubSeq(s, 1, 1) = t
    BY <1>6, <2>1
  <2> QED BY <2>2 DEF s, t
<1>8. SubSeq(<<a, b>>, 1, 1) = <<a>>
  <2> DEFINE s == <<a, b>>
             t == <<a>>
  <2>1. s \in Seq(S) /\ Len(s) = 2 /\ t \in Seq(S) /\ Len(t) = 1 /\ t[1] = s[1]
    BY <1>1
  <2> HIDE DEF s, t, S
  <2>2. SubSeq(s, 1, 1) = t
    BY <1>6, <2>1
  <2> QED BY <2>2 DEF s, t
<1>9. SubSeq(<<a, b>>, 2, 2) = <<b>>
  <2> DEFINE s == <<a, b>>
             t == <<b>>
  <2>1. s \in Seq(S) /\ Len(s) = 2 /\ t \in Seq(S) /\ Len(t) = 1 /\ t[1] = s[2]
    BY <1>1
  <2> HIDE DEF s, t, S
  <2>2. SubSeq(s, 2, 2) = t
    BY <1>6, <2>1
  <2> QED BY <2>2 DEF s, t
<1>10. SubSeq(<<a, b>>, 1, 2) = <<a, b>>
  <2> DEFINE s == <<a, b>>
             t == <<a, b>>
  <2>1. s \in Seq(S) /\ Len(s) = 2 /\ t \in Seq(S) /\ Len(t) = 2 /\ t = s
    BY <1>1
  <2> HIDE DEF s, t, S
  <2>2. SubSeq(s, 1, 2) = t
    BY <1>6, <2>1
  <2> QED BY <2>2 DEF s, t
<1>11. SubSeq(<<a>>, 2, 1) = <<>> /\ SubSeq(<<a, b>>, 3, 2) = <<>>
  OBVIOUS
<1> QED BY <1>5, <1>7, <1>8, <1>9, <1>10, <1>11

\* A sequence that is longer by one, one whose last element is replaced, and
\* one that is shorter by it.
LEMMA OneMore ==
  ASSUME NEW S, NEW s \in Seq(S), NEW x \in S
  PROVE  /\ s \o <<x>> \in Seq(S) /\ Len(s \o <<x>>) = Len(s) + 1
         /\ (s \o <<x>>)[Len(s) + 1] = x
         /\ \A k \in 1..Len(s) : (s \o <<x>>)[k] = s[k]
<1> DEFINE o == <<x>>
<1>1. o \in Seq(S) /\ Len(o) = 1 /\ o[1] = x /\ Len(s) \in Nat
  OBVIOUS
<1> HIDE DEF o
<1>2. /\ s \o o \in Seq(S) /\ Len(s \o o) = Len(s) + 1
      /\ \A k \in 1..(Len(s) + 1) : (s \o o)[k] = IF k <= Len(s) THEN s[k] ELSE o[k - Len(s)]
  BY <1>1, ConcatProperties
<1>3. (s \o o)[Len(s) + 1] = x /\ \A k \in 1..Len(s) : (s \o o)[k] = s[k]
  BY <1>1, <1>2
<1> QED BY <1>2, <1>3 DEF o

LEMMA LastReplaced ==
  ASSUME NEW S, NEW s \in Seq(S), s # <<>>, NEW x \in S
  PROVE  LET t == SubSeq(s, 1, Len(s) - 1) \o <<x>>
         IN  /\ t \in Seq(S) /\ Len(t) = Len(s) /\ t[Len(s)] = x
             /\ \A k \in 1..(Len(s) - 1) : t[k] = s[k]
<1> DEFINE f == SubSeq(s, 1, Len(s) - 1)
           l == Len(s)
<1>1. l \in Nat \ {0} /\ \A k \in 1..l : s[k] \in S
  OBVIOUS
<1> HIDE DEF l
<1>2. l - 1 \in Int /\ 1 \in Int /\ \A k \in 1..(l - 1) : s[k] \in S
  BY <1>1
<1> DEFINE m == l - 1
<1>3. m \in Int /\ \A k \in 1..m : s[k] \in S
  BY <1>2
<1> HIDE DEF m
<1>4. /\ SubSeq(s, 1, m) \in Seq(S)
      /\ Len(SubSeq(s, 1, m)) = IF 1 <= m THEN m - 1 + 1 ELSE 0
      /\ \A k \in 1..(m - 1 + 1) : SubSeq(s, 1, m)[k] = s[1 + k - 1]
  BY <1>3, SubSeqProperties
<1>5. f = SubSeq(s, 1, m)
  BY DEF m, l
<1> HIDE DEF f
<1>6. f \in Seq(S) /\ Len(f) = m /\ \A k \in 1..m : f[k] = s[k]
  BY <1>1, <1>3, <1>4, <1>5 DEF m
<1>7. /\ f \o <<x>> \in Seq(S) /\ Len(f \o <<x>>) = m + 1
      /\ (f \o <<x>>)[m + 1] = x /\ \A k \in 1..m : (f \o <<x>>)[k] = f[k]
  BY <1>6, OneMore
<1>8. m + 1 = l
  BY <1>1 DEF m
<1> QED BY <1>6, <1>7, <1>8 DEF f, m, l

LEMMA AllButLast ==
  ASSUME NEW S, NEW s \in Seq(S), s # <<>>
  PROVE  LET t == SubSeq(s, 1, Len(s) - 1)
         IN  /\ t \in Seq(S) /\ Len(t) = Len(s) - 1
             /\ \A k \in 1..(Len(s) - 1) : t[k] = s[k]
<1> DEFINE l == Len(s)
<1>1. l \in Nat \ {0} /\ \A k \in 1..l : s[k] \in S
  OBVIOUS
<1> HIDE DEF l
<1> DEFINE m == l - 1
<1>2. m \in Int /\ \A k \in 1..m : s[k] \in S
  BY <1>1
<1> HIDE DEF m
<1>3. /\ SubSeq(s, 1, m) \in Seq(S)
      /\ Len(SubSeq(s, 1, m)) = IF 1 <= m THEN m - 1 + 1 ELSE 0
      /\ \A k \in 1..(m - 1 + 1) : SubSeq(s, 1, m)[k] = s[1 + k - 1]
  BY <1>2, SubSeqProperties
<1>4. /\ SubSeq(s, 1, m) \in Seq(S) /\ Len(SubSeq(s, 1, m)) = m
      /\ \A k \in 1..m : SubSeq(s, 1, m)[k] = s[k]
  BY <1>1, <1>2, <1>3 DEF m
<1> QED BY <1>4 DEF m, l

-----------------------------------------------------------------------------
(* Parts of sequences (Selections).                                        *)

\* The m numbers at[1] < at[2] < ... are those of P.
Enumerates(at, m, P) ==
  /\ at \in [1..m -> P]
  /\ \A j, k \in 1..m : j < k => at[j] < at[k]
  /\ \A p \in P : \E k \in 1..m : at[k] = p

\* A number above all the others is enumerated last.
LEMMA EnumeratesOneMore ==
  ASSUME NEW m \in Nat, NEW P \in SUBSET Nat, NEW at, Enumerates(at, m, P),
         NEW n \in Nat, \A p \in P : p < n
  PROVE  Enumerates([k \in 1..(m + 1) |-> IF k = m + 1 THEN n ELSE at[k]],
                    m + 1, P \cup {n})
<1> DEFINE new == [k \in 1..(m + 1) |-> IF k = m + 1 THEN n ELSE at[k]]
<1>1. at \in [1..m -> P]
  BY DEF Enumerates
<1>2. \A k \in 1..(m + 1) : k = m + 1 \/ k \in 1..m
  OBVIOUS
<1>3. new \in [1..(m + 1) -> P \cup {n}]
  BY <1>1, <1>2
<1>4. (\A k \in 1..m : new[k] = at[k]) /\ new[m + 1] = n
  OBVIOUS
<1>5. ASSUME NEW j \in 1..(m + 1), NEW k \in 1..(m + 1), j < k PROVE new[j] < new[k]
  <2>1. j \in 1..m
    BY <1>5
  <2>2. CASE k = m + 1
    <3>1. at[j] \in P
      BY <1>1, <2>1
    <3> QED BY <1>4, <2>1, <2>2, <3>1
  <2>3. CASE k \in 1..m
    BY <1>4, <1>5, <2>1, <2>3 DEF Enumerates
  <2> QED BY <1>2, <2>2, <2>3
<1>6. ASSUME NEW p \in P \cup {n} PROVE \E k \in 1..(m + 1) : new[k] = p
  <2>1. CASE p = n
    BY <1>4, <2>1
  <2>2. CASE p \in P
    <3>1. PICK k \in 1..m : at[k] = p
      BY <2>2 DEF Enumerates
    <3> QED BY <1>4, <3>1
  <2> QED BY <2>1, <2>2
<1> HIDE DEF new
<1>7. Enumerates(new, m + 1, P \cup {n})
  BY <1>3, <1>5, <1>6 DEF Enumerates
<1> QED BY <1>7 DEF new

\* Every set of numbers up to n can be enumerated: if not, take the least n.
LEMMA EnumerationExists ==
  ASSUME NEW n \in Nat, NEW P \in SUBSET (1..n)
  PROVE  \E m \in Nat : \E at : Enumerates(at, m, P)
<1> DEFINE Can(Q) == \E m \in Nat : \E at : Enumerates(at, m, Q)
           Bad == {l \in 1..n : \E Q \in SUBSET (1..l) : ~Can(Q)}
<1>1. \A Q \in SUBSET (1..0) : Can(Q)
  <2>1. Enumerates([k \in 1..0 |-> 0], 0, {})
    BY DEF Enumerates
  <2>2. Can({})
    BY <2>1
  <2> HIDE DEF Can
  <2>3. \A Q \in SUBSET (1..0) : Q = {}
    BY 1..0 = {}
  <2> QED BY <2>2, <2>3
<1>2. CASE Bad = {}
  <2>1. CASE n = 0
    BY <1>1, <2>1
  <2>2. CASE n # 0
    <3>1. n \in 1..n
      BY <2>2
    <3>2. \A Q \in SUBSET (1..n) : Can(Q)
      BY <1>2, <3>1
    <3> QED BY <3>2
  <2> QED BY <2>1, <2>2
<1>3. CASE Bad # {}
  <2> HIDE DEF Can
  <2>1. PICK l \in Bad : \A i \in Bad : l <= i
    <3>1. Bad \in SUBSET (1..n)
      OBVIOUS
    <3> HIDE DEF Bad
    <3> QED BY <1>3, <3>1, LeastNumber
  <2>2. PICK Q \in SUBSET (1..l) : ~Can(Q)
    BY <2>1
  <2>3. l \in 1..n /\ l - 1 \in Nat /\ l - 1 \notin Bad
    BY <2>1
  <2>4. \A R \in SUBSET (1..(l - 1)) : Can(R)
    <3>1. CASE l = 1
      <4>1. 1..(l - 1) = {} /\ 1..0 = {}
        BY <3>1
      <4> QED BY <1>1, <4>1
    <3>2. CASE l # 1
      <4>1. l - 1 \in 1..n
        BY <2>3, <3>2
      <4> QED BY <2>3, <4>1
    <3> QED BY <3>1, <3>2
  <2>5. Q \ {l} \in SUBSET (1..(l - 1))
    BY <2>3
  <2>6. PICK m \in Nat : \E at : Enumerates(at, m, Q \ {l})
    BY <2>4, <2>5 DEF Can
  <2>7. PICK at : Enumerates(at, m, Q \ {l})
    BY <2>6
  <2>8. l \in Q
    <3> SUFFICES ASSUME l \notin Q PROVE FALSE
      OBVIOUS
    <3>1. Q \ {l} = Q
      OBVIOUS
    <3> QED BY <2>2, <2>4, <2>5, <3>1
  <2>9. /\ Q \ {l} \in SUBSET Nat /\ l \in Nat
        /\ \A p \in Q \ {l} : p < l
    BY <2>3
  <2>10. \E new : Enumerates(new, m + 1, (Q \ {l}) \cup {l})
    BY <2>7, <2>9, EnumeratesOneMore
  <2>11. (Q \ {l}) \cup {l} = Q /\ m + 1 \in Nat
    BY <2>8
  <2> QED BY <2>2, <2>10, <2>11 DEF Can
<1> QED BY <1>2, <1>3

\* As far as two enumerations of a set go, they are the same: at the first
\* difference, the lower number has no place in the other one.
LEMMA EnumerationsAgree ==
  ASSUME NEW P \in SUBSET Nat, NEW m \in Nat, NEW l \in Nat, m <= l, NEW a, NEW b,
         Enumerates(a, m, P), Enumerates(b, l, P)
  PROVE  \A k \in 1..m : a[k] = b[k]
<1> DEFINE Bad == {k \in 1..m : a[k] # b[k]}
<1> SUFFICES ASSUME Bad # {} PROVE FALSE
  OBVIOUS
<1>1. PICK k \in Bad : \A i \in Bad : k <= i
  <2>1. Bad \in SUBSET (1..m)
    OBVIOUS
  <2> HIDE DEF Bad
  <2> QED BY <2>1, LeastNumber
<1>2. /\ k \in 1..m /\ k \in 1..l /\ a[k] # b[k]
      /\ \A i \in 1..m : i < k => a[i] = b[i]
  BY <1>1
<1>3. /\ a \in [1..m -> P] /\ b \in [1..l -> P] /\ a[k] \in Nat /\ b[k] \in Nat
      /\ \A i \in 1..m : a[i] \in Nat
      /\ \A i \in 1..l : b[i] \in Nat
  BY <1>2 DEF Enumerates
<1>4. CASE a[k] < b[k]
  <2>1. PICK i \in 1..l : b[i] = a[k]
    BY <1>2, <1>3 DEF Enumerates
  <2>2. i < k
    <3> SUFFICES ASSUME k <= i PROVE FALSE
      BY <1>2
    <3>1. k = i \/ b[k] < b[i]
      BY <1>2 DEF Enumerates
    <3> QED BY <1>3, <1>4, <2>1, <3>1
  <2>3. i \in 1..m /\ a[i] = a[k]
    BY <1>2, <2>1, <2>2
  <2>4. a[i] < a[k]
    BY <1>2, <2>2, <2>3 DEF Enumerates
  <2> QED BY <1>3, <2>3, <2>4
<1>5. CASE b[k] < a[k]
  <2>1. PICK i \in 1..m : a[i] = b[k]
    BY <1>2, <1>3 DEF Enumerates
  <2>2. i < k
    <3> SUFFICES ASSUME k <= i PROVE FALSE
      BY <1>2
    <3>1. k = i \/ a[k] < a[i]
      BY <1>2 DEF Enumerates
    <3> QED BY <1>3, <1>5, <2>1, <3>1
  <2>3. i \in 1..l /\ b[i] = b[k]
    BY <1>2, <2>1, <2>2
  <2>4. b[i] < b[k]
    BY <1>2, <2>2, <2>3 DEF Enumerates
  <2> QED BY <1>3, <2>3, <2>4
<1> QED BY <1>2, <1>3, <1>4, <1>5

\* An enumeration is as long as its set has elements.
LEMMA EnumerationCounts ==
  ASSUME NEW P \in SUBSET Nat, NEW m \in Nat, NEW at, Enumerates(at, m, P)
  PROVE  IsFiniteSet(P) /\ Cardinality(P) = m
<1>1. at \in [1..m -> P] /\ \A i \in 1..m : at[i] \in Nat
  BY DEF Enumerates
<1>2. \A j, k \in 1..m : at[j] = at[k] => j = k
  <2> SUFFICES ASSUME NEW j \in 1..m, NEW k \in 1..m, j < k PROVE at[j] # at[k]
    OBVIOUS
  <2> QED BY <1>1 DEF Enumerates
<1>3. at \in Bijection(1..m, P)
  BY <1>1, <1>2 DEF Enumerates, Bijection, Injection, IsInjective, Surjection
<1>4. ExistsBijection(1..m, P)
  BY <1>3 DEF ExistsBijection
<1> QED BY <1>4, FS_CountingElements, FS_NatBijection

\* Ascending() enumerates, and is what enumerates.
LEMMA AscendingEnumerates ==
  ASSUME NEW n \in Nat, NEW P \in SUBSET (1..n)
  PROVE  Cardinality(P) \in Nat /\ Enumerates(Ascending(P), Cardinality(P), P)
<1>1. PICK m \in Nat : \E at : Enumerates(at, m, P)
  BY EnumerationExists
<1>2. PICK at : Enumerates(at, m, P)
  BY <1>1
<1> DEFINE c == Cardinality(P)
           A == Ascending(P)
<1>3. P \in SUBSET Nat
  OBVIOUS
<1>4. c = m /\ IsFiniteSet(P) /\ c \in Nat
  BY <1>2, <1>3, EnumerationCounts
<1>5. ASSUME NEW k \in 1..m PROVE Cardinality({q \in P : q < at[k]}) = k - 1
  <2> DEFINE Q == {q \in P : q < at[k]}
             a == [i \in 1..(k - 1) |-> at[i]]
  <2>1. /\ at \in [1..m -> P] /\ \A i \in 1..m : at[i] \in Nat
        /\ \A i, j \in 1..m : i < j => at[i] < at[j]
        /\ \A p \in P : \E i \in 1..m : at[i] = p
    BY <1>2, <1>3 DEF Enumerates
  <2>2. a \in [1..(k - 1) -> Q]
    BY <2>1
  <2>3. \A i, j \in 1..(k - 1) : i < j => a[i] < a[j]
    BY <2>1
  <2>4. ASSUME NEW q \in Q PROVE \E i \in 1..(k - 1) : a[i] = q
    <3>1. PICK i \in 1..m : at[i] = q
      BY <2>1
    <3>2. ~(k < i) /\ i # k
      BY <2>1, <3>1
    <3>3. i \in 1..(k - 1)
      BY <3>2
    <3> QED BY <3>1, <3>3
  <2>5. Q \in SUBSET Nat /\ k - 1 \in Nat
    <3>1. Q \subseteq P
      OBVIOUS
    <3>2. k - 1 \in Nat
      OBVIOUS
    <3> QED BY <1>3, <3>1, <3>2
  <2> HIDE DEF a, Q
  <2>6. Enumerates(a, k - 1, Q)
    BY <2>2, <2>3, <2>4 DEF Enumerates
  <2>7. Cardinality(Q) = k - 1
    BY <2>5, <2>6, EnumerationCounts
  <2> QED BY <2>7 DEF Q
<1> HIDE DEF c
<1>6. ASSUME NEW k \in 1..c PROVE A[k] = at[k]
  <2>1. A[k] = CHOOSE p \in P : Cardinality({q \in P : q < p}) = k - 1
    BY <1>6 DEF Ascending, c
  <2>2. at[k] \in P /\ Cardinality({q \in P : q < at[k]}) = k - 1
    BY <1>2, <1>4, <1>5 DEF Enumerates
  <2>3. ASSUME NEW p \in P, Cardinality({q \in P : q < p}) = k - 1 PROVE p = at[k]
    <3>1. PICK i \in 1..m : at[i] = p
      BY <1>2 DEF Enumerates
    <3>2. i - 1 = k - 1
      BY <1>5, <2>3, <3>1
    <3> QED BY <1>4, <3>1, <3>2
  <2> QED BY <2>1, <2>2, <2>3
<1>7. DOMAIN A = 1..c /\ A = [k \in DOMAIN A |-> A[k]]
  BY DEF Ascending, c
<1>8. A = at
  <2>1. at \in [1..c -> P]
    BY <1>2, <1>4 DEF Enumerates
  <2> HIDE DEF A
  <2> QED BY <1>6, <1>7, <2>1
<1> HIDE DEF A
<1>9. Enumerates(A, c, P)
  BY <1>2, <1>4, <1>8
<1> QED BY <1>4, <1>9 DEF A, c

LEMMA AscendingIs ==
  ASSUME NEW n \in Nat, NEW P \in SUBSET (1..n), NEW m \in Nat, NEW at,
         Enumerates(at, m, P)
  PROVE  Cardinality(P) = m /\ Ascending(P) = at
<1>1. P \in SUBSET Nat
  OBVIOUS
<1>2. Cardinality(P) = m
  BY <1>1, EnumerationCounts
<1>3. Enumerates(Ascending(P), m, P)
  BY <1>2, AscendingEnumerates
<1>4. \A k \in 1..m : Ascending(P)[k] = at[k]
  BY <1>1, <1>3, EnumerationsAgree
<1>5. Ascending(P) \in [1..m -> P] /\ at \in [1..m -> P]
  BY <1>3 DEF Enumerates
<1> QED BY <1>2, <1>4, <1>5

\* What is left of an enumeration without one of its numbers.
LEMMA EnumeratesOneLess ==
  ASSUME NEW m \in Nat, NEW P \in SUBSET Nat, NEW at, Enumerates(at, m, P),
         NEW j \in 1..m
  PROVE  Enumerates([k \in 1..(m - 1) |-> IF k < j THEN at[k] ELSE at[k + 1]],
                    m - 1, P \ {at[j]})
<1> DEFINE new == [k \in 1..(m - 1) |-> IF k < j THEN at[k] ELSE at[k + 1]]
           Up(k) == IF k < j THEN k ELSE k + 1
<1>1. /\ at \in [1..m -> P] /\ \A k \in 1..m : at[k] \in Nat
      /\ \A k, l \in 1..m : k < l => at[k] < at[l]
  BY DEF Enumerates
<1>2. \A k \in 1..(m - 1) : Up(k) \in 1..m /\ Up(k) # j /\ new[k] = at[Up(k)]
  OBVIOUS
<1>3. \A k, l \in 1..(m - 1) : k < l => Up(k) < Up(l)
  OBVIOUS
<1>4. \A k \in 1..m : k # j => \E l \in 1..(m - 1) : Up(l) = k
  <2> SUFFICES ASSUME NEW k \in 1..m, k # j PROVE \E l \in 1..(m - 1) : Up(l) = k
    OBVIOUS
  <2>1. CASE k < j
    BY <2>1
  <2>2. CASE j < k
    <3>1. k - 1 \in 1..(m - 1) /\ Up(k - 1) = k
      BY <2>2
    <3> QED BY <3>1
  <2> QED BY <2>1, <2>2
<1> HIDE DEF Up
<1>5. \A k \in 1..m : k # j => at[k] # at[j]
  <2> SUFFICES ASSUME NEW k \in 1..m, k # j PROVE at[k] # at[j]
    OBVIOUS
  <2>1. k < j \/ j < k
    OBVIOUS
  <2> QED BY <1>1, <2>1
<1>6. \A k \in 1..(m - 1) : new[k] \in P \ {at[j]}
  BY <1>1, <1>2, <1>5
<1>7. new \in [1..(m - 1) -> P \ {at[j]}]
  BY <1>6
<1>8. \A k, l \in 1..(m - 1) : k < l => new[k] < new[l]
  BY <1>1, <1>2, <1>3
<1>9. \A p \in P \ {at[j]} : \E k \in 1..(m - 1) : new[k] = p
  <2> SUFFICES ASSUME NEW p \in P \ {at[j]} PROVE \E k \in 1..(m - 1) : new[k] = p
    OBVIOUS
  <2>1. PICK k \in 1..m : at[k] = p
    BY DEF Enumerates
  <2>2. PICK l \in 1..(m - 1) : Up(l) = k
    BY <1>4, <2>1
  <2> QED BY <1>2, <2>1, <2>2
<1> HIDE DEF new
<1>10. Enumerates(new, m - 1, P \ {at[j]})
  BY <1>7, <1>8, <1>9 DEF Enumerates
<1> QED BY <1>10 DEF new

\* The selection has the elements at the positions, in their order.
LEMMA SelectedElements ==
  ASSUME NEW S, NEW s \in Seq(S), NEW P \in SUBSET (1..Len(s))
  PROVE  /\ Selected(s, P) \in Seq(S)
         /\ Len(Selected(s, P)) = Cardinality(P)
         /\ Cardinality(P) \in Nat
         /\ \A k \in 1..Cardinality(P) :
              Ascending(P)[k] \in P /\ Selected(s, P)[k] = s[Ascending(P)[k]]
         /\ P # {} => Selected(s, P) # <<>>
<1> DEFINE m == Cardinality(P)
           A == Ascending(P)
           T == Selected(s, P)
<1>0. Len(s) \in Nat /\ \A p \in P : s[p] \in S
  OBVIOUS
<1>1. m \in Nat /\ Enumerates(A, m, P)
  BY <1>0, AscendingEnumerates
<1>2. T = [k \in 1..m |-> s[A[k]]]
  BY DEF Selected
<1> HIDE DEF m, A, T
<1>3. \A k \in 1..m : A[k] \in P /\ s[A[k]] \in S
  BY <1>0, <1>1 DEF Enumerates
<1>4. T \in [1..m -> S]
  BY <1>2, <1>3
<1>5. T \in Seq(S) /\ Len(T) = m
  BY <1>1, <1>4
<1>6. ASSUME P # {} PROVE T # <<>>
  <2>1. PICK p \in P : TRUE
    BY <1>6
  <2>2. \E k \in 1..m : A[k] = p
    BY <1>1 DEF Enumerates
  <2> QED BY <1>1, <1>5, <2>2
<1> QED BY <1>1, <1>2, <1>3, <1>5, <1>6 DEF m, A, T

\* A selection depends on the selected elements only.
LEMMA SelectedSame ==
  ASSUME NEW n \in Nat, NEW P \in SUBSET (1..n), NEW s, NEW t,
         \A p \in P : s[p] = t[p]
  PROVE  Selected(s, P) = Selected(t, P)
<1>1. Enumerates(Ascending(P), Cardinality(P), P)
  BY AscendingEnumerates
<1>2. \A k \in 1..Cardinality(P) : Ascending(P)[k] \in P
  BY <1>1 DEF Enumerates
<1> QED BY <1>2 DEF Selected

\* Nothing is selected at no position.
LEMMA SelectedNothing == ASSUME NEW s PROVE Selected(s, {}) = <<>>
<1>1. Cardinality({}) = 0
  BY FS_EmptySet
<1>2. Selected(s, {}) = [k \in 1..0 |-> s[Ascending({})[k]]]
  BY <1>1 DEF Selected
<1>3. 1..0 = {}
  OBVIOUS
<1> QED BY <1>2, <1>3

\* All positions select the sequence.
LEMMA SelectedAll ==
  ASSUME NEW S, NEW s \in Seq(S)
  PROVE  Selected(s, 1..Len(s)) = s
<1> DEFINE n == Len(s)
           A == [k \in 1..n |-> k]
<1>1. n \in Nat /\ s = [k \in 1..n |-> s[k]]
  OBVIOUS
<1> HIDE DEF n
<1>2. Enumerates(A, n, 1..n)
  BY DEF Enumerates
<1>3. 1..n \in SUBSET (1..n)
  OBVIOUS
<1>4. Cardinality(1..n) = n /\ Ascending(1..n) = A
  <2> HIDE DEF A
  <2> QED BY <1>1, <1>2, <1>3, AscendingIs
<1>5. Selected(s, 1..n) = [k \in 1..n |-> s[A[k]]]
  <2> HIDE DEF A
  <2> QED BY <1>4 DEF Selected
<1>6. Selected(s, 1..n) = s
  BY <1>1, <1>5
<1> QED BY <1>6 DEF n

\* An element selected behind the others is the selection's last.
LEMMA SelectedMore ==
  ASSUME NEW S, NEW s \in Seq(S), NEW P \in SUBSET (1..Len(s)),
         NEW q \in 1..Len(s), \A p \in P : p < q
  PROVE  Selected(s, P \cup {q}) = Append(Selected(s, P), s[q])
<1> DEFINE m == Cardinality(P)
           A == Ascending(P)
           B == [k \in 1..(m + 1) |-> IF k = m + 1 THEN q ELSE A[k]]
           Q == P \cup {q}
<1>0. Len(s) \in Nat /\ s[q] \in S
  OBVIOUS
<1>1. m \in Nat /\ Enumerates(A, m, P)
  BY <1>0, AscendingEnumerates
<1>2. P \in SUBSET Nat /\ q \in Nat
  OBVIOUS
<1>3. Q \in SUBSET (1..Len(s))
  OBVIOUS
<1>4. m + 1 \in Nat
  <2> HIDE DEF m
  <2> QED BY <1>1
<1>5. Enumerates(B, m + 1, Q)
  <2> HIDE DEF m, A
  <2> QED BY <1>1, <1>2, EnumeratesOneMore
<1>6. Cardinality(Q) = m + 1 /\ Ascending(Q) = B
  <2> HIDE DEF m, A, B, Q
  <2> QED BY <1>0, <1>3, <1>4, <1>5, AscendingIs
<1>7. Selected(s, Q) = [k \in 1..(m + 1) |-> s[B[k]]]
  <2> HIDE DEF m, B, Q
  <2> QED BY <1>6 DEF Selected
<1>8. \A k \in 1..m : A[k] \in P
  BY <1>1 DEF Enumerates
<1>9. Selected(s, P) = [k \in 1..m |-> s[A[k]]] /\ \A k \in 1..m : s[A[k]] \in S
  <2>1. \A p \in P : s[p] \in S
    OBVIOUS
  <2>2. Selected(s, P) = [k \in 1..m |-> s[A[k]]]
    BY DEF Selected
  <2> HIDE DEF m, A
  <2> QED BY <1>8, <2>1, <2>2
<1>10. \A k \in 1..(m + 1) : s[B[k]] = IF k = m + 1 THEN s[q] ELSE s[A[k]]
  OBVIOUS
<1>11. Append([k \in 1..m |-> s[A[k]]], s[q])
         = [k \in 1..(m + 1) |-> IF k = m + 1 THEN s[q] ELSE s[A[k]]]
  <2> HIDE DEF m, A
  <2> QED BY <1>0, <1>1, <1>9
<1> HIDE DEF m, A, B, Q
<1>12. Selected(s, Q) = Append(Selected(s, P), s[q])
  BY <1>7, <1>9, <1>10, <1>11
<1> QED BY <1>12 DEF Q

\* So is one that is appended.
LEMMA SelectedAppend ==
  ASSUME NEW S, NEW s \in Seq(S), NEW P \in SUBSET (1..Len(s)), NEW e \in S
  PROVE  Selected(Append(s, e), P \cup {Len(s) + 1}) = Append(Selected(s, P), e)
<1> DEFINE t == Append(s, e)
           q == Len(s) + 1
<1>1. /\ t \in Seq(S) /\ Len(t) = q /\ q \in Nat /\ Len(s) \in Nat /\ t[q] = e
      /\ \A p \in 1..Len(s) : t[p] = s[p] /\ p < q
  OBVIOUS
<1>2. P \subseteq 1..Len(s)
  OBVIOUS
<1>3. Len(s) < q /\ 1 <= q
  OBVIOUS
<1> HIDE DEF t, q
<1>4. P \in SUBSET (1..Len(t)) /\ q \in 1..Len(t) /\ \A p \in P : p < q
  BY <1>1, <1>2, <1>3
<1>5. Selected(t, P \cup {q}) = Append(Selected(t, P), t[q])
  BY <1>1, <1>4, SelectedMore
<1>6. Selected(t, P) = Selected(s, P)
  BY <1>1, <1>2, SelectedSame
<1>7. Selected(t, P \cup {q}) = Append(Selected(s, P), e)
  BY <1>1, <1>5, <1>6
<1> QED BY <1>7 DEF t, q

\* A position given up takes its element out of the selection and moves no
\* other; the first position is the first element.
LEMMA SelectedWithout ==
  ASSUME NEW S, NEW s \in Seq(S), NEW P \in SUBSET (1..Len(s)), NEW p \in P
  PROVE  \E j \in 1..Len(Selected(s, P)) :
           /\ Selected(s, P)[j] = s[p]
           /\ Selected(s, P \ {p}) = Without(Selected(s, P), j)
           /\ (\A q \in P : p <= q) => j = 1
<1> DEFINE m == Cardinality(P)
           A == Ascending(P)
           T == Selected(s, P)
<1>0. Len(s) \in Nat
  OBVIOUS
<1>1. m \in Nat /\ Enumerates(A, m, P)
  BY <1>0, AscendingEnumerates
<1>2. PICK j \in 1..m : A[j] = p
  BY <1>1 DEF Enumerates
<1>3. Len(T) = m /\ \A k \in 1..m : T[k] = s[A[k]]
  BY SelectedElements
<1> DEFINE B == [k \in 1..(m - 1) |-> IF k < j THEN A[k] ELSE A[k + 1]]
           Q == P \ {p}
<1>4. P \in SUBSET Nat /\ Q \in SUBSET (1..Len(s)) /\ Len(s) \in Nat /\ m - 1 \in Nat
  BY <1>1, <1>2
<1>5. Enumerates(B, m - 1, Q)
  <2> HIDE DEF m, A
  <2> QED BY <1>1, <1>2, <1>4, EnumeratesOneLess
<1>6. Cardinality(Q) = m - 1 /\ Ascending(Q) = B
  <2> HIDE DEF m, A, B, Q
  <2> QED BY <1>4, <1>5, AscendingIs
<1> HIDE DEF m, A, T
<1>7. Selected(s, Q) = [k \in 1..(m - 1) |-> s[B[k]]]
  <2> HIDE DEF B, Q
  <2> QED BY <1>6 DEF Selected
<1>8. \A k \in 1..(m - 1) : s[B[k]] = T[IF k < j THEN k ELSE k + 1]
  <2> SUFFICES ASSUME NEW k \in 1..(m - 1)
               PROVE  s[B[k]] = T[IF k < j THEN k ELSE k + 1]
    OBVIOUS
  <2>1. k \in 1..m /\ k + 1 \in 1..m
    BY <1>1
  <2> QED BY <1>3, <2>1
<1>9. Selected(s, Q) = [k \in 1..(m - 1) |-> T[IF k < j THEN k ELSE k + 1]]
  BY <1>7, <1>8
<1>10. ASSUME \A q \in P : p <= q PROVE j = 1
  <2> SUFFICES ASSUME j # 1 PROVE FALSE
    OBVIOUS
  <2>1. 1 \in 1..m /\ 1 < j
    BY <1>1, <1>2
  <2>2. A[1] \in P /\ A[1] < A[j]
    BY <1>1, <1>2, <2>1 DEF Enumerates
  <2>3. p <= A[1] /\ A[1] \in Nat /\ p \in Nat
    BY <1>4, <1>10, <2>2
  <2> QED BY <1>2, <2>2, <2>3
<1>11. j \in 1..Len(T) /\ T[j] = s[p]
  BY <1>2, <1>3
<1> QED BY <1>3, <1>9, <1>10, <1>11 DEF T, Without

\* The element at the first position comes off the front.
LEMMA SelectedTail ==
  ASSUME NEW S, NEW s \in Seq(S), NEW P \in SUBSET (1..Len(s)), NEW p \in P,
         \A q \in P : p <= q
  PROVE  /\ Selected(s, P) # <<>>
         /\ Head(Selected(s, P)) = s[p]
         /\ Tail(Selected(s, P)) = Selected(s, P \ {p})
<1> DEFINE T == Selected(s, P)
           U == Selected(s, P \ {p})
<1>1. \E j \in 1..Len(T) :
        /\ T[j] = s[p]
        /\ U = Without(T, j)
        /\ (\A q \in P : p <= q) => j = 1
  BY SelectedWithout
<1>2. T \in Seq(S)
  BY SelectedElements
<1> HIDE DEF T, U
<1>3. /\ 1 \in 1..Len(T) /\ T[1] = s[p]
      /\ U = [k \in 1..(Len(T) - 1) |-> T[IF k < 1 THEN k ELSE k + 1]]
  BY <1>1 DEF Without
<1>4. U = [k \in 1..(Len(T) - 1) |-> T[k + 1]]
  BY <1>3
<1>5. T # <<>> /\ Tail(T) = U /\ Head(T) = s[p]
  <2>1. T # <<>> /\ Len(T) \in Nat /\ Head(T) = s[p]
    BY <1>2, <1>3
  <2>2. /\ Tail(T) \in Seq(S) /\ Len(Tail(T)) = Len(T) - 1
        /\ \A k \in 1..Len(Tail(T)) : Tail(T)[k] = T[k + 1]
    BY <1>2, <2>1, HeadTailProperties
  <2>3. U \in Seq(S) /\ Len(U) = Len(T) - 1
    BY <1>2, <1>4, <2>1
  <2>4. Tail(T) = U
    BY <1>4, <2>2, <2>3, SeqEqual
  <2> QED BY <2>1, <2>4
<1> QED BY <1>5 DEF T, U

\* Selecting from a selection selects from the sequence.
LEMMA SelectedTwice ==
  ASSUME NEW S, NEW s \in Seq(S), NEW P \in SUBSET (1..Len(s)), NEW V
  PROVE  Among(Selected(s, P), V) = Selected(s, {p \in P : s[p] \in V})
<1> DEFINE m == Cardinality(P)
           A == Ascending(P)
           T == Selected(s, P)
           Q == {k \in 1..Len(T) : T[k] \in V}
           R == {p \in P : s[p] \in V}
           l == Cardinality(Q)
           B == Ascending(Q)
           C == [k \in 1..l |-> A[B[k]]]
<1>0. Len(s) \in Nat
  OBVIOUS
<1>1. m \in Nat /\ Enumerates(A, m, P)
  BY <1>0, AscendingEnumerates
<1>2. Len(T) = m /\ \A k \in 1..m : T[k] = s[A[k]]
  BY SelectedElements
<1> HIDE DEF m, A, T
<1>3. Q \in SUBSET (1..m)
  BY <1>2
<1>4. l \in Nat /\ Enumerates(B, l, Q)
  <2> HIDE DEF Q
  <2> QED BY <1>1, <1>3, AscendingEnumerates
<1>5. R \in SUBSET (1..Len(s))
  OBVIOUS
<1>6. \A k \in 1..m : A[k] \in P
  BY <1>1 DEF Enumerates
<1>7. \A j, k \in 1..m : j < k => A[j] < A[k]
  BY <1>1 DEF Enumerates
<1>8. \A k \in 1..m : k \in Q <=> A[k] \in R
  BY <1>2, <1>6
<1> HIDE DEF Q, R, l, B
<1>9. \A k \in 1..l : B[k] \in Q
  BY <1>4 DEF Enumerates
<1>10. C \in [1..l -> R]
  BY <1>3, <1>8, <1>9
<1>11. \A j, k \in 1..l : j < k => C[j] < C[k]
  <2> SUFFICES ASSUME NEW j \in 1..l, NEW k \in 1..l, j < k PROVE C[j] < C[k]
    OBVIOUS
  <2>1. B[j] < B[k]
    BY <1>4 DEF Enumerates
  <2> QED BY <1>3, <1>7, <1>9, <2>1
<1>12. \A p \in R : \E k \in 1..l : C[k] = p
  <2> SUFFICES ASSUME NEW p \in R PROVE \E k \in 1..l : C[k] = p
    OBVIOUS
  <2>1. PICK j \in 1..m : A[j] = p
    BY <1>1 DEF Enumerates, R
  <2>2. PICK k \in 1..l : B[k] = j
    BY <1>4, <1>8, <2>1 DEF Enumerates
  <2> QED BY <2>1, <2>2
<1>13. \A k \in 1..l : T[B[k]] = s[C[k]]
  BY <1>2, <1>3, <1>9
<1>14. Selected(T, Q) = [k \in 1..l |-> T[B[k]]]
  BY DEF Selected, l, B
<1> HIDE DEF C
<1>15. Enumerates(C, l, R)
  BY <1>10, <1>11, <1>12 DEF Enumerates
<1>16. Cardinality(R) = l /\ Ascending(R) = C
  BY <1>0, <1>4, <1>5, <1>15, AscendingIs
<1>17. Selected(s, R) = [k \in 1..l |-> s[C[k]]]
  BY <1>16 DEF Selected
<1>18. Selected(T, Q) = Selected(s, R)
  BY <1>13, <1>14, <1>17
<1> QED BY <1>18 DEF T, Q, R, Among
=============================================================================
