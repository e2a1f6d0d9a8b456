---------------------------- MODULE Lists_proofs ----------------------------
(***************************************************************************)
(* Induction over numbers and lists, without an operator as a parameter: a *)
(* set that holds what is to be shown takes the place of the predicate.    *)
(* From it, what folds over a list and functions recursive on one compute, *)
(* which is what the loops of the code over their queues are modelled by.  *)
(***************************************************************************)
EXTENDS Lists, Integers, SequencesExt, FiniteSetTheorems, WellFoundedInduction, TLAPS

\* A set that has 0 and with every number the next one has them all.
LEMMA NatSets ==
  ASSUME NEW T, 0 \in T, \A n \in Nat : n \in T => n + 1 \in T
  PROVE  \A n \in Nat : n \in T
<1> DEFINE R == OpToRel(<, Nat)
           U == {n \in Nat : n \notin T}
<1>1. IsWellFoundedOn(R, Nat)
  BY NatLessThanWellFounded, Zenon
<1>2. \A x, y \in Nat : x < y => <<x, y>> \in R
  BY DEF OpToRel
<1> HIDE DEF R
<1>3. SUFFICES ASSUME U # {} PROVE FALSE
  OBVIOUS
<1>4. PICK x \in U : \A y \in U : ~(<<y, x>> \in R)
  <2>1. U \subseteq Nat
    OBVIOUS
  <2> HIDE DEF U
  <2> QED BY <1>1, <1>3, <2>1, WFMin
<1>5. x # 0 /\ x - 1 \in Nat /\ x - 1 < x
  OBVIOUS
<1>6. x - 1 \in T
  BY <1>2, <1>4, <1>5
<1> QED
  BY <1>5, <1>6

\* The same, up to a bound.
LEMMA IntervalSets ==
  ASSUME NEW n \in Nat, NEW T, 0 \in T, \A k \in 0 .. n - 1 : k \in T => k + 1 \in T
  PROVE  \A k \in 0 .. n : k \in T
<1> DEFINE U == {k \in Nat : k <= n => k \in T}
<1>1. 0 \in U
  OBVIOUS
<1>2. \A k \in Nat : k \in U => k + 1 \in U
  OBVIOUS
<1> HIDE DEF U
<1>3. \A k \in Nat : k \in U
  BY <1>1, <1>2, NatSets
<1> QED
  BY <1>3 DEF U

\* The least of some naturals.
LEMMA LeastNat ==
  ASSUME NEW S, S \subseteq Nat, S # {}
  PROVE  Min(S) \in S /\ \A y \in S : Min(S) <= y
<1> DEFINE T == {n \in Nat : \A y \in S : n <= y}
<1>1. 0 \in T
  OBVIOUS
<1>2. \E x \in S : \A y \in S : x <= y
  <2>1. SUFFICES ASSUME ~\E x \in S : \A y \in S : x <= y PROVE FALSE
    OBVIOUS
  <2>2. \A n \in Nat : n \in T => n + 1 \in T
    <3> SUFFICES ASSUME NEW n \in Nat, n \in T PROVE n + 1 \in T
      OBVIOUS
    <3>1. n \notin S
      BY <2>1
    <3> QED BY <3>1
  <2> HIDE DEF T
  <2>3. \A n \in Nat : n \in T
    BY <1>1, <2>2, NatSets
  <2>4. PICK y \in S : TRUE
    OBVIOUS
  <2>5. y + 1 \in T
    BY <2>3, <2>4
  <2> QED BY <2>5, <2>4 DEF T
<1> QED
  BY <1>2 DEF Min

\* The least of some integers that have a bound.
LEMMA LeastInt ==
  ASSUME NEW b \in Int, NEW S, S \subseteq Int, S # {}, \A y \in S : b <= y
  PROVE  Min(S) \in S /\ \A y \in S : Min(S) <= y
<1> DEFINE D == {y - b : y \in S}
           m == Min(D)
<1>1. D \subseteq Nat /\ D # {}
  <2>1. \A y \in S : y \in Int /\ y - b \in Nat
    OBVIOUS
  <2>2. PICK y \in S : TRUE
    OBVIOUS
  <2>3. y - b \in D
    OBVIOUS
  <2> QED BY <2>1, <2>3
<1>2. m \in D /\ \A d \in D : m <= d
  <2> HIDE DEF D
  <2> QED BY <1>1, LeastNat
<1>3. PICK x \in S : m = x - b
  BY <1>2
<1>4. \A y \in S : y - b \in D
  OBVIOUS
<1> HIDE DEF D, m
<1>5. \A y \in S : x <= y
  BY <1>2, <1>3, <1>4
<1> QED
  BY <1>5 DEF Min

\* The greatest of some integers that have a bound.
LEMMA GreatestInt ==
  ASSUME NEW b \in Int, NEW S, S \subseteq Int, S # {}, \A y \in S : y <= b
  PROVE  Max(S) \in S /\ \A y \in S : Max(S) >= y
<1> DEFINE D == {b - y : y \in S}
           m == Min(D)
<1>1. D \subseteq Nat /\ D # {}
  <2>1. \A y \in S : y \in Int /\ b - y \in Nat
    OBVIOUS
  <2>2. PICK y \in S : TRUE
    OBVIOUS
  <2>3. b - y \in D
    OBVIOUS
  <2> QED BY <2>1, <2>3
<1>2. m \in D /\ \A d \in D : m <= d
  <2> HIDE DEF D
  <2> QED BY <1>1, LeastNat
<1>3. PICK x \in S : m = b - x
  BY <1>2
<1>4. \A y \in S : b - y \in D
  OBVIOUS
<1> HIDE DEF D, m
<1>5. \A y \in S : x >= y
  BY <1>2, <1>3, <1>4
<1> QED
  BY <1>5 DEF Max

\* The intervals 1 .. k are what a recursion over sets of positions goes through
LEMMA Intervals ==
  ASSUME NEW k \in Nat \ {0}
  PROVE  Max(1 .. k) = k /\ (1 .. k) \ {k} = 1 .. k - 1
<1>1. 1 .. k \subseteq Int /\ k \in 1 .. k /\ k \in Int /\ \A y \in 1 .. k : y <= k
  OBVIOUS
<1>2. Max(1 .. k) \in 1 .. k /\ \A y \in 1 .. k : Max(1 .. k) >= y
  BY <1>1, GreatestInt
<1>3. Max(1 .. k) = k
  BY <1>1, <1>2
<1> QED
  BY <1>3

\* The greatest index of a set of indices.
LEMMA MaxInside ==
  ASSUME NEW n \in Nat, NEW s \in SUBSET (1 .. n), s # {}
  PROVE  Max(s) \in 1 .. n /\ s \ {Max(s)} \in SUBSET (1 .. n)
<1>1. s \subseteq Int /\ n \in Int /\ \A y \in s : y <= n
  OBVIOUS
<1> QED
  BY <1>1, GreatestInt

\* Taking the greatest index away.
LEMMA LastFirst ==
  ASSUME NEW k \in Nat, NEW s \in SUBSET (1 .. k + 1), k + 1 \in s
  PROVE  Max(s) = k + 1
<1>1. /\ k + 1 \in Int /\ s # {} /\ s \subseteq Int
      /\ \A y \in s : y <= k + 1
  OBVIOUS
<1>2. Max(s) \in s /\ \A y \in s : Max(s) >= y
  BY <1>1, GreatestInt
<1>3. Max(s) \in Int /\ Max(s) <= k + 1 /\ Max(s) >= k + 1
  BY <1>1, <1>2
<1> QED
  BY <1>3

Recursion(h, base, step, k) ==
  \A s \in SUBSET (1 .. k) :
    h[s] = IF s = {} THEN base ELSE step[<<h[s \ {Max(s)}], Max(s)>>]

\* A recursion on sets of indices, from the greatest down, has a solution.
LEMMA SubsetRecursion ==
  ASSUME NEW n \in Nat, NEW T, NEW base \in T, NEW step \in [T \X (1 .. n) -> T]
  PROVE  \E h \in [SUBSET (1 .. n) -> T] : Recursion(h, base, step, n)
<1> DEFINE K == {k \in 0 .. n :
                   \E h \in [SUBSET (1 .. k) -> T] : Recursion(h, base, step, k)}
<1>1. 0 \in K
  <2> DEFINE h == [s \in SUBSET (1 .. 0) |-> base]
  <2>1. 1 .. 0 = {} /\ 0 \in 0 .. n
    OBVIOUS
  <2>2. h \in [SUBSET (1 .. 0) -> T] /\ Recursion(h, base, step, 0)
    BY <2>1 DEF Recursion
  <2> HIDE DEF h
  <2> QED BY <2>1, <2>2
<1>2. ASSUME NEW k \in 0 .. n - 1, k \in K
      PROVE  k + 1 \in K
  <2>1. PICK h \in [SUBSET (1 .. k) -> T] : Recursion(h, base, step, k)
    BY <1>2
  <2> DEFINE g == [s \in SUBSET (1 .. k + 1) |->
                     IF k + 1 \in s THEN step[<<h[s \ {k + 1}], k + 1>>] ELSE h[s]]
  <2>2. k \in Nat /\ k + 1 \in 1 .. n /\ k + 1 \in 0 .. n
    OBVIOUS
  <2>3. \A s \in SUBSET (1 .. k + 1) : s \ {k + 1} \in SUBSET (1 .. k)
    BY <2>2
  <2>4. g \in [SUBSET (1 .. k + 1) -> T]
    BY <2>2, <2>3
  <2>5. ASSUME NEW s \in SUBSET (1 .. k + 1), k + 1 \in s
        PROVE  g[s] = step[<<g[s \ {Max(s)}], Max(s)>>]
    <3>1. Max(s) = k + 1
      BY <2>2, <2>5, LastFirst
    <3>2. s \ {k + 1} \in SUBSET (1 .. k + 1)
      BY <2>5
    <3>3. g[s \ {k + 1}] = h[s \ {k + 1}]
      BY <3>2
    <3> QED BY <2>5, <3>1, <3>3
  <2>6. ASSUME NEW s \in SUBSET (1 .. k + 1), k + 1 \notin s, s # {}
        PROVE  g[s] = step[<<g[s \ {Max(s)}], Max(s)>>]
    <3>1. s \ {k + 1} = s /\ s \in SUBSET (1 .. k)
      BY <2>3, <2>6
    <3>2. s \ {Max(s)} \in SUBSET (1 .. k) /\ k + 1 \notin s \ {Max(s)}
      BY <2>6, <3>1
    <3>3. s \ {Max(s)} \in SUBSET (1 .. k + 1)
      BY <2>6
    <3>4. g[s] = h[s] /\ g[s \ {Max(s)}] = h[s \ {Max(s)}]
      BY <2>6, <3>2, <3>3
    <3> HIDE DEF g
    <3> QED BY <2>1, <2>6, <3>1, <3>4 DEF Recursion
  <2>7. g[{}] = base
    BY <2>1 DEF Recursion
  <2> HIDE DEF g
  <2>8. Recursion(g, base, step, k + 1)
    BY <2>5, <2>6, <2>7 DEF Recursion
  <2> QED BY <2>2, <2>4, <2>8
<1> HIDE DEF K
<1>3. n \in K
  <2>1. \A k \in 0 .. n : k \in K
    BY <1>1, <1>2, IntervalSets
  <2> QED BY <2>1
<1> QED
  BY <1>3 DEF K


\* The same of a function that is known to take a step only where it is in T
Follows(g, base, step, T, n) ==
  \A s \in SUBSET (1 .. n) :
    IF s = {} THEN g[s] = base
    ELSE g[s \ {Max(s)}] \in T => g[s] = step[<<g[s \ {Max(s)}], Max(s)>>]

\* What FoldLeft goes through: the folds of the prefixes of the sequence
LEMMA FoldPrefixes ==
  ASSUME NEW n \in Nat, NEW T, NEW base \in T, NEW step \in [T \X (1 .. n) -> T],
         NEW g, Follows(g, base, step, T, n)
  PROVE  /\ g[1 .. 0] = base
         /\ \A k \in 1 .. n : g[1 .. k] = step[<<g[1 .. k - 1], k>>]
         /\ \A k \in 0 .. n : g[1 .. k] \in T
<1>1. \A k \in 0 .. n : 1 .. k \in SUBSET (1 .. n)
  OBVIOUS
<1>2. g[1 .. 0] = base
  <2>1. 1 .. 0 = {}
    OBVIOUS
  <2> QED BY <1>1, <2>1 DEF Follows
<1>3. ASSUME NEW k \in 1 .. n, g[1 .. k - 1] \in T
      PROVE  g[1 .. k] = step[<<g[1 .. k - 1], k>>] /\ g[1 .. k] \in T
  <2>1. k \in Nat \ {0} /\ k \in 0 .. n /\ 1 .. k # {}
    OBVIOUS
  <2>2. Max(1 .. k) = k /\ (1 .. k) \ {k} = 1 .. k - 1
    BY <2>1, Intervals
  <2>3. 1 .. k \in SUBSET (1 .. n)
    BY <1>1, <2>1
  <2>4. g[1 .. k] = step[<<g[1 .. k - 1], k>>]
    BY <1>3, <2>1, <2>2, <2>3 DEF Follows
  <2> QED BY <1>3, <2>4
<1> DEFINE U == {k \in 0 .. n : g[1 .. k] \in T}
<1>4. 0 \in U
  BY <1>2
<1>5. ASSUME NEW k \in 0 .. n - 1, k \in U
      PROVE  k + 1 \in U
  <2>1. k + 1 \in 1 .. n /\ (k + 1) - 1 = k /\ k + 1 \in 0 .. n
    OBVIOUS
  <2> QED BY <1>3, <1>5, <2>1
<1> HIDE DEF U
<1>6. \A k \in 0 .. n : k \in U
  BY <1>4, <1>5, IntervalSets
<1>7. \A k \in 0 .. n : g[1 .. k] \in T
  BY <1>6 DEF U
<1>8. \A k \in 1 .. n : k - 1 \in 0 .. n
  OBVIOUS
<1> QED
  BY <1>2, <1>3, <1>7, <1>8

\* f[k] is what the steps 1 .. k make of base
Solves(f, base, step, n) ==
  /\ f[0] = base
  /\ \A k \in 1 .. n : f[k] = step[<<f[k - 1], k>>]

\* A recursion over a sequence has a solution
LEMMA SequenceRecursion ==
  ASSUME NEW n \in Nat, NEW T, NEW base \in T, NEW step \in [T \X (1 .. n) -> T]
  PROVE  \E f \in [0 .. n -> T] : Solves(f, base, step, n)
<1>1. PICK h \in [SUBSET (1 .. n) -> T] : Recursion(h, base, step, n)
  BY SubsetRecursion
<1>2. /\ h[1 .. 0] = base
      /\ \A k \in 1 .. n : h[1 .. k] = step[<<h[1 .. k - 1], k>>]
      /\ \A k \in 0 .. n : h[1 .. k] \in T
  <2>1. Follows(h, base, step, T, n)
    BY <1>1 DEF Recursion, Follows
  <2> QED BY <2>1, FoldPrefixes
<1> DEFINE f == [k \in 0 .. n |-> h[1 .. k]]
<1>3. f \in [0 .. n -> T] /\ f[0] = base
  BY <1>2
<1>4. \A k \in 1 .. n : f[k] = step[<<f[k - 1], k>>]
  BY <1>2
<1> HIDE DEF f
<1> QED
  BY <1>3, <1>4 DEF Solves

\* f[i] is what is picked of the first i elements
Picks(f, s, I) ==
  /\ f[0] = <<>>
  /\ \A i \in 1 .. Len(s) :
       f[i] = IF i \in I THEN Append(f[i - 1], s[i]) ELSE f[i - 1]
  /\ Pick(s, I) = f[Len(s)]

\* What is picked of a sequence, position by position
LEMMA PickRecursion ==
  ASSUME NEW A, NEW s \in Seq(A), NEW I
  PROVE  \E f \in [0 .. Len(s) -> Seq(A)] : Picks(f, s, I)
<1> DEFINE n == Len(s)
           T == Seq(A)
           none == <<>>
           step == [p \in T \X (1 .. n) |->
                      IF p[2] \in I THEN Append(p[1], s[p[2]]) ELSE p[1]]
           Is(g) == g = [i \in 0 .. n |->
                           IF i = 0 THEN none
                           ELSE IF i \in I THEN Append(g[i - 1], s[i]) ELSE g[i - 1]]
           it == CHOOSE g : Is(g)
<1>1. n \in Nat /\ none \in T
  OBVIOUS
<1>2. step \in [T \X (1 .. n) -> T]
  OBVIOUS
<1>3. \A t \in T, i \in 1 .. n :
        step[<<t, i>>] = IF i \in I THEN Append(t, s[i]) ELSE t
  OBVIOUS
<1>4. Pick(s, I) = it[n]
  BY Zenon DEF Pick
<1> HIDE DEF step, n, T, none
<1>5. PICK f \in [0 .. n -> T] : Solves(f, none, step, n)
  BY <1>1, <1>2, SequenceRecursion
<1>6. ASSUME NEW k \in 1 .. n
      PROVE  f[k] = IF k \in I THEN Append(f[k - 1], s[k]) ELSE f[k - 1]
  <2>1. k - 1 \in 0 .. n /\ f[k - 1] \in T
    BY <1>1
  <2> QED BY <2>1, <1>3, <1>5 DEF Solves
<1>7. f = [i \in 0 .. n |->
             IF i = 0 THEN none
             ELSE IF i \in I THEN Append(f[i - 1], s[i]) ELSE f[i - 1]]
  <2> DEFINE G(i) == IF i = 0 THEN none
                     ELSE IF i \in I THEN Append(f[i - 1], s[i]) ELSE f[i - 1]
  <2>1. \A i \in 0 .. n : i = 0 \/ i \in 1 .. n
    BY <1>1
  <2>2. \A i \in 0 .. n : f[i] = G(i)
    BY <1>5, <1>6, <2>1 DEF Solves
  <2> HIDE DEF G
  <2>3. f = [i \in 0 .. n |-> G(i)]
    BY <2>2
  <2> QED BY <2>3 DEF G
<1>8. Is(it)
  BY <1>7
<1> HIDE DEF it
<1>9. it[0] = none /\ it \in [0 .. n -> T]
  <2> DEFINE U == {k \in 0 .. n : it[k] \in T}
  <2>1. it[0] = none /\ 0 \in U
    BY <1>1, <1>8
  <2>2. \A k \in 0 .. n - 1 : k \in U => k + 1 \in U
    <3> SUFFICES ASSUME NEW k \in 0 .. n - 1, it[k] \in T
                 PROVE  k + 1 \in 0 .. n /\ it[k + 1] \in T
      OBVIOUS
    <3>1. k + 1 \in 1 .. n /\ k + 1 # 0 /\ (k + 1) - 1 = k /\ k + 1 \in 0 .. n
      BY <1>1
    <3>2. it[k + 1] = IF k + 1 \in I THEN Append(it[k], s[k + 1]) ELSE it[k]
      BY <1>8, <3>1
    <3>3. step[<<it[k], k + 1>>] = it[k + 1] /\ <<it[k], k + 1>> \in T \X (1 .. n)
      BY <1>3, <3>1, <3>2
    <3> QED BY <1>2, <3>1, <3>3
  <2> HIDE DEF U
  <2>3. \A k \in 0 .. n : k \in U
    BY <1>1, <2>1, <2>2, IntervalSets
  <2>4. DOMAIN it = 0 .. n /\ it = [k \in 0 .. n |-> it[k]]
    BY <1>8
  <2> QED BY <2>1, <2>3, <2>4 DEF U
<1>10. ASSUME NEW k \in 1 .. n
       PROVE  it[k] = IF k \in I THEN Append(it[k - 1], s[k]) ELSE it[k - 1]
  <2>1. k \in 0 .. n /\ k # 0
    BY <1>1
  <2> QED BY <1>8, <2>1
<1> QED
  BY <1>4, <1>9, <1>10 DEF Picks, n, T, none

\* f[i] is what is kept of the first i elements
Keeps(f, s, S) ==
  /\ f[0] = <<>>
  /\ \A i \in 1 .. Len(s) :
       f[i] = IF s[i] \in S THEN Append(f[i - 1], s[i]) ELSE f[i - 1]
  /\ Keep(s, S) = f[Len(s)]

\* What is kept of a sequence, position by position
LEMMA KeepRecursion ==
  ASSUME NEW A, NEW s \in Seq(A), NEW S
  PROVE  \E f \in [0 .. Len(s) -> Seq(A)] : Keeps(f, s, S)
<1> DEFINE I == {i \in DOMAIN s : s[i] \in S}
<1>1. PICK f \in [0 .. Len(s) -> Seq(A)] : Picks(f, s, I)
  <2> HIDE DEF I
  <2> QED BY PickRecursion
<1>2. \A i \in 1 .. Len(s) : i \in I <=> s[i] \in S
  OBVIOUS
<1>3. Keep(s, S) = Pick(s, I)
  BY DEF Keep
<1> HIDE DEF I
<1> QED
  BY <1>1, <1>2, <1>3 DEF Keeps, Picks

\* What is kept are elements of the sequence and of the set
LEMMA KeepType ==
  ASSUME NEW A, NEW s \in Seq(A), NEW S
  PROVE  Keep(s, S) \in Seq(A \cap S)
<1>1. PICK f \in [0 .. Len(s) -> Seq(A)] : Keeps(f, s, S)
  BY KeepRecursion
<1> DEFINE U == {k \in 0 .. Len(s) : f[k] \in Seq(A \cap S)}
<1>2. 0 \in U
  BY <1>1 DEF Keeps
<1>3. ASSUME NEW k \in 0 .. Len(s) - 1, k \in U
      PROVE  k + 1 \in U
  <2>1. k + 1 \in 1 .. Len(s) /\ (k + 1) - 1 = k /\ k + 1 \in 0 .. Len(s)
    OBVIOUS
  <2>2. f[k + 1] = IF s[k + 1] \in S THEN Append(f[k], s[k + 1]) ELSE f[k]
    BY <1>1, <2>1 DEF Keeps
  <2>3. f[k] \in Seq(A \cap S)
    BY <1>3
  <2>4. s[k + 1] \in A
    BY <2>1
  <2>5. f[k + 1] \in Seq(A \cap S)
    <3>1. CASE s[k + 1] \in S
      <4>1. s[k + 1] \in A \cap S
        BY <2>4, <3>1
      <4>2. Append(f[k], s[k + 1]) \in Seq(A \cap S)
        BY <2>3, <4>1
      <4> QED BY <2>2, <3>1, <4>2
    <3>2. CASE s[k + 1] \notin S
      BY <2>2, <2>3, <3>2
    <3> QED BY <3>1, <3>2
  <2> QED BY <2>1, <2>5
<1> HIDE DEF U
<1>4. Len(s) \in Nat
  OBVIOUS
<1>5. \A k \in 0 .. Len(s) : k \in U
  BY <1>2, <1>3, <1>4, IntervalSets
<1> QED
  BY <1>1, <1>4, <1>5 DEF Keeps, U

\* A set that has the empty list and with every list the longer ones has them all.
LEMMA SeqSets ==
  ASSUME NEW A, NEW T, <<>> \in T,
         \A s \in Seq(A), a \in A : s \in T => Append(s, a) \in T
  PROVE  \A s \in Seq(A) : s \in T
<1> DEFINE U == {n \in Nat : \A s \in Seq(A) : Len(s) = n => s \in T}
<1>1. 0 \in U
  <2>1. \A s \in Seq(A) : Len(s) = 0 => s = <<>>
    OBVIOUS
  <2> QED BY <2>1
<1>2. ASSUME NEW n \in Nat, n \in U
      PROVE  n + 1 \in U
  <2> SUFFICES ASSUME NEW s \in Seq(A), Len(s) = n + 1
               PROVE  s \in T
    OBVIOUS
  <2> DEFINE r == SubSeq(s, 1, n)
             a == s[n + 1]
  <2>1. a \in A /\ r \in Seq(A) /\ Len(r) = n /\ \A i \in 1 .. n : r[i] = s[i]
    OBVIOUS
  <2> HIDE DEF r, a
  <2>2. r \in T
    BY <1>2, <2>1
  <2>3. Append(r, a) = s
    <3> DEFINE t == Append(r, a)
    <3>1. /\ t \in Seq(A) /\ Len(t) = n + 1 /\ t[n + 1] = a
          /\ \A i \in 1 .. n : t[i] = r[i]
      BY <2>1
    <3>2. \A i \in 1 .. n + 1 : i \in 1 .. n \/ i = n + 1
      OBVIOUS
    <3> HIDE DEF t
    <3>3. \A i \in 1 .. n + 1 : t[i] = s[i]
      BY <2>1, <3>1, <3>2 DEF a
    <3>4. t = [i \in 1 .. n + 1 |-> t[i]] /\ s = [i \in 1 .. n + 1 |-> s[i]]
      BY <3>1
    <3>5. t = s
      BY <3>3, <3>4, Zenon
    <3> QED BY <3>5 DEF t
  <2> QED BY <2>1, <2>2, <2>3
<1> HIDE DEF U
<1>3. \A n \in Nat : n \in U
  BY <1>1, <1>2, NatSets
<1> QED
  BY <1>3 DEF U

\* Two lists with indices agree on the first n
SameFirst(s, t, I, J, n) ==
  /\ Len(s) \in Nat /\ Len(t) \in Nat /\ n \in Nat /\ n <= Len(s) /\ n <= Len(t)
  /\ \A i \in 1 .. n : s[i] = t[i] /\ (i \in I <=> i \in J)

\* Then the same is picked of them
LEMMA PickSame ==
  ASSUME NEW s, NEW t, NEW I, NEW J, NEW n, SameFirst(s, t, I, J, n),
         NEW f, NEW g, Picks(f, s, I), Picks(g, t, J)
  PROVE  f[n] = g[n]
<1> USE DEF SameFirst
<1> DEFINE U == {k \in 0 .. n : f[k] = g[k]}
<1>1. 0 \in U
  BY DEF Picks
<1>2. ASSUME NEW k \in 0 .. n - 1, k \in U
      PROVE  k + 1 \in U
  <2>1. /\ k + 1 \in 1 .. n /\ k + 1 \in 1 .. Len(s) /\ k + 1 \in 1 .. Len(t)
        /\ (k + 1) - 1 = k /\ k + 1 \in 0 .. n
    OBVIOUS
  <2>2. f[k + 1] = IF k + 1 \in I THEN Append(f[k], s[k + 1]) ELSE f[k]
    BY <2>1 DEF Picks
  <2>3. g[k + 1] = IF k + 1 \in J THEN Append(g[k], t[k + 1]) ELSE g[k]
    BY <2>1 DEF Picks
  <2> QED BY <1>2, <2>1, <2>2, <2>3
<1> HIDE DEF U
<1>3. \A k \in 0 .. n : k \in U
  BY <1>1, <1>2, IntervalSets
<1> QED
  BY <1>3 DEF U

\* Nothing is picked of nothing.
LEMMA PickEmpty ==
  ASSUME NEW I
  PROVE  Pick(<<>>, I) = <<>>
<1>1. <<>> \in Seq({}) /\ Len(<<>>) = 0
  OBVIOUS
<1>2. PICK f \in [0 .. Len(<<>>) -> Seq({})] : Picks(f, <<>>, I)
  BY <1>1, PickRecursion
<1> QED
  BY <1>1, <1>2 DEF Picks

\* Indices that agree on the list pick the same
LEMMA PickEqual ==
  ASSUME NEW A, NEW s \in Seq(A), NEW I, NEW J, \A i \in DOMAIN s : i \in I <=> i \in J
  PROVE  Pick(s, I) = Pick(s, J) /\ Pick(s, I) \in Seq(A)
<1>1. PICK f \in [0 .. Len(s) -> Seq(A)] : Picks(f, s, I)
  BY PickRecursion
<1>2. PICK g \in [0 .. Len(s) -> Seq(A)] : Picks(g, s, J)
  BY PickRecursion
<1>3. Len(s) \in Nat /\ DOMAIN s = 1 .. Len(s) /\ Len(s) <= Len(s)
  OBVIOUS
<1>4. SameFirst(s, s, I, J, Len(s))
  BY <1>3 DEF SameFirst
<1>5. f[Len(s)] = g[Len(s)]
  BY <1>1, <1>2, <1>4, PickSame
<1> QED
  BY <1>1, <1>2, <1>3, <1>5 DEF Picks

\* What is picked of a list is what is picked of a shorter one, and its last element
LEMMA PickAppend ==
  ASSUME NEW A, NEW s \in Seq(A), NEW a \in A, NEW I
  PROVE  Pick(Append(s, a), I) = IF Len(s) + 1 \in I THEN Append(Pick(s, I), a)
                                                     ELSE Pick(s, I)
<1> DEFINE t == Append(s, a)
           n == Len(s)
<1>1. /\ t \in Seq(A) /\ Len(t) = n + 1 /\ t[n + 1] = a /\ n \in Nat
      /\ \A i \in 1 .. n : t[i] = s[i]
  OBVIOUS
<1> HIDE DEF t
<1>2. PICK f \in [0 .. Len(s) -> Seq(A)] : Picks(f, s, I)
  BY PickRecursion
<1>3. PICK g \in [0 .. Len(t) -> Seq(A)] : Picks(g, t, I)
  BY <1>1, PickRecursion
<1>4. f[n] = g[n]
  <2>1. SameFirst(s, t, I, I, n)
    BY <1>1 DEF SameFirst
  <2> QED BY <1>2, <1>3, <2>1, PickSame
<1>5. n + 1 \in 1 .. Len(t) /\ (n + 1) - 1 = n
  BY <1>1
<1>6. g[n + 1] = IF n + 1 \in I THEN Append(g[n], a) ELSE g[n]
  BY <1>1, <1>3, <1>5 DEF Picks
<1>7. Pick(s, I) = f[n] /\ Pick(t, I) = g[n + 1]
  BY <1>1, <1>2, <1>3 DEF Picks
<1>8. Pick(t, I) = IF Len(s) + 1 \in I THEN Append(Pick(s, I), a) ELSE Pick(s, I)
  BY <1>4, <1>6, <1>7
<1> QED
  BY <1>8 DEF t

\* The same of what is kept
LEMMA KeepAppend ==
  ASSUME NEW A, NEW s \in Seq(A), NEW a \in A, NEW S
  PROVE  Keep(Append(s, a), S) = IF a \in S THEN Append(Keep(s, S), a) ELSE Keep(s, S)
<1> DEFINE t == Append(s, a)
           n == Len(s)
           I == {i \in DOMAIN s : s[i] \in S}
           J == {i \in DOMAIN t : t[i] \in S}
<1>1. /\ t \in Seq(A) /\ Len(t) = n + 1 /\ t[n + 1] = a /\ n \in Nat
      /\ \A i \in 1 .. n : t[i] = s[i]
      /\ DOMAIN s = 1 .. n /\ DOMAIN t = 1 .. n + 1 /\ n + 1 \in 1 .. n + 1
  OBVIOUS
<1>2. /\ Keep(t, S) = Pick(t, J) /\ Keep(s, S) = Pick(s, I)
  BY DEF Keep
<1> HIDE DEF t
<1>3. \A i \in DOMAIN s : i \in I <=> i \in J
  BY <1>1
<1>4. n + 1 \in J <=> a \in S
  BY <1>1
<1> HIDE DEF I, J
<1>5. Pick(s, I) = Pick(s, J)
  BY <1>3, PickEqual
<1>6. Pick(t, J) = IF n + 1 \in J THEN Append(Pick(s, J), a) ELSE Pick(s, J)
  BY PickAppend DEF t
<1>7. Keep(t, S) = IF a \in S THEN Append(Keep(s, S), a) ELSE Keep(s, S)
  BY <1>2, <1>4, <1>5, <1>6
<1> QED
  BY <1>7 DEF t

\* Nothing is kept of nothing.
LEMMA KeepEmpty ==
  ASSUME NEW S
  PROVE  Keep(<<>>, S) = <<>>
BY PickEmpty DEF Keep

\* Tests that agree on the list keep the same
LEMMA KeepEqual ==
  ASSUME NEW A, NEW s \in Seq(A), NEW S, NEW T,
         \A i \in DOMAIN s : s[i] \in S <=> s[i] \in T
  PROVE  Keep(s, S) = Keep(s, T) /\ Keep(s, S) \in Seq(A)
<1> DEFINE I == {i \in DOMAIN s : s[i] \in S}
           J == {i \in DOMAIN s : s[i] \in T}
<1>1. \A i \in DOMAIN s : i \in I <=> i \in J
  OBVIOUS
<1>2. Keep(s, S) = Pick(s, I) /\ Keep(s, T) = Pick(s, J)
  BY DEF Keep
<1> HIDE DEF I, J
<1>3. Pick(s, I) = Pick(s, J) /\ Pick(s, I) \in Seq(A)
  BY <1>1, PickEqual
<1> QED
  BY <1>2, <1>3

\* Keeping some of what was picked is picking
LEMMA KeepPick ==
  ASSUME NEW A, NEW s \in Seq(A), NEW I, NEW S
  PROVE  Keep(Pick(s, I), S) = Pick(s, {i \in I : s[i] \in S})
<1> DEFINE J(t) == {i \in I : t[i] \in S}
           U == {t \in Seq(A) : Keep(Pick(t, I), S) = Pick(t, J(t))}
<1>1. <<>> \in U
  <2>1. <<>> \in Seq(A)
    OBVIOUS
  <2> QED BY <2>1, PickEmpty, KeepEmpty
<1>2. ASSUME NEW t \in Seq(A), NEW a \in A, t \in U
      PROVE  Append(t, a) \in U
  <2> DEFINE u == Append(t, a)
             n == Len(t)
             K == J(u)
             L == J(t)
  <2>1. /\ u \in Seq(A) /\ u[n + 1] = a /\ n \in Nat /\ DOMAIN t = 1 .. n
        /\ \A i \in 1 .. n : u[i] = t[i]
    OBVIOUS
  <2>2. n + 1 \in K <=> n + 1 \in I /\ a \in S
    BY <2>1
  <2> HIDE DEF u
  <2>3. \A i \in DOMAIN t : i \in K <=> i \in L
    BY <2>1
  <2>4. Keep(Pick(t, I), S) = Pick(t, L)
    BY <1>2
  <2> HIDE DEF K, L
  <2>5. Pick(t, K) = Pick(t, L)
    BY <2>3, PickEqual
  <2>6. Pick(t, I) \in Seq(A)
    BY PickEqual
  <2>7. Pick(u, I) = IF n + 1 \in I THEN Append(Pick(t, I), a) ELSE Pick(t, I)
    BY PickAppend DEF u
  <2>8. Pick(u, K) = IF n + 1 \in K THEN Append(Pick(t, K), a) ELSE Pick(t, K)
    BY PickAppend DEF u
  <2>9. Keep(Append(Pick(t, I), a), S) = IF a \in S THEN Append(Keep(Pick(t, I), S), a)
                                                    ELSE Keep(Pick(t, I), S)
    BY <2>6, KeepAppend
  <2>10. Keep(Pick(u, I), S) = Pick(u, K)
    BY <2>2, <2>4, <2>5, <2>7, <2>8, <2>9
  <2>11. u \in U
    BY <2>1, <2>10 DEF K
  <2> QED BY <2>11 DEF u
<1> HIDE DEF U
<1>3. s \in U
  BY <1>1, <1>2, SeqSets
<1> QED
  BY <1>3 DEF U

\* Keeping some of what was kept
LEMMA KeepKeep ==
  ASSUME NEW A, NEW s \in Seq(A), NEW S, NEW T
  PROVE  Keep(Keep(s, S), T) = Keep(s, S \cap T)
<1> DEFINE I == {i \in DOMAIN s : s[i] \in S}
           J == {i \in I : s[i] \in T}
           K == {i \in DOMAIN s : s[i] \in S \cap T}
<1>1. J = K
  OBVIOUS
<1>2. Keep(s, S) = Pick(s, I) /\ Keep(s, S \cap T) = Pick(s, K)
  BY DEF Keep
<1> HIDE DEF K
<1>3. Keep(Pick(s, I), T) = Pick(s, J)
  <2> HIDE DEF I
  <2> QED BY KeepPick
<1> QED
  BY <1>1, <1>2, <1>3

\* An element after a list that is joined to another
LEMMA ConcatAppend ==
  ASSUME NEW A, NEW s \in Seq(A), NEW t \in Seq(A), NEW a \in A
  PROVE  s \o Append(t, a) = Append(s \o t, a)
<1> DEFINE u == s \o Append(t, a)
           v == Append(s \o t, a)
           n == Len(s) + Len(t)
<1>1. /\ u \in Seq(A) /\ v \in Seq(A) /\ n \in Nat /\ Len(u) = n + 1 /\ Len(v) = n + 1
  OBVIOUS
<1>2. ASSUME NEW i \in 1 .. n + 1
      PROVE  u[i] = v[i]
  <2>1. /\ Len(s) \in Nat /\ Len(t) \in Nat /\ s \o t \in Seq(A)
        /\ Len(s \o t) = n /\ Len(Append(t, a)) = Len(t) + 1
    OBVIOUS
  <2>2. CASE i <= Len(s)
    <3>1. i \in 1 .. Len(s) /\ i \in 1 .. n
      BY <2>1, <2>2
    <3>2. u[i] = s[i]
      BY <3>1
    <3>3. v[i] = (s \o t)[i]
      BY <2>1, <3>1
    <3> QED BY <3>1, <3>2, <3>3
  <2>3. CASE i > Len(s) /\ i <= n
    <3>1. i \in 1 .. n /\ i - Len(s) \in 1 .. Len(t)
      BY <2>1, <2>3
    <3>2. u[i] = Append(t, a)[i - Len(s)]
      BY <2>1, <2>3
    <3>3. v[i] = (s \o t)[i]
      BY <2>1, <3>1
    <3> QED BY <2>1, <2>3, <3>1, <3>2, <3>3
  <2>4. CASE i = n + 1
    <3>1. i - Len(s) = Len(t) + 1
      BY <2>1, <2>4
    <3>2. u[i] = Append(t, a)[i - Len(s)]
      BY <2>1, <2>4
    <3>3. v[i] = a
      BY <2>1, <2>4
    <3> QED BY <3>1, <3>2, <3>3
  <2> QED BY <2>1, <2>2, <2>3, <2>4
<1> HIDE DEF u, v, n
<1>3. u = [i \in 1 .. n + 1 |-> u[i]] /\ v = [i \in 1 .. n + 1 |-> v[i]]
  BY <1>1
<1>4. u = v
  BY <1>2, <1>3, Zenon
<1> QED
  BY <1>4 DEF u, v

\* A list joined to the empty one
LEMMA ConcatEmpty ==
  ASSUME NEW A, NEW s \in Seq(A)
  PROVE  s \o <<>> = s /\ <<>> \o s = s
OBVIOUS

\* f[i] is the first i lists joined
Joins(f, ss) ==
  /\ f[0] = <<>>
  /\ \A i \in 1 .. Len(ss) : f[i] = f[i - 1] \o ss[i]
  /\ FlattenSeq(ss) = f[Len(ss)]

\* What FlattenSeq makes of a list of lists, one after the other
LEMMA FlattenRecursion ==
  ASSUME NEW A, NEW ss \in Seq(Seq(A))
  PROVE  \E f \in [0 .. Len(ss) -> Seq(A)] : Joins(f, ss)
<1> DEFINE n == Len(ss)
           T == Seq(A)
           none == <<>>
           step == [p \in T \X (1 .. n) |-> p[1] \o ss[p[2]]]
           Is(g) == g = [i \in 1 .. n |-> IF i = 1 THEN ss[i] ELSE g[i - 1] \o ss[i]]
           it == CHOOSE g : Is(g)
<1>1. n \in Nat /\ none \in T /\ \A i \in 1 .. n : ss[i] \in T /\ none \o ss[i] = ss[i]
  OBVIOUS
<1>2. step \in [T \X (1 .. n) -> T]
  OBVIOUS
<1>3. \A t \in T, i \in 1 .. n : step[<<t, i>>] = t \o ss[i]
  OBVIOUS
<1>4. FlattenSeq(ss) = IF n = 0 THEN ss ELSE it[n]
  BY Zenon DEF FlattenSeq
<1>5. n = 0 => ss = none
  OBVIOUS
<1> HIDE DEF step, n, T, none
<1>6. PICK f \in [0 .. n -> T] : Solves(f, none, step, n)
  BY <1>1, <1>2, SequenceRecursion
<1>7. ASSUME NEW k \in 1 .. n
      PROVE  f[k] = f[k - 1] \o ss[k]
  <2>1. k - 1 \in 0 .. n /\ f[k - 1] \in T
    BY <1>1
  <2> QED BY <2>1, <1>3, <1>6 DEF Solves
<1> DEFINE h == [i \in 1 .. n |-> f[i]]
<1>8. Is(h)
  <2>1. ASSUME NEW i \in 1 .. n
        PROVE  h[i] = IF i = 1 THEN ss[i] ELSE h[i - 1] \o ss[i]
    <3>1. CASE i = 1
      <4>0. 1 \in 1 .. n /\ 1 - 1 = 0
        BY <3>1
      <4>1. f[1] = f[0] \o ss[1]
        BY <1>7, <4>0
      <4>2. f[1] = ss[1]
        BY <1>1, <1>6, <3>1, <4>1 DEF Solves
      <4> QED BY <3>1, <4>2
    <3>2. CASE i # 1
      <4>1. i - 1 \in 1 .. n
        BY <1>1, <3>2
      <4> QED BY <1>7, <3>2, <4>1
    <3> QED BY <3>1, <3>2
  <2> DEFINE G(i) == IF i = 1 THEN ss[i] ELSE h[i - 1] \o ss[i]
  <2>2. h = [i \in 1 .. n |-> h[i]]
    OBVIOUS
  <2> HIDE DEF h
  <2>3. \A i \in 1 .. n : h[i] = G(i)
    BY <2>1
  <2> HIDE DEF G
  <2>4. h = [i \in 1 .. n |-> G(i)]
    BY <2>2, <2>3, Zenon
  <2> QED BY <2>4 DEF G
<1> HIDE DEF h
<1>9. Is(it)
  BY <1>8
<1> HIDE DEF it
<1>10. \A k \in 0 .. n : k \in {i \in 0 .. n : i = 0 \/ it[i] = f[i]}
  <2> DEFINE U == {i \in 0 .. n : i = 0 \/ it[i] = f[i]}
  <2>1. 0 \in U
    BY <1>1
  <2>2. ASSUME NEW k \in 0 .. n - 1, k \in U
        PROVE  k + 1 \in U
    <3>1. k + 1 \in 1 .. n /\ (k + 1) - 1 = k /\ k + 1 \in 0 .. n
      BY <1>1
    <3>2. it[k + 1] = IF k + 1 = 1 THEN ss[k + 1] ELSE it[k] \o ss[k + 1]
      BY <1>9, <3>1
    <3>3. f[k + 1] = f[k] \o ss[k + 1]
      BY <1>7, <3>1
    <3>4. CASE k = 0
      <4>1. f[k + 1] = ss[k + 1]
        BY <1>1, <1>6, <3>1, <3>3, <3>4 DEF Solves
      <4> QED BY <3>1, <3>2, <3>4, <4>1
    <3>5. CASE k # 0
      <4>1. it[k] = f[k] /\ k + 1 # 1
        BY <2>2, <3>5
      <4> QED BY <3>1, <3>2, <3>3, <4>1
    <3> QED BY <3>4, <3>5
  <2> HIDE DEF U
  <2>3. \A k \in 0 .. n : k \in U
    BY <1>1, <2>1, <2>2, IntervalSets
  <2> QED BY <2>3 DEF U
<1>11. FlattenSeq(ss) = f[n]
  <2>1. n \in 0 .. n /\ (n = 0 \/ it[n] = f[n])
    BY <1>1, <1>10
  <2> QED BY <1>4, <1>5, <1>6, <2>1 DEF Solves
<1> QED
  BY <1>6, <1>7, <1>11 DEF Joins, Solves, n, T, none

\* Joining the lists of a longer list of lists
LEMMA FlattenAppend ==
  ASSUME NEW A, NEW ss \in Seq(Seq(A)), NEW s \in Seq(A)
  PROVE  /\ FlattenSeq(ss) \in Seq(A)
         /\ FlattenSeq(Append(ss, s)) = FlattenSeq(ss) \o s
<1> DEFINE t == Append(ss, s)
           n == Len(ss)
<1>1. /\ t \in Seq(Seq(A)) /\ Len(t) = n + 1 /\ t[n + 1] = s /\ n \in Nat
      /\ \A i \in 1 .. n : t[i] = ss[i]
  OBVIOUS
<1> HIDE DEF t
<1>2. PICK f \in [0 .. Len(ss) -> Seq(A)] : Joins(f, ss)
  BY FlattenRecursion
<1>3. PICK g \in [0 .. Len(t) -> Seq(A)] : Joins(g, t)
  BY <1>1, FlattenRecursion
<1> DEFINE U == {k \in 0 .. n : f[k] = g[k]}
<1>4. 0 \in U
  BY <1>1, <1>2, <1>3 DEF Joins
<1>5. ASSUME NEW k \in 0 .. n - 1, k \in U
      PROVE  k + 1 \in U
  <2>1. /\ k + 1 \in 1 .. n /\ k + 1 \in 1 .. Len(t) /\ (k + 1) - 1 = k /\ k + 1 \in 0 .. n
    BY <1>1
  <2>2. f[k + 1] = f[k] \o ss[k + 1] /\ g[k + 1] = g[k] \o t[k + 1]
    BY <1>2, <1>3, <2>1 DEF Joins
  <2> QED BY <1>1, <1>5, <2>1, <2>2
<1> HIDE DEF U
<1>6. \A k \in 0 .. n : k \in U
  BY <1>1, <1>4, <1>5, IntervalSets
<1>7. f[n] = g[n] /\ n + 1 \in 1 .. Len(t) /\ (n + 1) - 1 = n /\ n \in 0 .. Len(ss)
  BY <1>1, <1>6 DEF U
<1>8. g[n + 1] = g[n] \o s
  BY <1>1, <1>3, <1>7 DEF Joins
<1>9. FlattenSeq(ss) = f[n] /\ FlattenSeq(t) = g[n + 1]
  BY <1>1, <1>2, <1>3 DEF Joins
<1>10. FlattenSeq(ss) \in Seq(A) /\ FlattenSeq(t) = FlattenSeq(ss) \o s
  BY <1>7, <1>8, <1>9
<1> QED
  BY <1>10 DEF t

\* Joining no lists
LEMMA FlattenEmpty == FlattenSeq(<<>>) = <<>>
BY DEF FlattenSeq

\* F maps each list over A to what steps from base make of it
FoldsTo(F, A, T, base, step) ==
  /\ F \in [Seq(A) -> T] /\ F[<<>>] = base
  /\ \A s \in Seq(A), a \in A : F[Append(s, a)] = step[<<F[s], a>>]

\* h is a function that FoldLeft may be defined by.
FoldsBy(h, s, base, step) ==
  \A S \in SUBSET DOMAIN s :
    h[S] = IF S = {} THEN base ELSE step[<<h[S \ {Max(S)}], s[Max(S)]>>]

\* So is this one, as far as its values are known
FoldsNear(h, s, A, T, base, step) ==
  /\ base \in T /\ step \in [T \X A -> T] /\ s \in Seq(A)
  /\ \A S \in SUBSET DOMAIN s :
       IF S = {} THEN h[S] = base
       ELSE h[S \ {Max(S)}] \in T => h[S] = step[<<h[S \ {Max(S)}], s[Max(S)]>>]

\* There is one, for every list.
LEMMA FoldSolution ==
  ASSUME NEW A, NEW T, NEW base \in T, NEW step \in [T \X A -> T], NEW s \in Seq(A)
  PROVE  \E h \in [SUBSET DOMAIN s -> T] : FoldsBy(h, s, base, step)
<1> DEFINE n == Len(s)
           one == [p \in T \X (1 .. n) |-> step[<<p[1], s[p[2]]>>]]
<1>1. n \in Nat /\ DOMAIN s = 1 .. n /\ \A i \in 1 .. n : s[i] \in A
  OBVIOUS
<1>2. one \in [T \X (1 .. n) -> T]
  BY <1>1
<1>3. \A t \in T, i \in 1 .. n : one[<<t, i>>] = step[<<t, s[i]>>]
  OBVIOUS
<1> HIDE DEF one, n
<1>4. PICK h \in [SUBSET (1 .. n) -> T] : Recursion(h, base, one, n)
  BY <1>1, <1>2, SubsetRecursion
<1>5. ASSUME NEW S \in SUBSET (1 .. n), S # {}
      PROVE  h[S] = step[<<h[S \ {Max(S)}], s[Max(S)]>>]
  <2>1. Max(S) \in 1 .. n /\ S \ {Max(S)} \in SUBSET (1 .. n)
    BY <1>1, <1>5, MaxInside
  <2>2. h[S] = one[<<h[S \ {Max(S)}], Max(S)>>]
    BY <1>4, <1>5 DEF Recursion
  <2> QED BY <1>3, <2>1, <2>2
<1>6. h[{}] = base
  BY <1>4 DEF Recursion
<1> QED
  BY <1>1, <1>4, <1>5, <1>6 DEF FoldsBy

\* The folds of the first k elements, on the way to that of the list
LEMMA FoldWay ==
  ASSUME NEW A, NEW T, NEW base, NEW step, NEW s, NEW h,
         FoldsNear(h, s, A, T, base, step)
  PROVE  /\ h[1 .. 0] = base
         /\ \A k \in 1 .. Len(s) : h[1 .. k] = step[<<h[1 .. k - 1], s[k]>>]
         /\ \A k \in 0 .. Len(s) : h[1 .. k] \in T
<1> DEFINE n == Len(s)
           one == [p \in T \X (1 .. n) |-> step[<<p[1], s[p[2]]>>]]
<1>0. base \in T /\ step \in [T \X A -> T] /\ s \in Seq(A)
  BY DEF FoldsNear
<1>1. n \in Nat /\ DOMAIN s = 1 .. n /\ \A i \in 1 .. n : s[i] \in A
  BY <1>0
<1>2. one \in [T \X (1 .. n) -> T]
  BY <1>0, <1>1
<1>3. \A t \in T, i \in 1 .. n : one[<<t, i>>] = step[<<t, s[i]>>]
  OBVIOUS
<1> HIDE DEF one, n
<1>4. Follows(h, base, one, T, n)
  <2> SUFFICES ASSUME NEW S \in SUBSET (1 .. n)
               PROVE  IF S = {} THEN h[S] = base
                      ELSE h[S \ {Max(S)}] \in T => h[S] = one[<<h[S \ {Max(S)}], Max(S)>>]
    BY DEF Follows
  <2>1. CASE S = {}
    BY <1>1, <2>1 DEF FoldsNear
  <2>2. CASE S # {}
    <3>1. Max(S) \in 1 .. n
      BY <1>1, <2>2, MaxInside
    <3> QED BY <1>1, <1>3, <2>2, <3>1 DEF FoldsNear
  <2> QED BY <2>1, <2>2
<1>5. /\ h[1 .. 0] = base
      /\ \A k \in 1 .. n : h[1 .. k] = one[<<h[1 .. k - 1], k>>]
      /\ \A k \in 0 .. n : h[1 .. k] \in T
  BY <1>0, <1>1, <1>2, <1>4, FoldPrefixes
<1>6. \A k \in 1 .. n : k - 1 \in 0 .. n
  BY <1>1
<1> QED
  BY <1>3, <1>5, <1>6 DEF n

\* Two lists that begin alike are folded alike so far.
LEMMA FoldAlike ==
  ASSUME NEW A, NEW T, NEW base, NEW step, NEW s, NEW t, NEW n,
         SameFirst(s, t, {}, {}, n),
         NEW g, FoldsNear(g, s, A, T, base, step), NEW h, FoldsNear(h, t, A, T, base, step)
  PROVE  g[1 .. n] = h[1 .. n]
<1> USE DEF SameFirst
<1>1. /\ g[1 .. 0] = base
      /\ \A k \in 1 .. Len(s) : g[1 .. k] = step[<<g[1 .. k - 1], s[k]>>]
  BY FoldWay
<1>2. /\ h[1 .. 0] = base
      /\ \A k \in 1 .. Len(t) : h[1 .. k] = step[<<h[1 .. k - 1], t[k]>>]
  BY FoldWay
<1> DEFINE U == {k \in 0 .. n : g[1 .. k] = h[1 .. k]}
<1>3. 0 \in U
  BY <1>1, <1>2
<1>4. ASSUME NEW k \in 0 .. n - 1, k \in U
      PROVE  k + 1 \in U
  <2>1. /\ k + 1 \in 1 .. n /\ k + 1 \in 1 .. Len(s) /\ k + 1 \in 1 .. Len(t)
        /\ (k + 1) - 1 = k /\ k + 1 \in 0 .. n
    OBVIOUS
  <2>2. g[1 .. k + 1] = step[<<g[1 .. k], s[k + 1]>>]
    BY <1>1, <2>1
  <2>3. h[1 .. k + 1] = step[<<h[1 .. k], t[k + 1]>>]
    BY <1>2, <2>1
  <2>4. s[k + 1] = t[k + 1] /\ g[1 .. k] = h[1 .. k]
    BY <1>4, <2>1
  <2> QED BY <2>1, <2>2, <2>3, <2>4
<1> HIDE DEF U
<1>5. \A k \in 0 .. n : k \in U
  BY <1>3, <1>4, IntervalSets
<1> QED
  BY <1>5 DEF U

\* What any such function says of a list
Fold(A, T, base, step, s) ==
  LET h == CHOOSE h \in [SUBSET DOMAIN s -> T] : FoldsBy(h, s, base, step)
  IN  h[DOMAIN s]

\* Folding is a function of the list.
LEMMA FoldExists ==
  ASSUME NEW A, NEW T, NEW base \in T, NEW step \in [T \X A -> T]
  PROVE  \E F : FoldsTo(F, A, T, base, step)
<1> DEFINE F == [s \in Seq(A) |-> Fold(A, T, base, step, s)]
<1>1. ASSUME NEW s \in Seq(A)
      PROVE  \E h : /\ FoldsNear(h, s, A, T, base, step)
                    /\ F[s] = h[1 .. Len(s)] /\ h[1 .. Len(s)] \in T
  <2> DEFINE h == CHOOSE h \in [SUBSET DOMAIN s -> T] : FoldsBy(h, s, base, step)
  <2>1. h \in [SUBSET DOMAIN s -> T] /\ FoldsBy(h, s, base, step)
    BY FoldSolution
  <2>2. F[s] = h[DOMAIN s]
    BY Zenon DEF Fold
  <2>3. DOMAIN s = 1 .. Len(s) /\ DOMAIN s \in SUBSET DOMAIN s
    OBVIOUS
  <2> HIDE DEF h, F
  <2>4. FoldsNear(h, s, A, T, base, step)
    BY <2>1 DEF FoldsNear, FoldsBy
  <2> QED BY <2>1, <2>2, <2>3, <2>4
<1>2. F = [s \in Seq(A) |-> F[s]]
  OBVIOUS
<1> HIDE DEF F
<1>3. F \in [Seq(A) -> T]
  BY <1>1, <1>2
<1>4. F[<<>>] = base
  <2>1. <<>> \in Seq(A) /\ Len(<<>>) = 0
    OBVIOUS
  <2>2. PICK h : FoldsNear(h, <<>>, A, T, base, step) /\ F[<<>>] = h[1 .. Len(<<>>)]
    BY <1>1, <2>1
  <2>3. h[1 .. 0] = base
    BY <2>1, <2>2, FoldWay
  <2> QED BY <2>1, <2>2, <2>3
<1>5. ASSUME NEW s \in Seq(A), NEW a \in A
      PROVE  F[Append(s, a)] = step[<<F[s], a>>]
  <2> DEFINE t == Append(s, a)
             n == Len(s)
  <2>1. /\ t \in Seq(A) /\ Len(t) = n + 1 /\ t[n + 1] = a /\ n \in Nat
        /\ \A i \in 1 .. n : t[i] = s[i]
    OBVIOUS
  <2> HIDE DEF t
  <2>2. PICK g : FoldsNear(g, s, A, T, base, step) /\ F[s] = g[1 .. n]
    BY <1>1
  <2>3. PICK h : FoldsNear(h, t, A, T, base, step) /\ F[t] = h[1 .. n + 1]
    BY <1>1, <2>1
  <2>4. g[1 .. n] = h[1 .. n]
    <3>1. SameFirst(s, t, {}, {}, n)
      BY <2>1 DEF SameFirst
    <3> QED BY <2>2, <2>3, <3>1, FoldAlike
  <2>5. \A k \in 1 .. Len(t) : h[1 .. k] = step[<<h[1 .. k - 1], t[k]>>]
    BY <2>1, <2>3, FoldWay
  <2>6. n + 1 \in 1 .. Len(t) /\ (n + 1) - 1 = n
    BY <2>1
  <2>7. h[1 .. n + 1] = step[<<h[1 .. n], a>>]
    BY <2>1, <2>5, <2>6
  <2> QED BY <2>2, <2>3, <2>4, <2>7 DEF t
<1> QED
  BY <1>3, <1>4, <1>5 DEF FoldsTo

\* What FoldLeft chooses agrees with it.
LEMMA FoldIs ==
  ASSUME NEW A, NEW T, NEW base, NEW step, NEW F, FoldsTo(F, A, T, base, step),
         NEW s, NEW h, FoldsNear(h, s, A, T, base, step)
  PROVE  h[DOMAIN s] = F[s]
<1>0. base \in T /\ step \in [T \X A -> T] /\ s \in Seq(A)
  BY DEF FoldsNear
<1> DEFINE U == {t \in Seq(A) : \A g : FoldsNear(g, t, A, T, base, step) => g[1 .. Len(t)] = F[t]}
<1>1. <<>> \in U
  <2>1. <<>> \in Seq(A) /\ Len(<<>>) = 0
    OBVIOUS
  <2>2. ASSUME NEW g, FoldsNear(g, <<>>, A, T, base, step)
        PROVE  g[1 .. 0] = F[<<>>]
    <3>1. g[1 .. 0] = base
      BY <2>1, <2>2, FoldWay
    <3> QED BY <3>1 DEF FoldsTo
  <2> QED BY <2>1, <2>2
<1>2. ASSUME NEW t \in Seq(A), NEW a \in A, t \in U
      PROVE  Append(t, a) \in U
  <2> DEFINE u == Append(t, a)
             n == Len(t)
  <2>1. /\ u \in Seq(A) /\ Len(u) = n + 1 /\ u[n + 1] = a /\ n \in Nat
        /\ \A i \in 1 .. n : u[i] = t[i]
    OBVIOUS
  <2> HIDE DEF u
  <2>2. ASSUME NEW g, FoldsNear(g, u, A, T, base, step)
        PROVE  g[1 .. n + 1] = F[u]
    <3>1. PICK k \in [SUBSET DOMAIN t -> T] : FoldsBy(k, t, base, step)
      BY <1>0, FoldSolution
    <3>2. FoldsNear(k, t, A, T, base, step)
      BY <1>0, <3>1 DEF FoldsBy, FoldsNear
    <3>3. k[1 .. n] = F[t] /\ k[1 .. n] = g[1 .. n]
      <4>1. SameFirst(t, u, {}, {}, n)
        BY <2>1 DEF SameFirst
      <4> QED BY <1>2, <2>2, <3>2, <4>1, FoldAlike
    <3>4. \A j \in 1 .. Len(u) : g[1 .. j] = step[<<g[1 .. j - 1], u[j]>>]
      BY <2>1, <2>2, FoldWay
    <3>5. n + 1 \in 1 .. Len(u) /\ (n + 1) - 1 = n
      BY <2>1
    <3>6. g[1 .. n + 1] = step[<<g[1 .. n], a>>]
      BY <2>1, <3>4, <3>5
    <3> QED BY <3>3, <3>6 DEF FoldsTo, u
  <2>3. u \in U
    BY <2>1, <2>2
  <2> QED BY <2>3 DEF u
<1> HIDE DEF U
<1>3. s \in U
  BY <1>0, <1>1, <1>2, SeqSets
<1>4. DOMAIN s = 1 .. Len(s)
  BY <1>0
<1> QED
  BY <1>3, <1>4 DEF U

\* Folding on from what a first list was folded to
LEMMA FoldConcat ==
  ASSUME NEW A, NEW T, NEW base, NEW step, NEW F, FoldsTo(F, A, T, base, step),
         NEW s \in Seq(A), NEW G, FoldsTo(G, A, T, F[s], step), NEW t \in Seq(A)
  PROVE  G[t] = F[s \o t]
<1> DEFINE U == {u \in Seq(A) : G[u] = F[s \o u]}
<1>1. <<>> \in U
  <2>1. <<>> \in Seq(A) /\ s \o <<>> = s
    BY ConcatEmpty
  <2> QED BY <2>1 DEF FoldsTo
<1>2. ASSUME NEW u \in Seq(A), NEW a \in A, u \in U
      PROVE  Append(u, a) \in U
  <2>1. s \o Append(u, a) = Append(s \o u, a)
    BY ConcatAppend
  <2>2. s \o u \in Seq(A) /\ Append(u, a) \in Seq(A)
    OBVIOUS
  <2>3. G[Append(u, a)] = step[<<G[u], a>>] /\ F[Append(s \o u, a)] = step[<<F[s \o u], a>>]
    BY <2>2 DEF FoldsTo
  <2> QED BY <1>2, <2>1, <2>2, <2>3
<1> HIDE DEF U
<1>3. t \in U
  BY <1>1, <1>2, SeqSets
<1> QED
  BY <1>3 DEF U

\* What is kept of two lists joined
LEMMA KeepConcat ==
  ASSUME NEW A, NEW s \in Seq(A), NEW t \in Seq(A), NEW S
  PROVE  Keep(s \o t, S) = Keep(s, S) \o Keep(t, S)
<1> DEFINE U == {u \in Seq(A) : Keep(s \o u, S) = Keep(s, S) \o Keep(u, S)}
<1>0. \A u \in Seq(A) : Keep(u, S) \in Seq(A)
  BY KeepEqual
<1>1. <<>> \in U
  <2>1. <<>> \in Seq(A) /\ s \o <<>> = s /\ Keep(s, S) \o <<>> = Keep(s, S)
    BY <1>0, ConcatEmpty
  <2> QED BY <2>1, KeepEmpty
<1>2. ASSUME NEW u \in Seq(A), NEW a \in A, u \in U
      PROVE  Append(u, a) \in U
  <2>1. s \o Append(u, a) = Append(s \o u, a)
    BY ConcatAppend
  <2>2. s \o u \in Seq(A) /\ Append(u, a) \in Seq(A)
    OBVIOUS
  <2>3. /\ Keep(Append(u, a), S) = IF a \in S THEN Append(Keep(u, S), a) ELSE Keep(u, S)
        /\ Keep(Append(s \o u, a), S) =
             IF a \in S THEN Append(Keep(s \o u, S), a) ELSE Keep(s \o u, S)
    BY <2>2, KeepAppend
  <2>4. Keep(s, S) \o Append(Keep(u, S), a) = Append(Keep(s, S) \o Keep(u, S), a)
    BY <1>0, ConcatAppend
  <2> QED BY <1>2, <2>1, <2>2, <2>3, <2>4
<1> HIDE DEF U
<1>3. t \in U
  BY <1>1, <1>2, SeqSets
<1> QED
  BY <1>3 DEF U

\* A list of which all is kept
LEMMA KeepAll ==
  ASSUME NEW A, NEW s \in Seq(A), NEW S, A \subseteq S
  PROVE  Keep(s, S) = s
<1> DEFINE U == {u \in Seq(A) : Keep(u, S) = u}
<1>1. <<>> \in U
  BY KeepEmpty
<1>2. ASSUME NEW u \in Seq(A), NEW a \in A, u \in U
      PROVE  Append(u, a) \in U
  BY <1>2, KeepAppend
<1> HIDE DEF U
<1>3. s \in U
  BY <1>1, <1>2, SeqSets
<1> QED
  BY <1>3 DEF U

\* The last element of a list with one more, and of two lists joined
LEMMA LastAppend ==
  ASSUME NEW A, NEW s \in Seq(A), NEW a \in A
  PROVE  Append(s, a) # <<>> /\ Last(Append(s, a)) = a
BY DEF Last

\* The last of two lists joined
LEMMA LastConcat ==
  ASSUME NEW A, NEW s \in Seq(A), NEW t \in Seq(A)
  PROVE  IF t = <<>> THEN s \o t = s ELSE s \o t # <<>> /\ Last(s \o t) = Last(t)
<1>1. CASE t = <<>>
  BY <1>1, ConcatEmpty
<1>2. CASE t # <<>>
  <2> DEFINE n == Len(s)
             m == Len(t)
             u == s \o t
  <2>1. n \in Nat /\ m \in Nat \ {0} /\ Len(u) = n + m
    BY <1>2
  <2>2. u[n + m] = t[m]
    BY <2>1
  <2>3. u # <<>>
    BY <2>1
  <2> QED BY <1>2, <2>1, <2>2, <2>3 DEF Last
<1> QED
  BY <1>1, <1>2

\* Joining lists of which at most one has anything
LEMMA FlattenOne ==
  ASSUME NEW A, NEW ss \in Seq(Seq(A)), NEW k, NEW s,
         \A i \in DOMAIN ss : ss[i] = IF i = k THEN s ELSE <<>>
  PROVE  FlattenSeq(ss) = IF k \in DOMAIN ss THEN s ELSE <<>>
<1> DEFINE n == Len(ss)
<1>1. PICK f \in [0 .. n -> Seq(A)] : Joins(f, ss)
  BY FlattenRecursion
<1>2. n \in Nat /\ DOMAIN ss = 1 .. n /\ \A i \in 1 .. n : ss[i] \in Seq(A)
  OBVIOUS
<1> HIDE DEF n
<1> DEFINE U == {i \in 0 .. n : f[i] = IF k \in 1 .. i THEN s ELSE <<>>}
<1>3. 0 \in U
  BY <1>1, <1>2 DEF Joins
<1>4. ASSUME NEW i \in 0 .. n - 1, i \in U
      PROVE  i + 1 \in U
  <2>1. i + 1 \in 1 .. n /\ (i + 1) - 1 = i /\ i + 1 \in 0 .. n /\ i \in 0 .. n /\ i \in Nat
    BY <1>2
  <2>2. f[i + 1] = f[i] \o ss[i + 1] /\ f[i] \in Seq(A)
    BY <1>1, <2>1 DEF Joins, n
  <2>3. CASE k = i + 1
    <3>1. ss[i + 1] = s /\ s \in Seq(A) /\ f[i] = <<>> /\ k \in 1 .. i + 1
      <4>1. k \notin 1 .. i /\ k \in 1 .. i + 1
        BY <2>1, <2>3
      <4>2. f[i] = IF k \in 1 .. i THEN s ELSE <<>>
        BY <1>4
      <4>3. i + 1 \in DOMAIN ss /\ ss[i + 1] \in Seq(A)
        BY <1>2, <2>1
      <4> QED BY <2>3, <4>1, <4>2, <4>3
    <3>2. <<>> \o s = s
      BY <3>1, ConcatEmpty
    <3> QED BY <2>1, <2>2, <3>1, <3>2
  <2>4. CASE k # i + 1
    <3>1. ss[i + 1] = <<>>
      BY <1>2, <2>1, <2>4
    <3>2. f[i] \o <<>> = f[i]
      BY <2>2, ConcatEmpty
    <3>3. k \in 1 .. i + 1 <=> k \in 1 .. i
      BY <2>1, <2>4
    <3> QED BY <1>4, <2>1, <2>2, <3>1, <3>2, <3>3
  <2> QED BY <2>3, <2>4
<1> HIDE DEF U
<1>5. \A i \in 0 .. n : i \in U
  BY <1>2, <1>3, <1>4, IntervalSets
<1>6. FlattenSeq(ss) = f[n] /\ n \in U
  BY <1>1, <1>2, <1>5 DEF Joins, n
<1> QED
  BY <1>2, <1>6 DEF U

\* Lines that stand: the ones in V that no later one in V replaces; R relates
\* a line to those that replace it.
Standing(s, V, R) ==
  {i \in DOMAIN s :
     s[i] \in V /\ \A j \in DOMAIN s : j > i /\ s[j] \in V => <<s[i], s[j]>> \notin R}

\* What a step adds a valid line to
NotReplaced(A, R, a) == {k \in A : <<k, a>> \notin R}

\* A valid line takes out what it replaces and goes to the end if it is in N.
Replaces(step, A, V, R, N) ==
  /\ step \in [Seq(A) \X A -> Seq(A)]
  /\ \A q \in Seq(A), a \in A :
       step[<<q, a>>] = IF a \notin V THEN q
                        ELSE IF a \in N THEN Append(Keep(q, NotReplaced(A, R, a)), a)
                        ELSE Keep(q, NotReplaced(A, R, a))

\* Then the list holds the lines that stand and are in N.
LEMMA Replacing ==
  ASSUME NEW A, NEW V, NEW R, NEW N, NEW step, Replaces(step, A, V, R, N),
         NEW F, FoldsTo(F, A, Seq(A), <<>>, step), NEW s \in Seq(A)
  PROVE  F[s] = Keep(Pick(s, Standing(s, V, R)), N)
<1> DEFINE U == {t \in Seq(A) : F[t] = Keep(Pick(t, Standing(t, V, R)), N)}
<1>1. <<>> \in U
  BY PickEmpty, KeepEmpty DEF FoldsTo
<1>2. ASSUME NEW t \in Seq(A), NEW a \in A, t \in U
      PROVE  Append(t, a) \in U
  <2> DEFINE u == Append(t, a)
             n == Len(t)
             I == Standing(t, V, R)
             J == Standing(u, V, R)
             K == NotReplaced(A, R, a)
             P == Pick(t, I)
  <2>1. /\ u \in Seq(A) /\ Len(u) = n + 1 /\ u[n + 1] = a /\ n \in Nat
        /\ \A i \in 1 .. n : u[i] = t[i] /\ t[i] \in A
        /\ DOMAIN t = 1 .. n /\ DOMAIN u = 1 .. n + 1
    OBVIOUS
  <2>2. F[u] = step[<<F[t], a>>] /\ F[t] = Keep(P, N) /\ F[t] \in Seq(A)
    BY <1>2 DEF FoldsTo
  <2>3. Pick(u, J) = IF n + 1 \in J THEN Append(Pick(t, J), a) ELSE Pick(t, J)
    BY PickAppend
  <2>4. P \in Seq(A)
    BY PickEqual
  <2> HIDE DEF u
  <2>a. step[<<F[t], a>>] = IF a \notin V THEN F[t]
                            ELSE IF a \in N THEN Append(Keep(F[t], K), a) ELSE Keep(F[t], K)
    BY <2>2 DEF Replaces
  <2>5. CASE a \notin V
    <3>1. n + 1 \notin J /\ \A i \in DOMAIN t : i \in J <=> i \in I
      <4>1. n + 1 \notin J
        BY <2>1, <2>5 DEF Standing
      <4>2. ASSUME NEW i \in DOMAIN t PROVE i \in J <=> i \in I
        <5>1. \A j \in 1 .. n + 1 : u[j] \in V <=> j \in 1 .. n /\ t[j] \in V
          BY <2>1, <2>5
        <5> QED BY <2>1, <5>1 DEF Standing
      <4> QED BY <4>1, <4>2
    <3>2. Pick(t, J) = P
      BY <3>1, PickEqual
    <3>3. F[u] = F[t]
      BY <2>2, <2>5, <2>a
    <3> QED BY <2>1, <2>2, <2>3, <3>1, <3>2, <3>3 DEF u
  <2>6. CASE a \in V
    <3>1. n + 1 \in J
      BY <2>1, <2>6 DEF Standing
    <3>2. \A i \in DOMAIN t : i \in J <=> i \in {k \in I : t[k] \in K}
      <4> SUFFICES ASSUME NEW i \in DOMAIN t PROVE i \in J <=> i \in I /\ t[i] \in K
        OBVIOUS
      <4>1. i \in 1 .. n /\ n + 1 > i /\ n + 1 \in DOMAIN u /\ i \in DOMAIN u
        BY <2>1
      <4>2. i \in J <=> /\ t[i] \in V /\ <<t[i], a>> \notin R
                        /\ \A j \in 1 .. n : j > i /\ t[j] \in V => <<t[i], t[j]>> \notin R
        <5>1. i \in J <=> /\ u[i] \in V
                          /\ \A j \in DOMAIN u : j > i /\ u[j] \in V => <<u[i], u[j]>> \notin R
          BY <4>1 DEF Standing
        <5>2. u[i] = t[i] /\ u[n + 1] = a
          BY <2>1, <4>1
        <5>3. \A j \in DOMAIN u : j = n + 1 \/ j \in 1 .. n
          BY <2>1
        <5>4. \A j \in 1 .. n : j \in DOMAIN u /\ u[j] = t[j]
          BY <2>1
        <5> HIDE DEF J, n
        <5> QED BY <2>6, <4>1, <5>1, <5>2, <5>3, <5>4
      <4> QED BY <2>1, <4>1, <4>2 DEF Standing, NotReplaced
    <3>3. Pick(t, J) = Keep(P, K) /\ Keep(P, K) \in Seq(A)
      <4>1. Keep(P, K) = Pick(t, {k \in I : t[k] \in K})
        BY KeepPick
      <4>2. Pick(t, J) = Pick(t, {k \in I : t[k] \in K}) /\ Pick(t, J) \in Seq(A)
        <5> HIDE DEF J, I, K
        <5> QED BY <3>2, PickEqual
      <4> QED BY <4>1, <4>2
    <3>4. Keep(Keep(P, K), N) = Keep(F[t], K)
      <4>1. Keep(Keep(P, K), N) = Keep(P, K \cap N) /\ Keep(Keep(P, N), K) = Keep(P, N \cap K)
        BY <2>4, KeepKeep
      <4>2. K \cap N = N \cap K
        OBVIOUS
      <4> QED BY <2>2, <4>1, <4>2
    <3>5. Keep(Append(Keep(P, K), a), N) =
            IF a \in N THEN Append(Keep(Keep(P, K), N), a) ELSE Keep(Keep(P, K), N)
      BY <3>3, KeepAppend
    <3>6. F[u] = IF a \in N THEN Append(Keep(F[t], K), a) ELSE Keep(F[t], K)
      BY <2>2, <2>6, <2>a
    <3>7. F[u] = Keep(Pick(u, J), N)
      BY <2>3, <3>1, <3>3, <3>4, <3>5, <3>6
    <3> QED BY <2>1, <3>7 DEF u
  <2> QED BY <2>5, <2>6
<1> HIDE DEF U
<1>3. s \in U
  BY <1>1, <1>2, SeqSets
<1> QED
  BY <1>3 DEF U

\* The greatest index of some of a list
LEMMA GreatestIndex ==
  ASSUME NEW A, NEW s \in Seq(A), NEW S \in SUBSET DOMAIN s, S # {}
  PROVE  Max(S) \in DOMAIN s /\ S \ {Max(S)} \in SUBSET DOMAIN s /\ s[Max(S)] \in A
<1>1. Len(s) \in Nat /\ DOMAIN s = 1 .. Len(s) /\ \A i \in 1 .. Len(s) : s[i] \in A
  OBVIOUS
<1> QED
  BY <1>1, MaxInside

\* A finite set as a list
LEMMA SetListed ==
  ASSUME NEW S, IsFiniteSet(S)
  PROVE  SetToSeq(S) \in Seq(S) /\ ToSet(SetToSeq(S)) = S
<1> DEFINE n == Cardinality(S)
           q == SetToSeq(S)
<1>1. n \in Nat /\ ExistsBijection(1 .. n, S)
  BY FS_CardinalityType
<1>2. Cardinality(1 .. n) = n
  BY <1>1, FS_Interval
<1> HIDE DEF n
<1>3. \E f \in [1 .. n -> S] : IsInjective(f)
  <2>1. PICK f \in Bijection(1 .. n, S) : TRUE
    BY <1>1 DEF ExistsBijection
  <2>2. f \in [1 .. n -> S] /\ IsInjective(f)
    BY <2>1 DEF Bijection, Injection, IsInjective
  <2> QED BY <2>2
<1>4. q \in [1 .. n -> S] /\ IsInjective(q)
  BY <1>3, Zenon DEF SetToSeq, n
<1> HIDE DEF q
<1>5. q \in Injection(1 .. n, S)
  BY <1>4 DEF Injection, IsInjective
<1>6. q \in Surjection(1 .. n, S)
  BY <1>2, <1>5, FS_Injection DEF n
<1>7. ToSet(q) = S
  <2>1. DOMAIN q = 1 .. n
    BY <1>4
  <2>2. \A x \in S : \E i \in 1 .. n : q[i] = x
    BY <1>6 DEF Surjection
  <2> QED BY <1>4, <2>1, <2>2 DEF ToSet
<1> QED
  BY <1>1, <1>4, <1>7 DEF q

\* The elements of a list with one more, and of two lists joined
LEMMA AppendedElements ==
  ASSUME NEW A, NEW s \in Seq(A), NEW a \in A
  PROVE  ToSet(Append(s, a)) = ToSet(s) \cup {a}
<1> DEFINE u == Append(s, a)
           n == Len(s)
<1>1. /\ DOMAIN u = 1 .. n + 1 /\ DOMAIN s = 1 .. n /\ n \in Nat /\ u[n + 1] = a
      /\ \A i \in 1 .. n : u[i] = s[i]
  OBVIOUS
<1> HIDE DEF u
<1>2. \A i : i \in 1 .. n + 1 <=> i \in 1 .. n \/ i = n + 1
  BY <1>1
<1>3. ToSet(u) = ToSet(s) \cup {a}
  BY <1>1, <1>2 DEF ToSet
<1> QED
  BY <1>3 DEF u

\* The elements of two lists joined
LEMMA JoinedElements ==
  ASSUME NEW A, NEW s \in Seq(A), NEW t \in Seq(A)
  PROVE  ToSet(s \o t) = ToSet(s) \cup ToSet(t)
<1> DEFINE U == {u \in Seq(A) : ToSet(s \o u) = ToSet(s) \cup ToSet(u)}
<1>1. <<>> \in U
  <2>1. <<>> \in Seq(A) /\ s \o <<>> = s /\ ToSet(<<>>) = {}
    BY ConcatEmpty DEF ToSet
  <2> QED BY <2>1
<1>2. ASSUME NEW u \in Seq(A), NEW a \in A, u \in U
      PROVE  Append(u, a) \in U
  <2>1. s \o Append(u, a) = Append(s \o u, a)
    BY ConcatAppend
  <2>2. s \o u \in Seq(A) /\ Append(u, a) \in Seq(A)
    OBVIOUS
  <2>3. /\ ToSet(Append(u, a)) = ToSet(u) \cup {a}
        /\ ToSet(Append(s \o u, a)) = ToSet(s \o u) \cup {a}
    <3> DEFINE v == s \o u
    <3>1. v \in Seq(A)
      BY <2>2
    <3> HIDE DEF U, v
    <3>2. ToSet(Append(v, a)) = ToSet(v) \cup {a}
      BY <3>1, AppendedElements
    <3> QED BY <3>2, AppendedElements DEF v
  <2> QED BY <1>2, <2>1, <2>2, <2>3
<1> HIDE DEF U
<1>3. t \in U
  BY <1>1, <1>2, SeqSets
<1> QED
  BY <1>3 DEF U

\* What is kept is what was there and is wanted.
LEMMA KeptElements ==
  ASSUME NEW A, NEW s \in Seq(A), NEW S
  PROVE  ToSet(Keep(s, S)) = ToSet(s) \cap S
<1> DEFINE U == {t \in Seq(A) : ToSet(Keep(t, S)) = ToSet(t) \cap S}
<1>1. <<>> \in U
  <2>1. ToSet(<<>>) = {} /\ <<>> \in Seq(A)
    BY DEF ToSet
  <2> QED BY <2>1, KeepEmpty
<1>2. ASSUME NEW t \in Seq(A), NEW a \in A, t \in U
      PROVE  Append(t, a) \in U
  <2>1. Keep(t, S) \in Seq(A)
    BY KeepEqual
  <2>2. Keep(Append(t, a), S) = IF a \in S THEN Append(Keep(t, S), a) ELSE Keep(t, S)
    BY KeepAppend
  <2>3. /\ ToSet(Append(t, a)) = ToSet(t) \cup {a}
        /\ ToSet(Append(Keep(t, S), a)) = ToSet(Keep(t, S)) \cup {a}
    BY <2>1, AppendedElements
  <2>4. ToSet(Keep(t, S)) = ToSet(t) \cap S
    BY <1>2
  <2>5. ToSet(Keep(Append(t, a), S)) = ToSet(Append(t, a)) \cap S
    BY <2>2, <2>3, <2>4
  <2> QED BY <2>5
<1> HIDE DEF U
<1>3. s \in U
  BY <1>1, <1>2, SeqSets
<1> QED
  BY <1>3 DEF U

\* The last element is one of them.
LEMMA LastIn ==
  ASSUME NEW A, NEW s \in Seq(A), s # <<>>
  PROVE  Last(s) \in ToSet(s) /\ Last(s) \in A
<1>1. Len(s) \in DOMAIN s
  OBVIOUS
<1> QED
  BY <1>1 DEF Last, ToSet

=============================================================================
