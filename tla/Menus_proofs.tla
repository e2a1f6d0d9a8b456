---------------------------- MODULE Menus_proofs ----------------------------
(***************************************************************************)
(* Theorems about the menus, for any entries, letters, output and pointer. *)
(*   - What menu_filter gives back when it returns: the grabs, the focus   *)
(*     and the pointer (MInv).                                             *)
(*   - What a menu offers: the matches of the text, or everything, on its  *)
(*     output (RInv); in their order; and none lost to completion.         *)
(* The order rests on what search.c computes: its loops are folds, and     *)
(* Lists_proofs has the induction over what they go through.               *)
(***************************************************************************)
EXTENDS Menus, Lists_proofs, FiniteSetTheorems, SequenceTheorems, TLAPS

----------------------------------------------------------------------------
(* Searching: texts and their order.                                       *)

\* Texts are sequences of letters
Words == Seq(Nat)

\* s starts as t does
LEMMA PrefixAt ==
  ASSUME NEW A, NEW s \in Seq(A), NEW t \in Seq(A)
  PROVE  IsPrefix(s, t) <=> Len(s) <= Len(t) /\ \A i \in 1..Len(s) : s[i] = t[i]
<1> DEFINE u == SubSeq(s, 1, Len(s))
           v == SubSeq(t, 1, Len(s))
<1>1. CASE Len(s) <= Len(t)
  <2>1. u \in Seq(A) /\ Len(u) = Len(s) /\ \A i \in 1..Len(s) : u[i] = s[i]
    OBVIOUS
  <2>2. v \in Seq(A) /\ Len(v) = Len(s) /\ \A i \in 1..Len(s) : v[i] = t[i]
    BY <1>1
  <2> HIDE DEF u, v
  <2>3. u = v <=> \A i \in 1..Len(s) : u[i] = v[i]
    BY <2>1, <2>2, SeqEqual
  <2>4. IsPrefix(s, t) <=> u = v
    BY <1>1 DEF IsPrefix, u, v
  <2> QED
    BY <1>1, <2>1, <2>2, <2>3, <2>4
<1>2. CASE ~(Len(s) <= Len(t))
  BY <1>2 DEF IsPrefix
<1> QED
  BY <1>1, <1>2

\* s and t agree in k letters, and then s ends or has the lesser letter
Parts(s, t, k) ==
  /\ k <= Len(s) /\ k < Len(t)
  /\ \A i \in 1..k : s[i] = t[i]
  /\ k < Len(s) => s[k + 1] < t[k + 1]

\* The order of texts, letter by letter
LEMMA BeforeAt ==
  ASSUME NEW s \in Words, NEW t \in Words
  PROVE  Before(s, t) <=> \E k \in Nat : Parts(s, t, k)
<1> USE DEF Words
<1>0. /\ \A j \in 1..Len(s) : s[j] \in Nat
      /\ \A j \in 1..Len(t) : t[j] \in Nat
  OBVIOUS
<1>1. IsStrictPrefix(s, t) <=> Parts(s, t, Len(s))
  <2>0. s \in Seq(Nat) /\ t \in Seq(Nat)
    OBVIOUS
  <2>1. IsPrefix(s, t) <=> Len(s) <= Len(t) /\ \A i \in 1..Len(s) : s[i] = t[i]
    <3> HIDE DEF Words
    <3>1. PICK A : s \in Seq(A) /\ t \in Seq(A)
      BY <2>0
    <3> QED
      BY <3>1, PrefixAt
  <2>2. s = t <=> Len(s) = Len(t) /\ \A i \in 1..Len(s) : s[i] = t[i]
    BY SeqEqual
  <2> QED
    BY <2>1, <2>2 DEF IsStrictPrefix, Parts
<1>2. ASSUME NEW i \in DOMAIN s \cap DOMAIN t
      PROVE  /\ i - 1 \in Nat
             /\ SubSeq(s, 1, i - 1) = SubSeq(t, 1, i - 1) /\ s[i] < t[i]
                 <=> Parts(s, t, i - 1)
  <2> DEFINE u == SubSeq(s, 1, i - 1)
             v == SubSeq(t, 1, i - 1)
  <2>0. i \in 1..Len(s) /\ i \in 1..Len(t) /\ i - 1 \in Nat /\ (i - 1) + 1 = i
    OBVIOUS
  <2>6. /\ \A j \in 1..(i - 1) : s[j] \in Nat /\ t[j] \in Nat
        /\ i - 1 \in Int /\ 1 \in Int /\ (i - 1) - 1 + 1 = i - 1
        /\ \A j \in 1..(i - 1) : 1 + j - 1 = j
        /\ ~(1 <= i - 1) => i - 1 = 0
    <3>1. \A j \in 1..(i - 1) : j \in 1..Len(s) /\ j \in 1..Len(t)
      BY <2>0, SMTT(30)
    <3>2. \A j \in 1..(i - 1) : s[j] \in Nat /\ t[j] \in Nat
      BY <1>0, <3>1
    <3> QED
      BY <2>0, <3>2
  <2>1. u \in Seq(Nat) /\ Len(u) = i - 1 /\ \A j \in 1..(i - 1) : u[j] = s[j]
    <3>1. /\ u \in Seq(Nat) /\ Len(u) = IF 1 <= i - 1 THEN (i - 1) - 1 + 1 ELSE 0
          /\ \A j \in 1..((i - 1) - 1 + 1) : u[j] = s[1 + j - 1]
      BY <2>6, SubSeqProperties, SMTT(30)
    <3> QED
      BY <2>6, <3>1
  <2>2. v \in Seq(Nat) /\ Len(v) = i - 1 /\ \A j \in 1..(i - 1) : v[j] = t[j]
    <3>1. /\ v \in Seq(Nat) /\ Len(v) = IF 1 <= i - 1 THEN (i - 1) - 1 + 1 ELSE 0
          /\ \A j \in 1..((i - 1) - 1 + 1) : v[j] = t[1 + j - 1]
      BY <2>6, SubSeqProperties, SMTT(30)
    <3> QED
      BY <2>6, <3>1
  <2> HIDE DEF u, v
  <2>3. u = v <=> \A j \in 1..(i - 1) : u[j] = v[j]
    BY <2>1, <2>2, SeqEqual
  <2>4. u = v <=> \A j \in 1..(i - 1) : s[j] = t[j]
    BY <2>1, <2>2, <2>3
  <2>5. u = v /\ s[i] < t[i] <=> Parts(s, t, i - 1)
    BY <2>0, <2>4 DEF Parts
  <2> QED
    BY <2>0, <2>5 DEF u, v
<1>3. ASSUME NEW k \in Nat, Parts(s, t, k)
      PROVE  k = Len(s) \/ (k + 1 \in DOMAIN s \cap DOMAIN t /\ (k + 1) - 1 = k)
  BY <1>3 DEF Parts
<1>4. Before(s, t) => \E k \in Nat : Parts(s, t, k)
  <2>1. Len(s) \in Nat
    OBVIOUS
  <2> QED
    BY <1>1, <1>2, <2>1 DEF Before
<1>5. ASSUME NEW k \in Nat, Parts(s, t, k) PROVE Before(s, t)
  <2>1. CASE k = Len(s)
    BY <1>1, <1>5, <2>1 DEF Before
  <2>2. CASE k + 1 \in DOMAIN s \cap DOMAIN t /\ (k + 1) - 1 = k
    <3>1. PICK i \in DOMAIN s \cap DOMAIN t : i = k + 1 /\ i - 1 = k
      BY <2>2
    <3> QED
      BY <1>2, <1>5, <3>1 DEF Before
  <2> QED
    BY <1>3, <1>5, <2>1, <2>2
<1> QED
  BY <1>4, <1>5

\* The order of texts is transitive.
LEMMA BeforeTransitive ==
  ASSUME NEW s \in Words, NEW t \in Words, NEW u \in Words, Before(s, t), Before(t, u)
  PROVE  Before(s, u)
<1>1. PICK k \in Nat : Parts(s, t, k)
  BY BeforeAt
<1>2. PICK l \in Nat : Parts(t, u, l)
  BY BeforeAt
<1>3. /\ Len(s) \in Nat /\ Len(t) \in Nat /\ Len(u) \in Nat
      /\ \A i \in 1..Len(s) : s[i] \in Nat
      /\ \A i \in 1..Len(t) : t[i] \in Nat
      /\ \A i \in 1..Len(u) : u[i] \in Nat
  BY DEF Words
<1>4. CASE k < l
  <2>1. Parts(s, u, k)
    BY <1>1, <1>2, <1>3, <1>4 DEF Parts
  <2> QED
    BY <2>1, BeforeAt
<1>5. CASE k = l
  <2>1. Parts(s, u, k)
    BY <1>1, <1>2, <1>3, <1>5 DEF Parts
  <2> QED
    BY <2>1, BeforeAt
<1>6. CASE l < k
  <2>1. Parts(s, u, l)
    BY <1>1, <1>2, <1>3, <1>6 DEF Parts
  <2> QED
    BY <2>1, BeforeAt
<1> QED
  BY <1>4, <1>5, <1>6

\* It is total.
LEMMA BeforeTotal ==
  ASSUME NEW s \in Words, NEW t \in Words
  PROVE  Before(s, t) \/ s = t \/ Before(t, s)
<1> DEFINE D == {i \in Nat : i + 1 <= Len(s) /\ i + 1 <= Len(t) /\ s[i + 1] # t[i + 1]}
           k == Min(D)
<1>1. /\ Len(s) \in Nat /\ Len(t) \in Nat
      /\ \A i \in 1..Len(s) : s[i] \in Nat
      /\ \A i \in 1..Len(t) : t[i] \in Nat
  BY DEF Words
<1>2. CASE D = {}
  <2>1. \A i \in 1..Len(s) : i <= Len(t) => s[i] = t[i]
    <3> SUFFICES ASSUME NEW i \in 1..Len(s), i <= Len(t), s[i] # t[i] PROVE FALSE
      OBVIOUS
    <3>1. i - 1 \in Nat /\ (i - 1) + 1 = i
      BY <1>1
    <3>2. i - 1 \in D
      BY <1>1, <3>1
    <3> QED
      BY <1>2, <3>2
  <2>2. CASE Len(s) = Len(t)
    BY <1>1, <2>1, <2>2, SeqEqual DEF Words
  <2>3. CASE Len(s) < Len(t)
    <3>1. Parts(s, t, Len(s))
      BY <1>1, <2>1, <2>3 DEF Parts
    <3> QED
      BY <1>1, <3>1, BeforeAt
  <2>4. CASE Len(t) < Len(s)
    <3>1. Parts(t, s, Len(t))
      BY <1>1, <2>1, <2>4 DEF Parts
    <3> QED
      BY <1>1, <3>1, BeforeAt
  <2> QED
    BY <1>1, <2>2, <2>3, <2>4
<1>3. CASE D # {}
  <2>1. k \in D /\ \A y \in D : k <= y
    <3>1. D \subseteq Nat
      OBVIOUS
    <3> HIDE DEF D
    <3> QED
      BY <1>3, <3>1, LeastNat
  <2>2. k \in Nat /\ k + 1 <= Len(s) /\ k + 1 <= Len(t) /\ s[k + 1] # t[k + 1]
    BY <2>1
  <2>3. \A i \in 1..k : s[i] = t[i]
    <3> SUFFICES ASSUME NEW i \in 1..k, s[i] # t[i] PROVE FALSE
      OBVIOUS
    <3>0. i \in Nat /\ i >= 1 /\ i <= k
      BY <2>2
    <3>1. i - 1 \in Nat /\ (i - 1) + 1 = i /\ i <= Len(s) /\ i <= Len(t)
      BY <1>1, <2>2, <3>0
    <3>2. i - 1 \in D
      BY <1>1, <3>1
    <3>3. k <= i - 1
      BY <2>1, <3>2
    <3> QED
      BY <2>2, <3>0, <3>3
  <2>4. s[k + 1] \in Nat /\ t[k + 1] \in Nat
    BY <1>1, <2>2
  <2> HIDE DEF k
  <2>5. Parts(s, t, k) \/ Parts(t, s, k)
    BY <1>1, <2>2, <2>3, <2>4 DEF Parts
  <2> QED
    BY <2>2, <2>5, BeforeAt
<1> QED
  BY <1>2, <1>3

\* r is q with e put in at p
Insertion(r, q, p, e) ==
  /\ Len(r) = Len(q) + 1
  /\ \A i \in 1..Len(q) + 1 :
       r[i] = IF i < p THEN q[i] ELSE IF i = p THEN e ELSE q[i - 1]

\* TAILQ_INSERT_BEFORE and TAILQ_INSERT_AFTER
LEMMA Inserted ==
  ASSUME NEW A, NEW q \in Seq(A), NEW p \in 1..Len(q) + 1, NEW e \in A
  PROVE  InsertAt(q, p, e) \in Seq(A) /\ Insertion(InsertAt(q, p, e), q, p, e)
<1> DEFINE u == SubSeq(q, 1, p - 1)
           o == <<e>>
           v == SubSeq(q, p, Len(q))
           w == u \o o
           r == w \o v
<1>0. Len(q) \in Nat /\ p \in Nat /\ p >= 1 /\ p <= Len(q) + 1
  OBVIOUS
<1>1. u \in Seq(A) /\ Len(u) = p - 1 /\ \A i \in 1..p - 1 : u[i] = q[i]
  OBVIOUS
<1>2. v \in Seq(A) /\ Len(v) = Len(q) - p + 1 /\ \A i \in 1..Len(q) - p + 1 : v[i] = q[i + p - 1]
  <2>1. \A i \in p..Len(q) : q[i] \in A
    BY <1>0
  <2>2. v \in Seq(A) /\ Len(v) = IF p <= Len(q) THEN Len(q) - p + 1 ELSE 0
    BY <1>0, <2>1, SubSeqProperties
  <2>3. \A i \in 1..Len(q) - p + 1 : v[i] = q[p + i - 1]
    BY <1>0, SubSeqProperties
  <2>4. \A i \in 1..Len(q) - p + 1 : p + i - 1 = i + p - 1
    BY <1>0
  <2> QED
    BY <1>0, <2>2, <2>3, <2>4
<1>3. o \in Seq(A) /\ Len(o) = 1 /\ o[1] = e
  OBVIOUS
<1> HIDE DEF u, v, o
<1>4. /\ w \in Seq(A) /\ Len(w) = p
      /\ \A i \in 1..p : w[i] = IF i < p THEN q[i] ELSE e
  <2>1. /\ w \in Seq(A) /\ Len(w) = Len(u) + Len(o)
        /\ \A i \in 1..Len(u) + Len(o) : w[i] = IF i <= Len(u) THEN u[i] ELSE o[i - Len(u)]
    BY <1>1, <1>3, ConcatProperties
  <2> HIDE DEF w
  <2> QED
    BY <1>0, <1>1, <1>3, <2>1
<1> HIDE DEF w
<1>5. /\ r \in Seq(A) /\ Len(r) = Len(w) + Len(v)
      /\ \A i \in 1..Len(w) + Len(v) : r[i] = IF i <= Len(w) THEN w[i] ELSE v[i - Len(w)]
  BY <1>2, <1>4, ConcatProperties
<1>6. r = InsertAt(q, p, e)
  BY DEF InsertAt, r, w, u, o, v
<1> HIDE DEF r
<1>7. ASSUME NEW i \in 1..Len(q) + 1, p < i
      PROVE  r[i] = q[i - 1]
  <2>1. /\ i - p \in 1..Len(v) /\ (i - p) + p - 1 = i - 1
        /\ i \in 1..Len(w) + Len(v) /\ ~(i <= Len(w)) /\ Len(w) = p
    BY <1>0, <1>2, <1>4, <1>7
  <2> QED
    BY <1>2, <1>5, <2>1
<1>8. ASSUME NEW i \in 1..Len(q) + 1, i <= p
      PROVE  r[i] = IF i < p THEN q[i] ELSE e
  <2>1. i \in 1..p /\ i <= Len(w) /\ i \in 1..Len(w) + Len(v)
    BY <1>0, <1>2, <1>4, <1>8
  <2> QED
    BY <1>4, <1>5, <2>1
<1>9. Len(r) = Len(q) + 1
  BY <1>0, <1>2, <1>4, <1>5
<1>10. \A i \in 1..Len(q) + 1 :
         r[i] = IF i < p THEN q[i] ELSE IF i = p THEN e ELSE q[i - 1]
  <2> TAKE i \in 1..Len(q) + 1
  <2>1. i <= p \/ p < i
    BY <1>0
  <2> QED
    BY <1>0, <1>7, <1>8, <2>1
<1> QED
  BY <1>5, <1>6, <1>9, <1>10 DEF Insertion

\* What is inserted, in its order, and nothing lost
LEMMA InsertedSet ==
  ASSUME NEW A, NEW q \in Seq(A), NEW p \in 1..Len(q) + 1, NEW e \in A, NEW R,
         \A j, k \in DOMAIN q : j < k => <<q[j], q[k]>> \in R,
         \A j \in DOMAIN q : j < p => <<q[j], e>> \in R,
         \A j \in DOMAIN q : p <= j => <<e, q[j]>> \in R
  PROVE  LET r == InsertAt(q, p, e)
         IN /\ r \in Seq(A) /\ Len(r) = Len(q) + 1
            /\ ToSet(r) = ToSet(q) \cup {e}
            /\ \A j, k \in DOMAIN r : j < k => <<r[j], r[k]>> \in R
<1> DEFINE r == InsertAt(q, p, e)
<1>1. /\ r \in Seq(A) /\ Len(r) = Len(q) + 1
      /\ \A i \in 1..Len(q) + 1 :
           r[i] = IF i < p THEN q[i] ELSE IF i = p THEN e ELSE q[i - 1]
  <2>1. r \in Seq(A) /\ Insertion(r, q, p, e)
    BY Inserted
  <2> HIDE DEF r
  <2> QED BY <2>1 DEF Insertion
<1> HIDE DEF r
<1>2. /\ Len(q) \in Nat /\ p \in Nat /\ p >= 1 /\ p <= Len(q) + 1
      /\ DOMAIN q = 1..Len(q) /\ DOMAIN r = 1..Len(q) + 1
  BY <1>1
<1>3. \A x \in ToSet(r) : x \in ToSet(q) \cup {e}
  <2> SUFFICES ASSUME NEW i \in 1..Len(q) + 1 PROVE r[i] \in ToSet(q) \cup {e}
    BY <1>2 DEF ToSet
  <2>1. i < p => i \in 1..Len(q)
    BY <1>2
  <2>2. p < i => i - 1 \in 1..Len(q)
    BY <1>2
  <2>3. i < p \/ i = p \/ p < i
    BY <1>2
  <2> QED
    BY <1>1, <1>2, <2>1, <2>2, <2>3 DEF ToSet
<1>4. e \in ToSet(r)
  <2>1. p \in 1..Len(q) + 1 /\ r[p] = e
    BY <1>1, <1>2
  <2> QED
    BY <1>2, <2>1 DEF ToSet
<1>5. \A x \in ToSet(q) : x \in ToSet(r)
  <2> SUFFICES ASSUME NEW i \in 1..Len(q) PROVE q[i] \in ToSet(r)
    BY <1>2 DEF ToSet
  <2>1. CASE i < p
    <3>1. i \in 1..Len(q) + 1 /\ r[i] = q[i]
      BY <1>1, <1>2, <2>1
    <3> QED
      BY <1>2, <3>1 DEF ToSet
  <2>2. CASE p <= i
    <3>1. i + 1 \in 1..Len(q) + 1 /\ ~(i + 1 < p) /\ i + 1 # p /\ (i + 1) - 1 = i
      BY <1>2, <2>2
    <3>2. r[i + 1] = q[i]
      BY <1>1, <3>1
    <3> QED
      BY <1>2, <3>1, <3>2 DEF ToSet
  <2> QED
    BY <1>2, <2>1, <2>2
<1>6. ASSUME NEW j \in 1..Len(q) + 1, NEW k \in 1..Len(q) + 1, j < k
      PROVE  <<r[j], r[k]>> \in R
  <2>1. CASE k < p
    <3>1. j \in DOMAIN q /\ k \in DOMAIN q /\ j < p
      BY <1>2, <1>6, <2>1
    <3> QED
      BY <1>1, <1>6, <2>1, <3>1
  <2>2. CASE k = p
    <3>1. j \in DOMAIN q /\ j < p
      BY <1>2, <1>6, <2>2
    <3> QED
      BY <1>1, <1>6, <2>2, <3>1
  <2>3. CASE p < k /\ j < p
    <3>1. j \in DOMAIN q /\ k - 1 \in DOMAIN q /\ j < k - 1 /\ ~(k < p) /\ k # p
      BY <1>2, <1>6, <2>3
    <3> QED
      BY <1>1, <2>3, <3>1
  <2>4. CASE p < k /\ j = p
    <3>1. k - 1 \in DOMAIN q /\ p <= k - 1 /\ ~(k < p) /\ k # p /\ ~(j < p)
      BY <1>2, <1>6, <2>4
    <3> QED
      BY <1>1, <2>4, <3>1
  <2>5. CASE p < j
    <3>1. /\ j - 1 \in DOMAIN q /\ k - 1 \in DOMAIN q /\ j - 1 < k - 1
          /\ ~(k < p) /\ k # p /\ ~(j < p) /\ j # p
      BY <1>2, <1>6, <2>5
    <3> QED
      BY <1>1, <3>1
  <2>6. k < p \/ k = p \/ (p < k /\ j < p) \/ (p < k /\ j = p) \/ p < j
    BY <1>2, <1>6
  <2> QED
    BY <2>1, <2>2, <2>3, <2>4, <2>5, <2>6
<1>7. ToSet(r) = ToSet(q) \cup {e}
  BY <1>3, <1>4, <1>5
<1> QED
  BY <1>1, <1>2, <1>6, <1>7 DEF r

----------------------------------------------------------------------------
(* Programs and files: sorted.                                             *)

Sorted(q) == \A j, k \in DOMAIN q : j < k => Before(q[j].text, q[k].text)

Texts(S) == {mi.text : mi \in S}

\* It is irreflexive.
LEMMA BeforeIrreflexive ==
  ASSUME NEW s \in Words
  PROVE  ~Before(s, s)
<1>1. Len(s) \in Nat /\ \A i \in 1..Len(s) : s[i] \in Nat
  BY DEF Words
<1>2. \A k \in Nat : ~Parts(s, s, k)
  BY <1>1 DEF Parts
<1> QED
  BY <1>2, BeforeAt

\* Adding at the end
LEMMA AppendIsInsert ==
  ASSUME NEW A, NEW q \in Seq(A), NEW e \in A
  PROVE  Append(q, e) = InsertAt(q, Len(q) + 1, e)
<1> DEFINE r == InsertAt(q, Len(q) + 1, e)
           s == Append(q, e)
<1>0. Len(q) \in Nat /\ Len(q) + 1 \in 1..Len(q) + 1
  OBVIOUS
<1>1. /\ r \in Seq(A) /\ Len(r) = Len(q) + 1
      /\ \A i \in 1..Len(q) + 1 :
           r[i] = IF i < Len(q) + 1 THEN q[i] ELSE IF i = Len(q) + 1 THEN e ELSE q[i - 1]
  <2>1. r \in Seq(A) /\ Insertion(r, q, Len(q) + 1, e)
    BY <1>0, Inserted
  <2> HIDE DEF r
  <2> QED BY <2>1 DEF Insertion
<1>2. /\ s \in Seq(A) /\ Len(s) = Len(q) + 1
      /\ \A i \in 1..Len(q) : s[i] = q[i]
      /\ s[Len(q) + 1] = e
  BY AppendProperties
<1> HIDE DEF r, s
<1>3. \A i \in 1..Len(s) : s[i] = r[i]
  <2> TAKE i \in 1..Len(s)
  <2>1. i \in 1..Len(q) + 1 /\ (i \in 1..Len(q) \/ i = Len(q) + 1)
    BY <1>0, <1>2
  <2> QED
    BY <1>0, <1>1, <1>2, <2>1
<1>4. s = r
  BY <1>1, <1>2, <1>3, SeqEqual
<1> QED
  BY <1>4 DEF r, s

\* Where an entry goes among sorted ones
Stop(q, e) == {j \in DOMAIN q : ~Before(q[j].text, e.text)}
Place(q, e) == IF Stop(q, e) = {} THEN Len(q) + 1 ELSE Min(Stop(q, e))

\* Where a text is inserted: what is before it comes first.
LEMMA PlaceAt ==
  ASSUME NEW A, NEW q \in Seq(A), NEW e
  PROVE  /\ Place(q, e) \in 1..Len(q) + 1
         /\ Stop(q, e) # {} => Min(Stop(q, e)) \in Stop(q, e) /\ Min(Stop(q, e)) \in 1..Len(q)
         /\ \A j \in 1..Len(q) : j < Place(q, e) => Before(q[j].text, e.text)
<1> DEFINE S == Stop(q, e)
<1>1. S \subseteq Nat /\ S \subseteq 1..Len(q) /\ Len(q) \in Nat
  BY DEF Stop
<1>2. \A j \in 1..Len(q) : j \notin S => Before(q[j].text, e.text)
  BY DEF Stop
<1>3. CASE S = {}
  <2>1. Place(q, e) = Len(q) + 1
    BY <1>3 DEF Place
  <2> QED
    BY <1>1, <1>2, <1>3, <2>1
<1>4. CASE S # {}
  <2>1. Place(q, e) = Min(S)
    BY <1>4 DEF Place
  <2> HIDE DEF S
  <2>2. Min(S) \in S /\ \A y \in S : Min(S) <= y
    BY <1>1, <1>4, LeastNat
  <2>3. Min(S) \in 1..Len(q) /\ Min(S) \in 1..Len(q) + 1
    <3>1. Min(S) \in 1..Len(q)
      BY <1>1, <2>2
    <3> QED BY <1>1, <3>1
  <2>4. \A j \in 1..Len(q) : j < Min(S) => j \notin S
    BY <1>1, <2>2, <2>3
  <2> QED
    BY <1>2, <2>1, <2>2, <2>3, <2>4 DEF S
<1> QED
  BY <1>3, <1>4

\* Inserted there, the entries stay sorted.
LEMMA SortedInsert ==
  ASSUME NEW A, \A a \in A : a.text \in Words, NEW q \in Seq(A), Sorted(q),
         NEW e \in A, e.text \notin Texts(ToSet(q))
  PROVE  LET r == InsertAt(q, Place(q, e), e)
         IN /\ r \in Seq(A) /\ Len(r) = Len(q) + 1
            /\ ToSet(r) = ToSet(q) \cup {e} /\ Sorted(r)
<1> DEFINE R == {x \in A \X A : Before(x[1].text, x[2].text)}
           p == Place(q, e)
           r == InsertAt(q, p, e)
           W(a) == a.text
<1>1. p \in 1..Len(q) + 1 /\ \A j \in 1..Len(q) : j < p => Before(q[j].text, e.text)
  BY PlaceAt
<1>2. DOMAIN q = 1..Len(q) /\ Len(q) \in Nat /\ \A j \in DOMAIN q : q[j] \in A
  OBVIOUS
<1>3. \A j \in DOMAIN q : q[j].text \in Words /\ q[j].text # e.text /\ e.text \in Words
  BY <1>2 DEF Texts, ToSet
<1>4. \A j \in DOMAIN q : p <= j => Before(e.text, q[j].text)
  <2> SUFFICES ASSUME NEW j \in DOMAIN q, p <= j PROVE Before(e.text, q[j].text)
    OBVIOUS
  <2>1. Stop(q, e) # {}
    BY <1>2 DEF Place
  <2>2. p \in Stop(q, e) /\ p \in DOMAIN q
    BY <1>2, <2>1, PlaceAt DEF Place
  <2>3. ~Before(q[p].text, e.text)
    BY <2>2 DEF Stop
  <2> HIDE DEF p
  <2>4. Before(e.text, q[p].text)
    BY <1>3, <2>2, <2>3, BeforeTotal
  <2>5. CASE p < j
    <3>1. Before(q[p].text, q[j].text)
      BY <2>2, <2>5 DEF Sorted
    <3> QED
      BY <1>3, <2>2, <2>4, <3>1, BeforeTransitive
  <2>6. CASE p = j
    BY <2>4, <2>6
  <2> QED
    BY <1>1, <1>2, <2>2, <2>5, <2>6
<1>5. \A a, b \in A : <<a, b>> \in R <=> Before(a.text, b.text)
  OBVIOUS
<1> HIDE DEF R, p
<1>6. /\ \A j, k \in DOMAIN q : j < k => <<q[j], q[k]>> \in R
      /\ \A j \in DOMAIN q : j < p => <<q[j], e>> \in R
      /\ \A j \in DOMAIN q : p <= j => <<e, q[j]>> \in R
  BY <1>1, <1>2, <1>4, <1>5 DEF Sorted
<1>7. /\ r \in Seq(A) /\ Len(r) = Len(q) + 1
      /\ ToSet(r) = ToSet(q) \cup {e}
      /\ \A j, k \in DOMAIN r : j < k => <<r[j], r[k]>> \in R
  BY <1>1, <1>6, InsertedSet
<1> HIDE DEF r
<1>8. \A j \in DOMAIN r : r[j] \in A
  BY <1>7
<1>9. Sorted(r)
  BY <1>5, <1>7, <1>8 DEF Sorted
<1> QED
  BY <1>7, <1>9 DEF r, p

\* One entry of search_match_exec
ExecStep(q, mi, search) ==
  IF ~IsPrefix(search, mi.text) THEN q
  ELSE IF Stop(q, mi) = {} THEN Append(q, mi)
  ELSE IF q[Min(Stop(q, mi))].text = mi.text THEN q
  ELSE InsertAt(q, Min(Stop(q, mi)), mi)

\* One entry of search_match_exec leaves a list of entries.
LEMMA ExecStepType ==
  ASSUME NEW A, NEW q \in Seq(A), NEW mi \in A, NEW search
  PROVE  ExecStep(q, mi, search) \in Seq(A)
<1>1. Append(q, mi) \in Seq(A)
  BY AppendProperties
<1>2. Stop(q, mi) # {} => Min(Stop(q, mi)) \in 1..Len(q) + 1
  BY PlaceAt
<1>3. Stop(q, mi) # {} => InsertAt(q, Min(Stop(q, mi)), mi) \in Seq(A)
  BY <1>2, Inserted
<1> QED
  BY <1>1, <1>3 DEF ExecStep

\* It leaves the list sorted, and adds the text that matches and no other.
LEMMA ExecStepKeeps ==
  ASSUME NEW A, \A a \in A : a.text \in Words, NEW q \in Seq(A), Sorted(q),
         NEW mi \in A, NEW search
  PROVE  LET r == ExecStep(q, mi, search)
         IN /\ Sorted(r)
            /\ Texts(ToSet(r)) = Texts(ToSet(q))
                 \cup (IF IsPrefix(search, mi.text) THEN {mi.text} ELSE {})
<1> DEFINE S == Stop(q, mi)
           r == ExecStep(q, mi, search)
<1>1. CASE ~IsPrefix(search, mi.text)
  BY <1>1 DEF ExecStep
<1>2. CASE IsPrefix(search, mi.text) /\ S # {} /\ q[Min(S)].text = mi.text
  <2>1. Min(S) \in DOMAIN q
    BY <1>2, PlaceAt
  <2>2. mi.text \in Texts(ToSet(q))
    BY <1>2, <2>1 DEF Texts, ToSet
  <2> QED
    BY <1>2, <2>2 DEF ExecStep
<1>3. CASE IsPrefix(search, mi.text) /\ (S # {} => q[Min(S)].text # mi.text)
  <2>1. mi.text \notin Texts(ToSet(q))
    <3> SUFFICES ASSUME NEW j \in DOMAIN q, q[j].text = mi.text PROVE FALSE
      BY DEF Texts, ToSet
    <3>1. q[j].text \in Words
      OBVIOUS
    <3>2. j \in S
      BY <3>1, BeforeIrreflexive DEF Stop
    <3>3. Min(S) \in S /\ Min(S) \in DOMAIN q /\ Min(S) <= j /\ Min(S) \in Nat /\ j \in Nat
      <4>1. S \subseteq Nat /\ S \subseteq DOMAIN q /\ S # {}
        BY <3>2 DEF Stop
      <4> HIDE DEF S
      <4> QED
        BY <3>2, <4>1, LeastNat
    <3>4. Min(S) < j
      BY <1>3, <3>3
    <3>5. Before(q[Min(S)].text, q[j].text)
      BY <3>3, <3>4 DEF Sorted
    <3> QED
      BY <3>3, <3>5 DEF Stop
  <2>2. r = InsertAt(q, Place(q, mi), mi)
    BY <1>3, AppendIsInsert DEF ExecStep, Place
  <2>3. ToSet(r) = ToSet(q) \cup {mi} /\ Sorted(r)
    BY <2>1, <2>2, SortedInsert
  <2> HIDE DEF r
  <2>4. Texts(ToSet(r)) = Texts(ToSet(q)) \cup {mi.text}
    BY <2>3 DEF Texts
  <2> QED
    BY <1>3, <2>3, <2>4 DEF r
<1> QED
  BY <1>1, <1>2, <1>3

\* search_match_exec finds the names that begin with what is typed, sorted
LEMMA ExecFound ==
  ASSUME NEW A, \A a \in A : a.text \in Words, NEW menuq \in Seq(A), NEW search
  PROVE  LET q == MatchExec(menuq, search)
         IN /\ q \in Seq(A) /\ Sorted(q)
            /\ Texts(ToSet(q)) = {w \in Texts(ToSet(menuq)) : IsPrefix(search, w)}
<1> DEFINE n == Len(menuq)
           T == Seq(A)
           from == <<>>
           One(q, mi) == ExecStep(q, mi, search)
           step == [p \in T \X (1 .. n) |-> One(p[1], menuq[p[2]])]
           Is(f) == f = [s \in SUBSET DOMAIN menuq |->
                           IF s = {} THEN from
                           ELSE One(f[s \ {Max(s)}], menuq[Max(s)])]
           it == CHOOSE f : Is(f)
           at == it[DOMAIN menuq]
<1>1. n \in Nat /\ DOMAIN menuq = 1 .. n
  OBVIOUS
<1>2. from \in T
  OBVIOUS
<1>3. \A q \in T, i \in 1 .. n : One(q, menuq[i]) \in T
  BY <1>1, ExecStepType
<1>4. MatchExec(menuq, search) = at
  BY Zenon DEF MatchExec, FoldLeft, MapThenFoldSet, ExecStep, Stop
<1> HIDE DEF n, T, from, One
<1>5. step \in [T \X (1 .. n) -> T]
  BY <1>3
<1>6. \A e \in T, i \in 1 .. n : step[<<e, i>>] = One(e, menuq[i])
  OBVIOUS
<1> HIDE DEF step
<1>7. PICK h \in [SUBSET (1 .. n) -> T] : Recursion(h, from, step, n)
  <2> HIDE DEF it, Is
  <2> QED BY <1>1, <1>2, <1>5, SubsetRecursion
<1>8. Is(h)
  <2>1. ASSUME NEW s \in SUBSET (1 .. n), s # {}
        PROVE  h[s] = One(h[s \ {Max(s)}], menuq[Max(s)])
    <3>1. Max(s) \in 1 .. n /\ s \ {Max(s)} \in SUBSET (1 .. n)
      BY <1>1, <2>1, MaxInside
    <3>2. h[s] = step[<<h[s \ {Max(s)}], Max(s)>>]
      BY <1>7, <2>1 DEF Recursion
    <3> QED BY <1>6, <3>1, <3>2
  <2>2. h[{}] = from
    BY <1>7 DEF Recursion
  <2> QED BY <1>1, <2>1, <2>2
<1>9. Is(it)
  BY <1>8
<1>10. Follows(it, from, step, T, n)
  <2> SUFFICES ASSUME NEW s \in SUBSET (1 .. n), s # {}, it[s \ {Max(s)}] \in T
               PROVE  it[s] = step[<<it[s \ {Max(s)}], Max(s)>>]
    BY <1>1, <1>9 DEF Follows
  <2>1. Max(s) \in 1 .. n
    BY <1>1, MaxInside
  <2>2. it[s] = One(it[s \ {Max(s)}], menuq[Max(s)])
    BY <1>1, <1>9
  <2> QED BY <1>6, <2>1, <2>2
<1> HIDE DEF it, Is
<1>11. /\ it[1 .. 0] = from
       /\ \A k \in 1 .. n : it[1 .. k] = step[<<it[1 .. k - 1], k>>]
       /\ \A k \in 0 .. n : it[1 .. k] \in T
  BY <1>1, <1>2, <1>5, <1>10, FoldPrefixes
<1> DEFINE Words0(k) == {menuq[i].text : i \in 1 .. k}
           Good(q, k) == /\ Sorted(q)
                         /\ Texts(ToSet(q)) = {w \in Words0(k) : IsPrefix(search, w)}
           U == {k \in 0 .. n : Good(it[1 .. k], k)}
<1>12. 0 \in U
  <2>1. Good(from, 0)
    BY DEF from, Sorted, Texts, ToSet
  <2>2. 0 \in 0 .. n
    BY <1>1
  <2> QED BY <1>11, <2>1, <2>2
<1>13. ASSUME NEW k \in 0 .. n - 1, k \in U
       PROVE  k + 1 \in U
  <2>1. k + 1 \in 1 .. n /\ (k + 1) - 1 = k /\ k + 1 \in 0 .. n /\ k \in 0 .. n
    BY <1>1
  <2> DEFINE q == it[1 .. k]
             mi == menuq[k + 1]
             r == it[1 .. k + 1]
  <2>2. q \in T /\ Good(q, k) /\ r = One(q, mi)
    <3>1. r = step[<<q, k + 1>>]
      BY <1>11, <2>1
    <3> QED BY <1>6, <1>11, <1>13, <2>1, <3>1
  <2>3. mi \in A
    BY <1>1, <2>1
  <2>4. Words0(k + 1) = Words0(k) \cup {mi.text}
    <3>1. 1 .. k + 1 = (1 .. k) \cup {k + 1}
      BY <2>1
    <3> QED BY <3>1
  <2> HIDE DEF mi, q, r, Words0
  <2>5. /\ Sorted(r)
        /\ Texts(ToSet(r)) = Texts(ToSet(q))
             \cup (IF IsPrefix(search, mi.text) THEN {mi.text} ELSE {})
    BY <2>2, <2>3, ExecStepKeeps DEF One, T
  <2>6. Good(r, k + 1)
    BY <2>2, <2>4, <2>5
  <2> HIDE DEF Good
  <2> QED BY <2>1, <2>6 DEF r
<1>14. n \in U
  <2> HIDE DEF U
  <2>1. \A k \in 0 .. n : k \in U
    BY <1>1, <1>12, <1>13, IntervalSets
  <2> QED BY <1>1, <2>1
<1>15. Words0(n) = Texts(ToSet(menuq))
  BY <1>1 DEF Texts, ToSet
<1>16. Good(at, n) /\ at \in T
  BY <1>1, <1>11, <1>14
<1> QED
  BY <1>4, <1>15, <1>16 DEF T

\* Finitely many entries of distinct texts can be sorted
LEMMA Sortable ==
  ASSUME NEW F, IsFiniteSet(F), \A a \in F : a.text \in Words,
         \A a, b \in F : a.text = b.text => a = b
  PROVE  \E q \in [1..Cardinality(F) -> F] : Sorted(q) /\ ToSet(q) = F
<1> DEFINE n == Cardinality(F)
<1>1. n \in Nat
  BY FS_CardinalityType
<1>2. PICK f \in Bijection(1..n, F) : TRUE
  BY FS_CardinalityType DEF ExistsBijection
<1>3. /\ \A i \in 1..n : f[i] \in F
      /\ \A i, j \in 1..n : f[i] = f[j] => i = j
      /\ \A a \in F : \E i \in 1..n : f[i] = a
  BY <1>2 DEF Bijection, Injection, Surjection, IsInjective
<1> HIDE DEF n
<1> DEFINE Done(k) == {f[i] : i \in 1..k}
           Good(q, k) == q \in Seq(F) /\ Len(q) = k /\ ToSet(q) = Done(k) /\ Sorted(q)
           U == {k \in 0..n : \E q : Good(q, k)}
<1>4. 0 \in U
  <2>1. Good(<<>>, 0)
    BY DEF Sorted, ToSet
  <2> HIDE DEF Good
  <2> QED BY <1>1, <2>1
<1>5. ASSUME NEW k \in 0..n - 1, k \in U PROVE k + 1 \in U
  <2>1. PICK q : Good(q, k)
    BY <1>5
  <2> DEFINE e == f[k + 1]
             r == InsertAt(q, Place(q, e), e)
  <2>2. k + 1 \in 1..n /\ k + 1 \in 0..n /\ k \in Nat /\ \A i \in 1..k : i \in 1..n /\ i # k + 1
    BY <1>1
  <2>3. e \in F
    BY <1>3, <2>2
  <2>4. e.text \notin Texts(ToSet(q))
    <3> SUFFICES ASSUME NEW i \in 1..k, f[i].text = e.text PROVE FALSE
      BY <2>1 DEF Texts
    <3>1. f[i] \in F /\ f[i] = e
      BY <1>3, <2>2, <2>3
    <3> QED BY <1>3, <2>2, <3>1
  <2>5. Done(k + 1) = Done(k) \cup {e}
    <3>1. 1..k + 1 = (1..k) \cup {k + 1}
      BY <2>2
    <3> QED BY <3>1
  <2> HIDE DEF e, Done
  <2>6. /\ r \in Seq(F) /\ Len(r) = Len(q) + 1
        /\ ToSet(r) = ToSet(q) \cup {e} /\ Sorted(r)
    BY <2>1, <2>3, <2>4, SortedInsert
  <2> HIDE DEF r
  <2>7. Good(r, k + 1)
    BY <2>1, <2>5, <2>6
  <2> HIDE DEF Good
  <2> QED BY <2>2, <2>7
<1>6. n \in U
  <2> HIDE DEF U
  <2>1. \A k \in 0..n : k \in U
    BY <1>1, <1>4, <1>5, IntervalSets
  <2> QED BY <1>1, <2>1
<1>7. PICK q : Good(q, n)
  BY <1>6
<1>8. q \in [1..n -> F]
  BY <1>7
<1>9. Done(n) = F
  BY <1>3
<1> QED
  BY <1>7, <1>8, <1>9 DEF n

\* search_match_path: what glob finds, sorted
LEMMA PathFound ==
  ASSUME NEW paths, IsFiniteSet(paths), paths \subseteq Words, NEW search
  PROVE  LET q == MatchPath(paths, search)
         IN /\ q \in Seq([text : Words, ctx : {"path"}]) /\ Sorted(q)
            /\ Len(q) \in Nat
<1> DEFINE P == {p \in paths : IsPrefix(search, p)}
           F == {[text |-> f, ctx |-> "path"] : f \in P}
           n == Cardinality(F)
           q == MatchPath(paths, search)
<1>1. q = CHOOSE r \in [1..n -> F] : Sorted(r)
  BY Zenon DEF MatchPath, Sorted
<1>2. IsFiniteSet(P) /\ P \subseteq Words
  <2>1. P \subseteq paths
    OBVIOUS
  <2> HIDE DEF P
  <2> QED BY <2>1, FS_Subset
<1> HIDE DEF P
<1>3. IsFiniteSet(F)
  <2> DEFINE g == [f \in P |-> [text |-> f, ctx |-> "path"]]
  <2>1. g \in Surjection(P, F)
    BY DEF Surjection
  <2> HIDE DEF g, F
  <2> QED BY <1>2, <2>1, FS_Surjection
<1>4. /\ \A a \in F : a.text \in Words /\ a \in [text : Words, ctx : {"path"}]
      /\ \A a, b \in F : a.text = b.text => a = b
  BY <1>2
<1> HIDE DEF F
<1>5. \E r \in [1..n -> F] : Sorted(r)
  BY <1>3, <1>4, Sortable
<1>6. n \in Nat
  BY <1>3, FS_CardinalityType
<1> HIDE DEF n, q
<1>7. q \in [1..n -> F] /\ Sorted(q)
  BY <1>1, <1>5
<1>8. q \in Seq([text : Words, ctx : {"path"}])
  <2> DEFINE B == [text : Words, ctx : {"path"}]
  <2>1. F \subseteq B
    BY <1>4
  <2> HIDE DEF B
  <2>2. q \in [1..n -> B]
    BY <1>7, <2>1
  <2>3. q \in Seq(B)
    BY <1>6, <2>2
  <2> QED BY <2>3 DEF B
<1> QED
  BY <1>7, <1>8 DEF q

----------------------------------------------------------------------------
(* Windows: in tiers.                                                      *)

\* Tiers are those of search_match_client.
LEMMA TierType ==
  ASSUME NEW w, NEW search, NEW current
  PROVE  Tier(w, search, current) \in 0..NoTier
<1> DEFINE base == BaseTier(Windows[w], search)
           down == IF base < 3 /\ w = current THEN base + 1 ELSE base
           seen == Windows[w].hidden
<1>1. base \in {0, 2, 3, 4}
  BY DEF BaseTier, NoTier
<1>2. Tier(w, search, current) =
        IF base = NoTier THEN NoTier ELSE IF seen /\ down > 0 THEN down - 1 ELSE down
  BY DEF Tier
<1> HIDE DEF base, seen
<1>3. base = 4 \/ down \in 0..3
  BY <1>1
<1> HIDE DEF down
<1>4. base # 4 => down \in 0..3 /\ (down > 0 => down - 1 \in 0..3)
  BY <1>3
<1> QED
  BY <1>1, <1>2, <1>4 DEF NoTier

\* Where an entry is found, by its record
Found(q, x) == SelectInSeq(q, LAMBDA r : <<r>> = x)

\* Where an entry is found that the results have once.
LEMMA FoundAt ==
  ASSUME NEW A, NEW q \in Seq(A), NEW x
  PROVE  /\ Found(q, x) \in 0..Len(q)
         /\ \A p \in DOMAIN q :
              x = <<q[p]>> /\ (\A j \in DOMAIN q : q[j] = q[p] => j = p) => Found(q, x) = p
<1> DEFINE I == {i \in 1..Len(q) : <<q[i]>> = x}
<1>1. Found(q, x) = IF I # {} THEN Min(I) ELSE 0
  BY Zenon DEF Found, SelectInSeq
<1>2. I \subseteq Nat /\ I \subseteq 1..Len(q) /\ Len(q) \in Nat /\ DOMAIN q = 1..Len(q)
  OBVIOUS
<1>3. ASSUME NEW p \in DOMAIN q, x = <<q[p]>>, \A j \in DOMAIN q : q[j] = q[p] => j = p
      PROVE  I = {p}
  <2>1. p \in I
    BY <1>2, <1>3
  <2>2. \A j \in I : j = p
    BY <1>2, <1>3
  <2> QED BY <2>1, <2>2
<1> HIDE DEF I
<1>4. I # {} => Min(I) \in I
  BY <1>2, LeastNat
<1>5. Found(q, x) \in 0..Len(q)
  <2>1. CASE I = {}
    BY <1>1, <1>2, <2>1
  <2>2. CASE I # {}
    <3>1. Found(q, x) \in 1..Len(q)
      BY <1>1, <1>2, <1>4, <2>2
    <3> QED BY <1>2, <3>1
  <2> QED BY <2>1, <2>2
<1> QED
  BY <1>1, <1>3, <1>4, <1>5

\* One entry of search_match_client
Above(acc, tier) == {t \in 0..tier : acc.tierp[t] # <<>>}
After(acc, tier) ==
  IF Above(acc, tier) = {} THEN 1 ELSE Found(acc.q, acc.tierp[Max(Above(acc, tier))]) + 1
ClientStep(acc, mi, search, current) ==
  LET tier == Tier(mi.ctx, search, current)
  IN  IF tier = NoTier THEN acc
      ELSE [q |-> InsertAt(acc.q, After(acc, tier), mi),
            tierp |-> [acc.tierp EXCEPT ![tier] = <<mi>>]]

\* The results so far, and the last entry of each tier
Tiers(A) == [q : Seq(A), tierp : [0..3 -> Seq(A)]]

\* One entry of search_match_client leaves results and their tiers.
LEMMA ClientStepType ==
  ASSUME NEW A, NEW acc \in Tiers(A), NEW mi \in A, NEW search, NEW current
  PROVE  /\ ClientStep(acc, mi, search, current) \in Tiers(A)
         /\ \A t \in 0..3 : After(acc, t) \in 1..Len(acc.q) + 1
<1>1. acc.q \in Seq(A) /\ acc.tierp \in [0..3 -> Seq(A)] /\ Len(acc.q) \in Nat
  BY DEF Tiers
<1>2. \A t \in 0..3 : After(acc, t) \in 1..Len(acc.q) + 1
  <2> TAKE t \in 0..3
  <2> DEFINE f == Found(acc.q, acc.tierp[Max(Above(acc, t))])
  <2>1. f \in 0..Len(acc.q)
    BY <1>1, FoundAt
  <2>2. After(acc, t) = IF Above(acc, t) = {} THEN 1 ELSE f + 1
    BY DEF After
  <2> HIDE DEF f
  <2> QED BY <1>1, <2>1, <2>2
<1> DEFINE tier == Tier(mi.ctx, search, current)
<1>3. tier \in 0..4
  BY TierType DEF NoTier
<1>4. ASSUME tier # NoTier
      PROVE  ClientStep(acc, mi, search, current) \in Tiers(A)
  <2> DEFINE r == InsertAt(acc.q, After(acc, tier), mi)
             f == [acc.tierp EXCEPT ![tier] = <<mi>>]
  <2>1. tier \in 0..3
    BY <1>3, <1>4 DEF NoTier
  <2>2. r \in Seq(A)
    BY <1>1, <1>2, <2>1, Inserted
  <2>3. <<mi>> \in Seq(A)
    OBVIOUS
  <2>4. f \in [0..3 -> Seq(A)]
    BY <1>1, <2>1, <2>3
  <2>5. ClientStep(acc, mi, search, current) = [q |-> r, tierp |-> f]
    BY <1>4 DEF ClientStep
  <2> HIDE DEF r, f
  <2> QED BY <2>2, <2>4, <2>5 DEF Tiers
<1>5. tier = NoTier => ClientStep(acc, mi, search, current) = acc
  BY DEF ClientStep
<1> QED
  BY <1>2, <1>4, <1>5

\* The order of the results: by tiers, and as in the menu within a tier
TierOf(mi, search, current) == Tier(mi.ctx, search, current)
InTiers(menuq, search, current) ==
  {x \in ToSet(menuq) \X ToSet(menuq) :
     \/ TierOf(x[1], search, current) < TierOf(x[2], search, current)
     \/ /\ TierOf(x[1], search, current) = TierOf(x[2], search, current)
        /\ \E i, j \in DOMAIN menuq : i < j /\ menuq[i] = x[1] /\ menuq[j] = x[2]}

\* What holds of the results once k entries have been looked at
TieredBy(q, tierp, menuq, k, search, current) ==
  /\ \A j \in DOMAIN q : /\ TierOf(q[j], search, current) \in 0..3
                         /\ \E i \in 1..k : menuq[i] = q[j]
  /\ \A j, l \in DOMAIN q :
       j < l => <<q[j], q[l]>> \in InTiers(menuq, search, current)
  /\ \A t \in 0..3 :
       \/ /\ tierp[t] = <<>>
          /\ \A j \in DOMAIN q : TierOf(q[j], search, current) # t
       \/ \E p \in DOMAIN q :
            /\ tierp[t] = <<q[p]>> /\ TierOf(q[p], search, current) = t
            /\ \A j \in DOMAIN q : p < j => TierOf(q[j], search, current) # t

Tiered(acc, menuq, k, search, current) ==
  TieredBy(acc.q, acc.tierp, menuq, k, search, current)

\* It leaves the results in their tiers, and tierp at the last of each.
LEMMA ClientStepKeeps ==
  ASSUME NEW A, NEW menuq \in Seq(A), IsInjective(menuq), NEW k \in 0..Len(menuq) - 1,
         NEW search, NEW current, NEW acc \in Tiers(A),
         Tiered(acc, menuq, k, search, current)
  PROVE  Tiered(ClientStep(acc, menuq[k + 1], search, current), menuq, k + 1, search, current)
<1> DEFINE T(x) == TierOf(x, search, current)
           R == InTiers(menuq, search, current)
           E == ToSet(menuq)
           mi == menuq[k + 1]
           q == acc.q
           tp == acc.tierp
           tier == T(mi)
           Behind(a, b) == \E i, j \in DOMAIN menuq : i < j /\ menuq[i] = a /\ menuq[j] = b
<1>1. /\ q \in Seq(A) /\ tp \in [0..3 -> Seq(A)] /\ Len(q) \in Nat /\ DOMAIN q = 1..Len(q)
      /\ acc = [q |-> q, tierp |-> tp]
  BY DEF Tiers
<1>2. /\ Len(menuq) \in Nat /\ DOMAIN menuq = 1..Len(menuq) /\ k \in Nat
      /\ k + 1 \in DOMAIN menuq /\ \A i \in 1..k : i \in DOMAIN menuq /\ i < k + 1
      /\ \A i \in 1..k : i \in 1..k + 1
      /\ \A i \in DOMAIN menuq : menuq[i] \in A
      /\ k + 1 \in 1..k + 1
  OBVIOUS
<1>3. /\ \A j \in DOMAIN q : T(q[j]) \in 0..3 /\ \E i \in 1..k : menuq[i] = q[j]
      /\ \A j, l \in DOMAIN q : j < l => <<q[j], q[l]>> \in R
      /\ \A t \in 0..3 :
           \/ tp[t] = <<>> /\ \A j \in DOMAIN q : T(q[j]) # t
           \/ \E p \in DOMAIN q :
                /\ tp[t] = <<q[p]>> /\ T(q[p]) = t
                /\ \A j \in DOMAIN q : p < j => T(q[j]) # t
  BY DEF Tiered, TieredBy
<1>4. \A a, b \in E : <<a, b>> \in R <=> T(a) < T(b) \/ (T(a) = T(b) /\ Behind(a, b))
  BY DEF InTiers
<1>5. mi \in E /\ mi \in A /\ \A j \in DOMAIN q : q[j] \in E /\ q[j] \in A
  BY <1>1, <1>2, <1>3 DEF ToSet
<1>6. \A a \in E : ~Behind(a, a)
  BY <1>2 DEF IsInjective
<1>7. \A j \in DOMAIN q : Behind(q[j], mi)
  BY <1>2, <1>3
<1>8. T(mi) \in 0..4
  BY TierType DEF TierOf, NoTier
<1>0. \A x : <<x>> # <<>>
  OBVIOUS
<1> HIDE DEF T, R, E, q, tp, Behind
<1>9. \A j, l \in DOMAIN q : q[j] = q[l] => j = l
  <2> SUFFICES ASSUME NEW j \in DOMAIN q, NEW l \in DOMAIN q, q[j] = q[l], j < l PROVE FALSE
    BY <1>1
  <2>1. <<q[j], q[l]>> \in R /\ T(q[j]) \in 0..3
    BY <1>3
  <2>2. T(q[j]) < T(q[j]) \/ Behind(q[j], q[j])
    BY <1>4, <1>5, <2>1
  <2> QED BY <1>5, <1>6, <2>1, <2>2
<1>10. CASE tier = NoTier
  <2>1. ClientStep(acc, mi, search, current) = acc
    BY <1>10 DEF ClientStep, TierOf, T
  <2>2. \A j \in DOMAIN q : T(q[j]) \in 0..3 /\ \E i \in 1..k + 1 : menuq[i] = q[j]
    BY <1>2, <1>3
  <2>3. Tiered(acc, menuq, k + 1, search, current)
    BY <1>3, <2>2 DEF Tiered, TieredBy, q, tp, T, R
  <2> QED BY <2>1, <2>3
<1>11. CASE tier # NoTier
  <2> DEFINE p0 == After(acc, tier)
             S == Above(acc, tier)
             r == InsertAt(q, p0, mi)
             f == [tp EXCEPT ![tier] = <<mi>>]
  <2>1. tier \in 0..3
    BY <1>8, <1>11 DEF NoTier
  <2>2. p0 \in 1..Len(q) + 1
    BY <2>1, <1>5, ClientStepType DEF q
  <2>3. S = {t \in 0..tier : tp[t] # <<>>} /\ \A t \in 0..tier : t \in 0..3
    BY <2>1 DEF Above, tp
  <2>4. /\ \A j \in DOMAIN q : j < p0 => T(q[j]) <= tier
        /\ \A j \in DOMAIN q : p0 <= j => tier < T(q[j])
    <3>1. CASE S = {}
      <4>1. p0 = 1
        BY <3>1 DEF After
      <4>2. \A j \in DOMAIN q : tier < T(q[j])
        <5> SUFFICES ASSUME NEW j \in DOMAIN q, T(q[j]) <= tier PROVE FALSE
          BY <1>3, <2>1
        <5>1. T(q[j]) \in 0..tier /\ T(q[j]) \in 0..3
          BY <1>3, <2>1
        <5>2. tp[T(q[j])] = <<>>
          BY <2>3, <3>1, <5>1
        <5>3. PICK t \in 0..3 : t = T(q[j])
          BY <5>1
        <5>4. PICK p \in DOMAIN q : tp[t] = <<q[p]>>
          BY <1>3, <5>3
        <5>5. tp[t] = <<>>
          BY <5>2, <5>3
        <5> QED BY <1>0, <5>4, <5>5
      <4> QED BY <1>1, <4>1, <4>2
    <3>2. CASE S # {}
      <4> DEFINE a == Max(S)
      <4>1. a \in S /\ \A y \in S : a >= y
        <5>1. S \subseteq Int /\ 3 \in Int /\ \A y \in S : y <= 3
          BY <2>1, <2>3
        <5> HIDE DEF S
        <5> QED BY <3>2, <5>1, GreatestInt
      <4>2. a \in 0..tier /\ a \in 0..3 /\ tp[a] # <<>>
        BY <2>3, <4>1
      <4>3. p0 = Found(q, tp[a]) + 1
        BY <3>2 DEF After, q, tp
      <4> HIDE DEF a, S
      <4>4. PICK p \in DOMAIN q : /\ tp[a] = <<q[p]>> /\ T(q[p]) = a
                                  /\ \A j \in DOMAIN q : p < j => T(q[j]) # a
        BY <1>3, <4>2
      <4>5. p0 = p + 1
        <5>1. \A j \in DOMAIN q : q[j] = q[p] => j = p
          BY <1>9
        <5>2. Found(q, tp[a]) = p
          BY <1>1, <4>4, <5>1, FoundAt
        <5> QED BY <4>3, <5>2
      <4>6. \A j \in DOMAIN q : j < p => T(q[j]) <= a
        <5> SUFFICES ASSUME NEW j \in DOMAIN q, j < p PROVE T(q[j]) <= a
          OBVIOUS
        <5>1. <<q[j], q[p]>> \in R
          BY <1>3
        <5> QED BY <1>3, <1>4, <1>5, <4>4, <5>1
      <4>7. \A j \in DOMAIN q : p < j => a < T(q[j])
        <5> SUFFICES ASSUME NEW j \in DOMAIN q, p < j PROVE a < T(q[j])
          OBVIOUS
        <5>1. <<q[p], q[j]>> \in R
          BY <1>3
        <5> QED BY <1>3, <1>4, <1>5, <4>2, <4>4, <5>1
      <4>8. \A j \in DOMAIN q : a < T(q[j]) => tier < T(q[j])
        <5> SUFFICES ASSUME NEW j \in DOMAIN q, a < T(q[j]), T(q[j]) <= tier PROVE FALSE
          BY <1>3, <2>1
        <5>1. PICK t \in 0..3 : t = T(q[j])
          BY <1>3
        <5>2. t \in 0..tier /\ t \in Int
          BY <2>1, <5>1
        <5>3. tp[t] # <<>>
          <6>1. ~\A l \in DOMAIN q : T(q[l]) # t
            BY <5>1
          <6>2. PICK l \in DOMAIN q : tp[t] = <<q[l]>>
            BY <1>3, <6>1
          <6> QED BY <1>0, <6>2
        <5>4. t \in S
          BY <2>3, <5>2, <5>3
        <5>5. a >= t
          BY <4>1, <5>4
        <5> QED BY <4>2, <5>1, <5>2, <5>5
      <4> HIDE DEF p0
      <4>9. \A j \in DOMAIN q : j < p0 <=> j <= p
        BY <1>1, <4>5
      <4>10. ASSUME NEW j \in DOMAIN q, j <= p PROVE T(q[j]) <= tier
        <5>1. T(q[j]) <= a /\ T(q[j]) \in 0..3
          BY <1>1, <1>3, <4>2, <4>4, <4>6, <4>10
        <5> QED BY <2>1, <4>2, <5>1
      <4>11. ASSUME NEW j \in DOMAIN q, ~(j <= p) PROVE tier < T(q[j])
        BY <1>1, <4>7, <4>8, <4>11
      <4>12. \A j \in DOMAIN q : p0 <= j <=> ~(j <= p)
        BY <1>1, <4>5
      <4> QED BY <4>9, <4>10, <4>11, <4>12
    <3> QED BY <3>1, <3>2
  <2> HIDE DEF p0, S, mi
  <2>5. \A j \in DOMAIN q : j < p0 => <<q[j], mi>> \in R
    <3> SUFFICES ASSUME NEW j \in DOMAIN q, j < p0 PROVE <<q[j], mi>> \in R
      OBVIOUS
    <3>1. T(q[j]) < T(mi) \/ T(q[j]) = T(mi)
      BY <1>3, <2>1, <2>4
    <3> QED BY <1>4, <1>5, <1>7, <3>1
  <2>6. \A j \in DOMAIN q : p0 <= j => <<mi, q[j]>> \in R
    BY <1>4, <1>5, <2>4
  <2>7. /\ r \in Seq(A) /\ Len(r) = Len(q) + 1 /\ ToSet(r) = ToSet(q) \cup {mi}
        /\ \A j, l \in DOMAIN r : j < l => <<r[j], r[l]>> \in R
    <3> HIDE DEF tier, f
    <3>1. q \in Seq(A) /\ mi \in A /\ \A j, l \in DOMAIN q : j < l => <<q[j], q[l]>> \in R
      BY <1>1, <1>3, <1>5
    <3>2. q \in Seq(A) /\ mi \in A
      BY <3>1
    <3>3. \A j, l \in DOMAIN q : j < l => <<q[j], q[l]>> \in R
      BY <3>1
    <3>4. \A s \in Seq(A), d \in A : \A o \in 1..Len(s) + 1 :
            /\ \A j, l \in DOMAIN s : j < l => <<s[j], s[l]>> \in R
            /\ \A j \in DOMAIN s : j < o => <<s[j], d>> \in R
            /\ \A j \in DOMAIN s : o <= j => <<d, s[j]>> \in R
            => LET x == InsertAt(s, o, d)
               IN /\ x \in Seq(A) /\ Len(x) = Len(s) + 1
                  /\ ToSet(x) = ToSet(s) \cup {d}
                  /\ \A j, l \in DOMAIN x : j < l => <<x[j], x[l]>> \in R
      <4> HIDE DEF r
      <4> QED BY InsertedSet
    <3> QED BY <2>2, <2>5, <2>6, <3>2, <3>3, <3>4, Zenon
  <2>8. \A i \in 1..Len(q) + 1 :
          r[i] = IF i < p0 THEN q[i] ELSE IF i = p0 THEN mi ELSE q[i - 1]
    <3> HIDE DEF tier, f
    <3>1. q \in Seq(A) /\ mi \in A
      BY <1>1, <1>5
    <3>2. Insertion(r, q, p0, mi)
      BY <2>2, <3>1, Inserted
    <3> HIDE DEF r
    <3> QED BY <3>2 DEF Insertion
  <2>9. ClientStep(acc, mi, search, current) = [q |-> r, tierp |-> f]
    BY <1>11 DEF ClientStep, TierOf, T, p0, q, tp
  <2>10. f \in [0..3 -> Seq(A)] /\ f[tier] = <<mi>> /\ \A t \in 0..3 : t # tier => f[t] = tp[t]
    <3>1. <<mi>> \in Seq(A)
      BY <1>5
    <3> QED BY <1>1, <2>1, <3>1
  <2> HIDE DEF r, f
  <2>11. DOMAIN r = 1..Len(q) + 1 /\ Len(q) + 1 \in Nat
    BY <1>1, <2>7
  <2>12. ASSUME NEW j \in DOMAIN r
         PROVE  T(r[j]) \in 0..3 /\ \E i \in 1..k + 1 : menuq[i] = r[j]
    <3>1. r[j] \in ToSet(q) \cup {mi}
      BY <2>7 DEF ToSet
    <3>2. \A x \in ToSet(q) : T(x) \in 0..3 /\ \E i \in 1..k + 1 : menuq[i] = x
      BY <1>2, <1>3 DEF ToSet
    <3>3. T(mi) \in 0..3 /\ \E i \in 1..k + 1 : menuq[i] = mi
      BY <1>2, <2>1 DEF mi
    <3> QED BY <3>1, <3>2, <3>3
  <2>13. p0 \in DOMAIN r /\ r[p0] = mi /\ \A j \in DOMAIN r : p0 < j => T(r[j]) # tier
    <3>1. p0 \in DOMAIN r /\ r[p0] = mi
      BY <1>1, <2>2, <2>8, <2>11
    <3>2. ASSUME NEW j \in DOMAIN r, p0 < j PROVE T(r[j]) # tier
      <4>1. j - 1 \in DOMAIN q /\ p0 <= j - 1 /\ r[j] = q[j - 1]
        BY <1>1, <2>2, <2>8, <2>11, <3>2
      <4> QED BY <1>3, <2>1, <2>4, <4>1
    <3> QED BY <3>1, <3>2
  <2>14. ASSUME NEW t \in 0..3, t # tier
         PROVE  \/ f[t] = <<>> /\ \A j \in DOMAIN r : T(r[j]) # t
                \/ \E p \in DOMAIN r :
                     /\ f[t] = <<r[p]>> /\ T(r[p]) = t
                     /\ \A j \in DOMAIN r : p < j => T(r[j]) # t
    <3>1. CASE tp[t] = <<>> /\ \A j \in DOMAIN q : T(q[j]) # t
      <4>1. \A x \in ToSet(q) \cup {mi} : T(x) # t
        BY <2>14, <3>1 DEF ToSet
      <4>2. \A j \in DOMAIN r : r[j] \in ToSet(q) \cup {mi}
        BY <2>7 DEF ToSet
      <4> QED BY <2>10, <2>14, <3>1, <4>1, <4>2
    <3>2. ASSUME NEW p \in DOMAIN q, tp[t] = <<q[p]>>, T(q[p]) = t,
                 \A j \in DOMAIN q : p < j => T(q[j]) # t
          PROVE  \E x \in DOMAIN r :
                     /\ f[t] = <<r[x]>> /\ T(r[x]) = t
                     /\ \A j \in DOMAIN r : x < j => T(r[j]) # t
      <4> DEFINE x == IF p < p0 THEN p ELSE p + 1
      <4>1. x \in DOMAIN r /\ r[x] = q[p]
        <5>1. CASE p < p0
          BY <1>1, <2>8, <2>11, <5>1
        <5>2. CASE ~(p < p0)
          <6>1. x = p + 1 /\ x \in 1..Len(q) + 1 /\ ~(x < p0) /\ x # p0 /\ x - 1 = p
            BY <1>1, <2>2, <5>2
          <6> QED BY <2>8, <2>11, <6>1
        <5> QED BY <5>1, <5>2
      <4>2. ASSUME NEW j \in DOMAIN r, x < j PROVE T(r[j]) # t
        <5>1. CASE j = p0
          BY <2>13, <2>14, <5>1
        <5>2. CASE j < p0
          <6>1. j \in DOMAIN q /\ p < j /\ r[j] = q[j]
            BY <1>1, <2>2, <2>8, <2>11, <4>2, <5>2
          <6> QED BY <3>2, <6>1
        <5>3. CASE p0 < j
          <6>1. j - 1 \in DOMAIN q /\ p < j - 1 /\ r[j] = q[j - 1]
            BY <1>1, <2>2, <2>8, <2>11, <4>2, <5>3
          <6> QED BY <3>2, <6>1
        <5> QED BY <2>2, <2>11, <5>1, <5>2, <5>3
      <4>3. f[t] = <<r[x]>> /\ T(r[x]) = t
        BY <2>10, <2>14, <3>2, <4>1
      <4> HIDE DEF x
      <4> QED BY <4>1, <4>2, <4>3
    <3> QED BY <1>3, <3>1, <3>2
  <2>15. \A t \in 0..3 :
           \/ f[t] = <<>> /\ \A j \in DOMAIN r : T(r[j]) # t
           \/ \E p \in DOMAIN r :
                /\ f[t] = <<r[p]>> /\ T(r[p]) = t
                /\ \A j \in DOMAIN r : p < j => T(r[j]) # t
    <3> TAKE t \in 0..3
    <3>1. CASE t = tier
      BY <2>1, <2>10, <2>13, <3>1
    <3>2. CASE t # tier
      BY <2>14, <3>2
    <3> QED BY <3>1, <3>2
  <2> DEFINE b == [q |-> r, tierp |-> f]
  <2>16. b.q = r /\ b.tierp = f
    OBVIOUS
  <2> HIDE DEF b
  <2>17. TieredBy(r, f, menuq, k + 1, search, current)
    <3>1. \A j \in DOMAIN r : T(r[j]) \in 0..3 /\ \E i \in 1..k + 1 : menuq[i] = r[j]
      BY <2>12
    <3>2. \A j, l \in DOMAIN r : j < l => <<r[j], r[l]>> \in R
      BY <2>7
    <3> QED BY <2>15, <3>1, <3>2 DEF TieredBy, T, R
  <2>18. Tiered(b, menuq, k + 1, search, current)
    BY <2>16, <2>17 DEF Tiered
  <2> QED BY <2>9, <2>18 DEF b, mi
<1> QED
  BY <1>10, <1>11

\* search_match_client finds windows of the menu, tier by tier
LEMMA ClientFound ==
  ASSUME NEW A, NEW menuq \in Seq(A), IsInjective(menuq), NEW search, NEW current
  PROVE  LET q == MatchClient(menuq, search, current)
         IN /\ q \in Seq(A)
            /\ \A j, k \in DOMAIN q : j < k => <<q[j], q[k]>> \in InTiers(menuq, search, current)
<1> DEFINE n == Len(menuq)
           T == Tiers(A)
           from == [q |-> <<>>, tierp |-> [t \in 0..3 |-> <<>>]]
           One(acc, mi) == ClientStep(acc, mi, search, current)
           step == [p \in T \X (1 .. n) |-> One(p[1], menuq[p[2]])]
           Is(f) == f = [s \in SUBSET DOMAIN menuq |->
                           IF s = {} THEN from
                           ELSE One(f[s \ {Max(s)}], menuq[Max(s)])]
           it == CHOOSE f : Is(f)
           at == it[DOMAIN menuq]
<1>1. n \in Nat /\ DOMAIN menuq = 1 .. n
  OBVIOUS
<1>2. from \in T
  BY DEF Tiers
<1>3. \A acc \in T, i \in 1 .. n : One(acc, menuq[i]) \in T
  BY <1>1, ClientStepType
<1>4. MatchClient(menuq, search, current) = at.q
  BY Zenon DEF MatchClient, FoldLeft, MapThenFoldSet, ClientStep, After, Above, Found
<1> HIDE DEF n, T, One
<1>5. step \in [T \X (1 .. n) -> T]
  BY <1>3
<1>6. \A e \in T, i \in 1 .. n : step[<<e, i>>] = One(e, menuq[i])
  OBVIOUS
<1> DEFINE Good(acc, k) == Tiered(acc, menuq, k, search, current)
<1>a. Good(from, 0)
  BY DEF Tiered, TieredBy
<1> HIDE DEF step, from
<1>7. PICK h \in [SUBSET (1 .. n) -> T] : Recursion(h, from, step, n)
  <2> HIDE DEF it, Is
  <2> QED BY <1>1, <1>2, <1>5, SubsetRecursion
<1>8. Is(h)
  <2>1. ASSUME NEW s \in SUBSET (1 .. n), s # {}
        PROVE  h[s] = One(h[s \ {Max(s)}], menuq[Max(s)])
    <3>1. Max(s) \in 1 .. n /\ s \ {Max(s)} \in SUBSET (1 .. n)
      BY <1>1, <2>1, MaxInside
    <3>2. h[s] = step[<<h[s \ {Max(s)}], Max(s)>>]
      BY <1>7, <2>1 DEF Recursion
    <3> QED BY <1>6, <3>1, <3>2
  <2>2. h[{}] = from
    BY <1>7 DEF Recursion
  <2> QED BY <1>1, <2>1, <2>2
<1>9. Is(it)
  BY <1>8
<1>10. Follows(it, from, step, T, n)
  <2> SUFFICES ASSUME NEW s \in SUBSET (1 .. n), s # {}, it[s \ {Max(s)}] \in T
               PROVE  it[s] = step[<<it[s \ {Max(s)}], Max(s)>>]
    BY <1>1, <1>9 DEF Follows
  <2>1. Max(s) \in 1 .. n
    BY <1>1, MaxInside
  <2>2. it[s] = One(it[s \ {Max(s)}], menuq[Max(s)])
    BY <1>1, <1>9
  <2> QED BY <1>6, <2>1, <2>2
<1> HIDE DEF it, Is
<1>11. /\ it[1 .. 0] = from
       /\ \A k \in 1 .. n : it[1 .. k] = step[<<it[1 .. k - 1], k>>]
       /\ \A k \in 0 .. n : it[1 .. k] \in T
  BY <1>1, <1>2, <1>5, <1>10, FoldPrefixes
<1> HIDE DEF Good
<1> DEFINE U == {k \in 0 .. n : Good(it[1 .. k], k)}
<1>12. 0 \in U
  BY <1>1, <1>11, <1>a
<1>13. ASSUME NEW k \in 0 .. n - 1, k \in U
       PROVE  k + 1 \in U
  <2>1. k + 1 \in 1 .. n /\ (k + 1) - 1 = k /\ k + 1 \in 0 .. n /\ k \in 0 .. n
    BY <1>1
  <2> DEFINE q == it[1 .. k]
             r == it[1 .. k + 1]
  <2>2. q \in T /\ Good(q, k) /\ r = One(q, menuq[k + 1])
    <3>1. r = step[<<q, k + 1>>]
      BY <1>11, <2>1
    <3> QED BY <1>6, <1>11, <1>13, <2>1, <3>1
  <2> HIDE DEF q, r
  <2>3. k \in 0 .. Len(menuq) - 1
    BY DEF n
  <2>4. Good(r, k + 1)
    BY <2>2, <2>3, ClientStepKeeps DEF One, T, Good
  <2> QED BY <2>1, <2>4 DEF r
<1>14. n \in U
  <2> HIDE DEF U
  <2>1. \A k \in 0 .. n : k \in U
    BY <1>1, <1>12, <1>13, IntervalSets
  <2> QED BY <1>1, <2>1
<1>15. Good(at, n) /\ at \in T
  BY <1>1, <1>11, <1>14
<1> HIDE DEF at, U
<1>16. at.q \in Seq(A)
  BY <1>15 DEF T, Tiers
<1>17. \A j, k \in DOMAIN at.q : j < k => <<at.q[j], at.q[k]>> \in InTiers(menuq, search, current)
  BY <1>15 DEF Good, Tiered, TieredBy
<1> QED
  BY <1>4, <1>16, <1>17

----------------------------------------------------------------------------
(* The invariant.                                                          *)

\* m is a record with the fields of Menu.
Shaped(m) ==
  m = [kind |-> m.kind, search |-> m.search, results |-> m.results,
       list |-> m.list, listing |-> m.listing, y |-> m.y, len |-> m.len,
       saved |-> m.saved, focus |-> m.focus]

\* The menus open: one, or the menu of programs with that of files inside.
Nested ==
  \/ open = <<>>
  \/ \E m : open = <<m>> /\ Shaped(m)
  \/ \E m, n : open = <<m, n>> /\ Shaped(m) /\ Shaped(n) /\ n.kind = "path"

\* The outer menu remembers the focus of the client.
FocusKept ==
  /\ open = <<>> => ~grabbed /\ focus = 0
  /\ open # <<>> => grabbed /\ focus = Len(open) /\ open[1].focus = 0

\* Each menu remembers where the pointer was when it was opened: home, or where
\* the outer menu had taken it; if the user leaves the pointer alone it is
\* there still, or where the inner menu has taken it.
PointerKept ==
  ~moved =>
    /\ open = <<>> => pointer = home
    /\ open # <<>> => open[1].saved = home
    /\ Len(open) = 1 => pointer \in {home, open[1].y}
    /\ Len(open) = 2 => /\ open[2].saved \in {home, open[1].y}
                        /\ pointer \in {open[2].saved, open[2].y}

MInv == Nested /\ FocusKept /\ PointerKept

----------------------------------------------------------------------------
(* One menu.                                                               *)

\* n is the menu m with other results, and another text or place.
Alike(m, n) ==
  Shaped(n) /\ n.kind = m.kind /\ n.saved = m.saved /\ n.focus = m.focus

\* menu_handle_key remembers what the menu remembers, and does not move it.
LEMMA SettleAlike ==
  ASSUME NEW m, Shaped(m), NEW changed
  PROVE  Alike(m, Settle(m, changed)) /\ Settle(m, changed).y = m.y
<1>1. PICK a, b : Settle(m, changed) = [m EXCEPT !.results = a, !.listing = b]
  BY DEF Settle, Shaped
<1> QED
  BY <1>1 DEF Alike, Shaped

\* menu_draw remembers it too.
LEMMA DrawAlike ==
  ASSUME NEW m, Shaped(m), NEW changed
  PROVE  Alike(m, Draw(m, changed))
<1> DEFINE n == Listed(m, changed)
<1>1. Alike(m, n)
  BY DEF Listed, Alike, Shaped
<1> HIDE DEF n
<1>2. PICK a, b : Placed(n) = [n EXCEPT !.y = a, !.len = b]
  BY DEF Placed
<1>3. Draw(m, changed) = Placed(n)
  BY DEF Draw, n
<1> QED
  BY <1>1, <1>2, <1>3 DEF Alike, Shaped

----------------------------------------------------------------------------
(* The sequence of open menus.                                             *)

\* Opening the first menu and the second.
LEMMA OneMore ==
  ASSUME NEW m, NEW n
  PROVE  Append(<<>>, n) = <<n>> /\ Append(<<m>>, n) = <<m, n>>
<1> DEFINE S == {m, n}
           s == <<m>>
           t == Append(s, n)
           u == <<m, n>>
<1>1. s \in Seq(S) /\ Len(s) = 1 /\ s[1] = m /\ n \in S
  OBVIOUS
<1>2. u \in Seq(S) /\ Len(u) = 2 /\ u[1] = m /\ u[2] = n
  OBVIOUS
<1> HIDE DEF s, u, S
<1>3. t \in Seq(S) /\ Len(t) = Len(s) + 1 /\ t[Len(s) + 1] = n
  BY <1>1, AppendProperties, Zenon
<1>4. t[1] = s[1]
  BY <1>1, SMTT(30)
<1> HIDE DEF t
<1>5. Len(t) = 2 /\ t[1] = m /\ t[2] = n
  BY <1>1, <1>3, <1>4
<1>6. t = u
  BY <1>2, <1>3, <1>5, SeqEqual
<1> QED
  BY <1>6 DEF t, s, u

\* Changing the inner menu.
LEMMA InnerChanged ==
  ASSUME NEW m, NEW n, NEW k
  PROVE  [<<m>> EXCEPT ![1] = k] = <<k>> /\ [<<m, n>> EXCEPT ![2] = k] = <<m, k>>
OBVIOUS

----------------------------------------------------------------------------
(* The steps.                                                              *)

\* The inner menu changes, and is drawn with the pointer following it.
LEMMA ShowKeeps ==
  ASSUME MInv, open # <<>>, NEW mc, Alike(Inner, mc), mc.y = Inner.y,
         NEW changed, Show(mc, changed)
  PROVE  MInv'
<1> DEFINE k == Draw(mc, changed)
<1>1. Alike(Inner, k)
  BY DrawAlike DEF Alike
<1>2. /\ open' = [open EXCEPT ![Len(open)] = k]
      /\ pointer' = IF k.y # mc.y THEN k.y ELSE pointer
      /\ UNCHANGED <<grabbed, focus, home, moved>>
  BY DEF Show
<1> HIDE DEF k
<1>3. ASSUME NEW m, open = <<m>>, Shaped(m)
      PROVE  MInv'
  <2>1. Inner = m /\ Len(open) = 1 /\ open' = <<k>>
    BY <1>2, <1>3, InnerChanged DEF Inner
  <2>2. Nested'
    BY <1>1, <2>1 DEF Nested, Alike
  <2>3. FocusKept'
    BY <1>1, <1>2, <1>3, <2>1 DEF MInv, FocusKept, Alike
  <2>4. PointerKept'
    BY <1>1, <1>2, <1>3, <2>1 DEF MInv, PointerKept, Alike
  <2> QED
    BY <2>2, <2>3, <2>4 DEF MInv
<1>4. ASSUME NEW m, NEW n, open = <<m, n>>, Shaped(m), Shaped(n), n.kind = "path"
      PROVE  MInv'
  <2>1. Inner = n /\ Len(open) = 2 /\ open' = <<m, k>>
    BY <1>2, <1>4, InnerChanged DEF Inner
  <2>2. Nested'
    BY <1>1, <1>4, <2>1 DEF Nested, Alike
  <2>3. FocusKept'
    BY <1>1, <1>2, <1>4, <2>1 DEF MInv, FocusKept
  <2>4. PointerKept'
    BY <1>1, <1>2, <1>4, <2>1 DEF MInv, PointerKept, Alike
  <2> QED
    BY <2>2, <2>3, <2>4 DEF MInv
<1> QED
  BY <1>3, <1>4 DEF MInv, Nested

\* The inner menu has the fields of a menu.
LEMMA InnerShaped ==
  ASSUME Nested, open # <<>>
  PROVE  Shaped(Inner)
BY DEF Nested, Inner

\* A key that changes the text or the results of the inner menu.
LEMMA KeyKeeps ==
  ASSUME MInv, Typing, NEW mc, Alike(Inner, mc), mc.y = Inner.y,
         NEW changed, KeyHandled(mc, changed)
  PROVE  MInv'
<1>1. Shaped(Inner) /\ open # <<>>
  BY InnerShaped DEF MInv, Typing, Reading
<1> DEFINE n == Settle(mc, changed)
<1>2. Alike(mc, n) /\ n.y = mc.y
  BY SettleAlike DEF Alike
<1>3. Show(n, changed)
  BY DEF KeyHandled
<1> HIDE DEF n
<1>4. Alike(Inner, n) /\ n.y = Inner.y
  BY <1>2 DEF Alike
<1> QED
  BY <1>1, <1>3, <1>4, ShowKeeps

\* Text, results and listing are not what is remembered.
LEMMA Retyped ==
  ASSUME MInv, Typing, NEW a
  PROVE  /\ Alike(Inner, Inner) /\ Inner.y = Inner.y
         /\ Alike(Inner, [Inner EXCEPT !.search = a])
         /\ [Inner EXCEPT !.search = a].y = Inner.y
         /\ Alike(Inner, [Inner EXCEPT !.results = a])
         /\ [Inner EXCEPT !.results = a].y = Inner.y
         /\ Alike(Inner, [Inner EXCEPT !.list = a])
         /\ [Inner EXCEPT !.list = a].y = Inner.y
<1> DEFINE m == Inner
<1>1. Shaped(m)
  BY InnerShaped DEF MInv, Typing, Reading
<1> HIDE DEF m
<1> QED
  BY <1>1 DEF Alike, Shaped, m

\* menu_filter returns, from one menu or from two.
LEMMA ReturnKeeps ==
  ASSUME MInv, open # <<>>, NEW mi, Return(mi)
  PROVE  MInv'
<1>1. /\ open' = <<>> /\ grabbed' = FALSE /\ focus' = open[1].focus
      /\ home' = home /\ moved' = moved
  BY DEF Return
<1>2. Nested' /\ FocusKept'
  BY <1>1 DEF Nested, FocusKept, MInv
<1>3. ASSUME ~moved  PROVE pointer' = home
  <2>1. CASE Len(open) = 1
    BY <1>3, <2>1 DEF Return, MInv, PointerKept, PointerBack, Inner
  <2>2. CASE Len(open) = 2
    <3>1. pointer' = PointerBack(PointerBack(pointer, Inner), open[1])
      BY <2>2 DEF Return
    <3>2. PointerBack(pointer, Inner) = open[2].saved
      BY <1>3, <2>2 DEF MInv, PointerKept, PointerBack, Inner
    <3> QED
      BY <1>3, <2>2, <3>1, <3>2 DEF MInv, PointerKept, PointerBack
  <2>3. Len(open) = 1 \/ Len(open) = 2
    BY DEF MInv, Nested
  <2> QED
    BY <2>1, <2>2, <2>3
<1>4. PointerKept'
  BY <1>1, <1>3 DEF PointerKept
<1> QED
  BY <1>2, <1>4 DEF MInv

\* The first menu is opened, or refused.
LEMMA OpenKeeps ==
  ASSUME MInv, NEW kind, Open(kind) \/ Refused(kind)
  PROVE  MInv'
<1>1. CASE Open(kind)
  <2> DEFINE m == Menu(kind, IF kind = "label" THEN label ELSE <<>>)
  <2>1. /\ open = <<>> /\ open' = <<m>> /\ grabbed' = TRUE /\ focus' = 1
        /\ home' = pointer /\ pointer' = pointer
    BY <1>1, OneMore DEF Open, Enter
  <2>2. /\ Shaped(m) /\ m.saved = pointer /\ m.y = pointer /\ m.focus = 0
    BY <2>1 DEF Menu, Shaped, MInv, FocusKept
  <2> HIDE DEF m
  <2>3. Nested'
    BY <2>1, <2>2 DEF Nested
  <2>4. FocusKept'
    BY <2>1, <2>2 DEF FocusKept
  <2>5. PointerKept'
    BY <2>1, <2>2 DEF PointerKept
  <2> QED
    BY <2>3, <2>4, <2>5 DEF MInv
<1>2. CASE Refused(kind)
  BY <1>2 DEF Refused, MInv, Nested, FocusKept, PointerKept
<1> QED
  BY <1>1, <1>2

\* Tab on a command opens the menu of files inside that of programs; inside
\* the menu of files itself it does not.
LEMMA LaunchKeeps ==
  ASSUME MInv, KeyTabLaunches
  PROVE  MInv'
<1> DEFINE n == Menu("path", <<>>)
<1>1. PICK m : open = <<m>> /\ Shaped(m)
  <2>1. open # <<>> /\ Inner.kind = "exec"
    BY DEF KeyTabLaunches, Typing, Reading, Launches, File
  <2>2. ASSUME NEW m, NEW k, open = <<m, k>>, k.kind = "path"
        PROVE  FALSE
    <3>1. Inner = k
      BY <2>2 DEF Inner
    <3> QED
      BY <2>1, <2>2, <3>1
  <2> QED
    BY <2>1, <2>2 DEF MInv, Nested
<1>2. /\ open' = <<m, n>> /\ grabbed' = TRUE /\ focus' = 2
      /\ UNCHANGED <<pointer, home, moved>>
  BY <1>1, OneMore DEF KeyTabLaunches, Enter
<1>3. Shaped(n) /\ n.kind = "path" /\ n.saved = pointer /\ n.y = pointer
  BY DEF Menu, Shaped
<1> HIDE DEF n
<1>4. Nested'
  BY <1>1, <1>2, <1>3 DEF Nested
<1>5. FocusKept'
  BY <1>1, <1>2 DEF FocusKept, MInv
<1>6. PointerKept'
  BY <1>1, <1>2, <1>3 DEF PointerKept, MInv
<1> QED
  BY <1>4, <1>5, <1>6 DEF MInv

\* Whatever happens to a menu.
LEMMA NextKeeps ==
  ASSUME MInv, [Next]_vars
  PROVE  MInv'
<1>1. ASSUME NEW kind \in Kinds, Open(kind) \/ Refused(kind) PROVE MInv'
  BY <1>1, OpenKeeps
<1>2. CASE Expose
  <2>1. open # <<>> /\ Show(Inner, FALSE)
    BY <1>2 DEF Expose, Reading
  <2>2. Alike(Inner, Inner)
    BY <2>1, InnerShaped DEF MInv, Alike
  <2> QED
    BY <2>1, <2>2, ShowKeeps
<1>3. ASSUME NEW l \in Letters, KeyLetter(l) PROVE MInv'
  BY <1>3, Retyped, KeyKeeps DEF KeyLetter
<1>4. CASE KeyErase
  BY <1>4, Retyped, KeyKeeps DEF KeyErase
<1>5. CASE KeyWipe
  BY <1>5, Retyped, KeyKeeps DEF KeyWipe
<1>6. ASSUME NEW q, Rotate(q) PROVE MInv'
  <2>1. CASE IsPathResult(Inner.results)
    BY <1>6, <2>1 DEF Rotate, MInv, Nested, FocusKept, PointerKept
  <2>2. CASE ~IsPathResult(Inner.results)
    BY <1>6, <2>2, Retyped, KeyKeeps DEF Rotate
  <2> QED
    BY <2>1, <2>2
<1>7. CASE KeyUp \/ KeyDown
  BY <1>6, <1>7 DEF KeyUp, KeyDown
<1>8. CASE KeyReturn
  BY <1>8, ReturnKeeps DEF KeyReturn, Typing, Reading
<1>9. CASE KeyTab
  BY <1>9, Retyped, KeyKeeps DEF KeyTab
<1>10. CASE KeyTabLaunches
  BY <1>10, LaunchKeeps
<1>11. CASE KeyAll
  BY <1>11, Retyped, KeyKeeps DEF KeyAll
<1>12. CASE KeyAbort
  BY <1>12, ReturnKeeps DEF KeyAbort, Typing, Reading
<1>13. ASSUME NEW row \in Rows, MovePointer(row) PROVE MInv'
  BY <1>13 DEF MovePointer, MInv, Nested, FocusKept, PointerKept
<1>14. ASSUME NEW beside \in BOOLEAN, ButtonRelease(beside) PROVE MInv'
  <2>1. open # <<>> /\ \E mi : Return(mi)
    BY <1>14 DEF ButtonRelease, Reading
  <2> QED
    BY <2>1, ReturnKeeps
<1>15. CASE UNCHANGED vars
  BY <1>15 DEF vars, MInv, Nested, FocusKept, PointerKept
<1> QED
  BY <1>1, <1>2, <1>3, <1>4, <1>5, <1>7, <1>8, <1>9, <1>10, <1>11, <1>12,
     <1>13, <1>14, <1>15 DEF Next

\* The inductive invariant of the menus.
THEOREM MenuInvariant == Spec => []MInv
<1>1. Init => MInv
  BY DEF Init, MInv, Nested, FocusKept, PointerKept
<1> QED
  BY <1>1, NextKeeps, PTL DEF Spec

\* Pointer and keyboard are grabbed, and the focus taken, exactly as long as a
\* menu is open: menu_filter gives both back on every way out, from the menu
\* inside a menu too.
THEOREM NothingHeldHolds == Spec => []NothingHeld
<1>1. MInv => NothingHeld
  BY DEF MInv, FocusKept, NothingHeld
<1> QED
  BY <1>1, MenuInvariant, PTL

\* A pointer that followed a menu, or two, and that the user left alone is put
\* back (menu_filter, menu_draw), for any entries, keys and rows.
THEOREM PointerReturnsHolds == Spec => []PointerReturns
<1>1. MInv => PointerReturns
  BY DEF MInv, PointerKept, PointerReturns
<1> QED
  BY <1>1, MenuInvariant, PTL

----------------------------------------------------------------------------
(* What a menu offers, and where it is drawn.                              *)

\* Entries of menus, and of the menu of files
Items == [text : Words, ctx : DOMAIN Windows \cup {"item", "path"}]

\* A menu of which the text, the results and the place are what they should be
IsMenu(mc) ==
  /\ Shaped(mc) /\ mc.kind \in Kinds \cup {"path"}
  /\ mc.search \in Words /\ mc.results \in Seq(Items)
  /\ mc.list \in BOOLEAN /\ mc.listing \in BOOLEAN
  /\ mc.y \in Int /\ mc.len \in Nat /\ mc.saved \in Int

\* What matches the text
Matching(mc) == IF mc.search = <<>> THEN <<>> ELSE Match(mc, mc.search)

\* The results are those of the text, or everything, in some rotation
Offers(mc) ==
  LET offer == IF mc.listing THEN Menuq(mc) ELSE Matching(mc)
  IN  ToSet(mc.results) = ToSet(offer) /\ Len(mc.results) = Len(offer)

\* Everything is listed only where nothing matches
ListsRightly(mc) == mc.listing => Matching(mc) = <<>>

\* A menu that lists what there is shows some of it, once it has been drawn
ListsSome(mc) == mc.list /\ mc.results = <<>> => Menuq(mc) = <<>> \/ ListsAll(mc.kind)

Fits(mc) == mc.len > 0 => Top <= mc.y /\ mc.y + mc.len <= Bottom

Right(mc) ==
  /\ IsMenu(mc) /\ (mc.listing => mc.list)
  /\ Offers(mc) /\ ListsRightly(mc) /\ ListsSome(mc) /\ Fits(mc)

AllRight ==
  /\ pointer \in Int /\ label \in Words
  /\ \A i \in DOMAIN open : Right(open[i])

RInv == MInv /\ AllRight

----------------------------------------------------------------------------
(* Matching.                                                               *)

\* Entries have texts.
LEMMA ItemsHaveTexts == \A mi \in Items : mi.text \in Words
BY DEF Items

\* The kinds of menu are those of the commands.
LEMMA KindsNamed ==
  /\ Kinds \subseteq {"window", "exec", "ssh", "group", "label", "unhide", "groups", "commands"}
  /\ "path" \notin Kinds
BY EntriesAssumption

\* The entries of a menu.
LEMMA MenuqType ==
  ASSUME NEW mc
  PROVE  /\ Menuq(mc) \in Seq(Items)
         /\ mc.kind = "window" => IsInjective(Menuq(mc))
         /\ mc.kind = "label" => Menuq(mc) = <<>>
         /\ \A i \in DOMAIN Menuq(mc) : Menuq(mc)[i].ctx # "path"
<1> DEFINE B == [text : Seq(Nat), ctx : DOMAIN Windows \cup {"item"}]
<1>1. B \subseteq Items /\ \A b \in B : b.ctx # "path"
  BY EntriesAssumption DEF Items, Words
<1>2. mc.kind \in Kinds => Entries[mc.kind] \in Seq(B)
  BY EntriesAssumption
<1>3. Menuq(mc) \in Seq(B)
  <2>1. <<>> \in Seq(B)
    OBVIOUS
  <2> HIDE DEF B
  <2> QED BY <1>2, <2>1 DEF Menuq
<1> HIDE DEF B
<1>4. Menuq(mc) \in Seq(Items)
  BY <1>1, <1>3
<1>5. \A i \in DOMAIN Menuq(mc) : Menuq(mc)[i].ctx # "path"
  BY <1>1, <1>3
<1>6. mc.kind = "window" => IsInjective(Menuq(mc))
  <2>1. IsInjective(<<>>)
    BY DEF IsInjective
  <2> QED BY <2>1, EntriesAssumption DEF Menuq
<1>7. mc.kind = "label" => Menuq(mc) = <<>>
  BY EntriesAssumption DEF Menuq
<1> QED
  BY <1>4, <1>5, <1>6, <1>7

\* The file names found: entries of their own kind, sorted.
LEMMA PathsType ==
  ASSUME NEW search
  PROVE  /\ MatchPath(Paths, search) \in Seq(Items)
         /\ MatchPath(Executable, search) \in Seq(Items)
         /\ Sorted(MatchPath(Paths, search)) /\ Sorted(MatchPath(Executable, search))
         /\ \A i \in DOMAIN MatchPath(Executable, search) :
              MatchPath(Executable, search)[i].ctx = "path"
<1> DEFINE B == [text : Words, ctx : {"path"}]
           p == MatchPath(Paths, search)
           q == MatchPath(Executable, search)
<1>1. /\ IsFiniteSet(Paths) /\ Paths \subseteq Words
      /\ IsFiniteSet(Executable) /\ Executable \subseteq Words
  BY PathsAssumption, FS_Subset DEF Words
<1>2. B \subseteq Items /\ \A b \in B : b.ctx = "path"
  BY DEF Items
<1>3. p \in Seq(B) /\ Sorted(p)
  BY <1>1, PathFound
<1>4. q \in Seq(B) /\ Sorted(q)
  BY <1>1, PathFound
<1> HIDE DEF B, p, q
<1>5. p \in Seq(Items) /\ q \in Seq(Items)
  BY <1>2, <1>3, <1>4
<1>6. \A i \in DOMAIN q : q[i].ctx = "path"
  BY <1>2, <1>4
<1> QED
  BY <1>3, <1>4, <1>5, <1>6 DEF p, q

\* What matches is a list of entries; a label has nothing to match.
LEMMA MatchType ==
  ASSUME NEW mc, NEW search
  PROVE  /\ Match(mc, search) \in Seq(Items)
         /\ mc.kind = "label" => Match(mc, search) = <<>>
<1> DEFINE M == Menuq(mc)
<1>1. /\ M \in Seq(Items) /\ (mc.kind = "window" => IsInjective(M))
      /\ (mc.kind = "label" => M = <<>>)
  BY MenuqType
<1> HIDE DEF M
<1>2. mc.kind = "window" => MatchClient(M, search, Current) \in Seq(Items)
  BY <1>1, ClientFound
<1>3. MatchExec(M, search) \in Seq(Items)
  BY <1>1, ItemsHaveTexts, ExecFound
<1>4. MatchExecPath(M, search) \in Seq(Items)
  BY <1>3, PathsType DEF MatchExecPath
<1>5. MatchText(M, search) \in Seq(Items)
  <2> DEFINE S == {mi \in ToSet(M) : SubMatch(search, mi.text)}
  <2>1. Keep(M, S) \in Seq(Items \cap S)
    BY <1>1, KeepType
  <2> HIDE DEF S
  <2>2. Keep(M, S) \in Seq(Items)
    BY <2>1
  <2> QED BY <2>2 DEF MatchText, S
<1>6. M = <<>> => MatchText(M, search) = <<>>
  BY KeepEmpty DEF MatchText
<1> QED
  BY <1>1, <1>2, <1>3, <1>4, <1>5, <1>6, PathsType DEF Match, M

\* What matches depends on the kind of menu and the text
LEMMA MatchingSame ==
  ASSUME NEW m, NEW n, m.kind = n.kind
  PROVE  /\ Menuq(m) = Menuq(n)
         /\ \A s : Match(m, s) = Match(n, s)
         /\ m.search = n.search => Matching(m) = Matching(n)
<1>1. Menuq(m) = Menuq(n)
  BY DEF Menuq
<1>2. \A s : Match(m, s) = Match(n, s)
  BY <1>1 DEF Match
<1> QED
  BY <1>1, <1>2 DEF Matching

\* What matches is a list of entries.
LEMMA MatchingType ==
  ASSUME NEW mc
  PROVE  Matching(mc) \in Seq(Items)
BY MatchType DEF Matching

\* A list is empty when it is as long as an empty one
LEMMA EmptyAlike ==
  ASSUME NEW A, NEW s \in Seq(A), NEW t \in Seq(A), Len(s) = Len(t)
  PROVE  s = <<>> <=> t = <<>>
OBVIOUS

----------------------------------------------------------------------------
(* A key is handled and the menu drawn.                                    *)

\* What the end of menu_handle_key starts from
Edited(mc, changed) ==
  /\ IsMenu(mc)
  /\ changed => (mc.listing => mc.list)
  /\ ~changed => Offers(mc) /\ ListsRightly(mc)

\* What menu_draw starts from
Handled(mc, changed) ==
  /\ IsMenu(mc) /\ (mc.listing => mc.list)
  /\ changed => mc.results = Matching(mc)
  /\ ~changed => Offers(mc) /\ ListsRightly(mc)

\* The end of menu_handle_key: the results are those of the text.
LEMMA SettleRight ==
  ASSUME NEW mc, NEW changed \in BOOLEAN, Edited(mc, changed)
  PROVE  Handled(Settle(mc, changed), changed)
<1> DEFINE a == IF ~changed THEN mc.results ELSE Matching(mc)
           u == ~mc.list /\ mc.listing /\ ~changed
           b == IF u THEN <<>> ELSE a
           c == mc.listing /\ ~u
           n == [mc EXCEPT !.results = b, !.listing = c]
<1>1. Settle(mc, changed) = n
  BY DEF Settle, Matching
<1>2. a \in Seq(Items) /\ b \in Seq(Items) /\ c \in BOOLEAN
  BY MatchingType DEF Edited, IsMenu
<1> HIDE DEF b, c
<1>3. /\ IsMenu(n) /\ n.results = b /\ n.listing = c /\ n.list = mc.list
      /\ n.kind = mc.kind /\ n.search = mc.search
  <2>1. n = [mc EXCEPT !.results = b, !.listing = c] /\ Shaped(mc)
    BY DEF Edited, IsMenu
  <2> HIDE DEF n
  <2>2. /\ Shaped(n) /\ n.results = b /\ n.listing = c /\ n.list = mc.list
        /\ n.kind = mc.kind /\ n.search = mc.search /\ n.y = mc.y /\ n.len = mc.len
        /\ n.saved = mc.saved
    BY <2>1 DEF Shaped
  <2> QED BY <1>2, <2>2 DEF Edited, IsMenu
<1> HIDE DEF n
<1>4. Matching(n) = Matching(mc) /\ Menuq(n) = Menuq(mc)
  BY <1>3, MatchingSame
<1>5. CASE changed
  BY <1>1, <1>3, <1>4, <1>5 DEF b, c, Edited, Handled
<1>6. CASE ~changed /\ ~u
  <2>1. b = mc.results /\ c = mc.listing
    BY <1>6 DEF b, c, Edited, IsMenu
  <2>2. c => mc.list
    BY <1>6, <2>1 DEF Edited, IsMenu
  <2>3. Offers(n) /\ ListsRightly(n)
    BY <1>3, <1>4, <1>6, <2>1 DEF Edited, Offers, ListsRightly
  <2> QED BY <1>1, <1>3, <1>6, <2>1, <2>2, <2>3 DEF Handled
<1>7. CASE ~changed /\ u
  <2>1. b = <<>> /\ c = FALSE /\ Matching(mc) = <<>>
    BY <1>7 DEF b, c, Edited, ListsRightly
  <2>2. Offers(n) /\ ListsRightly(n)
    BY <1>3, <1>4, <2>1 DEF Offers, ListsRightly
  <2> QED BY <1>1, <1>3, <1>7, <2>1, <2>2 DEF Handled
<1> QED
  BY <1>1, <1>5, <1>6, <1>7

\* menu_draw lists everything where nothing matches.
LEMMA ListedRight ==
  ASSUME NEW mc, NEW changed \in BOOLEAN, Handled(mc, changed)
  PROVE  LET n == Listed(mc, changed)
         IN /\ IsMenu(n) /\ (n.listing => n.list)
            /\ Offers(n) /\ ListsRightly(n) /\ ListsSome(n)
            /\ n.y = mc.y /\ n.len = mc.len
<1> DEFINE n == Listed(mc, changed)
<1>1. /\ IsMenu(mc) /\ mc.results \in Seq(Items) /\ Matching(mc) \in Seq(Items)
      /\ Menuq(mc) \in Seq(Items) /\ mc.listing \in BOOLEAN /\ mc.list \in BOOLEAN
  BY MatchingType, MenuqType DEF Handled, IsMenu
<1>2. CASE ~mc.list
  <2>1. n = mc
    BY <1>2 DEF Listed
  <2>2. ~mc.listing
    BY <1>2 DEF Handled
  <2>3. Offers(mc) /\ ListsRightly(mc) /\ ListsSome(mc)
    BY <1>2, <2>2 DEF Handled, Offers, ListsRightly, ListsSome
  <2> QED BY <1>1, <2>1, <2>2, <2>3
<1>3. CASE mc.list /\ mc.results = <<>>
  <2> DEFINE all == Menuq(mc)
             k == [mc EXCEPT !.results = all, !.listing = TRUE]
  <2>1. n = k
    BY <1>3 DEF Listed
  <2>2. all \in Seq(Items)
    BY <1>1
  <2> HIDE DEF all
  <2>3. /\ IsMenu(k) /\ k.results = all /\ k.listing = TRUE /\ k.list = mc.list
        /\ k.kind = mc.kind /\ k.search = mc.search /\ k.y = mc.y /\ k.len = mc.len
    <3>1. k = [mc EXCEPT !.results = all, !.listing = TRUE] /\ Shaped(mc)
      BY <1>1 DEF IsMenu
    <3> HIDE DEF k
    <3>2. /\ Shaped(k) /\ k.results = all /\ k.listing = TRUE /\ k.list = mc.list
          /\ k.kind = mc.kind /\ k.search = mc.search /\ k.y = mc.y /\ k.len = mc.len
          /\ k.saved = mc.saved
      BY <3>1 DEF Shaped
    <3> QED BY <1>1, <2>2, <3>2 DEF IsMenu
  <2> HIDE DEF k, n
  <2>4. Matching(k) = Matching(mc) /\ Menuq(k) = all
    BY <2>3, MatchingSame DEF all
  <2>5. Matching(mc) = <<>>
    <3>1. CASE changed
      BY <1>3, <3>1 DEF Handled
    <3>2. CASE ~changed /\ mc.listing
      BY <3>2 DEF Handled, ListsRightly
    <3>3. CASE ~changed /\ ~mc.listing
      <4>1. Len(mc.results) = Len(Matching(mc))
        BY <3>3 DEF Handled, Offers
      <4> QED BY <1>1, <1>3, <4>1, EmptyAlike
    <3> QED BY <1>1, <3>1, <3>2, <3>3
  <2>6. Offers(k) /\ ListsRightly(k) /\ ListsSome(k)
    BY <2>3, <2>4, <2>5 DEF Offers, ListsRightly, ListsSome
  <2> QED BY <1>3, <2>1, <2>3, <2>6 DEF n
<1>4. CASE mc.list /\ mc.results # <<>>
  <2> DEFINE c == mc.listing /\ ~changed
             k == [mc EXCEPT !.listing = c]
  <2>1. n = k
    BY <1>4 DEF Listed
  <2>2. c \in BOOLEAN
    OBVIOUS
  <2> HIDE DEF c
  <2>3. /\ IsMenu(k) /\ k.results = mc.results /\ k.listing = c /\ k.list = mc.list
        /\ k.kind = mc.kind /\ k.search = mc.search /\ k.y = mc.y /\ k.len = mc.len
    <3>1. k = [mc EXCEPT !.listing = c] /\ Shaped(mc)
      BY <1>1 DEF IsMenu
    <3> HIDE DEF k
    <3>2. /\ Shaped(k) /\ k.results = mc.results /\ k.listing = c /\ k.list = mc.list
          /\ k.kind = mc.kind /\ k.search = mc.search /\ k.y = mc.y /\ k.len = mc.len
          /\ k.saved = mc.saved
      BY <3>1 DEF Shaped
    <3> QED BY <1>1, <2>2, <3>2 DEF IsMenu
  <2> HIDE DEF k, n
  <2>4. Matching(k) = Matching(mc) /\ Menuq(k) = Menuq(mc)
    BY <2>3, MatchingSame
  <2>5. Offers(k) /\ ListsRightly(k)
    <3>1. CASE changed
      <4>1. c = FALSE /\ mc.results = Matching(mc)
        BY <3>1 DEF c, Handled
      <4> QED BY <2>3, <2>4, <4>1 DEF Offers, ListsRightly
    <3>2. CASE ~changed
      <4>1. c = mc.listing /\ Offers(mc) /\ ListsRightly(mc)
        BY <1>1, <3>2 DEF c, Handled
      <4> QED BY <2>3, <2>4, <4>1 DEF Offers, ListsRightly
    <3> QED BY <3>1, <3>2
  <2>6. ListsSome(k)
    BY <1>4, <2>3 DEF ListsSome
  <2> QED BY <1>4, <2>1, <2>3, <2>5, <2>6 DEF n
<1> QED
  BY <1>1, <1>2, <1>3, <1>4

\* menu_draw keeps the menu on its output
LEMMA PlacedRight ==
  ASSUME NEW mc, IsMenu(mc), mc.listing => mc.list, Offers(mc), ListsRightly(mc), ListsSome(mc)
  PROVE  Right(Placed(mc))
<1> DEFINE h == IF HasPrompt(mc.kind) THEN 1 ELSE 0
           n == Len(Seen(mc)) + h
           y == IF mc.y + n >= Bottom THEN Bottom - n ELSE mc.y
           a == IF y < Top THEN Top ELSE y
           b == IF y < Top THEN Min({n, Bottom - Top}) ELSE n
           k == [mc EXCEPT !.y = a, !.len = b]
<1>1. Placed(mc) = k
  BY DEF Placed
<1>2. h \in {0, 1}
  OBVIOUS
<1>3. Len(Seen(mc)) \in Nat
  <2>1. mc.results \in Seq(Items)
    BY DEF IsMenu
  <2>2. Len(mc.results) \in Nat /\ Len(<<mc.results[1]>>) \in Nat
    BY <2>1
  <2> QED BY <2>2 DEF Seen
<1> HIDE DEF h
<1>4. n \in Nat
  BY <1>2, <1>3
<1> HIDE DEF n
<1>5. Top \in Nat /\ Bottom \in Nat /\ Top + 1 < Bottom /\ mc.y \in Int
  BY RowsAssumption DEF IsMenu
<1>6. /\ Min({n, Bottom - Top}) \in {n, Bottom - Top}
      /\ Min({n, Bottom - Top}) <= n /\ Min({n, Bottom - Top}) <= Bottom - Top
  <2>1. {n, Bottom - Top} \subseteq Nat /\ {n, Bottom - Top} # {}
    BY <1>4, <1>5
  <2> QED BY <2>1, LeastNat
<1>7. a \in Int /\ b \in Nat /\ Top <= a /\ a + b <= Bottom
  BY <1>4, <1>5, <1>6
<1> HIDE DEF a, b
<1>8. /\ IsMenu(k) /\ k.results = mc.results /\ k.listing = mc.listing /\ k.list = mc.list
      /\ k.kind = mc.kind /\ k.search = mc.search /\ k.y = a /\ k.len = b
  <2>1. k = [mc EXCEPT !.y = a, !.len = b] /\ Shaped(mc)
    BY DEF IsMenu
  <2> HIDE DEF k
  <2>2. /\ Shaped(k) /\ k.results = mc.results /\ k.listing = mc.listing /\ k.list = mc.list
        /\ k.kind = mc.kind /\ k.search = mc.search /\ k.y = a /\ k.len = b
        /\ k.saved = mc.saved
    BY <2>1 DEF Shaped
  <2> QED BY <1>7, <2>2 DEF IsMenu
<1> HIDE DEF k
<1>9. Matching(k) = Matching(mc) /\ Menuq(k) = Menuq(mc)
  BY <1>8, MatchingSame
<1>10. Offers(k) /\ ListsRightly(k) /\ ListsSome(k)
  BY <1>8, <1>9 DEF Offers, ListsRightly, ListsSome
<1>11. Fits(k)
  BY <1>7, <1>8 DEF Fits
<1> QED
  BY <1>1, <1>8, <1>10, <1>11 DEF Right

\* A menu is right once it is drawn
LEMMA DrawRight ==
  ASSUME NEW mc, NEW changed \in BOOLEAN, Handled(mc, changed)
  PROVE  Right(Draw(mc, changed))
BY ListedRight, PlacedRight DEF Draw

----------------------------------------------------------------------------
(* The steps.                                                              *)

\* The inner menu is one of those open.
LEMMA InnerRight ==
  ASSUME RInv, open # <<>>
  PROVE  /\ Len(open) \in DOMAIN open /\ Right(Inner)
         /\ 1 \in DOMAIN open /\ Right(open[1])
<1>1. Len(open) \in DOMAIN open /\ 1 \in DOMAIN open
  BY DEF RInv, MInv, Nested
<1> QED
  BY <1>1 DEF RInv, AllRight, Inner

\* A menu that is right is what a key that changes no text starts from, and
\* what is drawn again.
LEMMA RightIsHandled ==
  ASSUME NEW mc, Right(mc)
  PROVE  Handled(mc, FALSE) /\ Edited(mc, FALSE)
BY DEF Right, Handled, Edited

\* A menu drawn leaves every menu right.
LEMMA ShowRight ==
  ASSUME RInv, open # <<>>, NEW mc, NEW changed \in BOOLEAN, Handled(mc, changed),
         Show(mc, changed)
  PROVE  AllRight'
<1> DEFINE k == Draw(mc, changed)
<1>1. Right(k)
  BY DrawRight
<1>2. /\ open' = [open EXCEPT ![Len(open)] = k]
      /\ pointer' = IF k.y # mc.y THEN k.y ELSE pointer
      /\ label' = label
  BY DEF Show
<1> HIDE DEF k
<1>3. pointer' \in Int
  BY <1>1, <1>2 DEF RInv, AllRight, Right, IsMenu
<1>4. DOMAIN open' = DOMAIN open /\ \A i \in DOMAIN open' : open'[i] \in {k, open[i]}
  BY <1>2
<1>5. \A i \in DOMAIN open' : Right(open'[i])
  BY <1>1, <1>4 DEF RInv, AllRight
<1> QED
  BY <1>2, <1>3, <1>5 DEF RInv, AllRight

\* A key handled does.
LEMMA KeyRight ==
  ASSUME RInv, open # <<>>, NEW mc, NEW changed \in BOOLEAN, Edited(mc, changed),
         KeyHandled(mc, changed)
  PROVE  AllRight'
BY SettleRight, ShowRight DEF KeyHandled

\* Another text.
LEMMA TextEdited ==
  ASSUME NEW m, Right(m), NEW a \in Words
  PROVE  Edited([m EXCEPT !.search = a], TRUE)
<1> DEFINE n == [m EXCEPT !.search = a]
<1>1. Shaped(m) /\ IsMenu(m)
  BY DEF Right, IsMenu
<1>2. n = [m EXCEPT !.search = a]
  OBVIOUS
<1> HIDE DEF n
<1>3. /\ Shaped(n) /\ n.results = m.results /\ n.listing = m.listing /\ n.list = m.list
      /\ n.kind = m.kind /\ n.search = a /\ n.y = m.y /\ n.len = m.len /\ n.saved = m.saved
  BY <1>1, <1>2 DEF Shaped
<1>4. IsMenu(n)
  BY <1>1, <1>3 DEF IsMenu
<1>5. Edited(n, TRUE)
  BY <1>3, <1>4 DEF Edited, Right
<1> QED
  BY <1>5 DEF n

\* The listing is switched.
LEMMA ListEdited ==
  ASSUME NEW m, Right(m)
  PROVE  Edited([m EXCEPT !.list = ~@], FALSE)
<1> DEFINE n == [m EXCEPT !.list = ~@]
           l == ~m.list
<1>1. Shaped(m) /\ IsMenu(m) /\ l \in BOOLEAN
  BY DEF Right, IsMenu
<1>2. n = [m EXCEPT !.list = l]
  OBVIOUS
<1> HIDE DEF n, l
<1>3. /\ Shaped(n) /\ n.results = m.results /\ n.listing = m.listing /\ n.list = l
      /\ n.kind = m.kind /\ n.search = m.search /\ n.y = m.y /\ n.len = m.len
      /\ n.saved = m.saved
  BY <1>1, <1>2 DEF Shaped
<1>4. IsMenu(n)
  BY <1>1, <1>3 DEF IsMenu
<1>5. Matching(n) = Matching(m) /\ Menuq(n) = Menuq(m)
  BY <1>3, MatchingSame
<1>6. Edited(n, FALSE)
  BY <1>3, <1>4, <1>5 DEF Edited, Right, Offers, ListsRightly
<1> QED
  BY <1>6 DEF n

\* The results are rotated.
LEMMA RotationEdited ==
  ASSUME NEW m, Right(m), NEW q \in Seq(Items), Len(q) = Len(m.results),
         ToSet(q) = ToSet(m.results)
  PROVE  Edited([m EXCEPT !.results = q], FALSE)
<1> DEFINE n == [m EXCEPT !.results = q]
<1>1. Shaped(m) /\ IsMenu(m)
  BY DEF Right, IsMenu
<1>2. n = [m EXCEPT !.results = q]
  OBVIOUS
<1> HIDE DEF n
<1>3. /\ Shaped(n) /\ n.results = q /\ n.listing = m.listing /\ n.list = m.list
      /\ n.kind = m.kind /\ n.search = m.search /\ n.y = m.y /\ n.len = m.len
      /\ n.saved = m.saved
  BY <1>1, <1>2 DEF Shaped
<1>4. IsMenu(n)
  BY <1>1, <1>3 DEF IsMenu
<1>5. Matching(n) = Matching(m) /\ Menuq(n) = Menuq(m)
  BY <1>3, MatchingSame
<1>6. Edited(n, FALSE)
  BY <1>3, <1>4, <1>5 DEF Edited, Right, Offers, ListsRightly
<1> QED
  BY <1>6 DEF n

\* CTL_UP and CTL_DOWN lose no entry.
LEMMA Rotations ==
  ASSUME NEW A, NEW q \in Seq(A), q # <<>>
  PROVE  LET up == <<Last(q)>> \o Front(q)
             down == Append(Tail(q), Head(q))
         IN /\ up \in Seq(A) /\ Len(up) = Len(q) /\ ToSet(up) = ToSet(q)
            /\ down \in Seq(A) /\ Len(down) = Len(q) /\ ToSet(down) = ToSet(q)
<1> DEFINE n == Len(q)
           l == <<Last(q)>>
           f == Front(q)
           u == l \o f
           d == Append(Tail(q), Head(q))
<1>1. n \in Nat /\ n >= 1 /\ DOMAIN q = 1..n /\ n \in 1..n /\ 1 \in 1..n
  OBVIOUS
<1>2. l \in Seq(A) /\ Len(l) = 1 /\ l[1] = q[n]
  BY <1>1 DEF Last
<1>3. f \in Seq(A) /\ Len(f) = n - 1 /\ \A i \in 1..n - 1 : f[i] = q[i]
  <2>1. f = SubSeq(q, 1, n - 1)
    BY DEF Front
  <2>2. /\ 1 \in Int /\ n - 1 \in Int /\ (\A i \in 1..n - 1 : q[i] \in A)
        /\ (n - 1) - 1 + 1 = n - 1 /\ \A i \in 1..n - 1 : 1 + i - 1 = i
    BY <1>1
  <2> HIDE DEF f, n
  <2>3. /\ f \in Seq(A) /\ Len(f) = IF 1 <= n - 1 THEN (n - 1) - 1 + 1 ELSE 0
        /\ \A i \in 1..((n - 1) - 1 + 1) : f[i] = q[1 + i - 1]
    BY <2>1, <2>2, SubSeqProperties
  <2> QED BY <1>1, <2>2, <2>3
<1> HIDE DEF l, f
<1>4. /\ u \in Seq(A) /\ Len(u) = n
      /\ \A i \in 1..n : u[i] = IF i = 1 THEN q[n] ELSE q[i - 1]
  <2>1. /\ u \in Seq(A) /\ Len(u) = Len(l) + Len(f)
        /\ \A i \in 1..Len(l) + Len(f) : u[i] = IF i <= Len(l) THEN l[i] ELSE f[i - Len(l)]
    BY <1>2, <1>3, ConcatProperties
  <2> HIDE DEF u, n
  <2>2. ASSUME NEW i \in 1..n, i # 1 PROVE u[i] = q[i - 1]
    <3>1. i \in 1..Len(l) + Len(f) /\ ~(i <= Len(l)) /\ i - Len(l) \in 1..n - 1 /\ i - Len(l) = i - 1
      BY <1>1, <1>2, <1>3, <2>2
    <3> QED BY <1>3, <2>1, <3>1
  <2>3. u[1] = q[n] /\ Len(u) = n
    BY <1>1, <1>2, <1>3, <2>1
  <2> QED BY <2>1, <2>2, <2>3
<1>5. /\ d \in Seq(A) /\ Len(d) = n
      /\ \A i \in 1..n : d[i] = IF i = n THEN q[1] ELSE q[i + 1]
  <2>1. /\ Head(q) \in A /\ Head(q) = q[1] /\ Tail(q) \in Seq(A) /\ Len(Tail(q)) = n - 1
        /\ \A i \in 1..n - 1 : Tail(q)[i] = q[i + 1]
    BY HeadTailProperties
  <2>2. /\ d \in Seq(A) /\ Len(d) = Len(Tail(q)) + 1
        /\ \A i \in 1..Len(Tail(q)) : d[i] = Tail(q)[i]
        /\ d[Len(Tail(q)) + 1] = Head(q)
    BY <2>1, AppendProperties
  <2> HIDE DEF d, n
  <2>3. ASSUME NEW i \in 1..n, i # n PROVE d[i] = q[i + 1]
    <3>1. i \in 1..n - 1
      BY <1>1, <2>3
    <3> QED BY <2>1, <2>2, <3>1
  <2> QED BY <1>1, <2>1, <2>2, <2>3
<1> HIDE DEF u, d, n
<1>8. /\ \A x : x \in ToSet(u) <=> \E i \in 1..n : u[i] = x
      /\ \A x : x \in ToSet(d) <=> \E i \in 1..n : d[i] = x
      /\ \A x : x \in ToSet(q) <=> \E i \in 1..n : q[i] = x
  <2>1. DOMAIN u = 1..n /\ DOMAIN d = 1..n /\ DOMAIN q = 1..n
    BY <1>1, <1>4, <1>5
  <2> QED BY <2>1 DEF ToSet
<1>6. ToSet(u) = ToSet(q)
  <2>1. \A i \in 1..n : u[i] \in ToSet(q)
    BY <1>1, <1>4 DEF ToSet
  <2>2. \A i \in 1..n : q[i] \in ToSet(u)
    <3> TAKE i \in 1..n
    <3>1. CASE i = n
      BY <1>1, <1>4, <3>1 DEF ToSet
    <3>2. CASE i # n
      <4>1. i + 1 \in 1..n /\ i + 1 # 1 /\ (i + 1) - 1 = i
        BY <1>1, <3>2
      <4>2. u[i + 1] = q[i]
        BY <1>4, <4>1
      <4> QED BY <1>8, <4>1, <4>2
    <3> QED BY <3>1, <3>2
  <2>3. \A x : x \in ToSet(u) <=> x \in ToSet(q)
    BY <1>8, <2>1, <2>2
  <2> QED BY <2>3
<1>7. ToSet(d) = ToSet(q)
  <2>1. \A i \in 1..n : d[i] \in ToSet(q)
    <3> TAKE i \in 1..n
    <3>1. i # n => i + 1 \in 1..n
      BY <1>1
    <3> QED BY <1>1, <1>5, <3>1 DEF ToSet
  <2>2. \A i \in 1..n : q[i] \in ToSet(d)
    <3> TAKE i \in 1..n
    <3>1. CASE i = 1
      BY <1>1, <1>5, <3>1 DEF ToSet
    <3>2. CASE i # 1
      <4>1. i - 1 \in 1..n /\ i - 1 # n /\ (i - 1) + 1 = i
        BY <1>1, <3>2
      <4>2. d[i - 1] = q[i]
        BY <1>5, <4>1
      <4> QED BY <1>8, <4>1, <4>2
    <3> QED BY <3>1, <3>2
  <2>3. \A x : x \in ToSet(d) <=> x \in ToSet(q)
    BY <1>8, <2>1, <2>2
  <2> QED BY <2>3
<1> QED
  BY <1>4, <1>5, <1>6, <1>7 DEF u, d, l, f, n

\* The arrows do.
LEMMA RotateRight ==
  ASSUME RInv, KeyUp \/ KeyDown
  PROVE  AllRight'
<1> DEFINE q == Inner.results
           up == IF q = <<>> THEN q ELSE <<Last(q)>> \o Front(q)
           down == IF q = <<>> THEN q ELSE Append(Tail(q), Head(q))
<1>1. open # <<>> /\ (Rotate(up) \/ Rotate(down))
  BY DEF KeyUp, KeyDown, Rotate, Typing, Reading
<1>2. Right(Inner) /\ q \in Seq(Items)
  BY <1>1, InnerRight DEF Right, IsMenu
<1>3. /\ up \in Seq(Items) /\ Len(up) = Len(q) /\ ToSet(up) = ToSet(q)
      /\ down \in Seq(Items) /\ Len(down) = Len(q) /\ ToSet(down) = ToSet(q)
  <2> HIDE DEF q
  <2> QED BY <1>2, Rotations
<1> HIDE DEF up, down
<1>4. PICK r \in Seq(Items) : Rotate(r) /\ Len(r) = Len(q) /\ ToSet(r) = ToSet(q)
  BY <1>1, <1>3
<1>5. CASE IsPathResult(Inner.results)
  BY <1>4, <1>5 DEF Rotate, RInv, AllRight
<1>6. CASE ~IsPathResult(Inner.results)
  <2>1. KeyHandled([Inner EXCEPT !.results = r], FALSE)
    BY <1>4, <1>6 DEF Rotate
  <2>2. Edited([Inner EXCEPT !.results = r], FALSE)
    BY <1>2, <1>4, RotationEdited
  <2> QED BY <1>1, <2>1, <2>2, KeyRight
<1> QED
  BY <1>5, <1>6

\* What texts have in common is the longest text they all begin with.
LEMMA InCommon ==
  ASSUME NEW W, W # {}, W \subseteq Words
  PROVE  /\ LongestCommonPrefix(W) \in Words
         /\ \A w \in W : IsPrefix(LongestCommonPrefix(W), w)
         /\ \A s \in Words : (\A w \in W : IsPrefix(s, w)) => IsPrefix(s, LongestCommonPrefix(W))
<1> DEFINE C == CommonPrefixes(W)
           L == LongestCommonPrefix(W)
           D == {Len(c) : c \in C}
<1>1. PICK w \in W : TRUE
  OBVIOUS
<1>2. ASSUME NEW v \in Words, NEW l \in 0..Len(v)
      PROVE  /\ SubSeq(v, 1, l) \in Words /\ Len(SubSeq(v, 1, l)) = l
             /\ \A i \in 1..l : SubSeq(v, 1, l)[i] = v[i]
  <2>1. /\ \A i \in 1..l : v[i] \in Nat
        /\ l \in Int /\ 1 \in Int /\ l - 1 + 1 = l /\ (~(1 <= l) => l = 0)
        /\ \A i \in 1..l : 1 + i - 1 = i
    <3>1. Len(v) \in Nat /\ \A i \in 1..Len(v) : v[i] \in Nat
      BY DEF Words
    <3>2. \A i \in 1..l : i \in 1..Len(v)
      BY <3>1
    <3> QED BY <3>1, <3>2
  <2>2. /\ SubSeq(v, 1, l) \in Seq(Nat)
        /\ Len(SubSeq(v, 1, l)) = IF 1 <= l THEN l - 1 + 1 ELSE 0
        /\ \A i \in 1..(l - 1 + 1) : SubSeq(v, 1, l)[i] = v[1 + i - 1]
    BY <2>1, SubSeqProperties
  <2> QED BY <2>1, <2>2 DEF Words
<1>3. \A c \in C : c \in Words /\ \A v \in W : IsPrefix(c, v)
  <2>1. \A v \in W : Prefixes(v) \subseteq Words
    BY <1>2 DEF Prefixes
  <2>2. \A c \in C : (\E v \in W : c \in Prefixes(v)) /\ \A v \in W : IsPrefix(c, v)
    BY Zenon DEF CommonPrefixes
  <2> QED BY <2>1, <2>2
<1>4. ASSUME NEW s \in Words, \A v \in W : IsPrefix(s, v)
      PROVE  s \in C
  <2>1. IsPrefix(s, w) /\ w \in Words /\ Len(s) \in Nat
    BY <1>1, <1>4 DEF Words
  <2>2. Len(s) <= Len(w) /\ \A i \in 1..Len(s) : s[i] = w[i]
    BY <2>1, PrefixAt DEF Words
  <2>3. Len(s) \in 0..Len(w)
    BY <2>1, <2>2 DEF Words
  <2> DEFINE u == SubSeq(w, 1, Len(s))
  <2>4. u \in Words /\ Len(u) = Len(s) /\ \A i \in 1..Len(s) : u[i] = w[i]
    BY <1>2, <2>1, <2>3
  <2> HIDE DEF u
  <2>5. s = u
    BY <2>2, <2>4, SeqEqual DEF Words
  <2>6. s \in Prefixes(w)
    BY <2>3, <2>5 DEF Prefixes, u
  <2> QED BY <1>1, <1>4, <2>6 DEF CommonPrefixes
<1>5. L = CHOOSE c \in C : \A o \in C : Len(o) <= Len(c)
  BY Zenon DEF LongestCommonPrefix
<1> HIDE DEF C
<1>6. <<>> \in C
  <2>1. <<>> \in Words
    BY DEF Words
  <2>2. \A v \in W : IsPrefix(<<>>, v)
    <3> TAKE v \in W
    <3>1. v \in Seq(Nat) /\ <<>> \in Seq(Nat) /\ Len(v) \in Nat
      BY DEF Words
    <3>2. Len(<<>>) <= Len(v) /\ \A i \in 1..Len(<<>>) : <<>>[i] = v[i]
      BY <3>1
    <3> QED BY <3>1, <3>2, PrefixAt
  <2> QED BY <1>4, <2>1, <2>2
<1>7. \A c \in C : Len(c) \in Nat /\ Len(c) <= Len(w)
  <2> TAKE c \in C
  <2>1. c \in Seq(Nat) /\ w \in Seq(Nat) /\ IsPrefix(c, w)
    BY <1>1, <1>3 DEF Words
  <2> QED BY <2>1, PrefixAt
<1>8. PICK c \in C : \A o \in C : Len(o) <= Len(c)
  <2>1. D \subseteq Int /\ D # {} /\ Len(w) \in Int /\ \A y \in D : y <= Len(w)
    <3>1. Len(<<>>) \in D
      BY <1>6
    <3>2. Len(w) \in Int
      BY <1>1 DEF Words
    <3> QED BY <1>7, <3>1, <3>2
  <2>2. Max(D) \in D /\ \A y \in D : Max(D) >= y
    <3> HIDE DEF D
    <3> QED BY <2>1, GreatestInt
  <2>3. PICK c \in C : Len(c) = Max(D)
    BY <2>2
  <2>4. \A o \in C : Len(o) \in D
    OBVIOUS
  <2> HIDE DEF D
  <2>5. \A o \in C : Len(o) <= Len(c)
    BY <1>7, <2>2, <2>3, <2>4
  <2> QED BY <2>5
<1>9. L \in C /\ \A o \in C : Len(o) <= Len(L)
  BY <1>5, <1>8
<1> HIDE DEF L
<1>10. ASSUME NEW s \in Words, \A v \in W : IsPrefix(s, v)
       PROVE  IsPrefix(s, L)
  <2>1. s \in C
    BY <1>4, <1>10
  <2>2. Len(s) <= Len(L)
    BY <1>9, <2>1
  <2>3. s \in Seq(Nat) /\ L \in Seq(Nat) /\ w \in Seq(Nat) /\ IsPrefix(s, w) /\ IsPrefix(L, w)
    BY <1>1, <1>3, <1>9, <1>10 DEF Words
  <2>4. /\ \A i \in 1..Len(s) : s[i] = w[i]
        /\ \A i \in 1..Len(L) : L[i] = w[i]
    BY <2>3, PrefixAt
  <2>5. Len(s) \in Nat /\ Len(L) \in Nat
    BY <2>3
  <2>6. \A i \in 1..Len(s) : s[i] = L[i]
    BY <2>2, <2>4, <2>5
  <2> QED BY <2>2, <2>3, <2>6, PrefixAt
<1> QED
  BY <1>3, <1>9, <1>10 DEF L

\* The texts of the results of a menu.
LEMMA ResultTexts ==
  ASSUME NEW mc, IsMenu(mc), mc.results # <<>>
  PROVE  /\ mc.results[1] \in Items /\ mc.results[1].text \in Words
         /\ Seen(mc) \in Seq(Items) /\ Seen(mc) # <<>>
         /\ Texts(ToSet(Seen(mc))) \subseteq Words /\ Texts(ToSet(Seen(mc))) # {}
<1>1. mc.results \in Seq(Items)
  BY DEF IsMenu
<1>2. mc.results[1] \in Items
  BY <1>1
<1>3. <<mc.results[1]>> \in Seq(Items) /\ <<mc.results[1]>> # <<>>
  BY <1>2
<1>4. Seen(mc) \in Seq(Items) /\ Seen(mc) # <<>>
  BY <1>1, <1>3 DEF Seen
<1>5. Seen(mc)[1] \in ToSet(Seen(mc)) /\ ToSet(Seen(mc)) \subseteq Items
  BY <1>4 DEF ToSet
<1> QED
  BY <1>2, <1>4, <1>5, ItemsHaveTexts DEF Texts

\* What completion leaves is a text.
LEMMA TabTextType ==
  ASSUME NEW mc, IsMenu(mc), mc.results # <<>>
  PROVE  TabText(mc) \in Words
<1>1. TabText(mc) = LongestCommonPrefix(Texts(ToSet(Seen(mc))))
  BY DEF TabText, Texts
<1> QED
  BY <1>1, ResultTexts, InCommon

\* menu_filter returns.
LEMMA ReturnRight ==
  ASSUME RInv, open # <<>>, NEW a \in Words, NEW c, NEW d, NEW e,
         Return([text |-> a, ctx |-> c, dummy |-> d, abort |-> e])
  PROVE  AllRight'
<1> DEFINE mi == [text |-> a, ctx |-> c, dummy |-> d, abort |-> e]
           co == Completed(open[1], mi)
<1>1. /\ Right(Inner) /\ Right(open[1]) /\ Inner.saved \in Int /\ open[1].saved \in Int
      /\ open[1].search \in Words /\ pointer \in Int /\ label \in Words
  BY InnerRight DEF RInv, AllRight, Right, IsMenu
<1>2. open' = <<>>
  BY DEF Return
<1>3. pointer' \in Int
  <2>1. \A r \in Int : PointerBack(r, Inner) \in Int /\ PointerBack(r, open[1]) \in Int
    BY <1>1 DEF PointerBack
  <2>2. pointer' \in {PointerBack(pointer, Inner), PointerBack(PointerBack(pointer, Inner), open[1])}
    BY DEF Return
  <2> QED BY <1>1, <2>1, <2>2
<1>4. mi.text \in Words /\ co.text \in Words
  <2>1. mi.text = a
    OBVIOUS
  <2>2. <<>> \in Words /\ open[1].search \o a \in Words
    BY <1>1, ConcatProperties DEF Words
  <2>3. co.text \in {open[1].search \o a, open[1].search, <<>>}
    BY DEF Completed
  <2> HIDE DEF co, mi
  <2> QED BY <1>1, <2>1, <2>2, <2>3
<1> HIDE DEF mi, co
<1>5. \E k : Served(k, mi) \/ Served(k, co)
  BY DEF Return, mi, co
<1>6. label' \in Words
  BY <1>1, <1>4, <1>5 DEF Served, Labelled
<1> QED
  BY <1>2, <1>3, <1>6 DEF AllRight

\* A menu that opens.
LEMMA MenuRight ==
  ASSUME NEW kind \in Kinds \cup {"path"}, NEW s \in Words, s # <<>> => kind = "label",
         pointer \in Int
  PROVE  Right(Menu(kind, s))
<1> DEFINE m == Menu(kind, s)
<1>1. m = [kind |-> kind, search |-> s, results |-> <<>>, list |-> ListsAll(kind),
           listing |-> FALSE, y |-> pointer, len |-> 0, saved |-> pointer, focus |-> focus]
  BY DEF Menu
<1>2. ListsAll(kind) \in BOOLEAN /\ <<>> \in Seq(Items)
  BY DEF ListsAll
<1> HIDE DEF m
<1>3. /\ IsMenu(m) /\ m.listing = FALSE /\ m.len = 0 /\ m.results = <<>>
      /\ m.list = ListsAll(kind) /\ m.kind = kind /\ m.search = s
  BY <1>1, <1>2 DEF IsMenu, Shaped
<1>4. Matching(m) = <<>>
  BY <1>3, MatchType DEF Matching
<1> QED
  BY <1>3, <1>4 DEF Right, Offers, ListsRightly, ListsSome, Fits, m

\* Opening a menu does.
LEMMA OpenRight ==
  ASSUME RInv, NEW kind \in Kinds, Open(kind) \/ Refused(kind)
  PROVE  AllRight'
<1>1. CASE Open(kind)
  <2> DEFINE s == IF kind = "label" THEN label ELSE <<>>
             m == Menu(kind, s)
  <2>1. s \in Words /\ (s # <<>> => kind = "label") /\ pointer \in Int
    BY DEF RInv, AllRight, Words
  <2>2. open' = <<m>> /\ pointer' = pointer /\ label' = label
    BY <1>1, OneMore DEF Open, Enter
  <2> HIDE DEF s
  <2>3. Right(m)
    BY <2>1, MenuRight
  <2> HIDE DEF m
  <2>4. \A i \in DOMAIN open' : open'[i] = m
    BY <2>2
  <2> QED BY <2>2, <2>3, <2>4 DEF RInv, AllRight
<1>2. CASE Refused(kind)
  BY <1>2 DEF Refused, RInv, AllRight
<1> QED
  BY <1>1, <1>2

\* Opening the menu of files does.
LEMMA LaunchRight ==
  ASSUME RInv, KeyTabLaunches
  PROVE  AllRight'
<1> DEFINE n == Menu("path", <<>>)
<1>1. PICK m : open = <<m>>
  <2>1. open # <<>> /\ Inner.kind = "exec"
    BY DEF KeyTabLaunches, Typing, Reading, Launches, File
  <2>2. ASSUME NEW m, NEW k, open = <<m, k>>, k.kind = "path"
        PROVE  FALSE
    <3>1. Inner = k
      BY <2>2 DEF Inner
    <3> QED BY <2>1, <2>2, <3>1
  <2> QED BY <2>1, <2>2 DEF RInv, MInv, Nested
<1>2. open' = <<m, n>> /\ pointer' = pointer /\ label' = label
  BY <1>1, OneMore DEF KeyTabLaunches, Enter
<1>3. Right(m)
  <2>1. 1 \in DOMAIN open /\ open[1] = m
    BY <1>1
  <2> QED BY <2>1 DEF RInv, AllRight
<1>4. Right(n)
  <2>1. <<>> \in Words
    BY DEF Words
  <2> QED BY <2>1, MenuRight DEF RInv, AllRight
<1> HIDE DEF n
<1>5. \A i \in DOMAIN open' : open'[i] \in {m, n}
  BY <1>2
<1> QED
  BY <1>2, <1>3, <1>4, <1>5 DEF RInv, AllRight

\* Whatever happens to a menu.
LEMMA NextRight ==
  ASSUME RInv, [Next]_vars
  PROVE  RInv'
<1>0. SUFFICES AllRight'
  BY NextKeeps DEF RInv
<1> USE DEF Typing, Reading
<1>w. <<>> \in Words
  BY DEF Words
<1>i. open # <<>> => Right(Inner) /\ IsMenu(Inner) /\ Inner.search \in Words
  BY InnerRight DEF Right, IsMenu
<1>1. ASSUME NEW kind \in Kinds, Open(kind) \/ Refused(kind) PROVE AllRight'
  BY <1>1, OpenRight
<1>2. CASE Expose
  <2>1. open # <<>> /\ Show(Inner, FALSE)
    BY <1>2 DEF Expose
  <2>2. Handled(Inner, FALSE)
    BY <1>i, <2>1, RightIsHandled
  <2> QED BY <2>1, <2>2, ShowRight
<1>k. ASSUME open # <<>>, NEW s \in Words, KeyHandled([Inner EXCEPT !.search = s], TRUE)
      PROVE  AllRight'
  BY <1>i, <1>k, TextEdited, KeyRight
<1>u. ASSUME open # <<>>, KeyHandled(Inner, FALSE) PROVE AllRight'
  BY <1>i, <1>u, RightIsHandled, KeyRight
<1>3. ASSUME NEW l \in Letters, KeyLetter(l) PROVE AllRight'
  <2> DEFINE s == IF Len(Inner.search) < MaxEntry THEN Append(Inner.search, l) ELSE Inner.search
  <2>1. open # <<>> /\ KeyHandled([Inner EXCEPT !.search = s], TRUE)
    BY <1>3 DEF KeyLetter
  <2>2. l \in Nat
    BY RowsAssumption
  <2>3. s \in Words
    <3>1. Append(Inner.search, l) \in Seq(Nat)
      BY <1>i, <2>1, <2>2, AppendProperties DEF Words
    <3> QED BY <1>i, <2>1, <3>1 DEF Words
  <2> HIDE DEF s
  <2> QED BY <1>k, <2>1, <2>3
<1>4. CASE KeyErase
  <2>1. CASE Inner.search = <<>>
    BY <1>4, <1>u, <2>1 DEF KeyErase
  <2>2. CASE Inner.search # <<>>
    <3> DEFINE s == Front(Inner.search)
    <3>1. open # <<>> /\ KeyHandled([Inner EXCEPT !.search = s], TRUE)
      BY <1>4, <2>2 DEF KeyErase
    <3>2. s \in Words
      <4>1. Inner.search \in Seq(Nat)
        BY <1>i, <3>1 DEF Words
      <4> QED BY <4>1 DEF Front, Words
    <3> HIDE DEF s
    <3> QED BY <1>k, <3>1, <3>2
  <2> QED BY <2>1, <2>2
<1>5. CASE KeyWipe
  BY <1>5, <1>k, <1>w DEF KeyWipe
<1>7. CASE KeyUp \/ KeyDown
  BY <1>7, RotateRight
<1>8. CASE KeyReturn
  <2>1. open # <<>>
    BY <1>8 DEF KeyReturn
  <2>2. CASE Inner.results = <<>>
    BY <1>8, <1>i, <2>1, <2>2, ReturnRight DEF KeyReturn, DummyEntry
  <2>3. CASE Inner.results # <<>>
    <3>1. Inner.results[1].text \in Words
      BY <1>i, <2>1, <2>3, ResultTexts
    <3> QED BY <1>8, <2>1, <2>3, <3>1, ReturnRight DEF KeyReturn, Entry
  <2> QED BY <2>2, <2>3
<1>9. CASE KeyTab
  <2>1. open # <<>>
    BY <1>9 DEF KeyTab
  <2>2. CASE Inner.results = <<>>
    BY <1>9, <1>u, <2>1, <2>2 DEF KeyTab
  <2>3. CASE Inner.results # <<>>
    <3>1. TabText(Inner) \in Words
      BY <1>i, <2>1, <2>3, TabTextType
    <3> QED BY <1>9, <1>k, <2>1, <2>3, <3>1 DEF KeyTab
  <2> QED BY <2>2, <2>3
<1>10. CASE KeyTabLaunches
  BY <1>10, LaunchRight
<1>11. CASE KeyAll
  <2>1. open # <<>> /\ KeyHandled([Inner EXCEPT !.list = ~@], FALSE)
    BY <1>11 DEF KeyAll
  <2> QED BY <1>i, <2>1, ListEdited, KeyRight
<1>12. CASE KeyAbort
  BY <1>12, <1>w, ReturnRight DEF KeyAbort, DummyEntry
<1>13. ASSUME NEW row \in Rows, MovePointer(row) PROVE AllRight'
  <2>1. row \in Int
    BY RowsAssumption
  <2> QED BY <1>13, <2>1 DEF MovePointer, RInv, AllRight
<1>14. ASSUME NEW beside \in BOOLEAN, ButtonRelease(beside) PROVE AllRight'
  <2> DEFINE i == EntryAt(Inner, pointer)
  <2>1. open # <<>>
    BY <1>14 DEF ButtonRelease
  <2>2. CASE beside \/ i = 0
    <3>1. PICK abort \in BOOLEAN : Return(DummyEntry(<<>>, abort))
      BY <1>14, <2>2 DEF ButtonRelease
    <3> QED BY <1>w, <2>1, <3>1, ReturnRight DEF DummyEntry
  <2>3. CASE ~(beside \/ i = 0)
    <3>1. Return(Entry(Seen(Inner)[i]))
      BY <1>14, <2>3 DEF ButtonRelease
    <3>2. i \in DOMAIN Seen(Inner)
      BY <2>3 DEF EntryAt
    <3>3. Inner.results # <<>>
      BY <3>2 DEF Seen, IsPathResult
    <3>4. Seen(Inner)[i] \in Items
      BY <1>i, <2>1, <3>2, <3>3, ResultTexts
    <3>5. Seen(Inner)[i].text \in Words
      BY <3>4, ItemsHaveTexts
    <3> QED BY <2>1, <3>1, <3>5, ReturnRight DEF Entry
  <2> QED BY <2>2, <2>3
<1>15. CASE UNCHANGED vars
  BY <1>15 DEF vars, RInv, AllRight
<1> QED
  BY <1>1, <1>2, <1>3, <1>4, <1>5, <1>7, <1>8, <1>9, <1>10, <1>11, <1>12,
     <1>13, <1>14, <1>15 DEF Next

\* The inductive invariant of what the menus offer.
THEOREM ResultInvariant == Spec => []RInv
<1>1. Init => RInv
  <2> SUFFICES ASSUME Init PROVE RInv
    OBVIOUS
  <2>1. MInv
    BY DEF Init, MInv, Nested, FocusKept, PointerKept
  <2>2. AllRight
    BY RowsAssumption DEF Init, AllRight, Words
  <2> QED BY <2>1, <2>2 DEF RInv
<1> QED
  BY <1>1, NextRight, PTL DEF Spec

\* What a menu offers is what matches the text typed so far, or everything
\* while it lists everything, whatever keys have been pressed
\* (menu_handle_key, menu_draw).
THEOREM ResultsMatchHolds == Spec => []ResultsMatch
<1>1. RInv => ResultsMatch
  BY DEF RInv, AllRight, Right, Offers, Matching, ResultsMatch
<1> QED
  BY <1>1, ResultInvariant, PTL

\* A menu that is drawn is on its output, for any entries, output and place of
\* the pointer (menu_draw).
THEOREM MenuFitsHolds == Spec => []MenuFits
<1>1. RInv => MenuFits
  BY DEF RInv, AllRight, Right, Fits, MenuFits
<1> QED
  BY <1>1, ResultInvariant, PTL

----------------------------------------------------------------------------
(* The order of the results.                                               *)

PlaceOf(menuq, x) == SelectInSeq(menuq, LAMBDA m : m = x)

\* The place of an entry of a menu that has each entry once.
LEMMA PlaceInMenu ==
  ASSUME NEW A, NEW menuq \in Seq(A), IsInjective(menuq), NEW i \in DOMAIN menuq
  PROVE  PlaceOf(menuq, menuq[i]) = i
<1> DEFINE I == {j \in 1..Len(menuq) : menuq[j] = menuq[i]}
<1>1. PlaceOf(menuq, menuq[i]) = IF I # {} THEN Min(I) ELSE 0
  BY Zenon DEF PlaceOf, SelectInSeq
<1>2. I = {i} /\ i \in Nat
  BY DEF IsInjective
<1> HIDE DEF I
<1>3. Min(I) \in I
  BY <1>2, LeastNat
<1> QED
  BY <1>1, <1>2, <1>3

\* The place of an entry is a number, 0 if it is none.
LEMMA PlaceIsNat ==
  ASSUME NEW A, NEW menuq \in Seq(A), NEW x
  PROVE  PlaceOf(menuq, x) \in Nat
<1> DEFINE I == {j \in 1..Len(menuq) : menuq[j] = x}
<1>1. PlaceOf(menuq, x) = IF I # {} THEN Min(I) ELSE 0
  BY Zenon DEF PlaceOf, SelectInSeq
<1>2. I \subseteq Nat
  OBVIOUS
<1> HIDE DEF I
<1>3. CASE I # {}
  <2>1. Min(I) \in Nat
    BY <1>2, <1>3, LeastNat
  <2> QED BY <1>1, <1>3, <2>1
<1>4. CASE I = {}
  BY <1>1, <1>4
<1> QED
  BY <1>3, <1>4

\* The order of what is found in a menu of windows, in terms of places
InPlace(q, menuq, search) ==
  \A j, k \in DOMAIN q :
    j < k => \/ Tier(q[j].ctx, search, Current) < Tier(q[k].ctx, search, Current)
             \/ /\ Tier(q[j].ctx, search, Current) = Tier(q[k].ctx, search, Current)
                /\ PlaceOf(menuq, q[j]) < PlaceOf(menuq, q[k])

\* search_match_client finds windows in the order of their tiers and places.
LEMMA WindowsInOrder ==
  ASSUME NEW mc, mc.kind = "window"
  PROVE  InPlace(Match(mc, mc.search), Menuq(mc), mc.search)
<1> DEFINE M == Menuq(mc)
           q == Match(mc, mc.search)
           At(mi) == PlaceOf(M, mi)
           T(mi) == Tier(mi.ctx, mc.search, Current)
<1>1. M \in Seq(Items) /\ IsInjective(M)
  BY MenuqType
<1>2. q = MatchClient(M, mc.search, Current)
  BY DEF Match
<1>3. \A i \in DOMAIN M : At(M[i]) = i
  <2> HIDE DEF M
  <2> QED BY <1>1, PlaceInMenu
<1> HIDE DEF M, q, At
<1>4. \A j, k \in DOMAIN q : j < k => <<q[j], q[k]>> \in InTiers(M, mc.search, Current)
  BY <1>1, <1>2, ClientFound
<1>5. ASSUME NEW x, NEW y, <<x, y>> \in InTiers(M, mc.search, Current)
      PROVE  T(x) < T(y) \/ (T(x) = T(y) /\ At(x) < At(y))
  <2>1. \/ T(x) < T(y)
        \/ T(x) = T(y) /\ \E i, j \in DOMAIN M : i < j /\ M[i] = x /\ M[j] = y
    BY <1>5 DEF InTiers, TierOf
  <2> HIDE DEF T
  <2> QED BY <1>3, <2>1
<1>6. \A j, k \in DOMAIN q : j < k => T(q[j]) < T(q[k]) \/ (T(q[j]) = T(q[k]) /\ At(q[j]) < At(q[k]))
  <2> HIDE DEF T
  <2> QED BY <1>4, <1>5
<1> QED
  BY <1>6 DEF q, At, M, InPlace

\* What is found among programs, hosts and files is sorted
LEMMA NamesInOrder ==
  ASSUME NEW mc, mc.kind \in {"exec", "ssh", "path"}
  PROVE  Sorted(Match(mc, mc.search))
<1> DEFINE M == Menuq(mc)
<1>1. M \in Seq(Items)
  BY MenuqType
<1> HIDE DEF M
<1>2. Sorted(MatchExec(M, mc.search))
  BY <1>1, ItemsHaveTexts, ExecFound
<1>3. Sorted(MatchExecPath(M, mc.search))
  BY <1>2, PathsType DEF MatchExecPath
<1> QED
  BY <1>2, <1>3, PathsType DEF Match, M

\* The tier of a window, by what it is found by.
LEMMA TierByFound ==
  ASSUME NEW c \in DOMAIN Windows, NEW search
  PROVE  LET by == FoundBy(Windows[c], search)
             tier == Tier(c, search, Current)
         IN  /\ by = "label" => tier = IF c = Current THEN 1 ELSE 0
             /\ by = "title" => tier = 2 + Demoted(c)
             /\ by = "class" => tier = IF Demoted(c) = -1 THEN 2 ELSE 3
             /\ by \notin {"label", "title", "class"} => tier = 4
<1> DEFINE w == Windows[c]
           base == BaseTier(w, search)
           by == FoundBy(w, search)
           down == IF base < 3 /\ c = Current THEN base + 1 ELSE base
           seen == w.hidden
<1>1. (\E i \in DOMAIN w.names : SubMatch(search, w.names[i]))
        <=> (\E name \in ToSet(w.names) : SubMatch(search, name))
  BY Zenon DEF ToSet
<1>2. \/ by = "label" /\ base = 0
      \/ by = "title" /\ base = 2
      \/ by = "class" /\ base = 3
      \/ by = "nothing" /\ base = 4
  BY <1>1 DEF FoundBy, BaseTier, NoTier
<1>3. Tier(c, search, Current) =
        IF base = NoTier THEN NoTier ELSE IF seen /\ down > 0 THEN down - 1 ELSE down
  BY DEF Tier
<1>4. c = Current => ~seen
  BY CurrentAssumption
<1>5. Demoted(c) = IF c = Current THEN 1 ELSE IF seen THEN -1 ELSE 0
  BY DEF Demoted
<1> HIDE DEF base, by, seen
<1> QED
  BY <1>2, <1>3, <1>4, <1>5 DEF NoTier, by

\* What is to be ahead is in a tier above, or in the same and before it in the menu.
LEMMA AheadIsAbove ==
  ASSUME NEW mc, NEW v, NEW w, v.ctx \in DOMAIN Windows, w.ctx \in DOMAIN Windows,
         Ahead(mc, v, w)
  PROVE  \/ Tier(v.ctx, mc.search, Current) < Tier(w.ctx, mc.search, Current)
         \/ /\ Tier(v.ctx, mc.search, Current) = Tier(w.ctx, mc.search, Current)
            /\ PlaceOf(Menuq(mc), v) < PlaceOf(Menuq(mc), w)
<1> DEFINE By(mi) == FoundBy(Windows[mi.ctx], mc.search)
           T(mi) == Tier(mi.ctx, mc.search, Current)
           St(mi) == Demoted(mi.ctx)
           At(mi) == PlaceOf(Menuq(mc), mi)
<1>1. \/ St(v) <= St(w) /\ RanksAbove(By(v), By(w))
      \/ By(v) = By(w) /\ St(v) = St(w) /\ At(v) < At(w)
      \/ By(v) = By(w) /\ St(v) < St(w) /\ By(v) = "title"
  BY Zenon DEF Ahead, PlaceOf
<1>2. \A x \in {v, w} :
        /\ By(x) = "label" => T(x) = IF x.ctx = Current THEN 1 ELSE 0
        /\ By(x) = "title" => T(x) = 2 + St(x)
        /\ By(x) = "class" => T(x) = IF St(x) = -1 THEN 2 ELSE 3
        /\ By(x) \notin {"label", "title", "class"} => T(x) = 4
  BY TierByFound
<1>3. \A x \in {v, w} : St(x) \in {-1, 0, 1} /\ (St(x) = 1 <=> x.ctx = Current)
  BY DEF Demoted
<1>4. v.ctx = w.ctx => By(v) = By(w)
  OBVIOUS
<1> HIDE DEF By, T, St, At
<1>5. CASE By(v) = By(w)
  <2>1. CASE St(v) = St(w)
    <3>1. T(v) = T(w)
      BY <1>2, <1>3, <1>5, <2>1
    <3>2. At(v) < At(w)
      BY <1>1, <1>3, <1>5, <2>1 DEF RanksAbove
    <3> QED BY <3>1, <3>2 DEF T, At
  <2>2. CASE St(v) # St(w)
    <3>1. By(v) = "title" /\ St(v) < St(w)
      BY <1>1, <1>5, <2>2 DEF RanksAbove
    <3>2. T(v) = 2 + St(v) /\ T(w) = 2 + St(w)
      BY <1>2, <1>5, <3>1
    <3>3. T(v) < T(w)
      BY <1>3, <3>1, <3>2
    <3> QED BY <3>3 DEF T
  <2> QED BY <2>1, <2>2
<1>6. CASE By(v) # By(w)
  <2>1. St(v) <= St(w) /\ RanksAbove(By(v), By(w)) /\ ~(St(v) = 1 /\ St(w) = 1)
    BY <1>1, <1>3, <1>4, <1>6
  <2>2. T(v) < T(w)
    BY <1>2, <1>3, <2>1 DEF RanksAbove
  <2> QED BY <2>2 DEF T
<1> QED
  BY <1>5, <1>6

\* The windows found are clients.
LEMMA FoundAreWindows ==
  ASSUME NEW mc, mc.kind = "window"
  PROVE  \A j \in DOMAIN Match(mc, mc.search) :
           Match(mc, mc.search)[j].ctx \in DOMAIN Windows
<1> DEFINE B == {mi \in Items : mi.ctx \in DOMAIN Windows}
           M == Menuq(mc)
           q == MatchClient(M, mc.search, Current)
<1>1. M \in Seq(Items) /\ IsInjective(M)
  BY MenuqType
<1>2. \A i \in DOMAIN M : M[i] \in B
  <2>1. CASE mc.kind \in Kinds
    <3>1. \A mi \in ToSet(M) : mi.ctx \in DOMAIN Windows
      BY <2>1, EntriesAssumption DEF Menuq
    <3> QED BY <1>1, <3>1 DEF ToSet
  <2>2. CASE mc.kind \notin Kinds
    BY <2>2 DEF Menuq
  <2> QED BY <2>1, <2>2
<1> HIDE DEF M, B
<1>3. M \in Seq(B)
  BY <1>1, <1>2
<1>4. q \in Seq(B)
  BY <1>1, <1>3, ClientFound
<1> HIDE DEF q
<1>5. \A j \in DOMAIN q : q[j] \in B
  BY <1>4
<1>6. Match(mc, mc.search) = q
  BY DEF Match, q, M
<1> QED
  BY <1>5, <1>6 DEF B

\* The insertions of search_match_client leave windows found by their label before
\* those found by a title, and these before those found by their class, with what
\* is hidden and current moved by a tier, and otherwise in the order of the menu;
\* what is found among programs, hosts and files is sorted and has each name once
\* (search_match_exec, search_match_path).
THEOREM ResultsAreOrderedHolds == Spec => []ResultsAreOrdered
<1>1. ResultsAreOrdered
  <2> SUFFICES ASSUME NEW i \in DOMAIN open
               PROVE  LET mc == open[i]
                          q  == Match(mc, mc.search)
                      IN  /\ mc.kind = "window" =>
                               \A j, k \in DOMAIN q : Ahead(mc, q[j], q[k]) => j < k
                          /\ mc.kind \in {"exec", "ssh", "path"} =>
                               \A j, k \in DOMAIN q : j < k => Before(q[j].text, q[k].text)
    BY Zenon DEF ResultsAreOrdered
  <2> DEFINE mc == open[i]
             q  == Match(mc, mc.search)
  <2> HIDE DEF mc
  <2>1. mc.kind = "window" => InPlace(q, Menuq(mc), mc.search)
    BY WindowsInOrder
  <2>2. mc.kind \in {"exec", "ssh", "path"} => Sorted(q)
    BY NamesInOrder
  <2>3. ASSUME mc.kind = "window", NEW j \in DOMAIN q, NEW k \in DOMAIN q,
               Ahead(mc, q[j], q[k])
        PROVE  j < k
    <3> DEFINE T(x) == Tier(q[x].ctx, mc.search, Current)
               At(x) == PlaceOf(Menuq(mc), q[x])
    <3>1. q[j].ctx \in DOMAIN Windows /\ q[k].ctx \in DOMAIN Windows
      BY <2>3, FoundAreWindows
    <3>2. T(j) < T(k) \/ (T(j) = T(k) /\ At(j) < At(k))
      <4> HIDE DEF q
      <4> QED BY <2>3, <3>1, AheadIsAbove
    <3>3. k < j => T(k) < T(j) \/ (T(k) = T(j) /\ At(k) < At(j))
      <4> HIDE DEF q
      <4> QED BY <2>1, <2>3 DEF InPlace
    <3>4. T(j) \in 0..NoTier /\ T(k) \in 0..NoTier
      BY TierType
    <3>5. At(j) \in Nat /\ At(k) \in Nat
      <4>1. Menuq(mc) \in Seq(Items)
        BY MenuqType
      <4> QED BY <4>1, PlaceIsNat
    <3>6. j \in Nat /\ k \in Nat
      <4>1. q \in Seq(Items)
        BY MatchType
      <4> QED BY <2>3, <4>1
    <3> HIDE DEF T, At
    <3>7. ~(k < j)
      BY <3>2, <3>3, <3>4, <3>5 DEF NoTier
    <3>8. j # k
      BY <3>2, <3>4, <3>5 DEF NoTier
    <3> QED BY <3>6, <3>7, <3>8
  <2> HIDE DEF q
  <2>4. mc.kind \in {"exec", "ssh", "path"} =>
          \A j, k \in DOMAIN q : j < k => Before(q[j].text, q[k].text)
    BY <2>2 DEF Sorted
  <2> QED BY <2>3, <2>4, Zenon DEF q, mc
<1> QED
  BY <1>1, PTL

----------------------------------------------------------------------------
(* Completion.                                                             *)

Settled(mc, changed) ==
  IF ~mc.list /\ mc.listing /\ ~changed THEN <<>>
  ELSE IF changed THEN Matching(mc) ELSE mc.results
Shows(mc, results) == IF mc.list /\ results = <<>> THEN Menuq(mc) ELSE results

\* A key handled and the menu drawn leave the results of the text, or everything.
LEMMA ResultsAfter ==
  ASSUME RInv, open # <<>>, NEW mc, Shaped(mc), NEW changed \in BOOLEAN, KeyHandled(mc, changed)
  PROVE  Inner'.results = Shows(mc, Settled(mc, changed))
<1> DEFINE n == Settle(mc, changed)
           k == Listed(n, changed)
           d == Placed(k)
<1>1. Inner' = d
  <2>1. open' = [open EXCEPT ![Len(open)] = Draw(n, changed)]
    BY DEF KeyHandled, Show
  <2>2. Len(open) \in DOMAIN open
    BY InnerRight
  <2>3. Len(open') = Len(open) /\ open'[Len(open)] = Draw(n, changed)
    BY <2>1, <2>2 DEF RInv, MInv, Nested
  <2> QED BY <2>3 DEF Inner, Draw
<1>2. /\ Shaped(n) /\ n.list = mc.list /\ n.kind = mc.kind
      /\ n.results = IF ~mc.list /\ mc.listing /\ ~changed THEN <<>>
                     ELSE IF changed THEN Matching(mc) ELSE mc.results
  <2> DEFINE a == IF ~mc.list /\ mc.listing /\ ~changed THEN <<>>
                  ELSE IF changed THEN Matching(mc) ELSE mc.results
             c == mc.listing /\ ~(~mc.list /\ mc.listing /\ ~changed)
             u == [mc EXCEPT !.results = a, !.listing = c]
  <2>1. n = u
    BY DEF Settle, Matching
  <2> HIDE DEF a, c
  <2>2. u = [mc EXCEPT !.results = a, !.listing = c]
    OBVIOUS
  <2> HIDE DEF u, n
  <2>3. Shaped(u) /\ u.list = mc.list /\ u.kind = mc.kind /\ u.results = a
    BY <2>2 DEF Shaped
  <2> QED BY <2>1, <2>3 DEF a
<1> HIDE DEF n
<1>3. Menuq(n) = Menuq(mc)
  BY <1>2 DEF Menuq
<1>4. Shaped(k) /\ k.results = IF n.list /\ n.results = <<>> THEN Menuq(mc) ELSE n.results
  <2>1. CASE ~n.list
    <3>1. k = n
      BY <2>1 DEF Listed
    <3> QED BY <1>2, <2>1, <3>1
  <2>2. CASE n.list /\ n.results = <<>>
    <3> DEFINE all == Menuq(mc)
               u == [n EXCEPT !.results = all, !.listing = TRUE]
    <3>1. k = u
      BY <1>3, <2>2 DEF Listed
    <3> HIDE DEF all
    <3>2. u = [n EXCEPT !.results = all, !.listing = TRUE]
      OBVIOUS
    <3> HIDE DEF u, k
    <3>3. Shaped(u) /\ u.results = all
      BY <1>2, <3>2 DEF Shaped
    <3> QED BY <2>2, <3>1, <3>3 DEF all
  <2>3. CASE n.list /\ n.results # <<>>
    <3> DEFINE c == n.listing /\ ~changed
               u == [n EXCEPT !.listing = c]
    <3>1. k = u
      BY <2>3 DEF Listed
    <3> HIDE DEF c
    <3>2. u = [n EXCEPT !.listing = c]
      OBVIOUS
    <3> HIDE DEF u, k
    <3>3. Shaped(u) /\ u.results = n.results
      BY <1>2, <3>2 DEF Shaped
    <3> QED BY <2>3, <3>1, <3>3
  <2> QED BY <2>1, <2>2, <2>3
<1> HIDE DEF k
<1>5. d.results = k.results
  <2> DEFINE m == Len(Seen(k)) + (IF HasPrompt(k.kind) THEN 1 ELSE 0)
             y == IF k.y + m >= Bottom THEN Bottom - m ELSE k.y
             a == IF y < Top THEN Top ELSE y
             b == IF y < Top THEN Min({m, Bottom - Top}) ELSE m
             u == [k EXCEPT !.y = a, !.len = b]
  <2>1. d = u
    BY DEF Placed
  <2> HIDE DEF a, b
  <2>2. u = [k EXCEPT !.y = a, !.len = b]
    OBVIOUS
  <2> HIDE DEF u, d
  <2>3. u.results = k.results
    BY <1>4, <2>2 DEF Shaped
  <2> QED BY <2>1, <2>3
<1> QED
  BY <1>1, <1>2, <1>4, <1>5 DEF Shows, Settled, n

\* What begins with a text begins with what the text begins with
LEMMA PrefixTransitive ==
  ASSUME NEW s \in Words, NEW t \in Words, NEW w \in Words, IsPrefix(s, t), IsPrefix(t, w)
  PROVE  IsPrefix(s, w)
<1>1. /\ Len(s) \in Nat /\ Len(t) \in Nat /\ Len(w) \in Nat
      /\ Len(s) <= Len(t) /\ \A i \in 1..Len(s) : s[i] = t[i]
      /\ Len(t) <= Len(w) /\ \A i \in 1..Len(t) : t[i] = w[i]
  BY PrefixAt DEF Words
<1>2. Len(s) <= Len(w) /\ \A i \in 1..Len(s) : s[i] = w[i]
  BY <1>1
<1> QED
  BY <1>2, PrefixAt DEF Words

\* What is found among programs and hosts, where it is no file
LEMMA NamesFound ==
  ASSUME NEW mc, mc.kind \in {"exec", "ssh"}, NEW s \in Words
  PROVE  LET q == Match(mc, s)
             W == {w \in Texts(ToSet(Menuq(mc))) : IsPrefix(s, w)}
         IN /\ q \in Seq(Items)
            /\ (\A x \in ToSet(q) : x.ctx = "path") \/ Texts(ToSet(q)) = W
            /\ W # {} => Texts(ToSet(q)) = W
<1> DEFINE M == Menuq(mc)
           q == Match(mc, s)
           f == MatchExec(M, s)
           W == {w \in Texts(ToSet(M)) : IsPrefix(s, w)}
           p == MatchPath(Executable, s)
<1>1. M \in Seq(Items) /\ q \in Seq(Items)
  BY MenuqType, MatchType
<1>2. q = f \/ (f = <<>> /\ q = p)
  BY DEF Match, MatchExecPath
<1> HIDE DEF M, q
<1>3. f \in Seq(Items) /\ Texts(ToSet(f)) = W
  BY <1>1, ItemsHaveTexts, ExecFound
<1>4. /\ p \in Seq(Items)
      /\ \A i \in DOMAIN p : p[i].ctx = "path"
  BY PathsType
<1> HIDE DEF f, W, p
<1>5. CASE q = f
  BY <1>1, <1>3, <1>5 DEF q, M, W
<1>6. CASE f = <<>> /\ q = p
  <2>1. Texts(ToSet(<<>>)) = {}
    BY DEF Texts, ToSet
  <2>2. W = {}
    BY <1>3, <1>6, <2>1
  <2>3. \A x \in ToSet(q) : x.ctx = "path"
    BY <1>4, <1>6 DEF ToSet
  <2> QED BY <1>1, <2>2, <2>3 DEF q, M, W
<1> QED
  BY <1>2, <1>5, <1>6

\* Completing what is typed keeps the texts found
LEMMA TabKeeps ==
  ASSUME RInv, KeyTab, Inner.kind \in {"exec", "ssh"}, ~IsPathResult(Inner.results)
  PROVE  Texts(ToSet(Inner'.results)) = Texts(ToSet(Inner.results))
<1> DEFINE m == Inner
           M == Menuq(Inner)
           W == Texts(ToSet(Inner.results))
           t == TabText(Inner)
           n == [Inner EXCEPT !.search = t]
<1>1. /\ open # <<>>
      /\ IF m.results = <<>> THEN KeyHandled(m, FALSE) ELSE KeyHandled(n, TRUE)
  BY DEF KeyTab, Typing, Reading
<1>2. Right(m) /\ IsMenu(m) /\ Shaped(m) /\ m.results \in Seq(Items) /\ m.search \in Words
  BY <1>1, InnerRight DEF Right, IsMenu
<1>3. M \in Seq(Items)
  BY MenuqType
<1>4. CASE m.results = <<>>
  <2>1. Inner'.results = Shows(m, Settled(m, FALSE))
    BY <1>1, <1>2, <1>4, ResultsAfter
  <2>3. Inner'.results = IF m.list THEN M ELSE <<>>
    BY <1>4, <2>1 DEF Shows, Settled
  <2>2. m.list => M = <<>>
    BY <1>2, <1>4 DEF Right, ListsSome, ListsAll
  <2> QED BY <1>4, <2>3, <2>2
<1>5. CASE m.results # <<>>
  <2>1. t \in Words
    BY <1>2, <1>5, TabTextType
  <2> DEFINE L == LongestCommonPrefix(W)
  <2>2. t = L
    BY DEF TabText, Texts, Seen
  <2> HIDE DEF t
  <2>3. Shaped(n) /\ n.search = t /\ n.list = m.list /\ n.kind = m.kind /\ n.listing = m.listing
    <3>1. n = [m EXCEPT !.search = t]
      OBVIOUS
    <3> HIDE DEF n
    <3> QED BY <1>2, <3>1 DEF Shaped
  <2>15. KeyHandled(n, TRUE)
    BY <1>1, <1>5
  <2> HIDE DEF n
  <2>4. Menuq(n) = M /\ Match(n, t) = Match(m, t)
    BY <2>3, MatchingSame
  <2> DEFINE r == Matching(n)
             V == {w \in Texts(ToSet(M)) : IsPrefix(t, w)}
  <2>5. Inner'.results = IF m.list /\ r = <<>> THEN M ELSE r
    <3>1. Inner'.results = Shows(n, Settled(n, TRUE))
      BY <1>1, <2>15, <2>3, ResultsAfter
    <3> QED BY <2>3, <2>4, <3>1 DEF Shows, Settled
  <2>6. r = IF t = <<>> THEN <<>> ELSE Match(m, t)
    BY <2>3, <2>4 DEF Matching
  <2> HIDE DEF r
  <2>7. W # {} /\ W \subseteq Words
    <3>1. Seen(m) = m.results
      BY DEF Seen
    <3> QED BY <1>2, <1>5, <3>1, ResultTexts
  <2>8. \A w \in W : IsPrefix(t, w)
    BY <2>2, <2>7, InCommon
  <2>9. \A s \in Words : (\A w \in W : IsPrefix(s, w)) => IsPrefix(s, t)
    BY <2>2, <2>7, InCommon
  <2>10. Texts(ToSet(M)) \subseteq Words
    <3>1. ToSet(M) \subseteq Items
      BY <1>3 DEF ToSet
    <3> QED BY <3>1, ItemsHaveTexts DEF Texts
  <2>11. V # {} => Texts(ToSet(Match(m, t))) = V
    BY <2>1, NamesFound
  <2> HIDE DEF L, V
  <2>12. Texts(ToSet(<<>>)) = {}
    BY DEF Texts, ToSet
  <2>13. CASE m.listing
    <3>1. m.list /\ W = Texts(ToSet(M))
      BY <1>2, <2>13 DEF Right, Offers
    <3>2. V = W
      BY <2>8, <3>1 DEF V
    <3>3. CASE t = <<>>
      BY <2>5, <2>6, <3>1, <3>3
    <3>4. CASE t # <<>>
      <4>1. Texts(ToSet(r)) = W
        BY <2>6, <2>7, <2>11, <3>2, <3>4
      <4>2. r # <<>>
        BY <2>7, <2>12, <4>1
      <4> QED BY <2>5, <4>1, <4>2
    <3> QED BY <3>3, <3>4
  <2>14. CASE ~m.listing
    <3>1. ToSet(m.results) = ToSet(Matching(m)) /\ Len(m.results) = Len(Matching(m))
      BY <1>2, <2>14 DEF Right, Offers
    <3>2. m.search # <<>> /\ Matching(m) = Match(m, m.search)
      BY <2>7, <2>12, <3>1 DEF Matching
    <3>3. W = {w \in Texts(ToSet(M)) : IsPrefix(m.search, w)}
      <4> DEFINE q == Match(m, m.search)
      <4>1. \/ \A x \in ToSet(q) : x.ctx = "path"
            \/ Texts(ToSet(q)) = {w \in Texts(ToSet(M)) : IsPrefix(m.search, w)}
        BY <1>2, NamesFound
      <4>2. ToSet(q) = ToSet(m.results)
        BY <3>1, <3>2
      <4> HIDE DEF q
      <4>3. m.results[1] \in ToSet(q) /\ m.results[1].ctx # "path"
        <5>1. 1 \in DOMAIN m.results
          BY <1>2, <1>5
        <5>2. m.results[1].ctx # "path"
          BY <1>5 DEF IsPathResult
        <5> QED BY <4>2, <5>1, <5>2 DEF ToSet
      <4> QED BY <4>1, <4>2, <4>3
    <3>4. IsPrefix(m.search, t)
      BY <1>2, <2>9, <3>3
    <3>5. V = W
      <4>1. \A w \in V : w \in W
        BY <1>2, <2>1, <2>10, <3>3, <3>4, PrefixTransitive DEF V
      <4>2. \A w \in W : w \in V
        BY <2>8, <3>3 DEF V
      <4> QED BY <4>1, <4>2
    <3>6. t # <<>>
      <4>1. Len(m.search) <= Len(t) /\ m.search \in Seq(Nat)
        BY <1>2, <2>1, <3>4, PrefixAt DEF Words
      <4> QED BY <3>2, <4>1
    <3>7. Texts(ToSet(r)) = W
      BY <2>6, <2>7, <2>11, <3>5, <3>6
    <3>8. r # <<>>
      BY <2>7, <2>12, <3>7
    <3> QED BY <2>5, <3>7, <3>8
  <2> QED BY <2>13, <2>14
<1> QED
  BY <1>4, <1>5

\* Completing what is typed to what all programs found have in common loses none
\* of them: in any menu, and whether the results are what matches or everything
\* (menu_handle_key, CTL_TAB).
THEOREM TabKeepsResultsHolds == Spec => TabKeepsResults
<1>1. RInv => (KeyTab /\ Inner.kind \in {"exec", "ssh"} /\ ~IsPathResult(Inner.results) =>
       {mi.text : mi \in ToSet(Inner'.results)} = {mi.text : mi \in ToSet(Inner.results)})
  BY TabKeeps DEF Texts
<1> QED
  BY <1>1, ResultInvariant, PTL DEF TabKeepsResults
=============================================================================
