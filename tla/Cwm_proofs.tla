----------------------------- MODULE Cwm_proofs -----------------------------
(***************************************************************************)
(* Theorems of Cwm, for any windows, groups, habits and bounds.            *)
(*                                                                         *)
(* First the types and the lists: each operator of Clients and Groups has  *)
(* a lemma that it maps a state to a state.  Then what a pager reads, the  *)
(* recency order and what is on display, with lemmas that follow the same  *)
(* operators one by one.  Then the action property.  Last, with an         *)
(* invariant of its own, the promises that hold without races.             *)
(***************************************************************************)
EXTENDS Cwm, FiniteSetTheorems, SequenceTheorems, TLAPS

----------------------------------------------------------------------------
(* Sequences.                                                              *)

\* A finite set can be enumerated (Events).
LEMMA SetToSeqType ==
  ASSUME NEW W, IsFiniteSet(W)
  PROVE  SetToSeq(W) \in Seq(W)
<1>1. PICK n \in Nat : n = Cardinality(W)
  BY FS_CardinalityType
<1>2. PICK f \in [1 .. n -> W] : IsInjective(f)
  BY <1>1, FS_CardinalityType DEF ExistsBijection, Bijection, Injection
<1>3. SetToSeq(W) \in [1 .. n -> W]
  BY <1>1, <1>2 DEF SetToSeq
<1> QED
  BY <1>3

\* The UnmapNotify events of any set of windows can go in the event queue.
LEMMA EventsType ==
  ASSUME NEW W \in SUBSET Windows, NEW type \in EventTypes
  PROVE  Events(type, W) \in Seq([type : EventTypes, win : Windows])
<1>1. IsFiniteSet(W)
  BY ClientsAssumption, FS_Subset
<1>2. SetToSeq(W) \in Seq(W)
  BY <1>1, SetToSeqType
<1> DEFINE q == SetToSeq(W)
<1>3. DOMAIN q = 1 .. Len(q) /\ Len(q) \in Nat /\ \A i \in 1 .. Len(q) : q[i] \in W
  BY <1>2
<1>4. \A i \in 1 .. Len(q) : Event(type, q[i]) \in [type : EventTypes, win : Windows]
  BY <1>3 DEF Event
<1> HIDE DEF q
<1>5. [i \in DOMAIN q |-> Event(type, q[i])]
        \in [1 .. Len(q) -> [type : EventTypes, win : Windows]]
  BY <1>3, <1>4
<1>6. [i \in DOMAIN q |-> Event(type, q[i])]
        \in Seq([type : EventTypes, win : Windows])
  BY <1>3, <1>5
<1> QED
  BY <1>6 DEF Events, q

\* TAILQ_REMOVE takes an occurrence of c from a list and nothing else.
LEMMA UnlinkPositions ==
  ASSUME NEW T, NEW q \in Seq(T), NEW c, \E p \in DOMAIN q : q[p] = c
  PROVE  \E i \in 1 .. Len(q) :
           /\ q[i] = c
           /\ Unlink(q, c) \in Seq(T)
           /\ Len(Unlink(q, c)) = Len(q) - 1
           /\ \A j \in 1 .. i - 1 : Unlink(q, c)[j] = q[j]
           /\ \A j \in i .. Len(q) - 1 : Unlink(q, c)[j] = q[j + 1]
<1> QED
  <2> DEFINE i == CHOOSE j \in DOMAIN q : q[j] = c
             l == SubSeq(q, 1, i - 1)
             r == SubSeq(q, i + 1, Len(q))
  <2>1. i \in 1 .. Len(q) /\ q[i] = c
    OBVIOUS
  <2>2. Unlink(q, c) = l \o r
    BY DEF Unlink, RemoveAt
  <2> HIDE DEF i
  <2>3. /\ l \in Seq(T) /\ Len(l) = i - 1
        /\ r \in Seq(T) /\ Len(r) = Len(q) - i
        /\ \A j \in 1 .. i - 1 : l[j] = q[j]
        /\ \A j \in 1 .. Len(q) - i : r[j] = q[i + j]
    BY <2>1, SubSeqProperties
  <2> HIDE DEF l, r
  <2>4. /\ l \o r \in Seq(T)
        /\ Len(l \o r) = Len(q) - 1
        /\ \A j \in 1 .. i - 1 : (l \o r)[j] = q[j]
        /\ \A j \in i .. Len(q) - 1 : (l \o r)[j] = q[j + 1]
    <3>1. /\ l \o r \in Seq(T)
          /\ Len(l \o r) = Len(l) + Len(r)
          /\ \A j \in 1 .. Len(l) + Len(r) :
               (l \o r)[j] = IF j <= Len(l) THEN l[j] ELSE r[j - Len(l)]
      BY <2>3, ConcatProperties
    <3>2. Len(q) \in Nat
      BY LenProperties
    <3> HIDE DEF i
    <3>3. ASSUME NEW j \in i .. Len(q) - 1
          PROVE  (l \o r)[j] = q[j + 1]
      <4>1. j \in 1 .. Len(l) + Len(r) /\ ~(j <= Len(l))
        BY <2>1, <2>3, <3>2
      <4>2. j - Len(l) \in 1 .. Len(q) - i /\ i + (j - Len(l)) = j + 1
        BY <2>1, <2>3, <3>2
      <4> QED
        BY <3>1, <4>1, <4>2, <2>3
    <3> QED
      BY <2>1, <2>3, <3>1, <3>2, <3>3
  <2> HIDE DEF i
  <2> QED
    BY <2>1, <2>2, <2>4

\* TAILQ_REMOVE leaves a list of the same type.
LEMMA UnlinkType ==
  ASSUME NEW T, NEW q \in Seq(T), NEW c
  PROVE  Unlink(q, c) \in Seq(T)
<1>1. CASE \E p \in DOMAIN q : q[p] = c
  BY <1>1, UnlinkPositions
<1>2. CASE ~ \E p \in DOMAIN q : q[p] = c
  BY <1>2 DEF Unlink
<1> QED
  BY <1>1, <1>2

\* clientq holds no client twice
Unique(q) == \A i, j \in DOMAIN q : q[i] = q[j] => i = j

\* In a list that holds nothing twice no trace of c is left.
LEMMA UnlinkProperties ==
  ASSUME NEW T, NEW q \in Seq(T), Unique(q), NEW c
  PROVE  /\ Unlink(q, c) \in Seq(T)
         /\ Unique(Unlink(q, c))
         /\ ToSet(Unlink(q, c)) = ToSet(q) \ {c}
<1>1. CASE \E p \in DOMAIN q : q[p] = c
  <2> DEFINE u == Unlink(q, c)
             n == Len(q)
  <2>1. PICK i \in 1 .. n :
          /\ q[i] = c /\ u \in Seq(T) /\ Len(u) = n - 1
          /\ \A j \in 1 .. i - 1 : u[j] = q[j]
          /\ \A j \in i .. n - 1 : u[j] = q[j + 1]
    <3>1. \E i \in 1 .. Len(q) :
            /\ q[i] = c
            /\ Unlink(q, c) \in Seq(T)
            /\ Len(Unlink(q, c)) = Len(q) - 1
            /\ \A j \in 1 .. i - 1 : Unlink(q, c)[j] = q[j]
            /\ \A j \in i .. Len(q) - 1 : Unlink(q, c)[j] = q[j + 1]
      BY <1>1, UnlinkPositions
    <3> QED
      BY <3>1
  <2> HIDE DEF u, n
  <2>2. n \in Nat /\ DOMAIN q = 1 .. n /\ DOMAIN u = 1 .. n - 1
    BY <2>1, LenProperties DEF n
  <2> DEFINE Old(j) == IF j < i THEN j ELSE j + 1
  <2>3. ASSUME NEW j \in 1 .. n - 1
        PROVE  u[j] = q[Old(j)] /\ Old(j) \in 1 .. n /\ Old(j) # i
    <3>1. CASE j < i
      BY <2>1, <2>2, <3>1
    <3>2. CASE ~ (j < i)
      BY <2>1, <2>2, <3>2
    <3> QED
      BY <3>1, <3>2
  <2>4. \A j, k \in 1 .. n - 1 : Old(j) = Old(k) => j = k
    BY <2>1, <2>2
  <2>5. \A k \in 1 .. n : k # i => \E j \in 1 .. n - 1 : Old(j) = k
    <3>1. ASSUME NEW k \in 1 .. n, k < i
          PROVE  k \in 1 .. n - 1 /\ Old(k) = k
      BY <2>1, <2>2, <3>1
    <3>2. ASSUME NEW k \in 1 .. n, k > i
          PROVE  k - 1 \in 1 .. n - 1 /\ Old(k - 1) = k
      BY <2>1, <2>2, <3>2
    <3> HIDE DEF Old
    <3> QED
      BY <2>1, <2>2, <3>1, <3>2
  <2> HIDE DEF Old
  <2>6. Unique(u)
    BY <2>2, <2>3, <2>4 DEF Unique
  <2>7. ToSet(u) \subseteq ToSet(q) \ {c}
    <3>1. ASSUME NEW j \in 1 .. n - 1
          PROVE  u[j] \in ToSet(q) \ {c}
      <4>1. u[j] \in ToSet(q)
        BY <2>2, <2>3 DEF ToSet
      <4>2. u[j] # c
        BY <2>1, <2>2, <2>3 DEF Unique
      <4> QED
        BY <4>1, <4>2
    <3> QED
      BY <2>2, <3>1 DEF ToSet
  <2>8. ToSet(q) \ {c} \subseteq ToSet(u)
    <3>1. ASSUME NEW k \in 1 .. n, q[k] # c
          PROVE  q[k] \in ToSet(u)
      <4>1. PICK j \in 1 .. n - 1 : Old(j) = k
        BY <2>1, <2>5, <3>1
      <4> QED
        BY <2>2, <2>3, <4>1 DEF ToSet
    <3> QED
      BY <2>2, <3>1 DEF ToSet
  <2> QED
    BY <2>1, <2>6, <2>7, <2>8 DEF u
<1>2. CASE ~ \E p \in DOMAIN q : q[p] = c
  <2>1. Unlink(q, c) = q
    BY <1>2 DEF Unlink
  <2>2. c \notin ToSet(q)
    BY <1>2 DEF ToSet
  <2> QED
    BY <2>1, <2>2
<1> QED
  BY <1>1, <1>2

\* TAILQ_INSERT_HEAD adds a client that the list does not hold.
LEMMA HeadProperties ==
  ASSUME NEW T, NEW q \in Seq(T), Unique(q), NEW c \in T, c \notin ToSet(q)
  PROVE  /\ <<c>> \o q \in Seq(T)
         /\ Unique(<<c>> \o q)
         /\ ToSet(<<c>> \o q) = ToSet(q) \cup {c}
<1> DEFINE r == <<c>> \o q
           n == Len(q)
<1>1. /\ n \in Nat /\ r \in Seq(T) /\ Len(r) = 1 + n
      /\ \A i \in 1 .. 1 + n : r[i] = IF i <= 1 THEN c ELSE q[i - 1]
  BY ConcatProperties, LenProperties
<1>2. DOMAIN r = 1 .. 1 + n /\ DOMAIN q = 1 .. n
  BY <1>1, LenProperties
<1> HIDE DEF r, n
<1>3. \A i \in 2 .. 1 + n : r[i] = q[i - 1] /\ i - 1 \in 1 .. n
  BY <1>1
<1>4. r[1] = c /\ \A i \in 1 .. 1 + n : i = 1 \/ i \in 2 .. 1 + n
  BY <1>1
<1>5. \A i \in 2 .. 1 + n : r[i] \in ToSet(q)
  BY <1>2, <1>3 DEF ToSet
<1>6. Unique(r)
  <2>1. ASSUME NEW i \in 2 .. 1 + n, NEW j \in 2 .. 1 + n, r[i] = r[j]
        PROVE  i = j
    <3>1. q[i - 1] = q[j - 1] /\ i - 1 \in DOMAIN q /\ j - 1 \in DOMAIN q
      BY <1>2, <1>3, <2>1
    <3>2. i - 1 = j - 1
      BY <3>1 DEF Unique
    <3> QED
      BY <1>1, <3>2
  <2> QED
    BY <1>2, <1>4, <1>5, <2>1 DEF Unique
<1>7. ToSet(r) \subseteq ToSet(q) \cup {c}
  <2>1. \A i \in 1 .. 1 + n : r[i] \in ToSet(q) \cup {c}
    BY <1>4, <1>5
  <2> QED
    BY <1>2, <2>1 DEF ToSet
<1>8. c \in ToSet(r)
  <2>1. 1 \in DOMAIN r
    BY <1>1, <1>2
  <2> QED
    BY <2>1, <1>4 DEF ToSet
<1>9. ToSet(q) \subseteq ToSet(r)
  <2>1. ASSUME NEW i \in 1 .. n
        PROVE  q[i] \in ToSet(r)
    <3>1. i + 1 \in 2 .. 1 + n /\ (i + 1) - 1 = i /\ i + 1 \in DOMAIN r
      BY <1>1, <1>2
    <3>2. r[i + 1] = q[i]
      BY <1>3, <3>1
    <3> QED
      BY <3>1, <3>2 DEF ToSet
  <2> QED
    BY <1>2, <2>1 DEF ToSet
<1> QED
  BY <1>1, <1>6, <1>7, <1>8, <1>9 DEF r

\* So does TAILQ_INSERT_TAIL.
LEMMA TailProperties ==
  ASSUME NEW T, NEW q \in Seq(T), Unique(q), NEW c \in T, c \notin ToSet(q)
  PROVE  /\ Append(q, c) \in Seq(T)
         /\ Unique(Append(q, c))
         /\ ToSet(Append(q, c)) = ToSet(q) \cup {c}
<1> DEFINE r == Append(q, c)
           n == Len(q)
<1>1. /\ n \in Nat /\ r \in Seq(T) /\ Len(r) = n + 1
      /\ \A i \in 1 .. n : r[i] = q[i]
      /\ r[n + 1] = c
  BY AppendProperties, LenProperties
<1>2. DOMAIN r = 1 .. n + 1 /\ DOMAIN q = 1 .. n
  BY <1>1, LenProperties
<1> HIDE DEF r, n
<1>3. \A i \in 1 .. n : r[i] \in ToSet(q)
  BY <1>1, <1>2 DEF ToSet
<1>4. \A i \in 1 .. n + 1 : i = n + 1 \/ i \in 1 .. n
  BY <1>1
<1>5. Unique(r)
  <2>1. ASSUME NEW i \in 1 .. n, NEW j \in 1 .. n, r[i] = r[j]
        PROVE  i = j
    BY <1>1, <1>2, <2>1 DEF Unique
  <2> QED
    BY <1>1, <1>2, <1>3, <1>4, <2>1 DEF Unique
<1>6. ToSet(r) \subseteq ToSet(q) \cup {c}
  <2>1. \A i \in 1 .. n + 1 : r[i] \in ToSet(q) \cup {c}
    BY <1>1, <1>3, <1>4
  <2> QED
    BY <1>2, <2>1 DEF ToSet
<1>7. c \in ToSet(r)
  <2>1. n + 1 \in DOMAIN r
    BY <1>1, <1>2
  <2> QED
    BY <2>1, <1>1 DEF ToSet
<1>8. ToSet(q) \subseteq ToSet(r)
  <2>1. ASSUME NEW i \in 1 .. n
        PROVE  q[i] \in ToSet(r)
    <3>1. i \in DOMAIN r /\ r[i] = q[i]
      BY <1>1, <1>2
    <3> QED
      BY <3>1 DEF ToSet
  <2> QED
    BY <1>2, <2>1 DEF ToSet
<1> QED
  BY <1>1, <1>5, <1>6, <1>7, <1>8 DEF r

----------------------------------------------------------------------------
(* Types.                                                                  *)

\* cc->flags keeps its type under the assignments of flags.
LEMMA ReflagType ==
  ASSUME NEW f \in [Clients -> SUBSET Flags], NEW W,
         NEW del, NEW add \in SUBSET Flags
  PROVE  Reflag(f, W, del, add) \in [Clients -> SUBSET Flags]
BY DEF Reflag

\* A window property keeps its type when some windows get a new value.
LEMMA SetPropertyType ==
  ASSUME NEW s, NEW T, NEW p \in [Windows -> T], NEW W, NEW v \in T
  PROVE  SetProperty(s, p, W, v) \in [Windows -> T]
BY DEF SetProperty

\* client_hide keeps the types.
LEMMA HideAllType ==
  ASSUME NEW s \in State, NEW W \in SUBSET Clients
  PROVE  HideAll(s, W) \in State
<1> DEFINE L == {c \in W : ~Has(s, c, "STICKY")}
           U == {w \in L \cap Windows : s.mapped[w]}
           F == Reflag(s.flags, L, {"ACTIVE"}, {"HIDDEN"})
           E == s.evq \o Events("UnmapNotify", U)
           P == SetProperty(s, s.wm_state, L, "Iconic")
           M == [w \in Windows |-> s.mapped[w] /\ w \notin L]
<1>1. F \in [Clients -> SUBSET Flags]
  BY ReflagType DEF State, Flags
<1>2. E \in Seq([type : EventTypes, win : Windows])
  <2>1. Events("UnmapNotify", U) \in Seq([type : EventTypes, win : Windows])
    BY EventsType DEF EventTypes
  <2>2. s.evq \in Seq([type : EventTypes, win : Windows])
    BY DEF State
  <2> QED
    BY <2>1, <2>2, ConcatProperties
<1>3. P \in [Windows -> {"none", "Normal", "Iconic", "Withdrawn"}]
  BY SetPropertyType DEF State
<1>4. M \in [Windows -> BOOLEAN]
  BY DEF State
<1> HIDE DEF F, E, P, M
<1> QED
  BY <1>1, <1>2, <1>3, <1>4 DEF State, HideAll, F, E, P, M

\* client_unhide keeps the types.
LEMMA UnhideAllType ==
  ASSUME NEW s \in State, NEW W \in SUBSET Clients
  PROVE  UnhideAll(s, W) \in State
<1> DEFINE L == {c \in W : ~Has(s, c, "STICKY")}
           F == Reflag(s.flags, L, {"HIDDEN"}, {})
           P == SetProperty(s, s.wm_state, L, "Normal")
           M == [w \in Windows |->
                   s.mapped[w] \/ (w \in L /\ s.app[w] # "gone")]
<1>1. F \in [Clients -> SUBSET Flags]
  BY ReflagType DEF State
<1>2. P \in [Windows -> {"none", "Normal", "Iconic", "Withdrawn"}]
  BY SetPropertyType DEF State
<1>3. M \in [Windows -> BOOLEAN]
  BY DEF State
<1> HIDE DEF F, P, M
<1> QED
  BY <1>1, <1>2, <1>3 DEF State, UnhideAll, F, P, M

\* client_ptrwarp keeps the types.
LEMMA PtrWarpType ==
  ASSUME NEW s \in State, NEW c \in Clients
  PROVE  PtrWarp(s, c) \in State
BY UnhideAllType DEF PtrWarp, Unhide

\* client_none keeps the types.
LEMMA NoneType ==
  ASSUME NEW s \in State
  PROVE  None(s) \in State
BY DEF None, State

\* client_mtf keeps the types: it puts a window at the head of the list.
LEMMA MoveToFrontType ==
  ASSUME NEW s \in State, NEW c \in Windows
  PROVE  MoveToFront(s, c) \in State
<1>1. Unlink(s.clientq, c) \in Seq(Windows)
  BY UnlinkType DEF State
<1>2. <<c>> \o Unlink(s.clientq, c) \in Seq(Windows)
  BY <1>1, ConcatProperties
<1> QED
  BY <1>2 DEF MoveToFront, State

\* client_setactive keeps the types.
LEMMA SetActiveType ==
  ASSUME NEW s \in State, NEW c \in Windows
  PROVE  SetActive(s, c) \in State
<1> DEFINE t == IF s.cycling THEN s ELSE MoveToFront(s, c)
           F == Reflag(Reflag(t.flags, {t.curcc}, {"ACTIVE"}, {}),
                       {c}, {}, {"ACTIVE"})
<1>1. t \in State
  BY MoveToFrontType
<1>2. F \in [Clients -> SUBSET Flags]
  <2>1. Reflag(t.flags, {t.curcc}, {"ACTIVE"}, {}) \in [Clients -> SUBSET Flags]
    BY <1>1, ReflagType DEF State
  <2> QED
    BY <2>1, ReflagType DEF Flags
<1>3. SetActive(s, c) = IF Has(s, c, "HIDDEN") THEN s
        ELSE [t EXCEPT !.flags = F, !.curcc = c, !.net_active = c]
  BY DEF SetActive
<1> HIDE DEF t, F
<1>4. [t EXCEPT !.flags = F, !.curcc = c, !.net_active = c] \in State
  BY <1>1, <1>2 DEF State
<1> QED
  BY <1>3, <1>4

\* xu_ewmh_net_client_list keeps the types.
LEMMA ListClientsType ==
  ASSUME NEW s \in State
  PROVE  ListClients(s) \in State
<1>1. Managed(s) \in SUBSET Windows
  BY DEF Managed, ToSet, State
<1> QED
  BY <1>1 DEF ListClients, State

\* client_delete keeps the types.
LEMMA DeleteType ==
  ASSUME NEW s \in State, NEW c \in Windows
  PROVE  Delete(s, c) \in State
<1> DEFINE r == [s EXCEPT !.clientq = Unlink(@, c)]
           t == ListClients(r)
           g == s.group[c]
           u == IF g \in Groups THEN [t EXCEPT !.members[g] = @ \ {c}] ELSE t
           v == IF c = u.curcc THEN None(u) ELSE u
<1>1. r \in State
  <2>1. Unlink(s.clientq, c) \in Seq(Windows)
    BY UnlinkType DEF State
  <2> QED
    BY <2>1 DEF State
<1>2. t \in State
  BY <1>1, ListClientsType
<1>3. u \in State
  <2>1. CASE g \in Groups
    <3>1. [t.members EXCEPT ![g] = @ \ {c}] \in [Groups -> SUBSET Clients]
      BY <1>2, <2>1 DEF State
    <3> HIDE DEF t, g
    <3> QED
      BY <1>2, <2>1, <3>1 DEF State
  <2> QED
    BY <1>2, <2>1
<1>4. v \in State
  BY <1>3, NoneType
<1>5. Delete(s, c) = [v EXCEPT !.flags[c] = {}, !.group[c] = NoGroup]
  BY DEF Delete
<1> HIDE DEF v
<1>6. /\ [v.flags EXCEPT ![c] = {}] \in [Clients -> SUBSET Flags]
      /\ [v.group EXCEPT ![c] = NoGroup] \in [Clients -> Groups \cup {NoGroup}]
  BY <1>4 DEF State
<1> QED
  BY <1>4, <1>5, <1>6, ZenonT(60) DEF State

\* group_assign keeps the types.
LEMMA AssignAllType ==
  ASSUME NEW s \in State, NEW W \in SUBSET Clients, NEW g \in Groups
  PROVE  AssignAll(s, W, g) \in State
<1> DEFINE M == [h \in Groups |->
                   IF h = g THEN s.members[h] \cup W
                   ELSE s.members[h] \ {c \in W : s.group[c] = h}]
           G == [c \in Clients |-> IF c \in W THEN g ELSE s.group[c]]
           P == SetProperty(s, s.wm_desktop, W, g)
<1>1. M \in [Groups -> SUBSET Clients]
  BY DEF State
<1>2. G \in [Clients -> Groups \cup {NoGroup}]
  BY DEF State
<1>3. P \in [Windows -> Groups \cup {NoGroup}]
  BY SetPropertyType DEF State
<1> HIDE DEF M, G, P
<1> QED
  BY <1>1, <1>2, <1>3 DEF State, AssignAll, M, G, P

\* cwm manages windows, never a client_ctx of a key binding.
LEMMA ManagedType ==
  ASSUME NEW s \in State
  PROVE  Managed(s) \in SUBSET Windows /\ Managed(s) \in SUBSET Clients
BY DEF Managed, ToSet, State, Clients

\* A set of groups or of positions that is not empty has a smallest member.
LEMMA SmallestOf ==
  ASSUME NEW n \in Nat, NEW H \in SUBSET (0 .. n), H # {}
  PROVE  \E k \in H : \A j \in H : k <= j
<1> DEFINE R == {ss \in Nat \X Nat : ss[1] < ss[2]}
<1>1. IsWellFoundedOn(R, Nat)
  BY NatLessThanWellFounded DEF OpToRel
<1>2. H \subseteq Nat
  OBVIOUS
<1> HIDE DEF R
<1>3. PICK x \in H : \A y \in H : ~ (<<y, x>> \in R)
  BY <1>1, <1>2, WFMin
<1>4. ASSUME NEW y \in H
      PROVE  ~ (y < x)
  BY <1>2, <1>3 DEF R
<1> QED
  BY <1>2, <1>4

\* The position client_cycle reaches by turning around the list.
LEMMA AroundTheList ==
  ASSUME NEW n \in Nat \ {0}, NEW a \in Int
  PROVE  (a % n) + 1 \in 1 .. n
<1>1. a % n \in 0 .. n - 1
  OBVIOUS
<1> QED
  BY <1>1

\* client_cycle lands on a window of the list, which it must find the current
\* client in.
LEMMA CycleTargetType ==
  ASSUME NEW s \in State, NEW dir \in {1, -1}, NEW ingroup \in BOOLEAN,
         s.clientq # <<>>, s.curcc # NoClient => s.curcc \in Managed(s)
  PROVE  /\ CycleTarget(s, dir, ingroup) \in Managed(s) \cup {NoClient}
         /\ CycleTarget(s, dir, ingroup) # NoClient
              => "HIDDEN" \notin s.flags[CycleTarget(s, dir, ingroup)]
<1> DEFINE q == s.clientq
           n == Len(q)
           old == IF s.curcc # NoClient THEN s.curcc
                  ELSE IF dir = 1 THEN q[1] ELSE q[n]
           pos == CHOOSE i \in 1 .. n : q[i] = old
           At(k) == q[((pos - 1 + dir * k) % n) + 1]
           hits == {k \in 1 .. n :
                      /\ s.flags[At(k)] \cap {"HIDDEN", "IGNORE"} = {}
                      /\ ingroup => s.group[At(k)] = s.group[old]}
<1>1. q \in Seq(Windows) /\ n \in Nat \ {0} /\ DOMAIN q = 1 .. n
  BY EmptySeq, LenProperties DEF State
<1>2. \E i \in 1 .. n : q[i] = old
  BY <1>1 DEF Managed, ToSet
<1>3. pos \in 1 .. n
  BY <1>2
<1> HIDE DEF pos
<1>4. ASSUME NEW k \in 1 .. n
      PROVE  At(k) \in Managed(s)
  <2>1. pos - 1 + dir * k \in Int
    BY <1>1, <1>3
  <2>2. ((pos - 1 + dir * k) % n) + 1 \in 1 .. n
    BY <1>1, <2>1, AroundTheList
  <2> QED
    BY <1>1, <2>2 DEF Managed, ToSet
<1>5. CycleTarget(s, dir, ingroup) =
        IF hits = {} THEN NoClient
        ELSE At(CHOOSE k \in hits : \A j \in hits : k <= j)
  BY DEF CycleTarget, pos
<1>6. hits # {} => \E k \in hits : \A j \in hits : k <= j
  <2> DEFINE H == hits
  <2>1. H \in SUBSET (0 .. n)
    BY <1>1
  <2> HIDE DEF H
  <2>2. H # {} => \E k \in H : \A j \in H : k <= j
    BY <1>1, <2>1, SmallestOf
  <2> QED
    BY <2>2 DEF H
<1>7. \A k \in hits : k \in 1 .. n /\ "HIDDEN" \notin s.flags[At(k)]
  OBVIOUS
<1> HIDE DEF hits, At
<1> DEFINE k == CHOOSE i \in hits : \A j \in hits : i <= j
<1>8. hits # {} => k \in hits
  BY <1>6
<1> HIDE DEF k
<1>9. CycleTarget(s, dir, ingroup) = IF hits = {} THEN NoClient ELSE At(k)
  BY <1>5 DEF k
<1> QED
  BY <1>4, <1>7, <1>8, <1>9

\* client_cycle and client_cycle_leave keep the types.
LEMMA CyclingType ==
  ASSUME NEW s \in State, NEW b \in BOOLEAN
  PROVE  [s EXCEPT !.cycling = b] \in State
BY DEF State

\* group_setactive keeps the types.
LEMMA GroupSetActiveType ==
  ASSUME NEW s \in State, NEW g \in Groups
  PROVE  GroupSetActive(s, g) \in State
BY DEF GroupSetActive, State

\* An assignment to cc->flags keeps the types.
LEMMA FlagType ==
  ASSUME NEW s \in State, NEW c \in Clients, NEW F \in SUBSET Flags
  PROVE  [s EXCEPT !.flags[c] = F] \in State
<1>1. [s.flags EXCEPT ![c] = F] \in [Clients -> SUBSET Flags]
  BY DEF State
<1> QED
  BY <1>1 DEF State

----------------------------------------------------------------------------
(* The inductive invariant, said of any state s: M is what clientq holds,  *)
(* and K the windows that are in a group, which are M and the one that     *)
(* client_init is at work on.                                              *)
(*                                                                         *)
(* The parts need one another.  client_cycle keeps the types only if it    *)
(* finds the current client in the list.  client_delete takes a client out *)
(* of clientq for good only if it is there once, and out of the list of    *)
(* the group that cc->group names.  The flags stay off the windows cwm     *)
(* does not know because the members of the groups are known.              *)

Good(s, M, K) ==
  /\ s \in State
  /\ Unique(s.clientq)
  /\ Managed(s) = M /\ M \subseteq K /\ K \subseteq Windows
  /\ s.curcc # NoClient => s.curcc \in M
  /\ \A c \in Clients : Has(s, c, "ACTIVE") <=> c = s.curcc
  /\ \A c \in Clients, g \in Groups : c \in s.members[g] <=> s.group[c] = g
  /\ \A w \in Windows :
       IF w \in K THEN s.group[w] \in Groups
                  ELSE s.group[w] = NoGroup /\ s.flags[w] = {}

\* What does not touch the lists, the current client or the ACTIVE flags of a
\* good state, nor a flag of a window cwm does not know, leaves a good state.
LEMMA SameLists ==
  ASSUME NEW s, NEW M, NEW K, Good(s, M, K), NEW t \in State,
         t.clientq = s.clientq, t.curcc = s.curcc,
         t.members = s.members, t.group = s.group,
         \A c \in Clients : "ACTIVE" \in t.flags[c] <=> "ACTIVE" \in s.flags[c],
         \A w \in Windows \ K : t.flags[w] = s.flags[w]
  PROVE  Good(t, M, K)
BY DEF Good, Has, Managed

\* The members of the groups are windows cwm knows, and phantoms.
LEMMA MembersKnown ==
  ASSUME NEW s, NEW M, NEW K, Good(s, M, K), NEW g \in Groups
  PROVE  s.members[g] \subseteq K \cup Fakes /\ s.members[g] \subseteq Clients
<1>1. NoGroup \notin Groups
  BY ClientsAssumption DEF NoGroup, Groups
<1>2. s.members[g] \subseteq Clients
  BY DEF Good, State
<1> QED
  BY <1>1, <1>2 DEF Good, Clients

\* What cwm knows is a set of clients.
LEMMA KnownType ==
  ASSUME NEW s, NEW M, NEW K, Good(s, M, K)
  PROVE  /\ s \in State
         /\ M \subseteq K /\ M \subseteq Windows
         /\ K \cup Fakes \subseteq Clients
BY DEF Good, Clients

\* client_hide takes the flag from the client it hides, and the focus with it.
LEMMA HideAllGood ==
  ASSUME NEW s, NEW M, NEW K, Good(s, M, K), NEW W \in SUBSET (K \cup Fakes)
  PROVE  Good(HideAll(s, W), M, K)
<1> DEFINE L == {c \in W : ~Has(s, c, "STICKY")}
           t == HideAll(s, W)
<1>1. s \in State /\ t \in State
  BY HideAllType, KnownType
<1>2. /\ t.clientq = s.clientq
      /\ t.curcc = IF s.curcc \in L THEN NoClient ELSE s.curcc
      /\ t.flags = Reflag(s.flags, L, {"ACTIVE"}, {"HIDDEN"})
      /\ t.members = s.members /\ t.group = s.group
  BY <1>1 DEF HideAll, State
<1>3. NoClient \notin Clients /\ Windows \cap Fakes = {} /\ Windows \subseteq Clients
  BY ClientsAssumption DEF Clients
<1>4. \A c \in Clients : "ACTIVE" \in t.flags[c] <=>
                          "ACTIVE" \in s.flags[c] /\ c \notin L
  BY <1>2 DEF Reflag
<1>5. \A w \in Windows \ K : t.flags[w] = s.flags[w]
  BY <1>2, <1>3 DEF Reflag
<1> HIDE DEF t, L
<1> QED
  BY <1>1, <1>2, <1>3, <1>4, <1>5 DEF Good, Has, Managed, t

\* client_unhide changes no list.
LEMMA UnhideAllGood ==
  ASSUME NEW s, NEW M, NEW K, Good(s, M, K), NEW W \in SUBSET (K \cup Fakes)
  PROVE  Good(UnhideAll(s, W), M, K)
<1> DEFINE L == {c \in W : ~Has(s, c, "STICKY")}
           t == UnhideAll(s, W)
<1>1. s \in State /\ t \in State
  BY UnhideAllType, KnownType
<1>2. /\ t.clientq = s.clientq
      /\ t.curcc = s.curcc
      /\ t.flags = Reflag(s.flags, L, {"HIDDEN"}, {})
      /\ t.members = s.members /\ t.group = s.group
  BY <1>1 DEF UnhideAll, State
<1>3. \A c \in Clients : "ACTIVE" \in t.flags[c] <=> "ACTIVE" \in s.flags[c]
  BY <1>2 DEF Reflag
<1>4. \A w \in Windows \ K : t.flags[w] = s.flags[w]
  BY <1>2, ClientsAssumption DEF Reflag, Clients
<1> HIDE DEF t
<1> QED
  BY <1>1, <1>2, <1>3, <1>4, SameLists DEF t

\* client_ptrwarp changes no list.
LEMMA PtrWarpGood ==
  ASSUME NEW s, NEW M, NEW K, Good(s, M, K), NEW c \in K
  PROVE  Good(PtrWarp(s, c), M, K)
BY UnhideAllGood DEF PtrWarp, Unhide

\* client_mtf drops nobody from the list, and adds nobody.
LEMMA MoveToFrontGood ==
  ASSUME NEW s, NEW M, NEW K, Good(s, M, K), NEW c \in M
  PROVE  Good(MoveToFront(s, c), M, K)
<1> DEFINE t == MoveToFront(s, c)
           u == Unlink(s.clientq, c)
           q == <<c>> \o u
<1>1. s \in State /\ c \in Windows /\ t \in State
  BY KnownType, MoveToFrontType
<1>2. /\ t.clientq = q
      /\ t.curcc = s.curcc /\ t.flags = s.flags
      /\ t.members = s.members /\ t.group = s.group
  BY <1>1 DEF MoveToFront, State
<1>3. u \in Seq(Windows) /\ Unique(u) /\ ToSet(u) = M \ {c}
  BY <1>1, UnlinkProperties DEF State, Good, Managed
<1> HIDE DEF u
<1>4. Unique(q) /\ ToSet(q) = M
  <2>1. c \notin ToSet(u) /\ M = (M \ {c}) \cup {c}
    BY <1>3
  <2>2. Unique(q) /\ ToSet(q) = ToSet(u) \cup {c}
    BY <1>1, <1>3, <2>1, HeadProperties
  <2> QED
    BY <1>3, <2>1, <2>2
<1> HIDE DEF t, q
<1> QED
  BY <1>1, <1>2, <1>4 DEF Good, Has, Managed, t

\* client_setactive moves the flag with the focus.
LEMMA SetActiveGood ==
  ASSUME NEW s, NEW M, NEW K, Good(s, M, K), NEW c \in M
  PROVE  Good(SetActive(s, c), M, K)
<1> DEFINE t == IF s.cycling THEN s ELSE MoveToFront(s, c)
           F == Reflag(Reflag(t.flags, {t.curcc}, {"ACTIVE"}, {}),
                       {c}, {}, {"ACTIVE"})
           u == [t EXCEPT !.flags = F, !.curcc = c, !.net_active = c]
<1>1. s \in State /\ c \in Windows /\ c \in Clients /\ c \in K
  BY KnownType
<1>2. Good(t, M, K)
  BY MoveToFrontGood
<1>3. SetActive(s, c) = IF Has(s, c, "HIDDEN") THEN s ELSE u
  BY DEF SetActive
<1>4. SetActive(s, c) \in State
  BY <1>1, SetActiveType
<1> HIDE DEF t
<1>5. /\ u.clientq = t.clientq /\ u.curcc = c /\ u.flags = F
      /\ u.members = t.members /\ u.group = t.group
  BY <1>2 DEF Good, State
<1>6. \A d \in Clients : "ACTIVE" \in F[d] <=> d = c
  BY <1>1, <1>2 DEF Reflag, Good, Has
<1>7. \A w \in Windows \ K : F[w] = t.flags[w]
  <2>1. \A w \in Windows \ K : t.flags[w] = {} /\ w # c /\ w \in Clients
    BY <1>1, <1>2 DEF Good, Clients
  <2> QED
    BY <2>1 DEF Reflag
<1> HIDE DEF u, F
<1> QED
  BY <1>1, <1>2, <1>3, <1>4, <1>5, <1>6, <1>7 DEF Good, Has, Managed

\* client_delete forgets the client it frees: no list and no pointer holds it.
LEMMA DeleteGood ==
  ASSUME NEW s, NEW M, Good(s, M, M), NEW c \in M
  PROVE  Good(Delete(s, c), M \ {c}, M \ {c})
<1> DEFINE t == Delete(s, c)
           q == Unlink(s.clientq, c)
           g == s.group[c]
           m == [s.members EXCEPT ![g] = @ \ {c}]
<1>1. /\ s \in State /\ t \in State
      /\ c \in Windows /\ c \in Clients /\ NoClient \notin Clients
  BY DeleteType, KnownType, ClientsAssumption DEF Clients
<1>2. g \in Groups
  BY <1>1 DEF Good
<1>3. q \in Seq(Windows) /\ Unique(q) /\ ToSet(q) = M \ {c}
  BY <1>1, UnlinkProperties DEF State, Good, Managed
<1> HIDE DEF q, m
<1>4. /\ t.clientq = q
      /\ t.curcc = IF s.curcc = c THEN NoClient ELSE s.curcc
      /\ t.flags = [s.flags EXCEPT ![c] = {}]
      /\ t.members = m
      /\ t.group = [s.group EXCEPT ![c] = NoGroup]
  <2> DEFINE r == ListClients([s EXCEPT !.clientq = q])
             u == [r EXCEPT !.members[g] = @ \ {c}]
             v == IF c = u.curcc THEN None(u) ELSE u
  <2>1. /\ r \in State /\ DOMAIN r = DOMAIN s
        /\ r.clientq = q /\ r.curcc = s.curcc /\ r.flags = s.flags
        /\ r.members = s.members /\ r.group = s.group
    <3>1. [s EXCEPT !.clientq = q] \in State
      BY <1>1, <1>3 DEF State
    <3>2. r \in State
      BY <3>1, ListClientsType
    <3>3. /\ r.clientq = q /\ r.curcc = s.curcc /\ r.flags = s.flags
          /\ r.members = s.members /\ r.group = s.group
      BY <1>1 DEF ListClients, State
    <3>4. DOMAIN r = DOMAIN s
      BY DEF ListClients
    <3> QED
      BY <3>2, <3>3, <3>4
  <2> HIDE DEF r
  <2>2. /\ DOMAIN u = DOMAIN s
        /\ u.clientq = q /\ u.curcc = s.curcc /\ u.flags = s.flags
        /\ u.members = m /\ u.group = s.group
    <3>1. u.members = [r.members EXCEPT ![g] = @ \ {c}]
      BY <2>1 DEF State
    <3> QED
      BY <2>1, <3>1 DEF State, m
  <2> HIDE DEF u
  <2>3. /\ DOMAIN v = DOMAIN s
        /\ v.clientq = q
        /\ v.curcc = IF s.curcc = c THEN NoClient ELSE s.curcc
        /\ v.flags = s.flags /\ v.members = m /\ v.group = s.group
    BY <1>1, <2>2 DEF None, State
  <2>4. t = [v EXCEPT !.flags[c] = {}, !.group[c] = NoGroup]
    BY <1>2 DEF Delete, q, r, u
  <2> HIDE DEF v, t
  <2> QED
    BY <1>1, <2>3, <2>4 DEF State
<1>5. \A d \in Clients : "ACTIVE" \in t.flags[d] <=>
                          "ACTIVE" \in s.flags[d] /\ d # c
  BY <1>1, <1>4 DEF State
<1>6. \A d \in Clients, h \in Groups : d \in t.members[h] <=> t.group[d] = h
  <2>1. NoGroup \notin Groups
    BY ClientsAssumption DEF NoGroup, Groups
  <2>2. \A h \in Groups : t.members[h] = IF h = g THEN s.members[h] \ {c}
                                         ELSE s.members[h]
    BY <1>1, <1>2, <1>4, ZenonT(60) DEF State, m
  <2>3. \A d \in Clients : t.group[d] = IF d = c THEN NoGroup ELSE s.group[d]
    BY <1>1, <1>4 DEF State
  <2>4. \A d \in Clients, h \in Groups : d \in s.members[h] <=> s.group[d] = h
    BY DEF Good
  <2> HIDE DEF t
  <2>5. ASSUME NEW d \in Clients, NEW h \in Groups
        PROVE  d \in t.members[h] <=> t.group[d] = h
    <3>1. CASE d = c
      <4>1. t.group[d] # h
        BY <2>1, <2>3, <3>1
      <4>2. CASE h = g
        BY <2>2, <3>1, <4>1, <4>2
      <4>3. CASE h # g
        BY <2>2, <2>4, <3>1, <4>1, <4>3
      <4> QED
        BY <4>2, <4>3
    <3>2. CASE d # c
      BY <2>2, <2>3, <2>4, <3>2
    <3> QED
      BY <3>1, <3>2
  <2> QED
    BY <2>5
<1>7. \A w \in Windows :
        IF w \in M \ {c} THEN t.group[w] \in Groups
        ELSE t.group[w] = NoGroup /\ t.flags[w] = {}
  <2>1. \A w \in Windows : w \in Clients
    BY DEF Clients
  <2> QED
    BY <1>1, <1>4, <2>1 DEF State, Good
<1> HIDE DEF t
<1> QED
  BY <1>1, <1>3, <1>4, <1>5, <1>6, <1>7 DEF Good, Has, Managed, t

\* client_cycle does not move the focus; the EnterNotify that follows does.
LEMMA CycleGood ==
  ASSUME NEW s, NEW M, NEW K, Good(s, M, K),
         NEW dir \in {1, -1}, NEW ingroup \in BOOLEAN
  PROVE  Good(Cycle(s, dir, ingroup), M, K)
<1>1. s \in State
  BY KnownType
<1> DEFINE t == [s EXCEPT !.cycling = TRUE]
<1>2. Good(t, M, K)
  <2>1. t \in State
    BY <1>1, CyclingType
  <2>2. /\ t.clientq = s.clientq /\ t.curcc = s.curcc /\ t.flags = s.flags
        /\ t.members = s.members /\ t.group = s.group
    BY <1>1 DEF State
  <2> HIDE DEF t
  <2> QED
    BY <2>1, <2>2, SameLists
<1>3. CASE s.clientq = <<>> \/ CycleTarget(s, dir, ingroup) = NoClient
  BY <1>3 DEF Cycle
<1>4. CASE ~ (s.clientq = <<>> \/ CycleTarget(s, dir, ingroup) = NoClient)
  <2>1. CycleTarget(s, dir, ingroup) \in M
    BY <1>1, <1>4, CycleTargetType DEF Good
  <2> QED
    BY <1>2, <1>4, <2>1, PtrWarpGood, KnownType DEF Cycle
<1> QED
  BY <1>3, <1>4

\* client_cycle_leave moves the current client, which the list holds.
LEMMA CycleLeaveGood ==
  ASSUME NEW s, NEW M, NEW K, Good(s, M, K)
  PROVE  Good(CycleLeave(s), M, K)
<1>1. s \in State
  BY KnownType
<1> DEFINE t == [s EXCEPT !.cycling = FALSE]
<1>2. /\ t \in State
      /\ t.clientq = s.clientq /\ t.curcc = s.curcc /\ t.flags = s.flags
      /\ t.members = s.members /\ t.group = s.group
  BY <1>1, CyclingType DEF State
<1> HIDE DEF t
<1>3. Good(t, M, K)
  BY <1>2, SameLists
<1>4. t.curcc # NoClient => t.curcc \in M
  BY <1>3 DEF Good
<1> QED
  BY <1>3, <1>4, MoveToFrontGood DEF CycleLeave, t

\* group_assign moves the members of W: cc->group and the lists still agree,
\* and the windows among W are known from now on.
LEMMA AssignAllGood ==
  ASSUME NEW s, NEW M, NEW K, Good(s, M, K),
         NEW W \in SUBSET Clients, NEW g \in Groups
  PROVE  Good(AssignAll(s, W, g), M, K \cup (W \cap Windows))
<1> DEFINE t == AssignAll(s, W, g)
<1>1. s \in State /\ t \in State
  BY AssignAllType, KnownType
<1>2. /\ t.clientq = s.clientq /\ t.curcc = s.curcc /\ t.flags = s.flags
      /\ t.members = [h \in Groups |->
                        IF h = g THEN s.members[h] \cup W
                        ELSE s.members[h] \ {c \in W : s.group[c] = h}]
      /\ t.group = [c \in Clients |-> IF c \in W THEN g ELSE s.group[c]]
  BY <1>1 DEF AssignAll, State
<1> HIDE DEF t
<1>3. ASSUME NEW c \in Clients, NEW h \in Groups
      PROVE  c \in t.members[h] <=> t.group[c] = h
  <2>1. c \in s.members[h] <=> s.group[c] = h
    BY DEF Good
  <2>2. t.group[c] = IF c \in W THEN g ELSE s.group[c]
    BY <1>2
  <2>3. CASE h = g
    BY <1>2, <2>1, <2>2, <2>3
  <2>4. CASE h # g
    BY <1>2, <2>1, <2>2, <2>4
  <2> QED
    BY <2>3, <2>4
<1>4. \A w \in Windows :
        IF w \in K \cup (W \cap Windows) THEN t.group[w] \in Groups
        ELSE t.group[w] = NoGroup /\ t.flags[w] = {}
  BY <1>2 DEF Good, Clients
<1> QED
  BY <1>1, <1>2, <1>3, <1>4 DEF Good, Has, Managed, t

\* ... which changes nothing in what is known when they already were.
LEMMA ReassignGood ==
  ASSUME NEW s, NEW M, NEW K, Good(s, M, K),
         NEW W \in SUBSET (K \cup Fakes), NEW g \in Groups
  PROVE  Good(AssignAll(s, W, g), M, K)
<1>1. W \subseteq Clients /\ K \cup (W \cap Windows) = K
  BY KnownType, ClientsAssumption DEF Clients
<1> QED
  BY <1>1, AssignAllGood

\* group_setactive changes no list.
LEMMA GroupSetActiveGood ==
  ASSUME NEW s, NEW M, NEW K, Good(s, M, K), NEW g \in Groups
  PROVE  Good(GroupSetActive(s, g), M, K)
<1> DEFINE t == GroupSetActive(s, g)
<1>1. s \in State /\ t \in State
  BY GroupSetActiveType, KnownType
<1>2. /\ t.clientq = s.clientq /\ t.curcc = s.curcc /\ t.flags = s.flags
      /\ t.members = s.members /\ t.group = s.group
  BY <1>1 DEF GroupSetActive, State
<1> HIDE DEF t
<1> QED
  BY <1>1, <1>2, SameLists DEF t

\* An assignment to the flags of a known client, other than ACTIVE.
LEMMA FlagGood ==
  ASSUME NEW s, NEW M, NEW K, Good(s, M, K),
         NEW c \in K \cup Fakes, NEW F \in SUBSET Flags,
         "ACTIVE" \in F <=> "ACTIVE" \in s.flags[c]
  PROVE  Good([s EXCEPT !.flags[c] = F], M, K)
<1> DEFINE t == [s EXCEPT !.flags[c] = F]
<1>1. s \in State /\ t \in State /\ c \in Clients
  BY FlagType, KnownType
<1>2. /\ t.clientq = s.clientq /\ t.curcc = s.curcc
      /\ t.members = s.members /\ t.group = s.group
      /\ t.flags = [s.flags EXCEPT ![c] = F]
  BY <1>1 DEF State
<1>3. \A d \in Clients : t.flags[d] = IF d = c THEN F ELSE s.flags[d]
  BY <1>1, <1>2 DEF State
<1>4. \A w \in Windows \ K : w # c /\ w \in Clients
  BY ClientsAssumption DEF Clients
<1> HIDE DEF t
<1>5. \A d \in Clients : "ACTIVE" \in t.flags[d] <=> "ACTIVE" \in s.flags[d]
  BY <1>3
<1>6. \A w \in Windows \ K : t.flags[w] = s.flags[w]
  BY <1>3, <1>4
<1>7. Good(t, M, K)
  BY <1>1, <1>2, <1>5, <1>6, SameLists
<1> QED
  BY <1>7 DEF t

----------------------------------------------------------------------------
(* The operations of group.c, and the client operations that call them.    *)

\* Group 0 and the current group are groups.
LEMMA GroupsType ==
  ASSUME NEW s \in State
  PROVE  FirstGroup \in Groups /\ s.group_current \in Groups
BY ClientsAssumption DEF FirstGroup, Groups, State

\* group_movetogroup.
LEMMA MoveToGroupGood ==
  ASSUME NEW s, NEW M, NEW K, Good(s, M, K),
         NEW c \in K \cup Fakes, NEW g \in Groups
  PROVE  Good(MoveToGroup(s, c, g), M, K)
BY HideAllGood, ReassignGood DEF MoveToGroup, Hide, Assign

\* group_toggle_membership_enter.
LEMMA ToggleMembershipGood ==
  ASSUME NEW s, NEW M, NEW K, Good(s, M, K), NEW c \in K \cup Fakes
  PROVE  Good(ToggleMembership(s, c), M, K)
BY GroupsType, KnownType, ReassignGood DEF ToggleMembership, Assign

\* client_toggle_sticky.
LEMMA ToggleStickyGood ==
  ASSUME NEW s, NEW M, NEW K, Good(s, M, K), NEW c \in K
  PROVE  Good(ToggleSticky(s, c), M, K)
<1>1. s.flags[c] \in SUBSET Flags /\ s.group_current \in Groups
  BY KnownType DEF State
<1>2. /\ Good([s EXCEPT !.flags[c] = s.flags[c] \ {"STICKY"}], M, K)
      /\ Good([s EXCEPT !.flags[c] = s.flags[c] \cup {"STICKY"}], M, K)
  BY <1>1, FlagGood DEF Flags
<1>3. /\ [s EXCEPT !.flags[c] = @ \ {"STICKY"}]
           = [s EXCEPT !.flags[c] = s.flags[c] \ {"STICKY"}]
      /\ [s EXCEPT !.flags[c] = @ \cup {"STICKY"}]
           = [s EXCEPT !.flags[c] = s.flags[c] \cup {"STICKY"}]
  BY KnownType DEF State
<1> QED
  BY <1>1, <1>2, <1>3, ReassignGood DEF ToggleSticky, Assign

\* client_toggle_hidden.
LEMMA ToggleHiddenGood ==
  ASSUME NEW s, NEW M, NEW K, Good(s, M, K), NEW c \in K
  PROVE  Good(ToggleHidden(s, c), M, K)
<1> DEFINE F == IF "HIDDEN" \in s.flags[c] THEN s.flags[c] \ {"HIDDEN"}
                ELSE s.flags[c] \cup {"HIDDEN"}
<1>1. s.flags[c] \in SUBSET Flags
  BY KnownType DEF State
<1>2. F \in SUBSET Flags /\ ("ACTIVE" \in F <=> "ACTIVE" \in s.flags[c])
  BY <1>1 DEF Flags
<1>3. ToggleHidden(s, c) = [s EXCEPT !.flags[c] = F]
  BY KnownType DEF ToggleHidden, State
<1> HIDE DEF F
<1>4. Good([s EXCEPT !.flags[c] = F], M, K)
  BY <1>2, FlagGood
<1> QED
  BY <1>3, <1>4

\* An IGNORE flag for a known client.
LEMMA IgnoreGood ==
  ASSUME NEW s, NEW M, NEW K, Good(s, M, K), NEW c \in K
  PROVE  Good([s EXCEPT !.flags[c] = @ \cup {"IGNORE"}], M, K)
<1>1. s.flags[c] \in SUBSET Flags
  BY KnownType DEF State
<1>2. Good([s EXCEPT !.flags[c] = s.flags[c] \cup {"IGNORE"}], M, K)
  BY <1>1, FlagGood DEF Flags
<1> QED
  BY <1>2, KnownType DEF State

\* client_transient: the window it looks up is managed, so it is in a group.
LEMMA TransientGood ==
  ASSUME NEW s, NEW M, NEW K, Good(s, M, K), NEW w \in K
  PROVE  Good(Transient(s, w), M, K)
<1> DEFINE tc == TransientFor[w]
           t == MoveToGroup(s, w, s.group[tc])
<1>1. CASE s.app[w] = "gone" \/ tc \notin Managed(s) \/ s.group[tc] = NoGroup
  BY <1>1 DEF Transient
<1>2. CASE ~ (s.app[w] = "gone" \/ tc \notin Managed(s) \/ s.group[tc] = NoGroup)
  <2>1. s.group[tc] \in Groups
    BY <1>2 DEF Good
  <2>2. Good(t, M, K)
    BY <2>1, MoveToGroupGood
  <2>3. Good([t EXCEPT !.flags[w] = @ \cup {"IGNORE"}], M, K)
    BY <2>2, IgnoreGood
  <2> HIDE DEF t
  <2>4. Transient(s, w) = IF Has(s, tc, "IGNORE")
          THEN [t EXCEPT !.flags[w] = @ \cup {"IGNORE"}] ELSE t
    BY <1>2 DEF Transient, t
  <2> QED
    BY <2>2, <2>3, <2>4
<1> QED
  BY <1>1, <1>2

\* group_autogroup finds a group for every window.
LEMMA AutogroupType ==
  ASSUME NEW s \in State, NEW w \in Windows
  PROVE  AutogroupOf(s, w) \in Groups
BY GroupsType, GroupsAssumption DEF AutogroupOf, State

\* client_init, the list: a window that is in a group becomes managed.
LEMMA ManageGood ==
  ASSUME NEW s, NEW M, NEW w \in Windows \ M, Good(s, M, M \cup {w})
  PROVE  Good(ListClients([s EXCEPT !.clientq = Append(@, w)]),
              M \cup {w}, M \cup {w})
<1> DEFINE q == Append(s.clientq, w)
           r == [s EXCEPT !.clientq = q]
           t == ListClients(r)
<1>1. s \in State /\ w \notin ToSet(s.clientq)
  BY KnownType DEF Good, Managed
<1>2. q \in Seq(Windows) /\ Unique(q) /\ ToSet(q) = M \cup {w}
  <2>1. s.clientq \in Seq(Windows) /\ Unique(s.clientq) /\ ToSet(s.clientq) = M
    BY DEF Good, State, Managed
  <2> QED
    BY <1>1, <2>1, TailProperties
<1> HIDE DEF q
<1>3. r \in State /\ r.clientq = q /\ r.curcc = s.curcc /\ r.flags = s.flags
      /\ r.members = s.members /\ r.group = s.group
  BY <1>1, <1>2 DEF State
<1> HIDE DEF r
<1>4. t \in State /\ t.clientq = q /\ t.curcc = s.curcc /\ t.flags = s.flags
      /\ t.members = s.members /\ t.group = s.group
  BY <1>3, ListClientsType DEF ListClients, State
<1> HIDE DEF t
<1>5. Good(t, M \cup {w}, M \cup {w})
  BY <1>2, <1>4 DEF Good, Has, Managed
<1> QED
  BY <1>5 DEF t, r, q

\* client_init: from a window that cwm does not know to one it manages.
LEMMA ClientInitGood ==
  ASSUME NEW s, NEW M, Good(s, M, M), NEW w \in Windows \ M,
         NEW hint \in {"none", "Normal", "Iconic"}, NEW atoms
  PROVE  Good(ClientInit(s, w, hint, atoms), M \cup {w}, M \cup {w})
<1> DEFINE K == M \cup {w}
           a == IF hint # "none" /\ ~s.mapped[w]
                  THEN [s EXCEPT !.wm_state[w] = hint] ELSE s
           b == Assign(a, w, AutogroupOf(a, w))
           c == IF w \in Ignored
                  THEN [b EXCEPT !.flags[w] = @ \cup {"IGNORE"}] ELSE b
           d == Transient(c, w)
           e == ListClients([d EXCEPT !.clientq = Append(@, w)])
           f == IF "STICKY" \in atoms THEN ToggleSticky(e, w) ELSE e
           g == IF "HIDDEN" \in atoms THEN ToggleHidden(f, w) ELSE f
<1>1. s \in State /\ w \in K /\ w \in Clients
  BY KnownType DEF Clients
<1>2. Good(a, M, M)
  <2> DEFINE r == [s EXCEPT !.wm_state[w] = hint]
  <2>1. [s.wm_state EXCEPT ![w] = hint]
          \in [Windows -> {"none", "Normal", "Iconic", "Withdrawn"}]
    BY <1>1 DEF State
  <2>2. /\ r \in State /\ r.clientq = s.clientq /\ r.curcc = s.curcc
        /\ r.flags = s.flags /\ r.members = s.members /\ r.group = s.group
    BY <1>1, <2>1 DEF State
  <2> HIDE DEF r
  <2>3. Good(r, M, M)
    BY <2>2, SameLists
  <2> QED
    BY <2>3 DEF r
<1> HIDE DEF a
<1>3. Good(b, M, K)
  <2>1. AutogroupOf(a, w) \in Groups
    BY <1>2, AutogroupType, KnownType
  <2>2. K = M \cup ({w} \cap Windows)
    OBVIOUS
  <2> HIDE DEF K
  <2> QED
    BY <1>1, <1>2, <2>1, <2>2, AssignAllGood DEF Assign
<1> HIDE DEF b, K
<1>4. Good(c, M, K)
  BY <1>1, <1>3, IgnoreGood
<1> HIDE DEF c
<1>5. Good(d, M, K)
  BY <1>1, <1>4, TransientGood
<1> HIDE DEF d
<1>6. Good(e, K, K)
  BY <1>5, ManageGood DEF K
<1> HIDE DEF e
<1>7. Good(f, K, K)
  BY <1>1, <1>6, ToggleStickyGood
<1> HIDE DEF f
<1>8. Good(g, K, K)
  BY <1>1, <1>7, ToggleHiddenGood
<1> HIDE DEF g
<1>9. Good(Hide(g, w), K, K) /\ Good(Unhide(g, w), K, K)
  BY <1>1, <1>8, HideAllGood, UnhideAllGood DEF Hide, Unhide
<1>10. ClientInit(s, w, hint, atoms) =
         IF g.wm_state[w] = "Iconic" THEN Hide(g, w) ELSE Unhide(g, w)
  BY DEF ClientInit, a, b, c, d, e, f, g
<1> QED
  BY <1>9, <1>10 DEF K

\* group_hide of every member of a group, whether window or phantom.
LEMMA GroupHideGood ==
  ASSUME NEW s, NEW M, NEW K, Good(s, M, K), NEW g \in Groups
  PROVE  Good(GroupHide(s, g), M, K)
BY MembersKnown, HideAllGood DEF GroupHide

\* The sticky clients are known.
LEMMA StickyKnown ==
  ASSUME NEW s, NEW M, NEW K, Good(s, M, K)
  PROVE  StickyClients(s) \subseteq K \cup Fakes
BY DEF StickyClients, Good

\* group_show moves the sticky clients, which leave the list they were in.
LEMMA GroupShowGood ==
  ASSUME NEW s, NEW M, NEW K, Good(s, M, K), NEW g \in Groups
  PROVE  Good(GroupShow(s, g), M, K)
<1> DEFINE t == UnhideAll(s, s.members[g])
<1>1. Good(t, M, K)
  BY MembersKnown, UnhideAllGood
<1> HIDE DEF t
<1>2. Good(AssignAll(t, StickyClients(t), g), M, K)
  BY <1>1, StickyKnown, ReassignGood
<1> QED
  BY <1>2 DEF GroupShow, t

\* An assignment to hidden_groups changes no list.
LEMMA HiddenGroupsGood ==
  ASSUME NEW s, NEW M, NEW K, Good(s, M, K), NEW H \in SUBSET Groups
  PROVE  Good([s EXCEPT !.hidden_groups = H], M, K)
<1> DEFINE t == [s EXCEPT !.hidden_groups = H]
<1>0. s \in State
  BY KnownType
<1>1. /\ t \in State
      /\ t.clientq = s.clientq /\ t.curcc = s.curcc /\ t.flags = s.flags
      /\ t.members = s.members /\ t.group = s.group
  BY <1>0 DEF State
<1> HIDE DEF t
<1> QED
  BY <1>1, SameLists DEF t

\* group_hidetoggle.
LEMMA GroupHideToggleGood ==
  ASSUME NEW s, NEW M, NEW K, Good(s, M, K), NEW g \in Groups
  PROVE  Good(GroupHideToggle(s, g), M, K)
<1> DEFINE t == GroupShow(s, g)
           u == GroupHide(s, g)
<1>1. Good(t, M, K) /\ Good(u, M, K)
  BY GroupShowGood, GroupHideGood
<1> HIDE DEF t, u
<1>2. t.hidden_groups \ {g} \subseteq Groups /\ u.hidden_groups \cup {g} \subseteq Groups
  BY <1>1, KnownType DEF State
<1>3. /\ Good([t EXCEPT !.hidden_groups = t.hidden_groups \ {g}], M, K)
      /\ Good([u EXCEPT !.hidden_groups = u.hidden_groups \cup {g}], M, K)
  BY <1>1, <1>2, HiddenGroupsGood
<1>4. GroupHideToggle(s, g) =
        IF g \in s.hidden_groups
          THEN [t EXCEPT !.hidden_groups = t.hidden_groups \ {g}]
          ELSE [u EXCEPT !.hidden_groups = u.hidden_groups \cup {g}]
  <2>1. /\ [t EXCEPT !.hidden_groups = @ \ {g}]
             = [t EXCEPT !.hidden_groups = t.hidden_groups \ {g}]
        /\ [u EXCEPT !.hidden_groups = @ \cup {g}]
             = [u EXCEPT !.hidden_groups = u.hidden_groups \cup {g}]
    BY <1>1, KnownType DEF State
  <2> QED
    BY <2>1 DEF GroupHideToggle, t, u
<1> QED
  BY <1>3, <1>4

\* The members of any number of groups are known.
LEMMA AllMembersKnown ==
  ASSUME NEW s, NEW M, NEW K, Good(s, M, K), NEW G \in SUBSET Groups
  PROVE  UNION {s.members[h] : h \in G} \subseteq K \cup Fakes
<1>1. \A h \in G : s.members[h] \subseteq K \cup Fakes
  BY MembersKnown
<1> QED
  BY <1>1

\* group_only.
LEMMA GroupOnlyGood ==
  ASSUME NEW s, NEW M, NEW K, Good(s, M, K), NEW g \in Groups
  PROVE  Good(GroupOnly(s, g), M, K)
<1> DEFINE W == UNION {s.members[h] : h \in Groups \ {g}}
           t == HideAll(s, W)
<1>1. W \subseteq K \cup Fakes
  BY AllMembersKnown
<1> HIDE DEF W
<1>2. Good(t, M, K)
  BY <1>1, HideAllGood
<1> HIDE DEF t
<1>3. Good(GroupShow(GroupSetActive(t, g), g), M, K)
  BY <1>2, GroupSetActiveGood, GroupShowGood
<1> QED
  BY <1>3 DEF GroupOnly, t, W

\* group_cycle: adding a direction modulo NGROUPS gives a group.
LEMMA CycleGroupGood ==
  ASSUME NEW s, NEW M, NEW K, Good(s, M, K), NEW dir \in {1, -1}
  PROVE  Good(CycleGroup(s, dir), M, K)
<1> DEFINE a == s.group_current + dir
<1>1. a \in Int
  BY KnownType, ClientsAssumption DEF State, Groups
<1> HIDE DEF a
<1>2. a % NGROUPS \in Groups
  BY <1>1, ClientsAssumption DEF Groups
<1>3. Good(GroupOnly(s, a % NGROUPS), M, K)
  BY <1>2, GroupOnlyGood
<1> QED
  BY <1>3 DEF CycleGroup, a

\* group_alltoggle.
LEMMA GroupAllToggleGood ==
  ASSUME NEW s, NEW M, NEW K, Good(s, M, K)
  PROVE  Good(GroupAllToggle(s), M, K)
<1> DEFINE full  == {g \in Groups : s.members[g] # {}}
           solid == {g \in full : ~(s.members[g] \subseteq StickyClients(s))}
           first == {g \in full : \A h \in full : g <= h}
           shown == solid \cup first
           last  == {g \in shown : \A h \in shown : h <= g}
           all   == UNION {s.members[g] : g \in full}
           toggled == [s EXCEPT !.hideall = ~@]
           t == UnhideAll(toggled, all)
<1>1. all \subseteq K \cup Fakes
  <2> DEFINE G == full
  <2>1. G \in SUBSET Groups
    OBVIOUS
  <2> HIDE DEF G
  <2>2. UNION {s.members[g] : g \in G} \subseteq K \cup Fakes
    BY <2>1, AllMembersKnown
  <2> QED
    BY <2>2 DEF G
<1>2. last \subseteq Groups
  OBVIOUS
<1>3. GroupAllToggle(s) =
        IF ~s.hideall THEN HideAll(toggled, all)
        ELSE IF last = {} THEN t
             ELSE AssignAll(t, StickyClients(t), CHOOSE g \in last : TRUE)
  BY DEF GroupAllToggle
<1> HIDE DEF last, all
<1>4. Good(toggled, M, K)
  <2>0. s \in State
    BY KnownType
  <2>1. /\ toggled \in State
        /\ toggled.clientq = s.clientq /\ toggled.curcc = s.curcc
        /\ toggled.flags = s.flags
        /\ toggled.members = s.members /\ toggled.group = s.group
    BY <2>0 DEF State
  <2> HIDE DEF toggled
  <2> QED
    BY <2>1, SameLists
<1> HIDE DEF toggled
<1>5. Good(HideAll(toggled, all), M, K) /\ Good(t, M, K)
  BY <1>1, <1>4, HideAllGood, UnhideAllGood
<1> HIDE DEF t
<1>6. ASSUME last # {}
      PROVE  Good(AssignAll(t, StickyClients(t), CHOOSE g \in last : TRUE), M, K)
  <2>1. (CHOOSE g \in last : TRUE) \in Groups
    BY <1>2, <1>6
  <2>2. StickyClients(t) \in SUBSET (K \cup Fakes)
    BY <1>5, StickyKnown
  <2> QED
    BY <1>5, <2>1, <2>2, ReassignGood
<1> QED
  BY <1>3, <1>5, <1>6

----------------------------------------------------------------------------
(* The handlers of xevents.c.                                              *)

\* xu_ewmh_handle_net_wm_state_msg.
LEMMA NetWmStateGood ==
  ASSUME NEW s, NEW M, NEW K, Good(s, M, K), NEW w \in K, NEW action, NEW atoms
  PROVE  Good(NetWmState(s, w, action, atoms), M, K)
<1> DEFINE Due(t, a) == /\ a \in atoms
                        /\ \/ action = "add" /\ ~Has(t, w, a)
                           \/ action = "remove" /\ Has(t, w, a)
                           \/ action = "toggle"
           t1 == IF Due(s, "STICKY") THEN ToggleSticky(s, w) ELSE s
<1>1. Good(t1, M, K)
  BY ToggleStickyGood
<1>2. NetWmState(s, w, action, atoms)
        = IF Due(t1, "HIDDEN") THEN ToggleHidden(t1, w) ELSE t1
  BY DEF NetWmState
<1> HIDE DEF t1
<1> QED
  BY <1>1, <1>2, ToggleHiddenGood

\* xev_handle_maprequest manages the window it is given, or dies of it.
LEMMA MapRequestedGood ==
  ASSUME NEW s, NEW M, Good(s, M, M), NEW w \in Windows,
         NEW hint \in {"none", "Normal", "Iconic"}, NEW atoms
  PROVE  \E N : Good(MapRequested(s, w, hint, atoms), N, N)
<1>1. Managed(s) = M
  BY DEF Good
<1>2. CASE w \notin M /\ s.app[w] = "gone"
  <2> DEFINE t == [s EXCEPT !.alive = FALSE]
  <2>0. s \in State
    BY KnownType
  <2>1. /\ t \in State
        /\ t.clientq = s.clientq /\ t.curcc = s.curcc /\ t.flags = s.flags
        /\ t.members = s.members /\ t.group = s.group
    BY <2>0 DEF State
  <2>2. MapRequested(s, w, hint, atoms) = t
    BY <1>1, <1>2 DEF MapRequested
  <2> HIDE DEF t
  <2> QED
    BY <2>1, <2>2, SameLists
<1>3. CASE w \in M
  <2>1. MapRequested(s, w, hint, atoms)
          = IF Has(s, w, "IGNORE") THEN s ELSE PtrWarp(s, w)
    BY <1>1, <1>3 DEF MapRequested
  <2> QED
    BY <1>3, <2>1, PtrWarpGood
<1>4. CASE w \notin M /\ s.app[w] # "gone"
  <2> DEFINE t == ClientInit(s, w, hint, atoms)
             N == M \cup {w}
  <2>1. Good(t, N, N)
    BY <1>4, ClientInitGood
  <2>2. MapRequested(s, w, hint, atoms)
          = IF Has(t, w, "IGNORE") THEN t ELSE PtrWarp(t, w)
    BY <1>1, <1>4 DEF MapRequested
  <2> HIDE DEF t
  <2>3. w \in N
    OBVIOUS
  <2> HIDE DEF N
  <2>4. Good(PtrWarp(t, w), N, N)
    BY <2>1, <2>3, PtrWarpGood
  <2> QED
    BY <2>1, <2>2, <2>4
<1> QED
  BY <1>2, <1>3, <1>4

----------------------------------------------------------------------------
(* The actions.  Every handler takes the state S of cwm and the server to  *)
(* a state t that a lemma above knows to be good, and Become(t) makes it   *)
(* the next one.                                                           *)

IInv == Good(S, Managed(S), Managed(S))

\* Become(t) makes a good state t the next state.
LEMMA BecomeGood ==
  ASSUME NEW t, NEW N, Good(t, N, N), Become(t)
  PROVE  IInv'
<1>1. t \in State /\ Managed(t) = N
  BY DEF Good
<1>2. S' = t
  BY <1>1 DEF Become, S, State
<1> QED
  BY <1>1, <1>2 DEF IInv

\* ... and only client_init makes a window managed: every other handler keeps
\* the invariant and manages no window that was not managed before.
Kept == IInv' /\ Managed(S)' \subseteq Managed(S)

\* Leaving a good state with no window more keeps it.
LEMMA BecomeKept ==
  ASSUME NEW t, NEW N, Good(t, N, N), N \subseteq Managed(S), Become(t)
  PROVE  Kept
<1>1. t \in State /\ Managed(t) = N
  BY DEF Good
<1>2. S' = t
  BY <1>1 DEF Become, S, State
<1>3. Managed(S)' = N
  BY <1>1, <1>2
<1> QED
  BY <1>3, BecomeGood DEF Kept

\* The invariant gives the current state to the lemmas.
LEMMA Current ==
  ASSUME IInv
  PROVE  /\ S \in State
         /\ Good(S, Managed(S), Managed(S))
         /\ Managed(S) \subseteq Windows
         /\ S.curcc = curcc /\ S.flags = flags /\ S.evq = evq
         /\ S.group = group /\ S.group_current = group_current
         /\ S.app = app /\ S.mapped = mapped
BY KnownType DEF IInv, S

\* A step that leaves cwm's memory alone.
LEMMA ServerGood ==
  ASSUME IInv, NEW t \in State,
         t.clientq = S.clientq, t.curcc = S.curcc, t.flags = S.flags,
         t.members = S.members, t.group = S.group
  PROVE  Good(t, Managed(S), Managed(S))
BY SameLists DEF IInv

\* The events of a window.
LEMMA EventType ==
  ASSUME NEW w \in Windows, NEW type \in EventTypes
  PROVE  Event(type, w) \in [type : EventTypes, win : Windows]
BY DEF Event

\* AppCreate keeps the invariant: cwm does not know the window yet.
LEMMA AppCreateGood ==
  ASSUME IInv, NEW w \in Windows, NEW g \in Groups \cup {NoGroup}, AppCreate(w, g)
  PROVE  Kept
<1> DEFINE t == [S EXCEPT !.app[w] = "withdrawn", !.wm_desktop[w] = g]
<1>1. S \in State
  BY Current
<1>2. /\ t \in State
      /\ t.clientq = S.clientq /\ t.curcc = S.curcc /\ t.flags = S.flags
      /\ t.members = S.members /\ t.group = S.group
  <2> DEFINE a == [S.app EXCEPT ![w] = "withdrawn"]
             d == [S.wm_desktop EXCEPT ![w] = g]
  <2>1. /\ a \in [Windows -> {"gone", "withdrawn", "shown"}]
        /\ d \in [Windows -> Groups \cup {NoGroup}]
    BY <1>1 DEF State
  <2>2. t = [S EXCEPT !.app = a, !.wm_desktop = d]
    BY <1>1 DEF State
  <2> HIDE DEF a, d, t
  <2> QED
    BY <1>1, <2>1, <2>2 DEF State
<1>3. Become(t)
  BY DEF AppCreate
<1> HIDE DEF t
<1> QED
  BY <1>2, <1>3, ServerGood, BecomeKept

\* AppMap keeps the invariant: it only sends an event.
LEMMA AppMapGood ==
  ASSUME IInv, NEW w \in Windows, AppMap(w)
  PROVE  Kept
<1> DEFINE t == [S EXCEPT !.app[w] = "shown",
                          !.evq = Append(@, Event("MapRequest", w))]
<1>1. S \in State
  BY Current
<1>2. /\ t \in State
      /\ t.clientq = S.clientq /\ t.curcc = S.curcc /\ t.flags = S.flags
      /\ t.members = S.members /\ t.group = S.group
  <2> DEFINE a == [S.app EXCEPT ![w] = "shown"]
             e == Append(S.evq, Event("MapRequest", w))
  <2>1. a \in [Windows -> {"gone", "withdrawn", "shown"}]
    BY <1>1 DEF State
  <2>2. e \in Seq([type : EventTypes, win : Windows])
    <3>1. Event("MapRequest", w) \in [type : EventTypes, win : Windows]
      BY EventType DEF EventTypes
    <3>2. S.evq \in Seq([type : EventTypes, win : Windows])
      BY <1>1 DEF State
    <3> QED
      BY <3>1, <3>2, AppendProperties
  <2>3. t = [S EXCEPT !.app = a, !.evq = e]
    BY <1>1 DEF State
  <2> HIDE DEF a, e, t
  <2> QED
    BY <1>1, <2>1, <2>2, <2>3 DEF State
<1>3. Become(t)
  BY DEF AppMap
<1> HIDE DEF t
<1> QED
  BY <1>2, <1>3, ServerGood, BecomeKept

\* A queue of events, then at most one more.
LEMMA SendType ==
  ASSUME NEW q \in Seq([type : EventTypes, win : Windows]),
         NEW w \in Windows, NEW type \in EventTypes, NEW b \in BOOLEAN
  PROVE  q \o (IF b THEN <<Event(type, w)>> ELSE <<>>)
           \in Seq([type : EventTypes, win : Windows])
<1> DEFINE E == [type : EventTypes, win : Windows]
<1>1. Event(type, w) \in E
  BY EventType
<1> HIDE DEF E
<1>2. <<Event(type, w)>> \in Seq(E) /\ <<>> \in Seq(E)
  BY <1>1
<1>3. q \in Seq(E)
  BY DEF E
<1>4. \A r \in Seq(E) : q \o r \in Seq(E)
  BY <1>3, ConcatProperties
<1> QED
  BY <1>2, <1>4 DEF E

\* AppUnmap keeps the invariant: cwm learns of it from the event.
LEMMA AppUnmapGood ==
  ASSUME IInv, NEW w \in Windows, NEW b \in BOOLEAN, AppUnmap(w, b)
  PROVE  Kept
<1> DEFINE e1 == S.evq \o (IF mapped[w] THEN <<Event("UnmapNotify", w)>> ELSE <<>>)
           e2 == e1 \o (IF b THEN <<Event("SendUnmap", w)>> ELSE <<>>)
           a == [S.app EXCEPT ![w] = "withdrawn"]
           m == [S.mapped EXCEPT ![w] = FALSE]
           t == [S EXCEPT !.app = a, !.mapped = m, !.evq = e2]
<1>1. S \in State /\ S.mapped = mapped
  BY Current
<1>2. e2 \in Seq([type : EventTypes, win : Windows])
  <2>1. S.evq \in Seq([type : EventTypes, win : Windows]) /\ mapped[w] \in BOOLEAN
    BY <1>1 DEF State
  <2>2. e1 \in Seq([type : EventTypes, win : Windows])
    BY <2>1, SendType DEF EventTypes
  <2> HIDE DEF e1
  <2> QED
    BY <2>2, SendType DEF EventTypes
<1>3. /\ a \in [Windows -> {"gone", "withdrawn", "shown"}]
      /\ m \in [Windows -> BOOLEAN]
  BY <1>1 DEF State
<1>4. Become(t)
  <2>1. AppUnmap(w, b) =>
          Become([S EXCEPT !.app[w] = "withdrawn", !.mapped[w] = FALSE, !.evq = e2])
    BY DEF AppUnmap
  <2>2. [S EXCEPT !.app[w] = "withdrawn", !.mapped[w] = FALSE, !.evq = e2] = t
    BY <1>1 DEF State
  <2> HIDE DEF t, e2
  <2> QED
    BY <2>1, <2>2
<1> HIDE DEF a, m, e1, e2
<1>5. /\ t \in State
      /\ t.clientq = S.clientq /\ t.curcc = S.curcc /\ t.flags = S.flags
      /\ t.members = S.members /\ t.group = S.group
  BY <1>1, <1>2, <1>3 DEF State
<1> HIDE DEF t
<1> QED
  BY <1>4, <1>5, ServerGood, BecomeKept

\* AppDestroy keeps the invariant: cwm learns of it from the event.
LEMMA AppDestroyGood ==
  ASSUME IInv, NEW w \in Windows, AppDestroy(w)
  PROVE  Kept
<1> DEFINE e1 == S.evq \o (IF mapped[w] THEN <<Event("UnmapNotify", w)>> ELSE <<>>)
           e2 == e1 \o <<Event("DestroyNotify", w)>>
           a == [S.app EXCEPT ![w] = "gone"]
           m == [S.mapped EXCEPT ![w] = FALSE]
           p == [S.wm_state EXCEPT ![w] = "none"]
           d == [S.wm_desktop EXCEPT ![w] = NoGroup]
           t == [S EXCEPT !.app = a, !.mapped = m, !.wm_state = p,
                          !.wm_desktop = d, !.evq = e2]
<1>1. S \in State /\ S.mapped = mapped
  BY Current
<1>2. e2 \in Seq([type : EventTypes, win : Windows])
  <2>1. S.evq \in Seq([type : EventTypes, win : Windows]) /\ mapped[w] \in BOOLEAN
    BY <1>1 DEF State
  <2>2. e1 \in Seq([type : EventTypes, win : Windows])
    BY <2>1, SendType DEF EventTypes
  <2> HIDE DEF e1
  <2>3. e1 \o (IF TRUE THEN <<Event("DestroyNotify", w)>> ELSE <<>>)
          \in Seq([type : EventTypes, win : Windows])
    BY <2>2, SendType DEF EventTypes
  <2> QED
    BY <2>3
<1>3. /\ a \in [Windows -> {"gone", "withdrawn", "shown"}]
      /\ m \in [Windows -> BOOLEAN]
      /\ p \in [Windows -> {"none", "Normal", "Iconic", "Withdrawn"}]
      /\ d \in [Windows -> Groups \cup {NoGroup}]
  BY <1>1 DEF State
<1>4. Become(t)
  <2>1. AppDestroy(w) =>
          Become([S EXCEPT !.app[w] = "gone", !.mapped[w] = FALSE,
                           !.wm_state[w] = "none", !.wm_desktop[w] = NoGroup,
                           !.evq = e2])
    BY DEF AppDestroy
  <2>2. [S EXCEPT !.app[w] = "gone", !.mapped[w] = FALSE,
                  !.wm_state[w] = "none", !.wm_desktop[w] = NoGroup,
                  !.evq = e2] = t
    BY <1>1 DEF State
  <2> HIDE DEF t, e2
  <2> QED
    BY <2>1, <2>2
<1> HIDE DEF a, m, p, d, e1, e2
<1>5. /\ t \in State
      /\ t.clientq = S.clientq /\ t.curcc = S.curcc /\ t.flags = S.flags
      /\ t.members = S.members /\ t.group = S.group
  BY <1>1, <1>2, <1>3 DEF State
<1> HIDE DEF t
<1> QED
  BY <1>4, <1>5, ServerGood, BecomeKept

\* Reading an event leaves the rest of the state good.
LEMMA RestGood ==
  ASSUME IInv, evq # <<>>
  PROVE  Good(Rest, Managed(S), Managed(S))
<1>1. S \in State /\ S.evq = evq
  BY Current
<1>2. Tail(S.evq) \in Seq([type : EventTypes, win : Windows])
  BY <1>1 DEF State
<1> DEFINE t == [S EXCEPT !.evq = Tail(S.evq)]
<1>3. /\ t \in State
      /\ t.clientq = S.clientq /\ t.curcc = S.curcc /\ t.flags = S.flags
      /\ t.members = S.members /\ t.group = S.group
  BY <1>1, <1>2 DEF State
<1>4. Rest = t
  BY <1>1 DEF Rest, State
<1> HIDE DEF t
<1> QED
  BY <1>3, <1>4, ServerGood

\* xev_handle_maprequest.
LEMMA HandleMapRequestGood ==
  ASSUME IInv, NEW w \in Windows, HandleMapRequest(w)
  PROVE  IInv'
<1>1. PICK hint \in {"none", "Normal", "Iconic"}, atoms \in SUBSET Atoms :
        Become(MapRequested(Rest, w, hint, atoms))
  BY DEF HandleMapRequest
<1>2. Good(Rest, Managed(S), Managed(S))
  BY RestGood DEF HandleMapRequest, Next_Event
<1>3. PICK N : Good(MapRequested(Rest, w, hint, atoms), N, N)
  BY <1>2, MapRequestedGood
<1> QED
  BY <1>1, <1>3, BecomeGood

\* xev_handle_unmapnotify and xev_handle_destroynotify.
LEMMA HandleDeleteGood ==
  ASSUME IInv, NEW w \in Windows,
         HandleUnmapNotify(w) \/ HandleDestroyNotify(w)
  PROVE  Kept
<1>1. Good(Rest, Managed(S), Managed(S))
  BY RestGood DEF HandleUnmapNotify, HandleDestroyNotify, Next_Event
<1>2. w \in Managed(S) => Good(Delete(Rest, w), Managed(S) \ {w}, Managed(S) \ {w})
  BY <1>1, DeleteGood
<1>3. Become(Rest) \/ (w \in Managed(S) /\ Become(Delete(Rest, w)))
  BY DEF HandleUnmapNotify, HandleDestroyNotify
<1>4. CASE Become(Rest)
  BY <1>1, <1>4, BecomeKept
<1>5. CASE w \in Managed(S) /\ Become(Delete(Rest, w))
  BY <1>2, <1>5, BecomeKept
<1> QED
  BY <1>3, <1>4, <1>5

\* xev_handle_unmapnotify of a synthetic event.
LEMMA HandleSendUnmapGood ==
  ASSUME IInv, NEW w \in Windows, HandleSendUnmap(w)
  PROVE  Kept
<1> DEFINE p == SetProperty(S, Rest.wm_state, {w}, "Withdrawn")
           t == [Rest EXCEPT !.wm_state = p]
<1>1. Good(Rest, Managed(S), Managed(S)) /\ Rest \in State
  BY RestGood, KnownType DEF HandleSendUnmap, Next_Event
<1>2. p \in [Windows -> {"none", "Normal", "Iconic", "Withdrawn"}]
  <2>1. Rest.wm_state \in [Windows -> {"none", "Normal", "Iconic", "Withdrawn"}]
    BY <1>1 DEF State
  <2> QED
    BY <2>1, SetPropertyType
<1>3. Become(Rest) \/ Become(t)
  <2>1. [Rest EXCEPT !.wm_state = SetProperty(S, @, {w}, "Withdrawn")] = t
    BY <1>1 DEF State
  <2> HIDE DEF t
  <2> QED
    BY <2>1 DEF HandleSendUnmap
<1> HIDE DEF p
<1>4. /\ t \in State
      /\ t.clientq = Rest.clientq /\ t.curcc = Rest.curcc
      /\ t.flags = Rest.flags
      /\ t.members = Rest.members /\ t.group = Rest.group
  BY <1>1, <1>2 DEF State
<1> HIDE DEF t
<1>5. Good(t, Managed(S), Managed(S))
  BY <1>1, <1>4, SameLists
<1>6. CASE Become(Rest)
  BY <1>1, <1>6, BecomeKept
<1>7. CASE Become(t)
  BY <1>5, <1>7, BecomeKept
<1> QED
  BY <1>3, <1>6, <1>7

\* xev_handle_enternotify for the root window: the flag goes with the focus.
LEMMA HandleEnterRootGood ==
  ASSUME IInv, HandleEnterRoot
  PROVE  Kept
<1> DEFINE F == [S.flags EXCEPT ![curcc] = @ \ {"ACTIVE"}]
           t == [S EXCEPT !.flags = F, !.net_active = NoClient, !.curcc = NoClient]
<1>1. S \in State /\ Good(S, Managed(S), Managed(S)) /\ S.curcc = curcc
  BY Current
<1>2. curcc \in Managed(S) /\ curcc \in Windows /\ curcc \in Clients
  BY <1>1, KnownType DEF HandleEnterRoot, Good, Clients
<1>3. Become(t)
  <2>1. None([S EXCEPT !.flags[curcc] = @ \ {"ACTIVE"}]) = t
    BY <1>1 DEF None, State
  <2> HIDE DEF t
  <2> QED
    BY <2>1 DEF HandleEnterRoot
<1>4. F \in [Clients -> SUBSET Flags]
  BY <1>1, <1>2 DEF State
<1>5. \A c \in Clients : F[c] = IF c = curcc THEN S.flags[c] \ {"ACTIVE"}
                                ELSE S.flags[c]
  BY <1>1, <1>2 DEF State
<1> HIDE DEF F
<1>6. /\ t \in State
      /\ t.clientq = S.clientq /\ t.curcc = NoClient /\ t.flags = F
      /\ t.members = S.members /\ t.group = S.group
  BY <1>1, <1>4 DEF State
<1> HIDE DEF t
<1>7. \A c \in Clients : ~Has(t, c, "ACTIVE") /\ c # NoClient
  <2>1. \A c \in Clients : "ACTIVE" \in S.flags[c] => c = curcc
    BY <1>1 DEF Good, Has
  <2>2. \A c \in Clients : "ACTIVE" \notin F[c]
    BY <1>5, <2>1
  <2>3. \A c \in Clients : c # NoClient
    BY ClientsAssumption
  <2> QED
    BY <1>6, <2>2, <2>3 DEF Has
<1>8. \A w \in Windows \ Managed(S) : t.flags[w] = S.flags[w]
  BY <1>2, <1>5, <1>6 DEF Clients
<1>9. Good(t, Managed(S), Managed(S))
  BY <1>1, <1>6, <1>7, <1>8 DEF Good, Managed
<1> QED
  BY <1>3, <1>9, BecomeKept

\* The pointer.
LEMMA PointerGood ==
  ASSUME IInv, Pointer
  PROVE  Kept
<1>1. CASE HandleEnterRoot
  BY <1>1, HandleEnterRootGood
<1>2. ASSUME NEW w \in Windows, HandleEnter(w)
      PROVE  Kept
  <2>1. Good(SetActive(S, w), Managed(S), Managed(S))
    BY <1>2, Current, SetActiveGood DEF HandleEnter
  <2> QED
    BY <1>2, <2>1, BecomeKept DEF HandleEnter
<1> QED
  BY <1>1, <1>2 DEF Pointer

\* A handler of a command or a message that leads to a good state.
LEMMA HandleKept ==
  ASSUME NEW t, Good(t, Managed(S), Managed(S)), Handle(t)
  PROVE  Kept
BY BecomeKept DEF Handle

\* A command acts on a managed client or on a phantom.
LEMMA TargetsKnown ==
  ASSUME IInv
  PROVE  /\ Pointed \subseteq Managed(S)
         /\ Targets \subseteq Managed(S) \cup Fakes
BY DEF Pointed, Targets

\* The commands of kbfunc.c and mousefunc.c.
LEMMA CommandGood ==
  ASSUME IInv, Command
  PROVE  Kept
<1> DEFINE M == Managed(S)
<1>1. S \in State /\ Good(S, M, M) /\ M \subseteq Windows
      /\ S.group = group /\ S.group_current = group_current
  BY Current
<1>2. Pointed \subseteq M /\ Targets \subseteq M \cup Fakes
  BY TargetsKnown
<1>3. ASSUME NEW c \in Clients, KbHide(c)
      PROVE  Kept
  BY <1>1, <1>2, <1>3, HideAllGood, HandleKept DEF KbHide, Hide
<1>4. ASSUME NEW c \in Clients, KbToggleSticky(c)
      PROVE  Kept
  BY <1>1, <1>2, <1>4, ToggleStickyGood, HandleKept DEF KbToggleSticky
<1>5. ASSUME NEW c \in Clients, KbGroupToggle(c)
      PROVE  Kept
  BY <1>1, <1>2, <1>5, ToggleMembershipGood, HandleKept DEF KbGroupToggle
<1>6. ASSUME NEW c \in Clients, NEW g \in Groups, KbMoveToGroup(c, g)
      PROVE  Kept
  BY <1>1, <1>2, <1>6, MoveToGroupGood, HandleKept DEF KbMoveToGroup
<1>7. ASSUME NEW g \in Groups, KbGroup(g)
      PROVE  Kept
  BY <1>1, <1>7, GroupHideToggleGood, HandleKept DEF KbGroup
<1>8. ASSUME NEW g \in Groups, KbGroupOnly(g)
      PROVE  Kept
  BY <1>1, <1>8, GroupOnlyGood, HandleKept DEF KbGroupOnly
<1>9. ASSUME NEW g \in Groups, MenuGroup(g)
      PROVE  Kept
  <2>1. Good(GroupShow(S, g), M, M) /\ Good(GroupHide(S, g), M, M)
    BY <1>1, GroupShowGood, GroupHideGood
  <2> QED
    BY <1>9, <2>1, HandleKept DEF MenuGroup
<1>10. ASSUME NEW g \in Groups, MouseMenuGroup(g)
       PROVE  Kept
  BY <1>9, <1>10 DEF MouseMenuGroup
<1>11. ASSUME NEW dir \in {1, -1}, KbCycleGroup(dir)
       PROVE  Kept
  BY <1>1, <1>11, CycleGroupGood, HandleKept DEF KbCycleGroup
<1>12. ASSUME NEW dir \in {1, -1}, NEW b \in BOOLEAN, KbCycle(dir, b)
       PROVE  Kept
  BY <1>1, <1>12, CycleGood, HandleKept DEF KbCycle
<1>13. CASE KbNoGroup
  BY <1>1, <1>13, GroupAllToggleGood, HandleKept DEF KbNoGroup
<1>14. CASE KeyRelease
  BY <1>1, <1>14, CycleLeaveGood, HandleKept DEF KeyRelease
<1>15. ASSUME NEW w \in Windows, MenuUnhide(w)
       PROVE  Kept
  <2>1. w \in M
    BY <1>15 DEF MenuUnhide, M
  <2>2. Good(Unhide(S, w), M, M)
    BY <1>1, <2>1, UnhideAllGood DEF Unhide
  <2>3. Good(Unhidden(w), M, M)
    BY <2>1, <2>2, PtrWarpGood DEF Unhidden
  <2> QED
    BY <1>15, <2>3, HandleKept DEF MenuUnhide
<1>16. ASSUME NEW w \in Windows, Search(w)
       PROVE  Kept
  <2> DEFINE u == IF Has(S, w, "HIDDEN") THEN Unhide(S, w) ELSE S
             t == PtrWarp(u, w)
             v == GroupHide(t, t.group_current)
  <2>1. w \in M
    BY <1>16 DEF Search, M
  <2>2. Good(u, M, M)
    BY <1>1, <2>1, UnhideAllGood DEF Unhide
  <2>3. Handle(GroupSetActive(v, t.group[w]))
    BY <1>16 DEF Search
  <2> HIDE DEF u
  <2>4. Good(t, M, M)
    BY <2>1, <2>2, PtrWarpGood
  <2> HIDE DEF t
  <2>5. t.group_current \in Groups /\ t.group[w] \in Groups
    BY <1>1, <2>1, <2>4 DEF Good, State
  <2>6. Good(v, M, M)
    BY <2>4, <2>5, GroupHideGood
  <2> HIDE DEF v
  <2>7. Good(GroupSetActive(v, t.group[w]), M, M)
    BY <2>5, <2>6, GroupSetActiveGood
  <2> QED
    BY <2>3, <2>7, HandleKept
<1>17. CASE \E c \in Clients : KbHide(c) \/ KbToggleSticky(c) \/ KbGroupToggle(c)
  BY <1>17, <1>3, <1>4, <1>5
<1>18. CASE \E c \in Clients, g \in Groups : KbMoveToGroup(c, g)
  BY <1>18, <1>6
<1>19. CASE \E g \in Groups : KbGroup(g) \/ KbGroupOnly(g)
                              \/ MenuGroup(g) \/ MouseMenuGroup(g)
  BY <1>19, <1>7, <1>8, <1>9, <1>10
<1>20. CASE \E dir \in {1, -1} : KbCycleGroup(dir) \/ KbCycle(dir, TRUE)
                                                   \/ KbCycle(dir, FALSE)
  BY <1>20, <1>11, <1>12
<1>21. CASE \E w \in Windows : MenuUnhide(w) \/ Search(w)
  BY <1>21, <1>15, <1>16
<1> QED
  BY <1>13, <1>14, <1>17, <1>18, <1>19, <1>20, <1>21 DEF Command

\* The messages of xev_handle_clientmessage, and WM_TRANSIENT_FOR.
LEMMA MessageGood ==
  ASSUME IInv, Message
  PROVE  Kept
<1> DEFINE M == Managed(S)
<1>1. S \in State /\ Good(S, M, M) /\ M \subseteq Windows
  BY Current
<1>2. ASSUME NEW w \in Windows, MsgIconify(w)
      PROVE  Kept
  <2>1. Good(Hide(S, w), M, M)
    BY <1>1, <1>2, HideAllGood DEF MsgIconify, Hide
  <2> QED
    BY <1>2, <2>1, HandleKept DEF MsgIconify
<1>3. ASSUME NEW w \in Windows, PropertyTransient(w)
      PROVE  Kept
  BY <1>1, <1>3, TransientGood, HandleKept DEF PropertyTransient
<1>4. ASSUME NEW w \in Windows, NEW g \in Groups, MsgDesktop(w, g)
      PROVE  Kept
  BY <1>1, <1>4, MoveToGroupGood, HandleKept DEF MsgDesktop
<1>5. ASSUME NEW w \in Windows, NEW action, NEW atoms, MsgState(w, action, atoms)
      PROVE  Kept
  <2>1. Good(NetWmState(S, w, action, atoms), M, M)
    BY <1>1, <1>5, NetWmStateGood DEF MsgState
  <2> QED
    BY <1>5, <2>1, HandleKept DEF MsgState
<1>6. ASSUME NEW g \in Groups, MsgCurrentDesktop(g)
      PROVE  Kept
  BY <1>1, <1>6, GroupOnlyGood, HandleKept DEF MsgCurrentDesktop
<1> QED
  BY <1>2, <1>3, <1>4, <1>5, <1>6 DEF Message

\* group_init and the empty lists of a new screen.
LEMMA InitGood ==
  ASSUME Init
  PROVE  IInv
<1>1. FirstGroup \in Groups /\ NoGroup \notin Groups /\ NoClient \notin Clients
  BY ClientsAssumption DEF FirstGroup, Groups, NoGroup
<1>2. /\ clientq = <<>> /\ evq = <<>> /\ curcc = NoClient /\ alive = TRUE
      /\ flags = [c \in Clients |-> {}] /\ group = [c \in Clients |-> NoGroup]
      /\ members = [g \in Groups |-> {}]
  BY DEF Init
<1>3. S \in State
  <2>1. <<>> \in Seq(Windows) /\ <<>> \in Seq([type : EventTypes, win : Windows])
    OBVIOUS
  <2> QED
    BY <1>1, <2>1 DEF Init, S, State
<1>4. /\ S.clientq = <<>> /\ S.curcc = NoClient
      /\ S.flags = flags /\ S.group = group /\ S.members = members
  BY <1>2 DEF S
<1>5. Managed(S) = {} /\ Unique(S.clientq)
  BY <1>4 DEF Managed, ToSet, Unique
<1>6. \A w \in Windows : w \in Clients
  BY DEF Clients
<1> QED
  BY <1>1, <1>2, <1>3, <1>4, <1>5, <1>6 DEF IInv, Good, Has

\* Every step but that of xev_handle_maprequest.
LEMMA NextKept ==
  ASSUME IInv, [Next]_vars, ~ \E w \in Windows : HandleMapRequest(w)
  PROVE  Kept
<1>1. CASE App
  <2>1. PICK w \in Windows :
          \/ \E g \in Groups \cup {NoGroup} : AppCreate(w, g)
          \/ AppMap(w)
          \/ \E b \in BOOLEAN : AppUnmap(w, b)
          \/ AppDestroy(w)
    BY <1>1 DEF App
  <2> QED
    BY <2>1, AppCreateGood, AppMapGood, AppUnmapGood, AppDestroyGood
<1>2. CASE Structure
  BY <1>2, HandleDeleteGood, HandleSendUnmapGood DEF Structure
<1>3. CASE Pointer
  BY <1>3, PointerGood
<1>4. CASE Command
  BY <1>4, CommandGood
<1>5. CASE Message
  BY <1>5, MessageGood
<1>6. CASE UNCHANGED vars
  <2>1. S' = S
    BY <1>6 DEF S, vars
  <2> QED
    BY <2>1 DEF Kept, IInv
<1> QED
  BY <1>1, <1>2, <1>3, <1>4, <1>5, <1>6 DEF Next

\* Every step keeps the invariant, and so does a stutter.
LEMMA NextGood ==
  ASSUME IInv, [Next]_vars
  PROVE  IInv'
<1>1. CASE \E w \in Windows : HandleMapRequest(w)
  BY <1>1, HandleMapRequestGood
<1>2. CASE ~ \E w \in Windows : HandleMapRequest(w)
  BY <1>2, NextKept DEF Kept
<1> QED
  BY <1>1, <1>2

----------------------------------------------------------------------------
(* The theorems.                                                           *)

\* Every state cwm can be in is good.
THEOREM Invariant == Spec => []IInv
<1>1. Init => IInv
  BY InitGood
<1>2. IInv /\ [Next]_vars => IInv'
  BY NextGood
<1> QED
  BY <1>1, <1>2, PTL DEF Spec

\* Every variable keeps its type, whatever applications and commands do and in
\* whatever order cwm reads its events.
THEOREM TypeCorrect == Spec => []TypeOK
<1>1. IInv => TypeOK
  BY Current DEF TypeOK
<1> QED
  BY <1>1, Invariant, PTL

\* The CLIENT_ACTIVE flag marks the current client and no other, and the
\* current client is managed: no freed client_ctx keeps the focus.
THEOREM ActiveIsCurrentHolds == Spec => []ActiveIsCurrent
<1>1. IInv => ActiveIsCurrent
  BY Current DEF ActiveIsCurrent, Good
<1> QED
  BY <1>1, Invariant, PTL

\* The group lists agree with cc->group, no list holds a client twice, and
\* nothing is remembered of a window that was let go.
THEOREM ListsAgreeHolds == Spec => []ListsAgree
<1>1. /\ S.clientq = clientq /\ S.flags = flags
      /\ S.group = group /\ S.members = members
  BY DEF S
<1>2. IInv => ListsAgree
  BY <1>1 DEF ListsAgree, IInv, Good, Unique
<1> QED
  BY <1>2, Invariant, PTL

----------------------------------------------------------------------------
(* What a pager reads, the recency order and what is on display.           *)

\* The properties of the root window, and the desktop of the windows of K.
View(s, K) ==
  /\ s.net_active = s.curcc
  /\ s.net_desktop = s.group_current
  /\ s.clientq # <<>> => s.net_clients = Managed(s)
  /\ \A w \in K : s.app[w] # "gone" => s.wm_desktop[w] = s.group[w]

\* Outside a cycle the current client heads clientq.
Recent(s) == s.curcc # NoClient /\ ~s.cycling => Head(s.clientq) = s.curcc

\* The HIDDEN flag agrees with the display, unless applications may set it.
Display(s) ==
  "state_hidden" \notin Habits =>
    /\ s.curcc # NoClient => ~Has(s, s.curcc, "HIDDEN")
    /\ \A w \in Windows : Has(s, w, "HIDDEN") => ~s.mapped[w]

\* M is what clientq holds and K the windows in a group, as in Good.
Fine(s, M, K) == Good(s, M, K) /\ View(s, K) /\ Recent(s) /\ Display(s)

\* What every operator but those on clientq and group leaves alone.
SameDesks(s, t) ==
  /\ t.clientq = s.clientq /\ t.net_clients = s.net_clients
  /\ t.group = s.group /\ t.app = s.app /\ t.wm_desktop = s.wm_desktop
  /\ t.group_current = s.group_current /\ t.net_desktop = s.net_desktop

----------------------------------------------------------------------------
(* The operations of client.c.                                             *)

\* A good state that differs in nothing a pager, the recency order or the
\* display speak of.
LEMMA SameFine ==
  ASSUME NEW s, NEW M, NEW K, Fine(s, M, K), NEW t, Good(t, M, K),
         SameDesks(s, t), t.curcc = s.curcc, t.net_active = s.net_active,
         t.cycling = s.cycling, t.mapped = s.mapped,
         "state_hidden" \notin Habits =>
           \A c \in Clients : Has(t, c, "HIDDEN") <=> Has(s, c, "HIDDEN")
  PROVE  Fine(t, M, K)
<1>1. View(t, K)
  BY DEF Fine, View, SameDesks, Managed
<1>2. Recent(t)
  BY DEF Fine, Recent, SameDesks
<1>3. Display(t)
  <2>1. Windows \subseteq Clients /\ (t.curcc # NoClient => t.curcc \in Clients)
    BY DEF Good, Clients
  <2> QED
    BY <2>1 DEF Fine, Display
<1> QED
  BY <1>1, <1>2, <1>3 DEF Fine

\* What client_hide assigns.
LEMMA HideAllFields ==
  ASSUME NEW s \in State, NEW W
  PROVE  LET t == HideAll(s, W)
             L == {c \in W : ~Has(s, c, "STICKY")}
         IN /\ SameDesks(s, t) /\ t.cycling = s.cycling
            /\ t.flags = Reflag(s.flags, L, {"ACTIVE"}, {"HIDDEN"})
            /\ t.mapped = [w \in Windows |-> s.mapped[w] /\ w \notin L]
            /\ t.curcc = IF s.curcc \in L THEN NoClient ELSE s.curcc
            /\ t.net_active = IF s.curcc \in L THEN NoClient ELSE s.net_active
            /\ t.members = s.members /\ t.hideall = s.hideall
BY DEF HideAll, State, SameDesks

\* client_hide: what it hides is unmapped, and loses the focus.
LEMMA HideAllFine ==
  ASSUME NEW s, NEW M, NEW K, Fine(s, M, K), NEW W \in SUBSET (K \cup Fakes)
  PROVE  Fine(HideAll(s, W), M, K)
<1> DEFINE t == HideAll(s, W)
           L == {c \in W : ~Has(s, c, "STICKY")}
<1>1. Good(s, M, K) /\ s \in State /\ Good(t, M, K)
  BY HideAllGood, KnownType DEF Fine
<1>2. /\ SameDesks(s, t) /\ t.cycling = s.cycling
      /\ t.flags = Reflag(s.flags, L, {"ACTIVE"}, {"HIDDEN"})
      /\ t.mapped = [w \in Windows |-> s.mapped[w] /\ w \notin L]
      /\ t.curcc = IF s.curcc \in L THEN NoClient ELSE s.curcc
      /\ t.net_active = IF s.curcc \in L THEN NoClient ELSE s.net_active
  BY <1>1, HideAllFields
<1> HIDE DEF t, L
<1>3. View(t, K)
  BY <1>2 DEF Fine, View, SameDesks, Managed
<1>4. Recent(t)
  BY <1>2 DEF Fine, Recent, SameDesks
<1>5. Display(t)
  <2>1. \A c \in Clients : Has(t, c, "HIDDEN") <=> (Has(s, c, "HIDDEN") \/ c \in L)
    BY <1>2 DEF Has, Reflag
  <2>2. Windows \subseteq Clients /\ (t.curcc # NoClient => t.curcc \in Clients)
    BY <1>1 DEF Good, Clients
  <2> QED
    BY <1>2, <2>1, <2>2 DEF Fine, Display
<1> QED
  BY <1>1, <1>3, <1>4, <1>5 DEF Fine, t

\* What client_unhide assigns.
LEMMA UnhideAllFields ==
  ASSUME NEW s \in State, NEW W
  PROVE  LET t == UnhideAll(s, W)
             L == {c \in W : ~Has(s, c, "STICKY")}
         IN /\ SameDesks(s, t) /\ t.cycling = s.cycling
            /\ t.flags = Reflag(s.flags, L, {"HIDDEN"}, {})
            /\ t.mapped = [w \in Windows |->
                             s.mapped[w] \/ (w \in L /\ s.app[w] # "gone")]
            /\ t.curcc = s.curcc /\ t.net_active = s.net_active
            /\ t.members = s.members /\ t.hideall = s.hideall
BY DEF UnhideAll, State, SameDesks

\* client_unhide: what it maps is hidden no more.
LEMMA UnhideAllFine ==
  ASSUME NEW s, NEW M, NEW K, Fine(s, M, K), NEW W \in SUBSET (K \cup Fakes)
  PROVE  Fine(UnhideAll(s, W), M, K)
<1> DEFINE t == UnhideAll(s, W)
           L == {c \in W : ~Has(s, c, "STICKY")}
<1>1. Good(s, M, K) /\ s \in State /\ Good(t, M, K)
  BY UnhideAllGood, KnownType DEF Fine
<1>2. /\ SameDesks(s, t) /\ t.cycling = s.cycling
      /\ t.flags = Reflag(s.flags, L, {"HIDDEN"}, {})
      /\ t.mapped = [w \in Windows |->
                       s.mapped[w] \/ (w \in L /\ s.app[w] # "gone")]
      /\ t.curcc = s.curcc /\ t.net_active = s.net_active
  BY <1>1, UnhideAllFields
<1> HIDE DEF t, L
<1>3. View(t, K)
  BY <1>2 DEF Fine, View, SameDesks, Managed
<1>4. Recent(t)
  BY <1>2 DEF Fine, Recent, SameDesks
<1>5. Display(t)
  <2>1. \A c \in Clients : Has(t, c, "HIDDEN") <=> (Has(s, c, "HIDDEN") /\ c \notin L)
    BY <1>2 DEF Has, Reflag
  <2>2. Windows \subseteq Clients /\ (t.curcc # NoClient => t.curcc \in Clients)
    BY <1>1 DEF Good, Clients
  <2> QED
    BY <1>2, <2>1, <2>2 DEF Fine, Display
<1> QED
  BY <1>1, <1>3, <1>4, <1>5 DEF Fine, t

\* client_ptrwarp.
LEMMA PtrWarpFine ==
  ASSUME NEW s, NEW M, NEW K, Fine(s, M, K), NEW c \in K
  PROVE  Fine(PtrWarp(s, c), M, K)
BY UnhideAllFine DEF PtrWarp, Unhide

\* What client_mtf leaves alone, and what it puts first.
LEMMA MoveToFrontFields ==
  ASSUME NEW s, NEW M, NEW K, Good(s, M, K), NEW c \in M
  PROVE  LET t == MoveToFront(s, c)
         IN /\ Head(t.clientq) = c /\ t.clientq # <<>> /\ s.clientq # <<>>
            /\ Managed(t) = M /\ Managed(s) = M
            /\ t.net_clients = s.net_clients
            /\ t.group = s.group /\ t.app = s.app /\ t.wm_desktop = s.wm_desktop
            /\ t.group_current = s.group_current
            /\ t.net_desktop = s.net_desktop
            /\ t.curcc = s.curcc /\ t.net_active = s.net_active
            /\ t.cycling = s.cycling /\ t.mapped = s.mapped
            /\ t.flags = s.flags /\ t.members = s.members
<1> DEFINE t == MoveToFront(s, c)
           q == Unlink(s.clientq, c)
<1>1. s \in State /\ c \in Windows /\ Managed(s) = M /\ Managed(t) = M
  <2>1. Good(t, M, K)
    BY MoveToFrontGood
  <2> HIDE DEF t
  <2> QED
    BY <2>1, KnownType DEF Good
<1>2. q \in Seq(Windows)
  BY <1>1, UnlinkType DEF State
<1> HIDE DEF q
<1>3. <<c>> \o q # <<>> /\ Head(<<c>> \o q) = c
  <2>1. /\ <<c>> \o q \in Seq(Windows) /\ Len(<<c>> \o q) = 1 + Len(q)
        /\ (<<c>> \o q)[1] = c /\ Len(q) \in Nat
    BY <1>1, <1>2, ConcatProperties, LenProperties
  <2> DEFINE r == <<c>> \o q
  <2> HIDE DEF r
  <2>2. r # <<>> /\ Head(r) = r[1]
    BY <2>1 DEF r
  <2> QED
    BY <2>1, <2>2 DEF r
<1>4. s.clientq # <<>>
  BY <1>1 DEF Managed, ToSet
<1>5. t = [s EXCEPT !.clientq = <<c>> \o q]
  BY DEF MoveToFront, q
<1> HIDE DEF t
<1> QED
  BY <1>1, <1>3, <1>4, <1>5 DEF State, t

\* client_setactive: the window that gets the focus is not hidden, and heads
\* the list unless a cycle is on.
LEMMA SetActiveFine ==
  ASSUME NEW s, NEW M, NEW K, Fine(s, M, K), NEW c \in M
  PROVE  Fine(SetActive(s, c), M, K)
<1> DEFINE t == IF s.cycling THEN s ELSE MoveToFront(s, c)
           F == Reflag(Reflag(t.flags, {t.curcc}, {"ACTIVE"}, {}),
                       {c}, {}, {"ACTIVE"})
           u == [t EXCEPT !.flags = F, !.curcc = c, !.net_active = c]
<1>1. Good(s, M, K) /\ s \in State /\ Good(t, M, K) /\ t \in State
  BY MoveToFrontGood, KnownType DEF Fine
<1>2. CASE Has(s, c, "HIDDEN")
  BY <1>2 DEF SetActive
<1>3. CASE ~Has(s, c, "HIDDEN")
  <2>1. SetActive(s, c) = u
    BY <1>3 DEF SetActive
  <2>2. Good(u, M, K)
    BY <1>1, <2>1, SetActiveGood
  <2>3. /\ t.cycling = s.cycling /\ t.group = s.group /\ t.app = s.app
        /\ t.wm_desktop = s.wm_desktop /\ t.net_clients = s.net_clients
        /\ t.group_current = s.group_current /\ t.net_desktop = s.net_desktop
        /\ t.mapped = s.mapped /\ t.flags = s.flags
        /\ Managed(t) = M /\ Managed(s) = M /\ s.clientq # <<>>
        /\ ~t.cycling => Head(t.clientq) = c
    <3>1. Managed(s) = M /\ s.clientq # <<>>
      BY <1>1 DEF Good, Managed, ToSet
    <3>2. CASE s.cycling
      BY <1>1, <3>1, <3>2
    <3>3. CASE ~s.cycling
      <4>1. t = MoveToFront(s, c)
        BY <3>3
      <4> HIDE DEF t
      <4> QED
        BY <1>1, <3>1, <4>1, MoveToFrontFields
    <3> QED
      BY <3>2, <3>3
  <2> HIDE DEF t
  <2>4. /\ u.cycling = t.cycling /\ u.group = t.group /\ u.app = t.app
        /\ u.wm_desktop = t.wm_desktop /\ u.net_clients = t.net_clients
        /\ u.group_current = t.group_current /\ u.net_desktop = t.net_desktop
        /\ u.mapped = t.mapped /\ u.flags = F /\ u.clientq = t.clientq
        /\ u.curcc = c /\ u.net_active = c
    BY <1>1 DEF State
  <2>5. \A d \in Clients : "HIDDEN" \in F[d] <=> "HIDDEN" \in s.flags[d]
    BY <2>3 DEF Reflag
  <2>6. Windows \subseteq Clients /\ c \in Clients
    BY <1>1, KnownType DEF Clients
  <2> HIDE DEF F, u
  <2>7. View(u, K)
    BY <2>3, <2>4 DEF Fine, View, Managed
  <2>8. Recent(u)
    BY <2>3, <2>4 DEF Recent
  <2>9. Display(u)
    BY <1>3, <2>3, <2>4, <2>5, <2>6 DEF Fine, Display, Has
  <2> QED
    BY <2>1, <2>2, <2>7, <2>8, <2>9 DEF Fine
<1> QED
  BY <1>2, <1>3

\* Taking a client other than the first out of a list leaves the first.
LEMMA UnlinkHead ==
  ASSUME NEW q \in Seq(Windows), NEW c, q # <<>>, Head(q) # c
  PROVE  Head(Unlink(q, c)) = Head(q)
<1> DEFINE u == Unlink(q, c)
<1>1. CASE \E p \in DOMAIN q : q[p] = c
  <2>1. PICK i \in 1 .. Len(q) :
          /\ q[i] = c /\ u \in Seq(Windows) /\ Len(u) = Len(q) - 1
          /\ \A j \in 1 .. i - 1 : u[j] = q[j]
    BY <1>1, UnlinkPositions
  <2> HIDE DEF u
  <2>2. Len(q) \in Nat /\ Head(q) = q[1]
    BY LenProperties
  <2>3. i > 1
    BY <2>1, <2>2
  <2>4. u[1] = q[1] /\ Len(u) > 0
    BY <2>1, <2>2, <2>3
  <2>5. Head(u) = u[1]
    BY <2>1, <2>4
  <2> QED
    BY <2>2, <2>4, <2>5 DEF u
<1>2. CASE ~ \E p \in DOMAIN q : q[p] = c
  BY <1>2 DEF Unlink
<1> QED
  BY <1>1, <1>2

\* What client_delete assigns.
LEMMA DeleteFields ==
  ASSUME NEW s, NEW M, Good(s, M, M), NEW c \in M
  PROVE  LET t == Delete(s, c)
             q == Unlink(s.clientq, c)
         IN /\ t.clientq = q
            /\ t.net_clients = IF q = <<>> THEN s.net_clients ELSE ToSet(q)
            /\ t.curcc = IF s.curcc = c THEN NoClient ELSE s.curcc
            /\ t.net_active = IF s.curcc = c THEN NoClient ELSE s.net_active
            /\ t.flags = [s.flags EXCEPT ![c] = {}]
            /\ t.group = [s.group EXCEPT ![c] = NoGroup]
            /\ t.app = s.app /\ t.wm_desktop = s.wm_desktop
            /\ t.group_current = s.group_current
            /\ t.net_desktop = s.net_desktop
            /\ t.cycling = s.cycling /\ t.mapped = s.mapped
<1> DEFINE t == Delete(s, c)
           q == Unlink(s.clientq, c)
           g == s.group[c]
           a == [s EXCEPT !.clientq = q]
           b == ListClients(a)
           d == IF g \in Groups THEN [b EXCEPT !.members[g] = @ \ {c}] ELSE b
           v == IF c = d.curcc THEN None(d) ELSE d
<1>1. s \in State /\ g \in Groups
  BY KnownType DEF Good
<1>2. t = [v EXCEPT !.flags[c] = {}, !.group[c] = NoGroup]
  BY DEF Delete
<1> HIDE DEF q, t, g
<1>3. /\ DOMAIN a = DOMAIN s /\ a.clientq = q /\ a.net_clients = s.net_clients
      /\ a.curcc = s.curcc /\ a.net_active = s.net_active /\ a.flags = s.flags
      /\ a.group = s.group /\ a.app = s.app /\ a.wm_desktop = s.wm_desktop
      /\ a.group_current = s.group_current /\ a.net_desktop = s.net_desktop
      /\ a.cycling = s.cycling /\ a.mapped = s.mapped
  BY <1>1 DEF State
<1> HIDE DEF a
<1>4. /\ DOMAIN b = DOMAIN s /\ b.clientq = q
      /\ b.net_clients = IF q = <<>> THEN s.net_clients ELSE ToSet(q)
      /\ b.curcc = s.curcc /\ b.net_active = s.net_active /\ b.flags = s.flags
      /\ b.group = s.group /\ b.app = s.app /\ b.wm_desktop = s.wm_desktop
      /\ b.group_current = s.group_current /\ b.net_desktop = s.net_desktop
      /\ b.cycling = s.cycling /\ b.mapped = s.mapped
  BY <1>1, <1>3 DEF ListClients, Managed, State
<1> HIDE DEF b
<1>5. /\ DOMAIN d = DOMAIN s /\ d.clientq = q /\ d.net_clients = b.net_clients
      /\ d.curcc = s.curcc /\ d.net_active = s.net_active /\ d.flags = s.flags
      /\ d.group = s.group /\ d.app = s.app /\ d.wm_desktop = s.wm_desktop
      /\ d.group_current = s.group_current /\ d.net_desktop = s.net_desktop
      /\ d.cycling = s.cycling /\ d.mapped = s.mapped
  BY <1>1, <1>4 DEF State
<1> HIDE DEF d
<1>6. /\ DOMAIN v = DOMAIN s /\ v.clientq = q /\ v.net_clients = b.net_clients
      /\ v.curcc = IF s.curcc = c THEN NoClient ELSE s.curcc
      /\ v.net_active = IF s.curcc = c THEN NoClient ELSE s.net_active
      /\ v.flags = s.flags
      /\ v.group = s.group /\ v.app = s.app /\ v.wm_desktop = s.wm_desktop
      /\ v.group_current = s.group_current /\ v.net_desktop = s.net_desktop
      /\ v.cycling = s.cycling /\ v.mapped = s.mapped
  BY <1>1, <1>5 DEF None, State
<1> HIDE DEF v
<1>7. /\ t.clientq = q /\ t.net_clients = b.net_clients
      /\ t.curcc = v.curcc /\ t.net_active = v.net_active
      /\ t.flags = [v.flags EXCEPT ![c] = {}]
      /\ t.group = [v.group EXCEPT ![c] = NoGroup]
      /\ t.app = v.app /\ t.wm_desktop = v.wm_desktop
      /\ t.group_current = v.group_current /\ t.net_desktop = v.net_desktop
      /\ t.cycling = v.cycling /\ t.mapped = v.mapped
  BY <1>1, <1>2, <1>6 DEF State
<1> QED
  BY <1>4, <1>6, <1>7 DEF t, q

\* client_delete.
LEMMA DeleteFine ==
  ASSUME NEW s, NEW M, Fine(s, M, M), NEW c \in M
  PROVE  Fine(Delete(s, c), M \ {c}, M \ {c})
<1> DEFINE t == Delete(s, c)
           q == Unlink(s.clientq, c)
<1>1. Good(s, M, M) /\ s \in State /\ M \subseteq Clients /\ Windows \subseteq Clients
  BY KnownType DEF Fine, Clients
<1>2. Good(t, M \ {c}, M \ {c})
  BY <1>1, DeleteGood
<1>3. /\ t.clientq = q
      /\ t.net_clients = IF q = <<>> THEN s.net_clients ELSE ToSet(q)
      /\ t.curcc = IF s.curcc = c THEN NoClient ELSE s.curcc
      /\ t.net_active = IF s.curcc = c THEN NoClient ELSE s.net_active
      /\ t.flags = [s.flags EXCEPT ![c] = {}]
      /\ t.group = [s.group EXCEPT ![c] = NoGroup]
      /\ t.app = s.app /\ t.wm_desktop = s.wm_desktop
      /\ t.group_current = s.group_current /\ t.net_desktop = s.net_desktop
      /\ t.cycling = s.cycling /\ t.mapped = s.mapped
  BY <1>1, DeleteFields
<1>4. /\ \A d \in Clients : t.flags[d] = IF d = c THEN {} ELSE s.flags[d]
      /\ \A d \in Clients : d # c => t.group[d] = s.group[d]
  <2> HIDE DEF t
  <2> QED
    BY <1>1, <1>3 DEF State
<1> HIDE DEF t
<1>5. View(t, M \ {c})
  BY <1>1, <1>3, <1>4 DEF Fine, View, Managed
<1>6. Recent(t)
  <2>1. ASSUME s.curcc # NoClient, s.curcc # c, ~s.cycling
        PROVE  Head(q) = s.curcc
    <3>1. s.clientq \in Seq(Windows) /\ s.clientq # <<>> /\ Head(s.clientq) = s.curcc
      BY <1>1, <2>1 DEF Good, State, Managed, ToSet, Fine, Recent
    <3> QED
      BY <2>1, <3>1, UnlinkHead
  <2> HIDE DEF q
  <2> QED
    BY <1>3, <2>1 DEF Recent
<1>7. Display(t)
  <2>1. t.curcc # NoClient => t.curcc \in Clients /\ t.curcc = s.curcc /\ t.curcc # c
    BY <1>1, <1>2, <1>3 DEF Good
  <2> QED
    BY <1>1, <1>3, <1>4, <2>1 DEF Fine, Display, Has
<1> QED
  BY <1>2, <1>5, <1>6, <1>7 DEF Fine, t

\* client_cycle: the list is not reordered until the cycle ends.
LEMMA CycleFine ==
  ASSUME NEW s, NEW M, NEW K, Fine(s, M, K),
         NEW dir \in {1, -1}, NEW ingroup \in BOOLEAN
  PROVE  Fine(Cycle(s, dir, ingroup), M, K)
<1> DEFINE t == [s EXCEPT !.cycling = TRUE]
<1>1. Good(s, M, K) /\ s \in State
  BY KnownType DEF Fine
<1>2. Fine(t, M, K)
  <2>1. /\ t \in State /\ SameDesks(s, t) /\ t.members = s.members
        /\ t.curcc = s.curcc /\ t.net_active = s.net_active
        /\ t.cycling = TRUE /\ t.mapped = s.mapped /\ t.flags = s.flags
    BY <1>1, CyclingType DEF State, SameDesks
  <2> HIDE DEF t
  <2>2. Good(t, M, K)
    BY <1>1, <2>1, SameLists DEF SameDesks
  <2> QED
    BY <2>1, <2>2 DEF Fine, View, SameDesks, Managed, Recent, Display, Has
<1>3. CASE s.clientq = <<>> \/ CycleTarget(s, dir, ingroup) = NoClient
  BY <1>3 DEF Cycle
<1>4. CASE ~ (s.clientq = <<>> \/ CycleTarget(s, dir, ingroup) = NoClient)
  <2>1. CycleTarget(s, dir, ingroup) \in M
    BY <1>1, <1>4, CycleTargetType DEF Good
  <2>2. CycleTarget(s, dir, ingroup) \in K
    BY <1>1, <2>1, KnownType
  <2> HIDE DEF t
  <2>3. Fine(PtrWarp(t, CycleTarget(s, dir, ingroup)), M, K)
    BY <1>2, <2>2, PtrWarpFine
  <2> QED
    BY <1>4, <2>3 DEF Cycle, t
<1> QED
  BY <1>3, <1>4

\* client_cycle_leave: the current client heads the list again.
LEMMA CycleLeaveFine ==
  ASSUME NEW s, NEW M, NEW K, Fine(s, M, K)
  PROVE  Fine(CycleLeave(s), M, K)
<1> DEFINE t == [s EXCEPT !.cycling = FALSE]
           u == MoveToFront(t, t.curcc)
<1>1. Good(s, M, K) /\ s \in State
  BY KnownType DEF Fine
<1>2. /\ t \in State /\ SameDesks(s, t) /\ t.members = s.members
      /\ t.curcc = s.curcc /\ t.net_active = s.net_active
      /\ t.mapped = s.mapped /\ t.flags = s.flags
  BY <1>1, CyclingType DEF State, SameDesks
<1>3. CycleLeave(s) = IF t.curcc = NoClient THEN t ELSE u
  BY DEF CycleLeave
<1> HIDE DEF t
<1>4. Good(t, M, K)
  BY <1>1, <1>2, SameLists DEF SameDesks
<1>5. CASE t.curcc = NoClient
  BY <1>2, <1>3, <1>4, <1>5
  DEF Fine, View, SameDesks, Managed, Recent, Display, Has
<1>6. CASE t.curcc # NoClient
  <2>1. t.curcc \in M
    BY <1>4, <1>6 DEF Good
  <2>2. Good(u, M, K)
    BY <1>4, <2>1, MoveToFrontGood
  <2>3. /\ Head(u.clientq) = t.curcc /\ t.clientq # <<>>
        /\ Managed(u) = M /\ Managed(t) = M
        /\ u.net_clients = t.net_clients
        /\ u.group = t.group /\ u.app = t.app /\ u.wm_desktop = t.wm_desktop
        /\ u.group_current = t.group_current /\ u.net_desktop = t.net_desktop
        /\ u.curcc = t.curcc /\ u.net_active = t.net_active
        /\ u.mapped = t.mapped /\ u.flags = t.flags
    BY <1>4, <2>1, MoveToFrontFields
  <2> HIDE DEF u
  <2>4. View(u, K)
    BY <1>2, <2>3 DEF Fine, View, SameDesks, Managed
  <2>5. Recent(u)
    BY <2>3 DEF Recent
  <2>6. Display(u)
    BY <1>2, <2>3 DEF Fine, Display, Has
  <2> QED
    BY <1>3, <1>6, <2>2, <2>4, <2>5, <2>6 DEF Fine
<1> QED
  BY <1>5, <1>6

\* What group_assign assigns.
LEMMA AssignAllFields ==
  ASSUME NEW s \in State, NEW W, NEW g
  PROVE  LET t == AssignAll(s, W, g)
         IN /\ t.clientq = s.clientq /\ t.net_clients = s.net_clients
            /\ t.app = s.app /\ t.curcc = s.curcc
            /\ t.net_active = s.net_active
            /\ t.group_current = s.group_current
            /\ t.net_desktop = s.net_desktop
            /\ t.cycling = s.cycling /\ t.mapped = s.mapped
            /\ t.flags = s.flags /\ t.hideall = s.hideall
            /\ t.group = [c \in Clients |-> IF c \in W THEN g ELSE s.group[c]]
            /\ t.wm_desktop = SetProperty(s, s.wm_desktop, W, g)
BY DEF AssignAll, State

\* group_assign: the property follows cc->group.
LEMMA AssignAllFine ==
  ASSUME NEW s, NEW M, NEW K, Fine(s, M, K),
         NEW W \in SUBSET Clients, NEW g \in Groups
  PROVE  Fine(AssignAll(s, W, g), M, K \cup (W \cap Windows))
<1> DEFINE t == AssignAll(s, W, g)
           N == K \cup (W \cap Windows)
<1>1. Good(s, M, K) /\ s \in State /\ Good(t, M, N) /\ K \subseteq Windows
  <2>1. Good(s, M, K)
    BY DEF Fine
  <2>2. Good(t, M, N)
    BY <2>1, AssignAllGood
  <2> QED
    BY <2>1, <2>2, KnownType DEF Good
<1>2. /\ t.clientq = s.clientq /\ t.net_clients = s.net_clients
      /\ t.app = s.app /\ t.curcc = s.curcc /\ t.net_active = s.net_active
      /\ t.group_current = s.group_current /\ t.net_desktop = s.net_desktop
      /\ t.cycling = s.cycling /\ t.mapped = s.mapped /\ t.flags = s.flags
      /\ t.group = [c \in Clients |-> IF c \in W THEN g ELSE s.group[c]]
      /\ t.wm_desktop = SetProperty(s, s.wm_desktop, W, g)
  BY <1>1, AssignAllFields
<1> HIDE DEF t
<1>3. ASSUME NEW w \in N, t.app[w] # "gone"
      PROVE  t.wm_desktop[w] = t.group[w]
  <2>1. w \in Windows /\ w \in Clients
    BY <1>1 DEF Clients
  <2>2. t.wm_desktop[w] = IF w \in W THEN g ELSE s.wm_desktop[w]
    BY <1>2, <1>3, <2>1 DEF SetProperty
  <2>3. t.group[w] = IF w \in W THEN g ELSE s.group[w]
    BY <1>2, <2>1
  <2> QED
    BY <1>2, <1>3, <2>2, <2>3 DEF Fine, View
<1>4. View(t, N)
  BY <1>2, <1>3 DEF Fine, View, Managed
<1>5. Recent(t)
  BY <1>2 DEF Fine, Recent
<1>6. Display(t)
  BY <1>2 DEF Fine, Display, Has
<1> QED
  BY <1>1, <1>4, <1>5, <1>6 DEF Fine, t

\* ... of clients that were in a group.
LEMMA ReassignFine ==
  ASSUME NEW s, NEW M, NEW K, Fine(s, M, K),
         NEW W \in SUBSET (K \cup Fakes), NEW g \in Groups
  PROVE  Fine(AssignAll(s, W, g), M, K)
<1>1. W \subseteq Clients /\ K \cup (W \cap Windows) = K
  BY KnownType, ClientsAssumption DEF Clients, Fine
<1> QED
  BY <1>1, AssignAllFine

\* group_setactive writes the property with the field.
LEMMA GroupSetActiveFine ==
  ASSUME NEW s, NEW M, NEW K, Fine(s, M, K), NEW g \in Groups
  PROVE  Fine(GroupSetActive(s, g), M, K)
<1> DEFINE t == GroupSetActive(s, g)
<1>1. Good(s, M, K) /\ s \in State /\ Good(t, M, K)
  BY GroupSetActiveGood, KnownType DEF Fine
<1>2. /\ t.clientq = s.clientq /\ t.net_clients = s.net_clients
      /\ t.app = s.app /\ t.curcc = s.curcc /\ t.net_active = s.net_active
      /\ t.group_current = g /\ t.net_desktop = g
      /\ t.cycling = s.cycling /\ t.mapped = s.mapped /\ t.flags = s.flags
      /\ t.group = s.group /\ t.wm_desktop = s.wm_desktop
  BY <1>1 DEF GroupSetActive, State
<1> HIDE DEF t
<1> QED
  BY <1>1, <1>2 DEF Fine, View, Managed, Recent, Display, Has, t

\* An assignment to the flags of a known client that moves neither ACTIVE nor,
\* unless applications use it, HIDDEN.
LEMMA FlagFine ==
  ASSUME NEW s, NEW M, NEW K, Fine(s, M, K),
         NEW c \in K \cup Fakes, NEW F \in SUBSET Flags,
         "ACTIVE" \in F <=> "ACTIVE" \in s.flags[c],
         "state_hidden" \notin Habits =>
           ("HIDDEN" \in F <=> "HIDDEN" \in s.flags[c])
  PROVE  Fine([s EXCEPT !.flags[c] = F], M, K)
<1> DEFINE t == [s EXCEPT !.flags[c] = F]
<1>1. Good(s, M, K) /\ s \in State /\ Good(t, M, K) /\ c \in Clients
  BY FlagGood, KnownType DEF Fine
<1>2. /\ SameDesks(s, t) /\ t.curcc = s.curcc /\ t.net_active = s.net_active
      /\ t.cycling = s.cycling /\ t.mapped = s.mapped
      /\ t.flags = [s.flags EXCEPT ![c] = F]
  BY <1>1 DEF State, SameDesks
<1>3. \A d \in Clients : t.flags[d] = IF d = c THEN F ELSE s.flags[d]
  BY <1>1, <1>2 DEF State
<1> HIDE DEF t
<1>4. "state_hidden" \notin Habits =>
        \A d \in Clients : Has(t, d, "HIDDEN") <=> Has(s, d, "HIDDEN")
  BY <1>3 DEF Has
<1>5. Fine(t, M, K)
  BY <1>1, <1>2, <1>4, SameFine
<1> QED
  BY <1>5 DEF t

----------------------------------------------------------------------------
(* The operations of group.c, and the client operations that call them.    *)

\* group_movetogroup.
LEMMA MoveToGroupFine ==
  ASSUME NEW s, NEW M, NEW K, Fine(s, M, K),
         NEW c \in K \cup Fakes, NEW g \in Groups
  PROVE  Fine(MoveToGroup(s, c, g), M, K)
BY HideAllFine, ReassignFine DEF MoveToGroup, Hide, Assign

\* group_toggle_membership_enter.
LEMMA ToggleMembershipFine ==
  ASSUME NEW s, NEW M, NEW K, Fine(s, M, K), NEW c \in K \cup Fakes
  PROVE  Fine(ToggleMembership(s, c), M, K)
BY GroupsType, KnownType, ReassignFine DEF ToggleMembership, Assign, Fine

\* client_toggle_sticky.
LEMMA ToggleStickyFine ==
  ASSUME NEW s, NEW M, NEW K, Fine(s, M, K), NEW c \in K
  PROVE  Fine(ToggleSticky(s, c), M, K)
<1>1. s.flags[c] \in SUBSET Flags /\ s.group_current \in Groups
  BY KnownType DEF State, Fine
<1>2. /\ Fine([s EXCEPT !.flags[c] = s.flags[c] \ {"STICKY"}], M, K)
      /\ Fine([s EXCEPT !.flags[c] = s.flags[c] \cup {"STICKY"}], M, K)
  BY <1>1, FlagFine DEF Flags
<1>3. /\ [s EXCEPT !.flags[c] = @ \ {"STICKY"}]
           = [s EXCEPT !.flags[c] = s.flags[c] \ {"STICKY"}]
      /\ [s EXCEPT !.flags[c] = @ \cup {"STICKY"}]
           = [s EXCEPT !.flags[c] = s.flags[c] \cup {"STICKY"}]
  BY KnownType DEF State, Fine
<1> QED
  BY <1>1, <1>2, <1>3, ReassignFine DEF ToggleSticky, Assign

\* client_toggle_hidden, which nothing calls unless applications ask for it.
LEMMA ToggleHiddenFine ==
  ASSUME NEW s, NEW M, NEW K, Fine(s, M, K), NEW c \in K,
         "state_hidden" \in Habits
  PROVE  Fine(ToggleHidden(s, c), M, K)
<1> DEFINE F == IF "HIDDEN" \in s.flags[c] THEN s.flags[c] \ {"HIDDEN"}
                ELSE s.flags[c] \cup {"HIDDEN"}
<1>1. s.flags[c] \in SUBSET Flags
  BY KnownType DEF State, Fine
<1>2. F \in SUBSET Flags /\ ("ACTIVE" \in F <=> "ACTIVE" \in s.flags[c])
  BY <1>1 DEF Flags
<1>3. ToggleHidden(s, c) = [s EXCEPT !.flags[c] = F]
  BY KnownType DEF ToggleHidden, State, Fine
<1> HIDE DEF F
<1>4. Fine([s EXCEPT !.flags[c] = F], M, K)
  BY <1>2, FlagFine
<1> QED
  BY <1>3, <1>4

\* An IGNORE flag for a known client.
LEMMA IgnoreFine ==
  ASSUME NEW s, NEW M, NEW K, Fine(s, M, K), NEW c \in K
  PROVE  Fine([s EXCEPT !.flags[c] = @ \cup {"IGNORE"}], M, K)
<1>1. s.flags[c] \in SUBSET Flags
  BY KnownType DEF State, Fine
<1>2. Fine([s EXCEPT !.flags[c] = s.flags[c] \cup {"IGNORE"}], M, K)
  BY <1>1, FlagFine DEF Flags
<1> QED
  BY <1>2, KnownType DEF State, Fine

\* client_transient.
LEMMA TransientFine ==
  ASSUME NEW s, NEW M, NEW K, Fine(s, M, K), NEW w \in K
  PROVE  Fine(Transient(s, w), M, K)
<1> DEFINE tc == TransientFor[w]
           t == MoveToGroup(s, w, s.group[tc])
<1>1. CASE s.app[w] = "gone" \/ tc \notin Managed(s) \/ s.group[tc] = NoGroup
  BY <1>1 DEF Transient
<1>2. CASE ~ (s.app[w] = "gone" \/ tc \notin Managed(s) \/ s.group[tc] = NoGroup)
  <2>1. s.group[tc] \in Groups
    BY <1>2 DEF Good, Fine
  <2>2. Fine(t, M, K)
    BY <2>1, MoveToGroupFine
  <2>3. Fine([t EXCEPT !.flags[w] = @ \cup {"IGNORE"}], M, K)
    BY <2>2, IgnoreFine
  <2> HIDE DEF t
  <2>4. Transient(s, w) = IF Has(s, tc, "IGNORE")
          THEN [t EXCEPT !.flags[w] = @ \cup {"IGNORE"}] ELSE t
    BY <1>2 DEF Transient, t
  <2> QED
    BY <2>2, <2>3, <2>4
<1> QED
  BY <1>1, <1>2

\* client_init, the list: the new client goes to the end, which is not before
\* the current one, and into _NET_CLIENT_LIST.
LEMMA ManageFine ==
  ASSUME NEW s, NEW M, NEW w \in Windows \ M, Fine(s, M, M \cup {w})
  PROVE  Fine(ListClients([s EXCEPT !.clientq = Append(@, w)]),
              M \cup {w}, M \cup {w})
<1> DEFINE q == Append(s.clientq, w)
           r == [s EXCEPT !.clientq = q]
           t == ListClients(r)
           N == M \cup {w}
<1>1. Good(s, M, N) /\ s \in State /\ s.clientq \in Seq(Windows)
  <2>1. Good(s, M, N)
    BY DEF Fine
  <2>2. s \in State
    BY <2>1, KnownType
  <2> QED
    BY <2>1, <2>2 DEF State
<1>2. Good(t, N, N)
  BY <1>1, ManageGood
<1>3. q # <<>> /\ (s.clientq # <<>> => Head(q) = Head(s.clientq))
  <2>1. /\ q \in Seq(Windows) /\ Len(q) = Len(s.clientq) + 1
        /\ \A i \in 1 .. Len(s.clientq) : q[i] = s.clientq[i]
        /\ Len(s.clientq) \in Nat
    BY <1>1, AppendProperties, LenProperties
  <2> HIDE DEF q
  <2>2. q # <<>> /\ Head(q) = q[1]
    BY <2>1
  <2>3. s.clientq # <<>> => Head(s.clientq) = s.clientq[1] /\ 1 \in 1 .. Len(s.clientq)
    BY <1>1, <2>1
  <2> QED
    BY <2>1, <2>2, <2>3
<1> HIDE DEF q
<1>4. /\ DOMAIN r = DOMAIN s
      /\ r.clientq = q /\ r.app = s.app /\ r.curcc = s.curcc
      /\ r.net_active = s.net_active /\ r.net_clients = s.net_clients
      /\ r.group_current = s.group_current /\ r.net_desktop = s.net_desktop
      /\ r.cycling = s.cycling /\ r.mapped = s.mapped /\ r.flags = s.flags
      /\ r.group = s.group /\ r.wm_desktop = s.wm_desktop
  BY <1>1 DEF State
<1> HIDE DEF r
<1>5. /\ t.clientq = q /\ t.app = s.app /\ t.curcc = s.curcc
      /\ t.net_active = s.net_active /\ t.net_clients = Managed(r)
      /\ t.group_current = s.group_current /\ t.net_desktop = s.net_desktop
      /\ t.cycling = s.cycling /\ t.mapped = s.mapped /\ t.flags = s.flags
      /\ t.group = s.group /\ t.wm_desktop = s.wm_desktop
      /\ Managed(t) = Managed(r)
  BY <1>1, <1>3, <1>4 DEF ListClients, State, Managed
<1> HIDE DEF t
<1>6. View(t, N)
  BY <1>5 DEF Fine, View
<1>7. Recent(t)
  <2>1. s.curcc # NoClient => s.clientq # <<>>
    BY <1>1 DEF Good, Managed, ToSet
  <2> QED
    BY <1>3, <1>5, <2>1 DEF Fine, Recent
<1>8. Display(t)
  BY <1>5 DEF Fine, Display, Has
<1>9. Fine(t, N, N)
  BY <1>2, <1>6, <1>7, <1>8 DEF Fine
<1> QED
  BY <1>9 DEF t, r, q

\* client_init: the properties of the new window are those of its client.
LEMMA ClientInitFine ==
  ASSUME NEW s, NEW M, Fine(s, M, M), NEW w \in Windows \ M,
         NEW hint \in {"none", "Normal", "Iconic"}, NEW atoms \in SUBSET Atoms
  PROVE  Fine(ClientInit(s, w, hint, atoms), M \cup {w}, M \cup {w})
<1> DEFINE K == M \cup {w}
           a == IF hint # "none" /\ ~s.mapped[w]
                  THEN [s EXCEPT !.wm_state[w] = hint] ELSE s
           b == Assign(a, w, AutogroupOf(a, w))
           c == IF w \in Ignored
                  THEN [b EXCEPT !.flags[w] = @ \cup {"IGNORE"}] ELSE b
           d == Transient(c, w)
           e == ListClients([d EXCEPT !.clientq = Append(@, w)])
           f == IF "STICKY" \in atoms THEN ToggleSticky(e, w) ELSE e
           g == IF "HIDDEN" \in atoms THEN ToggleHidden(f, w) ELSE f
<1>1. s \in State /\ w \in K /\ w \in Clients
  BY KnownType DEF Clients, Fine
<1>2. Fine(a, M, M)
  <2> DEFINE r == [s EXCEPT !.wm_state[w] = hint]
  <2>1. [s.wm_state EXCEPT ![w] = hint]
          \in [Windows -> {"none", "Normal", "Iconic", "Withdrawn"}]
    BY <1>1 DEF State
  <2>2. /\ r \in State /\ SameDesks(s, r) /\ r.curcc = s.curcc
        /\ r.net_active = s.net_active /\ r.cycling = s.cycling
        /\ r.mapped = s.mapped /\ r.flags = s.flags /\ r.members = s.members
    BY <1>1, <2>1 DEF State, SameDesks
  <2> HIDE DEF r
  <2>3. Good(r, M, M)
    BY <2>2, SameLists DEF SameDesks, Fine
  <2>4. Fine(r, M, M)
    BY <2>2, <2>3, SameFine DEF Has
  <2> QED
    BY <2>4 DEF r
<1> HIDE DEF a
<1>3. Fine(b, M, K)
  <2>1. AutogroupOf(a, w) \in Groups
    BY <1>2, AutogroupType, KnownType DEF Fine
  <2>2. K = M \cup ({w} \cap Windows)
    OBVIOUS
  <2> HIDE DEF K
  <2> QED
    BY <1>1, <1>2, <2>1, <2>2, AssignAllFine DEF Assign
<1> HIDE DEF b, K
<1>4. Fine(c, M, K)
  BY <1>1, <1>3, IgnoreFine
<1> HIDE DEF c
<1>5. Fine(d, M, K)
  BY <1>1, <1>4, TransientFine
<1> HIDE DEF d
<1>6. Fine(e, K, K)
  BY <1>5, ManageFine DEF K
<1> HIDE DEF e
<1>7. Fine(f, K, K)
  BY <1>1, <1>6, ToggleStickyFine
<1> HIDE DEF f
<1>8. Fine(g, K, K)
  BY <1>1, <1>7, ToggleHiddenFine DEF Atoms
<1> HIDE DEF g
<1>9. Fine(Hide(g, w), K, K) /\ Fine(Unhide(g, w), K, K)
  BY <1>1, <1>8, HideAllFine, UnhideAllFine DEF Hide, Unhide
<1>10. ClientInit(s, w, hint, atoms) =
         IF g.wm_state[w] = "Iconic" THEN Hide(g, w) ELSE Unhide(g, w)
  BY DEF ClientInit, a, b, c, d, e, f, g
<1> QED
  BY <1>9, <1>10 DEF K

\* group_hide.
LEMMA GroupHideFine ==
  ASSUME NEW s, NEW M, NEW K, Fine(s, M, K), NEW g \in Groups
  PROVE  Fine(GroupHide(s, g), M, K)
BY MembersKnown, HideAllFine DEF GroupHide, Fine

\* group_show.
LEMMA GroupShowFine ==
  ASSUME NEW s, NEW M, NEW K, Fine(s, M, K), NEW g \in Groups
  PROVE  Fine(GroupShow(s, g), M, K)
<1> DEFINE t == UnhideAll(s, s.members[g])
<1>1. Fine(t, M, K)
  BY MembersKnown, UnhideAllFine DEF Fine
<1> HIDE DEF t
<1>2. Fine(AssignAll(t, StickyClients(t), g), M, K)
  BY <1>1, StickyKnown, ReassignFine DEF Fine
<1> QED
  BY <1>2 DEF GroupShow, t

\* An assignment to GROUP_HIDDEN.
LEMMA HiddenGroupsFine ==
  ASSUME NEW s, NEW M, NEW K, Fine(s, M, K), NEW H \in SUBSET Groups
  PROVE  Fine([s EXCEPT !.hidden_groups = H], M, K)
<1> DEFINE t == [s EXCEPT !.hidden_groups = H]
<1>1. s \in State /\ Good(t, M, K)
  BY KnownType, HiddenGroupsGood DEF Fine
<1>2. /\ SameDesks(s, t) /\ t.curcc = s.curcc /\ t.net_active = s.net_active
      /\ t.cycling = s.cycling /\ t.mapped = s.mapped /\ t.flags = s.flags
  BY <1>1 DEF State, SameDesks
<1> HIDE DEF t
<1>3. Fine(t, M, K)
  BY <1>1, <1>2, SameFine DEF Has
<1> QED
  BY <1>3 DEF t

\* group_hidetoggle.
LEMMA GroupHideToggleFine ==
  ASSUME NEW s, NEW M, NEW K, Fine(s, M, K), NEW g \in Groups
  PROVE  Fine(GroupHideToggle(s, g), M, K)
<1> DEFINE t == GroupShow(s, g)
           u == GroupHide(s, g)
<1>1. Fine(t, M, K) /\ Fine(u, M, K)
  BY GroupShowFine, GroupHideFine
<1> HIDE DEF t, u
<1>2. t \in State /\ u \in State
  BY <1>1, KnownType DEF Fine
<1>3. t.hidden_groups \ {g} \subseteq Groups /\ u.hidden_groups \cup {g} \subseteq Groups
  BY <1>2 DEF State
<1>4. /\ Fine([t EXCEPT !.hidden_groups = t.hidden_groups \ {g}], M, K)
      /\ Fine([u EXCEPT !.hidden_groups = u.hidden_groups \cup {g}], M, K)
  BY <1>1, <1>3, HiddenGroupsFine
<1>5. GroupHideToggle(s, g) =
        IF g \in s.hidden_groups
          THEN [t EXCEPT !.hidden_groups = t.hidden_groups \ {g}]
          ELSE [u EXCEPT !.hidden_groups = u.hidden_groups \cup {g}]
  <2>1. /\ [t EXCEPT !.hidden_groups = @ \ {g}]
             = [t EXCEPT !.hidden_groups = t.hidden_groups \ {g}]
        /\ [u EXCEPT !.hidden_groups = @ \cup {g}]
             = [u EXCEPT !.hidden_groups = u.hidden_groups \cup {g}]
    BY <1>2 DEF State
  <2> QED
    BY <2>1 DEF GroupHideToggle, t, u
<1> QED
  BY <1>4, <1>5

\* group_only.
LEMMA GroupOnlyFine ==
  ASSUME NEW s, NEW M, NEW K, Fine(s, M, K), NEW g \in Groups
  PROVE  Fine(GroupOnly(s, g), M, K)
<1> DEFINE W == UNION {s.members[h] : h \in Groups \ {g}}
           t == HideAll(s, W)
<1>1. W \subseteq K \cup Fakes
  BY AllMembersKnown DEF Fine
<1> HIDE DEF W
<1>2. Fine(t, M, K)
  BY <1>1, HideAllFine
<1> HIDE DEF t
<1>3. Fine(GroupShow(GroupSetActive(t, g), g), M, K)
  BY <1>2, GroupSetActiveFine, GroupShowFine
<1> QED
  BY <1>3 DEF GroupOnly, t, W

\* group_cycle: adding a direction modulo NGROUPS gives a group.
LEMMA CycleGroupType ==
  ASSUME NEW s \in State, NEW dir \in {1, -1}
  PROVE  (s.group_current + dir) % NGROUPS \in Groups
<1> DEFINE a == s.group_current + dir
<1>1. a \in Int
  BY ClientsAssumption DEF State, Groups
<1> HIDE DEF a
<1>2. a % NGROUPS \in Groups
  BY <1>1, ClientsAssumption DEF Groups
<1> QED
  BY <1>2 DEF a

\* group_alltoggle: what it does to the windows is a hiding, or a showing and
\* an assignment of the sticky ones.
LEMMA AllToggleShape ==
  ASSUME NEW s, NEW M, NEW K, Good(s, M, K)
  PROVE  LET all == UNION {s.members[g] : g \in Groups}
             toggled == [s EXCEPT !.hideall = ~@]
             t == UnhideAll(toggled, all)
         IN \/ GroupAllToggle(s) = HideAll(toggled, all)
            \/ GroupAllToggle(s) = t
            \/ \E g \in Groups : GroupAllToggle(s) = AssignAll(t, StickyClients(t), g)
<1> DEFINE full  == {g \in Groups : s.members[g] # {}}
           solid == {g \in full : ~(s.members[g] \subseteq StickyClients(s))}
           first == {g \in full : \A h \in full : g <= h}
           shown == solid \cup first
           last  == {g \in shown : \A h \in shown : h <= g}
           some  == UNION {s.members[g] : g \in full}
           all   == UNION {s.members[g] : g \in Groups}
           toggled == [s EXCEPT !.hideall = ~@]
           t == UnhideAll(toggled, some)
<1>1. some = all
  OBVIOUS
<1>2. last \subseteq Groups
  OBVIOUS
<1>3. GroupAllToggle(s) =
        IF ~s.hideall THEN HideAll(toggled, some)
        ELSE IF last = {} THEN t
             ELSE AssignAll(t, StickyClients(t), CHOOSE g \in last : TRUE)
  BY DEF GroupAllToggle
<1> HIDE DEF last, some, all, toggled
<1>4. last # {} => (CHOOSE g \in last : TRUE) \in Groups
  BY <1>2
<1> QED
  BY <1>1, <1>3, <1>4 DEF all, toggled

\* group_alltoggle.
LEMMA GroupAllToggleFine ==
  ASSUME NEW s, NEW M, NEW K, Fine(s, M, K)
  PROVE  Fine(GroupAllToggle(s), M, K)
<1> DEFINE all == UNION {s.members[g] : g \in Groups}
           toggled == [s EXCEPT !.hideall = ~@]
           t == UnhideAll(toggled, all)
<1>1. s \in State /\ Good(s, M, K)
  BY KnownType DEF Fine
<1>2. all \subseteq K \cup Fakes
  BY <1>1, AllMembersKnown
<1>3. \/ GroupAllToggle(s) = HideAll(toggled, all)
      \/ GroupAllToggle(s) = t
      \/ \E g \in Groups : GroupAllToggle(s) = AssignAll(t, StickyClients(t), g)
  BY <1>1, AllToggleShape
<1> HIDE DEF all
<1>4. Fine(toggled, M, K)
  <2>1. /\ toggled \in State /\ SameDesks(s, toggled) /\ toggled.curcc = s.curcc
        /\ toggled.net_active = s.net_active /\ toggled.cycling = s.cycling
        /\ toggled.mapped = s.mapped /\ toggled.flags = s.flags
        /\ toggled.members = s.members
    BY <1>1 DEF State, SameDesks
  <2> HIDE DEF toggled
  <2>2. Good(toggled, M, K)
    BY <1>1, <2>1, SameLists DEF SameDesks
  <2> QED
    BY <2>1, <2>2, SameFine DEF Has
<1> HIDE DEF toggled
<1>5. Fine(HideAll(toggled, all), M, K) /\ Fine(t, M, K)
  BY <1>2, <1>4, HideAllFine, UnhideAllFine
<1> HIDE DEF t
<1>6. \A g \in Groups : Fine(AssignAll(t, StickyClients(t), g), M, K)
  BY <1>5, StickyKnown, ReassignFine DEF Fine
<1> QED
  BY <1>3, <1>5, <1>6

----------------------------------------------------------------------------
(* The actions.                                                            *)

\* xu_ewmh_handle_net_wm_state_msg.
LEMMA NetWmStateFine ==
  ASSUME NEW s, NEW M, NEW K, Fine(s, M, K), NEW w \in K, NEW action,
         NEW atoms \in SUBSET Atoms
  PROVE  Fine(NetWmState(s, w, action, atoms), M, K)
<1> DEFINE Due(t, a) == /\ a \in atoms
                        /\ \/ action = "add" /\ ~Has(t, w, a)
                           \/ action = "remove" /\ Has(t, w, a)
                           \/ action = "toggle"
           t1 == IF Due(s, "STICKY") THEN ToggleSticky(s, w) ELSE s
<1>1. Fine(t1, M, K)
  BY ToggleStickyFine
<1>2. NetWmState(s, w, action, atoms)
        = IF Due(t1, "HIDDEN") THEN ToggleHidden(t1, w) ELSE t1
  BY DEF NetWmState
<1>3. Due(t1, "HIDDEN") => "state_hidden" \in Habits
  BY DEF Atoms
<1> HIDE DEF t1, Due
<1> QED
  BY <1>1, <1>2, <1>3, ToggleHiddenFine

\* xev_handle_maprequest.
LEMMA MapRequestedFine ==
  ASSUME NEW s, NEW M, Fine(s, M, M), NEW w \in Windows,
         NEW hint \in {"none", "Normal", "Iconic"}, NEW atoms \in SUBSET Atoms
  PROVE  \E N : Fine(MapRequested(s, w, hint, atoms), N, N)
<1>1. Managed(s) = M /\ s \in State /\ Good(s, M, M)
  BY KnownType DEF Good, Fine
<1>2. CASE w \notin M /\ s.app[w] = "gone"
  <2> DEFINE t == [s EXCEPT !.alive = FALSE]
  <2>1. /\ t \in State /\ SameDesks(s, t) /\ t.curcc = s.curcc
        /\ t.net_active = s.net_active /\ t.cycling = s.cycling
        /\ t.mapped = s.mapped /\ t.flags = s.flags /\ t.members = s.members
    BY <1>1 DEF State, SameDesks
  <2>2. MapRequested(s, w, hint, atoms) = t
    BY <1>1, <1>2 DEF MapRequested
  <2> HIDE DEF t
  <2>3. Good(t, M, M)
    BY <1>1, <2>1, SameLists DEF SameDesks
  <2>4. Fine(t, M, M)
    BY <2>1, <2>3, SameFine DEF Has
  <2> QED
    BY <2>2, <2>4
<1>3. CASE w \in M
  <2>1. MapRequested(s, w, hint, atoms)
          = IF Has(s, w, "IGNORE") THEN s ELSE PtrWarp(s, w)
    BY <1>1, <1>3 DEF MapRequested
  <2>2. Fine(PtrWarp(s, w), M, M)
    BY <1>3, PtrWarpFine
  <2> QED
    BY <2>1, <2>2
<1>4. CASE w \notin M /\ s.app[w] # "gone"
  <2> DEFINE t == ClientInit(s, w, hint, atoms)
             N == M \cup {w}
  <2>1. Fine(t, N, N)
    BY <1>4, ClientInitFine
  <2>2. MapRequested(s, w, hint, atoms)
          = IF Has(t, w, "IGNORE") THEN t ELSE PtrWarp(t, w)
    BY <1>1, <1>4 DEF MapRequested
  <2> HIDE DEF t
  <2>3. w \in N
    OBVIOUS
  <2> HIDE DEF N
  <2>4. Fine(PtrWarp(t, w), N, N)
    BY <2>1, <2>3, PtrWarpFine
  <2> QED
    BY <2>1, <2>2, <2>4
<1> QED
  BY <1>2, <1>3, <1>4

FInv == Fine(S, Managed(S), Managed(S))

\* Become(t) makes a fine state t the next state.
LEMMA BecomeFine ==
  ASSUME NEW t, NEW N, Fine(t, N, N), Become(t)
  PROVE  FInv'
<1>1. t \in State /\ Managed(t) = N
  BY DEF Good, Fine
<1>2. S' = t
  BY <1>1 DEF Become, S, State
<1> QED
  BY <1>1, <1>2 DEF FInv

\* The invariant gives the current state to the lemmas.
LEMMA CurrentFine ==
  ASSUME FInv
  PROVE  IInv /\ Fine(S, Managed(S), Managed(S)) /\ Managed(S) \subseteq Windows
BY Current DEF FInv, IInv, Fine

\* A step cwm has no part in, which maps no window and gives no client a new
\* _NET_WM_DESKTOP.
ServerStep ==
  /\ UNCHANGED <<clientq, flags, group, members, group_current, cycling, curcc,
                 net_active, net_desktop, net_clients>>
  /\ \A v \in Windows : mapped'[v] => mapped[v]
  /\ \A v \in Managed(S) : app'[v] # "gone" =>
        app[v] # "gone" /\ wm_desktop'[v] = wm_desktop[v]

\* What applications do: only the server knows of it yet.
LEMMA AppFine ==
  ASSUME FInv, App
  PROVE  FInv'
<1>1. S \in State /\ Fine(S, Managed(S), Managed(S)) /\ IInv
      /\ S.app = app /\ S.mapped = mapped /\ S.evq = evq
  BY CurrentFine, Current
<1>2. PICK w \in Windows :
        \/ \E g \in Groups \cup {NoGroup} : AppCreate(w, g)
        \/ AppMap(w)
        \/ \E b \in BOOLEAN : AppUnmap(w, b)
        \/ AppDestroy(w)
  BY DEF App
<1>3. IInv'
  BY <1>1, <1>2, AppCreateGood, AppMapGood, AppUnmapGood, AppDestroyGood DEF Kept
<1>4. ServerStep
  <2>1. \A v \in Windows : mapped[v] \in BOOLEAN
    BY <1>1 DEF State
  <2>2. /\ app \in [Windows -> {"gone", "withdrawn", "shown"}]
        /\ mapped \in [Windows -> BOOLEAN]
        /\ wm_desktop \in [Windows -> Groups \cup {NoGroup}]
        /\ Managed(S) \subseteq Windows
    BY <1>1, Current DEF State, S
  <2>3. ASSUME NEW g, AppCreate(w, g)
        PROVE  ServerStep
    <3>1. /\ app' = [app EXCEPT ![w] = "withdrawn"] /\ mapped' = mapped
          /\ wm_desktop' = [wm_desktop EXCEPT ![w] = g] /\ w \notin Managed(S)
          /\ UNCHANGED <<clientq, flags, group, members, group_current, cycling,
                         curcc, net_active, net_desktop, net_clients>>
      BY <2>3 DEF AppCreate, Become, S
    <3> QED
      BY <2>2, <3>1 DEF ServerStep
  <2>4. CASE AppMap(w)
    <3>1. /\ app' = [app EXCEPT ![w] = "shown"] /\ mapped' = mapped
          /\ wm_desktop' = wm_desktop /\ app[w] # "gone"
          /\ UNCHANGED <<clientq, flags, group, members, group_current, cycling,
                         curcc, net_active, net_desktop, net_clients>>
      BY <2>4 DEF AppMap, Become, S
    <3> QED
      BY <2>2, <3>1 DEF ServerStep
  <2>5. ASSUME NEW b, AppUnmap(w, b)
        PROVE  ServerStep
    <3>1. /\ app' = [app EXCEPT ![w] = "withdrawn"] /\ app[w] = "shown"
          /\ mapped' = [mapped EXCEPT ![w] = FALSE] /\ wm_desktop' = wm_desktop
          /\ UNCHANGED <<clientq, flags, group, members, group_current, cycling,
                         curcc, net_active, net_desktop, net_clients>>
      BY <2>5 DEF AppUnmap, Become, S
    <3> QED
      BY <2>2, <3>1 DEF ServerStep
  <2>6. CASE AppDestroy(w)
    <3>1. /\ app' = [app EXCEPT ![w] = "gone"]
          /\ mapped' = [mapped EXCEPT ![w] = FALSE]
          /\ wm_desktop' = [wm_desktop EXCEPT ![w] = NoGroup]
          /\ UNCHANGED <<clientq, flags, group, members, group_current, cycling,
                         curcc, net_active, net_desktop, net_clients>>
      BY <2>6 DEF AppDestroy, Become, S
    <3> QED
      BY <2>2, <3>1 DEF ServerStep
  <2> QED
    BY <1>2, <2>3, <2>4, <2>5, <2>6
<1>5. Good(S', Managed(S'), Managed(S'))
  BY <1>3 DEF IInv
<1> DEFINE t == S'
<1>6. /\ t.clientq = S.clientq /\ t.flags = S.flags /\ t.group = S.group
      /\ t.group_current = S.group_current /\ t.cycling = S.cycling
      /\ t.curcc = S.curcc /\ t.net_active = S.net_active
      /\ t.net_desktop = S.net_desktop /\ t.net_clients = S.net_clients
      /\ t.mapped = mapped' /\ t.app = app' /\ t.wm_desktop = wm_desktop'
      /\ S.wm_desktop = wm_desktop
  BY <1>4 DEF S, ServerStep
<1>7. Managed(t) = Managed(S)
  BY <1>6 DEF Managed
<1> HIDE DEF t
<1>8. View(t, Managed(S))
  BY <1>1, <1>4, <1>6, <1>7 DEF Fine, View, ServerStep
<1>9. Recent(t)
  BY <1>1, <1>6 DEF Fine, Recent
<1>10. Display(t)
  BY <1>1, <1>4, <1>6 DEF Fine, Display, Has, ServerStep
<1> QED
  BY <1>5, <1>7, <1>8, <1>9, <1>10 DEF FInv, Fine, t

\* Reading an event.
LEMMA RestFine ==
  ASSUME FInv, evq # <<>>
  PROVE  Fine(Rest, Managed(S), Managed(S))
<1>1. S \in State /\ Fine(S, Managed(S), Managed(S)) /\ Good(Rest, Managed(S), Managed(S))
  BY CurrentFine, Current, RestGood
<1>2. /\ SameDesks(S, Rest) /\ Rest.curcc = S.curcc
      /\ Rest.net_active = S.net_active /\ Rest.cycling = S.cycling
      /\ Rest.mapped = S.mapped /\ Rest.flags = S.flags
  BY <1>1 DEF Rest, State, SameDesks
<1> QED
  BY <1>1, <1>2, SameFine DEF Has

\* The handlers of the queued events.
LEMMA StructureFine ==
  ASSUME FInv, Structure
  PROVE  FInv'
<1> DEFINE M == Managed(S)
<1>1. evq # <<>>
  BY DEF Structure, HandleMapRequest, HandleUnmapNotify, HandleSendUnmap,
         HandleDestroyNotify, Next_Event
<1>2. Fine(Rest, M, M) /\ Good(Rest, M, M) /\ Rest \in State
  BY <1>1, RestFine, KnownType DEF Fine
<1>3. ASSUME NEW w \in Windows, HandleMapRequest(w)
      PROVE  FInv'
  <2>1. PICK hint \in {"none", "Normal", "Iconic"}, atoms \in SUBSET Atoms :
          Become(MapRequested(Rest, w, hint, atoms))
    BY <1>3 DEF HandleMapRequest
  <2>2. PICK N : Fine(MapRequested(Rest, w, hint, atoms), N, N)
    BY <1>2, MapRequestedFine
  <2> QED
    BY <2>1, <2>2, BecomeFine
<1>4. ASSUME NEW w \in Windows, HandleUnmapNotify(w) \/ HandleDestroyNotify(w)
      PROVE  FInv'
  <2>1. w \in M => Fine(Delete(Rest, w), M \ {w}, M \ {w})
    BY <1>2, DeleteFine
  <2>2. Become(Rest) \/ (w \in M /\ Become(Delete(Rest, w)))
    BY <1>4 DEF HandleUnmapNotify, HandleDestroyNotify
  <2> QED
    BY <1>2, <2>1, <2>2, BecomeFine
<1>5. ASSUME NEW w \in Windows, HandleSendUnmap(w)
      PROVE  FInv'
  <2> DEFINE p == SetProperty(S, Rest.wm_state, {w}, "Withdrawn")
             t == [Rest EXCEPT !.wm_state = p]
  <2>1. p \in [Windows -> {"none", "Normal", "Iconic", "Withdrawn"}]
    <3>1. Rest.wm_state \in [Windows -> {"none", "Normal", "Iconic", "Withdrawn"}]
      BY <1>2 DEF State
    <3> QED
      BY <3>1, SetPropertyType
  <2>2. Become(Rest) \/ Become(t)
    <3>1. [Rest EXCEPT !.wm_state = SetProperty(S, @, {w}, "Withdrawn")] = t
      BY <1>2 DEF State
    <3> HIDE DEF t
    <3> QED
      BY <1>5, <3>1 DEF HandleSendUnmap
  <2> HIDE DEF p, M
  <2>3. /\ t \in State /\ SameDesks(Rest, t) /\ t.members = Rest.members
        /\ t.curcc = Rest.curcc /\ t.net_active = Rest.net_active
        /\ t.cycling = Rest.cycling /\ t.mapped = Rest.mapped
        /\ t.flags = Rest.flags
    BY <1>2, <2>1 DEF State, SameDesks
  <2> HIDE DEF t
  <2>4. Good(t, M, M)
    BY <1>2, <2>3, SameLists DEF SameDesks
  <2>5. Fine(t, M, M)
    BY <1>2, <2>3, <2>4, SameFine DEF Has
  <2>6. CASE Become(Rest)
    BY <1>2, <2>6, BecomeFine
  <2>7. CASE Become(t)
    BY <2>5, <2>7, BecomeFine
  <2> QED
    BY <2>2, <2>6, <2>7
<1> QED
  BY <1>3, <1>4, <1>5 DEF Structure

\* The pointer moves to a window, or to the root window.
LEMMA PointerFine ==
  ASSUME FInv, Pointer
  PROVE  FInv'
<1>1. CASE HandleEnterRoot
  <2> DEFINE t == S'
  <2>1. S \in State /\ Fine(S, Managed(S), Managed(S)) /\ IInv /\ S.curcc = curcc
    BY CurrentFine, Current
  <2>2. Good(t, Managed(t), Managed(t))
    BY <1>1, <2>1, HandleEnterRootGood DEF IInv, Kept
  <2>3. /\ t.clientq = S.clientq /\ t.group = S.group /\ t.app = S.app
        /\ t.wm_desktop = S.wm_desktop /\ t.group_current = S.group_current
        /\ t.net_desktop = S.net_desktop /\ t.net_clients = S.net_clients
        /\ t.curcc = NoClient /\ t.net_active = NoClient /\ t.mapped = S.mapped
        /\ t.flags = [S.flags EXCEPT ![curcc] = @ \ {"ACTIVE"}]
    BY <1>1, <2>1 DEF HandleEnterRoot, Become, None, S
  <2>4. Managed(t) = Managed(S)
    BY <2>3 DEF Managed
  <2>5. \A c \in Clients : "HIDDEN" \in t.flags[c] => "HIDDEN" \in S.flags[c]
    BY <2>1, <2>3 DEF State
  <2> HIDE DEF t
  <2>6. View(t, Managed(S)) /\ Recent(t)
    BY <2>1, <2>3, <2>4 DEF Fine, View, Recent
  <2>7. Display(t)
    BY <2>1, <2>3, <2>5 DEF Fine, Display, Has, Clients
  <2> QED
    BY <2>2, <2>4, <2>6, <2>7 DEF FInv, Fine, t
<1>2. ASSUME NEW w \in Windows, HandleEnter(w)
      PROVE  FInv'
  <2>1. Fine(SetActive(S, w), Managed(S), Managed(S))
    BY <1>2, CurrentFine, SetActiveFine DEF HandleEnter
  <2> QED
    BY <1>2, <2>1, BecomeFine DEF HandleEnter
<1> QED
  BY <1>1, <1>2 DEF Pointer

\* A handler of a command or a message.
LEMMA HandleFine ==
  ASSUME NEW t, NEW N, Fine(t, N, N), Handle(t)
  PROVE  FInv'
BY BecomeFine DEF Handle

\* The commands of kbfunc.c and mousefunc.c.
LEMMA CommandFine ==
  ASSUME FInv, Command
  PROVE  FInv'
<1> DEFINE M == Managed(S)
<1>1. S \in State /\ Fine(S, M, M) /\ Good(S, M, M) /\ M \subseteq Windows
      /\ S.group = group /\ S.group_current = group_current
  BY CurrentFine, Current DEF Fine
<1>2. Pointed \subseteq M /\ Targets \subseteq M \cup Fakes
  BY CurrentFine, TargetsKnown
<1> HIDE DEF M
<1>3. ASSUME NEW c \in Clients, KbHide(c)
      PROVE  FInv'
  BY <1>1, <1>2, <1>3, HideAllFine, HandleFine DEF KbHide, Hide
<1>4. ASSUME NEW c \in Clients, KbToggleSticky(c)
      PROVE  FInv'
  BY <1>1, <1>2, <1>4, ToggleStickyFine, HandleFine DEF KbToggleSticky
<1>5. ASSUME NEW c \in Clients, KbGroupToggle(c)
      PROVE  FInv'
  BY <1>1, <1>2, <1>5, ToggleMembershipFine, HandleFine DEF KbGroupToggle
<1>6. ASSUME NEW c \in Clients, NEW g \in Groups, KbMoveToGroup(c, g)
      PROVE  FInv'
  BY <1>1, <1>2, <1>6, MoveToGroupFine, HandleFine DEF KbMoveToGroup
<1>7. ASSUME NEW g \in Groups, KbGroup(g)
      PROVE  FInv'
  BY <1>1, <1>7, GroupHideToggleFine, HandleFine DEF KbGroup
<1>8. ASSUME NEW g \in Groups, KbGroupOnly(g)
      PROVE  FInv'
  BY <1>1, <1>8, GroupOnlyFine, HandleFine DEF KbGroupOnly
<1>9. ASSUME NEW g \in Groups, MenuGroup(g)
      PROVE  FInv'
  <2>1. Fine(GroupShow(S, g), M, M) /\ Fine(GroupHide(S, g), M, M)
    BY <1>1, GroupShowFine, GroupHideFine
  <2> QED
    BY <1>9, <2>1, HandleFine DEF MenuGroup
<1>10. ASSUME NEW g \in Groups, MouseMenuGroup(g)
       PROVE  FInv'
  BY <1>9, <1>10 DEF MouseMenuGroup
<1>11. ASSUME NEW dir \in {1, -1}, KbCycleGroup(dir)
       PROVE  FInv'
  <2>1. Fine(CycleGroup(S, dir), M, M)
    BY <1>1, CycleGroupType, GroupOnlyFine DEF CycleGroup
  <2> QED
    BY <1>11, <2>1, HandleFine DEF KbCycleGroup
<1>12. ASSUME NEW dir \in {1, -1}, NEW b \in BOOLEAN, KbCycle(dir, b)
       PROVE  FInv'
  BY <1>1, <1>12, CycleFine, HandleFine DEF KbCycle
<1>13. CASE KbNoGroup
  BY <1>1, <1>13, GroupAllToggleFine, HandleFine DEF KbNoGroup
<1>14. CASE KeyRelease
  BY <1>1, <1>14, CycleLeaveFine, HandleFine DEF KeyRelease
<1>15. ASSUME NEW w \in Windows, MenuUnhide(w)
       PROVE  FInv'
  <2>1. w \in M
    BY <1>15 DEF MenuUnhide, M
  <2>2. Fine(Unhide(S, w), M, M)
    BY <1>1, <2>1, UnhideAllFine DEF Unhide
  <2>3. Fine(Unhidden(w), M, M)
    BY <2>1, <2>2, PtrWarpFine DEF Unhidden
  <2> QED
    BY <1>15, <2>3, HandleFine DEF MenuUnhide
<1>16. ASSUME NEW w \in Windows, Search(w)
       PROVE  FInv'
  <2> DEFINE u == IF Has(S, w, "HIDDEN") THEN Unhide(S, w) ELSE S
             t == PtrWarp(u, w)
             v == GroupHide(t, t.group_current)
  <2>1. w \in M
    BY <1>16 DEF Search, M
  <2>2. Fine(u, M, M)
    BY <1>1, <2>1, UnhideAllFine DEF Unhide
  <2>3. Handle(GroupSetActive(v, t.group[w]))
    BY <1>16 DEF Search
  <2> HIDE DEF u
  <2>4. Fine(t, M, M)
    BY <2>1, <2>2, PtrWarpFine
  <2> HIDE DEF t
  <2>5. t.group_current \in Groups /\ t.group[w] \in Groups
    <3>1. Good(t, M, M)
      BY <2>4 DEF Fine
    <3> QED
      BY <1>1, <2>1, <3>1 DEF Good, State
  <2>6. Fine(v, M, M)
    BY <2>4, <2>5, GroupHideFine
  <2> HIDE DEF v
  <2>7. Fine(GroupSetActive(v, t.group[w]), M, M)
    BY <2>5, <2>6, GroupSetActiveFine
  <2> QED
    BY <2>3, <2>7, HandleFine
<1>17. CASE \E c \in Clients : KbHide(c) \/ KbToggleSticky(c) \/ KbGroupToggle(c)
  BY <1>17, <1>3, <1>4, <1>5
<1>18. CASE \E c \in Clients, g \in Groups : KbMoveToGroup(c, g)
  BY <1>18, <1>6
<1>19. CASE \E g \in Groups : KbGroup(g) \/ KbGroupOnly(g)
                              \/ MenuGroup(g) \/ MouseMenuGroup(g)
  BY <1>19, <1>7, <1>8, <1>9, <1>10
<1>20. CASE \E dir \in {1, -1} : KbCycleGroup(dir) \/ KbCycle(dir, TRUE)
                                                   \/ KbCycle(dir, FALSE)
  BY <1>20, <1>11, <1>12
<1>21. CASE \E w \in Windows : MenuUnhide(w) \/ Search(w)
  BY <1>21, <1>15, <1>16
<1> QED
  BY <1>13, <1>14, <1>17, <1>18, <1>19, <1>20, <1>21 DEF Command

\* The messages of xev_handle_clientmessage, and WM_TRANSIENT_FOR.
LEMMA MessageFine ==
  ASSUME FInv, Message
  PROVE  FInv'
<1> DEFINE M == Managed(S)
<1>1. Fine(S, M, M) /\ M \subseteq Windows
  BY CurrentFine
<1>2. ASSUME NEW w \in Windows, MsgIconify(w)
      PROVE  FInv'
  <2>1. Fine(Hide(S, w), M, M)
    BY <1>1, <1>2, HideAllFine DEF MsgIconify, Hide
  <2> QED
    BY <1>2, <2>1, HandleFine DEF MsgIconify
<1>3. ASSUME NEW w \in Windows, PropertyTransient(w)
      PROVE  FInv'
  BY <1>1, <1>3, TransientFine, HandleFine DEF PropertyTransient
<1>4. ASSUME NEW w \in Windows, NEW g \in Groups, MsgDesktop(w, g)
      PROVE  FInv'
  BY <1>1, <1>4, MoveToGroupFine, HandleFine DEF MsgDesktop
<1>5. ASSUME NEW w \in Windows, NEW action, NEW atoms \in SUBSET Atoms,
             MsgState(w, action, atoms)
      PROVE  FInv'
  <2>1. Fine(NetWmState(S, w, action, atoms), M, M)
    BY <1>1, <1>5, NetWmStateFine DEF MsgState
  <2> QED
    BY <1>5, <2>1, HandleFine DEF MsgState
<1>6. ASSUME NEW g \in Groups, MsgCurrentDesktop(g)
      PROVE  FInv'
  BY <1>1, <1>6, GroupOnlyFine, HandleFine DEF MsgCurrentDesktop
<1> QED
  BY <1>2, <1>3, <1>4, <1>5, <1>6 DEF Message

\* An empty screen.
LEMMA InitFine ==
  ASSUME Init
  PROVE  FInv
<1>1. Good(S, Managed(S), Managed(S))
  BY InitGood DEF IInv
<1>2. /\ S.clientq = <<>> /\ S.curcc = NoClient /\ S.net_active = NoClient
      /\ S.group_current = S.net_desktop /\ S.flags = [c \in Clients |-> {}]
  BY DEF Init, S
<1>3. Managed(S) = {} /\ \A w \in Windows : w \in Clients
  BY <1>2 DEF Managed, ToSet, Clients
<1> QED
  BY <1>1, <1>2, <1>3 DEF FInv, Fine, View, Recent, Display, Has

\* Every step keeps the invariant, and so does a stutter.
LEMMA NextFine ==
  ASSUME FInv, [Next]_vars
  PROVE  FInv'
<1>1. CASE UNCHANGED vars
  BY <1>1 DEF FInv, Managed, S, vars
<1> QED
  BY <1>1, AppFine, StructureFine, PointerFine, CommandFine, MessageFine DEF Next

----------------------------------------------------------------------------
(* The theorems.                                                           *)

\* Every state cwm can be in is fine.
THEOREM FineInvariant == Spec => []FInv
<1>1. Init => FInv
  BY InitFine
<1>2. FInv /\ [Next]_vars => FInv'
  BY NextFine
<1> QED
  BY <1>1, <1>2, PTL DEF Spec

\* A pager reads what cwm holds (xutil.c): active window, current desktop,
\* list of clients and the desktop of each.
THEOREM PagerViewHolds == Spec => []PagerView
<1>1. FInv => PagerView
  BY DEF FInv, Fine, View, PagerView, S
<1> QED
  BY <1>1, FineInvariant, PTL

\* Outside a cycle the current client heads the most recently used order of
\* client_cycle.
THEOREM CurrentIsMostRecentHolds == Spec => []CurrentIsMostRecent
<1>1. FInv => CurrentIsMostRecent
  BY DEF FInv, Fine, Recent, CurrentIsMostRecent, S
<1> QED
  BY <1>1, FineInvariant, PTL

\* If no application uses _NET_WM_STATE_HIDDEN, the current client is not
\* hidden (client_hide gives up the focus, client_setactive refuses it).
THEOREM CurrentIsVisibleHolds ==
  ASSUME "state_hidden" \notin Habits
  PROVE  Spec => []CurrentIsVisible
<1>1. FInv => CurrentIsVisible
  BY DEF FInv, Fine, Display, CurrentIsVisible, S
<1> QED
  BY <1>1, FineInvariant, PTL

\* ... and a client with the HIDDEN flag is not mapped.
THEOREM HiddenIsUnmappedHolds ==
  ASSUME "state_hidden" \notin Habits
  PROVE  Spec => []HiddenIsUnmapped
<1>1. FInv => HiddenIsUnmapped
  BY DEF FInv, Fine, Display, HiddenIsUnmapped, S
<1> QED
  BY <1>1, FineInvariant, PTL

----------------------------------------------------------------------------
(* A dialog and the window it belongs to.                                  *)

\* What client_init has done to the new window w once client_transient has run:
\* w is in the group of its owner o as s has it, and is ignored if o is.
Joined(s, x, w, o) ==
  /\ x.group[w] = s.group[o]
  /\ Has(s, o, "IGNORE") => Has(x, w, "IGNORE")

\* Until client_transient runs, client_init touches neither the owner nor the
\* display, and gives the new window no flag but CLIENT_IGNORE.
Alone(s, x, w, o) ==
  /\ x.app = s.app
  /\ x.group[o] = s.group[o] /\ x.flags[o] = s.flags[o]
  /\ x.flags[w] \subseteq {"IGNORE"}

\* client_transient of a window that exists and whose owner is managed.
LEMMA TransientJoins ==
  ASSUME NEW s, NEW M, NEW K, Good(s, M, K), NEW w \in K,
         s.app[w] # "gone", TransientFor[w] \in M, TransientFor[w] # w,
         "STICKY" \notin s.flags[w]
  PROVE  LET t == Transient(s, w)
         IN Joined(s, t, w, TransientFor[w]) /\ ~Has(t, w, "STICKY")
<1> DEFINE o == TransientFor[w]
           g == s.group[o]
           h == IF HoldsOnlyHidden(s, g) THEN Hide(s, w) ELSE s
           t == MoveToGroup(s, w, g)
<1>1. s \in State /\ w \in Clients /\ o \in Clients /\ Managed(s) = M
  BY KnownType DEF Good, Clients
<1>2. g \in Groups /\ g # NoGroup
  <2>1. o \in K
    BY KnownType
  <2> QED
    BY <2>1, ClientsAssumption DEF Good, Groups, NoGroup
<1>3. Transient(s, w) = IF Has(s, o, "IGNORE")
                          THEN [t EXCEPT !.flags[w] = @ \cup {"IGNORE"}] ELSE t
  BY <1>1, <1>2 DEF Transient
<1>4. /\ h \in State
      /\ "STICKY" \notin h.flags[w]
  <2>1. Hide(s, w) \in State
    BY <1>1, HideAllType DEF Hide
  <2>2. Hide(s, w).flags = Reflag(s.flags, {c \in {w} : ~Has(s, c, "STICKY")},
                                  {"ACTIVE"}, {"HIDDEN"})
    BY <1>1, HideAllFields DEF Hide
  <2>3. "STICKY" \notin Hide(s, w).flags[w]
    BY <1>1, <2>2 DEF Reflag
  <2> QED
    BY <1>1, <2>1, <2>3
<1> HIDE DEF h
<1>5. /\ t \in State /\ t.group[w] = g
      /\ "STICKY" \notin t.flags[w]
  <2>1. CASE s.group[w] = g
    BY <1>1, <2>1 DEF MoveToGroup
  <2>2. CASE s.group[w] # g
    <3>1. t = AssignAll(h, {w}, g)
      BY <2>2 DEF MoveToGroup, Assign, h
    <3> HIDE DEF g, t
    <3>2. t \in State /\ t.flags = h.flags
          /\ t.group = [c \in Clients |-> IF c \in {w} THEN g ELSE h.group[c]]
      BY <1>1, <1>2, <1>4, <3>1, AssignAllType, AssignAllFields
    <3> QED
      BY <1>1, <1>4, <3>2
  <2> QED
    BY <2>1, <2>2
<1> HIDE DEF t, g
<1> DEFINE u == [t EXCEPT !.flags[w] = @ \cup {"IGNORE"}]
<1>6. u.group[w] = g /\ u.flags[w] = t.flags[w] \cup {"IGNORE"}
  BY <1>1, <1>5 DEF State
<1> HIDE DEF u
<1>7. "STICKY" \notin u.flags[w] /\ "IGNORE" \in u.flags[w]
  BY <1>5, <1>6
<1>8. Transient(s, w) = IF Has(s, o, "IGNORE") THEN u ELSE t
  BY <1>3 DEF u
<1> DEFINE v == Transient(s, w)
<1>9. v.group[w] = g /\ "STICKY" \notin v.flags[w]
      /\ (Has(s, o, "IGNORE") => "IGNORE" \in v.flags[w])
  BY <1>5, <1>6, <1>7, <1>8
<1> HIDE DEF v
<1> QED
  BY <1>9 DEF Joined, Has, g, v

\* What client_init does after client_transient: _NET_WM_STATE can make the
\* window sticky or hidden, and it is hidden or shown; it stays in the group.
LEMMA StateJoined ==
  ASSUME NEW s, NEW o, NEW t \in State, NEW w \in Windows, Joined(s, t, w, o)
  PROVE  /\ ~Has(t, w, "STICKY") =>
              /\ ToggleSticky(t, w) \in State
              /\ Joined(s, ToggleSticky(t, w), w, o)
         /\ ToggleHidden(t, w) \in State /\ Joined(s, ToggleHidden(t, w), w, o)
         /\ Joined(s, Hide(t, w), w, o) /\ Joined(s, Unhide(t, w), w, o)
         /\ Joined(s, PtrWarp(t, w), w, o)
<1>1. w \in Clients /\ t.flags[w] \subseteq Flags
  BY DEF State, Clients
<1>2. ASSUME NEW F \in SUBSET Flags,
             Has(s, o, "IGNORE") => "IGNORE" \in F
      PROVE  LET u == [t EXCEPT !.flags[w] = F]
             IN u \in State /\ Joined(s, u, w, o)
  <2> DEFINE u == [t EXCEPT !.flags[w] = F]
  <2>1. u \in State
    BY <1>1, FlagType
  <2>2. u.group = t.group /\ u.flags[w] = F
    BY <1>1 DEF State
  <2> HIDE DEF u
  <2>3. Joined(s, u, w, o)
    BY <1>2, <2>2 DEF Joined, Has
  <2> QED
    BY <2>1, <2>3 DEF u
<1>3. Has(s, o, "IGNORE") => "IGNORE" \in t.flags[w]
  BY DEF Joined, Has
<1>4. ASSUME ~Has(t, w, "STICKY")
      PROVE  ToggleSticky(t, w) \in State /\ Joined(s, ToggleSticky(t, w), w, o)
  <2> DEFINE F == t.flags[w] \cup {"STICKY"}
  <2>1. ToggleSticky(t, w) = [t EXCEPT !.flags[w] = F]
    BY <1>1, <1>4 DEF ToggleSticky, State
  <2>2. F \in SUBSET Flags /\ (Has(s, o, "IGNORE") => "IGNORE" \in F)
    BY <1>1, <1>3 DEF Flags
  <2> HIDE DEF F
  <2> QED
    BY <1>2, <2>1, <2>2
<1>5. ToggleHidden(t, w) \in State /\ Joined(s, ToggleHidden(t, w), w, o)
  <2> DEFINE F == IF "HIDDEN" \in t.flags[w] THEN t.flags[w] \ {"HIDDEN"}
                  ELSE t.flags[w] \cup {"HIDDEN"}
  <2>1. ToggleHidden(t, w) = [t EXCEPT !.flags[w] = F]
    BY <1>1 DEF ToggleHidden, State
  <2>2. F \in SUBSET Flags /\ (Has(s, o, "IGNORE") => "IGNORE" \in F)
    BY <1>1, <1>3 DEF Flags
  <2> HIDE DEF F
  <2> QED
    BY <1>2, <2>1, <2>2
<1>6. Joined(s, Hide(t, w), w, o)
  <2> DEFINE u == HideAll(t, {w})
             L == {c \in {w} : ~Has(t, c, "STICKY")}
  <2>1. u.group = t.group /\ u.flags = Reflag(t.flags, L, {"ACTIVE"}, {"HIDDEN"})
    BY HideAllFields DEF SameDesks
  <2> HIDE DEF u, L
  <2>2. "IGNORE" \in t.flags[w] => "IGNORE" \in u.flags[w]
    BY <1>1, <2>1 DEF Reflag
  <2>3. Joined(s, u, w, o)
    BY <2>1, <2>2 DEF Joined, Has
  <2> QED
    BY <2>3 DEF Hide, u
<1>7. Joined(s, Unhide(t, w), w, o)
  <2> DEFINE u == UnhideAll(t, {w})
             L == {c \in {w} : ~Has(t, c, "STICKY")}
  <2>1. u.group = t.group /\ u.flags = Reflag(t.flags, L, {"HIDDEN"}, {})
    BY UnhideAllFields DEF SameDesks
  <2> HIDE DEF u, L
  <2>2. "IGNORE" \in t.flags[w] => "IGNORE" \in u.flags[w]
    BY <1>1, <2>1 DEF Reflag
  <2>3. Joined(s, u, w, o)
    BY <2>1, <2>2 DEF Joined, Has
  <2> QED
    BY <2>3 DEF Unhide, u
<1> QED
  BY <1>4, <1>5, <1>6, <1>7 DEF PtrWarp

\* client_init: a dialog joins the group of its owner, and is ignored with it.
LEMMA ClientInitJoins ==
  ASSUME NEW s, NEW M, Good(s, M, M), NEW w \in Windows \ M,
         NEW hint \in {"none", "Normal", "Iconic"}, NEW atoms,
         s.app[w] # "gone", TransientFor[w] \in M
  PROVE  /\ ClientInit(s, w, hint, atoms) \in State
         /\ Joined(s, ClientInit(s, w, hint, atoms), w, TransientFor[w])
<1> DEFINE o == TransientFor[w]
           K == M \cup {w}
           a == IF hint # "none" /\ ~s.mapped[w]
                  THEN [s EXCEPT !.wm_state[w] = hint] ELSE s
           b == Assign(a, w, AutogroupOf(a, w))
           c == IF w \in Ignored
                  THEN [b EXCEPT !.flags[w] = @ \cup {"IGNORE"}] ELSE b
           d == Transient(c, w)
           e == ListClients([d EXCEPT !.clientq = Append(@, w)])
           f == IF "STICKY" \in atoms THEN ToggleSticky(e, w) ELSE e
           g == IF "HIDDEN" \in atoms THEN ToggleHidden(f, w) ELSE f
<1>1. /\ s \in State /\ w \in Clients /\ o \in Windows /\ o \in Clients /\ o # w
      /\ s.flags[w] = {} /\ w \in K /\ M \subseteq Windows
  BY KnownType DEF Clients, Good
<1>2. Good(a, M, M) /\ Alone(s, a, w, o)
  <2> DEFINE r == [s EXCEPT !.wm_state[w] = hint]
  <2>1. [s.wm_state EXCEPT ![w] = hint]
          \in [Windows -> {"none", "Normal", "Iconic", "Withdrawn"}]
    BY <1>1 DEF State
  <2>2. /\ r \in State /\ r.clientq = s.clientq /\ r.curcc = s.curcc
        /\ r.flags = s.flags /\ r.members = s.members /\ r.group = s.group
        /\ r.app = s.app
    BY <1>1, <2>1 DEF State
  <2> HIDE DEF r
  <2>3. Good(r, M, M)
    BY <2>2, SameLists
  <2>4. Alone(s, r, w, o) /\ Alone(s, s, w, o)
    BY <1>1, <2>2 DEF Alone
  <2> QED
    BY <2>3, <2>4 DEF r
<1> HIDE DEF a
<1>3. Good(b, M, K) /\ Alone(s, b, w, o)
  <2>1. AutogroupOf(a, w) \in Groups /\ a \in State
    BY <1>2, AutogroupType, KnownType
  <2>2. K = M \cup ({w} \cap Windows)
    OBVIOUS
  <2>3. Good(b, M, M \cup ({w} \cap Windows))
    BY <1>1, <1>2, <2>1, AssignAllGood DEF Assign
  <2>4. /\ b.app = a.app /\ b.flags = a.flags
        /\ b.group = [x \in Clients |->
                        IF x \in {w} THEN AutogroupOf(a, w) ELSE a.group[x]]
    BY <2>1, AssignAllFields DEF Assign
  <2> HIDE DEF K, b
  <2> QED
    BY <1>1, <1>2, <2>2, <2>3, <2>4 DEF Alone
<1> HIDE DEF b, K
<1>4. Good(c, M, K) /\ Alone(s, c, w, o)
  <2> DEFINE r == [b EXCEPT !.flags[w] = @ \cup {"IGNORE"}]
  <2>1. Good(r, M, K) /\ b \in State
    BY <1>1, <1>3, IgnoreGood, KnownType
  <2>2. /\ r.app = b.app /\ r.group = b.group
        /\ r.flags = [b.flags EXCEPT ![w] = @ \cup {"IGNORE"}]
    BY <2>1 DEF State
  <2>3. r.flags[o] = b.flags[o] /\ r.flags[w] = b.flags[w] \cup {"IGNORE"}
    BY <1>1, <2>1, <2>2 DEF State
  <2> HIDE DEF r
  <2>4. Alone(s, r, w, o)
    BY <1>3, <2>2, <2>3 DEF Alone
  <2> QED
    BY <1>3, <2>1, <2>4 DEF r
<1> HIDE DEF c
<1>5. Good(d, M, K) /\ Joined(s, d, w, o) /\ ~Has(d, w, "STICKY")
  <2>1. Good(d, M, K)
    BY <1>1, <1>4, TransientGood
  <2>2. Joined(c, d, w, o) /\ ~Has(d, w, "STICKY")
    BY <1>1, <1>4, TransientJoins DEF Alone
  <2> HIDE DEF d
  <2> QED
    BY <1>4, <2>1, <2>2 DEF Alone, Joined, Has
<1> HIDE DEF d
<1>6. e \in State /\ Joined(s, e, w, o) /\ ~Has(e, w, "STICKY")
  <2> DEFINE q == Append(d.clientq, w)
             r == [d EXCEPT !.clientq = q]
  <2>1. d \in State /\ q \in Seq(Windows)
    <3>1. d \in State
      BY <1>5, KnownType
    <3>2. d.clientq \in Seq(Windows)
      BY <3>1 DEF State
    <3> QED
      BY <3>1, <3>2, AppendProperties
  <2> HIDE DEF q
  <2>2. r \in State /\ r.group = d.group /\ r.flags = d.flags
    BY <2>1 DEF State
  <2>3. e = ListClients(r)
    BY DEF q
  <2> HIDE DEF r, e
  <2>4. e \in State /\ e.group = d.group /\ e.flags = d.flags
    BY <2>2, <2>3, ListClientsType DEF ListClients, State
  <2> QED
    BY <1>5, <2>4 DEF Joined, Has
<1> HIDE DEF e
<1>7. f \in State /\ Joined(s, f, w, o)
  BY <1>6, StateJoined
<1> HIDE DEF f
<1>8. g \in State /\ Joined(s, g, w, o)
  BY <1>7, StateJoined
<1> HIDE DEF g
<1>9. Joined(s, Hide(g, w), w, o) /\ Joined(s, Unhide(g, w), w, o)
  BY <1>8, StateJoined
<1>10. ClientInit(s, w, hint, atoms) =
         IF g.wm_state[w] = "Iconic" THEN Hide(g, w) ELSE Unhide(g, w)
  BY DEF ClientInit, a, b, c, d, e, f, g
<1>11. ClientInit(s, w, hint, atoms) \in State
  <2> DEFINE t == ClientInit(s, w, hint, atoms)
  <2>1. Good(t, M \cup {w}, M \cup {w})
    BY ClientInitGood
  <2> HIDE DEF t
  <2> QED
    BY <2>1 DEF Good, t
<1> QED
  BY <1>9, <1>10, <1>11

\* The property, of one step.
DialogJoins ==
  \A w \in Windows :
    LET owner == TransientFor[w]
    IN w \notin Managed(S) /\ owner \in Managed(S) /\ w \in Managed(S)'
         => /\ group'[w] = group[owner]
            /\ Has(S, owner, "IGNORE") => Has(S', w, "IGNORE")

\* xev_handle_maprequest, the one handler that makes a window managed.
LEMMA MapRequestJoins ==
  ASSUME IInv, NEW v \in Windows, HandleMapRequest(v)
  PROVE  DialogJoins
<1> SUFFICES ASSUME NEW w \in Windows, w \notin Managed(S),
                    TransientFor[w] \in Managed(S), w \in Managed(S)'
             PROVE  Joined(S, S', w, TransientFor[w])
  <2>1. S.group = group /\ S'.group = group'
    BY DEF S
  <2> QED
    BY <2>1 DEF DialogJoins, Joined
<1> DEFINE M == Managed(S)
           o == TransientFor[w]
<1>1. PICK hint \in {"none", "Normal", "Iconic"}, atoms \in SUBSET Atoms :
        Become(MapRequested(Rest, v, hint, atoms))
  BY DEF HandleMapRequest
<1>2. Good(Rest, M, M) /\ Rest \in State /\ Managed(Rest) = M
  <2>1. Good(Rest, M, M)
    BY RestGood DEF HandleMapRequest, Next_Event
  <2> QED
    BY <2>1 DEF Good
<1>3. Rest.group = S.group /\ Rest.flags = S.flags /\ Rest.app = S.app
  <2>1. S \in State
    BY Current
  <2> QED
    BY <2>1 DEF Rest, State
<1> DEFINE m == MapRequested(Rest, v, hint, atoms)
<1>4. S' = m /\ Managed(m) = Managed(S)'
  <2>1. PICK N : Good(m, N, N)
    BY <1>2, MapRequestedGood
  <2>2. m \in State
    BY <2>1 DEF Good
  <2>3. S' = m
    BY <1>1, <2>2 DEF Become, S, State
  <2> QED
    BY <2>3
<1>5. CASE v \notin M /\ Rest.app[v] = "gone"
  <2>1. m = [Rest EXCEPT !.alive = FALSE]
    BY <1>2, <1>5 DEF MapRequested
  <2>2. m.clientq = Rest.clientq
    BY <1>2, <2>1 DEF State
  <2>3. Managed(m) = M
    BY <1>2, <2>2 DEF Managed
  <2> QED
    BY <1>4, <2>3
<1>6. CASE v \in M
  <2>1. m = IF Has(Rest, v, "IGNORE") THEN Rest ELSE PtrWarp(Rest, v)
    BY <1>2, <1>6 DEF MapRequested
  <2>2. Good(PtrWarp(Rest, v), M, M)
    BY <1>2, <1>6, PtrWarpGood
  <2>3. Managed(m) = M
    BY <1>2, <2>1, <2>2 DEF Good
  <2> QED
    BY <1>4, <2>3
<1>7. CASE v \notin M /\ Rest.app[v] # "gone"
  <2> DEFINE t == ClientInit(Rest, v, hint, atoms)
             N == M \cup {v}
  <2>1. m = IF Has(t, v, "IGNORE") THEN t ELSE PtrWarp(t, v)
    BY <1>2, <1>7 DEF MapRequested
  <2>2. Good(t, N, N)
    BY <1>2, <1>7, ClientInitGood
  <2>3. Good(PtrWarp(t, v), N, N)
    BY <2>2, PtrWarpGood
  <2>4. Managed(m) = N
    BY <2>1, <2>2, <2>3 DEF Good
  <2>5. w = v
    BY <1>4, <2>4
  <2>6. t \in State /\ Joined(Rest, t, w, o)
    BY <1>2, <1>7, <2>5, ClientInitJoins
  <2> HIDE DEF t, m
  <2>7. Joined(Rest, PtrWarp(t, w), w, o)
    BY <2>6, StateJoined
  <2>8. Joined(Rest, m, w, o)
    BY <2>1, <2>5, <2>6, <2>7
  <2> QED
    BY <1>3, <1>4, <2>8 DEF Joined, Has
<1> QED
  BY <1>5, <1>6, <1>7

\* A dialog that cwm takes over joins the group of the window it belongs to, and
\* is ignored with it, whatever group its own properties, the autogroup
\* directives and _NET_WM_STATE ask for.
THEOREM DialogsJoinHolds == Spec => DialogsJoin
<1>1. IInv /\ [Next]_vars => DialogJoins
  <2> SUFFICES ASSUME IInv, [Next]_vars PROVE DialogJoins
    OBVIOUS
  <2>1. CASE \E w \in Windows : HandleMapRequest(w)
    BY <2>1, MapRequestJoins
  <2>2. CASE ~ \E w \in Windows : HandleMapRequest(w)
    BY <2>2, NextKept DEF Kept, DialogJoins
  <2> QED
    BY <2>1, <2>2
<1>2. DialogsJoin <=> [][DialogJoins]_vars
  BY DEF DialogsJoin, DialogJoins
<1>3. Spec => [][DialogJoins]_vars
  BY <1>1, Invariant, PTL DEF Spec
<1> QED
  BY <1>2, <1>3

----------------------------------------------------------------------------
(* What cwm promises when commands and messages come only after it has     *)
(* read every event: no window is lost, and none is kept.  The invariant   *)
(* relates the unread events to the windows they are of.                   *)

EventRecords == [type : EventTypes, win : Windows]

\* The positions in q of the events of one type for w.
Unread(q, type, w) == {i \in 1 .. Len(q) : q[i].type = type /\ q[i].win = w}

\* Where the unread events of a window may be that is managed, hidden and
\* mapped or not, and of which the application wants a.  What cwm hid it hid
\* before it was asked to map it again, and a window on display that was
\* unmapped has one event to say so.
SaneAt(maps, unmaps, destroys, managed, hidden, mapd, a) ==
  /\ destroys # {} => a = "gone" /\ maps = {}
  /\ \A i \in unmaps, j \in destroys : i < j
  /\ ~managed => ~mapd /\ unmaps = {} /\ (maps # {} => a = "shown")
  /\ managed /\ hidden =>
       /\ ~mapd /\ a # "withdrawn" /\ (a = "gone" => destroys # {})
       /\ \A i \in unmaps, j \in maps : i < j
  /\ managed /\ ~hidden /\ mapd => a = "shown" /\ unmaps = {}
  /\ managed /\ ~hidden /\ ~mapd =>
       \E i \in unmaps : unmaps = {i} /\ \A j \in maps : i < j => a = "shown"

Sane(q, w, managed, hidden, mapd, a) ==
  SaneAt(Unread(q, "MapRequest", w), Unread(q, "UnmapNotify", w),
         Unread(q, "DestroyNotify", w), managed, hidden, mapd, a)

Orderly(s) ==
  /\ s.alive
  /\ \A w \in Windows :
       Sane(s.evq, w, w \in Managed(s), Has(s, w, "HIDDEN"), s.mapped[w], s.app[w])

\* After a command, which ran when every event had been read, the windows are
\* where the flags say, and only what the command hid has events.
Settled(s) ==
  /\ s.alive
  /\ \A w \in Windows :
       IF w \in Managed(s)
         THEN s.app[w] = "shown" /\ (s.mapped[w] <=> ~Has(s, w, "HIDDEN"))
         ELSE ~s.mapped[w]
  /\ \A i \in 1 .. Len(s.evq) :
       /\ s.evq[i].type = "UnmapNotify"
       /\ Has(s, s.evq[i].win, "HIDDEN")

OInv == IInv /\ Orderly(S)

\* The applications are tidy, and commands wait until cwm is idle.
CalmDesk == Calm /\ Habits \subseteq {"preset_desktop"}

----------------------------------------------------------------------------
(* The event queue.                                                        *)

\* Reading an event moves the others up.
LEMMA UnreadTail ==
  ASSUME NEW q \in Seq(EventRecords), q # <<>>, NEW type, NEW w
  PROVE  \A i : i \in Unread(Tail(q), type, w)
                  <=> i \in Nat \ {0} /\ i + 1 \in Unread(q, type, w)
<1> DEFINE t == Tail(q)
<1>1. /\ Len(q) \in Nat \ {0} /\ Len(t) = Len(q) - 1
      /\ \A i \in 1 .. Len(t) : t[i] = q[i + 1]
  BY HeadTailProperties, LenProperties, EmptySeq
<1> HIDE DEF t
<1> SUFFICES ASSUME NEW i
             PROVE  i \in Unread(t, type, w)
                      <=> i \in Nat \ {0} /\ i + 1 \in Unread(q, type, w)
  BY DEF t
<1>2. CASE i \in Nat \ {0}
  <2>1. i \in 1 .. Len(t) <=> i + 1 \in 1 .. Len(q)
    BY <1>1, <1>2
  <2> QED
    BY <1>1, <1>2, <2>1 DEF Unread
<1>3. CASE i \notin Nat \ {0}
  BY <1>1, <1>3 DEF Unread
<1> QED
  BY <1>2, <1>3

\* The event that is read is the first.
LEMMA UnreadHead ==
  ASSUME NEW q \in Seq(EventRecords), q # <<>>, NEW type, NEW w
  PROVE  /\ 1 \in Unread(q, type, w) <=> Head(q).type = type /\ Head(q).win = w
         /\ Unread(q, type, w) \subseteq Nat \ {0}
<1>1. Len(q) \in Nat \ {0} /\ Head(q) = q[1]
  BY LenProperties, EmptySeq
<1> QED
  BY <1>1 DEF Unread

\* An event that is sent comes after all others.
LEMMA UnreadAppend ==
  ASSUME NEW q \in Seq(EventRecords), NEW e \in EventRecords, NEW type, NEW w
  PROVE  /\ Unread(Append(q, e), type, w)
              = IF e.type = type /\ e.win = w
                  THEN Unread(q, type, w) \cup {Len(q) + 1} ELSE Unread(q, type, w)
         /\ \A i \in Unread(q, type, w) : i \in Nat /\ i < Len(q) + 1
         /\ Len(q) + 1 \in Nat
<1> DEFINE r == Append(q, e)
<1>1. /\ Len(q) \in Nat /\ Len(r) = Len(q) + 1 /\ r[Len(q) + 1] = e
      /\ \A i \in 1 .. Len(q) : r[i] = q[i]
  BY AppendProperties, LenProperties
<1> HIDE DEF r
<1>2. \A i \in 1 .. Len(r) : i \in 1 .. Len(q) \/ i = Len(q) + 1
  BY <1>1
<1>3. \A i \in 1 .. Len(q) : i \in 1 .. Len(r) /\ i # Len(q) + 1
  BY <1>1
<1>4. Len(q) + 1 \in 1 .. Len(r)
  BY <1>1
<1> QED
  BY <1>1, <1>2, <1>3, <1>4 DEF Unread, r

----------------------------------------------------------------------------
(* One window.                                                             *)

\* cwm reads an event that is not about w, or only asks for w to be mapped.
LEMMA SaneOther ==
  ASSUME NEW q \in Seq(EventRecords), q # <<>>, NEW w, NEW k \in BOOLEAN,
         NEW h \in BOOLEAN, NEW p \in BOOLEAN, NEW a, Sane(q, w, k, h, p, a),
         Head(q).win = w => Head(q).type \in {"MapRequest", "SendUnmap"}
  PROVE  Sane(Tail(q), w, k, h, p, a)
<1> DEFINE M == Unread(q, "MapRequest", w)
           U == Unread(q, "UnmapNotify", w)
           D == Unread(q, "DestroyNotify", w)
           M1 == Unread(Tail(q), "MapRequest", w)
           U1 == Unread(Tail(q), "UnmapNotify", w)
           D1 == Unread(Tail(q), "DestroyNotify", w)
<1>1. /\ M \subseteq Nat \ {0} /\ U \subseteq Nat \ {0} /\ D \subseteq Nat \ {0}
      /\ 1 \notin U /\ 1 \notin D
  BY UnreadHead
<1>2. /\ \A i : i \in M1 <=> i \in Nat \ {0} /\ i + 1 \in M
      /\ \A i : i \in U1 <=> i \in Nat \ {0} /\ i + 1 \in U
      /\ \A i : i \in D1 <=> i \in Nat \ {0} /\ i + 1 \in D
  BY UnreadTail
<1>3. D # {} => D1 # {}
  <2> SUFFICES ASSUME NEW i \in D PROVE i - 1 \in D1
    OBVIOUS
  <2>1. i \in Nat \ {0} /\ i # 1
    BY <1>1
  <2> HIDE DEF D, D1
  <2>2. i - 1 \in Nat \ {0} /\ (i - 1) + 1 = i
    BY <2>1
  <2> QED
    BY <1>2, <2>2
<1>4. ASSUME NEW i \in U, U = {i} PROVE i - 1 \in U1 /\ U1 = {i - 1}
  <2>1. i \in Nat \ {0} /\ i # 1
    BY <1>1
  <2> HIDE DEF U, U1
  <2>2. i - 1 \in Nat \ {0} /\ (i - 1) + 1 = i
    BY <2>1
  <2>3. i - 1 \in U1
    BY <1>2, <2>2
  <2>4. ASSUME NEW j \in U1 PROVE j = i - 1
    BY <1>2, <1>4, <2>1
  <2> QED
    BY <2>3, <2>4
<1>5. /\ D # {} => a = "gone" /\ M = {}
      /\ \A i \in U, j \in D : i < j
      /\ ~k => ~p /\ U = {} /\ (M # {} => a = "shown")
      /\ k /\ h => /\ ~p /\ a # "withdrawn" /\ (a = "gone" => D # {})
                   /\ \A i \in U, j \in M : i < j
      /\ k /\ ~h /\ p => a = "shown" /\ U = {}
      /\ k /\ ~h /\ ~p =>
           \E i \in U : U = {i} /\ \A j \in M : i < j => a = "shown"
  BY DEF Sane, SaneAt
<1> SUFFICES
      /\ D1 # {} => a = "gone" /\ M1 = {}
      /\ \A i \in U1, j \in D1 : i < j
      /\ ~k => ~p /\ U1 = {} /\ (M1 # {} => a = "shown")
      /\ k /\ h => /\ ~p /\ a # "withdrawn" /\ (a = "gone" => D1 # {})
                   /\ \A i \in U1, j \in M1 : i < j
      /\ k /\ ~h /\ p => a = "shown" /\ U1 = {}
      /\ k /\ ~h /\ ~p =>
           \E i \in U1 : U1 = {i} /\ \A j \in M1 : i < j => a = "shown"
  BY DEF Sane, SaneAt
<1> HIDE DEF M, U, D, M1, U1, D1
<1>6. /\ D1 # {} => a = "gone" /\ M1 = {}
      /\ ~k => ~p /\ U1 = {} /\ (M1 # {} => a = "shown")
      /\ k /\ ~h /\ p => a = "shown" /\ U1 = {}
      /\ k /\ h => ~p /\ a # "withdrawn" /\ (a = "gone" => D1 # {})
  BY <1>2, <1>3, <1>5
<1>7. \A i \in U1, j \in D1 : i < j
  BY <1>2, <1>5
<1>8. k /\ h => \A i \in U1, j \in M1 : i < j
  BY <1>2, <1>5
<1>9. ASSUME k, ~h, ~p
      PROVE  \E i \in U1 : U1 = {i} /\ \A j \in M1 : i < j => a = "shown"
  <2>1. PICK i \in U : U = {i} /\ \A j \in M : i < j => a = "shown"
    BY <1>5, <1>9
  <2>2. i - 1 \in U1 /\ U1 = {i - 1}
    BY <1>4, <2>1
  <2>3. \A j \in M1 : i - 1 < j => a = "shown"
    BY <1>1, <1>2, <2>1
  <2> QED
    BY <2>2, <2>3
<1> QED
  BY <1>6, <1>7, <1>8, <1>9

\* What Tail does to the positions, and to those of an event at the head.
LEMMA TailParts ==
  ASSUME NEW q \in Seq(EventRecords), q # <<>>, NEW type, NEW w,
         NEW X, X = Unread(q, type, w), NEW Y, Y = Unread(Tail(q), type, w)
  PROVE  /\ X \subseteq Nat \ {0} /\ Y \subseteq Nat \ {0}
         /\ \A i \in Y : i + 1 \in X
         /\ \A i \in X : i # 1 => i - 1 \in Y
         /\ 1 \in X <=> Head(q).type = type /\ Head(q).win = w
<1>1. \A i : i \in Y <=> i \in Nat \ {0} /\ i + 1 \in X
  BY UnreadTail
<1>2. X \subseteq Nat \ {0} /\ (1 \in X <=> Head(q).type = type /\ Head(q).win = w)
  BY UnreadHead
<1>3. ASSUME NEW i \in X, i # 1 PROVE i - 1 \in Y
  <2>1. i \in Nat \ {0, 1}
    BY <1>2, <1>3
  <2>2. i - 1 \in Nat \ {0} /\ (i - 1) + 1 = i
    BY <2>1
  <2> QED
    BY <1>1, <2>2
<1> QED
  BY <1>1, <1>2, <1>3

\* xev_handle_unmapnotify for a window cwm has hidden: the event was its own.
\* Not hidden, the window is let go; it cannot be unknown.
LEMMA SaneUnmap ==
  ASSUME NEW q \in Seq(EventRecords), q # <<>>, NEW w, NEW k \in BOOLEAN,
         NEW h \in BOOLEAN, NEW p \in BOOLEAN,
         NEW a \in {"gone", "withdrawn", "shown"}, Sane(q, w, k, h, p, a),
         Head(q).win = w, Head(q).type = "UnmapNotify"
  PROVE  /\ k
         /\ h => Sane(Tail(q), w, k, h, p, a)
         /\ ~h => ~p /\ Sane(Tail(q), w, FALSE, FALSE, p, a)
<1>0. PICK M, U, D, M1, U1, D1 :
        /\ M = Unread(q, "MapRequest", w) /\ M1 = Unread(Tail(q), "MapRequest", w)
        /\ U = Unread(q, "UnmapNotify", w) /\ U1 = Unread(Tail(q), "UnmapNotify", w)
        /\ D = Unread(q, "DestroyNotify", w)
        /\ D1 = Unread(Tail(q), "DestroyNotify", w)
  OBVIOUS
<1>1. /\ M \subseteq Nat \ {0} /\ M1 \subseteq Nat \ {0}
      /\ \A i \in M1 : i + 1 \in M
      /\ \A i \in M : i # 1 => i - 1 \in M1
      /\ 1 \notin M
  BY <1>0, TailParts
<1>2. /\ U \subseteq Nat \ {0} /\ U1 \subseteq Nat \ {0}
      /\ \A i \in U1 : i + 1 \in U
      /\ \A i \in U : i # 1 => i - 1 \in U1
      /\ 1 \in U
  BY <1>0, TailParts
<1>3. /\ D \subseteq Nat \ {0} /\ D1 \subseteq Nat \ {0}
      /\ \A i \in D1 : i + 1 \in D
      /\ \A i \in D : i # 1 => i - 1 \in D1
      /\ 1 \notin D
  BY <1>0, TailParts
<1>4. /\ D # {} => a = "gone" /\ M = {}
      /\ \A i \in U, j \in D : i < j
      /\ ~k => ~p /\ U = {} /\ (M # {} => a = "shown")
      /\ k /\ h => /\ ~p /\ a # "withdrawn" /\ (a = "gone" => D # {})
                   /\ \A i \in U, j \in M : i < j
      /\ k /\ ~h /\ p => a = "shown" /\ U = {}
      /\ k /\ ~h /\ ~p =>
           \E i \in U : U = {i} /\ \A j \in M : i < j => a = "shown"
  BY <1>0 DEF Sane, SaneAt
<1>5. k
  BY <1>2, <1>4
<1>6. /\ D1 # {} => a = "gone" /\ M1 = {}
      /\ \A i \in U1, j \in D1 : i < j
  <2>1. D1 # {} => a = "gone" /\ M1 = {}
    BY <1>1, <1>3, <1>4
  <2>2. \A i \in U1, j \in D1 : i < j
    BY <1>2, <1>3, <1>4
  <2> QED
    BY <2>1, <2>2
<1>7. CASE h
  <2>1. D # {} => D1 # {}
    BY <1>3
  <2>2. \A i \in U1, j \in M1 : i < j
    BY <1>1, <1>2, <1>4, <1>5, <1>7
  <2>3. Sane(Tail(q), w, k, h, p, a)
    BY <1>0, <1>4, <1>5, <1>6, <1>7, <2>1, <2>2 DEF Sane, SaneAt
  <2> QED
    BY <1>5, <1>7, <2>3
<1>8. CASE ~h
  <2>1. ~p
    BY <1>2, <1>4, <1>5, <1>8
  <2>2. U = {1} /\ \A j \in M : 1 < j => a = "shown"
    BY <1>2, <1>4, <1>5, <1>8, <2>1
  <2>3. U1 = {}
    BY <1>2, <2>2
  <2>4. \A j \in M1 : j + 1 > 1
    BY <1>1
  <2>5. M1 # {} => a = "shown"
    BY <1>1, <2>2, <2>4
  <2>6. Sane(Tail(q), w, FALSE, FALSE, p, a)
    BY <1>0, <1>6, <2>1, <2>3, <2>5 DEF Sane, SaneAt
  <2> QED
    BY <1>5, <1>8, <2>1, <2>6
<1> QED
  BY <1>7, <1>8

\* xev_handle_destroynotify: all that was to be read of the window is.
LEMMA SaneDestroy ==
  ASSUME NEW q \in Seq(EventRecords), q # <<>>, NEW w, NEW k \in BOOLEAN,
         NEW h \in BOOLEAN, NEW p \in BOOLEAN,
         NEW a \in {"gone", "withdrawn", "shown"}, Sane(q, w, k, h, p, a),
         Head(q).win = w, Head(q).type = "DestroyNotify"
  PROVE  /\ ~p
         /\ Sane(Tail(q), w, FALSE, FALSE, p, a)
<1>0. PICK M, U, D, M1, U1, D1 :
        /\ M = Unread(q, "MapRequest", w) /\ M1 = Unread(Tail(q), "MapRequest", w)
        /\ U = Unread(q, "UnmapNotify", w) /\ U1 = Unread(Tail(q), "UnmapNotify", w)
        /\ D = Unread(q, "DestroyNotify", w)
        /\ D1 = Unread(Tail(q), "DestroyNotify", w)
  OBVIOUS
<1>1. \A i \in M1 : i + 1 \in M
  BY <1>0, TailParts
<1>2. U \subseteq Nat \ {0} /\ \A i \in U1 : i + 1 \in U
  BY <1>0, TailParts
<1>3. 1 \in D
  BY <1>0, TailParts
<1>4. /\ D # {} => a = "gone" /\ M = {}
      /\ \A i \in U, j \in D : i < j
      /\ ~k => ~p /\ U = {} /\ (M # {} => a = "shown")
      /\ k /\ h => ~p
      /\ k /\ ~h /\ p => a = "shown" /\ U = {}
  BY <1>0 DEF Sane, SaneAt
<1>5. a = "gone" /\ M = {} /\ U = {}
  BY <1>2, <1>3, <1>4
<1>6. ~p
  BY <1>4, <1>5
<1>7. M1 = {} /\ U1 = {}
  BY <1>1, <1>2, <1>5
<1>8. Sane(Tail(q), w, FALSE, FALSE, p, a)
  BY <1>0, <1>5, <1>6, <1>7 DEF Sane, SaneAt
<1> QED
  BY <1>6, <1>8

\* xev_handle_maprequest: the window is there, and whether it becomes managed
\* or is shown again, nothing is unread that would contradict what it becomes.
LEMMA SaneMap ==
  ASSUME NEW q \in Seq(EventRecords), q # <<>>, NEW w, NEW k \in BOOLEAN,
         NEW h \in BOOLEAN, NEW p \in BOOLEAN, NEW a \in {"gone", "withdrawn", "shown"},
         Sane(q, w, k, h, p, a),
         Head(q).win = w, Head(q).type = "MapRequest"
  PROVE  /\ ~k => a = "shown" /\ ~p /\ \A x \in BOOLEAN : Sane(Tail(q), w, TRUE, x, ~x, a)
         /\ k /\ h => a = "shown" /\ Sane(Tail(q), w, TRUE, FALSE, TRUE, a)
<1>0. PICK M, U, D, M1, U1, D1 :
        /\ M = Unread(q, "MapRequest", w) /\ M1 = Unread(Tail(q), "MapRequest", w)
        /\ U = Unread(q, "UnmapNotify", w) /\ U1 = Unread(Tail(q), "UnmapNotify", w)
        /\ D = Unread(q, "DestroyNotify", w)
        /\ D1 = Unread(Tail(q), "DestroyNotify", w)
  OBVIOUS
<1>1. 1 \in M
  BY <1>0, TailParts
<1>2. U \subseteq Nat \ {0} /\ \A i \in U1 : i + 1 \in U
  BY <1>0, TailParts
<1>3. \A i \in D1 : i + 1 \in D
  BY <1>0, TailParts
<1>4. /\ D # {} => a = "gone" /\ M = {}
      /\ ~k => ~p /\ U = {} /\ (M # {} => a = "shown")
      /\ k /\ h => /\ ~p /\ a # "withdrawn" /\ (a = "gone" => D # {})
                   /\ \A i \in U, j \in M : i < j
  BY <1>0 DEF Sane, SaneAt
<1>5. D = {} /\ D1 = {}
  BY <1>1, <1>3, <1>4
<1>6. CASE ~k
  <2>1. a = "shown" /\ ~p /\ U1 = {}
    BY <1>1, <1>2, <1>4, <1>6
  <2>2. ASSUME NEW x \in BOOLEAN PROVE Sane(Tail(q), w, TRUE, x, ~x, a)
    BY <1>0, <1>5, <2>1 DEF Sane, SaneAt
  <2> QED
    BY <1>6, <2>1, <2>2
<1>7. CASE k /\ h
  <2>1. a = "shown" /\ ~p
    BY <1>4, <1>5, <1>7
  <2>2. U = {}
    BY <1>1, <1>2, <1>4, <1>7
  <2>3. U1 = {}
    BY <1>2, <2>2
  <2>4. Sane(Tail(q), w, TRUE, FALSE, TRUE, a)
    BY <1>0, <1>5, <2>1, <2>3 DEF Sane, SaneAt
  <2> QED
    BY <1>7, <2>1, <2>4
<1> QED
  BY <1>6, <1>7

\* The application sends an event that says nothing of w.
LEMMA SaneSent ==
  ASSUME NEW q \in Seq(EventRecords), NEW e \in EventRecords, NEW w, NEW k, NEW h,
         NEW p, NEW a, Sane(q, w, k, h, p, a), e.win # w \/ e.type = "SendUnmap"
  PROVE  Sane(Append(q, e), w, k, h, p, a)
<1>1. ASSUME NEW type \in {"MapRequest", "UnmapNotify", "DestroyNotify"}
      PROVE  Unread(Append(q, e), type, w) = Unread(q, type, w)
  BY <1>1, UnreadAppend
<1> QED
  BY <1>1 DEF Sane

\* The application unmaps a window that is on display.
LEMMA SaneUnmapped ==
  ASSUME NEW q \in Seq(EventRecords), NEW w \in Windows, NEW k, NEW h, NEW a,
         Sane(q, w, k, h, TRUE, a)
  PROVE  a = "shown" /\ Sane(Append(q, Event("UnmapNotify", w)), w, k, h, FALSE, "withdrawn")
<1> DEFINE e == Event("UnmapNotify", w)
           r == Append(q, e)
<1>1. e \in EventRecords /\ e.type = "UnmapNotify" /\ e.win = w
  BY DEF EventRecords, Event, EventTypes
<1> HIDE DEF e
<1> DEFINE n == Len(q) + 1
           M == Unread(q, "MapRequest", w)
<1>2. /\ Unread(r, "MapRequest", w) = M
      /\ Unread(r, "DestroyNotify", w) = Unread(q, "DestroyNotify", w)
      /\ Unread(r, "UnmapNotify", w) = Unread(q, "UnmapNotify", w) \cup {n}
      /\ n \in Nat /\ \A j \in M : j \in Nat /\ j < n
  BY <1>1, UnreadAppend
<1>3. /\ k /\ ~h /\ a = "shown" /\ Unread(q, "UnmapNotify", w) = {}
      /\ Unread(q, "DestroyNotify", w) = {}
  BY DEF Sane, SaneAt
<1> HIDE DEF n, M, r
<1>4. \A j \in M : ~(n < j)
  BY <1>2
<1>5. SaneAt(M, {n}, {}, k, h, FALSE, "withdrawn")
  BY <1>3, <1>4 DEF SaneAt
<1>6. Sane(r, w, k, h, FALSE, "withdrawn")
  BY <1>2, <1>3, <1>5 DEF Sane
<1> QED
  BY <1>3, <1>6 DEF r, e

\* The application destroys a window that is not mapped, or no more.
LEMMA SaneDestroyed ==
  ASSUME NEW q \in Seq(EventRecords), NEW w \in Windows, NEW k, NEW h, NEW a,
         Sane(q, w, k, h, FALSE, a), a # "gone", Unread(q, "MapRequest", w) = {}
  PROVE  Sane(Append(q, Event("DestroyNotify", w)), w, k, h, FALSE, "gone")
<1> DEFINE e == Event("DestroyNotify", w)
           r == Append(q, e)
<1>1. e \in EventRecords /\ e.type = "DestroyNotify" /\ e.win = w
  BY DEF EventRecords, Event, EventTypes
<1> HIDE DEF e
<1> DEFINE n == Len(q) + 1
           U == Unread(q, "UnmapNotify", w)
<1>2. /\ Unread(r, "UnmapNotify", w) = U
      /\ Unread(r, "DestroyNotify", w) = Unread(q, "DestroyNotify", w) \cup {n}
      /\ Unread(r, "MapRequest", w) = {}
      /\ n \in Nat /\ \A j \in U : j \in Nat /\ j < n
  BY <1>1, UnreadAppend
<1>3. Unread(q, "DestroyNotify", w) = {}
  BY DEF Sane, SaneAt
<1>4. SaneAt({}, U, {}, k, h, FALSE, a)
  BY <1>3 DEF Sane
<1> HIDE DEF n, U, r
<1>5. SaneAt({}, U, {n}, k, h, FALSE, "gone")
  BY <1>2, <1>4 DEF SaneAt
<1>6. Sane(r, w, k, h, FALSE, "gone")
  BY <1>2, <1>3, <1>5 DEF Sane
<1> QED
  BY <1>6 DEF r, e

\* The application asks for its window to be mapped.
LEMMA SaneMapped ==
  ASSUME NEW q \in Seq(EventRecords), NEW w \in Windows, NEW k, NEW h, NEW a,
         Sane(q, w, k, h, FALSE, a), a # "gone"
  PROVE  Sane(Append(q, Event("MapRequest", w)), w, k, h, FALSE, "shown")
<1> DEFINE e == Event("MapRequest", w)
           r == Append(q, e)
<1>1. e \in EventRecords /\ e.type = "MapRequest" /\ e.win = w
  BY DEF EventRecords, Event, EventTypes
<1> HIDE DEF e
<1> DEFINE n == Len(q) + 1
           U == Unread(q, "UnmapNotify", w)
           M == Unread(q, "MapRequest", w)
<1>2. /\ Unread(r, "UnmapNotify", w) = U
      /\ Unread(r, "DestroyNotify", w) = Unread(q, "DestroyNotify", w)
      /\ Unread(r, "MapRequest", w) = M \cup {n}
      /\ n \in Nat /\ \A j \in U : j \in Nat /\ j < n
  BY <1>1, UnreadAppend
<1>3. Unread(q, "DestroyNotify", w) = {}
  BY DEF Sane, SaneAt
<1>4. SaneAt(M, U, {}, k, h, FALSE, a)
  BY <1>3 DEF Sane
<1> HIDE DEF n, U, M, r
<1>5. SaneAt(M \cup {n}, U, {}, k, h, FALSE, "shown")
  BY <1>2, <1>4 DEF SaneAt
<1>6. Sane(r, w, k, h, FALSE, "shown")
  BY <1>2, <1>3, <1>5 DEF Sane
<1> QED
  BY <1>6 DEF r, e

----------------------------------------------------------------------------
(* Commands and messages, which run when every event has been read.        *)

\* The events of a hiding are of the windows hidden.
LEMMA EventsKind ==
  ASSUME NEW U \in SUBSET Windows
  PROVE  LET q == Events("UnmapNotify", U)
         IN /\ q \in Seq(EventRecords)
            /\ \A i \in 1 .. Len(q) : q[i].type = "UnmapNotify" /\ q[i].win \in U
<1> DEFINE q == SetToSeq(U)
           r == [i \in DOMAIN q |-> Event("UnmapNotify", q[i])]
<1>1. q \in Seq(U)
  BY ClientsAssumption, FS_Subset, SetToSeqType
<1>2. "UnmapNotify" \in EventTypes
  BY DEF EventTypes
<1>3. Events("UnmapNotify", U) \in Seq(EventRecords)
  BY <1>2, EventsType DEF EventRecords
<1>4. Events("UnmapNotify", U) = r
  BY DEF Events
<1> HIDE DEF q
<1>5. r \in [1 .. Len(q) -> EventRecords] /\ Len(q) \in Nat
  BY <1>1, <1>2 DEF Event, EventRecords
<1>6. Len(r) = Len(q)
  BY <1>5
<1>7. \A i \in 1 .. Len(q) : q[i] \in U /\ r[i] = Event("UnmapNotify", q[i])
  BY <1>1
<1>8. ASSUME NEW i \in 1 .. Len(q)
      PROVE  r[i].type = "UnmapNotify" /\ r[i].win \in U
  <2>1. r[i] = [type |-> "UnmapNotify", win |-> q[i]] /\ q[i] \in U
    BY <1>7 DEF Event
  <2> HIDE DEF r
  <2> QED
    BY <2>1
<1> HIDE DEF r
<1> QED
  BY <1>3, <1>4, <1>6, <1>8

\* The events of a state have types and windows.
LEMMA EventTyped ==
  ASSUME NEW s \in State
  PROVE  /\ s.evq \in Seq(EventRecords)
         /\ \A i \in 1 .. Len(s.evq) : s.evq[i].win \in Windows
<1> DEFINE q == s.evq
<1>1. q \in Seq(EventRecords)
  BY DEF State, EventRecords
<1> HIDE DEF q
<1>2. ASSUME NEW i \in 1 .. Len(q) PROVE q[i].win \in Windows
  <2>1. q[i] \in EventRecords
    BY <1>1
  <2> QED
    BY <2>1 DEF EventRecords
<1> QED
  BY <1>1, <1>2 DEF q

\* What client_hide adds to the event queue.
LEMMA HideAllEvents ==
  ASSUME NEW s \in State, NEW W \in SUBSET Clients
  PROVE  LET t == HideAll(s, W)
             U == {w \in Windows : w \in W /\ s.mapped[w] /\ ~Has(s, w, "STICKY")}
         IN /\ t.evq = s.evq \o Events("UnmapNotify", U)
            /\ t.alive = s.alive
            /\ \A i \in 1 .. Len(t.evq) :
                 \/ i \in 1 .. Len(s.evq) /\ t.evq[i] = s.evq[i]
                 \/ t.evq[i].type = "UnmapNotify" /\ t.evq[i].win \in U
<1> DEFINE t == HideAll(s, W)
           U == {w \in Windows : w \in W /\ s.mapped[w] /\ ~Has(s, w, "STICKY")}
           r == Events("UnmapNotify", U)
           L == {c \in W : ~Has(s, c, "STICKY")}
<1>1. {w \in L \cap Windows : s.mapped[w]} = U
  OBVIOUS
<1> HIDE DEF U
<1>2. t.evq = s.evq \o r /\ t.alive = s.alive
  BY <1>1 DEF HideAll, State
<1> HIDE DEF t
<1>3. /\ s.evq \in Seq(EventRecords) /\ r \in Seq(EventRecords)
      /\ \A i \in 1 .. Len(r) : r[i].type = "UnmapNotify" /\ r[i].win \in U
  <2>1. U \in SUBSET Windows
    BY DEF U
  <2> QED
    BY <2>1, EventTyped, EventsKind
<1> HIDE DEF r
<1>4. ASSUME NEW i \in 1 .. Len(t.evq)
      PROVE  \/ i \in 1 .. Len(s.evq) /\ t.evq[i] = s.evq[i]
             \/ t.evq[i].type = "UnmapNotify" /\ t.evq[i].win \in U
  <2> DEFINE q == s.evq
             v == q \o r
  <2>1. /\ Len(q) \in Nat /\ Len(r) \in Nat /\ Len(v) = Len(q) + Len(r)
        /\ \A k \in 1 .. Len(q) + Len(r) :
             v[k] = IF k <= Len(q) THEN q[k] ELSE r[k - Len(q)]
    BY <1>3, ConcatProperties, LenProperties
  <2>2. t.evq = v
    BY <1>2
  <2> HIDE DEF q, v
  <2>3. CASE i <= Len(q)
    BY <2>1, <2>2, <2>3 DEF q
  <2>4. CASE ~(i <= Len(q))
    <3>1. i - Len(q) \in 1 .. Len(r) /\ v[i] = r[i - Len(q)]
      BY <2>1, <2>2, <2>4
    <3> QED
      BY <1>3, <2>2, <3>1
  <2> QED
    BY <2>3, <2>4
<1> QED
  BY <1>2, <1>4 DEF t, U, r

\* A settled state that differs in nothing that matters to it.
LEMMA SettledSame ==
  ASSUME NEW s \in State, Settled(s), NEW t,
         t.evq = s.evq, t.alive = s.alive, t.app = s.app, t.mapped = s.mapped,
         Managed(t) = Managed(s),
         \A w \in Windows : Has(t, w, "HIDDEN") <=> Has(s, w, "HIDDEN")
  PROVE  Settled(t)
BY EventTyped DEF Settled

\* client_hide.
LEMMA SettledHide ==
  ASSUME NEW s \in State, Settled(s), NEW W \in SUBSET Clients
  PROVE  Settled(HideAll(s, W))
<1> DEFINE t == HideAll(s, W)
           L == {c \in W : ~Has(s, c, "STICKY")}
           U == {w \in Windows : w \in W /\ s.mapped[w] /\ ~Has(s, w, "STICKY")}
<1>1. /\ t.alive = s.alive
      /\ \A i \in 1 .. Len(t.evq) :
           \/ i \in 1 .. Len(s.evq) /\ t.evq[i] = s.evq[i]
           \/ t.evq[i].type = "UnmapNotify" /\ t.evq[i].win \in U
  BY HideAllEvents
<1>2. /\ SameDesks(s, t)
      /\ t.flags = Reflag(s.flags, L, {"ACTIVE"}, {"HIDDEN"})
      /\ t.mapped = [w \in Windows |-> s.mapped[w] /\ w \notin L]
  BY HideAllFields
<1>3. U \subseteq L /\ U \subseteq Windows
  OBVIOUS
<1> HIDE DEF t, L, U
<1>4. \A w \in Windows : Has(t, w, "HIDDEN") <=> Has(s, w, "HIDDEN") \/ w \in L
  BY <1>2 DEF Has, Reflag, Clients
<1>5. Managed(t) = Managed(s) /\ t.app = s.app
  BY <1>2 DEF Managed, SameDesks
<1>6. ASSUME NEW i \in 1 .. Len(t.evq)
      PROVE  t.evq[i].type = "UnmapNotify" /\ Has(t, t.evq[i].win, "HIDDEN")
  <2>1. CASE i \in 1 .. Len(s.evq) /\ t.evq[i] = s.evq[i]
    BY <1>4, <2>1, EventTyped DEF Settled
  <2>2. CASE t.evq[i].type = "UnmapNotify" /\ t.evq[i].win \in U
    BY <1>3, <1>4, <2>2
  <2> QED
    BY <1>1, <2>1, <2>2
<1>7. \A w \in Windows : IF w \in Managed(t)
        THEN t.app[w] = "shown" /\ (t.mapped[w] <=> ~Has(t, w, "HIDDEN"))
        ELSE ~t.mapped[w]
  BY <1>2, <1>4, <1>5 DEF Settled
<1>8. Settled(t)
  BY <1>1, <1>6, <1>7 DEF Settled
<1> QED
  BY <1>8 DEF t

\* No unread event is of W.
Quiet(s, W) == \A i \in 1 .. Len(s.evq) : s.evq[i].win \notin W

\* client_unhide of clients that were not hidden just now.
LEMMA SettledUnhide ==
  ASSUME NEW s \in State, Settled(s), NEW W \in SUBSET Clients, Quiet(s, W),
         W \cap Windows \subseteq Managed(s)
  PROVE  Settled(UnhideAll(s, W))
<1> DEFINE t == UnhideAll(s, W)
           L == {c \in W : ~Has(s, c, "STICKY")}
<1>1. t.alive = s.alive /\ t.evq = s.evq
  BY DEF UnhideAll, State
<1>2. /\ SameDesks(s, t)
      /\ t.flags = Reflag(s.flags, L, {"HIDDEN"}, {})
      /\ t.mapped = [w \in Windows |->
                       s.mapped[w] \/ (w \in L /\ s.app[w] # "gone")]
  BY UnhideAllFields
<1>3. L \subseteq W
  OBVIOUS
<1> HIDE DEF t, L
<1>4. \A w \in Windows : Has(t, w, "HIDDEN") <=> Has(s, w, "HIDDEN") /\ w \notin L
  BY <1>2 DEF Has, Reflag, Clients
<1>5. Managed(t) = Managed(s) /\ t.app = s.app
  BY <1>2 DEF Managed, SameDesks
<1>6. ASSUME NEW i \in 1 .. Len(t.evq)
      PROVE  t.evq[i].type = "UnmapNotify" /\ Has(t, t.evq[i].win, "HIDDEN")
  BY <1>1, <1>3, <1>4, EventTyped DEF Settled, Quiet
<1>7. ASSUME NEW w \in Windows
      PROVE  IF w \in Managed(t)
               THEN t.app[w] = "shown" /\ (t.mapped[w] <=> ~Has(t, w, "HIDDEN"))
               ELSE ~t.mapped[w]
  BY <1>2, <1>3, <1>4, <1>5 DEF Settled
<1>8. Settled(t)
  BY <1>1, <1>6, <1>7 DEF Settled
<1> QED
  BY <1>8 DEF t

\* The states a command goes through.
Calmly(s, M) == Good(s, M, M) /\ Settled(s)

\* What the lemmas below need of them.
LEMMA CalmType ==
  ASSUME NEW s, NEW M, Calmly(s, M)
  PROVE  /\ s \in State /\ Good(s, M, M) /\ Settled(s) /\ Managed(s) = M
         /\ M \subseteq Windows /\ M \subseteq Clients
         /\ \A W \in SUBSET (M \cup Fakes) : W \subseteq Clients /\ W \cap Windows \subseteq M
<1>1. Good(s, M, M) /\ Settled(s)
  BY DEF Calmly
<1>2. s \in State /\ M \subseteq Windows /\ M \cup Fakes \subseteq Clients /\ Managed(s) = M
  BY <1>1, KnownType DEF Good
<1> QED
  BY <1>1, <1>2, ClientsAssumption

\* A good state that differs in nothing that is said of settled ones.
LEMMA CalmSame ==
  ASSUME NEW s, NEW M, Calmly(s, M), NEW t, Good(t, M, M),
         t.evq = s.evq, t.alive = s.alive, t.app = s.app, t.mapped = s.mapped,
         \A w \in Windows : Has(t, w, "HIDDEN") <=> Has(s, w, "HIDDEN")
  PROVE  Calmly(t, M)
<1>1. s \in State /\ Managed(s) = M /\ Managed(t) = M /\ Settled(s)
  BY CalmType DEF Good
<1> QED
  BY <1>1, SettledSame DEF Calmly

\* Hiding windows keeps the calm.
LEMMA HideAllCalm ==
  ASSUME NEW s, NEW M, Calmly(s, M), NEW W \in SUBSET (M \cup Fakes)
  PROVE  Calmly(HideAll(s, W), M)
<1>1. s \in State /\ Good(s, M, M) /\ Settled(s) /\ W \subseteq Clients
  BY CalmType
<1> QED
  BY <1>1, HideAllGood, SettledHide DEF Calmly

\* Showing windows no event is pending for keeps it, and sends none.
LEMMA UnhideAllCalm ==
  ASSUME NEW s, NEW M, Calmly(s, M), NEW W \in SUBSET (M \cup Fakes), Quiet(s, W)
  PROVE  Calmly(UnhideAll(s, W), M) /\ UnhideAll(s, W).evq = s.evq
<1>1. /\ s \in State /\ Good(s, M, M) /\ Settled(s)
      /\ W \subseteq Clients /\ W \cap Windows \subseteq Managed(s)
  BY CalmType
<1>2. UnhideAll(s, W).evq = s.evq
  BY <1>1 DEF UnhideAll, State
<1> QED
  BY <1>1, <1>2, UnhideAllGood, SettledUnhide DEF Calmly

\* client_ptrwarp keeps it, of a client no event is pending for.
LEMMA PtrWarpCalm ==
  ASSUME NEW s, NEW M, Calmly(s, M), NEW c \in M, Quiet(s, {c})
  PROVE  Calmly(PtrWarp(s, c), M) /\ PtrWarp(s, c).evq = s.evq
BY UnhideAllCalm DEF PtrWarp, Unhide

\* group_assign moves no window.
LEMMA AssignAllCalm ==
  ASSUME NEW s, NEW M, Calmly(s, M), NEW W \in SUBSET (M \cup Fakes), NEW g \in Groups
  PROVE  Calmly(AssignAll(s, W, g), M) /\ AssignAll(s, W, g).evq = s.evq
<1> DEFINE t == AssignAll(s, W, g)
<1>1. s \in State /\ Good(s, M, M)
  BY CalmType
<1>2. /\ t.evq = s.evq /\ t.alive = s.alive /\ t.app = s.app
      /\ t.mapped = s.mapped /\ t.flags = s.flags
  BY <1>1 DEF AssignAll, State
<1>3. Good(t, M, M)
  BY <1>1, ReassignGood
<1> HIDE DEF t
<1>4. Calmly(t, M)
  BY <1>2, <1>3, CalmSame DEF Has
<1> QED
  BY <1>2, <1>4 DEF t

\* group_set_active keeps it and moves no client.
LEMMA GroupSetActiveCalm ==
  ASSUME NEW s, NEW M, Calmly(s, M), NEW g \in Groups
  PROVE  /\ Calmly(GroupSetActive(s, g), M) /\ GroupSetActive(s, g).evq = s.evq
         /\ GroupSetActive(s, g).members = s.members
<1> DEFINE t == GroupSetActive(s, g)
<1>1. s \in State /\ Good(s, M, M)
  BY CalmType
<1>2. /\ t.evq = s.evq /\ t.alive = s.alive /\ t.app = s.app
      /\ t.mapped = s.mapped /\ t.flags = s.flags /\ t.members = s.members
  BY <1>1 DEF GroupSetActive, State
<1>3. Good(t, M, M)
  BY <1>1, GroupSetActiveGood
<1> HIDE DEF t
<1>4. Calmly(t, M)
  BY <1>2, <1>3, CalmSame DEF Has
<1> QED
  BY <1>2, <1>4 DEF t

\* The flags other than ACTIVE and HIDDEN.
LEMMA FlagCalm ==
  ASSUME NEW s, NEW M, Calmly(s, M), NEW c \in M, NEW F \in SUBSET Flags,
         "ACTIVE" \in F <=> "ACTIVE" \in s.flags[c],
         "HIDDEN" \in F <=> "HIDDEN" \in s.flags[c]
  PROVE  Calmly([s EXCEPT !.flags[c] = F], M)
<1> DEFINE t == [s EXCEPT !.flags[c] = F]
<1>1. s \in State /\ Good(s, M, M) /\ c \in Clients
  BY CalmType
<1>2. /\ t.evq = s.evq /\ t.alive = s.alive /\ t.app = s.app
      /\ t.mapped = s.mapped /\ t.flags = [s.flags EXCEPT ![c] = F]
      /\ s.flags \in [Clients -> SUBSET Flags]
  BY <1>1 DEF State
<1>3. Good(t, M, M)
  BY <1>1, FlagGood
<1>4. \A w \in Windows : "HIDDEN" \in [s.flags EXCEPT ![c] = F][w]
                           <=> "HIDDEN" \in s.flags[w]
  BY <1>2 DEF Clients
<1> HIDE DEF t
<1>5. Calmly(t, M)
  BY <1>2, <1>3, <1>4, CalmSame DEF Has
<1> QED
  BY <1>5 DEF t

\* group_movetogroup keeps it.
LEMMA MoveToGroupCalm ==
  ASSUME NEW s, NEW M, Calmly(s, M), NEW c \in M \cup Fakes, NEW g \in Groups
  PROVE  Calmly(MoveToGroup(s, c, g), M)
BY HideAllCalm, AssignAllCalm DEF MoveToGroup, Hide, Assign

\* client_toggle_group keeps it.
LEMMA ToggleMembershipCalm ==
  ASSUME NEW s, NEW M, Calmly(s, M), NEW c \in M \cup Fakes
  PROVE  Calmly(ToggleMembership(s, c), M)
BY GroupsType, CalmType, AssignAllCalm DEF ToggleMembership, Assign

\* client_toggle_sticky keeps it.
LEMMA ToggleStickyCalm ==
  ASSUME NEW s, NEW M, Calmly(s, M), NEW c \in M
  PROVE  Calmly(ToggleSticky(s, c), M)
<1>1. s.flags[c] \in SUBSET Flags /\ s.group_current \in Groups
  BY CalmType DEF State
<1>2. /\ Calmly([s EXCEPT !.flags[c] = s.flags[c] \ {"STICKY"}], M)
      /\ Calmly([s EXCEPT !.flags[c] = s.flags[c] \cup {"STICKY"}], M)
  BY <1>1, FlagCalm DEF Flags
<1>3. /\ [s EXCEPT !.flags[c] = @ \ {"STICKY"}]
           = [s EXCEPT !.flags[c] = s.flags[c] \ {"STICKY"}]
      /\ [s EXCEPT !.flags[c] = @ \cup {"STICKY"}]
           = [s EXCEPT !.flags[c] = s.flags[c] \cup {"STICKY"}]
  BY CalmType DEF State
<1> QED
  BY <1>1, <1>2, <1>3, AssignAllCalm DEF ToggleSticky, Assign

\* client_transient keeps it.
LEMMA TransientCalm ==
  ASSUME NEW s, NEW M, Calmly(s, M), NEW w \in M
  PROVE  Calmly(Transient(s, w), M)
<1> DEFINE tc == TransientFor[w]
           t == MoveToGroup(s, w, s.group[tc])
<1>1. CASE s.app[w] = "gone" \/ tc \notin Managed(s) \/ s.group[tc] = NoGroup
  BY <1>1 DEF Transient
<1>2. CASE ~ (s.app[w] = "gone" \/ tc \notin Managed(s) \/ s.group[tc] = NoGroup)
  <2>1. s.group[tc] \in Groups
    BY <1>2, CalmType DEF Good
  <2>2. Calmly(t, M)
    BY <2>1, MoveToGroupCalm
  <2>3. Transient(s, w) = IF Has(s, tc, "IGNORE")
          THEN [t EXCEPT !.flags[w] = @ \cup {"IGNORE"}] ELSE t
    BY <1>2 DEF Transient
  <2> HIDE DEF t
  <2>4. t.flags[w] \in SUBSET Flags
    BY <2>2, CalmType DEF State
  <2>5. Calmly([t EXCEPT !.flags[w] = t.flags[w] \cup {"IGNORE"}], M)
    BY <2>2, <2>4, FlagCalm DEF Flags
  <2>6. [t EXCEPT !.flags[w] = @ \cup {"IGNORE"}]
          = [t EXCEPT !.flags[w] = t.flags[w] \cup {"IGNORE"}]
    BY <2>2, CalmType DEF State
  <2> QED
    BY <2>2, <2>3, <2>5, <2>6
<1> QED
  BY <1>1, <1>2

\* group_hide keeps it.
LEMMA GroupHideCalm ==
  ASSUME NEW s, NEW M, Calmly(s, M), NEW g \in Groups
  PROVE  Calmly(GroupHide(s, g), M)
<1>1. s.members[g] \subseteq M \cup Fakes
  BY MembersKnown, CalmType
<1> QED
  BY <1>1, HideAllCalm DEF GroupHide

\* group_show keeps it, with no event pending for the members.
LEMMA GroupShowCalm ==
  ASSUME NEW s, NEW M, Calmly(s, M), NEW g \in Groups, Quiet(s, s.members[g])
  PROVE  Calmly(GroupShow(s, g), M)
<1> DEFINE t == UnhideAll(s, s.members[g])
<1>1. s.members[g] \subseteq M \cup Fakes
  BY MembersKnown, CalmType
<1>2. Calmly(t, M)
  BY <1>1, UnhideAllCalm
<1> HIDE DEF t
<1>3. StickyClients(t) \subseteq M \cup Fakes
  BY <1>2, StickyKnown, CalmType
<1>4. Calmly(AssignAll(t, StickyClients(t), g), M)
  BY <1>2, <1>3, AssignAllCalm
<1> QED
  BY <1>4 DEF GroupShow, t

\* Nothing unread is of anybody.
LEMMA QuietEmpty ==
  ASSUME NEW s, s.evq = <<>>, NEW W
  PROVE  Quiet(s, W)
BY DEF Quiet

\* group_toggle keeps it.
LEMMA GroupHideToggleCalm ==
  ASSUME NEW s, NEW M, Calmly(s, M), NEW g \in Groups, s.evq = <<>>
  PROVE  Calmly(GroupHideToggle(s, g), M)
<1> DEFINE t == GroupShow(s, g)
           u == GroupHide(s, g)
<1>1. Calmly(t, M) /\ Calmly(u, M)
  BY GroupShowCalm, GroupHideCalm, QuietEmpty
<1>2. GroupHideToggle(s, g) =
        IF g \in s.hidden_groups
          THEN [t EXCEPT !.hidden_groups = @ \ {g}]
          ELSE [u EXCEPT !.hidden_groups = @ \cup {g}]
  BY DEF GroupHideToggle
<1> HIDE DEF t, u
<1>3. ASSUME NEW v, Calmly(v, M), NEW H \in SUBSET Groups
      PROVE  Calmly([v EXCEPT !.hidden_groups = H], M)
  <2> DEFINE x == [v EXCEPT !.hidden_groups = H]
  <2>1. v \in State /\ Good(v, M, M)
    BY <1>3, CalmType
  <2>2. /\ x.evq = v.evq /\ x.alive = v.alive /\ x.app = v.app
        /\ x.mapped = v.mapped /\ x.flags = v.flags
    BY <2>1 DEF State
  <2>3. Good(x, M, M)
    BY <2>1, HiddenGroupsGood
  <2> HIDE DEF x
  <2>4. Calmly(x, M)
    BY <1>3, <2>2, <2>3, CalmSame DEF Has
  <2> QED
    BY <2>4 DEF x
<1>4. t \in State /\ u \in State
  BY <1>1, CalmType
<1>5. t.hidden_groups \ {g} \subseteq Groups /\ u.hidden_groups \cup {g} \subseteq Groups
  BY <1>4 DEF State
<1>6. /\ [t EXCEPT !.hidden_groups = @ \ {g}]
           = [t EXCEPT !.hidden_groups = t.hidden_groups \ {g}]
      /\ [u EXCEPT !.hidden_groups = @ \cup {g}]
           = [u EXCEPT !.hidden_groups = u.hidden_groups \cup {g}]
  BY <1>4 DEF State
<1>7. Calmly([t EXCEPT !.hidden_groups = @ \ {g}], M)
  BY <1>1, <1>3, <1>5, <1>6
<1>8. Calmly([u EXCEPT !.hidden_groups = @ \cup {g}], M)
  BY <1>1, <1>3, <1>5, <1>6
<1> QED
  BY <1>2, <1>7, <1>8

\* group_only: the group it shows has none of the windows it hides.
LEMMA GroupOnlyCalm ==
  ASSUME NEW s, NEW M, Calmly(s, M), NEW g \in Groups, s.evq = <<>>
  PROVE  Calmly(GroupOnly(s, g), M)
<1> DEFINE W == UNION {s.members[h] : h \in Groups \ {g}}
           t == HideAll(s, W)
           u == GroupSetActive(t, g)
<1>1. s \in State /\ Good(s, M, M)
  BY CalmType
<1>2. W \subseteq M \cup Fakes
  BY <1>1, AllMembersKnown
<1>3. W \cap s.members[g] = {}
  <2> SUFFICES ASSUME NEW h \in Groups \ {g}, NEW c \in s.members[h], c \in s.members[g]
               PROVE  FALSE
    OBVIOUS
  <2>1. c \in Clients
    BY <1>1, MembersKnown
  <2> QED
    BY <1>1, <2>1 DEF Good
<1> HIDE DEF W
<1>4. Calmly(t, M) /\ W \subseteq Clients
  BY <1>2, HideAllCalm, CalmType
<1>5. \A i \in 1 .. Len(t.evq) : t.evq[i].win \in W
  <2>1. Len(s.evq) = 0
    OBVIOUS
  <2>2. \A i \in 1 .. Len(t.evq) : i \in 1 .. Len(s.evq) \/ t.evq[i].win \in W
    BY <1>1, <1>4, HideAllEvents
  <2> HIDE DEF t
  <2> QED
    BY <2>1, <2>2
<1>6. t.members = s.members
  BY <1>1, HideAllFields
<1> HIDE DEF t
<1>7. Calmly(u, M) /\ u.evq = t.evq /\ u.members = s.members
  BY <1>4, <1>6, GroupSetActiveCalm
<1> HIDE DEF u
<1>8. Quiet(u, u.members[g])
  BY <1>3, <1>5, <1>7 DEF Quiet
<1>9. Calmly(GroupShow(u, g), M)
  BY <1>7, <1>8, GroupShowCalm
<1> QED
  BY <1>9 DEF GroupOnly, u, t, W

\* group_alltoggle keeps it.
LEMMA GroupAllToggleCalm ==
  ASSUME NEW s, NEW M, Calmly(s, M), s.evq = <<>>
  PROVE  Calmly(GroupAllToggle(s), M)
<1> DEFINE all == UNION {s.members[g] : g \in Groups}
           toggled == [s EXCEPT !.hideall = ~@]
           t == UnhideAll(toggled, all)
<1>1. s \in State /\ Good(s, M, M)
  BY CalmType
<1>2. all \subseteq M \cup Fakes
  BY <1>1, AllMembersKnown
<1>3. \/ GroupAllToggle(s) = HideAll(toggled, all)
      \/ GroupAllToggle(s) = t
      \/ \E g \in Groups : GroupAllToggle(s) = AssignAll(t, StickyClients(t), g)
  BY <1>1, AllToggleShape
<1> HIDE DEF all
<1>4. Calmly(toggled, M) /\ toggled.evq = <<>>
  <2>1. /\ toggled \in State /\ SameDesks(s, toggled) /\ toggled.curcc = s.curcc
        /\ toggled.mapped = s.mapped /\ toggled.flags = s.flags
        /\ toggled.members = s.members /\ toggled.evq = s.evq
        /\ toggled.alive = s.alive
    BY <1>1 DEF State, SameDesks
  <2> HIDE DEF toggled
  <2>2. Good(toggled, M, M)
    BY <1>1, <2>1, SameLists DEF SameDesks
  <2> QED
    BY <2>1, <2>2, CalmSame DEF Has, SameDesks
<1> HIDE DEF toggled
<1>5. Calmly(HideAll(toggled, all), M) /\ Calmly(t, M)
  BY <1>2, <1>4, HideAllCalm, UnhideAllCalm, QuietEmpty
<1> HIDE DEF t
<1>6. StickyClients(t) \subseteq M \cup Fakes
  BY <1>5, StickyKnown, CalmType
<1>7. \A g \in Groups : Calmly(AssignAll(t, StickyClients(t), g), M)
  BY <1>5, <1>6, AssignAllCalm
<1> QED
  BY <1>3, <1>5, <1>7

\* An assignment to sc->cycling.
LEMMA CyclingCalm ==
  ASSUME NEW s, NEW M, Calmly(s, M), NEW b \in BOOLEAN
  PROVE  LET t == [s EXCEPT !.cycling = b]
         IN Calmly(t, M) /\ t.evq = s.evq /\ t.curcc = s.curcc
<1> DEFINE t == [s EXCEPT !.cycling = b]
<1>1. s \in State /\ Good(s, M, M)
  BY CalmType
<1>2. /\ t \in State /\ SameDesks(s, t) /\ t.curcc = s.curcc
      /\ t.mapped = s.mapped /\ t.flags = s.flags /\ t.members = s.members
      /\ t.evq = s.evq /\ t.alive = s.alive
  BY <1>1, CyclingType DEF State, SameDesks
<1> HIDE DEF t
<1>3. Good(t, M, M)
  BY <1>1, <1>2, SameLists DEF SameDesks
<1>4. Calmly(t, M)
  BY <1>2, <1>3, CalmSame DEF Has, SameDesks
<1> QED
  BY <1>2, <1>4 DEF t

\* client_cycle keeps it.
LEMMA CycleCalm ==
  ASSUME NEW s, NEW M, Calmly(s, M), s.evq = <<>>,
         NEW dir \in {1, -1}, NEW ingroup \in BOOLEAN
  PROVE  Calmly(Cycle(s, dir, ingroup), M)
<1> DEFINE t == [s EXCEPT !.cycling = TRUE]
           c == CycleTarget(s, dir, ingroup)
<1>1. Good(s, M, M) /\ s \in State /\ Managed(s) = M
  BY CalmType
<1>2. Calmly(t, M) /\ t.evq = <<>>
  BY CyclingCalm
<1>3. CASE s.clientq = <<>> \/ c = NoClient
  BY <1>3 DEF Cycle
<1>4. CASE ~ (s.clientq = <<>> \/ c = NoClient)
  <2>1. c \in M
    BY <1>1, <1>4, CycleTargetType DEF Good
  <2>2. Cycle(s, dir, ingroup) = PtrWarp(t, c)
    BY <1>4 DEF Cycle
  <2> HIDE DEF t, c
  <2> QED
    BY <1>2, <2>1, <2>2, PtrWarpCalm, QuietEmpty
<1> QED
  BY <1>3, <1>4

\* client_mtf.
LEMMA MoveToFrontCalm ==
  ASSUME NEW s, NEW M, Calmly(s, M), NEW c \in M
  PROVE  Calmly(MoveToFront(s, c), M)
<1> DEFINE t == MoveToFront(s, c)
<1>1. Good(s, M, M) /\ s \in State
  BY CalmType
<1>2. /\ t.evq = s.evq /\ t.alive = s.alive /\ t.app = s.app
      /\ t.mapped = s.mapped /\ t.flags = s.flags
  BY <1>1 DEF MoveToFront, State
<1>3. Good(t, M, M)
  BY <1>1, MoveToFrontGood
<1> HIDE DEF t
<1>4. Calmly(t, M)
  BY <1>2, <1>3, CalmSame DEF Has
<1> QED
  BY <1>4 DEF t

\* client_cycle_leave keeps it.
LEMMA CycleLeaveCalm ==
  ASSUME NEW s, NEW M, Calmly(s, M)
  PROVE  Calmly(CycleLeave(s), M)
<1> DEFINE t == [s EXCEPT !.cycling = FALSE]
<1>1. Calmly(t, M)
  BY CyclingCalm
<1>2. CycleLeave(s) = IF t.curcc = NoClient THEN t ELSE MoveToFront(t, t.curcc)
  BY DEF CycleLeave
<1> HIDE DEF t
<1>3. t.curcc # NoClient => t.curcc \in M
  BY <1>1, CalmType DEF Good
<1> QED
  BY <1>1, <1>2, <1>3, MoveToFrontCalm

----------------------------------------------------------------------------
(* Settled states are orderly, and orderly ones settled when all is read.  *)

\* Where it is calm, windows and clients are in order.
LEMMA SettledOrderly ==
  ASSUME NEW s, NEW M, Calmly(s, M)
  PROVE  Orderly(s)
<1>1. /\ s \in State /\ Good(s, M, M) /\ Settled(s) /\ Managed(s) = M
  BY CalmType
<1> SUFFICES ASSUME NEW w \in Windows
             PROVE  Sane(s.evq, w, w \in Managed(s), Has(s, w, "HIDDEN"),
                         s.mapped[w], s.app[w])
  BY <1>1 DEF Orderly, Settled
<1> DEFINE U == Unread(s.evq, "UnmapNotify", w)
           h == Has(s, w, "HIDDEN")
           k == w \in Managed(s)
<1>2. Unread(s.evq, "MapRequest", w) = {} /\ Unread(s.evq, "DestroyNotify", w) = {}
  BY <1>1 DEF Unread, Settled
<1>3. U # {} => h
  BY <1>1 DEF Unread, Settled
<1>4. ~k => ~h
  BY <1>1 DEF Good, Has
<1>5. IF k THEN s.app[w] = "shown" /\ (s.mapped[w] <=> ~h) ELSE ~s.mapped[w]
  BY <1>1 DEF Settled
<1> HIDE DEF U, h, k
<1>6. SaneAt({}, U, {}, k, h, s.mapped[w], s.app[w])
  BY <1>3, <1>4, <1>5 DEF SaneAt
<1> QED
  BY <1>2, <1>6 DEF Sane, U, h, k

\* With every event handled, order is calm.
LEMMA OrderlySettled ==
  ASSUME NEW s, NEW M, Good(s, M, M), Orderly(s), s.evq = <<>>
  PROVE  Calmly(s, M)
<1>1. \A w \in Windows : \A type : Unread(s.evq, type, w) = {}
  BY DEF Unread
<1>2. \A w \in Windows : SaneAt({}, {}, {}, w \in Managed(s), Has(s, w, "HIDDEN"),
                               s.mapped[w], s.app[w])
  BY <1>1 DEF Orderly, Sane
<1>3. s.app \in [Windows -> {"gone", "withdrawn", "shown"}] /\ Len(s.evq) = 0
  BY DEF Good, State
<1>4. \A w \in Windows : IF w \in Managed(s)
        THEN s.app[w] = "shown" /\ (s.mapped[w] <=> ~Has(s, w, "HIDDEN"))
        ELSE ~s.mapped[w]
  BY <1>2, <1>3 DEF SaneAt
<1> QED
  BY <1>3, <1>4 DEF Calmly, Settled, Orderly

----------------------------------------------------------------------------
(* Structure events.                                                       *)

\* What client_init does before w is shown or hidden: nothing is sent, and
\* nothing is seen of it or of any other window.
Entering(s, t, w) ==
  /\ t.evq = s.evq /\ t.alive = s.alive /\ t.app = s.app
  /\ ~t.mapped[w] /\ ~Has(t, w, "STICKY")
  /\ \A v \in Windows \ {w} :
       t.mapped[v] = s.mapped[v] /\ (Has(t, v, "HIDDEN") <=> Has(s, v, "HIDDEN"))

\* Hiding a window that is not mapped sends no event.
LEMMA EnterHide ==
  ASSUME NEW s \in State, NEW w \in Windows, ~s.mapped[w], ~Has(s, w, "STICKY")
  PROVE  Entering(s, Hide(s, w), w) /\ Has(Hide(s, w), w, "HIDDEN")
<1> DEFINE t == Hide(s, w)
           L == {c \in {w} : ~Has(s, c, "STICKY")}
           U == {v \in Windows : v \in {w} /\ s.mapped[v] /\ ~Has(s, v, "STICKY")}
<1>1. L = {w} /\ U = {} /\ {w} \in SUBSET Clients
  BY DEF Clients
<1>2. /\ SameDesks(s, t)
      /\ t.flags = Reflag(s.flags, L, {"ACTIVE"}, {"HIDDEN"})
      /\ t.mapped = [v \in Windows |-> s.mapped[v] /\ v \notin L]
  BY HideAllFields DEF Hide
<1>3. t.evq = s.evq \o Events("UnmapNotify", U) /\ t.alive = s.alive
  <2> DEFINE W == {w}
             r == HideAll(s, W)
  <2>1. W \in SUBSET Clients
    BY <1>1
  <2> HIDE DEF W
  <2>2. /\ r.alive = s.alive
        /\ r.evq = s.evq \o Events("UnmapNotify",
             {v \in Windows : v \in W /\ s.mapped[v] /\ ~Has(s, v, "STICKY")})
    BY <2>1, HideAllEvents
  <2> QED
    BY <2>2 DEF Hide, W
<1> HIDE DEF L, U
<1>4. Events("UnmapNotify", U) = <<>>
  <2> DEFINE q == Events("UnmapNotify", U)
  <2>1. q \in Seq(EventRecords) /\ \A i \in 1 .. Len(q) : q[i].win \in U
    BY <1>1, EventsKind
  <2> HIDE DEF q
  <2>2. Len(q) \in Nat /\ (Len(q) = 0 \/ 1 \in 1 .. Len(q))
    BY <2>1, LenProperties
  <2> QED
    BY <1>1, <2>1, <2>2, EmptySeq DEF q
<1>5. s.evq \o <<>> = s.evq
  BY EventTyped, ConcatEmptySeq
<1> HIDE DEF t
<1>6. \A v \in Windows : s.mapped[v] \in BOOLEAN
  BY DEF State
<1>7. \A v \in Windows \ {w} : t.mapped[v] = s.mapped[v]
  BY <1>1, <1>2, <1>6
<1>8. \A v \in Windows \ {w} : Has(t, v, "HIDDEN") <=> Has(s, v, "HIDDEN")
  BY <1>1, <1>2 DEF Has, Reflag, Clients
<1>9. ~t.mapped[w] /\ ~Has(t, w, "STICKY") /\ Has(t, w, "HIDDEN")
  <2>1. ~t.mapped[w]
    BY <1>2
  <2>2. t.flags[w] = (s.flags[w] \ {"ACTIVE"}) \cup {"HIDDEN"}
    BY <1>1, <1>2 DEF Reflag
  <2> QED
    BY <2>1, <2>2 DEF Has
<1>10. t.evq = s.evq /\ t.alive = s.alive /\ t.app = s.app
  BY <1>2, <1>3, <1>4, <1>5 DEF SameDesks
<1> QED
  BY <1>7, <1>8, <1>9, <1>10 DEF Entering, t

\* Assigning it to a group.
LEMMA EnterAssign ==
  ASSUME NEW s \in State, NEW w \in Windows, ~s.mapped[w], ~Has(s, w, "STICKY"), NEW g
  PROVE  Entering(s, Assign(s, w, g), w)
<1> DEFINE t == Assign(s, w, g)
<1>1. /\ t.evq = s.evq /\ t.alive = s.alive /\ t.app = s.app
      /\ t.mapped = s.mapped /\ t.flags = s.flags
  BY DEF Assign, AssignAll, State
<1> HIDE DEF t
<1> QED
  BY <1>1 DEF Entering, Has, t

\* Ignoring it.
LEMMA EnterIgnore ==
  ASSUME NEW s \in State, NEW w \in Windows, ~s.mapped[w], ~Has(s, w, "STICKY")
  PROVE  Entering(s, [s EXCEPT !.flags[w] = @ \cup {"IGNORE"}], w)
<1> DEFINE F == s.flags[w] \cup {"IGNORE"}
           t == [s EXCEPT !.flags[w] = @ \cup {"IGNORE"}]
<1>1. /\ t.evq = s.evq /\ t.alive = s.alive /\ t.app = s.app
      /\ t.mapped = s.mapped /\ t.flags = [s.flags EXCEPT ![w] = F]
  BY DEF State
<1>2. s.flags \in [Clients -> SUBSET Flags] /\ w \in Clients
  BY DEF State, Clients
<1> HIDE DEF t
<1> QED
  BY <1>1, <1>2 DEF Entering, Has, t, Clients

\* client_transient.
LEMMA EnterTransient ==
  ASSUME NEW s, NEW M, NEW K, Good(s, M, K), NEW w \in K,
         ~s.mapped[w], ~Has(s, w, "STICKY")
  PROVE  Entering(s, Transient(s, w), w)
<1> DEFINE tc == TransientFor[w]
           h == Hide(s, w)
           u == MoveToGroup(s, w, s.group[tc])
<1>1. s \in State /\ w \in Windows /\ h \in State
  BY KnownType, HideAllType DEF Good, Hide, Clients
<1>2. Entering(s, s, w)
  BY DEF Entering
<1>3. CASE s.app[w] = "gone" \/ tc \notin Managed(s) \/ s.group[tc] = NoGroup
  BY <1>2, <1>3 DEF Transient
<1>4. CASE ~ (s.app[w] = "gone" \/ tc \notin Managed(s) \/ s.group[tc] = NoGroup)
  <2>1. s.group[tc] \in Groups
    BY <1>4 DEF Good
  <2>2. u \in State
    BY <2>1, MoveToGroupGood, KnownType
  <2>3. Entering(s, h, w)
    BY <1>1, EnterHide
  <2>4. Entering(h, Assign(h, w, s.group[tc]), w) /\ Entering(s, Assign(s, w, s.group[tc]), w)
    BY <1>1, <2>3, EnterAssign DEF Entering
  <2>5. u = s \/ u = Assign(h, w, s.group[tc]) \/ u = Assign(s, w, s.group[tc])
    BY DEF MoveToGroup
  <2>6. Transient(s, w) = IF Has(s, tc, "IGNORE")
          THEN [u EXCEPT !.flags[w] = @ \cup {"IGNORE"}] ELSE u
    BY <1>4 DEF Transient
  <2> HIDE DEF u, h
  <2>7. Entering(s, u, w)
    BY <1>2, <2>3, <2>4, <2>5 DEF Entering
  <2>8. Entering(u, [u EXCEPT !.flags[w] = @ \cup {"IGNORE"}], w)
    BY <1>1, <2>2, <2>7, EnterIgnore DEF Entering
  <2> QED
    BY <2>6, <2>7, <2>8 DEF Entering
<1> QED
  BY <1>3, <1>4

\* client_init: the window is shown, or hidden and says so.
LEMMA ClientInitEnters ==
  ASSUME NEW s, NEW M, Good(s, M, M), NEW w \in Windows \ M, ~s.mapped[w],
         s.app[w] # "gone", NEW hint \in {"none", "Normal", "Iconic"}
  PROVE  LET t == ClientInit(s, w, hint, {})
         IN /\ Good(t, M \cup {w}, M \cup {w})
            /\ t.evq = s.evq /\ t.alive = s.alive /\ t.app = s.app
            /\ t.mapped[w] = ~Has(t, w, "HIDDEN") /\ ~Has(t, w, "STICKY")
            /\ \A v \in Windows \ {w} :
                 /\ t.mapped[v] = s.mapped[v]
                 /\ Has(t, v, "HIDDEN") <=> Has(s, v, "HIDDEN")
<1> DEFINE K == M \cup {w}
           a == IF hint # "none" /\ ~s.mapped[w]
                  THEN [s EXCEPT !.wm_state[w] = hint] ELSE s
           b == Assign(a, w, AutogroupOf(a, w))
           c == IF w \in Ignored
                  THEN [b EXCEPT !.flags[w] = @ \cup {"IGNORE"}] ELSE b
           d == Transient(c, w)
           e == ListClients([d EXCEPT !.clientq = Append(@, w)])
           t == ClientInit(s, w, hint, {})
<1>1. s \in State /\ w \in K /\ w \in Clients /\ s.flags[w] = {}
  BY KnownType DEF Clients, Good
<1>2. Good(a, M, M) /\ Entering(s, a, w)
  <2> DEFINE r == [s EXCEPT !.wm_state[w] = hint]
  <2>1. [s.wm_state EXCEPT ![w] = hint]
          \in [Windows -> {"none", "Normal", "Iconic", "Withdrawn"}]
    BY <1>1 DEF State
  <2>2. /\ r \in State /\ r.clientq = s.clientq /\ r.curcc = s.curcc
        /\ r.mapped = s.mapped /\ r.flags = s.flags /\ r.members = s.members
        /\ r.group = s.group /\ r.evq = s.evq /\ r.alive = s.alive /\ r.app = s.app
    BY <1>1, <2>1 DEF State
  <2> HIDE DEF r
  <2>3. Good(r, M, M)
    BY <2>2, SameLists
  <2>4. Entering(s, r, w) /\ Entering(s, s, w)
    BY <1>1, <2>2 DEF Entering, Has
  <2> QED
    BY <2>3, <2>4 DEF r
<1> HIDE DEF a
<1>3. Good(b, M, K) /\ Entering(a, b, w)
  <2>1. a \in State /\ AutogroupOf(a, w) \in Groups
    BY <1>2, AutogroupType, KnownType
  <2>2. K = M \cup ({w} \cap Windows)
    OBVIOUS
  <2> HIDE DEF K
  <2>3. Good(b, M, K)
    BY <1>1, <1>2, <2>1, <2>2, AssignAllGood DEF Assign
  <2>4. Entering(a, b, w)
    BY <1>2, <2>1, EnterAssign DEF Entering
  <2> QED
    BY <2>3, <2>4
<1> HIDE DEF b, K
<1>4. Good(c, M, K) /\ Entering(b, c, w)
  <2>1. b \in State
    BY <1>3, KnownType
  <2>2. Entering(b, [b EXCEPT !.flags[w] = @ \cup {"IGNORE"}], w) /\ Entering(b, b, w)
    BY <1>3, <2>1, EnterIgnore DEF Entering
  <2> QED
    BY <1>1, <1>3, <2>2, IgnoreGood
<1> HIDE DEF c
<1>5. Good(d, M, K) /\ Entering(c, d, w)
  BY <1>1, <1>4, TransientGood, EnterTransient DEF Entering
<1> HIDE DEF d
<1>6. Good(e, K, K) /\ Entering(d, e, w)
  <2>1. d \in State
    BY <1>5, KnownType
  <2>2. /\ e.evq = d.evq /\ e.alive = d.alive /\ e.app = d.app
        /\ e.mapped = d.mapped /\ e.flags = d.flags
    BY <2>1 DEF ListClients, State
  <2>3. Good(e, K, K)
    BY <1>5, ManageGood DEF K
  <2> HIDE DEF e
  <2> QED
    BY <1>5, <2>2, <2>3 DEF Entering, Has
<1> HIDE DEF e
<1>7. Entering(s, e, w)
  BY <1>2, <1>3, <1>4, <1>5, <1>6 DEF Entering
<1>8. t = Hide(e, w) \/ t = Unhide(e, w)
  BY DEF ClientInit, a, b, c, d, e
<1>9. Good(t, K, K)
  BY <1>1, <1>6, <1>8, HideAllGood, UnhideAllGood DEF Hide, Unhide
<1> HIDE DEF t
<1>10. CASE t = Hide(e, w)
  <2>1. e \in State
    BY <1>6, KnownType
  <2>2. Entering(e, t, w) /\ Has(t, w, "HIDDEN")
    BY <1>7, <1>10, <2>1, EnterHide DEF Entering
  <2>3. /\ t.evq = s.evq /\ t.alive = s.alive /\ t.app = s.app
        /\ t.mapped[w] \in BOOLEAN
        /\ ~t.mapped[w] /\ Has(t, w, "HIDDEN") /\ ~Has(t, w, "STICKY")
        /\ \A v \in Windows \ {w} :
             /\ t.mapped[v] = s.mapped[v]
             /\ Has(t, v, "HIDDEN") <=> Has(s, v, "HIDDEN")
    BY <1>7, <1>9, <2>2 DEF Entering, Good, State
  <2> QED
    BY <1>9, <2>3 DEF K, t
<1>11. CASE t = Unhide(e, w)
  <2> DEFINE L == {x \in {w} : ~Has(e, x, "STICKY")}
  <2>0. e \in State
    BY <1>6, KnownType
  <2>1. t.evq = e.evq /\ t.alive = e.alive
    BY <2>0, <1>11 DEF Unhide, UnhideAll, State
  <2>2. /\ SameDesks(e, t)
        /\ t.flags = Reflag(e.flags, L, {"HIDDEN"}, {})
        /\ t.mapped = [v \in Windows |->
                         e.mapped[v] \/ (v \in L /\ e.app[v] # "gone")]
    BY <1>11, <2>0, UnhideAllFields DEF Unhide
  <2>3. L = {w}
    BY <1>7 DEF Entering
  <2> HIDE DEF L
  <2>4. t.mapped[w] = TRUE /\ ~Has(t, w, "HIDDEN") /\ ~Has(t, w, "STICKY")
    BY <1>1, <1>7, <2>2, <2>3 DEF Has, Reflag, Entering
  <2>5. \A v \in Windows \ {w} :
          t.mapped[v] = e.mapped[v] /\ (Has(t, v, "HIDDEN") <=> Has(e, v, "HIDDEN"))
    <3>1. \A v \in Windows : e.mapped[v] \in BOOLEAN
      BY <2>0 DEF State
    <3> QED
      BY <2>2, <2>3, <3>1 DEF Has, Reflag, Clients
  <2>6. /\ t.evq = s.evq /\ t.alive = s.alive /\ t.app = s.app
        /\ \A v \in Windows \ {w} :
             /\ t.mapped[v] = s.mapped[v]
             /\ Has(t, v, "HIDDEN") <=> Has(s, v, "HIDDEN")
    BY <1>7, <2>1, <2>2, <2>5 DEF Entering, SameDesks
  <2> QED
    BY <1>9, <2>4, <2>6 DEF K, t
<1> QED
  BY <1>8, <1>10, <1>11

\* A state that differs in nothing that is said of orderly ones.
LEMMA OrderlySame ==
  ASSUME NEW s, Orderly(s), NEW t,
         t.evq = s.evq, t.alive = s.alive, t.app = s.app, t.mapped = s.mapped,
         Managed(t) = Managed(s),
         \A w \in Windows : Has(t, w, "HIDDEN") <=> Has(s, w, "HIDDEN")
  PROVE  Orderly(t)
<1> SUFFICES ASSUME NEW w \in Windows
             PROVE  Sane(t.evq, w, w \in Managed(t), Has(t, w, "HIDDEN"),
                         t.mapped[w], t.app[w])
  BY DEF Orderly
<1>1. Sane(s.evq, w, w \in Managed(s), Has(s, w, "HIDDEN"), s.mapped[w], s.app[w])
  BY DEF Orderly
<1>2. Has(t, w, "HIDDEN") = Has(s, w, "HIDDEN")
  BY DEF Has
<1> QED
  BY <1>1, <1>2

\* An event of w is read, and nothing changes for the other windows.
LEMMA OrderlyRead ==
  ASSUME NEW s \in State, Orderly(s), s.evq # <<>>, NEW w, Head(s.evq).win = w,
         NEW t, t.evq = Tail(s.evq), t.alive = s.alive, t.app = s.app,
         \A v \in Windows \ {w} :
           /\ t.mapped[v] = s.mapped[v]
           /\ v \in Managed(t) <=> v \in Managed(s)
           /\ Has(t, v, "HIDDEN") <=> Has(s, v, "HIDDEN"),
         Sane(Tail(s.evq), w, w \in Managed(t), Has(t, w, "HIDDEN"),
              t.mapped[w], s.app[w])
  PROVE  Orderly(t)
<1> SUFFICES ASSUME NEW v \in Windows
             PROVE  Sane(t.evq, v, v \in Managed(t), Has(t, v, "HIDDEN"),
                         t.mapped[v], t.app[v])
  BY DEF Orderly
<1>1. CASE v = w
  BY <1>1
<1>2. CASE v # w
  <2> DEFINE k == v \in Managed(s)
             h == Has(s, v, "HIDDEN")
             p == s.mapped[v]
             a == s.app[v]
             q == s.evq
  <2>1. Sane(q, v, k, h, p, a)
    BY DEF Orderly
  <2>2. q \in Seq(EventRecords) /\ q # <<>> /\ Head(q).win # v
    BY <1>2, EventTyped
  <2>3. p \in BOOLEAN /\ k \in BOOLEAN /\ h \in BOOLEAN
    BY DEF State, Has
  <2>4. (v \in Managed(t)) = k /\ Has(t, v, "HIDDEN") = h /\ t.mapped[v] = p
    BY <1>2 DEF Has
  <2> HIDE DEF k, h, p, a, q
  <2>5. Sane(Tail(q), v, k, h, p, a)
    BY <2>1, <2>2, <2>3, SaneOther
  <2> QED
    BY <2>4, <2>5 DEF a, q
<1> QED
  BY <1>1, <1>2

\* What the invariant says of the window whose event is read.
LEMMA HeadSane ==
  ASSUME NEW s \in State, Orderly(s), s.evq # <<>>
  PROVE  LET w == Head(s.evq).win
         IN /\ w \in Windows /\ s.evq \in Seq(EventRecords)
            /\ s.mapped[w] \in BOOLEAN /\ s.app[w] \in {"gone", "withdrawn", "shown"}
            /\ Sane(s.evq, w, w \in Managed(s), Has(s, w, "HIDDEN"),
                    s.mapped[w], s.app[w])
<1> DEFINE w == Head(s.evq).win
<1>1. s.evq \in Seq(EventRecords)
  BY EventTyped
<1>2. Head(s.evq) \in EventRecords
  BY <1>1, HeadTailProperties
<1>3. w \in Windows
  BY <1>2 DEF EventRecords
<1> QED
  BY <1>1, <1>3 DEF Orderly, State

\* client_delete, as Orderly sees it.
LEMMA DeleteReleases ==
  ASSUME NEW s, NEW M, Good(s, M, M), NEW c \in M
  PROVE  LET t == Delete(s, c)
         IN /\ t.evq = s.evq /\ t.alive = s.alive /\ t.app = s.app
            /\ t.mapped = s.mapped /\ t.flags = [s.flags EXCEPT ![c] = {}]
            /\ Managed(t) = M \ {c} /\ Managed(s) = M
<1> DEFINE t == Delete(s, c)
           q == Unlink(s.clientq, c)
           g == s.group[c]
           a == [s EXCEPT !.clientq = q]
           b == ListClients(a)
           d == IF g \in Groups THEN [b EXCEPT !.members[g] = @ \ {c}] ELSE b
           v == IF c = d.curcc THEN None(d) ELSE d
<1>0. /\ t.clientq = q
      /\ t.net_clients = IF q = <<>> THEN s.net_clients ELSE ToSet(q)
      /\ t.curcc = IF s.curcc = c THEN NoClient ELSE s.curcc
      /\ t.net_active = IF s.curcc = c THEN NoClient ELSE s.net_active
      /\ t.flags = [s.flags EXCEPT ![c] = {}]
      /\ t.group = [s.group EXCEPT ![c] = NoGroup]
      /\ t.app = s.app /\ t.wm_desktop = s.wm_desktop
      /\ t.group_current = s.group_current /\ t.net_desktop = s.net_desktop
      /\ t.cycling = s.cycling /\ t.mapped = s.mapped
  BY DeleteFields
<1>1. s \in State
  BY KnownType
<1>2. t = [v EXCEPT !.flags[c] = {}, !.group[c] = NoGroup]
  BY DEF Delete
<1> HIDE DEF q, g
<1>3. DOMAIN a = DOMAIN s /\ a.evq = s.evq /\ a.alive = s.alive
  BY <1>1 DEF State
<1> HIDE DEF a
<1>4. DOMAIN b = DOMAIN s /\ b.evq = s.evq /\ b.alive = s.alive
  BY <1>1, <1>3 DEF ListClients, State
<1> HIDE DEF b
<1>5. DOMAIN d = DOMAIN s /\ d.evq = s.evq /\ d.alive = s.alive
  BY <1>1, <1>4 DEF State
<1> HIDE DEF d
<1>6. DOMAIN v = DOMAIN s /\ v.evq = s.evq /\ v.alive = s.alive
  BY <1>1, <1>5 DEF None, State
<1> HIDE DEF v
<1>7. t.evq = s.evq /\ t.alive = s.alive
  BY <1>1, <1>2, <1>6 DEF State
<1> HIDE DEF t
<1>8. /\ t.app = s.app /\ t.mapped = s.mapped
      /\ t.flags = [s.flags EXCEPT ![c] = {}]
  BY <1>0 DEF t
<1>9. Managed(t) = M \ {c} /\ Managed(s) = M
  BY DeleteGood DEF Good, t
<1> QED
  BY <1>7, <1>8, <1>9 DEF t

\* client_ptrwarp shows a window that is hidden and not sticky.
LEMMA PtrWarpShows ==
  ASSUME NEW s \in State, NEW w \in Windows, s.app[w] # "gone"
  PROVE  LET t == PtrWarp(s, w)
         IN /\ t.evq = s.evq /\ t.alive = s.alive /\ t.app = s.app
            /\ t.clientq = s.clientq
            /\ \A v \in Windows \ {w} :
                 /\ t.mapped[v] = s.mapped[v]
                 /\ Has(t, v, "HIDDEN") <=> Has(s, v, "HIDDEN")
            /\ IF Has(s, w, "HIDDEN") /\ ~Has(s, w, "STICKY")
                 THEN t.mapped[w] = TRUE /\ ~Has(t, w, "HIDDEN")
                 ELSE /\ t.mapped[w] = s.mapped[w]
                      /\ Has(t, w, "HIDDEN") <=> Has(s, w, "HIDDEN")
<1> DEFINE t == PtrWarp(s, w)
           u == UnhideAll(s, {w})
           L == {c \in {w} : ~Has(s, c, "STICKY")}
<1>1. CASE ~Has(s, w, "HIDDEN")
  <2>1. t = s
    BY <1>1 DEF PtrWarp
  <2> HIDE DEF t
  <2> QED
    BY <1>1, <2>1 DEF t
<1>2. CASE Has(s, w, "HIDDEN")
  <2>1. t = u
    BY <1>2 DEF PtrWarp, Unhide
  <2>2. u.evq = s.evq /\ u.alive = s.alive /\ u.clientq = s.clientq /\ u.app = s.app
    BY DEF UnhideAll, State
  <2>3. /\ u.flags = Reflag(s.flags, L, {"HIDDEN"}, {})
        /\ u.mapped = [v \in Windows |->
                         s.mapped[v] \/ (v \in L /\ s.app[v] # "gone")]
    BY UnhideAllFields
  <2>4. L = IF Has(s, w, "STICKY") THEN {} ELSE {w}
    OBVIOUS
  <2>5. /\ \A v \in Windows : s.mapped[v] \in BOOLEAN /\ v \in Clients
        /\ s.flags \in [Clients -> SUBSET Flags]
    BY DEF State, Clients
  <2> HIDE DEF L, u, t
  <2>6. \A v \in Windows : u.flags[v] = IF v \in L THEN s.flags[v] \ {"HIDDEN"} ELSE s.flags[v]
    BY <2>3, <2>5 DEF Reflag
  <2>7. \A v \in Windows \ {w} :
          /\ u.mapped[v] = s.mapped[v]
          /\ Has(u, v, "HIDDEN") <=> Has(s, v, "HIDDEN")
    BY <2>3, <2>4, <2>5, <2>6 DEF Has
  <2>8. IF ~Has(s, w, "STICKY")
          THEN u.mapped[w] = TRUE /\ ~Has(u, w, "HIDDEN")
          ELSE /\ u.mapped[w] = s.mapped[w]
               /\ Has(u, w, "HIDDEN") <=> Has(s, w, "HIDDEN")
    BY <2>3, <2>4, <2>5, <2>6 DEF Has
  <2> QED
    BY <1>2, <2>1, <2>2, <2>7, <2>8 DEF t
<1> QED
  BY <1>1, <1>2

\* xev_handle_maprequest, for an application that sets no _NET_WM_STATE.
LEMMA MapRequestedOrderly ==
  ASSUME NEW s \in State, NEW M, Good(s, M, M), Orderly(s), s.evq # <<>>,
         NEW w \in Windows, Head(s.evq) = Event("MapRequest", w),
         NEW r, Good(r, M, M), r.evq = Tail(s.evq), r.alive = s.alive,
         r.app = s.app, r.mapped = s.mapped, r.flags = s.flags,
         NEW hint \in {"none", "Normal", "Iconic"}
  PROVE  \E N : /\ Good(MapRequested(r, w, hint, {}), N, N)
                /\ Orderly(MapRequested(r, w, hint, {}))
<1> DEFINE t == MapRequested(r, w, hint, {})
           q == s.evq
           h == Has(s, w, "HIDDEN")
           a == s.app[w]
           p == s.mapped[w]
<1>1. Head(q).win = w /\ Head(q).type = "MapRequest"
  BY DEF Event
<1>2. /\ q \in Seq(EventRecords) /\ p \in BOOLEAN
      /\ a \in {"gone", "withdrawn", "shown"} /\ h \in BOOLEAN
      /\ Sane(q, w, w \in Managed(s), h, p, a)
  BY <1>1, HeadSane DEF Has
<1>3. r \in State /\ Managed(r) = M /\ Managed(s) = M
  BY DEF Good
<1>4. CASE w \notin M
  <2> DEFINE e == ClientInit(r, w, hint, {})
             u == PtrWarp(e, w)
             N == M \cup {w}
  <2>1. Sane(q, w, FALSE, h, p, a)
    <3>1. (w \in Managed(s)) = FALSE
      BY <1>3, <1>4
    <3> QED
      BY <1>2, <3>1
  <2>2. a = "shown" /\ ~p /\ \A x \in BOOLEAN : Sane(Tail(q), w, TRUE, x, ~x, a)
    <3> HIDE DEF q, h, p, a
    <3> QED
      BY <1>1, <1>2, <2>1, SaneMap, ZenonT(60) DEF q
  <2>3. /\ Good(e, N, N)
        /\ e.evq = r.evq /\ e.alive = r.alive /\ e.app = r.app
        /\ e.mapped[w] = ~Has(e, w, "HIDDEN") /\ ~Has(e, w, "STICKY")
        /\ \A v \in Windows \ {w} :
             /\ e.mapped[v] = r.mapped[v]
             /\ Has(e, v, "HIDDEN") <=> Has(r, v, "HIDDEN")
    <3>1. w \in Windows \ M /\ ~r.mapped[w] /\ r.app[w] # "gone"
      BY <1>4, <2>2
    <3> HIDE DEF q, h, p, a
    <3> QED
      BY <3>1, ClientInitEnters
  <2>4. t = IF Has(e, w, "IGNORE") THEN e ELSE u
    BY <1>3, <1>4, <2>2 DEF MapRequested
  <2> HIDE DEF e
  <2>5. e \in State /\ Managed(e) = N /\ w \in N /\ e.app[w] # "gone"
    BY <2>2, <2>3 DEF Good
  <2>6. Good(u, N, N)
    BY <2>3, <2>5, PtrWarpGood
  <2>7. /\ u.evq = e.evq /\ u.alive = e.alive /\ u.app = e.app
        /\ \A v \in Windows \ {w} :
             /\ u.mapped[v] = e.mapped[v]
             /\ Has(u, v, "HIDDEN") <=> Has(e, v, "HIDDEN")
        /\ u.mapped[w] = ~Has(u, w, "HIDDEN")
    <3>1. /\ u.evq = e.evq /\ u.alive = e.alive /\ u.app = e.app
          /\ \A v \in Windows \ {w} :
               /\ u.mapped[v] = e.mapped[v]
               /\ Has(u, v, "HIDDEN") <=> Has(e, v, "HIDDEN")
          /\ IF Has(e, w, "HIDDEN") /\ ~Has(e, w, "STICKY")
               THEN u.mapped[w] = TRUE /\ ~Has(u, w, "HIDDEN")
               ELSE /\ u.mapped[w] = e.mapped[w]
                    /\ Has(u, w, "HIDDEN") <=> Has(e, w, "HIDDEN")
      BY <2>5, PtrWarpShows
    <3> HIDE DEF u
    <3> QED
      BY <2>3, <3>1 DEF Has
  <2>8. Managed(u) = N
    BY <2>6 DEF Good
  <2> HIDE DEF u
  <2>9. ASSUME NEW x \in {e, u} PROVE Orderly(x)
    <3>1. /\ x.evq = Tail(q) /\ x.alive = s.alive /\ x.app = s.app
          /\ \A v \in Windows \ {w} :
               /\ x.mapped[v] = s.mapped[v]
               /\ Has(x, v, "HIDDEN") <=> Has(s, v, "HIDDEN")
          /\ x.mapped[w] = ~Has(x, w, "HIDDEN") /\ Managed(x) = N
      BY <2>3, <2>5, <2>7, <2>8 DEF Has
    <3>2. \A v \in Windows \ {w} : v \in Managed(x) <=> v \in Managed(s)
      BY <1>3, <3>1
    <3>3. (w \in Managed(x)) = TRUE
      BY <3>1
    <3>4. Has(x, w, "HIDDEN") \in BOOLEAN
      BY DEF Has
    <3>5. Sane(Tail(q), w, w \in Managed(x), Has(x, w, "HIDDEN"), x.mapped[w], a)
      BY <2>2, <3>1, <3>3, <3>4
    <3> QED
      BY <1>1, <3>1, <3>2, <3>5, OrderlyRead
  <2> QED
    BY <2>3, <2>4, <2>6, <2>9
<1>5. CASE w \in M
  <2> DEFINE u == PtrWarp(r, w)
  <2>1. Sane(q, w, TRUE, h, p, a)
    <3>1. (w \in Managed(s)) = TRUE
      BY <1>3, <1>5
    <3> QED
      BY <1>2, <3>1
  <2>2. h => a = "shown" /\ Sane(Tail(q), w, TRUE, FALSE, TRUE, a)
    <3> HIDE DEF q, h, p, a
    <3> QED
      BY <1>1, <1>2, <2>1, SaneMap, ZenonT(60) DEF q
  <2>3. Sane(Tail(q), w, TRUE, h, p, a)
    <3> HIDE DEF q, h, p, a
    <3> QED
      BY <1>1, <1>2, <2>1, SaneOther DEF q
  <2>4. t = IF Has(r, w, "IGNORE") THEN r ELSE u
    BY <1>3, <1>5 DEF MapRequested
  <2>5. Good(u, M, M)
    BY <1>5, PtrWarpGood
  <2>6. Orderly(r)
    <3>1. (w \in Managed(r)) = TRUE /\ Has(r, w, "HIDDEN") = h /\ r.mapped[w] = p
      BY <1>3, <1>5 DEF Has
    <3>2. Sane(Tail(q), w, w \in Managed(r), Has(r, w, "HIDDEN"), r.mapped[w], a)
      BY <2>3, <3>1
    <3> QED
      BY <1>1, <1>3, <3>2, OrderlyRead DEF Has
  <2>7. Orderly(u)
    <3>1. CASE ~h
      BY <2>6, <3>1 DEF PtrWarp, Has
    <3>2. CASE h
      <4>1. r.app[w] # "gone"
        BY <2>2, <3>2
      <4>2. /\ u.evq = Tail(q) /\ u.alive = s.alive /\ u.app = s.app
            /\ \A v \in Windows \ {w} :
                 /\ u.mapped[v] = s.mapped[v]
                 /\ Has(u, v, "HIDDEN") <=> Has(s, v, "HIDDEN")
            /\ \/ u.mapped[w] = TRUE /\ ~Has(u, w, "HIDDEN")
               \/ u.mapped[w] = p /\ (Has(u, w, "HIDDEN") <=> h)
        <5>1. /\ u.evq = r.evq /\ u.alive = r.alive /\ u.app = r.app
              /\ \A v \in Windows \ {w} :
                   /\ u.mapped[v] = r.mapped[v]
                   /\ Has(u, v, "HIDDEN") <=> Has(r, v, "HIDDEN")
              /\ IF Has(r, w, "HIDDEN") /\ ~Has(r, w, "STICKY")
                   THEN u.mapped[w] = TRUE /\ ~Has(u, w, "HIDDEN")
                   ELSE /\ u.mapped[w] = r.mapped[w]
                        /\ Has(u, w, "HIDDEN") <=> Has(r, w, "HIDDEN")
          BY <1>3, <4>1, PtrWarpShows
        <5> HIDE DEF u
        <5> QED
          BY <5>1 DEF Has
      <4>3. (w \in Managed(u)) = TRUE /\ Managed(u) = M
        BY <1>5, <2>5 DEF Good
      <4> HIDE DEF u
      <4>4. \/ u.mapped[w] = TRUE /\ Has(u, w, "HIDDEN") = FALSE
            \/ u.mapped[w] = p /\ Has(u, w, "HIDDEN") = h
        BY <4>2 DEF Has
      <4>5. Sane(Tail(q), w, w \in Managed(u), Has(u, w, "HIDDEN"), u.mapped[w], a)
        BY <2>2, <2>3, <3>2, <4>3, <4>4
      <4> QED
        BY <1>1, <1>3, <4>2, <4>3, <4>5, OrderlyRead
    <3> QED
      BY <3>1, <3>2
  <2> QED
    BY <2>4, <2>5, <2>6, <2>7
<1> QED
  BY <1>4, <1>5

\* xev_handle_unmapnotify and xev_handle_destroynotify.
LEMMA DeleteOrderly ==
  ASSUME NEW s \in State, NEW M, Good(s, M, M), Orderly(s), s.evq # <<>>,
         NEW w \in Windows,
         \/ Head(s.evq) = Event("UnmapNotify", w)
         \/ Head(s.evq) = Event("DestroyNotify", w),
         NEW r, Good(r, M, M), r.evq = Tail(s.evq), r.alive = s.alive,
         r.app = s.app, r.mapped = s.mapped, r.flags = s.flags
  PROVE  IF w \in M /\ (Head(s.evq).type = "UnmapNotify" => ~Has(s, w, "HIDDEN"))
           THEN Orderly(Delete(r, w))
           ELSE Orderly(r)
<1> DEFINE q == s.evq
           h == Has(s, w, "HIDDEN")
           a == s.app[w]
           p == s.mapped[w]
           k == w \in M
           t == Delete(r, w)
<1>1. Head(q).win = w /\ Head(q).type \in {"UnmapNotify", "DestroyNotify"}
  BY DEF Event
<1>2. r \in State /\ Managed(r) = M /\ Managed(s) = M
  BY DEF Good
<1>3. /\ q \in Seq(EventRecords) /\ p \in BOOLEAN
      /\ h \in BOOLEAN /\ k \in BOOLEAN /\ Sane(q, w, k, h, p, a)
      /\ a \in {"gone", "withdrawn", "shown"}
  BY <1>1, <1>2, HeadSane DEF Has
<1>0. ~k => ~h
  BY <1>1 DEF Good, Has
<1>4. /\ Head(q).type = "UnmapNotify" =>
           /\ k /\ (h => Sane(Tail(q), w, k, h, p, a))
           /\ ~h => Sane(Tail(q), w, FALSE, FALSE, p, a)
      /\ Head(q).type = "DestroyNotify" =>
           /\ Sane(Tail(q), w, FALSE, FALSE, p, a)
           /\ ~k => Sane(Tail(q), w, k, h, p, a)
  <2>1. q # <<>>
    OBVIOUS
  <2> HIDE DEF q, h, p, a, k
  <2>2. CASE Head(q).type = "UnmapNotify"
    <3>1. k
      BY <1>1, <1>3, <2>1, <2>2, SaneUnmap
    <3>2. h => Sane(Tail(q), w, k, h, p, a)
      BY <1>1, <1>3, <2>1, <2>2, SaneUnmap, ZenonT(60)
    <3>3. ~h => Sane(Tail(q), w, FALSE, FALSE, p, a)
      BY <1>1, <1>3, <2>1, <2>2, SaneUnmap, ZenonT(60)
    <3> QED
      BY <2>2, <3>1, <3>2, <3>3
  <2>3. CASE Head(q).type = "DestroyNotify"
    <3>1. Sane(Tail(q), w, FALSE, FALSE, p, a)
      BY <1>1, <1>3, <2>1, <2>3, SaneDestroy, ZenonT(60)
    <3>2. k = FALSE => h = FALSE
      BY <1>0, <1>3
    <3> QED
      BY <1>3, <2>3, <3>1, <3>2
  <2> QED
    BY <1>1, <2>2, <2>3
<1>5. CASE ~(w \in M /\ (Head(s.evq).type = "UnmapNotify" => ~Has(s, w, "HIDDEN")))
  <2>1. Sane(Tail(q), w, k, h, p, a)
    BY <1>1, <1>4, <1>5
  <2>2. (w \in Managed(r)) = k /\ Has(r, w, "HIDDEN") = h /\ r.mapped[w] = p
    BY <1>2 DEF Has
  <2>3. Sane(Tail(q), w, w \in Managed(r), Has(r, w, "HIDDEN"), r.mapped[w], a)
    BY <2>1, <2>2
  <2>4. Orderly(r)
    BY <1>1, <1>2, <2>3, OrderlyRead DEF Has
  <2> QED
    BY <1>5, <2>4
<1>6. CASE w \in M /\ (Head(s.evq).type = "UnmapNotify" => ~Has(s, w, "HIDDEN"))
  <2>1. Sane(Tail(q), w, FALSE, FALSE, p, a)
    BY <1>1, <1>4, <1>6
  <2>2. /\ t.evq = Tail(q) /\ t.alive = s.alive /\ t.app = s.app
        /\ t.mapped = s.mapped /\ t.flags = [s.flags EXCEPT ![w] = {}]
        /\ Managed(t) = M \ {w}
    BY <1>6, DeleteReleases
  <2> HIDE DEF t
  <2>3. s.flags \in [Clients -> SUBSET Flags] /\ w \in Clients
    BY DEF State, Clients
  <2>4. (w \in Managed(t)) = FALSE /\ Has(t, w, "HIDDEN") = FALSE /\ t.mapped[w] = p
    BY <2>2, <2>3 DEF Has
  <2>5. Sane(Tail(q), w, w \in Managed(t), Has(t, w, "HIDDEN"), t.mapped[w], a)
    BY <2>1, <2>4
  <2>6. \A v \in Windows \ {w} :
          /\ t.mapped[v] = s.mapped[v]
          /\ v \in Managed(t) <=> v \in Managed(s)
          /\ Has(t, v, "HIDDEN") <=> Has(s, v, "HIDDEN")
    BY <1>2, <2>2, <2>3 DEF Has, Clients
  <2>7. Orderly(t)
    BY <1>1, <2>2, <2>5, <2>6, OrderlyRead
  <2> QED
    BY <1>6, <2>7 DEF t
<1> QED
  BY <1>5, <1>6

\* xev_handle_unmapnotify of a synthetic event only writes WM_STATE.
LEMMA SendUnmapOrderly ==
  ASSUME NEW s \in State, Orderly(s), s.evq # <<>>,
         NEW w \in Windows, Head(s.evq) = Event("SendUnmap", w),
         NEW r, r.evq = Tail(s.evq), r.alive = s.alive, Managed(r) = Managed(s),
         r.app = s.app, r.mapped = s.mapped, r.flags = s.flags
  PROVE  Orderly(r)
<1> DEFINE q == s.evq
           h == Has(s, w, "HIDDEN")
           a == s.app[w]
           p == s.mapped[w]
           k == w \in Managed(s)
<1>1. Head(q).win = w /\ Head(q).type = "SendUnmap"
  BY DEF Event
<1>2. /\ q \in Seq(EventRecords) /\ p \in BOOLEAN
      /\ h \in BOOLEAN /\ k \in BOOLEAN /\ Sane(q, w, k, h, p, a)
  BY <1>1, HeadSane DEF Has
<1>3. Sane(Tail(q), w, k, h, p, a)
  <2> HIDE DEF q, h, p, a, k
  <2> QED
    BY <1>1, <1>2, SaneOther DEF q
<1>4. (w \in Managed(r)) = k /\ Has(r, w, "HIDDEN") = h /\ r.mapped[w] = p
  BY DEF Has
<1>5. Sane(Tail(q), w, w \in Managed(r), Has(r, w, "HIDDEN"), r.mapped[w], a)
  BY <1>3, <1>4
<1> QED
  BY <1>1, <1>5, OrderlyRead DEF Has

----------------------------------------------------------------------------
(* Applications.                                                           *)

\* The application does something with w, and other windows do not notice.
LEMMA OrderlyApp ==
  ASSUME NEW s, Orderly(s), NEW w \in Windows, NEW t,
         t.alive = s.alive, Managed(t) = Managed(s), t.flags = s.flags,
         \A v \in Windows \ {w} :
           /\ t.mapped[v] = s.mapped[v] /\ t.app[v] = s.app[v]
           /\ Sane(t.evq, v, v \in Managed(s), Has(s, v, "HIDDEN"),
                   s.mapped[v], s.app[v]),
         Sane(t.evq, w, w \in Managed(s), Has(s, w, "HIDDEN"), t.mapped[w], t.app[w])
  PROVE  Orderly(t)
<1> SUFFICES ASSUME NEW v \in Windows
             PROVE  Sane(t.evq, v, v \in Managed(t), Has(t, v, "HIDDEN"),
                         t.mapped[v], t.app[v])
  BY DEF Orderly
<1>1. Has(t, v, "HIDDEN") = Has(s, v, "HIDDEN") /\ (v \in Managed(t)) = (v \in Managed(s))
  BY DEF Has
<1> QED
  BY <1>1

\* The current state, as Orderly sees it.
LEMMA CurrentOrderly ==
  ASSUME OInv
  PROVE  /\ IInv /\ Orderly(S) /\ S \in State /\ Good(S, Managed(S), Managed(S))
         /\ S.evq = evq /\ S.app = app /\ S.mapped = mapped /\ S.flags = flags
         /\ evq \in Seq(EventRecords) /\ mapped \in [Windows -> BOOLEAN]
         /\ app \in [Windows -> {"gone", "withdrawn", "shown"}]
         /\ \A w \in Windows : Sane(evq, w, w \in Managed(S), Has(S, w, "HIDDEN"),
                                    mapped[w], app[w])
<1>1. /\ IInv /\ Orderly(S) /\ S \in State /\ Good(S, Managed(S), Managed(S))
      /\ S.evq = evq /\ S.app = app /\ S.mapped = mapped /\ S.flags = flags
  BY Current DEF OInv
<1>2. S.evq \in Seq(EventRecords)
  BY <1>1, EventTyped
<1> QED
  BY <1>1, <1>2 DEF Orderly, State

\* What Pending says of the unread events.
LEMMA PendingUnread ==
  ASSUME evq \in Seq(EventRecords), NEW w, NEW type, type \notin Pending(w)
  PROVE  Unread(evq, type, w) = {}
<1>1. DOMAIN evq = 1 .. Len(evq)
  BY LenProperties
<1> QED
  BY <1>1 DEF Pending, Unread

\* A step of the application of w that leaves Sane what it was of w, once its
\* events are sent, is orderly.
LEMMA AppStepOrderly ==
  ASSUME OInv, NEW w \in Windows, UNCHANGED <<clientq, flags, alive>>,
         NEW m, NEW a, mapped' = [mapped EXCEPT ![w] = m], app' = [app EXCEPT ![w] = a],
         Sane(evq', w, w \in Managed(S), Has(S, w, "HIDDEN"), m, a),
         \A v \in Windows \ {w} :
           Sane(evq', v, v \in Managed(S), Has(S, v, "HIDDEN"), mapped[v], app[v])
  PROVE  Orderly(S')
<1> DEFINE t == S'
<1>1. /\ t.alive = S.alive /\ t.clientq = S.clientq /\ t.flags = S.flags
      /\ t.evq = evq' /\ t.mapped = mapped' /\ t.app = app'
  BY DEF S
<1>2. Managed(t) = Managed(S)
  BY <1>1 DEF Managed
<1> HIDE DEF t
<1>3. /\ Orderly(S) /\ S.app = app /\ S.mapped = mapped
      /\ mapped \in [Windows -> BOOLEAN]
      /\ app \in [Windows -> {"gone", "withdrawn", "shown"}]
  BY CurrentOrderly
<1>4. t.mapped[w] = m /\ t.app[w] = a
  BY <1>1, <1>3
<1>5. \A v \in Windows \ {w} : t.mapped[v] = S.mapped[v] /\ t.app[v] = S.app[v]
  BY <1>1, <1>3
<1>6. Sane(t.evq, w, w \in Managed(S), Has(S, w, "HIDDEN"), t.mapped[w], t.app[w])
  BY <1>1, <1>4
<1>7. \A v \in Windows \ {w} :
        Sane(t.evq, v, v \in Managed(S), Has(S, v, "HIDDEN"), S.mapped[v], S.app[v])
  BY <1>1, <1>3
<1> QED
  BY <1>1, <1>2, <1>3, <1>5, <1>6, <1>7, OrderlyApp DEF t

\* XMapWindow, XUnmapWindow, XDestroyWindow and a new window.
LEMMA AppOrderly ==
  ASSUME CalmDesk, OInv, App
  PROVE  Orderly(S')
<1>1. /\ S \in State /\ evq \in Seq(EventRecords) /\ mapped \in [Windows -> BOOLEAN]
      /\ app \in [Windows -> {"gone", "withdrawn", "shown"}]
      /\ \A v \in Windows : Sane(evq, v, v \in Managed(S), Has(S, v, "HIDDEN"),
                                 mapped[v], app[v])
      /\ S.evq = evq /\ S.app = app /\ S.mapped = mapped /\ S.flags = flags
  BY CurrentOrderly
<1>2. PICK w \in Windows :
        \/ \E g \in Groups \cup {NoGroup} : AppCreate(w, g)
        \/ AppMap(w)
        \/ \E b \in BOOLEAN : AppUnmap(w, b)
        \/ AppDestroy(w)
  BY DEF App
<1> DEFINE k == w \in Managed(S)
           h == Has(S, w, "HIDDEN")
           ForOthers(q) == \A v \in Windows \ {w} :
             Sane(q, v, v \in Managed(S), Has(S, v, "HIDDEN"), mapped[v], app[v])
           E(type) == Event(type, w)
<1>3. /\ Sane(evq, w, k, h, mapped[w], app[w]) /\ ForOthers(evq)
      /\ mapped[w] \in BOOLEAN
  BY <1>1, <1>2
<1>4. ASSUME NEW q \in Seq(EventRecords), NEW type \in EventTypes, ForOthers(q)
      PROVE  /\ Append(q, E(type)) \in Seq(EventRecords)
             /\ ForOthers(Append(q, E(type)))
             /\ Append(q, E(type)) = q \o <<E(type)>>
  <2>1. E(type) \in EventRecords /\ E(type).win = w
    BY DEF Event, EventRecords
  <2>2. Append(q, E(type)) = q \o <<E(type)>> /\ Append(q, E(type)) \in Seq(EventRecords)
    BY <2>1, AppendIsConcat, AppendProperties
  <2>3. ASSUME NEW v \in Windows \ {w}
        PROVE  Sane(Append(q, E(type)), v, v \in Managed(S), Has(S, v, "HIDDEN"),
                    mapped[v], app[v])
    <3> HIDE DEF E
    <3> QED
      BY <1>4, <2>1, <2>3, SaneSent
  <2> QED
    BY <2>2, <2>3
<1>5. \A type \in {"MapRequest", "UnmapNotify", "SendUnmap", "DestroyNotify"} :
        type \in EventTypes
  BY DEF EventTypes
<1> HIDE DEF k, h, ForOthers, E
<1>6. ASSUME NEW g, AppCreate(w, g)
      PROVE  Orderly(S')
  <2>1. /\ UNCHANGED <<clientq, flags, alive, evq, mapped>> /\ Pending(w) = {}
        /\ app' = [app EXCEPT ![w] = "withdrawn"] /\ w \notin Managed(S)
    BY <1>6 DEF AppCreate, Become, S
  <2>2. \A type : Unread(evq, type, w) = {}
    BY <1>1, <2>1, PendingUnread
  <2>3. k = FALSE
    BY <2>1 DEF k
  <2>4. SaneAt({}, {}, {}, FALSE, h, mapped[w], app[w])
    BY <1>3, <2>2, <2>3 DEF Sane
  <2>5. SaneAt({}, {}, {}, FALSE, h, mapped[w], "withdrawn")
    BY <2>4 DEF SaneAt
  <2>6. Sane(evq', w, k, h, mapped[w], "withdrawn")
    BY <2>1, <2>2, <2>3, <2>5 DEF Sane
  <2>7. mapped' = [mapped EXCEPT ![w] = mapped[w]] /\ ForOthers(evq')
    BY <1>1, <1>3, <2>1
  <2> QED
    BY <2>1, <2>6, <2>7, AppStepOrderly DEF k, h, ForOthers
<1>7. CASE AppMap(w)
  <2>1. /\ UNCHANGED <<clientq, flags, alive, mapped>>
        /\ evq' = Append(evq, E("MapRequest")) /\ app[w] # "gone" /\ ~mapped[w]
        /\ app' = [app EXCEPT ![w] = "shown"]
    BY <1>7 DEF AppMap, Become, S, E
  <2>2. mapped[w] = FALSE
    BY <1>3, <2>1
  <2>3. Sane(evq', w, k, h, FALSE, "shown")
    BY <1>1, <1>3, <2>1, <2>2, SaneMapped DEF E
  <2>4. mapped' = [mapped EXCEPT ![w] = FALSE] /\ ForOthers(evq')
    BY <1>1, <1>3, <1>4, <1>5, <2>1, <2>2
  <2> QED
    BY <2>1, <2>3, <2>4, AppStepOrderly DEF k, h, ForOthers
<1>8. ASSUME NEW b \in BOOLEAN, AppUnmap(w, b)
      PROVE  Orderly(S')
  <2> DEFINE q == Append(evq, E("UnmapNotify"))
  <2>1. /\ UNCHANGED <<clientq, flags, alive>> /\ mapped[w]
        /\ app' = [app EXCEPT ![w] = "withdrawn"]
        /\ mapped' = [mapped EXCEPT ![w] = FALSE]
        /\ evq' = (evq \o <<E("UnmapNotify")>>)
                    \o (IF b THEN <<E("SendUnmap")>> ELSE <<>>)
    BY <1>8 DEF AppUnmap, Become, S, E, CalmDesk
  <2>2. /\ q \in Seq(EventRecords) /\ ForOthers(q) /\ q = evq \o <<E("UnmapNotify")>>
    BY <1>1, <1>3, <1>4, <1>5
  <2>3. Sane(q, w, k, h, FALSE, "withdrawn")
    <3>1. mapped[w] = TRUE
      BY <1>3, <2>1
    <3> QED
      BY <1>1, <1>3, <3>1, SaneUnmapped DEF E
  <2> HIDE DEF q
  <2>4. CASE b
    <3>1. evq' = Append(q, E("SendUnmap")) /\ ForOthers(evq')
      BY <1>4, <1>5, <2>1, <2>2, <2>4
    <3>2. E("SendUnmap") \in EventRecords /\ E("SendUnmap").type = "SendUnmap"
      BY <1>5 DEF E, Event, EventRecords
    <3>3. Sane(evq', w, k, h, FALSE, "withdrawn")
      BY <2>2, <2>3, <3>1, <3>2, SaneSent
    <3> QED
      BY <2>1, <3>1, <3>3, AppStepOrderly DEF k, h, ForOthers
  <2>5. CASE ~b
    <3>1. evq' = q
      BY <2>1, <2>2, <2>5, ConcatEmptySeq
    <3> QED
      BY <2>1, <2>2, <2>3, <3>1, AppStepOrderly DEF k, h, ForOthers
  <2> QED
    BY <1>8, <2>4, <2>5
<1>9. CASE AppDestroy(w)
  <2> DEFINE q == IF mapped[w] THEN Append(evq, E("UnmapNotify")) ELSE evq
             a == IF mapped[w] THEN "withdrawn" ELSE app[w]
  <2>1. /\ UNCHANGED <<clientq, flags, alive>> /\ "MapRequest" \notin Pending(w)
        /\ app' = [app EXCEPT ![w] = "gone"] /\ app[w] # "gone"
        /\ mapped' = [mapped EXCEPT ![w] = FALSE]
        /\ evq' = (evq \o (IF mapped[w] THEN <<E("UnmapNotify")>> ELSE <<>>))
                    \o <<E("DestroyNotify")>>
    BY <1>9 DEF AppDestroy, Become, S, E, CalmDesk
  <2>2. Unread(evq, "MapRequest", w) = {}
    BY <1>1, <2>1, PendingUnread
  <2>3. /\ q \in Seq(EventRecords) /\ ForOthers(q)
        /\ q = evq \o (IF mapped[w] THEN <<E("UnmapNotify")>> ELSE <<>>)
        /\ Sane(q, w, k, h, FALSE, a) /\ a # "gone"
        /\ Unread(q, "MapRequest", w) = {}
    <3>1. CASE mapped[w] = TRUE
      <4> DEFINE e == E("UnmapNotify")
                 r == Append(evq, e)
      <4>1. r \in Seq(EventRecords) /\ ForOthers(r) /\ r = evq \o <<e>>
        BY <1>1, <1>3, <1>4, <1>5
      <4>2. Sane(r, w, k, h, FALSE, "withdrawn")
        BY <1>1, <1>3, <3>1, SaneUnmapped DEF E
      <4>3. e \in EventRecords /\ e.type = "UnmapNotify"
        BY <1>5 DEF E, Event, EventRecords
      <4>4. Unread(r, "MapRequest", w) = {}
        <5> HIDE DEF e
        <5> QED
          BY <1>1, <2>2, <4>3, UnreadAppend
      <4> QED
        BY <3>1, <4>1, <4>2, <4>4
    <3>2. CASE mapped[w] = FALSE
      <4>1. evq \o <<>> = evq
        BY <1>1, ConcatEmptySeq
      <4> QED
        BY <1>1, <1>3, <2>1, <2>2, <3>2, <4>1
    <3> QED
      BY <1>3, <3>1, <3>2
  <2> HIDE DEF q, a
  <2>4. evq' = Append(q, E("DestroyNotify")) /\ ForOthers(evq')
    BY <1>4, <1>5, <2>1, <2>3
  <2>5. Sane(evq', w, k, h, FALSE, "gone")
    BY <2>3, <2>4, SaneDestroyed DEF E
  <2> QED
    BY <2>1, <2>4, <2>5, AppStepOrderly DEF k, h, ForOthers
<1> QED
  BY <1>2, <1>6, <1>7, <1>8, <1>9

----------------------------------------------------------------------------
(* The event loop.                                                         *)

\* Become(t) makes an orderly state t the next state.
LEMMA BecomeOrderly ==
  ASSUME NEW t, NEW N, Good(t, N, N), Orderly(t), Become(t)
  PROVE  Orderly(S')
<1>1. t \in State
  BY DEF Good
<1>2. S' = t
  BY <1>1 DEF Become, S, State
<1> QED
  BY <1>2

\* The handlers of the queued events.
LEMMA StructureOrderly ==
  ASSUME CalmDesk, OInv, Structure
  PROVE  Orderly(S')
<1> DEFINE M == Managed(S)
<1>1. /\ S \in State /\ Good(S, M, M) /\ Orderly(S) /\ IInv /\ S.evq = evq
      /\ S.flags = flags
  BY CurrentOrderly
<1>2. evq # <<>>
  BY DEF Structure, HandleMapRequest, HandleUnmapNotify, HandleSendUnmap,
         HandleDestroyNotify, Next_Event
<1>3. /\ Good(Rest, M, M) /\ Rest \in State /\ Managed(Rest) = M
      /\ Rest.evq = Tail(S.evq) /\ Rest.alive = S.alive /\ Rest.app = S.app
      /\ Rest.mapped = S.mapped /\ Rest.flags = S.flags
  <2>1. Good(Rest, M, M)
    BY <1>1, <1>2, RestGood
  <2>2. /\ Rest.evq = Tail(S.evq) /\ Rest.alive = S.alive /\ Rest.app = S.app
        /\ Rest.mapped = S.mapped /\ Rest.flags = S.flags
    BY <1>1 DEF Rest, State
  <2> QED
    BY <2>1, <2>2 DEF Good
<1>4. Atoms = {}
  BY DEF CalmDesk, Atoms
<1>5. ASSUME NEW w \in Windows, HandleMapRequest(w)
      PROVE  Orderly(S')
  <2>1. PICK hint \in {"none", "Normal", "Iconic"} :
          Become(MapRequested(Rest, w, hint, {}))
    BY <1>4, <1>5 DEF HandleMapRequest
  <2>2. Head(S.evq) = Event("MapRequest", w) /\ S.evq # <<>>
    BY <1>1, <1>2, <1>5 DEF HandleMapRequest, Next_Event
  <2>3. PICK N : /\ Good(MapRequested(Rest, w, hint, {}), N, N)
                 /\ Orderly(MapRequested(Rest, w, hint, {}))
    BY <1>1, <1>3, <2>2, MapRequestedOrderly
  <2> QED
    BY <2>1, <2>3, BecomeOrderly
<1>6. ASSUME NEW w \in Windows, HandleUnmapNotify(w) \/ HandleDestroyNotify(w)
      PROVE  Orderly(S')
  <2> DEFINE let == w \in M /\ (Head(S.evq).type = "UnmapNotify" => ~Has(S, w, "HIDDEN"))
  <2>1. /\ S.evq # <<>>
        /\ \/ Head(S.evq) = Event("UnmapNotify", w)
           \/ Head(S.evq) = Event("DestroyNotify", w)
    BY <1>1, <1>2, <1>6 DEF HandleUnmapNotify, HandleDestroyNotify, Next_Event
  <2>2. IF let THEN Orderly(Delete(Rest, w)) ELSE Orderly(Rest)
    BY <1>1, <1>3, <2>1, DeleteOrderly
  <2>3. IF let THEN Become(Delete(Rest, w)) ELSE Become(Rest)
    <3>1. CASE HandleUnmapNotify(w)
      <4>1. Head(S.evq).type = "UnmapNotify"
        BY <1>1, <3>1 DEF HandleUnmapNotify, Next_Event, Event
      <4> QED
        BY <3>1, <4>1 DEF HandleUnmapNotify
    <3>2. CASE HandleDestroyNotify(w)
      <4>1. Head(S.evq).type # "UnmapNotify"
        BY <1>1, <3>2 DEF HandleDestroyNotify, Next_Event, Event
      <4> QED
        BY <3>2, <4>1 DEF HandleDestroyNotify
    <3> QED
      BY <1>6, <3>1, <3>2
  <2>4. let => Good(Delete(Rest, w), M \ {w}, M \ {w})
    BY <1>3, DeleteGood
  <2> HIDE DEF let
  <2> QED
    BY <1>3, <2>2, <2>3, <2>4, BecomeOrderly
<1>7. ASSUME NEW w \in Windows, HandleSendUnmap(w)
      PROVE  Orderly(S')
  <2> DEFINE t == S'
  <2>1. /\ t.clientq = Rest.clientq /\ t.evq = Rest.evq /\ t.alive = Rest.alive
        /\ t.app = Rest.app /\ t.mapped = Rest.mapped /\ t.flags = Rest.flags
    <3>1. CASE Become(Rest)
      BY <3>1 DEF Become, S
    <3>2. CASE Become([Rest EXCEPT !.wm_state = SetProperty(S, @, {w}, "Withdrawn")])
      <4> DEFINE p == SetProperty(S, Rest.wm_state, {w}, "Withdrawn")
                 u == [Rest EXCEPT !.wm_state = p]
      <4>1. Become(u)
        BY <1>3, <3>2 DEF State
      <4> HIDE DEF p
      <4>2. /\ u.clientq = Rest.clientq /\ u.evq = Rest.evq /\ u.alive = Rest.alive
            /\ u.app = Rest.app /\ u.mapped = Rest.mapped /\ u.flags = Rest.flags
        BY <1>3 DEF State
      <4> HIDE DEF u
      <4> QED
        BY <4>1, <4>2 DEF Become, S
    <3> QED
      BY <1>7, <3>1, <3>2 DEF HandleSendUnmap
  <2>2. Managed(t) = Managed(S)
    BY <1>3, <2>1 DEF Managed
  <2>3. Head(S.evq) = Event("SendUnmap", w) /\ S.evq # <<>>
    BY <1>1, <1>2, <1>7 DEF HandleSendUnmap, Next_Event
  <2> HIDE DEF t
  <2> QED
    BY <1>1, <1>3, <2>1, <2>2, <2>3, SendUnmapOrderly DEF t
<1> QED
  BY <1>5, <1>6, <1>7 DEF Structure

\* The pointer moves to a window, or to the root window.
LEMMA PointerOrderly ==
  ASSUME OInv, Pointer
  PROVE  Orderly(S')
<1> DEFINE M == Managed(S)
<1>1. /\ S \in State /\ Good(S, M, M) /\ Orderly(S) /\ IInv
  BY CurrentOrderly
<1>2. CASE HandleEnterRoot
  <2> DEFINE t == S'
  <2>1. /\ t.clientq = S.clientq /\ t.evq = S.evq /\ t.alive = S.alive
        /\ t.app = S.app /\ t.mapped = S.mapped
        /\ t.flags = [S.flags EXCEPT ![curcc] = @ \ {"ACTIVE"}]
    BY <1>1, <1>2 DEF HandleEnterRoot, Become, None, S
  <2>2. Managed(t) = Managed(S)
    BY <2>1 DEF Managed
  <2>3. S.flags \in [Clients -> SUBSET Flags] /\ \A w \in Windows : w \in Clients
    BY <1>1 DEF State, Clients
  <2> HIDE DEF t
  <2>4. \A w \in Windows : Has(t, w, "HIDDEN") <=> Has(S, w, "HIDDEN")
    BY <2>1, <2>3 DEF Has
  <2> QED
    BY <1>1, <2>1, <2>2, <2>4, OrderlySame DEF t
<1>3. ASSUME NEW w \in Windows, HandleEnter(w)
      PROVE  Orderly(S')
  <2> DEFINE t == IF S.cycling THEN S ELSE MoveToFront(S, w)
             F == Reflag(Reflag(t.flags, {t.curcc}, {"ACTIVE"}, {}),
                         {w}, {}, {"ACTIVE"})
             u == [t EXCEPT !.flags = F, !.curcc = w, !.net_active = w]
  <2>1. w \in M /\ Become(SetActive(S, w))
    BY <1>3 DEF HandleEnter
  <2>2. Good(SetActive(S, w), M, M)
    BY <1>1, <2>1, SetActiveGood
  <2>3. SetActive(S, w) = IF Has(S, w, "HIDDEN") THEN S ELSE u
    BY DEF SetActive
  <2>4. /\ t \in State /\ t.evq = S.evq /\ t.alive = S.alive /\ t.app = S.app
        /\ t.mapped = S.mapped /\ t.flags = S.flags
    <3>1. t \in State
      BY <1>1, <2>1, MoveToFrontGood, KnownType
    <3>2. LET r == MoveToFront(S, w)
          IN /\ r.evq = S.evq /\ r.alive = S.alive /\ r.app = S.app
             /\ r.mapped = S.mapped /\ r.flags = S.flags
      BY <1>1 DEF MoveToFront, State
    <3> HIDE DEF u
    <3> QED
      BY <3>1, <3>2
  <2> HIDE DEF t
  <2>5. /\ u.evq = S.evq /\ u.alive = S.alive /\ u.app = S.app
        /\ u.mapped = S.mapped /\ u.flags = F
    BY <2>4 DEF State
  <2>6. \A v \in Windows : "HIDDEN" \in F[v] <=> "HIDDEN" \in S.flags[v]
    BY <2>4 DEF Reflag, Clients
  <2> HIDE DEF F, u
  <2>7. CASE Has(S, w, "HIDDEN")
    BY <1>1, <2>1, <2>3, <2>7, BecomeOrderly
  <2>8. CASE ~Has(S, w, "HIDDEN")
    <3>1. Good(u, M, M) /\ Become(u)
      BY <2>1, <2>2, <2>3, <2>8
    <3>2. Managed(u) = M
      BY <3>1 DEF Good
    <3>3. \A v \in Windows : Has(u, v, "HIDDEN") <=> Has(S, v, "HIDDEN")
      BY <2>5, <2>6 DEF Has
    <3>4. Orderly(u)
      BY <1>1, <2>5, <3>2, <3>3, OrderlySame
    <3> QED
      BY <3>1, <3>4, BecomeOrderly
  <2> QED
    BY <2>7, <2>8
<1> QED
  BY <1>2, <1>3 DEF Pointer

\* A handler of a command or a message.
LEMMA HandleCalm ==
  ASSUME NEW t, NEW N, Calmly(t, N), Handle(t)
  PROVE  Orderly(S')
<1>1. Good(t, N, N) /\ Orderly(t) /\ Become(t)
  BY SettledOrderly, CalmType DEF Handle
<1> QED
  BY <1>1, BecomeOrderly

\* A command or message finds every event read.
LEMMA HandleIdle ==
  ASSUME CalmDesk, OInv, NEW t, Handle(t)
  PROVE  Calmly(S, Managed(S)) /\ S.evq = <<>>
<1>1. Good(S, Managed(S), Managed(S)) /\ Orderly(S) /\ S.evq = evq
  BY CurrentOrderly
<1>2. evq = <<>>
  BY DEF Handle, CalmDesk
<1> QED
  BY <1>1, <1>2, OrderlySettled

\* The commands of kbfunc.c and mousefunc.c.
LEMMA CommandOrderly ==
  ASSUME CalmDesk, OInv, Command
  PROVE  Orderly(S')
<1> DEFINE M == Managed(S)
<1>1. S \in State /\ IInv /\ M \subseteq Windows
  BY CurrentOrderly, Current
<1>2. Pointed \subseteq M /\ Targets \subseteq M \cup Fakes
  BY <1>1, TargetsKnown
<1>3. SUFFICES ASSUME Calmly(S, M), S.evq = <<>> PROVE Orderly(S')
  <2>1. \E t : Handle(t)
    BY DEF Command, KbHide, KbToggleSticky, KbGroupToggle, KbMoveToGroup,
           KbGroup, KbGroupOnly, MenuGroup, MouseMenuGroup, KbCycleGroup, KbCycle,
           KbNoGroup, KeyRelease, MenuUnhide, Search
  <2> QED
    BY <2>1, HandleIdle
<1> HIDE DEF M
<1>4. ASSUME NEW c \in Clients, KbHide(c)
      PROVE  Orderly(S')
  <2>1. Calmly(Hide(S, c), M)
    BY <1>2, <1>3, <1>4, HideAllCalm DEF KbHide, Hide
  <2> QED
    BY <1>4, <2>1, HandleCalm DEF KbHide
<1>5. ASSUME NEW c \in Clients, KbToggleSticky(c)
      PROVE  Orderly(S')
  BY <1>2, <1>3, <1>5, ToggleStickyCalm, HandleCalm DEF KbToggleSticky
<1>6. ASSUME NEW c \in Clients, KbGroupToggle(c)
      PROVE  Orderly(S')
  BY <1>2, <1>3, <1>6, ToggleMembershipCalm, HandleCalm DEF KbGroupToggle
<1>7. ASSUME NEW c \in Clients, NEW g \in Groups, KbMoveToGroup(c, g)
      PROVE  Orderly(S')
  BY <1>2, <1>3, <1>7, MoveToGroupCalm, HandleCalm DEF KbMoveToGroup
<1>8. ASSUME NEW g \in Groups, KbGroup(g)
      PROVE  Orderly(S')
  BY <1>3, <1>8, GroupHideToggleCalm, HandleCalm DEF KbGroup
<1>9. ASSUME NEW g \in Groups, KbGroupOnly(g)
      PROVE  Orderly(S')
  BY <1>3, <1>9, GroupOnlyCalm, HandleCalm DEF KbGroupOnly
<1>10. ASSUME NEW g \in Groups, MenuGroup(g)
       PROVE  Orderly(S')
  <2>1. Calmly(GroupShow(S, g), M) /\ Calmly(GroupHide(S, g), M)
    BY <1>3, GroupShowCalm, GroupHideCalm, QuietEmpty
  <2> QED
    BY <1>10, <2>1, HandleCalm DEF MenuGroup
<1>11. ASSUME NEW g \in Groups, MouseMenuGroup(g)
       PROVE  Orderly(S')
  BY <1>10, <1>11 DEF MouseMenuGroup
<1>12. ASSUME NEW dir \in {1, -1}, KbCycleGroup(dir)
       PROVE  Orderly(S')
  <2>1. Calmly(CycleGroup(S, dir), M)
    BY <1>1, <1>3, CycleGroupType, GroupOnlyCalm DEF CycleGroup
  <2> QED
    BY <1>12, <2>1, HandleCalm DEF KbCycleGroup
<1>13. ASSUME NEW dir \in {1, -1}, NEW b \in BOOLEAN, KbCycle(dir, b)
       PROVE  Orderly(S')
  BY <1>3, <1>13, CycleCalm, HandleCalm DEF KbCycle
<1>14. CASE KbNoGroup
  BY <1>3, <1>14, GroupAllToggleCalm, HandleCalm DEF KbNoGroup
<1>15. CASE KeyRelease
  BY <1>3, <1>15, CycleLeaveCalm, HandleCalm DEF KeyRelease
<1>16. ASSUME NEW w \in M
       PROVE  Calmly(Unhide(S, w), M) /\ Unhide(S, w).evq = <<>>
  BY <1>3, <1>16, UnhideAllCalm, QuietEmpty DEF Unhide
<1>17. ASSUME NEW w \in Windows, MenuUnhide(w)
       PROVE  Orderly(S')
  <2>1. w \in M
    BY <1>17 DEF MenuUnhide, M
  <2>2. Calmly(Unhidden(w), M)
    BY <1>16, <2>1, PtrWarpCalm, QuietEmpty DEF Unhidden
  <2> QED
    BY <1>17, <2>2, HandleCalm DEF MenuUnhide
<1>18. ASSUME NEW w \in Windows, Search(w)
       PROVE  Orderly(S')
  <2> DEFINE u == IF Has(S, w, "HIDDEN") THEN Unhide(S, w) ELSE S
             t == PtrWarp(u, w)
             v == GroupHide(t, t.group_current)
  <2>1. w \in M
    BY <1>18 DEF Search, M
  <2>2. Calmly(u, M) /\ u.evq = <<>>
    BY <1>3, <1>16, <2>1
  <2>3. Handle(GroupSetActive(v, t.group[w]))
    BY <1>18 DEF Search
  <2> HIDE DEF u
  <2>4. Calmly(t, M)
    BY <2>1, <2>2, PtrWarpCalm, QuietEmpty
  <2> HIDE DEF t
  <2>5. t.group_current \in Groups /\ t.group[w] \in Groups
    <3>1. Good(t, M, M) /\ t \in State
      BY <2>4, CalmType
    <3> QED
      BY <1>1, <2>1, <3>1 DEF Good, State
  <2>6. Calmly(v, M)
    BY <2>4, <2>5, GroupHideCalm
  <2> HIDE DEF v
  <2>7. Calmly(GroupSetActive(v, t.group[w]), M)
    BY <2>5, <2>6, GroupSetActiveCalm
  <2> QED
    BY <2>3, <2>7, HandleCalm
<1>19. CASE \E c \in Clients : KbHide(c) \/ KbToggleSticky(c) \/ KbGroupToggle(c)
  BY <1>19, <1>4, <1>5, <1>6
<1>20. CASE \E c \in Clients, g \in Groups : KbMoveToGroup(c, g)
  BY <1>20, <1>7
<1>21. CASE \E g \in Groups : KbGroup(g) \/ KbGroupOnly(g)
                              \/ MenuGroup(g) \/ MouseMenuGroup(g)
  BY <1>21, <1>8, <1>9, <1>10, <1>11
<1>22. CASE \E dir \in {1, -1} : KbCycleGroup(dir) \/ KbCycle(dir, TRUE)
                                                   \/ KbCycle(dir, FALSE)
  BY <1>22, <1>12, <1>13
<1>23. CASE \E w \in Windows : MenuUnhide(w) \/ Search(w)
  BY <1>23, <1>17, <1>18
<1> QED
  BY <1>14, <1>15, <1>19, <1>20, <1>21, <1>22, <1>23 DEF Command

\* The messages of xev_handle_clientmessage, and WM_TRANSIENT_FOR.
LEMMA MessageOrderly ==
  ASSUME CalmDesk, OInv, Message
  PROVE  Orderly(S')
<1> DEFINE M == Managed(S)
<1>1. SUFFICES ASSUME Calmly(S, M), S.evq = <<>> PROVE Orderly(S')
  <2>1. \E t : Handle(t)
    BY DEF Message, MsgIconify, PropertyTransient, MsgDesktop, MsgState,
           MsgCurrentDesktop
  <2> QED
    BY <2>1, HandleIdle
<1>2. ASSUME NEW w \in Windows, MsgIconify(w)
      PROVE  Orderly(S')
  <2>1. Calmly(Hide(S, w), M)
    BY <1>1, <1>2, HideAllCalm DEF MsgIconify, Hide
  <2> QED
    BY <1>2, <2>1, HandleCalm DEF MsgIconify
<1>3. ASSUME NEW w \in Windows, PropertyTransient(w)
      PROVE  Orderly(S')
  BY <1>1, <1>3, TransientCalm, HandleCalm DEF PropertyTransient
<1>4. ASSUME NEW w \in Windows, NEW g \in Groups, MsgDesktop(w, g)
      PROVE  Orderly(S')
  BY <1>1, <1>4, MoveToGroupCalm, HandleCalm DEF MsgDesktop
<1>5. (SUBSET Atoms) \ {{}} = {}
  BY DEF CalmDesk, Atoms
<1>6. ASSUME NEW g \in Groups, MsgCurrentDesktop(g)
      PROVE  Orderly(S')
  BY <1>1, <1>6, GroupOnlyCalm, HandleCalm DEF MsgCurrentDesktop
<1> QED
  BY <1>2, <1>3, <1>4, <1>5, <1>6 DEF Message

\* An empty screen.
LEMMA InitOrderly ==
  ASSUME Init
  PROVE  OInv
<1>1. IInv
  BY InitGood
<1>2. /\ S.alive /\ S.evq = <<>> /\ S.clientq = <<>> /\ S.flags = [c \in Clients |-> {}]
      /\ S.mapped = [w \in Windows |-> FALSE]
  BY DEF Init, S
<1>3. \A w \in Windows : \A type : Unread(S.evq, type, w) = {}
  BY <1>2 DEF Unread
<1>4. Managed(S) = {}
  BY <1>2 DEF Managed, ToSet
<1>5. ASSUME NEW w \in Windows
      PROVE  Sane(S.evq, w, w \in Managed(S), Has(S, w, "HIDDEN"), S.mapped[w], S.app[w])
  <2>1. (w \in Managed(S)) = FALSE /\ S.mapped[w] = FALSE
    BY <1>2, <1>4
  <2>2. SaneAt({}, {}, {}, FALSE, Has(S, w, "HIDDEN"), FALSE, S.app[w])
    BY DEF SaneAt
  <2> QED
    BY <1>3, <2>1, <2>2 DEF Sane
<1> QED
  BY <1>1, <1>2, <1>5 DEF OInv, Orderly

\* Every step keeps the invariant, and so does a stutter.
LEMMA NextOrderly ==
  ASSUME CalmDesk, OInv, [Next]_vars
  PROVE  OInv'
<1>1. IInv'
  BY NextGood DEF OInv
<1>2. Orderly(S')
  <2>1. CASE UNCHANGED vars
    <3>1. S' = S
      BY <2>1 DEF S, vars
    <3> QED
      BY <3>1 DEF OInv
  <2> QED
    BY <2>1, AppOrderly, StructureOrderly, PointerOrderly, CommandOrderly,
       MessageOrderly DEF Next
<1> QED
  BY <1>1, <1>2 DEF OInv

----------------------------------------------------------------------------
(* The theorems.                                                           *)

\* Every state a calm desk can be in is orderly.
THEOREM OrderlyInvariant ==
  ASSUME CalmDesk
  PROVE  Spec => []OInv
<1>1. Init => OInv
  BY InitOrderly
<1>2. OInv /\ [Next]_vars => OInv'
  BY NextOrderly
<1> QED
  BY <1>1, <1>2, PTL DEF Spec

\* On a calm desk a mapped window is managed: client_init shows what it takes,
\* and client_delete takes no window off the list that is on display.
THEOREM MappedIsManagedHolds ==
  ASSUME CalmDesk
  PROVE  Spec => []MappedIsManaged
<1>1. OInv => MappedIsManaged
  <2> SUFFICES ASSUME OInv, NEW w \in Windows, mapped[w]
               PROVE  w \in Managed(S)
    BY DEF MappedIsManaged
  <2> QED
    BY CurrentOrderly DEF Sane, SaneAt
<1> QED
  BY <1>1, OrderlyInvariant, PTL

\* ... a managed window that is not on display is in the menu of hidden windows
\* once its events are read (xev_handle_unmapnotify drops the others).
THEOREM UnmappedIsListedHolds ==
  ASSUME CalmDesk
  PROVE  Spec => []UnmappedIsListed
<1>1. OInv => UnmappedIsListed
  <2> SUFFICES ASSUME OInv, NEW w \in Managed(S), ~mapped[w], Pending(w) = {},
                      ~Has(S, w, "HIDDEN")
               PROVE  FALSE
    BY DEF UnmappedIsListed
  <2>1. w \in Windows /\ evq \in Seq(EventRecords)
    BY CurrentOrderly, Current
  <2>2. Unread(evq, "UnmapNotify", w) = {}
    BY <2>1, PendingUnread
  <2> QED
    BY <2>1, <2>2, CurrentOrderly DEF Sane, SaneAt
<1> QED
  BY <1>1, OrderlyInvariant, PTL

\* ... and a window its application has withdrawn or destroyed is no client any
\* more once its events are read (xev_handle_unmapnotify, xev_handle_destroynotify).
THEOREM WithdrawnIsReleasedHolds ==
  ASSUME CalmDesk
  PROVE  Spec => []WithdrawnIsReleased
<1>1. OInv => WithdrawnIsReleased
  <2> SUFFICES ASSUME OInv, NEW w \in Managed(S), Pending(w) = {}
               PROVE  app[w] = "shown"
    BY DEF WithdrawnIsReleased
  <2>1. w \in Windows /\ evq \in Seq(EventRecords)
    BY CurrentOrderly, Current
  <2>2. Unread(evq, "UnmapNotify", w) = {} /\ Unread(evq, "DestroyNotify", w) = {}
    BY <2>1, PendingUnread
  <2>3. app[w] \in {"gone", "withdrawn", "shown"}
    BY <2>1, CurrentOrderly
  <2> QED
    BY <2>1, <2>2, <2>3, CurrentOrderly DEF Sane, SaneAt
<1> QED
  BY <1>1, OrderlyInvariant, PTL

----------------------------------------------------------------------------
(* Commands that race, phantoms and every other habit: as long as no       *)
(* application destroys a window that has asked to be mapped, cwm has a    *)
(* window to take over for every MapRequest it reads.                      *)

\* cwm is alive, and a window of which a MapRequest is unread exists.
Waiting(s) ==
  /\ s \in State
  /\ s.alive
  /\ \A i \in 1 .. Len(s.evq) :
       s.evq[i].type = "MapRequest" => s.app[s.evq[i].win] # "gone"

WInv == IInv /\ Waiting(S)

\* What touches neither the queue nor the applications.
LEMMA WaitingSame ==
  ASSUME NEW s, Waiting(s), NEW t \in State,
         t.evq = s.evq, t.alive = s.alive, t.app = s.app
  PROVE  Waiting(t)
BY DEF Waiting

\* client_hide sends UnmapNotify events only.
LEMMA HideAllWaiting ==
  ASSUME NEW s, Waiting(s), NEW W \in SUBSET Clients
  PROVE  Waiting(HideAll(s, W))
<1> DEFINE t == HideAll(s, W)
<1>0. s \in State
  BY DEF Waiting
<1>1. s \in State /\ t \in State
  BY HideAllType DEF Waiting
<1>2. t.alive = s.alive /\ t.app = s.app
  BY <1>0 DEF HideAll, State
<1>3. \A i \in 1 .. Len(t.evq) :
        \/ i \in 1 .. Len(s.evq) /\ t.evq[i] = s.evq[i]
        \/ t.evq[i].type = "UnmapNotify"
  BY <1>1, HideAllEvents
<1> HIDE DEF t
<1> QED
  BY <1>1, <1>2, <1>3 DEF Waiting, t

\* client_unhide sends none.
LEMMA UnhideAllWaiting ==
  ASSUME NEW s, Waiting(s), NEW W \in SUBSET Clients
  PROVE  Waiting(UnhideAll(s, W))
<1> DEFINE t == UnhideAll(s, W)
<1>0. s \in State
  BY DEF Waiting
<1>1. s \in State /\ t \in State
  BY UnhideAllType DEF Waiting
<1>2. t.alive = s.alive /\ t.app = s.app /\ t.evq = s.evq
  BY <1>0 DEF UnhideAll, State
<1> HIDE DEF t
<1> QED
  BY <1>1, <1>2, WaitingSame DEF t

\* client_ptrwarp.
LEMMA PtrWarpWaiting ==
  ASSUME NEW s, Waiting(s), NEW c \in Clients
  PROVE  Waiting(PtrWarp(s, c))
BY UnhideAllWaiting DEF PtrWarp, Unhide

\* group_assign.
LEMMA AssignAllWaiting ==
  ASSUME NEW s, Waiting(s), NEW W \in SUBSET Clients, NEW g \in Groups
  PROVE  Waiting(AssignAll(s, W, g))
<1> DEFINE t == AssignAll(s, W, g)
<1>0. s \in State
  BY DEF Waiting
<1>1. s \in State /\ t \in State
  BY AssignAllType DEF Waiting
<1>2. t.alive = s.alive /\ t.app = s.app /\ t.evq = s.evq
  BY <1>0 DEF AssignAll, State
<1> HIDE DEF t
<1> QED
  BY <1>1, <1>2, WaitingSame DEF t

\* group_set_active.
LEMMA GroupSetActiveWaiting ==
  ASSUME NEW s, Waiting(s), NEW g \in Groups
  PROVE  Waiting(GroupSetActive(s, g))
<1> DEFINE t == GroupSetActive(s, g)
<1>1. s \in State /\ t \in State
  BY GroupSetActiveType DEF Waiting
<1>2. t.alive = s.alive /\ t.app = s.app /\ t.evq = s.evq
  BY <1>1 DEF GroupSetActive, State
<1> HIDE DEF t
<1> QED
  BY <1>1, <1>2, WaitingSame DEF t

\* An assignment to cc->flags.
LEMMA FlagWaiting ==
  ASSUME NEW s, Waiting(s), NEW c \in Clients, NEW F \in SUBSET Flags
  PROVE  Waiting([s EXCEPT !.flags[c] = F])
<1> DEFINE t == [s EXCEPT !.flags[c] = F]
<1>1. s \in State /\ t \in State
  BY FlagType DEF Waiting
<1>2. t.alive = s.alive /\ t.app = s.app /\ t.evq = s.evq
  BY <1>1 DEF State
<1> HIDE DEF t
<1> QED
  BY <1>1, <1>2, WaitingSame DEF t

\* The flags that are set or cleared one at a time.
LEMMA FlagStepWaiting ==
  ASSUME NEW s, Waiting(s), NEW c \in Clients, NEW f \in Flags
  PROVE  /\ Waiting([s EXCEPT !.flags[c] = @ \cup {f}])
         /\ Waiting([s EXCEPT !.flags[c] = @ \ {f}])
<1>1. s \in State /\ s.flags[c] \in SUBSET Flags
  BY DEF Waiting, State
<1>2. /\ Waiting([s EXCEPT !.flags[c] = s.flags[c] \cup {f}])
      /\ Waiting([s EXCEPT !.flags[c] = s.flags[c] \ {f}])
  BY <1>1, FlagWaiting
<1>3. /\ [s EXCEPT !.flags[c] = @ \cup {f}] = [s EXCEPT !.flags[c] = s.flags[c] \cup {f}]
      /\ [s EXCEPT !.flags[c] = @ \ {f}] = [s EXCEPT !.flags[c] = s.flags[c] \ {f}]
  BY <1>1 DEF State
<1> QED
  BY <1>2, <1>3

\* group_movetogroup, group_toggle_membership_enter, client_toggle_sticky and
\* client_toggle_hidden.
LEMMA MemberWaiting ==
  ASSUME NEW s, Waiting(s), NEW c \in Clients, NEW g \in Groups
  PROVE  /\ Waiting(MoveToGroup(s, c, g))
         /\ Waiting(ToggleMembership(s, c))
         /\ Waiting(ToggleSticky(s, c))
         /\ Waiting(ToggleHidden(s, c))
<1>1. s \in State /\ s.group_current \in Groups /\ FirstGroup \in Groups
  BY GroupsType DEF Waiting, State
<1>2. Waiting(MoveToGroup(s, c, g))
  BY HideAllWaiting, AssignAllWaiting DEF MoveToGroup, Hide, Assign
<1>3. Waiting(ToggleMembership(s, c))
  BY <1>1, AssignAllWaiting DEF ToggleMembership, Assign
<1>4. "STICKY" \in Flags /\ "HIDDEN" \in Flags
  BY DEF Flags
<1>5. Waiting(ToggleSticky(s, c))
  <2>1. /\ Waiting([s EXCEPT !.flags[c] = @ \cup {"STICKY"}])
        /\ Waiting([s EXCEPT !.flags[c] = @ \ {"STICKY"}])
    BY <1>4, FlagStepWaiting
  <2> QED
    BY <1>1, <2>1, AssignAllWaiting DEF ToggleSticky, Assign
<1>6. Waiting(ToggleHidden(s, c))
  <2>1. /\ Waiting([s EXCEPT !.flags[c] = @ \cup {"HIDDEN"}])
        /\ Waiting([s EXCEPT !.flags[c] = @ \ {"HIDDEN"}])
    BY <1>4, FlagStepWaiting
  <2>2. \/ ToggleHidden(s, c) = [s EXCEPT !.flags[c] = @ \cup {"HIDDEN"}]
        \/ ToggleHidden(s, c) = [s EXCEPT !.flags[c] = @ \ {"HIDDEN"}]
    BY <1>1 DEF ToggleHidden, State
  <2> QED
    BY <2>1, <2>2
<1> QED
  BY <1>2, <1>3, <1>5, <1>6

\* client_transient.
LEMMA TransientWaiting ==
  ASSUME NEW s, Waiting(s), NEW w \in Windows
  PROVE  Waiting(Transient(s, w))
<1> DEFINE tc == TransientFor[w]
           t == MoveToGroup(s, w, s.group[tc])
<1>1. CASE s.app[w] = "gone" \/ tc \notin Managed(s) \/ s.group[tc] = NoGroup
  BY <1>1 DEF Transient
<1>2. CASE ~ (s.app[w] = "gone" \/ tc \notin Managed(s) \/ s.group[tc] = NoGroup)
  <2>1. s \in State /\ w \in Clients /\ tc \in Clients
    BY <1>2, ManagedType DEF Waiting, Clients
  <2>2. s.group[tc] \in Groups
    BY <1>2, <2>1 DEF State
  <2>3. Waiting(t) /\ "IGNORE" \in Flags
    BY <2>1, <2>2, MemberWaiting DEF Flags
  <2>4. Transient(s, w) = IF Has(s, tc, "IGNORE")
          THEN [t EXCEPT !.flags[w] = @ \cup {"IGNORE"}] ELSE t
    BY <1>2 DEF Transient
  <2> HIDE DEF t
  <2>5. Waiting([t EXCEPT !.flags[w] = @ \cup {"IGNORE"}])
    BY <2>1, <2>3, FlagStepWaiting
  <2> QED
    BY <2>3, <2>4, <2>5
<1> QED
  BY <1>1, <1>2

\* client_init.
LEMMA ClientInitWaiting ==
  ASSUME NEW s, Waiting(s), NEW w \in Windows,
         NEW hint \in {"none", "Normal", "Iconic"}, NEW atoms
  PROVE  Waiting(ClientInit(s, w, hint, atoms))
<1> DEFINE a == IF hint # "none" /\ ~s.mapped[w]
                  THEN [s EXCEPT !.wm_state[w] = hint] ELSE s
           b == Assign(a, w, AutogroupOf(a, w))
           c == IF w \in Ignored
                  THEN [b EXCEPT !.flags[w] = @ \cup {"IGNORE"}] ELSE b
           d == Transient(c, w)
           e == ListClients([d EXCEPT !.clientq = Append(@, w)])
           f == IF "STICKY" \in atoms THEN ToggleSticky(e, w) ELSE e
           g == IF "HIDDEN" \in atoms THEN ToggleHidden(f, w) ELSE f
<1>1. s \in State /\ w \in Clients /\ "IGNORE" \in Flags /\ FirstGroup \in Groups
  BY GroupsType DEF Clients, Waiting, Flags
<1>2. Waiting(a)
  <2> DEFINE r == [s EXCEPT !.wm_state[w] = hint]
  <2>1. [s.wm_state EXCEPT ![w] = hint]
          \in [Windows -> {"none", "Normal", "Iconic", "Withdrawn"}]
    BY <1>1 DEF State
  <2>2. r \in State /\ r.evq = s.evq /\ r.alive = s.alive /\ r.app = s.app
    BY <1>1, <2>1 DEF State
  <2> HIDE DEF r
  <2>3. Waiting(r)
    BY <2>2, WaitingSame
  <2> QED
    BY <2>3 DEF r
<1> HIDE DEF a
<1>3. Waiting(b)
  <2>1. a \in State /\ AutogroupOf(a, w) \in Groups
    BY <1>2, AutogroupType DEF Waiting
  <2> QED
    BY <1>1, <1>2, <2>1, AssignAllWaiting DEF Assign
<1> HIDE DEF b
<1>4. Waiting(c)
  BY <1>1, <1>3, FlagStepWaiting
<1> HIDE DEF c
<1>5. Waiting(d)
  BY <1>4, TransientWaiting
<1> HIDE DEF d
<1>6. Waiting(e)
  <2> DEFINE q == Append(d.clientq, w)
             r == [d EXCEPT !.clientq = q]
  <2>1. d \in State /\ q \in Seq(Windows)
    BY <1>5 DEF Waiting, State
  <2>2. e = ListClients(r)
    BY <2>1 DEF State
  <2> HIDE DEF q, e
  <2>3. r \in State /\ r.evq = d.evq /\ r.alive = d.alive /\ r.app = d.app
    BY <2>1 DEF State
  <2> HIDE DEF r
  <2>4. e \in State /\ e.evq = d.evq /\ e.alive = d.alive /\ e.app = d.app
    BY <2>2, <2>3, ListClientsType DEF ListClients, State
  <2> QED
    BY <1>5, <2>4, WaitingSame
<1> HIDE DEF e
<1>7. Waiting(f)
  BY <1>1, <1>6, MemberWaiting
<1> HIDE DEF f
<1>8. Waiting(g)
  BY <1>1, <1>7, MemberWaiting
<1> HIDE DEF g
<1>9. Waiting(Hide(g, w)) /\ Waiting(Unhide(g, w))
  BY <1>1, <1>8, HideAllWaiting, UnhideAllWaiting DEF Hide, Unhide
<1>10. ClientInit(s, w, hint, atoms) =
         IF g.wm_state[w] = "Iconic" THEN Hide(g, w) ELSE Unhide(g, w)
  BY DEF ClientInit, a, b, c, d, e, f, g
<1> QED
  BY <1>9, <1>10

\* client_delete.
LEMMA DeleteWaiting ==
  ASSUME NEW s, Waiting(s), NEW w \in Windows
  PROVE  Waiting(Delete(s, w))
<1> DEFINE t == Delete(s, w)
<1>0. s \in State
  BY DEF Waiting
<1>1. t \in State
  BY <1>0, DeleteType
<1>2. t.alive = s.alive /\ t.app = s.app /\ t.evq = s.evq
  BY <1>0 DEF Delete, ListClients, None, State
<1> HIDE DEF t
<1> QED
  BY <1>1, <1>2, WaitingSame DEF t

\* group_hide, group_show, group_hidetoggle, group_only and group_cycle.
LEMMA GroupWaiting ==
  ASSUME NEW s, Waiting(s), NEW g \in Groups
  PROVE  /\ Waiting(GroupHide(s, g))
         /\ Waiting(GroupShow(s, g))
         /\ Waiting(GroupHideToggle(s, g))
         /\ Waiting(GroupOnly(s, g))
<1>1. s \in State /\ \A h \in Groups : s.members[h] \in SUBSET Clients
  BY DEF Waiting, State
<1>2. Waiting(GroupHide(s, g))
  BY <1>1, HideAllWaiting DEF GroupHide
<1>3. ASSUME NEW r, Waiting(r)
      PROVE  Waiting(GroupShow(r, g))
  <2> DEFINE t == UnhideAll(r, r.members[g])
  <2>1. r.members[g] \in SUBSET Clients
    BY <1>3 DEF Waiting, State
  <2>2. Waiting(t)
    BY <1>3, <2>1, UnhideAllWaiting
  <2>3. GroupShow(r, g) = AssignAll(t, StickyClients(t), g)
    BY DEF GroupShow
  <2> HIDE DEF t
  <2>4. StickyClients(t) \in SUBSET Clients
    BY <2>2, ManagedType DEF Waiting, StickyClients
  <2> QED
    BY <2>2, <2>3, <2>4, AssignAllWaiting
<1>4. ASSUME NEW r, Waiting(r), NEW H \in SUBSET Groups
      PROVE  Waiting([r EXCEPT !.hidden_groups = H])
  <2> DEFINE t == [r EXCEPT !.hidden_groups = H]
  <2>1. t \in State /\ t.evq = r.evq /\ t.alive = r.alive /\ t.app = r.app
    BY <1>4 DEF Waiting, State
  <2> HIDE DEF t
  <2> QED
    BY <1>4, <2>1, WaitingSame DEF t
<1>5. Waiting(GroupHideToggle(s, g))
  <2> DEFINE u == GroupShow(s, g)
             v == GroupHide(s, g)
  <2>1. Waiting(u) /\ Waiting(v)
    BY <1>2, <1>3
  <2>2. GroupHideToggle(s, g) =
          IF g \in s.hidden_groups
            THEN [u EXCEPT !.hidden_groups = @ \ {g}]
            ELSE [v EXCEPT !.hidden_groups = @ \cup {g}]
    BY DEF GroupHideToggle
  <2> HIDE DEF u, v
  <2>3. /\ [u EXCEPT !.hidden_groups = @ \ {g}]
             = [u EXCEPT !.hidden_groups = u.hidden_groups \ {g}]
        /\ [v EXCEPT !.hidden_groups = @ \cup {g}]
             = [v EXCEPT !.hidden_groups = v.hidden_groups \cup {g}]
        /\ u.hidden_groups \in SUBSET Groups /\ v.hidden_groups \in SUBSET Groups
    BY <2>1 DEF Waiting, State
  <2>4. /\ Waiting([u EXCEPT !.hidden_groups = u.hidden_groups \ {g}])
        /\ Waiting([v EXCEPT !.hidden_groups = v.hidden_groups \cup {g}])
    BY <1>4, <2>1, <2>3
  <2> QED
    BY <2>2, <2>3, <2>4
<1>6. Waiting(GroupOnly(s, g))
  <2> DEFINE W == UNION {s.members[h] : h \in Groups \ {g}}
             t == HideAll(s, W)
  <2>1. W \in SUBSET Clients
    BY <1>1
  <2> HIDE DEF W
  <2>2. Waiting(t)
    BY <2>1, HideAllWaiting
  <2> HIDE DEF t
  <2>3. Waiting(GroupSetActive(t, g))
    BY <2>2, GroupSetActiveWaiting
  <2> QED
    BY <1>3, <2>3 DEF GroupOnly, t, W
<1> QED
  BY <1>2, <1>3, <1>5, <1>6

\* group_alltoggle.
LEMMA GroupAllToggleWaiting ==
  ASSUME NEW s, Waiting(s)
  PROVE  Waiting(GroupAllToggle(s))
<1> DEFINE full  == {g \in Groups : s.members[g] # {}}
           solid == {g \in full : ~(s.members[g] \subseteq StickyClients(s))}
           first == {g \in full : \A h \in full : g <= h}
           shown == solid \cup first
           last  == {g \in shown : \A h \in shown : h <= g}
           all   == UNION {s.members[g] : g \in full}
           toggled == [s EXCEPT !.hideall = ~@]
           t == UnhideAll(toggled, all)
<1>1. s \in State /\ \A h \in Groups : s.members[h] \in SUBSET Clients
  BY DEF Waiting, State
<1>2. all \in SUBSET Clients /\ last \subseteq Groups
  BY <1>1
<1>3. GroupAllToggle(s) =
        IF ~s.hideall THEN HideAll(toggled, all)
        ELSE IF last = {} THEN t
             ELSE AssignAll(t, StickyClients(t), CHOOSE g \in last : TRUE)
  BY DEF GroupAllToggle
<1> HIDE DEF last, all
<1>4. Waiting(toggled)
  <2>1. /\ toggled \in State /\ toggled.evq = s.evq
        /\ toggled.alive = s.alive /\ toggled.app = s.app
    BY <1>1 DEF State
  <2> HIDE DEF toggled
  <2> QED
    BY <2>1, WaitingSame
<1> HIDE DEF toggled
<1>5. Waiting(HideAll(toggled, all)) /\ Waiting(t)
  BY <1>2, <1>4, HideAllWaiting, UnhideAllWaiting
<1> HIDE DEF t
<1>6. ASSUME last # {}
      PROVE  Waiting(AssignAll(t, StickyClients(t), CHOOSE g \in last : TRUE))
  <2>1. (CHOOSE g \in last : TRUE) \in Groups
    BY <1>2, <1>6
  <2>2. StickyClients(t) \in SUBSET Clients
    BY <1>5, ManagedType DEF Waiting, StickyClients
  <2> QED
    BY <1>5, <2>1, <2>2, AssignAllWaiting
<1> QED
  BY <1>3, <1>5, <1>6

\* client_setactive and client_mtf.
LEMMA SetActiveWaiting ==
  ASSUME NEW s, Waiting(s), NEW w \in Windows
  PROVE  Waiting(SetActive(s, w)) /\ Waiting(MoveToFront(s, w))
<1> DEFINE m == MoveToFront(s, w)
           t == SetActive(s, w)
<1>1. s \in State /\ m \in State /\ t \in State
  BY MoveToFrontType, SetActiveType DEF Waiting
<1>2. m.alive = s.alive /\ m.app = s.app /\ m.evq = s.evq
  BY <1>1 DEF MoveToFront, State
<1>3. t.alive = s.alive /\ t.app = s.app /\ t.evq = s.evq
  BY <1>1 DEF SetActive, MoveToFront, State
<1> HIDE DEF m, t
<1> QED
  BY <1>1, <1>2, <1>3, WaitingSame DEF m, t

\* client_cycle and client_cycle_leave.
LEMMA CycleWaiting ==
  ASSUME NEW s, Waiting(s), s.curcc # NoClient => s.curcc \in Managed(s)
  PROVE  /\ \A dir \in {1, -1}, b \in BOOLEAN : Waiting(Cycle(s, dir, b))
         /\ Waiting(CycleLeave(s))
<1>1. s \in State
  BY DEF Waiting
<1>2. ASSUME NEW b \in BOOLEAN
      PROVE  Waiting([s EXCEPT !.cycling = b]) /\ [s EXCEPT !.cycling = b].curcc = s.curcc
  <2> DEFINE t == [s EXCEPT !.cycling = b]
  <2>1. /\ t \in State /\ t.evq = s.evq /\ t.alive = s.alive /\ t.app = s.app
        /\ t.curcc = s.curcc
    BY <1>1 DEF State
  <2> HIDE DEF t
  <2> QED
    BY <2>1, WaitingSame DEF t
<1>3. ASSUME NEW dir \in {1, -1}, NEW b \in BOOLEAN
      PROVE  Waiting(Cycle(s, dir, b))
  <2> DEFINE c == CycleTarget(s, dir, b)
  <2>1. CASE s.clientq = <<>> \/ c = NoClient
    BY <2>1 DEF Cycle
  <2>2. CASE ~ (s.clientq = <<>> \/ c = NoClient)
    <3>1. c \in Managed(s) \cup {NoClient}
      BY <1>1, <2>2, CycleTargetType
    <3>2. c \in Clients
      BY <1>1, <2>2, <3>1, ManagedType
    <3>3. Cycle(s, dir, b) = PtrWarp([s EXCEPT !.cycling = TRUE], c)
      BY <2>2 DEF Cycle
    <3> HIDE DEF c
    <3> QED
      BY <1>2, <3>2, <3>3, PtrWarpWaiting
  <2> QED
    BY <2>1, <2>2
<1>4. Waiting(CycleLeave(s))
  <2>1. s.curcc # NoClient => s.curcc \in Windows
    BY <1>1 DEF State
  <2> QED
    BY <1>2, <2>1, SetActiveWaiting DEF CycleLeave
<1> QED
  BY <1>3, <1>4

\* Become(t) makes t the next state.
LEMMA BecomeWaiting ==
  ASSUME NEW t, Waiting(t), Become(t)
  PROVE  Waiting(S')
<1>1. S' = t
  BY DEF Become, S, State, Waiting
<1> QED
  BY <1>1

\* The applications: none of them destroys a window that asked to be mapped.
LEMMA AppWaiting ==
  ASSUME "destroy_early" \notin Habits, WInv, IInv', App
  PROVE  Waiting(S')
<1>1. /\ evq \in Seq(EventRecords) /\ app \in [Windows -> {"gone", "withdrawn", "shown"}]
      /\ alive /\ S' \in State /\ S'.evq = evq' /\ S'.app = app' /\ S'.alive = alive'
      /\ \A i \in 1 .. Len(evq) : evq[i].type = "MapRequest" => app[evq[i].win] # "gone"
  <2>1. S \in State /\ S' \in State
    BY KnownType DEF WInv, IInv
  <2>2. S.evq = evq /\ S.app = app /\ S.alive = alive
    BY DEF S
  <2>3. S'.evq = evq' /\ S'.app = app' /\ S'.alive = alive'
    BY DEF S
  <2>4. evq \in Seq(EventRecords) /\ app \in [Windows -> {"gone", "withdrawn", "shown"}]
    BY <2>1, <2>2, EventTyped DEF State
  <2> QED
    BY <2>1, <2>2, <2>3, <2>4 DEF WInv, Waiting
<1>2. PICK w \in Windows :
        \/ \E g \in Groups \cup {NoGroup} : AppCreate(w, g)
        \/ AppMap(w)
        \/ \E b \in BOOLEAN : AppUnmap(w, b)
        \/ AppDestroy(w)
  BY DEF App
<1> DEFINE Sound(q, a) == \A i \in 1 .. Len(q) : q[i].type = "MapRequest" => a[q[i].win] # "gone"
<1>3. ASSUME NEW q \in Seq(EventRecords), NEW a, Sound(q, a), NEW e \in EventRecords,
             e.type = "MapRequest" => a[e.win] # "gone"
      PROVE  /\ q \o <<e>> \in Seq(EventRecords) /\ Sound(q \o <<e>>, a)
             /\ Append(q, e) = q \o <<e>> /\ q \o <<>> = q
  <2>1. /\ Append(q, e) = q \o <<e>> /\ Append(q, e) \in Seq(EventRecords)
        /\ Len(Append(q, e)) = Len(q) + 1 /\ Len(q) \in Nat
        /\ \A i \in 1 .. Len(q) : Append(q, e)[i] = q[i]
        /\ Append(q, e)[Len(q) + 1] = e
    BY <1>3, AppendIsConcat, AppendProperties, LenProperties
  <2>2. q \o <<>> = q
    BY <1>3, ConcatEmptySeq
  <2> DEFINE v == Append(q, e)
  <2> HIDE DEF v
  <2>3. \A i \in 1 .. Len(v) : i \in 1 .. Len(q) \/ i = Len(q) + 1
    BY <2>1 DEF v
  <2>4. Sound(v, a)
    BY <1>3, <2>1, <2>3 DEF v
  <2> QED
    BY <2>1, <2>2, <2>4 DEF v
<1>4. \A type \in EventTypes :
        /\ Event(type, w) \in EventRecords
        /\ Event(type, w).type = type /\ Event(type, w).win = w
  BY <1>2 DEF Event, EventRecords
<1>5. {"MapRequest", "UnmapNotify", "SendUnmap", "DestroyNotify"} = EventTypes
  BY DEF EventTypes
<1>6. Sound(evq, app)
  BY <1>1
<1> HIDE DEF Sound
<1>7. Sound(evq', app') /\ alive' = alive
  <2>1. ASSUME NEW g, AppCreate(w, g)
        PROVE  Sound(evq', app') /\ alive' = alive
    <3>1. evq' = evq /\ alive' = alive /\ app' = [app EXCEPT ![w] = "withdrawn"]
      BY <2>1 DEF AppCreate, Become, S
    <3>2. \A x : app[x] # "gone" => [app EXCEPT ![w] = "withdrawn"][x] # "gone"
      BY <1>1, <1>2
    <3> QED
      BY <1>6, <3>1, <3>2 DEF Sound
  <2>2. CASE AppMap(w)
    <3> DEFINE b == [app EXCEPT ![w] = "shown"]
    <3>1. evq' = Append(evq, Event("MapRequest", w)) /\ alive' = alive /\ app' = b
      BY <2>2 DEF AppMap, Become, S
    <3>2. b[w] = "shown" /\ \A x : app[x] # "gone" => b[x] # "gone"
      BY <1>1, <1>2
    <3> HIDE DEF b
    <3>3. Sound(evq, b)
      BY <1>6, <3>2 DEF Sound
    <3> DEFINE e == Event("MapRequest", w)
    <3>4. e \in EventRecords /\ e.type = "MapRequest" /\ e.win = w
      BY <1>4, <1>5
    <3> HIDE DEF e
    <3>5. Append(evq, e) = evq \o <<e>> /\ Sound(evq \o <<e>>, b)
      BY <1>1, <1>3, <3>2, <3>3, <3>4
    <3>6. Sound(Append(evq, e), b)
      BY <3>5
    <3> QED
      BY <3>1, <3>6 DEF e
  <2>3. ASSUME NEW s \in BOOLEAN, AppUnmap(w, s)
        PROVE  Sound(evq', app') /\ alive' = alive
    <3> DEFINE b == [app EXCEPT ![w] = "withdrawn"]
               U == IF mapped[w] THEN <<Event("UnmapNotify", w)>> ELSE <<>>
               V == IF s THEN <<Event("SendUnmap", w)>> ELSE <<>>
    <3>1. evq' = (evq \o U) \o V /\ alive' = alive /\ app' = b
      BY <2>3 DEF AppUnmap, Become, S
    <3>2. \A x : app[x] # "gone" => b[x] # "gone"
      BY <1>1, <1>2
    <3> HIDE DEF b
    <3>3. Sound(evq, b)
      BY <1>6, <3>2 DEF Sound
    <3>4. evq \o U \in Seq(EventRecords) /\ Sound(evq \o U, b)
      BY <1>1, <1>3, <1>4, <1>5, <3>3
    <3> HIDE DEF U
    <3>5. Sound((evq \o U) \o V, b)
      BY <1>3, <1>4, <1>5, <3>4
    <3> QED
      BY <3>1, <3>5
  <2>4. CASE AppDestroy(w)
    <3> DEFINE b == [app EXCEPT ![w] = "gone"]
               U == IF mapped[w] THEN <<Event("UnmapNotify", w)>> ELSE <<>>
    <3>1. /\ evq' = (evq \o U) \o <<Event("DestroyNotify", w)>> /\ alive' = alive
          /\ app' = b /\ "MapRequest" \notin Pending(w)
      BY <2>4 DEF AppDestroy, Become, S
    <3>2. Unread(evq, "MapRequest", w) = {}
      BY <1>1, <3>1, PendingUnread
    <3>3. \A x : x # w /\ app[x] # "gone" => b[x] # "gone"
      BY <1>1, <1>2
    <3> HIDE DEF b
    <3>4. Sound(evq, b)
      BY <1>6, <3>2, <3>3 DEF Sound, Unread
    <3>5. evq \o U \in Seq(EventRecords) /\ Sound(evq \o U, b)
      BY <1>1, <1>3, <1>4, <1>5, <3>4
    <3> HIDE DEF U
    <3> QED
      BY <1>3, <1>4, <1>5, <3>1, <3>5
  <2> QED
    BY <1>2, <2>1, <2>2, <2>3, <2>4
<1> QED
  BY <1>1, <1>7 DEF Sound, Waiting

\* The events that are read: client_init is asked for a window that exists.
LEMMA StructureWaiting ==
  ASSUME WInv, Structure
  PROVE  Waiting(S')
<1>1. S \in State /\ evq \in Seq(EventRecords) /\ S.evq = evq
  BY EventTyped DEF WInv, Waiting, S
<1>2. PICK w \in Windows : \/ HandleMapRequest(w) \/ HandleUnmapNotify(w)
                           \/ HandleSendUnmap(w) \/ HandleDestroyNotify(w)
  BY DEF Structure
<1>3. evq # <<>>
  BY <1>2 DEF HandleMapRequest, HandleUnmapNotify, HandleSendUnmap,
              HandleDestroyNotify, Next_Event
<1>4. /\ Rest \in State /\ Rest.evq = Tail(evq) /\ Rest.alive = S.alive
      /\ Rest.app = S.app /\ Managed(Rest) = Managed(S) /\ Rest.wm_state = S.wm_state
  <2>1. Good(Rest, Managed(S), Managed(S))
    BY <1>1, <1>3, RestGood DEF WInv
  <2>2. /\ Rest.evq = Tail(evq) /\ Rest.alive = S.alive /\ Rest.app = S.app
        /\ Rest.wm_state = S.wm_state
    BY <1>1 DEF Rest, State
  <2> QED
    BY <2>1, <2>2 DEF Good
<1> HIDE DEF Rest
<1>5. Waiting(Rest)
  <2> DEFINE t == Tail(evq)
  <2>1. /\ Len(evq) \in Nat \ {0} /\ Len(t) = Len(evq) - 1
        /\ \A i \in 1 .. Len(t) : t[i] = evq[i + 1]
    BY <1>1, <1>3, HeadTailProperties, LenProperties, EmptySeq
  <2> HIDE DEF t
  <2>2. \A i \in 1 .. Len(t) : i + 1 \in 1 .. Len(evq) /\ t[i] = evq[i + 1]
    BY <2>1
  <2> QED
    BY <1>1, <1>4, <2>2 DEF WInv, Waiting, t
<1>6. CASE HandleMapRequest(w)
  <2>1. PICK hint \in {"none", "Normal", "Iconic"}, atoms \in SUBSET Atoms :
          Become(MapRequested(Rest, w, hint, atoms))
    BY <1>6 DEF HandleMapRequest
  <2>2. Rest.app[w] # "gone" /\ w \in Clients
    <3>1. Head(evq) = evq[1] /\ 1 \in 1 .. Len(evq)
      BY <1>1, <1>3, HeadTailProperties, LenProperties, EmptySeq
    <3>2. evq[1].type = "MapRequest" /\ evq[1].win = w
      BY <1>6, <3>1 DEF HandleMapRequest, Next_Event, Event
    <3> QED
      BY <1>1, <1>4, <3>1, <3>2 DEF WInv, Waiting, Clients
  <2> DEFINE u == IF w \in Managed(Rest) THEN Rest ELSE ClientInit(Rest, w, hint, atoms)
  <2>3. Waiting(u)
    BY <1>5, ClientInitWaiting
  <2>4. MapRequested(Rest, w, hint, atoms) = IF Has(u, w, "IGNORE") THEN u ELSE PtrWarp(u, w)
    BY <2>2 DEF MapRequested
  <2> HIDE DEF u
  <2>5. Waiting(MapRequested(Rest, w, hint, atoms))
    BY <2>2, <2>3, <2>4, PtrWarpWaiting
  <2> QED
    BY <2>1, <2>5, BecomeWaiting
<1>7. CASE HandleUnmapNotify(w) \/ HandleDestroyNotify(w)
  <2>1. Become(Delete(Rest, w)) \/ Become(Rest)
    BY <1>7 DEF HandleUnmapNotify, HandleDestroyNotify
  <2> QED
    BY <1>5, <2>1, DeleteWaiting, BecomeWaiting
<1>8. CASE HandleSendUnmap(w)
  <2> DEFINE p == SetProperty(S, Rest.wm_state, {w}, "Withdrawn")
             t == [Rest EXCEPT !.wm_state = p]
  <2>1. p \in [Windows -> {"none", "Normal", "Iconic", "Withdrawn"}]
    BY <1>4, SetPropertyType DEF State
  <2>2. Become(t) \/ Become(Rest)
    <3>1. [Rest EXCEPT !.wm_state = SetProperty(S, @, {w}, "Withdrawn")] = t
      BY <1>4 DEF State
    <3> QED
      BY <1>8, <3>1 DEF HandleSendUnmap
  <2> HIDE DEF p
  <2>3. t \in State /\ t.evq = Rest.evq /\ t.alive = Rest.alive /\ t.app = Rest.app
    BY <1>4, <2>1 DEF State
  <2> HIDE DEF t
  <2>4. Waiting(t)
    BY <1>5, <2>3, WaitingSame
  <2> QED
    BY <1>5, <2>2, <2>4, BecomeWaiting
<1> QED
  BY <1>2, <1>6, <1>7, <1>8

\* The pointer.
LEMMA PointerWaiting ==
  ASSUME WInv, Pointer
  PROVE  Waiting(S')
<1>1. CASE \E w \in Windows : HandleEnter(w)
  BY <1>1, SetActiveWaiting, BecomeWaiting DEF HandleEnter, WInv
<1>2. CASE HandleEnterRoot
  <2> DEFINE r == [S EXCEPT !.flags[curcc] = @ \ {"ACTIVE"}]
             t == None(r)
  <2>1. S \in State /\ curcc \in Clients /\ "ACTIVE" \in Flags /\ Waiting(S)
    <3>1. S \in State /\ S.curcc = curcc
      BY DEF WInv, Waiting, S
    <3> QED
      BY <1>2, <3>1 DEF HandleEnterRoot, State, Clients, Flags, WInv
  <2>2. Waiting(r)
    BY <2>1, FlagStepWaiting
  <2> HIDE DEF r
  <2>3. t \in State /\ t.evq = r.evq /\ t.alive = r.alive /\ t.app = r.app
    <3>1. r \in State
      BY <2>2 DEF Waiting
    <3>2. t.evq = r.evq /\ t.alive = r.alive /\ t.app = r.app
      BY <3>1 DEF None, State
    <3> QED
      BY <3>1, <3>2, NoneType
  <2>4. Become(t)
    BY <1>2 DEF HandleEnterRoot, r
  <2> HIDE DEF t
  <2>5. Waiting(t)
    BY <2>2, <2>3, WaitingSame
  <2> QED
    BY <2>4, <2>5, BecomeWaiting
<1> QED
  BY <1>1, <1>2 DEF Pointer

\* The commands.
LEMMA CommandWaiting ==
  ASSUME WInv, Command
  PROVE  Waiting(S')
<1>1. /\ S \in State /\ Waiting(S) /\ (S.curcc # NoClient => S.curcc \in Managed(S))
      /\ S.group = group /\ S.group_current = group_current /\ group_current \in Groups
  <2>1. S \in State /\ Good(S, Managed(S), Managed(S)) /\ Waiting(S)
    BY DEF WInv, IInv, Waiting
  <2>2. S.group = group /\ S.group_current = group_current
    BY DEF S
  <2> QED
    BY <2>1, <2>2 DEF Good, State
<1>2. ASSUME NEW t, Handle(t), Waiting(t)
      PROVE  Waiting(S')
  BY <1>2, BecomeWaiting DEF Handle
<1>3. ASSUME NEW c \in Clients, NEW g \in Groups,
             KbHide(c) \/ KbToggleSticky(c) \/ KbGroupToggle(c) \/ KbMoveToGroup(c, g)
      PROVE  Waiting(S')
  <2>1. Waiting(Hide(S, c))
    BY <1>1, <1>3, HideAllWaiting DEF Hide
  <2>2. /\ Waiting(MoveToGroup(S, c, g)) /\ Waiting(ToggleMembership(S, c))
        /\ Waiting(ToggleSticky(S, c))
    BY <1>1, <1>3, MemberWaiting
  <2> QED
    BY <1>2, <1>3, <2>1, <2>2 DEF KbHide, KbToggleSticky, KbGroupToggle, KbMoveToGroup
<1>4. ASSUME NEW g \in Groups,
             KbGroup(g) \/ KbGroupOnly(g) \/ MenuGroup(g) \/ MouseMenuGroup(g)
      PROVE  Waiting(S')
  <2>1. /\ Waiting(GroupHide(S, g)) /\ Waiting(GroupShow(S, g))
        /\ Waiting(GroupHideToggle(S, g)) /\ Waiting(GroupOnly(S, g))
    BY <1>1, <1>4, GroupWaiting
  <2> QED
    BY <1>2, <1>4, <2>1 DEF KbGroup, KbGroupOnly, MenuGroup, MouseMenuGroup
<1>5. ASSUME NEW dir \in {1, -1},
             KbCycleGroup(dir) \/ KbCycle(dir, TRUE) \/ KbCycle(dir, FALSE)
      PROVE  Waiting(S')
  <2> DEFINE a == S.group_current + dir
  <2>1. a \in Int
    BY <1>1, ClientsAssumption DEF Groups
  <2>2. CycleGroup(S, dir) = GroupOnly(S, a % NGROUPS)
    BY DEF CycleGroup
  <2> HIDE DEF a
  <2>3. a % NGROUPS \in Groups
    BY <2>1, ClientsAssumption DEF Groups
  <2>4. Waiting(CycleGroup(S, dir))
    BY <1>1, <2>2, <2>3, GroupWaiting
  <2>5. Waiting(Cycle(S, dir, TRUE)) /\ Waiting(Cycle(S, dir, FALSE))
    BY <1>1, CycleWaiting
  <2> QED
    BY <1>2, <1>5, <2>4, <2>5 DEF KbCycleGroup, KbCycle
<1>6. CASE KbNoGroup
  BY <1>1, <1>2, <1>6, GroupAllToggleWaiting DEF KbNoGroup
<1>7. CASE KeyRelease
  BY <1>1, <1>2, <1>7, CycleWaiting DEF KeyRelease
<1>8. ASSUME NEW w \in Windows, MenuUnhide(w)
      PROVE  Waiting(S')
  <2>1. w \in Clients
    BY DEF Clients
  <2>2. Waiting(Unhidden(w))
    BY <1>1, <2>1, UnhideAllWaiting, PtrWarpWaiting DEF Unhidden, Unhide
  <2> QED
    BY <1>2, <1>8, <2>2 DEF MenuUnhide
<1>9. ASSUME NEW w \in Windows, Search(w)
      PROVE  Waiting(S')
  <2> DEFINE u == IF Has(S, w, "HIDDEN") THEN Unhide(S, w) ELSE S
             t == PtrWarp(u, w)
             v == GroupHide(t, t.group_current)
  <2>1. w \in Clients
    BY DEF Clients
  <2>2. Handle(GroupSetActive(v, t.group[w]))
    BY <1>9 DEF Search
  <2>3. Waiting(t) /\ t.group = S.group
    <3>1. Waiting(u) /\ u.group = S.group
      <4>1. Waiting(Unhide(S, w))
        BY <1>1, <2>1, UnhideAllWaiting DEF Unhide
      <4>2. Unhide(S, w).group = S.group
        BY <1>1 DEF Unhide, UnhideAll, State
      <4> QED
        BY <1>1, <4>1, <4>2
    <3> HIDE DEF u
    <3>2. Waiting(t)
      BY <2>1, <3>1, PtrWarpWaiting
    <3>3. t.group = u.group
      <4>1. u \in State
        BY <3>1 DEF Waiting
      <4> QED
        BY <4>1 DEF PtrWarp, Unhide, UnhideAll, State
    <3> QED
      BY <3>1, <3>2, <3>3
  <2>4. t.group[w] \in Groups
    BY <1>9, <2>3 DEF Search, WInv, IInv, Good
  <2> HIDE DEF t
  <2>5. Waiting(v)
    <3>1. t.group_current \in Groups
      BY <2>3 DEF Waiting, State
    <3> QED
      BY <2>3, <3>1, GroupWaiting
  <2> HIDE DEF v
  <2> QED
    BY <1>2, <2>2, <2>4, <2>5, GroupSetActiveWaiting
<1>10. CASE \E c \in Clients : KbHide(c) \/ KbToggleSticky(c) \/ KbGroupToggle(c)
  BY <1>1, <1>3, <1>10
<1> QED
  BY <1>3, <1>4, <1>5, <1>6, <1>7, <1>8, <1>9, <1>10 DEF Command

\* The messages and properties.
LEMMA MessageWaiting ==
  ASSUME WInv, Message
  PROVE  Waiting(S')
<1>1. Waiting(S) /\ \A w \in Windows : w \in Clients
  BY DEF WInv, Clients
<1>2. ASSUME NEW t, Handle(t), Waiting(t)
      PROVE  Waiting(S')
  BY <1>2, BecomeWaiting DEF Handle
<1>3. ASSUME NEW w \in Windows, MsgIconify(w) \/ PropertyTransient(w)
      PROVE  Waiting(S')
  <2>1. Waiting(Hide(S, w)) /\ Waiting(Transient(S, w))
    BY <1>1, <1>3, HideAllWaiting, TransientWaiting DEF Hide
  <2> QED
    BY <1>2, <1>3, <2>1 DEF MsgIconify, PropertyTransient
<1>4. ASSUME NEW w \in Windows, NEW g \in Groups, MsgDesktop(w, g)
      PROVE  Waiting(S')
  BY <1>1, <1>2, <1>4, MemberWaiting DEF MsgDesktop
<1>5. ASSUME NEW w \in Windows, NEW action, NEW atoms, MsgState(w, action, atoms)
      PROVE  Waiting(S')
  <2>1. PICK g : g \in Groups
    BY <1>1 DEF Waiting, State
  <2>2. \A t : Waiting(t) => Waiting(ToggleSticky(t, w)) /\ Waiting(ToggleHidden(t, w))
    BY <1>1, <1>5, <2>1, MemberWaiting
  <2>3. Waiting(NetWmState(S, w, action, atoms))
    BY <1>1, <2>2 DEF NetWmState
  <2> QED
    BY <1>2, <1>5, <2>3 DEF MsgState
<1>6. ASSUME NEW g \in Groups, MsgCurrentDesktop(g)
      PROVE  Waiting(S')
  BY <1>1, <1>2, <1>6, GroupWaiting DEF MsgCurrentDesktop
<1> QED
  BY <1>3, <1>4, <1>5, <1>6 DEF Message

\* xev_handle_maprequest always has a client to work on, unless an application
\* destroys a window it has asked the server to map: commands that race with
\* the events, and every other habit, do cwm no harm.
THEOREM NeverNullHolds ==
  ASSUME "destroy_early" \notin Habits
  PROVE  Spec => []NeverNull
<1>1. Init => WInv
  <2> SUFFICES ASSUME Init PROVE WInv
    OBVIOUS
  <2>1. IInv
    BY InitGood
  <2>2. S \in State /\ S.alive /\ S.evq = <<>>
    BY <2>1, KnownType DEF IInv, Init, S
  <2> QED
    BY <2>1, <2>2 DEF WInv, Waiting
<1>2. WInv /\ [Next]_vars => WInv'
  <2> SUFFICES ASSUME WInv, [Next]_vars PROVE WInv'
    OBVIOUS
  <2>1. IInv'
    BY NextGood DEF WInv
  <2>2. CASE UNCHANGED vars
    <3>1. S' = S
      BY <2>2 DEF S, vars
    <3> QED
      BY <2>1, <3>1 DEF WInv
  <2>3. Next => Waiting(S')
    BY <2>1, AppWaiting, StructureWaiting, PointerWaiting, CommandWaiting,
       MessageWaiting DEF Next
  <2> QED
    BY <2>1, <2>2, <2>3 DEF WInv
<1>3. WInv => NeverNull
  BY DEF WInv, Waiting, NeverNull, S
<1> QED
  BY <1>1, <1>2, <1>3, PTL DEF Spec

=============================================================================
