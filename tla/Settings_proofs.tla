--------------------------- MODULE Settings_proofs ---------------------------
(***************************************************************************)
(* What cwm has read is what the file says, for every file, every set of   *)
(* defaults and every keyboard.                                            *)
(*                                                                         *)
(* The invariant Reads says what the configuration is after each stage of  *)
(* config_parse: the queues are folds over the lines of the defaults and   *)
(* then of the file.  What each fold comes to is shown line by line, with  *)
(* the facts of Lists_proofs on folds (FoldExists, FoldIs) and on lists    *)
(* where a line replaces earlier ones (Replacing); no queue depends on     *)
(* another (MenuFields ... ScreenFields).  KeysKept says which keys the    *)
(* server keeps.  A lemma cannot have an operator for a parameter, so      *)
(* there is one for the fold of each operator (KbdFold ... AutogroupFold). *)
(***************************************************************************)
EXTENDS Settings, Lists_proofs, FiniteSetTheorems

\* The loops of the code over lists
KbdQueue(q, s)    == FoldLeft(BindKbd, q, s)
MouseQueue(q, s)  == FoldLeft(BindMouse, q, s)
CmdQueue(q, s)    == FoldLeft(CmdAdd, q, s)
RuleQueue(q, s)   == FoldLeft(RuleLine, q, s)
GroupStyles(q, s) == FoldLeft(InternGroup, q, s)
Styles(q, s)      == FoldLeft(InternStyle, q, s)
Looks(q, s)       == FoldLeft(InternLook, q, s)
Directives(num, s, name, class) ==
  FoldLeft(LAMBDA acc, aw : AutogroupStep(acc, aw, name, class), num, s)

\* conf_bind_kbd over a list of bindings
IsBindKbd(step, A, T) ==
  step \in [T \X A -> T] /\ \A t \in T, a \in A : step[<<t, a>>] = BindKbd(t, a)

\* What conf_bind_kbd makes of a list is what its steps make of it, one by one.
LEMMA KbdFold ==
  ASSUME NEW A, NEW T, NEW base \in T, NEW step, IsBindKbd(step, A, T),
         NEW F, FoldsTo(F, A, T, base, step), NEW s \in Seq(A)
  PROVE  KbdQueue(base, s) = F[s]
<1>0. step \in [T \X A -> T] /\ \A t \in T, a \in A : step[<<t, a>>] = BindKbd(t, a)
  BY DEF IsBindKbd
<1> DEFINE Is(g) == g = [S \in SUBSET DOMAIN s |->
                           IF S = {} THEN base
                           ELSE BindKbd(g[S \ {Max(S)}], s[Max(S)])]
           it == CHOOSE g : Is(g)
<1>1. KbdQueue(base, s) = it[DOMAIN s]
  BY Zenon DEF KbdQueue, FoldLeft, MapThenFoldSet
<1>2. PICK h \in [SUBSET DOMAIN s -> T] : FoldsBy(h, s, base, step)
  BY <1>0, FoldSolution
<1>3. Is(h)
  BY <1>0, <1>2, GreatestIndex DEF FoldsBy
<1>4. Is(it)
  BY <1>3
<1>5. FoldsNear(it, s, A, T, base, step)
  <2>1. ASSUME NEW S \in SUBSET DOMAIN s, S # {}, it[S \ {Max(S)}] \in T
        PROVE  it[S] = step[<<it[S \ {Max(S)}], s[Max(S)]>>]
    <3>1. Max(S) \in DOMAIN s /\ s[Max(S)] \in A
      BY <2>1, GreatestIndex
    <3>2. it[S] = BindKbd(it[S \ {Max(S)}], s[Max(S)])
      BY <1>4, <2>1
    <3> HIDE DEF it, Is
    <3> QED BY <1>0, <2>1, <3>1, <3>2
  <2>2. it[{}] = base
    BY <1>4
  <2> HIDE DEF it, Is
  <2> QED BY <1>0, <2>1, <2>2 DEF FoldsNear
<1> HIDE DEF it, Is
<1>6. it[DOMAIN s] = F[s]
  BY <1>5, FoldIs
<1> QED
  BY <1>1, <1>6, Zenon

\* conf_bind_mouse over one
IsBindMouse(step, A, T) ==
  step \in [T \X A -> T] /\ \A t \in T, a \in A : step[<<t, a>>] = BindMouse(t, a)

\* So it is for conf_bind_mouse,
LEMMA MouseFold ==
  ASSUME NEW A, NEW T, NEW base \in T, NEW step, IsBindMouse(step, A, T),
         NEW F, FoldsTo(F, A, T, base, step), NEW s \in Seq(A)
  PROVE  MouseQueue(base, s) = F[s]
<1>0. step \in [T \X A -> T] /\ \A t \in T, a \in A : step[<<t, a>>] = BindMouse(t, a)
  BY DEF IsBindMouse
<1> DEFINE Is(g) == g = [S \in SUBSET DOMAIN s |->
                           IF S = {} THEN base
                           ELSE BindMouse(g[S \ {Max(S)}], s[Max(S)])]
           it == CHOOSE g : Is(g)
<1>1. MouseQueue(base, s) = it[DOMAIN s]
  BY Zenon DEF MouseQueue, FoldLeft, MapThenFoldSet
<1>2. PICK h \in [SUBSET DOMAIN s -> T] : FoldsBy(h, s, base, step)
  BY <1>0, FoldSolution
<1>3. Is(h)
  BY <1>0, <1>2, GreatestIndex DEF FoldsBy
<1>4. Is(it)
  BY <1>3
<1>5. FoldsNear(it, s, A, T, base, step)
  <2>1. ASSUME NEW S \in SUBSET DOMAIN s, S # {}, it[S \ {Max(S)}] \in T
        PROVE  it[S] = step[<<it[S \ {Max(S)}], s[Max(S)]>>]
    <3>1. Max(S) \in DOMAIN s /\ s[Max(S)] \in A
      BY <2>1, GreatestIndex
    <3>2. it[S] = BindMouse(it[S \ {Max(S)}], s[Max(S)])
      BY <1>4, <2>1
    <3> HIDE DEF it, Is
    <3> QED BY <1>0, <2>1, <3>1, <3>2
  <2>2. it[{}] = base
    BY <1>4
  <2> HIDE DEF it, Is
  <2> QED BY <1>0, <2>1, <2>2 DEF FoldsNear
<1> HIDE DEF it, Is
<1>6. it[DOMAIN s] = F[s]
  BY <1>5, FoldIs
<1> QED
  BY <1>1, <1>6, Zenon

\* conf_cmd_add over the items of a menu
IsCmdAdd(step, A, T) ==
  step \in [T \X A -> T] /\ \A t \in T, a \in A : step[<<t, a>>] = CmdAdd(t, a)

\* for conf_cmd_add,
LEMMA CmdFold ==
  ASSUME NEW A, NEW T, NEW base \in T, NEW step, IsCmdAdd(step, A, T),
         NEW F, FoldsTo(F, A, T, base, step), NEW s \in Seq(A)
  PROVE  CmdQueue(base, s) = F[s]
<1>0. step \in [T \X A -> T] /\ \A t \in T, a \in A : step[<<t, a>>] = CmdAdd(t, a)
  BY DEF IsCmdAdd
<1> DEFINE Is(g) == g = [S \in SUBSET DOMAIN s |->
                           IF S = {} THEN base
                           ELSE CmdAdd(g[S \ {Max(S)}], s[Max(S)])]
           it == CHOOSE g : Is(g)
<1>1. CmdQueue(base, s) = it[DOMAIN s]
  BY Zenon DEF CmdQueue, FoldLeft, MapThenFoldSet
<1>2. PICK h \in [SUBSET DOMAIN s -> T] : FoldsBy(h, s, base, step)
  BY <1>0, FoldSolution
<1>3. Is(h)
  BY <1>0, <1>2, GreatestIndex DEF FoldsBy
<1>4. Is(it)
  BY <1>3
<1>5. FoldsNear(it, s, A, T, base, step)
  <2>1. ASSUME NEW S \in SUBSET DOMAIN s, S # {}, it[S \ {Max(S)}] \in T
        PROVE  it[S] = step[<<it[S \ {Max(S)}], s[Max(S)]>>]
    <3>1. Max(S) \in DOMAIN s /\ s[Max(S)] \in A
      BY <2>1, GreatestIndex
    <3>2. it[S] = CmdAdd(it[S \ {Max(S)}], s[Max(S)])
      BY <1>4, <2>1
    <3> HIDE DEF it, Is
    <3> QED BY <1>0, <2>1, <3>1, <3>2
  <2>2. it[{}] = base
    BY <1>4
  <2> HIDE DEF it, Is
  <2> QED BY <1>0, <2>1, <2>2 DEF FoldsNear
<1> HIDE DEF it, Is
<1>6. it[DOMAIN s] = F[s]
  BY <1>5, FoldIs
<1> QED
  BY <1>1, <1>6, Zenon

\* rule_config over the lines of rules
IsRuleLine(step, A, T) ==
  step \in [T \X A -> T] /\ \A t \in T, a \in A : step[<<t, a>>] = RuleLine(t, a)

\* for rule_config,
LEMMA RuleFold ==
  ASSUME NEW A, NEW T, NEW base \in T, NEW step, IsRuleLine(step, A, T),
         NEW F, FoldsTo(F, A, T, base, step), NEW s \in Seq(A)
  PROVE  RuleQueue(base, s) = F[s]
<1>0. step \in [T \X A -> T] /\ \A t \in T, a \in A : step[<<t, a>>] = RuleLine(t, a)
  BY DEF IsRuleLine
<1> DEFINE Is(g) == g = [S \in SUBSET DOMAIN s |->
                           IF S = {} THEN base
                           ELSE RuleLine(g[S \ {Max(S)}], s[Max(S)])]
           it == CHOOSE g : Is(g)
<1>1. RuleQueue(base, s) = it[DOMAIN s]
  BY Zenon DEF RuleQueue, FoldLeft, MapThenFoldSet
<1>2. PICK h \in [SUBSET DOMAIN s -> T] : FoldsBy(h, s, base, step)
  BY <1>0, FoldSolution
<1>3. Is(h)
  BY <1>0, <1>2, GreatestIndex DEF FoldsBy
<1>4. Is(it)
  BY <1>3
<1>5. FoldsNear(it, s, A, T, base, step)
  <2>1. ASSUME NEW S \in SUBSET DOMAIN s, S # {}, it[S \ {Max(S)}] \in T
        PROVE  it[S] = step[<<it[S \ {Max(S)}], s[Max(S)]>>]
    <3>1. Max(S) \in DOMAIN s /\ s[Max(S)] \in A
      BY <2>1, GreatestIndex
    <3>2. it[S] = RuleLine(it[S \ {Max(S)}], s[Max(S)])
      BY <1>4, <2>1
    <3> HIDE DEF it, Is
    <3> QED BY <1>0, <2>1, <3>1, <3>2
  <2>2. it[{}] = base
    BY <1>4
  <2> HIDE DEF it, Is
  <2> QED BY <1>0, <2>1, <2>2 DEF FoldsNear
<1> HIDE DEF it, Is
<1>6. it[DOMAIN s] = F[s]
  BY <1>5, FoldIs
<1> QED
  BY <1>1, <1>6, Zenon

\* config_intern_group over the groups of a section
IsInternGroup(step, A, T) ==
  step \in [T \X A -> T] /\ \A t \in T, a \in A : step[<<t, a>>] = InternGroup(t, a)

\* for the groups of one section,
LEMMA GroupFold ==
  ASSUME NEW A, NEW T, NEW base \in T, NEW step, IsInternGroup(step, A, T),
         NEW F, FoldsTo(F, A, T, base, step), NEW s \in Seq(A)
  PROVE  GroupStyles(base, s) = F[s]
<1>0. step \in [T \X A -> T] /\ \A t \in T, a \in A : step[<<t, a>>] = InternGroup(t, a)
  BY DEF IsInternGroup
<1> DEFINE Is(g) == g = [S \in SUBSET DOMAIN s |->
                           IF S = {} THEN base
                           ELSE InternGroup(g[S \ {Max(S)}], s[Max(S)])]
           it == CHOOSE g : Is(g)
<1>1. GroupStyles(base, s) = it[DOMAIN s]
  BY Zenon DEF GroupStyles, FoldLeft, MapThenFoldSet
<1>2. PICK h \in [SUBSET DOMAIN s -> T] : FoldsBy(h, s, base, step)
  BY <1>0, FoldSolution
<1>3. Is(h)
  BY <1>0, <1>2, GreatestIndex DEF FoldsBy
<1>4. Is(it)
  BY <1>3
<1>5. FoldsNear(it, s, A, T, base, step)
  <2>1. ASSUME NEW S \in SUBSET DOMAIN s, S # {}, it[S \ {Max(S)}] \in T
        PROVE  it[S] = step[<<it[S \ {Max(S)}], s[Max(S)]>>]
    <3>1. Max(S) \in DOMAIN s /\ s[Max(S)] \in A
      BY <2>1, GreatestIndex
    <3>2. it[S] = InternGroup(it[S \ {Max(S)}], s[Max(S)])
      BY <1>4, <2>1
    <3> HIDE DEF it, Is
    <3> QED BY <1>0, <2>1, <3>1, <3>2
  <2>2. it[{}] = base
    BY <1>4
  <2> HIDE DEF it, Is
  <2> QED BY <1>0, <2>1, <2>2 DEF FoldsNear
<1> HIDE DEF it, Is
<1>6. it[DOMAIN s] = F[s]
  BY <1>5, FoldIs
<1> QED
  BY <1>1, <1>6, Zenon

\* config_internalise_groups over the sections of screens
IsInternStyle(step, A, T) ==
  step \in [T \X A -> T] /\ \A t \in T, a \in A : step[<<t, a>>] = InternStyle(t, a)

\* for the groups of all sections,
LEMMA StyleFold ==
  ASSUME NEW A, NEW T, NEW base \in T, NEW step, IsInternStyle(step, A, T),
         NEW F, FoldsTo(F, A, T, base, step), NEW s \in Seq(A)
  PROVE  Styles(base, s) = F[s]
<1>0. step \in [T \X A -> T] /\ \A t \in T, a \in A : step[<<t, a>>] = InternStyle(t, a)
  BY DEF IsInternStyle
<1> DEFINE Is(g) == g = [S \in SUBSET DOMAIN s |->
                           IF S = {} THEN base
                           ELSE InternStyle(g[S \ {Max(S)}], s[Max(S)])]
           it == CHOOSE g : Is(g)
<1>1. Styles(base, s) = it[DOMAIN s]
  BY Zenon DEF Styles, FoldLeft, MapThenFoldSet
<1>2. PICK h \in [SUBSET DOMAIN s -> T] : FoldsBy(h, s, base, step)
  BY <1>0, FoldSolution
<1>3. Is(h)
  BY <1>0, <1>2, GreatestIndex DEF FoldsBy
<1>4. Is(it)
  BY <1>3
<1>5. FoldsNear(it, s, A, T, base, step)
  <2>1. ASSUME NEW S \in SUBSET DOMAIN s, S # {}, it[S \ {Max(S)}] \in T
        PROVE  it[S] = step[<<it[S \ {Max(S)}], s[Max(S)]>>]
    <3>1. Max(S) \in DOMAIN s /\ s[Max(S)] \in A
      BY <2>1, GreatestIndex
    <3>2. it[S] = InternStyle(it[S \ {Max(S)}], s[Max(S)])
      BY <1>4, <2>1
    <3> HIDE DEF it, Is
    <3> QED BY <1>0, <2>1, <3>1, <3>2
  <2>2. it[{}] = base
    BY <1>4
  <2> HIDE DEF it, Is
  <2> QED BY <1>0, <2>1, <2>2 DEF FoldsNear
<1> HIDE DEF it, Is
<1>6. it[DOMAIN s] = F[s]
  BY <1>5, FoldIs
<1> QED
  BY <1>1, <1>6, Zenon

\* config_intern_screen over them
IsInternLook(step, A, T) ==
  step \in [T \X A -> T] /\ \A t \in T, a \in A : step[<<t, a>>] = InternLook(t, a)

\* for the settings of the screens,
LEMMA LookFold ==
  ASSUME NEW A, NEW T, NEW base \in T, NEW step, IsInternLook(step, A, T),
         NEW F, FoldsTo(F, A, T, base, step), NEW s \in Seq(A)
  PROVE  Looks(base, s) = F[s]
<1>0. step \in [T \X A -> T] /\ \A t \in T, a \in A : step[<<t, a>>] = InternLook(t, a)
  BY DEF IsInternLook
<1> DEFINE Is(g) == g = [S \in SUBSET DOMAIN s |->
                           IF S = {} THEN base
                           ELSE InternLook(g[S \ {Max(S)}], s[Max(S)])]
           it == CHOOSE g : Is(g)
<1>1. Looks(base, s) = it[DOMAIN s]
  BY Zenon DEF Looks, FoldLeft, MapThenFoldSet
<1>2. PICK h \in [SUBSET DOMAIN s -> T] : FoldsBy(h, s, base, step)
  BY <1>0, FoldSolution
<1>3. Is(h)
  BY <1>0, <1>2, GreatestIndex DEF FoldsBy
<1>4. Is(it)
  BY <1>3
<1>5. FoldsNear(it, s, A, T, base, step)
  <2>1. ASSUME NEW S \in SUBSET DOMAIN s, S # {}, it[S \ {Max(S)}] \in T
        PROVE  it[S] = step[<<it[S \ {Max(S)}], s[Max(S)]>>]
    <3>1. Max(S) \in DOMAIN s /\ s[Max(S)] \in A
      BY <2>1, GreatestIndex
    <3>2. it[S] = InternLook(it[S \ {Max(S)}], s[Max(S)])
      BY <1>4, <2>1
    <3> HIDE DEF it, Is
    <3> QED BY <1>0, <2>1, <3>1, <3>2
  <2>2. it[{}] = base
    BY <1>4
  <2> HIDE DEF it, Is
  <2> QED BY <1>0, <2>1, <2>2 DEF FoldsNear
<1> HIDE DEF it, Is
<1>6. it[DOMAIN s] = F[s]
  BY <1>5, FoldIs
<1> QED
  BY <1>1, <1>6, Zenon

\* group_autogroup over the directives
IsDirective(name, class, step, A, T) ==
  step \in [T \X A -> T]
  /\ \A t \in T, a \in A : step[<<t, a>>] = AutogroupStep(t, a, name, class)

\* and for the loop of group_autogroup.
LEMMA AutogroupFold ==
  ASSUME NEW name, NEW class, NEW A, NEW T, NEW base \in T, NEW step,
         IsDirective(name, class, step, A, T),
         NEW F, FoldsTo(F, A, T, base, step), NEW s \in Seq(A)
  PROVE  Directives(base, s, name, class) = F[s]
<1>0. step \in [T \X A -> T]
        /\ \A t \in T, a \in A : step[<<t, a>>] = AutogroupStep(t, a, name, class)
  BY DEF IsDirective
<1> DEFINE Is(g) == g = [S \in SUBSET DOMAIN s |->
                           IF S = {} THEN base
                           ELSE AutogroupStep(g[S \ {Max(S)}], s[Max(S)], name, class)]
           it == CHOOSE g : Is(g)
<1>1. Directives(base, s, name, class) = it[DOMAIN s]
  BY Zenon DEF Directives, FoldLeft, MapThenFoldSet
<1>2. PICK h \in [SUBSET DOMAIN s -> T] : FoldsBy(h, s, base, step)
  BY <1>0, FoldSolution
<1>3. Is(h)
  BY <1>0, <1>2, GreatestIndex DEF FoldsBy
<1>4. Is(it)
  BY <1>3
<1>5. FoldsNear(it, s, A, T, base, step)
  <2>1. ASSUME NEW S \in SUBSET DOMAIN s, S # {}, it[S \ {Max(S)}] \in T
        PROVE  it[S] = step[<<it[S \ {Max(S)}], s[Max(S)]>>]
    <3>1. Max(S) \in DOMAIN s /\ s[Max(S)] \in A
      BY <2>1, GreatestIndex
    <3>2. it[S] = AutogroupStep(it[S \ {Max(S)}], s[Max(S)], name, class)
      BY <1>4, <2>1
    <3> HIDE DEF it, Is
    <3> QED BY <1>0, <2>1, <3>1, <3>2
  <2>2. it[{}] = base
    BY <1>4
  <2> HIDE DEF it, Is
  <2> QED BY <1>0, <2>1, <2>2 DEF FoldsNear
<1> HIDE DEF it, Is
<1>6. it[DOMAIN s] = F[s]
  BY <1>5, FoldIs
<1> QED
  BY <1>1, <1>6, Zenon

-----------------------------------------------------------------------------
\* What the assumptions say of a file, and of one that is not there
IsFile(f) ==
  /\ IsList(f)
  /\ \A s \in ToSet(f) :
       /\ s.kind = "bindings" => AreBindings(s.keys) /\ AreBindings(s.mice)
       /\ s.kind = "menu" => IsList(s.items)
       /\ s.kind = "screen" => IsList(s.groups)
       /\ s.kind = "clients" =>
            IsList(s.clients) /\ \A cl \in ToSet(s.clients) :
              IsList(cl.rules) /\ \A l \in ToSet(cl.rules) : IsList(l.commands)

\* The file that is used has the lists it should.
LEMMA UserFileType ==
  ASSUME file \in Files \cup {None}
  PROVE  IsFile(UserFile)
<1>1. CASE Applies(file)
  <2>1. file \in Files
    BY <1>1 DEF Applies
  <2> QED BY <1>1, <2>1, FilesAssumption DEF UserFile, IsFile
<1>2. CASE ~Applies(file)
  BY <1>2 DEF UserFile, IsFile, IsList, ToSet
<1> QED
  BY <1>1, <1>2

\* A list is one over any set that has its elements.
LEMMA SeqWider ==
  ASSUME NEW A, NEW B, A \subseteq B, NEW s \in Seq(A)
  PROVE  s \in Seq(B)
OBVIOUS

\* The elements of a list over a set are in it.
LEMMA ElementsOf ==
  ASSUME NEW A, NEW s \in Seq(A)
  PROVE  ToSet(s) \subseteq A
BY DEF ToSet

\* The lists that the elements of q hold under a name, joined
Joined(q, name) == FlattenSeq([i \in DOMAIN q |-> q[i][name]])

\* What an element of S holds under a name is a list over A.
HoldLists(S, name, A) == \A y \in S : y[name] \in Seq(A)

\* Of no elements nothing is joined,
LEMMA JoinedEmpty ==
  ASSUME NEW name
  PROVE  Joined(<<>>, name) = <<>>
<1>1. [i \in DOMAIN <<>> |-> <<>>[i][name]] = <<>>
  OBVIOUS
<1> QED
  BY <1>1, FlattenEmpty DEF Joined

\* of one more, its list is added,
LEMMA JoinedAppend ==
  ASSUME NEW A, NEW S, NEW name, HoldLists(S, name, A),
         NEW q \in Seq(S), NEW x \in S
  PROVE  /\ Joined(q, name) \in Seq(A)
         /\ Joined(Append(q, x), name) = Joined(q, name) \o x[name]
<1> DEFINE lists(p) == [i \in DOMAIN p |-> p[i][name]]
           u == Append(q, x)
           n == Len(q)
<1>1. /\ u \in Seq(S) /\ Len(u) = n + 1 /\ u[n + 1] = x /\ n \in Nat
      /\ \A i \in 1 .. n : u[i] = q[i] /\ q[i] \in S
      /\ DOMAIN q = 1 .. n /\ DOMAIN u = 1 .. n + 1
  OBVIOUS
<1> HIDE DEF u, n
<1>2. lists(q) \in Seq(Seq(A)) /\ lists(u) \in Seq(Seq(A))
  BY <1>1 DEF HoldLists
<1>3. lists(u) = Append(lists(q), x[name])
  <2> DEFINE p == lists(q)
             v == lists(u)
             w == Append(p, x[name])
  <2>1. /\ DOMAIN p = 1 .. n /\ \A i \in 1 .. n : p[i] = q[i][name]
        /\ DOMAIN v = 1 .. n + 1 /\ \A i \in 1 .. n + 1 : v[i] = u[i][name]
    BY <1>1
  <2>2. p \in Seq(Seq(A)) /\ v \in Seq(Seq(A)) /\ x[name] \in Seq(A)
    BY <1>2 DEF HoldLists
  <2> HIDE DEF p, v
  <2>3. Len(p) = n /\ Len(v) = n + 1
    BY <1>1, <2>1, <2>2
  <2>4. /\ w \in Seq(Seq(A)) /\ Len(w) = n + 1 /\ w[n + 1] = x[name]
        /\ \A i \in 1 .. n : w[i] = p[i]
    BY <1>1, <2>2, <2>3
  <2> HIDE DEF w
  <2>5. \A i \in 1 .. n + 1 : v[i] = w[i]
    <3>1. \A i \in 1 .. n + 1 : i = n + 1 \/ i \in 1 .. n
      BY <1>1
    <3> QED BY <1>1, <2>1, <2>4, <3>1
  <2>6. v = w
    BY <2>2, <2>3, <2>4, <2>5
  <2> QED BY <2>6 DEF p, v, w
<1> HIDE DEF lists
<1>4. /\ FlattenSeq(lists(q)) \in Seq(A)
      /\ FlattenSeq(Append(lists(q), x[name])) = FlattenSeq(lists(q)) \o x[name]
  <2>1. x[name] \in Seq(A)
    BY DEF HoldLists
  <2> QED BY <1>2, <2>1, FlattenAppend
<1> QED
  BY <1>3, <1>4 DEF Joined, lists, u

\* and what is joined is over the same set.
LEMMA JoinedType ==
  ASSUME NEW A, NEW S, NEW name, HoldLists(S, name, A), NEW q \in Seq(S)
  PROVE  Joined(q, name) \in Seq(A)
<1> DEFINE U == {p \in Seq(S) : Joined(p, name) \in Seq(A)}
<1>1. <<>> \in U
  <2>1. <<>> \in Seq(S) /\ <<>> \in Seq(A)
    OBVIOUS
  <2> QED BY <2>1, JoinedEmpty
<1>2. ASSUME NEW p \in Seq(S), NEW x \in S, p \in U
      PROVE  Append(p, x) \in U
  <2>1. Joined(p, name) \in Seq(A) /\ x[name] \in Seq(A)
    BY <1>2 DEF HoldLists
  <2> HIDE DEF U
  <2>2. Joined(Append(p, x), name) = Joined(p, name) \o x[name]
    BY JoinedAppend
  <2>3. Joined(p, name) \o x[name] \in Seq(A) /\ Append(p, x) \in Seq(S)
    BY <2>1
  <2> QED BY <2>2, <2>3 DEF U
<1> HIDE DEF U
<1>3. q \in U
  BY <1>1, <1>2, SeqSets
<1> QED
  BY <1>3 DEF U

\* What the sections of one kind have under a name
Holds(f, kind, name) == UNION {ToSet(s[name]) : s \in {t \in ToSet(f) : t.kind = kind}}

\* The sections of one kind are sections of the file.
LEMMA SectionsType ==
  ASSUME NEW f, IsList(f), NEW kind
  PROVE  Sections(f, kind) \in Seq({s \in ToSet(f) : s.kind = kind})
<1>1. Sections(f, kind) \in Seq(ToSet(f) \cap {s \in ToSet(f) : s.kind = kind})
  BY KeepType DEF Sections, IsList
<1>2. ToSet(f) \cap {s \in ToSet(f) : s.kind = kind} = {s \in ToSet(f) : s.kind = kind}
  OBVIOUS
<1> QED
  BY <1>1, <1>2

\* They hold lists,
LEMMA SectionsHold ==
  ASSUME NEW f, NEW kind, NEW name, \A s \in ToSet(f) : s.kind = kind => IsList(s[name])
  PROVE  HoldLists({s \in ToSet(f) : s.kind = kind}, name, Holds(f, kind, name))
<1> DEFINE S == {s \in ToSet(f) : s.kind = kind}
           A == Holds(f, kind, name)
<1> SUFFICES ASSUME NEW x \in S PROVE x[name] \in Seq(A)
  BY DEF HoldLists
<1>1. x[name] \in Seq(ToSet(x[name]))
  BY DEF IsList
<1>2. ToSet(x[name]) \subseteq A
  BY DEF Holds
<1> QED
  BY <1>1, <1>2, SeqWider

\* and so is what they hold together.
LEMMA ItemsType ==
  ASSUME NEW f, IsList(f), NEW kind, NEW name,
         \A s \in ToSet(f) : s.kind = kind => IsList(s[name])
  PROVE  Items(f, kind, name) \in Seq(Holds(f, kind, name))
<1> DEFINE S == {s \in ToSet(f) : s.kind = kind}
           A == Holds(f, kind, name)
<1>1. HoldLists(S, name, A)
  BY SectionsHold
<1>2. Sections(f, kind) \in Seq(S)
  BY SectionsType
<1>3. Items(f, kind, name) = Joined(Sections(f, kind), name)
  BY DEF Items, Joined
<1> HIDE DEF S, A
<1>4. Joined(Sections(f, kind), name) \in Seq(A)
  BY <1>1, <1>2, JoinedType
<1> QED
  BY <1>3, <1>4 DEF A

\* No file, no lines
LEMMA ItemsOfNone ==
  ASSUME NEW kind, NEW name
  PROVE  Items(<<>>, kind, name) = <<>> /\ Sections(<<>>, kind) = <<>>
<1>1. Sections(<<>>, kind) = <<>>
  BY KeepEmpty DEF Sections
<1>2. Items(<<>>, kind, name) = Joined(<<>>, name)
  BY <1>1 DEF Items, Joined
<1> QED
  BY <1>1, <1>2, JoinedEmpty

\* The defaults that are no screens
LEMMA DefaultItems ==
  /\ KeysOf(DefaultRest) = DefaultKeys /\ MiceOf(DefaultRest) = DefaultMice
  /\ MenuOf(DefaultRest) = DefaultMenu /\ ClientsOf(DefaultRest) = <<>>
<1> DEFINE m == [kind |-> "menu", items |-> DefaultMenu]
           b == [kind |-> "bindings", keys |-> DefaultKeys, mice |-> DefaultMice]
           all == {m, b}
<1>1. /\ m.kind = "menu" /\ m["items"] = DefaultMenu
      /\ b.kind = "bindings" /\ b["keys"] = DefaultKeys /\ b["mice"] = DefaultMice
  OBVIOUS
<1>2. DefaultRest = Append(Append(<<>>, m), b)
  BY DEF DefaultRest
<1> HIDE DEF m, b
<1>3. ToSet(DefaultRest) = all
  <2>1. DefaultRest = <<m, b>>
    BY DEF DefaultRest, m, b
  <2> QED BY <2>1 DEF ToSet
<1>4. ASSUME NEW kind
      PROVE  Sections(DefaultRest, kind) =
               IF kind = "menu" THEN <<m>> ELSE IF kind = "bindings" THEN <<b>> ELSE <<>>
  <2> DEFINE S == {s \in ToSet(DefaultRest) : s.kind = kind}
             q == Append(<<>>, m)
  <2>1. m \in S <=> kind = "menu"
    BY <1>1, <1>3
  <2>2. b \in S <=> kind = "bindings"
    BY <1>1, <1>3
  <2>3. <<>> \in Seq(all) /\ q \in Seq(all) /\ m \in all /\ b \in all
    OBVIOUS
  <2> HIDE DEF S, all, q
  <2>4. Keep(q, S) = IF m \in S THEN Append(<<>>, m) ELSE <<>>
    <3>1. Keep(Append(<<>>, m), S) = IF m \in S THEN Append(Keep(<<>>, S), m) ELSE Keep(<<>>, S)
      BY <2>3, KeepAppend
    <3> QED BY <3>1, KeepEmpty DEF q
  <2>5. Keep(Append(q, b), S) = IF b \in S THEN Append(Keep(q, S), b) ELSE Keep(q, S)
    BY <2>3, KeepAppend
  <2>6. Sections(DefaultRest, kind) = Keep(Append(q, b), S)
    BY <1>2 DEF Sections, S, q
  <2>7. Append(<<>>, m) = <<m>> /\ Append(<<>>, b) = <<b>>
    OBVIOUS
  <2> QED BY <2>1, <2>2, <2>4, <2>5, <2>6, <2>7
<1>5. ASSUME NEW x, NEW name, IsList(x[name])
      PROVE  Joined(<<x>>, name) = x[name]
  <2>1. <<>> \in Seq({x}) /\ <<x>> = Append(<<>>, x) /\ x[name] \in Seq(ToSet(x[name]))
    BY <1>5 DEF IsList
  <2>2. Joined(Append(<<>>, x), name) = Joined(<<>>, name) \o x[name]
    <3> DEFINE S == {x}
               none == <<>>
    <3>1. none \in Seq(S) /\ x \in S /\ HoldLists(S, name, ToSet(x[name]))
      BY <2>1 DEF HoldLists
    <3> HIDE DEF S, none
    <3>2. Joined(Append(none, x), name) = Joined(none, name) \o x[name]
      BY <3>1, JoinedAppend
    <3> QED BY <3>2 DEF none
  <2>3. <<>> \o x[name] = x[name]
    BY <2>1, ConcatEmpty
  <2> QED BY <2>1, <2>2, <2>3, JoinedEmpty
<1>6. Items(DefaultRest, "menu", "items") = Joined(<<m>>, "items")
  BY <1>4 DEF Items, Joined
<1>7. /\ Items(DefaultRest, "bindings", "keys") = Joined(<<b>>, "keys")
      /\ Items(DefaultRest, "bindings", "mice") = Joined(<<b>>, "mice")
  BY <1>4 DEF Items, Joined
<1>8. Items(DefaultRest, "clients", "clients") = Joined(<<>>, "clients")
  BY <1>4 DEF Items, Joined
<1>9. IsList(m["items"]) /\ IsList(b["keys"]) /\ IsList(b["mice"])
  BY <1>1, DefaultsAssumption DEF AreBindings
<1> QED
  BY <1>1, <1>5, <1>6, <1>7, <1>8, <1>9, JoinedEmpty DEF KeysOf, MiceOf, MenuOf, ClientsOf

-----------------------------------------------------------------------------
\* A configuration, by its queues and settings
Conf(keys, mice, cmds, autogroups, ignored, rules, look, style) ==
  [keys |-> keys, mice |-> mice, cmds |-> cmds, autogroups |-> autogroups,
   ignored |-> ignored, rules |-> rules, look |-> look, style |-> style]

NoConf ==
  Conf(<<>>, <<>>, <<>>, <<>>, {}, <<>>, [o \in Outputs |-> NotSet],
       [o \in Outputs |-> [g \in Groups |-> NotSet]])

\* What config_default leaves, screens first
DefaultScreens == SetToSeq({DefaultScreen(o) : o \in Outputs})
ScreensConf == Internalise(NoConf, DefaultScreens)
DefaultConf ==
  InternMenu(InternBindings(InternClients(ScreensConf, DefaultRest), DefaultRest), DefaultRest)

\* What the user's file makes of it, one kind of section after the other
ClientsConf(f)  == InternClients(DefaultConf, f)
BindingsConf(f) == InternBindings(ClientsConf(f), f)
UserConf(f)     == Internalise(BindingsConf(f), f)
Read(f) == IF Applies(f) THEN InternMenu(UserConf(f), f) ELSE DefaultConf

\* How far the file has been read, and what is known of a client
Reads ==
  /\ file \in Files \cup {None}
  /\ phase \in {"clients", "bindings", "internalise", "menu"} => Applies(file)
  /\ phase = "screens" => conf = NoConf
  /\ phase = "rest" => conf = ScreensConf
  /\ phase = "clients" => conf = DefaultConf
  /\ phase = "bindings" => conf = ClientsConf(file)
  /\ phase = "internalise" => conf = BindingsConf(file)
  /\ phase = "menu" => conf = UserConf(file)
  /\ phase \in {"apply", "running"} => conf = Read(file)
  /\ client # None =>
       client.num = AutogroupNum(Read(file).autogroups, client.name, client.class)

\* Nothing is read at first.
LEMMA ReadsInit == Init => Reads
BY DEF Init, Reads, NoConf, Conf

\* Each stage adds what it reads, and no event writes the configuration.
LEMMA ReadsNext == Reads /\ [Next]_vars => Reads'
<1> SUFFICES ASSUME Reads, [Next]_vars PROVE Reads'
  OBVIOUS
<1> USE DEF Reads
<1>1. CASE ScreenDefaults
  BY <1>1 DEF ScreenDefaults, Parse, ScreensConf, DefaultScreens
<1>2. CASE RestDefaults
  BY <1>2 DEF RestDefaults, Parse, DefaultConf, Read
<1>3. CASE UserClients
  BY <1>3 DEF UserClients, Parse, ClientsConf
<1>4. CASE UserBindings
  BY <1>4 DEF UserBindings, Parse, BindingsConf
<1>5. CASE UserScreens
  BY <1>5 DEF UserScreens, Parse, UserConf
<1>6. CASE UserMenu
  BY <1>6 DEF UserMenu, Parse, Read
<1>7. CASE Apply
  BY <1>7 DEF Apply
<1>8. ASSUME NEW code \in Codes, NEW state \in SUBSET Modifiers, PressKey(code, state)
      PROVE  Reads'
  BY <1>8 DEF PressKey
<1>9. CASE ChangeKeymap
  BY <1>9 DEF ChangeKeymap
<1>10. CASE HandleMappingNotify
  BY <1>10 DEF HandleMappingNotify, Reading
<1>11. CASE HandleKeyPress
  BY <1>11 DEF HandleKeyPress, Reading
<1>12. ASSUME NEW n \in Names, NEW c \in Classes, NEW t \in Titles, Appear(n, c, t)
       PROVE  Reads'
  <2>1. /\ UNCHANGED <<phase, file, conf>> /\ conf = Read(file)
        /\ client'.name = n /\ client'.class = c
        /\ client'.num = AutogroupNum(conf.autogroups, n, c)
    BY <1>12 DEF Appear
  <2> QED BY <2>1
<1>13. CASE Clear
  BY <1>13 DEF Clear
<1>14. CASE UNCHANGED vars
  BY <1>14 DEF vars
<1> QED
  BY <1>1, <1>2, <1>3, <1>4, <1>5, <1>6, <1>7, <1>8, <1>9, <1>10, <1>11, <1>12, <1>13, <1>14
     DEF Next

\* What config_intern_menu makes of a configuration
LEMMA MenuFields ==
  ASSUME NEW k, NEW m, NEW d, NEW a, NEW i, NEW r, NEW l, NEW s, NEW f,
         NEW c, c = Conf(k, m, d, a, i, r, l, s)
  PROVE  InternMenu(c, f) = Conf(k, m, CmdQueue(d, MenuOf(f)), a, i, r, l, s)
<1> DEFINE dd == CmdQueue(d, MenuOf(f))
<1>1. /\ c.keys = k /\ c.mice = m /\ c.cmds = d /\ c.autogroups = a /\ c.ignored = i
      /\ c.rules = r /\ c.look = l /\ c.style = s
  BY DEF Conf
<1>2. InternMenu(c, f) = [c EXCEPT !.cmds = dd]
  BY <1>1, Zenon DEF InternMenu, CmdQueue
<1> HIDE DEF dd
<1>3. [c EXCEPT !.cmds = dd] = Conf(k, m, dd, a, i, r, l, s)
  <2> DEFINE e == [x \in DOMAIN c |-> IF x = "cmds" THEN dd ELSE c[x]]
  <2>1. e = Conf(k, m, dd, a, i, r, l, s)
    BY DEF Conf
  <2>2. [c EXCEPT !.cmds = dd] = e
    BY DEF Conf
  <2> QED BY <2>1, <2>2
<1> QED
  BY <1>2, <1>3, Zenon DEF dd

\* config_intern_bindings
LEMMA BindingFields ==
  ASSUME NEW k, NEW m, NEW d, NEW a, NEW i, NEW r, NEW l, NEW s, NEW f,
         NEW c, c = Conf(k, m, d, a, i, r, l, s)
  PROVE  InternBindings(c, f) = Conf(KbdQueue(k, KeysOf(f)), MouseQueue(m, MiceOf(f)),
                                  d, a, i, r, l, s)
<1> DEFINE kk == KbdQueue(k, KeysOf(f))
           mm == MouseQueue(m, MiceOf(f))
<1>1. /\ c.keys = k /\ c.mice = m /\ c.cmds = d /\ c.autogroups = a /\ c.ignored = i
      /\ c.rules = r /\ c.look = l /\ c.style = s
  BY DEF Conf
<1>2. InternBindings(c, f) = [c EXCEPT !.keys = kk, !.mice = mm]
  BY <1>1, Zenon DEF InternBindings, KbdQueue, MouseQueue
<1> HIDE DEF kk, mm
<1>3. [c EXCEPT !.keys = kk, !.mice = mm] = Conf(kk, mm, d, a, i, r, l, s)
  <2> DEFINE e == [x \in DOMAIN c |-> IF x = "keys" THEN kk ELSE IF x = "mice" THEN mm ELSE c[x]]
  <2>1. e = Conf(kk, mm, d, a, i, r, l, s)
    BY DEF Conf
  <2>2. [c EXCEPT !.keys = kk, !.mice = mm] = e
    BY DEF Conf
  <2> QED BY <2>1, <2>2
<1> QED
  BY <1>2, <1>3, Zenon DEF kk, mm

\* config_intern_clients
LEMMA ClientFields ==
  ASSUME NEW k, NEW m, NEW d, NEW a, NEW i, NEW r, NEW l, NEW s, NEW f,
         NEW c, c = Conf(k, m, d, a, i, r, l, s)
  PROVE  \E j : InternClients(c, f) = Conf(k, m, d, a \o AutogroupsOf(f), j,
                                       RuleQueue(r, RuleLinesOf(f)), l, s)
<1> DEFINE aa == a \o AutogroupsOf(f)
           ii == i \cup {cl.class : cl \in {e \in ToSet(ClientsOf(f)) : e.ignore}}
           rr == RuleQueue(r, RuleLinesOf(f))
<1>1. /\ c.keys = k /\ c.mice = m /\ c.cmds = d /\ c.autogroups = a /\ c.ignored = i
      /\ c.rules = r /\ c.look = l /\ c.style = s
  BY DEF Conf
<1>2. InternClients(c, f) = [c EXCEPT !.autogroups = aa, !.ignored = ii, !.rules = rr]
  BY <1>1, Zenon DEF InternClients, RuleQueue
<1> HIDE DEF aa, ii, rr
<1>3. [c EXCEPT !.autogroups = aa, !.ignored = ii, !.rules = rr] = Conf(k, m, d, aa, ii, rr, l, s)
  <2> DEFINE e == [x \in DOMAIN c |->
                    IF x = "autogroups" THEN aa ELSE IF x = "ignored" THEN ii
                    ELSE IF x = "rules" THEN rr ELSE c[x]]
  <2>1. e = Conf(k, m, d, aa, ii, rr, l, s)
    BY DEF Conf
  <2>2. [c EXCEPT !.autogroups = aa, !.ignored = ii, !.rules = rr] = e
    BY DEF Conf
  <2> QED BY <2>1, <2>2
<1>4. \E j : InternClients(c, f) = Conf(k, m, d, aa, j, rr, l, s)
  BY <1>2, <1>3
<1> QED
  BY <1>4, Zenon DEF aa, rr

\* config_internalise
LEMMA ScreenFields ==
  ASSUME NEW k, NEW m, NEW d, NEW a, NEW i, NEW r, NEW l, NEW s, NEW f,
         NEW c, c = Conf(k, m, d, a, i, r, l, s)
  PROVE  Internalise(c, f) = Conf(k, m, d, a, i, r, Looks(l, Sections(f, "screen")),
                               Styles(s, Sections(f, "screen")))
<1> DEFINE ll == Looks(l, Sections(f, "screen"))
           ss == Styles(s, Sections(f, "screen"))
<1>1. /\ c.keys = k /\ c.mice = m /\ c.cmds = d /\ c.autogroups = a /\ c.ignored = i
      /\ c.rules = r /\ c.look = l /\ c.style = s
  BY DEF Conf
<1>2. Internalise(c, f) = [c EXCEPT !.look = ll, !.style = ss]
  BY <1>1, Zenon DEF Internalise, Looks, Styles
<1> HIDE DEF ll, ss
<1>3. [c EXCEPT !.look = ll, !.style = ss] = Conf(k, m, d, a, i, r, ll, ss)
  <2> DEFINE e == [x \in DOMAIN c |-> IF x = "look" THEN ll ELSE IF x = "style" THEN ss ELSE c[x]]
  <2>1. e = Conf(k, m, d, a, i, r, ll, ss)
    BY DEF Conf
  <2>2. [c EXCEPT !.look = ll, !.style = ss] = e
    BY DEF Conf
  <2> QED BY <2>1, <2>2
<1> QED
  BY <1>2, <1>3, Zenon DEF ll, ss

\* The defaults, field by field
LEMMA DefaultFields ==
  /\ DefaultConf.keys = KbdQueue(<<>>, DefaultKeys)
  /\ DefaultConf.mice = MouseQueue(<<>>, DefaultMice)
  /\ DefaultConf.cmds = CmdQueue(<<>>, DefaultMenu)
  /\ DefaultConf.autogroups = <<>> \o AutogroupsOf(DefaultRest)
  /\ DefaultConf.rules = RuleQueue(<<>>, RuleLinesOf(DefaultRest))
  /\ DefaultConf.look = Looks([o \in Outputs |-> NotSet],
                                 Sections(DefaultScreens, "screen"))
  /\ DefaultConf.style = Styles([o \in Outputs |-> [g \in Groups |-> NotSet]],
                                  Sections(DefaultScreens, "screen"))
  /\ \E i : DefaultConf = Conf(DefaultConf.keys, DefaultConf.mice, DefaultConf.cmds,
                               DefaultConf.autogroups, i, DefaultConf.rules,
                               DefaultConf.look, DefaultConf.style)
<1> DEFINE k == KbdQueue(<<>>, DefaultKeys)
           m == MouseQueue(<<>>, DefaultMice)
           d == CmdQueue(<<>>, DefaultMenu)
           none == <<>>
           a == none \o AutogroupsOf(DefaultRest)
           r == RuleQueue(none, RuleLinesOf(DefaultRest))
           l == Looks([o \in Outputs |-> NotSet], Sections(DefaultScreens, "screen"))
           s == Styles([o \in Outputs |-> [g \in Groups |-> NotSet]],
                         Sections(DefaultScreens, "screen"))
<1>1. ScreensConf = Conf(none, none, none, none, {}, none, l, s)
  BY ScreenFields DEF ScreensConf, NoConf
<1>2. PICK i : InternClients(ScreensConf, DefaultRest) = Conf(none, none, none, a, i, r, l, s)
  <2> HIDE DEF none, l, s
  <2> QED BY <1>1, ClientFields
<1>3. InternBindings(InternClients(ScreensConf, DefaultRest), DefaultRest)
        = Conf(k, m, none, a, i, r, l, s)
  BY <1>2, BindingFields, DefaultItems
<1>4. DefaultConf = Conf(k, m, d, a, i, r, l, s)
  BY <1>3, MenuFields, DefaultItems DEF DefaultConf
<1> HIDE DEF k, m, d, a, r, l, s
<1>5. /\ DefaultConf.keys = k /\ DefaultConf.mice = m /\ DefaultConf.cmds = d
      /\ DefaultConf.autogroups = a /\ DefaultConf.rules = r
      /\ DefaultConf.look = l /\ DefaultConf.style = s
  BY <1>4 DEF Conf
<1>6. \E j : DefaultConf = Conf(DefaultConf.keys, DefaultConf.mice, DefaultConf.cmds,
                                DefaultConf.autogroups, j, DefaultConf.rules,
                                DefaultConf.look, DefaultConf.style)
  BY <1>4, <1>5
<1> QED
  BY <1>5, <1>6, Zenon DEF k, m, d, a, r, l, s

\* What the user's file makes of them
LEMMA UserFields ==
  ASSUME NEW f
  PROVE  LET c == InternMenu(UserConf(f), f)
         IN /\ c.keys = KbdQueue(DefaultConf.keys, KeysOf(f))
            /\ c.mice = MouseQueue(DefaultConf.mice, MiceOf(f))
            /\ c.cmds = CmdQueue(DefaultConf.cmds, MenuOf(f))
            /\ c.autogroups = DefaultConf.autogroups \o AutogroupsOf(f)
            /\ c.rules = RuleQueue(DefaultConf.rules, RuleLinesOf(f))
            /\ c.look = Looks(DefaultConf.look, Sections(f, "screen"))
            /\ c.style = Styles(DefaultConf.style, Sections(f, "screen"))
<1> DEFINE D == DefaultConf
           k == KbdQueue(D.keys, KeysOf(f))
           m == MouseQueue(D.mice, MiceOf(f))
           d == CmdQueue(D.cmds, MenuOf(f))
           a == D.autogroups \o AutogroupsOf(f)
           r == RuleQueue(D.rules, RuleLinesOf(f))
           l == Looks(D.look, Sections(f, "screen"))
           s == Styles(D.style, Sections(f, "screen"))
<1>1. PICK h : D = Conf(D.keys, D.mice, D.cmds, D.autogroups, h, D.rules, D.look, D.style)
  BY DefaultFields
<1>2. PICK i : ClientsConf(f) = Conf(D.keys, D.mice, D.cmds, a, i, r, D.look, D.style)
  BY <1>1, ClientFields DEF ClientsConf
<1>3. BindingsConf(f) = Conf(k, m, D.cmds, a, i, r, D.look, D.style)
  BY <1>2, BindingFields DEF BindingsConf
<1>4. UserConf(f) = Conf(k, m, D.cmds, a, i, r, l, s)
  BY <1>3, ScreenFields DEF UserConf
<1>5. InternMenu(UserConf(f), f) = Conf(k, m, d, a, i, r, l, s)
  BY <1>4, MenuFields
<1> HIDE DEF k, m, d, a, r, l, s
<1> DEFINE c == InternMenu(UserConf(f), f)
<1>6. /\ c.keys = k /\ c.mice = m /\ c.cmds = d /\ c.autogroups = a /\ c.rules = r
      /\ c.look = l /\ c.style = s
  BY <1>5 DEF Conf
<1> QED
  BY <1>6, Zenon DEF k, m, d, a, r, l, s

\* The keys are bound as the file says, whatever it replaces or takes back.
LEMMA KeysRead ==
  ASSUME file \in Files \cup {None}
  PROVE  LET s == DefaultKeys \o KeysOf(UserFile)
         IN /\ Read(file).keys = NotUnmap(InForce(s, LAMBDA b : IsKeysym(b.on), SameBinding))
            /\ Read(file).keys \in Seq(ToSet(DefaultKeys) \cup Holds(UserFile, "bindings", "keys"))
<1> DEFINE u == KeysOf(UserFile)
           s == DefaultKeys \o u
           A == ToSet(DefaultKeys) \cup Holds(UserFile, "bindings", "keys")
           T == Seq(A)
           V == {b \in A : IsKeysym(b.on)}
           R == {p \in A \X A : SameBinding(p[1], p[2])}
           N == {b \in A : b.cmd # "unmap"}
           none == <<>>
           step == [p \in T \X A |-> BindKbd(p[1], p[2])]
           I == {i \in DOMAIN s :
                   /\ IsKeysym(s[i].on)
                   /\ \A j \in DOMAIN s : j > i /\ IsKeysym(s[j].on) => ~SameBinding(s[i], s[j])}
<1>1. DefaultKeys \in T /\ u \in T
  <2>1. IsFile(UserFile)
    BY UserFileType
  <2>2. u \in Seq(Holds(UserFile, "bindings", "keys"))
    <3>1. IsList(UserFile) /\ \A x \in ToSet(UserFile) : x.kind = "bindings" => IsList(x["keys"])
      BY <2>1 DEF IsFile, AreBindings
    <3> QED BY <3>1, ItemsType DEF KeysOf
  <2>3. DefaultKeys \in Seq(ToSet(DefaultKeys))
    BY DefaultsAssumption DEF AreBindings, IsList
  <2> QED BY <2>2, <2>3, SeqWider
<1>2. s \in T /\ none \in T
  BY <1>1
<1> HIDE DEF u
<1>3. ASSUME NEW q \in T, NEW a \in A
      PROVE  BindKbd(q, a) = IF a \notin V THEN q
                          ELSE IF a \in N THEN Append(Keep(q, NotReplaced(A, R, a)), a)
                          ELSE Keep(q, NotReplaced(A, R, a))
  <2> DEFINE K == {k \in ToSet(q) : k.mask # a.mask \/ k.on # a.on}
  <2>1. \A i \in DOMAIN q : q[i] \in ToSet(q) /\ q[i] \in A
    BY DEF ToSet
  <2>2. \A i \in DOMAIN q : q[i] \in K <=> q[i] \in NotReplaced(A, R, a)
    BY <2>1 DEF NotReplaced, SameBinding
  <2>3. Unbind(q, a) = Keep(q, NotReplaced(A, R, a))
    <3> HIDE DEF K, R, A
    <3>1. Keep(q, K) = Keep(q, NotReplaced(A, R, a))
      BY <2>2, KeepEqual
    <3> QED BY <3>1 DEF Unbind, K
  <2>4. a \in V <=> IsKeysym(a.on)
    OBVIOUS
  <2>5. a \in N <=> a.cmd # "unmap"
    OBVIOUS
  <2> HIDE DEF V, N
  <2> QED BY <2>3, <2>4, <2>5 DEF BindKbd, Bind
<1>4. \A q \in T, a \in A : BindKbd(q, a) \in T
  <2> SUFFICES ASSUME NEW q \in T, NEW a \in A PROVE BindKbd(q, a) \in T
    OBVIOUS
  <2>1. Keep(q, NotReplaced(A, R, a)) \in T
    BY KeepEqual
  <2>2. Append(Keep(q, NotReplaced(A, R, a)), a) \in T
    BY <2>1
  <2> HIDE DEF A, V, N, R, T
  <2> QED BY <1>3, <2>1, <2>2
<1> HIDE DEF A, V, N, R
<1>5. IsBindKbd(step, A, T) /\ step \in [T \X A -> T]
  <2> HIDE DEF T
  <2> QED BY <1>4 DEF IsBindKbd
<1> HIDE DEF step, T
<1> HIDE DEF none
<1>6. PICK F : FoldsTo(F, A, T, none, step)
  BY <1>2, <1>5, FoldExists
<1>7. F[DefaultKeys] \in T
  BY <1>1, <1>6 DEF FoldsTo, T
<1>8. PICK G : FoldsTo(G, A, T, F[DefaultKeys], step)
  BY <1>5, <1>7, FoldExists
<1>9. KbdQueue(none, DefaultKeys) = F[DefaultKeys]
  BY <1>1, <1>2, <1>5, <1>6, KbdFold DEF T
<1>10. KbdQueue(F[DefaultKeys], u) = G[u]
  BY <1>1, <1>5, <1>7, <1>8, KbdFold DEF T
<1>11. G[u] = F[s]
  BY <1>1, <1>6, <1>8, FoldConcat DEF T
<1>12. DefaultConf.keys = F[DefaultKeys]
  BY <1>9, DefaultFields DEF none
<1>13. Read(file).keys = F[s]
  <2>1. CASE Applies(file)
    <3>1. Read(file).keys = KbdQueue(DefaultConf.keys, u)
      BY <2>1, UserFields DEF Read, UserFile, u
    <3> QED BY <1>10, <1>11, <1>12, <3>1
  <2>2. CASE ~Applies(file)
    <3>1. Read(file).keys = DefaultConf.keys
      BY <2>2 DEF Read
    <3>2. u = none
      BY <2>2, ItemsOfNone DEF none, u, UserFile, KeysOf
    <3>3. DefaultKeys \o none = DefaultKeys
      BY <1>1, ConcatEmpty DEF none, T
    <3> QED BY <1>12, <3>1, <3>2, <3>3
  <2> QED BY <2>1, <2>2
<1> HIDE DEF s
<1>14. F[s] = Keep(Pick(s, Standing(s, V, R)), N)
  <2>1. FoldsTo(F, A, Seq(A), <<>>, step) /\ s \in Seq(A)
    BY <1>2, <1>6 DEF T, none
  <2>2. Replaces(step, A, V, R, N)
    BY <1>3, <1>5 DEF T, Replaces, IsBindKbd
  <2> QED BY <2>1, <2>2, Replacing
<1>15. Pick(s, Standing(s, V, R)) = Pick(s, I) /\ Pick(s, I) \in Seq(A)
  <2>1. \A i \in DOMAIN s : s[i] \in A
    BY <1>2 DEF T
  <2>2. \A i \in DOMAIN s : i \in Standing(s, V, R) <=> i \in I
    BY <2>1 DEF Standing, V, R
  <2> HIDE DEF I
  <2>3. s \in Seq(A)
    BY <1>2 DEF T
  <2> QED BY <2>2, <2>3, PickEqual
<1>16. NotUnmap(Pick(s, I)) = Keep(Pick(s, I), N)
  <2> HIDE DEF I
  <2>1. \A i \in DOMAIN Pick(s, I) : Pick(s, I)[i] \in ToSet(Pick(s, I)) /\ Pick(s, I)[i] \in A
    BY <1>15 DEF ToSet
  <2>2. \A i \in DOMAIN Pick(s, I) :
          Pick(s, I)[i] \in {b \in ToSet(Pick(s, I)) : b.cmd # "unmap"} <=> Pick(s, I)[i] \in N
    BY <2>1 DEF N
  <2> QED BY <1>15, <2>2, KeepEqual DEF NotUnmap
<1>17. InForce(s, LAMBDA b : IsKeysym(b.on), SameBinding) = Pick(s, I)
  BY Zenon DEF InForce
<1> HIDE DEF I
<1>18. F[s] \in Seq(A)
  BY <1>2, <1>6 DEF FoldsTo, T
<1>19. Read(file).keys = NotUnmap(InForce(s, LAMBDA b : IsKeysym(b.on), SameBinding))
  BY <1>13, <1>14, <1>15, <1>16, <1>17, Zenon
<1> QED
  BY <1>13, <1>18, <1>19, Zenon DEF s, u, A

\* So are the buttons,
LEMMA MiceRead ==
  ASSUME file \in Files \cup {None}
  PROVE  LET s == DefaultMice \o MiceOf(UserFile)
         IN /\ Read(file).mice = NotUnmap(InForce(s, IsButton, SameBinding))
            /\ Read(file).mice \in Seq(ToSet(DefaultMice) \cup Holds(UserFile, "bindings", "mice"))
<1> DEFINE u == MiceOf(UserFile)
           s == DefaultMice \o u
           A == ToSet(DefaultMice) \cup Holds(UserFile, "bindings", "mice")
           T == Seq(A)
           V == {b \in A : IsButton(b)}
           R == {p \in A \X A : SameBinding(p[1], p[2])}
           N == {b \in A : b.cmd # "unmap"}
           none == <<>>
           step == [p \in T \X A |-> BindMouse(p[1], p[2])]
           I == {i \in DOMAIN s :
                   /\ IsButton(s[i])
                   /\ \A j \in DOMAIN s : j > i /\ IsButton(s[j]) => ~SameBinding(s[i], s[j])}
<1>1. DefaultMice \in T /\ u \in T
  <2>1. IsFile(UserFile)
    BY UserFileType
  <2>2. u \in Seq(Holds(UserFile, "bindings", "mice"))
    <3>1. IsList(UserFile) /\ \A x \in ToSet(UserFile) : x.kind = "bindings" => IsList(x["mice"])
      BY <2>1 DEF IsFile, AreBindings
    <3> QED BY <3>1, ItemsType DEF MiceOf
  <2>3. DefaultMice \in Seq(ToSet(DefaultMice))
    BY DefaultsAssumption DEF AreBindings, IsList
  <2> QED BY <2>2, <2>3, SeqWider
<1>2. s \in T /\ none \in T
  BY <1>1
<1> HIDE DEF u
<1>3. ASSUME NEW q \in T, NEW a \in A
      PROVE  BindMouse(q, a) = IF a \notin V THEN q
                          ELSE IF a \in N THEN Append(Keep(q, NotReplaced(A, R, a)), a)
                          ELSE Keep(q, NotReplaced(A, R, a))
  <2> DEFINE K == {k \in ToSet(q) : k.mask # a.mask \/ k.on # a.on}
  <2>1. \A i \in DOMAIN q : q[i] \in ToSet(q) /\ q[i] \in A
    BY DEF ToSet
  <2>2. \A i \in DOMAIN q : q[i] \in K <=> q[i] \in NotReplaced(A, R, a)
    BY <2>1 DEF NotReplaced, SameBinding
  <2>3. Unbind(q, a) = Keep(q, NotReplaced(A, R, a))
    <3> HIDE DEF K, R, A
    <3>1. Keep(q, K) = Keep(q, NotReplaced(A, R, a))
      BY <2>2, KeepEqual
    <3> QED BY <3>1 DEF Unbind, K
  <2>4. a \in V <=> IsButton(a)
    OBVIOUS
  <2>5. a \in N <=> a.cmd # "unmap"
    OBVIOUS
  <2> HIDE DEF V, N
  <2> QED BY <2>3, <2>4, <2>5 DEF BindMouse, Bind
<1>4. \A q \in T, a \in A : BindMouse(q, a) \in T
  <2> SUFFICES ASSUME NEW q \in T, NEW a \in A PROVE BindMouse(q, a) \in T
    OBVIOUS
  <2>1. Keep(q, NotReplaced(A, R, a)) \in T
    BY KeepEqual
  <2>2. Append(Keep(q, NotReplaced(A, R, a)), a) \in T
    BY <2>1
  <2> HIDE DEF A, V, N, R, T
  <2> QED BY <1>3, <2>1, <2>2
<1> HIDE DEF A, V, N, R
<1>5. IsBindMouse(step, A, T) /\ step \in [T \X A -> T]
  <2> HIDE DEF T
  <2> QED BY <1>4 DEF IsBindMouse
<1> HIDE DEF step, T
<1> HIDE DEF none
<1>6. PICK F : FoldsTo(F, A, T, none, step)
  BY <1>2, <1>5, FoldExists
<1>7. F[DefaultMice] \in T
  BY <1>1, <1>6 DEF FoldsTo, T
<1>8. PICK G : FoldsTo(G, A, T, F[DefaultMice], step)
  BY <1>5, <1>7, FoldExists
<1>9. MouseQueue(none, DefaultMice) = F[DefaultMice]
  BY <1>1, <1>2, <1>5, <1>6, MouseFold DEF T
<1>10. MouseQueue(F[DefaultMice], u) = G[u]
  BY <1>1, <1>5, <1>7, <1>8, MouseFold DEF T
<1>11. G[u] = F[s]
  BY <1>1, <1>6, <1>8, FoldConcat DEF T
<1>12. DefaultConf.mice = F[DefaultMice]
  BY <1>9, DefaultFields DEF none
<1>13. Read(file).mice = F[s]
  <2>1. CASE Applies(file)
    <3>1. Read(file).mice = MouseQueue(DefaultConf.mice, u)
      BY <2>1, UserFields DEF Read, UserFile, u
    <3> QED BY <1>10, <1>11, <1>12, <3>1
  <2>2. CASE ~Applies(file)
    <3>1. Read(file).mice = DefaultConf.mice
      BY <2>2 DEF Read
    <3>2. u = none
      BY <2>2, ItemsOfNone DEF none, u, UserFile, MiceOf
    <3>3. DefaultMice \o none = DefaultMice
      BY <1>1, ConcatEmpty DEF none, T
    <3> QED BY <1>12, <3>1, <3>2, <3>3
  <2> QED BY <2>1, <2>2
<1> HIDE DEF s
<1>14. F[s] = Keep(Pick(s, Standing(s, V, R)), N)
  <2>1. FoldsTo(F, A, Seq(A), <<>>, step) /\ s \in Seq(A)
    BY <1>2, <1>6 DEF T, none
  <2>2. Replaces(step, A, V, R, N)
    BY <1>3, <1>5 DEF T, Replaces, IsBindMouse
  <2> QED BY <2>1, <2>2, Replacing
<1>15. Pick(s, Standing(s, V, R)) = Pick(s, I) /\ Pick(s, I) \in Seq(A)
  <2>1. \A i \in DOMAIN s : s[i] \in A
    BY <1>2 DEF T
  <2>2. \A i \in DOMAIN s : i \in Standing(s, V, R) <=> i \in I
    BY <2>1 DEF Standing, V, R
  <2> HIDE DEF I
  <2>3. s \in Seq(A)
    BY <1>2 DEF T
  <2> QED BY <2>2, <2>3, PickEqual
<1>16. NotUnmap(Pick(s, I)) = Keep(Pick(s, I), N)
  <2> HIDE DEF I
  <2>1. \A i \in DOMAIN Pick(s, I) : Pick(s, I)[i] \in ToSet(Pick(s, I)) /\ Pick(s, I)[i] \in A
    BY <1>15 DEF ToSet
  <2>2. \A i \in DOMAIN Pick(s, I) :
          Pick(s, I)[i] \in {b \in ToSet(Pick(s, I)) : b.cmd # "unmap"} <=> Pick(s, I)[i] \in N
    BY <2>1 DEF N
  <2> QED BY <1>15, <2>2, KeepEqual DEF NotUnmap
<1>17. InForce(s, IsButton, SameBinding) = Pick(s, I)
  BY Zenon DEF InForce
<1> HIDE DEF I
<1>18. F[s] \in Seq(A)
  BY <1>2, <1>6 DEF FoldsTo, T
<1>19. Read(file).mice = NotUnmap(InForce(s, IsButton, SameBinding))
  BY <1>13, <1>14, <1>15, <1>16, <1>17, Zenon
<1> QED
  BY <1>13, <1>18, <1>19, Zenon DEF s, u, A

\* and the menu has the commands the file gives it.
LEMMA CmdsRead ==
  ASSUME file \in Files \cup {None}
  PROVE  LET s == DefaultMenu \o MenuOf(UserFile)
         IN /\ Read(file).cmds = InForce(s, LAMBDA m : m.cmd \notin TooLong, SameEntry)
            /\ Read(file).cmds \in Seq(ToSet(DefaultMenu) \cup Holds(UserFile, "menu", "items"))
<1> DEFINE u == MenuOf(UserFile)
           s == DefaultMenu \o u
           A == ToSet(DefaultMenu) \cup Holds(UserFile, "menu", "items")
           T == Seq(A)
           V == {b \in A : b.cmd \notin TooLong}
           R == {p \in A \X A : SameEntry(p[1], p[2])}
           N == A
           none == <<>>
           step == [p \in T \X A |-> CmdAdd(p[1], p[2])]
           I == {i \in DOMAIN s :
                   /\ s[i].cmd \notin TooLong
                   /\ \A j \in DOMAIN s :
                        j > i /\ s[j].cmd \notin TooLong => ~SameEntry(s[i], s[j])}
<1>1. DefaultMenu \in T /\ u \in T
  <2>1. IsFile(UserFile)
    BY UserFileType
  <2>2. u \in Seq(Holds(UserFile, "menu", "items"))
    <3>1. IsList(UserFile) /\ \A x \in ToSet(UserFile) : x.kind = "menu" => IsList(x["items"])
      BY <2>1 DEF IsFile, AreBindings
    <3> QED BY <3>1, ItemsType DEF MenuOf
  <2>3. DefaultMenu \in Seq(ToSet(DefaultMenu))
    BY DefaultsAssumption DEF AreBindings, IsList
  <2> QED BY <2>2, <2>3, SeqWider
<1>2. s \in T /\ none \in T
  BY <1>1
<1> HIDE DEF u
<1>3. ASSUME NEW q \in T, NEW a \in A
      PROVE  CmdAdd(q, a) = IF a \notin V THEN q
                          ELSE IF a \in N THEN Append(Keep(q, NotReplaced(A, R, a)), a)
                          ELSE Keep(q, NotReplaced(A, R, a))
  <2> DEFINE K == {c \in ToSet(q) : c.entry # a.entry}
  <2>1. \A i \in DOMAIN q : q[i] \in ToSet(q) /\ q[i] \in A
    BY DEF ToSet
  <2>2. \A i \in DOMAIN q : q[i] \in K <=> q[i] \in NotReplaced(A, R, a)
    BY <2>1 DEF NotReplaced, SameEntry
  <2>3. Keep(q, K) = Keep(q, NotReplaced(A, R, a))
    <3> HIDE DEF K, R, A
    <3> QED BY <2>2, KeepEqual
  <2>4. a \in V <=> a.cmd \notin TooLong
    OBVIOUS
  <2> HIDE DEF V
  <2> QED BY <2>3, <2>4 DEF CmdAdd
<1>4. \A q \in T, a \in A : CmdAdd(q, a) \in T
  <2> SUFFICES ASSUME NEW q \in T, NEW a \in A PROVE CmdAdd(q, a) \in T
    OBVIOUS
  <2>1. Keep(q, NotReplaced(A, R, a)) \in T
    BY KeepEqual
  <2>2. Append(Keep(q, NotReplaced(A, R, a)), a) \in T
    BY <2>1
  <2> HIDE DEF A, V, N, R, T
  <2> QED BY <1>3, <2>1, <2>2
<1> HIDE DEF A, V, N, R
<1>5. IsCmdAdd(step, A, T) /\ step \in [T \X A -> T]
  <2> HIDE DEF T
  <2> QED BY <1>4 DEF IsCmdAdd
<1> HIDE DEF step, T
<1> HIDE DEF none
<1>6. PICK F : FoldsTo(F, A, T, none, step)
  BY <1>2, <1>5, FoldExists
<1>7. F[DefaultMenu] \in T
  BY <1>1, <1>6 DEF FoldsTo, T
<1>8. PICK G : FoldsTo(G, A, T, F[DefaultMenu], step)
  BY <1>5, <1>7, FoldExists
<1>9. CmdQueue(none, DefaultMenu) = F[DefaultMenu]
  BY <1>1, <1>2, <1>5, <1>6, CmdFold DEF T
<1>10. CmdQueue(F[DefaultMenu], u) = G[u]
  BY <1>1, <1>5, <1>7, <1>8, CmdFold DEF T
<1>11. G[u] = F[s]
  BY <1>1, <1>6, <1>8, FoldConcat DEF T
<1>12. DefaultConf.cmds = F[DefaultMenu]
  BY <1>9, DefaultFields DEF none
<1>13. Read(file).cmds = F[s]
  <2>1. CASE Applies(file)
    <3>1. Read(file).cmds = CmdQueue(DefaultConf.cmds, u)
      BY <2>1, UserFields DEF Read, UserFile, u
    <3> QED BY <1>10, <1>11, <1>12, <3>1
  <2>2. CASE ~Applies(file)
    <3>1. Read(file).cmds = DefaultConf.cmds
      BY <2>2 DEF Read
    <3>2. u = none
      BY <2>2, ItemsOfNone DEF none, u, UserFile, MenuOf
    <3>3. DefaultMenu \o none = DefaultMenu
      BY <1>1, ConcatEmpty DEF none, T
    <3> QED BY <1>12, <3>1, <3>2, <3>3
  <2> QED BY <2>1, <2>2
<1> HIDE DEF s
<1>14. F[s] = Keep(Pick(s, Standing(s, V, R)), N)
  <2>1. FoldsTo(F, A, Seq(A), <<>>, step) /\ s \in Seq(A)
    BY <1>2, <1>6 DEF T, none
  <2>2. Replaces(step, A, V, R, N)
    BY <1>3, <1>5 DEF T, Replaces, IsCmdAdd
  <2> QED BY <2>1, <2>2, Replacing
<1>15. Pick(s, Standing(s, V, R)) = Pick(s, I) /\ Pick(s, I) \in Seq(A)
  <2>1. \A i \in DOMAIN s : s[i] \in A
    BY <1>2 DEF T
  <2>2. \A i \in DOMAIN s : i \in Standing(s, V, R) <=> i \in I
    BY <2>1 DEF Standing, V, R
  <2> HIDE DEF I
  <2>3. s \in Seq(A)
    BY <1>2 DEF T
  <2> QED BY <2>2, <2>3, PickEqual
<1>16. Pick(s, I) = Keep(Pick(s, I), N)
  <2> HIDE DEF I
  <2> QED BY <1>15, KeepAll DEF N
<1>17. InForce(s, LAMBDA m : m.cmd \notin TooLong, SameEntry) = Pick(s, I)
  BY Zenon DEF InForce
<1> HIDE DEF I
<1>18. F[s] \in Seq(A)
  BY <1>2, <1>6 DEF FoldsTo, T
<1>19. Read(file).cmds = InForce(s, LAMBDA m : m.cmd \notin TooLong, SameEntry)
  BY <1>13, <1>14, <1>15, <1>16, <1>17, Zenon
<1> QED
  BY <1>13, <1>18, <1>19, Zenon DEF s, u, A

-----------------------------------------------------------------------------
\* A step writes the value of an element at the places M relates it to.
Writes(step, A, D, L, T, M, val) ==
  /\ T = [D -> L] /\ val \in [A -> L] /\ step \in [T \X A -> T]
  /\ \A t \in T, a \in A :
       step[<<t, a>>] = [d \in D |-> IF <<d, a>> \in M THEN val[a] ELSE t[d]]

\* What the elements of q that write at d leave there
Written(q, val, before) == IF q = <<>> THEN before ELSE val[Last(q)]

At(d, A, M) == {a \in A : <<d, a>> \in M}

\* The last element that writes at a place is the one whose value it keeps.
LEMMA LastWins ==
  ASSUME NEW A, NEW D, NEW L, NEW M, NEW val, NEW T, NEW step,
         Writes(step, A, D, L, T, M, val), NEW base, NEW F, FoldsTo(F, A, T, base, step),
         NEW s \in Seq(A), NEW d \in D
  PROVE  F[s][d] = Written(Keep(s, At(d, A, M)), val, base[d])
<1> DEFINE S == At(d, A, M)
           U == {t \in Seq(A) : F[t][d] = Written(Keep(t, S), val, base[d])}
<1>1. <<>> \in U
  BY KeepEmpty DEF FoldsTo, Written
<1>2. ASSUME NEW t \in Seq(A), NEW a \in A, t \in U
      PROVE  Append(t, a) \in U
  <2>1. F[t] \in [D -> L] /\ F[Append(t, a)] = step[<<F[t], a>>]
    BY DEF FoldsTo, Writes
  <2>2. F[Append(t, a)][d] = IF a \in S THEN val[a] ELSE F[t][d]
    <3>1. step[<<F[t], a>>] = [e \in D |-> IF <<e, a>> \in M THEN val[a] ELSE F[t][e]]
      <4>1. F[t] \in T
        BY DEF FoldsTo
      <4> QED BY <4>1 DEF Writes
    <3> QED BY <2>1, <3>1 DEF At
  <2>3. Keep(Append(t, a), S) = IF a \in S THEN Append(Keep(t, S), a) ELSE Keep(t, S)
    BY KeepAppend
  <2>4. Append(Keep(t, S), a) # <<>> /\ Last(Append(Keep(t, S), a)) = a
    <3>1. Keep(t, S) \in Seq(A)
      BY KeepEqual
    <3> QED BY <3>1, LastAppend
  <2>5. F[t][d] = Written(Keep(t, S), val, base[d])
    BY <1>2
  <2>6. F[Append(t, a)][d] = Written(Keep(Append(t, a), S), val, base[d])
    <3> HIDE DEF S
    <3> QED BY <2>2, <2>3, <2>4, <2>5 DEF Written
  <2> QED BY <2>6
<1> HIDE DEF U, S
<1>3. s \in U
  BY <1>1, <1>2, SeqSets
<1> QED
  BY <1>3 DEF U, S

\* The values of the elements of a list
Values(A, name) == [a \in A |-> a[name]]
HoldValues(A, name, L) == \A a \in A : a[name] \in L

\* config_intern_group: a group has the style of the last title that names it.
LEMMA GroupsAre ==
  ASSUME NEW A, NEW L, HoldValues(A, "style", L),
         NEW base \in [Groups -> L], NEW s \in Seq(A)
  PROVE  /\ GroupStyles(base, s) \in [Groups -> L]
         /\ \A g \in Groups :
              GroupStyles(base, s)[g] =
                Written(Keep(s, {a \in A : g \in TitleGroups(a)}), Values(A, "style"), base[g])
<1> DEFINE T == [Groups -> L]
           M == {p \in Groups \X A : p[1] \in TitleGroups(p[2])}
           val == Values(A, "style")
           step == [p \in T \X A |-> InternGroup(p[1], p[2])]
<1>1. ASSUME NEW t \in T, NEW a \in A
      PROVE  /\ InternGroup(t, a) \in T
             /\ InternGroup(t, a) = [g \in Groups |-> IF <<g, a>> \in M THEN val[a] ELSE t[g]]
  BY DEF InternGroup, Values, HoldValues
<1>2. val \in [A -> L]
  BY DEF Values, HoldValues
<1> HIDE DEF T, M, val
<1>3. IsInternGroup(step, A, T) /\ step \in [T \X A -> T]
  BY <1>1 DEF IsInternGroup
<1>4. Writes(step, A, Groups, L, T, M, val)
  BY <1>1, <1>2, <1>3 DEF Writes, IsInternGroup, T
<1> HIDE DEF step
<1>5. base \in T
  BY DEF T
<1>6. PICK F : FoldsTo(F, A, T, base, step)
  BY <1>3, <1>5, FoldExists
<1>7. GroupStyles(base, s) = F[s]
  BY <1>3, <1>5, <1>6, GroupFold
<1>8. F[s] \in T
  BY <1>6 DEF FoldsTo
<1>9. ASSUME NEW g \in Groups
      PROVE  F[s][g] = Written(Keep(s, {a \in A : g \in TitleGroups(a)}), val, base[g])
  <2>1. F[s][g] = Written(Keep(s, At(g, A, M)), val, base[g])
    BY <1>4, <1>6, LastWins
  <2>2. At(g, A, M) = {a \in A : g \in TitleGroups(a)}
    BY DEF At, M
  <2> QED BY <2>1, <2>2
<1> QED
  BY <1>7, <1>8, <1>9 DEF T, val

\* config_intern_screen: an output has the look of the last section for it.
LEMMA LooksAre ==
  ASSUME NEW A, NEW L, HoldValues(A, "look", L),
         NEW base \in [Outputs -> L], NEW s \in Seq(A)
  PROVE  /\ Looks(base, s) \in [Outputs -> L]
         /\ \A o \in Outputs :
              Looks(base, s)[o] =
                Written(Keep(s, {a \in A : o \in TitleOutputs(a)}), Values(A, "look"), base[o])
<1> DEFINE T == [Outputs -> L]
           M == {p \in Outputs \X A : p[1] \in TitleOutputs(p[2])}
           val == Values(A, "look")
           step == [p \in T \X A |-> InternLook(p[1], p[2])]
<1>1. ASSUME NEW t \in T, NEW a \in A
      PROVE  /\ InternLook(t, a) \in T
             /\ InternLook(t, a) = [o \in Outputs |-> IF <<o, a>> \in M THEN val[a] ELSE t[o]]
  BY DEF InternLook, Values, HoldValues
<1>2. val \in [A -> L]
  BY DEF Values, HoldValues
<1> HIDE DEF T, M, val
<1>3. IsInternLook(step, A, T) /\ step \in [T \X A -> T]
  BY <1>1 DEF IsInternLook
<1>4. Writes(step, A, Outputs, L, T, M, val)
  BY <1>1, <1>2, <1>3 DEF Writes, IsInternLook, T
<1> HIDE DEF step
<1>5. base \in T
  BY DEF T
<1>6. PICK F : FoldsTo(F, A, T, base, step)
  BY <1>3, <1>5, FoldExists
<1>7. Looks(base, s) = F[s]
  BY <1>3, <1>5, <1>6, LookFold
<1>8. F[s] \in T
  BY <1>6 DEF FoldsTo
<1>9. ASSUME NEW o \in Outputs
      PROVE  F[s][o] = Written(Keep(s, {a \in A : o \in TitleOutputs(a)}), val, base[o])
  <2>1. F[s][o] = Written(Keep(s, At(o, A, M)), val, base[o])
    BY <1>4, <1>6, LastWins
  <2>2. At(o, A, M) = {a \in A : o \in TitleOutputs(a)}
    BY DEF At, M
  <2> QED BY <2>1, <2>2
<1> QED
  BY <1>7, <1>8, <1>9 DEF T, val

\* The groups of the sections for an output, and the ones that name g
GroupsOf(s, A, o) == Joined(Keep(s, {a \in A : o \in TitleOutputs(a)}), "groups")
Naming(q, B, g) == Keep(q, {b \in B : g \in TitleGroups(b)})

\* config_internalise_groups: a group of an output has the style of the last
\* title that names it, in any section for the output.
LEMMA StylesAre ==
  ASSUME NEW A, NEW B, HoldLists(A, "groups", B), NEW L, HoldValues(B, "style", L),
         NEW base \in [Outputs -> [Groups -> L]], NEW s \in Seq(A)
  PROVE  /\ Styles(base, s) \in [Outputs -> [Groups -> L]]
         /\ \A o \in Outputs, g \in Groups :
              Styles(base, s)[o][g] =
                Written(Naming(GroupsOf(s, A, o), B, g), Values(B, "style"), base[o][g])
<1> DEFINE T == [Outputs -> [Groups -> L]]
           val == Values(B, "style")
           step == [p \in T \X A |-> InternStyle(p[1], p[2])]
           AsWritten(t) ==
             /\ Styles(base, t) \in T
             /\ \A o \in Outputs, g \in Groups :
                  Styles(base, t)[o][g] = Written(Naming(GroupsOf(t, A, o), B, g), val, base[o][g])
           U == {t \in Seq(A) : AsWritten(t)}
<1>1. ASSUME NEW st \in [Groups -> L], NEW a \in A
      PROVE  /\ InternGroups(st, a) \in [Groups -> L]
             /\ \A g \in Groups :
                  InternGroups(st, a)[g] = Written(Naming(a.groups, B, g), val, st[g])
  <2>1. a.groups \in Seq(B)
    BY DEF HoldLists
  <2>2. InternGroups(st, a) = GroupStyles(st, a.groups)
    BY Zenon DEF InternGroups, GroupStyles
  <2> QED BY <2>1, <2>2, GroupsAre DEF Naming
<1>2. ASSUME NEW t \in T, NEW a \in A
      PROVE  /\ InternStyle(t, a) \in T
             /\ \A o \in Outputs : InternStyle(t, a)[o] =
                  IF o \in TitleOutputs(a) THEN InternGroups(t[o], a) ELSE t[o]
  <2>1. \A o \in Outputs : t[o] \in [Groups -> L] /\ InternGroups(t[o], a) \in [Groups -> L]
    BY <1>1
  <2> QED BY <2>1 DEF InternStyle
<1> HIDE DEF T
<1>3. IsInternStyle(step, A, T) /\ step \in [T \X A -> T]
  BY <1>2 DEF IsInternStyle
<1>4. \A t \in T, a \in A : step[<<t, a>>] = InternStyle(t, a)
  OBVIOUS
<1> HIDE DEF step
<1>5. base \in T
  BY DEF T
<1>6. PICK F : FoldsTo(F, A, T, base, step)
  BY <1>3, <1>5, FoldExists
<1>7. \A t \in Seq(A) : Styles(base, t) = F[t]
  BY <1>3, <1>5, <1>6, StyleFold
<1>8. <<>> \in U
  <2>1. <<>> \in Seq(A) /\ Styles(base, <<>>) = base
    <3>1. <<>> \in Seq(A)
      OBVIOUS
    <3> QED BY <1>6, <1>7, <3>1 DEF FoldsTo
  <2>2. \A o \in Outputs, g \in Groups : Naming(GroupsOf(<<>>, A, o), B, g) = <<>>
    BY KeepEmpty, JoinedEmpty DEF Naming, GroupsOf
  <2> QED BY <1>5, <2>1, <2>2 DEF Written
<1>9. ASSUME NEW t \in Seq(A), NEW a \in A, t \in U
      PROVE  Append(t, a) \in U
  <2> DEFINE u == Append(t, a)
             st == Styles(base, t)
  <2>1. u \in Seq(A) /\ Styles(base, u) = InternStyle(st, a) /\ AsWritten(t)
    <3>1. u \in Seq(A)
      OBVIOUS
    <3>2. F[u] = step[<<F[t], a>>] /\ F[t] \in T
      BY <1>6 DEF FoldsTo
    <3> QED BY <1>4, <1>7, <1>9, <3>1, <3>2
  <2>2. Styles(base, u) \in T
    BY <1>2, <2>1
  <2>3. ASSUME NEW o \in Outputs, NEW g \in Groups
        PROVE  Styles(base, u)[o][g] = Written(Naming(GroupsOf(u, A, o), B, g), val, base[o][g])
    <3> DEFINE S == {b \in A : o \in TitleOutputs(b)}
    <3>1. st[o][g] = Written(Naming(GroupsOf(t, A, o), B, g), val, base[o][g])
      BY <2>1
    <3>2. Keep(u, S) = IF a \in S THEN Append(Keep(t, S), a) ELSE Keep(t, S)
      BY KeepAppend
    <3>3. CASE o \notin TitleOutputs(a)
      <4>1. Keep(u, S) = Keep(t, S)
        BY <3>2, <3>3
      <4>2. GroupsOf(u, A, o) = GroupsOf(t, A, o)
        BY <4>1 DEF GroupsOf
      <4>3. Styles(base, u)[o] = st[o]
        BY <1>2, <2>1, <3>3
      <4> QED BY <3>1, <4>2, <4>3
    <3>4. CASE o \in TitleOutputs(a)
      <4>1. Keep(u, S) = Append(Keep(t, S), a) /\ Keep(t, S) \in Seq(A)
        BY <3>2, <3>4, KeepEqual
      <4>2. /\ GroupsOf(t, A, o) \in Seq(B) /\ a.groups \in Seq(B)
            /\ GroupsOf(u, A, o) = GroupsOf(t, A, o) \o a["groups"]
        <5>1. /\ Joined(Keep(t, S), "groups") \in Seq(B)
              /\ Joined(Append(Keep(t, S), a), "groups")
                   = Joined(Keep(t, S), "groups") \o a["groups"]
          <6> HIDE DEF S
          <6> QED BY <4>1, JoinedAppend
        <5>2. a.groups \in Seq(B)
          BY DEF HoldLists
        <5> QED BY <4>1, <5>1, <5>2 DEF GroupsOf
      <4> DEFINE p == Naming(GroupsOf(t, A, o), B, g)
                 q == Naming(a.groups, B, g)
      <4>3. Naming(GroupsOf(u, A, o), B, g) = p \o q
        BY <4>2, KeepConcat DEF Naming
      <4>4. p \in Seq(B) /\ q \in Seq(B)
        BY <4>2, KeepEqual DEF Naming
      <4>5. Styles(base, u)[o][g] = Written(q, val, st[o][g])
        <5>1. Styles(base, u)[o] = InternGroups(st[o], a)
          BY <1>2, <2>1, <3>4
        <5>2. st[o] \in [Groups -> L]
          BY <2>1 DEF T
        <5> QED BY <1>1, <5>1, <5>2
      <4>6. IF q = <<>> THEN p \o q = p ELSE p \o q # <<>> /\ Last(p \o q) = Last(q)
        <5> HIDE DEF p, q
        <5> QED BY <4>4, LastConcat
      <4>7. Written(q, val, Written(p, val, base[o][g])) = Written(p \o q, val, base[o][g])
        <5> HIDE DEF p, q, val
        <5> QED BY <4>6 DEF Written
      <4> QED BY <3>1, <4>3, <4>5, <4>7
    <3> QED BY <3>3, <3>4
  <2> QED BY <2>1, <2>2, <2>3
<1> HIDE DEF U, val
<1>10. s \in U
  BY <1>8, <1>9, SeqSets
<1> QED
  BY <1>10 DEF U, T, val

\* What an element of q has under a name is in the joined list.
LEMMA JoinedHas ==
  ASSUME NEW A, NEW S, NEW name, HoldLists(S, name, A), NEW q \in Seq(S),
         NEW x \in ToSet(q), NEW b \in ToSet(x[name])
  PROVE  b \in ToSet(Joined(q, name))
<1> DEFINE U == {p \in Seq(S) : x \in ToSet(p) => b \in ToSet(Joined(p, name))}
<1>1. <<>> \in U
  BY DEF ToSet
<1>2. ASSUME NEW p \in Seq(S), NEW y \in S, p \in U
      PROVE  Append(p, y) \in U
  <2>1. Joined(p, name) \in Seq(A) /\ Joined(Append(p, y), name) = Joined(p, name) \o y[name]
    BY JoinedAppend
  <2>2. y[name] \in Seq(A)
    BY DEF HoldLists
  <2>3. ToSet(Joined(p, name) \o y[name]) = ToSet(Joined(p, name)) \cup ToSet(y[name])
    BY <2>1, <2>2, JoinedElements
  <2>4. ToSet(Append(p, y)) = ToSet(p) \cup {y}
    BY AppendedElements
  <2>5. b \in ToSet(Joined(p, name) \o y[name]) \/ x \notin ToSet(Append(p, y))
    <3>1. CASE x \in ToSet(p)
      BY <1>2, <2>3, <3>1
    <3>2. CASE x = y
      BY <2>3, <3>2
    <3> QED BY <2>4, <3>1, <3>2
  <2>6. Append(p, y) \in Seq(S)
    OBVIOUS
  <2> QED BY <2>1, <2>5, <2>6
<1> HIDE DEF U
<1>3. q \in U
  BY <1>1, <1>2, SeqSets
<1> QED
  BY <1>3 DEF U

\* The last that is wanted of a list that has one
LEMMA LastKept ==
  ASSUME NEW A, NEW s \in Seq(A), NEW S, ToSet(s) \cap S # {}
  PROVE  Keep(s, S) # <<>> /\ Last(Keep(s, S)) \in ToSet(s) \cap S
<1>1. ToSet(Keep(s, S)) = ToSet(s) \cap S
  BY KeptElements
<1>2. Keep(s, S) # <<>>
  BY <1>1 DEF ToSet
<1>3. Keep(s, S) \in Seq(A)
  BY KeepEqual
<1> QED
  BY <1>1, <1>2, <1>3, LastIn

DefaultSections == {DefaultScreen(o) : o \in Outputs}
DefaultGroups == {[titles |-> {g}, style |-> Default] : g \in Groups}

\* The defaults list every output and every group.
LEMMA DefaultLists ==
  /\ DefaultScreens \in Seq(DefaultSections) /\ ToSet(DefaultScreens) = DefaultSections
  /\ SetToSeq(DefaultGroups) \in Seq(DefaultGroups)
  /\ ToSet(SetToSeq(DefaultGroups)) = DefaultGroups
<1>1. IsFiniteSet(DefaultSections)
  <2> DEFINE f == [o \in Outputs |-> DefaultScreen(o)]
  <2>1. f \in Surjection(Outputs, DefaultSections)
    BY DEF Surjection, DefaultSections
  <2> HIDE DEF f
  <2> QED BY <2>1, FS_Surjection, GroupsAssumption
<1>2. IsFiniteSet(DefaultGroups)
  <2> DEFINE f == [g \in Groups |-> [titles |-> {g}, style |-> Default]]
  <2>1. f \in Surjection(Groups, DefaultGroups)
    BY DEF Surjection, DefaultGroups
  <2> HIDE DEF f
  <2> QED BY <2>1, FS_Surjection, GroupsAssumption
<1> QED
  BY <1>1, <1>2, SetListed DEF DefaultScreens, DefaultSections

\* Each default section is a screen's, and has the defaults of all groups.
LEMMA DefaultSectionsAre ==
  /\ Sections(DefaultScreens, "screen") = DefaultScreens
  /\ \A d \in DefaultSections : d.look = Default /\ d.groups = SetToSeq(DefaultGroups)
  /\ HoldLists(DefaultSections, "groups", DefaultGroups)
  /\ \A o \in Outputs : o \in TitleOutputs(DefaultScreen(o))
<1>1. \A o \in Outputs : /\ DefaultScreen(o).kind = "screen" /\ DefaultScreen(o).look = Default
                         /\ DefaultScreen(o).groups = SetToSeq(DefaultGroups)
                         /\ DefaultScreen(o).titles = {o}
  BY DEF DefaultScreen, DefaultGroups
<1>2. \A o \in Outputs : o \in TitleOutputs(DefaultScreen(o))
  BY <1>1 DEF TitleOutputs
<1>3. \A d \in DefaultSections : /\ d.kind = "screen" /\ d.look = Default
                                 /\ d.groups = SetToSeq(DefaultGroups)
  BY <1>1 DEF DefaultSections
<1>4. Sections(DefaultScreens, "screen") = DefaultScreens
  <2> DEFINE S == {s \in ToSet(DefaultScreens) : s.kind = "screen"}
  <2>1. DefaultSections \subseteq S
    BY <1>3, DefaultLists
  <2> HIDE DEF S
  <2>2. Keep(DefaultScreens, S) = DefaultScreens
    BY <2>1, DefaultLists, KeepAll
  <2> QED BY <2>2 DEF Sections, S
<1>5. HoldLists(DefaultSections, "groups", DefaultGroups)
  BY <1>3, DefaultLists DEF HoldLists
<1> QED
  BY <1>2, <1>3, <1>4, <1>5

\* Every output and group has its defaults before the user's file is read.
LEMMA DefaultLook ==
  /\ DefaultConf.look \in [Outputs -> {NotSet, Default}]
  /\ \A o \in Outputs : DefaultConf.look[o] = Default
<1> DEFINE A == DefaultSections
           L == {NotSet, Default}
           base == [o \in Outputs |-> NotSet]
           val == Values(A, "look")
<1>1. HoldValues(A, "look", L) /\ base \in [Outputs -> L]
  BY DefaultSectionsAre DEF HoldValues
<1>2. DefaultConf.look = Looks(base, DefaultScreens)
  BY DefaultFields, DefaultSectionsAre
<1> HIDE DEF L, base, A, val
<1>3. DefaultScreens \in Seq(A)
  BY DefaultLists DEF A
<1>4. /\ Looks(base, DefaultScreens) \in [Outputs -> L]
      /\ \A o \in Outputs :
           Looks(base, DefaultScreens)[o] =
             Written(Keep(DefaultScreens, {a \in A : o \in TitleOutputs(a)}), val, base[o])
  BY <1>1, <1>3, LooksAre DEF val
<1>5. ASSUME NEW o \in Outputs
      PROVE  Looks(base, DefaultScreens)[o] = Default
  <2> DEFINE S == {a \in A : o \in TitleOutputs(a)}
             q == Keep(DefaultScreens, S)
  <2>1. DefaultScreen(o) \in ToSet(DefaultScreens) \cap S
    BY DefaultLists, DefaultSectionsAre DEF A, DefaultSections
  <2>2. q # <<>> /\ Last(q) \in A
    <3> HIDE DEF S
    <3> QED BY <1>3, <2>1, LastKept, DefaultLists DEF A
  <2>3. val[Last(q)] = Default
    <3> HIDE DEF q
    <3> QED BY <2>2, DefaultSectionsAre DEF val, Values, A
  <2> HIDE DEF q
  <2> QED BY <1>4, <2>2, <2>3 DEF Written, q
<1> QED
  BY <1>2, <1>4, <1>5 DEF L

\* By default every group has its default style.
LEMMA DefaultStyle ==
  /\ DefaultConf.style \in [Outputs -> [Groups -> {NotSet, Default}]]
  /\ \A o \in Outputs, g \in Groups : DefaultConf.style[o][g] = Default
<1> DEFINE A == DefaultSections
           B == DefaultGroups
           L == {NotSet, Default}
           base == [o \in Outputs |-> [g \in Groups |-> NotSet]]
           val == Values(B, "style")
           DS == DefaultScreens
<1>1. HoldValues(B, "style", L) /\ base \in [Outputs -> [Groups -> L]]
  BY DEF HoldValues, DefaultGroups
<1>2. DefaultConf.style = Styles(base, DS)
  BY DefaultFields, DefaultSectionsAre
<1>3. \A b \in B : b.style = Default
  BY DEF DefaultGroups
<1>4. \A g \in Groups : \E b \in B : g \in TitleGroups(b)
  <2> SUFFICES ASSUME NEW g \in Groups PROVE \E b \in B : g \in TitleGroups(b)
    OBVIOUS
  <2>1. [titles |-> {g}, style |-> Default] \in B
    BY DEF DefaultGroups
  <2>2. g \in TitleGroups([titles |-> {g}, style |-> Default])
    BY DEF TitleGroups
  <2> QED BY <2>1, <2>2
<1> HIDE DEF L, base, A, B, val
<1>5. /\ DS \in Seq(A) /\ HoldLists(A, "groups", B)
      /\ \A a \in A : a.groups \in Seq(B) /\ ToSet(a.groups) = B
  BY DefaultLists, DefaultSectionsAre DEF A, B
<1>6. /\ Styles(base, DS) \in [Outputs -> [Groups -> L]]
      /\ \A o \in Outputs, g \in Groups :
           Styles(base, DS)[o][g] = Written(Naming(GroupsOf(DS, A, o), B, g), val, base[o][g])
  BY <1>1, <1>5, StylesAre DEF val
<1>7. ASSUME NEW o \in Outputs, NEW g \in Groups
      PROVE  Styles(base, DS)[o][g] = Default
  <2> DEFINE S == {a \in A : o \in TitleOutputs(a)}
             q == Keep(DS, S)
             p == GroupsOf(DS, A, o)
             N == {b \in B : g \in TitleGroups(b)}
             d == DefaultScreen(o)
  <2>1. d \in ToSet(q) /\ d \in A
    <3>1. d \in ToSet(DS) /\ d \in S /\ d \in A
      BY DefaultLists, DefaultSectionsAre DEF A, DefaultSections
    <3> HIDE DEF S, d
    <3> QED BY <1>5, <3>1, KeptElements
  <2>2. q \in Seq(A)
    BY <1>5, KeepEqual
  <2>3. p = Joined(q, "groups") /\ p \in Seq(B)
    <3> HIDE DEF q
    <3>1. Joined(q, "groups") \in Seq(B)
      BY <1>5, <2>2, JoinedType
    <3> QED BY <3>1 DEF GroupsOf, q
  <2>4. PICK b \in B : g \in TitleGroups(b)
    BY <1>4
  <2>5. b \in ToSet(d["groups"])
    BY <1>5, <2>1
  <2>6. b \in ToSet(p) \cap N
    <3>1. b \in N
      BY <2>4
    <3> HIDE DEF q, d, N, p
    <3> QED BY <1>5, <2>1, <2>2, <2>3, <2>5, <3>1, JoinedHas
  <2>7. Naming(p, B, g) # <<>> /\ Last(Naming(p, B, g)) \in B
    <3>1. Keep(p, N) # <<>> /\ Last(Keep(p, N)) \in ToSet(p) \cap N
      <4> HIDE DEF p, N
      <4> QED BY <2>3, <2>6, LastKept
    <3> QED BY <3>1 DEF Naming
  <2>8. val[Last(Naming(p, B, g))] = Default
    <3> HIDE DEF p
    <3> QED BY <1>3, <2>7 DEF val, Values
  <2> QED BY <1>6, <2>7, <2>8 DEF Written
<1> QED
  BY <1>2, <1>6, <1>7 DEF L

\* What the user's sections make of the defaults
LEMMA ScreensRead ==
  ASSUME file \in Files \cup {None}, conf = Read(file), phase = "running"
  PROVE  ScreensAsWritten
<1> DEFINE all == Sections(UserFile, "screen")
           A == {s \in ToSet(UserFile) : s.kind = "screen"}
           B == Holds(UserFile, "screen", "groups")
           looks == {NotSet, Default} \cup {a.look : a \in A}
           styles == {NotSet, Default} \cup {b.style : b \in B}
           valL == Values(A, "look")
           valS == Values(B, "style")
           DL == DefaultConf.look
           DS == DefaultConf.style
<1>1. all \in Seq(A) /\ HoldLists(A, "groups", B)
  <2>1. IsFile(UserFile)
    BY UserFileType
  <2>2. IsList(UserFile) /\ \A s \in ToSet(UserFile) : s.kind = "screen" => IsList(s["groups"])
    BY <2>1 DEF IsFile
  <2> QED BY <2>2, SectionsType, SectionsHold
<1>2. HoldValues(A, "look", looks) /\ HoldValues(B, "style", styles)
  BY DEF HoldValues
<1> HIDE DEF all, A, B, DL, DS
<1>3. DL \in [Outputs -> looks] /\ \A o \in Outputs : DL[o] = Default
  BY DefaultLook DEF DL
<1>4. DS \in [Outputs -> [Groups -> styles]] /\ \A o \in Outputs, g \in Groups : DS[o][g] = Default
  BY DefaultStyle DEF DS
<1> HIDE DEF looks, styles
<1>5. \A o \in Outputs : Looks(DL, all)[o] =
        Written(Keep(all, {a \in A : o \in TitleOutputs(a)}), valL, DL[o])
  BY <1>1, <1>2, <1>3, LooksAre
<1>6. \A o \in Outputs, g \in Groups : Styles(DS, all)[o][g] =
        Written(Naming(GroupsOf(all, A, o), B, g), valS, DS[o][g])
  BY <1>1, <1>2, <1>4, StylesAre
<1> HIDE DEF valL, valS
<1>7. /\ \A o \in Outputs : conf.look[o] =
            Written(Keep(all, {a \in A : o \in TitleOutputs(a)}), valL, Default)
      /\ \A o \in Outputs, g \in Groups : conf.style[o][g] =
            Written(Naming(GroupsOf(all, A, o), B, g), valS, Default)
  <2>1. CASE Applies(file)
    <3>1. conf.look = Looks(DL, all) /\ conf.style = Styles(DS, all)
      BY <2>1, UserFields DEF Read, UserFile, all, DL, DS
    <3> QED BY <1>3, <1>4, <1>5, <1>6, <3>1
  <2>2. CASE ~Applies(file)
    <3>1. conf.look = DL /\ conf.style = DS
      BY <2>2 DEF Read, DL, DS
    <3>2. all = <<>>
      BY <2>2, ItemsOfNone DEF all, UserFile
    <3>3. \A o \in Outputs : Keep(all, {a \in A : o \in TitleOutputs(a)}) = <<>>
      BY <3>2, KeepEmpty
    <3>4. \A o \in Outputs, g \in Groups : Naming(GroupsOf(all, A, o), B, g) = <<>>
      BY <3>2, KeepEmpty, JoinedEmpty DEF Naming, GroupsOf
    <3> QED BY <1>3, <1>4, <3>1, <3>3, <3>4 DEF Written
  <2> QED BY <2>1, <2>2
<1>8. ASSUME NEW o \in Outputs
      PROVE  LET mine == Keep(all, {s \in ToSet(all) : o \in TitleOutputs(s)})
                 groups == FlattenSeq([i \in DOMAIN mine |-> mine[i].groups])
                 Of(g) == Keep(groups, {l \in ToSet(groups) : g \in TitleGroups(l)})
             IN  /\ conf.look[o] = IF mine = <<>> THEN Default ELSE Last(mine).look
                 /\ \A g \in Groups :
                      conf.style[o][g] = IF Of(g) = <<>> THEN Default ELSE Last(Of(g)).style
  <2> DEFINE mine == Keep(all, {s \in ToSet(all) : o \in TitleOutputs(s)})
             groups == FlattenSeq([i \in DOMAIN mine |-> mine[i].groups])
             S == {a \in A : o \in TitleOutputs(a)}
             W == {s \in ToSet(all) : o \in TitleOutputs(s)}
  <2>1. Keep(all, S) = mine /\ mine \in Seq(A)
    <3>1. \A i \in DOMAIN all : all[i] \in A /\ all[i] \in ToSet(all)
      BY <1>1 DEF ToSet
    <3>2. \A i \in DOMAIN all : all[i] \in W <=> all[i] \in S
      BY <3>1
    <3> HIDE DEF S, W
    <3>3. Keep(all, W) = Keep(all, S) /\ Keep(all, W) \in Seq(A)
      BY <1>1, <3>2, KeepEqual
    <3> QED BY <3>3 DEF W
  <2> HIDE DEF mine
  <2>2. groups = Joined(mine, "groups") /\ groups = GroupsOf(all, A, o)
    BY <2>1 DEF Joined, GroupsOf
  <2>3. groups \in Seq(B)
    <3> HIDE DEF groups
    <3> QED BY <1>1, <2>1, <2>2, JoinedType
  <2> HIDE DEF groups
  <2>4. conf.look[o] = IF mine = <<>> THEN Default ELSE Last(mine).look
    <3>1. mine # <<>> => Last(mine) \in A
      BY <2>1, LastIn
    <3>2. mine # <<>> => valL[Last(mine)] = Last(mine).look
      BY <3>1 DEF valL, Values
    <3> QED BY <1>7, <2>1, <3>2 DEF Written
  <2>5. ASSUME NEW g \in Groups
        PROVE  LET of == Keep(groups, {l \in ToSet(groups) : g \in TitleGroups(l)})
               IN  conf.style[o][g] = IF of = <<>> THEN Default ELSE Last(of).style
    <3> DEFINE G == {l \in ToSet(groups) : g \in TitleGroups(l)}
               N == {b \in B : g \in TitleGroups(b)}
               of == Keep(groups, G)
    <3>1. \A i \in DOMAIN groups : groups[i] \in B /\ groups[i] \in ToSet(groups)
      BY <2>3 DEF ToSet
    <3>2. \A i \in DOMAIN groups : groups[i] \in G <=> groups[i] \in N
      BY <3>1
    <3>3. of = Keep(groups, N) /\ of \in Seq(B)
      <4> HIDE DEF G, N
      <4> QED BY <2>3, <3>2, KeepEqual
    <3>4. of # <<>> => Last(of) \in B
      <4> HIDE DEF of
      <4> QED BY <3>3, LastIn
    <3>5. of # <<>> => valS[Last(of)] = Last(of).style
      <4> HIDE DEF of
      <4> QED BY <3>4 DEF valS, Values
    <3>6. conf.style[o][g] = Written(of, valS, Default)
      BY <1>7, <2>2, <3>3 DEF Naming
    <3> HIDE DEF of
    <3>7. conf.style[o][g] = IF of = <<>> THEN Default ELSE Last(of).style
      BY <3>5, <3>6 DEF Written
    <3> QED BY <3>7 DEF of
  <2> QED BY <2>4, <2>5 DEF mine, groups
<1> QED
  BY <1>8, Zenon DEF ScreensAsWritten, all

-----------------------------------------------------------------------------
\* A list with one more, mapped
LEMMA MapAppend ==
  ASSUME NEW A, NEW E, NEW val \in [A -> E], NEW s \in Seq(A), NEW a \in A
  PROVE  /\ [i \in DOMAIN s |-> val[s[i]]] \in Seq(E)
         /\ [i \in DOMAIN Append(s, a) |-> val[Append(s, a)[i]]]
              = Append([i \in DOMAIN s |-> val[s[i]]], val[a])
<1> DEFINE u == Append(s, a)
           n == Len(s)
           p == [i \in DOMAIN s |-> val[s[i]]]
           v == [i \in DOMAIN u |-> val[u[i]]]
           w == Append(p, val[a])
<1>1. /\ u \in Seq(A) /\ Len(u) = n + 1 /\ u[n + 1] = a /\ n \in Nat
      /\ \A i \in 1 .. n : u[i] = s[i] /\ s[i] \in A
      /\ DOMAIN s = 1 .. n /\ DOMAIN u = 1 .. n + 1
  OBVIOUS
<1> HIDE DEF u, n
<1>2. /\ DOMAIN p = 1 .. n /\ \A i \in 1 .. n : p[i] = val[s[i]]
      /\ DOMAIN v = 1 .. n + 1 /\ \A i \in 1 .. n + 1 : v[i] = val[u[i]]
  BY <1>1
<1>3. p \in Seq(E) /\ v \in Seq(E) /\ val[a] \in E
  <2>1. \A i \in 1 .. n + 1 : u[i] \in A
    BY <1>1
  <2>2. \A i \in 1 .. n : p[i] \in E
    <3> HIDE DEF p
    <3> QED BY <1>1, <1>2
  <2>3. \A i \in 1 .. n + 1 : v[i] \in E
    <3> HIDE DEF v
    <3> QED BY <1>2, <2>1
  <2>4. p = [i \in 1 .. n |-> p[i]] /\ v = [i \in 1 .. n + 1 |-> v[i]]
    BY <1>1
  <2>5. ASSUME NEW m \in Nat, NEW f, f = [i \in 1 .. m |-> f[i]], \A i \in 1 .. m : f[i] \in E
        PROVE  f \in Seq(E)
    BY <2>5
  <2>6. n + 1 \in Nat /\ val[a] \in E
    BY <1>1
  <2> HIDE DEF p, v
  <2>7. p \in Seq(E)
    BY <1>1, <2>2, <2>4, <2>5
  <2>8. v \in Seq(E)
    BY <2>3, <2>4, <2>5, <2>6
  <2> QED BY <2>6, <2>7, <2>8
<1> HIDE DEF p, v
<1>4. Len(p) = n /\ Len(v) = n + 1
  BY <1>1, <1>2, <1>3
<1>5. w \in Seq(E) /\ Len(w) = n + 1 /\ w[n + 1] = val[a] /\ \A i \in 1 .. n : w[i] = p[i]
  BY <1>1, <1>3, <1>4
<1> HIDE DEF w
<1>6. \A i \in 1 .. n + 1 : v[i] = w[i]
  <2>1. \A i \in 1 .. n + 1 : i = n + 1 \/ i \in 1 .. n
    BY <1>1
  <2> QED BY <1>1, <1>2, <1>5, <2>1
<1>7. v = w
  BY <1>3, <1>4, <1>5, <1>6
<1> QED
  BY <1>3, <1>7 DEF p, v, w, u

\* The directive of a client section, as group_autogroup keeps it
Directive(cl) == [name |-> cl.name, class |-> cl.class, num |-> GroupNumber(cl.autogroup)]
DirectivesOf(q) == [i \in DOMAIN q |-> Directive(q[i])]

\* One more client section is one more directive.
LEMMA DirectivesAppend ==
  ASSUME NEW A, NEW s \in Seq(A), NEW a \in A
  PROVE  /\ DirectivesOf(s) \in Seq({Directive(b) : b \in A})
         /\ DirectivesOf(Append(s, a)) = Append(DirectivesOf(s), Directive(a))
<1> DEFINE E == {Directive(b) : b \in A}
           val == [b \in A |-> Directive(b)]
           u == Append(s, a)
<1>1. val \in [A -> E] /\ \A b \in A : val[b] = Directive(b)
  OBVIOUS
<1>2. u \in Seq(A)
  OBVIOUS
<1> HIDE DEF val, E
<1>3. \A t \in Seq(A) : DirectivesOf(t) = [i \in DOMAIN t |-> val[t[i]]]
  <2> SUFFICES ASSUME NEW t \in Seq(A) PROVE DirectivesOf(t) = [i \in DOMAIN t |-> val[t[i]]]
    OBVIOUS
  <2>1. \A i \in DOMAIN t : val[t[i]] = Directive(t[i])
    BY <1>1
  <2> QED BY <2>1 DEF DirectivesOf
<1>4. /\ [i \in DOMAIN s |-> val[s[i]]] \in Seq(E)
      /\ [i \in DOMAIN u |-> val[u[i]]] = Append([i \in DOMAIN s |-> val[s[i]]], val[a])
  BY <1>1, MapAppend
<1> HIDE DEF u
<1>5. DirectivesOf(s) \in Seq(E) /\ DirectivesOf(u) = Append(DirectivesOf(s), Directive(a))
  BY <1>1, <1>2, <1>3, <1>4
<1> QED
  BY <1>5 DEF u, E

\* The clients of one class and name, and the group of the last of some
Named(q, A, class, name) == Keep(q, {l \in A : l.class = class /\ l.name = name})
LastGroup(q) == GroupNumber(Last(q).autogroup)
SpecificGroup(q, A, name, class) ==
  IF Named(q, A, class, name) # <<>> THEN LastGroup(Named(q, A, class, name))
  ELSE IF Named(q, A, class, None) # <<>> THEN LastGroup(Named(q, A, class, None)) ELSE None

\* group_autogroup over the directives of clients finds the last for the name and
\* class, or else the last for the class.
LEMMA SpecificWins ==
  ASSUME NEW A, NEW q \in Seq(A), NEW name, NEW class
  PROVE  AutogroupNum(DirectivesOf(q), name, class) = SpecificGroup(q, A, name, class)
<1> DEFINE E == {Directive(b) : b \in A}
           T == [num : Groups \cup {None}, both : BOOLEAN]
           base == [num |-> None, both |-> FALSE]
           step == [p \in T \X E |-> AutogroupStep(p[1], p[2], name, class)]
           K(s, n) == Named(s, A, class, n)
<1>1. \A e \in E : e.num \in Groups
  BY GroupsAssumption DEF Directive, GroupNumber
<1>2. ASSUME NEW t \in T, NEW e \in E
      PROVE  AutogroupStep(t, e, name, class) \in T
  <2>1. e.num \in Groups
    BY <1>1
  <2> QED BY <2>1 DEF AutogroupStep
<1>3. base \in T
  OBVIOUS
<1> HIDE DEF T, E
<1>4. IsDirective(name, class, step, E, T) /\ step \in [T \X E -> T]
  BY <1>2 DEF IsDirective
<1>5. \A t \in T, e \in E : step[<<t, e>>] = AutogroupStep(t, e, name, class)
  OBVIOUS
<1> HIDE DEF step, base
<1>6. PICK F : FoldsTo(F, E, T, base, step)
  BY <1>3, <1>4, FoldExists
<1> DEFINE acc(s) == F[DirectivesOf(s)]
           U == {s \in Seq(A) : /\ acc(s).both <=> K(s, name) # <<>>
                                /\ acc(s).num = SpecificGroup(s, A, name, class)}
<1>7. <<>> \in U
  <2>1. DirectivesOf(<<>>) = <<>>
    BY DEF DirectivesOf
  <2>2. acc(<<>>) = base
    BY <1>6, <2>1 DEF FoldsTo
  <2>3. \A n : K(<<>>, n) = <<>>
    BY KeepEmpty DEF Named
  <2> QED BY <2>2, <2>3 DEF base, SpecificGroup
<1>8. ASSUME NEW s \in Seq(A), NEW a \in A, s \in U
      PROVE  Append(s, a) \in U
  <2> DEFINE u == Append(s, a)
             e == Directive(a)
             old == acc(s)
             new == acc(u)
  <2>1. /\ DirectivesOf(s) \in Seq(E) /\ e \in E
        /\ DirectivesOf(u) = Append(DirectivesOf(s), e)
    BY DirectivesAppend DEF E
  <2>2. old \in T /\ new = AutogroupStep(old, e, name, class)
    <3>1. /\ F[Append(DirectivesOf(s), e)] = step[<<F[DirectivesOf(s)], e>>]
          /\ F[DirectivesOf(s)] \in T
      BY <1>6, <2>1 DEF FoldsTo
    <3> QED BY <1>5, <2>1, <3>1
  <2>3. ASSUME NEW n
        PROVE  K(u, n) = IF a.class = class /\ a.name = n THEN Append(K(s, n), a) ELSE K(s, n)
    <3> DEFINE S == {l \in A : l.class = class /\ l.name = n}
    <3>1. a \in S <=> a.class = class /\ a.name = n
      OBVIOUS
    <3>2. Keep(u, S) = IF a \in S THEN Append(Keep(s, S), a) ELSE Keep(s, S)
      BY KeepAppend
    <3> HIDE DEF u
    <3> QED BY <3>1, <3>2 DEF Named
  <2>4. ASSUME NEW n
        PROVE  Append(K(s, n), a) # <<>> /\ LastGroup(Append(K(s, n), a)) = e.num
    <3>1. K(s, n) \in Seq(A)
      BY KeepEqual DEF Named
    <3> QED BY <3>1, LastAppend DEF LastGroup, Directive
  <2>5. /\ e.name = a.name /\ e.class = a.class
    BY DEF Directive
  <2>6. /\ old.both <=> K(s, name) # <<>>
        /\ old.num = SpecificGroup(s, A, name, class)
    BY <1>8
  <2>7. u \in Seq(A)
    OBVIOUS
  <2> HIDE DEF U, u, e, old, new
  <2>8. /\ new.both <=> K(u, name) # <<>>
        /\ new.num = SpecificGroup(u, A, name, class)
    <3>1. CASE a.class # class
      <4>1. new = old /\ \A n : K(u, n) = K(s, n)
        BY <2>2, <2>3, <2>5, <3>1 DEF AutogroupStep
      <4> QED BY <2>6, <4>1 DEF SpecificGroup
    <3>2. CASE a.class = class /\ a.name = name
      <4>1. new = [num |-> e.num, both |-> TRUE] /\ K(u, name) = Append(K(s, name), a)
        BY <2>2, <2>3, <2>5, <3>2 DEF AutogroupStep
      <4> QED BY <2>4, <4>1 DEF SpecificGroup
    <3>3. CASE a.class = class /\ a.name # name
      <4>1. K(u, name) = K(s, name)
        BY <2>3, <3>3
      <4>2. CASE a.name = None
        <5>1. K(u, None) = Append(K(s, None), a)
          BY <2>3, <3>3, <4>2
        <5>2. new = IF ~old.both THEN [old EXCEPT !.num = e.num] ELSE old
          BY <2>2, <2>5, <3>3, <4>2 DEF AutogroupStep
        <5>3. CASE old.both
          BY <2>6, <4>1, <5>2, <5>3 DEF SpecificGroup
        <5>4. CASE ~old.both
          <6>1. new.num = e.num /\ new.both = old.both
            BY <2>2, <5>2, <5>4 DEF T
          <6> QED BY <2>4, <2>6, <4>1, <5>1, <5>4, <6>1 DEF SpecificGroup
        <5> QED BY <5>3, <5>4
      <4>3. CASE a.name # None
        <5>1. K(u, None) = K(s, None) /\ new = old
          BY <2>2, <2>3, <2>5, <3>3, <4>3 DEF AutogroupStep
        <5> QED BY <2>6, <4>1, <5>1 DEF SpecificGroup
      <4> QED BY <4>2, <4>3
    <3> QED BY <3>1, <3>2, <3>3
  <2> QED BY <2>7, <2>8 DEF U, new, u
<1> HIDE DEF U
<1>9. q \in U
  BY <1>7, <1>8, SeqSets
<1>10. DirectivesOf(q) \in Seq(E)
  <2>1. A = {} \/ \E a : a \in A
    OBVIOUS
  <2>2. CASE A = {}
    BY <2>2 DEF DirectivesOf
  <2>3. CASE \E a : a \in A
    BY <2>3, DirectivesAppend DEF E
  <2> QED BY <2>1, <2>2, <2>3
<1>11. AutogroupNum(DirectivesOf(q), name, class) = F[DirectivesOf(q)].num
  <2>1. Directives(base, DirectivesOf(q), name, class) = F[DirectivesOf(q)]
    BY <1>3, <1>4, <1>6, <1>10, AutogroupFold
  <2>2. AutogroupNum(DirectivesOf(q), name, class)
          = Directives(base, DirectivesOf(q), name, class).num
    BY Zenon DEF AutogroupNum, Directives, base
  <2> QED BY <2>1, <2>2
<1> QED
  BY <1>9, <1>11 DEF U

\* The directives kept are those of the file: the defaults have none.
LEMMA AutogroupsRead ==
  ASSUME file \in Files \cup {None}
  PROVE  Read(file).autogroups = AutogroupsOf(UserFile)
<1>1. AutogroupsOf(DefaultRest) = <<>> /\ AutogroupsOf(<<>>) = <<>>
  <2> DEFINE none == <<>>
  <2>1. ClientsOf(DefaultRest) = none /\ ClientsOf(none) = none
    BY DefaultItems, ItemsOfNone DEF ClientsOf
  <2>2. \A S : Keep(none, S) = none
    BY KeepEmpty
  <2>3. [i \in DOMAIN none |-> [name |-> none[i].name, class |-> none[i].class,
                                num |-> GroupNumber(none[i].autogroup)]] = <<>>
    OBVIOUS
  <2> HIDE DEF none
  <2>4. AutogroupsOf(DefaultRest) = <<>> /\ AutogroupsOf(none) = <<>>
    BY <2>1, <2>2, <2>3 DEF AutogroupsOf
  <2> QED BY <2>4 DEF none
<1> DEFINE q == AutogroupsOf(UserFile)
<1>2. <<>> \o q = q /\ <<>> \o <<>> = <<>>
  <2>1. q \in Seq({q[i] : i \in DOMAIN q})
    <3>1. \E s \in Seq(ToSet(ClientsOf(UserFile))) : q = DirectivesOf(s)
      <4> DEFINE S == {cl \in ToSet(ClientsOf(UserFile)) : cl.autogroup # None}
                 s == Keep(ClientsOf(UserFile), S)
      <4>1. ClientsOf(UserFile) \in Seq(Holds(UserFile, "clients", "clients"))
        <5>1. /\ IsList(UserFile)
              /\ \A x \in ToSet(UserFile) : x.kind = "clients" => IsList(x["clients"])
          BY UserFileType DEF IsFile
        <5> QED BY <5>1, ItemsType DEF ClientsOf
      <4>2. ClientsOf(UserFile) \in Seq(ToSet(ClientsOf(UserFile)))
        BY <4>1 DEF ToSet
      <4> HIDE DEF S
      <4>3. s \in Seq(ToSet(ClientsOf(UserFile)))
        BY <4>2, KeepEqual
      <4>4. q = DirectivesOf(s)
        BY DEF AutogroupsOf, DirectivesOf, Directive, S
      <4> QED BY <4>3, <4>4
    <3>2. PICK s \in Seq(ToSet(ClientsOf(UserFile))) : q = DirectivesOf(s)
      BY <3>1
    <3>3. Len(s) \in Nat /\ DOMAIN s = 1 .. Len(s)
      OBVIOUS
    <3> HIDE DEF q
    <3>4. DOMAIN q = 1 .. Len(s) /\ q = [i \in 1 .. Len(s) |-> q[i]]
      BY <3>2, <3>3 DEF DirectivesOf
    <3> QED BY <3>3, <3>4
  <2> HIDE DEF q
  <2> QED BY <2>1, ConcatEmpty
<1>3. DefaultConf.autogroups = <<>>
  BY <1>1, <1>2, DefaultFields
<1>4. CASE Applies(file)
  BY <1>2, <1>3, <1>4, UserFields DEF Read, UserFile
<1>5. CASE ~Applies(file)
  BY <1>1, <1>3, <1>5 DEF Read, UserFile
<1> QED
  BY <1>4, <1>5

\* The group of a client is the one its lines give.
LEMMA SpecificRead ==
  ASSUME Reads
  PROVE  MostSpecificWins
<1> SUFFICES ASSUME client # None PROVE MostSpecificWins
  BY DEF MostSpecificWins
<1> DEFINE L == ClientsOf(UserFile)
           A == ToSet(L)
           q == Keep(L, {cl \in ToSet(L) : cl.autogroup # None})
           lines == Keep(L, {l \in ToSet(L) : l.autogroup # None /\ l.class = client.class})
           Of(name) == Keep(lines, {l \in ToSet(lines) : l.name = name})
<1>1. client.num = AutogroupNum(Read(file).autogroups, client.name, client.class)
  BY DEF Reads
<1>2. L \in Seq(A)
  <2>1. IsFile(UserFile)
    BY UserFileType DEF Reads
  <2>2. IsList(UserFile) /\ \A x \in ToSet(UserFile) : x.kind = "clients" => IsList(x["clients"])
    BY <2>1 DEF IsFile
  <2>3. L \in Seq(Holds(UserFile, "clients", "clients"))
    BY <2>2, ItemsType DEF ClientsOf
  <2> QED BY <2>3 DEF ToSet
<1>3. Read(file).autogroups = DirectivesOf(q)
  BY AutogroupsRead DEF Reads, AutogroupsOf, DirectivesOf, Directive
<1> HIDE DEF L, A
<1>4. q \in Seq(A)
  BY <1>2, KeepEqual
<1>5. client.num = SpecificGroup(q, A, client.name, client.class)
  <2> HIDE DEF q
  <2> QED BY <1>1, <1>3, <1>4, SpecificWins
<1>6. ASSUME NEW n
      PROVE  Of(n) = Named(q, A, client.class, n)
  <2> DEFINE S == {cl \in ToSet(L) : cl.autogroup # None}
             C == {l \in ToSet(L) : l.autogroup # None /\ l.class = client.class}
             D == {l \in A : l.class = client.class}
             N == {l \in ToSet(lines) : l.name = n}
             M == {l \in A : l.name = n}
             DM == {l \in A : l.class = client.class /\ l.name = n}
  <2>1. \A i \in DOMAIN L : L[i] \in ToSet(L) /\ L[i] \in A
    BY <1>2 DEF ToSet
  <2>2. lines = Keep(q, D)
    <3>1. \A i \in DOMAIN L : L[i] \in C <=> L[i] \in S \cap D
      BY <2>1
    <3> HIDE DEF S, C, D
    <3>2. Keep(L, C) = Keep(L, S \cap D)
      BY <1>2, <3>1, KeepEqual
    <3>3. Keep(Keep(L, S), D) = Keep(L, S \cap D)
      BY <1>2, KeepKeep
    <3> QED BY <3>2, <3>3 DEF C, S
  <2>3. lines \in Seq(A)
    <3> HIDE DEF D, q, lines
    <3> QED BY <1>4, <2>2, KeepEqual
  <2> HIDE DEF lines, q
  <2>4. \A i \in DOMAIN lines : lines[i] \in ToSet(lines) /\ lines[i] \in A
    BY <2>3 DEF ToSet
  <2>5. \A i \in DOMAIN lines : lines[i] \in N <=> lines[i] \in M
    BY <2>4
  <2>6. Keep(lines, N) = Keep(lines, M)
    <3> HIDE DEF N, M
    <3> QED BY <2>3, <2>5, KeepEqual
  <2>7. Keep(Keep(q, D), M) = Keep(q, D \cap M)
    <3> HIDE DEF D, M
    <3> QED BY <1>4, KeepKeep
  <2>8. D \cap M = DM
    OBVIOUS
  <2> HIDE DEF D, M, DM
  <2> QED BY <2>2, <2>6, <2>7, <2>8 DEF Named, DM
<1> HIDE DEF lines, q
<1>7. client.num = IF Of(client.name) # <<>> THEN LastGroup(Of(client.name))
                   ELSE IF Of(None) # <<>> THEN LastGroup(Of(None)) ELSE None
  BY <1>5, <1>6 DEF SpecificGroup
<1> QED
  BY <1>7, Zenon DEF MostSpecificWins, LastGroup, lines, L

-----------------------------------------------------------------------------
\* What the clients of a file make rules of
Lines(A) ==
  {l \in [client : A, class : {RuleKey(cl) : cl \in A}, event : RuleTitles,
           action : UNION {UNION {ToSet(r.commands) : r \in ToSet(cl.rules)} : cl \in A}] :
     l.class = RuleKey(l.client)}

AreClients(A) ==
  \A cl \in A : IsList(cl.rules) /\ \A l \in ToSet(cl.rules) : IsList(l.commands)

\* Lists over a set join to one.
LEMMA FlattenType ==
  ASSUME NEW A, NEW ss \in Seq(Seq(A))
  PROVE  FlattenSeq(ss) \in Seq(A)
<1>1. <<>> \in Seq(A)
  OBVIOUS
<1> QED
  BY <1>1, FlattenAppend

\* config_intern_clients, the rules of one client
LEMMA RuleLinesType ==
  ASSUME NEW A, AreClients(A), NEW cl \in A
  PROVE  RuleLines(cl) \in Seq(Lines(A))
<1> DEFINE X == Lines(A)
           rules == cl.rules
           Of(r) == [i \in DOMAIN rules[r].commands |->
                       [client |-> cl, class |-> RuleKey(cl), event |-> rules[r].event,
                        action |-> rules[r].commands[i]]]
           ss == [r \in DOMAIN rules |-> IF rules[r].event \notin RuleTitles THEN <<>> ELSE Of(r)]
<1>1. rules \in Seq(ToSet(rules)) /\ \A l \in ToSet(rules) : l.commands \in Seq(ToSet(l.commands))
  BY DEF AreClients, IsList
<1>2. Len(rules) \in Nat /\ DOMAIN rules = 1 .. Len(rules)
  BY <1>1
<1>3. ASSUME NEW r \in DOMAIN rules, rules[r].event \in RuleTitles
      PROVE  Of(r) \in Seq(X)
  <2> DEFINE l == rules[r]
             cs == l.commands
  <2>1. l \in ToSet(rules) /\ cs \in Seq(ToSet(cs))
    BY <1>1 DEF ToSet
  <2>2. Len(cs) \in Nat /\ DOMAIN cs = 1 .. Len(cs) /\ \A i \in DOMAIN cs : cs[i] \in ToSet(cs)
    BY <2>1
  <2>3. ToSet(cs) \subseteq UNION {UNION {ToSet(k.commands) : k \in ToSet(c.rules)} : c \in A}
    BY <2>1
  <2>4. ASSUME NEW i \in DOMAIN cs
        PROVE  [client |-> cl, class |-> RuleKey(cl), event |-> l.event,
                action |-> cs[i]] \in X
    BY <1>3, <2>2, <2>3 DEF Lines
  <2> HIDE DEF X, l, cs
  <2>5. [i \in DOMAIN cs |->
           [client |-> cl, class |-> RuleKey(cl), event |-> l.event,
            action |-> cs[i]]] \in Seq(X)
    BY <2>2, <2>4
  <2> QED BY <2>5 DEF cs, l
<1> HIDE DEF Of, X
<1>4. ss \in Seq(Seq(X))
  <2>1. <<>> \in Seq(X)
    OBVIOUS
  <2>2. \A r \in DOMAIN rules : ss[r] \in Seq(X)
    BY <1>3, <2>1
  <2>3. DOMAIN ss = 1 .. Len(rules) /\ ss = [r \in DOMAIN rules |-> ss[r]]
    BY <1>2
  <2> HIDE DEF ss
  <2> QED BY <1>2, <2>2, <2>3
<1>5. RuleLines(cl) = FlattenSeq(ss)
  BY Zenon DEF RuleLines, Of
<1> HIDE DEF ss
<1> QED
  BY <1>4, <1>5, FlattenType DEF X

\* The lines of all clients of a file
LEMMA RuleLinesOfType ==
  ASSUME NEW f, NEW A, AreClients(A), ClientsOf(f) \in Seq(A)
  PROVE  RuleLinesOf(f) \in Seq(Lines(A))
<1> DEFINE X == Lines(A)
           q == ClientsOf(f)
           ss == [i \in DOMAIN q |-> RuleLines(q[i])]
<1>1. Len(q) \in Nat /\ DOMAIN q = 1 .. Len(q) /\ \A i \in DOMAIN q : q[i] \in A
  OBVIOUS
<1>2. \A i \in DOMAIN q : ss[i] \in Seq(X)
  BY <1>1, RuleLinesType
<1>3. DOMAIN ss = 1 .. Len(q) /\ ss = [i \in 1 .. Len(q) |-> ss[i]]
  BY <1>1
<1>4. RuleLinesOf(f) = FlattenSeq(ss)
  BY DEF RuleLinesOf
<1> HIDE DEF ss, X, q
<1>5. ss \in Seq(Seq(X))
  BY <1>1, <1>2, <1>3
<1> QED
  BY <1>4, <1>5, FlattenType DEF X

\* The commands of the lines for a class and an event
Wanted(X, class, event) ==
  {l \in X : l.class = class /\ l.event = event /\ l.action \in NameToFunc}
Actions(q) == [j \in DOMAIN q |-> q[j].action]

\* A rule for every pair of a class and an event, and no second one
OneRuleEach(q) ==
  \A i, j \in DOMAIN q : q[i].class = q[j].class /\ q[i].event = q[j].event => i = j

\* The rule for a pair has the commands that acts lists; there is one if any are.
RulesHave(q, class, event, acts) ==
  /\ \A i \in RulesFor(q, class, event) : q[i].items = acts
  /\ RulesFor(q, class, event) = {} => acts = <<>>

Rules(X) == [class : {l.class : l \in X}, event : {l.event : l \in X},
             items : Seq({l.action : l \in X})]

\* rule_config finds the rule of a line or makes it.
LEMMA RuleLineAdds ==
  ASSUME NEW X, NEW q \in Seq(Rules(X)), NEW l \in X, OneRuleEach(q)
  PROVE  /\ RuleLine(q, l) \in Seq(Rules(X))
         /\ OneRuleEach(RuleLine(q, l))
         /\ \A class, event, acts :
              RulesHave(q, class, event, acts) =>
                RulesHave(RuleLine(q, l), class, event,
                          IF l.class = class /\ l.event = event /\ l.action \in NameToFunc
                          THEN Append(acts, l.action) ELSE acts)
<1> DEFINE R == Rules(X)
           p == RuleLine(q, l)
           n == Len(q)
           for == RulesFor(q, l.class, l.event)
           m == Min(for)
           new == [class |-> l.class, event |-> l.event, items |-> <<l.action>>]
           Acts == {k.action : k \in X}
           After(class, event, acts) ==
             IF l.class = class /\ l.event = event /\ l.action \in NameToFunc
             THEN Append(acts, l.action) ELSE acts
<1>1. n \in Nat /\ DOMAIN q = 1 .. n /\ \A i \in 1 .. n : q[i] \in R
  OBVIOUS
<1>2. CASE l.action \notin NameToFunc
  <2>1. p = q
    BY <1>2 DEF RuleLine, RuleConfig
  <2> QED BY <1>2, <2>1
<1>3. CASE l.action \in NameToFunc /\ for = {}
  <2>1. p = Append(q, new)
    BY <1>3 DEF RuleLine, RuleConfig
  <2>2. new \in R
    BY DEF Rules
  <2> HIDE DEF R
  <2>3. /\ p \in Seq(R) /\ DOMAIN p = 1 .. n + 1 /\ p[n + 1] = new
        /\ \A i \in 1 .. n : p[i] = q[i]
    BY <1>1, <2>1, <2>2
  <2>4. \A i : i \in 1 .. n + 1 <=> i \in 1 .. n \/ i = n + 1
    BY <1>1
  <2>5. \A i \in 1 .. n : ~(q[i].class = l.class /\ q[i].event = l.event)
    BY <1>1, <1>3 DEF RulesFor
  <2>6. new.class = l.class /\ new.event = l.event /\ new.items = <<l.action>>
    OBVIOUS
  <2> HIDE DEF p, new, for, n
  <2>7. OneRuleEach(p)
    <3> SUFFICES ASSUME NEW i \in DOMAIN p, NEW j \in DOMAIN p,
                        p[i].class = p[j].class, p[i].event = p[j].event
                 PROVE  i = j
      BY DEF OneRuleEach
    <3>1. CASE i \in 1 .. n /\ j \in 1 .. n
      BY <1>1, <2>3, <3>1 DEF OneRuleEach
    <3>2. CASE i = n + 1 /\ j \in 1 .. n
      BY <2>3, <2>5, <2>6, <3>2
    <3>3. CASE j = n + 1 /\ i \in 1 .. n
      BY <2>3, <2>5, <2>6, <3>3
    <3> QED BY <2>3, <2>4, <3>1, <3>2, <3>3
  <2>8. ASSUME NEW class, NEW event, NEW acts, RulesHave(q, class, event, acts)
        PROVE  RulesHave(p, class, event, After(class, event, acts))
    <3>1. CASE l.class = class /\ l.event = event
      <4>1. RulesFor(p, class, event) = {n + 1}
        BY <2>3, <2>4, <2>5, <2>6, <3>1 DEF RulesFor
      <4>2. acts = <<>>
        BY <1>3, <2>8, <3>1 DEF RulesHave, for
      <4>3. After(class, event, acts) = <<l.action>>
        BY <1>3, <3>1, <4>2
      <4> QED BY <2>3, <2>6, <4>1, <4>3 DEF RulesHave
    <3>2. CASE ~(l.class = class /\ l.event = event)
      <4>1. RulesFor(p, class, event) = RulesFor(q, class, event)
        BY <1>1, <2>3, <2>4, <2>6, <3>2 DEF RulesFor
      <4>2. \A i \in RulesFor(q, class, event) : p[i] = q[i]
        BY <1>1, <2>3 DEF RulesFor
      <4> QED BY <2>8, <3>2, <4>1, <4>2 DEF RulesHave
    <3> QED BY <3>1, <3>2
  <2> QED BY <2>3, <2>7, <2>8 DEF R, p
<1>4. CASE l.action \in NameToFunc /\ for # {}
  <2>1. p = [q EXCEPT ![m].items = Append(@, l.action)]
    BY <1>4 DEF RuleLine, RuleConfig
  <2>2. m \in for /\ m \in 1 .. n
    <3>1. for \subseteq 1 .. n /\ for \subseteq Nat
      BY <1>1 DEF RulesFor
    <3>2. m \in for
      <4> HIDE DEF for
      <4> QED BY <1>4, <3>1, LeastNat
    <3> QED BY <3>1, <3>2
  <2>3. q[m].class = l.class /\ q[m].event = l.event
    BY <2>2 DEF RulesFor
  <2> DEFINE r == [q[m] EXCEPT !.items = Append(@, l.action)]
  <2>4. /\ r \in R /\ r.class = q[m].class /\ r.event = q[m].event
        /\ r.items = Append(q[m].items, l.action)
    <3>1. q[m] \in R /\ l.action \in Acts
      BY <1>1, <2>2
    <3>2. q[m] = [class |-> q[m].class, event |-> q[m].event, items |-> q[m].items]
      BY <3>1 DEF Rules
    <3>3. q[m].class \in {k.class : k \in X} /\ q[m].event \in {k.event : k \in X}
      BY <3>1 DEF Rules
    <3>4. q[m].items \in Seq(Acts)
      BY <3>1 DEF Rules
    <3> DEFINE its == Append(q[m].items, l.action)
    <3>5. its \in Seq(Acts)
      <4> HIDE DEF Acts, m
      <4> QED BY <3>1, <3>4
    <3>6. r = [class |-> q[m].class, event |-> q[m].event, items |-> its]
      <4> HIDE DEF m
      <4>1. r = [q[m] EXCEPT !.items = its]
        OBVIOUS
      <4>2. ASSUME NEW c, NEW e, NEW i, NEW k, NEW z, z = [class |-> c, event |-> e, items |-> i]
            PROVE  [z EXCEPT !.items = k] = [class |-> c, event |-> e, items |-> k]
        BY <4>2
      <4> HIDE DEF its, r
      <4> QED BY <3>2, <4>1, <4>2
    <3> HIDE DEF its, r, m
    <3> QED BY <3>3, <3>5, <3>6 DEF Rules, its
  <2>5. p = [i \in 1 .. n |-> IF i = m THEN r ELSE q[i]]
    BY <1>1, <2>1, <2>2
  <2> HIDE DEF R, r, p, for, m
  <2>6. /\ DOMAIN p = 1 .. n /\ p[m] = r /\ \A i \in 1 .. n : i # m => p[i] = q[i]
        /\ \A i \in 1 .. n : p[i] \in R
    BY <1>1, <2>2, <2>4, <2>5
  <2>7. p \in Seq(R)
    BY <1>1, <2>5, <2>6
  <2>8. \A i \in 1 .. n : p[i].class = q[i].class /\ p[i].event = q[i].event
    BY <2>2, <2>4, <2>6
  <2> HIDE DEF n
  <2>9. OneRuleEach(p)
    BY <1>1, <2>6, <2>8 DEF OneRuleEach
  <2>10. \A class, event : RulesFor(p, class, event) = RulesFor(q, class, event)
    BY <1>1, <2>6, <2>8 DEF RulesFor
  <2>11. ASSUME NEW class, NEW event, NEW acts, RulesHave(q, class, event, acts)
         PROVE  RulesHave(p, class, event, After(class, event, acts))
    <3>1. CASE l.class = class /\ l.event = event
      <4>1. \A i \in RulesFor(q, class, event) : i = m
        BY <1>1, <2>2, <2>3, <3>1 DEF RulesFor, OneRuleEach
      <4>2. m \in RulesFor(q, class, event)
        BY <1>1, <2>2, <2>3, <3>1 DEF RulesFor
      <4>3. q[m].items = acts
        BY <2>11, <4>2 DEF RulesHave
      <4>4. p[m].items = After(class, event, acts)
        BY <1>4, <2>4, <2>6, <3>1, <4>3
      <4> HIDE DEF After
      <4> QED BY <2>10, <4>1, <4>2, <4>4 DEF RulesHave
    <3>2. CASE ~(l.class = class /\ l.event = event)
      <4>1. m \notin RulesFor(q, class, event)
        BY <2>3, <3>2 DEF RulesFor
      <4>2. \A i \in RulesFor(q, class, event) : i \in 1 .. n /\ p[i] = q[i]
        BY <1>1, <2>6, <4>1 DEF RulesFor
      <4> QED BY <2>10, <2>11, <3>2, <4>2 DEF RulesHave
    <3> QED BY <3>1, <3>2
  <2> QED BY <2>7, <2>9, <2>11 DEF R, p
<1> QED
  BY <1>2, <1>3, <1>4

\* rule_apply runs what the one rule for the pair has.
LEMMA ApplyIs ==
  ASSUME NEW X, NEW q \in Seq(Rules(X)), OneRuleEach(q), NEW class, NEW event, NEW acts,
         RulesHave(q, class, event, acts)
  PROVE  RuleApply(q, class, event) = acts
<1> DEFINE for == RulesFor(q, class, event)
           ss == [i \in DOMAIN q |-> IF i \in for THEN q[i].items ELSE <<>>]
           A == {l.action : l \in X}
           n == Len(q)
<1>1. n \in Nat /\ DOMAIN q = 1 .. n /\ \A i \in 1 .. n : q[i].items \in Seq(A)
  <2>1. n \in Nat /\ DOMAIN q = 1 .. n /\ \A i \in 1 .. n : q[i] \in Rules(X)
    OBVIOUS
  <2>2. \A r \in Rules(X) : r.items \in Seq(A)
    BY DEF Rules
  <2> HIDE DEF A, n
  <2> QED BY <2>1, <2>2
<1>2. ss \in Seq(Seq(A)) /\ DOMAIN ss = 1 .. n
  <2>1. DOMAIN ss = 1 .. n /\ ss = [i \in 1 .. n |-> ss[i]] /\ \A i \in 1 .. n : ss[i] \in Seq(A)
    BY <1>1
  <2> HIDE DEF ss, A, n
  <2> QED BY <1>1, <2>1
<1>3. RuleApply(q, class, event) = FlattenSeq(ss)
  BY Zenon DEF RuleApply
<1>4. CASE for = {}
  <2>1. \A i \in DOMAIN ss : ss[i] = IF i = 0 THEN <<>> ELSE <<>>
    BY <1>4
  <2> HIDE DEF ss, A
  <2>2. FlattenSeq(ss) = IF 0 \in DOMAIN ss THEN <<>> ELSE <<>>
    BY <1>2, <2>1, FlattenOne
  <2> QED BY <1>3, <1>4, <2>2 DEF RulesHave
<1>5. CASE for # {}
  <2>1. PICK k : k \in for
    BY <1>5
  <2>2. k \in DOMAIN q /\ q[k].items = acts
    BY <2>1 DEF RulesFor, RulesHave
  <2>3. \A i \in for : i = k
    BY <2>1 DEF RulesFor, OneRuleEach
  <2>4. \A i \in DOMAIN ss : ss[i] = IF i = k THEN acts ELSE <<>>
    <3> HIDE DEF for
    <3> QED BY <2>1, <2>2, <2>3
  <2>5. k \in DOMAIN ss
    BY <2>2
  <2> HIDE DEF ss, A
  <2>6. FlattenSeq(ss) = IF k \in DOMAIN ss THEN acts ELSE <<>>
    BY <1>2, <2>4, FlattenOne
  <2> QED BY <1>3, <2>5, <2>6
<1> QED
  BY <1>4, <1>5

\* After the lines of a file each class and event has its commands, in order.
LEMMA RulesFilled ==
  ASSUME NEW X, NEW s \in Seq(X), NEW class, NEW event
  PROVE  RuleApply(RuleQueue(<<>>, s), class, event) = Actions(Keep(s, Wanted(X, class, event)))
<1> DEFINE T == {q \in Seq(Rules(X)) : OneRuleEach(q)}
           none == <<>>
           step == [p \in T \X X |-> RuleLine(p[1], p[2])]
           W == Wanted(X, class, event)
           As == {l.action : l \in X}
           Now(t) == Actions(Keep(t, W))
<1>1. none \in T
  BY DEF OneRuleEach
<1>2. \A q \in T, l \in X : RuleLine(q, l) \in T
  BY RuleLineAdds
<1> HIDE DEF T
<1>3. IsRuleLine(step, X, T) /\ step \in [T \X X -> T]
  BY <1>2 DEF IsRuleLine
<1>4. \A q \in T, l \in X : step[<<q, l>>] = RuleLine(q, l)
  OBVIOUS
<1> HIDE DEF step
<1>5. PICK F : FoldsTo(F, X, T, none, step)
  BY <1>1, <1>3, FoldExists
<1> DEFINE U == {t \in Seq(X) : RulesHave(F[t], class, event, Now(t))}
<1>6. none \in U
  <2>1. Keep(none, W) = <<>>
    BY KeepEmpty
  <2>2. Now(none) = <<>>
    BY <2>1 DEF Actions
  <2>3. F[none] = <<>>
    BY <1>5 DEF FoldsTo
  <2>4. RulesFor(F[none], class, event) = {}
    BY <2>3 DEF RulesFor
  <2>5. none \in Seq(X)
    OBVIOUS
  <2> HIDE DEF Now, none
  <2> QED BY <2>2, <2>4, <2>5 DEF RulesHave
<1>7. ASSUME NEW t \in Seq(X), NEW l \in X, t \in U
      PROVE  Append(t, l) \in U
  <2> DEFINE u == Append(t, l)
             kept == Keep(t, W)
             acts == Now(t)
  <2>1. F[t] \in T /\ F[u] = step[<<F[t], l>>]
    BY <1>5 DEF FoldsTo
  <2>2. F[u] = RuleLine(F[t], l)
    BY <1>4, <2>1
  <2>3. RulesHave(F[t], class, event, acts)
    BY <1>7
  <2>4. l \in W <=> l.class = class /\ l.event = event /\ l.action \in NameToFunc
    BY DEF Wanted
  <2>5. F[t] \in Seq(Rules(X)) /\ OneRuleEach(F[t])
    BY <2>1 DEF T
  <2>6. RulesHave(F[u], class, event, IF l \in W THEN Append(acts, l.action) ELSE acts)
    <3> HIDE DEF acts, u, W, Now
    <3> QED BY <2>2, <2>3, <2>4, <2>5, RuleLineAdds
  <2>7. Keep(u, W) = IF l \in W THEN Append(kept, l) ELSE kept
    BY KeepAppend
  <2>8. Actions(Append(kept, l)) = Append(Actions(kept), l.action)
    <3> DEFINE val == [k \in X |-> k.action]
    <3>1. val \in [X -> As] /\ kept \in Seq(X) /\ val[l] = l.action
      BY KeepEqual
    <3>2. \A v \in Seq(X) : Actions(v) = [i \in DOMAIN v |-> val[v[i]]]
      <4> SUFFICES ASSUME NEW v \in Seq(X) PROVE Actions(v) = [i \in DOMAIN v |-> val[v[i]]]
        OBVIOUS
      <4>1. \A i \in DOMAIN v : v[i] \in X
        OBVIOUS
      <4> QED BY <4>1 DEF Actions
    <3>3. Append(kept, l) \in Seq(X)
      BY <3>1
    <3> HIDE DEF val, As, kept
    <3>4. [i \in DOMAIN Append(kept, l) |-> val[Append(kept, l)[i]]]
            = Append([i \in DOMAIN kept |-> val[kept[i]]], val[l])
      BY <3>1, MapAppend
    <3> QED BY <3>1, <3>2, <3>3, <3>4
  <2>9. u \in Seq(X)
    OBVIOUS
  <2>10. Now(u) = IF l \in W THEN Append(acts, l.action) ELSE acts
    <3> HIDE DEF u, W
    <3> QED BY <2>7, <2>8
  <2> HIDE DEF u, Now, W, acts
  <2> QED BY <2>6, <2>9, <2>10 DEF u
<1> HIDE DEF U
<1>8. s \in U
  BY <1>1, <1>6, <1>7, SeqSets DEF none
<1>9. F[s] \in Seq(Rules(X)) /\ OneRuleEach(F[s])
  BY <1>5 DEF FoldsTo, T
<1>10. RuleQueue(none, s) = F[s]
  BY <1>1, <1>3, <1>5, RuleFold
<1>11. RulesHave(F[s], class, event, Now(s))
  BY <1>8 DEF U
<1> HIDE DEF Now
<1>12. RuleApply(F[s], class, event) = Now(s)
  BY <1>9, <1>11, ApplyIs
<1> QED
  BY <1>10, <1>12 DEF Now, none

\* The rules run what the file says: the defaults have none.
LEMMA RulesRead ==
  ASSUME Reads, phase = "running"
  PROVE  RulesAsWritten
<1> DEFINE A == Holds(UserFile, "clients", "clients")
           X == Lines(A)
           all == RuleLinesOf(UserFile)
           Of(name, class, event) ==
             Keep(all, {l \in ToSet(all) :
                          /\ Matches(l.client, name, class)
                          /\ l.event = event /\ l.action \in NameToFunc})
<1>1. AreClients(A) /\ ClientsOf(UserFile) \in Seq(A)
  <2>1. IsFile(UserFile)
    BY UserFileType DEF Reads
  <2>2. IsList(UserFile) /\ \A x \in ToSet(UserFile) : x.kind = "clients" => IsList(x["clients"])
    BY <2>1 DEF IsFile
  <2>3. ClientsOf(UserFile) \in Seq(A)
    BY <2>2, ItemsType DEF ClientsOf
  <2>4. AreClients(A)
    BY <2>1 DEF IsFile, AreClients, Holds
  <2> QED BY <2>3, <2>4
<1>2. all \in Seq(X)
  BY <1>1, RuleLinesOfType
<1>3. RuleLinesOf(DefaultRest) = <<>> /\ RuleLinesOf(<<>>) = <<>>
  <2> DEFINE none == <<>>
  <2>1. ClientsOf(DefaultRest) = none /\ ClientsOf(none) = none
    BY DefaultItems, ItemsOfNone DEF ClientsOf
  <2>2. [i \in DOMAIN none |-> RuleLines(none[i])] = none
    OBVIOUS
  <2>3. FlattenSeq(none) = none
    BY FlattenEmpty
  <2> HIDE DEF none
  <2>4. RuleLinesOf(DefaultRest) = none /\ RuleLinesOf(none) = none
    BY <2>1, <2>2, <2>3 DEF RuleLinesOf
  <2> QED BY <2>4 DEF none
<1>4. RuleQueue(<<>>, <<>>) = <<>>
  <2> DEFINE none == <<>>
             T == {none}
             N == {}
             step == [p \in T \X N |-> RuleLine(p[1], p[2])]
  <2>1. IsRuleLine(step, N, T) /\ step \in [T \X N -> T] /\ none \in T
    BY DEF IsRuleLine
  <2> HIDE DEF step, T
  <2>2. PICK F : FoldsTo(F, N, T, none, step)
    BY <2>1, FoldExists
  <2>3. none \in Seq(N)
    OBVIOUS
  <2> HIDE DEF N, none
  <2>4. RuleQueue(none, none) = F[none]
    BY <2>1, <2>2, <2>3, RuleFold
  <2> QED BY <2>2, <2>4 DEF FoldsTo, none
<1>5. DefaultConf.rules = <<>>
  BY <1>3, <1>4, DefaultFields
<1>6. conf.rules = RuleQueue(<<>>, all)
  <2>1. conf = Read(file)
    BY DEF Reads
  <2>2. CASE Applies(file)
    BY <1>5, <2>1, <2>2, UserFields DEF Read, UserFile
  <2>3. CASE ~Applies(file)
    BY <1>3, <1>4, <1>5, <2>1, <2>3 DEF Read, UserFile
  <2> QED BY <2>2, <2>3
<1>7. ASSUME NEW name, NEW class, NEW event, ~NamedRules(class)
      PROVE  RuleApply(conf.rules, class, event)
               = [j \in DOMAIN Of(name, class, event) |-> Of(name, class, event)[j].action]
  <2> DEFINE S == {l \in ToSet(all) :
                     /\ Matches(l.client, name, class)
                     /\ l.event = event /\ l.action \in NameToFunc}
             W == Wanted(X, class, event)
  <2>1. \A i \in DOMAIN all : all[i] \in ToSet(all) /\ all[i] \in X
    BY <1>2 DEF ToSet
  <2>2. ASSUME NEW l \in ToSet(all), l \in X
        PROVE  l.class = class <=> Matches(l.client, name, class)
    <3>1. l.class = RuleKey(l.client)
      BY <2>2 DEF Lines
    <3>2. l.client.name # None => class \notin {l.client.name, l.client.class}
      BY <1>7 DEF NamedRules
    <3> QED BY <3>1, <3>2 DEF RuleKey, Matches
  <2>3. \A i \in DOMAIN all : all[i] \in S <=> all[i] \in W
    <3> HIDE DEF X, all
    <3> QED BY <2>1, <2>2 DEF Wanted
  <2> HIDE DEF S, W, X, all
  <2>4. Keep(all, S) = Keep(all, W)
    BY <1>2, <2>3, KeepEqual
  <2>5. RuleApply(conf.rules, class, event) = Actions(Keep(all, W))
    BY <1>2, <1>6, RulesFilled DEF W
  <2> QED BY <2>4, <2>5 DEF Actions, S
<1>8. \A name \in Names, class \in Classes, event \in RuleTitles :
        NamedRules(class) \/
        RuleApply(conf.rules, class, event)
          = [j \in DOMAIN Of(name, class, event) |-> Of(name, class, event)[j].action]
  <2> HIDE DEF Of
  <2> QED BY <1>7
<1> QED
  BY <1>8, Zenon DEF RulesAsWritten

-----------------------------------------------------------------------------
\* The key of a keysym carries it, shifted only if no key does unshifted.
LEMMA CodeIs ==
  ASSUME NEW map, NEW sym, NEW code, code = CodeOf(map, sym), code # NoCode
  PROVE  code \in Codes /\ (map[code][1] # sym => map[code][2] = sym)
<1> DEFINE With(level) == {c \in Codes : map[c][level] = sym}
<1>1. \A level : With(level) \subseteq Nat
  BY CodesAssumption
<1>2. CodeOf(map, sym) = IF With(1) # {} THEN Min(With(1))
                         ELSE IF With(2) # {} THEN Min(With(2)) ELSE NoCode
  BY DEF CodeOf
<1>3. CASE With(1) # {}
  <2>1. Min(With(1)) \in With(1)
    <3> DEFINE S == With(1)
    <3>1. S \subseteq Nat /\ S # {}
      BY <1>1, <1>3
    <3> HIDE DEF S
    <3>2. Min(S) \in S
      BY <3>1, LeastNat
    <3> QED BY <3>2 DEF S
  <2> HIDE DEF With
  <2>2. code \in With(1)
    BY <1>2, <1>3, <2>1
  <2> QED BY <2>2 DEF With
<1>4. CASE With(1) = {} /\ With(2) # {}
  <2>1. Min(With(2)) \in With(2)
    <3> DEFINE S == With(2)
    <3>1. S \subseteq Nat /\ S # {}
      BY <1>1, <1>4
    <3> HIDE DEF S
    <3>2. Min(S) \in S
      BY <3>1, LeastNat
    <3> QED BY <3>2 DEF S
  <2> HIDE DEF With
  <2>2. code \in With(2)
    BY <1>2, <1>4, <2>1
  <2> QED BY <2>2 DEF With
<1> HIDE DEF With
<1> QED
  BY <1>2, <1>3, <1>4

\* What xu_key_grab asks for, one by one
ShiftFor(map, b) ==
  IF CodeOf(map, b.on) # NoCode /\ map[CodeOf(map, b.on)][1] # b.on THEN {"Shift"} ELSE {}
CodesFor(code) == IF code = NoCode THEN Codes ELSE {code}

\* A combination is grabbed if it is one of them.
LEMMA KeyGrabIs ==
  ASSUME NEW map, NEW b, NEW g
  PROVE  g \in KeyGrab(map, b) <=>
           \E ign \in SUBSET Ignorable, c \in CodesFor(CodeOf(map, b.on)) :
             g = <<b.mask \cup ShiftFor(map, b) \cup ign, c>>
BY DEF KeyGrab, ShiftFor, CodesFor

\* A key grabbed for a binding is looked up to some binding.
LEMMA KeptIsBound ==
  ASSUME NEW map, NEW A, NEW q \in Seq(A), NEW b \in ToSet(q),
         b.mask \subseteq Modifiers \ Ignorable, CodeOf(map, b.on) # NoCode,
         NEW g \in KeyGrab(map, b)
  PROVE  Lookup(q, map, g[2], g[1]) # {}
<1> DEFINE code == CodeOf(map, b.on)
           shift == ShiftFor(map, b)
           sym == map[code][1]
           shsym == map[code][2]
<1>1. code \in Codes /\ (sym # b.on => shsym = b.on) /\ code # NoCode
  BY CodeIs
<1>2. PICK ign \in SUBSET Ignorable : g = <<b.mask \cup shift \cup ign, code>>
  BY <1>1, KeyGrabIs DEF CodesFor
<1> HIDE DEF code
<1>3. g[2] = code /\ g[1] = b.mask \cup shift \cup ign
  BY <1>2
<1>4. shift = IF sym # b.on /\ shsym = b.on THEN {"Shift"} ELSE {}
  BY <1>1 DEF ShiftFor, code
<1> HIDE DEF shift
<1>5. g[1] \ Ignorable = b.mask \cup shift
  BY <1>2, <1>3, <1>4, ModifiersAssumption
<1>6. b.on = IF shift = {} THEN sym ELSE shsym
  BY <1>1, <1>4
<1> DEFINE Match(k) ==
             LET s == IF sym # k.on /\ shsym = k.on THEN {"Shift"} ELSE {}
             IN  /\ k.mask \cup s = g[1] \ Ignorable
                 /\ k.on = (IF s = {} THEN sym ELSE shsym)
           found == {i \in DOMAIN q : Match(q[i])}
<1>7. PICK i \in DOMAIN q : q[i] = b
  BY DEF ToSet
<1>8. Match(b)
  <2> HIDE DEF sym, shsym
  <2> QED BY <1>4, <1>5, <1>6
<1> HIDE DEF Match
<1>9. found # {}
  BY <1>7, <1>8
<1>10. Lookup(q, map, g[2], g[1]) = IF found = {} THEN {} ELSE {q[Min(found)]}
  BY <1>3, Zenon DEF Lookup, Match
<1> HIDE DEF found
<1> QED
  BY <1>9, <1>10

\* The events not yet handled
Unread == [type : {"MappingNotify"}]
            \cup [type : {"KeyPress"}, code : Codes, state : SUBSET Modifiers]

\* The keys that are kept are those of the bindings and of the keyboard, but
\* while a change of it has still to be handled.
KeysKept ==
  /\ unread \in Seq(Unread)
  /\ phase = "running" /\ ~Changing(unread) => grabs = GrabKbd(conf.keys, keymap)

\* Nothing is kept before the configuration is applied.
LEMMA KeysKeptInit == Init => KeysKept
BY DEF Init, KeysKept

\* An event at the end or at the head of the queue
LEMMA UnreadAppend ==
  ASSUME NEW q \in Seq(Unread), NEW e \in Unread
  PROVE  /\ Append(q, e) \in Seq(Unread)
         /\ Changing(Append(q, e)) <=> Changing(q) \/ e.type = "MappingNotify"
<1> DEFINE u == Append(q, e)
           n == Len(q)
<1>1. /\ u \in Seq(Unread) /\ u[n + 1] = e /\ n \in Nat /\ \A i \in 1 .. n : u[i] = q[i]
      /\ DOMAIN q = 1 .. n /\ DOMAIN u = 1 .. n + 1
      /\ \A i : i \in 1 .. n + 1 <=> i \in 1 .. n \/ i = n + 1
  OBVIOUS
<1> HIDE DEF u, n
<1>2. Changing(u) <=> Changing(q) \/ e.type = "MappingNotify"
  BY <1>1 DEF Changing
<1> QED
  BY <1>1, <1>2 DEF u

\* The same for the event that is read.
LEMMA UnreadTail ==
  ASSUME NEW q \in Seq(Unread), q # <<>>
  PROVE  /\ Tail(q) \in Seq(Unread)
         /\ Changing(q) <=> Changing(Tail(q)) \/ Head(q).type = "MappingNotify"
<1> DEFINE t == Tail(q)
           n == Len(q)
<1>1. /\ t \in Seq(Unread) /\ n \in Nat \ {0} /\ Head(q) = q[1]
      /\ DOMAIN q = 1 .. n /\ DOMAIN t = 1 .. n - 1 /\ \A i \in 1 .. n - 1 : t[i] = q[i + 1]
  OBVIOUS
<1> HIDE DEF t, n
<1>2. Changing(q) => Changing(t) \/ Head(q).type = "MappingNotify"
  <2> SUFFICES ASSUME NEW i \in 1 .. n, q[i].type = "MappingNotify", i # 1
               PROVE  Changing(t)
    BY <1>1 DEF Changing
  <2> DEFINE j == i - 1
  <2>1. j \in 1 .. n - 1 /\ j + 1 = i
    BY <1>1
  <2> HIDE DEF j
  <2>2. j \in DOMAIN t /\ t[j] = q[i]
    BY <1>1, <2>1
  <2> QED BY <2>2 DEF Changing
<1>3. Changing(t) \/ Head(q).type = "MappingNotify" => Changing(q)
  <2>1. ASSUME NEW i \in 1 .. n - 1, t[i].type = "MappingNotify"
        PROVE  Changing(q)
    <3>1. i + 1 \in DOMAIN q /\ q[i + 1].type = "MappingNotify"
      BY <1>1, <2>1
    <3> QED BY <3>1 DEF Changing
  <2>2. Head(q).type = "MappingNotify" => Changing(q)
    <3>1. 1 \in DOMAIN q
      BY <1>1
    <3> QED BY <1>1, <3>1 DEF Changing
  <2> QED BY <1>1, <2>1, <2>2 DEF Changing
<1> QED
  BY <1>1, <1>2, <1>3 DEF t

\* Applying the configuration and handling the change of a keyboard grab anew; the
\* bindings stay as they are.
LEMMA KeysKeptNext == KeysKept /\ [Next]_vars => KeysKept'
<1> SUFFICES ASSUME KeysKept, [Next]_vars PROVE KeysKept'
  OBVIOUS
<1> USE DEF KeysKept
<1>1. CASE ScreenDefaults
  BY <1>1 DEF ScreenDefaults, Parse
<1>2. CASE RestDefaults
  BY <1>2 DEF RestDefaults, Parse
<1>3. CASE UserClients
  BY <1>3 DEF UserClients, Parse
<1>4. CASE UserBindings
  BY <1>4 DEF UserBindings, Parse
<1>5. CASE UserScreens
  BY <1>5 DEF UserScreens, Parse
<1>6. CASE UserMenu
  BY <1>6 DEF UserMenu, Parse
<1>7. CASE Apply
  BY <1>7 DEF Apply
<1>8. ASSUME NEW code \in Codes, NEW state \in SUBSET Modifiers, PressKey(code, state)
      PROVE  KeysKept'
  <2> DEFINE e == [type |-> "KeyPress", code |-> code, state |-> state]
  <2>1. e \in Unread /\ e.type # "MappingNotify"
    BY DEF Unread
  <2>2. unread' = Append(unread, e) /\ UNCHANGED <<phase, conf, keymap, grabs>>
    BY <1>8 DEF PressKey
  <2> HIDE DEF e
  <2>3. unread' \in Seq(Unread) /\ (Changing(unread') <=> Changing(unread))
    BY <2>1, <2>2, UnreadAppend
  <2> QED BY <2>2, <2>3
<1>9. CASE ChangeKeymap
  <2> DEFINE e == [type |-> "MappingNotify"]
  <2>1. e \in Unread /\ e.type = "MappingNotify"
    BY DEF Unread
  <2>2. unread' = Append(unread, e) /\ UNCHANGED phase
    BY <1>9 DEF ChangeKeymap
  <2> HIDE DEF e
  <2>3. unread' \in Seq(Unread) /\ Changing(unread')
    BY <2>1, <2>2, UnreadAppend
  <2> QED BY <2>2, <2>3
<1>10. CASE HandleMappingNotify
  <2>1. unread # <<>> /\ unread' = Tail(unread) /\ UNCHANGED <<conf, keymap>>
        /\ grabs' = GrabKbd(conf.keys, keymap)
    BY <1>10 DEF HandleMappingNotify, Reading
  <2>2. unread' \in Seq(Unread)
    BY <2>1, UnreadTail
  <2> QED BY <2>1, <2>2
<1>11. CASE HandleKeyPress
  <2>1. /\ unread # <<>> /\ unread' = Tail(unread) /\ Head(unread).type # "MappingNotify"
        /\ UNCHANGED <<phase, conf, keymap, grabs>>
    BY <1>11 DEF HandleKeyPress, Reading
  <2>2. unread' \in Seq(Unread) /\ (Changing(unread') <=> Changing(unread))
    BY <2>1, UnreadTail
  <2> QED BY <2>1, <2>2
<1>12. ASSUME NEW n \in Names, NEW c \in Classes, NEW t \in Titles, Appear(n, c, t)
       PROVE  KeysKept'
  BY <1>12 DEF Appear
<1>13. CASE Clear
  BY <1>13 DEF Clear
<1>14. CASE UNCHANGED vars
  BY <1>14 DEF vars
<1> QED
  BY <1>1, <1>2, <1>3, <1>4, <1>5, <1>6, <1>7, <1>8, <1>9, <1>10, <1>11, <1>12, <1>13, <1>14
     DEF Next

\* No lock is a modifier of a binding.
LEMMA KeyMasks ==
  ASSUME file \in Files \cup {None}
  PROVE  \A b \in ToSet(Read(file).keys) : b.mask \subseteq Modifiers \ Ignorable
<1> DEFINE A == ToSet(DefaultKeys) \cup Holds(UserFile, "bindings", "keys")
<1>1. \A b \in A : b.mask \subseteq Modifiers \ Ignorable
  <2>1. \A b \in ToSet(DefaultKeys) : b.mask \subseteq Modifiers \ Ignorable
    BY DefaultsAssumption DEF AreBindings
  <2>2. \A b \in Holds(UserFile, "bindings", "keys") : b.mask \subseteq Modifiers \ Ignorable
    BY UserFileType DEF IsFile, AreBindings, Holds
  <2> QED BY <2>1, <2>2
<1>2. Read(file).keys \in Seq(A)
  BY KeysRead
<1> HIDE DEF A
<1> QED
  BY <1>1, <1>2, ElementsOf

\* Then what is kept is bound, and what is bound is kept.
LEMMA GrabsBound ==
  ASSUME Reads, KeysKept
  PROVE  GrabbedIsBound
<1> SUFFICES ASSUME phase = "running", ~Changing(unread),
                    \A b \in ToSet(conf.keys) : CodeOf(keymap, b.on) # NoCode
             PROVE  /\ \A g \in grabs : Lookup(conf.keys, keymap, g[2], g[1]) # {}
                    /\ \A b \in ToSet(conf.keys) :
                         \E g \in grabs : Lookup(<<b>>, keymap, g[2], g[1]) # {}
  BY DEF GrabbedIsBound
<1> DEFINE keys == conf.keys
           A == ToSet(DefaultKeys) \cup Holds(UserFile, "bindings", "keys")
<1>1. keys \in Seq(A) /\ \A b \in ToSet(keys) : b.mask \subseteq Modifiers \ Ignorable
  <2>1. conf = Read(file) /\ file \in Files \cup {None}
    BY DEF Reads
  <2>2. Read(file).keys \in Seq(A)
    BY <2>1, KeysRead
  <2> QED BY <2>1, <2>2, KeyMasks
<1>2. grabs = UNION {KeyGrab(keymap, b) : b \in ToSet(keys)}
  BY DEF KeysKept, GrabKbd
<1> HIDE DEF A, keys
<1>3. \A b \in ToSet(keys) : CodeOf(keymap, b.on) # NoCode
  BY DEF keys
<1>4. ASSUME NEW g \in grabs
      PROVE  Lookup(keys, keymap, g[2], g[1]) # {}
  <2>1. PICK b \in ToSet(keys) : g \in KeyGrab(keymap, b)
    BY <1>2
  <2> QED BY <1>1, <1>3, <2>1, KeptIsBound
<1>5. ASSUME NEW b \in ToSet(keys)
      PROVE  \E g \in grabs : Lookup(<<b>>, keymap, g[2], g[1]) # {}
  <2> DEFINE g == <<b.mask \cup ShiftFor(keymap, b) \cup {}, CodeOf(keymap, b.on)>>
             one == <<b>>
  <2>1. g \in KeyGrab(keymap, b)
    BY <1>3, KeyGrabIs DEF CodesFor
  <2>2. one \in Seq({b}) /\ b \in ToSet(one)
    BY DEF ToSet
  <2> HIDE DEF g, one
  <2>3. Lookup(one, keymap, g[2], g[1]) # {}
    BY <1>1, <1>3, <2>1, <2>2, KeptIsBound
  <2>4. g \in grabs
    BY <1>2, <2>1
  <2> QED BY <2>3, <2>4 DEF one
<1> QED
  BY <1>4, <1>5 DEF keys

-----------------------------------------------------------------------------
(* The theorems.                                                           *)

\* At every step the configuration is what the defaults and the sections read so
\* far make of it, and a client has the group the directives gave it: nothing
\* but reading writes the queues before they are cleared.
THEOREM ReadsInvariant == Spec => []Reads
<1>1. Init => Reads
  BY ReadsInit
<1>2. Reads /\ [Next]_vars => Reads'
  BY ReadsNext
<1> QED
  BY <1>1, <1>2, PTL DEF Spec

\* Whatever the sections of a file bind, bind anew and take back, a key, a button
\* and a name of the menu has what its last line gives it, "unmap" nothing, once
\* and in the order of those lines (conf_bind_kbd, conf_bind_mouse, conf_cmd_add).
THEOREM BindingsAsWrittenHolds == Spec => []BindingsAsWritten
<1>1. Reads => BindingsAsWritten
  <2> SUFFICES ASSUME Reads, phase = "running" PROVE BindingsAsWritten
    BY DEF BindingsAsWritten
  <2>1. conf = Read(file) /\ file \in Files \cup {None}
    BY DEF Reads
  <2>2. conf.keys = NotUnmap(InForce(DefaultKeys \o KeysOf(UserFile),
                                     LAMBDA b : IsKeysym(b.on), SameBinding))
    BY <2>1, KeysRead
  <2>3. conf.mice = NotUnmap(InForce(DefaultMice \o MiceOf(UserFile), IsButton, SameBinding))
    BY <2>1, MiceRead
  <2>4. conf.cmds = InForce(DefaultMenu \o MenuOf(UserFile),
                            LAMBDA m : m.cmd \notin TooLong, SameEntry)
    BY <2>1, CmdsRead
  <2> QED
    BY <2>2, <2>3, <2>4, Zenon DEF BindingsAsWritten
<1> QED
  BY <1>1, ReadsInvariant, PTL

\* On every keyboard whose keys carry the keysyms of the bindings, and after every
\* change of it that was handled, a key that is kept from the applications runs a
\* command, with any lock, and every binding has a key that is kept
\* (xu_key_grab against xev_handle_keypress).
THEOREM GrabbedIsBoundHolds == Spec => []GrabbedIsBound
<1>1. Init => KeysKept
  BY KeysKeptInit
<1>2. KeysKept /\ [Next]_vars => KeysKept'
  BY KeysKeptNext
<1>3. Spec => []KeysKept
  BY <1>1, <1>2, PTL DEF Spec
<1>4. Reads /\ KeysKept => GrabbedIsBound
  BY GrabsBound
<1> QED
  BY <1>3, <1>4, ReadsInvariant, PTL

\* Of any number of autogroup directives the last for the name and the class of
\* a client gives it its group, and failing one the last for its class alone
\* (group_autogroup: "The more specific last match wins.").
THEOREM MostSpecificWinsHolds == Spec => []MostSpecificWins
<1>1. Reads => MostSpecificWins
  BY SpecificRead
<1> QED
  BY <1>1, ReadsInvariant, PTL

\* For any clients and rules of a file, rule_apply runs for a client and an event
\* each command of the rules of the sections that match the client once, in the
\* order of the file (rule_config keeps one rule for each class and event),
\* unless its class is one that a section with a name mixes up (NamedRules).
THEOREM RulesAsWrittenHolds == Spec => []RulesAsWritten
<1>1. Reads => RulesAsWritten
  <2>1. CASE phase = "running"
    BY <2>1, RulesRead
  <2>2. CASE phase # "running"
    BY <2>2 DEF RulesAsWritten
  <2> QED BY <2>1, <2>2
<1> QED
  BY <1>1, ReadsInvariant, PTL

\* Every output and every group has the settings of the last section for it, or
\* the defaults of the program, for any sections, titles and outputs
\* (config_internalise, config_intern_screen, config_intern_group).
THEOREM ScreensAsWrittenHolds == Spec => []ScreensAsWritten
<1>1. Reads => ScreensAsWritten
  <2>1. CASE phase = "running"
    BY <2>1, ScreensRead DEF Reads
  <2>2. CASE phase # "running"
    BY <2>2 DEF ScreensAsWritten
  <2> QED BY <2>1, <2>2
<1> QED
  BY <1>1, ReadsInvariant, PTL

=============================================================================
